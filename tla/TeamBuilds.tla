----------------------------- MODULE TeamBuilds -----------------------------
(***************************************************************************)
(* The operator's own team: the fields of the selection page, the details  *)
(* of its members (moves and stat points), the presets and their file      *)
(* form, and the team a match is confirmed with.  The details are staged   *)
(* in two places, the window and its controller, and belong to a team only *)
(* by the names they carry.                                                *)
(*                                                                         *)
(* One details record stands for those of all members.  Texts other than   *)
(* the Pokemon's names, and the hash of the canonical JSON, are left out.  *)
(***************************************************************************)
EXTENDS Naturals, FiniteSets, FiniteSetsExt

CONSTANTS
  Places,        \* of the team's fields
  Pokemon,       \* names that can be typed
  Details,       \* what can be entered: [moves : Nat, points : a function to Nat]
  PresetNames    \* normalised names of presets

(* Six fields in the program.                                              *)
ASSUME PlacesAssumption == Places # {}

VARIABLES
  presets,     \* self_team_presets, by normalised name, which is UNIQUE
  lastUsed,    \* operator_preferences.last_used_self_team_preset_id
  teamPage,    \* the window's fields and _staged_self_team_build
  drafted,     \* the controller's _staged_self_team_build
  match        \* the session: NO_ACTIVE_MATCH, SELECTION_OPEN, or confirmed

teamVars == <<presets, lastUsed, teamPage, drafted, match>>

Missing == "missing"
Typed == [Places -> Pokemon \cup {Missing}]
BlankFields == [p \in Places |-> Missing]

(* validate_team: every field filled, no name twice.                       *)
IsTeam(t) == Missing \notin {t[p] : p \in Places}
             /\ \A p, q \in Places : p # q => t[p] # t[q]
OwnTeams == {t \in Typed : IsTeam(t)}

(* ChampionsStatPoints, ChampionsPokemonBuild: 1 to 4 moves, at most 32    *)
(* points a stat and 66 in all.                                            *)
PerStat == 32
InAll == 66
IsDetailed(d) ==
  /\ d.moves \in 1..4
  /\ \A s \in DOMAIN d.points : d.points[s] <= PerStat
  /\ MapThenSumSet(LAMBDA s : d.points[s], DOMAIN d.points) <= InAll

NoDetails == [moves |-> 0, points |-> [s \in {} |-> 0]]
NoBuild == [names |-> BlankFields, details |-> NoDetails]
Builds == [names : OwnTeams, details : {d \in Details : IsDetailed(d)}]

(* Mutant: the members are compared without their order. *)
NamesMatchUnordered(b, t) == {b.names[p] : p \in Places} = {t[p] : p \in Places}

(* team_build.pokemon_names against the six names.                         *)
NamesMatch(b, t) == b.names = t

BuildFits(b, t) == b = NoBuild \/ NamesMatch(b, t)
OnlyIfNamed(b, t) == IF b # NoBuild /\ NamesMatch(b, t) THEN b ELSE NoBuild

NoPreset == [team |-> BlankFields, build |-> NoBuild]
NoMatch == [state |-> "none", team |-> BlankFields, build |-> NoBuild]

FieldsAreEditable == match.state \in {"none", "open"}

(***************************************************************************)
(* render_view, from the operator view: the details of the confirmed       *)
(* facts, else those drafted, replace the window's; no details leave the   *)
(* window's alone unless facts are confirmed.                              *)
(***************************************************************************)
Shows(p, view, m) ==
  LET confirmed == m.state = "confirmed"
      build == IF confirmed THEN m.build ELSE view
  IN  [fields |-> IF confirmed THEN m.team ELSE p.fields,
       build |-> IF build # NoBuild \/ confirmed THEN build ELSE p.build]

(* _autoload_last_used_self_team_preset, when the window opens.            *)
Opened(name, m) ==
  LET p == [fields |-> BlankFields, build |-> NoBuild]
      preset == IF name = Missing THEN NoPreset ELSE presets[name]
  IN  IF m.state = "confirmed" THEN Shows(p, NoBuild, m)
      ELSE [fields |-> preset.team, build |-> preset.build]

TeamInit ==
  /\ presets = [n \in PresetNames |-> NoPreset] /\ lastUsed = Missing
  /\ teamPage = [fields |-> BlankFields, build |-> NoBuild]
  /\ drafted = NoBuild /\ match = NoMatch
-----------------------------------------------------------------------------
(* Mutant: only the window forgets the details. *)
TypeOwnNameInWindow(place, name) ==
  LET fields == [teamPage.fields EXCEPT ![place] = name]
      keeps == teamPage.build = NoBuild \/ NamesMatch(teamPage.build, fields)
  IN  /\ FieldsAreEditable
      /\ teamPage' = [fields |-> fields, build |-> IF keeps THEN teamPage.build ELSE NoBuild]
      /\ UNCHANGED <<presets, lastUsed, drafted, match>>

(* _on_self_team_name_changed: details of other names are dropped from     *)
(* both places.                                                            *)
TypeOwnName(place, name) ==
  LET fields == [teamPage.fields EXCEPT ![place] = name]
      keeps == teamPage.build = NoBuild \/ NamesMatch(teamPage.build, fields)
  IN  /\ FieldsAreEditable
      /\ teamPage' = [fields |-> fields, build |-> IF keeps THEN teamPage.build ELSE NoBuild]
      /\ drafted' = IF keeps THEN drafted ELSE NoBuild
      /\ UNCHANGED <<presets, lastUsed, match>>

(* The editor's dialog takes over details with four moves; fewer make      *)
(* set_build raise before it is shown.                                     *)
Opens(b) == b = NoBuild \/ b.details.moves = 4

(* _on_edit_self_team_build: the dialog starts from the details staged for *)
(* the names in the fields, else from the names; what is confirmed in it   *)
(* is staged, whatever names were typed there.                             *)
EditDetails(b) ==
  /\ FieldsAreEditable
  /\ Opens(OnlyIfNamed(teamPage.build, teamPage.fields))
  /\ drafted' = b /\ teamPage' = Shows([teamPage EXCEPT !.build = b], b, match)
  /\ UNCHANGED <<presets, lastUsed, match>>

(* save_ and update_self_team_preset: refused unless the fields are a team *)
(* and the details, if any, are of it; the row of an update may be renamed *)
(* to a name no other row has.                                             *)
Fits == IsTeam(teamPage.fields) /\ BuildFits(teamPage.build, teamPage.fields)
RowToStore == [team |-> teamPage.fields, build |-> teamPage.build]

SavePreset(name) ==
  /\ FieldsAreEditable
  /\ presets' = IF Fits /\ presets[name] = NoPreset
                  THEN [presets EXCEPT ![name] = RowToStore] ELSE presets
  /\ teamPage' = Shows(teamPage, drafted, match)
  /\ UNCHANGED <<lastUsed, drafted, match>>

UpdatePreset(old, new) ==
  LET free == new = old \/ presets[new] = NoPreset
  IN  /\ FieldsAreEditable /\ presets[old] # NoPreset
      /\ IF Fits /\ free
           THEN /\ presets' = [presets EXCEPT ![old] = NoPreset, ![new] = RowToStore]
                /\ lastUsed' = IF lastUsed = old THEN new ELSE lastUsed
           ELSE UNCHANGED <<presets, lastUsed>>
      /\ teamPage' = Shows(teamPage, drafted, match)
      /\ UNCHANGED <<drafted, match>>

(* _on_use_self_team_preset: nothing when the preference cannot be stored. *)
UsePreset(name, stored) ==
  LET preset == presets[name]
  IN  /\ FieldsAreEditable /\ preset # NoPreset
      /\ IF stored
           THEN /\ lastUsed' = name /\ drafted' = preset.build
                /\ teamPage' = Shows([fields |-> preset.team, build |-> preset.build],
                                     preset.build, match)
           ELSE teamPage' = Shows(teamPage, drafted, match) /\ UNCHANGED <<lastUsed, drafted>>
      /\ UNCHANGED <<presets, match>>

(* Mutant: the preference keeps the deleted row's id. *)
DeletePresetDangling(name, stored) ==
  /\ FieldsAreEditable /\ presets[name] # NoPreset
  /\ presets' = IF stored THEN [presets EXCEPT ![name] = NoPreset] ELSE presets
  /\ drafted' = NoBuild
  /\ teamPage' = Shows([teamPage EXCEPT !.build = NoBuild], drafted, match)
  /\ UNCHANGED <<lastUsed, match>>

(* _on_delete_self_team_preset: whether or not the row went, the staged    *)
(* details are dropped; but the view rendered last is older than that, and *)
(* puts those drafted back into the window.  ON DELETE SET NULL.           *)
DeletePreset(name, stored) ==
  /\ FieldsAreEditable /\ presets[name] # NoPreset
  /\ presets' = IF stored THEN [presets EXCEPT ![name] = NoPreset] ELSE presets
  /\ lastUsed' = IF stored /\ lastUsed = name THEN Missing ELSE lastUsed
  /\ drafted' = NoBuild
  /\ teamPage' = Shows([teamPage EXCEPT !.build = NoBuild], drafted, match)
  /\ UNCHANGED <<match>>

(* parse_team_import: a file of names, or of names and details, refused    *)
(* unless the names are a team and the details legal.                      *)
IsImportable(fields, details) ==
  IsTeam(fields) /\ (details = NoDetails \/ IsDetailed(details))

ImportTeam(fields, details) ==
  LET build == IF details = NoDetails THEN NoBuild
               ELSE [names |-> fields, details |-> details]
  IN  /\ FieldsAreEditable /\ IsImportable(fields, details)
      /\ drafted' = build
      /\ teamPage' = Shows([fields |-> fields, build |-> build], build, match)
      /\ UNCHANGED <<presets, lastUsed, match>>

(* _on_export_self_team: what the file says; details of other names stay   *)
(* out of it, and there is none unless the fields are a team.              *)
Exported ==
  IF FieldsAreEditable /\ IsTeam(teamPage.fields)
  THEN [team |-> teamPage.fields, build |-> OnlyIfNamed(teamPage.build, teamPage.fields)]
  ELSE NoPreset
-----------------------------------------------------------------------------
OpenMatch ==
  /\ match.state = "none" /\ match' = [NoMatch EXCEPT !.state = "open"]
  /\ teamPage' = Shows(teamPage, drafted, match')
  /\ UNCHANGED <<presets, lastUsed, drafted>>

(* _on_confirm_facts, confirm_selection_facts: the window's details if     *)
(* they are of the six names, else the controller's if those are.          *)
ConfirmTeam ==
  LET given == OnlyIfNamed(teamPage.build, teamPage.fields)
      build == IF given # NoBuild THEN given ELSE OnlyIfNamed(drafted, teamPage.fields)
  IN  /\ match.state = "open" /\ IsTeam(teamPage.fields)
      /\ match' = [state |-> "confirmed", team |-> teamPage.fields, build |-> build]
      /\ drafted' = build /\ teamPage' = Shows(teamPage, build, match')
      /\ UNCHANGED <<presets, lastUsed>>

(* The match is over or aborted; the fields and the details stay.          *)
CloseMatch ==
  /\ match.state # "none" /\ match' = NoMatch
  /\ teamPage' = Shows(teamPage, drafted, NoMatch)
  /\ UNCHANGED <<presets, lastUsed, drafted>>

(* A new process: the page is that of the confirmed facts, or the preset   *)
(* used last.                                                              *)
RestartTeam ==
  /\ teamPage' = Opened(lastUsed, match)
  /\ drafted' = IF match.state = "confirmed" THEN NoBuild ELSE teamPage'.build
  /\ UNCHANGED <<presets, lastUsed, match>>

TeamNext ==
  \/ \E p \in Places, n \in Pokemon \cup {Missing} : TypeOwnName(p, n)
  \/ \E b \in Builds : EditDetails(b)
  \/ \E n \in PresetNames : SavePreset(n)
  \/ \E n, m \in PresetNames : UpdatePreset(n, m)
  \/ \E n \in PresetNames, stored \in BOOLEAN : UsePreset(n, stored) \/ DeletePreset(n, stored)
  \/ \E t \in Typed, d \in Details \cup {NoDetails} : ImportTeam(t, d)
  \/ OpenMatch \/ ConfirmTeam \/ CloseMatch \/ RestartTeam

TeamSpec == TeamInit /\ [][TeamNext]_teamVars
-----------------------------------------------------------------------------
(* Besides the types: the preference names a preset that is there, so that *)
(* the page is never opened on a deleted one.                              *)
TeamTypeOK ==
  /\ presets \in [PresetNames -> [team : OwnTeams, build : Builds \cup {NoBuild}] \cup {NoPreset}]
  /\ lastUsed \in {n \in PresetNames : presets[n] # NoPreset} \cup {Missing}
  /\ teamPage \in [fields : Typed, build : Builds \cup {NoBuild}]
  /\ drafted \in Builds \cup {NoBuild}
  /\ match.state \in {"none", "open", "confirmed"} /\ match.build \in Builds \cup {NoBuild}

(* Wherever a team is kept (a preset, a file, the facts of a match), the   *)
(* details kept with it are those of its own members, in their places.     *)
KeptBuildsFit ==
  \A r \in {presets[n] : n \in PresetNames} \cup {Exported, match} :
    r.build = NoBuild \/ r.build.names = r.team

(* A match is confirmed with the details its window shows, or with none    *)
(* when those are of other names: never with details the operator has seen *)
(* dropped from the page.                                                  *)
ConfirmedBuildIsShown ==
  [][match'.state = "confirmed" /\ match.state # "confirmed" =>
       match'.build = IF teamPage.build.names = teamPage.fields
                      THEN teamPage.build ELSE NoBuild]_teamVars
=============================================================================
