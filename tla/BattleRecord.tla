---------------------------- MODULE BattleRecord ----------------------------
(***************************************************************************)
(* The confirmed state of one side, turn by turn: the state sheet the      *)
(* operator confirms, the result sheet of the turn, the draft of the next  *)
(* turn derived from both, the memory of each Pokemon's HP and the switch  *)
(* confirmation, as domain/turn_state.py, battle_memory.py,                *)
(* legal_switches.py, ui/turn_state_flow.py and the battle record window   *)
(* keep them.                                                              *)
(*                                                                         *)
(* One ability stage stands for the seven; the HP stands for HP and major  *)
(* status, which are remembered together.  Side effects, weather and       *)
(* terrain follow the same rule of derivation and are left out.  A field   *)
(* known to be v is the set {v}, an unknown one is empty.  An HP carries   *)
(* the Pokemon it was confirmed for.                                       *)
(***************************************************************************)
EXTENDS Integers, FiniteSets

CONSTANTS
  Team,          \* the three Pokemon of the applied selection
  MaxStage,      \* the stages go from -MaxStage to MaxStage (6 in the code)
  MaxTurn        \* bound: turns of the match

ASSUME TeamAssumption == IsFiniteSet(Team) /\ Cardinality(Team) >= 2
ASSUME StageAssumption == MaxStage \in Nat \ {0} /\ MaxTurn \in Nat \ {0}

Unknown == {}
Levels == {"HALF", "ZERO"}
Stages == (0 - MaxStage)..MaxStage
Hps == [of : Team, level : Levels]

Known(values) == {Unknown} \cup {{v} : v \in values}

ClampStage(s) == IF s > MaxStage THEN MaxStage
                 ELSE IF s < 0 - MaxStage THEN 0 - MaxStage ELSE s

(* What is observed of a field at the end of a turn. *)
Unchanged == [seen |-> "UNCHANGED", value |-> Unknown]
Unseen == [seen |-> "UNKNOWN", value |-> Unknown]
Changed(known) == [seen |-> "CHANGED", value |-> known]

NoState == [turn |-> 0, active |-> Unknown, hp |-> Unknown, stage |-> Unknown]
NoResult == [turn |-> 0]

VARIABLES
  live,        \* turn; phase of the session
  confirmed,   \* the ConfirmedTurnState of the latest confirmed turn
  memory,      \* Team -> HP remembered
  bench,       \* the latest LegalSwitchConfirmation: turn and names
  result,      \* the ActionResultDelta NEXT TURN has to work from, turn 0 when none
  draft,       \* the NextTurnStateDraft not confirmed yet, turn 0 when none
  sheet,       \* the state editor
  change       \* the result editor: fields and destination

recordVars == <<live, confirmed, memory, bench, result, draft, sheet, change>>

(* The result editor after a reset.  "by" tells how its stage was entered  *)
(* and "turn" in which turn anything was; the program keeps neither.       *)
Untouched ==
  [hp |-> Unchanged, stage |-> Unchanged, spin |-> 0, to |-> Unknown,
   by |-> "nobody", turn |-> 0]

(* A rendering for another turn or reviewed board empties the editor. *)
Renewed(e) == Untouched

(* The sheet of a new turn: the draft's values; a first turn's unknown     *)
(* stages become zero.                                                     *)
Loaded(d) ==
  [active |-> d.active, hp |-> {h.level : h \in d.hp},
   stage |-> IF d.turn = 0 THEN {0} ELSE d.stage]

RecordInit ==
  /\ live = [turn |-> 1, phase |-> "TURN_CAPTURE_PENDING"]
  /\ confirmed = NoState /\ result = NoResult /\ draft = NoState
  /\ memory = [p \in Team |-> Unknown]
  /\ bench = [turn |-> 0, names |-> {}]
  /\ sheet = Loaded(NoState)
  /\ change = Untouched
-----------------------------------------------------------------------------
Capturing == live.phase = "TURN_CAPTURE_PENDING"
Recording == live.phase = "TURN_ADVICE_READY"

DraftIsOpen == draft.turn # 0

(* Any rendering of the page while the board awaits confirmation: the      *)
(* stages are those of the draft again; names and HP the operator touched  *)
(* are left alone.                                                         *)
RenderSheet ==
  /\ Capturing
  /\ sheet' = [sheet EXCEPT !.stage =
       IF DraftIsOpen THEN draft.stage
       ELSE IF sheet.stage = Unknown THEN {0} ELSE sheet.stage]
  /\ UNCHANGED <<live, confirmed, memory, bench, result, draft, change>>

EditSheet ==
  /\ Capturing
  /\ \/ \E p \in Team : sheet' = [sheet EXCEPT !.active = {p}]
     \/ \E l \in Levels : sheet' = [sheet EXCEPT !.hp = {l}]
     \/ \E s \in Known(Stages) : sheet' = [sheet EXCEPT !.stage = s]
  /\ UNCHANGED <<live, confirmed, memory, bench, result, draft, change>>

(* The card of an effect raises the stage on the sheet, unknown counts as 0. *)
ApplyReviewEffect ==
  /\ Capturing
  /\ sheet' = [sheet EXCEPT !.stage =
       IF sheet.stage = Unknown THEN {1} ELSE {ClampStage(s + 1) : s \in sheet.stage}]
  /\ UNCHANGED <<live, confirmed, memory, bench, result, draft, change>>

ConfirmedFrom(p, hp) ==
  [turn |-> live.turn, active |-> {p}, hp |-> hp, stage |-> sheet.stage]

Remembered(p, hp) == [memory EXCEPT ![p] = hp]

(* CONFIRM TURN FACTS: the sheet becomes the confirmed state and the HP of *)
(* the active is remembered.  The reviewed board is new, so the result     *)
(* editor starts empty.                                                    *)
ConfirmBoard ==
  /\ Capturing
  /\ \E p \in sheet.active, l \in sheet.hp :
       LET hp == {[of |-> p, level |-> l]}
       IN  /\ confirmed' = ConfirmedFrom(p, hp)
           /\ memory' = Remembered(p, hp)
  /\ live' = [live EXCEPT !.phase = "TURN_REVIEWED"]
  /\ draft' = NoState
  /\ change' = Renewed(change)
  /\ UNCHANGED <<bench, result, sheet>>
-----------------------------------------------------------------------------
Fainted(p) == \E h \in memory[p] : h.level = "ZERO"

SwitchCandidates == {p \in Team \ confirmed.active : ~Fainted(p)}

(* The operator confirms a selection of the candidates, or none. *)
ConfirmSwitches ==
  /\ live.phase = "TURN_REVIEWED"
  /\ \E names \in SUBSET SwitchCandidates :
       bench' = [turn |-> live.turn, names |-> names]
  /\ UNCHANGED <<live, confirmed, memory, result, draft, sheet, change>>

(* The confirmation found for the current board. *)
BenchIsBound == bench.turn = live.turn

(* What the provider-ready gate derives again from the memory. *)
BenchIsLegal ==
  /\ bench.names \subseteq Team \ confirmed.active
  /\ \A p \in bench.names : ~Fainted(p)

ProviderReady ==
  /\ confirmed.turn = live.turn /\ draft.turn <= live.turn
  /\ BenchIsBound /\ BenchIsLegal

(* The advice is asked for, answered and applied. *)
TakeAdvice ==
  /\ live.phase = "TURN_REVIEWED" /\ ProviderReady
  /\ live' = [live EXCEPT !.phase = "TURN_ADVICE_READY"]
  /\ UNCHANGED <<confirmed, memory, bench, result, draft, sheet, change>>
-----------------------------------------------------------------------------
Entered(e) == change' = [e EXCEPT !.turn = live.turn]

(* The operator's entries on the result page.  The spin box marks the      *)
(* stage as changed only when its number changes.                          *)
EnterHp ==
  \E h \in {Unchanged, Unseen} \cup {Changed({l}) : l \in Levels} :
    Entered([change EXCEPT !.hp = h])

EnterStage ==
  \/ \E s \in Stages \ {change.spin} :
       Entered([change EXCEPT !.spin = s, !.stage = Changed({s}), !.by = "operator"])
  \/ \E d \in {Unchanged, Unseen} : Entered([change EXCEPT !.stage = d])

(* The result editor names the active after the turn; its options leave    *)
(* out the confirmed one.                                                  *)
EnterActive ==
  \E to \in Known(Team \ confirmed.active) : Entered([change EXCEPT !.to = to])

(* The effect proposed for the action entered is applied: it counts from   *)
(* the number in the editor.                                               *)
ApplyResultEffect ==
  LET s == ClampStage(change.spin + 1)
  IN  Entered([change EXCEPT !.spin = s, !.stage = Changed({s}),
                 !.by = IF change.by = "operator" THEN "operator" ELSE "effect"])

EnterResult ==
  /\ Recording
  /\ EnterHp \/ EnterStage \/ EnterActive \/ ApplyResultEffect
  /\ UNCHANGED <<live, confirmed, memory, bench, result, draft, sheet>>
-----------------------------------------------------------------------------
(* Mutant: a switch changes the active and resets the stages only. *)
SwitchBaseKeepingHp(p) ==
  [active |-> Changed({p}), stage |-> Changed({0}), hp |-> Unchanged]

(* The delta of a switch: stages back to zero, the HP remembered of the    *)
(* destination or unknown; explicit entries go on top.                     *)
SwitchBase(p) ==
  [active |-> Changed({p}), stage |-> Changed({0}),
   hp |-> IF memory[p] = Unknown THEN Unseen ELSE Changed(memory[p])]

Over(base, manual) == IF manual = Unchanged THEN base ELSE manual

(* The HP entered is that of the active after the turn, p. *)
ManualHp(p) ==
  [change.hp EXCEPT !.value = {[of |-> p, level |-> l] : l \in change.hp.value}]

Delta ==
  IF change.to = Unknown
  THEN [active |-> Unchanged, stage |-> change.stage,
        hp |-> ManualHp(CHOOSE p \in Team : p \in confirmed.active)]
  ELSE LET p == CHOOSE q \in Team : q \in change.to
       IN  [active |-> SwitchBase(p).active,
            stage |-> Over(SwitchBase(p).stage, change.stage),
            hp |-> Over(SwitchBase(p).hp, ManualHp(p))]

(* A faint and a new active are refused together. *)
Conflict == change.to # Unknown /\ change.hp = Changed({"ZERO"})

Derived(previous, d) == CASE d.seen = "CHANGED" -> d.value
                          [] d.seen = "UNCHANGED" -> previous
                          [] OTHER -> Unknown

DerivedDraft(d) ==
  [turn |-> confirmed.turn + 1,
   active |-> Derived(confirmed.active, d.active),
   hp |-> Derived(confirmed.hp, d.hp),
   stage |-> Derived(confirmed.stage, d.stage)]

ResultRow(d) == [turn |-> confirmed.turn, delta |-> d]

(* The next turn: the draft, its sheet and an empty result editor. *)
Advanced(d) ==
  /\ live.turn < MaxTurn
  /\ live' = [turn |-> live.turn + 1, phase |-> "TURN_CAPTURE_PENDING"]
  /\ result' = NoResult
  /\ draft' = DerivedDraft(d)
  /\ sheet' = Loaded(DerivedDraft(d))
  /\ change' = Renewed(change)

(* NEXT TURN on the result page writes the result and goes on ... *)
RecordAndAdvance ==
  /\ Recording /\ ~Conflict
  /\ Advanced(Delta)
  /\ UNCHANGED <<confirmed, memory, bench>>

(* ... or the process stops, or the second transaction fails, between the  *)
(* two.                                                                    *)
RecordOnly ==
  /\ Recording /\ ~Conflict
  /\ result' = ResultRow(Delta)
  /\ live' = [live EXCEPT !.phase = "TURN_RECORDED"]
  /\ UNCHANGED <<confirmed, memory, bench, draft, sheet, change>>

(* NEXT TURN of a recorded turn works from the stored result. *)
AdvanceRecorded ==
  /\ live.phase = "TURN_RECORDED" /\ result.turn = confirmed.turn
  /\ Advanced(result.delta)
  /\ UNCHANGED <<confirmed, memory, bench>>

(* The window is opened again: the editors are new. *)
ReopenRecord ==
  /\ sheet' = IF Capturing THEN Loaded(IF DraftIsOpen THEN draft ELSE NoState)
              ELSE Loaded(NoState)
  /\ change' = Untouched
  /\ UNCHANGED <<live, confirmed, memory, bench, result, draft>>

RecordNext ==
  \/ RenderSheet \/ EditSheet \/ ApplyReviewEffect \/ ConfirmBoard
  \/ ConfirmSwitches \/ TakeAdvice \/ EnterResult
  \/ RecordAndAdvance \/ RecordOnly \/ AdvanceRecorded \/ ReopenRecord

RecordSpec == RecordInit /\ [][RecordNext]_recordVars
-----------------------------------------------------------------------------
RecordTypeOK ==
  /\ live.turn \in 1..MaxTurn
  /\ live.phase \in {"TURN_CAPTURE_PENDING", "TURN_REVIEWED", "TURN_ADVICE_READY",
                      "TURN_RECORDED"}
  /\ \A st \in {confirmed, draft} :
       /\ st.turn \in 0..live.turn /\ st.active \in Known(Team)
       /\ st.hp \in Known(Hps) /\ st.stage \in Known(Stages)
  /\ memory \in [Team -> Known(Hps)]
  /\ bench.turn \in 0..live.turn /\ bench.names \subseteq Team
  /\ result.turn \in {0, live.turn}
  /\ sheet.active \in Known(Team) /\ sheet.hp \in Known(Levels)
  /\ sheet.stage \in Known(Stages)
  /\ change.spin \in Stages /\ change.to \in Known(Team)
  /\ change.stage.value \in Known(Stages) /\ change.hp.value \in Known(Levels)

(* An HP that is remembered, confirmed or drafted was confirmed for that   *)
(* very Pokemon: no switch, restore or carry hands it to another.          *)
HpIsOfThePokemon ==
  /\ \A p \in Team : \A h \in memory[p] : h.of = p
  /\ \A st \in {confirmed, draft} : \A h \in st.hp : h.of \in st.active

(* What stands in the result editor while the turn is recorded was entered *)
(* for this turn: no change of an earlier turn is recorded twice.          *)
ResultIsOfThisTurn == Recording => change.turn \in {0, live.turn}

(* The switches confirmed for the board at hand stay legal for what is     *)
(* remembered, so the gate's second look never refuses them.               *)
BoundBenchIsLegal ==
  (BenchIsBound /\ confirmed.turn = live.turn) => BenchIsLegal

(* FieldDelta: a CHANGED value is the resulting one, so a raise applied    *)
(* by the effect card ends above the confirmed stage.                      *)
RaiseRaises ==
  change.by = "effect" =>
    \A v \in change.stage.value, c \in confirmed.stage : v = MaxStage \/ v > c
=============================================================================
