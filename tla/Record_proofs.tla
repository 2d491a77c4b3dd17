--------------------------- MODULE Record_proofs ----------------------------
(***************************************************************************)
(* What the operator records and what an answer may say: proofs about      *)
(* BattleRecord, for every team, stage limit and number of turns, and about*)
(* TurnAnswer, for every team, opponent and number of requests.            *)
(***************************************************************************)
EXTENDS BattleRecord, TurnAnswer, FiniteSetTheorems, TLAPS

-----------------------------------------------------------------------------
(***************************************************************************)
(* BattleRecord: HP, switches and results stay with their Pokemon and turn.*)
(***************************************************************************)
Phases == {"TURN_CAPTURE_PENDING", "TURN_REVIEWED", "TURN_ADVICE_READY", "TURN_RECORDED"}
Seen(S) == {d \in [seen : {"UNCHANGED", "UNKNOWN", "CHANGED"}, value : Known(S)] :
              d.seen = "UNCHANGED" => d.value = Unknown}
States == [turn : Nat, active : Known(Team), hp : Known(Hps), stage : Known(Stages)]
Sheets == [active : Known(Team), hp : Known(Levels), stage : Known(Stages)]
Editors == [hp : Seen(Levels), stage : Seen(Stages), spin : Stages, to : Known(Team),
            by : {"nobody", "operator", "effect"}, turn : Nat]
Deltas == [active : Seen(Team), stage : Seen(Stages), hp : Seen(Hps)]

RecordTyped ==
  /\ live \in [turn : 1..MaxTurn, phase : Phases]
  /\ confirmed \in States /\ confirmed.turn <= live.turn
  /\ draft \in States /\ draft.turn <= live.turn
  /\ memory \in [Team -> Known(Hps)]
  /\ bench \in [turn : Nat, names : SUBSET Team] /\ bench.turn <= live.turn
  /\ result.turn \in {0, live.turn}
  /\ sheet \in Sheets
  /\ change \in Editors

(* A result that fits the confirmed state: what is derived from both has   *)
(* the HP of its own active.                                               *)
FitsConfirmed(d) ==
  /\ d \in Deltas
  /\ \A h \in Derived(confirmed.hp, d.hp) : h.of \in Derived(confirmed.active, d.active)

(* Past the confirmation of the board, the confirmed state is of this turn *)
(* and names its active; a recorded result fits it.                        *)
BoardIsConfirmed ==
  ~ Capturing => confirmed.turn = live.turn /\ \E p \in Team : confirmed.active = {p}

RecordedFits == live.phase = "TURN_RECORDED" => FitsConfirmed(result.delta)

(* Before it, no switches are confirmed for this turn.                     *)
BenchIsOlder == Capturing => bench.turn # live.turn

(* The result editor is empty or of this turn, in every phase.             *)
EditorIsOfThisTurn == change.turn \in {0, live.turn}

RecordInv ==
  /\ RecordTyped /\ BoardIsConfirmed /\ RecordedFits /\ BenchIsOlder /\ EditorIsOfThisTurn
  /\ HpIsOfThePokemon /\ BoundBenchIsLegal

-----------------------------------------------------------------------------
LEMMA KnownFacts ==
  ASSUME NEW S
  PROVE  /\ Unknown \in Known(S)
         /\ \A v \in S : {v} \in Known(S)
         /\ \A x \in Known(S) : x = Unknown \/ \E v \in S : x = {v}
         /\ \A x \in Known(S) : x \subseteq S
  BY DEF Known, Unknown

LEMMA StageFacts ==
  /\ 0 \in Stages
  /\ \A s \in Stages : ClampStage(s + 1) \in Stages
  BY StageAssumption DEF Stages, ClampStage

LEMMA StateFacts ==
  /\ NoState \in States /\ NoState.turn = 0 /\ NoState.hp = Unknown
  /\ Untouched \in Editors /\ Untouched.turn = 0
  /\ \A d \in States : Loaded(d) \in Sheets
<1>1. NoState \in States /\ NoState.turn = 0 /\ NoState.hp = Unknown
  BY KnownFacts DEF NoState, States
<1>2. Unchanged \in Seen(Levels) /\ Unchanged \in Seen(Stages)
  BY KnownFacts DEF Unchanged, Seen
<1>3. Untouched \in Editors /\ Untouched.turn = 0
  BY <1>2, KnownFacts, StageFacts DEF Untouched, Editors
<1>4. ASSUME NEW d \in States PROVE Loaded(d) \in Sheets
  <2>1. {h.level : h \in d.hp} \in Known(Levels)
    <3>1. CASE d.hp = Unknown
      <4>1. {h.level : h \in d.hp} = Unknown
        BY <3>1 DEF Unknown
      <4> QED
        BY <4>1, KnownFacts
    <3>2. ASSUME NEW v \in Hps, d.hp = {v} PROVE {h.level : h \in d.hp} \in Known(Levels)
      <4>1. {h.level : h \in d.hp} = {v.level} /\ v.level \in Levels
        BY <3>2 DEF Hps
      <4> QED
        BY <4>1, KnownFacts
    <3>3. d.hp \in Known(Hps)
      BY DEF States
    <3> QED
      BY <3>1, <3>2, <3>3, KnownFacts
  <2>2. (IF d.turn = 0 THEN {0} ELSE d.stage) \in Known(Stages)
    BY KnownFacts, StageFacts DEF States
  <2> QED
    BY <2>1, <2>2 DEF Loaded, Sheets, States
<1> QED
  BY <1>1, <1>3, <1>4

LEMMA RecordInitKeeps == RecordInit => RecordInv
<1> SUFFICES ASSUME RecordInit PROVE RecordInv
  OBVIOUS
<1>1. RecordTyped
  BY StateFacts, KnownFacts, StageAssumption
     DEF RecordInit, RecordTyped, Phases, NoResult
<1>2. BoardIsConfirmed /\ RecordedFits /\ BenchIsOlder /\ EditorIsOfThisTurn
  BY StateFacts DEF RecordInit, BoardIsConfirmed, RecordedFits, BenchIsOlder,
     EditorIsOfThisTurn, Capturing
<1>3. HpIsOfThePokemon
  BY StateFacts DEF RecordInit, HpIsOfThePokemon, Unknown
<1>4. BoundBenchIsLegal
  BY StateFacts DEF RecordInit, BoundBenchIsLegal, BenchIsBound
<1> QED
  BY <1>1, <1>2, <1>3, <1>4 DEF RecordInv

-----------------------------------------------------------------------------
(* A step that changes only the sheet, or the result editor.               *)
LEMMA SheetStep ==
  ASSUME RecordInv, sheet' \in Sheets,
         live' = live, confirmed' = confirmed, memory' = memory, bench' = bench,
         result' = result, draft' = draft, change' = change
  PROVE  RecordInv'
  BY DEF RecordInv, RecordTyped, BoardIsConfirmed, RecordedFits, FitsConfirmed, BenchIsOlder,
     EditorIsOfThisTurn, HpIsOfThePokemon, BoundBenchIsLegal, BenchIsBound, BenchIsLegal,
     Fainted, Capturing

LEMMA EditorStep ==
  ASSUME RecordInv, change' \in Editors, change'.turn \in {0, live.turn},
         live' = live, confirmed' = confirmed, memory' = memory, bench' = bench,
         result' = result, draft' = draft, sheet' \in Sheets
  PROVE  RecordInv'
  BY DEF RecordInv, RecordTyped, BoardIsConfirmed, RecordedFits, FitsConfirmed, BenchIsOlder,
     EditorIsOfThisTurn, HpIsOfThePokemon, BoundBenchIsLegal, BenchIsBound, BenchIsLegal,
     Fainted, Capturing

LEMMA RenderSheetKeeps == ASSUME RecordInv, RenderSheet PROVE RecordInv'
<1> DEFINE stage == IF DraftIsOpen THEN draft.stage
                    ELSE IF sheet.stage = Unknown THEN {0} ELSE sheet.stage
<1>1. stage \in Known(Stages)
  BY KnownFacts, StageFacts DEF RecordInv, RecordTyped, States, Sheets
<1>2. /\ sheet' = [sheet EXCEPT !.stage = stage]
      /\ live' = live /\ confirmed' = confirmed /\ memory' = memory /\ bench' = bench
      /\ result' = result /\ draft' = draft /\ change' = change
  BY DEF RenderSheet
<1> HIDE DEF stage
<1>3. sheet' \in Sheets
  BY <1>1, <1>2 DEF RecordInv, RecordTyped, Sheets
<1> QED
  BY <1>2, <1>3, SheetStep

LEMMA EditSheetKeeps == ASSUME RecordInv, EditSheet PROVE RecordInv'
<1>1. /\ live' = live /\ confirmed' = confirmed /\ memory' = memory /\ bench' = bench
      /\ result' = result /\ draft' = draft /\ change' = change
  BY DEF EditSheet
<1>2. sheet' \in Sheets
  BY KnownFacts DEF EditSheet, RecordInv, RecordTyped, Sheets
<1> QED
  BY <1>1, <1>2, SheetStep

LEMMA ApplyReviewEffectKeeps == ASSUME RecordInv, ApplyReviewEffect PROVE RecordInv'
<1> DEFINE stage == IF sheet.stage = Unknown THEN {1} ELSE {ClampStage(s + 1) : s \in sheet.stage}
<1>1. /\ sheet' = [sheet EXCEPT !.stage = stage]
      /\ live' = live /\ confirmed' = confirmed /\ memory' = memory /\ bench' = bench
      /\ result' = result /\ draft' = draft /\ change' = change
  BY DEF ApplyReviewEffect
<1>2. stage \in Known(Stages)
  <2>1. CASE sheet.stage = Unknown
    <3>1. 1 \in Stages
      BY StageAssumption DEF Stages
    <3> QED
      BY <2>1, <3>1, KnownFacts
  <2>2. ASSUME NEW v \in Stages, sheet.stage = {v} PROVE stage \in Known(Stages)
    <3>1. stage = {ClampStage(v + 1)}
      BY <2>2 DEF Unknown
    <3> QED
      BY <3>1, KnownFacts, StageFacts
  <2> QED
    BY <2>1, <2>2, KnownFacts DEF RecordInv, RecordTyped, Sheets
<1> HIDE DEF stage
<1>3. sheet' \in Sheets
  BY <1>1, <1>2 DEF RecordInv, RecordTyped, Sheets
<1> QED
  BY <1>1, <1>3, SheetStep

(* The confirmed board: its HP is that of its active, and is remembered    *)
(* for it; switches confirmed earlier are of an earlier turn.              *)
LEMMA ConfirmBoardKeeps == ASSUME RecordInv, ConfirmBoard PROVE RecordInv'
<1>1. /\ Capturing /\ live' = [live EXCEPT !.phase = "TURN_REVIEWED"]
      /\ draft' = NoState /\ change' = Untouched
      /\ bench' = bench /\ result' = result /\ sheet' = sheet
  BY DEF ConfirmBoard, Renewed
<1>2. PICK p \in sheet.active, l \in sheet.hp :
        /\ confirmed' = [turn |-> live.turn, active |-> {p},
                         hp |-> {[of |-> p, level |-> l]}, stage |-> sheet.stage]
        /\ memory' = [memory EXCEPT ![p] = {[of |-> p, level |-> l]}]
  BY DEF ConfirmBoard, ConfirmedFrom, Remembered
<1> DEFINE hp == {[of |-> p, level |-> l]}
<1>3. p \in Team /\ l \in Levels
  BY KnownFacts DEF RecordInv, RecordTyped, Sheets
<1>4. hp \in Known(Hps)
  BY <1>3, KnownFacts DEF Hps
<1>5. \A h \in hp : h.of = p
  OBVIOUS
<1>6. /\ confirmed' = [turn |-> live.turn, active |-> {p}, hp |-> hp, stage |-> sheet.stage]
      /\ memory' = [memory EXCEPT ![p] = hp]
  BY <1>2
<1> HIDE DEF hp
<1>7. /\ live'.turn = live.turn /\ live'.phase = "TURN_REVIEWED"
      /\ live' \in [turn : 1..MaxTurn, phase : Phases] /\ live.turn \in Nat
  BY <1>1 DEF RecordInv, RecordTyped, Phases
<1>8. /\ confirmed' \in States /\ confirmed'.turn = live.turn /\ confirmed'.active = {p}
      /\ confirmed'.hp = hp
  BY <1>3, <1>4, <1>6, <1>7, KnownFacts DEF States, RecordInv, RecordTyped, Sheets
<1>9. /\ memory' \in [Team -> Known(Hps)] /\ memory'[p] = hp
      /\ \A q \in Team : q # p => memory'[q] = memory[q]
  BY <1>3, <1>4, <1>6 DEF RecordInv, RecordTyped
<1>10. RecordTyped'
  BY <1>1, <1>7, <1>8, <1>9, StateFacts DEF RecordInv, RecordTyped
<1>11. BoardIsConfirmed' /\ RecordedFits' /\ BenchIsOlder' /\ EditorIsOfThisTurn'
  BY <1>1, <1>3, <1>7, <1>8, StateFacts
     DEF BoardIsConfirmed, RecordedFits, BenchIsOlder, EditorIsOfThisTurn, Capturing
<1>12. HpIsOfThePokemon'
  <2>1. ASSUME NEW q \in Team, NEW h \in memory'[q] PROVE h.of = q
    BY <1>5, <1>9, <2>1 DEF RecordInv, HpIsOfThePokemon
  <2>2. \A h \in confirmed'.hp : h.of \in confirmed'.active
    BY <1>5, <1>8
  <2>3. \A h \in draft'.hp : h.of \in draft'.active
    BY <1>1, StateFacts DEF Unknown
  <2> QED
    BY <2>1, <2>2, <2>3 DEF HpIsOfThePokemon
<1>13. BoundBenchIsLegal'
  BY <1>1, <1>7 DEF RecordInv, BenchIsOlder, BoundBenchIsLegal, BenchIsBound
<1> QED
  BY <1>10, <1>11, <1>12, <1>13 DEF RecordInv

LEMMA ConfirmSwitchesKeeps == ASSUME RecordInv, ConfirmSwitches PROVE RecordInv'
<1>1. PICK names \in SUBSET SwitchCandidates : bench' = [turn |-> live.turn, names |-> names]
  BY DEF ConfirmSwitches
<1>2. /\ live' = live /\ confirmed' = confirmed /\ memory' = memory /\ result' = result
      /\ draft' = draft /\ sheet' = sheet /\ change' = change
      /\ ~ Capturing
  BY DEF ConfirmSwitches, Capturing
<1>3. bench' \in [turn : Nat, names : SUBSET Team] /\ bench'.turn = live.turn
      /\ bench'.names \subseteq SwitchCandidates
  BY <1>1 DEF RecordInv, RecordTyped, SwitchCandidates
<1>4. RecordTyped'
  BY <1>2, <1>3 DEF RecordInv, RecordTyped
<1>5. BoundBenchIsLegal'
  BY <1>2, <1>3 DEF BoundBenchIsLegal, BenchIsLegal, SwitchCandidates, Fainted
<1>6. BoardIsConfirmed' /\ RecordedFits' /\ BenchIsOlder' /\ EditorIsOfThisTurn'
      /\ HpIsOfThePokemon'
  BY <1>2 DEF RecordInv, BoardIsConfirmed, RecordedFits, FitsConfirmed, BenchIsOlder,
             EditorIsOfThisTurn,
     HpIsOfThePokemon, Capturing
<1> QED
  BY <1>4, <1>5, <1>6 DEF RecordInv

LEMMA TakeAdviceKeeps == ASSUME RecordInv, TakeAdvice PROVE RecordInv'
<1>1. /\ live' = [live EXCEPT !.phase = "TURN_ADVICE_READY"] /\ ~ Capturing
      /\ confirmed' = confirmed /\ memory' = memory /\ bench' = bench /\ result' = result
      /\ draft' = draft /\ sheet' = sheet /\ change' = change
  BY DEF TakeAdvice, Capturing
<1>2. /\ live' \in [turn : 1..MaxTurn, phase : Phases]
      /\ live'.turn = live.turn /\ live'.phase = "TURN_ADVICE_READY"
  BY <1>1 DEF RecordInv, RecordTyped, Phases
<1> QED
  BY <1>1, <1>2 DEF RecordInv, RecordTyped, BoardIsConfirmed, RecordedFits, BenchIsOlder,
     EditorIsOfThisTurn, HpIsOfThePokemon, BoundBenchIsLegal, BenchIsBound, BenchIsLegal,
     Fainted, Capturing
-----------------------------------------------------------------------------
(* The result editor.                                                      *)
LEMMA EnteredIsEditor ==
  ASSUME RecordInv, NEW e \in Editors, Entered(e)
  PROVE  change' \in Editors /\ change'.turn = live.turn
  BY DEF Entered, Editors, RecordInv, RecordTyped

LEMMA SeenFacts ==
  ASSUME NEW S
  PROVE  /\ Unchanged \in Seen(S) /\ Unseen \in Seen(S)
         /\ \A k \in Known(S) : Changed(k) \in Seen(S)
  BY KnownFacts DEF Unchanged, Unseen, Changed, Seen

LEMMA EnterResultKeeps == ASSUME RecordInv, EnterResult PROVE RecordInv'
<1>1. /\ live' = live /\ confirmed' = confirmed /\ memory' = memory /\ bench' = bench
      /\ result' = result /\ draft' = draft /\ sheet' = sheet
  BY DEF EnterResult
<1>2. change \in Editors /\ sheet' \in Sheets
  BY <1>1 DEF RecordInv, RecordTyped
<1>3. \A s \in Stages : Changed({s}) \in Seen(Stages)
  BY SeenFacts, KnownFacts
<1>4. CASE EnterHp
  <2>1. PICK h \in {Unchanged, Unseen} \cup {Changed({l}) : l \in Levels} :
          Entered([change EXCEPT !.hp = h])
    BY <1>4 DEF EnterHp
  <2>2. h \in Seen(Levels)
    BY SeenFacts, KnownFacts
  <2>3. [change EXCEPT !.hp = h] \in Editors
    BY <1>2, <2>2 DEF Editors
  <2> QED
    BY <1>1, <1>2, <2>1, <2>3, EnteredIsEditor, EditorStep
<1>5. CASE EnterStage
  <2>1. CASE \E s \in Stages \ {change.spin} :
               Entered([change EXCEPT !.spin = s, !.stage = Changed({s}), !.by = "operator"])
    <3>1. PICK s \in Stages \ {change.spin} :
            Entered([change EXCEPT !.spin = s, !.stage = Changed({s}), !.by = "operator"])
      BY <2>1
    <3>2. [change EXCEPT !.spin = s, !.stage = Changed({s}), !.by = "operator"] \in Editors
      BY <1>2, <1>3 DEF Editors
    <3> QED
      BY <1>1, <1>2, <3>1, <3>2, EnteredIsEditor, EditorStep
  <2>2. CASE \E d \in {Unchanged, Unseen} : Entered([change EXCEPT !.stage = d])
    <3>1. PICK d \in {Unchanged, Unseen} : Entered([change EXCEPT !.stage = d])
      BY <2>2
    <3>2. d \in Seen(Stages)
      BY SeenFacts
    <3>3. [change EXCEPT !.stage = d] \in Editors
      BY <1>2, <3>2 DEF Editors
    <3> QED
      BY <1>1, <1>2, <3>1, <3>3, EnteredIsEditor, EditorStep
  <2> QED
    BY <1>5, <2>1, <2>2 DEF EnterStage
<1>6. CASE EnterActive
  <2>1. PICK to \in Known(Team \ confirmed.active) : Entered([change EXCEPT !.to = to])
    BY <1>6 DEF EnterActive
  <2>2. to \in Known(Team)
    BY DEF Known
  <2>3. [change EXCEPT !.to = to] \in Editors
    BY <1>2, <2>2 DEF Editors
  <2> QED
    BY <1>1, <1>2, <2>1, <2>3, EnteredIsEditor, EditorStep
<1>7. CASE ApplyResultEffect
  <2> DEFINE s == ClampStage(change.spin + 1)
             by == IF change.by = "operator" THEN "operator" ELSE "effect"
  <2>1. Entered([change EXCEPT !.spin = s, !.stage = Changed({s}), !.by = by])
    BY <1>7 DEF ApplyResultEffect
  <2>2. s \in Stages /\ by \in {"nobody", "operator", "effect"}
    BY <1>2, StageFacts DEF Editors
  <2> HIDE DEF s, by
  <2>3. [change EXCEPT !.spin = s, !.stage = Changed({s}), !.by = by] \in Editors
    BY <1>2, <1>3, <2>2 DEF Editors
  <2> QED
    BY <1>1, <1>2, <2>1, <2>3, EnteredIsEditor, EditorStep
<1> QED
  BY <1>4, <1>5, <1>6, <1>7 DEF EnterResult

-----------------------------------------------------------------------------
(* The delta of NEXT TURN fits the confirmed state: without a switch its   *)
(* HP is of the confirmed active, with one it is of the destination,       *)
(* remembered for it or entered for it.                                    *)
LEMMA ManualFacts ==
  ASSUME RecordInv, NEW p \in Team
  PROVE  /\ ManualHp(p) \in Seen(Hps)
         /\ ManualHp(p).seen = change.hp.seen
         /\ \A h \in ManualHp(p).value : h.of = p
<1> DEFINE hps == {[of |-> p, level |-> l] : l \in change.hp.value}
<1>1. change.hp \in Seen(Levels)
  BY DEF RecordInv, RecordTyped, Editors
<1>2. hps \in Known(Hps)
  <2>1. CASE change.hp.value = Unknown
    <3>1. hps = Unknown
      BY <2>1 DEF Unknown
    <3> HIDE DEF hps
    <3> QED
      BY <3>1, KnownFacts
  <2>2. ASSUME NEW l \in Levels, change.hp.value = {l} PROVE hps \in Known(Hps)
    <3>1. hps = {[of |-> p, level |-> l]} /\ [of |-> p, level |-> l] \in Hps
      BY <2>2 DEF Hps
    <3> HIDE DEF hps
    <3> QED
      BY <3>1, KnownFacts
  <2>3. change.hp.value = Unknown \/ \E l \in Levels : change.hp.value = {l}
    BY <1>1, KnownFacts DEF Seen
  <2> QED
    BY <2>1, <2>2, <2>3
<1>3. \A h \in hps : h.of = p
  OBVIOUS
<1>4. ManualHp(p) = [change.hp EXCEPT !.value = hps]
  BY DEF ManualHp
<1>5. change.hp.value = Unknown => hps = Unknown
  BY DEF Unknown
<1> HIDE DEF hps
<1>6. ManualHp(p).seen = change.hp.seen /\ ManualHp(p).value = hps
  BY <1>1, <1>4 DEF Seen
<1>7. ManualHp(p) \in Seen(Hps)
  BY <1>1, <1>2, <1>4, <1>5 DEF Seen
<1> QED
  BY <1>3, <1>6, <1>7

LEMMA SwitchFacts ==
  ASSUME RecordInv, NEW p \in Team
  PROVE  /\ SwitchBase(p).active = Changed({p})
         /\ SwitchBase(p).stage \in Seen(Stages)
         /\ SwitchBase(p).hp \in Seen(Hps)
         /\ SwitchBase(p).hp.seen \in {"CHANGED", "UNKNOWN"}
         /\ \A h \in SwitchBase(p).hp.value : h.of = p
<1>1. memory[p] \in Known(Hps) /\ \A h \in memory[p] : h.of = p
  BY DEF RecordInv, RecordTyped, HpIsOfThePokemon
<1>2. Changed({0}) \in Seen(Stages)
  BY SeenFacts, KnownFacts, StageFacts
<1>3. CASE memory[p] = Unknown
  <2>1. SwitchBase(p).hp = Unseen
    BY <1>3 DEF SwitchBase
  <2>2. /\ Unseen \in Seen(Hps) /\ Unseen.seen = "UNKNOWN" /\ \A h \in Unseen.value : h.of = p
    BY SeenFacts DEF Unseen, Unknown
  <2> QED
    BY <1>2, <2>1, <2>2 DEF SwitchBase
<1>4. CASE memory[p] # Unknown
  <2>1. SwitchBase(p).hp = Changed(memory[p])
    BY <1>4 DEF SwitchBase
  <2>2. Changed(memory[p]) \in Seen(Hps) /\ Changed(memory[p]).seen = "CHANGED"
        /\ \A h \in Changed(memory[p]).value : h.of = p
    BY <1>1, SeenFacts DEF Changed
  <2> QED
    BY <1>2, <2>1, <2>2 DEF SwitchBase
<1> QED
  BY <1>3, <1>4

LEMMA DeltaFits == ASSUME RecordInv, ~ Capturing PROVE FitsConfirmed(Delta)
<1>1. PICK p \in Team : confirmed.active = {p}
  BY DEF RecordInv, BoardIsConfirmed
<1>2. /\ change.stage \in Seen(Stages) /\ change.to \in Known(Team)
      /\ \A h \in confirmed.hp : h.of = p
  BY <1>1 DEF RecordInv, RecordTyped, Editors, HpIsOfThePokemon
<1>3. CASE change.to = Unknown
  <2>1. (CHOOSE q \in Team : q \in confirmed.active) = p
    BY <1>1
  <2>2. Delta = [active |-> Unchanged, stage |-> change.stage, hp |-> ManualHp(p)]
    BY <1>3, <2>1 DEF Delta
  <2>3. Delta.active = Unchanged /\ Delta.hp = ManualHp(p) /\ Delta \in Deltas
    BY <1>2, <2>2, ManualFacts, SeenFacts DEF Deltas
  <2>4. Derived(confirmed.active, Unchanged) = {p}
    BY <1>1 DEF Derived, Unchanged
  <2>5. \A h \in Derived(confirmed.hp, ManualHp(p)) : h.of = p
    BY <1>2, ManualFacts DEF Derived, Unknown
  <2> QED
    BY <2>3, <2>4, <2>5 DEF FitsConfirmed
<1>4. ASSUME NEW q \in Team, change.to = {q} PROVE FitsConfirmed(Delta)
  <2>1. (CHOOSE r \in Team : r \in change.to) = q /\ change.to # Unknown
    BY <1>4 DEF Unknown
  <2>2. Delta = [active |-> SwitchBase(q).active,
                 stage |-> Over(SwitchBase(q).stage, change.stage),
                 hp |-> Over(SwitchBase(q).hp, ManualHp(q))]
    BY <2>1 DEF Delta
  <2>3. /\ Over(SwitchBase(q).stage, change.stage) \in Seen(Stages)
        /\ Over(SwitchBase(q).hp, ManualHp(q)) \in Seen(Hps)
        /\ Changed({q}) \in Seen(Team)
    BY <1>2, SwitchFacts, ManualFacts, SeenFacts, KnownFacts DEF Over
  <2>4. Delta.active = Changed({q}) /\ Delta.hp = Over(SwitchBase(q).hp, ManualHp(q))
        /\ Delta \in Deltas
    BY <2>2, <2>3, SwitchFacts DEF Deltas
  <2>5. Derived(confirmed.active, Changed({q})) = {q}
    BY DEF Derived, Changed
  <2>6. CASE ManualHp(q) = Unchanged
    <3>1. Delta.hp = SwitchBase(q).hp
      BY <2>4, <2>6 DEF Over
    <3>2. \A h \in Derived(confirmed.hp, SwitchBase(q).hp) : h.of = q
      BY SwitchFacts DEF Derived, Unknown
    <3> QED
      BY <2>4, <2>5, <3>1, <3>2 DEF FitsConfirmed
  <2>7. CASE ManualHp(q) # Unchanged
    <3>1. Delta.hp = ManualHp(q)
      BY <2>4, <2>7 DEF Over
    <3>2. ManualHp(q).seen # "UNCHANGED"
      <4>1. ManualHp(q).seen = "UNCHANGED" => ManualHp(q).value = Unknown
        BY ManualFacts DEF Seen
      <4>2. ManualHp(q) = [seen |-> ManualHp(q).seen, value |-> ManualHp(q).value]
        BY ManualFacts DEF Seen
      <4> QED
        BY <2>7, <4>1, <4>2 DEF Unchanged
    <3>3. \A h \in Derived(confirmed.hp, ManualHp(q)) : h.of = q
      BY <3>2, ManualFacts DEF Derived, Unknown
    <3> QED
      BY <2>4, <2>5, <3>1, <3>3 DEF FitsConfirmed
  <2> QED
    BY <2>6, <2>7
<1> QED
  BY <1>2, <1>3, <1>4, KnownFacts

(* The turn that follows a result that fits.                               *)
LEMMA AdvancedKeeps ==
  ASSUME RecordInv, ~ Capturing, NEW d \in Deltas, FitsConfirmed(d), Advanced(d),
         confirmed' = confirmed, memory' = memory, bench' = bench
  PROVE  RecordInv'
<1>1. /\ live.turn \in 1..MaxTurn /\ live.turn \in Nat /\ live.turn < MaxTurn
      /\ confirmed.turn = live.turn
      /\ live' = [turn |-> live.turn + 1, phase |-> "TURN_CAPTURE_PENDING"]
      /\ result' = NoResult /\ change' = Untouched
      /\ draft' = DerivedDraft(d) /\ sheet' = Loaded(DerivedDraft(d))
  BY DEF RecordInv, RecordTyped, BoardIsConfirmed, Advanced, Renewed
<1>2. /\ DerivedDraft(d) \in States /\ DerivedDraft(d).turn = live.turn + 1
      /\ \A h \in DerivedDraft(d).hp : h.of \in DerivedDraft(d).active
  <2>1. /\ Derived(confirmed.active, d.active) \in Known(Team)
        /\ Derived(confirmed.hp, d.hp) \in Known(Hps)
        /\ Derived(confirmed.stage, d.stage) \in Known(Stages)
    BY KnownFacts DEF Derived, Deltas, Seen, RecordInv, RecordTyped, States
  <2> QED
    BY <1>1, <2>1 DEF DerivedDraft, States, FitsConfirmed
<1>3. /\ live' \in [turn : 1..MaxTurn, phase : Phases] /\ live'.turn = live.turn + 1
      /\ live'.phase = "TURN_CAPTURE_PENDING"
  BY <1>1, StageAssumption DEF Phases
<1>4. RecordTyped'
  <2>1. confirmed' \in States /\ confirmed'.turn <= live'.turn
    BY <1>1, <1>3 DEF RecordInv, RecordTyped
  <2>2. draft' \in States /\ draft'.turn <= live'.turn
    BY <1>1, <1>2, <1>3
  <2>3. /\ memory' \in [Team -> Known(Hps)]
        /\ bench' \in [turn : Nat, names : SUBSET Team] /\ bench'.turn <= live'.turn
    BY <1>1, <1>3 DEF RecordInv, RecordTyped
  <2>4. result'.turn \in {0, live'.turn} /\ sheet' \in Sheets /\ change' \in Editors
    BY <1>1, <1>2, StateFacts DEF NoResult
  <2> QED
    BY <1>3, <2>1, <2>2, <2>3, <2>4 DEF RecordTyped
<1>5. BoardIsConfirmed' /\ RecordedFits' /\ EditorIsOfThisTurn'
  BY <1>1, <1>3, StateFacts DEF BoardIsConfirmed, RecordedFits, EditorIsOfThisTurn, Capturing
<1>6. bench'.turn # live'.turn
  <2>1. bench.turn \in Nat /\ bench.turn <= live.turn
    BY DEF RecordInv, RecordTyped
  <2> QED
    BY <1>1, <1>3, <2>1
<1>7. BenchIsOlder' /\ BoundBenchIsLegal'
  BY <1>6 DEF BenchIsOlder, BoundBenchIsLegal, BenchIsBound
<1>8. HpIsOfThePokemon'
  BY <1>1, <1>2 DEF RecordInv, HpIsOfThePokemon
<1> QED
  BY <1>4, <1>5, <1>7, <1>8 DEF RecordInv

LEMMA RecordAndAdvanceKeeps == ASSUME RecordInv, RecordAndAdvance PROVE RecordInv'
<1>1. /\ ~ Capturing /\ Advanced(Delta)
      /\ confirmed' = confirmed /\ memory' = memory /\ bench' = bench
  BY DEF RecordAndAdvance, Recording, Capturing
<1>2. FitsConfirmed(Delta) /\ Delta \in Deltas
  BY <1>1, DeltaFits DEF FitsConfirmed
<1> QED
  BY <1>1, <1>2, AdvancedKeeps

LEMMA RecordOnlyKeeps == ASSUME RecordInv, RecordOnly PROVE RecordInv'
<1>1. /\ ~ Capturing /\ result' = [turn |-> confirmed.turn, delta |-> Delta]
      /\ live' = [live EXCEPT !.phase = "TURN_RECORDED"]
      /\ confirmed' = confirmed /\ memory' = memory /\ bench' = bench
      /\ draft' = draft /\ sheet' = sheet /\ change' = change
  BY DEF RecordOnly, ResultRow, Recording, Capturing
<1>2. /\ live' \in [turn : 1..MaxTurn, phase : Phases]
      /\ live'.turn = live.turn /\ live'.phase = "TURN_RECORDED"
  BY <1>1 DEF RecordInv, RecordTyped, Phases
<1>3. RecordedFits'
  <2>1. FitsConfirmed(Delta) /\ result'.delta = Delta
    BY <1>1, DeltaFits
  <2> QED
    BY <1>1, <2>1 DEF RecordedFits, FitsConfirmed
<1>4. RecordTyped'
  <2>1. confirmed.turn = live.turn
    BY <1>1 DEF RecordInv, BoardIsConfirmed
  <2>2. result'.turn = live'.turn
    BY <1>1, <1>2, <2>1
  <2> QED
    BY <1>1, <1>2, <2>2 DEF RecordInv, RecordTyped
<1> QED
  BY <1>1, <1>2, <1>3, <1>4 DEF RecordInv, BoardIsConfirmed, BenchIsOlder,
     EditorIsOfThisTurn, HpIsOfThePokemon, BoundBenchIsLegal, BenchIsBound, BenchIsLegal,
     Fainted, Capturing

LEMMA AdvanceRecordedKeeps == ASSUME RecordInv, AdvanceRecorded PROVE RecordInv'
<1>1. /\ ~ Capturing /\ Advanced(result.delta)
      /\ confirmed' = confirmed /\ memory' = memory /\ bench' = bench
  BY DEF AdvanceRecorded, Capturing
<1>2. FitsConfirmed(result.delta) /\ result.delta \in Deltas
  BY DEF RecordInv, RecordedFits, FitsConfirmed, AdvanceRecorded
<1> QED
  BY <1>1, <1>2, AdvancedKeeps

LEMMA ReopenRecordKeeps == ASSUME RecordInv, ReopenRecord PROVE RecordInv'
<1>1. /\ live' = live /\ confirmed' = confirmed /\ memory' = memory /\ bench' = bench
      /\ result' = result /\ draft' = draft /\ change' = Untouched
  BY DEF ReopenRecord
<1>2. sheet' \in Sheets
  BY StateFacts DEF ReopenRecord, RecordInv, RecordTyped
<1> QED
  BY <1>1, <1>2, StateFacts, EditorStep

-----------------------------------------------------------------------------
LEMMA RecordStepKeeps == RecordInv /\ [RecordNext]_recordVars => RecordInv'
<1> SUFFICES ASSUME RecordInv, [RecordNext]_recordVars PROVE RecordInv'
  OBVIOUS
<1>1. CASE RecordNext
  BY <1>1, RenderSheetKeeps, EditSheetKeeps, ApplyReviewEffectKeeps, ConfirmBoardKeeps,
     ConfirmSwitchesKeeps, TakeAdviceKeeps, EnterResultKeeps, RecordAndAdvanceKeeps,
     RecordOnlyKeeps, AdvanceRecordedKeeps, ReopenRecordKeeps DEF RecordNext
<1>2. CASE UNCHANGED recordVars
  <2>1. sheet' \in Sheets
    BY <1>2 DEF recordVars, RecordInv, RecordTyped
  <2> QED
    BY <1>2, <2>1, SheetStep DEF recordVars
<1> QED
  BY <1>1, <1>2

LEMMA RecordHolds == RecordSpec => []RecordInv
  BY RecordInitKeeps, RecordStepKeeps, PTL DEF RecordSpec

(* The record's state is well formed; the stages keep their limits.        *)
THEOREM RecordIsTyped == RecordSpec => []RecordTypeOK
<1>1. RecordInv => RecordTypeOK
  <2> SUFFICES ASSUME RecordInv PROVE RecordTypeOK
    OBVIOUS
  <2>1. /\ live.turn \in 1..MaxTurn /\ live.phase \in Phases /\ live.turn \in Nat
        /\ memory \in [Team -> Known(Hps)]
    BY DEF RecordInv, RecordTyped
  <2>2. /\ confirmed.turn \in 0..live.turn /\ confirmed.active \in Known(Team)
        /\ confirmed.hp \in Known(Hps) /\ confirmed.stage \in Known(Stages)
        /\ draft.turn \in 0..live.turn /\ draft.active \in Known(Team)
        /\ draft.hp \in Known(Hps) /\ draft.stage \in Known(Stages)
    BY <2>1 DEF RecordInv, RecordTyped, States
  <2>3. /\ bench.turn \in 0..live.turn /\ bench.names \subseteq Team
        /\ result.turn \in {0, live.turn}
    BY <2>1 DEF RecordInv, RecordTyped
  <2>4. /\ sheet.active \in Known(Team) /\ sheet.hp \in Known(Levels)
        /\ sheet.stage \in Known(Stages)
        /\ change.spin \in Stages /\ change.to \in Known(Team)
        /\ change.stage.value \in Known(Stages) /\ change.hp.value \in Known(Levels)
    BY DEF RecordInv, RecordTyped, Sheets, Editors, Seen
  <2> QED
    BY <2>1, <2>2, <2>3, <2>4 DEF RecordTypeOK, Phases
<1> QED
  BY <1>1, RecordHolds, PTL

(* No switch, no restored memory and no carry to the next turn gives a     *)
(* Pokemon the HP of another one.                                          *)
THEOREM HpStaysWithItsPokemon == RecordSpec => []HpIsOfThePokemon
<1>1. RecordInv => HpIsOfThePokemon
  BY DEF RecordInv
<1> QED
  BY <1>1, RecordHolds, PTL

(* The switches confirmed for a board pass the gate's second look.         *)
THEOREM BoundBenchIsAlwaysLegal == RecordSpec => []BoundBenchIsLegal
<1>1. RecordInv => BoundBenchIsLegal
  BY DEF RecordInv
<1> QED
  BY <1>1, RecordHolds, PTL

(* A change of an earlier turn is never recorded again.                    *)
THEOREM ResultsAreOfTheirTurn == RecordSpec => []ResultIsOfThisTurn
<1>1. RecordInv => ResultIsOfThisTurn
  BY DEF RecordInv, EditorIsOfThisTurn, ResultIsOfThisTurn
<1> QED
  BY <1>1, RecordHolds, PTL

-----------------------------------------------------------------------------
(***************************************************************************)
(* TurnAnswer: an accepted answer can be followed and invents nothing.     *)
(***************************************************************************)
Contracts == {"maple-turn-advice.v1", "maple-turn-advice.v7"}
AnswerRows == [foe : Foes \cup {Nobody}, type : {"UNKNOWN", "MOVE", "SWITCH"},
         name : FoeMoves \cup Foes \cup {Nobody}]

AnswerTyped ==
  /\ asked.turn \in Nat /\ asked.turn <= MaxAsked
  /\ asked.turn \in {Len(completed), Len(completed) + 1}
  /\ asked.foe \in Foes \cup {Nobody} /\ asked.contract \in Contracts
  /\ completed \in Seq(AnswerRows)
  /\ seenFoes \subseteq Foes /\ usedMoves \subseteq FoeMoves
  /\ \/ verdict \in {"none", "rejected"} /\ accepted = {}
     \/ verdict = "accepted" /\ \E a : accepted = {a}

(* The evidence: what the memory of the match says, the operator confirmed. *)
EvidenceIsConfirmed ==
  /\ ConfirmedMoves \subseteq usedMoves
  /\ ConfirmedSpecies \subseteq seenFoes
  /\ asked.foe \in seenFoes \cup {Nobody}

(* The menu is of the active's moves and of others to switch to.           *)
MenuIsOfTheActive ==
  \A m \in asked.menu :
    \/ m.type = "MOVE" /\ m.who = asked.self
    \/ m.type = "SWITCH" /\ m.who \in Own \ {asked.self}

(* The accepted answer passes the checks as they stand.                    *)
HasLines(a) == a.primary \in Lines /\ a.alternatives \in Seq(Lines)
AcceptedPasses == \A a \in accepted : IsAccepted(a) /\ HasLines(a)

AnswerInv == AnswerTyped /\ EvidenceIsConfirmed /\ MenuIsOfTheActive /\ AcceptedPasses

-----------------------------------------------------------------------------
(* The lines of the answers considered are lines.                          *)
LEMMA VagueIsLine == /\ Vague \in Lines /\ Clueless \in Lines
                     /\ \A c \in Categories : [Vague EXCEPT !.category = c] \in Lines
<1>1. DOMAIN Level = {"LOW", "MEDIUM", "HIGH"}
  BY DEF Level
<1> QED
  BY <1>1 DEF Vague, Clueless, Lines, Categories, Bases

LEMMA MoreAreLines == \A n \in 2..3 : More(n) \in Seq(Lines)
<1> SUFFICES ASSUME NEW n \in 2..3 PROVE More(n) \in Seq(Lines)
  OBVIOUS
<1>1. \A i \in 1..n : <<"SWITCH", "NON_DAMAGING_MOVE", "SWITCH">>[i] \in Categories
  <2>1. n = 2 \/ n = 3
    OBVIOUS
  <2> QED
    BY <2>1 DEF Categories
<1>2. \A i \in 1..n : [Vague EXCEPT !.category =
                        <<"SWITCH", "NON_DAMAGING_MOVE", "SWITCH">>[i]] \in Lines
  BY <1>1, VagueIsLine
<1> QED
  BY <1>2 DEF More

LEMMA AnswersHaveLines == \A a \in PossibleAnswers : HasLines(a)
<1> DEFINE c == Cautious(CHOOSE m \in asked.menu : TRUE)
<1>1. /\ DOMAIN c = {"schema", "action", "robustness", "reasons", "warnings", "primary",
                     "alternatives"}
      /\ c.primary = Clueless /\ c.alternatives = <<>>
  BY DEF Cautious
<1>2. \A a \in PossibleAnswers :
        a \in WithAction(c) \/ a \in WithShape(c) \/ a \in WithPrediction(c)
  BY DEF PossibleAnswers
<1> HIDE DEF c
<1>3. <<>> \in Seq(Lines) /\ \A l \in Lines : <<l>> \in Seq(Lines)
  OBVIOUS
<1>4. \A a \in WithAction(c) : a.primary = Clueless /\ a.alternatives = <<>>
  BY <1>1 DEF WithAction
<1>5. \A a \in WithShape(c) : a.primary = Clueless /\ a.alternatives = <<>>
  <2> SUFFICES ASSUME NEW a \in WithShape(c)
               PROVE  a.primary = Clueless /\ a.alternatives = <<>>
    OBVIOUS
  <2>1. PICK s \in Shapes :
          a = [c EXCEPT !.schema = s.schema, !.robustness = s.robustness,
                        !.reasons = s.reasons, !.warnings = s.warnings]
    BY DEF WithShape
  <2>2. a.primary = c.primary /\ a.alternatives = c.alternatives
    BY <2>1
  <2> QED
    BY <1>1, <2>2
<1>6. \A a \in WithPrediction(c) : HasLines(a)
  <2> SUFFICES ASSUME NEW a \in WithPrediction(c) PROVE HasLines(a)
    OBVIOUS
  <2>1. ASSUME NEW l \in Lines, a = [c EXCEPT !.primary = l] PROVE HasLines(a)
    BY <1>1, <1>3, <2>1 DEF HasLines
  <2>2. ASSUME NEW s \in Seq(Lines), a = [c EXCEPT !.primary = Vague, !.alternatives = s]
        PROVE  HasLines(a)
    BY <1>1, <2>2, VagueIsLine DEF HasLines
  <2>3. ASSUME a = [c EXCEPT !.alternatives = <<Vague>>] PROVE HasLines(a)
    BY <1>1, <1>3, <2>3, VagueIsLine DEF HasLines
  <2> QED
    BY <1>3, <2>1, <2>2, <2>3, MoreAreLines DEF WithPrediction
<1> QED
  BY <1>2, <1>3, <1>4, <1>5, <1>6, VagueIsLine DEF HasLines

LEMMA LineOfAnswer ==
  ASSUME NEW a, HasLines(a), NEW i \in DOMAIN LinesOf(a)
  PROVE  LinesOf(a)[i] \in Lines
<1>1. LinesOf(a) \in Seq(Lines)
  BY DEF LinesOf, HasLines
<1> QED
  BY <1>1

-----------------------------------------------------------------------------
LEMMA AnswerInitKeeps == AnswerInit => AnswerInv
<1> SUFFICES ASSUME AnswerInit PROVE AnswerInv
  OBVIOUS
<1>1. AnswerTyped
  BY AnswerAssumption DEF AnswerInit, AnswerTyped, NotAsked, Contracts
<1>2. EvidenceIsConfirmed
  BY DEF AnswerInit, EvidenceIsConfirmed, ConfirmedMoves, ConfirmedSpecies, NotAsked
<1>3. MenuIsOfTheActive /\ AcceptedPasses
  BY DEF AnswerInit, MenuIsOfTheActive, AcceptedPasses, NotAsked
<1> QED
  BY <1>1, <1>2, <1>3 DEF AnswerInv

LEMMA AskKeeps == ASSUME AnswerInv, Ask PROVE AnswerInv'
<1>1. PICK self \in Own, foe \in Foes \cup {Nobody}, moves \in SUBSET OwnMoves,
           switches \in SUBSET Own, contract \in Contracts :
        /\ self \notin switches
        /\ asked' = [turn |-> Len(completed) + 1, self |-> self, foe |-> foe,
                     menu |-> Menu(self, moves, switches), contract |-> contract]
        /\ seenFoes' = seenFoes \cup ({foe} \ {Nobody})
  BY DEF Ask, Contracts
<1>2. /\ asked.turn = Len(completed) /\ asked.turn < MaxAsked
      /\ verdict' = "none" /\ accepted' = {}
      /\ completed' = completed /\ usedMoves' = usedMoves
  BY DEF Ask
<1>3. AnswerTyped'
  <2>1. Len(completed) \in Nat /\ MaxAsked \in Nat
    BY AnswerAssumption DEF AnswerInv, AnswerTyped
  <2> QED
    BY <1>1, <1>2, <2>1 DEF AnswerInv, AnswerTyped
<1>4. EvidenceIsConfirmed'
  <2>1. ConfirmedMoves' = ConfirmedMoves /\ ConfirmedSpecies' = ConfirmedSpecies
    BY <1>2 DEF ConfirmedMoves, ConfirmedSpecies
  <2> QED
    BY <1>1, <1>2, <2>1 DEF AnswerInv, EvidenceIsConfirmed
<1>5. MenuIsOfTheActive'
  <2>1. \A m \in Menu(self, moves, switches) :
          \/ m.type = "MOVE" /\ m.who = self
          \/ m.type = "SWITCH" /\ m.who \in Own \ {self}
    BY <1>1 DEF Menu, MoveOf, SwitchTo
  <2> QED
    BY <1>1, <2>1 DEF MenuIsOfTheActive
<1>6. AcceptedPasses'
  BY <1>2 DEF AcceptedPasses
<1> QED
  BY <1>3, <1>4, <1>5, <1>6 DEF AnswerInv

(* What a check says of an answer depends on the request and the evidence. *)
LEMMA ChecksStay ==
  ASSUME asked' = asked, completed' = completed, statistics' = statistics, NEW a, IsAccepted(a)
  PROVE  IsAccepted(a)'
<1>1. /\ ConfirmedMoves' = ConfirmedMoves /\ UsualMoves' = UsualMoves
      /\ ConfirmedSpecies' = ConfirmedSpecies
  BY DEF ConfirmedMoves, UsualMoves, HasStatistics, ConfirmedSpecies
<1>2. Parses(a)'
  BY DEF IsAccepted, Parses, ParserOf, BodyV1IsValid, BodyV2IsValid, TextsAreValid, LinesOf,
     LineIsValid, PredictionIsValid
<1>3. IsLegal(a.action)'
  BY DEF IsAccepted, IsLegal
<1>4. ParserOf(asked'.contract) = ParserOf(asked.contract)
  OBVIOUS
<1>5. \A l : IsGrounded(l) => IsGrounded(l)'
  BY <1>1 DEF IsGrounded
<1>6. ASSUME ParserOf(asked.contract) = "v2", NEW i \in DOMAIN LinesOf(a)
      PROVE  IsGrounded(LinesOf(a)[i])'
  BY <1>5, <1>6 DEF IsAccepted
<1> QED
  BY <1>2, <1>3, <1>4, <1>6 DEF IsAccepted

LEMMA AnswerKeeps == ASSUME AnswerInv, Answer PROVE AnswerInv'
<1>1. PICK a \in PossibleAnswers :
        IF IsAccepted(a) THEN verdict' = "accepted" /\ accepted' = {a}
        ELSE verdict' = "rejected" /\ accepted' = {}
  BY DEF Answer
<1>2. /\ asked' = asked /\ completed' = completed /\ statistics' = statistics
      /\ seenFoes' = seenFoes /\ usedMoves' = usedMoves
  BY DEF Answer
<1>3. AnswerTyped'
  BY <1>1, <1>2 DEF AnswerInv, AnswerTyped
<1>4. EvidenceIsConfirmed' /\ MenuIsOfTheActive'
  BY <1>2 DEF AnswerInv, EvidenceIsConfirmed, ConfirmedMoves, ConfirmedSpecies,
     MenuIsOfTheActive
<1>5. AcceptedPasses'
  <2>1. CASE IsAccepted(a)
    <3>1. IsAccepted(a)'
      BY <1>2, <2>1, ChecksStay
    <3>2. HasLines(a)
      BY AnswersHaveLines
    <3> QED
      BY <1>1, <2>1, <3>1, <3>2 DEF AcceptedPasses, HasLines
  <2>2. CASE ~ IsAccepted(a)
    BY <1>1, <2>2 DEF AcceptedPasses
  <2> QED
    BY <2>1, <2>2
<1> QED
  BY <1>3, <1>4, <1>5 DEF AnswerInv

(* The turn played adds a row; its foe and its name are confirmed.         *)
LEMMA PlayKeeps == ASSUME AnswerInv, Play PROVE AnswerInv'
<1>1. PICK done \in {[type |-> "UNKNOWN", name |-> Nobody]}
                   \cup {[type |-> "MOVE", name |-> m] : m \in FoeMoves}
                   \cup {[type |-> "SWITCH", name |-> f] : f \in Foes \ {asked.foe}} :
        /\ completed' = Append(completed, [foe |-> asked.foe, type |-> done.type,
                                           name |-> done.name])
        /\ seenFoes' = IF done.type = "SWITCH" THEN seenFoes \cup {done.name} ELSE seenFoes
        /\ usedMoves' = IF done.type = "MOVE" THEN usedMoves \cup {done.name} ELSE usedMoves
  BY DEF Play
<1>2. /\ asked.turn > Len(completed) /\ verdict' = "none" /\ accepted' = {}
      /\ asked' = asked
  BY DEF Play
<1> DEFINE row == [foe |-> asked.foe, type |-> done.type, name |-> done.name]
<1>3. /\ done.type \in {"UNKNOWN", "MOVE", "SWITCH"}
      /\ done.type = "MOVE" => done.name \in FoeMoves
      /\ done.type = "SWITCH" => done.name \in Foes
      /\ done.type = "UNKNOWN" => done.name = Nobody
  OBVIOUS
<1>4. row \in AnswerRows /\ row.foe = asked.foe /\ row.type = done.type /\ row.name = done.name
  BY <1>3 DEF AnswerRows, AnswerInv, AnswerTyped
<1>5. completed' = Append(completed, row) /\ completed \in Seq(AnswerRows)
  BY <1>1 DEF AnswerInv, AnswerTyped
<1> HIDE DEF row
<1>6. /\ completed' \in Seq(AnswerRows) /\ Len(completed') = Len(completed) + 1
      /\ Len(completed) \in Nat
      /\ DOMAIN completed' = DOMAIN completed \cup {Len(completed) + 1}
      /\ completed'[Len(completed) + 1] = row
      /\ \A i \in DOMAIN completed : completed'[i] = completed[i]
  BY <1>4, <1>5
<1>7. AnswerTyped'
  <2>1. asked.turn = Len(completed) + 1
    BY <1>2, <1>6 DEF AnswerInv, AnswerTyped
  <2>2. seenFoes' \subseteq Foes /\ usedMoves' \subseteq FoeMoves
    BY <1>1, <1>3 DEF AnswerInv, AnswerTyped
  <2> QED
    BY <1>2, <1>6, <2>1, <2>2 DEF AnswerInv, AnswerTyped
<1>8. ConfirmedMoves' \subseteq usedMoves'
  <2> SUFFICES ASSUME NEW i \in DOMAIN completed', completed'[i].type = "MOVE"
               PROVE  completed'[i].name \in usedMoves'
    BY DEF ConfirmedMoves
  <2>1. CASE i \in DOMAIN completed
    <3>1. completed[i].name \in ConfirmedMoves
      BY <1>6, <2>1 DEF ConfirmedMoves
    <3> QED
      BY <1>1, <1>6, <2>1, <3>1 DEF AnswerInv, EvidenceIsConfirmed
  <2>2. CASE i = Len(completed) + 1
    BY <1>1, <1>4, <1>6, <2>2
  <2> QED
    BY <1>6, <2>1, <2>2
<1>9. ConfirmedSpecies' \subseteq seenFoes'
  <2>1. ASSUME NEW i \in DOMAIN completed', completed'[i].foe # Nobody
        PROVE  completed'[i].foe \in seenFoes'
    <3>1. CASE i \in DOMAIN completed
      <4>1. completed[i].foe \in ConfirmedSpecies
        BY <1>6, <2>1, <3>1 DEF ConfirmedSpecies
      <4> QED
        BY <1>1, <1>6, <3>1, <4>1 DEF AnswerInv, EvidenceIsConfirmed
    <3>2. CASE i = Len(completed) + 1
      BY <1>1, <1>4, <1>6, <2>1, <3>2 DEF AnswerInv, EvidenceIsConfirmed
    <3> QED
      BY <1>6, <3>1, <3>2
  <2>2. ASSUME NEW i \in DOMAIN completed', completed'[i].type = "SWITCH"
        PROVE  completed'[i].name \in seenFoes'
    <3>1. CASE i \in DOMAIN completed
      <4>1. completed[i].name \in ConfirmedSpecies
        BY <1>6, <2>2, <3>1 DEF ConfirmedSpecies
      <4> QED
        BY <1>1, <1>6, <3>1, <4>1 DEF AnswerInv, EvidenceIsConfirmed
    <3>2. CASE i = Len(completed) + 1
      BY <1>1, <1>4, <1>6, <2>2, <3>2
    <3> QED
      BY <1>6, <3>1, <3>2
  <2> QED
    BY <2>1, <2>2 DEF ConfirmedSpecies
<1>10. EvidenceIsConfirmed'
  BY <1>1, <1>2, <1>8, <1>9 DEF AnswerInv, EvidenceIsConfirmed
<1>11. MenuIsOfTheActive' /\ AcceptedPasses'
  BY <1>2 DEF AnswerInv, MenuIsOfTheActive, AcceptedPasses
<1> QED
  BY <1>7, <1>10, <1>11 DEF AnswerInv

LEMMA AnswerStepKeeps == AnswerInv /\ [AnswerNext]_answerVars => AnswerInv'
<1> SUFFICES ASSUME AnswerInv, [AnswerNext]_answerVars PROVE AnswerInv'
  OBVIOUS
<1>1. CASE UNCHANGED answerVars
  <2>1. /\ asked' = asked /\ completed' = completed /\ statistics' = statistics
        /\ seenFoes' = seenFoes /\ usedMoves' = usedMoves
        /\ verdict' = verdict /\ accepted' = accepted
    BY <1>1 DEF answerVars
  <2>2. AcceptedPasses'
    BY <2>1, ChecksStay DEF AnswerInv, AcceptedPasses
  <2>3. AnswerTyped'
    BY <2>1 DEF AnswerInv, AnswerTyped
  <2>4. EvidenceIsConfirmed' /\ MenuIsOfTheActive'
    BY <2>1 DEF AnswerInv, EvidenceIsConfirmed, ConfirmedMoves, ConfirmedSpecies,
       MenuIsOfTheActive
  <2> QED
    BY <2>2, <2>3, <2>4 DEF AnswerInv
<1> QED
  BY <1>1, AskKeeps, AnswerKeeps, PlayKeeps DEF AnswerNext

LEMMA AnswerHolds == AnswerSpec => []AnswerInv
  BY AnswerInitKeeps, AnswerStepKeeps, PTL DEF AnswerSpec

(* There is at most one accepted answer, and what the operator confirmed   *)
(* is of the opponent.                                                     *)
THEOREM AnswersAreTyped == AnswerSpec => []AnswerTypeOK
<1>1. AnswerInv => AnswerTypeOK
  <2> SUFFICES ASSUME AnswerInv PROVE AnswerTypeOK
    OBVIOUS
  <2>1. Cardinality(accepted) = IF verdict = "accepted" THEN 1 ELSE 0
    BY FS_EmptySet, FS_Singleton DEF AnswerInv, AnswerTyped
  <2>2. Len(completed) <= MaxAsked
    <3>1. Len(completed) \in Nat
      BY DEF AnswerInv, AnswerTyped
    <3> QED
      BY <3>1, AnswerAssumption DEF AnswerInv, AnswerTyped
  <2> QED
    BY <2>1, <2>2 DEF AnswerInv, AnswerTyped, AnswerTypeOK
<1> QED
  BY <1>1, AnswerHolds, PTL

(* The advice of a turn can be followed, and names nothing that was not    *)
(* confirmed in the match or usual for the foe on the field.               *)
THEOREM AcceptedAnswersAreAlwaysSound == AnswerSpec => []AcceptedAnswersAreSound
<1>1. AnswerInv => AcceptedAnswersAreSound
  <2> SUFFICES ASSUME AnswerInv, NEW a \in accepted
               PROVE  /\ a.schema = "v2" => \A i \in DOMAIN LinesOf(a) :
                           LET l == LinesOf(a)[i]
                           IN  \/ l.names = NoName
                               \/ l.names \in usedMoves
                               \/ /\ statistics /\ asked.foe \in Foes
                                  /\ l.names \in Usual[asked.foe]
                                  /\ l.basis = "POPULATION_PRIOR" /\ l.support = "MEDIUM"
                               \/ l.category = "SWITCH" /\ l.names \in seenFoes \ {asked.foe}
                      /\ \E m \in asked.menu :
                           <<m.id, m.type, m.name>> = <<a.action.id, a.action.type, a.action.name>>
                      /\ a.schema = ParserOf(asked.contract)
    BY DEF AcceptedAnswersAreSound, NamesAreGrounded, AdviceCanBeFollowed
  <2>1. IsAccepted(a) /\ HasLines(a)
    BY DEF AnswerInv, AcceptedPasses
  <2>2. a.schema = ParserOf(asked.contract)
    BY <2>1 DEF IsAccepted, Parses, ParserOf, BodyV2IsValid, BodyV1IsValid
  <2>3. \E m \in asked.menu :
          <<m.id, m.type, m.name>> = <<a.action.id, a.action.type, a.action.name>>
    BY <2>1 DEF IsAccepted, IsLegal
  <2>4. ASSUME a.schema = "v2", NEW i \in DOMAIN LinesOf(a), NEW l, l = LinesOf(a)[i]
        PROVE  \/ l.names = NoName
               \/ l.names \in usedMoves
               \/ /\ statistics /\ asked.foe \in Foes
                  /\ l.names \in Usual[asked.foe]
                  /\ l.basis = "POPULATION_PRIOR" /\ l.support = "MEDIUM"
               \/ l.category = "SWITCH" /\ l.names \in seenFoes \ {asked.foe}
    <3>1. LineIsValid(l) /\ IsGrounded(l)
      BY <2>1, <2>2, <2>4 DEF IsAccepted, Parses, BodyV2IsValid
    <3>2. l.category \in Categories /\ l.support \in {"LOW", "MEDIUM", "HIGH"}
      BY <2>1, <2>4, LineOfAnswer DEF Lines, Level
    <3>3. CASE l.category \in {"DAMAGING_MOVE", "NON_DAMAGING_MOVE"} /\ l.names # NoName
      <4>1. l.names \in ConfirmedMoves \/ (l.names \in UsualMoves /\ l.basis = "POPULATION_PRIOR")
        BY <3>1, <3>3 DEF IsGrounded
      <4>2. CASE l.names \in ConfirmedMoves
        BY <4>2 DEF AnswerInv, EvidenceIsConfirmed
      <4>3. CASE l.names \in UsualMoves /\ l.basis = "POPULATION_PRIOR"
        <5>1. statistics /\ asked.foe \in Foes /\ l.names \in Usual[asked.foe]
          BY <4>3 DEF UsualMoves, HasStatistics
        <5>2. l.support = "MEDIUM"
          BY <3>1, <3>2, <3>3, <4>3 DEF LineIsValid
        <5> QED
          BY <4>3, <5>1, <5>2
      <4> QED
        BY <4>1, <4>2, <4>3
    <3>4. CASE l.category = "SWITCH" /\ l.names # NoName
      BY <3>1, <3>4 DEF IsGrounded, AnswerInv, EvidenceIsConfirmed
    <3>5. CASE l.category = "UNKNOWN"
      BY <3>1, <3>5 DEF LineIsValid
    <3> QED
      BY <3>2, <3>3, <3>4, <3>5 DEF Categories
  <2> QED
    BY <2>2, <2>3, <2>4
<1> QED
  BY <1>1, AnswerHolds, PTL

(* Whatever was confirmed for the turn, the cautious answer the prompt     *)
(* asks for is accepted: no request is without a possible advice.          *)
THEOREM CautionIsAlwaysAccepted == AnswerSpec => []CautionIsAccepted
<1>1. AnswerInv => CautionIsAccepted
  <2> SUFFICES ASSUME AnswerInv, NEW m \in asked.menu PROVE IsAccepted(Cautious(m))
    BY DEF CautionIsAccepted
  <2> DEFINE a == Cautious(m)
  <2>1. /\ a.schema = ParserOf(asked.contract) /\ a.primary = Clueless /\ a.alternatives = <<>>
        /\ a.robustness = "LOW" /\ a.reasons = 1 /\ a.warnings = 1
        /\ a.action.id = m.id /\ a.action.type = m.type /\ a.action.name = m.name
    BY DEF Cautious
  <2> HIDE DEF a
  <2>2. LinesOf(a) = <<Clueless>>
    BY <2>1 DEF LinesOf
  <2>3. DOMAIN LinesOf(a) = {1} /\ LinesOf(a)[1] = Clueless
    BY <2>2
  <2>4. LineIsValid(Clueless) /\ IsGrounded(Clueless)
    BY DEF LineIsValid, IsGrounded, Clueless
  <2>5. PredictionIsValid(a)
    BY <2>1, <2>3 DEF PredictionIsValid
  <2>6. Parses(a)
    BY <2>1, <2>3, <2>4, <2>5
       DEF Parses, ParserOf, BodyV2IsValid, BodyV1IsValid, TextsAreValid
  <2>7. IsLegal(a.action)
    BY <2>1 DEF IsLegal, AnswerInv, MenuIsOfTheActive
  <2> QED
    BY <2>3, <2>4, <2>6, <2>7 DEF IsAccepted, a
<1> QED
  BY <1>1, AnswerHolds, PTL
=============================================================================
