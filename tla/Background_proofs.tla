-------------------------- MODULE Background_proofs --------------------------
(***************************************************************************)
(* The parts around the lanes of a match side by side: each of them        *)
(* behaves as its own specification says, so what is proved of a part      *)
(* holds of all of them together, for every value of the constants.        *)
(***************************************************************************)
EXTENDS MCBackground, Intel_proofs, Pages_proofs, Record_proofs

(* A step of the whole is a step of each part, or leaves it alone.         *)
LEMMA StepsOfParts ==
  ASSUME [Next]_backgroundVars
  PROVE  /\ [StoreNext]_storeVars /\ [ImportNext]_importVars /\ [CaptureNext]_captureVars
         /\ [WorkbenchNext]_workbenchVars /\ [BoardNext]_boardVars /\ [RecordNext]_recordVars
         /\ [AnswerNext]_answerVars /\ [RoiNext]_roiVars /\ [TeamNext]_teamVars
<1>1. CASE Store
  BY <1>1 DEF Store
<1>2. CASE Import
  BY <1>2 DEF Import
<1>3. CASE Camera
  BY <1>3 DEF Camera
<1>4. CASE TurnTab
  BY <1>4 DEF TurnTab
<1>5. CASE Board
  BY <1>5 DEF Board
<1>6. CASE Record
  BY <1>6 DEF Record
<1>7. CASE Reply
  BY <1>7 DEF Reply
<1>8. CASE Learn
  BY <1>8 DEF Learn
<1>9. CASE OwnTeam
  BY <1>9 DEF OwnTeam
<1>10. CASE UNCHANGED backgroundVars
  BY <1>10 DEF backgroundVars
<1> QED
  BY <1>1, <1>2, <1>3, <1>4, <1>5, <1>6, <1>7, <1>8, <1>9, <1>10 DEF Next

LEMMA PartsBehave ==
  Spec => /\ StoreSpec /\ ImportSpec /\ CaptureSpec /\ WorkbenchSpec /\ BoardSpec
          /\ RecordSpec /\ AnswerSpec /\ RoiSpec /\ TeamSpec
<1>1. Init => /\ StoreInit /\ ImportInit /\ CaptureInit /\ WorkbenchInit /\ BoardInit
              /\ RecordInit /\ AnswerInit /\ RoiInit /\ TeamInit
  BY DEF Init
<1> QED
  BY <1>1, StepsOfParts, PTL
     DEF Spec, StoreSpec, ImportSpec, CaptureSpec, WorkbenchSpec, BoardSpec, RecordSpec,
         AnswerSpec, RoiSpec, TeamSpec

(* With all parts side by side the state of each keeps its types.          *)
THEOREM BackgroundIsTyped == Spec => []BackgroundTypeOK
<1>1. /\ StoreTypeOK /\ CaptureTypeOK /\ WorkbenchTypeOK /\ BoardTypeOK /\ RecordTypeOK
      /\ AnswerTypeOK /\ RoiTypeOK /\ TeamTypeOK
      => BackgroundTypeOK
  BY DEF BackgroundTypeOK
<1> QED
  BY <1>1, PartsBehave, StoreIsTyped, CaptureIsTyped, PageIsTyped, BoardIsTyped, RecordIsTyped,
     AnswersAreTyped, RoiIsTyped, TeamIsTyped, PTL

(* No page shows or records a value of an earlier match or turn: not the   *)
(* TURN page, not the selection page, and not the result of a turn.        *)
THEOREM PagesAlwaysShowThisTurn == Spec => []PagesShowThisTurn
<1>1. FilledFromThisTurn /\ SlotsAreOfThisMatch /\ ResultIsOfThisTurn => PagesShowThisTurn
  BY DEF PagesShowThisTurn
<1> QED
  BY <1>1, PartsBehave, CandidatesAreOfThisTurn, NamesAreOfThisMatch, ResultsAreOfTheirTurn, PTL

(* The snapshot and the screenshot a page waits for is in its worker's     *)
(* queue, in its thread or among the answers posted to the window.         *)
THEOREM PicturesAreNeverLost == Spec => []PicturesAreOnTheirWay
<1>1. SnapshotIsOnItsWay /\ ScreenshotIsOnItsWay => PicturesAreOnTheirWay
  BY DEF PicturesAreOnTheirWay
<1> QED
  BY <1>1, PartsBehave, SnapshotsAreNotLost, ScreenshotsAreNotLost, PTL

(* Every turn can be advised: the switches confirmed for it pass the gate  *)
(* of the request, and the cautious answer passes the validation.          *)
THEOREM TurnsCanAlwaysBeAdvised == Spec => []TurnsCanBeAdvised
<1>1. BoundBenchIsLegal /\ CautionIsAccepted => TurnsCanBeAdvised
  BY DEF TurnsCanBeAdvised
<1> QED
  BY <1>1, PartsBehave, BoundBenchIsAlwaysLegal, CautionIsAlwaysAccepted, PTL

(* No step of any part, in particular no answer of a worker, overwrites    *)
(* what the operator entered on the TURN page or the selection page.       *)
THEOREM EntriesAlwaysStay == Spec => EntriesStay
<1>1. ASSUME [Next]_backgroundVars, [KeepsOperatorInput /\ KeepsResults]_workbenchVars,
             [KeepsOperatorSlots]_boardVars
      PROVE  [KeepsOperatorInput /\ KeepsResults /\ KeepsOperatorSlots]_backgroundVars
  <2>1. ASSUME UNCHANGED workbenchVars
        PROVE  KeepsOperatorInput /\ KeepsResults
    BY <2>1 DEF workbenchVars, KeepsOperatorInput, KeepsResults
  <2>2. ASSUME UNCHANGED boardVars
        PROVE  KeepsOperatorSlots
    BY <2>2 DEF boardVars, KeepsOperatorSlots
  <2> QED
    BY <1>1, <2>1, <2>2
<1> QED
  BY <1>1, PartsBehave, OperatorInputStays, OperatorSlotsStay, PTL DEF Spec, EntriesStay
=============================================================================
