---------------------------- MODULE MCBackground ----------------------------
(***************************************************************************)
(* The parts of the program around the lanes of a match, for TLC: a        *)
(* behaviour is a behaviour of one part, chosen at the start, while the    *)
(* others rest in one of their initial states.                             *)
(***************************************************************************)
EXTENDS IntelStore, IntelImport, Capture, TurnWorkbench, SelectionBoard, BattleRecord,
        TurnAnswer, RoiFeedback, TeamBuilds

CONSTANTS
  s1,          \* a species of the store's datasets
  f1, usual1   \* a foe of the answers' match, and the move usual for it

(* Dataset 2 has no record of the species. *)
MCListed == [d \in Data |-> IF d = 2 THEN {} ELSE {s1}]

MCUsual == [f \in Foes |-> IF f = f1 THEN {usual1} ELSE {}]

(* 1 and 2 are near duplicates, and 2 and 3, but not 1 and 3. *)
MCAlike == [x \in Images |-> [y \in Images |->
              IF x = y THEN 1000 ELSE IF 2 \in {x, y} THEN 996 ELSE 900]]

(* Each image in each slot, next to either of the others. *)
MCFrames == {<<1, 2>>, <<2, 3>>, <<3, 1>>}

(* Points at both limits, few moves, points over the limit, no move. *)
Spread(hp, attack, speed) == [hp |-> hp, attack |-> attack, speed |-> speed]
MCDetails ==
  {[moves |-> 4, points |-> Spread(32, 32, 2)], [moves |-> 3, points |-> Spread(0, 32, 32)],
   [moves |-> 4, points |-> Spread(32, 32, 3)], [moves |-> 0, points |-> Spread(0, 0, 0)]}

VARIABLE part    \* the part at work

backgroundVars ==
  <<part, storeVars, importVars, captureVars, workbenchVars, boardVars, recordVars,
    answerVars, roiVars, teamVars>>

Init ==
  /\ part \in {"store", "import", "capture", "turn", "board", "record", "answer", "roi",
             "team"}
  /\ StoreInit /\ (part # "store" => flat.snapshot = None)
  /\ ImportInit /\ (part # "import" => site.size = 1 /\ site.total /\ site.last
                                       /\ site.ranks /\ filter = {})
  /\ CaptureInit /\ (part # "capture" => tab = "record")
  /\ WorkbenchInit /\ (part # "turn" => worker.here)
  /\ BoardInit /\ (part # "board" => matcher.here)
  /\ RecordInit
  /\ AnswerInit /\ (part # "answer" => statistics)
  /\ RoiInit
  /\ TeamInit

Store   == part = "store" /\ StoreNext /\ UNCHANGED part
           /\ UNCHANGED <<importVars, captureVars, workbenchVars, boardVars, recordVars, answerVars,
                        roiVars, teamVars>>
Import  == part = "import" /\ ImportNext /\ UNCHANGED part
           /\ UNCHANGED <<storeVars, captureVars, workbenchVars, boardVars, recordVars, answerVars,
                        roiVars, teamVars>>
Camera  == part = "capture" /\ CaptureNext /\ UNCHANGED part
           /\ UNCHANGED <<storeVars, importVars, workbenchVars, boardVars, recordVars, answerVars,
                        roiVars, teamVars>>
TurnTab == part = "turn" /\ WorkbenchNext /\ UNCHANGED part
           /\ UNCHANGED <<storeVars, importVars, captureVars, boardVars, recordVars, answerVars,
                        roiVars, teamVars>>
Board   == part = "board" /\ BoardNext /\ UNCHANGED part
           /\ UNCHANGED <<storeVars, importVars, captureVars, workbenchVars, recordVars, answerVars,
                        roiVars, teamVars>>
Record  == part = "record" /\ RecordNext /\ UNCHANGED part
           /\ UNCHANGED <<storeVars, importVars, captureVars, workbenchVars, boardVars, answerVars,
                        roiVars, teamVars>>
Reply   == part = "answer" /\ AnswerNext /\ UNCHANGED part
           /\ UNCHANGED <<storeVars, importVars, captureVars, workbenchVars, boardVars, recordVars,
                        roiVars, teamVars>>
Learn   == part = "roi" /\ RoiNext /\ UNCHANGED part
           /\ UNCHANGED <<storeVars, importVars, captureVars, workbenchVars, boardVars, recordVars,
                        answerVars, teamVars>>
OwnTeam == part = "team" /\ TeamNext /\ UNCHANGED part
           /\ UNCHANGED <<storeVars, importVars, captureVars, workbenchVars, boardVars, recordVars,
                        answerVars, roiVars>>

Next == Store \/ Import \/ Camera \/ TurnTab \/ Board \/ Record \/ Reply \/ Learn \/ OwnTeam

Spec == Init /\ [][Next]_backgroundVars
---------------------------------------------------------------------------
(* Types of all parts. *)
BackgroundTypeOK ==
  /\ StoreTypeOK /\ CaptureTypeOK /\ WorkbenchTypeOK /\ BoardTypeOK /\ RecordTypeOK
  /\ AnswerTypeOK /\ RoiTypeOK /\ TeamTypeOK

(* What the operator entered on the TURN page or the selection page stays, *)
(* and what the turn's result established is not replaced by a guess.      *)
EntriesStay == [][KeepsOperatorInput /\ KeepsResults /\ KeepsOperatorSlots]_backgroundVars

(* No page shows or records a value of an earlier match or turn.           *)
PagesShowThisTurn == FilledFromThisTurn /\ SlotsAreOfThisMatch /\ ResultIsOfThisTurn

(* Neither of the two workers loses the picture its page waits for.        *)
PicturesAreOnTheirWay == SnapshotIsOnItsWay /\ ScreenshotIsOnItsWay

(* No turn is left without a request or an answer that would be accepted:  *)
(* the switches confirmed for it pass the gate, and so does caution.       *)
TurnsCanBeAdvised == BoundBenchIsLegal /\ CautionIsAccepted
=============================================================================
