--------------------------- MODULE SelectionBoard ---------------------------
(***************************************************************************)
(* The selection page: the screenshot of NEW MATCH, the worker that        *)
(* matches its six crops in a thread of its own, the opponent's slots the  *)
(* matches fill, the button that sends them, and the feedback filed when   *)
(* it is pressed.                                                          *)
(*                                                                         *)
(* The request itself is SelectionAdvice's; here only what the page sees   *)
(* of it.  A frame is named by the match whose press took it.              *)
(***************************************************************************)
EXTENDS Naturals, Sequences

CONSTANTS
  Slots,        \* of the opponent's team
  Names,        \* species the slots can hold
  MaxMatches    \* bound: matches

ASSUME BoardAssumption ==
  Slots # {} /\ "nothing" \notin Names /\ MaxMatches \in Nat

VARIABLES
  selection,   \* the match on the page: its generation, state, reviewed facts
  slots,       \* what each slot shows, where that is from, and its lock
  board,       \* bundle on display, frame submitted, send button, reviews filed
  matcher,     \* LatestOnlySelectionRoiWorker
  answers,     \* bundles on their way to the window's thread
  filings      \* feedback filed with the service, in order

boardVars == <<selection, slots, board, matcher, answers, filings>>

Nothing == "nothing"
Values == Names \cup {Nothing}
Teams == {t \in [Slots -> Names] : \A s, u \in Slots : s # u => t[s] # t[u]}
NoTeam == [s \in Slots |-> Nothing]

SlotOrigins == {"EMPTY", "OCR_AUTO", "CANDIDATE_CLICK", "MANUAL_TEXT", "RESTORED"}
HumanOrigins == {"CANDIDATE_CLICK", "MANUAL_TEXT", "RESTORED"}

EmptySlot == [value |-> Nothing, origin |-> "EMPTY", locked |-> FALSE, of |-> 0]
EmptySlots == [s \in Slots |-> EmptySlot]
Shown(ss) == [s \in Slots |-> ss[s].value]

(* _sync_opponent_inputs_for_identity: the facts of the match, or nothing. *)
SlotsFor(facts, match) ==
  [s \in Slots |->
    IF facts = NoTeam THEN EmptySlot
    ELSE [value |-> facts[s], origin |-> "RESTORED", locked |-> TRUE, of |-> match]]

NoReading == [of |-> 0, assigned |-> NoTeam, chips |-> {}, observed |-> FALSE]

(***************************************************************************)
(* What matching a frame can give: nothing, with an error's message, or    *)
(* six matches, each of them good enough to fill its slot or not; no two   *)
(* fill theirs with the same name.  The chips offer every name.            *)
(***************************************************************************)
Assignments ==
  {a \in [Slots -> Values] :
    \A s, u \in Slots : s # u /\ a[s] = a[u] => a[s] = Nothing}
Readings(match) ==
  {[NoReading EXCEPT !.of = match]}
  \cup [of : {match}, assigned : Assignments, chips : {Names}, observed : {TRUE}]

Cleared == [reading |-> NoReading, submitted |-> 0, sends |-> FALSE, filed |-> FALSE]

BoardInit ==
  /\ selection = [match |-> 0, state |-> "NONE", facts |-> NoTeam, pending |-> FALSE]
  /\ slots = EmptySlots
  /\ board = Cleared
  /\ matcher \in {[here |-> h, pending |-> 0, running |-> 0] : h \in BOOLEAN}
  /\ answers = <<>>
  /\ filings = <<>>

InSelection == selection.state = "SELECTION_OPEN"
Editable == InSelection /\ selection.facts = NoTeam

----------------------------------------------------------------------------
(***************************************************************************)
(* The send button.  Every edit and every answer of the matcher enables it *)
(* for a complete team; a rendering of the page asks in addition that a    *)
(* human has confirmed every slot.                                         *)
(***************************************************************************)
MaySend(ss, s) ==
  /\ s.state = "SELECTION_OPEN" /\ ~s.pending
  /\ Shown(ss) \in Teams

Confirmed(ss) == \A s \in Slots : ss[s].origin \in HumanOrigins

MaySendRendered(ss, s) == MaySend(ss, s) /\ Confirmed(ss)

(* render_view of a match, the page's own or another. *)
Rendered(b, ss, s) == [b EXCEPT !.sends = MaySendRendered(ss, s)]

RenderBoard ==
  /\ board' = Rendered(board, slots, selection)
  /\ UNCHANGED <<selection, slots, matcher, answers, filings>>

----------------------------------------------------------------------------
(* submit: in the place of a frame still waiting. *)
QueuedForMatching(match) == [matcher EXCEPT !.pending = match]

(***************************************************************************)
(* NEW MATCH, with a frame that was frozen after the match was created or  *)
(* without one.  Rendering the new identity clears the page first.         *)
(***************************************************************************)
NewMatch(frozen) ==
  /\ ~InSelection /\ selection.match < MaxMatches
  /\ LET match == selection.match + 1 IN
     /\ selection' = [match |-> match, state |-> "SELECTION_OPEN", facts |-> NoTeam,
                      pending |-> FALSE]
     /\ slots' = EmptySlots
     /\ IF frozen /\ matcher.here
        THEN /\ board' = [Cleared EXCEPT !.submitted = match]
             /\ matcher' = QueuedForMatching(match)
        ELSE board' = Cleared /\ UNCHANGED matcher
  /\ UNCHANGED <<answers, filings>>

(* The match leaves the selection: an advice is applied, or it is ended.   *)
LeaveSelection ==
  /\ InSelection
  /\ selection' = [selection EXCEPT !.state = "CLOSED", !.pending = FALSE]
  /\ board' = Rendered(board, slots, selection')
  /\ UNCHANGED <<slots, matcher, answers, filings>>

----------------------------------------------------------------------------
(***************************************************************************)
(* The operator's edits; each tells the button.                            *)
(***************************************************************************)
Edit(s, value, origin) ==
  /\ slots' = [slots EXCEPT ![s] = [value |-> value, origin |-> origin, locked |-> TRUE,
                                    of |-> selection.match]]
  /\ board' = [board EXCEPT !.sends = MaySend(slots', selection)]
  /\ UNCHANGED <<selection, matcher, answers, filings>>

TypeName(s, value) == Editable /\ Edit(s, value, "MANUAL_TEXT")

Chip(s, value) ==
  /\ Editable /\ value \in board.reading.chips
  /\ Edit(s, value, "CANDIDATE_CLICK")

----------------------------------------------------------------------------
(***************************************************************************)
(* The worker, and what the page does with its answer.                     *)
(***************************************************************************)
TakeFrame ==
  /\ matcher.pending # 0 /\ matcher.running = 0
  /\ matcher' = [matcher EXCEPT !.running = matcher.pending, !.pending = 0]
  /\ UNCHANGED <<selection, slots, board, answers, filings>>

MatchFrame(reading) ==
  /\ matcher.running # 0 /\ reading \in Readings(matcher.running)
  /\ answers' = Append(answers, reading)
  /\ matcher' = [matcher EXCEPT !.running = 0]
  /\ UNCHANGED <<selection, slots, board, filings>>

(* should_auto_fill *)
AutoFills(s, reading) ==
  slots[s].value = Nothing /\ ~slots[s].locked /\ reading.assigned[s] # Nothing

Filled(reading) ==
  [s \in Slots |->
    IF AutoFills(s, reading)
    THEN [value |-> reading.assigned[s], origin |-> "OCR_AUTO", locked |-> FALSE,
          of |-> reading.of]
    ELSE slots[s]]

(* A mutant: the answer counts for the match on the page. *)
AcceptsAny(reading) == InSelection

(* _on_selection_roi_result: the frame submitted, of the match that is     *)
(* still on the page and open; its submission is used up in any case.      *)
Accepts(reading) ==
  board.submitted = reading.of /\ reading.of = selection.match /\ InSelection

ReceiveReading ==
  /\ answers # <<>>
  /\ answers' = Tail(answers)
  /\ LET reading == Head(answers)
         spent == [board EXCEPT !.submitted = IF @ = reading.of THEN 0 ELSE @]
     IN IF Accepts(reading)
        THEN /\ slots' = Filled(reading)
             /\ board' = [spent EXCEPT !.reading = reading,
                                       !.sends = MaySend(slots', selection)]
        ELSE board' = spent /\ UNCHANGED slots
  /\ UNCHANGED <<selection, matcher, filings>>

(* _apply_selection_roi_all: the answer on display once more. *)
ApplyAll ==
  /\ Editable /\ board.reading.observed
  /\ slots' = Filled(board.reading)
  /\ board' = [board EXCEPT !.sends = MaySend(slots', selection)]
  /\ UNCHANGED <<selection, matcher, answers, filings>>

----------------------------------------------------------------------------
(***************************************************************************)
(* The trusted button: canonicalise, file the feedback, send, render.  The *)
(* store may refuse the facts; the service may fail to store the images,   *)
(* and the review then stays to be filed by a later press.                 *)
(***************************************************************************)
Feedback == [match |-> selection.match, of |-> board.reading.of,
             values |-> Shown(slots), origins |-> [s \in Slots |-> slots[s].origin]]

(* A mutant: what was filed is not remembered. *)
FilesAgain == board.reading.observed

Files == ~board.filed /\ board.reading.observed

Press(stored) ==
  /\ InSelection /\ board.sends
  /\ selection' = [selection EXCEPT !.facts = Shown(slots), !.pending = TRUE]
  /\ IF Files /\ stored
     THEN /\ filings' = Append(filings, Feedback)
          /\ board' = Rendered([board EXCEPT !.filed = TRUE], slots, selection')
     ELSE /\ board' = Rendered(board, slots, selection')
          /\ UNCHANGED filings
  /\ UNCHANGED <<slots, matcher, answers>>

PressRefused ==
  /\ InSelection /\ board.sends /\ selection.facts = NoTeam
  /\ board' = Rendered(board, slots, selection)
  /\ UNCHANGED <<selection, slots, matcher, answers, filings>>

(* The request failed; it may be sent again. *)
RequestFails ==
  /\ InSelection /\ selection.pending
  /\ selection' = [selection EXCEPT !.pending = FALSE]
  /\ board' = Rendered(board, slots, selection')
  /\ UNCHANGED <<slots, matcher, answers, filings>>

(* The window closed and opened again; a request without an answer may be  *)
(* over or may not be sent again.                                          *)
ReopenBoard(pending) ==
  /\ pending => selection.pending
  /\ slots' = SlotsFor(selection.facts, selection.match)
  /\ selection' = [selection EXCEPT !.pending = pending]
  /\ board' = Rendered(Cleared, slots', selection')
  /\ matcher' = [matcher EXCEPT !.pending = 0, !.running = 0]
  /\ answers' = <<>>
  /\ UNCHANGED filings

MatcherStep ==
  TakeFrame \/ (\E r \in Readings(matcher.running) : MatchFrame(r)) \/ ReceiveReading

BoardNext ==
  \/ \E frozen \in BOOLEAN : NewMatch(frozen)
  \/ LeaveSelection
  \/ \E s \in Slots : \/ \E v \in Values : TypeName(s, v)
                      \/ \E v \in Names : Chip(s, v)
  \/ MatcherStep \/ ApplyAll
  \/ \E stored \in BOOLEAN : Press(stored)
  \/ PressRefused \/ RequestFails \/ RenderBoard
  \/ \E pending \in BOOLEAN : ReopenBoard(pending)

BoardSpec == BoardInit /\ [][BoardNext]_boardVars

----------------------------------------------------------------------------
BoardTypeOK ==
  /\ selection.match \in 0..MaxMatches /\ selection.facts \in Teams \cup {NoTeam}
  /\ slots \in [Slots -> [value : Values, origin : SlotOrigins, locked : BOOLEAN,
                          of : 0..MaxMatches]]
  /\ \A s \in Slots : slots[s].origin = "OCR_AUTO" => ~slots[s].locked
  /\ board.submitted \in 0..MaxMatches /\ board.reading.of \in 0..MaxMatches
  /\ {matcher.pending, matcher.running} \subseteq 0..MaxMatches

(* Nothing of an earlier match is on the page: every name shown was read   *)
(* from a frame of the match on the page or entered in it, and so were the *)
(* candidates that can be clicked, although answers come when they come.   *)
SlotsAreOfThisMatch ==
  InSelection => /\ board.reading.of \in {0, selection.match}
          /\ \A s \in Slots : slots[s].value # Nothing => slots[s].of = selection.match

(* What the operator put into a slot, an empty text too, stays until the   *)
(* operator changes it or the page shows another match or is opened anew.  *)
KeepsOperatorSlots ==
  \A s \in Slots :
    slots[s].origin \in {"MANUAL_TEXT", "CANDIDATE_CLICK"} /\ slots'[s] # slots[s] =>
      \/ slots'[s].origin \in {"MANUAL_TEXT", "CANDIDATE_CLICK"}
      \/ selection'.match # selection.match
      \/ slots' = SlotsFor(selection.facts, selection.match)

(* The images are filed under the names that were sent, of the match whose *)
(* screenshot they are cut from, and once for a match, also when the press *)
(* is repeated after a failed store or a failed request.                   *)
FeedbackIsOfItsMatch ==
  /\ \A i \in 1..Len(filings) :
       /\ filings[i].of = filings[i].match
       /\ filings[i].match = selection.match => filings[i].values = selection.facts
  /\ \A i, j \in 1..Len(filings) : i < j => filings[i].match < filings[j].match

(* The screenshot the page waits for is with the worker or its answer is   *)
(* on the way, whatever the matching of it runs into.                      *)
ScreenshotIsOnItsWay ==
  board.submitted # 0 =>
    \/ board.submitted \in {matcher.pending, matcher.running}
    \/ \E i \in 1..Len(answers) : answers[i].of = board.submitted

(* The button that sends the six is enabled when a human has confirmed     *)
(* every one of them, and not by names of the matcher's nobody looked at.  *)
SendNeedsSixConfirmed == board.sends => Confirmed(slots)
=============================================================================
