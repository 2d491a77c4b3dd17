---------------------------- MODULE TurnContract ----------------------------
(***************************************************************************)
(* What the turns of a match promise, without transactions, ledger,        *)
(* worker, adapters or process: matches follow one another; the turns of a *)
(* match are gone through in order; on each the human confirms a board, as *)
(* often as needed, has it written down, asks about either, gets at most   *)
(* one answer at a time, records what was played, once, and goes on.       *)
(*                                                                         *)
(*   - Of all questions about a match one at most is out.                  *)
(*   - Nothing is asked about twice.                                       *)
(*   - An answer counts only for what is still under review when it comes. *)
(*   - A new board withdraws what was asked about the one it replaces.     *)
(*   - A turn is left only once it has been recorded, on advice.           *)
(***************************************************************************)
EXTENDS Naturals, Sequences

CONSTANT Choices \* the sets of switches the human can confirm

VARIABLES
  match,     \* the newest match
  open,      \* it has not been given up
  phase,     \* where it is, as the program names it
  turn,      \* its turn
  board,     \* the confirmation under review, 0 for none
  note,      \* what is written down of it: {} or {<<number, switches>>}
  advice,    \* the question whose answer is shown, 0 for none
  confirmed, \* confirmations so far
  noted,     \* notes so far
  questions, \* every question: [match, turn, rich, snap, switches, fate]
  played     \* what was recorded: [match, turn, board]

table == <<match, open, phase, turn>>
review == <<board, note, advice>>
written == <<confirmed, noted>>
tvars == <<table, review, written, questions, played>>

TInit ==
  /\ match = 0 /\ open = FALSE /\ phase = "ABORTED" /\ turn = 0
  /\ board = 0 /\ note = {} /\ advice = 0
  /\ confirmed = 0 /\ noted = 0 /\ questions = <<>> /\ played = <<>>

---------------------------------------------------------------------------
Reviewing == open /\ phase = "TURN_REVIEWED"
Questions == DOMAIN questions
OfMatch(q) == questions[q].match = match
Out(q) == questions[q].fate = "out"
Newest(q) == OfMatch(q) /\ \A p \in Questions : OfMatch(p) => p <= q

Settled(q, fate) == [questions EXCEPT ![q].fate = fate]

(* Nothing is under review any more. *)
Clear == board' = 0 /\ note' = {} /\ advice' = 0

Begin ==
  /\ ~open
  /\ match' = match + 1 /\ open' = TRUE /\ phase' = "BATTLE_READY" /\ turn' = 0
  /\ Clear
  /\ UNCHANGED <<written, questions, played>>

GiveUp ==
  /\ open
  /\ open' = FALSE /\ phase' = "ABORTED" /\ note' = {}
  /\ UNCHANGED <<match, turn, board, advice, written, questions, played>>

Enter(n) ==
  /\ open
  /\ turn' = n /\ phase' = "TURN_CAPTURE_PENDING"
  /\ Clear
  /\ UNCHANGED <<match, open, written, questions, played>>

FirstTurn == phase = "BATTLE_READY" /\ turn = 0 /\ Enter(1)

IsPlayed == \E c \in DOMAIN played : played[c].match = match /\ played[c].turn = turn

NextTurn == phase = "TURN_RECORDED" /\ IsPlayed /\ Enter(turn + 1)

---------------------------------------------------------------------------
Withdrawn ==
  [q \in Questions |-> IF OfMatch(q) /\ Out(q)
                       THEN [questions[q] EXCEPT !.fate = "void"] ELSE questions[q]]

Confirm ==
  /\ open /\ phase \in {"TURN_CAPTURE_PENDING", "TURN_REVIEWED"}
  /\ phase' = "TURN_REVIEWED"
  /\ confirmed' = confirmed + 1
  /\ board' = confirmed + 1 /\ note' = {} /\ advice' = 0
  /\ questions' = IF board = 0 THEN questions ELSE Withdrawn
  /\ UNCHANGED <<match, open, turn, noted, played>>

WriteDown ==
  /\ Reviewing
  /\ note = {}
  /\ noted' = noted + 1
  /\ note' = {<<noted + 1, 0>>}
  /\ UNCHANGED <<table, board, advice, confirmed, questions, played>>

(* The switches that are legal are confirmed for the note. *)
Choose(choice) ==
  /\ Reviewing
  /\ \E x \in note : note' = {<<x[1], choice>>}
  /\ UNCHANGED <<table, board, advice, written, questions, played>>

---------------------------------------------------------------------------
Ask(rich, snap, switches) ==
  /\ Reviewing
  /\ \A q \in Questions : OfMatch(q) => ~Out(q)
  /\ \A q \in Questions :
       ~(/\ OfMatch(q) /\ questions[q].turn = turn
         /\ questions[q].rich = rich /\ questions[q].snap = snap)
  /\ questions' = Append(questions,
       [match |-> match, turn |-> turn, rich |-> rich, snap |-> snap,
        switches |-> switches, fate |-> "out"])
  /\ UNCHANGED <<table, review, written, played>>

(* About the board, unless nobody knows what became of the last question. *)
AskOnBoard ==
  /\ board # 0 /\ advice = 0
  /\ \A q \in Questions : Newest(q) => questions[q].fate # "lost"
  /\ Ask(FALSE, board, 0)

(* About the note, once its switches are confirmed. *)
AskOnNote == \E x \in note : x[2] \in Choices /\ Ask(TRUE, x[1], x[2])

IsUnderReview(q) ==
  /\ OfMatch(q) /\ questions[q].turn = turn
  /\ IF questions[q].rich THEN <<questions[q].snap, questions[q].switches>> \in note
                          ELSE questions[q].snap = board

(* The answer is shown; the note is of before it. *)
Answer(q) ==
  /\ Reviewing
  /\ Out(q) /\ IsUnderReview(q)
  /\ advice' = q /\ note' = {}
  /\ questions' = Settled(q, "counted")
  /\ UNCHANGED <<table, board, written, played>>

(* A question comes to nothing. *)
Fizzle(q) ==
  /\ Out(q)
  /\ questions' = Settled(q, "void")
  /\ UNCHANGED <<table, review, written, played>>

(* The process stopped: what was out is out no more; a part of it is lost. *)
Forget ==
  /\ \E gone \in SUBSET Questions :
       questions' = [q \in Questions |->
         IF ~Out(q) THEN questions[q]
         ELSE [questions[q] EXCEPT !.fate = IF q \in gone THEN "lost" ELSE "void"]]
  /\ UNCHANGED <<table, review, written, played>>

(* What was played is recorded. *)
Record ==
  /\ Reviewing
  /\ board # 0 /\ advice # 0
  /\ ~IsPlayed
  /\ played' = Append(played, [match |-> match, turn |-> turn, board |-> board])
  /\ phase' = "TURN_RECORDED" /\ note' = {}
  /\ UNCHANGED <<match, open, turn, board, advice, written, questions>>

---------------------------------------------------------------------------
TNext ==
  \/ Begin \/ GiveUp \/ FirstTurn \/ NextTurn
  \/ Confirm \/ WriteDown \/ AskOnBoard \/ AskOnNote \/ Forget \/ Record
  \/ \E choice \in Choices : Choose(choice)
  \/ \E q \in Questions : Answer(q) \/ Fizzle(q)

TSpec == TInit /\ [][TNext]_tvars
=============================================================================
