------------------------- MODULE SelectionContract -------------------------
(***************************************************************************)
(* What the Selection phase promises, without jobs, ledger, worker, audit  *)
(* or process: a match is open or closed; while it is open and undecided   *)
(* the human may confirm facts, at most one question about them is out at  *)
(* a time, an answer counts only for the facts that are current when it    *)
(* arrives, a question may come to nothing, and once one was lost (nobody  *)
(* knows whether it was asked) no other is asked in that match.            *)
(***************************************************************************)
EXTENDS Naturals, Sequences

VARIABLES
  confirmed, \* confirmations so far; each is a new version of the facts
  matches, \* in order of creation: [open, phase, facts]
  asked,   \* the questions out, as <<match, facts>>
  lost     \* the matches in which a question was lost

cvars == <<confirmed, matches, asked, lost>>

Out(m) == {q \in asked : q[1] = m}

CInit == confirmed = 0 /\ matches = <<>> /\ asked = {} /\ lost = {}

Open(m) == m \in DOMAIN matches /\ matches[m].open

Create ==
  /\ \A m \in DOMAIN matches : ~matches[m].open
  /\ matches' = Append(matches, [open |-> TRUE, phase |-> "undecided", facts |-> 0])
  /\ UNCHANGED <<confirmed, asked, lost>>

Close(m) ==
  /\ Open(m)
  /\ matches' = [matches EXCEPT ![m].open = FALSE]
  /\ UNCHANGED <<confirmed, asked, lost>>

Confirm(m) ==
  /\ Open(m) /\ matches[m].phase = "undecided"
  /\ confirmed' = confirmed + 1
  /\ matches' = [matches EXCEPT ![m].facts = confirmed']
  /\ UNCHANGED <<asked, lost>>

Ask(m) ==
  /\ Open(m) /\ matches[m].phase = "undecided" /\ matches[m].facts # 0
  /\ Out(m) = {} /\ m \notin lost
  /\ asked' = asked \cup {<<m, matches[m].facts>>}
  /\ UNCHANGED <<confirmed, matches, lost>>

Answer(m) ==
  /\ Open(m) /\ matches[m].phase = "undecided"
  /\ <<m, matches[m].facts>> \in asked
  /\ asked' = asked \ {<<m, matches[m].facts>>}
  /\ matches' = [matches EXCEPT ![m].phase = "advised"]
  /\ UNCHANGED <<confirmed, lost>>

Decide(m) ==
  /\ Open(m) /\ matches[m].phase = "advised"
  /\ matches' = [matches EXCEPT ![m].phase = "decided"]
  /\ UNCHANGED <<confirmed, asked, lost>>

(* A question comes to nothing. *)
Fizzle(q) == q \in asked /\ asked' = asked \ {q} /\ UNCHANGED <<confirmed, matches, lost>>

(* The process stopped: what was out is out no more; a part of it is lost. *)
Forget ==
  /\ asked' = {}
  /\ \E gone \in SUBSET asked : lost' = lost \cup {q[1] : q \in gone}
  /\ UNCHANGED <<confirmed, matches>>

CNext ==
  \/ Create
  \/ \E m \in DOMAIN matches : Close(m) \/ Confirm(m) \/ Ask(m) \/ Answer(m) \/ Decide(m)
  \/ \E q \in asked : Fizzle(q)
  \/ Forget

CSpec == CInit /\ [][CNext]_cvars
===========================================================================
