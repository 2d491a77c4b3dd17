----------------------------- MODULE Projection -----------------------------
(***************************************************************************)
(* What the windows offer the human next (application/projection.py): a    *)
(* function of the active session and its latest provider job, on either   *)
(* lane.  The primary command is the one whose group or button the windows *)
(* show; it is disabled, here NoCommand, while an answer is awaited.       *)
(*                                                                         *)
(* Whether the commands offered are accepted is asked where the commands   *)
(* are: SelectionAdvice.SelectionOffersHold, MatchExport.OffersAreAccepted.*)
(***************************************************************************)
EXTENDS BattleDomain

NoCommand == "NONE"
Offer(primary, others) == [primary |-> primary, also |-> others \cup {"ABORT_MATCH"}]

(* Mutant: an unanswered request of the Selection is not looked at. *)
ProjectWithoutJob(state, reviewed, advised, job) ==
  CASE state = "SELECTION_OPEN" /\ ~reviewed -> Offer("CONFIRM_SELECTION_FACTS", {})
    [] state = "SELECTION_OPEN" /\ reviewed ->
         Offer("REQUEST_SELECTION_ADVICE", {"SET_HUMAN_SELECTION_CANDIDATE"})
    [] state = "SELECTION_ADVICE_READY" ->
         Offer("APPLY_SELECTION", {"REQUEST_SELECTION_ADVICE"})
    [] OTHER -> Offer(NoCommand, {})

(* project, for an active session; reviewed and advised: the session holds *)
(* current facts and current advice; job: status of its latest job.        *)
Project(state, reviewed, advised, job) ==
  CASE job = "DELIVERY_UNKNOWN" -> Offer("RESOLVE_DELIVERY_UNKNOWN", {})
    [] job # "DELIVERY_UNKNOWN" /\ state = "SELECTION_OPEN" ->
         IF ~reviewed THEN Offer("CONFIRM_SELECTION_FACTS", {})
         ELSE IF job \in Pending THEN Offer(NoCommand, {})
         ELSE Offer("REQUEST_SELECTION_ADVICE", {"SET_HUMAN_SELECTION_CANDIDATE"})
    [] job # "DELIVERY_UNKNOWN" /\ state = "SELECTION_ADVICE_READY" ->
         Offer("APPLY_SELECTION", {"REQUEST_SELECTION_ADVICE"})
    [] job # "DELIVERY_UNKNOWN" /\ state = "BATTLE_READY" ->
         Offer("START_TURN_CAPTURE", {})
    [] job # "DELIVERY_UNKNOWN" /\ state = "TURN_CAPTURE_PENDING" ->
         Offer("CONFIRM_TURN_FACTS", {})
    [] job # "DELIVERY_UNKNOWN" /\ state = "TURN_REVIEWED" ->
         Offer(IF job \in Pending THEN NoCommand
               ELSE IF advised THEN "RECORD_ACTUAL_ACTION" ELSE "REQUEST_TURN_ADVICE",
               {"CORRECT_TURN_FACTS"})
    [] job # "DELIVERY_UNKNOWN" /\ state = "TURN_RECORDED" -> Offer("NEXT_TURN", {})
    [] OTHER -> Offer(NoCommand, {})

(* Mutant: an ended match is offered what any other state is. *)
AtMatchEndAsBefore(state, offer) == offer

(* MatchApplication.projection: what it puts in place of that at the end   *)
(* of a match.                                                             *)
AtMatchEnd(state, offer) ==
  CASE state = "MATCH_ENDED" -> [primary |-> "SAVE_MATCH_JSON", also |-> {}]
    [] state = "MATCH_EXPORTED" -> [primary |-> "NEW_MATCH", also |-> {}]
    [] state \in Endable -> [offer EXCEPT !.also = @ \cup {"END_MATCH"}]
    [] OTHER -> offer
=============================================================================
