--------------------------- MODULE BattleDomain ---------------------------
(***************************************************************************)
(* The vocabulary every component of the battle application shares: the    *)
(* states of a match session, the statuses of a provider job, the          *)
(* dispositions of a provider result, and the three small decisions about  *)
(* jobs that both advice lanes (Selection and Turn) take in the same way.  *)
(*                                                                         *)
(* Identifiers (sessions, snapshots, jobs, advices) are positive integers  *)
(* handed out in creation order; None stands for an absent one (NULL in    *)
(* the database, None in Python).                                          *)
(***************************************************************************)
EXTENDS Naturals, Sequences

None == 0

---------------------------------------------------------------------------
(* Match sessions.                                                         *)

BattleState == {"SELECTION_OPEN", "SELECTION_ADVICE_READY", "BATTLE_READY",
                "TURN_CAPTURE_PENDING", "TURN_REVIEWED", "TURN_RECORDED",
                "MATCH_ENDED", "MATCH_EXPORTED", "ABORTED"}

(* abort_match refuses these states: the match is already over. *)
NotAbortable == {"MATCH_ENDED", "MATCH_EXPORTED", "ABORTED"}

(* end_match accepts only these: no turn is half entered. *)
Endable == {"BATTLE_READY", "TURN_RECORDED"}

---------------------------------------------------------------------------
(* Provider jobs.                                                          *)

Pending  == {"QUEUED", "IN_FLIGHT"}
Terminal == {"SUCCEEDED", "FAILED", "TIMED_OUT", "CANCELLED", "INTERRUPTED",
             "DELIVERY_UNKNOWN"}
JobStatus == Pending \cup Terminal

Disposition == {"APPLIED", "STALE_REJECTED", "INVALID_REJECTED",
                "DUPLICATE_IGNORED"}

(* A provider request is refused while the session's latest job of the     *)
(* lane is one of these: unanswered, or of unknown delivery.               *)
Blocking == Pending \cup {"DELIVERY_UNKNOWN"}

(* What start-up makes of a job the previous process left behind: a        *)
(* provider call that may have left the machine is of unknown delivery,    *)
(* one that never did is merely interrupted.                               *)
Recovered(status) ==
  CASE status = "IN_FLIGHT" -> "DELIVERY_UNKNOWN"
    [] status = "QUEUED"    -> "INTERRUPTED"
    [] OTHER                -> status

(* Mutant: the reason of the failure names its status. *)
AfterFailureMislabelled(status, reason) ==
  IF status \notin Pending THEN status
  ELSE IF reason = "TIMEOUT" THEN "TIMEOUT" ELSE "FAILED"

(* The status a failed provider call leaves on its job; a job that is no   *)
(* longer pending keeps the status it has.                                 *)
AfterFailure(status, reason) ==
  IF status \notin Pending THEN status
  ELSE IF reason = "TIMEOUT" THEN "TIMED_OUT" ELSE "FAILED"

---------------------------------------------------------------------------
(* Sanitized failure reasons of a provider call, by how they are treated:  *)
(* TIMEOUT is GEMINI_TIMEOUT; HTTP_503 stands for the transient transport  *)
(* failures (GEMINI_NETWORK_ERROR, HTTP 408, 425, 500, 502, 503, 504);     *)
(* HTTP_429 is rate limiting; QUOTA is a response of another status that   *)
(* is positively classified as quota or capacity exhaustion; OTHER is all  *)
(* the rest (authentication, malformed response, unclassified).            *)
FailureReason == {"TIMEOUT", "HTTP_429", "HTTP_503", "QUOTA", "OTHER"}

(* A human may send again after these. *)
Transient == {"TIMEOUT", "HTTP_429", "HTTP_503"}

(* The adapter itself may call the fallback model once after these. *)
FallbackEligible == {"HTTP_429", "QUOTA"}
===========================================================================
