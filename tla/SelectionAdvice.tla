-------------------------- MODULE SelectionAdvice --------------------------
(***************************************************************************)
(* The Selection phase of a match: the human confirms the two teams, asks  *)
(* a provider for advice once, and applies a selection.  Three parties act *)
(* on it.                                                                  *)
(*                                                                         *)
(*   - The UI thread runs the application's commands, each one SQLite      *)
(*     transaction (application/service.py), and the callbacks of the      *)
(*     Gemini adapter (ui/gemini_advice.py), each a series of separate     *)
(*     transactions.  ui.step names the transaction that comes next; the   *)
(*     thread takes a new command or callback only at step "idle".         *)
(*   - One worker thread calls transport.send once and queues the answer.  *)
(*   - The process may stop between any two of these steps.  The database  *)
(*     (sessions, facts, jobs, attempts, results, ledger, advices)         *)
(*     survives; the adapter, the worker and ui do not.  The next start    *)
(*     runs recover_after_restart.                                         *)
(*                                                                         *)
(* The model is of the application's own interface: any command may come   *)
(* at any time, so the gates of the windows above it only remove           *)
(* behaviours.                                                             *)
(***************************************************************************)
EXTENDS Projection

CONSTANTS
  MaxSessions,   \* matches created
  MaxFacts,      \* Selection facts confirmed, over all matches
  MaxJobs,       \* provider jobs created, over all matches
  MaxMetadata,   \* metadata revisions of one match
  MaxRedelivered,\* result envelopes delivered outside the adapter
  MaxCrashes     \* process stops

ASSUME BoundsAreNaturals ==
  /\ MaxSessions \in Nat
  /\ MaxFacts \in Nat
  /\ MaxJobs \in Nat
  /\ MaxMetadata \in Nat
  /\ MaxRedelivered \in Nat
  /\ MaxCrashes \in Nat

VARIABLES
  sessions,  \* battle_sessions rows in order of generation
  facts,     \* number of reviewed_selection_facts rows; the last is the id
  jobs,      \* async_jobs rows in rowid order
  attempts,  \* attempts[j]: provider_attempt_audits rows of job j by ordinal
  results,   \* results[j]: dispositions in async_job_results of job j
  ledger,    \* gemini_selection_attempt_ledger rows
  advices,   \* selection_advices rows in insertion order
  adapter,   \* the Gemini adapter's memory: is a dispatch in flight
  worker,    \* the dispatch's worker thread
  ui,        \* the UI thread's next step
  sends,     \* history: the provider calls made, as <<job, ordinal>>
  redelivered, crashes  \* bounded counts of the environment's events

store == <<sessions, facts, jobs, attempts, results, ledger, advices>>
environment == <<redelivered, crashes>>
vars == <<store, adapter, worker, ui, sends, environment>>

---------------------------------------------------------------------------
Lane == {"MOCK", "GEMINI"}
Payload == {"LEGAL", "ILLEGAL"}
SelectionState == {"SELECTION_OPEN", "SELECTION_ADVICE_READY",
                   "BATTLE_READY", "ABORTED"}

Session == [state: SelectionState, active: BOOLEAN, rev: Nat, meta: Nat,
            facts: Nat, advice: Nat, applied: Nat]
Job == [sess: Nat, rev: Nat, facts: Nat, lane: Lane, status: JobStatus,
        dispatches: Nat]
Attempt == [outcome: {"STARTED", "SUCCEEDED", "FAILED"},
            reason: FailureReason \cup {"NONE"}]
LedgerRow == [sess: Nat, rev: Nat, facts: Nat, job: Nat]
Advice == [sess: Nat, job: Nat]

Step == {"idle", "dispatch", "attempt", "apply", "reject", "fail", "down"}
Phase == {"none", "started", "waiting", "succeeded", "failed"}

Idle == [step |-> "idle", job |-> None, ordinal |-> 0, arg |-> "NONE"]
NoWorker == [phase |-> "none", job |-> None, ordinal |-> 0, arg |-> "NONE"]
Args == Payload \cup FailureReason \cup {"NONE"}

TypeOK ==
  /\ sessions \in Seq(Session)
  /\ facts \in Nat
  /\ jobs \in Seq(Job)
  /\ attempts \in Seq(Seq(Attempt)) /\ Len(attempts) = Len(jobs)
  /\ results \in Seq(Seq(Disposition)) /\ Len(results) = Len(jobs)
  /\ ledger \subseteq LedgerRow
  /\ advices \in Seq(Advice)
  /\ adapter \in BOOLEAN
  /\ worker \in [phase: Phase, job: Nat, ordinal: 0..2, arg: Args]
  /\ ui \in [step: Step, job: Nat, ordinal: 0..2, arg: Args]
  /\ sends \in Seq(Nat \X (1..2))
  /\ redelivered \in Nat
  /\ crashes \in Nat

---------------------------------------------------------------------------
Sessions == DOMAIN sessions
Jobs == DOMAIN jobs
NewJob == Len(jobs) + 1

(* latest_job_by_type(session, SELECTION_ADVICE) is job j. *)
IsLatest(j, s) ==
  /\ j \in Jobs
  /\ jobs[j].sess = s
  /\ \A k \in Jobs : jobs[k].sess = s => k <= j

(* Mutant: only an unanswered request blocks the next one. *)
MayRequestAfterUnknown(s) ==
  \A j \in Jobs : IsLatest(j, s) => jobs[j].status \notin Pending

(* _guard_provider_request on the session's latest job. *)
MayRequest(s) == \A j \in Jobs : IsLatest(j, s) => jobs[j].status \notin Blocking

(* The Selection identity a reservation is unique for. *)
Identity(s) == [sess |-> s, rev |-> sessions[s].rev, facts |-> sessions[s].facts]
IdentityOf(r) == [sess |-> r.sess, rev |-> r.rev, facts |-> r.facts]
Reserved(s) == \E r \in ledger : IdentityOf(r) = Identity(s)

(* _gemini_selection_failure_reason with transient_only: the job was       *)
(* created for the current identity, ended in failure, and its last        *)
(* provider attempt failed for a transient reason.                         *)
EndedTransiently(j) ==
  /\ jobs[j].status \in {"FAILED", "TIMED_OUT"}
  /\ attempts[j] # <<>>
  /\ LET last == attempts[j][Len(attempts[j])]
     IN last.outcome = "FAILED" /\ last.reason \in Transient
MayResend(s, j) ==
  /\ IsLatest(j, s)
  /\ IdentityOf(jobs[j]) = Identity(s)
  /\ EndedTransiently(j)

---------------------------------------------------------------------------
Init ==
  /\ sessions = <<>> /\ facts = 0 /\ jobs = <<>> /\ attempts = <<>>
  /\ results = <<>> /\ ledger = {} /\ advices = <<>>
  /\ adapter = FALSE /\ worker = NoWorker /\ ui = Idle
  /\ sends = <<>> /\ redelivered = 0 /\ crashes = 0

---------------------------------------------------------------------------
(* Commands of the human that touch the session alone.                     *)

NewMatch ==
  /\ ui.step = "idle"
  /\ \A s \in Sessions : ~sessions[s].active
  /\ Len(sessions) < MaxSessions
  /\ sessions' = Append(sessions,
       [state |-> "SELECTION_OPEN", active |-> TRUE, rev |-> 1, meta |-> 0,
        facts |-> None, advice |-> None, applied |-> None])
  /\ UNCHANGED <<facts, jobs, attempts, results, ledger, advices, adapter,
                 worker, ui, sends, environment>>

(* Jobs, ledger and adapter are left as they are: a provider call under    *)
(* way goes on for a match that no longer exists.                          *)
AbortMatch(s) ==
  /\ ui.step = "idle"
  /\ sessions[s].active
  /\ sessions[s].state \notin NotAbortable
  /\ sessions' = [sessions EXCEPT ![s].state = "ABORTED", ![s].active = FALSE,
                                  ![s].rev = @ + 1]
  /\ UNCHANGED <<facts, jobs, attempts, results, ledger, advices, adapter,
                 worker, ui, sends, environment>>

(* Also a correction: the facts may be confirmed again while a request for *)
(* the previous ones is unanswered.                                        *)
ConfirmFacts(s) ==
  /\ ui.step = "idle"
  /\ sessions[s].active
  /\ sessions[s].state = "SELECTION_OPEN"
  /\ facts < MaxFacts
  /\ facts' = facts + 1
  /\ sessions' = [sessions EXCEPT ![s].facts = facts', ![s].advice = None,
                                  ![s].rev = @ + 1]
  /\ UNCHANGED <<jobs, attempts, results, ledger, advices, adapter, worker,
                 ui, sends, environment>>

(* Mutant: metadata moves the battle revision. *)
UpdateMetadataAsFact(s) ==
  /\ ui.step = "idle"
  /\ sessions[s].active
  /\ sessions[s].meta < MaxMetadata
  /\ sessions' = [sessions EXCEPT ![s].meta = @ + 1, ![s].rev = @ + 1]
  /\ UNCHANGED <<facts, jobs, attempts, results, ledger, advices, adapter,
                 worker, ui, sends, environment>>

UpdateMetadata(s) ==
  /\ ui.step = "idle"
  /\ sessions[s].active
  /\ sessions[s].meta < MaxMetadata
  /\ sessions' = [sessions EXCEPT ![s].meta = @ + 1]
  /\ UNCHANGED <<facts, jobs, attempts, results, ledger, advices, adapter,
                 worker, ui, sends, environment>>

ApplySelection(s) ==
  /\ ui.step = "idle"
  /\ sessions[s].active
  /\ sessions[s].state = "SELECTION_ADVICE_READY"
  /\ sessions[s].advice # None
  /\ sessions[s].facts # None
  /\ sessions' = [sessions EXCEPT ![s].applied = sessions[s].advice,
                                  ![s].state = "BATTLE_READY", ![s].rev = @ + 1]
  /\ UNCHANGED <<facts, jobs, attempts, results, ledger, advices, adapter,
                 worker, ui, sends, environment>>

---------------------------------------------------------------------------
(* Requests.                                                               *)

InsertJob(s, lane) ==
  /\ NewJob <= MaxJobs
  /\ jobs' = Append(jobs, [sess |-> s, rev |-> sessions[s].rev,
                           facts |-> sessions[s].facts, lane |-> lane,
                           status |-> "QUEUED", dispatches |-> 0])
  /\ attempts' = Append(attempts, <<>>)
  /\ results' = Append(results, <<>>)

(* The mock adapter creates a job and applies its own answer to it in the  *)
(* next transaction; nothing is dispatched.                                *)
RequestMock(s) ==
  /\ ui.step = "idle"
  /\ sessions[s].active
  /\ sessions[s].state = "SELECTION_OPEN"
  /\ sessions[s].facts # None
  /\ MayRequest(s)
  /\ InsertJob(s, "MOCK")
  /\ ui' = [step |-> "apply", job |-> NewJob, ordinal |-> 0, arg |-> "LEGAL"]
  /\ UNCHANGED <<sessions, facts, ledger, advices, adapter, worker, sends,
                 environment>>

(* The production lane: the first reservation of an identity needs the     *)
(* lane free; any later one replaces the reservation of a job that ended   *)
(* in a transient failure.                                                 *)
ReserveFirst(s) ==
  /\ ~Reserved(s)
  /\ MayRequest(s)
  /\ ledger' = ledger \cup
       {[sess |-> s, rev |-> sessions[s].rev, facts |-> sessions[s].facts,
         job |-> NewJob]}

(* Mutant: a reservation is replaced however its job ended. *)
ReserveAgainAlways(s) ==
  \E r \in ledger :
    /\ IdentityOf(r) = Identity(s)
    /\ jobs[r.job].status \notin Pending
    /\ ledger' = (ledger \ {r}) \cup {[r EXCEPT !.job = NewJob]}

ReserveAgain(s) ==
  \E r \in ledger :
    /\ IdentityOf(r) = Identity(s)
    /\ MayResend(s, r.job)
    /\ ledger' = (ledger \ {r}) \cup {[r EXCEPT !.job = NewJob]}

SendToGemini(s) ==
  /\ ui.step = "idle"
  /\ ~adapter
  /\ sessions[s].active
  /\ sessions[s].state = "SELECTION_OPEN"
  /\ sessions[s].facts # None
  /\ \/ ReserveFirst(s)
     \/ ReserveAgain(s)
  /\ InsertJob(s, "GEMINI")
  /\ ui' = [step |-> "dispatch", job |-> NewJob, ordinal |-> 1, arg |-> "NONE"]
  /\ UNCHANGED <<sessions, facts, advices, adapter, worker, sends, environment>>

(* mark_selection_advice_dispatched *)
MarkDispatched ==
  LET j == ui.job IN
  /\ ui.step = "dispatch"
  /\ \E s \in Sessions : sessions[s].active /\ IsLatest(j, s)
  /\ jobs[j].status = "QUEUED"
  /\ jobs' = [jobs EXCEPT ![j].status = "IN_FLIGHT", ![j].dispatches = @ + 1]
  /\ ui' = [ui EXCEPT !.step = "attempt"]
  /\ UNCHANGED <<sessions, facts, attempts, results, ledger, advices, adapter,
                 worker, sends, environment>>

(* dispatch_attempt: evidence of the attempt is committed before the       *)
(* worker thread is started.                                               *)
StartAttempt ==
  LET j == ui.job IN
  /\ ui.step = "attempt"
  /\ attempts' = [attempts EXCEPT
       ![j] = Append(@, [outcome |-> "STARTED", reason |-> "NONE"])]
  /\ adapter' = TRUE
  /\ worker' = [phase |-> "started", job |-> j, ordinal |-> ui.ordinal,
                arg |-> "NONE"]
  /\ ui' = Idle
  /\ UNCHANGED <<sessions, facts, jobs, results, ledger, advices, sends,
                 environment>>

---------------------------------------------------------------------------
(* The worker thread: one transport.send, one answer.                      *)

WorkerSend ==
  /\ worker.phase = "started"
  /\ sends' = Append(sends, <<worker.job, worker.ordinal>>)
  /\ worker' = [worker EXCEPT !.phase = "waiting"]
  /\ UNCHANGED <<store, adapter, ui, environment>>

WorkerAnswer ==
  /\ worker.phase = "waiting"
  /\ \/ \E p \in Payload :
          worker' = [worker EXCEPT !.phase = "succeeded", !.arg = p]
     \/ \E r \in FailureReason :
          worker' = [worker EXCEPT !.phase = "failed", !.arg = r]
  /\ UNCHANGED <<store, adapter, ui, sends, environment>>

---------------------------------------------------------------------------
(* The adapter's callbacks, on the UI thread.                              *)

FinishAttempt(outcome, reason) ==
  attempts' = [attempts EXCEPT ![worker.job][worker.ordinal] =
                 [outcome |-> outcome, reason |-> reason]]

HandleSucceeded ==
  /\ ui.step = "idle"
  /\ worker.phase = "succeeded"
  /\ adapter' = FALSE
  /\ FinishAttempt("SUCCEEDED", "NONE")
  /\ ui' = [step |-> "apply", job |-> worker.job, ordinal |-> worker.ordinal,
            arg |-> worker.arg]
  /\ worker' = NoWorker
  /\ UNCHANGED <<sessions, facts, jobs, results, ledger, advices, sends,
                 environment>>

(* Mutant: every failure of the first attempt falls back. *)
HandleFailedFallsBack ==
  /\ ui.step = "idle"
  /\ worker.phase = "failed"
  /\ FinishAttempt("FAILED", worker.arg)
  /\ \/ /\ worker.ordinal = 1
        /\ ui' = [step |-> "attempt", job |-> worker.job, ordinal |-> 2,
                  arg |-> "NONE"]
        /\ UNCHANGED adapter
     \/ /\ worker.ordinal # 1
        /\ ui' = [step |-> "fail", job |-> worker.job,
                  ordinal |-> worker.ordinal, arg |-> worker.arg]
        /\ adapter' = FALSE
  /\ worker' = NoWorker
  /\ UNCHANGED <<sessions, facts, jobs, results, ledger, advices, sends,
                 environment>>

(* Mutant: the job of a failed call is never failed. *)
HandleFailedForgetsJob ==
  /\ ui.step = "idle"
  /\ worker.phase = "failed"
  /\ FinishAttempt("FAILED", worker.arg)
  /\ adapter' = FALSE
  /\ worker' = NoWorker
  /\ UNCHANGED <<sessions, facts, jobs, results, ledger, advices, ui, sends,
                 environment>>

(* A quota or rate failure of the first attempt goes straight on to the    *)
(* fallback model; nothing asks whether the match is still the current     *)
(* one.                                                                    *)
HandleFailed ==
  LET fallback == worker.ordinal = 1 /\ worker.arg \in FallbackEligible IN
  /\ ui.step = "idle"
  /\ worker.phase = "failed"
  /\ FinishAttempt("FAILED", worker.arg)
  /\ \/ /\ fallback
        /\ ui' = [step |-> "attempt", job |-> worker.job, ordinal |-> 2,
                  arg |-> "NONE"]
        /\ UNCHANGED adapter
     \/ /\ ~fallback
        /\ ui' = [step |-> "fail", job |-> worker.job,
                  ordinal |-> worker.ordinal, arg |-> worker.arg]
        /\ adapter' = FALSE
  /\ worker' = NoWorker
  /\ UNCHANGED <<sessions, facts, jobs, results, ledger, advices, sends,
                 environment>>

---------------------------------------------------------------------------
(* apply_selection_advice_result.                                          *)

(* Mutant: an answer is bound by its job and its match alone. *)
BindingHoldsByJob(j) ==
  LET s == jobs[j].sess IN
  /\ sessions[s].active
  /\ IsLatest(j, s)
  /\ jobs[j].status \in Pending
  /\ sessions[s].state = "SELECTION_OPEN"

(* _binding_failure_reason is None: the job is the latest of the active    *)
(* session and still pending, and the session's revision, state and        *)
(* reviewed facts are those the job was created for.                       *)
BindingHolds(j) ==
  LET s == jobs[j].sess IN
  /\ sessions[s].active
  /\ IsLatest(j, s)
  /\ jobs[j].status \in Pending
  /\ jobs[j].rev = sessions[s].rev
  /\ sessions[s].state = "SELECTION_OPEN"
  /\ jobs[j].facts = sessions[s].facts

WasApplied(j) == \E i \in DOMAIN results[j] : results[j][i] = "APPLIED"

DispositionOf(j, payload) ==
  IF WasApplied(j) THEN "DUPLICATE_IGNORED"
  ELSE IF ~BindingHolds(j) THEN "STALE_REJECTED"
  ELSE IF payload = "ILLEGAL" THEN "INVALID_REJECTED"
  ELSE "APPLIED"

ApplyResult(j, payload) ==
  LET d == DispositionOf(j, payload)
      s == jobs[j].sess
  IN
  /\ results' = [results EXCEPT ![j] = Append(@, d)]
  /\ \/ /\ d = "APPLIED"
        /\ advices' = Append(advices, [sess |-> s, job |-> j])
        /\ sessions' = [sessions EXCEPT
             ![s].advice = Len(advices) + 1,
             ![s].state = "SELECTION_ADVICE_READY", ![s].rev = @ + 1]
        /\ jobs' = [jobs EXCEPT ![j].status = "SUCCEEDED"]
     \/ /\ d = "INVALID_REJECTED"
        /\ jobs' = [jobs EXCEPT ![j].status = "FAILED"]
        /\ UNCHANGED <<sessions, advices>>
     \/ /\ d \in {"STALE_REJECTED", "DUPLICATE_IGNORED"}
        /\ UNCHANGED <<sessions, advices, jobs>>

(* The answer of the adapter's own dispatch, or of the mock adapter.  The  *)
(* Gemini adapter fails its job when the answer was not applied.           *)
Apply ==
  /\ ui.step = "apply"
  /\ ApplyResult(ui.job, ui.arg)
  /\ ui' = IF \/ jobs[ui.job].lane = "MOCK"
              \/ DispositionOf(ui.job, ui.arg) = "APPLIED"
           THEN Idle
           ELSE [ui EXCEPT !.step = "reject", !.arg = "OTHER"]
  /\ UNCHANGED <<facts, attempts, ledger, adapter, worker, sends, environment>>

(* A result envelope that reaches the application on any other way: late,  *)
(* repeated, or ahead of the adapter's own callback.                       *)
Redeliver(j, payload) ==
  /\ ui.step = "idle"
  /\ redelivered < MaxRedelivered
  /\ redelivered' = redelivered + 1
  /\ ApplyResult(j, payload)
  /\ UNCHANGED <<facts, attempts, ledger, adapter, worker, ui, sends, crashes>>

(* fail_selection_advice_job *)
FailJob ==
  /\ ui.step \in {"fail", "reject"}
  /\ jobs' = [jobs EXCEPT ![ui.job].status = AfterFailure(@, ui.arg)]
  /\ ui' = Idle
  /\ UNCHANGED <<sessions, facts, attempts, results, ledger, advices, adapter,
                 worker, sends, environment>>

---------------------------------------------------------------------------
(* The process.                                                            *)

Crash ==
  /\ ui.step # "down"
  /\ crashes < MaxCrashes
  /\ crashes' = crashes + 1
  /\ ui' = [Idle EXCEPT !.step = "down"]
  /\ adapter' = FALSE
  /\ worker' = NoWorker
  /\ UNCHANGED <<store, sends, redelivered>>

(* Start-up: recover_after_restart, then the window. *)
Restart ==
  /\ ui.step = "down"
  /\ jobs' = [j \in Jobs |-> [jobs[j] EXCEPT !.status = Recovered(@)]]
  /\ ui' = Idle
  /\ UNCHANGED <<sessions, facts, attempts, results, ledger, advices, adapter,
                 worker, sends, environment>>

---------------------------------------------------------------------------
Command ==
  \/ NewMatch
  \/ \E s \in Sessions :
       \/ AbortMatch(s)
       \/ ConfirmFacts(s)
       \/ UpdateMetadata(s)
       \/ ApplySelection(s)
       \/ RequestMock(s)
       \/ SendToGemini(s)
  \/ \E j \in Jobs, p \in Payload : Redeliver(j, p)

UiStep == MarkDispatched \/ StartAttempt \/ Apply \/ FailJob
Callback == HandleSucceeded \/ HandleFailed
WorkerStep == WorkerSend \/ WorkerAnswer

Next == Command \/ UiStep \/ Callback \/ WorkerStep \/ Crash \/ Restart

(* The UI thread finishes what it has begun and its event loop delivers    *)
(* queued signals; the worker thread runs and transport.send always        *)
(* returns, at the latest with GEMINI_TIMEOUT.  Nothing obliges the human  *)
(* to issue a command or to start the process again.                       *)
Fairness == WF_vars(UiStep) /\ WF_vars(Callback) /\ WF_vars(WorkerStep)

Spec == Init /\ [][Next]_vars /\ Fairness
---------------------------------------------------------------------------
(* Properties.                                                             *)

(* At most one match holds the active slot, and it is the newest one: a    *)
(* command that loads "the active session" can never pick up an older      *)
(* match (new_match, abort_match, ux_single_active_session).               *)
ActiveIsNewest ==
  \A s \in Sessions : sessions[s].active => s = Len(sessions)

(* No job waits for nobody: a job is QUEUED or IN_FLIGHT only while the    *)
(* UI thread is on its way through it or its dispatch is in flight.  Were  *)
(* it otherwise the window would show WAIT_SELECTION_ADVICE until the      *)
(* match is aborted, since a pending job blocks every later request.       *)
PendingIsOwned ==
  \A j \in Jobs : (jobs[j].status \in Pending /\ ui.step # "down") =>
    \/ ui.job = j /\ ui.step \in {"dispatch", "attempt", "apply", "reject", "fail"}
    \/ adapter /\ worker.job = j

(* The current advice answers the facts the human confirmed last, was      *)
(* computed at the revision just before it, and was put there by a job     *)
(* that SUCCEEDED; while the match is still open there is none.            *)
AdviceMatchesFacts ==
  \A s \in Sessions :
    /\ sessions[s].advice # None =>
         LET a == advices[sessions[s].advice] IN
         /\ a.sess = s
         /\ jobs[a.job].sess = s
         /\ jobs[a.job].facts = sessions[s].facts
         /\ jobs[a.job].status = "SUCCEEDED"
         /\ jobs[a.job].rev < sessions[s].rev
    /\ sessions[s].state = "SELECTION_OPEN" => sessions[s].advice = None
    /\ sessions[s].applied # None => sessions[s].applied = sessions[s].advice

(* projection, of the session's latest job.                                *)
SelectionOffer(s) ==
  LET of == {j \in Jobs : jobs[j].sess = s} IN
  Project(sessions[s].state, sessions[s].facts # None, sessions[s].advice # None,
          IF of = {} THEN "NONE" ELSE jobs[CHOOSE j \in of : IsLatest(j, s)].status)

(* What the window offers before the battle is what the application        *)
(* accepts.  A request is refused only where the one attempt for these     *)
(* facts was made and failed; the facts can be confirmed again then, or    *)
(* the retry of a transient failure is still open.  Nothing is offered     *)
(* only while an answer is on its way, and when a delivery is unknown,     *)
(* where every lane would refuse a request.                                *)
SelectionOffersHold ==
  \A s \in Sessions : sessions[s].active =>
    LET primary == SelectionOffer(s).primary
    IN /\ primary = "CONFIRM_SELECTION_FACTS" => \A j \in Jobs : jobs[j].sess # s
       /\ primary = "REQUEST_SELECTION_ADVICE" =>
            /\ MayRequest(s)
            /\ \A r \in ledger : IdentityOf(r) = Identity(s) =>
                 jobs[r.job].status \in Terminal \ {"SUCCEEDED"}
       /\ primary = "APPLY_SELECTION" => sessions[s].advice # None
       /\ primary = "RESOLVE_DELIVERY_UNKNOWN" =>
            ~MayRequest(s) /\ \A r \in ledger : ~MayResend(s, r.job)
       /\ primary = NoCommand /\ sessions[s].state = "SELECTION_OPEN" =>
            \E j \in Jobs : IsLatest(j, s) /\ jobs[j].status \in Pending

(* However often a result is delivered it takes effect once: a job has at  *)
(* most one APPLIED result, exactly the SUCCEEDED jobs have one, and each  *)
(* of those left one advice row.                                           *)
AppliedOnce ==
  \A j \in Jobs :
    /\ \A i, k \in DOMAIN results[j] :
         (results[j][i] = "APPLIED" /\ results[j][k] = "APPLIED") => i = k
    /\ jobs[j].status = "SUCCEEDED" <=> WasApplied(j)
    /\ jobs[j].status = "SUCCEEDED" <=> (\E a \in DOMAIN advices : advices[a].job = j)
    /\ \A a, b \in DOMAIN advices : (advices[a].job = j /\ advices[b].job = j) => a = b

(* The advice shown belongs to the facts confirmed last, and an answer     *)
(* counts once.                                                            *)
AdviceIsSound == AdviceMatchesFacts /\ AppliedOnce

(* Of the production jobs created for one Selection identity all but the   *)
(* newest ended in a transient failure the human saw, and the ledger names *)
(* the newest (reserve_gemini_selection_attempt).                          *)
OneAttemptPerIdentity ==
  \A j \in Jobs : jobs[j].lane = "GEMINI" =>
    LET same == {k \in Jobs : /\ jobs[k].lane = "GEMINI"
                             /\ IdentityOf(jobs[k]) = IdentityOf(jobs[j])}
    IN \/ \E k \in same : k > j /\ EndedTransiently(j)
       \/ /\ \A k \in same : k <= j
          /\ \E r \in ledger : r.job = j /\ IdentityOf(r) = IdentityOf(jobs[j])

(* Every provider call was announced in the database before it was made,   *)
(* no call is made twice, a job makes two at most and the second only      *)
(* after the first was recorded as a quota or rate failure; and only a job *)
(* that was marked dispatched exactly once makes any.                      *)
EachSendIsAnnounced ==
  \A i \in DOMAIN sends :
    LET j == sends[i][1]
        o == sends[i][2]
    IN /\ o <= Len(attempts[j])
       /\ jobs[j].dispatches = 1
       /\ o = 2 => /\ attempts[j][1].outcome = "FAILED"
                   /\ attempts[j][1].reason \in FallbackEligible
       /\ \A k \in DOMAIN sends : sends[k] = sends[i] => k = i

(* No identity is attempted, and no call made, that the ledger and the     *)
(* audit do not account for.                                               *)
SendsAreAccounted == EachSendIsAnnounced /\ OneAttemptPerIdentity

(* A request that may or may not have reached the provider is never        *)
(* followed by another one in the same match, however often the facts are  *)
(* confirmed again (_guard_provider_request, recover_after_restart).       *)
UnknownDeliveryEndsRequests ==
  \A j, k \in Jobs :
    (jobs[j].status = "DELIVERY_UNKNOWN" /\ jobs[k].sess = jobs[j].sess) => k <= j

(* A match that has given up the active slot is never written again: a     *)
(* late answer, a fallback or a recovery leaves it as it was.              *)
ClosedMatchIsFrozen ==
  [][\A s \in Sessions : ~sessions[s].active => sessions'[s] = sessions[s]]_vars

(* A job that has come to an end keeps its status: a late failure, a late  *)
(* answer and a restart cannot reopen or relabel it.                       *)
TerminalIsFinal ==
  [][\A j \in Jobs : jobs[j].status \in Terminal => jobs'[j].status = jobs[j].status]_vars

(* The binding does not reject what it should accept: a legal answer for   *)
(* the facts the active match still shows, delivered while its job is the  *)
(* one outstanding, is applied, whatever metadata was changed meanwhile.   *)
CurrentAnswerIsApplied ==
  [][\A s \in Sessions :
       LET j == ui.job IN
       (/\ ui.step = "apply" /\ ui'.step \in {"idle", "reject"} /\ ui.arg = "LEGAL"
        /\ sessions[s].active
        /\ jobs[j].sess = s /\ jobs[j].facts = sessions[s].facts
        /\ jobs[j].status \in Pending)
       => (sessions'[s].advice # None /\ jobs'[j].status = "SUCCEEDED")]_vars

(* A request does not stay open for ever: the job comes to an end or the   *)
(* process has stopped.                                                    *)
RequestsSettle ==
  \A j \in 1..MaxJobs :
    LET Open == j \in Jobs /\ jobs[j].status \in Pending
    IN Open ~> (~Open \/ ui.step = "down")
---------------------------------------------------------------------------
(* The refinement of SelectionContract.  A question is out while its job   *)
(* is pending and lost when the job is DELIVERY_UNKNOWN; the phase forgets *)
(* that a match was aborted, which "open" already says.                    *)

PhaseOf(s) ==
  CASE s.applied # None -> "decided"
    [] s.applied = None /\ s.advice # None -> "advised"
    [] OTHER -> "undecided"

Contract == INSTANCE SelectionContract WITH
  confirmed <- facts,
  matches <- [i \in Sessions |-> [open |-> sessions[i].active,
                                  phase |-> PhaseOf(sessions[i]),
                                  facts |-> sessions[i].facts]],
  asked <- {<<jobs[j].sess, jobs[j].facts>> : j \in {k \in Jobs : jobs[k].status \in Pending}},
  lost <- {jobs[j].sess : j \in {k \in Jobs : jobs[k].status = "DELIVERY_UNKNOWN"}}

(* The whole of it, with its ledger, threads and restarts, does only what  *)
(* the contract allows.                                                    *)
KeepsContract == Contract!CSpec
===========================================================================
