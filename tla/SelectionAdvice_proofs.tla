---------------------- MODULE SelectionAdvice_proofs ----------------------
(***************************************************************************)
(* Theorems about SelectionAdvice, for every number of matches,            *)
(* confirmations, jobs and process stops.                                  *)
(***************************************************************************)
EXTENDS SelectionAdvice, SequenceLemmas

---------------------------------------------------------------------------
(* Type correctness.                                                       *)

(* The threads name existing jobs.                                         *)
ControlOK ==
  /\ ui.step \notin {"idle", "down"} => ui.job \in Jobs
  /\ ui.step = "attempt" => ui.ordinal \in 1..2
  /\ ui.step = "dispatch" => ui.ordinal \in 1..2
  /\ worker.phase # "none" => worker.job \in Jobs /\ worker.ordinal \in 1..2
  /\ worker.phase = "failed" => worker.arg \in FailureReason

Typed == TypeOK /\ ControlOK

(* The sets the types are made of, which SMT needs at hand.                *)
USE DEF None, Sessions, Jobs, NewJob

(* The empty database is typed.                                            *)
LEMMA TypedInit == Init => Typed
<1> SUFFICES ASSUME Init PROVE Typed
  OBVIOUS
<1>1. <<>> \in Seq(Session) /\ <<>> \in Seq(Job) /\ <<>> \in Seq(Seq(Attempt))
      /\ <<>> \in Seq(Seq(Disposition)) /\ <<>> \in Seq(Advice)
      /\ <<>> \in Seq(Nat \X (1..2)) /\ Len(<<>>) = 0
  BY EmptySeq
<1>2. Idle \in [step: Step, job: Nat, ordinal: 0..2, arg: Args]
  BY DEF Idle, Step, Args
<1>3. NoWorker \in [phase: Phase, job: Nat, ordinal: 0..2, arg: Args]
  BY DEF NoWorker, Phase, Args
<1>4. TypeOK
  BY <1>1, <1>2, <1>3 DEF Init, TypeOK
<1>5. ControlOK
  BY DEF Init, ControlOK, Idle, NoWorker
<1>6. QED
  BY <1>4, <1>5 DEF Typed

(* new_match keeps the types.                                              *)
LEMMA TypedNewMatch == Typed /\ NewMatch => Typed'
<1> SUFFICES ASSUME Typed, NewMatch PROVE Typed'
  OBVIOUS
<1>1. [state |-> "SELECTION_OPEN", active |-> TRUE, rev |-> 1, meta |-> 0,
       facts |-> None, advice |-> None, applied |-> None] \in Session
  BY DEF Session, SelectionState
<1>2. sessions' \in Seq(Session)
  BY <1>1, AppendIsSeq DEF NewMatch, Typed, TypeOK
<1>3. QED
  BY <1>2 DEF NewMatch, environment, Typed, TypeOK, ControlOK

(* The updates the commands make of a match keep it a match.               *)
LEMMA SessionUpdates ==
  ASSUME NEW r \in Session
  PROVE  /\ [r EXCEPT !.state = "ABORTED", !.active = FALSE, !.rev = @ + 1] \in Session
         /\ \A f \in Nat : [r EXCEPT !.facts = f, !.advice = None, !.rev = @ + 1] \in Session
         /\ [r EXCEPT !.meta = @ + 1] \in Session
         /\ [r EXCEPT !.applied = r.advice, !.state = "BATTLE_READY", !.rev = @ + 1]
              \in Session
         /\ \A a \in Nat : [r EXCEPT !.advice = a, !.state = "SELECTION_ADVICE_READY",
                                  !.rev = @ + 1] \in Session
<1>1. r.rev + 1 \in Nat /\ r.meta + 1 \in Nat /\ r.advice \in Nat
  BY DEF Session
<1>2. \A n \in Nat : [r EXCEPT !.state = "ABORTED", !.active = FALSE, !.rev = n] \in Session
  BY DEF Session, SelectionState
<1>3. \A f, n \in Nat : [r EXCEPT !.facts = f, !.advice = None, !.rev = n] \in Session
  BY DEF Session
<1>4. \A n \in Nat : [r EXCEPT !.meta = n] \in Session
  BY DEF Session
<1>5. \A a, n \in Nat :
        [r EXCEPT !.applied = a, !.state = "BATTLE_READY", !.rev = n] \in Session
  BY DEF Session, SelectionState
<1>6. \A a, n \in Nat : [r EXCEPT !.advice = a, !.state = "SELECTION_ADVICE_READY",
                                 !.rev = n] \in Session
  BY DEF Session, SelectionState
<1>7. QED
  BY <1>1, <1>2, <1>3, <1>4, <1>5, <1>6

(* The commands on one match write that match alone, and only while it is  *)
(* active.                                                                 *)
LEMMA WritesOneMatch ==
  ASSUME Typed, NEW s \in Sessions,
         \/ AbortMatch(s) \/ ConfirmFacts(s) \/ UpdateMetadata(s) \/ ApplySelection(s)
  PROVE  /\ sessions[s].active
         /\ facts' \in Nat
         /\ \E r \in Session : sessions' = [sessions EXCEPT ![s] = r]
<1>1. sessions[s].active
  BY DEF AbortMatch, ConfirmFacts, UpdateMetadata, ApplySelection
<1>2. sessions[s] \in Session
  BY ElementOfSeq, LenProperties DEF Typed, TypeOK
<1>3. facts' \in Nat
  BY DEF AbortMatch, ConfirmFacts, UpdateMetadata, ApplySelection, Typed, TypeOK
<1>4. CASE AbortMatch(s)
  BY <1>1, <1>2, <1>3, <1>4, SessionUpdates, Zenon DEF AbortMatch
<1>5. CASE ConfirmFacts(s)
  BY <1>1, <1>2, <1>3, <1>5, SessionUpdates, Zenon DEF ConfirmFacts
<1>6. CASE UpdateMetadata(s)
  BY <1>1, <1>2, <1>3, <1>6, SessionUpdates, Zenon DEF UpdateMetadata
<1>7. CASE ApplySelection(s)
  BY <1>1, <1>2, <1>3, <1>7, SessionUpdates, Zenon DEF ApplySelection
<1>8. QED
  BY <1>4, <1>5, <1>6, <1>7

(* So do the other commands that write the active match alone.             *)
LEMMA TypedSessionCommands ==
  ASSUME Typed, NEW s \in Sessions,
         \/ AbortMatch(s) \/ ConfirmFacts(s) \/ UpdateMetadata(s) \/ ApplySelection(s)
  PROVE  Typed'
<1>1. sessions' \in Seq(Session) /\ facts' \in Nat
  <2>1. PICK r \in Session : sessions' = [sessions EXCEPT ![s] = r]
    BY WritesOneMatch
  <2>2. sessions \in Seq(Session)
    BY DEF Typed, TypeOK
  <2>3. QED
    BY <2>1, <2>2, WritesOneMatch, ReplaceIsSeq
<1>2. UNCHANGED <<jobs, attempts, results, ledger, advices, adapter, worker, ui,
                  sends, redelivered, crashes>>
  BY DEF AbortMatch, ConfirmFacts, UpdateMetadata, ApplySelection, environment
<1>3. QED
  BY <1>1, <1>2 DEF Typed, TypeOK, ControlOK

(* A new job is well formed and disturbs no other.                         *)
LEMMA TypedInsertJob ==
  ASSUME Typed, NEW s \in Sessions, NEW lane \in Lane, InsertJob(s, lane)
  PROVE  /\ jobs' \in Seq(Job) /\ Len(jobs') = NewJob
         /\ attempts' \in Seq(Seq(Attempt)) /\ Len(attempts') = NewJob
         /\ results' \in Seq(Seq(Disposition)) /\ Len(results') = NewJob
         /\ Jobs' = Jobs \cup {NewJob} /\ NewJob \in Nat
         /\ sessions[s] \in Session /\ s \in Nat
<1>1. sessions[s] \in Session /\ s \in Nat
  BY ElementOfSeq, LenProperties DEF Typed, TypeOK
<1>2. [sess |-> s, rev |-> sessions[s].rev, facts |-> sessions[s].facts,
       lane |-> lane, status |-> "QUEUED", dispatches |-> 0] \in Job
  BY <1>1 DEF Job, Session, JobStatus, Pending
<1>3. <<>> \in Seq(Attempt) /\ <<>> \in Seq(Disposition)
  BY EmptySeq
<1>4. jobs \in Seq(Job) /\ attempts \in Seq(Seq(Attempt)) /\ results \in Seq(Seq(Disposition))
      /\ Len(attempts) = Len(jobs) /\ Len(results) = Len(jobs) /\ Len(jobs) \in Nat
  BY LenProperties DEF Typed, TypeOK
<1>5. jobs' \in Seq(Job) /\ Len(jobs') = NewJob /\ Jobs' = Jobs \cup {NewJob}
  BY <1>2, <1>4, AppendIsSeq DEF InsertJob
<1>6. attempts' \in Seq(Seq(Attempt)) /\ Len(attempts') = NewJob
  BY <1>3, <1>4, AppendIsSeq DEF InsertJob
<1>7. results' \in Seq(Seq(Disposition)) /\ Len(results') = NewJob
  BY <1>3, <1>4, AppendIsSeq DEF InsertJob
<1>8. QED
  BY <1>1, <1>4, <1>5, <1>6, <1>7

(* A mock request (request_selection_advice) keeps the types.              *)
LEMMA TypedRequestMock ==
  ASSUME Typed, NEW s \in Sessions, RequestMock(s)
  PROVE  Typed'
<1>1. InsertJob(s, "MOCK") /\ "MOCK" \in Lane
  BY DEF RequestMock, Lane
<1>2. [step |-> "apply", job |-> NewJob, ordinal |-> 0, arg |-> "LEGAL"]
        \in [step: Step, job: Nat, ordinal: 0..2, arg: Args]
  BY <1>1, TypedInsertJob DEF Step, Args, Payload
<1>3. TypeOK'
  BY <1>1, <1>2, TypedInsertJob DEF RequestMock, environment, Typed, TypeOK
<1>4. ControlOK'
  BY <1>1, TypedInsertJob DEF RequestMock, Typed, ControlOK
<1>5. QED
  BY <1>3, <1>4 DEF Typed

(* A production request and its reservation keep the types.                *)
LEMMA TypedSendToGemini ==
  ASSUME Typed, NEW s \in Sessions, SendToGemini(s)
  PROVE  Typed'
<1>1. InsertJob(s, "GEMINI") /\ "GEMINI" \in Lane
  BY DEF SendToGemini, Lane
<1>2. [step |-> "dispatch", job |-> NewJob, ordinal |-> 1, arg |-> "NONE"]
        \in [step: Step, job: Nat, ordinal: 0..2, arg: Args]
  BY <1>1, TypedInsertJob DEF Step, Args
<1>3. ledger' \subseteq LedgerRow
  <2>1. ledger \subseteq LedgerRow
    BY DEF Typed, TypeOK
  <2>2. CASE ReserveFirst(s)
    <3>1. [sess |-> s, rev |-> sessions[s].rev, facts |-> sessions[s].facts,
           job |-> NewJob] \in LedgerRow
      BY <1>1, TypedInsertJob DEF LedgerRow, Session
    <3>2. QED
      BY <2>1, <2>2, <3>1 DEF ReserveFirst
  <2>3. CASE ReserveAgain(s)
    <3>1. \A r \in LedgerRow, n \in Nat : [r EXCEPT !.job = n] \in LedgerRow
      BY DEF LedgerRow
    <3>2. PICK r \in ledger : ledger' = (ledger \ {r}) \cup {[r EXCEPT !.job = NewJob]}
      BY <2>3 DEF ReserveAgain
    <3>3. NewJob \in Nat
      BY <1>1, TypedInsertJob
    <3>4. [r EXCEPT !.job = NewJob] \in LedgerRow
      BY <2>1, <3>1, <3>3
    <3>5. QED
      BY <2>1, <3>2, <3>4
  <2>4. QED
    BY <2>2, <2>3 DEF SendToGemini
<1>4. TypeOK'
  BY <1>1, <1>2, <1>3, TypedInsertJob DEF SendToGemini, environment, Typed, TypeOK
<1>5. ControlOK'
  BY <1>1, TypedInsertJob DEF SendToGemini, Typed, ControlOK
<1>6. QED
  BY <1>4, <1>5 DEF Typed

(* The updates the steps make of a job keep it a job.                      *)
LEMMA JobUpdates ==
  ASSUME NEW r \in Job
  PROVE  /\ \A x \in JobStatus : [r EXCEPT !.status = x] \in Job
         /\ [r EXCEPT !.status = "IN_FLIGHT", !.dispatches = @ + 1] \in Job
         /\ r.status \in JobStatus /\ r.sess \in Nat
         /\ Recovered(r.status) \in JobStatus
         /\ \A reason : AfterFailure(r.status, reason) \in JobStatus
<1>1. r.dispatches + 1 \in Nat /\ r.status \in JobStatus /\ r.sess \in Nat
  BY DEF Job
<1>2. \A x \in JobStatus : [r EXCEPT !.status = x] \in Job
  BY DEF Job
<1>3. \A n \in Nat : [r EXCEPT !.status = "IN_FLIGHT", !.dispatches = n] \in Job
  BY DEF Job, JobStatus, Pending
<1>4. Recovered(r.status) \in JobStatus
  BY <1>1 DEF Recovered, JobStatus, Pending, Terminal
<1>5. \A reason : AfterFailure(r.status, reason) \in JobStatus
  BY <1>1 DEF AfterFailure, JobStatus, Pending, Terminal
<1>6. QED
  BY <1>1, <1>2, <1>3, <1>4, <1>5

(* mark_selection_advice_dispatched keeps the types.                       *)
LEMMA TypedMarkDispatched == Typed /\ MarkDispatched => Typed'
<1> SUFFICES ASSUME Typed, MarkDispatched PROVE Typed'
  OBVIOUS
<1>1. ui.job \in Jobs /\ jobs \in Seq(Job) /\ jobs[ui.job] \in Job
  BY ElementOfSeq, LenProperties DEF MarkDispatched, Typed, TypeOK, ControlOK
<1>2. \E r \in Job : jobs' = [jobs EXCEPT ![ui.job] = r]
  BY <1>1, JobUpdates, Zenon DEF MarkDispatched
<1>3. jobs' \in Seq(Job) /\ Len(jobs') = Len(jobs) /\ Jobs' = Jobs
  BY <1>1, <1>2, ReplaceIsSeq
<1>4. /\ ui' \in [step: Step, job: Nat, ordinal: 0..2, arg: Args]
      /\ ui'.job = ui.job /\ ui'.ordinal = ui.ordinal /\ ui'.step = "attempt"
      /\ ui.ordinal \in 1..2
  BY DEF MarkDispatched, Typed, TypeOK, ControlOK, Step
<1>5. UNCHANGED <<sessions, facts, attempts, results, ledger, advices, adapter,
                  worker, sends, redelivered, crashes>>
  BY DEF MarkDispatched, environment
<1>6. TypeOK'
  BY <1>3, <1>4, <1>5 DEF Typed, TypeOK
<1>7. ControlOK'
  BY <1>1, <1>3, <1>4, <1>5 DEF Typed, ControlOK
<1>8. QED
  BY <1>6, <1>7 DEF Typed

(* dispatch_attempt keeps the types.                                       *)
LEMMA TypedStartAttempt == Typed /\ StartAttempt => Typed'
<1> SUFFICES ASSUME Typed, StartAttempt PROVE Typed'
  OBVIOUS
<1>1. /\ ui.job \in Jobs /\ ui.ordinal \in 1..2 /\ ui.job \in Nat
      /\ attempts \in Seq(Seq(Attempt)) /\ attempts[ui.job] \in Seq(Attempt)
  BY ElementOfSeq, LenProperties DEF StartAttempt, Typed, TypeOK, ControlOK
<1>2. [outcome |-> "STARTED", reason |-> "NONE"] \in Attempt
  BY DEF Attempt
<1>3. Append(attempts[ui.job], [outcome |-> "STARTED", reason |-> "NONE"]) \in Seq(Attempt)
  BY <1>1, <1>2, AppendIsSeq
<1>4. attempts' \in Seq(Seq(Attempt)) /\ Len(attempts') = Len(attempts)
  BY <1>1, <1>3, ReplaceIsSeq DEF StartAttempt
<1>5. /\ worker' \in [phase: Phase, job: Nat, ordinal: 0..2, arg: Args]
      /\ worker'.job \in Jobs /\ worker'.ordinal \in 1..2 /\ worker'.phase = "started"
  BY <1>1 DEF StartAttempt, Phase, Args
<1>6. Idle \in [step: Step, job: Nat, ordinal: 0..2, arg: Args] /\ Idle.step = "idle"
  BY DEF Idle, Step, Args
<1>7. TypeOK'
  BY <1>4, <1>5, <1>6 DEF StartAttempt, environment, Typed, TypeOK
<1>8. ControlOK'
  BY <1>5, <1>6 DEF StartAttempt, ControlOK
<1>9. QED
  BY <1>7, <1>8 DEF Typed

(* The worker thread.                                                      *)
LEMMA TypedWorker == Typed /\ (WorkerSend \/ WorkerAnswer) => Typed'
<1> SUFFICES ASSUME Typed, WorkerSend \/ WorkerAnswer PROVE Typed'
  OBVIOUS
<1>1. worker.job \in Jobs /\ worker.ordinal \in 1..2 /\ worker.job \in Nat
  BY DEF WorkerSend, WorkerAnswer, Typed, TypeOK, ControlOK
<1>2. sends' \in Seq(Nat \X (1..2))
  <2>1. <<worker.job, worker.ordinal>> \in Nat \X (1..2)
    BY <1>1
  <2>2. sends \in Seq(Nat \X (1..2))
    BY DEF Typed, TypeOK
  <2>3. Append(sends, <<worker.job, worker.ordinal>>) \in Seq(Nat \X (1..2))
    BY <2>1, <2>2, AppendIsSeq
  <2>4. sends' = sends \/ sends' = Append(sends, <<worker.job, worker.ordinal>>)
    BY DEF WorkerSend, WorkerAnswer
  <2>5. QED
    BY <2>2, <2>3, <2>4
<1>3. /\ worker' \in [phase: Phase, job: Nat, ordinal: 0..2, arg: Args]
      /\ worker'.job = worker.job /\ worker'.ordinal = worker.ordinal
      /\ worker'.phase = "failed" => worker'.arg \in FailureReason
  <2>1. worker \in [phase: Phase, job: Nat, ordinal: 0..2, arg: Args]
    BY DEF Typed, TypeOK
  <2>2. CASE WorkerSend
    BY <2>1, <2>2 DEF WorkerSend, Phase
  <2>3. CASE WorkerAnswer
    <3>1. CASE \E p \in Payload :
                 worker' = [worker EXCEPT !.phase = "succeeded", !.arg = p]
      BY <2>1, <3>1 DEF Phase, Args
    <3>2. CASE \E r \in FailureReason :
                 worker' = [worker EXCEPT !.phase = "failed", !.arg = r]
      BY <2>1, <3>2 DEF Phase, Args
    <3>3. QED
      BY <2>3, <3>1, <3>2 DEF WorkerAnswer
  <2>4. QED
    BY <2>2, <2>3
<1>4. UNCHANGED <<sessions, facts, jobs, attempts, results, ledger, advices,
                  adapter, ui, redelivered, crashes>>
  BY DEF WorkerSend, WorkerAnswer, store, environment
<1>5. TypeOK'
  BY <1>2, <1>3, <1>4 DEF Typed, TypeOK
<1>6. ControlOK'
  BY <1>1, <1>3, <1>4 DEF Typed, ControlOK
<1>7. QED
  BY <1>5, <1>6 DEF Typed

(* Recording how the attempt of the worker's job ended.                    *)
LEMMA TypedFinishAttempt ==
  ASSUME Typed, NEW outcome \in {"SUCCEEDED", "FAILED"},
         NEW reason \in FailureReason \cup {"NONE"}, FinishAttempt(outcome, reason)
  PROVE  attempts' \in Seq(Seq(Attempt)) /\ Len(attempts') = Len(attempts)
<1>1. [outcome |-> outcome, reason |-> reason] \in Attempt
  BY DEF Attempt
<1>2. attempts \in Seq(Seq(Attempt))
  BY DEF Typed, TypeOK
<1> DEFINE new == [attempts[worker.job] EXCEPT ![worker.ordinal] =
                     [outcome |-> outcome, reason |-> reason]]
<1>3. worker.job \in DOMAIN attempts => new \in Seq(Attempt)
  <2> SUFFICES ASSUME worker.job \in DOMAIN attempts PROVE new \in Seq(Attempt)
    OBVIOUS
  <2>1. attempts[worker.job] \in Seq(Attempt)
    BY <1>2, ElementOfSeq, LenProperties
  <2>2. QED
    BY <1>1, <2>1, ReplaceIsSeq
<1>4. attempts' = [attempts EXCEPT ![worker.job] = new]
  BY DEF FinishAttempt
<1> HIDE DEF new
<1>5. CASE worker.job \in DOMAIN attempts
  <2>1. new \in Seq(Attempt)
    BY <1>3, <1>5
  <2>2. /\ [attempts EXCEPT ![worker.job] = new] \in Seq(Seq(Attempt))
        /\ Len([attempts EXCEPT ![worker.job] = new]) = Len(attempts)
    BY <1>2, <2>1, ReplaceIsSeq
  <2>3. QED
    BY <1>4, <2>2
<1>6. CASE worker.job \notin DOMAIN attempts
  <2>1. [attempts EXCEPT ![worker.job] = new] = attempts
    BY <1>2, <1>6, LenProperties
  <2>2. QED
    BY <1>2, <1>4, <2>1
<1>7. QED
  BY <1>5, <1>6

(* The adapter's callbacks.                                                *)
LEMMA TypedCallback == Typed /\ Callback => Typed'
<1> SUFFICES ASSUME Typed, Callback PROVE Typed'
  OBVIOUS
<1>1. /\ worker.job \in Jobs /\ worker.ordinal \in 1..2 /\ worker.job \in Nat
      /\ worker.arg \in Args
      /\ worker.phase = "failed" => worker.arg \in FailureReason
  BY DEF Callback, HandleSucceeded, HandleFailed, Typed, TypeOK, ControlOK
<1>2. attempts' \in Seq(Seq(Attempt)) /\ Len(attempts') = Len(attempts)
  <2>1. CASE HandleSucceeded
    BY <2>1, TypedFinishAttempt DEF HandleSucceeded
  <2>2. CASE HandleFailed
    BY <1>1, <2>2, TypedFinishAttempt DEF HandleFailed
  <2>3. QED
    BY <2>1, <2>2 DEF Callback
<1>3. ui' \in [step: Step, job: Nat, ordinal: 0..2, arg: Args]
  BY <1>1 DEF Callback, HandleSucceeded, HandleFailed, Step, Args
<1>4. /\ ui'.job \in Jobs
      /\ ui'.step = "attempt" => ui'.ordinal \in 1..2
      /\ ui'.step # "dispatch"
  BY <1>1 DEF Callback, HandleSucceeded, HandleFailed
<1>5. /\ NoWorker \in [phase: Phase, job: Nat, ordinal: 0..2, arg: Args]
      /\ NoWorker.phase = "none"
  BY DEF NoWorker, Phase, Args
<1>6. worker' = NoWorker
  BY DEF Callback, HandleSucceeded, HandleFailed
<1>7. adapter' \in BOOLEAN
  BY DEF Callback, HandleSucceeded, HandleFailed, Typed, TypeOK
<1>8. UNCHANGED <<sessions, facts, jobs, results, ledger, advices, sends,
                  redelivered, crashes>>
  BY DEF Callback, HandleSucceeded, HandleFailed, environment
<1>9. TypeOK'
  BY <1>2, <1>3, <1>5, <1>6, <1>7, <1>8 DEF Typed, TypeOK
<1>10. ControlOK'
  BY <1>4, <1>5, <1>6, <1>8 DEF ControlOK
<1>11. QED
  BY <1>9, <1>10 DEF Typed

(* What a result does to the store, whatever its disposition.              *)
LEMMA TypedApplyResult ==
  ASSUME Typed, NEW j \in Jobs, NEW payload, ApplyResult(j, payload)
  PROVE  /\ sessions' \in Seq(Session) /\ advices' \in Seq(Advice)
         /\ jobs' \in Seq(Job) /\ Len(jobs') = Len(jobs) /\ Jobs' = Jobs
         /\ results' \in Seq(Seq(Disposition)) /\ Len(results') = Len(results)
<1>1. /\ sessions \in Seq(Session) /\ jobs \in Seq(Job) /\ advices \in Seq(Advice)
      /\ results \in Seq(Seq(Disposition)) /\ Len(results) = Len(jobs)
  BY DEF Typed, TypeOK
<1>2. jobs[j] \in Job /\ j \in Nat /\ j \in DOMAIN results
  BY <1>1, ElementOfSeq, LenProperties
<1>3. DispositionOf(j, payload) \in Disposition
  BY DEF DispositionOf, Disposition
<1>4. results' \in Seq(Seq(Disposition)) /\ Len(results') = Len(results)
  <2>1. results[j] \in Seq(Disposition)
    BY <1>1, <1>2, ElementOfSeq, LenProperties
  <2>2. Append(results[j], DispositionOf(j, payload)) \in Seq(Disposition)
    BY <1>3, <2>1, AppendIsSeq
  <2>3. QED
    BY <1>1, <2>2, ReplaceIsSeq DEF ApplyResult
<1>5. jobs' \in Seq(Job) /\ Len(jobs') = Len(jobs) /\ Jobs' = Jobs
  <2>1. "SUCCEEDED" \in JobStatus /\ "FAILED" \in JobStatus
    BY DEF JobStatus, Terminal
  <2>2. jobs' = jobs \/ \E r \in Job : jobs' = [jobs EXCEPT ![j] = r]
    BY <1>2, <2>1, JobUpdates, Zenon DEF ApplyResult
  <2>3. \A r \in Job : LET new == [jobs EXCEPT ![j] = r]
                       IN new \in Seq(Job) /\ Len(new) = Len(jobs) /\ DOMAIN new = Jobs
    BY <1>1, ReplaceIsSeq
  <2>4. QED
    BY <1>1, <2>2, <2>3, Zenon
<1>6. advices' \in Seq(Advice)
  <2>1. [sess |-> jobs[j].sess, job |-> j] \in Advice
    BY <1>2 DEF Advice, Job
  <2>2. \/ advices' = advices
        \/ advices' = Append(advices, [sess |-> jobs[j].sess, job |-> j])
    BY DEF ApplyResult
  <2>3. Append(advices, [sess |-> jobs[j].sess, job |-> j]) \in Seq(Advice)
    BY <1>1, <2>1, AppendIsSeq
  <2>4. QED
    BY <1>1, <2>2, <2>3
<1>7. sessions' \in Seq(Session)
  <2> DEFINE s == jobs[j].sess
             new == [sessions[s] EXCEPT !.advice = Len(advices) + 1,
                       !.state = "SELECTION_ADVICE_READY", !.rev = @ + 1]
  <2>1. s \in DOMAIN sessions => new \in Session
    <3>1. Len(advices) + 1 \in Nat
      BY <1>1, LenProperties
    <3>2. s \in DOMAIN sessions => sessions[s] \in Session
      BY <1>1, ElementOfSeq, LenProperties
    <3>3. QED
      BY <3>1, <3>2, SessionUpdates
  <2>2. sessions' = sessions \/ sessions' = [sessions EXCEPT ![s] = new]
    BY Zenon DEF ApplyResult
  <2> HIDE DEF s, new
  <2>3. [sessions EXCEPT ![s] = new] \in Seq(Session)
    BY <1>1, <2>1, ReplaceIsSeq
  <2>4. QED
    BY <1>1, <2>2, <2>3
<1>8. QED
  BY <1>4, <1>5, <1>6, <1>7

(* The adapters' application of an answer keeps the types.                 *)
LEMMA TypedApply == Typed /\ Apply => Typed'
<1> SUFFICES ASSUME Typed, Apply PROVE Typed'
  OBVIOUS
<1>1. ui.job \in Jobs /\ ApplyResult(ui.job, ui.arg) /\ ui.job \in Nat
  BY DEF Apply, Typed, TypeOK, ControlOK
<1>2. /\ ui' \in [step: Step, job: Nat, ordinal: 0..2, arg: Args]
      /\ ui'.step \in {"idle", "reject"}
      /\ ui'.step = "reject" => ui'.job = ui.job
  <2>1. ui \in [step: Step, job: Nat, ordinal: 0..2, arg: Args]
    BY DEF Typed, TypeOK
  <2>2. "reject" \in Step /\ "OTHER" \in Args
    BY DEF Step, Args, FailureReason
  <2>3. /\ [ui EXCEPT !.step = "reject", !.arg = "OTHER"]
             \in [step: Step, job: Nat, ordinal: 0..2, arg: Args]
        /\ [ui EXCEPT !.step = "reject", !.arg = "OTHER"].job = ui.job
        /\ [ui EXCEPT !.step = "reject", !.arg = "OTHER"].step = "reject"
    BY <2>1, <2>2
  <2>4. Idle \in [step: Step, job: Nat, ordinal: 0..2, arg: Args] /\ Idle.step = "idle"
    BY DEF Idle, Step, Args
  <2>5. ui' = Idle \/ ui' = [ui EXCEPT !.step = "reject", !.arg = "OTHER"]
    BY Zenon DEF Apply
  <2>6. QED
    BY <2>3, <2>4, <2>5
<1>3. UNCHANGED <<facts, attempts, ledger, adapter, worker, sends, redelivered, crashes>>
  BY DEF Apply, environment
<1>4. TypeOK'
  BY <1>1, <1>2, <1>3, TypedApplyResult DEF Typed, TypeOK
<1>5. Jobs' = Jobs
  BY <1>1, TypedApplyResult
<1>6. ControlOK'
  BY <1>1, <1>2, <1>3, <1>5 DEF Typed, ControlOK
<1>7. QED
  BY <1>4, <1>6 DEF Typed

(* A redelivered answer keeps the types.                                   *)
LEMMA TypedRedeliver ==
  ASSUME Typed, NEW j \in Jobs, NEW payload \in Payload, Redeliver(j, payload)
  PROVE  Typed'
<1>1. ApplyResult(j, payload)
  BY DEF Redeliver
<1>2. /\ UNCHANGED <<facts, attempts, ledger, adapter, worker, ui, sends, crashes>>
      /\ redelivered' \in Nat
  BY DEF Redeliver, Typed, TypeOK
<1>3. TypeOK'
  BY <1>1, <1>2, TypedApplyResult DEF Typed, TypeOK
<1>4. ControlOK'
  BY <1>1, <1>2, TypedApplyResult DEF Typed, ControlOK
<1>5. QED
  BY <1>3, <1>4 DEF Typed

(* fail_selection_advice_job keeps the types.                              *)
LEMMA TypedFailJob == Typed /\ FailJob => Typed'
<1> SUFFICES ASSUME Typed, FailJob PROVE Typed'
  OBVIOUS
<1>1. ui.job \in Jobs /\ jobs \in Seq(Job) /\ jobs[ui.job] \in Job
  BY ElementOfSeq, LenProperties DEF FailJob, Typed, TypeOK, ControlOK
<1>2. \E r \in Job : jobs' = [jobs EXCEPT ![ui.job] = r]
  <2>1. [jobs[ui.job] EXCEPT !.status = AfterFailure(jobs[ui.job].status, ui.arg)] \in Job
    BY <1>1, JobUpdates
  <2>2. QED
    BY <2>1, Zenon DEF FailJob
<1>3. jobs' \in Seq(Job) /\ Len(jobs') = Len(jobs) /\ Jobs' = Jobs
  BY <1>1, <1>2, ReplaceIsSeq
<1>4. /\ Idle \in [step: Step, job: Nat, ordinal: 0..2, arg: Args] /\ Idle.step = "idle"
      /\ ui' = Idle
      /\ UNCHANGED <<sessions, facts, attempts, results, ledger, advices, adapter, worker,
                     sends, redelivered, crashes>>
  BY DEF FailJob, environment, Idle, Step, Args
<1>5. QED
  BY <1>3, <1>4 DEF Typed, TypeOK, ControlOK

(* The process stops and starts.                                           *)
LEMMA TypedProcess == Typed /\ (Crash \/ Restart) => Typed'
<1> SUFFICES ASSUME Typed, Crash \/ Restart PROVE Typed'
  OBVIOUS
<1>1. jobs' \in Seq(Job) /\ Len(jobs') = Len(jobs)
  <2>1. CASE Crash
    BY <2>1 DEF Crash, store, Typed, TypeOK
  <2>2. CASE Restart
    <3> DEFINE Recover(j) == [jobs[j] EXCEPT !.status = Recovered(jobs[j].status)]
    <3>1. jobs \in Seq(Job) /\ Jobs = 1..Len(jobs) /\ Len(jobs) \in Nat
      BY LenProperties DEF Typed, TypeOK
    <3>2. \A j \in 1..Len(jobs) : Recover(j) \in Job
      BY <3>1, ElementOfSeq, JobUpdates
    <3>3. jobs' = [j \in 1..Len(jobs) |-> Recover(j)]
      BY <2>2, <3>1 DEF Restart
    <3> HIDE DEF Recover
    <3>4. QED
      BY <3>1, <3>2, <3>3
  <2>3. QED
    BY <2>1, <2>2
<1>2. UNCHANGED <<sessions, facts, attempts, results, ledger, advices, sends, redelivered>>
  BY DEF Crash, Restart, store, environment
<1>3. crashes' \in Nat
  BY DEF Crash, Restart, environment, Typed, TypeOK
<1>4. /\ NoWorker \in [phase: Phase, job: Nat, ordinal: 0..2, arg: Args]
      /\ NoWorker.phase = "none"
  BY DEF NoWorker, Phase, Args
<1>5. /\ Idle \in [step: Step, job: Nat, ordinal: 0..2, arg: Args] /\ Idle.step = "idle"
      /\ [Idle EXCEPT !.step = "down"] \in [step: Step, job: Nat, ordinal: 0..2, arg: Args]
      /\ [Idle EXCEPT !.step = "down"].step = "down"
  BY DEF Idle, Step, Args
<1>6. Jobs' = Jobs
  BY <1>1, LenProperties DEF Typed, TypeOK
<1>7. TypeOK'
  <2>1. ui' \in [step: Step, job: Nat, ordinal: 0..2, arg: Args]
    BY <1>5 DEF Crash, Restart
  <2>2. worker' \in [phase: Phase, job: Nat, ordinal: 0..2, arg: Args] /\ adapter' \in BOOLEAN
    BY <1>4 DEF Crash, Restart, Typed, TypeOK
  <2>3. QED
    BY <1>1, <1>2, <1>3, <2>1, <2>2 DEF Typed, TypeOK
<1>8. ControlOK'
  <2>1. ui'.step \in {"idle", "down"}
    BY <1>5 DEF Crash, Restart
  <2>2. worker' = NoWorker \/ worker' = worker
    BY DEF Crash, Restart
  <2>3. QED
    BY <1>4, <1>6, <2>1, <2>2 DEF Typed, ControlOK
<1>9. QED
  BY <1>7, <1>8 DEF Typed

(* Every step keeps the types.                                             *)
LEMMA TypedNext == Typed /\ [Next]_vars => Typed'
<1> SUFFICES ASSUME Typed, [Next]_vars PROVE Typed'
  OBVIOUS
<1>1. CASE Command
  BY <1>1, TypedNewMatch, TypedSessionCommands, TypedRequestMock, TypedSendToGemini,
     TypedRedeliver DEF Command
<1>2. CASE UiStep
  BY <1>2, TypedMarkDispatched, TypedStartAttempt, TypedApply, TypedFailJob DEF UiStep
<1>3. CASE Callback
  BY <1>3, TypedCallback
<1>4. CASE WorkerStep
  BY <1>4, TypedWorker DEF WorkerStep
<1>5. CASE Crash \/ Restart
  BY <1>5, TypedProcess
<1>6. CASE UNCHANGED vars
  BY <1>6 DEF vars, store, environment, Typed, TypeOK, ControlOK
<1>7. QED
  BY <1>1, <1>2, <1>3, <1>4, <1>5, <1>6 DEF Next

(* The types and the threads' names hold throughout.                       *)
LEMMA TypedInvariant == Spec => []Typed
  BY TypedInit, TypedNext, PTL DEF Spec

(* In every reachable state each row of the store and each thread's        *)
(* position is well formed: the tables keep in step with the jobs, and a   *)
(* callback always has a job to report on.                                 *)
THEOREM TypeCorrect == Spec => []TypeOK
<1>1. Typed => TypeOK
  BY DEF Typed
<1>2. QED
  BY <1>1, TypedInvariant, PTL

---------------------------------------------------------------------------
(* Matches.                                                                *)

(* A step leaves the matches alone, creates one while none is active, or   *)
(* writes an active one.                                                   *)
LEMMA SessionStep ==
  ASSUME Typed, [Next]_vars
  PROVE  \/ sessions' = sessions
         \/ NewMatch
         \/ \E s \in Sessions : sessions[s].active /\ \E r : sessions' = [sessions EXCEPT ![s] = r]
<1> DEFINE Written == \E s \in Sessions :
                        sessions[s].active /\ \E r : sessions' = [sessions EXCEPT ![s] = r]
<1>1. ASSUME NEW j \in Jobs, NEW payload, ApplyResult(j, payload)
      PROVE  sessions' = sessions \/ Written
  <2>1. CASE sessions' = sessions
    BY <2>1
  <2>2. CASE /\ DispositionOf(j, payload) = "APPLIED"
             /\ \E r : sessions' = [sessions EXCEPT ![jobs[j].sess] = r]
    <3>1. BindingHolds(j)
      BY <2>2 DEF DispositionOf
    <3>2. sessions[jobs[j].sess].active
      BY <3>1 DEF BindingHolds
    <3>3. CASE jobs[j].sess \in Sessions
      BY <2>2, <3>2, <3>3
    <3>4. CASE jobs[j].sess \notin Sessions
      BY <2>2, <3>4, LenProperties DEF Typed, TypeOK
    <3>5. QED
      BY <3>3, <3>4
  <2>3. QED
    BY <1>1, <2>1, <2>2, Zenon DEF ApplyResult
<1>2. ASSUME NEW s \in Sessions,
             \/ AbortMatch(s) \/ ConfirmFacts(s) \/ UpdateMetadata(s) \/ ApplySelection(s)
      PROVE  Written
  BY <1>2, WritesOneMatch
<1>3. CASE Command
  BY <1>1, <1>2, <1>3 DEF Command, RequestMock, SendToGemini, Redeliver
<1>4. CASE UiStep
  BY <1>1, <1>4 DEF UiStep, MarkDispatched, StartAttempt, Apply, FailJob, Typed, ControlOK
<1>5. CASE Callback \/ WorkerStep \/ Crash \/ Restart \/ UNCHANGED vars
  BY <1>5 DEF Callback, HandleSucceeded, HandleFailed, WorkerStep, WorkerSend,
              WorkerAnswer, Crash, Restart, vars, store
<1>6. QED
  BY <1>3, <1>4, <1>5 DEF Next

(* At any time at most one match is active and it is the newest, so        *)
(* "the active session" that every command loads is well defined           *)
(* (new_match, ux_single_active_session).                                  *)
THEOREM OneActiveMatch == Spec => []ActiveIsNewest
<1>1. Init => ActiveIsNewest
  BY DEF Init, ActiveIsNewest
<1>2. Typed /\ ActiveIsNewest /\ [Next]_vars => ActiveIsNewest'
  <2> SUFFICES ASSUME Typed, ActiveIsNewest, [Next]_vars PROVE ActiveIsNewest'
    OBVIOUS
  <2>1. sessions \in Seq(Session) /\ Len(sessions) \in Nat /\ Sessions = 1..Len(sessions)
    BY LenProperties DEF Typed, TypeOK
  <2>2. CASE sessions' = sessions
    BY <2>2 DEF ActiveIsNewest
  <2>3. CASE NewMatch
    <3> DEFINE new == [state |-> "SELECTION_OPEN", active |-> TRUE, rev |-> 1, meta |-> 0,
                       facts |-> None, advice |-> None, applied |-> None]
    <3>1. new \in Session
      BY DEF Session, SelectionState
    <3>2. sessions' = Append(sessions, new) /\ \A s \in Sessions : ~sessions[s].active
      BY <2>3 DEF NewMatch
    <3> HIDE DEF new
    <3>3. /\ Sessions' = Sessions \cup {Len(sessions) + 1} /\ Len(sessions') = Len(sessions) + 1
          /\ \A s \in Sessions : sessions'[s] = sessions[s]
      BY <2>1, <3>1, <3>2, AppendIsSeq
    <3>4. QED
      BY <3>2, <3>3 DEF ActiveIsNewest
  <2>4. ASSUME NEW s \in Sessions, sessions[s].active,
               NEW r, sessions' = [sessions EXCEPT ![s] = r]
        PROVE  ActiveIsNewest'
    <3>1. Sessions' = Sessions /\ Len(sessions') = Len(sessions)
      BY <2>1, <2>4
    <3>2. \A i \in Sessions : i # s => sessions'[i] = sessions[i]
      BY <2>1, <2>4
    <3>3. s = Len(sessions)
      BY <2>4 DEF ActiveIsNewest
    <3>4. QED
      BY <3>1, <3>2, <3>3 DEF ActiveIsNewest
  <2>5. QED
    BY <2>2, <2>3, <2>4, SessionStep
<1>3. QED
  BY <1>1, <1>2, TypedInvariant, PTL DEF Spec

(* No step, whether a late answer, a fallback, a failure or a restart,     *)
(* writes a match that has given up the active slot (every command loads   *)
(* its match with is_active, and so does _binding_failure_reason).         *)
THEOREM ClosedMatchesAreFrozen == Spec => ClosedMatchIsFrozen
<1>1. Typed /\ [Next]_vars =>
        [\A s \in Sessions : ~sessions[s].active => sessions'[s] = sessions[s]]_vars
  <2> SUFFICES ASSUME Typed, [Next]_vars, NEW s \in Sessions, ~sessions[s].active
               PROVE  sessions'[s] = sessions[s]
    OBVIOUS
  <2>1. CASE NewMatch
    <3> DEFINE new == [state |-> "SELECTION_OPEN", active |-> TRUE, rev |-> 1, meta |-> 0,
                       facts |-> None, advice |-> None, applied |-> None]
    <3>1. new \in Session
      BY DEF Session, SelectionState
    <3>2. sessions' = Append(sessions, new) /\ sessions \in Seq(Session)
      BY <2>1 DEF NewMatch, Typed, TypeOK
    <3> HIDE DEF new
    <3>3. QED
      BY <3>1, <3>2, AppendIsSeq
  <2>2. ASSUME NEW i \in Sessions, sessions[i].active,
               NEW r, sessions' = [sessions EXCEPT ![i] = r]
        PROVE  sessions'[s] = sessions[s]
    <3>1. i # s
      BY <2>2
    <3>2. QED
      BY <2>2, <3>1
  <2>3. QED
    BY <2>1, <2>2, SessionStep
<1>2. QED
  BY <1>1, TypedInvariant, PTL DEF Spec, ClosedMatchIsFrozen

---------------------------------------------------------------------------
(* Jobs.                                                                   *)

(* Job j is pending and becomes r, a job of the same match that is pending *)
(* or has come to a known end.                                             *)
Settle(j, r) ==
  /\ jobs[j].status \in Pending
  /\ r \in Job /\ r.sess = jobs[j].sess /\ r.status # "DELIVERY_UNKNOWN"
  /\ jobs' = [jobs EXCEPT ![j] = r]

(* A job is created for match s while nothing it must wait for is out.     *)
Requested(s) ==
  /\ \E lane \in Lane : InsertJob(s, lane)
  /\ MayRequest(s) \/ \E j \in Jobs : MayResend(s, j)

(* A step leaves the jobs alone, creates one, settles a pending one, or is *)
(* the recovery at start-up.                                               *)
LEMMA JobStep ==
  ASSUME Typed, [Next]_vars
  PROVE  \/ jobs' = jobs
         \/ \E s \in Sessions : Requested(s)
         \/ \E j \in Jobs, r \in Job : Settle(j, r)
         \/ Restart
<1> DEFINE Settled == \E j \in Jobs, r \in Job : Settle(j, r)
<1>1. /\ jobs \in Seq(Job)
      /\ \A j \in Jobs : jobs[j] \in Job
  BY ElementOfSeq, LenProperties DEF Typed, TypeOK
<1>2. ASSUME NEW j \in Jobs, NEW payload, ApplyResult(j, payload)
      PROVE  jobs' = jobs \/ Settled
  <2>1. ASSUME NEW x \in {"SUCCEEDED", "FAILED"}, BindingHolds(j),
               jobs' = [jobs EXCEPT ![j].status = x]
        PROVE  Settled
    <3> DEFINE r == [jobs[j] EXCEPT !.status = x]
    <3>1. x \in JobStatus /\ x # "DELIVERY_UNKNOWN"
      BY DEF JobStatus, Terminal
    <3>2. r \in Job /\ r.sess = jobs[j].sess /\ r.status = x
      BY <1>1, <3>1 DEF Job
    <3>3. jobs[j].status \in Pending
      BY <2>1 DEF BindingHolds
    <3>4. jobs' = [jobs EXCEPT ![j] = r]
      BY <2>1
    <3> HIDE DEF r
    <3>5. QED
      BY <3>1, <3>2, <3>3, <3>4 DEF Settle
  <2>2. CASE DispositionOf(j, payload) \in {"APPLIED", "INVALID_REJECTED"}
    <3>1. BindingHolds(j)
      BY <2>2 DEF DispositionOf
    <3>2. \/ jobs' = [jobs EXCEPT ![j].status = "SUCCEEDED"]
          \/ jobs' = [jobs EXCEPT ![j].status = "FAILED"]
      BY <1>2, <2>2, Zenon DEF ApplyResult
    <3>3. QED
      BY <2>1, <3>1, <3>2
  <2>3. CASE DispositionOf(j, payload) \in {"STALE_REJECTED", "DUPLICATE_IGNORED"}
    BY <1>2, <2>3 DEF ApplyResult
  <2>4. QED
    BY <2>2, <2>3 DEF DispositionOf
<1>3. CASE MarkDispatched
  <2> DEFINE j == ui.job
             r == [jobs[j] EXCEPT !.status = "IN_FLIGHT", !.dispatches = @ + 1]
  <2>1. j \in Jobs /\ jobs[j].status \in Pending
    BY <1>3 DEF MarkDispatched, Typed, ControlOK, Pending
  <2>2. r \in Job
    BY <1>1, <2>1, JobUpdates
  <2>3. r.sess = jobs[j].sess /\ r.status = "IN_FLIGHT"
    BY <1>1, <2>1 DEF Job
  <2>4. jobs' = [jobs EXCEPT ![j] = r]
    BY <1>3, Zenon DEF MarkDispatched
  <2> HIDE DEF j, r
  <2>5. QED
    BY <2>1, <2>2, <2>3, <2>4 DEF Settle
<1>4. CASE FailJob
  <2> DEFINE j == ui.job
             x == AfterFailure(jobs[j].status, ui.arg)
             r == [jobs[j] EXCEPT !.status = x]
  <2>1. j \in Jobs /\ jobs[j] \in Job
    BY <1>1, <1>4 DEF FailJob, Typed, ControlOK
  <2>2. jobs' = [jobs EXCEPT ![j] = r]
    BY <1>4, Zenon DEF FailJob
  <2>3. CASE jobs[j].status \in Pending
    <3>1. x \in JobStatus /\ x # "DELIVERY_UNKNOWN"
      BY <2>3 DEF AfterFailure, JobStatus, Terminal
    <3> HIDE DEF x
    <3>2. r \in Job /\ r.sess = jobs[j].sess /\ r.status = x
      BY <2>1, <3>1 DEF Job
    <3> HIDE DEF j, r
    <3>3. QED
      BY <2>1, <2>2, <2>3, <3>1, <3>2 DEF Settle
  <2>4. CASE jobs[j].status \notin Pending
    <3>1. x = jobs[j].status
      BY <2>4 DEF AfterFailure
    <3> HIDE DEF x
    <3>2. r = jobs[j]
      BY <2>1, <3>1 DEF Job
    <3> HIDE DEF j, r
    <3>3. QED
      BY <1>1, <2>1, <2>2, <3>2, LenProperties
  <2>5. QED
    BY <2>3, <2>4
<1>5. ASSUME NEW s \in Sessions, RequestMock(s) \/ SendToGemini(s)
      PROVE  Requested(s)
  <2>1. CASE RequestMock(s)
    BY <2>1 DEF RequestMock, Requested, Lane
  <2>2. CASE SendToGemini(s)
    BY <2>2 DEF SendToGemini, Requested, Lane, ReserveFirst, ReserveAgain, MayResend, IsLatest
  <2>3. QED
    BY <1>5, <2>1, <2>2
<1>6. CASE Command
  BY <1>2, <1>5, <1>6 DEF Command, NewMatch, AbortMatch, ConfirmFacts, UpdateMetadata,
     ApplySelection, Redeliver
<1>7. CASE UiStep
  BY <1>2, <1>3, <1>4, <1>7 DEF UiStep, StartAttempt, Apply, Typed, ControlOK
<1>8. CASE Callback \/ WorkerStep \/ Crash \/ UNCHANGED vars
  BY <1>8 DEF Callback, HandleSucceeded, HandleFailed, WorkerStep, WorkerSend,
              WorkerAnswer, Crash, vars, store
<1>9. QED
  BY <1>6, <1>7, <1>8 DEF Next

(* What creating a job does to those that were there, and what the         *)
(* recovery does.                                                          *)
LEMMA RequestedKeepsJobs ==
  ASSUME Typed, NEW s \in Sessions, Requested(s)
  PROVE  /\ Jobs' = Jobs \cup {NewJob} /\ \A j \in Jobs : j < NewJob
         /\ \A j \in Jobs : jobs'[j] = jobs[j]
         /\ jobs'[NewJob].sess = s /\ jobs'[NewJob].status = "QUEUED"
<1>1. PICK lane \in Lane : InsertJob(s, lane)
  BY DEF Requested
<1> DEFINE new == [sess |-> s, rev |-> sessions[s].rev, facts |-> sessions[s].facts,
                   lane |-> lane, status |-> "QUEUED", dispatches |-> 0]
<1>2. sessions[s] \in Session /\ s \in Nat
  BY <1>1, TypedInsertJob
<1>3. new \in Job /\ new.sess = s /\ new.status = "QUEUED"
  BY <1>2 DEF Job, Session, JobStatus, Pending
<1>4. jobs' = Append(jobs, new)
  BY <1>1 DEF InsertJob
<1>5. jobs \in Seq(Job) /\ Len(jobs) \in Nat /\ Jobs = 1..Len(jobs)
  BY LenProperties DEF Typed, TypeOK
<1> HIDE DEF new
<1>6. /\ Jobs' = Jobs \cup {NewJob}
      /\ \A j \in Jobs : jobs'[j] = jobs[j]
      /\ jobs'[NewJob] = new
  BY <1>3, <1>4, <1>5, AppendIsSeq
<1>7. QED
  BY <1>3, <1>5, <1>6

(* What recover_after_restart makes of each job.                           *)
LEMMA RestartRecovers ==
  ASSUME Typed, Restart
  PROVE  /\ Jobs' = Jobs
         /\ \A j \in Jobs : /\ jobs'[j].sess = jobs[j].sess
                            /\ jobs'[j].status = Recovered(jobs[j].status)
<1>1. \A j \in Jobs : jobs[j] \in Job
  BY ElementOfSeq, LenProperties DEF Typed, TypeOK
<1>2. \A r \in Job : \A x : /\ [r EXCEPT !.status = x].sess = r.sess
                            /\ [r EXCEPT !.status = x].status = x
  BY DEF Job
<1>3. jobs' = [j \in Jobs |-> [jobs[j] EXCEPT !.status = Recovered(jobs[j].status)]]
  BY DEF Restart
<1>4. QED
  BY <1>1, <1>2, <1>3

(* A job that has come to an end keeps its status: a late failure, a late  *)
(* answer and a restart cannot reopen or relabel it                        *)
(* (fail_selection_advice_job, recover_unfinished_jobs, _binding_failure_  *)
(* reason).                                                                *)
THEOREM EndedJobsStayEnded == Spec => TerminalIsFinal
<1>1. Typed /\ [Next]_vars =>
        [\A j \in Jobs : jobs[j].status \in Terminal => jobs'[j].status = jobs[j].status]_vars
  <2> SUFFICES ASSUME Typed, [Next]_vars, NEW j \in Jobs, jobs[j].status \in Terminal
               PROVE  jobs'[j].status = jobs[j].status
    OBVIOUS
  <2>1. CASE \E s \in Sessions : Requested(s)
    BY <2>1, RequestedKeepsJobs
  <2>2. ASSUME NEW i \in Jobs, NEW r \in Job, Settle(i, r)
        PROVE  jobs'[j].status = jobs[j].status
    <3>1. i # j
      BY <2>2 DEF Settle, Pending, Terminal
    <3>2. QED
      BY <2>2, <3>1 DEF Settle
  <2>3. CASE Restart
    BY <2>3, RestartRecovers DEF Recovered, Terminal
  <2>4. QED
    BY <2>1, <2>2, <2>3, JobStep
<1>2. QED
  BY <1>1, TypedInvariant, PTL DEF Spec, TerminalIsFinal

(* The strengthening: a job that blocks requests is the newest of its      *)
(* match, since none could be requested after it.                          *)
BlockingIsLatest ==
  \A j, k \in Jobs : (jobs[j].status \in Blocking /\ jobs[k].sess = jobs[j].sess) => k <= j

(* The strengthening of UnknownDeliveryEndsRequests is an invariant.       *)
LEMMA BlockingIsLatestInvariant == Spec => []BlockingIsLatest
<1>1. Init => BlockingIsLatest
  BY DEF Init, BlockingIsLatest
<1>2. Typed /\ BlockingIsLatest /\ [Next]_vars => BlockingIsLatest'
  <2> SUFFICES ASSUME Typed, BlockingIsLatest, [Next]_vars,
                      NEW j \in Jobs', NEW k \in Jobs',
                      jobs'[j].status \in Blocking, jobs'[k].sess = jobs'[j].sess
               PROVE  k <= j
    BY DEF BlockingIsLatest
  <2>1. Jobs = 1..Len(jobs) /\ Len(jobs) \in Nat /\ jobs \in Seq(Job)
    BY LenProperties DEF Typed, TypeOK
  <2>2. ASSUME NEW s \in Sessions, Requested(s)
        PROVE  k <= j
    <3>1. CASE j = NewJob
      BY <2>1, <2>2, <3>1, RequestedKeepsJobs
    <3>2. CASE j \in Jobs /\ k \in Jobs
      BY <2>2, <3>2, RequestedKeepsJobs DEF BlockingIsLatest
    <3>3. CASE j \in Jobs /\ k = NewJob
      <4>1. jobs[j].sess = s /\ jobs[j].status \in Blocking
        BY <2>2, <3>3, RequestedKeepsJobs
      <4>2. IsLatest(j, s)
        BY <3>3, <4>1 DEF IsLatest, BlockingIsLatest
      <4>3. ~MayRequest(s)
        BY <3>3, <4>1, <4>2 DEF MayRequest
      <4>4. PICK i \in Jobs : MayResend(s, i)
        BY <2>2, <4>3 DEF Requested
      <4>5. i = j
        BY <2>1, <3>3, <4>2, <4>4 DEF MayResend, IsLatest
      <4>6. QED
        BY <4>1, <4>4, <4>5 DEF MayResend, EndedTransiently, Blocking, Pending
    <3>4. QED
      BY <2>2, <3>1, <3>2, <3>3, RequestedKeepsJobs
  <2>3. ASSUME NEW i \in Jobs, NEW r \in Job, Settle(i, r)
        PROVE  k <= j
    <3>1. Jobs' = Jobs /\ \A n \in Jobs : jobs'[n] = IF n = i THEN r ELSE jobs[n]
      BY <2>1, <2>3 DEF Settle
    <3>2. \A n \in Jobs : jobs'[n].sess = jobs[n].sess
      BY <2>3, <3>1 DEF Settle
    <3>3. jobs[j].status \in Blocking
      BY <2>3, <3>1 DEF Settle, Blocking
    <3>4. QED
      BY <3>1, <3>2, <3>3 DEF BlockingIsLatest
  <2>4. CASE Restart
    <3>1. jobs[j].status \in Blocking /\ j \in Jobs /\ k \in Jobs
      BY <2>4, RestartRecovers DEF Recovered, Blocking, Pending
    <3>2. QED
      BY <2>4, <3>1, RestartRecovers DEF BlockingIsLatest
  <2>5. CASE jobs' = jobs
    BY <2>5 DEF BlockingIsLatest
  <2>6. QED
    BY <2>2, <2>3, <2>4, <2>5, JobStep
<1>3. QED
  BY <1>1, <1>2, TypedInvariant, PTL DEF Spec

(* After a request whose delivery is unknown its match makes no other one, *)
(* whatever is confirmed, aborted or restarted afterwards: at most one     *)
(* provider request can have been made twice without the human knowing     *)
(* (_guard_provider_request, recover_after_restart).                       *)
THEOREM UnknownDeliveryIsLast == Spec => []UnknownDeliveryEndsRequests
<1>1. BlockingIsLatest => UnknownDeliveryEndsRequests
  BY DEF BlockingIsLatest, UnknownDeliveryEndsRequests, Blocking
<1>2. QED
  BY <1>1, BlockingIsLatestInvariant, PTL

---------------------------------------------------------------------------
(* Advice.                                                                 *)

(* The rows that name others name existing ones.                           *)
AdviceExists ==
  /\ \A s \in Sessions : sessions[s].advice # None => sessions[s].advice \in DOMAIN advices
  /\ \A a \in DOMAIN advices : advices[a].job \in Jobs

AdviceInv == Typed /\ AdviceExists /\ AdviceMatchesFacts /\ AppliedOnce

(* Job statuses move, but no job becomes or ceases to be SUCCEEDED.        *)
OnlyStatusesMove ==
  /\ Jobs' = Jobs /\ UNCHANGED <<sessions, results, advices>>
  /\ \A j \in Jobs : /\ jobs'[j].sess = jobs[j].sess
                     /\ jobs'[j].facts = jobs[j].facts
                     /\ jobs'[j].rev = jobs[j].rev
                     /\ jobs'[j].status = "SUCCEEDED" <=> jobs[j].status = "SUCCEEDED"

(* A dispatch, a failure and the recovery are such moves.                  *)
LEMMA StatusesMove ==
  ASSUME Typed, MarkDispatched \/ FailJob \/ Restart
  PROVE  OnlyStatusesMove
<1>1. Jobs = 1..Len(jobs) /\ Len(jobs) \in Nat /\ jobs \in Seq(Job)
      /\ \A j \in Jobs : jobs[j] \in Job
  BY ElementOfSeq, LenProperties DEF Typed, TypeOK
<1>2. UNCHANGED <<sessions, results, advices>>
  BY DEF MarkDispatched, FailJob, Restart
<1>3. \A r \in Job : \A x, n :
        LET q == [r EXCEPT !.status = x]
            p == [r EXCEPT !.status = x, !.dispatches = n]
        IN /\ q.sess = r.sess /\ q.facts = r.facts /\ q.rev = r.rev /\ q.status = x
           /\ p.sess = r.sess /\ p.facts = r.facts /\ p.rev = r.rev /\ p.status = x
  BY DEF Job
<1>4. CASE MarkDispatched
  <2> DEFINE q == [jobs[ui.job] EXCEPT !.status = "IN_FLIGHT",
                                       !.dispatches = jobs[ui.job].dispatches + 1]
  <2>1. ui.job \in Jobs /\ jobs[ui.job].status = "QUEUED"
    BY <1>4 DEF MarkDispatched, Typed, ControlOK
  <2>2. /\ q.sess = jobs[ui.job].sess /\ q.facts = jobs[ui.job].facts
        /\ q.rev = jobs[ui.job].rev /\ q.status = "IN_FLIGHT"
    BY <1>1, <1>3, <2>1
  <2>3. jobs' = [jobs EXCEPT ![ui.job] = q]
    BY <1>4, Zenon DEF MarkDispatched
  <2> HIDE DEF q
  <2>4. Jobs' = Jobs /\ \A j \in Jobs : jobs'[j] = IF j = ui.job THEN q ELSE jobs[j]
    BY <1>1, <2>3
  <2> QED
    BY <1>2, <2>1, <2>2, <2>4 DEF OnlyStatusesMove
<1>5. CASE FailJob
  <2> DEFINE x == AfterFailure(jobs[ui.job].status, ui.arg)
             q == [jobs[ui.job] EXCEPT !.status = x]
  <2>1. ui.job \in Jobs
    BY <1>5 DEF FailJob, Typed, ControlOK
  <2>2. x = "SUCCEEDED" <=> jobs[ui.job].status = "SUCCEEDED"
    BY DEF AfterFailure, Pending
  <2>3. jobs' = [jobs EXCEPT ![ui.job] = q]
    BY <1>5, Zenon DEF FailJob
  <2> HIDE DEF x
  <2>4. /\ q.sess = jobs[ui.job].sess /\ q.facts = jobs[ui.job].facts
        /\ q.rev = jobs[ui.job].rev /\ q.status = x
    BY <1>1, <1>3, <2>1
  <2> HIDE DEF q
  <2>5. Jobs' = Jobs /\ \A j \in Jobs : jobs'[j] = IF j = ui.job THEN q ELSE jobs[j]
    BY <1>1, <2>3
  <2> QED
    BY <1>2, <2>1, <2>2, <2>4, <2>5 DEF OnlyStatusesMove
<1>6. CASE Restart
  <2>1. /\ Jobs' = Jobs
        /\ \A j \in Jobs : jobs'[j] = [jobs[j] EXCEPT !.status = Recovered(jobs[j].status)]
    BY <1>1, <1>6 DEF Restart
  <2>2. ASSUME NEW j \in Jobs
        PROVE  Recovered(jobs[j].status) = "SUCCEEDED" <=> jobs[j].status = "SUCCEEDED"
    BY DEF Recovered
  <2>3. \A j \in Jobs : /\ jobs'[j].sess = jobs[j].sess
                        /\ jobs'[j].facts = jobs[j].facts
                        /\ jobs'[j].rev = jobs[j].rev
                        /\ jobs'[j].status = Recovered(jobs[j].status)
    <3> SUFFICES ASSUME NEW j \in Jobs
                 PROVE  /\ jobs'[j].sess = jobs[j].sess /\ jobs'[j].facts = jobs[j].facts
                        /\ jobs'[j].rev = jobs[j].rev
                        /\ jobs'[j].status = Recovered(jobs[j].status)
      OBVIOUS
    <3>1. jobs[j] \in Job /\ jobs'[j] = [jobs[j] EXCEPT !.status = Recovered(jobs[j].status)]
      BY <1>1, <2>1
    <3> QED
      BY <1>3, <3>1
  <2> QED
    BY <1>2, <2>1, <2>2, <2>3 DEF OnlyStatusesMove
<1> QED
  BY <1>4, <1>5, <1>6

(* What a step can do to matches, jobs, results and advice together.       *)
OnlyMatchesMove(s) ==
  /\ UNCHANGED <<jobs, results, advices>>
  /\ \/ AbortMatch(s) \/ ConfirmFacts(s) \/ UpdateMetadata(s) \/ ApplySelection(s)

(* Every step is one of the six the lemmas below take one at a time.       *)
LEMMA AdviceStep ==
  ASSUME Typed, [Next]_vars
  PROVE  \/ UNCHANGED <<sessions, jobs, results, advices>>
         \/ NewMatch
         \/ \E s \in Sessions : OnlyMatchesMove(s)
         \/ \E s \in Sessions, lane \in Lane :
              InsertJob(s, lane) /\ UNCHANGED <<sessions, advices>>
         \/ \E j \in Jobs : \E p : ApplyResult(j, p)
         \/ OnlyStatusesMove
<1>1. CASE Command
  <2>1. ASSUME NEW s \in Sessions,
               \/ AbortMatch(s) \/ ConfirmFacts(s) \/ UpdateMetadata(s) \/ ApplySelection(s)
        PROVE  OnlyMatchesMove(s)
    BY <2>1 DEF OnlyMatchesMove, AbortMatch, ConfirmFacts, UpdateMetadata, ApplySelection
  <2>2. ASSUME NEW s \in Sessions, RequestMock(s)
        PROVE  InsertJob(s, "MOCK") /\ UNCHANGED <<sessions, advices>> /\ "MOCK" \in Lane
    BY <2>2 DEF RequestMock, Lane
  <2>3. ASSUME NEW s \in Sessions, SendToGemini(s)
        PROVE  InsertJob(s, "GEMINI") /\ UNCHANGED <<sessions, advices>> /\ "GEMINI" \in Lane
    BY <2>3 DEF SendToGemini, Lane
  <2>4. ASSUME NEW j \in Jobs, NEW p \in Payload, Redeliver(j, p)
        PROVE  ApplyResult(j, p)
    BY <2>4 DEF Redeliver
  <2> QED
    BY <1>1, <2>1, <2>2, <2>3, <2>4 DEF Command
<1>2. CASE UiStep
  <2>1. CASE Apply
    BY <2>1 DEF Apply, Typed, ControlOK
  <2>2. CASE StartAttempt
    BY <2>2 DEF StartAttempt
  <2> QED
    BY <1>2, <2>1, <2>2, StatusesMove DEF UiStep
<1>3. CASE Restart
  BY <1>3, StatusesMove
<1>4. CASE Callback \/ WorkerStep \/ Crash \/ UNCHANGED vars
  BY <1>4 DEF Callback, HandleSucceeded, HandleFailed, WorkerStep, WorkerSend,
              WorkerAnswer, Crash, vars, store
<1> QED
  BY <1>1, <1>2, <1>3, <1>4 DEF Next

(* What a command on one match does to it: its advice stays that of its    *)
(* facts, or it has none before and after.                                 *)
LEMMA MatchMoves ==
  ASSUME Typed, NEW s \in Sessions,
         \/ AbortMatch(s) \/ ConfirmFacts(s) \/ UpdateMetadata(s) \/ ApplySelection(s)
  PROVE  \E r \in Session :
           /\ sessions' = [sessions EXCEPT ![s] = r]
           /\ r.rev >= sessions[s].rev
           /\ \/ /\ r.advice = sessions[s].advice /\ r.facts = sessions[s].facts
                 /\ r.state = "SELECTION_OPEN" => sessions[s].state = "SELECTION_OPEN"
                 /\ r.applied \in {sessions[s].applied, sessions[s].advice}
              \/ /\ sessions[s].state = "SELECTION_OPEN" /\ r.advice = None
                 /\ r.applied = sessions[s].applied
<1>1. sessions[s] \in Session
  BY ElementOfSeq, LenProperties DEF Typed, TypeOK
<1>2. /\ sessions[s].rev \in Nat /\ sessions[s].rev + 1 \in Nat
      /\ sessions[s].rev + 1 >= sessions[s].rev
  BY <1>1 DEF Session
<1> DEFINE old == sessions[s]
           rev == old.rev + 1
           meta == old.meta + 1
<1>3. CASE AbortMatch(s)
  <2> DEFINE r == [old EXCEPT !.state = "ABORTED", !.active = FALSE, !.rev = rev]
  <2>1. sessions' = [sessions EXCEPT ![s] = r]
    BY <1>3, Zenon DEF AbortMatch
  <2>2. r \in Session
    BY <1>1, SessionUpdates
  <2>3. /\ r.rev = rev /\ r.advice = old.advice /\ r.facts = old.facts
        /\ r.state = "ABORTED" /\ r.applied = old.applied
    BY <1>1 DEF Session
  <2> HIDE DEF r
  <2> QED
    BY <1>2, <2>1, <2>2, <2>3
<1>4. CASE ConfirmFacts(s)
  <2> DEFINE r == [old EXCEPT !.facts = facts', !.advice = None, !.rev = rev]
  <2>1. sessions' = [sessions EXCEPT ![s] = r]
    BY <1>4, Zenon DEF ConfirmFacts
  <2>2. r \in Session
    BY <1>1, <1>4, SessionUpdates, WritesOneMatch
  <2>3. r.rev = rev /\ r.advice = None /\ r.applied = old.applied
    BY <1>1 DEF Session
  <2>4. old.state = "SELECTION_OPEN"
    BY <1>4 DEF ConfirmFacts
  <2> HIDE DEF r
  <2> QED
    BY <1>2, <2>1, <2>2, <2>3, <2>4
<1>5. CASE UpdateMetadata(s)
  <2> DEFINE r == [old EXCEPT !.meta = meta]
  <2>1. sessions' = [sessions EXCEPT ![s] = r]
    BY <1>5, Zenon DEF UpdateMetadata
  <2>2. r \in Session
    BY <1>1, SessionUpdates
  <2>3. /\ r.rev = old.rev /\ r.advice = old.advice /\ r.facts = old.facts
        /\ r.state = old.state /\ r.applied = old.applied
    BY <1>1 DEF Session
  <2>4. r.rev >= old.rev
    BY <1>2, <2>3
  <2> HIDE DEF r
  <2> QED
    BY <2>1, <2>2, <2>3, <2>4
<1>6. CASE ApplySelection(s)
  <2> DEFINE r == [old EXCEPT !.applied = old.advice, !.state = "BATTLE_READY", !.rev = rev]
  <2>1. sessions' = [sessions EXCEPT ![s] = r]
    BY <1>6, Zenon DEF ApplySelection
  <2>2. r \in Session
    BY <1>1, SessionUpdates
  <2>3. /\ r.rev = rev /\ r.advice = old.advice /\ r.facts = old.facts
        /\ r.state = "BATTLE_READY" /\ r.applied = old.advice
    BY <1>1 DEF Session
  <2> HIDE DEF r
  <2> QED
    BY <1>2, <2>1, <2>2, <2>3
<1> QED
  BY <1>3, <1>4, <1>5, <1>6

(* Commands on matches keep what is said of advice.                        *)
LEMMA AdviceNewMatch ==
  AdviceInv /\ NewMatch => (AdviceExists /\ AdviceMatchesFacts /\ AppliedOnce)'
<1> SUFFICES ASSUME AdviceInv, NewMatch
             PROVE  (AdviceExists /\ AdviceMatchesFacts /\ AppliedOnce)'
  OBVIOUS
<1> DEFINE new == [state |-> "SELECTION_OPEN", active |-> TRUE, rev |-> 1, meta |-> 0,
                   facts |-> None, advice |-> None, applied |-> None]
<1>1. new \in Session /\ new.advice = None /\ new.applied = None
  BY DEF Session, SelectionState
<1>2. sessions' = Append(sessions, new) /\ sessions \in Seq(Session)
  BY DEF NewMatch, AdviceInv, Typed, TypeOK
<1>3. UNCHANGED <<jobs, results, advices>>
  BY DEF NewMatch
<1> HIDE DEF new
<1>4. /\ Sessions' = Sessions \cup {Len(sessions) + 1}
      /\ \A s \in Sessions : sessions'[s] = sessions[s]
      /\ sessions'[Len(sessions) + 1] = new
  BY <1>1, <1>2, AppendIsSeq
<1>5. AdviceExists' /\ AdviceMatchesFacts'
  BY <1>1, <1>3, <1>4 DEF AdviceInv, AdviceExists, AdviceMatchesFacts
<1>6. AppliedOnce'
  BY <1>3 DEF AdviceInv, AppliedOnce, WasApplied
<1> QED
  BY <1>5, <1>6

(* The commands on an existing match keep what is said of advice.          *)
LEMMA AdviceMatchCommands ==
  ASSUME AdviceInv, NEW s \in Sessions, OnlyMatchesMove(s)
  PROVE  (AdviceExists /\ AdviceMatchesFacts /\ AppliedOnce)'
<1>1. PICK r \in Session :
           /\ sessions' = [sessions EXCEPT ![s] = r]
           /\ r.rev >= sessions[s].rev
           /\ \/ /\ r.advice = sessions[s].advice /\ r.facts = sessions[s].facts
                 /\ r.state = "SELECTION_OPEN" => sessions[s].state = "SELECTION_OPEN"
                 /\ r.applied \in {sessions[s].applied, sessions[s].advice}
              \/ /\ sessions[s].state = "SELECTION_OPEN" /\ r.advice = None
                 /\ r.applied = sessions[s].applied
  BY MatchMoves DEF AdviceInv, OnlyMatchesMove
<1>2. UNCHANGED <<jobs, results, advices>>
  BY DEF OnlyMatchesMove
<1>3. /\ sessions \in Seq(Session) /\ Sessions = 1..Len(sessions)
      /\ \A i \in Sessions : sessions[i] \in Session
      /\ \A a \in DOMAIN advices : advices[a].job \in Jobs
      /\ \A j \in Jobs : jobs[j] \in Job
  BY ElementOfSeq, LenProperties DEF AdviceInv, Typed, TypeOK, AdviceExists
<1>4. Sessions' = Sessions /\ \A i \in Sessions : sessions'[i] = IF i = s THEN r ELSE sessions[i]
  BY <1>1, <1>3
<1>5. /\ sessions[s].rev \in Nat /\ r.rev \in Nat
      /\ sessions[s].state = "SELECTION_OPEN" => sessions[s].advice = None
      /\ sessions[s].applied # None => sessions[s].applied = sessions[s].advice
  BY <1>3 DEF Session, AdviceInv, AdviceMatchesFacts
<1>6. /\ r.advice # None => r.advice = sessions[s].advice /\ r.facts = sessions[s].facts
      /\ r.state = "SELECTION_OPEN" => r.advice = None
      /\ r.applied # None => r.applied = r.advice
  BY <1>1, <1>5
<1>7. AdviceExists'
  BY <1>2, <1>4, <1>6 DEF AdviceInv, AdviceExists
<1>8. r.advice # None =>
        LET a == advices[r.advice] IN
        /\ a.sess = s /\ jobs[a.job].sess = s
        /\ jobs[a.job].facts = r.facts
        /\ jobs[a.job].status = "SUCCEEDED"
        /\ jobs[a.job].rev < r.rev
  <2> SUFFICES ASSUME r.advice # None
               PROVE  LET a == advices[r.advice] IN
                      /\ a.sess = s /\ jobs[a.job].sess = s
                      /\ jobs[a.job].facts = r.facts
                      /\ jobs[a.job].status = "SUCCEEDED"
                      /\ jobs[a.job].rev < r.rev
    OBVIOUS
  <2>1. LET a == advices[r.advice] IN
        /\ a.sess = s /\ jobs[a.job].sess = s
        /\ jobs[a.job].facts = r.facts
        /\ jobs[a.job].status = "SUCCEEDED"
        /\ jobs[a.job].rev < sessions[s].rev
    BY <1>6 DEF AdviceInv, AdviceMatchesFacts
  <2>2. jobs[advices[r.advice].job].rev \in Nat
    BY <1>3, <1>6 DEF AdviceInv, AdviceExists, Job
  <2> QED
    BY <1>1, <1>5, <2>1, <2>2
<1>9. AdviceMatchesFacts'
  BY <1>2, <1>4, <1>6, <1>8 DEF AdviceInv, AdviceMatchesFacts
<1>10. AppliedOnce'
  BY <1>2 DEF AdviceInv, AppliedOnce, WasApplied
<1> QED
  BY <1>7, <1>9, <1>10

(* A new job has no result and no advice.                                  *)
LEMMA AdviceInsertJob ==
  ASSUME AdviceInv, NEW s \in Sessions, NEW lane \in Lane, InsertJob(s, lane),
         UNCHANGED <<sessions, advices>>
  PROVE  (AdviceExists /\ AdviceMatchesFacts /\ AppliedOnce)'
<1> DEFINE new == [sess |-> s, rev |-> sessions[s].rev, facts |-> sessions[s].facts,
                   lane |-> lane, status |-> "QUEUED", dispatches |-> 0]
<1>1. /\ jobs \in Seq(Job) /\ results \in Seq(Seq(Disposition)) /\ Len(results) = Len(jobs)
      /\ Jobs = 1..Len(jobs) /\ DOMAIN results = Jobs /\ Len(jobs) \in Nat
  BY LenProperties DEF AdviceInv, Typed, TypeOK
<1>2. new \in Job /\ new.status = "QUEUED"
  BY TypedInsertJob DEF AdviceInv, Job, Session, JobStatus, Pending
<1>3. jobs' = Append(jobs, new) /\ results' = Append(results, <<>>)
  BY DEF InsertJob
<1> HIDE DEF new
<1>4. /\ Jobs' = Jobs \cup {NewJob} /\ NewJob \notin Jobs
      /\ \A j \in Jobs : jobs'[j] = jobs[j] /\ results'[j] = results[j]
      /\ jobs'[NewJob].status = "QUEUED" /\ results'[NewJob] = <<>>
  <2>1. <<>> \in Seq(Disposition)
    BY EmptySeq
  <2> QED
    BY <1>1, <1>2, <1>3, <2>1, AppendIsSeq
<1>5. AdviceExists'
  BY <1>4 DEF AdviceInv, AdviceExists
<1>6. AdviceMatchesFacts'
  BY <1>4 DEF AdviceInv, AdviceExists, AdviceMatchesFacts
<1>7. AppliedOnce'
  <2>1. DOMAIN <<>> = {}
    OBVIOUS
  <2> QED
    BY <1>4, <2>1 DEF AdviceInv, AdviceExists, AppliedOnce, WasApplied
<1> QED
  BY <1>5, <1>6, <1>7

(* Moves of job statuses keep what is said of advice.                      *)
LEMMA AdviceStatusesMove ==
  AdviceInv /\ OnlyStatusesMove => (AdviceExists /\ AdviceMatchesFacts /\ AppliedOnce)'
<1> SUFFICES ASSUME AdviceInv, OnlyStatusesMove
             PROVE  (AdviceExists /\ AdviceMatchesFacts /\ AppliedOnce)'
  OBVIOUS
<1>1. AdviceExists'
  BY DEF AdviceInv, AdviceExists, OnlyStatusesMove
<1>2. AdviceMatchesFacts'
  BY DEF AdviceInv, AdviceExists, AdviceMatchesFacts, OnlyStatusesMove
<1>3. AppliedOnce'
  BY DEF AdviceInv, AppliedOnce, WasApplied, OnlyStatusesMove
<1> QED
  BY <1>1, <1>2, <1>3

(* A result is APPLIED only to a pending job of the active match that has  *)
(* the match's facts and revision, and to no job twice; any other result   *)
(* makes no advice and no SUCCEEDED job.                                   *)
LEMMA AdviceApplyResult ==
  ASSUME AdviceInv, NEW j \in Jobs, NEW p, ApplyResult(j, p)
  PROVE  (AdviceExists /\ AdviceMatchesFacts /\ AppliedOnce)'
<1> DEFINE d == DispositionOf(j, p)
           s == jobs[j].sess
           row == Append(results[j], d)
<1>1. /\ sessions \in Seq(Session) /\ jobs \in Seq(Job) /\ advices \in Seq(Advice)
      /\ results \in Seq(Seq(Disposition)) /\ Len(results) = Len(jobs)
      /\ Jobs = 1..Len(jobs) /\ DOMAIN results = Jobs
      /\ DOMAIN advices = 1..Len(advices) /\ Len(advices) \in Nat
      /\ \A k \in Jobs : jobs[k] \in Job /\ results[k] \in Seq(Disposition)
      /\ \A t \in Sessions : sessions[t] \in Session
  BY ElementOfSeq, LenProperties DEF AdviceInv, Typed, TypeOK
<1>2. d \in Disposition
  BY DEF DispositionOf, Disposition
<1>3. /\ d \in {"APPLIED", "INVALID_REJECTED"} => BindingHolds(j) /\ ~WasApplied(j)
      /\ d \in {"APPLIED", "INVALID_REJECTED", "STALE_REJECTED", "DUPLICATE_IGNORED"}
  BY DEF DispositionOf
<1>4. results' = [results EXCEPT ![j] = row]
  BY DEF ApplyResult
<1>5. /\ DOMAIN row = DOMAIN results[j] \cup {Len(results[j]) + 1}
      /\ Len(results[j]) + 1 \notin DOMAIN results[j]
      /\ \A i \in DOMAIN results[j] : row[i] = results[j][i]
      /\ row[Len(results[j]) + 1] = d
  BY <1>1, <1>2, AppendIsSeq, LenProperties
<1> HIDE DEF row, d
<1>6. \A k \in Jobs : results'[k] = IF k = j THEN row ELSE results[k]
  BY <1>1, <1>4
<1>7. \A k \in Jobs : k # j => (WasApplied(k)' <=> WasApplied(k))
  BY <1>6 DEF WasApplied
<1>8. \A i, k \in DOMAIN results'[j] :
        (results'[j][i] = "APPLIED" /\ results'[j][k] = "APPLIED") => i = k
  <2>1. d = "APPLIED" => \A i \in DOMAIN results[j] : results[j][i] # "APPLIED"
    BY <1>3 DEF WasApplied
  <2>2. \A i, k \in DOMAIN results[j] :
          (results[j][i] = "APPLIED" /\ results[j][k] = "APPLIED") => i = k
    BY DEF AdviceInv, AppliedOnce
  <2> QED
    BY <1>5, <1>6, <2>1, <2>2
<1>9. WasApplied(j)' <=> WasApplied(j) \/ d = "APPLIED"
  BY <1>5, <1>6 DEF WasApplied
<1>10. CASE d = "APPLIED"
  <2> DEFINE new == [sess |-> s, job |-> j]
             r == [sessions[s] EXCEPT !.advice = Len(advices) + 1,
                     !.state = "SELECTION_ADVICE_READY", !.rev = sessions[s].rev + 1]
             q == [jobs[j] EXCEPT !.status = "SUCCEEDED"]
  <2>1. /\ advices' = Append(advices, new) /\ sessions' = [sessions EXCEPT ![s] = r]
        /\ jobs' = [jobs EXCEPT ![j] = q]
    BY <1>10, Zenon DEF ApplyResult, d
  <2>2. new \in Advice /\ new.sess = s /\ new.job = j
    BY SMTT(30), <1>1 DEF Advice, Job
  <2>3. /\ q.sess = s /\ q.facts = jobs[j].facts /\ q.rev = jobs[j].rev
        /\ q.status = "SUCCEEDED" /\ q.rev \in Nat
    BY <1>1 DEF Job
  <2>4. /\ sessions[s].active /\ jobs[j].status \in Pending
        /\ q.rev = sessions[s].rev /\ q.facts = sessions[s].facts
        /\ sessions[s].state = "SELECTION_OPEN"
    BY <1>3, <1>10, <2>3 DEF BindingHolds
  <2>5. s \in Sessions =>
          /\ r.advice = Len(advices) + 1 /\ r.state = "SELECTION_ADVICE_READY"
          /\ r.rev = sessions[s].rev + 1 /\ r.facts = sessions[s].facts
          /\ r.applied = sessions[s].applied
    <3>1. ASSUME NEW t \in Session, NEW a, NEW n
          PROVE  LET u == [t EXCEPT !.advice = a, !.state = "SELECTION_ADVICE_READY",
                                    !.rev = n]
                 IN /\ u.advice = a /\ u.state = "SELECTION_ADVICE_READY"
                    /\ u.rev = n /\ u.facts = t.facts /\ u.applied = t.applied
      BY DEF Session
    <3> QED
      BY <1>1, <3>1
  <2> HIDE DEF new, r, q
  <2>6. /\ Jobs' = Jobs /\ \A k \in Jobs : jobs'[k] = IF k = j THEN q ELSE jobs[k]
        /\ Sessions' = Sessions
        /\ \A t \in Sessions : sessions'[t] = IF t = s THEN r ELSE sessions[t]
    BY <1>1, <2>1
  <2>7. /\ DOMAIN advices' = DOMAIN advices \cup {Len(advices) + 1}
        /\ Len(advices) + 1 \notin DOMAIN advices /\ Len(advices) + 1 # None
        /\ \A a \in DOMAIN advices : advices'[a] = advices[a]
        /\ advices'[Len(advices) + 1] = new
    BY <1>1, <2>1, <2>2, AppendIsSeq
  <2>8. jobs[j].status # "SUCCEEDED" /\ \A a \in DOMAIN advices : advices[a].job # j
    BY <2>4 DEF AdviceInv, AppliedOnce, Pending
  <2>9. AdviceExists'
    BY <2>2, <2>5, <2>6, <2>7 DEF AdviceInv, AdviceExists
  <2>10. AdviceMatchesFacts'
    <3> SUFFICES ASSUME NEW t \in Sessions
                 PROVE  /\ sessions'[t].advice # None =>
                             LET a == advices'[sessions'[t].advice] IN
                             /\ a.sess = t /\ jobs'[a.job].sess = t
                             /\ jobs'[a.job].facts = sessions'[t].facts
                             /\ jobs'[a.job].status = "SUCCEEDED"
                             /\ jobs'[a.job].rev < sessions'[t].rev
                        /\ sessions'[t].state = "SELECTION_OPEN" => sessions'[t].advice = None
                        /\ sessions'[t].applied # None => sessions'[t].applied = sessions'[t].advice
      BY <2>6 DEF AdviceMatchesFacts
    <3>1. CASE t = s
      <4>1. sessions[s].applied = None
        BY <2>4, <3>1 DEF AdviceInv, AdviceMatchesFacts
      <4>2. r.rev \in Nat /\ r.rev > q.rev
        <5>1. sessions[s].rev \in Nat
          BY <1>1, <3>1 DEF Session
        <5> QED
          BY <2>4, <2>5, <3>1, <5>1
      <4> QED
        BY <2>2, <2>3, <2>4, <2>5, <2>6, <2>7, <3>1, <4>1, <4>2
    <3>2. CASE t # s
      <4>1. sessions'[t] = sessions[t]
        BY <2>6, <3>2
      <4>2. sessions[t].advice # None =>
              LET a == advices[sessions[t].advice] IN
              /\ sessions[t].advice \in DOMAIN advices
              /\ a.job \in Jobs /\ a.job # j
              /\ a = advices'[sessions[t].advice] /\ jobs'[a.job] = jobs[a.job]
        BY <2>6, <2>7, <2>8 DEF AdviceInv, AdviceExists
      <4> QED
        BY <4>1, <4>2 DEF AdviceInv, AdviceMatchesFacts
    <3> QED
      BY <3>1, <3>2
  <2>11. AppliedOnce'
    <3> SUFFICES ASSUME NEW k \in Jobs
                 PROVE  /\ \A x, y \in DOMAIN results'[k] :
                             (results'[k][x] = "APPLIED" /\ results'[k][y] = "APPLIED") => x = y
                        /\ jobs'[k].status = "SUCCEEDED" <=> WasApplied(k)'
                        /\ jobs'[k].status = "SUCCEEDED" <=>
                             (\E a \in DOMAIN advices' : advices'[a].job = k)
                        /\ \A a, b \in DOMAIN advices' :
                             (advices'[a].job = k /\ advices'[b].job = k) => a = b
      BY <2>6 DEF AppliedOnce
    <3>1. CASE k = j
      <4>1. \A a \in DOMAIN advices' : advices'[a].job = j <=> a = Len(advices) + 1
        BY <2>2, <2>7, <2>8
      <4>2. Len(advices) + 1 \in DOMAIN advices'
        BY <2>7
      <4> QED
        BY <1>8, <1>9, <1>10, <2>3, <2>6, <3>1, <4>1, <4>2
    <3>2. CASE k # j
      <4>1. results'[k] = results[k] /\ jobs'[k] = jobs[k] /\ (WasApplied(k)' <=> WasApplied(k))
        BY <1>6, <1>7, <2>6, <3>2
      <4>2. \A a \in DOMAIN advices' :
              advices'[a].job = k <=> a \in DOMAIN advices /\ advices[a].job = k
        BY <2>2, <2>7, <3>2
      <4>3. DOMAIN advices \subseteq DOMAIN advices'
        BY <2>7
      <4> QED
        BY <4>1, <4>2, <4>3 DEF AdviceInv, AppliedOnce
    <3> QED
      BY <3>1, <3>2
  <2> QED
    BY <2>9, <2>10, <2>11
<1>11. CASE d # "APPLIED"
  <2>1. /\ UNCHANGED <<sessions, advices>>
        /\ jobs' = jobs \/ (d = "INVALID_REJECTED" /\ jobs' = [jobs EXCEPT ![j].status = "FAILED"])
    BY <1>3, <1>11, Zenon DEF ApplyResult, d
  <2>2. /\ Jobs' = Jobs
        /\ \A k \in Jobs : /\ jobs'[k].sess = jobs[k].sess /\ jobs'[k].facts = jobs[k].facts
                           /\ jobs'[k].rev = jobs[k].rev
                           /\ jobs'[k].status = "SUCCEEDED" <=> jobs[k].status = "SUCCEEDED"
    <3>1. CASE jobs' = jobs
      BY <3>1
    <3>2. CASE d = "INVALID_REJECTED" /\ jobs' = [jobs EXCEPT ![j].status = "FAILED"]
      <4> DEFINE q == [jobs[j] EXCEPT !.status = "FAILED"]
      <4>1. /\ q.sess = jobs[j].sess /\ q.facts = jobs[j].facts /\ q.rev = jobs[j].rev
            /\ q.status = "FAILED"
        BY <1>1 DEF Job
      <4>2. jobs' = [jobs EXCEPT ![j] = q]
        BY <3>2, Zenon
      <4>3. jobs[j].status # "SUCCEEDED"
        BY <1>3, <3>2 DEF BindingHolds, Pending
      <4> HIDE DEF q
      <4>4. Jobs' = Jobs /\ \A k \in Jobs : jobs'[k] = IF k = j THEN q ELSE jobs[k]
        BY <1>1, <4>2
      <4> QED
        BY <4>1, <4>3, <4>4
    <3> QED
      BY <2>1, <3>1, <3>2
  <2>3. AdviceExists'
    BY <2>1, <2>2 DEF AdviceInv, AdviceExists
  <2>4. AdviceMatchesFacts'
    BY <2>1, <2>2 DEF AdviceInv, AdviceExists, AdviceMatchesFacts
  <2>5. \A k \in Jobs : WasApplied(k)' <=> WasApplied(k)
    BY <1>7, <1>9, <1>11
  <2>6. ASSUME NEW k \in Jobs
        PROVE  \A x, y \in DOMAIN results'[k] :
                 (results'[k][x] = "APPLIED" /\ results'[k][y] = "APPLIED") => x = y
    BY <1>6, <1>8 DEF AdviceInv, AppliedOnce
  <2>7. AppliedOnce'
    BY <2>1, <2>2, <2>5, <2>6 DEF AdviceInv, AppliedOnce
  <2> QED
    BY <2>3, <2>4, <2>7
<1> QED
  BY <1>10, <1>11

(* Advice belongs to the facts confirmed last and an answer counts once,   *)
(* however late, often or early results are delivered and whatever the     *)
(* human corrects, aborts or restarts between (apply_selection_advice_     *)
(* result, _binding_failure_reason).                                       *)
THEOREM AdviceIsAlwaysSound == Spec => []AdviceIsSound
<1> DEFINE Inv == AdviceExists /\ AdviceMatchesFacts /\ AppliedOnce
<1>1. Init => Inv
  BY DEF Init, AdviceExists, AdviceMatchesFacts, AppliedOnce
<1>2. Typed /\ Inv /\ [Next]_vars => Inv'
  <2> SUFFICES ASSUME AdviceInv, [Next]_vars PROVE Inv'
    BY DEF AdviceInv
  <2>1. Typed
    BY DEF AdviceInv
  <2>2. CASE UNCHANGED <<sessions, jobs, results, advices>>
    BY <2>2 DEF AdviceInv, AdviceExists, AdviceMatchesFacts, AppliedOnce, WasApplied
  <2> QED
    BY <2>1, <2>2, AdviceStep, AdviceNewMatch, AdviceMatchCommands, AdviceInsertJob,
       AdviceApplyResult, AdviceStatusesMove
<1>3. Inv => AdviceIsSound
  BY DEF AdviceIsSound
<1> QED
  BY <1>1, <1>2, <1>3, TypedInvariant, PTL DEF Spec

---------------------------------------------------------------------------
(* Requests and provider calls.                                            *)

(* What a request adds; the rows that were there stay.                     *)
LEMMA InsertedJob ==
  ASSUME Typed, NEW s \in Sessions, NEW lane \in Lane, InsertJob(s, lane)
  PROVE  /\ Jobs' = Jobs \cup {NewJob} /\ NewJob \notin Jobs /\ \A j \in Jobs : j < NewJob
         /\ \A j \in Jobs : /\ jobs'[j] = jobs[j] /\ attempts'[j] = attempts[j]
                            /\ results'[j] = results[j]
         /\ jobs'[NewJob] = [sess |-> s, rev |-> sessions[s].rev, facts |-> sessions[s].facts,
                             lane |-> lane, status |-> "QUEUED", dispatches |-> 0]
         /\ attempts'[NewJob] = <<>> /\ results'[NewJob] = <<>>
<1> DEFINE new == [sess |-> s, rev |-> sessions[s].rev, facts |-> sessions[s].facts,
                   lane |-> lane, status |-> "QUEUED", dispatches |-> 0]
<1>1. sessions[s] \in Session /\ s \in Nat
  BY TypedInsertJob
<1>2. new \in Job
  BY <1>1 DEF Job, Session, JobStatus, Pending
<1>3. /\ jobs \in Seq(Job) /\ Len(jobs) \in Nat /\ Jobs = 1..Len(jobs)
      /\ attempts \in Seq(Seq(Attempt)) /\ DOMAIN attempts = Jobs /\ Len(attempts) = Len(jobs)
      /\ results \in Seq(Seq(Disposition)) /\ DOMAIN results = Jobs /\ Len(results) = Len(jobs)
  BY LenProperties DEF Typed, TypeOK
<1>4. <<>> \in Seq(Attempt) /\ <<>> \in Seq(Disposition)
  BY EmptySeq
<1>5. /\ jobs' = Append(jobs, new) /\ attempts' = Append(attempts, <<>>)
      /\ results' = Append(results, <<>>)
  BY DEF InsertJob
<1> HIDE DEF new
<1>6. Jobs' = Jobs \cup {NewJob} /\ (\A j \in Jobs : jobs'[j] = jobs[j]) /\ jobs'[NewJob] = new
  BY <1>2, <1>3, <1>5, AppendIsSeq
<1>7. (\A j \in Jobs : attempts'[j] = attempts[j]) /\ attempts'[NewJob] = <<>>
  BY <1>3, <1>4, <1>5, AppendIsSeq
<1>8. (\A j \in Jobs : results'[j] = results[j]) /\ results'[NewJob] = <<>>
  BY <1>3, <1>4, <1>5, AppendIsSeq
<1>9. NewJob \notin Jobs /\ \A j \in Jobs : j < NewJob
  BY <1>3
<1> QED
  BY <1>6, <1>7, <1>8, <1>9 DEF new

(* Jobs keep what they were created for, and their end; a dispatch is      *)
(* counted where it is made.                                               *)
JobsAreKept ==
  /\ Jobs' = Jobs
  /\ \A j \in Jobs :
       /\ jobs'[j].sess = jobs[j].sess /\ jobs'[j].rev = jobs[j].rev
       /\ jobs'[j].facts = jobs[j].facts /\ jobs'[j].lane = jobs[j].lane
       /\ jobs[j].status \notin Pending => jobs'[j].status = jobs[j].status
       /\ jobs'[j].dispatches = IF MarkDispatched /\ j = ui.job THEN jobs[j].dispatches + 1
                                ELSE jobs[j].dispatches

(* Replacing one pending row by one that differs in status alone is such a *)
(* move.                                                                   *)
LEMMA StatusWrite ==
  ASSUME Typed, ~MarkDispatched, NEW j \in Jobs, NEW x, jobs' = [jobs EXCEPT ![j].status = x],
         jobs[j].status \in Pending \/ x = jobs[j].status
  PROVE  JobsAreKept
<1> DEFINE q == [jobs[j] EXCEPT !.status = x]
<1>1. jobs \in Seq(Job) /\ jobs[j] \in Job
  BY ElementOfSeq, LenProperties DEF Typed, TypeOK
<1>2. /\ q.sess = jobs[j].sess /\ q.rev = jobs[j].rev /\ q.facts = jobs[j].facts
      /\ q.lane = jobs[j].lane /\ q.status = x /\ q.dispatches = jobs[j].dispatches
  BY <1>1 DEF Job
<1>3. jobs' = [jobs EXCEPT ![j] = q]
  BY Zenon
<1> HIDE DEF q
<1>4. Jobs' = Jobs /\ \A k \in Jobs : jobs'[k] = IF k = j THEN q ELSE jobs[k]
  BY <1>3
<1> QED
  BY <1>2, <1>4 DEF JobsAreKept

(* A step that writes no job keeps them all.                               *)
LEMMA SameJobs == jobs' = jobs /\ ~MarkDispatched => JobsAreKept
  BY DEF JobsAreKept

(* Every step but a request keeps the jobs.                                *)
LEMMA JobsStep ==
  ASSUME Typed, [Next]_vars
  PROVE  \/ \E s \in Sessions : RequestMock(s) \/ SendToGemini(s)
         \/ JobsAreKept
<1>2. ASSUME NEW j \in Jobs, NEW p, ApplyResult(j, p), ~MarkDispatched
      PROVE  JobsAreKept
  <2>1. CASE DispositionOf(j, p) \in {"APPLIED", "INVALID_REJECTED"}
    <3>1. BindingHolds(j)
      BY <2>1 DEF DispositionOf
    <3>2. \/ jobs' = [jobs EXCEPT ![j].status = "SUCCEEDED"]
          \/ jobs' = [jobs EXCEPT ![j].status = "FAILED"]
      BY <1>2, <2>1, Zenon DEF ApplyResult
    <3>3. QED
      BY <1>2, <3>1, <3>2, StatusWrite DEF BindingHolds
  <2>2. CASE DispositionOf(j, p) \in {"STALE_REJECTED", "DUPLICATE_IGNORED"}
    <3>1. jobs' = jobs
      BY <1>2, <2>2 DEF ApplyResult
    <3> QED
      BY SameJobs, <1>2, <3>1
  <2>3. QED
    BY <2>1, <2>2 DEF DispositionOf
<1>3. CASE MarkDispatched
  <2> DEFINE q == [jobs[ui.job] EXCEPT !.status = "IN_FLIGHT",
                                       !.dispatches = jobs[ui.job].dispatches + 1]
  <2>1. jobs \in Seq(Job) /\ ui.job \in Jobs /\ jobs[ui.job] \in Job
    BY <1>3, ElementOfSeq, LenProperties DEF MarkDispatched, Typed, TypeOK, ControlOK
  <2>2. jobs[ui.job].status \in Pending
    BY <1>3 DEF MarkDispatched, Pending
  <2>3. \A r \in Job : \A x, n :
          LET p == [r EXCEPT !.status = x, !.dispatches = n]
          IN /\ p.sess = r.sess /\ p.rev = r.rev /\ p.facts = r.facts /\ p.lane = r.lane
             /\ p.dispatches = n
    BY DEF Job
  <2>4. /\ q.sess = jobs[ui.job].sess /\ q.rev = jobs[ui.job].rev
        /\ q.facts = jobs[ui.job].facts /\ q.lane = jobs[ui.job].lane
        /\ q.dispatches = jobs[ui.job].dispatches + 1
    BY <2>1, <2>3
  <2>5. jobs' = [jobs EXCEPT ![ui.job] = q]
    BY <1>3, Zenon DEF MarkDispatched
  <2> HIDE DEF q
  <2>6. Jobs' = Jobs /\ \A k \in Jobs : jobs'[k] = IF k = ui.job THEN q ELSE jobs[k]
    BY <2>5
  <2> QED
    BY <1>3, <2>2, <2>4, <2>6 DEF JobsAreKept
<1>4. CASE FailJob
  <2>1. jobs' = [jobs EXCEPT ![ui.job].status = AfterFailure(jobs[ui.job].status, ui.arg)]
    BY <1>4, Zenon DEF FailJob
  <2>2. ui.job \in Jobs /\ ~MarkDispatched
    BY <1>4 DEF FailJob, MarkDispatched, Typed, ControlOK
  <2>3. jobs[ui.job].status \notin Pending =>
          AfterFailure(jobs[ui.job].status, ui.arg) = jobs[ui.job].status
    BY DEF AfterFailure
  <2> QED
    BY <2>1, <2>2, <2>3, StatusWrite
<1>5. CASE Restart
  <2>1. jobs \in Seq(Job) /\ \A j \in Jobs : jobs[j] \in Job
    BY ElementOfSeq, LenProperties DEF Typed, TypeOK
  <2>2. jobs' = [j \in Jobs |-> [jobs[j] EXCEPT !.status = Recovered(jobs[j].status)]]
    BY <1>5 DEF Restart
  <2>3. \A j \in Jobs : jobs[j].status \notin Pending =>
          Recovered(jobs[j].status) = jobs[j].status
    BY DEF Recovered, Pending
  <2>4. ~MarkDispatched
    BY <1>5 DEF Restart, MarkDispatched
  <2>5. /\ Jobs' = Jobs
        /\ \A j \in Jobs : jobs'[j] = [jobs[j] EXCEPT !.status = Recovered(jobs[j].status)]
    BY <2>2
  <2>6. \A j \in Jobs :
       /\ jobs'[j].sess = jobs[j].sess /\ jobs'[j].rev = jobs[j].rev
       /\ jobs'[j].facts = jobs[j].facts /\ jobs'[j].lane = jobs[j].lane
       /\ jobs'[j].dispatches = jobs[j].dispatches
       /\ jobs'[j].status = Recovered(jobs[j].status)
    <3> SUFFICES ASSUME NEW j \in Jobs
                 PROVE  /\ jobs'[j].sess = jobs[j].sess /\ jobs'[j].rev = jobs[j].rev
                        /\ jobs'[j].facts = jobs[j].facts /\ jobs'[j].lane = jobs[j].lane
                        /\ jobs'[j].dispatches = jobs[j].dispatches
                        /\ jobs'[j].status = Recovered(jobs[j].status)
      OBVIOUS
    <3> DEFINE x == Recovered(jobs[j].status)
               q == [jobs[j] EXCEPT !.status = x]
    <3>1. jobs'[j] = q
      BY <2>5
    <3> HIDE DEF x
    <3>2. /\ q.sess = jobs[j].sess /\ q.rev = jobs[j].rev /\ q.facts = jobs[j].facts
          /\ q.lane = jobs[j].lane /\ q.dispatches = jobs[j].dispatches /\ q.status = x
      BY <2>1 DEF Job
    <3> HIDE DEF q
    <3> QED
      BY <3>1, <3>2 DEF x
  <2>7. \A j \in Jobs : jobs[j].status \notin Pending => jobs'[j].status = jobs[j].status
    BY <2>3, <2>6
  <2>8. Jobs' = Jobs
    BY <2>2
  <2> QED
    BY <2>4, <2>6, <2>7, <2>8 DEF JobsAreKept
<1>6. CASE Command
  <2>1. ~MarkDispatched
    BY <1>6 DEF Command, NewMatch, AbortMatch, ConfirmFacts, UpdateMetadata, ApplySelection,
       RequestMock, SendToGemini, Redeliver, MarkDispatched
  <2>2. CASE \E j \in Jobs, p \in Payload : Redeliver(j, p)
    BY <1>2, <2>1, <2>2 DEF Redeliver
  <2>3. CASE NewMatch \/ \E s \in Sessions : AbortMatch(s) \/ ConfirmFacts(s) \/ UpdateMetadata(s)
                                             \/ ApplySelection(s)
    <3>1. jobs' = jobs
      BY <2>3 DEF NewMatch, AbortMatch, ConfirmFacts, UpdateMetadata, ApplySelection
    <3> QED
      BY SameJobs, <2>1, <3>1
  <2> QED
    BY <1>6, <2>2, <2>3 DEF Command
<1>7. CASE UiStep
  <2>1. CASE StartAttempt
    BY SameJobs, <2>1 DEF StartAttempt, MarkDispatched
  <2>2. CASE Apply
    BY <1>2, <2>2 DEF Apply, MarkDispatched, Typed, ControlOK
  <2> QED
    BY <1>3, <1>4, <1>7, <2>1, <2>2 DEF UiStep
<1>8. CASE Callback \/ WorkerStep \/ Crash \/ UNCHANGED vars
  <2>1. jobs' = jobs
    BY <1>8 DEF Callback, HandleSucceeded, HandleFailed, WorkerStep, WorkerSend,
              WorkerAnswer, Crash, vars, store
  <2> QED
    BY SameJobs, <1>3, <2>1
<1> QED
  BY <1>5, <1>6, <1>7, <1>8 DEF Next

(* The adapter is on its way with job j: announced, or with the worker.    *)
AdapterIsAt(j) ==
  \/ ui.step \in {"dispatch", "attempt"} /\ ui.job = j
  \/ worker.phase # "none" /\ worker.job = j

(* The first attempt of job j failed in a way that allows the second.      *)
FellBack(j) ==
  attempts[j][1].outcome = "FAILED" /\ attempts[j][1].reason \in FallbackEligible

(* What the audit holds at each step of a dispatch.                        *)
DispatchIsFirst ==
  ui.step = "dispatch" =>
    /\ ~adapter /\ ui.ordinal = 1
    /\ jobs[ui.job].lane = "GEMINI" /\ jobs[ui.job].dispatches = 0
    /\ attempts[ui.job] = <<>>

AttemptIsNext ==
  ui.step = "attempt" =>
    /\ worker.phase = "none"
    /\ jobs[ui.job].lane = "GEMINI" /\ jobs[ui.job].dispatches = 1
    /\ Len(attempts[ui.job]) = ui.ordinal - 1
    /\ ui.ordinal = 2 => FellBack(ui.job)

WorkerIsRecorded ==
  worker.phase # "none" =>
    /\ adapter
    /\ jobs[worker.job].lane = "GEMINI" /\ jobs[worker.job].dispatches = 1
    /\ Len(attempts[worker.job]) = worker.ordinal
    /\ attempts[worker.job][worker.ordinal].outcome = "STARTED"
    /\ worker.ordinal = 2 => FellBack(worker.job)
    /\ worker.phase = "started" =>
         \A i \in DOMAIN sends : sends[i] # <<worker.job, worker.ordinal>>

(* One dispatch at a time, of the newest production job.                   *)
AdapterIsAtNewest ==
  /\ worker.phase = "none" => worker.job = None
  /\ \A j, k \in Jobs : (AdapterIsAt(j) /\ jobs[k].lane = "GEMINI") => k <= j

(* Calls were made for existing jobs.                                      *)
SendsAreOfJobs == \A i \in DOMAIN sends : sends[i][1] \in Jobs

CallsInv ==
  /\ DispatchIsFirst /\ AttemptIsNext /\ WorkerIsRecorded /\ AdapterIsAtNewest
  /\ SendsAreOfJobs /\ EachSendIsAnnounced

USE DEF FellBack

(* Steps that leave the calls, the audit and the adapter alone.            *)
LEMMA CallsUnmoved ==
  ASSUME Typed, CallsInv, JobsAreKept, ~MarkDispatched,
         UNCHANGED <<attempts, sends, worker, adapter>>,
         ui' = ui \/ ui'.step \notin {"dispatch", "attempt"}
  PROVE  CallsInv'
<1>1. /\ Jobs' = Jobs
      /\ \A j \in Jobs : /\ jobs'[j].lane = jobs[j].lane
                         /\ jobs'[j].dispatches = jobs[j].dispatches
  BY DEF JobsAreKept
<1>2. DispatchIsFirst' /\ AttemptIsNext'
  <2>1. CASE ui' = ui
    BY <1>1, <2>1 DEF CallsInv, DispatchIsFirst, AttemptIsNext, Typed, ControlOK
  <2>2. CASE ui'.step \notin {"dispatch", "attempt"}
    BY <2>2 DEF DispatchIsFirst, AttemptIsNext
  <2> QED
    BY <2>1, <2>2
<1>3. WorkerIsRecorded'
  BY <1>1 DEF CallsInv, WorkerIsRecorded, Typed, ControlOK
<1>4. AdapterIsAtNewest'
  BY <1>1 DEF CallsInv, AdapterIsAtNewest, AdapterIsAt
<1>5. SendsAreOfJobs' /\ EachSendIsAnnounced'
  BY <1>1 DEF CallsInv, SendsAreOfJobs, EachSendIsAnnounced
<1> QED
  BY <1>2, <1>3, <1>4, <1>5 DEF CallsInv

(* A mock request makes no call.                                           *)
LEMMA CallsRequestMock ==
  ASSUME Typed, CallsInv, NEW s \in Sessions, RequestMock(s)
  PROVE  CallsInv'
<1>1. /\ InsertJob(s, "MOCK") /\ "MOCK" \in Lane /\ ui'.step = "apply"
      /\ UNCHANGED <<adapter, worker, sends>>
  BY DEF RequestMock, Lane
<1>2. /\ Jobs' = Jobs \cup {NewJob} /\ NewJob \notin Jobs /\ \A j \in Jobs : j < NewJob
      /\ \A j \in Jobs : jobs'[j] = jobs[j] /\ attempts'[j] = attempts[j]
      /\ jobs'[NewJob].lane = "MOCK"
  <2>1. jobs'[NewJob] = [sess |-> s, rev |-> sessions[s].rev, facts |-> sessions[s].facts,
                         lane |-> "MOCK", status |-> "QUEUED", dispatches |-> 0]
    BY <1>1, InsertedJob
  <2>2. Jobs' = Jobs \cup {NewJob} /\ NewJob \notin Jobs /\ \A j \in Jobs : j < NewJob
    BY <1>1, InsertedJob
  <2>3. \A j \in Jobs : jobs'[j] = jobs[j] /\ attempts'[j] = attempts[j]
    BY <1>1, InsertedJob
  <2>4. attempts'[NewJob] = <<>>
    BY <1>1, InsertedJob
  <2> QED
    BY <2>1, <2>2, <2>3, <2>4
<1>3. DispatchIsFirst' /\ AttemptIsNext'
  BY <1>1 DEF DispatchIsFirst, AttemptIsNext
<1>4. WorkerIsRecorded'
  BY <1>1, <1>2 DEF CallsInv, WorkerIsRecorded, Typed, ControlOK
<1>5. AdapterIsAtNewest'
  BY <1>1, <1>2 DEF CallsInv, AdapterIsAtNewest, AdapterIsAt, Typed, ControlOK
<1>6. SendsAreOfJobs' /\ EachSendIsAnnounced'
  BY <1>1, <1>2 DEF CallsInv, SendsAreOfJobs, EachSendIsAnnounced
<1> QED
  BY <1>3, <1>4, <1>5, <1>6 DEF CallsInv

(* A production request begins while no dispatch is in flight.             *)
LEMMA CallsSendToGemini ==
  ASSUME Typed, CallsInv, NEW s \in Sessions, SendToGemini(s)
  PROVE  CallsInv'
<1>1. /\ InsertJob(s, "GEMINI") /\ "GEMINI" \in Lane
      /\ ui' = [step |-> "dispatch", job |-> NewJob, ordinal |-> 1, arg |-> "NONE"]
      /\ UNCHANGED <<adapter, worker, sends>> /\ ~adapter
  BY DEF SendToGemini, Lane
<1>2. /\ Jobs' = Jobs \cup {NewJob} /\ NewJob \notin Jobs /\ \A j \in Jobs : j < NewJob
      /\ \A j \in Jobs : jobs'[j] = jobs[j] /\ attempts'[j] = attempts[j]
      /\ jobs'[NewJob].lane = "GEMINI" /\ jobs'[NewJob].dispatches = 0
      /\ attempts'[NewJob] = <<>>
  <2>1. jobs'[NewJob] = [sess |-> s, rev |-> sessions[s].rev, facts |-> sessions[s].facts,
                         lane |-> "GEMINI", status |-> "QUEUED", dispatches |-> 0]
    BY <1>1, InsertedJob
  <2>2. Jobs' = Jobs \cup {NewJob} /\ NewJob \notin Jobs /\ \A j \in Jobs : j < NewJob
    BY <1>1, InsertedJob
  <2>3. \A j \in Jobs : jobs'[j] = jobs[j] /\ attempts'[j] = attempts[j]
    BY <1>1, InsertedJob
  <2>4. attempts'[NewJob] = <<>>
    BY <1>1, InsertedJob
  <2> QED
    BY <2>1, <2>2, <2>3, <2>4
<1>3. worker.phase = "none"
  BY <1>1 DEF CallsInv, WorkerIsRecorded
<1>4. DispatchIsFirst' /\ AttemptIsNext'
  BY <1>1, <1>2 DEF DispatchIsFirst, AttemptIsNext
<1>5. WorkerIsRecorded'
  BY <1>1, <1>3 DEF WorkerIsRecorded
<1>6. AdapterIsAtNewest'
  <2>1. NewJob \in Nat
    BY <1>1, TypedInsertJob
  <2>2. \A k \in Jobs' : k <= NewJob
    BY <1>2, <2>1
  <2>3. \A j : AdapterIsAt(j)' => j = NewJob
    BY <1>1, <1>3 DEF AdapterIsAt
  <2>4. worker'.phase = "none" => worker'.job = None
    BY <1>1 DEF CallsInv, AdapterIsAtNewest
  <2> QED
    BY <2>2, <2>3, <2>4 DEF AdapterIsAtNewest
<1>7. SendsAreOfJobs' /\ EachSendIsAnnounced'
  BY <1>1, <1>2 DEF CallsInv, SendsAreOfJobs, EachSendIsAnnounced
<1> QED
  BY <1>4, <1>5, <1>6, <1>7 DEF CallsInv

(* mark_selection_advice_dispatched counts the dispatch of a job that had  *)
(* none.                                                                   *)
LEMMA CallsMarkDispatched ==
  ASSUME Typed, CallsInv, MarkDispatched, JobsAreKept
  PROVE  CallsInv'
<1>1. /\ ui.step = "dispatch" /\ ui.job \in Jobs
      /\ UNCHANGED <<attempts, adapter, worker, sends>>
  BY DEF MarkDispatched, Typed, ControlOK
<1>2. ui'.step = "attempt" /\ ui'.job = ui.job /\ ui'.ordinal = ui.ordinal
  BY DEF MarkDispatched, Typed, TypeOK
<1>3. Jobs' = Jobs /\ \A j \in Jobs :
        /\ jobs'[j].lane = jobs[j].lane
        /\ jobs'[j].dispatches = IF j = ui.job THEN jobs[j].dispatches + 1
                                               ELSE jobs[j].dispatches
  BY DEF JobsAreKept
<1>4. /\ ~adapter /\ ui.ordinal = 1 /\ jobs[ui.job].lane = "GEMINI"
      /\ jobs[ui.job].dispatches = 0 /\ attempts[ui.job] = <<>>
  BY <1>1 DEF CallsInv, DispatchIsFirst
<1>5. worker.phase = "none"
  BY <1>4 DEF CallsInv, WorkerIsRecorded
<1>6. DispatchIsFirst' /\ AttemptIsNext'
  BY <1>1, <1>2, <1>3, <1>4, <1>5 DEF DispatchIsFirst, AttemptIsNext
<1>7. WorkerIsRecorded'
  BY <1>1, <1>5 DEF WorkerIsRecorded
<1>8. AdapterIsAtNewest'
  BY <1>1, <1>2, <1>3, <1>5 DEF CallsInv, AdapterIsAtNewest, AdapterIsAt
<1>9. SendsAreOfJobs' /\ EachSendIsAnnounced'
  <2>1. \A i \in DOMAIN sends : sends[i][1] # ui.job
    BY <1>4 DEF CallsInv, EachSendIsAnnounced
  <2> QED
    BY <1>1, <1>3, <2>1 DEF CallsInv, SendsAreOfJobs, EachSendIsAnnounced
<1> QED
  BY <1>6, <1>7, <1>8, <1>9 DEF CallsInv

(* dispatch_attempt announces the attempt that comes next.                 *)
LEMMA CallsStartAttempt ==
  ASSUME Typed, CallsInv, StartAttempt
  PROVE  CallsInv'
<1> DEFINE started == [outcome |-> "STARTED", reason |-> "NONE"]
<1>1. /\ ui.step = "attempt" /\ ui.job \in Jobs /\ ui.ordinal \in 1..2
      /\ ui'.step = "idle" /\ adapter' = TRUE
      /\ worker'.phase = "started" /\ worker'.job = ui.job /\ worker'.ordinal = ui.ordinal
      /\ UNCHANGED <<jobs, sends>>
  BY DEF StartAttempt, Idle, Typed, ControlOK
<1>2. /\ worker.phase = "none" /\ jobs[ui.job].lane = "GEMINI"
      /\ jobs[ui.job].dispatches = 1 /\ Len(attempts[ui.job]) = ui.ordinal - 1
      /\ ui.ordinal = 2 => FellBack(ui.job)
  BY <1>1 DEF CallsInv, AttemptIsNext
<1>3. attempts \in Seq(Seq(Attempt)) /\ DOMAIN attempts = Jobs
      /\ attempts[ui.job] \in Seq(Attempt) /\ started \in Attempt
  BY <1>1, ElementOfSeq, LenProperties DEF Typed, TypeOK, Attempt
<1>4. attempts' = [attempts EXCEPT ![ui.job] = Append(attempts[ui.job], started)]
  BY DEF StartAttempt
<1> HIDE DEF started
<1>5. /\ \A j \in Jobs : j # ui.job => attempts'[j] = attempts[j]
      /\ attempts'[ui.job] = Append(attempts[ui.job], started)
  BY <1>1, <1>3, <1>4
<1>6. /\ Len(attempts'[ui.job]) = ui.ordinal
      /\ \A n \in 1..(ui.ordinal - 1) : attempts'[ui.job][n] = attempts[ui.job][n]
      /\ attempts'[ui.job][ui.ordinal] = started
  BY <1>1, <1>2, <1>3, <1>5, AppendProperties
<1>7. DispatchIsFirst' /\ AttemptIsNext'
  BY <1>1 DEF DispatchIsFirst, AttemptIsNext
<1>8. WorkerIsRecorded'
  <2>1. \A i \in DOMAIN sends : sends[i] # <<ui.job, ui.ordinal>>
    BY <1>1, <1>2 DEF CallsInv, EachSendIsAnnounced
  <2>2. started.outcome = "STARTED"
    BY DEF started
  <2>3. ui.ordinal = 2 => attempts'[ui.job][1] = attempts[ui.job][1]
    BY <1>6
  <2> QED
    BY <1>1, <1>2, <1>6, <2>1, <2>2, <2>3 DEF WorkerIsRecorded
<1>9. AdapterIsAtNewest'
  BY <1>1, <1>2 DEF CallsInv, AdapterIsAtNewest, AdapterIsAt
<1>10. SendsAreOfJobs' /\ EachSendIsAnnounced'
  <2>1. SendsAreOfJobs'
    BY <1>1 DEF CallsInv, SendsAreOfJobs
  <2>2. ASSUME NEW i \in DOMAIN sends
        PROVE  /\ sends[i][2] <= Len(attempts'[sends[i][1]])
               /\ sends[i][2] = 2 => FellBack(sends[i][1])'
    <3>1. /\ sends[i][1] \in Jobs /\ sends[i][2] <= Len(attempts[sends[i][1]])
          /\ sends[i][2] = 2 => FellBack(sends[i][1])
      BY DEF CallsInv, SendsAreOfJobs, EachSendIsAnnounced
    <3>2. CASE sends[i][1] = ui.job
      <4>1. sends[i][2] \in 1..2
        BY ElementOfSeq, LenProperties DEF Typed, TypeOK
      <4> QED
        BY <1>1, <1>2, <1>6, <3>1, <3>2, <4>1
    <3>3. CASE sends[i][1] # ui.job
      BY <1>1, <1>5, <3>1, <3>3
    <3> QED
      BY <3>2, <3>3
  <2>3. EachSendIsAnnounced'
    BY <1>1, <2>2 DEF CallsInv, EachSendIsAnnounced
  <2> QED
    BY <2>1, <2>3
<1> QED
  BY <1>7, <1>8, <1>9, <1>10 DEF CallsInv

(* The worker makes the call that was announced to it, once, and waits.    *)
LEMMA CallsWorker ==
  ASSUME Typed, CallsInv, WorkerSend \/ WorkerAnswer
  PROVE  CallsInv'
<1>1. /\ worker.phase # "none" /\ worker.job \in Jobs /\ worker.ordinal \in 1..2
      /\ worker'.phase \notin {"none", "started"}
      /\ worker'.job = worker.job /\ worker'.ordinal = worker.ordinal
      /\ UNCHANGED <<jobs, attempts, adapter, ui>>
  BY DEF WorkerSend, WorkerAnswer, store, Typed, TypeOK, ControlOK
<1>2. DispatchIsFirst' /\ AttemptIsNext'
  BY <1>1 DEF CallsInv, DispatchIsFirst, AttemptIsNext, WorkerIsRecorded
<1>3. WorkerIsRecorded'
  BY <1>1 DEF CallsInv, WorkerIsRecorded
<1>4. AdapterIsAtNewest'
  BY <1>1 DEF CallsInv, AdapterIsAtNewest, AdapterIsAt
<1>5. SendsAreOfJobs' /\ EachSendIsAnnounced'
  <2>1. CASE WorkerAnswer
    <3>1. sends' = sends
      BY <2>1 DEF WorkerAnswer
    <3> QED
      BY <1>1, <3>1 DEF CallsInv, SendsAreOfJobs, EachSendIsAnnounced
  <2>2. CASE WorkerSend
    <3> DEFINE call == <<worker.job, worker.ordinal>>
    <3>1. sends' = Append(sends, call) /\ worker.phase = "started"
      BY <2>2 DEF WorkerSend
    <3>2. sends \in Seq(Nat \X (1..2)) /\ call \in Nat \X (1..2) /\ Len(sends) \in Nat
          /\ DOMAIN sends = 1..Len(sends)
      BY <1>1, LenProperties DEF Typed, TypeOK
    <3>3. /\ \A i \in DOMAIN sends : sends[i] # call
          /\ jobs[worker.job].dispatches = 1
          /\ Len(attempts[worker.job]) = worker.ordinal
          /\ worker.ordinal = 2 => FellBack(worker.job)
      BY <1>1, <3>1 DEF CallsInv, WorkerIsRecorded
    <3>4. call[1] = worker.job /\ call[2] = worker.ordinal
      OBVIOUS
    <3> HIDE DEF call
    <3>5. /\ DOMAIN sends' = DOMAIN sends \cup {Len(sends) + 1}
          /\ \A i \in DOMAIN sends : sends'[i] = sends[i]
          /\ sends'[Len(sends) + 1] = call
      BY <3>1, <3>2, AppendIsSeq
    <3>6. SendsAreOfJobs'
      BY <1>1, <3>4, <3>5 DEF CallsInv, SendsAreOfJobs
    <3>7. EachSendIsAnnounced'
      BY <1>1, <3>3, <3>4, <3>5 DEF CallsInv, EachSendIsAnnounced
    <3> QED
      BY <3>6, <3>7
  <2> QED
    BY <2>1, <2>2
<1> QED
  BY <1>2, <1>3, <1>4, <1>5 DEF CallsInv

(* Recording the end of an attempt changes no other row of the audit.      *)
LEMMA FinishedAttempt ==
  ASSUME Typed, CallsInv, worker.phase # "none", NEW outcome \in {"SUCCEEDED", "FAILED"},
         NEW reason \in FailureReason \cup {"NONE"}, FinishAttempt(outcome, reason)
  PROVE  /\ \A j \in Jobs : j # worker.job => attempts'[j] = attempts[j]
         /\ Len(attempts'[worker.job]) = worker.ordinal
         /\ worker.ordinal = 2 => attempts'[worker.job][1] = attempts[worker.job][1]
         /\ attempts'[worker.job][worker.ordinal] = [outcome |-> outcome, reason |-> reason]
<1> DEFINE row == [outcome |-> outcome, reason |-> reason]
           new == [attempts[worker.job] EXCEPT ![worker.ordinal] = row]
<1>1. /\ worker.job \in Jobs /\ worker.ordinal \in 1..2 /\ DOMAIN attempts = Jobs
      /\ attempts \in Seq(Seq(Attempt)) /\ attempts[worker.job] \in Seq(Attempt)
      /\ row \in Attempt
  BY ElementOfSeq, LenProperties DEF Typed, TypeOK, ControlOK, Attempt
<1>2. Len(attempts[worker.job]) = worker.ordinal
  BY DEF CallsInv, WorkerIsRecorded
<1>3. attempts' = [attempts EXCEPT ![worker.job] = new]
  BY DEF FinishAttempt
<1> HIDE DEF row
<1>4. /\ Len(new) = worker.ordinal
      /\ DOMAIN attempts[worker.job] = 1..worker.ordinal
  BY <1>1, <1>2, ReplaceIsSeq, LenProperties
<1>5. new[worker.ordinal] = row /\ (worker.ordinal = 2 => new[1] = attempts[worker.job][1])
  BY <1>1, <1>4
<1> HIDE DEF new
<1>6. attempts'[worker.job] = new /\ \A j \in Jobs : j # worker.job => attempts'[j] = attempts[j]
  BY <1>1, <1>3
<1> QED
  BY <1>4, <1>5, <1>6 DEF row

(* The adapter's callbacks record the end of the call that was made.       *)
LEMMA CallsCallback ==
  ASSUME Typed, CallsInv, Callback
  PROVE  CallsInv'
<1>1. /\ worker.phase # "none" /\ worker.job \in Jobs /\ worker.ordinal \in 1..2
      /\ worker'.phase = "none" /\ worker'.job = None
      /\ UNCHANGED <<jobs, sends>> /\ ui.step = "idle"
  BY DEF Callback, HandleSucceeded, HandleFailed, NoWorker, Typed, ControlOK
<1>2. PICK outcome \in {"SUCCEEDED", "FAILED"}, reason \in FailureReason \cup {"NONE"} :
        /\ FinishAttempt(outcome, reason)
        /\ HandleFailed => outcome = "FAILED" /\ reason = worker.arg
  <2>1. CASE HandleSucceeded
    BY <2>1 DEF HandleSucceeded, HandleFailed
  <2>2. CASE HandleFailed
    BY <2>2 DEF HandleFailed, Typed, ControlOK
  <2> QED
    BY <2>1, <2>2 DEF Callback
<1>3. /\ \A j \in Jobs : j # worker.job => attempts'[j] = attempts[j]
      /\ Len(attempts'[worker.job]) = worker.ordinal
      /\ worker.ordinal = 2 => attempts'[worker.job][1] = attempts[worker.job][1]
      /\ attempts'[worker.job][worker.ordinal] = [outcome |-> outcome, reason |-> reason]
  BY <1>1, <1>2, FinishedAttempt
<1>4. /\ jobs[worker.job].lane = "GEMINI" /\ jobs[worker.job].dispatches = 1
      /\ Len(attempts[worker.job]) = worker.ordinal
      /\ worker.ordinal = 2 => FellBack(worker.job)
  BY <1>1 DEF CallsInv, WorkerIsRecorded
<1>5. /\ ui'.step \in {"apply", "attempt", "fail"} /\ ui'.job = worker.job
      /\ ui'.step = "attempt" => /\ HandleFailed /\ ui'.ordinal = 2 /\ worker.ordinal = 1
                                 /\ worker.arg \in FallbackEligible
  BY DEF Callback, HandleSucceeded, HandleFailed
<1>6. DispatchIsFirst' /\ AttemptIsNext'
  BY <1>1, <1>2, <1>3, <1>4, <1>5 DEF DispatchIsFirst, AttemptIsNext
<1>7. WorkerIsRecorded'
  BY <1>1 DEF WorkerIsRecorded
<1>8. AdapterIsAtNewest'
  BY <1>1, <1>5 DEF CallsInv, AdapterIsAtNewest, AdapterIsAt
<1>9. SendsAreOfJobs' /\ EachSendIsAnnounced'
  <2>1. SendsAreOfJobs'
    BY <1>1 DEF CallsInv, SendsAreOfJobs
  <2>2. ASSUME NEW i \in DOMAIN sends
        PROVE  /\ sends[i][2] <= Len(attempts'[sends[i][1]])
               /\ sends[i][2] = 2 => FellBack(sends[i][1])'
    <3>1. /\ sends[i][1] \in Jobs /\ sends[i][2] <= Len(attempts[sends[i][1]])
          /\ sends[i][2] = 2 => FellBack(sends[i][1])
      BY DEF CallsInv, SendsAreOfJobs, EachSendIsAnnounced
    <3>2. CASE sends[i][1] = worker.job
      BY <1>1, <1>3, <1>4, <3>1, <3>2
    <3>3. CASE sends[i][1] # worker.job
      BY <1>1, <1>3, <3>1, <3>3
    <3> QED
      BY <3>2, <3>3
  <2>3. EachSendIsAnnounced'
    BY <1>1, <2>2 DEF CallsInv, EachSendIsAnnounced
  <2> QED
    BY <2>1, <2>3
<1> QED
  BY <1>6, <1>7, <1>8, <1>9 DEF CallsInv

(* The process stops: the threads are gone, the audit stays.               *)
LEMMA CallsCrash ==
  ASSUME Typed, CallsInv, Crash
  PROVE  CallsInv'
<1>1. /\ ui'.step = "down" /\ worker'.phase = "none" /\ worker'.job = None
      /\ UNCHANGED <<jobs, attempts, sends>>
  BY DEF Crash, Idle, NoWorker, store
<1> QED
  BY <1>1 DEF CallsInv, DispatchIsFirst, AttemptIsNext, WorkerIsRecorded, AdapterIsAtNewest,
     AdapterIsAt, SendsAreOfJobs, EachSendIsAnnounced

(* Calls are accounted for by every step.                                  *)
LEMMA CallsNext == Typed /\ CallsInv /\ [Next]_vars => CallsInv'
<1> SUFFICES ASSUME Typed, CallsInv, [Next]_vars PROVE CallsInv'
  OBVIOUS
<1>1. CASE \E s \in Sessions : RequestMock(s) \/ SendToGemini(s)
  BY <1>1, CallsRequestMock, CallsSendToGemini
<1>2. CASE MarkDispatched
  <2>1. JobsAreKept
    BY <1>2, JobsStep DEF MarkDispatched, RequestMock, SendToGemini
  <2> QED
    BY <1>2, <2>1, CallsMarkDispatched
<1>3. CASE StartAttempt \/ WorkerStep \/ Callback \/ Crash
  BY <1>3, CallsStartAttempt, CallsWorker, CallsCallback, CallsCrash DEF WorkerStep
<1>4. CASE /\ JobsAreKept /\ ~MarkDispatched /\ UNCHANGED <<attempts, sends, worker, adapter>>
           /\ ui' = ui \/ ui'.step \notin {"dispatch", "attempt"}
  BY <1>4, CallsUnmoved
<1>5. ASSUME ~MarkDispatched, ~(\E s \in Sessions : RequestMock(s) \/ SendToGemini(s)),
             ~(StartAttempt \/ WorkerStep \/ Callback \/ Crash)
      PROVE  /\ UNCHANGED <<attempts, sends, worker, adapter>>
             /\ ui' = ui \/ ui'.step \notin {"dispatch", "attempt"}
  <2>1. CASE Command
    BY <1>5, <2>1 DEF Command, NewMatch, AbortMatch, ConfirmFacts, UpdateMetadata,
       ApplySelection, Redeliver
  <2>2. CASE Apply
    <3>1. ui' = Idle \/ ui' = [ui EXCEPT !.step = "reject", !.arg = "OTHER"]
      BY <2>2, Zenon DEF Apply
    <3>2. /\ Idle.step = "idle"
          /\ [ui EXCEPT !.step = "reject", !.arg = "OTHER"].step = "reject"
      BY DEF Idle, Typed, TypeOK
    <3>3. ui'.step \notin {"dispatch", "attempt"}
      BY <3>1, <3>2
    <3> QED
      BY <2>2, <3>3 DEF Apply
  <2>3. CASE FailJob \/ Restart
    BY <2>3 DEF FailJob, Restart, Idle
  <2>4. CASE UNCHANGED vars
    BY <2>4 DEF vars, store
  <2> QED
    BY <1>5, <2>1, <2>2, <2>3, <2>4 DEF Next, UiStep
<1> QED
  BY <1>1, <1>2, <1>3, <1>4, <1>5, JobsStep

(* The ledger has one row for each identity a production job was created   *)
(* for, and the row names such a job.                                      *)
LedgerIsOfJobs ==
  /\ \A r \in ledger : /\ r.job \in Jobs /\ jobs[r.job].lane = "GEMINI"
                       /\ IdentityOf(jobs[r.job]) = IdentityOf(r)
  /\ \A r, q \in ledger : IdentityOf(r) = IdentityOf(q) => r = q
  /\ \A j \in Jobs : jobs[j].lane = "GEMINI" =>
       \E r \in ledger : IdentityOf(r) = IdentityOf(jobs[j])

LedgerInv == LedgerIsOfJobs /\ OneAttemptPerIdentity

(* Only a reservation writes the ledger, and only the adapter's own job    *)
(* gets new rows in the audit.                                             *)
LEMMA AuditStep ==
  ASSUME Typed, CallsInv, [Next]_vars, ~(\E s \in Sessions : RequestMock(s) \/ SendToGemini(s))
  PROVE  ledger' = ledger /\ \A j \in Jobs : AdapterIsAt(j) \/ attempts'[j] = attempts[j]
<1>1. CASE attempts' = attempts /\ ledger' = ledger
  BY <1>1
<1>2. CASE StartAttempt
  <2>1. /\ AdapterIsAt(ui.job) /\ ledger' = ledger
        /\ attempts' = [attempts EXCEPT ![ui.job] =
                          Append(@, [outcome |-> "STARTED", reason |-> "NONE"])]
    BY <1>2 DEF StartAttempt, AdapterIsAt
  <2>2. DOMAIN attempts = Jobs
    BY LenProperties DEF Typed, TypeOK
  <2> QED
    BY <2>1, <2>2
<1>3. CASE Callback
  <2>1. worker.phase # "none" /\ ledger' = ledger
    BY <1>3 DEF Callback, HandleSucceeded, HandleFailed
  <2>2. \E outcome \in {"SUCCEEDED", "FAILED"}, reason \in FailureReason \cup {"NONE"} :
          FinishAttempt(outcome, reason)
    BY <1>3 DEF Callback, HandleSucceeded, HandleFailed, Typed, ControlOK
  <2>3. \A j \in Jobs : j # worker.job => attempts'[j] = attempts[j]
    BY <2>1, <2>2, FinishedAttempt
  <2> QED
    BY <2>1, <2>3 DEF AdapterIsAt
<1>4. CASE Command
  BY <1>1, <1>4 DEF Command, NewMatch, AbortMatch, ConfirmFacts, UpdateMetadata,
     ApplySelection, Redeliver
<1>5. CASE MarkDispatched \/ Apply \/ FailJob \/ WorkerStep \/ Crash \/ Restart \/ UNCHANGED vars
  BY <1>1, <1>5 DEF MarkDispatched, Apply, FailJob, WorkerStep, WorkerSend, WorkerAnswer, Crash,
     Restart, vars, store
<1> QED
  BY <1>2, <1>3, <1>4, <1>5 DEF Next, UiStep

(* A job that waits for a retry waits on, unless it is the adapter's.      *)
LEMMA WaitsForRetry ==
  ASSUME JobsAreKept, NEW j \in Jobs, EndedTransiently(j), attempts'[j] = attempts[j]
  PROVE  /\ jobs'[j].status \in {"FAILED", "TIMED_OUT"}
         /\ attempts'[j] # <<>>
         /\ attempts'[j][Len(attempts'[j])].outcome = "FAILED"
         /\ attempts'[j][Len(attempts'[j])].reason \in Transient
  BY DEF JobsAreKept, EndedTransiently, Pending

(* Steps that request nothing keep ledger and jobs together.               *)
LEMMA LedgerUnmoved ==
  ASSUME Typed, CallsInv, LedgerInv, JobsAreKept, ledger' = ledger,
         \A j \in Jobs : AdapterIsAt(j) \/ attempts'[j] = attempts[j]
  PROVE  LedgerInv'
<1>1. Jobs' = Jobs /\ \A j \in Jobs : IdentityOf(jobs'[j]) = IdentityOf(jobs[j])
                                      /\ jobs'[j].lane = jobs[j].lane
  BY DEF JobsAreKept, IdentityOf
<1>2. LedgerIsOfJobs'
  BY <1>1 DEF LedgerInv, LedgerIsOfJobs
<1>3. OneAttemptPerIdentity'
  <2> SUFFICES ASSUME NEW j \in Jobs, jobs[j].lane = "GEMINI"
               PROVE  \/ \E k \in Jobs :
                           /\ jobs'[k].lane = "GEMINI"
                           /\ IdentityOf(jobs'[k]) = IdentityOf(jobs'[j])
                           /\ k > j /\ EndedTransiently(j)'
                      \/ /\ \A k \in Jobs : (jobs'[k].lane = "GEMINI"
                              /\ IdentityOf(jobs'[k]) = IdentityOf(jobs'[j])) => k <= j
                         /\ \E r \in ledger : r.job = j /\ IdentityOf(r) = IdentityOf(jobs'[j])
    BY <1>1 DEF OneAttemptPerIdentity
  <2>1. CASE \E k \in Jobs : /\ jobs[k].lane = "GEMINI" /\ IdentityOf(jobs[k]) = IdentityOf(jobs[j])
                             /\ k > j /\ EndedTransiently(j)
    <3>1. PICK k \in Jobs : /\ jobs[k].lane = "GEMINI" /\ IdentityOf(jobs[k]) = IdentityOf(jobs[j])
                            /\ k > j /\ EndedTransiently(j)
      BY <2>1
    <3>2. ~AdapterIsAt(j)
      <4>1. j \in Nat /\ k \in Nat
        BY LenProperties DEF Typed, TypeOK
      <4> QED
        BY <3>1, <4>1 DEF CallsInv, AdapterIsAtNewest
    <3>3. EndedTransiently(j)'
      BY <3>1, <3>2, WaitsForRetry DEF EndedTransiently
    <3> QED
      BY <1>1, <3>1, <3>3
  <2>2. CASE /\ \A k \in Jobs : (jobs[k].lane = "GEMINI"
                              /\ IdentityOf(jobs[k]) = IdentityOf(jobs[j])) => k <= j
             /\ \E r \in ledger : r.job = j /\ IdentityOf(r) = IdentityOf(jobs[j])
    BY <1>1, <2>2
  <2> QED
    BY <2>1, <2>2 DEF LedgerInv, OneAttemptPerIdentity
<1> QED
  BY <1>2, <1>3 DEF LedgerInv

(* A mock request leaves ledger and production jobs alone.                 *)
LEMMA LedgerRequestMock ==
  ASSUME Typed, LedgerInv, NEW s \in Sessions, RequestMock(s)
  PROVE  LedgerInv'
<1>1. InsertJob(s, "MOCK") /\ "MOCK" \in Lane /\ ledger' = ledger
  BY DEF RequestMock, Lane
<1>2. Jobs' = Jobs \cup {NewJob}
  BY <1>1, InsertedJob
<1>3. \A j \in Jobs : jobs'[j] = jobs[j] /\ attempts'[j] = attempts[j]
  BY <1>1, InsertedJob
<1>4. jobs'[NewJob].lane = "MOCK"
  <2>1. jobs'[NewJob] = [sess |-> s, rev |-> sessions[s].rev, facts |-> sessions[s].facts,
                         lane |-> "MOCK", status |-> "QUEUED", dispatches |-> 0]
    BY <1>1, InsertedJob
  <2> QED
    BY <2>1
<1>5. LedgerIsOfJobs'
  BY <1>1, <1>2, <1>3, <1>4 DEF LedgerInv, LedgerIsOfJobs
<1>6. \A j \in Jobs : EndedTransiently(j) => EndedTransiently(j)'
  BY <1>3 DEF EndedTransiently
<1>7. OneAttemptPerIdentity'
  BY <1>1, <1>2, <1>3, <1>4, <1>6 DEF LedgerInv, OneAttemptPerIdentity
<1> QED
  BY <1>5, <1>7 DEF LedgerInv

(* A reservation is of an identity that has none, or replaces the one of a *)
(* job that may be sent again.                                             *)
LEMMA LedgerSendToGemini ==
  ASSUME Typed, LedgerInv, NEW s \in Sessions, SendToGemini(s)
  PROVE  LedgerInv'
<1>1. InsertJob(s, "GEMINI") /\ "GEMINI" \in Lane
  BY DEF SendToGemini, Lane
<1>2. Jobs' = Jobs \cup {NewJob} /\ NewJob \notin Jobs /\ \A j \in Jobs : j < NewJob
  BY <1>1, InsertedJob
<1>3. \A j \in Jobs : jobs'[j] = jobs[j] /\ attempts'[j] = attempts[j]
  BY <1>1, InsertedJob
<1>4. jobs'[NewJob].lane = "GEMINI" /\ IdentityOf(jobs'[NewJob]) = Identity(s)
  <2>1. jobs'[NewJob] = [sess |-> s, rev |-> sessions[s].rev, facts |-> sessions[s].facts,
                         lane |-> "GEMINI", status |-> "QUEUED", dispatches |-> 0]
    BY <1>1, InsertedJob
  <2> QED
    BY <2>1 DEF IdentityOf, Identity
<1>5. \A j \in Jobs : EndedTransiently(j) => EndedTransiently(j)'
  BY <1>3 DEF EndedTransiently
<1>6. PICK new : /\ new.job = NewJob /\ IdentityOf(new) = Identity(s)
                 /\ \/ ~Reserved(s) /\ ledger' = ledger \cup {new}
                    \/ \E r \in ledger : /\ IdentityOf(r) = Identity(s) /\ EndedTransiently(r.job)
                                         /\ ledger' = (ledger \ {r}) \cup {new}
  <2>1. CASE ReserveFirst(s)
    <3> DEFINE row == [sess |-> s, rev |-> sessions[s].rev, facts |-> sessions[s].facts,
                       job |-> NewJob]
    <3>1. row.job = NewJob /\ IdentityOf(row) = Identity(s)
      BY DEF IdentityOf, Identity
    <3>2. ~Reserved(s) /\ ledger' = ledger \cup {row}
      BY <2>1 DEF ReserveFirst
    <3> HIDE DEF row
    <3> QED
      BY <3>1, <3>2
  <2>2. CASE ReserveAgain(s)
    <3>1. PICK r \in ledger : /\ IdentityOf(r) = Identity(s) /\ MayResend(s, r.job)
                              /\ ledger' = (ledger \ {r}) \cup {[r EXCEPT !.job = NewJob]}
      BY <2>2 DEF ReserveAgain
    <3> DEFINE row == [r EXCEPT !.job = NewJob]
    <3>2. row.job = NewJob /\ IdentityOf(row) = IdentityOf(r)
      <4>1. r \in LedgerRow
        BY DEF Typed, TypeOK
      <4> QED
        BY <4>1 DEF LedgerRow, IdentityOf
    <3>3. ledger' = (ledger \ {r}) \cup {row}
      BY <3>1
    <3> HIDE DEF row
    <3> QED
      BY <3>1, <3>2, <3>3 DEF MayResend
  <2> QED
    BY <2>1, <2>2 DEF SendToGemini
<1>7. /\ new \in ledger'
      /\ \A r \in ledger' : r = new \/ (r \in ledger /\ IdentityOf(r) # Identity(s))
      /\ \A r \in ledger : IdentityOf(r) # Identity(s) => r \in ledger'
      /\ \A r \in ledger : IdentityOf(r) = Identity(s) => EndedTransiently(r.job)
  BY <1>6 DEF LedgerInv, LedgerIsOfJobs, Reserved
<1>8. LedgerIsOfJobs'
  BY <1>2, <1>3, <1>4, <1>6, <1>7 DEF LedgerInv, LedgerIsOfJobs
<1>9. OneAttemptPerIdentity'
  <2> SUFFICES ASSUME NEW j \in Jobs', jobs'[j].lane = "GEMINI"
               PROVE  \/ \E k \in Jobs' :
                           /\ jobs'[k].lane = "GEMINI"
                           /\ IdentityOf(jobs'[k]) = IdentityOf(jobs'[j])
                           /\ k > j /\ EndedTransiently(j)'
                      \/ /\ \A k \in Jobs' : (jobs'[k].lane = "GEMINI"
                              /\ IdentityOf(jobs'[k]) = IdentityOf(jobs'[j])) => k <= j
                         /\ \E r \in ledger' : r.job = j /\ IdentityOf(r) = IdentityOf(jobs'[j])
    BY DEF OneAttemptPerIdentity
  <2>1. CASE j = NewJob
    <3>1. \A k \in Jobs' : k <= NewJob
      <4>1. NewJob \in Nat /\ \A k \in Jobs : k \in Nat
        BY LenProperties DEF Typed, TypeOK
      <4> QED
        BY <1>2, <4>1
    <3> QED
      BY <1>4, <1>6, <1>7, <2>1, <3>1
  <2>2. CASE j \in Jobs
    <3>1. j < NewJob /\ jobs'[j] = jobs[j] /\ j \in Nat /\ NewJob \in Nat
      BY <1>2, <1>3, <2>2, LenProperties DEF Typed, TypeOK
    <3>2. CASE \E k \in Jobs : /\ jobs[k].lane = "GEMINI"
                              /\ IdentityOf(jobs[k]) = IdentityOf(jobs[j])
                               /\ k > j /\ EndedTransiently(j)
      BY <1>2, <1>3, <1>5, <2>2, <3>1, <3>2
    <3>3. CASE /\ \A k \in Jobs : (jobs[k].lane = "GEMINI"
                              /\ IdentityOf(jobs[k]) = IdentityOf(jobs[j])) => k <= j
               /\ \E r \in ledger : r.job = j /\ IdentityOf(r) = IdentityOf(jobs[j])
      <4>1. PICK r \in ledger : r.job = j /\ IdentityOf(r) = IdentityOf(jobs[j])
        BY <3>3
      <4>2. CASE IdentityOf(r) = Identity(s)
        <5>1. EndedTransiently(j)'
          BY <1>5, <1>7, <2>2, <4>1, <4>2
        <5> QED
          BY <1>2, <1>4, <3>1, <4>1, <4>2, <5>1
      <4>3. CASE IdentityOf(r) # Identity(s)
        <5>1. r \in ledger'
          BY <1>7, <4>3
        <5>2. \A k \in Jobs' : (jobs'[k].lane = "GEMINI"
                              /\ IdentityOf(jobs'[k]) = IdentityOf(jobs'[j])) => k <= j
          BY <1>2, <1>3, <1>4, <3>1, <3>3, <4>1, <4>3
        <5> QED
          BY <3>1, <4>1, <5>1, <5>2
      <4> QED
        BY <4>2, <4>3
    <3> QED
      BY <2>2, <3>1, <3>2, <3>3 DEF LedgerInv, OneAttemptPerIdentity
  <2> QED
    BY <1>2, <2>1, <2>2
<1> QED
  BY <1>8, <1>9 DEF LedgerInv

(* The calls made and the identities attempted are accounted for.          *)
LEMMA AccountsInvariant == Spec => [](CallsInv /\ LedgerInv)
<1>1. Init => CallsInv /\ LedgerInv
  BY DEF Init, CallsInv, DispatchIsFirst, AttemptIsNext, WorkerIsRecorded, AdapterIsAtNewest,
     AdapterIsAt, SendsAreOfJobs, EachSendIsAnnounced, LedgerInv, LedgerIsOfJobs,
     OneAttemptPerIdentity, Idle, NoWorker
<1>2. Typed /\ CallsInv /\ LedgerInv /\ [Next]_vars => (CallsInv /\ LedgerInv)'
  <2> SUFFICES ASSUME Typed, CallsInv, LedgerInv, [Next]_vars PROVE (CallsInv /\ LedgerInv)'
    OBVIOUS
  <2>1. CallsInv'
    BY CallsNext
  <2>2. CASE \E s \in Sessions : RequestMock(s) \/ SendToGemini(s)
    BY <2>1, <2>2, LedgerRequestMock, LedgerSendToGemini
  <2>3. CASE ~(\E s \in Sessions : RequestMock(s) \/ SendToGemini(s))
    BY <2>1, <2>3, JobsStep, AuditStep, LedgerUnmoved
  <2> QED
    BY <2>2, <2>3
<1> QED
  BY <1>1, <1>2, TypedInvariant, PTL DEF Spec

(* Whatever fails, is confirmed again, redelivered or restarted: no call   *)
(* is made that was not announced in the database, none twice, the second  *)
(* of a job only after a recorded quota or rate failure; and no identity   *)
(* is attempted again unless its attempts before ended in a transient      *)
(* failure (reserve_gemini_selection_attempt, dispatch_attempt,            *)
(* mark_selection_advice_dispatched).                                      *)
THEOREM SendsAreAlwaysAccounted == Spec => []SendsAreAccounted
<1>1. CallsInv /\ LedgerInv => SendsAreAccounted
  BY DEF CallsInv, LedgerInv, SendsAreAccounted
<1> QED
  BY <1>1, AccountsInvariant, PTL

---------------------------------------------------------------------------
(* Custody.                                                                *)

(* The mock adapter's answer comes while its request is still the match's. *)
MockIsBound ==
  (ui.step = "apply" /\ jobs[ui.job].lane = "MOCK") => DispositionOf(ui.job, ui.arg) = "APPLIED"

(* A mock request is answered in the next transaction of the same thread.  *)
LEMMA MockIsAnswered ==
  ASSUME Typed, NEW s \in Sessions, RequestMock(s)
  PROVE  MockIsBound'
<1>1. /\ InsertJob(s, "MOCK") /\ "MOCK" \in Lane /\ sessions' = sessions
      /\ ui'.job = NewJob /\ ui'.arg = "LEGAL"
      /\ sessions[s].active /\ sessions[s].state = "SELECTION_OPEN"
  BY DEF RequestMock, Lane
<1>2. Jobs' = Jobs \cup {NewJob} /\ NewJob \notin Jobs /\ \A j \in Jobs : j < NewJob
  BY <1>1, InsertedJob
<1>3. results'[NewJob] = <<>>
  BY <1>1, InsertedJob
<1>4. /\ jobs'[NewJob].sess = s /\ jobs'[NewJob].rev = sessions[s].rev
      /\ jobs'[NewJob].facts = sessions[s].facts /\ jobs'[NewJob].status = "QUEUED"
  <2>1. jobs'[NewJob] = [sess |-> s, rev |-> sessions[s].rev, facts |-> sessions[s].facts,
                         lane |-> "MOCK", status |-> "QUEUED", dispatches |-> 0]
    BY <1>1, InsertedJob
  <2> QED
    BY <2>1
<1>5. \A k \in Jobs' : k <= NewJob
  <2>1. NewJob \in Nat /\ \A k \in Jobs : k \in Nat
    BY LenProperties DEF Typed, TypeOK
  <2> QED
    BY <1>2, <2>1
<1> DEFINE n == NewJob
<1>6. /\ n \in Jobs' /\ results'[n] = <<>> /\ jobs'[n].sess = s
      /\ jobs'[n].rev = sessions'[s].rev /\ jobs'[n].facts = sessions'[s].facts
      /\ jobs'[n].status = "QUEUED" /\ sessions'[s].active
      /\ sessions'[s].state = "SELECTION_OPEN" /\ \A k \in Jobs' : k <= n
      /\ ui'.job = n /\ ui'.arg = "LEGAL"
  BY <1>1, <1>2, <1>3, <1>4, <1>5
<1> HIDE DEF n
<1> QED
  BY <1>6 DEF MockIsBound, DispositionOf, WasApplied, BindingHolds, IsLatest, Pending

(* Somebody keeps every open request, and the next one up.                 *)
LEMMA CustodyNext ==
  Typed /\ CallsInv /\ PendingIsOwned /\ MockIsBound /\ [Next]_vars
    => (PendingIsOwned /\ MockIsBound)'
<1> SUFFICES ASSUME Typed, CallsInv, PendingIsOwned, MockIsBound, [Next]_vars
             PROVE  (PendingIsOwned /\ MockIsBound)'
  OBVIOUS
<1>1. CASE JobsAreKept /\ ui' = ui /\ UNCHANGED <<worker, adapter>> /\ ui.step = "idle"
  BY <1>1 DEF PendingIsOwned, MockIsBound, JobsAreKept
<1>2. ASSUME NEW s \in Sessions, RequestMock(s) \/ SendToGemini(s), NEW lane \in Lane,
             InsertJob(s, lane)
      PROVE  (PendingIsOwned /\ MockIsBound)'
  <2>1. /\ ui.step = "idle" /\ UNCHANGED <<worker, adapter>> /\ ui'.job = NewJob
        /\ ui'.step \in {"dispatch", "apply"}
    BY <1>2 DEF RequestMock, SendToGemini
  <2>2. Jobs' = Jobs \cup {NewJob} /\ \A j \in Jobs : jobs'[j] = jobs[j]
    BY <1>2, InsertedJob
  <2>3. PendingIsOwned'
    BY <2>1, <2>2 DEF PendingIsOwned
  <2>4. MockIsBound'
    BY <1>2, MockIsAnswered DEF SendToGemini, MockIsBound
  <2> QED
    BY <2>3, <2>4
<1>3. CASE MarkDispatched
  <2>1. /\ ui.step = "dispatch" /\ ui'.step = "attempt" /\ ui'.job = ui.job
        /\ UNCHANGED <<worker, adapter>>
    BY <1>3 DEF MarkDispatched, Typed, TypeOK
  <2>2. JobsAreKept
    BY <1>3, JobsStep DEF MarkDispatched, RequestMock, SendToGemini
  <2> QED
    BY <2>1, <2>2 DEF PendingIsOwned, MockIsBound, JobsAreKept
<1>4. CASE StartAttempt
  <2>1. /\ ui.step = "attempt" /\ ui'.step = "idle" /\ adapter' /\ worker'.job = ui.job
        /\ jobs' = jobs
    BY <1>4 DEF StartAttempt, Idle
  <2>2. \A j \in Jobs : worker.job # j
    <3>1. worker.job = None
      BY <2>1 DEF CallsInv, AttemptIsNext, AdapterIsAtNewest
    <3>2. \A j \in Jobs : j # None
      BY LenProperties DEF Typed, TypeOK
    <3> QED
      BY <3>1, <3>2
  <2> QED
    BY <2>1, <2>2 DEF PendingIsOwned, MockIsBound
<1>5. CASE WorkerStep
  <2>1. worker'.job = worker.job /\ UNCHANGED <<ui, adapter, jobs, sessions, results>>
    BY <1>5 DEF WorkerStep, WorkerSend, WorkerAnswer, store, Typed, TypeOK
  <2> QED
    BY <2>1 DEF PendingIsOwned, MockIsBound, DispositionOf, WasApplied, BindingHolds, IsLatest
<1>6. CASE Callback
  <2>1. /\ ui.step = "idle" /\ ui'.step \in {"apply", "attempt", "fail"} /\ ui'.job = worker.job
        /\ worker.phase # "none" /\ jobs' = jobs
    BY <1>6 DEF Callback, HandleSucceeded, HandleFailed
  <2>2. jobs[worker.job].lane = "GEMINI"
    BY <2>1 DEF CallsInv, WorkerIsRecorded
  <2> QED
    BY <2>1, <2>2 DEF PendingIsOwned, MockIsBound
<1>7. CASE Apply
  <2>1. /\ ui.step = "apply" /\ ui.job \in Jobs /\ ApplyResult(ui.job, ui.arg)
        /\ UNCHANGED <<worker, adapter>>
    BY <1>7 DEF Apply, Typed, ControlOK
  <2>2. JobsAreKept
    BY <1>7, JobsStep DEF Apply, RequestMock, SendToGemini
  <2>3. DispositionOf(ui.job, ui.arg) = "APPLIED" => jobs'[ui.job].status \notin Pending
    <3> SUFFICES ASSUME DispositionOf(ui.job, ui.arg) = "APPLIED"
                 PROVE  jobs'[ui.job].status \notin Pending
      OBVIOUS
    <3>1. jobs' = [jobs EXCEPT ![ui.job].status = "SUCCEEDED"]
      BY <2>1, Zenon DEF ApplyResult
    <3>2. jobs[ui.job] \in Job
      BY <2>1, ElementOfSeq, LenProperties DEF Typed, TypeOK
    <3>3. [jobs[ui.job] EXCEPT !.status = "SUCCEEDED"].status = "SUCCEEDED"
      BY <3>2 DEF Job
    <3>4. jobs'[ui.job] = [jobs[ui.job] EXCEPT !.status = "SUCCEEDED"]
      BY <2>1, <3>1
    <3> QED
      BY <3>3, <3>4 DEF Pending
  <2>4. \/ ui'.step = "idle" /\ DispositionOf(ui.job, ui.arg) = "APPLIED"
        \/ ui'.step = "reject" /\ ui'.job = ui.job
    <3>1. CASE jobs[ui.job].lane = "MOCK" \/ DispositionOf(ui.job, ui.arg) = "APPLIED"
      <4>1. ui' = Idle
        BY <1>7, <3>1, Zenon DEF Apply
      <4> QED
        BY <2>1, <3>1, <4>1 DEF MockIsBound, Idle
    <3>2. CASE ~(jobs[ui.job].lane = "MOCK" \/ DispositionOf(ui.job, ui.arg) = "APPLIED")
      <4>1. ui' = [ui EXCEPT !.step = "reject", !.arg = "OTHER"]
        BY <1>7, <3>2, Zenon DEF Apply
      <4> QED
        BY <4>1 DEF Typed, TypeOK
    <3> QED
      BY <3>1, <3>2
  <2>5. PendingIsOwned'
    BY <2>1, <2>2, <2>3, <2>4 DEF PendingIsOwned, JobsAreKept
  <2> QED
    BY <2>4, <2>5 DEF MockIsBound
<1>8. CASE FailJob
  <2>1. /\ ui.step \in {"fail", "reject"} /\ ui.job \in Jobs /\ ui'.step = "idle"
        /\ UNCHANGED <<worker, adapter>>
        /\ jobs' = [jobs EXCEPT ![ui.job].status = AfterFailure(jobs[ui.job].status, ui.arg)]
    BY <1>8 DEF FailJob, Idle, Typed, ControlOK
  <2>2. JobsAreKept
    BY <1>8, JobsStep DEF FailJob, RequestMock, SendToGemini
  <2>3. jobs'[ui.job].status \notin Pending
    <3>1. jobs[ui.job] \in Job
      BY <2>1, ElementOfSeq, LenProperties DEF Typed, TypeOK
    <3>2. AfterFailure(jobs[ui.job].status, ui.arg) \notin Pending
      BY DEF AfterFailure, Pending
    <3>3. jobs'[ui.job].status = AfterFailure(jobs[ui.job].status, ui.arg)
      BY <2>1, <3>1 DEF Job
    <3> QED
      BY <3>2, <3>3
  <2> QED
    BY <2>1, <2>2, <2>3 DEF PendingIsOwned, MockIsBound, JobsAreKept
<1>9. CASE Crash
  BY <1>9 DEF Crash, Idle, PendingIsOwned, MockIsBound
<1>10. CASE Restart
  <2>1. \A j \in Jobs' : jobs'[j].status \notin Pending
    BY <1>10, RestartRecovers DEF Recovered, Pending
  <2> QED
    BY <1>10, <2>1 DEF Restart, Idle, PendingIsOwned, MockIsBound
<1>11. CASE UNCHANGED vars
  BY <1>11 DEF vars, store, PendingIsOwned, MockIsBound, DispositionOf, WasApplied, BindingHolds,
     IsLatest
<1>12. CASE Command
  <2>1. CASE \E s \in Sessions : RequestMock(s) \/ SendToGemini(s)
    BY <1>2, <2>1 DEF RequestMock, SendToGemini, Lane
  <2>2. CASE ~(\E s \in Sessions : RequestMock(s) \/ SendToGemini(s))
    <3>1. JobsAreKept
      BY <2>2, JobsStep
    <3>2. ui' = ui /\ UNCHANGED <<worker, adapter>> /\ ui.step = "idle"
      BY <1>12, <2>2 DEF Command, NewMatch, AbortMatch, ConfirmFacts, UpdateMetadata,
         ApplySelection, Redeliver
    <3> QED
      BY <1>1, <3>1, <3>2
  <2> QED
    BY <2>1, <2>2
<1> QED
  BY <1>3, <1>4, <1>5, <1>6, <1>7, <1>8, <1>9, <1>10, <1>11, <1>12 DEF Next, UiStep

(* No request waits for nobody: an open one is in the hands of the UI      *)
(* thread or of the dispatch in flight, whatever was redelivered, aborted  *)
(* or restarted, so no match is left unable to ask (GeminiAdviceAdapter,   *)
(* request_selection_advice).                                              *)
THEOREM PendingIsAlwaysOwned == Spec => []PendingIsOwned
<1>1. Init => PendingIsOwned /\ MockIsBound
  BY DEF Init, PendingIsOwned, MockIsBound, Idle
<1> QED
  BY <1>1, CustodyNext, AccountsInvariant, TypedInvariant, PTL DEF Spec

---------------------------------------------------------------------------
(* The contract.                                                           *)

(* The state of SelectionContract that a state of the application stands   *)
(* for.                                                                    *)
Shown(s) == [open |-> s.active, phase |-> PhaseOf(s), facts |-> s.facts]
Matches == [i \in Sessions |-> Shown(sessions[i])]
Question(j) == <<jobs[j].sess, jobs[j].facts>>
Asked == {Question(j) : j \in {k \in Jobs : jobs[k].status \in Pending}}
Lost == {jobs[j].sess : j \in {k \in Jobs : jobs[k].status = "DELIVERY_UNKNOWN"}}

(* Jobs are requested for matches, and no match is decided before it has   *)
(* advice.                                                                 *)
JobsHaveMatches == \A j \in Jobs : jobs[j].sess \in Sessions

AppliedIsLate ==
  \A s \in Sessions : sessions[s].state \in {"SELECTION_OPEN", "SELECTION_ADVICE_READY"} =>
                        sessions[s].applied = None

(* A command on one match shows in that match alone.                       *)
LEMMA ShownAfter ==
  ASSUME Typed, NEW s \in Sessions, NEW r, sessions' = [sessions EXCEPT ![s] = r]
  PROVE  Matches' = [Matches EXCEPT ![s] = Shown(r)]
<1>1. Sessions' = Sessions /\ \A i \in Sessions : sessions'[i] = IF i = s THEN r ELSE sessions[i]
  OBVIOUS
<1> QED
  BY <1>1 DEF Matches

(* What a write of one part shows.                                         *)
LEMMA PartShows ==
  ASSUME Typed, NEW s \in Sessions, NEW r, sessions' = [sessions EXCEPT ![s] = r]
  PROVE  /\ (PhaseOf(sessions[s]) = PhaseOf(r) /\ sessions[s].facts = r.facts) =>
              Matches' = [Matches EXCEPT ![s].open = r.active]
         /\ (sessions[s].active = r.active /\ sessions[s].facts = r.facts) =>
              Matches' = [Matches EXCEPT ![s].phase = PhaseOf(r)]
         /\ (sessions[s].active = r.active /\ PhaseOf(sessions[s]) = PhaseOf(r)) =>
              Matches' = [Matches EXCEPT ![s].facts = r.facts]
<1> DEFINE b == r.active
           p == PhaseOf(r)
           f == r.facts
           ob == sessions[s].active
           op == PhaseOf(sessions[s])
           of == sessions[s].facts
<1>1. Matches[s] = [open |-> ob, phase |-> op, facts |-> of]
  BY DEF Matches, Shown
<1>2. Matches' = [Matches EXCEPT ![s] = [open |-> b, phase |-> p, facts |-> f]]
  BY ShownAfter DEF Shown
<1> HIDE DEF ob, op, of, b, p, f
<1>3. /\ [[open |-> ob, phase |-> op, facts |-> of] EXCEPT !.open = b]
           = [open |-> b, phase |-> op, facts |-> of]
      /\ [[open |-> ob, phase |-> op, facts |-> of] EXCEPT !.phase = p]
           = [open |-> ob, phase |-> p, facts |-> of]
      /\ [[open |-> ob, phase |-> op, facts |-> of] EXCEPT !.facts = f]
           = [open |-> ob, phase |-> op, facts |-> f]
  OBVIOUS
<1>4. /\ [Matches EXCEPT ![s].open = b]
           = [Matches EXCEPT ![s] = [open |-> b, phase |-> op, facts |-> of]]
      /\ [Matches EXCEPT ![s].phase = p]
           = [Matches EXCEPT ![s] = [open |-> ob, phase |-> p, facts |-> of]]
      /\ [Matches EXCEPT ![s].facts = f]
           = [Matches EXCEPT ![s] = [open |-> ob, phase |-> op, facts |-> f]]
  BY <1>1, <1>3, Zenon
<1> QED
  BY <1>2, <1>4, Zenon DEF ob, op, of, b, p, f

(* abort_match closes a match.                                             *)
LEMMA AbortCloses ==
  ASSUME Typed, NEW s \in Sessions, AbortMatch(s)
  PROVE  Contract!Close(s)
<1> DEFINE old == sessions[s]
           rev == old.rev + 1
           r == [old EXCEPT !.state = "ABORTED", !.active = FALSE, !.rev = rev]
<1>1. old \in Session /\ old.active
  BY ElementOfSeq, LenProperties DEF Typed, TypeOK, AbortMatch
<1>2. sessions' = [sessions EXCEPT ![s] = r]
  BY Zenon DEF AbortMatch
<1>3. r.active = FALSE /\ r.advice = old.advice /\ r.applied = old.applied /\ r.facts = old.facts
  BY <1>1 DEF Session
<1> HIDE DEF r
<1>4. PhaseOf(r) = PhaseOf(old)
  BY <1>3 DEF PhaseOf
<1>5. Matches' = [Matches EXCEPT ![s].open = r.active]
  BY <1>2, <1>3, <1>4, PartShows, Zenon
<1>6. Matches' = [Matches EXCEPT ![s].open = FALSE]
  BY <1>3, <1>5, Zenon
<1>7. UNCHANGED <<facts, jobs>>
  BY DEF AbortMatch
<1>8. facts' = facts /\ Asked' = Asked /\ Lost' = Lost
  BY <1>7 DEF Asked, Lost, Question
<1> QED
  BY <1>1, <1>6, <1>8 DEF Contract!Close, Contract!Open, Matches, Asked, Lost, Shown, Question

(* new_match opens one.                                                    *)
LEMMA NewMatchCreates == Typed /\ NewMatch => Contract!Create
<1> SUFFICES ASSUME Typed, NewMatch PROVE Contract!Create
  OBVIOUS
<1> DEFINE new == [state |-> "SELECTION_OPEN", active |-> TRUE, rev |-> 1, meta |-> 0,
                   facts |-> None, advice |-> None, applied |-> None]
           card == [open |-> TRUE, phase |-> "undecided", facts |-> 0]
           n == Len(sessions) + 1
<1>1. sessions \in Seq(Session) /\ Len(sessions) \in Nat /\ Sessions = 1..Len(sessions)
  BY LenProperties DEF Typed, TypeOK
<1>2. new \in Session
  BY DEF Session, SelectionState
<1>3. Shown(new) = card
  BY DEF Shown, PhaseOf
<1>4. sessions' = Append(sessions, new) /\ UNCHANGED <<facts, jobs>>
  BY DEF NewMatch
<1> HIDE DEF new, card
<1>5. /\ Sessions' = Sessions \cup {n} /\ n \notin Sessions
      /\ \A s \in Sessions : sessions'[s] = sessions[s]
      /\ sessions'[n] = new
  BY <1>1, <1>2, <1>4, AppendIsSeq
<1>6. Matches' = Append(Matches, card)
  <2> DEFINE S == {Shown(sessions[s]) : s \in Sessions} \cup {card}
  <2>1. Matches \in Seq(S) /\ Len(Matches) = Len(sessions)
    <3>1. Matches \in [1..Len(sessions) -> S]
      BY <1>1 DEF Matches
    <3>2. Matches \in Seq(S)
      BY <1>1, <3>1
    <3>3. DOMAIN Matches = 1..Len(Matches) /\ Len(Matches) \in Nat
      BY <3>2, LenProperties
    <3> QED
      BY <1>1, <3>1, <3>2, <3>3
  <2>2. card \in S
    OBVIOUS
  <2> HIDE DEF S
  <2>3. /\ Append(Matches, card) \in Seq(S)
        /\ DOMAIN Append(Matches, card) = Sessions \cup {n}
        /\ \A i \in Sessions : Append(Matches, card)[i] = Matches[i]
        /\ Append(Matches, card)[n] = card
    <3>1. DOMAIN Matches = Sessions
      BY DEF Matches
    <3> QED
      BY <2>1, <2>2, <3>1, AppendIsSeq
  <2>4. Append(Matches, card) = [i \in Sessions \cup {n} |-> Append(Matches, card)[i]]
    <3>1. Append(Matches, card) \in [1..Len(Append(Matches, card)) -> S]
      BY <2>3, LenProperties
    <3> QED
      BY <2>3, <3>1
  <2>5. \A i \in Sessions \cup {n} : Shown(sessions'[i]) = Append(Matches, card)[i]
    BY <1>3, <1>5, <2>3 DEF Matches
  <2>6. Matches' = [i \in Sessions \cup {n} |-> Shown(sessions'[i])]
    BY <1>5 DEF Matches
  <2> QED
    BY <2>4, <2>5, <2>6
<1>7. \A s \in Sessions : ~sessions[s].active
  BY DEF NewMatch
<1>8. facts' = facts /\ Asked' = Asked /\ Lost' = Lost
  BY <1>4 DEF Asked, Lost, Question
<1> QED
  BY <1>6, <1>7, <1>8 DEF Contract!Create, Matches, Asked, Lost, Shown, Question, card

(* confirm_selection_facts confirms facts of an undecided match.           *)
LEMMA ConfirmFactsConfirms ==
  ASSUME Typed, AdviceMatchesFacts, NEW s \in Sessions, ConfirmFacts(s)
  PROVE  Contract!Confirm(s)
<1> DEFINE old == sessions[s]
           rev == old.rev + 1
           f == facts + 1
           r == [old EXCEPT !.facts = f, !.advice = None, !.rev = rev]
<1>1. old \in Session /\ old.active /\ old.advice = None /\ old.applied = None
  BY ElementOfSeq, LenProperties DEF Typed, TypeOK, ConfirmFacts, AdviceMatchesFacts
<1>2. sessions' = [sessions EXCEPT ![s] = r] /\ facts' = f /\ jobs' = jobs
  BY Zenon DEF ConfirmFacts
<1>3. r.active = old.active /\ r.advice = None /\ r.applied = None /\ r.facts = f
  BY <1>1 DEF Session
<1> HIDE DEF r, f
<1>4. PhaseOf(r) = "undecided" /\ PhaseOf(old) = "undecided"
  BY <1>1, <1>3 DEF PhaseOf
<1>5. Matches' = [Matches EXCEPT ![s].facts = r.facts]
  <2>1. sessions[s].active = r.active /\ PhaseOf(sessions[s]) = PhaseOf(r)
    BY <1>3, <1>4
  <2> QED
    BY <1>2, <2>1, PartShows, Zenon
<1>6. Matches' = [Matches EXCEPT ![s].facts = facts']
  BY <1>2, <1>3, <1>5, Zenon
<1>7. facts' = facts + 1 /\ Asked' = Asked /\ Lost' = Lost
  BY <1>2 DEF Asked, Lost, Question, f
<1> QED
  BY <1>1, <1>4, <1>6, <1>7
     DEF Contract!Confirm, Contract!Open, Matches, Asked, Lost, Shown, Question

(* Metadata show nowhere.                                                  *)
LEMMA MetadataIsNotShown ==
  ASSUME Typed, NEW s \in Sessions, UpdateMetadata(s)
  PROVE  UNCHANGED <<facts, Matches, Asked, Lost>>
<1> DEFINE old == sessions[s]
           n == old.meta + 1
           r == [old EXCEPT !.meta = n]
<1>1. old \in Session
  BY ElementOfSeq, LenProperties DEF Typed, TypeOK
<1>2. sessions' = [sessions EXCEPT ![s] = r] /\ UNCHANGED <<facts, jobs>>
  BY Zenon DEF UpdateMetadata
<1>3. /\ r.active = old.active /\ r.advice = old.advice /\ r.applied = old.applied
      /\ r.facts = old.facts
  BY <1>1 DEF Session
<1> HIDE DEF r
<1>4. Shown(r) = Shown(sessions[s])
  BY <1>3 DEF Shown, PhaseOf
<1>5. Sessions' = Sessions /\ \A i \in Sessions : Shown(sessions'[i]) = Shown(sessions[i])
  BY <1>2, <1>4
<1> QED
  BY <1>2, <1>5 DEF Matches, Asked, Lost, Question

(* apply_selection decides an advised match.                               *)
LEMMA ApplySelectionDecides ==
  ASSUME Typed, AppliedIsLate, NEW s \in Sessions, ApplySelection(s)
  PROVE  Contract!Decide(s)
<1> DEFINE old == sessions[s]
           rev == old.rev + 1
           r == [old EXCEPT !.applied = old.advice, !.state = "BATTLE_READY", !.rev = rev]
<1>1. old \in Session /\ old.active /\ old.advice # None /\ old.applied = None
  BY ElementOfSeq, LenProperties DEF Typed, TypeOK, ApplySelection, AppliedIsLate
<1>2. sessions' = [sessions EXCEPT ![s] = r] /\ UNCHANGED <<facts, jobs>>
  BY Zenon DEF ApplySelection
<1>3. r.active = old.active /\ r.applied = old.advice /\ r.facts = old.facts
  BY <1>1 DEF Session
<1> HIDE DEF r
<1>4. PhaseOf(r) = "decided" /\ PhaseOf(old) = "advised"
  BY <1>1, <1>3 DEF PhaseOf
<1>5. Matches' = [Matches EXCEPT ![s].phase = PhaseOf(r)]
  BY <1>2, <1>3, PartShows, Zenon
<1>6. Matches' = [Matches EXCEPT ![s].phase = "decided"]
  BY <1>4, <1>5, Zenon
<1>7. facts' = facts /\ Asked' = Asked /\ Lost' = Lost
  BY <1>2 DEF Asked, Lost, Question
<1> QED
  BY <1>1, <1>4, <1>6, <1>7
     DEF Contract!Decide, Contract!Open, Matches, Asked, Lost, Shown, Question

(* A pending job is a question out, and no other pending job asks it.      *)
LEMMA SettledQuestion ==
  ASSUME Typed, BlockingIsLatest, NEW j \in Jobs, NEW r \in Job, Settle(j, r),
         r.facts = jobs[j].facts
  PROVE  /\ Question(j) \in Asked /\ Lost' = Lost
         /\ r.status \in Pending => Asked' = Asked
         /\ r.status \notin Pending => Asked' = Asked \ {Question(j)}
<1>1. jobs \in Seq(Job) /\ Jobs = 1..Len(jobs) /\ Len(jobs) \in Nat
  BY LenProperties DEF Typed, TypeOK
<1>2. /\ jobs[j].status \in Pending /\ r.sess = jobs[j].sess /\ r.status # "DELIVERY_UNKNOWN"
      /\ Jobs' = Jobs /\ \A k \in Jobs : jobs'[k] = IF k = j THEN r ELSE jobs[k]
  BY <1>1 DEF Settle
<1>3. \A k \in Jobs : Question(k)' = Question(k)
  BY <1>2 DEF Question
<1>4. \A k \in Jobs : (jobs[k].status \in Pending /\ Question(k) = Question(j)) => k = j
  <2>1. \A k \in Jobs : (jobs[k].status \in Pending /\ jobs[k].sess = jobs[j].sess) => k = j
    BY <1>1, <1>2 DEF BlockingIsLatest, Blocking
  <2> QED
    BY <2>1 DEF Question
<1>5. Question(j) \in Asked
  BY <1>2 DEF Asked
<1>6. Lost' = Lost
  BY <1>2 DEF Lost, Pending
<1>7. r.status \in Pending => Asked' = Asked
  BY <1>2, <1>3 DEF Asked
<1>8. r.status \notin Pending => Asked' = Asked \ {Question(j)}
  BY <1>2, <1>3, <1>4 DEF Asked
<1> QED
  BY <1>5, <1>6, <1>7, <1>8

(* A request is one more question, of a match that has none out and none   *)
(* lost.                                                                   *)
LEMMA AskedQuestion ==
  ASSUME Typed, BlockingIsLatest, NEW s \in Sessions,
         MayRequest(s) \/ \E j \in Jobs : MayResend(s, j), NEW lane \in Lane, InsertJob(s, lane)
  PROVE  /\ Asked' = Asked \cup {<<s, sessions[s].facts>>} /\ Lost' = Lost
         /\ s \notin Lost /\ \A q \in Asked : q[1] # s
<1>1. /\ Jobs' = Jobs \cup {NewJob} /\ NewJob \notin Jobs
      /\ \A j \in Jobs : jobs'[j] = jobs[j]
      /\ jobs'[NewJob].sess = s /\ jobs'[NewJob].facts = sessions[s].facts
      /\ jobs'[NewJob].status = "QUEUED"
  <2>1. jobs'[NewJob] = [sess |-> s, rev |-> sessions[s].rev, facts |-> sessions[s].facts,
                         lane |-> lane, status |-> "QUEUED", dispatches |-> 0]
    BY InsertedJob
  <2>2. Jobs' = Jobs \cup {NewJob} /\ NewJob \notin Jobs
    BY InsertedJob
  <2>3. \A j \in Jobs : jobs'[j] = jobs[j]
    BY InsertedJob
  <2> QED
    BY <2>1, <2>2, <2>3
<1>3. \A j \in Jobs : jobs[j].sess = s => jobs[j].status \notin Blocking
  <2> SUFFICES ASSUME NEW j \in Jobs, jobs[j].sess = s, jobs[j].status \in Blocking PROVE FALSE
    OBVIOUS
  <2>1. IsLatest(j, s)
    BY DEF IsLatest, BlockingIsLatest
  <2>2. PICK i \in Jobs : MayResend(s, i)
    BY <2>1 DEF MayRequest
  <2>3. Jobs = 1..Len(jobs) /\ Len(jobs) \in Nat
    BY LenProperties DEF Typed, TypeOK
  <2>4. i = j
    BY <2>1, <2>2, <2>3 DEF MayResend, IsLatest
  <2> QED
    BY <2>2, <2>4 DEF MayResend, EndedTransiently, Blocking, Pending
<1>4. s \notin Lost
  BY <1>3 DEF Lost, Blocking
<1>5. \A q \in Asked : q[1] # s
  BY <1>3 DEF Asked, Question, Blocking
<1>6. Lost' = Lost
  BY <1>1 DEF Lost
<1>7. Asked' = Asked \cup {<<s, sessions[s].facts>>}
  <2>1. \A j \in Jobs : jobs'[j].sess = jobs[j].sess /\ jobs'[j].facts = jobs[j].facts
                         /\ jobs'[j].status = jobs[j].status
    BY <1>1
  <2>2. Asked' = {<<jobs'[j].sess, jobs'[j].facts>> : j \in {k \in Jobs \cup {NewJob} :
                                                             jobs'[k].status \in Pending}}
    BY <1>1 DEF Asked, Question
  <2> QED
    BY <1>1, <2>1, <2>2 DEF Asked, Question, Pending
<1> QED
  BY <1>4, <1>5, <1>6, <1>7

(* A request asks.                                                         *)
LEMMA RequestAsks ==
  ASSUME Typed, BlockingIsLatest, AdviceMatchesFacts, NEW s \in Sessions,
         RequestMock(s) \/ SendToGemini(s)
  PROVE  Contract!Ask(s)
<1>1. /\ sessions[s].active /\ sessions[s].state = "SELECTION_OPEN" /\ sessions[s].facts # None
      /\ UNCHANGED <<sessions, facts>>
      /\ MayRequest(s) \/ \E j \in Jobs : MayResend(s, j)
      /\ \E lane \in Lane : InsertJob(s, lane)
  BY DEF RequestMock, SendToGemini, ReserveFirst, ReserveAgain, MayResend, IsLatest, Lane
<1>2. /\ Asked' = Asked \cup {<<s, sessions[s].facts>>} /\ Lost' = Lost
      /\ s \notin Lost /\ \A q \in Asked : q[1] # s
  BY <1>1, AskedQuestion
<1>3. PhaseOf(sessions[s]) = "undecided"
  BY <1>1 DEF PhaseOf, AdviceMatchesFacts
<1>4. Matches' = Matches /\ facts' = facts
  BY <1>1 DEF Matches
<1>5. Contract!Open(s) /\ Matches[s].phase = "undecided" /\ Matches[s].facts = sessions[s].facts
  BY <1>1, <1>3 DEF Contract!Open, Matches, Shown
<1>6. Contract!Out(s) = {}
  BY <1>2 DEF Contract!Out, Asked, Question
<1> QED
  BY <1>1, <1>2, <1>3, <1>4, <1>5, <1>6
     DEF Contract!Ask, Matches, Asked, Lost, Shown, Question

(* A question that comes to nothing.                                       *)
LEMMA QuestionFizzles ==
  ASSUME NEW q \in Asked, Asked' = Asked \ {q}, Lost' = Lost, Matches' = Matches, facts' = facts
  PROVE  Contract!CNext
<1>1. Contract!Fizzle(q)
  BY DEF Contract!Fizzle, Matches, Asked, Lost, Shown, Question
<1> QED
  BY <1>1 DEF Contract!CNext, Asked, Question

(* A question that is answered.                                            *)
LEMMA QuestionIsAnswered ==
  ASSUME NEW s \in Sessions, sessions[s].active, PhaseOf(sessions[s]) = "undecided",
         <<s, sessions[s].facts>> \in Asked, Asked' = Asked \ {<<s, sessions[s].facts>>},
         Matches' = [Matches EXCEPT ![s].phase = "advised"], Lost' = Lost, facts' = facts
  PROVE  Contract!CNext
<1>1. Contract!Answer(s)
  BY DEF Contract!Answer, Contract!Open, Matches, Asked, Lost, Shown, Question
<1> QED
  BY <1>1 DEF Contract!CNext

(* A status written over that of a pending job.                            *)
LEMMA StatusSettles ==
  ASSUME Typed, NEW j \in Jobs, NEW x \in JobStatus, jobs[j].status \in Pending,
         x # "DELIVERY_UNKNOWN", jobs' = [jobs EXCEPT ![j].status = x]
  PROVE  \E r \in Job : Settle(j, r) /\ r.facts = jobs[j].facts /\ r.status = x
<1> DEFINE r == [jobs[j] EXCEPT !.status = x]
<1>1. jobs[j] \in Job
  BY ElementOfSeq, LenProperties DEF Typed, TypeOK
<1>2. r \in Job /\ r.sess = jobs[j].sess /\ r.status = x /\ r.facts = jobs[j].facts
  BY <1>1 DEF Job
<1>3. jobs' = [jobs EXCEPT ![j] = r]
  BY Zenon
<1> HIDE DEF r
<1> QED
  BY <1>2, <1>3 DEF Settle

(* A question answered, one that came to nothing, and a late result.       *)
LEMMA ResultAnswers ==
  ASSUME Typed, BlockingIsLatest, AdviceMatchesFacts, JobsHaveMatches,
         NEW j \in Jobs, NEW p, ApplyResult(j, p), facts' = facts
  PROVE  Contract!CNext \/ UNCHANGED <<facts, Matches, Asked, Lost>>
<1> DEFINE s == jobs[j].sess
           d == DispositionOf(j, p)
<1>1. d \in {"APPLIED", "INVALID_REJECTED"} => BindingHolds(j)
  BY DEF DispositionOf
<1>2. s \in Sessions /\ sessions[s] \in Session
  BY ElementOfSeq, LenProperties DEF Typed, TypeOK, JobsHaveMatches
<1>3. CASE d = "APPLIED"
  <2> DEFINE old == sessions[s]
             a == Len(advices) + 1
             rev == old.rev + 1
             r == [old EXCEPT !.advice = a, !.state = "SELECTION_ADVICE_READY", !.rev = rev]
             x == "SUCCEEDED"
  <2>1. sessions' = [sessions EXCEPT ![s] = r] /\ jobs' = [jobs EXCEPT ![j].status = x]
    BY <1>3, Zenon DEF ApplyResult
  <2>2. /\ old.active /\ jobs[j].status \in Pending /\ jobs[j].facts = old.facts
        /\ old.state = "SELECTION_OPEN"
    BY <1>1, <1>3 DEF BindingHolds
  <2>3. old.advice = None /\ old.applied = None
    BY <1>2, <2>2 DEF AdviceMatchesFacts
  <2>4. a \in Nat /\ a # None
    BY LenProperties DEF Typed, TypeOK
  <2> HIDE DEF a
  <2>5. r.active = old.active /\ r.advice = a /\ r.applied = old.applied /\ r.facts = old.facts
    BY <1>2 DEF Session
  <2> HIDE DEF r
  <2>6. PhaseOf(r) = "advised" /\ PhaseOf(old) = "undecided"
    BY <2>3, <2>4, <2>5 DEF PhaseOf
  <2>7. Matches' = [Matches EXCEPT ![s].phase = PhaseOf(r)]
    BY <1>2, <2>1, <2>5, PartShows, Zenon
  <2>8. Matches' = [Matches EXCEPT ![s].phase = "advised"]
    BY <2>6, <2>7, Zenon
  <2>9. x \in JobStatus /\ x # "DELIVERY_UNKNOWN" /\ x \notin Pending
    BY DEF JobStatus, Pending, Terminal
  <2> HIDE DEF x
  <2>10. PICK y \in Job : Settle(j, y) /\ y.facts = jobs[j].facts /\ y.status = x
    BY <2>1, <2>2, <2>9, StatusSettles
  <2>11. Question(j) \in Asked /\ Lost' = Lost /\ Asked' = Asked \ {Question(j)}
    BY <2>9, <2>10, SettledQuestion
  <2>12. Question(j) = <<s, old.facts>>
    BY <2>2 DEF Question
  <2> QED
    BY <1>2, <2>2, <2>6, <2>8, <2>11, <2>12, QuestionIsAnswered
<1>4. CASE d = "INVALID_REJECTED"
  <2> DEFINE x == "FAILED"
  <2>1. sessions' = sessions /\ jobs' = [jobs EXCEPT ![j].status = x]
    BY <1>4, Zenon DEF ApplyResult
  <2>2. jobs[j].status \in Pending
    BY <1>1, <1>4 DEF BindingHolds
  <2>3. x \in JobStatus /\ x # "DELIVERY_UNKNOWN" /\ x \notin Pending
    BY DEF JobStatus, Pending, Terminal
  <2> HIDE DEF x
  <2>4. PICK y \in Job : Settle(j, y) /\ y.facts = jobs[j].facts /\ y.status = x
    BY <2>1, <2>2, <2>3, StatusSettles
  <2>5. Question(j) \in Asked /\ Lost' = Lost /\ Asked' = Asked \ {Question(j)}
    BY <2>3, <2>4, SettledQuestion
  <2>6. Matches' = Matches
    BY <2>1 DEF Matches
  <2> QED
    BY <2>5, <2>6, QuestionFizzles
<1>5. CASE d \in {"STALE_REJECTED", "DUPLICATE_IGNORED"}
  <2>1. UNCHANGED <<sessions, jobs>>
    BY <1>5 DEF ApplyResult
  <2> QED
    BY <2>1 DEF Matches, Asked, Lost, Question
<1> QED
  BY <1>3, <1>4, <1>5 DEF DispositionOf

(* A failure ends the question its job still asks.                         *)
LEMMA FailureFizzles ==
  ASSUME Typed, BlockingIsLatest, FailJob
  PROVE  Contract!CNext \/ UNCHANGED <<facts, Matches, Asked, Lost>>
<1> DEFINE j == ui.job
           x == AfterFailure(jobs[j].status, ui.arg)
<1>1. /\ j \in Jobs /\ UNCHANGED <<sessions, facts>>
      /\ jobs' = [jobs EXCEPT ![j].status = x]
  <2>1. j \in Jobs /\ UNCHANGED <<sessions, facts>>
    BY DEF FailJob, Typed, ControlOK
  <2>2. jobs' = [jobs EXCEPT ![j].status = x]
    BY Zenon DEF FailJob
  <2> QED
    BY <2>1, <2>2
<1>2. Matches' = Matches
  BY <1>1 DEF Matches
<1>3. CASE jobs[j].status \in Pending
  <2>1. x \in JobStatus /\ x # "DELIVERY_UNKNOWN" /\ x \notin Pending
    BY <1>3 DEF AfterFailure, JobStatus, Pending, Terminal
  <2> HIDE DEF x, j
  <2>2. PICK y \in Job : Settle(j, y) /\ y.facts = jobs[j].facts /\ y.status = x
    BY <1>1, <1>3, <2>1, StatusSettles
  <2>3. Question(j) \in Asked /\ Lost' = Lost /\ Asked' = Asked \ {Question(j)}
    BY <1>1, <2>1, <2>2, SettledQuestion
  <2> QED
    BY <1>1, <1>2, <2>3, QuestionFizzles
<1>4. CASE jobs[j].status \notin Pending
  <2>1. jobs \in Seq(Job) /\ jobs[j] \in Job
    BY <1>1, ElementOfSeq, LenProperties DEF Typed, TypeOK
  <2>2. x = jobs[j].status
    BY <1>4 DEF AfterFailure
  <2> HIDE DEF x
  <2>3. [jobs[j] EXCEPT !.status = x] = jobs[j]
    BY <2>1, <2>2 DEF Job
  <2>4. jobs' = [jobs EXCEPT ![j] = jobs[j]]
    BY <1>1, <2>3, Zenon
  <2>5. jobs' = jobs
    BY <2>1, <2>4, LenProperties
  <2>6. Asked' = Asked /\ Lost' = Lost
    BY <2>5 DEF Asked, Lost, Question
  <2> QED
    BY <1>1, <1>2, <2>6
<1> QED
  BY <1>3, <1>4

(* A dispatch goes on with the question it has.                            *)
LEMMA DispatchIsNotShown ==
  ASSUME Typed, BlockingIsLatest, MarkDispatched
  PROVE  UNCHANGED <<facts, Matches, Asked, Lost>>
<1> DEFINE old == jobs[ui.job]
           n == old.dispatches + 1
           r == [old EXCEPT !.status = "IN_FLIGHT", !.dispatches = n]
<1>1. ui.job \in Jobs /\ old \in Job /\ old.status \in Pending /\ UNCHANGED <<sessions, facts>>
  BY ElementOfSeq, LenProperties DEF MarkDispatched, Typed, TypeOK, ControlOK, Pending
<1>2. jobs' = [jobs EXCEPT ![ui.job] = r]
  BY Zenon DEF MarkDispatched
<1>3. r \in Job /\ r.sess = old.sess /\ r.status = "IN_FLIGHT" /\ r.facts = old.facts
  BY <1>1, JobUpdates DEF Job
<1> HIDE DEF r
<1>4. Settle(ui.job, r) /\ r.status \in Pending
  BY <1>1, <1>2, <1>3 DEF Settle, Pending
<1>5. Asked' = Asked /\ Lost' = Lost
  BY <1>1, <1>3, <1>4, SettledQuestion
<1> QED
  BY <1>1, <1>5 DEF Matches

(* The next start forgets what was out; what had been dispatched is lost.  *)
LEMMA RestartForgets ==
  ASSUME Typed, Restart
  PROVE  Contract!Forget
<1> DEFINE gone == {Question(j) : j \in {k \in Jobs : jobs[k].status = "IN_FLIGHT"}}
<1>1. /\ Jobs' = Jobs /\ UNCHANGED <<sessions, facts>>
      /\ \A j \in Jobs : jobs'[j].sess = jobs[j].sess
                         /\ jobs'[j].status = Recovered(jobs[j].status)
  BY RestartRecovers DEF Restart
<1>2. Asked' = {}
  BY <1>1 DEF Asked, Recovered, Pending
<1>3. gone \in SUBSET Asked
  BY DEF Asked, Pending
<1>4. \A j \in Jobs : jobs'[j].status = "DELIVERY_UNKNOWN" <=>
                        jobs[j].status \in {"IN_FLIGHT", "DELIVERY_UNKNOWN"}
  BY <1>1 DEF Recovered
<1>5. Lost' = Lost \cup {q[1] : q \in gone}
  <2>1. \A m : (\E q \in gone : m = q[1]) <=>
               \E j \in Jobs : jobs[j].status = "IN_FLIGHT" /\ m = jobs[j].sess
    <3>1. \A j \in Jobs : Question(j)[1] = jobs[j].sess
      BY DEF Question
    <3> HIDE DEF Question
    <3> QED
      BY <3>1
  <2>2. \A m : m \in Lost' <=>
               \E j \in Jobs : /\ jobs[j].status \in {"IN_FLIGHT", "DELIVERY_UNKNOWN"}
                               /\ m = jobs[j].sess
    BY <1>1, <1>4 DEF Lost
  <2>3. \A m : m \in Lost <=>
               \E j \in Jobs : jobs[j].status = "DELIVERY_UNKNOWN" /\ m = jobs[j].sess
    BY DEF Lost
  <2>4. \A m : m \in {q[1] : q \in gone} <=> \E q \in gone : m = q[1]
    OBVIOUS
  <2> HIDE DEF gone
  <2> QED
    BY <2>1, <2>2, <2>3, <2>4
<1>6. Matches' = Matches
  BY <1>1 DEF Matches
<1> HIDE DEF gone
<1> QED
  BY <1>1, <1>2, <1>3, <1>5, <1>6 DEF Contract!Forget, Matches, Asked, Lost, Shown, Question

(* Matches are never deleted, so jobs keep theirs.                         *)
LEMMA JobsHaveMatchesNext == Typed /\ JobsHaveMatches /\ [Next]_vars => JobsHaveMatches'
<1> SUFFICES ASSUME Typed, JobsHaveMatches, [Next]_vars PROVE JobsHaveMatches'
  OBVIOUS
<1>1. Sessions \subseteq Sessions'
  <2>1. CASE NewMatch
    <3> DEFINE new == [state |-> "SELECTION_OPEN", active |-> TRUE, rev |-> 1, meta |-> 0,
                       facts |-> None, advice |-> None, applied |-> None]
    <3>1. new \in Session
      BY DEF Session, SelectionState
    <3>2. sessions' = Append(sessions, new) /\ sessions \in Seq(Session)
      BY <2>1 DEF NewMatch, Typed, TypeOK
    <3> HIDE DEF new
    <3> QED
      BY <3>1, <3>2, AppendIsSeq
  <2>2. ASSUME NEW s \in Sessions, NEW r, sessions' = [sessions EXCEPT ![s] = r]
        PROVE  Sessions \subseteq Sessions'
    BY <2>2
  <2> QED
    BY <2>1, <2>2, SessionStep
<1>2. CASE JobsAreKept
  BY <1>1, <1>2 DEF JobsAreKept, JobsHaveMatches
<1>3. ASSUME NEW s \in Sessions, NEW lane \in Lane, InsertJob(s, lane)
      PROVE  JobsHaveMatches'
  <2>1. jobs'[NewJob] = [sess |-> s, rev |-> sessions[s].rev, facts |-> sessions[s].facts,
                         lane |-> lane, status |-> "QUEUED", dispatches |-> 0]
    BY <1>3, InsertedJob
  <2>2. Jobs' = Jobs \cup {NewJob} /\ \A j \in Jobs : jobs'[j] = jobs[j]
    BY <1>3, InsertedJob
  <2>3. jobs'[NewJob].sess = s
    BY <2>1
  <2> QED
    BY <1>1, <2>2, <2>3 DEF JobsHaveMatches
<1> QED
  BY <1>2, <1>3, JobsStep DEF RequestMock, SendToGemini, Lane

(* A match is decided by leaving the states in which it is not.            *)
LEMMA AppliedIsLateNext == Typed /\ AppliedIsLate /\ [Next]_vars => AppliedIsLate'
<1> SUFFICES ASSUME Typed, AppliedIsLate, [Next]_vars PROVE AppliedIsLate'
  OBVIOUS
<1>1. CASE sessions' = sessions
  BY <1>1 DEF AppliedIsLate
<1>2. CASE NewMatch
  <2> DEFINE new == [state |-> "SELECTION_OPEN", active |-> TRUE, rev |-> 1, meta |-> 0,
                     facts |-> None, advice |-> None, applied |-> None]
  <2>1. new \in Session /\ new.applied = None
    BY DEF Session, SelectionState
  <2>2. sessions' = Append(sessions, new) /\ sessions \in Seq(Session)
    BY <1>2 DEF NewMatch, Typed, TypeOK
  <2> HIDE DEF new
  <2>3. /\ Sessions' = Sessions \cup {Len(sessions) + 1}
        /\ \A s \in Sessions : sessions'[s] = sessions[s]
        /\ sessions'[Len(sessions) + 1] = new
    BY <2>1, <2>2, AppendIsSeq
  <2> QED
    BY <2>1, <2>3 DEF AppliedIsLate
<1>3. ASSUME NEW s \in Sessions, NEW r, sessions' = [sessions EXCEPT ![s] = r],
             r.applied = None \/ r.state \notin {"SELECTION_OPEN", "SELECTION_ADVICE_READY"}
      PROVE  AppliedIsLate'
  <2>1. Sessions' = Sessions /\ \A i \in Sessions : sessions'[i] = IF i = s THEN r ELSE sessions[i]
    BY <1>3
  <2> QED
    BY <1>3, <2>1 DEF AppliedIsLate
<1>4. ASSUME NEW s \in Sessions, OnlyMatchesMove(s)
      PROVE  AppliedIsLate'
  <2>1. sessions[s] \in Session
    BY ElementOfSeq, LenProperties DEF Typed, TypeOK
  <2> DEFINE old == sessions[s]
             rev == old.rev + 1
             n == old.meta + 1
             f == facts'
             ra == [old EXCEPT !.state = "ABORTED", !.active = FALSE, !.rev = rev]
             rc == [old EXCEPT !.facts = f, !.advice = None, !.rev = rev]
             rm == [old EXCEPT !.meta = n]
             rs == [old EXCEPT !.applied = old.advice, !.state = "BATTLE_READY", !.rev = rev]
  <2>2. /\ ra.state = "ABORTED" /\ rs.state = "BATTLE_READY"
        /\ rc.state = old.state /\ rc.applied = old.applied
        /\ rm.state = old.state /\ rm.applied = old.applied
    BY <2>1 DEF Session
  <2>3. \/ sessions' = [sessions EXCEPT ![s] = ra] \/ sessions' = [sessions EXCEPT ![s] = rc]
        \/ sessions' = [sessions EXCEPT ![s] = rm] \/ sessions' = [sessions EXCEPT ![s] = rs]
    BY <1>4, Zenon DEF OnlyMatchesMove, AbortMatch, ConfirmFacts, UpdateMetadata, ApplySelection
  <2>4. old.state \in {"SELECTION_OPEN", "SELECTION_ADVICE_READY"} => old.applied = None
    BY DEF AppliedIsLate
  <2> HIDE DEF ra, rc, rm, rs
  <2> QED
    BY <1>3, <2>2, <2>3, <2>4
<1>5. ASSUME NEW j \in Jobs, NEW p, ApplyResult(j, p)
      PROVE  AppliedIsLate'
  <2>1. CASE DispositionOf(j, p) = "APPLIED"
    <3> DEFINE s == jobs[j].sess
               old == sessions[s]
               a == Len(advices) + 1
               rev == old.rev + 1
               r == [old EXCEPT !.advice = a, !.state = "SELECTION_ADVICE_READY", !.rev = rev]
    <3>1. sessions' = [sessions EXCEPT ![s] = r]
      BY <1>5, <2>1, Zenon DEF ApplyResult
    <3>2. old.state = "SELECTION_OPEN"
      BY <2>1 DEF DispositionOf, BindingHolds
    <3>3. CASE s \in Sessions
      <4>1. old \in Session /\ old.applied = None
        BY <3>2, <3>3, ElementOfSeq, LenProperties DEF Typed, TypeOK, AppliedIsLate
      <4>2. r.applied = None
        BY <4>1 DEF Session
      <4> HIDE DEF r
      <4> QED
        BY <1>3, <3>1, <3>3, <4>2
    <3>4. CASE s \notin Sessions
      <4> HIDE DEF r
      <4>1. sessions' = sessions
        BY <3>1, <3>4, LenProperties DEF Typed, TypeOK
      <4> QED
        BY <1>1, <4>1
    <3> QED
      BY <3>3, <3>4
  <2>2. CASE DispositionOf(j, p) # "APPLIED"
    <3>1. sessions' = sessions
      BY <1>5, <2>2 DEF ApplyResult
    <3> QED
      BY <1>1, <3>1
  <2> QED
    BY <2>1, <2>2
<1> QED
  BY <1>1, <1>2, <1>4, <1>5, AdviceStep DEF OnlyStatusesMove

(* What the contract leaves out: the worker, the audit, the callbacks and  *)
(* the loss of the process itself.                                         *)
LEMMA ThreadsAreNotShown ==
  ASSUME StartAttempt \/ Callback \/ WorkerStep \/ Crash \/ UNCHANGED vars
  PROVE  UNCHANGED <<facts, Matches, Asked, Lost>>
<1>1. UNCHANGED <<facts, sessions, jobs>>
  BY DEF StartAttempt, Callback, HandleSucceeded, HandleFailed, WorkerStep, WorkerSend,
         WorkerAnswer, Crash, vars, store
<1> QED
  BY <1>1 DEF Matches, Asked, Lost, Question

(* Every step is one the contract allows, or shows nothing.                *)
LEMMA ContractStep ==
  ASSUME Typed, BlockingIsLatest, AdviceMatchesFacts, JobsHaveMatches, AppliedIsLate, [Next]_vars
  PROVE  Contract!CNext \/ UNCHANGED <<facts, Matches, Asked, Lost>>
<1>1. CASE NewMatch
  BY <1>1, NewMatchCreates DEF Contract!CNext
<1>2. ASSUME NEW s \in Sessions,
             \/ AbortMatch(s) \/ ConfirmFacts(s) \/ ApplySelection(s)
             \/ RequestMock(s) \/ SendToGemini(s)
      PROVE  Contract!CNext
  <2>1. Contract!Close(s) \/ Contract!Confirm(s) \/ Contract!Decide(s) \/ Contract!Ask(s)
    BY <1>2, AbortCloses, ConfirmFactsConfirms, ApplySelectionDecides, RequestAsks
  <2> QED
    BY <2>1 DEF Contract!CNext
<1>3. ASSUME NEW j \in Jobs, NEW p \in Payload, Redeliver(j, p)
      PROVE  Contract!CNext \/ UNCHANGED <<facts, Matches, Asked, Lost>>
  BY <1>3, ResultAnswers DEF Redeliver
<1>4. CASE Command
  BY <1>1, <1>2, <1>3, <1>4, MetadataIsNotShown DEF Command
<1>5. CASE Apply
  BY <1>5, ResultAnswers DEF Apply, Typed, ControlOK
<1>6. CASE MarkDispatched \/ FailJob
  BY <1>6, DispatchIsNotShown, FailureFizzles
<1>7. CASE Restart
  BY <1>7, RestartForgets DEF Contract!CNext
<1> QED
  BY <1>4, <1>5, <1>6, <1>7, ThreadsAreNotShown DEF Next, UiStep

(* The Selection phase with its ledger, threads, late results, process     *)
(* stops and restarts does only what the contract allows: one question at  *)
(* a time, an answer for the facts that are current when it arrives, and   *)
(* no question after one that was lost (application/service.py,            *)
(* ui/gemini_advice.py).                                                   *)
THEOREM ContractIsKept == Spec => KeepsContract
<1> DEFINE Inv == /\ Typed /\ BlockingIsLatest /\ AdviceMatchesFacts
                  /\ JobsHaveMatches /\ AppliedIsLate
<1>1. Spec => []Inv
  <2>1. Init => JobsHaveMatches /\ AppliedIsLate
    BY DEF Init, JobsHaveMatches, AppliedIsLate
  <2>2. AdviceIsSound => AdviceMatchesFacts
    BY DEF AdviceIsSound
  <2> QED
    BY <2>1, <2>2, JobsHaveMatchesNext, AppliedIsLateNext, TypedInvariant,
       BlockingIsLatestInvariant, AdviceIsAlwaysSound, PTL DEF Spec
<1>2. Init => Contract!CInit
  BY DEF Init, Contract!CInit
<1>3. Inv /\ [Next]_vars => [Contract!CNext]_(Contract!cvars)
  <2> SUFFICES ASSUME Inv, [Next]_vars PROVE [Contract!CNext]_(Contract!cvars)
    OBVIOUS
  <2>1. Contract!CNext \/ UNCHANGED <<facts, Matches, Asked, Lost>>
    BY ContractStep
  <2> QED
    BY <2>1 DEF Contract!cvars, Matches, Asked, Lost, Shown, Question
<1> QED
  BY <1>1, <1>2, <1>3, PTL DEF Spec, KeepsContract, Contract!CSpec

---------------------------------------------------------------------------
(* What the window and the adapter can rely on.                            *)

(* A request was made for confirmed facts; the advice of a match is there  *)
(* when its state says so.                                                 *)
StatesHaveRows ==
  /\ \A j \in Jobs : jobs[j].facts <= facts /\ sessions[jobs[j].sess].facts # None
  /\ \A s \in Sessions :
       /\ sessions[s].facts <= facts
       /\ sessions[s].state = "SELECTION_ADVICE_READY" => sessions[s].advice # None

(* An unanswered request for the facts still shown was made at the         *)
(* revision the match still has, and an answered one at an earlier.        *)
AnswersMoveRevisions ==
  \A j \in Jobs :
    LET s == jobs[j].sess IN
    /\ (/\ jobs[j].status \in Pending
        /\ sessions[s].active /\ jobs[j].facts = sessions[s].facts) =>
          jobs[j].rev = sessions[s].rev /\ sessions[s].state = "SELECTION_OPEN"
    /\ jobs[j].rev <= sessions[s].rev
    /\ jobs[j].status = "SUCCEEDED" => jobs[j].rev < sessions[s].rev

CurrentInv == JobsHaveMatches /\ StatesHaveRows /\ AnswersMoveRevisions

(* What a step does to a match that is there.                              *)
MatchStays(s) ==
  /\ sessions'[s].state = sessions[s].state /\ sessions'[s].active = sessions[s].active
  /\ sessions'[s].rev = sessions[s].rev /\ sessions'[s].facts = sessions[s].facts
  /\ sessions'[s].advice = sessions[s].advice

MatchLeaves(s) ==
  /\ sessions'[s].facts = sessions[s].facts /\ sessions'[s].advice = sessions[s].advice
  /\ sessions'[s].active => sessions[s].active
  /\ \/ sessions'[s].state = "ABORTED" /\ ~sessions'[s].active
     \/ sessions[s].state = "SELECTION_ADVICE_READY" /\ sessions'[s].state = "BATTLE_READY"

MatchIsConfirmed(s) ==
  /\ sessions'[s].facts = facts + 1 /\ facts' = facts + 1
  /\ sessions'[s].state = "SELECTION_OPEN"

MatchIsAdvised(s) ==
  /\ sessions'[s].facts = sessions[s].facts /\ sessions'[s].advice # None
  /\ sessions'[s].state = "SELECTION_ADVICE_READY"
  /\ \E j \in Jobs : /\ jobs[j].sess = s /\ jobs[j].status \in Pending
                     /\ jobs'[j].status = "SUCCEEDED" /\ jobs[j].rev = sessions[s].rev

(* Every match stays, or moves to a later revision in one of three ways.   *)
MatchMovesOn(s) ==
  \/ MatchStays(s)
  \/ /\ sessions'[s].rev = sessions[s].rev + 1
     /\ MatchLeaves(s) \/ MatchIsConfirmed(s) \/ MatchIsAdvised(s)

(* A job SUCCEEDED only while its match is advised.                        *)
SuccessAdvises ==
  \A j \in Jobs : (jobs[j].status # "SUCCEEDED" /\ jobs'[j].status = "SUCCEEDED") =>
     sessions'[jobs[j].sess].rev = sessions[jobs[j].sess].rev + 1

(* The commands on a match are such moves.                                 *)
LEMMA CommandMovesOn ==
  ASSUME Typed, NEW s \in Sessions, OnlyMatchesMove(s)
  PROVE  /\ Sessions' = Sessions /\ facts \in Nat /\ facts' \in Nat /\ facts' >= facts
         /\ \A t \in Sessions : MatchMovesOn(t)
<1>1. /\ sessions[s] \in Session /\ facts \in Nat /\ sessions \in Seq(Session)
  BY ElementOfSeq, LenProperties DEF Typed, TypeOK
<1>2. facts' \in Nat /\ facts' >= facts
  BY <1>1 DEF OnlyMatchesMove, AbortMatch, ConfirmFacts, UpdateMetadata, ApplySelection
<1>3. ASSUME NEW r, sessions' = [sessions EXCEPT ![s] = r]
      PROVE  /\ Sessions' = Sessions /\ sessions'[s] = r
             /\ \A t \in Sessions : t # s => sessions'[t] = sessions[t]
  BY <1>3
<1> DEFINE old == sessions[s]
           rev == old.rev + 1
           n == old.meta + 1
           f == facts'
<1>4. CASE AbortMatch(s)
  <2> DEFINE r == [old EXCEPT !.state = "ABORTED", !.active = FALSE, !.rev = rev]
  <2>1. sessions' = [sessions EXCEPT ![s] = r]
    BY <1>4, Zenon DEF AbortMatch
  <2>2. /\ r.rev = rev /\ r.advice = old.advice /\ r.facts = old.facts
        /\ r.state = "ABORTED" /\ ~r.active
    BY <1>1 DEF Session
  <2> HIDE DEF r
  <2> QED
    BY <1>1, <1>2, <1>3, <2>1, <2>2 DEF MatchMovesOn, MatchLeaves, MatchStays
<1>5. CASE ConfirmFacts(s)
  <2> DEFINE r == [old EXCEPT !.facts = f, !.advice = None, !.rev = rev]
  <2>1. sessions' = [sessions EXCEPT ![s] = r]
    BY <1>5, Zenon DEF ConfirmFacts
  <2>2. r.rev = rev /\ r.facts = f /\ r.state = old.state
    BY <1>1 DEF Session
  <2>3. f = facts + 1 /\ old.state = "SELECTION_OPEN"
    BY <1>5 DEF ConfirmFacts
  <2> HIDE DEF r
  <2> QED
    BY <1>1, <1>2, <1>3, <2>1, <2>2, <2>3 DEF MatchMovesOn, MatchIsConfirmed, MatchStays
<1>6. CASE UpdateMetadata(s)
  <2> DEFINE r == [old EXCEPT !.meta = n]
  <2>1. sessions' = [sessions EXCEPT ![s] = r]
    BY <1>6, Zenon DEF UpdateMetadata
  <2>2. /\ r.rev = old.rev /\ r.advice = old.advice /\ r.facts = old.facts
        /\ r.state = old.state /\ r.active = old.active
    BY <1>1 DEF Session
  <2> HIDE DEF r
  <2> QED
    BY <1>1, <1>2, <1>3, <2>1, <2>2 DEF MatchMovesOn, MatchStays
<1>7. CASE ApplySelection(s)
  <2> DEFINE r == [old EXCEPT !.applied = old.advice, !.state = "BATTLE_READY", !.rev = rev]
  <2>1. sessions' = [sessions EXCEPT ![s] = r]
    BY <1>7, Zenon DEF ApplySelection
  <2>2. /\ r.rev = rev /\ r.advice = old.advice /\ r.facts = old.facts
        /\ r.state = "BATTLE_READY" /\ r.active = old.active
    BY <1>1 DEF Session
  <2>3. old.state = "SELECTION_ADVICE_READY"
    BY <1>7 DEF ApplySelection
  <2> HIDE DEF r
  <2> QED
    BY <1>1, <1>2, <1>3, <2>1, <2>2, <2>3 DEF MatchMovesOn, MatchLeaves, MatchStays
<1> QED
  BY <1>4, <1>5, <1>6, <1>7 DEF OnlyMatchesMove

(* So is a result that is applied; no other writes a match or is a         *)
(* success.                                                                *)
LEMMA ResultMovesOn ==
  ASSUME Typed, JobsHaveMatches, NEW j \in Jobs, NEW p, ApplyResult(j, p)
  PROVE  /\ Sessions' = Sessions
         /\ \A t \in Sessions : MatchMovesOn(t)
         /\ SuccessAdvises
<1> DEFINE d == DispositionOf(j, p)
           s == jobs[j].sess
           old == sessions[s]
           a == Len(advices) + 1
           rev == old.rev + 1
           r == [old EXCEPT !.advice = a, !.state = "SELECTION_ADVICE_READY", !.rev = rev]
           q == [jobs[j] EXCEPT !.status = "SUCCEEDED"]
           z == [jobs[j] EXCEPT !.status = "FAILED"]
<1>1. /\ s \in Sessions /\ old \in Session /\ sessions \in Seq(Session)
      /\ jobs[j] \in Job /\ jobs \in Seq(Job) /\ Len(advices) \in Nat
  BY ElementOfSeq, LenProperties DEF Typed, TypeOK, JobsHaveMatches
<1>2. CASE d = "APPLIED"
  <2>1. sessions' = [sessions EXCEPT ![s] = r] /\ jobs' = [jobs EXCEPT ![j] = q]
    BY <1>2, Zenon DEF ApplyResult
  <2>2. BindingHolds(j)
    BY <1>2 DEF DispositionOf
  <2>3. /\ r.rev = rev /\ r.advice = a /\ r.facts = old.facts
        /\ r.state = "SELECTION_ADVICE_READY" /\ q.status = "SUCCEEDED"
    BY <1>1 DEF Session, Job
  <2>4. a # None
    BY <1>1
  <2> HIDE DEF r, q, d, a
  <2>5. /\ Sessions' = Sessions /\ sessions'[s] = r
        /\ \A t \in Sessions : t # s => sessions'[t] = sessions[t]
        /\ jobs'[j] = q /\ \A k \in Jobs : k # j => jobs'[k] = jobs[k]
    BY <1>1, <2>1
  <2>6. MatchIsAdvised(s)
    BY <2>2, <2>3, <2>4, <2>5 DEF MatchIsAdvised, BindingHolds
  <2>7. \A t \in Sessions : MatchMovesOn(t)
    BY <2>3, <2>5, <2>6 DEF MatchMovesOn, MatchStays
  <2>8. SuccessAdvises
    BY <2>3, <2>5 DEF SuccessAdvises
  <2> QED
    BY <2>5, <2>7, <2>8
<1>3. CASE d # "APPLIED"
  <2>1. sessions' = sessions /\ (jobs' = jobs \/ jobs' = [jobs EXCEPT ![j] = z])
    BY <1>3, Zenon DEF ApplyResult
  <2>2. z.status = "FAILED"
    BY <1>1 DEF Job
  <2> HIDE DEF z
  <2>3. \A k \in Jobs : jobs'[k].status # "SUCCEEDED" \/ jobs'[k] = jobs[k]
    BY <1>1, <2>1, <2>2
  <2>4. SuccessAdvises
    BY <2>3, Zenon DEF SuccessAdvises
  <2> QED
    BY <2>1, <2>4 DEF MatchMovesOn, MatchStays
<1> QED
  BY <1>2, <1>3

(* Every step that makes no request.                                       *)
LEMMA MatchesMoveOn ==
  ASSUME Typed, JobsHaveMatches, [Next]_vars
  PROVE  /\ facts \in Nat /\ facts' \in Nat /\ facts' >= facts
         /\ \A t \in Sessions : t \in Sessions' /\ MatchMovesOn(t)
         /\ \/ SuccessAdvises
            \/ \E s \in Sessions, lane \in Lane :
                 InsertJob(s, lane) /\ UNCHANGED <<sessions, facts>>
<1>1. facts \in Nat
  BY DEF Typed, TypeOK
<1>2. jobs' = jobs => SuccessAdvises
  BY DEF SuccessAdvises
<1>3. CASE sessions' = sessions /\ facts' = facts /\ SuccessAdvises
  BY <1>1, <1>3 DEF MatchMovesOn, MatchStays
<1>4. CASE NewMatch
  <2> DEFINE new == [state |-> "SELECTION_OPEN", active |-> TRUE, rev |-> 1, meta |-> 0,
                     facts |-> None, advice |-> None, applied |-> None]
  <2>1. new \in Session
    BY DEF Session, SelectionState
  <2>2. sessions' = Append(sessions, new) /\ sessions \in Seq(Session)
    BY <1>4 DEF NewMatch, Typed, TypeOK
  <2> HIDE DEF new
  <2>3. \A t \in Sessions : t \in Sessions' /\ sessions'[t] = sessions[t]
    BY <2>1, <2>2, AppendIsSeq
  <2>4. facts' = facts /\ jobs' = jobs
    BY <1>4 DEF NewMatch
  <2> QED
    BY <1>1, <1>2, <2>3, <2>4 DEF MatchMovesOn, MatchStays
<1>5. ASSUME NEW s \in Sessions, OnlyMatchesMove(s)
      PROVE  /\ facts' \in Nat /\ facts' >= facts /\ SuccessAdvises
             /\ \A t \in Sessions : t \in Sessions' /\ MatchMovesOn(t)
  BY <1>2, <1>5, CommandMovesOn DEF OnlyMatchesMove
<1>6. ASSUME NEW j \in Jobs, NEW p, ApplyResult(j, p), facts' = facts
      PROVE  /\ facts' \in Nat /\ facts' >= facts /\ SuccessAdvises
             /\ \A t \in Sessions : t \in Sessions' /\ MatchMovesOn(t)
  BY <1>1, <1>6, ResultMovesOn
<1>7. ASSUME NEW s \in Sessions, RequestMock(s) \/ SendToGemini(s)
      PROVE  \E lane \in Lane : InsertJob(s, lane) /\ UNCHANGED <<sessions, facts>>
  BY <1>7 DEF RequestMock, SendToGemini, Lane
<1>8. ASSUME OnlyStatusesMove
      PROVE  SuccessAdvises
  BY <1>8 DEF OnlyStatusesMove, SuccessAdvises
<1>9. CASE Command
  <2>1. ASSUME NEW s \in Sessions, AbortMatch(s) \/ ConfirmFacts(s) \/ UpdateMetadata(s)
                                   \/ ApplySelection(s)
        PROVE  OnlyMatchesMove(s)
    BY <2>1 DEF OnlyMatchesMove, AbortMatch, ConfirmFacts, UpdateMetadata, ApplySelection
  <2>2. ASSUME NEW j \in Jobs, NEW p \in Payload, Redeliver(j, p)
        PROVE  ApplyResult(j, p) /\ facts' = facts
    BY <2>2 DEF Redeliver
  <2>3. ASSUME NEW s \in Sessions, RequestMock(s) \/ SendToGemini(s)
        PROVE  \A t \in Sessions : t \in Sessions' /\ MatchMovesOn(t)
    BY <1>7, <2>3 DEF MatchMovesOn, MatchStays
  <2> QED
    BY <1>1, <1>4, <1>5, <1>6, <1>7, <1>9, <2>1, <2>2, <2>3 DEF Command
<1>10. CASE UiStep
  <2>1. CASE Apply
    BY <1>6, <1>1, <2>1 DEF Apply, Typed, ControlOK
  <2>2. CASE StartAttempt
    BY <1>2, <1>3, <2>2 DEF StartAttempt
  <2>3. CASE MarkDispatched \/ FailJob
    <3>1. sessions' = sessions /\ facts' = facts
      BY <2>3 DEF MarkDispatched, FailJob
    <3> QED
      BY <1>3, <1>8, <2>3, <3>1, StatusesMove
  <2> QED
    BY <1>10, <2>1, <2>2, <2>3 DEF UiStep
<1>11. CASE Restart
  <2>1. sessions' = sessions /\ facts' = facts
    BY <1>11 DEF Restart
  <2> QED
    BY <1>3, <1>8, <1>11, <2>1, StatusesMove
<1>12. CASE Callback \/ WorkerStep \/ Crash \/ UNCHANGED vars
  <2>1. sessions' = sessions /\ facts' = facts /\ jobs' = jobs
    BY <1>12 DEF Callback, HandleSucceeded, HandleFailed, WorkerStep, WorkerSend,
                 WorkerAnswer, Crash, vars, store
  <2> QED
    BY <1>2, <1>3, <2>1
<1> QED
  BY <1>9, <1>10, <1>11, <1>12 DEF Next

(* Rows and revisions stay together.                                       *)
LEMMA CurrentNext == Typed /\ BlockingIsLatest /\ CurrentInv /\ [Next]_vars => CurrentInv'
<1> SUFFICES ASSUME Typed, BlockingIsLatest, CurrentInv, [Next]_vars PROVE CurrentInv'
  OBVIOUS
<1>1. JobsHaveMatches /\ StatesHaveRows /\ AnswersMoveRevisions
  BY DEF CurrentInv
<1>2. JobsHaveMatches'
  BY <1>1, JobsHaveMatchesNext
<1>3. /\ facts \in Nat /\ facts' \in Nat /\ facts' >= facts
      /\ \A t \in Sessions : t \in Sessions' /\ MatchMovesOn(t)
      /\ \/ SuccessAdvises
         \/ \E s \in Sessions, lane \in Lane : InsertJob(s, lane) /\ UNCHANGED <<sessions, facts>>
  BY <1>1, MatchesMoveOn
<1>4. /\ \A s \in Sessions : sessions[s].rev \in Nat /\ sessions[s].facts \in Nat
      /\ \A j \in Jobs : jobs[j].rev \in Nat /\ jobs[j].facts \in Nat
  <2>1. /\ \A s \in Sessions : sessions[s] \in Session
        /\ \A j \in Jobs : jobs[j] \in Job
    BY ElementOfSeq, LenProperties DEF Typed, TypeOK
  <2> QED
    BY <2>1 DEF Session, Job
<1>5. ASSUME NEW s \in Sessions
      PROVE  /\ sessions'[s].rev = sessions[s].rev \/ sessions'[s].rev = sessions[s].rev + 1
             /\ sessions[s].facts # None => sessions'[s].facts # None
  BY <1>3, <1>4 DEF MatchMovesOn, MatchStays, MatchLeaves, MatchIsConfirmed, MatchIsAdvised
<1>6. \A s \in Sessions' :
        /\ sessions'[s].facts <= facts'
        /\ sessions'[s].state = "SELECTION_ADVICE_READY" => sessions'[s].advice # None
  <2>1. ASSUME NEW s \in Sessions
        PROVE  /\ sessions'[s].facts <= facts'
               /\ sessions'[s].state = "SELECTION_ADVICE_READY" => sessions'[s].advice # None
    BY <1>1, <1>3, <1>4 DEF StatesHaveRows, MatchMovesOn, MatchStays, MatchLeaves, MatchIsConfirmed,
                      MatchIsAdvised
  <2>2. CASE NewMatch
    <3> DEFINE new == [state |-> "SELECTION_OPEN", active |-> TRUE, rev |-> 1, meta |-> 0,
                       facts |-> None, advice |-> None, applied |-> None]
    <3>1. new \in Session /\ new.state = "SELECTION_OPEN" /\ new.facts = 0
      BY DEF Session, SelectionState
    <3>2. sessions' = Append(sessions, new) /\ sessions \in Seq(Session)
      BY <2>2 DEF NewMatch, Typed, TypeOK
    <3> HIDE DEF new
    <3> QED
      BY <1>3, <2>1, <3>1, <3>2, AppendIsSeq
  <2>3. ASSUME NEW s \in Sessions, NEW r, sessions' = [sessions EXCEPT ![s] = r]
        PROVE  Sessions' = Sessions
    BY <2>3
  <2> QED
    BY <2>1, <2>2, <2>3, SessionStep
<1>7. CASE JobsAreKept /\ SuccessAdvises
  <2>1. ASSUME NEW j \in Jobs
        PROVE  jobs'[j].facts <= facts' /\ sessions'[jobs'[j].sess].facts # None
    BY <1>1, <1>3, <1>4, <1>5, <1>7 DEF JobsHaveMatches, StatesHaveRows, JobsAreKept
  <2>2. ASSUME NEW j \in Jobs, jobs'[j].status \in Pending,
               sessions'[jobs[j].sess].active, jobs[j].facts = sessions'[jobs[j].sess].facts
        PROVE  /\ jobs[j].rev = sessions'[jobs[j].sess].rev
               /\ sessions'[jobs[j].sess].state = "SELECTION_OPEN"
    <3> DEFINE s == jobs[j].sess
    <3>1. s \in Sessions /\ jobs[j].status \in Pending
      BY <1>1, <1>7, <2>2 DEF JobsHaveMatches, JobsAreKept
    <3>2. CASE MatchStays(s)
      BY <1>1, <2>2, <3>1, <3>2 DEF MatchStays, AnswersMoveRevisions
    <3>3. CASE MatchIsConfirmed(s)
      BY <1>1, <1>3, <1>4, <2>2, <3>3 DEF MatchIsConfirmed, StatesHaveRows
    <3>4. CASE MatchIsAdvised(s)
      <4>1. PICK k \in Jobs : /\ jobs[k].sess = s /\ jobs[k].status \in Pending
                              /\ jobs'[k].status = "SUCCEEDED"
        BY <3>4 DEF MatchIsAdvised
      <4>2. k <= j /\ j <= k /\ j \in Nat /\ k \in Nat
        BY SMTT(30), <3>1, <4>1, LenProperties DEF BlockingIsLatest, Blocking, Typed, TypeOK
      <4>3. j = k
        BY <4>2
      <4> QED
        BY <2>2, <4>1, <4>3 DEF Pending
    <3>5. CASE MatchLeaves(s)
      <4>1. sessions[s].active /\ sessions[s].facts = jobs[j].facts
        BY <2>2, <3>1, <3>5 DEF MatchLeaves
      <4> QED
        BY <1>1, <2>2, <3>1, <3>5, <4>1 DEF MatchLeaves, AnswersMoveRevisions
    <3> QED
      BY <1>3, <3>1, <3>2, <3>3, <3>4, <3>5 DEF MatchMovesOn
  <2>3. ASSUME NEW j \in Jobs
        PROVE  /\ jobs[j].rev <= sessions'[jobs[j].sess].rev
               /\ jobs'[j].status = "SUCCEEDED" => jobs[j].rev < sessions'[jobs[j].sess].rev
    <3> DEFINE s == jobs[j].sess
    <3>1. s \in Sessions /\ sessions[s].rev \in Nat /\ jobs[j].rev \in Nat
      BY <1>1, <1>4 DEF JobsHaveMatches
    <3>2. /\ jobs[j].rev <= sessions[s].rev
          /\ jobs[j].status = "SUCCEEDED" => jobs[j].rev < sessions[s].rev
      BY <1>1 DEF AnswersMoveRevisions
    <3>3. (jobs[j].status # "SUCCEEDED" /\ jobs'[j].status = "SUCCEEDED") =>
             sessions'[s].rev = sessions[s].rev + 1
      BY <1>7 DEF SuccessAdvises
    <3>4. sessions'[s].rev = sessions[s].rev \/ sessions'[s].rev = sessions[s].rev + 1
      BY <1>5, <3>1
    <3> QED
      BY <3>1, <3>2, <3>3, <3>4
  <2> QED
    BY <1>2, <1>6, <1>7, <2>1, <2>2, <2>3
       DEF CurrentInv, StatesHaveRows, AnswersMoveRevisions, JobsAreKept
<1>8. ASSUME NEW s \in Sessions, NEW lane \in Lane, InsertJob(s, lane),
             UNCHANGED <<sessions, facts>>,
             sessions[s].state = "SELECTION_OPEN", sessions[s].facts # None,
             sessions[s].facts <= facts
      PROVE  CurrentInv'
  <2>1. /\ Jobs' = Jobs \cup {NewJob} /\ \A j \in Jobs : jobs'[j] = jobs[j]
        /\ jobs'[NewJob] = [sess |-> s, rev |-> sessions[s].rev, facts |-> sessions[s].facts,
                            lane |-> lane, status |-> "QUEUED", dispatches |-> 0]
    BY <1>8, InsertedJob
  <2>2. /\ jobs'[NewJob].sess = s /\ jobs'[NewJob].rev = sessions[s].rev
        /\ jobs'[NewJob].facts = sessions[s].facts /\ jobs'[NewJob].status = "QUEUED"
    BY <2>1
  <2>3. StatesHaveRows'
    BY <1>1, <1>8, <2>1, <2>2 DEF StatesHaveRows
  <2>4. AnswersMoveRevisions'
    BY <1>1, <1>4, <1>8, <2>1, <2>2 DEF AnswersMoveRevisions
  <2> QED
    BY <1>2, <2>3, <2>4 DEF CurrentInv
<1> QED
  <2>1. ASSUME NEW s \in Sessions, RequestMock(s) \/ SendToGemini(s)
        PROVE  /\ \E lane \in Lane : InsertJob(s, lane)
               /\ UNCHANGED <<sessions, facts>>
               /\ sessions[s].state = "SELECTION_OPEN" /\ sessions[s].facts # None
               /\ sessions[s].facts <= facts
    BY <1>1, <2>1 DEF RequestMock, SendToGemini, Lane, StatesHaveRows
  <2>2. CASE ~ \E s \in Sessions : RequestMock(s) \/ SendToGemini(s)
    <3>1. JobsAreKept
      BY <2>2, JobsStep
    <3>2. ~ \E s \in Sessions, lane \in Lane : InsertJob(s, lane)
      <4>1. Jobs' = Jobs
        BY <3>1 DEF JobsAreKept
      <4> QED
        BY <4>1, InsertedJob
    <3> QED
      BY <1>3, <1>7, <3>1, <3>2
  <2> QED
    BY <1>8, <2>1, <2>2

(* Both hold always.                                                       *)
LEMMA CurrentInvariant == Spec => [](BlockingIsLatest /\ CurrentInv)
<1>1. Init => CurrentInv
  BY DEF Init, CurrentInv, JobsHaveMatches, StatesHaveRows, AnswersMoveRevisions
<1> QED
  BY <1>1, CurrentNext, TypedInvariant, BlockingIsLatestInvariant, PTL DEF Spec

(* What an answer that should be applied finds, and does.                  *)
LEMMA CurrentAnswerApplies ==
  ASSUME Typed, BlockingIsLatest, AppliedOnce, CurrentInv, NEW j \in Jobs, NEW s \in Sessions,
         ApplyResult(j, "LEGAL"), sessions[s].active, jobs[j].sess = s,
         jobs[j].facts = sessions[s].facts, jobs[j].status \in Pending
  PROVE  sessions'[s].advice # None /\ jobs'[j].status = "SUCCEEDED"
<1>1. BindingHolds(j)
  BY DEF BindingHolds, IsLatest, BlockingIsLatest, Blocking, CurrentInv, AnswersMoveRevisions
<1>2. ~WasApplied(j)
  BY DEF AppliedOnce, Pending
<1>3. DispositionOf(j, "LEGAL") = "APPLIED"
  BY <1>1, <1>2 DEF DispositionOf
<1> DEFINE a == Len(advices) + 1
           rev == sessions[s].rev + 1
           r == [sessions[s] EXCEPT !.advice = a, !.state = "SELECTION_ADVICE_READY", !.rev = rev]
           q == [jobs[j] EXCEPT !.status = "SUCCEEDED"]
<1>4. sessions' = [sessions EXCEPT ![s] = r] /\ jobs' = [jobs EXCEPT ![j] = q]
  BY <1>3, Zenon DEF ApplyResult
<1>5. sessions[s] \in Session /\ jobs[j] \in Job /\ Len(advices) \in Nat
  BY ElementOfSeq, LenProperties DEF Typed, TypeOK
<1>6. r.advice = a /\ q.status = "SUCCEEDED" /\ a # None
  BY <1>5 DEF Session, Job
<1> HIDE DEF r, q
<1> QED
  BY <1>4, <1>6

(* An answer that should be applied is: a legal one, for the facts the     *)
(* active match still shows, whose job is unanswered when the adapter      *)
(* hands it over, whatever metadata was changed, whichever other results   *)
(* arrived and whichever processes stopped before                          *)
(* (_binding_failure_reason).                                              *)
THEOREM CurrentAnswersAreApplied == Spec => CurrentAnswerIsApplied
<1> DEFINE Inv == Typed /\ BlockingIsLatest /\ AppliedOnce /\ CurrentInv
           Applied == \A s \in Sessions :
             LET j == ui.job IN
             (/\ ui.step = "apply" /\ ui'.step \in {"idle", "reject"} /\ ui.arg = "LEGAL"
              /\ sessions[s].active
              /\ jobs[j].sess = s /\ jobs[j].facts = sessions[s].facts
              /\ jobs[j].status \in Pending)
             => (sessions'[s].advice # None /\ jobs'[j].status = "SUCCEEDED")
<1>1. Inv /\ [Next]_vars => [Applied]_vars
  <2> SUFFICES ASSUME Inv, Next, NEW s \in Sessions,
                      ui.step = "apply", ui'.step \in {"idle", "reject"}, ui.arg = "LEGAL",
                      sessions[s].active, jobs[ui.job].sess = s,
                      jobs[ui.job].facts = sessions[s].facts, jobs[ui.job].status \in Pending
               PROVE  sessions'[s].advice # None /\ jobs'[ui.job].status = "SUCCEEDED"
    OBVIOUS
  <2>1. ui' # ui
    OBVIOUS
  <2>2. Apply
    <3>1. ~Command
      BY DEF Command, NewMatch, AbortMatch, ConfirmFacts, UpdateMetadata, ApplySelection,
             RequestMock, SendToGemini, Redeliver
    <3>2. ~Callback /\ ~WorkerStep
      BY <2>1 DEF Callback, HandleSucceeded, HandleFailed, WorkerStep, WorkerSend, WorkerAnswer
    <3>3. ~Crash /\ ~Restart
      BY DEF Crash, Restart, Idle
    <3> QED
      BY <3>1, <3>2, <3>3 DEF Next, UiStep, MarkDispatched, StartAttempt, FailJob
  <2>3. ui.job \in Jobs
    BY DEF Typed, ControlOK
  <2> QED
    BY <2>2, <2>3, CurrentAnswerApplies DEF Apply
<1>2. AdviceIsSound => AppliedOnce
  BY DEF AdviceIsSound
<1>3. Spec => []Inv
  BY <1>2, CurrentInvariant, TypedInvariant, AdviceIsAlwaysSound, PTL
<1> QED
  BY <1>1, <1>3, PTL DEF Spec, CurrentAnswerIsApplied

(* The newest request of a match with one, and what projection shows of it.*)
LEMMA LatestOf ==
  ASSUME Typed, NEW s \in Sessions, NEW i \in Jobs, jobs[i].sess = s
  PROVE  \E j \in Jobs : IsLatest(j, s)
<1> DEFINE of == {j \in Jobs : jobs[j].sess = s}
<1>1. Jobs = 1..Len(jobs) /\ Len(jobs) \in Nat
  BY LenProperties DEF Typed, TypeOK
<1>2. of \subseteq Nat /\ of # {} /\ \A j \in of : j <= Len(jobs)
  BY <1>1
<1>3. \E j \in of : \A k \in of : k <= j
  <2> HIDE DEF of
  <2> QED
    BY <1>1, <1>2, LargestOf
<1> QED
  BY <1>3 DEF IsLatest

LEMMA OfferedOf ==
  ASSUME Typed, NEW s \in Sessions
  PROVE  \E status :
           /\ SelectionOffer(s) =
                Project(sessions[s].state, sessions[s].facts # None,
                        sessions[s].advice # None, status)
           /\ \/ status = "NONE" /\ \A j \in Jobs : jobs[j].sess # s
              \/ \E j \in Jobs : IsLatest(j, s) /\ jobs[j].status = status
<1> DEFINE of == {j \in Jobs : jobs[j].sess = s}
           status == IF of = {} THEN "NONE" ELSE jobs[CHOOSE j \in of : IsLatest(j, s)].status
<1>1. SelectionOffer(s) = Project(sessions[s].state, sessions[s].facts # None,
                                  sessions[s].advice # None, status)
  BY Zenon DEF SelectionOffer
<1>2. of = {} => status = "NONE" /\ \A j \in Jobs : jobs[j].sess # s
  OBVIOUS
<1>3. ASSUME of # {}
      PROVE  \E j \in Jobs : IsLatest(j, s) /\ jobs[j].status = status
  <2>1. \E j \in of : IsLatest(j, s)
    BY <1>3, LatestOf DEF IsLatest
  <2>2. /\ (CHOOSE j \in of : IsLatest(j, s)) \in of
        /\ IsLatest(CHOOSE j \in of : IsLatest(j, s), s)
    BY <2>1
  <2> QED
    BY <1>3, <2>2
<1> HIDE DEF status, of
<1> QED
  BY <1>1, <1>2, <1>3

(* projection's buttons before the battle, by state and status.            *)
LEMMA ProjectedBeforeBattle ==
  ASSUME NEW state, NEW reviewed \in BOOLEAN, NEW advised \in BOOLEAN, NEW status,
         NEW p, p = Project(state, reviewed, advised, status).primary
  PROVE  /\ p = "CONFIRM_SELECTION_FACTS" => state = "SELECTION_OPEN" /\ ~reviewed
         /\ p = "REQUEST_SELECTION_ADVICE" =>
              state = "SELECTION_OPEN" /\ reviewed /\ status \notin Blocking
         /\ p = "APPLY_SELECTION" => state = "SELECTION_ADVICE_READY"
         /\ p = "RESOLVE_DELIVERY_UNKNOWN" => status = "DELIVERY_UNKNOWN"
         /\ (p = NoCommand /\ state = "SELECTION_OPEN") => status \in Pending
<1>1. CASE status = "DELIVERY_UNKNOWN"
  BY <1>1 DEF Project, Offer, NoCommand
<1>2. CASE status # "DELIVERY_UNKNOWN" /\ state = "SELECTION_OPEN"
  BY <1>2 DEF Project, Offer, NoCommand, Blocking, Pending
<1>3. CASE status # "DELIVERY_UNKNOWN" /\ state # "SELECTION_OPEN"
  <2>1. CASE state = "SELECTION_ADVICE_READY"
    BY <1>3, <2>1 DEF Project, Offer, NoCommand
  <2>2. CASE state = "TURN_REVIEWED"
    BY <1>3, <2>2 DEF Project, Offer, NoCommand
  <2>3. CASE state \notin {"SELECTION_ADVICE_READY", "TURN_REVIEWED"}
    BY <1>3, <2>3 DEF Project, Offer, NoCommand
  <2> QED
    BY <2>1, <2>2, <2>3
<1> QED
  BY <1>1, <1>2, <1>3

(* The button shown before the battle is one the application accepts.      *)
LEMMA SelectionOffersAccepted ==
  Typed /\ BlockingIsLatest /\ CurrentInv /\ LedgerIsOfJobs => SelectionOffersHold
<1> SUFFICES ASSUME Typed, BlockingIsLatest, CurrentInv, LedgerIsOfJobs,
                    NEW s \in Sessions, sessions[s].active,
                    NEW p, p = SelectionOffer(s).primary
             PROVE  /\ p = "CONFIRM_SELECTION_FACTS" => \A j \in Jobs : jobs[j].sess # s
                    /\ p = "REQUEST_SELECTION_ADVICE" =>
                         /\ MayRequest(s)
                         /\ \A r \in ledger : IdentityOf(r) = Identity(s) =>
                              jobs[r.job].status \in Terminal \ {"SUCCEEDED"}
                    /\ p = "APPLY_SELECTION" => sessions[s].advice # None
                    /\ p = "RESOLVE_DELIVERY_UNKNOWN" =>
                         ~MayRequest(s) /\ \A r \in ledger : ~MayResend(s, r.job)
                    /\ p = NoCommand /\ sessions[s].state = "SELECTION_OPEN" =>
                         \E j \in Jobs : IsLatest(j, s) /\ jobs[j].status \in Pending
  BY DEF SelectionOffersHold
<1> DEFINE state == sessions[s].state
           reviewed == sessions[s].facts # None
           advised == sessions[s].advice # None
<1>1. /\ Jobs = 1..Len(jobs) /\ Len(jobs) \in Nat
      /\ \A j \in Jobs : jobs[j] \in Job
  BY ElementOfSeq, LenProperties DEF Typed, TypeOK
<1>2. PICK status : /\ SelectionOffer(s) = Project(state, reviewed, advised, status)
                    /\ \/ status = "NONE" /\ \A j \in Jobs : jobs[j].sess # s
                       \/ \E j \in Jobs : IsLatest(j, s) /\ jobs[j].status = status
  BY OfferedOf
<1>3. /\ p = "CONFIRM_SELECTION_FACTS" => ~reviewed
      /\ p = "REQUEST_SELECTION_ADVICE" => status \notin Blocking
      /\ p = "APPLY_SELECTION" => state = "SELECTION_ADVICE_READY"
      /\ p = "RESOLVE_DELIVERY_UNKNOWN" => status = "DELIVERY_UNKNOWN"
      /\ (p = NoCommand /\ state = "SELECTION_OPEN") => status \in Pending
  <2>1. reviewed \in BOOLEAN /\ advised \in BOOLEAN
    OBVIOUS
  <2>2. p = Project(state, reviewed, advised, status).primary
    BY <1>2
  <2> HIDE DEF reviewed, advised, state
  <2> QED
    BY <2>1, <2>2, ProjectedBeforeBattle
<1>4. ~reviewed => \A j \in Jobs : jobs[j].sess # s
  BY DEF CurrentInv, StatesHaveRows
<1>5. ASSUME NEW j \in Jobs, NEW k \in Jobs, IsLatest(j, s), IsLatest(k, s)
      PROVE  j = k
  BY <1>1, <1>5 DEF IsLatest
<1>6. status \notin Blocking => MayRequest(s)
  BY <1>2, <1>5 DEF MayRequest, IsLatest
<1>7. ASSUME status \notin Blocking, NEW r \in ledger, IdentityOf(r) = Identity(s)
      PROVE  jobs[r.job].status \in Terminal \ {"SUCCEEDED"}
  <2>1. r.job \in Jobs /\ IdentityOf(jobs[r.job]) = Identity(s)
    BY <1>7 DEF LedgerIsOfJobs
  <2>2. jobs[r.job].sess = s /\ jobs[r.job].rev = sessions[s].rev
    BY <2>1 DEF IdentityOf, Identity
  <2>3. sessions[s].rev \in Nat /\ jobs[r.job].status \in JobStatus
    <3>1. sessions[s] \in Session /\ jobs[r.job] \in Job
      BY <1>1, <2>1, ElementOfSeq DEF Typed, TypeOK
    <3> QED
      BY <3>1 DEF Session, Job
  <2>4. jobs[r.job].status # "SUCCEEDED"
    BY <2>1, <2>2, <2>3 DEF CurrentInv, AnswersMoveRevisions
  <2>5. jobs[r.job].status \notin Pending
    BY <1>2, <1>5, <1>7, <2>1, <2>2 DEF BlockingIsLatest, Blocking, IsLatest
  <2> QED
    BY <2>3, <2>4, <2>5 DEF JobStatus
<1>8. state = "SELECTION_ADVICE_READY" => advised
  BY DEF CurrentInv, StatesHaveRows
<1>9. status = "DELIVERY_UNKNOWN" => ~MayRequest(s) /\ \A r \in ledger : ~MayResend(s, r.job)
  <2> SUFFICES ASSUME status = "DELIVERY_UNKNOWN"
               PROVE  ~MayRequest(s) /\ \A r \in ledger : ~MayResend(s, r.job)
    OBVIOUS
  <2>1. PICK j \in Jobs : IsLatest(j, s) /\ jobs[j].status = "DELIVERY_UNKNOWN"
    BY <1>2
  <2>2. ~MayRequest(s)
    BY <2>1 DEF MayRequest, Blocking
  <2> QED
    BY <1>5, <2>1, <2>2 DEF MayResend, EndedTransiently, IsLatest
<1>10. status \in Pending => \E j \in Jobs : IsLatest(j, s) /\ jobs[j].status \in Pending
  BY <1>2 DEF Pending
<1> QED
  BY <1>3, <1>4, <1>6, <1>7, <1>8, <1>9, <1>10

(* Before the battle the window shows only what the application accepts,   *)
(* and nothing only while an answer is on its way; where a request is      *)
(* shown though its one attempt was made, that attempt failed              *)
(* (projection, _guard_provider_request, reserve_gemini_selection_attempt).*)
THEOREM SelectionOffersAlwaysHold == Spec => []SelectionOffersHold
<1>1. LedgerInv => LedgerIsOfJobs
  BY DEF LedgerInv
<1> QED
  BY <1>1, SelectionOffersAccepted, TypedInvariant, CurrentInvariant, AccountsInvariant, PTL

===========================================================================
