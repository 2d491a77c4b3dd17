------------------------- MODULE TurnAdvice_proofs -------------------------
(***************************************************************************)
(* Theorems about TurnAdvice, for every number of matches, turns,          *)
(* confirmations, jobs and process stops, and any set of lanes in use.     *)
(***************************************************************************)
EXTENDS TurnAdvice, SequenceLemmas, FiniteSetTheorems

---------------------------------------------------------------------------
(* Type correctness.                                                       *)

(* The threads name existing jobs.                                         *)
ControlOK ==
  /\ ui.step \in {"dispatch", "apply", "reject", "fail"} => ui.job \in Jobs
  /\ \A l \in Remote : workers[l].phase # "none" => workers[l].job \in Jobs

Typed == TypeOK /\ ControlOK

USE DEF None, Jobs, NewJob

(* The groups of variables most actions leave alone.                       *)
USE DEF battle, record, provider, threads, counts

(* The initial position of the threads is well formed.                     *)
LEMMA RestTyped ==
  /\ Idle \in Ui /\ Idle.step = "idle"
  /\ [Idle EXCEPT !.step = "down"] \in Ui /\ [Idle EXCEPT !.step = "down"].step = "down"
  /\ NoWorker \in Worker /\ NoWorker.phase = "none"
BY DEF Idle, NoWorker, Ui, Worker, Step, Phase, Args, Opponent

(* The empty database is typed.                                            *)
LEMMA TypedInit == Init => Typed
<1> SUFFICES ASSUME Init PROVE Typed
  OBVIOUS
<1>1. /\ <<>> \in Seq(Facts) /\ <<>> \in Seq(State) /\ <<>> \in Seq(SwitchSet)
      /\ <<>> \in Seq(Entry) /\ <<>> \in Seq(Completion) /\ <<>> \in Seq(Draft)
      /\ <<>> \in Seq(Job) /\ <<>> \in Seq(Seq(Disposition)) /\ <<>> \in Seq(Advice)
      /\ Len(<<>>) = 0
  BY EmptySeq
<1>2. session \in Session
  BY DEF Init, Session, BattleState
<1>3. /\ adapters \in [Remote -> {"idle", "busy", "releasing"}]
      /\ workers \in [Remote -> Worker]
      /\ \A l \in Remote : workers[l].phase = "none"
      /\ ui \in Ui /\ ui.step = "idle"
  BY RestTyped DEF Init
<1>4. TypeOK
  BY <1>1, <1>2, <1>3 DEF Init, TypeOK
<1>5. QED
  BY <1>3, <1>4 DEF Typed, ControlOK

(* The updates the commands make of the match's row keep it well formed    *)
(* and move its revision by one.                                           *)
LEMMA SessionUpdates ==
  ASSUME NEW r \in Session
  PROVE  LET Revised(q) == q \in Session /\ q.rev = r.rev + 1 IN
         /\ Revised([r EXCEPT !.active = FALSE, !.state = "ABORTED", !.rev = @ + 1])
         /\ \A n \in Nat :
              Revised([r EXCEPT !.turn = n, !.board = None, !.advice = None,
                                !.state = "TURN_CAPTURE_PENDING", !.rev = @ + 1])
         /\ \A b \in Nat :
              Revised([r EXCEPT !.board = b, !.advice = None,
                                !.state = "TURN_REVIEWED", !.rev = @ + 1])
         /\ \A a \in Nat : Revised([r EXCEPT !.advice = a, !.rev = @ + 1])
         /\ Revised([r EXCEPT !.state = "TURN_RECORDED", !.rev = @ + 1])
<1>1. r.rev + 1 \in Nat
  BY DEF Session
<1>2. \A m \in Nat : LET q == [r EXCEPT !.active = FALSE, !.state = "ABORTED", !.rev = m]
                     IN q \in Session /\ q.rev = m
  BY DEF Session, BattleState
<1>3. \A n, m \in Nat :
        LET q == [r EXCEPT !.turn = n, !.board = None, !.advice = None,
                           !.state = "TURN_CAPTURE_PENDING", !.rev = m]
        IN q \in Session /\ q.rev = m
  BY DEF Session, BattleState
<1>4. \A b, m \in Nat :
        LET q == [r EXCEPT !.board = b, !.advice = None, !.state = "TURN_REVIEWED", !.rev = m]
        IN q \in Session /\ q.rev = m
  BY DEF Session, BattleState
<1>5. \A a, m \in Nat : LET q == [r EXCEPT !.advice = a, !.rev = m]
                        IN q \in Session /\ q.rev = m
  BY DEF Session
<1>6. \A m \in Nat : LET q == [r EXCEPT !.state = "TURN_RECORDED", !.rev = m]
                     IN q \in Session /\ q.rev = m
  BY DEF Session, BattleState
<1>7. QED
  BY <1>1, <1>2, <1>3, <1>4, <1>5, <1>6

(* The commands on the match alone keep the types.                         *)
LEMMA TypedMatch ==
  Typed /\ (BeginBattle \/ AbortMatch \/ StartTurnCapture) => Typed'
<1> SUFFICES ASSUME Typed, BeginBattle \/ AbortMatch \/ StartTurnCapture PROVE Typed'
  OBVIOUS
<1>1. session \in Session /\ match \in Nat
  BY DEF Typed, TypeOK
<1>2. session' \in Session /\ match' \in Nat
  <2>1. CASE BeginBattle
    BY <1>1, <2>1 DEF BeginBattle, Session, BattleState
  <2>2. CASE AbortMatch
    BY <1>1, <2>2, SessionUpdates, Zenon DEF AbortMatch
  <2>3. CASE StartTurnCapture
    <3>1. 1 \in Nat
      OBVIOUS
    <3>2. QED
      BY <1>1, <2>3, <3>1, SessionUpdates, Zenon DEF StartTurnCapture, PendingTurn
  <2>4. QED
    BY <2>1, <2>2, <2>3
<1>3. /\ UNCHANGED <<record, provider, threads, ui, counts>>
      /\ complains' \in BOOLEAN
  BY DEF BeginBattle, AbortMatch, StartTurnCapture
<1>4. QED
  BY <1>2, <1>3 DEF Typed, TypeOK, ControlOK

(* The updates the steps make of a job keep it a job for the same request. *)
SameRequest(r, s) ==
  /\ r.match = s.match /\ r.turn = s.turn /\ r.rev = s.rev
  /\ r.lane = s.lane /\ r.snap = s.snap /\ r.switches = s.switches

LEMMA JobUpdates ==
  ASSUME NEW r \in Job
  PROVE  /\ \A x \in JobStatus : LET q == [r EXCEPT !.status = x]
                                 IN q \in Job /\ SameRequest(q, r) /\ q.status = x
         /\ LET q == [r EXCEPT !.status = "IN_FLIGHT", !.dispatches = @ + 1]
            IN q \in Job /\ SameRequest(q, r) /\ q.status = "IN_FLIGHT"
         /\ r.status \in JobStatus
         /\ Recovered(r.status) \in JobStatus
         /\ \A reason : AfterFailure(r.status, reason) \in JobStatus
<1>1. r.dispatches + 1 \in Nat /\ r.status \in JobStatus
  BY DEF Job
<1>2. \A x \in JobStatus : LET q == [r EXCEPT !.status = x]
                           IN q \in Job /\ SameRequest(q, r) /\ q.status = x
  BY DEF Job, SameRequest
<1>3. \A n \in Nat : LET q == [r EXCEPT !.status = "IN_FLIGHT", !.dispatches = n]
                     IN q \in Job /\ SameRequest(q, r) /\ q.status = "IN_FLIGHT"
  BY DEF Job, SameRequest, JobStatus, Pending
<1>4. Recovered(r.status) \in JobStatus
  BY <1>1 DEF Recovered, JobStatus, Pending, Terminal
<1>5. \A reason : AfterFailure(r.status, reason) \in JobStatus
  BY <1>1 DEF AfterFailure, JobStatus, Pending, Terminal
<1>6. QED
  BY <1>1, <1>2, <1>3, <1>4, <1>5

(* Every job is one, and there are as many as the table is long.           *)
LEMMA JobsAreJobs ==
  ASSUME Typed
  PROVE  /\ jobs \in Seq(Job) /\ Len(jobs) \in Nat /\ Jobs = 1..Len(jobs)
         /\ \A j \in Jobs : jobs[j] \in Job /\ j \in Nat
BY ElementOfSeq, LenProperties DEF Typed, TypeOK

(* What CancelPending makes of each job.                                   *)
Cancelled(j) ==
  IF IsLatest(j) /\ jobs[j].status \in Pending
  THEN [jobs[j] EXCEPT !.status = "CANCELLED"] ELSE jobs[j]

LEMMA CancelKeepsJobs ==
  ASSUME Typed, CancelPending
  PROVE  /\ jobs' \in Seq(Job) /\ Len(jobs') = Len(jobs) /\ Jobs' = Jobs
         /\ \A j \in Jobs : jobs'[j] = Cancelled(j) /\ SameRequest(jobs'[j], jobs[j])
<1>1. jobs' = [j \in Jobs |-> Cancelled(j)]
  BY Zenon DEF CancelPending, Cancelled
<1>2. "CANCELLED" \in JobStatus
  BY DEF JobStatus, Terminal
<1>3. \A j \in Jobs : Cancelled(j) \in Job /\ SameRequest(Cancelled(j), jobs[j])
  <2> TAKE j \in Jobs
  <2>1. CASE IsLatest(j) /\ jobs[j].status \in Pending
    BY <1>2, <2>1, JobsAreJobs, JobUpdates, Zenon DEF Cancelled
  <2>2. CASE ~(IsLatest(j) /\ jobs[j].status \in Pending)
    BY <2>2, JobsAreJobs DEF Cancelled, SameRequest
  <2>3. QED
    BY <2>1, <2>2
<1>4. \A j \in Jobs : jobs'[j] = Cancelled(j)
  BY <1>1
<1>5. jobs' = [j \in Jobs |-> jobs'[j]]
  BY <1>1
<1>6. jobs' \in Seq(Job) /\ Len(jobs') = Len(jobs) /\ Jobs' = Jobs
  BY <1>3, <1>4, <1>5, JobsAreJobs, RewriteIsSeq
<1>7. QED
  BY <1>3, <1>4, <1>6

(* The first transaction of a confirmation keeps the types.                *)
LEMMA TypedConfirmTurnFacts ==
  ASSUME Typed, NEW o \in Opponent, ConfirmTurnFacts(o)
  PROVE  Typed'
<1>1. /\ match \in Nat /\ session \in Session /\ rejections \in Nat
      /\ facts \in Seq(Facts) /\ Len(facts) \in Nat
  BY LenProperties DEF Typed, TypeOK
<1>2. session.turn \in Nat /\ session.board \in Nat /\ Inputs + 1 \in Nat
  BY <1>1 DEF Session, Inputs
<1>3. facts' \in Seq(Facts)
  <2>1. [match |-> match, turn |-> session.turn, input |-> Inputs + 1,
         prev |-> session.board] \in Facts
    BY <1>1, <1>2 DEF Facts
  <2>2. QED
    BY <1>1, <2>1, AppendIsSeq DEF ConfirmTurnFacts
<1>4. session' \in Session
  <2>1. Len(facts) + 1 \in Nat
    BY <1>1
  <2>2. QED
    BY <1>1, <2>1, SessionUpdates, Zenon DEF ConfirmTurnFacts
<1>5. jobs' \in Seq(Job) /\ Len(jobs') = Len(jobs) /\ Jobs' = Jobs
  BY CancelKeepsJobs, JobsAreJobs DEF ConfirmTurnFacts
<1>6. ui' \in Ui /\ ui'.step = "state"
  BY <1>2, RestTyped DEF ConfirmTurnFacts, Ui, Step
<1>7. UNCHANGED <<match, states, switches, entries, completions, drafts, results, ledger,
                  advices, threads, counts>> /\ complains' \in BOOLEAN
  BY DEF ConfirmTurnFacts
<1>8. TypeOK'
  BY <1>3, <1>4, <1>5, <1>6, <1>7 DEF Typed, TypeOK
<1>9. ControlOK'
  BY <1>5, <1>6, <1>7 DEF Typed, ControlOK
<1>10. QED
  BY <1>8, <1>9 DEF Typed

(* So does a refused confirmation.                                         *)
LEMMA TypedRejectTurnFacts ==
  ASSUME Typed, NEW o \in Opponent, RejectTurnFacts(o)
  PROVE  Typed'
<1>1. rejections \in Nat /\ facts \in Seq(Facts) /\ Len(facts) \in Nat
  BY LenProperties DEF Typed, TypeOK
<1>2. ui' \in Ui /\ ui'.step \in {"state", "idle"}
  <2>1. Inputs + 1 \in Nat
    BY <1>1 DEF Inputs
  <2>2. /\ [Idle EXCEPT !.step = "state", !.input = Inputs + 1, !.opponent = o] \in Ui
        /\ [Idle EXCEPT !.step = "state", !.input = Inputs + 1, !.opponent = o].step = "state"
    BY <2>1, RestTyped DEF Ui, Step
  <2>3. QED
    BY <2>2, RestTyped DEF RejectTurnFacts
<1>3. /\ rejections' \in Nat /\ complains' \in BOOLEAN
      /\ UNCHANGED <<battle, record, provider, threads, redelivered, crashes>>
  BY <1>1 DEF RejectTurnFacts
<1>4. QED
  BY <1>2, <1>3 DEF Typed, TypeOK, ControlOK

(* The second transaction keeps the types.                                 *)
LEMMA TypedRecordState == Typed /\ RecordState => Typed'
<1> SUFFICES ASSUME Typed, RecordState PROVE Typed'
  OBVIOUS
<1>1. /\ match \in Nat /\ session \in Session /\ ui \in Ui
      /\ states \in Seq(State) /\ Len(states) \in Nat /\ DOMAIN states = 1..Len(states)
      /\ switches \in Seq(SwitchSet) /\ Len(switches) = Len(states)
      /\ entries \in Seq(Entry)
  BY LenProperties DEF Typed, TypeOK
<1>2. /\ session.turn \in Nat /\ session.rev \in Nat
      /\ ui.input \in Nat /\ ui.opponent \in Opponent
  BY <1>1 DEF Session, Ui
<1>3. states' \in Seq(State) /\ switches' \in Seq(SwitchSet) /\ Len(switches') = Len(states')
  <2>1. LatestStateOrNone \in Nat
    <3>1. CASE \E i \in DOMAIN states : IsLatestState(i)
      <4>1. (CHOOSE i \in DOMAIN states : IsLatestState(i)) \in DOMAIN states
        BY <3>1
      <4>2. QED
        BY <1>1, <3>1, <4>1 DEF LatestStateOrNone
    <3>2. QED
      BY <3>1 DEF LatestStateOrNone
  <2> DEFINE new == [match |-> match, turn |-> session.turn, rev |-> session.rev,
                     input |-> ui.input, opponent |-> ui.opponent,
                     prev |-> LatestStateOrNone]
  <2>2. new \in State
    BY <1>1, <1>2, <2>1 DEF State
  <2>3. CASE AppendState
    <3>1. states' = Append(states, new) /\ switches' = Append(switches, 0)
      BY <2>3 DEF AppendState
    <3>2. 0 \in SwitchSet
      BY DEF SwitchSet
    <3> HIDE DEF new
    <3>3. QED
      BY <1>1, <2>2, <3>1, <3>2, AppendIsSeq
  <2>4. QED
    BY <1>1, <2>3 DEF RecordState
<1>4. entries' \in Seq(Entry)
  <2>1. CASE EntersField(ui.opponent) /\ AddEntry(ui.opponent)
    <3> DEFINE old == [e \in DOMAIN entries |->
                         [entries[e] EXCEPT !.handled = @ \/ NewestPending(e)]]
               new == [match |-> match, turn |-> session.turn, species |-> ui.opponent,
                       state |-> Len(states) + 1, handled |-> FALSE]
    <3>1. new \in Entry
      <4>1. ui.opponent \in Species
        BY <1>2, <2>1 DEF EntersField, Opponent
      <4>2. QED
        BY <1>1, <1>2, <4>1 DEF Entry
    <3>2. old \in Seq(Entry)
      <4>1. \A e \in DOMAIN entries : entries[e] \in Entry
        BY <1>1, ElementOfSeq, LenProperties
      <4>2. \A x \in Entry : \A b : [x EXCEPT !.handled = x.handled \/ b] \in Entry
        <5>1. \A x \in Entry : \A b \in BOOLEAN : [x EXCEPT !.handled = b] \in Entry
          BY DEF Entry
        <5>2. \A x : \A b : (x \/ b) \in BOOLEAN
          BY Zenon
        <5>3. QED
          BY <5>1, <5>2, Zenon
      <4>3. \A e \in DOMAIN entries : old[e] \in Entry
        BY <4>1, <4>2, Zenon
      <4>4. old = [e \in DOMAIN entries |-> old[e]]
        OBVIOUS
      <4> HIDE DEF old
      <4>5. QED
        BY <1>1, <4>3, <4>4, RewriteIsSeq
    <3>3. entries' = Append(old, new)
      BY <2>1, Zenon DEF AddEntry
    <3> HIDE DEF old, new
    <3>4. QED
      BY <3>1, <3>2, <3>3, AppendIsSeq
  <2>2. QED
    BY <1>1, <2>1 DEF RecordState, AppendState
<1>5. /\ ui' = Idle /\ complains' \in BOOLEAN
      /\ UNCHANGED <<battle, facts, completions, drafts, provider, threads, counts>>
  BY DEF RecordState, AppendState, Typed, TypeOK
<1>6. TypeOK'
  BY <1>3, <1>4, <1>5, RestTyped DEF Typed, TypeOK
<1>7. ControlOK'
  BY <1>5, RestTyped DEF Typed, ControlOK
<1>8. QED
  BY <1>6, <1>7 DEF Typed

(* The answer to an entry prompt and the choice of switches keep the types.*)
LEMMA TypedHandleEntry ==
  ASSUME Typed, NEW e \in DOMAIN entries, HandleEntry(e)
  PROVE  Typed'
<1>1. entries \in Seq(Entry) /\ entries[e] \in Entry
  BY ElementOfSeq, LenProperties DEF Typed, TypeOK
<1>2. entries' \in Seq(Entry)
  <2>1. \A x \in Entry : [x EXCEPT !.handled = TRUE] \in Entry
    BY DEF Entry
  <2>2. QED
    BY <1>1, <2>1, ReplaceIsSeq DEF HandleEntry
<1>3. UNCHANGED <<battle, facts, states, switches, completions, drafts, provider, threads,
                  ui, complains, counts>>
  BY DEF HandleEntry
<1>4. QED
  BY <1>2, <1>3 DEF Typed, TypeOK, ControlOK

LEMMA TypedConfirmSwitches ==
  ASSUME Typed, NEW i \in DOMAIN states, NEW choice \in SwitchSet, ConfirmSwitches(i, choice)
  PROVE  Typed'
<1>1. switches' \in Seq(SwitchSet) /\ Len(switches') = Len(switches)
  BY ReplaceIsSeq DEF ConfirmSwitches, Typed, TypeOK
<1>2. /\ complains' \in BOOLEAN
      /\ UNCHANGED <<battle, facts, states, entries, completions, drafts, provider, threads,
                     ui, counts>>
  BY DEF ConfirmSwitches
<1>3. QED
  BY <1>1, <1>2 DEF Typed, TypeOK, ControlOK

(* A new job is well formed and disturbs no other.                         *)
LEMMA InsertedJob ==
  ASSUME Typed, NEW lane \in Lane, NEW snap \in Nat, NEW choice \in SwitchSet,
         InsertJob(lane, snap, choice)
  PROVE  /\ jobs' \in Seq(Job) /\ Len(jobs') = NewJob
         /\ results' \in Seq(Seq(Disposition)) /\ Len(results') = NewJob
         /\ Jobs' = Jobs \cup {NewJob} /\ NewJob \in Nat /\ NewJob \notin Jobs
         /\ \A j \in Jobs : j < NewJob /\ jobs'[j] = jobs[j]
         /\ jobs'[NewJob].match = match /\ jobs'[NewJob].turn = session.turn
         /\ jobs'[NewJob].rev = session.rev
         /\ jobs'[NewJob].lane = lane /\ jobs'[NewJob].snap = snap
         /\ jobs'[NewJob].status = "QUEUED"
<1> DEFINE new == [match |-> match, turn |-> session.turn, rev |-> session.rev,
                   lane |-> lane, snap |-> snap, switches |-> choice,
                   status |-> "QUEUED", dispatches |-> 0]
<1>1. match \in Nat /\ session.turn \in Nat /\ session.rev \in Nat
  BY DEF Typed, TypeOK, Session
<1>2. /\ new \in Job /\ new.match = match /\ new.turn = session.turn
      /\ new.rev = session.rev /\ new.lane = lane /\ new.snap = snap /\ new.status = "QUEUED"
  BY <1>1 DEF Job, JobStatus, Pending
<1>3. jobs' = Append(jobs, new)
  BY Zenon DEF InsertJob
<1> HIDE DEF new
<1>4. /\ jobs' \in Seq(Job) /\ Len(jobs') = NewJob /\ Jobs' = Jobs \cup {NewJob}
      /\ \A j \in Jobs : jobs'[j] = jobs[j]
      /\ jobs'[NewJob] = new
  BY <1>2, <1>3, JobsAreJobs, AppendIsSeq
<1>5. results' \in Seq(Seq(Disposition)) /\ Len(results') = NewJob
  <2>1. results \in Seq(Seq(Disposition)) /\ Len(results) = Len(jobs)
    BY DEF Typed, TypeOK
  <2>2. <<>> \in Seq(Disposition)
    BY EmptySeq
  <2>3. QED
    BY <2>1, <2>2, AppendIsSeq DEF InsertJob
<1>6. QED
  BY <1>2, <1>4, <1>5, JobsAreJobs

(* A reservation of the new job is a ledger row.                           *)
LEMMA ReservedRow ==
  ASSUME Typed, NEW rich \in BOOLEAN, NEW snap \in Nat, Reserve(rich, snap)
  PROVE  /\ ledger' \subseteq LedgerRow
         /\ ~Reserved(rich, snap)
         /\ \E row \in LedgerRow :
              /\ ledger' = ledger \cup {row}
              /\ row.match = match /\ row.turn = session.turn /\ row.rich = rich
              /\ row.snap = snap /\ row.job = NewJob
<1> DEFINE row == [match |-> match, turn |-> session.turn, rev |-> session.rev,
                   rich |-> rich, snap |-> snap, job |-> NewJob]
<1>1. match \in Nat /\ session.turn \in Nat /\ session.rev \in Nat
  BY DEF Typed, TypeOK, Session
<1>2. NewJob \in Nat
  BY JobsAreJobs
<1>3. row \in LedgerRow
  BY <1>1, <1>2 DEF LedgerRow
<1>4. ledger' = ledger \cup {row} /\ ~Reserved(rich, snap)
  BY Zenon DEF Reserve
<1>5. ledger \subseteq LedgerRow
  BY DEF Typed, TypeOK
<1>6. QED
  BY <1>3, <1>4, <1>5

(* A job is requested: the guards the three lanes share, and the lane's.   *)
Requested(lane, snap, choice) ==
  /\ lane \in Lane /\ snap \in Nat /\ choice \in SwitchSet
  /\ \A j \in Jobs : IsLatest(j) => jobs[j].status \notin Pending
  /\ lane # "RICH" => \A j \in Jobs : IsLatest(j) => jobs[j].status \notin Blocking
  /\ Reserve(lane = "RICH", snap)
  /\ InsertJob(lane, snap, choice)

RequestStep ==
  \/ RequestMock \/ RequestLegacy \/ \E i \in DOMAIN states : RequestRich(i)

(* The three requests are instances of it, and put their job in the hands  *)
(* of the UI thread.                                                       *)
LEMMA RequestsAreRequested ==
  ASSUME Typed, RequestStep
  PROVE  /\ \E lane, snap, choice : Requested(lane, snap, choice)
         /\ UNCHANGED <<battle, record, advices, threads, counts>>
         /\ complains' \in BOOLEAN
         /\ ui' \in [step: {"dispatch", "apply"}, job: {NewJob}, arg: Args,
                     input: {0}, opponent: {Unknown}]
<1>1. session.board \in Nat /\ 0 \in SwitchSet
  BY DEF Typed, TypeOK, Session, SwitchSet
<1>2. ASSUME NEW lane \in {"MOCK", "LEGACY"}, RequestOnFacts(lane)
      PROVE  Requested(lane, session.board, 0)
  <2>1. lane \in Lane /\ lane # "RICH"
    BY DEF Lane, Remote
  <2>2. (lane = "RICH") = FALSE
    BY <2>1
  <2>3. QED
    BY <1>1, <1>2, <2>1, <2>2 DEF RequestOnFacts, Requested, Blocking
<1>3. CASE RequestMock
  <2>1. \E lane, snap, choice : Requested(lane, snap, choice)
    BY <1>2, <1>3 DEF RequestMock
  <2>2. QED
    BY <1>3, <2>1 DEF RequestMock, Idle, Args, Payload
<1>4. CASE RequestLegacy
  <2>1. \E lane, snap, choice : Requested(lane, snap, choice)
    BY <1>2, <1>4 DEF RequestLegacy
  <2>2. QED
    BY <1>4, <2>1 DEF RequestLegacy, Idle, Args
<1>5. CASE \E i \in DOMAIN states : RequestRich(i)
  <2>1. PICK i \in DOMAIN states : RequestRich(i)
    BY <1>5
  <2>2. i \in Nat /\ switches[i] \in SwitchSet /\ "RICH" \in Lane
    BY ElementOfSeq, LenProperties DEF Typed, TypeOK, Lane, Remote
  <2>3. Reserve("RICH" = "RICH", i)
    <3>1. ("RICH" = "RICH") = TRUE
      OBVIOUS
    <3>2. QED
      BY <2>1, <3>1 DEF RequestRich
  <2>4. Requested("RICH", i, switches[i])
    BY <2>1, <2>2, <2>3 DEF RequestRich, Requested
  <2>5. QED
    BY <2>1, <2>4 DEF RequestRich, Idle, Args
<1>6. QED
  BY <1>3, <1>4, <1>5 DEF RequestStep

(* A request keeps the types.                                              *)
LEMMA TypedRequest == Typed /\ RequestStep => Typed'
<1> SUFFICES ASSUME Typed, RequestStep PROVE Typed'
  OBVIOUS
<1>1. PICK lane, snap, choice : Requested(lane, snap, choice)
  BY RequestsAreRequested
<1>2. /\ jobs' \in Seq(Job) /\ Len(jobs') = NewJob
      /\ results' \in Seq(Seq(Disposition)) /\ Len(results') = NewJob
      /\ Jobs' = Jobs \cup {NewJob} /\ NewJob \in Nat
  BY <1>1, InsertedJob DEF Requested
<1>3. ledger' \subseteq LedgerRow
  <2>1. (lane = "RICH") \in BOOLEAN
    OBVIOUS
  <2>2. QED
    BY <1>1, <2>1, ReservedRow DEF Requested
<1>4. ui' \in Ui /\ ui'.job = NewJob
  BY <1>2, RequestsAreRequested DEF Ui, Step, Opponent
<1>5. UNCHANGED <<battle, record, advices, threads, counts>> /\ complains' \in BOOLEAN
  BY RequestsAreRequested
<1>6. TypeOK'
  BY <1>2, <1>3, <1>4, <1>5 DEF Typed, TypeOK
<1>7. ControlOK'
  BY <1>2, <1>4, <1>5 DEF Typed, ControlOK
<1>8. QED
  BY <1>6, <1>7 DEF Typed

(* The hand-over of a job to its worker keeps the types.                   *)
LEMMA TypedDispatch == Typed /\ Dispatch => Typed'
<1> SUFFICES ASSUME Typed, Dispatch PROVE Typed'
  OBVIOUS
<1> DEFINE j == ui.job
           l == jobs[j].lane
           running == [NoWorker EXCEPT !.phase = "running", !.job = j]
<1>1. j \in Jobs /\ jobs[j] \in Job /\ j \in Nat
  BY JobsAreJobs DEF Dispatch, Typed, ControlOK
<1>2. jobs' \in Seq(Job) /\ Len(jobs') = Len(jobs) /\ Jobs' = Jobs
  <2>1. \E r \in Job : jobs' = [jobs EXCEPT ![j] = r]
    BY <1>1, JobUpdates, Zenon DEF Dispatch
  <2> HIDE DEF j
  <2>2. QED
    BY <1>1, <2>1, JobsAreJobs, ReplaceIsSeq
<1>3. running \in Worker /\ running.job = j
  BY <1>1, RestTyped DEF Worker, Phase
<1>4. /\ workers' = [workers EXCEPT ![l] = running]
      /\ adapters' = [adapters EXCEPT ![l] = "busy"]
      /\ ui' = Idle
      /\ UNCHANGED <<battle, record, results, ledger, advices, complains, counts>>
  BY DEF Dispatch
<1>5. /\ workers' \in [Remote -> Worker]
      /\ adapters' \in [Remote -> {"idle", "busy", "releasing"}]
      /\ \A k \in Remote : workers'[k] = workers[k] \/ workers'[k] = running
  <2> HIDE DEF j, l, running
  <2>1. workers \in [Remote -> Worker] /\ adapters \in [Remote -> {"idle", "busy", "releasing"}]
    BY DEF Typed, TypeOK
  <2>2. QED
    BY <1>3, <1>4, <2>1
<1>6. TypeOK'
  BY <1>2, <1>4, <1>5, RestTyped DEF Typed, TypeOK
<1>7. ControlOK'
  <2> HIDE DEF running, l
  <2>1. QED
    BY <1>1, <1>2, <1>3, <1>4, <1>5, RestTyped DEF Typed, ControlOK
<1>8. QED
  BY <1>6, <1>7 DEF Typed

(* The worker threads keep the types.                                      *)
LEMMA TypedWorkerAnswer ==
  ASSUME Typed, NEW l \in Remote, WorkerAnswer(l)
  PROVE  Typed'
<1>1. workers \in [Remote -> Worker] /\ workers[l].job \in Jobs /\ workers[l] \in Worker
  BY DEF WorkerAnswer, Typed, TypeOK, ControlOK
<1>2. \E w \in Worker : workers' = [workers EXCEPT ![l] = w] /\ w.job = workers[l].job
  <2>1. \A w \in Worker, a \in Args : LET v == [w EXCEPT !.phase = "succeeded", !.arg = a]
                                      IN v \in Worker /\ v.job = w.job
    BY DEF Worker, Phase
  <2>2. \A w \in Worker, a \in Args : LET v == [w EXCEPT !.phase = "failed", !.arg = a]
                                      IN v \in Worker /\ v.job = w.job
    BY DEF Worker, Phase
  <2>3. CASE \E p \in Payload :
               workers' = [workers EXCEPT ![l].phase = "succeeded", ![l].arg = p]
    <3>1. PICK p \in Payload :
               workers' = [workers EXCEPT ![l].phase = "succeeded", ![l].arg = p]
      BY <2>3
    <3>2. workers' = [workers EXCEPT ![l] = [workers[l] EXCEPT !.phase = "succeeded", !.arg = p]]
      BY <1>1, <3>1, Zenon
    <3>3. p \in Args
      BY DEF Args
    <3>4. QED
      BY <1>1, <2>1, <3>2, <3>3
  <2>4. CASE \E p \in TurnFailure :
               workers' = [workers EXCEPT ![l].phase = "failed", ![l].arg = p]
    <3>1. PICK p \in TurnFailure :
               workers' = [workers EXCEPT ![l].phase = "failed", ![l].arg = p]
      BY <2>4
    <3>2. workers' = [workers EXCEPT ![l] = [workers[l] EXCEPT !.phase = "failed", !.arg = p]]
      BY <1>1, <3>1, Zenon
    <3>3. p \in Args
      BY DEF Args
    <3>4. QED
      BY <1>1, <2>2, <3>2, <3>3
  <2>5. QED
    BY <2>3, <2>4 DEF WorkerAnswer
<1>3. UNCHANGED <<battle, record, provider, adapters, ui, complains, counts>>
  BY DEF WorkerAnswer
<1>4. workers' \in [Remote -> Worker]
      /\ \A k \in Remote : workers'[k].phase # "none" => workers'[k].job \in Jobs
  BY <1>1, <1>2 DEF Typed, ControlOK
<1>5. QED
  BY <1>3, <1>4 DEF Typed, TypeOK, ControlOK

(* The adapters' callbacks keep the types.                                 *)
LEMMA TypedCallback == Typed /\ Callback => Typed'
<1> SUFFICES ASSUME Typed, Callback PROVE Typed'
  OBVIOUS
<1>1. ASSUME NEW l \in Remote, NEW phase \in {"succeeded", "failed"},
             NEW step \in {"apply", "fail"}, TakeAnswer(l, phase, step)
      PROVE  Typed'
  <2>1. /\ workers \in [Remote -> Worker] /\ workers[l] \in Worker
        /\ workers[l].job \in Jobs /\ workers[l].job \in Nat /\ workers[l].arg \in Args
    BY <1>1, JobsAreJobs DEF TakeAnswer, Typed, TypeOK, ControlOK, Worker
  <2>2. ui' \in Ui /\ ui'.job \in Jobs
    BY <1>1, <2>1, RestTyped DEF TakeAnswer, Ui, Step
  <2>3. workers' \in [Remote -> Worker]
        /\ \A k \in Remote : workers'[k].phase # "none" => workers'[k] = workers[k]
    BY <1>1, <2>1, RestTyped DEF TakeAnswer
  <2>4. adapters' \in [Remote -> {"idle", "busy", "releasing"}] /\ complains' \in BOOLEAN
    BY <1>1 DEF TakeAnswer, Typed, TypeOK
  <2>5. UNCHANGED <<battle, record, provider, counts>>
    BY <1>1 DEF TakeAnswer
  <2>6. QED
    BY <2>2, <2>3, <2>4, <2>5 DEF Typed, TypeOK, ControlOK
<1>2. CASE ReleaseDispatch
  BY <1>2 DEF ReleaseDispatch, Typed, TypeOK, ControlOK
<1>3. QED
  BY <1>1, <1>2 DEF Callback, HandleSucceeded, HandleFailed

(* What a result does to the store, whatever its disposition.              *)
LEMMA TypedApplyResult ==
  ASSUME Typed, NEW j \in Jobs, NEW payload, ApplyResult(j, payload)
  PROVE  /\ session' \in Session /\ advices' \in Seq(Advice)
         /\ jobs' \in Seq(Job) /\ Len(jobs') = Len(jobs) /\ Jobs' = Jobs
         /\ results' \in Seq(Seq(Disposition)) /\ Len(results') = Len(results)
<1>1. /\ session \in Session /\ advices \in Seq(Advice) /\ match \in Nat
      /\ results \in Seq(Seq(Disposition)) /\ Len(results) = Len(jobs)
  BY DEF Typed, TypeOK
<1>2. jobs[j] \in Job /\ j \in Nat /\ j \in DOMAIN results /\ jobs \in Seq(Job)
  BY <1>1, JobsAreJobs, LenProperties
<1>3. DispositionOf(j, payload) \in Disposition
  BY DEF DispositionOf, Disposition
<1>4. results' \in Seq(Seq(Disposition)) /\ Len(results') = Len(results)
  <2>1. results[j] \in Seq(Disposition)
    BY <1>1, <1>2, ElementOfSeq, LenProperties
  <2>2. Append(results[j], DispositionOf(j, payload)) \in Seq(Disposition)
    BY <1>3, <2>1, AppendIsSeq
  <2>3. QED
    BY <1>1, <2>2, ReplaceIsSeq DEF ApplyResult
<1>5. jobs' \in Seq(Job) /\ Len(jobs') = Len(jobs) /\ Jobs' = Jobs
  <2>1. "SUCCEEDED" \in JobStatus /\ "FAILED" \in JobStatus
    BY DEF JobStatus, Terminal
  <2>2. jobs' = jobs \/ \E r \in Job : jobs' = [jobs EXCEPT ![j] = r]
    <3>1. /\ [jobs[j] EXCEPT !.status = "SUCCEEDED"] \in Job
          /\ [jobs[j] EXCEPT !.status = "FAILED"] \in Job
      BY <1>2, <2>1, JobUpdates
    <3>2. \/ jobs' = jobs
          \/ jobs' = [jobs EXCEPT ![j] = [jobs[j] EXCEPT !.status = "SUCCEEDED"]]
          \/ jobs' = [jobs EXCEPT ![j] = [jobs[j] EXCEPT !.status = "FAILED"]]
      BY Zenon DEF ApplyResult
    <3>3. QED
      BY <3>1, <3>2, Zenon
  <2>3. \A r \in Job : LET new == [jobs EXCEPT ![j] = r]
                       IN new \in Seq(Job) /\ Len(new) = Len(jobs) /\ DOMAIN new = Jobs
    BY <1>2, ReplaceIsSeq
  <2>4. CASE jobs' = jobs
    BY <1>2, <2>4
  <2>5. ASSUME NEW r \in Job, jobs' = [jobs EXCEPT ![j] = r]
        PROVE  jobs' \in Seq(Job) /\ Len(jobs') = Len(jobs) /\ Jobs' = Jobs
    BY <2>3, <2>5
  <2>6. QED
    BY <2>2, <2>4, <2>5
<1>6. advices' \in Seq(Advice)
  <2>1. [match |-> match, turn |-> session.turn, job |-> j] \in Advice
    BY <1>1, <1>2 DEF Advice, Session
  <2>2. \/ advices' = advices
        \/ advices' = Append(advices, [match |-> match, turn |-> session.turn, job |-> j])
    BY DEF ApplyResult
  <2>3. Append(advices, [match |-> match, turn |-> session.turn, job |-> j]) \in Seq(Advice)
    BY <1>1, <2>1, AppendIsSeq
  <2>4. QED
    BY <1>1, <2>2, <2>3
<1>7. session' \in Session
  <2>1. Len(advices) + 1 \in Nat
    BY <1>1, LenProperties
  <2>2. QED
    BY <1>1, <2>1, SessionUpdates, ZenonT(30) DEF ApplyResult
<1>8. QED
  BY <1>4, <1>5, <1>6, <1>7

(* The adapters' application of an answer, and a redelivered answer, keep  *)
(* the types.                                                              *)
LEMMA TypedApply == Typed /\ Apply => Typed'
<1> SUFFICES ASSUME Typed, Apply PROVE Typed'
  OBVIOUS
<1>1. ui.job \in Jobs /\ ApplyResult(ui.job, ui.arg) /\ ui \in Ui
  BY DEF Apply, Typed, TypeOK, ControlOK
<1>2. ui' \in Ui /\ (ui'.step # "idle" => ui'.job = ui.job)
  <2>1. \A u \in Ui : LET v == [u EXCEPT !.step = "reject", !.arg = "OTHER"]
                      IN v \in Ui /\ v.job = u.job
    BY DEF Ui, Step, Args, TurnFailure
  <2>2. ui' = Idle \/ ui' = [ui EXCEPT !.step = "reject", !.arg = "OTHER"]
    BY Zenon DEF Apply
  <2>3. QED
    BY <1>1, <2>1, <2>2, RestTyped
<1>3. UNCHANGED <<match, record, ledger, threads, complains, counts>>
  BY DEF Apply
<1>4. TypeOK'
  BY <1>1, <1>2, <1>3, TypedApplyResult DEF Typed, TypeOK
<1>5. Jobs' = Jobs
  BY <1>1, TypedApplyResult
<1>6. ControlOK'
  BY <1>1, <1>2, <1>3, <1>5 DEF Typed, ControlOK
<1>7. QED
  BY <1>4, <1>6 DEF Typed

LEMMA TypedRedeliver ==
  ASSUME Typed, NEW j \in Jobs, NEW payload \in Payload, Redeliver(j, payload)
  PROVE  Typed'
<1>1. ApplyResult(j, payload)
  BY DEF Redeliver
<1>2. /\ UNCHANGED <<match, record, ledger, threads, ui, complains, rejections, crashes>>
      /\ redelivered' \in Nat
  BY DEF Redeliver, Typed, TypeOK
<1>3. TypeOK'
  BY <1>1, <1>2, TypedApplyResult DEF Typed, TypeOK
<1>4. ControlOK'
  BY <1>1, <1>2, TypedApplyResult DEF Typed, ControlOK
<1>5. QED
  BY <1>3, <1>4 DEF Typed

(* fail_turn_advice_job keeps the types.                                   *)
LEMMA TypedFailJob == Typed /\ FailJob => Typed'
<1> SUFFICES ASSUME Typed, FailJob PROVE Typed'
  OBVIOUS
<1>1. ui.job \in Jobs /\ jobs \in Seq(Job) /\ jobs[ui.job] \in Job
  BY JobsAreJobs DEF FailJob, Typed, ControlOK
<1>2. \E r \in Job : jobs' = [jobs EXCEPT ![ui.job] = r]
  <2>1. [jobs[ui.job] EXCEPT !.status = AfterFailure(jobs[ui.job].status, ui.arg)] \in Job
    BY <1>1, JobUpdates
  <2>2. QED
    BY <2>1, Zenon DEF FailJob
<1>3. jobs' \in Seq(Job) /\ Len(jobs') = Len(jobs) /\ Jobs' = Jobs
  BY <1>1, <1>2, ReplaceIsSeq
<1>4. /\ ui' = Idle
      /\ UNCHANGED <<battle, record, results, ledger, advices, threads, complains, counts>>
  BY DEF FailJob
<1>5. QED
  BY <1>3, <1>4, RestTyped DEF Typed, TypeOK, ControlOK

(* record_rich_actual_action and next_turn_with_action_result keep the     *)
(* types.                                                                  *)
LEMMA TypedRecordAction ==
  ASSUME Typed, NEW i \in DOMAIN states, RecordAction(i)
  PROVE  Typed'
<1>1. /\ match \in Nat /\ session \in Session /\ completions \in Seq(Completion)
      /\ session.turn \in Nat /\ session.board \in Nat /\ i \in Nat
  BY LenProperties DEF Typed, TypeOK, Session
<1>2. completions' \in Seq(Completion)
  <2>1. [match |-> match, turn |-> session.turn, board |-> session.board, state |-> i]
          \in Completion
    BY <1>1 DEF Completion
  <2>2. QED
    BY <1>1, <2>1, AppendIsSeq DEF RecordAction
<1>3. session' \in Session
  BY <1>1, SessionUpdates, Zenon DEF RecordAction
<1>4. /\ UNCHANGED <<match, facts, states, switches, entries, drafts, provider, threads, ui,
                     counts>>
      /\ complains' \in BOOLEAN
  BY DEF RecordAction
<1>5. QED
  BY <1>2, <1>3, <1>4 DEF Typed, TypeOK, ControlOK

LEMMA TypedNextTurn ==
  ASSUME Typed, NEW i \in DOMAIN states, NEW c \in DOMAIN completions, NextTurn(i, c)
  PROVE  Typed'
<1>1. /\ match \in Nat /\ session \in Session /\ drafts \in Seq(Draft)
      /\ session.turn + 1 \in Nat /\ session.rev + 1 \in Nat /\ c \in Nat
  BY SMTT(30), LenProperties DEF Typed, TypeOK, Session
<1>2. drafts' \in Seq(Draft)
  <2>1. [match |-> match, turn |-> session.turn + 1, rev |-> session.rev + 1,
         completion |-> c] \in Draft
    BY <1>1 DEF Draft
  <2>2. QED
    BY <1>1, <2>1, AppendIsSeq DEF NextTurn
<1>3. session' \in Session
  BY <1>1, SessionUpdates, Zenon DEF NextTurn, PendingTurn
<1>4. /\ UNCHANGED <<match, facts, states, switches, entries, completions, provider, threads,
                     ui, counts>>
      /\ complains' \in BOOLEAN
  BY DEF NextTurn
<1>5. QED
  BY <1>2, <1>3, <1>4 DEF Typed, TypeOK, ControlOK

(* What recover_after_restart makes of each job.                           *)
LEMMA RestartRecovers ==
  ASSUME Typed, Restart
  PROVE  /\ jobs' \in Seq(Job) /\ Len(jobs') = Len(jobs) /\ Jobs' = Jobs
         /\ \A j \in Jobs : /\ SameRequest(jobs'[j], jobs[j])
                            /\ jobs'[j].status = Recovered(jobs[j].status)
<1> DEFINE Recover(j) == [jobs[j] EXCEPT !.status = Recovered(jobs[j].status)]
<1>1. jobs' = [j \in Jobs |-> Recover(j)]
  BY Zenon DEF Restart
<1>2. \A j \in Jobs : /\ Recover(j) \in Job /\ SameRequest(Recover(j), jobs[j])
                     /\ Recover(j).status = Recovered(jobs[j].status)
  BY JobsAreJobs, JobUpdates
<1> HIDE DEF Recover
<1>3. \A j \in Jobs : jobs'[j] = Recover(j)
  BY <1>1
<1>4. jobs' = [j \in Jobs |-> jobs'[j]]
  BY <1>1
<1>5. jobs' \in Seq(Job) /\ Len(jobs') = Len(jobs) /\ Jobs' = Jobs
  BY <1>2, <1>3, <1>4, JobsAreJobs, RewriteIsSeq
<1>6. QED
  BY <1>2, <1>3, <1>5

(* The process stops and starts.                                           *)
LEMMA TypedProcess == Typed /\ (Crash \/ Restart) => Typed'
<1> SUFFICES ASSUME Typed, Crash \/ Restart PROVE Typed'
  OBVIOUS
<1>1. CASE Crash
  <2>1. /\ crashes' \in Nat /\ complains' \in BOOLEAN
        /\ UNCHANGED <<battle, record, provider, rejections, redelivered>>
    <3>1. crashes \in Nat
      BY DEF Typed, TypeOK
    <3>2. crashes' = crashes + 1 /\ complains' = FALSE
      BY <1>1, Zenon DEF Crash
    <3>3. UNCHANGED <<battle, record, provider, rejections, redelivered>>
      BY <1>1, Zenon DEF Crash
    <3>4. complains' \in BOOLEAN
      BY <3>2, Zenon
    <3>5. crashes' \in Nat
      BY <3>1, <3>2
    <3>6. QED
      BY <3>3, <3>4, <3>5, Zenon
  <2>2. /\ adapters' \in [Remote -> {"idle", "busy", "releasing"}]
        /\ workers' \in [Remote -> Worker]
        /\ \A l \in Remote : workers'[l].phase = "none"
    BY <1>1, RestTyped DEF Crash
  <2>3. ui' = [Idle EXCEPT !.step = "down"]
    BY <1>1, Zenon DEF Crash
  <2>4. ui' \in Ui /\ ui'.step = "down"
    BY <2>3, RestTyped
  <2>5. QED
    BY <2>1, <2>2, <2>4 DEF Typed, TypeOK, ControlOK
<1>2. CASE Restart
  <2>1. /\ UNCHANGED <<battle, record, results, ledger, advices, threads, complains, counts>>
        /\ ui' = Idle
    BY <1>2 DEF Restart
  <2>2. jobs' \in Seq(Job) /\ Len(jobs') = Len(jobs) /\ Jobs' = Jobs
    BY <1>2, RestartRecovers
  <2>3. QED
    BY <2>1, <2>2, RestTyped DEF Typed, TypeOK, ControlOK
<1>3. QED
  BY <1>1, <1>2

(* Every step keeps the types.                                             *)
LEMMA TypedNext == Typed /\ [Next]_vars => Typed'
<1> SUFFICES ASSUME Typed, [Next]_vars PROVE Typed'
  OBVIOUS
<1>1. CASE Command
  <2>1. CASE \/ \E o \in Opponent : ConfirmTurnFacts(o) \/ RejectTurnFacts(o)
             \/ \E e \in DOMAIN entries : HandleEntry(e)
    BY <2>1, TypedConfirmTurnFacts, TypedRejectTurnFacts, TypedHandleEntry
  <2>2. CASE \/ BeginBattle \/ AbortMatch \/ StartTurnCapture \/ RequestMock \/ RequestLegacy
    BY <2>2, TypedMatch, TypedRequest DEF RequestStep
  <2>3. ASSUME NEW i \in DOMAIN states,
               \/ \E choice \in SwitchSet \ {0} : ConfirmSwitches(i, choice)
               \/ RequestRich(i) \/ RecordAction(i)
               \/ \E c \in DOMAIN completions : NextTurn(i, c)
        PROVE  Typed'
    BY <2>3, TypedConfirmSwitches, TypedRequest, TypedRecordAction, TypedNextTurn
       DEF RequestStep
  <2>4. QED
    BY <1>1, <2>1, <2>2, <2>3, TypedRedeliver DEF Command
<1>2. CASE UiStep
  BY <1>2, TypedRecordState, TypedDispatch, TypedApply, TypedFailJob DEF UiStep
<1>3. CASE Callback
  BY <1>3, TypedCallback
<1>4. CASE \E l \in Remote : WorkerStep(l)
  BY <1>4, TypedWorkerAnswer DEF WorkerStep
<1>5. CASE Crash \/ Restart
  BY <1>5, TypedProcess
<1>6. CASE UNCHANGED vars
  BY <1>6 DEF vars, Typed, TypeOK, ControlOK
<1>7. QED
  BY <1>1, <1>2, <1>3, <1>4, <1>5, <1>6 DEF Next

(* The types and the threads' names hold throughout.                       *)
LEMMA TypedInvariant == Spec => []Typed
  BY TypedInit, TypedNext, PTL DEF Spec

(* In every reachable state each row of the store and each thread's        *)
(* position is well formed: switches and results keep in step with the     *)
(* states and jobs they belong to, and a callback always has a job to      *)
(* report on.                                                              *)
THEOREM TypeCorrect == Spec => []TypeOK
<1>1. Typed => TypeOK
  BY DEF Typed
<1>2. QED
  BY <1>1, TypedInvariant, PTL

---------------------------------------------------------------------------
(* The match.                                                              *)

(* A result writes the row of the match or leaves it.                      *)
LEMMA ApplyResultRevises ==
  ASSUME Typed, NEW j \in Jobs, NEW payload, ApplyResult(j, payload)
  PROVE  session' = session \/ session'.rev = session.rev + 1
<1>1. session \in Session /\ Len(advices) + 1 \in Nat
  BY LenProperties DEF Typed, TypeOK
<1>2. [session EXCEPT !.advice = Len(advices) + 1, !.rev = @ + 1].rev = session.rev + 1
  BY <1>1, SessionUpdates
<1>3. \/ session' = session
      \/ session' = [session EXCEPT !.advice = Len(advices) + 1, !.rev = @ + 1]
  BY Zenon DEF ApplyResult
<1>4. QED
  BY <1>2, <1>3

(* No step changes the row of the match without moving its revision by     *)
(* one, so no two different conditions of a match carry the same revision, *)
(* and the revision a job, a state or a draft remembers identifies the     *)
(* condition it was made in (every write of battle_sessions goes through   *)
(* expected_battle_revision and adds one to it).                           *)
THEOREM RevisionsCountChanges == Spec => RevisionCountsChanges
<1>1. Typed /\ [Next]_vars =>
        [(match' = match /\ session' # session) => session'.rev = session.rev + 1]_vars
  <2> SUFFICES ASSUME Typed, [Next]_vars, match' = match
               PROVE  session' = session \/ session'.rev = session.rev + 1
    OBVIOUS
  <2>1. session \in Session /\ match \in Nat
    BY DEF Typed, TypeOK
  <2>2. CASE BeginBattle
    BY <2>1, <2>2 DEF BeginBattle
  <2>3. CASE AbortMatch
    BY <2>1, <2>3, SessionUpdates DEF AbortMatch
  <2>4. CASE StartTurnCapture
    BY <2>1, <2>4, SessionUpdates DEF StartTurnCapture, PendingTurn
  <2>5. ASSUME NEW o \in Opponent, ConfirmTurnFacts(o)
        PROVE  session'.rev = session.rev + 1
    <3>1. Len(facts) + 1 \in Nat
      BY LenProperties DEF Typed, TypeOK
    <3>2. [session EXCEPT !.board = Len(facts) + 1, !.advice = None,
                          !.state = "TURN_REVIEWED", !.rev = @ + 1].rev = session.rev + 1
      BY <2>1, <3>1, SessionUpdates
    <3>3. session' = [session EXCEPT !.board = Len(facts) + 1, !.advice = None,
                                     !.state = "TURN_REVIEWED", !.rev = @ + 1]
      BY <2>5, Zenon DEF ConfirmTurnFacts
    <3>4. QED
      BY <3>2, <3>3
  <2>6. ASSUME NEW i, RecordAction(i)
        PROVE  session'.rev = session.rev + 1
    BY <2>1, <2>6, SessionUpdates DEF RecordAction
  <2>7. ASSUME NEW i, NEW c, NextTurn(i, c)
        PROVE  session'.rev = session.rev + 1
    <3>1. session.turn + 1 \in Nat
      BY <2>1 DEF Session
    <3>2. [session EXCEPT !.turn = session.turn + 1, !.board = None, !.advice = None,
                          !.state = "TURN_CAPTURE_PENDING", !.rev = @ + 1].rev
            = session.rev + 1
      BY <2>1, <3>1, SessionUpdates
    <3>3. session' = [session EXCEPT !.turn = session.turn + 1, !.board = None,
                        !.advice = None, !.state = "TURN_CAPTURE_PENDING", !.rev = @ + 1]
      BY <2>7, Zenon DEF NextTurn, PendingTurn
    <3>4. QED
      BY <3>2, <3>3
  <2>8. CASE Command
    <3>1. CASE \/ RequestMock \/ RequestLegacy \/ \E o \in Opponent : RejectTurnFacts(o)
               \/ \E e \in DOMAIN entries : HandleEntry(e)
      BY <3>1 DEF RequestMock, RequestLegacy, RejectTurnFacts, HandleEntry
    <3>2. ASSUME NEW i \in DOMAIN states,
                 \/ \E choice \in SwitchSet \ {0} : ConfirmSwitches(i, choice)
                 \/ RequestRich(i)
          PROVE  session' = session
      BY <3>2 DEF ConfirmSwitches, RequestRich
    <3>3. ASSUME NEW j \in Jobs, NEW p \in Payload, Redeliver(j, p)
          PROVE  session' = session \/ session'.rev = session.rev + 1
      BY <3>3, ApplyResultRevises DEF Redeliver
    <3>4. QED
      BY <2>2, <2>3, <2>4, <2>5, <2>6, <2>7, <2>8, <3>1, <3>2, <3>3 DEF Command
  <2>9. CASE UiStep
    <3>1. CASE Apply
      BY <3>1, ApplyResultRevises DEF Apply, Typed, ControlOK
    <3>2. CASE RecordState \/ Dispatch \/ FailJob
      BY <3>2 DEF RecordState, Dispatch, FailJob
    <3>3. QED
      BY <2>9, <3>1, <3>2 DEF UiStep
  <2>10. CASE Callback \/ (\E l \in Remote : WorkerStep(l)) \/ Restart \/ UNCHANGED vars
    BY <2>10 DEF Callback, ReleaseDispatch, HandleSucceeded, HandleFailed, TakeAnswer,
                 WorkerStep, WorkerAnswer, Restart, vars
  <2>11. CASE Crash
    BY <2>11, Zenon DEF Crash
  <2>12. QED
    BY <2>8, <2>9, <2>10, <2>11 DEF Next
<1>2. QED
  BY <1>1, TypedInvariant, PTL DEF Spec, RevisionCountsChanges

---------------------------------------------------------------------------
(* Jobs.                                                                   *)

(* Job j is pending and becomes r, a job for the same request that is      *)
(* pending or has come to a known end.                                     *)
Settle(j, r) ==
  /\ jobs[j].status \in Pending
  /\ r \in Job /\ SameRequest(r, jobs[j]) /\ r.status # "DELIVERY_UNKNOWN"
  /\ jobs' = [jobs EXCEPT ![j] = r]

(* A step leaves the jobs and the ledger alone, requests one, settles one  *)
(* that is pending, cancels the newest, or is the recovery at start-up.    *)
LEMMA JobStep ==
  ASSUME Typed, [Next]_vars
  PROVE  \/ jobs' = jobs /\ ledger' = ledger
         \/ RequestStep /\ match' = match /\ \E lane, snap, choice : Requested(lane, snap, choice)
         \/ ledger' = ledger /\ \E j \in Jobs, r \in Job : Settle(j, r)
         \/ ledger' = ledger /\ CancelPending
         \/ ledger' = ledger /\ Restart
<1> DEFINE Settled == \E j \in Jobs, r \in Job : Settle(j, r)
<1>1. ASSUME NEW j \in Jobs, NEW payload, ApplyResult(j, payload)
      PROVE  jobs' = jobs \/ Settled
  <2>1. ASSUME NEW x \in {"SUCCEEDED", "FAILED"}, BindingHolds(j),
               jobs' = [jobs EXCEPT ![j].status = x]
        PROVE  Settled
    <3> DEFINE r == [jobs[j] EXCEPT !.status = x]
    <3>1. x \in JobStatus /\ x # "DELIVERY_UNKNOWN"
      BY DEF JobStatus, Terminal
    <3>2. r \in Job /\ SameRequest(r, jobs[j]) /\ r.status = x
      BY <3>1, JobsAreJobs, JobUpdates
    <3>3. jobs[j].status \in Pending
      BY <2>1 DEF BindingHolds
    <3>4. jobs' = [jobs EXCEPT ![j] = r]
      BY <2>1
    <3> HIDE DEF r
    <3>5. QED
      BY <3>1, <3>2, <3>3, <3>4 DEF Settle
  <2>2. CASE DispositionOf(j, payload) \in {"APPLIED", "INVALID_REJECTED"}
    <3>1. BindingHolds(j)
      BY <2>2 DEF DispositionOf
    <3>2. \/ jobs' = [jobs EXCEPT ![j].status = "SUCCEEDED"]
          \/ jobs' = [jobs EXCEPT ![j].status = "FAILED"]
      BY <1>1, <2>2, Zenon DEF ApplyResult
    <3>3. QED
      BY <2>1, <3>1, <3>2
  <2>3. CASE DispositionOf(j, payload) \in {"STALE_REJECTED", "DUPLICATE_IGNORED"}
    BY <1>1, <2>3 DEF ApplyResult
  <2>4. QED
    BY <2>2, <2>3 DEF DispositionOf
<1>2. CASE Dispatch
  <2> DEFINE j == ui.job
             r == [jobs[j] EXCEPT !.status = "IN_FLIGHT", !.dispatches = @ + 1]
  <2>1. j \in Jobs /\ jobs[j].status \in Pending
    BY <1>2 DEF Dispatch, Typed, ControlOK, Pending
  <2>2. r \in Job /\ SameRequest(r, jobs[j]) /\ r.status = "IN_FLIGHT"
    BY <2>1, JobsAreJobs, JobUpdates
  <2>3. jobs' = [jobs EXCEPT ![j] = r] /\ ledger' = ledger
    BY <1>2, Zenon DEF Dispatch
  <2> HIDE DEF j, r
  <2>4. QED
    BY <2>1, <2>2, <2>3 DEF Settle
<1>3. CASE FailJob
  <2> DEFINE j == ui.job
             x == AfterFailure(jobs[j].status, ui.arg)
             r == [jobs[j] EXCEPT !.status = x]
  <2>1. j \in Jobs /\ jobs[j] \in Job
    BY <1>3, JobsAreJobs DEF FailJob, Typed, ControlOK
  <2>2. jobs' = [jobs EXCEPT ![j] = r] /\ ledger' = ledger
    BY <1>3, Zenon DEF FailJob
  <2>3. CASE jobs[j].status \in Pending
    <3>1. x \in JobStatus /\ x # "DELIVERY_UNKNOWN"
      BY <2>3 DEF AfterFailure, JobStatus, Terminal
    <3> HIDE DEF x
    <3>2. r \in Job /\ SameRequest(r, jobs[j]) /\ r.status = x
      BY <2>1, <3>1, JobUpdates
    <3> HIDE DEF j, r
    <3>3. QED
      BY <2>1, <2>2, <2>3, <3>1, <3>2 DEF Settle
  <2>4. CASE jobs[j].status \notin Pending
    <3>1. x = jobs[j].status
      BY <2>4 DEF AfterFailure
    <3> HIDE DEF x
    <3>2. r = jobs[j]
      BY <2>1, <3>1 DEF Job
    <3> HIDE DEF j, r
    <3>3. QED
      BY <2>1, <2>2, <3>2, JobsAreJobs
  <2>5. QED
    BY <2>3, <2>4
<1>4. CASE Command
  <2>1. CASE RequestStep
    BY <2>1, RequestsAreRequested
  <2>2. ASSUME NEW o \in Opponent, ConfirmTurnFacts(o)
        PROVE  ledger' = ledger /\ (jobs' = jobs \/ CancelPending)
    BY <2>2 DEF ConfirmTurnFacts
  <2>3. ASSUME NEW j \in Jobs, NEW p \in Payload, Redeliver(j, p)
        PROVE  ledger' = ledger /\ (jobs' = jobs \/ Settled)
    BY <1>1, <2>3 DEF Redeliver
  <2>4. CASE \/ BeginBattle \/ AbortMatch \/ StartTurnCapture
             \/ \E o \in Opponent : RejectTurnFacts(o)
             \/ \E e \in DOMAIN entries : HandleEntry(e)
             \/ \E i \in DOMAIN states :
                  \/ \E choice \in SwitchSet \ {0} : ConfirmSwitches(i, choice)
                  \/ RecordAction(i)
                  \/ \E c \in DOMAIN completions : NextTurn(i, c)
    BY <2>4 DEF BeginBattle, AbortMatch, StartTurnCapture, RejectTurnFacts, HandleEntry,
                ConfirmSwitches, RecordAction, NextTurn
  <2>5. QED
    BY <1>4, <2>1, <2>2, <2>3, <2>4 DEF Command, RequestStep
<1>5. CASE UiStep
  <2>1. CASE Apply
    BY <1>1, <2>1 DEF Apply, Typed, ControlOK
  <2>2. CASE RecordState
    BY <2>2 DEF RecordState
  <2>3. QED
    BY <1>2, <1>3, <1>5, <2>1, <2>2 DEF UiStep
<1>6. CASE Callback \/ (\E l \in Remote : WorkerStep(l)) \/ UNCHANGED vars
  BY <1>6 DEF Callback, ReleaseDispatch, HandleSucceeded, HandleFailed, TakeAnswer,
              WorkerStep, WorkerAnswer, vars
<1>7. CASE Crash
  BY <1>7, Zenon DEF Crash
<1>8. CASE Restart
  BY <1>8 DEF Restart
<1>9. QED
  BY <1>4, <1>5, <1>6, <1>7, <1>8 DEF Next

(* What requesting a job and settling one do to the table.                 *)
LEMMA RequestedAddsJob ==
  ASSUME Typed, NEW lane, NEW snap, NEW choice, Requested(lane, snap, choice)
  PROVE  /\ Jobs' = Jobs \cup {NewJob} /\ NewJob \in Nat /\ NewJob \notin Jobs
         /\ \A j \in Jobs : j < NewJob /\ jobs'[j] = jobs[j]
         /\ jobs'[NewJob].match = match /\ jobs'[NewJob].turn = session.turn
         /\ jobs'[NewJob].rev = session.rev
         /\ jobs'[NewJob].lane = lane /\ jobs'[NewJob].snap = snap
         /\ jobs'[NewJob].status = "QUEUED"
BY InsertedJob DEF Requested

LEMMA SettleKeepsRequests ==
  ASSUME Typed, NEW j \in Jobs, NEW r \in Job, Settle(j, r)
  PROVE  /\ Jobs' = Jobs
         /\ \A k \in Jobs : /\ jobs'[k] = IF k = j THEN r ELSE jobs[k]
                            /\ SameRequest(jobs'[k], jobs[k])
<1>1. Jobs' = Jobs /\ \A k \in Jobs : jobs'[k] = IF k = j THEN r ELSE jobs[k]
  BY JobsAreJobs DEF Settle
<1>2. \A k \in Jobs : SameRequest(jobs'[k], jobs[k])
  BY <1>1 DEF Settle, SameRequest
<1>3. QED
  BY <1>1, <1>2

(* A job that has come to an end keeps its status, whatever arrives for it *)
(* late, whichever board replaces its own and however often the process    *)
(* restarts (fail_turn_advice_job, _binding_failure_reason, the            *)
(* cancellation in confirm_turn_facts, recover_unfinished_jobs).           *)
THEOREM EndedTurnJobsStayEnded == Spec => TerminalIsFinal
<1>1. Typed /\ [Next]_vars =>
        [\A j \in Jobs : jobs[j].status \in Terminal => jobs'[j].status = jobs[j].status]_vars
  <2> SUFFICES ASSUME Typed, [Next]_vars, NEW j \in Jobs, jobs[j].status \in Terminal
               PROVE  jobs'[j].status = jobs[j].status
    OBVIOUS
  <2>1. ASSUME NEW lane, NEW snap, NEW choice, Requested(lane, snap, choice)
        PROVE  jobs'[j].status = jobs[j].status
    BY <2>1, RequestedAddsJob
  <2>2. ASSUME NEW i \in Jobs, NEW r \in Job, Settle(i, r)
        PROVE  jobs'[j].status = jobs[j].status
    <3>1. i # j
      BY <2>2 DEF Settle, Pending, Terminal
    <3>2. QED
      BY <2>2, <3>1, SettleKeepsRequests
  <2>3. CASE CancelPending
    <3>1. Cancelled(j) = jobs[j]
      BY DEF Cancelled, Pending, Terminal
    <3>2. QED
      BY <2>3, <3>1, CancelKeepsJobs
  <2>4. CASE Restart
    BY <2>4, RestartRecovers DEF Recovered, Terminal
  <2>5. QED
    BY <2>1, <2>2, <2>3, <2>4, JobStep
<1>2. QED
  BY <1>1, TypedInvariant, PTL DEF Spec, TerminalIsFinal

---------------------------------------------------------------------------
(* One request at a time.                                                  *)

(* The strengthening: a pending job is the newest of its match, since none *)
(* could be requested after it; and a match with a job has a newest one.   *)
PendingIsLatest ==
  \A j, k \in Jobs : (jobs[j].status \in Pending /\ jobs[k].match = jobs[j].match) => k <= j
NewestExists ==
  \A j \in Jobs : \E m \in Jobs :
    /\ jobs[m].match = jobs[j].match
    /\ \A k \in Jobs : jobs[k].match = jobs[j].match => k <= m
JobOrder == PendingIsLatest /\ NewestExists

(* A step that keeps the requests and makes no ended job pending keeps the *)
(* order.                                                                  *)
LEMMA OrderIsKept ==
  ASSUME JobOrder, Jobs' = Jobs,
         \A j \in Jobs : /\ SameRequest(jobs'[j], jobs[j])
                         /\ jobs'[j].status \in Pending => jobs[j].status \in Pending
  PROVE  JobOrder'
<1>1. \A j \in Jobs : jobs'[j].match = jobs[j].match
  BY DEF SameRequest
<1>2. PendingIsLatest'
  BY <1>1 DEF JobOrder, PendingIsLatest
<1>3. NewestExists'
  BY <1>1 DEF JobOrder, NewestExists
<1>4. QED
  BY <1>2, <1>3 DEF JobOrder

LEMMA JobOrderKept == Typed /\ JobOrder /\ [Next]_vars => JobOrder'
<1> SUFFICES ASSUME Typed, JobOrder, [Next]_vars PROVE JobOrder'
  OBVIOUS
<1>1. ASSUME NEW lane, NEW snap, NEW choice, Requested(lane, snap, choice)
      PROVE  JobOrder'
  <2>1. PendingIsLatest'
    <3> SUFFICES ASSUME NEW j \in Jobs', NEW k \in Jobs', jobs'[j].status \in Pending,
                        jobs'[k].match = jobs'[j].match
                 PROVE  k <= j
      BY DEF PendingIsLatest
    <3>1. CASE j = NewJob
      BY <1>1, <3>1, RequestedAddsJob, JobsAreJobs
    <3>2. CASE j \in Jobs /\ k \in Jobs
      BY <1>1, <3>2, RequestedAddsJob DEF JobOrder, PendingIsLatest
    <3>3. CASE j \in Jobs /\ k = NewJob
      <4>1. jobs[j].match = match /\ jobs[j].status \in Pending
        BY <1>1, <3>3, RequestedAddsJob
      <4>2. IsLatest(j)
        BY <3>3, <4>1 DEF IsLatest, JobOrder, PendingIsLatest
      <4>3. QED
        BY <1>1, <3>3, <4>1, <4>2 DEF Requested
    <3>4. QED
      BY <1>1, <3>1, <3>2, <3>3, RequestedAddsJob
  <2>2. NewestExists'
    <3> SUFFICES ASSUME NEW j \in Jobs'
                 PROVE  \E m \in Jobs' :
                          /\ jobs'[m].match = jobs'[j].match
                          /\ \A k \in Jobs' : jobs'[k].match = jobs'[j].match => k <= m
      BY DEF NewestExists
    <3>1. CASE jobs'[j].match = match
      <4>1. \A k \in Jobs' : k <= NewJob
        BY <1>1, RequestedAddsJob, JobsAreJobs
      <4>2. QED
        BY <1>1, <3>1, <4>1, RequestedAddsJob
    <3>2. CASE jobs'[j].match # match
      <4>1. j \in Jobs /\ jobs'[j] = jobs[j]
        BY <1>1, <3>2, RequestedAddsJob
      <4>2. PICK m \in Jobs : /\ jobs[m].match = jobs[j].match
                              /\ \A k \in Jobs : jobs[k].match = jobs[j].match => k <= m
        BY <4>1 DEF JobOrder, NewestExists
      <4>3. QED
        BY <1>1, <3>2, <4>1, <4>2, RequestedAddsJob
    <3>3. QED
      BY <3>1, <3>2
  <2>3. QED
    BY <2>1, <2>2 DEF JobOrder
<1>2. ASSUME NEW i \in Jobs, NEW r \in Job, Settle(i, r)
      PROVE  JobOrder'
  <2>1. \A j \in Jobs : jobs'[j].status \in Pending => jobs[j].status \in Pending
    BY <1>2, SettleKeepsRequests DEF Settle
  <2>2. QED
    BY <1>2, <2>1, SettleKeepsRequests, OrderIsKept
<1>3. CASE CancelPending
  <2>1. \A j \in Jobs : jobs'[j].status \in Pending => jobs[j].status \in Pending
    <3> SUFFICES ASSUME NEW j \in Jobs, jobs[j].status \notin Pending
                 PROVE  jobs'[j].status \notin Pending
      OBVIOUS
    <3>1. Cancelled(j) = jobs[j]
      BY DEF Cancelled
    <3>2. QED
      BY <1>3, <3>1, CancelKeepsJobs
  <2>2. QED
    BY <1>3, <2>1, CancelKeepsJobs, OrderIsKept
<1>4. CASE Restart
  <2>1. \A j \in Jobs : jobs'[j].status \in Pending => jobs[j].status \in Pending
    BY <1>4, RestartRecovers DEF Recovered, Pending
  <2>2. QED
    BY <1>4, <2>1, RestartRecovers, OrderIsKept
<1>5. CASE jobs' = jobs
  BY <1>5 DEF JobOrder, PendingIsLatest, NewestExists
<1>6. QED
  BY <1>1, <1>2, <1>3, <1>4, <1>5, JobStep

LEMMA JobOrderInvariant == Spec => []JobOrder
<1>1. Init => JobOrder
  BY DEF Init, JobOrder, PendingIsLatest, NewestExists
<1>2. Typed /\ JobOrder /\ [Next]_vars => JobOrder'
  BY JobOrderKept
<1>3. QED
  BY <1>1, <1>2, TypedInvariant, PTL DEF Spec

(* Whatever lanes are in use and however they alternate, a match has at    *)
(* most one unanswered request (_guard_provider_request,                   *)
(* decide_turn_advice_dispatch).                                           *)
THEOREM OnePendingRequestPerMatch == Spec => []OnePendingRequest
<1>1. Typed /\ JobOrder => OnePendingRequest
  <2> SUFFICES ASSUME Typed, JobOrder, NEW j \in Jobs, NEW k \in Jobs,
                      {jobs[j].status, jobs[k].status} \subseteq Pending,
                      jobs[j].match = jobs[k].match
               PROVE  j = k
    BY DEF OnePendingRequest
  <2>1. j <= k /\ k <= j
    BY DEF JobOrder, PendingIsLatest
  <2>2. QED
    BY <2>1, JobsAreJobs
<1>2. QED
  BY <1>1, TypedInvariant, JobOrderInvariant, PTL

(* Once the delivery of a request is unknown, only a request on the rich   *)
(* lane lets the mock and legacy lanes of the match ask again              *)
(* (_guard_provider_request, recover_after_restart).                       *)
THEOREM UnknownDeliveryClosesLanes == Spec => []UnknownDeliveryHoldsTheLane
<1>1. Init => UnknownDeliveryHoldsTheLane
  BY DEF Init, UnknownDeliveryHoldsTheLane
<1>2. Typed /\ JobOrder /\ UnknownDeliveryHoldsTheLane /\ [Next]_vars
        => UnknownDeliveryHoldsTheLane'
  <2> SUFFICES ASSUME Typed, JobOrder, UnknownDeliveryHoldsTheLane, [Next]_vars,
                      NEW j \in Jobs', NEW k \in Jobs',
                      jobs'[j].status = "DELIVERY_UNKNOWN", k > j,
                      jobs'[k].match = jobs'[j].match, jobs'[k].lane # "RICH"
               PROVE  \E n \in (j + 1)..(k - 1) :
                        jobs'[n].match = jobs'[j].match /\ jobs'[n].lane = "RICH"
    BY DEF UnknownDeliveryHoldsTheLane
  <2>1. /\ \A n \in Jobs : n \in Nat
        /\ Jobs = 1..Len(jobs) /\ Len(jobs) \in Nat
    BY JobsAreJobs
  <2>2. ASSUME Jobs' = Jobs, \A n \in Jobs : SameRequest(jobs'[n], jobs[n]),
               jobs[j].status = "DELIVERY_UNKNOWN"
        PROVE  \E n \in (j + 1)..(k - 1) :
                 jobs'[n].match = jobs'[j].match /\ jobs'[n].lane = "RICH"
    <3>1. \A n \in Jobs : jobs'[n].match = jobs[n].match /\ jobs'[n].lane = jobs[n].lane
      BY <2>2 DEF SameRequest
    <3>2. PICK n \in (j + 1)..(k - 1) :
            jobs[n].match = jobs[j].match /\ jobs[n].lane = "RICH"
      BY <2>2, <3>1 DEF UnknownDeliveryHoldsTheLane
    <3>3. n \in Jobs
      BY <2>1, <2>2
    <3>4. QED
      BY <2>2, <3>1, <3>2, <3>3
  <2>3. ASSUME NEW lane, NEW snap, NEW choice, Requested(lane, snap, choice)
        PROVE  \E n \in (j + 1)..(k - 1) :
                 jobs'[n].match = jobs'[j].match /\ jobs'[n].lane = "RICH"
    <3>1. j \in Jobs /\ jobs[j].status = "DELIVERY_UNKNOWN"
      BY <2>1, <2>3, RequestedAddsJob
    <3>2. CASE k \in Jobs
      <4>1. PICK n \in (j + 1)..(k - 1) :
              jobs[n].match = jobs[j].match /\ jobs[n].lane = "RICH"
        BY <2>3, <3>1, <3>2, RequestedAddsJob DEF UnknownDeliveryHoldsTheLane
      <4>2. n \in Jobs
        BY <2>1, <3>1, <3>2
      <4>3. QED
        BY <2>3, <3>1, <4>1, <4>2, RequestedAddsJob
    <3>3. CASE k = NewJob
      <4>1. jobs[j].match = match /\ lane # "RICH"
        BY <2>3, <3>1, <3>3, RequestedAddsJob
      <4>2. PICK m \in Jobs : /\ jobs[m].match = jobs[j].match
                              /\ \A i \in Jobs : jobs[i].match = jobs[j].match => i <= m
        BY <3>1 DEF JobOrder, NewestExists
      <4>3. IsLatest(m)
        BY <4>1, <4>2 DEF IsLatest
      <4>4. jobs[m].status # "DELIVERY_UNKNOWN"
        BY <2>3, <4>1, <4>3 DEF Requested, Blocking
      <4>5. j < m /\ m < k
        BY <2>1, <3>1, <3>3, <4>2, <4>4
      <4>6. CASE jobs[m].lane = "RICH"
        <5>1. m \in (j + 1)..(k - 1)
          BY <2>1, <3>1, <3>3, <4>5
        <5>2. QED
          BY <2>3, <3>1, <4>2, <4>6, <5>1, RequestedAddsJob
      <4>7. CASE jobs[m].lane # "RICH"
        <5>1. PICK n \in (j + 1)..(m - 1) :
                jobs[n].match = jobs[j].match /\ jobs[n].lane = "RICH"
          BY <3>1, <4>2, <4>5, <4>7 DEF UnknownDeliveryHoldsTheLane
        <5>2. n \in Jobs /\ n \in (j + 1)..(k - 1)
          BY <2>1, <3>1, <3>3, <4>5, <5>1
        <5>3. QED
          BY <2>3, <3>1, <5>1, <5>2, RequestedAddsJob
      <4>8. QED
        BY <4>6, <4>7
    <3>4. QED
      BY <2>3, <3>2, <3>3, RequestedAddsJob
  <2>4. ASSUME NEW i \in Jobs, NEW r \in Job, Settle(i, r)
        PROVE  \E n \in (j + 1)..(k - 1) :
                 jobs'[n].match = jobs'[j].match /\ jobs'[n].lane = "RICH"
    <3>1. jobs[j].status = "DELIVERY_UNKNOWN"
      BY <2>4, SettleKeepsRequests DEF Settle
    <3>2. QED
      BY <2>2, <2>4, <3>1, SettleKeepsRequests
  <2>5. CASE CancelPending
    <3>1. j \in Jobs /\ jobs[j] \in Job
      BY <2>5, CancelKeepsJobs, JobsAreJobs
    <3>2. jobs[j].status = "DELIVERY_UNKNOWN"
      <4>1. "CANCELLED" \in JobStatus
        BY DEF JobStatus, Terminal
      <4>2. Cancelled(j) = jobs[j] \/ Cancelled(j).status = "CANCELLED"
        BY <3>1, <4>1, JobUpdates DEF Cancelled
      <4>3. QED
        BY <2>5, <3>1, <4>2, CancelKeepsJobs
    <3>3. QED
      BY <2>2, <2>5, <3>2, CancelKeepsJobs
  <2>6. CASE Restart
    <3>1. j \in Jobs /\ k \in Jobs /\ jobs'[j].status = Recovered(jobs[j].status)
      BY <2>6, RestartRecovers
    <3>2. jobs[j].status # "IN_FLIGHT"
      <4>1. jobs[k].match = jobs[j].match
        BY <2>6, <3>1, RestartRecovers DEF SameRequest
      <4>2. jobs[j].status \notin Pending
        BY <2>1, <3>1, <4>1 DEF JobOrder, PendingIsLatest
      <4>3. QED
        BY <4>2 DEF Pending
    <3>3. jobs[j].status = "DELIVERY_UNKNOWN"
      BY <3>1, <3>2 DEF Recovered
    <3>4. QED
      BY <2>2, <2>6, <3>3, RestartRecovers
  <2>7. CASE jobs' = jobs
    BY <2>7 DEF UnknownDeliveryHoldsTheLane
  <2>8. QED
    BY <2>3, <2>4, <2>5, <2>6, <2>7, JobStep
<1>3. QED
  BY <1>1, <1>2, TypedInvariant, JobOrderInvariant, PTL DEF Spec

---------------------------------------------------------------------------
(* One attempt for each snapshot.                                          *)

(* What a job, and a row of the ledger, is an attempt for.                 *)
JobKey(j) == <<j.match, j.turn, j.lane = "RICH", j.snap>>
RowKey(r) == <<r.match, r.turn, r.rich, r.snap>>

(* The strengthening: the ledger holds the keys of the jobs, each once.    *)
LedgerMatchesJobs ==
  /\ \A j \in Jobs : \E r \in ledger : r.job = j /\ RowKey(r) = JobKey(jobs[j])
  /\ \A j, k \in Jobs : JobKey(jobs[j]) = JobKey(jobs[k]) => j = k

LEMMA LedgerIsKept ==
  ASSUME LedgerMatchesJobs, ledger' = ledger, Jobs' = Jobs,
         \A j \in Jobs : SameRequest(jobs'[j], jobs[j])
  PROVE  LedgerMatchesJobs'
<1>1. \A j \in Jobs : JobKey(jobs'[j]) = JobKey(jobs[j])
  BY DEF SameRequest, JobKey
<1>2. QED
  BY <1>1 DEF LedgerMatchesJobs, RowKey

LEMMA LedgerKept == Typed /\ LedgerMatchesJobs /\ [Next]_vars => LedgerMatchesJobs'
<1> SUFFICES ASSUME Typed, LedgerMatchesJobs, [Next]_vars PROVE LedgerMatchesJobs'
  OBVIOUS
<1>1. ASSUME NEW lane, NEW snap, NEW choice, Requested(lane, snap, choice)
      PROVE  LedgerMatchesJobs'
  <2> DEFINE key == <<match, session.turn, lane = "RICH", snap>>
  <2>1. (lane = "RICH") \in BOOLEAN /\ snap \in Nat
    BY <1>1 DEF Requested
  <2>2. PICK row \in LedgerRow :
          /\ ledger' = ledger \cup {row}
          /\ row.match = match /\ row.turn = session.turn /\ row.rich = (lane = "RICH")
          /\ row.snap = snap /\ row.job = NewJob
    BY <1>1, <2>1, ReservedRow DEF Requested
  <2>3. RowKey(row) = key
    BY <2>2 DEF RowKey
  <2>4. JobKey(jobs'[NewJob]) = key
    BY <1>1, RequestedAddsJob DEF JobKey
  <2>5. \A r \in ledger : RowKey(r) # key
    <3>1. ~Reserved(lane = "RICH", snap)
      BY <1>1, <2>1, ReservedRow DEF Requested
    <3>2. ASSUME NEW r \in ledger, NEW rich,
                 RowKey(r) = <<match, session.turn, rich, snap>>
          PROVE  Reserved(rich, snap)
      BY <3>2 DEF RowKey, Reserved
    <3>3. QED
      BY <3>1, <3>2, Zenon
  <2>6. \A j \in Jobs : JobKey(jobs[j]) # key
    BY <2>5 DEF LedgerMatchesJobs
  <2> HIDE DEF key
  <2>7. \A j \in Jobs : jobs'[j] = jobs[j] /\ j # NewJob
    BY <1>1, RequestedAddsJob
  <2>8. Jobs' = Jobs \cup {NewJob}
    BY <1>1, RequestedAddsJob
  <2>9. \A j \in Jobs' : \E r \in ledger' : r.job = j /\ RowKey(r) = JobKey(jobs'[j])
    BY <2>2, <2>3, <2>4, <2>7, <2>8 DEF LedgerMatchesJobs
  <2>10. \A j, k \in Jobs' : JobKey(jobs'[j]) = JobKey(jobs'[k]) => j = k
    BY <2>4, <2>6, <2>7, <2>8 DEF LedgerMatchesJobs
  <2>11. QED
    BY <2>9, <2>10 DEF LedgerMatchesJobs, RowKey, JobKey
<1>2. ASSUME NEW i \in Jobs, NEW r \in Job, Settle(i, r), ledger' = ledger
      PROVE  LedgerMatchesJobs'
  BY <1>2, SettleKeepsRequests, LedgerIsKept
<1>3. CASE CancelPending /\ ledger' = ledger
  BY <1>3, CancelKeepsJobs, LedgerIsKept
<1>4. CASE Restart /\ ledger' = ledger
  BY <1>4, RestartRecovers, LedgerIsKept
<1>5. CASE jobs' = jobs /\ ledger' = ledger
  BY <1>5 DEF LedgerMatchesJobs, RowKey, JobKey
<1>6. QED
  BY <1>1, <1>2, <1>3, <1>4, <1>5, JobStep

LEMMA LedgerInvariant == Spec => []LedgerMatchesJobs
<1>1. Init => LedgerMatchesJobs
  BY DEF Init, LedgerMatchesJobs
<1>2. Typed /\ LedgerMatchesJobs /\ [Next]_vars => LedgerMatchesJobs'
  BY LedgerKept
<1>3. QED
  BY <1>1, <1>2, TypedInvariant, PTL DEF Spec

(* One reviewed snapshot is sent at most once per lane contract, across    *)
(* failures, corrections, matches and restarts, and the ledger names the   *)
(* job that was sent (turn_advice_attempt_reserved and the insertion of    *)
(* the attempt, in the transaction that creates the job).                  *)
THEOREM OneAttemptForEachSnapshot == Spec => []OneAttemptPerSnapshot
<1>1. LedgerMatchesJobs => OneAttemptPerSnapshot
  BY DEF LedgerMatchesJobs, OneAttemptPerSnapshot, JobKey, RowKey
<1>2. QED
  BY <1>1, LedgerInvariant, PTL

---------------------------------------------------------------------------
(* Answers.                                                                *)

(* Advice rows name existing jobs.                                         *)
AdviceExists == \A a \in DOMAIN advices : advices[a].job \in Jobs

(* Job statuses move, but no job becomes or ceases to be SUCCEEDED.        *)
OnlyStatusesMove ==
  /\ Jobs' = Jobs /\ UNCHANGED <<match, results, advices>>
  /\ \A j \in Jobs : /\ SameRequest(jobs'[j], jobs[j])
                     /\ jobs'[j].status = "SUCCEEDED" <=> jobs[j].status = "SUCCEEDED"

(* A confirmation that replaces a board, a dispatch, a failure and the     *)
(* recovery are such moves.                                                *)
LEMMA StatusesMove ==
  ASSUME Typed, UNCHANGED <<match, results, advices>>,
         CancelPending \/ Restart \/ Dispatch \/ FailJob
  PROVE  OnlyStatusesMove
<1>1. CASE CancelPending
  <2>1. \A j \in Jobs : jobs'[j] = Cancelled(j) /\ SameRequest(jobs'[j], jobs[j]) /\ jobs[j] \in Job
    BY <1>1, CancelKeepsJobs, JobsAreJobs
  <2>2. \A r \in Job : [r EXCEPT !.status = "CANCELLED"].status = "CANCELLED"
    BY DEF Job
  <2>3. ASSUME NEW j \in Jobs
        PROVE  jobs'[j].status = "SUCCEEDED" <=> jobs[j].status = "SUCCEEDED"
    <3>1. CASE jobs[j].status \in Pending
      BY <2>1, <2>2, <3>1 DEF Cancelled, Pending
    <3>2. CASE jobs[j].status \notin Pending
      BY <2>1, <3>2 DEF Cancelled
    <3> QED
      BY <3>1, <3>2
  <2> QED
    BY <1>1, <2>1, <2>3, CancelKeepsJobs DEF OnlyStatusesMove
<1>2. CASE Restart
  BY <1>2, RestartRecovers DEF OnlyStatusesMove, Recovered
<1>3. ASSUME NEW j \in Jobs, NEW r \in Job, SameRequest(r, jobs[j]),
             r.status = "SUCCEEDED" <=> jobs[j].status = "SUCCEEDED",
             jobs' = [jobs EXCEPT ![j] = r]
      PROVE  OnlyStatusesMove
  <2>1. Jobs' = Jobs /\ \A k \in Jobs : jobs'[k] = IF k = j THEN r ELSE jobs[k]
    BY <1>3, JobsAreJobs
  <2> QED
    BY <1>3, <2>1 DEF OnlyStatusesMove, SameRequest
<1>4. CASE Dispatch
  <2> DEFINE r == [jobs[ui.job] EXCEPT !.status = "IN_FLIGHT", !.dispatches = @ + 1]
  <2>1. ui.job \in Jobs /\ jobs[ui.job].status = "QUEUED"
    BY <1>4 DEF Dispatch, Typed, ControlOK
  <2>2. r \in Job /\ SameRequest(r, jobs[ui.job]) /\ r.status = "IN_FLIGHT"
    BY <2>1, JobsAreJobs, JobUpdates
  <2>3. jobs' = [jobs EXCEPT ![ui.job] = r]
    BY <1>4, Zenon DEF Dispatch
  <2> HIDE DEF r
  <2> QED
    BY <1>3, <2>1, <2>2, <2>3
<1>5. CASE FailJob
  <2> DEFINE x == AfterFailure(jobs[ui.job].status, ui.arg)
             r == [jobs[ui.job] EXCEPT !.status = x]
  <2>1. ui.job \in Jobs
    BY <1>5 DEF FailJob, Typed, ControlOK
  <2>2. x = "SUCCEEDED" <=> jobs[ui.job].status = "SUCCEEDED"
    BY DEF AfterFailure, Pending
  <2>3. jobs' = [jobs EXCEPT ![ui.job] = r]
    BY <1>5, Zenon DEF FailJob
  <2>4. x \in JobStatus
    BY <2>1, JobsAreJobs, JobUpdates
  <2> HIDE DEF x
  <2>5. r \in Job /\ SameRequest(r, jobs[ui.job]) /\ r.status = x
    BY <2>1, <2>4, JobsAreJobs, JobUpdates
  <2> HIDE DEF r
  <2> QED
    BY <1>3, <2>1, <2>2, <2>3, <2>5
<1> QED
  BY <1>1, <1>2, <1>4, <1>5

(* What a step can do to jobs, results and advice together.                *)
LEMMA AnswerStep ==
  ASSUME Typed, [Next]_vars
  PROVE  \/ UNCHANGED <<jobs, results, advices>>
         \/ advices' = advices /\ \E lane, snap, choice : Requested(lane, snap, choice)
         \/ \E j \in Jobs : \E p : ApplyResult(j, p)
         \/ OnlyStatusesMove
<1>1. CASE Command
  <2>1. CASE RequestStep
    BY <2>1, RequestsAreRequested
  <2>2. ASSUME NEW o \in Opponent, ConfirmTurnFacts(o)
        PROVE  UNCHANGED <<jobs, results, advices>> \/ OnlyStatusesMove
    BY <2>2, StatusesMove DEF ConfirmTurnFacts
  <2>3. ASSUME NEW j \in Jobs, NEW p \in Payload, Redeliver(j, p)
        PROVE  ApplyResult(j, p)
    BY <2>3 DEF Redeliver
  <2>4. CASE \/ BeginBattle \/ AbortMatch \/ StartTurnCapture
             \/ \E o \in Opponent : RejectTurnFacts(o)
             \/ \E e \in DOMAIN entries : HandleEntry(e)
             \/ \E i \in DOMAIN states :
                  \/ \E choice \in SwitchSet \ {0} : ConfirmSwitches(i, choice)
                  \/ RecordAction(i)
                  \/ \E c \in DOMAIN completions : NextTurn(i, c)
    BY <2>4 DEF BeginBattle, AbortMatch, StartTurnCapture, RejectTurnFacts, HandleEntry,
                ConfirmSwitches, RecordAction, NextTurn
  <2> QED
    BY <1>1, <2>1, <2>2, <2>3, <2>4 DEF Command, RequestStep
<1>2. CASE UiStep
  <2>1. CASE Apply
    BY <2>1 DEF Apply, Typed, ControlOK
  <2>2. CASE RecordState
    BY <2>2 DEF RecordState
  <2>3. CASE Dispatch \/ FailJob
    <3>1. UNCHANGED <<match, results, advices>>
      BY <2>3 DEF Dispatch, FailJob
    <3> QED
      BY <2>3, <3>1, StatusesMove
  <2> QED
    BY <1>2, <2>1, <2>2, <2>3 DEF UiStep
<1>3. CASE Callback \/ (\E l \in Remote : WorkerStep(l)) \/ UNCHANGED vars
  BY <1>3 DEF Callback, ReleaseDispatch, HandleSucceeded, HandleFailed, TakeAnswer,
              WorkerStep, WorkerAnswer, vars
<1>4. CASE Crash
  BY <1>4, Zenon DEF Crash
<1>5. CASE Restart
  BY <1>5, StatusesMove DEF Restart
<1> QED
  BY <1>1, <1>2, <1>3, <1>4, <1>5 DEF Next

(* What a result does to the tables, and to the row of its match.          *)
Answered(j) ==
  /\ BindingHolds(j) /\ RebuildsSame(j)
  /\ session' = [session EXCEPT !.advice = Len(advices) + 1, !.rev = @ + 1]
  /\ Jobs' = Jobs /\ jobs'[j].status = "SUCCEEDED"
  /\ \A k \in Jobs : SameRequest(jobs'[k], jobs[k]) /\ (k # j => jobs'[k] = jobs[k])
  /\ DOMAIN advices' = DOMAIN advices \cup {Len(advices) + 1}
  /\ Len(advices) + 1 \notin DOMAIN advices /\ Len(advices) + 1 # None
  /\ \A a \in DOMAIN advices : advices'[a] = advices[a]
  /\ advices'[Len(advices) + 1].match = match
  /\ advices'[Len(advices) + 1].turn = session.turn
  /\ advices'[Len(advices) + 1].job = j

(* A result is APPLIED only to a pending job whose binding holds, and to   *)
(* no job twice; any other result makes no advice and no SUCCEEDED job.    *)
LEMMA ResultIsApplied ==
  ASSUME Typed, NEW j \in Jobs, NEW p, ApplyResult(j, p)
  PROVE  \E d :
           /\ d = "APPLIED" => ~WasApplied(j) /\ Answered(j)
           /\ d # "APPLIED" =>
                /\ UNCHANGED <<session, advices>> /\ Jobs' = Jobs
                /\ \A k \in Jobs : /\ SameRequest(jobs'[k], jobs[k])
                                   /\ jobs'[k].status = "SUCCEEDED" <=> jobs[k].status = "SUCCEEDED"
           /\ \A k \in Jobs : k # j => results'[k] = results[k]
           /\ DOMAIN results'[j] = DOMAIN results[j] \cup {Len(results[j]) + 1}
           /\ \A i \in DOMAIN results[j] : results'[j][i] = results[j][i]
           /\ results'[j][Len(results[j]) + 1] = d
<1> DEFINE d == DispositionOf(j, p)
           row == Append(results[j], d)
<1>1. /\ session \in Session /\ match \in Nat /\ session.turn \in Nat
      /\ advices \in Seq(Advice)
      /\ results \in Seq(Seq(Disposition)) /\ Len(results) = Len(jobs)
      /\ DOMAIN results = Jobs
      /\ DOMAIN advices = 1..Len(advices) /\ Len(advices) \in Nat
      /\ results[j] \in Seq(Disposition)
  BY JobsAreJobs, ElementOfSeq, LenProperties DEF Typed, TypeOK, Session
<1>2. d \in Disposition
  BY DEF DispositionOf, Disposition
<1>3. /\ d = "APPLIED" => BindingHolds(j) /\ RebuildsSame(j) /\ ~WasApplied(j)
      /\ d = "INVALID_REJECTED" => BindingHolds(j)
  BY DEF DispositionOf
<1>4. results' = [results EXCEPT ![j] = row]
  BY DEF ApplyResult
<1>5. /\ DOMAIN row = DOMAIN results[j] \cup {Len(results[j]) + 1}
      /\ \A i \in DOMAIN results[j] : row[i] = results[j][i]
      /\ row[Len(results[j]) + 1] = d
  BY <1>1, <1>2, AppendIsSeq
<1> HIDE DEF row, d
<1>6. \A k \in Jobs : results'[k] = IF k = j THEN row ELSE results[k]
  BY <1>1, <1>4
<1>7. d = "APPLIED" => Answered(j)
  <2> SUFFICES ASSUME d = "APPLIED" PROVE Answered(j)
    OBVIOUS
  <2> DEFINE new == [match |-> match, turn |-> session.turn, job |-> j]
             q == [jobs[j] EXCEPT !.status = "SUCCEEDED"]
  <2>1. /\ advices' = Append(advices, new) /\ jobs' = [jobs EXCEPT ![j] = q]
        /\ session' = [session EXCEPT !.advice = Len(advices) + 1, !.rev = @ + 1]
    BY Zenon DEF ApplyResult, d
  <2>2. new \in Advice /\ new.match = match /\ new.turn = session.turn /\ new.job = j
    BY <1>1, JobsAreJobs DEF Advice
  <2>3. SameRequest(q, jobs[j]) /\ q.status = "SUCCEEDED"
    <3>1. "SUCCEEDED" \in JobStatus
      BY DEF JobStatus, Terminal
    <3> QED
      BY <3>1, JobsAreJobs, JobUpdates
  <2> HIDE DEF new, q
  <2>4. Jobs' = Jobs /\ \A k \in Jobs : jobs'[k] = IF k = j THEN q ELSE jobs[k]
    BY <2>1, JobsAreJobs
  <2>5. \A k \in Jobs : SameRequest(jobs'[k], jobs[k]) /\ (k # j => jobs'[k] = jobs[k])
    BY <2>3, <2>4 DEF SameRequest
  <2>6. /\ DOMAIN advices' = DOMAIN advices \cup {Len(advices) + 1}
        /\ Len(advices) + 1 \notin DOMAIN advices /\ Len(advices) + 1 # None
        /\ \A a \in DOMAIN advices : advices'[a] = advices[a]
        /\ advices'[Len(advices) + 1] = new
    BY <1>1, <2>1, <2>2, AppendIsSeq
  <2>7. jobs'[j].status = "SUCCEEDED"
    BY <2>3, <2>4
  <2> QED
    BY <1>3, <2>1, <2>2, <2>4, <2>5, <2>6, <2>7 DEF Answered
<1>8. d # "APPLIED" =>
        /\ UNCHANGED <<session, advices>> /\ Jobs' = Jobs
        /\ \A k \in Jobs : /\ SameRequest(jobs'[k], jobs[k])
                           /\ jobs'[k].status = "SUCCEEDED" <=> jobs[k].status = "SUCCEEDED"
  <2> SUFFICES ASSUME d # "APPLIED"
               PROVE  /\ UNCHANGED <<session, advices>> /\ Jobs' = Jobs
                      /\ \A k \in Jobs :
                           /\ SameRequest(jobs'[k], jobs[k])
                           /\ jobs'[k].status = "SUCCEEDED" <=> jobs[k].status = "SUCCEEDED"
    OBVIOUS
  <2>1. /\ UNCHANGED <<session, advices>>
        /\ \/ jobs' = jobs
           \/ d = "INVALID_REJECTED" /\ jobs' = [jobs EXCEPT ![j].status = "FAILED"]
    BY Zenon DEF ApplyResult, d
  <2>2. CASE jobs' = jobs
    BY <2>1, <2>2 DEF SameRequest
  <2>3. CASE d = "INVALID_REJECTED" /\ jobs' = [jobs EXCEPT ![j].status = "FAILED"]
    <3> DEFINE q == [jobs[j] EXCEPT !.status = "FAILED"]
    <3>1. SameRequest(q, jobs[j]) /\ q.status = "FAILED"
      <4>1. "FAILED" \in JobStatus
        BY DEF JobStatus, Terminal
      <4> QED
        BY <4>1, JobsAreJobs, JobUpdates
    <3>2. jobs' = [jobs EXCEPT ![j] = q]
      BY <2>3, Zenon
    <3>3. jobs[j].status # "SUCCEEDED"
      BY <1>3, <2>3 DEF BindingHolds, Pending
    <3> HIDE DEF q
    <3>4. Jobs' = Jobs /\ \A k \in Jobs : jobs'[k] = IF k = j THEN q ELSE jobs[k]
      BY <3>2, JobsAreJobs
    <3> QED
      BY <2>1, <3>1, <3>3, <3>4 DEF SameRequest
  <2> QED
    BY <2>1, <2>2, <2>3
<1> QED
  BY <1>3, <1>5, <1>6, <1>7, <1>8

LEMMA AnswersKept ==
  Typed /\ AdviceExists /\ AppliedOnce /\ [Next]_vars => (AdviceExists /\ AppliedOnce)'
<1> SUFFICES ASSUME Typed, AdviceExists, AppliedOnce, [Next]_vars
             PROVE  AdviceExists' /\ AppliedOnce'
  OBVIOUS
<1>1. CASE UNCHANGED <<jobs, results, advices>>
  BY <1>1 DEF AdviceExists, AppliedOnce, WasApplied
<1>2. CASE OnlyStatusesMove
  BY <1>2 DEF AdviceExists, AppliedOnce, WasApplied, OnlyStatusesMove
<1>3. ASSUME advices' = advices, NEW lane, NEW snap, NEW choice, Requested(lane, snap, choice)
      PROVE  AdviceExists' /\ AppliedOnce'
  <2>1. /\ Jobs' = Jobs \cup {NewJob} /\ NewJob \notin Jobs
        /\ \A j \in Jobs : jobs'[j] = jobs[j]
        /\ jobs'[NewJob].status = "QUEUED"
    BY <1>3, RequestedAddsJob
  <2>2. /\ \A j \in Jobs : results'[j] = results[j]
        /\ results'[NewJob] = <<>>
    <3>1. results \in Seq(Seq(Disposition)) /\ DOMAIN results = Jobs /\ Len(results) = Len(jobs)
      BY JobsAreJobs, LenProperties DEF Typed, TypeOK
    <3>2. <<>> \in Seq(Disposition)
      BY EmptySeq
    <3>3. results' = Append(results, <<>>)
      BY <1>3 DEF Requested, InsertJob
    <3> QED
      BY <3>1, <3>2, <3>3, AppendIsSeq
  <2>4. DOMAIN <<>> = {}
    OBVIOUS
  <2>5. AdviceExists'
    BY <1>3, <2>1 DEF AdviceExists
  <2>6. AppliedOnce'
    BY <1>3, <2>1, <2>2, <2>4 DEF AdviceExists, AppliedOnce, WasApplied
  <2> QED
    BY <2>5, <2>6
<1>4. ASSUME NEW j \in Jobs, NEW p, ApplyResult(j, p)
      PROVE  AdviceExists' /\ AppliedOnce'
  <2>1. PICK d :
          /\ d = "APPLIED" => ~WasApplied(j) /\ Answered(j)
          /\ d # "APPLIED" =>
               /\ UNCHANGED <<session, advices>> /\ Jobs' = Jobs
               /\ \A k \in Jobs : /\ SameRequest(jobs'[k], jobs[k])
                                  /\ jobs'[k].status = "SUCCEEDED" <=> jobs[k].status = "SUCCEEDED"
          /\ \A k \in Jobs : k # j => results'[k] = results[k]
          /\ DOMAIN results'[j] = DOMAIN results[j] \cup {Len(results[j]) + 1}
          /\ \A i \in DOMAIN results[j] : results'[j][i] = results[j][i]
          /\ results'[j][Len(results[j]) + 1] = d
    BY <1>4, ResultIsApplied
  <2>2. WasApplied(j)' <=> WasApplied(j) \/ d = "APPLIED"
    BY <2>1 DEF WasApplied
  <2>3. \A k \in Jobs : k # j => (WasApplied(k)' <=> WasApplied(k))
    BY <2>1 DEF WasApplied
  <2>4. \A k \in Jobs : \A x, y \in DOMAIN results'[k] :
          (results'[k][x] = "APPLIED" /\ results'[k][y] = "APPLIED") => x = y
    <3>1. \A k \in Jobs : \A x, y \in DOMAIN results[k] :
            (results[k][x] = "APPLIED" /\ results[k][y] = "APPLIED") => x = y
      BY DEF AppliedOnce
    <3>2. d = "APPLIED" => \A i \in DOMAIN results[j] : results[j][i] # "APPLIED"
      BY <2>1 DEF WasApplied
    <3> QED
      BY <2>1, <3>1, <3>2
  <2>5. CASE d # "APPLIED"
    BY <2>1, <2>2, <2>3, <2>4, <2>5 DEF AdviceExists, AppliedOnce
  <2>6. CASE d = "APPLIED"
    <3>1. Answered(j)
      BY <2>1, <2>6
    <3>2. jobs[j].status # "SUCCEEDED" /\ \A a \in DOMAIN advices : advices[a].job # j
      BY <3>1 DEF Answered, BindingHolds, Pending, AppliedOnce
    <3>3. AdviceExists'
      BY <3>1 DEF Answered, AdviceExists
    <3>4. \A a \in DOMAIN advices' : advices'[a].job = j <=> a = Len(advices) + 1
      BY <3>1, <3>2 DEF Answered
    <3>5. \A k \in Jobs, a \in DOMAIN advices' :
            k # j => (advices'[a].job = k <=> a \in DOMAIN advices /\ advices[a].job = k)
      BY <3>1 DEF Answered
    <3>6. DOMAIN advices \subseteq DOMAIN advices' /\ Len(advices) + 1 \in DOMAIN advices'
      BY <3>1 DEF Answered
    <3>7. ASSUME NEW k \in Jobs
          PROVE  /\ jobs'[k].status = "SUCCEEDED" <=> WasApplied(k)'
                 /\ jobs'[k].status = "SUCCEEDED" <=>
                      (\E a \in DOMAIN advices' : advices'[a].job = k)
                 /\ \A a, b \in DOMAIN advices' :
                      (advices'[a].job = k /\ advices'[b].job = k) => a = b
      <4>1. CASE k = j
        BY <2>2, <2>6, <3>1, <3>4, <3>6, <4>1 DEF Answered
      <4>2. CASE k # j
        <5>1. jobs'[k] = jobs[k]
          BY <3>1, <4>2 DEF Answered
        <5> QED
          BY <2>3, <3>5, <3>6, <4>2, <5>1 DEF AppliedOnce
      <4> QED
        BY <4>1, <4>2
    <3>8. AppliedOnce'
      <4>1. Jobs' = Jobs
        BY <3>1 DEF Answered
      <4> QED
        BY <2>4, <3>7, <4>1 DEF AppliedOnce
    <3> QED
      BY <3>3, <3>8
  <2> QED
    BY <2>5, <2>6
<1> QED
  BY <1>1, <1>2, <1>3, <1>4, AnswerStep

(* A job whose answer was applied and the advice it left are one pair.     *)
LEMMA AnswersCount == Spec => [](AdviceExists /\ AppliedOnce)
<1> DEFINE Inv == AdviceExists /\ AppliedOnce
<1>1. Init => Inv
  BY DEF Init, AdviceExists, AppliedOnce
<1>2. Typed /\ Inv /\ [Next]_vars => Inv'
  BY AnswersKept
<1> QED
  BY <1>1, <1>2, TypedInvariant, PTL DEF Spec

(* However late, often or early results are delivered, an answer takes     *)
(* effect once: a job has one APPLIED result exactly when it SUCCEEDED,    *)
(* and then one advice row (apply_turn_advice_result,                      *)
(* apply_rich_turn_advice_result).                                         *)
THEOREM AnswersCountOnce == Spec => []AppliedOnce
  BY AnswersCount, PTL

(* No step takes an advice row away, or the SUCCEEDED of its job.          *)
LEMMA RowsAreKept ==
  ASSUME Typed, AdviceExists, [Next]_vars, NEW a \in DOMAIN advices
  PROVE  /\ a \in DOMAIN advices' /\ advices'[a] = advices[a]
         /\ SameRequest(jobs'[advices[a].job], jobs[advices[a].job])
         /\ jobs[advices[a].job].status = "SUCCEEDED" =>
              jobs'[advices[a].job].status = "SUCCEEDED"
<1> DEFINE k == advices[a].job
<1>1. k \in Jobs
  BY DEF AdviceExists
<1>2. CASE UNCHANGED <<jobs, results, advices>>
  BY <1>2 DEF SameRequest
<1>3. ASSUME advices' = advices, NEW lane, NEW snap, NEW choice, Requested(lane, snap, choice)
      PROVE  jobs'[k] = jobs[k]
  BY <1>1, <1>3, RequestedAddsJob
<1>4. CASE OnlyStatusesMove
  BY <1>1, <1>4 DEF OnlyStatusesMove
<1>5. ASSUME NEW j \in Jobs, NEW p, ApplyResult(j, p)
      PROVE  /\ a \in DOMAIN advices' /\ advices'[a] = advices[a]
             /\ SameRequest(jobs'[k], jobs[k])
             /\ jobs[k].status = "SUCCEEDED" => jobs'[k].status = "SUCCEEDED"
  <2>1. \/ Answered(j)
        \/ /\ UNCHANGED advices
           /\ SameRequest(jobs'[k], jobs[k])
           /\ jobs[k].status = "SUCCEEDED" => jobs'[k].status = "SUCCEEDED"
    BY <1>1, <1>5, ResultIsApplied
  <2>2. CASE Answered(j)
    BY <1>1, <2>2 DEF Answered
  <2> QED
    BY <2>1, <2>2
<1> QED
  BY <1>1, <1>2, <1>3, <1>4, <1>5, AnswerStep DEF SameRequest

---------------------------------------------------------------------------
(* Advice and the board.                                                   *)

(* What binds a state to the board: it has the revision of its             *)
(* confirmation, which no other row of the match has, so a state of the    *)
(* current revision is of the input confirmed last, and of a match with    *)
(* advice none is; between the two transactions of a confirmation no state *)
(* is of the current revision.                                             *)
BoardInv ==
  /\ \A i \in DOMAIN states : states[i].match <= match
  /\ \A i \in DOMAIN states : states[i].match = match =>
       /\ states[i].rev <= session.rev
       /\ states[i].rev = session.rev =>
            states[i].input = facts[session.board].input /\ session.advice = None
  /\ ui.step = "state" =>
       /\ session.advice = None /\ facts[session.board].input = ui.input
       /\ \A i \in DOMAIN states : states[i].match = match => states[i].rev < session.rev

(* What a step can do to the match, its board and its states.              *)
BoardIsLeft ==
  UNCHANGED <<match, session, facts, states, switches>> /\ (ui' = ui \/ ui'.step # "state")
BoardIsRevised ==
  /\ UNCHANGED <<match, facts, states, switches>> /\ ui'.step # "state"
  /\ session'.rev = session.rev + 1
  /\ \/ session'.advice = None
     \/ /\ session'.advice = session.advice /\ session'.turn = session.turn
        /\ session'.board = session.board
MatchBegins ==
  /\ match' = match + 1 /\ session'.advice = None
  /\ UNCHANGED <<facts, states, switches>> /\ ui'.step # "state"
StateIsAdded ==
  /\ ui.step = "state" /\ AppendState /\ ui' = Idle
  /\ UNCHANGED <<match, session, facts>>
ResultArrives ==
  /\ \E j \in Jobs : \E p : ApplyResult(j, p)
  /\ UNCHANGED <<match, facts, states, switches>> /\ ui'.step # "state"

(* Every step does one of these.                                           *)
LEMMA BoardStep ==
  ASSUME Typed, [Next]_vars, rejections = 0, rejections' = 0
  PROVE  \/ BoardIsLeft \/ BoardIsRevised \/ MatchBegins \/ StateIsAdded \/ ResultArrives
         \/ \E o \in Opponent : ConfirmTurnFacts(o)
         \/ \E i \in DOMAIN states, choice \in SwitchSet : ConfirmSwitches(i, choice)
<1>1. /\ session \in Session /\ session.turn + 1 \in Nat /\ session.rev + 1 \in Nat
      /\ Idle.step = "idle"
  BY SMTT(30), RestTyped DEF Typed, TypeOK, Session
<1>2. ASSUME NEW r \in Session, NEW n \in Nat
      PROVE  /\ LET q == [r EXCEPT !.active = FALSE, !.state = "ABORTED", !.rev = n]
                IN /\ q.rev = n /\ q.advice = r.advice /\ q.turn = r.turn
                   /\ q.board = r.board
             /\ \A t \in Nat :
                  LET q == [r EXCEPT !.turn = t, !.board = None, !.advice = None,
                                     !.state = "TURN_CAPTURE_PENDING", !.rev = n]
                  IN q.rev = n /\ q.advice = None
             /\ LET q == [r EXCEPT !.state = "TURN_RECORDED", !.rev = n]
                IN /\ q.rev = n /\ q.advice = r.advice /\ q.turn = r.turn
                   /\ q.board = r.board
  BY DEF Session
<1>3. CASE BeginBattle
  BY <1>3 DEF BeginBattle, MatchBegins
<1>4. CASE AbortMatch
  <2>1. session' = [session EXCEPT !.active = FALSE, !.state = "ABORTED", !.rev = session.rev + 1]
    BY <1>4, Zenon DEF AbortMatch
  <2> QED
    BY <1>1, <1>2, <1>4, <2>1 DEF AbortMatch, BoardIsRevised
<1>5. ASSUME NEW t \in Nat, PendingTurn(t)
      PROVE  session'.rev = session.rev + 1 /\ session'.advice = None
  <2>1. session' = [session EXCEPT !.turn = t, !.board = None, !.advice = None,
                      !.state = "TURN_CAPTURE_PENDING", !.rev = session.rev + 1]
    BY <1>5, Zenon DEF PendingTurn
  <2> QED
    BY <1>1, <1>2, <2>1
<1>6. CASE StartTurnCapture
  BY <1>5, <1>6 DEF StartTurnCapture, BoardIsRevised
<1>7. ASSUME NEW i, NEW c, NextTurn(i, c)
      PROVE  BoardIsRevised
  BY <1>1, <1>5, <1>7 DEF NextTurn, BoardIsRevised
<1>8. ASSUME NEW i, RecordAction(i)
      PROVE  BoardIsRevised
  <2>1. session' = [session EXCEPT !.state = "TURN_RECORDED", !.rev = session.rev + 1]
    BY <1>8, Zenon DEF RecordAction
  <2> QED
    BY <1>1, <1>2, <1>8, <2>1 DEF RecordAction, BoardIsRevised
<1>9. CASE Command
  <2>1. ASSUME NEW o \in Opponent, RejectTurnFacts(o)
        PROVE  FALSE
    BY <2>1 DEF RejectTurnFacts
  <2>2. CASE RequestStep
    <3>1. /\ UNCHANGED <<match, session, facts, states, switches>>
          /\ ui'.step \in {"dispatch", "apply"}
      BY <2>2, RequestsAreRequested
    <3> QED
      BY <3>1 DEF BoardIsLeft
  <2>3. ASSUME NEW e, HandleEntry(e)
        PROVE  BoardIsLeft
    BY <2>3 DEF HandleEntry, BoardIsLeft
  <2>4. ASSUME NEW j \in Jobs, NEW p, Redeliver(j, p)
        PROVE  ResultArrives
    BY <2>4 DEF Redeliver, ResultArrives
  <2> QED
    BY <1>3, <1>4, <1>6, <1>7, <1>8, <1>9, <2>1, <2>2, <2>3, <2>4 DEF Command, RequestStep
<1>10. CASE UiStep
  <2>1. CASE Apply
    <3>1. ui'.step # "state"
      <4>1. [ui EXCEPT !.step = "reject", !.arg = "OTHER"].step = "reject"
        BY DEF Typed, TypeOK, Ui
      <4> QED
        BY <1>1, <2>1, <4>1 DEF Apply
    <3> QED
      BY <2>1, <3>1 DEF Apply, ResultArrives, Typed, ControlOK
  <2>2. CASE RecordState
    BY <1>1, <2>2 DEF RecordState, StateIsAdded, BoardIsLeft
  <2>3. CASE Dispatch \/ FailJob
    BY <1>1, <2>3 DEF Dispatch, FailJob, BoardIsLeft
  <2> QED
    BY <1>10, <2>1, <2>2, <2>3 DEF UiStep
<1>11. ASSUME NEW l, NEW phase, NEW step \in {"apply", "fail"}, TakeAnswer(l, phase, step)
       PROVE  BoardIsLeft
  <2>1. [Idle EXCEPT !.step = step, !.job = workers[l].job, !.arg = workers[l].arg].step = step
    BY DEF Idle
  <2> QED
    BY <1>11, <2>1 DEF TakeAnswer, BoardIsLeft
<1>12. CASE Callback
  BY <1>11, <1>12 DEF Callback, ReleaseDispatch, HandleSucceeded, HandleFailed, BoardIsLeft
<1>13. CASE (\E l \in Remote : WorkerStep(l)) \/ UNCHANGED vars
  BY <1>13 DEF WorkerStep, WorkerAnswer, vars, BoardIsLeft
<1>14. CASE Crash
  <2>1. ui' = [Idle EXCEPT !.step = "down"] /\ UNCHANGED <<match, session, facts, states, switches>>
    BY <1>14, Zenon DEF Crash
  <2> QED
    BY <2>1, RestTyped DEF BoardIsLeft
<1>15. CASE Restart
  BY <1>1, <1>15 DEF Restart, BoardIsLeft
<1> QED
  BY <1>9, <1>10, <1>12, <1>13, <1>14, <1>15 DEF Next

(* While no confirmation is refused, what binds states to the board holds. *)
LEMMA BoardInvKept ==
  Typed /\ BoardInv /\ [Next]_vars /\ rejections = 0 /\ rejections' = 0 => BoardInv'
<1> SUFFICES ASSUME Typed, BoardInv, [Next]_vars, rejections = 0, rejections' = 0
             PROVE  BoardInv'
  OBVIOUS
<1>1. /\ session \in Session /\ session.rev \in Nat /\ match \in Nat
      /\ states \in Seq(State) /\ facts \in Seq(Facts)
      /\ \A i \in DOMAIN states : states[i] \in State /\ states[i].rev \in Nat
                                 /\ states[i].match \in Nat
  <2>1. session \in Session /\ match \in Nat /\ states \in Seq(State) /\ facts \in Seq(Facts)
    BY DEF Typed, TypeOK
  <2>2. session.rev \in Nat
    BY <2>1 DEF Session
  <2>3. \A i \in DOMAIN states : states[i] \in State
    BY <2>1, ElementOfSeq, LenProperties
  <2>4. \A r \in State : r.rev \in Nat /\ r.match \in Nat
    BY DEF State
  <2> QED
    BY <2>1, <2>2, <2>3, <2>4
<1>2. CASE BoardIsLeft
  BY <1>2 DEF BoardIsLeft, BoardInv
<1>3. CASE BoardIsRevised
  BY <1>1, <1>3 DEF BoardIsRevised, BoardInv
<1>4. CASE MatchBegins
  BY <1>1, <1>4 DEF MatchBegins, BoardInv
<1>5. CASE StateIsAdded
  <2> DEFINE new == [match |-> match, turn |-> session.turn, rev |-> session.rev,
                     input |-> ui.input, opponent |-> ui.opponent, prev |-> LatestStateOrNone]
  <2>1. states' = Append(states, new) /\ states' \in Seq(State)
    <3>1. Typed'
      BY TypedNext
    <3> QED
      BY <1>5, <3>1 DEF StateIsAdded, AppendState, Typed, TypeOK
  <2>2. new.match = match /\ new.rev = session.rev /\ new.input = ui.input
    OBVIOUS
  <2> HIDE DEF new
  <2>3. /\ DOMAIN states' = DOMAIN states \cup {Len(states) + 1}
        /\ \A i \in DOMAIN states : states'[i] = states[i]
        /\ states'[Len(states) + 1] = new
    BY <1>1, <2>1, LenProperties, AppendProperties
  <2>4. /\ session.advice = None /\ facts[session.board].input = ui.input
        /\ \A i \in DOMAIN states : states[i].match = match => states[i].rev < session.rev
    BY <1>5 DEF StateIsAdded, BoardInv
  <2>5. UNCHANGED <<match, session, facts>> /\ ui'.step # "state"
    BY <1>5, RestTyped DEF StateIsAdded
  <2> QED
    BY <1>1, <2>2, <2>3, <2>4, <2>5 DEF BoardInv
<1>6. ASSUME NEW j \in Jobs, NEW p, ApplyResult(j, p), ResultArrives
      PROVE  BoardInv'
  <2>1. session' = session \/ session'.rev = session.rev + 1
    BY <1>6, ApplyResultRevises
  <2>2. CASE session' = session
    BY <1>6, <2>2 DEF ResultArrives, BoardInv
  <2>3. CASE session'.rev = session.rev + 1
    BY <1>1, <1>6, <2>3 DEF ResultArrives, BoardInv
  <2> QED
    BY <2>1, <2>2, <2>3
<1>7. ASSUME NEW o \in Opponent, ConfirmTurnFacts(o)
      PROVE  BoardInv'
  <2> DEFINE new == [match |-> match, turn |-> session.turn, input |-> Inputs + 1,
                     prev |-> session.board]
  <2>1. /\ facts' = Append(facts, new) /\ UNCHANGED <<match, states>>
        /\ ui' = [Idle EXCEPT !.step = "state", !.input = Inputs + 1, !.opponent = o]
    BY <1>7, Zenon DEF ConfirmTurnFacts
  <2>2. facts'[Len(facts) + 1].input = Inputs + 1
    <3>1. facts' \in Seq(Facts)
      BY TypedNext DEF Typed, TypeOK
    <3>2. new.input = Inputs + 1
      OBVIOUS
    <3> HIDE DEF new
    <3>3. facts'[Len(facts) + 1] = new
      BY <1>1, <2>1, LenProperties, AppendProperties
    <3> QED
      BY <3>2, <3>3
  <2>3. ui'.step = "state" /\ ui'.input = Inputs + 1
    BY <2>1 DEF Idle
  <2>4. session'.rev = session.rev + 1 /\ session'.advice = None /\ session'.board = Len(facts) + 1
    <3>1. \A b, n : LET q == [session EXCEPT !.board = b, !.advice = None,
                                  !.state = "TURN_REVIEWED", !.rev = n]
                    IN q.rev = n /\ q.advice = None /\ q.board = b
      BY <1>1 DEF Session
    <3>2. session' = [session EXCEPT !.board = Len(facts) + 1, !.advice = None,
                                     !.state = "TURN_REVIEWED", !.rev = session.rev + 1]
      BY <1>7, Zenon DEF ConfirmTurnFacts
    <3> QED
      BY <3>1, <3>2
  <2> QED
    BY <1>1, <2>1, <2>2, <2>3, <2>4 DEF BoardInv
<1>8. ASSUME NEW i \in DOMAIN states, NEW choice \in SwitchSet, ConfirmSwitches(i, choice)
      PROVE  BoardInv'
  BY <1>8 DEF ConfirmSwitches, BoardInv
<1> QED
  BY <1>2, <1>3, <1>4, <1>5, <1>6, <1>7, <1>8, BoardStep DEF ResultArrives

(* While no confirmation is refused, advice stays with its board.          *)
AdviceOfBoard ==
  /\ session.advice # None => session.advice \in DOMAIN advices
  /\ AdviceMatchesBoard

LEMMA AdviceOfBoardKept ==
  ASSUME Typed, BoardInv, AdviceExists, AdviceOfBoard, [Next]_vars,
         rejections = 0, rejections' = 0
  PROVE  AdviceOfBoard'
<1>1. CASE session'.advice = None
  BY <1>1 DEF AdviceOfBoard, AdviceMatchesBoard
<1>2. CASE /\ session'.advice = session.advice /\ session.advice # None
           /\ session'.turn = session.turn /\ session'.board = session.board
           /\ UNCHANGED <<match, facts, states, switches>>
  <2> DEFINE a == advices[session.advice]
  <2>1. /\ session.advice \in DOMAIN advices' /\ advices'[session.advice] = a
        /\ SameRequest(jobs'[a.job], jobs[a.job])
        /\ jobs[a.job].status = "SUCCEEDED" => jobs'[a.job].status = "SUCCEEDED"
    BY <1>2, RowsAreKept DEF AdviceOfBoard
  <2> QED
    BY <1>2, <2>1 DEF AdviceOfBoard, AdviceMatchesBoard, SameRequest
<1>3. ASSUME NEW j \in Jobs, Answered(j), UNCHANGED <<match, facts, states, switches>>
      PROVE  AdviceOfBoard'
  <2>1. /\ session'.advice = Len(advices) + 1 /\ session'.turn = session.turn
        /\ session'.board = session.board
    <3>1. \A x, n : LET q == [session EXCEPT !.advice = x, !.rev = n]
                    IN q.advice = x /\ q.turn = session.turn /\ q.board = session.board
      BY DEF Typed, TypeOK, Session
    <3>2. session' = [session EXCEPT !.advice = Len(advices) + 1, !.rev = session.rev + 1]
      BY <1>3, Zenon DEF Answered
    <3> QED
      BY <3>1, <3>2
  <2>2. /\ advices'[Len(advices) + 1].match = match
        /\ advices'[Len(advices) + 1].turn = session.turn
        /\ advices'[Len(advices) + 1].job = j
        /\ Len(advices) + 1 \in DOMAIN advices'
        /\ SameRequest(jobs'[j], jobs[j]) /\ jobs'[j].status = "SUCCEEDED"
    BY <1>3 DEF Answered
  <2>3. /\ jobs[j].match = match /\ jobs[j].turn = session.turn
        /\ IF jobs[j].lane = "RICH" THEN IsCurrent(jobs[j].snap)
                                    ELSE jobs[j].snap = session.board
        /\ jobs[j].lane = "RICH" => switches[jobs[j].snap] = jobs[j].switches
    BY <1>3 DEF Answered, BindingHolds, RebuildsSame, IsLatest
  <2>4. jobs[j].lane = "RICH" => states[jobs[j].snap].input = facts[session.board].input
    BY <2>3 DEF IsCurrent, IsLatestState, BoardInv
  <2> QED
    BY <1>3, <2>1, <2>2, <2>3, <2>4 DEF AdviceOfBoard, AdviceMatchesBoard, SameRequest
<1>4. CASE BoardIsLeft \/ BoardIsRevised \/ MatchBegins
  BY <1>1, <1>2, <1>4 DEF BoardIsLeft, BoardIsRevised, MatchBegins
<1>5. CASE StateIsAdded
  BY <1>1, <1>5 DEF StateIsAdded, BoardInv
<1>6. CASE ResultArrives
  <2>1. PICK j \in Jobs : \E p : ApplyResult(j, p)
    BY <1>6 DEF ResultArrives
  <2>2. Answered(j) \/ session' = session
    BY <2>1, ResultIsApplied
  <2> QED
    BY <1>1, <1>2, <1>3, <1>6, <2>2 DEF ResultArrives
<1>7. ASSUME NEW o \in Opponent, ConfirmTurnFacts(o)
      PROVE  AdviceOfBoard'
  <2>1. \A b, n : [session EXCEPT !.board = b, !.advice = None,
                       !.state = "TURN_REVIEWED", !.rev = n].advice = None
    BY DEF Typed, TypeOK, Session
  <2>2. session' = [session EXCEPT !.board = Len(facts) + 1, !.advice = None,
                                   !.state = "TURN_REVIEWED", !.rev = session.rev + 1]
    BY <1>7, Zenon DEF ConfirmTurnFacts
  <2> QED
    BY <1>1, <2>1, <2>2
<1>8. ASSUME NEW i \in DOMAIN states, NEW choice \in SwitchSet, ConfirmSwitches(i, choice)
      PROVE  AdviceOfBoard'
  <2>1. session.advice = None /\ session' = session
    BY <1>8 DEF ConfirmSwitches, IsCurrent, IsLatestState, BoardInv
  <2> QED
    BY <1>1, <2>1
<1> QED
  BY <1>4, <1>5, <1>6, <1>7, <1>8, BoardStep

(* As long as the application refuses no confirmation, the advice shown    *)
(* belongs to the board and the switches confirmed last, and an answer     *)
(* counts once, whatever corrections, late answers, aborts and process     *)
(* stops come between (_binding_failure_reason,                            *)
(* _rich_binding_failure_reason).                                          *)
THEOREM AdviceIsSoundUnlessRefused == Spec /\ [](rejections = 0) => []AdviceIsSound
<1>1. Init => BoardInv /\ AdviceOfBoard
  BY RestTyped DEF Init, BoardInv, AdviceOfBoard, AdviceMatchesBoard
<1>2. Typed /\ AdviceExists /\ BoardInv /\ AdviceOfBoard /\ [Next]_vars
        /\ rejections = 0 /\ (rejections = 0)' => (BoardInv /\ AdviceOfBoard)'
  BY BoardInvKept, AdviceOfBoardKept
<1>3. AdviceOfBoard /\ AppliedOnce => AdviceIsSound
  BY DEF AdviceOfBoard, AdviceIsSound
<1> QED
  BY <1>1, <1>2, <1>3, TypedInvariant, AnswersCount, PTL DEF Spec

---------------------------------------------------------------------------
(* Custody.                                                                *)

(* A step that requests nothing keeps what the jobs were created for and   *)
(* opens none again.                                                       *)
JobsAreKept ==
  /\ Jobs' = Jobs
  /\ \A j \in Jobs : /\ SameRequest(jobs'[j], jobs[j])
                     /\ jobs'[j].status \in Pending => jobs[j].status \in Pending

LEMMA JobsKept ==
  ASSUME Typed, [Next]_vars
  PROVE  JobsAreKept \/ RequestStep
<1>1. CASE jobs' = jobs
  BY <1>1 DEF JobsAreKept, SameRequest
<1>2. ASSUME NEW j \in Jobs, NEW r \in Job, Settle(j, r)
      PROVE  JobsAreKept
  BY <1>2, SettleKeepsRequests DEF Settle, JobsAreKept
<1>3. CASE CancelPending
  <2>1. \A j \in Jobs : jobs[j].status \notin Pending => jobs'[j] = jobs[j]
    BY <1>3, CancelKeepsJobs DEF Cancelled
  <2> QED
    BY <1>3, <2>1, CancelKeepsJobs DEF JobsAreKept
<1>4. CASE Restart
  BY <1>4, RestartRecovers DEF Recovered, Pending, JobsAreKept
<1> QED
  BY <1>1, <1>2, <1>3, <1>4, JobStep

(* Who holds a request: the UI thread, at the step that continues it, or a *)
(* worker of the lane of the request, whose adapter is busy; a hand-over   *)
(* begins only when the adapter is idle, so that no worker is replaced;    *)
(* and the mock adapter answers while its request is still the match's.    *)
HeldByUi(j) == ui.step \in {"dispatch", "apply", "reject", "fail"} /\ ui.job = j
HeldByWorker(j) == \E l \in Remote : workers[l].phase # "none" /\ workers[l].job = j
PendingIsHeld ==
  ui.step # "down" =>
    \A j \in Jobs : jobs[j].status \in Pending => HeldByUi(j) \/ HeldByWorker(j)
WorkersAreBusy ==
  \A l \in Remote : workers[l].phase # "none" =>
    adapters[l] = "busy" /\ jobs[workers[l].job].lane = l
DispatchIsFree ==
  ui.step = "dispatch" =>
    jobs[ui.job].lane \in Remote /\ adapters[jobs[ui.job].lane] = "idle"
MockIsBound ==
  (ui.step = "apply" /\ jobs[ui.job].lane = "MOCK") => DispositionOf(ui.job, ui.arg) = "APPLIED"
CustodyInv == PendingIsHeld /\ WorkersAreBusy /\ DispatchIsFree /\ MockIsBound

(* A step of the UI thread that leaves the workers alone, holds no request *)
(* and begins none.                                                        *)
LEMMA CustodyLeft ==
  ASSUME Typed, CustodyInv, JobsAreKept, UNCHANGED workers,
         ui.step \in {"idle", "state"}, ui'.step \in {"idle", "state"},
         \A l \in Remote : adapters'[l] = adapters[l] \/ workers[l].phase = "none"
  PROVE  CustodyInv'
<1>1. PendingIsHeld'
  BY DEF CustodyInv, PendingIsHeld, HeldByUi, HeldByWorker, JobsAreKept
<1>2. WorkersAreBusy'
  BY DEF CustodyInv, WorkersAreBusy, JobsAreKept, SameRequest, Typed, ControlOK
<1> QED
  BY <1>1, <1>2 DEF CustodyInv, DispatchIsFree, MockIsBound

(* A request passes into the hands of the UI thread.                       *)
LEMMA CustodyRequested ==
  ASSUME Typed, CustodyInv, NEW lane, NEW snap, NEW choice, Requested(lane, snap, choice),
         UNCHANGED threads, ui.step = "idle", ui'.step \in {"dispatch", "apply"},
         ui'.job = NewJob, ui'.step = "dispatch" => lane \in Remote /\ adapters[lane] = "idle"
  PROVE  (PendingIsHeld /\ WorkersAreBusy /\ DispatchIsFree)'
<1>1. /\ Jobs' = Jobs \cup {NewJob} /\ NewJob \notin Jobs /\ \A j \in Jobs : jobs'[j] = jobs[j]
      /\ jobs'[NewJob].lane = lane
  BY RequestedAddsJob
<1>2. PendingIsHeld'
  BY <1>1 DEF CustodyInv, PendingIsHeld, HeldByUi, HeldByWorker
<1>3. WorkersAreBusy'
  BY <1>1 DEF CustodyInv, WorkersAreBusy, Typed, ControlOK
<1>4. DispatchIsFree'
  BY <1>1 DEF DispatchIsFree
<1> QED
  BY <1>2, <1>3, <1>4

(* A mock request is answered in the next transaction of the same thread.  *)
LEMMA MockIsAnswered ==
  ASSUME Typed, RequestMock
  PROVE  MockIsBound'
<1> DEFINE n == NewJob
           new == [match |-> match, turn |-> session.turn, rev |-> session.rev,
                   lane |-> "MOCK", snap |-> session.board, switches |-> 0,
                   status |-> "QUEUED", dispatches |-> 0]
<1>1. /\ InsertJob("MOCK", session.board, 0) /\ UNCHANGED battle
      /\ session.active /\ session.state = "TURN_REVIEWED"
      /\ ui'.job = n /\ ui'.arg = "LEGAL"
  BY DEF RequestMock, RequestOnFacts, Idle
<1>2. "MOCK" \in Lane /\ session.board \in Nat /\ 0 \in SwitchSet
  BY DEF Lane, Typed, TypeOK, Session, SwitchSet
<1>3. /\ jobs' = Append(jobs, new) /\ results' = Append(results, <<>>)
      /\ jobs \in Seq(Job) /\ results \in Seq(Seq(Disposition)) /\ Len(results) = Len(jobs)
  BY <1>1 DEF InsertJob, Typed, TypeOK
<1>4. /\ Jobs' = Jobs \cup {n} /\ n \in Nat /\ \A j \in Jobs : j < n
  BY <1>1, <1>2, InsertedJob
<1>5. /\ new.match = match /\ new.turn = session.turn /\ new.rev = session.rev
      /\ new.lane = "MOCK" /\ new.snap = session.board /\ new.status = "QUEUED"
  OBVIOUS
<1> HIDE DEF new
<1>6. jobs'[n] = new /\ results'[n] = <<>>
  <2>1. jobs'[Len(jobs) + 1] = new
    BY <1>3, LenProperties, AppendProperties
  <2>2. results'[Len(results) + 1] = <<>>
    BY <1>3, EmptySeq, AppendIsSeq
  <2> QED
    BY <1>3, <2>1, <2>2
<1>7. /\ n \in Jobs' /\ results'[n] = <<>> /\ jobs'[n].match = match'
      /\ jobs'[n].turn = session'.turn /\ jobs'[n].rev = session'.rev
      /\ jobs'[n].lane = "MOCK" /\ jobs'[n].snap = session'.board
      /\ jobs'[n].status = "QUEUED" /\ session'.active
      /\ session'.state = "TURN_REVIEWED" /\ \A k \in Jobs' : k <= n
      /\ ui'.job = n /\ ui'.arg = "LEGAL"
  BY <1>1, <1>4, <1>5, <1>6
<1> HIDE DEF n
<1> QED
  BY <1>7 DEF MockIsBound, DispositionOf, WasApplied, BindingHolds, RebuildsSame, IsLatest, Pending

LEMMA CustodyRequest == Typed /\ CustodyInv /\ RequestStep => CustodyInv'
<1> SUFFICES ASSUME Typed, CustodyInv, RequestStep PROVE CustodyInv'
  OBVIOUS
<1>1. /\ UNCHANGED threads /\ ui.step = "idle"
      /\ ui'.step \in {"dispatch", "apply"} /\ ui'.job = NewJob
  BY RequestsAreRequested DEF RequestStep, RequestMock, RequestLegacy, RequestRich
<1>2. PICK lane, snap, choice : Requested(lane, snap, choice)
  BY RequestsAreRequested
<1>3. jobs'[NewJob].lane = lane
  BY <1>2, RequestedAddsJob
<1>4. CASE RequestMock
  <2>1. ui'.step = "apply"
    BY <1>4 DEF RequestMock, Idle
  <2>2. (PendingIsHeld /\ WorkersAreBusy /\ DispatchIsFree)'
    BY <1>1, <1>2, <2>1, CustodyRequested
  <2> QED
    BY <1>4, <2>2, MockIsAnswered DEF CustodyInv
<1>5. ASSUME NEW l \in Remote, NEW s, NEW c, InsertJob(l, s, c), s \in Nat, c \in SwitchSet,
             adapters[l] = "idle", ui'.step = "dispatch"
      PROVE  CustodyInv'
  <2>1. lane = l
    BY <1>3, <1>5, InsertedJob DEF Lane
  <2>2. (PendingIsHeld /\ WorkersAreBusy /\ DispatchIsFree)'
    BY <1>1, <1>2, <1>5, <2>1, CustodyRequested
  <2> QED
    BY <1>5, <2>2 DEF CustodyInv, MockIsBound
<1>6. CASE RequestLegacy
  <2>1. /\ InsertJob("LEGACY", session.board, 0) /\ adapters["LEGACY"] = "idle"
        /\ ui'.step = "dispatch" /\ "LEGACY" \in Remote
        /\ session.board \in Nat /\ 0 \in SwitchSet
    BY <1>6 DEF RequestLegacy, RequestOnFacts, Idle, Remote, Typed, TypeOK, Session, SwitchSet
  <2> QED
    BY <1>5, <2>1
<1>7. ASSUME NEW i \in DOMAIN states, RequestRich(i)
      PROVE  CustodyInv'
  <2>1. /\ InsertJob("RICH", i, switches[i]) /\ adapters["RICH"] = "idle"
        /\ ui'.step = "dispatch" /\ "RICH" \in Remote
    BY <1>7 DEF RequestRich, Idle, Remote
  <2>2. i \in Nat /\ switches[i] \in SwitchSet
    BY ElementOfSeq, LenProperties DEF Typed, TypeOK
  <2> QED
    BY <1>5, <2>1, <2>2
<1> QED
  BY <1>4, <1>6, <1>7 DEF RequestStep

(* The hand-over to the worker thread.                                     *)
LEMMA CustodyDispatch == Typed /\ CustodyInv /\ Dispatch /\ JobsAreKept => CustodyInv'
<1> SUFFICES ASSUME Typed, CustodyInv, Dispatch, JobsAreKept PROVE CustodyInv'
  OBVIOUS
<1> DEFINE l == jobs[ui.job].lane
           running == [NoWorker EXCEPT !.phase = "running", !.job = ui.job]
<1>1. /\ ui.step = "dispatch" /\ ui'.step = "idle" /\ ui.job \in Jobs
      /\ l \in Remote /\ adapters[l] = "idle"
  BY RestTyped DEF Dispatch, Typed, ControlOK, CustodyInv, DispatchIsFree
<1>2. running.phase = "running" /\ running.job = ui.job
  BY DEF NoWorker
<1>3. workers' = [workers EXCEPT ![l] = running] /\ adapters' = [adapters EXCEPT ![l] = "busy"]
  BY DEF Dispatch
<1>4. workers \in [Remote -> Worker] /\ adapters \in [Remote -> {"idle", "busy", "releasing"}]
  BY DEF Typed, TypeOK
<1> HIDE DEF running
<1>5. workers[l].phase = "none"
  BY <1>1 DEF CustodyInv, WorkersAreBusy
<1>6. jobs'[ui.job].lane = l
  BY <1>1 DEF JobsAreKept, SameRequest
<1> HIDE DEF l
<1>7. /\ workers'[l] = running /\ adapters'[l] = "busy"
      /\ \A k \in Remote : k # l => workers'[k] = workers[k] /\ adapters'[k] = adapters[k]
  BY <1>1, <1>3, <1>4
<1>8. PendingIsHeld'
  <2> SUFFICES ASSUME NEW j \in Jobs, jobs[j].status \in Pending PROVE HeldByWorker(j)'
    BY DEF PendingIsHeld, JobsAreKept
  <2>1. CASE j = ui.job
    BY <1>1, <1>2, <1>7, <2>1 DEF HeldByWorker
  <2>2. CASE j # ui.job
    <3>1. PICK k \in Remote : workers[k].phase # "none" /\ workers[k].job = j
      BY <1>1, <2>2 DEF CustodyInv, PendingIsHeld, HeldByUi, HeldByWorker
    <3> QED
      BY <1>5, <1>7, <3>1 DEF HeldByWorker
  <2> QED
    BY <2>1, <2>2
<1>9. WorkersAreBusy'
  <2> SUFFICES ASSUME NEW k \in Remote, workers'[k].phase # "none"
               PROVE  adapters'[k] = "busy" /\ jobs'[workers'[k].job].lane = k
    BY DEF WorkersAreBusy
  <2>1. CASE k = l
    BY <1>2, <1>6, <1>7, <2>1
  <2>2. CASE k # l
    BY <1>7, <2>2 DEF CustodyInv, WorkersAreBusy, JobsAreKept, SameRequest, Typed, ControlOK
  <2> QED
    BY <2>1, <2>2
<1> QED
  BY <1>1, <1>8, <1>9 DEF CustodyInv, DispatchIsFree, MockIsBound

(* The worker's answer, and the callback that takes it.                    *)
LEMMA CustodyWorkers ==
  Typed /\ CustodyInv /\ (Callback \/ \E l \in Remote : WorkerStep(l)) => CustodyInv'
<1> SUFFICES ASSUME Typed, CustodyInv, Callback \/ \E l \in Remote : WorkerStep(l)
             PROVE  CustodyInv'
  OBVIOUS
<1>1. /\ workers \in [Remote -> Worker] /\ adapters \in [Remote -> {"idle", "busy", "releasing"}]
      /\ \A l \in Remote : workers[l] \in Worker
  BY DEF Typed, TypeOK
<1>2. ASSUME NEW l \in Remote, WorkerAnswer(l)
      PROVE  CustodyInv'
  <2>1. \E p \in {"succeeded", "failed"}, a \in Args :
          workers' = [workers EXCEPT ![l].phase = p, ![l].arg = a]
    <3>1. Payload \subseteq Args /\ TurnFailure \subseteq Args
      BY DEF Args
    <3> QED
      BY <1>2, <3>1, Zenon DEF WorkerAnswer
  <2>2. PICK p \in {"succeeded", "failed"}, a \in Args :
          workers' = [workers EXCEPT ![l].phase = p, ![l].arg = a]
    BY <2>1
  <2> DEFINE w == [workers[l] EXCEPT !.phase = p, !.arg = a]
  <2>3. w.phase = p /\ w.job = workers[l].job
    BY <1>1 DEF Worker
  <2>4. workers' = [workers EXCEPT ![l] = w]
    BY <1>1, <2>2, Zenon
  <2> HIDE DEF w
  <2>5. \A k \in Remote : /\ workers'[k].phase = "none" <=> workers[k].phase = "none"
                          /\ workers'[k].job = workers[k].job
    <3>1. workers[l].phase # "none"
      BY <1>2 DEF WorkerAnswer
    <3> QED
      BY <1>1, <2>3, <2>4, <3>1
  <2>6. UNCHANGED <<battle, record, provider, adapters, ui>>
    BY <1>2 DEF WorkerAnswer
  <2>7. PendingIsHeld' /\ WorkersAreBusy'
    BY <2>5, <2>6 DEF CustodyInv, PendingIsHeld, HeldByUi, HeldByWorker, WorkersAreBusy
  <2>8. DispatchIsFree' /\ MockIsBound'
    BY <2>6 DEF CustodyInv, DispatchIsFree, MockIsBound, DispositionOf, WasApplied, BindingHolds,
                RebuildsSame, IsLatest, IsCurrent, IsLatestState, NotNewer
  <2> QED
    BY <2>7, <2>8 DEF CustodyInv
<1>3. ASSUME NEW l \in Remote, NEW phase \in {"succeeded", "failed"},
             NEW step \in {"apply", "fail"}, TakeAnswer(l, phase, step)
      PROVE  CustodyInv'
  <2>1. ui.step = "idle" /\ workers[l].phase # "none" /\ jobs' = jobs
    BY <1>3 DEF TakeAnswer
  <2>2. ui'.step = step /\ ui'.job = workers[l].job
    BY <1>3 DEF TakeAnswer, Idle
  <2>3. /\ \A k \in Remote : k # l => workers'[k] = workers[k] /\ adapters'[k] = adapters[k]
        /\ workers'[l].phase = "none"
    BY <1>1, <1>3, RestTyped DEF TakeAnswer
  <2>4. jobs[workers[l].job].lane # "MOCK"
    BY <2>1 DEF CustodyInv, WorkersAreBusy, Remote
  <2>5. PendingIsHeld'
    BY <2>1, <2>2, <2>3 DEF CustodyInv, PendingIsHeld, HeldByUi, HeldByWorker
  <2>6. WorkersAreBusy'
    BY <2>1, <2>3 DEF CustodyInv, WorkersAreBusy
  <2> QED
    BY <2>1, <2>2, <2>4, <2>5, <2>6 DEF CustodyInv, DispatchIsFree, MockIsBound
<1>4. CASE ReleaseDispatch
  <2>1. /\ ui.step = "idle" /\ ui' = ui /\ workers' = workers /\ jobs' = jobs
        /\ adapters["RICH"] = "releasing"
        /\ adapters' = [adapters EXCEPT !["RICH"] = "idle"]
    BY <1>4 DEF ReleaseDispatch
  <2>2. JobsAreKept
    BY <2>1 DEF JobsAreKept, SameRequest
  <2>3. \A l \in Remote : adapters'[l] = adapters[l] \/ workers[l].phase = "none"
    BY <1>1, <2>1 DEF CustodyInv, WorkersAreBusy
  <2> QED
    BY <2>1, <2>2, <2>3, CustodyLeft
<1> QED
  BY <1>2, <1>3, <1>4 DEF Callback, HandleSucceeded, HandleFailed, WorkerStep

(* The application of an answer, and the record of a failure.              *)
LEMMA CustodyAnswered ==
  Typed /\ CustodyInv /\ (Apply \/ FailJob) /\ JobsAreKept => CustodyInv'
<1> SUFFICES ASSUME Typed, CustodyInv, Apply \/ FailJob, JobsAreKept PROVE CustodyInv'
  OBVIOUS
<1>1. ui.job \in Jobs /\ jobs[ui.job] \in Job /\ jobs \in Seq(Job) /\ UNCHANGED threads
  BY JobsAreJobs DEF Apply, FailJob, Typed, ControlOK
<1>2. \/ ui'.step = "idle" /\ jobs'[ui.job].status \notin Pending
      \/ ui'.step = "reject" /\ ui'.job = ui.job
  <2>1. CASE Apply /\ DispositionOf(ui.job, ui.arg) = "APPLIED"
    <3>1. jobs' = [jobs EXCEPT ![ui.job].status = "SUCCEEDED"] /\ ui' = Idle
      BY <2>1, Zenon DEF Apply, ApplyResult
    <3> DEFINE q == [jobs[ui.job] EXCEPT !.status = "SUCCEEDED"]
    <3>2. q.status = "SUCCEEDED"
      BY <1>1 DEF Job
    <3>3. jobs'[ui.job] = q
      BY <1>1, <3>1
    <3> QED
      BY <3>1, <3>2, <3>3, RestTyped DEF Pending
  <2>2. CASE Apply /\ DispositionOf(ui.job, ui.arg) # "APPLIED"
    <3>1. jobs[ui.job].lane # "MOCK"
      BY <2>2 DEF Apply, CustodyInv, MockIsBound
    <3>2. ui' = [ui EXCEPT !.step = "reject", !.arg = "OTHER"]
      BY <2>2, <3>1, Zenon DEF Apply
    <3> QED
      BY <3>2 DEF Typed, TypeOK, Ui
  <2>3. CASE FailJob
    <3> DEFINE x == AfterFailure(jobs[ui.job].status, ui.arg)
               q == [jobs[ui.job] EXCEPT !.status = x]
    <3>1. jobs' = [jobs EXCEPT ![ui.job] = q] /\ ui' = Idle
      BY <2>3, Zenon DEF FailJob
    <3>2. x \notin Pending
      BY DEF AfterFailure, Pending
    <3> HIDE DEF x
    <3>3. q.status = x
      BY <1>1 DEF Job
    <3> HIDE DEF q
    <3>4. jobs'[ui.job] = q
      BY <1>1, <3>1
    <3> QED
      BY <3>1, <3>2, <3>3, <3>4, RestTyped
  <2> QED
    BY <2>1, <2>2, <2>3
<1>3. ui.step # "down"
  BY DEF Apply, FailJob
<1>4. PendingIsHeld'
  BY <1>1, <1>2, <1>3 DEF CustodyInv, PendingIsHeld, HeldByUi, HeldByWorker, JobsAreKept
<1>5. WorkersAreBusy'
  BY <1>1 DEF CustodyInv, WorkersAreBusy, JobsAreKept, SameRequest, Typed, ControlOK
<1> QED
  BY <1>2, <1>4, <1>5 DEF CustodyInv, DispatchIsFree, MockIsBound

(* Every step keeps every open request in somebody's hands.                *)
LEMMA CustodyNext == Typed /\ CustodyInv /\ [Next]_vars => CustodyInv'
<1> SUFFICES ASSUME Typed, CustodyInv, [Next]_vars PROVE CustodyInv'
  OBVIOUS
<1>1. CASE RequestStep
  BY <1>1, CustodyRequest
<1>2. CASE Command /\ ~RequestStep
  <2>1. JobsAreKept
    BY <1>2, JobsKept
  <2>2. /\ ui.step = "idle" /\ UNCHANGED threads /\ ui'.step \in {"idle", "state"}
    <3>1. ASSUME NEW o \in Opponent, ConfirmTurnFacts(o) \/ RejectTurnFacts(o)
          PROVE  ui.step = "idle" /\ UNCHANGED threads /\ ui'.step \in {"idle", "state"}
      BY <3>1, RestTyped DEF ConfirmTurnFacts, RejectTurnFacts, Idle
    <3>2. CASE \/ BeginBattle \/ AbortMatch \/ StartTurnCapture
               \/ \E e \in DOMAIN entries : HandleEntry(e)
               \/ \E i \in DOMAIN states :
                    \/ \E choice \in SwitchSet \ {0} : ConfirmSwitches(i, choice)
                    \/ RecordAction(i)
                    \/ \E c \in DOMAIN completions : NextTurn(i, c)
               \/ \E j \in Jobs, p \in Payload : Redeliver(j, p)
      BY <3>2 DEF BeginBattle, AbortMatch, StartTurnCapture, HandleEntry, ConfirmSwitches,
                  RecordAction, NextTurn, Redeliver
    <3> QED
      BY <1>2, <3>1, <3>2 DEF Command, RequestStep
  <2> QED
    BY <2>1, <2>2, CustodyLeft
<1>3. CASE RecordState
  <2>1. JobsAreKept
    BY <1>3 DEF RecordState, JobsAreKept, SameRequest
  <2>2. ui.step = "state" /\ UNCHANGED threads /\ ui'.step = "idle"
    BY <1>3, RestTyped DEF RecordState
  <2> QED
    BY <2>1, <2>2, CustodyLeft
<1>4. CASE Dispatch \/ Apply \/ FailJob
  <2>1. ~RequestStep
    BY <1>4 DEF Dispatch, Apply, FailJob, RequestStep, RequestMock, RequestLegacy, RequestRich
  <2> QED
    BY <1>4, <2>1, JobsKept, CustodyDispatch, CustodyAnswered
<1>5. CASE Callback \/ \E l \in Remote : WorkerStep(l)
  BY <1>5, CustodyWorkers
<1>6. CASE Crash
  <2>1. ui'.step = "down" /\ \A l \in Remote : workers'[l].phase = "none"
    BY <1>6, RestTyped DEF Crash
  <2> QED
    BY <2>1 DEF CustodyInv, PendingIsHeld, WorkersAreBusy, DispatchIsFree, MockIsBound
<1>7. CASE Restart
  <2>1. \A j \in Jobs' : jobs'[j].status \notin Pending
    BY <1>7, RestartRecovers DEF Recovered, Pending
  <2>2. JobsAreKept /\ UNCHANGED threads /\ ui'.step = "idle"
    BY <1>7, RestTyped, RestartRecovers DEF Restart, JobsAreKept, Recovered, Pending
  <2>3. WorkersAreBusy'
    BY <2>2 DEF CustodyInv, WorkersAreBusy, JobsAreKept, SameRequest, Typed, ControlOK
  <2> QED
    BY <2>1, <2>2, <2>3 DEF CustodyInv, PendingIsHeld, DispatchIsFree, MockIsBound
<1>8. CASE UNCHANGED vars
  <2>1. PendingIsHeld'
    BY ZenonT(60), <1>8 DEF vars, CustodyInv, PendingIsHeld, HeldByUi, HeldByWorker
  <2>2. WorkersAreBusy'
    BY ZenonT(60), <1>8 DEF vars, CustodyInv, WorkersAreBusy
  <2>3. DispatchIsFree' /\ MockIsBound'
    BY ZenonT(60), <1>8 DEF vars, CustodyInv, DispatchIsFree, MockIsBound, DispositionOf,
       WasApplied, BindingHolds, RebuildsSame, IsLatest, IsCurrent, IsLatestState, NotNewer
  <2> QED
    BY <2>1, <2>2, <2>3 DEF CustodyInv
<1> QED
  BY <1>1, <1>2, <1>3, <1>4, <1>5, <1>6, <1>7, <1>8 DEF Next, UiStep

(* No request waits for nobody: while the process runs an unanswered one   *)
(* is in the hands of the UI thread or of the worker of its lane, so no    *)
(* request is left behind that would close the three lanes to its match    *)
(* (GeminiTurnAdviceAdapter, GeminiRichTurnAdviceAdapter,                  *)
(* decide_turn_advice_dispatch).                                           *)
THEOREM PendingIsAlwaysOwned == Spec => []PendingIsOwned
<1>1. Init => CustodyInv
  BY RestTyped DEF Init, CustodyInv, PendingIsHeld, WorkersAreBusy, DispatchIsFree, MockIsBound
<1>2. CustodyInv => PendingIsOwned
  BY DEF CustodyInv, PendingIsHeld, PendingIsOwned, HeldByUi, HeldByWorker
<1> QED
  BY <1>1, <1>2, CustodyNext, TypedInvariant, PTL DEF Spec

---------------------------------------------------------------------------
(* Entry events.                                                           *)

(* A set without two different elements.                                   *)
LEMMA AtMostOne ==
  ASSUME NEW S, \A x, y \in S : x = y
  PROVE  Cardinality(S) <= 1
<1>1. CASE S = {}
  BY <1>1, FS_EmptySet
<1>2. CASE S # {}
  <2>1. \E x : S = {x}
    BY <1>2
  <2> QED
    BY <2>1, FS_Singleton
<1> QED
  BY <1>1, <1>2

(* The strengthening: an event is of a match that has begun, and one the   *)
(* human has not answered is the last of its match.                        *)
EntryInv ==
  /\ \A e \in DOMAIN entries : entries[e].match <= match
  /\ \A e \in PendingEntries : \A d \in DOMAIN entries : entries[d].match = match => d <= e

(* What the second transaction adds: the newest unanswered event is        *)
(* closed, and the new one is open.                                        *)
LEMMA AddedEntry ==
  ASSUME Typed, NEW o \in Species, AddEntry(o)
  PROVE  /\ Len(entries) \in Nat /\ DOMAIN entries = 1..Len(entries)
         /\ DOMAIN entries' = DOMAIN entries \cup {Len(entries) + 1}
         /\ \A e \in DOMAIN entries :
              /\ entries'[e].match = entries[e].match
              /\ entries'[e].handled = (entries[e].handled \/ NewestPending(e))
         /\ entries'[Len(entries) + 1].match = match
<1> DEFINE old == [e \in DOMAIN entries |->
                     [entries[e] EXCEPT !.handled = @ \/ NewestPending(e)]]
           new == [match |-> match, turn |-> session.turn, species |-> o,
                   state |-> Len(states) + 1, handled |-> FALSE]
<1>1. /\ entries \in Seq(Entry) /\ Len(entries) \in Nat /\ DOMAIN entries = 1..Len(entries)
      /\ \A e \in DOMAIN entries : entries[e] \in Entry
  BY ElementOfSeq, LenProperties DEF Typed, TypeOK
<1>2. new \in Entry /\ new.match = match
  <2>1. match \in Nat /\ session.turn \in Nat /\ Len(states) + 1 \in Nat
    BY LenProperties DEF Typed, TypeOK, Session
  <2> QED
    BY <2>1 DEF Entry
<1>3. \A x \in Entry : \A b \in BOOLEAN :
        LET q == [x EXCEPT !.handled = b]
        IN q \in Entry /\ q.match = x.match /\ q.handled = b
  BY DEF Entry
<1>4. \A e \in DOMAIN entries : (entries[e].handled \/ NewestPending(e)) \in BOOLEAN
  BY Zenon
<1>5. \A e \in DOMAIN entries :
        LET q == [entries[e] EXCEPT !.handled = entries[e].handled \/ NewestPending(e)]
        IN /\ q \in Entry /\ q.match = entries[e].match
           /\ q.handled = (entries[e].handled \/ NewestPending(e))
  BY <1>1, <1>3, <1>4, Zenon
<1>6. \A e \in DOMAIN entries :
        /\ old[e] \in Entry /\ old[e].match = entries[e].match
        /\ old[e].handled = (entries[e].handled \/ NewestPending(e))
  BY <1>5, Zenon
<1>7. old = [e \in DOMAIN entries |-> old[e]]
  OBVIOUS
<1>8. entries' = Append(old, new)
  BY Zenon DEF AddEntry
<1> HIDE DEF old, new
<1>9. old \in Seq(Entry) /\ Len(old) = Len(entries) /\ DOMAIN old = DOMAIN entries
  BY <1>1, <1>6, <1>7, RewriteIsSeq
<1>10. /\ DOMAIN entries' = DOMAIN entries \cup {Len(entries) + 1}
       /\ \A e \in DOMAIN entries : entries'[e] = old[e]
       /\ entries'[Len(entries) + 1] = new
  BY <1>2, <1>8, <1>9, AppendIsSeq
<1> QED
  BY <1>1, <1>2, <1>6, <1>10

(* What a step can do to the events and the match they are of.             *)
LEMMA EntryStep ==
  ASSUME Typed, [Next]_vars
  PROVE  \/ UNCHANGED entries /\ match' \in {match, match + 1}
         \/ match' = match /\ \E o \in Species : AddEntry(o)
         \/ match' = match /\ \E e \in DOMAIN entries : NewestPending(e) /\ HandleEntry(e)
<1>1. CASE Command
  <2>1. CASE BeginBattle
    BY <2>1 DEF BeginBattle
  <2>2. CASE \/ AbortMatch \/ StartTurnCapture
             \/ \E o \in Opponent : ConfirmTurnFacts(o) \/ RejectTurnFacts(o)
             \/ \E i \in DOMAIN states :
                  \/ \E choice \in SwitchSet \ {0} : ConfirmSwitches(i, choice)
                  \/ RecordAction(i)
                  \/ \E c \in DOMAIN completions : NextTurn(i, c)
             \/ \E j \in Jobs, p \in Payload : Redeliver(j, p)
    BY <2>2 DEF AbortMatch, StartTurnCapture, ConfirmTurnFacts, RejectTurnFacts,
                ConfirmSwitches, RecordAction, NextTurn, Redeliver
  <2>3. CASE RequestStep
    BY <2>3, RequestsAreRequested
  <2>4. ASSUME NEW e \in DOMAIN entries, HandleEntry(e)
        PROVE  match' = match /\ NewestPending(e)
    BY <2>4 DEF HandleEntry
  <2> QED
    BY <1>1, <2>1, <2>2, <2>3, <2>4 DEF Command, RequestStep
<1>2. CASE RecordState
  <2>1. ui.opponent \in Opponent
    BY DEF Typed, TypeOK, Ui
  <2> QED
    BY <1>2, <2>1 DEF RecordState, AppendState, EntersField, Opponent
<1>3. CASE UiStep
  BY <1>2, <1>3 DEF UiStep, Dispatch, Apply, FailJob
<1>4. CASE Callback \/ (\E l \in Remote : WorkerStep(l)) \/ Restart \/ UNCHANGED vars
  BY <1>4 DEF Callback, ReleaseDispatch, HandleSucceeded, HandleFailed, TakeAnswer,
              WorkerStep, WorkerAnswer, Restart, vars
<1>5. CASE Crash
  BY <1>5, Zenon DEF Crash
<1> QED
  BY <1>1, <1>3, <1>4, <1>5 DEF Next

(* An answered event stays answered, and only the last one is open.        *)
LEMMA EntryKept ==
  ASSUME Typed, EntryInv, [Next]_vars
  PROVE  /\ EntryInv'
         /\ \A e \in DOMAIN entries : entries[e].handled => entries'[e].handled
<1>1. /\ match \in Nat /\ entries \in Seq(Entry) /\ DOMAIN entries \subseteq Nat
      /\ \A e \in DOMAIN entries : entries[e] \in Entry /\ entries[e].match \in Nat
  <2>1. match \in Nat /\ entries \in Seq(Entry) /\ DOMAIN entries \subseteq Nat
    BY LenProperties DEF Typed, TypeOK
  <2>2. \A e \in DOMAIN entries : entries[e] \in Entry
    BY <2>1, ElementOfSeq, LenProperties
  <2> QED
    BY <2>1, <2>2 DEF Entry
<1>2. CASE UNCHANGED entries /\ match' \in {match, match + 1}
  <2>1. CASE match' = match
    BY <1>2, <2>1 DEF EntryInv, PendingEntries
  <2>2. CASE match' = match + 1
    BY <1>1, <1>2, <2>2 DEF EntryInv, PendingEntries
  <2> QED
    BY <1>2, <2>1, <2>2
<1>3. ASSUME match' = match, NEW o \in Species, AddEntry(o)
      PROVE  /\ EntryInv'
             /\ \A e \in DOMAIN entries : entries[e].handled => entries'[e].handled
  <2>1. \A e \in PendingEntries : NewestPending(e)
    BY DEF EntryInv, NewestPending, PendingEntries
  <2>2. \A e \in PendingEntries' : e = Len(entries) + 1
    BY <1>3, <2>1, AddedEntry DEF PendingEntries
  <2>3. /\ Len(entries) \in Nat /\ DOMAIN entries = 1..Len(entries)
        /\ DOMAIN entries' = DOMAIN entries \cup {Len(entries) + 1}
        /\ \A e \in DOMAIN entries :
             /\ entries'[e].match = entries[e].match
             /\ entries[e].handled => entries'[e].handled
        /\ entries'[Len(entries) + 1].match = match
    BY <1>3, AddedEntry
  <2>4. \A e \in DOMAIN entries' : entries'[e].match <= match' /\ e <= Len(entries) + 1
    BY <1>1, <1>3, <2>3 DEF EntryInv
  <2>5. EntryInv'
    BY <2>2, <2>4 DEF EntryInv
  <2> QED
    BY <2>3, <2>5
<1>4. ASSUME match' = match, NEW e \in DOMAIN entries, NewestPending(e), HandleEntry(e)
      PROVE  /\ EntryInv'
             /\ \A d \in DOMAIN entries : entries[d].handled => entries'[d].handled
  <2> DEFINE q == [entries[e] EXCEPT !.handled = TRUE]
  <2>1. q.match = entries[e].match /\ q.handled = TRUE
    BY <1>1 DEF Entry
  <2>2. entries' = [entries EXCEPT ![e] = q]
    BY <1>4, Zenon DEF HandleEntry
  <2> HIDE DEF q
  <2>3. /\ DOMAIN entries' = DOMAIN entries
        /\ \A d \in DOMAIN entries : entries'[d] = IF d = e THEN q ELSE entries[d]
    BY <2>2
  <2> QED
    BY <1>4, <2>1, <2>3 DEF EntryInv, PendingEntries
<1> QED
  BY <1>2, <1>3, <1>4, EntryStep

(* However the opponents come and go, and wherever the process stops, at   *)
(* most one entry prompt is open, it is of the opponent that entered last, *)
(* and a prompt that was answered is never asked again                     *)
(* (_build_opponent_entry_event, mark_opponent_entry_event_handled).        *)
THEOREM OneEntryIsPending == Spec => OnePendingEntry
<1>1. Init => EntryInv
  BY DEF Init, EntryInv, PendingEntries
<1>2. Typed /\ EntryInv /\ [Next]_vars => EntryInv'
  BY EntryKept
<1>3. Typed /\ EntryInv /\ Typed' /\ EntryInv' /\ [Next]_vars =>
        [/\ Cardinality(PendingEntries') <= 1
         /\ \A e \in PendingEntries' : \A d \in DOMAIN entries' :
              entries'[d].match = match' => d <= e
         /\ \A e \in DOMAIN entries : entries[e].handled => entries'[e].handled]_vars
  <2> SUFFICES ASSUME Typed, EntryInv, Typed', EntryInv', [Next]_vars
               PROVE  /\ Cardinality(PendingEntries') <= 1
                      /\ \A e \in PendingEntries' : \A d \in DOMAIN entries' :
                           entries'[d].match = match' => d <= e
                      /\ \A e \in DOMAIN entries : entries[e].handled => entries'[e].handled
    OBVIOUS
  <2>1. /\ \A e \in PendingEntries' : \A d \in DOMAIN entries' :
             entries'[d].match = match' => d <= e
        /\ \A e \in DOMAIN entries : entries[e].handled => entries'[e].handled
    BY EntryKept DEF EntryInv
  <2>2. DOMAIN entries' \subseteq Nat
    <3>1. entries' \in Seq(Entry)
      BY Zenon DEF Typed, TypeOK
    <3>2. DOMAIN entries' = 1..Len(entries') /\ Len(entries') \in Nat
      BY <3>1, LenProperties
    <3> QED
      BY <3>2
  <2>3. \A e, d \in PendingEntries' : d = e
    BY <2>1, <2>2 DEF PendingEntries
  <2>5. Cardinality(PendingEntries') <= 1
    BY <2>3, AtMostOne
  <2> QED
    BY <2>1, <2>5
<1> QED
  BY <1>1, <1>2, <1>3, TypedInvariant, PTL DEF Spec, OnePendingEntry

---------------------------------------------------------------------------
(* The result of a turn.                                                   *)

(* What a step can do to the boards, the states and the results.           *)
RecordIsLeft ==
  /\ UNCHANGED <<match, facts, states, completions>>
  /\ session'.state = session.state /\ session'.turn = session.turn
  /\ session'.board = session.board
  /\ ui'.step = "state" => ui.step = "state" \/ session.state = "TURN_REVIEWED"
  /\ ui.step = "state" => \/ ui'.step \in {"state", "down"}
                          \/ RecordState /\ StateExists
TurnIsLeft ==
  /\ UNCHANGED <<facts, states, completions>> /\ ui'.step # "state"
  /\ session'.state \notin {"TURN_REVIEWED", "TURN_RECORDED"}
  /\ session'.board \in {session.board, None}

LEMMA RecordStep ==
  ASSUME Typed, [Next]_vars
  PROVE  \/ RecordIsLeft \/ TurnIsLeft
         \/ \E o \in Opponent : ConfirmTurnFacts(o)
         \/ RecordState /\ AppendState
         \/ \E i \in DOMAIN states : RecordAction(i)
<1>1. session \in Session /\ Idle.step = "idle"
  BY RestTyped DEF Typed, TypeOK
<1>2. ASSUME NEW r \in Session, NEW n \in Nat
      PROVE  /\ LET q == [r EXCEPT !.active = FALSE, !.state = "ABORTED", !.rev = n]
                IN q.state = "ABORTED" /\ q.board = r.board
             /\ \A t \in Nat :
                  LET q == [r EXCEPT !.turn = t, !.board = None, !.advice = None,
                                     !.state = "TURN_CAPTURE_PENDING", !.rev = n]
                  IN q.state = "TURN_CAPTURE_PENDING" /\ q.board = None
  BY DEF Session
<1>3. session.rev + 1 \in Nat /\ session.turn + 1 \in Nat
  BY <1>1 DEF Session
<1>4. CASE BeginBattle
  BY <1>4 DEF BeginBattle, TurnIsLeft
<1>5. CASE AbortMatch
  <2>1. session' = [session EXCEPT !.active = FALSE, !.state = "ABORTED", !.rev = session.rev + 1]
    BY <1>5, Zenon DEF AbortMatch
  <2>2. session'.state = "ABORTED" /\ session'.board = session.board
    BY <1>1, <1>2, <1>3, <2>1
  <2> QED
    BY <1>5, <2>2 DEF AbortMatch, TurnIsLeft
<1>6. ASSUME NEW n \in Nat, PendingTurn(n)
      PROVE  session'.state = "TURN_CAPTURE_PENDING" /\ session'.board = None
  <2>1. session' = [session EXCEPT !.turn = n, !.board = None, !.advice = None,
                      !.state = "TURN_CAPTURE_PENDING", !.rev = session.rev + 1]
    BY <1>6, Zenon DEF PendingTurn
  <2> QED
    BY <1>1, <1>2, <1>3, <2>1
<1>7. CASE StartTurnCapture
  BY <1>6, <1>7 DEF StartTurnCapture, TurnIsLeft
<1>8. ASSUME NEW i, NEW c, NextTurn(i, c)
      PROVE  TurnIsLeft
  BY <1>3, <1>6, <1>8 DEF NextTurn, TurnIsLeft
<1>9. ASSUME NEW j \in Jobs, NEW p, ApplyResult(j, p)
      PROVE  /\ session'.state = session.state /\ session'.turn = session.turn
             /\ session'.board = session.board
  <2>1. \/ session' = session
        \/ session' = [session EXCEPT !.advice = Len(advices) + 1, !.rev = session.rev + 1]
    BY <1>9, Zenon DEF ApplyResult
  <2>2. \A a, n : LET q == [session EXCEPT !.advice = a, !.rev = n]
                 IN /\ q.state = session.state /\ q.turn = session.turn
                    /\ q.board = session.board
    BY <1>1 DEF Session
  <2>3. CASE session' = session
    BY <2>3
  <2>4. CASE session' = [session EXCEPT !.advice = Len(advices) + 1, !.rev = session.rev + 1]
    BY <2>2, <2>4
  <2> QED
    BY <2>1, <2>3, <2>4
<1>10. CASE Command
  <2>1. CASE RequestStep
    <3>1. /\ UNCHANGED <<match, session, facts, states, completions>>
          /\ ui'.step \in {"dispatch", "apply"} /\ ui.step = "idle"
      BY <2>1, RequestsAreRequested DEF RequestStep, RequestMock, RequestLegacy, RequestRich
    <3> QED
      BY <3>1 DEF RecordIsLeft
  <2>2. ASSUME NEW o \in Opponent, RejectTurnFacts(o)
        PROVE  RecordIsLeft
    <3>1. ui'.step = "state" => session.state = "TURN_REVIEWED"
      BY <1>1, <2>2 DEF RejectTurnFacts
    <3> QED
      BY <2>2, <3>1 DEF RejectTurnFacts, RecordIsLeft
  <2>3. ASSUME NEW e, HandleEntry(e)
        PROVE  RecordIsLeft
    BY <2>3 DEF HandleEntry, RecordIsLeft
  <2>4. ASSUME NEW j \in Jobs, NEW p, Redeliver(j, p)
        PROVE  RecordIsLeft
    BY <1>9, <2>4 DEF Redeliver, RecordIsLeft
  <2>5. ASSUME NEW i, NEW choice, ConfirmSwitches(i, choice)
        PROVE  RecordIsLeft
    BY <2>5 DEF ConfirmSwitches, RecordIsLeft
  <2> QED
    BY <1>4, <1>5, <1>7, <1>8, <1>10, <2>1, <2>2, <2>3, <2>4, <2>5 DEF Command, RequestStep
<1>11. CASE UiStep
  <2>1. CASE Apply
    <3>1. ui'.step # "state"
      <4>1. [ui EXCEPT !.step = "reject", !.arg = "OTHER"].step = "reject"
        BY DEF Typed, TypeOK, Ui
      <4> QED
        BY <1>1, <2>1, <4>1 DEF Apply
    <3>2. ui.step = "apply" /\ ui.job \in Jobs /\ ApplyResult(ui.job, ui.arg)
      BY <2>1 DEF Apply, Typed, ControlOK
    <3>3. UNCHANGED <<match, facts, states, completions>>
      BY <2>1 DEF Apply
    <3> QED
      BY <1>9, <3>1, <3>2, <3>3 DEF RecordIsLeft
  <2>2. CASE RecordState
    BY <1>1, <2>2 DEF RecordState, RecordIsLeft
  <2>3. CASE Dispatch \/ FailJob
    BY <1>1, <2>3 DEF Dispatch, FailJob, RecordIsLeft
  <2> QED
    BY <1>11, <2>1, <2>2, <2>3 DEF UiStep
<1>12. ASSUME NEW l, NEW phase, NEW step \in {"apply", "fail"}, TakeAnswer(l, phase, step)
       PROVE  RecordIsLeft
  <2>1. [Idle EXCEPT !.step = step, !.job = workers[l].job, !.arg = workers[l].arg].step = step
    BY DEF Idle
  <2> QED
    BY <1>12, <2>1 DEF TakeAnswer, RecordIsLeft
<1>13. CASE Callback
  BY <1>12, <1>13 DEF Callback, ReleaseDispatch, HandleSucceeded, HandleFailed, RecordIsLeft
<1>14. CASE (\E l \in Remote : WorkerStep(l)) \/ UNCHANGED vars
  BY <1>14 DEF WorkerStep, WorkerAnswer, vars, RecordIsLeft
<1>15. CASE Crash
  <2>1. ui' = [Idle EXCEPT !.step = "down"]
        /\ UNCHANGED <<match, session, facts, states, completions>>
    BY <1>15, Zenon DEF Crash
  <2> QED
    BY <2>1, RestTyped DEF RecordIsLeft
<1>16. CASE Restart
  BY <1>1, <1>16 DEF Restart, RecordIsLeft
<1> QED
  BY <1>10, <1>11, <1>13, <1>14, <1>15, <1>16 DEF Next

(* What recording the action adds.                                         *)
LEMMA RecordedAction ==
  ASSUME Typed, NEW i \in DOMAIN states, RecordAction(i)
  PROVE  /\ session.state = "TURN_REVIEWED" /\ session.board # None /\ ui.step = "idle"
         /\ IsLatestState(i) /\ states[i].turn = session.turn
         /\ UNCHANGED <<match, facts, states, ui>>
         /\ session'.state = "TURN_RECORDED" /\ session'.turn = session.turn
         /\ session'.board = session.board
         /\ Len(completions') = Len(completions) + 1 /\ Len(completions) \in Nat
         /\ DOMAIN completions' = DOMAIN completions \cup {Len(completions) + 1}
         /\ \A c \in DOMAIN completions : completions'[c] = completions[c]
         /\ completions'[Len(completions) + 1].state = i
         /\ completions'[Len(completions) + 1].board = session.board
<1> DEFINE new == [match |-> match, turn |-> session.turn, board |-> session.board, state |-> i]
<1>1. /\ session \in Session /\ match \in Nat /\ session.turn \in Nat /\ session.board \in Nat
      /\ completions \in Seq(Completion) /\ Len(completions) \in Nat /\ i \in Nat
  BY LenProperties DEF Typed, TypeOK, Session
<1>2. new \in Completion /\ new.state = i /\ new.board = session.board
  BY <1>1 DEF Completion
<1>3. completions' = Append(completions, new)
  BY DEF RecordAction
<1> HIDE DEF new
<1>4. /\ Len(completions') = Len(completions) + 1
      /\ DOMAIN completions' = DOMAIN completions \cup {Len(completions) + 1}
      /\ \A c \in DOMAIN completions : completions'[c] = completions[c]
      /\ completions'[Len(completions) + 1] = new
  BY <1>1, <1>2, <1>3, AppendIsSeq
<1>5. session'.state = "TURN_RECORDED" /\ session'.turn = session.turn
      /\ session'.board = session.board
  <2>1. session' = [session EXCEPT !.state = "TURN_RECORDED", !.rev = session.rev + 1]
    BY Zenon DEF RecordAction
  <2> QED
    BY <1>1, <2>1 DEF Session
<1> QED
  BY <1>1, <1>2, <1>4, <1>5 DEF RecordAction

(* What the second transaction adds.                                       *)
LEMMA AppendedState ==
  ASSUME Typed, AppendState
  PROVE  /\ Len(states) + 1 \in Nat
         /\ DOMAIN states' = DOMAIN states \cup {Len(states) + 1}
         /\ \A i \in DOMAIN states : states'[i] = states[i]
         /\ states'[Len(states) + 1].match = match
         /\ states'[Len(states) + 1].turn = session.turn
         /\ states'[Len(states) + 1].rev = session.rev
         /\ states'[Len(states) + 1].input = ui.input
<1> DEFINE new == [match |-> match, turn |-> session.turn, rev |-> session.rev,
                   input |-> ui.input, opponent |-> ui.opponent, prev |-> LatestStateOrNone]
<1>1. states \in Seq(State) /\ Len(states) \in Nat
  BY LenProperties DEF Typed, TypeOK
<1>2. states' = Append(states, new)
  BY DEF AppendState
<1>3. new \in [match : {match}, turn : {session.turn}, rev : {session.rev}, input : {ui.input},
               opponent : {ui.opponent}, prev : {LatestStateOrNone}]
  OBVIOUS
<1>4. /\ new.match = match /\ new.turn = session.turn /\ new.rev = session.rev
      /\ new.input = ui.input
  OBVIOUS
<1> HIDE DEF new
<1>5. /\ DOMAIN states = 1..Len(states) /\ DOMAIN states' = 1..(Len(states) + 1)
      /\ \A i \in 1..Len(states) : states'[i] = states[i]
      /\ states'[Len(states) + 1] = new
  BY <1>1, <1>2, LenProperties, AppendProperties
<1> QED
  BY <1>1, <1>4, <1>5

(* The strengthening: a state is being written for a board under review    *)
(* alone, and the result recorded last is that of the latest state.        *)
RecordedInv ==
  /\ ui.step = "state" => session.state = "TURN_REVIEWED"
  /\ session.state = "TURN_RECORDED" =>
       \E i \in DOMAIN states :
         /\ IsLatestState(i) /\ states[i].turn = session.turn
         /\ Len(completions) # 0 /\ completions[Len(completions)].state = i

LEMMA ConfirmedBoard ==
  ASSUME Typed, NEW o \in Opponent, ConfirmTurnFacts(o)
  PROVE  /\ session'.state = "TURN_REVIEWED" /\ session'.board = Len(facts) + 1
         /\ ui'.step = "state" /\ UNCHANGED <<match, states, completions>>
         /\ DOMAIN facts' = DOMAIN facts \cup {Len(facts) + 1}
         /\ \A f \in DOMAIN facts : facts'[f] = facts[f]
<1>1. session' = [session EXCEPT !.board = Len(facts) + 1, !.advice = None,
                                 !.state = "TURN_REVIEWED", !.rev = session.rev + 1]
  BY Zenon DEF ConfirmTurnFacts
<1>2. session'.state = "TURN_REVIEWED" /\ session'.board = Len(facts) + 1
  BY <1>1 DEF Typed, TypeOK, Session
<1>3. ui'.step = "state"
  BY RestTyped DEF ConfirmTurnFacts, Idle
<1> DEFINE new == [match |-> match, turn |-> session.turn, input |-> Inputs + 1,
                   prev |-> session.board]
<1>4. facts' = Append(facts, new) /\ facts \in Seq(Facts)
  BY DEF ConfirmTurnFacts, Typed, TypeOK
<1> HIDE DEF new
<1>5. /\ DOMAIN facts' = DOMAIN facts \cup {Len(facts) + 1}
      /\ \A f \in DOMAIN facts : facts'[f] = facts[f]
  BY <1>4, LenProperties, AppendProperties
<1> QED
  BY <1>2, <1>3, <1>5 DEF ConfirmTurnFacts

LEMMA RecordedKept == Typed /\ RecordedInv /\ [Next]_vars => RecordedInv'
<1> SUFFICES ASSUME Typed, RecordedInv, [Next]_vars PROVE RecordedInv'
  OBVIOUS
<1>1. CASE RecordIsLeft
  BY <1>1 DEF RecordIsLeft, RecordedInv, IsLatestState, NotNewer
<1>2. CASE TurnIsLeft
  BY <1>2 DEF TurnIsLeft, RecordedInv
<1>3. ASSUME NEW o \in Opponent, ConfirmTurnFacts(o)
      PROVE  RecordedInv'
  BY <1>3, ConfirmedBoard DEF RecordedInv
<1>4. CASE RecordState /\ AppendState
  <2>1. session.state = "TURN_REVIEWED" /\ session' = session /\ ui'.step = "idle"
    BY <1>4, RestTyped DEF RecordState, RecordedInv
  <2> QED
    BY <2>1 DEF RecordedInv
<1>5. ASSUME NEW i \in DOMAIN states, RecordAction(i)
      PROVE  RecordedInv'
  <2>1. IsLatestState(i)'
    BY <1>5, RecordedAction DEF IsLatestState, NotNewer
  <2>2. /\ states'[i].turn = session'.turn /\ ui'.step # "state" /\ i \in DOMAIN states'
        /\ Len(completions') # 0 /\ completions'[Len(completions')].state = i
    BY <1>5, RecordedAction
  <2> QED
    BY <2>1, <2>2 DEF RecordedInv
<1> QED
  BY <1>1, <1>2, <1>3, <1>4, <1>5, RecordStep

LEMMA RecordedIsLeft == Typed /\ RecordedInv => RecordedTurnCanAdvance
<1> SUFFICES ASSUME Typed, RecordedInv, session.active, session.state = "TURN_RECORDED"
             PROVE  \E i \in DOMAIN states, c \in DOMAIN completions : MayAdvance(i, c)
  BY DEF RecordedTurnCanAdvance
<1>1. PICK i \in DOMAIN states :
        /\ IsLatestState(i) /\ states[i].turn = session.turn
        /\ Len(completions) # 0 /\ completions[Len(completions)].state = i
  BY DEF RecordedInv
<1>2. Len(completions) \in Nat /\ DOMAIN completions = 1..Len(completions)
  BY LenProperties DEF Typed, TypeOK
<1>3. Len(completions) \in DOMAIN completions
      /\ \A d \in DOMAIN completions : d <= Len(completions)
  BY <1>1, <1>2
<1>4. MayAdvance(i, Len(completions))
  BY <1>1, <1>3 DEF MayAdvance
<1> QED
  BY <1>3, <1>4

(* A recorded turn can always be left: whatever boards are confirmed,      *)
(* refused or left half confirmed before the action is recorded, the       *)
(* latest state is the one the result is of, so next_turn finds the result *)
(* (_record_actual_action, next_turn_with_action_result).                  *)
THEOREM RecordedTurnsCanAdvance == Spec => []RecordedTurnCanAdvance
<1>1. Init => RecordedInv
  BY RestTyped DEF Init, RecordedInv
<1> QED
  BY <1>1, RecordedIsLeft, RecordedKept, TypedInvariant, PTL DEF Spec

(* While no confirmation is refused and the process does not stop between  *)
(* the two transactions of one: what is recorded names existing rows, and  *)
(* the latest state of a turn under review is that of its board.           *)
ReviewedInv ==
  /\ session.board # None => session.board \in DOMAIN facts
  /\ \A c \in DOMAIN completions :
       completions[c].state \in DOMAIN states /\ completions[c].board \in DOMAIN facts
  /\ RecordedOnConfirmedBoard
  /\ (session.state = "TURN_REVIEWED" /\ ui.step # "state") =>
       \A i \in DOMAIN states :
         (IsLatestState(i) /\ states[i].turn = session.turn) =>
           states[i].input = facts[session.board].input

LEMMA ReviewedKept ==
  ASSUME Typed, BoardInv, ReviewedInv, [Next]_vars, ~(ui.step = "state" /\ ui'.step = "down")
  PROVE  ReviewedInv'
<1>1. CASE RecordIsLeft
  <2>1. ui.step = "state" => ui'.step = "state"
    <3>1. ASSUME RecordState, StateExists
          PROVE  FALSE
      <4>1. PICK i \in DOMAIN states : states[i].match = match /\ states[i].rev = session.rev
        BY <3>1 DEF StateExists
      <4>2. states[i].rev < session.rev
        BY <3>1, <4>1 DEF RecordState, BoardInv
      <4>3. session.rev \in Nat
        BY DEF Typed, TypeOK, Session
      <4> QED
        BY <4>1, <4>2, <4>3
    <3> QED
      BY <1>1, <3>1 DEF RecordIsLeft
  <2>2. \A i : IsLatestState(i)' <=> IsLatestState(i)
    BY <1>1 DEF RecordIsLeft, IsLatestState, NotNewer
  <2> QED
    BY <1>1, <2>1, <2>2 DEF RecordIsLeft, ReviewedInv, RecordedOnConfirmedBoard
<1>2. CASE TurnIsLeft
  BY <1>2 DEF TurnIsLeft, ReviewedInv, RecordedOnConfirmedBoard
<1>3. ASSUME NEW o \in Opponent, ConfirmTurnFacts(o)
      PROVE  ReviewedInv'
  BY <1>3, ConfirmedBoard DEF ReviewedInv, RecordedOnConfirmedBoard
<1>4. CASE RecordState /\ AppendState
  <2> DEFINE n == Len(states) + 1
  <2>1. /\ UNCHANGED <<match, session, facts, completions>> /\ ui.step = "state"
    BY <1>4 DEF RecordState
  <2>2. /\ facts[session.board].input = ui.input
        /\ \A i \in DOMAIN states : states[i].match = match => states[i].rev < session.rev
    BY <2>1 DEF BoardInv
  <2>3. session.rev \in Nat /\ session.turn \in Nat
    BY DEF Typed, TypeOK, Session
  <2>4. \A i \in DOMAIN states : states[i].rev \in Nat
    <3>1. \A i \in DOMAIN states : states[i] \in State
      BY ElementOfSeq, LenProperties DEF Typed, TypeOK
    <3> QED
      BY <3>1 DEF State
  <2>5. /\ DOMAIN states' = DOMAIN states \cup {n}
        /\ \A i \in DOMAIN states : states'[i] = states[i]
        /\ states'[n].match = match /\ states'[n].turn = session.turn
        /\ states'[n].rev = session.rev /\ states'[n].input = ui.input
    BY <1>4, AppendedState
  <2> HIDE DEF n
  <2>6. ASSUME NEW i \in DOMAIN states', IsLatestState(i)', states'[i].turn = session.turn
        PROVE  i = n
    <3>1. /\ states'[i].match = match
          /\ \/ states'[n].turn < states'[i].turn
             \/ states'[n].turn = states'[i].turn /\ states'[n].rev <= states'[i].rev
      BY <2>1, <2>5, <2>6 DEF IsLatestState, NotNewer
    <3>2. session.rev <= states'[i].rev
      BY <2>3, <2>5, <2>6, <3>1
    <3> QED
      BY <2>2, <2>3, <2>4, <2>5, <3>1, <3>2
  <2> QED
    BY <2>1, <2>2, <2>5, <2>6 DEF ReviewedInv, RecordedOnConfirmedBoard
<1>5. ASSUME NEW i \in DOMAIN states, RecordAction(i)
      PROVE  ReviewedInv'
  <2>1. states[i].input = facts[session.board].input /\ session.board \in DOMAIN facts
    BY <1>5, RecordedAction DEF ReviewedInv
  <2>2. /\ \A c \in DOMAIN completions' :
             /\ completions'[c].state \in DOMAIN states
             /\ completions'[c].board \in DOMAIN facts
             /\ states[completions'[c].state].input = facts[completions'[c].board].input
    BY <1>5, <2>1, RecordedAction DEF ReviewedInv, RecordedOnConfirmedBoard
  <2>3. UNCHANGED <<facts, states>> /\ session'.board = session.board
        /\ session'.state # "TURN_REVIEWED"
    BY <1>5, RecordedAction
  <2> QED
    BY <2>1, <2>2, <2>3 DEF ReviewedInv, RecordedOnConfirmedBoard
<1> QED
  BY <1>1, <1>2, <1>3, <1>4, <1>5, RecordStep

(* As long as the application refuses no confirmation and the process does *)
(* not stop between the two transactions of one, each result is recorded   *)
(* on the state of the board the human confirmed last, whatever answers,   *)
(* corrections, aborts and other stops come between.                       *)
THEOREM RecordedOnBoardUnlessSplit ==
  Spec /\ [](rejections = 0) /\ [][~(ui.step = "state" /\ ui'.step = "down")]_vars
    => []RecordedOnConfirmedBoard
<1>1. Init => BoardInv /\ ReviewedInv
  BY RestTyped DEF Init, BoardInv, ReviewedInv, RecordedOnConfirmedBoard
<1>2. Typed /\ BoardInv /\ ReviewedInv /\ [Next]_vars
        /\ [~(ui.step = "state" /\ ui'.step = "down")]_vars
        /\ rejections = 0 /\ (rejections = 0)' => (BoardInv /\ ReviewedInv)'
  <2>1. UNCHANGED vars => ~(ui.step = "state" /\ ui'.step = "down")
    BY DEF vars
  <2> QED
    BY <2>1, BoardInvKept, ReviewedKept
<1>3. ReviewedInv => RecordedOnConfirmedBoard
  BY DEF ReviewedInv
<1> QED
  BY <1>1, <1>2, <1>3, TypedInvariant, PTL DEF Spec

---------------------------------------------------------------------------
(* The history of a match.                                                 *)

(* What a step can do to the tables of a match.                            *)
HistoryIsLeft ==
  /\ UNCHANGED <<match, facts, states, completions, drafts>>
  /\ UNCHANGED <<session, advices>> \/ \E j \in Jobs : \E p : ApplyResult(j, p)
  /\ crashes' >= crashes
  /\ ui'.step = "state" => ui.step = "state" \/ session.state = "TURN_REVIEWED"
  /\ ui.step = "state" => \/ ui'.step = "state" \/ crashes' > 0
                          \/ RecordState /\ StateExists

LEMMA HistoryStep ==
  ASSUME Typed, [Next]_vars
  PROVE  \/ HistoryIsLeft
         \/ BeginBattle \/ AbortMatch \/ StartTurnCapture
         \/ \E o \in Opponent : ConfirmTurnFacts(o)
         \/ RecordState /\ AppendState
         \/ \E i \in DOMAIN states : RecordAction(i)
         \/ \E i \in DOMAIN states, c \in DOMAIN completions : NextTurn(i, c)
<1>1. crashes \in Nat /\ Idle.step = "idle"
  BY RestTyped DEF Typed, TypeOK
<1>2. CASE RequestStep
  <2>1. /\ UNCHANGED <<match, session, facts, states, completions, drafts, advices, crashes>>
        /\ ui'.step \in {"dispatch", "apply"} /\ ui.step = "idle"
    BY <1>2, RequestsAreRequested DEF RequestStep, RequestMock, RequestLegacy, RequestRich
  <2> QED
    BY <1>1, <2>1 DEF HistoryIsLeft
<1>3. ASSUME NEW o \in Opponent, RejectTurnFacts(o)
      PROVE  HistoryIsLeft
  <2>1. ui'.step = "state" => session.state = "TURN_REVIEWED"
    BY <1>1, <1>3 DEF RejectTurnFacts
  <2> QED
    BY <1>1, <1>3, <2>1 DEF RejectTurnFacts, HistoryIsLeft
<1>4. ASSUME NEW e, HandleEntry(e)
      PROVE  HistoryIsLeft
  BY <1>1, <1>4 DEF HandleEntry, HistoryIsLeft
<1>5. ASSUME NEW i, NEW choice, ConfirmSwitches(i, choice)
      PROVE  HistoryIsLeft
  BY <1>1, <1>5 DEF ConfirmSwitches, HistoryIsLeft
<1>6. ASSUME NEW j \in Jobs, NEW p, Redeliver(j, p)
      PROVE  HistoryIsLeft
  BY <1>1, <1>6 DEF Redeliver, HistoryIsLeft
<1>7. CASE Apply
  <2>1. ui'.step # "state"
    <3>1. [ui EXCEPT !.step = "reject", !.arg = "OTHER"].step = "reject"
      BY DEF Typed, TypeOK, Ui
    <3> QED
      BY <1>1, <1>7, <3>1 DEF Apply
  <2>2. ui.step = "apply" /\ ui.job \in Jobs /\ ApplyResult(ui.job, ui.arg)
    BY <1>7 DEF Apply, Typed, ControlOK
  <2>3. UNCHANGED <<match, facts, states, completions, drafts, crashes>>
    BY <1>7 DEF Apply
  <2> QED
    BY <1>1, <2>1, <2>2, <2>3 DEF HistoryIsLeft
<1>8. CASE RecordState /\ StateExists
  <2>1. /\ ui.step = "state" /\ ui'.step = "idle"
        /\ UNCHANGED <<match, session, facts, completions, drafts, advices, crashes>>
    BY <1>1, <1>8 DEF RecordState
  <2>2. CASE UNCHANGED states
    BY <1>1, <1>8, <2>1, <2>2 DEF HistoryIsLeft
  <2> QED
    BY <1>8, <2>2 DEF RecordState, AppendState
<1>9. CASE Dispatch \/ FailJob \/ Restart
  BY <1>1, <1>9 DEF Dispatch, FailJob, Restart, HistoryIsLeft
<1>10. ASSUME NEW l, NEW phase, NEW step \in {"apply", "fail"}, TakeAnswer(l, phase, step)
       PROVE  HistoryIsLeft
  <2>1. [Idle EXCEPT !.step = step, !.job = workers[l].job, !.arg = workers[l].arg].step = step
    BY DEF Idle
  <2> QED
    BY <1>1, <1>10, <2>1 DEF TakeAnswer, HistoryIsLeft
<1>11. CASE Callback
  BY <1>1, <1>10, <1>11 DEF Callback, ReleaseDispatch, HandleSucceeded, HandleFailed,
                            HistoryIsLeft
<1>12. CASE (\E l \in Remote : WorkerStep(l)) \/ UNCHANGED vars
  <2>1. UNCHANGED <<match, session, facts, states, completions, drafts, advices, ui, crashes>>
    BY <1>12, Zenon DEF WorkerStep, WorkerAnswer, vars
  <2> QED
    BY <1>1, <2>1 DEF HistoryIsLeft
<1>13. CASE Crash
  <2>1. /\ ui' = [Idle EXCEPT !.step = "down"] /\ crashes' = crashes + 1
        /\ UNCHANGED <<match, session, facts, states, completions, drafts, advices>>
    BY <1>13, Zenon DEF Crash
  <2> QED
    BY <1>1, <2>1, RestTyped DEF HistoryIsLeft
<1>14. CASE Command
  BY <1>2, <1>3, <1>4, <1>5, <1>6, <1>14 DEF Command, RequestStep
<1>15. CASE UiStep
  BY <1>7, <1>8, <1>9, <1>15 DEF UiStep, RecordState, AppendState
<1> QED
  BY <1>9, <1>11, <1>12, <1>13, <1>14, <1>15 DEF Next

(* What these do to the row of the session.                                *)
LEMMA AppliedSession ==
  ASSUME Typed, NEW j \in Jobs, NEW p, ApplyResult(j, p)
  PROVE  /\ session'.active = session.active /\ session'.state = session.state
         /\ session'.turn = session.turn /\ session'.board = session.board
         /\ session'.rev \in {session.rev, session.rev + 1}
<1>1. session \in Session
  BY DEF Typed, TypeOK
<1>2. CASE session' = session
  BY <1>2
<1>3. CASE session' = [session EXCEPT !.advice = Len(advices) + 1, !.rev = session.rev + 1]
  BY <1>1, <1>3 DEF Session
<1> QED
  BY <1>2, <1>3, Zenon DEF ApplyResult

LEMMA LeftSession ==
  ASSUME Typed, HistoryIsLeft
  PROVE  /\ session'.active = session.active /\ session'.state = session.state
         /\ session'.turn = session.turn /\ session'.board = session.board
         /\ session'.rev \in {session.rev, session.rev + 1}
  BY AppliedSession DEF HistoryIsLeft

LEMMA BegunSession ==
  ASSUME Typed, BeginBattle
  PROVE  /\ match' = match + 1 /\ match + 1 \in Nat /\ match + 1 >= 1 /\ match + 1 > match
         /\ session'.active /\ session'.state = "BATTLE_READY" /\ session'.turn = 0
         /\ session'.board = None /\ session'.advice = None
         /\ ~session.active /\ match < MaxMatches /\ ui'.step # "state"
         /\ UNCHANGED <<facts, states, completions, drafts, advices, crashes>>
<1>1. match \in Nat
  BY DEF Typed, TypeOK
<1>2. match + 1 \in Nat /\ match + 1 >= 1 /\ match + 1 > match
  BY <1>1
<1> QED
  BY <1>2 DEF BeginBattle

LEMMA AbortedSession ==
  ASSUME Typed, AbortMatch
  PROVE  /\ session.active /\ ~session'.active /\ session'.state = "ABORTED"
         /\ session'.turn = session.turn /\ session'.board = session.board
         /\ session'.advice = session.advice /\ session'.rev = session.rev + 1
<1>1. session' = [session EXCEPT !.active = FALSE, !.state = "ABORTED", !.rev = session.rev + 1]
  BY Zenon DEF AbortMatch
<1> QED
  BY <1>1 DEF Typed, TypeOK, Session, AbortMatch

LEMMA PendingTurnSession ==
  ASSUME Typed, NEW n \in Nat, PendingTurn(n)
  PROVE  /\ session'.active = session.active /\ session'.state = "TURN_CAPTURE_PENDING"
         /\ session'.turn = n /\ session'.board = None /\ session'.advice = None
         /\ session'.rev = session.rev + 1
<1>1. session' = [session EXCEPT !.turn = n, !.board = None, !.advice = None,
                                 !.state = "TURN_CAPTURE_PENDING", !.rev = session.rev + 1]
  BY Zenon DEF PendingTurn
<1> QED
  BY <1>1 DEF Typed, TypeOK, Session

LEMMA CaptureSession ==
  ASSUME Typed, StartTurnCapture
  PROVE  /\ session'.active /\ session'.state = "TURN_CAPTURE_PENDING"
         /\ session.turn = 0 /\ session'.turn = 1
         /\ session'.board = None /\ session'.advice = None
         /\ session'.rev = session.rev + 1
         /\ session.active /\ session.state = "BATTLE_READY" /\ ui'.step # "state"
         /\ UNCHANGED <<match, facts, states, completions, drafts, advices, crashes>>
<1>1. PendingTurn(1) /\ session.active
  BY DEF StartTurnCapture
<1>2. /\ session'.active = session.active /\ session'.state = "TURN_CAPTURE_PENDING"
      /\ session'.turn = 1 /\ session'.board = None /\ session'.advice = None
      /\ session'.rev = session.rev + 1
  BY <1>1, PendingTurnSession
<1>3. /\ session.turn = 0 /\ session.state = "BATTLE_READY" /\ ui'.step # "state"
      /\ UNCHANGED <<match, facts, states, completions, drafts, advices, crashes>>
  BY DEF StartTurnCapture
<1> QED
  BY <1>1, <1>2, <1>3

LEMMA ConfirmedSession ==
  ASSUME Typed, NEW o \in Opponent, ConfirmTurnFacts(o)
  PROVE  /\ session'.active = session.active /\ session'.turn = session.turn
         /\ session'.advice = None /\ session'.rev = session.rev + 1
         /\ Len(facts) + 1 \in Nat /\ \A f \in DOMAIN facts : f <= Len(facts)
         /\ facts'[Len(facts) + 1].match = match /\ facts'[Len(facts) + 1].turn = session.turn
         /\ ui.step = "idle" /\ session.active
         /\ session.state \in {"TURN_CAPTURE_PENDING", "TURN_REVIEWED"}
         /\ UNCHANGED <<match, states, completions, drafts, advices, crashes>>
<1>1. session' = [session EXCEPT !.board = Len(facts) + 1, !.advice = None,
                                 !.state = "TURN_REVIEWED", !.rev = session.rev + 1]
  BY Zenon DEF ConfirmTurnFacts
<1>2. /\ session'.active = session.active /\ session'.turn = session.turn
      /\ session'.advice = None /\ session'.rev = session.rev + 1
  BY <1>1 DEF Typed, TypeOK, Session
<1> DEFINE new == [match |-> match, turn |-> session.turn, input |-> Inputs + 1,
                   prev |-> session.board]
<1>3. facts' = Append(facts, new) /\ facts \in Seq(Facts)
  BY DEF ConfirmTurnFacts, Typed, TypeOK
<1>4. new.match = match /\ new.turn = session.turn
  OBVIOUS
<1> HIDE DEF new
<1>5. /\ Len(facts) \in Nat /\ DOMAIN facts = 1..Len(facts)
      /\ facts'[Len(facts) + 1] = new
  BY <1>3, LenProperties, AppendProperties
<1>6. Len(facts) + 1 \in Nat /\ \A f \in DOMAIN facts : f <= Len(facts)
  BY <1>5
<1>7. /\ ui.step = "idle" /\ session.active
      /\ session.state \in {"TURN_CAPTURE_PENDING", "TURN_REVIEWED"}
      /\ UNCHANGED <<match, states, completions, drafts, advices, crashes>>
  BY DEF ConfirmTurnFacts
<1> QED
  BY <1>2, <1>4, <1>5, <1>6, <1>7

LEMMA RecordedSession ==
  ASSUME Typed, NEW i \in DOMAIN states, RecordAction(i)
  PROVE  /\ session'.active = session.active /\ session'.rev = session.rev + 1
         /\ session'.advice = session.advice /\ session.advice # None
         /\ completions'[Len(completions) + 1].match = match
         /\ completions'[Len(completions) + 1].turn = session.turn
         /\ UNCHANGED <<drafts, advices, crashes>>
<1>1. session' = [session EXCEPT !.state = "TURN_RECORDED", !.rev = session.rev + 1]
  BY Zenon DEF RecordAction
<1>2. /\ session'.active = session.active /\ session'.rev = session.rev + 1
      /\ session'.advice = session.advice
  BY <1>1 DEF Typed, TypeOK, Session
<1> DEFINE new == [match |-> match, turn |-> session.turn, board |-> session.board, state |-> i]
<1>3. completions' = Append(completions, new) /\ completions \in Seq(Completion)
  BY DEF RecordAction, Typed, TypeOK
<1>4. new.match = match /\ new.turn = session.turn
  OBVIOUS
<1> HIDE DEF new
<1>5. completions'[Len(completions) + 1] = new
  BY <1>3, AppendProperties
<1> QED
  BY <1>2, <1>4, <1>5 DEF RecordAction

(* What the next turn adds.                                                *)
LEMMA AddedDraft ==
  ASSUME Typed, NEW i \in DOMAIN states, NEW c \in DOMAIN completions, NextTurn(i, c)
  PROVE  /\ session.turn + 1 \in Nat /\ session.turn + 1 >= 1
         /\ session'.active /\ session'.state = "TURN_CAPTURE_PENDING"
         /\ session'.turn = session.turn + 1 /\ session'.board = None
         /\ session'.advice = None /\ session'.rev = session.rev + 1
         /\ session.active /\ session.state = "TURN_RECORDED" /\ ui.step = "idle"
         /\ IsLatestState(i) /\ states[i].turn = session.turn /\ completions[c].state = i
         /\ UNCHANGED <<match, facts, states, completions, ui, crashes, advices>>
         /\ Len(drafts) + 1 \in Nat
         /\ DOMAIN drafts' = DOMAIN drafts \cup {Len(drafts) + 1}
         /\ \A d \in DOMAIN drafts : drafts'[d] = drafts[d]
         /\ drafts'[Len(drafts) + 1].match = match
         /\ drafts'[Len(drafts) + 1].turn = session.turn + 1
         /\ drafts'[Len(drafts) + 1].rev = session.rev + 1
         /\ drafts'[Len(drafts) + 1].completion = c
<1> DEFINE new == [match |-> match, turn |-> session.turn + 1, rev |-> session.rev + 1,
                   completion |-> c]
<1>1. drafts' = Append(drafts, new) /\ drafts \in Seq(Draft)
  BY DEF NextTurn, Typed, TypeOK
<1>2. /\ new.match = match /\ new.turn = session.turn + 1 /\ new.rev = session.rev + 1
      /\ new.completion = c
  OBVIOUS
<1> HIDE DEF new
<1>3. /\ DOMAIN drafts = 1..Len(drafts) /\ Len(drafts) \in Nat
      /\ DOMAIN drafts' = 1..(Len(drafts) + 1)
      /\ \A d \in 1..Len(drafts) : drafts'[d] = drafts[d]
      /\ drafts'[Len(drafts) + 1] = new
  BY <1>1, LenProperties, AppendProperties
<1>4. session.turn + 1 \in Nat /\ session.turn + 1 >= 1
  BY DEF Typed, TypeOK, Session
<1>5. /\ session.active /\ PendingTurn(session.turn + 1)
  BY DEF NextTurn, MayAdvance
<1>6. /\ session'.active /\ session'.state = "TURN_CAPTURE_PENDING"
      /\ session'.turn = session.turn + 1 /\ session'.board = None
      /\ session'.advice = None /\ session'.rev = session.rev + 1
  BY <1>4, <1>5, PendingTurnSession
<1> QED
  BY <1>2, <1>3, <1>4, <1>6 DEF NextTurn, MayAdvance

(* The invariant.  Row i of a table is of turn t of match m.               *)
IsOf(table, i, m, t) == i \in DOMAIN table /\ table[i].match = m /\ table[i].turn = t

(* What the row of the session says of itself.                             *)
SessionShape ==
  /\ session.active => session.state # "ABORTED" /\ match >= 1
  /\ session.state \in {"BATTLE_READY", "TURN_CAPTURE_PENDING", "TURN_REVIEWED",
                        "TURN_RECORDED", "MATCH_ENDED"} => session.active
  /\ session.state = "BATTLE_READY" => session.turn = 0
  /\ session.state \in {"TURN_CAPTURE_PENDING", "TURN_REVIEWED", "TURN_RECORDED"} =>
       session.turn >= 1
  /\ session.state \in {"TURN_REVIEWED", "TURN_RECORDED"} => session.board # None
  /\ ui.step = "state" => session.state = "TURN_REVIEWED"

(* No row is of a match or a turn that has not begun.                      *)
RowsUpTo(table, m, t) ==
  \A i \in DOMAIN table :
    table[i].match <= m /\ (table[i].match = m => table[i].turn \in 1..t)
RowsAreOfTurns ==
  /\ RowsUpTo(facts, match, session.turn) /\ RowsUpTo(states, match, session.turn)
  /\ RowsUpTo(completions, match, session.turn) /\ RowsUpTo(drafts, match, session.turn)

(* The board is the newest of its turn.                                    *)
BoardIsNewest ==
  /\ session.board # None =>
       /\ IsOf(facts, session.board, match, session.turn)
       /\ \A f \in DOMAIN facts :
            IsOf(facts, f, match, session.turn) => f <= session.board
  /\ session.board = None => \A f \in DOMAIN facts : ~IsOf(facts, f, match, session.turn)

(* The states of a match are in order, each linked to the one before it.   *)
Between(k, n, i) == k < n /\ n < i /\ states[n].match = states[i].match
StatesAreOrdered ==
  /\ \A i, k \in DOMAIN states : (states[k].match = states[i].match /\ k < i) =>
       states[k].rev < states[i].rev /\ states[k].turn <= states[i].turn
  /\ \A i, k \in DOMAIN states :
       (/\ states[k].match = states[i].match /\ k < i
        /\ \A n \in DOMAIN states : ~Between(k, n, i)) => states[i].prev = k
  /\ \A i \in DOMAIN states : states[i].match = match =>
       /\ states[i].rev <= session.rev
       /\ states[i].rev = session.rev => states[i].turn = session.turn

(* Each result is of a state of its turn, a turn has one, and none before  *)
(* it is recorded.                                                         *)
ResultsAreOfStates ==
  /\ \A c \in DOMAIN completions :
       IsOf(states, completions[c].state, completions[c].match, completions[c].turn)
  /\ \A c, d \in DOMAIN completions :
       IsOf(completions, d, completions[c].match, completions[c].turn) => c = d
  /\ session.state \in {"TURN_CAPTURE_PENDING", "TURN_REVIEWED"} =>
       \A c \in DOMAIN completions : ~IsOf(completions, c, match, session.turn)

(* Each turn that was played has a board and a result.                     *)
BeingPlayed == session.state \in {"TURN_CAPTURE_PENDING", "TURN_REVIEWED", "ABORTED"}
Played(t) == t \in 1..session.turn /\ (t = session.turn => ~BeingPlayed)
PlayedIsRecorded ==
  \A t \in 1..session.turn : Played(t) =>
    /\ \E f \in DOMAIN facts : IsOf(facts, f, match, t)
    /\ \E c \in DOMAIN completions : IsOf(completions, c, match, t)

(* Each turn that was left led to one draft, older than the states of the  *)
(* next.                                                                   *)
DraftsLead ==
  /\ \A d \in DOMAIN drafts : drafts[d].match = match =>
       /\ drafts[d].rev <= session.rev
       /\ session.state = "TURN_REVIEWED" => drafts[d].rev < session.rev
       /\ \A i \in DOMAIN states :
            IsOf(states, i, match, drafts[d].turn) => drafts[d].rev < states[i].rev
  /\ \A d, e \in DOMAIN drafts :
       IsOf(drafts, e, drafts[d].match, drafts[d].turn) => d = e
  /\ \A t \in 1..session.turn : t < session.turn =>
       \E d \in DOMAIN drafts :
         /\ IsOf(drafts, d, match, t + 1)
         /\ IsOf(completions, drafts[d].completion, match, t)

(* A board under review has no state only while it is being written or     *)
(* after a process stop.                                                   *)
StateIsLost ==
  (/\ session.state = "TURN_REVIEWED" /\ ui.step # "state"
   /\ \A i \in DOMAIN states : ~IsOf(states, i, match, session.turn)) => crashes > 0

HistoryInv ==
  /\ SessionShape /\ RowsAreOfTurns /\ BoardIsNewest /\ StatesAreOrdered
  /\ ResultsAreOfStates /\ PlayedIsRecorded /\ DraftsLead /\ StateIsLost

LEMMA HistoryTypes ==
  ASSUME Typed
  PROVE  /\ match \in Nat /\ session.rev \in Nat /\ session.turn \in Nat /\ session.board \in Nat
         /\ DOMAIN facts \subseteq Nat /\ DOMAIN states \subseteq Nat
         /\ DOMAIN completions \subseteq Nat /\ DOMAIN drafts \subseteq Nat
         /\ \A i \in DOMAIN facts : facts[i].match \in Nat /\ facts[i].turn \in Nat
         /\ \A i \in DOMAIN states : /\ states[i].match \in Nat /\ states[i].turn \in Nat
                                     /\ states[i].rev \in Nat
         /\ \A i \in DOMAIN completions : /\ completions[i].match \in Nat
                                          /\ completions[i].turn \in Nat
         /\ \A i \in DOMAIN drafts : /\ drafts[i].match \in Nat /\ drafts[i].turn \in Nat
                                     /\ drafts[i].rev \in Nat
<1>1. match \in Nat /\ session.rev \in Nat /\ session.turn \in Nat /\ session.board \in Nat
  BY DEF Typed, TypeOK, Session
<1>2. /\ facts \in Seq(Facts) /\ states \in Seq(State) /\ completions \in Seq(Completion)
      /\ drafts \in Seq(Draft)
  BY DEF Typed, TypeOK
<1>3. /\ DOMAIN facts = 1..Len(facts) /\ DOMAIN states = 1..Len(states)
      /\ DOMAIN completions = 1..Len(completions) /\ DOMAIN drafts = 1..Len(drafts)
  BY <1>2, LenProperties
<1>4. \A i \in DOMAIN facts : facts[i] \in Facts
  BY <1>2, <1>3, ElementOfSeq
<1>5. \A i \in DOMAIN states : states[i] \in State
  BY <1>2, <1>3, ElementOfSeq
<1>6. \A i \in DOMAIN completions : completions[i] \in Completion
  BY <1>2, <1>3, ElementOfSeq
<1>7. \A i \in DOMAIN drafts : drafts[i] \in Draft
  BY <1>2, <1>3, ElementOfSeq
<1> QED
  BY SMTT(30), <1>1, <1>3, <1>4, <1>5, <1>6, <1>7 DEF Facts, State, Completion, Draft

LEMMA ShapeKept ==
  ASSUME Typed, SessionShape, [Next]_vars
  PROVE  SessionShape'
<1>1. Idle.step = "idle" /\ match \in Nat /\ session.turn \in Nat /\ session.board \in Nat
  BY RestTyped, HistoryTypes
<1>2. CASE HistoryIsLeft
  BY <1>2, LeftSession DEF SessionShape, HistoryIsLeft
<1>3. CASE BeginBattle
  BY <1>3, BegunSession DEF SessionShape
<1>4. CASE AbortMatch
  BY <1>1, <1>4, AbortedSession DEF AbortMatch, SessionShape
<1>5. CASE StartTurnCapture
  BY <1>5, CaptureSession DEF SessionShape
<1>6. ASSUME NEW o \in Opponent, ConfirmTurnFacts(o)
      PROVE  SessionShape'
  <2>1. session.turn >= 1 /\ Len(facts) + 1 # 0
    BY <1>1, <1>6, ConfirmedSession DEF SessionShape
  <2> QED
    BY <1>6, <2>1, ConfirmedSession, ConfirmedBoard DEF SessionShape
<1>7. CASE RecordState /\ AppendState
  <2>1. session' = session /\ match' = match /\ ui'.step = "idle"
    BY <1>1, <1>7 DEF RecordState
  <2> QED
    BY <2>1 DEF SessionShape
<1>8. ASSUME NEW i \in DOMAIN states, RecordAction(i)
      PROVE  SessionShape'
  BY <1>8, RecordedAction, RecordedSession DEF SessionShape
<1>9. ASSUME NEW i \in DOMAIN states, NEW c \in DOMAIN completions, NextTurn(i, c)
      PROVE  SessionShape'
  BY <1>9, AddedDraft DEF SessionShape
<1> QED
  BY <1>2, <1>3, <1>4, <1>5, <1>6, <1>7, <1>8, <1>9, HistoryStep

LEMMA RowsGrow ==
  ASSUME NEW table, NEW m \in Nat, NEW t \in Nat, NEW n \in Nat, NEW u \in Nat,
         \A i \in DOMAIN table : table[i].match \in Nat /\ table[i].turn \in Nat,
         RowsUpTo(table, m, t), n > m \/ (n = m /\ t <= u)
  PROVE  RowsUpTo(table, n, u)
  BY DEF RowsUpTo

LEMMA RowsAdd ==
  ASSUME NEW table, NEW new, NEW k, NEW m \in Nat, NEW t \in Nat, t >= 1,
         RowsUpTo(table, m, t), DOMAIN new = DOMAIN table \cup {k},
         \A i \in DOMAIN table : new[i] = table[i],
         new[k].match = m, new[k].turn = t
  PROVE  RowsUpTo(new, m, t)
  BY DEF RowsUpTo

LEMMA RowsKept ==
  ASSUME Typed, SessionShape, RowsAreOfTurns, [Next]_vars
  PROVE  RowsAreOfTurns'
<1> DEFINE Types(table) == \A i \in DOMAIN table : table[i].match \in Nat /\ table[i].turn \in Nat
           All == /\ Types(facts) /\ Types(states) /\ Types(completions) /\ Types(drafts)
           Upto(m, t) == /\ RowsUpTo(facts, m, t) /\ RowsUpTo(states, m, t)
                         /\ RowsUpTo(completions, m, t) /\ RowsUpTo(drafts, m, t)
<1>1. match \in Nat /\ session.turn \in Nat /\ All /\ Idle.step = "idle"
  BY HistoryTypes, RestTyped
<1>2. ASSUME NEW n \in Nat, NEW u \in Nat, n > match \/ (n = match /\ session.turn <= u)
      PROVE  Upto(n, u)
  BY <1>1, <1>2, RowsGrow, Zenon DEF RowsAreOfTurns
<1>3. ASSUME UNCHANGED <<facts, states, completions, drafts>>,
             match' \in Nat, session'.turn \in Nat,
             match' > match \/ (match' = match /\ session.turn <= session'.turn)
      PROVE  RowsAreOfTurns'
  BY <1>2, <1>3 DEF RowsAreOfTurns
<1>4. CASE HistoryIsLeft
  BY <1>1, <1>3, <1>4, LeftSession DEF HistoryIsLeft
<1>5. CASE BeginBattle
  BY <1>1, <1>3, <1>5, BegunSession
<1>6. CASE AbortMatch
  BY <1>1, <1>3, <1>6, AbortedSession DEF AbortMatch
<1>7. CASE StartTurnCapture
  BY <1>1, <1>3, <1>7, CaptureSession
<1>8. ASSUME NEW o \in Opponent, ConfirmTurnFacts(o)
      PROVE  RowsAreOfTurns'
  <2>1. session.turn >= 1
    BY <1>8, ConfirmedSession DEF SessionShape
  <2>2. RowsUpTo(facts', match, session.turn)
    BY SMTT(30), <1>1, <1>8, <2>1, ConfirmedSession, ConfirmedBoard, RowsAdd DEF RowsAreOfTurns
  <2> QED
    BY <1>8, <2>2, ConfirmedSession DEF RowsAreOfTurns
<1>9. CASE RecordState /\ AppendState
  <2>1. /\ session.turn >= 1 /\ UNCHANGED <<match, session, facts, completions, drafts>>
    BY <1>9 DEF RecordState, SessionShape
  <2>2. RowsUpTo(states', match, session.turn)
    BY <1>1, <1>9, <2>1, AppendedState, RowsAdd DEF RowsAreOfTurns
  <2> QED
    BY <2>1, <2>2 DEF RowsAreOfTurns
<1>10. ASSUME NEW i \in DOMAIN states, RecordAction(i)
       PROVE  RowsAreOfTurns'
  <2>1. session.turn >= 1
    BY <1>10, RecordedAction DEF SessionShape
  <2>2. RowsUpTo(completions', match, session.turn)
    <3>1. /\ DOMAIN completions' = DOMAIN completions \cup {Len(completions) + 1}
          /\ \A c \in DOMAIN completions : completions'[c] = completions[c]
          /\ completions'[Len(completions) + 1].match = match
          /\ completions'[Len(completions) + 1].turn = session.turn
      BY <1>10, RecordedSession, RecordedAction
    <3> QED
      BY <1>1, <2>1, <3>1, RowsAdd DEF RowsAreOfTurns
  <2> QED
    BY <1>10, <2>2, RecordedSession, RecordedAction DEF RowsAreOfTurns
<1>11. ASSUME NEW i \in DOMAIN states, NEW c \in DOMAIN completions, NextTurn(i, c)
       PROVE  RowsAreOfTurns'
  <2>1. /\ session'.turn = session.turn + 1 /\ session.turn + 1 \in Nat
        /\ UNCHANGED <<match, facts, states, completions>>
    BY <1>11, AddedDraft
  <2>2. Upto(match, session.turn + 1)
    BY <1>1, <1>2, <2>1
  <2>3. RowsUpTo(drafts', match, session.turn + 1)
    <3> DEFINE t == session.turn + 1
    <3>1. /\ t \in Nat /\ t >= 1 /\ RowsUpTo(drafts, match, t)
          /\ DOMAIN drafts' = DOMAIN drafts \cup {Len(drafts) + 1}
          /\ \A d \in DOMAIN drafts : drafts'[d] = drafts[d]
          /\ drafts'[Len(drafts) + 1].match = match /\ drafts'[Len(drafts) + 1].turn = t
      BY <1>11, <2>2, AddedDraft
    <3> HIDE DEF t
    <3>2. RowsUpTo(drafts', match, t)
      BY <1>1, <3>1, RowsAdd
    <3> QED
      BY <3>2 DEF t
  <2> QED
    BY <2>1, <2>2, <2>3 DEF RowsAreOfTurns
<1> QED
  BY <1>4, <1>5, <1>6, <1>7, <1>8, <1>9, <1>10, <1>11, HistoryStep

LEMMA BoardKept ==
  ASSUME Typed, SessionShape, RowsAreOfTurns, BoardIsNewest, [Next]_vars
  PROVE  BoardIsNewest'
<1>1. /\ match \in Nat /\ session.turn \in Nat /\ session.board \in Nat
      /\ \A i \in DOMAIN facts : facts[i].match \in Nat /\ facts[i].turn \in Nat
      /\ DOMAIN facts \subseteq Nat
  BY HistoryTypes
<1>2. ASSUME UNCHANGED <<match, facts>>, session'.turn = session.turn,
             session'.board = session.board
      PROVE  BoardIsNewest'
  BY <1>2 DEF BoardIsNewest, IsOf
<1>3. CASE HistoryIsLeft
  BY <1>2, <1>3, LeftSession DEF HistoryIsLeft
<1>4. CASE BeginBattle
  BY <1>1, <1>4, BegunSession DEF BoardIsNewest, IsOf, RowsAreOfTurns, RowsUpTo
<1>5. CASE AbortMatch
  BY <1>2, <1>5, AbortedSession DEF AbortMatch
<1>6. ASSUME UNCHANGED <<match, facts>>, session'.board = None,
             session'.turn = session.turn + 1
      PROVE  BoardIsNewest'
  BY <1>1, <1>6 DEF BoardIsNewest, IsOf, RowsAreOfTurns, RowsUpTo
<1>7. CASE StartTurnCapture
  BY <1>1, <1>6, <1>7, CaptureSession
<1>8. ASSUME NEW o \in Opponent, ConfirmTurnFacts(o)
      PROVE  BoardIsNewest'
  <2>1. /\ session'.board = Len(facts) + 1 /\ Len(facts) + 1 \in Nat
        /\ \A f \in DOMAIN facts : f <= Len(facts)
        /\ DOMAIN facts' = DOMAIN facts \cup {Len(facts) + 1}
        /\ UNCHANGED match /\ session'.turn = session.turn
        /\ facts'[Len(facts) + 1].match = match /\ facts'[Len(facts) + 1].turn = session.turn
    BY <1>8, ConfirmedSession, ConfirmedBoard
  <2> DEFINE n == Len(facts) + 1
  <2>2. n # 0 /\ \A f \in DOMAIN facts' : f <= n
    <3>1. Len(facts) \in Nat
      BY LenProperties DEF Typed, TypeOK
    <3> QED
      BY <1>1, <2>1, <3>1
  <2> HIDE DEF n
  <2> QED
    BY <2>1, <2>2 DEF BoardIsNewest, IsOf, n
<1>9. CASE RecordState /\ AppendState
  BY <1>2, <1>9 DEF RecordState
<1>10. ASSUME NEW i \in DOMAIN states, RecordAction(i)
       PROVE  BoardIsNewest'
  BY <1>2, <1>10, RecordedAction
<1>11. ASSUME NEW i \in DOMAIN states, NEW c \in DOMAIN completions, NextTurn(i, c)
       PROVE  BoardIsNewest'
  BY <1>6, <1>11, AddedDraft
<1> QED
  BY <1>3, <1>4, <1>5, <1>7, <1>8, <1>9, <1>10, <1>11, HistoryStep

(* The new state is linked to the last one of its match.                   *)
LEMMA AppendedLink ==
  ASSUME Typed, SessionShape, RowsAreOfTurns, StatesAreOrdered, AppendState
  PROVE  /\ \A k \in DOMAIN states :
              /\ k < Len(states) + 1
              /\ states[k].match = match =>
                   states[k].rev < session.rev /\ states[k].turn <= session.turn
         /\ \A k \in DOMAIN states :
              (/\ states[k].match = match
               /\ \A n \in DOMAIN states : states[n].match = match => n <= k) =>
                 states'[Len(states) + 1].prev = k
<1>1. /\ match \in Nat /\ session.turn \in Nat /\ session.rev \in Nat
      /\ DOMAIN states \subseteq Nat
      /\ \A i \in DOMAIN states : /\ states[i].match \in Nat /\ states[i].turn \in Nat
                                  /\ states[i].rev \in Nat
  BY HistoryTypes
<1>2. /\ DOMAIN states = 1..Len(states) /\ Len(states) \in Nat
  BY LenProperties DEF Typed, TypeOK
<1>3. \A k \in DOMAIN states : k < Len(states) + 1
  BY <1>2
<1>4. ASSUME NEW k \in DOMAIN states, states[k].match = match
      PROVE  states[k].rev < session.rev /\ states[k].turn <= session.turn
  <2>1. states[k].turn <= session.turn
    BY <1>1, <1>4 DEF RowsAreOfTurns, RowsUpTo
  <2>2. states[k].rev # session.rev
    BY <1>4 DEF AppendState, StateExists, StatesAreOrdered
  <2> QED
    BY SMTT(30), <1>1, <1>4, <2>1, <2>2 DEF StatesAreOrdered
<1>5. states'[Len(states) + 1].prev = LatestStateOrNone
  <2> DEFINE new == [match |-> match, turn |-> session.turn, rev |-> session.rev,
                     input |-> ui.input, opponent |-> ui.opponent, prev |-> LatestStateOrNone]
  <2>1. states' = Append(states, new) /\ states \in Seq(State)
    BY DEF AppendState, Typed, TypeOK
  <2>2. new.prev = LatestStateOrNone
    OBVIOUS
  <2> HIDE DEF new
  <2>3. states'[Len(states) + 1] = new
    BY <2>1, AppendProperties
  <2> QED
    BY <2>2, <2>3
<1>6. ASSUME NEW k \in DOMAIN states, states[k].match = match,
             \A n \in DOMAIN states : states[n].match = match => n <= k
      PROVE  LatestStateOrNone = k
  <2>1. \A n \in DOMAIN states : states[n].match = match =>
           n = k \/ (states[n].rev < states[k].rev /\ states[n].turn <= states[k].turn)
    <3> SUFFICES ASSUME NEW n \in DOMAIN states, states[n].match = match, n # k
                 PROVE  states[n].rev < states[k].rev /\ states[n].turn <= states[k].turn
      OBVIOUS
    <3>1. n < k
      BY <1>1, <1>6
    <3> QED
      BY <1>6, <3>1 DEF StatesAreOrdered
  <2>2. IsLatestState(k)
    BY <1>1, <1>6, <2>1 DEF IsLatestState, NotNewer
  <2>3. \A i \in DOMAIN states : IsLatestState(i) => i = k
    BY <1>1, <1>6, <2>1 DEF IsLatestState, NotNewer
  <2> QED
    BY <2>2, <2>3 DEF LatestStateOrNone
<1> QED
  BY <1>3, <1>4, <1>5, <1>6

LEMMA OrderKept ==
  ASSUME Typed, SessionShape, RowsAreOfTurns, StatesAreOrdered, [Next]_vars
  PROVE  StatesAreOrdered'
<1>1. /\ match \in Nat /\ session.turn \in Nat /\ session.rev \in Nat
      /\ DOMAIN states \subseteq Nat
      /\ \A i \in DOMAIN states : /\ states[i].match \in Nat /\ states[i].turn \in Nat
                                  /\ states[i].rev \in Nat
  BY HistoryTypes
<1>2. ASSUME UNCHANGED <<match, states>>,
             \/ session'.rev = session.rev /\ session'.turn = session.turn
             \/ session'.rev = session.rev + 1
      PROVE  StatesAreOrdered'
  BY <1>1, <1>2 DEF StatesAreOrdered, Between
<1>3. CASE HistoryIsLeft
  BY <1>2, <1>3, LeftSession DEF HistoryIsLeft
<1>4. CASE BeginBattle
  BY <1>1, <1>4, BegunSession DEF StatesAreOrdered, Between, RowsAreOfTurns, RowsUpTo
<1>5. CASE AbortMatch
  BY <1>2, <1>5, AbortedSession DEF AbortMatch
<1>6. CASE StartTurnCapture
  BY <1>2, <1>6, CaptureSession
<1>7. ASSUME NEW o \in Opponent, ConfirmTurnFacts(o)
      PROVE  StatesAreOrdered'
  BY <1>2, <1>7, ConfirmedSession
<1>8. CASE RecordState /\ AppendState
  <2> DEFINE n == Len(states) + 1
  <2>1. UNCHANGED <<match, session>>
    BY <1>8 DEF RecordState
  <2>2. /\ n \in Nat /\ DOMAIN states' = DOMAIN states \cup {n}
        /\ \A i \in DOMAIN states : states'[i] = states[i]
        /\ states'[n].match = match /\ states'[n].turn = session.turn
        /\ states'[n].rev = session.rev
    BY <1>8, AppendedState
  <2>3. /\ \A k \in DOMAIN states :
             /\ k < n
             /\ states[k].match = match =>
                  states[k].rev < session.rev /\ states[k].turn <= session.turn
        /\ \A k \in DOMAIN states :
             (/\ states[k].match = match
              /\ \A l \in DOMAIN states : states[l].match = match => l <= k) =>
                states'[n].prev = k
    BY <1>8, AppendedLink
  <2> HIDE DEF n
  <2>4. \A i, k \in DOMAIN states' : (states'[k].match = states'[i].match /\ k < i) =>
          states'[k].rev < states'[i].rev /\ states'[k].turn <= states'[i].turn
    BY <1>1, <2>2, <2>3 DEF StatesAreOrdered
  <2>5. ASSUME NEW i \in DOMAIN states', NEW k \in DOMAIN states',
               states'[k].match = states'[i].match, k < i,
               \A l \in DOMAIN states' : ~Between(k, l, i)'
        PROVE  states'[i].prev = k
    <3>1. k \in DOMAIN states
      BY <1>1, <2>2, <2>3, <2>5
    <3>2. CASE i = n
      <4>1. states[k].match = match
        BY <2>2, <2>5, <3>1, <3>2
      <4>2. \A l \in DOMAIN states : states[l].match = match => l <= k
        BY <1>1, <2>2, <2>3, <2>5, <3>1, <3>2 DEF Between
      <4> QED
        BY <2>3, <3>1, <3>2, <4>1, <4>2
    <3>3. CASE i \in DOMAIN states
      <4>1. \A l \in DOMAIN states : ~Between(k, l, i)
        BY <2>2, <2>5, <3>3 DEF Between
      <4> QED
        BY <2>2, <2>5, <3>1, <3>3, <4>1 DEF StatesAreOrdered
    <3> QED
      BY <2>2, <3>2, <3>3
  <2>6. \A i \in DOMAIN states' : states'[i].match = match' =>
          /\ states'[i].rev <= session'.rev
          /\ states'[i].rev = session'.rev => states'[i].turn = session'.turn
    BY <1>1, <2>1, <2>2 DEF StatesAreOrdered
  <2> QED
    BY <2>4, <2>5, <2>6 DEF StatesAreOrdered
<1>9. ASSUME NEW i \in DOMAIN states, RecordAction(i)
      PROVE  StatesAreOrdered'
  BY <1>2, <1>9, RecordedAction, RecordedSession
<1>10. ASSUME NEW i \in DOMAIN states, NEW c \in DOMAIN completions, NextTurn(i, c)
       PROVE  StatesAreOrdered'
  BY <1>2, <1>10, AddedDraft
<1> QED
  BY <1>3, <1>4, <1>5, <1>6, <1>7, <1>8, <1>9, <1>10, HistoryStep

LEMMA ResultsKept ==
  ASSUME Typed, SessionShape, RowsAreOfTurns, ResultsAreOfStates, [Next]_vars
  PROVE  ResultsAreOfStates'
<1>1. /\ match \in Nat /\ session.turn \in Nat
      /\ \A i \in DOMAIN completions : /\ completions[i].match \in Nat
                                       /\ completions[i].turn \in Nat
  BY HistoryTypes
<1>2. ASSUME UNCHANGED <<states, completions>>,
             session'.state \in {"TURN_CAPTURE_PENDING", "TURN_REVIEWED"} =>
               \A c \in DOMAIN completions : ~IsOf(completions, c, match', session'.turn)
      PROVE  ResultsAreOfStates'
  BY <1>2 DEF ResultsAreOfStates, IsOf
<1>3. CASE HistoryIsLeft
  BY <1>2, <1>3, LeftSession DEF HistoryIsLeft, ResultsAreOfStates
<1>4. CASE BeginBattle
  BY <1>2, <1>4, BegunSession
<1>5. CASE AbortMatch
  BY <1>2, <1>5, AbortedSession DEF AbortMatch
<1>6. CASE StartTurnCapture
  <2>1. \A c \in DOMAIN completions : ~IsOf(completions, c, match', session'.turn)
    BY <1>1, <1>6, CaptureSession DEF IsOf, RowsAreOfTurns, RowsUpTo
  <2> QED
    BY <1>2, <1>6, <2>1, CaptureSession
<1>7. ASSUME NEW o \in Opponent, ConfirmTurnFacts(o)
      PROVE  ResultsAreOfStates'
  BY <1>2, <1>7, ConfirmedSession DEF ResultsAreOfStates
<1>8. CASE RecordState /\ AppendState
  <2>1. UNCHANGED <<match, session, completions>>
    BY <1>8 DEF RecordState
  <2>2. /\ DOMAIN states \subseteq DOMAIN states'
        /\ \A i \in DOMAIN states : states'[i] = states[i]
    BY <1>8, AppendedState
  <2> QED
    BY <2>1, <2>2 DEF ResultsAreOfStates, IsOf
<1>9. ASSUME NEW i \in DOMAIN states, RecordAction(i)
      PROVE  ResultsAreOfStates'
  <2> DEFINE n == Len(completions) + 1
  <2>1. /\ DOMAIN completions' = DOMAIN completions \cup {n}
        /\ \A c \in DOMAIN completions : completions'[c] = completions[c]
        /\ completions'[n].match = match /\ completions'[n].turn = session.turn
        /\ completions'[n].state = i /\ UNCHANGED states
        /\ session'.state = "TURN_RECORDED"
    BY <1>9, RecordedAction, RecordedSession
  <2> HIDE DEF n
  <2>2. IsOf(states, i, match, session.turn)
    BY <1>9, RecordedAction DEF IsOf, IsLatestState
  <2>3. \A c \in DOMAIN completions : ~IsOf(completions, c, match, session.turn)
    BY <1>9, RecordedAction DEF ResultsAreOfStates
  <2>4. \A c \in DOMAIN completions' :
          IsOf(states', completions'[c].state, completions'[c].match, completions'[c].turn)
    BY <2>1, <2>2 DEF ResultsAreOfStates
  <2>5. \A c, d \in DOMAIN completions' :
          IsOf(completions', d, completions'[c].match, completions'[c].turn) => c = d
    BY <2>1, <2>3 DEF ResultsAreOfStates, IsOf
  <2> QED
    BY <2>1, <2>4, <2>5 DEF ResultsAreOfStates
<1>10. ASSUME NEW i \in DOMAIN states, NEW c \in DOMAIN completions, NextTurn(i, c)
       PROVE  ResultsAreOfStates'
  <2>1. \A d \in DOMAIN completions : ~IsOf(completions, d, match', session'.turn)
    BY <1>1, <1>10, AddedDraft DEF IsOf, RowsAreOfTurns, RowsUpTo
  <2> QED
    BY <1>2, <1>10, <2>1, AddedDraft
<1> QED
  BY <1>3, <1>4, <1>5, <1>6, <1>7, <1>8, <1>9, <1>10, HistoryStep

LEMMA PlayedKept ==
  ASSUME Typed, SessionShape, BoardIsNewest, PlayedIsRecorded, [Next]_vars
  PROVE  PlayedIsRecorded'
<1>1. match \in Nat /\ session.turn \in Nat
  BY HistoryTypes
<1> DEFINE Shown(t) == /\ \E f \in DOMAIN facts : IsOf(facts, f, match, t)
                       /\ \E c \in DOMAIN completions : IsOf(completions, c, match, t)
<1>2. ASSUME NEW t \in 1..session.turn, t < session.turn \/ ~BeingPlayed
      PROVE  Shown(t)
  BY <1>1, <1>2 DEF PlayedIsRecorded, Played
<1>3. ASSUME UNCHANGED <<match, facts, completions>>,
             session'.turn = session.turn, BeingPlayed'  \/ ~BeingPlayed
      PROVE  PlayedIsRecorded'
  <2>1. \A t \in 1..session.turn : Played(t)' => Played(t)
    BY <1>3 DEF Played
  <2> QED
    BY <1>3, <2>1 DEF PlayedIsRecorded
<1>4. CASE HistoryIsLeft
  BY <1>3, <1>4, LeftSession DEF HistoryIsLeft, BeingPlayed
<1>5. CASE BeginBattle
  <2>1. session'.turn = 0
    BY <1>5, BegunSession
  <2> QED
    BY <2>1 DEF PlayedIsRecorded
<1>6. CASE AbortMatch
  BY <1>3, <1>6, AbortedSession DEF AbortMatch, BeingPlayed
<1>7. ASSUME UNCHANGED <<match, facts, completions>>, ~BeingPlayed, BeingPlayed',
             session'.turn = session.turn + 1
      PROVE  PlayedIsRecorded'
  <2>1. ASSUME NEW t \in 1..session'.turn, Played(t)'
        PROVE  t \in 1..session.turn
    BY <1>1, <1>7, <2>1 DEF Played
  <2> QED
    BY <1>2, <1>7, <2>1 DEF PlayedIsRecorded
<1>8. CASE StartTurnCapture
  BY <1>1, <1>7, <1>8, CaptureSession DEF BeingPlayed
<1>9. ASSUME NEW o \in Opponent, ConfirmTurnFacts(o)
      PROVE  PlayedIsRecorded'
  <2>1. /\ UNCHANGED <<match, completions>> /\ session'.turn = session.turn
        /\ DOMAIN facts \subseteq DOMAIN facts'
        /\ \A f \in DOMAIN facts : facts'[f] = facts[f]
        /\ session'.state = "TURN_REVIEWED"
    BY <1>9, ConfirmedSession, ConfirmedBoard
  <2>2. \A t \in 1..session.turn : Played(t)' => t < session.turn
    BY <1>1, <2>1 DEF Played, BeingPlayed
  <2> QED
    BY <1>2, <2>1, <2>2 DEF PlayedIsRecorded, IsOf
<1>10. CASE RecordState /\ AppendState
  BY <1>3, <1>10 DEF RecordState, BeingPlayed
<1>11. ASSUME NEW i \in DOMAIN states, RecordAction(i)
       PROVE  PlayedIsRecorded'
  <2> DEFINE n == Len(completions) + 1
  <2>1. /\ DOMAIN completions' = DOMAIN completions \cup {n}
        /\ \A c \in DOMAIN completions : completions'[c] = completions[c]
        /\ completions'[n].match = match /\ completions'[n].turn = session.turn
        /\ UNCHANGED <<match, facts>> /\ session'.turn = session.turn
        /\ session.board # None
    BY <1>11, RecordedAction, RecordedSession
  <2> HIDE DEF n
  <2>2. ASSUME NEW t \in 1..session.turn
        PROVE  Shown(t)'
    <3>1. CASE t < session.turn
      <4>1. Shown(t)
        BY <1>2, <3>1
      <4> QED
        BY <2>1, <4>1 DEF IsOf
    <3>2. CASE t = session.turn
      <4>1. IsOf(facts, session.board, match, t) /\ IsOf(completions', n, match, t)
        BY <2>1, <3>2 DEF BoardIsNewest, IsOf
      <4>2. session.board \in DOMAIN facts /\ n \in DOMAIN completions'
        BY <4>1 DEF IsOf
      <4> QED
        BY <2>1, <4>1, <4>2
    <3> QED
      BY <1>1, <3>1, <3>2
  <2> QED
    BY <2>1, <2>2 DEF PlayedIsRecorded
<1>12. ASSUME NEW i \in DOMAIN states, NEW c \in DOMAIN completions, NextTurn(i, c)
       PROVE  PlayedIsRecorded'
  BY <1>1, <1>7, <1>12, AddedDraft DEF BeingPlayed
<1> QED
  BY <1>4, <1>5, <1>6, <1>8, <1>9, <1>10, <1>11, <1>12, HistoryStep

LEMMA DraftsKept ==
  ASSUME Typed, SessionShape, RowsAreOfTurns, ResultsAreOfStates, StatesAreOrdered, DraftsLead,
         [Next]_vars
  PROVE  DraftsLead'
<1>1. /\ match \in Nat /\ session.turn \in Nat /\ session.rev \in Nat
      /\ \A i \in DOMAIN states : /\ states[i].match \in Nat /\ states[i].turn \in Nat
                                  /\ states[i].rev \in Nat
      /\ \A i \in DOMAIN drafts : /\ drafts[i].match \in Nat /\ drafts[i].turn \in Nat
                                  /\ drafts[i].rev \in Nat
  BY HistoryTypes
<1>2. ASSUME UNCHANGED <<match, states, completions, drafts>>, session'.turn = session.turn,
             \/ session'.rev = session.rev + 1
             \/ session'.rev = session.rev /\ session'.state = session.state
      PROVE  DraftsLead'
  BY <1>1, <1>2 DEF DraftsLead, IsOf
<1>3. CASE HistoryIsLeft
  BY <1>2, <1>3, LeftSession DEF HistoryIsLeft
<1>4. CASE BeginBattle
  <2>1. \A d \in DOMAIN drafts : drafts[d].match # match'
    BY <1>1, <1>4, BegunSession DEF RowsAreOfTurns, RowsUpTo
  <2> QED
    BY <1>4, <2>1, BegunSession DEF DraftsLead, IsOf
<1>5. CASE AbortMatch
  BY <1>2, <1>5, AbortedSession DEF AbortMatch
<1>6. CASE StartTurnCapture
  <2>1. \A d \in DOMAIN drafts : drafts[d].match # match
    BY <1>1, <1>6, CaptureSession DEF RowsAreOfTurns, RowsUpTo
  <2> QED
    BY <1>6, <2>1, CaptureSession DEF DraftsLead, IsOf
<1>7. ASSUME NEW o \in Opponent, ConfirmTurnFacts(o)
      PROVE  DraftsLead'
  BY <1>2, <1>7, ConfirmedSession
<1>8. CASE RecordState /\ AppendState
  <2> DEFINE n == Len(states) + 1
  <2>1. UNCHANGED <<match, session, completions, drafts>>
    BY <1>8 DEF RecordState
  <2>2. /\ DOMAIN states' = DOMAIN states \cup {n}
        /\ \A i \in DOMAIN states : states'[i] = states[i]
        /\ states'[n].rev = session.rev
        /\ session.state = "TURN_REVIEWED"
    BY <1>8, AppendedState DEF RecordState, SessionShape
  <2> HIDE DEF n
  <2> QED
    BY <2>1, <2>2 DEF DraftsLead, IsOf
<1>9. ASSUME NEW i \in DOMAIN states, RecordAction(i)
      PROVE  DraftsLead'
  <2>1. /\ UNCHANGED <<match, states, drafts>> /\ session'.turn = session.turn
        /\ session'.rev = session.rev + 1
        /\ DOMAIN completions \subseteq DOMAIN completions'
        /\ \A c \in DOMAIN completions : completions'[c] = completions[c]
    BY <1>9, RecordedAction, RecordedSession
  <2> QED
    BY <1>1, <2>1 DEF DraftsLead, IsOf
<1>10. ASSUME NEW i \in DOMAIN states, NEW c \in DOMAIN completions, NextTurn(i, c)
       PROVE  DraftsLead'
  <2> DEFINE n == Len(drafts) + 1
             u == session.turn + 1
  <2>1. /\ UNCHANGED <<match, states, completions>> /\ session'.turn = u /\ u \in Nat
        /\ session'.rev = session.rev + 1 /\ session'.state = "TURN_CAPTURE_PENDING"
        /\ DOMAIN drafts' = DOMAIN drafts \cup {n}
        /\ \A d \in DOMAIN drafts : drafts'[d] = drafts[d]
        /\ drafts'[n].match = match /\ drafts'[n].turn = u
        /\ drafts'[n].rev = session.rev + 1 /\ drafts'[n].completion = c
    BY <1>10, AddedDraft
  <2>2. IsOf(completions, c, match, session.turn)
    <3>1. /\ completions[c].state = i /\ states[i].match = match
          /\ states[i].turn = session.turn
      BY <1>10, AddedDraft DEF IsLatestState
    <3> QED
      BY <3>1 DEF ResultsAreOfStates, IsOf
  <2>3. /\ \A d \in DOMAIN drafts : ~IsOf(drafts, d, match, u)
        /\ \A k \in DOMAIN states : ~IsOf(states, k, match, u)
    BY <1>1 DEF IsOf, RowsAreOfTurns, RowsUpTo
  <2>4. \A t \in Nat : t < u => t <= session.turn
    BY <1>1
  <2>5. u = session.turn + 1
    OBVIOUS
  <2> HIDE DEF n, u
  <2>6. \A d \in DOMAIN drafts' : drafts'[d].match = match =>
          /\ drafts'[d].rev <= session.rev + 1
          /\ \A k \in DOMAIN states :
               IsOf(states, k, match, drafts'[d].turn) => drafts'[d].rev < states[k].rev
    BY <1>1, <2>1, <2>3 DEF DraftsLead
  <2>7. \A d, e \in DOMAIN drafts' :
          IsOf(drafts', e, drafts'[d].match, drafts'[d].turn) => d = e
    BY <2>1, <2>3 DEF DraftsLead, IsOf
  <2>8. ASSUME NEW t \in 1..u, t < u
        PROVE  \E d \in DOMAIN drafts' :
                 /\ IsOf(drafts', d, match, t + 1)
                 /\ IsOf(completions, drafts'[d].completion, match, t)
    <3>1. CASE t = session.turn
      <4>1. n \in DOMAIN drafts' /\ IsOf(drafts', n, match, t + 1)
        BY <2>1, <2>5, <3>1 DEF IsOf
      <4>2. IsOf(completions, drafts'[n].completion, match, t)
        BY <2>1, <2>2, <3>1
      <4> QED
        BY <4>1, <4>2
    <3>2. CASE t # session.turn
      <4>1. t \in 1..session.turn /\ t < session.turn
        BY <1>1, <2>4, <2>8, <3>2
      <4>2. PICK d \in DOMAIN drafts : /\ IsOf(drafts, d, match, t + 1)
                                       /\ IsOf(completions, drafts[d].completion, match, t)
        BY <4>1 DEF DraftsLead
      <4>3. d \in DOMAIN drafts' /\ drafts'[d] = drafts[d]
        BY <2>1
      <4> QED
        BY <4>2, <4>3 DEF IsOf
    <3> QED
      BY <3>1, <3>2
  <2> QED
    BY <2>1, <2>6, <2>7, <2>8 DEF DraftsLead
<1> QED
  BY <1>3, <1>4, <1>5, <1>6, <1>7, <1>8, <1>9, <1>10, HistoryStep

LEMMA LostKept ==
  ASSUME Typed, SessionShape, StateIsLost, [Next]_vars
  PROVE  StateIsLost'
<1>1. crashes \in Nat /\ session \in Session
  BY DEF Typed, TypeOK
<1>2. CASE HistoryIsLeft
  <2>1. /\ UNCHANGED <<match, states>> /\ session'.state = session.state
        /\ session'.turn = session.turn /\ crashes' >= crashes
    BY <1>2, LeftSession DEF HistoryIsLeft
  <2>2. crashes' \in Nat
    BY TypedNext DEF Typed, TypeOK
  <2>3. CASE ui.step = "state"
    <3>1. CASE RecordState /\ StateExists
      <4>1. \E i \in DOMAIN states' : IsOf(states', i, match', session'.turn)
        BY <2>1, <3>1 DEF StateExists, IsOf
      <4> QED
        BY <4>1 DEF StateIsLost
    <3> QED
      BY <1>2, <2>3, <3>1 DEF HistoryIsLeft, StateIsLost
  <2>4. CASE ui.step # "state"
    BY <1>1, <2>1, <2>2, <2>4 DEF StateIsLost, IsOf
  <2> QED
    BY <2>3, <2>4
<1>3. CASE BeginBattle
  BY <1>3, BegunSession DEF StateIsLost
<1>4. CASE AbortMatch
  BY <1>4, AbortedSession DEF StateIsLost
<1>5. CASE StartTurnCapture
  BY <1>5, CaptureSession DEF StateIsLost
<1>6. ASSUME NEW o \in Opponent, ConfirmTurnFacts(o)
      PROVE  StateIsLost'
  BY <1>6, ConfirmedBoard DEF StateIsLost
<1>7. CASE RecordState /\ AppendState
  <2>1. \E i \in DOMAIN states' : IsOf(states', i, match', session'.turn)
    BY <1>7, AppendedState DEF RecordState, IsOf
  <2> QED
    BY <2>1 DEF StateIsLost
<1>8. ASSUME NEW i \in DOMAIN states, RecordAction(i)
      PROVE  StateIsLost'
  BY <1>8, RecordedAction DEF StateIsLost
<1>9. ASSUME NEW i \in DOMAIN states, NEW c \in DOMAIN completions, NextTurn(i, c)
      PROVE  StateIsLost'
  BY <1>9, AddedDraft DEF StateIsLost
<1> QED
  BY <1>2, <1>3, <1>4, <1>5, <1>6, <1>7, <1>8, <1>9, HistoryStep

LEMMA HistoryKept == Typed /\ HistoryInv /\ [Next]_vars => HistoryInv'
  BY ShapeKept, RowsKept, BoardKept, OrderKept, ResultsKept, PlayedKept, DraftsKept, LostKept
     DEF HistoryInv

LEMMA HistoryInit == Init => HistoryInv
<1> SUFFICES ASSUME Init PROVE HistoryInv
  OBVIOUS
<1>1. /\ session.active = FALSE /\ session.state = "ABORTED" /\ session.turn = 0
      /\ session.board = None /\ ui.step = "idle"
      /\ DOMAIN facts = {} /\ DOMAIN states = {} /\ DOMAIN completions = {}
      /\ DOMAIN drafts = {}
  BY RestTyped DEF Init
<1> QED
  BY <1>1 DEF HistoryInv, SessionShape, RowsAreOfTurns, RowsUpTo, BoardIsNewest,
     StatesAreOrdered, ResultsAreOfStates, PlayedIsRecorded, DraftsLead, StateIsLost

(* The chain of a state.  As the function on is defined by recursion, it   *)
(* must be shown to exist: the states reached are those that are in every  *)
(* set that holds state i and, with a state, the one it is linked to.      *)
LEMMA ChainExists ==
  ASSUME NEW i \in Nat
  PROVE  \E on : on = [n \in 1..i |-> n = i \/ \E m \in (n + 1)..i : on[m] /\ states[m].prev = n]
<1> DEFINE Linked(n, m) == m \in (n + 1)..i /\ states[m].prev = n
           Closed(S) == (i \in 1..i => i \in S)
                        /\ \A m \in S : \A n \in 1..i : Linked(n, m) => n \in S
           C == {n \in 1..i : \A S \in SUBSET (1..i) : Closed(S) => n \in S}
           g == [n \in 1..i |-> n \in C]
<1>1. Closed(C)
  OBVIOUS
<1>2. ASSUME NEW n \in 1..i, n \in C, n # i
      PROVE  \E m \in (n + 1)..i : m \in C /\ states[m].prev = n
  <2> SUFFICES ASSUME \A m \in (n + 1)..i : ~(m \in C /\ states[m].prev = n)
               PROVE  FALSE
    OBVIOUS
  <2> DEFINE D == C \ {n}
  <2>1. i \in 1..i => i \in D
    BY <1>1, <1>2
  <2>2. ASSUME NEW m \in D, NEW k \in 1..i, Linked(k, m)
        PROVE  k \in D
    <3>1. k \in C
      BY <1>1, <2>2
    <3>2. k # n
      BY <2>2
    <3> QED
      BY <3>1, <3>2
  <2>3. Closed(D) /\ D \in SUBSET (1..i)
    BY <2>1, <2>2
  <2> QED
    BY <1>2, <2>3
<1>3. ASSUME NEW n \in 1..i, \E m \in (n + 1)..i : m \in C /\ states[m].prev = n
      PROVE  n \in C
  BY <1>1, <1>3
<1>4. \A n \in 1..i : n \in C <=> (n = i \/ \E m \in (n + 1)..i : m \in C /\ states[m].prev = n)
  BY <1>1, <1>2, <1>3
<1> HIDE DEF C
<1>5. \A n \in 1..i : \A m \in (n + 1)..i : m \in 1..i /\ g[m] = (m \in C)
  OBVIOUS
<1>6. \A n \in 1..i : (n \in C) = (n = i \/ \E m \in (n + 1)..i : g[m] /\ states[m].prev = n)
  <2> HIDE DEF g
  <2> TAKE n \in 1..i
  <2>1. (\E m \in (n + 1)..i : m \in C /\ states[m].prev = n)
          <=> (\E m \in (n + 1)..i : g[m] /\ states[m].prev = n)
    BY <1>5, Zenon
  <2>2. n \in C <=> (n = i \/ \E m \in (n + 1)..i : g[m] /\ states[m].prev = n)
    BY <1>4, <2>1, Zenon
  <2> QED
    BY <2>2
<1>7. g = [n \in 1..i |-> n = i \/ \E m \in (n + 1)..i : g[m] /\ states[m].prev = n]
  BY <1>6
<1> QED
  BY <1>7

LEMMA OnChainStep ==
  ASSUME NEW i \in Nat, NEW k \in 1..i
  PROVE  OnChain(k, i) <=> (k = i \/ \E m \in (k + 1)..i : OnChain(m, i) /\ states[m].prev = k)
<1> DEFINE on == CHOOSE on :
                   on = [n \in 1..i |-> n = i \/ \E m \in (n + 1)..i : on[m] /\ states[m].prev = n]
<1>1. on = [n \in 1..i |-> n = i \/ \E m \in (n + 1)..i : on[m] /\ states[m].prev = n]
  BY ChainExists
<1>2. \A n \in 1..i : OnChain(n, i) <=> on[n]
  BY DEF OnChain
<1> HIDE DEF on
<1>3. on[k] <=> (k = i \/ \E m \in (k + 1)..i : on[m] /\ states[m].prev = k)
  BY <1>1
<1>4. \A m \in (k + 1)..i : m \in 1..i
  OBVIOUS
<1>5. \A m \in (k + 1)..i : OnChain(m, i) <=> on[m]
  BY <1>2, <1>4
<1> QED
  BY <1>2, <1>3, <1>5, Zenon

(* All earlier states of a match are on the chain of a later one.          *)
LEMMA EarlierIsOnChain ==
  ASSUME Typed, StatesAreOrdered, NEW i \in DOMAIN states, NEW k \in DOMAIN states,
         states[k].match = states[i].match, k <= i
  PROVE  OnChain(k, i)
<1> DEFINE S == {n \in DOMAIN states : /\ states[n].match = states[i].match /\ n <= i
                                       /\ ~OnChain(n, i)}
<1>1. DOMAIN states \subseteq Nat /\ i \in Nat /\ DOMAIN states = 1..Len(states)
      /\ Len(states) \in Nat
  BY LenProperties DEF Typed, TypeOK
<1>2. \A n \in DOMAIN states : n <= i => n \in 1..i
  BY <1>1
<1>3. \A n \in 1..i : OnChain(n, i)
        <=> (n = i \/ \E m \in (n + 1)..i : OnChain(m, i) /\ states[m].prev = n)
  BY <1>1, OnChainStep
<1> SUFFICES ASSUME S # {} PROVE FALSE
  OBVIOUS
<1>4. S \subseteq Nat /\ \A n \in S : n <= i
  BY <1>1
<1>5. PICK n \in S : \A m \in S : m <= n
  <2> HIDE DEF S
  <2> QED
    BY <1>1, <1>4, LargestOf
<1>6. n \in DOMAIN states /\ n \in 1..i /\ n # i /\ n \in Nat
  BY <1>1, <1>2, <1>3, <1>5
<1> DEFINE T == {m \in DOMAIN states : states[m].match = states[i].match /\ n < m /\ m <= i}
<1>7. T \subseteq Nat /\ i \in T
  BY <1>1, <1>6
<1>8. PICK m \in T : \A l \in T : m <= l
  <2> HIDE DEF T
  <2> QED
    BY <1>7, SmallestOf
<1>9. m \in DOMAIN states /\ n < m /\ m <= i /\ states[m].match = states[i].match /\ m \in Nat
  BY <1>1, <1>8
<1>10. OnChain(m, i)
  <2>1. m \notin S
    BY <1>5, <1>6, <1>9
  <2> QED
    BY <1>9, <2>1
<1>11. states[m].prev = n
  <2>1. \A l \in DOMAIN states : ~Between(n, l, m)
    BY <1>1, <1>6, <1>8, <1>9 DEF Between
  <2>2. states[n].match = states[m].match
    BY <1>5, <1>9
  <2> QED
    BY <1>6, <1>9, <2>1, <2>2 DEF StatesAreOrdered
<1>12. m \in (n + 1)..i
  BY <1>6, <1>9, <1>1
<1>13. OnChain(n, i)
  BY <1>3, <1>6, <1>10, <1>11, <1>12
<1> QED
  BY <1>5, <1>13

(* A set with one element has one.                                         *)
LEMMA ExactlyOne ==
  ASSUME NEW S, NEW x \in S, \A y \in S : y = x
  PROVE  Cardinality(S) = 1
<1>1. S = {x}
  OBVIOUS
<1> QED
  BY <1>1, FS_Singleton

(* build_battle_memory accepts the state under review.                     *)
LEMMA MemoryIsThere ==
  ASSUME Typed, HistoryInv, NEW i \in DOMAIN states, IsCurrent(i)
  PROVE  MemoryHolds(i)
<1>1. /\ match \in Nat /\ session.turn \in Nat /\ DOMAIN states \subseteq Nat
      /\ \A n \in DOMAIN states : states[n].turn \in Nat
  BY HistoryTypes
<1>2. /\ states[i].match = match /\ states[i].turn = session.turn
      /\ SessionShape /\ StatesAreOrdered /\ ResultsAreOfStates /\ PlayedIsRecorded
  BY DEF IsCurrent, IsLatestState, HistoryInv
<1> DEFINE of(n) == {c \in DOMAIN completions :
                       completions[c].match = match /\ completions[c].turn = n}
<1> SUFFICES ASSUME NEW t \in 1..(states[i].turn - 1)
             PROVE  /\ Cardinality(of(t)) = 1
                    /\ \A c \in of(t) :
                         /\ OnChain(completions[c].state, i)
                         /\ states[completions[c].state].turn = t
                         /\ \A b \in of(t - 1) : completions[b].state < completions[c].state
  BY DEF MemoryHolds
<1>3. t \in 1..session.turn /\ t < session.turn /\ t \in Nat /\ t - 1 < t /\ t - 1 \in Nat
  BY <1>1, <1>2
<1>4. PICK c \in DOMAIN completions : IsOf(completions, c, match, t)
  BY <1>2, <1>3 DEF PlayedIsRecorded, Played
<1>5. c \in of(t) /\ \A d \in of(t) : d = c
  BY <1>2, <1>4 DEF IsOf, ResultsAreOfStates
<1>6. Cardinality(of(t)) = 1
  <2> HIDE DEF of
  <2> QED
    BY <1>5, ExactlyOne
<1>7. \A n \in Nat : \A d \in of(n) : /\ completions[d].state \in DOMAIN states
                        /\ states[completions[d].state].match = match
                        /\ states[completions[d].state].turn = n
  BY <1>2 DEF ResultsAreOfStates, IsOf
<1>8. ASSUME NEW n \in DOMAIN states, NEW k \in DOMAIN states,
             states[n].match = states[k].match, states[k].turn < states[n].turn
      PROVE  k < n
  <2>1. ~(n < k)
    BY <1>1, <1>2, <1>8 DEF StatesAreOrdered
  <2>2. k # n
    BY <1>1, <1>8
  <2> QED
    BY <1>1, <2>1, <2>2
<1> HIDE DEF of
<1>9. ASSUME NEW d \in of(t)
      PROVE  /\ OnChain(completions[d].state, i)
             /\ states[completions[d].state].turn = t
             /\ \A b \in of(t - 1) : completions[b].state < completions[d].state
  <2> DEFINE k == completions[d].state
  <2>1. k \in DOMAIN states /\ states[k].match = match /\ states[k].turn = t
    BY <1>3, <1>7
  <2>2. k < i
    BY <1>2, <1>3, <1>8, <2>1
  <2>3. OnChain(k, i)
    BY <1>1, <1>2, <2>1, <2>2, EarlierIsOnChain
  <2>4. ASSUME NEW b \in of(t - 1)
        PROVE  completions[b].state < k
    <3>1. /\ completions[b].state \in DOMAIN states
          /\ states[completions[b].state].match = match
          /\ states[completions[b].state].turn = t - 1
      BY <1>3, <1>7
    <3> QED
      BY <1>3, <1>8, <2>1, <3>1
  <2> QED
    BY <2>1, <2>3, <2>4
<1> QED
  BY <1>6, <1>9

LEMMA HistoryHolds == Typed /\ HistoryInv => HistoryIsUnbroken
<1> SUFFICES ASSUME Typed, HistoryInv PROVE HistoryIsUnbroken
  OBVIOUS
<1>1. /\ match \in Nat /\ session.turn \in Nat /\ DOMAIN states \subseteq Nat
      /\ \A n \in DOMAIN states : states[n].turn \in Nat /\ states[n].rev \in Nat
  BY HistoryTypes
<1>2. ASSUME NEW t \in 1..(session.turn - 1)
      PROVE  \E c \in DOMAIN completions, d \in DOMAIN drafts :
               /\ completions[c].match = match /\ completions[c].turn = t
               /\ drafts[d].match = match /\ drafts[d].turn = t + 1
               /\ drafts[d].completion = c
               /\ \A e \in DOMAIN drafts :
                    (drafts[e].match = match /\ drafts[e].turn = t + 1) => e = d
               /\ \A i \in DOMAIN states :
                    (states[i].match = match /\ states[i].turn = t + 1) =>
                      drafts[d].rev < states[i].rev
  <2>1. t \in 1..session.turn /\ t < session.turn
    BY <1>1
  <2>2. PICK d \in DOMAIN drafts : /\ IsOf(drafts, d, match, t + 1)
                                   /\ IsOf(completions, drafts[d].completion, match, t)
    BY <2>1 DEF HistoryInv, DraftsLead
  <2>3. \A e \in DOMAIN drafts :
          (drafts[e].match = match /\ drafts[e].turn = t + 1) => e = d
    BY <2>2 DEF HistoryInv, DraftsLead, IsOf
  <2>4. \A i \in DOMAIN states :
          (states[i].match = match /\ states[i].turn = t + 1) => drafts[d].rev < states[i].rev
    BY <2>2 DEF HistoryInv, DraftsLead, IsOf
  <2> QED
    BY <2>2, <2>3, <2>4 DEF IsOf
<1>3. \A i, k \in DOMAIN states :
        (states[i].match = states[k].match /\ k < i) => NotNewer(k, i) /\ ~NotNewer(i, k)
  <2> SUFFICES ASSUME NEW i \in DOMAIN states, NEW k \in DOMAIN states,
                      states[k].match = states[i].match, k < i
               PROVE  NotNewer(k, i) /\ ~NotNewer(i, k)
    OBVIOUS
  <2>1. states[k].rev < states[i].rev /\ states[k].turn <= states[i].turn
    BY DEF HistoryInv, StatesAreOrdered
  <2> QED
    BY <1>1, <2>1 DEF NotNewer
<1>4. \A i \in DOMAIN states : IsCurrent(i) => MemoryHolds(i)
  BY MemoryIsThere
<1> QED
  BY <1>2, <1>3, <1>4 DEF HistoryIsUnbroken

(* The history a rich request is built from never breaks: whatever is      *)
(* corrected, refused, aborted or lost to a process stop, every turn that  *)
(* was left has one result and one draft, the states are linked in order,  *)
(* and build_battle_memory accepts the state under review.                 *)
THEOREM HistoryNeverBreaks == Spec => []HistoryIsUnbroken
  BY HistoryInit, HistoryKept, HistoryHolds, TypedInvariant, PTL DEF Spec

---------------------------------------------------------------------------
(* Answers to what is still under review.                                  *)

(* A request names an existing row: a state, or the facts on the board.    *)
RowsOfLane(lane) == IF lane = "RICH" THEN DOMAIN states ELSE DOMAIN facts
SnapsExist == \A j \in Jobs : jobs[j].snap \in RowsOfLane(jobs[j].lane)

LEMMA NewSnapExists ==
  ASSUME Typed, BoardIsNewest, RequestStep
  PROVE  \E lane, snap, choice :
           /\ Requested(lane, snap, choice) /\ snap \in RowsOfLane(lane)
           /\ lane = "RICH" => IsCurrent(snap)
<1>1. PICK lane, snap, choice : Requested(lane, snap, choice)
  BY RequestsAreRequested
<1>2. jobs'[NewJob].lane = lane /\ jobs'[NewJob].snap = snap
  BY <1>1, RequestedAddsJob
<1>3. session.board \in Nat /\ 0 \in SwitchSet /\ {"MOCK", "LEGACY", "RICH"} \subseteq Lane
  BY DEF Typed, TypeOK, Session, SwitchSet, Lane, Remote
<1>4. ASSUME NEW l \in {"MOCK", "LEGACY"}, RequestOnFacts(l)
      PROVE  snap \in RowsOfLane(lane) /\ (lane = "RICH" => IsCurrent(snap))
  <2>1. session.board # None /\ InsertJob(l, session.board, 0)
    BY <1>4 DEF RequestOnFacts
  <2>2. jobs'[NewJob].lane = l /\ jobs'[NewJob].snap = session.board
    BY <1>3, <2>1, InsertedJob
  <2>3. session.board \in DOMAIN facts
    BY <2>1 DEF BoardIsNewest, IsOf
  <2> QED
    BY <1>2, <2>2, <2>3 DEF RowsOfLane
<1>5. ASSUME NEW i \in DOMAIN states, RequestRich(i)
      PROVE  snap \in RowsOfLane(lane) /\ (lane = "RICH" => IsCurrent(snap))
  <2>1. i \in Nat /\ switches[i] \in SwitchSet
    BY ElementOfSeq, LenProperties DEF Typed, TypeOK
  <2>2. InsertJob("RICH", i, switches[i]) /\ IsCurrent(i)
    BY <1>5 DEF RequestRich
  <2>3. jobs'[NewJob].lane = "RICH" /\ jobs'[NewJob].snap = i
    BY <1>3, <2>1, <2>2, InsertedJob
  <2> QED
    BY <1>2, <2>2, <2>3 DEF RowsOfLane
<1>6. snap \in RowsOfLane(lane) /\ (lane = "RICH" => IsCurrent(snap))
  BY <1>4, <1>5 DEF RequestStep, RequestMock, RequestLegacy
<1> QED
  BY <1>1, <1>6

(* No step takes a board or a state away.                                  *)
LEMMA BoardsGrow ==
  ASSUME Typed, [Next]_vars
  PROVE  /\ \A f \in DOMAIN facts : f \in DOMAIN facts' /\ facts'[f] = facts[f]
         /\ \A i \in DOMAIN states : i \in DOMAIN states' /\ states'[i] = states[i]
<1>1. CASE HistoryIsLeft
  BY <1>1 DEF HistoryIsLeft
<1>2. CASE BeginBattle \/ AbortMatch \/ StartTurnCapture
  BY <1>2 DEF BeginBattle, AbortMatch, StartTurnCapture
<1>3. ASSUME NEW o \in Opponent, ConfirmTurnFacts(o)
      PROVE  /\ \A f \in DOMAIN facts : f \in DOMAIN facts' /\ facts'[f] = facts[f]
             /\ UNCHANGED states
  BY <1>3, ConfirmedBoard
<1>4. CASE RecordState /\ AppendState
  <2>1. UNCHANGED facts
    BY <1>4 DEF RecordState
  <2> QED
    BY <1>4, <2>1, AppendedState
<1>5. ASSUME NEW i \in DOMAIN states, RecordAction(i)
      PROVE  UNCHANGED <<facts, states>>
  BY <1>5, RecordedAction
<1>6. ASSUME NEW i \in DOMAIN states, NEW c \in DOMAIN completions, NextTurn(i, c)
      PROVE  UNCHANGED <<facts, states>>
  BY <1>6, AddedDraft
<1> QED
  BY <1>1, <1>2, <1>3, <1>4, <1>5, <1>6, HistoryStep

LEMMA SnapsKept ==
  ASSUME Typed, BoardIsNewest, SnapsExist, [Next]_vars
  PROVE  SnapsExist'
<1>1. \A lane : RowsOfLane(lane) \subseteq RowsOfLane(lane)'
  BY BoardsGrow DEF RowsOfLane
<1>2. CASE JobsAreKept
  BY <1>1, <1>2 DEF JobsAreKept, SameRequest, SnapsExist
<1>3. CASE RequestStep
  <2>1. PICK lane, snap, choice : Requested(lane, snap, choice) /\ snap \in RowsOfLane(lane)
    BY <1>3, NewSnapExists
  <2>2. /\ Jobs' = Jobs \cup {NewJob} /\ \A j \in Jobs : jobs'[j] = jobs[j]
        /\ jobs'[NewJob].lane = lane /\ jobs'[NewJob].snap = snap
    BY <2>1, RequestedAddsJob
  <2> QED
    BY <1>1, <2>1, <2>2 DEF SnapsExist
<1> QED
  BY <1>2, <1>3, JobsKept

(* The strengthening: a request under way for the board or the state under *)
(* review was made at the revision the match still has.  A state that is   *)
(* still to be written will follow the one a request of the last turn      *)
(* asked about.                                                            *)
StateIsToCome == ui.step = "state" /\ ~StateExists
AsksForNow(j) == jobs[j].turn = session.turn /\ jobs[j].rev = session.rev
UnderWay(j) == jobs[j].status \in Pending /\ jobs[j].match = match
ReviewedIsAsked(j) ==
  /\ (jobs[j].lane # "RICH" /\ jobs[j].snap = session.board) => AsksForNow(j)
  /\ (jobs[j].lane = "RICH" /\ IsLatestState(jobs[j].snap) /\ ~StateIsToCome) =>
       AsksForNow(j) /\ IsCurrent(jobs[j].snap)
CurrentInv ==
  (session.state = "TURN_REVIEWED" /\ ui.step # "down") =>
    \A j \in Jobs : UnderWay(j) => ReviewedIsAsked(j)

(* What can happen to a board under review.                                *)
ReviewIsLeft ==
  /\ UNCHANGED <<match, session, facts, states>>
  /\ ui.step # "down" /\ (ui.step = "state" => ui'.step = "state")
ResultIsTaken ==
  /\ UNCHANGED <<match, facts, states>>
  /\ ui.step \in {"idle", "apply"} /\ ui'.step \in {"idle", "reject"}
  /\ \E j \in Jobs : \E p : ApplyResult(j, p)

LEMMA ReviewStep ==
  ASSUME Typed, [Next]_vars, session'.state = "TURN_REVIEWED", ui'.step # "down"
  PROVE  \/ ReviewIsLeft
         \/ ResultIsTaken
         \/ \E o \in Opponent : ConfirmTurnFacts(o)
         \/ RecordState
         \/ Restart
<1>1. CASE RequestStep
  <2>1. /\ UNCHANGED <<match, session, facts, states>>
        /\ ui.step = "idle"
    BY <1>1, RequestsAreRequested DEF RequestStep, RequestMock, RequestLegacy, RequestRich
  <2> QED
    BY <2>1 DEF ReviewIsLeft
<1>2. CASE BeginBattle
  BY <1>2, BegunSession
<1>3. CASE AbortMatch
  BY <1>3, AbortedSession
<1>4. CASE StartTurnCapture
  BY <1>4, CaptureSession
<1>5. ASSUME NEW i \in DOMAIN states, RecordAction(i)
      PROVE  FALSE
  BY <1>5, RecordedAction
<1>6. ASSUME NEW i \in DOMAIN states, NEW c \in DOMAIN completions, NextTurn(i, c)
      PROVE  FALSE
  BY <1>6, AddedDraft
<1>7. ASSUME NEW o \in Opponent, RejectTurnFacts(o)
      PROVE  ReviewIsLeft
  BY <1>7 DEF RejectTurnFacts, ReviewIsLeft
<1>8. ASSUME NEW e, HandleEntry(e)
      PROVE  ReviewIsLeft
  BY <1>8 DEF HandleEntry, ReviewIsLeft
<1>9. ASSUME NEW i, NEW choice, ConfirmSwitches(i, choice)
      PROVE  ReviewIsLeft
  BY <1>9 DEF ConfirmSwitches, ReviewIsLeft
<1>10. ASSUME NEW j \in Jobs, NEW p, Redeliver(j, p)
       PROVE  ResultIsTaken
  BY <1>10 DEF Redeliver, ResultIsTaken
<1>11. CASE Apply
  <2>1. ui'.step \in {"idle", "reject"}
    <3>1. [ui EXCEPT !.step = "reject", !.arg = "OTHER"].step = "reject"
      BY DEF Typed, TypeOK, Ui
    <3> QED
      BY <1>11, <3>1, RestTyped DEF Apply, Idle
  <2>2. ui.step = "apply" /\ ui.job \in Jobs /\ ApplyResult(ui.job, ui.arg)
    BY <1>11 DEF Apply, Typed, ControlOK
  <2> QED
    BY <1>11, <2>1, <2>2 DEF Apply, ResultIsTaken
<1>12. CASE Dispatch \/ FailJob
  BY <1>12 DEF Dispatch, FailJob, ReviewIsLeft
<1>13. CASE Callback
  BY <1>13 DEF Callback, ReleaseDispatch, HandleSucceeded, HandleFailed, TakeAnswer, ReviewIsLeft
<1>14. CASE (\E l \in Remote : WorkerStep(l)) \/ UNCHANGED vars
  <2>1. UNCHANGED <<match, session, facts, states, ui>>
    BY <1>14, Zenon DEF WorkerStep, WorkerAnswer, vars
  <2> QED
    BY <2>1 DEF ReviewIsLeft
<1>15. CASE Crash
  <2>1. ui' = [Idle EXCEPT !.step = "down"]
    BY <1>15, Zenon DEF Crash
  <2> QED
    BY <2>1, RestTyped
<1>16. CASE Command
  BY <1>1, <1>2, <1>3, <1>4, <1>5, <1>6, <1>7, <1>8, <1>9, <1>10, <1>16 DEF Command, RequestStep
<1> QED
  BY <1>11, <1>12, <1>13, <1>14, <1>15, <1>16 DEF Next, UiStep

(* Requests that a step keeps are asked as before, if it leaves the board, *)
(* the states and the row of the match alone.                              *)
LEMMA ReviewedStaysAsked ==
  ASSUME JobsAreKept, UNCHANGED <<match, session, states>>,
         StateIsToCome => StateIsToCome',
         \A j \in Jobs : UnderWay(j) => ReviewedIsAsked(j)
  PROVE  \A j \in Jobs' : UnderWay(j)' => ReviewedIsAsked(j)'
<1> SUFFICES ASSUME NEW j \in Jobs, UnderWay(j)' PROVE ReviewedIsAsked(j)'
  BY DEF JobsAreKept
<1>1. UnderWay(j)
  BY DEF UnderWay, JobsAreKept, SameRequest
<1>2. ReviewedIsAsked(j)
  BY <1>1
<1>3. /\ jobs'[j].turn = jobs[j].turn /\ jobs'[j].rev = jobs[j].rev
      /\ jobs'[j].lane = jobs[j].lane /\ jobs'[j].snap = jobs[j].snap
  BY DEF JobsAreKept, SameRequest
<1>4. \A i : IsLatestState(i)' <=> IsLatestState(i)
  BY DEF IsLatestState, NotNewer
<1>5. \A i : IsCurrent(i) => IsCurrent(i)'
  BY <1>4 DEF IsCurrent
<1> QED
  BY <1>2, <1>3, <1>4, <1>5 DEF ReviewedIsAsked, AsksForNow

(* Confirming a board leaves no request of the match under way, or a board *)
(* and a state that are of no request.                                     *)
LEMMA CurrentConfirmed ==
  ASSUME Typed, JobOrder, HistoryInv, SnapsExist, NEW o \in Opponent, ConfirmTurnFacts(o),
         NEW j \in Jobs, j \in Jobs', UnderWay(j)'
  PROVE  ReviewedIsAsked(j)'
<1>1. /\ session'.rev = session.rev + 1 /\ session'.turn = session.turn
      /\ session'.board = Len(facts) + 1 /\ ui'.step = "state"
      /\ UNCHANGED <<match, states>>
  BY ConfirmedSession, ConfirmedBoard
<1>2. CASE session.board # None
  <2>1. CancelPending
    BY <1>2 DEF ConfirmTurnFacts
  <2>2. jobs'[j] = Cancelled(j) /\ SameRequest(jobs'[j], jobs[j])
    BY <2>1, CancelKeepsJobs
  <2>3. jobs'[j].status # "CANCELLED"
    BY DEF UnderWay, Pending
  <2>4. jobs[j].status \in Pending => ~IsLatest(j)
    <3>1. [jobs[j] EXCEPT !.status = "CANCELLED"].status = "CANCELLED"
      BY JobsAreJobs DEF Job
    <3> QED
      BY <2>2, <2>3, <3>1 DEF Cancelled
  <2>5. jobs[j].status \in Pending
    <3>1. CASE Cancelled(j) = jobs[j]
      BY <2>2, <3>1 DEF UnderWay
    <3> QED
      BY <3>1 DEF Cancelled
  <2>6. jobs[j].match = match
    BY <1>1, <2>2 DEF UnderWay, SameRequest
  <2> QED
    BY <2>4, <2>5, <2>6 DEF JobOrder, PendingIsLatest, IsLatest
<1>3. CASE session.board = None
  <2>1. jobs' = jobs
    BY <1>3 DEF ConfirmTurnFacts
  <2>2. jobs[j].snap = Len(facts) + 1 => jobs[j].lane = "RICH"
    <3>1. \A f \in DOMAIN facts : f # Len(facts) + 1
      BY LenProperties DEF Typed, TypeOK
    <3> QED
      BY <3>1 DEF SnapsExist, RowsOfLane
  <2>3. StateIsToCome'
    <3>1. \A i \in DOMAIN states : states[i].match = match => states[i].rev # session.rev + 1
      <4>1. session.rev \in Nat /\ \A i \in DOMAIN states : states[i].rev \in Nat
        BY HistoryTypes
      <4> QED
        BY <4>1 DEF HistoryInv, StatesAreOrdered
    <3> QED
      BY <1>1, <3>1 DEF StateIsToCome, StateExists
  <2> QED
    BY <1>1, <2>1, <2>2, <2>3 DEF ReviewedIsAsked
<1> QED
  BY <1>2, <1>3

(* A state that is added follows every other of its match.                 *)
LEMMA CurrentAdded ==
  ASSUME Typed, HistoryInv, RecordState, AppendState, NEW i \in DOMAIN states
  PROVE  ~IsLatestState(i)'
<1> DEFINE new == Len(states) + 1
<1> SUFFICES ASSUME IsLatestState(i)' PROVE FALSE
  OBVIOUS
<1>1. UNCHANGED <<match, session>> /\ ~StateExists
  BY DEF RecordState, AppendState
<1>2. /\ new \in DOMAIN states' /\ states'[i] = states[i]
      /\ states'[new].match = match /\ states'[new].turn = session.turn
      /\ states'[new].rev = session.rev
  BY AppendedState
<1>3. states[i].match = match
  BY <1>1, <1>2 DEF IsLatestState
<1>4. \/ session.turn < states[i].turn
      \/ session.turn = states[i].turn /\ session.rev <= states[i].rev
  BY <1>1, <1>2 DEF IsLatestState, NotNewer
<1>5. /\ session.rev \in Nat /\ session.turn \in Nat
      /\ states[i].rev \in Nat /\ states[i].turn \in Nat
  BY HistoryTypes
<1>6. states[i].turn <= session.turn /\ states[i].rev <= session.rev
  BY <1>3, <1>5 DEF HistoryInv, RowsAreOfTurns, RowsUpTo, StatesAreOrdered
<1>7. states[i].turn = session.turn /\ states[i].rev = session.rev
  BY <1>4, <1>5, <1>6
<1> QED
  BY <1>1, <1>3, <1>7 DEF StateExists

(* A request asks for what is under review.                                *)
LEMMA CurrentRequest ==
  ASSUME Typed, HistoryInv, RequestStep,
         \A j \in Jobs : UnderWay(j) => ReviewedIsAsked(j)
  PROVE  \A j \in Jobs' : UnderWay(j)' => ReviewedIsAsked(j)'
<1>1. BoardIsNewest
  BY DEF HistoryInv
<1>2. PICK lane, snap, choice : /\ Requested(lane, snap, choice)
                                /\ lane = "RICH" => IsCurrent(snap)
  BY <1>1, NewSnapExists
<1>3. /\ UNCHANGED <<match, session, states>> /\ ui.step = "idle"
      /\ ui'.step \in {"dispatch", "apply"}
  BY RequestsAreRequested DEF RequestStep, RequestMock, RequestLegacy, RequestRich
<1>4. /\ Jobs' = Jobs \cup {NewJob} /\ \A j \in Jobs : jobs'[j] = jobs[j]
      /\ jobs'[NewJob].turn = session.turn /\ jobs'[NewJob].rev = session.rev
      /\ jobs'[NewJob].lane = lane /\ jobs'[NewJob].snap = snap
  BY <1>2, RequestedAddsJob
<1>5. \A i : IsLatestState(i)' <=> IsLatestState(i)
  BY <1>3 DEF IsLatestState, NotNewer
<1>6. \A i : IsCurrent(i) => IsCurrent(i)'
  BY <1>3, <1>5 DEF IsCurrent
<1>7. ASSUME NEW j \in Jobs, UnderWay(j)'
      PROVE  ReviewedIsAsked(j)'
  <2>1. ReviewedIsAsked(j)
    BY <1>3, <1>4, <1>7 DEF UnderWay
  <2>2. ~StateIsToCome
    BY <1>3 DEF StateIsToCome
  <2> QED
    BY <1>3, <1>4, <1>5, <1>6, <2>1, <2>2 DEF ReviewedIsAsked, AsksForNow
<1>8. ASSUME NEW j, j = NewJob
      PROVE  ReviewedIsAsked(j)'
  <2>1. AsksForNow(j)'
    BY <1>3, <1>4, <1>8 DEF AsksForNow
  <2>2. jobs'[j].lane = "RICH" => IsCurrent(jobs[j].snap)'
    <3>1. jobs'[j].lane = lane /\ jobs'[j].snap = snap
      BY <1>4, <1>8
    <3> QED
      BY <1>2, <1>3, <3>1 DEF IsCurrent, IsLatestState, NotNewer
  <2> QED
    BY <2>1, <2>2 DEF ReviewedIsAsked, IsCurrent, IsLatestState, NotNewer
<1> QED
  BY <1>4, <1>7, <1>8

(* A result that takes effect leaves no request of the match under way.    *)
LEMMA CurrentResult ==
  ASSUME Typed, JobOrder, [Next]_vars, ResultIsTaken, session.state = "TURN_REVIEWED",
         CurrentInv
  PROVE  \A j \in Jobs' : UnderWay(j)' => ReviewedIsAsked(j)'
<1>0. PICK j \in Jobs : \E p : ApplyResult(j, p)
  BY DEF ResultIsTaken
<1>1. PICK p : ApplyResult(j, p)
  BY <1>0
<1>2. PICK d :
        /\ d = "APPLIED" => ~WasApplied(j) /\ Answered(j)
        /\ d # "APPLIED" => UNCHANGED <<session, advices>> /\ Jobs' = Jobs
  BY <1>1, ResultIsApplied, Zenon
<1>3. UNCHANGED <<match, states>> /\ ui.step \notin {"state", "down"}
  BY DEF ResultIsTaken
<1>4. CASE Answered(j)
  <2>1. /\ IsLatest(j) /\ Jobs' = Jobs /\ jobs'[j].status = "SUCCEEDED"
        /\ \A k \in Jobs : k # j => jobs'[k] = jobs[k]
    BY <1>4 DEF Answered, BindingHolds
  <2>2. ASSUME NEW k \in Jobs, UnderWay(k)'
        PROVE  FALSE
    <3>1. k # j
      BY <2>1, <2>2 DEF UnderWay, Pending
    <3>2. jobs[k].status \in Pending /\ jobs[k].match = match
      BY <1>3, <2>1, <2>2, <3>1 DEF UnderWay
    <3>3. k <= j /\ j <= k
      BY <2>1, <3>2 DEF IsLatest, JobOrder, PendingIsLatest
    <3> QED
      BY <3>1, <3>3, JobsAreJobs
  <2> QED
    BY <2>1, <2>2
<1>5. CASE d # "APPLIED"
  <2>1. UNCHANGED <<match, session, states>>
    BY <1>2, <1>3, <1>5
  <2>2. ~StateIsToCome
    BY <1>3 DEF StateIsToCome
  <2>3. CASE JobsAreKept
    BY <1>3, <2>1, <2>2, <2>3, ReviewedStaysAsked DEF CurrentInv
  <2>4. CASE RequestStep
    <3>1. Jobs' = Jobs /\ \E lane, snap, choice : Requested(lane, snap, choice)
      BY <1>2, <1>5, <2>4, RequestsAreRequested
    <3> QED
      BY <3>1, RequestedAddsJob
  <2> QED
    BY <2>3, <2>4, JobsKept
<1> QED
  BY <1>2, <1>4, <1>5

LEMMA CurrentNext ==
  ASSUME Typed, JobOrder, HistoryInv, SnapsExist, CurrentInv, [Next]_vars
  PROVE  CurrentInv'
<1> SUFFICES ASSUME session'.state = "TURN_REVIEWED", ui'.step # "down"
             PROVE  \A j \in Jobs' : UnderWay(j)' => ReviewedIsAsked(j)'
  BY Zenon DEF CurrentInv
<1>1. CASE RequestStep
  <2>1. UNCHANGED session /\ ui.step = "idle"
    BY <1>1, RequestsAreRequested DEF RequestStep, RequestMock, RequestLegacy, RequestRich
  <2> QED
    BY <1>1, <2>1, CurrentRequest DEF CurrentInv
<1>2. CASE JobsAreKept /\ ReviewIsLeft
  <2>1. StateIsToCome => StateIsToCome'
    BY <1>2 DEF ReviewIsLeft, StateIsToCome, StateExists
  <2> QED
    BY <1>2, <2>1, ReviewedStaysAsked DEF ReviewIsLeft, CurrentInv
<1>3. CASE ResultIsTaken
  <2>1. session.state = "TURN_REVIEWED"
    BY <1>3, AppliedSession DEF ResultIsTaken
  <2> QED
    BY <1>3, <2>1, CurrentResult
<1>4. ASSUME NEW o \in Opponent, ConfirmTurnFacts(o), JobsAreKept
      PROVE  \A j \in Jobs' : UnderWay(j)' => ReviewedIsAsked(j)'
  BY <1>4, CurrentConfirmed DEF JobsAreKept
<1>5. CASE RecordState
  <2>1. /\ UNCHANGED <<match, session, jobs>> /\ ui.step = "state" /\ ui'.step = "idle"
    BY <1>5, RestTyped DEF RecordState
  <2>2. JobsAreKept
    BY <2>1 DEF JobsAreKept, SameRequest
  <2>3. CASE StateExists /\ UNCHANGED states
    <3>1. ~StateIsToCome
      BY <2>3 DEF StateIsToCome
    <3> QED
      BY <2>1, <2>2, <2>3, <3>1, ReviewedStaysAsked DEF CurrentInv
  <2>4. ASSUME AppendState, NEW j \in Jobs, UnderWay(j)'
        PROVE  ReviewedIsAsked(j)'
    <3>1. ReviewedIsAsked(j)
      BY <2>1, <2>4 DEF CurrentInv, UnderWay
    <3>2. jobs[j].lane = "RICH" => ~IsLatestState(jobs[j].snap)'
      <4> SUFFICES ASSUME jobs[j].lane = "RICH" PROVE ~IsLatestState(jobs[j].snap)'
        OBVIOUS
      <4>1. PICK i \in DOMAIN states : i = jobs[j].snap
        BY DEF SnapsExist, RowsOfLane
      <4>2. ~IsLatestState(i)'
        BY <1>5, <2>4, CurrentAdded
      <4> QED
        BY <2>1, <4>1, <4>2 DEF IsLatestState, NotNewer
    <3>3. (jobs[j].lane # "RICH" /\ jobs[j].snap = session.board) => AsksForNow(j)'
      BY <2>1, <3>1 DEF ReviewedIsAsked, AsksForNow
    <3> QED
      BY <2>1, <3>2, <3>3 DEF ReviewedIsAsked
  <2>5. Jobs' = Jobs
    BY <2>1
  <2> QED
    BY <1>5, <2>3, <2>4, <2>5 DEF RecordState
<1>6. CASE Restart
  <2>1. Jobs' = Jobs /\ \A j \in Jobs : jobs'[j].status = Recovered(jobs[j].status)
    BY <1>6, RestartRecovers
  <2> QED
    BY <2>1 DEF Recovered, Pending, UnderWay
<1> QED
  BY <1>1, <1>2, <1>3, <1>4, <1>5, <1>6, JobsKept, ReviewStep

LEMMA CurrentInvariant == Spec => [](JobOrder /\ CurrentInv)
<1>1. Init => SnapsExist /\ CurrentInv
  BY DEF Init, SnapsExist, CurrentInv
<1>2. HistoryInv => BoardIsNewest
  BY DEF HistoryInv
<1> QED
  BY <1>1, <1>2, HistoryInit, HistoryKept, SnapsKept, CurrentNext, TypedInvariant,
     JobOrderInvariant, PTL DEF Spec

(* What an answer that should be applied finds, and does.                  *)
LEMMA CurrentAnswerApplies ==
  ASSUME Typed, JobOrder, AppliedOnce, CurrentInv, Apply, ui.arg = "LEGAL",
         session.active, session.state = "TURN_REVIEWED", UnderWay(ui.job),
         IF jobs[ui.job].lane = "RICH"
           THEN IsLatestState(jobs[ui.job].snap) /\ RebuildsSame(ui.job)
           ELSE jobs[ui.job].snap = session.board
  PROVE  session'.advice # None /\ jobs'[ui.job].status = "SUCCEEDED"
<1> DEFINE j == ui.job
<1>1. j \in Jobs /\ ui.step = "apply" /\ ApplyResult(j, "LEGAL")
  BY DEF Apply, Typed, ControlOK
<1>2. ReviewedIsAsked(j) /\ ~StateIsToCome
  BY <1>1 DEF CurrentInv, StateIsToCome
<1>3. IsLatest(j)
  BY <1>1 DEF IsLatest, JobOrder, PendingIsLatest, UnderWay
<1>4. BindingHolds(j)
  BY <1>2, <1>3 DEF BindingHolds, ReviewedIsAsked, AsksForNow, UnderWay
<1>5. ~WasApplied(j)
  BY <1>1 DEF AppliedOnce, UnderWay, Pending
<1>6. RebuildsSame(j)
  BY DEF RebuildsSame
<1>7. DispositionOf(j, "LEGAL") = "APPLIED"
  BY <1>4, <1>5, <1>6 DEF DispositionOf
<1> DEFINE a == Len(advices) + 1
           q == [jobs[j] EXCEPT !.status = "SUCCEEDED"]
<1>8. /\ session' = [session EXCEPT !.advice = a, !.rev = session.rev + 1]
      /\ jobs' = [jobs EXCEPT ![j] = q]
  BY <1>1, <1>7, Zenon DEF ApplyResult
<1>9. a # None /\ q.status = "SUCCEEDED" /\ session'.advice = a
  BY <1>1, <1>8, JobsAreJobs, LenProperties DEF Typed, TypeOK, Session, Job
<1> HIDE DEF q
<1> QED
  BY <1>1, <1>8, <1>9

(* A legal answer for the board, or for the state and switches, that are   *)
(* still under review is applied, whatever was confirmed, refused,         *)
(* recorded or lost to a process stop before (_binding_failure_reason,     *)
(* _rich_binding_failure_reason).                                          *)
THEOREM CurrentAnswersAreApplied == Spec => CurrentAnswerIsApplied
<1> DEFINE Inv == Typed /\ JobOrder /\ CurrentInv /\ AppliedOnce
           Applied ==
             LET j == ui.job
                 Reviewed == IF jobs[j].lane = "RICH"
                             THEN IsLatestState(jobs[j].snap) /\ RebuildsSame(j)
                             ELSE jobs[j].snap = session.board
             IN (/\ ui.step = "apply" /\ ui'.step \in {"idle", "reject"} /\ ui.arg = "LEGAL"
                 /\ session.active /\ session.state = "TURN_REVIEWED"
                 /\ jobs[j].match = match /\ jobs[j].status \in Pending
                 /\ Reviewed)
                => (session'.advice # None /\ jobs'[j].status = "SUCCEEDED")
<1>1. Inv /\ [Next]_vars => [Applied]_vars
  <2> SUFFICES ASSUME Inv, Next,
                      ui.step = "apply", ui'.step \in {"idle", "reject"}, ui.arg = "LEGAL",
                      session.active, session.state = "TURN_REVIEWED",
                      jobs[ui.job].match = match, jobs[ui.job].status \in Pending,
                      IF jobs[ui.job].lane = "RICH"
                        THEN IsLatestState(jobs[ui.job].snap) /\ RebuildsSame(ui.job)
                        ELSE jobs[ui.job].snap = session.board
               PROVE  session'.advice # None /\ jobs'[ui.job].status = "SUCCEEDED"
    OBVIOUS
  <2>1. ui' # ui
    OBVIOUS
  <2>2. Apply
    <3>1. ~Command
      BY DEF Command, BeginBattle, AbortMatch, StartTurnCapture, ConfirmTurnFacts,
             RejectTurnFacts, HandleEntry, RequestMock, RequestLegacy, ConfirmSwitches,
             RequestRich, RecordAction, NextTurn, Redeliver
    <3>2. ~Callback /\ ~(\E l \in Remote : WorkerStep(l))
      BY <2>1 DEF Callback, ReleaseDispatch, HandleSucceeded, HandleFailed, TakeAnswer,
                  WorkerStep, WorkerAnswer
    <3>3. ~Crash /\ ~Restart
      BY RestTyped DEF Crash, Restart, Idle
    <3> QED
      BY <3>1, <3>2, <3>3 DEF Next, UiStep, RecordState, Dispatch, FailJob
  <2> QED
    BY <2>2, CurrentAnswerApplies DEF UnderWay
<1>2. Spec => []Inv
  BY CurrentInvariant, TypedInvariant, AnswersCount, PTL
<1> QED
  BY <1>1, <1>2, PTL DEF Spec, CurrentAnswerIsApplied

---------------------------------------------------------------------------
(* The contract of a turn.                                                 *)

(* The note of a board stays while the row of the match and its states do. *)
LEMMA NoteStays ==
  ASSUME UNCHANGED <<match, session, states, switches>>
  PROVE  NoteOfBoard' = NoteOfBoard
BY DEF NoteOfBoard, IsCurrent, IsLatestState, NotNewer

(* It is gone once the revision moves or another match begins.             *)
LEMMA NoteGone ==
  ASSUME Typed, HistoryInv, states' = states,
         \/ match' = match + 1
         \/ match' = match /\ session'.rev = session.rev + 1
  PROVE  NoteOfBoard' = {}
<1>1. /\ match \in Nat /\ session.rev \in Nat
      /\ \A i \in DOMAIN states : states[i].match \in Nat /\ states[i].rev \in Nat
  BY HistoryTypes
<1>2. \A i \in DOMAIN states : states[i].match <= match
  BY DEF HistoryInv, RowsAreOfTurns, RowsUpTo
<1>3. \A i \in DOMAIN states : states[i].match = match => states[i].rev <= session.rev
  BY DEF HistoryInv, StatesAreOrdered
<1>4. \A i \in DOMAIN states : ~IsCurrent(i)'
  BY <1>1, <1>2, <1>3 DEF IsCurrent, IsLatestState
<1> QED
  BY <1>4 DEF NoteOfBoard

(* There is one at most.                                                   *)
LEMMA OneNote ==
  ASSUME Typed, HistoryInv, NEW i \in DOMAIN states, IsCurrent(i)
  PROVE  NoteOfBoard = {<<i, switches[i]>>}
<1>1. DOMAIN states \subseteq Nat /\ session.rev \in Nat
  BY HistoryTypes
<1>2. ASSUME NEW k \in DOMAIN states, IsCurrent(k)
      PROVE  k = i
  <2>1. /\ states[k].match = states[i].match
        /\ states[k].rev = session.rev /\ states[i].rev = session.rev
    BY <1>2 DEF IsCurrent, IsLatestState
  <2>2. ~(k < i) /\ ~(i < k)
    BY <1>1, <2>1 DEF HistoryInv, StatesAreOrdered
  <2> QED
    BY <1>1, <2>2
<1> QED
  BY <1>2 DEF NoteOfBoard

(* The confirmation of the switches changes it.                            *)
LEMMA ConfirmedSwitchesChoose ==
  ASSUME Typed, HistoryInv, NEW i \in DOMAIN states, NEW choice \in SwitchSet \ {0},
         ConfirmSwitches(i, choice)
  PROVE  Contract!Choose(choice)
<1>1. /\ session.active /\ session.state = "TURN_REVIEWED" /\ IsCurrent(i)
      /\ switches' = [switches EXCEPT ![i] = choice]
      /\ UNCHANGED <<match, session, facts, states, completions, jobs, advices>>
  BY DEF ConfirmSwitches
<1>2. i \in DOMAIN switches
  BY LenProperties DEF Typed, TypeOK
<1>3. switches'[i] = choice
  BY <1>1, <1>2
<1>4. NoteOfBoard = {<<i, switches[i]>>}
  BY <1>1, OneNote
<1>5. \A k \in DOMAIN states : IsCurrent(k)' <=> k = i
  <2>1. \A k \in DOMAIN states : IsCurrent(k)' <=> IsCurrent(k)
    BY <1>1 DEF IsCurrent, IsLatestState, NotNewer
  <2>2. \A k \in DOMAIN states : IsCurrent(k) => <<k, switches[k]>> \in NoteOfBoard
    BY DEF NoteOfBoard
  <2> QED
    BY <1>1, <1>4, <2>1, <2>2
<1>6. NoteOfBoard' = {<<i, choice>>}
  BY <1>1, <1>3, <1>5 DEF NoteOfBoard
<1>7. \E x \in NoteOfBoard : NoteOfBoard' = {<<x[1], choice>>}
  <2>1. <<i, switches[i]>>[1] = i
    OBVIOUS
  <2> QED
    BY <1>4, <1>6, <2>1
<1>8. UNCHANGED <<AdviceShown, QuestionsAsked, TurnsPlayed>>
  BY <1>1 DEF AdviceShown, QuestionsAsked, TurnsPlayed
<1> QED
  BY <1>1, <1>7, <1>8
     DEF Contract!Choose, Contract!Reviewing, Contract!table, Contract!written

(* The second transaction of a confirmation writes one down.               *)
LEMMA StateIsWrittenDown ==
  ASSUME Typed, HistoryInv, RecordState, AppendState
  PROVE  Contract!WriteDown
<1>0. PICK n : n = Len(states) + 1
  OBVIOUS
<1>1. /\ n \in Nat
      /\ DOMAIN states' = DOMAIN states \cup {n}
      /\ \A i \in DOMAIN states : states'[i] = states[i]
      /\ states'[n].match = match /\ states'[n].turn = session.turn
      /\ states'[n].rev = session.rev
  BY <1>0, AppendedState
<1>2. ui.step = "state" /\ UNCHANGED <<match, session, facts, completions, jobs, advices>>
  BY DEF RecordState
<1>3. session.state = "TURN_REVIEWED" /\ session.active
  BY <1>2 DEF HistoryInv, SessionShape
<1>4. /\ states \in Seq(State) /\ switches \in Seq(SwitchSet) /\ Len(switches) = Len(states)
      /\ 0 \in SwitchSet
  BY DEF Typed, TypeOK, SwitchSet
<1>5. DOMAIN states = DOMAIN switches /\ Len(states') = n
  <2>1. Len(states') = n
    BY <1>0, <1>4, AppendProperties DEF AppendState
  <2> QED
    BY <1>4, <2>1, LenProperties
<1>6. switches'[n] = 0
  <2>1. switches' = Append(switches, 0)
    BY DEF AppendState
  <2> QED
    BY <1>0, <1>4, <2>1, AppendIsSeq
<1>7. \A i \in DOMAIN states : ~(IsCurrent(i)) /\ ~(IsCurrent(i)')
  <2>1. \A i \in DOMAIN states : states[i].match = match =>
          ~(states[i].turn = session.turn /\ states[i].rev = session.rev)
    BY DEF AppendState, StateExists
  <2> QED
    BY <1>1, <1>2, <2>1 DEF IsCurrent, IsLatestState
<1>8. IsCurrent(n)'
  <2>1. \A i \in DOMAIN states : states[i].match = match => states[i].turn \in 1..session.turn
    BY DEF HistoryInv, RowsAreOfTurns, RowsUpTo
  <2>2. \A i \in DOMAIN states : states[i].match = match => states[i].rev <= session.rev
    BY DEF HistoryInv, StatesAreOrdered
  <2>3. /\ session.turn \in Nat /\ session.rev \in Nat
        /\ \A i \in DOMAIN states : states[i].turn \in Nat /\ states[i].rev \in Nat
    BY HistoryTypes
  <2>4. \A i \in DOMAIN states' : states'[i].match = match => NotNewer(i, n)'
    BY <1>1, <2>1, <2>2, <2>3 DEF NotNewer
  <2> QED
    BY <1>1, <1>2, <2>4 DEF IsCurrent, IsLatestState
<1>9. NoteOfBoard = {} /\ NoteOfBoard' = {<<n, 0>>}
  <2>1. NoteOfBoard = {}
    BY <1>7 DEF NoteOfBoard
  <2>2. \A i \in DOMAIN states' : IsCurrent(i)' <=> i = n
    BY <1>1, <1>7, <1>8
  <2>3. NoteOfBoard' = {<<i, switches'[i]>> : i \in {k \in DOMAIN states' : IsCurrent(k)'}}
    BY DEF NoteOfBoard
  <2>4. {k \in DOMAIN states' : IsCurrent(k)'} = {n}
    BY <1>1, <2>2
  <2> QED
    BY <1>6, <2>1, <2>3, <2>4
<1>10. UNCHANGED <<AdviceShown, QuestionsAsked, TurnsPlayed>>
  BY <1>2 DEF AdviceShown, QuestionsAsked, TurnsPlayed
<1> QED
  BY <1>0, <1>2, <1>3, <1>5, <1>9, <1>10
     DEF Contract!WriteDown, Contract!Reviewing, Contract!table

(* The row of the match: it begins, it is aborted, its turns follow one    *)
(* another.                                                                *)
LEMMA BattleBegins ==
  ASSUME Typed, HistoryInv, BeginBattle
  PROVE  Contract!Begin
<1>1. /\ match' = match + 1 /\ session'.active = TRUE /\ session'.state = "BATTLE_READY"
      /\ session'.turn = 0 /\ session'.board = 0 /\ session'.advice = 0 /\ ~session.active
      /\ UNCHANGED <<facts, states, completions, jobs>>
  BY DEF BeginBattle
<1>2. NoteOfBoard' = {}
  BY <1>1, NoteGone
<1>3. AdviceShown' = 0 /\ UNCHANGED <<QuestionsAsked, TurnsPlayed>>
  BY <1>1 DEF AdviceShown, QuestionsAsked, TurnsPlayed
<1> QED
  BY <1>1, <1>2, <1>3 DEF Contract!Begin, Contract!Clear, Contract!written

LEMMA AbortGivesUp ==
  ASSUME Typed, HistoryInv, AbortMatch
  PROVE  Contract!GiveUp
<1>1. UNCHANGED <<match, facts, states, completions, jobs, advices>>
  BY DEF AbortMatch
<1>2. session' = [session EXCEPT !.active = FALSE, !.state = "ABORTED", !.rev = session.rev + 1]
  BY Zenon DEF AbortMatch
<1>3. session'.active = FALSE
  BY <1>2 DEF Typed, TypeOK, Session
<1>4. /\ session.active /\ session'.state = "ABORTED" /\ session'.turn = session.turn
      /\ session'.board = session.board /\ session'.advice = session.advice
      /\ session'.rev = session.rev + 1
  BY AbortedSession
<1>5. NoteOfBoard' = {}
  BY <1>1, <1>4, NoteGone
<1>6. UNCHANGED <<AdviceShown, QuestionsAsked, TurnsPlayed>>
  BY <1>1, <1>4 DEF AdviceShown, QuestionsAsked, TurnsPlayed
<1> QED
  BY <1>1, <1>3, <1>4, <1>5, <1>6 DEF Contract!GiveUp, Contract!written

LEMMA PendingTurnEnters ==
  ASSUME Typed, HistoryInv, NEW n \in Nat, PendingTurn(n), session.active,
         UNCHANGED <<match, facts, states, completions, jobs>>
  PROVE  Contract!Enter(n)
<1>1. /\ session'.active = session.active /\ session'.state = "TURN_CAPTURE_PENDING"
      /\ session'.turn = n /\ session'.board = 0 /\ session'.advice = 0
      /\ session'.rev = session.rev + 1
  BY PendingTurnSession
<1>2. NoteOfBoard' = {}
  BY <1>1, NoteGone
<1>3. AdviceShown' = 0 /\ UNCHANGED <<QuestionsAsked, TurnsPlayed>>
  BY <1>1 DEF AdviceShown, QuestionsAsked, TurnsPlayed
<1> QED
  BY <1>1, <1>2, <1>3 DEF Contract!Enter, Contract!Clear, Contract!written

LEMMA CaptureEntersFirst ==
  ASSUME Typed, HistoryInv, StartTurnCapture
  PROVE  Contract!FirstTurn
<1>1. /\ PendingTurn(1) /\ session.active /\ session.state = "BATTLE_READY" /\ session.turn = 0
      /\ UNCHANGED <<match, facts, states, completions, jobs>>
  BY DEF StartTurnCapture
<1>2. Contract!Enter(1)
  BY <1>1, PendingTurnEnters
<1> QED
  BY <1>1, <1>2 DEF Contract!FirstTurn

(* The result the next turn follows is one of the turn that is left.       *)
LEMMA NextTurnEntersNext ==
  ASSUME Typed, HistoryInv, NEW i \in DOMAIN states, NEW c \in DOMAIN completions, NextTurn(i, c)
  PROVE  Contract!NextTurn
<1>1. /\ PendingTurn(session.turn + 1) /\ session.active /\ session.state = "TURN_RECORDED"
      /\ IsLatestState(i) /\ states[i].turn = session.turn /\ completions[c].state = i
      /\ UNCHANGED <<match, facts, states, completions, jobs>>
  BY DEF NextTurn, MayAdvance
<1>2. Contract!Enter(session.turn + 1)
  <2>1. session.turn + 1 \in Nat
    BY AddedDraft
  <2> QED
    BY <1>1, <2>1, PendingTurnEnters
<1>3. completions[c].match = match /\ completions[c].turn = session.turn
  BY <1>1 DEF HistoryInv, ResultsAreOfStates, IsOf, IsLatestState
<1>4. TurnsPlayed[c].match = match /\ TurnsPlayed[c].turn = session.turn /\ c \in DOMAIN TurnsPlayed
  BY <1>3 DEF TurnsPlayed, TurnOf
<1> QED
  BY <1>1, <1>2, <1>4 DEF Contract!NextTurn, Contract!IsPlayed

(* A function over the rows of a table, when a row is added.               *)
LEMMA RowAdded ==
  ASSUME NEW n \in Nat, NEW f, NEW g, NEW e,
         f = [i \in 1..n |-> f[i]], g = [i \in 1..(n + 1) |-> g[i]],
         \A i \in 1..n : g[i] = f[i], g[n + 1] = e
  PROVE  g = Append(f, e)
<1> DEFINE S == {f[i] : i \in 1..n} \cup {e}
<1>1. f \in [1..n -> S] /\ e \in S
  OBVIOUS
<1> HIDE DEF S
<1>2. f \in Seq(S)
  BY <1>1, SeqDef, Zenon
<1>3. Len(f) = n /\ DOMAIN f = 1..n
  BY <1>1, <1>2, LenProperties
<1>4. /\ DOMAIN Append(f, e) = 1..(n + 1) /\ Append(f, e)[n + 1] = e
      /\ \A i \in 1..n : Append(f, e)[i] = f[i]
  BY <1>1, <1>2, <1>3, AppendProperties, LenProperties
<1>5. Append(f, e) = [i \in 1..(n + 1) |-> Append(f, e)[i]]
  <2>1. Append(f, e) \in [1..(n + 1) -> S]
    <3>1. Append(f, e) \in Seq(S) /\ Len(Append(f, e)) = n + 1
      BY <1>1, <1>2, <1>3, AppendProperties
    <3> QED
      BY <3>1, LenProperties
  <2> QED
    BY <2>1
<1>6. \A i \in 1..(n + 1) : Append(f, e)[i] = g[i]
  <2>1. \A i \in 1..(n + 1) : i = n + 1 \/ i \in 1..n
    OBVIOUS
  <2> QED
    BY <1>4, <2>1
<1> QED
  BY <1>5, <1>6

(* Advice that is shown is a row, and of a job.                            *)
AdviceIsThere ==
  session.advice # None =>
    session.advice \in DOMAIN advices /\ advices[session.advice].job \in Jobs

LEMMA AdviceStaysThere ==
  ASSUME Typed, AdviceIsThere, [Next]_vars
  PROVE  AdviceIsThere'
<1>1. Jobs \subseteq Jobs'
  BY JobsKept, RequestsAreRequested, RequestedAddsJob DEF JobsAreKept
<1>2. CASE session'.advice = None
  BY <1>2 DEF AdviceIsThere
<1>3. CASE session'.advice = session.advice /\ advices' = advices
  BY <1>1, <1>3 DEF AdviceIsThere
<1>4. ASSUME NEW j \in Jobs, NEW p, ApplyResult(j, p)
      PROVE  AdviceIsThere'
  <2> DEFINE d == DispositionOf(j, p)
             row == [match |-> match, turn |-> session.turn, job |-> j]
             a == Len(advices) + 1
  <2>1. CASE d = "APPLIED"
    <3>1. /\ advices' = Append(advices, row)
          /\ session' = [session EXCEPT !.advice = a, !.rev = session.rev + 1]
      BY <1>4, <2>1, Zenon DEF ApplyResult
    <3>2. row \in Advice /\ row.job = j
      BY JobsAreJobs DEF Typed, TypeOK, Session, Advice
    <3>3. advices \in Seq(Advice) /\ session'.advice = a
      BY <3>1 DEF Typed, TypeOK, Session
    <3> HIDE DEF row
    <3>4. a \in DOMAIN advices' /\ advices'[a] = row
      BY <3>1, <3>2, <3>3, AppendIsSeq
    <3> QED
      BY <1>1, <3>2, <3>3, <3>4 DEF AdviceIsThere
  <2>2. CASE d # "APPLIED"
    <3>1. UNCHANGED <<session, advices>>
      BY <1>4, <2>2 DEF ApplyResult
    <3> QED
      BY <1>3, <3>1
  <2> QED
    BY <2>1, <2>2
<1>5. CASE HistoryIsLeft
  BY <1>3, <1>4, <1>5 DEF HistoryIsLeft
<1>6. CASE AbortMatch
  <2>1. advices' = advices
    BY <1>6 DEF AbortMatch
  <2> QED
    BY <1>3, <1>6, <2>1, AbortedSession
<1>7. CASE RecordState /\ AppendState
  BY <1>3, <1>7 DEF RecordState
<1>8. CASE BeginBattle \/ StartTurnCapture
  BY <1>2, <1>8, BegunSession, CaptureSession
<1>9. ASSUME NEW i \in DOMAIN states, RecordAction(i)
      PROVE  AdviceIsThere'
  BY <1>3, <1>9, RecordedSession
<1>10. ASSUME NEW o \in Opponent, ConfirmTurnFacts(o)
       PROVE  AdviceIsThere'
  BY <1>2, <1>10, ConfirmedSession
<1>11. ASSUME NEW i \in DOMAIN states, NEW c \in DOMAIN completions, NextTurn(i, c)
       PROVE  AdviceIsThere'
  BY <1>2, <1>11, AddedDraft
<1> QED
  BY <1>5, <1>6, <1>7, <1>8, <1>9, <1>10, <1>11, HistoryStep

(* What was played is recorded once.                                       *)
LEMMA ActionIsRecorded ==
  ASSUME Typed, HistoryInv, AdviceIsThere, NEW i \in DOMAIN states, RecordAction(i)
  PROVE  Contract!Record
<1> DEFINE row == [match |-> match, turn |-> session.turn, board |-> session.board, state |-> i]
           card == [match |-> match, turn |-> session.turn, board |-> session.board]
<1>1. /\ session.active /\ session.state = "TURN_REVIEWED"
      /\ session.board # 0 /\ session.advice # 0
      /\ \A c \in DOMAIN completions :
           ~(completions[c].match = match /\ completions[c].turn = session.turn)
      /\ completions' = Append(completions, row)
      /\ UNCHANGED <<match, facts, states, jobs, advices>>
  BY DEF RecordAction
<1>2. /\ session'.active = session.active /\ session'.rev = session.rev + 1
      /\ session'.advice = session.advice
  BY RecordedSession
<1>3. /\ session'.state = "TURN_RECORDED" /\ session'.turn = session.turn
      /\ session'.board = session.board
  BY RecordedAction
<1>4. NoteOfBoard' = {}
  BY <1>1, <1>2, NoteGone
<1>5. ~Contract!IsPlayed
  BY <1>1 DEF Contract!IsPlayed, TurnsPlayed, TurnOf
<1>6. TurnsPlayed' = Append(TurnsPlayed, card)
  <2>1. PICK n : n = Len(completions)
    OBVIOUS
  <2>2. completions \in Seq(Completion) /\ n \in Nat /\ DOMAIN completions = 1..n
    BY <2>1, LenProperties DEF Typed, TypeOK
  <2>3. TurnOf(row) = card
    BY DEF TurnOf
  <2> HIDE DEF row, card
  <2>4. /\ DOMAIN completions' = 1..(n + 1) /\ completions'[n + 1] = row
        /\ \A c \in 1..n : completions'[c] = completions[c]
    BY <1>1, <2>1, <2>2, AppendProperties, LenProperties
  <2>5. TurnsPlayed = [c \in 1..n |-> TurnOf(completions[c])]
    BY <2>2 DEF TurnsPlayed
  <2>6. TurnsPlayed' = [c \in 1..(n + 1) |-> TurnOf(completions'[c])]
    BY <2>4 DEF TurnsPlayed
  <2>7. \A c \in 1..n : TurnsPlayed'[c] = TurnsPlayed[c]
    <3>1. \A c \in 1..n : c \in 1..(n + 1)
      BY <2>2
    <3> QED
      BY <2>4, <2>5, <2>6, <3>1
  <2>8. TurnsPlayed'[n + 1] = card
    <3>1. n + 1 \in 1..(n + 1)
      BY <2>2
    <3> QED
      BY <2>3, <2>4, <2>6, <3>1
  <2>9. /\ TurnsPlayed = [c \in 1..n |-> TurnsPlayed[c]]
        /\ TurnsPlayed' = [c \in 1..(n + 1) |-> TurnsPlayed'[c]]
    BY <2>5, <2>6, Zenon
  <2> QED
    BY <2>2, <2>7, <2>8, <2>9, RowAdded
<1>7. AdviceShown # 0 /\ UNCHANGED <<AdviceShown, QuestionsAsked>>
  <2>1. AdviceShown # 0
    BY <1>1, JobsAreJobs DEF AdviceIsThere, AdviceShown
  <2> QED
    BY <1>1, <1>2, <2>1 DEF AdviceShown, QuestionsAsked
<1> HIDE DEF row
<1> QED
  BY <1>1, <1>2, <1>3, <1>4, <1>5, <1>6, <1>7
     DEF Contract!Record, Contract!Reviewing, Contract!written

(* A job that moves on is the same question with another fate.             *)
LEMMA MovedQuestion ==
  ASSUME NEW r \in Job, NEW s \in Job, SameRequest(s, r)
  PROVE  QuestionOf(s) = [QuestionOf(r) EXCEPT !.fate = FateOf(s.status)]
<1> DEFINE fate == FateOf(s.status)
           rich == r.lane = "RICH"
<1>1. (s.lane = "RICH") = rich
  BY DEF SameRequest
<1> HIDE DEF fate, rich
<1>2. QuestionOf(s) = [match |-> r.match, turn |-> r.turn, rich |-> rich, snap |-> r.snap,
                       switches |-> r.switches, fate |-> fate]
  BY <1>1, Zenon DEF SameRequest, QuestionOf, fate
<1>3. PICK old : old = FateOf(r.status)
  OBVIOUS
<1>4. QuestionOf(r) = [match |-> r.match, turn |-> r.turn, rich |-> rich, snap |-> r.snap,
                       switches |-> r.switches, fate |-> old]
  BY <1>3, Zenon DEF QuestionOf, rich
<1> QED
  BY <1>2, <1>4 DEF fate

(* So a job that is settled settles its question and no other.             *)
LEMMA SettledQuestion ==
  ASSUME Typed, NEW j \in Jobs, NEW r \in Job, SameRequest(r, jobs[j]),
         jobs' = [jobs EXCEPT ![j] = r]
  PROVE  QuestionsAsked' = [QuestionsAsked EXCEPT ![j].fate = FateOf(r.status)]
<1>1. Jobs' = Jobs /\ \A k \in Jobs : jobs'[k] = IF k = j THEN r ELSE jobs[k]
  BY JobsAreJobs
<1>2. QuestionOf(r) = [QuestionOf(jobs[j]) EXCEPT !.fate = FateOf(r.status)]
  BY JobsAreJobs, MovedQuestion
<1>3. QuestionsAsked' = [QuestionsAsked EXCEPT ![j] = QuestionOf(r)]
  BY <1>1, Zenon DEF QuestionsAsked
<1>4. QuestionsAsked[j] = QuestionOf(jobs[j])
  BY DEF QuestionsAsked
<1> QED
  BY <1>2, <1>3, <1>4, Zenon

(* Fates. *)
LEMMA Fates ==
  /\ \A s \in Pending : FateOf(s) = "out"
  /\ \A s \in JobStatus : FateOf(s) = "out" => s \in Pending
  /\ \A s \in JobStatus : FateOf(s) = "lost" <=> s = "DELIVERY_UNKNOWN"
  /\ FateOf("SUCCEEDED") = "counted"
  /\ \A s \in {"FAILED", "TIMED_OUT", "CANCELLED", "INTERRUPTED"} : FateOf(s) = "void"
BY DEF FateOf, Pending, JobStatus, Terminal

LEMMA QuestionIsOut ==
  ASSUME Typed, NEW j \in Jobs
  PROVE  /\ QuestionsAsked[j].fate = "out" <=> jobs[j].status \in Pending
         /\ QuestionsAsked[j].fate = "lost" <=> jobs[j].status = "DELIVERY_UNKNOWN"
         /\ QuestionsAsked[j].match = jobs[j].match /\ QuestionsAsked[j].turn = jobs[j].turn
         /\ QuestionsAsked[j].snap = jobs[j].snap
         /\ QuestionsAsked[j].switches = jobs[j].switches
         /\ QuestionsAsked[j].rich = (jobs[j].lane = "RICH")
<1>1. jobs[j].status \in JobStatus
  BY JobsAreJobs DEF Job
<1>2. QuestionsAsked[j] = QuestionOf(jobs[j])
  BY DEF QuestionsAsked
<1>3. QuestionsAsked[j].rich = (jobs[j].lane = "RICH")
  <2> DEFINE job == jobs[j]
             rich == job.lane = "RICH"
  <2>1. QuestionsAsked[j] = [match |-> job.match, turn |-> job.turn, rich |-> rich,
          snap |-> job.snap, switches |-> job.switches, fate |-> FateOf(job.status)]
    BY <1>2, Zenon DEF QuestionOf
  <2> HIDE DEF job, rich
  <2>2. QuestionsAsked[j].rich = rich
    BY <2>1
  <2> QED
    BY <2>2, Zenon DEF job, rich
<1>4. /\ QuestionsAsked[j].fate = FateOf(jobs[j].status)
      /\ QuestionsAsked[j].match = jobs[j].match /\ QuestionsAsked[j].turn = jobs[j].turn
      /\ QuestionsAsked[j].snap = jobs[j].snap
      /\ QuestionsAsked[j].switches = jobs[j].switches
  BY <1>2 DEF QuestionOf
<1> QED
  BY <1>1, <1>3, <1>4, Fates, Zenon

(* A new board withdraws what is out about the one it replaces.            *)
LEMMA CancelledIsWithdrawn ==
  ASSUME Typed, JobOrder, CancelPending
  PROVE  QuestionsAsked' = Contract!Withdrawn
<1>1. Jobs' = Jobs /\ \A j \in Jobs : jobs'[j] = Cancelled(j)
  BY CancelKeepsJobs
<1>2. \A j \in Jobs : (IsLatest(j) /\ jobs[j].status \in Pending) <=>
                      (jobs[j].match = match /\ jobs[j].status \in Pending)
  BY DEF IsLatest, JobOrder, PendingIsLatest
<1>3. ASSUME NEW j \in Jobs, jobs[j].match = match, jobs[j].status \in Pending
      PROVE  QuestionOf(jobs'[j]) = [QuestionsAsked[j] EXCEPT !.fate = "void"]
  <2> DEFINE r == [jobs[j] EXCEPT !.status = "CANCELLED"]
  <2>1. "CANCELLED" \in JobStatus /\ jobs[j] \in Job
    BY JobsAreJobs DEF JobStatus, Terminal
  <2>2. r \in Job /\ SameRequest(r, jobs[j]) /\ r.status = "CANCELLED"
    BY <2>1, JobUpdates
  <2>3. jobs'[j] = r
    BY <1>1, <1>2, <1>3, Zenon DEF Cancelled
  <2> HIDE DEF r
  <2>4. QuestionOf(r) = [QuestionOf(jobs[j]) EXCEPT !.fate = FateOf(r.status)]
    BY <2>1, <2>2, MovedQuestion
  <2>5. QuestionsAsked[j] = QuestionOf(jobs[j]) /\ FateOf(r.status) = "void"
    BY <2>2, Fates DEF QuestionsAsked
  <2> QED
    BY <2>3, <2>4, <2>5, Zenon
<1>4. ASSUME NEW j \in Jobs, ~(jobs[j].match = match /\ jobs[j].status \in Pending)
      PROVE  QuestionOf(jobs'[j]) = QuestionsAsked[j]
  <2>1. jobs'[j] = jobs[j]
    BY <1>1, <1>2, <1>4 DEF Cancelled
  <2> QED
    BY <2>1 DEF QuestionsAsked
<1>5. DOMAIN QuestionsAsked = Jobs
  BY DEF QuestionsAsked
<1>6. \A j \in Jobs : (Contract!OfMatch(j) /\ Contract!Out(j)) <=>
                      (jobs[j].match = match /\ jobs[j].status \in Pending)
  BY QuestionIsOut DEF Contract!OfMatch, Contract!Out
<1>7. \A j \in Jobs : QuestionOf(jobs'[j]) =
        IF Contract!OfMatch(j) /\ Contract!Out(j)
        THEN [QuestionsAsked[j] EXCEPT !.fate = "void"] ELSE QuestionsAsked[j]
  BY <1>3, <1>4, <1>6, Zenon
<1>8. QuestionsAsked' = [j \in Jobs |-> QuestionOf(jobs'[j])]
  BY <1>1, Zenon DEF QuestionsAsked
<1> QED
  BY <1>5, <1>7, <1>8, Zenon DEF Contract!Withdrawn, Contract!Questions

(* The first transaction of a confirmation confirms.                       *)
LEMMA FactsAreConfirmed ==
  ASSUME Typed, HistoryInv, JobOrder, NEW o \in Opponent, ConfirmTurnFacts(o)
  PROVE  Contract!Confirm
<1>1. /\ session'.active = session.active /\ session'.turn = session.turn
      /\ session'.advice = None /\ session'.rev = session.rev + 1
      /\ session.active /\ session.state \in {"TURN_CAPTURE_PENDING", "TURN_REVIEWED"}
      /\ UNCHANGED <<match, states, completions, advices>>
  BY ConfirmedSession
<1>2. session'.state = "TURN_REVIEWED" /\ session'.board = Len(facts) + 1
  BY ConfirmedBoard
<1>3. Len(facts') = Len(facts) + 1
  BY AppendProperties DEF ConfirmTurnFacts, Typed, TypeOK
<1>4. NoteOfBoard' = {}
  BY <1>1, NoteGone
<1>5. AdviceShown' = 0 /\ UNCHANGED TurnsPlayed
  BY <1>1 DEF AdviceShown, TurnsPlayed
<1>6. session.board = 0 => QuestionsAsked' = QuestionsAsked
  BY DEF ConfirmTurnFacts, QuestionsAsked
<1>7. session.board # 0 => QuestionsAsked' = Contract!Withdrawn
  BY CancelledIsWithdrawn DEF ConfirmTurnFacts
<1> QED
  BY <1>1, <1>2, <1>3, <1>4, <1>5, <1>6, <1>7 DEF Contract!Confirm

(* Asking: the new job is one more question, the guards of the lanes are   *)
(* those of the contract.                                                  *)
LEMMA RequestedAsks ==
  ASSUME Typed, JobOrder, LedgerMatchesJobs, NEW lane, NEW snap, NEW choice,
         Requested(lane, snap, choice), NEW rich \in BOOLEAN, rich = (lane = "RICH"),
         session.active, session.state = "TURN_REVIEWED",
         UNCHANGED <<battle, record, advices>>
  PROVE  Contract!Ask(rich, snap, choice)
<1> DEFINE card == [match |-> match, turn |-> session.turn, rich |-> rich, snap |-> snap,
                    switches |-> choice, fate |-> "out"]
           job == [match |-> match, turn |-> session.turn, rev |-> session.rev,
                   lane |-> lane, snap |-> snap, switches |-> choice,
                   status |-> "QUEUED", dispatches |-> 0]
<1>1. Jobs' = Jobs \cup {NewJob} /\ \A j \in Jobs : jobs'[j] = jobs[j]
  BY RequestedAddsJob
<1>2. PICK n : n = Len(jobs)
  OBVIOUS
<1>3. n \in Nat /\ Jobs = 1..n /\ jobs \in Seq(Job)
  BY <1>2, JobsAreJobs
<1>4. QuestionOf(job) = card
  <2>1. job.status \in Pending
    BY DEF Pending
  <2>2. FateOf(job.status) = "out"
    BY <2>1, Fates
  <2>3. QuestionOf(job) = [match |-> job.match, turn |-> job.turn, rich |-> job.lane = "RICH",
                           snap |-> job.snap, switches |-> job.switches, fate |-> "out"]
    BY <2>2, Zenon DEF QuestionOf
  <2>4. /\ job.match = match /\ job.turn = session.turn /\ job.lane = lane /\ job.snap = snap
        /\ job.switches = choice
    OBVIOUS
  <2> HIDE DEF job
  <2> QED
    BY <2>3, <2>4, Zenon
<1> HIDE DEF card
<1>5. jobs' = Append(jobs, job)
  BY Zenon DEF Requested, InsertJob
<1> HIDE DEF job
<1>6. Jobs' = 1..(n + 1) /\ jobs'[n + 1] = job
  BY <1>2, <1>3, <1>5, AppendProperties, LenProperties
<1>7. QuestionsAsked' = Append(QuestionsAsked, card)
  <2>1. QuestionsAsked = [j \in 1..n |-> QuestionOf(jobs[j])]
    BY <1>3, Zenon DEF QuestionsAsked
  <2>2. QuestionsAsked' = [j \in 1..(n + 1) |-> QuestionOf(jobs'[j])]
    BY <1>6, Zenon DEF QuestionsAsked
  <2>3. \A j \in 1..n : QuestionsAsked'[j] = QuestionsAsked[j]
    <3>1. \A j \in 1..n : j \in 1..(n + 1)
      BY <1>3
    <3> QED
      BY <1>1, <1>3, <2>1, <2>2, <3>1
  <2>4. QuestionsAsked'[n + 1] = card
    <3>1. n + 1 \in 1..(n + 1)
      BY <1>3
    <3> QED
      BY <1>4, <1>6, <2>2, <3>1
  <2>5. /\ QuestionsAsked = [j \in 1..n |-> QuestionsAsked[j]]
        /\ QuestionsAsked' = [j \in 1..(n + 1) |-> QuestionsAsked'[j]]
    BY <2>1, <2>2, Zenon
  <2> QED
    BY <1>3, <2>3, <2>4, <2>5, RowAdded
<1>8. DOMAIN QuestionsAsked = Jobs
  BY DEF QuestionsAsked
<1>9. \A q \in Jobs : Contract!OfMatch(q) => ~Contract!Out(q)
  <2> SUFFICES ASSUME NEW q \in Jobs, Contract!OfMatch(q), Contract!Out(q) PROVE FALSE
    OBVIOUS
  <2>1. jobs[q].match = match /\ jobs[q].status \in Pending
    BY QuestionIsOut DEF Contract!OfMatch, Contract!Out
  <2>2. IsLatest(q)
    BY <2>1 DEF IsLatest, JobOrder, PendingIsLatest
  <2> QED
    BY <2>1, <2>2 DEF Requested
<1>10. \A q \in Jobs : ~(/\ Contract!OfMatch(q) /\ QuestionsAsked[q].turn = session.turn
                         /\ QuestionsAsked[q].rich = rich /\ QuestionsAsked[q].snap = snap)
  <2> SUFFICES ASSUME NEW q \in Jobs, Contract!OfMatch(q),
                      QuestionsAsked[q].turn = session.turn,
                      QuestionsAsked[q].rich = rich, QuestionsAsked[q].snap = snap
               PROVE  FALSE
    OBVIOUS
  <2>1. /\ jobs[q].match = match /\ jobs[q].turn = session.turn /\ jobs[q].snap = snap
        /\ (jobs[q].lane = "RICH") = rich
    BY QuestionIsOut, Zenon DEF Contract!OfMatch
  <2>2. PICK r \in ledger : RowKey(r) = JobKey(jobs[q])
    BY DEF LedgerMatchesJobs
  <2>3. r.match = match /\ r.turn = session.turn /\ r.snap = snap /\ r.rich = rich
    BY <2>1, <2>2 DEF RowKey, JobKey
  <2>4. ~Reserved(rich, snap)
    BY Zenon DEF Requested, Reserve
  <2> QED
    BY <2>2, <2>3, <2>4 DEF Reserved
<1>11. UNCHANGED <<NoteOfBoard, AdviceShown, TurnsPlayed>>
  BY NoteStays DEF AdviceShown, TurnsPlayed
<1> QED
  BY <1>7, <1>8, <1>9, <1>10, <1>11
     DEF Contract!Ask, Contract!Reviewing, Contract!Questions, Contract!table, Contract!review,
         Contract!written, card

LEMMA FactsAreAskedAbout ==
  ASSUME Typed, JobOrder, LedgerMatchesJobs, RequestMock \/ RequestLegacy
  PROVE  Contract!AskOnBoard
<1>1. UNCHANGED <<battle, record, advices>>
  BY DEF RequestMock, RequestLegacy
<1>2. PICK lane \in {"MOCK", "LEGACY"} : RequestOnFacts(lane)
  BY DEF RequestMock, RequestLegacy
<1>3. /\ session.active /\ session.state = "TURN_REVIEWED"
      /\ session.board # 0 /\ session.advice = 0
      /\ \A j \in Jobs : IsLatest(j) => jobs[j].status \notin Blocking
      /\ Reserve(FALSE, session.board) /\ InsertJob(lane, session.board, 0)
  BY <1>2 DEF RequestOnFacts
<1>4. FALSE = (lane = "RICH") /\ lane \in Lane
  BY <1>2 DEF Lane, Remote
<1>5. Requested(lane, session.board, 0)
  <2>1. session.board \in Nat /\ 0 \in SwitchSet
    BY DEF Typed, TypeOK, Session, SwitchSet
  <2> QED
    BY <1>3, <1>4, <2>1 DEF Requested, Blocking
<1>6. Contract!Ask(FALSE, session.board, 0)
  BY <1>1, <1>3, <1>4, <1>5, RequestedAsks
<1>7. AdviceShown = 0
  BY <1>3 DEF AdviceShown
<1>8. \A q \in Contract!Questions : Contract!Newest(q) => QuestionsAsked[q].fate # "lost"
  <2>1. Contract!Questions = Jobs
    BY DEF Contract!Questions, QuestionsAsked
  <2>2. \A q \in Jobs : Contract!Newest(q) => IsLatest(q)
    BY <2>1, QuestionIsOut DEF Contract!Newest, Contract!OfMatch, IsLatest
  <2> QED
    BY <1>3, <2>1, <2>2, QuestionIsOut DEF Blocking
<1> QED
  BY <1>3, <1>6, <1>7, <1>8 DEF Contract!AskOnBoard

LEMMA NoteIsAskedAbout ==
  ASSUME Typed, HistoryInv, JobOrder, LedgerMatchesJobs, NEW i \in DOMAIN states, RequestRich(i)
  PROVE  Contract!AskOnNote
<1> DEFINE choice == switches[i]
<1>1. /\ session.active /\ session.state = "TURN_REVIEWED" /\ IsCurrent(i) /\ choice # 0
      /\ \A j \in Jobs : IsLatest(j) => jobs[j].status \notin Pending
      /\ Reserve(TRUE, i) /\ InsertJob("RICH", i, choice)
      /\ UNCHANGED <<battle, record, advices>>
  BY DEF RequestRich
<1>2. i \in Nat /\ choice \in SwitchSet /\ "RICH" \in Lane
  BY ElementOfSeq, LenProperties DEF Typed, TypeOK, Lane, Remote
<1>3. TRUE = ("RICH" = "RICH")
  OBVIOUS
<1>4. Requested("RICH", i, choice)
  BY <1>1, <1>2, <1>3 DEF Requested
<1>5. <<i, choice>> \in NoteOfBoard
  BY <1>1 DEF NoteOfBoard
<1> HIDE DEF choice
<1>6. Contract!Ask(TRUE, i, choice)
  BY <1>1, <1>3, <1>4, RequestedAsks
<1>7. \E x \in NoteOfBoard : x[2] \in SwitchSet \ {0} /\ Contract!Ask(TRUE, x[1], x[2])
  <2>1. <<i, choice>>[1] = i /\ <<i, choice>>[2] = choice
    OBVIOUS
  <2> QED
    BY <1>1, <1>2, <1>5, <1>6, <2>1, Zenon
<1> QED
  BY <1>7 DEF Contract!AskOnNote

(* A result that is applied answers; one that is found illegal ends its    *)
(* question; any other shows nothing.                                      *)
LEMMA ResultCounts ==
  ASSUME Typed, HistoryInv, NEW j \in Jobs, NEW p, ApplyResult(j, p),
         UNCHANGED <<match, record>>
  PROVE  \/ Contract!Answer(j) \/ Contract!Fizzle(j)
         \/ UNCHANGED <<match, session, NoteOfBoard, AdviceShown, QuestionsAsked>>
<1> DEFINE d == DispositionOf(j, p)
           a == Len(advices) + 1
           row == [match |-> match, turn |-> session.turn, job |-> j]
           x(s) == [jobs[j] EXCEPT !.status = s]
<1>1. jobs[j] \in Job /\ \A s \in {"SUCCEEDED", "FAILED"} : s \in JobStatus
  BY JobsAreJobs DEF JobStatus, Terminal
<1>2. \A s \in {"SUCCEEDED", "FAILED"} :
        x(s) \in Job /\ SameRequest(x(s), jobs[j]) /\ x(s).status = s
  BY <1>1, JobUpdates
<1>3. FateOf("SUCCEEDED") = "counted" /\ FateOf("FAILED") = "void"
  BY Fates
<1>4. ASSUME NEW s \in {"SUCCEEDED", "FAILED"}, jobs' = [jobs EXCEPT ![j].status = s]
      PROVE  QuestionsAsked' = [QuestionsAsked EXCEPT ![j].fate = FateOf(s)]
  <2>1. jobs' = [jobs EXCEPT ![j] = x(s)]
    BY <1>4, Zenon
  <2>2. x(s) \in Job /\ SameRequest(x(s), jobs[j]) /\ x(s).status = s
    BY <1>2
  <2> HIDE DEF x
  <2>3. QuestionsAsked' = [QuestionsAsked EXCEPT ![j].fate = FateOf(x(s).status)]
    BY <2>1, <2>2, SettledQuestion
  <2> QED
    BY <2>2, <2>3, Zenon
<1>5. d \in {"APPLIED", "INVALID_REJECTED"} =>
        BindingHolds(j) /\ (d = "APPLIED" => RebuildsSame(j))
  BY DEF DispositionOf
<1>6. BindingHolds(j) =>
        /\ session.active /\ session.state = "TURN_REVIEWED"
        /\ jobs[j].match = match /\ jobs[j].turn = session.turn
        /\ jobs[j].status \in Pending
        /\ IF jobs[j].lane = "RICH" THEN IsCurrent(jobs[j].snap) ELSE jobs[j].snap = session.board
  BY DEF BindingHolds, IsLatest
<1>7. BindingHolds(j) => Contract!Out(j)
  BY <1>6, QuestionIsOut DEF Contract!Out
<1>8. CASE d = "APPLIED"
  <2>1. /\ advices' = Append(advices, row)
        /\ session' = [session EXCEPT !.advice = a, !.rev = session.rev + 1]
        /\ jobs' = [jobs EXCEPT ![j].status = "SUCCEEDED"]
    BY <1>8, Zenon DEF ApplyResult
  <2>2. row \in Advice /\ row.job = j /\ advices \in Seq(Advice)
    BY JobsAreJobs DEF Typed, TypeOK, Session, Advice
  <2> HIDE DEF row
  <2>3. advices'[a].job = j /\ a # 0
    BY <2>1, <2>2, AppendIsSeq, LenProperties
  <2>4. session'.advice = a /\ session'.rev = session.rev + 1
    BY <2>1, <2>2, LenProperties DEF Typed, TypeOK, Session
  <2>5. /\ session'.active = session.active /\ session'.state = session.state
        /\ session'.turn = session.turn /\ session'.board = session.board
    BY AppliedSession
  <2>6. AdviceShown' = j
    BY <2>3, <2>4 DEF AdviceShown
  <2>7. NoteOfBoard' = {}
    BY <2>4, NoteGone
  <2>8. QuestionsAsked' = [QuestionsAsked EXCEPT ![j].fate = "counted"]
    BY <1>3, <1>4, <2>1, Zenon
  <2>9. Contract!IsUnderReview(j)
    <3>1. CASE jobs[j].lane = "RICH"
      <4>1. /\ IsCurrent(jobs[j].snap) /\ switches[jobs[j].snap] = jobs[j].switches
        BY <1>5, <1>6, <1>8, <3>1 DEF RebuildsSame
      <4>2. <<jobs[j].snap, jobs[j].switches>> \in NoteOfBoard
        BY <4>1 DEF NoteOfBoard, IsCurrent, IsLatestState
      <4>3. QuestionsAsked[j].rich
        BY <3>1, QuestionIsOut, Zenon
      <4> QED
        BY <1>5, <1>6, <1>8, <4>2, <4>3, QuestionIsOut
           DEF Contract!IsUnderReview, Contract!OfMatch
    <3>2. CASE jobs[j].lane # "RICH"
      <4>1. jobs[j].snap = session.board
        BY <1>5, <1>6, <1>8, <3>2
      <4>2. ~QuestionsAsked[j].rich
        BY <3>2, QuestionIsOut, Zenon
      <4> QED
        BY <1>5, <1>6, <1>8, <4>1, <4>2, QuestionIsOut
           DEF Contract!IsUnderReview, Contract!OfMatch
    <3> QED
      BY <3>1, <3>2
  <2>10. UNCHANGED <<facts, states, TurnsPlayed>>
    BY DEF TurnsPlayed
  <2> HIDE DEF a
  <2> QED
    BY <1>5, <1>6, <1>7, <1>8, <2>5, <2>6, <2>7, <2>8, <2>9, <2>10
       DEF Contract!Answer, Contract!Reviewing, Contract!Settled, Contract!table,
           Contract!written
<1>9. CASE d = "INVALID_REJECTED"
  <2>1. UNCHANGED <<session, advices>> /\ jobs' = [jobs EXCEPT ![j].status = "FAILED"]
    BY <1>9 DEF ApplyResult
  <2>2. QuestionsAsked' = [QuestionsAsked EXCEPT ![j].fate = "void"]
    BY <1>3, <1>4, <2>1, Zenon
  <2>3. UNCHANGED <<NoteOfBoard, AdviceShown, TurnsPlayed>>
    BY <2>1, NoteStays DEF AdviceShown, TurnsPlayed
  <2> QED
    BY <1>5, <1>7, <1>9, <2>1, <2>2, <2>3
       DEF Contract!Fizzle, Contract!Settled, Contract!table, Contract!review, Contract!written
<1>10. CASE d \notin {"APPLIED", "INVALID_REJECTED"}
  <2>1. UNCHANGED <<session, advices, jobs>>
    BY <1>10 DEF ApplyResult
  <2> QED
    BY <2>1, NoteStays DEF AdviceShown, QuestionsAsked
<1> QED
  BY <1>8, <1>9, <1>10

(* What the contract leaves alone.                                         *)
ShowsNothing ==
  UNCHANGED <<match, session, facts, states, NoteOfBoard, AdviceShown, QuestionsAsked, TurnsPlayed>>

LEMMA NothingShows ==
  ASSUME UNCHANGED <<match, session, facts, states, switches, completions, advices>>,
         QuestionsAsked' = QuestionsAsked
  PROVE  ShowsNothing
BY NoteStays DEF ShowsNothing, AdviceShown, TurnsPlayed

(* A dispatch shows nothing: the question is out before and after it.      *)
LEMMA DispatchIsNotShown ==
  ASSUME Typed, Dispatch
  PROVE  ShowsNothing
<1> DEFINE j == ui.job
           r == [jobs[j] EXCEPT !.status = "IN_FLIGHT", !.dispatches = @ + 1]
<1>1. j \in Jobs /\ jobs[j] \in Job /\ jobs[j].status = "QUEUED"
  BY JobsAreJobs DEF Dispatch, Typed, ControlOK
<1>2. r \in Job /\ SameRequest(r, jobs[j]) /\ r.status = "IN_FLIGHT"
  BY <1>1, JobUpdates
<1>3. jobs' = [jobs EXCEPT ![j] = r]
  BY Zenon DEF Dispatch
<1>4. UNCHANGED <<match, session, facts, states, switches, completions, advices>>
  BY DEF Dispatch
<1> HIDE DEF r
<1>5. QuestionsAsked' = [QuestionsAsked EXCEPT ![j].fate = FateOf(r.status)]
  BY <1>1, <1>2, <1>3, SettledQuestion
<1>6. FateOf(r.status) = "out" /\ QuestionsAsked[j].fate = "out"
  BY <1>1, <1>2, QuestionIsOut, Fates DEF Pending
<1>7. QuestionsAsked' = QuestionsAsked
  <2>1. QuestionsAsked[j] = QuestionOf(jobs[j])
    BY <1>1 DEF QuestionsAsked
  <2>2. [QuestionsAsked[j] EXCEPT !.fate = "out"] = QuestionsAsked[j]
    BY <1>6, <2>1 DEF QuestionOf
  <2>3. QuestionsAsked' = [QuestionsAsked EXCEPT ![j] = QuestionsAsked[j]]
    BY <1>5, <1>6, <2>2, Zenon
  <2>4. QuestionsAsked = [k \in Jobs |-> QuestionsAsked[k]]
    BY Zenon DEF QuestionsAsked
  <2> HIDE DEF j
  <2> QED
    BY <1>1, <2>3, <2>4
<1> QED
  BY <1>4, <1>7, NothingShows

(* A failure ends the question, unless it has ended before.                *)
LEMMA FailureFizzles ==
  ASSUME Typed, FailJob
  PROVE  Contract!Fizzle(ui.job) \/ ShowsNothing
<1> DEFINE j == ui.job
           status == AfterFailure(jobs[j].status, ui.arg)
           r == [jobs[j] EXCEPT !.status = status]
<1>1. j \in Jobs /\ jobs[j] \in Job /\ status \in JobStatus
  BY JobsAreJobs, JobUpdates DEF FailJob, Typed, ControlOK
<1>2. r \in Job /\ SameRequest(r, jobs[j]) /\ r.status = status
  BY <1>1, JobUpdates
<1>3. jobs' = [jobs EXCEPT ![j] = r]
  BY Zenon DEF FailJob
<1>4. UNCHANGED <<match, session, facts, states, switches, completions, advices>>
  BY DEF FailJob
<1>5. CASE jobs[j].status \in Pending
  <2>1. status \in {"TIMED_OUT", "FAILED"}
    BY <1>5 DEF AfterFailure
  <2> HIDE DEF r
  <2>2. QuestionsAsked' = [QuestionsAsked EXCEPT ![j].fate = FateOf(r.status)]
    BY <1>1, <1>2, <1>3, SettledQuestion
  <2>3. FateOf(r.status) = "void"
    BY <1>2, <2>1, Fates
  <2>4. QuestionsAsked' = [QuestionsAsked EXCEPT ![j].fate = "void"]
    BY <2>2, <2>3, Zenon
  <2>5. Contract!Out(j)
    BY <1>1, <1>5, QuestionIsOut DEF Contract!Out
  <2>6. UNCHANGED <<NoteOfBoard, AdviceShown, TurnsPlayed>>
    BY <1>4, NoteStays DEF AdviceShown, TurnsPlayed
  <2> QED
    BY <1>4, <2>4, <2>5, <2>6
       DEF Contract!Fizzle, Contract!Settled, Contract!table, Contract!review, Contract!written
<1>6. CASE jobs[j].status \notin Pending
  <2>1. status = jobs[j].status
    BY <1>6 DEF AfterFailure
  <2>2. r = jobs[j]
    BY <1>1, <2>1 DEF Job
  <2> HIDE DEF r
  <2>3. jobs' = jobs
    BY <1>1, <1>3, <2>2, JobsAreJobs
  <2> QED
    BY <1>4, <2>3, NothingShows DEF QuestionsAsked
<1> QED
  BY <1>5, <1>6

(* The recovery forgets what is out.                                       *)
LEMMA RestartForgets ==
  ASSUME Typed, Restart
  PROVE  Contract!Forget
<1> DEFINE gone == {j \in Jobs : jobs[j].status = "IN_FLIGHT"}
<1>1. Jobs' = Jobs
  BY RestartRecovers
<1>2. \A j \in Jobs : SameRequest(jobs'[j], jobs[j]) /\ jobs'[j].status = Recovered(jobs[j].status)
  BY RestartRecovers
<1>3. \A j \in Jobs : jobs[j] \in Job /\ jobs'[j] \in Job /\ jobs[j].status \in JobStatus
  <2>1. jobs' \in Seq(Job)
    BY RestartRecovers
  <2>2. \A j \in Jobs : jobs'[j] \in Job
    BY <1>1, <2>1, ElementOfSeq, LenProperties
  <2> QED
    BY <2>2, JobsAreJobs DEF Job
<1>4. UNCHANGED <<match, session, facts, states, switches, completions, advices>>
  BY DEF Restart
<1>5. \A j \in Jobs : QuestionOf(jobs'[j]) =
                        [QuestionsAsked[j] EXCEPT !.fate = FateOf(jobs'[j].status)]
  <2> TAKE j \in Jobs
  <2>1. QuestionOf(jobs'[j]) = [QuestionOf(jobs[j]) EXCEPT !.fate = FateOf(jobs'[j].status)]
    BY <1>2, <1>3, MovedQuestion
  <2> QED
    BY <2>1 DEF QuestionsAsked
<1>6. ASSUME NEW j \in Jobs, jobs[j].status \in Pending
      PROVE  FateOf(jobs'[j].status) = IF j \in gone THEN "lost" ELSE "void"
  <2>1. CASE jobs[j].status = "IN_FLIGHT"
    <3>1. jobs'[j].status = "DELIVERY_UNKNOWN"
      BY <1>2, <2>1 DEF Recovered
    <3> QED
      BY <2>1, <3>1 DEF FateOf, Pending
  <2>2. CASE jobs[j].status = "QUEUED"
    <3>1. jobs'[j].status = "INTERRUPTED"
      BY <1>2, <2>2 DEF Recovered
    <3> QED
      BY <2>2, <3>1 DEF FateOf, Pending
  <2> QED
    BY <1>6, <2>1, <2>2 DEF Pending
<1>7. ASSUME NEW j \in Jobs, jobs[j].status \notin Pending
      PROVE  QuestionOf(jobs'[j]) = QuestionsAsked[j]
  <2>1. jobs'[j].status = jobs[j].status
    BY <1>2, <1>7 DEF Recovered, Pending
  <2> QED
    BY <1>2, <2>1, Zenon DEF QuestionsAsked, QuestionOf, SameRequest
<1>8. DOMAIN QuestionsAsked = Jobs
  BY DEF QuestionsAsked
<1>9. \A j \in Jobs : Contract!Out(j) <=> jobs[j].status \in Pending
  BY QuestionIsOut DEF Contract!Out
<1> HIDE DEF gone
<1>10. \A j \in Jobs : QuestionOf(jobs'[j]) =
         IF ~Contract!Out(j) THEN QuestionsAsked[j]
         ELSE [QuestionsAsked[j] EXCEPT !.fate = IF j \in gone THEN "lost" ELSE "void"]
  BY <1>5, <1>6, <1>7, <1>9, Zenon
<1>11. QuestionsAsked' = [j \in Jobs |-> QuestionOf(jobs'[j])]
  BY <1>1, Zenon DEF QuestionsAsked
<1>12. QuestionsAsked' = [j \in Jobs |->
         IF ~Contract!Out(j) THEN QuestionsAsked[j]
         ELSE [QuestionsAsked[j] EXCEPT !.fate = IF j \in gone THEN "lost" ELSE "void"]]
  BY <1>10, <1>11, Zenon
<1>13. gone \in SUBSET Jobs
  BY DEF gone
<1>14. UNCHANGED <<NoteOfBoard, AdviceShown, TurnsPlayed>>
  BY <1>4, NoteStays DEF AdviceShown, TurnsPlayed
<1> QED
  BY <1>4, <1>8, <1>12, <1>13, <1>14, Zenon
     DEF Contract!Forget, Contract!Questions, Contract!table, Contract!review, Contract!written

(* The threads, the prompts, a refusal, the loss of the process and a      *)
(* state that is there already show nothing.                               *)
LEMMA OthersAreNotShown ==
  ASSUME \/ \E o \in Opponent : RejectTurnFacts(o)
         \/ \E e \in DOMAIN entries : HandleEntry(e)
         \/ RecordState /\ ~AppendState
         \/ Callback \/ (\E l \in Remote : WorkerStep(l)) \/ Crash \/ UNCHANGED vars
  PROVE  ShowsNothing
<1>1. UNCHANGED <<match, session, facts, states, switches, completions, jobs, advices>>
  BY Zenon DEF RejectTurnFacts, HandleEntry, RecordState, Callback, ReleaseDispatch,
    HandleSucceeded,
         HandleFailed, TakeAnswer, WorkerStep, WorkerAnswer, Crash, vars
<1> QED
  BY <1>1, NothingShows DEF QuestionsAsked

(* Every step is one the contract allows, or shows nothing.                *)
LEMMA ContractStep ==
  ASSUME Typed, HistoryInv, JobOrder, LedgerMatchesJobs, AdviceIsThere, [Next]_vars
  PROVE  Contract!TNext \/ ShowsNothing
<1>1. CASE BeginBattle \/ AbortMatch \/ StartTurnCapture
  BY <1>1, BattleBegins, AbortGivesUp, CaptureEntersFirst DEF Contract!TNext
<1>2. ASSUME NEW o \in Opponent, ConfirmTurnFacts(o)
      PROVE  Contract!TNext
  BY <1>2, FactsAreConfirmed DEF Contract!TNext
<1>3. CASE RequestMock \/ RequestLegacy
  BY <1>3, FactsAreAskedAbout DEF Contract!TNext
<1>4. ASSUME NEW i \in DOMAIN states, NEW choice \in SwitchSet \ {0}, ConfirmSwitches(i, choice)
      PROVE  Contract!TNext
  BY <1>4, ConfirmedSwitchesChoose DEF Contract!TNext
<1>5. ASSUME NEW i \in DOMAIN states, RequestRich(i) \/ RecordAction(i)
      PROVE  Contract!TNext
  BY <1>5, NoteIsAskedAbout, ActionIsRecorded DEF Contract!TNext
<1>6. ASSUME NEW i \in DOMAIN states, NEW c \in DOMAIN completions, NextTurn(i, c)
      PROVE  Contract!TNext
  BY <1>6, NextTurnEntersNext DEF Contract!TNext
<1>7. Contract!Questions = Jobs
  BY DEF Contract!Questions, QuestionsAsked
<1>8. ASSUME NEW j \in Jobs, NEW p, ApplyResult(j, p), UNCHANGED <<match, record>>
      PROVE  Contract!TNext \/ ShowsNothing
  <2>1. CASE Contract!Answer(j) \/ Contract!Fizzle(j)
    BY <1>7, <2>1 DEF Contract!TNext
  <2>2. CASE UNCHANGED <<match, session, NoteOfBoard, AdviceShown, QuestionsAsked>>
    BY <1>8, <2>2 DEF ShowsNothing, TurnsPlayed
  <2> QED
    BY <1>8, <2>1, <2>2, ResultCounts
<1>9. ASSUME NEW j \in Jobs, NEW p \in Payload, Redeliver(j, p)
      PROVE  Contract!TNext \/ ShowsNothing
  BY <1>8, <1>9 DEF Redeliver
<1>10. CASE Command
  BY <1>1, <1>2, <1>3, <1>4, <1>5, <1>6, <1>9, <1>10, OthersAreNotShown DEF Command
<1>11. CASE Apply
  <2>1. ui.job \in Jobs /\ ApplyResult(ui.job, ui.arg) /\ UNCHANGED <<match, record>>
    BY <1>11 DEF Apply, Typed, ControlOK
  <2> QED
    BY <1>8, <2>1
<1>12. CASE FailJob
  <2>1. ui.job \in Jobs
    BY <1>12 DEF FailJob, Typed, ControlOK
  <2> QED
    BY <1>7, <1>12, <2>1, FailureFizzles DEF Contract!TNext
<1>13. CASE RecordState
  BY <1>13, StateIsWrittenDown, OthersAreNotShown DEF Contract!TNext
<1>14. CASE Dispatch \/ Restart
  BY <1>14, DispatchIsNotShown, RestartForgets DEF Contract!TNext
<1> QED
  BY <1>10, <1>11, <1>12, <1>13, <1>14, OthersAreNotShown DEF Next, UiStep

(* The turns, with both lanes and their ledger, the two transactions of a  *)
(* confirmation, refusals, late and repeated results, process stops and    *)
(* restarts, do only what the contract allows: one question about a match  *)
(* at a time and none twice, an answer for what is still under review when *)
(* it arrives, a board that withdraws what was asked about the one before, *)
(* a turn left only when it is recorded (application/service.py,           *)
(* ui/turn_state_flow.py).                                                 *)
THEOREM TurnContractIsKept == Spec => KeepsContract
<1> DEFINE Inv == Typed /\ HistoryInv /\ JobOrder /\ LedgerMatchesJobs /\ AdviceIsThere
<1>1. Spec => []Inv
  <2>1. Init => AdviceIsThere
    BY DEF Init, AdviceIsThere
  <2> QED
    BY <2>1, AdviceStaysThere, HistoryInit, HistoryKept, TypedInvariant, JobOrderInvariant,
       LedgerInvariant, PTL DEF Spec
<1>2. Init => Contract!TInit
  <2>1. ASSUME Init PROVE NoteOfBoard = {}
    BY <2>1 DEF Init, NoteOfBoard
  <2>2. ASSUME Init PROVE AdviceShown = 0 /\ QuestionsAsked = <<>> /\ TurnsPlayed = <<>>
    BY <2>2 DEF Init, AdviceShown, QuestionsAsked, TurnsPlayed
  <2>3. ASSUME Init PROVE Len(facts) = 0 /\ Len(states) = 0
    BY <2>3, EmptySeq DEF Init
  <2>4. ASSUME Init
        PROVE  /\ match = 0 /\ session.active = FALSE /\ session.state = "ABORTED"
               /\ session.turn = 0 /\ session.board = 0
    BY <2>4 DEF Init
  <2> QED
    BY <2>1, <2>2, <2>3, <2>4 DEF Contract!TInit
<1>3. Inv /\ [Next]_vars => [Contract!TNext]_(Contract!tvars)
  <2> SUFFICES ASSUME Inv, [Next]_vars PROVE [Contract!TNext]_(Contract!tvars)
    OBVIOUS
  <2>1. Contract!TNext \/ ShowsNothing
    BY ContractStep
  <2> QED
    BY <2>1 DEF ShowsNothing, Contract!tvars, Contract!table, Contract!review, Contract!written
<1> QED
  BY <1>1, <1>2, <1>3, PTL DEF Spec, KeepsContract, Contract!TSpec

(* The lanes ask one question at a time and none twice                     *)
(* (_guard_provider_request, turn_advice_attempt_reserved).                *)
THEOREM RequestsAreAlwaysSingle == Spec => []RequestsAreSingle
<1>1. OnePendingRequest /\ OneAttemptPerSnapshot => RequestsAreSingle
  BY DEF RequestsAreSingle
<1> QED
  BY <1>1, OnePendingRequestPerMatch, OneAttemptForEachSnapshot, PTL
===========================================================================
