----------------------------- MODULE TurnAdvice -----------------------------
(***************************************************************************)
(* The turns of a match.  For each turn the human confirms the board,      *)
(* asks a provider for advice once, records what was played and moves on   *)
(* to the next turn.  Each confirmation is kept twice: as the legacy turn  *)
(* facts (application/service.py) and as the rich ConfirmedTurnState       *)
(* (ui/turn_state_flow.py), written by two transactions one after the      *)
(* other.  Advice is asked for on three lanes that share the pending-job   *)
(* slot of the session:                                                    *)
(*                                                                         *)
(*   MOCK    the development adapter answers its own job at once;          *)
(*   LEGACY  GeminiTurnAdviceAdapter, bound to the turn facts;             *)
(*   RICH    GeminiRichTurnAdviceAdapter, bound to the ConfirmedTurnState, *)
(*           its opponent and the confirmed switches.                      *)
(*                                                                         *)
(* As in SelectionAdvice the UI thread takes a command or a callback only  *)
(* at step "idle", each provider lane has one worker thread, and the       *)
(* process may stop between any two transactions.                          *)
(*                                                                         *)
(* What the human types at one confirmation is a number, its input; the    *)
(* opponent on the field is kept beside it because the entry events depend *)
(* on it.  Only the newest match can be active, so session is its row.     *)
(***************************************************************************)
EXTENDS BattleDomain, FiniteSets

CONSTANTS
  Species,       \* opponents the human can confirm on the field
  Lanes,         \* the lanes in use
  MaxMatches,    \* matches that reach the battle
  MaxTurns,      \* turns of one match
  MaxFacts,      \* boards confirmed, over all matches
  MaxRejected,   \* confirmations the application refuses
  MaxJobs,       \* advice jobs created, over all matches
  MaxRedelivered,\* result envelopes delivered outside the adapters
  MaxCrashes     \* process stops

ASSUME LanesAreKnown == Lanes \subseteq {"MOCK", "LEGACY", "RICH"}

ASSUME TurnBoundsAreNaturals ==
  /\ MaxMatches \in Nat /\ MaxTurns \in Nat /\ MaxFacts \in Nat
  /\ MaxRejected \in Nat /\ MaxJobs \in Nat
  /\ MaxRedelivered \in Nat /\ MaxCrashes \in Nat

VARIABLES
  match,       \* generation of the newest match that reached the battle
  session,     \* its battle_sessions row
  facts,       \* reviewed_turn_facts rows in insertion order
  states,      \* confirmed_turn_states rows in insertion order
  switches,    \* switches[i]: legal_switch_confirmations for state i, 0 if none
  entries,     \* opponent_entry_events rows in order of entry_ordinal
  completions, \* recorded action, rich completion and result delta of a turn
  drafts,      \* next_turn_state_drafts rows
  jobs,        \* async_jobs rows of the turns in rowid order
  results,     \* results[j]: dispositions in async_job_results of job j
  ledger,      \* turn_advice_attempt_ledger rows
  advices,     \* turn_advices rows in insertion order
  adapters,    \* the two Gemini adapters' memory
  workers,     \* their worker threads
  ui,          \* the UI thread's next step
  complains,   \* the message on screen is that of a refused confirmation
  rejections, redelivered, crashes  \* bounded counts of events

battle == <<match, session>>
record == <<facts, states, switches, entries, completions, drafts>>
provider == <<jobs, results, ledger, advices>>
threads == <<adapters, workers>>
counts == <<rejections, redelivered, crashes>>
vars == <<battle, record, provider, threads, ui, complains, counts>>

---------------------------------------------------------------------------
Unknown == "UNKNOWN"
Opponent == Species \cup {Unknown}
SwitchSet == 0..2        \* two different confirmed sets, 0 for none
Remote == {"LEGACY", "RICH"}
Lane == Remote \cup {"MOCK"}
Payload == {"LEGAL", "ILLEGAL"}
TurnFailure == {"TIMEOUT", "OTHER"}

Session == [active: BOOLEAN, state: BattleState, rev: Nat, turn: Nat,
            board: Nat, advice: Nat]
Facts == [match: Nat, turn: Nat, input: Nat, prev: Nat]
State == [match: Nat, turn: Nat, rev: Nat, input: Nat, opponent: Opponent,
          prev: Nat]
Entry == [match: Nat, turn: Nat, species: Species, state: Nat,
          handled: BOOLEAN]
Completion == [match: Nat, turn: Nat, board: Nat, state: Nat]
Draft == [match: Nat, turn: Nat, rev: Nat, completion: Nat]
Job == [match: Nat, turn: Nat, rev: Nat, lane: Lane, snap: Nat,
        switches: SwitchSet, status: JobStatus, dispatches: Nat]
LedgerRow == [match: Nat, turn: Nat, rev: Nat, rich: BOOLEAN, snap: Nat,
              job: Nat]
Advice == [match: Nat, turn: Nat, job: Nat]

Phase == {"none", "running", "succeeded", "failed"}
Step == {"idle", "state", "dispatch", "apply", "reject", "fail", "down"}
Args == Payload \cup TurnFailure \cup {"NONE"}
Ui == [step: Step, job: Nat, arg: Args, input: Nat, opponent: Opponent]
Worker == [phase: Phase, job: Nat, arg: Args]

Idle == [step |-> "idle", job |-> None, arg |-> "NONE", input |-> 0,
         opponent |-> Unknown]
NoWorker == [phase |-> "none", job |-> None, arg |-> "NONE"]

TypeOK ==
  /\ match \in Nat
  /\ session \in Session
  /\ facts \in Seq(Facts)
  /\ states \in Seq(State)
  /\ switches \in Seq(SwitchSet) /\ Len(switches) = Len(states)
  /\ entries \in Seq(Entry)
  /\ completions \in Seq(Completion)
  /\ drafts \in Seq(Draft)
  /\ jobs \in Seq(Job)
  /\ results \in Seq(Seq(Disposition)) /\ Len(results) = Len(jobs)
  /\ ledger \subseteq LedgerRow
  /\ advices \in Seq(Advice)
  /\ adapters \in [Remote -> {"idle", "busy", "releasing"}]
  /\ workers \in [Remote -> Worker]
  /\ ui \in Ui
  /\ complains \in BOOLEAN
  /\ rejections \in Nat /\ redelivered \in Nat /\ crashes \in Nat

---------------------------------------------------------------------------
Jobs == DOMAIN jobs
NewJob == Len(jobs) + 1
Inputs == Len(facts) + rejections

(* latest_job_by_type(session, TURN_ADVICE) is job j. *)
IsLatest(j) ==
  /\ j \in Jobs /\ jobs[j].match = match
  /\ \A k \in Jobs : jobs[k].match = match => k <= j

(* get_latest_confirmed_turn_state_for_identity: by turn, then revision. *)
NotNewer(k, i) ==
  \/ states[k].turn < states[i].turn
  \/ states[k].turn = states[i].turn /\ states[k].rev <= states[i].rev
IsLatestState(i) ==
  /\ i \in DOMAIN states /\ states[i].match = match
  /\ \A k \in DOMAIN states : states[k].match = match => NotNewer(k, i)

(* latest_state.identity == current_identity *)
IsCurrent(i) ==
  /\ IsLatestState(i)
  /\ states[i].turn = session.turn
  /\ states[i].rev = session.rev

(* _walk_confirmed_state_chain: state k is on the                          *)
(* previous_confirmed_state_id chain that ends in state i.                 *)
OnChain(k, i) ==
  LET on[n \in 1..i] ==
        n = i \/ \E m \in (n + 1)..i : on[m] /\ states[m].prev = n
  IN k \in 1..i /\ on[k]

(* build_battle_memory: every earlier turn of the match has one completion,*)
(* recorded on a state of the chain, later turns on later states.          *)
MemoryHolds(i) ==
  \A t \in 1..(states[i].turn - 1) :
    LET of(n) == {c \in DOMAIN completions :
                    completions[c].match = match /\ completions[c].turn = n}
    IN /\ Cardinality(of(t)) = 1
       /\ \A c \in of(t) :
            /\ OnChain(completions[c].state, i)
            /\ states[completions[c].state].turn = t
            /\ \A b \in of(t - 1) : completions[b].state < completions[c].state

(* Mutant: a failed attempt may be repeated. *)
ReservedUnlessFailed(rich, snap) ==
  \E r \in ledger :
    /\ r.match = match /\ r.turn = session.turn
    /\ r.rich = rich /\ r.snap = snap
    /\ jobs[r.job].status # "FAILED"

(* turn_advice_attempt_reserved.  Its key holds the id of the reviewed     *)
(* snapshot, which is of another table on the rich lane.                   *)
Reserved(rich, snap) ==
  \E r \in ledger :
    /\ r.match = match /\ r.turn = session.turn
    /\ r.rich = rich /\ r.snap = snap

---------------------------------------------------------------------------
Init ==
  /\ match = 0
  /\ session = [active |-> FALSE, state |-> "ABORTED", rev |-> 0, turn |-> 0,
                board |-> None, advice |-> None]
  /\ facts = <<>> /\ states = <<>> /\ switches = <<>> /\ entries = <<>>
  /\ completions = <<>> /\ drafts = <<>>
  /\ jobs = <<>> /\ results = <<>> /\ ledger = {} /\ advices = <<>>
  /\ adapters = [l \in Remote |-> "idle"]
  /\ workers = [l \in Remote |-> NoWorker]
  /\ ui = Idle /\ complains = FALSE
  /\ rejections = 0 /\ redelivered = 0 /\ crashes = 0

---------------------------------------------------------------------------
(* The match around its turns.                                             *)

(* A match whose selection has been applied: four revisions at least, for  *)
(* its creation, facts, advice and selection (see SelectionAdvice).        *)
BeginBattle ==
  /\ ui.step = "idle"
  /\ ~session.active
  /\ match < MaxMatches
  /\ match' = match + 1
  /\ session' = [active |-> TRUE, state |-> "BATTLE_READY", rev |-> 4,
                 turn |-> 0, board |-> None, advice |-> None]
  /\ complains' = FALSE
  /\ UNCHANGED <<record, provider, threads, ui, counts>>

AbortMatch ==
  /\ ui.step = "idle"
  /\ session.active
  /\ session.state \notin NotAbortable
  /\ session' = [session EXCEPT !.active = FALSE, !.state = "ABORTED",
                                !.rev = @ + 1]
  /\ complains' = FALSE
  /\ UNCHANGED <<match, record, provider, threads, ui, counts>>

(* _set_pending_turn *)
PendingTurn(n) ==
  session' = [session EXCEPT !.turn = n, !.board = None, !.advice = None,
                             !.state = "TURN_CAPTURE_PENDING", !.rev = @ + 1]

StartTurnCapture ==
  /\ ui.step = "idle"
  /\ session.active /\ session.state = "BATTLE_READY"
  /\ session.turn = 0
  /\ MaxTurns > 0
  /\ PendingTurn(1)
  /\ complains' = FALSE
  /\ UNCHANGED <<match, record, provider, threads, ui, counts>>

---------------------------------------------------------------------------
(* Confirmation of the board.                                              *)

(* Mutant: the request made for the board before stays out. *)
KeepPending == UNCHANGED jobs

(* The facts that replace a board cancel the request made for it. *)
CancelPending ==
  jobs' = [j \in Jobs |->
             IF IsLatest(j) /\ jobs[j].status \in Pending
             THEN [jobs[j] EXCEPT !.status = "CANCELLED"] ELSE jobs[j]]

(* First transaction: the legacy turn facts. *)
ConfirmTurnFacts(opponent) ==
  /\ ui.step = "idle"
  /\ session.active
  /\ session.state \in {"TURN_CAPTURE_PENDING", "TURN_REVIEWED"}
  /\ Len(facts) < MaxFacts
  /\ facts' = Append(facts, [match |-> match, turn |-> session.turn,
                             input |-> Inputs + 1, prev |-> session.board])
  /\ IF session.board = None THEN UNCHANGED jobs ELSE CancelPending
  /\ session' = [session EXCEPT !.board = Len(facts) + 1, !.advice = None,
                                !.state = "TURN_REVIEWED", !.rev = @ + 1]
  /\ ui' = [Idle EXCEPT !.step = "state", !.input = Inputs + 1,
                        !.opponent = opponent]
  /\ complains' = FALSE
  /\ UNCHANGED <<match, states, switches, entries, completions, drafts,
                 results, ledger, advices, threads, counts>>

(* Mutant: the state of the session is not looked at again. *)
RejectTurnFactsAnyState(opponent) ==
  /\ ui.step = "idle"
  /\ session.active
  /\ rejections < MaxRejected
  /\ rejections' = rejections + 1
  /\ complains' = TRUE
  /\ ui' = IF complains
           THEN [Idle EXCEPT !.step = "state", !.input = Inputs + 1,
                             !.opponent = opponent]
           ELSE Idle
  /\ UNCHANGED <<battle, record, provider, threads, redelivered, crashes>>

(* The application refuses the facts.  The caller takes the refusal for    *)
(* one only when it changes the message on screen; the same refusal twice  *)
(* in a row, with a board under review, goes on to the second transaction. *)
RejectTurnFacts(opponent) ==
  /\ ui.step = "idle"
  /\ session.active
  /\ rejections < MaxRejected
  /\ rejections' = rejections + 1
  /\ complains' = TRUE
  /\ ui' = IF complains /\ session.state = "TURN_REVIEWED"
           THEN [Idle EXCEPT !.step = "state", !.input = Inputs + 1,
                             !.opponent = opponent]
           ELSE Idle
  /\ UNCHANGED <<battle, record, provider, threads, redelivered, crashes>>

(* _build_opponent_entry_event: another opponent on a later turn. *)
EntersField(opponent) ==
  /\ opponent # Unknown
  /\ \A i \in DOMAIN states : IsLatestState(i) =>
       session.turn > states[i].turn /\ opponent # states[i].opponent

(* An event not yet answered is closed by the next one. *)
PendingEntries == {e \in DOMAIN entries : entries[e].match = match /\ ~entries[e].handled}
NewestPending(e) == e \in PendingEntries /\ \A d \in PendingEntries : d <= e
(* Mutant: the earlier event stays open. *)
AddEntryBeside(opponent) ==
  entries' = Append(entries,
                    [match |-> match, turn |-> session.turn,
                     species |-> opponent, state |-> Len(states) + 1,
                     handled |-> FALSE])
AddEntry(opponent) ==
  entries' = Append([e \in DOMAIN entries |->
                       [entries[e] EXCEPT !.handled = @ \/ NewestPending(e)]],
                    [match |-> match, turn |-> session.turn,
                     species |-> opponent, state |-> Len(states) + 1,
                     handled |-> FALSE])

(* Mutant: a state follows only those of its own turn. *)
LatestStateOfTurn ==
  IF \E i \in DOMAIN states : IsLatestState(i) /\ states[i].turn = session.turn
  THEN CHOOSE i \in DOMAIN states : IsLatestState(i) ELSE None

LatestStateOrNone ==
  IF \E i \in DOMAIN states : IsLatestState(i)
  THEN CHOOSE i \in DOMAIN states : IsLatestState(i) ELSE None

(* Second transaction: the rich state, its entry event and the local       *)
(* memory.  A state of the same turn and revision violates a UNIQUE        *)
(* constraint and the transaction is rolled back.                          *)
(* Mutant: one state for each turn. *)
StateExistsForTurn ==
  \E i \in DOMAIN states : /\ states[i].match = match
                           /\ states[i].turn = session.turn
StateExists ==
  \E i \in DOMAIN states : /\ states[i].match = match
                           /\ states[i].turn = session.turn
                           /\ states[i].rev = session.rev
AppendState ==
  /\ ~StateExists
  /\ states' = Append(states,
       [match |-> match, turn |-> session.turn, rev |-> session.rev,
        input |-> ui.input, opponent |-> ui.opponent,
        prev |-> LatestStateOrNone])
  /\ switches' = Append(switches, 0)
  /\ IF EntersField(ui.opponent) THEN AddEntry(ui.opponent)
                                 ELSE UNCHANGED entries
  /\ complains' = FALSE
RecordState ==
  /\ ui.step = "state"
  /\ \/ AppendState
     \/ StateExists /\ UNCHANGED <<states, switches, entries, complains>>
  /\ ui' = Idle
  /\ UNCHANGED <<battle, facts, completions, drafts, provider, threads, counts>>

(* The human answers or dismisses the pending entry prompt. *)
HandleEntry(e) ==
  /\ ui.step = "idle"
  /\ session.active /\ session.turn # 0
  /\ NewestPending(e)
  /\ entries' = [entries EXCEPT ![e].handled = TRUE]
  /\ UNCHANGED <<battle, facts, states, switches, completions, drafts,
                 provider, threads, ui, complains, counts>>

(* Mutant: the confirmation of the switches moves the revision. *)
ConfirmSwitchesAsFact(i, choice) ==
  /\ ui.step = "idle"
  /\ session.active /\ session.state = "TURN_REVIEWED"
  /\ IsCurrent(i)
  /\ switches' = [switches EXCEPT ![i] = choice]
  /\ session' = [session EXCEPT !.rev = @ + 1]
  /\ complains' = FALSE
  /\ UNCHANGED <<match, facts, states, entries, completions, drafts,
                 provider, threads, ui, counts>>

(* confirm_legal_switches replaces the set confirmed before; a request     *)
(* under way does not prevent it.                                          *)
ConfirmSwitches(i, choice) ==
  /\ ui.step = "idle"
  /\ session.active /\ session.state = "TURN_REVIEWED"
  /\ IsCurrent(i)
  /\ switches' = [switches EXCEPT ![i] = choice]
  /\ complains' = FALSE
  /\ UNCHANGED <<battle, facts, states, entries, completions, drafts,
                 provider, threads, ui, counts>>

---------------------------------------------------------------------------
(* Requests.                                                               *)

InsertJob(lane, snap, choice) ==
  /\ NewJob <= MaxJobs
  /\ jobs' = Append(jobs,
       [match |-> match, turn |-> session.turn, rev |-> session.rev,
        lane |-> lane, snap |-> snap, switches |-> choice,
        status |-> "QUEUED", dispatches |-> 0])
  /\ results' = Append(results, <<>>)

Reserve(rich, snap) ==
  /\ ~Reserved(rich, snap)
  /\ ledger' = ledger \cup
       {[match |-> match, turn |-> session.turn, rev |-> session.rev,
         rich |-> rich, snap |-> snap, job |-> NewJob]}

(* Mutant: a request of unknown delivery does not block the next. *)
RequestOnFactsAfterUnknown(lane) ==
  /\ session.active /\ session.state = "TURN_REVIEWED"
  /\ session.board # None /\ session.advice = None
  /\ \A j \in Jobs : IsLatest(j) => jobs[j].status \notin Pending
  /\ Reserve(FALSE, session.board)
  /\ InsertJob(lane, session.board, 0)

(* request_turn_advice, for the mock and the legacy adapter. *)
RequestOnFacts(lane) ==
  /\ session.active /\ session.state = "TURN_REVIEWED"
  /\ session.board # None /\ session.advice = None
  /\ \A j \in Jobs : IsLatest(j) => jobs[j].status \notin Blocking
  /\ Reserve(FALSE, session.board)
  /\ InsertJob(lane, session.board, 0)

RequestMock ==
  /\ ui.step = "idle" /\ "MOCK" \in Lanes
  /\ RequestOnFacts("MOCK")
  /\ ui' = [Idle EXCEPT !.step = "apply", !.job = NewJob, !.arg = "LEGAL"]
  /\ complains' = FALSE
  /\ UNCHANGED <<battle, record, advices, threads, counts>>

RequestLegacy ==
  /\ ui.step = "idle" /\ "LEGACY" \in Lanes
  /\ adapters["LEGACY"] = "idle"
  /\ RequestOnFacts("LEGACY")
  /\ ui' = [Idle EXCEPT !.step = "dispatch", !.job = NewJob]
  /\ complains' = FALSE
  /\ UNCHANGED <<battle, record, advices, threads, counts>>

(* request_rich_turn_advice: the pending job of the session blocks it, one *)
(* of unknown delivery does not.                                           *)
RequestRich(i) ==
  /\ ui.step = "idle" /\ "RICH" \in Lanes
  /\ adapters["RICH"] = "idle"
  /\ session.active /\ session.state = "TURN_REVIEWED"
  /\ IsCurrent(i)
  /\ states[i].opponent # Unknown
  /\ switches[i] # 0
  /\ MemoryHolds(i)
  /\ \A j \in Jobs : IsLatest(j) => jobs[j].status \notin Pending
  /\ Reserve(TRUE, i)
  /\ InsertJob("RICH", i, switches[i])
  /\ ui' = [Idle EXCEPT !.step = "dispatch", !.job = NewJob]
  /\ complains' = FALSE
  /\ UNCHANGED <<battle, record, advices, threads, counts>>

(* mark_turn_advice_dispatched, then the worker thread is started. *)
Dispatch ==
  LET j == ui.job
      l == jobs[j].lane
  IN
  /\ ui.step = "dispatch"
  /\ session.active /\ IsLatest(j)
  /\ jobs[j].status = "QUEUED"
  /\ jobs' = [jobs EXCEPT ![j].status = "IN_FLIGHT", ![j].dispatches = @ + 1]
  /\ adapters' = [adapters EXCEPT ![l] = "busy"]
  /\ workers' = [workers EXCEPT ![l] = [NoWorker EXCEPT !.phase = "running", !.job = j]]
  /\ ui' = Idle
  /\ UNCHANGED <<battle, record, results, ledger, advices, complains, counts>>

---------------------------------------------------------------------------
(* The worker threads and the adapters' callbacks.                         *)

WorkerAnswer(l) ==
  /\ workers[l].phase = "running"
  /\ \/ \E p \in Payload :
          workers' = [workers EXCEPT ![l].phase = "succeeded", ![l].arg = p]
     \/ \E r \in TurnFailure :
          workers' = [workers EXCEPT ![l].phase = "failed", ![l].arg = r]
  /\ UNCHANGED <<battle, record, provider, adapters, ui, complains, counts>>

(* The rich adapter keeps its dispatch until the thread has finished. *)
TakeAnswer(l, phase, step) ==
  /\ ui.step = "idle"
  /\ workers[l].phase = phase
  /\ ui' = [Idle EXCEPT !.step = step, !.job = workers[l].job, !.arg = workers[l].arg]
  /\ workers' = [workers EXCEPT ![l] = NoWorker]
  /\ adapters' = [adapters EXCEPT ![l] = IF l = "RICH" THEN "releasing" ELSE "idle"]
  /\ complains' = FALSE
  /\ UNCHANGED <<battle, record, provider, counts>>
HandleSucceeded(l) == TakeAnswer(l, "succeeded", "apply")
(* Mutant: a failure is shown and the job forgotten. *)
HandleFailedSilently(l) == TakeAnswer(l, "failed", "idle")
HandleFailed(l) == TakeAnswer(l, "failed", "fail")

ReleaseDispatch ==
  /\ ui.step = "idle"
  /\ adapters["RICH"] = "releasing"
  /\ adapters' = [adapters EXCEPT !["RICH"] = "idle"]
  /\ UNCHANGED <<battle, record, provider, workers, ui, complains, counts>>

(* Mutant: any answer for the match on the table is taken. *)
BindingHoldsByMatch(j) == session.active /\ jobs[j].match = match

(* _binding_failure_reason and _rich_binding_failure_reason find none. *)
BindingHolds(j) ==
  /\ session.active
  /\ IsLatest(j)
  /\ jobs[j].status \in Pending
  /\ jobs[j].turn = session.turn
  /\ jobs[j].rev = session.rev
  /\ session.state = "TURN_REVIEWED"
  /\ IF jobs[j].lane = "RICH" THEN IsCurrent(jobs[j].snap)
                              ELSE jobs[j].snap = session.board

(* Mutant: the rebuilt request is not compared. *)
RebuildsAnyhow(j) == TRUE

(* The rich request is rebuilt and must hash as it did when it was sent. *)
RebuildsSame(j) == jobs[j].lane = "RICH" => switches[jobs[j].snap] = jobs[j].switches

WasApplied(j) == \E n \in DOMAIN results[j] : results[j][n] = "APPLIED"
DispositionOf(j, payload) ==
  CASE WasApplied(j) -> "DUPLICATE_IGNORED"
    [] ~WasApplied(j) /\ ~BindingHolds(j) -> "STALE_REJECTED"
    [] ~WasApplied(j) /\ BindingHolds(j) ->
         IF payload = "LEGAL" /\ RebuildsSame(j) THEN "APPLIED"
                                                 ELSE "INVALID_REJECTED"

(* apply_turn_advice_result and apply_rich_turn_advice_result *)
ApplyResult(j, payload) ==
  LET d == DispositionOf(j, payload) IN
  /\ results' = [results EXCEPT ![j] = Append(@, d)]
  /\ \/ /\ d = "APPLIED"
        /\ advices' = Append(advices, [match |-> match, turn |-> session.turn, job |-> j])
        /\ session' = [session EXCEPT !.advice = Len(advices) + 1, !.rev = @ + 1]
        /\ jobs' = [jobs EXCEPT ![j].status = "SUCCEEDED"]
     \/ /\ d = "INVALID_REJECTED"
        /\ jobs' = [jobs EXCEPT ![j].status = "FAILED"]
        /\ UNCHANGED <<session, advices>>
     \/ /\ d \in {"STALE_REJECTED", "DUPLICATE_IGNORED"}
        /\ UNCHANGED <<session, advices, jobs>>

(* A Gemini adapter fails its job when the answer was not applied. *)
Apply ==
  /\ ui.step = "apply"
  /\ ApplyResult(ui.job, ui.arg)
  /\ ui' = IF \/ jobs[ui.job].lane = "MOCK"
              \/ DispositionOf(ui.job, ui.arg) = "APPLIED"
           THEN Idle ELSE [ui EXCEPT !.step = "reject", !.arg = "OTHER"]
  /\ UNCHANGED <<match, record, ledger, threads, complains, counts>>

(* An envelope that reaches the application on any other way. *)
Redeliver(j, payload) ==
  /\ ui.step = "idle"
  /\ redelivered < MaxRedelivered
  /\ redelivered' = redelivered + 1
  /\ ApplyResult(j, payload)
  /\ UNCHANGED <<match, record, ledger, threads, ui, complains, rejections, crashes>>

(* fail_turn_advice_job *)
FailJob ==
  /\ ui.step \in {"fail", "reject"}
  /\ jobs' = [jobs EXCEPT ![ui.job].status = AfterFailure(@, ui.arg)]
  /\ ui' = Idle
  /\ UNCHANGED <<battle, record, results, ledger, advices, threads, complains, counts>>

---------------------------------------------------------------------------
(* The result of the turn, and the next turn.                              *)

(* record_rich_actual_action on the latest state, which need only be of    *)
(* the current turn.                                                       *)
RecordAction(i) ==
  /\ ui.step = "idle"
  /\ session.active /\ session.state = "TURN_REVIEWED"
  /\ session.board # None /\ session.advice # None
  /\ IsLatestState(i) /\ states[i].turn = session.turn
  /\ \A c \in DOMAIN completions :
       ~(completions[c].match = match /\ completions[c].turn = session.turn)
  /\ completions' = Append(completions,
       [match |-> match, turn |-> session.turn, board |-> session.board, state |-> i])
  /\ session' = [session EXCEPT !.state = "TURN_RECORDED", !.rev = @ + 1]
  /\ complains' = FALSE
  /\ UNCHANGED <<match, facts, states, switches, entries, drafts, provider,
                 threads, ui, counts>>

(* next_turn_with_action_result: the newest result of the latest state.    *)
MayAdvance(i, c) ==
  /\ session.active /\ session.state = "TURN_RECORDED"
  /\ IsLatestState(i) /\ states[i].turn = session.turn
  /\ c \in DOMAIN completions /\ completions[c].state = i
  /\ \A d \in DOMAIN completions : completions[d].state = i => d <= c
NextTurn(i, c) ==
  /\ ui.step = "idle"
  /\ MayAdvance(i, c)
  /\ session.turn < MaxTurns
  /\ PendingTurn(session.turn + 1)
  /\ drafts' = Append(drafts, [match |-> match, turn |-> session.turn + 1,
                               rev |-> session.rev + 1, completion |-> c])
  /\ complains' = FALSE
  /\ UNCHANGED <<match, facts, states, switches, entries, completions,
                 provider, threads, ui, counts>>

---------------------------------------------------------------------------
(* The process.                                                            *)

Crash ==
  /\ ui.step # "down"
  /\ crashes < MaxCrashes
  /\ crashes' = crashes + 1
  /\ ui' = [Idle EXCEPT !.step = "down"]
  /\ complains' = FALSE
  /\ adapters' = [l \in Remote |-> "idle"]
  /\ workers' = [l \in Remote |-> NoWorker]
  /\ UNCHANGED <<battle, record, provider, rejections, redelivered>>

(* recover_after_restart *)
Restart ==
  /\ ui.step = "down"
  /\ jobs' = [j \in Jobs |-> [jobs[j] EXCEPT !.status = Recovered(@)]]
  /\ ui' = Idle
  /\ UNCHANGED <<battle, record, results, ledger, advices, threads, complains, counts>>

---------------------------------------------------------------------------
Command ==
  \/ BeginBattle
  \/ AbortMatch
  \/ StartTurnCapture
  \/ \E o \in Opponent : ConfirmTurnFacts(o) \/ RejectTurnFacts(o)
  \/ \E e \in DOMAIN entries : HandleEntry(e)
  \/ RequestMock
  \/ RequestLegacy
  \/ \E i \in DOMAIN states :
       \/ \E choice \in SwitchSet \ {0} : ConfirmSwitches(i, choice)
       \/ RequestRich(i)
       \/ RecordAction(i)
       \/ \E c \in DOMAIN completions : NextTurn(i, c)
  \/ \E j \in Jobs, p \in Payload : Redeliver(j, p)

UiStep == RecordState \/ Dispatch \/ Apply \/ FailJob
Callback == ReleaseDispatch \/ \E l \in Remote : HandleSucceeded(l) \/ HandleFailed(l)
WorkerStep(l) == WorkerAnswer(l)

Next ==
  \/ Command \/ UiStep \/ Callback
  \/ \E l \in Remote : WorkerStep(l)
  \/ Crash \/ Restart

(* The UI thread finishes what it has begun, its event loop delivers each  *)
(* adapter's queued signals, and each worker thread runs and its           *)
(* transport.send returns, at the latest with a timeout.  Nothing obliges  *)
(* the human to do anything.                                               *)
Fairness ==
  /\ WF_vars(UiStep)
  /\ \A l \in Remote : /\ WF_vars(WorkerStep(l))
                       /\ WF_vars(HandleSucceeded(l) \/ HandleFailed(l))

Spec == Init /\ [][Next]_vars /\ Fairness
---------------------------------------------------------------------------
(* Properties.                                                             *)

(* The three lanes share one slot: of all requests of all matches at most  *)
(* one is unanswered while its match is active (_guard_provider_request,   *)
(* decide_turn_advice_dispatch).                                           *)
OnePendingRequest ==
  \A j, k \in Jobs :
    (/\ {jobs[j].status, jobs[k].status} \subseteq Pending
     /\ jobs[j].match = jobs[k].match) => j = k

(* No job waits for nobody: while the process runs an unanswered job is in *)
(* the hands of the UI thread or of a worker whose answer will be handled. *)
(* A job that nobody owns would block every request of the match.          *)
PendingIsOwned ==
  \A j \in Jobs : (jobs[j].status \in Pending /\ ui.step # "down") =>
    \/ ui.step # "idle" /\ ui.job = j
    \/ \E l \in Remote : workers[l].phase # "none" /\ workers[l].job = j

(* One reviewed snapshot is sent at most once per lane contract, whatever  *)
(* became of the request, and across restarts; the ledger has one row for  *)
(* each job and names it (turn_advice_attempt_ledger).                     *)
OneAttemptPerSnapshot ==
  LET OfSnapshot(j) == [match |-> jobs[j].match, turn |-> jobs[j].turn,
                        rich |-> jobs[j].lane = "RICH", snap |-> jobs[j].snap]
  IN \A j \in Jobs :
       /\ \A k \in Jobs : OfSnapshot(j) = OfSnapshot(k) => j = k
       /\ \E r \in ledger :
            /\ r.job = j
            /\ OfSnapshot(j) = [match |-> r.match, turn |-> r.turn,
                                rich |-> r.rich, snap |-> r.snap]

(* The lanes ask one question at a time, and none twice.                   *)
RequestsAreSingle == OnePendingRequest /\ OneAttemptPerSnapshot

(* After a request that may or may not have reached the provider the mock  *)
(* and legacy lanes stay closed, however often the board is confirmed      *)
(* again.  Only a request on the rich lane, which asks for a state         *)
(* confirmed anew, opens them again: their guard sees the newest job only. *)
UnknownDeliveryHoldsTheLane ==
  \A j, k \in Jobs :
    (/\ jobs[j].status = "DELIVERY_UNKNOWN" /\ k > j
     /\ jobs[k].match = jobs[j].match /\ jobs[k].lane # "RICH") =>
      \E n \in (j + 1)..(k - 1) :
        jobs[n].match = jobs[j].match /\ jobs[n].lane = "RICH"

(* The advice on screen was computed from what the human confirmed last    *)
(* for this turn: the board itself, or the rich state of the same input    *)
(* with the switches that were confirmed for it.                           *)
AdviceMatchesBoard ==
  session.advice # None =>
    LET a == advices[session.advice]
        j == jobs[a.job]
    IN /\ a.match = match /\ a.turn = session.turn
       /\ j.status = "SUCCEEDED" /\ j.match = match /\ j.turn = session.turn
       /\ IF j.lane = "RICH"
          THEN /\ states[j.snap].input = facts[session.board].input
               /\ switches[j.snap] = j.switches
          ELSE j.snap = session.board

(* However often a result is delivered it takes effect once. *)
AppliedOnce ==
  \A j \in Jobs :
    /\ \A i, k \in DOMAIN results[j] :
         (results[j][i] = "APPLIED" /\ results[j][k] = "APPLIED") => i = k
    /\ jobs[j].status = "SUCCEEDED" <=> WasApplied(j)
    /\ jobs[j].status = "SUCCEEDED" <=> (\E a \in DOMAIN advices : advices[a].job = j)
    /\ \A a, b \in DOMAIN advices : (advices[a].job = j /\ advices[b].job = j) => a = b

(* The advice shown belongs to the board confirmed last, and an answer     *)
(* counts once.                                                            *)
AdviceIsSound == AdviceMatchesBoard /\ AppliedOnce

(* A job that has come to an end keeps its status. *)
TerminalIsFinal ==
  [][\A j \in Jobs : jobs[j].status \in Terminal => jobs'[j].status = jobs[j].status]_vars

(* The binding does not reject what it should accept: a legal answer for   *)
(* the board, or state and switches, still under review is applied.        *)
CurrentAnswerIsApplied ==
  [][LET j == ui.job
         Reviewed == IF jobs[j].lane = "RICH"
                     THEN IsLatestState(jobs[j].snap) /\ RebuildsSame(j)
                     ELSE jobs[j].snap = session.board
     IN (/\ ui.step = "apply" /\ ui'.step \in {"idle", "reject"} /\ ui.arg = "LEGAL"
         /\ session.active /\ session.state = "TURN_REVIEWED"
         /\ jobs[j].match = match /\ jobs[j].status \in Pending
         /\ Reviewed)
        => (session'.advice # None /\ jobs'[j].status = "SUCCEEDED")]_vars

(* Every change of a match's row moves its revision by exactly one, so the *)
(* revision of a job, a state or a draft identifies what was true then.    *)
RevisionCountsChanges ==
  [][(match' = match /\ session' # session) => session'.rev = session.rev + 1]_vars

(* The history the rich requests are built from never breaks: every turn   *)
(* that was left has one result and led to one draft, older than every     *)
(* state of its turn, the states follow one another by turn and revision,  *)
(* and build_battle_memory accepts the current state.  Otherwise rich      *)
(* requests would be refused for the rest of the match.                    *)
HistoryIsUnbroken ==
  /\ \A t \in 1..(session.turn - 1) :
       \E c \in DOMAIN completions, d \in DOMAIN drafts :
         /\ completions[c].match = match /\ completions[c].turn = t
         /\ drafts[d].match = match /\ drafts[d].turn = t + 1
         /\ drafts[d].completion = c
         /\ \A e \in DOMAIN drafts :
              (drafts[e].match = match /\ drafts[e].turn = t + 1) => e = d
         /\ \A i \in DOMAIN states :
              (states[i].match = match /\ states[i].turn = t + 1) =>
                drafts[d].rev < states[i].rev
  /\ \A i, k \in DOMAIN states :
       (states[i].match = states[k].match /\ k < i) => NotNewer(k, i) /\ ~NotNewer(i, k)
  /\ \A i \in DOMAIN states : IsCurrent(i) => MemoryHolds(i)

(* A recorded turn can always be left: its latest state is the one its     *)
(* result was recorded on (next_turn refuses a state without a result).    *)
RecordedTurnCanAdvance ==
  (session.active /\ session.state = "TURN_RECORDED") =>
    \E i \in DOMAIN states, c \in DOMAIN completions : MayAdvance(i, c)

(* The result of a turn is recorded on the state of the board the human    *)
(* confirmed last.  (Not so when the process stops between the two         *)
(* transactions of a confirmation: see README.)                            *)
RecordedOnConfirmedBoard ==
  \A c \in DOMAIN completions :
    states[completions[c].state].input = facts[completions[c].board].input

(* The human is asked about one opponent at a time, the one that entered   *)
(* last, and an answered prompt does not come back.                        *)
OnePendingEntry ==
  [][/\ Cardinality(PendingEntries') <= 1
     /\ \A e \in PendingEntries' : \A d \in DOMAIN entries' :
          entries'[d].match = match' => d <= e
     /\ \A e \in DOMAIN entries : entries[e].handled => entries'[e].handled]_vars

(* Every unanswered request comes to an end unless the process stops. *)
RequestsSettle ==
  \A j \in 1..MaxJobs :
    LET Open == j \in Jobs /\ jobs[j].status \in Pending
    IN Open ~> (~Open \/ ui.step = "down")

---------------------------------------------------------------------------
(* The refinement of TurnContract.  A note is a rich state; it is what is  *)
(* written down of the board under review while its turn and revision are  *)
(* those of the match.  A question is a job without what the program needs *)
(* to see it through.                                                      *)

FateOf(status) ==
  CASE status \in Pending -> "out"
    [] status = "SUCCEEDED" -> "counted"
    [] status = "DELIVERY_UNKNOWN" -> "lost"
    [] OTHER -> "void"

QuestionOf(j) ==
  [match |-> j.match, turn |-> j.turn, rich |-> j.lane = "RICH", snap |-> j.snap,
   switches |-> j.switches, fate |-> FateOf(j.status)]

NoteOfBoard == {<<i, switches[i]>> : i \in {k \in DOMAIN states : IsCurrent(k)}}
AdviceShown == IF session.advice = None THEN 0 ELSE advices[session.advice].job
QuestionsAsked == [j \in Jobs |-> QuestionOf(jobs[j])]
TurnOf(c) == [match |-> c.match, turn |-> c.turn, board |-> c.board]
TurnsPlayed == [c \in DOMAIN completions |-> TurnOf(completions[c])]

Contract == INSTANCE TurnContract WITH
  Choices <- SwitchSet \ {0},
  open <- session.active,
  phase <- session.state,
  turn <- session.turn,
  board <- session.board,
  note <- NoteOfBoard,
  advice <- AdviceShown,
  confirmed <- Len(facts),
  noted <- Len(states),
  questions <- QuestionsAsked,
  played <- TurnsPlayed

(* The lanes, with their two transactions, ledger, threads and restarts,   *)
(* do only what the contract of a turn allows.                             *)
KeepsContract == Contract!TSpec

---------------------------------------------------------------------------
(* Statements of the documentation that the code does not keep.            *)

(* "A failure in the legacy step (validation, staleness, missing applied   *)
(* selection) leaves every rich-state table untouched"                     *)
(* (ui/turn_state_flow.py, TurnStateFlowController.confirm_turn_facts):    *)
(* every confirmed state holds an input the application accepted.          *)
RefusedFactsLeaveNoState ==
  \A i \in DOMAIN states : \E f \in DOMAIN facts : facts[f].input = states[i].input
=============================================================================
