# maple-next: a TLA+ development

maple-next helps a human through a battle. It shows what a capture card sees,
proposes what it read, keeps what the human *confirms* in SQLite, asks a
provider (Gemini) for advice, and exports the finished match as JSON. It never
acts on the game. The properties that matter are therefore about what the human
is shown and what is sent: advice must belong to what was confirmed last, a
provider must not be asked twice for the same thing without a human decision,
and a match must neither get stuck nor lose its record, whatever order answers,
corrections, aborts and process stops come in.

Paths below are relative to `src/maple_next/` of the repository.

## 1. Inventory

| Part | State it keeps | Operations | What is hard | What makes it correct |
|---|---|---|---|---|
| Session and commands: `application/service.py`, `domain/models.py`, `domain/enums.py` | `battle_sessions` row: state, `battle_revision`, `metadata_revision`, current facts, advice and selection, turn | new, abort, confirm, apply, request, record, next turn, recovery | every command reads the session, decides and writes it under an expected revision; answers come between | one active match; revisions count changes; closed matches are frozen |
| Selection lane: `application/service.py`, `ui/gemini_advice.py`, `workers/selection_advice_worker.py` | jobs, attempt audits, results, attempt ledger, adapter, worker thread | mock and Gemini request, one retry, fallback model, apply, fail | late, repeated and early answers; fallback started from a callback; stop between transactions | applied once and only for the current facts; one attempt for an identity; each call announced first; requests settle |
| Turn lanes: `application/service.py`, `ui/turn_state_flow.py`, `ui/gemini_advice.py`, `workers/turn_advice_worker.py` | turn facts, confirmed states, switches, entry events, results, drafts, jobs, ledger | two-step confirmation, three request lanes, record, next turn, switches, entry prompts | a confirmation is two transactions; lanes share one slot but not one key; a correction during a request | one unanswered request; advice matches the board and the switches; unbroken history |
| Match end and export: `application/match_service.py`, `application/match_export_v3.py` | outcome, export row, the file | end, export (file, then transaction), new match after export | a stop between file and row; the chain checks at the end judge all that happened before | an ended match can be exported; the file holds what was confirmed |
| Projection: `application/projection.py` | none (pure) | the command offered next | session and newest job together select one button | the offered command is accepted |
| SQLite store: `persistence/*.py` | all of the above | transactions, UNIQUE constraints, migrations | constraints that reject inside a UI slot | rows stay in step |
| Turn state, battle memory, switches: `domain/turn_state.py`, `turn_state_projection.py`, `battle_memory.py`, `legal_switches.py`, sheets of `ui/battle_record_ui.py` | confirmed state, result, draft, memory of each Pokemon, bench | confirm a sheet, enter a result, derive the next draft, restore HP, confirm switches | four records of one fact; editors that outlive the turn | HP stays with its Pokemon; a result belongs to its turn; a confirmed bench is legal when used |
| Provider documents and answers: `providers/*.py`, `application/turn_provider_export_bridge.py`, `turn_legal_action_boundary.py` | none | build, hash, validate | a request is rebuilt and compared when its answer comes; two schemas; grounding in the whole history | only legal actions and known names are accepted; some answer always is |
| Opponent intel store: `opponent_intel_db/generation_store.py`, `runtime_intel.py`, `snapshot_store.py` | generation directories, pointer, manifests, flat pair, pins | stage, flip, mirror, pin, materialise, pinned read | stops between files; concurrent writers | what a match pins is whole, of one dataset, and stays |
| Opponent intel collection: `opponent_intel_db/cli.py`, `discovery.py`, `downloader.py`, parsers | the crawl, the records | traverse, fetch, supplement, publish | the site changes and fails during the crawl | an import is published exactly when it is whole |
| Capture: `capture/service.py`, `canonical.py`, `qt_ugreen.py`; `ui/selection_snapshot_window.py`, `turn_snapshot_window.py` | newest callback and packet, canonical cache | open, close, callback, convert, TURN, NEW MATCH | lazy conversion, stamps and numbers taken at different times | no frame of an earlier run or press |
| TURN page: `ui/turn_snapshot_window.py`, `two_step_battle_record_ui.py`, `turn_ocr/worker.py` | fields with origins and locks, snapshot, bundle, worker slot | freeze, submit, fill, type, confirm, advance | four writers of one field; results that come late | the operator's input stays; no value of another turn |
| Selection page and its matcher: `ui/selection_roi_window.py`, `selection_roi/*.py` | slots, bundle, worker slot, reference images, evidence | submit, fill, click, type, send, learn, promote | late answers; images named differently over time | no name of another match; trust is earned |
| Own team: `ui/window.py`, `ui/controller.py`, `ui/team_build_editor.py`, `domain/team_build.py`, `persistence/team_preset_store.py` | fields, details staged in two places, presets | type, edit, import, save, use, delete, confirm | two copies, tied to a team by names only | a team is kept with its own details |
| Abilities, evidence: `persistence/fixed_evidence_runtime.py`, `domain/abilities.py` | rows, files | store, read | little | none that a guard reads |
| Catalogs: `domain/champions_rules.py`, `effect_catalog.py`, `move_catalog.py` | immutable data | load, validate | none | none |
| Windows: `ui/*.py`, `__main__.py` | widgets | slots and timers | gates above the commands | none beyond the commands' |

How they interact. The **UI thread** runs everything but the provider calls and
the two image workers: commands, the transactions of `service.py`, the preview
timer, and the adapters' callbacks, which arrive as queued Qt signals. Each
adapter has at most one **worker thread**, which makes one `transport.send` and
emits one signal; each of the two **image workers** has one thread and one
pending slot. The camera's callback runs in a thread of Qt's. The **database**
and the reference images are what survives the process; at the next start
`recover_after_restart` rewrites the statuses of unfinished jobs before the
window opens. The **statistics directory** is shared with another program, the
updater. Between two transactions of one callback no other command runs, but
the workers may finish and the process may stop.

## 2. Modules and how they correspond to the code

| Module | Models | Extends |
|---|---|---|
| `BattleDomain` | `domain/enums.py`, the recovery and failure rules on statuses | |
| `Projection` | what the windows offer next | `BattleDomain` |
| `SelectionAdvice` | the Selection phase, 18 actions | `Projection` |
| `SelectionContract` | what that phase promises (abstract) | |
| `TurnAdvice` | the turns of a match on three lanes, 23 actions | `BattleDomain` |
| `TurnContract` | what the turns of a match promise (abstract) | |
| `MatchExport` | end and export, composed with the turns | `TurnAdvice`, `Projection` |
| `BattleRecord` | state sheet, result sheet, draft, memory and bench of one side | |
| `TurnAnswer` | which answers of the provider become advice | |
| `IntelStore` | the statistics directory, its updaters and its readers | |
| `IntelImport` | one import of the ranked list, up to its verdict | |
| `Capture` | the camera, the lazy conversion and the two buttons | |
| `TurnWorkbench` | the TURN page, its snapshot and its worker | |
| `SelectionBoard` | the selection page, its screenshot and its worker | |
| `RoiFeedback` | matching of the crops, and what is learned from a sent team | |
| `TeamBuilds` | the own team, its details and the presets | |
| `MC*` | the modules TLC runs; constants are in the `.cfg` files | |
| `SequenceLemmas` | rows of a table replaced, added, rewritten; induction in set form | |
| `SelectionAdvice_proofs`, `TurnAdvice_proofs`, `MatchExport_proofs` | theorems | the module they are about |
| `Intel_proofs` | theorems | `IntelStore`, `IntelImport` |
| `Pages_proofs` | theorems | `Capture`, `TurnWorkbench`, `SelectionBoard`, `RoiFeedback`, `TeamBuilds` |
| `Record_proofs` | theorems | `BattleRecord`, `TurnAnswer` |
| `Background_proofs` | theorems about the parts side by side | `MCBackground` and the three above |

Conventions. A table is a sequence whose index is the row's id, in insertion
order; `None` is `0`. One action is one SQLite transaction, or one thing that
happens in memory. `ui.step` is the transaction the UI thread will run next; a
command or callback starts only at `"idle"`, and `"down"` is a stopped process.
Definitions headed *Mutant:* are faulty variants of the definition after them;
they are not part of the specification and exist to show that the properties
notice them.

**SelectionAdvice.** `sessions[s]` is a row of `battle_sessions`, with
`rev = battle_revision` and `meta = metadata_revision`. `facts` counts
confirmations: what the human confirmed is abstracted to *which* confirmation it
was. `jobs`, `attempts`, `results`, `ledger` and `advices` are the tables of the
same purpose. `SendToGemini` is the transaction that reserves the attempt and
creates the job, followed by `MarkDispatched`, `StartAttempt` (the audit row and
the start of the thread), `WorkerSend`, `WorkerAnswer`, then `HandleSucceeded`
and `Apply`, or `HandleFailed` and either another `StartAttempt` (fallback
model) or `FailJob`. `sends` is a history variable: the calls really made.
Provider failures are five classes (`FailureReason`), by how the code treats
them. `Redeliver` is any other delivery of an envelope to
`apply_selection_advice_result`: that operation is idempotent by design and its
tests deliver envelopes out of order and twice.

**TurnAdvice.** `session` is the row of the newest match only (no other can be
active, which is a theorem of `SelectionAdvice`). A confirmation is
`ConfirmTurnFacts` (legacy facts, `service.py`) and then `RecordState` (the rich
state, its entry event and the local memory, `ui/turn_state_flow.py`).
`RejectTurnFacts` is a refused confirmation with the caller's test on the
message (`complains`). The lanes are `MOCK`, `LEGACY` and `RICH`;
`RequestMock`, `RequestLegacy` and `RequestRich` differ in what blocks them and
in the key they reserve. `RecordAction` and `NextTurn` are
`record_rich_actual_action` and `next_turn_with_action_result`, which the window
uses; the legacy-only pair `record_actual_action` and `next_turn` has no caller
there and is left out. `OnChain` and `MemoryHolds` are what `build_battle_memory`
demands. A match enters with `BeginBattle`, which stands for its Selection.

**MatchExport.** `export_match` is two actions, `WriteExport` (checks, encodes,
writes the file) and `CommitExport` (its transaction). While `exporting` the UI
thread is inside the command, so only workers run, or the process stops. The
bytes of the file are the rows they are made of. `NewMatchAfterExport` frees the
slot; the Selection of the next match is `BeginBattle` again.

**Projection.** `Project` and `AtMatchEnd` are the two functions that choose the
button; the lanes evaluate them in their own states, on the newest job of the
match whichever lane made it, and compare the button with the guards of the
commands.

**IntelStore.** Each `os.replace` is a step of an updater (`StageSnapshot` to
`FlipPointer`, then the two mirrors) or of a match that pins (`PinCurrent`, or
the reading, checking, reading again and materialising of the flat pair); each
may fail, and each process may stop before any of them. `Context` is what a
request of the match is told of a species. **IntelImport** is the program that
makes such a dataset: the site is the environment, honest or not, and ranks its
species anew between two requests.

**Capture.** `Converted` is the lazy conversion of the newest callback, which the
preview timer, on the record tab only, and both buttons trigger; `shown` is the
history variable that says when the pixels were on the screen. **TurnWorkbench**
and **SelectionBoard** are the two pages that take such a frame: the two workers
have one pending slot (newest only) and one running frame, their answers are
queued, and every writer of a field or slot is an action of its own. A field
carries its origin, its lock and the turn or match its value came from.

**RoiFeedback** goes on where the selection page sends: `Assigned` is the search
over the six slots, which tries the `TopK` names offered for each and no name,
the better first, and keeps the first team of the greatest total (`Visit` is its
step: given the best rest for every set of names used, the best name for the next
slot); `RecordSent` begins a filing, `FileSlot` files one
crop (as reference or as provisional image, a duplicate, or a conflict that goes
to quarantine), `AppendRows` writes the feedback, and `TakeName` and `PromoteImage`
promote what has evidence enough, image by image. Between any two writes one may
fail (`WriteFails`, and the same team is filed again) or the program may stop
(`StopWhileFiling`).

**BattleRecord** keeps one side: `ConfirmBoard` and `RecordAndAdvance` (or
`RecordOnly` and `AdvanceRecorded`) are the two confirmations of a turn;
`DerivedDraft` is the rule that turns a state and its result into the next
draft. An HP carries the Pokemon it was confirmed for.

**TurnAnswer.** `Ask` fixes the menu, the foe and the contract; `Answer` gives
any answer and the verdict; `Play` completes the turn and adds to what is known.

**TeamBuilds.** The two places that stage details are `teamPage.build` (window)
and `drafted` (controller); every slot that writes one, the other, or one after
the other is an action.

**MCBackground** runs the nine parts that do not share state with the lanes: a
behaviour is one of one part, chosen at the start. Their product would only
repeat each part's states, since none reads what another writes. Properties
that ask the same question of several parts are conjunctions stated there.

## 3. Runs

| Run | Question | Bounds | Distinct states |
|---|---|---|---|
| `selection_requests` | Are requests, ledger, provider calls and process stops accounted for, is the button offered accepted, and does every request end? | 1 match, 2 confirmations, 3 jobs, 2 stops | 0.5 million |
| `selection_binding` | Which answers count, and is the contract kept? | 2 matches, 2 confirmations, 2 jobs, 1 metadata change, 1 redelivery, 1 stop | 1.9 million |
| `turn_requests` | Do the three lanes share one slot? | 1 match, 1 turn, 2 confirmations, 3 jobs, 1 stop | 1.6 million |
| `turn_binding` | Does the advice shown belong to the board and switches confirmed last? | 2 matches, 2 confirmations, 2 jobs, 1 redelivery | 3.3 million |
| `turn_advance` | Can a recorded turn always be left; is there one entry prompt; is the contract kept? | rich lane, 2 turns, 2 confirmations, 2 refusals, 2 jobs, 1 stop | 0.5 million |
| `match_history` | Is the history acceptable and an ended match exportable? | 2 matches of 3 turns, 4 confirmations, 3 jobs, 1 stop | 1.1 million |
| `export_answers` | Is the exported document right, can an interrupted export finish, is the button offered accepted, and does every request end? | 1 turn, 2 confirmations, 2 jobs, 2 redeliveries, 1 stop | 0.5 million |
| `background` | Do the parts around the lanes keep what belongs to one match, turn, run, Pokemon or dataset apart? | below | 0.8 million |
| `turn_refused`, `export_corrected`, `effect_card`, `unconfirmed_send` | Four statements of the repository that do not hold (section 6) | the smallest that shows each | |

Why these bounds. Each property of the lanes is about pairs: two requests, an
answer and a correction, an old and a new match. Two matches give the late
answer that meets another match; two confirmations of the same facts give the
correction; three jobs give a retry after a retry, or a request after a request
after an unknown delivery; one redelivery gives the duplicate before or after
the adapter's own; one stop falls between any two transactions, and the second
stop of `selection_requests` lets a recovery be followed by another. Three turns
are needed for the history because `MemoryHolds` compares neighbouring results.
The theorems of section 5 remove the bounds for the properties they cover.

The bounds of `background`, part by part:

- statistics: two updaters, four datasets (one of another season, one without
  the species), one match that pins, and a window; one match is enough because a
  match writes only what its own flat pair names, and a second writer of the same
  archive is the `LoseRename` step;
- import: three species on pages of one or two, the site ranking anew once: the
  least that loses one species and repeats another;
- camera: three ticks, two callbacks in each of two runs, so that a packet may be
  stale, of the run before, or stamped after its successor came;
- TURN page: two turns, three snapshots (a retake and the next turn's), one field
  (fields do not meet); selection page: two matches, two slots and two names (one
  taken by the other slot);
- record: two Pokemon, one stage with bounds -1 and 1, three turns, so that one
  leaves and returns with the memory of the turn before last;
- answers: two Pokemon and a move of the own side, two foes and two moves (one
  usual, one not), two turns with requests; an answer varies in one respect at a
  time, since the checks of these respects share only their order;
- reference images: three images of which 1 and 2, and 2 and 3, but not 1 and 3
  are near duplicates, two slots, two names, three matches with one of three
  frames (each image next to either of the others), promotion at two matches
  instead of three; two slots of one frame never show the same pixels;
- own team: two fields, two names, two presets, one record of details for all
  members, at and over the limits of the points.

Counters are bounded in the guards, by the constants named `Max...`; a run ends
in a state where all are used up, and the human may stop at any time, so
deadlock is not checked (`CHECK_DEADLOCK FALSE`); that nothing gets stuck is
stated instead by `PendingIsOwned`, `RequestsSettle`, `RecordedTurnCanAdvance`,
`OnlyCorrectionsBlockExport`, `ExportCanFinish`, `SelectionOffersHold`,
`OffersAreAccepted`, `PicturesAreOnTheirWay` and `TurnsCanBeAdvised`.

No symmetry is used: the datasets, images and species are told apart by the
constants that describe them.

**Fairness.** Weak fairness is assumed of the UI thread's unfinished callback
(`UiStep`), of each adapter's queued signal, and of each worker thread: the Qt
event loop keeps delivering, and `transport.send` has a timeout and returns with
`GEMINI_TIMEOUT` at the latest. It is *not* assumed of any command, of a process
stop, or of a restart, nor anywhere outside the advice lanes. `RequestsSettle`
therefore says: a request ends, or the process is down. A write that SQLite
refuses (disk full, locked) rolls its transaction back and leaves the state
alone; it is a stuttering step, and a job whose failure could not be recorded is
one the next start recovers.

**The contracts.** `SelectionContract` knows no jobs, threads, ledger or process.
`selection_binding` checks that `SelectionAdvice` implements it: a question is
out while its job is pending, and lost when its job is `DELIVERY_UNKNOWN`. What
the contract adds to the invariants is the order of events: an answer takes a
match from undecided to advised only if the question for its *current* facts
was out, and nothing is asked after a loss.

`TurnContract` says the same of a whole sequence of matches and turns, with
neither transactions nor adapters: the phase, the board under review, what is
written down of it (its *note*), the questions with their fate, the answer shown
and what was played. `TurnAdvice` implements it with one mapping: a question is a
job; the note is the rich state made at the turn and revision the match is at, so
there is one at most, and showing an answer, recording a turn, giving the match
up or confirming another board leaves none. The steps of a request's thread, the
statuses on the way and an answer to a question already settled are stutters; one
that comes for what is no longer under review, and a failure, are `Fizzle`; a
restart is `Forget`. Written next to each other the two ways
to ask differ in what they look at: `AskOnBoard` in the newest question,
`AskOnNote` in the note only, which is where `UnknownDeliveryHoldsTheLane` loses
its force. The contract does not say which inputs a note holds: a repeated
refusal leaves a state (section 6, item 1), and then the note is of a board
nobody confirmed.
`turn_advance` checks the refinement on the rich lane, over two turns with
refusals and a process stop; the other lanes, repeated answers and the next match,
which that run does not have, are covered by the theorem.

## 4. What the properties say

Selection: `PendingIsOwned` (a pending job is in some thread's hands),
`SendsAreAccounted` (a call was announced before it was made, a second call
follows only a recorded quota or rate failure, and an identity is attempted once
unless it failed transiently), `UnknownDeliveryEndsRequests`, `AdviceIsSound`
(advice belongs to the facts confirmed last; an answer counts once),
`CurrentAnswerIsApplied` (the binding does not reject what it should accept),
`SelectionOffersHold`, `RequestsSettle`, `KeepsContract`. Proved rather than run:
`ActiveIsNewest`, `ClosedMatchIsFrozen`, `TerminalIsFinal`.

Turns: `RequestsAreSingle` (one request of a match is pending at most, and a
snapshot is attempted once on a lane), `PendingIsOwned`,
`UnknownDeliveryHoldsTheLane`, `AdviceIsSound` (board and switches),
`CurrentAnswerIsApplied`, `RecordedOnConfirmedBoard`, `RecordedTurnCanAdvance`,
`OnePendingEntry`, `HistoryIsUnbroken`, `RequestsSettle`, `KeepsContract`. Proved rather than run:
`TerminalIsFinal`, `RevisionCountsChanges`.

Export and projection: `OnlyCorrectionsBlockExport`, `ExportIsFaithful` (the file
is what was confirmed, with advice asked for that board, and can be written again
after a stop), `OffersAreAccepted`.

Around the lanes: `StoreIsSound`, `ContextIsFixed`, `VerdictIsRight`,
`FramesAreCurrent`, `PicturesAreOnTheirWay`, `EntriesStay`, `PagesShowThisTurn`,
`FeedbackIsOfItsMatch`, `LearningIsSound`, `SuggestionIsBest`, `HpIsOfThePokemon`,
`TurnsCanBeAdvised`, `AcceptedAnswersAreSound`, `KeptBuildsFit`,
`ConfirmedBuildIsShown`.

Each property of a passing run has a mutant in `PROJECT.json`: a plausible fault
in a definition that models code, with which TLC finds the property violated.

Four properties hold under conditions worth knowing.
The turn lanes' `AdviceIsSound` is checked and proved while no confirmation is
refused (`MaxRejected` is 0 in `turn_binding`; `[](rejections = 0)` in the
theorem): after a repeated refusal the state persisted from the refused inputs
(section 6, item 1) can be asked about and its advice applied, though nobody
confirmed that board.
`RecordedOnConfirmedBoard` is checked without refusals and process stops, and
proved for behaviours without refusals and without a stop at that place: a stop
between the two transactions of a confirmation leaves facts without a state, and
a result recorded then is attached to the state of the board before (the window
shows the recovered turn, and the human may confirm again first).
`UnknownDeliveryHoldsTheLane` is weaker than its Selection counterpart because
the code is: `request_rich_turn_advice` looks only for a pending job, so a rich
request follows one of unknown delivery, and after it the legacy guard, which
looks at the newest job only, lets the others in again.
`OffersAreAccepted` names the two buttons that lead nowhere (section 6); with
them left out it does not hold.

## 5. What is proved

TLAPS checks the theorems for every value of the constants, under the named
assumptions of the modules: the bounds are natural numbers, the lanes are known
ones, a team has at least one field and the selection page at least one slot,
there are two datasets at least (one to be provisioned, one to be fetched), the
site ranks finitely many species, a name is not both a foe and a foe's move, the
empty slot is no name, likeness is symmetric and an image is wholly like itself,
and a frame too old for the preview is too old for TURN
(`MaxAge < FreshFor`: 500 and 2000 milliseconds in the code). TLC evaluates each
assumption in a run.

`SelectionAdvice_proofs`

- `TypeCorrect`: `TypeOK` holds, by `Typed`, which adds that the UI thread and
  the worker name existing jobs wherever they are about to use one.
- `OneActiveMatch`, `ClosedMatchesAreFrozen`: from `SessionStep`, which reduces
  every step to: no change, a new match while none is active, or a write of an
  active one.
- `EndedJobsStayEnded`: from `JobStep`, which reduces every step to: no change,
  a request, the settlement of a pending job, or the recovery.
- `UnknownDeliveryIsLast`: `UnknownDeliveryEndsRequests` is not inductive, since
  a job becomes `DELIVERY_UNKNOWN` only at a restart and nothing in the property
  says that no later job exists then. The strengthening `BlockingIsLatest` does:
  a job that blocks requests (pending or unknown) is the newest of its match.
- `AdviceIsAlwaysSound`: `AdviceStep` reduces every step to one of six, no
  change, a new match, a command on one match, a request, a result, or a move of
  statuses that neither makes nor ends a `SUCCEEDED`; `AdviceExists` (rows name
  existing rows) makes `AdviceIsSound` inductive over them. The result is the
  case that matters: an answer is applied only to a pending job, and a pending
  job has no advice yet.
- `SendsAreAlwaysAccounted`: `CallsInv` says, for each step of a dispatch (audit
  row open, worker started, answer waiting, failure in hand), what the audit holds
  and how many calls were made; `LedgerInv`, that the ledger has one row for each
  identity and which job it names. A reservation changes its row only while the
  job before has failed transiently.
- `PendingIsAlwaysOwned`: who holds a pending job is followed from the transaction
  that creates it to the one that settles it; `MockIsAnswered` adds that the
  development adapter's jobs never reach a thread.
- `ContractIsKept`: the refinement, one lemma for each action: a request is `Ask`,
  an applied result is `Answer`, a recovery loses the questions that were out.
  `AskedMatch` needs `BlockingIsLatest` (the question out is the newest job),
  `JobsHaveMatches`, and that an answer is applied only in the match it is for.
- `CurrentAnswersAreApplied`, `SelectionOffersAlwaysHold`: both from `CurrentInv`:
  while the facts a job was asked about are still those of its match, an
  unanswered job has the match's revision, and a succeeded one an earlier
  revision. So nothing but the human's own changes makes an answer stale, and
  what the button looks at (newest job, facts, advice) decides what the
  application looks at (ledger, revision, pending job).

`TurnAdvice_proofs`

- `TypeCorrect`, in the same way, for any set of lanes.
- `RevisionsCountChanges`, action by action.
- `EndedTurnJobsStayEnded`, from `JobStep`, which here has one more case, the
  cancellation a correction makes.
- `OnePendingRequestPerMatch`: strengthened to `PendingIsLatest`, a pending job
  is the newest of its match; two of one match are then equal.
- `UnknownDeliveryClosesLanes`: inductive together with `PendingIsLatest` (for
  the restart) and `NewestExists` (a match with a job has a newest one, which is
  what the guard looks at; kept as an invariant of its own).
- `OneAttemptForEachSnapshot`: strengthened to `LedgerMatchesJobs`, the ledger
  holds each job's key, and no two jobs have the same.
- `RequestsAreAlwaysSingle`: the two together, as the run states them.
- `AnswersCountOnce`: the half of `AdviceIsSound` that is about counting, without
  any condition.
- `AdviceIsSoundUnlessRefused`: the other half too, while no confirmation is
  refused. What ties a rich answer to the board is the revision its state was
  made at, and `BoardInv` says why that is enough: a state of the current revision
  is of the input confirmed last, a match that shows advice has none (showing it
  moved the revision), and between the two transactions of a confirmation there
  is none either.
- `PendingIsAlwaysOwned`, by `CustodyInv`: as in the Selection, plus what each
  adapter's state says of its worker, so that the rich adapter, which keeps its
  dispatch until the thread has gone, cannot drop the next job.
- `OneEntryIsPending`, by `EntryInv`: at most one entry of the match is open, and
  it is the newest.
- `RecordedTurnsCanAdvance`, by `RecordedInv`: a recorded turn's result is on the
  latest state of the match, and no state is added before the turn is left.
- `RecordedOnBoardUnlessSplit`: while no confirmation is refused and no process
  stop falls between the two transactions of one. From `BoardInv` and
  `ReviewedInv`: outside such a pair the latest state of the turn under review is
  of the board confirmed last.
- `HistoryNeverBreaks`, by `HistoryInv`: states follow one another by turn and
  revision and each names the one before it, so the latest one's chain reaches
  every earlier state; each turn left has one result, on a state of its own turn,
  and one draft. `OnChain` is a recursive function; that it exists is shown by
  taking it as a set (the least set of states closed under *predecessor*), and
  induction along the chain is `SetInduction` of `SequenceLemmas`.
- `CurrentAnswersAreApplied`, by `CurrentInv`: a request under way for the board,
  or for the latest state once that is written, has the turn and the revision its
  match still has. The exception matters: between the two transactions of the
  next turn's confirmation the latest state is still that of the turn before, and
  a request about it may be under way.
- `TurnContractIsKept`: the refinement, for every behaviour, refusals, further
  turns and process stops included. Initial states map to initial states, and
  `ContractStep` takes each step to one of the contract or to a stutter, with a
  lemma for each kind of step (`BattleBegins`, `FactsAreConfirmed`,
  `StateIsWrittenDown`, `FactsAreAskedAbout`, `NoteIsAskedAbout`, `ResultCounts`,
  `RestartForgets`, ...). It takes from the invariants above that the state of
  the current turn and revision is one and the latest (`HistoryInv`: `OneNote`),
  that a pending job is the newest (`JobOrder`: a new board then withdraws the one
  question that is out), that the ledger has every job's key
  (`LedgerMatchesJobs`: the guard on the ledger is then the contract's "nothing is
  asked twice"), and, new, that the advice shown exists (`AdviceIsThere`).

`MatchExport_proofs`

- `FilesAreOfTheRecord` (`ExportCanFinish` and `FileIsOfTheRecord`): two reductions
  carry it. `OnlySessionEnds`: the commands that end or export a match touch its
  row and nothing the document reads; `SlotStep`: while a match is over every
  step of the turns is one that leaves its rows alone. So what was written once
  is what would be written again (`FilesInv`), and an interrupted export passes
  the comparison with its own file.
- `HistorySurvivesExport`: `HistoryIsUnbroken` of the composition, since ending a
  match is a stutter or an abort for the turns.
- `ExportIsFaithfulUnlessRefused`: while no confirmation is refused, each result in
  the file is of the board its turn was confirmed with, and each advice of a
  request for that board or state (`CoreInv` and `PairInv`: a state and the facts of
  one confirmation hold the same input).
- `OnlyCorrectionsEverBlockExport`: a match without a second confirmation in one
  turn has one state for each turn, which is its turn's predecessor
  (`UncorrectedChain`), so the checks of the export find the chain they ask for.
- `OffersAreAlwaysAccepted`, by `OfferInv`: state, board, advice and newest job of a
  match determine each other as far as the button looks.

`Intel_proofs`

- `StoreIsTyped`, `StoreIsAlwaysSound`, for any number of updaters, matches and
  datasets. `StoreIsSound` is not inductive: that the published generation is
  whole says nothing of a run that may still write into it. `StoreInv` adds that
  a published or pinned generation is *settled* (complete, of no run that is
  staging or still to come), that runs under way have datasets of their own
  (`RunsAreApart`), what each run has written by each of its steps
  (`FilesAreWritten`), and that the flat files, once read, are there to stay
  (`ReadersAreReady`).
- `ContextIsAlwaysFixed`: from the same invariant, a directory that a pin names
  is never written again, so the context a match shows is the one it began with.
- `ImportAlways` and `VerdictIsAlwaysRight`, for any set of species, page size,
  cap on the pages and number of new rankings. `ImportInv` has four parts besides
  the types: the pages are read in their order and none that is not there
  (`CrawlOK`: a link back is to a page that was read); while no row was missing
  the list is as long as its pages (`AllRowsRead`); a list found complete has all
  species (`ListIsWhole`: as many entries as there are species and none twice, by
  `WholeBySize`, either because the total says so or because the pages run to the
  last one); and as long as nothing went wrong the list *is* the ranking
  (`ListIsHonest`), which is then found complete (`RankingIsComplete`). How many
  rows the pages hold is arithmetic of a rounded-up quotient (`Quotient`,
  `ListedFacts`). `DetailsOK` carries the result over the second half: what is
  wanted is fetched, failed, or still to fetch.

`Pages_proofs`

- Camera. `CaptureIsTyped` and `FramesAreAlwaysCurrent`, by `CaptureInv`. That a
  picture is of after the press is not a matter of its stamp, since conversion is
  lazy; what carries it is `PressIsOpen`: at the press every callback so far was
  tried, and until the button is done the service holds the baseline for the
  newest packet, so only a callback that came later can replace it.
- TURN page. `PageIsTyped`, `CandidatesAreOfThisTurn`, `SnapshotsAreNotLost`, and
  the action property `OperatorInputStays`, by `WorkbenchInv`: no snapshot, shown,
  pending, running or answered, is of a later turn than the one at hand.
- Selection page. `BoardIsTyped`, `NamesAreOfThisMatch`, `ScreenshotsAreNotLost`,
  `OperatorSlotsStay` and `FeedbackIsFiledOnce`, by `BoardInv`. That a match is
  filed once needs two things the property does not say: a reviewed team is the
  one on display (`TeamOnDisplay`), and once it is filed nothing that could be
  filed again is on the page or on its way there (`FiledOnce`).
- What is learned. `LearningIsAlwaysSound`, by `RoiInv`: for any likeness of the
  images, symmetric but not transitive, and wherever a filing fails, is repeated
  or stops. The property does not say why a promotion may rely on trusted images:
  a person gave every name that has one (`NamesWereGiven`), and what is left to
  promote is provisional under a name with its evidence (`PromotionIsDue`), so
  that it already agrees with every other file.
- What is suggested. `SuggestionIsAlwaysBest`: the search of the matcher loses
  nothing to its cut. By induction over the slots left (`LevelStep`), what it
  returns for a set of names already used is as good as any choice for the slots
  that follow; a choice it drops is worth no more than the one it keeps
  (`WinnerExists`). The search and the sums are recursive functions, whose
  existence is shown first (`VisitedExists`, `SumsExist`). "Best" ranges over the
  names each slot offers, its `TopK` best, so the theorem covers that cut too; the
  run has two names and `TopK = 2`, where the cut removes nothing.
- Own team. `TeamIsTyped`, `KeptBuildsAlwaysFit`, `ConfirmedBuildIsAlwaysShown`,
  from one inductive invariant, `TeamInv`. What is missing in the properties is
  `DraftIsShown`: the controller's staged details are the window's or none.
  `NamesMatch` compares the names in their places, so details move with nothing
  else; one lemma for each action.

`Record_proofs`

- `RecordIsTyped`, `HpStaysWithItsPokemon`, `BoundBenchIsAlwaysLegal`,
  `ResultsAreOfTheirTurn`, for any team and any stage limit. `RecordInv` adds what
  holds between the operator's commands: past a confirmation the confirmed state
  is of this turn and has an active (`BoardIsConfirmed`), a recorded result fits
  it (`RecordedFits`: what both give together is again HP of its own active),
  before it the switches are of an older turn (`BenchIsOlder`), and the result
  editor holds nothing of another turn (`EditorIsOfThisTurn`).
- `AnswersAreTyped`, `AcceptedAnswersAreAlwaysSound`: the checks themselves read
  evidence from the battle memory, so the theorem needs that this evidence is
  what the operator confirmed (`EvidenceIsConfirmed`), that the menu is of the
  turn's active (`MenuIsOfTheActive`), and that no later confirmation reaches an
  answer already accepted (`AcceptedPasses`).
- `CautionIsAlwaysAccepted`: whatever was confirmed, the cautious answer passes
  every check.

`Background_proofs`

- `BackgroundIsTyped`, from the type theorem of each part.
- `PagesAlwaysShowThisTurn`, `PicturesAreNeverLost`, `TurnsCanAlwaysBeAdvised`,
  `EntriesAlwaysStay`: what `MCBackground` states of several parts at once. A step
  of the whole is a step or a stutter of each part (`StepsOfParts`), so a behaviour
  of the whole is one of each part (`PartsBehave`), and what the other modules
  prove of the parts holds of it. The lemma does not use that only one part is
  chosen at the start: interleaved, the parts would keep the same properties.

`SequenceLemmas` holds what these proofs share: a row replaced, added or rewritten
leaves the others; the smallest and the largest element of a bounded set of
numbers; and `SetInduction`, induction over the naturals stated of a set, so that
it needs no operator as a parameter.

Left to TLC. Liveness (`RequestsSettle`) and anything with `ENABLED` is out of
this prover's reach.

## 6. Where code and documentation differ

Four runs end in a violation, each of a sentence of the repository.

1. `turn_refused`: a refused confirmation can leave a confirmed state. The caller
   recognises a refusal by a *change* of the message on screen
   (`ui/turn_state_flow.py:821`); the same refusal twice in a row, in a reviewed
   turn whose advice was applied, goes on to the second transaction and persists
   a state with the refused inputs. The docstring (line 803) says a failure in
   the legacy step leaves every rich-state table untouched.
2. `export_corrected`: a correction during a turn appends a second confirmed
   state, and `validate_confirmed_states_for_export`
   (`application/match_export_v3.py:362`) accepts one for each turn. The ended
   match then can be neither exported nor aborted, and no other can begin;
   `match_service.py:482` says the chain rules guarantee at most one.
3. `effect_card`: a raise applied on the result page is added to the editor's
   number, which every turn starts at 0 (`ui/battle_record_ui.py:4522`), and not
   to the confirmed stage; `FieldDelta` (`domain/turn_state.py:148`) wants the
   resulting value.
4. `unconfirmed_send`: an answer of the matcher that fills all six slots enables
   the send button (`ui/selection_roi_window.py:545`), though a rendering of the
   page asks for six names confirmed by a human, as
   `tests/test_issue31_selection_v3_accepted_ux.py:233` does.

Stated in a module and found false by TLC, without a run of their own (each is a
definition one can put into `MCBackground.cfg`):

- `IntelStore.ArchivedPairsAreUsable`: the flat pair is read, validated and read
  again before it is archived (`runtime_intel.py:242`), although the comment says
  an unusable pair must never become an immutable generation. Requests validate
  it once more, so none uses it (`StatisticsAreOfOnePair`).
- `IntelImport.SecondaryIsBestEffort`: a percentage above 100 on the second site
  raises after the handler (`cli.py:262`), and the complete import is refused; the
  docstring says the caller never sees an exception.
- `Capture.TurnFrameIsOfThePress`: packets are stamped when converted
  (`qt_ugreen.py:183`), so TURN can take pixels of long before the press for
  fresh ones after the camera stalled on another tab.

Observed while modelling. Lanes, window and export:

- A rich and a legacy request for the same turn and revision are two attempts,
  because their ledger keys hold ids of two tables (`application/service.py:1229`);
  the docstring (line 1033) says they share one one-attempt slot.
- `RESOLVE_DELIVERY_UNKNOWN` is offered and no command resolves it. The window
  enables each group for its own command only, so after a process stop during a
  request of a turn only `ABORT_MATCH` is left; the rich lane, which the
  application would accept, has no button.
- A failed request of a turn's board has spent its one attempt, but the button
  is still `REQUEST_TURN_ADVICE`; recording needs advice, and the correction that
  would help has no button in the battle record window.
- `SELECTION_ADVICE_READY` offers `REQUEST_SELECTION_ADVICE` beside the
  application, which the service refuses; `SET_HUMAN_SELECTION_CANDIDATE` has no
  command.
- In the two-step window `TURN_RECORDED` is passed through at once, while WIN and
  LOSS are enabled in `BATTLE_READY` and `TURN_RECORDED` only
  (`ui/battle_record_ui.py:3693`), so a match with a recorded turn is ended only
  after a failed next turn or a restart.
- When the archive the provenance is read from disappears between an interrupted
  export and the next attempt, the bytes differ and the attempt is refused with
  `EXPORT_FILE_CONTENT_MISMATCH` (`match_service.py:186`), although the docstring
  at line 548 says a missing archive never blocks the record.
- A same-turn correction of the opponent leaves the entry prompt of the mistaken
  opponent pending (`ui/turn_state_flow.py:920`, deliberate). A second state for
  the same turn and revision violates a UNIQUE constraint inside a UI slot; the
  transaction is rolled back and the error reaches the event loop.
- After the two-step next turn, which freezes no frame
  (`ui/two_step_battle_record_ui.py:322`), candidates of an earlier turn can be
  adopted by hand.

The record of a turn:

- The memory of HP takes confirmed states only, so a Pokemon whose fainting was
  entered as a result stays a switch candidate until it is confirmed on a board.
  After a faint the next active one is confirmed on a sheet with the fainted
  one's stages. `to_known` always records human input as the provenance.
- An explicit "?" of the first turn becomes 0 through the default draft
  (`ui/battle_record_ui.py:3835`), and a later rendering loads the draft over
  edits. A final stage of 0 cannot be entered directly, since only a changed
  number is marked. The chosen effect candidate outlives its turn, and the label
  of an unconfirmed draft the confirmation.

Statistics:

- `rank` restarts on every page of the list and is stored as the ranking; rows
  that cannot be read are dropped silently, which only a stated total notices;
  the `--species` filter publishes a generation of one species; the interval
  between requests is not kept before robots files and retries; a section of the
  second site extends to the end of the page.

Answers:

- A huge confidence overflows the conversion of the older schema; a `SWITCH`
  line's basis of support is not looked at; confirmed moves count whichever
  Pokemon used them, and fainted foes may switch in.

Selection page:

- A name given by a human to a crop that is already provisional under that name
  is a duplicate and never becomes trusted (`selection_roi/service.py:307`); a
  wrong guess left untouched makes the correct name, given later, a conflict.
  Promotion compares with images promoted before it, so likeness is not
  transitive there, and evidence is counted per name.

Own team:

- The details editor raises for a member of one to three moves
  (`ui/team_build_editor.py:96`), which the validation allows. One invalid preset
  row hides all presets. Deleting a preset drops the staged details and then
  renders an earlier view, which puts them back into the window only
  (`ui/window.py:918`). Names changed in the editor are not written to the
  fields, so the details do not fit and the confirmation drops them.

## 7. Abstractions and what is left out

Facts, boards and switch sets are identified by which confirmation they came
from; a payload of the lanes is legal or not, and what makes a turn's payload
legal is `TurnAnswer`; a failure is one of a few classes; the documents sent to
the provider are functions of the rows they are built from, so "the rebuilt
request has the same hash" is equality of those rows. Images are numbers with a
likeness; what recognition finds is a choice. The windows' gates above the
commands of the lanes are not assumed: any command may come at any time, so every
behaviour of the windows is included.

*Not modelled.* Display text, widgets, layout, charts and telemetry; migrations
and row encodings; HTML parsing, HTTP and Qt devices; image recognition itself;
the ability and evidence cards, whose rows no modelled guard reads; side effects,
weather and terrain, which follow the stages' rule; the recovery view
(`turn_state_recovery.py`), which only reads; the catalogs' contents. They are
pure data, pure I/O or presentation.

## 8. Plan

Done, in this order: `BattleDomain`, `SelectionAdvice`, `SelectionContract`,
`TurnAdvice`, `MatchExport`; then the statistics, capture, the two pages, the
record of a turn, the answers, the reference images, the own team, and the
projection over both lanes; `TurnContract`; and the proofs listed above. Left:
the remaining categories of a record (side effects, weather) and the ability
confirmations, should a guard come to depend on them.
