--------------------------- MODULE TurnWorkbench ---------------------------
(***************************************************************************)
(* The TURN page of the official window: the form of the turn facts, the   *)
(* snapshot frozen for the turn, the worker that reads it in a thread of   *)
(* its own, and the two-step entry of action and result.  Four sources     *)
(* write a field of the form: the operator, the candidates of the          *)
(* snapshot, the draft carried from the turn before, and the stored facts. *)
(*                                                                         *)
(* The match itself is TurnAdvice's; here only what the page sees of it.   *)
(***************************************************************************)
EXTENDS Naturals, Sequences

CONSTANTS
  Fields,         \* the fields a snapshot is read for
  MaxTurns,       \* bound: turns
  MaxSnapshots    \* bound: snapshots frozen

ASSUME WorkbenchAssumption == MaxTurns \in Nat \ {0} /\ MaxSnapshots \in Nat

VARIABLES
  battle,     \* what the page sees of the match
  form,       \* the fields with their origins and locks
  snapshot,   \* the active snapshot, whether it is being read, their counter
  bundle,     \* the candidates on display
  worker,     \* TurnSnapshotOcrWorker
  results,    \* results on their way to the window's thread
  page        \* of the action workbench: "entry" or "result"

workbenchVars == <<battle, form, snapshot, bundle, worker, results, page>>

NoShot == [turn |-> 0, shot |-> 0]
Identities == [turn : 1..MaxTurns, shot : 1..MaxSnapshots]
NoBundle == [identity |-> NoShot, read |-> {}]

Blank == [value |-> "empty", turn |-> 0, origin |-> "EMPTY", locked |-> FALSE]
Origins == {"EMPTY", "CARRY", "RESULT", "OCR", "HUMAN"}

(* What the turn's draft says of a field: nothing, the value confirmed in  *)
(* the turn before, or a value its action result established.              *)
Drafts == [Fields -> {"unknown", "carried", "result"}]
NoDraft == [f \in Fields |-> "unknown"]

WorkbenchInit ==
  /\ battle = [state |-> "BATTLE_READY", turn |-> 0, draft |-> NoDraft, advised |-> FALSE]
  /\ form = [f \in Fields |-> Blank]
  /\ snapshot = [active |-> NoShot, counter |-> 0, awaited |-> FALSE]
  /\ bundle = NoBundle
  /\ worker \in {[here |-> h, pending |-> NoShot, running |-> NoShot] : h \in BOOLEAN}
  /\ results = <<>>
  /\ page = "entry"

Pending == battle.state = "TURN_CAPTURE_PENDING"

----------------------------------------------------------------------------
(***************************************************************************)
(* Rendering.  A new turn number empties the form, and only its values;    *)
(* the draft is then bound to every field nobody has claimed.              *)
(***************************************************************************)
Emptied(fields) ==
  [f \in Fields |-> [fields[f] EXCEPT !.value = "empty", !.turn = 0]]

Claimed(field) == field.locked \/ field.origin \in {"OCR", "HUMAN"}

(* A mutant: what was confirmed or derived before wins over the operator. *)
BoundAlways(fields, draft, turn) ==
  [f \in Fields |->
    IF draft[f] = "unknown" THEN fields[f]
    ELSE [value |-> "draft", turn |-> turn, locked |-> fields[f].locked,
          origin |-> IF draft[f] = "carried" THEN "CARRY" ELSE "RESULT"]]

Bound(fields, draft, turn) ==
  [f \in Fields |->
    IF draft[f] = "unknown" \/ Claimed(fields[f]) THEN fields[f]
    ELSE [value |-> "draft", turn |-> turn, locked |-> FALSE,
          origin |-> IF draft[f] = "carried" THEN "CARRY" ELSE "RESULT"]]

NewTurnRendered(fields, draft, turn) == Bound(Emptied(fields), draft, turn)

(* _clear_turn_snapshot_candidate_display for a new turn. *)
Reset == [f \in Fields |-> Blank]

(* submit: in the place of a frame still waiting. *)
QueuedForOcr(id) == IF worker.here THEN [worker EXCEPT !.pending = id] ELSE worker

(***************************************************************************)
(* _submit_frozen_turn_frame: the next identity becomes the active one,    *)
(* also when no frame could be frozen; a frame goes to the worker.         *)
(***************************************************************************)
Submit(turn, frozen) ==
  LET id == [turn |-> turn, shot |-> snapshot.counter + 1] IN
  /\ snapshot' = [active |-> id, counter |-> id.shot, awaited |-> frozen /\ worker.here]
  /\ bundle' = NoBundle
  /\ worker' = IF frozen THEN QueuedForOcr(id) ELSE worker

MayFreeze == snapshot.counter < MaxSnapshots

----------------------------------------------------------------------------
(***************************************************************************)
(* The buttons.                                                            *)
(***************************************************************************)
StartTurn(frozen) ==
  /\ battle.state = "BATTLE_READY" /\ MayFreeze
  /\ battle' = [battle EXCEPT !.state = "TURN_CAPTURE_PENDING", !.turn = 1]
  /\ form' = Bound(Reset, battle.draft, 1)
  /\ Submit(1, frozen)
  /\ UNCHANGED <<results, page>>

Retake(frozen) ==
  /\ Pending /\ MayFreeze
  /\ Submit(battle.turn, frozen)
  /\ form' = Bound(form, battle.draft, battle.turn)
  /\ UNCHANGED <<battle, results, page>>

(* Typing into a field, or choosing from its box. *)
Type(f, value) ==
  /\ Pending
  /\ form' = [form EXCEPT ![f] = [value |-> value, turn |-> battle.turn,
                                  origin |-> "HUMAN", locked |-> TRUE]]
  /\ UNCHANGED <<battle, snapshot, bundle, worker, results, page>>

(* Adopting the candidate on display for a field. *)
Adopt(f) ==
  /\ battle.state \in {"TURN_CAPTURE_PENDING", "TURN_REVIEWED"}
  /\ f \in bundle.read
  /\ form' = [form EXCEPT ![f] = [value |-> "ocr", turn |-> bundle.identity.turn,
                                  origin |-> "HUMAN", locked |-> TRUE]]
  /\ UNCHANGED <<battle, snapshot, bundle, worker, results, page>>

(* CONFIRM TURN FACTS; the stored facts are loaded into the form. *)
Confirm ==
  /\ Pending /\ \A f \in Fields : form[f].value # "empty"
  /\ battle' = [battle EXCEPT !.state = "TURN_REVIEWED"]
  /\ form' = [f \in Fields |-> [form[f] EXCEPT !.value = "facts", !.turn = battle.turn]]
  /\ UNCHANGED <<snapshot, bundle, worker, results, page>>

Advise ==
  /\ battle.state = "TURN_REVIEWED" /\ ~battle.advised
  /\ battle' = [battle EXCEPT !.advised = TRUE]
  /\ UNCHANGED <<form, snapshot, bundle, worker, results, page>>

RecordsAction == battle.state = "TURN_REVIEWED" /\ battle.advised

(* 結果記録 turns to the result page and writes nothing; back again. *)
TurnPage ==
  /\ RecordsAction
  /\ page' = IF page = "entry" THEN "result" ELSE "entry"
  /\ UNCHANGED <<battle, form, snapshot, bundle, worker, results>>

NextBattle(draft) ==
  [state |-> "TURN_CAPTURE_PENDING", turn |-> battle.turn + 1, draft |-> draft,
   advised |-> FALSE]

Recorded == [battle EXCEPT !.state = "TURN_RECORDED", !.advised = FALSE]

(* NEXT TURN on the result page: record, then advance, in one press.  A    *)
(* refused record changes nothing; a refused advance leaves TURN_RECORDED. *)
CommitAndAdvance(draft) ==
  /\ RecordsAction /\ page = "result" /\ battle.turn < MaxTurns
  /\ battle' = NextBattle(draft)
  /\ form' = NewTurnRendered(form, draft, battle.turn + 1)
  /\ page' = "entry"
  /\ UNCHANGED <<snapshot, bundle, worker, results>>

CommitOnly ==
  /\ RecordsAction /\ page = "result"
  /\ battle' = Recorded
  /\ page' = "entry"
  /\ UNCHANGED <<form, snapshot, bundle, worker, results>>

(* NEXT TURN from TURN_RECORDED: freeze, advance, submit, render. *)
NextTurn(draft, frozen) ==
  /\ battle.state = "TURN_RECORDED" /\ battle.turn < MaxTurns /\ MayFreeze
  /\ battle' = NextBattle(draft)
  /\ form' = Bound(Reset, draft, battle.turn + 1)
  /\ Submit(battle.turn + 1, frozen)
  /\ UNCHANGED <<results, page>>

EndMatch ==
  /\ battle.state \in {"BATTLE_READY", "TURN_RECORDED"}
  /\ battle' = [battle EXCEPT !.state = "MATCH_ENDED"]
  /\ UNCHANGED <<form, snapshot, bundle, worker, results, page>>

----------------------------------------------------------------------------
(***************************************************************************)
(* The worker and the way of its results.                                  *)
(***************************************************************************)
Take ==
  /\ worker.here /\ worker.pending # NoShot /\ worker.running = NoShot
  /\ worker' = [worker EXCEPT !.running = worker.pending, !.pending = NoShot]
  /\ UNCHANGED <<battle, form, snapshot, bundle, results, page>>

(* A mutant: an exception ends the thread. *)
EmitOrDie(read) ==
  /\ worker.running # NoShot
  /\ results' = IF read = {} THEN results
                ELSE Append(results, [identity |-> worker.running, read |-> read])
  /\ worker' = [worker EXCEPT !.running = NoShot, !.here = @ /\ read # {}]
  /\ UNCHANGED <<battle, form, snapshot, bundle, page>>

(* A result, with candidates good enough to fill the fields of read in;    *)
(* an exception is a result without any.                                   *)
Emit(read) ==
  /\ worker.running # NoShot
  /\ results' = Append(results, [identity |-> worker.running, read |-> read])
  /\ worker' = [worker EXCEPT !.running = NoShot]
  /\ UNCHANGED <<battle, form, snapshot, bundle, page>>

IsCurrent(id) == id.turn = battle.turn /\ id = snapshot.active

Fills(f, read) ==
  /\ f \in read /\ ~form[f].locked
  /\ form[f].value = "empty" \/ form[f].origin = "CARRY"

Receive ==
  /\ results # <<>>
  /\ results' = Tail(results)
  /\ LET r == Head(results) IN
     IF Pending /\ IsCurrent(r.identity)
     THEN /\ bundle' = r
          /\ snapshot' = [snapshot EXCEPT !.awaited = FALSE]
          /\ form' = [f \in Fields |->
               IF Fills(f, r.read)
               THEN [value |-> "ocr", turn |-> r.identity.turn, origin |-> "OCR",
                     locked |-> form[f].locked]
               ELSE form[f]]
     ELSE UNCHANGED <<bundle, form, snapshot>>
  /\ UNCHANGED <<battle, worker, page>>

(* The window closed, whatever its worker was doing, and opened again: the *)
(* form shows the stored facts, or the draft.                              *)
Reopen ==
  /\ battle.state # "MATCH_ENDED"
  /\ form' = IF battle.state \in {"TURN_REVIEWED", "TURN_RECORDED"}
             THEN [f \in Fields |-> [Blank EXCEPT !.value = "facts", !.turn = battle.turn]]
             ELSE IF Pending THEN Bound(Reset, battle.draft, battle.turn)
             ELSE Reset
  /\ snapshot' = [snapshot EXCEPT !.active = NoShot, !.awaited = FALSE]
  /\ bundle' = NoBundle
  /\ worker' = [worker EXCEPT !.pending = NoShot, !.running = NoShot]
  /\ results' = <<>>
  /\ page' = "entry"
  /\ UNCHANGED battle

WorkbenchNext ==
  \/ \E frozen \in BOOLEAN : StartTurn(frozen) \/ Retake(frozen)
  \/ \E f \in Fields : Adopt(f) \/ \E value \in {"human", "empty"} : Type(f, value)
  \/ Confirm \/ Advise \/ TurnPage
  \/ \E draft \in Drafts :
       \/ CommitAndAdvance(draft)
       \/ \E frozen \in BOOLEAN : NextTurn(draft, frozen)
  \/ CommitOnly \/ EndMatch
  \/ Take \/ \E read \in SUBSET Fields : Emit(read)
  \/ Receive \/ Reopen

WorkbenchSpec == WorkbenchInit /\ [][WorkbenchNext]_workbenchVars

----------------------------------------------------------------------------
WorkbenchTypeOK ==
  /\ battle.turn \in 0..MaxTurns /\ battle.draft \in Drafts
  /\ form \in [Fields -> [value : {"empty", "human", "draft", "ocr", "facts"},
                          turn : 0..MaxTurns, origin : Origins, locked : BOOLEAN]]
  /\ {snapshot.active, bundle.identity, worker.pending, worker.running}
       \subseteq Identities \cup {NoShot}
  /\ snapshot.counter \in 0..MaxSnapshots
  /\ \A f \in Fields : form[f].locked <=> form[f].origin = "HUMAN"

(* What the operator put into a field while the turn is captured stays     *)
(* there until the operator changes it, whatever snapshots are taken,      *)
(* replaced and answered, in whatever order, and however often the page    *)
(* renders the draft again.                                                *)
KeepsOperatorInput ==
  \A f \in Fields :
    Pending /\ form[f].locked /\ form'[f].value # form[f].value =>
      \/ form'[f].origin = "HUMAN"                 \* the operator again
      \/ battle'.state # "TURN_CAPTURE_PENDING"    \* confirmed
      \/ snapshot'.active = NoShot                 \* the window reopened

(* A value the page itself took from a snapshot was read from one of the   *)
(* present turn, although results arrive whenever the worker ends and the  *)
(* two-step entry starts a turn without a snapshot of its own.             *)
FilledFromThisTurn ==
  \A f \in Fields :
    Pending /\ form[f].value = "ocr" /\ form[f].origin = "OCR" =>
      form[f].turn = battle.turn

(* A value the turn's draft or an action result established is not         *)
(* replaced by a candidate; only one carried over unseen is.               *)
KeepsResults ==
  \A f \in Fields :
    form[f].origin = "RESULT" /\ form'[f].origin = "OCR" => form[f].value = "empty"

(* The snapshot the page waits for is with the worker or its answer is on  *)
(* the way: none is lost in the one slot of the worker, which a newer one  *)
(* takes, and no exception of the engine ends its thread.                  *)
SnapshotIsOnItsWay ==
  snapshot.awaited /\ Pending /\ snapshot.active.turn = battle.turn =>
    \/ snapshot.active \in {worker.pending, worker.running}
    \/ \E i \in 1..Len(results) : results[i].identity = snapshot.active
=============================================================================
