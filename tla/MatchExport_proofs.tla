------------------------- MODULE MatchExport_proofs -------------------------
(***************************************************************************)
(* The end of a match: proofs about MatchExport, for every number of       *)
(* matches, turns, confirmations, requests and process stops.  What the    *)
(* turns leave behind is HistoryInv of TurnAdvice_proofs; the commands     *)
(* that end a match change only its row and the rows of its file.          *)
(***************************************************************************)
EXTENDS MatchExport, TurnAdvice_proofs

USE DEF None, Jobs, NewJob
USE DEF battle, record, provider, threads, counts

---------------------------------------------------------------------------
(* The commands that end a match.                                          *)

EndStep == EndMatch \/ CommitExport \/ NewMatchAfterExport

(* They leave the tables, the requests and the turn alone.                 *)
OnlySessionEnds ==
  /\ UNCHANGED <<match, record, provider, threads, ui, counts>> /\ complains' = FALSE
  /\ session' \in Session /\ session.active
  /\ session'.turn = session.turn /\ session'.board = session.board
  /\ session'.advice = session.advice
  /\ session'.rev \in {session.rev, session.rev + 1}
  /\ session.state \in {"BATTLE_READY", "TURN_RECORDED", "MATCH_ENDED", "MATCH_EXPORTED"}
  /\ session'.state \in {"MATCH_ENDED", "MATCH_EXPORTED"}
  /\ session'.active \/ session'.state = "MATCH_EXPORTED"

LEMMA StateUpdate ==
  ASSUME NEW r \in Session, NEW x \in BattleState
  PROVE  LET q == [r EXCEPT !.state = x, !.rev = r.rev + 1]
         IN /\ q \in Session /\ q.turn = r.turn /\ q.board = r.board /\ q.advice = r.advice
            /\ q.rev = r.rev + 1 /\ q.state = x /\ q.active = r.active
<1>1. r.rev + 1 \in Nat
  BY DEF Session
<1>2. \A n \in Nat :
        LET q == [r EXCEPT !.state = x, !.rev = n]
        IN /\ q \in Session /\ q.turn = r.turn /\ q.board = r.board /\ q.advice = r.advice
           /\ q.rev = n /\ q.state = x /\ q.active = r.active
  BY DEF Session
<1> QED
  BY <1>1, <1>2

LEMMA EndedSession ==
  ASSUME Typed, EndMatch
  PROVE  /\ OnlySessionEnds
         /\ session'.active /\ session'.state = "MATCH_ENDED"
         /\ session'.rev = session.rev + 1
         /\ session.state \in {"BATTLE_READY", "TURN_RECORDED"}
<1>1. session' = [session EXCEPT !.state = "MATCH_ENDED", !.rev = session.rev + 1]
  BY Zenon DEF EndMatch
<1>2. session \in Session /\ session.rev \in Nat /\ "MATCH_ENDED" \in BattleState
  BY DEF Typed, TypeOK, Session, BattleState
<1>3. /\ session' \in Session /\ session'.turn = session.turn
      /\ session'.board = session.board /\ session'.advice = session.advice
      /\ session'.rev = session.rev + 1 /\ session'.state = "MATCH_ENDED"
      /\ session'.active = session.active
  BY <1>1, <1>2, StateUpdate
<1>4. /\ session.active /\ session.state \in {"BATTLE_READY", "TURN_RECORDED"}
      /\ UNCHANGED <<match, record, provider, threads, ui, counts>> /\ complains' = FALSE
  BY DEF EndMatch, Endable
<1> QED
  BY <1>3, <1>4 DEF OnlySessionEnds

LEMMA CommittedSession ==
  ASSUME Typed, CommitExport
  PROVE  /\ OnlySessionEnds
         /\ session'.active /\ session'.state = "MATCH_EXPORTED"
         /\ session.state = "MATCH_ENDED"
<1>1. session' = [session EXCEPT !.state = "MATCH_EXPORTED", !.rev = session.rev + 1]
  BY Zenon DEF CommitExport
<1>2. session \in Session /\ session.rev \in Nat /\ "MATCH_EXPORTED" \in BattleState
  BY DEF Typed, TypeOK, Session, BattleState
<1>3. /\ session' \in Session /\ session'.turn = session.turn
      /\ session'.board = session.board /\ session'.advice = session.advice
      /\ session'.rev = session.rev + 1 /\ session'.state = "MATCH_EXPORTED"
      /\ session'.active = session.active
  BY <1>1, <1>2, StateUpdate
<1>4. /\ session.active /\ session.state = "MATCH_ENDED"
      /\ UNCHANGED <<match, record, provider, threads, ui, counts>> /\ complains' = FALSE
  BY DEF CommitExport
<1> QED
  BY <1>3, <1>4 DEF OnlySessionEnds

LEMMA ClosedSession ==
  ASSUME Typed, NewMatchAfterExport
  PROVE  OnlySessionEnds /\ ~session'.active
<1>1. session' = [session EXCEPT !.active = FALSE]
  BY Zenon DEF NewMatchAfterExport
<1>2. /\ session' \in Session /\ session'.turn = session.turn
      /\ session'.board = session.board /\ session'.advice = session.advice
      /\ session'.rev = session.rev /\ session'.state = session.state
      /\ ~session'.active
  BY <1>1 DEF Typed, TypeOK, Session
<1>3. /\ session.active /\ session.state = "MATCH_EXPORTED"
      /\ UNCHANGED <<match, record, provider, threads, ui, counts>> /\ complains' = FALSE
  BY DEF NewMatchAfterExport
<1> QED
  BY <1>2, <1>3 DEF OnlySessionEnds

LEMMA EndStepEnds == Typed /\ EndStep => OnlySessionEnds
  BY EndedSession, CommittedSession, ClosedSession DEF EndStep

(* Every other step is one of the turns, or writes the file.               *)
LEMMA ExportStep ==
  ASSUME [ExportNext]_allVars
  PROVE  \/ /\ [Next]_vars /\ UNCHANGED <<outcomes, files, exports>>
            /\ exporting' \in {exporting, FALSE}
         \/ WriteExport /\ UNCHANGED vars
         \/ EndStep
<1>1. CASE PlayTurns
  BY <1>1 DEF PlayTurns, exportVars
<1>2. CASE DuringExport
  <2>1. CASE \E l \in Remote : WorkerStep(l) /\ UNCHANGED exporting
    BY <1>2, <2>1 DEF DuringExport, Next
  <2>2. CASE Crash /\ exporting' = FALSE
    BY <1>2, <2>2 DEF DuringExport, Next
  <2> QED
    BY <1>2, <2>1, <2>2 DEF DuringExport
<1>3. CASE UNCHANGED allVars
  BY <1>3 DEF allVars, exportVars
<1>4. CASE WriteExport
  BY <1>4 DEF WriteExport
<1> QED
  BY <1>1, <1>2, <1>3, <1>4 DEF ExportNext, EndStep

LEMMA TurnsOrEnd ==
  ASSUME [ExportNext]_allVars
  PROVE  [Next]_vars \/ EndStep
  BY ExportStep

LEMMA TypedEnds == Typed /\ OnlySessionEnds => Typed'
  BY DEF OnlySessionEnds, Typed, TypeOK, ControlOK

(* They keep what is true of the requests and of the boards.               *)
LEMMA RequestsEnd ==
  ASSUME OnlySessionEnds
  PROVE  /\ RecordedInv => RecordedInv'
         /\ JobOrder => JobOrder'
         /\ LedgerMatchesJobs => LedgerMatchesJobs'
         /\ AdviceExists /\ AppliedOnce => (AdviceExists /\ AppliedOnce)'
<1>1. RecordedInv => RecordedInv'
  BY DEF OnlySessionEnds, RecordedInv
<1>2. JobOrder => JobOrder'
  BY DEF OnlySessionEnds, JobOrder, PendingIsLatest, NewestExists
<1>3. LedgerMatchesJobs => LedgerMatchesJobs'
  BY DEF OnlySessionEnds, LedgerMatchesJobs, JobKey, RowKey
<1>4. AdviceExists /\ AppliedOnce => (AdviceExists /\ AppliedOnce)'
  <2>1. UNCHANGED <<jobs, results, advices>>
    BY DEF OnlySessionEnds
  <2> QED
    BY <2>1 DEF AdviceExists, AppliedOnce, WasApplied
<1> QED
  BY <1>1, <1>2, <1>3, <1>4

LEMMA BoardsEnd ==
  ASSUME Typed, OnlySessionEnds
  PROVE  /\ BoardInv /\ RecordedInv => BoardInv'
         /\ AdviceOfBoard => AdviceOfBoard'
<1>1. session.rev \in Nat
  BY DEF Typed, TypeOK, Session
<1>2. ASSUME BoardInv, RecordedInv PROVE BoardInv'
  <2>1. ui.step # "state"
    BY <1>2 DEF OnlySessionEnds, RecordedInv
  <2>2. \A i \in DOMAIN states : states[i].match = match =>
          /\ states[i].rev <= session.rev /\ states[i].rev \in Nat
          /\ states[i].rev = session.rev =>
               states[i].input = facts[session.board].input /\ session.advice = None
    BY <1>2, HistoryTypes DEF BoardInv
  <2>3. CASE session'.rev = session.rev
    BY <1>2, <2>1, <2>2, <2>3 DEF OnlySessionEnds, BoardInv
  <2>4. CASE session'.rev = session.rev + 1
    BY <1>1, <1>2, <2>1, <2>2, <2>4 DEF OnlySessionEnds, BoardInv
  <2> QED
    BY <2>3, <2>4 DEF OnlySessionEnds
<1>3. AdviceOfBoard => AdviceOfBoard'
  BY DEF OnlySessionEnds, AdviceOfBoard, AdviceMatchesBoard
<1> QED
  BY <1>2, <1>3

(* And what is true of the history.                                        *)
LEMMA HistoryEnds == Typed /\ HistoryInv /\ EndStep => HistoryInv'
<1> SUFFICES ASSUME Typed, HistoryInv, EndStep PROVE HistoryInv'
  OBVIOUS
<1>1. OnlySessionEnds
  BY EndStepEnds
<1>2. /\ UNCHANGED <<match, facts, states, completions, drafts, ui, crashes>>
      /\ session'.turn = session.turn /\ session'.board = session.board
      /\ session'.rev \in {session.rev, session.rev + 1}
      /\ session.state \in {"BATTLE_READY", "TURN_RECORDED", "MATCH_ENDED", "MATCH_EXPORTED"}
      /\ session'.state \in {"MATCH_ENDED", "MATCH_EXPORTED"}
      /\ session'.active \/ session'.state = "MATCH_EXPORTED"
      /\ session.active
  BY <1>1 DEF OnlySessionEnds
<1>3. /\ session.rev \in Nat
      /\ \A i \in DOMAIN states : states[i].rev \in Nat
      /\ \A i \in DOMAIN drafts : drafts[i].rev \in Nat
  BY HistoryTypes
<1>4. SessionShape'
  BY <1>2 DEF HistoryInv, SessionShape
<1>5. RowsAreOfTurns'
  BY <1>2 DEF HistoryInv, RowsAreOfTurns
<1>6. BoardIsNewest'
  BY <1>2 DEF HistoryInv, BoardIsNewest
<1>7. StatesAreOrdered'
  <2>1. \A i \in DOMAIN states : states[i].match = match =>
          /\ states[i].rev <= session'.rev
          /\ states[i].rev = session'.rev => states[i].turn = session.turn
    BY <1>2, <1>3 DEF HistoryInv, StatesAreOrdered
  <2>2. \A k, n, i : Between(k, n, i)' <=> Between(k, n, i)
    BY <1>2 DEF Between
  <2> QED
    BY <1>2, <2>1, <2>2 DEF HistoryInv, StatesAreOrdered
<1>8. ResultsAreOfStates'
  BY <1>2 DEF HistoryInv, ResultsAreOfStates
<1>9. PlayedIsRecorded'
  <2>1. \A t : Played(t)' => Played(t)
    BY <1>2 DEF Played, BeingPlayed
  <2> QED
    BY <1>2, <2>1 DEF HistoryInv, PlayedIsRecorded
<1>10. DraftsLead'
  <2>1. \A d \in DOMAIN drafts : drafts[d].match = match =>
          /\ drafts[d].rev <= session'.rev
          /\ \A i \in DOMAIN states :
               IsOf(states, i, match, drafts[d].turn) => drafts[d].rev < states[i].rev
    BY <1>2, <1>3 DEF HistoryInv, DraftsLead
  <2> QED
    BY <1>2, <2>1 DEF HistoryInv, DraftsLead
<1>11. StateIsLost'
  BY <1>2 DEF HistoryInv, StateIsLost
<1> QED
  BY <1>4, <1>5, <1>6, <1>7, <1>8, <1>9, <1>10, <1>11 DEF HistoryInv

(* What the turns keep, the end of a match keeps.                          *)
CoreInv ==
  /\ Typed /\ HistoryInv /\ RecordedInv /\ JobOrder /\ LedgerMatchesJobs
  /\ AdviceExists /\ AppliedOnce

LEMMA CoreNext == CoreInv /\ [Next]_vars => CoreInv'
  BY TypedNext, HistoryKept, RecordedKept, JobOrderKept, LedgerKept, AnswersKept DEF CoreInv

LEMMA CoreEnds == CoreInv /\ EndStep => CoreInv'
  BY EndStepEnds, TypedEnds, RequestsEnd, HistoryEnds DEF CoreInv

LEMMA CoreInit == Init => CoreInv
<1> SUFFICES ASSUME Init PROVE CoreInv
  OBVIOUS
<1>1. Typed /\ HistoryInv
  BY TypedInit, HistoryInit
<1>2. RecordedInv
  BY RestTyped DEF Init, RecordedInv
<1>3. JobOrder /\ LedgerMatchesJobs
  BY DEF Init, JobOrder, PendingIsLatest, NewestExists, LedgerMatchesJobs
<1>4. AdviceExists /\ AppliedOnce
  BY DEF Init, AdviceExists, AppliedOnce
<1> QED
  BY <1>1, <1>2, <1>3, <1>4 DEF CoreInv

LEMMA CoreInvariant == ExportSpec => []CoreInv
<1>1. CoreInv /\ [ExportNext]_allVars => CoreInv'
  BY TurnsOrEnd, CoreNext, CoreEnds
<1>2. ExportInit => CoreInv
  BY CoreInit DEF ExportInit
<1> QED
  BY <1>1, <1>2, PTL DEF ExportSpec

---------------------------------------------------------------------------
(* The file of a match.                                                    *)

(* A match that is over.                                                   *)
Over == session.state \in {"MATCH_ENDED", "MATCH_EXPORTED"}

(* No step of the turns touches it, and no turn ends it.                   *)
LEMMA SlotStep ==
  ASSUME Typed, SessionShape, [Next]_vars
  PROVE  \/ /\ session.active /\ Over
            /\ UNCHANGED <<match, session, facts, states, completions, advices>>
         \/ /\ match' = match /\ ~(session'.active /\ Over')
            /\ session'.active => session.active
            /\ ~(session.active /\ Over)
         \/ BeginBattle
<1>1. CASE HistoryIsLeft
  <2>1. /\ match' = match /\ UNCHANGED <<facts, states, completions>>
        /\ session'.active = session.active /\ session'.state = session.state
    BY <1>1, LeftSession DEF HistoryIsLeft
  <2>2. ASSUME NEW j \in Jobs, NEW p, ApplyResult(j, p), session.active, Over
        PROVE  UNCHANGED <<session, advices>>
    BY <2>2, ResultIsApplied DEF Answered, BindingHolds, Over
  <2>3. CASE session.active /\ Over
    BY <1>1, <2>1, <2>2, <2>3 DEF HistoryIsLeft
  <2>4. CASE ~(session.active /\ Over)
    BY <2>1, <2>4 DEF Over
  <2> QED
    BY <2>3, <2>4
<1>2. CASE AbortMatch
  BY <1>2, AbortedSession DEF AbortMatch, NotAbortable, Over
<1>3. CASE StartTurnCapture
  BY <1>3, CaptureSession DEF Over
<1>4. ASSUME NEW o \in Opponent, ConfirmTurnFacts(o)
      PROVE  /\ match' = match /\ ~Over' /\ session.active /\ ~Over
  BY <1>4, ConfirmedSession, ConfirmedBoard DEF Over
<1>5. CASE RecordState /\ AppendState
  BY <1>5 DEF RecordState, SessionShape, Over
<1>6. ASSUME NEW i \in DOMAIN states, RecordAction(i)
      PROVE  /\ match' = match /\ ~Over' /\ session.active /\ ~Over
  BY <1>6, RecordedAction DEF RecordAction, Over
<1>7. ASSUME NEW i \in DOMAIN states, NEW c \in DOMAIN completions, NextTurn(i, c)
      PROVE  /\ match' = match /\ ~Over' /\ session.active /\ ~Over
  BY <1>7, AddedDraft DEF Over
<1> QED
  BY <1>1, <1>2, <1>3, <1>4, <1>5, <1>6, <1>7, HistoryStep

(* The document is made of the tables alone.                               *)
LEMMA ContentKept ==
  ASSUME UNCHANGED <<match, facts, states, completions, advices>>, session'.turn = session.turn
  PROVE  Content' = Content
<1>1. \A t : RowsOf(facts, t)' = RowsOf(facts, t)
  BY DEF RowsOf
<1>2. \A t : RowsOf(advices, t)' = RowsOf(advices, t)
  BY DEF RowsOf
<1>3. \A t : RowsOf(completions, t)' = RowsOf(completions, t)
  BY DEF RowsOf
<1>4. \A t : RowsOf(states, t)' = RowsOf(states, t)
  BY DEF RowsOf
<1>5. \A t : Exported(t)' = Exported(t)
  BY <1>1, <1>2, <1>3, <1>4 DEF Exported, Newest
<1> QED
  BY <1>5 DEF Content

LEMMA ContentIsAFile == Content # NoFile
  BY DEF Content, NoFile

(* The strengthening: before the outcome a match has neither outcome nor   *)
(* file; afterwards its states are no newer than the outcome; until the    *)
(* file is recorded it is the document or absent, and it is the document   *)
(* while the record is being made.                                         *)
FilesInv ==
  /\ session.active => match \in Matches
  /\ outcomes \in [Matches -> Nat] /\ DOMAIN files = Matches /\ DOMAIN exports = Matches
  /\ \A m \in Matches :
       (m > match \/ (m = match /\ session.active /\ ~Over)) =>
          outcomes[m] = None /\ files[m] = NoFile /\ exports[m] = NoFile
  /\ (session.active /\ Over) =>
       /\ outcomes[match] # None
       /\ \A i \in DOMAIN states : states[i].match = match => states[i].rev <= outcomes[match]
  /\ Ended => exports[match] = NoFile /\ files[match] \in {NoFile, Content}
  /\ exporting => Ended /\ files[match] = Content
  /\ FileIsOfTheRecord

LEMMA FilesTurn ==
  ASSUME Typed, SessionShape, FilesInv, [Next]_vars, UNCHANGED <<outcomes, files, exports>>,
         exporting' \in {exporting, FALSE}
  PROVE  FilesInv'
<1> USE DEF FilesInv
<1>1. match \in Nat /\ MaxMatches \in Nat
  BY HistoryTypes, TurnBoundsAreNaturals
<1>2. exporting' => exporting
  OBVIOUS
<1>3. outcomes' \in [Matches -> Nat] /\ DOMAIN files' = Matches /\ DOMAIN exports' = Matches
  OBVIOUS
<1>4. CASE /\ session.active /\ Over
           /\ UNCHANGED <<match, session, facts, states, completions, advices>>
  <2>1. Content' = Content
    BY <1>4, ContentKept
  <2> QED
    BY <1>4, <1>2, <1>3, <2>1 DEF Over, Ended, FileIsOfTheRecord
<1>5. CASE /\ match' = match /\ ~(session'.active /\ Over')
           /\ session'.active => session.active
           /\ ~(session.active /\ Over)
  <2>1. ~Ended /\ ~Ended' /\ ~exporting'
    BY <1>5, <1>2 DEF Ended, Over
  <2>2. FileIsOfTheRecord'
    BY <1>5 DEF FileIsOfTheRecord, Over
  <2>3. \A m \in Matches :
          (m > match' \/ (m = match' /\ session'.active /\ ~Over')) =>
            outcomes'[m] = None /\ files'[m] = NoFile /\ exports'[m] = NoFile
    BY <1>5
  <2> QED
    BY <1>5, <1>3, <2>1, <2>2, <2>3, Zenon
<1>6. CASE BeginBattle
  <2>1. /\ match' = match + 1 /\ session'.active /\ session'.state = "BATTLE_READY"
        /\ ~session.active /\ match < MaxMatches /\ match + 1 > match
    BY <1>6, BegunSession
  <2>2. match' \in Matches
    BY <1>1, <2>1 DEF Matches
  <2>3. \A m \in Matches :
          (m > match' \/ (m = match' /\ session'.active /\ ~Over')) =>
            outcomes'[m] = None /\ files'[m] = NoFile /\ exports'[m] = NoFile
    <3>1. \A m \in Matches : m >= match + 1 => m > match
      BY <1>1 DEF Matches
    <3> QED
      BY <1>1, <2>1, <3>1 DEF Matches
  <2>4. FileIsOfTheRecord' /\ ~Over' /\ ~Ended' /\ ~exporting'
    BY <1>2, <2>1 DEF FileIsOfTheRecord, Over, Ended
  <2> QED
    BY <1>3, <2>2, <2>3, <2>4, Zenon
<1> QED
  BY <1>4, <1>5, <1>6, SlotStep

LEMMA FilesEndMatch ==
  ASSUME Typed, StatesAreOrdered, FilesInv, EndMatch
  PROVE  FilesInv'
<1>1. /\ session.active /\ session.state \in {"BATTLE_READY", "TURN_RECORDED"}
      /\ session'.active /\ session'.state = "MATCH_ENDED" /\ match' = match
      /\ session'.turn = session.turn /\ states' = states
      /\ UNCHANGED <<facts, completions, advices>>
  BY EndedSession DEF OnlySessionEnds
<1>2. /\ outcomes' = [outcomes EXCEPT ![match] = session.rev + 1]
      /\ UNCHANGED <<files, exports, exporting>> /\ ~exporting
  BY DEF EndMatch
<1>3. session.rev \in Nat /\ match \in Nat /\ \A i \in DOMAIN states : states[i].rev \in Nat
  BY HistoryTypes
<1>4. match \in Matches /\ outcomes \in [Matches -> Nat]
  BY <1>1 DEF FilesInv
<1>5. /\ outcomes' \in [Matches -> Nat] /\ outcomes'[match] = session.rev + 1
      /\ \A m \in Matches : m # match => outcomes'[m] = outcomes[m]
  BY <1>2, <1>3, <1>4
<1>6. outcomes[match] = None /\ files[match] = NoFile /\ exports[match] = NoFile
  BY <1>1, <1>4 DEF FilesInv, Over
<1>7. FileIsOfTheRecord'
  BY <1>1, <1>2 DEF FilesInv, FileIsOfTheRecord
<1>8. /\ outcomes'[match] # None
      /\ \A i \in DOMAIN states : states[i].match = match => states[i].rev <= outcomes'[match]
  BY <1>3, <1>5 DEF StatesAreOrdered
<1>9. \A m \in Matches : m > match => m # match
  BY <1>3 DEF Matches
<1>10. \A m \in Matches :
         (m > match' \/ (m = match' /\ session'.active /\ ~Over')) =>
           outcomes'[m] = None /\ files'[m] = NoFile /\ exports'[m] = NoFile
  BY <1>1, <1>2, <1>5, <1>9 DEF FilesInv, Over
<1> QED
  BY <1>1, <1>2, <1>4, <1>5, <1>6, <1>7, <1>8, <1>10 DEF FilesInv

LEMMA FilesWrite ==
  ASSUME Typed, FilesInv, WriteExport, UNCHANGED vars
  PROVE  FilesInv'
<1>1. /\ UNCHANGED <<match, session, facts, states, completions, advices, outcomes, exports>>
      /\ session.active /\ session.state = "MATCH_ENDED"
      /\ files' = [files EXCEPT ![match] = Content]
  BY DEF WriteExport, vars
<1>2. Content' = Content /\ Over' = Over /\ Ended' = Ended /\ Ended
  BY <1>1, ContentKept DEF Over, Ended
<1>3. match \in Matches /\ DOMAIN files = Matches /\ match \in Nat
  BY <1>1, HistoryTypes DEF FilesInv
<1>4. /\ DOMAIN files' = Matches /\ files'[match] = Content
      /\ \A m \in Matches : m # match => files'[m] = files[m]
  BY <1>1, <1>3
<1>5. \A m \in Matches : m > match => m # match
  BY <1>3 DEF Matches
<1>6. exports[match] = NoFile
  BY <1>2 DEF FilesInv
<1>7. FileIsOfTheRecord'
  BY <1>1, <1>2, <1>4, <1>6 DEF FilesInv, FileIsOfTheRecord
<1>8. \A m \in Matches :
        (m > match' \/ (m = match' /\ session'.active /\ ~Over')) =>
          outcomes'[m] = None /\ files'[m] = NoFile /\ exports'[m] = NoFile
  BY <1>1, <1>2, <1>4, <1>5 DEF FilesInv, Ended, Over
<1> QED
  BY <1>1, <1>2, <1>4, <1>6, <1>7, <1>8 DEF FilesInv

LEMMA FilesCommit ==
  ASSUME Typed, FilesInv, CommitExport
  PROVE  FilesInv'
<1>1. /\ session'.active /\ session'.state = "MATCH_EXPORTED" /\ session.state = "MATCH_ENDED"
      /\ session.active /\ session'.turn = session.turn
      /\ UNCHANGED <<match, facts, states, completions, advices>>
  BY CommittedSession DEF OnlySessionEnds
<1>2. /\ exports' = [exports EXCEPT ![match] = files[match]] /\ ~exporting' /\ exporting
      /\ UNCHANGED <<outcomes, files>>
  BY DEF CommitExport
<1>3. Content' = Content
  BY <1>1, ContentKept
<1>4. match \in Matches /\ DOMAIN exports = Matches /\ match \in Nat
  BY <1>1, HistoryTypes DEF FilesInv
<1>5. /\ DOMAIN exports' = Matches /\ exports'[match] = files[match]
      /\ \A m \in Matches : m # match => exports'[m] = exports[m]
  BY <1>2, <1>4
<1>6. \A m \in Matches : m > match => m # match
  BY <1>4 DEF Matches
<1>7. FileIsOfTheRecord'
  BY <1>1, <1>2, <1>3, <1>5 DEF FilesInv, FileIsOfTheRecord
<1>8. \A m \in Matches :
        (m > match' \/ (m = match' /\ session'.active /\ ~Over')) =>
          outcomes'[m] = None /\ files'[m] = NoFile /\ exports'[m] = NoFile
  BY <1>1, <1>2, <1>5, <1>6 DEF FilesInv, Over
<1> QED
  BY <1>1, <1>2, <1>5, <1>7, <1>8 DEF FilesInv, Ended, Over

LEMMA FilesClose ==
  ASSUME Typed, FilesInv, NewMatchAfterExport
  PROVE  FilesInv'
<1>1. /\ ~session'.active /\ match' = match
      /\ UNCHANGED <<outcomes, files, exports, exporting>> /\ ~exporting
  BY ClosedSession DEF OnlySessionEnds, NewMatchAfterExport, exportVars
<1> QED
  BY <1>1 DEF FilesInv, Ended, FileIsOfTheRecord

LEMMA FilesNext == CoreInv /\ FilesInv /\ [ExportNext]_allVars => FilesInv'
  BY ExportStep, FilesTurn, FilesEndMatch, FilesWrite, FilesCommit, FilesClose
     DEF CoreInv, HistoryInv, EndStep

LEMMA FilesInit == ExportInit => FilesInv
<1> SUFFICES ASSUME ExportInit PROVE FilesInv
  OBVIOUS
<1>1. /\ ~session.active /\ session.state = "ABORTED" /\ exporting = FALSE
      /\ outcomes = [m \in Matches |-> None] /\ files = [m \in Matches |-> NoFile]
      /\ exports = [m \in Matches |-> NoFile]
  BY DEF ExportInit, Init
<1> QED
  BY <1>1 DEF FilesInv, Over, Ended, FileIsOfTheRecord

LEMMA FilesInvariant == ExportSpec => []FilesInv
<1>1. CoreInv /\ FilesInv /\ [ExportNext]_allVars => FilesInv'
  BY FilesNext
<1>2. ExportInit => FilesInv
  BY FilesInit
<1> QED
  BY <1>1, <1>2, CoreInvariant, PTL DEF ExportSpec

(* A match's file can always be finished, whenever the process stopped     *)
(* between the file and its record; and the file on record is the one on   *)
(* disk and the document of the match, which no late answer changes any    *)
(* more (export_match).                                                    *)
THEOREM FilesAreOfTheRecord == ExportSpec => [](ExportCanFinish /\ FileIsOfTheRecord)
<1>1. FilesInv => ExportCanFinish /\ FileIsOfTheRecord
  BY DEF FilesInv, ExportCanFinish
<1> QED
  BY <1>1, FilesInvariant, PTL

(* Ending, exporting and leaving matches breaks no history either.         *)
THEOREM HistorySurvivesExport == ExportSpec => []HistoryIsUnbroken
<1>1. CoreInv => HistoryIsUnbroken
  BY HistoryHolds DEF CoreInv
<1> QED
  BY <1>1, CoreInvariant, PTL

---------------------------------------------------------------------------
(* The document pairs boards with their advice.                            *)

(* What a step can do to the rows the document pairs.                      *)
SlotIsLeft == UNCHANGED <<match, facts, session, advices>>
SlotIsAnswered ==
  UNCHANGED <<match, facts, states>> /\ \E j \in Jobs : Answered(j)
TurnIsClosed ==
  /\ UNCHANGED <<match, facts, states, advices>>
  /\ session'.turn = session.turn /\ session'.board = session.board
  /\ session'.advice = session.advice /\ session'.state \in {"TURN_RECORDED", "ABORTED"}
  /\ session'.state = "TURN_RECORDED" => session.advice # None /\ session.board # None
BoardIsConfirmed ==
  /\ UNCHANGED <<match, states, advices>>
  /\ DOMAIN facts' = DOMAIN facts \cup {Len(facts) + 1}
  /\ \A f \in DOMAIN facts : facts'[f] = facts[f]
  /\ facts'[Len(facts) + 1].match = match /\ facts'[Len(facts) + 1].turn = session.turn
  /\ session'.turn = session.turn /\ session'.advice = None
  /\ session'.board = Len(facts) + 1 /\ session'.state = "TURN_REVIEWED"
TurnIsOpened ==
  /\ UNCHANGED <<match, facts, states, advices>>
  /\ session.turn = 0 \/ session.state = "TURN_RECORDED"
  /\ session'.turn = session.turn + 1 /\ session'.board = None /\ session'.advice = None
  /\ session'.state = "TURN_CAPTURE_PENDING"

LEMMA PairStep ==
  ASSUME Typed, [Next]_vars
  PROVE  \/ SlotIsLeft \/ SlotIsAnswered \/ TurnIsClosed
         \/ BoardIsConfirmed \/ TurnIsOpened \/ BeginBattle
<1>1. CASE HistoryIsLeft
  <2>1. ASSUME NEW j \in Jobs, NEW p, ApplyResult(j, p)
        PROVE  Answered(j) \/ UNCHANGED <<session, advices>>
    BY <2>1, ResultIsApplied
  <2> QED
    BY <1>1, <2>1 DEF HistoryIsLeft, SlotIsLeft, SlotIsAnswered
<1>2. CASE AbortMatch
  BY <1>2, AbortedSession DEF AbortMatch, TurnIsClosed
<1>3. CASE StartTurnCapture
  BY <1>3, CaptureSession DEF TurnIsOpened
<1>4. ASSUME NEW o \in Opponent, ConfirmTurnFacts(o)
      PROVE  BoardIsConfirmed
  BY <1>4, ConfirmedSession, ConfirmedBoard DEF BoardIsConfirmed
<1>5. CASE RecordState /\ AppendState
  BY <1>5 DEF RecordState, SlotIsLeft
<1>6. ASSUME NEW i \in DOMAIN states, RecordAction(i)
      PROVE  TurnIsClosed
  BY <1>6, RecordedAction, RecordedSession DEF TurnIsClosed
<1>7. ASSUME NEW i \in DOMAIN states, NEW c \in DOMAIN completions, NextTurn(i, c)
      PROVE  TurnIsOpened
  BY <1>7, AddedDraft DEF TurnIsOpened
<1> QED
  BY <1>1, <1>2, <1>3, <1>4, <1>5, <1>6, <1>7, HistoryStep

(* The advice of a past turn was asked for its last board.                 *)
IsNewestOf(table, i, m, t) ==
  IsOf(table, i, m, t) /\ \A k \in DOMAIN table : IsOf(table, k, m, t) => k <= i
IsPair(f, a) ==
  LET j == jobs[advices[a].job]
  IN IF j.lane = "RICH" THEN states[j.snap].input = facts[f].input ELSE j.snap = f
PastIsPaired ==
  \A t \in 1..session.turn : t < session.turn =>
    \A f \in DOMAIN facts, a \in DOMAIN advices :
      (IsNewestOf(facts, f, match, t) /\ IsNewestOf(advices, a, match, t)) => IsPair(f, a)

(* The advice of the session is the newest of its turn, and a turn that    *)
(* was recorded has one.                                                   *)
AdviceIsNewest ==
  /\ RowsUpTo(advices, match, session.turn)
  /\ session.advice # None => IsNewestOf(advices, session.advice, match, session.turn)
  /\ (session.turn > 0 /\ (session.state = "TURN_RECORDED" \/ Over)) =>
       session.advice # None /\ session.board # None

LEMMA AdviceTypes ==
  ASSUME Typed
  PROVE  /\ DOMAIN advices \subseteq Nat /\ Len(advices) \in Nat
         /\ \A a \in DOMAIN advices : /\ advices[a].match \in Nat /\ advices[a].turn \in Nat
                                      /\ a <= Len(advices)
<1>1. advices \in Seq(Advice)
  BY DEF Typed, TypeOK
<1>2. DOMAIN advices = 1..Len(advices) /\ Len(advices) \in Nat
  BY <1>1, LenProperties
<1>3. \A a \in DOMAIN advices : advices[a] \in Advice
  BY <1>1, <1>2, ElementOfSeq
<1> QED
  BY <1>2, <1>3 DEF Advice

LEMMA AnsweredSession ==
  ASSUME Typed, NEW j \in Jobs, Answered(j)
  PROVE  /\ session'.advice = Len(advices) + 1 /\ session'.turn = session.turn
         /\ session'.board = session.board /\ session'.state = session.state
         /\ session.state = "TURN_REVIEWED"
<1>1. session' = [session EXCEPT !.advice = Len(advices) + 1, !.rev = session.rev + 1]
  BY Zenon DEF Answered
<1> QED
  BY <1>1 DEF Typed, TypeOK, Session, Answered, BindingHolds

LEMMA AdviceStaysNewest ==
  ASSUME Typed, SessionShape, AdviceIsNewest, [Next]_vars
  PROVE  AdviceIsNewest'
<1>1. /\ DOMAIN advices \subseteq Nat /\ Len(advices) \in Nat /\ match \in Nat
      /\ session.turn \in Nat
      /\ \A a \in DOMAIN advices : /\ advices[a].match \in Nat /\ advices[a].turn \in Nat
                                   /\ a <= Len(advices)
  BY AdviceTypes, HistoryTypes
<1>2. CASE SlotIsLeft
  BY <1>2 DEF SlotIsLeft, AdviceIsNewest, Over
<1>3. ASSUME NEW j \in Jobs, Answered(j), match' = match
      PROVE  AdviceIsNewest'
  <2>1. /\ session'.advice = Len(advices) + 1 /\ session'.turn = session.turn
        /\ session'.state = "TURN_REVIEWED" /\ session.turn >= 1
    BY <1>3, AnsweredSession DEF SessionShape
  <2>2. /\ DOMAIN advices' = DOMAIN advices \cup {Len(advices) + 1}
        /\ \A a \in DOMAIN advices : advices'[a] = advices[a]
        /\ advices'[Len(advices) + 1].match = match
        /\ advices'[Len(advices) + 1].turn = session.turn
    BY <1>3 DEF Answered
  <2>3. RowsUpTo(advices', match', session'.turn)
    BY <1>1, <1>3, <2>1, <2>2 DEF AdviceIsNewest, RowsUpTo
  <2>4. IsNewestOf(advices', Len(advices) + 1, match, session.turn)
    BY <1>1, <2>2 DEF IsNewestOf, IsOf
  <2> QED
    BY <1>3, <2>1, <2>3, <2>4 DEF AdviceIsNewest, Over
<1>4. CASE TurnIsClosed
  <2>1. RowsUpTo(advices', match', session'.turn)
    BY <1>4 DEF TurnIsClosed, AdviceIsNewest
  <2>2. session'.advice # None => IsNewestOf(advices', session'.advice, match', session'.turn)
    BY <1>4 DEF TurnIsClosed, AdviceIsNewest
  <2>3. ~Over'
    BY <1>4 DEF Over, TurnIsClosed
  <2> QED
    BY <1>4, <2>1, <2>2, <2>3 DEF TurnIsClosed, AdviceIsNewest
<1>5. CASE BoardIsConfirmed
  BY <1>5 DEF BoardIsConfirmed, AdviceIsNewest, Over
<1>6. CASE TurnIsOpened
  <2>1. RowsUpTo(advices', match', session'.turn)
    BY <1>1, <1>6 DEF TurnIsOpened, AdviceIsNewest, RowsUpTo
  <2> QED
    BY <1>6, <2>1 DEF TurnIsOpened, AdviceIsNewest, Over
<1>7. CASE BeginBattle
  <2>1. /\ match' = match + 1 /\ session'.turn = 0 /\ session'.advice = None
        /\ advices' = advices
    BY <1>7, BegunSession
  <2>2. RowsUpTo(advices', match', session'.turn)
    BY <1>1, <2>1 DEF AdviceIsNewest, RowsUpTo
  <2> QED
    BY <2>1, <2>2 DEF AdviceIsNewest
<1> QED
  BY <1>2, <1>3, <1>4, <1>5, <1>6, <1>7, PairStep DEF SlotIsAnswered

(* A pair stays one.                                                       *)
LEMMA PairStays ==
  ASSUME Typed, AdviceExists, SnapsExist, [Next]_vars,
         NEW f \in DOMAIN facts, NEW a \in DOMAIN advices, IsPair(f, a)
  PROVE  IsPair(f, a)'
<1> DEFINE j == advices[a].job
<1>1. /\ j \in Jobs /\ advices'[a] = advices[a] /\ SameRequest(jobs'[j], jobs[j])
  BY RowsAreKept DEF AdviceExists
<1>2. jobs[j].snap \in RowsOfLane(jobs[j].lane)
  BY <1>1 DEF SnapsExist
<1>3. /\ facts'[f] = facts[f]
      /\ jobs[j].lane = "RICH" => states'[jobs[j].snap] = states[jobs[j].snap]
  BY <1>2, BoardsGrow DEF RowsOfLane
<1> QED
  BY <1>1, <1>3 DEF IsPair, SameRequest

(* The pair of the turn that is left is that of the session.               *)
LEMMA PairOfBoard ==
  ASSUME Typed, BoardIsNewest, AdviceIsNewest, AdviceOfBoard, session.turn > 0,
         session.state = "TURN_RECORDED" \/ Over,
         NEW f \in DOMAIN facts, IsNewestOf(facts, f, match, session.turn),
         NEW a \in DOMAIN advices, IsNewestOf(advices, a, match, session.turn)
  PROVE  IsPair(f, a)
<1>1. session.advice # None /\ session.board # None
  BY DEF AdviceIsNewest
<1>2. DOMAIN facts \subseteq Nat /\ DOMAIN advices \subseteq Nat
  BY HistoryTypes, AdviceTypes
<1>3. f = session.board
  BY <1>1, <1>2 DEF BoardIsNewest, IsNewestOf, IsOf
<1>4. a = session.advice
  BY <1>1, <1>2 DEF AdviceIsNewest, IsNewestOf, IsOf
<1> QED
  BY <1>1, <1>3, <1>4 DEF AdviceOfBoard, AdviceMatchesBoard, IsPair

LEMMA PastStaysPaired ==
  ASSUME Typed, AdviceExists, SnapsExist, BoardIsNewest, AdviceIsNewest, AdviceOfBoard,
         PastIsPaired, [Next]_vars
  PROVE  PastIsPaired'
<1>1. session.turn \in Nat /\ match \in Nat
  BY HistoryTypes
<1> SUFFICES ASSUME NEW t \in 1..session'.turn, t < session'.turn,
                    NEW f \in DOMAIN facts', IsNewestOf(facts', f, match', t),
                    NEW a \in DOMAIN advices', IsNewestOf(advices', a, match', t)
             PROVE  IsPair(f, a)'
  BY DEF PastIsPaired
<1>2. ASSUME f \in DOMAIN facts, a \in DOMAIN advices, IsPair(f, a)
      PROVE  IsPair(f, a)'
  BY <1>2, PairStays
<1>3. CASE SlotIsLeft \/ TurnIsClosed
  <2>1. /\ match' = match /\ facts' = facts /\ advices' = advices
        /\ session'.turn = session.turn
    BY <1>3 DEF SlotIsLeft, TurnIsClosed
  <2>2. IsPair(f, a)
    BY <2>1 DEF PastIsPaired
  <2> QED
    BY <1>2, <2>1, <2>2
<1>4. ASSUME NEW j \in Jobs, Answered(j), UNCHANGED <<match, facts>>
      PROVE  IsPair(f, a)'
  <2>1. session'.turn = session.turn
    BY <1>4, AnsweredSession
  <2>2. /\ DOMAIN advices' = DOMAIN advices \cup {Len(advices) + 1}
        /\ \A b \in DOMAIN advices : advices'[b] = advices[b]
        /\ advices'[Len(advices) + 1].turn = session.turn
    BY <1>4 DEF Answered
  <2>3. a \in DOMAIN advices /\ IsNewestOf(advices, a, match, t)
    BY <1>1, <1>4, <2>1, <2>2 DEF IsNewestOf, IsOf
  <2>4. f \in DOMAIN facts /\ IsNewestOf(facts, f, match, t)
    BY <1>4
  <2>5. IsPair(f, a)
    BY <2>1, <2>3, <2>4 DEF PastIsPaired
  <2> QED
    BY <1>2, <2>3, <2>4, <2>5
<1>5. CASE BoardIsConfirmed
  <2>1. /\ session'.turn = session.turn /\ match' = match /\ advices' = advices
        /\ DOMAIN facts' = DOMAIN facts \cup {Len(facts) + 1}
        /\ \A k \in DOMAIN facts : facts'[k] = facts[k]
        /\ facts'[Len(facts) + 1].turn = session.turn
    BY <1>5 DEF BoardIsConfirmed
  <2>2. f \in DOMAIN facts /\ IsNewestOf(facts, f, match, t)
    BY <1>1, <2>1 DEF IsNewestOf, IsOf
  <2>3. IsPair(f, a)
    BY <2>1, <2>2 DEF PastIsPaired
  <2> QED
    BY <1>2, <2>1, <2>2, <2>3
<1>6. CASE TurnIsOpened
  <2>1. /\ match' = match /\ facts' = facts /\ advices' = advices
        /\ session'.turn = session.turn + 1
        /\ session.turn = 0 \/ session.state = "TURN_RECORDED"
    BY <1>6 DEF TurnIsOpened
  <2>2. CASE t = session.turn
    <3>1. session.turn > 0 /\ session.state = "TURN_RECORDED"
      BY <1>1, <2>1, <2>2
    <3>2. IsPair(f, a)
      BY <2>1, <2>2, <3>1, PairOfBoard
    <3> QED
      BY <1>2, <2>1, <3>2
  <2>3. CASE t < session.turn
    <3>1. t \in 1..session.turn
      BY <1>1, <2>1, <2>3
    <3>2. IsPair(f, a)
      BY <2>1, <2>3, <3>1 DEF PastIsPaired
    <3> QED
      BY <1>2, <2>1, <3>2
  <2> QED
    BY <1>1, <2>1, <2>2, <2>3
<1>7. CASE BeginBattle
  <2>1. session'.turn = 0
    BY <1>7, BegunSession
  <2> QED
    BY <2>1
<1> QED
  BY <1>3, <1>4, <1>5, <1>6, <1>7, PairStep DEF SlotIsAnswered

(* Without a refused confirmation the pairs are kept to the end.           *)
PairInv ==
  BoardInv /\ AdviceOfBoard /\ SnapsExist /\ AdviceIsNewest /\ PastIsPaired

LEMMA PairNext ==
  CoreInv /\ PairInv /\ [Next]_vars /\ rejections = 0 /\ rejections' = 0 => PairInv'
<1> SUFFICES ASSUME CoreInv, PairInv, [Next]_vars, rejections = 0, rejections' = 0
             PROVE  PairInv'
  OBVIOUS
<1>1. /\ Typed /\ AdviceExists /\ SessionShape /\ BoardIsNewest /\ BoardInv /\ AdviceOfBoard
      /\ SnapsExist /\ AdviceIsNewest /\ PastIsPaired
  BY DEF CoreInv, HistoryInv, PairInv
<1>2. BoardInv'
  BY <1>1, BoardInvKept
<1>3. AdviceOfBoard'
  BY <1>1, AdviceOfBoardKept
<1>4. SnapsExist'
  BY <1>1, SnapsKept
<1>5. AdviceIsNewest'
  BY <1>1, AdviceStaysNewest
<1>6. PastIsPaired'
  BY <1>1, PastStaysPaired
<1> QED
  BY <1>2, <1>3, <1>4, <1>5, <1>6 DEF PairInv

LEMMA PairEnds == CoreInv /\ PairInv /\ EndStep => PairInv'
<1> SUFFICES ASSUME CoreInv, PairInv, EndStep
             PROVE  PairInv'
  OBVIOUS
<1>1. OnlySessionEnds /\ Typed /\ RecordedInv /\ SessionShape
  BY EndStepEnds DEF CoreInv, HistoryInv
<1>2. BoardInv' /\ AdviceOfBoard'
  BY <1>1, BoardsEnd DEF PairInv
<1>3. /\ UNCHANGED <<match, facts, states, advices, jobs>> /\ session'.turn = session.turn
      /\ session'.board = session.board /\ session'.advice = session.advice
      /\ session.state \in {"BATTLE_READY", "TURN_RECORDED", "MATCH_ENDED", "MATCH_EXPORTED"}
  BY <1>1 DEF OnlySessionEnds
<1>4. SnapsExist'
  BY <1>3 DEF PairInv, SnapsExist, RowsOfLane
<1>5. session.turn \in Nat /\ (session.state = "BATTLE_READY" => session.turn = 0)
  BY <1>1, HistoryTypes DEF SessionShape
<1>6. AdviceIsNewest'
  <2>1. session.turn > 0 => session.state = "TURN_RECORDED" \/ Over
    BY <1>3, <1>5 DEF Over
  <2>2. session.turn > 0 => session.advice # None /\ session.board # None
    BY <2>1 DEF PairInv, AdviceIsNewest
  <2> QED
    BY <1>3, <2>2 DEF PairInv, AdviceIsNewest
<1>7. PastIsPaired'
  BY <1>3 DEF PairInv, PastIsPaired, IsPair
<1> QED
  BY <1>2, <1>4, <1>6, <1>7 DEF PairInv

(* The newest row of a turn is one.                                        *)
LEMMA NewestIsOf ==
  ASSUME NEW table, NEW n \in Nat, DOMAIN table = 1..n, NEW t,
         Newest(RowsOf(table, t)) # None
  PROVE  IsNewestOf(table, Newest(RowsOf(table, t)), match, t)
<1> DEFINE S == RowsOf(table, t)
<1>1. S \subseteq Nat /\ \A s \in S : s <= n
  BY DEF RowsOf
<1>2. S # {} /\ Newest(S) = Max(S)
  BY DEF Newest
<1>3. \E x \in S : \A y \in S : y <= x
  BY <1>1, <1>2, LargestOf
<1>4. \E x \in S : \A y \in S : x >= y
  BY <1>1, <1>3
<1>5. Max(S) \in S /\ \A y \in S : Max(S) >= y
  BY <1>4 DEF Max
<1>6. \A i : i \in S <=> IsOf(table, i, match, t)
  BY DEF RowsOf, IsOf
<1> HIDE DEF S
<1>7. IsOf(table, Max(S), match, t) /\ \A y \in DOMAIN table : IsOf(table, y, match, t) => y <= Max(S)
  BY <1>1, <1>5, <1>6
<1> QED
  BY <1>2, <1>7 DEF IsNewestOf, S

LEMMA DocumentPairs == CoreInv /\ PairInv => ExportPairsAdviceWithBoard
<1> SUFFICES ASSUME CoreInv, PairInv, Ended, NEW t \in 1..session.turn,
                    Exported(t).advice # None, Exported(t).facts # None
             PROVE  IsPair(Exported(t).facts, Exported(t).advice)
  BY DEF ExportPairsAdviceWithBoard, IsPair
<1> DEFINE f == Exported(t).facts
           a == Exported(t).advice
<1>1. f = Newest(RowsOf(facts, t)) /\ a = Newest(RowsOf(advices, t))
  BY DEF Exported
<1>2. /\ DOMAIN facts = 1..Len(facts) /\ Len(facts) \in Nat
      /\ DOMAIN advices = 1..Len(advices) /\ Len(advices) \in Nat
  BY LenProperties DEF CoreInv, Typed, TypeOK
<1>3. IsNewestOf(facts, f, match, t)
  BY <1>1, <1>2, NewestIsOf
<1>4. IsNewestOf(advices, a, match, t)
  BY <1>1, <1>2, NewestIsOf
<1>5. f \in DOMAIN facts /\ a \in DOMAIN advices
  BY <1>3, <1>4 DEF IsNewestOf, IsOf
<1> HIDE DEF f, a
<1>6. session.turn \in Nat
  BY HistoryTypes DEF CoreInv
<1>7. CASE t = session.turn
  <2>1. /\ Typed /\ BoardIsNewest /\ AdviceIsNewest /\ AdviceOfBoard
        /\ session.turn > 0 /\ Over
    BY <1>6, <1>7 DEF CoreInv, HistoryInv, PairInv, Ended, Over
  <2> QED
    BY <1>3, <1>4, <1>5, <1>7, <2>1, PairOfBoard DEF f, a
<1>8. CASE t < session.turn
  BY <1>3, <1>4, <1>5, <1>8 DEF PairInv, PastIsPaired, f, a
<1> QED
  BY <1>6, <1>7, <1>8

(* As long as the application refuses no confirmation, the document shows  *)
(* for every turn the board confirmed last with advice that was asked for  *)
(* it, whichever corrections and late answers came between                 *)
(* (_build_export_payload); it is what is on disk, and can be written      *)
(* again.                                                                  *)
THEOREM ExportIsFaithfulUnlessRefused ==
  ExportSpec /\ [](rejections = 0) => []ExportIsFaithful
<1>1. ExportInit => PairInv
  <2> SUFFICES ASSUME ExportInit PROVE PairInv
    OBVIOUS
  <2>1. /\ session.turn = 0 /\ session.advice = None /\ ui.step = "idle"
        /\ states = <<>> /\ jobs = <<>> /\ advices = <<>>
    BY RestTyped DEF ExportInit, Init
  <2>2. BoardInv /\ AdviceOfBoard
    BY <2>1 DEF BoardInv, AdviceOfBoard, AdviceMatchesBoard
  <2>3. SnapsExist /\ AdviceIsNewest /\ PastIsPaired
    BY <2>1 DEF SnapsExist, AdviceIsNewest, PastIsPaired, RowsUpTo
  <2> QED
    BY <2>2, <2>3 DEF PairInv
<1>2. CoreInv /\ PairInv /\ [ExportNext]_allVars
        /\ rejections = 0 /\ (rejections = 0)' => PairInv'
  BY TurnsOrEnd, PairNext, PairEnds
<1>3. CoreInv /\ PairInv /\ FilesInv => ExportIsFaithful
  BY DocumentPairs DEF FilesInv, ExportCanFinish, ExportIsFaithful
<1> QED
  BY <1>1, <1>2, <1>3, CoreInvariant, FilesInvariant, PTL DEF ExportSpec

---------------------------------------------------------------------------
(* What can block an export.                                               *)

LEMMA NewestIsThere ==
  ASSUME NEW table, NEW n \in Nat, DOMAIN table = 1..n, NEW t,
         \E i \in DOMAIN table : IsOf(table, i, match, t)
  PROVE  Newest(RowsOf(table, t)) # None
<1> DEFINE S == RowsOf(table, t)
<1>1. S \subseteq 1..n /\ S # {} /\ \A s \in S : s <= n
  BY DEF RowsOf, IsOf
<1>2. S \subseteq Nat
  BY <1>1
<1>3. \E x \in S : \A y \in S : y <= x
  BY <1>1, <1>2, LargestOf
<1>4. \E x \in S : \A y \in S : x >= y
  BY <1>2, <1>3
<1>5. Max(S) \in S
  BY <1>4 DEF Max
<1>6. Max(S) # 0
  BY <1>1, <1>5
<1> QED
  BY <1>1, <1>6 DEF Newest

(* Each turn of an ended match has a board and a result.                   *)
LEMMA EndedIsComplete ==
  ASSUME Typed, PlayedIsRecorded, Ended
  PROVE  TurnsAreComplete
<1> SUFFICES ASSUME NEW t \in 1..session.turn
             PROVE  Exported(t).facts # None /\ Exported(t).result # None
  BY DEF TurnsAreComplete
<1>1. Played(t)
  BY DEF Played, BeingPlayed, Ended
<1>2. /\ \E f \in DOMAIN facts : IsOf(facts, f, match, t)
      /\ \E c \in DOMAIN completions : IsOf(completions, c, match, t)
  BY <1>1 DEF PlayedIsRecorded
<1>3. /\ DOMAIN facts = 1..Len(facts) /\ Len(facts) \in Nat
      /\ DOMAIN completions = 1..Len(completions) /\ Len(completions) \in Nat
  BY LenProperties DEF Typed, TypeOK
<1>4. Newest(RowsOf(facts, t)) # None
  BY <1>2, <1>3, NewestIsThere
<1>5. Newest(RowsOf(completions, t)) # None
  BY <1>2, <1>3, NewestIsThere
<1> QED
  BY <1>4, <1>5 DEF Exported

(* Where no board was corrected, a turn has one state.                     *)
LEMMA OneStatePerTurn ==
  ASSUME Typed, RowsAreOfTurns, ~Corrected,
         NEW i \in DOMAIN states, states[i].match = match
  PROVE  RowsOf(states, states[i].turn) = {i}
<1> DEFINE S == RowsOf(states, states[i].turn)
<1>1. states[i].turn \in 1..session.turn
  BY DEF RowsAreOfTurns, RowsUpTo
<1>2. ~(Cardinality(S) > 1)
  BY <1>1 DEF Corrected
<1>3. S \subseteq 1..Len(states) /\ Len(states) \in Nat /\ i \in S
  BY LenProperties DEF RowsOf, Typed, TypeOK
<1>4. IsFiniteSet(1..Len(states))
  BY <1>3, FS_Interval
<1>5. IsFiniteSet(S)
  BY <1>3, <1>4, FS_Subset
<1> HIDE DEF S
<1>6. Cardinality(S) \in Nat /\ Cardinality(S) # 0
  BY <1>3, <1>5, FS_CardinalityType, FS_EmptySet
<1>7. Cardinality(S) = 1
  BY <1>2, <1>6
<1>8. PICK x : S = {x}
  BY <1>5, <1>7, FS_Singleton
<1> QED
  BY <1>3, <1>8 DEF S

(* Then the states lead from turn to turn: no turn in between was left     *)
(* without one.                                                            *)
LEMMA StatesLead ==
  ASSUME Typed, RowsAreOfTurns, StatesAreOrdered, ResultsAreOfStates, PlayedIsRecorded, Ended,
         ~Corrected, NEW i \in DOMAIN states, NEW k \in DOMAIN states,
         states[i].match = match, states[k].match = match, k < i,
         \A n \in DOMAIN states : ~Between(k, n, i)
  PROVE  states[i].turn = states[k].turn + 1
<1>1. /\ states[i].turn \in Nat /\ states[k].turn \in Nat /\ DOMAIN states \subseteq Nat
      /\ \A n \in DOMAIN states : states[n].turn \in Nat
  BY HistoryTypes
<1>2. /\ states[k].turn <= states[i].turn
      /\ states[i].turn \in 1..session.turn
  BY DEF StatesAreOrdered, RowsAreOfTurns, RowsUpTo
<1>3. states[k].turn # states[i].turn
  <2>1. RowsOf(states, states[i].turn) = {i}
    BY OneStatePerTurn
  <2>2. states[k].turn = states[i].turn => k \in RowsOf(states, states[i].turn)
    BY DEF RowsOf
  <2> QED
    BY <1>1, <2>1, <2>2
<1>4. ASSUME states[i].turn # states[k].turn + 1 PROVE FALSE
  <2> DEFINE t == states[k].turn + 1
  <2>1. t \in 1..session.turn /\ t < states[i].turn /\ states[k].turn < t
    BY <1>1, <1>2, <1>3, <1>4, HistoryTypes
  <2> HIDE DEF t
  <2>2. Played(t)
    BY <2>1 DEF Played, BeingPlayed, Ended
  <2>3. PICK c \in DOMAIN completions : IsOf(completions, c, match, t)
    BY <2>1, <2>2 DEF PlayedIsRecorded
  <2>4. PICK n \in DOMAIN states : states[n].match = match /\ states[n].turn = t
    BY <2>3 DEF ResultsAreOfStates, IsOf
  <2>5. n # k /\ n # i
    BY <1>1, <2>1, <2>4
  <2>6. ~(n < k)
    <3>1. n < k => states[n].turn <= states[k].turn
      BY <2>4 DEF StatesAreOrdered
    <3> QED
      BY <1>1, <2>1, <2>4, <3>1
  <2>7. ~(i < n)
    <3>1. i < n => states[i].turn <= states[n].turn
      BY <2>4 DEF StatesAreOrdered
    <3> QED
      BY <1>1, <2>1, <2>4, <3>1
  <2>8. k < n /\ n < i
    BY <1>1, <2>5, <2>6, <2>7
  <2> QED
    BY <2>4, <2>8 DEF Between
<1> QED
  BY <1>4

LEMMA UncorrectedChain ==
  ASSUME CoreInv, FilesInv, Ended, ~Corrected
  PROVE  StatesFormChain
<1>1. /\ Typed /\ RowsAreOfTurns /\ StatesAreOrdered /\ ResultsAreOfStates
      /\ PlayedIsRecorded
  BY DEF CoreInv, HistoryInv
<1> DEFINE ofMatch == {n \in DOMAIN states : states[n].match = match}
<1> SUFFICES ASSUME NEW i \in ofMatch
             PROVE  /\ states[i].rev <= outcomes[match]
                    /\ RowsOf(states, states[i].turn) = {i}
                    /\ \A k \in ofMatch :
                         (k < i /\ \A n \in ofMatch : ~(k < n /\ n < i)) =>
                            /\ states[i].prev = k
                            /\ states[i].turn = states[k].turn + 1
                            /\ states[k].rev < states[i].rev
  BY DEF StatesFormChain
<1>2. states[i].rev <= outcomes[match]
  BY DEF FilesInv, Ended, Over
<1>3. RowsOf(states, states[i].turn) = {i}
  BY <1>1, OneStatePerTurn
<1>4. ASSUME NEW k \in ofMatch, k < i, \A n \in ofMatch : ~(k < n /\ n < i)
      PROVE  /\ states[i].prev = k
             /\ states[i].turn = states[k].turn + 1
             /\ states[k].rev < states[i].rev
  <2>1. \A n \in DOMAIN states : ~Between(k, n, i)
    BY <1>4 DEF Between
  <2>2. states[i].prev = k /\ states[k].rev < states[i].rev
    BY <1>1, <1>4, <2>1 DEF StatesAreOrdered
  <2>3. states[i].turn = states[k].turn + 1
    BY <1>1, <1>4, <2>1, StatesLead
  <2> QED
    BY <2>2, <2>3
<1> QED
  BY <1>2, <1>3, <1>4

LEMMA EndedMayWrite == CoreInv /\ FilesInv => OnlyCorrectionsBlockExport
<1> SUFFICES ASSUME CoreInv, FilesInv, Ended, ~Corrected
             PROVE  MayWrite
  BY DEF OnlyCorrectionsBlockExport
<1>1. outcomes[match] # None
  BY DEF FilesInv, Ended, Over
<1>2. TurnsAreComplete
  BY EndedIsComplete DEF CoreInv, HistoryInv
<1>3. StatesFormChain
  BY UncorrectedChain
<1>4. ResultsFormChain
  <2>1. ResultsAreOfStates
    BY DEF CoreInv, HistoryInv
  <2>2. ASSUME NEW c \in DOMAIN completions, NEW d \in DOMAIN completions,
               completions[c].match = match, completions[d].match = match
        PROVE  /\ states[completions[c].state].match = match
               /\ completions[c].state = completions[d].state => c = d
    BY <2>1, <2>2 DEF ResultsAreOfStates, IsOf
  <2> QED
    BY <2>2 DEF ResultsFormChain
<1> QED
  BY <1>1, <1>2, <1>3, <1>4 DEF MayWrite

(* A match that has ended can be exported, whatever was answered late,     *)
(* refused, interrupted or aborted before, unless the board of one of its  *)
(* turns was confirmed twice (_build_export_payload,                       *)
(* validate_confirmed_states_for_export, validate_delta_chain_for_export). *)
THEOREM OnlyCorrectionsEverBlockExport == ExportSpec => []OnlyCorrectionsBlockExport
  BY EndedMayWrite, CoreInvariant, FilesInvariant, PTL

---------------------------------------------------------------------------
(* What the windows offer.                                                 *)

(* The strengthening: a legacy request of the board that was answered left *)
(* its advice there, and the rows of the ledger are of the jobs they name. *)
AnsweredBoardHasAdvice ==
  \A j \in Jobs :
    (/\ jobs[j].status = "SUCCEEDED" /\ jobs[j].lane # "RICH" /\ jobs[j].match = match
     /\ jobs[j].snap = session.board) => session.advice # None
RowsAreOfJobs ==
  \A r \in ledger : r.job \in Jobs /\ RowKey(r) = JobKey(jobs[r.job])
OfferInv == SnapsExist /\ AnsweredBoardHasAdvice /\ RowsAreOfJobs

LEMMA RowsStayOfJobs == Typed /\ RowsAreOfJobs /\ [Next]_vars => RowsAreOfJobs'
<1> SUFFICES ASSUME Typed, RowsAreOfJobs, [Next]_vars PROVE RowsAreOfJobs'
  OBVIOUS
<1>1. CASE ledger' = ledger /\ JobsAreKept
  <2>1. \A j \in Jobs : JobKey(jobs'[j]) = JobKey(jobs[j])
    BY <1>1 DEF JobsAreKept, SameRequest, JobKey
  <2> QED
    BY <1>1, <2>1 DEF JobsAreKept, RowsAreOfJobs, RowKey
<1>2. ASSUME NEW lane, NEW snap, NEW choice, Requested(lane, snap, choice)
      PROVE  RowsAreOfJobs'
  <2>1. (lane = "RICH") \in BOOLEAN /\ snap \in Nat
    BY <1>2 DEF Requested
  <2>2. PICK row \in LedgerRow :
          /\ ledger' = ledger \cup {row}
          /\ row.match = match /\ row.turn = session.turn /\ row.rich = (lane = "RICH")
          /\ row.snap = snap /\ row.job = NewJob
    BY <1>2, <2>1, ReservedRow DEF Requested
  <2>3. RowKey(row) = JobKey(jobs'[NewJob])
    BY <1>2, <2>2, RequestedAddsJob DEF RowKey, JobKey
  <2>4. Jobs' = Jobs \cup {NewJob} /\ \A j \in Jobs : jobs'[j] = jobs[j]
    BY <1>2, RequestedAddsJob
  <2> QED
    BY <2>2, <2>3, <2>4 DEF RowsAreOfJobs, RowKey, JobKey
<1>3. CASE RequestStep
  BY <1>2, <1>3, RequestsAreRequested
<1>4. CASE JobsAreKept
  <2>1. ledger' = ledger
    <3>1. NewJob \notin Jobs
      BY JobsAreJobs
    <3>2. ASSUME NEW lane, NEW snap, NEW choice, Requested(lane, snap, choice)
          PROVE  FALSE
      BY <1>4, <3>1, <3>2, RequestedAddsJob DEF JobsAreKept
    <3> QED
      BY <3>2, JobStep
  <2> QED
    BY <1>1, <1>4, <2>1
<1> QED
  BY <1>3, <1>4, JobsKept

(* A step makes no other request SUCCEEDED than the one it answers.        *)
LEMMA SuccessStep ==
  ASSUME Typed, [Next]_vars
  PROVE  \/ \E j \in Jobs : Answered(j)
         \/ \A j \in Jobs' :
              jobs'[j].status = "SUCCEEDED" =>
                j \in Jobs /\ jobs[j].status = "SUCCEEDED" /\ SameRequest(jobs'[j], jobs[j])
<1>1. CASE UNCHANGED <<jobs, results, advices>>
  BY <1>1 DEF SameRequest
<1>2. ASSUME NEW lane, NEW snap, NEW choice, Requested(lane, snap, choice),
             NEW j \in Jobs', jobs'[j].status = "SUCCEEDED"
      PROVE  j \in Jobs /\ jobs[j].status = "SUCCEEDED" /\ SameRequest(jobs'[j], jobs[j])
  <2>1. /\ Jobs' = Jobs \cup {NewJob} /\ jobs'[NewJob].status = "QUEUED"
        /\ \A i \in Jobs : jobs'[i] = jobs[i]
    BY <1>2, RequestedAddsJob
  <2> QED
    BY <1>2, <2>1 DEF SameRequest
<1>3. ASSUME NEW i \in Jobs, NEW p, ApplyResult(i, p)
      PROVE  \/ Answered(i)
             \/ /\ Jobs' = Jobs
                /\ \A k \in Jobs :
                     /\ SameRequest(jobs'[k], jobs[k])
                     /\ jobs'[k].status = "SUCCEEDED" <=> jobs[k].status = "SUCCEEDED"
  BY <1>3, ResultIsApplied
<1>4. CASE OnlyStatusesMove
  BY <1>4 DEF OnlyStatusesMove
<1> QED
  BY <1>1, <1>2, <1>3, <1>4, AnswerStep

LEMMA AnsweredBoardKept ==
  ASSUME Typed, SnapsExist, AnsweredBoardHasAdvice, [Next]_vars
  PROVE  AnsweredBoardHasAdvice'
<1>1. ASSUME NEW j \in Jobs, Answered(j)
      PROVE  AnsweredBoardHasAdvice'
  <2>1. session'.advice = Len(advices) + 1 /\ Len(advices) \in Nat
    BY <1>1, AnsweredSession, AdviceTypes
  <2> QED
    BY <2>1 DEF AnsweredBoardHasAdvice
<1>2. ASSUME \A j \in Jobs' :
               jobs'[j].status = "SUCCEEDED" =>
                 j \in Jobs /\ jobs[j].status = "SUCCEEDED" /\ SameRequest(jobs'[j], jobs[j])
      PROVE  AnsweredBoardHasAdvice'
  <2> SUFFICES ASSUME NEW j \in Jobs', jobs'[j].status = "SUCCEEDED", jobs'[j].lane # "RICH",
                      jobs'[j].match = match', jobs'[j].snap = session'.board
               PROVE  session'.advice # None
    BY DEF AnsweredBoardHasAdvice
  <2>1. /\ j \in Jobs /\ jobs[j].status = "SUCCEEDED" /\ jobs[j].lane # "RICH"
        /\ jobs[j].match = match' /\ jobs[j].snap = session'.board
    BY <1>2 DEF SameRequest
  <2>2. /\ jobs[j].snap \in DOMAIN facts /\ DOMAIN facts = 1..Len(facts) /\ Len(facts) \in Nat
    BY <2>1, LenProperties DEF SnapsExist, RowsOfLane, Typed, TypeOK
  <2>3. jobs[j].snap # 0 /\ jobs[j].snap # Len(facts) + 1
    BY <2>2
  <2>4. CASE SlotIsLeft \/ TurnIsClosed
    <3>1. /\ match' = match /\ session'.board = session.board
          /\ session'.advice = session.advice
      BY <2>4 DEF SlotIsLeft, TurnIsClosed
    <3> QED
      BY <2>1, <3>1 DEF AnsweredBoardHasAdvice
  <2>5. CASE SlotIsAnswered
    BY <1>1, <2>1, <2>5, AnsweredSession, AdviceTypes DEF SlotIsAnswered
  <2>6. CASE BoardIsConfirmed \/ TurnIsOpened
    BY <2>1, <2>3, <2>6 DEF BoardIsConfirmed, TurnIsOpened
  <2>7. CASE BeginBattle
    BY <2>1, <2>3, <2>7, BegunSession
  <2> QED
    BY <2>4, <2>5, <2>6, <2>7, PairStep
<1> QED
  BY <1>1, <1>2, SuccessStep

LEMMA OfferNext == CoreInv /\ OfferInv /\ [Next]_vars => OfferInv'
  BY SnapsKept, RowsStayOfJobs, AnsweredBoardKept DEF CoreInv, HistoryInv, OfferInv

LEMMA OfferEnds == OfferInv /\ OnlySessionEnds => OfferInv'
<1> SUFFICES ASSUME OfferInv, OnlySessionEnds PROVE OfferInv'
  OBVIOUS
<1>1. /\ UNCHANGED <<match, facts, states, jobs, ledger>>
      /\ session'.board = session.board /\ session'.advice = session.advice
  BY DEF OnlySessionEnds
<1> QED
  BY <1>1 DEF OfferInv, SnapsExist, RowsOfLane, AnsweredBoardHasAdvice, RowsAreOfJobs,
              RowKey, JobKey

LEMMA OfferInvariant == ExportSpec => []OfferInv
<1>1. ExportInit => OfferInv
  BY DEF ExportInit, Init, OfferInv, SnapsExist, AnsweredBoardHasAdvice, RowsAreOfJobs
<1>2. CoreInv /\ OfferInv /\ [ExportNext]_allVars => OfferInv'
  BY TurnsOrEnd, OfferNext, OfferEnds, EndStepEnds DEF CoreInv
<1> QED
  BY <1>1, <1>2, CoreInvariant, PTL DEF ExportSpec

(* When each command is offered.                                           *)
LEMMA OfferedAt ==
  ASSUME NEW state \in BattleState, NEW reviewed, NEW advised, NEW job
  PROVE  LET o == AtMatchEnd(state, Project(state, reviewed, advised, job))
             p == o.primary
         IN /\ "ABORT_MATCH" \in o.also => state \notin {"MATCH_ENDED", "MATCH_EXPORTED"}
            /\ "END_MATCH" \in o.also => state \in Endable
            /\ p = "START_TURN_CAPTURE" => state = "BATTLE_READY"
            /\ p = "REQUEST_TURN_ADVICE" =>
                 state = "TURN_REVIEWED" /\ job \notin Pending /\ ~advised
            /\ p = "RECORD_ACTUAL_ACTION" => state = "TURN_REVIEWED"
            /\ p = "NEXT_TURN" => state = "TURN_RECORDED"
            /\ p = "NEW_MATCH" => state = "MATCH_EXPORTED"
            /\ p = NoCommand => state = "ABORTED" \/ job \in Pending
<1>1. CASE state \in {"MATCH_ENDED", "MATCH_EXPORTED"}
  BY <1>1 DEF AtMatchEnd, Endable, NoCommand
<1>2. CASE state \notin {"MATCH_ENDED", "MATCH_EXPORTED"}
  <2> DEFINE offer == Project(state, reviewed, advised, job)
             o == AtMatchEnd(state, offer)
  <2>1. /\ offer.primary = "START_TURN_CAPTURE" => state = "BATTLE_READY"
        /\ offer.primary = "REQUEST_TURN_ADVICE" =>
             state = "TURN_REVIEWED" /\ job \notin Pending /\ ~advised
        /\ offer.primary = "RECORD_ACTUAL_ACTION" => state = "TURN_REVIEWED"
        /\ offer.primary = "NEXT_TURN" => state = "TURN_RECORDED"
        /\ offer.primary # "NEW_MATCH"
        /\ offer.primary = NoCommand => state = "ABORTED" \/ job \in Pending
        /\ "END_MATCH" \notin offer.also
        /\ offer = [primary |-> offer.primary, also |-> offer.also]
    BY <1>2 DEF Project, Offer, NoCommand, BattleState
  <2> HIDE DEF offer
  <2>2. o = IF state \in Endable THEN [offer EXCEPT !.also = @ \cup {"END_MATCH"}] ELSE offer
    BY <1>2 DEF AtMatchEnd, Endable
  <2>3. o.primary = offer.primary /\ ("END_MATCH" \in o.also => state \in Endable)
    BY <2>1, <2>2
  <2> QED
    BY <1>2, <2>1, <2>3 DEF offer
<1> QED
  BY <1>1, <1>2

(* The job the projection looks at.                                        *)
OfMatch == {j \in Jobs : jobs[j].match = match}

LEMMA LatestIsOf ==
  ASSUME Typed, OfMatch # {}
  PROVE  IsLatest(Max(OfMatch))
<1>1. Jobs = 1..Len(jobs) /\ Len(jobs) \in Nat
  BY LenProperties DEF Typed, TypeOK
<1>2. OfMatch \subseteq Nat /\ \A j \in OfMatch : j <= Len(jobs)
  BY <1>1 DEF OfMatch
<1>3. \E x \in OfMatch : \A y \in OfMatch : y <= x
  BY <1>1, <1>2, LargestOf
<1>4. \E x \in OfMatch : \A y \in OfMatch : x >= y
  BY <1>2, <1>3
<1>5. Max(OfMatch) \in OfMatch /\ \A y \in OfMatch : Max(OfMatch) >= y
  BY <1>4 DEF Max
<1> DEFINE m == Max(OfMatch)
<1> HIDE DEF m
<1>6. m \in OfMatch /\ \A y \in OfMatch : m >= y
  BY <1>5 DEF m
<1>7. IsLatest(m)
  BY <1>2, <1>6 DEF IsLatest, OfMatch
<1> QED
  BY <1>7 DEF m

(* The action offered for recording finds no result, and the state it is   *)
(* recorded on unless a process stop lost it.                              *)
LEMMA RecordingIsPossible ==
  ASSUME Typed, HistoryInv, session.state = "TURN_REVIEWED", ui.step = "idle"
  PROVE  /\ RowsOf(completions, session.turn) = {}
         /\ \A i \in DOMAIN states : IsLatestState(i) =>
              \/ states[i].turn = session.turn
              \/ RowsOf(states, session.turn) = {} /\ crashes > 0
<1>1. RowsOf(completions, session.turn) = {}
  BY DEF HistoryInv, ResultsAreOfStates, RowsOf, IsOf
<1>2. ASSUME NEW i \in DOMAIN states, IsLatestState(i), states[i].turn # session.turn
      PROVE  RowsOf(states, session.turn) = {} /\ crashes > 0
  <2>1. /\ states[i].turn \in Nat /\ session.turn \in Nat
        /\ \A k \in DOMAIN states : states[k].turn \in Nat
    BY HistoryTypes
  <2>2. states[i].turn <= session.turn
    BY <1>2, <2>1 DEF HistoryInv, RowsAreOfTurns, RowsUpTo, IsLatestState
  <2>3. ASSUME NEW k \in DOMAIN states, IsOf(states, k, match, session.turn)
        PROVE  FALSE
    BY <1>2, <2>1, <2>2, <2>3 DEF IsOf, IsLatestState, NotNewer
  <2>4. RowsOf(states, session.turn) = {}
    BY <2>3 DEF RowsOf, IsOf
  <2> QED
    BY <2>3, <2>4 DEF HistoryInv, StateIsLost
<1> QED
  BY <1>1, <1>2

(* A board without advice has no legacy request that is open or was        *)
(* answered, when the newest request is closed.                            *)
LEMMA BoardWasTriedInVain ==
  ASSUME Typed, JobOrder, OfferInv, session.advice = None,
         OfMatch # {} => jobs[Max(OfMatch)].status \notin Pending,
         NEW r \in ledger, r.match = match, ~r.rich, r.snap = session.board
  PROVE  jobs[r.job].status \in Terminal \ {"SUCCEEDED"}
<1> DEFINE j == r.job
<1>1. /\ j \in Jobs /\ jobs[j].match = match /\ jobs[j].snap = session.board
      /\ jobs[j].lane # "RICH"
  BY DEF OfferInv, RowsAreOfJobs, RowKey, JobKey
<1>2. jobs[j].status # "SUCCEEDED"
  BY <1>1 DEF OfferInv, AnsweredBoardHasAdvice
<1>3. jobs[j].status \in JobStatus /\ Jobs \subseteq Nat
  BY <1>1, JobsAreJobs DEF Job
<1>4. jobs[j].status \notin Pending
  <2>1. OfMatch # {} /\ IsLatest(Max(OfMatch))
    BY <1>1, LatestIsOf DEF OfMatch
  <2> DEFINE m == Max(OfMatch)
  <2> HIDE DEF m
  <2>2. IsLatest(m) /\ jobs[m].status \notin Pending
    BY <2>1 DEF m
  <2>3. m \in Jobs /\ jobs[m].match = match /\ j <= m
    BY <1>1, <2>2 DEF IsLatest
  <2>4. jobs[j].status \in Pending => m <= j
    BY <1>1, <2>3 DEF JobOrder, PendingIsLatest
  <2> QED
    BY <1>1, <1>3, <2>2, <2>3, <2>4
<1> QED
  BY <1>2, <1>3, <1>4 DEF JobStatus

LEMMA OffersHold == CoreInv /\ FilesInv /\ OfferInv => OffersAreAccepted
<1> SUFFICES ASSUME CoreInv, FilesInv, OfferInv, session.active, ui.step = "idle", ~exporting
             PROVE  OffersAreAccepted
  BY DEF OffersAreAccepted
<1> DEFINE job == IF OfMatch = {} THEN "NONE" ELSE jobs[Max(OfMatch)].status
           offer == MatchOffer
           p == offer.primary
           reviewed == session.board # None
           advised == session.advice # None
<1>1. /\ Typed /\ HistoryInv /\ RecordedInv /\ JobOrder /\ SessionShape
      /\ session.state \in BattleState
  BY DEF CoreInv, HistoryInv, Typed, TypeOK, Session
<1>2. offer = AtMatchEnd(session.state, Project(session.state, reviewed, advised, job))
  BY DEF MatchOffer, OfMatch
<1> HIDE DEF offer, job, reviewed, advised
<1>3. /\ "ABORT_MATCH" \in offer.also => session.state \notin {"MATCH_ENDED", "MATCH_EXPORTED"}
      /\ "END_MATCH" \in offer.also => session.state \in Endable
      /\ p = "START_TURN_CAPTURE" => session.state = "BATTLE_READY"
      /\ p = "REQUEST_TURN_ADVICE" =>
           session.state = "TURN_REVIEWED" /\ job \notin Pending /\ ~advised
      /\ p = "RECORD_ACTUAL_ACTION" => session.state = "TURN_REVIEWED"
      /\ p = "NEXT_TURN" => session.state = "TURN_RECORDED"
      /\ p = "NEW_MATCH" => session.state = "MATCH_EXPORTED"
      /\ p = NoCommand => session.state = "ABORTED" \/ job \in Pending
  BY <1>1, <1>2, OfferedAt
<1>4. "ABORT_MATCH" \in offer.also => session.state \notin NotAbortable
  BY <1>1, <1>3 DEF NotAbortable, SessionShape
<1>5. "END_MATCH" \in offer.also => outcomes[match] = None
  <2>1. session.state \in Endable => ~Over
    BY DEF Endable, Over
  <2>2. match \in Matches
    BY DEF FilesInv
  <2> QED
    BY <1>3, <2>1, <2>2 DEF FilesInv
<1>6. p = "START_TURN_CAPTURE" => session.turn = 0
  BY <1>1, <1>3 DEF SessionShape
<1>7. p = "REQUEST_TURN_ADVICE" =>
        \A r \in ledger :
          (r.match = match /\ ~r.rich /\ r.snap = session.board) =>
             jobs[r.job].status \in Terminal \ {"SUCCEEDED"}
  BY <1>1, <1>3, BoardWasTriedInVain DEF job, advised
<1>8. p = "RECORD_ACTUAL_ACTION" =>
        /\ RowsOf(completions, session.turn) = {}
        /\ \A i \in DOMAIN states : IsLatestState(i) =>
             \/ states[i].turn = session.turn
             \/ RowsOf(states, session.turn) = {} /\ crashes > 0
  BY <1>1, <1>3, RecordingIsPossible
<1>9. p = "NEXT_TURN" => \E i \in DOMAIN states, c \in DOMAIN completions : MayAdvance(i, c)
  BY <1>1, <1>3, RecordedIsLeft DEF RecordedTurnCanAdvance
<1>10. p = "NEW_MATCH" => exports[match] # NoFile
  BY <1>3, ContentIsAFile DEF FilesInv, FileIsOfTheRecord
<1>11. p = NoCommand => \E j \in Jobs : IsLatest(j) /\ jobs[j].status \in Pending
  <2>1. session.state # "ABORTED"
    BY <1>1 DEF SessionShape
  <2>2. "NONE" \notin Pending
    BY DEF Pending
  <2>3. ASSUME job \in Pending
        PROVE  OfMatch # {} /\ jobs[Max(OfMatch)].status \in Pending
    BY <2>2, <2>3 DEF job
  <2>4. ASSUME job \in Pending
        PROVE  \E j \in Jobs : IsLatest(j) /\ jobs[j].status \in Pending
    BY <1>1, <2>3, <2>4, LatestIsOf DEF IsLatest
  <2> QED
    BY <1>3, <2>1, <2>4
<1> QED
  BY <1>4, <1>5, <1>6, <1>7, <1>8, <1>9, <1>10, <1>11, Zenon DEF OffersAreAccepted, offer

(* The button the windows show is one the application accepts, in every    *)
(* state of every match: projection, _rich_route_ready and the commands    *)
(* agree though they look at different rows, with the exceptions the       *)
(* property names.                                                         *)
THEOREM OffersAreAlwaysAccepted == ExportSpec => []OffersAreAccepted
  BY OffersHold, CoreInvariant, FilesInvariant, OfferInvariant, PTL

=============================================================================
