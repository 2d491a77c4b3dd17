----------------------------- MODULE MatchExport -----------------------------
(***************************************************************************)
(* The end of a match (application/match_service.py, match_export_v3.py):  *)
(* the human states the outcome, the match is written to a JSON file, the  *)
(* file is recorded, and only then can the next match begin.  The turns    *)
(* are those of TurnAdvice, whose late answers, corrections and process    *)
(* stops decide what there is to export.                                   *)
(*                                                                         *)
(* export_match first writes the file and then, in a transaction of its    *)
(* own, records it; between the two only the worker threads run, or the    *)
(* process stops.  The bytes of a file are the rows it was made of, for    *)
(* each turn.                                                              *)
(***************************************************************************)
EXTENDS TurnAdvice, Projection, FiniteSetsExt

VARIABLES
  outcomes,   \* outcomes[m]: final_battle_revision in match_outcomes, or None
  files,      \* files[m]: content of maple-match-<m>.json, or NoFile
  exports,    \* exports[m]: content whose hash match_exports holds, or NoFile
  exporting   \* the file is written, its record is not

exportVars == <<outcomes, files, exports, exporting>>
allVars == <<vars, exportVars>>

---------------------------------------------------------------------------
Matches == 1..MaxMatches
Rows == [facts: Nat, advice: Nat, result: Nat, state: Nat]
Document == [turns: Seq(Rows), written: BOOLEAN]
NoFile == [turns |-> <<>>, written |-> FALSE]

Newest(rows) == IF rows = {} THEN None ELSE Max(rows)
RowsOf(table, t) ==
  {i \in DOMAIN table : table[i].match = match /\ table[i].turn = t}

(* match_uses_rich_state_contract *)
UsesRichState == \E i \in DOMAIN states : states[i].match = match

(* Mutant: the facts first confirmed. *)
ExportedFirst(t) ==
  [facts |-> IF RowsOf(facts, t) = {} THEN None ELSE Min(RowsOf(facts, t)),
   advice |-> Newest(RowsOf(advices, t)),
   result |-> Newest(RowsOf(completions, t)),
   state |-> Newest(RowsOf(states, t))]

(* The rows of one turn in the document: the latest facts and the latest   *)
(* advice by insertion, the recorded action, the confirmed state.          *)
Exported(t) ==
  [facts |-> Newest(RowsOf(facts, t)),
   advice |-> Newest(RowsOf(advices, t)),
   result |-> Newest(RowsOf(completions, t)),
   state |-> Newest(RowsOf(states, t))]

(* The document of the match that is on the table. *)
Content == [turns |-> [t \in 1..session.turn |-> Exported(t)], written |-> TRUE]

(* _build_export_payload: every turn has facts and a recorded action. *)
TurnsAreComplete ==
  \A t \in 1..session.turn : Exported(t).facts # None /\ Exported(t).result # None

(* validate_confirmed_states_for_export, then the same once more on the    *)
(* encoded document: one state for each turn, each linked to the state of  *)
(* the turn before, none newer than the outcome.                           *)
StatesFormChain ==
  LET ofMatch == {i \in DOMAIN states : states[i].match = match} IN
  \A i \in ofMatch :
    /\ states[i].rev <= outcomes[match]
    /\ RowsOf(states, states[i].turn) = {i}
    /\ \A k \in ofMatch :
         (k < i /\ \A n \in ofMatch : ~(k < n /\ n < i)) =>
            /\ states[i].prev = k
            /\ states[i].turn = states[k].turn + 1
            /\ states[k].rev < states[i].rev

(* validate_delta_chain_for_export: each result is of an exported state, a *)
(* state has one at most.                                                  *)
ResultsFormChain ==
  \A c, d \in {c \in DOMAIN completions : completions[c].match = match} :
    /\ states[completions[c].state].match = match
    /\ completions[c].state = completions[d].state => c = d

MayWrite ==
  /\ outcomes[match] # None
  /\ TurnsAreComplete
  /\ UsesRichState => StatesFormChain /\ ResultsFormChain

---------------------------------------------------------------------------
ExportInit ==
  /\ Init
  /\ outcomes = [m \in Matches |-> None]
  /\ files = [m \in Matches |-> NoFile]
  /\ exports = [m \in Matches |-> NoFile]
  /\ exporting = FALSE

(* Mutant: a match may end in the middle of a turn. *)
EndMatchInTurn ==
  /\ ui.step = "idle" /\ ~exporting
  /\ session.active /\ session.state \notin NotAbortable
  /\ outcomes[match] = None
  /\ outcomes' = [outcomes EXCEPT ![match] = session.rev + 1]
  /\ session' = [session EXCEPT !.state = "MATCH_ENDED", !.rev = @ + 1]
  /\ complains' = FALSE
  /\ UNCHANGED <<match, record, provider, threads, ui, counts,
                 files, exports, exporting>>

(* end_match *)
EndMatch ==
  /\ ui.step = "idle" /\ ~exporting
  /\ session.active
  /\ outcomes[match] = None
  /\ session.state \in Endable
  /\ outcomes' = [outcomes EXCEPT ![match] = session.rev + 1]
  /\ session' = [session EXCEPT !.state = "MATCH_ENDED", !.rev = @ + 1]
  /\ complains' = FALSE
  /\ UNCHANGED <<match, record, provider, threads, ui, counts,
                 files, exports, exporting>>

(* export_match, up to the file: it must not exist, or hold these bytes. *)
WriteExport ==
  /\ ui.step = "idle" /\ ~exporting
  /\ session.active /\ session.state = "MATCH_ENDED"
  /\ MayWrite
  /\ files[match] \in {NoFile, Content}
  /\ files' = [files EXCEPT ![match] = Content]
  /\ exporting' = TRUE
  /\ UNCHANGED <<vars, outcomes, exports>>

(* export_match, its transaction. *)
CommitExport ==
  /\ exporting
  /\ session.active /\ session.state = "MATCH_ENDED"
  /\ exports[match] = NoFile
  /\ exports' = [exports EXCEPT ![match] = files[match]]
  /\ session' = [session EXCEPT !.state = "MATCH_EXPORTED", !.rev = @ + 1]
  /\ exporting' = FALSE
  /\ complains' = FALSE
  /\ UNCHANGED <<match, record, provider, threads, ui, counts,
                 outcomes, files>>

(* new_match_after_export: the slot passes to the next match, whose        *)
(* Selection comes before its first battle row (see BeginBattle).          *)
NewMatchAfterExport ==
  /\ ui.step = "idle" /\ ~exporting
  /\ session.active /\ session.state = "MATCH_EXPORTED"
  /\ exports[match] # NoFile
  /\ session' = [session EXCEPT !.active = FALSE]
  /\ complains' = FALSE
  /\ UNCHANGED <<match, record, provider, threads, ui, counts, exportVars>>

(* The UI thread is inside export_match: only worker threads run. *)
DuringExport ==
  /\ exporting
  /\ \/ /\ \E l \in Remote : WorkerStep(l)
        /\ UNCHANGED exporting
     \/ Crash /\ exporting' = FALSE
  /\ UNCHANGED <<outcomes, files, exports>>

PlayTurns == ~exporting /\ Next /\ UNCHANGED exportVars

ExportNext ==
  \/ PlayTurns
  \/ DuringExport
  \/ EndMatch
  \/ WriteExport \/ CommitExport
  \/ NewMatchAfterExport

ExportSpec == ExportInit /\ [][ExportNext]_allVars /\ Fairness
---------------------------------------------------------------------------
(* Properties.                                                             *)

Ended == session.active /\ session.state = "MATCH_ENDED"
Corrected == \E t \in 1..session.turn : Cardinality(RowsOf(states, t)) > 1

(* A match that has ended can be neither aborted nor continued, so its     *)
(* export must be possible.  Whatever was answered late, interrupted or    *)
(* aborted before, it is, unless the board of a turn was corrected.        *)
OnlyCorrectionsBlockExport == Ended => (MayWrite \/ Corrected)

(* A stop between the file and its record does no harm: the next attempt   *)
(* would write the bytes it finds (EXPORT_FILE_CONTENT_MISMATCH would      *)
(* block the match for good).                                              *)
ExportCanFinish == Ended => files[match] \in {NoFile, Content}

(* The recorded file is the one on disk, and nothing that happens after    *)
(* the outcome, a late answer included, changes what it should contain.    *)
FileIsOfTheRecord ==
  /\ \A m \in Matches : exports[m] # NoFile => files[m] = exports[m]
  /\ (session.active /\ session.state = "MATCH_EXPORTED") =>
       exports[match] = Content

(* A document shows for each turn the board confirmed last, and advice     *)
(* that was asked for that board and no earlier one.                       *)
ExportPairsAdviceWithBoard ==
  Ended => \A t \in 1..session.turn :
    LET row == Exported(t)
        j == jobs[advices[row.advice].job]
    IN row.advice # None /\ row.facts # None =>
         IF j.lane = "RICH" THEN states[j.snap].input = facts[row.facts].input
                            ELSE j.snap = row.facts

(* What is written is what was confirmed, and can be written again.        *)
ExportIsFaithful == ExportCanFinish /\ FileIsOfTheRecord /\ ExportPairsAdviceWithBoard

(* projection, of the active match and its latest job.                     *)
MatchOffer ==
  LET of == {j \in Jobs : jobs[j].match = match} IN
  AtMatchEnd(session.state,
    Project(session.state, session.board # None, session.advice # None,
            IF of = {} THEN "NONE" ELSE jobs[Max(of)].status))

(* The button the window shows is one the application will accept, though  *)
(* the two look at different rows.  Two buttons lead nowhere: the request  *)
(* of a board whose one attempt was made and failed, and the record of a   *)
(* turn whose rich state was lost to a process stop.  No button is shown   *)
(* only while an answer is on its way, or its delivery is unknown.         *)
OffersAreAccepted ==
  (session.active /\ ui.step = "idle" /\ ~exporting) =>
    LET offer == MatchOffer
        p == offer.primary
    IN /\ "ABORT_MATCH" \in offer.also => session.state \notin NotAbortable
       /\ "END_MATCH" \in offer.also => outcomes[match] = None
       /\ p = "START_TURN_CAPTURE" => session.turn = 0
       /\ p = "REQUEST_TURN_ADVICE" =>
            \A r \in ledger :
              (r.match = match /\ ~r.rich /\ r.snap = session.board) =>
                 jobs[r.job].status \in Terminal \ {"SUCCEEDED"}
       /\ p = "RECORD_ACTUAL_ACTION" =>
            /\ RowsOf(completions, session.turn) = {}
            /\ \A i \in DOMAIN states : IsLatestState(i) =>
                 \/ states[i].turn = session.turn
                 \/ RowsOf(states, session.turn) = {} /\ crashes > 0
       /\ p = "NEXT_TURN" => \E i \in DOMAIN states, c \in DOMAIN completions : MayAdvance(i, c)
       /\ p = "NEW_MATCH" => exports[match] # NoFile
       /\ p = NoCommand => \E j \in Jobs : IsLatest(j) /\ jobs[j].status \in Pending

---------------------------------------------------------------------------
(* Statements of the documentation that the code does not keep.            *)

(* "Bundle A's chain rules guarantee at most one confirmed state per       *)
(* turn_number" (application/match_service.py, _build_export_payload_v3):  *)
(* an ended match can be exported.                                         *)
EndedMatchHasOneStatePerTurn ==
  Ended => \A t \in 1..session.turn : Cardinality(RowsOf(states, t)) <= 1
=============================================================================
