----------------------------- MODULE TurnAnswer -----------------------------
(***************************************************************************)
(* What an answer of the provider must satisfy to become the advice of a   *)
(* turn: the parser chosen by the contract of the request, the strict      *)
(* schemas of providers/turn_response.py and turn_response_v2.py, the      *)
(* legality of the action and the grounding of the predictions in what     *)
(* was confirmed earlier in the match (turn_validation.py,                 *)
(* turn_response_v2_semantics.py).  That the answer belongs to the request *)
(* of the turn is the matter of TurnAdvice.                                *)
(*                                                                         *)
(* An answer varies in one respect at a time: its shape, its action, its   *)
(* primary prediction or its alternatives; the checks of these share       *)
(* nothing but the order in which they refuse.  Texts are left out.        *)
(***************************************************************************)
EXTENDS Naturals, Sequences, FiniteSets

CONSTANTS
  Own,         \* the Pokemon brought
  OwnMoves,    \* their moves
  Foes,        \* the opponent's Pokemon
  FoeMoves,    \* their moves
  Usual,       \* Foes -> the moves in the population's statistics
  MaxAsked     \* bound: turns with a request

ASSUME AnswerAssumption ==
  /\ Usual \in [Foes -> SUBSET FoeMoves] /\ MaxAsked \in Nat
  /\ FoeMoves \cap Foes = {}

Nobody == "UNKNOWN"      \* the operator confirmed not to know
NoName == "null"

VARIABLES
  asked,       \* the request of the turn: turn, self, foe, menu, contract
  completed,   \* battle memory: the completed turns
  statistics,  \* statistics are pinned to the match and match its rules
  verdict,     \* on the answer of the turn
  accepted,    \* the accepted answer, none or one
  seenFoes,    \* ghost: the opponent's Pokemon the operator has confirmed
  usedMoves    \* ghost: the opponent's moves the operator has confirmed

answerVars ==
  <<asked, completed, statistics, verdict, accepted, seenFoes, usedMoves>>
-----------------------------------------------------------------------------
(* The schemas. *)
Categories == {"DAMAGING_MOVE", "NON_DAMAGING_MOVE", "SWITCH", "UNKNOWN"}
Bases == {"CONFIRMED_MATCH", "PINNED_RULES", "POPULATION_PRIOR", "GENERAL_KNOWLEDGE", "NONE"}
Level == [LOW |-> 0, MEDIUM |-> 1, HIGH |-> 2]

Lines == [category : Categories, names : {NoName} \cup FoeMoves \cup Foes,
          basis : Bases, support : DOMAIN Level]

(* Mutant: a line without evidence is refused whatever it says. *)
LineIsValidWithBasis(l) ==
  /\ l.category = "UNKNOWN" => l.names = NoName /\ l.support = "LOW"
  /\ l.basis # "NONE"
  /\ l.basis = "GENERAL_KNOWLEDGE" => l.support = "LOW"
  /\ l.basis = "POPULATION_PRIOR" => l.support # "HIGH"
  /\ l.support = "LOW" => l.names = NoName

LineIsValid(l) ==
  /\ l.category = "UNKNOWN" => l.names = NoName /\ l.basis = "NONE" /\ l.support = "LOW"
  /\ l.category # "UNKNOWN" => l.basis # "NONE"
  /\ l.basis = "GENERAL_KNOWLEDGE" => l.support = "LOW"
  /\ l.basis = "POPULATION_PRIOR" => l.support # "HIGH"
  /\ l.support = "LOW" => l.names = NoName

LinesOf(a) == <<a.primary>> \o a.alternatives

PredictionIsValid(a) ==
  /\ Len(a.alternatives) <= 2
  /\ a.primary.category = "UNKNOWN" => a.alternatives = <<>>
  /\ \A i \in DOMAIN a.alternatives :
       /\ a.alternatives[i].category # "UNKNOWN"
       /\ Level[a.alternatives[i].support] <= Level[a.primary.support]
  /\ \A i, j \in DOMAIN LinesOf(a) : i # j =>
       <<LinesOf(a)[i].category, LinesOf(a)[i].names>>
         # <<LinesOf(a)[j].category, LinesOf(a)[j].names>>

TextsAreValid(a) ==
  /\ a.reasons \in 1..2 /\ a.warnings <= 2
  /\ a.robustness = "LOW" => a.warnings > 0

BodyV2IsValid(a) ==
  /\ a.schema = "v2" /\ TextsAreValid(a)
  /\ \A i \in DOMAIN LinesOf(a) : LineIsValid(LinesOf(a)[i])
  /\ PredictionIsValid(a)

(* The older schema: no prediction of it is checked against the match. *)
BodyV1IsValid(a) == a.schema = "v1" /\ a.reasons \in 1..3 /\ a.warnings <= 5

(* By the contract of the request, never by what the answer says it is. *)
ParserOf(contract) == IF contract = "maple-turn-advice.v7" THEN "v2" ELSE "v1"

Parses(a) == IF ParserOf(asked.contract) = "v2" THEN BodyV2IsValid(a) ELSE BodyV1IsValid(a)
-----------------------------------------------------------------------------
(* The legal actions of a turn: the active's moves, the confirmed switches. *)
MoveOf(name, owner) == [id |-> <<"MOVE", name>>, type |-> "MOVE", name |-> name,
                        who |-> owner]
SwitchTo(p) == [id |-> <<"SWITCH", p>>, type |-> "SWITCH", name |-> p, who |-> p]

Menu(self, moves, switches) ==
  {MoveOf(n, self) : n \in moves} \cup {SwitchTo(p) : p \in switches}

(* All three fields are those of one action, which the active can take. *)
IsLegal(a) ==
  \E m \in asked.menu :
    /\ m.id = a.id /\ m.type = a.type /\ m.name = a.name
    /\ m.type = "MOVE" => m.who = asked.self
    /\ m.type = "SWITCH" => m.who \in Own \ {asked.self}
-----------------------------------------------------------------------------
(* The evidence: completed turns and the statistics of the foe at hand. *)
ConfirmedMoves == {completed[i].name : i \in {j \in DOMAIN completed : completed[j].type = "MOVE"}}

HasStatistics == statistics /\ asked.foe \in Foes

UsualMoves == IF HasStatistics THEN Usual[asked.foe] ELSE {}

ConfirmedSpecies ==
  ({completed[i].foe : i \in DOMAIN completed} \ {Nobody})
    \cup {completed[i].name : i \in {j \in DOMAIN completed : completed[j].type = "SWITCH"}}

(* Mutant: both kinds of evidence in one pool. *)
IsGroundedInPool(l) ==
  CASE l.names = NoName -> TRUE
    [] l.names # NoName /\ l.category \in {"DAMAGING_MOVE", "NON_DAMAGING_MOVE"} ->
         l.names \in ConfirmedMoves \cup UsualMoves
    [] OTHER -> l.names # asked.foe /\ l.names \in ConfirmedSpecies

IsGrounded(l) ==
  CASE l.names = NoName -> TRUE
    [] l.names # NoName /\ l.category \in {"DAMAGING_MOVE", "NON_DAMAGING_MOVE"} ->
         \/ l.names \in ConfirmedMoves
         \/ l.names \in UsualMoves /\ l.basis = "POPULATION_PRIOR"
    [] OTHER -> l.names # asked.foe /\ l.names \in ConfirmedSpecies

IsAccepted(a) ==
  /\ Parses(a)
  /\ IsLegal(a.action)
  /\ ParserOf(asked.contract) = "v2" => \A i \in DOMAIN LinesOf(a) : IsGrounded(LinesOf(a)[i])
-----------------------------------------------------------------------------
(* The answers: an honest one, and those that differ from it. *)
Vague == [category |-> "DAMAGING_MOVE", names |-> NoName, basis |-> "CONFIRMED_MATCH",
          support |-> "MEDIUM"]
Clueless == [category |-> "UNKNOWN", names |-> NoName, basis |-> "NONE", support |-> "LOW"]

Cautious(m) ==
  [schema |-> ParserOf(asked.contract), action |-> [id |-> m.id, type |-> m.type, name |-> m.name],
   robustness |-> "LOW", reasons |-> 1, warnings |-> 1,
   primary |-> Clueless, alternatives |-> <<>>]

Named == OwnMoves \cup Own
Actions == [id : {"MOVE", "SWITCH"} \X Named, type : {"MOVE", "SWITCH"}, name : Named]

(* Another action; another shape; other predictions. *)
WithAction(c) == {[c EXCEPT !.action = a] : a \in Actions}

Shapes == [schema : {"v1", "v2"}, robustness : DOMAIN Level, reasons : 0..4,
           warnings : {0, 1, 3, 6}]
WithShape(c) ==
  {[c EXCEPT !.schema = s.schema, !.robustness = s.robustness,
             !.reasons = s.reasons, !.warnings = s.warnings] : s \in Shapes}

More(n) == [i \in 1..n |->
  [Vague EXCEPT !.category = <<"SWITCH", "NON_DAMAGING_MOVE", "SWITCH">>[i]]]

WithPrediction(c) ==
  {[c EXCEPT !.primary = l] : l \in Lines}
    \cup {[c EXCEPT !.primary = Vague, !.alternatives = <<l>>] : l \in Lines}
    \cup {[c EXCEPT !.primary = Vague, !.alternatives = More(n)] : n \in 2..3}
    \cup {[c EXCEPT !.alternatives = <<Vague>>]}

PossibleAnswers ==
  LET c == Cautious(CHOOSE m \in asked.menu : TRUE)
  IN  WithAction(c) \cup WithShape(c)
        \cup IF c.schema = "v1" THEN {} ELSE WithPrediction(c)

NotAsked == [turn |-> 0, self |-> Nobody, foe |-> Nobody, menu |-> {},
            contract |-> "maple-turn-advice.v7"]

AnswerInit ==
  /\ asked = NotAsked /\ completed = <<>> /\ statistics \in BOOLEAN
  /\ verdict = "none" /\ accepted = {} /\ seenFoes = {} /\ usedMoves = {}

(* The facts of the next turn are confirmed and the request is built. *)
Ask ==
  /\ asked.turn = Len(completed) /\ asked.turn < MaxAsked
  /\ \E self \in Own, foe \in Foes \cup {Nobody}, moves \in SUBSET OwnMoves,
        switches \in SUBSET Own, contract \in {"maple-turn-advice.v1", "maple-turn-advice.v7"} :
       /\ moves # {} /\ self \notin switches
       /\ asked' = [turn |-> Len(completed) + 1, self |-> self, foe |-> foe,
                    menu |-> Menu(self, moves, switches), contract |-> contract]
       /\ seenFoes' = seenFoes \cup ({foe} \ {Nobody})
  /\ verdict' = "none" /\ accepted' = {}
  /\ UNCHANGED <<completed, statistics, usedMoves>>

Answer ==
  /\ asked.turn > Len(completed) /\ verdict = "none"
  /\ \E a \in PossibleAnswers :
       IF IsAccepted(a) THEN verdict' = "accepted" /\ accepted' = {a}
       ELSE verdict' = "rejected" /\ accepted' = {}
  /\ UNCHANGED <<asked, completed, statistics, seenFoes, usedMoves>>

(* The turn is played; the operator records what the foe did, when known.  *)
Play ==
  /\ asked.turn > Len(completed) /\ verdict # "none"
  /\ \E done \in {[type |-> "UNKNOWN", name |-> Nobody]}
                   \cup {[type |-> "MOVE", name |-> m] : m \in FoeMoves}
                   \cup {[type |-> "SWITCH", name |-> f] : f \in Foes \ {asked.foe}} :
       /\ completed' = Append(completed, [foe |-> asked.foe, type |-> done.type, name |-> done.name])
       /\ seenFoes' = IF done.type = "SWITCH" THEN seenFoes \cup {done.name} ELSE seenFoes
       /\ usedMoves' = IF done.type = "MOVE" THEN usedMoves \cup {done.name} ELSE usedMoves
  /\ verdict' = "none" /\ accepted' = {}
  /\ UNCHANGED <<asked, statistics>>

AnswerNext == Ask \/ Answer \/ Play
AnswerSpec == AnswerInit /\ [][AnswerNext]_answerVars
-----------------------------------------------------------------------------
AnswerTypeOK ==
  /\ asked.turn \in {Len(completed), Len(completed) + 1} /\ Len(completed) <= MaxAsked
  /\ seenFoes \subseteq Foes /\ usedMoves \subseteq FoeMoves
  /\ verdict \in {"none", "rejected", "accepted"}
  /\ Cardinality(accepted) = IF verdict = "accepted" THEN 1 ELSE 0

(* A name in the predictions of an accepted answer is never invented: a    *)
(* move was confirmed in this match, or is usual for the very foe on the   *)
(* field and said so with moderate support; a Pokemon was confirmed to be  *)
(* the opponent's and is not the one on the field.                         *)
NamesAreGrounded ==
  \A a \in accepted : a.schema = "v2" =>
    \A i \in DOMAIN LinesOf(a) :
      LET l == LinesOf(a)[i]
      IN  \/ l.names = NoName
          \/ l.names \in usedMoves
          \/ /\ statistics /\ asked.foe \in Foes /\ l.names \in Usual[asked.foe]
             /\ l.basis = "POPULATION_PRIOR" /\ l.support = "MEDIUM"
          \/ l.category = "SWITCH" /\ l.names \in seenFoes \ {asked.foe}

(* The advised action is one the operator has confirmed for this turn, and *)
(* an answer to a request of the current contract has its schema.          *)
AdviceCanBeFollowed ==
  \A a \in accepted :
    /\ \E m \in asked.menu :
         <<m.id, m.type, m.name>> = <<a.action.id, a.action.type, a.action.name>>
    /\ a.schema = ParserOf(asked.contract)

(* An accepted answer can be followed, and invents nothing.                *)
AcceptedAnswersAreSound == NamesAreGrounded /\ AdviceCanBeFollowed

(* The cautious answer the prompt asks for is never refused, whatever the  *)
(* facts of the turn: a request can always be answered.                    *)
CautionIsAccepted ==
  asked.turn > Len(completed) => \A m \in asked.menu : IsAccepted(Cautious(m))
=============================================================================
