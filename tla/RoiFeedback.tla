---------------------------- MODULE RoiFeedback ----------------------------
(***************************************************************************)
(* What the selection page learns: SelectionRoiService, its matcher and    *)
(* the files both read.  A crop of a slot is matched with the trusted      *)
(* images of the names; when the team is sent, the crops are filed under   *)
(* the names sent, as trusted images when a person gave the name and as    *)
(* provisional ones when it was filled in.                                 *)
(*                                                                         *)
(* An image is a number, the order of its file's name, and so is a name,   *)
(* in the order of the alphabet; how much two images are alike is a        *)
(* constant, in thousandths.                                               *)
(***************************************************************************)
EXTENDS Integers, Sequences, FiniteSets

CONSTANTS
  ImageCount,    \* the images are 1..ImageCount
  Alike,         \* Images -> [Images -> 0..1000]
  Labels,        \* names, which are numbers
  SlotCount,     \* six in the program
  TopK,          \* names the matcher offers for a slot: three in the program
  Frames,        \* what a camera may show: an image in each slot
  Enough,        \* matches a promotion takes: three in the program
  MaxFilings     \* bound: frames processed

Images == 1..ImageCount
Unknown6 == 0

ASSUME RoiAssumption ==
  /\ Labels \subseteq Nat \ {Unknown6} /\ TopK \in Nat \ {0}
  /\ ImageCount \in Nat /\ SlotCount \in Nat \ {0} /\ Enough \in Nat /\ MaxFilings \in Nat
  /\ Frames \subseteq [1..SlotCount -> Images]
  /\ Alike \in [Images -> [Images -> 0..1000]]
  /\ \A x, y \in Images : Alike[x][y] = Alike[y][x] /\ (x = y => Alike[x][y] = 1000)

VARIABLES
  trusted, provisional,   \* files: images under a name
  quarantine,             \* files: images two names claim
  evidence,               \* feedback file: a provisional name and its match
  latest,                 \* the service's memory: the last distinct crops
  screen,                 \* the frame of the match, its crops and their names
  filing,                 \* what is left of the filing of a sent team
  given                   \* ghost: the images a person named

roiVars == <<trusted, provisional, quarantine, evidence, latest, screen, filing, given>>

NoCrops == <<>>
NoScreen == [match |-> 0, frame |-> NoCrops, kept |-> NoCrops, names |-> <<>>, open |-> FALSE]

(* The thread that files a team holds the service's lock to the end, that  *)
(* is in the steps of a filing.                                            *)
NotFiling == [step |-> "none", feedback |-> NoCrops, slot |-> 0, guesses |-> {}, images |-> {},
            label |-> Unknown6]

IsFiling == filing.step \in {"slots", "promote"}
-----------------------------------------------------------------------------
(* The matcher.  The score of a name is that of its best trusted image.    *)
Best(x, pairs) ==
  LET scores == {Alike[x][p[1]] : p \in pairs} \cup {0}
  IN  CHOOSE n \in scores : \A m \in scores : m <= n

ScoreOf(x, label) == Best(x, {p \in trusted : p[2] = label})

Worth(x, label) == IF label = Unknown6 THEN 0 ELSE ScoreOf(x, label)

(* The better name first, and of two as good the first of the alphabet. *)
Ahead(x, k, l) ==
  \/ Worth(x, k) > Worth(x, l)
  \/ Worth(x, k) = Worth(x, l) /\ k < l

(* The first TopK names, as far as they are good enough. *)
Candidates(x) ==
  {label \in Labels : /\ ScoreOf(x, label) >= 720
                      /\ Cardinality({k \in Labels : Ahead(x, k, label)}) < TopK}

Options(x, used) == (Candidates(x) \ used) \cup {Unknown6}

(* The search goes through the slots; Slot(n) is the next when n are left. *)
Slot(n) == SlotCount + 1 - n

NobodyNamed == [total |-> 0, names |-> [i \in 1..SlotCount |-> Unknown6]]

(* Slot(n), which shows x, gets a name, and rest what is best after it. *)
Extended(x, n, label, rest) ==
  [total |-> Worth(x, label) + rest.total, names |-> [rest.names EXCEPT ![Slot(n)] = label]]

(* Mutant: every slot takes the best name that is left. *)
VisitGreedily(x, n, rest, used) ==
  LET name == CHOOSE l \in Options(x, used) : \A k \in Options(x, used) \ {l} : Ahead(x, l, k)
  IN  Extended(x, n, name, rest[(used \cup {name}) \ {Unknown6}])

(* Of the names for Slot(n) the one with the greatest total, of equal ones *)
(* the first that the search meets.                                        *)
Visit(x, n, rest, used) ==
  LET with == [l \in Options(x, used) |-> Extended(x, n, l, rest[(used \cup {l}) \ {Unknown6}])]
  IN  with[CHOOSE l \in Options(x, used) : \A k \in Options(x, used) \ {l} :
             \/ with[k].total < with[l].total
             \/ with[k].total = with[l].total /\ Ahead(x, l, k)]

(* visited[n][used]: the best names for the last n slots, used excepted. *)
Assigned(frame) ==
  LET visited[n \in 0..SlotCount] ==
        [used \in SUBSET Labels |->
           IF n = 0 THEN NobodyNamed ELSE Visit(frame[Slot(n)], n, visited[n - 1], used)]
  IN  visited[SlotCount][{}].names
-----------------------------------------------------------------------------
(* The observations: a frame like the last distinct one is not kept.       *)
IsNear(x, y) == Alike[x][y] >= 995

IsNearFrame(f, g) == f # NoCrops /\ g # NoCrops /\ \A i \in 1..SlotCount : IsNear(f[i], g[i])

ObservationOf(f) == IF IsNearFrame(f, latest) THEN latest ELSE f

ProcessFrame ==
  /\ ~IsFiling /\ screen.match < MaxFilings
  /\ \E f \in Frames :
       LET kept == ObservationOf(f)
       IN  /\ latest' = kept
           /\ screen' = [match |-> screen.match + 1, frame |-> f, kept |-> kept,
                         names |-> Assigned(f), open |-> TRUE]
  /\ filing' = NotFiling
  /\ UNCHANGED <<trusted, provisional, quarantine, evidence, given>>
-----------------------------------------------------------------------------
(* The names of the near duplicates of x.  Mutant: of the trusted ones only. *)
NamesOfTrusted(x) == {p[2] : p \in {q \in trusted : IsNear(q[1], x)}}

NamesOf(x) == {p[2] : p \in {q \in trusted \cup provisional : IsNear(q[1], x)}}

(* What the page can send: a name for every slot, no two the same, which a *)
(* person typed or clicked, or which was filled in or restored and is left *)
(* as it is.  A restored name may be any.                                  *)
Feedbacks ==
  {fb \in [1..SlotCount -> [label : Labels, human : BOOLEAN]] :
     \A i, j \in 1..SlotCount : i # j => fb[i].label # fb[j].label}

(* record_sent_observation, in the order of its writes: the crops of the   *)
(* slots, then the rows of the feedback file, then the promotions.         *)
RecordSent ==
  /\ screen.open /\ ~IsFiling
  /\ \E fb \in Feedbacks :
       /\ filing.step = "failed" => fb = filing.feedback
       /\ filing' = [NotFiling EXCEPT !.step = "slots", !.feedback = fb, !.slot = 1]
  /\ UNCHANGED <<trusted, provisional, quarantine, evidence, latest, screen, given>>

(* One crop: put into quarantine when another name has a near duplicate,   *)
(* and copied when no name has one.                                        *)
FileSlot ==
  /\ filing.step = "slots" /\ filing.slot <= SlotCount
  /\ LET item     == filing.feedback[filing.slot]
         x        == screen.kept[filing.slot]
         names    == NamesOf(x)
         conflict == names \ {item.label} # {}
         file     == {<<x, item.label>>}
     IN  /\ quarantine' = IF conflict THEN quarantine \cup {x} ELSE quarantine
         /\ trusted' = IF names = {} /\ item.human THEN trusted \cup file ELSE trusted
         /\ provisional' = IF names = {} /\ ~item.human THEN provisional \cup file
                           ELSE provisional
         /\ filing' = [filing EXCEPT !.slot = @ + 1,
                         !.guesses = IF conflict \/ item.human THEN @ ELSE @ \cup {item.label}]
         /\ given' = IF item.human THEN given \cup file ELSE given
  /\ UNCHANGED <<evidence, latest, screen>>

(* All rows are appended in one write. *)
AppendRows ==
  /\ filing.step = "slots" /\ filing.slot > SlotCount
  /\ evidence' = evidence \cup (filing.guesses \X {screen.match})
  /\ filing' = [filing EXCEPT !.step = "promote"]
  /\ UNCHANGED <<trusted, provisional, quarantine, latest, screen, given>>

(* The matches in which the name was guessed. *)
MatchesOf(label) == {r[2] : r \in {q \in evidence : q[1] = label}}

HasEvidence(label) == Cardinality(MatchesOf(label)) >= Enough

(* _promote_eligible_provisional of the next name: its images are listed   *)
(* when a person has given the name and enough matches agree.              *)
TakeName ==
  /\ filing.step = "promote" /\ filing.images = {} /\ filing.guesses # {}
  /\ LET label == CHOOSE l \in filing.guesses : TRUE
         eligible == HasEvidence(label) /\ \E p \in trusted : p[2] = label
     IN  filing' = [filing EXCEPT
                      !.guesses = @ \ {label}, !.label = label,
                      !.images = IF eligible THEN {x \in Images : <<x, label>> \in provisional}
                                 ELSE {}]
  /\ UNCHANGED <<trusted, provisional, quarantine, evidence, latest, screen, given>>

(* One image of the name, in the order of the files' names. *)
PromoteImage ==
  /\ filing.step = "promote" /\ filing.images # {}
  /\ LET x     == CHOOSE i \in filing.images : \A j \in filing.images : i <= j
         label == filing.label
         names == NamesOfTrusted(x)
         same  == Best(x, {p \in trusted : p[2] = label})
         other == Best(x, {p \in trusted : p[2] # label})
     IN  /\ quarantine' = IF names \ {label} # {} THEN quarantine \cup {x} ELSE quarantine
         /\ trusted' = IF names = {} /\ same >= 850 /\ same >= other + 50
                       THEN trusted \cup {<<x, label>>} ELSE trusted
         /\ filing' = [filing EXCEPT !.images = @ \ {x}]
  /\ UNCHANGED <<provisional, evidence, latest, screen, given>>

AllFiled ==
  /\ filing.step = "promote" /\ filing.images = {} /\ filing.guesses = {}
  /\ filing' = NotFiling
  /\ screen' = [NoScreen EXCEPT !.match = screen.match]
  /\ UNCHANGED <<trusted, provisional, quarantine, evidence, latest, given>>

(* A write fails: what is written stays, and a second press of the button  *)
(* files the same team again, whose names are not editable any more.       *)
WriteFails ==
  /\ IsFiling /\ filing' = [NotFiling EXCEPT !.step = "failed", !.feedback = filing.feedback]
  /\ UNCHANGED <<trusted, provisional, quarantine, evidence, latest, screen, given>>

(* The program stops between two writes: what is written stays. *)
StopWhileFiling ==
  /\ IsFiling
  /\ filing' = NotFiling /\ latest' = NoCrops
  /\ screen' = [NoScreen EXCEPT !.match = screen.match]
  /\ UNCHANGED <<trusted, provisional, quarantine, evidence, given>>

RoiInit ==
  /\ trusted = {} /\ provisional = {} /\ quarantine = {} /\ evidence = {}
  /\ latest = NoCrops /\ screen = NoScreen /\ filing = NotFiling /\ given = {}

RoiNext == \/ ProcessFrame \/ RecordSent \/ FileSlot \/ AppendRows \/ TakeName
           \/ PromoteImage \/ AllFiled \/ WriteFails \/ StopWhileFiling
RoiSpec == RoiInit /\ [][RoiNext]_roiVars
-----------------------------------------------------------------------------
FilingStates ==
  [step : {"none", "slots", "promote", "failed"}, feedback : Feedbacks \cup {NoCrops},
   slot : 0..SlotCount + 1, guesses : SUBSET Labels, images : SUBSET Images,
   label : Labels \cup {Unknown6}]

RoiTypeOK ==
  /\ trusted \cup provisional \subseteq Images \X Labels /\ given \subseteq Images \X Labels
  /\ quarantine \subseteq Images /\ evidence \subseteq Labels \X (1..MaxFilings)
  /\ screen.match \in 0..MaxFilings /\ latest \in Frames \cup {NoCrops}
  /\ screen.open => latest = screen.kept /\ latest \in Frames /\ screen.frame \in Frames
  /\ filing \in FilingStates
  /\ IsFiling => screen.open /\ filing.feedback \in Feedbacks

(* An image is learned under one name only: no two files that are near     *)
(* duplicates stand under different names, in whatever order people and    *)
(* the matcher named them and wherever a filing failed or stopped.         *)
ReferencesAgree ==
  \A p, q \in trusted \cup provisional : IsNear(p[1], q[1]) => p[2] = q[2]

(* What the matcher guessed is trusted only when a person has given the    *)
(* name to some image and the name was guessed in enough matches; an       *)
(* image is trusted at once only under a name a person gave to it.         *)
TrustIsEarned ==
  \A p \in trusted :
    \/ p \in given
    \/ HasEvidence(p[2]) /\ \E q \in given : q[2] = p[2]

(* The crops that are filed show what the operator saw when naming them.   *)
CropsAreOfTheScreen == screen.open => IsNearFrame(screen.kept, screen.frame)

(* What the page learns from a match is what a person saw and named.       *)
LearningIsSound == ReferencesAgree /\ TrustIsEarned /\ CropsAreOfTheScreen

(* How alike the crops are to a team: the sum over the slots. *)
TotalOf(frame, names) ==
  LET total[n \in 0..SlotCount] ==
        IF n = 0 THEN 0 ELSE Worth(frame[Slot(n)], names[Slot(n)]) + total[n - 1]
  IN  total[SlotCount]

(* The teams of differing names, each one of those offered for its slot. *)
TeamsOf(frame) ==
  {t \in [1..SlotCount -> Labels \cup {Unknown6}] :
     \A i \in 1..SlotCount :
       /\ t[i] \in Options(frame[i], {})
       /\ \A j \in 1..SlotCount : i # j /\ t[i] = t[j] => t[i] = Unknown6}

(* The slots are read as one team: the names differ, and no other team of  *)
(* differing names is more alike to the crops, while the team is named.    *)
SuggestionIsBest ==
  screen.open /\ filing.step = "none" =>
    /\ screen.names \in TeamsOf(screen.frame)
    /\ \A t \in TeamsOf(screen.frame) :
         TotalOf(screen.frame, t) <= TotalOf(screen.frame, screen.names)
=============================================================================
