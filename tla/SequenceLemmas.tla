-------------------------- MODULE SequenceLemmas --------------------------
(***************************************************************************)
(* What the three ways in which the tables are written (a row replaced,    *)
(* a row added, every row rewritten) do to a sequence; and induction on    *)
(* the natural numbers over a set, from which come the largest and the     *)
(* smallest row of a set of rows.                                          *)
(***************************************************************************)
EXTENDS Sequences, Integers, SequenceTheorems, FiniteSetTheorems, TLAPS

(* Replacing an element of a sequence keeps the sequence's length and      *)
(* type; an index outside of it replaces nothing.                          *)
LEMMA ReplaceIsSeq ==
  ASSUME NEW S, NEW q \in Seq(S), NEW i, NEW e, i \in DOMAIN q => e \in S
  PROVE  /\ [q EXCEPT ![i] = e] \in Seq(S)
         /\ Len([q EXCEPT ![i] = e]) = Len(q)
         /\ DOMAIN [q EXCEPT ![i] = e] = DOMAIN q
<1>1. CASE i \in DOMAIN q
  BY <1>1, ExceptSeq, LenProperties
<1>2. CASE i \notin DOMAIN q
  <2>1. [q EXCEPT ![i] = e] = q
    BY <1>2, LenProperties
  <2>2. QED
    BY <2>1
<1>3. QED
  BY <1>1, <1>2

(* Appending an element keeps the type, lengthens by one, and leaves the   *)
(* elements that were there.                                               *)
LEMMA AppendIsSeq ==
  ASSUME NEW S, NEW q \in Seq(S), NEW e \in S
  PROVE  /\ Append(q, e) \in Seq(S)
         /\ Len(Append(q, e)) = Len(q) + 1
         /\ \A i \in DOMAIN q : i \in DOMAIN Append(q, e) /\ Append(q, e)[i] = q[i]
         /\ Append(q, e)[Len(q) + 1] = e
         /\ DOMAIN Append(q, e) = DOMAIN q \cup {Len(q) + 1}
<1>1. Append(q, e) \in Seq(S) /\ Len(Append(q, e)) = Len(q) + 1
  BY AppendProperties
<1>2. /\ DOMAIN q = 1..Len(q) /\ Len(q) \in Nat
      /\ DOMAIN Append(q, e) = 1..(Len(q) + 1)
  BY <1>1, LenProperties
<1>3. QED
  BY <1>1, <1>2, AppendProperties

(* What is appended to a queue is in it, with all that was. *)
LEMMA AppendKeeps ==
  ASSUME NEW S, NEW q \in Seq(S), NEW e \in S, NEW p, p = Append(q, e)
  PROVE  /\ p \in Seq(S)
         /\ \E j \in 1..Len(p) : p[j] = e
         /\ \A i \in 1..Len(q) : \E j \in 1..Len(p) : p[j] = q[i]
         /\ \A j \in 1..Len(p) : p[j] = e \/ \E i \in 1..Len(q) : p[j] = q[i]
<1>1. /\ p \in Seq(S) /\ Len(p) = Len(q) + 1
      /\ \A i \in 1..Len(q) : p[i] = q[i]
      /\ p[Len(q) + 1] = e
      /\ Len(q) \in Nat
  BY AppendProperties, LenProperties
<1>2. Len(q) + 1 \in 1..Len(p)
  BY <1>1
<1>3. \A i \in 1..Len(q) : i \in 1..Len(p)
  BY <1>1
<1>4. \A j \in 1..Len(p) : j = Len(q) + 1 \/ j \in 1..Len(q)
  BY <1>1
<1>5. QED
  BY <1>1, <1>2, <1>3, <1>4, Zenon

(* What is taken off the head of a queue leaves the rest of it. *)
LEMMA TailKeeps ==
  ASSUME NEW S, NEW q \in Seq(S), q # <<>>
  PROVE  /\ Head(q) \in S /\ Tail(q) \in Seq(S)
         /\ \E i \in 1..Len(q) : q[i] = Head(q)
         /\ \A i \in 1..Len(q) :
              q[i] = Head(q) \/ \E j \in 1..Len(Tail(q)) : Tail(q)[j] = q[i]
         /\ \A j \in 1..Len(Tail(q)) : \E i \in 1..Len(q) : Tail(q)[j] = q[i]
<1>1. /\ Head(q) \in S /\ Tail(q) \in Seq(S) /\ Len(Tail(q)) = Len(q) - 1
      /\ \A j \in 1..Len(Tail(q)) : Tail(q)[j] = q[j + 1]
      /\ Len(q) \in Nat /\ Len(q) # 0
  BY HeadTailProperties, LenProperties, EmptySeq
<1>2. Head(q) = q[1] /\ 1 \in 1..Len(q)
  BY <1>1
<1>3. ASSUME NEW i \in 1..Len(q), i # 1
      PROVE  \E j \in 1..Len(Tail(q)) : Tail(q)[j] = q[i]
  <2>1. i - 1 \in 1..Len(Tail(q)) /\ (i - 1) + 1 = i
    BY <1>1, <1>3
  <2>2. QED
    BY <1>1, <2>1
<1>4. \A j \in 1..Len(Tail(q)) : j + 1 \in 1..Len(q)
  BY <1>1
<1>5. QED
  BY <1>1, <1>2, <1>3, <1>4

(* Rewriting every element with one of the type keeps length and type.     *)
LEMMA RewriteIsSeq ==
  ASSUME NEW S, NEW q \in Seq(S), NEW f,
         f = [i \in DOMAIN q |-> f[i]], \A i \in DOMAIN q : f[i] \in S
  PROVE  f \in Seq(S) /\ Len(f) = Len(q) /\ DOMAIN f = DOMAIN q
<1>1. DOMAIN q = 1..Len(q) /\ Len(q) \in Nat
  BY LenProperties
<1>2. f \in [1..Len(q) -> S]
  BY <1>1
<1>3. f \in Seq(S)
  BY <1>1, <1>2
<1>4. DOMAIN f = 1..Len(f) /\ Len(f) \in Nat
  BY <1>3, LenProperties
<1>5. QED
  BY <1>1, <1>2, <1>3, <1>4

---------------------------------------------------------------------------
(* A set that holds 0, and with a number the next one, holds every natural *)
(* number.  Were m missing, adding 1 would map the elements up to m, which *)
(* are finitely many, one to one to those of them that are not 0.          *)
LEMMA SetInduction ==
  ASSUME NEW P, 0 \in P, \A n \in Nat : n \in P => n + 1 \in P
  PROVE  Nat \subseteq P
<1> SUFFICES ASSUME NEW m \in Nat, m \notin P PROVE FALSE
  OBVIOUS
<1> DEFINE U == {n \in Nat : n <= m /\ n \in P}
           V == U \ {0}
           f == [n \in U |-> n + 1]
<1>1. IsFiniteSet(U)
  <2>1. U \in SUBSET Nat /\ \A u \in U : u <= m
    OBVIOUS
  <2> HIDE DEF U
  <2> QED
    BY <2>1, FS_BoundedSetOfNaturals
<1>2. 0 \in U /\ \A n \in U : n + 1 \in U
  OBVIOUS
<1>3. U \subseteq Nat
  OBVIOUS
<1> HIDE DEF U
<1>4. IsFiniteSet(V) /\ Cardinality(V) = Cardinality(U) - 1
  BY <1>1, <1>2, FS_RemoveElement
<1>5. Cardinality(V) < Cardinality(U)
  BY <1>1, <1>4, FS_CardinalityType
<1>6. f \in [U -> V]
  BY <1>2, <1>3
<1> HIDE DEF f, V
<1>7. \E x, y \in U : x # y /\ f[x] = f[y]
  BY <1>1, <1>4, <1>5, <1>6, FS_PigeonHole
<1> QED
  BY <1>3, <1>7 DEF f

(* A set of natural numbers that is not empty has a smallest element.      *)
LEMMA SmallestOf ==
  ASSUME NEW S, S \subseteq Nat, S # {}
  PROVE  \E x \in S : \A y \in S : x <= y
<1> SUFFICES ASSUME ~ \E x \in S : \A y \in S : x <= y PROVE FALSE
  OBVIOUS
<1> DEFINE P == {k \in Nat : \A s \in S : k <= s}
<1>1. 0 \in P
  OBVIOUS
<1>2. ASSUME NEW k \in Nat, k \in P
      PROVE  k + 1 \in P
  <2>1. \A s \in S : k <= s
    BY <1>2
  <2>2. k \notin S
    BY <2>1
  <2>3. \A s \in S : k + 1 <= s
    BY <2>1, <2>2
  <2> QED
    BY <2>3
<1> HIDE DEF P
<1>3. Nat \subseteq P
  BY <1>1, <1>2, SetInduction
<1>4. PICK s \in S : TRUE
  OBVIOUS
<1>5. s + 1 \in P
  BY <1>3, <1>4
<1> QED
  BY <1>4, <1>5 DEF P

(* One that is bounded as well has a largest.                              *)
LEMMA LargestOf ==
  ASSUME NEW S, S \subseteq Nat, S # {}, NEW n \in Nat, \A s \in S : s <= n
  PROVE  \E x \in S : \A y \in S : y <= x
<1> DEFINE B == {n - s : s \in S}
<1>1. B \subseteq Nat /\ B # {}
  <2>1. \A s \in S : n - s \in Nat /\ n - s \in B
    OBVIOUS
  <2>2. \E s \in S : TRUE
    OBVIOUS
  <2> QED
    BY <2>1, <2>2
<1>2. PICK b \in B : \A y \in B : b <= y
  <2> HIDE DEF B
  <2> QED
    BY <1>1, SmallestOf
<1>3. PICK x \in S : b = n - x
  OBVIOUS
<1>4. \A y \in S : n - x <= n - y
  BY <1>2, <1>3
<1> QED
  BY <1>4
===========================================================================
