------------------------------ MODULE CommonLemmas ------------------------------
(* What the proofs about several modules need.  Of the queues of reports,  *)
(* events, commands and packets that the modules have in common (the rings *)
(* of ring_buffer.h, seen as sequences): an item is added at the end or    *)
(* taken at the head.  Of a set of numbers: one is the least.              *)
EXTENDS Integers, Sequences, TLAPS, WellFoundedInduction

\* A queue and the place of its items.
LEMMA QueueFacts ==
  ASSUME NEW S, NEW q \in Seq(S)
  PROVE  /\ Len(q) \in Nat /\ DOMAIN q = 1 .. Len(q)
         /\ \A i \in DOMAIN q : q[i] \in S
         /\ q = <<>> <=> Len(q) = 0
  OBVIOUS

\* The queue after an item was added.
LEMMA AppendFacts ==
  ASSUME NEW S, NEW q \in Seq(S), NEW x \in S
  PROVE  /\ Append(q, x) \in Seq(S)
         /\ Len(Append(q, x)) = Len(q) + 1
         /\ DOMAIN Append(q, x) = 1 .. Len(q) + 1
         /\ \A i \in DOMAIN q : i \in DOMAIN Append(q, x) /\ Append(q, x)[i] = q[i]
         /\ \A i \in DOMAIN Append(q, x) : i \in DOMAIN q \/ i = Len(q) + 1
         /\ Append(q, x)[Len(q) + 1] = x
  OBVIOUS

\* The queue after its head was taken.
LEMMA TailFacts ==
  ASSUME NEW S, NEW q \in Seq(S), q # <<>>
  PROVE  /\ Head(q) \in S /\ 1 \in DOMAIN q /\ Head(q) = q[1]
         /\ Tail(q) \in Seq(S)
         /\ Len(Tail(q)) = Len(q) - 1
         /\ DOMAIN Tail(q) = 1 .. Len(q) - 1
         /\ \A i \in DOMAIN Tail(q) : i + 1 \in DOMAIN q /\ i + 1 # 1 /\ Tail(q)[i] = q[i + 1]
  OBVIOUS

\* The two parts of a queue around one of its items.
LEMMA PartsFacts ==
  ASSUME NEW S, NEW q \in Seq(S), NEW j \in 1 .. Len(q)
  PROVE  /\ SubSeq(q, 1, j - 1) \in Seq(S) /\ Len(SubSeq(q, 1, j - 1)) = j - 1
         /\ \A i \in 1 .. j - 1 : SubSeq(q, 1, j - 1)[i] = q[i]
         /\ SubSeq(q, j + 1, Len(q)) \in Seq(S) /\ Len(SubSeq(q, j + 1, Len(q))) = Len(q) - j
         /\ \A i \in 1 .. Len(q) - j : SubSeq(q, j + 1, Len(q))[i] = q[j + i]
  <1>1. /\ SubSeq(q, 1, j - 1) \in Seq(S) /\ Len(SubSeq(q, 1, j - 1)) = j - 1
        /\ \A i \in 1 .. j - 1 : SubSeq(q, 1, j - 1)[i] = q[i]
    OBVIOUS
  <1>2. /\ SubSeq(q, j + 1, Len(q)) \in Seq(S) /\ Len(SubSeq(q, j + 1, Len(q))) = Len(q) - j
        /\ \A i \in 1 .. Len(q) - j : SubSeq(q, j + 1, Len(q))[i] = q[j + i]
    OBVIOUS
  <1>. QED  BY <1>1, <1>2

\* Of some numbers one comes first.
LEMMA Least ==
  ASSUME NEW T \in SUBSET Nat, T # {}
  PROVE  \E i \in T : \A j \in T : i <= j
  <1>. DEFINE R == OpToRel(<, Nat)
  <1>1. IsWellFoundedOn(R, Nat)
    BY NatLessThanWellFounded
  <1>2. \A x, y \in Nat : <<x, y>> \in R <=> x < y
    BY DEF OpToRel
  <1>. HIDE DEF R
  <1>3. PICK x \in T : \A y \in T : ~(<<y, x>> \in R)
    BY <1>1, WFMin
  <1>4. ASSUME NEW y \in T
        PROVE  x <= y
    <2>1. x \in Nat /\ y \in Nat
      OBVIOUS
    <2>2. ~(y < x)
      BY <1>2, <1>3, <2>1, Zenon
    <2>. QED  BY <2>1, <2>2
  <1>. QED  BY <1>4
================================================================================
