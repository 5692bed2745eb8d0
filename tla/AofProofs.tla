------------------------------ MODULE AofProofs ------------------------------
(***************************************************************************)
(* What a replay of the lines of an append-only file leaves: lemmas about  *)
(* Leaves and Recovers, for files of any length.                           *)
(***************************************************************************)
EXTENDS Aof, TLAPS, SequenceTheorems, WellFoundedInduction

(* How the lines of two logs lie in their concatenation.                   *)
LEMMA ConcatIndices ==
  ASSUME NEW s \in Seq(Line), NEW t \in Seq(Line)
  PROVE  /\ s \o t \in Seq(Line) /\ Len(s \o t) = Len(s) + Len(t)
         /\ Len(s) \in Nat /\ Len(t) \in Nat
         /\ \A i \in 1..Len(s) : (s \o t)[i] = s[i]
         /\ \A i \in 1..Len(t) : (s \o t)[Len(s) + i] = t[i]
         /\ \A i \in 1..Len(s \o t) : i > Len(s) => (s \o t)[i] = t[i - Len(s)]
                                                    /\ i - Len(s) \in 1..Len(t)
OBVIOUS

(* What a log leaves for a key that it touches does not depend on what has *)
(* been replayed before.                                                   *)
LEMMA LeavesSuffix ==
  ASSUME NEW s \in Seq(Line), NEW t \in Seq(Line), NEW k, NEW base, NEW w, NEW v,
         NEW m \in 1..Len(t), Touches(t[m], k), Leaves(w, t, k, v)
  PROVE  Leaves(base, s \o t, k, v)
<1>1. PICK i \in 1..Len(t) :
           /\ Touches(t[i], k)
           /\ t[i].val = v
           /\ \A j \in 1..Len(t) : j > i => ~Touches(t[j], k)
  BY DEF Leaves
<1>2. Len(s) + i \in 1..Len(s \o t)
  BY ConcatIndices
<1>3. Touches((s \o t)[Len(s) + i], k) /\ (s \o t)[Len(s) + i].val = v
  BY <1>1, ConcatIndices
<1>4. \A j \in 1..Len(s \o t) : j > Len(s) + i => ~Touches((s \o t)[j], k)
  BY <1>1, ConcatIndices
<1> QED  BY <1>2, <1>3, <1>4 DEF Leaves

(* Replaying one log after another.                                        *)
LEMMA LeavesConcat ==
  ASSUME NEW s \in Seq(Line), NEW t \in Seq(Line), NEW k, NEW base, NEW w, NEW v,
         Leaves(base, s, k, w), Leaves(w, t, k, v)
  PROVE  Leaves(base, s \o t, k, v)
<1>1. CASE \E i \in 1..Len(t) : Touches(t[i], k)
  BY <1>1, LeavesSuffix
<1>2. CASE \A i \in 1..Len(t) : ~Touches(t[i], k)
  <2>0. v = w
    BY <1>2 DEF Leaves
  <2>1. \A j \in 1..Len(s \o t) : j > Len(s) => ~Touches((s \o t)[j], k)
    BY <1>2, ConcatIndices
  <2>2. /\ \A j \in 1..Len(s \o t) : j > Len(s) \/ j \in 1..Len(s)
        /\ \A j \in 1..Len(s) : (s \o t)[j] = s[j]
    BY ConcatIndices
  <2>3. CASE w = base /\ \A i \in 1..Len(s) : ~Touches(s[i], k)
    <3>1. \A j \in 1..Len(s \o t) : ~Touches((s \o t)[j], k)
      BY <2>1, <2>2, <2>3
    <3> QED  BY <2>0, <2>3, <3>1 DEF Leaves
  <2>4. CASE \E i \in 1..Len(s) :
               /\ Touches(s[i], k)
               /\ s[i].val = w
               /\ \A j \in 1..Len(s) : j > i => ~Touches(s[j], k)
    <3>1. PICK i \in 1..Len(s) :
               /\ Touches(s[i], k)
               /\ s[i].val = w
               /\ \A j \in 1..Len(s) : j > i => ~Touches(s[j], k)
      BY <2>4
    <3>2. i \in 1..Len(s \o t) /\ (s \o t)[i] = s[i]
      BY ConcatIndices
    <3>3. \A j \in 1..Len(s \o t) : j > i => ~Touches((s \o t)[j], k)
      BY <2>1, <2>2, <3>1
    <3> QED  BY <2>0, <3>1, <3>2, <3>3 DEF Leaves
  <2> QED  BY <2>3, <2>4 DEF Leaves
<1> QED  BY <1>1, <1>2

(* A log leaves a key alone that none of its lines touches.                *)
LEMMA LeavesUntouched ==
  ASSUME NEW t \in Seq(Line), NEW k, NEW v,
         \A i \in 1..Len(t) : ~Touches(t[i], k)
  PROVE  Leaves(v, t, k, v)
BY DEF Leaves

(* An empty log leaves what was there.                                     *)
LEMMA LeavesEmpty ==
  ASSUME NEW k, NEW v, NEW w
  PROVE  Leaves(v, <<>>, k, w) <=> v = w
BY EmptySeq DEF Leaves

(* Lines that do not touch a key may be taken off the end of a log.        *)
LEMMA LeavesFront ==
  ASSUME NEW s \in Seq(Line), NEW t \in Seq(Line), NEW k, NEW base, NEW v,
         Leaves(base, s \o t, k, v),
         \A i \in 1..Len(t) : ~Touches(t[i], k)
  PROVE  Leaves(base, s, k, v)
<1>1. /\ Len(s) \in Nat
      /\ \A i \in 1..Len(s) : i \in 1..Len(s \o t) /\ (s \o t)[i] = s[i]
      /\ \A i \in 1..Len(s \o t) :
           \/ i \in 1..Len(s)
           \/ i - Len(s) \in 1..Len(t) /\ (s \o t)[i] = t[i - Len(s)]
  BY ConcatIndices
<1>2. \A i \in 1..Len(s \o t) : Touches((s \o t)[i], k) => i \in 1..Len(s)
  BY <1>1
<1> QED  BY <1>1, <1>2 DEF Leaves

(* One line.                                                               *)
LEMMA LeavesLine ==
  ASSUME NEW l \in Line, NEW k, NEW base
  PROVE  /\ Touches(l, k) => Leaves(base, <<l>>, k, l.val)
         /\ ~Touches(l, k) => Leaves(base, <<l>>, k, base)
BY DEF Leaves
-----------------------------------------------------------------------------
(* A replay leaves one value.                                              *)
LEMMA LeavesOneValue ==
  ASSUME NEW s \in Seq(Line), NEW k, NEW base, NEW v, NEW w,
         Leaves(base, s, k, v), Leaves(base, s, k, w)
  PROVE  v = w
<1>1. CASE \A i \in 1..Len(s) : ~Touches(s[i], k)
  BY <1>1 DEF Leaves
<1>2. CASE \E i \in 1..Len(s) : Touches(s[i], k)
  <2>1. PICK i \in 1..Len(s) :
          /\ Touches(s[i], k) /\ s[i].val = v
          /\ \A j \in 1..Len(s) : j > i => ~Touches(s[j], k)
    BY <1>2 DEF Leaves
  <2>2. PICK j \in 1..Len(s) :
          /\ Touches(s[j], k) /\ s[j].val = w
          /\ \A h \in 1..Len(s) : h > j => ~Touches(s[h], k)
    BY <1>2 DEF Leaves
  <2>3. i = j
    BY <2>1, <2>2
  <2> QED  BY <2>1, <2>2, <2>3
<1> QED  BY <1>1, <1>2

(* What a longer file leaves comes from a line of its new end, or was left *)
(* by the file before.                                                     *)
LEMMA LeavesOldOrNew ==
  ASSUME NEW s \in Seq(Line), NEW t \in Seq(Line), NEW k, NEW base, NEW v,
         Leaves(base, s \o t, k, v)
  PROVE  \/ Leaves(base, s, k, v)
         \/ \E i \in 1..Len(t) : Touches(t[i], k) /\ t[i].val = v
<1>1. CASE \A i \in 1..Len(t) : ~Touches(t[i], k)
  BY <1>1, LeavesFront
<1>2. CASE \E i \in 1..Len(t) : Touches(t[i], k)
  <2>1. PICK i \in 1..Len(t) : Touches(t[i], k)
    BY <1>2
  <2>2. Len(s) + i \in 1..Len(s \o t) /\ Touches((s \o t)[Len(s) + i], k)
    BY <2>1, ConcatIndices
  <2>3. PICK j \in 1..Len(s \o t) :
          /\ Touches((s \o t)[j], k) /\ (s \o t)[j].val = v
          /\ \A h \in 1..Len(s \o t) : h > j => ~Touches((s \o t)[h], k)
    BY <2>2 DEF Leaves
  <2>4. j >= Len(s) + i
    BY <2>2, <2>3, ConcatIndices
  <2>5. j > Len(s)
    BY <2>4, ConcatIndices
  <2>6. (s \o t)[j] = t[j - Len(s)] /\ j - Len(s) \in 1..Len(t)
    BY <2>5, ConcatIndices
  <2> QED  BY <2>3, <2>6
<1> QED  BY <1>1, <1>2

(* A file that leaves a key without a value had, in its end, no line that  *)
(* gave it one.                                                            *)
LEMMA LeavesEnd ==
  ASSUME NEW s \in Seq(Line), NEW t \in Seq(Line), NEW k, NEW v,
         Leaves(v, s \o t, k, v)
  PROVE  Leaves(v, t, k, v)
<1>1. CASE \A i \in 1..Len(t) : ~Touches(t[i], k)
  BY <1>1 DEF Leaves
<1>2. CASE \E i \in 1..Len(t) : Touches(t[i], k)
  <2>1. PICK i \in 1..Len(t) : Touches(t[i], k)
    BY <1>2
  <2>2. Len(s) + i \in 1..Len(s \o t) /\ Touches((s \o t)[Len(s) + i], k)
    BY <2>1, ConcatIndices
  <2>3. PICK j \in 1..Len(s \o t) :
          /\ Touches((s \o t)[j], k) /\ (s \o t)[j].val = v
          /\ \A h \in 1..Len(s \o t) : h > j => ~Touches((s \o t)[h], k)
    BY <2>2 DEF Leaves
  <2>4. j > Len(s)
    BY <2>2, <2>3, ConcatIndices
  <2>5. (s \o t)[j] = t[j - Len(s)] /\ j - Len(s) \in 1..Len(t)
    BY <2>4, ConcatIndices
  <2>6. \A h \in 1..Len(t) : h > j - Len(s) => ~Touches(t[h], k)
    <3> SUFFICES ASSUME NEW h \in 1..Len(t), h > j - Len(s)
                 PROVE  ~Touches(t[h], k)
      OBVIOUS
    <3>1. Len(s) + h \in 1..Len(s \o t) /\ (s \o t)[Len(s) + h] = t[h]
          /\ Len(s) + h > j
      BY ConcatIndices
    <3> QED  BY <2>3, <3>1
  <2> QED  BY <2>3, <2>5, <2>6 DEF Leaves
<1> QED  BY <1>1, <1>2
-----------------------------------------------------------------------------
(* A set of numbers has a smallest one (induction, by way of WFMin).       *)
LEMMA SmallestNumber ==
  ASSUME NEW T \in SUBSET Nat, T # {}
  PROVE  \E n \in T : \A m \in T : n <= m
<1>1. PICK R : R = OpToRel(<, Nat)
  OBVIOUS
<1>2. IsWellFoundedOn(R, Nat)
  BY <1>1, NatLessThanWellFounded
<1>3. PICK n \in T : \A m \in T : <<m, n>> \notin R
  BY <1>2, WFMin
<1>4. \A n1, m1 \in Nat : <<m1, n1>> \in R <=> m1 < n1
  BY <1>1 DEF OpToRel
<1>5. n \in Nat /\ \A m \in T : m \in Nat /\ ~(m < n)
  BY <1>3, <1>4
<1> QED  BY <1>5

(* A file that touches a key has a last line that does, so that a replay   *)
(* leaves some value.                                                      *)
LEMMA LeavesSome ==
  ASSUME NEW s, Len(s) \in Nat, NEW k, NEW base
  PROVE  \E v : Leaves(base, s, k, v)
<1>1. CASE \A i \in 1..Len(s) : ~Touches(s[i], k)
  BY <1>1 DEF Leaves
<1>2. CASE \E i \in 1..Len(s) : Touches(s[i], k)
  <2> DEFINE After == {n \in Nat : \E i \in 1..Len(s) :
                                     Touches(s[i], k) /\ n = Len(s) - i}
  <2>1. After \in SUBSET Nat /\ After # {}
    <3>1. PICK i \in 1..Len(s) : Touches(s[i], k)
      BY <1>2
    <3>2. Len(s) - i \in After
      BY <3>1
    <3> QED  BY <3>2
  <2>2. PICK n \in After : \A m \in After : n <= m
    <3> HIDE DEF After
    <3> QED  BY <2>1, SmallestNumber
  <2>3. PICK i \in 1..Len(s) : Touches(s[i], k) /\ n = Len(s) - i
    OBVIOUS
  <2>4. ASSUME NEW j \in 1..Len(s), j > i, Touches(s[j], k)
        PROVE  FALSE
    <3>1. Len(s) - j \in After
      BY <2>4
    <3>2. n <= Len(s) - j
      BY <2>2, <3>1
    <3> QED  BY <2>3, <2>4, <3>2
  <2>5. Leaves(base, s, k, s[i].val)
    BY <2>3, <2>4 DEF Leaves
  <2> QED  BY <2>5
<1> QED  BY <1>1, <1>2
=============================================================================
