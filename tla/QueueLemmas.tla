------------------------------ MODULE QueueLemmas ------------------------------
(* What the messages in a queue are after one is sent or read: the facts about  *)
(* Range (of Functions) that the proofs about message queues share; and that a  *)
(* search that finds anything finds a first thing.                              *)
EXTENDS Integers, Sequences, Functions, FiniteSetTheorems, WellFoundedInduction, TLAPS

(* A queue of messages of S holds messages of S only.                           *)
LEMMA RangeType ==
  ASSUME NEW S, NEW s \in Seq(S)
  PROVE  Range(s) \subseteq S
BY DEF Range

(* Conversely a queue that only holds messages of T is a queue of them.         *)
LEMMA RangeSeq ==
  ASSUME NEW S, NEW s \in Seq(S), NEW T, Range(s) \subseteq T
  PROVE  s \in Seq(T)
<1>1. \A i \in 1..Len(s) : s[i] \in T
  BY DEF Range
<1>2. QED
  BY <1>1

(* The queue of one message holds that message.                                 *)
LEMMA RangeSingle ==
  ASSUME NEW e
  PROVE  Range(<<e>>) = {e}
BY DEF Range

(* The empty queue holds no message.                                            *)
LEMMA RangeEmpty == Range(<<>>) = {}
BY DEF Range

(* What is appended to a queue, what was in it, and nothing else, is in the     *)
(* longer queue.                                                                *)
LEMMA RangeAppended ==
  ASSUME NEW S, NEW s \in Seq(S), NEW t \in Seq(S)
  PROVE  Range(s \o t) = Range(s) \cup Range(t)
<1>1. ASSUME NEW e \in Range(s \o t)
      PROVE  e \in Range(s) \cup Range(t)
  <2>1. PICK i \in 1..Len(s \o t) : e = (s \o t)[i]
    BY DEF Range
  <2>2. CASE i <= Len(s)
    <3>1. e = s[i] /\ i \in 1..Len(s)
      BY <2>1, <2>2
    <3>2. QED
      BY <3>1 DEF Range
  <2>3. CASE i > Len(s)
    <3>1. e = t[i - Len(s)] /\ i - Len(s) \in 1..Len(t)
      BY <2>1, <2>3
    <3>2. QED
      BY <3>1 DEF Range
  <2>4. QED
    BY <2>2, <2>3
<1>2. ASSUME NEW e \in Range(s)
      PROVE  e \in Range(s \o t)
  <2>1. PICK i \in 1..Len(s) : e = s[i]
    BY DEF Range
  <2>2. i \in 1..Len(s \o t) /\ (s \o t)[i] = e
    BY <2>1
  <2>3. QED
    BY <2>2 DEF Range
<1>3. ASSUME NEW e \in Range(t)
      PROVE  e \in Range(s \o t)
  <2>1. PICK i \in 1..Len(t) : e = t[i]
    BY DEF Range
  <2>2. Len(s) + i \in 1..Len(s \o t) /\ (s \o t)[Len(s) + i] = e
    BY <2>1
  <2>3. QED
    BY <2>2 DEF Range
<1>4. QED
  BY <1>1, <1>2, <1>3

(* Reading a message takes it, or one like it, and nothing else from the queue. *)
LEMMA RangeRead ==
  ASSUME NEW S, NEW s \in Seq(S), s # <<>>
  PROVE  /\ Head(s) \in Range(s) /\ Head(s) \in S
         /\ Tail(s) \in Seq(S)
         /\ Range(s) = {Head(s)} \cup Range(Tail(s))
<1>1. Head(s) \in Range(s) /\ Head(s) \in S /\ Tail(s) \in Seq(S)
  BY DEF Range
<1>2. ASSUME NEW e \in Range(Tail(s))
      PROVE  e \in Range(s)
  <2>1. PICK i \in 1..Len(Tail(s)) : e = Tail(s)[i]
    BY <1>1 DEF Range
  <2>2. i + 1 \in 1..Len(s) /\ s[i + 1] = e
    BY <2>1
  <2>3. QED
    BY <2>2 DEF Range
<1>3. ASSUME NEW e \in Range(s), e # Head(s)
      PROVE  e \in Range(Tail(s))
  <2>1. PICK i \in 1..Len(s) : e = s[i]
    BY DEF Range
  <2>2. i # 1
    BY <1>3, <2>1
  <2>3. i - 1 \in 1..Len(Tail(s)) /\ Tail(s)[i - 1] = e
    BY <2>1, <2>2
  <2>4. DOMAIN Tail(s) = 1..Len(Tail(s))
    BY <1>1
  <2>5. QED
    BY <2>3, <2>4 DEF Range
<1>4. QED
  BY <1>1, <1>2, <1>3

(* A nonempty set of natural numbers has a least element: of the segments 0..y  *)
(* of its elements y up to some t, one is minimal for inclusion.                *)
LEMMA LeastNumber ==
  ASSUME NEW T, T \subseteq Nat, T # {}
  PROVE  \E m \in T : \A k \in T : m <= k
<1>1. PICK t \in T : TRUE
  OBVIOUS
<1> DEFINE Segments == {0..x : x \in {y \in T : y <= t}}
           Smaller == StrictSubsetOrdering(0..t)
<1>2. IsFiniteSet(0..t)
  BY <1>1, FS_Interval, t \in Int, 0 \in Int, t \in Nat
<1>3. IsWellFoundedOn(Smaller, FiniteSubsetsOf(0..t))
  BY <1>2, FS_StrictSubsetOrderingWellFounded
<1>4. Segments \subseteq FiniteSubsetsOf(0..t)
  <2> SUFFICES ASSUME NEW y \in T, y <= t PROVE 0..y \in FiniteSubsetsOf(0..t)
    OBVIOUS
  <2>1. 0..y \subseteq 0..t
    BY <1>1
  <2>2. IsFiniteSet(0..y)
    BY FS_Subset, <1>2, <2>1
  <2>3. QED
    BY <2>1, <2>2 DEF FiniteSubsetsOf
<1>5. Segments # {}
  BY <1>1
<1>6. PICK u \in Segments : \A v \in Segments : <<v, u>> \notin Smaller
  <2> HIDE DEF Segments, Smaller
  <2>1. QED
    BY <1>3, <1>4, <1>5, WFMin
<1>7. PICK m \in T : m <= t /\ u = 0..m
  OBVIOUS
<1>8. ASSUME NEW k \in T PROVE m <= k
  <2> SUFFICES ASSUME k < m PROVE FALSE
    BY <1>7
  <2>1. 0..k \in Segments
    BY <1>7
  <2>2. 0..k \subseteq 0..t /\ 0..m \subseteq 0..t /\ 0..k \subseteq 0..m
    BY <1>7
  <2>3. 0..k # 0..m
    <3>1. m \in 0..m /\ m \notin 0..k
      OBVIOUS
    <3>2. QED
      BY <3>1
  <2>4. <<0..k, u>> \in Smaller
    BY <1>7, <2>2, <2>3 DEF StrictSubsetOrdering
  <2>5. QED
    BY <1>6, <2>1, <2>4
<1>9. QED
  BY <1>8

===============================================================================
