-------------------------- MODULE VectorClockProofs ---------------------------
(* Proofs about the vector clocks, for any number of nodes and events: where a   *)
(* table has an entry for every node, merging loses no time, and a clock counts  *)
(* the events of its causal past.                                                *)
EXTENDS VectorClock, QueueLemmas

\* Every node finds an entry: 10 in tworker.h, for the manager and 9 workers.
Room == IsFiniteSet(Node) /\ Cardinality(Node) <= MaxNodes

Entry == [nodeId : Node \cup {None}, time : Nat]

\* Entries are used from the first on, each by another node.
Table ==
  {vc \in [Index -> Entry] :
     \A i, j \in Index :
       /\ vc[i].nodeId = vc[j].nodeId /\ vc[i].nodeId # None => i = j
       /\ i <= j /\ vc[i].nodeId = None => vc[j].nodeId = None}

Later(s, t) == IF s < t THEN t ELSE s

-------------------------------------------------------------------------------
\* Looking up an entry

(* A search of a table that can succeed returns the first entry that fits.       *)
LEMMA FirstFound ==
  ASSUME NEW S, S \subseteq Index, S # {}
  PROVE  /\ (CHOOSE i \in Index : First(i, S)) \in Index
         /\ First((CHOOSE i \in Index : First(i, S)), S)
<1>1. S \subseteq Nat
  BY TableAssumption DEF Index
<1>2. PICK m \in S : \A k \in S : m <= k
  BY <1>1, LeastNumber
<1>3. m \in Index /\ First(m, S)
  BY <1>2 DEF First
<1>4. QED
  BY <1>3

(* The time of a node is that of its only entry, and 0 without one.              *)
LEMMA TimeFound ==
  ASSUME NEW vc \in Table, NEW q \in Node
  PROVE  /\ \A i \in Index : vc[i].nodeId = q => TimeOf(vc, q) = vc[i].time
         /\ (\A i \in Index : vc[i].nodeId # q) => TimeOf(vc, q) = 0
         /\ TimeOf(vc, q) \in Nat
<1>1. ASSUME NEW i \in Index, vc[i].nodeId = q PROVE TimeOf(vc, q) = vc[i].time
  <2> DEFINE S == Entries(vc, {q})
             f == CHOOSE k \in Index : First(k, S)
  <2>1. i \in S /\ S \subseteq Index
    BY <1>1 DEF Entries
  <2>2. f \in Index /\ First(f, S)
    BY <2>1, FirstFound
  <2>3. vc[f].nodeId = q
    BY <2>2 DEF First, Entries
  <2>4. f = i
    BY <1>1, <2>2, <2>3, NodeAssumption DEF Table
  <2>5. TimeOf(vc, q) = vc[f].time
    BY <2>1 DEF TimeOf
  <2>6. QED
    BY <2>4, <2>5
<1>2. ASSUME \A i \in Index : vc[i].nodeId # q PROVE TimeOf(vc, q) = 0
  BY <1>2 DEF TimeOf, Entries
<1>3. \A i \in Index : vc[i].time \in Nat
  BY DEF Table, Entry
<1>4. QED
  BY <1>1, <1>2, <1>3

(* Two tables of which one lists what the other lists hold the same times; what  *)
(* they list for one node decides its time.                                      *)
LEMMA SameTime ==
  ASSUME NEW vc \in Table, NEW wc \in Table, NEW q \in Node,
         \A i \in Index : (vc[i].nodeId = q <=> wc[i].nodeId = q)
                          /\ (vc[i].nodeId = q => vc[i].time = wc[i].time)
  PROVE  TimeOf(vc, q) = TimeOf(wc, q)
BY TimeFound

(* A table with an entry for every node always has one for q, or a free one.     *)
LEMMA RoomFor ==
  ASSUME Room, NEW vc \in Table, NEW q \in Node
  PROVE  Entries(vc, {q, None}) # {}
<1> SUFFICES ASSUME Entries(vc, {q, None}) = {} PROVE FALSE
  OBVIOUS
<1> DEFINE ids == [i \in Index |-> vc[i].nodeId]
<1>1. ids \in [Index -> Node \ {q}]
  BY DEF Entries, Table, Entry
<1>2. IsFiniteSet(Node \ {q}) /\ Cardinality(Node \ {q}) = Cardinality(Node) - 1
  BY FS_RemoveElement DEF Room
<1>3. IsFiniteSet(Index) /\ Cardinality(Index) = MaxNodes
  BY TableAssumption, FS_Interval, 1 \in Int, MaxNodes \in Int DEF Index
<1>4. Cardinality(Node) \in Nat
  BY FS_CardinalityType DEF Room
<1>5. Cardinality(Node \ {q}) < Cardinality(Index)
  BY <1>2, <1>3, <1>4, TableAssumption DEF Room
<1>6. PICK i \in Index, j \in Index : i # j /\ ids[i] = ids[j]
  <2> HIDE DEF ids
  <2> QED
    BY <1>1, <1>2, <1>3, <1>5, FS_PigeonHole
<1>7. vc[i].nodeId = vc[j].nodeId /\ vc[i].nodeId # None
  BY <1>1, <1>6, NodeAssumption
<1>8. QED
  BY <1>6, <1>7 DEF Table

-------------------------------------------------------------------------------
\* Updating and merging

(* Counting an event raises the node's own time by one, if it has an entry, and  *)
(* nobody else's.                                                                *)
LEMMA UpdatedTimes ==
  ASSUME NEW vc \in Table, NEW n \in Node
  PROVE  /\ Updated(vc, n) \in Table
         /\ \A q \in Node \ {n} : TimeOf(Updated(vc, n), q) = TimeOf(vc, q)
         /\ TimeOf(Updated(vc, n), n) =
              IF Entries(vc, {n}) = {} THEN TimeOf(vc, n) ELSE TimeOf(vc, n) + 1
<1>1. CASE Entries(vc, {n}) = {}
  BY <1>1 DEF Updated
<1>2. CASE Entries(vc, {n}) # {}
  <2> DEFINE S == Entries(vc, {n})
             f == CHOOSE k \in Index : First(k, S)
             new == [vc EXCEPT ![f].time = @ + 1]
  <2>1. S \subseteq Index
    BY DEF Entries
  <2>2. f \in Index /\ First(f, S)
    BY <1>2, <2>1, FirstFound
  <2>3. vc[f].nodeId = n
    BY <2>2 DEF First, Entries
  <2>4. Updated(vc, n) = new
    BY <1>2 DEF Updated
  <2>5. vc \in [Index -> Entry]
    BY DEF Table
  <2> HIDE DEF f
  <2>6. /\ new[f] = [nodeId |-> n, time |-> vc[f].time + 1]
        /\ \A i \in Index \ {f} : new[i] = vc[i]
    BY <2>2, <2>3, <2>5 DEF Entry
  <2>7. new \in [Index -> Entry]
    BY <2>2, <2>5, <2>6 DEF Entry
  <2>8. \A i \in Index : new[i].nodeId = vc[i].nodeId
    BY <2>3, <2>6
  <2> HIDE DEF new
  <2>9. new \in Table
    BY <2>7, <2>8 DEF Table
  <2>10. \A q \in Node \ {n} : TimeOf(new, q) = TimeOf(vc, q)
    BY <2>3, <2>6, <2>9, SameTime
  <2>11. TimeOf(new, n) = vc[f].time + 1 /\ TimeOf(vc, n) = vc[f].time
    BY <2>2, <2>3, <2>6, <2>9, TimeFound
  <2>12. QED
    BY <1>2, <2>4, <2>9, <2>10, <2>11
<1>3. QED
  BY <1>1, <1>2

(* One entry of a message raises the time of its node, and no other.             *)
LEMMA EntryTimes ==
  ASSUME Room, NEW vc \in Table, NEW e \in Entry, e.nodeId # None
  PROVE  /\ MergedEntry(vc, e) \in Table
         /\ \A q \in Node \ {e.nodeId} : TimeOf(MergedEntry(vc, e), q) = TimeOf(vc, q)
         /\ TimeOf(MergedEntry(vc, e), e.nodeId) = Later(TimeOf(vc, e.nodeId), e.time)
<1> DEFINE p == e.nodeId
           S == Entries(vc, {p, None})
           f == CHOOSE k \in Index : First(k, S)
           new == [vc EXCEPT ![f] = e]
<1>1. p \in Node /\ e.time \in Nat
  BY DEF Entry
<1>2. S \subseteq Index /\ S # {}
  BY <1>1, RoomFor DEF Entries
<1>3. f \in Index /\ First(f, S)
  BY <1>2, FirstFound
<1>4. vc[f].nodeId \in {p, None} /\ \A j \in Index : vc[j].nodeId \in {p, None} => f <= j
  BY <1>3 DEF First, Entries
<1>5. MergedEntry(vc, e) =
        IF vc[f].nodeId = None \/ e.time > vc[f].time THEN new ELSE vc
  BY <1>2 DEF MergedEntry
<1>6. vc \in [Index -> Entry]
  BY DEF Table
<1> HIDE DEF f
<1>7. new \in [Index -> Entry] /\ new[f] = e /\ \A i \in Index \ {f} : new[i] = vc[i]
  BY <1>3, <1>6
<1>8. \A j \in Index : vc[j].nodeId = p => j = f
  <2> SUFFICES ASSUME NEW j \in Index, vc[j].nodeId = p PROVE j = f
    OBVIOUS
  <2>1. f <= j
    BY <1>4
  <2>2. vc[f].nodeId # None
    BY <1>1, <1>3, <2>1, NodeAssumption DEF Table
  <2>3. QED
    BY <1>1, <1>3, <1>4, <2>2 DEF Table
<1> HIDE DEF new
<1>9. new \in Table
  <2>1. ASSUME NEW i \in Index, NEW j \in Index,
               new[i].nodeId = new[j].nodeId, new[i].nodeId # None
        PROVE  i = j
    BY <1>7, <1>8, <2>1 DEF Table
  <2>2. ASSUME NEW i \in Index, NEW j \in Index, i <= j, new[i].nodeId = None
        PROVE  new[j].nodeId = None
    <3>1. i # f /\ vc[i].nodeId = None
      BY <1>1, <1>7, <2>2, NodeAssumption
    <3>2. f <= i
      BY <1>4, <3>1
    <3>3. j # f
      BY <1>3, <2>2, <3>1, <3>2, TableAssumption DEF Index
    <3>4. QED
      BY <1>7, <2>2, <3>1, <3>3 DEF Table
  <2>3. QED
    BY <1>7, <2>1, <2>2 DEF Table
<1>10. \A q \in Node \ {p} : TimeOf(new, q) = TimeOf(vc, q)
  BY <1>4, <1>7, <1>9, SameTime, NodeAssumption
<1>11. TimeOf(new, p) = e.time
  BY <1>1, <1>3, <1>7, <1>9, TimeFound
<1>12. vc[f].nodeId = p => TimeOf(vc, p) = vc[f].time
  BY <1>1, <1>3, TimeFound
<1>13. vc[f].nodeId = None => TimeOf(vc, p) = 0
  BY <1>1, <1>8, TimeFound, NodeAssumption
<1>14. vc[f].time \in Nat
  BY <1>3, <1>6 DEF Entry
<1>15. CASE vc[f].nodeId = None
  BY <1>1, <1>5, <1>9, <1>10, <1>11, <1>13, <1>15 DEF Later
<1>16. CASE vc[f].nodeId # None
  BY <1>1, <1>4, <1>5, <1>9, <1>10, <1>11, <1>12, <1>14, <1>16 DEF Later
<1>17. QED
  BY <1>15, <1>16

\* The tables of a merge: entry by entry, up to the first unused one.
MergeSteps(vc, other, n, f) ==
  f = [i \in 0..n |->
         IF i = 0 THEN vc
         ELSE IF \E j \in 1..i : other[j].nodeId = None THEN f[i - 1]
         ELSE MergedEntry(f[i - 1], other[i])]

(* The loop of mergeVectorClock has a result.                                    *)
LEMMA MergeEnds ==
  ASSUME NEW vc, NEW other, NEW n \in Nat
  PROVE  \E f : MergeSteps(vc, other, n, f)
<1> DEFINE T == {k \in Nat : ~\E f : MergeSteps(vc, other, k, f)}
<1> SUFFICES ASSUME T # {} PROVE FALSE
  OBVIOUS
<1>1. PICK m \in T : \A k \in T : m <= k
  <2>1. T \subseteq Nat
    OBVIOUS
  <2> HIDE DEF T
  <2>2. QED
    BY <2>1, LeastNumber
<1>2. CASE m = 0
  <2> DEFINE f == [i \in 0..0 |-> vc]
  <2>1. \A i \in 0..0 : i = 0
    OBVIOUS
  <2>2. MergeSteps(vc, other, 0, f)
    BY <2>1 DEF MergeSteps
  <2>3. QED
    BY <1>2, <2>2
<1>3. CASE m # 0
  <2>1. m \in Nat /\ m - 1 \in Nat /\ m - 1 \notin T
    BY <1>1, <1>3
  <2>2. PICK g : MergeSteps(vc, other, m - 1, g)
    BY <2>1
  <2> DEFINE next == IF \E j \in 1..m : other[j].nodeId = None THEN g[m - 1]
                     ELSE MergedEntry(g[m - 1], other[m])
             f == [i \in 0..m |-> IF i = m THEN next ELSE g[i]]
             step(i) == IF i = 0 THEN vc
                        ELSE IF \E j \in 1..i : other[j].nodeId = None THEN f[i - 1]
                        ELSE MergedEntry(f[i - 1], other[i])
  <2>3. \A i \in 0..(m - 1) : i \in 0..m /\ i # m /\ f[i] = g[i]
    BY <2>1
  <2>4. f[m] = next /\ f[m - 1] = g[m - 1]
    BY <2>1
  <2>5. f[m] = step(m)
    BY <1>3, <2>4
  <2>6. ASSUME NEW i \in 0..(m - 1) PROVE f[i] = step(i)
    <3>1. i # 0 => i - 1 \in 0..(m - 1)
      BY <2>1
    <3>2. i # 0 => f[i - 1] = g[i - 1]
      BY <2>3, <3>1
    <3>3. g[i] = IF i = 0 THEN vc
                 ELSE IF \E j \in 1..i : other[j].nodeId = None THEN g[i - 1]
                 ELSE MergedEntry(g[i - 1], other[i])
      BY <2>2 DEF MergeSteps
    <3>4. f[i] = g[i]
      BY <2>3
    <3> HIDE DEF f
    <3>5. QED
      BY <3>2, <3>3, <3>4
  <2>7. \A i \in 0..m : f[i] = step(i)
    <3> HIDE DEF f, step
    <3> QED
      BY <2>1, <2>5, <2>6
  <2>8. f = [i \in 0..m |-> f[i]]
    OBVIOUS
  <2>9. f = [i \in 0..m |-> step(i)]
    <3> HIDE DEF f, step
    <3> QED
      BY <2>7, <2>8
  <2>10. MergeSteps(vc, other, m, f)
    <3> HIDE DEF f
    <3> QED
      BY <2>9 DEF MergeSteps
  <2>11. QED
    BY <1>1, <2>10
<1>4. QED
  BY <1>2, <1>3

(* Merging is the last step of that loop.                                        *)
LEMMA MergedIsLast ==
  ASSUME NEW vc, NEW other
  PROVE  \E f : MergeSteps(vc, other, MaxNodes, f) /\ Merged(vc, other) = f[MaxNodes]
<1> DEFINE f == CHOOSE g : MergeSteps(vc, other, MaxNodes, g)
<1>1. \E g : MergeSteps(vc, other, MaxNodes, g)
  BY TableAssumption, MergeEnds
<1>2. MergeSteps(vc, other, MaxNodes, f)
  BY <1>1
<1>3. Merged(vc, other) = f[MaxNodes]
  BY DEF Merged, MergeSteps
<1>4. QED
  BY <1>2, <1>3

(* Where every node finds an entry, merging gives every node the later of its    *)
(* two times.                                                                    *)
LEMMA MergedTimes ==
  ASSUME Room, NEW vc \in Table, NEW other \in Table
  PROVE  /\ Merged(vc, other) \in Table
         /\ \A q \in Node : TimeOf(Merged(vc, other), q) = Later(TimeOf(vc, q), TimeOf(other, q))
<1>1. PICK f : MergeSteps(vc, other, MaxNodes, f) /\ Merged(vc, other) = f[MaxNodes]
  BY MergedIsLast
<1> DEFINE Met(q, i) == \E j \in 1..i : other[j].nodeId = q
           Right(i) ==
             /\ f[i] \in Table
             /\ \A q \in Node : TimeOf(f[i], q) =
                  IF Met(q, i) THEN Later(TimeOf(vc, q), TimeOf(other, q)) ELSE TimeOf(vc, q)
           Wrong == {i \in Nat : i <= MaxNodes /\ ~Right(i)}
<1>2. f[0] = vc
  BY <1>1, TableAssumption DEF MergeSteps
<1>3. ASSUME NEW i \in 1..MaxNodes
      PROVE  f[i] = IF Met(None, i) THEN f[i - 1] ELSE MergedEntry(f[i - 1], other[i])
  <2>1. i \in 0..MaxNodes /\ i # 0
    BY TableAssumption
  <2>2. QED
    BY <1>1, <2>1 DEF MergeSteps
<1>4. Right(0)
  <2>1. \A q : ~Met(q, 0)
    OBVIOUS
  <2> HIDE DEF Met
  <2>2. QED
    BY <1>2, <2>1
<1>5. ASSUME NEW i \in 1..MaxNodes, Right(i - 1) PROVE Right(i)
  <2>1. i \in Index /\ i \in Nat /\ i - 1 \in Nat /\ i - 1 \in 0..MaxNodes
    BY TableAssumption DEF Index
  <2>2. \A q : Met(q, i) <=> Met(q, i - 1) \/ other[i].nodeId = q
    BY <2>1
  <2>3. CASE Met(None, i)
    <3>1. PICK j \in 1..i : other[j].nodeId = None
      BY <2>3
    <3>2. j \in Index /\ j <= i
      BY <2>1, <3>1, TableAssumption DEF Index
    <3>3. other[i].nodeId = None
      BY <2>1, <3>1, <3>2 DEF Table
    <3>4. f[i] = f[i - 1]
      BY <1>3, <2>3
    <3>5. \A q \in Node : Met(q, i) <=> Met(q, i - 1)
      BY <2>2, <3>3, NodeAssumption
    <3> HIDE DEF Met
    <3>6. QED
      BY <1>5, <3>4, <3>5
  <2>4. CASE ~Met(None, i)
    <3> DEFINE e == other[i]
    <3>1. e \in Entry /\ e.nodeId # None
      BY <2>1, <2>2, <2>4 DEF Table
    <3>2. f[i] = MergedEntry(f[i - 1], e)
      BY <1>3, <2>4
    <3>3. e.nodeId \in Node /\ e.time \in Nat
      BY <3>1 DEF Entry
    <3>4. ~Met(e.nodeId, i - 1)
      <4> SUFFICES ASSUME NEW j \in 1..(i - 1), other[j].nodeId = other[i].nodeId PROVE FALSE
        OBVIOUS
      <4>1. j \in Index /\ j # i
        BY <2>1, TableAssumption DEF Index
      <4>2. QED
        BY <2>1, <3>1, <4>1 DEF Table
    <3>5. TimeOf(other, e.nodeId) = e.time
      BY <2>1, <3>3, TimeFound
    <3>6. \A q \in Node : Met(q, i) <=> Met(q, i - 1) \/ q = e.nodeId
      BY <2>2
    <3> HIDE DEF Met, e
    <3>7. f[i] \in Table
      BY <1>5, <3>1, <3>2, EntryTimes
    <3>8. \A q \in Node \ {e.nodeId} : TimeOf(f[i], q) = TimeOf(f[i - 1], q)
      BY <1>5, <3>1, <3>2, EntryTimes
    <3>9. TimeOf(f[i], e.nodeId) = Later(TimeOf(f[i - 1], e.nodeId), e.time)
      BY <1>5, <3>1, <3>2, EntryTimes
    <3>10. TimeOf(f[i - 1], e.nodeId) = TimeOf(vc, e.nodeId)
      BY <1>5, <3>3, <3>4
    <3>11. QED
      BY <1>5, <3>3, <3>5, <3>6, <3>7, <3>8, <3>9, <3>10
  <2>5. QED
    BY <2>3, <2>4
<1>6. Wrong = {}
  <2> SUFFICES ASSUME Wrong # {} PROVE FALSE
    OBVIOUS
  <2>1. Wrong \subseteq Nat
    OBVIOUS
  <2>2. PICK m \in Wrong : \A k \in Wrong : m <= k
    <3> HIDE DEF Wrong
    <3> QED
      BY <2>1, LeastNumber
  <2>3. m \in Nat /\ m <= MaxNodes /\ ~Right(m)
    BY <2>2
  <2> HIDE DEF Right
  <2>4. m # 0
    BY <1>4, <2>3
  <2>5. m - 1 \in Nat /\ m - 1 <= MaxNodes /\ m - 1 \notin Wrong /\ m \in 1..MaxNodes
    BY <2>2, <2>3, <2>4, TableAssumption
  <2>6. QED
    BY <1>5, <2>3, <2>5
<1>7. Right(MaxNodes)
  <2> HIDE DEF Right
  <2> QED
    BY <1>6, TableAssumption
<1>8. ASSUME NEW q \in Node, ~Met(q, MaxNodes)
      PROVE  Later(TimeOf(vc, q), TimeOf(other, q)) = TimeOf(vc, q)
  <2>1. TimeOf(other, q) = 0
    BY <1>8, TimeFound DEF Index
  <2>2. TimeOf(vc, q) \in Nat
    BY TimeFound
  <2>3. QED
    BY <2>1, <2>2 DEF Later
<1> HIDE DEF Met
<1>9. QED
  BY <1>1, <1>7, <1>8

-------------------------------------------------------------------------------
\* The inductive invariant

Message == [to : Node, clock : Table, past : [Node -> Nat]]

ClockTypeOK ==
  /\ clock \in [Node -> Table]
  /\ saved \in [Node -> Table]
  /\ up \in [Node -> BOOLEAN]
  /\ flight \subseteq Message
  /\ past \in [Node -> [Node -> Nat]]
  /\ behind \subseteq Node

\* A table never tells more than what was heard, and for q it tells all of it.
Bounded(vc, heard) == \A q \in Node : TimeOf(vc, q) <= heard[q]

Exact(vc, heard, q) == q \notin behind => TimeOf(vc, q) = heard[q]

\* Nobody has heard of more events of a node than it had, which are at least one.
Known ==
  /\ \A n \in Node : past[n][n] >= 1
  /\ \A n, q \in Node : past[n][q] <= past[q][q]
  /\ \A m \in flight : \A q \in Node : m.past[q] <= past[q][q]

\* The saved clock may lack events of the node itself: the first one of a manager
\* that runs, and the last one of a worker that died before it saved.
SavedInv ==
  \A n \in Node :
    /\ Bounded(saved[n], past[n])
    /\ \A q \in Node : q # n \/ ~up[n] => Exact(saved[n], past[n], q)

HistoryInv ==
  /\ \A n, q \in Node : TimeOf(clock[n], q) <= past[n][q] /\ Exact(clock[n], past[n], q)
  /\ \A m \in flight : Bounded(m.clock, m.past) /\ \A q \in Node : Exact(m.clock, m.past, q)
  /\ SavedInv
  /\ Known

-------------------------------------------------------------------------------
\* Types

(* The tables a process starts with.                                             *)
LEMMA FirstTables ==
  /\ Blank \in Table
  /\ \A q \in Node : TimeOf(Blank, q) = 0
  /\ \A n \in Node : Fresh(n) \in Table
  /\ \A n, q \in Node : TimeOf(Fresh(n), q) = IF q = n THEN 1 ELSE 0
<1>1. 1 \in Index /\ \A i \in Index : i >= 1 /\ i \in Nat
  BY TableAssumption DEF Index
<1>2. Blank \in [Index -> Entry] /\ \A i \in Index : Blank[i].nodeId = None
  BY DEF Blank, Unused, Entry
<1>3. Blank \in Table
  BY <1>2 DEF Table
<1>4. \A q \in Node : TimeOf(Blank, q) = 0
  BY <1>2, <1>3, TimeFound, NodeAssumption
<1>5. ASSUME NEW n \in Node
      PROVE  Fresh(n) \in Table /\ \A q \in Node : TimeOf(Fresh(n), q) = IF q = n THEN 1 ELSE 0
  <2>1. /\ Fresh(n) \in [Index -> Entry]
        /\ Fresh(n)[1] = [nodeId |-> n, time |-> 1]
        /\ \A i \in Index \ {1} : Fresh(n)[i] = Unused
    BY <1>1 DEF Fresh, Unused, Entry
  <2>2. \A i \in Index \ {1} : Fresh(n)[i].nodeId = None
    BY <2>1 DEF Unused
  <2>3. Fresh(n)[1].nodeId = n /\ Fresh(n)[1].time = 1 /\ n # None
    BY <2>1, NodeAssumption
  <2>4. Fresh(n) \in Table
    BY <1>1, <2>1, <2>2, <2>3 DEF Table
  <2>5. \A q \in Node \ {n} : \A i \in Index : Fresh(n)[i].nodeId # q
    BY <2>2, <2>3, NodeAssumption
  <2>6. QED
    BY <1>1, <2>3, <2>4, <2>5, TimeFound
<1>6. QED
  BY <1>3, <1>4, <1>5

(* What an event does to the clock and the causal past of its node.              *)
LEMMA EventEffect ==
  ASSUME ClockTypeOK, NEW n \in Node, NEW vc \in Table, NEW heard \in [Node -> Nat],
         Event(n, vc, heard)
  PROVE  /\ clock' \in [Node -> Table] /\ past' \in [Node -> [Node -> Nat]]
         /\ clock'[n] = vc /\ \A p \in Node \ {n} : clock'[p] = clock[p] /\ past'[p] = past[p]
         /\ \A q \in Node : past'[n][q] = IF q = n THEN heard[q] + 1 ELSE heard[q]
<1>1. clock' = [clock EXCEPT ![n] = vc]
  BY DEF Event
<1> DEFINE new == [heard EXCEPT ![n] = @ + 1]
<1>2. past' = [past EXCEPT ![n] = new]
  BY DEF Event
<1>3. new \in [Node -> Nat] /\ \A q \in Node : new[q] = IF q = n THEN heard[q] + 1 ELSE heard[q]
  OBVIOUS
<1> HIDE DEF new
<1>4. clock \in [Node -> Table] /\ past \in [Node -> [Node -> Nat]]
  BY DEF ClockTypeOK
<1>5. clock' \in [Node -> Table] /\ clock'[n] = vc /\ \A p \in Node \ {n} : clock'[p] = clock[p]
  BY <1>1, <1>4
<1>6. /\ past' \in [Node -> [Node -> Nat]] /\ past'[n] = new
      /\ \A p \in Node \ {n} : past'[p] = past[p]
  BY <1>2, <1>3, <1>4
<1>7. QED
  BY <1>3, <1>5, <1>6

(* A save after the event.                                                       *)
LEMMA SaveEffect ==
  ASSUME saved \in [Node -> Table], clock' \in [Node -> Table], NEW n \in Node, Save(n)
  PROVE  /\ saved' \in [Node -> Table] /\ saved'[n] = clock'[n]
         /\ \A p \in Node \ {n} : saved'[p] = saved[p]
BY DEF Save

(* What is heard with a message.                                                 *)
LEMMA HeardType ==
  ASSUME ClockTypeOK, NEW n \in Node, NEW m \in flight
  PROVE  /\ m \in Message /\ Heard(n, m) \in [Node -> Nat]
         /\ \A q \in Node : Heard(n, m)[q] = Later(past[n][q], m.past[q])
<1>1. m \in Message /\ past \in [Node -> [Node -> Nat]]
  BY DEF ClockTypeOK
<1>2. past[n] \in [Node -> Nat] /\ m.past \in [Node -> Nat]
  BY <1>1 DEF Message
<1>3. QED
  BY <1>1, <1>2 DEF Heard, Later

\* The clock of n after it received m: the manager counts and merges, a worker
\* merges and counts.
Received(n, m) ==
  IF n = Manager
  THEN Merged(Updated(clock[n], n), m.clock)
  ELSE Updated(Merged(clock[n], m.clock), n)

(* A receive loses no time and, but for the node's own time, gains none that     *)
(* neither side had.                                                             *)
LEMMA ReceivedTimes ==
  ASSUME Room, ClockTypeOK, NEW n \in Node, NEW m \in flight
  PROVE  /\ Received(n, m) \in Table
         /\ \A q \in Node \ {n} :
              TimeOf(Received(n, m), q) = Later(TimeOf(clock[n], q), TimeOf(m.clock, q))
         /\ LET own   == TimeOf(clock[n], n)
                other == TimeOf(m.clock, n)
                now   == TimeOf(Received(n, m), n)
            IN  /\ now >= Later(own, other) /\ now <= Later(own, other) + 1
                /\ own > 0 /\ own >= other => now = own + 1
<1> DEFINE vc == clock[n]
           up1 == Updated(vc, n)
           mg == Merged(vc, m.clock)
<1>1. vc \in Table /\ m.clock \in Table
  BY DEF ClockTypeOK, Message
<1> HIDE DEF vc
<1>2. /\ TimeOf(vc, n) \in Nat /\ TimeOf(m.clock, n) \in Nat
      /\ \A q \in Node : TimeOf(vc, q) \in Nat /\ TimeOf(m.clock, q) \in Nat
  BY <1>1, TimeFound
<1>3. \A wc \in Table : TimeOf(wc, n) > 0 => Entries(wc, {n}) # {}
  BY DEF TimeOf
<1>4. CASE n = Manager
  <2>1. up1 \in Table /\ \A q \in Node \ {n} : TimeOf(up1, q) = TimeOf(vc, q)
    BY <1>1, UpdatedTimes
  <2>2. TimeOf(up1, n) = IF Entries(vc, {n}) = {} THEN TimeOf(vc, n) ELSE TimeOf(vc, n) + 1
    BY <1>1, UpdatedTimes
  <2> HIDE DEF up1
  <2>3. /\ Merged(up1, m.clock) \in Table
        /\ \A q \in Node : TimeOf(Merged(up1, m.clock), q) = Later(TimeOf(up1, q), TimeOf(m.clock, q))
    BY <1>1, <2>1, MergedTimes
  <2>4. Received(n, m) = Merged(up1, m.clock)
    BY <1>4 DEF Received, up1, vc
  <2>5. TimeOf(vc, n) > 0 => TimeOf(up1, n) = TimeOf(vc, n) + 1
    BY <1>1, <1>3, <2>2
  <2>6. TimeOf(up1, n) >= TimeOf(vc, n) /\ TimeOf(up1, n) <= TimeOf(vc, n) + 1 /\ TimeOf(up1, n) \in Nat
    BY <1>2, <2>2
  <2>7. TimeOf(Received(n, m), n) = Later(TimeOf(up1, n), TimeOf(m.clock, n))
    BY <2>3, <2>4
  <2>8. \A q \in Node \ {n} :
          TimeOf(Received(n, m), q) = Later(TimeOf(vc, q), TimeOf(m.clock, q))
    BY <2>1, <2>3, <2>4
  <2>9. QED
    BY <1>2, <2>3, <2>4, <2>5, <2>6, <2>7, <2>8 DEF Later, vc
<1>5. CASE n # Manager
  <2>1. /\ mg \in Table
        /\ \A q \in Node : TimeOf(mg, q) = Later(TimeOf(vc, q), TimeOf(m.clock, q))
    BY <1>1, MergedTimes
  <2> HIDE DEF mg
  <2>2. Updated(mg, n) \in Table /\ \A q \in Node \ {n} : TimeOf(Updated(mg, n), q) = TimeOf(mg, q)
    BY <2>1, UpdatedTimes
  <2>3. TimeOf(Updated(mg, n), n) = IF Entries(mg, {n}) = {} THEN TimeOf(mg, n) ELSE TimeOf(mg, n) + 1
    BY <2>1, UpdatedTimes
  <2>4. Received(n, m) = Updated(mg, n)
    BY <1>5 DEF Received, mg, vc
  <2>5. TimeOf(mg, n) > 0 => TimeOf(Updated(mg, n), n) = TimeOf(mg, n) + 1
    BY <1>3, <2>1, <2>3
  <2>6. TimeOf(mg, n) = Later(TimeOf(vc, n), TimeOf(m.clock, n))
    BY <2>1
  <2>7. QED
    BY <1>2, <2>1, <2>2, <2>3, <2>4, <2>5, <2>6 DEF Later, vc
<1>6. QED
  BY <1>4, <1>5

-------------------------------------------------------------------------------
\* Steps

\* The clock vc and the history heard are right for n, which is about to count
\* one event more.
Advances(n, vc, heard) ==
  /\ vc \in Table /\ heard \in [Node -> Nat]
  /\ \A q \in Node : past[n][q] <= heard[q] /\ heard[q] <= past[q][q]
  /\ \A q \in Node \ {n} : TimeOf(vc, q) <= heard[q] /\ Exact(vc, heard, q)
  /\ TimeOf(vc, n) <= heard[n] + 1
  /\ n \notin behind => TimeOf(vc, n) = heard[n] + 1

(* Counting an event on a clock that is right for the past gives one that is     *)
(* right for it and the event: who is not behind has an entry to count in.       *)
LEMMA CountAdvances ==
  ASSUME ClockTypeOK, Known, NEW n \in Node, NEW vc \in Table,
         Bounded(vc, past[n]), \A q \in Node : Exact(vc, past[n], q)
  PROVE  Advances(n, Updated(vc, n), past[n])
<1>1. past[n] \in [Node -> Nat] /\ \A q \in Node : past[n][q] \in Nat
  BY DEF ClockTypeOK
<1>2. \A q \in Node : TimeOf(vc, q) \in Nat /\ TimeOf(vc, q) <= past[n][q]
  BY TimeFound DEF Bounded
<1>3. /\ Updated(vc, n) \in Table
      /\ \A q \in Node \ {n} : TimeOf(Updated(vc, n), q) = TimeOf(vc, q)
      /\ TimeOf(Updated(vc, n), n) = IF Entries(vc, {n}) = {} THEN TimeOf(vc, n) ELSE TimeOf(vc, n) + 1
  BY UpdatedTimes
<1>4. past[n][n] >= 1 /\ \A q \in Node : past[n][q] <= past[q][q]
  BY DEF Known
<1>5. Entries(vc, {n}) = {} => TimeOf(vc, n) = 0
  BY DEF TimeOf
<1>6. n \notin behind => TimeOf(vc, n) = past[n][n]
  BY DEF Exact
<1>7. n \notin behind => Entries(vc, {n}) # {}
  <2> SUFFICES ASSUME n \notin behind, Entries(vc, {n}) = {} PROVE FALSE
    OBVIOUS
  <2>1. past[n][n] = 0
    BY <1>5, <1>6
  <2>2. QED
    BY <1>4, <2>1
<1>8. TimeOf(Updated(vc, n), n) <= past[n][n] + 1
  BY <1>1, <1>2, <1>3
<1>9. n \notin behind => TimeOf(Updated(vc, n), n) = past[n][n] + 1
  BY <1>3, <1>6, <1>7
<1>10. \A q \in Node \ {n} : TimeOf(Updated(vc, n), q) <= past[n][q] /\ Exact(Updated(vc, n), past[n], q)
  BY <1>2, <1>3 DEF Exact
<1>11. \A q \in Node : past[n][q] <= past[n][q]
  BY <1>1
<1>12. QED
  BY <1>1, <1>3, <1>4, <1>8, <1>9, <1>10, <1>11 DEF Advances

\* What is to be shown of the nodes' clocks and pasts after a step, but for the
\* messages on the way.
ClocksRight ==
  /\ \A n, q \in Node : TimeOf(clock[n], q) <= past[n][q] /\ Exact(clock[n], past[n], q)
  /\ \A n \in Node : past[n][n] >= 1
  /\ \A n, q \in Node : past[n][q] <= past[q][q]

(* An event that advances a clock leaves all clocks right.                       *)
LEMMA EventRight ==
  ASSUME ClockTypeOK, HistoryInv, NEW n \in Node, NEW vc, NEW heard,
         Advances(n, vc, heard), Event(n, vc, heard), behind \subseteq behind'
  PROVE  /\ clock' \in [Node -> Table] /\ past' \in [Node -> [Node -> Nat]]
         /\ ClocksRight'
         /\ \A p, q \in Node : past[p][q] <= past'[p][q]
         /\ \A p \in Node \ {n} : clock'[p] = clock[p] /\ past'[p] = past[p]
         /\ clock'[n] = vc
         /\ \A q \in Node : past'[n][q] = IF q = n THEN heard[q] + 1 ELSE heard[q]
<1>1. vc \in Table /\ heard \in [Node -> Nat]
  BY DEF Advances
<1>2. /\ clock' \in [Node -> Table] /\ past' \in [Node -> [Node -> Nat]]
      /\ clock'[n] = vc
      /\ \A p \in Node \ {n} : clock'[p] = clock[p] /\ past'[p] = past[p]
      /\ \A q \in Node : past'[n][q] = IF q = n THEN heard[q] + 1 ELSE heard[q]
  BY <1>1, EventEffect
<1>3. \A p, q \in Node : past[p][q] \in Nat /\ past'[p][q] \in Nat /\ heard[q] \in Nat
  BY <1>1, <1>2 DEF ClockTypeOK
<1>4. \A q \in Node : past[n][q] <= heard[q] /\ heard[q] <= past[q][q]
  BY DEF Advances
<1>5. \A p, q \in Node : past[p][q] <= past'[p][q]
  <2>1. ASSUME NEW p \in Node, NEW q \in Node PROVE past[p][q] <= past'[p][q]
    <3>1. CASE p = n
      BY <1>2, <1>3, <1>4, <3>1
    <3>2. CASE p # n
      BY <1>2, <1>3, <3>2
    <3>3. QED
      BY <3>1, <3>2
  <2>2. QED
    BY <2>1
<1>6. ASSUME NEW p \in Node, NEW q \in Node
      PROVE  TimeOf(clock'[p], q) <= past'[p][q] /\ (q \notin behind' => TimeOf(clock'[p], q) = past'[p][q])
  <2>1. CASE p # n
    BY <1>2, <2>1 DEF HistoryInv, Exact
  <2>2. CASE p = n /\ q # n
    <3>1. TimeOf(vc, q) <= heard[q] /\ Exact(vc, heard, q)
      BY <2>2 DEF Advances
    <3>2. QED
      BY <1>2, <2>2, <3>1 DEF Exact
  <2>3. CASE p = n /\ q = n
    <3>1. TimeOf(vc, n) <= heard[n] + 1 /\ (n \notin behind => TimeOf(vc, n) = heard[n] + 1)
      BY DEF Advances
    <3>2. QED
      BY <1>2, <2>3, <3>1
  <2>4. QED
    BY <2>1, <2>2, <2>3
<1>7. \A p \in Node : past[p][p] >= 1 /\ \A q \in Node : past[p][q] <= past[q][q]
  BY DEF HistoryInv, Known
<1>8. \A p \in Node : past'[p][p] >= 1
  BY <1>3, <1>5, <1>7
<1>9. ASSUME NEW p \in Node, NEW q \in Node PROVE past'[p][q] <= past'[q][q]
  <2>1. past[q][q] <= past'[q][q]
    BY <1>5
  <2>2. CASE p = n /\ q = n
    BY <1>3, <2>2
  <2>3. CASE p = n /\ q # n
    BY <1>2, <1>3, <1>4, <2>1, <2>3
  <2>4. CASE p # n
    BY <1>2, <1>3, <1>7, <2>1, <2>4
  <2>5. QED
    BY <2>2, <2>3, <2>4
<1>10. ClocksRight'
  BY <1>6, <1>8, <1>9 DEF ClocksRight, Exact
<1>11. QED
  BY <1>2, <1>5, <1>10

(* Messages on the way stay right when pasts and the set of those behind grow.   *)
LEMMA FlightRight ==
  ASSUME ClockTypeOK, HistoryInv, past' \in [Node -> [Node -> Nat]],
         \A p, q \in Node : past[p][q] <= past'[p][q], behind \subseteq behind',
         NEW m \in flight
  PROVE  /\ Bounded(m.clock, m.past)
         /\ \A q \in Node : q \notin behind' => TimeOf(m.clock, q) = m.past[q]
         /\ \A q \in Node : m.past[q] <= past'[q][q]
<1>1. Bounded(m.clock, m.past) /\ \A q \in Node : Exact(m.clock, m.past, q)
  BY DEF HistoryInv
<1>2. \A q \in Node : m.past[q] <= past[q][q]
  BY DEF HistoryInv, Known
<1>3. \A q \in Node : m.past[q] \in Nat /\ past[q][q] \in Nat /\ past'[q][q] \in Nat
  BY DEF ClockTypeOK, Message
<1>4. ASSUME NEW q \in Node PROVE m.past[q] <= past'[q][q]
  <2>1. past[q][q] <= past'[q][q]
    OBVIOUS
  <2>2. QED
    BY <1>2, <1>3, <2>1
<1>5. QED
  BY <1>1, <1>4 DEF Exact

(* A save after an event leaves the saved clocks right, whoever is up.           *)
LEMMA SaveRight ==
  ASSUME ClockTypeOK, HistoryInv, NEW n \in Node, Save(n), ClocksRight',
         clock' \in [Node -> Table], \A p \in Node \ {n} : past'[p] = past[p] /\ up'[p] = up[p],
         behind \subseteq behind'
  PROVE  saved' \in [Node -> Table] /\ SavedInv'
<1>1. saved' \in [Node -> Table] /\ saved'[n] = clock'[n] /\ \A p \in Node \ {n} : saved'[p] = saved[p]
  BY SaveEffect DEF ClockTypeOK
<1>2. ASSUME NEW p \in Node
      PROVE  /\ \A q \in Node : TimeOf(saved'[p], q) <= past'[p][q]
             /\ \A q \in Node : q # p \/ ~up'[p] => (q \notin behind' => TimeOf(saved'[p], q) = past'[p][q])
  <2>1. CASE p = n
    BY <1>1, <2>1 DEF ClocksRight, Exact
  <2>2. CASE p # n
    <3>1. saved'[p] = saved[p] /\ past'[p] = past[p] /\ up'[p] = up[p]
      BY <1>1, <2>2
    <3>2. QED
      BY <3>1 DEF HistoryInv, SavedInv, Bounded, Exact
  <2>3. QED
    BY <2>1, <2>2
<1>3. QED
  BY <1>1, <1>2 DEF SavedInv, Bounded, Exact

ClockInv == ClockTypeOK /\ HistoryInv

(* The manager has not saved its first event, and everybody else has.            *)
LEMMA ClockStart == Init => ClockInv
<1> SUFFICES ASSUME Init PROVE ClockInv
  OBVIOUS
<1>1. /\ \A n \in Node : clock[n] = Fresh(n) /\ up[n]
      /\ \A n \in Node : saved[n] = IF n = Manager THEN Blank ELSE Fresh(n)
      /\ \A n, q \in Node : past[n][q] = IF q = n THEN 1 ELSE 0
  BY DEF Init
<1>2. ClockTypeOK
  <2>1. clock \in [Node -> Table] /\ saved \in [Node -> Table]
    BY FirstTables DEF Init
  <2>2. past \in [Node -> [Node -> Nat]]
    BY DEF Init
  <2>3. QED
    BY <2>1, <2>2 DEF Init, ClockTypeOK
<1>3. \A n, q \in Node : TimeOf(clock[n], q) = past[n][q] /\ past[n][q] \in Nat
  BY <1>1, FirstTables
<1>4. \A n, q \in Node : TimeOf(saved[n], q) = IF q = n /\ n = Manager THEN 0 ELSE past[n][q]
  BY <1>1, FirstTables
<1>5. \A n, q \in Node : TimeOf(clock[n], q) <= past[n][q] /\ Exact(clock[n], past[n], q)
  BY <1>3 DEF Exact
<1>6. SavedInv
  BY <1>1, <1>3, <1>4 DEF SavedInv, Bounded, Exact
<1>7. Known
  BY <1>1 DEF Known, Init
<1>8. QED
  BY <1>2, <1>5, <1>6, <1>7 DEF ClockInv, HistoryInv, Init

(* An event without a message.                                                   *)
LEMMA AloneStep ==
  ASSUME ClockInv, NEW n \in Node, NEW vc,
         Advances(n, vc, past[n]), Event(n, vc, past[n]), Save(n), flight' = flight,
         up' \in [Node -> BOOLEAN], \A p \in Node \ {n} : up'[p] = up[p], behind' = behind
  PROVE  ClockInv'
<1>1. ClockTypeOK /\ HistoryInv
  BY DEF ClockInv
<1>2. /\ clock' \in [Node -> Table] /\ past' \in [Node -> [Node -> Nat]]
      /\ ClocksRight'
      /\ \A p, q \in Node : past[p][q] <= past'[p][q]
      /\ \A p \in Node \ {n} : past'[p] = past[p]
  BY <1>1, EventRight
<1>3. saved' \in [Node -> Table] /\ SavedInv'
  BY <1>1, <1>2, SaveRight
<1>4. \A m \in flight' : /\ Bounded(m.clock, m.past)
                         /\ \A q \in Node : q \notin behind' => TimeOf(m.clock, q) = m.past[q]
                         /\ \A q \in Node : m.past[q] <= past'[q][q]
  BY <1>1, <1>2, FlightRight
<1>5. ClockTypeOK'
  BY <1>1, <1>2, <1>3 DEF ClockTypeOK
<1>6. HistoryInv'
  BY <1>2, <1>3, <1>4 DEF HistoryInv, Known, ClocksRight, Bounded, Exact
<1>7. QED
  BY <1>5, <1>6 DEF ClockInv

(* A local event counts and saves.                                               *)
LEMMA LocalStep == ASSUME ClockInv, NEW n \in Node, LocalEvent(n) PROVE ClockInv'
<1>1. ClockTypeOK /\ HistoryInv /\ Known
  BY DEF ClockInv, HistoryInv
<1>2. clock[n] \in Table /\ Bounded(clock[n], past[n]) /\ \A q \in Node : Exact(clock[n], past[n], q)
  BY <1>1 DEF ClockTypeOK, HistoryInv, Bounded
<1>3. Advances(n, Updated(clock[n], n), past[n])
  BY <1>1, <1>2, CountAdvances
<1>4. up' \in [Node -> BOOLEAN]
  BY <1>1 DEF LocalEvent, ClockTypeOK
<1>5. QED
  BY <1>3, <1>4, AloneStep DEF LocalEvent

(* A worker that dies between its event and its save is behind from then on, and *)
(* its saved clock is right about all others.                                    *)
LEMMA UnsavedStep == ASSUME ClockInv, NEW n \in Node, LocalEventUnsaved(n) PROVE ClockInv'
<1>1. ClockTypeOK /\ HistoryInv /\ Known
  BY DEF ClockInv, HistoryInv
<1>2. clock[n] \in Table /\ Bounded(clock[n], past[n]) /\ \A q \in Node : Exact(clock[n], past[n], q)
  BY <1>1 DEF ClockTypeOK, HistoryInv, Bounded
<1>3. Advances(n, Updated(clock[n], n), past[n])
  BY <1>1, <1>2, CountAdvances
<1>4. /\ Event(n, Updated(clock[n], n), past[n])
      /\ up' = [up EXCEPT ![n] = FALSE] /\ behind' = behind \cup {n}
      /\ saved' = saved /\ flight' = flight
  BY DEF LocalEventUnsaved
<1>5. /\ clock' \in [Node -> Table] /\ past' \in [Node -> [Node -> Nat]]
      /\ ClocksRight'
      /\ \A p, q \in Node : past[p][q] <= past'[p][q]
      /\ \A p \in Node \ {n} : past'[p] = past[p]
      /\ \A q \in Node : past'[n][q] = IF q = n THEN past[n][q] + 1 ELSE past[n][q]
  BY <1>1, <1>3, <1>4, EventRight
<1>6. up' \in [Node -> BOOLEAN] /\ \A p \in Node \ {n} : up'[p] = up[p]
  BY <1>1, <1>4 DEF ClockTypeOK
<1>7. ASSUME NEW p \in Node
      PROVE  /\ \A q \in Node : TimeOf(saved'[p], q) <= past'[p][q]
             /\ \A q \in Node : q # p \/ ~up'[p] => (q \notin behind' => TimeOf(saved'[p], q) = past'[p][q])
  <2>1. saved'[p] = saved[p] /\ saved[p] \in Table
    BY <1>1, <1>4 DEF ClockTypeOK
  <2>2. \A q \in Node : TimeOf(saved[p], q) \in Nat /\ past[p][q] \in Nat /\ past'[p][q] \in Nat
    BY <1>1, <1>5, <2>1, TimeFound DEF ClockTypeOK
  <2>3. \A q \in Node : TimeOf(saved[p], q) <= past[p][q]
    BY <1>1 DEF HistoryInv, SavedInv, Bounded
  <2>4. \A q \in Node : TimeOf(saved'[p], q) <= past'[p][q]
    <3>1. ASSUME NEW q \in Node PROVE TimeOf(saved'[p], q) <= past'[p][q]
      <4>1. past[p][q] <= past'[p][q]
        BY <1>5
      <4>2. QED
        BY <2>1, <2>2, <2>3, <4>1
    <3>2. QED
      BY <3>1
  <2>5. CASE p = n
    BY <1>1, <1>4, <1>5, <2>1, <2>4, <2>5 DEF HistoryInv, SavedInv, Exact
  <2>6. CASE p # n
    BY <1>1, <1>4, <1>5, <1>6, <2>1, <2>4, <2>6 DEF HistoryInv, SavedInv, Exact
  <2>7. QED
    BY <2>5, <2>6
<1>8. SavedInv'
  BY <1>7 DEF SavedInv, Bounded, Exact
<1>9. \A m \in flight' : /\ Bounded(m.clock, m.past)
                         /\ \A q \in Node : q \notin behind' => TimeOf(m.clock, q) = m.past[q]
                         /\ \A q \in Node : m.past[q] <= past'[q][q]
  BY <1>1, <1>4, <1>5, FlightRight
<1>10. ClockTypeOK'
  BY <1>1, <1>4, <1>5, <1>6 DEF ClockTypeOK
<1>11. HistoryInv'
  BY <1>5, <1>8, <1>9 DEF HistoryInv, Known, ClocksRight, Bounded, Exact
<1>12. QED
  BY <1>10, <1>11 DEF ClockInv

(* A send counts and saves, and the message is as right as the clock it carries. *)
LEMMA SendStep == ASSUME ClockInv, NEW n \in Node, NEW to \in Node, Send(n, to) PROVE ClockInv'
<1> DEFINE msg == [to |-> to, clock |-> clock'[n], past |-> past'[n]]
<1>1. ClockTypeOK /\ HistoryInv /\ Known
  BY DEF ClockInv, HistoryInv
<1>2. clock[n] \in Table /\ Bounded(clock[n], past[n]) /\ \A q \in Node : Exact(clock[n], past[n], q)
  BY <1>1 DEF ClockTypeOK, HistoryInv, Bounded
<1>3. Advances(n, Updated(clock[n], n), past[n])
  BY <1>1, <1>2, CountAdvances
<1>4. /\ Event(n, Updated(clock[n], n), past[n]) /\ Save(n)
      /\ up' = up /\ behind' = behind /\ flight' = flight \cup {msg}
  BY DEF Send
<1>5. /\ clock' \in [Node -> Table] /\ past' \in [Node -> [Node -> Nat]]
      /\ ClocksRight'
      /\ \A p, q \in Node : past[p][q] <= past'[p][q]
      /\ \A p \in Node \ {n} : past'[p] = past[p]
  BY <1>1, <1>3, <1>4, EventRight
<1>6. saved' \in [Node -> Table] /\ SavedInv'
  BY <1>1, <1>4, <1>5, SaveRight
<1>7. msg \in Message /\ msg.clock = clock'[n] /\ msg.past = past'[n]
  BY <1>5 DEF Message
<1> HIDE DEF msg
<1>8. ASSUME NEW m \in flight'
      PROVE  /\ Bounded(m.clock, m.past)
             /\ \A q \in Node : q \notin behind' => TimeOf(m.clock, q) = m.past[q]
             /\ \A q \in Node : m.past[q] <= past'[q][q]
  <2>1. CASE m \in flight
    BY <1>1, <1>4, <1>5, <2>1, FlightRight
  <2>2. CASE m = msg
    BY <1>5, <1>7, <2>2 DEF ClocksRight, Bounded, Exact
  <2>3. QED
    BY <1>4, <2>1, <2>2
<1>9. ClockTypeOK'
  BY <1>1, <1>4, <1>5, <1>6, <1>7 DEF ClockTypeOK
<1>10. HistoryInv'
  BY <1>5, <1>6, <1>8 DEF HistoryInv, Known, ClocksRight, Bounded, Exact
<1>11. QED
  BY <1>9, <1>10 DEF ClockInv

(* A receive advances the clock: nobody knows more of a node's events than the   *)
(* node itself, so counting before or after merging is the same.                 *)
LEMMA ReceiveStep ==
  ASSUME Room, ClockInv, NEW n \in Node, NEW m \in flight, Receive(n, m)
  PROVE  ClockInv'
<1> DEFINE vc == Received(n, m)
           heard == Heard(n, m)
<1>1. ClockTypeOK /\ HistoryInv /\ Known
  BY DEF ClockInv, HistoryInv
<1>2. /\ Event(n, vc, heard) /\ Save(n)
      /\ up' = up /\ behind' = behind /\ flight' = flight \ {m}
  BY DEF Receive, Received
<1>3. m \in Message /\ heard \in [Node -> Nat] /\ \A q \in Node : heard[q] = Later(past[n][q], m.past[q])
  BY <1>1, HeardType
<1>4. /\ vc \in Table
      /\ \A q \in Node \ {n} : TimeOf(vc, q) = Later(TimeOf(clock[n], q), TimeOf(m.clock, q))
  BY <1>1, ReceivedTimes
<1>5. /\ TimeOf(vc, n) <= Later(TimeOf(clock[n], n), TimeOf(m.clock, n)) + 1
      /\ TimeOf(clock[n], n) > 0 /\ TimeOf(clock[n], n) >= TimeOf(m.clock, n)
           => TimeOf(vc, n) = TimeOf(clock[n], n) + 1
  BY <1>1, ReceivedTimes
<1> HIDE DEF vc, heard
<1>6. \A q \in Node : /\ TimeOf(clock[n], q) \in Nat /\ TimeOf(m.clock, q) \in Nat
                      /\ past[n][q] \in Nat /\ m.past[q] \in Nat /\ past[q][q] \in Nat
  BY <1>1, <1>3, TimeFound DEF ClockTypeOK, Message
<1>7. \A q \in Node : /\ TimeOf(clock[n], q) <= past[n][q] /\ TimeOf(m.clock, q) <= m.past[q]
                      /\ q \notin behind => /\ TimeOf(clock[n], q) = past[n][q]
                                            /\ TimeOf(m.clock, q) = m.past[q]
  BY <1>1 DEF HistoryInv, Bounded, Exact
<1>8. \A q \in Node : past[n][q] <= past[q][q] /\ m.past[q] <= past[q][q] /\ past[n][n] >= 1
  BY <1>1 DEF Known
<1>9. \A q \in Node : past[n][q] <= heard[q] /\ heard[q] <= past[q][q]
  BY <1>3, <1>6, <1>8 DEF Later
<1>10. \A q \in Node \ {n} : TimeOf(vc, q) <= heard[q] /\ Exact(vc, heard, q)
  BY <1>3, <1>4, <1>6, <1>7 DEF Later, Exact
<1>11. heard[n] = past[n][n] /\ m.past[n] <= past[n][n]
  BY <1>3, <1>6, <1>8 DEF Later
<1>12. TimeOf(vc, n) \in Nat
  BY <1>4, TimeFound
<1>13. TimeOf(vc, n) <= heard[n] + 1
  <2>1. Later(TimeOf(clock[n], n), TimeOf(m.clock, n)) <= past[n][n]
    BY <1>6, <1>7, <1>11 DEF Later
  <2>2. Later(TimeOf(clock[n], n), TimeOf(m.clock, n)) \in Nat
    BY <1>6 DEF Later
  <2>3. QED
    BY <1>5, <1>6, <1>11, <1>12, <2>1, <2>2
<1>14. n \notin behind => TimeOf(vc, n) = heard[n] + 1
  BY <1>5, <1>6, <1>7, <1>8, <1>11
<1>15. Advances(n, vc, heard)
  BY <1>3, <1>4, <1>9, <1>10, <1>13, <1>14 DEF Advances
<1>16. /\ clock' \in [Node -> Table] /\ past' \in [Node -> [Node -> Nat]]
       /\ ClocksRight'
       /\ \A p, q \in Node : past[p][q] <= past'[p][q]
       /\ \A p \in Node \ {n} : past'[p] = past[p]
  BY <1>1, <1>2, <1>15, EventRight
<1>17. saved' \in [Node -> Table] /\ SavedInv'
  BY <1>1, <1>2, <1>16, SaveRight
<1>18. \A k \in flight' : /\ Bounded(k.clock, k.past)
                          /\ \A q \in Node : q \notin behind' => TimeOf(k.clock, q) = k.past[q]
                          /\ \A q \in Node : k.past[q] <= past'[q][q]
  BY <1>1, <1>2, <1>16, FlightRight
<1>19. ClockTypeOK'
  BY <1>1, <1>2, <1>16, <1>17 DEF ClockTypeOK
<1>20. HistoryInv'
  BY <1>16, <1>17, <1>18 DEF HistoryInv, Known, ClocksRight, Bounded, Exact
<1>21. QED
  BY <1>19, <1>20 DEF ClockInv

(* Who dies with another clock in its log than in its memory is behind.          *)
LEMMA DieStep == ASSUME ClockInv, NEW n \in Node, Die(n) PROVE ClockInv'
<1>1. ClockTypeOK /\ HistoryInv /\ SavedInv /\ Known
  BY DEF ClockInv, HistoryInv
<1>2. /\ up' = [up EXCEPT ![n] = FALSE]
      /\ UNCHANGED <<clock, saved, flight, past>>
      /\ behind \subseteq behind' /\ behind' \subseteq Node
      /\ saved[n] = clock[n] \/ n \in behind'
  BY <1>1 DEF Die, ClockTypeOK
<1>3. up' \in [Node -> BOOLEAN] /\ \A p \in Node \ {n} : up'[p] = up[p]
  BY <1>1, <1>2 DEF ClockTypeOK
<1>4. ClockTypeOK'
  BY <1>1, <1>2, <1>3 DEF ClockTypeOK
<1>5. ASSUME NEW p \in Node, NEW q \in Node, q # p \/ ~up'[p], q \notin behind'
      PROVE  TimeOf(saved[p], q) = past[p][q]
  <2>1. q \notin behind
    BY <1>2, <1>5
  <2>2. CASE p = n /\ q = n
    <3>1. saved[n] = clock[n]
      BY <1>2, <1>5, <2>2
    <3>2. QED
      BY <1>1, <2>1, <2>2, <3>1 DEF HistoryInv, Exact
  <2>3. CASE q # p
    BY <1>1, <2>1, <2>3 DEF SavedInv, Exact
  <2>4. CASE p # n
    BY <1>1, <1>3, <1>5, <2>1, <2>4 DEF SavedInv, Exact
  <2>5. QED
    BY <2>2, <2>3, <2>4
<1>6. SavedInv'
  BY <1>1, <1>2, <1>5 DEF SavedInv, Bounded, Exact
<1>7. Known'
  BY <1>1, <1>2 DEF Known
<1>8. HistoryInv'
  BY <1>1, <1>2, <1>6, <1>7 DEF HistoryInv, Exact, Bounded
<1>9. QED
  BY <1>4, <1>8 DEF ClockInv

(* A restarted node goes on from the clock in its log.                           *)
LEMMA RestartStep == ASSUME ClockInv, NEW n \in Node, Restart(n) PROVE ClockInv'
<1>1. ClockTypeOK /\ HistoryInv /\ SavedInv /\ Known
  BY DEF ClockInv, HistoryInv
<1>2. saved[n] \in Table /\ Bounded(saved[n], past[n]) /\ \A q \in Node : Exact(saved[n], past[n], q)
  BY <1>1 DEF ClockTypeOK, SavedInv, Restart
<1>3. Advances(n, Updated(saved[n], n), past[n])
  BY <1>1, <1>2, CountAdvances
<1>4. up' \in [Node -> BOOLEAN] /\ \A p \in Node \ {n} : up'[p] = up[p]
  BY <1>1 DEF Restart, ClockTypeOK
<1>5. QED
  BY <1>3, <1>4, AloneStep DEF Restart

(* Every step keeps clocks, logs and messages right about the past.              *)
LEMMA ClockStep == ASSUME Room, ClockInv, [Next]_vars PROVE ClockInv'
<1>1. ASSUME NEW n \in Node, NEW m \in flight, Receive(n, m) PROVE ClockInv'
  BY <1>1, ReceiveStep
<1>2. ASSUME NEW n \in Node, NEW to \in Node, Send(n, to) PROVE ClockInv'
  BY <1>2, SendStep
<1>3. ASSUME NEW n \in Node, LocalEvent(n) \/ LocalEventUnsaved(n) \/ Die(n) \/ Restart(n)
      PROVE  ClockInv'
  BY <1>3, LocalStep, UnsavedStep, DieStep, RestartStep
<1>4. CASE UNCHANGED vars
  BY <1>4 DEF vars, ClockInv, ClockTypeOK, HistoryInv, SavedInv, Known, Bounded, Exact
<1>5. QED
  BY <1>1, <1>2, <1>3, <1>4 DEF Next

(* The inductive invariant.                                                      *)
LEMMA ClockInvariant ==
  ASSUME Room
  PROVE  Spec => []ClockInv
<1>1. ClockInv /\ [Next]_vars => ClockInv'
  BY ClockStep
<1>2. QED
  BY <1>1, ClockStart, PTL DEF Spec

(* A table with room for every node counts, for every node, the events in the    *)
(* causal past, and never too many, through merges on either side of the count,  *)
(* kills and restarts (tmanager.c:184).                                          *)
THEOREM ClockCountsHistory ==
  ASSUME Room
  PROVE  Spec => []ClockIsHistory
<1>1. ClockInv => ClockIsHistory
  BY DEF ClockInv, HistoryInv, Exact, ClockIsHistory
<1>2. QED
  BY <1>1, ClockInvariant, PTL

(* And a receive loses neither the receiver's times nor the sender's, whatever   *)
(* died before and is behind.                                                    *)
THEOREM ReceiveLosesNothing ==
  ASSUME Room
  PROVE  Spec => ReceiveDominates
<1>1. ASSUME ClockInv, NEW n \in Node, NEW m \in flight, Receive(n, m), NEW q \in Node
      PROVE  /\ TimeOf(clock'[n], q) >= TimeOf(clock[n], q)
             /\ TimeOf(clock'[n], q) >= TimeOf(m.clock, q)
  <2>1. ClockTypeOK
    BY <1>1 DEF ClockInv
  <2>2. Event(n, Received(n, m), Heard(n, m))
    BY <1>1 DEF Receive, Received
  <2>3. /\ Received(n, m) \in Table
        /\ \A p \in Node \ {n} :
             TimeOf(Received(n, m), p) = Later(TimeOf(clock[n], p), TimeOf(m.clock, p))
    BY <2>1, ReceivedTimes
  <2>4. TimeOf(Received(n, m), n) >= Later(TimeOf(clock[n], n), TimeOf(m.clock, n))
    BY <2>1, ReceivedTimes
  <2>5. clock'[n] = Received(n, m)
    BY <2>1, <2>2, <2>3, EventEffect, HeardType
  <2>6. /\ TimeOf(clock[n], q) \in Nat /\ TimeOf(m.clock, q) \in Nat
        /\ TimeOf(Received(n, m), q) \in Nat
    BY <2>1, <2>3, TimeFound DEF ClockTypeOK, Message
  <2>7. TimeOf(Received(n, m), q) >= Later(TimeOf(clock[n], q), TimeOf(m.clock, q))
    <3>1. CASE q = n
      BY <2>4, <3>1
    <3>2. CASE q # n
      BY <2>3, <2>6, <3>2 DEF Later
    <3>3. QED
      BY <3>1, <3>2
  <2>8. QED
    BY <2>5, <2>6, <2>7 DEF Later
<1> DEFINE Keeps == \A n \in Node, m \in flight : Receive(n, m) =>
                      \A q \in Node :
                        /\ TimeOf(clock'[n], q) >= TimeOf(clock[n], q)
                        /\ TimeOf(clock'[n], q) >= TimeOf(m.clock, q)
<1>2. ClockInv => Keeps
  BY <1>1
<1> HIDE DEF Keeps
<1>3. ClockInv /\ [Next]_vars => [Keeps]_vars
  BY <1>2
<1>4. Spec => [][Keeps]_vars
  BY <1>3, ClockInvariant, PTL DEF Spec
<1>5. QED
  BY <1>4 DEF ReceiveDominates, Keeps
===============================================================================
