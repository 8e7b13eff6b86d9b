---------------------------- MODULE TxSystemProofs ----------------------------
(* Proofs about the manager and the workers together, for any number of them,   *)
(* any budgets, with loss and kills.  First the manager by itself, in the open   *)
(* environment of MgrSpec: its type invariant, its action properties, and that a *)
(* commit is final.  Then the system: the type invariant; that the manager among *)
(* its workers is the manager of MgrSpec; and what follows for the system.       *)
EXTENDS TxSystem, QueueLemmas, FiniteSetTheorems, SequenceTheorems, TLAPS

-------------------------------------------------------------------------------
\* The manager by itself: what its operators return

(* What sendToAllWorkers puts on the sockets is a sequence of messages per     *)
(* worker.                                                                     *)
LEMMA BroadcastType ==
  ASSUME MgrTypeOK, NEW tid \in AnyTid, NEW kind \in ManagerKind
  PROVE  Broadcast(tid, kind) \in [Worker -> Seq(ToWorker)]
<1>1. ASSUME NEW w \in Worker PROVE Cardinality(Entries(tid, w)) \in Nat
  <2>1. Entries(tid, w) \subseteq Slot \X (1..MaxNodes)
    BY DEF Entries
  <2>2. IsFiniteSet(Slot) /\ IsFiniteSet(1..MaxNodes)
    BY FS_Interval, SizesAssumption DEF Slot
  <2>3. IsFiniteSet(Slot \X (1..MaxNodes))
    BY <2>2, FS_Product
  <2>4. QED
    BY <2>1, <2>3, FS_Subset, FS_CardinalityType
<1>2. ASSUME NEW w \in Worker
      PROVE  [i \in 1..Cardinality(Entries(tid, w)) |-> [kind |-> kind, tid |-> tid]]
               \in Seq(ToWorker)
  <2>1. [kind |-> kind, tid |-> tid] \in ToWorker
    BY DEF ToWorker
  <2>2. QED
    BY <1>1, <2>1
<1>3. QED
  BY <1>2 DEF Broadcast

(* A broadcast to a transaction that holds no slot reaches nobody.             *)
LEMMA BroadcastReach ==
  ASSUME NEW tid, NEW kind, NEW w \in Worker, NEW i \in DOMAIN Broadcast(tid, kind)[w]
  PROVE  Holding(tid) # {} /\ Broadcast(tid, kind)[w][i] = [kind |-> kind, tid |-> tid]
<1>1. DOMAIN Broadcast(tid, kind)[w] = 1..Cardinality(Entries(tid, w))
  BY DEF Broadcast
<1>2. ASSUME Holding(tid) = {} PROVE FALSE
  <2>1. Entries(tid, w) = {}
    BY <1>2 DEF Entries, Holding
  <2>2. Cardinality(Entries(tid, w)) = 0
    BY <2>1, FS_EmptySet
  <2>3. QED
    BY <1>1, <2>2
<1>3. QED
  BY <1>1, <1>2 DEF Broadcast

(* So is what a sender killed on the way has sent.                             *)
LEMMA BroadcastUpToType ==
  ASSUME MgrTypeOK, NEW tid \in AnyTid, NEW kind \in ManagerKind, NEW last
  PROVE  BroadcastUpTo(tid, kind, last) \in [Worker -> Seq(ToWorker)]
<1>1. Broadcast(tid, kind) \in [Worker -> Seq(ToWorker)]
  BY BroadcastType
<1>2. QED
  BY <1>1 DEF BroadcastUpTo

(* A reply is one message to the worker that is answered.                      *)
LEMMA ReplyType ==
  ASSUME NEW m \in ToManager, NEW kind \in ManagerKind
  PROVE  Reply(m, kind) \in [Worker -> Seq(ToWorker)]
<1>1. [kind |-> kind, tid |-> m.tid] \in ToWorker
  BY DEF ToManager, ToWorker
<1>2. <<[kind |-> kind, tid |-> m.tid]>> \in Seq(ToWorker) /\ <<>> \in Seq(ToWorker)
  BY <1>1
<1>3. QED
  BY <1>2 DEF Reply

(* A step that is silent is well typed.                                        *)
LEMMA SilenceType == Silence \in [Worker -> Seq(ToWorker)]
BY DEF Silence

Slots == [tid: AnyTid, isCrash: BOOLEAN, members: Seq(Member)]

(* The table stays well formed when one slot is replaced by a well-formed one. *)
LEMMA WithSlotType ==
  ASSUME MgrTypeOK, NEW k, NEW slot \in Slots, Len(slot.members) <= MaxNodes
  PROVE  /\ WithSlot(k, slot) \in [Slot -> Slots]
         /\ \A j \in Slot : Len(WithSlot(k, slot)[j].members) <= MaxNodes
BY DEF WithSlot, MgrTypeOK, Slots

(* Cleaning a slot keeps the table well formed.                                *)
LEMMA CleanedType ==
  ASSUME MgrTypeOK, NEW k
  PROVE  /\ Cleaned(k) \in [Slot -> Slots]
         /\ \A j \in Slot : Len(Cleaned(k)[j].members) <= MaxNodes
<1>1. Free \in Slots /\ Len(Free.members) <= MaxNodes
  BY SizesAssumption DEF Free, Slots, AnyTid
<1>2. QED
  BY <1>1, WithSlotType DEF Cleaned

(* Enrolling a worker changes neither the form of the table nor any tid.       *)
LEMMA EnrolledType ==
  ASSUME MgrTypeOK, NEW k \in Slot, NEW w \in Worker
  PROVE  /\ Enrolled(k, w) \in [Slot -> Slots]
         /\ \A j \in Slot : Len(Enrolled(k, w)[j].members) <= MaxNodes
         /\ \A j \in Slot : Enrolled(k, w)[j].tid = table[j].tid
<1>1. CASE Len(table[k].members) < MaxNodes
  <2> DEFINE slot == [table[k] EXCEPT !.members = Append(@, [id |-> w, voted |-> FALSE])]
  <2>1. table[k] \in Slots /\ table \in [Slot -> Slots]
    BY DEF MgrTypeOK, Slots
  <2>2. [id |-> w, voted |-> FALSE] \in Member
    BY DEF Member
  <2>3. Append(table[k].members, [id |-> w, voted |-> FALSE]) \in Seq(Member)
    BY <2>1, <2>2 DEF Slots
  <2>4. Len(Append(table[k].members, [id |-> w, voted |-> FALSE])) <= MaxNodes
    BY <1>1, <2>1, <2>2, SizesAssumption DEF Slots
  <2>5. slot \in Slots /\ Len(slot.members) <= MaxNodes /\ slot.tid = table[k].tid
    BY <2>1, <2>3, <2>4 DEF Slots
  <2>6. Enrolled(k, w) = [table EXCEPT ![k] = slot]
    BY <1>1, <2>1 DEF Enrolled
  <2> HIDE DEF slot
  <2>7. QED
    BY <2>1, <2>5, <2>6 DEF MgrTypeOK
<1>2. CASE ~(Len(table[k].members) < MaxNodes)
  BY <1>2 DEF Enrolled, MgrTypeOK, Slots
<1>3. QED
  BY <1>1, <1>2

(* Counting a vote changes neither the form of the table nor any tid.          *)
LEMMA CountedType ==
  ASSUME MgrTypeOK, NEW k \in 0..MaxTrans, NEW m \in ToManager
  PROVE  /\ Counted(k, m) \in [Slot -> Slots]
         /\ \A j \in Slot : Len(Counted(k, m)[j].members) <= MaxNodes
         /\ \A j \in Slot : Counted(k, m)[j].tid = table[j].tid
<1>1. CASE k = 0
  BY <1>1 DEF Counted, MgrTypeOK, Slots
<1>2. CASE k # 0
  <2> DEFINE members == table[k].members
             n == Len(members)
  <2>1. k \in Slot /\ table[k] \in Slots /\ Len(members) <= MaxNodes
    BY <1>2, SizesAssumption DEF MgrTypeOK, Slots, Slot
  <2>2. members \in Seq(Member) /\ DOMAIN members = 1..n /\ n \in Nat
    BY <2>1 DEF Slots
  <2>3. \A j \in 1..n : members[j] \in Member
    BY <2>2
  <2>4. \A j \in 1..n : Voted(members, m.from)[j] \in Member
    BY <2>2, <2>3 DEF Voted, Member
  <2>5. DOMAIN Voted(members, m.from) = 1..n /\ Voted(members, m.from) = [j \in 1..n |-> Voted(members, m.from)[j]]
    BY <2>2 DEF Voted
  <2>6. Voted(members, m.from) \in Seq(Member)
    BY <2>2, <2>4, <2>5
  <2>7. Len(Voted(members, m.from)) = n
    BY <2>2, <2>5, <2>6
  <2>8. m.isCrash \in BOOLEAN
    BY DEF ToManager
  <2>9. (table[k].isCrash \/ m.isCrash) \in BOOLEAN
    BY <2>1, <2>8 DEF Slots
  <2>10. /\ VotedSlot(k, m) \in Slots
         /\ VotedSlot(k, m).tid = table[k].tid
         /\ VotedSlot(k, m).members = Voted(members, m.from)
    BY <2>1, <2>6, <2>9 DEF VotedSlot, Slots
  <2>11. Counted(k, m) = WithSlot(k, VotedSlot(k, m))
    BY <1>2 DEF Counted
  <2>12. Len(VotedSlot(k, m).members) <= MaxNodes
    BY <2>1, <2>7, <2>10
  <2>13. /\ Counted(k, m) \in [Slot -> Slots]
         /\ \A j \in Slot : Len(Counted(k, m)[j].members) <= MaxNodes
    BY <2>10, <2>11, <2>12, WithSlotType
  <2>14. \A j \in Slot : Counted(k, m)[j] = IF j = k THEN VotedSlot(k, m) ELSE table[j]
    BY <1>2, <2>11 DEF WithSlot, MgrTypeOK
  <2>15. QED
    BY <2>10, <2>13, <2>14
<1>3. QED
  BY <1>1, <1>2

(* A slot in which a vote has been counted has the members it had.             *)
LEMMA VotedSlotType ==
  ASSUME MgrTypeOK, NEW k \in Slot, NEW m \in ToManager
  PROVE  /\ VotedSlot(k, m) \in Slots /\ VotedSlot(k, m).tid = table[k].tid
         /\ Len(VotedSlot(k, m).members) = Len(table[k].members)
         /\ \A i \in 1..Len(table[k].members) :
              VotedSlot(k, m).members[i].id = table[k].members[i].id
<1> DEFINE old == table[k].members
           new == Voted(old, m.from)
           n == Len(old)
<1>1. table[k] \in Slots /\ m.isCrash \in BOOLEAN
  BY DEF MgrTypeOK, Slots, ToManager
<1>2. old \in Seq(Member) /\ n \in Nat /\ DOMAIN old = 1..n
  BY <1>1 DEF Slots
<1>3. \A i \in 1..n : old[i] \in Member
  BY <1>2
<1>4. \A i \in 1..n : new[i] = old[i] \/ new[i] = [old[i] EXCEPT !.voted = TRUE]
  BY <1>2 DEF Voted
<1>5. \A i \in 1..n : new[i] \in Member /\ new[i].id = old[i].id
  BY <1>3, <1>4 DEF Member
<1>6. new = [i \in 1..n |-> new[i]]
  BY <1>2 DEF Voted
<1>7. new \in Seq(Member) /\ Len(new) = n
  <2> HIDE DEF n, old, new
  <2>1. [i \in 1..n |-> new[i]] \in Seq(Member) /\ Len([i \in 1..n |-> new[i]]) = n
    BY <1>2, <1>5
  <2>2. QED
    BY <1>6, <2>1
<1>8. (table[k].isCrash \/ m.isCrash) \in BOOLEAN
  BY <1>1 DEF Slots
<1>9. VotedSlot(k, m) \in Slots /\ VotedSlot(k, m).tid = table[k].tid /\ VotedSlot(k, m).members = new
  BY <1>1, <1>7, <1>8 DEF VotedSlot, Slots
<1>10. QED
  BY <1>5, <1>7, <1>9

\* The table a manager killed on its way leaves: every slot keeps its transaction, and
\* has lost at most its first members.
TornTable ==
  /\ table' \in [Slot -> Slots]
  /\ \A j \in Slot :
       /\ table'[j].tid = table[j].tid
       /\ \E c \in 0..Len(table[j].members) :
            /\ Len(table'[j].members) = Len(table[j].members) - c
            /\ \A i \in 1..Len(table'[j].members) :
                 table'[j].members[i].id = table[j].members[i + c].id

\* What it has sent and logged.
TornSaid ==
  \/ sent' = Silence
  \/ \E tid \in AnyTid, kind \in {"DECIDE_COMMIT", "DECIDE_ABORT"}, last \in 0..MaxNodes :
       sent' = BroadcastUpTo(tid, kind, last)

TornLogged ==
  \/ mlog' = mlog
  \/ \E tid \in AnyTid, kind \in {"DECIDE_COMMIT", "DECIDE_ABORT"} :
       mlog' = mlog \cup {[kind |-> kind, tid |-> tid]}

(* One slot changes, and loses no more than its first members.                 *)
LEMMA OneSlotTorn ==
  ASSUME MgrTypeOK, NEW k \in Slot, NEW slot \in Slots, slot.tid = table[k].tid,
         Len(slot.members) = Len(table[k].members),
         \A i \in 1..Len(table[k].members) : slot.members[i].id = table[k].members[i].id,
         NEW cleared \in 0..Len(slot.members), NEW flag \in BOOLEAN,
         table' = PartlyCleaned(k, slot, cleared, flag)
  PROVE  TornTable
<1> DEFINE old == slot.members
           new == SubSeq(old, cleared + 1, Len(old))
           n == Len(old)
<1>1. old \in Seq(Member) /\ n \in Nat /\ cleared \in 0..n
  BY DEF Slots
<1>2. \A i \in (cleared + 1)..n : old[i] \in Member
  BY <1>1
<1>3. /\ new \in Seq(Member) /\ Len(new) = n - cleared
      /\ \A i \in 1..(n - cleared) : new[i] = old[i + cleared]
  <2>1. /\ new \in Seq(Member)
        /\ Len(new) = IF cleared + 1 <= n THEN n - (cleared + 1) + 1 ELSE 0
        /\ \A i \in 1..(n - (cleared + 1) + 1) : new[i] = old[(cleared + 1) + i - 1]
    BY <1>1, <1>2, SubSeqProperties
  <2> HIDE DEF n, old, new
  <2>2. n - (cleared + 1) + 1 = n - cleared
    BY <1>1
  <2>3. ~(cleared + 1 <= n) => n - cleared = 0
    BY <1>1
  <2>4. \A i \in 1..(n - cleared) : (cleared + 1) + i - 1 = i + cleared
    BY <1>1
  <2>5. QED
    BY <2>1, <2>2, <2>3, <2>4
<1> DEFINE s == [slot EXCEPT !.isCrash = flag, !.members = new]
<1>4. s \in Slots /\ s.tid = table[k].tid /\ s.members = new
  <2> HIDE DEF new
  <2>1. QED
    BY <1>3 DEF Slots
<1>5. table' = WithSlot(k, s)
  BY DEF PartlyCleaned
<1> HIDE DEF new, s
<1>6. table' \in [Slot -> Slots] /\ \A j \in Slot : table'[j] = IF j = k THEN s ELSE table[j]
  BY <1>4, <1>5 DEF WithSlot, MgrTypeOK, Slots
<1>7. ASSUME NEW j \in Slot, j # k
      PROVE  /\ table'[j].tid = table[j].tid
             /\ \E c \in 0..Len(table[j].members) :
                  /\ Len(table'[j].members) = Len(table[j].members) - c
                  /\ \A i \in 1..Len(table'[j].members) :
                       table'[j].members[i].id = table[j].members[i + c].id
  <2>1. table'[j] = table[j] /\ Len(table[j].members) \in Nat
    BY <1>6, <1>7 DEF MgrTypeOK
  <2>2. 0 \in 0..Len(table[j].members) /\ Len(table[j].members) = Len(table[j].members) - 0
    BY <2>1
  <2>3. \A i \in 1..Len(table[j].members) : i + 0 = i
    OBVIOUS
  <2>4. QED
    BY <2>1, <2>2, <2>3
<1>8. /\ table'[k].tid = table[k].tid
      /\ cleared \in 0..Len(table[k].members)
      /\ Len(table'[k].members) = Len(table[k].members) - cleared
      /\ \A i \in 1..Len(table'[k].members) :
           table'[k].members[i].id = table[k].members[i + cleared].id
  <2>0. table'[k] = s /\ Len(table[k].members) = n
    BY <1>6
  <2>1. table'[k].tid = table[k].tid /\ table'[k].members = new /\ Len(table[k].members) = n
    BY <1>4, <2>0
  <2>2. \A i \in 1..n : old[i].id = table[k].members[i].id
    BY <2>1
  <2> HIDE DEF old, n
  <2>3. ASSUME NEW i \in 1..(n - cleared) PROVE new[i].id = table[k].members[i + cleared].id
    <3>1. i + cleared \in 1..n
      BY <1>1
    <3>2. QED
      BY <1>3, <2>2, <3>1
  <2>4. QED
    BY <1>1, <1>3, <2>1, <2>3
<1>9. ASSUME NEW j \in Slot
      PROVE  /\ table'[j].tid = table[j].tid
             /\ \E c \in 0..Len(table[j].members) :
                  /\ Len(table'[j].members) = Len(table[j].members) - c
                  /\ \A i \in 1..Len(table'[j].members) :
                       table'[j].members[i].id = table[j].members[i + c].id
  <2>1. CASE j = k
    BY <1>8, <2>1
  <2>2. CASE j # k
    BY <1>7, <2>2
  <2>3. QED
    BY <2>1, <2>2
<1>10. QED
  BY <1>6, <1>9 DEF TornTable

(* A manager killed on its way through a vote, a poll or a timeout.            *)
LEMMA TornEffect ==
  ASSUME MgrTypeOK, MgrTornTimeout \/ \E m \in ToManager : MgrTornVote(m)
  PROVE  TornTable /\ TornSaid /\ TornLogged
<1>1. ASSUME NEW k \in Slot
      PROVE  /\ table[k] \in Slots /\ Len(table[k].members) \in Nat
             /\ table[k].isCrash \in BOOLEAN /\ table[k].tid \in AnyTid
  BY DEF MgrTypeOK, Slots
<1>2. ASSUME NEW k \in Slot, NEW slot \in Slots, slot.tid = table[k].tid,
             Len(slot.members) = Len(table[k].members),
             \A i \in 1..Len(table[k].members) : slot.members[i].id = table[k].members[i].id,
             table' = WithSlot(k, slot)
      PROVE  TornTable
  <2>1. slot.members \in Seq(Member) /\ Len(slot.members) \in Nat /\ slot.isCrash \in BOOLEAN
    BY DEF Slots
  <2>2. SubSeq(slot.members, 0 + 1, Len(slot.members)) = slot.members
    BY <2>1
  <2>3. [slot EXCEPT !.isCrash = slot.isCrash, !.members = slot.members] = slot
    BY DEF Slots
  <2>4. table' = PartlyCleaned(k, slot, 0, slot.isCrash)
    BY <1>2, <2>2, <2>3 DEF PartlyCleaned
  <2>5. 0 \in 0..Len(slot.members)
    BY <2>1
  <2>6. QED
    BY <1>2, <2>1, <2>4, <2>5, OneSlotTorn
<1>3. ASSUME NEW k \in Slot, NEW slot \in Slots, slot.tid = table[k].tid,
             Len(slot.members) = Len(table[k].members),
             \A i \in 1..Len(table[k].members) : slot.members[i].id = table[k].members[i].id,
             NEW decision \in {"DECIDE_COMMIT", "DECIDE_ABORT"}, TornDecision(k, slot, decision)
      PROVE  TornTable /\ TornSaid /\ TornLogged
  <2>1. PICK last \in 0..MaxNodes, cleared \in 0..Len(slot.members), flag \in {slot.isCrash, FALSE} :
          /\ sent' = IF slot.isCrash THEN Silence ELSE BroadcastUpTo(slot.tid, decision, last)
          /\ table' = PartlyCleaned(k, slot, cleared, flag)
    BY <1>3 DEF TornDecision
  <2>2. flag \in BOOLEAN /\ slot.tid \in AnyTid
    BY DEF Slots
  <2>3. TornTable
    BY <1>3, <2>1, <2>2, OneSlotTorn
  <2>4. TornSaid
    BY <2>1, <2>2 DEF TornSaid
  <2>5. TornLogged
    BY <1>3, <2>2 DEF TornDecision, TornLogged
  <2>6. QED
    BY <2>3, <2>4, <2>5
<1>4. ASSUME NEW k \in Slot, NEW m \in ToManager
      PROVE  /\ [table[k] EXCEPT !.isCrash = @ \/ m.isCrash] \in Slots
             /\ [table[k] EXCEPT !.isCrash = @ \/ m.isCrash].tid = table[k].tid
             /\ [table[k] EXCEPT !.isCrash = @ \/ m.isCrash].members = table[k].members
  <2>1. (table[k].isCrash \/ m.isCrash) \in BOOLEAN
    BY <1>1 DEF ToManager
  <2>2. QED
    BY <1>1, <2>1 DEF Slots
<1>5. ASSUME NEW m \in ToManager, MgrTornVote(m) PROVE TornTable /\ TornSaid /\ TornLogged
  <2>1. PICK k \in Slot :
          \/ TornCount(k, m)
          \/ TornDecision(k, VotedSlot(k, m), "DECIDE_COMMIT")
          \/ TornDecision(k, [table[k] EXCEPT !.isCrash = @ \/ m.isCrash], "DECIDE_ABORT")
    BY <1>5 DEF MgrTornVote
  <2>2. CASE TornCount(k, m)
    <3>1. table' = WithSlot(k, [table[k] EXCEPT !.isCrash = @ \/ m.isCrash])
          \/ table' = WithSlot(k, VotedSlot(k, m))
      BY <2>2, SizesAssumption DEF TornCount, Counted, Slot
    <3>2. TornTable
      BY <1>2, <1>4, <3>1, VotedSlotType
    <3>3. QED
      BY <2>2, <3>2 DEF TornCount, TornSaid, TornLogged
  <2>3. CASE TornDecision(k, VotedSlot(k, m), "DECIDE_COMMIT")
    BY <1>3, <2>3, VotedSlotType
  <2>4. CASE TornDecision(k, [table[k] EXCEPT !.isCrash = @ \/ m.isCrash], "DECIDE_ABORT")
    BY <1>3, <1>4, <2>4
  <2>5. QED
    BY <2>1, <2>2, <2>3, <2>4
<1>6. CASE MgrTornTimeout
  <2>1. PICK k \in Slot, last \in 0..MaxNodes :
          /\ mlog' = mlog \cup {[kind |-> "DECIDE_ABORT", tid |-> table[k].tid]}
          /\ sent' = BroadcastUpTo(table[k].tid, "DECIDE_ABORT", last)
          /\ \E cleared \in 0..Len(table[k].members), flag \in {table[k].isCrash, FALSE} :
               table' = PartlyCleaned(k, table[k], cleared, flag)
    BY <1>6 DEF MgrTornTimeout
  <2>2. PICK cleared \in 0..Len(table[k].members), flag \in {table[k].isCrash, FALSE} :
          table' = PartlyCleaned(k, table[k], cleared, flag)
    BY <2>1
  <2>3. flag \in BOOLEAN
    BY <1>1
  <2>4. TornTable
    BY <1>1, <2>2, <2>3, OneSlotTorn
  <2>5. QED
    BY <1>1, <2>1, <2>4 DEF TornSaid, TornLogged
<1>7. QED
  BY <1>5, <1>6

-------------------------------------------------------------------------------
\* The manager by itself: type correctness

(* Every step of every handler keeps the manager's state well typed: in        *)
(* particular a slot never lists more than MaxNodes members.                   *)
LEMMA TypeStep == MgrTypeOK /\ [MgrNext]_mgrVars => MgrTypeOK'
<1> SUFFICES ASSUME MgrTypeOK, [MgrNext]_mgrVars PROVE MgrTypeOK'
  OBVIOUS
<1> USE DEF Slots
<1>1. ASSUME NEW m \in ToManager, MgrBegin(m) PROVE MgrTypeOK'
  <2>1. m.tid \in AnyTid
    BY DEF ToManager
  <2>2. /\ table' \in [Slot -> Slots]
        /\ \A j \in Slot : Len(table'[j].members) <= MaxNodes
    BY <1>1, <2>1 DEF MgrBegin, MgrTypeOK
  <2>3. sent' \in [Worker -> Seq(ToWorker)]
    BY <1>1, ReplyType DEF MgrBegin, ManagerKind
  <2>4. QED
    BY <1>1, <2>1, <2>2, <2>3 DEF MgrBegin, MgrTypeOK
<1>2. ASSUME NEW m \in ToManager, MgrJoin(m) PROVE MgrTypeOK'
  <2>1. m.from \in Worker
    BY DEF ToManager
  <2>2. /\ table' \in [Slot -> Slots]
        /\ \A j \in Slot : Len(table'[j].members) <= MaxNodes
    BY <1>2, <2>1, EnrolledType DEF MgrJoin, MgrTypeOK
  <2>3. sent' \in [Worker -> Seq(ToWorker)]
    BY <1>2, ReplyType, SilenceType DEF MgrJoin, ManagerKind
  <2>4. mgrUp' \in BOOLEAN
    BY <1>2 DEF MgrJoin, MgrTypeOK
  <2>5. QED
    BY <1>2, <2>2, <2>3, <2>4 DEF MgrJoin, MgrTypeOK
<1>3. ASSUME NEW m \in ToManager, MgrCommit(m) PROVE MgrTypeOK'
  <2>1. m.tid \in AnyTid
    BY DEF ToManager
  <2>2. sent' \in [Worker -> Seq(ToWorker)]
    BY <1>3, <2>1, BroadcastType DEF MgrCommit, ManagerKind
  <2>3. mlog' \subseteq [kind: RecordKind, tid: AnyTid]
    BY <1>3, <2>1 DEF MgrCommit, MgrTypeOK, RecordKind
  <2>4. QED
    BY <1>3, <2>2, <2>3 DEF MgrCommit, MgrTypeOK
<1>4. ASSUME NEW m \in ToManager, NEW k \in 0..MaxTrans,
             NEW decision \in {"DECIDE_COMMIT", "DECIDE_ABORT"},
             Decide(m, k, decision), UNCHANGED <<resume, begun>>
      PROVE  MgrTypeOK'
  <2>1. m.tid \in AnyTid
    BY DEF ToManager
  <2>2. sent' \in [Worker -> Seq(ToWorker)]
    BY <1>4, <2>1, BroadcastType, SilenceType DEF Decide, ManagerKind
  <2>3. mlog' \subseteq [kind: RecordKind, tid: AnyTid]
    BY <1>4, <2>1 DEF Decide, MgrTypeOK, RecordKind
  <2>4. mgrUp' \in BOOLEAN
    BY <1>4 DEF Decide
  <2>5. QED
    BY <1>4, <2>2, <2>3, <2>4, CleanedType DEF Decide, MgrTypeOK
<1>5. ASSUME NEW m \in ToManager, MgrVoteCommit(m) PROVE MgrTypeOK'
  <2>1. PICK k \in 0..MaxTrans :
          StillWaiting(m, k) \/ AnswerAbort(m, k) \/ AnswerCommit(m, k) \/ DecideCommit(m, k)
    BY <1>5 DEF MgrVoteCommit
  <2>2. UNCHANGED <<resume, begun>>
    BY <1>5 DEF MgrVoteCommit
  <2>3. CASE DecideCommit(m, k)
    BY <1>4, <2>2, <2>3 DEF DecideCommit
  <2>4. CASE StillWaiting(m, k) \/ AnswerAbort(m, k) \/ AnswerCommit(m, k)
    <3>1. table' = Counted(k, m) /\ UNCHANGED <<mlog, mgrUp>>
      BY <2>4 DEF StillWaiting, AnswerAbort, AnswerCommit
    <3>2. sent' \in [Worker -> Seq(ToWorker)]
      BY <2>4, ReplyType, SilenceType
         DEF StillWaiting, AnswerAbort, AnswerCommit, ManagerKind
    <3>3. QED
      BY <2>2, <3>1, <3>2, CountedType DEF MgrTypeOK
  <2>5. QED
    BY <2>1, <2>3, <2>4
<1>6. ASSUME NEW m \in ToManager, MgrVoteAbort(m) PROVE MgrTypeOK'
  BY <1>4, <1>6 DEF MgrVoteAbort
<1>7. CASE MgrTimeout
  <2>1. PICK k \in Slot :
          /\ mlog' = mlog \cup {[kind |-> "DECIDE_ABORT", tid |-> table[k].tid]}
          /\ sent' = Broadcast(table[k].tid, "DECIDE_ABORT")
          /\ table' = Cleaned(k)
    BY <1>7 DEF MgrTimeout
  <2>2. table[k].tid \in AnyTid
    BY DEF MgrTypeOK
  <2>3. sent' \in [Worker -> Seq(ToWorker)]
    BY <2>1, <2>2, BroadcastType DEF ManagerKind
  <2>4. mlog' \subseteq [kind: RecordKind, tid: AnyTid]
    BY <2>1, <2>2 DEF MgrTypeOK, RecordKind
  <2>5. QED
    BY <1>7, <2>1, <2>3, <2>4, CleanedType DEF MgrTimeout, MgrTypeOK
<1>8. CASE MgrKill
  <2>1. mgrUp' = FALSE /\ resume' = 0 /\ 0 \in 0..MaxTrans
    BY <1>8, SizesAssumption DEF MgrKill
  <2>2. sent' \in [Worker -> Seq(ToWorker)]
    BY <1>8, SilenceType DEF MgrKill
  <2>3. QED
    BY <1>8, <2>1, <2>2 DEF MgrKill, MgrTypeOK
<1>9. CASE MgrRestart
  BY <1>9, SilenceType, SizesAssumption DEF MgrRestart, MgrTypeOK
<1>10. CASE MgrRecoverSlot
  <2>1. MaxTrans - resume + 1 \in Slot
    BY <1>10, SizesAssumption DEF MgrRecoverSlot, MgrTypeOK, Slot
  <2>2. table[MaxTrans - resume + 1].tid \in AnyTid
    BY <2>1 DEF MgrTypeOK
  <2>3. sent' \in [Worker -> Seq(ToWorker)]
    BY <1>10, <2>2, BroadcastType, SilenceType DEF MgrRecoverSlot, ManagerKind
  <2>4. resume' \in 0..MaxTrans
    BY <1>10, SizesAssumption DEF MgrRecoverSlot, MgrTypeOK
  <2>5. QED
    BY <1>10, <2>3, <2>4 DEF MgrRecoverSlot, MgrTypeOK
<1>11. CASE MgrIdle
  BY <1>11, SilenceType DEF MgrIdle, MgrTypeOK
<1>12. CASE MgrTornTimeout \/ \E m \in ToManager : MgrTornVote(m)
  <2>1. TornTable /\ TornSaid /\ TornLogged
    BY <1>12, TornEffect
  <2>2. sent' \in [Worker -> Seq(ToWorker)]
    BY <2>1, SilenceType, BroadcastUpToType DEF TornSaid, ManagerKind
  <2>3. mlog' \subseteq [kind: RecordKind, tid: AnyTid]
    BY <2>1 DEF TornLogged, MgrTypeOK, RecordKind
  <2>4. ASSUME NEW j \in Slot PROVE Len(table'[j].members) <= MaxNodes
    <3>1. PICK c \in 0..Len(table[j].members) : Len(table'[j].members) = Len(table[j].members) - c
      BY <2>1 DEF TornTable
    <3>2. Len(table[j].members) \in Nat /\ Len(table[j].members) <= MaxNodes
      BY DEF MgrTypeOK
    <3>3. QED
      BY <3>1, <3>2, SizesAssumption
  <2>5. table' \in [Slot -> Slots]
    BY <2>1 DEF TornTable
  <2>6. mgrUp' = FALSE /\ UNCHANGED <<resume, begun>>
    BY <1>12 DEF MgrTornVote, MgrTornTimeout
  <2>7. QED
    BY <2>2, <2>3, <2>4, <2>5, <2>6 DEF MgrTypeOK
<1>13. CASE UNCHANGED mgrVars
  BY <1>13 DEF mgrVars, MgrTypeOK
<1>14. QED
  BY <1>1, <1>2, <1>3, <1>5, <1>6, <1>7, <1>8, <1>9, <1>10, <1>11, <1>12, <1>13
     DEF MgrNext, MgrWhole, MgrReceive

(* The manager's type invariant: whatever workers send, the table keeps at     *)
(* most MaxNodes members per slot and every message sent is well formed.       *)
THEOREM TypeCorrect == MgrSpec => []MgrTypeOK
<1>1. MgrInit => MgrTypeOK
  BY SilenceType, SizesAssumption DEF MgrInit, MgrTypeOK, Free, AnyTid
<1>2. QED
  BY <1>1, TypeStep, PTL DEF MgrSpec

-------------------------------------------------------------------------------
\* The manager by itself: a commit is final

\* Nothing is committed, and no slot is taken, before the transaction is begun.
BegunFirst ==
  \A t \in Tid \ begun : Holding(t) = {} /\ ~Logged("DECIDE_COMMIT", t)

\* The inductive invariant.  CommitIsFinal speaks of one step only; what makes
\* it hold is that a committed transaction has no slot (CommitRetired), so that
\* broadcasts and the timeout cannot reach it; that needs the slot to be the
\* only one when it is cleaned (SlotsDistinct), and both need a BEGINTX to come
\* before everything else about its transaction (BegunFirst).
FinalInv == SlotsDistinct /\ CommitRetired /\ BegunFirst

\* What most handlers do to the tids of the table: keep or free.
OnlyFrees == \A j \in Slot : table'[j].tid \in {table[j].tid, NoTid}

(* Freeing slots and logging no commit keeps the invariant.                    *)
LEMMA FreeingKeepsInv ==
  ASSUME MgrTypeOK, FinalInv, OnlyFrees, begun \subseteq begun',
         \A t \in Tid : Logged("DECIDE_COMMIT", t)' => Logged("DECIDE_COMMIT", t)
  PROVE  FinalInv'
<1>1. ASSUME NEW j \in Slot, table'[j].tid # NoTid PROVE table'[j].tid = table[j].tid
  BY <1>1 DEF OnlyFrees
<1>2. SlotsDistinct'
  BY <1>1 DEF FinalInv, SlotsDistinct
<1>3. CommitRetired'
  BY <1>1 DEF MgrTypeOK, AnyTid, FinalInv, CommitRetired
<1>4. BegunFirst'
  BY <1>1, NoTidAssumption DEF FinalInv, BegunFirst, Holding
<1>5. QED
  BY <1>2, <1>3, <1>4 DEF FinalInv

(* A step that broadcasts tells only that, and only if the transaction has a   *)
(* slot.                                                                       *)
LEMMA BroadcastTold ==
  ASSUME NEW tid, NEW kind, sent' = Broadcast(tid, kind),
         NEW other, NEW t, Told(other, t)'
  PROVE  other = kind /\ t = tid /\ Holding(tid) # {}
<1>1. PICK w \in Worker : \E i \in DOMAIN Broadcast(tid, kind)[w] :
        Broadcast(tid, kind)[w][i] = [kind |-> other, tid |-> t]
  BY DEF Told
<1>2. Holding(tid) # {} /\ [kind |-> kind, tid |-> tid] = [kind |-> other, tid |-> t]
  BY <1>1, BroadcastReach
<1>3. QED
  BY <1>2

(* A step that replies tells only that.                                        *)
LEMMA ReplyTold ==
  ASSUME NEW m, NEW kind, sent' = Reply(m, kind), NEW other, NEW t, Told(other, t)'
  PROVE  other = kind /\ t = m.tid
<1>1. PICK w \in Worker : \E i \in DOMAIN Reply(m, kind)[w] :
        Reply(m, kind)[w][i] = [kind |-> other, tid |-> t]
  BY DEF Told
<1>2. w = m.from /\ Reply(m, kind)[w] = <<[kind |-> kind, tid |-> m.tid]>>
  BY <1>1 DEF Reply
<1>3. [kind |-> kind, tid |-> m.tid] = [kind |-> other, tid |-> t]
  BY <1>1, <1>2
<1>4. QED
  BY <1>3

(* A silent step tells nothing.                                                *)
LEMMA SilenceTold ==
  ASSUME sent' = Silence, NEW other, NEW t
  PROVE  ~Told(other, t)'
BY DEF Told, Silence

(* A BEGINTX takes a slot only for a transaction nobody has begun, so it finds *)
(* neither a slot nor a commit of it.                                          *)
LEMMA BeginStep ==
  ASSUME ~ReuseTids, MgrTypeOK, FinalInv, NEW m \in ToManager, Allowed(m), MgrBegin(m)
  PROVE  FinalInv' /\ CommitIsFinal'
<1>1. m.tid \notin begun /\ m.tid \in AnyTid
  BY DEF Allowed, MgrBegin, ToManager
<1>2. UNCHANGED mlog /\ begun' = begun \cup {m.tid}
  BY DEF MgrBegin
<1>3. CommitIsFinal'
  <2>1. \/ sent' = Reply(m, "BEGIN_FAIL")
        \/ sent' = Reply(m, "BEGIN_SUCCESS")
    BY DEF MgrBegin
  <2>2. ASSUME NEW t \in Tid PROVE ~Told("DECIDE_ABORT", t)'
    BY <2>1, ReplyTold
  <2>3. QED
    BY <2>2 DEF CommitIsFinal
<1>4. CASE UNCHANGED table
  <2>1. OnlyFrees
    BY <1>4 DEF OnlyFrees
  <2>2. FinalInv'
    BY <1>2, <2>1, FreeingKeepsInv DEF Logged
  <2>3. QED
    BY <1>3, <2>2
<1>5. ASSUME NEW k \in Slot, FirstMet(m.tid, k), table[k].tid # m.tid,
             table' = [table EXCEPT ![k].tid = m.tid]
      PROVE  FinalInv'
  <2>1. table[k].tid = NoTid /\ m.tid \in Tid
    BY <1>1, <1>5 DEF FirstMet, IsFirst, Holding, AnyTid
  <2>2. table'[k].tid = m.tid /\ \A j \in Slot \ {k} : table'[j] = table[j]
    BY <1>5 DEF MgrTypeOK
  <2>3. \A j \in Slot : table[j].tid # m.tid
    BY <1>1, <2>1 DEF FinalInv, BegunFirst, Holding
  <2>4. ~Logged("DECIDE_COMMIT", m.tid)
    BY <1>1, <2>1 DEF FinalInv, BegunFirst
  <2>5. SlotsDistinct'
    BY <2>2, <2>3 DEF FinalInv, SlotsDistinct
  <2>6. CommitRetired'
    <3>1. ASSUME NEW j \in Slot, table'[j].tid # NoTid
          PROVE  ~Logged("DECIDE_COMMIT", table'[j].tid)
      BY <2>2, <2>4, <3>1 DEF FinalInv, CommitRetired
    <3>2. QED
      BY <1>2, <3>1 DEF CommitRetired, Logged
  <2>7. BegunFirst'
    <3>1. ASSUME NEW t \in Tid \ begun' PROVE Holding(t)' = {} /\ ~Logged("DECIDE_COMMIT", t)
      BY <1>2, <2>2 DEF FinalInv, BegunFirst, Holding
    <3>2. QED
      BY <1>2, <3>1 DEF BegunFirst, Logged
  <2>8. QED
    BY <2>5, <2>6, <2>7 DEF FinalInv
<1>6. QED
  BY <1>3, <1>4, <1>5 DEF MgrBegin

(* A logged decision empties the first slot of its transaction, which is the   *)
(* only one, and is told only to members found in that slot.                   *)
LEMMA DecideStep ==
  ASSUME MgrTypeOK, FinalInv, NEW m \in ToManager, NEW k \in 0..MaxTrans,
         FirstHolding(m.tid, k), UNCHANGED <<resume, begun>>,
         NEW decision \in {"DECIDE_COMMIT", "DECIDE_ABORT"}, Decide(m, k, decision),
         decision = "DECIDE_COMMIT" =>
           k # 0 \/ Logged("DECIDE_COMMIT", m.tid)
  PROVE  FinalInv' /\ CommitIsFinal'
<1>1. m.tid \in AnyTid
  BY DEF ToManager
<1>2. /\ mlog' = mlog \cup {[kind |-> decision, tid |-> m.tid]}
      /\ table' = Cleaned(k)
      /\ sent' = Silence \/ sent' = Broadcast(m.tid, decision)
  BY DEF Decide
<1>3. /\ \A j \in Slot : table'[j] = IF j = k THEN Free ELSE table[j]
      /\ OnlyFrees
  BY <1>2 DEF Cleaned, WithSlot, OnlyFrees, Free
<1>4. ASSUME NEW j \in Slot, m.tid # NoTid PROVE table'[j].tid # m.tid
  <2>1. table[j].tid = m.tid => j = k
    BY <1>4 DEF FirstHolding, IsFirst, Holding, FinalInv, SlotsDistinct
  <2>2. QED
    BY <1>3, <1>4, <2>1 DEF Free
<1>5. ASSUME NEW t \in Tid, Logged("DECIDE_COMMIT", t)'
      PROVE  \/ Logged("DECIDE_COMMIT", t)
             \/ t = m.tid /\ decision = "DECIDE_COMMIT" /\ k # 0
  BY <1>2, <1>5 DEF Logged
<1>6. CommitIsFinal'
  <2>1. ASSUME NEW t \in Tid, Told("DECIDE_ABORT", t)', Logged("DECIDE_COMMIT", t)'
        PROVE  FALSE
    <3>1. sent' = Broadcast(m.tid, decision)
      BY <1>2, <2>1, SilenceTold
    <3>2. decision = "DECIDE_ABORT" /\ t = m.tid /\ Holding(m.tid) # {}
      BY <2>1, <3>1, BroadcastTold
    <3>3. Logged("DECIDE_COMMIT", m.tid)
      BY <1>5, <2>1, <3>2
    <3>4. QED
      BY <2>1, <3>2, <3>3, NoTidAssumption DEF FinalInv, CommitRetired, Holding
  <2>2. QED
    BY <2>1 DEF CommitIsFinal
<1>7. SlotsDistinct'
  BY <1>3 DEF FinalInv, SlotsDistinct, OnlyFrees
<1>8. CommitRetired'
  <2>1. ASSUME NEW j \in Slot, (table[j].tid)' # NoTid,
               Logged("DECIDE_COMMIT", table[j].tid)'
        PROVE  FALSE
    <3>1. table'[j].tid = table[j].tid /\ table[j].tid \in Tid
      BY <1>3, <2>1 DEF OnlyFrees, MgrTypeOK, AnyTid
    <3>2. ~Logged("DECIDE_COMMIT", table[j].tid)
      BY <2>1, <3>1 DEF FinalInv, CommitRetired
    <3>3. table[j].tid = m.tid
      BY <1>5, <2>1, <3>1, <3>2 DEF Logged
    <3>4. QED
      BY <1>4, <2>1, <3>1, <3>3
  <2>2. QED
    BY <2>1 DEF CommitRetired
<1>9. BegunFirst'
  <2>1. ASSUME NEW t \in Tid \ begun'
        PROVE  Holding(t)' = {} /\ ~Logged("DECIDE_COMMIT", t)'
    <3>1. t \notin begun /\ Holding(t) = {} /\ ~Logged("DECIDE_COMMIT", t)
      BY DEF FinalInv, BegunFirst
    <3>2. Holding(t)' = {}
      BY <1>3, <3>1, NoTidAssumption DEF Holding, OnlyFrees
    <3>3. t = m.tid => k = 0
      BY <3>1 DEF FirstHolding
    <3>4. QED
      BY <1>5, <3>1, <3>2, <3>3
  <2>2. QED
    BY <2>1 DEF BegunFirst
<1>10. QED
  BY <1>6, <1>7, <1>8, <1>9 DEF FinalInv

(* A step that keeps the log, tells nobody to abort and at most frees slots    *)
(* keeps the invariant and the finality of commits.                            *)
LEMMA HarmlessStep ==
  ASSUME MgrTypeOK, FinalInv, OnlyFrees, UNCHANGED <<mlog, begun>>,
         \A t \in Tid : ~Told("DECIDE_ABORT", t)'
  PROVE  FinalInv' /\ CommitIsFinal'
<1>1. FinalInv'
  BY FreeingKeepsInv DEF Logged
<1>2. CommitIsFinal'
  BY DEF CommitIsFinal
<1>3. QED
  BY <1>1, <1>2

(* A worker joins: its slot keeps the transaction it holds.                    *)
LEMMA JoinStep ==
  ASSUME MgrTypeOK, FinalInv, NEW m \in ToManager, MgrJoin(m)
  PROVE  FinalInv' /\ CommitIsFinal'
<1>1. m.from \in Worker /\ UNCHANGED <<mlog, begun>>
  BY DEF ToManager, MgrJoin
<1>2. OnlyFrees
  <2>1. (\E k \in Slot : table' = Enrolled(k, m.from)) \/ UNCHANGED table
    BY DEF MgrJoin
  <2>2. QED
    BY <1>1, <2>1, EnrolledType DEF OnlyFrees
<1>3. ASSUME NEW t \in Tid PROVE ~Told("DECIDE_ABORT", t)'
  <2>1. sent' = Reply(m, "JOIN_SUCCESS") \/ sent' = Reply(m, "JOIN_FAIL") \/ sent' = Silence
    BY DEF MgrJoin
  <2>2. QED
    BY <2>1, ReplyTold, SilenceTold
<1>4. QED
  BY <1>1, <1>2, <1>3, HarmlessStep

(* A request to commit is logged and forwarded; neither is a decision.         *)
LEMMA CommitStep ==
  ASSUME MgrTypeOK, FinalInv, NEW m \in ToManager, MgrCommit(m)
  PROVE  FinalInv' /\ CommitIsFinal'
<1>1. /\ mlog' = mlog \cup {[kind |-> "COMMIT_REQ", tid |-> m.tid]}
      /\ sent' = Broadcast(m.tid, "PREPARE_COMMIT")
      /\ UNCHANGED <<table, begun>>
  BY DEF MgrCommit
<1>2. ASSUME NEW t \in Tid PROVE Logged("DECIDE_COMMIT", t)' => Logged("DECIDE_COMMIT", t)
  BY <1>1 DEF Logged
<1>3. OnlyFrees
  BY <1>1 DEF OnlyFrees
<1>4. FinalInv'
  BY <1>1, <1>2, <1>3, FreeingKeepsInv
<1>5. CommitIsFinal'
  BY <1>1, BroadcastTold DEF CommitIsFinal
<1>6. QED
  BY <1>4, <1>5

(* A poll or a vote: it is counted, and answered from the log when the         *)
(* transaction has no slot, or it completes the votes and the commit is logged.*)
LEMMA VoteCommitStep ==
  ASSUME MgrTypeOK, FinalInv, NEW m \in ToManager, MgrVoteCommit(m)
  PROVE  FinalInv' /\ CommitIsFinal'
<1>1. PICK k \in 0..MaxTrans :
        /\ FirstHolding(m.tid, k)
        /\ \/ StillWaiting(m, k)
           \/ AnswerAbort(m, k)
           \/ AnswerCommit(m, k)
           \/ DecideCommit(m, k)
  BY DEF MgrVoteCommit
<1>2. UNCHANGED <<resume, begun>>
  BY DEF MgrVoteCommit
<1>3. CASE DecideCommit(m, k)
  <2>1. k # 0 \/ Logged("DECIDE_COMMIT", m.tid)
    BY <1>3 DEF DecideCommit, Verdicts
  <2>2. Decide(m, k, "DECIDE_COMMIT")
    BY <1>3 DEF DecideCommit
  <2>3. QED
    BY <1>1, <1>2, <2>1, <2>2, DecideStep
<1>4. CASE StillWaiting(m, k) \/ AnswerAbort(m, k) \/ AnswerCommit(m, k)
  <2>1. table' = Counted(k, m) /\ UNCHANGED mlog
    BY <1>4 DEF StillWaiting, AnswerAbort, AnswerCommit
  <2>2. OnlyFrees
    BY <2>1, CountedType DEF OnlyFrees
  <2>3. CASE AnswerAbort(m, k)
    <3>1. sent' = Reply(m, "DECIDE_ABORT") /\ "DECIDE_ABORT" \in Verdicts(k, m)
      BY <2>3 DEF AnswerAbort
    <3>2. m.tid \in Tid => ~Logged("DECIDE_COMMIT", m.tid)
      <4>1. CASE k = 0
        BY <3>1, <4>1 DEF Verdicts
      <4>2. CASE k # 0
        <5>1. k \in Holding(m.tid) /\ k \in Slot
          BY <1>1, <4>2 DEF FirstHolding, IsFirst, Holding
        <5>2. QED
          BY <5>1, NoTidAssumption DEF Holding, FinalInv, CommitRetired
      <4>3. QED
        BY <4>1, <4>2
    <3>3. FinalInv'
      BY <1>2, <2>1, <2>2, FreeingKeepsInv DEF Logged
    <3>4. ASSUME NEW t \in Tid, Told("DECIDE_ABORT", t)' PROVE ~Logged("DECIDE_COMMIT", t)'
      <4>1. t = m.tid
        BY <3>1, <3>4, ReplyTold
      <4>2. QED
        BY <2>1, <3>2, <4>1 DEF Logged
    <3>5. CommitIsFinal'
      BY <3>4 DEF CommitIsFinal
    <3>6. QED
      BY <3>3, <3>5
  <2>4. CASE StillWaiting(m, k) \/ AnswerCommit(m, k)
    <3>1. sent' = Silence \/ sent' = Reply(m, "DECIDE_COMMIT")
      BY <2>4 DEF StillWaiting, AnswerCommit
    <3>2. ASSUME NEW t \in Tid PROVE ~Told("DECIDE_ABORT", t)'
      BY <3>1, SilenceTold, ReplyTold
    <3>3. QED
      BY <1>2, <2>1, <2>2, <3>2, HarmlessStep
  <2>5. QED
    BY <1>4, <2>3, <2>4
<1>5. QED
  BY <1>1, <1>3, <1>4

(* The timeout aborts a transaction that is still in the table, hence one that *)
(* is not committed.                                                           *)
LEMMA TimeoutStep ==
  ASSUME MgrTypeOK, FinalInv, MgrTimeout
  PROVE  FinalInv' /\ CommitIsFinal'
<1>1. PICK k \in Slot :
        /\ mlog' = mlog \cup {[kind |-> "DECIDE_ABORT", tid |-> table[k].tid]}
        /\ sent' = Broadcast(table[k].tid, "DECIDE_ABORT")
        /\ table' = Cleaned(k)
  BY DEF MgrTimeout
<1>2. UNCHANGED begun
  BY DEF MgrTimeout
<1>3. ASSUME NEW t \in Tid PROVE Logged("DECIDE_COMMIT", t)' => Logged("DECIDE_COMMIT", t)
  BY <1>1 DEF Logged
<1>4. OnlyFrees
  BY <1>1 DEF OnlyFrees, Cleaned, WithSlot, Free
<1>5. FinalInv'
  BY <1>2, <1>3, <1>4, FreeingKeepsInv
<1>6. ASSUME NEW t \in Tid, Told("DECIDE_ABORT", t)' PROVE ~Logged("DECIDE_COMMIT", t)'
  <2>1. t = table[k].tid
    BY <1>1, <1>6, BroadcastTold
  <2>2. QED
    BY <1>3, <2>1, NoTidAssumption DEF FinalInv, CommitRetired
<1>7. QED
  BY <1>5, <1>6 DEF CommitIsFinal

(* The restart loop tells members to abort only what the log does not commit.  *)
LEMMA RecoverStep ==
  ASSUME MgrTypeOK, FinalInv, MgrRecoverSlot
  PROVE  FinalInv' /\ CommitIsFinal'
<1> DEFINE tid == table[MaxTrans - resume + 1].tid
<1>1. UNCHANGED <<mlog, table, begun>>
  BY DEF MgrRecoverSlot
<1>2. sent' = IF Logged("DECIDE_COMMIT", tid) THEN Silence ELSE Broadcast(tid, "DECIDE_ABORT")
  BY DEF MgrRecoverSlot
<1>3. OnlyFrees
  BY <1>1 DEF OnlyFrees
<1>4. FinalInv'
  BY <1>1, <1>3, FreeingKeepsInv DEF Logged
<1> HIDE DEF tid
<1>5. ASSUME NEW t \in Tid, Told("DECIDE_ABORT", t)' PROVE ~Logged("DECIDE_COMMIT", t)'
  <2>1. ~Logged("DECIDE_COMMIT", tid) /\ sent' = Broadcast(tid, "DECIDE_ABORT")
    BY <1>2, <1>5, SilenceTold
  <2>2. t = tid
    BY <1>5, <2>1, BroadcastTold
  <2>3. QED
    BY <1>1, <2>1, <2>2 DEF Logged
<1>6. QED
  BY <1>4, <1>5 DEF CommitIsFinal

(* No step of the manager breaks the invariant or goes back on a commit, unless *)
(* it is killed on its way through a handler.                                  *)
LEMMA FinalStep ==
  ASSUME ~ReuseTids, TornKills => mgrUp', MgrTypeOK, FinalInv, CommitIsFinal, [MgrNext]_mgrVars
  PROVE  FinalInv' /\ CommitIsFinal'
<1>1. ASSUME NEW m \in ToManager, Allowed(m), MgrReceive(m)
      PROVE  FinalInv' /\ CommitIsFinal'
  <2>1. CASE MgrBegin(m)
    BY <1>1, <2>1, BeginStep
  <2>2. CASE MgrJoin(m)
    BY <2>2, JoinStep
  <2>3. CASE MgrCommit(m)
    BY <2>3, CommitStep
  <2>4. CASE MgrVoteCommit(m)
    BY <2>4, VoteCommitStep
  <2>5. CASE MgrVoteAbort(m)
    <3>1. PICK k \in 0..MaxTrans : FirstHolding(m.tid, k) /\ Decide(m, k, "DECIDE_ABORT")
      BY <2>5 DEF MgrVoteAbort
    <3>2. UNCHANGED <<resume, begun>>
      BY <2>5 DEF MgrVoteAbort
    <3>3. QED
      BY <3>1, <3>2, DecideStep
  <2>6. QED
    BY <1>1, <2>1, <2>2, <2>3, <2>4, <2>5 DEF MgrReceive
<1>2. CASE MgrTimeout
  BY <1>2, TimeoutStep
<1>3. CASE MgrRecoverSlot
  BY <1>3, RecoverStep
<1>4. CASE MgrKill \/ MgrRestart \/ MgrIdle
  <2>1. UNCHANGED <<mlog, table, begun>> /\ sent' = Silence
    BY <1>4 DEF MgrKill, MgrRestart, MgrIdle
  <2>2. OnlyFrees
    BY <2>1 DEF OnlyFrees
  <2>3. ASSUME NEW t \in Tid PROVE ~Told("DECIDE_ABORT", t)'
    BY <2>1, SilenceTold
  <2>4. QED
    BY <2>1, <2>2, <2>3, HarmlessStep
<1>5. CASE UNCHANGED mgrVars
  <2>1. UNCHANGED <<mlog, table, begun, sent>>
    BY <1>5 DEF mgrVars
  <2>2. OnlyFrees
    BY <2>1 DEF OnlyFrees
  <2>3. FinalInv'
    BY <2>1, <2>2, FreeingKeepsInv DEF Logged
  <2>4. CommitIsFinal'
    BY <2>1 DEF CommitIsFinal, Told, Logged
  <2>5. QED
    BY <2>3, <2>4
<1>6. QED
  BY <1>1, <1>2, <1>3, <1>4, <1>5 DEF MgrNext, MgrWhole, MgrTornVote, MgrTornTimeout

(* The invariant and the finality of commits hold together in every state.     *)
LEMMA FinalAlways ==
  ASSUME ~ReuseTids, ~TornKills
  PROVE  MgrSpec => [](FinalInv /\ CommitIsFinal)
<1>1. MgrInit => FinalInv /\ CommitIsFinal
  <2>1. ASSUME MgrInit PROVE FinalInv
    BY <2>1, NoTidAssumption
       DEF MgrInit, FinalInv, SlotsDistinct, CommitRetired, BegunFirst, Holding, Logged, Free
  <2>2. ASSUME MgrInit PROVE CommitIsFinal
    BY <2>2 DEF MgrInit, CommitIsFinal, Logged
  <2>3. QED
    BY <2>1, <2>2
<1>2. MgrTypeOK /\ FinalInv /\ CommitIsFinal /\ [MgrNext]_mgrVars
        => (FinalInv /\ CommitIsFinal)'
  BY FinalStep
<1>3. QED
  BY <1>1, <1>2, TypeCorrect, PTL DEF MgrSpec

(* When users begin a transaction once and no kill comes between logging a     *)
(* decision and cleaning its slot, the manager never tells a worker to abort   *)
(* what its log commits: not in answer to a poll, not for a late vote, not at  *)
(* a timeout, not when it restarts.                                            *)
THEOREM CommitFinality ==
  ASSUME ~ReuseTids, ~TornKills
  PROVE  MgrSpec => []CommitIsFinal
BY FinalAlways, PTL

(* Under the same two conditions what the log commits is out of the table,     *)
(* where the timeout would abort it.                                           *)
THEOREM CommittedLeavesTable ==
  ASSUME ~ReuseTids, ~TornKills
  PROVE  MgrSpec => []CommitRetired
<1>1. FinalInv => CommitRetired
  BY DEF FinalInv
<1>2. QED
  BY <1>1, FinalAlways, PTL

-------------------------------------------------------------------------------
\* The system: types

SystemTypeOK ==
  /\ MgrTypeOK
  /\ WorkerTypeOK
  /\ toM \in [Worker -> Seq(ToManager)]
  /\ toW \in [Worker -> Seq(ToWorker)]

(* Dead and freshly started processes are well formed, and so is every record    *)
(* and datagram a worker makes.                                                  *)
LEMMA BootedType == Booted \in Memory /\ Dead \in Memory
BY DEF Booted, Dead, Memory, Delay, AnyTid

(* A record of a worker's log that carries a transaction only.                   *)
LEMMA RecType ==
  ASSUME NEW kind \in RecordTag, NEW tid \in AnyTid
  PROVE  Rec(kind, tid) \in WorkerRecord
BY DEF Rec, WorkerRecord

(* A datagram of a worker.                                                       *)
LEMMA ToMgrType ==
  ASSUME NEW w \in Worker, NEW kind \in WorkerKind, NEW tid \in AnyTid, NEW crash \in BOOLEAN
  PROVE  ToMgr(w, kind, tid, crash) \in ToManager
BY DEF ToMgr, ToManager

(* sendMsg of a worker: at most one datagram leaves, and the process is dead or  *)
(* goes on.                                                                      *)
LEMMA SendThenType ==
  ASSUME WorkerTypeOK, NEW w \in Worker, NEW m \in ToManager, NEW next \in Memory,
         SendThen(w, m, next)
  PROVE  mem' \in [Worker -> Memory] /\ posted' \in Seq(ToManager) /\ Len(posted') <= 1
<1>1. mem' \in [Worker -> Memory]
  BY BootedType DEF SendThen, WorkerTypeOK
<1>2. posted' = <<>> \/ posted' = <<m>>
  BY DEF SendThen
<1>3. /\ <<>> \in Seq(ToManager) /\ Len(<<>>) <= 1
      /\ <<m>> \in Seq(ToManager) /\ Len(<<m>>) <= 1
  OBVIOUS
<1>4. QED
  BY <1>1, <1>2, <1>3

(* A step of a worker that sends nothing.                                        *)
LEMMA QuietType ==
  ASSUME WorkerTypeOK, NEW w \in Worker, NEW next \in Memory, Quiet(w, next)
  PROVE  mem' \in [Worker -> Memory] /\ posted' \in Seq(ToManager) /\ Len(posted') <= 1
BY DEF Quiet, WorkerTypeOK

(* Appending a record keeps the logs well formed.                                *)
LEMMA WriteType ==
  ASSUME WorkerTypeOK, NEW w \in Worker, NEW r \in WorkerRecord, Write(w, r)
  PROVE  wlog' \in [Worker -> Seq(WorkerRecord)]
<1>1. Append(wlog[w], r) \in Seq(WorkerRecord)
  BY DEF WorkerTypeOK
<1>2. QED
  BY <1>1 DEF Write, WorkerTypeOK

(* Rolling back yields data: every field found changed has a first change, and   *)
(* its record holds an old value.                                                *)
LEMMA RolledBackType ==
  ASSUME WorkerTypeOK, NEW w \in Worker, NEW tid
  PROVE  RolledBack(w, tid) \in Data
<1>1. ASSUME NEW f \in Field PROVE RolledBack(w, tid)[f] \in Value
  <2> DEFINE joins   == {i \in OwnSuffix(w, tid) : wlog[w][i].kind = "JOINTX"}
             changes == {i \in OwnSuffix(w, tid) : /\ wlog[w][i].kind = "NEW_VALUE"
                                              /\ wlog[w][i].field = f
                                              /\ \E j \in joins : j < i}
  <2>1. RolledBack(w, tid)[f] =
          IF changes = {}
          THEN obj[w][f]
          ELSE wlog[w][CHOOSE i \in changes : Earliest(i, changes)].old
    BY DEF RolledBack
  <2>2. obj[w][f] \in Value
    BY DEF WorkerTypeOK, Data
  <2>3. ASSUME NEW i \in changes PROVE wlog[w][i].old \in Value
    <3>1. i \in DOMAIN wlog[w] /\ wlog[w][i].kind = "NEW_VALUE"
      BY DEF OwnSuffix
    <3>2. wlog[w][i] \in WorkerRecord
      BY <3>1 DEF WorkerTypeOK
    <3>3. QED
      BY <3>1, <3>2 DEF WorkerRecord, RecordTag
  <2>4. ASSUME changes # {} PROVE (CHOOSE i \in changes : Earliest(i, changes)) \in changes
    <3>1. changes \subseteq Nat
      BY DEF OwnSuffix, WorkerTypeOK
    <3>2. \E i \in changes : Earliest(i, changes)
      <4> HIDE DEF changes
      <4>1. QED
        BY <2>4, <3>1, LeastNumber DEF Earliest
    <3>3. QED
      BY <3>2
  <2> HIDE DEF changes
  <2>5. QED
    BY <2>1, <2>2, <2>3, <2>4
<1>2. QED
  BY <1>1 DEF RolledBack, Data

(* The last record of a log is about some transaction, or none.                  *)
LEMMA LastRecordType ==
  ASSUME WorkerTypeOK, NEW w \in Worker
  PROVE  LastRecord(w).tid \in AnyTid
<1>1. CASE wlog[w] = <<>>
  BY <1>1 DEF LastRecord, AnyTid
<1>2. CASE wlog[w] # <<>>
  <2>1. wlog[w] \in Seq(WorkerRecord) /\ Len(wlog[w]) \in 1..Len(wlog[w])
    BY <1>2 DEF WorkerTypeOK
  <2>2. wlog[w][Len(wlog[w])] \in WorkerRecord
    BY <2>1
  <2>3. QED
    BY <1>2, <2>2 DEF LastRecord, WorkerRecord
<1>3. QED
  BY <1>1, <1>2

\* What a worker may post: its own datagrams; a BEGINTX the user just issued, a
\* vote only on a transaction that was begun.
Sendable(w, m) ==
  /\ m \in ToManager
  /\ m.from = w
  /\ m.kind = "BEGINTX" => m.tid \in Tid \ named /\ named' = named \cup {m.tid}
  /\ m.kind = "JOINTX" => m.tid \in Tid
  /\ m.kind \in {"VOTE_COMMIT", "VOTE_ABORT"} => m.tid \in begun

Posting(w) == posted' = <<>> \/ \E m \in ToManager : Sendable(w, m) /\ posted' = <<m>>

WorkerGood(w) == WorkerTypeOK' /\ named \subseteq named' /\ Posting(w)

(* sendMsg of a worker posts what it is given, or nothing.                       *)
LEMMA SendThenPosts ==
  ASSUME NEW w \in Worker, NEW m, NEW next, SendThen(w, m, next), Sendable(w, m)
  PROVE  Posting(w)
BY DEF SendThen, Posting, Sendable

(* A command uses up some of the user's budget.                                  *)
LEMMA AskType ==
  ASSUME WorkerTypeOK, NEW w \in Worker, NEW command \in Command, Ask(w, command)
  PROVE  left' \in [Worker -> [Command -> Nat]]
<1>1. left[w][command] - 1 \in Nat
  BY DEF Ask, WorkerTypeOK
<1>2. [left[w] EXCEPT ![command] = @ - 1] \in [Command -> Nat]
  BY <1>1 DEF WorkerTypeOK
<1>3. QED
  BY <1>2 DEF Ask, WorkerTypeOK

(* The commands BEGINTX and JOINTX.                                              *)
LEMMA BeginJoinGood ==
  ASSUME WorkerTypeOK, NEW w \in Worker, NEW t \in Tid,
         (t \notin named /\ CmdBegin(w, t)) \/ CmdJoin(w, t)
  PROVE  WorkerGood(w)
<1> DEFINE next == [mem[w] EXCEPT !.addr = TRUE]
<1>1. next \in Memory
  BY DEF WorkerTypeOK, Memory
<1>2. t \in AnyTid /\ {"BEGINTX", "JOINTX"} \subseteq Command \cap WorkerKind
  BY DEF AnyTid, Command, WorkerKind
<1>3. PICK kind \in {"BEGINTX", "JOINTX"} :
        /\ Ask(w, kind)
        /\ SendThen(w, ToMgr(w, kind, t, FALSE), next)
        /\ kind = "BEGINTX" => t \notin named /\ named' = named \cup {t}
        /\ kind = "JOINTX" => named' = named
  BY DEF CmdBegin, CmdJoin
<1>4. UNCHANGED <<wlog, obj, known, joinedAt>> /\ named \subseteq named' /\ named' \subseteq Tid
  BY <1>3 DEF CmdBegin, CmdJoin, WorkerTypeOK
<1>5. ToMgr(w, kind, t, FALSE) \in ToManager
  BY <1>2, ToMgrType
<1>6. Sendable(w, ToMgr(w, kind, t, FALSE))
  BY <1>3, <1>5 DEF Sendable, ToMgr
<1> HIDE DEF next
<1>7. mem' \in [Worker -> Memory] /\ posted' \in Seq(ToManager) /\ Len(posted') <= 1
  BY <1>1, <1>3, <1>5, SendThenType
<1>8. left' \in [Worker -> [Command -> Nat]]
  BY <1>2, <1>3, AskType
<1>9. WorkerTypeOK'
  BY <1>4, <1>7, <1>8 DEF WorkerTypeOK
<1>10. QED
  BY <1>3, <1>4, <1>6, <1>9, SendThenPosts DEF WorkerGood

(* The command that changes a field.                                             *)
LEMMA UpdateGood ==
  ASSUME WorkerTypeOK, NEW w \in Worker, NEW f \in Field, NEW v \in Value, CmdUpdate(w, f, v)
  PROVE  WorkerGood(w)
<1>1. mem[w] \in Memory
  BY DEF WorkerTypeOK
<1>2. mem' \in [Worker -> Memory] /\ posted' \in Seq(ToManager) /\ Len(posted') <= 1
  BY <1>1, QuietType DEF CmdUpdate
<1>3. left' \in [Worker -> [Command -> Nat]]
  BY AskType DEF CmdUpdate, Command
<1>4. obj' \in [Worker -> Data]
  <2>1. [obj[w] EXCEPT ![f] = v] \in Data
    BY DEF WorkerTypeOK, Data
  <2>2. QED
    BY <2>1 DEF CmdUpdate, WorkerTypeOK
<1>5. wlog' \in [Worker -> Seq(WorkerRecord)]
  <2>1. [kind |-> "NEW_VALUE", tid |-> mem[w].curTid, field |-> f, old |-> obj[w][f]]
          \in WorkerRecord
    BY <1>1 DEF WorkerTypeOK, Data, WorkerRecord, Memory
  <2>2. UNCHANGED wlog => wlog' \in [Worker -> Seq(WorkerRecord)]
    BY DEF WorkerTypeOK
  <2>3. QED
    BY <2>1, <2>2, WriteType DEF CmdUpdate
<1>6. WorkerTypeOK'
  BY <1>2, <1>3, <1>4, <1>5 DEF CmdUpdate, WorkerTypeOK
<1>7. QED
  BY <1>6 DEF CmdUpdate, Quiet, Posting, WorkerGood

(* The commands that only set what a later step does, or kill the worker.        *)
LEMMA SettingGood ==
  ASSUME WorkerTypeOK, NEW w \in Worker,
         (\E d \in Delay : CmdDelay(w, d)) \/ CmdCrash(w) \/ CmdVoteAbort(w)
  PROVE  WorkerGood(w)
<1>1. ASSUME NEW d \in Delay
      PROVE  [none |-> "DELAY", after |-> "CRASH_AFTER", before |-> "CRASH_BEFORE"][d] \in Command
  BY DEF Delay, Command
<1>2. left' \in [Worker -> [Command -> Nat]]
  <2>1. \E command \in Command : Ask(w, command)
    BY <1>1 DEF CmdDelay, CmdCrash, CmdVoteAbort, Command
  <2>2. QED
    BY <2>1, AskType
<1>3. \E next \in Memory : Quiet(w, next)
  <2>1. ASSUME NEW d \in Delay PROVE [mem[w] EXCEPT !.delay = d] \in Memory
    BY DEF WorkerTypeOK, Memory
  <2>2. [mem[w] EXCEPT !.voteAbort = TRUE] \in Memory
    BY DEF WorkerTypeOK, Memory
  <2>3. QED
    BY <2>1, <2>2, BootedType DEF CmdDelay, CmdCrash, CmdVoteAbort
<1>4. UNCHANGED <<wlog, obj, known, joinedAt, named>>
  BY DEF CmdDelay, CmdCrash, CmdVoteAbort
<1>5. mem' \in [Worker -> Memory] /\ posted' \in Seq(ToManager) /\ Len(posted') <= 1
  BY <1>3, QuietType
<1>6. WorkerTypeOK'
  BY <1>2, <1>4, <1>5 DEF WorkerTypeOK
<1>7. QED
  BY <1>3, <1>4, <1>6 DEF Quiet, Posting, WorkerGood

(* The command to commit.                                                        *)
LEMMA CmdCommitGood ==
  ASSUME WorkerTypeOK, NEW w \in Worker, NEW kind \in {"COMMIT", "COMMIT_CRASH"},
         CmdCommit(w, kind)
  PROVE  WorkerGood(w)
<1> DEFINE next == [mem[w] EXCEPT !.isCrash = (kind = "COMMIT_CRASH")]
           m == ToMgr(w, "COMMIT", mem[w].curTid, FALSE)
<1>1. mem[w] \in Memory /\ mem[w].curTid \in AnyTid
  BY DEF WorkerTypeOK, Memory
<1>2. (kind = "COMMIT_CRASH") \in BOOLEAN
  OBVIOUS
<1>3. next \in Memory
  BY <1>1, <1>2 DEF Memory
<1>4. m \in ToManager
  BY <1>1, ToMgrType DEF WorkerKind
<1>5. Sendable(w, m)
  BY <1>4 DEF Sendable, ToMgr
<1>6. SendThen(w, m, next) \/ Quiet(w, next) \/ Quiet(w, Dead)
  BY DEF CmdCommit
<1>7. Write(w, Rec(kind, mem[w].curTid)) /\ Ask(w, kind)
      /\ UNCHANGED <<obj, known, joinedAt, named>>
  BY DEF CmdCommit
<1> HIDE DEF next, m
<1>8. mem' \in [Worker -> Memory] /\ posted' \in Seq(ToManager) /\ Len(posted') <= 1
  BY <1>3, <1>4, <1>6, BootedType, SendThenType, QuietType
<1>9. Posting(w)
  BY <1>5, <1>6, SendThenPosts DEF Quiet, Posting
<1>10. left' \in [Worker -> [Command -> Nat]]
  BY <1>7, AskType DEF Command
<1>11. wlog' \in [Worker -> Seq(WorkerRecord)]
  BY <1>1, <1>7, RecType, WriteType DEF RecordTag
<1>12. WorkerTypeOK'
  BY <1>7, <1>8, <1>10, <1>11 DEF WorkerTypeOK
<1>13. QED
  BY <1>7, <1>9, <1>12 DEF WorkerGood

(* The command to abort.                                                         *)
LEMMA CmdAbortGood ==
  ASSUME WorkerTypeOK, NEW w \in Worker, NEW kind \in {"ABORT", "ABORT_CRASH"},
         CmdAbort(w, kind)
  PROVE  WorkerGood(w)
<1>1. mem[w] \in Memory /\ mem[w].curTid \in AnyTid
  BY DEF WorkerTypeOK, Memory
<1>2. (kind = "ABORT_CRASH") \in BOOLEAN
  OBVIOUS
<1>3. [mem[w] EXCEPT !.isCrash = (kind = "ABORT_CRASH")] \in Memory
  BY <1>1, <1>2 DEF Memory
<1>4. mem' \in [Worker -> Memory] /\ posted' \in Seq(ToManager) /\ Len(posted') <= 1
  BY <1>3, QuietType DEF CmdAbort
<1>5. left' \in [Worker -> [Command -> Nat]]
  BY AskType DEF CmdAbort, Command
<1>6. wlog' \in [Worker -> Seq(WorkerRecord)]
  BY <1>1, RecType, WriteType DEF CmdAbort, RecordTag
<1>7. obj' \in [Worker -> Data]
  BY RolledBackType DEF CmdAbort, WorkerTypeOK
<1>8. WorkerTypeOK'
  BY <1>4, <1>5, <1>6, <1>7 DEF CmdAbort, WorkerTypeOK
<1>9. QED
  BY <1>8 DEF CmdAbort, Quiet, Posting, WorkerGood

(* Every command.                                                                *)
LEMMA CommandGood ==
  ASSUME WorkerTypeOK, NEW w \in Worker, CmdAny(w)
  PROVE  WorkerGood(w)
BY BeginJoinGood, UpdateGood, SettingGood, CmdCommitGood, CmdAbortGood DEF CmdAny

(* The answers to a join: the first success keeps a copy of the data.            *)
LEMMA JoinReplyGood ==
  ASSUME WorkerTypeOK, NEW w \in Worker, NEW m \in ToWorker, RecvJoinReply(w, m)
  PROVE  WorkerGood(w)
<1>1. mem[w] \in Memory /\ m.tid \in AnyTid /\ obj[w] \in Data
  BY DEF WorkerTypeOK, ToWorker
<1>2. wlog' \in [Worker -> Seq(WorkerRecord)]
  BY <1>1, RecType, WriteType DEF RecvJoinReply, RecordTag
<1>3. \E next \in Memory : Quiet(w, next)
  <2>1. [mem[w] EXCEPT !.curTid = m.tid, !.txRun = TRUE] \in Memory
    BY <1>1 DEF Memory
  <2>2. QED
    BY <1>1, <2>1 DEF RecvJoinReply
<1>4. mem' \in [Worker -> Memory] /\ posted' \in Seq(ToManager) /\ Len(posted') <= 1
  BY <1>3, QuietType
<1>5. joinedAt' \in [Worker -> [Tid -> Seq(Data)]]
  <2>1. CASE joinedAt' = joinedAt
    BY <2>1 DEF WorkerTypeOK
  <2>2. CASE m.tid \in Tid /\ joinedAt' = [joinedAt EXCEPT ![w][m.tid] = <<obj[w]>>]
    <3>1. <<obj[w]>> \in Seq(Data)
      BY <1>1
    <3>2. [joinedAt[w] EXCEPT ![m.tid] = <<obj[w]>>] \in [Tid -> Seq(Data)]
      BY <3>1 DEF WorkerTypeOK
    <3>3. QED
      BY <2>2, <3>2 DEF WorkerTypeOK
  <2>3. QED
    BY <2>1, <2>2 DEF RecvJoinReply
<1>6. known' \in [Worker -> BOOLEAN]
  BY DEF RecvJoinReply, WorkerTypeOK
<1>7. WorkerTypeOK'
  BY <1>2, <1>4, <1>5, <1>6 DEF RecvJoinReply, WorkerTypeOK
<1>8. QED
  BY <1>3, <1>7 DEF RecvJoinReply, Quiet, Posting, WorkerGood

(* A request for the vote on a transaction that was begun: the vote is on it.    *)
LEMMA PrepareGood ==
  ASSUME WorkerTypeOK, NEW w \in Worker, NEW m \in ToWorker, m.tid \in begun,
         RecvPrepare(w, m)
  PROVE  WorkerGood(w)
<1> DEFINE against == LocallyAborted(w) \/ mem[w].voteAbort
           ballot  == IF against THEN "VOTE_ABORT" ELSE "VOTE_COMMIT"
           before  == Append(wlog[w], Rec("PREPARE_COMMIT", m.tid))
           vote    == ToMgr(w, ballot, m.tid, mem[w].isCrash)
           next    == [mem[w] EXCEPT !.pc = "wait", !.peer = TRUE,
                                     !.voteAbort = @ /\ ~against]
<1>1. mem[w] \in Memory /\ m.tid \in AnyTid /\ wlog[w] \in Seq(WorkerRecord)
  BY DEF WorkerTypeOK, ToWorker
<1>2. mem[w].isCrash \in BOOLEAN /\ (mem[w].voteAbort /\ ~against) \in BOOLEAN
  BY <1>1 DEF Memory
<1>3. next \in Memory
  BY <1>1, <1>2 DEF Memory
<1>4. ballot \in WorkerKind
  BY DEF WorkerKind
<1>5. vote \in ToManager
  BY <1>1, <1>2, <1>4, ToMgrType
<1>6. Sendable(w, vote)
  BY <1>5 DEF Sendable, ToMgr
<1>7. SendThen(w, vote, next)
  BY DEF RecvPrepare
<1>8. wlog' \in [Worker -> Seq(WorkerRecord)]
  <2>1. Rec("PREPARE_COMMIT", m.tid) \in WorkerRecord /\ Rec("VOTE_COMMIT", m.tid) \in WorkerRecord
    BY <1>1, RecType DEF RecordTag
  <2>2. before \in Seq(WorkerRecord) /\ Append(before, Rec("VOTE_COMMIT", m.tid)) \in Seq(WorkerRecord)
    BY <1>1, <2>1
  <2>3. wlog' = [wlog EXCEPT ![w] = IF Survives(w)
                                    THEN Append(before, Rec("VOTE_COMMIT", m.tid))
                                    ELSE before]
    BY DEF RecvPrepare
  <2> HIDE DEF before
  <2>4. QED
    BY <2>2, <2>3 DEF WorkerTypeOK
<1> HIDE DEF next, vote
<1>9. mem' \in [Worker -> Memory] /\ posted' \in Seq(ToManager) /\ Len(posted') <= 1
  BY <1>3, <1>5, <1>7, SendThenType
<1>10. UNCHANGED <<obj, known, joinedAt, named, left>>
  BY DEF RecvPrepare
<1>11. WorkerTypeOK'
  BY <1>8, <1>9, <1>10 DEF WorkerTypeOK
<1>12. QED
  BY <1>6, <1>7, <1>10, <1>11, SendThenPosts DEF WorkerGood

(* A decision, and every message that changes only where the worker waits.       *)
LEMMA DecisionGood ==
  ASSUME WorkerTypeOK, NEW w \in Worker, NEW m \in ToWorker,
         RecvDecision(w, m) \/ RecvOther(w, m)
  PROVE  WorkerGood(w)
<1>1. mem[w] \in Memory /\ m.tid \in AnyTid
  BY DEF WorkerTypeOK, ToWorker
<1>2. \E next \in Memory : Quiet(w, next)
  <2>1. [mem[w] EXCEPT !.pc = "loop", !.txRun = FALSE] \in Memory
        /\ [mem[w] EXCEPT !.pc = "loop"] \in Memory
    BY <1>1 DEF Memory
  <2>2. QED
    BY <2>1 DEF RecvDecision, RecvOther
<1>3. mem' \in [Worker -> Memory] /\ posted' \in Seq(ToManager) /\ Len(posted') <= 1
  BY <1>2, QuietType
<1>4. wlog' \in [Worker -> Seq(WorkerRecord)]
  <2>1. CASE RecvDecision(w, m)
    BY <1>1, <2>1, RecType, WriteType DEF RecvDecision, RecordTag
  <2>2. CASE RecvOther(w, m)
    BY <2>2 DEF RecvOther, WorkerTypeOK
  <2>3. QED
    BY <2>1, <2>2
<1>5. obj' \in [Worker -> Data]
  <2>1. RolledBack(w, mem[w].curTid) \in Data
    BY RolledBackType
  <2>2. QED
    BY <2>1 DEF RecvDecision, RecvOther, WorkerTypeOK
<1>6. UNCHANGED <<known, joinedAt, named, left>>
  BY DEF RecvDecision, RecvOther
<1>7. WorkerTypeOK'
  BY <1>3, <1>4, <1>5, <1>6 DEF WorkerTypeOK
<1>8. QED
  BY <1>2, <1>6, <1>7 DEF Quiet, Posting, WorkerGood

(* Every message of the manager.                                                 *)
LEMMA ReceiveGood ==
  ASSUME WorkerTypeOK, NEW w \in Worker, NEW m \in ToWorker,
         m.kind = "PREPARE_COMMIT" => m.tid \in begun, WorkerReceive(w, m)
  PROVE  WorkerGood(w)
<1>1. CASE RecvJoinReply(w, m)
  BY <1>1, JoinReplyGood
<1>2. CASE RecvPrepare(w, m)
  <2>1. m.tid \in begun
    BY <1>2 DEF RecvPrepare
  <2>2. QED
    BY <1>2, <2>1, PrepareGood
<1>3. CASE RecvDecision(w, m) \/ RecvOther(w, m)
  BY <1>3, DecisionGood
<1>4. QED
  BY <1>1, <1>2, <1>3 DEF WorkerReceive

(* The wait polls for the decision.                                              *)
LEMMA PollGood ==
  ASSUME WorkerTypeOK, NEW w \in Worker, Poll(w)
  PROVE  WorkerGood(w)
<1> DEFINE m == ToMgr(w, "POLL_DECISION", mem[w].curTid, mem[w].isCrash)
<1>1. mem[w] \in Memory /\ mem[w].curTid \in AnyTid /\ mem[w].isCrash \in BOOLEAN
  BY DEF WorkerTypeOK, Memory
<1>2. m \in ToManager
  BY <1>1, ToMgrType DEF WorkerKind
<1>3. Sendable(w, m)
  BY <1>2 DEF Sendable, ToMgr
<1>4. SendThen(w, m, mem[w]) \/ Quiet(w, mem[w])
  BY DEF Poll
<1> HIDE DEF m
<1>5. mem' \in [Worker -> Memory] /\ posted' \in Seq(ToManager) /\ Len(posted') <= 1
  BY <1>1, <1>2, <1>4, SendThenType, QuietType
<1>6. Posting(w)
  BY <1>3, <1>4, SendThenPosts DEF Quiet, Posting
<1>7. UNCHANGED <<wlog, obj, known, joinedAt, named, left>>
  BY DEF Poll
<1>8. WorkerTypeOK'
  BY <1>5, <1>7 DEF WorkerTypeOK
<1>9. QED
  BY <1>6, <1>7, <1>8 DEF WorkerGood

(* A worker starts again from its log.                                           *)
LEMMA WorkerRestartGood ==
  ASSUME WorkerTypeOK, NEW w \in Worker, WorkerRestart(w)
  PROVE  WorkerGood(w)
<1> DEFINE last == LastRecord(w)
           next == [Booted EXCEPT !.curTid = last.tid]
<1>1. last.tid \in AnyTid /\ known[w] \in BOOLEAN
  BY LastRecordType DEF WorkerTypeOK
<1>2. next \in Memory /\ [next EXCEPT !.pc = "wait", !.peer = known[w]] \in Memory
  BY <1>1, BootedType DEF Memory
<1>3. \/ Quiet(w, [next EXCEPT !.pc = "wait", !.peer = known[w]]) /\ UNCHANGED <<wlog, obj>>
      \/ /\ Quiet(w, next)
         /\ obj' = [obj EXCEPT ![w] = RolledBack(w, last.tid)]
         /\ Write(w, Rec("ABORT", last.tid))
  BY DEF WorkerRestart
<1>4. UNCHANGED <<known, joinedAt, named, left>>
  BY DEF WorkerRestart
<1> HIDE DEF last, next
<1>5. mem' \in [Worker -> Memory] /\ posted' \in Seq(ToManager) /\ Len(posted') <= 1
  BY <1>2, <1>3, QuietType
<1>6. wlog' \in [Worker -> Seq(WorkerRecord)]
  <2>1. UNCHANGED wlog => wlog' \in [Worker -> Seq(WorkerRecord)]
    BY DEF WorkerTypeOK
  <2>2. Rec("ABORT", last.tid) \in WorkerRecord
    BY <1>1, RecType DEF RecordTag
  <2>3. QED
    BY <1>3, <2>1, <2>2, WriteType
<1>7. obj' \in [Worker -> Data]
  <2>1. RolledBack(w, last.tid) \in Data
    BY RolledBackType
  <2>2. QED
    BY <1>3, <2>1 DEF WorkerTypeOK
<1>8. WorkerTypeOK'
  BY <1>4, <1>5, <1>6, <1>7 DEF WorkerTypeOK
<1>9. QED
  BY <1>3, <1>4, <1>8 DEF Quiet, Posting, WorkerGood

-------------------------------------------------------------------------------
\* What is in the buffers

Begins(q) == {i \in DOMAIN q : q[i].kind = "BEGINTX"}

\* A BEGINTX on its way is the only one for its transaction, now or before.
BeginsOnce ==
  \A u, w \in Worker : \A i \in Begins(toM[u]), j \in Begins(toM[w]) :
    toM[u][i].tid = toM[w][j].tid => u = w /\ i = j

BeginsFresh ==
  /\ begun \subseteq named
  /\ \A w \in Worker : \A m \in Range(toM[w]) : m.kind = "BEGINTX" => m.tid \in named \ begun

\* A slot with members is that of a transaction that was begun.
SlotsBegun ==
  \A k \in Slot : IF table[k].tid = NoTid
                  THEN DOMAIN table[k].members = {}
                  ELSE table[k].tid \in begun

\* So a vote is asked for, and given, only on a transaction that was begun.
VotesBegun ==
  /\ \A w \in Worker : \A m \in Range(toW[w]) : m.kind = "PREPARE_COMMIT" => m.tid \in begun
  /\ \A w \in Worker : \A m \in Range(toM[w]) :
       /\ m.kind \in {"VOTE_COMMIT", "VOTE_ABORT"} => m.tid \in begun
       /\ m.kind = "JOINTX" => m.tid \in Tid

BufferInv == BeginsOnce /\ BeginsFresh /\ SlotsBegun /\ VotesBegun

-------------------------------------------------------------------------------
\* Steps of the manager

Preparing ==
  \A w \in Worker : \A m \in Range(sent'[w]) : m.kind = "PREPARE_COMMIT" => m.tid \in begun

(* A broadcast reaches the members of a slot, so it is about a transaction that  *)
(* was begun.                                                                    *)
LEMMA BroadcastBegun ==
  ASSUME SlotsBegun, NEW tid, NEW kind, NEW w \in Worker, NEW m \in Range(Broadcast(tid, kind)[w])
  PROVE  m = [kind |-> kind, tid |-> tid] /\ tid \in begun
<1>1. PICK i \in DOMAIN Broadcast(tid, kind)[w] : m = Broadcast(tid, kind)[w][i]
  BY DEF Range
<1>2. m = [kind |-> kind, tid |-> tid]
  BY <1>1, BroadcastReach
<1>3. Entries(tid, w) # {}
  <2>1. SUFFICES ASSUME Entries(tid, w) = {} PROVE FALSE
    OBVIOUS
  <2>2. DOMAIN Broadcast(tid, kind)[w] = 1..0
    BY <2>1, FS_EmptySet DEF Broadcast
  <2>3. QED
    BY <1>1, <2>2
<1>4. PICK e \in Slot \X (1..MaxNodes) :
        table[e[1]].tid = tid /\ e[2] \in DOMAIN table[e[1]].members
  BY <1>3 DEF Entries
<1>5. e[1] \in Slot
  BY <1>4
<1>6. tid \in begun
  BY <1>4, <1>5 DEF SlotsBegun
<1>7. QED
  BY <1>2, <1>6

(* What is sent when nothing but answers and decisions is.                       *)
LEMMA NotPreparing ==
  ASSUME \/ sent' = Silence
         \/ \E m \in ToManager, kind \in ManagerKind \ {"PREPARE_COMMIT"} : sent' = Reply(m, kind)
         \/ \E tid \in AnyTid, kind \in ManagerKind \ {"PREPARE_COMMIT"} : sent' = Broadcast(tid, kind)
         \/ \E tid \in AnyTid, kind \in ManagerKind \ {"PREPARE_COMMIT"}, last \in 0..MaxNodes :
              sent' = BroadcastUpTo(tid, kind, last)
  PROVE  Preparing
<1>1. CASE sent' = Silence
  BY <1>1 DEF Preparing, Silence, Range
<1>2. ASSUME NEW m \in ToManager, NEW kind \in ManagerKind \ {"PREPARE_COMMIT"}, sent' = Reply(m, kind)
      PROVE  Preparing
  BY <1>2 DEF Preparing, Reply, Range
<1>3. ASSUME NEW tid \in AnyTid, NEW kind \in ManagerKind \ {"PREPARE_COMMIT"}, NEW w \in Worker,
             NEW m \in Range(Broadcast(tid, kind)[w])
      PROVE  m.kind # "PREPARE_COMMIT"
  <2>1. PICK i \in DOMAIN Broadcast(tid, kind)[w] : m = Broadcast(tid, kind)[w][i]
    BY DEF Range
  <2>2. m = [kind |-> kind, tid |-> tid]
    BY <2>1, BroadcastReach
  <2>3. QED
    BY <2>2
<1>4. ASSUME NEW tid \in AnyTid, NEW kind \in ManagerKind \ {"PREPARE_COMMIT"},
             sent' = Broadcast(tid, kind)
      PROVE  Preparing
  BY <1>3, <1>4 DEF Preparing
<1>5. ASSUME NEW tid \in AnyTid, NEW kind \in ManagerKind \ {"PREPARE_COMMIT"},
             NEW last \in 0..MaxNodes, sent' = BroadcastUpTo(tid, kind, last)
      PROVE  Preparing
  <2>1. ASSUME NEW w \in Worker PROVE sent'[w] = Broadcast(tid, kind)[w] \/ sent'[w] = <<>>
    BY <1>5 DEF BroadcastUpTo
  <2>2. QED
    BY <1>3, <2>1, RangeEmpty DEF Preparing
<1>6. QED
  BY <1>1, <1>2, <1>4, <1>5

(* Counting a vote leaves a slot as many members as it had.                      *)
LEMMA CountedMembers ==
  ASSUME MgrTypeOK, NEW k, NEW m, NEW j \in Slot
  PROVE  DOMAIN Counted(k, m)[j].members = DOMAIN table[j].members
<1>1. CASE k = 0 \/ j # k
  BY <1>1 DEF Counted, WithSlot
<1>2. CASE k # 0 /\ j = k
  <2>1. Counted(k, m)[j] = VotedSlot(k, m)
    BY <1>2 DEF Counted, WithSlot
  <2>2. VotedSlot(k, m).members = Voted(table[k].members, m.from)
    BY <1>2 DEF VotedSlot, MgrTypeOK
  <2>3. DOMAIN Voted(table[k].members, m.from) = DOMAIN table[k].members
    BY DEF Voted
  <2>4. QED
    BY <1>2, <2>1, <2>2, <2>3
<1>3. QED
  BY <1>1, <1>2

(* Slots keep their transaction and stay empty or not, or are freed.             *)
LEMMA SlotsKept ==
  ASSUME SlotsBegun, begun \subseteq begun', NoTid \notin begun,
         \A j \in Slot : \/ /\ table'[j].tid = table[j].tid
                            /\ \/ DOMAIN table'[j].members = DOMAIN table[j].members
                               \/ table[j].tid # NoTid
                         \/ table'[j] = Free
                         \/ table'[j].tid \in begun'  /\ table'[j].tid # NoTid
  PROVE  SlotsBegun'
BY DEF SlotsBegun, Free

\* What the manager's environment does when it delivers m.
Delivered(m) ==
  /\ m \in ToManager
  /\ m.kind \in {"BEGINTX", "JOINTX"} => m.tid \in Tid
  /\ Allowed(m)

\* What a step of the manager does to the invariants: only a BEGINTX adds to begun.
ManagerGood == SlotsBegun' /\ Preparing

(* A BEGINTX gives a slot to the transaction it begins.                          *)
LEMMA BeginGood ==
  ASSUME MgrTypeOK, SlotsBegun, NoTid \notin begun, NEW m, Delivered(m), MgrBegin(m)
  PROVE  ManagerGood
<1>1. m.tid \in Tid /\ m.tid # NoTid /\ begun' = begun \cup {m.tid} /\ m \in ToManager
  BY NoTidAssumption DEF Delivered, MgrBegin
<1>2. Preparing
  <2>1. sent' = Reply(m, "BEGIN_FAIL") \/ sent' = Reply(m, "BEGIN_SUCCESS")
    BY DEF MgrBegin
  <2>2. QED
    BY <1>1, <2>1, NotPreparing DEF ManagerKind
<1>3. CASE UNCHANGED table
  BY <1>1, <1>2, <1>3, SlotsKept DEF ManagerGood
<1>4. CASE \E k \in Slot : table' = [table EXCEPT ![k].tid = m.tid]
  <2>1. ASSUME NEW j \in Slot
        PROVE  table'[j] = table[j] \/ (table'[j].tid \in begun' /\ table'[j].tid # NoTid)
    BY <1>1, <1>4 DEF MgrTypeOK
  <2>2. QED
    BY <1>1, <1>2, <2>1, SlotsKept DEF ManagerGood
<1>5. QED
  BY <1>3, <1>4 DEF MgrBegin

(* A JOINTX enrols its sender in a slot that is taken, the uninitialised index   *)
(* included: it is used only when no slot is free.                               *)
LEMMA JoinGood ==
  ASSUME MgrTypeOK, SlotsBegun, NoTid \notin begun, NEW m, Delivered(m), MgrJoin(m)
  PROVE  ManagerGood
<1>1. m.tid # NoTid /\ m \in ToManager /\ m.from \in Worker /\ begun' = begun
  BY NoTidAssumption DEF Delivered, MgrJoin, ToManager
<1>2. Preparing
  <2>1. sent' = Reply(m, "JOIN_SUCCESS") \/ sent' = Reply(m, "JOIN_FAIL") \/ sent' = Silence
    BY DEF MgrJoin
  <2>2. QED
    BY <1>1, <2>1, NotPreparing DEF ManagerKind
<1>3. CASE UNCHANGED table
  BY <1>1, <1>2, <1>3, SlotsKept DEF ManagerGood
<1>4. ASSUME NEW k \in Slot, table[k].tid # NoTid, table' = Enrolled(k, m.from)
      PROVE  ManagerGood
  <2>1. ASSUME NEW j \in Slot
        PROVE  table'[j].tid = table[j].tid /\ (j = k \/ table'[j] = table[j])
    <3>1. table'[j].tid = table[j].tid
      BY <1>1, <1>4, EnrolledType
    <3>2. j = k \/ table'[j] = table[j]
      BY <1>4 DEF Enrolled, MgrTypeOK
    <3>3. QED
      BY <3>1, <3>2
  <2>2. QED
    BY <1>1, <1>2, <1>4, <2>1, SlotsKept DEF ManagerGood
<1>5. \/ UNCHANGED table
      \/ \E k \in Slot : table[k].tid # NoTid /\ table' = Enrolled(k, m.from)
  BY <1>1 DEF MgrJoin, FirstMet, IsFirst, Holding
<1>6. QED
  BY <1>3, <1>4, <1>5

(* A request to commit is forwarded to the members of a begun transaction.       *)
LEMMA ForwardGood ==
  ASSUME MgrTypeOK, SlotsBegun, NoTid \notin begun, NEW m \in ToManager, MgrCommit(m)
  PROVE  ManagerGood
<1>1. sent' = Broadcast(m.tid, "PREPARE_COMMIT") /\ UNCHANGED <<table, begun>>
  BY DEF MgrCommit
<1>2. Preparing
  BY <1>1, BroadcastBegun DEF Preparing
<1>3. SlotsBegun'
  BY <1>1 DEF SlotsBegun
<1>4. QED
  BY <1>2, <1>3 DEF ManagerGood

(* Polls and votes are counted, and answered or decided.                         *)
LEMMA VoteGood ==
  ASSUME MgrTypeOK, SlotsBegun, NoTid \notin begun, NEW m \in ToManager,
         MgrVoteCommit(m) \/ MgrVoteAbort(m)
  PROVE  ManagerGood
<1>1. UNCHANGED begun /\ m.tid \in AnyTid
  BY DEF MgrVoteCommit, MgrVoteAbort, ToManager
<1>2. ASSUME NEW k \in 0..MaxTrans, table' = Counted(k, m)
      PROVE  SlotsBegun'
  <2>1. ASSUME NEW j \in Slot
        PROVE  /\ table'[j].tid = table[j].tid
               /\ DOMAIN table'[j].members = DOMAIN table[j].members
    BY <1>2, CountedType, CountedMembers
  <2>2. QED
    BY <1>1, <2>1, SlotsKept
<1>3. ASSUME NEW k \in 0..MaxTrans, table' = Cleaned(k)
      PROVE  SlotsBegun'
  <2>1. ASSUME NEW j \in Slot PROVE table'[j] = table[j] \/ table'[j] = Free
    BY <1>3 DEF Cleaned, WithSlot
  <2>2. QED
    BY <1>1, <2>1, SlotsKept
<1>4. ASSUME NEW k \in 0..MaxTrans, NEW decision \in {"DECIDE_COMMIT", "DECIDE_ABORT"},
             Decide(m, k, decision)
      PROVE  ManagerGood
  <2>1. sent' = Silence \/ sent' = Broadcast(m.tid, decision)
    BY <1>4 DEF Decide
  <2>2. Preparing
    BY <1>1, <2>1, NotPreparing DEF ManagerKind
  <2>3. QED
    BY <1>3, <1>4, <2>2 DEF Decide, ManagerGood
<1>5. ASSUME NEW k \in 0..MaxTrans, StillWaiting(m, k) \/ AnswerAbort(m, k) \/ AnswerCommit(m, k)
      PROVE  ManagerGood
  <2>1. sent' = Silence \/ sent' = Reply(m, "DECIDE_ABORT") \/ sent' = Reply(m, "DECIDE_COMMIT")
    BY <1>5 DEF StillWaiting, AnswerAbort, AnswerCommit
  <2>2. Preparing
    BY <2>1, NotPreparing DEF ManagerKind
  <2>3. QED
    BY <1>2, <1>5, <2>2 DEF StillWaiting, AnswerAbort, AnswerCommit, ManagerGood
<1>6. QED
  BY <1>4, <1>5 DEF MgrVoteCommit, MgrVoteAbort, DecideCommit

(* A sequence without places is empty.                                           *)
LEMMA NoDomain ==
  ASSUME NEW S, NEW s \in Seq(S)
  PROVE  DOMAIN s = {} <=> Len(s) = 0
OBVIOUS

(* A manager killed on its way through a vote, a poll or a timeout.              *)
LEMMA TornGood ==
  ASSUME MgrTypeOK, SlotsBegun, NoTid \notin begun,
         MgrTornTimeout \/ \E m \in ToManager : MgrTornVote(m)
  PROVE  ManagerGood /\ begun' = begun
<1>1. begun' = begun
  BY DEF MgrTornVote, MgrTornTimeout
<1>2. TornTable /\ TornSaid
  BY TornEffect
<1>3. Preparing
  BY <1>2, NotPreparing DEF TornSaid, ManagerKind
<1>4. ASSUME NEW j \in Slot
      PROVE  /\ table'[j].tid = table[j].tid
             /\ table[j].tid # NoTid \/ DOMAIN table'[j].members = DOMAIN table[j].members
  <2>1. PICK c \in 0..Len(table[j].members) :
          table'[j].tid = table[j].tid /\ Len(table'[j].members) = Len(table[j].members) - c
    BY <1>2 DEF TornTable
  <2>2. table[j].members \in Seq(Member) /\ table'[j].members \in Seq(Member)
    BY <1>2 DEF TornTable, MgrTypeOK, Slots
  <2>3. ASSUME table[j].tid = NoTid PROVE DOMAIN table'[j].members = DOMAIN table[j].members
    <3>1. DOMAIN table[j].members = {}
      BY <2>3 DEF SlotsBegun
    <3>2. Len(table[j].members) = 0
      BY <2>2, <3>1, NoDomain
    <3>3. c \in 0..0 /\ Len(table'[j].members) = 0 - c
      BY <2>1, <3>2
    <3>4. c = 0
      BY <3>3
    <3>5. Len(table'[j].members) = 0
      BY <3>3, <3>4
    <3>6. DOMAIN table'[j].members = {}
      BY <2>2, <3>5, NoDomain
    <3>7. QED
      BY <3>1, <3>6
  <2>4. QED
    BY <2>1, <2>3
<1>5. SlotsBegun'
  BY <1>1, <1>4, SlotsKept
<1>6. QED
  BY <1>1, <1>3, <1>5 DEF ManagerGood

(* The delivery of any message.                                                  *)
LEMMA DeliveryGood ==
  ASSUME MgrTypeOK, SlotsBegun, NoTid \notin begun, NEW m, Delivered(m),
         MgrReceive(m) \/ MgrTornVote(m)
  PROVE  /\ ManagerGood
         /\ begun' = begun \/ (m.kind = "BEGINTX" /\ begun' = begun \cup {m.tid})
<1>1. m \in ToManager
  BY DEF Delivered
<1>2. ManagerGood
  BY <1>1, BeginGood, JoinGood, ForwardGood, VoteGood, TornGood DEF MgrReceive
<1>3. begun' = begun \/ (m.kind = "BEGINTX" /\ begun' = begun \cup {m.tid})
  BY DEF MgrReceive, MgrTornVote, MgrBegin, MgrJoin, MgrCommit, MgrVoteCommit, MgrVoteAbort
<1>4. QED
  BY <1>2, <1>3

(* Timeouts, kills and restarts begin nothing and ask for no vote.               *)
LEMMA OwnStepGood ==
  ASSUME MgrTypeOK, SlotsBegun, NoTid \notin begun,
         MgrTimeout \/ MgrKill \/ MgrRestart \/ MgrRecoverSlot
  PROVE  ManagerGood /\ begun' = begun
<1>1. begun' = begun
  BY DEF MgrTimeout, MgrKill, MgrRestart, MgrRecoverSlot
<1>2. \A j \in Slot : table'[j] = table[j] \/ table'[j] = Free
  BY DEF MgrTimeout, MgrKill, MgrRestart, MgrRecoverSlot, Cleaned, WithSlot
<1>3. SlotsBegun'
  BY <1>1, <1>2, SlotsKept
<1>4. \/ sent' = Silence
      \/ \E k \in Slot : sent' = Broadcast(table[k].tid, "DECIDE_ABORT")
  <2>1. MgrRecoverSlot => MaxTrans - resume + 1 \in Slot
    BY SizesAssumption DEF MgrRecoverSlot, MgrTypeOK, Slot
  <2>2. QED
    BY <2>1 DEF MgrTimeout, MgrKill, MgrRestart, MgrRecoverSlot
<1>5. \A k \in Slot : table[k].tid \in AnyTid
  BY DEF MgrTypeOK
<1>6. Preparing
  BY <1>4, <1>5, NotPreparing DEF ManagerKind
<1>7. QED
  BY <1>1, <1>3, <1>6 DEF ManagerGood

-------------------------------------------------------------------------------
\* What steps do to the buffers

\* The datagrams left in q were in old, up to shift places further back.
Suffix(q, old, shift) ==
  \A i \in DOMAIN q : i + shift \in DOMAIN old /\ q[i] = old[i + shift]

(* What is left of a queue that was kept, read or lost.                          *)
LEMMA SuffixKept ==
  ASSUME NEW old \in Seq(ToManager), NEW q
  PROVE  /\ q = <<>> => Suffix(q, old, 0) /\ Suffix(q, old, 1)
         /\ q = old => Suffix(q, old, 0)
         /\ q = Tail(old) /\ old # <<>> => Suffix(q, old, 1)
<1>1. q = <<>> => Suffix(q, old, 0) /\ Suffix(q, old, 1)
  BY DEF Suffix
<1>2. q = old => Suffix(q, old, 0)
  BY DEF Suffix
<1>3. ASSUME q = Tail(old), old # <<>> PROVE Suffix(q, old, 1)
  <2>1. \A i \in 1..Len(Tail(old)) : i + 1 \in 1..Len(old) /\ Tail(old)[i] = old[i + 1]
    BY <1>3
  <2>2. DOMAIN Tail(old) = 1..Len(Tail(old))
    BY <1>3
  <2>3. QED
    BY <1>3, <2>1, <2>2 DEF Suffix
<1>4. QED
  BY <1>1, <1>2, <1>3

\* Every buffer to the manager was kept or emptied, except that of reader, from
\* which one datagram was taken.
Drained(shift) == \A w \in Worker : Suffix(toM'[w], toM[w], shift[w])

Untouched == [w \in Worker |-> 0]

ReadFrom(reader) == [w \in Worker |-> IF w = reader THEN 1 ELSE 0]

OneRead(reader) ==
  \A w \in Worker :
    \/ toM'[w] = <<>>
    \/ (w # reader /\ toM'[w] = toM[w])
    \/ (w = reader /\ toM'[w] = Tail(toM[w]))

(* Reading one datagram of one buffer.                                           *)
LEMMA ReadDrains ==
  ASSUME SystemTypeOK, NEW r \in Worker, toM[r] # <<>>, OneRead(r)
  PROVE  Drained(ReadFrom(r)) /\ ReadFrom(r) \in [Worker -> Nat]
<1>1. ASSUME NEW w \in Worker PROVE Suffix(toM'[w], toM[w], ReadFrom(r)[w])
  <2>1. ReadFrom(r)[w] = IF w = r THEN 1 ELSE 0
    BY DEF ReadFrom
  <2>2. QED
    BY <2>1, SuffixKept DEF OneRead, SystemTypeOK
<1>2. QED
  BY <1>1 DEF Drained, ReadFrom

\* What is on its way to the workers asks for votes only on begun transactions.
AskedBegun == \A w \in Worker : \A m \in Range(toW[w]) : m.kind = "PREPARE_COMMIT" => m.tid \in begun

(* Datagrams that are left are as distinct as they were.                         *)
LEMMA DrainedOnce ==
  ASSUME SystemTypeOK, BeginsOnce, NEW shift \in [Worker -> Nat], Drained(shift),
         toM' \in [Worker -> Seq(ToManager)]
  PROVE  BeginsOnce'
<1>1. SUFFICES ASSUME NEW u \in Worker, NEW w \in Worker, NEW i \in Begins(toM'[u]),
                      NEW j \in Begins(toM'[w]), toM'[u][i].tid = toM'[w][j].tid
               PROVE  u = w /\ i = j
  BY DEF BeginsOnce, Begins
<1>2. /\ i + shift[u] \in Begins(toM[u]) /\ toM'[u][i] = toM[u][i + shift[u]]
      /\ j + shift[w] \in Begins(toM[w]) /\ toM'[w][j] = toM[w][j + shift[w]]
  BY DEF Drained, Suffix, Begins
<1>3. u = w /\ i + shift[u] = j + shift[w]
  BY <1>1, <1>2 DEF BeginsOnce
<1>4. i \in Nat /\ j \in Nat /\ shift[u] \in Nat
  BY DEF Begins
<1>5. QED
  BY <1>3, <1>4

(* They are no news to the rest of the invariant while no transaction is begun.  *)
LEMMA DrainedGood ==
  ASSUME SystemTypeOK, BufferInv, NEW shift \in [Worker -> Nat], Drained(shift),
         toM' \in [Worker -> Seq(ToManager)],
         begun' = begun, named' = named, SlotsBegun', AskedBegun'
  PROVE  BufferInv'
<1>1. ASSUME NEW w \in Worker PROVE Range(toM'[w]) \subseteq Range(toM[w])
  BY DEF Drained, Suffix, Range
<1>2. BeginsOnce'
  BY DrainedOnce DEF BufferInv
<1>3. BeginsFresh'
  BY <1>1 DEF BufferInv, BeginsFresh
<1>4. VotesBegun'
  BY <1>1 DEF BufferInv, VotesBegun, AskedBegun
<1>5. QED
  BY <1>2, <1>3, <1>4 DEF BufferInv

(* Once a BEGINTX was read there is none left for its transaction.               *)
LEMMA BegunGood ==
  ASSUME SystemTypeOK, BufferInv, NEW r \in Worker, toM[r] # <<>>, Drained(ReadFrom(r)),
         toM' \in [Worker -> Seq(ToManager)],
         Head(toM[r]).kind = "BEGINTX", begun' = begun \cup {Head(toM[r]).tid},
         named' = named, SlotsBegun', AskedBegun'
  PROVE  BufferInv'
<1> DEFINE m == Head(toM[r])
<1>1. ASSUME NEW w \in Worker PROVE Range(toM'[w]) \subseteq Range(toM[w])
  BY DEF Drained, Suffix, Range
<1>2. ReadFrom(r) \in [Worker -> Nat]
  BY DEF ReadFrom
<1>3. BeginsOnce'
  BY <1>2, DrainedOnce DEF BufferInv
<1>4. toM[r] \in Seq(ToManager) /\ 1 \in DOMAIN toM[r] /\ m = toM[r][1] /\ m \in Range(toM[r])
  BY RangeRead DEF SystemTypeOK
<1>5. ASSUME NEW w \in Worker, NEW i \in DOMAIN toM'[w], toM'[w][i].kind = "BEGINTX"
      PROVE  toM'[w][i].tid # m.tid
  <2>1. i + ReadFrom(r)[w] \in Begins(toM[w]) /\ toM'[w][i] = toM[w][i + ReadFrom(r)[w]]
    BY <1>5 DEF Drained, Suffix, Begins
  <2>2. 1 \in Begins(toM[r])
    BY <1>4 DEF Begins
  <2>3. ~(w = r /\ i + ReadFrom(r)[w] = 1)
    BY DEF ReadFrom
  <2>4. QED
    BY <1>4, <2>1, <2>2, <2>3 DEF BufferInv, BeginsOnce
<1>6. BeginsFresh'
  <2>1. m.tid \in named
    BY <1>4 DEF BufferInv, BeginsFresh
  <2>2. begun' \subseteq named'
    BY <2>1 DEF BufferInv, BeginsFresh
  <2>3. ASSUME NEW w \in Worker, NEW e \in Range(toM'[w]), e.kind = "BEGINTX"
        PROVE  e.tid \in named' \ begun'
    <3>1. e.tid \in named \ begun
      BY <1>1, <2>3 DEF BufferInv, BeginsFresh
    <3>2. e.tid # m.tid
      BY <1>5, <2>3 DEF Range
    <3>3. QED
      BY <3>1, <3>2
  <2>4. QED
    BY <2>2, <2>3 DEF BeginsFresh
<1>7. VotesBegun'
  BY <1>1 DEF BufferInv, VotesBegun, AskedBegun
<1>8. QED
  BY <1>3, <1>6, <1>7 DEF BufferInv

(* What a worker posts joins its buffer, and keeps the invariant.                *)
LEMMA PostedGood ==
  ASSUME SystemTypeOK, BufferInv, NEW w \in Worker, WorkerGood(w), RouteToManager(toM),
         UNCHANGED <<table, begun>>, AskedBegun'
  PROVE  BufferInv' /\ toM' \in [Worker -> Seq(ToManager)]
<1>1. named \subseteq named' /\ named' \subseteq Tid
  BY DEF WorkerGood, WorkerTypeOK
<1>2. SlotsBegun'
  BY DEF BufferInv, SlotsBegun
<1>3. CASE posted' = <<>>
  <2>1. \A u \in Worker : toM'[u] = <<>> \/ toM'[u] = toM[u]
    <3>1. \A u \in Worker : PostedBy(u)' = <<>>
      BY <1>3 DEF PostedBy
    <3>2. QED
      BY <3>1 DEF RouteToManager, SystemTypeOK
  <2>2. toM' \in [Worker -> Seq(ToManager)]
    <3>1. <<>> \in Seq(ToManager) /\ \A u \in Worker : toM[u] \in Seq(ToManager)
      BY DEF SystemTypeOK
    <3>2. \A u \in Worker : toM'[u] \in Seq(ToManager)
      BY <2>1, <3>1
    <3>3. QED
      BY <3>2 DEF RouteToManager
  <2>3. Drained(Untouched) /\ Untouched \in [Worker -> Nat]
    BY <2>1, SuffixKept DEF Drained, Untouched, SystemTypeOK
  <2>4. BeginsOnce'
    BY <2>2, <2>3, DrainedOnce DEF BufferInv
  <2>5. \A u \in Worker : Range(toM'[u]) \subseteq Range(toM[u])
    BY <2>1, RangeEmpty
  <2>6. BeginsFresh'
    BY <1>1, <2>5 DEF BufferInv, BeginsFresh
  <2>7. VotesBegun'
    BY <2>5 DEF BufferInv, VotesBegun, AskedBegun
  <2>8. QED
    BY <1>2, <2>2, <2>4, <2>6, <2>7 DEF BufferInv
<1>4. ASSUME NEW m \in ToManager, Sendable(w, m), posted' = <<m>>
      PROVE  BufferInv' /\ toM' \in [Worker -> Seq(ToManager)]
  <2>1. ASSUME NEW u \in Worker
        PROVE  \/ toM'[u] = <<>>
               \/ toM'[u] = toM[u] /\ u # w
               \/ toM'[u] = toM[u] \o <<m>> /\ u = w
    <3>1. PostedBy(u)' = IF u = w THEN <<m>> ELSE <<>>
      <4>1. posted'[1] = m /\ DOMAIN posted' = {1} /\ m.from = w
        BY <1>4 DEF Sendable
      <4>2. QED
        BY <1>4, <4>1 DEF PostedBy
    <3>2. toM[u] \o <<>> = toM[u]
      BY DEF SystemTypeOK
    <3>3. QED
      BY <3>1, <3>2 DEF RouteToManager
  <2>2. ASSUME NEW u \in Worker
        PROVE  /\ toM'[u] \in Seq(ToManager)
               /\ Range(toM'[u]) \subseteq Range(toM[u]) \cup {m}
               /\ u # w => Range(toM'[u]) \subseteq Range(toM[u])
    <3>1. <<m>> \in Seq(ToManager) /\ <<>> \in Seq(ToManager) /\ toM[u] \in Seq(ToManager)
      BY DEF SystemTypeOK
    <3>2. toM[u] \o <<m>> \in Seq(ToManager)
      BY <3>1
    <3>3. Range(toM[u] \o <<m>>) = Range(toM[u]) \cup {m}
      <4>1. Range(toM[u] \o <<m>>) = Range(toM[u]) \cup Range(<<m>>)
        BY <3>1, RangeAppended
      <4>2. Range(<<m>>) = {m}
        BY RangeSingle
      <4>3. QED
        BY <4>1, <4>2
    <3>4. QED
      BY <2>1, <3>1, <3>2, <3>3, RangeEmpty
  <2>3. toM' \in [Worker -> Seq(ToManager)]
    BY <2>2 DEF RouteToManager
  <2>4. BeginsFresh'
    <3>1. begun' \subseteq named'
      BY <1>1 DEF BufferInv, BeginsFresh
    <3>2. m.kind = "BEGINTX" => m.tid \in named' \ begun
      BY <1>4 DEF Sendable, BufferInv, BeginsFresh
    <3>3. QED
      BY <1>1, <2>2, <3>1, <3>2 DEF BufferInv, BeginsFresh
  <2>5. VotesBegun'
    BY <1>4, <2>2 DEF Sendable, BufferInv, VotesBegun, AskedBegun
  <2>6. BeginsOnce'
    <3>1. ASSUME NEW u \in Worker, NEW i \in Begins(toM'[u])
          PROVE  \/ i \in Begins(toM[u]) /\ toM'[u][i] = toM[u][i]
                 \/ /\ u = w /\ i = Len(toM[w]) + 1 /\ toM'[u][i] = m
                    /\ m.kind = "BEGINTX"
      <4>1. toM[u] \in Seq(ToManager) /\ i \in DOMAIN toM'[u] /\ toM'[u][i].kind = "BEGINTX"
        BY DEF Begins, SystemTypeOK
      <4>2. CASE toM'[u] = <<>>
        BY <4>1, <4>2
      <4>3. CASE toM'[u] = toM[u]
        BY <4>1, <4>3 DEF Begins
      <4>4. CASE toM'[u] = toM[u] \o <<m>> /\ u = w
        <5>1. i \in 1..(Len(toM[u]) + 1)
          BY <4>1, <4>4
        <5>2. i \in 1..Len(toM[u]) => toM'[u][i] = toM[u][i]
          BY <4>1, <4>4
        <5>3. i = Len(toM[u]) + 1 => toM'[u][i] = m
          BY <4>1, <4>4
        <5>4. QED
          BY <4>1, <4>4, <5>1, <5>2, <5>3 DEF Begins
      <4>5. QED
        BY <2>1, <4>2, <4>3, <4>4
    <3>2. ASSUME NEW u \in Worker, NEW i \in Begins(toM[u]), m.kind = "BEGINTX"
          PROVE  toM[u][i].tid # m.tid
      <4>1. toM[u][i].tid \in named
        BY DEF Begins, Range, BufferInv, BeginsFresh
      <4>2. QED
        BY <1>4, <3>2, <4>1 DEF Sendable
    <3>3. ASSUME NEW u \in Worker, NEW v \in Worker, NEW i \in Begins(toM'[u]),
                 NEW j \in Begins(toM'[v]), toM'[u][i].tid = toM'[v][j].tid
          PROVE  u = v /\ i = j
      BY <3>1, <3>2, <3>3 DEF BufferInv, BeginsOnce
    <3>4. QED
      BY <3>3 DEF BeginsOnce, Begins
  <2>7. QED
    BY <1>2, <2>3, <2>4, <2>5, <2>6 DEF BufferInv
<1>5. QED
  BY <1>3, <1>4 DEF WorkerGood, Posting

-------------------------------------------------------------------------------
\* Every step

(* Taking the first datagram of a buffer.                                        *)
LEMMA PoppedType ==
  ASSUME NEW S, NEW queues \in [Worker -> Seq(S)], NEW r \in Worker, queues[r] # <<>>
  PROVE  /\ Popped(queues, r) \in [Worker -> Seq(S)]
         /\ \A w \in Worker : Range(Popped(queues, r)[w]) \subseteq Range(queues[w])
         /\ \A w \in Worker : Popped(queues, r)[w] = IF w = r THEN Tail(queues[w]) ELSE queues[w]
<1>1. Tail(queues[r]) \in Seq(S) /\ Range(Tail(queues[r])) \subseteq Range(queues[r])
  BY RangeRead
<1>2. \A w \in Worker : Popped(queues, r)[w] = IF w = r THEN Tail(queues[w]) ELSE queues[w]
  BY DEF Popped
<1>3. Popped(queues, r) \in [Worker -> Seq(S)]
  BY <1>1 DEF Popped
<1>4. QED
  BY <1>1, <1>2, <1>3

(* What reaches the workers' buffers was there or is sent now.                   *)
LEMMA RoutedToWorkers ==
  ASSUME SystemTypeOK, BufferInv, NEW queues \in [Worker -> Seq(ToWorker)],
         \A w \in Worker : Range(queues[w]) \subseteq Range(toW[w]),
         RouteToWorkers(queues), sent' \in [Worker -> Seq(ToWorker)], Preparing,
         begun \subseteq begun'
  PROVE  toW' \in [Worker -> Seq(ToWorker)] /\ AskedBegun'
<1>1. ASSUME NEW w \in Worker
      PROVE  /\ toW'[w] \in Seq(ToWorker)
             /\ Range(toW'[w]) \subseteq Range(toW[w]) \cup Range(sent'[w])
  <2>1. queues[w] \in Seq(ToWorker) /\ sent'[w] \in Seq(ToWorker) /\ <<>> \in Seq(ToWorker)
    OBVIOUS
  <2>2. toW'[w] = <<>> \/ toW'[w] = queues[w] \o sent'[w]
    BY DEF RouteToWorkers
  <2>3. queues[w] \o sent'[w] \in Seq(ToWorker)
    BY <2>1
  <2>4. Range(queues[w] \o sent'[w]) = Range(queues[w]) \cup Range(sent'[w])
    BY <2>1, RangeAppended
  <2>5. QED
    BY <2>1, <2>2, <2>3, <2>4, RangeEmpty
<1>2. toW' \in [Worker -> Seq(ToWorker)]
  BY <1>1 DEF RouteToWorkers
<1>3. AskedBegun'
  BY <1>1 DEF AskedBegun, Preparing, BufferInv, VotesBegun
<1>4. QED
  BY <1>2, <1>3

\* A step of the system is good if it is one of the manager in its environment and
\* keeps the invariants.
GoodStep == SystemTypeOK' /\ BufferInv' /\ [MgrNext]_mgrVars

(* No transaction that was begun is numbered 0.                                  *)
LEMMA ZeroNotBegun ==
  ASSUME SystemTypeOK, BufferInv
  PROVE  NoTid \notin begun
BY NoTidAssumption DEF SystemTypeOK, WorkerTypeOK, BufferInv, BeginsFresh

(* What all steps of the manager have in common.                                 *)
LEMMA ManagerMovesType ==
  ASSUME SystemTypeOK, BufferInv, NEW queues \in [Worker -> Seq(ToManager)],
         MgrNext, ManagerGood, begun \subseteq begun', posted' = <<>>,
         UNCHANGED <<wlog, obj, known, mem, joinedAt, named, left>>,
         RouteToManager(queues), RouteToWorkers(toW)
  PROVE  /\ SystemTypeOK' /\ AskedBegun' /\ SlotsBegun' /\ named' = named
         /\ \A w \in Worker : toM'[w] = <<>> \/ toM'[w] = queues[w]
<1>1. MgrTypeOK'
  BY TypeStep DEF SystemTypeOK
<1>2. WorkerTypeOK'
  <2>1. <<>> \in Seq(ToManager) /\ Len(<<>>) <= 1
    OBVIOUS
  <2>2. QED
    BY <2>1 DEF SystemTypeOK, WorkerTypeOK
<1>3. \A w \in Worker : toM'[w] = <<>> \/ toM'[w] = queues[w]
  <2>1. \A w \in Worker : PostedBy(w)' = <<>>
    BY DEF PostedBy
  <2>2. \A w \in Worker : queues[w] \o <<>> = queues[w]
    OBVIOUS
  <2>3. QED
    BY <2>1, <2>2 DEF RouteToManager
<1>4. toM' \in [Worker -> Seq(ToManager)]
  <2>1. <<>> \in Seq(ToManager)
    OBVIOUS
  <2>2. \A w \in Worker : toM'[w] \in Seq(ToManager)
    BY <1>3, <2>1
  <2>3. QED
    BY <2>2 DEF RouteToManager
<1>5. toW' \in [Worker -> Seq(ToWorker)] /\ AskedBegun'
  <2>1. toW \in [Worker -> Seq(ToWorker)]
    BY DEF SystemTypeOK
  <2>2. sent' \in [Worker -> Seq(ToWorker)]
    BY <1>1 DEF MgrTypeOK
  <2>3. QED
    BY <2>1, <2>2, RoutedToWorkers DEF ManagerGood
<1>6. QED
  BY <1>1, <1>2, <1>3, <1>4, <1>5 DEF SystemTypeOK, ManagerGood

(* The manager handles a datagram, or is killed while it does.                   *)
LEMMA DeliverStep ==
  ASSUME SystemTypeOK, BufferInv, NEW w \in Worker, toM[w] # <<>>,
         \/ ManagerMoves(Popped(toM, w), MgrReceive(Head(toM[w])))
         \/ ManagerMoves(Popped(toM, w), MgrTornVote(Head(toM[w])))
         \/ ManagerMoves(toM, MgrTornVote(Head(toM[w])))
  PROVE  GoodStep
<1> DEFINE m == Head(toM[w])
<1>1. m \in Range(toM[w]) /\ m \in ToManager
  BY RangeRead DEF SystemTypeOK
<1>2. Delivered(m)
  <2>1. m.kind = "BEGINTX" => m.tid \in named \ begun
    BY <1>1 DEF BufferInv, BeginsFresh
  <2>2. named \subseteq Tid
    BY DEF SystemTypeOK, WorkerTypeOK
  <2>3. /\ m.kind \in {"VOTE_COMMIT", "VOTE_ABORT"} => m.tid \in begun
        /\ m.kind = "JOINTX" => m.tid \in Tid
    BY <1>1 DEF BufferInv, VotesBegun
  <2> HIDE DEF m
  <2>4. QED
    BY <1>1, <2>1, <2>2, <2>3 DEF Delivered, Allowed
<1>3. MgrReceive(m) \/ MgrTornVote(m)
  BY DEF ManagerMoves
<1>4. MgrNext
  BY <1>1, <1>2, <1>3 DEF MgrNext, MgrWhole, Delivered
<1>5. /\ ManagerGood
      /\ begun' = begun \/ (m.kind = "BEGINTX" /\ begun' = begun \cup {m.tid})
  <2> HIDE DEF m
  <2>1. QED
    BY <1>2, <1>3, ZeroNotBegun, DeliveryGood DEF SystemTypeOK, BufferInv
<1>6. PICK queues :
        /\ posted' = <<>>
        /\ UNCHANGED <<wlog, obj, known, mem, joinedAt, named, left>>
        /\ RouteToManager(queues)
        /\ RouteToWorkers(toW)
        /\ queues = Popped(toM, w) \/ (queues = toM /\ MgrTornVote(m))
  <2> HIDE DEF m
  <2>1. /\ posted' = <<>>
        /\ UNCHANGED <<wlog, obj, known, mem, joinedAt, named, left>>
        /\ RouteToWorkers(toW)
        /\ RouteToManager(Popped(toM, w)) \/ (RouteToManager(toM) /\ MgrTornVote(m))
    BY DEF ManagerMoves, m
  <2>2. CASE RouteToManager(Popped(toM, w))
    BY <2>1, <2>2
  <2>3. CASE RouteToManager(toM) /\ MgrTornVote(m)
    BY <2>1, <2>3
  <2>4. QED
    BY <2>1, <2>2, <2>3
<1>7. queues \in [Worker -> Seq(ToManager)]
  BY <1>6, PoppedType DEF SystemTypeOK
<1>8. /\ SystemTypeOK' /\ AskedBegun' /\ SlotsBegun' /\ named' = named
      /\ \A u \in Worker : toM'[u] = <<>> \/ toM'[u] = queues[u]
  <2> HIDE DEF m
  <2>1. begun \subseteq begun'
    BY <1>5
  <2>2. QED
    BY <1>4, <1>5, <1>6, <1>7, <2>1, ManagerMovesType
<1>9. toM' \in [Worker -> Seq(ToManager)]
  BY <1>8 DEF SystemTypeOK
<1>10. CASE queues = Popped(toM, w)
  <2>1. ASSUME NEW u \in Worker
        PROVE  \/ toM'[u] = <<>>
               \/ u # w /\ toM'[u] = toM[u]
               \/ u = w /\ toM'[u] = Tail(toM[u])
    <3>1. toM'[u] = <<>> \/ toM'[u] = Popped(toM, w)[u]
      BY <1>8, <1>10
    <3>2. Popped(toM, w)[u] = IF u = w THEN Tail(toM[u]) ELSE toM[u]
      BY DEF SystemTypeOK, Popped
    <3>3. QED
      BY <3>1, <3>2
  <2>2. Drained(ReadFrom(w)) /\ ReadFrom(w) \in [Worker -> Nat]
    <3>1. OneRead(w)
      BY <2>1 DEF OneRead
    <3>2. QED
      BY <3>1, ReadDrains
  <2>3. ASSUME begun' = begun PROVE BufferInv'
    BY <1>8, <1>9, <2>2, <2>3, DrainedGood
  <2>4. ASSUME m.kind = "BEGINTX", begun' = begun \cup {m.tid} PROVE BufferInv'
    BY <1>8, <1>9, <2>2, <2>4, BegunGood
  <2>5. BufferInv'
    BY <1>5, <2>3, <2>4
  <2>6. QED
    BY <1>4, <1>8, <2>5 DEF GoodStep
<1>11. CASE queues = toM /\ MgrTornVote(m)
  <2>1. begun' = begun
    BY <1>11 DEF MgrTornVote
  <2>2. Drained(Untouched) /\ Untouched \in [Worker -> Nat]
    BY <1>8, <1>11, SuffixKept DEF Drained, Untouched, SystemTypeOK
  <2>3. BufferInv'
    BY <1>8, <1>9, <2>1, <2>2, DrainedGood
  <2>4. QED
    BY <1>4, <1>8, <2>3 DEF GoodStep
<1>12. QED
  BY <1>6, <1>10, <1>11

(* The manager acts on its own.                                                  *)
LEMMA OwnStep ==
  ASSUME SystemTypeOK, BufferInv,
         \/ ManagerMoves(toM, MgrTimeout)
         \/ ManagerMoves(toM, MgrTornTimeout)
         \/ ManagerMoves(toM, MgrKill)
         \/ ManagerMoves(toM, MgrRestart)
         \/ ManagerMoves(toM, MgrRecoverSlot)
  PROVE  GoodStep
<1>1. MgrTimeout \/ MgrTornTimeout \/ MgrKill \/ MgrRestart \/ MgrRecoverSlot
  BY DEF ManagerMoves
<1>2. MgrNext
  BY <1>1 DEF MgrNext, MgrWhole
<1>3. ManagerGood /\ begun' = begun
  BY <1>1, ZeroNotBegun, OwnStepGood, TornGood DEF SystemTypeOK, BufferInv
<1>4. /\ posted' = <<>>
      /\ UNCHANGED <<wlog, obj, known, mem, joinedAt, named, left>>
      /\ RouteToManager(toM)
      /\ RouteToWorkers(toW)
      /\ toM \in [Worker -> Seq(ToManager)]
  BY DEF ManagerMoves, SystemTypeOK
<1>5. /\ SystemTypeOK' /\ AskedBegun' /\ SlotsBegun' /\ named' = named
      /\ \A u \in Worker : toM'[u] = <<>> \/ toM'[u] = toM[u]
  BY <1>2, <1>3, <1>4, ManagerMovesType
<1>6. Drained(Untouched) /\ Untouched \in [Worker -> Nat]
  BY <1>5, SuffixKept DEF Drained, Untouched, SystemTypeOK
<1>7. BufferInv'
  BY <1>3, <1>5, <1>6, DrainedGood DEF SystemTypeOK
<1>8. QED
  BY <1>2, <1>5, <1>7 DEF GoodStep

(* A worker acts: for the manager this is a step of somebody else.               *)
LEMMA WorkerStep ==
  ASSUME SystemTypeOK, BufferInv, NEW w \in Worker, WorkerGood(w),
         NEW queues \in [Worker -> Seq(ToWorker)],
         \A u \in Worker : Range(queues[u]) \subseteq Range(toW[u]),
         sent' = Silence, UNCHANGED <<mlog, table, mgrUp, resume, begun>>,
         RouteToManager(toM), RouteToWorkers(queues)
  PROVE  GoodStep
<1>1. MgrIdle
  BY DEF MgrIdle
<1>2. MgrNext
  BY <1>1 DEF MgrNext, MgrWhole
<1>3. MgrTypeOK' /\ sent' \in [Worker -> Seq(ToWorker)]
  BY <1>2, TypeStep, SilenceType DEF SystemTypeOK
<1>4. Preparing
  BY NotPreparing
<1>5. toW' \in [Worker -> Seq(ToWorker)] /\ AskedBegun'
  BY <1>3, <1>4, RoutedToWorkers
<1>6. BufferInv' /\ toM' \in [Worker -> Seq(ToManager)]
  BY <1>5, PostedGood
<1>7. QED
  BY <1>2, <1>3, <1>5, <1>6 DEF GoodStep, SystemTypeOK, WorkerGood

(* A datagram is lost.                                                           *)
LEMMA LossStep ==
  ASSUME SystemTypeOK, BufferInv, NEW w \in Worker, LoseToManager(w) \/ LoseToWorker(w)
  PROVE  GoodStep
<1>1. MgrIdle
  BY DEF MgrIdle, LoseToManager, LoseToWorker
<1>2. MgrNext
  BY <1>1 DEF MgrNext, MgrWhole
<1>3. MgrTypeOK'
  BY <1>2, TypeStep DEF SystemTypeOK
<1>4. WorkerTypeOK'
  <2>1. posted' = <<>> /\ UNCHANGED <<wlog, obj, known, mem, joinedAt, named, left>>
    BY DEF LoseToManager, LoseToWorker
  <2>2. <<>> \in Seq(ToManager) /\ Len(<<>>) <= 1
    OBVIOUS
  <2>3. QED
    BY <2>1, <2>2 DEF SystemTypeOK, WorkerTypeOK
<1>5. UNCHANGED <<table, begun, named>>
  BY DEF LoseToManager, LoseToWorker
<1>6. SlotsBegun'
  BY <1>5 DEF BufferInv, SlotsBegun
<1>7. CASE LoseToManager(w)
  <2>1. toM[w] # <<>> /\ toM' = Popped(toM, w) /\ toW' = toW
    BY <1>7 DEF LoseToManager
  <2>2. toM' \in [Worker -> Seq(ToManager)]
    BY <2>1, PoppedType DEF SystemTypeOK
  <2>3. \A u \in Worker : toM'[u] = IF u = w THEN Tail(toM[u]) ELSE toM[u]
    BY <2>1, PoppedType DEF SystemTypeOK
  <2>4. Drained(ReadFrom(w)) /\ ReadFrom(w) \in [Worker -> Nat]
    <3>1. OneRead(w)
      BY <2>3 DEF OneRead
    <3>2. QED
      BY <2>1, <3>1, ReadDrains
  <2>5. AskedBegun'
    BY <1>5, <2>1 DEF AskedBegun, BufferInv, VotesBegun
  <2>6. BufferInv'
    BY <1>5, <1>6, <2>2, <2>4, <2>5, DrainedGood
  <2>7. QED
    BY <1>2, <1>3, <1>4, <2>1, <2>2, <2>6 DEF GoodStep, SystemTypeOK
<1>8. CASE LoseToWorker(w)
  <2>1. toW[w] # <<>> /\ toW' = Popped(toW, w) /\ toM' = toM
    BY <1>8 DEF LoseToWorker
  <2>2. /\ toW' \in [Worker -> Seq(ToWorker)]
        /\ \A u \in Worker : Range(toW'[u]) \subseteq Range(toW[u])
    BY <2>1, PoppedType DEF SystemTypeOK
  <2>3. BufferInv'
    BY <1>5, <1>6, <2>1, <2>2 DEF BufferInv, BeginsOnce, Begins, BeginsFresh, VotesBegun
  <2>4. QED
    BY <1>2, <1>3, <1>4, <2>1, <2>2, <2>3 DEF GoodStep, SystemTypeOK
<1>9. QED
  BY <1>7, <1>8

(* Every step of the system is a step of the manager in its environment and      *)
(* keeps the invariants.                                                         *)
LEMMA SystemStep ==
  ASSUME SystemTypeOK, BufferInv, [Next]_vars
  PROVE  GoodStep
<1>1. CASE ManagerTimeout \/ ManagerKill \/ ManagerRestart \/ ManagerRecoverSlot
  BY <1>1, OwnStep DEF ManagerTimeout, ManagerKill, ManagerRestart, ManagerRecoverSlot
<1>2. CASE ManagerTorn
  BY <1>2, OwnStep, DeliverStep DEF ManagerTorn
<1>3. ASSUME NEW w \in Worker, DeliverToManager(w) PROVE GoodStep
  BY <1>3, DeliverStep DEF DeliverToManager
<1>4. ASSUME NEW w \in Worker, DeliverToWorker(w) PROVE GoodStep
  <2>1. toW[w] # <<>> /\ WorkerMoves(Popped(toW, w), WorkerReceive(w, Head(toW[w])))
    BY <1>4 DEF DeliverToWorker
  <2>2. /\ Popped(toW, w) \in [Worker -> Seq(ToWorker)]
        /\ \A u \in Worker : Range(Popped(toW, w)[u]) \subseteq Range(toW[u])
    BY <2>1, PoppedType DEF SystemTypeOK
  <2>3. Head(toW[w]) \in Range(toW[w]) /\ Head(toW[w]) \in ToWorker
    BY <2>1, RangeRead DEF SystemTypeOK
  <2>4. Head(toW[w]).kind = "PREPARE_COMMIT" => Head(toW[w]).tid \in begun
    BY <2>3 DEF BufferInv, VotesBegun
  <2>5. WorkerGood(w)
    BY <2>1, <2>3, <2>4, ReceiveGood DEF WorkerMoves, SystemTypeOK
  <2>6. QED
    BY <2>1, <2>2, <2>5, WorkerStep DEF WorkerMoves
<1>5. ASSUME NEW w \in Worker, PollTimeout(w) \/ UserCommand(w) \/ RestartWorker(w)
      PROVE  GoodStep
  <2>1. \/ WorkerMoves(toW, Poll(w))
        \/ WorkerMoves(toW, CmdAny(w))
        \/ WorkerMoves(toW, WorkerRestart(w))
    BY <1>5 DEF PollTimeout, UserCommand, RestartWorker
  <2>2. WorkerGood(w)
    BY <2>1, PollGood, CommandGood, WorkerRestartGood DEF WorkerMoves, SystemTypeOK
  <2>3. toW \in [Worker -> Seq(ToWorker)]
    BY DEF SystemTypeOK
  <2>4. QED
    BY <2>1, <2>2, <2>3, WorkerStep DEF WorkerMoves
<1>6. ASSUME NEW w \in Worker, LoseToManager(w) \/ LoseToWorker(w) PROVE GoodStep
  BY <1>6, LossStep
<1>7. CASE UNCHANGED vars
  <2>1. UNCHANGED <<mgrVars, workerVars, toM, toW>>
    BY <1>7 DEF vars
  <2>2. SystemTypeOK'
    BY <2>1 DEF mgrVars, workerVars, SystemTypeOK, MgrTypeOK, WorkerTypeOK
  <2>3. BufferInv'
    BY <2>1 DEF mgrVars, workerVars, BufferInv, BeginsOnce, Begins, BeginsFresh, SlotsBegun, VotesBegun
  <2>4. QED
    BY <2>1, <2>2, <2>3 DEF GoodStep
<1>8. QED
  BY <1>1, <1>2, <1>3, <1>4, <1>5, <1>6, <1>7 DEF Next

(* The invariants hold at the start.                                             *)
LEMMA SystemStart ==
  ASSUME Init
  PROVE  SystemTypeOK /\ BufferInv
<1>1. MgrTypeOK
  BY SilenceType, SizesAssumption DEF Init, MgrInit, MgrTypeOK, Free, AnyTid
<1>2. WorkerTypeOK
  BY BootedType, InitialAssumption, BudgetAssumption DEF Init, WorkerInit, WorkerTypeOK, Data
<1>3. toM \in [Worker -> Seq(ToManager)] /\ toW \in [Worker -> Seq(ToWorker)]
  BY DEF Init
<1>4. BufferInv
  BY RangeEmpty, NoTidAssumption
     DEF Init, MgrInit, WorkerInit, Free, BufferInv, BeginsOnce, Begins, BeginsFresh, SlotsBegun, VotesBegun
<1>5. QED
  BY <1>1, <1>2, <1>3, <1>4 DEF SystemTypeOK

(* They hold in every state.                                                     *)
LEMMA SystemInvariant == Spec => [](SystemTypeOK /\ BufferInv)
<1>1. Init => SystemTypeOK /\ BufferInv
  BY SystemStart
<1>2. SystemTypeOK /\ BufferInv /\ [Next]_vars => (SystemTypeOK /\ BufferInv)'
  BY SystemStep DEF GoodStep
<1>3. QED
  BY <1>1, <1>2, PTL DEF Spec

(* The worker's type invariant: whatever is lost or killed, and for any budgets, *)
(* logs, data and memory keep their form; rolling back yields values that were   *)
(* in the log or in the data.                                                    *)
THEOREM WorkerTypes == Spec => []WorkerTypeOK
<1>1. SystemTypeOK /\ BufferInv => WorkerTypeOK
  BY DEF SystemTypeOK
<1>2. QED
  BY <1>1, SystemInvariant, PTL

(* The system implements the manager in its open environment: the workers send   *)
(* it nothing but what MgrSpec lets the environment send.                        *)
THEOREM SystemImplementsManager == Spec => MgrSpec
<1>1. Init => MgrInit
  BY DEF Init
<1>2. SystemTypeOK /\ BufferInv /\ [Next]_vars => [MgrNext]_mgrVars
  BY SystemStep DEF GoodStep
<1>3. QED
  BY <1>1, <1>2, SystemInvariant, PTL DEF Spec, MgrSpec

(* So a commit is final in the system too, with losses and kills between         *)
(* handlers.                                                                     *)
THEOREM SystemCommitFinality ==
  ASSUME ~ReuseTids, ~TornKills
  PROVE  Spec => []CommitIsFinal
BY CommitFinality, SystemImplementsManager, PTL

===============================================================================
