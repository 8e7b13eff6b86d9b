---------------------------- MODULE RollbackProofs ----------------------------
(* Proofs of what a worker may count on when workers crash at any time,          *)
(* datagrams are lost and the manager is killed wherever the model kills it,     *)
(* between a decision and its broadcast included: that it leaves its wait by a   *)
(* decision only (UncertainBlocks), and that an abort restores the data it       *)
(* joined with (RollbackRestores).  Both rest on one fact: a worker is asked to  *)
(* prepare once at most, for the slots that list it then have their COMMIT on    *)
(* record, and a COMMIT on record is not sent again.                             *)
EXTENDS AgreementProofs

-------------------------------------------------------------------------------
\* Restrictions on users, table and logs

\* A COMMIT for t waits at the manager's sockets.
Pending(t) == \E u \in Worker : \E m \in Range(toM[u]) : m.kind = "COMMIT" /\ m.tid = t

\* Users begin transactions before they join one, and ask for a commit once: the
\* next COMMIT of a transaction would have its members asked to prepare again.
Considerate ==
  \A i \in DOMAIN posted' :
    /\ posted'[i].kind = "BEGINTX" => left[posted'[i].from]["JOINTX"] > 0
    /\ posted'[i].kind = "COMMIT" =>
         ~Pending(posted'[i].tid) /\ ~Logged("COMMIT_REQ", posted'[i].tid)

\* The system with such users, of whom each joins one transaction at most.
ConsiderateSpec == Spec /\ OneJoinEach /\ [][Considerate]_vars

\* Worker w was asked to prepare.
Asked(w) == \E i \in DOMAIN wlog[w] : wlog[w][i].kind = "PREPARE_COMMIT"

\* A worker that dies with an abort or a decision as its last record, for which its
\* restart will poll, was asked: who aborts by command unasked does not crash then.
Aware ==
  \A w \in Worker : Dies(w) /\ LastRecord(w)'.kind \in Resolved => Asked(w)'

\* Every transaction has a slot, or there is one to give it.
Roomy == \A t \in Tid : Holding(t) \cup Holding(NoTid) # {}

-------------------------------------------------------------------------------
\* A worker is asked once

\* What ends a transaction for a worker.
Decision == {"DECIDE_COMMIT", "DECIDE_ABORT"}

\* The answers to a BEGINTX, which come before anything else.
BeginAnswer == {"BEGIN_SUCCESS", "BEGIN_FAIL"}

\* A datagram of kind b may be behind one of kind a on the way to a worker.
MayFollow(a, b) ==
  /\ b = "JOIN_SUCCESS" => a \in BeginAnswer
  /\ a = "JOIN_SUCCESS" => b \in Decision \cup {"PREPARE_COMMIT"}
  /\ a = "PREPARE_COMMIT" => b \in Decision

\* No two datagrams of q are in an order they may not be in.
InOrder(q) == \A i, j \in DOMAIN q : i < j => MayFollow(q[i].kind, q[j].kind)

\* What a worker sends before it is let in.
Request == {"BEGINTX", "JOINTX"}

\* A JOINTX is the last request of a worker.
LastWord(q) ==
  \A i, j \in DOMAIN q : q[i].kind = "JOINTX" /\ i < j => q[j].kind \notin Request

\* The manager has yet to read the JOINTX of w, if it comes.
Fresh(w) == left[w]["JOINTX"] > 0 \/ \E m \in Range(toM[w]) : m.kind \in Request

\* The manager has not let w in, or w has not heard of it.
Awaits(w) == Fresh(w) \/ "JOIN_SUCCESS" \in Kinds(toW[w])

\* w is a member of some transaction.
Listed(w) == \E k \in Slot : w \in In(k)

\* w has not voted, nor met the peer a poll would go to.
Silent(w) ==
  /\ ~mem[w].peer /\ ~known[w]
  /\ \A m \in Range(toM[w]) : m.kind \notin Followup

\* Until the manager reads its JOINTX a worker is unlisted, unasked, silent, and
\* told of no more than its BEGINTXs.
Entry(w) ==
  /\ left[w]["JOINTX"] <= 1
  /\ Asking(w) => left[w]["JOINTX"] = 0
  /\ LastWord(toM[w])
  /\ Fresh(w) => ~Asked(w) /\ ~Listed(w) /\ Kinds(toW[w]) \subseteq BeginAnswer
  /\ Awaits(w) => Silent(w)

\* Once asked it is told of decisions only; and what lists a worker that was asked,
\* or is about to be, has its commit on record, so nobody asks again.
Order(w) ==
  /\ InOrder(toW[w])
  /\ Asked(w) => Kinds(toW[w]) \subseteq Decision
  /\ Asked(w) \/ "PREPARE_COMMIT" \in Kinds(toW[w]) =>
       \A k \in Slot : w \in In(k) => Logged("COMMIT_REQ", table[k].tid)

\* A worker has one place in one slot.
ListedOnce ==
  \A k, l \in Slot : \A i \in DOMAIN table[k].members, j \in DOMAIN table[l].members :
    table[k].members[i].id = table[l].members[j].id => k = l /\ i = j

\* The places of q that hold a COMMIT for t.
CommitsOf(q, t) == {i \in DOMAIN q : q[i].kind = "COMMIT" /\ q[i].tid = t}

\* One COMMIT per transaction waits at most, and none that was read before.
RequestedOnce ==
  \A t \in Tid :
    /\ Pending(t) => ~Logged("COMMIT_REQ", t)
    /\ \A u, w \in Worker : \A i \in CommitsOf(toM[u], t), j \in CommitsOf(toM[w], t) :
         u = w /\ i = j

\* The inductive invariant of ConsiderateSpec.
AskedInv ==
  /\ ListedOnce
  /\ RequestedOnce
  /\ \A w \in Worker : Entry(w) /\ Order(w)

\* Only who was asked waits, or will wait when it is started again.
WaitsAsked ==
  \A w \in Worker :
    /\ mem[w].pc = "wait" => Asked(w)
    /\ mem[w].pc = "down" /\ LastRecord(w).kind \in Resolved => Asked(w)

-------------------------------------------------------------------------------
\* A worker keeps to one transaction

\* The log of w has no join, no change and no question.
Blank(w) ==
  \A i \in DOMAIN wlog[w] : wlog[w][i].kind \notin {"JOINTX", "NEW_VALUE", "PREPARE_COMMIT"}

\* w has joined nothing, and what it changes is not put on record.
Pristine(w) ==
  /\ Blank(w)
  /\ \A t \in Tid : joinedAt[w][t] = <<>>
  /\ ~mem[w].txRun

\* w has joined t, or is about to learn that it did.
TakesPart(w, t) == joinedAt[w][t] # <<>> \/ InWay(w, "JOIN_SUCCESS", t)

\* The manager lists w for t only, and they talk about t only.
Business(w, t) ==
  /\ \A k \in Slot : w \in In(k) => table[k].tid = t
  /\ \A m \in Range(toW[w]) : m.kind \in ToMember => m.tid = t
  /\ \A m \in Range(toM[w]) : m.kind \in Followup => m.tid = t

\* The log of w has one join, of t, with no change before it and nothing about
\* other transactions after it: the walk back of readValFromRecord reaches it.
Logbook(w, t) ==
  \E k \in DOMAIN wlog[w] :
    /\ wlog[w][k] = Rec("JOINTX", t)
    /\ \A i \in DOMAIN wlog[w] :
         /\ i < k => wlog[w][i].kind \notin {"JOINTX", "NEW_VALUE"}
         /\ i >= k => wlog[w][i].tid = t
         /\ i > k => wlog[w][i].kind # "JOINTX"

\* The records of changes to field f.
Changes(w, f) ==
  {i \in DOMAIN wlog[w] : wlog[w][i].kind = "NEW_VALUE" /\ wlog[w][i].field = f}

\* The value f had before the first of them.
Undone(w, f) ==
  IF Changes(w, f) = {}
  THEN obj[w][f]
  ELSE wlog[w][CHOOSE i \in Changes(w, f) : Earliest(i, Changes(w, f))].old

\* w has joined t.  As long as nothing is decided, undoing what is on record gives
\* the data of the join, every further change is put on record, and if w waits it
\* was asked.
Inside(w, t) ==
  /\ Kinds(toW[w]) \subseteq Decision \cup {"PREPARE_COMMIT"}
  /\ Logbook(w, t)
  /\ mem[w].pc # "down" => mem[w].curTid = t
  /\ Undecided(w, t) => /\ \A f \in Field : Undone(w, f) = joinedAt[w][t][1][f]
                        /\ mem[w].pc = "loop" => mem[w].txRun
                        /\ mem[w].pc = "wait" => Asked(w)

\* A vote for is on record after the question only.
VotesAsked(w) == \A i \in DOMAIN wlog[w] : wlog[w][i].kind = "VOTE_COMMIT" => Asked(w)

\* The inductive invariant, next to AskedInv, where the table is roomy as well.
Careful(w) ==
  /\ Awaits(w) => Pristine(w)
  /\ VotesAsked(w)
  /\ \A t \in Tid : /\ TakesPart(w, t) => Business(w, t)
                    /\ joinedAt[w][t] # <<>> => Inside(w, t)

\* For every worker.
CarefulInv == \A w \in Worker : Careful(w)

-------------------------------------------------------------------------------
\* Queues

\* A buffer that is left alone, read once or emptied.
Shrunk(p, q) == p = q \/ p = <<>> \/ (q # <<>> /\ p = Tail(q))

(* What is left in a buffer was in it, in the same order.                        *)
LEMMA ShrunkKeeps ==
  ASSUME NEW S, NEW q \in Seq(S), NEW p, Shrunk(p, q)
  PROVE  /\ p \in Seq(S) /\ Range(p) \subseteq Range(q) /\ Kinds(p) \subseteq Kinds(q)
         /\ InOrder(q) => InOrder(p)
         /\ LastWord(q) => LastWord(p)
<1>1. CASE p = q
  BY <1>1
<1>2. CASE p = <<>>
  <2>1. p \in Seq(S) /\ DOMAIN p = {} /\ Range(p) = {}
    BY <1>2, RangeEmpty
  <2>2. QED
    BY <2>1 DEF Kinds, InOrder, LastWord
<1>3. CASE q # <<>> /\ p = Tail(q)
  <2>1. p \in Seq(S) /\ Range(p) \subseteq Range(q)
    BY <1>3, RangeRead
  <2>2. \A i \in DOMAIN p : i + 1 \in DOMAIN q /\ p[i] = q[i + 1] /\ i \in Int
    BY <1>3, <2>1, TailPlaces
  <2>3. InOrder(q) => InOrder(p)
    <3>1. SUFFICES ASSUME InOrder(q), NEW i \in DOMAIN p, NEW j \in DOMAIN p, i < j
                   PROVE  MayFollow(p[i].kind, p[j].kind)
      BY DEF InOrder
    <3>2. i + 1 < j + 1
      BY <2>2, <3>1
    <3>3. QED
      BY <2>2, <3>1, <3>2 DEF InOrder
  <2>4. LastWord(q) => LastWord(p)
    <3>1. SUFFICES ASSUME LastWord(q), NEW i \in DOMAIN p, NEW j \in DOMAIN p,
                          p[i].kind = "JOINTX", i < j
                   PROVE  p[j].kind \notin Request
      BY DEF LastWord
    <3>2. i + 1 < j + 1
      BY <2>2, <3>1
    <3>3. QED
      BY <2>2, <3>1, <3>2 DEF LastWord
  <2>5. QED
    BY <2>1, <2>3, <2>4 DEF Kinds
<1>4. QED
  BY <1>1, <1>2, <1>3 DEF Shrunk

(* Decisions may follow anything, other messages only what they may follow.      *)
LEMMA SentInOrder ==
  ASSUME NEW q \in Seq(ToWorker), NEW s \in Seq(ToWorker), InOrder(q),
         Len(s) <= 1 \/ Kinds(s) \subseteq Decision,
         \A a \in Kinds(q), b \in Kinds(s) : MayFollow(a, b)
  PROVE  InOrder(q \o s) /\ Kinds(q \o s) = Kinds(q) \cup Kinds(s)
<1>1. SUFFICES ASSUME NEW i \in DOMAIN (q \o s), NEW j \in DOMAIN (q \o s), i < j
               PROVE  MayFollow((q \o s)[i].kind, (q \o s)[j].kind)
  <2>1. Kinds(q \o s) = Kinds(q) \cup Kinds(s)
    BY RangeAppended DEF Kinds
  <2>2. QED
    BY <2>1 DEF InOrder
<1>2. CASE i \in DOMAIN q /\ j \in DOMAIN q
  BY <1>1, <1>2, AppendedPlaces DEF InOrder
<1>3. CASE i \in DOMAIN q /\ j \notin DOMAIN q
  <2>1. (q \o s)[i] \in Range(q) /\ (q \o s)[j] \in Range(s)
    BY <1>3, AppendedPlaces DEF Range
  <2>2. QED
    BY <2>1 DEF Kinds
<1>4. CASE i \notin DOMAIN q
  <2>1. DOMAIN q = 1..Len(q) /\ DOMAIN (q \o s) = 1..(Len(q) + Len(s))
        /\ Len(q) \in Nat /\ Len(s) \in Nat
    OBVIOUS
  <2>2. j \notin DOMAIN q /\ Len(s) > 1
    BY <1>1, <1>4, <2>1
  <2>3. (q \o s)[i].kind \in Decision /\ (q \o s)[j].kind \in Decision
    BY <1>4, <2>2, AppendedPlaces DEF Kinds
  <2>4. QED
    BY <2>3 DEF MayFollow, Decision
<1>5. QED
  BY <1>2, <1>3, <1>4

(* What is left once something other than the answer to a BEGINTX was read.      *)
LEMMA ReadInOrder ==
  ASSUME NEW q \in Seq(ToWorker), q # <<>>, InOrder(q)
  PROVE  /\ Head(q).kind = "PREPARE_COMMIT" => Kinds(Tail(q)) \subseteq Decision
         /\ Head(q).kind = "JOIN_SUCCESS" => Kinds(Tail(q)) \subseteq Decision \cup {"PREPARE_COMMIT"}
         /\ Head(q).kind \notin BeginAnswer => "JOIN_SUCCESS" \notin Kinds(Tail(q))
<1>1. ASSUME NEW k \in Kinds(Tail(q)) PROVE MayFollow(Head(q).kind, k)
  <2>1. PICK i \in DOMAIN Tail(q) : k = Tail(q)[i].kind
    BY <1>1 DEF Kinds, Range
  <2>2. i + 1 \in DOMAIN q /\ Tail(q)[i] = q[i + 1] /\ 1 \in DOMAIN q /\ Head(q) = q[1] /\ 1 < i + 1
    BY TailPlaces
  <2>3. QED
    BY <2>1, <2>2 DEF InOrder
<1>2. QED
  BY <1>1 DEF MayFollow

(* A worker that asks to join does not ask for anything after that.              *)
LEMMA SaidLast ==
  ASSUME NEW q \in Seq(ToManager), NEW m \in ToManager, LastWord(q),
         m.kind \in Request => "JOINTX" \notin Kinds(q)
  PROVE  LastWord(q \o <<m>>)
<1>1. SUFFICES ASSUME NEW i \in DOMAIN (q \o <<m>>), NEW j \in DOMAIN (q \o <<m>>),
                      (q \o <<m>>)[i].kind = "JOINTX", i < j
               PROVE  (q \o <<m>>)[j].kind \notin Request
  BY DEF LastWord
<1>2. <<m>> \in Seq(ToManager) /\ Range(<<m>>) = {m}
  BY RangeSingle
<1>3. CASE j \in DOMAIN q
  <2>1. i \in DOMAIN q
    <3>1. DOMAIN q = 1..Len(q) /\ DOMAIN (q \o <<m>>) = 1..(Len(q) + 1)
      BY <1>2
    <3>2. QED
      BY <1>1, <1>3, <3>1
  <2>2. QED
    BY <1>1, <1>2, <1>3, <2>1, AppendedPlaces DEF LastWord
<1>4. CASE j \notin DOMAIN q
  <2>1. (q \o <<m>>)[j] = m
    BY <1>2, <1>4, AppendedPlaces
  <2>2. i \in DOMAIN q
    <3>1. DOMAIN q = 1..Len(q) /\ DOMAIN (q \o <<m>>) = 1..(Len(q) + 1) /\ Len(q) \in Nat
      BY <1>2
    <3>2. QED
      BY <1>1, <1>4, <3>1
  <2>3. (q \o <<m>>)[i] = q[i]
    BY <1>2, <2>2, AppendedPlaces
  <2>4. "JOINTX" \in Kinds(q)
    BY <1>1, <2>2, <2>3 DEF Kinds, Range
  <2>5. QED
    BY <2>1, <2>4
<1>5. QED
  BY <1>3, <1>4

(* Once its JOINTX is read there is no request of it left.                       *)
LEMMA JoinReadLast ==
  ASSUME NEW q \in Seq(ToManager), q # <<>>, LastWord(q), Head(q).kind = "JOINTX"
  PROVE  Kinds(Tail(q)) \cap Request = {}
<1>1. SUFFICES ASSUME NEW k \in Kinds(Tail(q)) PROVE k \notin Request
  OBVIOUS
<1>2. PICK i \in DOMAIN Tail(q) : k = Tail(q)[i].kind
  BY DEF Kinds, Range
<1>3. i + 1 \in DOMAIN q /\ Tail(q)[i] = q[i + 1] /\ 1 \in DOMAIN q /\ Head(q) = q[1] /\ 1 < i + 1
  BY TailPlaces
<1>4. QED
  BY <1>2, <1>3 DEF LastWord

-------------------------------------------------------------------------------
\* What a log says about rolling back

(* In the log of a worker inside t, rolling back undoes all changes on record.   *)
LEMMA RollsBackAll ==
  ASSUME WorkerTypeOK, NEW w \in Worker, NEW t, Logbook(w, t)
  PROVE  RolledBack(w, t) = [f \in Field |-> Undone(w, f)]
<1>1. wlog[w] \in Seq(WorkerRecord) /\ DOMAIN wlog[w] = 1..Len(wlog[w])
  BY DEF WorkerTypeOK
<1>2. PICK k \in DOMAIN wlog[w] :
        /\ wlog[w][k] = Rec("JOINTX", t)
        /\ \A i \in DOMAIN wlog[w] : /\ i < k => wlog[w][i].kind \notin {"JOINTX", "NEW_VALUE"}
                                     /\ i >= k => wlog[w][i].tid = t
                                     /\ i > k => wlog[w][i].kind # "JOINTX"
  BY DEF Logbook
<1>3. \A i \in DOMAIN wlog[w] : i >= k => i \in OwnSuffix(w, t)
  <2>1. SUFFICES ASSUME NEW i \in DOMAIN wlog[w], i >= k, NEW j \in i..Len(wlog[w])
                 PROVE  wlog[w][j].tid = t
    BY DEF OwnSuffix
  <2>2. j \in DOMAIN wlog[w] /\ j >= k
    BY <1>1, <1>2, <2>1
  <2>3. QED
    BY <1>2, <2>2
<1>4. wlog[w][k].kind = "JOINTX"
  BY <1>2 DEF Rec
<1>5. ASSUME NEW f
      PROVE  Changes(w, f) =
               {i \in OwnSuffix(w, t) : /\ wlog[w][i].kind = "NEW_VALUE"
                                        /\ wlog[w][i].field = f
                                        /\ \E j \in {h \in OwnSuffix(w, t) : wlog[w][h].kind = "JOINTX"} :
                                             j < i}
  <2>1. ASSUME NEW i \in Changes(w, f)
        PROVE  i \in OwnSuffix(w, t) /\ k < i
    <3>1. i \in DOMAIN wlog[w] /\ wlog[w][i].kind = "NEW_VALUE"
      BY <2>1 DEF Changes
    <3>2. ~(i < k) /\ i # k
      BY <1>2, <1>4, <3>1
    <3>3. i \in Int /\ k \in Int
      BY <1>1, <3>1
    <3>4. QED
      BY <1>3, <3>1, <3>2, <3>3
  <2>2. k \in OwnSuffix(w, t)
    BY <1>1, <1>3
  <2>3. OwnSuffix(w, t) \subseteq DOMAIN wlog[w]
    BY DEF OwnSuffix
  <2>4. QED
    BY <1>4, <2>1, <2>2, <2>3 DEF Changes
<1>6. ASSUME NEW f \in Field PROVE RolledBack(w, t)[f] = Undone(w, f)
  <2> DEFINE joins   == {i \in OwnSuffix(w, t) : wlog[w][i].kind = "JOINTX"}
             changes == {i \in OwnSuffix(w, t) : /\ wlog[w][i].kind = "NEW_VALUE"
                                                /\ wlog[w][i].field = f
                                                /\ \E j \in joins : j < i}
  <2>1. RolledBack(w, t)[f] =
          IF changes = {}
          THEN obj[w][f]
          ELSE wlog[w][CHOOSE i \in changes : Earliest(i, changes)].old
    BY DEF RolledBack
  <2>2. changes = Changes(w, f)
    BY <1>5
  <2> HIDE DEF changes
  <2>3. QED
    BY <2>1, <2>2 DEF Undone
<1>7. QED
  BY <1>6 DEF RolledBack

(* The first of some records is one of them, and there is only one first.        *)
LEMMA EarliestIs ==
  ASSUME NEW S, S \subseteq Nat, S # {}
  PROVE  LET e == CHOOSE i \in S : Earliest(i, S) IN
           e \in S /\ \A i \in S : Earliest(i, S) => i = e
<1> DEFINE e == CHOOSE i \in S : Earliest(i, S)
<1>1. \E i \in S : Earliest(i, S)
  BY LeastNumber DEF Earliest
<1>2. e \in S /\ Earliest(e, S)
  BY <1>1
<1> HIDE DEF e
<1>3. ASSUME NEW i \in S, Earliest(i, S) PROVE i = e
  <2>1. i <= e /\ e <= i /\ i \in Nat /\ e \in Nat
    BY <1>2, <1>3 DEF Earliest
  <2>2. QED
    BY <2>1
<1>4. QED
  BY <1>2, <1>3 DEF e

(* What more records say, besides those that were there.                         *)
LEMMA WroteMore ==
  ASSUME WorkerTypeOK, NEW w \in Worker, NEW s \in Seq(WorkerRecord), wlog'[w] = wlog[w] \o s
  PROVE  /\ \A kind, t : Wrote(w, kind, t)' <=> Wrote(w, kind, t) \/ Rec(kind, t) \in Range(s)
         /\ Asked(w)' <=> Asked(w) \/ "PREPARE_COMMIT" \in Kinds(s)
         /\ Kinds(wlog'[w]) = Kinds(wlog[w]) \cup Kinds(s)
<1>1. wlog[w] \in Seq(WorkerRecord)
  BY DEF WorkerTypeOK
<1>2. Range(wlog'[w]) = Range(wlog[w]) \cup Range(s)
  BY <1>1, RangeAppended
<1>3. \A kind, t : /\ Wrote(w, kind, t) <=> Rec(kind, t) \in Range(wlog[w])
                   /\ Wrote(w, kind, t)' <=> Rec(kind, t) \in Range(wlog'[w])
  BY DEF Wrote, Range
<1>4. /\ Asked(w) <=> "PREPARE_COMMIT" \in Kinds(wlog[w])
      /\ Asked(w)' <=> "PREPARE_COMMIT" \in Kinds(wlog'[w])
  BY DEF Asked, Kinds, Range
<1>5. Kinds(wlog'[w]) = Kinds(wlog[w]) \cup Kinds(s)
  BY <1>2 DEF Kinds
<1>6. QED
  BY <1>2, <1>3, <1>4, <1>5

(* More records about t leave the worker's log that of t.                        *)
LEMMA LogbookKept ==
  ASSUME WorkerTypeOK, NEW w \in Worker, NEW t, Logbook(w, t),
         NEW s \in Seq(WorkerRecord), wlog'[w] = wlog[w] \o s,
         \A r \in Range(s) : r.tid = t /\ r.kind # "JOINTX"
  PROVE  Logbook(w, t)'
<1>1. wlog[w] \in Seq(WorkerRecord)
  BY DEF WorkerTypeOK
<1>2. /\ \A i \in DOMAIN wlog[w] : i \in DOMAIN wlog'[w] /\ wlog'[w][i] = wlog[w][i]
      /\ \A i \in DOMAIN wlog'[w] : i \notin DOMAIN wlog[w] => /\ wlog'[w][i] \in Range(s)
                                                             /\ \A j \in DOMAIN wlog[w] : j < i
  BY <1>1, AppendedPlaces
<1>3. \A i \in DOMAIN wlog'[w] : i \in Int
  BY <1>1
<1>4. PICK k \in DOMAIN wlog[w] :
        /\ wlog[w][k] = Rec("JOINTX", t)
        /\ \A i \in DOMAIN wlog[w] : /\ i < k => wlog[w][i].kind \notin {"JOINTX", "NEW_VALUE"}
                                     /\ i >= k => wlog[w][i].tid = t
                                     /\ i > k => wlog[w][i].kind # "JOINTX"
  BY DEF Logbook
<1>5. k \in DOMAIN wlog'[w] /\ wlog'[w][k] = Rec("JOINTX", t)
  BY <1>2, <1>4
<1>6. ASSUME NEW i \in DOMAIN wlog'[w]
      PROVE  /\ i < k => wlog'[w][i].kind \notin {"JOINTX", "NEW_VALUE"}
             /\ i >= k => wlog'[w][i].tid = t
             /\ i > k => wlog'[w][i].kind # "JOINTX"
  <2>1. CASE i \in DOMAIN wlog[w]
    BY <1>2, <1>4, <2>1
  <2>2. CASE i \notin DOMAIN wlog[w]
    <3>1. k < i /\ wlog'[w][i] \in Range(s) /\ i \in Int /\ k \in Int
      BY <1>2, <1>3, <1>4, <1>5, <2>2
    <3>2. QED
      BY <3>1
  <2>3. QED
    BY <2>1, <2>2
<1>7. QED
  BY <1>5, <1>6 DEF Logbook, Rec

(* A log without joins and changes becomes that of t with the first join of t.   *)
LEMMA LogbookStarts ==
  ASSUME WorkerTypeOK, NEW w \in Worker, NEW t, Blank(w),
         wlog'[w] = Append(wlog[w], Rec("JOINTX", t))
  PROVE  Logbook(w, t)' /\ \A f : Changes(w, f)' = {}
<1>1. wlog[w] \in Seq(WorkerRecord) /\ DOMAIN wlog[w] = 1..Len(wlog[w]) /\ Len(wlog[w]) \in Nat
  BY DEF WorkerTypeOK
<1> DEFINE k == Len(wlog[w]) + 1
<1>2. /\ DOMAIN wlog'[w] = 1..k /\ k \in Nat
      /\ \A i \in DOMAIN wlog[w] : wlog'[w][i] = wlog[w][i]
      /\ wlog'[w][k] = Rec("JOINTX", t)
  BY <1>1
<1>3. \A i \in DOMAIN wlog'[w] : i # k => i \in DOMAIN wlog[w] /\ i < k
  BY <1>1, <1>2
<1>4. Rec("JOINTX", t).kind = "JOINTX" /\ Rec("JOINTX", t).tid = t
  BY DEF Rec
<1>5. k \in DOMAIN wlog'[w]
  BY <1>2
<1>6. ASSUME NEW i \in DOMAIN wlog'[w]
      PROVE  /\ i < k => wlog'[w][i].kind \notin {"JOINTX", "NEW_VALUE"}
             /\ i >= k => wlog'[w][i].tid = t
             /\ i > k => wlog'[w][i].kind # "JOINTX"
             /\ wlog'[w][i].kind # "NEW_VALUE"
  <2>1. CASE i = k
    BY <1>2, <1>4, <2>1
  <2>2. CASE i # k
    <3>1. i \in DOMAIN wlog[w] /\ i < k /\ wlog'[w][i] = wlog[w][i]
      BY <1>2, <1>3, <2>2
    <3>2. wlog[w][i].kind \notin {"JOINTX", "NEW_VALUE"}
      BY <3>1 DEF Blank
    <3>3. i \in Nat /\ k \in Nat
      BY <1>1, <1>2
    <3>4. QED
      BY <3>1, <3>2, <3>3
  <2>3. QED
    BY <2>1, <2>2
<1> HIDE DEF k
<1>7. Logbook(w, t)'
  BY <1>2, <1>5, <1>6 DEF Logbook, Rec
<1>8. \A f : Changes(w, f)' = {}
  BY <1>6 DEF Changes
<1>9. QED
  BY <1>7, <1>8

(* Records that are no changes leave what rolling back yields for a field.       *)
LEMMA NoChangeUndone ==
  ASSUME WorkerTypeOK, NEW w \in Worker, NEW f,
         NEW s \in Seq(WorkerRecord), wlog'[w] = wlog[w] \o s,
         \A r \in Range(s) : ~(r.kind = "NEW_VALUE" /\ r.field = f), obj'[w][f] = obj[w][f]
  PROVE  Undone(w, f)' = Undone(w, f)
<1>1. wlog[w] \in Seq(WorkerRecord)
  BY DEF WorkerTypeOK
<1>2. /\ \A i \in DOMAIN wlog[w] : i \in DOMAIN wlog'[w] /\ wlog'[w][i] = wlog[w][i]
      /\ \A i \in DOMAIN wlog'[w] : i \notin DOMAIN wlog[w] => wlog'[w][i] \in Range(s)
  BY <1>1, AppendedPlaces
<1>3. Changes(w, f)' = Changes(w, f) /\ Changes(w, f) \subseteq DOMAIN wlog[w]
  BY <1>2 DEF Changes
<1>4. CASE Changes(w, f) = {}
  BY <1>3, <1>4 DEF Undone
<1>5. CASE Changes(w, f) # {}
  <2> DEFINE e == CHOOSE i \in Changes(w, f) : Earliest(i, Changes(w, f))
  <2>1. Changes(w, f) \subseteq Nat
    BY <1>1, <1>3
  <2>2. e \in Changes(w, f)
    BY <1>5, <2>1, EarliestIs
  <2>3. wlog'[w][e] = wlog[w][e]
    BY <1>2, <1>3, <2>2
  <2>4. (CHOOSE i \in Changes(w, f) : Earliest(i, Changes(w, f)))' = e
    BY <1>3 DEF Earliest
  <2>5. Undone(w, f)' = wlog'[w][e].old /\ Undone(w, f) = wlog[w][e].old
    BY <1>3, <1>5, <2>4 DEF Undone
  <2>6. QED
    BY <2>3, <2>5
<1>6. QED
  BY <1>4, <1>5

(* Nor does a change on record, which keeps the value it replaces.               *)
LEMMA ChangeUndone ==
  ASSUME WorkerTypeOK, NEW w \in Worker, NEW f \in Field, NEW tid \in AnyTid,
         wlog'[w] = Append(wlog[w], [kind |-> "NEW_VALUE", tid |-> tid, field |-> f, old |-> obj[w][f]])
  PROVE  Undone(w, f)' = Undone(w, f)
<1> DEFINE r == [kind |-> "NEW_VALUE", tid |-> tid, field |-> f, old |-> obj[w][f]]
<1>1. wlog[w] \in Seq(WorkerRecord) /\ DOMAIN wlog[w] = 1..Len(wlog[w]) /\ Len(wlog[w]) \in Nat
  BY DEF WorkerTypeOK
<1>2. r \in WorkerRecord
  BY DEF WorkerRecord, WorkerTypeOK, Data
<1> DEFINE n == Len(wlog[w]) + 1
<1>3. /\ DOMAIN wlog'[w] = 1..n
      /\ \A i \in DOMAIN wlog[w] : wlog'[w][i] = wlog[w][i]
      /\ wlog'[w][n] = r
  BY <1>1, <1>2
<1>4. r.kind = "NEW_VALUE" /\ r.field = f /\ r.old = obj[w][f]
  OBVIOUS
<1> HIDE DEF r
<1>5. \A i \in DOMAIN wlog'[w] : i \in DOMAIN wlog[w] \/ i = n
  BY <1>1, <1>3
<1>6. n \in DOMAIN wlog'[w] /\ n \in Nat /\ \A i \in DOMAIN wlog[w] : i < n /\ i \in DOMAIN wlog'[w]
  BY <1>1, <1>3
<1> HIDE DEF n
<1>7. Changes(w, f)' = Changes(w, f) \cup {n} /\ Changes(w, f) \subseteq DOMAIN wlog[w]
  BY <1>3, <1>4, <1>5, <1>6 DEF Changes
<1> DEFINE e == CHOOSE i \in Changes(w, f)' : Earliest(i, Changes(w, f)')
<1>8. Changes(w, f)' \subseteq Nat /\ Changes(w, f)' # {} /\ Changes(w, f) \subseteq Nat
  BY <1>1, <1>6, <1>7
<1>9. e \in Changes(w, f)' /\ \A i \in Changes(w, f)' : Earliest(i, Changes(w, f)') => i = e
  <2> HIDE DEF Changes
  <2>1. QED
    BY <1>8, EarliestIs
<1>10. Undone(w, f)' = wlog'[w][e].old
  <2>1. (CHOOSE i \in Changes(w, f) : Earliest(i, Changes(w, f)))' = e
    BY DEF Earliest
  <2>2. QED
    BY <1>8, <2>1 DEF Undone
<1> HIDE DEF e
<1>11. CASE Changes(w, f) = {}
  <2>1. e = n
    BY <1>7, <1>9, <1>11
  <2>2. QED
    BY <1>3, <1>4, <1>10, <1>11, <2>1 DEF Undone
<1>12. CASE Changes(w, f) # {}
  <2> DEFINE d == CHOOSE i \in Changes(w, f) : Earliest(i, Changes(w, f))
  <2>1. d \in Changes(w, f) /\ Earliest(d, Changes(w, f))
    <3>1. \E i \in Changes(w, f) : Earliest(i, Changes(w, f))
      BY <1>8, <1>12, LeastNumber DEF Earliest
    <3>2. QED
      BY <3>1
  <2> HIDE DEF d
  <2>2. Earliest(d, Changes(w, f)')
    <3>1. d < n /\ d \in Nat
      BY <1>6, <1>7, <1>8, <2>1
    <3>2. \A j \in Changes(w, f) : d <= j
      BY <2>1 DEF Earliest
    <3>3. d <= n
      BY <1>6, <3>1
    <3>4. QED
      BY <1>7, <2>1, <3>2, <3>3 DEF Earliest
  <2>3. e = d
    BY <1>7, <1>9, <2>1, <2>2
  <2>4. wlog'[w][e] = wlog[w][d]
    BY <1>3, <1>7, <2>1, <2>3
  <2>5. Undone(w, f) = wlog[w][d].old
    BY <1>12 DEF Undone, d
  <2>6. QED
    BY <1>10, <2>4, <2>5
<1>13. QED
  BY <1>11, <1>12

-------------------------------------------------------------------------------
\* A worker is asked once: steps in which the manager does nothing

\* What w says to the manager in a step.
Says(w) ==
  /\ left'[w]["JOINTX"] <= 1
  /\ Asking(w)' => left'[w]["JOINTX"] = 0
  /\ LastWord(toM'[w])
  /\ Fresh(w)' => Fresh(w)
  /\ Awaits(w)' /\ Silent(w) => Silent(w)'

\* It records to have been asked when it was, and then waits for the decision only.
NotesAsking(w) ==
  Asked(w)' /\ ~Asked(w) =>
    "PREPARE_COMMIT" \in Kinds(toW[w]) /\ Kinds(toW'[w]) \subseteq Decision

(* A step that sends w nothing.                                                  *)
LEMMA AskedKept ==
  ASSUME SystemTypeOK, NEW w \in Worker, Entry(w), Order(w), UNCHANGED <<table, mlog>>,
         Says(w), NotesAsking(w), Shrunk(toW'[w], toW[w])
  PROVE  Entry(w)' /\ Order(w)'
<1>1. toW[w] \in Seq(ToWorker)
  BY DEF SystemTypeOK
<1>2. Kinds(toW'[w]) \subseteq Kinds(toW[w]) /\ InOrder(toW'[w])
  BY <1>1, ShrunkKeeps DEF Order
<1>3. \A k : In(k)' = In(k)
  BY DEF In
<1>4. ASSUME Fresh(w)' PROVE ~Asked(w)' /\ ~Listed(w)' /\ Kinds(toW'[w]) \subseteq BeginAnswer
  <2>1. ~Asked(w) /\ ~Listed(w) /\ Kinds(toW[w]) \subseteq BeginAnswer
    BY <1>4 DEF Entry, Says
  <2>2. "PREPARE_COMMIT" \notin Kinds(toW[w])
    BY <2>1 DEF BeginAnswer
  <2>3. ~Listed(w)'
    BY <1>3, <2>1 DEF Listed
  <2>4. QED
    BY <1>2, <2>1, <2>2, <2>3 DEF NotesAsking
<1>5. Awaits(w)' => Silent(w)'
  BY <1>2 DEF Awaits, Entry, Says
<1>6. Entry(w)'
  BY <1>4, <1>5 DEF Entry, Says
<1>7. Asked(w)' => Kinds(toW'[w]) \subseteq Decision
  BY <1>2 DEF Order, NotesAsking
<1>8. ASSUME Asked(w)' \/ "PREPARE_COMMIT" \in Kinds(toW'[w]), NEW k \in Slot, w \in In(k)'
      PROVE  Logged("COMMIT_REQ", table[k].tid)'
  <2>1. Asked(w) \/ "PREPARE_COMMIT" \in Kinds(toW[w])
    BY <1>2, <1>8 DEF NotesAsking
  <2>2. w \in In(k)
    BY <1>3, <1>8
  <2>3. Logged("COMMIT_REQ", table[k].tid)
    BY <2>1, <2>2 DEF Order
  <2>4. QED
    BY <2>3 DEF Logged
<1>9. Order(w)'
  BY <1>2, <1>7, <1>8 DEF Order
<1>10. QED
  BY <1>6, <1>9

\* Worker u does nothing, and at most one datagram of it is read.
Idle(u) ==
  /\ wlog'[u] = wlog[u] /\ obj'[u] = obj[u] /\ known'[u] = known[u] /\ mem'[u] = mem[u]
  /\ joinedAt'[u] = joinedAt[u] /\ left'[u] = left[u]
  /\ Shrunk(toM'[u], toM[u])

(* It says nothing either.                                                       *)
LEMMA IdleSays ==
  ASSUME SystemTypeOK, NEW u \in Worker, Entry(u), Idle(u)
  PROVE  Says(u) /\ NotesAsking(u) /\ (Asked(u)' <=> Asked(u))
         /\ Range(toM'[u]) \subseteq Range(toM[u]) /\ (Silent(u) => Silent(u)')
<1>1. toM[u] \in Seq(ToManager)
  BY DEF SystemTypeOK
<1>2. Range(toM'[u]) \subseteq Range(toM[u]) /\ LastWord(toM'[u])
  BY <1>1, ShrunkKeeps DEF Entry, Idle
<1>3. left'[u] = left[u]
  BY DEF Idle
<1>4. (Fresh(u)' => Fresh(u)) /\ (Asking(u)' => Asking(u))
  BY <1>2, <1>3 DEF Fresh, Asking
<1>5. Asked(u)' <=> Asked(u)
  BY DEF Asked, Idle
<1>6. Silent(u) => Silent(u)'
  BY <1>2 DEF Silent, Idle
<1>7. QED
  BY <1>2, <1>3, <1>4, <1>5, <1>6 DEF Says, Entry, NotesAsking

\* What w posts in a step.
Posts(w) ==
  /\ toM'[w] = <<>> \/ toM'[w] = toM[w] \o posted'
  /\ left'[w]["JOINTX"] \in Nat /\ left'[w]["JOINTX"] <= left[w]["JOINTX"]
  /\ \/ posted' = <<>>
     \/ \E m \in ToManager :
          /\ posted' = <<m>>
          /\ m.kind \in Request => left[w]["JOINTX"] > 0
          /\ m.kind = "JOINTX" => left'[w]["JOINTX"] < left[w]["JOINTX"]

\* A worker that waits to be let in stays silent.
StaysSilent(w) ==
  (Fresh(w) \/ "JOIN_SUCCESS" \in Kinds(toW'[w])) /\ Silent(w) =>
    /\ ~mem'[w].peer /\ ~known'[w]
    /\ \A i \in DOMAIN posted' : posted'[i].kind \notin Followup

(* A worker says that it joins at the end, and says so once.                     *)
LEMMA PostsSays ==
  ASSUME SystemTypeOK, NEW w \in Worker, Entry(w), Posts(w), StaysSilent(w)
  PROVE  Says(w)
<1>1. toM[w] \in Seq(ToManager) /\ left[w]["JOINTX"] \in Nat
  BY DEF SystemTypeOK, WorkerTypeOK, Command
<1>2. left[w]["JOINTX"] <= 1 /\ left'[w]["JOINTX"] <= 1
  BY <1>1 DEF Entry, Posts
<1>3. ASSUME Asking(w) PROVE left'[w]["JOINTX"] = 0
  BY <1>1, <1>3 DEF Entry, Posts
<1>4. CASE toM'[w] = <<>>
  <2>1. Range(toM'[w]) = {} /\ DOMAIN toM'[w] = {}
    BY <1>4, RangeEmpty
  <2>2. Fresh(w)' => Fresh(w)
    BY <1>1, <2>1 DEF Fresh, Posts
  <2>3. Awaits(w)' /\ Silent(w) => Silent(w)'
    BY <2>1, <2>2 DEF StaysSilent, Silent, Awaits
  <2>4. QED
    BY <1>2, <2>1, <2>2, <2>3 DEF Says, Asking, LastWord
<1>5. CASE toM'[w] = toM[w]
  <2>1. Fresh(w)' => Fresh(w)
    BY <1>1, <1>5 DEF Fresh, Posts
  <2>2. Asking(w)' => Asking(w)
    BY <1>5 DEF Asking
  <2>3. Awaits(w)' /\ Silent(w) => Silent(w)'
    BY <1>5, <2>1 DEF StaysSilent, Silent, Awaits
  <2>4. QED
    BY <1>2, <1>3, <1>5, <2>1, <2>2, <2>3 DEF Says, Entry
<1>6. ASSUME NEW m \in ToManager, posted' = <<m>>, toM'[w] = toM[w] \o <<m>>,
             m.kind \in Request => left[w]["JOINTX"] > 0,
             m.kind = "JOINTX" => left'[w]["JOINTX"] < left[w]["JOINTX"]
      PROVE  Says(w)
  <2>1. Range(toM'[w]) = Range(toM[w]) \cup {m}
    BY <1>1, <1>6, SentToManager
  <2>2. m.kind \in Request => "JOINTX" \notin Kinds(toM[w])
    BY <1>1, <1>6 DEF Entry, Asking, Kinds
  <2>3. LastWord(toM'[w])
    BY <1>1, <1>6, <2>2, SaidLast DEF Entry
  <2>4. Fresh(w)' => Fresh(w)
    BY <1>1, <1>6, <2>1 DEF Fresh, Posts
  <2>5. Asking(w)' => left'[w]["JOINTX"] = 0
    <3>1. m.kind = "JOINTX" => left'[w]["JOINTX"] = 0
      BY <1>1, <1>2, <1>6 DEF Posts
    <3>2. QED
      BY <1>3, <2>1, <3>1 DEF Asking
  <2>6. Awaits(w)' /\ Silent(w) => Silent(w)'
    <3>1. posted'[1] = m /\ 1 \in DOMAIN posted'
      BY <1>6
    <3>2. QED
      BY <2>1, <2>4, <3>1 DEF StaysSilent, Silent, Awaits
  <2>7. QED
    BY <1>2, <2>3, <2>4, <2>5, <2>6 DEF Says
<1>7. QED
  <2>1. toM[w] \o <<>> = toM[w]
    BY <1>1
  <2>2. QED
    BY <1>4, <1>5, <1>6, <2>1 DEF Posts

(* One more record says that the worker was asked if it is that record.          *)
LEMMA AskedRecord ==
  ASSUME WorkerTypeOK, NEW w \in Worker, NEW r \in WorkerRecord, wlog'[w] = Append(wlog[w], r)
  PROVE  Asked(w)' <=> Asked(w) \/ r.kind = "PREPARE_COMMIT"
<1>1. wlog[w] \in Seq(WorkerRecord)
  BY DEF WorkerTypeOK
<1>2. /\ DOMAIN wlog[w] = 1..Len(wlog[w]) /\ Len(wlog[w]) \in Nat
      /\ DOMAIN wlog'[w] = 1..(Len(wlog[w]) + 1)
      /\ \A i \in 1..Len(wlog[w]) : wlog'[w][i] = wlog[w][i]
      /\ wlog'[w][Len(wlog[w]) + 1] = r
  BY <1>1
<1>3. /\ \A i \in 1..(Len(wlog[w]) + 1) : i \in 1..Len(wlog[w]) \/ i = Len(wlog[w]) + 1
      /\ \A i \in 1..Len(wlog[w]) : i \in 1..(Len(wlog[w]) + 1)
      /\ Len(wlog[w]) + 1 \in 1..(Len(wlog[w]) + 1)
  BY <1>2
<1>4. QED
  BY <1>2, <1>3 DEF Asked

\* What a step of w does that posts, records and remembers no more than it may.
Modest(w) ==
  /\ left'[w]["JOINTX"] \in Nat /\ left'[w]["JOINTX"] <= left[w]["JOINTX"]
  /\ \A i \in DOMAIN posted' :
       posted'[i].kind = "JOINTX" => left'[w]["JOINTX"] < left[w]["JOINTX"]
  /\ StaysSilent(w)
  /\ NotesAsking(w)

(* A command takes its toll on the budget it is from.                            *)
LEMMA AskSpends ==
  ASSUME WorkerTypeOK, NEW w \in Worker, NEW command \in Command, Ask(w, command)
  PROVE  /\ left'[w]["JOINTX"] \in Nat /\ left'[w]["JOINTX"] <= left[w]["JOINTX"]
         /\ command = "JOINTX" => left'[w]["JOINTX"] < left[w]["JOINTX"]
<1>1. left \in [Worker -> [Command -> Nat]] /\ "JOINTX" \in Command
  BY DEF WorkerTypeOK, Command
<1>2. left[w][command] \in Nat /\ left[w]["JOINTX"] \in Nat /\ left[w][command] > 0
  BY <1>1 DEF Ask
<1>3. left'[w]["JOINTX"] = IF command = "JOINTX" THEN left[w]["JOINTX"] - 1 ELSE left[w]["JOINTX"]
  BY <1>1 DEF Ask
<1>4. QED
  BY <1>2, <1>3

(* What a worker's own send posts, and leaves in memory.                         *)
LEMMA SendModest ==
  ASSUME WorkerTypeOK, NEW w \in Worker, NEW m, NEW next, SendThen(w, m, next)
  PROVE  /\ \A i \in DOMAIN posted' : posted'[i] = m
         /\ mem'[w] = next \/ mem'[w] = Dead
         /\ Dead.peer = FALSE
BY DEF SendThen, WorkerTypeOK, Dead, Booted

(* So a command does not make a worker hear, nor say that it was asked.          *)
LEMMA CommandModest ==
  ASSUME WorkerTypeOK, WorkerTypeOK', NEW w \in Worker, CmdAny(w)
  PROVE  Modest(w)
<1>1. ASSUME NEW command \in Command, Ask(w, command),
             wlog'[w] = wlog[w] \/ \E r \in WorkerRecord : /\ wlog'[w] = Append(wlog[w], r)
                                                        /\ r.kind # "PREPARE_COMMIT",
             \A i \in DOMAIN posted' : /\ posted'[i].kind = "JOINTX" => command = "JOINTX"
                                       /\ posted'[i].kind \notin Followup,
             mem'[w].peer => mem[w].peer, known' = known
      PROVE  Modest(w)
  <2>1. Asked(w)' => Asked(w)
    <3>1. CASE wlog'[w] = wlog[w]
      BY <3>1 DEF Asked
    <3>2. ASSUME NEW r \in WorkerRecord, wlog'[w] = Append(wlog[w], r), r.kind # "PREPARE_COMMIT"
          PROVE  Asked(w)' => Asked(w)
      BY <3>2, AskedRecord
    <3>3. QED
      BY <1>1, <3>1, <3>2
  <2>2. StaysSilent(w)
    BY <1>1 DEF StaysSilent, Silent
  <2>3. QED
    BY <1>1, <2>1, <2>2, AskSpends DEF Modest, NotesAsking
<1>2. posted' = <<>> => DOMAIN posted' = {}
  OBVIOUS
<1>3. mem[w] \in Memory /\ mem \in [Worker -> Memory] /\ wlog \in [Worker -> Seq(WorkerRecord)]
  BY DEF WorkerTypeOK
<1>4. ASSUME NEW t \in Tid, CmdBegin(w, t) \/ CmdJoin(w, t) PROVE Modest(w)
  <2> DEFINE next == [mem[w] EXCEPT !.addr = TRUE]
  <2>1. PICK kind \in {"BEGINTX", "JOINTX"} :
          /\ Ask(w, kind) /\ SendThen(w, ToMgr(w, kind, t, FALSE), next)
          /\ UNCHANGED <<wlog, known>>
    BY <1>4 DEF CmdBegin, CmdJoin
  <2>2. next.peer = mem[w].peer
    BY <1>3 DEF Memory
  <2> DEFINE m == ToMgr(w, kind, t, FALSE)
  <2>3. m.kind = kind
    BY DEF ToMgr
  <2> HIDE DEF m, next
  <2>4. SendThen(w, m, next)
    BY <2>1 DEF m
  <2>5. (\A i \in DOMAIN posted' : posted'[i].kind = kind) /\ (mem'[w].peer => mem[w].peer)
    BY <2>2, <2>3, <2>4, SendModest
  <2>6. kind \in Command /\ kind \notin Followup
    BY DEF Command, Followup, Ballot
  <2>7. QED
    BY <1>1, <2>1, <2>5, <2>6
<1>5. ASSUME NEW f \in Field, NEW v \in Value, CmdUpdate(w, f, v) PROVE Modest(w)
  <2> DEFINE r == [kind |-> "NEW_VALUE", tid |-> mem[w].curTid, field |-> f, old |-> obj[w][f]]
  <2>1. r \in WorkerRecord /\ r.kind # "PREPARE_COMMIT"
    BY <1>3 DEF WorkerRecord, WorkerTypeOK, Data, Memory
  <2>2. wlog'[w] = wlog[w] \/ wlog'[w] = Append(wlog[w], r)
    BY <1>3, <1>5 DEF CmdUpdate, Write
  <2>3. Ask(w, "NEW_VALUE") /\ posted' = <<>> /\ mem'[w] = mem[w] /\ known' = known
    BY <1>3, <1>5 DEF CmdUpdate, Quiet
  <2>4. "NEW_VALUE" \in Command
    BY DEF Command
  <2> HIDE DEF r
  <2>5. QED
    BY <1>1, <1>2, <2>1, <2>2, <2>3, <2>4
<1>6. CASE (\E d \in Delay : CmdDelay(w, d)) \/ CmdCrash(w) \/ CmdVoteAbort(w)
  <2>1. PICK command \in {"DELAY", "CRASH_AFTER", "CRASH_BEFORE", "CRASH", "VOTE_ABORT"} :
          Ask(w, command)
    BY <1>6 DEF CmdDelay, CmdCrash, CmdVoteAbort, Delay
  <2>2. posted' = <<>> /\ known' = known /\ wlog' = wlog
    BY <1>6 DEF CmdDelay, CmdCrash, CmdVoteAbort, Quiet
  <2>3. mem'[w].peer => mem[w].peer
    <3>1. ASSUME NEW d \in Delay, CmdDelay(w, d) PROVE mem'[w].peer = mem[w].peer
      BY <1>3, <3>1 DEF CmdDelay, Quiet, Memory
    <3>2. CASE CmdCrash(w)
      <4>1. mem'[w] = Dead
        BY <1>3, <3>2 DEF CmdCrash, Quiet
      <4>2. QED
        BY <4>1 DEF Dead, Booted
    <3>3. ASSUME CmdVoteAbort(w) PROVE mem'[w].peer = mem[w].peer
      BY <1>3, <3>3 DEF CmdVoteAbort, Quiet, Memory
    <3>4. QED
      BY <1>6, <3>1, <3>2, <3>3
  <2>4. command \in Command
    BY DEF Command
  <2>5. QED
    BY <1>1, <1>2, <2>1, <2>2, <2>3, <2>4
<1>7. ASSUME NEW kind \in {"COMMIT", "COMMIT_CRASH"}, CmdCommit(w, kind) PROVE Modest(w)
  <2> DEFINE m == ToMgr(w, "COMMIT", mem[w].curTid, FALSE)
             next == [mem[w] EXCEPT !.isCrash = (kind = "COMMIT_CRASH")]
  <2>1. Ask(w, kind) /\ known' = known /\ wlog'[w] = Append(wlog[w], Rec(kind, mem[w].curTid))
    BY <1>3, <1>7 DEF CmdCommit, Write
  <2>2. SendThen(w, m, next) \/ Quiet(w, next) \/ Quiet(w, Dead)
    BY <1>7 DEF CmdCommit
  <2>3. next.peer = mem[w].peer
    BY <1>3 DEF Memory
  <2>4. m.kind = "COMMIT"
    BY DEF ToMgr
  <2>5. Rec(kind, mem[w].curTid) \in WorkerRecord /\ Rec(kind, mem[w].curTid).kind # "PREPARE_COMMIT"
    BY <1>3, RecType DEF RecordTag, Memory, Rec
  <2>6. kind \in Command
    BY DEF Command
  <2> HIDE DEF next, m
  <2>7. ASSUME SendThen(w, m, next)
        PROVE  (\A i \in DOMAIN posted' : posted'[i].kind = "COMMIT") /\ (mem'[w].peer => mem[w].peer)
    BY <2>3, <2>4, <2>7, SendModest
  <2>8. ASSUME Quiet(w, next) \/ Quiet(w, Dead)
        PROVE  (\A i \in DOMAIN posted' : posted'[i].kind = "COMMIT") /\ (mem'[w].peer => mem[w].peer)
    BY <1>2, <1>3, <2>3, <2>8 DEF Quiet, Dead, Booted
  <2>9. \A i \in DOMAIN posted' : posted'[i].kind # "JOINTX" /\ posted'[i].kind \notin Followup
    BY <2>2, <2>7, <2>8 DEF Followup, Ballot
  <2>10. QED
    BY <1>1, <2>1, <2>2, <2>5, <2>6, <2>7, <2>8, <2>9
<1>8. ASSUME NEW kind \in {"ABORT", "ABORT_CRASH"}, CmdAbort(w, kind) PROVE Modest(w)
  <2>1. /\ Ask(w, kind) /\ known' = known /\ posted' = <<>>
        /\ wlog'[w] = Append(wlog[w], Rec("ABORT", mem[w].curTid))
        /\ mem'[w] = [mem[w] EXCEPT !.isCrash = (kind = "ABORT_CRASH")]
    BY <1>3, <1>8 DEF CmdAbort, Write, Quiet
  <2>2. mem'[w].peer = mem[w].peer
    BY <1>3, <2>1 DEF Memory
  <2>3. /\ Rec("ABORT", mem[w].curTid) \in WorkerRecord
        /\ Rec("ABORT", mem[w].curTid).kind # "PREPARE_COMMIT"
    BY <1>3, RecType DEF RecordTag, Memory, Rec
  <2>4. kind \in Command
    BY DEF Command
  <2>5. QED
    BY <1>1, <1>2, <2>1, <2>2, <2>3, <2>4
<1>9. QED
  BY <1>4, <1>5, <1>6, <1>7, <1>8 DEF CmdAny

(* Before it is let in, a worker reads answers to its BEGINTX only.              *)
LEMMA HeardFirst ==
  ASSUME NEW w \in Worker, toW[w] \in Seq(ToWorker), toW[w] # <<>>, Entry(w), Order(w),
         Kinds(toW'[w]) \subseteq Kinds(Tail(toW[w])),
         Fresh(w) \/ "JOIN_SUCCESS" \in Kinds(toW'[w])
  PROVE  Head(toW[w]).kind \in BeginAnswer
<1>1. Head(toW[w]).kind \in Kinds(toW[w])
  BY RangeRead DEF Kinds
<1>2. CASE Fresh(w)
  BY <1>1, <1>2 DEF Entry
<1>3. CASE "JOIN_SUCCESS" \in Kinds(toW'[w])
  BY <1>3, ReadInOrder DEF Order
<1>4. QED
  BY <1>2, <1>3

(* A worker that reads a request to prepare says so; the answer to a BEGINTX     *)
(* changes nothing.                                                              *)
LEMMA ReceiveModest ==
  ASSUME SystemTypeOK, WorkerTypeOK', NEW w \in Worker, Entry(w), Order(w), toW[w] # <<>>,
         NEW m, m = Head(toW[w]), WorkerReceive(w, m), toW'[w] \in {<<>>, Tail(toW[w])}
  PROVE  Modest(w)
<1>1. toW[w] \in Seq(ToWorker) /\ WorkerTypeOK
  BY DEF SystemTypeOK
<1>2. m \in Range(toW[w]) /\ m \in ToWorker /\ m.kind \in Kinds(toW[w])
  BY <1>1, RangeRead DEF Kinds
<1>3. /\ left'[w]["JOINTX"] \in Nat /\ left'[w]["JOINTX"] <= left[w]["JOINTX"]
  <2>1. left' = left
    BY DEF WorkerReceive, RecvJoinReply, RecvPrepare, RecvDecision, RecvOther
  <2>2. left[w]["JOINTX"] \in Nat
    BY <1>1 DEF WorkerTypeOK, Command
  <2>3. QED
    BY <2>1, <2>2
<1>4. Kinds(toW'[w]) \subseteq Kinds(Tail(toW[w]))
  BY RangeEmpty DEF Kinds
<1>5. posted' = <<>> => DOMAIN posted' = {}
  OBVIOUS
<1>6. mem[w] \in Memory /\ mem \in [Worker -> Memory] /\ wlog \in [Worker -> Seq(WorkerRecord)]
  BY <1>1 DEF WorkerTypeOK
<1>7. Fresh(w) \/ "JOIN_SUCCESS" \in Kinds(toW'[w]) => m.kind \in BeginAnswer
  BY <1>1, <1>4, HeardFirst
<1>8. StaysSilent(w)
  <2>1. ASSUME m.kind \in BeginAnswer, Silent(w)
        PROVE  ~mem'[w].peer /\ ~known'[w] /\ posted' = <<>>
    <3>1. RecvOther(w, m)
      BY <2>1 DEF WorkerReceive, RecvJoinReply, RecvPrepare, RecvDecision, BeginAnswer
    <3>2. mem'[w] = [mem[w] EXCEPT !.pc = "loop"] /\ known' = known /\ posted' = <<>>
      BY <1>6, <3>1 DEF RecvOther, Quiet
    <3>3. mem'[w].peer = mem[w].peer
      BY <1>6, <3>2 DEF Memory
    <3>4. QED
      BY <2>1, <3>2, <3>3 DEF Silent
  <2>2. QED
    BY <1>5, <1>7, <2>1 DEF StaysSilent
<1>9. \A i \in DOMAIN posted' : posted'[i].kind # "JOINTX"
  <2>1. CASE RecvPrepare(w, m)
    <3>1. PICK ballot \in Ballot : \E next : SendThen(w, ToMgr(w, ballot, m.tid, mem[w].isCrash), next)
      BY <2>1 DEF RecvPrepare, Ballot
    <3>2. \A i \in DOMAIN posted' : posted'[i].kind = ballot
      BY <3>1 DEF SendThen, ToMgr
    <3>3. QED
      BY <3>2 DEF Ballot
  <2>2. CASE ~RecvPrepare(w, m)
    <3>1. posted' = <<>>
      BY <2>2 DEF WorkerReceive, RecvJoinReply, RecvDecision, RecvOther, Quiet
    <3>2. QED
      BY <1>5, <3>1
  <2>3. QED
    BY <2>1, <2>2
<1>10. NotesAsking(w)
  <2>1. CASE RecvPrepare(w, m)
    <3>1. m.kind = "PREPARE_COMMIT"
      BY <2>1 DEF RecvPrepare
    <3>2. Kinds(Tail(toW[w])) \subseteq Decision
      BY <1>1, <3>1, ReadInOrder DEF Order
    <3>3. QED
      BY <1>2, <1>4, <3>1, <3>2 DEF NotesAsking
  <2>2. CASE RecvOther(w, m)
    BY <2>2 DEF RecvOther, Asked, NotesAsking
  <2>3. ASSUME NEW kind \in {"JOINTX", "DECIDE_COMMIT", "DECIDE_ABORT"}, Write(w, Rec(kind, m.tid))
        PROVE  NotesAsking(w)
    <3>1. wlog'[w] = Append(wlog[w], Rec(kind, m.tid))
      BY <1>6, <2>3 DEF Write
    <3>2. Rec(kind, m.tid) \in WorkerRecord /\ Rec(kind, m.tid).kind # "PREPARE_COMMIT"
      <4>1. kind \in RecordTag /\ m.tid \in AnyTid
        BY <1>2 DEF RecordTag, ToWorker
      <4>2. QED
        BY <4>1, RecType DEF Rec
    <3>3. QED
      BY <1>1, <3>1, <3>2, AskedRecord DEF NotesAsking
  <2>4. QED
    BY <2>1, <2>2, <2>3 DEF WorkerReceive, RecvJoinReply, RecvDecision
<1>11. QED
  BY <1>3, <1>8, <1>9, <1>10 DEF Modest

(* A worker polls the manager it knows.                                          *)
LEMMA PollModest ==
  ASSUME WorkerTypeOK, NEW w \in Worker, Poll(w)
  PROVE  Modest(w)
<1>1. /\ left' = left /\ wlog' = wlog /\ known' = known /\ mem[w] \in Memory
      /\ left[w]["JOINTX"] \in Nat
  BY DEF Poll, WorkerTypeOK, Command
<1>2. NotesAsking(w)
  BY <1>1 DEF NotesAsking, Asked
<1>3. CASE mem[w].peer
  <2> DEFINE m == ToMgr(w, "POLL_DECISION", mem[w].curTid, mem[w].isCrash)
  <2>1. SendThen(w, m, mem[w])
    BY <1>3 DEF Poll
  <2>2. m.kind = "POLL_DECISION"
    BY DEF ToMgr
  <2> HIDE DEF m
  <2>3. \A i \in DOMAIN posted' : posted'[i].kind # "JOINTX"
    BY <2>1, <2>2, SendModest
  <2>4. StaysSilent(w)
    BY <1>3 DEF StaysSilent, Silent
  <2>5. QED
    BY <1>1, <1>2, <2>3, <2>4 DEF Modest
<1>4. CASE ~mem[w].peer
  <2>1. posted' = <<>> /\ mem'[w] = mem[w] /\ DOMAIN posted' = {}
    BY <1>4 DEF Poll, Quiet, WorkerTypeOK
  <2>2. QED
    BY <1>1, <1>2, <2>1 DEF Modest, StaysSilent, Silent
<1>5. QED
  BY <1>3, <1>4

(* A restarted worker knows the manager it knew.                                 *)
LEMMA RestartModest ==
  ASSUME WorkerTypeOK, NEW w \in Worker, WorkerRestart(w)
  PROVE  Modest(w)
<1>1. /\ left' = left /\ known' = known /\ posted' = <<>> /\ DOMAIN posted' = {}
      /\ left[w]["JOINTX"] \in Nat /\ known[w] \in BOOLEAN
  BY DEF WorkerRestart, WorkerTypeOK, Command, Quiet
<1>2. LastRecord(w).tid \in AnyTid
  BY LastRecordType
<1>3. mem'[w].peer => known[w]
  BY DEF WorkerRestart, WorkerTypeOK, Quiet, Booted
<1>4. NotesAsking(w)
  <2>1. CASE wlog' = wlog
    BY <2>1 DEF NotesAsking, Asked
  <2>2. CASE Write(w, Rec("ABORT", LastRecord(w).tid))
    <3>1. wlog'[w] = Append(wlog[w], Rec("ABORT", LastRecord(w).tid))
      BY <2>2 DEF Write, WorkerTypeOK
    <3>2. Rec("ABORT", LastRecord(w).tid) \in WorkerRecord
          /\ Rec("ABORT", LastRecord(w).tid).kind # "PREPARE_COMMIT"
      BY <1>2, RecType DEF RecordTag, Rec
    <3>3. QED
      BY <3>1, <3>2, AskedRecord DEF NotesAsking
  <2>3. QED
    BY <2>1, <2>2 DEF WorkerRestart
<1>5. QED
  BY <1>1, <1>3, <1>4 DEF Modest, StaysSilent, Silent

-------------------------------------------------------------------------------
\* A commit is requested once

(* The requests left in a buffer were in it, each at its place.                  *)
LEMMA ShrunkCommits ==
  ASSUME NEW q \in Seq(ToManager), NEW p, Shrunk(p, q), NEW t
  PROVE  \E s \in {0, 1} : \A i \in CommitsOf(p, t) : i \in Int /\ i + s \in CommitsOf(q, t)
<1>1. CASE p = q
  <2>1. \A i \in DOMAIN q : i \in Int /\ i + 0 = i
    OBVIOUS
  <2>2. \A i \in CommitsOf(p, t) : i \in Int /\ i + 0 \in CommitsOf(q, t)
    BY <1>1, <2>1 DEF CommitsOf
  <2>3. QED
    BY <2>2
<1>2. CASE p = <<>>
  <2>1. CommitsOf(p, t) = {}
    BY <1>2 DEF CommitsOf
  <2>2. QED
    BY <2>1
<1>3. CASE q # <<>> /\ p = Tail(q)
  <2>1. \A i \in DOMAIN p : i \in Int /\ i + 1 \in DOMAIN q /\ p[i] = q[i + 1]
    BY <1>3, TailPlaces
  <2>2. \A i \in CommitsOf(p, t) : i \in Int /\ i + 1 \in CommitsOf(q, t)
    BY <2>1 DEF CommitsOf
  <2>3. QED
    BY <2>2
<1>4. QED
  BY <1>1, <1>2, <1>3 DEF Shrunk

(* Requests that are under way are those of datagrams in the buffers.            *)
LEMMA PendingCommits ==
  ASSUME NEW t
  PROVE  Pending(t) <=> \E u \in Worker : CommitsOf(toM[u], t) # {}
BY DEF Pending, CommitsOf, Range

(* Reading and losing requests does not make two of one.                         *)
LEMMA RequestedKept ==
  ASSUME SystemTypeOK, RequestedOnce, \A u \in Worker : Shrunk(toM'[u], toM[u]),
         NEW t \in Tid, Pending(t)' => ~Logged("COMMIT_REQ", t)'
                        \/ (Logged("COMMIT_REQ", t)' => Logged("COMMIT_REQ", t))
  PROVE  /\ Pending(t)' => ~Logged("COMMIT_REQ", t)'
         /\ \A u, w \in Worker : \A i \in CommitsOf(toM[u], t)', j \in CommitsOf(toM[w], t)' :
              u = w /\ i = j
<1>1. ASSUME NEW u \in Worker
      PROVE  \E s \in {0, 1} : \A i \in CommitsOf(toM'[u], t) :
               i \in Int /\ i + s \in CommitsOf(toM[u], t)
  BY ShrunkCommits DEF SystemTypeOK
<1>2. ASSUME Pending(t)' PROVE Pending(t)
  <2>1. PICK u \in Worker : CommitsOf(toM'[u], t) # {}
    BY <1>2 DEF Pending, CommitsOf, Range
  <2>2. CommitsOf(toM[u], t) # {}
    BY <1>1, <2>1
  <2>3. QED
    BY <2>2, PendingCommits
<1>3. Pending(t)' => ~Logged("COMMIT_REQ", t)'
  BY <1>2 DEF RequestedOnce
<1>4. ASSUME NEW u \in Worker, NEW w \in Worker,
             NEW i \in CommitsOf(toM'[u], t), NEW j \in CommitsOf(toM'[w], t)
      PROVE  u = w /\ i = j
  <2>1. PICK s \in {0, 1} : \A h \in CommitsOf(toM'[u], t) :
            h \in Int /\ h + s \in CommitsOf(toM[u], t)
    BY <1>1
  <2>2. PICK r \in {0, 1} : \A h \in CommitsOf(toM'[w], t) :
            h \in Int /\ h + r \in CommitsOf(toM[w], t)
    BY <1>1
  <2>3. i \in Int /\ j \in Int /\ u = w /\ i + s = j + r
    BY <1>4, <2>1, <2>2 DEF RequestedOnce
  <2>4. i + s = j + s
    <3>1. i + s \in CommitsOf(toM[u], t) /\ j + s \in CommitsOf(toM[u], t)
      BY <2>1, <2>3, <1>4
    <3>2. QED
      BY <3>1 DEF RequestedOnce
  <2>5. QED
    BY <2>3, <2>4
<1>5. QED
  BY <1>3, <1>4 DEF CommitsOf

(* Nor does asking for what was not asked for.                                   *)
LEMMA RequestedPosted ==
  ASSUME SystemTypeOK, RequestedOnce, NEW w \in Worker, NEW m \in ToManager,
         toM'[w] = toM[w] \o <<m>>, \A u \in Worker \ {w} : Shrunk(toM'[u], toM[u]),
         m.kind = "COMMIT" => ~Pending(m.tid) /\ ~Logged("COMMIT_REQ", m.tid),
         mlog' = mlog
  PROVE  RequestedOnce'
<1>1. toM[w] \in Seq(ToManager) /\ <<m>> \in Seq(ToManager)
  BY DEF SystemTypeOK
<1> DEFINE n == Len(toM[w]) + 1
<1>2. /\ DOMAIN toM[w] = 1..Len(toM[w]) /\ DOMAIN toM'[w] = 1..n /\ n \in Nat
      /\ \A i \in DOMAIN toM[w] : toM'[w][i] = toM[w][i]
      /\ toM'[w][n] = m
  BY <1>1
<1>3. \A i \in DOMAIN toM'[w] : i \in DOMAIN toM[w] \/ i = n
  BY <1>1, <1>2
<1> HIDE DEF n
<1>4. ASSUME NEW t, ~(m.kind = "COMMIT" /\ m.tid = t)
      PROVE  CommitsOf(toM'[w], t) \subseteq CommitsOf(toM[w], t)
  BY <1>2, <1>3, <1>4 DEF CommitsOf
<1>5. ASSUME NEW u \in Worker \ {w}, NEW t
      PROVE  \E s \in {0, 1} : \A i \in CommitsOf(toM'[u], t) :
               i \in Int /\ i + s \in CommitsOf(toM[u], t)
  BY ShrunkCommits DEF SystemTypeOK
<1>6. \A t : Logged("COMMIT_REQ", t)' <=> Logged("COMMIT_REQ", t)
  BY DEF Logged
<1>7. ASSUME NEW t \in Tid, m.kind = "COMMIT" /\ m.tid = t
      PROVE  /\ ~Logged("COMMIT_REQ", t)'
             /\ \A u \in Worker : CommitsOf(toM'[u], t) \subseteq (IF u = w THEN {n} ELSE {})
  <2>1. ~Pending(t) /\ ~Logged("COMMIT_REQ", t)
    BY <1>7
  <2>2. \A u \in Worker : CommitsOf(toM[u], t) = {}
    BY <2>1, PendingCommits
  <2>3. \A u \in Worker \ {w} : CommitsOf(toM'[u], t) = {}
    BY <1>5, <2>2
  <2>4. CommitsOf(toM'[w], t) \subseteq {n}
    BY <1>2, <1>3, <2>2 DEF CommitsOf
  <2>5. QED
    BY <1>6, <2>1, <2>3, <2>4
<1>8. ASSUME NEW t \in Tid, ~(m.kind = "COMMIT" /\ m.tid = t)
      PROVE  \A u \in Worker : \E s \in {0, 1} : \A i \in CommitsOf(toM'[u], t) :
               i \in Int /\ i + s \in CommitsOf(toM[u], t)
  <2>1. \A i \in DOMAIN toM[w] : i \in Int /\ i + 0 = i
    BY <1>1
  <2>2. \A i \in CommitsOf(toM'[w], t) : i \in Int /\ i + 0 \in CommitsOf(toM[w], t)
    BY <1>4, <1>8, <2>1 DEF CommitsOf
  <2>3. QED
    BY <1>5, <2>2
<1>9. ASSUME NEW t \in Tid PROVE Pending(t)' => ~Logged("COMMIT_REQ", t)'
  <2>1. CASE m.kind = "COMMIT" /\ m.tid = t
    BY <1>7, <2>1
  <2>2. CASE ~(m.kind = "COMMIT" /\ m.tid = t)
    <3>1. ASSUME Pending(t)' PROVE Pending(t)
      <4>1. PICK u \in Worker : CommitsOf(toM'[u], t) # {}
        BY <3>1 DEF Pending, CommitsOf, Range
      <4>2. CommitsOf(toM[u], t) # {}
        BY <1>8, <2>2, <4>1
      <4>3. QED
        BY <4>2, PendingCommits
    <3>2. QED
      BY <1>6, <3>1 DEF RequestedOnce
  <2>3. QED
    BY <2>1, <2>2
<1>10. ASSUME NEW t \in Tid, NEW u \in Worker, NEW v \in Worker,
              NEW i \in CommitsOf(toM'[u], t), NEW j \in CommitsOf(toM'[v], t)
       PROVE  u = v /\ i = j
  <2>1. CASE m.kind = "COMMIT" /\ m.tid = t
    BY <1>7, <1>10, <2>1
  <2>2. CASE ~(m.kind = "COMMIT" /\ m.tid = t)
    <3>1. PICK s \in {0, 1} : \A h \in CommitsOf(toM'[u], t) :
            h \in Int /\ h + s \in CommitsOf(toM[u], t)
      BY <1>8, <2>2
    <3>2. PICK r \in {0, 1} : \A h \in CommitsOf(toM'[v], t) :
            h \in Int /\ h + r \in CommitsOf(toM[v], t)
      BY <1>8, <2>2
    <3>3. u = v /\ i \in Int /\ j \in Int
      BY <1>10, <3>1, <3>2 DEF RequestedOnce
    <3>4. i + s = j + s
      <4>1. i + s \in CommitsOf(toM[u], t) /\ j + s \in CommitsOf(toM[u], t)
        BY <1>10, <3>1, <3>3
      <4>2. \A h, g \in CommitsOf(toM[u], t) : h = g
        BY DEF RequestedOnce
      <4>3. QED
        BY <4>1, <4>2
    <3>5. QED
      BY <3>3, <3>4
  <2>3. QED
    BY <2>1, <2>2
<1>11. QED
  BY <1>9, <1>10 DEF RequestedOnce, CommitsOf

-------------------------------------------------------------------------------
\* Steps of a worker and losses

\* Worker u's state is what it was.
Rests(u) ==
  /\ wlog'[u] = wlog[u] /\ obj'[u] = obj[u] /\ known'[u] = known[u] /\ mem'[u] = mem[u]
  /\ joinedAt'[u] = joinedAt[u] /\ left'[u] = left[u]

(* What a worker does changes its own state only.                                *)
LEMMA OthersRest ==
  ASSUME WorkerTypeOK, NEW w \in Worker, NEW m,
         CmdAny(w) \/ WorkerReceive(w, m) \/ Poll(w) \/ WorkerRestart(w), NEW u \in Worker \ {w}
  PROVE  Rests(u)
<1>1. ASSUME CmdAny(w) PROVE Rests(u)
  <2>1. obj'[u] = obj[u] /\ known'[u] = known[u]
    BY <1>1 DEF CmdAny, CmdBegin, CmdJoin, CmdUpdate, CmdDelay, CmdCrash, CmdCommit, CmdAbort,
                CmdVoteAbort, WorkerTypeOK
  <2>2. QED
    BY <1>1, <2>1, CommandAlone DEF Rests
<1>2. ASSUME RecvJoinReply(w, m) PROVE Rests(u)
  BY <1>2 DEF RecvJoinReply, Quiet, Write, WorkerTypeOK, Rests
<1>3. ASSUME RecvPrepare(w, m) PROVE Rests(u)
  BY <1>3 DEF RecvPrepare, SendThen, WorkerTypeOK, Rests
<1>4. ASSUME RecvDecision(w, m) PROVE Rests(u)
  BY <1>4 DEF RecvDecision, Quiet, Write, WorkerTypeOK, Rests
<1>5. ASSUME RecvOther(w, m) PROVE Rests(u)
  BY <1>5 DEF RecvOther, Quiet, WorkerTypeOK, Rests
<1>6. ASSUME Poll(w) PROVE Rests(u)
  BY <1>6 DEF Poll, SendThen, Quiet, WorkerTypeOK, Rests
<1>7. ASSUME WorkerRestart(w) PROVE Rests(u)
  BY <1>7 DEF WorkerRestart, Quiet, Write, WorkerTypeOK, Rests
<1>8. QED
  BY <1>1, <1>2, <1>3, <1>4, <1>5, <1>6, <1>7 DEF WorkerReceive

(* Its datagram is sent if the manager runs, and buffers of the dead are lost.   *)
LEMMA WorkerBuffers ==
  ASSUME SystemTypeOK, NEW w \in Worker, WorkerGood(w), sent' = Silence,
         NEW queues \in [Worker -> Seq(ToWorker)], RouteToManager(toM), RouteToWorkers(queues)
  PROVE  /\ toM'[w] = <<>> \/ toM'[w] = toM[w] \o posted'
         /\ \A u \in Worker \ {w} : Shrunk(toM'[u], toM[u])
         /\ \A u \in Worker : toW'[u] \in {<<>>, queues[u]}
<1>1. ASSUME NEW u \in Worker PROVE toM'[u] \in {<<>>, toM[u] \o PostedBy(u)'}
  BY DEF RouteToManager
<1>2. ASSUME NEW u \in Worker PROVE PostedBy(u)' = IF u = w THEN posted' ELSE <<>>
  <2>1. CASE posted' = <<>>
    BY <2>1 DEF PostedBy
  <2>2. ASSUME NEW m \in ToManager, m.from = w, posted' = <<m>>
        PROVE  PostedBy(u)' = IF u = w THEN posted' ELSE <<>>
    BY <2>2 DEF PostedBy
  <2>3. QED
    BY <2>1, <2>2 DEF WorkerGood, Posting, Sendable
<1>3. ASSUME NEW u \in Worker PROVE toW'[u] \in {<<>>, queues[u]}
  <2>1. toW'[u] \in {<<>>, queues[u] \o <<>>}
    BY DEF RouteToWorkers, Silence
  <2>2. queues[u] \o <<>> = queues[u]
    OBVIOUS
  <2>3. QED
    BY <2>1, <2>2
<1>4. ASSUME NEW u \in Worker \ {w} PROVE Shrunk(toM'[u], toM[u])
  <2>1. toM[u] \o <<>> = toM[u]
    BY DEF SystemTypeOK
  <2>2. QED
    BY <1>1, <1>2, <2>1 DEF Shrunk
<1>5. QED
  BY <1>1, <1>2, <1>3, <1>4

\* A step of w, as the invariants see it.
Acts(w) ==
  /\ \A u \in Worker \ {w} : Rests(u)
  /\ UNCHANGED <<table, mlog>>
  /\ toM'[w] = <<>> \/ toM'[w] = toM[w] \o posted'
  /\ posted' = <<>> \/ \E m \in ToManager : m.from = w /\ posted' = <<m>>
  /\ \A u \in Worker \ {w} : Shrunk(toM'[u], toM[u])
  /\ \A u \in Worker : Shrunk(toW'[u], toW[u])

(* Every step of a worker is of this kind.                                       *)
LEMMA WorkerActs ==
  ASSUME SystemTypeOK, BufferInv, NEW w \in Worker,
         DeliverToWorker(w) \/ PollTimeout(w) \/ UserCommand(w) \/ RestartWorker(w)
  PROVE  /\ Acts(w) /\ WorkerTypeOK'
         /\ DeliverToWorker(w) => toW'[w] \in {<<>>, Tail(toW[w])}
         /\ ~DeliverToWorker(w) => toW'[w] \in {<<>>, toW[w]}
<1>1. WorkerTypeOK /\ toW \in [Worker -> Seq(ToWorker)]
  BY DEF SystemTypeOK
<1>2. ASSUME NEW queues \in [Worker -> Seq(ToWorker)], NEW action, WorkerMoves(queues, action),
             WorkerGood(w), \A u \in Worker \ {w} : Rests(u),
             \A u \in Worker : Shrunk(queues[u], toW[u])
      PROVE  Acts(w) /\ WorkerTypeOK' /\ toW'[w] \in {<<>>, queues[w]}
  <2>1. UNCHANGED <<table, mlog>> /\ sent' = Silence /\ RouteToManager(toM) /\ RouteToWorkers(queues)
    BY <1>2 DEF WorkerMoves
  <2>2. /\ toM'[w] = <<>> \/ toM'[w] = toM[w] \o posted'
        /\ \A u \in Worker \ {w} : Shrunk(toM'[u], toM[u])
        /\ \A u \in Worker : toW'[u] \in {<<>>, queues[u]}
    BY <1>2, <2>1, WorkerBuffers
  <2>3. \A u \in Worker : Shrunk(toW'[u], toW[u])
    BY <1>2, <2>2 DEF Shrunk
  <2>4. WorkerTypeOK' /\ (posted' = <<>> \/ \E m \in ToManager : m.from = w /\ posted' = <<m>>)
    BY <1>2 DEF WorkerGood, Posting, Sendable
  <2>5. QED
    BY <1>2, <2>1, <2>2, <2>3, <2>4 DEF Acts
<1>3. \A u \in Worker : Shrunk(toW[u], toW[u])
  BY DEF Shrunk
<1>4. ASSUME DeliverToWorker(w) PROVE Acts(w) /\ WorkerTypeOK' /\ toW'[w] \in {<<>>, Tail(toW[w])}
  <2> DEFINE m == Head(toW[w])
             queues == Popped(toW, w)
  <2>1. toW[w] # <<>> /\ WorkerMoves(queues, WorkerReceive(w, m)) /\ WorkerReceive(w, m)
    BY <1>4 DEF DeliverToWorker, WorkerMoves
  <2>2. queues \in [Worker -> Seq(ToWorker)]
        /\ \A u \in Worker : queues[u] = IF u = w THEN Tail(toW[u]) ELSE toW[u]
    BY <1>1, <2>1, PoppedType
  <2>3. m \in ToWorker /\ m \in Range(toW[w])
    BY <1>1, <2>1, RangeRead
  <2>4. m.kind = "PREPARE_COMMIT" => m.tid \in begun
    BY <2>3 DEF BufferInv, VotesBegun
  <2> HIDE DEF m, queues
  <2>5. WorkerGood(w)
    BY <1>1, <2>1, <2>3, <2>4, ReceiveGood
  <2>6. \A u \in Worker \ {w} : Rests(u)
    BY <1>1, <2>1, OthersRest
  <2>7. \A u \in Worker : Shrunk(queues[u], toW[u])
    BY <2>1, <2>2 DEF Shrunk
  <2>8. queues[w] = Tail(toW[w])
    BY <2>2
  <2>9. QED
    BY <1>2, <2>1, <2>2, <2>5, <2>6, <2>7, <2>8
<1>5. ASSUME PollTimeout(w) PROVE Acts(w) /\ WorkerTypeOK' /\ toW'[w] \in {<<>>, toW[w]}
  <2>1. WorkerMoves(toW, Poll(w)) /\ Poll(w)
    BY <1>5 DEF PollTimeout, WorkerMoves
  <2>2. WorkerGood(w) /\ \A u \in Worker \ {w} : Rests(u)
    BY <1>1, <2>1, PollGood, OthersRest
  <2>3. QED
    BY <1>1, <1>2, <1>3, <2>1, <2>2
<1>6. ASSUME UserCommand(w) PROVE Acts(w) /\ WorkerTypeOK' /\ toW'[w] \in {<<>>, toW[w]}
  <2>1. WorkerMoves(toW, CmdAny(w)) /\ CmdAny(w)
    BY <1>6 DEF UserCommand, WorkerMoves
  <2>2. WorkerGood(w) /\ \A u \in Worker \ {w} : Rests(u)
    BY <1>1, <2>1, CommandGood, OthersRest
  <2>3. QED
    BY <1>1, <1>2, <1>3, <2>1, <2>2
<1>7. ASSUME RestartWorker(w) PROVE Acts(w) /\ WorkerTypeOK' /\ toW'[w] \in {<<>>, toW[w]}
  <2>1. WorkerMoves(toW, WorkerRestart(w)) /\ WorkerRestart(w)
    BY <1>7 DEF RestartWorker, WorkerMoves
  <2>2. WorkerGood(w) /\ \A u \in Worker \ {w} : Rests(u)
    BY <1>1, <2>1, WorkerRestartGood, OthersRest
  <2>3. QED
    BY <1>1, <1>2, <1>3, <2>1, <2>2
<1>8. QED
  BY <1>4, <1>5, <1>6, <1>7

(* It says and notes no more than it may.                                        *)
LEMMA WorkerSays ==
  ASSUME SystemTypeOK, BufferInv, AskedInv, Considerate, NEW w \in Worker,
         DeliverToWorker(w) \/ PollTimeout(w) \/ UserCommand(w) \/ RestartWorker(w)
  PROVE  Says(w) /\ NotesAsking(w)
<1>1. Acts(w) /\ WorkerTypeOK /\ WorkerTypeOK'
  BY WorkerActs DEF SystemTypeOK
<1>2. Entry(w) /\ Order(w)
  BY DEF AskedInv
<1>3. Modest(w)
  <2>1. CASE DeliverToWorker(w)
    <3>1. toW[w] # <<>> /\ WorkerReceive(w, Head(toW[w])) /\ toW'[w] \in {<<>>, Tail(toW[w])}
      BY <2>1, WorkerActs DEF DeliverToWorker, WorkerMoves
    <3>2. QED
      BY <1>1, <1>2, <3>1, ReceiveModest
  <2>2. CASE PollTimeout(w)
    BY <1>1, <2>2, PollModest DEF PollTimeout, WorkerMoves
  <2>3. CASE UserCommand(w)
    BY <1>1, <2>3, CommandModest DEF UserCommand, WorkerMoves
  <2>4. CASE RestartWorker(w)
    BY <1>1, <2>4, RestartModest DEF RestartWorker, WorkerMoves
  <2>5. QED
    BY <2>1, <2>2, <2>3, <2>4
<1>4. Posts(w)
  <2>1. ASSUME NEW m \in ToManager, m.from = w, posted' = <<m>>
        PROVE  /\ m.kind \in Request => left[w]["JOINTX"] > 0
               /\ m.kind = "JOINTX" => left'[w]["JOINTX"] < left[w]["JOINTX"]
    <3>1. 1 \in DOMAIN posted' /\ posted'[1] = m
      BY <2>1
    <3>2. m.kind = "JOINTX" => left'[w]["JOINTX"] < left[w]["JOINTX"]
      BY <1>3, <3>1 DEF Modest
    <3>3. m.kind = "BEGINTX" => left[w]["JOINTX"] > 0
      BY <2>1, <3>1 DEF Considerate
    <3>4. left'[w]["JOINTX"] \in Nat /\ left[w]["JOINTX"] \in Nat
      BY <1>1, <1>3 DEF Modest, WorkerTypeOK, Command
    <3>5. QED
      BY <3>2, <3>3, <3>4 DEF Request
  <2>2. QED
    BY <1>1, <1>3, <2>1 DEF Posts, Modest, Acts
<1>5. QED
  BY <1>2, <1>3, <1>4, PostsSays DEF Modest

(* A step of a worker.                                                           *)
LEMMA WorkersAsked ==
  ASSUME SystemTypeOK, BufferInv, AskedInv, Considerate, NEW w \in Worker,
         DeliverToWorker(w) \/ PollTimeout(w) \/ UserCommand(w) \/ RestartWorker(w)
  PROVE  AskedInv'
<1>1. Acts(w) /\ WorkerTypeOK /\ WorkerTypeOK'
  BY WorkerActs DEF SystemTypeOK
<1>2. Entry(w) /\ Order(w)
  BY DEF AskedInv
<1>3. Entry(w)' /\ Order(w)'
  BY <1>1, <1>2, WorkerSays, AskedKept DEF Acts
<1>4. ASSUME NEW u \in Worker \ {w} PROVE Entry(u)' /\ Order(u)'
  <2>1. Entry(u) /\ Order(u) /\ Idle(u)
    BY <1>1 DEF AskedInv, Acts, Rests, Idle
  <2>2. Says(u) /\ NotesAsking(u)
    BY <2>1, IdleSays
  <2>3. QED
    BY <1>1, <2>1, <2>2, AskedKept DEF Acts
<1>5. ListedOnce'
  BY <1>1 DEF AskedInv, ListedOnce, Acts
<1>6. RequestedOnce'
  <2>1. ASSUME NEW m \in ToManager, m.from = w, posted' = <<m>>, toM'[w] = toM[w] \o <<m>>
        PROVE  RequestedOnce'
    <3>1. 1 \in DOMAIN posted' /\ posted'[1] = m
      BY <2>1
    <3>2. m.kind = "COMMIT" => ~Pending(m.tid) /\ ~Logged("COMMIT_REQ", m.tid)
      BY <3>1 DEF Considerate
    <3>3. QED
      BY <1>1, <2>1, <3>2, RequestedPosted DEF AskedInv, Acts
  <2>2. ASSUME Shrunk(toM'[w], toM[w]) PROVE RequestedOnce'
    <3>1. \A u \in Worker : Shrunk(toM'[u], toM[u])
      BY <1>1, <2>2 DEF Acts
    <3>2. \A t : Logged("COMMIT_REQ", t)' => Logged("COMMIT_REQ", t)
      BY <1>1 DEF Logged, Acts
    <3>3. QED
      BY <3>1, <3>2, RequestedKept DEF AskedInv, RequestedOnce
  <2>3. toM[w] \o <<>> = toM[w]
    BY DEF SystemTypeOK
  <2>4. QED
    BY <1>1, <2>1, <2>2, <2>3 DEF Acts, Shrunk
<1>7. QED
  BY <1>3, <1>4, <1>5, <1>6 DEF AskedInv

(* A datagram is lost, or nothing happens.                                       *)
LEMMA LossAsked ==
  ASSUME SystemTypeOK, AskedInv, \A u \in Worker : Rests(u),
         UNCHANGED <<table, mlog>>, \A u \in Worker : Shrunk(toM'[u], toM[u]),
         \A u \in Worker : Shrunk(toW'[u], toW[u])
  PROVE  AskedInv'
<1>1. ASSUME NEW u \in Worker PROVE Entry(u)' /\ Order(u)'
  <2>1. Entry(u) /\ Order(u) /\ Idle(u)
    BY DEF AskedInv, Rests, Idle
  <2>2. Says(u) /\ NotesAsking(u)
    BY <2>1, IdleSays
  <2>3. QED
    BY <2>1, <2>2, AskedKept
<1>2. ListedOnce'
  BY DEF AskedInv, ListedOnce
<1>3. RequestedOnce'
  <2>1. \A t : Logged("COMMIT_REQ", t)' => Logged("COMMIT_REQ", t)
    BY DEF Logged
  <2>2. QED
    BY <2>1, RequestedKept DEF AskedInv, RequestedOnce
<1>4. QED
  BY <1>1, <1>2, <1>3 DEF AskedInv

-------------------------------------------------------------------------------
\* Steps of the manager

\* What they leave alone, and how their datagrams travel.
Serves ==
  /\ \A u \in Worker : Rests(u)
  /\ \A u \in Worker : Shrunk(toM'[u], toM[u])
  /\ \A u \in Worker : toW'[u] \in {<<>>, toW[u] \o sent'[u]}
  /\ sent' \in [Worker -> Seq(ToWorker)]
  /\ mlog \subseteq mlog'

(* Whichever datagram they read, if any.                                         *)
LEMMA ManagerServes ==
  ASSUME SystemTypeOK, SystemTypeOK', NEW action, mlog \subseteq mlog',
         \/ ManagerMoves(toM, action)
         \/ \E r \in Worker : toM[r] # <<>> /\ ManagerMoves(Popped(toM, r), action)
  PROVE  Serves
<1>1. PICK queues \in [Worker -> Seq(ToManager)] :
        /\ ManagerMoves(queues, action)
        /\ \A u \in Worker : Shrunk(queues[u], toM[u])
  <2>1. CASE ManagerMoves(toM, action)
    BY <2>1 DEF SystemTypeOK, Shrunk
  <2>2. ASSUME NEW r \in Worker, toM[r] # <<>>, ManagerMoves(Popped(toM, r), action)
        PROVE  /\ Popped(toM, r) \in [Worker -> Seq(ToManager)]
               /\ \A u \in Worker : Shrunk(Popped(toM, r)[u], toM[u])
    <3>1. /\ Popped(toM, r) \in [Worker -> Seq(ToManager)]
          /\ \A u \in Worker : Popped(toM, r)[u] = IF u = r THEN Tail(toM[u]) ELSE toM[u]
      BY <2>2, PoppedType DEF SystemTypeOK
    <3>2. QED
      BY <2>2, <3>1 DEF Shrunk
  <2>3. QED
    BY <2>1, <2>2
<1>2. UNCHANGED <<wlog, obj, known, mem, joinedAt, named, left>> /\ posted' = <<>>
      /\ RouteToManager(queues) /\ RouteToWorkers(toW)
  BY <1>1 DEF ManagerMoves
<1>3. ASSUME NEW u \in Worker PROVE Shrunk(toM'[u], toM[u])
  <2>1. PostedBy(u)' = <<>>
    BY <1>2 DEF PostedBy
  <2>2. toM'[u] \in {<<>>, queues[u] \o <<>>}
    BY <1>2, <2>1 DEF RouteToManager
  <2>3. queues[u] \o <<>> = queues[u]
    OBVIOUS
  <2>4. QED
    BY <1>1, <2>2, <2>3 DEF Shrunk
<1>4. \A u \in Worker : toW'[u] \in {<<>>, toW[u] \o sent'[u]}
  BY <1>2 DEF RouteToWorkers
<1>5. sent' \in [Worker -> Seq(ToWorker)]
  BY DEF SystemTypeOK, MgrTypeOK
<1>6. QED
  BY <1>2, <1>3, <1>4, <1>5 DEF Serves, Rests

\* What may be sent to w now, after what it was sent before.
MayHear(w, b) ==
  /\ Fresh(w)' => b \in BeginAnswer
  /\ Asked(w) => b \in Decision
  /\ \A a \in Kinds(toW[w]) : MayFollow(a, b)
  /\ b = "JOIN_SUCCESS" => Silent(w)
  /\ b = "PREPARE_COMMIT" => \A k \in Slot : w \in In(k)' => Logged("COMMIT_REQ", table[k].tid)'

\* What w is sent in a step: one datagram, or decisions.
Hearing(w) ==
  /\ Len(sent'[w]) <= 1 \/ Kinds(sent'[w]) \subseteq Decision
  /\ \A b \in Kinds(sent'[w]) : MayHear(w, b)

\* A slot lists w, which is in it already or has just asked to join.
ListsOnly(w) ==
  \A k \in Slot : w \in In(k)' =>
    \/ w \in In(k) /\ table'[k].tid = table[k].tid
    \/ /\ ~Fresh(w)' /\ ~Asked(w)
       /\ "PREPARE_COMMIT" \notin Kinds(toW[w]) /\ "PREPARE_COMMIT" \notin Kinds(sent'[w])

(* What is known of a worker that is sent something.                             *)
LEMMA HearsKept ==
  ASSUME SystemTypeOK, Serves, NEW w \in Worker, Entry(w), Order(w), Hearing(w), ListsOnly(w)
  PROVE  Entry(w)' /\ Order(w)'
<1>1. toW[w] \in Seq(ToWorker) /\ sent'[w] \in Seq(ToWorker)
  BY DEF SystemTypeOK, Serves
<1>2. Idle(w)
  BY DEF Serves, Idle, Rests
<1>3. /\ Says(w) /\ (Asked(w)' <=> Asked(w)) /\ (Silent(w) => Silent(w)')
  BY <1>2, IdleSays
<1>4. InOrder(toW[w] \o sent'[w]) /\ Kinds(toW[w] \o sent'[w]) = Kinds(toW[w]) \cup Kinds(sent'[w])
  <2>1. \A a \in Kinds(toW[w]), b \in Kinds(sent'[w]) : MayFollow(a, b)
    BY DEF Hearing, MayHear
  <2>2. QED
    BY <1>1, <2>1, SentInOrder DEF Hearing, Order
<1>5. InOrder(toW'[w]) /\ Kinds(toW'[w]) \subseteq Kinds(toW[w]) \cup Kinds(sent'[w])
  <2>1. CASE toW'[w] = <<>>
    <3>1. DOMAIN toW'[w] = {} /\ Range(toW'[w]) = {}
      BY <2>1, RangeEmpty
    <3>2. QED
      BY <3>1 DEF InOrder, Kinds
  <2>2. CASE toW'[w] = toW[w] \o sent'[w]
    BY <1>4, <2>2
  <2>3. QED
    BY <2>1, <2>2 DEF Serves
<1>6. ASSUME Fresh(w)' PROVE ~Asked(w)' /\ ~Listed(w)' /\ Kinds(toW'[w]) \subseteq BeginAnswer
  <2>1. Fresh(w)
    BY <1>3, <1>6 DEF Says
  <2>2. ~Asked(w) /\ ~Listed(w) /\ Kinds(toW[w]) \subseteq BeginAnswer
    BY <2>1 DEF Entry
  <2>3. Kinds(sent'[w]) \subseteq BeginAnswer
    BY <1>6 DEF Hearing, MayHear
  <2>4. ~Listed(w)'
    BY <1>6, <2>2 DEF Listed, ListsOnly
  <2>5. QED
    BY <1>3, <1>5, <2>2, <2>3, <2>4
<1>7. ASSUME Awaits(w)' PROVE Silent(w)'
  <2>1. CASE Fresh(w)'
    BY <1>3, <2>1 DEF Says, Entry, Awaits
  <2>2. CASE "JOIN_SUCCESS" \in Kinds(toW[w])
    BY <1>3, <2>2 DEF Entry, Awaits
  <2>3. CASE "JOIN_SUCCESS" \in Kinds(sent'[w])
    BY <1>3, <2>3 DEF Hearing, MayHear
  <2>4. QED
    BY <1>5, <1>7, <2>1, <2>2, <2>3 DEF Awaits
<1>8. Entry(w)'
  BY <1>3, <1>6, <1>7 DEF Entry, Says
<1>9. Asked(w)' => Kinds(toW'[w]) \subseteq Decision
  BY <1>3, <1>5 DEF Order, Hearing, MayHear
<1>10. ASSUME Asked(w)' \/ "PREPARE_COMMIT" \in Kinds(toW'[w]), NEW k \in Slot, w \in In(k)'
       PROVE  Logged("COMMIT_REQ", table[k].tid)'
  <2>1. CASE "PREPARE_COMMIT" \in Kinds(sent'[w])
    BY <1>10, <2>1 DEF Hearing, MayHear
  <2>2. CASE Asked(w) \/ "PREPARE_COMMIT" \in Kinds(toW[w])
    <3>1. CASE w \in In(k) /\ table'[k].tid = table[k].tid
      <4>1. Logged("COMMIT_REQ", table[k].tid)
        BY <2>2, <3>1 DEF Order
      <4>2. QED
        BY <3>1, <4>1 DEF Logged, Serves
    <3>2. QED
      BY <1>10, <2>2, <3>1 DEF ListsOnly
  <2>3. QED
    BY <1>3, <1>5, <1>10, <2>1, <2>2
<1>11. Order(w)'
  BY <1>5, <1>9, <1>10 DEF Order
<1>12. QED
  BY <1>8, <1>11

\* The table loses members at most, and a slot that has any keeps its transaction.
\* What is left of the members of a slot moves up by as many places as were cleared.
Stays ==
  \A k \in Slot :
    /\ \E c \in Nat : \A i \in DOMAIN table'[k].members :
         /\ i \in Nat /\ i + c \in DOMAIN table[k].members
         /\ table'[k].members[i].id = table[k].members[i + c].id
    /\ table'[k].tid = table[k].tid \/ DOMAIN table'[k].members = {}

(* Then nobody is listed that was not, and nobody twice.                         *)
LEMMA StaysListed ==
  ASSUME Stays, ListedOnce
  PROVE  ListedOnce' /\ \A w \in Worker : ListsOnly(w)
<1>1. \A k \in Slot : In(k)' \subseteq In(k)
  BY DEF Stays, In
<1>2. \A k \in Slot : In(k)' # {} => table'[k].tid = table[k].tid
  BY DEF Stays, In
<1>3. ListedOnce'
  <2>1. ASSUME NEW k \in Slot, NEW l \in Slot,
               NEW i \in DOMAIN table'[k].members, NEW j \in DOMAIN table'[l].members,
               table'[k].members[i].id = table'[l].members[j].id
        PROVE  k = l /\ i = j
    <3>1. PICK c \in Nat : \A x \in DOMAIN table'[k].members :
            /\ x \in Nat /\ x + c \in DOMAIN table[k].members
            /\ table'[k].members[x].id = table[k].members[x + c].id
      BY DEF Stays
    <3>2. PICK d \in Nat : \A x \in DOMAIN table'[l].members :
            /\ x \in Nat /\ x + d \in DOMAIN table[l].members
            /\ table'[l].members[x].id = table[l].members[x + d].id
      BY DEF Stays
    <3>3. k = l /\ i + c = j + d
      BY <2>1, <3>1, <3>2 DEF ListedOnce
    <3>4. table[k].members[i + d].id = table[k].members[i + c].id /\ i + d \in DOMAIN table[k].members
      BY <3>1, <3>2, <3>3
    <3>5. i + d = i + c
      BY <3>1, <3>4 DEF ListedOnce
    <3>6. i \in Nat /\ j \in Nat
      BY <3>1, <3>2
    <3>7. QED
      BY <3>3, <3>5, <3>6
  <2>2. QED
    BY <2>1 DEF ListedOnce
<1>4. QED
  BY <1>1, <1>2, <1>3 DEF ListsOnly

(* A table whose members keep their places stays.                                *)
LEMMA SamePlaces ==
  ASSUME table \in [Slot -> [tid: AnyTid, isCrash: BOOLEAN, members: Seq(Member)]],
         \A k \in Slot :
           /\ \A i \in DOMAIN table'[k].members :
                /\ i \in DOMAIN table[k].members
                /\ table'[k].members[i].id = table[k].members[i].id
           /\ table'[k].tid = table[k].tid \/ DOMAIN table'[k].members = {}
  PROVE  Stays
<1>1. ASSUME NEW k \in Slot, NEW i \in DOMAIN table'[k].members
      PROVE  /\ i \in Nat /\ i + 0 \in DOMAIN table[k].members
             /\ table'[k].members[i].id = table[k].members[i + 0].id
  <2>1. table[k].members \in Seq(Member) /\ i \in DOMAIN table[k].members
    OBVIOUS
  <2>2. i \in Nat /\ i + 0 = i
    BY <2>1
  <2>3. QED
    BY <2>1, <2>2
<1>2. QED
  BY <1>1, 0 \in Nat DEF Stays

(* What a manager killed on its way leaves of the table stays.                   *)
LEMMA TornStays ==
  ASSUME SystemTypeOK, TornTable
  PROVE  Stays
<1>1. ASSUME NEW k \in Slot
      PROVE  /\ table'[k].tid = table[k].tid
             /\ \E c \in Nat : \A i \in DOMAIN table'[k].members :
                  /\ i \in Nat /\ i + c \in DOMAIN table[k].members
                  /\ table'[k].members[i].id = table[k].members[i + c].id
  <2> DEFINE new == table'[k].members
             old == table[k].members
             n == Len(old)
  <2>1. new \in Seq(Member) /\ old \in Seq(Member) /\ table'[k].tid = table[k].tid
    BY DEF TornTable, Slots, SystemTypeOK, MgrTypeOK
  <2>2. PICK c \in 0..n :
          /\ Len(new) = n - c
          /\ \A i \in 1..Len(new) : new[i].id = old[i + c].id
    BY DEF TornTable
  <2>3. n \in Nat /\ DOMAIN old = 1..n /\ DOMAIN new = 1..Len(new)
    BY <2>1
  <2> HIDE DEF n
  <2>4. \A i \in 1..(n - c) : i \in Nat /\ i + c \in 1..n
    BY <2>3
  <2>5. \A i \in DOMAIN new : i \in Nat /\ i + c \in DOMAIN old /\ new[i].id = old[i + c].id
    BY <2>2, <2>3, <2>4
  <2>6. c \in Nat
    BY <2>3
  <2>7. QED
    BY <2>1, <2>5, <2>6
<1>2. QED
  BY <1>1 DEF Stays

(* Counting votes, freeing a slot and giving a free one away leave members so.   *)
LEMMA TableStays ==
  ASSUME SystemTypeOK, BufferInv,
         \/ table' = table
         \/ \E m : \E k \in Slot : table' = Counted(k, m)
         \/ \E k \in 0..MaxTrans : table' = Cleaned(k)
         \/ \E k \in Slot, flag \in BOOLEAN : table' = [table EXCEPT ![k].isCrash = flag]
         \/ \E t : \E k \in Slot : table[k].tid = NoTid /\ table' = [table EXCEPT ![k].tid = t]
  PROVE  Stays
<1>1. table \in [Slot -> [tid: AnyTid, isCrash: BOOLEAN, members: Seq(Member)]]
  BY DEF SystemTypeOK, MgrTypeOK
<1>2. CASE table' = table
  BY <1>1, <1>2, SamePlaces
<1>3. ASSUME NEW k \in Slot, NEW m, table' = Counted(k, m) PROVE Stays
  <2>1. k # 0
    BY SizesAssumption DEF Slot
  <2>2. ASSUME NEW j \in Slot, j # k PROVE table'[j] = table[j]
    BY <1>3, <2>1, <2>2 DEF Counted, WithSlot
  <2>3. table'[k] = VotedSlot(k, m)
    BY <1>3, <2>1 DEF Counted, WithSlot
  <2>4. table'[k].tid = table[k].tid /\ table'[k].members = Voted(table[k].members, m.from)
    BY <1>1, <2>3 DEF VotedSlot
  <2>5. \A i \in DOMAIN table[k].members : table[k].members[i] \in Member
    BY <1>1
  <2>6. ASSUME NEW i \in DOMAIN table'[k].members
        PROVE  i \in DOMAIN table[k].members /\ table'[k].members[i].id = table[k].members[i].id
    <3>1. i \in DOMAIN table[k].members
      BY <2>4 DEF Voted
    <3>2. \/ table'[k].members[i] = table[k].members[i]
          \/ table'[k].members[i] = [table[k].members[i] EXCEPT !.voted = TRUE]
      BY <2>4, <3>1 DEF Voted
    <3>3. QED
      BY <2>5, <3>1, <3>2 DEF Member
  <2>7. QED
    BY <1>1, <2>2, <2>4, <2>6, SamePlaces
<1>4. ASSUME NEW k \in 0..MaxTrans, table' = Cleaned(k) PROVE Stays
  <2>1. \A j \in Slot : table'[j] = table[j] \/ table'[j] = Free
    BY <1>4 DEF Cleaned, WithSlot
  <2>2. DOMAIN Free.members = {}
    BY DEF Free
  <2>3. QED
    BY <1>1, <2>1, <2>2, SamePlaces
<1>5. ASSUME NEW k \in Slot, NEW flag \in BOOLEAN, table' = [table EXCEPT ![k].isCrash = flag]
      PROVE  Stays
  <2>1. \A j \in Slot : table'[j].tid = table[j].tid /\ table'[j].members = table[j].members
    BY <1>1, <1>5
  <2>2. QED
    BY <1>1, <2>1, SamePlaces
<1>6. ASSUME NEW k \in Slot, NEW t, table[k].tid = NoTid, table' = [table EXCEPT ![k].tid = t]
      PROVE  Stays
  <2>1. \A j \in Slot : table'[j].members = table[j].members /\ (j # k => table'[j] = table[j])
    BY <1>1, <1>6
  <2>2. DOMAIN table'[k].members = {}
    BY <1>6, <2>1 DEF BufferInv, SlotsBegun
  <2>3. QED
    BY <1>1, <2>1, <2>2, SamePlaces
<1>7. QED
  BY <1>2, <1>3, <1>4, <1>5, <1>6

\* w is listed for a transaction, or has voted or polled on it.
Concerns(w, tid) ==
  \/ \E k \in Slot : w \in In(k) /\ table[k].tid = tid
  \/ \E m \in Range(toM[w]) : m.kind \in Followup /\ m.tid = tid

\* What is sent is decisions, to workers they concern.
TellsDecisions ==
  \A w \in Worker : \A m \in Range(sent'[w]) : m.kind \in Decision /\ Concerns(w, m.tid)

\* What decisions are sent with.
SendsDecisions ==
  \/ sent' = Silence
  \/ \E u \in Worker : \E m \in Range(toM[u]) :
       /\ m.from = u /\ m.kind \in Followup
       /\ \E kind \in Decision : sent' = Reply(m, kind)
  \/ \E tid, last : \E kind \in Decision :
       sent' = Broadcast(tid, kind) \/ sent' = BroadcastUpTo(tid, kind, last)

(* Decisions go to members, and to who sent a vote or a poll.                    *)
LEMMA DecisionsTold ==
  ASSUME SendsDecisions
  PROVE  TellsDecisions
<1>1. CASE sent' = Silence
  BY <1>1, RangeEmpty DEF TellsDecisions, Silence
<1>2. ASSUME NEW u \in Worker, NEW m \in Range(toM[u]), NEW kind \in Decision,
             m.from = u, m.kind \in Followup, sent' = Reply(m, kind)
      PROVE  TellsDecisions
  <2>1. ASSUME NEW w \in Worker, NEW e \in Range(sent'[w]) PROVE w = u /\ e.kind = kind /\ e.tid = m.tid
    <3>1. Range(sent'[w]) = IF w = m.from THEN {Msg(kind, m.tid)} ELSE {}
      BY <1>2, SentReply
    <3>2. QED
      BY <1>2, <2>1, <3>1 DEF Msg
  <2>2. Concerns(u, m.tid)
    BY <1>2 DEF Concerns
  <2>3. QED
    BY <1>2, <2>1, <2>2 DEF TellsDecisions
<1>3. ASSUME NEW tid, NEW kind \in Decision, NEW w \in Worker, NEW e \in Range(Broadcast(tid, kind)[w])
      PROVE  e.kind = kind /\ Concerns(w, e.tid)
  <2>1. PICK i \in DOMAIN Broadcast(tid, kind)[w] : e = Broadcast(tid, kind)[w][i]
    BY <1>3 DEF Range
  <2>2. e = [kind |-> kind, tid |-> tid]
    BY <2>1, BroadcastReach
  <2>3. PICK k \in Slot : w \in In(k) /\ table[k].tid = tid
    <3>1. DOMAIN Broadcast(tid, kind)[w] = 1..Cardinality(Entries(tid, w))
      BY DEF Broadcast
    <3>2. Entries(tid, w) # {}
      <4>1. SUFFICES ASSUME Entries(tid, w) = {} PROVE FALSE
        OBVIOUS
      <4>2. Cardinality(Entries(tid, w)) = 0
        BY <4>1, FS_EmptySet
      <4>3. QED
        BY <2>1, <3>1, <4>2
    <3>3. QED
      BY <3>2 DEF Entries, In
  <2>4. QED
    BY <2>2, <2>3 DEF Concerns
<1>4. ASSUME NEW tid, NEW last, NEW kind \in Decision,
             sent' = Broadcast(tid, kind) \/ sent' = BroadcastUpTo(tid, kind, last)
      PROVE  TellsDecisions
  <2>1. \A w \in Worker : sent'[w] \in {<<>>, Broadcast(tid, kind)[w]}
    BY <1>4 DEF BroadcastUpTo
  <2>2. QED
    BY <1>3, <2>1, RangeEmpty DEF TellsDecisions
<1>5. QED
  BY <1>1, <1>2, <1>4 DEF SendsDecisions

(* The parts together.                                                           *)
LEMMA ServedAsked ==
  ASSUME SystemTypeOK, AskedInv, Serves, ListedOnce', RequestedOnce',
         \A w \in Worker : Hearing(w) /\ ListsOnly(w)
  PROVE  AskedInv'
BY HearsKept DEF AskedInv

(* A step that logs no request and tells decisions at most.                      *)
LEMMA TellsAsked ==
  ASSUME SystemTypeOK, AskedInv, Serves, Stays, TellsDecisions,
         \A t \in Tid : Logged("COMMIT_REQ", t)' => Logged("COMMIT_REQ", t)
  PROVE  AskedInv'
<1>1. RequestedOnce'
  BY RequestedKept DEF AskedInv, RequestedOnce, Serves
<1>2. ASSUME NEW w \in Worker PROVE Hearing(w)
  <2>1. \A b \in Kinds(sent'[w]) : b \in Decision /\ ~Fresh(w)
    BY DEF TellsDecisions, Concerns, AskedInv, Entry, Listed, Awaits, Silent, Kinds
  <2>2. Fresh(w)' => Fresh(w)
    <3>1. Entry(w) /\ Idle(w)
      BY DEF AskedInv, Serves, Idle, Rests
    <3>2. QED
      BY <3>1, IdleSays DEF Says
  <2>3. QED
    BY <2>1, <2>2 DEF Hearing, MayHear, MayFollow, Decision, BeginAnswer
<1>3. QED
  BY <1>1, <1>2, StaysListed, ServedAsked DEF AskedInv

(* The manager's own steps, and what one killed on the way has sent.             *)
LEMMA OwnServes ==
  ASSUME SystemTypeOK, SystemTypeOK', BufferInv,
         \/ ManagerTimeout \/ ManagerKill \/ ManagerRestart \/ ManagerRecoverSlot
         \/ ManagerTorn
  PROVE  /\ Serves /\ Stays /\ TellsDecisions
         /\ \A t \in Tid : Logged("COMMIT_REQ", t)' => Logged("COMMIT_REQ", t)
<1>1. ASSUME NEW action, mlog \subseteq mlog', SendsDecisions, Stays,
             \/ ManagerMoves(toM, action)
             \/ \E r \in Worker : toM[r] # <<>> /\ ManagerMoves(Popped(toM, r), action),
             \A t \in Tid : Logged("COMMIT_REQ", t)' => Logged("COMMIT_REQ", t)
      PROVE  Serves /\ TellsDecisions
  BY <1>1, ManagerServes, DecisionsTold
<1>2. ASSUME \/ mlog' = mlog
             \/ \E t : \E kind \in Decision : mlog' = mlog \cup {[kind |-> kind, tid |-> t]}
      PROVE  /\ mlog \subseteq mlog'
             /\ \A t \in Tid : Logged("COMMIT_REQ", t)' => Logged("COMMIT_REQ", t)
  BY <1>2 DEF Logged, Decision
<1>3. "DECIDE_COMMIT" \in Decision /\ "DECIDE_ABORT" \in Decision
  BY DEF Decision
<1>4. CASE ManagerTimeout
  <2>1. ManagerMoves(toM, MgrTimeout) /\ MgrTimeout
    BY <1>4 DEF ManagerTimeout, ManagerMoves
  <2>2. PICK k \in Slot : /\ mlog' = mlog \cup {[kind |-> "DECIDE_ABORT", tid |-> table[k].tid]}
                          /\ sent' = Broadcast(table[k].tid, "DECIDE_ABORT")
                          /\ table' = Cleaned(k)
    BY <2>1 DEF MgrTimeout
  <2>3. k \in 0..MaxTrans
    BY SizesAssumption DEF Slot
  <2>4. Stays /\ SendsDecisions
    BY <1>3, <2>2, <2>3, TableStays DEF SendsDecisions
  <2>5. QED
    BY <1>1, <1>2, <1>3, <2>1, <2>2, <2>4
<1>5. CASE ManagerKill \/ ManagerRestart \/ ManagerRecoverSlot
  <2>1. PICK action \in {MgrKill, MgrRestart, MgrRecoverSlot} : ManagerMoves(toM, action) /\ action
    BY <1>5 DEF ManagerKill, ManagerRestart, ManagerRecoverSlot, ManagerMoves
  <2>2. MgrKill \/ MgrRestart \/ MgrRecoverSlot
    BY <1>5 DEF ManagerKill, ManagerRestart, ManagerRecoverSlot, ManagerMoves
  <2>3. mlog' = mlog /\ table' = table
    BY <2>2 DEF MgrKill, MgrRestart, MgrRecoverSlot
  <2>4. sent' = Silence \/ \E t : sent' = Broadcast(t, "DECIDE_ABORT")
    BY <2>2 DEF MgrKill, MgrRestart, MgrRecoverSlot
  <2>5. Stays /\ SendsDecisions
    BY <1>3, <2>3, <2>4, TableStays DEF SendsDecisions
  <2>6. QED
    BY <1>1, <1>2, <2>1, <2>3, <2>5
<1>6. CASE ManagerTorn
  <2>1. MgrTornTimeout \/ \E m \in ToManager : MgrTornVote(m)
    <3>1. ASSUME NEW w \in Worker, toM[w] # <<>> PROVE Head(toM[w]) \in ToManager
      BY <3>1, RangeRead DEF SystemTypeOK
    <3>2. QED
      BY <1>6, <3>1 DEF ManagerTorn, ManagerMoves
  <2>2. TornTable /\ TornSaid /\ TornLogged
    BY <2>1, TornEffect DEF SystemTypeOK
  <2>3. Stays /\ SendsDecisions
    BY <1>3, <2>2, TornStays DEF TornSaid, SendsDecisions
  <2>4. /\ mlog \subseteq mlog'
        /\ \A t \in Tid : Logged("COMMIT_REQ", t)' => Logged("COMMIT_REQ", t)
    BY <1>2, <1>3, <2>2 DEF TornLogged
  <2>5. PICK action : \/ ManagerMoves(toM, action)
                      \/ \E r \in Worker : toM[r] # <<>> /\ ManagerMoves(Popped(toM, r), action)
    BY <1>6 DEF ManagerTorn
  <2>6. QED
    BY <1>1, <2>3, <2>4, <2>5
<1>7. QED
  BY <1>4, <1>5, <1>6

(* They ask nobody.                                                              *)
LEMMA OwnAsked ==
  ASSUME SystemTypeOK, SystemTypeOK', BufferInv, AskedInv,
         \/ ManagerTimeout \/ ManagerKill \/ ManagerRestart \/ ManagerRecoverSlot
         \/ ManagerTorn
  PROVE  AskedInv'
BY OwnServes, TellsAsked

\* The manager reads m, the first datagram of r.
Reads(r, m) ==
  /\ toM[r] # <<>> /\ m = Head(toM[r]) /\ m.from = r
  /\ toM'[r] \in {<<>>, Tail(toM[r])}

(* An answer to a BEGINTX is heard before, one to a JOINTX after the last of them. *)
LEMMA AnswerHeard ==
  ASSUME SystemTypeOK, AskedInv, Serves, NEW r \in Worker, NEW m, Reads(r, m),
         NEW kind, sent' = Reply(m, kind),
         \/ m.kind = "BEGINTX" /\ kind \in BeginAnswer
         \/ m.kind = "JOINTX" /\ kind \in {"JOIN_SUCCESS", "JOIN_FAIL"}
  PROVE  /\ \A w \in Worker : Hearing(w) /\ (w # r => sent'[w] = <<>>)
         /\ Kinds(sent'[r]) \subseteq {kind}
         /\ ~Asked(r) /\ ~Listed(r) /\ "PREPARE_COMMIT" \notin Kinds(toW[r])
         /\ m.kind = "JOINTX" => ~Fresh(r)'
<1>1. toM[r] \in Seq(ToManager) /\ Entry(r)
  BY DEF SystemTypeOK, AskedInv
<1>2. m \in Range(toM[r])
  BY <1>1, RangeRead DEF Reads
<1>3. Fresh(r) /\ Awaits(r)
  BY <1>2 DEF Fresh, Awaits, Request
<1>4. ~Asked(r) /\ ~Listed(r) /\ Kinds(toW[r]) \subseteq BeginAnswer /\ Silent(r)
  BY <1>1, <1>3 DEF Entry
<1>5. ASSUME m.kind = "JOINTX" PROVE ~Fresh(r)'
  <2>1. left'[r]["JOINTX"] = 0
    BY <1>1, <1>2, <1>5 DEF Entry, Asking, Serves, Rests
  <2>2. Kinds(toM'[r]) \cap Request = {}
    <3>1. Kinds(Tail(toM[r])) \cap Request = {}
      BY <1>1, <1>5, JoinReadLast DEF Entry, Reads
    <3>2. Kinds(<<>>) = {}
      BY RangeEmpty DEF Kinds
    <3>3. QED
      BY <3>1, <3>2 DEF Reads
  <2>3. QED
    BY <2>1, <2>2 DEF Fresh, Kinds
<1>6. ASSUME NEW w \in Worker
      PROVE  sent'[w] = IF w = r THEN <<Msg(kind, m.tid)>> ELSE <<>>
  BY DEF Reply, Reads, Msg
<1>7. Kinds(sent'[r]) = {kind} /\ Len(sent'[r]) = 1
  <2>1. Range(sent'[r]) = {Msg(kind, m.tid)} /\ Len(sent'[r]) = 1
    BY <1>6, RangeSingle
  <2>2. QED
    BY <2>1 DEF Kinds, Msg
<1>8. Hearing(r)
  <2>1. \A a \in Kinds(toW[r]) : MayFollow(a, kind)
    BY <1>4 DEF MayFollow, BeginAnswer
  <2>2. MayHear(r, kind)
    BY <1>4, <1>5, <2>1 DEF MayHear, BeginAnswer
  <2>3. QED
    BY <1>7, <2>2 DEF Hearing
<1>9. ASSUME NEW w \in Worker, w # r PROVE Hearing(w) /\ sent'[w] = <<>>
  <2>1. sent'[w] = <<>> /\ Kinds(sent'[w]) = {} /\ Len(sent'[w]) = 0
    BY <1>6, <1>9, RangeEmpty DEF Kinds
  <2>2. QED
    BY <2>1 DEF Hearing
<1>10. "PREPARE_COMMIT" \notin Kinds(toW[r])
  BY <1>4 DEF BeginAnswer
<1>11. QED
  BY <1>4, <1>5, <1>7, <1>8, <1>9, <1>10

(* A BEGINTX gives away a free slot at most.                                     *)
LEMMA BeginStays ==
  ASSUME SystemTypeOK, BufferInv, NEW m, MgrBegin(m)
  PROVE  Stays
<1>1. CASE table' = table
  BY <1>1, TableStays
<1>2. ASSUME NEW k \in Slot, FirstMet(m.tid, k), table[k].tid # m.tid,
             table' = [table EXCEPT ![k].tid = m.tid]
      PROVE  Stays
  <2>1. table[k].tid = NoTid
    BY <1>2 DEF FirstMet, IsFirst, Holding
  <2>2. QED
    BY <1>2, <2>1, TableStays
<1>3. QED
  BY <1>1, <1>2 DEF MgrBegin

(* It is answered.                                                               *)
LEMMA BeginAsked ==
  ASSUME SystemTypeOK, BufferInv, AskedInv, Serves, NEW r \in Worker, NEW m, Reads(r, m),
         MgrBegin(m)
  PROVE  AskedInv'
<1>1. mlog' = mlog /\ m.kind = "BEGINTX"
  BY DEF MgrBegin
<1>2. \E kind \in BeginAnswer : sent' = Reply(m, kind)
  BY DEF MgrBegin, BeginAnswer
<1>3. \A w \in Worker : Hearing(w)
  BY <1>1, <1>2, AnswerHeard
<1>4. RequestedOnce'
  <2>1. \A t \in Tid : Logged("COMMIT_REQ", t)' => Logged("COMMIT_REQ", t)
    BY <1>1 DEF Logged
  <2>2. QED
    BY <2>1, RequestedKept DEF AskedInv, RequestedOnce, Serves
<1>5. QED
  BY <1>3, <1>4, BeginStays, StaysListed, ServedAsked DEF AskedInv

(* A JOINTX is answered, and the worker listed if it is not refused.             *)
LEMMA JoinAsked ==
  ASSUME SystemTypeOK, BufferInv, AskedInv, Serves, NEW r \in Worker, NEW m, Reads(r, m),
         MgrJoin(m)
  PROVE  AskedInv'
<1>1. mlog' = mlog /\ m.kind = "JOINTX" /\ m.from = r
  BY DEF MgrJoin, Reads
<1>2. RequestedOnce'
  <2>1. \A t \in Tid : Logged("COMMIT_REQ", t)' => Logged("COMMIT_REQ", t)
    BY <1>1 DEF Logged
  <2>2. QED
    BY <2>1, RequestedKept DEF AskedInv, RequestedOnce, Serves
<1>3. CASE sent' = Silence /\ table' = table
  <2>1. TellsDecisions
    BY <1>3, DecisionsTold DEF SendsDecisions
  <2>2. Stays
    BY <1>3, TableStays
  <2>3. QED
    BY <1>1, <2>1, <2>2, TellsAsked DEF Logged
<1>4. ASSUME NEW kind \in {"JOIN_SUCCESS", "JOIN_FAIL"}, sent' = Reply(m, kind),
             \/ table' = table
             \/ \E k \in Slot : /\ table'[k].members = Append(table[k].members, [id |-> r, voted |-> FALSE])
                                /\ table'[k].tid = table[k].tid
                                /\ \A j \in Slot \ {k} : table'[j] = table[j]
      PROVE  AskedInv'
  <2>1. /\ \A w \in Worker : Hearing(w) /\ (w # r => sent'[w] = <<>>)
        /\ Kinds(sent'[r]) \subseteq {kind}
        /\ ~Asked(r) /\ ~Listed(r) /\ "PREPARE_COMMIT" \notin Kinds(toW[r]) /\ ~Fresh(r)'
    BY <1>1, <1>4, AnswerHeard
  <2>2. CASE table' = table
    <3>1. Stays
      BY <2>2, TableStays
    <3>2. QED
      BY <1>2, <2>1, <3>1, StaysListed, ServedAsked DEF AskedInv
  <2>3. ASSUME NEW k \in Slot, \A j \in Slot \ {k} : table'[j] = table[j],
               table'[k].tid = table[k].tid,
               table'[k].members = Append(table[k].members, [id |-> r, voted |-> FALSE])
        PROVE  AskedInv'
    <3>1. table[k].members \in Seq(Member) /\ \A j \in Slot : r \notin In(j)
      BY <2>1 DEF SystemTypeOK, MgrTypeOK, Listed
    <3>2. In(k)' = In(k) \cup {r}
      BY <2>3, <3>1, EnrolledSlot
    <3>3. \A j \in Slot \ {k} : In(j)' = In(j) /\ table'[j].tid = table[j].tid
      BY <2>3 DEF In
    <3>4. ASSUME NEW w \in Worker, w # r PROVE ListsOnly(w)
      BY <2>3, <3>2, <3>3, <3>4 DEF ListsOnly
    <3>5. ListsOnly(r)
      BY <1>4, <2>1 DEF ListsOnly
    <3>6. ListedOnce'
      <4> DEFINE N == Len(table[k].members) + 1
      <4>1. /\ DOMAIN table'[k].members = 1..N /\ table'[k].members[N].id = r
            /\ \A i \in 1..N : i # N => /\ i \in DOMAIN table[k].members
                                        /\ table'[k].members[i] = table[k].members[i]
        BY <2>3, <3>1
      <4> HIDE DEF N
      <4>2. ASSUME NEW j \in Slot, NEW i \in DOMAIN table'[j].members
            PROVE  \/ j = k /\ i = N /\ table'[j].members[i].id = r
                   \/ /\ i \in DOMAIN table[j].members
                      /\ table'[j].members[i].id = table[j].members[i].id
                      /\ table'[j].members[i].id # r
        <5>1. CASE j = k
          BY <3>1, <4>1, <4>2, <5>1 DEF In
        <5>2. CASE j # k
          BY <2>3, <3>1, <4>2, <5>2 DEF In
        <5>3. QED
          BY <5>1, <5>2
      <4>3. QED
        BY <4>2 DEF AskedInv, ListedOnce
    <3>7. QED
      BY <1>2, <2>1, <3>4, <3>5, <3>6, ServedAsked
  <2>4. QED
    BY <1>4, <2>2, <2>3
<1>5. ASSUME NEW k \in Slot, table' = Enrolled(k, m.from)
      PROVE  \/ table' = table
             \/ /\ table'[k].members = Append(table[k].members, [id |-> r, voted |-> FALSE])
                /\ table'[k].tid = table[k].tid
                /\ \A j \in Slot \ {k} : table'[j] = table[j]
  <2>1. table \in [Slot -> [tid: AnyTid, isCrash: BOOLEAN, members: Seq(Member)]]
    BY DEF SystemTypeOK, MgrTypeOK
  <2>2. QED
    BY <1>1, <1>5, <2>1 DEF Enrolled
<1>6. QED
  <2>1. CASE \E k \in Slot : table' = Enrolled(k, m.from) /\ sent' = Reply(m, "JOIN_SUCCESS")
    BY <1>4, <1>5, <2>1
  <2>2. CASE table' = table /\ sent' = Reply(m, "JOIN_FAIL")
    BY <1>4, <2>2
  <2>3. QED
    BY <1>3, <2>1, <2>2 DEF MgrJoin

(* Listed once, a worker is sent one copy of what is broadcast, or none.         *)
LEMMA OneCopy ==
  ASSUME ListedOnce, NEW tid, NEW kind, NEW w \in Worker
  PROVE  Broadcast(tid, kind)[w] = <<>> \/ Len(Broadcast(tid, kind)[w]) = 1
<1>1. Broadcast(tid, kind)[w] = [i \in 1..Cardinality(Entries(tid, w)) |-> Msg(kind, tid)]
  BY DEF Broadcast, Msg
<1>2. CASE Entries(tid, w) = {}
  <2>1. Cardinality(Entries(tid, w)) = 0
    BY <1>2, FS_EmptySet
  <2>2. QED
    BY <1>1, <2>1
<1>3. CASE Entries(tid, w) # {}
  <2>1. PICK x : x \in Entries(tid, w)
    BY <1>3
  <2>2. ASSUME NEW y \in Entries(tid, w) PROVE y = x
    <3>1. /\ x \in Slot \X (1..MaxNodes) /\ y \in Slot \X (1..MaxNodes)
          /\ x[2] \in DOMAIN table[x[1]].members /\ y[2] \in DOMAIN table[y[1]].members
          /\ table[x[1]].members[x[2]].id = table[y[1]].members[y[2]].id
      BY <2>1, <2>2 DEF Entries
    <3>2. x[1] = y[1] /\ x[2] = y[2]
      BY <3>1 DEF ListedOnce
    <3>3. QED
      BY <3>1, <3>2
  <2>3. Entries(tid, w) = {x}
    BY <2>1, <2>2
  <2>4. Cardinality(Entries(tid, w)) = 1
    BY <2>3, FS_Singleton
  <2>5. QED
    BY <1>1, <2>4
<1>4. QED
  BY <1>2, <1>3

(* The request that is read is the only one for its transaction.                 *)
LEMMA RequestRead ==
  ASSUME SystemTypeOK, RequestedOnce, Serves, NEW r \in Worker, NEW m, Reads(r, m),
         m.kind = "COMMIT", m.tid \in Tid
  PROVE  ~Logged("COMMIT_REQ", m.tid) /\ ~Pending(m.tid)'
<1>1. toM[r] \in Seq(ToManager) /\ 1 \in DOMAIN toM[r] /\ m = toM[r][1] /\ m \in Range(toM[r])
  <2>1. toM[r] \in Seq(ToManager)
    BY DEF SystemTypeOK
  <2>2. QED
    BY <2>1, RangeRead DEF Reads
<1>2. ~Logged("COMMIT_REQ", m.tid)
  BY <1>1 DEF RequestedOnce, Pending
<1>3. ASSUME NEW u \in Worker, NEW i \in CommitsOf(toM[u], m.tid) PROVE u = r /\ i = 1
  BY <1>1, <1>3 DEF RequestedOnce, CommitsOf
<1>4. ASSUME NEW u \in Worker, NEW i \in CommitsOf(toM'[u], m.tid) PROVE FALSE
  <2>1. CASE u = r
    <3>1. toM'[r] = Tail(toM[r])
      <4>1. CommitsOf(<<>>, m.tid) = {}
        BY DEF CommitsOf
      <4>2. toM'[r] # <<>>
        BY <1>4, <2>1, <4>1
      <4>3. QED
        BY <4>2 DEF Reads
    <3>2. /\ i \in DOMAIN Tail(toM[r]) /\ i + 1 \in DOMAIN toM[r]
          /\ Tail(toM[r])[i] = toM[r][i + 1] /\ i \in Nat
          /\ i > 0
      <4>1. i \in DOMAIN Tail(toM[r])
        BY <1>4, <2>1, <3>1 DEF CommitsOf
      <4>2. Tail(toM[r]) \in Seq(ToManager)
        BY <1>1, RangeRead DEF Reads
      <4>3. QED
        BY <1>1, <4>1, <4>2, TailPlaces DEF Reads
    <3>3. i + 1 \in CommitsOf(toM[r], m.tid)
      BY <1>4, <2>1, <3>1, <3>2 DEF CommitsOf
    <3>4. QED
      BY <1>3, <3>2, <3>3
  <2>2. CASE u # r
    <3>1. toM[u] \in Seq(ToManager) /\ Shrunk(toM'[u], toM[u])
      BY DEF SystemTypeOK, Serves
    <3>2. CommitsOf(toM[u], m.tid) # {}
      BY <1>4, <3>1, ShrunkCommits
    <3>3. QED
      BY <1>3, <2>2, <3>2
  <2>3. QED
    BY <2>1, <2>2
<1>5. ~Pending(m.tid)'
  BY <1>4 DEF Pending, CommitsOf, Range
<1>6. QED
  BY <1>2, <1>5

(* A COMMIT is read, and the members asked to prepare.                           *)
LEMMA CommitAsked ==
  ASSUME SystemTypeOK, BufferInv, AskedInv, Serves, NEW r \in Worker, NEW m, Reads(r, m),
         MgrCommit(m)
  PROVE  AskedInv'
<1>1. /\ m.kind = "COMMIT" /\ table' = table /\ sent' = Broadcast(m.tid, "PREPARE_COMMIT")
      /\ mlog' = mlog \cup {[kind |-> "COMMIT_REQ", tid |-> m.tid]}
  BY DEF MgrCommit
<1>2. m.tid \in AnyTid
  <2>1. toM[r] \in Seq(ToManager)
    BY DEF SystemTypeOK
  <2>2. m \in ToManager
    BY <2>1, RangeRead DEF Reads
  <2>3. QED
    BY <2>2 DEF ToManager
<1>3. /\ Logged("COMMIT_REQ", m.tid)'
      /\ \A t : t # m.tid /\ Logged("COMMIT_REQ", t)' => Logged("COMMIT_REQ", t)
  BY <1>1 DEF Logged
<1>4. RequestedOnce'
  <2>1. ASSUME NEW t \in Tid
        PROVE  Pending(t)' => ~Logged("COMMIT_REQ", t)'
                 \/ (Logged("COMMIT_REQ", t)' => Logged("COMMIT_REQ", t))
    <3>1. CASE t = m.tid
      <4>1. ~Pending(m.tid)'
        BY <1>1, <3>1, RequestRead DEF AskedInv
      <4>2. QED
        BY <3>1, <4>1
    <3>2. CASE t # m.tid
      BY <1>3, <3>2
    <3>3. QED
      BY <3>1, <3>2
  <2>2. QED
    BY <2>1, RequestedKept DEF AskedInv, RequestedOnce, Serves
<1>5. Stays
  BY <1>1, TableStays
<1>6. ASSUME NEW w \in Worker, NEW e \in Range(sent'[w])
      PROVE  e.kind = "PREPARE_COMMIT" /\ MayHear(w, e.kind)
  <2>1. e = Msg("PREPARE_COMMIT", m.tid) /\ \E k \in Holding(m.tid) : w \in In(k)
    BY <1>1, SentBroadcast
  <2>2. PICK k \in Holding(m.tid) : w \in In(k)
    BY <2>1
  <2>3. k \in Slot /\ table[k].tid = m.tid /\ Listed(w)
    BY <2>2 DEF Holding, Listed
  <2>4. m.tid \in Tid
    <3>1. m.tid # NoTid
      BY <2>2, <2>3 DEF In, BufferInv, SlotsBegun
    <3>2. QED
      BY <1>2, <3>1 DEF AnyTid
  <2>5. ~Logged("COMMIT_REQ", table[k].tid)
    BY <1>1, <2>3, <2>4, RequestRead DEF AskedInv
  <2>6. Entry(w) /\ Order(w)
    BY DEF AskedInv
  <2>7. ~Asked(w) /\ "PREPARE_COMMIT" \notin Kinds(toW[w])
    BY <2>2, <2>3, <2>5, <2>6 DEF Order
  <2>8. ~Fresh(w)'
    <3>1. ~Fresh(w)
      BY <2>3, <2>6 DEF Entry
    <3>2. Entry(w) /\ Idle(w)
      BY DEF AskedInv, Serves, Idle, Rests
    <3>3. QED
      BY <3>1, <3>2, IdleSays DEF Says
  <2>9. ASSUME NEW j \in Slot, w \in In(j)' PROVE Logged("COMMIT_REQ", table[j].tid)'
    <3>1. w \in In(j)
      BY <1>1, <2>9 DEF In
    <3>2. j = k
      BY <2>2, <2>3, <3>1 DEF AskedInv, ListedOnce, In
    <3>3. table'[j].tid = m.tid
      BY <1>1, <2>3, <3>2
    <3>4. QED
      BY <1>3, <3>3 DEF Logged
  <2>10. \A a \in Kinds(toW[w]) : MayFollow(a, "PREPARE_COMMIT")
    BY <2>7 DEF MayFollow
  <2>11. e.kind = "PREPARE_COMMIT"
    BY <2>1 DEF Msg
  <2>12. QED
    BY <2>7, <2>8, <2>9, <2>10, <2>11 DEF MayHear
<1>7. ASSUME NEW w \in Worker PROVE Hearing(w)
  <2>1. Len(sent'[w]) <= 1
    <3>1. sent'[w] = <<>> \/ Len(sent'[w]) = 1
      BY <1>1, OneCopy DEF AskedInv
    <3>2. Len(<<>>) <= 1
      OBVIOUS
    <3>3. CASE sent'[w] = <<>>
      BY <3>2, <3>3
    <3>4. CASE Len(sent'[w]) = 1
      BY <3>4
    <3>5. QED
      BY <3>1, <3>3, <3>4
  <2>2. \A b \in Kinds(sent'[w]) : MayHear(w, b)
    BY <1>6 DEF Kinds
  <2>3. QED
    BY <2>1, <2>2 DEF Hearing
<1>8. QED
  BY <1>4, <1>5, <1>7, StaysListed, ServedAsked DEF AskedInv

(* A vote or a poll is answered, or decides.                                     *)
LEMMA VoteServes ==
  ASSUME SystemTypeOK, BufferInv, NEW r \in Worker, NEW m, Reads(r, m),
         MgrVoteCommit(m) \/ MgrVoteAbort(m)
  PROVE  /\ Stays /\ TellsDecisions
         /\ \A t \in Tid : Logged("COMMIT_REQ", t)' => Logged("COMMIT_REQ", t)
<1>1. m.kind \in Followup /\ m.from = r
  BY DEF MgrVoteCommit, MgrVoteAbort, Reads, Followup, Ballot
<1>2. m \in Range(toM[r])
  <2>1. toM[r] \in Seq(ToManager)
    BY DEF SystemTypeOK
  <2>2. QED
    BY <2>1, RangeRead DEF Reads
<1>3. "DECIDE_COMMIT" \in Decision /\ "DECIDE_ABORT" \in Decision
  BY DEF Decision
<1>4. PICK k \in 0..MaxTrans : \/ StillWaiting(m, k) \/ AnswerAbort(m, k) \/ AnswerCommit(m, k)
                               \/ DecideCommit(m, k) \/ Decide(m, k, "DECIDE_ABORT")
  BY DEF MgrVoteCommit, MgrVoteAbort
<1>5. Stays
  <2>1. table' = Counted(k, m) \/ table' = Cleaned(k)
    BY <1>4 DEF StillWaiting, AnswerAbort, AnswerCommit, DecideCommit, Decide
  <2>2. table' = table \/ (k \in Slot /\ table' = Counted(k, m)) \/ table' = Cleaned(k)
    <3>1. k = 0 \/ k \in Slot
      BY SizesAssumption DEF Slot
    <3>2. k = 0 => Counted(k, m) = table
      BY DEF Counted
    <3>3. QED
      BY <2>1, <3>1, <3>2
  <2>3. QED
    BY <2>2, TableStays
<1>6. \A t \in Tid : Logged("COMMIT_REQ", t)' => Logged("COMMIT_REQ", t)
  <2>1. mlog' = mlog \/ \E kind \in Decision : mlog' = mlog \cup {[kind |-> kind, tid |-> m.tid]}
    BY <1>3, <1>4 DEF StillWaiting, AnswerAbort, AnswerCommit, DecideCommit, Decide
  <2>2. QED
    BY <2>1 DEF Logged, Decision
<1>7. SendsDecisions
  <2>1. \/ sent' = Silence
        \/ \E kind \in Decision : sent' = Reply(m, kind) \/ sent' = Broadcast(m.tid, kind)
    BY <1>3, <1>4 DEF StillWaiting, AnswerAbort, AnswerCommit, DecideCommit, Decide
  <2>2. QED
    BY <1>1, <1>2, <2>1 DEF SendsDecisions
<1>8. QED
  BY <1>5, <1>6, <1>7, DecisionsTold

(* It asks nobody.                                                               *)
LEMMA VoteAsked ==
  ASSUME SystemTypeOK, BufferInv, AskedInv, Serves, NEW r \in Worker, NEW m, Reads(r, m),
         MgrVoteCommit(m) \/ MgrVoteAbort(m)
  PROVE  AskedInv'
BY VoteServes, TellsAsked

(* The manager reads a datagram of the worker it is from.                        *)
LEMMA DeliverReads ==
  ASSUME SystemTypeOK, SystemTypeOK', Signed, NEW r \in Worker, DeliverToManager(r)
  PROVE  \E m : Serves /\ Reads(r, m) /\ MgrReceive(m)
<1> DEFINE m == Head(toM[r])
<1>1. toM[r] # <<>> /\ ManagerMoves(Popped(toM, r), MgrReceive(m)) /\ MgrReceive(m)
  BY DEF DeliverToManager, ManagerMoves
<1>2. mlog \subseteq mlog'
  BY <1>1 DEF MgrReceive, MgrBegin, MgrJoin, MgrCommit, MgrVoteCommit, MgrVoteAbort,
              StillWaiting, AnswerAbort, AnswerCommit, DecideCommit, Decide
<1>3. Serves
  BY <1>1, <1>2, ManagerServes
<1>4. Reads(r, m)
  <2>1. toM[r] \in Seq(ToManager) /\ toM \in [Worker -> Seq(ToManager)]
    BY DEF SystemTypeOK
  <2>2. m.from = r
    BY <1>1, <2>1, RangeRead DEF Signed
  <2>3. toM'[r] \in {<<>>, Tail(toM[r])}
    <3>1. posted' = <<>> /\ RouteToManager(Popped(toM, r))
      BY <1>1 DEF ManagerMoves
    <3>2. PostedBy(r)' = <<>>
      BY <3>1 DEF PostedBy
    <3>3. Popped(toM, r)[r] = Tail(toM[r])
      BY <2>1 DEF Popped
    <3>4. toM'[r] \in {<<>>, Tail(toM[r]) \o <<>>}
      BY <3>1, <3>2, <3>3 DEF RouteToManager
    <3>5. Tail(toM[r]) \o <<>> = Tail(toM[r])
      <4>1. Tail(toM[r]) \in Seq(ToManager)
        BY <1>1, <2>1, RangeRead
      <4>2. QED
        BY <4>1
    <3>6. QED
      BY <3>4, <3>5
  <2>4. QED
    BY <1>1, <2>2, <2>3 DEF Reads
<1>5. QED
  BY <1>1, <1>3, <1>4

(* Whatever it reads.                                                            *)
LEMMA DeliverAsked ==
  ASSUME SystemTypeOK, SystemTypeOK', BufferInv, AskedInv, Signed, NEW r \in Worker,
         DeliverToManager(r)
  PROVE  AskedInv'
<1>1. PICK m : Serves /\ Reads(r, m) /\ MgrReceive(m)
  BY DeliverReads
<1>2. QED
  BY <1>1, BeginAsked, JoinAsked, CommitAsked, VoteAsked DEF MgrReceive

-------------------------------------------------------------------------------
\* Every step

(* Whatever step is taken, by considerate users.                                 *)
LEMMA AskedStep ==
  ASSUME SystemTypeOK, SystemTypeOK', BufferInv, AskedInv, Signed, [Next]_vars, [Considerate]_vars
  PROVE  AskedInv'
<1>1. ASSUME UNCHANGED vars PROVE AskedInv'
  <2>1. /\ \A u \in Worker : Rests(u) /\ Shrunk(toM'[u], toM[u]) /\ Shrunk(toW'[u], toW[u])
        /\ UNCHANGED <<table, mlog>>
    BY <1>1 DEF vars, mgrVars, workerVars, Rests, Shrunk
  <2>2. QED
    BY <2>1, LossAsked
<1>2. ASSUME NEW w \in Worker, LoseToManager(w) \/ LoseToWorker(w) PROVE AskedInv'
  <2>1. toM \in [Worker -> Seq(ToManager)] /\ toW \in [Worker -> Seq(ToWorker)]
    BY DEF SystemTypeOK
  <2>2. \/ toM[w] # <<>> /\ toM' = Popped(toM, w) /\ toW' = toW
        \/ toW[w] # <<>> /\ toW' = Popped(toW, w) /\ toM' = toM
    BY <1>2 DEF LoseToManager, LoseToWorker
  <2>3. \A u \in Worker : Shrunk(toM'[u], toM[u]) /\ Shrunk(toW'[u], toW[u])
    BY <2>1, <2>2 DEF Popped, Shrunk
  <2>4. (\A u \in Worker : Rests(u)) /\ UNCHANGED <<table, mlog>>
    BY <1>2 DEF LoseToManager, LoseToWorker, Rests
  <2>5. QED
    BY <2>3, <2>4, LossAsked
<1>3. ASSUME NEW w \in Worker,
             DeliverToWorker(w) \/ PollTimeout(w) \/ UserCommand(w) \/ RestartWorker(w)
      PROVE  AskedInv'
  <2>1. Considerate \/ UNCHANGED vars
    OBVIOUS
  <2>2. QED
    BY <1>1, <1>3, <2>1, WorkersAsked
<1>4. QED
  BY <1>1, <1>2, <1>3, DeliverAsked, OwnAsked DEF Next

(* At the start nobody was asked, and nothing is in the way.                     *)
LEMMA AskedStart ==
  ASSUME Init, OneJoinEach
  PROVE  Signed /\ AskedInv
<1>1. \A w \in Worker : /\ Range(toM[w]) = {} /\ DOMAIN toM[w] = {}
                        /\ Range(toW[w]) = {} /\ DOMAIN toW[w] = {}
  <2>1. \A w \in Worker : toM[w] = <<>> /\ toW[w] = <<>>
    BY DEF Init
  <2>2. DOMAIN <<>> = {}
    OBVIOUS
  <2>3. QED
    BY <2>1, <2>2, RangeEmpty
<1>2. \A k \in Slot : DOMAIN table[k].members = {}
  BY DEF Init, MgrInit, Free
<1>3. \A w \in Worker : DOMAIN wlog[w] = {} /\ ~mem[w].peer /\ ~known[w]
  <2>1. \A w \in Worker : wlog[w] = <<>> /\ mem[w] = Booted /\ known[w] = FALSE
    BY DEF Init, WorkerInit
  <2>2. DOMAIN <<>> = {} /\ Booted.peer = FALSE
    BY DEF Booted
  <2>3. QED
    BY <2>1, <2>2
<1>4. Signed
  BY <1>1 DEF Signed
<1>5. ListedOnce
  BY <1>2 DEF ListedOnce
<1>6. RequestedOnce
  BY <1>1 DEF RequestedOnce, Pending, CommitsOf
<1>7. ASSUME NEW w \in Worker PROVE Entry(w)
  BY <1>1, <1>2, <1>3 DEF Entry, OneJoinEach, Asking, LastWord, Asked, Listed, In, Kinds, Silent
<1>8. ASSUME NEW w \in Worker PROVE Order(w)
  BY <1>1, <1>3 DEF Order, InOrder, Asked, Kinds
<1>9. QED
  BY <1>4, <1>5, <1>6, <1>7, <1>8 DEF AskedInv

\* The invariant with the types and what the buffers hold.
ConsiderateInv == SystemTypeOK /\ BufferInv /\ Signed /\ AskedInv

(* So a worker is asked at most once, whatever is lost or killed.                *)
LEMMA ConsiderateInvariant == ConsiderateSpec => []ConsiderateInv
<1>1. Init /\ OneJoinEach => ConsiderateInv
  BY SystemStart, AskedStart DEF ConsiderateInv
<1>2. ConsiderateInv /\ [Next]_vars /\ [Considerate]_vars => ConsiderateInv'
  <2>1. SUFFICES ASSUME ConsiderateInv, [Next]_vars, [Considerate]_vars PROVE ConsiderateInv'
    OBVIOUS
  <2>2. SystemTypeOK' /\ BufferInv'
    BY <2>1, SystemStep DEF ConsiderateInv, GoodStep
  <2>3. Signed'
    BY <2>1, <2>2, SignedStep DEF ConsiderateInv
  <2>4. AskedInv'
    BY <2>1, <2>2, AskedStep DEF ConsiderateInv
  <2>5. QED
    BY <2>2, <2>3, <2>4 DEF ConsiderateInv
<1>3. QED
  BY <1>1, <1>2, PTL DEF ConsiderateSpec, Spec

-------------------------------------------------------------------------------
\* A worker that waits

(* A step is one of one worker's, or leaves the workers alone.                   *)
LEMMA WhoseStep ==
  ASSUME SystemTypeOK, BufferInv, [Next]_vars, NEW w \in Worker
  PROVE  \/ Rests(w)
         \/ toW[w] # <<>> /\ WorkerReceive(w, Head(toW[w]))
         \/ Poll(w) \/ CmdAny(w) \/ WorkerRestart(w)
<1>1. ASSUME UNCHANGED <<wlog, obj, known, mem, joinedAt, named, left>> PROVE Rests(w)
  BY <1>1 DEF Rests
<1>2. ASSUME UNCHANGED vars PROVE Rests(w)
  BY <1>1, <1>2 DEF vars, workerVars
<1>3. ASSUME \/ ManagerTimeout \/ ManagerKill \/ ManagerTorn \/ ManagerRestart \/ ManagerRecoverSlot
             \/ \E u \in Worker : DeliverToManager(u) \/ LoseToManager(u) \/ LoseToWorker(u)
      PROVE  Rests(w)
  BY <1>1, <1>3 DEF ManagerTimeout, ManagerKill, ManagerTorn, ManagerRestart, ManagerRecoverSlot,
                    DeliverToManager, LoseToManager, LoseToWorker, ManagerMoves
<1>4. ASSUME NEW u \in Worker \ {w},
             DeliverToWorker(u) \/ PollTimeout(u) \/ UserCommand(u) \/ RestartWorker(u)
      PROVE  Rests(w)
  BY <1>4, WorkerActs DEF Acts
<1>5. ASSUME DeliverToWorker(w) \/ PollTimeout(w) \/ UserCommand(w) \/ RestartWorker(w)
      PROVE  \/ toW[w] # <<>> /\ WorkerReceive(w, Head(toW[w]))
             \/ Poll(w) \/ CmdAny(w) \/ WorkerRestart(w)
  BY <1>5 DEF DeliverToWorker, PollTimeout, UserCommand, RestartWorker, WorkerMoves
<1>6. QED
  BY <1>2, <1>3, <1>4, <1>5 DEF Next

(* A command leaves the worker at its prompt, or dead.                           *)
LEMMA CommandPrompt ==
  ASSUME WorkerTypeOK, NEW w \in Worker, CmdAny(w)
  PROVE  mem[w].pc = "loop" /\ mem'[w].pc \in {"loop", "down"}
<1>1. mem[w] \in Memory /\ mem \in [Worker -> Memory]
  BY DEF WorkerTypeOK
<1>2. mem[w].pc = "loop"
  BY DEF CmdAny, CmdBegin, CmdJoin, CmdUpdate, CmdDelay, CmdCrash, CmdCommit, CmdAbort,
         CmdVoteAbort, Ask
<1>3. Dead.pc = "down"
  BY DEF Dead, Booted
<1>4. ASSUME NEW m, NEW next, SendThen(w, m, next) \/ Quiet(w, next) \/ Quiet(w, Dead), next.pc = "loop"
      PROVE  mem'[w].pc \in {"loop", "down"}
  BY <1>1, <1>3, <1>4 DEF SendThen, Quiet
<1>5. ASSUME NEW t \in Tid, CmdBegin(w, t) \/ CmdJoin(w, t) PROVE mem'[w].pc \in {"loop", "down"}
  <2> DEFINE next == [mem[w] EXCEPT !.addr = TRUE]
  <2>1. next.pc = "loop" /\ \E m : SendThen(w, m, next)
    BY <1>1, <1>2, <1>5 DEF CmdBegin, CmdJoin, Memory
  <2> HIDE DEF next
  <2>2. QED
    BY <1>4, <2>1
<1>6. ASSUME NEW kind, CmdCommit(w, kind) PROVE mem'[w].pc \in {"loop", "down"}
  <2> DEFINE next == [mem[w] EXCEPT !.isCrash = (kind = "COMMIT_CRASH")]
  <2>1. next.pc = "loop" /\ \E m : SendThen(w, m, next) \/ Quiet(w, next) \/ Quiet(w, Dead)
    BY <1>1, <1>2, <1>6 DEF CmdCommit, Memory
  <2> HIDE DEF next
  <2>2. QED
    BY <1>4, <2>1
<1>7. ASSUME NEW kind, CmdAbort(w, kind) PROVE mem'[w].pc \in {"loop", "down"}
  <2>1. mem'[w] = [mem[w] EXCEPT !.isCrash = (kind = "ABORT_CRASH")]
    BY <1>1, <1>7 DEF CmdAbort, Quiet
  <2>2. QED
    BY <1>1, <1>2, <2>1 DEF Memory
<1>8. ASSUME NEW d \in Delay, CmdDelay(w, d) PROVE mem'[w].pc \in {"loop", "down"}
  <2>1. mem'[w] = [mem[w] EXCEPT !.delay = d]
    BY <1>1, <1>8 DEF CmdDelay, Quiet
  <2>2. QED
    BY <1>1, <1>2, <2>1 DEF Memory
<1>9. ASSUME CmdVoteAbort(w) PROVE mem'[w].pc \in {"loop", "down"}
  <2>1. mem'[w] = [mem[w] EXCEPT !.voteAbort = TRUE]
    BY <1>1, <1>9 DEF CmdVoteAbort, Quiet
  <2>2. QED
    BY <1>1, <1>2, <2>1 DEF Memory
<1>10. ASSUME CmdCrash(w) \/ \E f \in Field, v \in Value : CmdUpdate(w, f, v)
       PROVE  mem'[w].pc \in {"loop", "down"}
  BY <1>1, <1>2, <1>3, <1>10 DEF CmdCrash, CmdUpdate, Quiet
<1>11. QED
  BY <1>2, <1>5, <1>6, <1>7, <1>8, <1>9, <1>10 DEF CmdAny

(* A request to prepare is put on record before anything else.                   *)
LEMMA PrepareAsks ==
  ASSUME WorkerTypeOK, NEW w \in Worker, NEW m \in ToWorker, RecvPrepare(w, m)
  PROVE  Asked(w)'
<1>1. wlog[w] \in Seq(WorkerRecord) /\ wlog \in [Worker -> Seq(WorkerRecord)]
  BY DEF WorkerTypeOK
<1> DEFINE p == Rec("PREPARE_COMMIT", m.tid)
           v == Rec("VOTE_COMMIT", m.tid)
           n == Len(wlog[w]) + 1
<1>2. wlog'[w] = Append(wlog[w], p) \/ wlog'[w] = Append(Append(wlog[w], p), v)
  BY <1>1 DEF RecvPrepare
<1>3. p \in WorkerRecord /\ v \in WorkerRecord /\ p.kind = "PREPARE_COMMIT"
  BY RecType DEF RecordTag, ToWorker, Rec
<1> HIDE DEF p, v
<1>4. n \in DOMAIN wlog'[w] /\ wlog'[w][n] = p
  BY <1>1, <1>2, <1>3
<1>5. QED
  BY <1>3, <1>4 DEF Asked

(* A worker waits because it was asked, or polls for a decision it was told of.  *)
LEMMA WaitsStep ==
  ASSUME SystemTypeOK, BufferInv, WaitsAsked, [Next]_vars, [Aware]_vars
  PROVE  WaitsAsked'
<1>1. SUFFICES ASSUME NEW w \in Worker
               PROVE  /\ mem'[w].pc = "wait" => Asked(w)'
                      /\ mem'[w].pc = "down" /\ LastRecord(w)'.kind \in Resolved => Asked(w)'
  BY DEF WaitsAsked
<1>2. WorkerTypeOK /\ mem[w] \in Memory /\ mem \in [Worker -> Memory] /\ toW[w] \in Seq(ToWorker)
  BY DEF SystemTypeOK, WorkerTypeOK
<1>3. CASE Rests(w)
  BY <1>3 DEF Rests, WaitsAsked, Asked, LastRecord
<1>4. ASSUME mem[w].pc # "down", mem'[w].pc = "down", LastRecord(w)'.kind \in Resolved
      PROVE  Asked(w)'
  <2>1. Aware
    BY <1>4 DEF vars, workerVars
  <2>2. QED
    BY <1>4, <2>1 DEF Aware, Dies
<1>5. CASE CmdAny(w)
  <2>1. mem[w].pc = "loop" /\ mem'[w].pc \in {"loop", "down"}
    BY <1>2, <1>5, CommandPrompt
  <2>2. QED
    BY <1>4, <2>1
<1>6. CASE toW[w] # <<>> /\ WorkerReceive(w, Head(toW[w]))
  <2> DEFINE m == Head(toW[w])
  <2>1. m \in ToWorker
    BY <1>2, <1>6, RangeRead
  <2> HIDE DEF m
  <2>2. CASE RecvPrepare(w, m)
    BY <1>2, <2>1, <2>2, PrepareAsks
  <2>3. CASE RecvJoinReply(w, m) \/ RecvDecision(w, m) \/ RecvOther(w, m)
    <3>1. RecvJoinReply(w, m) => mem'[w].pc = "loop"
      <4>1. RecvJoinReply(w, m) => \/ mem'[w] = mem[w]
                                  \/ mem'[w] = [mem[w] EXCEPT !.curTid = m.tid, !.txRun = TRUE]
        BY <1>2 DEF RecvJoinReply, Quiet
      <4>2. [mem[w] EXCEPT !.curTid = m.tid, !.txRun = TRUE].pc = mem[w].pc
        BY <1>2 DEF Memory
      <4>3. RecvJoinReply(w, m) => mem[w].pc = "loop"
        BY DEF RecvJoinReply
      <4>4. QED
        BY <4>1, <4>2, <4>3
    <3>2. RecvDecision(w, m) => mem'[w].pc = "loop"
      BY <1>2 DEF RecvDecision, Quiet, Memory
    <3>3. RecvOther(w, m) => mem'[w].pc = "loop"
      BY <1>2 DEF RecvOther, Quiet, Memory
    <3>4. QED
      BY <2>3, <3>1, <3>2, <3>3
  <2>4. QED
    BY <1>6, <2>2, <2>3 DEF WorkerReceive, m
<1>7. CASE Poll(w)
  <2>1. Asked(w)'
    BY <1>7 DEF Poll, WaitsAsked, Asked
  <2>2. QED
    BY <2>1
<1>8. CASE WorkerRestart(w)
  <2>1. CASE LastRecord(w).kind \in Resolved
    <3>1. Asked(w)'
      BY <1>8, <2>1 DEF WorkerRestart, WaitsAsked, Asked
    <3>2. QED
      BY <3>1
  <2>2. CASE LastRecord(w).kind \notin Resolved
    <3>1. mem'[w] = [Booted EXCEPT !.curTid = LastRecord(w).tid]
      BY <1>2, <1>8, <2>2 DEF WorkerRestart, Quiet
    <3>2. mem'[w].pc = "loop"
      BY <3>1 DEF Booted
    <3>3. QED
      BY <3>2
  <2>3. QED
    BY <2>1, <2>2
<1>9. QED
  BY <1>3, <1>5, <1>6, <1>7, <1>8, WhoseStep

(* An asked worker has only decisions to read, and leaves the wait by one.       *)
LEMMA LeavesByDecision ==
  ASSUME SystemTypeOK, BufferInv, AskedInv, [Next]_vars, NEW w \in Worker, Asked(w),
         mem[w].pc = "wait", mem'[w].pc = "loop"
  PROVE  wlog'[w] # wlog[w] /\ LastRecord(w)'.kind \in {"DECIDE_COMMIT", "DECIDE_ABORT"}
<1>1. WorkerTypeOK /\ mem[w] \in Memory /\ mem \in [Worker -> Memory] /\ toW[w] \in Seq(ToWorker)
      /\ wlog[w] \in Seq(WorkerRecord) /\ wlog \in [Worker -> Seq(WorkerRecord)]
  BY DEF SystemTypeOK, WorkerTypeOK
<1>2. ~Rests(w) /\ ~WorkerRestart(w) /\ ~CmdAny(w)
  BY <1>1, CommandPrompt DEF Rests, WorkerRestart
<1>3. ~Poll(w)
  <2>1. Dead.pc = "down"
    BY DEF Dead, Booted
  <2>2. Poll(w) => mem'[w] = mem[w] \/ mem'[w] = Dead
    BY <1>1 DEF Poll, SendThen, Quiet
  <2>3. QED
    BY <2>1, <2>2
<1> DEFINE m == Head(toW[w])
<1>4. toW[w] # <<>> /\ WorkerReceive(w, m)
  BY <1>2, <1>3, WhoseStep
<1>5. m \in ToWorker /\ m.kind \in Decision
  BY <1>1, <1>4, RangeRead DEF AskedInv, Order, Kinds
<1> HIDE DEF m
<1>6. wlog'[w] = Append(wlog[w], Rec(m.kind, m.tid))
  BY <1>1, <1>4, <1>5 DEF WorkerReceive, RecvJoinReply, RecvPrepare, RecvDecision, RecvOther,
                          Write, Decision
<1>7. LastRecord(w)' = Rec(m.kind, m.tid) /\ wlog'[w] # wlog[w]
  BY <1>1, <1>6 DEF LastRecord
<1>8. QED
  BY <1>5, <1>7 DEF Rec, Decision

(* tworker.c:585, "we are in uncertain state, block and wait": where users ask   *)
(* to commit once and a dying worker's log does not pretend that it was asked, a *)
(* worker leaves the wait only by recording a decision or by crashing, whatever  *)
(* is lost and however often the manager is killed.                              *)
THEOREM WaitsForDecision == ConsiderateSpec /\ [][Aware]_vars => UncertainBlocks
<1>1. Init => WaitsAsked
  <2>1. Init => \A w \in Worker : mem[w] = Booted
    BY DEF Init, WorkerInit
  <2>2. Booted.pc = "loop"
    BY DEF Booted
  <2>3. QED
    BY <2>1, <2>2 DEF WaitsAsked
<1>2. ConsiderateInv /\ WaitsAsked /\ [Next]_vars /\ [Aware]_vars => WaitsAsked'
  BY WaitsStep DEF ConsiderateInv
<1> DEFINE Left(w) == mem[w].pc = "wait" /\ mem'[w].pc = "loop" =>
                        /\ wlog'[w] # wlog[w]
                        /\ LastRecord(w)'.kind \in {"DECIDE_COMMIT", "DECIDE_ABORT"}
<1>3. ConsiderateInv /\ WaitsAsked /\ [Next]_vars => [\A w \in Worker : Left(w)]_vars
  <2>1. SUFFICES ASSUME ConsiderateInv, WaitsAsked, [Next]_vars, NEW w \in Worker,
                        mem[w].pc = "wait", mem'[w].pc = "loop"
                 PROVE  /\ wlog'[w] # wlog[w]
                        /\ LastRecord(w)'.kind \in {"DECIDE_COMMIT", "DECIDE_ABORT"}
    OBVIOUS
  <2>2. Asked(w)
    BY <2>1 DEF WaitsAsked
  <2>3. QED
    BY <2>1, <2>2, LeavesByDecision DEF ConsiderateInv
<1>4. QED
  BY <1>1, <1>2, <1>3, ConsiderateInvariant, PTL DEF ConsiderateSpec, Spec, UncertainBlocks

-------------------------------------------------------------------------------
\* Inside a transaction

\* What w puts on record in a step is about t, and neither a join nor a change.
Notes(w, t) ==
  \E s \in Seq(WorkerRecord) :
    /\ wlog'[w] = wlog[w] \o s
    /\ \A r \in Range(s) : r.tid = t /\ r.kind \notin {"JOINTX", "NEW_VALUE"}

\* A worker inside t goes on with t.
Continues(w, t) ==
  /\ joinedAt'[w] = joinedAt[w]
  /\ Logbook(w, t)'
  /\ mem'[w].pc # "down" => mem'[w].curTid = t
  /\ \A i \in DOMAIN posted' : posted'[i].kind \in Followup => posted'[i].tid = t
  /\ Undecided(w, t)' => /\ \A f \in Field : Undone(w, f)' = joinedAt[w][t][1][f]
                         /\ mem'[w].pc = "loop" => mem'[w].txRun
                         /\ mem'[w].pc = "wait" => Asked(w)'

(* One record, or none, is a note if it is of the kind.                          *)
LEMMA NotesSome ==
  ASSUME WorkerTypeOK, NEW w \in Worker, NEW t \in AnyTid,
         \/ wlog'[w] = wlog[w]
         \/ \E kind \in RecordTag \ {"JOINTX"} : wlog'[w] = Append(wlog[w], Rec(kind, t))
  PROVE  Notes(w, t)
<1>1. wlog[w] \in Seq(WorkerRecord)
  BY DEF WorkerTypeOK
<1>2. CASE wlog'[w] = wlog[w]
  <2>1. <<>> \in Seq(WorkerRecord) /\ wlog'[w] = wlog[w] \o <<>> /\ Range(<<>>) = {}
    BY <1>1, <1>2, RangeEmpty
  <2>2. QED
    BY <2>1 DEF Notes
<1>3. ASSUME NEW kind \in RecordTag \ {"JOINTX"}, wlog'[w] = Append(wlog[w], Rec(kind, t))
      PROVE  Notes(w, t)
  <2> DEFINE r == Rec(kind, t)
  <2>1. r \in WorkerRecord /\ r.tid = t /\ r.kind \notin {"JOINTX", "NEW_VALUE"}
    BY <1>3, RecType DEF Rec, RecordTag
  <2> HIDE DEF r
  <2>2. <<r>> \in Seq(WorkerRecord) /\ wlog'[w] = wlog[w] \o <<r>> /\ Range(<<r>>) = {r}
    BY <1>1, <1>3, <2>1, RangeSingle DEF r
  <2>3. QED
    BY <2>1, <2>2 DEF Notes
<1>4. QED
  BY <1>2, <1>3

(* Notes make no transaction undecided, and leave what rolling back would yield. *)
LEMMA NotesKeep ==
  ASSUME WorkerTypeOK, NEW w \in Worker, NEW t, Logbook(w, t), Notes(w, t)
  PROVE  /\ Logbook(w, t)'
         /\ Undecided(w, t)' => Undecided(w, t)
         /\ Asked(w) => Asked(w)'
         /\ obj'[w] = obj[w] => \A f \in Field : Undone(w, f)' = Undone(w, f)
<1>1. PICK s \in Seq(WorkerRecord) :
        /\ wlog'[w] = wlog[w] \o s
        /\ \A r \in Range(s) : r.tid = t /\ r.kind \notin {"JOINTX", "NEW_VALUE"}
  BY DEF Notes
<1>2. Logbook(w, t)'
  BY <1>1, LogbookKept
<1>3. (\A kind : Wrote(w, kind, t) => Wrote(w, kind, t)') /\ (Asked(w) => Asked(w)')
  BY <1>1, WroteMore
<1>4. Undecided(w, t)' => Undecided(w, t)
  BY <1>3 DEF Undecided
<1>5. ASSUME obj'[w] = obj[w], NEW f \in Field PROVE Undone(w, f)' = Undone(w, f)
  BY <1>1, <1>5, NoChangeUndone
<1>6. QED
  BY <1>2, <1>3, <1>4, <1>5

(* A step that takes notes only, or decides.                                     *)
LEMMA NotesContinue ==
  ASSUME WorkerTypeOK, NEW w \in Worker, NEW t, Inside(w, t), Notes(w, t),
         joinedAt'[w] = joinedAt[w],
         \A i \in DOMAIN posted' : posted'[i].kind \in Followup => posted'[i].tid = t,
         mem'[w].pc # "down" => mem'[w].curTid = t,
         \/ ~Undecided(w, t)'
         \/ /\ obj'[w] = obj[w]
            /\ \/ mem'[w].pc = "down"
               \/ mem'[w].pc = mem[w].pc /\ mem'[w].txRun = mem[w].txRun
               \/ mem'[w].pc = "wait" /\ Asked(w)'
  PROVE  Continues(w, t)
<1>1. /\ Logbook(w, t)' /\ (Undecided(w, t)' => Undecided(w, t)) /\ (Asked(w) => Asked(w)')
      /\ obj'[w] = obj[w] => \A f \in Field : Undone(w, f)' = Undone(w, f)
  BY NotesKeep DEF Inside
<1>2. ASSUME Undecided(w, t)'
      PROVE  /\ \A f \in Field : Undone(w, f)' = joinedAt[w][t][1][f]
             /\ mem'[w].pc = "loop" => mem'[w].txRun
             /\ mem'[w].pc = "wait" => Asked(w)'
  <2>1. /\ \A f \in Field : Undone(w, f) = joinedAt[w][t][1][f]
        /\ mem[w].pc = "loop" => mem[w].txRun
        /\ mem[w].pc = "wait" => Asked(w)
    BY <1>1, <1>2 DEF Inside
  <2>2. \A f \in Field : Undone(w, f)' = joinedAt[w][t][1][f]
    BY <1>1, <1>2, <2>1
  <2>3. QED
    BY <1>1, <1>2, <2>1, <2>2
<1>3. QED
  BY <1>1, <1>2 DEF Continues

(* A worker that goes on with t is still inside it.                              *)
LEMMA StaysInside ==
  ASSUME NEW w \in Worker, NEW t, Inside(w, t), Continues(w, t), Kinds(toW'[w]) \subseteq Kinds(toW[w])
  PROVE  Inside(w, t)'
<1>1. joinedAt'[w][t][1] = joinedAt[w][t][1]
  BY DEF Continues
<1>2. QED
  BY <1>1 DEF Inside, Continues

(* The last record of a worker inside t is about t.                              *)
LEMMA LastInside ==
  ASSUME WorkerTypeOK, NEW w \in Worker, NEW t, Logbook(w, t)
  PROVE  /\ LastRecord(w).tid = t
         /\ \E i \in DOMAIN wlog[w] : wlog[w][i] = LastRecord(w)
<1>1. wlog[w] \in Seq(WorkerRecord) /\ DOMAIN wlog[w] = 1..Len(wlog[w]) /\ Len(wlog[w]) \in Nat
  BY DEF WorkerTypeOK
<1>2. PICK k \in DOMAIN wlog[w] : \A i \in DOMAIN wlog[w] : i >= k => wlog[w][i].tid = t
  BY DEF Logbook
<1>3. Len(wlog[w]) \in DOMAIN wlog[w] /\ Len(wlog[w]) >= k /\ wlog[w] # <<>>
  BY <1>1, <1>2
<1>4. LastRecord(w) = wlog[w][Len(wlog[w])]
  BY <1>3 DEF LastRecord
<1>5. QED
  BY <1>2, <1>3, <1>4

(* What a send of w's leaves in memory, next to what it would have left.         *)
LEMMA SendLeaves ==
  ASSUME WorkerTypeOK, NEW w \in Worker, NEW next, NEW m,
         SendThen(w, m, next) \/ Quiet(w, next) \/ Quiet(w, Dead)
  PROVE  /\ mem'[w].pc = "down" \/ mem'[w] = next
         /\ \A i \in DOMAIN posted' : posted'[i] = m
<1>1. Dead.pc = "down"
  BY DEF Dead, Booted
<1>2. DOMAIN <<>> = {}
  OBVIOUS
<1>3. CASE Quiet(w, next) \/ Quiet(w, Dead)
  BY <1>1, <1>2, <1>3 DEF Quiet, WorkerTypeOK
<1>4. CASE SendThen(w, m, next)
  BY <1>1, <1>4, SendModest
<1>5. QED
  BY <1>3, <1>4

(* A change is put on record with the value it replaces.                         *)
LEMMA UpdateContinues ==
  ASSUME WorkerTypeOK, NEW w \in Worker, NEW t \in Tid, Inside(w, t),
         NEW f \in Field, NEW v \in Value, CmdUpdate(w, f, v)
  PROVE  Continues(w, t)
<1>1. /\ mem[w].pc = "loop" /\ joinedAt' = joinedAt /\ posted' = <<>> /\ mem'[w] = mem[w]
      /\ obj'[w] = [obj[w] EXCEPT ![f] = v]
  BY DEF CmdUpdate, Ask, Quiet, WorkerTypeOK
<1>2. DOMAIN posted' = {}
  BY <1>1
<1>3. mem[w].curTid = t
  BY <1>1 DEF Inside
<1>4. CASE mem[w].txRun
  <2> DEFINE r == [kind |-> "NEW_VALUE", tid |-> t, field |-> f, old |-> obj[w][f]]
  <2>1. wlog[w] \in Seq(WorkerRecord) /\ obj[w] \in Data /\ t \in AnyTid
    BY DEF WorkerTypeOK, AnyTid
  <2>2. wlog'[w] = Append(wlog[w], r)
    BY <1>3, <1>4 DEF CmdUpdate, Write, WorkerTypeOK
  <2>3. r \in WorkerRecord /\ r.tid = t /\ r.kind = "NEW_VALUE" /\ r.field = f
    BY <2>1 DEF WorkerRecord, Data
  <2>4. \A g \in Field : g = f => Undone(w, g)' = Undone(w, g)
    BY <2>1, <2>2, ChangeUndone
  <2> HIDE DEF r
  <2>5. <<r>> \in Seq(WorkerRecord) /\ wlog'[w] = wlog[w] \o <<r>> /\ Range(<<r>>) = {r}
    BY <2>1, <2>2, <2>3, RangeSingle
  <2>6. Logbook(w, t)'
    BY <2>3, <2>5, LogbookKept DEF Inside
  <2>7. Undecided(w, t)' => Undecided(w, t)
    BY <2>5, WroteMore DEF Undecided
  <2>8. ASSUME NEW g \in Field, g # f PROVE Undone(w, g)' = Undone(w, g)
    <3>1. obj'[w][g] = obj[w][g]
      BY <1>1, <2>1, <2>8 DEF Data
    <3>2. QED
      BY <2>3, <2>5, <2>8, <3>1, NoChangeUndone
  <2>9. \A g \in Field : Undone(w, g)' = Undone(w, g)
    BY <2>4, <2>8
  <2>10. QED
    BY <1>1, <1>2, <1>3, <1>4, <2>6, <2>7, <2>9 DEF Continues, Inside
<1>5. CASE ~mem[w].txRun
  <2>1. wlog' = wlog
    BY <1>5 DEF CmdUpdate
  <2>2. ~Undecided(w, t)'
    BY <1>1, <1>5, <2>1 DEF Inside, Undecided, Wrote
  <2>3. Notes(w, t)
    BY <2>1, NotesSome DEF AnyTid
  <2>4. QED
    BY <1>1, <1>2, <1>3, <2>2, <2>3, NotesContinue
<1>6. QED
  BY <1>4, <1>5

(* Every command of its user concerns the transaction a worker is inside.        *)
LEMMA CommandContinues ==
  ASSUME WorkerTypeOK, NEW w \in Worker, NEW t \in Tid, Inside(w, t), CmdAny(w)
  PROVE  Continues(w, t)
<1>1. mem[w] \in Memory /\ mem \in [Worker -> Memory] /\ wlog \in [Worker -> Seq(WorkerRecord)]
      /\ t \in AnyTid
  BY DEF WorkerTypeOK, AnyTid
<1>2. mem[w].pc = "loop" /\ mem[w].curTid = t
  BY CommandPrompt DEF Inside
<1>3. ASSUME NEW next, NEW m, m.kind \notin Followup,
             next.pc = "loop", next.curTid = t, next.txRun = mem[w].txRun,
             SendThen(w, m, next) \/ Quiet(w, next) \/ Quiet(w, Dead),
             joinedAt' = joinedAt, Notes(w, t), obj' = obj \/ ~Undecided(w, t)'
      PROVE  Continues(w, t)
  <2>1. /\ mem'[w].pc = "down" \/ mem'[w] = next
        /\ \A i \in DOMAIN posted' : posted'[i] = m
    BY <1>3, SendLeaves
  <2>2. QED
    BY <1>2, <1>3, <2>1, NotesContinue
<1>4. ASSUME NEW u \in Tid, CmdBegin(w, u) \/ CmdJoin(w, u) PROVE Continues(w, t)
  <2> DEFINE next == [mem[w] EXCEPT !.addr = TRUE]
  <2>1. PICK kind \in {"BEGINTX", "JOINTX"} : SendThen(w, ToMgr(w, kind, u, FALSE), next)
    BY <1>4 DEF CmdBegin, CmdJoin
  <2>2. next.pc = "loop" /\ next.curTid = t /\ next.txRun = mem[w].txRun
    BY <1>1, <1>2 DEF Memory
  <2>3. wlog' = wlog /\ obj' = obj /\ joinedAt' = joinedAt
    BY <1>4 DEF CmdBegin, CmdJoin
  <2>4. Notes(w, t)
    BY <1>1, <2>3, NotesSome
  <2> DEFINE m == ToMgr(w, kind, u, FALSE)
  <2>5. m.kind \notin Followup
    BY DEF Followup, Ballot, ToMgr
  <2> HIDE DEF next, m
  <2>6. QED
    BY <1>3, <2>1, <2>2, <2>3, <2>4, <2>5 DEF m
<1>5. ASSUME CmdCrash(w) \/ CmdVoteAbort(w) \/ \E d \in Delay : CmdDelay(w, d)
      PROVE  Continues(w, t)
  <2>1. wlog' = wlog /\ obj' = obj /\ joinedAt' = joinedAt /\ posted' = <<>> /\ DOMAIN posted' = {}
    BY <1>5 DEF CmdCrash, CmdVoteAbort, CmdDelay, Quiet
  <2>2. \/ mem'[w] = Dead \/ mem'[w] = [mem[w] EXCEPT !.voteAbort = TRUE]
        \/ \E d \in Delay : mem'[w] = [mem[w] EXCEPT !.delay = d]
    BY <1>1, <1>5 DEF CmdCrash, CmdVoteAbort, CmdDelay, Quiet
  <2>3. \/ mem'[w].pc = "down"
        \/ mem'[w].pc = mem[w].pc /\ mem'[w].curTid = t /\ mem'[w].txRun = mem[w].txRun
    BY <1>1, <1>2, <2>2 DEF Memory, Dead, Booted
  <2>4. Notes(w, t)
    BY <1>1, <2>1, NotesSome
  <2>5. QED
    BY <2>1, <2>3, <2>4, NotesContinue
<1>6. ASSUME NEW kind \in {"COMMIT", "COMMIT_CRASH"}, CmdCommit(w, kind) PROVE Continues(w, t)
  <2> DEFINE next == [mem[w] EXCEPT !.isCrash = (kind = "COMMIT_CRASH")]
  <2>1. SendThen(w, ToMgr(w, "COMMIT", t, FALSE), next) \/ Quiet(w, next) \/ Quiet(w, Dead)
    BY <1>2, <1>6 DEF CmdCommit
  <2>2. next.pc = "loop" /\ next.curTid = t /\ next.txRun = mem[w].txRun
    BY <1>1, <1>2 DEF Memory
  <2>3. wlog'[w] = Append(wlog[w], Rec(kind, t)) /\ obj' = obj /\ joinedAt' = joinedAt
    BY <1>1, <1>2, <1>6 DEF CmdCommit, Write
  <2>4. Notes(w, t)
    <3>1. kind \in RecordTag \ {"JOINTX"}
      BY DEF RecordTag
    <3>2. QED
      BY <1>1, <2>3, <3>1, NotesSome
  <2> DEFINE m == ToMgr(w, "COMMIT", t, FALSE)
  <2>5. m.kind \notin Followup
    BY DEF Followup, Ballot, ToMgr
  <2> HIDE DEF next, m
  <2>6. QED
    BY <1>3, <2>1, <2>2, <2>3, <2>4, <2>5 DEF m
<1>7. ASSUME NEW kind \in {"ABORT", "ABORT_CRASH"}, CmdAbort(w, kind) PROVE Continues(w, t)
  <2> DEFINE next == [mem[w] EXCEPT !.isCrash = (kind = "ABORT_CRASH")]
  <2>1. Quiet(w, next) /\ joinedAt' = joinedAt /\ wlog'[w] = Append(wlog[w], Rec("ABORT", t))
    BY <1>1, <1>2, <1>7 DEF CmdAbort, Write
  <2>2. next.pc = "loop" /\ next.curTid = t /\ next.txRun = mem[w].txRun
    BY <1>1, <1>2 DEF Memory
  <2>3. Notes(w, t)
    <3>1. "ABORT" \in RecordTag \ {"JOINTX"}
      BY DEF RecordTag
    <3>2. QED
      BY <1>1, <2>1, <3>1, NotesSome
  <2>4. ~Undecided(w, t)'
    <3>1. Wrote(w, "ABORT", t)'
      <4>1. wlog[w] \in Seq(WorkerRecord)
        BY <1>1
      <4>2. Len(wlog[w]) + 1 \in DOMAIN wlog'[w] /\ wlog'[w][Len(wlog[w]) + 1] = Rec("ABORT", t)
        BY <2>1, <4>1
      <4>3. QED
        BY <4>2 DEF Wrote, Rec
    <3>2. QED
      BY <3>1 DEF Undecided
  <2> DEFINE m == ToMgr(w, "COMMIT", t, FALSE)
  <2>5. m.kind \notin Followup
    BY DEF Followup, Ballot, ToMgr
  <2> HIDE DEF next, m
  <2>6. QED
    BY <1>3, <2>1, <2>2, <2>3, <2>4, <2>5
<1>8. QED
  BY <1>4, <1>5, <1>6, <1>7, UpdateContinues DEF CmdAny

(* A poll asks about the transaction the worker is inside.                       *)
LEMMA PollContinues ==
  ASSUME WorkerTypeOK, NEW w \in Worker, NEW t \in Tid, Inside(w, t), Poll(w)
  PROVE  Continues(w, t)
<1>1. mem[w].pc = "wait" /\ mem[w].curTid = t /\ t \in AnyTid
  BY DEF Inside, Poll, AnyTid
<1>2. wlog' = wlog /\ obj' = obj /\ joinedAt' = joinedAt
  BY DEF Poll
<1> DEFINE m == ToMgr(w, "POLL_DECISION", t, mem[w].isCrash)
<1>3. m.tid = t /\ (SendThen(w, m, mem[w]) \/ Quiet(w, mem[w]))
  BY <1>1 DEF Poll, ToMgr
<1> HIDE DEF m
<1>4. /\ mem'[w].pc = "down" \/ mem'[w] = mem[w]
      /\ \A i \in DOMAIN posted' : posted'[i] = m
  BY <1>3, SendLeaves
<1>5. Notes(w, t)
  BY <1>1, <1>2, NotesSome
<1>6. QED
  BY <1>1, <1>2, <1>3, <1>4, <1>5, NotesContinue

(* A restarted worker goes on with the transaction of its last record.           *)
LEMMA RestartContinues ==
  ASSUME WorkerTypeOK, NEW w \in Worker, NEW t \in Tid, Inside(w, t), VotesAsked(w), WorkerRestart(w)
  PROVE  Continues(w, t)
<1>1. /\ wlog \in [Worker -> Seq(WorkerRecord)] /\ mem \in [Worker -> Memory] /\ t \in AnyTid
      /\ joinedAt' = joinedAt /\ posted' = <<>> /\ DOMAIN posted' = {}
  BY DEF WorkerTypeOK, AnyTid, WorkerRestart, Quiet
<1>2. LastRecord(w).tid = t /\ \E i \in DOMAIN wlog[w] : wlog[w][i] = LastRecord(w)
  BY LastInside DEF Inside
<1>3. mem'[w].curTid = t
  <2>1. [Booted EXCEPT !.curTid = t].curTid = t
        /\ [[Booted EXCEPT !.curTid = t] EXCEPT !.pc = "wait", !.peer = known[w]].curTid = t
    BY DEF Booted
  <2>2. \/ mem'[w] = [[Booted EXCEPT !.curTid = t] EXCEPT !.pc = "wait", !.peer = known[w]]
        \/ mem'[w] = [Booted EXCEPT !.curTid = t]
    BY <1>1, <1>2 DEF WorkerRestart, Quiet
  <2>3. QED
    BY <2>1, <2>2
<1>4. CASE LastRecord(w).kind \in Resolved
  <2>1. wlog' = wlog /\ obj' = obj /\ mem'[w].pc = "wait"
    BY <1>1, <1>4 DEF WorkerRestart, Quiet, Booted
  <2>2. Undecided(w, t) => Asked(w)
    <3>1. SUFFICES ASSUME Undecided(w, t) PROVE Asked(w)
      OBVIOUS
    <3>2. PICK i \in DOMAIN wlog[w] : wlog[w][i] = LastRecord(w)
      BY <1>2
    <3>3. wlog[w][i] \in WorkerRecord
      BY <1>1
    <3>4. LastRecord(w) = Rec(LastRecord(w).kind, t)
      BY <1>2, <1>4, <3>2, <3>3 DEF WorkerRecord, Rec, Resolved
    <3>5. LastRecord(w).kind \in {"PREPARE_COMMIT", "VOTE_COMMIT"}
      BY <1>4, <3>1, <3>2, <3>4 DEF Resolved, Undecided, Wrote
    <3>6. QED
      BY <3>2, <3>5 DEF Asked, VotesAsked
  <2>3. (Undecided(w, t)' <=> Undecided(w, t)) /\ (Asked(w)' <=> Asked(w))
    BY <2>1 DEF Undecided, Wrote, Asked
  <2>4. Notes(w, t)
    BY <1>1, <2>1, NotesSome
  <2>5. QED
    BY <1>1, <1>3, <2>1, <2>2, <2>3, <2>4, NotesContinue
<1>5. CASE LastRecord(w).kind \notin Resolved
  <2>1. wlog'[w] = Append(wlog[w], Rec("ABORT", t))
    BY <1>1, <1>2, <1>5 DEF WorkerRestart, Write
  <2>2. "ABORT" \in RecordTag \ {"JOINTX"}
    BY DEF RecordTag
  <2>3. Notes(w, t)
    BY <1>1, <2>1, <2>2, NotesSome
  <2>4. Len(wlog[w]) + 1 \in DOMAIN wlog'[w] /\ wlog'[w][Len(wlog[w]) + 1] = Rec("ABORT", t)
    BY <1>1, <2>1
  <2>5. ~Undecided(w, t)'
    BY <2>4 DEF Undecided, Wrote, Rec
  <2>6. QED
    BY <1>1, <1>3, <2>3, <2>5, NotesContinue
<1>6. QED
  BY <1>4, <1>5

(* The two records of a vote, or the one of a worker that dies of it.            *)
LEMMA PrepareNotes ==
  ASSUME WorkerTypeOK, NEW w \in Worker, NEW m \in ToWorker, RecvPrepare(w, m)
  PROVE  Notes(w, m.tid)
<1>1. wlog[w] \in Seq(WorkerRecord) /\ wlog \in [Worker -> Seq(WorkerRecord)] /\ m.tid \in AnyTid
  BY DEF WorkerTypeOK, ToWorker
<1> DEFINE p == Rec("PREPARE_COMMIT", m.tid)
           v == Rec("VOTE_COMMIT", m.tid)
<1>2. wlog'[w] = Append(wlog[w], p) \/ wlog'[w] = Append(Append(wlog[w], p), v)
  BY <1>1 DEF RecvPrepare
<1>3. /\ p \in WorkerRecord /\ p.tid = m.tid /\ p.kind \notin {"JOINTX", "NEW_VALUE"}
      /\ v \in WorkerRecord /\ v.tid = m.tid /\ v.kind \notin {"JOINTX", "NEW_VALUE"}
  BY <1>1, RecType DEF RecordTag, Rec
<1> HIDE DEF p, v
<1>4. CASE wlog'[w] = Append(wlog[w], p)
  <2>1. <<p>> \in Seq(WorkerRecord) /\ wlog'[w] = wlog[w] \o <<p>> /\ Range(<<p>>) = {p}
    BY <1>1, <1>3, <1>4, RangeSingle
  <2>2. QED
    BY <1>3, <2>1 DEF Notes
<1>5. CASE wlog'[w] = Append(Append(wlog[w], p), v)
  <2>1. <<p, v>> \in Seq(WorkerRecord) /\ wlog'[w] = wlog[w] \o <<p, v>>
    BY <1>1, <1>3, <1>5
  <2>2. \A i \in DOMAIN <<p, v>> : <<p, v>>[i] \in {p, v}
    OBVIOUS
  <2>3. Range(<<p, v>>) \subseteq {p, v}
    BY <2>2 DEF Range
  <2>4. QED
    BY <1>3, <2>1, <2>3 DEF Notes
<1>6. QED
  BY <1>2, <1>4, <1>5

(* What the manager says concerns the transaction the worker is inside.          *)
LEMMA ReceiveContinues ==
  ASSUME SystemTypeOK, NEW w \in Worker, NEW t \in Tid, Inside(w, t), Order(w), Business(w, t),
         toW[w] # <<>>, NEW m, m = Head(toW[w]), WorkerReceive(w, m)
  PROVE  Continues(w, t)
<1>1. /\ WorkerTypeOK /\ mem[w] \in Memory /\ mem \in [Worker -> Memory]
      /\ wlog \in [Worker -> Seq(WorkerRecord)] /\ t \in AnyTid /\ toW[w] \in Seq(ToWorker)
  BY DEF SystemTypeOK, WorkerTypeOK, AnyTid
<1>2. m \in ToWorker /\ m \in Range(toW[w]) /\ m.kind \in Kinds(toW[w])
  BY <1>1, RangeRead DEF Kinds
<1>3. m.kind \in {"DECIDE_COMMIT", "DECIDE_ABORT", "PREPARE_COMMIT"} /\ m.tid = t
  BY <1>2 DEF Inside, Business, Decision, ToMember
<1>4. DOMAIN <<>> = {}
  OBVIOUS
<1>5. CASE RecvPrepare(w, m)
  <2>1. mem[w].pc = "loop" /\ mem[w].curTid = t /\ joinedAt' = joinedAt /\ obj' = obj
    BY <1>5 DEF RecvPrepare, Inside
  <2>2. Notes(w, t) /\ Asked(w)'
    BY <1>1, <1>2, <1>3, <1>5, PrepareNotes, PrepareAsks
  <2> DEFINE against == LocallyAborted(w) \/ mem[w].voteAbort
             ballot == IF against THEN "VOTE_ABORT" ELSE "VOTE_COMMIT"
             ballotMsg == ToMgr(w, ballot, t, mem[w].isCrash)
             next == [mem[w] EXCEPT !.pc = "wait", !.peer = TRUE, !.voteAbort = @ /\ ~against]
  <2>3. ballotMsg.tid = t /\ next.pc = "wait" /\ next.curTid = t
    BY <1>1, <2>1 DEF ToMgr, Memory
  <2>4. SendThen(w, ballotMsg, next)
    BY <1>3, <1>5 DEF RecvPrepare
  <2> HIDE DEF ballotMsg, next
  <2>5. /\ mem'[w].pc = "down" \/ mem'[w] = next
        /\ \A i \in DOMAIN posted' : posted'[i] = ballotMsg
    BY <1>1, <2>4, SendLeaves
  <2>6. QED
    BY <1>1, <2>1, <2>2, <2>3, <2>5, NotesContinue
<1>6. CASE RecvDecision(w, m)
  <2>1. /\ mem[w].pc # "down" /\ joinedAt' = joinedAt /\ posted' = <<>>
        /\ mem'[w] = [mem[w] EXCEPT !.pc = "loop", !.txRun = FALSE]
        /\ wlog'[w] = Append(wlog[w], Rec(m.kind, t))
        /\ m.kind \in {"DECIDE_COMMIT", "DECIDE_ABORT"}
    BY <1>1, <1>3, <1>6 DEF RecvDecision, Quiet, Write
  <2>2. mem'[w].curTid = t
    BY <1>1, <2>1 DEF Memory, Inside
  <2>3. Notes(w, t)
    <3>1. m.kind \in RecordTag \ {"JOINTX"}
      BY <2>1 DEF RecordTag
    <3>2. QED
      BY <1>1, <2>1, <3>1, NotesSome
  <2>4. Len(wlog[w]) + 1 \in DOMAIN wlog'[w] /\ wlog'[w][Len(wlog[w]) + 1] = Rec(m.kind, t)
    BY <1>1, <2>1
  <2>5. Wrote(w, m.kind, t)'
    BY <2>4 DEF Wrote, Rec
  <2>6. ~Undecided(w, t)'
    BY <2>1, <2>5 DEF Undecided
  <2>7. QED
    BY <1>1, <1>4, <2>1, <2>2, <2>3, <2>6, NotesContinue
<1>7. CASE RecvOther(w, m)
  <2>1. /\ mem[w].pc = "wait" /\ m.kind = "PREPARE_COMMIT" /\ joinedAt' = joinedAt /\ posted' = <<>>
        /\ wlog' = wlog /\ mem'[w] = [mem[w] EXCEPT !.pc = "loop"]
    BY <1>1, <1>3, <1>7 DEF RecvOther, Quiet
  <2>2. mem'[w].curTid = t
    BY <1>1, <2>1 DEF Memory, Inside
  <2>3. ~Undecided(w, t)
    <3>1. ~Asked(w)
      BY <1>2, <2>1 DEF Order, Decision
    <3>2. QED
      BY <2>1, <3>1 DEF Inside
  <2>4. ~Undecided(w, t)'
    BY <2>1, <2>3 DEF Undecided, Wrote
  <2>5. Notes(w, t)
    BY <1>1, <2>1, NotesSome
  <2>6. QED
    BY <1>1, <1>4, <2>1, <2>2, <2>4, <2>5, NotesContinue
<1>8. QED
  BY <1>3, <1>5, <1>6, <1>7 DEF WorkerReceive, RecvJoinReply

-------------------------------------------------------------------------------
\* Before the first join, and a worker's own steps

\* A step of w that neither joins nor votes.
Plain(w) ==
  /\ joinedAt'[w] = joinedAt[w]
  /\ mem'[w].txRun => mem[w].txRun
  /\ \/ wlog'[w] = wlog[w]
     \/ \E r \in WorkerRecord :
          /\ wlog'[w] = Append(wlog[w], r)
          /\ \/ r.kind \in {"COMMIT", "COMMIT_CRASH", "ABORT"}
             \/ r.kind = "NEW_VALUE" /\ mem[w].txRun

(* It puts no vote on record, and no change where there is no transaction.       *)
LEMMA PlainKeeps ==
  ASSUME WorkerTypeOK, NEW w \in Worker, Plain(w)
  PROVE  /\ VotesAsked(w) => VotesAsked(w)'
         /\ Pristine(w) => Pristine(w)'
<1>1. wlog[w] \in Seq(WorkerRecord)
  BY DEF WorkerTypeOK
<1>2. CASE wlog'[w] = wlog[w]
  BY <1>2 DEF VotesAsked, Pristine, Blank, Asked, Plain
<1>3. ASSUME NEW r \in WorkerRecord, wlog'[w] = Append(wlog[w], r),
             \/ r.kind \in {"COMMIT", "COMMIT_CRASH", "ABORT"}
             \/ r.kind = "NEW_VALUE" /\ mem[w].txRun
      PROVE  /\ VotesAsked(w) => VotesAsked(w)'
             /\ Pristine(w) => Pristine(w)'
  <2>1. /\ DOMAIN wlog[w] = 1..Len(wlog[w]) /\ Len(wlog[w]) \in Nat
        /\ DOMAIN wlog'[w] = 1..(Len(wlog[w]) + 1)
        /\ \A i \in 1..Len(wlog[w]) : wlog'[w][i] = wlog[w][i]
        /\ wlog'[w][Len(wlog[w]) + 1] = r
    BY <1>1, <1>3
  <2>2. \A i \in DOMAIN wlog'[w] : wlog'[w][i] = r \/ (i \in DOMAIN wlog[w] /\ wlog'[w][i] = wlog[w][i])
    BY <2>1
  <2>3. Asked(w) => Asked(w)'
    BY <1>3, AskedRecord
  <2>4. VotesAsked(w) => VotesAsked(w)'
    BY <1>3, <2>2, <2>3 DEF VotesAsked
  <2>5. Pristine(w) => Pristine(w)'
    BY <1>3, <2>2 DEF Pristine, Blank, Plain
  <2>6. QED
    BY <2>4, <2>5
<1>4. QED
  BY <1>2, <1>3 DEF Plain

(* Commands, polls, a restart and the answer to a BEGINTX are such steps.        *)
LEMMA PlainSteps ==
  ASSUME WorkerTypeOK, NEW w \in Worker, NEW m,
         CmdAny(w) \/ Poll(w) \/ WorkerRestart(w) \/ RecvOther(w, m)
  PROVE  Plain(w)
<1>1. /\ wlog \in [Worker -> Seq(WorkerRecord)] /\ mem \in [Worker -> Memory] /\ mem[w] \in Memory
      /\ obj[w] \in Data
  BY DEF WorkerTypeOK
<1>2. Dead.txRun = FALSE /\ Booted.txRun = FALSE
  BY DEF Dead, Booted
<1>3. ASSUME NEW next, NEW post, next.txRun => mem[w].txRun,
             SendThen(w, post, next) \/ Quiet(w, next) \/ Quiet(w, Dead)
      PROVE  mem'[w].txRun => mem[w].txRun
  BY <1>1, <1>2, <1>3 DEF SendThen, Quiet
<1>4. ASSUME NEW kind \in {"COMMIT", "COMMIT_CRASH", "ABORT"}, NEW tid \in AnyTid,
             wlog'[w] = Append(wlog[w], Rec(kind, tid))
      PROVE  \E r \in WorkerRecord : /\ wlog'[w] = Append(wlog[w], r)
                                     /\ r.kind \in {"COMMIT", "COMMIT_CRASH", "ABORT"}
  <2>1. Rec(kind, tid) \in WorkerRecord /\ Rec(kind, tid).kind = kind
    BY RecType DEF RecordTag, Rec
  <2>2. QED
    BY <1>4, <2>1
<1>5. ASSUME NEW t \in Tid, CmdBegin(w, t) \/ CmdJoin(w, t) PROVE Plain(w)
  <2> DEFINE next == [mem[w] EXCEPT !.addr = TRUE]
  <2>1. next.txRun = mem[w].txRun /\ \E post : SendThen(w, post, next)
    BY <1>1, <1>5 DEF CmdBegin, CmdJoin, Memory
  <2> HIDE DEF next
  <2>2. mem'[w].txRun => mem[w].txRun
    BY <1>3, <2>1
  <2>3. QED
    BY <1>5, <2>2 DEF CmdBegin, CmdJoin, Plain
<1>6. ASSUME NEW f \in Field, NEW v \in Value, CmdUpdate(w, f, v) PROVE Plain(w)
  <2> DEFINE r == [kind |-> "NEW_VALUE", tid |-> mem[w].curTid, field |-> f, old |-> obj[w][f]]
  <2>1. r \in WorkerRecord /\ r.kind = "NEW_VALUE"
    BY <1>1 DEF WorkerRecord, Data, Memory
  <2>2. wlog'[w] = wlog[w] \/ (mem[w].txRun /\ wlog'[w] = Append(wlog[w], r))
    BY <1>1, <1>6 DEF CmdUpdate, Write
  <2>3. joinedAt' = joinedAt /\ mem'[w] = mem[w]
    BY <1>1, <1>6 DEF CmdUpdate, Quiet
  <2> HIDE DEF r
  <2>4. QED
    BY <2>1, <2>2, <2>3 DEF Plain
<1>7. ASSUME CmdCrash(w) \/ CmdVoteAbort(w) \/ \E d \in Delay : CmdDelay(w, d) PROVE Plain(w)
  <2>1. wlog' = wlog /\ joinedAt' = joinedAt
    BY <1>7 DEF CmdCrash, CmdVoteAbort, CmdDelay
  <2>2. \/ mem'[w] = Dead \/ mem'[w] = [mem[w] EXCEPT !.voteAbort = TRUE]
        \/ \E d \in Delay : mem'[w] = [mem[w] EXCEPT !.delay = d]
    BY <1>1, <1>7 DEF CmdCrash, CmdVoteAbort, CmdDelay, Quiet
  <2>3. mem'[w].txRun => mem[w].txRun
    BY <1>1, <1>2, <2>2 DEF Memory
  <2>4. QED
    BY <2>1, <2>3 DEF Plain
<1>8. ASSUME NEW kind \in {"COMMIT", "COMMIT_CRASH"}, CmdCommit(w, kind) PROVE Plain(w)
  <2> DEFINE next == [mem[w] EXCEPT !.isCrash = (kind = "COMMIT_CRASH")]
  <2>1. /\ next.txRun = mem[w].txRun
        /\ \E post : SendThen(w, post, next) \/ Quiet(w, next) \/ Quiet(w, Dead)
    BY <1>1, <1>8 DEF CmdCommit, Memory
  <2> HIDE DEF next
  <2>2. mem'[w].txRun => mem[w].txRun
    BY <1>3, <2>1
  <2>3. /\ wlog'[w] = Append(wlog[w], Rec(kind, mem[w].curTid)) /\ joinedAt' = joinedAt
        /\ mem[w].curTid \in AnyTid
    BY <1>1, <1>8 DEF CmdCommit, Write, Memory
  <2>4. QED
    BY <1>4, <2>2, <2>3 DEF Plain
<1>9. ASSUME NEW kind \in {"ABORT", "ABORT_CRASH"}, CmdAbort(w, kind) PROVE Plain(w)
  <2>1. /\ wlog'[w] = Append(wlog[w], Rec("ABORT", mem[w].curTid)) /\ joinedAt' = joinedAt
        /\ mem[w].curTid \in AnyTid /\ mem'[w] = [mem[w] EXCEPT !.isCrash = (kind = "ABORT_CRASH")]
    BY <1>1, <1>9 DEF CmdAbort, Write, Memory, Quiet
  <2>2. mem'[w].txRun = mem[w].txRun
    BY <1>1, <2>1 DEF Memory
  <2>3. QED
    BY <1>4, <2>1, <2>2 DEF Plain
<1>10. CASE Poll(w)
  <2>1. \E post : SendThen(w, post, mem[w]) \/ Quiet(w, mem[w])
    BY <1>10 DEF Poll
  <2>2. mem'[w].txRun => mem[w].txRun
    BY <1>3, <2>1
  <2>3. QED
    BY <1>10, <2>2 DEF Poll, Plain
<1>11. CASE WorkerRestart(w)
  <2>1. LastRecord(w).tid \in AnyTid /\ joinedAt' = joinedAt
    BY <1>11, LastRecordType DEF WorkerRestart
  <2>2. ~mem'[w].txRun
    BY <1>1, <1>11 DEF WorkerRestart, Quiet, Booted
  <2>3. wlog'[w] = wlog[w] \/ wlog'[w] = Append(wlog[w], Rec("ABORT", LastRecord(w).tid))
    BY <1>1, <1>11 DEF WorkerRestart, Write
  <2>4. QED
    BY <1>4, <2>1, <2>2, <2>3 DEF Plain
<1>12. CASE RecvOther(w, m)
  <2>1. mem'[w] = [mem[w] EXCEPT !.pc = "loop"] /\ wlog' = wlog /\ joinedAt' = joinedAt
    BY <1>1, <1>12 DEF RecvOther, Quiet
  <2>2. mem'[w].txRun = mem[w].txRun
    BY <1>1, <2>1 DEF Memory
  <2>3. QED
    BY <2>1, <2>2 DEF Plain
<1>13. QED
  BY <1>5, <1>6, <1>7, <1>8, <1>9, <1>10, <1>11, <1>12 DEF CmdAny

(* A vote is on record only after the request, which is put there first.         *)
LEMMA VotesKept ==
  ASSUME WorkerTypeOK, NEW w \in Worker, VotesAsked(w), NEW m \in ToWorker, WorkerReceive(w, m)
  PROVE  VotesAsked(w)'
<1>1. wlog \in [Worker -> Seq(WorkerRecord)] /\ wlog[w] \in Seq(WorkerRecord)
  BY DEF WorkerTypeOK
<1>2. CASE RecvOther(w, m)
  BY <1>2, PlainSteps, PlainKeeps
<1>3. CASE RecvPrepare(w, m)
  BY <1>3, PrepareAsks DEF VotesAsked
<1>4. ASSUME NEW kind \in {"JOINTX", "DECIDE_COMMIT", "DECIDE_ABORT"}, Write(w, Rec(kind, m.tid))
      PROVE  VotesAsked(w)'
  <2> DEFINE r == Rec(kind, m.tid)
  <2>1. r \in WorkerRecord /\ r.kind = kind
    BY RecType DEF RecordTag, Rec, ToWorker
  <2> HIDE DEF r
  <2>2. wlog'[w] = Append(wlog[w], r)
    BY <1>1, <1>4 DEF Write, r
  <2>3. \A i \in DOMAIN wlog'[w] : wlog'[w][i] = r \/ (i \in DOMAIN wlog[w] /\ wlog'[w][i] = wlog[w][i])
    BY <1>1, <2>1, <2>2
  <2>4. Asked(w) => Asked(w)'
    BY <2>1, <2>2, AskedRecord
  <2>5. QED
    BY <2>1, <2>3, <2>4 DEF VotesAsked
<1>5. QED
  BY <1>2, <1>3, <1>4 DEF WorkerReceive, RecvJoinReply, RecvDecision

(* A worker that does nothing stays inside its transaction.                      *)
LEMMA RestsInside ==
  ASSUME WorkerTypeOK, NEW w \in Worker, NEW t, Inside(w, t), Rests(w),
         Kinds(toW'[w]) \subseteq Decision \cup {"PREPARE_COMMIT"}
  PROVE  Inside(w, t)'
<1>1. wlog[w] \in Seq(WorkerRecord) /\ wlog'[w] = wlog[w] /\ obj'[w] = obj[w]
      /\ joinedAt'[w] = joinedAt[w] /\ mem'[w] = mem[w]
  BY DEF WorkerTypeOK, Rests
<1>2. <<>> \in Seq(WorkerRecord) /\ wlog'[w] = wlog[w] \o <<>> /\ Range(<<>>) = {}
  BY <1>1, RangeEmpty
<1>3. \A f \in Field : Undone(w, f)' = Undone(w, f)
  BY <1>1, <1>2, NoChangeUndone
<1>4. /\ Undecided(w, t)' <=> Undecided(w, t)
      /\ Asked(w)' <=> Asked(w)
      /\ Logbook(w, t)' <=> Logbook(w, t)
  BY <1>1 DEF Undecided, Wrote, Asked, Logbook
<1>5. QED
  BY <1>1, <1>3, <1>4 DEF Inside

(* The first join brings a worker inside, with its data as they are.             *)
LEMMA JoinsInside ==
  ASSUME SystemTypeOK, NEW w \in Worker, NEW t \in Tid, Order(w), Pristine(w),
         toW[w] # <<>>, NEW m, m = Head(toW[w]), RecvJoinReply(w, m),
         m.kind = "JOIN_SUCCESS", m.tid = t, Kinds(toW'[w]) \subseteq Kinds(Tail(toW[w]))
  PROVE  Inside(w, t)'
<1>1. /\ WorkerTypeOK /\ mem[w] \in Memory /\ mem \in [Worker -> Memory]
      /\ wlog \in [Worker -> Seq(WorkerRecord)] /\ toW[w] \in Seq(ToWorker)
      /\ joinedAt \in [Worker -> [Tid -> Seq(Data)]]
  BY DEF SystemTypeOK, WorkerTypeOK
<1>2. /\ mem'[w] = [mem[w] EXCEPT !.curTid = t, !.txRun = TRUE] /\ mem[w].pc = "loop"
      /\ wlog'[w] = Append(wlog[w], Rec("JOINTX", t)) /\ obj' = obj
  BY <1>1 DEF RecvJoinReply, Quiet, Write
<1>3. joinedAt'[w][t] = <<obj[w]>>
  <2>1. joinedAt' = [joinedAt EXCEPT ![w][t] = <<obj[w]>>]
    BY DEF RecvJoinReply, Pristine
  <2>2. QED
    BY <1>1, <2>1
<1>4. joinedAt'[w][t][1] = obj[w]
  BY <1>3
<1>5. mem'[w].curTid = t /\ mem'[w].txRun /\ mem'[w].pc = "loop"
  BY <1>1, <1>2 DEF Memory
<1>6. Kinds(toW'[w]) \subseteq Decision \cup {"PREPARE_COMMIT"}
  BY <1>1, ReadInOrder DEF Order
<1>7. Logbook(w, t)' /\ \A f : Changes(w, f)' = {}
  BY <1>1, <1>2, LogbookStarts DEF Pristine
<1>8. \A f \in Field : Undone(w, f)' = joinedAt'[w][t][1][f]
  BY <1>2, <1>4, <1>7 DEF Undone
<1>9. QED
  BY <1>5, <1>6, <1>7, <1>8 DEF Inside

(* The business of a worker is that of its transaction as long as nobody brings  *)
(* it any other.                                                                 *)
LEMMA BusinessKept ==
  ASSUME NEW w \in Worker, NEW t, Business(w, t),
         \A k \in Slot : w \in In(k)' => table'[k].tid = t,
         \A m \in Range(toW'[w]) : m.kind \in ToMember => m \in Range(toW[w]) \/ m.tid = t,
         \A m \in Range(toM'[w]) : m.kind \in Followup => m \in Range(toM[w]) \/ m.tid = t
  PROVE  Business(w, t)'
BY DEF Business

(* The worker whose step it is.                                                  *)
LEMMA WorkerCareful ==
  ASSUME SystemTypeOK, BufferInv, AskedInv, AskedInv', Considerate, NEW w \in Worker, Careful(w),
         DeliverToWorker(w) \/ PollTimeout(w) \/ UserCommand(w) \/ RestartWorker(w)
  PROVE  Careful(w)'
<1>1. /\ Acts(w) /\ WorkerTypeOK' /\ Shrunk(toW'[w], toW[w])
      /\ DeliverToWorker(w) => toW'[w] \in {<<>>, Tail(toW[w])}
  BY WorkerActs DEF Acts
<1>2. /\ WorkerTypeOK /\ toW[w] \in Seq(ToWorker) /\ toM[w] \in Seq(ToManager)
      /\ joinedAt \in [Worker -> [Tid -> Seq(Data)]]
  BY DEF SystemTypeOK, WorkerTypeOK
<1>3. Range(toW'[w]) \subseteq Range(toW[w]) /\ Kinds(toW'[w]) \subseteq Kinds(toW[w])
  BY <1>1, <1>2, ShrunkKeeps
<1>4. Entry(w) /\ Order(w) /\ Entry(w)' /\ Says(w)
  BY WorkerSays DEF AskedInv
<1> DEFINE m == Head(toW[w])
<1>5. \/ CmdAny(w) \/ Poll(w) \/ WorkerRestart(w)
      \/ /\ toW[w] # <<>> /\ WorkerReceive(w, m) /\ m \in ToWorker /\ m \in Range(toW[w])
         /\ Kinds(toW'[w]) \subseteq Kinds(Tail(toW[w]))
  <2>1. ASSUME DeliverToWorker(w)
        PROVE  /\ toW[w] # <<>> /\ WorkerReceive(w, m) /\ m \in ToWorker /\ m \in Range(toW[w])
               /\ Kinds(toW'[w]) \subseteq Kinds(Tail(toW[w]))
    <3>1. toW[w] # <<>> /\ WorkerReceive(w, m)
      BY <2>1 DEF DeliverToWorker, WorkerMoves
    <3>2. Kinds(<<>>) = {}
      BY RangeEmpty DEF Kinds
    <3>3. QED
      BY <1>1, <1>2, <2>1, <3>1, <3>2, RangeRead
  <2>2. QED
    BY <2>1 DEF PollTimeout, UserCommand, RestartWorker, WorkerMoves
<1>6. m = Head(toW[w])
  OBVIOUS
<1> HIDE DEF m
<1>7. VotesAsked(w)'
  <2>1. CASE CmdAny(w) \/ Poll(w) \/ WorkerRestart(w)
    BY <1>2, <2>1, PlainSteps, PlainKeeps DEF Careful
  <2>2. CASE m \in ToWorker /\ WorkerReceive(w, m)
    BY <1>2, <2>2, VotesKept DEF Careful
  <2>3. QED
    BY <1>5, <2>1, <2>2
<1>8. Awaits(w)' => Pristine(w)'
  <2>1. SUFFICES ASSUME Awaits(w)' PROVE Pristine(w)'
    OBVIOUS
  <2>2. Fresh(w) \/ "JOIN_SUCCESS" \in Kinds(toW'[w])
    BY <1>4, <2>1 DEF Awaits, Says
  <2>3. Pristine(w)
    BY <1>3, <2>2 DEF Careful, Awaits
  <2>4. CASE CmdAny(w) \/ Poll(w) \/ WorkerRestart(w) \/ RecvOther(w, m)
    BY <1>2, <2>3, <2>4, PlainSteps, PlainKeeps
  <2>5. CASE /\ toW[w] # <<>> /\ WorkerReceive(w, m)
             /\ Kinds(toW'[w]) \subseteq Kinds(Tail(toW[w]))
    <3>1. m.kind \in BeginAnswer
      BY <1>2, <1>4, <1>6, <2>2, <2>5, HeardFirst
    <3>2. RecvOther(w, m)
      BY <2>5, <3>1 DEF WorkerReceive, RecvJoinReply, RecvPrepare, RecvDecision, BeginAnswer
    <3>3. QED
      BY <2>4, <3>2
  <2>6. QED
    BY <1>5, <2>4, <2>5
<1>9. \A k \in Slot : In(k)' = In(k) /\ table'[k].tid = table[k].tid
  BY <1>1 DEF Acts, In
<1>10. ASSUME NEW p \in Range(toM'[w])
       PROVE  p \in Range(toM[w]) \/ \E i \in DOMAIN posted' : posted'[i] = p
  <2>1. CASE toM'[w] = <<>>
    BY <1>10, <2>1, RangeEmpty
  <2>2. CASE toM'[w] = toM[w] \o posted'
    <3>1. posted' \in Seq(ToManager)
      BY <1>1 DEF WorkerTypeOK
    <3>2. Range(toM'[w]) = Range(toM[w]) \cup Range(posted')
      BY <1>2, <2>2, <3>1, RangeAppended
    <3>3. QED
      BY <1>10, <3>2 DEF Range
  <2>3. QED
    BY <1>1, <2>1, <2>2 DEF Acts
<1>11. ASSUME NEW t \in Tid, Business(w, t),
              \A i \in DOMAIN posted' : posted'[i].kind \in Followup => posted'[i].tid = t
       PROVE  Business(w, t)'
  <2>1. \A k \in Slot : w \in In(k)' => table'[k].tid = t
    BY <1>9, <1>11 DEF Business
  <2>2. \A p \in Range(toM'[w]) : p.kind \in Followup => p \in Range(toM[w]) \/ p.tid = t
    BY <1>10, <1>11
  <2>3. QED
    BY <1>3, <1>11, <2>1, <2>2, BusinessKept
<1>12. ASSUME NEW t \in Tid, joinedAt[w][t] # <<>>
       PROVE  Inside(w, t)' /\ Business(w, t)'
  <2>1. Inside(w, t) /\ Business(w, t) /\ VotesAsked(w)
    BY <1>12 DEF Careful, TakesPart
  <2>2. Continues(w, t)
    BY <1>2, <1>4, <1>5, <1>6, <2>1, CommandContinues, PollContinues, RestartContinues, ReceiveContinues
  <2>3. Inside(w, t)'
    BY <1>3, <2>1, <2>2, StaysInside
  <2>4. Business(w, t)'
    BY <1>11, <2>1, <2>2 DEF Continues
  <2>5. QED
    BY <2>3, <2>4
<1>13. ASSUME NEW t \in Tid, joinedAt[w][t] = <<>>, joinedAt'[w][t] # <<>>
       PROVE  Inside(w, t)' /\ Business(w, t)'
  <2>1. ~Plain(w)
    BY <1>13 DEF Plain
  <2>2. /\ toW[w] # <<>> /\ RecvJoinReply(w, m) /\ m \in ToWorker /\ m \in Range(toW[w])
        /\ Kinds(toW'[w]) \subseteq Kinds(Tail(toW[w]))
    <3>1. ~CmdAny(w) /\ ~Poll(w) /\ ~WorkerRestart(w) /\ ~RecvOther(w, m)
      BY <1>2, <2>1, PlainSteps
    <3>2. ~RecvPrepare(w, m) /\ ~RecvDecision(w, m)
      BY <1>13 DEF RecvPrepare, RecvDecision
    <3>3. QED
      BY <1>5, <3>1, <3>2 DEF WorkerReceive
  <2>3. m.kind = "JOIN_SUCCESS" /\ m.tid = t /\ posted' = <<>>
    BY <1>2, <1>13, <2>2 DEF RecvJoinReply, Quiet
  <2>4. InWay(w, "JOIN_SUCCESS", t) /\ Awaits(w)
    <3>1. m = Msg("JOIN_SUCCESS", t)
      BY <2>2, <2>3 DEF ToWorker, Msg
    <3>2. QED
      BY <2>2, <2>3, <3>1 DEF InWay, Awaits, Kinds
  <2>5. Pristine(w) /\ Business(w, t)
    BY <2>4 DEF Careful, TakesPart
  <2>6. Inside(w, t)'
    BY <1>4, <1>6, <2>2, <2>3, <2>5, JoinsInside
  <2>7. DOMAIN posted' = {}
    BY <2>3
  <2>8. QED
    BY <1>11, <2>5, <2>6, <2>7
<1>14. ASSUME NEW t \in Tid, InWay(w, "JOIN_SUCCESS", t)' PROVE Business(w, t)'
  <2>1. Awaits(w)'
    BY <1>14 DEF InWay, Awaits, Kinds, Msg
  <2>2. \A p \in Range(toM'[w]) : p.kind \notin Followup
    BY <1>4, <2>1 DEF Entry, Silent
  <2>3. Business(w, t)
    BY <1>3, <1>14 DEF Careful, TakesPart, InWay
  <2>4. \A k \in Slot : w \in In(k)' => table'[k].tid = t
    BY <1>9, <2>3 DEF Business
  <2>5. QED
    BY <1>3, <2>2, <2>3, <2>4, BusinessKept
<1>15. QED
  BY <1>7, <1>8, <1>12, <1>13, <1>14 DEF Careful, TakesPart

-------------------------------------------------------------------------------
\* Workers that do nothing

\* What a step of others brings to w, new being the datagrams on their way to it:
\* news of what concerns it, or the answer to its request.
Heeds(w, new) ==
  \/ /\ \A e \in new : e.kind \in Decision \cup {"PREPARE_COMMIT"} /\ Concerns(w, e.tid)
     /\ \A k \in Slot : w \in In(k)' => w \in In(k) /\ table'[k].tid = table[k].tid
  \/ /\ Fresh(w)
     /\ \E t : /\ \A e \in new : e.kind \in ToMember => e = Msg("JOIN_SUCCESS", t)
               /\ \A k \in Slot : w \in In(k)' => table'[k].tid = t

(* Either way the worker keeps to one transaction.                               *)
LEMMA HeedsCareful ==
  ASSUME SystemTypeOK, NEW w \in Worker, Careful(w), Entry(w), Rests(w),
         Shrunk(toM'[w], toM[w]), NEW new, Range(toW'[w]) \subseteq Range(toW[w]) \cup new,
         Heeds(w, new)
  PROVE  Careful(w)'
<1>1. WorkerTypeOK /\ toM[w] \in Seq(ToManager)
  BY DEF SystemTypeOK
<1>2. Range(toM'[w]) \subseteq Range(toM[w])
  BY <1>1, ShrunkKeeps DEF Rests
<1>3. left'[w] = left[w] /\ joinedAt'[w] = joinedAt[w]
  BY DEF Rests
<1>4. /\ VotesAsked(w)'
      /\ Pristine(w)' <=> Pristine(w)
  BY DEF Rests, Careful, VotesAsked, Asked, Pristine, Blank
<1>5. Fresh(w)' => Fresh(w)
  BY <1>2, <1>3 DEF Fresh
<1>6. CASE /\ \A e \in new : e.kind \in Decision \cup {"PREPARE_COMMIT"} /\ Concerns(w, e.tid)
           /\ \A k \in Slot : w \in In(k)' => w \in In(k) /\ table'[k].tid = table[k].tid
  <2>1. \A e \in Range(toW'[w]) : e.kind \notin Decision \cup {"PREPARE_COMMIT"} => e \in Range(toW[w])
    BY <1>6
  <2>2. Awaits(w)' => Awaits(w)
    BY <1>5, <2>1 DEF Awaits, Kinds, Decision
  <2>3. ASSUME NEW t \in Tid, TakesPart(w, t)' PROVE Business(w, t)'
    <3>1. TakesPart(w, t)
      BY <1>3, <2>1, <2>3 DEF TakesPart, InWay, Msg, Decision
    <3>2. Business(w, t)
      BY <3>1 DEF Careful
    <3>3. \A e \in new : e.tid = t
      BY <1>6, <3>2 DEF Concerns, Business
    <3>4. \A k \in Slot : w \in In(k)' => table'[k].tid = t
      BY <1>6, <3>2 DEF Business
    <3>5. QED
      BY <1>2, <3>2, <3>3, <3>4, BusinessKept
  <2>4. ASSUME NEW t \in Tid, joinedAt'[w][t] # <<>> PROVE Inside(w, t)'
    <3>1. Inside(w, t)
      BY <1>3, <2>4 DEF Careful
    <3>2. Kinds(toW'[w]) \subseteq Decision \cup {"PREPARE_COMMIT"}
      BY <2>1, <3>1 DEF Inside, Kinds
    <3>3. QED
      BY <1>1, <3>1, <3>2, RestsInside
  <2>5. QED
    BY <1>4, <2>2, <2>3, <2>4 DEF Careful
<1>7. ASSUME Fresh(w), NEW t, \A e \in new : e.kind \in ToMember => e = Msg("JOIN_SUCCESS", t),
             \A k \in Slot : w \in In(k)' => table'[k].tid = t
      PROVE  Careful(w)'
  <2>1. Awaits(w) /\ Pristine(w) /\ Silent(w) /\ Kinds(toW[w]) \subseteq BeginAnswer
    BY <1>7 DEF Awaits, Careful, Entry
  <2>2. \A u \in Tid : joinedAt'[w][u] = <<>>
    BY <1>3, <2>1 DEF Pristine
  <2>3. \A e \in Range(toW'[w]) : e.kind \in ToMember => e = Msg("JOIN_SUCCESS", t)
    BY <1>7, <2>1 DEF Kinds, BeginAnswer, ToMember
  <2>4. \A m \in Range(toM'[w]) : m.kind \notin Followup
    BY <1>2, <2>1 DEF Silent
  <2>5. ASSUME NEW u \in Tid, TakesPart(w, u)' PROVE Business(w, u)'
    <3>1. Msg("JOIN_SUCCESS", u) \in Range(toW'[w])
      BY <2>2, <2>5 DEF TakesPart, InWay
    <3>2. Msg("JOIN_SUCCESS", u).kind \in ToMember /\ Msg("JOIN_SUCCESS", u).tid = u
          /\ Msg("JOIN_SUCCESS", t).tid = t
      BY DEF Msg, ToMember
    <3>3. u = t
      BY <2>3, <3>1, <3>2
    <3>4. \A e \in Range(toW'[w]) : e.kind \in ToMember => e.tid = u
      BY <2>3, <3>2, <3>3
    <3>5. QED
      BY <1>7, <2>4, <3>3, <3>4 DEF Business
  <2>6. QED
    BY <1>4, <2>1, <2>2, <2>5 DEF Careful
<1>8. QED
  BY <1>6, <1>7 DEF Heeds

(* Nothing new, and the table as it was.                                         *)
LEMMA NothingNew ==
  ASSUME NEW w \in Worker, table' = table
  PROVE  Heeds(w, {})
BY DEF Heeds, In

(* Decisions are about the transactions they concern.                            *)
LEMMA DecisionsHeeded ==
  ASSUME Stays, TellsDecisions, NEW w \in Worker
  PROVE  Heeds(w, Range(sent'[w]))
<1>1. \A k \in Slot : w \in In(k)' => w \in In(k) /\ table'[k].tid = table[k].tid
  BY DEF Stays, In
<1>2. QED
  BY <1>1 DEF TellsDecisions, Heeds

(* So is the question to prepare.                                                *)
LEMMA CommitHeeded ==
  ASSUME SystemTypeOK, NEW m, MgrCommit(m), NEW w \in Worker
  PROVE  Heeds(w, Range(sent'[w]))
<1>1. table' = table /\ sent' = Broadcast(m.tid, "PREPARE_COMMIT")
  BY DEF MgrCommit
<1>2. ASSUME NEW e \in Range(sent'[w])
      PROVE  e.kind = "PREPARE_COMMIT" /\ Concerns(w, e.tid)
  <2>1. e = Msg("PREPARE_COMMIT", m.tid) /\ \E k \in Holding(m.tid) : w \in In(k)
    BY <1>1, <1>2, SentBroadcast
  <2>2. QED
    BY <2>1 DEF Concerns, Holding, Msg
<1>3. \A k \in Slot : w \in In(k)' => w \in In(k) /\ table'[k].tid = table[k].tid
  BY <1>1 DEF In
<1>4. QED
  BY <1>2, <1>3 DEF Heeds

(* The answer to a BEGINTX finds a worker that has yet to join.                  *)
LEMMA BeginHeeded ==
  ASSUME SystemTypeOK, BufferInv, AskedInv, Serves, NEW r \in Worker, NEW m, Reads(r, m),
         MgrBegin(m), NEW w \in Worker
  PROVE  Heeds(w, Range(sent'[w]))
<1>1. PICK kind \in BeginAnswer : sent' = Reply(m, kind)
  BY DEF MgrBegin, BeginAnswer
<1>2. m.kind = "BEGINTX" /\ Stays
  BY BeginStays DEF MgrBegin
<1>3. /\ w # r => sent'[w] = <<>>
      /\ Kinds(sent'[r]) \subseteq {kind} /\ ~Listed(r)
  BY <1>1, <1>2, AnswerHeard
<1>4. \A k \in Slot : w \in In(k)' => w \in In(k) /\ table'[k].tid = table[k].tid
  BY <1>2 DEF Stays, In
<1>5. CASE w # r
  BY <1>3, <1>4, <1>5, RangeEmpty DEF Heeds
<1>6. CASE w = r
  <2>1. Fresh(r)
    <3>1. toM[r] \in Seq(ToManager)
      BY DEF SystemTypeOK
    <3>2. m \in Range(toM[r])
      BY <3>1, RangeRead DEF Reads
    <3>3. QED
      BY <1>2, <3>2 DEF Fresh, Request
  <2>2. \A e \in Range(sent'[r]) : e.kind \notin ToMember
    BY <1>3 DEF Kinds, BeginAnswer, ToMember
  <2>3. \A k \in Slot : r \notin In(k)'
    BY <1>3, <1>4, <1>6 DEF Listed
  <2>4. QED
    BY <1>6, <2>1, <2>2, <2>3 DEF Heeds
<1>7. QED
  BY <1>5, <1>6

(* The one to a JOINTX names the transaction of the slot, which had room for it. *)
LEMMA JoinHeeded ==
  ASSUME SystemTypeOK, BufferInv, AskedInv, Serves, Roomy, NEW r \in Worker, NEW m, Reads(r, m),
         MgrJoin(m), NEW w \in Worker
  PROVE  Heeds(w, Range(sent'[w]))
<1>1. /\ m.kind = "JOINTX" /\ m.from = r
      /\ table \in [Slot -> [tid: AnyTid, isCrash: BOOLEAN, members: Seq(Member)]]
  BY DEF MgrJoin, Reads, SystemTypeOK, MgrTypeOK
<1>2. m \in Range(toM[r])
  <2>1. toM[r] \in Seq(ToManager)
    BY DEF SystemTypeOK
  <2>2. QED
    BY <2>1, RangeRead DEF Reads
<1>3. m.tid \in Tid /\ Fresh(r)
  BY <1>1, <1>2 DEF BufferInv, VotesBegun, Fresh, Request
<1>4. Holding(m.tid) \cup Holding(NoTid) # {}
  BY <1>3 DEF Roomy
<1>5. PICK kind \in {"JOIN_SUCCESS", "JOIN_FAIL"} :
        /\ sent' = Reply(m, kind)
        /\ \/ table' = table
           \/ \E k \in Slot : /\ kind = "JOIN_SUCCESS" /\ table[k].tid = m.tid
                              /\ table'[k].members = Append(table[k].members, [id |-> r, voted |-> FALSE])
                              /\ table'[k].tid = table[k].tid
                              /\ \A j \in Slot \ {k} : table'[j] = table[j]
  <2>1. ASSUME NEW k \in Slot, table' = Enrolled(k, m.from)
        PROVE  \/ table' = table
               \/ /\ table'[k].members = Append(table[k].members, [id |-> r, voted |-> FALSE])
                  /\ table'[k].tid = table[k].tid
                  /\ \A j \in Slot \ {k} : table'[j] = table[j]
    BY <1>1, <2>1 DEF Enrolled
  <2>2. \/ /\ \E k \in Slot : table[k].tid = m.tid /\ table' = Enrolled(k, m.from)
           /\ sent' = Reply(m, "JOIN_SUCCESS")
        \/ sent' = Reply(m, "JOIN_FAIL") /\ table' = table
    BY <1>4 DEF MgrJoin
  <2>3. QED
    BY <2>1, <2>2
<1>6. /\ w # r => sent'[w] = <<>>
      /\ Kinds(sent'[r]) \subseteq {kind} /\ ~Listed(r)
  BY <1>1, <1>5, AnswerHeard
<1>7. Range(sent'[r]) = {Msg(kind, m.tid)}
  BY <1>1, <1>5, SentReply
<1>8. \A j \in Slot : In(j)' \subseteq In(j) \cup {r} /\ table'[j].tid = table[j].tid
  <2>1. CASE table' = table
    BY <2>1 DEF In
  <2>2. ASSUME NEW k \in Slot, table'[k].tid = table[k].tid,
               table'[k].members = Append(table[k].members, [id |-> r, voted |-> FALSE]),
               \A j \in Slot \ {k} : table'[j] = table[j]
        PROVE  \A j \in Slot : In(j)' \subseteq In(j) \cup {r} /\ table'[j].tid = table[j].tid
    <3>1. In(k)' = In(k) \cup {r}
      BY <1>1, <2>2, EnrolledSlot
    <3>2. QED
      BY <2>2, <3>1 DEF In
  <2>3. QED
    BY <1>5, <2>1, <2>2
<1>9. \A j \in Slot : r \in In(j)' => table'[j].tid = m.tid
  <2>1. \A j \in Slot : r \in In(j)' => table'[j] # table[j]
    BY <1>6 DEF Listed, In
  <2>2. QED
    BY <1>5, <2>1
<1>10. CASE w # r
  BY <1>6, <1>8, <1>10, RangeEmpty DEF Heeds
<1>11. CASE w = r
  <2>1. ASSUME NEW e \in Range(sent'[r]), e.kind \in ToMember PROVE e = Msg("JOIN_SUCCESS", m.tid)
    BY <1>5, <1>7, <2>1 DEF Msg, ToMember
  <2>2. QED
    BY <1>3, <1>9, <1>11, <2>1 DEF Heeds
<1>12. QED
  BY <1>10, <1>11

(* A step that brings every worker what it heeds.                                *)
LEMMA ServedCareful ==
  ASSUME SystemTypeOK, AskedInv, CarefulInv, Serves,
         \A w \in Worker : Heeds(w, Range(sent'[w]))
  PROVE  CarefulInv'
<1>1. SUFFICES ASSUME NEW w \in Worker PROVE Careful(w)'
  BY DEF CarefulInv
<1>2. /\ Careful(w) /\ Entry(w) /\ Rests(w) /\ Shrunk(toM'[w], toM[w])
      /\ Heeds(w, Range(sent'[w]))
  BY DEF CarefulInv, AskedInv, Serves
<1>3. Range(toW'[w]) \subseteq Range(toW[w]) \cup Range(sent'[w])
  <2>1. toW[w] \in Seq(ToWorker) /\ sent'[w] \in Seq(ToWorker)
    BY DEF SystemTypeOK, Serves
  <2>2. CASE toW'[w] = <<>>
    BY <2>2, RangeEmpty
  <2>3. CASE toW'[w] = toW[w] \o sent'[w]
    BY <2>1, <2>3, RangeAppended
  <2>4. QED
    BY <2>2, <2>3 DEF Serves
<1>4. QED
  BY <1>2, <1>3, HeedsCareful

(* The manager reads a datagram.                                                 *)
LEMMA DeliverCareful ==
  ASSUME SystemTypeOK, SystemTypeOK', BufferInv, Signed, AskedInv, CarefulInv, Roomy,
         NEW r \in Worker, DeliverToManager(r)
  PROVE  CarefulInv'
<1>1. PICK m : Serves /\ Reads(r, m) /\ MgrReceive(m)
  BY DeliverReads
<1>2. ASSUME NEW w \in Worker PROVE Heeds(w, Range(sent'[w]))
  <2>1. CASE MgrBegin(m)
    BY <1>1, <2>1, BeginHeeded
  <2>2. CASE MgrJoin(m)
    BY <1>1, <2>2, JoinHeeded
  <2>3. CASE MgrCommit(m)
    BY <2>3, CommitHeeded
  <2>4. CASE MgrVoteCommit(m) \/ MgrVoteAbort(m)
    BY <1>1, <2>4, VoteServes, DecisionsHeeded
  <2>5. QED
    BY <1>1, <2>1, <2>2, <2>3, <2>4 DEF MgrReceive
<1>3. QED
  BY <1>1, <1>2, ServedCareful

(* It takes a step of its own, or is killed on the way.                          *)
LEMMA OwnCareful ==
  ASSUME SystemTypeOK, SystemTypeOK', BufferInv, AskedInv, CarefulInv,
         \/ ManagerTimeout \/ ManagerKill \/ ManagerRestart \/ ManagerRecoverSlot
         \/ ManagerTorn
  PROVE  CarefulInv'
BY OwnServes, DecisionsHeeded, ServedCareful

(* A worker that does nothing and is sent nothing.                               *)
LEMMA IdleCareful ==
  ASSUME SystemTypeOK, NEW w \in Worker, Careful(w), Entry(w), Rests(w),
         Shrunk(toM'[w], toM[w]), Shrunk(toW'[w], toW[w]), table' = table
  PROVE  Careful(w)'
<1>1. toW[w] \in Seq(ToWorker)
  BY DEF SystemTypeOK
<1>2. Range(toW'[w]) \subseteq Range(toW[w]) \cup {}
  BY <1>1, ShrunkKeeps
<1>3. Heeds(w, {})
  BY NothingNew
<1>4. QED
  BY <1>2, <1>3, HeedsCareful

(* The step of one worker is none of the others'.                                *)
LEMMA WorkersCareful ==
  ASSUME SystemTypeOK, BufferInv, AskedInv, AskedInv', CarefulInv, Considerate, NEW w \in Worker,
         DeliverToWorker(w) \/ PollTimeout(w) \/ UserCommand(w) \/ RestartWorker(w)
  PROVE  CarefulInv'
<1>1. Careful(w)'
  BY WorkerCareful DEF CarefulInv
<1>2. ASSUME NEW u \in Worker \ {w} PROVE Careful(u)'
  <2>1. Acts(w)
    BY WorkerActs
  <2>2. QED
    BY <2>1, IdleCareful DEF Acts, CarefulInv, AskedInv
<1>3. QED
  BY <1>1, <1>2 DEF CarefulInv

(* Whatever step is taken, by considerate users of a table with room.            *)
LEMMA CarefulStep ==
  ASSUME SystemTypeOK, SystemTypeOK', BufferInv, Signed, AskedInv, AskedInv', CarefulInv,
         [Next]_vars, [Considerate]_vars, [Roomy]_vars
  PROVE  CarefulInv'
<1>1. ASSUME \A u \in Worker : Rests(u) /\ Shrunk(toM'[u], toM[u]) /\ Shrunk(toW'[u], toW[u]),
             table' = table
      PROVE  CarefulInv'
  BY <1>1, IdleCareful DEF CarefulInv, AskedInv
<1>2. CASE UNCHANGED vars
  <2>1. /\ \A u \in Worker : Rests(u) /\ Shrunk(toM'[u], toM[u]) /\ Shrunk(toW'[u], toW[u])
        /\ table' = table
    BY <1>2 DEF vars, mgrVars, workerVars, Rests, Shrunk
  <2>2. QED
    BY <1>1, <2>1
<1>3. ASSUME NEW w \in Worker, LoseToManager(w) \/ LoseToWorker(w) PROVE CarefulInv'
  <2>1. toM \in [Worker -> Seq(ToManager)] /\ toW \in [Worker -> Seq(ToWorker)]
    BY DEF SystemTypeOK
  <2>2. \/ toM[w] # <<>> /\ toM' = Popped(toM, w) /\ toW' = toW
        \/ toW[w] # <<>> /\ toW' = Popped(toW, w) /\ toM' = toM
    BY <1>3 DEF LoseToManager, LoseToWorker
  <2>3. \A u \in Worker : Shrunk(toM'[u], toM[u]) /\ Shrunk(toW'[u], toW[u])
    BY <2>1, <2>2 DEF Popped, Shrunk
  <2>4. (\A u \in Worker : Rests(u)) /\ table' = table
    BY <1>3 DEF LoseToManager, LoseToWorker, Rests
  <2>5. QED
    BY <1>1, <2>3, <2>4
<1>4. CASE Considerate /\ Roomy /\ Next
  BY <1>3, <1>4, WorkersCareful, DeliverCareful, OwnCareful DEF Next
<1>5. QED
  BY <1>2, <1>4

(* At the start nobody takes part in anything.                                   *)
LEMMA CarefulStart ==
  ASSUME Init
  PROVE  CarefulInv
<1>1. SUFFICES ASSUME NEW w \in Worker PROVE Careful(w)
  BY DEF CarefulInv
<1>2. wlog[w] = <<>> /\ mem[w] = Booted /\ toW[w] = <<>> /\ \A t \in Tid : joinedAt[w][t] = <<>>
  BY DEF Init, WorkerInit
<1>3. DOMAIN wlog[w] = {} /\ Range(toW[w]) = {}
  <2>1. DOMAIN <<>> = {}
    OBVIOUS
  <2>2. QED
    BY <1>2, <2>1, RangeEmpty
<1>4. Booted.txRun = FALSE
  BY DEF Booted
<1>5. VotesAsked(w) /\ Pristine(w)
  BY <1>2, <1>3, <1>4 DEF VotesAsked, Pristine, Blank
<1>6. \A t \in Tid : ~TakesPart(w, t)
  BY <1>2, <1>3 DEF TakesPart, InWay
<1>7. QED
  BY <1>2, <1>5, <1>6 DEF Careful

\* What w puts on record in a step tells of no abort.
AbortsNothing(w) ==
  \E s \in Seq(WorkerRecord) :
    /\ wlog'[w] = wlog[w] \o s
    /\ \A r \in Range(s) : r.kind \notin {"ABORT", "DECIDE_ABORT"}

(* A single record or none, of another kind.                                     *)
LEMMA AbortsNone ==
  ASSUME WorkerTypeOK, NEW w \in Worker,
         \/ wlog'[w] = wlog[w]
         \/ \E r \in WorkerRecord : /\ wlog'[w] = Append(wlog[w], r)
                                    /\ r.kind \notin {"ABORT", "DECIDE_ABORT"}
  PROVE  AbortsNothing(w)
<1>1. wlog[w] \in Seq(WorkerRecord)
  BY DEF WorkerTypeOK
<1>2. CASE wlog'[w] = wlog[w]
  <2>1. <<>> \in Seq(WorkerRecord) /\ wlog'[w] = wlog[w] \o <<>> /\ Range(<<>>) = {}
    BY <1>1, <1>2, RangeEmpty
  <2>2. QED
    BY <2>1 DEF AbortsNothing
<1>3. ASSUME NEW r \in WorkerRecord, wlog'[w] = Append(wlog[w], r),
             r.kind \notin {"ABORT", "DECIDE_ABORT"}
      PROVE  AbortsNothing(w)
  <2>1. <<r>> \in Seq(WorkerRecord) /\ wlog'[w] = wlog[w] \o <<r>> /\ Range(<<r>>) = {r}
    BY <1>1, <1>3, RangeSingle
  <2>2. QED
    BY <1>3, <2>1 DEF AbortsNothing
<1>4. QED
  BY <1>2, <1>3

(* Then a transaction that was not aborted on record is not now.                 *)
LEMMA StillNoAbort ==
  ASSUME WorkerTypeOK, NEW w \in Worker, NEW t, AbortsNothing(w), Undecided(w, t)
  PROVE  ~Wrote(w, "ABORT", t)' /\ ~Wrote(w, "DECIDE_ABORT", t)'
<1>1. wlog[w] \in Seq(WorkerRecord)
  BY DEF WorkerTypeOK
<1>2. PICK s \in Seq(WorkerRecord) :
        /\ wlog'[w] = wlog[w] \o s
        /\ \A r \in Range(s) : r.kind \notin {"ABORT", "DECIDE_ABORT"}
  BY DEF AbortsNothing
<1>3. \A i \in DOMAIN wlog'[w] :
        (i \in DOMAIN wlog[w] /\ wlog'[w][i] = wlog[w][i]) \/ wlog'[w][i] \in Range(s)
  BY <1>1, <1>2, AppendedPlaces
<1>4. Rec("ABORT", t).kind = "ABORT" /\ Rec("DECIDE_ABORT", t).kind = "DECIDE_ABORT"
  BY DEF Rec
<1>5. QED
  BY <1>2, <1>3, <1>4 DEF Undecided, Wrote

(* Every command but the abort tells of none.                                    *)
LEMMA CommandsAbortNothing ==
  ASSUME WorkerTypeOK, NEW w \in Worker, CmdAny(w)
  PROVE  AbortsNothing(w) \/ \E kind : CmdAbort(w, kind)
<1>1. /\ wlog \in [Worker -> Seq(WorkerRecord)] /\ mem[w] \in Memory
      /\ obj[w] \in Data /\ mem[w].curTid \in AnyTid
  BY DEF WorkerTypeOK, Memory
<1>2. CASE wlog'[w] = wlog[w]
  BY <1>2, AbortsNone
<1>3. ASSUME NEW f \in Field, NEW v \in Value, CmdUpdate(w, f, v) PROVE AbortsNothing(w)
  <2> DEFINE r == [kind |-> "NEW_VALUE", tid |-> mem[w].curTid, field |-> f, old |-> obj[w][f]]
  <2>1. r \in WorkerRecord
    BY <1>1 DEF WorkerRecord, Data
  <2>2. r.kind = "NEW_VALUE"
    OBVIOUS
  <2>3. wlog'[w] = wlog[w] \/ wlog'[w] = Append(wlog[w], r)
    BY <1>1, <1>3 DEF CmdUpdate, Write
  <2> HIDE DEF r
  <2>4. QED
    BY <2>1, <2>2, <2>3, AbortsNone
<1>4. ASSUME NEW kind \in {"COMMIT", "COMMIT_CRASH"}, CmdCommit(w, kind) PROVE AbortsNothing(w)
  <2> DEFINE r == Rec(kind, mem[w].curTid)
  <2>1. r \in WorkerRecord /\ r.kind = kind
    BY <1>1, RecType DEF Rec, RecordTag
  <2>2. wlog'[w] = Append(wlog[w], r)
    BY <1>1, <1>4 DEF CmdCommit, Write
  <2> HIDE DEF r
  <2>3. QED
    BY <2>1, <2>2, AbortsNone
<1>5. ASSUME \/ \E t \in Tid : CmdBegin(w, t) \/ CmdJoin(w, t)
             \/ \E d \in Delay : CmdDelay(w, d)
             \/ CmdCrash(w) \/ CmdVoteAbort(w)
      PROVE  wlog'[w] = wlog[w]
  BY <1>5 DEF CmdBegin, CmdJoin, CmdDelay, CmdCrash, CmdVoteAbort
<1>6. QED
  BY <1>2, <1>3, <1>4, <1>5 DEF CmdAny

(* Rolled back, a worker inside t has the data it joined with.                   *)
LEMMA RolledBackInside ==
  ASSUME WorkerTypeOK, NEW w \in Worker, NEW t \in Tid, Inside(w, t), Undecided(w, t),
         joinedAt[w][t] # <<>>
  PROVE  RolledBack(w, t) = joinedAt[w][t][1]
<1>1. joinedAt[w][t][1] \in [Field -> Value]
  <2>1. joinedAt[w][t] \in Seq(Data)
    BY DEF WorkerTypeOK
  <2>2. QED
    BY <2>1 DEF Data
<1>2. \A f \in Field : Undone(w, f) = joinedAt[w][t][1][f]
  BY DEF Inside
<1>3. RolledBack(w, t) = [f \in Field |-> Undone(w, f)]
  BY RollsBackAll DEF Inside
<1> HIDE DEF Undone
<1>4. QED
  BY <1>1, <1>2, <1>3

(* The step that puts the abort on record rolls back.                            *)
LEMMA AbortRestores ==
  ASSUME SystemTypeOK, BufferInv, CarefulInv, [Next]_vars, NEW w \in Worker, NEW t \in Tid,
         joinedAt[w][t] # <<>>, Undecided(w, t),
         Wrote(w, "ABORT", t)' \/ Wrote(w, "DECIDE_ABORT", t)'
  PROVE  obj'[w] = joinedAt[w][t][1]
<1>1. /\ WorkerTypeOK /\ wlog \in [Worker -> Seq(WorkerRecord)] /\ toW[w] \in Seq(ToWorker)
      /\ obj \in [Worker -> Data]
  BY DEF SystemTypeOK, WorkerTypeOK
<1>2. Inside(w, t) /\ Business(w, t)
  BY DEF CarefulInv, Careful, TakesPart
<1>3. RolledBack(w, t) = joinedAt[w][t][1]
  BY <1>1, <1>2, RolledBackInside
<1>4. ~AbortsNothing(w)
  BY <1>1, StillNoAbort
<1>5. wlog'[w] # wlog[w]
  BY <1>1, <1>4, AbortsNone
<1>6. ASSUME NEW kind, CmdAbort(w, kind) PROVE obj'[w] = RolledBack(w, t)
  <2>1. mem[w].curTid = t
    BY <1>2, <1>6 DEF Inside, CmdAbort, Ask
  <2>2. QED
    BY <1>1, <1>6, <2>1 DEF CmdAbort
<1>7. CASE WorkerRestart(w)
  <2>1. LastRecord(w).tid = t
    BY <1>1, <1>2, LastInside DEF Inside
  <2>2. obj' = [obj EXCEPT ![w] = RolledBack(w, LastRecord(w).tid)]
    BY <1>5, <1>7 DEF WorkerRestart
  <2>3. QED
    BY <1>1, <1>3, <2>1, <2>2
<1>8. CASE toW[w] # <<>> /\ WorkerReceive(w, Head(toW[w]))
  <2> DEFINE m == Head(toW[w])
  <2>1. m \in ToWorker /\ WorkerReceive(w, m)
    BY <1>1, <1>8, RangeRead
  <2> HIDE DEF m
  <2>2. m.tid \in AnyTid
    BY <2>1 DEF ToWorker
  <2>3. ASSUME NEW kind \in RecordTag \ {"ABORT", "DECIDE_ABORT"}, Write(w, Rec(kind, m.tid))
        PROVE  FALSE
    <3> DEFINE r == Rec(kind, m.tid)
    <3>1. r \in WorkerRecord /\ r.kind = kind
      BY <2>2, RecType DEF Rec
    <3>2. wlog'[w] = Append(wlog[w], r)
      BY <1>1, <2>3 DEF Write
    <3> HIDE DEF r
    <3>3. QED
      BY <1>1, <1>4, <2>3, <3>1, <3>2, AbortsNone
  <2>4. ~RecvOther(w, m)
    BY <1>5 DEF RecvOther
  <2>5. ~RecvJoinReply(w, m)
    BY <1>5, <2>3 DEF RecvJoinReply, RecordTag
  <2>6. ~RecvPrepare(w, m)
    <3>1. SUFFICES ASSUME RecvPrepare(w, m) PROVE AbortsNothing(w)
      BY <1>4
    <3> DEFINE a == Rec("PREPARE_COMMIT", m.tid)
               b == Rec("VOTE_COMMIT", m.tid)
    <3>2. /\ a \in WorkerRecord /\ a.kind = "PREPARE_COMMIT"
          /\ b \in WorkerRecord /\ b.kind = "VOTE_COMMIT"
      BY <2>2, RecType DEF Rec, RecordTag
    <3>3. wlog'[w] = Append(wlog[w], a) \/ wlog'[w] = Append(Append(wlog[w], a), b)
      BY <1>1, <3>1 DEF RecvPrepare
    <3> HIDE DEF a, b
    <3>4. CASE wlog'[w] = Append(wlog[w], a)
      BY <1>1, <3>2, <3>4, AbortsNone
    <3>5. CASE wlog'[w] = Append(Append(wlog[w], a), b)
      <4>1. /\ <<a, b>> \in Seq(WorkerRecord) /\ wlog'[w] = wlog[w] \o <<a, b>>
        BY <1>1, <3>2, <3>5
      <4>2. Range(<<a, b>>) = {a, b}
        BY DEF Range
      <4>3. QED
        BY <3>2, <4>1, <4>2 DEF AbortsNothing
    <3>6. QED
      BY <3>3, <3>4, <3>5
  <2>7. RecvDecision(w, m) /\ m.kind = "DECIDE_ABORT"
    <3>1. RecvDecision(w, m)
      BY <2>1, <2>4, <2>5, <2>6 DEF WorkerReceive
    <3>2. m.kind # "DECIDE_COMMIT"
      BY <2>3, <3>1 DEF RecvDecision, RecordTag
    <3>3. QED
      BY <3>1, <3>2 DEF RecvDecision
  <2>8. mem[w].curTid = t
    BY <1>2, <2>7 DEF Inside, RecvDecision
  <2>9. QED
    BY <1>1, <1>3, <2>7, <2>8 DEF RecvDecision
<1>9. QED
  BY <1>1, <1>3, <1>4, <1>5, <1>6, <1>7, <1>8, WhoseStep, CommandsAbortNothing DEF Rests, Poll

(* tworker.c:100, "Used to rollback values in the abort case": where users ask   *)
(* to commit once, begin nothing after their join, and the table has a slot for  *)
(* every transaction, the step with which a worker first aborts what it joined   *)
(* leaves the data as they were at the join, whatever crashes and is lost.       *)
THEOREM RollsBack == ConsiderateSpec /\ [][Roomy]_vars => RollbackRestores
<1>1. Init => CarefulInv
  BY CarefulStart
<1>2. ConsiderateInv /\ ConsiderateInv' /\ CarefulInv /\ [Next]_vars /\ [Considerate]_vars
        /\ [Roomy]_vars => CarefulInv'
  BY CarefulStep DEF ConsiderateInv
<1> DEFINE Restores ==
             \A w \in Worker, t \in Tid :
               /\ joinedAt[w][t] # <<>>
               /\ Undecided(w, t)
               /\ (Wrote(w, "ABORT", t) \/ Wrote(w, "DECIDE_ABORT", t))'
               => obj'[w] = joinedAt[w][t][1]
<1>3. ConsiderateInv /\ CarefulInv /\ [Next]_vars => [Restores]_vars
  <2>1. SUFFICES ASSUME ConsiderateInv, CarefulInv, [Next]_vars, NEW w \in Worker, NEW t \in Tid,
                        joinedAt[w][t] # <<>>, Undecided(w, t),
                        (Wrote(w, "ABORT", t) \/ Wrote(w, "DECIDE_ABORT", t))'
                 PROVE  obj'[w] = joinedAt[w][t][1]
    OBVIOUS
  <2>2. QED
    BY <2>1, AbortRestores DEF ConsiderateInv
<1>4. QED
  BY <1>1, <1>2, <1>3, ConsiderateInvariant, PTL DEF ConsiderateSpec, Spec, RollbackRestores

===============================================================================
