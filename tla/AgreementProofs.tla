---------------------------- MODULE AgreementProofs ----------------------------
(* Proofs about the two-phase commit as a whole: while the manager runs, nobody  *)
(* records decisions that contradict each other, a commit has everybody's        *)
(* consent, and the system implements AtomicCommit, for any number of workers    *)
(* and transactions, any interleaving of votes, polls and timeouts, and workers  *)
(* that die after they voted.                                                    *)
EXTENDS TxSystemProofs

-------------------------------------------------------------------------------
\* What is asked of a behaviour

\* A slot is free, and every slot has room for one member more: a join never
\* reads the uninitialised index of saveWorkerInfo, nor is accepted and not listed.
Spacious == Holding(NoTid) # {} /\ \A k \in Slot : Len(table[k].members) < MaxNodes

Dies(w) == mem[w].pc # "down" /\ mem'[w].pc = "down"

Ballot == {"VOTE_COMMIT", "VOTE_ABORT"}

Followup == Ballot \cup {"POLL_DECISION"}

\* A step that keeps the manager running, and in which a worker dies only after
\* it has sent a vote or a poll.
Orderly ==
  /\ mgrUp'
  /\ Spacious
  /\ \A w \in Worker : Dies(w) => \E i \in DOMAIN posted' : posted'[i].kind \in Followup

\* Each worker takes part in one transaction.
OneJoinEach == \A w \in Worker : left[w]["JOINTX"] <= 1

OrderlySpec == Spec /\ OneJoinEach /\ [][Orderly]_vars

-------------------------------------------------------------------------------
\* The inductive invariant

Running == mgrUp /\ resume = 0

\* The transaction a worker takes part in, which a dead one finds in its log.
Tx(w) == IF mem[w].pc = "down" THEN LastRecord(w).tid ELSE mem[w].curTid

Msg(kind, t) == [kind |-> kind, tid |-> t]

InWay(w, kind, t) == Msg(kind, t) \in Range(toW[w])

\* The manager has accepted w's join of t.
Admitted(w, t) == Tx(w) = t \/ InWay(w, "JOIN_SUCCESS", t)

Asking(w) == \E m \in Range(toM[w]) : m.kind = "JOINTX"

\* What the manager sends to members.
ToMember == {"JOIN_SUCCESS", "PREPARE_COMMIT", "DECIDE_COMMIT", "DECIDE_ABORT"}

AskedOnce(q) == \A i, j \in DOMAIN q : q[i].kind = "JOINTX" /\ q[j].kind = "JOINTX" => i = j

AcceptedFirst(q) ==
  \A i, j \in DOMAIN q : q[i].kind = "JOIN_SUCCESS" /\ q[j].kind \in ToMember => i <= j

\* A worker joins once, and hears nothing before the answer.
Admission(w) ==
  /\ left[w]["JOINTX"] <= 1
  /\ AskedOnce(toM[w])
  /\ Asking(w) => left[w]["JOINTX"] = 0 /\ \A t \in Tid : ~Admitted(w, t)
  /\ AcceptedFirst(toW[w])
  /\ \A m \in Range(toW[w]) :
       /\ m.kind \in ToMember => m.tid \in Tid /\ Admitted(w, m.tid)
       /\ m.kind = "JOIN_SUCCESS" => Tx(w) = NoTid
  /\ \A t \in Tid : Admitted(w, t) => left[w]["JOINTX"] = 0 /\ t \in begun

\* A worker that voted and was not told waits, or died waiting.
Unsure(w) == mem[w].pc \in {"wait", "down"}

Own == {"ABORT", "PREPARE_COMMIT", "DECIDE_COMMIT", "DECIDE_ABORT"}

\* All a worker records and sends is about the transaction it takes part in.
Engagement(w) ==
  /\ Unsure(w) => /\ LastRecord(w).kind \in {"PREPARE_COMMIT", "VOTE_COMMIT"}
                  /\ LastRecord(w).tid = Tx(w) /\ Tx(w) \in Tid
  /\ mem[w].pc = "down" => toW[w] = <<>>
  /\ \A m \in Range(toM[w]) : m.kind \in Followup => m.tid = Tx(w) /\ Tx(w) \in Tid
  /\ \A t \in Tid : joinedAt[w][t] # <<>> <=> Tx(w) = t
  /\ \A t \in Tid, kind \in Own : Wrote(w, kind, t) => Tx(w) = t

In(k) == {table[k].members[i].id : i \in DOMAIN table[k].members}

Yes(k) == {table[k].members[i].id : i \in {j \in DOMAIN table[k].members : table[k].members[j].voted}}

Distinct(k) ==
  \A i, j \in DOMAIN table[k].members :
    table[k].members[i].id = table[k].members[j].id => i = j

Consents(w, t) == Prepared(w, t) /\ Logged("COMMIT_REQ", t)

\* A slot lists those admitted, marks nobody who did not consent, and goes when the
\* last one is marked.
Listing(k) ==
  /\ Distinct(k)
  /\ table[k].tid = NoTid => table[k].members = <<>>
  /\ table[k].tid # NoTid => \A w \in Worker : w \in In(k) <=> Admitted(w, table[k].tid)
  /\ \A w \in Yes(k) : Consents(w, table[k].tid)
  /\ In(k) # {} => In(k) # Yes(k)

Marked(w) == \A k \in Holding(Tx(w)) : w \in Yes(k)

Covered(q) ==
  \A j \in DOMAIN q : q[j].kind = "POLL_DECISION" =>
    \E i \in DOMAIN q : i < j /\ q[i].kind \in Ballot

Voting(w) == \E m \in Range(toM[w]) : m.kind \in Ballot

\* A poll, which is counted as a vote, comes after a vote of the same worker.
Votes(w) ==
  /\ \A t \in Tid : InWay(w, "PREPARE_COMMIT", t) => Logged("COMMIT_REQ", t)
  /\ \A m \in Range(toM[w]) : m.kind = "VOTE_COMMIT" => Consents(w, m.tid)
  /\ Tx(w) \in Tid /\ ~Marked(w) => Covered(toM[w]) /\ (Unsure(w) => Voting(w))

\* An abort in the log is that of a transaction whose slot is gone, a commit was
\* requested.
LogInv ==
  \A t \in Tid :
    /\ Logged("DECIDE_ABORT", t) => t \in begun /\ Holding(t) = {}
    /\ Logged("DECIDE_COMMIT", t) => Logged("COMMIT_REQ", t)

Hears(w, kind, t) == Wrote(w, kind, t) \/ InWay(w, kind, t)

\* What a worker hears is what the log says, which says something once the slot is
\* gone.
Verdict(w) ==
  \A t \in Tid :
    /\ Admitted(w, t) /\ Holding(t) = {} => Logged("DECIDE_COMMIT", t) \/ Logged("DECIDE_ABORT", t)
    /\ Logged("DECIDE_COMMIT", t) /\ Admitted(w, t) => Prepared(w, t)
    /\ Hears(w, "DECIDE_COMMIT", t) => Logged("DECIDE_COMMIT", t)
    /\ Hears(w, "DECIDE_ABORT", t) => Logged("DECIDE_ABORT", t) /\ ~Logged("DECIDE_COMMIT", t)

WorkerOK(w) == Admission(w) /\ Engagement(w) /\ Votes(w) /\ Verdict(w)

WorkerInv == \A w \in Worker : WorkerOK(w)

SlotInv == \A k \in Slot : Listing(k)

CommitInv == Running /\ SlotInv /\ LogInv /\ WorkerInv

\* Every datagram names the worker that sent it.
Signed == \A w \in Worker : \A m \in Range(toM[w]) : m.from = w

SafeInv == SystemTypeOK /\ BufferInv /\ Signed /\ FinalInv /\ CommitIsFinal /\ CommitInv

-------------------------------------------------------------------------------
\* Queues: what sending and reading do to the order of messages

Kinds(q) == {m.kind : m \in Range(q)}

(* The messages of a queue that was read, by place.                              *)
LEMMA TailPlaces ==
  ASSUME NEW S, NEW q \in Seq(S), q # <<>>
  PROVE  /\ \A i \in DOMAIN Tail(q) : i + 1 \in DOMAIN q /\ Tail(q)[i] = q[i + 1]
         /\ \A i \in DOMAIN q : i # 1 => i - 1 \in DOMAIN Tail(q) /\ Tail(q)[i - 1] = q[i]
         /\ 1 \in DOMAIN q /\ Head(q) = q[1]
<1>1. DOMAIN Tail(q) = 1..(Len(q) - 1) /\ DOMAIN q = 1..Len(q)
  OBVIOUS
<1>2. \A i \in 1..(Len(q) - 1) : Tail(q)[i] = q[i + 1]
  OBVIOUS
<1>3. QED
  BY <1>1, <1>2

(* The messages of a longer queue, by place.                                     *)
LEMMA AppendedPlaces ==
  ASSUME NEW S, NEW q \in Seq(S), NEW s \in Seq(S)
  PROVE  /\ \A i \in DOMAIN q : i \in DOMAIN (q \o s) /\ (q \o s)[i] = q[i]
         /\ \A i \in DOMAIN (q \o s) : i \notin DOMAIN q => /\ (q \o s)[i] \in Range(s)
                                                          /\ \A j \in DOMAIN q : j < i
<1>1. DOMAIN q = 1..Len(q) /\ DOMAIN (q \o s) = 1..(Len(q) + Len(s)) /\ DOMAIN s = 1..Len(s)
  OBVIOUS
<1>2. \A i \in 1..Len(q) : (q \o s)[i] = q[i]
  OBVIOUS
<1>3. ASSUME NEW i \in DOMAIN (q \o s), i \notin DOMAIN q
      PROVE  (q \o s)[i] \in Range(s) /\ \A j \in DOMAIN q : j < i
  <2>1. i > Len(q) /\ i - Len(q) \in DOMAIN s
    BY <1>1, <1>3
  <2>2. (q \o s)[i] = s[i - Len(q)]
    BY <1>1, <2>1
  <2>3. QED
    BY <1>1, <2>1, <2>2 DEF Range
<1>4. QED
  BY <1>1, <1>2, <1>3

(* Reading keeps what is known of a buffer to the manager.                       *)
LEMMA ReadByManager ==
  ASSUME NEW q \in Seq(ToManager), q # <<>>
  PROVE  /\ AskedOnce(q) => AskedOnce(Tail(q))
         /\ AskedOnce(q) /\ Head(q).kind = "JOINTX" => "JOINTX" \notin Kinds(Tail(q))
         /\ Covered(q) => Head(q).kind # "POLL_DECISION"
         /\ Covered(q) /\ Head(q).kind \notin Ballot => Covered(Tail(q))
<1> USE TailPlaces
<1>1. AskedOnce(q) => AskedOnce(Tail(q))
  <2>1. SUFFICES ASSUME AskedOnce(q), NEW i \in DOMAIN Tail(q), NEW j \in DOMAIN Tail(q),
                        Tail(q)[i].kind = "JOINTX", Tail(q)[j].kind = "JOINTX"
                 PROVE  i = j
    BY DEF AskedOnce
  <2>2. i + 1 = j + 1
    BY <2>1 DEF AskedOnce
  <2>3. i \in Nat /\ j \in Nat
    OBVIOUS
  <2>4. QED
    BY <2>2, <2>3
<1>2. AskedOnce(q) /\ Head(q).kind = "JOINTX" => "JOINTX" \notin Kinds(Tail(q))
  <2>1. SUFFICES ASSUME AskedOnce(q), q[1].kind = "JOINTX",
                        NEW i \in DOMAIN Tail(q), Tail(q)[i].kind = "JOINTX"
                 PROVE  FALSE
    BY DEF Kinds, Range
  <2>2. i + 1 = 1 /\ i \in Nat \ {0}
    BY <2>1 DEF AskedOnce
  <2>3. QED
    BY <2>2
<1>3. Covered(q) => Head(q).kind # "POLL_DECISION"
  <2>1. \A i \in DOMAIN q : ~(i < 1)
    OBVIOUS
  <2>2. QED
    BY <2>1 DEF Covered
<1>4. Covered(q) /\ Head(q).kind \notin Ballot => Covered(Tail(q))
  <2>1. SUFFICES ASSUME Covered(q), q[1].kind \notin Ballot,
                        NEW j \in DOMAIN Tail(q), Tail(q)[j].kind = "POLL_DECISION"
                 PROVE  \E i \in DOMAIN Tail(q) : i < j /\ Tail(q)[i].kind \in Ballot
    BY DEF Covered
  <2>2. PICK i \in DOMAIN q : i < j + 1 /\ q[i].kind \in Ballot
    BY <2>1 DEF Covered
  <2>3. i # 1 /\ i \in Nat /\ j \in Nat
    BY <2>1, <2>2
  <2>4. i - 1 \in DOMAIN Tail(q) /\ Tail(q)[i - 1].kind \in Ballot /\ i - 1 < j
    BY <2>2, <2>3
  <2>5. QED
    BY <2>4
<1>5. QED
  BY <1>1, <1>2, <1>3, <1>4

(* So does sending, if a join is not asked for twice and a poll follows a vote.  *)
LEMMA SentToManager ==
  ASSUME NEW q \in Seq(ToManager), NEW m \in ToManager
  PROVE  /\ q \o <<m>> \in Seq(ToManager)
         /\ Range(q \o <<m>>) = Range(q) \cup {m}
         /\ AskedOnce(q) /\ (m.kind = "JOINTX" => "JOINTX" \notin Kinds(q)) => AskedOnce(q \o <<m>>)
         /\ Covered(q) /\ (m.kind = "POLL_DECISION" => Kinds(q) \cap Ballot # {})
              => Covered(q \o <<m>>)
<1>1. <<m>> \in Seq(ToManager) /\ Range(<<m>>) = {m}
  BY RangeSingle
<1> DEFINE p == q \o <<m>>
<1>2. p \in Seq(ToManager) /\ Range(p) = Range(q) \cup {m}
  <2>1. p \in Seq(ToManager)
    BY <1>1
  <2>2. Range(q \o <<m>>) = Range(q) \cup Range(<<m>>)
    BY <1>1, RangeAppended
  <2>3. QED
    BY <1>1, <2>1, <2>2
<1>3. /\ \A i \in DOMAIN q : i \in DOMAIN p /\ p[i] = q[i]
      /\ \A i \in DOMAIN p : i \notin DOMAIN q => p[i] = m /\ \A j \in DOMAIN q : j < i
  BY <1>1, AppendedPlaces
<1>4. \A i, j \in DOMAIN p : i \notin DOMAIN q /\ j \notin DOMAIN q => i = j
  <2>1. DOMAIN q = 1..Len(q) /\ DOMAIN p = 1..(Len(q) + 1)
    BY <1>1
  <2>2. QED
    BY <2>1
<1> HIDE DEF p
<1>5. ASSUME AskedOnce(q), m.kind = "JOINTX" => "JOINTX" \notin Kinds(q) PROVE AskedOnce(p)
  <2>1. SUFFICES ASSUME NEW i \in DOMAIN p, NEW j \in DOMAIN p,
                        p[i].kind = "JOINTX", p[j].kind = "JOINTX"
                 PROVE  i = j
    BY DEF AskedOnce
  <2>2. CASE i \in DOMAIN q /\ j \in DOMAIN q
    BY <1>3, <1>5, <2>1, <2>2 DEF AskedOnce
  <2>3. CASE i \notin DOMAIN q /\ j \notin DOMAIN q
    BY <1>4, <2>1, <2>3
  <2>4. CASE i \in DOMAIN q /\ j \notin DOMAIN q
    BY <1>3, <1>5, <2>1, <2>4 DEF Kinds, Range
  <2>5. CASE i \notin DOMAIN q /\ j \in DOMAIN q
    BY <1>3, <1>5, <2>1, <2>5 DEF Kinds, Range
  <2>6. QED
    BY <2>2, <2>3, <2>4, <2>5
<1>6. ASSUME Covered(q), m.kind = "POLL_DECISION" => Kinds(q) \cap Ballot # {} PROVE Covered(p)
  <2>1. SUFFICES ASSUME NEW j \in DOMAIN p, p[j].kind = "POLL_DECISION"
                 PROVE  \E i \in DOMAIN p : i < j /\ p[i].kind \in Ballot
    BY DEF Covered
  <2>2. CASE j \in DOMAIN q
    <3>1. PICK i \in DOMAIN q : i < j /\ q[i].kind \in Ballot
      BY <1>3, <1>6, <2>1, <2>2 DEF Covered
    <3>2. QED
      BY <1>3, <3>1
  <2>3. CASE j \notin DOMAIN q
    <3>1. PICK i \in DOMAIN q : q[i].kind \in Ballot
      BY <1>3, <1>6, <2>1, <2>3 DEF Kinds, Range
    <3>2. QED
      BY <1>3, <2>3, <3>1
  <2>4. QED
    BY <2>2, <2>3
<1>7. QED
  BY <1>2, <1>5, <1>6 DEF p

(* Reading keeps the order of what is on its way to a worker.                    *)
LEMMA ReadByWorker ==
  ASSUME NEW q \in Seq(ToWorker), q # <<>>, AcceptedFirst(q)
  PROVE  /\ AcceptedFirst(Tail(q))
         /\ Head(q).kind \in ToMember => "JOIN_SUCCESS" \notin Kinds(Tail(q))
<1> USE TailPlaces
<1>1. AcceptedFirst(Tail(q))
  <2>1. SUFFICES ASSUME NEW i \in DOMAIN Tail(q), NEW j \in DOMAIN Tail(q),
                        Tail(q)[i].kind = "JOIN_SUCCESS", Tail(q)[j].kind \in ToMember
                 PROVE  i <= j
    BY DEF AcceptedFirst
  <2>2. i + 1 <= j + 1
    BY <2>1 DEF AcceptedFirst
  <2>3. i \in Nat /\ j \in Nat
    OBVIOUS
  <2>4. QED
    BY <2>2, <2>3
<1>2. Head(q).kind \in ToMember => "JOIN_SUCCESS" \notin Kinds(Tail(q))
  <2>1. SUFFICES ASSUME q[1].kind \in ToMember,
                        NEW i \in DOMAIN Tail(q), Tail(q)[i].kind = "JOIN_SUCCESS"
                 PROVE  FALSE
    BY DEF Kinds, Range
  <2>2. i + 1 <= 1 /\ i \in Nat \ {0}
    BY <2>1 DEF AcceptedFirst
  <2>3. QED
    BY <2>2
<1>3. QED
  BY <1>1, <1>2

(* Sending keeps it, if an accepted join is sent to nobody who heard before.     *)
LEMMA SentToWorker ==
  ASSUME NEW q \in Seq(ToWorker), NEW s \in Seq(ToWorker), AcceptedFirst(q),
         \/ "JOIN_SUCCESS" \notin Kinds(s)
         \/ Len(s) = 1 /\ Kinds(q) \cap ToMember = {}
  PROVE  AcceptedFirst(q \o s)
<1>1. SUFFICES ASSUME NEW i \in DOMAIN (q \o s), NEW j \in DOMAIN (q \o s),
                      (q \o s)[i].kind = "JOIN_SUCCESS", (q \o s)[j].kind \in ToMember
               PROVE  i <= j
  BY DEF AcceptedFirst
<1>2. CASE i \in DOMAIN q /\ j \in DOMAIN q
  BY <1>1, <1>2, AppendedPlaces DEF AcceptedFirst
<1>3. CASE i \in DOMAIN q /\ j \notin DOMAIN q
  BY <1>3, AppendedPlaces
<1>4. CASE i \notin DOMAIN q
  <2>1. "JOIN_SUCCESS" \in Kinds(s)
    BY <1>1, <1>4, AppendedPlaces DEF Kinds
  <2>2. Len(s) = 1 /\ Kinds(q) \cap ToMember = {}
    BY <2>1
  <2>3. j \notin DOMAIN q
    BY <1>1, <2>2, AppendedPlaces DEF Kinds, Range
  <2>4. DOMAIN q = 1..Len(q) /\ DOMAIN (q \o s) = 1..(Len(q) + Len(s)) /\ Len(q) \in Nat
    OBVIOUS
  <2>5. i = Len(q) + 1 /\ j = Len(q) + 1
    BY <1>4, <2>2, <2>3, <2>4
  <2>6. QED
    BY <2>5
<1>5. QED
  BY <1>2, <1>3, <1>4

-------------------------------------------------------------------------------
\* Steps of a worker

\* w's log keeps its records.
Extends(w) ==
  /\ DOMAIN wlog[w] \subseteq DOMAIN wlog'[w]
  /\ \A i \in DOMAIN wlog[w] : wlog'[w][i] = wlog[w][i]

(* What a worker is prepared for it stays prepared for.                          *)
LEMMA PreparedKept ==
  ASSUME SystemTypeOK, NEW w \in Worker, Extends(w), NEW t, Prepared(w, t)
  PROVE  Prepared(w, t)'
<1>1. PICK i \in DOMAIN wlog[w] :
        wlog[w][i] = Rec("PREPARE_COMMIT", t) /\ \A j \in 1..i : wlog[w][j] # Rec("ABORT", t)
  BY DEF Prepared
<1>2. DOMAIN wlog[w] = 1..Len(wlog[w])
  BY DEF SystemTypeOK, WorkerTypeOK
<1>3. \A j \in 1..i : j \in DOMAIN wlog[w]
  BY <1>2
<1>4. i \in DOMAIN wlog'[w] /\ wlog'[w][i] = Rec("PREPARE_COMMIT", t)
  BY <1>1 DEF Extends, Rec
<1>5. \A j \in 1..i : wlog'[w][j] # Rec("ABORT", t)
  BY <1>1, <1>3 DEF Extends
<1>6. QED
  BY <1>4, <1>5 DEF Prepared, Rec

(* What one more record does to a log.                                           *)
LEMMA RecordAdded ==
  ASSUME SystemTypeOK, NEW w \in Worker, NEW r \in WorkerRecord, wlog'[w] = Append(wlog[w], r)
  PROVE  /\ Extends(w)
         /\ LastRecord(w)' = r
         /\ \A kind, t : Wrote(w, kind, t)' <=> Wrote(w, kind, t) \/ r = Rec(kind, t)
<1>1. wlog[w] \in Seq(WorkerRecord)
  BY DEF SystemTypeOK, WorkerTypeOK
<1>2. /\ DOMAIN wlog[w] = 1..Len(wlog[w]) /\ Len(wlog[w]) \in Nat
      /\ DOMAIN wlog'[w] = 1..(Len(wlog[w]) + 1) /\ Len(wlog'[w]) = Len(wlog[w]) + 1
      /\ \A i \in 1..Len(wlog[w]) : wlog'[w][i] = wlog[w][i]
      /\ wlog'[w][Len(wlog[w]) + 1] = r
      /\ wlog'[w] # <<>>
  BY <1>1
<1>3. Extends(w)
  BY <1>2 DEF Extends
<1>4. LastRecord(w)' = r
  BY <1>2 DEF LastRecord
<1>5. ASSUME NEW kind, NEW t
      PROVE  Wrote(w, kind, t)' <=> Wrote(w, kind, t) \/ r = Rec(kind, t)
  <2>1. \A i \in 1..(Len(wlog[w]) + 1) : i \in 1..Len(wlog[w]) \/ i = Len(wlog[w]) + 1
    BY <1>2
  <2>2. 1..Len(wlog[w]) \subseteq 1..(Len(wlog[w]) + 1) /\ Len(wlog[w]) + 1 \in 1..(Len(wlog[w]) + 1)
    BY <1>2
  <2>3. ASSUME Wrote(w, kind, t)' PROVE Wrote(w, kind, t) \/ r = Rec(kind, t)
    BY <1>2, <2>1, <2>3 DEF Wrote, Rec
  <2>4. ASSUME Wrote(w, kind, t) \/ r = Rec(kind, t) PROVE Wrote(w, kind, t)'
    BY <1>2, <2>2, <2>4 DEF Wrote, Rec
  <2>5. QED
    BY <2>3, <2>4
<1>6. QED
  BY <1>3, <1>4, <1>5

\* Nothing happens to worker u.
Still(u) ==
  /\ wlog'[u] = wlog[u] /\ mem'[u] = mem[u] /\ joinedAt'[u] = joinedAt[u] /\ left'[u] = left[u]
  /\ toM'[u] = toM[u] /\ toW'[u] = toW[u]

(* What is known of a worker stays while it and the manager do nothing.          *)
LEMMA StillKept ==
  ASSUME NEW u \in Worker, Still(u), UNCHANGED <<table, mlog, begun>>, WorkerOK(u)
  PROVE  WorkerOK(u)'
<1>1. Tx(u)' = Tx(u) /\ Unsure(u)' = Unsure(u) /\ LastRecord(u)' = LastRecord(u)
  BY DEF Still, Tx, LastRecord, Unsure
<1>2. \A kind, t : (Wrote(u, kind, t)' <=> Wrote(u, kind, t)) /\ (InWay(u, kind, t)' <=> InWay(u, kind, t))
  BY DEF Still, Wrote, InWay, Rec, Msg
<1>3. \A t : (Admitted(u, t)' <=> Admitted(u, t)) /\ (Prepared(u, t)' <=> Prepared(u, t))
  BY <1>1, <1>2 DEF Still, Admitted, Prepared
<1>4. \A kind, t : Logged(kind, t)' <=> Logged(kind, t)
  BY DEF Logged
<1>5. \A t : Holding(t)' = Holding(t)
  BY DEF Holding
<1>6. Marked(u)' <=> Marked(u)
  BY <1>1, <1>5 DEF Marked, Yes
<1>7. Admission(u)'
  BY <1>1, <1>3 DEF WorkerOK, Still, Admission, Asking
<1>8. Engagement(u)'
  BY <1>1, <1>2 DEF WorkerOK, Still, Engagement, Unsure
<1>9. Votes(u)'
  BY <1>1, <1>2, <1>3, <1>4, <1>6 DEF WorkerOK, Still, Votes, Consents, Voting
<1>10. Verdict(u)'
  BY <1>2, <1>3, <1>4, <1>5 DEF WorkerOK, Verdict, Hears
<1>11. QED
  BY <1>7, <1>8, <1>9, <1>10 DEF WorkerOK

(* The members of a slot are workers, those marked are members.                  *)
LEMMA SlotTypes ==
  ASSUME SystemTypeOK, NEW k \in Slot
  PROVE  /\ table[k].members \in Seq(Member) /\ table[k].tid \in AnyTid
         /\ Yes(k) \subseteq In(k) /\ In(k) \subseteq Worker
<1>1. table[k].members \in Seq(Member) /\ table[k].tid \in AnyTid
  BY DEF SystemTypeOK, MgrTypeOK
<1>2. \A i \in DOMAIN table[k].members : table[k].members[i] \in Member
  BY <1>1
<1>3. In(k) \subseteq Worker
  BY <1>2 DEF In, Member
<1>4. Yes(k) \subseteq In(k)
  BY DEF In, Yes
<1>5. QED
  BY <1>1, <1>3, <1>4

\* What a step of w has to do for the invariant.
WorkerDone(w) ==
  /\ Extends(w)
  /\ \A t \in Tid : Admitted(w, t)' <=> Admitted(w, t)
  /\ WorkerOK(w)'

(* A step of one worker changes nothing for the others, nor for the slots.       *)
LEMMA WorkerFrame ==
  ASSUME SystemTypeOK, CommitInv, mgrUp', UNCHANGED <<table, mlog, begun, resume>>,
         NEW w \in Worker, \A u \in Worker \ {w} : Still(u), WorkerDone(w)
  PROVE  CommitInv'
<1>1. \A kind, t : Logged(kind, t)' <=> Logged(kind, t)
  BY DEF Logged
<1>2. \A t : Holding(t)' = Holding(t)
  BY DEF Holding
<1>3. \A u \in Worker : \A t \in Tid : Admitted(u, t)' <=> Admitted(u, t)
  BY DEF WorkerDone, Still, Admitted, Tx, LastRecord, InWay, Msg
<1>4. ASSUME NEW u \in Worker PROVE Extends(u)
  BY DEF WorkerDone, Still, Extends
<1>5. WorkerInv'
  <2>1. ASSUME NEW u \in Worker, u # w PROVE WorkerOK(u)'
    BY <2>1, StillKept DEF CommitInv, WorkerInv
  <2>2. QED
    BY <2>1 DEF WorkerInv, WorkerDone
<1>6. SlotInv'
  <2>1. ASSUME NEW k \in Slot PROVE Listing(k)'
    <3>1. Distinct(k)' /\ (table'[k].tid = NoTid => table'[k].members = <<>>)
      BY DEF CommitInv, SlotInv, Listing, Distinct
    <3>2. In(k)' = In(k) /\ Yes(k)' = Yes(k)
      BY DEF In, Yes
    <3>3. table[k].tid # NoTid => table[k].tid \in Tid
      BY DEF SystemTypeOK, MgrTypeOK, AnyTid
    <3>4. table'[k].tid # NoTid => \A u \in Worker : u \in In(k)' <=> Admitted(u, table[k].tid)'
      BY <1>3, <3>2, <3>3 DEF CommitInv, SlotInv, Listing
    <3>5. Yes(k) \subseteq Worker
      BY SlotTypes
    <3>6. ASSUME NEW u \in Yes(k) PROVE Consents(u, table[k].tid)'
      <4>1. u \in Worker /\ Consents(u, table[k].tid)
        BY <3>5 DEF CommitInv, SlotInv, Listing
      <4>2. Prepared(u, table[k].tid)'
        BY <1>4, <4>1, PreparedKept DEF Consents
      <4>3. QED
        BY <1>1, <4>1, <4>2 DEF Consents
    <3>7. In(k) # {} => In(k) # Yes(k)
      BY DEF CommitInv, SlotInv, Listing
    <3>8. QED
      BY <3>1, <3>2, <3>4, <3>6, <3>7 DEF Listing
  <2>2. QED
    BY <2>1 DEF SlotInv
<1>7. LogInv'
  BY <1>1, <1>2 DEF CommitInv, LogInv
<1>8. Running'
  BY DEF CommitInv, Running
<1>9. QED
  BY <1>5, <1>6, <1>7, <1>8 DEF CommitInv

\* What a step of w sends is put into its buffer to the manager, what it reads is
\* taken from the other, which is emptied when it dies.
Routed(w, queue) ==
  /\ toM'[w] = toM[w] \o posted'
  /\ toW'[w] = IF mem'[w].pc = "down" THEN <<>> ELSE queue

(* A worker's step touches its own buffers only.                                 *)
LEMMA WorkerRouted ==
  ASSUME SystemTypeOK, CommitInv, NEW w \in Worker, NEW queues \in [Worker -> Seq(ToWorker)],
         \A u \in Worker : u # w => queues[u] = toW[u], mgrUp',
         WorkerGood(w), sent' = Silence, RouteToManager(toM), RouteToWorkers(queues)
  PROVE  /\ Routed(w, queues[w])
         /\ \A u \in Worker : u # w /\ mem'[u] = mem[u] => toM'[u] = toM[u] /\ toW'[u] = toW[u]
<1>1. ASSUME NEW u \in Worker PROVE toM'[u] = toM[u] \o PostedBy(u)'
  BY DEF RouteToManager
<1>2. ASSUME NEW u \in Worker PROVE PostedBy(u)' = IF u = w THEN posted' ELSE <<>>
  <2>1. CASE posted' = <<>>
    BY <2>1 DEF PostedBy
  <2>2. ASSUME NEW m \in ToManager, m.from = w, posted' = <<m>>
        PROVE  PostedBy(u)' = IF u = w THEN posted' ELSE <<>>
    BY <2>2 DEF PostedBy
  <2>3. QED
    BY <2>1, <2>2 DEF WorkerGood, Posting, Sendable
<1>3. ASSUME NEW u \in Worker PROVE toW'[u] = IF mem'[u].pc = "down" THEN <<>> ELSE queues[u]
  <2>1. toW'[u] = IF mem'[u].pc # "down" THEN queues[u] \o <<>> ELSE <<>>
    BY DEF RouteToWorkers, Alive, Silence
  <2>2. queues[u] \o <<>> = queues[u]
    OBVIOUS
  <2>3. QED
    BY <2>1, <2>2
<1>4. ASSUME NEW u \in Worker, u # w, mem'[u] = mem[u]
      PROVE  toM'[u] = toM[u] /\ toW'[u] = toW[u]
  <2>1. toM[u] \o <<>> = toM[u]
    BY DEF SystemTypeOK
  <2>2. mem[u].pc = "down" => toW[u] = <<>>
    BY DEF CommitInv, WorkerInv, WorkerOK, Engagement
  <2>3. QED
    BY <1>1, <1>2, <1>3, <1>4, <2>1, <2>2
<1>5. QED
  BY <1>1, <1>2, <1>3, <1>4 DEF Routed

\* The parts of a step of w that leaves it in the transaction it takes part in.
\* It hears nothing new, and nothing at all once dead;
HearsNoMore(w) ==
  /\ Range(toW'[w]) \subseteq Range(toW[w])
  /\ AcceptedFirst(toW'[w])
  /\ \A t \in Tid : InWay(w, "JOIN_SUCCESS", t) => InWay(w, "JOIN_SUCCESS", t)'
  /\ mem'[w].pc = "down" => toW'[w] = <<>>

\* asks for no join, and votes on its transaction only;
SaysItsOwn(w) ==
  /\ AskedOnce(toM'[w])
  /\ \A m \in Range(toM'[w]) : m \notin Range(toM[w]) =>
       /\ m.kind # "JOINTX"
       /\ m.kind \in Followup => m.tid = Tx(w) /\ Tx(w) \in Tid
       /\ m.kind = "VOTE_COMMIT" => Consents(w, m.tid)'

\* records its transaction only, and the decision on it that the manager made;
RecordsItsOwn(w) ==
  /\ Extends(w)
  /\ \A t \in Tid, kind \in Own : Wrote(w, kind, t)' /\ ~Wrote(w, kind, t) =>
       Tx(w) = t /\ (kind \in {"DECIDE_COMMIT", "DECIDE_ABORT"} => InWay(w, kind, t))

\* waits, or dies, when it has voted.
WaitsVoted(w) ==
  /\ Unsure(w)' => /\ LastRecord(w)'.kind \in {"PREPARE_COMMIT", "VOTE_COMMIT"}
                   /\ LastRecord(w)'.tid = Tx(w) /\ Tx(w) \in Tid
  /\ Tx(w) \in Tid /\ ~Marked(w) => Covered(toM'[w]) /\ (Unsure(w)' => Voting(w)')

SameTx(w) == Tx(w)' = Tx(w) /\ joinedAt'[w] = joinedAt[w] /\ left'[w]["JOINTX"] = left[w]["JOINTX"]

(* Such a step keeps what is known of the worker.                                *)
LEMMA EngagedStep ==
  ASSUME SystemTypeOK, CommitInv, UNCHANGED <<table, mlog, begun>>, NEW w \in Worker,
         SameTx(w), HearsNoMore(w), SaysItsOwn(w), RecordsItsOwn(w), WaitsVoted(w)
  PROVE  WorkerDone(w)
<1>1. WorkerOK(w)
  BY DEF CommitInv, WorkerInv
<1>2. Extends(w) /\ Tx(w)' = Tx(w)
  BY DEF RecordsItsOwn, SameTx
<1>3. /\ \A kind, t : Logged(kind, t)' <=> Logged(kind, t)
      /\ \A t : Holding(t)' = Holding(t)
      /\ Marked(w)' <=> Marked(w)
  BY <1>2 DEF Logged, Holding, Marked, Yes
<1>4. \A kind, t : InWay(w, kind, t)' => InWay(w, kind, t)
  BY DEF HearsNoMore, InWay, Msg
<1>5. \A t \in Tid : Admitted(w, t)' <=> Admitted(w, t)
  BY <1>2, <1>4 DEF HearsNoMore, Admitted
<1>6. \A t : Prepared(w, t) => Prepared(w, t)'
  BY <1>2, PreparedKept
<1>7. Asking(w)' => Asking(w)
  BY DEF Asking, SaysItsOwn
<1>8. Admission(w)'
  <2>1. /\ left'[w]["JOINTX"] <= 1
        /\ AskedOnce(toM'[w])
        /\ AcceptedFirst(toW'[w])
    BY <1>1 DEF WorkerOK, Admission, SameTx, SaysItsOwn, HearsNoMore
  <2>2. Asking(w)' => left'[w]["JOINTX"] = 0 /\ \A t \in Tid : ~Admitted(w, t)'
    BY <1>1, <1>5, <1>7 DEF WorkerOK, Admission, SameTx
  <2>3. \A m \in Range(toW'[w]) : /\ m.kind \in ToMember => m.tid \in Tid /\ Admitted(w, m.tid)'
                                  /\ m.kind = "JOIN_SUCCESS" => Tx(w)' = NoTid
    BY <1>1, <1>2, <1>5 DEF WorkerOK, Admission, HearsNoMore
  <2>4. \A t \in Tid : Admitted(w, t)' => left'[w]["JOINTX"] = 0 /\ t \in begun'
    BY <1>1, <1>5 DEF WorkerOK, Admission, SameTx
  <2>5. QED
    BY <2>1, <2>2, <2>3, <2>4 DEF Admission
<1>9. Engagement(w)'
  <2>1. \A m \in Range(toM'[w]) : m.kind \in Followup => m.tid = Tx(w)' /\ Tx(w)' \in Tid
    BY <1>1, <1>2 DEF WorkerOK, Engagement, SaysItsOwn
  <2>2. \A t \in Tid : joinedAt'[w][t] # <<>> <=> Tx(w)' = t
    BY <1>1, <1>2 DEF WorkerOK, Engagement, SameTx
  <2>3. \A t \in Tid, kind \in Own : Wrote(w, kind, t)' => Tx(w)' = t
    BY <1>1, <1>2 DEF WorkerOK, Engagement, RecordsItsOwn
  <2>4. QED
    BY <1>2, <2>1, <2>2, <2>3 DEF Engagement, WaitsVoted, HearsNoMore
<1>10. Votes(w)'
  <2>1. \A t \in Tid : InWay(w, "PREPARE_COMMIT", t)' => Logged("COMMIT_REQ", t)'
    BY <1>1, <1>3, <1>4 DEF WorkerOK, Votes
  <2>2. \A m \in Range(toM'[w]) : m.kind = "VOTE_COMMIT" => Consents(w, m.tid)'
    BY <1>1, <1>3, <1>6 DEF WorkerOK, Votes, SaysItsOwn, Consents
  <2>3. QED
    BY <1>2, <1>3, <2>1, <2>2 DEF Votes, WaitsVoted
<1>11. Verdict(w)'
  <2>1. \A t \in Tid : /\ Hears(w, "DECIDE_COMMIT", t)' => Hears(w, "DECIDE_COMMIT", t)
                       /\ Hears(w, "DECIDE_ABORT", t)' => Hears(w, "DECIDE_ABORT", t)
    BY <1>4 DEF Hears, RecordsItsOwn, Own
  <2>2. QED
    BY <1>1, <1>3, <1>5, <1>6, <2>1 DEF WorkerOK, Verdict
<1>12. QED
  BY <1>2, <1>5, <1>8, <1>9, <1>10, <1>11 DEF WorkerDone, WorkerOK

\* What commands write and send: nothing that belongs to the two-phase commit, but
\* an abort of the own transaction.
NotesOnly(w) ==
  \/ wlog'[w] = wlog[w]
  \/ \E r \in WorkerRecord :
       wlog'[w] = Append(wlog[w], r) /\ (r.kind \in Own => r = Rec("ABORT", mem[w].curTid))

RequestsOnly(w) ==
  \/ toM'[w] = toM[w]
  \/ \E m \in ToManager : toM'[w] = toM[w] \o <<m>> /\ m.kind \in {"BEGINTX", "COMMIT"}

StaysInLoop(w) ==
  mem[w].pc = "loop" /\ mem'[w].pc = "loop" /\ mem'[w].curTid = mem[w].curTid

(* A worker that carries out a command in its loop.                              *)
LEMMA InertStep ==
  ASSUME SystemTypeOK, CommitInv, UNCHANGED <<table, mlog, begun>>, NEW w \in Worker,
         StaysInLoop(w), joinedAt'[w] = joinedAt[w], left'[w]["JOINTX"] = left[w]["JOINTX"],
         toW'[w] = toW[w], NotesOnly(w), RequestsOnly(w)
  PROVE  WorkerDone(w)
<1>1. WorkerOK(w)
  BY DEF CommitInv, WorkerInv
<1>2. Tx(w) = mem[w].curTid /\ Tx(w)' = Tx(w) /\ ~Unsure(w)'
  BY DEF StaysInLoop, Tx, Unsure
<1>3. SameTx(w)
  BY <1>2 DEF SameTx
<1>4. HearsNoMore(w)
  BY <1>1 DEF HearsNoMore, InWay, Msg, StaysInLoop, WorkerOK, Admission
<1>5. SaysItsOwn(w)
  <2>1. CASE toM'[w] = toM[w]
    BY <1>1, <2>1 DEF SaysItsOwn, WorkerOK, Admission
  <2>2. ASSUME NEW m \in ToManager, toM'[w] = toM[w] \o <<m>>, m.kind \in {"BEGINTX", "COMMIT"}
        PROVE  SaysItsOwn(w)
    <3>1. toM[w] \in Seq(ToManager)
      BY DEF SystemTypeOK
    <3>2. AskedOnce(toM'[w]) /\ Range(toM'[w]) = Range(toM[w]) \cup {m}
      BY <1>1, <2>2, <3>1, SentToManager DEF WorkerOK, Admission
    <3>3. QED
      BY <2>2, <3>2 DEF SaysItsOwn, Followup, Ballot
  <2>3. QED
    BY <2>1, <2>2 DEF RequestsOnly
<1>6. RecordsItsOwn(w)
  <2>1. CASE wlog'[w] = wlog[w]
    BY <2>1 DEF RecordsItsOwn, Extends, Wrote, Rec
  <2>2. ASSUME NEW r \in WorkerRecord, wlog'[w] = Append(wlog[w], r),
               r.kind \in Own => r = Rec("ABORT", mem[w].curTid)
        PROVE  RecordsItsOwn(w)
    <3>1. /\ Extends(w)
          /\ \A kind, t : Wrote(w, kind, t)' <=> Wrote(w, kind, t) \/ r = Rec(kind, t)
      BY <2>2, RecordAdded
    <3>2. ASSUME NEW t \in Tid, NEW kind \in Own, r = Rec(kind, t)
          PROVE  kind = "ABORT" /\ t = Tx(w)
      BY <1>2, <2>2, <3>2 DEF Rec
    <3>3. QED
      BY <3>1, <3>2 DEF RecordsItsOwn
  <2>3. QED
    BY <2>1, <2>2 DEF NotesOnly
<1>7. WaitsVoted(w)
  <2>1. SUFFICES ASSUME Covered(toM[w]) PROVE Covered(toM'[w])
    BY <1>1, <1>2 DEF WaitsVoted, WorkerOK, Votes
  <2>2. ASSUME NEW m \in ToManager, toM'[w] = toM[w] \o <<m>>, m.kind \in {"BEGINTX", "COMMIT"}
        PROVE  Covered(toM'[w])
    <3>1. toM[w] \in Seq(ToManager) /\ m.kind # "POLL_DECISION"
      BY <2>2 DEF SystemTypeOK
    <3>2. QED
      BY <2>1, <2>2, <3>1, SentToManager
  <2>3. QED
    BY <2>1, <2>2 DEF RequestsOnly
<1>8. QED
  BY <1>3, <1>4, <1>5, <1>6, <1>7, EngagedStep

(* Nobody dies on sending what is no vote and no poll.                           *)
LEMMA SendSurvives ==
  ASSUME SystemTypeOK, NEW w \in Worker, mem[w].pc = "loop", Orderly,
         NEW m, m.kind \notin Followup, NEW next, SendThen(w, m, next)
  PROVE  posted' = <<m>> /\ mem'[w] = next /\ mem[w].delay = "none"
<1>1. mem'[w] = IF mem[w].delay = "none" THEN next ELSE Dead
  BY DEF SendThen, Survives, SystemTypeOK, WorkerTypeOK
<1>2. posted' = IF mem[w].delay = "before" THEN <<>> ELSE <<m>>
  BY DEF SendThen
<1>3. mem[w].delay = "none"
  <2>1. SUFFICES ASSUME mem[w].delay # "none" PROVE FALSE
    OBVIOUS
  <2>2. Dies(w)
    BY <1>1, <2>1 DEF Dies, Dead, Booted
  <2>3. PICK i \in DOMAIN posted' : posted'[i].kind \in Followup
    BY <2>2 DEF Orderly
  <2>4. posted'[i] = m
    BY <1>2, <2>3
  <2>5. QED
    BY <2>3, <2>4
<1>4. QED
  BY <1>1, <1>2, <1>3

(* Without a vote or a poll nobody dies.                                         *)
LEMMA QuietSurvives ==
  ASSUME NEW w \in Worker, mem[w].pc # "down", Orderly, posted' = <<>>
  PROVE  mem'[w].pc # "down"
BY DEF Orderly, Dies

(* All commands but JOINTX.                                                      *)
LEMMA CommandDone ==
  ASSUME SystemTypeOK, CommitInv, Orderly, UNCHANGED <<table, mlog, begun>>, NEW w \in Worker,
         CmdAny(w), Routed(w, toW[w]), \A t \in Tid : ~CmdJoin(w, t)
  PROVE  WorkerDone(w)
<1>1. mem[w] \in Memory /\ mem[w].curTid \in AnyTid /\ left[w] \in [Command -> Nat]
  BY DEF SystemTypeOK, WorkerTypeOK, Memory
<1>2. toM[w] \o <<>> = toM[w]
  BY DEF SystemTypeOK
<1>3. ASSUME StaysInLoop(w), \/ posted' = <<>>
                             \/ \E m \in ToManager : posted' = <<m>> /\ m.kind \in {"BEGINTX", "COMMIT"}
      PROVE  RequestsOnly(w) /\ toW'[w] = toW[w]
  BY <1>2, <1>3 DEF RequestsOnly, Routed, StaysInLoop
<1>4. ASSUME NEW t \in Tid, CmdBegin(w, t) PROVE WorkerDone(w)
  <2> DEFINE m == ToMgr(w, "BEGINTX", t, FALSE)
  <2>1. m \in ToManager /\ m.kind = "BEGINTX"
    BY ToMgrType DEF WorkerKind, AnyTid, ToMgr
  <2>2. posted' = <<m>> /\ mem'[w] = [mem[w] EXCEPT !.addr = TRUE]
    BY <1>4, <2>1, SendSurvives DEF CmdBegin, Ask, Followup, Ballot
  <2>3. StaysInLoop(w)
    BY <1>1, <1>4, <2>2 DEF StaysInLoop, CmdBegin, Ask, Memory
  <2>4. NotesOnly(w) /\ joinedAt'[w] = joinedAt[w] /\ left'[w]["JOINTX"] = left[w]["JOINTX"]
    BY <1>1, <1>4 DEF CmdBegin, Ask, NotesOnly, SystemTypeOK, WorkerTypeOK, Command
  <2> HIDE DEF m
  <2>5. QED
    BY <1>3, <2>1, <2>2, <2>3, <2>4, InertStep
<1>5. ASSUME NEW f \in Field, NEW v \in Value, CmdUpdate(w, f, v) PROVE WorkerDone(w)
  <2> DEFINE r == [kind |-> "NEW_VALUE", tid |-> mem[w].curTid, field |-> f, old |-> obj[w][f]]
  <2>1. r \in WorkerRecord
    BY <1>1 DEF WorkerRecord, SystemTypeOK, WorkerTypeOK, Data
  <2>2. posted' = <<>> /\ mem'[w] = mem[w]
    BY <1>5 DEF CmdUpdate, Quiet, SystemTypeOK, WorkerTypeOK
  <2>3. StaysInLoop(w)
    BY <1>5, <2>2 DEF StaysInLoop, CmdUpdate, Ask
  <2>4. wlog'[w] = wlog[w] \/ wlog'[w] = Append(wlog[w], r)
    BY <1>5 DEF CmdUpdate, Write, SystemTypeOK, WorkerTypeOK
  <2>5. NotesOnly(w)
    BY <2>1, <2>4 DEF NotesOnly, Own
  <2>6. joinedAt'[w] = joinedAt[w] /\ left'[w]["JOINTX"] = left[w]["JOINTX"]
    BY <1>1, <1>5 DEF CmdUpdate, Ask, SystemTypeOK, WorkerTypeOK, Command
  <2>7. QED
    BY <1>3, <2>2, <2>3, <2>5, <2>6, InertStep
<1>6. ASSUME (\E d \in Delay : CmdDelay(w, d)) \/ CmdVoteAbort(w) \/ CmdCrash(w)
      PROVE  WorkerDone(w)
  <2>1. posted' = <<>> /\ mem[w].pc = "loop" /\ UNCHANGED <<wlog, joinedAt>>
    BY <1>6 DEF CmdDelay, CmdVoteAbort, CmdCrash, Quiet, Ask
  <2>2. mem'[w].pc # "down"
    BY <2>1, QuietSurvives
  <2>3. StaysInLoop(w)
    <3>1. CASE \E d \in Delay : CmdDelay(w, d)
      BY <1>1, <2>1, <3>1 DEF CmdDelay, Quiet, StaysInLoop, Memory, SystemTypeOK, WorkerTypeOK
    <3>2. CASE CmdVoteAbort(w)
      BY <1>1, <2>1, <3>2 DEF CmdVoteAbort, Quiet, StaysInLoop, Memory, SystemTypeOK, WorkerTypeOK
    <3>3. CASE CmdCrash(w)
      BY <2>2, <3>3 DEF CmdCrash, Quiet, Dead, Booted, SystemTypeOK, WorkerTypeOK
    <3>4. QED
      BY <1>6, <3>1, <3>2, <3>3
  <2>4. left'[w]["JOINTX"] = left[w]["JOINTX"]
    <3>1. left \in [Worker -> [Command -> Nat]]
      BY DEF SystemTypeOK, WorkerTypeOK
    <3>2. CASE \E d \in Delay : CmdDelay(w, d)
      BY <3>1, <3>2 DEF CmdDelay, Ask, Command, Delay
    <3>3. CASE CmdVoteAbort(w)
      BY <3>1, <3>3 DEF CmdVoteAbort, Ask, Command
    <3>4. CASE CmdCrash(w)
      BY <3>1, <3>4 DEF CmdCrash, Ask, Command
    <3>5. QED
      BY <1>6, <3>2, <3>3, <3>4
  <2>5. NotesOnly(w)
    BY <2>1 DEF NotesOnly
  <2>6. QED
    BY <1>3, <2>1, <2>3, <2>4, <2>5, InertStep
<1>7. ASSUME NEW kind \in {"COMMIT", "COMMIT_CRASH"}, CmdCommit(w, kind) PROVE WorkerDone(w)
  <2> DEFINE m == ToMgr(w, "COMMIT", mem[w].curTid, FALSE)
             r == Rec(kind, mem[w].curTid)
             next == [mem[w] EXCEPT !.isCrash = (kind = "COMMIT_CRASH")]
  <2>1. m \in ToManager /\ m.kind = "COMMIT"
    BY <1>1, ToMgrType DEF WorkerKind, ToMgr
  <2>2. r \in WorkerRecord /\ r.kind \notin Own
    <3>1. kind \in RecordTag
      BY <1>7 DEF RecordTag
    <3>2. r \in WorkerRecord
      BY <1>1, <3>1, RecType
    <3>3. QED
      BY <1>7, <3>2 DEF Rec, Own
  <2>3. mem[w].pc = "loop"
    BY <1>7 DEF CmdCommit, Ask
  <2>4. \/ SendThen(w, m, next)
        \/ Quiet(w, next)
        \/ Quiet(w, Dead)
    BY <1>7 DEF CmdCommit
  <2>5. (posted' = <<m>> \/ posted' = <<>>) /\ mem'[w] = next
    <3>1. CASE SendThen(w, m, next)
      <4>1. m.kind \notin Followup
        BY <2>1 DEF Followup, Ballot
      <4> HIDE DEF m, next
      <4>2. QED
        BY <2>3, <3>1, <4>1, SendSurvives
    <3>2. CASE Quiet(w, next)
      BY <3>2 DEF Quiet, SystemTypeOK, WorkerTypeOK
    <3>3. CASE Quiet(w, Dead)
      <4>1. posted' = <<>> /\ mem'[w] = Dead
        BY <3>3 DEF Quiet, SystemTypeOK, WorkerTypeOK
      <4>2. QED
        BY <2>3, <4>1, QuietSurvives DEF Dead, Booted
    <3>4. QED
      BY <2>4, <3>1, <3>2, <3>3
  <2>6. StaysInLoop(w)
    BY <1>1, <2>3, <2>5 DEF StaysInLoop, Memory
  <2>7. wlog'[w] = Append(wlog[w], r)
    BY <1>7 DEF CmdCommit, Write, SystemTypeOK, WorkerTypeOK
  <2>8. joinedAt'[w] = joinedAt[w] /\ left'[w]["JOINTX"] = left[w]["JOINTX"]
    BY <1>1, <1>7 DEF CmdCommit, Ask, SystemTypeOK, WorkerTypeOK, Command
  <2> HIDE DEF m, r, next
  <2>9. NotesOnly(w)
    BY <2>2, <2>7 DEF NotesOnly
  <2>10. QED
    BY <1>3, <2>1, <2>5, <2>6, <2>8, <2>9, InertStep
<1>8. ASSUME NEW kind \in {"ABORT", "ABORT_CRASH"}, CmdAbort(w, kind) PROVE WorkerDone(w)
  <2>1. posted' = <<>> /\ mem[w].pc = "loop"
    BY <1>8 DEF CmdAbort, Quiet, Ask
  <2>2. mem'[w] = [mem[w] EXCEPT !.isCrash = (kind = "ABORT_CRASH")]
    BY <1>8 DEF CmdAbort, Quiet, SystemTypeOK, WorkerTypeOK
  <2>3. StaysInLoop(w)
    BY <1>1, <2>1, <2>2 DEF StaysInLoop, Memory
  <2>4. wlog'[w] = Append(wlog[w], Rec("ABORT", mem[w].curTid))
    BY <1>8 DEF CmdAbort, Write, SystemTypeOK, WorkerTypeOK
  <2>5. NotesOnly(w)
    BY <1>1, <2>4, RecType DEF NotesOnly, RecordTag
  <2>6. joinedAt'[w] = joinedAt[w] /\ left'[w]["JOINTX"] = left[w]["JOINTX"]
    BY <1>1, <1>8 DEF CmdAbort, Ask, SystemTypeOK, WorkerTypeOK, Command
  <2>7. QED
    BY <1>3, <2>1, <2>3, <2>5, <2>6, InertStep
<1>9. QED
  BY <1>4, <1>5, <1>6, <1>7, <1>8 DEF CmdAny

(* A step that sends nothing says nothing.                                       *)
LEMMA NothingSaid ==
  ASSUME SystemTypeOK, CommitInv, NEW w \in Worker, NEW queue, Routed(w, queue), posted' = <<>>
  PROVE  toM'[w] = toM[w] /\ SaysItsOwn(w)
<1>1. toM[w] \o <<>> = toM[w]
  BY DEF SystemTypeOK
<1>2. toM'[w] = toM[w]
  BY <1>1 DEF Routed
<1>3. AskedOnce(toM[w])
  BY DEF CommitInv, WorkerInv, WorkerOK, Admission
<1>4. QED
  BY <1>2, <1>3 DEF SaysItsOwn

(* One record that is not the worker's own, or about its transaction, and a      *)
(* decision only if the manager sent it.                                         *)
LEMMA OwnRecord ==
  ASSUME SystemTypeOK, NEW w \in Worker, NEW r \in WorkerRecord, wlog'[w] = Append(wlog[w], r),
         r.kind \in Own => r.tid = Tx(w),
         r.kind \in {"DECIDE_COMMIT", "DECIDE_ABORT"} => InWay(w, r.kind, r.tid)
  PROVE  RecordsItsOwn(w)
<1>1. /\ Extends(w)
      /\ \A kind, t : Wrote(w, kind, t)' <=> Wrote(w, kind, t) \/ r = Rec(kind, t)
  BY RecordAdded
<1>2. \A kind, t : r = Rec(kind, t) => r.kind = kind /\ r.tid = t
  BY DEF Rec
<1>3. QED
  BY <1>1, <1>2 DEF RecordsItsOwn

(* What is read next from the manager is about the worker's transaction, unless  *)
(* it is the answer to its join.                                                 *)
LEMMA HeadHeard ==
  ASSUME SystemTypeOK, CommitInv, NEW w \in Worker, toW[w] # <<>>
  PROVE  /\ Head(toW[w]) \in ToWorker /\ Head(toW[w]) \in Range(toW[w])
         /\ Range(toW[w]) = {Head(toW[w])} \cup Range(Tail(toW[w]))
         /\ AcceptedFirst(Tail(toW[w]))
         /\ Head(toW[w]).kind \in ToMember => /\ "JOIN_SUCCESS" \notin Kinds(Tail(toW[w]))
                                              /\ Head(toW[w]).tid \in Tid
         /\ Head(toW[w]).kind \in ToMember \ {"JOIN_SUCCESS"} => Tx(w) = Head(toW[w]).tid
<1> DEFINE q == toW[w]
           m == Head(q)
<1>1. q \in Seq(ToWorker) /\ q # <<>>
  BY DEF SystemTypeOK
<1>2. AcceptedFirst(q) /\ \A e \in Range(q) : e.kind \in ToMember => e.tid \in Tid /\ Admitted(w, e.tid)
  BY DEF CommitInv, WorkerInv, WorkerOK, Admission
<1> HIDE DEF q
<1>3. m \in ToWorker /\ m \in Range(q) /\ Range(q) = {m} \cup Range(Tail(q))
  BY <1>1, RangeRead
<1>4. /\ AcceptedFirst(Tail(q))
      /\ m.kind \in ToMember => "JOIN_SUCCESS" \notin Kinds(Tail(q))
  BY <1>1, <1>2, ReadByWorker
<1> HIDE DEF m
<1>5. ASSUME m.kind \in ToMember \ {"JOIN_SUCCESS"} PROVE Tx(w) = m.tid
  <2>1. Admitted(w, m.tid)
    BY <1>2, <1>3, <1>5
  <2>2. \A e \in Range(q) : e.kind # "JOIN_SUCCESS"
    BY <1>3, <1>4, <1>5 DEF Kinds
  <2>3. ~InWay(w, "JOIN_SUCCESS", m.tid)
    BY <2>2 DEF InWay, Msg, q
  <2>4. QED
    BY <2>1, <2>3 DEF Admitted
<1>6. QED
  BY <1>2, <1>3, <1>4, <1>5 DEF q, m

(* Reading anything but an accepted join.                                        *)
LEMMA HeardOne ==
  ASSUME SystemTypeOK, CommitInv, NEW w \in Worker, toW[w] # <<>>, Routed(w, Tail(toW[w])),
         Head(toW[w]).kind # "JOIN_SUCCESS",
         mem'[w].pc = "down" => Head(toW[w]).kind \in ToMember
  PROVE  HearsNoMore(w)
<1> DEFINE q == toW[w]
           m == Head(q)
<1>1. /\ Range(q) = {m} \cup Range(Tail(q))
      /\ AcceptedFirst(Tail(q))
      /\ m.kind \in ToMember => "JOIN_SUCCESS" \notin Kinds(Tail(q))
  BY HeadHeard
<1>2. m.kind # "JOIN_SUCCESS" /\ (mem'[w].pc = "down" => m.kind \in ToMember)
  OBVIOUS
<1>3. toW'[w] = IF mem'[w].pc = "down" THEN <<>> ELSE Tail(q)
  BY DEF Routed
<1>4. \A t : InWay(w, "JOIN_SUCCESS", t) <=> Msg("JOIN_SUCCESS", t) \in Range(q)
  BY DEF InWay
<1>5. \A t : InWay(w, "JOIN_SUCCESS", t)' <=> Msg("JOIN_SUCCESS", t) \in Range(toW'[w])
  BY DEF InWay, Msg
<1> HIDE DEF q, m
<1>6. \A t : Msg("JOIN_SUCCESS", t) \in Range(q) => Msg("JOIN_SUCCESS", t) \in Range(Tail(q))
  BY <1>1, <1>2 DEF Msg
<1>7. CASE mem'[w].pc = "down"
  <2>1. toW'[w] = <<>> /\ Range(toW'[w]) = {} /\ AcceptedFirst(toW'[w])
    BY <1>3, <1>7, RangeEmpty DEF AcceptedFirst
  <2>2. \A t : Msg("JOIN_SUCCESS", t) \notin Range(Tail(q))
    BY <1>1, <1>2, <1>7 DEF Kinds, Msg
  <2>3. QED
    BY <1>4, <1>6, <2>1, <2>2 DEF HearsNoMore
<1>8. CASE mem'[w].pc # "down"
  <2>1. toW'[w] = Tail(q)
    BY <1>3, <1>8
  <2>2. Range(toW'[w]) \subseteq Range(toW[w])
    BY <1>1, <2>1 DEF q
  <2>3. QED
    BY <1>1, <1>4, <1>5, <1>6, <1>8, <2>1, <2>2 DEF HearsNoMore
<1>9. QED
  BY <1>7, <1>8

(* A message that ends the wait, or that changes nothing, and a refused join.    *)
LEMMA IndifferentDone ==
  ASSUME SystemTypeOK, CommitInv, UNCHANGED <<table, mlog, begun>>, NEW w \in Worker,
         toW[w] # <<>>, Routed(w, Tail(toW[w])), NEW m, m = Head(toW[w]),
         \/ RecvOther(w, m)
         \/ RecvJoinReply(w, m) /\ m.kind # "JOIN_SUCCESS"
  PROVE  WorkerDone(w)
<1>1. WorkerOK(w) /\ m \in ToWorker /\ m \in Range(toW[w])
  BY HeadHeard DEF CommitInv, WorkerInv
<1>2. m.kind # "JOIN_SUCCESS"
  <2>1. SUFFICES ASSUME m.kind = "JOIN_SUCCESS" PROVE FALSE
    OBVIOUS
  <2>2. mem[w].pc = "wait"
    BY <2>1 DEF RecvOther
  <2>3. Tx(w) \in Tid
    BY <1>1, <2>2 DEF WorkerOK, Engagement, Unsure
  <2>4. Tx(w) = NoTid
    BY <1>1, <2>1 DEF WorkerOK, Admission
  <2>5. QED
    BY <2>3, <2>4, NoTidAssumption
<1>3. mem[w].pc # "down" /\ mem'[w].pc = "loop" /\ mem'[w].curTid = mem[w].curTid /\ posted' = <<>>
  BY DEF RecvOther, RecvJoinReply, Quiet, SystemTypeOK, WorkerTypeOK, Memory
<1>4. joinedAt' = joinedAt /\ left' = left
  BY <1>2 DEF RecvOther, RecvJoinReply
<1>5. SameTx(w) /\ ~Unsure(w)'
  BY <1>3, <1>4 DEF SameTx, Tx, Unsure
<1>6. HearsNoMore(w)
  BY <1>2, <1>3, HeardOne
<1>7. toM'[w] = toM[w] /\ SaysItsOwn(w)
  BY <1>3, NothingSaid
<1>8. RecordsItsOwn(w)
  <2>1. CASE RecvOther(w, m)
    BY <2>1 DEF RecvOther, RecordsItsOwn, Extends, Wrote, Rec
  <2>2. CASE RecvJoinReply(w, m)
    <3>1. wlog'[w] = Append(wlog[w], Rec("JOINTX", m.tid))
      BY <2>2 DEF RecvJoinReply, Write, SystemTypeOK, WorkerTypeOK
    <3>2. m.tid \in AnyTid
      BY <1>1 DEF ToWorker
    <3>3. Rec("JOINTX", m.tid) \in WorkerRecord
      BY <3>2, RecType DEF RecordTag
    <3>4. Rec("JOINTX", m.tid).kind = "JOINTX"
      BY DEF Rec
    <3>5. QED
      BY <3>1, <3>3, <3>4, OwnRecord DEF Own
  <2>3. QED
    BY <2>1, <2>2
<1>9. WaitsVoted(w)
  BY <1>1, <1>5, <1>7 DEF WaitsVoted, WorkerOK, Votes
<1>10. QED
  BY <1>5, <1>6, <1>7, <1>8, <1>9, EngagedStep

(* A decision.                                                                   *)
LEMMA DecisionDone ==
  ASSUME SystemTypeOK, CommitInv, UNCHANGED <<table, mlog, begun>>, NEW w \in Worker,
         toW[w] # <<>>, Routed(w, Tail(toW[w])), NEW m, m = Head(toW[w]), RecvDecision(w, m)
  PROVE  WorkerDone(w)
<1>1. WorkerOK(w) /\ m \in ToWorker /\ m \in Range(toW[w])
  BY HeadHeard DEF CommitInv, WorkerInv
<1>2. m.kind \in {"DECIDE_COMMIT", "DECIDE_ABORT"} /\ m.kind \in ToMember \ {"JOIN_SUCCESS"}
  BY DEF RecvDecision, ToMember
<1>3. m.tid = Tx(w)
  BY <1>2, HeadHeard
<1>4. mem[w].pc # "down" /\ mem'[w].pc = "loop" /\ mem'[w].curTid = mem[w].curTid /\ posted' = <<>>
  BY DEF RecvDecision, Quiet, SystemTypeOK, WorkerTypeOK, Memory
<1>5. SameTx(w) /\ ~Unsure(w)'
  BY <1>4 DEF RecvDecision, SameTx, Tx, Unsure
<1>6. HearsNoMore(w)
  BY <1>2, <1>4, HeardOne
<1>7. toM'[w] = toM[w] /\ SaysItsOwn(w)
  BY <1>4, NothingSaid
<1>8. RecordsItsOwn(w)
  <2> DEFINE r == Rec(m.kind, m.tid)
  <2>1. wlog'[w] = Append(wlog[w], r)
    BY DEF RecvDecision, Write, SystemTypeOK, WorkerTypeOK
  <2>2. m.tid \in AnyTid /\ m.kind \in RecordTag
    BY <1>1, <1>2 DEF ToWorker, RecordTag
  <2>3. r \in WorkerRecord
    BY <2>2, RecType
  <2>4. r.kind = m.kind /\ r.tid = m.tid
    BY DEF Rec
  <2>5. m = Msg(m.kind, m.tid)
    BY <1>1 DEF ToWorker, Msg
  <2>6. InWay(w, r.kind, r.tid)
    BY <1>1, <2>4, <2>5 DEF InWay
  <2> HIDE DEF r
  <2>7. QED
    BY <1>3, <2>1, <2>3, <2>4, <2>6, OwnRecord
<1>9. WaitsVoted(w)
  BY <1>1, <1>5, <1>7 DEF WaitsVoted, WorkerOK, Votes
<1>10. QED
  BY <1>5, <1>6, <1>7, <1>8, <1>9, EngagedStep

(* A poll of a worker that waits, and hears nothing.                             *)
LEMMA PollDone ==
  ASSUME SystemTypeOK, CommitInv, Orderly, UNCHANGED <<table, mlog, begun>>, NEW w \in Worker,
         toW[w] = <<>>, Routed(w, toW[w]), Poll(w)
  PROVE  WorkerDone(w)
<1> DEFINE m == ToMgr(w, "POLL_DECISION", mem[w].curTid, mem[w].isCrash)
<1>1. WorkerOK(w)
  BY DEF CommitInv, WorkerInv
<1>2. mem[w].pc = "wait" /\ UNCHANGED <<wlog, joinedAt, left>>
  BY DEF Poll
<1>3. Tx(w) = mem[w].curTid /\ Tx(w) \in Tid /\ LastRecord(w)' = LastRecord(w)
      /\ LastRecord(w).tid = Tx(w) /\ LastRecord(w).kind \in {"PREPARE_COMMIT", "VOTE_COMMIT"}
  BY <1>1, <1>2 DEF WorkerOK, Engagement, Unsure, Tx, LastRecord
<1>4. mem[w] \in Memory
  BY DEF SystemTypeOK, WorkerTypeOK
<1>5. m \in ToManager /\ m.kind = "POLL_DECISION" /\ m.tid = Tx(w)
  <2>1. mem[w].curTid \in AnyTid /\ mem[w].isCrash \in BOOLEAN
    BY <1>4 DEF Memory
  <2>2. m \in ToManager
    BY <2>1, ToMgrType DEF WorkerKind
  <2>3. QED
    BY <1>3, <2>2 DEF ToMgr
<1> HIDE DEF m
<1>6. (posted' = <<m>> \/ posted' = <<>>) /\ (mem'[w] = mem[w] \/ mem'[w] = Dead)
  BY DEF Poll, SendThen, Quiet, m, SystemTypeOK, WorkerTypeOK
<1>7. Tx(w)' = Tx(w)
  BY <1>2, <1>3, <1>6 DEF Tx, Dead, Booted
<1>8. SameTx(w)
  BY <1>2, <1>7 DEF SameTx
<1>9. HearsNoMore(w)
  <2>1. toW'[w] = <<>> /\ Range(toW[w]) = {}
    BY RangeEmpty DEF Routed
  <2>2. \A t : ~InWay(w, "JOIN_SUCCESS", t)
    BY <2>1 DEF InWay
  <2>3. QED
    BY <1>1, <2>1, <2>2 DEF HearsNoMore, WorkerOK, Admission
<1>10. RecordsItsOwn(w)
  BY <1>2 DEF RecordsItsOwn, Extends, Wrote, Rec
<1>11. CASE posted' = <<>>
  <2>1. toM'[w] = toM[w] /\ SaysItsOwn(w)
    BY <1>11, NothingSaid
  <2>2. mem'[w] = mem[w]
    BY <1>2, <1>6, <1>11, QuietSurvives DEF Dead, Booted
  <2>3. WaitsVoted(w)
    BY <1>1, <1>2, <1>3, <2>1, <2>2 DEF WaitsVoted, WorkerOK, Votes, Unsure, Voting
  <2>4. QED
    BY <1>8, <1>9, <1>10, <2>1, <2>3, EngagedStep
<1>12. CASE posted' = <<m>>
  <2>1. toM'[w] = toM[w] \o <<m>> /\ toM[w] \in Seq(ToManager)
    BY <1>12 DEF Routed, SystemTypeOK
  <2>2. /\ Range(toM'[w]) = Range(toM[w]) \cup {m}
        /\ AskedOnce(toM[w]) => AskedOnce(toM'[w])
        /\ Covered(toM[w]) /\ Kinds(toM[w]) \cap Ballot # {} => Covered(toM'[w])
    BY <1>5, <2>1, SentToManager
  <2>3. SaysItsOwn(w)
    BY <1>1, <1>3, <1>5, <2>2 DEF SaysItsOwn, WorkerOK, Admission
  <2>4. Voting(w) => Voting(w)' /\ Kinds(toM[w]) \cap Ballot # {}
    BY <2>2 DEF Voting, Kinds
  <2>5. Unsure(w)
    BY <1>2 DEF Unsure
  <2>6. WaitsVoted(w)
    BY <1>1, <1>3, <2>2, <2>4, <2>5 DEF WaitsVoted, WorkerOK, Votes
  <2>7. QED
    BY <1>8, <1>9, <1>10, <2>3, <2>6, EngagedStep
<1>13. QED
  BY <1>6, <1>11, <1>12

(* A restart of a worker that died waiting: it waits again.                      *)
LEMMA RestartDone ==
  ASSUME SystemTypeOK, CommitInv, UNCHANGED <<table, mlog, begun>>, NEW w \in Worker,
         Routed(w, toW[w]), WorkerRestart(w)
  PROVE  WorkerDone(w)
<1>1. WorkerOK(w)
  BY DEF CommitInv, WorkerInv
<1>2. mem[w].pc = "down" /\ UNCHANGED <<joinedAt, left>>
  BY DEF WorkerRestart
<1>3. /\ LastRecord(w).kind \in {"PREPARE_COMMIT", "VOTE_COMMIT"}
      /\ LastRecord(w).tid = Tx(w) /\ Tx(w) \in Tid
      /\ toW[w] = <<>> /\ Unsure(w)
  BY <1>1, <1>2 DEF WorkerOK, Engagement, Unsure
<1>4. posted' = <<>> /\ wlog' = wlog /\ mem'[w].pc = "wait" /\ mem'[w].curTid = LastRecord(w).tid
  BY <1>3 DEF WorkerRestart, Resolved, Quiet, Booted, SystemTypeOK, WorkerTypeOK
<1>5. LastRecord(w)' = LastRecord(w)
  BY <1>4 DEF LastRecord
<1>6. SameTx(w)
  BY <1>2, <1>3, <1>4 DEF SameTx, Tx
<1>7. toM'[w] = toM[w] /\ SaysItsOwn(w)
  BY <1>4, NothingSaid
<1>8. HearsNoMore(w)
  BY <1>1, <1>3, <1>4 DEF HearsNoMore, Routed, InWay, Msg, WorkerOK, Admission
<1>9. RecordsItsOwn(w)
  BY <1>4 DEF RecordsItsOwn, Extends, Wrote, Rec
<1>10. WaitsVoted(w)
  BY <1>1, <1>3, <1>5, <1>7 DEF WaitsVoted, WorkerOK, Votes, Voting
<1>11. QED
  BY <1>6, <1>7, <1>8, <1>9, <1>10, EngagedStep

(* A vote on the worker's transaction, which it survives, or not.                *)
LEMMA PrepareDone ==
  ASSUME SystemTypeOK, CommitInv, Orderly, UNCHANGED <<table, mlog, begun>>, NEW w \in Worker,
         toW[w] # <<>>, Routed(w, Tail(toW[w])), NEW m, m = Head(toW[w]), RecvPrepare(w, m)
  PROVE  WorkerDone(w)
<1> DEFINE against == LocallyAborted(w) \/ mem[w].voteAbort
           b == ToMgr(w, IF against THEN "VOTE_ABORT" ELSE "VOTE_COMMIT", m.tid, mem[w].isCrash)
           p == Rec("PREPARE_COMMIT", m.tid)
           v == Rec("VOTE_COMMIT", m.tid)
           next == [mem[w] EXCEPT !.pc = "wait", !.peer = TRUE, !.voteAbort = @ /\ ~against]
<1>1. WorkerOK(w) /\ m \in ToWorker /\ m \in Range(toW[w])
  BY HeadHeard DEF CommitInv, WorkerInv
<1>2. /\ m.kind = "PREPARE_COMMIT" /\ mem[w].pc = "loop" /\ UNCHANGED <<joinedAt, left>>
      /\ m.kind \in ToMember \ {"JOIN_SUCCESS"}
  BY DEF RecvPrepare, ToMember
<1>3. Tx(w) = m.tid /\ m.tid \in Tid /\ mem[w].curTid = m.tid
  BY <1>2, HeadHeard DEF Tx
<1>4. mem[w] \in Memory /\ mem[w].isCrash \in BOOLEAN /\ m.tid \in AnyTid
  BY <1>3 DEF SystemTypeOK, WorkerTypeOK, Memory, AnyTid
<1>5. b \in ToManager /\ b.kind \in Ballot /\ b.tid = m.tid
  <2>1. (IF against THEN "VOTE_ABORT" ELSE "VOTE_COMMIT") \in WorkerKind
    BY DEF WorkerKind
  <2>2. b \in ToManager
    BY <1>4, <2>1, ToMgrType
  <2>3. QED
    BY <2>2 DEF ToMgr, Ballot
<1>6. b.kind = "VOTE_COMMIT" => ~LocallyAborted(w)
  BY DEF ToMgr
<1>7. posted' = <<b>> /\ (mem'[w] = next \/ mem'[w] = Dead)
  <2>1. SendThen(w, b, next)
    BY DEF RecvPrepare
  <2> HIDE DEF b, next
  <2>2. (posted' = <<>> \/ posted' = <<b>>) /\ (mem'[w] = next \/ mem'[w] = Dead)
    BY <2>1 DEF SendThen, SystemTypeOK, WorkerTypeOK
  <2>3. posted' = <<>> => mem[w].delay = "before" /\ mem'[w] = Dead
    BY <2>1 DEF SendThen, Survives, SystemTypeOK, WorkerTypeOK
  <2>4. posted' # <<>>
    BY <1>2, <2>3, QuietSurvives DEF Dead, Booted
  <2>5. QED
    BY <2>2, <2>4
<1>8. mem'[w].pc = "down" \/ (mem'[w].pc = "wait" /\ mem'[w].curTid = mem[w].curTid)
  BY <1>4, <1>7 DEF Dead, Booted, Memory
<1>9. p \in WorkerRecord /\ v \in WorkerRecord /\ wlog[w] \in Seq(WorkerRecord)
  BY <1>4, RecType DEF RecordTag, SystemTypeOK, WorkerTypeOK
<1>10. wlog'[w] = Append(wlog[w], p) \/ wlog'[w] = Append(Append(wlog[w], p), v)
  BY DEF RecvPrepare, SystemTypeOK, WorkerTypeOK
<1>11. p.kind = "PREPARE_COMMIT" /\ v.kind = "VOTE_COMMIT" /\ p.tid = m.tid /\ v.tid = m.tid
  BY DEF Rec
<1> HIDE DEF b, p, v, next
<1> DEFINE n == Len(wlog[w])
<1>12. /\ n \in Nat /\ DOMAIN wlog[w] = 1..n
       /\ \A i \in 1..n : wlog'[w][i] = wlog[w][i]
       /\ wlog'[w][n + 1] = p
       /\ \/ DOMAIN wlog'[w] = 1..(n + 1) /\ Len(wlog'[w]) = n + 1
          \/ DOMAIN wlog'[w] = 1..(n + 2) /\ Len(wlog'[w]) = n + 2 /\ wlog'[w][n + 2] = v
  BY <1>9, <1>10
<1>13. wlog'[w] # <<>>
  BY <1>9, <1>10
<1> HIDE DEF n
<1>14. Extends(w)
  BY <1>12 DEF Extends
<1>15. LastRecord(w)'.kind \in {"PREPARE_COMMIT", "VOTE_COMMIT"} /\ LastRecord(w)'.tid = m.tid
  BY <1>11, <1>12, <1>13 DEF LastRecord
<1>16. SameTx(w)
  BY <1>2, <1>3, <1>8, <1>15 DEF SameTx, Tx
<1>17. HearsNoMore(w)
  BY <1>2, HeardOne
<1>18. RecordsItsOwn(w)
  <2>1. SUFFICES ASSUME NEW t \in Tid, NEW kind \in Own, Wrote(w, kind, t)', ~Wrote(w, kind, t)
                 PROVE  kind = "PREPARE_COMMIT" /\ t = m.tid
    BY <1>3, <1>14 DEF RecordsItsOwn
  <2>2. PICK i \in DOMAIN wlog'[w] : wlog'[w][i] = Rec(kind, t)
    BY <2>1 DEF Wrote, Rec
  <2>3. i \notin 1..n
    BY <1>12, <2>1, <2>2 DEF Wrote
  <2>4. wlog'[w][i] = p \/ wlog'[w][i] = v
    <3>1. i \in 1..(n + 1) \/ (i \in 1..(n + 2) /\ wlog'[w][n + 2] = v)
      BY <1>12
    <3>2. i = n + 1 \/ (i = n + 2 /\ wlog'[w][n + 2] = v)
      BY <1>12, <2>3, <3>1
    <3>3. QED
      BY <1>12, <3>2
  <2>5. Rec(kind, t).kind = kind /\ Rec(kind, t).tid = t
    BY DEF Rec
  <2>6. v.kind \notin Own
    BY <1>11 DEF Own
  <2>7. QED
    BY <1>11, <2>1, <2>2, <2>4, <2>5, <2>6
<1>19. toM'[w] = toM[w] \o <<b>> /\ toM[w] \in Seq(ToManager)
  BY <1>7 DEF Routed, SystemTypeOK
<1>20. /\ Range(toM'[w]) = Range(toM[w]) \cup {b}
       /\ AskedOnce(toM[w]) => AskedOnce(toM'[w])
       /\ Covered(toM[w]) => Covered(toM'[w])
  BY <1>5, <1>19, SentToManager DEF Ballot
<1>21. b.kind = "VOTE_COMMIT" => Consents(w, m.tid)'
  <2>1. SUFFICES ASSUME ~LocallyAborted(w) PROVE Consents(w, m.tid)'
    BY <1>6
  <2>2. Logged("COMMIT_REQ", m.tid)
    <3>1. m = Msg("PREPARE_COMMIT", m.tid)
      BY <1>1, <1>2 DEF ToWorker, Msg
    <3>2. InWay(w, "PREPARE_COMMIT", m.tid)
      BY <1>1, <3>1 DEF InWay
    <3>3. QED
      BY <1>1, <1>3, <3>2 DEF WorkerOK, Votes
  <2>3. \A j \in 1..n : wlog[w][j] # Rec("ABORT", m.tid)
    BY <1>3, <1>12, <2>1 DEF LocallyAborted, Wrote
  <2>4. \A j \in 1..(n + 1) : wlog'[w][j] # Rec("ABORT", m.tid)
    <3>1. \A j \in 1..(n + 1) : j \in 1..n \/ j = n + 1
      BY <1>12
    <3>2. p # Rec("ABORT", m.tid)
      BY <1>11 DEF Rec
    <3>3. QED
      BY <1>12, <2>3, <3>1, <3>2
  <2>5. n + 1 \in DOMAIN wlog'[w] /\ wlog'[w][n + 1] = Rec("PREPARE_COMMIT", m.tid)
    BY <1>12 DEF p
  <2>6. Prepared(w, m.tid)'
    BY <2>4, <2>5 DEF Prepared, Rec
  <2>7. Logged("COMMIT_REQ", m.tid)'
    BY <2>2 DEF Logged
  <2>8. QED
    BY <2>6, <2>7 DEF Consents
<1>22. SaysItsOwn(w)
  BY <1>1, <1>3, <1>5, <1>20, <1>21 DEF SaysItsOwn, WorkerOK, Admission, Ballot
<1>23. WaitsVoted(w)
  <2>1. Voting(w)'
    BY <1>5, <1>20 DEF Voting
  <2>2. QED
    BY <1>1, <1>3, <1>15, <1>20, <2>1 DEF WaitsVoted, WorkerOK, Votes
<1>24. QED
  BY <1>16, <1>17, <1>18, <1>22, <1>23, EngagedStep

(* The one join of a worker, by which it tells nobody anything new.              *)
LEMMA AskJoinDone ==
  ASSUME SystemTypeOK, CommitInv, Orderly, UNCHANGED <<table, mlog, begun>>, NEW w \in Worker,
         Routed(w, toW[w]), NEW tid \in Tid, CmdJoin(w, tid)
  PROVE  WorkerDone(w)
<1> DEFINE m == ToMgr(w, "JOINTX", tid, FALSE)
           next == [mem[w] EXCEPT !.addr = TRUE]
<1>1. WorkerOK(w)
  BY DEF CommitInv, WorkerInv
<1>2. mem[w].pc = "loop" /\ left[w]["JOINTX"] > 0 /\ UNCHANGED <<wlog, joinedAt>>
  BY DEF CmdJoin, Ask
<1>3. left[w]["JOINTX"] \in Nat /\ left'[w]["JOINTX"] = left[w]["JOINTX"] - 1
  BY DEF CmdJoin, Ask, SystemTypeOK, WorkerTypeOK, Command
<1>4. left[w]["JOINTX"] = 1 /\ left'[w]["JOINTX"] = 0
  BY <1>1, <1>2, <1>3 DEF WorkerOK, Admission
<1>5. m \in ToManager /\ m.kind = "JOINTX"
  BY ToMgrType DEF WorkerKind, AnyTid, ToMgr
<1>6. SendThen(w, m, next) /\ m.kind \notin Followup
  BY <1>5 DEF CmdJoin, Followup, Ballot
<1>7. next.pc = "loop" /\ next.curTid = mem[w].curTid
  BY <1>2 DEF SystemTypeOK, WorkerTypeOK, Memory
<1> HIDE DEF m, next
<1>8. posted' = <<m>> /\ mem'[w] = next
  BY <1>2, <1>6, SendSurvives
<1>9. Tx(w)' = Tx(w) /\ ~Unsure(w)' /\ mem'[w].pc # "down" /\ toW'[w] = toW[w]
  BY <1>2, <1>7, <1>8 DEF Tx, Unsure, Routed
<1>10. toM'[w] = toM[w] \o <<m>> /\ toM[w] \in Seq(ToManager)
  BY <1>8 DEF Routed, SystemTypeOK
<1>11. ~Asking(w) /\ \A t \in Tid : ~Admitted(w, t)
  BY <1>1, <1>4 DEF WorkerOK, Admission
<1>12. /\ Range(toM'[w]) = Range(toM[w]) \cup {m}
       /\ AskedOnce(toM'[w])
       /\ Covered(toM[w]) => Covered(toM'[w])
  <2>1. "JOINTX" \notin Kinds(toM[w]) /\ AskedOnce(toM[w])
    BY <1>1, <1>11 DEF Kinds, Asking, WorkerOK, Admission
  <2>2. QED
    BY <1>5, <1>10, <2>1, SentToManager
<1>13. \A kind, t : /\ InWay(w, kind, t)' <=> InWay(w, kind, t)
                    /\ Wrote(w, kind, t)' <=> Wrote(w, kind, t)
                    /\ Logged(kind, t)' <=> Logged(kind, t)
  BY <1>2, <1>9 DEF InWay, Msg, Wrote, Rec, Logged
<1>14. \A t : /\ Admitted(w, t)' <=> Admitted(w, t)
              /\ Prepared(w, t)' <=> Prepared(w, t)
              /\ Holding(t)' = Holding(t)
  BY <1>2, <1>9, <1>13 DEF Admitted, Prepared, Holding
<1>15. Marked(w)' <=> Marked(w)
  BY <1>9, <1>14 DEF Marked, Yes
<1>16. Admission(w)'
  BY <1>1, <1>4, <1>9, <1>11, <1>12, <1>14 DEF WorkerOK, Admission
<1>17. Engagement(w)'
  <2>1. \A e \in Range(toM'[w]) : e.kind \in Followup => e.tid = Tx(w)' /\ Tx(w)' \in Tid
    BY <1>1, <1>6, <1>9, <1>12 DEF WorkerOK, Engagement
  <2>2. QED
    BY <1>1, <1>2, <1>9, <1>13, <2>1 DEF WorkerOK, Engagement
<1>18. Votes(w)'
  <2>1. \A e \in Range(toM'[w]) : e.kind = "VOTE_COMMIT" => Consents(w, e.tid)'
    BY <1>1, <1>5, <1>12, <1>13, <1>14 DEF WorkerOK, Votes, Consents
  <2>2. QED
    BY <1>1, <1>9, <1>12, <1>13, <1>15, <2>1 DEF WorkerOK, Votes
<1>19. Verdict(w)'
  BY <1>1, <1>13, <1>14 DEF WorkerOK, Verdict, Hears
<1>20. Extends(w)
  BY <1>2 DEF Extends
<1>21. QED
  BY <1>14, <1>16, <1>17, <1>18, <1>19, <1>20 DEF WorkerDone, WorkerOK

(* An accepted join: until now the worker had no part in anything.               *)
LEMMA JoinedDone ==
  ASSUME SystemTypeOK, CommitInv, UNCHANGED <<table, mlog, begun>>, NEW w \in Worker,
         toW[w] # <<>>, Routed(w, Tail(toW[w])), NEW m, m = Head(toW[w]),
         m.kind = "JOIN_SUCCESS", RecvJoinReply(w, m)
  PROVE  WorkerDone(w)
<1> DEFINE tid == m.tid
           q == toW[w]
<1>1. WorkerOK(w) /\ m \in ToWorker /\ m \in Range(q) /\ Range(q) = {m} \cup Range(Tail(q))
  BY HeadHeard DEF CommitInv, WorkerInv
<1>2. AcceptedFirst(Tail(q)) /\ "JOIN_SUCCESS" \notin Kinds(Tail(q)) /\ tid \in Tid
  BY HeadHeard DEF ToMember
<1>3. Tx(w) = NoTid /\ m = Msg("JOIN_SUCCESS", tid)
  BY <1>1 DEF WorkerOK, Admission, ToWorker, Msg
<1>4. mem[w].pc = "loop" /\ mem'[w].pc = "loop" /\ mem'[w].curTid = tid /\ posted' = <<>>
      /\ left' = left
  <2> DEFINE next == [mem[w] EXCEPT !.curTid = m.tid, !.txRun = TRUE]
  <2>1. mem \in [Worker -> Memory] /\ mem[w] \in Memory
    BY DEF SystemTypeOK, WorkerTypeOK
  <2>2. mem[w].pc = "loop" /\ left' = left /\ Quiet(w, next)
    BY DEF RecvJoinReply
  <2>3. next.pc = mem[w].pc /\ next.curTid = m.tid
    BY <2>1 DEF Memory
  <2> HIDE DEF next
  <2>4. mem'[w] = next /\ posted' = <<>>
    BY <2>1, <2>2 DEF Quiet
  <2>5. QED
    BY <2>2, <2>3, <2>4
<1>5. Tx(w)' = tid /\ ~Unsure(w)' /\ toW'[w] = Tail(q) /\ toM'[w] = toM[w]
  BY <1>4, NothingSaid DEF Tx, Unsure, Routed
<1>6. \A t \in Tid : Admitted(w, t) <=> t = tid
  <2>1. \A t \in Tid : Tx(w) # t
    BY <1>3, NoTidAssumption
  <2>2. \A e \in Range(Tail(q)) : e.kind # "JOIN_SUCCESS"
    BY <1>2 DEF Kinds
  <2>3. \A t : InWay(w, "JOIN_SUCCESS", t) <=> t = tid
    BY <1>1, <1>3, <2>2 DEF InWay, Msg
  <2>4. QED
    BY <2>1, <2>3 DEF Admitted
<1>7. \A kind, t : InWay(w, kind, t)' => InWay(w, kind, t)
  BY <1>1, <1>5 DEF InWay, Msg
<1>8. \A t : ~InWay(w, "JOIN_SUCCESS", t)'
  BY <1>2, <1>5 DEF InWay, Msg, Kinds
<1>9. \A t \in Tid : Admitted(w, t)' <=> Admitted(w, t)
  BY <1>5, <1>6, <1>8 DEF Admitted
<1>10. \A t \in Tid : joinedAt'[w][t] # <<>> <=> t = tid
  <2>1. \A t \in Tid : joinedAt[w][t] = <<>>
    BY <1>1, <1>3, NoTidAssumption DEF WorkerOK, Engagement
  <2>2. joinedAt' = [joinedAt EXCEPT ![w][tid] = <<obj[w]>>]
    BY <1>2, <2>1 DEF RecvJoinReply
  <2>3. joinedAt \in [Worker -> [Tid -> Seq(Data)]]
    BY DEF SystemTypeOK, WorkerTypeOK
  <2>4. ASSUME NEW t \in Tid PROVE joinedAt'[w][t] = IF t = tid THEN <<obj[w]>> ELSE joinedAt[w][t]
    BY <1>2, <2>2, <2>3
  <2>5. <<obj[w]>> # <<>>
    OBVIOUS
  <2>6. QED
    BY <2>1, <2>4, <2>5
<1>11. Extends(w) /\ \A t \in Tid, kind \in Own : ~Wrote(w, kind, t)'
  <2> DEFINE r == Rec("JOINTX", tid)
  <2>1. wlog'[w] = Append(wlog[w], r)
    BY DEF RecvJoinReply, Write, SystemTypeOK, WorkerTypeOK
  <2>2. r \in WorkerRecord
    BY <1>2, RecType DEF RecordTag, AnyTid
  <2>3. \A kind \in Own : \A t : r # Rec(kind, t)
    BY DEF Rec, Own
  <2> HIDE DEF r
  <2>4. /\ Extends(w)
        /\ \A kind, t : Wrote(w, kind, t)' <=> Wrote(w, kind, t) \/ r = Rec(kind, t)
    BY <2>1, <2>2, RecordAdded
  <2>5. \A t \in Tid, kind \in Own : ~Wrote(w, kind, t)
    BY <1>1, <1>3, NoTidAssumption DEF WorkerOK, Engagement
  <2>6. QED
    BY <2>3, <2>4, <2>5
<1>12. \A t : Prepared(w, t) => Prepared(w, t)'
  BY <1>11, PreparedKept
<1>13. \A e \in Range(toM[w]) : e.kind \notin Followup
  BY <1>1, <1>3, NoTidAssumption DEF WorkerOK, Engagement
<1>14. \A kind, t : Logged(kind, t)' <=> Logged(kind, t)
  BY DEF Logged
<1>15. Admission(w)'
  <2>1. ~Asking(w)
    BY <1>1, <1>2, <1>6 DEF WorkerOK, Admission
  <2>2. ~Asking(w)'
    BY <1>5, <2>1 DEF Asking
  <2>3. \A e \in Range(toW'[w]) : e.kind # "JOIN_SUCCESS" /\ e \in Range(q)
    BY <1>1, <1>2, <1>5 DEF Kinds
  <2>4. QED
    BY <1>1, <1>2, <1>4, <1>5, <1>9, <2>2, <2>3 DEF WorkerOK, Admission
<1>16. Engagement(w)'
  BY <1>4, <1>5, <1>10, <1>11, <1>13 DEF Engagement
<1>17. Votes(w)'
  <2>1. Covered(toM'[w])
    <3>1. \A j \in DOMAIN toM[w] : toM[w][j].kind # "POLL_DECISION"
      BY <1>13 DEF Followup, Range
    <3>2. QED
      BY <1>5, <3>1 DEF Covered
  <2>2. \A e \in Range(toM'[w]) : e.kind # "VOTE_COMMIT"
    BY <1>5, <1>13 DEF Followup, Ballot
  <2>3. \A t \in Tid : InWay(w, "PREPARE_COMMIT", t)' => Logged("COMMIT_REQ", t)'
    BY <1>1, <1>7, <1>14 DEF WorkerOK, Votes
  <2>4. QED
    BY <1>5, <2>1, <2>2, <2>3 DEF Votes
<1>18. Verdict(w)'
  <2>1. \A t \in Tid : /\ Hears(w, "DECIDE_COMMIT", t)' => Hears(w, "DECIDE_COMMIT", t)
                       /\ Hears(w, "DECIDE_ABORT", t)' => Hears(w, "DECIDE_ABORT", t)
    BY <1>7, <1>11 DEF Hears, Own
  <2>2. \A t : Holding(t)' = Holding(t)
    BY DEF Holding
  <2>3. QED
    BY <1>1, <1>9, <1>12, <1>14, <2>1, <2>2 DEF WorkerOK, Verdict
<1>19. QED
  BY <1>9, <1>11, <1>15, <1>16, <1>17, <1>18 DEF WorkerDone, WorkerOK

(* A command is one worker's business.                                           *)
LEMMA CommandAlone ==
  ASSUME WorkerTypeOK, NEW w \in Worker, CmdAny(w), NEW u \in Worker \ {w}
  PROVE  /\ wlog'[u] = wlog[u] /\ mem'[u] = mem[u]
         /\ joinedAt'[u] = joinedAt[u] /\ left'[u] = left[u]
<1>1. CASE \E t \in Tid : CmdBegin(w, t) \/ CmdJoin(w, t)
  BY <1>1 DEF CmdBegin, CmdJoin, Ask, SendThen, WorkerTypeOK
<1>2. CASE \E f \in Field, v \in Value : CmdUpdate(w, f, v)
  BY <1>2 DEF CmdUpdate, Ask, Quiet, Write, WorkerTypeOK
<1>3. CASE (\E d \in Delay : CmdDelay(w, d)) \/ CmdCrash(w) \/ CmdVoteAbort(w)
  BY <1>3 DEF CmdDelay, CmdCrash, CmdVoteAbort, Ask, Quiet, WorkerTypeOK
<1>4. CASE \E kind \in {"COMMIT", "COMMIT_CRASH"} : CmdCommit(w, kind)
  BY <1>4 DEF CmdCommit, Ask, SendThen, Quiet, Write, WorkerTypeOK
<1>5. CASE \E kind \in {"ABORT", "ABORT_CRASH"} : CmdAbort(w, kind)
  BY <1>5 DEF CmdAbort, Ask, Quiet, Write, WorkerTypeOK
<1>6. QED
  BY <1>1, <1>2, <1>3, <1>4, <1>5 DEF CmdAny

(* Any step of a worker.                                                         *)
LEMMA WorkersKeep ==
  ASSUME SystemTypeOK, BufferInv, CommitInv, Orderly, NEW w \in Worker,
         DeliverToWorker(w) \/ PollTimeout(w) \/ UserCommand(w) \/ RestartWorker(w)
  PROVE  CommitInv'
<1>1. WorkerTypeOK
  BY DEF SystemTypeOK
<1>2. ASSUME NEW queues \in [Worker -> Seq(ToWorker)], NEW action, WorkerMoves(queues, action),
             \A u \in Worker : u # w => queues[u] = toW[u], WorkerGood(w),
             \A u \in Worker \ {w} : /\ wlog'[u] = wlog[u] /\ mem'[u] = mem[u]
                                     /\ joinedAt'[u] = joinedAt[u] /\ left'[u] = left[u],
             Routed(w, queues[w]) => WorkerDone(w)
      PROVE  CommitInv'
  <2>1. UNCHANGED <<table, mlog, begun, resume>> /\ mgrUp'
    BY <1>2 DEF WorkerMoves, CommitInv, Running
  <2>2. /\ Routed(w, queues[w])
        /\ \A u \in Worker : u # w /\ mem'[u] = mem[u] => toM'[u] = toM[u] /\ toW'[u] = toW[u]
    BY <1>2, <2>1, WorkerRouted DEF WorkerMoves
  <2>3. \A u \in Worker \ {w} : Still(u)
    BY <1>2, <2>2 DEF Still
  <2>4. QED
    BY <1>2, <2>1, <2>2, <2>3, WorkerFrame
<1>3. toW \in [Worker -> Seq(ToWorker)]
  BY DEF SystemTypeOK
<1>4. CASE DeliverToWorker(w)
  <2> DEFINE m == Head(toW[w])
             queues == Popped(toW, w)
  <2>1. toW[w] # <<>> /\ WorkerMoves(queues, WorkerReceive(w, m)) /\ WorkerReceive(w, m)
    BY <1>4 DEF DeliverToWorker, WorkerMoves
  <2>2. queues \in [Worker -> Seq(ToWorker)] /\ queues[w] = Tail(toW[w])
        /\ \A u \in Worker : u # w => queues[u] = toW[u]
    BY <1>3, <2>1, PoppedType
  <2>3. m \in ToWorker /\ m \in Range(toW[w])
    BY <2>1, HeadHeard
  <2>4. m.kind = "PREPARE_COMMIT" => m.tid \in begun
    BY <2>3 DEF ToMember, CommitInv, WorkerInv, WorkerOK, Admission
  <2> HIDE DEF m, queues
  <2>5. WorkerGood(w)
    BY <1>1, <2>1, <2>3, <2>4, ReceiveGood
  <2>6. \A u \in Worker \ {w} : /\ wlog'[u] = wlog[u] /\ mem'[u] = mem[u]
                                /\ joinedAt'[u] = joinedAt[u] /\ left'[u] = left[u]
    <3>1. CASE RecvJoinReply(w, m)
      BY <1>1, <3>1 DEF RecvJoinReply, Quiet, Write, WorkerTypeOK
    <3>2. CASE RecvPrepare(w, m)
      BY <1>1, <3>2 DEF RecvPrepare, SendThen, WorkerTypeOK
    <3>3. CASE RecvDecision(w, m)
      BY <1>1, <3>3 DEF RecvDecision, Quiet, Write, WorkerTypeOK
    <3>4. CASE RecvOther(w, m)
      BY <1>1, <3>4 DEF RecvOther, Quiet, WorkerTypeOK
    <3>5. QED
      BY <2>1, <3>1, <3>2, <3>3, <3>4 DEF WorkerReceive
  <2>7. ASSUME Routed(w, queues[w]) PROVE WorkerDone(w)
    <3>1. Routed(w, Tail(toW[w])) /\ UNCHANGED <<table, mlog, begun>> /\ m = Head(toW[w])
      BY <2>1, <2>2, <2>7 DEF WorkerMoves, m
    <3>2. CASE RecvJoinReply(w, m)
      BY <2>1, <3>1, <3>2, JoinedDone, IndifferentDone
    <3>3. CASE RecvPrepare(w, m)
      BY <2>1, <3>1, <3>3, PrepareDone
    <3>4. CASE RecvDecision(w, m)
      BY <2>1, <3>1, <3>4, DecisionDone
    <3>5. CASE RecvOther(w, m)
      BY <2>1, <3>1, <3>5, IndifferentDone
    <3>6. QED
      BY <2>1, <3>2, <3>3, <3>4, <3>5 DEF WorkerReceive
  <2>8. QED
    BY <1>2, <2>1, <2>2, <2>5, <2>6, <2>7
<1>5. CASE PollTimeout(w)
  <2>1. toW[w] = <<>> /\ WorkerMoves(toW, Poll(w)) /\ Poll(w)
    BY <1>5 DEF PollTimeout, WorkerMoves
  <2>2. WorkerGood(w)
    BY <1>1, <2>1, PollGood
  <2>3. \A u \in Worker \ {w} : /\ wlog'[u] = wlog[u] /\ mem'[u] = mem[u]
                                /\ joinedAt'[u] = joinedAt[u] /\ left'[u] = left[u]
    BY <1>1, <2>1 DEF Poll, SendThen, Quiet, WorkerTypeOK
  <2>4. ASSUME Routed(w, toW[w]) PROVE WorkerDone(w)
    BY <2>1, <2>4, PollDone DEF WorkerMoves
  <2>5. QED
    BY <1>2, <1>3, <2>1, <2>2, <2>3, <2>4
<1>6. CASE UserCommand(w)
  <2>1. WorkerMoves(toW, CmdAny(w)) /\ CmdAny(w)
    BY <1>6 DEF UserCommand, WorkerMoves
  <2>2. WorkerGood(w)
    BY <1>1, <2>1, CommandGood
  <2>3. \A u \in Worker \ {w} : /\ wlog'[u] = wlog[u] /\ mem'[u] = mem[u]
                                /\ joinedAt'[u] = joinedAt[u] /\ left'[u] = left[u]
    BY <1>1, <2>1, CommandAlone
  <2>4. ASSUME Routed(w, toW[w]) PROVE WorkerDone(w)
    <3>1. UNCHANGED <<table, mlog, begun>>
      BY <2>1 DEF WorkerMoves
    <3>2. ASSUME NEW t \in Tid, CmdJoin(w, t) PROVE WorkerDone(w)
      BY <2>4, <3>1, <3>2, AskJoinDone
    <3>3. QED
      BY <2>1, <2>4, <3>1, <3>2, CommandDone
  <2>5. QED
    BY <1>2, <1>3, <2>1, <2>2, <2>3, <2>4
<1>7. CASE RestartWorker(w)
  <2>1. WorkerMoves(toW, WorkerRestart(w)) /\ WorkerRestart(w)
    BY <1>7 DEF RestartWorker, WorkerMoves
  <2>2. WorkerGood(w)
    BY <1>1, <2>1, WorkerRestartGood
  <2>3. \A u \in Worker \ {w} : /\ wlog'[u] = wlog[u] /\ mem'[u] = mem[u]
                                /\ joinedAt'[u] = joinedAt[u] /\ left'[u] = left[u]
    BY <1>1, <2>1 DEF WorkerRestart, Quiet, Write, WorkerTypeOK
  <2>4. ASSUME Routed(w, toW[w]) PROVE WorkerDone(w)
    BY <2>1, <2>4, RestartDone DEF WorkerMoves
  <2>5. QED
    BY <1>2, <1>3, <2>1, <2>2, <2>3, <2>4
<1>8. QED
  BY <1>4, <1>5, <1>6, <1>7

-------------------------------------------------------------------------------
\* Steps of the manager

\* What a step of the manager leaves alone, and how its datagrams travel.
Served ==
  /\ UNCHANGED <<wlog, mem, joinedAt, left>>
  /\ mgrUp' /\ resume' = 0
  /\ mlog \subseteq mlog' /\ begun \subseteq begun'
  /\ sent' \in [Worker -> Seq(ToWorker)]
  /\ \A w \in Worker : toW'[w] = IF mem[w].pc = "down" THEN <<>> ELSE toW[w] \o sent'[w]

\* It leaves w's buffer as it was, or has read the first datagram in it.
Drawn(w) == toM'[w] = toM[w] \/ (toM[w] # <<>> /\ toM'[w] = Tail(toM[w]))

(* What a step of the manager does not change, and what w may now hear.          *)
LEMMA ServedFacts ==
  ASSUME SystemTypeOK, CommitInv, Served, NEW w \in Worker
  PROVE  /\ Tx(w)' = Tx(w) /\ Unsure(w)' = Unsure(w) /\ LastRecord(w)' = LastRecord(w)
         /\ \A kind, t : Wrote(w, kind, t)' <=> Wrote(w, kind, t)
         /\ \A t : Prepared(w, t)' <=> Prepared(w, t)
         /\ \A kind, t : Logged(kind, t) => Logged(kind, t)'
         /\ mem[w].pc = "down" => toW[w] = <<>> /\ toW'[w] = <<>>
         /\ mem[w].pc # "down" => Range(toW'[w]) = Range(toW[w]) \cup Range(sent'[w])
<1>1. Tx(w)' = Tx(w) /\ Unsure(w)' = Unsure(w) /\ LastRecord(w)' = LastRecord(w)
  BY DEF Served, Tx, Unsure, LastRecord
<1>2. \A kind, t : Wrote(w, kind, t)' <=> Wrote(w, kind, t)
  BY DEF Served, Wrote, Rec
<1>3. \A t : Prepared(w, t)' <=> Prepared(w, t)
  BY DEF Served, Prepared, Rec
<1>4. \A kind, t : Logged(kind, t) => Logged(kind, t)'
  BY DEF Served, Logged
<1>5. mem[w].pc = "down" => toW[w] = <<>> /\ toW'[w] = <<>>
  BY DEF Served, CommitInv, WorkerInv, WorkerOK, Engagement
<1>6. mem[w].pc # "down" => Range(toW'[w]) = Range(toW[w]) \cup Range(sent'[w])
  BY RangeAppended DEF Served, SystemTypeOK
<1>7. QED
  BY <1>1, <1>2, <1>3, <1>4, <1>5, <1>6

(* What is read next from a worker.                                              *)
LEMMA HeadRead ==
  ASSUME SystemTypeOK, BufferInv, Signed, NEW w \in Worker, toM[w] # <<>>
  PROVE  /\ Head(toM[w]) \in ToManager /\ Head(toM[w]) \in Range(toM[w])
         /\ Range(toM[w]) = {Head(toM[w])} \cup Range(Tail(toM[w]))
         /\ Head(toM[w]).from = w
<1>1. toM[w] \in Seq(ToManager)
  BY DEF SystemTypeOK
<1>2. /\ Head(toM[w]) \in Range(toM[w]) /\ Head(toM[w]) \in ToManager
      /\ Range(toM[w]) = {Head(toM[w])} \cup Range(Tail(toM[w]))
  BY <1>1, RangeRead
<1>3. QED
  BY <1>2 DEF Signed

(* What is left in a buffer to the manager was in it.                            *)
LEMMA DrawnRest ==
  ASSUME SystemTypeOK, NEW w \in Worker, Drawn(w)
  PROVE  /\ Range(toM'[w]) \subseteq Range(toM[w])
         /\ AskedOnce(toM[w]) => AskedOnce(toM'[w])
<1>1. toM[w] \in Seq(ToManager)
  BY DEF SystemTypeOK
<1>2. CASE toM'[w] = toM[w]
  BY <1>2
<1>3. CASE toM[w] # <<>> /\ toM'[w] = Tail(toM[w])
  BY <1>1, <1>3, RangeRead, ReadByManager
<1>4. QED
  BY <1>2, <1>3 DEF Drawn

\* The parts of a step of the manager that accepts no join.  What it tells w is
\* about a transaction w takes part in, and true by the log;
TellsRight(w) ==
  \A m \in Range(sent'[w]) :
    /\ m.kind # "JOIN_SUCCESS"
    /\ m.kind \in ToMember => m.tid \in Tid /\ Admitted(w, m.tid)
    /\ m.kind = "PREPARE_COMMIT" => Logged("COMMIT_REQ", m.tid)'
    /\ m.kind = "DECIDE_COMMIT" => Logged("DECIDE_COMMIT", m.tid)'
    /\ m.kind = "DECIDE_ABORT" => Logged("DECIDE_ABORT", m.tid)' /\ ~Logged("DECIDE_COMMIT", m.tid)'

\* it marks w when it takes w's vote;
CountsRight(w) ==
  Tx(w) \in Tid /\ ~Marked(w)' => Covered(toM'[w]) /\ (Unsure(w) => Voting(w)')

\* it retires what is decided, and commits what w is prepared for,
DecidesRight(w) ==
  \A t \in Tid : Admitted(w, t) =>
    /\ Holding(t)' = {} => Logged("DECIDE_COMMIT", t)' \/ Logged("DECIDE_ABORT", t)'
    /\ Logged("DECIDE_COMMIT", t)' => Prepared(w, t)

\* never what it aborted.
NeverTurns ==
  \A t \in Tid : Logged("DECIDE_COMMIT", t)' /\ ~Logged("DECIDE_COMMIT", t) =>
    ~Logged("DECIDE_ABORT", t)

(* Such a step admits nobody.                                                    *)
LEMMA NobodyAdmitted ==
  ASSUME SystemTypeOK, CommitInv, Served, NEW w \in Worker, TellsRight(w), NEW t
  PROVE  Admitted(w, t)' <=> Admitted(w, t)
<1>1. InWay(w, "JOIN_SUCCESS", t)' <=> InWay(w, "JOIN_SUCCESS", t)
  <2>1. Msg("JOIN_SUCCESS", t) \notin Range(sent'[w])
    BY DEF TellsRight, Msg
  <2>2. CASE mem[w].pc = "down"
    BY <2>2, ServedFacts DEF InWay, Msg
  <2>3. CASE mem[w].pc # "down"
    BY <2>1, <2>3, ServedFacts DEF InWay, Msg
  <2>4. QED
    BY <2>2, <2>3
<1>2. QED
  BY <1>1, ServedFacts DEF Admitted

(* And keeps what is known of each worker.                                       *)
LEMMA ServedWorker ==
  ASSUME SystemTypeOK, CommitInv, Served, NEW w \in Worker, Drawn(w),
         TellsRight(w), CountsRight(w), DecidesRight(w), NeverTurns
  PROVE  WorkerOK(w)'
<1>1. WorkerOK(w)
  BY DEF CommitInv, WorkerInv
<1>2. /\ Tx(w)' = Tx(w) /\ Unsure(w)' = Unsure(w) /\ LastRecord(w)' = LastRecord(w)
      /\ \A kind, t : Wrote(w, kind, t)' <=> Wrote(w, kind, t)
      /\ \A t : Prepared(w, t)' <=> Prepared(w, t)
      /\ \A kind, t : Logged(kind, t) => Logged(kind, t)'
      /\ mem[w].pc = "down" => toW[w] = <<>> /\ toW'[w] = <<>>
      /\ mem[w].pc # "down" => Range(toW'[w]) = Range(toW[w]) \cup Range(sent'[w])
  BY ServedFacts
<1>3. \A t : Admitted(w, t)' <=> Admitted(w, t)
  BY NobodyAdmitted
<1>4. Range(toM'[w]) \subseteq Range(toM[w]) /\ (AskedOnce(toM[w]) => AskedOnce(toM'[w]))
  BY DrawnRest
<1>5. ASSUME NEW m \in Range(toW'[w]) PROVE m \in Range(toW[w]) \/ m \in Range(sent'[w])
  BY <1>2, <1>5, RangeEmpty
<1>6. UNCHANGED <<mem, joinedAt, left>> /\ begun \subseteq begun'
  BY DEF Served
<1>7. Admission(w)'
  <2>1. left'[w]["JOINTX"] <= 1 /\ AskedOnce(toM'[w])
    BY <1>1, <1>4, <1>6 DEF WorkerOK, Admission
  <2>2. Asking(w)' => left'[w]["JOINTX"] = 0 /\ \A t \in Tid : ~Admitted(w, t)'
    BY <1>1, <1>3, <1>4, <1>6 DEF WorkerOK, Admission, Asking
  <2>3. AcceptedFirst(toW'[w])
    <3>1. CASE mem[w].pc = "down"
      BY <1>2, <3>1 DEF AcceptedFirst
    <3>2. CASE mem[w].pc # "down"
      <4>1. toW[w] \in Seq(ToWorker) /\ sent'[w] \in Seq(ToWorker) /\ toW'[w] = toW[w] \o sent'[w]
        BY <3>2 DEF SystemTypeOK, Served
      <4>2. AcceptedFirst(toW[w]) /\ "JOIN_SUCCESS" \notin Kinds(sent'[w])
        BY <1>1 DEF WorkerOK, Admission, TellsRight, Kinds
      <4>3. QED
        BY <4>1, <4>2, SentToWorker
    <3>3. QED
      BY <3>1, <3>2
  <2>4. \A m \in Range(toW'[w]) : /\ m.kind \in ToMember => m.tid \in Tid /\ Admitted(w, m.tid)'
                                  /\ m.kind = "JOIN_SUCCESS" => Tx(w)' = NoTid
    BY <1>1, <1>2, <1>3, <1>5 DEF WorkerOK, Admission, TellsRight
  <2>5. \A t \in Tid : Admitted(w, t)' => left'[w]["JOINTX"] = 0 /\ t \in begun'
    BY <1>1, <1>3, <1>6 DEF WorkerOK, Admission
  <2>6. QED
    BY <2>1, <2>2, <2>3, <2>4, <2>5 DEF Admission
<1>8. Engagement(w)'
  BY <1>1, <1>2, <1>4, <1>6 DEF WorkerOK, Engagement
<1>9. ASSUME NEW kind, NEW t, InWay(w, kind, t)'
      PROVE  InWay(w, kind, t) \/ \E m \in Range(sent'[w]) : m.kind = kind /\ m.tid = t
  BY <1>5, <1>9 DEF InWay, Msg
<1>10. Votes(w)'
  <2>1. \A t \in Tid : InWay(w, "PREPARE_COMMIT", t)' => Logged("COMMIT_REQ", t)'
    BY <1>1, <1>2, <1>9 DEF WorkerOK, Votes, TellsRight
  <2>2. \A m \in Range(toM'[w]) : m.kind = "VOTE_COMMIT" => Consents(w, m.tid)'
    BY <1>1, <1>2, <1>4 DEF WorkerOK, Votes, Consents
  <2>3. QED
    BY <1>2, <2>1, <2>2 DEF Votes, CountsRight
<1>11. Verdict(w)'
  <2>1. ASSUME NEW t \in Tid, Hears(w, "DECIDE_COMMIT", t)' PROVE Logged("DECIDE_COMMIT", t)'
    BY <1>1, <1>2, <1>9, <2>1 DEF WorkerOK, Verdict, Hears, TellsRight
  <2>2. ASSUME NEW t \in Tid, Hears(w, "DECIDE_ABORT", t)'
        PROVE  Logged("DECIDE_ABORT", t)' /\ ~Logged("DECIDE_COMMIT", t)'
    <3>1. CASE Hears(w, "DECIDE_ABORT", t)
      BY <1>1, <1>2, <3>1 DEF WorkerOK, Verdict, NeverTurns
    <3>2. CASE \E m \in Range(sent'[w]) : m.kind = "DECIDE_ABORT" /\ m.tid = t
      BY <3>2 DEF TellsRight
    <3>3. QED
      BY <1>2, <1>9, <2>2, <3>1, <3>2 DEF Hears
  <2>3. QED
    BY <1>2, <1>3, <2>1, <2>2 DEF Verdict, DecidesRight
<1>12. QED
  BY <1>7, <1>8, <1>10, <1>11 DEF WorkerOK

\* What a step of the manager does to the slots of transactions that were begun:
\* it marks members, or frees the slot.
OnlyMarks ==
  \A k \in Slot : \/ table'[k].tid = table[k].tid /\ Yes(k) \subseteq Yes(k)'
                  \/ table'[k].tid \notin begun

(* So who is marked stays marked, and a transaction that is gone stays gone.     *)
LEMMA MarksKept ==
  ASSUME CommitInv, Served, OnlyMarks, NEW w \in Worker
  PROVE  /\ \A t \in begun : Holding(t)' \subseteq Holding(t)
         /\ Tx(w) \in Tid /\ Marked(w) => Marked(w)'
<1>1. \A t \in begun : Holding(t)' \subseteq Holding(t)
  BY DEF Holding, OnlyMarks
<1>2. ASSUME Tx(w) \in Tid, Marked(w) PROVE Marked(w)'
  <2>1. Tx(w)' = Tx(w)
    BY DEF Served, Tx, LastRecord
  <2>2. Admitted(w, Tx(w))
    BY DEF Admitted
  <2>3. Tx(w) \in begun
    BY <1>2, <2>2 DEF CommitInv, WorkerInv, WorkerOK, Admission
  <2>4. ASSUME NEW k \in Slot, table'[k].tid = Tx(w) PROVE w \in Yes(k)'
    <3>1. table[k].tid = Tx(w) /\ Yes(k) \subseteq Yes(k)'
      BY <2>3, <2>4 DEF OnlyMarks
    <3>2. w \in Yes(k)
      BY <1>2, <3>1 DEF Marked, Holding
    <3>3. QED
      BY <3>1, <3>2
  <2>5. QED
    BY <2>1, <2>4 DEF Marked, Holding
<1>3. QED
  BY <1>1, <1>2

(* Who is not read, or has sent neither a vote nor a poll, need not be marked.   *)
LEMMA NotCounted ==
  ASSUME SystemTypeOK, CommitInv, Served, OnlyMarks, NEW w \in Worker, Drawn(w),
         toM'[w] # toM[w] => Head(toM[w]).kind \notin Ballot
  PROVE  CountsRight(w)
<1>1. SUFFICES ASSUME Tx(w) \in Tid, ~Marked(w)'
               PROVE  Covered(toM'[w]) /\ (Unsure(w) => Voting(w)')
  BY DEF CountsRight
<1>2. ~Marked(w)
  BY <1>1, MarksKept
<1>3. Covered(toM[w]) /\ (Unsure(w) => Voting(w))
  BY <1>1, <1>2 DEF CommitInv, WorkerInv, WorkerOK, Votes
<1>4. CASE toM'[w] = toM[w]
  BY <1>3, <1>4 DEF Voting
<1>5. CASE toM[w] # <<>> /\ toM'[w] = Tail(toM[w]) /\ Head(toM[w]).kind \notin Ballot
  <2>1. toM[w] \in Seq(ToManager)
    BY DEF SystemTypeOK
  <2>2. Range(toM[w]) = {Head(toM[w])} \cup Range(Tail(toM[w]))
    BY <1>5, <2>1, RangeRead
  <2>3. Covered(toM'[w])
    BY <1>3, <1>5, <2>1, ReadByManager
  <2>4. Voting(w) => Voting(w)'
    BY <1>5, <2>2 DEF Voting
  <2>5. QED
    BY <1>3, <2>3, <2>4
<1>6. QED
  BY <1>4, <1>5 DEF Drawn

(* Who is read must be marked, if a vote was read.                               *)
LEMMA VoteCounted ==
  ASSUME NEW w \in Worker, Tx(w) \in Tid => Marked(w)'
  PROVE  CountsRight(w)
BY DEF CountsRight

(* A slot that stays, or is freed.                                               *)
LEMMA ListingKept ==
  ASSUME SystemTypeOK, CommitInv, Served, NEW k \in Slot, table'[k] \in {table[k], Free},
         \A w \in Worker : \A t \in Tid : t = table[k].tid => (Admitted(w, t)' <=> Admitted(w, t))
  PROVE  Listing(k)'
<1>1. Listing(k)
  BY DEF CommitInv, SlotInv
<1>2. CASE table'[k] = Free
  <2>1. table'[k].tid = NoTid /\ table'[k].members = <<>>
    BY <1>2 DEF Free
  <2>2. In(k)' = {} /\ Yes(k)' = {} /\ Distinct(k)'
    BY <2>1 DEF In, Yes, Distinct
  <2>3. QED
    BY <2>1, <2>2 DEF Listing
<1>3. CASE table'[k] = table[k]
  <2>1. In(k)' = In(k) /\ Yes(k)' = Yes(k) /\ (Distinct(k)' <=> Distinct(k))
    BY <1>3 DEF In, Yes, Distinct
  <2>2. ASSUME NEW w \in Yes(k) PROVE Consents(w, table[k].tid)'
    <3>1. w \in Worker
      BY SlotTypes
    <3>2. Consents(w, table[k].tid)
      BY <1>1 DEF Listing
    <3>3. QED
      BY <1>3, <3>1, <3>2, ServedFacts DEF Consents
  <2>3. table[k].tid # NoTid => table[k].tid \in Tid
    BY DEF SystemTypeOK, MgrTypeOK, AnyTid
  <2>4. table'[k].tid # NoTid => \A w \in Worker : w \in In(k)' <=> Admitted(w, table[k].tid)'
    BY <1>1, <1>3, <2>1, <2>3 DEF Listing
  <2>5. QED
    BY <1>1, <1>3, <2>1, <2>2, <2>4 DEF Listing
<1>4. QED
  BY <1>2, <1>3

(* What goes to the log.                                                         *)
LEMMA LogKept ==
  ASSUME SystemTypeOK, CommitInv, Served, OnlyMarks,
         \A t \in Tid : Logged("DECIDE_ABORT", t)' =>
           Logged("DECIDE_ABORT", t) \/ (t \in begun /\ Holding(t)' = {}),
         \A t \in Tid : Logged("DECIDE_COMMIT", t)' =>
           Logged("DECIDE_COMMIT", t) \/ Logged("COMMIT_REQ", t)
  PROVE  LogInv'
<1>1. \A t \in begun : Holding(t)' \subseteq Holding(t)
  BY DEF Holding, OnlyMarks
<1>2. begun \subseteq begun' /\ \A kind, t : Logged(kind, t) => Logged(kind, t)'
  BY DEF Served, Logged
<1>3. QED
  BY <1>1, <1>2 DEF CommitInv, LogInv

(* What a reply says, and to whom.                                               *)
LEMMA SentReply ==
  ASSUME NEW m, NEW kind, sent' = Reply(m, kind), NEW w \in Worker
  PROVE  Range(sent'[w]) = IF w = m.from THEN {Msg(kind, m.tid)} ELSE {}
<1>1. sent'[w] = IF w = m.from THEN <<Msg(kind, m.tid)>> ELSE <<>>
  BY DEF Reply, Msg
<1>2. QED
  BY <1>1, RangeSingle, RangeEmpty

(* A broadcast reaches the members of slots only.                                *)
LEMMA SentBroadcast ==
  ASSUME SystemTypeOK, NEW tid, NEW kind, sent' = Broadcast(tid, kind), NEW w \in Worker,
         NEW e \in Range(sent'[w])
  PROVE  e = Msg(kind, tid) /\ \E k \in Holding(tid) : w \in In(k)
<1>1. DOMAIN sent'[w] = 1..Cardinality(Entries(tid, w))
      /\ \A i \in DOMAIN sent'[w] : sent'[w][i] = Msg(kind, tid)
  BY DEF Broadcast, Msg
<1>2. DOMAIN sent'[w] # {} /\ e = Msg(kind, tid)
  BY <1>1 DEF Range
<1>3. Entries(tid, w) # {}
  <2>1. SUFFICES ASSUME Entries(tid, w) = {} PROVE FALSE
    OBVIOUS
  <2>2. Cardinality(Entries(tid, w)) = 0
    BY <2>1, FS_EmptySet
  <2>3. QED
    BY <1>1, <1>2, <2>2
<1>4. PICK x \in Slot \X (1..MaxNodes) :
        table[x[1]].tid = tid /\ x[2] \in DOMAIN table[x[1]].members
        /\ table[x[1]].members[x[2]].id = w
  BY <1>3 DEF Entries
<1>5. x[1] \in Holding(tid) /\ w \in In(x[1])
  BY <1>4 DEF Holding, In
<1>6. QED
  BY <1>2, <1>5

(* A broadcast reaches those who take part.                                      *)
LEMMA BroadcastAdmitted ==
  ASSUME SystemTypeOK, CommitInv, NEW tid \in AnyTid, NEW kind, sent' = Broadcast(tid, kind),
         NEW w \in Worker, NEW e \in Range(sent'[w])
  PROVE  e = Msg(kind, tid) /\ tid \in Tid /\ Admitted(w, tid) /\ Holding(tid) # {}
<1>1. e = Msg(kind, tid) /\ \E k \in Holding(tid) : w \in In(k)
  BY SentBroadcast
<1>2. PICK k \in Holding(tid) : w \in In(k)
  BY <1>1
<1>3. k \in Slot /\ table[k].tid = tid
  BY DEF Holding
<1>4. tid # NoTid
  <2>1. table[k].members # <<>>
    BY <1>2 DEF In
  <2>2. QED
    BY <1>3, <2>1 DEF CommitInv, SlotInv, Listing
<1>5. Admitted(w, tid)
  BY <1>2, <1>3, <1>4 DEF CommitInv, SlotInv, Listing
<1>6. QED
  BY <1>1, <1>3, <1>4, <1>5 DEF AnyTid

(* An answer to a user's command is neither a join's nor the commit's.           *)
LEMMA PlainReply ==
  ASSUME NEW m, NEW kind, kind \notin ToMember, sent' = Reply(m, kind), NEW w \in Worker
  PROVE  TellsRight(w)
<1>1. ASSUME NEW e \in Range(sent'[w]) PROVE e.kind = kind
  <2>1. e \in {Msg(kind, m.tid)}
    BY SentReply
  <2>2. QED
    BY <2>1 DEF Msg
<1>2. QED
  BY <1>1 DEF TellsRight, ToMember

(* The parts together.                                                           *)
LEMMA ServedKeeps ==
  ASSUME SystemTypeOK, CommitInv, Served, SlotInv', LogInv', NeverTurns,
         \A w \in Worker : Drawn(w) /\ TellsRight(w) /\ CountsRight(w) /\ DecidesRight(w)
  PROVE  CommitInv'
<1>1. WorkerInv'
  BY ServedWorker DEF WorkerInv
<1>2. Running'
  BY DEF Served, Running
<1>3. QED
  BY <1>1, <1>2 DEF CommitInv

(* A step that decides nothing, and frees no slot.                               *)
LEMMA NothingDecided ==
  ASSUME SystemTypeOK, CommitInv, Served,
         \A t \in begun \cap Tid : Holding(t)' = {} => Holding(t) = {},
         \A t : Logged("DECIDE_COMMIT", t)' <=> Logged("DECIDE_COMMIT", t)
  PROVE  NeverTurns /\ \A w \in Worker : DecidesRight(w)
<1>1. ASSUME NEW w \in Worker, NEW t \in Tid, Admitted(w, t)
      PROVE  /\ Holding(t)' = {} => Logged("DECIDE_COMMIT", t)' \/ Logged("DECIDE_ABORT", t)'
             /\ Logged("DECIDE_COMMIT", t)' => Prepared(w, t)
  <2>1. WorkerOK(w)
    BY DEF CommitInv, WorkerInv
  <2>2. t \in begun
    BY <1>1, <2>1 DEF WorkerOK, Admission
  <2>3. Logged("DECIDE_ABORT", t) => Logged("DECIDE_ABORT", t)'
    BY DEF Served, Logged
  <2>4. QED
    BY <1>1, <2>1, <2>2, <2>3 DEF WorkerOK, Verdict
<1>2. QED
  BY <1>1 DEF NeverTurns, DecidesRight

\* One datagram of r is read, nothing else.
ReadsOne(r) ==
  /\ toM[r] # <<>> /\ toM'[r] = Tail(toM[r])
  /\ \A w \in Worker : w # r => toM'[w] = toM[w]

(* A transaction is begun: it is new, so nobody takes part in it.                *)
LEMMA BeginKeeps ==
  ASSUME SystemTypeOK, BufferInv, Signed, CommitInv, Served, NEW r \in Worker, ReadsOne(r),
         NEW m, m = Head(toM[r]), MgrBegin(m)
  PROVE  CommitInv'
<1>1. m.kind = "BEGINTX" /\ m.tid \in Tid /\ m.tid \notin begun
  <2>1. m \in Range(toM[r]) /\ m.kind = "BEGINTX"
    BY HeadRead DEF ReadsOne, MgrBegin
  <2>2. QED
    BY <2>1 DEF BufferInv, BeginsFresh, SystemTypeOK, WorkerTypeOK
<1>2. mlog' = mlog /\ NoTid \notin begun
  BY ZeroNotBegun DEF MgrBegin
<1>3. ASSUME NEW k \in Slot
      PROVE  \/ table'[k] = table[k]
             \/ /\ table[k].tid = NoTid
                /\ table'[k].tid = m.tid /\ table'[k].members = table[k].members
  <2>1. table \in [Slot -> [tid: AnyTid, isCrash: BOOLEAN, members: Seq(Member)]]
    BY DEF SystemTypeOK, MgrTypeOK
  <2>2. CASE table' = table
    BY <2>2
  <2>3. ASSUME NEW j \in Slot, FirstMet(m.tid, j), table[j].tid # m.tid,
               table' = [table EXCEPT ![j].tid = m.tid]
        PROVE  \/ table'[k] = table[k]
               \/ /\ table[k].tid = NoTid
                  /\ table'[k].tid = m.tid /\ table'[k].members = table[k].members
    <3>1. table[j].tid = NoTid
      BY <2>3 DEF FirstMet, IsFirst, Holding
    <3>2. QED
      BY <2>1, <2>3, <3>1
  <2>4. QED
    BY <2>2, <2>3 DEF MgrBegin
<1>4. OnlyMarks
  <2>1. ASSUME NEW k \in Slot, table'[k] = table[k] PROVE Yes(k)' = Yes(k)
    BY <2>1 DEF Yes
  <2>2. QED
    BY <1>1, <1>3, <2>1 DEF OnlyMarks
<1>5. \A w \in Worker : Drawn(w)
  BY DEF ReadsOne, Drawn
<1>6. \A w \in Worker : TellsRight(w)
  <2>1. \E kind \in {"BEGIN_SUCCESS", "BEGIN_FAIL"} : sent' = Reply(m, kind)
    BY DEF MgrBegin
  <2>2. QED
    BY <2>1, PlainReply DEF ToMember
<1>7. \A w \in Worker : CountsRight(w)
  BY <1>1, <1>4, <1>5, NotCounted DEF ReadsOne, Ballot
<1>8. NeverTurns /\ \A w \in Worker : DecidesRight(w)
  <2>1. \A t \in begun \cap Tid : Holding(t)' = {} => Holding(t) = {}
    BY <1>2, <1>3 DEF Holding
  <2>2. \A t : Logged("DECIDE_COMMIT", t)' <=> Logged("DECIDE_COMMIT", t)
    BY <1>2 DEF Logged
  <2>3. QED
    BY <2>1, <2>2, NothingDecided
<1>9. LogInv'
  BY <1>2, <1>4, LogKept DEF Logged
<1>10. \A w \in Worker : \A t \in Tid : Admitted(w, t)' <=> Admitted(w, t)
  BY <1>6, NobodyAdmitted
<1>11. SlotInv'
  <2>1. ASSUME NEW k \in Slot PROVE Listing(k)'
    <3>1. CASE table'[k] = table[k]
      BY <1>10, <3>1, ListingKept
    <3>2. CASE table[k].tid = NoTid /\ table'[k].tid = m.tid /\ table'[k].members = table[k].members
      <4>1. table'[k].members = <<>>
        BY <3>2 DEF CommitInv, SlotInv, Listing
      <4>2. In(k)' = {} /\ Yes(k)' = {} /\ Distinct(k)'
        BY <4>1 DEF In, Yes, Distinct
      <4>3. \A w \in Worker : ~Admitted(w, m.tid)
        BY <1>1 DEF CommitInv, WorkerInv, WorkerOK, Admission
      <4>4. \A w \in Worker : w \in In(k)' <=> Admitted(w, m.tid)'
        BY <1>1, <1>10, <4>2, <4>3
      <4>5. table'[k].tid = m.tid
        BY <3>2
      <4>6. table'[k].tid # NoTid => \A w \in Worker : w \in In(k)' <=> Admitted(w, table[k].tid)'
        BY <4>4, <4>5 DEF Admitted, InWay, Msg
      <4>7. QED
        BY <4>1, <4>2, <4>6 DEF Listing
    <3>3. QED
      BY <1>3, <3>1, <3>2
  <2>2. QED
    BY <2>1 DEF SlotInv
<1>12. QED
  BY <1>5, <1>6, <1>7, <1>8, <1>9, <1>11, ServedKeeps

(* A commit is requested: the members are asked to prepare.                      *)
LEMMA CommitKeeps ==
  ASSUME SystemTypeOK, BufferInv, Signed, CommitInv, Served, NEW r \in Worker, ReadsOne(r),
         NEW m, m = Head(toM[r]), MgrCommit(m)
  PROVE  CommitInv'
<1>1. m.kind = "COMMIT" /\ m.tid \in AnyTid
  BY HeadRead DEF ReadsOne, MgrCommit, ToManager
<1>2. table' = table /\ mlog' = mlog \cup {[kind |-> "COMMIT_REQ", tid |-> m.tid]}
  BY DEF MgrCommit
<1>3. OnlyMarks
  BY <1>2 DEF OnlyMarks, Yes
<1>4. \A w \in Worker : Drawn(w)
  BY DEF ReadsOne, Drawn
<1>5. ASSUME NEW w \in Worker PROVE TellsRight(w)
  <2>1. ASSUME NEW e \in Range(sent'[w])
        PROVE  e.kind = "PREPARE_COMMIT" /\ e.tid = m.tid /\ m.tid \in Tid /\ Admitted(w, m.tid)
    <3>1. sent' = Broadcast(m.tid, "PREPARE_COMMIT")
      BY DEF MgrCommit
    <3>2. e = Msg("PREPARE_COMMIT", m.tid) /\ m.tid \in Tid /\ Admitted(w, m.tid)
      BY <1>1, <3>1, BroadcastAdmitted
    <3>3. QED
      BY <3>2 DEF Msg
  <2>2. Logged("COMMIT_REQ", m.tid)'
    BY <1>2 DEF Logged
  <2>3. QED
    BY <2>1, <2>2 DEF TellsRight
<1>6. \A w \in Worker : CountsRight(w)
  BY <1>1, <1>3, <1>4, NotCounted DEF ReadsOne, Ballot
<1>7. \A t : /\ Logged("DECIDE_COMMIT", t)' <=> Logged("DECIDE_COMMIT", t)
             /\ Logged("DECIDE_ABORT", t)' <=> Logged("DECIDE_ABORT", t)
  BY <1>2 DEF Logged
<1>8. NeverTurns /\ \A w \in Worker : DecidesRight(w)
  BY <1>2, <1>7, NothingDecided DEF Holding
<1>9. LogInv'
  BY <1>3, <1>7, LogKept
<1>10. SlotInv'
  <2>1. \A w \in Worker : \A t \in Tid : Admitted(w, t)' <=> Admitted(w, t)
    BY <1>5, NobodyAdmitted
  <2>2. QED
    BY <1>2, <2>1, ListingKept DEF SlotInv
<1>11. QED
  BY <1>4, <1>5, <1>6, <1>8, <1>9, <1>10, ServedKeeps

(* A join is refused.                                                            *)
LEMMA RefuseKeeps ==
  ASSUME SystemTypeOK, BufferInv, Signed, CommitInv, Served, NEW r \in Worker, ReadsOne(r),
         NEW m, m = Head(toM[r]), m.kind = "JOINTX", sent' = Reply(m, "JOIN_FAIL"),
         UNCHANGED <<table, mlog>>
  PROVE  CommitInv'
<1>1. OnlyMarks
  BY DEF OnlyMarks, Yes
<1>2. \A w \in Worker : Drawn(w)
  BY DEF ReadsOne, Drawn
<1>3. \A w \in Worker : TellsRight(w)
  BY PlainReply DEF ToMember
<1>4. \A w \in Worker : CountsRight(w)
  BY <1>1, <1>2, NotCounted DEF ReadsOne, Ballot
<1>5. \A t : /\ Logged("DECIDE_COMMIT", t)' <=> Logged("DECIDE_COMMIT", t)
             /\ Logged("DECIDE_ABORT", t)' <=> Logged("DECIDE_ABORT", t)
  BY DEF Logged
<1>6. NeverTurns /\ \A w \in Worker : DecidesRight(w)
  BY <1>5, NothingDecided DEF Holding
<1>7. LogInv'
  BY <1>1, <1>5, LogKept
<1>8. SlotInv'
  <2>1. \A w \in Worker : \A t \in Tid : Admitted(w, t)' <=> Admitted(w, t)
    BY <1>3, NobodyAdmitted
  <2>2. QED
    BY <2>1, ListingKept DEF SlotInv
<1>9. QED
  BY <1>2, <1>3, <1>4, <1>6, <1>7, <1>8, ServedKeeps

(* One member more.                                                              *)
LEMMA EnrolledSlot ==
  ASSUME NEW k \in Slot, NEW r, table[k].members \in Seq(Member),
         table'[k].members = Append(table[k].members, [id |-> r, voted |-> FALSE])
  PROVE  /\ In(k)' = In(k) \cup {r} /\ Yes(k)' = Yes(k)
         /\ Distinct(k) /\ r \notin In(k) => Distinct(k)'
<1> DEFINE n == Len(table[k].members)
           N == n + 1
<1>1. /\ n \in Nat /\ DOMAIN table[k].members = 1..n /\ DOMAIN table'[k].members = 1..N
      /\ \A i \in 1..n : table'[k].members[i] = table[k].members[i]
      /\ table'[k].members[N] = [id |-> r, voted |-> FALSE]
  OBVIOUS
<1>2. N \in 1..N /\ 1..n \subseteq 1..N /\ \A i \in 1..N : i \in 1..n \/ i = N
  BY <1>1
<1>3. table'[k].members[N].id = r /\ ~table'[k].members[N].voted
  BY <1>1
<1> HIDE DEF n, N
<1>4. In(k)' = In(k) \cup {r}
  BY <1>1, <1>2, <1>3 DEF In
<1>5. Yes(k)' = Yes(k)
  BY <1>1, <1>2, <1>3 DEF Yes
<1>6. ASSUME Distinct(k), r \notin In(k) PROVE Distinct(k)'
  <2>1. \A i \in 1..n : table'[k].members[i].id # r
    BY <1>1, <1>6 DEF In
  <2>2. SUFFICES ASSUME NEW i \in 1..N, NEW j \in 1..N,
                        table'[k].members[i].id = table'[k].members[j].id
                 PROVE  i = j
    BY <1>1 DEF Distinct
  <2>3. CASE i \in 1..n /\ j \in 1..n
    BY <1>1, <1>6, <2>2, <2>3 DEF Distinct
  <2>4. CASE i = N \/ j = N
    BY <1>2, <1>3, <2>1, <2>2, <2>4
  <2>5. QED
    BY <1>2, <2>3, <2>4
<1>7. QED
  BY <1>4, <1>5, <1>6

(* Who asks to join takes part in nothing, and lives.                            *)
LEMMA AskerIsFree ==
  ASSUME SystemTypeOK, CommitInv, NEW r \in Worker, toM[r] # <<>>, Head(toM[r]).kind = "JOINTX"
  PROVE  /\ Tx(r) = NoTid /\ mem[r].pc # "down" /\ left[r]["JOINTX"] = 0
         /\ Kinds(toW[r]) \cap ToMember = {}
         /\ \A t \in Tid : ~Admitted(r, t)
         /\ "JOINTX" \notin Kinds(Tail(toM[r]))
<1>1. WorkerOK(r) /\ toM[r] \in Seq(ToManager)
  BY DEF CommitInv, WorkerInv, SystemTypeOK
<1>2. Asking(r)
  BY <1>1, RangeRead DEF Asking
<1>3. left[r]["JOINTX"] = 0 /\ \A t \in Tid : ~Admitted(r, t)
  BY <1>1, <1>2 DEF WorkerOK, Admission
<1>4. Tx(r) \notin Tid
  BY <1>3 DEF Admitted
<1>5. mem[r].pc # "down"
  BY <1>1, <1>4 DEF WorkerOK, Engagement, Unsure
<1>6. mem[r].curTid \in AnyTid
  BY DEF SystemTypeOK, WorkerTypeOK, Memory
<1>7. Tx(r) = NoTid
  BY <1>4, <1>5, <1>6 DEF Tx, AnyTid
<1>8. Kinds(toW[r]) \cap ToMember = {}
  BY <1>1, <1>3 DEF WorkerOK, Admission, Kinds
<1>9. "JOINTX" \notin Kinds(Tail(toM[r]))
  BY <1>1, ReadByManager DEF WorkerOK, Admission
<1>10. QED
  BY <1>3, <1>5, <1>7, <1>8, <1>9

(* A join is accepted: the worker is listed, and will hear of it first.          *)
LEMMA AcceptKeeps ==
  ASSUME SystemTypeOK, BufferInv, Signed, FinalInv, CommitInv, Served, Spacious,
         NEW r \in Worker, ReadsOne(r), NEW m, m = Head(toM[r]), m.kind = "JOINTX",
         NEW k \in Slot, table[k].tid = m.tid, table' = Enrolled(k, m.from),
         sent' = Reply(m, "JOIN_SUCCESS"), mlog' = mlog
  PROVE  CommitInv'
<1> DEFINE t0 == m.tid
<1>1. m.from = r /\ m \in Range(toM[r]) /\ toM[r] # <<>>
  BY HeadRead DEF ReadsOne
<1>2. t0 \in Tid /\ t0 # NoTid /\ t0 \in begun /\ NoTid \notin begun
  <2>1. t0 \in Tid
    BY <1>1 DEF BufferInv, VotesBegun
  <2>2. QED
    BY <2>1, NoTidAssumption, ZeroNotBegun DEF BufferInv, SlotsBegun
<1>3. /\ Tx(r) = NoTid /\ mem[r].pc # "down" /\ left[r]["JOINTX"] = 0
      /\ Kinds(toW[r]) \cap ToMember = {}
      /\ \A t \in Tid : ~Admitted(r, t)
      /\ "JOINTX" \notin Kinds(Tail(toM[r]))
  BY <1>1, AskerIsFree
<1>4. table[k].members \in Seq(Member)
      /\ table \in [Slot -> [tid: AnyTid, isCrash: BOOLEAN, members: Seq(Member)]]
  BY DEF SystemTypeOK, MgrTypeOK
<1>5. /\ table'[k].members = Append(table[k].members, [id |-> r, voted |-> FALSE])
      /\ table'[k].tid = t0
      /\ \A j \in Slot : j # k => table'[j] = table[j]
  <2>1. table' = [table EXCEPT ![k].members = Append(@, [id |-> r, voted |-> FALSE])]
    BY <1>1 DEF Spacious, Enrolled
  <2>2. QED
    BY <1>4, <2>1
<1> HIDE DEF t0
<1>6. \A w \in Worker : Range(sent'[w]) = IF w = r THEN {Msg("JOIN_SUCCESS", t0)} ELSE {}
  BY <1>1, SentReply DEF t0
<1>7. /\ In(k)' = In(k) \cup {r} /\ Yes(k)' = Yes(k)
      /\ Distinct(k) /\ r \notin In(k) => Distinct(k)'
  BY <1>4, <1>5, EnrolledSlot
<1>8. OnlyMarks
  <2>1. \A j \in Slot : table'[j].tid = table[j].tid
    BY <1>5 DEF t0
  <2>2. ASSUME NEW j \in Slot, j # k PROVE Yes(j)' = Yes(j)
    <3>1. table'[j] = table[j]
      BY <1>5, <2>2
    <3>2. QED
      BY <3>1 DEF Yes
  <2>3. QED
    BY <1>7, <2>1, <2>2 DEF OnlyMarks
<1>9. \A t : Holding(t)' = Holding(t)
  BY <1>5 DEF Holding, t0
<1>10. \A kind, t : Logged(kind, t)' <=> Logged(kind, t)
  BY DEF Logged
<1>11. \A w \in Worker : Drawn(w)
  BY DEF ReadsOne, Drawn
<1>12. \A w \in Worker : w # r => TellsRight(w)
  BY <1>6 DEF TellsRight
<1>13. \A w \in Worker : \A t : Admitted(w, t)' <=> Admitted(w, t) \/ (w = r /\ t = t0)
  <2>1. ASSUME NEW t PROVE Admitted(r, t)' <=> Admitted(r, t) \/ t = t0
    <3>1. InWay(r, "JOIN_SUCCESS", t)' <=> InWay(r, "JOIN_SUCCESS", t) \/ t = t0
      BY <1>3, <1>6, ServedFacts DEF InWay, Msg
    <3>2. QED
      BY <3>1, ServedFacts DEF Admitted
  <2>2. QED
    BY <1>12, <2>1, NobodyAdmitted
<1>14. NeverTurns /\ \A w \in Worker : DecidesRight(w)
  BY <1>9, <1>10, NothingDecided
<1>15. \A w \in Worker : CountsRight(w)
  BY <1>8, <1>11, NotCounted DEF ReadsOne, Ballot
<1>16. WorkerOK(r)'
  <2>1. WorkerOK(r)
    BY DEF CommitInv, WorkerInv
  <2>2. /\ Tx(r)' = Tx(r) /\ Unsure(r)' = Unsure(r) /\ LastRecord(r)' = LastRecord(r)
        /\ \A kind, t : Wrote(r, kind, t)' <=> Wrote(r, kind, t)
        /\ \A t : Prepared(r, t)' <=> Prepared(r, t)
        /\ Range(toW'[r]) = Range(toW[r]) \cup Range(sent'[r])
    BY <1>3, ServedFacts
  <2>3. UNCHANGED <<mem, joinedAt, left>> /\ begun \subseteq begun'
    BY DEF Served
  <2>4. Range(toM'[r]) \subseteq Range(toM[r]) /\ AskedOnce(toM'[r])
    BY <1>11, <2>1, DrawnRest DEF WorkerOK, Admission
  <2>5. \A e \in Range(toW'[r]) : e \in Range(toW[r]) \/ e = Msg("JOIN_SUCCESS", t0)
    BY <1>6, <2>2
  <2>6. Admission(r)'
    <3>1. ~Asking(r)'
      BY <1>3 DEF Asking, ReadsOne, Kinds
    <3>2. AcceptedFirst(toW'[r])
      <4>1. toW[r] \in Seq(ToWorker) /\ sent'[r] \in Seq(ToWorker) /\ toW'[r] = toW[r] \o sent'[r]
        BY <1>3 DEF SystemTypeOK, Served
      <4>2. Len(sent'[r]) = 1
        BY <1>1 DEF Reply
      <4>3. AcceptedFirst(toW[r])
        BY <2>1 DEF WorkerOK, Admission
      <4>4. QED
        BY <1>3, <4>1, <4>2, <4>3, SentToWorker
    <3>3. \A e \in Range(toW'[r]) : /\ e.kind \in ToMember => e.tid \in Tid /\ Admitted(r, e.tid)'
                                    /\ e.kind = "JOIN_SUCCESS" => Tx(r)' = NoTid
      <4>1. \A e \in Range(toW[r]) : e.kind \notin ToMember
        BY <1>3 DEF Kinds
      <4>2. Msg("JOIN_SUCCESS", t0).tid = t0
        BY DEF Msg
      <4>3. QED
        BY <1>2, <1>3, <1>13, <2>2, <2>5, <4>1, <4>2 DEF ToMember
    <3>4. \A t \in Tid : Admitted(r, t)' => left'[r]["JOINTX"] = 0 /\ t \in begun'
      BY <1>2, <1>3, <1>13, <2>3
    <3>5. QED
      BY <1>3, <2>3, <2>4, <3>1, <3>2, <3>3, <3>4 DEF Admission
  <2>7. Engagement(r)'
    BY <1>3, <2>1, <2>2, <2>3, <2>4 DEF WorkerOK, Engagement
  <2>8. Votes(r)'
    <3>1. \A t \in Tid : InWay(r, "PREPARE_COMMIT", t)' => Logged("COMMIT_REQ", t)'
      BY <1>10, <2>1, <2>5 DEF WorkerOK, Votes, InWay, Msg
    <3>2. \A e \in Range(toM'[r]) : e.kind = "VOTE_COMMIT" => Consents(r, e.tid)'
      BY <1>10, <2>1, <2>2, <2>4 DEF WorkerOK, Votes, Consents
    <3>3. QED
      BY <1>3, <2>2, <3>1, <3>2, NoTidAssumption DEF Votes
  <2>9. Verdict(r)'
    <3>1. \A t \in Tid : Admitted(r, t)' => t = t0
      BY <1>3, <1>13
    <3>2. Holding(t0) # {} /\ ~Logged("DECIDE_COMMIT", t0)
      BY <1>2 DEF Holding, FinalInv, CommitRetired, t0
    <3>3. \A t \in Tid : /\ Hears(r, "DECIDE_COMMIT", t)' => Hears(r, "DECIDE_COMMIT", t)
                         /\ Hears(r, "DECIDE_ABORT", t)' => Hears(r, "DECIDE_ABORT", t)
      BY <2>2, <2>5 DEF Hears, InWay, Msg
    <3>4. QED
      BY <1>9, <1>10, <2>1, <3>1, <3>2, <3>3 DEF WorkerOK, Verdict
  <2>10. QED
    BY <2>6, <2>7, <2>8, <2>9 DEF WorkerOK
<1>17. WorkerInv'
  <2>1. ASSUME NEW w \in Worker, w # r PROVE WorkerOK(w)'
    BY <1>11, <1>12, <1>14, <1>15, <2>1, ServedWorker
  <2>2. QED
    BY <1>16, <2>1 DEF WorkerInv
<1>18. LogInv'
  BY <1>8, <1>10, LogKept
<1>19. SlotInv'
  <2>1. ASSUME NEW j \in Slot, j # k PROVE Listing(j)'
    <3>1. table[j].tid # t0
      BY <1>2, <2>1 DEF FinalInv, SlotsDistinct, t0
    <3>2. QED
      BY <1>5, <1>13, <2>1, <3>1, ListingKept
  <2>2. Listing(k)'
    <3>1. Listing(k) /\ Yes(k) \subseteq In(k) /\ In(k) \subseteq Worker
      BY SlotTypes DEF CommitInv, SlotInv
    <3>2. r \notin In(k)
      BY <1>2, <1>3, <3>1 DEF Listing, t0
    <3>3. Distinct(k)' /\ In(k)' # Yes(k)'
      BY <1>7, <3>1, <3>2 DEF Listing
    <3>4. \A w \in Worker : w \in In(k)' <=> Admitted(w, t0)'
      BY <1>2, <1>7, <1>13, <3>1 DEF Listing, t0
    <3>5. \A w \in Yes(k)' : Consents(w, t0)'
      <4>1. ASSUME NEW w \in Yes(k) PROVE Consents(w, t0)'
        <5>1. w \in Worker /\ Consents(w, t0)
          BY <3>1 DEF Listing, t0
        <5>2. QED
          BY <5>1, ServedFacts DEF Consents
      <4>2. QED
        BY <1>7, <4>1
    <3>6. QED
      BY <1>2, <1>5, <3>3, <3>4, <3>5 DEF Listing
  <2>3. QED
    BY <2>1, <2>2 DEF SlotInv
<1>20. QED
  BY <1>17, <1>18, <1>19 DEF CommitInv, Served, Running

(* One mark more.  A slot is unanimous when all its members are marked.          *)
LEMMA VotedSlotFacts ==
  ASSUME NEW k \in Slot, NEW m, table[k].members \in Seq(Member), Distinct(k),
         NEW s, s = VotedSlot(k, m).members
  PROVE  /\ (\A j \in DOMAIN s : s[j].voted) <=> In(k) \subseteq Yes(k) \cup {m.from}
         /\ table'[k].members = s =>
              In(k)' = In(k) /\ Yes(k)' = Yes(k) \cup ({m.from} \cap In(k)) /\ Distinct(k)'
<1> DEFINE q == table[k].members
           w == m.from
<1>1. DOMAIN q = 1..Len(q) /\ \A j \in DOMAIN q : q[j] \in Member
  OBVIOUS
<1>2. DOMAIN VotedSlot(k, m).members = DOMAIN q
      /\ \A j \in DOMAIN q : VotedSlot(k, m).members[j] = Voted(q, w)[j]
  <2>1. table[k].members = q
    OBVIOUS
  <2>2. VotedSlot(k, m).members = Voted(q, w)
    BY DEF VotedSlot
  <2>3. QED
    BY <2>2 DEF Voted
<1>3. ASSUME NEW j \in DOMAIN q
      PROVE  s[j].id = q[j].id /\ (s[j].voted <=> q[j].voted \/ q[j].id = w)
  <2>1. s[j] = Voted(q, w)[j]
    BY <1>2
  <2>2. CASE q[j].id = w
    <3>1. \A i \in 1..(j - 1) : i \in DOMAIN q /\ i # j
      BY <1>1
    <3>2. \A i \in 1..(j - 1) : q[i].id # w
      BY <2>2, <3>1 DEF Distinct
    <3>3. s[j] = [q[j] EXCEPT !.voted = TRUE]
      BY <2>1, <2>2, <3>2 DEF Voted
    <3>4. QED
      BY <1>1, <2>2, <3>3 DEF Member
  <2>3. CASE q[j].id # w
    BY <2>1, <2>3 DEF Voted
  <2>4. QED
    BY <2>2, <2>3
<1>4. DOMAIN s = DOMAIN q
  BY <1>2
<1> HIDE DEF w
<1>5. (\A j \in DOMAIN s : s[j].voted) <=> In(k) \subseteq Yes(k) \cup {w}
  <2>1. ASSUME \A j \in DOMAIN s : s[j].voted PROVE In(k) \subseteq Yes(k) \cup {w}
    BY <1>3, <1>4, <2>1 DEF In, Yes
  <2>2. ASSUME In(k) \subseteq Yes(k) \cup {w}, NEW j \in DOMAIN s PROVE s[j].voted
    <3>1. q[j].id \in Yes(k) \/ q[j].id = w
      BY <1>4, <2>2 DEF In
    <3>2. q[j].id \in Yes(k) => q[j].voted
      BY <1>4, <2>2 DEF Yes, Distinct
    <3>3. QED
      BY <1>3, <1>4, <2>2, <3>1, <3>2
  <2>3. QED
    BY <2>1, <2>2
<1>6. ASSUME table'[k].members = s
      PROVE  In(k)' = In(k) /\ Yes(k)' = Yes(k) \cup ({w} \cap In(k)) /\ Distinct(k)'
  <2>1. DOMAIN table'[k].members = DOMAIN q
    BY <1>4, <1>6
  <2>2. \A j \in DOMAIN q : /\ table'[k].members[j].id = q[j].id
                            /\ table'[k].members[j].voted <=> q[j].voted \/ q[j].id = w
    BY <1>3, <1>6
  <2>3. In(k)' = In(k)
    BY <2>1, <2>2 DEF In
  <2>4. Distinct(k)'
    BY <2>1, <2>2 DEF Distinct
  <2>5. Yes(k)' = Yes(k) \cup ({w} \cap In(k))
    BY <2>1, <2>2 DEF Yes, In
  <2>6. QED
    BY <2>3, <2>4, <2>5
<1>7. QED
  BY <1>5, <1>6 DEF w

(* Who votes or polls takes part in what it votes on, and is a member while the  *)
(* transaction has a slot.                                                       *)
LEMMA VoterListed ==
  ASSUME SystemTypeOK, BufferInv, Signed, CommitInv, NEW r \in Worker, toM[r] # <<>>,
         NEW m, m = Head(toM[r]), m.kind \in Followup,
         NEW k \in 0..MaxTrans, FirstHolding(m.tid, k)
  PROVE  /\ m \in ToManager /\ m.from = r
         /\ Tx(r) = m.tid /\ m.tid \in Tid /\ m.tid # NoTid /\ Admitted(r, m.tid) /\ m.tid \in begun
         /\ m.kind = "VOTE_COMMIT" => Consents(r, m.tid)
         /\ m.kind = "POLL_DECISION" => Marked(r)
         /\ k = 0 => Holding(m.tid) = {}
         /\ k # 0 => /\ k \in Slot /\ table[k].tid = m.tid /\ r \in In(k)
                     /\ table[k].members # <<>> /\ table[k].members \in Seq(Member)
<1>1. m \in ToManager /\ m.from = r /\ m \in Range(toM[r]) /\ WorkerOK(r) /\ toM[r] \in Seq(ToManager)
  BY HeadRead DEF CommitInv, WorkerInv, SystemTypeOK
<1>2. Tx(r) = m.tid /\ m.tid \in Tid /\ m.tid # NoTid
  BY <1>1, NoTidAssumption DEF WorkerOK, Engagement
<1>3. Admitted(r, m.tid) /\ m.tid \in begun
  BY <1>1, <1>2 DEF Admitted, WorkerOK, Admission
<1>4. m.kind = "VOTE_COMMIT" => Consents(r, m.tid)
  BY <1>1 DEF WorkerOK, Votes
<1>5. m.kind = "POLL_DECISION" => Marked(r)
  BY <1>1, <1>2, ReadByManager DEF WorkerOK, Votes
<1>6. 0 \notin Slot
  BY DEF Slot
<1>7. k = 0 => Holding(m.tid) = {}
  BY <1>6 DEF FirstHolding, IsFirst, Holding
<1>8. ASSUME k # 0
      PROVE  /\ k \in Slot /\ table[k].tid = m.tid /\ r \in In(k)
             /\ table[k].members # <<>> /\ table[k].members \in Seq(Member)
  <2>1. k \in Holding(m.tid)
    BY <1>8 DEF FirstHolding, IsFirst
  <2>2. k \in Slot /\ table[k].tid = m.tid
    BY <2>1 DEF Holding
  <2>3. r \in In(k)
    BY <1>2, <1>3, <2>2 DEF CommitInv, SlotInv, Listing
  <2>4. table[k].members # <<>>
    BY <2>3 DEF In
  <2>5. QED
    BY <2>2, <2>3, <2>4, SlotTypes
<1>9. QED
  BY <1>1, <1>2, <1>3, <1>4, <1>5, <1>7, <1>8

(* A transaction is decided: its slot is freed, its members are told.            *)
LEMMA RetireKeeps ==
  ASSUME SystemTypeOK, BufferInv, FinalInv, CommitInv, Served,
         NEW t \in AnyTid, NEW d \in {"DECIDE_COMMIT", "DECIDE_ABORT"},
         mlog' = mlog \cup {[kind |-> d, tid |-> t]}, sent' = Broadcast(t, d),
         \A j \in Slot : table'[j] = table[j] \/ (table[j].tid = t /\ table'[j] = Free),
         t \in Tid => t \in begun /\ Holding(t)' = {},
         d = "DECIDE_COMMIT" => /\ \A w \in Worker : Admitted(w, t) => Prepared(w, t)
                                /\ Logged("COMMIT_REQ", t) /\ ~Logged("DECIDE_ABORT", t),
         \A w \in Worker : Drawn(w),
         \A w \in Worker : toM'[w] # toM[w] => Head(toM[w]).kind \notin Ballot \/ Tx(w) = t
  PROVE  CommitInv'
<1>1. NoTid \notin begun
  BY ZeroNotBegun
<1>2. OnlyMarks
  <2>1. ASSUME NEW j \in Slot, table'[j] = table[j] PROVE Yes(j)' = Yes(j)
    BY <2>1 DEF Yes
  <2>2. QED
    BY <1>1, <2>1 DEF OnlyMarks, Free
<1>3. \A kind, u : Logged(kind, u)' <=> Logged(kind, u) \/ (kind = d /\ u = t)
  BY DEF Logged
<1>4. ASSUME NEW w \in Worker PROVE TellsRight(w)
  <2>1. ASSUME NEW e \in Range(sent'[w])
        PROVE  /\ e.kind = d /\ e.tid = t /\ t \in Tid /\ Admitted(w, t)
               /\ d = "DECIDE_ABORT" => ~Logged("DECIDE_COMMIT", t)'
    <3>1. e = Msg(d, t) /\ t \in Tid /\ Admitted(w, t) /\ Holding(t) # {}
      BY BroadcastAdmitted
    <3>2. ~Logged("DECIDE_COMMIT", t)
      BY <3>1, NoTidAssumption DEF FinalInv, CommitRetired, Holding
    <3>3. QED
      BY <1>3, <3>1, <3>2 DEF Msg
  <2>2. QED
    BY <1>3, <2>1 DEF TellsRight
<1>5. ASSUME NEW w \in Worker PROVE CountsRight(w)
  <2>1. CASE Tx(w) = t
    <3>1. Tx(w)' = t
      BY <2>1, ServedFacts
    <3>2. Tx(w) \in Tid => Marked(w)'
      BY <2>1, <3>1 DEF Marked
    <3>3. QED
      BY <3>2, VoteCounted
  <2>2. CASE Tx(w) # t
    BY <1>2, <2>2, NotCounted
  <2>3. QED
    BY <2>1, <2>2
<1>6. ASSUME NEW w \in Worker PROVE DecidesRight(w)
  <2>1. SUFFICES ASSUME NEW u \in Tid, Admitted(w, u)
                 PROVE  /\ Holding(u)' = {} => Logged("DECIDE_COMMIT", u)' \/ Logged("DECIDE_ABORT", u)'
                        /\ Logged("DECIDE_COMMIT", u)' => Prepared(w, u)
    BY DEF DecidesRight
  <2>2. Verdict(w)
    BY DEF CommitInv, WorkerInv, WorkerOK
  <2>3. CASE u = t
    BY <1>3, <2>1, <2>2, <2>3 DEF Verdict
  <2>4. CASE u # t
    <3>1. Holding(u)' = {} => Holding(u) = {}
      BY <2>4 DEF Holding
    <3>2. QED
      BY <1>3, <2>1, <2>2, <2>4, <3>1 DEF Verdict
  <2>5. QED
    BY <2>3, <2>4
<1>7. NeverTurns
  BY <1>3 DEF NeverTurns
<1>8. LogInv'
  BY <1>2, <1>3, LogKept
<1>9. SlotInv'
  <2>1. \A w \in Worker : \A u \in Tid : Admitted(w, u)' <=> Admitted(w, u)
    BY <1>4, NobodyAdmitted
  <2>2. QED
    BY <2>1, ListingKept DEF SlotInv
<1>10. QED
  BY <1>4, <1>5, <1>6, <1>7, <1>8, <1>9, ServedKeeps

(* A question about a transaction that is gone is answered by the log.           *)
LEMMA AnswerKeeps ==
  ASSUME SystemTypeOK, BufferInv, CommitInv, Served, NEW r \in Worker, ReadsOne(r),
         UNCHANGED <<table, mlog>>, Holding(Tx(r)) = {}, \A w \in Worker : TellsRight(w)
  PROVE  CommitInv'
<1>1. OnlyMarks /\ \A t : Holding(t)' = Holding(t)
  BY DEF OnlyMarks, Yes, Holding
<1>2. \A w \in Worker : Drawn(w)
  BY DEF ReadsOne, Drawn
<1>3. ASSUME NEW w \in Worker PROVE CountsRight(w)
  <2>1. CASE w # r
    BY <1>1, <1>2, <2>1, NotCounted DEF ReadsOne
  <2>2. CASE w = r
    <3>1. Tx(r)' = Tx(r)
      BY ServedFacts
    <3>2. Marked(r)'
      BY <1>1, <3>1 DEF Marked
    <3>3. QED
      BY <2>2, <3>2, VoteCounted
  <2>3. QED
    BY <2>1, <2>2
<1>4. \A t : /\ Logged("DECIDE_COMMIT", t)' <=> Logged("DECIDE_COMMIT", t)
             /\ Logged("DECIDE_ABORT", t)' <=> Logged("DECIDE_ABORT", t)
  BY DEF Logged
<1>5. NeverTurns /\ \A w \in Worker : DecidesRight(w)
  BY <1>1, <1>4, NothingDecided
<1>6. LogInv'
  BY <1>1, <1>4, LogKept
<1>7. SlotInv'
  <2>1. \A w \in Worker : \A t \in Tid : Admitted(w, t)' <=> Admitted(w, t)
    BY NobodyAdmitted
  <2>2. QED
    BY <2>1, ListingKept DEF SlotInv
<1>8. QED
  BY <1>2, <1>3, <1>5, <1>6, <1>7, ServedKeeps

(* A vote is counted, and others are waited for.                                 *)
LEMMA CountKeeps ==
  ASSUME SystemTypeOK, BufferInv, Signed, FinalInv, CommitInv, Served,
         NEW r \in Worker, ReadsOne(r), NEW m, m = Head(toM[r]),
         m.kind \in {"POLL_DECISION", "VOTE_COMMIT"},
         NEW k \in Slot, FirstHolding(m.tid, k), StillWaiting(m, k)
  PROVE  CommitInv'
<1> DEFINE s == VotedSlot(k, m).members
<1>1. k \in 0..MaxTrans /\ k # 0 /\ m.kind \in Followup /\ toM[r] # <<>>
  BY SizesAssumption DEF Slot, Followup, Ballot, ReadsOne
<1>2. /\ m.from = r /\ Tx(r) = m.tid /\ m.tid \in Tid /\ m.tid # NoTid
      /\ m.kind = "VOTE_COMMIT" => Consents(r, m.tid)
      /\ m.kind = "POLL_DECISION" => Marked(r)
      /\ table[k].tid = m.tid /\ r \in In(k)
      /\ table[k].members # <<>> /\ table[k].members \in Seq(Member)
  BY <1>1, VoterListed
<1>3. table' = WithSlot(k, VotedSlot(k, m)) /\ mlog' = mlog /\ sent' = Silence
  BY <1>1 DEF StillWaiting, Counted
<1>4. table'[k] = VotedSlot(k, m) /\ \A j \in Slot : j # k => table'[j] = table[j]
  BY <1>3 DEF WithSlot
<1>5. VotedSlot(k, m).tid = table[k].tid
  <2>1. table[k] \in [tid: AnyTid, isCrash: BOOLEAN, members: Seq(Member)]
    BY DEF SystemTypeOK, MgrTypeOK
  <2>2. QED
    BY <2>1 DEF VotedSlot
<1>6. Listing(k)
  BY DEF CommitInv, SlotInv
<1>7. table'[k].members = s /\ Distinct(k)
  BY <1>4, <1>6 DEF Listing
<1>8. ~(\A j \in DOMAIN s : s[j].voted)
  <2>1. Verdicts(k, m) = {IF \A j \in DOMAIN s : s[j].voted THEN "DECIDE_COMMIT" ELSE "WAIT"}
    BY <1>1, <1>2 DEF Verdicts
  <2>2. "WAIT" \in Verdicts(k, m)
    BY DEF StillWaiting
  <2> HIDE DEF s
  <2>3. QED
    BY <2>1, <2>2
<1> HIDE DEF s
<1>9. /\ ~(In(k) \subseteq Yes(k) \cup {r})
      /\ In(k)' = In(k) /\ Yes(k)' = Yes(k) \cup {r} /\ Distinct(k)'
  <2>1. /\ (\A j \in DOMAIN s : s[j].voted) <=> In(k) \subseteq Yes(k) \cup {m.from}
        /\ table'[k].members = s =>
              In(k)' = In(k) /\ Yes(k)' = Yes(k) \cup ({m.from} \cap In(k)) /\ Distinct(k)'
    BY <1>2, <1>7, VotedSlotFacts DEF s
  <2>2. QED
    BY <1>2, <1>7, <1>8, <2>1
<1>10. OnlyMarks /\ \A t : Holding(t)' = Holding(t)
  <2>1. \A j \in Slot : table'[j].tid = table[j].tid
    BY <1>4, <1>5
  <2>2. \A j \in Slot : j # k => Yes(j)' = Yes(j)
    BY <1>4 DEF Yes
  <2>3. QED
    BY <1>9, <2>1, <2>2 DEF OnlyMarks, Holding
<1>11. \A w \in Worker : Drawn(w)
  BY DEF ReadsOne, Drawn
<1>12. \A w \in Worker : TellsRight(w)
  <2>1. \A w \in Worker : sent'[w] = <<>>
    BY <1>3 DEF Silence
  <2>2. QED
    BY <2>1, RangeEmpty DEF TellsRight
<1>13. ASSUME NEW w \in Worker PROVE CountsRight(w)
  <2>1. CASE w # r
    BY <1>10, <1>11, <2>1, NotCounted DEF ReadsOne
  <2>2. CASE w = r
    <3>1. Tx(r)' = m.tid
      BY <1>2, ServedFacts
    <3>2. \A j \in Holding(m.tid) : j = k
      BY <1>2 DEF Holding, FinalInv, SlotsDistinct
    <3>3. Marked(r)'
      BY <1>9, <1>10, <3>1, <3>2 DEF Marked
    <3>4. QED
      BY <2>2, <3>3, VoteCounted
  <2>3. QED
    BY <2>1, <2>2
<1>14. \A kind, t : Logged(kind, t)' <=> Logged(kind, t)
  BY <1>3 DEF Logged
<1>15. NeverTurns /\ \A w \in Worker : DecidesRight(w)
  BY <1>10, <1>14, NothingDecided
<1>16. LogInv'
  BY <1>10, <1>14, LogKept
<1>17. \A w \in Worker : \A t \in Tid : Admitted(w, t)' <=> Admitted(w, t)
  BY <1>12, NobodyAdmitted
<1>18. SlotInv'
  <2>1. ASSUME NEW j \in Slot, j # k PROVE Listing(j)'
    BY <1>4, <1>17, <2>1, ListingKept
  <2>2. Listing(k)'
    <3>1. table'[k].tid = m.tid
      BY <1>2, <1>4, <1>5
    <3>2. \A w \in Worker : w \in In(k)' <=> Admitted(w, m.tid)'
      BY <1>2, <1>6, <1>9, <1>17 DEF Listing
    <3>3. Consents(r, m.tid)
      <4>1. CASE m.kind = "VOTE_COMMIT"
        BY <1>2, <4>1
      <4>2. CASE m.kind = "POLL_DECISION"
        <5>1. r \in Yes(k)
          BY <1>2, <4>2 DEF Marked, Holding
        <5>2. QED
          BY <1>2, <1>6, <5>1 DEF Listing
      <4>3. QED
        BY <4>1, <4>2
    <3>4. ASSUME NEW w \in Yes(k)' PROVE Consents(w, m.tid)'
      <4>1. w \in Worker /\ Consents(w, m.tid)
        BY <1>2, <1>6, <1>9, <3>3, <3>4, SlotTypes DEF Listing
      <4>2. QED
        BY <1>14, <4>1, ServedFacts DEF Consents
    <3>5. In(k)' # Yes(k)'
      BY <1>9
    <3>6. QED
      BY <1>2, <1>9, <3>1, <3>2, <3>4, <3>5 DEF Listing
  <2>3. QED
    BY <2>1, <2>2 DEF SlotInv
<1>19. QED
  BY <1>11, <1>12, <1>13, <1>15, <1>16, <1>18, ServedKeeps

(* Freeing the first slot of a transaction leaves it none.                       *)
LEMMA CleanedSlots ==
  ASSUME SystemTypeOK, FinalInv, NEW t \in AnyTid, NEW k \in 0..MaxTrans, FirstHolding(t, k),
         table' = Cleaned(k)
  PROVE  /\ \A j \in Slot : table'[j] = table[j] \/ (table[j].tid = t /\ table'[j] = Free)
         /\ t \in Tid => Holding(t)' = {}
<1>1. 0 \notin Slot /\ \A j \in Slot : table'[j] = IF j = k THEN Free ELSE table[j]
  BY DEF Slot, Cleaned, WithSlot
<1>2. k \in Slot => table[k].tid = t
  BY <1>1 DEF FirstHolding, IsFirst, Holding
<1>3. ASSUME t \in Tid, NEW j \in Slot, table'[j].tid = t PROVE FALSE
  <2>1. t # NoTid
    BY <1>3, NoTidAssumption
  <2>2. j # k /\ table[j].tid = t
    BY <1>1, <1>3, <2>1 DEF Free
  <2>3. Holding(t) # {}
    BY <2>2 DEF Holding
  <2>4. k \in Holding(t)
    BY <2>3 DEF FirstHolding, IsFirst
  <2>5. k \in Slot /\ table[k].tid = t
    BY <2>4 DEF Holding
  <2>6. QED
    BY <2>1, <2>2, <2>5 DEF FinalInv, SlotsDistinct
<1>4. QED
  BY <1>1, <1>2, <1>3 DEF Holding

(* A vote to commit, or a poll.                                                  *)
LEMMA VoteCommitKeeps ==
  ASSUME SystemTypeOK, BufferInv, Signed, FinalInv, CommitInv, Served,
         NEW r \in Worker, ReadsOne(r), NEW m, m = Head(toM[r]), MgrVoteCommit(m)
  PROVE  CommitInv'
<1>1. PICK k \in 0..MaxTrans :
        /\ FirstHolding(m.tid, k)
        /\ \/ StillWaiting(m, k)
           \/ AnswerAbort(m, k)
           \/ AnswerCommit(m, k)
           \/ DecideCommit(m, k)
  BY DEF MgrVoteCommit
<1>2. m.kind \in {"POLL_DECISION", "VOTE_COMMIT"} /\ m.kind \in Followup /\ toM[r] # <<>>
  BY DEF MgrVoteCommit, Followup, Ballot, ReadsOne
<1>3. /\ m \in ToManager /\ m.from = r
      /\ Tx(r) = m.tid /\ m.tid \in Tid /\ m.tid # NoTid /\ Admitted(r, m.tid) /\ m.tid \in begun
      /\ m.kind = "VOTE_COMMIT" => Consents(r, m.tid)
      /\ m.kind = "POLL_DECISION" => Marked(r)
      /\ k = 0 => Holding(m.tid) = {}
      /\ k # 0 => /\ k \in Slot /\ table[k].tid = m.tid /\ r \in In(k)
                  /\ table[k].members # <<>> /\ table[k].members \in Seq(Member)
  <2>1. FirstHolding(m.tid, k) /\ m.kind \in Followup /\ toM[r] # <<>>
    BY <1>1, <1>2
  <2>2. QED
    BY <2>1, VoterListed
<1>4. m.tid \in AnyTid
  BY <1>3 DEF AnyTid
<1>5. CASE k = 0
  <2>1. Counted(k, m) = table /\ ~CrashAsked(k, m)
    BY <1>5 DEF Counted, CrashAsked
  <2>2. Cleaned(k) = table
    <3>1. \A j \in Slot : j # 0
      BY DEF Slot
    <3>2. table = [j \in Slot |-> table[j]]
      BY DEF SystemTypeOK, MgrTypeOK
    <3>3. Cleaned(0) = [j \in Slot |-> table[j]]
      BY <3>1 DEF Cleaned, WithSlot
    <3>4. QED
      BY <1>5, <3>2, <3>3
  <2>3. Holding(Tx(r)) = {}
    BY <1>3, <1>5
  <2>4. Verdicts(k, m) = {IF Logged("DECIDE_COMMIT", m.tid) THEN "DECIDE_COMMIT" ELSE "DECIDE_ABORT"}
    BY <1>5 DEF Verdicts
  <2>5. \A kind, t : mlog' = mlog => (Logged(kind, t)' <=> Logged(kind, t))
    BY DEF Logged
  <2>6. ASSUME NEW kind, kind \in {"DECIDE_COMMIT", "DECIDE_ABORT"}, sent' = Reply(m, kind),
               Logged(kind, m.tid)', kind = "DECIDE_ABORT" => ~Logged("DECIDE_COMMIT", m.tid)'
        PROVE  \A w \in Worker : TellsRight(w)
    <3>1. ASSUME NEW w \in Worker, NEW e \in Range(sent'[w])
          PROVE  e.kind = kind /\ e.tid = m.tid /\ w = r
      <4>1. Range(sent'[w]) = IF w = m.from THEN {Msg(kind, m.tid)} ELSE {}
        BY <2>6, SentReply
      <4>2. e = Msg(kind, m.tid) /\ w = m.from
        BY <3>1, <4>1
      <4>3. QED
        BY <1>3, <4>2 DEF Msg
    <3>2. QED
      BY <1>3, <2>6, <3>1 DEF TellsRight
  <2>7. CASE StillWaiting(m, k)
    BY <2>4, <2>7 DEF StillWaiting
  <2>8. CASE AnswerAbort(m, k)
    <3>1. ~Logged("DECIDE_COMMIT", m.tid) /\ sent' = Reply(m, "DECIDE_ABORT")
          /\ table' = table /\ mlog' = mlog
      BY <2>1, <2>4, <2>8 DEF AnswerAbort
    <3>2. Logged("DECIDE_ABORT", m.tid)
      BY <1>3, <2>3, <3>1 DEF CommitInv, WorkerInv, WorkerOK, Verdict
    <3>3. QED
      BY <2>3, <2>5, <2>6, <3>1, <3>2, AnswerKeeps
  <2>9. CASE AnswerCommit(m, k)
    <3>1. Logged("DECIDE_COMMIT", m.tid) /\ sent' = Reply(m, "DECIDE_COMMIT")
          /\ table' = table /\ mlog' = mlog
      BY <2>1, <2>4, <2>9 DEF AnswerCommit
    <3>2. QED
      BY <2>3, <2>5, <2>6, <3>1, AnswerKeeps
  <2>10. CASE DecideCommit(m, k)
    <3>1. Logged("DECIDE_COMMIT", m.tid)
      BY <2>4, <2>10 DEF DecideCommit
    <3>2. /\ mlog' = mlog \cup {[kind |-> "DECIDE_COMMIT", tid |-> m.tid]}
          /\ sent' = Broadcast(m.tid, "DECIDE_COMMIT") /\ table' = Cleaned(k)
      BY <2>1, <2>10 DEF DecideCommit, Decide
    <3>3. mlog' = mlog /\ table' = table
      BY <2>2, <3>1, <3>2 DEF Logged
    <3>4. \A w \in Worker : TellsRight(w)
      <4>1. ASSUME NEW w \in Worker, NEW e \in Range(sent'[w]) PROVE FALSE
        BY <1>3, <1>4, <1>5, <3>2, BroadcastAdmitted
      <4>2. QED
        BY <4>1 DEF TellsRight
    <3>5. QED
      BY <2>3, <3>3, <3>4, AnswerKeeps
  <2>11. QED
    BY <1>1, <2>7, <2>8, <2>9, <2>10
<1>6. CASE k # 0
  <2> DEFINE s == VotedSlot(k, m).members
  <2>1. /\ k \in Slot /\ table[k].tid = m.tid /\ r \in In(k)
        /\ table[k].members # <<>> /\ table[k].members \in Seq(Member)
    BY <1>3, <1>6
  <2>2. Listing(k)
    BY <2>1 DEF CommitInv, SlotInv
  <2>3. (\A j \in DOMAIN s : s[j].voted) <=> In(k) \subseteq Yes(k) \cup {r}
    <3>1. (\A j \in DOMAIN s : s[j].voted) <=> In(k) \subseteq Yes(k) \cup {m.from}
      BY <2>1, <2>2, VotedSlotFacts DEF Listing
    <3>2. QED
      BY <1>3, <3>1
  <2>4. Verdicts(k, m) = {IF \A j \in DOMAIN s : s[j].voted THEN "DECIDE_COMMIT" ELSE "WAIT"}
    BY <1>6, <2>1 DEF Verdicts
  <2> HIDE DEF s
  <2>5. CASE StillWaiting(m, k)
    BY <1>1, <1>2, <2>1, <2>5, CountKeeps
  <2>6. CASE AnswerAbort(m, k)
    BY <2>4, <2>6 DEF AnswerAbort
  <2>7. CASE AnswerCommit(m, k)
    <3>1. m.kind = "POLL_DECISION" /\ In(k) \subseteq Yes(k) \cup {r}
      BY <2>3, <2>4, <2>7 DEF AnswerCommit
    <3>2. r \in Yes(k)
      BY <1>3, <2>1, <3>1 DEF Marked, Holding
    <3>3. In(k) = Yes(k)
      BY <2>1, <3>1, <3>2, SlotTypes
    <3>4. QED
      BY <2>1, <2>2, <3>3 DEF Listing
  <2>8. CASE DecideCommit(m, k)
    <3>1. m.kind = "VOTE_COMMIT" /\ In(k) \subseteq Yes(k) \cup {r}
      BY <2>3, <2>4, <2>8 DEF DecideCommit
    <3>2. /\ mlog' = mlog \cup {[kind |-> "DECIDE_COMMIT", tid |-> m.tid]}
          /\ sent' = Broadcast(m.tid, "DECIDE_COMMIT") /\ table' = Cleaned(k)
      BY <2>8 DEF DecideCommit, Decide, Served
    <3>3. Consents(r, m.tid)
      BY <1>3, <3>1
    <3>4. ASSUME NEW w \in Worker, Admitted(w, m.tid) PROVE Prepared(w, m.tid)
      <4>1. w \in In(k)
        BY <1>3, <2>1, <2>2, <3>4 DEF Listing
      <4>2. w \in Yes(k) \/ w = r
        BY <3>1, <4>1
      <4>3. QED
        BY <2>1, <2>2, <3>3, <4>2 DEF Listing, Consents
    <3>5. ~Logged("DECIDE_ABORT", m.tid)
      BY <1>3, <2>1 DEF CommitInv, LogInv, Holding
    <3>6. /\ \A j \in Slot : table'[j] = table[j] \/ (table[j].tid = m.tid /\ table'[j] = Free)
          /\ Holding(m.tid)' = {}
      BY <1>1, <1>3, <1>4, <3>2, CleanedSlots
    <3>7. /\ \A w \in Worker : Drawn(w)
          /\ \A w \in Worker : toM'[w] # toM[w] => Tx(w) = m.tid
      BY <1>3 DEF ReadsOne, Drawn
    <3>8. Logged("COMMIT_REQ", m.tid)
      BY <3>3 DEF Consents
    <3>9. QED
      BY <1>3, <1>4, <3>2, <3>4, <3>5, <3>6, <3>7, <3>8, RetireKeeps
  <2>9. QED
    BY <1>1, <2>5, <2>6, <2>7, <2>8
<1>7. QED
  BY <1>5, <1>6

(* A vote to abort.                                                              *)
LEMMA VoteAbortKeeps ==
  ASSUME SystemTypeOK, BufferInv, Signed, FinalInv, CommitInv, Served,
         NEW r \in Worker, ReadsOne(r), NEW m, m = Head(toM[r]), MgrVoteAbort(m)
  PROVE  CommitInv'
<1>1. PICK k \in 0..MaxTrans : FirstHolding(m.tid, k) /\ Decide(m, k, "DECIDE_ABORT")
  BY DEF MgrVoteAbort
<1>2. m.kind \in Followup /\ toM[r] # <<>>
  BY DEF MgrVoteAbort, Followup, Ballot, ReadsOne
<1>3. Tx(r) = m.tid /\ m.tid \in Tid /\ m.tid \in begun
  BY <1>1, <1>2, VoterListed
<1>4. /\ mlog' = mlog \cup {[kind |-> "DECIDE_ABORT", tid |-> m.tid]}
      /\ sent' = Broadcast(m.tid, "DECIDE_ABORT") /\ table' = Cleaned(k)
  BY <1>1 DEF Decide, Served
<1>5. m.tid \in AnyTid
  BY <1>3 DEF AnyTid
<1>6. /\ \A j \in Slot : table'[j] = table[j] \/ (table[j].tid = m.tid /\ table'[j] = Free)
      /\ Holding(m.tid)' = {}
  BY <1>1, <1>3, <1>4, <1>5, CleanedSlots
<1>7. /\ \A w \in Worker : Drawn(w)
      /\ \A w \in Worker : toM'[w] # toM[w] => Tx(w) = m.tid
  BY <1>3 DEF ReadsOne, Drawn
<1>8. QED
  BY <1>3, <1>4, <1>5, <1>6, <1>7, RetireKeeps

(* A timeout.                                                                    *)
LEMMA TimeoutKeeps ==
  ASSUME SystemTypeOK, BufferInv, FinalInv, CommitInv, Served, UNCHANGED toM, MgrTimeout
  PROVE  CommitInv'
<1>1. PICK k \in Slot :
        /\ IsFirst(k, Waiting)
        /\ mlog' = mlog \cup {[kind |-> "DECIDE_ABORT", tid |-> table[k].tid]}
        /\ sent' = Broadcast(table[k].tid, "DECIDE_ABORT")
        /\ table' = Cleaned(k)
  BY DEF MgrTimeout
<1>2. PICK t \in AnyTid : t = table[k].tid
  BY DEF SystemTypeOK, MgrTypeOK
<1>3. \A j \in Slot : table'[j] = IF j = k THEN Free ELSE table[j]
  BY <1>1 DEF Cleaned, WithSlot
<1>4. ASSUME t \in Tid PROVE t \in begun /\ Holding(t)' = {}
  <2>1. t \in begun /\ t # NoTid
    BY <1>2, <1>4, NoTidAssumption DEF BufferInv, SlotsBegun
  <2>2. ASSUME NEW j \in Slot, table'[j].tid = t PROVE FALSE
    <3>1. j # k /\ table[j].tid = t
      BY <1>3, <2>1, <2>2 DEF Free
    <3>2. QED
      BY <1>2, <2>1, <3>1 DEF FinalInv, SlotsDistinct
  <2>3. QED
    BY <2>1, <2>2 DEF Holding
<1>5. \A j \in Slot : table'[j] = table[j] \/ (table[j].tid = t /\ table'[j] = Free)
  BY <1>2, <1>3
<1>6. /\ mlog' = mlog \cup {[kind |-> "DECIDE_ABORT", tid |-> t]}
      /\ sent' = Broadcast(t, "DECIDE_ABORT")
  BY <1>1, <1>2
<1>7. /\ \A w \in Worker : Drawn(w)
      /\ \A w \in Worker : toM'[w] # toM[w] => Head(toM[w]).kind \notin Ballot \/ Tx(w) = t
  BY DEF Drawn
<1>8. t \in Tid => t \in begun /\ Holding(t)' = {}
  BY <1>4
<1>9. QED
  BY <1>5, <1>6, <1>7, <1>8, RetireKeeps

(* Any step of a manager that goes on running.                                   *)
LEMMA ManagerKeeps ==
  ASSUME SystemTypeOK, SystemTypeOK', BufferInv, Signed, FinalInv, CommitInv, Orderly,
         ManagerTimeout \/ \E r \in Worker : DeliverToManager(r)
  PROVE  CommitInv'
<1>1. ASSUME NEW queues, RouteToManager(queues), RouteToWorkers(toW), posted' = <<>>,
             UNCHANGED <<wlog, mem, joinedAt, left, resume>>,
             mlog \subseteq mlog', begun \subseteq begun',
             \A w \in Worker : queues[w] \in Seq(ToManager)
      PROVE  Served /\ \A w \in Worker : toM'[w] = queues[w]
  <2>1. \A w \in Worker : toM'[w] = queues[w]
    <3>1. \A w \in Worker : PostedBy(w)' = <<>>
      BY <1>1 DEF PostedBy
    <3>2. \A w \in Worker : queues[w] \o <<>> = queues[w]
      BY <1>1
    <3>3. QED
      BY <1>1, <3>1, <3>2 DEF RouteToManager, Orderly
  <2>2. \A w \in Worker : toW'[w] = IF mem[w].pc = "down" THEN <<>> ELSE toW[w] \o sent'[w]
    BY <1>1 DEF RouteToWorkers, Alive
  <2>3. sent' \in [Worker -> Seq(ToWorker)]
    BY DEF SystemTypeOK, MgrTypeOK
  <2>4. QED
    BY <1>1, <2>1, <2>2, <2>3 DEF Served, Orderly, CommitInv, Running
<1>2. CASE ManagerTimeout
  <2>1. /\ RouteToManager(toM) /\ RouteToWorkers(toW) /\ posted' = <<>>
        /\ UNCHANGED <<wlog, mem, joinedAt, left>> /\ MgrTimeout
    BY <1>2 DEF ManagerTimeout, ManagerMoves
  <2>2. UNCHANGED resume /\ mlog \subseteq mlog' /\ begun \subseteq begun'
    BY <2>1 DEF MgrTimeout
  <2>3. toM \in [Worker -> Seq(ToManager)] /\ toM' \in [Worker -> Seq(ToManager)]
    BY DEF SystemTypeOK
  <2>4. Served /\ toM' = toM
    <3>1. \A w \in Worker : toM[w] \in Seq(ToManager)
      BY <2>3
    <3>2. Served /\ \A w \in Worker : toM'[w] = toM[w]
      BY <1>1, <2>1, <2>2, <3>1
    <3>3. QED
      BY <2>3, <3>2
  <2>5. QED
    BY <2>1, <2>4, TimeoutKeeps
<1>3. ASSUME NEW r \in Worker, DeliverToManager(r) PROVE CommitInv'
  <2> DEFINE m == Head(toM[r])
             queues == Popped(toM, r)
  <2>1. /\ toM[r] # <<>> /\ MgrReceive(m)
        /\ RouteToManager(queues) /\ RouteToWorkers(toW) /\ posted' = <<>>
        /\ UNCHANGED <<wlog, mem, joinedAt, left>>
    BY <1>3 DEF DeliverToManager, ManagerMoves
  <2>2. /\ \A w \in Worker : queues[w] \in Seq(ToManager)
        /\ \A w \in Worker : queues[w] = IF w = r THEN Tail(toM[w]) ELSE toM[w]
    <3>1. toM \in [Worker -> Seq(ToManager)] /\ toM[r] # <<>>
      BY <2>1 DEF SystemTypeOK
    <3>2. /\ queues \in [Worker -> Seq(ToManager)]
          /\ \A w \in Worker : queues[w] = IF w = r THEN Tail(toM[w]) ELSE toM[w]
      BY <3>1, PoppedType
    <3>3. QED
      BY <3>2
  <2> HIDE DEF m, queues
  <2>3. UNCHANGED resume /\ mlog \subseteq mlog' /\ begun \subseteq begun'
    BY <2>1 DEF MgrReceive, MgrBegin, MgrJoin, MgrCommit, MgrVoteCommit, MgrVoteAbort,
                StillWaiting, AnswerAbort, AnswerCommit, DecideCommit, Decide
  <2>4. Served /\ \A w \in Worker : toM'[w] = queues[w]
    BY <1>1, <2>1, <2>2, <2>3
  <2>5. ReadsOne(r) /\ m = Head(toM[r])
    BY <2>1, <2>2, <2>4 DEF ReadsOne, m
  <2>6. CASE MgrBegin(m)
    BY <2>4, <2>5, <2>6, BeginKeeps
  <2>7. CASE MgrJoin(m)
    <3>1. m.kind = "JOINTX" /\ mlog' = mlog /\ Spacious /\ Holding(NoTid) # {}
      BY <2>7 DEF MgrJoin, Orderly, Spacious
    <3>2. CASE sent' = Reply(m, "JOIN_FAIL") /\ table' = table
      BY <2>4, <2>5, <3>1, <3>2, RefuseKeeps
    <3>3. ASSUME NEW k \in Slot, table[k].tid = m.tid, table' = Enrolled(k, m.from),
                 sent' = Reply(m, "JOIN_SUCCESS")
          PROVE  CommitInv'
      BY <2>4, <2>5, <3>1, <3>3, AcceptKeeps
    <3>4. QED
      BY <2>7, <3>1, <3>2, <3>3 DEF MgrJoin
  <2>8. CASE MgrCommit(m)
    BY <2>4, <2>5, <2>8, CommitKeeps
  <2>9. CASE MgrVoteCommit(m)
    BY <2>4, <2>5, <2>9, VoteCommitKeeps
  <2>10. CASE MgrVoteAbort(m)
    BY <2>4, <2>5, <2>10, VoteAbortKeeps
  <2>11. QED
    BY <2>1, <2>6, <2>7, <2>8, <2>9, <2>10 DEF MgrReceive
<1>4. QED
  BY <1>2, <1>3


-------------------------------------------------------------------------------
\* The invariants hold in every state

(* Whatever a step leaves in the buffers and adds to them names its sender.       *)
LEMMA SignedRouted ==
  ASSUME SystemTypeOK', Signed, NEW queues, RouteToManager(queues),
         \A w \in Worker : queues[w] \in Seq(ToManager),
         \A w \in Worker : Range(queues[w]) \subseteq Range(toM[w])
  PROVE  Signed'
<1>1. ASSUME NEW w \in Worker, NEW m \in Range(toM'[w]) PROVE m.from = w
  <2>1. posted' \in Seq(ToManager) /\ Len(posted') <= 1
    BY DEF SystemTypeOK, WorkerTypeOK
  <2>2. PostedBy(w)' \in Seq(ToManager)
    BY <2>1 DEF PostedBy
  <2>3. \A e \in Range(PostedBy(w)') : e.from = w
    <3>1. CASE \E i \in DOMAIN posted' : posted'[i].from = w
      <4>1. PostedBy(w)' = posted' /\ DOMAIN posted' = 1..Len(posted')
        BY <2>1, <3>1 DEF PostedBy
      <4>2. \A i, j \in DOMAIN posted' : i = j
        BY <2>1, <4>1
      <4>3. QED
        BY <3>1, <4>1, <4>2 DEF Range
    <3>2. CASE ~\E i \in DOMAIN posted' : posted'[i].from = w
      BY <3>2, RangeEmpty DEF PostedBy
    <3>3. QED
      BY <3>1, <3>2
  <2>4. toM'[w] = queues[w] \o PostedBy(w)' \/ toM'[w] = <<>>
    BY DEF RouteToManager
  <2>5. CASE toM'[w] = <<>>
    BY <1>1, <2>5, RangeEmpty
  <2>6. CASE toM'[w] = queues[w] \o PostedBy(w)'
    <3>1. Range(toM'[w]) = Range(queues[w]) \cup Range(PostedBy(w)')
      BY <2>2, <2>6, RangeAppended
    <3>2. QED
      BY <1>1, <2>3, <3>1 DEF Signed
  <2>7. QED
    BY <2>4, <2>5, <2>6
<1>2. QED
  BY <1>1 DEF Signed

(* Datagrams name their senders, whatever step is taken.                         *)
LEMMA SignedStep ==
  ASSUME SystemTypeOK, SystemTypeOK', Signed, [Next]_vars
  PROVE  Signed'
<1>1. toM \in [Worker -> Seq(ToManager)]
  BY DEF SystemTypeOK
<1>2. ASSUME NEW r \in Worker, toM[r] # <<>>
      PROVE  /\ \A w \in Worker : Popped(toM, r)[w] \in Seq(ToManager)
             /\ \A w \in Worker : Range(Popped(toM, r)[w]) \subseteq Range(toM[w])
  <2>1. /\ Popped(toM, r) \in [Worker -> Seq(ToManager)]
        /\ \A w \in Worker : Range(Popped(toM, r)[w]) \subseteq Range(toM[w])
    BY <1>1, <1>2, PoppedType
  <2>2. QED
    BY <2>1
<1>3. CASE RouteToManager(toM)
  <2>1. /\ \A w \in Worker : toM[w] \in Seq(ToManager)
        /\ \A w \in Worker : Range(toM[w]) \subseteq Range(toM[w])
    BY <1>1
  <2>2. QED
    BY <1>3, <2>1, SignedRouted
<1>4. ASSUME NEW r \in Worker, toM[r] # <<>>, RouteToManager(Popped(toM, r)) PROVE Signed'
  BY <1>2, <1>4, SignedRouted
<1>5. ASSUME NEW r \in Worker, LoseToManager(r) PROVE Signed'
  <2>1. toM' = Popped(toM, r) /\ toM[r] # <<>>
    BY <1>5 DEF LoseToManager
  <2>2. QED
    BY <1>2, <2>1 DEF Signed
<1>6. CASE toM' = toM
  BY <1>6 DEF Signed
<1>7. CASE ManagerTimeout \/ ManagerKill \/ ManagerRestart \/ ManagerRecoverSlot
  <2>1. RouteToManager(toM)
    BY <1>7 DEF ManagerTimeout, ManagerKill, ManagerRestart, ManagerRecoverSlot, ManagerMoves
  <2>2. QED
    BY <1>3, <2>1
<1>8. CASE ManagerTorn
  <2>1. RouteToManager(toM) \/ \E r \in Worker : toM[r] # <<>> /\ RouteToManager(Popped(toM, r))
    BY <1>8 DEF ManagerTorn, ManagerMoves
  <2>2. QED
    BY <1>3, <1>4, <2>1
<1>9. ASSUME NEW r \in Worker, DeliverToManager(r) PROVE Signed'
  <2>1. toM[r] # <<>> /\ RouteToManager(Popped(toM, r))
    BY <1>9 DEF DeliverToManager, ManagerMoves
  <2>2. QED
    BY <1>4, <2>1
<1>10. ASSUME NEW w \in Worker,
              DeliverToWorker(w) \/ PollTimeout(w) \/ UserCommand(w) \/ RestartWorker(w)
       PROVE  Signed'
  <2>1. RouteToManager(toM)
    BY <1>10 DEF DeliverToWorker, PollTimeout, UserCommand, RestartWorker, WorkerMoves
  <2>2. QED
    BY <1>3, <2>1
<1>11. ASSUME NEW w \in Worker, LoseToWorker(w) PROVE toM' = toM
  BY <1>11 DEF LoseToWorker
<1>12. UNCHANGED vars => toM' = toM
  BY DEF vars
<1>13. QED
  BY <1>5, <1>6, <1>7, <1>8, <1>9, <1>10, <1>11, <1>12 DEF Next

(* A step that changes nothing changes no invariant.                             *)
LEMMA StutterKeeps ==
  ASSUME CommitInv, UNCHANGED vars
  PROVE  CommitInv'
<1>1. UNCHANGED <<mlog, table, mgrUp, resume, begun, wlog, mem, joinedAt, left, toM, toW>>
  BY DEF vars, mgrVars, workerVars
<1>2. Running' /\ SlotInv' = SlotInv /\ LogInv' = LogInv
  BY <1>1 DEF CommitInv, Running, SlotInv, Listing, Distinct, In, Yes, Consents, Prepared, Rec, Logged,
              Admitted, InWay, Tx, LastRecord, LogInv, Holding
<1>3. ASSUME NEW w \in Worker PROVE WorkerOK(w)' = WorkerOK(w)
  <2>1. Admission(w)' = Admission(w)
    BY <1>1 DEF Admission, Admitted, InWay, Tx, LastRecord, Asking
  <2>2. Engagement(w)' = Engagement(w)
    BY <1>1 DEF Engagement, Unsure, Tx, LastRecord, Wrote
  <2>3. Votes(w)' = Votes(w)
    BY <1>1 DEF Votes, InWay, Logged, Consents, Prepared, Tx, LastRecord, Marked, Holding, Yes,
                Unsure, Voting
  <2>4. Verdict(w)' = Verdict(w)
    BY <1>1 DEF Verdict, Admitted, Holding, Logged, Prepared, Hears, Wrote, InWay, Tx, LastRecord
  <2>5. QED
    BY <2>1, <2>2, <2>3, <2>4 DEF WorkerOK
<1>4. QED
  BY <1>2, <1>3 DEF CommitInv, WorkerInv

\* The steps there are while the manager runs and nothing is lost.
OnlyThese ==
  \/ ManagerTimeout \/ \E r \in Worker : DeliverToManager(r)
  \/ \E w \in Worker : DeliverToWorker(w) \/ PollTimeout(w) \/ UserCommand(w) \/ RestartWorker(w)

(* It is neither killed nor restarted.                                           *)
LEMMA OrderlySteps ==
  ASSUME ~Lossy, CommitInv, Next, Orderly
  PROVE  OnlyThese
<1>1. ~ManagerKill /\ ~ManagerTorn
  BY DEF Orderly, ManagerKill, ManagerTorn, ManagerMoves, MgrKill, MgrTornVote, MgrTornTimeout
<1>2. ~ManagerRestart /\ ~ManagerRecoverSlot
  BY DEF CommitInv, Running, ManagerRestart, ManagerRecoverSlot, ManagerMoves, MgrRestart, MgrRecoverSlot
<1>3. \A w \in Worker : ~LoseToManager(w) /\ ~LoseToWorker(w)
  BY DEF LoseToManager, LoseToWorker
<1>4. QED
  BY <1>1, <1>2, <1>3 DEF Next, OnlyThese

(* Any step with which the manager goes on running and nothing is lost.          *)
LEMMA CommitInvStep ==
  ASSUME ~Lossy, SystemTypeOK, SystemTypeOK', BufferInv, Signed, FinalInv, CommitInv,
         [Next]_vars, [Orderly]_vars
  PROVE  CommitInv'
<1>1. CASE UNCHANGED vars
  BY <1>1, StutterKeeps
<1>2. CASE Next /\ Orderly
  <2>1. CASE ManagerTimeout \/ \E r \in Worker : DeliverToManager(r)
    BY <1>2, <2>1, ManagerKeeps
  <2>2. ASSUME NEW w \in Worker,
               DeliverToWorker(w) \/ PollTimeout(w) \/ UserCommand(w) \/ RestartWorker(w)
        PROVE  CommitInv'
    BY <1>2, <2>2, WorkersKeep
  <2>3. OnlyThese
    BY <1>2, OrderlySteps
  <2>4. QED
    BY <2>1, <2>2, <2>3 DEF OnlyThese
<1>3. QED
  BY <1>1, <1>2

(* All of it holds at the start, if each worker is told to join at most once.    *)
LEMMA CommitInvStart ==
  ASSUME Init, OneJoinEach
  PROVE  Signed /\ FinalInv /\ CommitIsFinal /\ CommitInv
<1>1. /\ mlog = {} /\ mgrUp = TRUE /\ resume = 0 /\ begun = {} /\ table = [k \in Slot |-> Free]
      /\ sent = Silence
  BY DEF Init, MgrInit
<1>2. /\ \A w \in Worker : toM[w] = <<>> /\ toW[w] = <<>> /\ wlog[w] = <<>> /\ mem[w] = Booted
      /\ \A w \in Worker : \A t \in Tid : joinedAt[w][t] = <<>>
  BY DEF Init, WorkerInit
<1>3. Range(<<>>) = {}
  BY RangeEmpty
<1>4. \A w \in Worker : Tx(w) = NoTid /\ ~Unsure(w) /\ mem[w].pc # "down"
  <2>1. Booted.pc = "loop" /\ Booted.curTid = NoTid
    BY DEF Booted
  <2>2. \A w \in Worker : mem[w].pc = "loop" /\ mem[w].curTid = NoTid
    BY <1>2, <2>1
  <2>3. QED
    BY <2>2 DEF Tx, Unsure
<1>5. \A w \in Worker : \A t \in Tid : ~Admitted(w, t)
  BY <1>2, <1>3, <1>4, NoTidAssumption DEF Admitted, InWay
<1>6. Signed
  BY <1>2, <1>3 DEF Signed
<1>7. FinalInv
  <2>1. \A k \in Slot : table[k].tid = NoTid
    BY <1>1 DEF Free
  <2>2. QED
    BY <1>1, <2>1, NoTidAssumption DEF FinalInv, SlotsDistinct, CommitRetired, BegunFirst, Logged, Holding
<1>8. CommitIsFinal
  BY <1>1 DEF CommitIsFinal, Logged
<1>9. SlotInv
  <2>1. SUFFICES ASSUME NEW k \in Slot PROVE Listing(k)
    BY DEF SlotInv
  <2>2. table[k].tid = NoTid /\ table[k].members = <<>>
    BY <1>1 DEF Free
  <2>3. In(k) = {} /\ Yes(k) = {} /\ Distinct(k)
    BY <2>2 DEF In, Yes, Distinct
  <2>4. QED
    BY <2>2, <2>3 DEF Listing
<1>10. LogInv
  BY <1>1 DEF LogInv, Logged
<1>11. ASSUME NEW w \in Worker PROVE WorkerOK(w)
  <2>1. Admission(w)
    BY <1>2, <1>3, <1>5 DEF Admission, OneJoinEach, AskedOnce, AcceptedFirst, Asking
  <2>2. Engagement(w)
    BY <1>2, <1>3, <1>4, NoTidAssumption DEF Engagement, Wrote
  <2>3. Votes(w)
    BY <1>2, <1>3, <1>4, NoTidAssumption DEF Votes, InWay
  <2>4. Verdict(w)
    BY <1>1, <1>2, <1>3, <1>5 DEF Verdict, Hears, Wrote, InWay, Logged
  <2>5. QED
    BY <2>1, <2>2, <2>3, <2>4 DEF WorkerOK
<1>12. QED
  BY <1>1, <1>6, <1>7, <1>8, <1>9, <1>10, <1>11 DEF CommitInv, Running, WorkerInv

(* The invariant of an orderly system.                                           *)
LEMMA SafeInvariant ==
  ASSUME ~Lossy, ~ReuseTids
  PROVE  OrderlySpec => []SafeInv
<1>1. Init /\ OneJoinEach => SafeInv
  BY SystemStart, CommitInvStart DEF SafeInv
<1>2. SafeInv /\ [Next]_vars /\ [Orderly]_vars => SafeInv'
  <2>1. SUFFICES ASSUME SafeInv, [Next]_vars, [Orderly]_vars PROVE SafeInv'
    OBVIOUS
  <2>2. SystemTypeOK' /\ BufferInv' /\ [MgrNext]_mgrVars
    BY <2>1, SystemStep DEF SafeInv, GoodStep
  <2>3. Signed'
    BY <2>1, <2>2, SignedStep DEF SafeInv
  <2>4. CommitInv'
    BY <2>1, <2>2, CommitInvStep DEF SafeInv
  <2>5. mgrUp'
    BY <2>4 DEF CommitInv, Running
  <2>6. FinalInv' /\ CommitIsFinal'
    BY <2>1, <2>2, <2>5, FinalStep DEF SafeInv, SystemTypeOK
  <2>7. QED
    BY <2>2, <2>3, <2>4, <2>6 DEF SafeInv
<1>3. QED
  BY <1>1, <1>2, PTL DEF OrderlySpec, Spec

(* While the manager runs, no two workers record different decisions about one   *)
(* transaction, and no worker records both (tworker.c:565).                      *)
THEOREM OrderlyAgreement ==
  ASSUME ~Lossy, ~ReuseTids
  PROVE  OrderlySpec => []Agreement
<1>1. SafeInv => Agreement
  <2>1. SUFFICES ASSUME SafeInv, NEW t \in Tid, NEW u \in Worker, NEW w \in Worker,
                        Wrote(u, "DECIDE_COMMIT", t), Wrote(w, "DECIDE_ABORT", t)
                 PROVE  FALSE
    BY DEF Agreement
  <2>2. Logged("DECIDE_COMMIT", t)
    BY <2>1 DEF SafeInv, CommitInv, WorkerInv, WorkerOK, Verdict, Hears
  <2>3. ~Logged("DECIDE_COMMIT", t)
    BY <2>1 DEF SafeInv, CommitInv, WorkerInv, WorkerOK, Verdict, Hears
  <2>4. QED
    BY <2>2, <2>3
<1>2. QED
  BY <1>1, SafeInvariant, PTL

(* While the manager runs, what it commits was requested, and everybody who      *)
(* joined was asked to prepare before it aborted (tmanager.c:634).               *)
THEOREM OrderlyCommitWasVoted ==
  ASSUME ~Lossy, ~ReuseTids
  PROVE  OrderlySpec => []CommitWasVoted
<1>1. SafeInv => CommitWasVoted
  <2>1. SUFFICES ASSUME SafeInv, NEW t \in Tid, Logged("DECIDE_COMMIT", t)
                 PROVE  /\ Logged("COMMIT_REQ", t)
                        /\ \A w \in Worker : joinedAt[w][t] # <<>> => Prepared(w, t)
    BY DEF CommitWasVoted, Prepared
  <2>2. Logged("COMMIT_REQ", t)
    BY <2>1 DEF SafeInv, CommitInv, LogInv
  <2>3. ASSUME NEW w \in Worker, joinedAt[w][t] # <<>> PROVE Prepared(w, t)
    <3>1. Engagement(w) /\ Verdict(w)
      BY <2>1 DEF SafeInv, CommitInv, WorkerInv, WorkerOK
    <3>2. Tx(w) = t
      BY <2>3, <3>1 DEF Engagement
    <3>3. QED
      BY <2>1, <3>1, <3>2 DEF Verdict, Admitted
  <2>4. QED
    BY <2>2, <2>3
<1>2. QED
  BY <1>1, SafeInvariant, PTL

-------------------------------------------------------------------------------
\* The system implements AtomicCommit

\* What one worker's step may do to the abstract state of one transaction.
Same(w, t) == Stage(w, t)' = Stage(w, t) /\ Learnt(w, t)' = Learnt(w, t)

Joins(w, t) ==
  /\ Stage(w, t) = "out" /\ Stage(w, t)' = "working" /\ Outcome(t) # "commit"
  /\ Learnt(w, t)' = Learnt(w, t)

Answers(w, t) ==
  /\ Stage(w, t) = "working" /\ Stage(w, t)' \in {"prepared", "refused"}
  /\ Learnt(w, t)' = Learnt(w, t)

Learns(w, t) ==
  /\ Stage(w, t)' = Stage(w, t)
  /\ Learnt(w, t) = "open" /\ Outcome(t) # "open" /\ Learnt(w, t)' = Outcome(t)

\* Such a step moves at most one transaction of w.
Advances(w) ==
  \/ \A t \in Tid : Same(w, t)
  \/ \E t \in Tid : /\ \A u \in Tid \ {t} : Same(w, u)
                    /\ Joins(w, t) \/ Answers(w, t) \/ Learns(w, t)

(* What records added to a log change about a transaction.                       *)
LEMMA LogGrown ==
  ASSUME NEW w \in Worker, NEW n \in Nat, NEW N \in Nat, n <= N,
         DOMAIN wlog[w] = 1..n, DOMAIN wlog'[w] = 1..N,
         \A i \in 1..n : wlog'[w][i] = wlog[w][i], NEW t
  PROVE  /\ \A kind : Wrote(w, kind, t)' <=>
              Wrote(w, kind, t) \/ \E i \in (n + 1)..N : wlog'[w][i] = Rec(kind, t)
         /\ (\A i \in (n + 1)..N : wlog'[w][i] # Rec("PREPARE_COMMIT", t)) =>
              (Prepared(w, t)' <=> Prepared(w, t))
         /\ n < N /\ wlog'[w][n + 1] = Rec("PREPARE_COMMIT", t) =>
              (Prepared(w, t)' <=> Prepared(w, t) \/ ~Wrote(w, "ABORT", t))
<1>1. /\ \A i \in 1..N : i \in 1..n \/ i \in (n + 1)..N
      /\ \A i \in 1..n : i \in 1..N
      /\ \A i \in (n + 1)..N : i \in 1..N
  OBVIOUS
<1>2. ASSUME NEW kind
      PROVE  Wrote(w, kind, t)' <=>
               Wrote(w, kind, t) \/ \E i \in (n + 1)..N : wlog'[w][i] = Rec(kind, t)
  <2>1. Wrote(w, kind, t)' <=> \E i \in 1..N : wlog'[w][i] = Rec(kind, t)
    BY DEF Wrote, Rec
  <2>2. Wrote(w, kind, t) <=> \E i \in 1..n : wlog'[w][i] = Rec(kind, t)
    BY DEF Wrote
  <2>3. QED
    BY <1>1, <2>1, <2>2
<1>3. Prepared(w, t) => Prepared(w, t)'
  <2>1. SUFFICES ASSUME NEW i \in 1..n, wlog[w][i] = Rec("PREPARE_COMMIT", t),
                        \A j \in 1..i : wlog[w][j] # Rec("ABORT", t)
                 PROVE  Prepared(w, t)'
    BY DEF Prepared
  <2>2. \A j \in 1..i : j \in 1..n
    OBVIOUS
  <2>3. i \in 1..N /\ wlog'[w][i] = Rec("PREPARE_COMMIT", t)
    BY <1>1, <2>1
  <2>4. \A j \in 1..i : wlog'[w][j] # Rec("ABORT", t)
    BY <2>1, <2>2
  <2>5. QED
    BY <2>3, <2>4 DEF Prepared, Rec
<1>4. ASSUME Prepared(w, t)', ~Prepared(w, t)
      PROVE  /\ ~Wrote(w, "ABORT", t)
             /\ \E i \in (n + 1)..N : wlog'[w][i] = Rec("PREPARE_COMMIT", t)
  <2>1. PICK i \in 1..N : /\ wlog'[w][i] = Rec("PREPARE_COMMIT", t)
                          /\ \A j \in 1..i : wlog'[w][j] # Rec("ABORT", t)
    BY <1>4 DEF Prepared, Rec
  <2>2. ASSUME i \in 1..n PROVE FALSE
    <3>1. \A j \in 1..i : j \in 1..n
      BY <2>2
    <3>2. /\ wlog[w][i] = Rec("PREPARE_COMMIT", t)
          /\ \A j \in 1..i : wlog[w][j] # Rec("ABORT", t)
      BY <2>1, <2>2, <3>1
    <3>3. QED
      BY <1>4, <2>2, <3>2 DEF Prepared
  <2>3. i \in (n + 1)..N
    BY <1>1, <2>2
  <2>4. \A j \in 1..n : j \in 1..i
    BY <2>3
  <2>5. \A j \in 1..n : wlog[w][j] # Rec("ABORT", t)
    BY <2>1, <2>4
  <2>6. QED
    BY <2>1, <2>3, <2>5 DEF Wrote
<1>5. ASSUME n < N, wlog'[w][n + 1] = Rec("PREPARE_COMMIT", t), ~Wrote(w, "ABORT", t)
      PROVE  Prepared(w, t)'
  <2>1. n + 1 \in 1..N
    BY <1>5
  <2>2. \A j \in 1..n : wlog'[w][j] # Rec("ABORT", t)
    BY <1>5 DEF Wrote
  <2>3. Rec("PREPARE_COMMIT", t) # Rec("ABORT", t)
    BY DEF Rec
  <2>4. \A j \in 1..(n + 1) : wlog'[w][j] # Rec("ABORT", t)
    BY <1>5, <2>2, <2>3
  <2>5. QED
    BY <1>5, <2>1, <2>4 DEF Prepared, Rec
<1>6. QED
  BY <1>2, <1>3, <1>4, <1>5

(* What one record added changes.                                                *)
LEMMA LogAppended ==
  ASSUME SystemTypeOK, NEW w \in Worker, NEW r \in WorkerRecord, wlog'[w] = Append(wlog[w], r), NEW t
  PROVE  /\ \A kind : Wrote(w, kind, t)' <=> Wrote(w, kind, t) \/ r = Rec(kind, t)
         /\ r # Rec("PREPARE_COMMIT", t) => (Prepared(w, t)' <=> Prepared(w, t))
<1>1. PICK n \in Nat : n = Len(wlog[w])
  BY DEF SystemTypeOK, WorkerTypeOK
<1>2. /\ DOMAIN wlog[w] = 1..n /\ DOMAIN wlog'[w] = 1..(n + 1)
      /\ \A i \in 1..n : wlog'[w][i] = wlog[w][i]
      /\ wlog'[w][n + 1] = r
  <2>1. wlog[w] \in Seq(WorkerRecord)
    BY DEF SystemTypeOK, WorkerTypeOK
  <2>2. QED
    BY <1>1, <2>1
<1>3. n + 1 \in Nat /\ n <= n + 1 /\ \A i : i \in (n + 1)..(n + 1) <=> i = n + 1
  OBVIOUS
<1>4. /\ \A kind : Wrote(w, kind, t)' <=>
            Wrote(w, kind, t) \/ \E i \in (n + 1)..(n + 1) : wlog'[w][i] = Rec(kind, t)
      /\ (\A i \in (n + 1)..(n + 1) : wlog'[w][i] # Rec("PREPARE_COMMIT", t)) =>
            (Prepared(w, t)' <=> Prepared(w, t))
  BY <1>2, <1>3, LogGrown
<1>5. QED
  BY <1>2, <1>3, <1>4

(* Nothing of the abstract state changes with what it is computed from.          *)
LEMMA SameStage ==
  ASSUME NEW w \in Worker, NEW t \in Tid, joinedAt'[w] = joinedAt[w],
         Prepared(w, t)' <=> Prepared(w, t), Wrote(w, "ABORT", t)' <=> Wrote(w, "ABORT", t)
  PROVE  Stage(w, t)' = Stage(w, t)
BY DEF Stage

(* So with what a worker knows of the decision.                                  *)
LEMMA SameLearnt ==
  ASSUME NEW w \in Worker, NEW t \in Tid,
         \A kind \in {"DECIDE_COMMIT", "DECIDE_ABORT"} : Wrote(w, kind, t)' <=> Wrote(w, kind, t)
  PROVE  Learnt(w, t)' = Learnt(w, t)
BY DEF Learnt, Recorded

(* A worker that notes nothing of the two-phase commit does not advance.         *)
LEMMA NotingStep ==
  ASSUME SystemTypeOK, NEW w \in Worker, joinedAt'[w] = joinedAt[w],
         \/ wlog'[w] = wlog[w]
         \/ \E r \in WorkerRecord : wlog'[w] = Append(wlog[w], r) /\ r.kind \notin Own
  PROVE  Advances(w)
<1>1. ASSUME NEW t \in Tid PROVE Same(w, t)
  <2>1. CASE wlog'[w] = wlog[w]
    <3>1. (Prepared(w, t)' <=> Prepared(w, t)) /\ \A kind : Wrote(w, kind, t)' <=> Wrote(w, kind, t)
      BY <2>1 DEF Prepared, Wrote, Rec
    <3>2. QED
      BY <3>1, SameStage, SameLearnt DEF Same
  <2>2. ASSUME NEW r \in WorkerRecord, wlog'[w] = Append(wlog[w], r), r.kind \notin Own
        PROVE  Same(w, t)
    <3>1. \A kind \in Own : r # Rec(kind, t)
      BY <2>2 DEF Rec
    <3>2. (Prepared(w, t)' <=> Prepared(w, t)) /\ \A kind \in Own : Wrote(w, kind, t)' <=> Wrote(w, kind, t)
      BY <2>2, <3>1, LogAppended DEF Own
    <3>3. QED
      BY <3>2, SameStage, SameLearnt DEF Same, Own
  <2>3. QED
    BY <2>1, <2>2
<1>2. QED
  BY <1>1 DEF Advances

(* An abort by the user.                                                         *)
LEMMA AbortAdvances ==
  ASSUME SystemTypeOK, CommitInv, NEW w \in Worker, NEW kind \in {"ABORT", "ABORT_CRASH"},
         CmdAbort(w, kind)
  PROVE  Advances(w)
<1>1. mem[w].pc = "loop" /\ joinedAt'[w] = joinedAt[w]
      /\ wlog'[w] = Append(wlog[w], Rec("ABORT", mem[w].curTid))
  BY DEF CmdAbort, Ask, Write, SystemTypeOK, WorkerTypeOK
<1>2. PICK t \in AnyTid : t = mem[w].curTid
  BY DEF SystemTypeOK, WorkerTypeOK, Memory
<1>3. Rec("ABORT", t) \in WorkerRecord
  BY RecType DEF RecordTag
<1>4. ASSUME NEW u \in Tid
      PROVE  /\ \A k : Wrote(w, k, u)' <=> Wrote(w, k, u) \/ (k = "ABORT" /\ u = t)
             /\ Prepared(w, u)' <=> Prepared(w, u)
  <2>1. /\ \A k : Wrote(w, k, u)' <=> Wrote(w, k, u) \/ Rec("ABORT", t) = Rec(k, u)
        /\ Rec("ABORT", t) # Rec("PREPARE_COMMIT", u) => (Prepared(w, u)' <=> Prepared(w, u))
    BY <1>1, <1>2, <1>3, LogAppended
  <2>2. \A k : Rec("ABORT", t) = Rec(k, u) <=> k = "ABORT" /\ u = t
    BY DEF Rec
  <2>3. QED
    BY <2>1, <2>2
<1>5. \A u \in Tid : Learnt(w, u)' = Learnt(w, u)
  BY <1>4, SameLearnt
<1>6. ASSUME NEW u \in Tid \ {t} PROVE Same(w, u)
  BY <1>1, <1>4, <1>5, SameStage DEF Same
<1>7. CASE t \notin Tid
  BY <1>6, <1>7 DEF Advances
<1>8. CASE t \in Tid
  <2>1. joinedAt[w][t] # <<>> /\ joinedAt'[w][t] # <<>>
    BY <1>1, <1>2, <1>8 DEF Tx, CommitInv, WorkerInv, WorkerOK, Engagement
  <2>2. CASE Prepared(w, t)
    BY <1>4, <1>5, <1>6, <1>8, <2>1, <2>2 DEF Stage, Same, Advances
  <2>3. CASE ~Prepared(w, t)
    <3>1. Stage(w, t)' = "refused"
      BY <1>4, <1>8, <2>1, <2>3 DEF Stage
    <3>2. Stage(w, t) \in {"refused", "working"}
      BY <2>1, <2>3 DEF Stage
    <3>3. Same(w, t) \/ Answers(w, t)
      BY <1>5, <1>8, <3>1, <3>2 DEF Same, Answers
    <3>4. QED
      BY <1>6, <1>8, <3>3 DEF Advances
  <2>4. QED
    BY <2>2, <2>3
<1>9. QED
  BY <1>7, <1>8

(* An accepted join: so far the worker has recorded nothing about anything, and  *)
(* what it joins is not committed.                                               *)
LEMMA JoinAdvances ==
  ASSUME SystemTypeOK, CommitInv, NEW w \in Worker, toW[w] # <<>>, NEW m, m = Head(toW[w]),
         m.kind = "JOIN_SUCCESS", RecvJoinReply(w, m)
  PROVE  Advances(w)
<1>1. m \in ToWorker /\ m \in Range(toW[w]) /\ WorkerOK(w)
  BY HeadHeard DEF CommitInv, WorkerInv
<1>2. PICK t \in Tid : t = m.tid
  BY HeadHeard DEF ToMember
<1>3. Tx(w) = NoTid /\ InWay(w, "JOIN_SUCCESS", t)
  BY <1>1, <1>2 DEF WorkerOK, Admission, ToWorker, InWay, Msg
<1>4. \A u \in Tid : /\ joinedAt[w][u] = <<>>
                     /\ \A kind \in Own : ~Wrote(w, kind, u)
                     /\ ~Prepared(w, u)
  <2>1. \A u \in Tid : joinedAt[w][u] = <<>> /\ \A kind \in Own : ~Wrote(w, kind, u)
    BY <1>1, <1>3, NoTidAssumption DEF WorkerOK, Engagement
  <2>2. \A u \in Tid : Prepared(w, u) => Wrote(w, "PREPARE_COMMIT", u)
    BY DEF Prepared, Wrote
  <2>3. QED
    BY <2>1, <2>2 DEF Own
<1>5. wlog'[w] = Append(wlog[w], Rec("JOINTX", t)) /\ Rec("JOINTX", t) \in WorkerRecord
  <2>1. wlog'[w] = Append(wlog[w], Rec("JOINTX", t))
    BY <1>2 DEF RecvJoinReply, Write, SystemTypeOK, WorkerTypeOK
  <2>2. QED
    BY <2>1, RecType DEF RecordTag, AnyTid
<1>6. joinedAt'[w][t] # <<>> /\ \A u \in Tid \ {t} : joinedAt'[w][u] = joinedAt[w][u]
  <2>1. joinedAt' = [joinedAt EXCEPT ![w][t] = <<obj[w]>>]
    BY <1>2, <1>4 DEF RecvJoinReply
  <2>2. joinedAt \in [Worker -> [Tid -> Seq(Data)]]
    BY DEF SystemTypeOK, WorkerTypeOK
  <2>3. joinedAt'[w][t] = <<obj[w]>> /\ \A u \in Tid \ {t} : joinedAt'[w][u] = joinedAt[w][u]
    BY <2>1, <2>2
  <2>4. QED
    BY <2>3
<1>7. ASSUME NEW u \in Tid
      PROVE  /\ \A kind \in Own : Wrote(w, kind, u)' <=> Wrote(w, kind, u)
             /\ Prepared(w, u)' <=> Prepared(w, u)
  <2>1. \A kind \in Own \cup {"PREPARE_COMMIT"} : Rec("JOINTX", t) # Rec(kind, u)
    BY DEF Rec, Own
  <2>2. QED
    BY <1>5, <2>1, LogAppended
<1>8. \A u \in Tid : Learnt(w, u)' = Learnt(w, u)
  BY <1>7, SameLearnt DEF Own
<1>9. ASSUME NEW u \in Tid \ {t} PROVE Same(w, u)
  <2>1. Stage(w, u)' = Stage(w, u)
    BY <1>4, <1>6 DEF Stage
  <2>2. QED
    BY <1>8, <2>1 DEF Same
<1>10. Stage(w, t) = "out" /\ Stage(w, t)' = "working"
  <2>1. Stage(w, t) = "out"
    BY <1>4 DEF Stage
  <2>2. ~Prepared(w, t)' /\ ~Wrote(w, "ABORT", t)'
    BY <1>4, <1>7 DEF Own
  <2>3. QED
    BY <1>6, <2>1, <2>2 DEF Stage
<1>11. Outcome(t) # "commit"
  <2>1. Admitted(w, t)
    BY <1>3 DEF Admitted
  <2>2. ~Logged("DECIDE_COMMIT", t)
    BY <1>1, <1>4, <2>1 DEF WorkerOK, Verdict
  <2>3. QED
    BY <2>2 DEF Outcome, Recorded
<1>12. QED
  BY <1>8, <1>9, <1>10, <1>11 DEF Joins, Advances

(* A request to prepare.                                                         *)
LEMMA PrepareAdvances ==
  ASSUME SystemTypeOK, NEW w \in Worker, NEW m \in ToWorker, RecvPrepare(w, m)
  PROVE  Advances(w)
<1>1. PICK t \in AnyTid : t = m.tid
  BY DEF ToWorker
<1> DEFINE p == Rec("PREPARE_COMMIT", t)
           v == Rec("VOTE_COMMIT", t)
<1>2. joinedAt'[w] = joinedAt[w]
      /\ (wlog'[w] = Append(wlog[w], p) \/ wlog'[w] = Append(Append(wlog[w], p), v))
  BY <1>1 DEF RecvPrepare, SystemTypeOK, WorkerTypeOK
<1>3. p \in WorkerRecord /\ v \in WorkerRecord /\ wlog[w] \in Seq(WorkerRecord)
  BY RecType DEF RecordTag, SystemTypeOK, WorkerTypeOK
<1>4. \A kind, u : /\ p = Rec(kind, u) => kind = "PREPARE_COMMIT" /\ u = t
                   /\ v = Rec(kind, u) => kind = "VOTE_COMMIT" /\ u = t
  BY DEF Rec
<1>5. p = Rec("PREPARE_COMMIT", t)
  OBVIOUS
<1> HIDE DEF p, v
<1>6. PICK n \in Nat : n = Len(wlog[w])
  BY <1>3
<1>7. PICK N \in Nat : /\ DOMAIN wlog[w] = 1..n /\ DOMAIN wlog'[w] = 1..N /\ n < N
                       /\ \A i \in 1..n : wlog'[w][i] = wlog[w][i]
                       /\ wlog'[w][n + 1] = p
                       /\ \A i \in (n + 1)..N : wlog'[w][i] \in {p, v}
  <2>1. CASE wlog'[w] = Append(wlog[w], p)
    <3>1. /\ DOMAIN wlog[w] = 1..n /\ DOMAIN wlog'[w] = 1..(n + 1)
          /\ \A i \in 1..n : wlog'[w][i] = wlog[w][i]
          /\ wlog'[w][n + 1] = p
      BY <1>3, <1>6, <2>1
    <3>2. n + 1 \in Nat /\ n < n + 1 /\ \A i \in (n + 1)..(n + 1) : i = n + 1
      OBVIOUS
    <3>3. QED
      BY <3>1, <3>2
  <2>2. CASE wlog'[w] = Append(Append(wlog[w], p), v)
    <3>1. /\ DOMAIN wlog[w] = 1..n /\ DOMAIN wlog'[w] = 1..(n + 2)
          /\ \A i \in 1..n : wlog'[w][i] = wlog[w][i]
          /\ wlog'[w][n + 1] = p /\ wlog'[w][n + 2] = v
      BY <1>3, <1>6, <2>2
    <3>2. n + 2 \in Nat /\ n < n + 2 /\ \A i \in (n + 1)..(n + 2) : i = n + 1 \/ i = n + 2
      OBVIOUS
    <3>3. QED
      BY <3>1, <3>2
  <2>3. QED
    BY <1>2, <2>1, <2>2
<1>8. ASSUME NEW u \in Tid
      PROVE  /\ \A kind \in Own \ {"PREPARE_COMMIT"} : Wrote(w, kind, u)' <=> Wrote(w, kind, u)
             /\ u # t => (Prepared(w, u)' <=> Prepared(w, u))
             /\ u = t => (Prepared(w, u)' <=> Prepared(w, u) \/ ~Wrote(w, "ABORT", u))
  <2>1. n <= N
    BY <1>7
  <2>2. /\ \A kind : Wrote(w, kind, u)' <=>
              Wrote(w, kind, u) \/ \E i \in (n + 1)..N : wlog'[w][i] = Rec(kind, u)
        /\ (\A i \in (n + 1)..N : wlog'[w][i] # Rec("PREPARE_COMMIT", u)) =>
              (Prepared(w, u)' <=> Prepared(w, u))
        /\ n < N /\ wlog'[w][n + 1] = Rec("PREPARE_COMMIT", u) =>
              (Prepared(w, u)' <=> Prepared(w, u) \/ ~Wrote(w, "ABORT", u))
    BY <1>7, <2>1, LogGrown
  <2>3. \A i \in (n + 1)..N, kind \in Own \ {"PREPARE_COMMIT"} : wlog'[w][i] # Rec(kind, u)
    BY <1>4, <1>7 DEF Own
  <2>4. u # t => \A i \in (n + 1)..N : wlog'[w][i] # Rec("PREPARE_COMMIT", u)
    BY <1>4, <1>7
  <2>5. u = t => wlog'[w][n + 1] = Rec("PREPARE_COMMIT", u)
    BY <1>5, <1>7
  <2>6. QED
    BY <1>7, <2>2, <2>3, <2>4, <2>5
<1>9. \A u \in Tid : Learnt(w, u)' = Learnt(w, u)
  BY <1>8, SameLearnt DEF Own
<1>10. ASSUME NEW u \in Tid \ {t} PROVE Same(w, u)
  BY <1>2, <1>8, <1>9, SameStage DEF Same, Own
<1>11. CASE t \notin Tid
  BY <1>10, <1>11 DEF Advances
<1>12. CASE t \in Tid
  <2>1. Same(w, t) \/ Answers(w, t)
    <3>1. Wrote(w, "ABORT", t)' <=> Wrote(w, "ABORT", t)
      BY <1>8, <1>12 DEF Own
    <3>2. CASE joinedAt[w][t] = <<>> \/ Prepared(w, t) \/ Wrote(w, "ABORT", t)
      BY <1>2, <1>8, <1>9, <1>12, <3>1, <3>2 DEF Stage, Same
    <3>3. CASE joinedAt[w][t] # <<>> /\ ~Prepared(w, t) /\ ~Wrote(w, "ABORT", t)
      BY <1>2, <1>8, <1>9, <1>12, <3>1, <3>3 DEF Stage, Answers
    <3>4. QED
      BY <3>2, <3>3
  <2>2. QED
    BY <1>10, <1>12, <2>1 DEF Advances
<1>13. QED
  BY <1>11, <1>12

(* A decision: it is the manager's, whether the worker knows one already or not. *)
LEMMA DecisionAdvances ==
  ASSUME SystemTypeOK, CommitInv, NEW w \in Worker, toW[w] # <<>>, NEW m, m = Head(toW[w]),
         RecvDecision(w, m)
  PROVE  Advances(w)
<1>1. m \in ToWorker /\ m \in Range(toW[w]) /\ WorkerOK(w)
  BY HeadHeard DEF CommitInv, WorkerInv
<1>2. PICK d \in {"DECIDE_COMMIT", "DECIDE_ABORT"} : d = m.kind
  BY DEF RecvDecision
<1>3. PICK t \in Tid : t = m.tid
  BY <1>2, HeadHeard DEF ToMember
<1>4. Verdict(w) /\ InWay(w, d, t) /\ Hears(w, d, t)
  BY <1>1, <1>2, <1>3 DEF ToWorker, InWay, Msg, Hears, WorkerOK
<1>5. joinedAt'[w] = joinedAt[w] /\ wlog'[w] = Append(wlog[w], Rec(d, t))
      /\ Rec(d, t) \in WorkerRecord
  <2>1. joinedAt'[w] = joinedAt[w] /\ wlog'[w] = Append(wlog[w], Rec(d, t))
    BY <1>2, <1>3 DEF RecvDecision, Write, SystemTypeOK, WorkerTypeOK
  <2>2. d \in RecordTag /\ t \in AnyTid
    BY DEF RecordTag, AnyTid
  <2>3. QED
    BY <2>1, <2>2, RecType
<1>6. ASSUME NEW u \in Tid
      PROVE  /\ \A kind : Wrote(w, kind, u)' <=> Wrote(w, kind, u) \/ (kind = d /\ u = t)
             /\ Prepared(w, u)' <=> Prepared(w, u)
  <2>1. /\ \A kind : Wrote(w, kind, u)' <=> Wrote(w, kind, u) \/ Rec(d, t) = Rec(kind, u)
        /\ Rec(d, t) # Rec("PREPARE_COMMIT", u) => (Prepared(w, u)' <=> Prepared(w, u))
    BY <1>5, LogAppended
  <2>2. \A kind : Rec(d, t) = Rec(kind, u) <=> kind = d /\ u = t
    BY DEF Rec
  <2>3. QED
    BY <2>1, <2>2
<1>7. \A u \in Tid : Stage(w, u)' = Stage(w, u)
  BY <1>5, <1>6, SameStage
<1>8. ASSUME NEW u \in Tid \ {t} PROVE Same(w, u)
  BY <1>6, <1>7, SameLearnt DEF Same
<1>9. Same(w, t) \/ Learns(w, t)
  <2>1. /\ Wrote(w, "DECIDE_COMMIT", t)' <=> Wrote(w, "DECIDE_COMMIT", t) \/ d = "DECIDE_COMMIT"
        /\ Wrote(w, "DECIDE_ABORT", t)' <=> Wrote(w, "DECIDE_ABORT", t) \/ d = "DECIDE_ABORT"
    BY <1>6
  <2>2. CASE d = "DECIDE_COMMIT"
    <3>1. Outcome(t) = "commit" /\ ~Wrote(w, "DECIDE_ABORT", t)
      BY <1>4, <2>2 DEF Verdict, Hears, Outcome, Recorded
    <3>2. QED
      BY <1>7, <2>1, <2>2, <3>1 DEF Learnt, Recorded, Same, Learns
  <2>3. CASE d = "DECIDE_ABORT"
    <3>1. Outcome(t) = "abort" /\ ~Wrote(w, "DECIDE_COMMIT", t)
      BY <1>4, <2>3 DEF Verdict, Hears, Outcome, Recorded
    <3>2. QED
      BY <1>7, <2>1, <2>3, <3>1 DEF Learnt, Recorded, Same, Learns
  <2>4. QED
    BY <2>2, <2>3
<1>10. QED
  BY <1>8, <1>9 DEF Advances

(* A worker's step moves at most one transaction of that worker.                 *)
LEMMA WorkerAdvances ==
  ASSUME SystemTypeOK, CommitInv, NEW w \in Worker,
         DeliverToWorker(w) \/ PollTimeout(w) \/ UserCommand(w) \/ RestartWorker(w)
  PROVE  /\ Advances(w)
         /\ \A u \in Worker \ {w} : wlog'[u] = wlog[u] /\ joinedAt'[u] = joinedAt[u]
         /\ mlog' = mlog
<1>1. WorkerTypeOK
  BY DEF SystemTypeOK
<1>2. mlog' = mlog
  BY DEF DeliverToWorker, PollTimeout, UserCommand, RestartWorker, WorkerMoves
<1>3. CASE DeliverToWorker(w)
  <2>1. PICK m : m = Head(toW[w])
    OBVIOUS
  <2>2. toW[w] # <<>> /\ WorkerReceive(w, m)
    BY <1>3, <2>1 DEF DeliverToWorker, WorkerMoves
  <2>3. m \in ToWorker
    BY <2>1, <2>2, HeadHeard
  <2>4. CASE RecvJoinReply(w, m)
    <3>1. \A u \in Worker \ {w} : wlog'[u] = wlog[u] /\ joinedAt'[u] = joinedAt[u]
      BY <1>1, <2>4 DEF RecvJoinReply, Write, WorkerTypeOK
    <3>2. CASE m.kind = "JOIN_SUCCESS"
      BY <1>2, <2>1, <2>2, <2>4, <3>1, <3>2, JoinAdvances
    <3>3. CASE m.kind # "JOIN_SUCCESS"
      <4>1. joinedAt' = joinedAt /\ wlog'[w] = Append(wlog[w], Rec("JOINTX", m.tid))
        BY <1>1, <2>4, <3>3 DEF RecvJoinReply, Write, WorkerTypeOK
      <4>2. Rec("JOINTX", m.tid) \in WorkerRecord
        BY <2>3, RecType DEF RecordTag, ToWorker
      <4>3. Rec("JOINTX", m.tid).kind \notin Own
        BY DEF Rec, Own
      <4>4. QED
        BY <1>2, <3>1, <4>1, <4>2, <4>3, NotingStep
    <3>4. QED
      BY <3>2, <3>3
  <2>5. CASE RecvPrepare(w, m)
    <3>1. \A u \in Worker \ {w} : wlog'[u] = wlog[u] /\ joinedAt'[u] = joinedAt[u]
      BY <1>1, <2>5 DEF RecvPrepare, WorkerTypeOK
    <3>2. QED
      BY <1>2, <2>3, <2>5, <3>1, PrepareAdvances
  <2>6. CASE RecvDecision(w, m)
    <3>1. \A u \in Worker \ {w} : wlog'[u] = wlog[u] /\ joinedAt'[u] = joinedAt[u]
      BY <1>1, <2>6 DEF RecvDecision, Write, WorkerTypeOK
    <3>2. QED
      BY <1>2, <2>1, <2>2, <2>6, <3>1, DecisionAdvances
  <2>7. CASE RecvOther(w, m)
    BY <1>2, <2>7, NotingStep DEF RecvOther
  <2>8. QED
    BY <2>2, <2>4, <2>5, <2>6, <2>7 DEF WorkerReceive
<1>4. CASE PollTimeout(w)
  <2>1. wlog' = wlog /\ joinedAt' = joinedAt
    BY <1>4 DEF PollTimeout, WorkerMoves, Poll
  <2>2. QED
    BY <1>2, <2>1, NotingStep
<1>5. CASE UserCommand(w)
  <2>1. CmdAny(w)
    BY <1>5 DEF UserCommand, WorkerMoves
  <2>2. \A u \in Worker \ {w} : wlog'[u] = wlog[u] /\ joinedAt'[u] = joinedAt[u]
    BY <1>1, <2>1, CommandAlone
  <2>3. ASSUME NEW kind \in {"ABORT", "ABORT_CRASH"}, CmdAbort(w, kind) PROVE Advances(w)
    BY <2>3, AbortAdvances
  <2>4. ASSUME NEW kind \in {"COMMIT", "COMMIT_CRASH"}, CmdCommit(w, kind) PROVE Advances(w)
    <3>1. joinedAt' = joinedAt /\ wlog'[w] = Append(wlog[w], Rec(kind, mem[w].curTid))
      BY <1>1, <2>4 DEF CmdCommit, Write, WorkerTypeOK
    <3>2. kind \in RecordTag /\ mem[w].curTid \in AnyTid
      BY <1>1 DEF RecordTag, WorkerTypeOK, Memory
    <3>3. Rec(kind, mem[w].curTid) \in WorkerRecord
      BY <3>2, RecType
    <3>4. Rec(kind, mem[w].curTid).kind \notin Own
      BY DEF Rec, Own
    <3>5. QED
      BY <3>1, <3>3, <3>4, NotingStep
  <2>5. ASSUME NEW f \in Field, NEW v \in Value, CmdUpdate(w, f, v) PROVE Advances(w)
    <3> DEFINE r == [kind |-> "NEW_VALUE", tid |-> mem[w].curTid, field |-> f, old |-> obj[w][f]]
    <3>1. joinedAt' = joinedAt /\ (wlog'[w] = wlog[w] \/ wlog'[w] = Append(wlog[w], r))
      BY <1>1, <2>5 DEF CmdUpdate, Write, WorkerTypeOK
    <3>2. r \in WorkerRecord
      BY <1>1 DEF WorkerRecord, WorkerTypeOK, Data, Memory
    <3>3. r.kind \notin Own
      BY DEF Own
    <3> HIDE DEF r
    <3>4. QED
      BY <3>1, <3>2, <3>3, NotingStep
  <2>6. CASE \/ \E t \in Tid : CmdBegin(w, t) \/ CmdJoin(w, t)
             \/ \E d \in Delay : CmdDelay(w, d)
             \/ CmdCrash(w)
             \/ CmdVoteAbort(w)
    <3>1. wlog' = wlog /\ joinedAt' = joinedAt
      BY <2>6 DEF CmdBegin, CmdJoin, CmdDelay, CmdCrash, CmdVoteAbort
    <3>2. QED
      BY <1>2, <3>1, NotingStep
  <2>7. Advances(w)
    BY <2>1, <2>3, <2>4, <2>5, <2>6 DEF CmdAny
  <2>8. QED
    BY <1>2, <2>2, <2>7
<1>6. CASE RestartWorker(w)
  <2>1. WorkerRestart(w)
    BY <1>6 DEF RestartWorker, WorkerMoves
  <2>2. LastRecord(w).kind \in Resolved
    BY <2>1 DEF WorkerRestart, CommitInv, WorkerInv, WorkerOK, Engagement, Unsure, Resolved
  <2>3. wlog' = wlog /\ joinedAt' = joinedAt
    BY <2>1, <2>2 DEF WorkerRestart
  <2>4. QED
    BY <1>2, <2>3, NotingStep
<1>7. QED
  BY <1>3, <1>4, <1>5, <1>6

\* What a step of the manager may do to the outcome of a transaction.
Decides(t) ==
  /\ Outcome(t) = "open"
  /\ \/ Outcome(t)' = "abort"
     \/ /\ Outcome(t)' = "commit"
        /\ \A w \in Worker : Stage(w, t) \in {"out", "prepared"}
        /\ \E w \in Worker : Stage(w, t) = "prepared"

Resolves ==
  \/ \A t \in Tid : Outcome(t)' = Outcome(t)
  \/ \E t \in Tid : Decides(t) /\ \A u \in Tid \ {t} : Outcome(u)' = Outcome(u)

(* One record more in the manager's log.                                         *)
LEMMA OutcomeLogged ==
  ASSUME NEW d, NEW t, mlog' = mlog \cup {[kind |-> d, tid |-> t]}, NEW u, u # t \/ d = "COMMIT_REQ"
  PROVE  Outcome(u)' = Outcome(u)
<1>1. /\ Logged("DECIDE_COMMIT", u)' <=> Logged("DECIDE_COMMIT", u)
      /\ Logged("DECIDE_ABORT", u)' <=> Logged("DECIDE_ABORT", u)
  BY DEF Logged
<1>2. QED
  BY <1>1 DEF Outcome, Recorded

(* An abort decides what was open.                                               *)
LEMMA AbortResolves ==
  ASSUME NEW t, mlog' = mlog \cup {[kind |-> "DECIDE_ABORT", tid |-> t]}
  PROVE  Resolves
<1>1. \A u \in Tid \ {t} : Outcome(u)' = Outcome(u)
  BY OutcomeLogged
<1>2. /\ Logged("DECIDE_COMMIT", t)' <=> Logged("DECIDE_COMMIT", t)
      /\ Logged("DECIDE_ABORT", t)'
  BY DEF Logged
<1>3. Outcome(t)' = Outcome(t) \/ Decides(t)
  BY <1>2 DEF Outcome, Recorded, Decides
<1>4. QED
  BY <1>1, <1>3 DEF Resolves

(* A commit decides what was open, when everybody who joined, and somebody did,  *)
(* is prepared.                                                                  *)
LEMMA CommitResolves ==
  ASSUME SystemTypeOK, BufferInv, Signed, CommitInv, CommitInv', UNCHANGED <<wlog, joinedAt, mem>>,
         NEW r \in Worker, toM[r] # <<>>, NEW m, m = Head(toM[r]),
         NEW k \in 0..MaxTrans, FirstHolding(m.tid, k), DecideCommit(m, k)
  PROVE  Resolves
<1>1. m \in Range(toM[r]) /\ m.kind \in Followup
  BY HeadRead DEF DecideCommit, Followup, Ballot
<1>2. /\ Tx(r) = m.tid /\ m.tid \in Tid
      /\ k # 0 => k \in Slot /\ table[k].tid = m.tid
  <2>1. Tx(r) = m.tid /\ m.tid \in Tid
    BY <1>1 DEF CommitInv, WorkerInv, WorkerOK, Engagement
  <2>2. k # 0 => k \in Holding(m.tid)
    BY DEF FirstHolding, IsFirst
  <2>3. QED
    BY <2>1, <2>2 DEF Holding
<1>3. PICK t \in Tid : t = m.tid
  BY <1>2
<1>4. mlog' = mlog \cup {[kind |-> "DECIDE_COMMIT", tid |-> t]}
  BY <1>3 DEF DecideCommit, Decide
<1>5. \A u \in Tid \ {t} : Outcome(u)' = Outcome(u)
  BY <1>4, OutcomeLogged
<1>6. CASE Logged("DECIDE_COMMIT", t)
  <2>1. Outcome(t)' = Outcome(t)
    BY <1>4, <1>6 DEF Outcome, Recorded, Logged
  <2>2. QED
    BY <1>5, <2>1 DEF Resolves
<1>7. CASE ~Logged("DECIDE_COMMIT", t)
  <2>1. k # 0
    BY <1>3, <1>7 DEF DecideCommit, Verdicts
  <2>2. k \in Holding(t)
    BY <1>2, <1>3, <2>1 DEF Holding
  <2>3. ~Logged("DECIDE_ABORT", t)
    BY <2>2 DEF CommitInv, LogInv
  <2>4. Outcome(t) = "open" /\ Outcome(t)' = "commit"
    BY <1>4, <1>7, <2>3 DEF Outcome, Recorded, Logged
  <2>5. Logged("DECIDE_COMMIT", t)'
    BY <1>4 DEF Logged
  <2>6. ASSUME NEW w \in Worker, joinedAt[w][t] # <<>> PROVE Stage(w, t) = "prepared"
    <3>1. Tx(w) = t
      BY <2>6 DEF CommitInv, WorkerInv, WorkerOK, Engagement
    <3>2. Tx(w)' = t
      BY <3>1 DEF Tx, LastRecord
    <3>3. Prepared(w, t)'
      BY <2>5, <3>2 DEF CommitInv, WorkerInv, WorkerOK, Verdict, Admitted
    <3>4. Prepared(w, t)
      BY <3>3 DEF Prepared, Rec
    <3>5. QED
      BY <2>6, <3>4 DEF Stage
  <2>7. \A w \in Worker : Stage(w, t) \in {"out", "prepared"}
    BY <2>6 DEF Stage
  <2>8. joinedAt[r][t] # <<>>
    BY <1>2, <1>3 DEF CommitInv, WorkerInv, WorkerOK, Engagement
  <2>9. QED
    BY <1>5, <2>4, <2>6, <2>7, <2>8 DEF Decides, Resolves
<1>8. QED
  BY <1>6, <1>7

(* A manager's step decides at most one transaction.                             *)
LEMMA ManagerResolves ==
  ASSUME SystemTypeOK, BufferInv, Signed, CommitInv, CommitInv',
         ManagerTimeout \/ \E r \in Worker : DeliverToManager(r)
  PROVE  Resolves /\ UNCHANGED <<wlog, joinedAt>>
<1>1. UNCHANGED <<wlog, joinedAt, mem>>
  BY DEF ManagerTimeout, DeliverToManager, ManagerMoves
<1>2. CASE ManagerTimeout
  <2>1. PICK k \in Slot : mlog' = mlog \cup {[kind |-> "DECIDE_ABORT", tid |-> table[k].tid]}
    BY <1>2 DEF ManagerTimeout, ManagerMoves, MgrTimeout
  <2>2. QED
    BY <1>1, <2>1, AbortResolves
<1>3. ASSUME NEW r \in Worker, DeliverToManager(r) PROVE Resolves
  <2>1. PICK m : m = Head(toM[r])
    OBVIOUS
  <2>2. toM[r] # <<>> /\ MgrReceive(m)
    BY <1>3, <2>1 DEF DeliverToManager, ManagerMoves
  <2>3. CASE mlog' = mlog
    BY <2>3 DEF Resolves, Outcome, Logged
  <2>4. CASE MgrBegin(m) \/ MgrJoin(m)
    BY <2>3, <2>4 DEF MgrBegin, MgrJoin
  <2>5. CASE MgrCommit(m)
    <3>1. mlog' = mlog \cup {[kind |-> "COMMIT_REQ", tid |-> m.tid]}
      BY <2>5 DEF MgrCommit
    <3>2. \A u : Outcome(u)' = Outcome(u)
      BY <3>1, OutcomeLogged
    <3>3. QED
      BY <3>2 DEF Resolves
  <2>6. CASE MgrVoteAbort(m)
    <3>1. mlog' = mlog \cup {[kind |-> "DECIDE_ABORT", tid |-> m.tid]}
      BY <2>6 DEF MgrVoteAbort, Decide
    <3>2. QED
      BY <3>1, AbortResolves
  <2>7. CASE MgrVoteCommit(m)
    <3>1. PICK k \in 0..MaxTrans :
            /\ FirstHolding(m.tid, k)
            /\ \/ StillWaiting(m, k)
               \/ AnswerAbort(m, k)
               \/ AnswerCommit(m, k)
               \/ DecideCommit(m, k)
      BY <2>7 DEF MgrVoteCommit
    <3>2. CASE DecideCommit(m, k)
      BY <1>1, <2>1, <2>2, <3>1, <3>2, CommitResolves
    <3>3. CASE StillWaiting(m, k) \/ AnswerAbort(m, k) \/ AnswerCommit(m, k)
      BY <2>3, <3>3 DEF StillWaiting, AnswerAbort, AnswerCommit
    <3>4. QED
      BY <3>1, <3>2, <3>3
  <2>8. QED
    BY <2>2, <2>4, <2>5, <2>6, <2>7 DEF MgrReceive
<1>4. QED
  BY <1>1, <1>2, <1>3

(* Changing one entry of a table of tables.                                      *)
LEMMA EntryChanged ==
  ASSUME NEW f, NEW g, NEW t \in Tid, NEW w \in Worker,
         f = [u \in Tid |-> [x \in Worker |-> f[u][x]]],
         g = [u \in Tid |-> [x \in Worker |-> g[u][x]]],
         \A u \in Tid, x \in Worker : (u # t \/ x # w) => g[u][x] = f[u][x]
  PROVE  g = [f EXCEPT ![t][w] = g[t][w]]
<1>1. f[t] = [x \in Worker |-> f[t][x]] /\ g[t] = [x \in Worker |-> g[t][x]]
  <2>1. ASSUME NEW h, h = [u \in Tid |-> [x \in Worker |-> h[u][x]]]
        PROVE  h[t] = [x \in Worker |-> h[t][x]]
    BY <2>1
  <2>2. QED
    BY <2>1
<1>2. g[t] = [f[t] EXCEPT ![w] = g[t][w]]
  BY <1>1
<1>3. ASSUME NEW u \in Tid, u # t PROVE g[u] = f[u]
  <2>1. ASSUME NEW h, h = [v \in Tid |-> [x \in Worker |-> h[v][x]]]
        PROVE  h[u] = [x \in Worker |-> h[u][x]]
    BY <2>1
  <2>2. f[u] = [x \in Worker |-> f[u][x]] /\ g[u] = [x \in Worker |-> g[u][x]]
    BY <2>1
  <2>3. QED
    BY <1>3, <2>2
<1>4. g = [f EXCEPT ![t] = g[t]]
  <2>1. DOMAIN f = Tid /\ DOMAIN g = Tid
    OBVIOUS
  <2>2. f = [u \in Tid |-> f[u]] /\ g = [u \in Tid |-> g[u]]
    <3>1. ASSUME NEW h, h = [v \in Tid |-> [x \in Worker |-> h[v][x]]]
          PROVE  h = [u \in Tid |-> h[u]]
      BY <3>1
    <3>2. QED
      BY <3>1
  <2>3. QED
    BY <1>3, <2>1, <2>2
<1>5. QED
  BY <1>2, <1>4

\* The abstract state.
StageOf == [t \in Tid |-> [w \in Worker |-> Stage(w, t)]]
OutcomeOf == [t \in Tid |-> Outcome(t)]
LearntOf == [t \in Tid |-> [w \in Worker |-> Learnt(w, t)]]

(* A worker's step is one of AtomicCommit, or none.                              *)
LEMMA WorkerPromise ==
  ASSUME NEW w \in Worker, Advances(w), UNCHANGED mlog,
         \A u \in Worker \ {w} : wlog'[u] = wlog[u] /\ joinedAt'[u] = joinedAt[u]
  PROVE  [Promise!Next]_(Promise!vars)
<1>1. \A t \in Tid : Outcome(t)' = Outcome(t)
  BY DEF Outcome, Logged
<1>2. OutcomeOf' = OutcomeOf
  BY <1>1 DEF OutcomeOf
<1>3. ASSUME NEW u \in Worker \ {w}, NEW t \in Tid PROVE Same(u, t)
  <2>1. wlog'[u] = wlog[u] /\ joinedAt'[u] = joinedAt[u]
    OBVIOUS
  <2>2. (Prepared(u, t)' <=> Prepared(u, t)) /\ \A kind : Wrote(u, kind, t)' <=> Wrote(u, kind, t)
    BY <2>1 DEF Prepared, Wrote, Rec
  <2>3. QED
    BY <2>1, <2>2, SameStage, SameLearnt DEF Same
<1>4. \A t \in Tid, u \in Worker : /\ StageOf[t][u] = Stage(u, t) /\ StageOf'[t][u] = Stage(u, t)'
                                   /\ LearntOf[t][u] = Learnt(u, t) /\ LearntOf'[t][u] = Learnt(u, t)'
  BY DEF StageOf, LearntOf
<1>5. \A t \in Tid : OutcomeOf[t] = Outcome(t)
  BY DEF OutcomeOf
<1>6. /\ StageOf = [t \in Tid |-> [u \in Worker |-> StageOf[t][u]]]
      /\ StageOf' = [t \in Tid |-> [u \in Worker |-> StageOf'[t][u]]]
      /\ LearntOf = [t \in Tid |-> [u \in Worker |-> LearntOf[t][u]]]
      /\ LearntOf' = [t \in Tid |-> [u \in Worker |-> LearntOf'[t][u]]]
  BY DEF StageOf, LearntOf
<1>7. (\A t \in Tid, u \in Worker : Stage(u, t)' = Stage(u, t)) => StageOf' = StageOf
  BY DEF StageOf
<1>8. (\A t \in Tid, u \in Worker : Learnt(u, t)' = Learnt(u, t)) => LearntOf' = LearntOf
  BY DEF LearntOf
<1>9. CASE \A t \in Tid : Same(w, t)
  <2>1. StageOf' = StageOf /\ LearntOf' = LearntOf
    BY <1>3, <1>7, <1>8, <1>9 DEF Same
  <2>2. QED
    BY <1>2, <2>1 DEF StageOf, OutcomeOf, LearntOf, Promise!vars
<1>10. ASSUME NEW t \in Tid, \A u \in Tid \ {t} : Same(w, u),
              Joins(w, t) \/ Answers(w, t) \/ Learns(w, t)
       PROVE  Promise!Next
  <2>1. \A u \in Tid, x \in Worker : (u # t \/ x # w) =>
          StageOf'[u][x] = StageOf[u][x] /\ LearntOf'[u][x] = LearntOf[u][x]
    BY <1>3, <1>4, <1>10 DEF Same
  <2>2. StageOf' = [StageOf EXCEPT ![t][w] = Stage(w, t)']
    <3>1. StageOf' = [StageOf EXCEPT ![t][w] = StageOf'[t][w]]
      BY <1>6, <2>1, EntryChanged
    <3>2. QED
      BY <1>4, <3>1
  <2>3. LearntOf' = [LearntOf EXCEPT ![t][w] = Learnt(w, t)']
    <3>1. LearntOf' = [LearntOf EXCEPT ![t][w] = LearntOf'[t][w]]
      BY <1>6, <2>1, EntryChanged
    <3>2. QED
      BY <1>4, <3>1
  <2>4. CASE Joins(w, t)
    <3>1. LearntOf' = LearntOf
      BY <1>3, <1>8, <1>10, <2>4 DEF Joins, Same
    <3>2. /\ StageOf[t][w] = "out" /\ OutcomeOf[t] # "commit"
          /\ StageOf' = [StageOf EXCEPT ![t][w] = "working"]
      BY <1>4, <1>5, <2>2, <2>4 DEF Joins
    <3>3. Promise!Join(t, w)
      BY <1>2, <3>1, <3>2 DEF Promise!Join, StageOf, OutcomeOf, LearntOf
    <3>4. QED
      BY <3>3 DEF Promise!Next
  <2>5. CASE Answers(w, t)
    <3>1. LearntOf' = LearntOf
      BY <1>3, <1>8, <1>10, <2>5 DEF Answers, Same
    <3>2. /\ StageOf[t][w] = "working"
          /\ \E a \in {"prepared", "refused"} : StageOf' = [StageOf EXCEPT ![t][w] = a]
      BY <1>4, <2>2, <2>5 DEF Answers
    <3>3. Promise!Answer(t, w)
      BY <1>2, <3>1, <3>2 DEF Promise!Answer, StageOf, OutcomeOf, LearntOf
    <3>4. QED
      BY <3>3 DEF Promise!Next
  <2>6. CASE Learns(w, t)
    <3>1. StageOf' = StageOf
      BY <1>3, <1>7, <1>10, <2>6 DEF Learns, Same
    <3>2. /\ LearntOf[t][w] = "open" /\ OutcomeOf[t] # "open"
          /\ LearntOf' = [LearntOf EXCEPT ![t][w] = OutcomeOf[t]]
      BY <1>4, <1>5, <2>3, <2>6 DEF Learns
    <3>3. Promise!Learn(t, w)
      BY <1>2, <3>1, <3>2 DEF Promise!Learn, StageOf, OutcomeOf, LearntOf
    <3>4. QED
      BY <3>3 DEF Promise!Next
  <2>7. QED
    BY <1>10, <2>4, <2>5, <2>6
<1>11. QED
  BY <1>9, <1>10 DEF Advances

(* So is a manager's.                                                            *)
LEMMA ManagerPromise ==
  ASSUME Resolves, UNCHANGED <<wlog, joinedAt>>
  PROVE  [Promise!Next]_(Promise!vars)
<1>1. \A t \in Tid, w \in Worker : Stage(w, t)' = Stage(w, t) /\ Learnt(w, t)' = Learnt(w, t)
  <2>1. ASSUME NEW t \in Tid, NEW w \in Worker
        PROVE  Stage(w, t)' = Stage(w, t) /\ Learnt(w, t)' = Learnt(w, t)
    <3>1. (Prepared(w, t)' <=> Prepared(w, t)) /\ \A kind : Wrote(w, kind, t)' <=> Wrote(w, kind, t)
      BY DEF Prepared, Wrote, Rec
    <3>2. QED
      BY <3>1, SameStage, SameLearnt
  <2>2. QED
    BY <2>1
<1>2. StageOf' = StageOf /\ LearntOf' = LearntOf
  BY <1>1 DEF StageOf, LearntOf
<1>3. CASE \A t \in Tid : Outcome(t)' = Outcome(t)
  <2>1. OutcomeOf' = OutcomeOf
    BY <1>3 DEF OutcomeOf
  <2>2. QED
    BY <1>2, <2>1 DEF StageOf, OutcomeOf, LearntOf, Promise!vars
<1>4. ASSUME NEW t \in Tid, Decides(t), \A u \in Tid \ {t} : Outcome(u)' = Outcome(u)
      PROVE  Promise!Next
  <2>1. OutcomeOf' = [OutcomeOf EXCEPT ![t] = Outcome(t)'] /\ OutcomeOf[t] = "open"
    BY <1>4 DEF OutcomeOf, Decides
  <2>2. \A w \in Worker : StageOf[t][w] = Stage(w, t)
    BY DEF StageOf
  <2>3. CASE Outcome(t)' = "abort"
    <3>1. Promise!Abort(t)
      BY <1>2, <2>1, <2>3 DEF Promise!Abort, StageOf, OutcomeOf, LearntOf
    <3>2. QED
      BY <3>1 DEF Promise!Next
  <2>4. CASE Outcome(t)' # "abort"
    <3>1. /\ OutcomeOf' = [OutcomeOf EXCEPT ![t] = "commit"]
          /\ \A w \in Worker : StageOf[t][w] \in {"out", "prepared"}
          /\ \E w \in Worker : StageOf[t][w] = "prepared"
      BY <1>4, <2>1, <2>2, <2>4 DEF Decides
    <3>2. Promise!Commit(t)
      BY <1>2, <2>1, <3>1 DEF Promise!Commit, StageOf, OutcomeOf, LearntOf
    <3>3. QED
      BY <3>2 DEF Promise!Next
  <2>5. QED
    BY <2>3, <2>4
<1>5. QED
  BY <1>3, <1>4 DEF Resolves

(* The start of the system is that of AtomicCommit: nobody has joined anything.  *)
LEMMA PromiseStart ==
  ASSUME Init
  PROVE  Promise!Init
<1>1. mlog = {} /\ wlog = [w \in Worker |-> <<>>] /\ joinedAt = [w \in Worker |-> [t \in Tid |-> <<>>]]
  BY DEF Init, MgrInit, WorkerInit
<1>2. ASSUME NEW t \in Tid, NEW w \in Worker
      PROVE  Stage(w, t) = "out" /\ Learnt(w, t) = "open" /\ Outcome(t) = "open"
  <2>1. wlog[w] = <<>> /\ joinedAt[w][t] = <<>>
    BY <1>1
  <2>2. QED
    BY <1>1, <2>1 DEF Stage, Learnt, Outcome, Recorded, Wrote, Logged
<1>3. \A t \in Tid : Outcome(t) = "open"
  BY <1>1 DEF Outcome, Recorded, Logged
<1>4. QED
  BY <1>2, <1>3 DEF Promise!Init

(* While the manager runs, every step of the system is one of AtomicCommit, or   *)
(* none: the protocol keeps its promise (tmanager.c:634, tworker.c:565).         *)
THEOREM OrderlyKeepsPromise ==
  ASSUME ~Lossy, ~ReuseTids
  PROVE  OrderlySpec => KeepsPromise
<1>1. Init => Promise!Init
  BY PromiseStart
<1>2. SafeInv /\ SafeInv' /\ [Next]_vars /\ [Orderly]_vars => [Promise!Next]_(Promise!vars)
  <2>1. SUFFICES ASSUME SafeInv, SafeInv', [Next]_vars, [Orderly]_vars
                 PROVE  [Promise!Next]_(Promise!vars)
    OBVIOUS
  <2>2. SystemTypeOK /\ BufferInv /\ Signed /\ CommitInv /\ CommitInv'
    BY <2>1 DEF SafeInv
  <2>3. CASE UNCHANGED vars
    <3>1. UNCHANGED <<mlog, wlog, joinedAt>>
      BY <2>3 DEF vars, mgrVars, workerVars
    <3>2. Resolves
      BY <3>1 DEF Resolves, Outcome, Logged
    <3>3. QED
      BY <3>1, <3>2, ManagerPromise
  <2>4. CASE Next /\ Orderly
    <3>1. CASE ManagerTimeout \/ \E r \in Worker : DeliverToManager(r)
      BY <2>2, <3>1, ManagerResolves, ManagerPromise
    <3>2. ASSUME NEW w \in Worker,
                 DeliverToWorker(w) \/ PollTimeout(w) \/ UserCommand(w) \/ RestartWorker(w)
          PROVE  [Promise!Next]_(Promise!vars)
      BY <2>2, <3>2, WorkerAdvances, WorkerPromise
    <3>3. OnlyThese
      BY <2>2, <2>4, OrderlySteps
    <3>4. QED
      BY <3>1, <3>2, <3>3 DEF OnlyThese
  <2>5. QED
    BY <2>1, <2>3, <2>4
<1>3. QED
  BY <1>1, <1>2, SafeInvariant, PTL DEF OrderlySpec, Spec, KeepsPromise, Promise!Spec
===============================================================================
