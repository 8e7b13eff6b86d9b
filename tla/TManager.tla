------------------------------- MODULE TManager -------------------------------
(* The transaction manager (transaction_management/tmanager.c): the message    *)
(* loop handleWorkerMsg with everything a handler changes, the 10 s timeout,   *)
(* the crashes the program makes on request, kills from outside and restart.   *)
(* TxSystem composes these actions with the workers.  Spec, at the end, puts   *)
(* the manager in an environment that may send it anything.                    *)
EXTENDS TxMessages, Integers, Sequences, FiniteSets

CONSTANTS
  MaxTrans,    \* slots of the table of running transactions (5 in tworker.h)
  MaxNodes,    \* members a slot has room for (10 in tworker.h)
  ReuseTids,   \* TRUE: BEGINTX may name a transaction that was begun before
  TornKills    \* TRUE: a kill may come in the middle of a handler

ASSUME SizesAssumption == MaxTrans \in Nat \ {0} /\ MaxNodes \in Nat \ {0}
ASSUME SwitchesAssumption == ReuseTids \in BOOLEAN /\ TornKills \in BOOLEAN

VARIABLES
  mlog,     \* the transaction log; it is only ever searched, so a set, and
            \* without its JOINTX records, which no search looks for
  table,    \* crashInfo->workerInfo, mapped from the log file
  mgrUp,    \* the process runs
  resume,   \* slots the restart loop of main has still to go through
  begun,    \* history: transactions the manager received a BEGINTX for
  sent      \* what the last step passed to sendto, per worker, in order

mgrVars == <<mlog, table, mgrUp, resume, begun, sent>>

Slot == 1..MaxTrans

Member == [id: Worker, voted: BOOLEAN]

Free == [tid |-> NoTid, isCrash |-> FALSE, members |-> <<>>]

RecordKind == {"COMMIT_REQ", "DECIDE_COMMIT", "DECIDE_ABORT"}

MgrTypeOK ==
  /\ mlog \subseteq [kind: RecordKind, tid: AnyTid]
  /\ table \in [Slot -> [tid: AnyTid, isCrash: BOOLEAN, members: Seq(Member)]]
  /\ \A k \in Slot : Len(table[k].members) <= MaxNodes
  /\ mgrUp \in BOOLEAN
  /\ resume \in 0..MaxTrans
  /\ begun \subseteq AnyTid
  /\ sent \in [Worker -> Seq(ToWorker)]

-------------------------------------------------------------------------------
\* Searching the log and the table

Logged(kind, tid) == [kind |-> kind, tid |-> tid] \in mlog

IsFirst(k, S) == k \in S /\ \A j \in S : k <= j

Holding(tid) == {k \in Slot : table[k].tid = tid}

\* setCrash, getCrash, collectVote and cleanWorkerInfo all take the first slot
\* that holds tid; 0 stands for "the loop found none".
FirstHolding(tid, k) == IF Holding(tid) = {} THEN k = 0 ELSE IsFirst(k, Holding(tid))

\* saveWorkerInfo stops at the first slot that holds tid or is free.
FirstMet(tid, k) == IsFirst(k, Holding(tid) \cup Holding(NoTid))

\* What the timeout finds "waiting for votes".  The comparison that should end
\* the scan at a decision, msgID == (DECIDE_ABORT || DECIDE_COMMIT), compares
\* with 1 and never holds.
Waiting == {k \in Slot : Logged("COMMIT_REQ", table[k].tid)}

-------------------------------------------------------------------------------
\* Sending

Silence == [w \in Worker |-> <<>>]

Reply(m, kind) ==
  [w \in Worker |-> IF w = m.from THEN <<[kind |-> kind, tid |-> m.tid]>> ELSE <<>>]

Entries(tid, w) ==
  {e \in Slot \X (1..MaxNodes) :
     /\ table[e[1]].tid = tid
     /\ e[2] \in DOMAIN table[e[1]].members
     /\ table[e[1]].members[e[2]].id = w}

\* sendToAllWorkers goes over every slot that holds tid: a worker listed twice
\* is sent the message twice.
Broadcast(tid, kind) ==
  [w \in Worker |->
     [i \in 1..Cardinality(Entries(tid, w)) |-> [kind |-> kind, tid |-> tid]]]

\* What a sender killed on the way has sent: member by member, up to the one
\* in place last.
BroadcastUpTo(tid, kind, last) ==
  [w \in Worker |-> IF \E e \in Entries(tid, w) : e[2] <= last
                    THEN Broadcast(tid, kind)[w]
                    ELSE <<>>]

-------------------------------------------------------------------------------
\* Changing the table

WithSlot(k, slot) == [j \in Slot |-> IF j = k THEN slot ELSE table[j]]

\* Mutant of Cleaned: the slot keeps its transaction.
CleanedNot(k) == table

Cleaned(k) == WithSlot(k, Free)

\* Mutant of Enrolled: no check that the member list has room.
EnrolledUnbounded(k, w) ==
  [table EXCEPT ![k].members = Append(@, [id |-> w, voted |-> FALSE])]

Enrolled(k, w) ==
  IF Len(table[k].members) < MaxNodes
  THEN [table EXCEPT ![k].members = Append(@, [id |-> w, voted |-> FALSE])]
  ELSE table

\* collectVote marks the first entry of the sender, for a poll as for a vote:
\* its test "msg.msgID == VOTE_COMMIT || VOTE_ABORT" is always true.
Voted(members, w) ==
  [j \in DOMAIN members |->
     IF members[j].id = w /\ \A i \in 1..(j - 1) : members[i].id # w
     THEN [members[j] EXCEPT !.voted = TRUE]
     ELSE members[j]]

VotedSlot(k, m) ==
  [table[k] EXCEPT !.isCrash = @ \/ m.isCrash, !.members = Voted(@, m.from)]

Counted(k, m) == IF k = 0 THEN table ELSE WithSlot(k, VotedSlot(k, m))

\* Mutant of Verdicts: a transaction without a slot is taken for aborted.
VerdictsForgetLog(k, m) ==
  IF k = 0 \/ table[k].members = <<>>
  THEN {"DECIDE_ABORT"}
  ELSE LET members == VotedSlot(k, m).members IN
       {IF \A j \in DOMAIN members : members[j].voted THEN "DECIDE_COMMIT" ELSE "WAIT"}

\* The value collectVote may return: with no slot the log decides, with a slot
\* the first member that has not voted makes it wait.  A slot without members
\* leaves its result uninitialised: any outcome.
Verdicts(k, m) ==
  IF k = 0
  THEN {IF Logged("DECIDE_COMMIT", m.tid) THEN "DECIDE_COMMIT" ELSE "DECIDE_ABORT"}
  ELSE IF table[k].members = <<>>
  THEN {"DECIDE_COMMIT", "DECIDE_ABORT", "WAIT"}
  ELSE LET members == VotedSlot(k, m).members IN
       {IF \A j \in DOMAIN members : members[j].voted THEN "DECIDE_COMMIT" ELSE "WAIT"}

CrashAsked(k, m) == k # 0 /\ (table[k].isCrash \/ m.isCrash)

-------------------------------------------------------------------------------
\* The handlers of handleWorkerMsg

MgrBegin(m) ==
  /\ m.kind = "BEGINTX"
  /\ begun' = begun \cup {m.tid}
  /\ \/ /\ \E k \in Slot : FirstMet(m.tid, k) /\ table[k].tid = m.tid
        /\ sent' = Reply(m, "BEGIN_FAIL")
        /\ UNCHANGED table
     \/ /\ \E k \in Slot :
             /\ FirstMet(m.tid, k)
             /\ table[k].tid # m.tid
             /\ table' = [table EXCEPT ![k].tid = m.tid]
        /\ sent' = Reply(m, "BEGIN_SUCCESS")
     \* a full table: nothing is saved, and the answer is still success
     \/ /\ Holding(m.tid) \cup Holding(NoTid) = {}
        /\ sent' = Reply(m, "BEGIN_SUCCESS")
        /\ UNCHANGED table
  /\ UNCHANGED <<mlog, mgrUp, resume>>

MgrJoin(m) ==
  /\ m.kind = "JOINTX"
  /\ \/ \E k \in Slot :
          /\ FirstMet(m.tid, k)
          /\ table[k].tid = m.tid
          /\ table' = Enrolled(k, m.from)
          /\ sent' = Reply(m, "JOIN_SUCCESS")
          /\ UNCHANGED mgrUp
     \/ /\ \E k \in Slot : FirstMet(m.tid, k) /\ table[k].tid # m.tid
        /\ sent' = Reply(m, "JOIN_FAIL")
        /\ UNCHANGED <<table, mgrUp>>
     \* no slot met: the slot index is uninitialised when it is used.  The
     \* worker lands in some slot, or the access kills the manager.
     \/ /\ Holding(m.tid) \cup Holding(NoTid) = {}
        /\ \/ /\ \E k \in Slot : table' = Enrolled(k, m.from)
              /\ sent' = Reply(m, "JOIN_SUCCESS")
              /\ UNCHANGED mgrUp
           \/ /\ mgrUp' = FALSE
              /\ sent' = Silence
              /\ UNCHANGED table
  /\ UNCHANGED <<mlog, resume, begun>>

MgrCommit(m) ==
  /\ m.kind = "COMMIT"
  /\ mlog' = mlog \cup {[kind |-> "COMMIT_REQ", tid |-> m.tid]}
  /\ sent' = Broadcast(m.tid, "PREPARE_COMMIT")
  /\ UNCHANGED <<table, mgrUp, resume, begun>>

\* POLL_DECISION and VOTE_COMMIT share a case: crash flag, then the vote, then
\* one of the four things the decision leads to.
StillWaiting(m, k) ==
  /\ "WAIT" \in Verdicts(k, m)
  /\ table' = Counted(k, m)
  /\ sent' = Silence
  /\ UNCHANGED <<mlog, mgrUp>>

\* Mutant of AnswerAbort: the decision is reached but not sent.
AnswerAbortSilently(m, k) ==
  /\ "DECIDE_ABORT" \in Verdicts(k, m)
  /\ table' = Counted(k, m)
  /\ sent' = Silence
  /\ UNCHANGED <<mlog, mgrUp>>

AnswerAbort(m, k) ==
  /\ "DECIDE_ABORT" \in Verdicts(k, m)
  /\ table' = Counted(k, m)
  /\ sent' = Reply(m, "DECIDE_ABORT")
  /\ UNCHANGED <<mlog, mgrUp>>

AnswerCommit(m, k) ==
  /\ "DECIDE_COMMIT" \in Verdicts(k, m)
  /\ m.kind = "POLL_DECISION"
  /\ table' = Counted(k, m)
  /\ sent' = Reply(m, "DECIDE_COMMIT")
  /\ UNCHANGED <<mlog, mgrUp>>

\* Logging a decision and either dying on request or telling every member; the
\* slot is freed both ways.
Decide(m, k, decision) ==
  /\ mlog' = mlog \cup {[kind |-> decision, tid |-> m.tid]}
  /\ sent' = IF CrashAsked(k, m) THEN Silence ELSE Broadcast(m.tid, decision)
  /\ mgrUp' = ~CrashAsked(k, m)
  /\ table' = Cleaned(k)

DecideCommit(m, k) ==
  /\ "DECIDE_COMMIT" \in Verdicts(k, m)
  /\ m.kind = "VOTE_COMMIT"
  /\ Decide(m, k, "DECIDE_COMMIT")

MgrVoteCommit(m) ==
  /\ m.kind \in {"POLL_DECISION", "VOTE_COMMIT"}
  /\ \E k \in 0..MaxTrans :
       /\ FirstHolding(m.tid, k)
       /\ \/ StillWaiting(m, k)
          \/ AnswerAbort(m, k)
          \/ AnswerCommit(m, k)
          \/ DecideCommit(m, k)
  /\ UNCHANGED <<resume, begun>>

\* Mutant of MgrVoteAbort: the vote is counted like the others, its kind unread.
MgrVoteAbortCounted(m) ==
  /\ m.kind = "VOTE_ABORT"
  /\ \E k \in 0..MaxTrans :
       /\ FirstHolding(m.tid, k)
       /\ \/ StillWaiting(m, k)
          \/ "DECIDE_COMMIT" \in Verdicts(k, m) /\ Decide(m, k, "DECIDE_COMMIT")
  /\ UNCHANGED <<resume, begun>>

MgrVoteAbort(m) ==
  /\ m.kind = "VOTE_ABORT"
  /\ \E k \in 0..MaxTrans : FirstHolding(m.tid, k) /\ Decide(m, k, "DECIDE_ABORT")
  /\ UNCHANGED <<resume, begun>>

Serving == mgrUp /\ resume = 0

MgrReceive(m) ==
  /\ Serving
  /\ \/ MgrBegin(m)
     \/ MgrJoin(m)
     \/ MgrCommit(m)
     \/ MgrVoteCommit(m)
     \/ MgrVoteAbort(m)

-------------------------------------------------------------------------------
\* Timeout, death and restart

\* Mutant of MgrTimeout: the slot is not cleaned.
MgrTimeoutKeepsSlot ==
  /\ Serving
  /\ \E k \in Slot :
       /\ IsFirst(k, Waiting)
       /\ mlog' = mlog \cup {[kind |-> "DECIDE_ABORT", tid |-> table[k].tid]}
       /\ sent' = Broadcast(table[k].tid, "DECIDE_ABORT")
  /\ UNCHANGED <<table, mgrUp, resume, begun>>

\* poll() saw nothing for 10 s: the first transaction found waiting is aborted.
MgrTimeout ==
  /\ Serving
  /\ \E k \in Slot :
       /\ IsFirst(k, Waiting)
       /\ mlog' = mlog \cup {[kind |-> "DECIDE_ABORT", tid |-> table[k].tid]}
       /\ sent' = Broadcast(table[k].tid, "DECIDE_ABORT")
       /\ table' = Cleaned(k)
  /\ UNCHANGED <<mgrUp, resume, begun>>

\* The process is killed from outside between two handlers.
MgrKill ==
  /\ mgrUp
  /\ mgrUp' = FALSE
  /\ resume' = 0
  /\ sent' = Silence
  /\ UNCHANGED <<mlog, table, begun>>

\* What cleanWorkerInfo has made of a slot when it is killed with the first members
\* cleared.  The order of what is left matters only to a worker listed twice.
PartlyCleaned(k, slot, cleared, flag) ==
  WithSlot(k, [slot EXCEPT !.isCrash = flag, !.members = SubSeq(@, cleared + 1, Len(@))])

\* A decision is logged, and the manager killed while it tells the members or
\* clears the slot; if it is to die anyway it tells nobody.
TornDecision(k, slot, decision) ==
  /\ mlog' = mlog \cup {[kind |-> decision, tid |-> slot.tid]}
  /\ \E last \in 0..MaxNodes, cleared \in 0..Len(slot.members), flag \in {slot.isCrash, FALSE} :
       /\ cleared > 0 => last = MaxNodes /\ ~flag
       /\ sent' = IF slot.isCrash THEN Silence ELSE BroadcastUpTo(slot.tid, decision, last)
       /\ table' = PartlyCleaned(k, slot, cleared, flag)

\* Before that: the crash flag is set, and a vote or a poll may be counted.
TornCount(k, m) ==
  /\ \/ table' = WithSlot(k, [table[k] EXCEPT !.isCrash = @ \/ m.isCrash])
     \/ m.kind # "VOTE_ABORT" /\ table' = Counted(k, m)
  /\ sent' = Silence
  /\ UNCHANGED mlog

\* The process is killed on its way through a vote or a poll ...
MgrTornVote(m) ==
  /\ TornKills
  /\ Serving
  /\ \E k \in Slot :
       /\ FirstHolding(m.tid, k)
       /\ \/ m.kind \in {"POLL_DECISION", "VOTE_COMMIT", "VOTE_ABORT"} /\ TornCount(k, m)
          \/ /\ m.kind = "VOTE_COMMIT"
             /\ "DECIDE_COMMIT" \in Verdicts(k, m)
             /\ TornDecision(k, VotedSlot(k, m), "DECIDE_COMMIT")
          \/ /\ m.kind = "VOTE_ABORT"
             /\ TornDecision(k, [table[k] EXCEPT !.isCrash = @ \/ m.isCrash], "DECIDE_ABORT")
  /\ mgrUp' = FALSE
  /\ UNCHANGED <<resume, begun>>

\* ... or through a timeout, which does not look at the crash flag.  Killed in
\* another handler, the manager has done all the handler does except for
\* datagrams that might as well be lost.
MgrTornTimeout ==
  /\ TornKills
  /\ Serving
  /\ \E k \in Slot, last \in 0..MaxNodes :
       /\ IsFirst(k, Waiting)
       /\ mlog' = mlog \cup {[kind |-> "DECIDE_ABORT", tid |-> table[k].tid]}
       /\ sent' = BroadcastUpTo(table[k].tid, "DECIDE_ABORT", last)
       /\ \E cleared \in 0..Len(table[k].members), flag \in {table[k].isCrash, FALSE} :
            /\ cleared > 0 => last = MaxNodes
            /\ flag = table[k].isCrash \/ cleared = Len(table[k].members)
            /\ table' = PartlyCleaned(k, table[k], cleared, flag)
  /\ mgrUp' = FALSE
  /\ UNCHANGED <<resume, begun>>

MgrRestart ==
  /\ ~mgrUp
  /\ mgrUp' = TRUE
  /\ resume' = MaxTrans
  /\ sent' = Silence
  /\ UNCHANGED <<mlog, table, begun>>

\* One turn of the restart loop: the members of a transaction that is not
\* committed are told to abort.  Nothing is logged and the slot is kept.
MgrRecoverSlot ==
  /\ mgrUp
  /\ resume > 0
  /\ LET tid == table[MaxTrans - resume + 1].tid IN
       sent' = IF Logged("DECIDE_COMMIT", tid)
               THEN Silence
               ELSE Broadcast(tid, "DECIDE_ABORT")
  /\ resume' = resume - 1
  /\ UNCHANGED <<mlog, table, mgrUp, begun>>

-------------------------------------------------------------------------------
\* The manager in an open environment: any message from any worker at any time.
\* Users name a transaction they have not begun before, unless ReuseTids; a vote
\* answers a PREPARE_COMMIT, so it names a transaction that was begun.

MgrInit ==
  /\ mlog = {}
  /\ table = [k \in Slot |-> Free]
  /\ mgrUp = TRUE
  /\ resume = 0
  /\ begun = {}
  /\ sent = Silence

Allowed(m) ==
  /\ m.kind = "BEGINTX" => (ReuseTids \/ m.tid \notin begun)
  /\ m.kind \in {"VOTE_COMMIT", "VOTE_ABORT"} => m.tid \in begun

\* A step of somebody else: the manager sends nothing.
MgrIdle ==
  /\ sent' = Silence
  /\ UNCHANGED <<mlog, table, mgrUp, resume, begun>>

\* Handlers that run to their end, or to the death the code gives itself.
MgrWhole ==
  \/ MgrIdle
  \/ MgrTimeout
  \/ MgrKill
  \/ MgrRestart
  \/ MgrRecoverSlot
  \/ \E m \in ToManager : Allowed(m) /\ MgrReceive(m)

MgrNext ==
  \/ MgrWhole
  \/ MgrTornTimeout
  \/ \E m \in ToManager : Allowed(m) /\ MgrTornVote(m)

MgrSpec == MgrInit /\ [][MgrNext]_mgrVars

\* MgrSpec with ~TornKills.
MgrWholeSpec == MgrInit /\ [][MgrWhole]_mgrVars

-------------------------------------------------------------------------------
\* Properties

Told(kind, tid) ==
  \E w \in Worker : \E i \in DOMAIN sent[w] :
    sent[w][i] = [kind |-> kind, tid |-> tid]

\* While a transaction is begun once it holds one slot, so that what the handlers
\* do to the first one they find is all there is to do.
SlotsDistinct ==
  \A j, k \in Slot : table[j].tid = table[k].tid /\ table[j].tid # NoTid => j = k

(* A committed transaction has left the table.  The timeout aborts every       *)
(* transaction in the table whose COMMIT_REQ is in the log, decided or not, so *)
(* a decision whose slot stayed would be reversed ten silent seconds later.    *)
CommitRetired ==
  \A k \in Slot : table[k].tid # NoTid => ~Logged("DECIDE_COMMIT", table[k].tid)

(* Once DECIDE_COMMIT is in the log the manager never tells a worker to abort  *)
(* that transaction: not as the answer to a poll or a late vote, not when a    *)
(* vote to abort comes late, not at a timeout, not after a crash and restart.  *)
CommitIsFinal ==
  \A t \in Tid : Logged("DECIDE_COMMIT", t) => ~Told("DECIDE_ABORT", t)

(* tmanager.c:87: before it aborts, the timeout checks "whether it has made a  *)
(* decision", so it never aborts what the log commits.                         *)
TimeoutSparesDecided ==
  [][MgrTimeout => \A t \in Tid : Logged("DECIDE_COMMIT", t) => ~Told("DECIDE_ABORT", t)']_mgrVars

(* ShiVizReport.txt: the manager "examines its transaction log and sends the   *)
(* decision (DECIDE_COMMIT) to the polling workers".  collectVote also counts  *)
(* the poll itself as a vote and answers without writing a decision.           *)
CommitToldIsLogged ==
  \A t \in Tid : Told("DECIDE_COMMIT", t) => Logged("DECIDE_COMMIT", t)

(* tmanager.c:242: a BEGINTX for a transaction that "has already started" must *)
(* "return failure".                                                           *)
RunningBeginFails ==
  [][\A t \in Tid : Told("BEGIN_SUCCESS", t)' => Holding(t) = {}]_mgrVars

(* tmanager.c:249: a JOINTX is refused because "this transaction doesn't       *)
(* exist", so never for one in the table.                                      *)
RefusedJoinIsUnknown ==
  [][\A t \in Tid : Told("JOIN_FAIL", t)' => Holding(t) = {}]_mgrVars

(* tmanager.c:562: "waiting for votes timed out. abort the transaction": while *)
(* a transaction waits, a timeout aborts one that is running.                  *)
TimeoutAbortsWaiting ==
  [][MgrTimeout /\ (\E k \in Waiting : table[k].tid # NoTid)
       => \E k \in Slot : table[k].tid # NoTid /\ table'[k].tid = NoTid]_mgrVars
===============================================================================
