-------------------------------- MODULE TWorker --------------------------------
(* The transaction worker (transaction_management/tworker.c): the commands a   *)
(* user sends it with cmd, the messages of the manager, the uncertain wait     *)
(* after a vote, and restart from the log.  One action per command or message, *)
(* with the write-ahead records and the roll back each of them makes.          *)
EXTENDS TxMessages, Integers, Sequences, FiniteSets

CONSTANTS
  Field,      \* the fields of ObjectData a transaction can change: A, B, IDstring
  Value,      \* the values written to them
  Initial,    \* the value they start with
  Budgets     \* bound: how many commands of each kind each worker gets, by scenario

ASSUME InitialAssumption == Initial \in Value

Command == {"BEGINTX", "JOINTX", "NEW_VALUE", "DELAY", "CRASH_AFTER", "CRASH_BEFORE",
            "CRASH", "COMMIT", "COMMIT_CRASH", "ABORT", "ABORT_CRASH", "VOTE_ABORT"}

ASSUME BudgetAssumption == Budgets \subseteq [Worker -> [Command -> Nat]]

VARIABLES
  wlog,     \* per worker: the records of its log file
  obj,      \* per worker: ObjectData, mapped from its data file
  known,    \* per worker: crashInfo->managerAddr was saved by a successful join
  mem,      \* per worker: what the process keeps in memory
  posted,   \* what the last step passed to sendto
  joinedAt, \* history, per worker and transaction: <<data at its first join>>
  named,    \* history: transactions users have issued a BEGINTX for
  left      \* bound: the commands each worker may still get

workerVars == <<wlog, obj, known, mem, posted, joinedAt, named, left>>

Data == [Field -> Value]

RecordTag == {"JOINTX", "COMMIT", "COMMIT_CRASH", "ABORT", "PREPARE_COMMIT",
              "VOTE_COMMIT", "DECIDE_COMMIT", "DECIDE_ABORT"}

WorkerRecord == [kind: RecordTag, tid: AnyTid]
                  \cup [kind: {"NEW_VALUE"}, tid: AnyTid, field: Field, old: Value]

\* DELAY_RESPONSE: "none" is any delay >= 0, which only makes a step later;
\* "after" a negative one, which crashes the worker after its next send;
\* "before" is -1000, which crashes it instead of that send.
Delay == {"none", "after", "before"}

\* addr: toAddr of handleCmdMsg was set by a BEGINTX or JOINTX command;
\* peer: the address the uncertain wait polls is the manager's.
Memory == [pc: {"loop", "wait", "down"}, curTid: AnyTid, txRun: BOOLEAN, delay: Delay,
           isCrash: BOOLEAN, voteAbort: BOOLEAN, addr: BOOLEAN, peer: BOOLEAN]

Booted == [pc |-> "loop", curTid |-> NoTid, txRun |-> FALSE, delay |-> "none",
           isCrash |-> FALSE, voteAbort |-> FALSE, addr |-> FALSE, peer |-> FALSE]

Dead == [Booted EXCEPT !.pc = "down"]

WorkerTypeOK ==
  /\ wlog \in [Worker -> Seq(WorkerRecord)]
  /\ obj \in [Worker -> Data]
  /\ known \in [Worker -> BOOLEAN]
  /\ mem \in [Worker -> Memory]
  /\ posted \in Seq(ToManager) /\ Len(posted) <= 1
  /\ joinedAt \in [Worker -> [Tid -> Seq(Data)]]
  /\ named \subseteq Tid
  /\ left \in [Worker -> [Command -> Nat]]

-------------------------------------------------------------------------------
\* The log

Rec(kind, tid) == [kind |-> kind, tid |-> tid]

Write(w, r) == wlog' = [wlog EXCEPT ![w] = Append(@, r)]

Wrote(w, kind, tid) == \E i \in DOMAIN wlog[w] : wlog[w][i] = Rec(kind, tid)

\* Mutant of LocallyAborted: the log is not consulted before voting.
NeverAborted(w) == FALSE

LocallyAborted(w) == Wrote(w, "ABORT", mem[w].curTid)

\* readValFromRecord walks back over the records of tid and stops at the first
\* record of another transaction.
OwnSuffix(w, tid) ==
  {i \in DOMAIN wlog[w] : \A j \in i..Len(wlog[w]) : wlog[w][j].tid = tid}

\* Mutant of Earliest: the last change instead of the first.
Latest(i, S) == i \in S /\ \A j \in S : i >= j

Earliest(i, S) == i \in S /\ \A j \in S : i <= j

\* Every JOINTX it passes restores the oldest values seen so far, so the last
\* restore is the one of the earliest JOINTX it reaches: a field gets the old
\* value of its first change after that.
RolledBack(w, tid) ==
  [f \in Field |->
     LET joins   == {i \in OwnSuffix(w, tid) : wlog[w][i].kind = "JOINTX"}
         changes == {i \in OwnSuffix(w, tid) : /\ wlog[w][i].kind = "NEW_VALUE"
                                          /\ wlog[w][i].field = f
                                          /\ \E j \in joins : j < i}
     IN IF changes = {}
        THEN obj[w][f]
        ELSE wlog[w][CHOOSE i \in changes : Earliest(i, changes)].old]

-------------------------------------------------------------------------------
\* Sending

ToMgr(w, kind, tid, crash) ==
  [kind |-> kind, tid |-> tid, from |-> w, isCrash |-> crash]

\* sendMsg: a negative delay ends the process after the send, -1000 before it;
\* otherwise the worker goes on with memory next.
Survives(w) == mem[w].delay = "none"

SendThen(w, m, next) ==
  /\ posted' = IF mem[w].delay = "before" THEN <<>> ELSE <<m>>
  /\ mem' = [mem EXCEPT ![w] = IF Survives(w) THEN next ELSE Dead]

Quiet(w, next) ==
  /\ posted' = <<>>
  /\ mem' = [mem EXCEPT ![w] = next]

-------------------------------------------------------------------------------
\* Commands (handleCmdMsg)

Ask(w, command) ==
  /\ mem[w].pc = "loop"
  /\ left[w][command] > 0
  /\ left' = [left EXCEPT ![w][command] = @ - 1]

CmdBegin(w, tid) ==
  /\ Ask(w, "BEGINTX")
  /\ named' = named \cup {tid}
  /\ SendThen(w, ToMgr(w, "BEGINTX", tid, FALSE), [mem[w] EXCEPT !.addr = TRUE])
  /\ UNCHANGED <<wlog, obj, known, joinedAt>>

CmdJoin(w, tid) ==
  /\ Ask(w, "JOINTX")
  /\ SendThen(w, ToMgr(w, "JOINTX", tid, FALSE), [mem[w] EXCEPT !.addr = TRUE])
  /\ UNCHANGED <<wlog, obj, known, joinedAt, named>>

\* NEW_A, NEW_B, NEW_IDSTR: the old value is logged only inside a transaction.
CmdUpdate(w, f, v) ==
  /\ Ask(w, "NEW_VALUE")
  /\ IF mem[w].txRun
     THEN Write(w, [kind |-> "NEW_VALUE", tid |-> mem[w].curTid, field |-> f, old |-> obj[w][f]])
     ELSE UNCHANGED wlog
  /\ obj' = [obj EXCEPT ![w][f] = v]
  /\ Quiet(w, mem[w])
  /\ UNCHANGED <<known, joinedAt, named>>

CmdDelay(w, d) ==
  /\ Ask(w, [none |-> "DELAY", after |-> "CRASH_AFTER", before |-> "CRASH_BEFORE"][d])
  /\ Quiet(w, [mem[w] EXCEPT !.delay = d])
  /\ UNCHANGED <<wlog, obj, known, joinedAt, named>>

CmdCrash(w) ==
  /\ Ask(w, "CRASH")
  /\ Quiet(w, Dead)
  /\ UNCHANGED <<wlog, obj, known, joinedAt, named>>

\* COMMIT and COMMIT_CRASH.  Without an earlier BEGINTX or JOINTX command toAddr
\* is uninitialised: the request reaches the manager or goes astray.
CmdCommit(w, kind) ==
  /\ Ask(w, kind)
  /\ Write(w, Rec(kind, mem[w].curTid))
  /\ LET next == [mem[w] EXCEPT !.isCrash = (kind = "COMMIT_CRASH")] IN
       \/ SendThen(w, ToMgr(w, "COMMIT", mem[w].curTid, FALSE), next)
       \/ ~mem[w].addr /\ mem[w].delay # "before" /\ Quiet(w, next)
       \/ ~mem[w].addr /\ mem[w].delay # "none" /\ Quiet(w, Dead)
  /\ UNCHANGED <<obj, known, joinedAt, named>>

\* ABORT and ABORT_CRASH: roll back and record it; the manager learns of it
\* when it asks for a vote.
CmdAbort(w, kind) ==
  /\ Ask(w, kind)
  /\ obj' = [obj EXCEPT ![w] = RolledBack(w, mem[w].curTid)]
  /\ Write(w, Rec("ABORT", mem[w].curTid))
  /\ Quiet(w, [mem[w] EXCEPT !.isCrash = (kind = "ABORT_CRASH")])
  /\ UNCHANGED <<known, joinedAt, named>>

CmdVoteAbort(w) ==
  /\ Ask(w, "VOTE_ABORT")
  /\ Quiet(w, [mem[w] EXCEPT !.voteAbort = TRUE])
  /\ UNCHANGED <<wlog, obj, known, joinedAt, named>>

-------------------------------------------------------------------------------
\* Messages of the manager (handleManagerMsg, waitingForCoordResponse)

\* Mutant of RecvJoinReply: the record carries the message's own kind.
RecvJoinReplyVerbatim(w, m) ==
  /\ mem[w].pc = "loop"
  /\ m.kind \in {"JOIN_SUCCESS", "JOIN_FAIL"}
  /\ Write(w, Rec(m.kind, m.tid))
  /\ Quiet(w, [mem[w] EXCEPT !.curTid = m.tid, !.txRun = TRUE])
  /\ UNCHANGED <<obj, known, joinedAt, named, left>>

\* Both answers to a join write a JOINTX record; only success changes curTid.
RecvJoinReply(w, m) ==
  /\ mem[w].pc = "loop"
  /\ m.kind \in {"JOIN_SUCCESS", "JOIN_FAIL"}
  /\ Write(w, Rec("JOINTX", m.tid))
  /\ IF m.kind = "JOIN_SUCCESS"
     THEN /\ known' = [known EXCEPT ![w] = TRUE]
          /\ joinedAt' = IF m.tid \notin Tid \/ joinedAt[w][m.tid] # <<>>
                         THEN joinedAt
                         ELSE [joinedAt EXCEPT ![w][m.tid] = <<obj[w]>>]
          /\ Quiet(w, [mem[w] EXCEPT !.curTid = m.tid, !.txRun = TRUE])
     ELSE UNCHANGED <<known, joinedAt>> /\ Quiet(w, mem[w])
  /\ UNCHANGED <<obj, named, left>>

\* The ballot goes out with the manager's tid, but the local abort is looked up
\* under curTid.  A VOTE_COMMIT record follows whatever was voted.
RecvPrepare(w, m) ==
  /\ mem[w].pc = "loop"
  /\ m.kind = "PREPARE_COMMIT"
  /\ LET against == LocallyAborted(w) \/ mem[w].voteAbort
         ballot  == IF against THEN "VOTE_ABORT" ELSE "VOTE_COMMIT"
         before  == Append(wlog[w], Rec("PREPARE_COMMIT", m.tid))
     IN /\ SendThen(w, ToMgr(w, ballot, m.tid, mem[w].isCrash),
                    [mem[w] EXCEPT !.pc = "wait", !.peer = TRUE,
                                   !.voteAbort = @ /\ ~against])
        /\ wlog' = [wlog EXCEPT ![w] = IF Survives(w)
                                       THEN Append(before, Rec("VOTE_COMMIT", m.tid))
                                       ELSE before]
  /\ UNCHANGED <<obj, known, joinedAt, named, left>>

\* Mutant of RecvDecision: an abort is recorded, but nothing is rolled back.
RecvDecisionKeepsData(w, m) ==
  /\ mem[w].pc # "down"
  /\ m.kind \in {"DECIDE_COMMIT", "DECIDE_ABORT"}
  /\ Write(w, Rec(m.kind, m.tid))
  /\ Quiet(w, [mem[w] EXCEPT !.pc = "loop", !.txRun = FALSE])
  /\ UNCHANGED <<obj, known, joinedAt, named, left>>

\* A decision, in the loop or in the wait.  An abort rolls back curTid and is
\* recorded under the manager's tid.
RecvDecision(w, m) ==
  /\ mem[w].pc # "down"
  /\ m.kind \in {"DECIDE_COMMIT", "DECIDE_ABORT"}
  /\ obj' = IF m.kind = "DECIDE_ABORT"
            THEN [obj EXCEPT ![w] = RolledBack(w, mem[w].curTid)]
            ELSE obj
  /\ Write(w, Rec(m.kind, m.tid))
  /\ Quiet(w, [mem[w] EXCEPT !.pc = "loop", !.txRun = FALSE])
  /\ UNCHANGED <<known, joinedAt, named, left>>

\* BEGIN_SUCCESS and BEGIN_FAIL change nothing in the loop; in the wait every
\* message that is no decision ends the wait without one.
RecvOther(w, m) ==
  /\ mem[w].pc # "down"
  /\ \/ m.kind \in {"BEGIN_SUCCESS", "BEGIN_FAIL"}
     \/ mem[w].pc = "wait" /\ m.kind \notin {"DECIDE_COMMIT", "DECIDE_ABORT"}
  /\ Quiet(w, [mem[w] EXCEPT !.pc = "loop"])
  /\ UNCHANGED <<wlog, obj, known, joinedAt, named, left>>

WorkerReceive(w, m) ==
  \/ RecvJoinReply(w, m)
  \/ RecvPrepare(w, m)
  \/ RecvDecision(w, m)
  \/ RecvOther(w, m)

\* Mutant of Poll: one poll, then back to the command loop.
PollOnce(w) ==
  /\ mem[w].pc = "wait"
  /\ SendThen(w, ToMgr(w, "POLL_DECISION", mem[w].curTid, mem[w].isCrash),
              [mem[w] EXCEPT !.pc = "loop"])
  /\ UNCHANGED <<wlog, obj, known, joinedAt, named, left>>

\* The wait timed out: ask the manager for the decision on curTid.
Poll(w) ==
  /\ mem[w].pc = "wait"
  /\ IF mem[w].peer
     THEN SendThen(w, ToMgr(w, "POLL_DECISION", mem[w].curTid, mem[w].isCrash), mem[w])
     ELSE Quiet(w, mem[w])
  /\ UNCHANGED <<wlog, obj, known, joinedAt, named, left>>

\* main on an existing log: curTid is that of the last record, which also says
\* whether the transaction is rolled back or the manager asked.
LastRecord(w) ==
  IF wlog[w] = <<>> THEN [kind |-> "none", tid |-> NoTid] ELSE wlog[w][Len(wlog[w])]

Resolved == {"ABORT", "DECIDE_ABORT", "PREPARE_COMMIT", "VOTE_COMMIT", "DECIDE_COMMIT"}

\* Mutant of WorkerRestart: an unfinished transaction is marked aborted, but its
\* changes stay.
WorkerRestartKeepsData(w) ==
  /\ mem[w].pc = "down"
  /\ LET last == LastRecord(w)
         next == [Booted EXCEPT !.curTid = last.tid]
     IN IF last.kind \in Resolved
        THEN /\ Quiet(w, [next EXCEPT !.pc = "wait", !.peer = known[w]])
             /\ UNCHANGED wlog
        ELSE Quiet(w, next) /\ Write(w, Rec("ABORT", last.tid))
  /\ UNCHANGED <<obj, known, joinedAt, named, left>>

WorkerRestart(w) ==
  /\ mem[w].pc = "down"
  /\ LET last == LastRecord(w)
         next == [Booted EXCEPT !.curTid = last.tid]
     IN IF last.kind \in Resolved
        THEN /\ Quiet(w, [next EXCEPT !.pc = "wait", !.peer = known[w]])
             /\ UNCHANGED <<wlog, obj>>
        ELSE /\ Quiet(w, next)
             /\ obj' = [obj EXCEPT ![w] = RolledBack(w, last.tid)]
             /\ Write(w, Rec("ABORT", last.tid))
  /\ UNCHANGED <<known, joinedAt, named, left>>

-------------------------------------------------------------------------------
WorkerInit ==
  /\ wlog = [w \in Worker |-> <<>>]
  /\ obj = [w \in Worker |-> [f \in Field |-> Initial]]
  /\ known = [w \in Worker |-> FALSE]
  /\ mem = [w \in Worker |-> Booted]
  /\ posted = <<>>
  /\ joinedAt = [w \in Worker |-> [t \in Tid |-> <<>>]]
  /\ named = {}
  /\ left \in Budgets

\* Users begin a transaction once, and never type the identifier 0.
CmdAny(w) ==
  \/ \E t \in Tid \ named : CmdBegin(w, t)
  \/ \E t \in Tid : CmdJoin(w, t)
  \/ \E f \in Field, v \in Value : CmdUpdate(w, f, v)
  \/ \E d \in Delay : CmdDelay(w, d)
  \/ CmdCrash(w)
  \/ \E kind \in {"COMMIT", "COMMIT_CRASH"} : CmdCommit(w, kind)
  \/ \E kind \in {"ABORT", "ABORT_CRASH"} : CmdAbort(w, kind)
  \/ CmdVoteAbort(w)
===============================================================================
