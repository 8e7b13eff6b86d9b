------------------------------- MODULE TxSystem -------------------------------
(* The manager and the workers joined by UDP sockets on one host: sendMsg in   *)
(* tworker.c leaves toAddr.sin_addr zero, so every datagram stays on the       *)
(* loopback interface.  Datagrams of one pair keep their order; they are lost  *)
(* when the receiver's process is down, with its socket buffer when it dies,   *)
(* and, if Lossy, when the buffer overflows.                                   *)
EXTENDS TManager, TWorker

CONSTANTS
  Lossy,       \* TRUE: a receive buffer may overflow
  MaxKills     \* bound: how often the manager is killed from outside

ASSUME LossAssumption == Lossy \in BOOLEAN /\ MaxKills \in Nat

VARIABLES
  toM,    \* per worker: datagrams on their way to the manager
  toW,    \* per worker: datagrams on their way to the worker
  kills   \* bound: how often the manager was killed

vars == <<mgrVars, workerVars, toM, toW, kills>>

Alive(w) == mem[w].pc # "down"

\* What a step of one side leaves in the buffers: queues as they were after the
\* receive, plus what the step sent, for the processes that run after the step.
RouteToWorkers(queues) ==
  toW' = [w \in Worker |-> IF Alive(w)' THEN queues[w] \o sent'[w] ELSE <<>>]

\* The one datagram a worker's step may have posted, if it is w's.
PostedBy(w) == IF \E i \in DOMAIN posted : posted[i].from = w THEN posted ELSE <<>>

RouteToManager(queues) ==
  toM' = [w \in Worker |-> IF mgrUp' THEN queues[w] \o PostedBy(w)' ELSE <<>>]

Popped(queues, w) == [queues EXCEPT ![w] = Tail(@)]

ManagerMoves(fromW, action) ==
  /\ action
  /\ posted' = <<>>
  /\ UNCHANGED <<wlog, obj, known, mem, joinedAt, named, left>>
  /\ RouteToManager(fromW)
  /\ RouteToWorkers(toW)

WorkerMoves(fromM, action) ==
  /\ action
  /\ sent' = Silence
  /\ UNCHANGED <<mlog, table, mgrUp, resume, begun>>
  /\ RouteToManager(toM)
  /\ RouteToWorkers(fromM)

-------------------------------------------------------------------------------
DeliverToManager(w) ==
  /\ toM[w] # <<>>
  /\ UNCHANGED kills
  /\ ManagerMoves(Popped(toM, w), MgrReceive(Head(toM[w])))

DeliverToWorker(w) ==
  /\ toW[w] # <<>>
  /\ UNCHANGED kills
  /\ WorkerMoves(Popped(toW, w), WorkerReceive(w, Head(toW[w])))

\* poll() times out only on an empty socket.
ManagerTimeout ==
  /\ \A w \in Worker : toM[w] = <<>>
  /\ ManagerMoves(toM, MgrTimeout)
  /\ UNCHANGED kills

ManagerKill ==
  /\ kills < MaxKills
  /\ kills' = kills + 1
  /\ ManagerMoves(toM, MgrKill)

ManagerTorn ==
  /\ kills < MaxKills
  /\ kills' = kills + 1
  /\ \/ \E w \in Worker : /\ toM[w] # <<>>
                          /\ ManagerMoves(toM, MgrTornVote(Head(toM[w])))
     \/ /\ \A w \in Worker : toM[w] = <<>>
        /\ ManagerMoves(toM, MgrTornTimeout)

\* Mutant of ManagerRestart: straight to the message loop, nobody told to abort.
ManagerRestartNoRecovery ==
  /\ ManagerMoves(toM, /\ ~mgrUp
                       /\ mgrUp' = TRUE
                       /\ sent' = Silence
                       /\ UNCHANGED <<mlog, table, resume, begun>>)
  /\ UNCHANGED kills

ManagerRestart == ManagerMoves(toM, MgrRestart) /\ UNCHANGED kills

ManagerRecoverSlot == ManagerMoves(toM, MgrRecoverSlot) /\ UNCHANGED kills

\* Bound: a worker polls again only when its last datagrams were consumed.
PollTimeout(w) ==
  /\ toW[w] = <<>>
  /\ toM[w] = <<>>
  /\ WorkerMoves(toW, Poll(w))
  /\ UNCHANGED kills

UserCommand(w) == WorkerMoves(toW, CmdAny(w)) /\ UNCHANGED kills

RestartWorker(w) == WorkerMoves(toW, WorkerRestart(w)) /\ UNCHANGED kills

LoseToManager(w) ==
  /\ Lossy
  /\ toM[w] # <<>>
  /\ toM' = Popped(toM, w)
  /\ sent' = Silence /\ posted' = <<>>
  /\ UNCHANGED <<mlog, table, mgrUp, resume, begun>>
  /\ UNCHANGED <<wlog, obj, known, mem, joinedAt, named, left, toW, kills>>

LoseToWorker(w) ==
  /\ Lossy
  /\ toW[w] # <<>>
  /\ toW' = Popped(toW, w)
  /\ sent' = Silence /\ posted' = <<>>
  /\ UNCHANGED <<mlog, table, mgrUp, resume, begun>>
  /\ UNCHANGED <<wlog, obj, known, mem, joinedAt, named, left, toM, kills>>

Init ==
  /\ MgrInit
  /\ WorkerInit
  /\ toM = [w \in Worker |-> <<>>]
  /\ toW = [w \in Worker |-> <<>>]
  /\ kills = 0

Next ==
  \/ ManagerTimeout
  \/ ManagerKill
  \/ ManagerTorn
  \/ ManagerRestart
  \/ ManagerRecoverSlot
  \/ \E w \in Worker :
       \/ DeliverToManager(w)
       \/ DeliverToWorker(w)
       \/ PollTimeout(w)
       \/ UserCommand(w)
       \/ RestartWorker(w)
       \/ LoseToManager(w)
       \/ LoseToWorker(w)

Spec == Init /\ [][Next]_vars

\* Datagrams in a buffer are read, a wait polls again, dead processes are
\* restarted.  A timeout is owed to a manager that hears nothing any more, and not
\* to one whose silence is broken again and again (tmanager.c:555): the waiting
\* workers poll as often as it times out.
Fairness ==
  /\ WF_vars(ManagerTimeout)
  /\ WF_vars(ManagerRestart)
  /\ WF_vars(ManagerRecoverSlot)
  /\ \A w \in Worker :
       /\ WF_vars(DeliverToManager(w))
       /\ WF_vars(DeliverToWorker(w))
       /\ WF_vars(PollTimeout(w))
       /\ WF_vars(RestartWorker(w))

FairSpec == Spec /\ Fairness

-------------------------------------------------------------------------------
\* Properties

(* The protocol's promise: no two workers record different decisions about one *)
(* transaction, and no worker records both.                                    *)
Agreement ==
  \A t \in Tid, u, w \in Worker :
    ~(Wrote(u, "DECIDE_COMMIT", t) /\ Wrote(w, "DECIDE_ABORT", t))

(* A commit at the manager was requested by a worker, and every worker that    *)
(* joined was asked to prepare and had not aborted locally by then.            *)
CommitWasVoted ==
  \A t \in Tid : Logged("DECIDE_COMMIT", t) =>
    /\ Logged("COMMIT_REQ", t)
    /\ \A w \in Worker : joinedAt[w][t] # <<>> =>
         \E j \in DOMAIN wlog[w] :
           /\ wlog[w][j] = Rec("PREPARE_COMMIT", t)
           /\ \A i \in 1..j : wlog[w][i] # Rec("ABORT", t)

(* TestScripts/testDelayNeg1000.sh: a worker crashes before it answers         *)
(* PREPARE_COMMIT, "so coord times out" and the "resulting TX is abort".  The  *)
(* record that follows every vote sent marks the members that did answer.      *)
SilentVoterAborts ==
  \A t \in Tid, u, w \in Worker :
    joinedAt[u][t] # <<>> /\ Wrote(w, "DECIDE_COMMIT", t) => Wrote(u, "VOTE_COMMIT", t)

(* tworker.c:585, "we are in uncertain state, block and wait": a worker that   *)
(* voted leaves the wait only by recording a decision, or by crashing.         *)
UncertainBlocks ==
  [][\A w \in Worker :
       mem[w].pc = "wait" /\ mem'[w].pc = "loop" =>
         /\ wlog'[w] # wlog[w]
         /\ LastRecord(w)'.kind \in {"DECIDE_COMMIT", "DECIDE_ABORT"}]_vars

(* tworker.c:100, "Used to rollback values in the abort case": the step with    *)
(* which a worker aborts the transaction it joined, for the first time and     *)
(* with no decision on record, leaves the data as they were at the join.       *)
Undecided(w, t) ==
  \A kind \in {"ABORT", "DECIDE_ABORT", "DECIDE_COMMIT"} : ~Wrote(w, kind, t)

RollbackRestores ==
  [][\A w \in Worker, t \in Tid :
       /\ joinedAt[w][t] # <<>>
       /\ Undecided(w, t)
       /\ (Wrote(w, "ABORT", t) \/ Wrote(w, "DECIDE_ABORT", t))'
       => obj'[w] = joinedAt[w][t][1]]_vars

(* ShiVizReport.txt, second scenario: "at the end every worker will receive    *)
(* the commit decision".  Once the manager has logged a decision, a worker that *)
(* waits for it, and knows its manager, does not wait for ever, whoever         *)
(* crashed before telling or being told.                                        *)
AwaitsDecision(w, t) == mem[w].pc = "wait" /\ mem[w].peer /\ mem[w].curTid = t

Decided(t) == Logged("DECIDE_COMMIT", t) \/ Logged("DECIDE_ABORT", t)

DecisionReaches ==
  \A w \in Worker, t \in Tid :
    AwaitsDecision(w, t) /\ Decided(t) ~> mem[w].pc # "wait"

(* tmanager.c:562: "waiting for votes timed out. abort the transaction".  A     *)
(* worker that waits for the decision on a transaction it joined, and knows its *)
(* manager, is told in the end, also when another worker never votes.           *)
UncertainEnds ==
  \A w \in Worker, t \in Tid : AwaitsDecision(w, t) ~> mem[w].pc # "wait"

(* A vote against (tworker.c:571) is final: the transaction is not committed,   *)
(* now or later, although the record that the vote leaves (:582), the polls     *)
(* that follow it and the member it marks at the manager are those of a yes.    *)
Vetoed(t) ==
  \E i \in DOMAIN posted : posted[i].kind = "VOTE_ABORT" /\ posted[i].tid = t

VetoStands == \A t \in Tid : [](Vetoed(t) => []~Logged("DECIDE_COMMIT", t))

\* The abstract state of transaction t.  A worker is prepared when it was asked
\* before it aborted; the vote it then sends may still be against.
Prepared(w, t) ==
  \E i \in DOMAIN wlog[w] :
    /\ wlog[w][i] = Rec("PREPARE_COMMIT", t)
    /\ \A j \in 1..i : wlog[w][j] # Rec("ABORT", t)

Stage(w, t) ==
  CASE joinedAt[w][t] = <<>> -> "out"
    [] joinedAt[w][t] # <<>> /\ Prepared(w, t) -> "prepared"
    [] joinedAt[w][t] # <<>> /\ ~Prepared(w, t) ->
         IF Wrote(w, "ABORT", t) THEN "refused" ELSE "working"

Recorded(commits, aborts) == IF commits THEN "commit" ELSE IF aborts THEN "abort" ELSE "open"

Outcome(t) == Recorded(Logged("DECIDE_COMMIT", t), Logged("DECIDE_ABORT", t))

Learnt(w, t) == Recorded(Wrote(w, "DECIDE_COMMIT", t), Wrote(w, "DECIDE_ABORT", t))

Promise ==
  INSTANCE AtomicCommit WITH
    stage <- [t \in Tid |-> [w \in Worker |-> Stage(w, t)]],
    outcome <- [t \in Tid |-> Outcome(t)],
    learnt <- [t \in Tid |-> [w \in Worker |-> Learnt(w, t)]]

(* The protocol keeps its promise: the logs of the manager and the workers       *)
(* never show anything but atomic commits (tmanager.c:634, tworker.c:565).      *)
KeepsPromise == Promise!Spec

===============================================================================
