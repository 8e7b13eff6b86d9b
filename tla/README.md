# Models of the 416 distributed-system programs

The repository holds four programs that share ideas and no code: a two-phase
commit system with crash recovery, a multithreaded TCP server, and two versions
of a bully election. This directory models all four in TLA+, model-checks them with
TLC, and proves with TLAPS, for any number of processes: the safety of the
transaction manager, the agreement of the two-phase commit and its refinement of an
abstract commit, the vector clocks, the admission of the server, and the safety of both
elections.

Source paths below are relative to `src/`; `tm` is
`transaction_management/tmanager.c`, `tw` is `transaction_management/tworker.c`,
`ms` is `client_server/mtserver.c`, `bn` is `bully_algorithm/node.c`, `bm` is
`bully_algorithm_fg_mpi/bully.c`.

## Inventory

| component | code | state | operations |
|---|---|---|---|
| transaction manager | `tm`, `tmanager.h` | table of running transactions and log, both mapped from the log file; clock | BEGINTX, JOINTX, COMMIT, VOTE_COMMIT, VOTE_ABORT, POLL_DECISION, 10 s timeout, restart |
| transaction worker | `tw`, `tworker.h`, `msg.h` | log file and data file, both mapped; current transaction, crash settings, vote | twelve user commands, seven manager messages, uncertain wait with a 10 s poll, restart |
| cmd | `cmd.c` | none | one datagram with a command to a worker |
| clocks | `helper.c`, and functions copied into `tm` and `tw` | table of MAX_NODES (node, time) pairs, in memory and in the log file | update, merge, save, restore, ShiViz line |
| dumpObject | `dumpObject.c` | none | prints a data file |
| multithreaded server | `ms` | counter of threads, listen queue, one buffer per connection | accept, refuse, serve `uptime`, `load`, `exit` and sums |
| Thread library | `Thread.c`, `Thread.h` | - | used by no program |
| bully node (UDP) | `bn`, `bully_algorithm/msg.h` | what was last sent and last received, shared with a thread that pings the coordinator; vector clock | ELECT, ANSWER, COORD, AYA, IAA, receive timeout, start and cancellation of the thread, drops |
| bully node (FG-MPI) | `bm` | the same two markers, the coordinator, ticks; logical clock | the same messages, ticks of process 0, pretended death and return |

**How they interact.** A user runs `cmd`, which sends a worker one datagram. The
worker talks to the manager by UDP; the manager answers the sender or goes
through the members of a transaction. Each process has a single thread that
handles one datagram at a time. A worker that voted leaves its loop and waits in
`waitingForCoordResponse` until a message of the manager arrives. Either
program may be killed and started again on its log. In the server, `main` and one
detached thread per connection share `numThread`; only the threads' decrement
and the increment of `main` hold the mutex. An election node over UDP has a receive loop
whose timeout drives elections and, while it follows a coordinator, a thread that
sends AYA; they share `lastSent` without a lock. FG-MPI nodes have one thread and get
one tick a second from process 0.

**What is hard here.** The manager's table and its log are two records of the
same decision, and different handlers consult different ones; a kill can separate
them. Slots are freed in any order and searches stop at holes. Polls, late votes
and timeouts overlap. Workers roll back by walking back over a log that several
handlers append to under different transaction numbers. The server counts a
thread after it has started it. The stream parser sees requests in arbitrary
pieces. An election node remembers one message sent and one received, and that is
all that tells it what a timeout means: answers, pings, elections passed on and
claims overwrite one another's traces. Nodes crash and come back in the middle.

**What correct means.** *Manager*: a commit is final; a decided transaction leaves the
table; member lists stay in bounds. *System*: no two workers record different
decisions; a commit has everybody's consent, and a vote against stands; a voter blocks until
told (it does not always), and is told what was decided; an abort restores the data. *Clocks*: a clock is the causal past.
*Server*: at most `max` clients, honest `load`, every client served or refused,
answers independent of packet boundaries. *Elections*: whoever claims has outlasted
the higher nodes it asked; nobody follows a lower node; a leader is declared dead only
when it did not answer; in the end all follow one leader.

## Modules

| module | models | notes |
|---|---|---|
| `TxMessages` | `txMessage` of `msg.h` | fields that some receiver reads |
| `TManager` | `tm` | one action per case of `handleWorkerMsg`, timeout, kills, restart; `MgrSpec` puts it in an open environment |
| `TWorker` | `tw` | one action per command, message, poll, restart |
| `TxSystem` | both, joined by UDP | composes the actions of `TManager` and `TWorker`; loss, kills, fairness |
| `TxSystemMC` | - | the command budgets of the runs |
| `TxSystemProofs` | - | proofs about `MgrSpec`; the system's types and its refinement of `MgrSpec` |
| `AgreementProofs` | - | `Agreement`, `CommitWasVoted` and the refinement of `AtomicCommit` while the manager runs |
| `TxOrderlyMC` | - | the inductive invariant of `AgreementProofs` on an instance (`TxOrderly.cfg`) |
| `RollbackProofs` | - | `UncertainBlocks` and `RollbackRestores`, with losses, crashes and kills |
| `RollbackMC` | - | the inductive invariants of `RollbackProofs` on instances (`Rollback.cfg`, `Uncertain.cfg`) |
| `AtomicCommit` | - | the abstract promise: stages of the workers, one outcome, who learnt it |
| `VectorClock` | the clock functions | one node type; the manager and the workers differ in merge order and first save |
| `VectorClockProofs` | - | proofs about `VectorClock` |
| `MtServer` | `main` and `ThreadMain` of `ms` | admission, threads and their counter |
| `MtServerProofs` | - | proofs about `MtServer` and `MtConnection` |
| `MtConnection` | `HandleTCPClient` of `ms` | the parser of one connection |
| `BullyNode` | `bn` | receive loop, timeouts and AYA thread of every node; UDP, crashes, restarts |
| `BullyProofs` | - | proofs about `BullyNode` |
| `BullyMPI` | `bm` | nodes and clock process; ticks, pretended deaths |
| `BullyMPIProofs` | - | proofs about `BullyMPI` |
| `QueueLemmas` | - | what reading and sending do to the messages of a queue; least numbers |

### TManager

`table` is `crashInfo->workerInfo`; `mlog` the set of log records that a search
looks for (JOINTX records are written and never looked for). An action is the
whole case of the switch: the table change, the log record, the datagrams
(`sent`), and the death of the process on `isCrash`. `resume` is the loop of
`main` over the slots after a restart. A kill comes between handlers (`MgrKill`)
or, with `TornKills`, inside one (`MgrTornVote`, `MgrTornTimeout`): after the crash flag is set
and before or after a vote is counted, when nothing is in the log yet (`TornCount`); after the
decision is logged, with any part of the members told (`TornDecision`); and inside
`cleanWorkerInfo`, with any number of members cleared, in the order of the loop, and the crash
flag before the number of the transaction (`PartlyCleaned`). A member is cleared as a whole, and the
rest of a partly cleaned list closes up, as no search depends on the position of a member. In the
remaining handlers a kill leaves what they do in full, but for datagrams that a loss takes as
well. `MgrWhole` is the handlers without these kills.

Two comparisons of the code do not do what they look like, and the model has
them as they are compiled: `msg.msgID == VOTE_COMMIT || VOTE_ABORT` (tm:429) is
always true, so a poll counts as a vote; `msgID == (DECIDE_ABORT ||
DECIDE_COMMIT)` (tm:118) compares with 1, so the timeout never sees a decision.
Undefined results are choices: a JOINTX for an unknown transaction in a full
table uses an uninitialised slot index (any slot, or the process dies), and
`collectVote` on a slot without members returns any verdict.

### TWorker

`wlog` and `obj` are the log file and the data file, `known` the saved address
of the manager, `mem` what a crash loses. `RolledBack` is `readValFromRecord`:
it walks back over the records of one transaction, stops at the first record
of another, and restores values at every JOINTX it passes. The vote is recorded as
VOTE_COMMIT whatever was voted, and a refused join writes a JOINTX record: both
are in the code. `delay` keeps the two negative values that kill the worker;
other delays only make a step later, which interleaving covers. `Budgets` is a set of
scenarios: how many commands of each kind each user issues at most.

A worker is killed where its user asked for it: by a crash command, after a send or by a
negative delay before one. In between, a poll of a worker restarted into its wait comes at once
(tw:465) and later ones after ten seconds; the guard `toM[w] = <<>>` of `PollTimeout` is a bound on
unread polls.

`posted` and `sent` hold what the last step passed to `sendto`; `joinedAt`,
`named`, `begun` are history variables that no guard of the program reads;
`left` counts what remains of the scenario.

### TxSystem

Datagrams of a pair of processes stay in order and are lost when the receiver is
down, because `sendMsg` of `tw` copies the wrong way between two address
variables, leaves `sin_addr` zero and so only ever reaches the same host: the
transport is the loopback interface. With `Lossy` a datagram may be dropped at
a full receive buffer. Duplicates and reordering do not occur on that transport.

**The refinement.** `AtomicCommit` knows no messages, logs or manager. A worker joins,
becomes prepared or refuses; one outcome is reached, a commit only when everybody who
joined is prepared; workers learn it. The mapping reads the logs: `Stage` of a worker is
"prepared" when it logged PREPARE_COMMIT before any ABORT, "refused" when the ABORT
came first; `Outcome` is the manager's logged decision; `Learnt` the worker's. A worker that
voted against counts as prepared, as its own log says VOTE_COMMIT (tw:582); that no commit
follows its vote is `VetoStands`, which looks at the datagram. `KeepsPromise`
says that every step of the system is then a step of `AtomicCommit` or a stutter. It holds
over a reliable network with crashes by command *after* a send. It fails when a worker
dies before its vote (a poll counts as the vote, `TxSilentVoter`), and when the manager is
killed from outside or datagrams are lost (see "Not modelled"). `AgreementProofs` proves it
for every number of workers and transactions while the manager runs.

### VectorClock

Updates, merges, saves and restores as in `tm` and `tw`. The manager counts an
event before it merges, a worker after; `main` of `tm` saves its clock before
giving it an entry (tm:792), and the ABORT command writes its ShiViz line before it
saves (tw:736). `behind` collects the nodes that were killed in one of those two
windows.

### MtServer and MtConnection

`MtServer` separates accepting, checking the limit, starting the thread and
counting it, because a started thread may end before `main` counts it. `ExitWithError` is
`DieWithError`: when accept, malloc or pthread_create fails the server ends for everybody.
`numThread` is unsigned: `Wrap` stands for 2^32. The unsynchronised reads are
aligned word loads and return a value that was stored. In `MtConnection` a recv takes
any number of the characters sent (`Recv`), and the loop over `my_char` goes one
round at a time (`Scan`, which is `Look`): `Meaning` is its chain of conditions, `Cut` what
`manageBuffer` and the answer do, `Awaited` the branch that only counts on. `Length` keeps the
one irregularity of the code: a character that makes a request invalid is dropped with it
if it is a digit or a blank, and is otherwise looked at again. `parsed` is a reference, not state of the
code: entry i + 1 is a handler that has looked once at each of the first i characters
(twice at one that was left over), whereas the code looks at everything it kept again after every
recv. They must agree whenever the loop has ended.

`link` is the connection: `EndStream` is the client that closes or sends no more, after which the
handler ends once everything is received (`Drain`, recv returns 0); `Break` is a recv or the send of
an answer that fails at any time. The word "exit" is not waited for: `strncmp(myBuffer, "exit",
my_char)` holds of every prefix, and the branch returns at once (ms:238), where those of "uptime" and
"load" test the length. So a lone "e" that begins a request closes the connection, which
`Meaning` calls "prefixOfExit" and `ClosedForCause` lists among the causes. Streams with NUL bytes (the code uses string
functions) and contents of more than 31 characters (where `strcat` leaves the buffer)
are excluded; the value of `uptime` and of `load` is left out, `load` being `MtServer`'s.

### BullyNode

One action per case of `handleMsg` and per case of the timeout's `switch`, with every
datagram it sends. `aya[n]` is the node that n's thread pings (`threadPtr = NULL` is
`Nobody`), and `Ping` is one round of that thread, which may come between any two
steps of the receive loop; where the loop tests and then writes `lastSent`, or sends
before it writes, a ping inside the handler is a choice of the action (`Pings`).

The thread is cancelled with `pthread_cancel`, which takes effect at its next system
call, and `threadPtr` is set to NULL at once. `cancelled[n]` says how far the thread still gets:

* "gone": it was asleep, or has ended.
* "writes": it was awake before bn:709 and writes `lastSent = AYA` once more (`LastWord`). It ends in
  `sendto`; or, when `sendMsg` drops the datagram and makes no system call, it goes on to
* "logs": it takes `logFile_lock` at any later moment (`Seize`), unless the next timeout comes
  first, and ends in `fopen`, holding it for ever:
* "holds". The receive loop then waits at its next log line, which is that of the next message
  or of the first datagram of a timeout (`RecvStuck`, `TimeoutHeld`), or, if the lock is taken
  during a handler, at the line after what it has just sent.
* "blocks": a new thread, started meanwhile, waits for the lock as well.

A thread cancelled between `sendto` and the lock takes it before, between or after the log lines
of the ELECTs that the same timeout sends (`TimeoutStuck`, or "logs" after `TimeoutOrphaned`): the node
stops with `lastSent` as it was, or ELECT. A node that waits for the lock is "stuck", not `Running`:
its datagrams stay unread, so it counts as one that has gone down, but its thread may go on
pinging. After a last word the next timeout calls `pthread_cancel(*NULL)` (`TimeoutSegfault`).

*Time.* Datagrams and handlers take microseconds, timeouts are whole seconds. `Elapse`
therefore lets receives time out only when nothing is on the way and no cancelled thread is
still to write; any set of nodes may time out together, and other nodes act between their
timeouts. This is the one timing assumption of the module, and every claim about answers
rests on it: with timeouts shorter than a round trip the program promises nothing.

`asked` is a history variable: the higher nodes that were up at n's last ELECT and have
been up since. `LastMember` stands for the group file, of which only the last line matters:
`lastSent = 0` is inside the loop over its lines (bn:266).

### BullyMPI

The same election on ticks. `tick` counts up to a common period of the two
remainders the code takes of it; the random AYA rate is any gap up to `MaxRate`, which is
2 * AYATime - 1. `% (size-1)*timeoutValue` is modelled as C parses it, `(tick % (size-1)) *
timeoutValue`: with three nodes and a timeout of six ticks, as in the run, a node that was answered asks
again at the first timeout, where `tick % ((size-1)*timeoutValue)` would have it wait for the third.
A node that pretends to be dead consumes messages and ticks, and
looks at the time after each one. `Second` is the clock process; messages are received
within a second.

## Runs

All bounds are constants of the configurations. `CHECK_DEADLOCK FALSE` stands
where the system may stop: users stop issuing commands, a connection is used
once, the server may die, a clock reaches `MaxEvents`, a handler has closed.

| run | instance | shows |
|---|---|---|
| `MgrSlots` | 1 worker that may join twice, 2 transactions, 2 slots of 2 members, kills between handlers | `MgrTypeOK`: no sequence of joins, kills and restarts overflows a member list or sends a malformed datagram; `CommitRetired`, `CommitIsFinal`: the inductive argument of the proofs on an instance with holes |
| `TxCommit` | 2 workers, two scenarios: each may change, abort or vote against; each dies after a send, also after a vote against, and the manager after its decision | `Agreement`, `CommitWasVoted`, `VetoStands`, `RollbackRestores`, types; under weak fairness `DecisionReaches`; the refinement `KeepsPromise` |
| `TxLoss` | loss, 1 kill of the manager anywhere, also inside a handler, three scenarios: a commit of 2 workers; two changes to 2 fields, abort and crash; two changes, crash before the vote | `RollbackRestores`; the system implements `MgrSpec` |
| `Clock` | manager, 2 workers, 4 events each | `ClockIsHistory`, `ReceiveDominates` |
| `MtServer` | 4 connections, limit 2, queue of 2, accepts and threads that fail | `AtMostMax`, `LoadIsHonest`, `RefusedWhenFull`, and under fairness `QueuedAnswered` |
| `MtConnection` | 7 characters, streams of 5, ended or broken anywhere | `ChunkingInvisible`, `ClosedForCause` |
| `BullyNode` | 4 nodes of which the lowest never starts, 1 fault | `ElectionInv`, `ClaimJustified`, `FollowsUpwards`, types |
| `BullyMPI` | 3 nodes and the clock, timeout 6, AYA gaps up to 3, death of 12 seconds at least, 2 deaths | `ClaimJustified`, `LeaderDeadIsTrue`, under fairness `LeaderElected`, types |
| `MgrTornCommit` | violation | after a torn kill and a restart the timeout aborts a committed transaction |
| `TxDoubleJoin` | violation | a member listed twice is sent two PREPARE_COMMITs, and the second ends its wait |
| `TxSilentVoter` | violation | a worker that crashed before voting counts as a yes |
| `BullyFileOrder` | violation | with a group file that ends on a lower node, the first election ignores its answers |

**Why the bounds are enough.** Two workers give a member that decided and one
that did not; two slots give a hole before a running transaction and, when both are held,
no room for another; a list of two is filled by a worker that joins twice, and is then
full for its third join. Users get one
command of each relevant kind, which includes every order of join, change, vote, abort
and crash; the second change in `TxLoss` separates the first old value from the
last. Two values per field are enough to tell restored data from changed data.
Three clock entries hold three nodes exactly; four events include restart after
receive. Four connections to a server of two exceed the limit and the queue
in turn. Five bytes hold `load` with a character left over and three invalid
requests in a row; `uptime` behaves like `load` in the parser except
for its answer, and `exit` ends at its first letter, "e"; `1` and
the blank make sums. Three running election nodes have a top, a bottom and one that is
both above and below; the fourth, lower and never started, is the node whose place in the
group file and whose silence matter. One fault is a crash that is restarted at any time, or one
thread cancelled awake. Two deaths of MPI nodes let the second leader die while the first
is dead, or has just returned.

**`CommitIsFinal` and the two notions of user.** `begun` and `ReuseTids = FALSE` say
that users give a transaction one BEGINTX: transactions are numbered by hand and
no test script uses a number twice. The transaction number 0, which marks free
slots, is not typed by users; a COMMIT before any join sends it all the same, and
the model does.

**The system implements `MgrSpec`.** `TxLoss` has `MgrSpec` as a property: every
step of the composed system is a step of the manager in its open environment, or
one that leaves it alone. So what is proved of `MgrSpec` holds in the system.
`SystemImplementsManager` proves the same for all constants.

### Divergences from the repository's own statements

The four violation runs each refute a sentence of the repository
(PROJECT.json "findings" quotes them). Modelling met nine more, each with a
configuration in this directory that TLC refutes; they are kept for whoever repairs the code and
are not part of the runs above.

| configuration | module | sentence | what happens |
|---|---|---|---|
| `MgrRebegin.cfg` | `TManager` | tm:242 "this transaction has already started" must fail | a hole before the slot: BEGIN_SUCCESS and a second slot (`RunningBeginFails`) |
| `MgrRefusedJoin.cfg` | `TManager` | tm:249 "this transaction doesn't exist, cannot join" | a hole before the slot: JOIN_FAIL for a running transaction (`RefusedJoinIsUnknown`) |
| `MgrStarved.cfg` | `TManager` | tm:562 a timeout aborts the waiting transaction | a COMMIT with number 0 makes a free slot "wait"; it is aborted for ever after (`TimeoutAbortsWaiting`) |
| `TxPollAnswer.cfg` | `TxSystemMC` | `ShiVizReport.txt:31` polls are answered from the log | a poll that completes the votes is told a commit nobody logged (`CommitToldIsLogged`) |
| `TxFailedJoin.cfg` | `TxSystemMC` | tw:100 "Used to rollback values in the abort case" | inside a transaction, a refused join of another leaves a JOINTX record under the refused number, at which `readValFromRecord` stops (tw:154): changes made before it are not undone (`RollbackRestores`) |
| `TxStarved.cfg` | `TxSystemMC` | tm:562 "waiting for votes timed out. abort the transaction" | while one member never votes, another that waits polls as often as the manager times out, and puts the timeout off for ever (`UncertainEnds`) |
| `ClockFull.cfg` | `VectorClock` | tm:184 the clock is merged with the received one | one node more than entries: it is dropped (`ClockIsHistory`) |
| `ClockReused.cfg` | `VectorClock` | tw:875 "pick up from there" | two ShiViz lines with one time (`StampsGrow`) |
| `ClockLost.cfg` | `VectorClock` | tm:275 the clock is restored after a crash | a manager killed before its first event never counts again (`RestoreKeepsTime`) |

`TxDoubleJoin` is not the only way out of the uncertain wait: `UncertainBlocks` also fails
when two workers, or one worker twice, ask for the same commit (each COMMIT sends PREPARE_COMMIT to all
members), and when a user types a BEGINTX inside a transaction and its answer arrives after
the vote. In `TxCommit` nothing but a decision can reach a waiting worker, so the property
is not among those of that run. `RollbackProofs` shows that these are all the ways
out, but for a worker that nobody asked: one that crashes in an ABORT command polls after its restart.
`Agreement` survives all of it, as `AgreementProofs` shows.

`saveWorkerInfo` can place a second slot for a running transaction, against its own comment: it takes a
second BEGINTX past a hole, as `MgrRebegin.cfg` shows. What is said of the manager for users who begin a
transaction once (`~ReuseTids`) therefore says nothing about the search; `SlotsDistinct` is no claim about
the code but a step of the proofs, which use it under that assumption.

The elections depart from their documents in further ways, which are in the models as the
code has them and have no configuration of their own:

* `bully_algorithm/msg.h:17` abandons an election after (MAX_NODES + 1) timeouts without
  a COORD; the UDP node does so after one (bn:363).
* msg.h:20 has a starting node elect unless it hears an ELECT or a COORD; bn:287 takes any
  message, and a node that was restarted and hears an AYA, an ANSWER or an IAA first elects
  nobody until it is asked or told.
* msg.h:10 has nodes ping the coordinator; a node that pings already goes on pinging the
  previous one when another claims (bn:644). So a higher node that returns is followed only
  by nodes without a thread.
* A thread cancelled awake ends the process at a later timeout, or leaves it waiting for
  `logFile_lock` for ever (bn:332, :475).
* The MPI node's bounds: with `ReturnToLife` below twice the timeout, or with five processes, a
  timeout of 2 and a `ReturnToLife` of 4, `LeaderElected` fails, and with `MaxRate >=
  TimeoutValue` so does `LeaderDeadIsTrue`; both were met while choosing the constants of
  `BullyMPI.cfg`, which satisfy what the program needs to work.

## Fairness

`TxSystem!FairSpec`: weak fairness of reading a datagram that is in a buffer, of a
waiting worker's poll, of restarting a dead process (the ShiViz scenarios restart
both sides; without it nothing can be promised) and of the restart loop.

`ManagerTimeout` is weakly fair: `poll()` times out only after ten seconds without
a datagram (tm:555), and a poll of a waiting worker, sent every ten seconds (tw:512), starts them
over. So a timeout is owed only to a manager that hears nothing any more. Under this fairness
`DecisionReaches` holds: once a decision is logged, whoever waits for it, and knows the manager, is
told, although the manager or the worker died before telling or being told; the polls are then what
helps. `UncertainEnds`, that every wait ends, does not: `TxStarved.cfg` refutes it when one member never votes
and another polls, and it would take a timeout that polls do not put off.

`MtServer!FairSpec`: weak fairness of `main` and of the threads, which the
operating system schedules. Nothing is assumed of clients: a client that stays is
served for ever, and one that has hung up is noticed because `recv` returns. A server that
has ended serves nobody, and `QueuedAnswered` excuses it.

`BullyMPI!FairSpec`: the clock and the nodes run on (`WF_vars(Next)`; `Second` is enabled only
when everything has been received, so a second ends and the next one comes), and a dead node
returns: `returnToLife` seconds are finite.

`BullyNode!FairSpec` is used by `BullyLive.cfg` (`OrphanNotices`: a node that pings a dead
coordinator, and is pinged by nobody, gives up on it). Weak fairness of reading, of the
thread and of acting on a timeout; strong fairness of timing out for a node that nobody
pings, because datagrams of elections may put its timeout off and elections end.
`BullyLive.cfg` passes with three nodes in some five minutes (1,171,752 states), and with two nodes
(`Node = {1, 2}`, `LastMember = 2`, `MaxFaults = 3`) at once; it is kept beside the
runs because of that time.

## Proofs

### TxSystemProofs: the manager by itself

For any sets of workers and transactions, any number of slots and
members, and any messages of the workers in any order:

* `TypeCorrect`: `MgrSpec => []MgrTypeOK`, without further assumptions. Its content is
  the bound on member lists and that every datagram sent is well formed.
* `CommitFinality`, `CommittedLeavesTable`: `CommitIsFinal` and `CommitRetired` are invariants, assuming `~ReuseTids` and
  `~TornKills`. The first assumption is about users; the second is necessary for
  finality (`MgrTornCommit` is the counterexample).

**The inductive invariant** is `FinalInv == SlotsDistinct /\ CommitRetired /\ BegunFirst`.
`CommitIsFinal` speaks of the last step's messages and is not inductive. An abort for
t is sent as the answer to a vote or poll (only when t has no slot and no commit in
the log), by a vote to abort, at a timeout and after a restart. A vote to abort
broadcasts to the slots of t, and `CommitRetired` says that a committed t has
none; likewise the timeout. `CommitRetired` survives a commit only if cleaning the
first slot of t leaves none, which is `SlotsDistinct`; it survives a BEGINTX only if
the new transaction is not in the log yet, which is `BegunFirst`: what is in
the table or decided in the log has been begun. `SlotsDistinct` in turn survives a
BEGINTX because a transaction that was not begun holds no slot: it is not a result but what
`~ReuseTids` buys, users taking the place of the search that stops at holes (tm:239). So the three parts
need one another. Each handler has a lemma (`BeginStep`, `JoinStep`, `CommitStep`,
`VoteCommitStep`, `DecideStep`, `TimeoutStep`, `RecoverStep`), and `FinalStep`
joins them. `BroadcastReach` connects what is sent with who holds a slot. `Allowed`, the
messages of the open environment, excludes a BEGINTX for a number that was begun
unless `ReuseTids`, and votes on a number that was never begun: workers vote only on what
they were asked to prepare.

`FinalStep` asks only that a step which is a torn kill leaves the manager down, so the
composed system uses it for the steps of a manager that runs, whatever `TornKills` is.

The assumptions on constants are those of the modules: `NoTidAssumption`,
`SizesAssumption`, `SwitchesAssumption`.

### TxSystemProofs: the system

For any workers, transactions, slots, budgets, fields and values, with losses and kills:

* `WorkerTypes`: `Spec => []WorkerTypeOK`. Its content is that a roll-back finds
  values: `LeastNumber` of `QueueLemmas` gives the `CHOOSE` of `RolledBack`, the
  place where the walk back stops, a value.
* `SystemImplementsManager`: `Spec => MgrSpec`. The workers send the manager
  nothing that the open environment of `MgrSpec` may not send.
* `SystemCommitFinality`: `CommitIsFinal` in the system, with losses and kills between
  handlers; it follows from the two results before it by the manager's own theorem.

**The inductive invariant** is `SystemTypeOK /\ BufferInv`. `Allowed` is about the moment a
datagram is handled, and the program looks only at the moment it is sent, so `BufferInv` speaks of what is
in the buffers: without `ReuseTids` a transaction has one BEGINTX at most on its way and none once
it was begun (`BeginsOnce`, `BeginsFresh`), and a vote on its way is about a transaction that was
begun (`VotesBegun`). A worker votes on what it was asked to prepare; it was asked because
it was in a slot, and a slot is only held by what was begun (`SlotsBegun`).

### AgreementProofs

For any workers, transactions, fields and values, and any interleaving of
commands, votes, polls, aborts, timeouts and workers that die and restart:

* `OrderlyAgreement`: no two workers record different decisions (`Agreement`).
* `OrderlyCommitWasVoted`: a commit was requested, and everybody who joined was asked to
  prepare before it aborted (`CommitWasVoted`).
* `OrderlyKeepsPromise`: the system implements `AtomicCommit` (`KeepsPromise`).

They assume `~Lossy` and `~ReuseTids`, and are about `OrderlySpec`: `Spec` restricted to the
behaviours for which the program can keep the promise. Each restriction is there
because without it the code does something else, which a configuration of this directory shows
or the model has as a choice:

| restriction | without it |
|---|---|
| the manager keeps running (`mgrUp'`) | the restart tells members to abort and logs nothing ("Not modelled"); `MgrTornCommit` |
| a slot is free and every slot has room for one more member (`Spacious`) | `saveWorkerInfo` reads an uninitialised index, or a join is confirmed and not listed |
| a worker dies only in a step that sends a vote or a poll | `TxSilentVoter`: a restarted worker's poll counts as a yes |
| each user joins at most once (`OneJoinEach`) | `TxDoubleJoin`, `TxFailedJoin` |
| nothing is lost (`~Lossy`) | a member that missed the abort votes later |
| users give a transaction one BEGINTX (`~ReuseTids`) | `MgrRebegin`: two slots |

The constants leave the number of users who begin, commit, abort, change data, vote against
or crash open. `TxOrderly.cfg` checks the invariant below, `Agreement`, `CommitWasVoted` and
`KeepsPromise` with two workers and two transactions, two scenarios, 971,770 states in two
minutes; commits and aborts with everybody told are among them, so the restrictions
leave the protocol whole. `TxCommit` checks the same three properties where the theorem does
not reach: with a manager that dies after its decision and is restarted.

**The inductive invariant** is `SafeInv`: the types, `BufferInv`, what is proved of
the manager (`FinalInv`), and `CommitInv`, which relates four records of one transaction that
the code keeps apart: the slot, the datagrams, the workers' logs and the manager's log.

* *Who takes part.* `Tx(w)` is the transaction of a worker, read from its log while it is
  dead. `Admission` has a worker take part in one; `Engagement` has all that it
  logs and sends be about that one. `Listing` then makes a slot's members exactly the workers
  the manager admitted, each once, whether or not they have read the answer.
* *Who consents.* A marked member logged PREPARE_COMMIT before an abort. A poll
  marks a member as a vote does (tm:429), and carries no consent; the proof needs
  `Covered`: while a member is not marked, a poll of its in the buffer comes after a vote of its. That
  is what a worker that dies before its vote breaks.
* *When a slot goes.* `Listing` says a slot goes when its last member is marked, so no slot is
  complete and waiting. `Verdict` says that whoever was admitted and whose slot is gone finds a
  decision in the log; this is why a poll answered from the log, and the counting of votes
  on a slot without members, which may return anything, give nobody a wrong answer.
* *What is heard.* Every decision on its way or recorded is in the manager's log, and nobody hears an
  abort of what was committed. `CommitIsFinal` keeps it so.

There is a lemma for each command, message and handler and each part of the invariant it can disturb; the lemmas
about queues (`ReadByManager`, `TailPlaces`, `AppendedPlaces`) say what reading and
sending do to the order of messages, on which `Covered` and `AcceptedFirst` rest. For the
refinement, `WorkerAdvances` and `ManagerResolves` say how a step changes the logs, and
`WorkerPromise` and `ManagerPromise` map the change to a step of `AtomicCommit` or a
stutter. The last difficulty there is that a commit of `AtomicCommit` needs all who joined prepared in the
very step, which is `CommitWasVoted` after it.

### RollbackProofs

`AgreementProofs` needs a manager that runs and a network that loses nothing. What a worker
may count on by itself needs neither. For any workers, transactions, slots, fields and values,
any losses, workers that crash anywhere, a manager that is killed between handlers or inside one, also
with a slot half cleaned, and restarts of both:

* `WaitsForDecision`: a worker leaves its wait only by a decision or a crash (`UncertainBlocks`).
* `RollsBack`: the step with which a worker first aborts what it joined leaves its data as they were
  at the join (`RollbackRestores`), whether that step is a command, a decision, or its restart.

No assumption is made on `Lossy`, `TornKills` or `ReuseTids`. Both are about `ConsiderateSpec`, `Spec`
restricted to certain users, and each adds a restriction of its own. TLC finds a counterexample
when one is dropped:

| restriction | for | without it |
|---|---|---|
| each user joins at most once (`OneJoinEach`) | both | `TxDoubleJoin`, `TxFailedJoin` |
| a commit is asked for once (`Considerate`) | both | the second COMMIT sends PREPARE_COMMIT again, to workers that voted |
| BEGINTX before the JOINTX, not after (`Considerate`) | both | its answer arrives in the wait and ends it; a worker restarted into that wait has no `txRun`, and what it then changes is not logged |
| who dies aborted or decided was asked to prepare (`Aware`) | `WaitsForDecision` | a worker that dies in an ABORT command polls after its restart, and the PREPARE_COMMIT of a commit it took no part in ends that wait |
| a slot holds the transaction or is free (`Roomy`) | `RollsBack` | `saveWorkerInfo` reads an uninitialised index and lists a worker for another transaction, whose decision it takes for its own |

**The inductive invariants.** That a worker is asked to prepare once at most is `AskedInv`, and it is a fact
about all the buffers at once. `RequestedOnce`: one COMMIT of a transaction is on its way at most, and
none when COMMIT_REQ is logged. `Order`: whoever was asked, or is about to be, is
listed only by slots whose commit is already on record, so the next COMMIT that the manager reads asks
somebody else; and in a worker's buffer answers to BEGINTX come before JOIN_SUCCESS, that before the
PREPARE_COMMIT, that before decisions (`InOrder`). `Entry` says what may be
before the manager reads the worker's JOINTX: nothing but BEGINTXs and their answers; this
is what `ListedOnce` survives a join by. Losses only thin out the buffers (`ShrunkKeeps`), and a manager that restarts
sends decisions only, so neither is an obstacle. A slot that a kill left half cleaned
lists fewer members at shifted places (`TornStays`), and nobody twice. `WaitsAsked` adds that who waits was asked;
then there are only decisions in its buffer, which is the first theorem.

The second needs the data. `CarefulInv` says of a worker that joined t and was not told: everything it is
sent or sends, and every slot that lists it, is about t (`Business`); its log has one join with
no change before it and nothing about another transaction after it (`Logbook`), which is where
`readValFromRecord` stops; it has `txRun` set or is in the wait, so that no change goes unrecorded;
and undoing what is on record gives the data of the join (`Undone`). `RolledBack` of the model, which
finds the old value by a backward search, is proved equal to that.

TLC checks the invariants and what follows from them with two workers: `Rollback.cfg` (1,252,111
states) and `Uncertain.cfg` (376,761). The restrictions do not take the point away: a worker
that keeps its changes when it is told to abort, or when it is restarted, violates
`RollbackRestores` under them, and one that polls once violates `UncertainBlocks`.

### MtServerProofs

For any connections, even infinitely many, any limit and any width of `numThread` that can
hold it: `MtServerTypes`, `MtServerAtMostMax` (`Spec => []AtMostMax`), `MtServerLoadIsHonest`
and `MtServerRefusedWhenFull`, with threads that break off and a server that exits.

**The inductive invariant** is `ServerInv == ServerTypeOK /\ Deciding /\ Counted`. `AtMostMax`
speaks of threads and the code looks at `numThread`; `Counted` gives the exact relation:
equal, except between `pthread_create` and the increment, when `numThread` is one less, modulo
2^32: if all threads have left by then it is 2^32 - 1, and the increment brings it
to 0. `Deciding` says that the connection `main` holds when it checks the limit has
no thread yet. The limit may be any number below `Wrap` (`LimitAssumption`).

For one connection, for any alphabet, stream, pieces and `RCVBUFSIZE`, without assumptions:
`ChunksDoNotMatter` (`ConnSpec => []ChunkingInvisible`) and `ClosesForCause`
(`ConnSpec => []ClosedForCause`): a closed connection was broken, or was ended by the client with
everything received, or sent an "e" where a request begins, or three invalid requests in a row.

**The inductive invariant** of the first is `StreamInv`. Looking at the kept characters again is
harmless only because they had all been found to begin a request, and because `numInvalid` was 0
by then; in the middle of the loop the handler is therefore compared with several entries of
the reference. `Buffered` says which characters of the stream the buffer holds; `ReadOnce`
what the reference is, and that nothing happens to a closed one. `InStep` says that the
reference before the first character of an empty buffer is the handler itself; that the one after the first
character is what a single look at it makes of the handler; and that, past the first character, the
one before `my_char` is the handler with the characters behind it cut away, with
`numInvalid` 0. A handler that has hung up may still hold characters that the reference never saw, so
`HungUp` asks only for the same answers. Two lemmas carry the step of `Scan`: `Entry`, that the
next entry is one look at the buffer up to `my_char`, and `CutRound`, that this look and the handler's cut off the
same request; then the rest of the buffer is empty, or is one character that the reference looks at
again (`LeftOver`), which is where `Length` matters. `FirstLook` shows that once is
enough: a single character never leaves another.

A recv or send that fails stops the handler anywhere, with nothing left to compare; at the end of a
stream it stops with the same answers as the reference, which stays open (`Parted`).

`CauseInv`, behind the second theorem, says that `numInvalid` is at most 2 in an open handler and counts the
last answers, which all rejected a request. The proofs do not look into `Total`, the sum of the
digits: both sides use it.

### BullyProofs

For any finite or infinite set of port numbers:

* `BullyTypes`: `Spec => []BullyTypeOK`, and `NodesLookUpwards`: `Spec => []FollowsUpwards`,
  with drops, crashes, restarts and cancelled threads, and without assumptions. The second
  is inductive as it stands once it speaks of claims on the way as well as of
  coordinators pinged.
* `ElectionIsOwed`: `Spec => []ElectionInv`, and `ClaimIsJustified`: `Spec => ClaimJustified`,
  assuming `Reliable`: nothing is dropped and the last line of the group file is the highest
  node. Both parts are necessary: a dropped ANSWER makes a node claim over its betters, and
  so does the other order of lines (`BullyFileOrder`).

**The inductive invariant** is `BullyTypeOK /\ ElectionInv`. A claim is made at a timeout with
`lastSent = ELECT`, or with nothing sent and ELECT last received. `DueSilent` says that in the
first case nobody who was asked is still up; it becomes true when time passes, because then
nothing is on the way while `AnswersOwed` says that every higher node that was up owes an
answer, as an ELECT it has not read or an ANSWER not yet received. `AnswersOwed` survives a
step because reading the ELECT sends the ANSWER, reading the ANSWER ends the waiting
(`lastSent` becomes 0), and a node that goes down leaves `asked`. `DueSilent` survives because a
node whose receive has timed out reads nothing and so cannot pass an election on. A node that blocks
on `logFile_lock` does so with `lastSent` as it happens to be, often ELECT; it leaves `Running` and every `asked`
in that step, and owes nobody anything, since it will never act (`BlocksEffect`, `InvBlocks`). `UnaskedTop`
leaves the second case to the highest node. One lemma per action, and the step theorem joins
them.

The assumptions on constants are `NodeAssumption`, `AbsentAssumption` and `FaultAssumption`.

### BullyMPIProofs

For any number of processes, any timeout, AYA rate and time of death:

* `MpiTypes`: `Spec => []MpiTypeOK`, from `TypeInv`, which also says that elections and
  pings travel upwards, answers and claims downwards.
* `MpiClaimJustified`: `Spec => ClaimJustified`, assuming that MPI_Send loses nothing
  (`~Lossy`) and `TimeoutValue >= 2`. With a timeout of one tick a node may time
  out in the second in which it asked.
* `MpiLeaderDeadIsTrue`: `Spec => LeaderDeadIsTrue`, assuming `~Lossy` and `MaxRate <
  TimeoutValue`. TLC refutes it as soon as the two are equal; `main` of `bm` reads both from the
  command line and compares them with nothing.

**The inductive invariants.** `ElectionInv` is that of the UDP election without its timing: a node in
an election is owed an answer by everybody it asked who has been alive since, and is then `Fresh`: its election is less than a second old. A timeout comes two
ticks later at least, after messages were received (`Second`), so nobody is left to
answer. `PingInv`: `lastSent` stays AYA after the IAA has come, so it is no evidence that
a ping is unanswered, and the theorem needs a relation of times: unless an AYA was
ignored, `tick` does not get ahead of `sincePing`, or the answer comes within this second.

### QueueLemmas

What appending and reading do to the set of messages of a queue, shared by the proofs of
the system and of `BullyMPI`; and `LeastNumber`, that a set of natural numbers has a least
one, derived from the library's theorem on finite sets since induction is
out of the provers' reach.

### VectorClockProofs

For any number of nodes and events, assuming `Room`: the nodes are finitely many and at most as many
as a table has entries. With one node more the entry is dropped and both theorems fail
(`ClockFull`).

* `ClockCountsHistory`: `Spec => []ClockIsHistory`.
* `ReceiveLosesNothing`: `Spec => ReceiveDominates`.

**The lemma about data** is `MergedTimes`: merging two tables gives a table in which each node has the later of
its two times. `Merged` is a recursive function; the provers cannot instantiate the
library's induction theorems, but both its existence (`MergeEnds`) and what it computes
follow from `LeastNumber`: there is no first step of the loop that goes wrong. A `Table` uses its entries from the
first on, each for another node, so the first entry that fits is the only one; `RoomFor` finds
one by the pigeonhole principle.

**The inductive invariant** is `ClockInv`. Its parts: a clock, and the clock of a message, is
right about the past that goes with it (`HistoryInv`); a saved clock is right about everybody else, and about
its own node when that is down (`SavedInv`), which is when it is read; and nobody has heard of more events of a
node than it had (`Known`). The last is what makes the manager's order, which counts before it
merges, and the workers', which merge before they count, come to the same.

**Only model-checked**: `Agreement`, `CommitWasVoted` and `KeepsPromise` when the manager dies after its
decision (`TxCommit`); liveness, which is out of the
prover's reach.

## Not modelled

* The text of messages, logs, ShiViz lines and arguments; serialization and byte
  order; the layout of the files. `dumpObject.c` and `Thread.c` keep no state of
  the system.
* The mapping of 512 bytes at start-up: a log that outgrows the mapped page (some
  214 manager or 23 worker records) ends the process. The instances stay below.
* `fileExist` of `tw` is read uninitialised at a first start; the model takes the
  branch that every documented run takes, creating the files.
* `Agreement` when the manager is killed from outside or datagrams are lost. The restart
  loop tells members to abort without logging anything and keeps the slot, so a
  member that missed the message can still vote or poll a commit together. No
  document of the repository promises more than `TxCommit` checks.
* A worker restarted before any successful join polls an address it does not
  have; `DecisionReaches` speaks of workers that know their manager.
* A kill of a worker from outside, in the middle of a handler or of its wait: workers die where the
  crash commands have them die.
* `VetoStands` when datagrams are lost: a vote against that never arrives leaves a record VOTE_COMMIT and a
  wait, whose polls are counted as a yes (tm:429).
* An ABORT command after the commit rolls committed data back; `RollbackRestores`
  speaks of undecided transactions.
* The vector clock and the log of the UDP election, and `dlcTime` of the FG-MPI one: nothing is
  decided by them. `mergeVectorClock` of `bn` merges by index (bn:446), which is right only if
  all nodes read the same group file; `VectorClock` models the transaction system's, which
  merges by node.
* The moment in which the AYA thread detaches `*threadPtr` before its creator has set
  `threadPtr` (bn:684): it ends the process, and a `Crash` at that point stands for it.
* The message TERMINATE of the FG-MPI node, which no process sends.

## Plan

1. `OrderlySpec` without `mgrUp'` for a manager that dies only after logging a decision, with
   `Verdict` weakened to slots that the restart keeps; weaker forms of `SlotsDistinct`
   without `~TornKills`.
2. Repairs: a variant of the manager that consults its log at a timeout and
   logs at restart, to see what then holds under loss; a variant of the UDP node that
   pings the last claimant.

## Checking

`tlc -config X.cfg M` in this directory runs configuration X of module M as in
PROJECT.json "runs"; `tlc -config TxOrderly.cfg TxOrderlyMC` checks the invariant of `AgreementProofs`, and
`tlc -config Rollback.cfg RollbackMC` and `Uncertain.cfg` those of `RollbackProofs`.
`tlapm M.tla` checks the proofs of M, one of `TxSystemProofs`,
`AgreementProofs` (some three minutes), `RollbackProofs` (four and a half), `QueueLemmas`, `VectorClockProofs`, `MtServerProofs` (two),
`BullyProofs` and `BullyMPIProofs`. Each property of a
passing run has a mutant (an operator whose comment begins "Mutant of"), a plausible
error in the code that makes TLC refute the property under the same configuration.
