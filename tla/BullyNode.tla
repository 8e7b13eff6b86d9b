------------------------------- MODULE BullyNode -------------------------------
(* The bully election over UDP (bully_algorithm/node.c): the receive loop with *)
(* its timeout, which decides by the last message sent and the last received,  *)
(* and the thread that pings the coordinator and shares lastSent with it.      *)
(* Nodes start at any time, crash and start again.                             *)
EXTENDS Integers, Sequences

CONSTANTS
  Node,         \* the port numbers of the group file
  Nobody,       \* no coordinator is pinged: threadPtr = NULL
  LastMember,   \* the node on the last line of the group file
  Absent,       \* bound: the nodes that are never started
  Lossy,        \* TRUE: sendFailureProbability is above 0
  MaxFaults     \* bound: crashes, and threads that are cancelled awake

ASSUME NodeAssumption == Node \subseteq Nat /\ Nobody \notin Node /\ LastMember \in Node
ASSUME AbsentAssumption == Absent \subseteq Node
ASSUME FaultAssumption == Lossy \in BOOLEAN /\ MaxFaults \in Nat

VARIABLES
  pc,            \* "first": in the first recvfrom; "stuck": blocked on logFile_lock
  lastSent,      \* "none" is 0
  lastReceived,
  aya,           \* per node: whom its thread pings
  cancelled,     \* per node: how far a cancelled thread still is from its end
  due,           \* nodes whose receive has timed out
  net,           \* net[m][n]: datagrams from m in the socket of n
  asked,         \* history, per node: higher nodes up ever since its last ELECT
  faults         \* bound: faults so far

vars == <<pc, lastSent, lastReceived, aya, cancelled, due, net, asked, faults>>

Kind == {"ELECT", "ANSWER", "COORD", "AYA", "IAA"}

BullyTypeOK ==
  /\ pc \in [Node -> {"down", "first", "loop", "stuck"}]
  /\ lastSent \in [Node -> {"none", "ELECT", "COORD", "AYA", "IAA"}]
  /\ lastReceived \in [Node -> {"none", "ELECT", "ANSWER", "COORD", "AYA"}]
  /\ aya \in [Node -> Node \cup {Nobody}]
  /\ cancelled \in [Node -> {"gone", "writes", "logs", "holds", "blocks"}]
  /\ due \in SUBSET Node
  /\ net \in [Node -> [Node -> Seq(Kind)]]
  /\ asked \in [Node -> SUBSET Node]
  /\ faults \in 0..MaxFaults

Higher(n) == {m \in Node : m > n}

\* Mutant of Lower: portno <= local_port.
LowerOrSelf(n) == {m \in Node : m <= n}

Lower(n) == {m \in Node : m < n}

Running == {n \in Node : pc[n] \in {"first", "loop"}}

\* A thread is cancelled at its next system call: asleep, it is "gone" at once; awake,
\* it still "writes" lastSent and ends when it sends; past that it "logs", takes
\* logFile_lock and ends when it opens the file.  Then it "holds" the lock, and the
\* node and a new thread block on it: "blocks" when that thread does.
LogFree(n) == cancelled[n] \notin {"holds", "blocks"}

-------------------------------------------------------------------------------
\* Sending and receiving.  sendMsg drops a datagram with the given probability.

Arriving(to) == IF Lossy THEN SUBSET to ELSE {to}

\* queues, with what n sends to each node; sockets of other nodes are closed.
Sends(n, queues, out) ==
  net' = [queues EXCEPT ![n] =
            [m \in Node |-> IF m \in Running THEN @[m] \o out[m] ELSE @[m]]]

Holds(queue, kind) == \E i \in 1..Len(queue) : queue[i] = kind

Copies(kind, to) == [m \in Node |-> IF m \in to THEN <<kind>> ELSE <<>>]

\* An ELECT to every higher node, with the ping of the thread between them.
Elects(n, ping) ==
  /\ \E elect \in Arriving(Higher(n)) :
        Sends(n, net, [q \in Node |-> Copies("ELECT", elect)[q] \o Copies("AYA", ping)[q]])
  /\ asked' = [asked EXCEPT ![n] = Higher(n) \cap Running]

\* Bound: a node pings again when its last ping and the answer to it are read.
Pings(n) ==
  IF /\ aya[n] # Nobody
     /\ ~Holds(net[n][aya[n]], "AYA")
     /\ ~Holds(net[aya[n]][n], "IAA")
  THEN {{}, {aya[n]}} ELSE {{}}

Received(m, n) == [net EXCEPT ![m][n] = Tail(@)]

Unread(n) == [m \in Node |-> [net[m] EXCEPT ![n] = <<>>]]

Takes(n, m, kind) ==
  /\ n \in Running \ due
  /\ LogFree(n)
  /\ net[m][n] # <<>> /\ Head(net[m][n]) = kind
  /\ pc' = [pc EXCEPT ![n] = "loop"]
  /\ UNCHANGED <<cancelled, due, faults>>

\* The node blocks on logFile_lock for ever, after out: it reads no datagram, and
\* nothing of its state, any more.
Blocks(n, out) ==
  /\ pc' = [pc EXCEPT ![n] = "stuck"]
  /\ Sends(n, Unread(n), out)
  /\ asked' = [m \in Node |-> asked[m] \ {n}]

-------------------------------------------------------------------------------
\* handleMsg

\* An ELECT is passed on unless an ELECT was the last thing sent.
PassesTo(n) == IF lastSent[n] = "ELECT" THEN {} ELSE Higher(n)

\* A node with nobody to pass it on to claims.
ClaimsTo(n) == IF lastSent[n] = "ELECT" \/ Higher(n) # {} THEN {} ELSE Lower(n)

\* Whatever the thread does between the test of lastSent and the write to it, the
\* write then hides.
HiddenPings(n) == IF lastSent[n] = "ELECT" THEN {{}} ELSE Pings(n)

RecvElect(n, m) ==
  /\ Takes(n, m, "ELECT")
  /\ lastReceived' = [lastReceived EXCEPT ![n] = "ELECT"]
  /\ \E answer \in Arriving({m}), elect \in Arriving(PassesTo(n)),
        coord \in Arriving(ClaimsTo(n)), ping \in HiddenPings(n) :
       Sends(n, Received(m, n),
             [q \in Node |-> Copies("ANSWER", answer)[q] \o Copies("ELECT", elect)[q]
                               \o Copies("COORD", coord)[q] \o Copies("AYA", ping)[q]])
  /\ lastSent' = [lastSent EXCEPT ![n] =
                    IF @ = "ELECT" \/ Higher(n) # {} THEN "ELECT"
                    ELSE IF Lower(n) = {} THEN "none" ELSE "COORD"]
  /\ asked' = IF PassesTo(n) = {} THEN asked
              ELSE [asked EXCEPT ![n] = PassesTo(n) \cap Running]
  /\ UNCHANGED aya

\* Mutant of RecvAnswer: the election goes on as if nobody had answered.
RecvAnswerIgnored(n, m) ==
  /\ Takes(n, m, "ANSWER")
  /\ net' = Received(m, n)
  /\ UNCHANGED <<lastSent, lastReceived, aya, asked>>

\* Here too a ping may be hidden.
RecvAnswer(n, m) ==
  /\ Takes(n, m, "ANSWER")
  /\ IF lastSent[n] = "ELECT"
     THEN /\ lastReceived' = [lastReceived EXCEPT ![n] = "ANSWER"]
          /\ lastSent' = [lastSent EXCEPT ![n] = "none"]
          /\ \E ping \in Pings(n) : Sends(n, Received(m, n), Copies("AYA", ping))
     ELSE /\ net' = Received(m, n)
          /\ UNCHANGED <<lastSent, lastReceived>>
  /\ UNCHANGED <<aya, asked>>

\* A node that pings already goes on pinging the coordinator it had.
RecvCoord(n, m) ==
  /\ Takes(n, m, "COORD")
  /\ lastReceived' = [lastReceived EXCEPT ![n] = "COORD"]
  /\ aya' = IF aya[n] = Nobody THEN [aya EXCEPT ![n] = m] ELSE aya
  /\ net' = Received(m, n)
  /\ UNCHANGED <<lastSent, asked>>

RecvAya(n, m) ==
  /\ Takes(n, m, "AYA")
  /\ lastReceived' = [lastReceived EXCEPT ![n] = "AYA"]
  /\ lastSent' = [lastSent EXCEPT ![n] = "IAA"]
  /\ \E to \in Arriving({m}) : Sends(n, Received(m, n), Copies("IAA", to))
  /\ UNCHANGED <<aya, asked>>

\* Mutant of RecvIaa: it is remembered, as the FG-MPI node does.
RecvIaaNoted(n, m) ==
  /\ Takes(n, m, "IAA")
  /\ net' = Received(m, n)
  /\ lastReceived' = [lastReceived EXCEPT ![n] = "IAA"]
  /\ UNCHANGED <<lastSent, aya, asked>>

RecvIaa(n, m) ==
  /\ Takes(n, m, "IAA")
  /\ net' = Received(m, n)
  /\ UNCHANGED <<lastSent, lastReceived, aya, asked>>

\* The lock is taken when the datagram is to be logged, before it is handled; or it
\* is taken meanwhile, and what was just sent cannot be logged.
RecvStuck(n, m) ==
  /\ n \in Running \ due
  /\ net[m][n] # <<>>
  /\ \/ ~LogFree(n) /\ Blocks(n, Copies("IAA", {}))
     \/ /\ cancelled[n] = "logs" /\ Head(net[m][n]) = "ELECT"
        /\ \E answer \in Arriving({m}), elect \in SUBSET PassesTo(n) :
             Blocks(n, [q \in Node |-> Copies("ANSWER", answer)[q]
                                         \o Copies("ELECT", elect)[q]])
     \/ /\ cancelled[n] = "logs" /\ Head(net[m][n]) = "AYA"
        /\ \E to \in Arriving({m}) : Blocks(n, Copies("IAA", to))
  /\ cancelled' = [cancelled EXCEPT ![n] = IF @ = "logs" THEN "holds" ELSE @]
  /\ UNCHANGED <<lastSent, lastReceived, aya, due, faults>>

Receive(n, m) ==
  \/ RecvElect(n, m)
  \/ RecvAnswer(n, m)
  \/ RecvCoord(n, m)
  \/ RecvAya(n, m)
  \/ RecvIaa(n, m)
  \/ RecvStuck(n, m)

-------------------------------------------------------------------------------
\* Timeouts.  Datagrams and handlers take microseconds and timeouts seconds: in
\* the time a receive takes to time out there is a moment when everything sent
\* has been dealt with.  The receives of several nodes may time out together.
Elapse(nodes) ==
  /\ \A m, n \in Node : net[m][n] = <<>>
  /\ due = {} /\ \A n \in Node : cancelled[n] \notin {"writes", "logs"}
  /\ nodes \subseteq Running
  /\ due' = nodes
  /\ UNCHANGED <<pc, lastSent, lastReceived, aya, cancelled, net, asked, faults>>

\* Nothing came in the first receive: the node calls an election.  lastSent is
\* reset before each line of the group file, so what the last line does stays.
FirstTimeout(n) ==
  /\ pc[n] = "first" /\ n \in due
  /\ due' = due \ {n}
  /\ pc' = [pc EXCEPT ![n] = "loop"]
  /\ lastReceived' = [lastReceived EXCEPT ![n] = "ELECT"]
  /\ Elects(n, {})
  /\ lastSent' = [lastSent EXCEPT ![n] = IF LastMember > n THEN "ELECT" ELSE "none"]
  /\ UNCHANGED <<aya, cancelled, faults>>

Expects(n) ==
  \/ lastSent[n] = "ELECT"
  \/ lastSent[n] = "none" /\ lastReceived[n] = "ELECT"

\* Nobody answered the election, or there was nobody to ask.
TimeoutClaims(n) ==
  /\ Expects(n) /\ Lower(n) # {}
  /\ \E coord \in Arriving(Lower(n)), ping \in Pings(n) :
        Sends(n, net, [q \in Node |-> Copies("COORD", coord)[q] \o Copies("AYA", ping)[q]])
  /\ lastSent' = [lastSent EXCEPT ![n] = "COORD"]
  /\ UNCHANGED <<pc, aya, cancelled, asked, faults>>

\* Somebody answered and then nobody claimed.
TimeoutAsksAgain(n) ==
  /\ lastSent[n] = "none" /\ lastReceived[n] = "ANSWER"
  /\ \E ping \in Pings(n) : Elects(n, ping)
  /\ lastSent' = [lastSent EXCEPT ![n] = "ELECT"]
  /\ UNCHANGED <<pc, aya, cancelled, faults>>

\* The coordinator did not answer a ping: the thread is cancelled and an election
\* called.
Orphaned(n) == lastSent[n] = "AYA" /\ aya[n] # Nobody

TimeoutOrphaned(n) ==
  /\ Orphaned(n)
  /\ Elects(n, {})
  /\ aya' = [aya EXCEPT ![n] = Nobody]
  /\ \/ UNCHANGED <<cancelled, faults>>
     \/ /\ faults < MaxFaults
        /\ faults' = faults + 1
        /\ \E left \in {"writes", "logs"} : cancelled' = [cancelled EXCEPT ![n] = left]
  /\ lastSent' = [lastSent EXCEPT ![n] = "ELECT"]
  /\ UNCHANGED pc

\* The thread takes logFile_lock before the last ELECT is logged.
TimeoutStuck(n) ==
  /\ Orphaned(n)
  /\ \E elect \in (SUBSET Higher(n)) \ {{}} :
       /\ \E to \in Arriving(elect) : Blocks(n, Copies("ELECT", to))
       /\ lastSent' = IF \E m \in elect : elect = {m} THEN lastSent
                      ELSE [lastSent EXCEPT ![n] = "ELECT"]
  /\ faults < MaxFaults
  /\ faults' = faults + 1
  /\ cancelled' = [cancelled EXCEPT ![n] = "holds"]
  /\ aya' = [aya EXCEPT ![n] = Nobody]

TimeoutIdle(n) ==
  /\ \/ lastSent[n] \in {"COORD", "IAA"}
     \/ lastSent[n] = "none" /\ lastReceived[n] \notin {"ANSWER", "ELECT"}
     \/ Expects(n) /\ Lower(n) = {}
  /\ UNCHANGED <<pc, lastSent, aya, cancelled, net, asked, faults>>

\* With the lock taken, the first datagram that the timeout sends is the last.
TimeoutHeld(n) ==
  /\ \/ /\ Expects(n)
        /\ \E m \in Lower(n) : \E to \in Arriving({m}) : Blocks(n, Copies("COORD", to))
        /\ UNCHANGED aya
     \/ /\ Orphaned(n) \/ (lastSent[n] = "none" /\ lastReceived[n] = "ANSWER")
        /\ \E m \in Higher(n) : \E to \in Arriving({m}) : Blocks(n, Copies("ELECT", to))
        /\ aya' = IF Orphaned(n) THEN [aya EXCEPT ![n] = Nobody] ELSE aya
  /\ UNCHANGED <<lastSent, cancelled, faults>>

Timeout(n) ==
  /\ pc[n] = "loop" /\ n \in due
  /\ due' = due \ {n}
  /\ \/ LogFree(n) /\ (\/ TimeoutClaims(n)
                       \/ TimeoutAsksAgain(n)
                       \/ TimeoutOrphaned(n)
                       \/ TimeoutStuck(n))
     \/ ~LogFree(n) /\ TimeoutHeld(n)
     \/ TimeoutIdle(n)
  /\ UNCHANGED lastReceived

-------------------------------------------------------------------------------
\* The thread

\* Without the lock, it blocks when it has sent.
Ping(n) ==
  /\ pc[n] \in {"loop", "stuck"} /\ aya[n] # Nobody
  /\ cancelled[n] # "blocks"
  /\ {aya[n]} \in Pings(n)
  /\ lastSent' = [lastSent EXCEPT ![n] = "AYA"]
  /\ \E to \in Arriving({aya[n]}) : Sends(n, net, Copies("AYA", to))
  /\ cancelled' = [cancelled EXCEPT ![n] = IF @ = "holds" THEN "blocks" ELSE @]
  /\ UNCHANGED <<pc, lastReceived, aya, due, asked, faults>>

\* A cancelled thread writes lastSent and ends when it sends, or, its datagram
\* dropped, later.
LastWord(n) ==
  /\ cancelled[n] = "writes"
  /\ lastSent' = [lastSent EXCEPT ![n] = "AYA"]
  /\ \E left \in {"gone"} \cup (IF Lossy THEN {"logs"} ELSE {}) :
       cancelled' = [cancelled EXCEPT ![n] = left]
  /\ UNCHANGED <<pc, lastReceived, aya, due, net, asked, faults>>

\* It takes logFile_lock, and ends.
Seize(n) ==
  /\ cancelled[n] = "logs"
  /\ cancelled' = [cancelled EXCEPT ![n] = "holds"]
  /\ UNCHANGED <<pc, lastSent, lastReceived, aya, due, net, asked, faults>>

-------------------------------------------------------------------------------
\* Processes start and end.

Dies(n) ==
  /\ pc' = [pc EXCEPT ![n] = "down"]
  /\ lastSent' = [lastSent EXCEPT ![n] = "none"]
  /\ lastReceived' = [lastReceived EXCEPT ![n] = "none"]
  /\ aya' = [aya EXCEPT ![n] = Nobody]
  /\ cancelled' = [cancelled EXCEPT ![n] = "gone"]
  /\ due' = due \ {n}
  /\ net' = Unread(n)
  /\ asked' = [m \in Node |-> IF m = n THEN {} ELSE asked[m] \ {n}]

\* After the last word of a cancelled thread: pthread_cancel(*threadPtr) with
\* threadPtr = NULL.
TimeoutSegfault(n) ==
  /\ pc[n] = "loop" /\ n \in due
  /\ lastSent[n] = "AYA" /\ aya[n] = Nobody
  /\ Dies(n)
  /\ UNCHANGED faults

Crash(n) ==
  /\ pc[n] # "down" /\ faults < MaxFaults
  /\ faults' = faults + 1
  /\ Dies(n)

Start(n) ==
  /\ pc[n] = "down" /\ n \notin Absent
  /\ pc' = [pc EXCEPT ![n] = "first"]
  /\ UNCHANGED <<lastSent, lastReceived, aya, cancelled, due, net, asked, faults>>

Init ==
  /\ pc = [n \in Node |-> "down"]
  /\ lastSent = [n \in Node |-> "none"]
  /\ lastReceived = [n \in Node |-> "none"]
  /\ aya = [n \in Node |-> Nobody]
  /\ cancelled = [n \in Node |-> "gone"]
  /\ net = [m \in Node |-> [n \in Node |-> <<>>]]
  /\ due = {}
  /\ asked = [n \in Node |-> {}]
  /\ faults = 0

Next ==
  \/ \E nodes \in SUBSET Node \ {{}} : Elapse(nodes)
  \/ \E n \in Node :
       \/ \E m \in Node : Receive(n, m)
       \/ FirstTimeout(n)
       \/ Timeout(n)
       \/ TimeoutSegfault(n)
       \/ Ping(n)
       \/ LastWord(n)
       \/ Seize(n)
       \/ Start(n)
       \/ Crash(n)

Spec == Init /\ [][Next]_vars

PingedBy(m, n) == aya[m] = n /\ pc[m] = "loop"

TimesOut(n) ==
  /\ \A m \in Node : ~PingedBy(m, n)
  /\ \E nodes \in SUBSET Node : n \in nodes /\ Elapse(nodes)

\* Datagrams are read, threads wake up, and what has timed out is acted upon.  A
\* node that nobody pings times out in the end: elections are the only other
\* traffic, and of their nodes the last that is asked is the first whose timeout
\* ends (all nodes are given one timeout value).
Fairness ==
  \A n \in Node :
    /\ \A m \in Node : WF_vars(Receive(n, m))
    /\ WF_vars(Ping(n))
    /\ WF_vars(LastWord(n) \/ Seize(n))
    /\ WF_vars(FirstTimeout(n) \/ Timeout(n) \/ TimeoutSegfault(n))
    /\ SF_vars(TimesOut(n))

FairSpec == Spec /\ Fairness

-------------------------------------------------------------------------------
\* Properties

\* Whoever claims on a timeout (node.c:302, :403) has outlasted every higher node
\* it asked: each of them that was up when asked has gone down since.  Answers
\* race the node's own pings, which overwrite lastSent (:709), ELECTs passed on
\* and answers to an earlier election.
ClaimJustified ==
  [][\A n \in Node :
       lastSent'[n] = "COORD" /\ lastSent[n] # "COORD" /\ Higher(n) # {} =>
         asked[n] = {}]_vars

\* A node follows only nodes above it, and only their claims are on the way to
\* it, whatever the order of claims, crashes and restarts (node.c:403, :609, :640).
FollowsUpwards ==
  \A n \in Node :
    /\ aya[n] # Nobody => aya[n] \in Higher(n)
    /\ \A m \in Node : Holds(net[m][n], "COORD") => m \in Higher(n)

\* m is to answer n, or has answered.
Owes(m, n) == Holds(net[n][m], "ELECT") \/ Holds(net[m][n], "ANSWER")

\* A node waits for answers only while they are owed: a higher node that was up
\* when asked has the ELECT before it or its ANSWER on the way.  A stuck node, which
\* may be left with lastSent = ELECT, waits for nobody.
AnswersOwed ==
  \A n \in Node : lastSent[n] = "ELECT" /\ pc[n] # "stuck" =>
    n \in Running /\ \A m \in asked[n] : Owes(m, n)

\* When a receive has timed out, an election still open has nobody left who owes.
DueSilent == \A n \in due : lastSent[n] = "ELECT" => asked[n] = {}

\* Claiming without having asked (node.c:403) is left to the highest node.
UnaskedTop ==
  \A n \in Node :
    lastSent[n] = "none" /\ lastReceived[n] = "ELECT" /\ pc[n] # "stuck" => Higher(n) = {}

\* What an ANSWER may rely on, and with BullyTypeOK an inductive invariant.
ElectionInv == AnswersOwed /\ DueSilent /\ UnaskedTop

\* A node that pings a dead coordinator, and is pinged by nobody itself, notices:
\* it stops pinging (node.c:328), unless the coordinator is started again.
Orphan(n) ==
  /\ pc[n] = "loop" /\ aya[n] # Nobody /\ pc[aya[n]] = "down"
  /\ \A m \in Node : ~PingedBy(m, n)

OrphanNotices == []<>(\A n \in Node : ~Orphan(n))

===============================================================================
