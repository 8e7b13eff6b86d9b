------------------------------- MODULE BullyMPI --------------------------------
(* The bully election over FG-MPI (bully_algorithm_fg_mpi/bully.c).  Process 0  *)
(* sends every other process one tick a second, and timeouts are counted in     *)
(* ticks; a node that is asked AYA may pretend to be dead for a while.  dlcTime  *)
(* is only printed and is left out.                                             *)
EXTENDS Integers, Sequences

CONSTANTS
  Size,          \* processes, the clock included
  TimeoutValue,  \* ticks
  MaxRate,       \* the longest time between two AYAs: 2 * AYATime - 1, at least 1
  ReturnToLife,  \* seconds that a dead node stays dead at least
  Lossy,         \* TRUE: MPI_Test may find a send incomplete, which is cancelled
  MaxDeaths      \* bound: pretended deaths of all nodes together

ASSUME SizeAssumption == Size \in Nat /\ Size > 2
ASSUME TimeAssumption == TimeoutValue \in Nat \ {0} /\ MaxRate \in Nat \ {0}
                          /\ ReturnToLife \in Nat
ASSUME FaultAssumption == Lossy \in BOOLEAN /\ MaxDeaths \in Nat

VARIABLES
  tick,          \* per node: ticks since its last message or timeout
  sincePing,     \* per node: ticks since it sent AYA or learnt of a coordinator
  lastSent,      \* "none" is 0
  lastReceived,
  coordNode,     \* 0 is nobody
  dead,          \* nodes that pretend to be dead
  deadTime,      \* per node: for how many ticks it has been dead
  net,           \* net[m][n]: messages from m to n
  pending,       \* nodes that have not received the tick of this second
  deaths,        \* bound: deaths so far
  asked,         \* history, per node: higher nodes alive ever since it asked them
  unanswered     \* history: nodes of which an AYA was ignored since their last IAA

vars == <<tick, sincePing, lastSent, lastReceived, coordNode, dead, deadTime, net, pending,
          deaths, asked, unanswered>>

Node == 1..(Size - 1)

Kind == {"ELECTION", "ANSWER", "COORD", "AYA", "IAA"}

\* tick is looked at modulo TimeoutValue and modulo Size - 1.
Period == (Size - 1) * TimeoutValue

MpiTypeOK ==
  /\ tick \in [Node -> 0..Period]
  /\ sincePing \in [Node -> 0..MaxRate - 1]
  /\ lastSent \in [Node -> (Kind \ {"ANSWER"}) \cup {"none"}]
  /\ lastReceived \in [Node -> Kind \cup {"none"}]
  /\ coordNode \in [Node -> 0..Size - 1]
  /\ \A n \in Node : coordNode[n] # 0 => coordNode[n] > n
  /\ dead \subseteq Node /\ pending \subseteq Node
  /\ deadTime \in [Node -> 0..ReturnToLife]
  /\ net \in [Node -> [Node -> Seq(Kind)]]
  /\ deaths \in 0..MaxDeaths
  /\ asked \in [Node -> SUBSET Node] /\ unanswered \subseteq Node

Higher(n) == {m \in Node : m > n}

\* Mutant of Lower: i <= rank.
LowerOrSelf(n) == {m \in Node : m <= n}

Lower(n) == {m \in Node : m < n}

-------------------------------------------------------------------------------
\* Sending and receiving

Arriving(to) == IF Lossy THEN SUBSET to ELSE {to}

\* queues, with what n sends to each node.
Sends(n, queues, out) == net' = [queues EXCEPT ![n] = [m \in Node |-> @[m] \o out[m]]]

Copies(kind, to) == [m \in Node |-> IF m \in to THEN <<kind>> ELSE <<>>]

Received(m, n) == [net EXCEPT ![m][n] = Tail(@)]

\* Mutant of Takes: the ticks go on counting.
TakesKeepsTime(n, m, kind) ==
  /\ n \notin dead
  /\ net[m][n] # <<>> /\ Head(net[m][n]) = kind
  /\ UNCHANGED <<tick, pending>>

Takes(n, m, kind) ==
  /\ n \notin dead
  /\ net[m][n] # <<>> /\ Head(net[m][n]) = kind
  /\ tick' = [tick EXCEPT ![n] = 0]
  /\ UNCHANGED pending

-------------------------------------------------------------------------------
\* Messages

RecvElection(n, m) ==
  /\ Takes(n, m, "ELECTION")
  /\ lastReceived' = [lastReceived EXCEPT ![n] = "ELECTION"]
  /\ LET on == IF lastSent[n] = "ELECTION" THEN {} ELSE Higher(n)
         down == IF lastSent[n] = "ELECTION" \/ on # {} THEN {} ELSE Lower(n)
     IN /\ \E answer \in Arriving({m}), elect \in Arriving(on), coord \in Arriving(down) :
             Sends(n, Received(m, n),
                   [q \in Node |-> Copies("ANSWER", answer)[q] \o Copies("ELECTION", elect)[q]
                                     \o Copies("COORD", coord)[q]])
        /\ lastSent' = [lastSent EXCEPT ![n] = IF down = {} THEN "ELECTION" ELSE "COORD"]
        /\ asked' = IF on = {} THEN asked ELSE [asked EXCEPT ![n] = on \ dead]
  /\ UNCHANGED <<sincePing, coordNode, dead, deadTime, deaths, unanswered>>

\* Mutant of RecvAnswer: the election goes on as if nobody had answered.
RecvAnswerIgnored(n, m) ==
  /\ Takes(n, m, "ANSWER")
  /\ net' = Received(m, n)
  /\ UNCHANGED <<sincePing, lastSent, lastReceived, coordNode, dead, deadTime, deaths, asked,
                 unanswered>>

RecvAnswer(n, m) ==
  /\ Takes(n, m, "ANSWER")
  /\ net' = Received(m, n)
  /\ lastSent' = [lastSent EXCEPT ![n] =
                    IF lastReceived[n] = "COORD" \/ @ = "ELECTION" THEN "none" ELSE @]
  /\ lastReceived' = [lastReceived EXCEPT ![n] =
                        IF @ # "COORD" /\ lastSent[n] = "ELECTION" THEN "ANSWER" ELSE @]
  /\ UNCHANGED <<sincePing, coordNode, dead, deadTime, deaths, asked, unanswered>>

RecvCoord(n, m) ==
  /\ Takes(n, m, "COORD")
  /\ net' = Received(m, n)
  /\ lastReceived' = [lastReceived EXCEPT ![n] = "COORD"]
  /\ coordNode' = [coordNode EXCEPT ![n] = m]
  /\ UNCHANGED <<sincePing, lastSent, dead, deadTime, deaths, asked, unanswered>>

\* The node answers, or begins to pretend that it is dead.
RecvAya(n, m) ==
  /\ Takes(n, m, "AYA")
  /\ lastReceived' = [lastReceived EXCEPT ![n] = "AYA"]
  /\ lastSent' = [lastSent EXCEPT ![n] = "IAA"]
  /\ \/ /\ \E iaa \in Arriving({m}) : Sends(n, Received(m, n), Copies("IAA", iaa))
        /\ UNCHANGED <<dead, deadTime, deaths, asked, unanswered>>
     \/ /\ deaths < MaxDeaths
        /\ deaths' = deaths + 1
        /\ dead' = dead \cup {n}
        /\ deadTime' = [deadTime EXCEPT ![n] = 0]
        /\ net' = Received(m, n)
        /\ asked' = [q \in Node |-> asked[q] \ {n}]
        /\ unanswered' = unanswered \cup {m}
  /\ UNCHANGED <<sincePing, coordNode>>

RecvIaa(n, m) ==
  /\ Takes(n, m, "IAA")
  /\ net' = Received(m, n)
  /\ lastReceived' = [lastReceived EXCEPT ![n] = "IAA"]
  /\ unanswered' = unanswered \ {n}
  /\ UNCHANGED <<sincePing, lastSent, coordNode, dead, deadTime, deaths, asked>>

Receive(n, m) ==
  \/ RecvElection(n, m)
  \/ RecvAnswer(n, m)
  \/ RecvCoord(n, m)
  \/ RecvAya(n, m)
  \/ RecvIaa(n, m)

-------------------------------------------------------------------------------
\* Ticks.  A node with a coordinator may ping it first; what was sent last, with
\* that ping, decides what a timeout means.

Ticked(n) == IF tick[n] = Period THEN 1 ELSE tick[n] + 1

TimedOut(n) == Ticked(n) % TimeoutValue = 0

\* Whom n pings at this tick: the rate is drawn at random after each AYA.
Pings(n) ==
  IF coordNode[n] = 0 THEN {{}}
  ELSE IF sincePing[n] + 1 = MaxRate THEN {{coordNode[n]}}
  ELSE {{}, {coordNode[n]}}

TakesTick(n, ping) ==
  /\ n \in pending \ dead
  /\ pending' = pending \ {n}
  /\ ping \in Pings(n)
  /\ sincePing' = [sincePing EXCEPT ![n] =
                     IF ping # {} \/ coordNode[n] = 0 THEN 0 ELSE @ + 1]
  /\ UNCHANGED <<dead, deadTime, deaths, unanswered>>

Sent(n, ping) == IF ping = {} THEN lastSent[n] ELSE "AYA"

\* The ping, then kind to the nodes of to; the node starts over.
Broadcasts(n, ping, kind, to) ==
  /\ \E aya \in Arriving(ping), arriving \in Arriving(to) :
        Sends(n, net, [q \in Node |-> Copies("AYA", aya)[q] \o Copies(kind, arriving)[q]])
  /\ lastSent' = [lastSent EXCEPT ![n] = IF to = {} THEN Sent(n, ping) ELSE kind]
  /\ tick' = [tick EXCEPT ![n] = 0]
  /\ coordNode' = [coordNode EXCEPT ![n] = 0]

\* Nothing was heard, or an answer and then no claim.  % and * bind alike.
MayAsk(n) ==
  \/ lastReceived[n] = "none"
  \/ lastReceived[n] = "ANSWER" /\ ((Ticked(n) % (Size - 1)) * TimeoutValue) = 0

TickAsks(n, ping) ==
  /\ TakesTick(n, ping) /\ TimedOut(n)
  /\ Sent(n, ping) = "none" /\ MayAsk(n)
  /\ Broadcasts(n, ping, "ELECTION", Higher(n))
  /\ lastReceived' = [lastReceived EXCEPT ![n] = IF Higher(n) = {} THEN @ ELSE "none"]
  /\ asked' = [asked EXCEPT ![n] = Higher(n) \ dead]

\* Nobody answered.
TickClaims(n, ping) ==
  /\ TakesTick(n, ping) /\ TimedOut(n)
  /\ \/ Sent(n, ping) = "ELECTION"
     \/ Sent(n, ping) = "none" /\ lastReceived[n] = "ELECTION"
  /\ Broadcasts(n, ping, "COORD", Lower(n))
  /\ UNCHANGED <<lastReceived, asked>>

\* LEADERDEAD: the coordinator did not answer an AYA.
TickMourns(n, ping) ==
  /\ TakesTick(n, ping) /\ TimedOut(n)
  /\ Sent(n, ping) = "AYA"
  /\ Broadcasts(n, ping, "ELECTION", Higher(n))
  /\ asked' = [asked EXCEPT ![n] = Higher(n) \ dead]
  /\ UNCHANGED lastReceived

TickPasses(n, ping) ==
  /\ TakesTick(n, ping)
  /\ TimedOut(n) => \/ Sent(n, ping) \in {"COORD", "IAA"}
                    \/ /\ Sent(n, ping) = "none" /\ lastReceived[n] # "ELECTION"
                       /\ ~MayAsk(n)
  /\ \E aya \in Arriving(ping) : Sends(n, net, Copies("AYA", aya))
  /\ tick' = [tick EXCEPT ![n] = Ticked(n)]
  /\ lastSent' = [lastSent EXCEPT ![n] = Sent(n, ping)]
  /\ UNCHANGED <<lastReceived, coordNode, asked>>

Tick(n) ==
  \E ping \in Pings(n) :
    \/ TickAsks(n, ping)
    \/ TickClaims(n, ping)
    \/ TickMourns(n, ping)
    \/ TickPasses(n, ping)

\* The clock.  A second is long enough for every message to be received.
Second ==
  /\ pending = {} /\ \A m, n \in Node : net[m][n] = <<>>
  /\ pending' = Node
  /\ UNCHANGED <<tick, sincePing, lastSent, lastReceived, coordNode, dead, deadTime, net,
                 deaths, asked, unanswered>>

-------------------------------------------------------------------------------
\* A node that pretends to be dead reads on and ignores what it reads.  It looks
\* at the time after each message.

Ignores(n) ==
  \/ /\ n \in pending
     /\ pending' = pending \ {n}
     /\ deadTime' = [deadTime EXCEPT ![n] = IF @ = ReturnToLife THEN @ ELSE @ + 1]
     /\ UNCHANGED <<net, unanswered>>
  \/ \E m \in Node :
       /\ net[m][n] # <<>>
       /\ net' = Received(m, n)
       /\ unanswered' = IF Head(net[m][n]) = "AYA" THEN unanswered \cup {m} ELSE unanswered
       /\ UNCHANGED <<deadTime, pending>>

StaysDead(n) ==
  /\ n \in dead /\ Ignores(n)
  /\ UNCHANGED <<tick, sincePing, lastSent, lastReceived, coordNode, dead, deaths, asked>>

\* Mutant of ReturnsToLife: what was sent and received before is not forgotten.
ReturnsAsItWas(n) ==
  /\ n \in dead /\ Ignores(n)
  /\ deadTime'[n] = ReturnToLife
  /\ dead' = dead \ {n}
  /\ UNCHANGED <<tick, sincePing, lastSent, lastReceived, coordNode, deaths, asked>>

ReturnsToLife(n) ==
  /\ n \in dead /\ Ignores(n)
  /\ deadTime'[n] = ReturnToLife
  /\ dead' = dead \ {n}
  /\ lastSent' = [lastSent EXCEPT ![n] = "none"]
  /\ lastReceived' = [lastReceived EXCEPT ![n] = "none"]
  /\ UNCHANGED <<tick, sincePing, coordNode, deaths, asked>>

-------------------------------------------------------------------------------
\* Rank 1 starts an election; MPI_Send does not lose messages.
Init ==
  /\ tick = [n \in Node |-> 0]
  /\ sincePing = [n \in Node |-> 0]
  /\ lastSent = [n \in Node |-> IF n = 1 THEN "ELECTION" ELSE "none"]
  /\ lastReceived = [n \in Node |-> "none"]
  /\ coordNode = [n \in Node |-> 0]
  /\ dead = {}
  /\ deadTime = [n \in Node |-> 0]
  /\ net = [m \in Node |-> [n \in Node |-> IF m = 1 /\ n > 1 THEN <<"ELECTION">> ELSE <<>>]]
  /\ pending = {}
  /\ deaths = 0
  /\ asked = [n \in Node |-> IF n = 1 THEN Higher(1) ELSE {}]
  /\ unanswered = {}

Next ==
  \/ Second
  \/ \E n \in Node :
       \/ \E m \in Node : Receive(n, m)
       \/ Tick(n)
       \/ StaysDead(n)
       \/ ReturnsToLife(n)

Spec == Init /\ [][Next]_vars

\* Every node and the clock run on, and the time of a dead node comes.
Fairness == WF_vars(Next) /\ \A n \in Node : SF_vars(ReturnsToLife(n))

FairSpec == Spec /\ Fairness

-------------------------------------------------------------------------------
\* Properties

\* Whoever gives up waiting for answers and claims (bully.c:389, :409) has outlasted
\* every higher node it asked: each that was alive when asked has died since.
\* Answers race ticks, AYAs that overwrite lastSent (:222) and elections of others.
ClaimJustified ==
  [][\A n \in Node :
       Higher(n) # {} /\ (\E ping \in Pings(n) : TickClaims(n, ping)) => asked[n] = {}]_vars

\* A leader is declared dead (bully.c:425) only when it has ignored an AYA of this
\* node since the last IAA.  lastSent stays AYA after an IAA, so this rests on
\* when ticks are counted and reset.
LeaderDeadIsTrue ==
  [][\A n \in Node :
       (\E ping \in Pings(n) : TickMourns(n, ping)) => n \in unanswered]_vars

\* Once nobody dies any more (bully.c:302), one leader is followed by all nodes below it, for
\* good: dead nodes that return, half elections and claims that cross settle.
LeaderElected ==
  <>[](\E c \in Node \ {1} : c \notin dead /\ \A n \in Lower(c) : coordNode[n] = c)

===============================================================================
