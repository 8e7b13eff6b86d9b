------------------------------ MODULE BullyProofs -------------------------------
(* Proofs about the UDP election, for any group of nodes, any order of starts,  *)
(* crashes and datagrams: its type invariant, that nodes follow only nodes above *)
(* them and, where no datagram is lost and the group file ends with the highest  *)
(* node, that nobody claims over a node that can answer.                        *)
EXTENDS BullyNode, TLAPS

-------------------------------------------------------------------------------
\* Queues

(* What is appended to a queue, and what was in it, is in the longer queue.     *)
LEMMA HoldsAppended ==
  ASSUME NEW s \in Seq(Kind), NEW t \in Seq(Kind), NEW kind,
         Holds(s, kind) \/ Holds(t, kind)
  PROVE  Holds(s \o t, kind)
<1>1. CASE Holds(s, kind)
  <2>1. PICK i \in 1..Len(s) : s[i] = kind
    BY <1>1 DEF Holds
  <2>2. i \in 1..Len(s \o t) /\ (s \o t)[i] = kind
    BY <2>1
  <2>3. QED
    BY <2>2 DEF Holds
<1>2. CASE Holds(t, kind)
  <2>1. PICK i \in 1..Len(t) : t[i] = kind
    BY <1>2 DEF Holds
  <2>2. Len(s) + i \in 1..Len(s \o t) /\ (s \o t)[Len(s) + i] = kind
    BY <2>1
  <2>3. QED
    BY <2>2 DEF Holds
<1>3. QED
  BY <1>1, <1>2

(* Reading a datagram leaves the others.                                        *)
LEMMA HoldsBehindHead ==
  ASSUME NEW s \in Seq(Kind), s # <<>>, NEW kind, kind # Head(s), Holds(s, kind)
  PROVE  Holds(Tail(s), kind)
<1>1. PICK i \in 1..Len(s) : s[i] = kind
  BY DEF Holds
<1>2. i # 1
  BY <1>1
<1>3. i - 1 \in 1..Len(Tail(s)) /\ Tail(s)[i - 1] = kind
  BY <1>1, <1>2
<1>4. QED
  BY <1>3 DEF Holds

(* What a node sends is a queue of datagrams per node.                          *)
LEMMA CopiesType ==
  ASSUME NEW kind \in Kind, NEW to
  PROVE  Copies(kind, to) \in [Node -> Seq(Kind)]
BY DEF Copies

(* Whoever is sent a datagram has it among what it is sent.                     *)
LEMMA CopiesHold ==
  ASSUME NEW kind \in Kind, NEW to, NEW m \in Node \cap to
  PROVE  Holds(Copies(kind, to)[m], kind)
<1>1. Copies(kind, to)[m] = <<kind>>
  BY DEF Copies
<1>2. 1 \in 1..Len(<<kind>>) /\ <<kind>>[1] = kind
  OBVIOUS
<1>3. QED
  BY <1>1, <1>2 DEF Holds

(* Only what was in a queue or is appended to it is in the longer queue.        *)
LEMMA HoldsSplit ==
  ASSUME NEW s \in Seq(Kind), NEW t \in Seq(Kind), NEW kind, Holds(s \o t, kind)
  PROVE  Holds(s, kind) \/ Holds(t, kind)
<1>1. PICK i \in 1..Len(s \o t) : (s \o t)[i] = kind
  BY DEF Holds
<1>2. CASE i <= Len(s)
  <2>1. i \in 1..Len(s) /\ s[i] = kind
    BY <1>1, <1>2
  <2>2. QED
    BY <2>1 DEF Holds
<1>3. CASE i > Len(s)
  <2>1. i - Len(s) \in 1..Len(t) /\ t[i - Len(s)] = kind
    BY <1>1, <1>3
  <2>2. QED
    BY <2>1 DEF Holds
<1>4. QED
  BY <1>1, <1>2, <1>3

(* Copies are of the kind and to the nodes asked for.                           *)
LEMMA CopiesOnly ==
  ASSUME NEW kind \in Kind, NEW to, NEW m \in Node, NEW held, Holds(Copies(kind, to)[m], held)
  PROVE  held = kind /\ m \in to
BY DEF Copies, Holds

Queues == [Node -> [Node -> Seq(Kind)]]

(* Sending makes queues longer and nothing else.                                *)
LEMMA SendsEffect ==
  ASSUME NEW n \in Node, NEW queues \in Queues, NEW out \in [Node -> Seq(Kind)],
         Sends(n, queues, out)
  PROVE  /\ net' \in Queues
         /\ \A a, b \in Node, kind \in Kind :
              Holds(queues[a][b], kind) => Holds(net'[a][b], kind)
         /\ \A b \in Running, kind \in Kind :
              Holds(out[b], kind) => Holds(net'[n][b], kind)
<1>1. \A b \in Node : queues[n][b] \in Seq(Kind) /\ out[b] \in Seq(Kind)
  BY DEF Queues
<1>2. \A b \in Node : net'[n][b] = IF b \in Running THEN queues[n][b] \o out[b]
                                                    ELSE queues[n][b]
  BY DEF Sends, Queues
<1>3. \A a \in Node : a # n => net'[a] = queues[a]
  BY DEF Sends, Queues
<1>4. net' \in Queues
  <2>1. [m \in Node |-> IF m \in Running THEN queues[n][m] \o out[m] ELSE queues[n][m]]
          \in [Node -> Seq(Kind)]
    BY <1>1
  <2>2. QED
    BY <2>1 DEF Sends, Queues
<1>5. ASSUME NEW a \in Node, NEW b \in Node, NEW kind \in Kind, Holds(queues[a][b], kind)
      PROVE  Holds(net'[a][b], kind)
  <2>1. CASE a = n /\ b \in Running
    BY <2>1, <1>1, <1>2, <1>5, HoldsAppended
  <2>2. CASE ~(a = n /\ b \in Running)
    BY <2>2, <1>2, <1>3, <1>5
  <2>3. QED
    BY <2>1, <2>2
<1>6. ASSUME NEW b \in Running, NEW kind \in Kind, Holds(out[b], kind)
      PROVE  Holds(net'[n][b], kind)
  <2>1. b \in Node
    BY DEF Running
  <2>2. QED
    BY <2>1, <1>1, <1>2, <1>6, HoldsAppended
<1>7. QED
  BY <1>4, <1>5, <1>6

(* Reading takes one datagram from one queue.                                   *)
LEMMA ReceivedEffect ==
  ASSUME BullyTypeOK, NEW n \in Node, NEW m \in Node, net[m][n] # <<>>
  PROVE  /\ Received(m, n) \in Queues
         /\ \A a, b \in Node, kind \in Kind :
              Holds(net[a][b], kind) /\ ~(a = m /\ b = n /\ kind = Head(net[m][n])) =>
                Holds(Received(m, n)[a][b], kind)
<1>1. net \in Queues /\ net[m][n] \in Seq(Kind)
  BY DEF BullyTypeOK, Queues
<1>2. Received(m, n) = [net EXCEPT ![m] = [net[m] EXCEPT ![n] = Tail(net[m][n])]]
  BY <1>1 DEF Received, Queues
<1>3. Tail(net[m][n]) \in Seq(Kind)
  BY <1>1
<1>4. Received(m, n) \in Queues
  BY <1>1, <1>2, <1>3 DEF Queues
<1>5. ASSUME NEW a \in Node, NEW b \in Node, NEW kind \in Kind, Holds(net[a][b], kind),
             ~(a = m /\ b = n /\ kind = Head(net[m][n]))
      PROVE  Holds(Received(m, n)[a][b], kind)
  <2>1. CASE a = m /\ b = n
    <3>1. Holds(Tail(net[m][n]), kind)
      BY <2>1, <1>1, <1>5, HoldsBehindHead
    <3>2. QED
      BY <2>1, <3>1, <1>1, <1>2 DEF Queues
  <2>2. CASE ~(a = m /\ b = n)
    BY <2>2, <1>1, <1>2, <1>5 DEF Queues
  <2>3. QED
    BY <2>1, <2>2
<1>6. QED
  BY <1>4, <1>5

(* What a crash leaves unread is gone, and nothing else.                        *)
LEMMA UnreadEffect ==
  ASSUME BullyTypeOK, NEW n \in Node
  PROVE  /\ Unread(n) \in Queues
         /\ \A a, b \in Node : Unread(n)[a][b] = IF b = n THEN <<>> ELSE net[a][b]
BY DEF Unread, BullyTypeOK, Queues

(* A node that blocks empties its own socket, sends what it sends, and is asked   *)
(* nothing any more.                                                            *)
LEMMA BlocksEffect ==
  ASSUME BullyTypeOK, NEW n \in Node, NEW out \in [Node -> Seq(Kind)], Blocks(n, out)
  PROVE  /\ pc' = [pc EXCEPT ![n] = "stuck"]
         /\ net' \in Queues
         /\ \A a, b \in Node, kind \in Kind :
              b # n /\ Holds(net[a][b], kind) => Holds(net'[a][b], kind)
         /\ asked' \in [Node -> SUBSET Node]
         /\ \A a \in Node : asked'[a] = asked[a] \ {n}
<1>1. Unread(n) \in Queues /\ \A a, b \in Node : b # n => Unread(n)[a][b] = net[a][b]
  BY UnreadEffect
<1>2. /\ net' \in Queues
      /\ \A a, b \in Node, kind \in Kind :
           Holds(Unread(n)[a][b], kind) => Holds(net'[a][b], kind)
  BY <1>1, SendsEffect DEF Blocks
<1>3. QED
  BY <1>1, <1>2 DEF Blocks, BullyTypeOK

(* What a node sends while it blocks is a queue of datagrams per node.          *)
LEMMA StuckSends ==
  ASSUME NEW n \in Node, NEW m \in Node, RecvStuck(n, m)
  PROVE  \E out \in [Node -> Seq(Kind)] :
           Blocks(n, out) /\ \A b \in Node : ~Holds(out[b], "COORD")
<1>1. ASSUME NEW kind \in Kind \ {"COORD"}, NEW to, Blocks(n, Copies(kind, to))
      PROVE  \E out \in [Node -> Seq(Kind)] :
               Blocks(n, out) /\ \A b \in Node : ~Holds(out[b], "COORD")
  <2>1. Copies(kind, to) \in [Node -> Seq(Kind)]
    BY CopiesType
  <2>2. \A b \in Node : ~Holds(Copies(kind, to)[b], "COORD")
    BY CopiesOnly
  <2>3. QED
    BY <1>1, <2>1, <2>2
<1>2. ASSUME NEW answer, NEW elect,
             Blocks(n, [q \in Node |-> Copies("ANSWER", answer)[q] \o Copies("ELECT", elect)[q]])
      PROVE  \E out \in [Node -> Seq(Kind)] :
               Blocks(n, out) /\ \A b \in Node : ~Holds(out[b], "COORD")
  <2> DEFINE out == [q \in Node |-> Copies("ANSWER", answer)[q] \o Copies("ELECT", elect)[q]]
  <2>1. out \in [Node -> Seq(Kind)]
    BY CopiesType DEF Kind
  <2>2. ASSUME NEW b \in Node PROVE ~Holds(out[b], "COORD")
    <3> DEFINE first == Copies("ANSWER", answer)[b]
               second == Copies("ELECT", elect)[b]
    <3>1. first \in Seq(Kind) /\ second \in Seq(Kind) /\ out[b] = first \o second
      BY CopiesType DEF Kind
    <3>2. ~Holds(first, "COORD") /\ ~Holds(second, "COORD")
      BY CopiesOnly DEF Kind
    <3> HIDE DEF out, first, second
    <3>3. QED
      BY <3>1, <3>2, HoldsSplit
  <2>3. Blocks(n, out)
    BY ONLY <1>2
  <2> HIDE DEF out
  <2>4. QED
    BY <2>1, <2>2, <2>3
<1>3. QED
  BY <1>1, <1>2 DEF RecvStuck, Kind

-------------------------------------------------------------------------------
\* Types

(* An ELECT to every higher node leaves the queues and asked well-typed.        *)
LEMMA ElectsType ==
  ASSUME BullyTypeOK, NEW n \in Node, NEW ping, Elects(n, ping)
  PROVE  net' \in Queues /\ asked' \in [Node -> SUBSET Node]
<1>1. PICK elect \in Arriving(Higher(n)) :
        Sends(n, net, [q \in Node |-> Copies("ELECT", elect)[q] \o Copies("AYA", ping)[q]])
  BY DEF Elects
<1>2. [q \in Node |-> Copies("ELECT", elect)[q] \o Copies("AYA", ping)[q]]
        \in [Node -> Seq(Kind)]
  BY CopiesType DEF Kind
<1>3. net' \in Queues
  BY <1>1, <1>2, SendsEffect DEF BullyTypeOK, Queues
<1>4. asked' \in [Node -> SUBSET Node]
  BY DEF Elects, BullyTypeOK, Higher
<1>5. QED
  BY <1>3, <1>4

(* Every message a node handles leaves the state well typed.                   *)
LEMMA TypeReceive ==
  ASSUME BullyTypeOK, NEW n \in Node, NEW m \in Node, Receive(n, m)
  PROVE  BullyTypeOK'
<1> USE DEF BullyTypeOK, Queues
<1>1. CASE RecvElect(n, m)
  <2>1. Received(m, n) \in Queues
    BY <1>1, ReceivedEffect DEF RecvElect, Takes
  <2>2. net' \in Queues
    <3>1. PICK answer, elect, coord, ping :
            Sends(n, Received(m, n),
                  [q \in Node |-> Copies("ANSWER", answer)[q] \o Copies("ELECT", elect)[q]
                                    \o Copies("COORD", coord)[q] \o Copies("AYA", ping)[q]])
      BY <1>1 DEF RecvElect
    <3> DEFINE out == [q \in Node |-> Copies("ANSWER", answer)[q] \o Copies("ELECT", elect)[q]
                                    \o Copies("COORD", coord)[q] \o Copies("AYA", ping)[q]]
    <3>2. out \in [Node -> Seq(Kind)]
      BY CopiesType DEF Kind
    <3>3. Sends(n, Received(m, n), out)
      BY ONLY <3>1
    <3> HIDE DEF out
    <3>4. QED
      BY <2>1, <3>2, <3>3, SendsEffect
  <2>3. pc' \in [Node -> {"down", "first", "loop", "stuck"}]
    BY <1>1 DEF RecvElect, Takes
  <2>4. lastSent' \in [Node -> {"none", "ELECT", "COORD", "AYA", "IAA"}]
    BY <1>1 DEF RecvElect
  <2>5. lastReceived' \in [Node -> {"none", "ELECT", "ANSWER", "COORD", "AYA"}]
    BY <1>1 DEF RecvElect
  <2>6. asked' \in [Node -> SUBSET Node]
    BY <1>1 DEF RecvElect, PassesTo, Higher
  <2>7. UNCHANGED <<aya, cancelled, due, faults>>
    BY <1>1 DEF RecvElect, Takes
  <2>8. QED
    BY <2>2, <2>3, <2>4, <2>5, <2>6, <2>7
<1>2. CASE RecvAnswer(n, m)
  <2>1. Received(m, n) \in Queues
    BY <1>2, ReceivedEffect DEF RecvAnswer, Takes
  <2>2. \A ping : Copies("AYA", ping) \in [Node -> Seq(Kind)]
    BY CopiesType DEF Kind
  <2>3. net' \in Queues
    <3>1. CASE lastSent[n] = "ELECT"
      BY <3>1, <1>2, <2>1, <2>2, SendsEffect DEF RecvAnswer
    <3>2. CASE lastSent[n] # "ELECT"
      BY <3>2, <1>2, <2>1 DEF RecvAnswer
    <3>3. QED
      BY <3>1, <3>2
  <2>4. QED
    BY <1>2, <2>3 DEF RecvAnswer, Takes
<1>3. CASE RecvCoord(n, m)
  <2>1. Received(m, n) \in Queues
    BY <1>3, ReceivedEffect DEF RecvCoord, Takes
  <2>2. QED
    BY <1>3, <2>1 DEF RecvCoord, Takes
<1>4. CASE RecvAya(n, m)
  <2>1. Received(m, n) \in Queues
    BY <1>4, ReceivedEffect DEF RecvAya, Takes
  <2>2. \A to : Copies("IAA", to) \in [Node -> Seq(Kind)]
    BY CopiesType DEF Kind
  <2>3. net' \in Queues
    BY <1>4, <2>1, <2>2, SendsEffect DEF RecvAya
  <2>4. QED
    BY <1>4, <2>3 DEF RecvAya, Takes
<1>5. CASE RecvIaa(n, m)
  <2>1. Received(m, n) \in Queues
    BY <1>5, ReceivedEffect DEF RecvIaa, Takes
  <2>2. QED
    BY <1>5, <2>1 DEF RecvIaa, Takes
<1>6. CASE RecvStuck(n, m)
  <2>1. PICK out \in [Node -> Seq(Kind)] : Blocks(n, out)
    BY <1>6, StuckSends
  <2>2. net' \in Queues /\ asked' \in [Node -> SUBSET Node]
        /\ pc' = [pc EXCEPT ![n] = "stuck"]
    BY <2>1, BlocksEffect
  <2>3. cancelled' \in [Node -> {"gone", "writes", "logs", "holds", "blocks"}]
    BY <1>6 DEF RecvStuck
  <2>4. UNCHANGED <<lastSent, lastReceived, aya, due, faults>>
    BY <1>6 DEF RecvStuck
  <2>5. QED
    BY <2>2, <2>3, <2>4
<1>7. QED
  BY <1>1, <1>2, <1>3, <1>4, <1>5, <1>6 DEF Receive

(* So does everything a node does at a timeout.                                *)
LEMMA TypeTimeout ==
  ASSUME BullyTypeOK, NEW n \in Node, FirstTimeout(n) \/ Timeout(n)
  PROVE  BullyTypeOK'
<1> USE DEF BullyTypeOK, Queues
<1>1. CASE FirstTimeout(n)
  <2>1. net' \in Queues /\ asked' \in [Node -> SUBSET Node]
    BY <1>1, ElectsType DEF FirstTimeout
  <2>2. QED
    BY <1>1, <2>1 DEF FirstTimeout
<1>2. CASE Timeout(n) /\ TimeoutClaims(n)
  <2>1. net' \in Queues
    <3>1. PICK coord, ping :
            Sends(n, net, [q \in Node |-> Copies("COORD", coord)[q] \o Copies("AYA", ping)[q]])
      BY <1>2 DEF TimeoutClaims
    <3> DEFINE out == [q \in Node |-> Copies("COORD", coord)[q] \o Copies("AYA", ping)[q]]
    <3>2. out \in [Node -> Seq(Kind)]
      BY CopiesType DEF Kind
    <3>3. Sends(n, net, out)
      BY ONLY <3>1
    <3> HIDE DEF out
    <3>4. QED
      BY <3>2, <3>3, SendsEffect
  <2>2. lastSent' \in [Node -> {"none", "ELECT", "COORD", "AYA", "IAA"}]
    BY <1>2 DEF TimeoutClaims
  <2>3. UNCHANGED <<pc, lastReceived, aya, cancelled, asked, faults>> /\ due' = due \ {n}
    BY <1>2 DEF Timeout, TimeoutClaims
  <2>4. QED
    BY <2>1, <2>2, <2>3
<1>3. CASE Timeout(n) /\ TimeoutAsksAgain(n)
  <2>1. net' \in Queues /\ asked' \in [Node -> SUBSET Node]
    BY <1>3, ElectsType DEF TimeoutAsksAgain
  <2>2. QED
    BY <1>3, <2>1 DEF Timeout, TimeoutAsksAgain
<1>4. CASE Timeout(n) /\ TimeoutOrphaned(n)
  <2>1. net' \in Queues /\ asked' \in [Node -> SUBSET Node]
    BY <1>4, ElectsType DEF TimeoutOrphaned
  <2>2. faults' \in 0..MaxFaults
    BY <1>4, FaultAssumption DEF TimeoutOrphaned
  <2>3. cancelled' \in [Node -> {"gone", "writes", "logs", "holds", "blocks"}]
    BY <1>4 DEF TimeoutOrphaned
  <2>4. UNCHANGED <<pc, lastReceived>> /\ due' = due \ {n}
        /\ lastSent' = [lastSent EXCEPT ![n] = "ELECT"] /\ aya' = [aya EXCEPT ![n] = Nobody]
    BY <1>4 DEF Timeout, TimeoutOrphaned
  <2>5. QED
    BY <2>1, <2>2, <2>3, <2>4
<1>5. CASE Timeout(n) /\ (TimeoutStuck(n) \/ TimeoutHeld(n))
  <2>1. PICK out \in [Node -> Seq(Kind)] : Blocks(n, out)
    BY <1>5, CopiesType DEF TimeoutStuck, TimeoutHeld, Kind
  <2>2. net' \in Queues /\ asked' \in [Node -> SUBSET Node]
        /\ pc' = [pc EXCEPT ![n] = "stuck"]
    BY <2>1, BlocksEffect
  <2>3. faults' \in 0..MaxFaults
    BY <1>5, FaultAssumption DEF TimeoutStuck, TimeoutHeld
  <2>4. lastSent' \in [Node -> {"none", "ELECT", "COORD", "AYA", "IAA"}]
    BY <1>5 DEF TimeoutStuck, TimeoutHeld
  <2>5. /\ cancelled' \in {cancelled, [cancelled EXCEPT ![n] = "holds"]}
        /\ aya' \in {aya, [aya EXCEPT ![n] = Nobody]}
    BY <1>5 DEF TimeoutStuck, TimeoutHeld
  <2>6. lastReceived' = lastReceived /\ due' = due \ {n}
    BY <1>5 DEF Timeout
  <2>7. cancelled' \in [Node -> {"gone", "writes", "logs", "holds", "blocks"}]
    BY <2>5
  <2>8. aya' \in [Node -> Node \cup {Nobody}]
    BY <2>5
  <2>9. QED
    BY <2>2, <2>3, <2>4, <2>6, <2>7, <2>8
<1>6. CASE Timeout(n) /\ TimeoutIdle(n)
  BY <1>6 DEF Timeout, TimeoutIdle
<1>7. QED
  BY <1>1, <1>2, <1>3, <1>4, <1>5, <1>6 DEF Timeout

(* So do pings, time, drops, crashes and restarts.                             *)
LEMMA TypeOther ==
  ASSUME BullyTypeOK, NEW n \in Node,
         TimeoutSegfault(n) \/ Ping(n) \/ LastWord(n) \/ Seize(n) \/ Start(n) \/ Crash(n)
  PROVE  BullyTypeOK'
<1> USE DEF BullyTypeOK, Queues
<1>1. ASSUME Dies(n), faults' \in 0..MaxFaults PROVE BullyTypeOK'
  <2>1. net' \in Queues
    BY <1>1, UnreadEffect DEF Dies
  <2>2. QED
    BY <1>1, <2>1 DEF Dies
<1>2. CASE TimeoutSegfault(n)
  BY <1>1, <1>2 DEF TimeoutSegfault
<1>3. CASE Crash(n)
  <2>1. faults' \in 0..MaxFaults
    BY <1>3, FaultAssumption DEF Crash
  <2>2. QED
    BY <1>1, <1>3, <2>1 DEF Crash
<1>4. CASE Ping(n)
  <2>1. \A to : Copies("AYA", to) \in [Node -> Seq(Kind)]
    BY CopiesType DEF Kind
  <2>2. net' \in Queues
    BY <1>4, <2>1, SendsEffect DEF Ping
  <2>3. QED
    BY <1>4, <2>2 DEF Ping
<1>5. CASE LastWord(n) \/ Seize(n)
  <2>1. cancelled' \in [Node -> {"gone", "writes", "logs", "holds", "blocks"}]
    <3>1. \E left \in {"gone", "logs", "holds"} : cancelled' = [cancelled EXCEPT ![n] = left]
      BY <1>5 DEF LastWord, Seize
    <3>2. QED
      BY <3>1
  <2>2. /\ lastSent' \in {lastSent, [lastSent EXCEPT ![n] = "AYA"]}
        /\ UNCHANGED <<pc, lastReceived, aya, due, net, asked, faults>>
    BY <1>5 DEF LastWord, Seize
  <2>3. QED
    BY <2>1, <2>2
<1>6. CASE Start(n)
  BY <1>6 DEF Start
<1>7. QED
  BY <1>2, <1>3, <1>4, <1>5, <1>6

(* So does every step.                                                         *)
LEMMA TypeStep == BullyTypeOK /\ [Next]_vars => BullyTypeOK'
<1> SUFFICES ASSUME BullyTypeOK, [Next]_vars PROVE BullyTypeOK'
  OBVIOUS
<1>1. CASE \E nodes \in SUBSET Node \ {{}} : Elapse(nodes)
  BY <1>1 DEF Elapse, BullyTypeOK
<1>2. ASSUME NEW n \in Node, NEW m \in Node, Receive(n, m) PROVE BullyTypeOK'
  BY <1>2, TypeReceive
<1>3. ASSUME NEW n \in Node, FirstTimeout(n) \/ Timeout(n) PROVE BullyTypeOK'
  BY <1>3, TypeTimeout
<1>4. ASSUME NEW n \in Node,
             TimeoutSegfault(n) \/ Ping(n) \/ LastWord(n) \/ Seize(n) \/ Start(n) \/ Crash(n)
      PROVE  BullyTypeOK'
  BY <1>4, TypeOther
<1>5. CASE UNCHANGED vars
  BY <1>5 DEF vars, BullyTypeOK
<1>6. QED
  BY <1>1, <1>2, <1>3, <1>4, <1>5 DEF Next

(* The state of every node, thread and socket keeps its type (node.c:188-717).  *)
THEOREM BullyTypes == Spec => []BullyTypeOK
<1>1. Init => BullyTypeOK
  BY FaultAssumption DEF Init, BullyTypeOK
<1>2. QED
  BY <1>1, TypeStep, PTL DEF Spec

-------------------------------------------------------------------------------
\* Elections.  From here on no datagram is lost and the highest node is on the
\* last line of the group file: without either the theorem is false (node.c:262).

Reliable == ~Lossy /\ \A n \in Node : n <= LastMember

IInv == BullyTypeOK /\ ElectionInv

(* What is owed stays owed when queues only grow.                               *)
LEMMA OwedStays ==
  ASSUME \A a, b \in Node, kind \in Kind : Holds(net[a][b], kind) => Holds(net'[a][b], kind)
  PROVE  \A n, m \in Node : Owes(m, n) => Owes(m, n)'
BY DEF Owes, Kind, Holds

(* An ELECT reaches every higher node that is up, and nothing is taken back.    *)
LEMMA ElectsOwed ==
  ASSUME BullyTypeOK, Reliable, NEW n \in Node, NEW ping, Elects(n, ping)
  PROVE  /\ asked' = [asked EXCEPT ![n] = Higher(n) \cap Running]
         /\ \A m \in Higher(n) \cap Running : Owes(m, n)'
         /\ \A a, b \in Node : Owes(b, a) => Owes(b, a)'
<1> DEFINE out == [q \in Node |-> Copies("ELECT", Higher(n))[q] \o Copies("AYA", ping)[q]]
<1>1. Sends(n, net, out)
  BY DEF Elects, Arriving, Reliable
<1>2. out \in [Node -> Seq(Kind)]
  BY CopiesType DEF Kind
<1>3. \A m \in Higher(n) : m \in Node /\ Holds(out[m], "ELECT")
  <2> TAKE m \in Higher(n)
  <2>1. m \in Node
    BY DEF Higher
  <2>2. Holds(Copies("ELECT", Higher(n))[m], "ELECT")
    BY <2>1, CopiesHold DEF Kind
  <2>3. Copies("ELECT", Higher(n))[m] \in Seq(Kind) /\ Copies("AYA", ping)[m] \in Seq(Kind)
    BY <2>1, CopiesType DEF Kind
  <2>4. out[m] = Copies("ELECT", Higher(n))[m] \o Copies("AYA", ping)[m]
    BY <2>1
  <2>5. QED
    BY <2>1, <2>2, <2>3, <2>4, HoldsAppended
<1>4. net \in Queues /\ "ELECT" \in Kind /\ "ANSWER" \in Kind
  BY DEF BullyTypeOK, Queues, Kind
<1> HIDE DEF out
<1>5. /\ \A a, b \in Node, kind \in Kind : Holds(net[a][b], kind) => Holds(net'[a][b], kind)
      /\ \A b \in Running, kind \in Kind : Holds(out[b], kind) => Holds(net'[n][b], kind)
  BY <1>1, <1>2, <1>4, SendsEffect
<1>6. \A m \in Higher(n) \cap Running : Holds(net'[n][m], "ELECT")
  BY <1>3, <1>4, <1>5
<1>7. \A m \in Higher(n) \cap Running : Owes(m, n)'
  BY <1>6 DEF Owes, Holds
<1>8. \A a, b \in Node : Owes(b, a) => Owes(b, a)'
  BY <1>5, OwedStays
<1>9. QED
  BY <1>7, <1>8 DEF Elects

(* Reading an ELECT settles what this node owes the sender, reading an ANSWER    *)
(* what the sender owes it, and reading anything else settles nothing.          *)
LEMMA ReadOwed ==
  ASSUME BullyTypeOK, NEW n \in Node, NEW m \in Node, net[m][n] # <<>>,
         \A a, b \in Node, kind \in Kind :
           Holds(Received(m, n)[a][b], kind) => Holds(net'[a][b], kind),
         NEW a \in Node, NEW b \in Node, Owes(b, a),
         ~(a = m /\ b = n /\ Head(net[m][n]) = "ELECT"),
         ~(a = n /\ b = m /\ Head(net[m][n]) = "ANSWER")
  PROVE  Owes(b, a)'
<1>1. "ELECT" \in Kind /\ "ANSWER" \in Kind
  BY DEF Kind
<1>2. CASE Holds(net[a][b], "ELECT")
  <2>1. Holds(Received(m, n)[a][b], "ELECT")
    BY <1>1, <1>2, ReceivedEffect
  <2>2. QED
    BY <1>1, <2>1 DEF Owes, Holds
<1>3. CASE Holds(net[b][a], "ANSWER")
  <2>1. Holds(Received(m, n)[b][a], "ANSWER")
    BY <1>1, <1>3, ReceivedEffect
  <2>2. QED
    BY <1>1, <2>1 DEF Owes, Holds
<1>4. QED
  BY <1>2, <1>3 DEF Owes

(* An ELECT is answered, and passed on to every higher node that is up.         *)
LEMMA ElectAnswered ==
  ASSUME BullyTypeOK, Reliable, NEW n \in Node, NEW m \in Node, RecvElect(n, m)
  PROVE  /\ m \in Running => Owes(n, m)'
         /\ \A q \in PassesTo(n) \cap Running : Owes(q, n)'
         /\ \A a, b \in Node : Owes(b, a) /\ ~(a = m /\ b = n) => Owes(b, a)'
<1>0. PICK ping :
        Sends(n, Received(m, n),
              [q \in Node |-> Copies("ANSWER", {m})[q] \o Copies("ELECT", PassesTo(n))[q]
                                \o Copies("COORD", ClaimsTo(n))[q] \o Copies("AYA", ping)[q]])
  BY DEF RecvElect, Arriving, Reliable
<1> DEFINE on == Copies("ELECT", PassesTo(n))
           out == [q \in Node |-> Copies("ANSWER", {m})[q] \o on[q]
                                    \o Copies("COORD", ClaimsTo(n))[q] \o Copies("AYA", ping)[q]]
<1>1. Sends(n, Received(m, n), out)
  BY ONLY <1>0
<1>2. out \in [Node -> Seq(Kind)]
  BY CopiesType DEF Kind
<1>3. ASSUME NEW q \in Node, NEW kind \in {"ANSWER", "ELECT"},
             Holds(Copies("ANSWER", {m})[q], kind) \/ Holds(on[q], kind)
      PROVE  Holds(out[q], kind)
  <2> DEFINE first == Copies("ANSWER", {m})[q] \o on[q]
             second == first \o Copies("COORD", ClaimsTo(n))[q]
  <2>1. /\ Copies("ANSWER", {m})[q] \in Seq(Kind) /\ on[q] \in Seq(Kind)
        /\ Copies("COORD", ClaimsTo(n))[q] \in Seq(Kind) /\ Copies("AYA", ping)[q] \in Seq(Kind)
    BY CopiesType DEF Kind
  <2>2. first \in Seq(Kind) /\ Holds(first, kind)
    BY <1>3, <2>1, HoldsAppended
  <2>3. out[q] = second \o Copies("AYA", ping)[q]
    OBVIOUS
  <2> HIDE DEF on, out, first
  <2>4. second \in Seq(Kind) /\ Holds(second, kind)
    BY <2>1, <2>2, HoldsAppended
  <2> HIDE DEF second
  <2>5. QED
    BY <2>1, <2>3, <2>4, HoldsAppended
<1>4. Holds(out[m], "ANSWER")
  BY <1>3, CopiesHold DEF Kind
<1>5. \A q \in PassesTo(n) : q \in Node /\ Holds(out[q], "ELECT")
  BY <1>3, CopiesHold DEF Kind, PassesTo, Higher
<1>6. Received(m, n) \in Queues /\ net[m][n] # <<>> /\ Head(net[m][n]) = "ELECT"
  BY ReceivedEffect DEF RecvElect, Takes
<1>7. "ELECT" \in Kind /\ "ANSWER" \in Kind
  BY DEF Kind
<1> HIDE DEF out
<1>8. /\ \A a, b \in Node, kind \in Kind :
            Holds(Received(m, n)[a][b], kind) => Holds(net'[a][b], kind)
      /\ \A b \in Running, kind \in Kind : Holds(out[b], kind) => Holds(net'[n][b], kind)
  BY <1>1, <1>2, <1>6, SendsEffect
<1>9. m \in Running => Owes(n, m)'
  BY <1>4, <1>7, <1>8 DEF Owes, Holds
<1>10. \A q \in PassesTo(n) \cap Running : Owes(q, n)'
  BY <1>5, <1>7, <1>8 DEF Owes, Holds
<1>11. \A a, b \in Node : Owes(b, a) /\ ~(a = m /\ b = n) => Owes(b, a)'
  BY <1>6, <1>8, ReadOwed
<1>12. QED
  BY <1>9, <1>10, <1>11

(* A node that blocks owes nothing and is owed nothing; the others are owed what *)
(* they were.                                                                   *)
LEMMA InvBlocks ==
  ASSUME IInv, NEW n \in Node, NEW out \in [Node -> Seq(Kind)], Blocks(n, out),
         due' = due \ {n}, lastReceived' = lastReceived,
         \A a \in Node : a # n => lastSent'[a] = lastSent[a]
  PROVE  ElectionInv'
<1> USE DEF IInv, ElectionInv, BullyTypeOK
<1>1. /\ pc' = [pc EXCEPT ![n] = "stuck"]
      /\ \A a, b \in Node, kind \in Kind :
           b # n /\ Holds(net[a][b], kind) => Holds(net'[a][b], kind)
      /\ \A a \in Node : asked'[a] = asked[a] \ {n}
  BY BlocksEffect
<1>2. ASSUME NEW a \in Node, NEW b \in Node, a # n, b # n, Owes(b, a) PROVE Owes(b, a)'
  <2>1. CASE Holds(net[a][b], "ELECT")
    <3>1. Holds(net'[a][b], "ELECT")
      BY <1>1, <1>2, <2>1 DEF Kind
    <3>2. QED
      BY <3>1 DEF Owes, Holds
  <2>2. CASE Holds(net[b][a], "ANSWER")
    <3>1. Holds(net'[b][a], "ANSWER")
      BY <1>1, <1>2, <2>2 DEF Kind
    <3>2. QED
      BY <3>1 DEF Owes, Holds
  <2>3. QED
    BY <1>2, <2>1, <2>2 DEF Owes
<1>3. pc'[n] = "stuck" /\ \A a \in Node : a # n => pc'[a] = pc[a]
  BY <1>1
<1>4. AnswersOwed'
  <2> SUFFICES ASSUME NEW a \in Node, lastSent'[a] = "ELECT", pc'[a] # "stuck"
               PROVE  a \in Running' /\ \A b \in asked'[a] : Owes(b, a)'
    BY DEF AnswersOwed
  <2>1. a # n /\ a \in Running /\ \A b \in asked[a] : Owes(b, a)
    BY <1>3 DEF AnswersOwed
  <2>2. a \in Running'
    BY <1>3, <2>1 DEF Running
  <2>3. \A b \in asked'[a] : b \in Node /\ b # n /\ Owes(b, a)
    BY <1>1, <2>1
  <2>4. QED
    BY <1>2, <2>1, <2>2, <2>3
<1>5. DueSilent'
  BY <1>1 DEF DueSilent
<1>6. UnaskedTop'
  BY <1>3 DEF UnaskedTop, Higher
<1>7. QED
  BY <1>4, <1>5, <1>6

(* Whatever a node reads and handles, the open elections stay owed.             *)
LEMMA InvHandled ==
  ASSUME IInv, Reliable, NEW n \in Node, NEW m \in Node, Receive(n, m), ~RecvStuck(n, m)
  PROVE  ElectionInv'
<1> USE DEF IInv, ElectionInv, BullyTypeOK
<1>1. /\ n \in Running \ due /\ Running' = Running /\ due' = due /\ net[m][n] # <<>>
      /\ pc' = [pc EXCEPT ![n] = "loop"] /\ pc[n] # "stuck"
  BY DEF Receive, RecvElect, RecvAnswer, RecvCoord, RecvAya, RecvIaa, Takes, Running
<1>0. \A a \in Node : pc'[a] # "stuck" => pc[a] # "stuck"
  BY <1>1
<1>2. CASE RecvElect(n, m)
  <2>1. AnswersOwed'
    <3>0. \A a \in Node : (lastSent[a] = "ELECT" /\ pc[a] # "stuck")' => a \in Running
      BY <1>0, <1>1, <1>2 DEF AnswersOwed, RecvElect
    <3> SUFFICES ASSUME NEW a \in Node, (lastSent[a] = "ELECT" /\ pc[a] # "stuck")',
                        NEW b \in asked'[a]
                 PROVE  Owes(b, a)'
      BY <1>1, <3>0 DEF AnswersOwed
    <3>1. CASE a = n /\ lastSent[n] # "ELECT"
      <4>1. Higher(n) # {} /\ PassesTo(n) = Higher(n)
        BY <1>2, <3>1 DEF RecvElect, PassesTo
      <4>2. b \in PassesTo(n) \cap Running
        BY <1>2, <3>1, <4>1 DEF RecvElect
      <4>3. QED
        BY <1>2, <3>1, <4>2, ElectAnswered
    <3>2. CASE lastSent[a] = "ELECT" /\ b \in asked[a]
      <4>1. a \in Running /\ b \in Node /\ Owes(b, a)
        BY <1>0, <3>2 DEF AnswersOwed
      <4>2. QED
        BY <1>2, <4>1, ElectAnswered
    <3>3. QED
      <4>1. a # n => lastSent[a] = "ELECT" /\ b \in asked[a]
        BY <1>2 DEF RecvElect
      <4>2. lastSent[n] = "ELECT" => asked' = asked
        BY <1>2 DEF RecvElect, PassesTo
      <4>3. QED
        BY <3>1, <3>2, <4>1, <4>2
  <2>2. DueSilent'
    <3>1. \A a \in due : a # n /\ a \in Node
      BY <1>1
    <3>2. \A a \in due : lastSent'[a] = lastSent[a] /\ asked'[a] = asked[a]
      BY <1>2, <3>1 DEF RecvElect
    <3>3. QED
      BY <1>1, <3>2 DEF DueSilent
  <2>3. UnaskedTop'
    BY <1>0, <1>2 DEF UnaskedTop, RecvElect, Higher
  <2>4. QED
    BY <2>1, <2>2, <2>3
<1>3. CASE RecvAnswer(n, m)
  <2>1. \A a, b \in Node, kind \in Kind :
          Holds(Received(m, n)[a][b], kind) => Holds(net'[a][b], kind)
    <3>1. \A ping : Copies("AYA", ping) \in [Node -> Seq(Kind)]
      BY CopiesType DEF Kind
    <3>2. Received(m, n) \in Queues
      BY <1>1, ReceivedEffect
    <3>3. CASE lastSent[n] = "ELECT"
      <4>1. PICK ping : Sends(n, Received(m, n), Copies("AYA", ping))
        BY <1>3, <3>3 DEF RecvAnswer
      <4>2. QED
        BY <3>1, <3>2, <4>1, SendsEffect
    <3>4. CASE lastSent[n] # "ELECT"
      BY <1>3, <3>4 DEF RecvAnswer
    <3>5. QED
      BY <3>3, <3>4
  <2>2. \A a, b \in Node : Owes(b, a) /\ a # n => Owes(b, a)'
    <3>1. Head(net[m][n]) = "ANSWER"
      BY <1>3 DEF RecvAnswer, Takes
    <3>2. QED
      BY <1>1, <2>1, <3>1, ReadOwed
  <2>3. lastSent'[n] # "ELECT" /\ asked' = asked
        /\ \A a \in Node : a # n => lastSent'[a] = lastSent[a]
    BY <1>3 DEF RecvAnswer
  <2>4. AnswersOwed'
    BY <1>0, <1>1, <2>2, <2>3 DEF AnswersOwed
  <2>5. DueSilent'
    BY <1>1, <2>3 DEF DueSilent
  <2>6. UnaskedTop'
    BY <1>0, <1>3 DEF UnaskedTop, RecvAnswer, Higher
  <2>7. QED
    BY <2>4, <2>5, <2>6
<1>4. CASE RecvCoord(n, m) \/ RecvAya(n, m) \/ RecvIaa(n, m)
  <2>1. \A a, b \in Node, kind \in Kind :
          Holds(Received(m, n)[a][b], kind) => Holds(net'[a][b], kind)
    <3>1. \A to : Copies("IAA", to) \in [Node -> Seq(Kind)]
      BY CopiesType DEF Kind
    <3>2. Received(m, n) \in Queues
      BY <1>1, ReceivedEffect
    <3>3. CASE RecvAya(n, m)
      <4>1. PICK to : Sends(n, Received(m, n), Copies("IAA", to))
        BY <3>3 DEF RecvAya
      <4>2. QED
        BY <3>1, <3>2, <4>1, SendsEffect
    <3>4. QED
      BY <1>4, <3>3 DEF RecvCoord, RecvIaa
  <2>2. \A a, b \in Node : Owes(b, a) => Owes(b, a)'
    <3>1. Head(net[m][n]) \notin {"ELECT", "ANSWER"}
      BY <1>4 DEF RecvCoord, RecvAya, RecvIaa, Takes
    <3>2. QED
      BY <1>1, <2>1, <3>1, ReadOwed
  <2>3. asked' = asked /\ \A a \in Node : lastSent'[a] = "ELECT" => lastSent[a] = "ELECT"
    BY <1>4 DEF RecvCoord, RecvAya, RecvIaa
  <2>4. AnswersOwed'
    BY <1>0, <1>1, <2>2, <2>3 DEF AnswersOwed
  <2>5. DueSilent'
    BY <1>1, <2>3 DEF DueSilent
  <2>6. UnaskedTop'
    BY <1>0, <1>4 DEF UnaskedTop, RecvCoord, RecvAya, RecvIaa, Higher
  <2>7. QED
    BY <2>4, <2>5, <2>6
<1>5. QED
  BY <1>2, <1>3, <1>4 DEF Receive

(* So they do when it blocks instead.                                           *)
LEMMA InvReceive ==
  ASSUME IInv, Reliable, NEW n \in Node, NEW m \in Node, Receive(n, m)
  PROVE  ElectionInv'
<1>1. CASE RecvStuck(n, m)
  <2>1. PICK out \in [Node -> Seq(Kind)] : Blocks(n, out)
    BY <1>1, StuckSends
  <2>2. due' = due \ {n} /\ UNCHANGED <<lastSent, lastReceived>>
    BY <1>1 DEF RecvStuck
  <2>3. QED
    BY <2>1, <2>2, InvBlocks
<1>2. CASE ~RecvStuck(n, m)
  BY <1>2, InvHandled
<1>3. QED
  BY <1>1, <1>2

(* A new election is owed by those it asks; a claim ends one that nobody owes.  *)
LEMMA InvTimeout ==
  ASSUME IInv, Reliable, NEW n \in Node, FirstTimeout(n) \/ Timeout(n)
  PROVE  ElectionInv'
<1> USE DEF IInv, ElectionInv, BullyTypeOK
<1>1. ASSUME NEW ping, Elects(n, ping), n \in Running, Running' = Running,
             \A a \in Node : pc'[a] # "stuck" => pc[a] # "stuck",
             due' = due \ {n},
             \A a \in Node : a # n => lastSent'[a] = lastSent[a],
             lastSent'[n] = "none" => Higher(n) = {},
             \A a \in Node : a # n => lastReceived'[a] = lastReceived[a]
      PROVE  ElectionInv'
  <2>1. \A a \in Node : a # n => asked'[a] = asked[a]
    BY <1>1, ElectsOwed
  <2>2. AnswersOwed'
    <3> SUFFICES ASSUME NEW a \in Node, (lastSent[a] = "ELECT" /\ pc[a] # "stuck")',
                        NEW b \in asked'[a]
                 PROVE  Owes(b, a)'
      BY <1>1 DEF AnswersOwed
    <3>1. CASE a = n
      <4>1. b \in Higher(n) \cap Running
        BY <1>1, <3>1, ElectsOwed
      <4>2. QED
        BY <1>1, <3>1, <4>1, ElectsOwed
    <3>2. CASE a # n
      <4>1. Owes(b, a) /\ b \in Node
        BY <1>1, <2>1, <3>2 DEF AnswersOwed
      <4>2. QED
        BY <1>1, <4>1, ElectsOwed
    <3>3. QED
      BY <3>1, <3>2
  <2>3. DueSilent'
    BY <1>1, <2>1 DEF DueSilent
  <2>4. UnaskedTop'
    BY <1>1 DEF UnaskedTop, Higher
  <2>5. QED
    BY <2>2, <2>3, <2>4
<1>2. CASE FirstTimeout(n)
  <2>1. LastMember > n \/ Higher(n) = {}
    <3>1. n \in Nat /\ LastMember \in Nat
      BY NodeAssumption
    <3>2. \A m \in Node : m \in Nat /\ m <= LastMember
      BY NodeAssumption DEF Reliable
    <3>3. QED
      BY <3>1, <3>2 DEF Higher
  <2>2. /\ Running' = Running /\ n \in Running
        /\ \A a \in Node : pc'[a] # "stuck" => pc[a] # "stuck"
    BY <1>2 DEF FirstTimeout, Running
  <2>3. QED
    BY <1>1, <1>2, <2>1, <2>2 DEF FirstTimeout
<1>3. CASE Timeout(n) /\ TimeoutClaims(n)
  <2>1. \A a, b \in Node, kind \in Kind : Holds(net[a][b], kind) => Holds(net'[a][b], kind)
    <3>1. PICK coord, ping :
            Sends(n, net, [q \in Node |-> Copies("COORD", coord)[q] \o Copies("AYA", ping)[q]])
      BY <1>3 DEF TimeoutClaims
    <3> DEFINE out == [q \in Node |-> Copies("COORD", coord)[q] \o Copies("AYA", ping)[q]]
    <3>2. out \in [Node -> Seq(Kind)]
      BY CopiesType DEF Kind
    <3>3. Sends(n, net, out)
      BY ONLY <3>1
    <3>4. net \in Queues
      BY DEF Queues
    <3> HIDE DEF out
    <3>5. QED
      BY <3>2, <3>3, <3>4, SendsEffect
  <2>2. Running' = Running /\ pc' = pc /\ asked' = asked /\ due' = due \ {n}
        /\ \A a \in Node : lastSent'[a] = "ELECT" => lastSent[a] = "ELECT"
    BY <1>3 DEF Timeout, TimeoutClaims, Running
  <2>3. AnswersOwed'
    BY <2>1, <2>2, OwedStays DEF AnswersOwed
  <2>4. DueSilent'
    BY <2>2 DEF DueSilent
  <2>5. UnaskedTop'
    BY <1>3 DEF UnaskedTop, Timeout, TimeoutClaims, Higher
  <2>6. QED
    BY <2>3, <2>4, <2>5
<1>4. CASE Timeout(n) /\ (TimeoutAsksAgain(n) \/ TimeoutOrphaned(n))
  <2>1. Running' = Running /\ pc' = pc /\ n \in Running
    BY <1>4 DEF Timeout, TimeoutAsksAgain, TimeoutOrphaned, Running
  <2>2. PICK ping : Elects(n, ping)
    BY <1>4 DEF TimeoutAsksAgain, TimeoutOrphaned
  <2>3. lastSent' = [lastSent EXCEPT ![n] = "ELECT"] /\ due' = due \ {n}
        /\ lastReceived' = lastReceived
    BY <1>4 DEF Timeout, TimeoutAsksAgain, TimeoutOrphaned
  <2>4. QED
    BY <1>1, <2>1, <2>2, <2>3
<1>5. CASE Timeout(n) /\ (TimeoutStuck(n) \/ TimeoutHeld(n))
  <2>1. PICK out \in [Node -> Seq(Kind)] : Blocks(n, out)
    BY <1>5, CopiesType DEF TimeoutStuck, TimeoutHeld, Kind
  <2>2. /\ due' = due \ {n} /\ lastReceived' = lastReceived
        /\ \A a \in Node : a # n => lastSent'[a] = lastSent[a]
    BY <1>5 DEF Timeout, TimeoutStuck, TimeoutHeld
  <2>3. QED
    BY <2>1, <2>2, InvBlocks
<1>6. CASE Timeout(n) /\ TimeoutIdle(n)
  <2>1. UNCHANGED <<pc, lastSent, lastReceived, net, asked>> /\ due' = due \ {n}
    BY <1>6 DEF Timeout, TimeoutIdle
  <2>2. AnswersOwed'
    <3>1. \A a, b \in Node : Owes(b, a) => Owes(b, a)'
      BY <2>1 DEF Owes, Holds
    <3>2. Running' = Running
      BY <2>1 DEF Running
    <3>3. QED
      BY <2>1, <3>1, <3>2 DEF AnswersOwed
  <2>3. DueSilent' /\ UnaskedTop'
    BY <2>1 DEF DueSilent, UnaskedTop, Higher
  <2>4. QED
    BY <2>2, <2>3
<1>7. QED
  BY <1>2, <1>3, <1>4, <1>5, <1>6 DEF Timeout

(* Pings, crashes and restarts open no election; the dead owe nothing.          *)
LEMMA InvOther ==
  ASSUME IInv, Reliable, NEW n \in Node,
         TimeoutSegfault(n) \/ Ping(n) \/ LastWord(n) \/ Seize(n) \/ Start(n) \/ Crash(n)
  PROVE  ElectionInv'
<1> USE DEF IInv, ElectionInv, BullyTypeOK
<1>1. CASE Dies(n)
  <2>1. \A a, b \in Node : a # n /\ b # n /\ Owes(b, a) => Owes(b, a)'
    <3>1. \A a, b \in Node : b # n => net'[a][b] = net[a][b]
      BY <1>1, UnreadEffect DEF Dies
    <3>2. QED
      BY <3>1 DEF Owes, Holds
  <2>2. /\ Running' = Running \ {n} /\ due' = due \ {n}
        /\ lastSent'[n] = "none" /\ lastReceived'[n] = "none"
        /\ \A a \in Node : a # n => pc'[a] = pc[a]
                                   /\ lastSent'[a] = lastSent[a]
                                   /\ lastReceived'[a] = lastReceived[a]
                                   /\ asked'[a] = asked[a] \ {n}
    BY <1>1 DEF Dies, Running
  <2>3. AnswersOwed'
    BY <2>1, <2>2 DEF AnswersOwed
  <2>4. DueSilent'
    BY <2>2 DEF DueSilent
  <2>5. UnaskedTop'
    BY <2>2 DEF UnaskedTop, Higher
  <2>6. QED
    BY <2>3, <2>4, <2>5
<1>2. CASE Ping(n)
  <2>1. PICK to : Sends(n, net, Copies("AYA", to))
    BY <1>2 DEF Ping
  <2>2. net \in Queues /\ Copies("AYA", to) \in [Node -> Seq(Kind)]
    BY CopiesType DEF Queues, Kind
  <2>3. \A a, b \in Node, kind \in Kind : Holds(net[a][b], kind) => Holds(net'[a][b], kind)
    BY <2>1, <2>2, SendsEffect
  <2>4. Running' = Running /\ pc' = pc /\ lastSent' = [lastSent EXCEPT ![n] = "AYA"]
        /\ UNCHANGED <<lastReceived, due, asked>>
    BY <1>2 DEF Ping, Running
  <2>5. AnswersOwed'
    BY <2>3, <2>4, OwedStays DEF AnswersOwed
  <2>6. QED
    BY <2>4, <2>5 DEF DueSilent, UnaskedTop, Higher
<1>3. CASE LastWord(n) \/ Seize(n)
  <2>1. UNCHANGED <<pc, lastReceived, due, net, asked>>
        /\ lastSent' \in {lastSent, [lastSent EXCEPT ![n] = "AYA"]}
    BY <1>3 DEF LastWord, Seize
  <2>2. AnswersOwed'
    <3>1. \A a, b \in Node : Owes(b, a) => Owes(b, a)'
      BY <2>1 DEF Owes, Holds
    <3>2. Running' = Running
      BY <2>1 DEF Running
    <3>3. QED
      BY <2>1, <3>1, <3>2 DEF AnswersOwed
  <2>3. DueSilent' /\ UnaskedTop'
    BY <2>1 DEF DueSilent, UnaskedTop, Higher
  <2>4. QED
    BY <2>2, <2>3
<1>4. CASE Start(n)
  <2>1. /\ UNCHANGED <<lastSent, lastReceived, due, net, asked>>
        /\ \A a \in Running : a \in Running'
        /\ \A a \in Node : pc'[a] # "stuck" => pc[a] # "stuck"
    BY <1>4 DEF Start, Running
  <2>2. AnswersOwed'
    <3>1. \A a, b \in Node : Owes(b, a) => Owes(b, a)'
      BY <2>1 DEF Owes, Holds
    <3>2. QED
      BY <2>1, <3>1 DEF AnswersOwed
  <2>3. DueSilent' /\ UnaskedTop'
    BY <2>1 DEF DueSilent, UnaskedTop, Higher
  <2>4. QED
    BY <2>2, <2>3
<1>5. QED
  BY <1>1, <1>2, <1>3, <1>4 DEF TimeoutSegfault, Crash

(* The invariant when time passes: nothing is on its way, so nobody asked is up.*)
LEMMA InvElapse ==
  ASSUME IInv, NEW nodes, Elapse(nodes)
  PROVE  ElectionInv'
<1> USE DEF IInv, ElectionInv, BullyTypeOK
<1>1. \A a, b \in Node : ~Owes(b, a)
  BY DEF Elapse, Owes, Holds
<1>2. \A a \in Node : lastSent[a] = "ELECT" /\ pc[a] # "stuck" => asked[a] = {}
  BY <1>1 DEF AnswersOwed
<1>3. UNCHANGED <<pc, lastSent, lastReceived, net, asked>>
      /\ \A a \in due' : a \in Node /\ pc[a] # "stuck"
  BY DEF Elapse, Running
<1>4. AnswersOwed'
  BY <1>2, <1>3 DEF AnswersOwed, Running
<1>5. DueSilent' /\ UnaskedTop'
  BY <1>2, <1>3 DEF DueSilent, UnaskedTop, Higher
<1>6. QED
  BY <1>4, <1>5

(* Every step keeps the election invariant in a reliable network.              *)
LEMMA ElectionStep == ASSUME Reliable PROVE IInv /\ [Next]_vars => IInv'
<1> SUFFICES ASSUME IInv, [Next]_vars PROVE IInv'
  OBVIOUS
<1>1. BullyTypeOK'
  BY TypeStep DEF IInv
<1>2. ElectionInv'
  <2>1. CASE \E nodes \in SUBSET Node \ {{}} : Elapse(nodes)
    BY <2>1, InvElapse
  <2>2. ASSUME NEW n \in Node, NEW m \in Node, Receive(n, m) PROVE ElectionInv'
    BY <2>2, InvReceive
  <2>3. ASSUME NEW n \in Node, FirstTimeout(n) \/ Timeout(n) PROVE ElectionInv'
    BY <2>3, InvTimeout
  <2>4. ASSUME NEW n \in Node,
               TimeoutSegfault(n) \/ Ping(n) \/ LastWord(n) \/ Seize(n) \/ Start(n) \/ Crash(n)
        PROVE  ElectionInv'
    BY <2>4, InvOther
  <2>5. CASE UNCHANGED vars
    <3>1. UNCHANGED <<pc, lastSent, lastReceived, due, net, asked>>
      BY <2>5 DEF vars
    <3>2. AnswersOwed'
      BY <3>1 DEF IInv, ElectionInv, AnswersOwed, Owes, Holds, Running
    <3>3. DueSilent' /\ UnaskedTop'
      BY <3>1 DEF IInv, ElectionInv, DueSilent, UnaskedTop, Higher
    <3>4. QED
      BY <3>2, <3>3 DEF ElectionInv
  <2>6. QED
    BY <2>1, <2>2, <2>3, <2>4, <2>5 DEF Next
<1>3. QED
  BY <1>1, <1>2 DEF IInv

(* At the start nobody has asked anybody.                                      *)
LEMMA ElectionInit == Init => IInv
<1>1. Init => BullyTypeOK
  BY FaultAssumption DEF Init, BullyTypeOK
<1>2. Init => ElectionInv
  BY DEF Init, ElectionInv, AnswersOwed, DueSilent, UnaskedTop
<1>3. QED
  BY <1>1, <1>2 DEF IInv

(* What an open election waits for is owed, and a receive that times out in one  *)
(* has nothing left to wait for (node.c:571, :302), whatever nodes crash.        *)
THEOREM ElectionIsOwed == ASSUME Reliable PROVE Spec => []ElectionInv
<1>1. Init => IInv
  BY ElectionInit
<1>2. IInv /\ [Next]_vars => IInv'
  BY ElectionStep
<1>3. IInv => ElectionInv
  BY DEF IInv
<1>4. QED
  BY <1>1, <1>2, <1>3, PTL DEF Spec

(* Whoever claims on a timeout (node.c:302, :403) has outlasted every higher     *)
(* node it asked: the induction above, at the one step that claims.             *)
THEOREM ClaimIsJustified == ASSUME Reliable PROVE Spec => ClaimJustified
<1>1. ASSUME IInv, [Next]_vars, NEW n \in Node,
             lastSent'[n] = "COORD", lastSent[n] # "COORD", Higher(n) # {}
      PROVE  asked[n] = {}
  <2> USE DEF IInv, ElectionInv, BullyTypeOK
  <2>1. lastSent'[n] # lastSent[n]
    BY <1>1
  <2>2. CASE \E nodes \in SUBSET Node \ {{}} : Elapse(nodes)
    BY <2>1, <2>2 DEF Elapse
  <2>3. ASSUME NEW k \in Node, NEW m \in Node, Receive(k, m) PROVE FALSE
    <3>1. CASE RecvElect(k, m)
      BY <1>1, <3>1 DEF RecvElect
    <3>2. CASE RecvAnswer(k, m)
      BY <1>1, <3>2 DEF RecvAnswer
    <3>3. CASE RecvCoord(k, m) \/ RecvIaa(k, m)
      BY <1>1, <3>3 DEF RecvCoord, RecvIaa
    <3>4. CASE RecvAya(k, m)
      BY <1>1, <3>4 DEF RecvAya
    <3>5. CASE RecvStuck(k, m)
      BY <1>1, <3>5 DEF RecvStuck
    <3>6. QED
      BY <2>3, <3>1, <3>2, <3>3, <3>4, <3>5 DEF Receive
  <2>4. ASSUME NEW k \in Node, FirstTimeout(k) PROVE FALSE
    BY <1>1, <2>4 DEF FirstTimeout
  <2>5. ASSUME NEW k \in Node, Timeout(k) PROVE asked[n] = {}
    <3>1. TimeoutClaims(k) /\ k = n
      <4>1. ~TimeoutIdle(k) /\ ~TimeoutStuck(k) /\ ~TimeoutHeld(k)
        BY <1>1, <2>1 DEF TimeoutIdle, TimeoutStuck, TimeoutHeld
      <4>2. ~TimeoutAsksAgain(k)
        BY <1>1 DEF TimeoutAsksAgain
      <4>3. ~TimeoutOrphaned(k)
        BY <1>1 DEF TimeoutOrphaned
      <4>4. TimeoutClaims(k)
        BY <2>5, <4>1, <4>2, <4>3 DEF Timeout
      <4>5. QED
        BY <1>1, <4>4 DEF TimeoutClaims
    <3>2. n \in due /\ pc[n] = "loop"
      BY <2>5, <3>1 DEF Timeout
    <3>3. lastSent[n] = "ELECT"
      BY <1>1, <3>1, <3>2 DEF TimeoutClaims, Expects, UnaskedTop
    <3>4. QED
      BY <1>1, <3>2, <3>3 DEF DueSilent
  <2>6. ASSUME NEW k \in Node,
               TimeoutSegfault(k) \/ Ping(k) \/ LastWord(k) \/ Seize(k) \/ Start(k) \/ Crash(k)
        PROVE  FALSE
    BY <1>1, <2>6 DEF TimeoutSegfault, Ping, LastWord, Seize, Start, Crash, Dies
  <2>7. CASE UNCHANGED vars
    BY <2>1, <2>7 DEF vars
  <2>8. QED
    BY <1>1, <2>2, <2>3, <2>4, <2>5, <2>6, <2>7 DEF Next
<1>2. IInv /\ [Next]_vars =>
        [\A n \in Node : lastSent'[n] = "COORD" /\ lastSent[n] # "COORD" /\ Higher(n) # {} =>
            asked[n] = {}]_vars
  BY <1>1
<1>3. Init => IInv
  BY ElectionInit
<1>4. IInv /\ [Next]_vars => IInv'
  BY ElectionStep
<1>5. QED
  BY <1>2, <1>3, <1>4, PTL DEF Spec, ClaimJustified

-------------------------------------------------------------------------------
\* Claims.  Nothing is assumed of the network or of the group file.

(* Sending puts into a queue only what is sent.                                 *)
LEMMA SendsOnly ==
  ASSUME NEW n \in Node, NEW queues \in Queues, NEW out \in [Node -> Seq(Kind)],
         Sends(n, queues, out), NEW a \in Node, NEW b \in Node, NEW kind,
         Holds(net'[a][b], kind)
  PROVE  Holds(queues[a][b], kind) \/ (a = n /\ Holds(out[b], kind))
<1>1. queues[n][b] \in Seq(Kind) /\ out[b] \in Seq(Kind)
  BY DEF Queues
<1>2. net'[n][b] = IF b \in Running THEN queues[n][b] \o out[b] ELSE queues[n][b]
  BY DEF Sends, Queues
<1>3. a # n => net'[a] = queues[a]
  BY DEF Sends, Queues
<1>4. CASE a = n /\ b \in Running
  BY <1>1, <1>2, <1>4, HoldsSplit
<1>5. CASE ~(a = n /\ b \in Running)
  BY <1>2, <1>3, <1>5
<1>6. QED
  BY <1>4, <1>5

(* Reading adds nothing to a queue.                                             *)
LEMMA ReceivedOnly ==
  ASSUME BullyTypeOK, NEW n \in Node, NEW m \in Node, net[m][n] # <<>>,
         NEW a \in Node, NEW b \in Node, NEW kind, Holds(Received(m, n)[a][b], kind)
  PROVE  Holds(net[a][b], kind)
<1>1. net \in Queues /\ net[m][n] \in Seq(Kind)
  BY DEF BullyTypeOK, Queues
<1>2. Received(m, n) = [net EXCEPT ![m] = [net[m] EXCEPT ![n] = Tail(net[m][n])]]
  BY <1>1 DEF Received, Queues
<1>3. CASE a = m /\ b = n
  <2>1. Holds(Tail(net[m][n]), kind)
    BY <1>1, <1>2, <1>3 DEF Queues
  <2>2. PICK i \in 1..Len(Tail(net[m][n])) : Tail(net[m][n])[i] = kind
    BY <2>1 DEF Holds
  <2>3. i + 1 \in 1..Len(net[m][n]) /\ net[m][n][i + 1] = kind
    BY <1>1, <2>2
  <2>4. QED
    BY <1>3, <2>3 DEF Holds
<1>4. CASE ~(a = m /\ b = n)
  BY <1>1, <1>2, <1>4 DEF Queues
<1>5. QED
  BY <1>3, <1>4

(* A step that sends claims downwards at most, and keeps aya or takes a claimed   *)
(* coordinator, keeps everybody looking upwards.                                *)
LEMMA UpwardsKept ==
  ASSUME BullyTypeOK, FollowsUpwards, NEW n \in Node, NEW queues \in Queues,
         \A a, b \in Node : Holds(queues[a][b], "COORD") => Holds(net[a][b], "COORD"),
         NEW out \in [Node -> Seq(Kind)], Sends(n, queues, out),
         \A b \in Node : Holds(out[b], "COORD") => b \in Lower(n),
         \A a \in Node : aya'[a] \in {aya[a], Nobody}
  PROVE  FollowsUpwards'
<1>1. ASSUME NEW a \in Node, NEW b \in Node, Holds(net'[a][b], "COORD")
      PROVE  a \in Higher(b)
  <2>1. Holds(queues[a][b], "COORD") \/ (a = n /\ Holds(out[b], "COORD"))
    BY <1>1, SendsOnly
  <2>2. CASE Holds(queues[a][b], "COORD")
    BY <2>2 DEF FollowsUpwards
  <2>3. CASE a = n /\ Holds(out[b], "COORD")
    BY <2>3 DEF Lower, Higher
  <2>4. QED
    BY <2>1, <2>2, <2>3
<1>2. \A b \in Node : aya'[b] # Nobody => aya'[b] \in Higher(b)
  BY DEF FollowsUpwards
<1>3. QED
  BY <1>1, <1>2 DEF FollowsUpwards, Holds, Higher

(* So does a step with which a node blocks.                                     *)
LEMMA UpwardsBlocks ==
  ASSUME BullyTypeOK, FollowsUpwards, NEW n \in Node, NEW out \in [Node -> Seq(Kind)],
         Blocks(n, out), \A b \in Node : Holds(out[b], "COORD") => b \in Lower(n),
         \A a \in Node : aya'[a] \in {aya[a], Nobody}
  PROVE  FollowsUpwards'
<1>1. Unread(n) \in Queues /\ Sends(n, Unread(n), out)
  BY UnreadEffect DEF Blocks
<1>2. \A a, b \in Node : Holds(Unread(n)[a][b], "COORD") => Holds(net[a][b], "COORD")
  BY UnreadEffect DEF Holds
<1>3. QED
  BY <1>1, <1>2, UpwardsKept

(* Elections send no claim.                                                     *)
LEMMA ElectsUpwards ==
  ASSUME BullyTypeOK, FollowsUpwards, NEW n \in Node, NEW ping, Elects(n, ping),
         \A a \in Node : aya'[a] \in {aya[a], Nobody}
  PROVE  FollowsUpwards'
<1>1. PICK elect \in Arriving(Higher(n)) :
        Sends(n, net, [q \in Node |-> Copies("ELECT", elect)[q] \o Copies("AYA", ping)[q]])
  BY DEF Elects
<1> DEFINE out == [q \in Node |-> Copies("ELECT", elect)[q] \o Copies("AYA", ping)[q]]
<1>2. out \in [Node -> Seq(Kind)]
  BY CopiesType DEF Kind
<1>3. Sends(n, net, out)
  BY ONLY <1>1
<1>4. \A b \in Node : ~Holds(out[b], "COORD")
  <2> TAKE b \in Node
  <2>1. Copies("ELECT", elect)[b] \in Seq(Kind) /\ Copies("AYA", ping)[b] \in Seq(Kind)
    BY CopiesType DEF Kind
  <2>2. out[b] = Copies("ELECT", elect)[b] \o Copies("AYA", ping)[b]
    OBVIOUS
  <2>3. ~Holds(Copies("ELECT", elect)[b], "COORD") /\ ~Holds(Copies("AYA", ping)[b], "COORD")
    BY CopiesOnly DEF Kind
  <2> HIDE DEF out
  <2>4. QED
    BY <2>1, <2>2, <2>3, HoldsSplit
<1>5. net \in Queues
  BY DEF BullyTypeOK, Queues
<1> HIDE DEF out
<1>6. QED
  BY <1>2, <1>3, <1>4, <1>5, UpwardsKept

(* A claim read, or answered by a thread, points upwards.                      *)
LEMMA UpwardsReceive ==
  ASSUME BullyTypeOK, FollowsUpwards, NEW n \in Node, NEW m \in Node, Receive(n, m)
  PROVE  FollowsUpwards'
<1>0. CASE RecvStuck(n, m)
  <2>1. PICK out \in [Node -> Seq(Kind)] :
          Blocks(n, out) /\ \A b \in Node : ~Holds(out[b], "COORD")
    BY <1>0, StuckSends
  <2>2. aya' = aya
    BY <1>0 DEF RecvStuck
  <2>3. QED
    BY <2>1, <2>2, UpwardsBlocks
<1> SUFFICES ASSUME ~RecvStuck(n, m) PROVE FollowsUpwards'
  BY <1>0
<1>1. net[m][n] # <<>>
  BY DEF Receive, RecvElect, RecvAnswer, RecvCoord, RecvAya, RecvIaa, Takes
<1>2. Received(m, n) \in Queues
  BY <1>1, ReceivedEffect
<1>3. \A a, b \in Node : Holds(Received(m, n)[a][b], "COORD") => Holds(net[a][b], "COORD")
  BY <1>1, ReceivedOnly
<1>4. ASSUME NEW kind \in Kind \ {"COORD"}, NEW to, Sends(n, Received(m, n), Copies(kind, to)),
             aya' = aya
      PROVE  FollowsUpwards'
  <2>1. Copies(kind, to) \in [Node -> Seq(Kind)]
    BY CopiesType
  <2>2. \A b \in Node : ~Holds(Copies(kind, to)[b], "COORD")
    BY CopiesOnly
  <2>3. QED
    BY <1>2, <1>3, <1>4, <2>1, <2>2, UpwardsKept
<1>5. CASE net' = Received(m, n) /\ aya' = aya
  <2>1. \A a, b \in Node : Holds(net'[a][b], "COORD") => Holds(net[a][b], "COORD")
    BY <1>3, <1>5
  <2>2. \A a, b \in Node : Holds(net[a][b], "COORD")' => Holds(net[a][b], "COORD")
    BY <2>1 DEF Holds
  <2>3. \A b \in Node : Higher(b)' = Higher(b)
    BY DEF Higher
  <2>4. QED
    BY <1>5, <2>2, <2>3 DEF FollowsUpwards
<1>6. CASE RecvElect(n, m)
  <2>1. PICK answer \in Arriving({m}), elect \in Arriving(PassesTo(n)),
             coord \in Arriving(ClaimsTo(n)), ping \in HiddenPings(n) :
          Sends(n, Received(m, n),
                [q \in Node |-> Copies("ANSWER", answer)[q] \o Copies("ELECT", elect)[q]
                                  \o Copies("COORD", coord)[q] \o Copies("AYA", ping)[q]])
    BY <1>6 DEF RecvElect
  <2> DEFINE out == [q \in Node |-> Copies("ANSWER", answer)[q] \o Copies("ELECT", elect)[q]
                                  \o Copies("COORD", coord)[q] \o Copies("AYA", ping)[q]]
  <2>2. out \in [Node -> Seq(Kind)]
    BY CopiesType DEF Kind
  <2>3. Sends(n, Received(m, n), out)
    BY ONLY <2>1
  <2>4. coord \subseteq Lower(n)
    BY DEF Arriving, ClaimsTo, Lower
  <2>5. ASSUME NEW b \in Node, Holds(out[b], "COORD") PROVE b \in Lower(n)
    <3> DEFINE first == Copies("ANSWER", answer)[b]
               second == Copies("ELECT", elect)[b]
               third == Copies("COORD", coord)[b]
               fourth == Copies("AYA", ping)[b]
    <3> DEFINE two == first \o second
               three == two \o third
    <3>1. out[b] = three \o fourth
      OBVIOUS
    <3>2. /\ first \in Seq(Kind) /\ second \in Seq(Kind)
          /\ third \in Seq(Kind) /\ fourth \in Seq(Kind)
      BY CopiesType DEF Kind
    <3>3. ~Holds(first, "COORD") /\ ~Holds(second, "COORD") /\ ~Holds(fourth, "COORD")
      BY CopiesOnly DEF Kind
    <3>4. Holds(third, "COORD") => b \in Lower(n)
      BY <2>4, CopiesOnly DEF Kind
    <3> HIDE DEF out, first, second, third, fourth
    <3>5. two \in Seq(Kind) /\ three \in Seq(Kind)
      BY <3>2
    <3>6. ~Holds(two, "COORD")
      BY <3>2, <3>3, HoldsSplit
    <3> HIDE DEF two
    <3>7. Holds(three, "COORD") => Holds(third, "COORD")
      BY <3>2, <3>5, <3>6, HoldsSplit
    <3> HIDE DEF three
    <3>8. QED
      BY <2>5, <3>1, <3>2, <3>3, <3>4, <3>5, <3>7, HoldsSplit
  <2>6. aya' = aya
    BY <1>6 DEF RecvElect
  <2> HIDE DEF out
  <2>7. QED
    BY <1>2, <1>3, <2>2, <2>3, <2>5, <2>6, UpwardsKept
<1>7. CASE RecvAnswer(n, m)
  BY <1>4, <1>5, <1>7 DEF RecvAnswer, Kind
<1>8. CASE RecvCoord(n, m)
  <2>1. m \in Higher(n)
    <3>1. net[m][n] \in Seq(Kind) /\ net[m][n][1] = "COORD"
      BY <1>8 DEF RecvCoord, Takes, BullyTypeOK
    <3>2. Holds(net[m][n], "COORD")
      BY <1>1, <3>1 DEF Holds
    <3>3. QED
      BY <3>2 DEF FollowsUpwards
  <2>2. net' = Received(m, n) /\ \A a \in Node : aya'[a] = aya[a] \/ (a = n /\ aya'[a] = m)
    BY <1>8 DEF RecvCoord, BullyTypeOK
  <2>3. \A b \in Node : aya'[b] # Nobody => aya'[b] \in Higher(b)
    BY <2>1, <2>2 DEF FollowsUpwards
  <2>4. \A a, b \in Node : Holds(net'[a][b], "COORD") => a \in Higher(b)
    BY <1>3, <2>2 DEF FollowsUpwards
  <2>5. QED
    BY <2>3, <2>4 DEF FollowsUpwards, Holds, Higher
<1>9. CASE RecvAya(n, m)
  BY <1>4, <1>9 DEF RecvAya, Kind
<1>10. CASE RecvIaa(n, m)
  BY <1>5, <1>10 DEF RecvIaa
<1>11. QED
  BY <1>6, <1>7, <1>8, <1>9, <1>10 DEF Receive

(* The only claims a timeout sends go to the lower nodes.                       *)
LEMMA UpwardsTimeout ==
  ASSUME BullyTypeOK, FollowsUpwards, NEW n \in Node, FirstTimeout(n) \/ Timeout(n)
  PROVE  FollowsUpwards'
<1>1. CASE FirstTimeout(n)
  BY <1>1, ElectsUpwards DEF FirstTimeout
<1>2. CASE TimeoutClaims(n)
  <2>1. PICK coord \in Arriving(Lower(n)), ping \in Pings(n) :
          Sends(n, net, [q \in Node |-> Copies("COORD", coord)[q] \o Copies("AYA", ping)[q]])
    BY <1>2 DEF TimeoutClaims
  <2> DEFINE out == [q \in Node |-> Copies("COORD", coord)[q] \o Copies("AYA", ping)[q]]
  <2>2. out \in [Node -> Seq(Kind)]
    BY CopiesType DEF Kind
  <2>3. Sends(n, net, out)
    BY ONLY <2>1
  <2>4. coord \subseteq Lower(n)
    BY DEF Arriving
  <2>5. ASSUME NEW b \in Node, Holds(out[b], "COORD") PROVE b \in Lower(n)
    <3> DEFINE first == Copies("COORD", coord)[b]
               second == Copies("AYA", ping)[b]
    <3>1. out[b] = first \o second
      OBVIOUS
    <3>2. first \in Seq(Kind) /\ second \in Seq(Kind)
      BY CopiesType DEF Kind
    <3>3. (Holds(first, "COORD") => b \in Lower(n)) /\ ~Holds(second, "COORD")
      BY <2>4, CopiesOnly DEF Kind
    <3> HIDE DEF out, first, second
    <3>4. QED
      BY <2>5, <3>1, <3>2, <3>3, HoldsSplit
  <2>6. aya' = aya /\ net \in Queues
    BY <1>2 DEF TimeoutClaims, BullyTypeOK, Queues
  <2> HIDE DEF out
  <2>7. QED
    BY <2>2, <2>3, <2>5, <2>6, UpwardsKept
<1>3. CASE TimeoutAsksAgain(n)
  BY <1>3, ElectsUpwards DEF TimeoutAsksAgain
<1>4. CASE TimeoutOrphaned(n)
  BY <1>4, ElectsUpwards DEF TimeoutOrphaned, BullyTypeOK
<1>5. CASE TimeoutStuck(n) \/ TimeoutHeld(n)
  <2>1. \A a \in Node : aya'[a] \in {aya[a], Nobody}
    BY <1>5 DEF TimeoutStuck, TimeoutHeld, BullyTypeOK
  <2>2. \A to : /\ Copies("ELECT", to) \in [Node -> Seq(Kind)]
                /\ Copies("COORD", to) \in [Node -> Seq(Kind)]
                /\ \A b \in Node : ~Holds(Copies("ELECT", to)[b], "COORD")
                /\ \A b \in Node : Holds(Copies("COORD", to)[b], "COORD") => b \in to
    BY CopiesType, CopiesOnly DEF Kind
  <2>3. ASSUME NEW to, Blocks(n, Copies("ELECT", to)) PROVE FollowsUpwards'
    BY <2>1, <2>2, <2>3, UpwardsBlocks
  <2>4. ASSUME NEW to \in SUBSET Lower(n), Blocks(n, Copies("COORD", to)) PROVE FollowsUpwards'
    BY <2>1, <2>2, <2>4, UpwardsBlocks
  <2>5. \A m \in Lower(n) : Arriving({m}) \subseteq SUBSET Lower(n)
    BY DEF Arriving
  <2>6. QED
    BY <1>5, <2>3, <2>4, <2>5 DEF TimeoutStuck, TimeoutHeld
<1>6. CASE TimeoutIdle(n)
  BY <1>6 DEF TimeoutIdle, FollowsUpwards, Holds, Higher
<1>7. QED
  BY <1>1, <1>2, <1>3, <1>4, <1>5, <1>6 DEF Timeout

(* Every other step leaves the coordinators that are followed alone, or forgets them.*)
LEMMA UpwardsOther ==
  ASSUME BullyTypeOK, FollowsUpwards, NEW n \in Node,
         TimeoutSegfault(n) \/ Ping(n) \/ LastWord(n) \/ Seize(n) \/ Start(n) \/ Crash(n)
  PROVE  FollowsUpwards'
<1>1. CASE Dies(n)
  <2>1. \A a, b \in Node : Holds(net'[a][b], "COORD") => Holds(net[a][b], "COORD")
    BY <1>1, UnreadEffect DEF Dies, Holds
  <2>2. \A a \in Node : aya'[a] \in {aya[a], Nobody}
    BY <1>1 DEF Dies, BullyTypeOK
  <2>3. QED
    BY <2>1, <2>2 DEF FollowsUpwards, Holds, Higher
<1>2. CASE Ping(n)
  <2>1. PICK to : Sends(n, net, Copies("AYA", to))
    BY <1>2 DEF Ping
  <2>2. net \in Queues /\ Copies("AYA", to) \in [Node -> Seq(Kind)]
    BY CopiesType DEF Queues, Kind, BullyTypeOK
  <2>3. \A b \in Node : ~Holds(Copies("AYA", to)[b], "COORD")
    BY CopiesOnly DEF Kind
  <2>4. aya' = aya
    BY <1>2 DEF Ping
  <2>5. QED
    BY <2>1, <2>2, <2>3, <2>4, UpwardsKept
<1>3. CASE LastWord(n) \/ Seize(n) \/ Start(n)
  BY <1>3 DEF LastWord, Seize, Start, FollowsUpwards, Holds, Higher
<1>4. QED
  BY <1>1, <1>2, <1>3 DEF TimeoutSegfault, Crash

(* Nodes look upwards: whom a node pings, and whoever claims to be its           *)
(* coordinator, is above it (node.c:403, :609, :640), lost datagrams or not.    *)
THEOREM NodesLookUpwards == Spec => []FollowsUpwards
<1>1. Init => BullyTypeOK /\ FollowsUpwards
  <2>1. Init => BullyTypeOK
    BY FaultAssumption DEF Init, BullyTypeOK
  <2>2. ASSUME Init PROVE FollowsUpwards
    <3>1. \A a, b \in Node : aya[a] = Nobody /\ net[a][b] = <<>>
      BY <2>2 DEF Init
    <3>2. \A a, b \in Node : ~Holds(net[a][b], "COORD")
      BY <3>1 DEF Holds
    <3>3. QED
      BY <3>1, <3>2 DEF FollowsUpwards
  <2>3. QED
    BY <2>1, <2>2
<1>2. BullyTypeOK /\ FollowsUpwards /\ [Next]_vars => (BullyTypeOK /\ FollowsUpwards)'
  <2> SUFFICES ASSUME BullyTypeOK, FollowsUpwards, [Next]_vars PROVE FollowsUpwards'
    BY TypeStep
  <2>1. CASE \E nodes \in SUBSET Node \ {{}} : Elapse(nodes)
    BY <2>1 DEF Elapse, FollowsUpwards, Holds, Higher
  <2>2. ASSUME NEW n \in Node, NEW m \in Node, Receive(n, m) PROVE FollowsUpwards'
    BY <2>2, UpwardsReceive
  <2>3. ASSUME NEW n \in Node, FirstTimeout(n) \/ Timeout(n) PROVE FollowsUpwards'
    BY <2>3, UpwardsTimeout
  <2>4. ASSUME NEW n \in Node,
               TimeoutSegfault(n) \/ Ping(n) \/ LastWord(n) \/ Seize(n) \/ Start(n) \/ Crash(n)
        PROVE  FollowsUpwards'
    BY <2>4, UpwardsOther
  <2>5. CASE UNCHANGED vars
    BY <2>5 DEF vars, FollowsUpwards, Holds, Higher
  <2>6. QED
    BY <2>1, <2>2, <2>3, <2>4, <2>5 DEF Next
<1>3. QED
  BY <1>1, <1>2, PTL DEF Spec

===============================================================================
