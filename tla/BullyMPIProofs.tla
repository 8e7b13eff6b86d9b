---------------------------- MODULE BullyMPIProofs -----------------------------
(* Proofs about the FG-MPI election, for any number of processes: its types and, *)
(* where MPI_Send loses nothing, that whoever claims has outlasted the nodes it  *)
(* asked, and that a leader mourned has ignored an AYA.                          *)
EXTENDS BullyMPI, QueueLemmas

-------------------------------------------------------------------------------
\* The inductive invariants

\* Elections and pings go up; answers and claims come down.
Carried(m, n) ==
  IF m < n THEN {"ELECTION", "AYA"}
  ELSE IF m > n THEN {"ANSWER", "COORD", "IAA"} ELSE {}

Queues == {queues \in [Node -> [Node -> Seq(Kind)]] :
             \A m, n \in Node : queues[m][n] \in Seq(Carried(m, n))}

TypeInv == MpiTypeOK /\ net \in Queues

\* A node that neither asks nor claims has not just been asked.
AskedThenActs == \A n \in Node : lastSent[n] = "none" => lastReceived[n] # "ELECTION"

\* m has yet to read n's ELECTION, or n to read m's ANSWER.
Owes(m, n) == "ELECTION" \in Range(net[n][m]) \/ "ANSWER" \in Range(net[m][n])

\* An election is less than a second old while answers are owed.
Fresh(n) ==
  \/ tick[n] = 0
  \/ tick[n] = 1 /\ n \notin pending

\* A node in an election hears, in this second, from whoever it asked and is alive.
ElectionOpen ==
  /\ \A n \in Node : asked[n] \cap dead = {}
  /\ \A n \in Node \ dead : lastSent[n] = "ELECTION" =>
       /\ \A m \in asked[n] : Owes(m, n)
       /\ asked[n] # {} => Fresh(n)

ElectionInv == AskedThenActs /\ ElectionOpen

\* n's ping is on its way to its coordinator, or the answer on its way back.
PingOpen(n) ==
  \E m \in Node : "AYA" \in Range(net[n][m]) \/ "IAA" \in Range(net[m][n])

\* Unless an AYA was ignored, a node with a coordinator has heard something since
\* it last sent AYA, or hears it in this second.
PingInv ==
  \A n \in Node :
    /\ lastSent[n] = "AYA" => coordNode[n] # 0
    /\ n \in dead => tick[n] = 0
    /\ coordNode[n] # 0 /\ n \notin unanswered =>
         \/ tick[n] <= sincePing[n]
         \/ n \notin pending /\ PingOpen(n) /\ tick[n] <= MaxRate
-------------------------------------------------------------------------------
\* Queues

\* What n may send at once: a queue for each node.
Outs(n) == {out \in [Node -> Seq(Kind)] : \A q \in Node : Range(out[q]) \subseteq Carried(n, q)}

\* queues with out appended.
SentTo(n, queues, out, later) ==
  \A a, b \in Node :
    Range(later[a][b]) = Range(queues[a][b]) \cup (IF a = n THEN Range(out[b]) ELSE {})

\* Every message in the queues stays there, but for the one n reads from m.
KeptBut(m, n) ==
  \A a, b \in Node :
    Range(net[a][b]) \subseteq
      Range(net'[a][b]) \cup (IF a = m /\ b = n THEN {Head(net[m][n])} ELSE {})

Kept == \A a, b \in Node : Range(net[a][b]) \subseteq Range(net'[a][b])

\* What a node q is told by a broadcast of kind.
Told(kind, to, q) == IF q \in to THEN {kind} ELSE {}

(* What is sent to the nodes of a set is there for each of them, and for no     *)
(* other node.                                                                  *)
LEMMA CopiesEffect ==
  ASSUME NEW kind \in Kind, NEW to, NEW q \in Node
  PROVE  /\ Copies(kind, to)[q] \in Seq(Kind)
         /\ Range(Copies(kind, to)[q]) = Told(kind, to, q)
<1>1. Copies(kind, to)[q] = IF q \in to THEN <<kind>> ELSE <<>>
  BY DEF Copies
<1>2. CASE q \in to
  <2>1. Copies(kind, to)[q] = <<kind>>
    BY <1>1, <1>2
  <2>2. <<kind>> \in Seq(Kind) /\ Range(<<kind>>) = {kind}
    BY RangeSingle
  <2>3. QED
    BY <1>2, <2>1, <2>2 DEF Told
<1>3. CASE q \notin to
  <2>1. Copies(kind, to)[q] = <<>>
    BY <1>1, <1>3
  <2>2. <<>> \in Seq(Kind) /\ Range(<<>>) = {}
    BY RangeEmpty
  <2>3. QED
    BY <1>3, <2>1, <2>2 DEF Told
<1>4. QED
  BY <1>2, <1>3

Both(k1, t1, k2, t2) == [q \in Node |-> Copies(k1, t1)[q] \o Copies(k2, t2)[q]]

(* Two broadcasts in one step: each node is sent what either says.              *)
LEMMA TwoCopies ==
  ASSUME NEW k1 \in Kind, NEW t1, NEW k2 \in Kind, NEW t2
  PROVE  /\ Both(k1, t1, k2, t2) \in [Node -> Seq(Kind)]
         /\ \A q \in Node :
              Range(Both(k1, t1, k2, t2)[q])
                = Told(k1, t1, q) \cup Told(k2, t2, q)
<1>1. \A q \in Node : Copies(k1, t1)[q] \in Seq(Kind) /\ Copies(k2, t2)[q] \in Seq(Kind)
  BY CopiesEffect
<1>2. \A q \in Node : Copies(k1, t1)[q] \o Copies(k2, t2)[q] \in Seq(Kind)
  BY <1>1
<1>3. ASSUME NEW q \in Node
      PROVE  Range(Copies(k1, t1)[q] \o Copies(k2, t2)[q])
               = Told(k1, t1, q) \cup Told(k2, t2, q)
  <2>1. /\ Range(Copies(k1, t1)[q]) = Told(k1, t1, q)
        /\ Range(Copies(k2, t2)[q]) = Told(k2, t2, q)
    BY CopiesEffect
  <2>2. Range(Copies(k1, t1)[q] \o Copies(k2, t2)[q])
          = Range(Copies(k1, t1)[q]) \cup Range(Copies(k2, t2)[q])
    BY <1>1, RangeAppended
  <2>3. QED
    BY <2>1, <2>2
<1>4. QED
  BY <1>2, <1>3 DEF Both

(* Sending makes queues longer and nothing else, and what goes the right way    *)
(* keeps them directed.                                                         *)
LEMMA SendsEffect ==
  ASSUME NEW n \in Node, NEW queues \in Queues,
         NEW out \in Outs(n), Sends(n, queues, out)
  PROVE  net' \in Queues /\ SentTo(n, queues, out, net')
<1> /\ out \in [Node -> Seq(Kind)]
    /\ \A q \in Node : Range(out[q]) \subseteq Carried(n, q)
  BY DEF Outs
<1>1. \A a, b \in Node : net'[a][b] = IF a = n THEN queues[n][b] \o out[b] ELSE queues[a][b]
  BY DEF Sends, Queues
<1>2. \A a, b \in Node : queues[a][b] \in Seq(Kind) /\ out[b] \in Seq(Kind)
  BY DEF Queues
<1>3. net' \in [Node -> [Node -> Seq(Kind)]]
  <2>1. [m \in Node |-> queues[n][m] \o out[m]] \in [Node -> Seq(Kind)]
    BY <1>2
  <2>2. QED
    BY <2>1 DEF Sends, Queues
<1>4. ASSUME NEW a \in Node, NEW b \in Node
      PROVE  net'[a][b] \in Seq(Carried(a, b))
  <2>1. queues[a][b] \in Seq(Carried(a, b))
    BY DEF Queues
  <2>2. out[b] \in Seq(Carried(n, b))
    BY <1>2, RangeSeq
  <2>3. CASE a = n
    <3>1. queues[n][b] \o out[b] \in Seq(Carried(n, b))
      BY <2>1, <2>2, <2>3
    <3>2. QED
      BY <1>1, <2>3, <3>1
  <2>4. CASE a # n
    BY <1>1, <2>1, <2>4
  <2>5. QED
    BY <2>3, <2>4
<1>5. ASSUME NEW a \in Node, NEW b \in Node
      PROVE  Range(net'[a][b]) = Range(queues[a][b]) \cup (IF a = n THEN Range(out[b]) ELSE {})
  <2>1. CASE a = n
    BY <1>1, <1>2, <2>1, RangeAppended
  <2>2. CASE a # n
    BY <1>1, <2>2
  <2>3. QED
    BY <2>1, <2>2
<1>6. QED
  BY <1>3, <1>4, <1>5 DEF Queues, SentTo

(* Reading takes one message, which goes the right way, from one queue.         *)
LEMMA ReceivedEffect ==
  ASSUME TypeInv, NEW n \in Node, NEW m \in Node, net[m][n] # <<>>
  PROVE  /\ Received(m, n) \in Queues
         /\ Head(net[m][n]) \in Carried(m, n)
         /\ \A a, b \in Node :
              Range(net[a][b]) \subseteq
                Range(Received(m, n)[a][b])
                  \cup (IF a = m /\ b = n THEN {Head(net[m][n])} ELSE {})
<1>1. net \in Queues /\ net[m][n] \in Seq(Kind) /\ net[m][n] \in Seq(Carried(m, n))
  BY DEF TypeInv, MpiTypeOK, Queues
<1>2. \A a, b \in Node :
        Received(m, n)[a][b] = IF a = m /\ b = n THEN Tail(net[m][n]) ELSE net[a][b]
  BY <1>1 DEF Received, Queues
<1>3. /\ Tail(net[m][n]) \in Seq(Kind) /\ Tail(net[m][n]) \in Seq(Carried(m, n))
      /\ Head(net[m][n]) \in Carried(m, n)
      /\ Range(net[m][n]) = {Head(net[m][n])} \cup Range(Tail(net[m][n]))
  BY <1>1, RangeRead
<1>4. Received(m, n) \in [Node -> [Node -> Seq(Kind)]]
  <2>1. [net[m] EXCEPT ![n] = Tail(net[m][n])] \in [Node -> Seq(Kind)]
    BY <1>1, <1>3 DEF Queues
  <2>2. Received(m, n) = [net EXCEPT ![m] = [net[m] EXCEPT ![n] = Tail(net[m][n])]]
    BY <1>1 DEF Received, Queues
  <2>3. QED
    BY <1>1, <2>1, <2>2 DEF Queues
<1>5. Received(m, n) \in Queues
  BY <1>1, <1>2, <1>3, <1>4 DEF Queues
<1>6. QED
  BY <1>2, <1>3, <1>4, <1>5

(* Messages go between the ranks their kinds say.                               *)
LEMMA CarriedKinds ==
  ASSUME NEW m \in Node, NEW n \in Node
  PROVE  /\ "ELECTION" \in Carried(m, n) <=> m < n
         /\ "AYA" \in Carried(m, n) <=> m < n
         /\ "ANSWER" \in Carried(m, n) <=> n < m
         /\ "COORD" \in Carried(m, n) <=> n < m
         /\ "IAA" \in Carried(m, n) <=> n < m
BY SizeAssumption DEF Carried, Node
-------------------------------------------------------------------------------
\* What each handler does to the queues

(* An ELECTION read is answered, and passed on by a node that was not asking.   *)
LEMMA ElectionQueues ==
  ASSUME TypeInv, NEW n \in Node, NEW m \in Node, RecvElection(n, m)
  PROVE  /\ net' \in Queues /\ KeptBut(m, n)
         /\ ~Lossy => "ANSWER" \in Range(net'[n][m])
         /\ ~Lossy /\ lastSent[n] # "ELECTION" =>
              \A q \in Higher(n) : "ELECTION" \in Range(net'[n][q])
<1> DEFINE on == IF lastSent[n] = "ELECTION" THEN {} ELSE Higher(n)
           down == IF lastSent[n] = "ELECTION" \/ on # {} THEN {} ELSE Lower(n)
<1>1. PICK answer \in Arriving({m}), elect \in Arriving(on), coord \in Arriving(down) :
        Sends(n, Received(m, n),
              [q \in Node |-> Copies("ANSWER", answer)[q] \o Copies("ELECTION", elect)[q]
                                \o Copies("COORD", coord)[q]])
  BY DEF RecvElection
<1> DEFINE two == Both("ANSWER", answer, "ELECTION", elect)
           out == [q \in Node |-> Copies("ANSWER", answer)[q] \o Copies("ELECTION", elect)[q]
                                    \o Copies("COORD", coord)[q]]
<1>2. /\ net[m][n] # <<>> /\ Head(net[m][n]) = "ELECTION"
      /\ m < n
  <2>1. net[m][n] # <<>> /\ Head(net[m][n]) = "ELECTION"
    BY DEF RecvElection, Takes
  <2>2. QED
    BY <2>1, ReceivedEffect, CarriedKinds
<1>3. /\ answer \subseteq {m} /\ elect \subseteq Higher(n) /\ coord \subseteq Lower(n)
      /\ ~Lossy => answer = {m} /\ elect = on
  BY DEF Arriving
<1>4. /\ out \in [Node -> Seq(Kind)]
      /\ \A q \in Node : Range(out[q]) = Told("ANSWER", answer, q)
                                           \cup Told("ELECTION", elect, q)
                                           \cup Told("COORD", coord, q)
  <2>1. /\ two \in [Node -> Seq(Kind)]
        /\ \A q \in Node : Range(two[q]) = Told("ANSWER", answer, q)
                                             \cup Told("ELECTION", elect, q)
    <3>1. "ANSWER" \in Kind /\ "ELECTION" \in Kind
      BY DEF Kind
    <3> HIDE DEF out
    <3>2. QED
      BY <3>1, TwoCopies
  <2>2. \A q \in Node : /\ Copies("COORD", coord)[q] \in Seq(Kind)
                        /\ Range(Copies("COORD", coord)[q])
                             = Told("COORD", coord, q)
    BY CopiesEffect DEF Kind
  <2>3. \A q \in Node : out[q] = two[q] \o Copies("COORD", coord)[q]
    BY DEF Both
  <2>4. out = [q \in Node |-> out[q]]
    OBVIOUS
  <2> HIDE DEF two, out
  <2>5. ASSUME NEW q \in Node
        PROVE  /\ out[q] \in Seq(Kind)
               /\ Range(out[q]) = Range(two[q]) \cup Range(Copies("COORD", coord)[q])
    <3>1. two[q] \in Seq(Kind) /\ Copies("COORD", coord)[q] \in Seq(Kind)
      BY <2>1, <2>2
    <3>2. out[q] = two[q] \o Copies("COORD", coord)[q]
      BY <2>3
    <3>3. QED
      BY <3>1, <3>2, RangeAppended
  <2>6. QED
    BY <2>1, <2>2, <2>4, <2>5
<1>5. ASSUME NEW q \in Node
      PROVE  Range(out[q]) \subseteq Carried(n, q)
  <2>1. /\ q \in answer => "ANSWER" \in Carried(n, q)
        /\ q \in elect => "ELECTION" \in Carried(n, q)
        /\ q \in coord => "COORD" \in Carried(n, q)
    BY <1>2, <1>3, CarriedKinds DEF Higher, Lower
  <2> HIDE DEF out
  <2>2. QED
    BY <1>4, <2>1 DEF Told
<1>6. Sends(n, Received(m, n), out)
  BY <1>1
<1>7. /\ Received(m, n) \in Queues
      /\ \A a, b \in Node :
           Range(net[a][b]) \subseteq
             Range(Received(m, n)[a][b])
               \cup (IF a = m /\ b = n THEN {Head(net[m][n])} ELSE {})
  BY <1>2, ReceivedEffect
<1>8. /\ net' \in Queues
      /\ \A a, b \in Node :
           Range(net'[a][b])
             = Range(Received(m, n)[a][b]) \cup (IF a = n THEN Range(out[b]) ELSE {})
  <2> HIDE DEF out
  <2>1. out \in Outs(n)
    BY <1>4, <1>5 DEF Outs
  <2>2. net' \in Queues /\ SentTo(n, Received(m, n), out, net')
    BY <1>6, <1>7, <2>1, SendsEffect
  <2>3. QED
    BY <2>2 DEF SentTo
<1>9. KeptBut(m, n)
  <2> HIDE DEF out
  <2> SUFFICES ASSUME NEW a \in Node, NEW b \in Node
               PROVE  Range(net[a][b]) \subseteq
                        Range(net'[a][b])
                          \cup (IF a = m /\ b = n THEN {Head(net[m][n])} ELSE {})
    BY DEF KeptBut
  <2>1. QED
    BY <1>7, <1>8
<1>10. ASSUME ~Lossy
       PROVE  "ANSWER" \in Range(net'[n][m])
  <2>1. "ANSWER" \in Range(out[m])
    BY <1>3, <1>4, <1>10 DEF Told
  <2> HIDE DEF out
  <2>2. QED
    BY <1>8, <2>1
<1>11. ASSUME ~Lossy, lastSent[n] # "ELECTION", NEW q \in Higher(n)
       PROVE  "ELECTION" \in Range(net'[n][q])
  <2>1. q \in Node /\ q \in elect
    BY <1>3, <1>11 DEF Higher
  <2>2. "ELECTION" \in Range(out[q])
    BY <1>4, <2>1 DEF Told
  <2> HIDE DEF out
  <2>3. QED
    BY <1>8, <2>1, <2>2
<1>12. QED
  BY <1>8, <1>9, <1>10, <1>11

(* An ANSWER, a COORD, an IAA or a message read by a dead node is only read.    *)
LEMMA ReadQueues ==
  ASSUME TypeInv, NEW n \in Node, NEW m \in Node, net[m][n] # <<>>, net' = Received(m, n)
  PROVE  net' \in Queues /\ KeptBut(m, n)
BY ReceivedEffect DEF KeptBut

(* An AYA read is answered, or the node dies.                                   *)
LEMMA AyaQueues ==
  ASSUME TypeInv, NEW n \in Node, NEW m \in Node, RecvAya(n, m)
  PROVE  /\ net' \in Queues /\ KeptBut(m, n)
         /\ ~Lossy /\ n \notin dead' => "IAA" \in Range(net'[n][m])
<1>1. /\ net[m][n] # <<>> /\ Head(net[m][n]) = "AYA"
      /\ m < n
  <2>1. net[m][n] # <<>> /\ Head(net[m][n]) = "AYA"
    BY DEF RecvAya, Takes
  <2>2. QED
    BY <2>1, ReceivedEffect, CarriedKinds
<1>2. CASE net' = Received(m, n) /\ n \in dead'
  BY <1>1, <1>2, ReadQueues
<1>3. CASE \E iaa \in Arriving({m}) : Sends(n, Received(m, n), Copies("IAA", iaa))
  <2>1. PICK iaa \in Arriving({m}) : Sends(n, Received(m, n), Copies("IAA", iaa))
    BY <1>3
  <2>2. iaa \subseteq {m} /\ (~Lossy => iaa = {m})
    BY DEF Arriving
  <2>3. Copies("IAA", iaa) \in [Node -> Seq(Kind)]
    <3>1. \A q \in Node : Copies("IAA", iaa)[q] \in Seq(Kind)
      BY CopiesEffect DEF Kind
    <3>2. QED
      BY <3>1 DEF Copies
  <2>4. \A q \in Node : Range(Copies("IAA", iaa)[q]) = Told("IAA", iaa, q)
    BY CopiesEffect DEF Kind
  <2>5. \A q \in Node : Range(Copies("IAA", iaa)[q]) \subseteq Carried(n, q)
    BY <1>1, <2>2, <2>4, CarriedKinds DEF Told
  <2>6. /\ Received(m, n) \in Queues
        /\ \A a, b \in Node :
             Range(net[a][b]) \subseteq
               Range(Received(m, n)[a][b])
                 \cup (IF a = m /\ b = n THEN {Head(net[m][n])} ELSE {})
    BY <1>1, ReceivedEffect
  <2>7. /\ net' \in Queues
        /\ \A a, b \in Node :
             Range(net'[a][b]) = Range(Received(m, n)[a][b])
                                   \cup (IF a = n THEN Range(Copies("IAA", iaa)[b]) ELSE {})
    <3>1. Copies("IAA", iaa) \in Outs(n)
      BY <2>3, <2>5 DEF Outs
    <3>2. net' \in Queues /\ SentTo(n, Received(m, n), Copies("IAA", iaa), net')
      BY <2>1, <2>6, <3>1, SendsEffect
    <3>3. QED
      BY <3>2 DEF SentTo
  <2>8. KeptBut(m, n)
    BY <2>6, <2>7 DEF KeptBut
  <2>9. ~Lossy => "IAA" \in Range(net'[n][m])
    BY <2>2, <2>4, <2>7 DEF Told
  <2>10. QED
    BY <2>7, <2>8, <2>9
<1>4. QED
  BY <1>2, <1>3 DEF RecvAya
(* A ping goes up to a coordinator.                                             *)
LEMMA PingsUp ==
  ASSUME MpiTypeOK, NEW n \in Node, NEW ping \in Pings(n)
  PROVE  /\ ping = {} \/ (coordNode[n] # 0 /\ ping = {coordNode[n]})
         /\ ping \subseteq Higher(n)
<1>1. ping = {} \/ (coordNode[n] # 0 /\ ping = {coordNode[n]})
  BY DEF Pings
<1>2. ASSUME coordNode[n] # 0
      PROVE  coordNode[n] \in Higher(n)
  <2>1. coordNode[n] \in 0..Size - 1 /\ coordNode[n] > n
    BY <1>2 DEF MpiTypeOK
  <2>2. QED
    BY <1>2, <2>1, SizeAssumption DEF Higher, Node
<1>3. QED
  BY <1>1, <1>2

(* A timeout that starts an election or claims tells everybody it means to tell. *)
LEMMA BroadcastQueues ==
  ASSUME TypeInv, NEW n \in Node, NEW ping \in Pings(n), NEW kind, NEW to,
         \/ kind = "ELECTION" /\ to = Higher(n)
         \/ kind = "COORD" /\ to = Lower(n),
         Broadcasts(n, ping, kind, to)
  PROVE  /\ net' \in Queues /\ Kept
         /\ ~Lossy => \A q \in to : kind \in Range(net'[n][q])
<1>1. PICK aya \in Arriving(ping), arriving \in Arriving(to) :
        Sends(n, net, [q \in Node |-> Copies("AYA", aya)[q] \o Copies(kind, arriving)[q]])
  BY DEF Broadcasts
<1> DEFINE out == Both("AYA", aya, kind, arriving)
<1>2. /\ aya \subseteq ping /\ ping \subseteq Higher(n)
      /\ arriving \subseteq to /\ (~Lossy => arriving = to)
  BY PingsUp DEF Arriving, TypeInv
<1>3. "AYA" \in Kind /\ kind \in Kind
  BY DEF Kind
<1>4. /\ out \in [Node -> Seq(Kind)]
      /\ \A q \in Node : Range(out[q]) = Told("AYA", aya, q) \cup Told(kind, arriving, q)
  <2>1. out \in [Node -> Seq(Kind)]
    BY <1>3, TwoCopies
  <2>2. ASSUME NEW q \in Node
        PROVE  Range(out[q]) = Told("AYA", aya, q) \cup Told(kind, arriving, q)
    BY ONLY <1>3, <2>2, TwoCopies
  <2>3. QED
    BY <2>1, <2>2
<1>5. ASSUME NEW q \in Node
      PROVE  Range(out[q]) \subseteq Carried(n, q)
  <2>1. /\ q \in aya => "AYA" \in Carried(n, q)
        /\ q \in arriving => kind \in Carried(n, q)
    BY <1>2, CarriedKinds DEF Higher, Lower
  <2> HIDE DEF out
  <2>2. QED
    BY <1>4, <2>1 DEF Told
<1>6. Sends(n, net, out)
  BY <1>1 DEF Both
<1> HIDE DEF out
<1>7. out \in Outs(n)
  BY <1>4, <1>5 DEF Outs
<1>8. net' \in Queues /\ SentTo(n, net, out, net')
  BY <1>6, <1>7, SendsEffect DEF TypeInv
<1>9. Kept
  BY <1>8 DEF Kept, SentTo
<1>10. ASSUME ~Lossy, NEW q \in to
       PROVE  kind \in Range(net'[n][q])
  <2>1. q \in Node /\ q \in arriving
    BY <1>2, <1>10 DEF Higher, Lower
  <2>2. QED
    BY <1>4, <1>8, <2>1 DEF SentTo, Told
<1>11. QED
  BY <1>8, <1>9, <1>10

(* A tick that is not a timeout sends the ping and nothing else.                *)
LEMMA PassesQueues ==
  ASSUME TypeInv, NEW n \in Node, NEW ping \in Pings(n), TickPasses(n, ping)
  PROVE  /\ net' \in Queues /\ Kept
         /\ ~Lossy => \A q \in ping : "AYA" \in Range(net'[n][q])
<1>1. PICK aya \in Arriving(ping) : Sends(n, net, Copies("AYA", aya))
  BY DEF TickPasses
<1>2. aya \subseteq ping /\ ping \subseteq Higher(n) /\ (~Lossy => aya = ping)
  BY PingsUp DEF Arriving, TypeInv
<1>3. \A q \in Node : /\ Copies("AYA", aya)[q] \in Seq(Kind)
                      /\ Range(Copies("AYA", aya)[q]) = Told("AYA", aya, q)
  BY CopiesEffect DEF Kind
<1>4. \A q \in Node : Range(Copies("AYA", aya)[q]) \subseteq Carried(n, q)
  BY <1>2, <1>3, CarriedKinds DEF Told, Higher
<1>5. Copies("AYA", aya) \in Outs(n)
  <2>1. Copies("AYA", aya) \in [Node -> Seq(Kind)]
    BY <1>3 DEF Copies
  <2>2. QED
    BY <1>4, <2>1 DEF Outs
<1>6. net' \in Queues /\ SentTo(n, net, Copies("AYA", aya), net')
  BY <1>1, <1>5, SendsEffect DEF TypeInv
<1>7. Kept
  BY <1>6 DEF Kept, SentTo
<1>8. ASSUME ~Lossy, NEW q \in ping
      PROVE  "AYA" \in Range(net'[n][q])
  <2>1. q \in Node /\ q \in aya
    BY <1>2, <1>8 DEF Higher
  <2>2. QED
    BY <1>3, <1>6, <2>1 DEF SentTo, Told
<1>9. QED
  BY <1>6, <1>7, <1>8

-------------------------------------------------------------------------------
\* Types

(* Whatever is read, the state keeps its form, and a coordinator is above the   *)
(* node that follows it.                                                        *)
LEMMA TypeReceive ==
  ASSUME TypeInv, NEW n \in Node, NEW m \in Node, Receive(n, m)
  PROVE  TypeInv'
<1> USE DEF TypeInv
<1>0. Queues \subseteq [Node -> [Node -> Seq(Kind)]]
  BY DEF Queues
<1>1. CASE RecvElection(n, m)
  <2>1. net' \in Queues
    BY <1>1, ElectionQueues
  <2>2. asked' \in [Node -> SUBSET Node]
    BY <1>1 DEF RecvElection, Higher, MpiTypeOK
  <2>3. /\ lastSent' \in [Node -> (Kind \ {"ANSWER"}) \cup {"none"}]
        /\ lastReceived' \in [Node -> Kind \cup {"none"}]
    BY <1>1 DEF RecvElection, MpiTypeOK, Kind
  <2>4. tick' \in [Node -> 0..Period]
    BY <1>1, SizeAssumption, TimeAssumption DEF RecvElection, Takes, MpiTypeOK, Period
  <2>5. UNCHANGED <<pending, sincePing, coordNode, dead, deadTime, deaths, unanswered>>
    BY <1>1 DEF RecvElection, Takes
  <2>6. QED
    BY <1>0, <2>1, <2>2, <2>3, <2>4, <2>5 DEF MpiTypeOK
<1>2. ASSUME Takes(n, m, "ANSWER") \/ Takes(n, m, "COORD") \/ Takes(n, m, "IAA"),
             net' = Received(m, n)
      PROVE  net' \in Queues /\ tick' \in [Node -> 0..Period] /\ pending' = pending
  <2>1. net[m][n] # <<>> /\ tick' = [tick EXCEPT ![n] = 0] /\ pending' = pending
    BY <1>2 DEF Takes
  <2>2. 0 \in 0..Period
    BY SizeAssumption, TimeAssumption DEF Period
  <2>3. QED
    BY <1>2, <2>1, <2>2, ReadQueues DEF MpiTypeOK
<1>3. CASE RecvAnswer(n, m)
  <2>1. net' \in Queues /\ tick' \in [Node -> 0..Period] /\ pending' = pending
    BY <1>2, <1>3 DEF RecvAnswer
  <2>2. QED
    BY <1>0, <1>3, <2>1 DEF RecvAnswer, MpiTypeOK, Kind
<1>4. CASE RecvCoord(n, m)
  <2>1. net' \in Queues /\ tick' \in [Node -> 0..Period] /\ pending' = pending
    BY <1>2, <1>4 DEF RecvCoord
  <2>2. m > n
    BY <1>4, ReceivedEffect, CarriedKinds DEF RecvCoord, Takes
  <2>3. m \in 0..Size - 1
    BY SizeAssumption DEF Node
  <2>4. /\ coordNode' \in [Node -> 0..Size - 1]
        /\ \A q \in Node : coordNode'[q] # 0 => coordNode'[q] > q
    BY <1>4, <2>2, <2>3 DEF RecvCoord, MpiTypeOK
  <2>5. QED
    BY <1>0, <1>4, <2>1, <2>4 DEF RecvCoord, MpiTypeOK, Kind
<1>5. CASE RecvAya(n, m)
  <2>1. net' \in Queues
    BY <1>5, AyaQueues
  <2>2. tick' \in [Node -> 0..Period] /\ pending' = pending
    BY <1>5, SizeAssumption, TimeAssumption DEF RecvAya, Takes, MpiTypeOK, Period
  <2>3. /\ lastSent' \in [Node -> (Kind \ {"ANSWER"}) \cup {"none"}]
        /\ lastReceived' \in [Node -> Kind \cup {"none"}]
        /\ UNCHANGED <<sincePing, coordNode>>
    BY <1>5 DEF RecvAya, MpiTypeOK, Kind
  <2>4. /\ dead' \subseteq Node /\ unanswered' \subseteq Node
        /\ asked' \in [Node -> SUBSET Node]
    BY <1>5 DEF RecvAya, MpiTypeOK
  <2>5. deadTime' \in [Node -> 0..ReturnToLife]
    <3>1. deadTime' = deadTime \/ deadTime' = [deadTime EXCEPT ![n] = 0]
      BY <1>5 DEF RecvAya
    <3>2. deadTime \in [Node -> 0..ReturnToLife] /\ 0 \in 0..ReturnToLife
      BY TimeAssumption DEF MpiTypeOK
    <3>3. QED
      BY <3>1, <3>2
  <2>6. deaths' \in 0..MaxDeaths
    <3>1. deaths' = deaths \/ (deaths < MaxDeaths /\ deaths' = deaths + 1)
      BY <1>5 DEF RecvAya
    <3>2. QED
      BY <3>1, FaultAssumption DEF MpiTypeOK
  <2>7. QED
    BY <1>0, <2>1, <2>2, <2>3, <2>4, <2>5, <2>6 DEF MpiTypeOK
<1>6. CASE RecvIaa(n, m)
  <2>1. net' \in Queues /\ tick' \in [Node -> 0..Period] /\ pending' = pending
    BY <1>2, <1>6 DEF RecvIaa
  <2>2. QED
    BY <1>0, <1>6, <2>1 DEF RecvIaa, MpiTypeOK, Kind
<1>7. QED
  BY <1>1, <1>3, <1>4, <1>5, <1>6 DEF Receive
(* One tick later, and the time since the last ping, are in range.              *)
LEMMA TickTypes ==
  ASSUME MpiTypeOK, NEW n \in Node, NEW ping \in Pings(n), TakesTick(n, ping)
  PROVE  /\ Ticked(n) \in 1..Period
         /\ sincePing' \in [Node -> 0..MaxRate - 1]
         /\ pending' \subseteq Node
         /\ 0 \in 0..Period
<1>1. Period \in Nat \ {0}
  BY SizeAssumption, TimeAssumption DEF Period
<1>2. tick[n] \in 0..Period /\ sincePing[n] \in 0..MaxRate - 1 /\ MaxRate \in Nat \ {0}
  BY TimeAssumption DEF MpiTypeOK
<1>3. Ticked(n) \in 1..Period
  BY <1>1, <1>2 DEF Ticked
<1>4. sincePing' \in [Node -> 0..MaxRate - 1]
  <2>1. CASE ping # {} \/ coordNode[n] = 0
    <3>1. sincePing' = [sincePing EXCEPT ![n] = 0]
      BY <2>1 DEF TakesTick
    <3>2. 0 \in 0..MaxRate - 1
      BY <1>2
    <3>3. QED
      BY <3>1, <3>2 DEF MpiTypeOK
  <2>2. CASE ping = {} /\ coordNode[n] # 0
    <3>1. sincePing[n] + 1 # MaxRate
      BY <2>2 DEF Pings
    <3>2. sincePing[n] + 1 \in 0..MaxRate - 1
      BY <1>2, <3>1
    <3>3. sincePing' = [sincePing EXCEPT ![n] = sincePing[n] + 1]
      BY <2>2 DEF TakesTick
    <3>4. QED
      BY <3>2, <3>3 DEF MpiTypeOK
  <2>3. QED
    BY <2>1, <2>2
<1>5. QED
  BY <1>1, <1>3, <1>4 DEF TakesTick, MpiTypeOK

(* Whatever a tick makes a node do, the state keeps its form.                   *)
LEMMA TypeTick ==
  ASSUME TypeInv, NEW n \in Node, NEW ping \in Pings(n),
         \/ TickAsks(n, ping) \/ TickClaims(n, ping)
         \/ TickMourns(n, ping) \/ TickPasses(n, ping)
  PROVE  TypeInv'
<1>0. MpiTypeOK /\ Queues \subseteq [Node -> [Node -> Seq(Kind)]]
  BY DEF TypeInv, Queues
<1>1. TakesTick(n, ping)
  BY DEF TickAsks, TickClaims, TickMourns, TickPasses
<1>2. /\ Ticked(n) \in 1..Period
      /\ sincePing' \in [Node -> 0..MaxRate - 1]
      /\ pending' \subseteq Node
      /\ 0 \in 0..Period
  BY <1>0, <1>1, TickTypes
<1>3. Period \in Nat
  BY SizeAssumption, TimeAssumption DEF Period
<1>4. UNCHANGED <<dead, deadTime, deaths, unanswered>>
  BY <1>1 DEF TakesTick
<1>5. Sent(n, ping) \in (Kind \ {"ANSWER"}) \cup {"none"}
  BY <1>0 DEF Sent, MpiTypeOK, Kind
<1>6. /\ lastReceived' \in [Node -> Kind \cup {"none"}]
      /\ asked' \in [Node -> SUBSET Node]
  <2>1. /\ lastReceived \in [Node -> Kind \cup {"none"}]
        /\ asked \in [Node -> SUBSET Node]
        /\ Higher(n) \ dead \in SUBSET Node
    BY <1>0 DEF MpiTypeOK, Higher
  <2>2. /\ lastReceived' = lastReceived \/ \E kind \in Kind \cup {"none"} :
                                            lastReceived' = [lastReceived EXCEPT ![n] = kind]
        /\ asked' = asked \/ asked' = [asked EXCEPT ![n] = Higher(n) \ dead]
    <3>1. CASE TickAsks(n, ping)
      BY <2>1, <3>1 DEF TickAsks
    <3>2. CASE TickClaims(n, ping) \/ TickMourns(n, ping) \/ TickPasses(n, ping)
      BY <3>2 DEF TickClaims, TickMourns, TickPasses
    <3>3. QED
      BY <3>1, <3>2
  <2> HIDE DEF Higher
  <2>3. QED
    BY <2>1, <2>2
<1>7. ASSUME NEW kind, NEW to,
             \/ kind = "ELECTION" /\ to = Higher(n)
             \/ kind = "COORD" /\ to = Lower(n),
             Broadcasts(n, ping, kind, to)
      PROVE  TypeInv'
  <2>1. net' \in Queues
    BY <1>7, BroadcastQueues
  <2>2. /\ tick' \in [Node -> 0..Period]
        /\ coordNode' \in [Node -> 0..Size - 1]
        /\ \A q \in Node : coordNode'[q] # 0 => coordNode'[q] > q
    BY <1>0, <1>2, <1>7, SizeAssumption DEF Broadcasts, MpiTypeOK
  <2>3. lastSent' \in [Node -> (Kind \ {"ANSWER"}) \cup {"none"}]
    <3>1. kind \in (Kind \ {"ANSWER"}) \cup {"none"}
      BY <1>7 DEF Kind
    <3>2. QED
      BY <1>0, <1>5, <1>7, <3>1 DEF Broadcasts, MpiTypeOK
  <2>4. QED
    BY <1>0, <1>2, <1>4, <1>6, <2>1, <2>2, <2>3 DEF TypeInv, MpiTypeOK
<1>8. CASE TickAsks(n, ping) \/ TickMourns(n, ping)
  BY <1>7, <1>8 DEF TickAsks, TickMourns
<1>9. CASE TickClaims(n, ping)
  BY <1>7, <1>9 DEF TickClaims
<1>10. CASE TickPasses(n, ping)
  <2>1. net' \in Queues
    BY <1>10, PassesQueues
  <2>2. tick' \in [Node -> 0..Period]
    <3>1. Ticked(n) \in 0..Period
      BY <1>2, <1>3
    <3>2. QED
      BY <1>0, <1>10, <3>1 DEF TickPasses, MpiTypeOK
  <2>3. /\ lastSent' \in [Node -> (Kind \ {"ANSWER"}) \cup {"none"}]
        /\ UNCHANGED coordNode
    BY <1>0, <1>5, <1>10 DEF TickPasses, MpiTypeOK
  <2>4. QED
    BY <1>0, <1>2, <1>4, <1>6, <2>1, <2>2, <2>3 DEF TypeInv, MpiTypeOK
<1>11. QED
  BY <1>8, <1>9, <1>10

(* A dead node only reads on, and counts the seconds until it may return.       *)
LEMMA TypeDead ==
  ASSUME TypeInv, NEW n \in Node, StaysDead(n) \/ ReturnsToLife(n)
  PROVE  TypeInv'
<1>0. MpiTypeOK /\ Queues \subseteq [Node -> [Node -> Seq(Kind)]]
  BY DEF TypeInv, Queues
<1>1. Ignores(n)
  BY DEF StaysDead, ReturnsToLife
<1>2. /\ net' \in Queues /\ pending' \subseteq Node
      /\ deadTime' \in [Node -> 0..ReturnToLife] /\ unanswered' \subseteq Node
  <2>1. CASE /\ pending' = pending \ {n}
             /\ deadTime' = [deadTime EXCEPT ![n] = IF @ = ReturnToLife THEN @ ELSE @ + 1]
             /\ UNCHANGED <<net, unanswered>>
    <3>1. deadTime[n] \in 0..ReturnToLife /\ ReturnToLife \in Nat
      BY <1>0, TimeAssumption DEF MpiTypeOK
    <3>2. (IF deadTime[n] = ReturnToLife THEN deadTime[n] ELSE deadTime[n] + 1)
            \in 0..ReturnToLife
      BY <3>1
    <3>3. deadTime' \in [Node -> 0..ReturnToLife]
      BY <1>0, <2>1, <3>2 DEF MpiTypeOK
    <3>4. QED
      BY <1>0, <2>1, <3>3 DEF MpiTypeOK, TypeInv
  <2>2. CASE /\ \E m \in Node :
                  /\ net[m][n] # <<>>
                  /\ net' = Received(m, n)
                  /\ unanswered' = IF Head(net[m][n]) = "AYA" THEN unanswered \cup {m}
                                                              ELSE unanswered
             /\ UNCHANGED <<deadTime, pending>>
    BY <1>0, <2>2, ReadQueues DEF MpiTypeOK
  <2>3. QED
    BY <1>1, <2>1, <2>2 DEF Ignores
<1>3. /\ lastSent' \in [Node -> (Kind \ {"ANSWER"}) \cup {"none"}]
      /\ lastReceived' \in [Node -> Kind \cup {"none"}]
      /\ dead' \subseteq Node
      /\ UNCHANGED <<tick, sincePing, coordNode, deaths, asked>>
  BY <1>0 DEF StaysDead, ReturnsToLife, MpiTypeOK
<1>4. QED
  BY <1>0, <1>2, <1>3 DEF TypeInv, MpiTypeOK

(* The queues start empty and every node at rest.                              *)
LEMMA TypeStart == Init => TypeInv
<1> SUFFICES ASSUME Init PROVE TypeInv
  OBVIOUS
<1>1. MpiTypeOK
  <2>1. /\ 0 \in 0..Period /\ 0 \in 0..MaxRate - 1 /\ 0 \in 0..ReturnToLife
        /\ 0 \in 0..MaxDeaths /\ 0 \in 0..Size - 1
    BY SizeAssumption, TimeAssumption, FaultAssumption DEF Period
  <2>2. net \in [Node -> [Node -> Seq(Kind)]]
    <3>1. <<"ELECTION">> \in Seq(Kind) /\ <<>> \in Seq(Kind)
      BY DEF Kind
    <3>2. QED
      BY <3>1 DEF Init
  <2>3. /\ lastSent \in [Node -> (Kind \ {"ANSWER"}) \cup {"none"}]
        /\ lastReceived \in [Node -> Kind \cup {"none"}]
    BY DEF Init, Kind
  <2>4. asked \in [Node -> SUBSET Node]
    BY DEF Init, Higher
  <2>5. QED
    BY <2>1, <2>2, <2>3, <2>4 DEF Init, MpiTypeOK
<1>2. ASSUME NEW m \in Node, NEW n \in Node
      PROVE  net[m][n] \in Seq(Carried(m, n))
  <2>1. CASE m = 1 /\ n > 1
    <3>1. net[m][n] = <<"ELECTION">>
      BY <2>1 DEF Init
    <3>2. "ELECTION" \in Carried(m, n)
      BY <2>1, CarriedKinds
    <3>3. QED
      BY <3>1, <3>2
  <2>2. CASE ~(m = 1 /\ n > 1)
    <3>1. net[m][n] = <<>>
      BY <2>2 DEF Init
    <3>2. QED
      BY <3>1
  <2>3. QED
    BY <2>1, <2>2
<1>3. QED
  BY <1>1, <1>2 DEF TypeInv, Queues, MpiTypeOK

(* Every tick, message, death and return keeps types and directions.           *)
LEMMA TypeStep == TypeInv /\ [Next]_vars => TypeInv'
<1> SUFFICES ASSUME TypeInv, [Next]_vars PROVE TypeInv'
  OBVIOUS
<1>1. CASE Second
  BY <1>1 DEF Second, TypeInv, MpiTypeOK
<1>2. ASSUME NEW n \in Node, NEW m \in Node, Receive(n, m) PROVE TypeInv'
  BY <1>2, TypeReceive
<1>3. ASSUME NEW n \in Node, Tick(n) PROVE TypeInv'
  BY <1>3, TypeTick DEF Tick
<1>4. ASSUME NEW n \in Node, StaysDead(n) \/ ReturnsToLife(n) PROVE TypeInv'
  BY <1>4, TypeDead
<1>5. CASE UNCHANGED vars
  BY <1>5 DEF vars, TypeInv, MpiTypeOK
<1>6. QED
  BY <1>1, <1>2, <1>3, <1>4, <1>5 DEF Next

(* The types and directions hold in every state.                               *)
LEMMA TypeInvariant == Spec => []TypeInv
BY TypeStart, TypeStep, PTL DEF Spec

(* Ticks, queues and roles keep their form whatever is lost or pretends to be   *)
(* dead; the coordinator of a node always is a higher node or nobody, because   *)
(* claims only travel downwards (bully.c:173-470).                              *)
THEOREM MpiTypes == Spec => []MpiTypeOK
<1>1. TypeInv => MpiTypeOK
  BY DEF TypeInv
<1>2. QED
  BY <1>1, TypeInvariant, PTL
-------------------------------------------------------------------------------
\* Elections.  From here on nothing is lost: with a send cancelled by MPI_Test an
\* answer may never come.

(* Who reads from whom, and what a reading leaves alone.                        *)
LEMMA Reading ==
  ASSUME TypeInv, NEW n \in Node, NEW m \in Node, Receive(n, m)
  PROVE  /\ n \notin dead /\ net[m][n] # <<>> /\ m # n
         /\ KeptBut(m, n)
         /\ tick' = [tick EXCEPT ![n] = 0] /\ tick'[n] = 0
         /\ UNCHANGED <<pending, sincePing>>
<1>1. /\ n \notin dead /\ net[m][n] # <<>> /\ tick' = [tick EXCEPT ![n] = 0]
      /\ UNCHANGED <<pending, sincePing>>
  BY DEF Receive, RecvElection, RecvAnswer, RecvCoord, RecvAya, RecvIaa, Takes
<1>2. m # n
  <2>1. Head(net[m][n]) \in Carried(m, n)
    BY <1>1, ReceivedEffect
  <2>2. QED
    BY <2>1, SizeAssumption DEF Carried, Node
<1>3. KeptBut(m, n)
  BY <1>1, ElectionQueues, ReadQueues, AyaQueues
     DEF Receive, RecvElection, RecvAnswer, RecvCoord, RecvAya, RecvIaa
<1>4. QED
  BY <1>1, <1>2, <1>3 DEF TypeInv, MpiTypeOK

(* A reading settles what is owed only if it is the ELECTION or the ANSWER that *)
(* is owed.                                                                     *)
LEMMA ReadOwed ==
  ASSUME NEW n \in Node, NEW m \in Node, KeptBut(m, n),
         NEW a \in Node, NEW b \in Node, Owes(b, a),
         ~(a = m /\ b = n /\ Head(net[m][n]) = "ELECTION"),
         ~(a = n /\ b = m /\ Head(net[m][n]) = "ANSWER")
  PROVE  Owes(b, a)'
BY DEF KeptBut, Owes

(* What is owed stays owed while the messages that show it stay.               *)
LEMMA KeptOwed ==
  ASSUME Kept, NEW a \in Node, NEW b \in Node, Owes(b, a)
  PROVE  Owes(b, a)'
BY DEF Kept, Owes

(* The highest node has lower ones to claim over.                               *)
LEMMA TopHasLower ==
  ASSUME NEW n \in Node, Higher(n) = {}
  PROVE  Lower(n) # {}
<1>1. Size \in Nat /\ Size > 2
  BY SizeAssumption
<1>2. 1 \in Node /\ Size - 1 \in Node
  BY <1>1 DEF Node
<1>3. ~(Size - 1 > n)
  BY <1>2 DEF Higher
<1>4. 1 < n
  BY <1>1, <1>3 DEF Node
<1>5. QED
  BY <1>2, <1>4 DEF Lower

(* Whatever is read, nodes in an election are still owed what they wait for.    *)
LEMMA ElectionReceive ==
  ASSUME TypeInv, ElectionInv, ~Lossy, NEW n \in Node, NEW m \in Node, Receive(n, m)
  PROVE  ElectionInv'
<1> USE DEF ElectionInv
<1> MpiTypeOK
  BY DEF TypeInv
<1>1. /\ n \notin dead /\ net[m][n] # <<>> /\ m # n
      /\ KeptBut(m, n)
      /\ tick' = [tick EXCEPT ![n] = 0] /\ tick'[n] = 0
      /\ UNCHANGED <<pending, sincePing>>
  BY Reading
\* n itself is in an election after the step.
<1>2. ASSUME lastSent'[n] = "ELECTION", n \notin dead'
      PROVE  \A b \in asked'[n] : Owes(b, n)'
  <2>1. CASE RecvElection(n, m) /\ lastSent[n] # "ELECTION"
    <3>1. Higher(n) # {}
      BY <1>2, <2>1, TopHasLower DEF RecvElection, MpiTypeOK
    <3>2. asked'[n] = Higher(n) \ dead
      BY <2>1, <3>1 DEF RecvElection, MpiTypeOK
    <3>3. \A q \in Higher(n) : "ELECTION" \in Range(net'[n][q])
      BY <2>1, ElectionQueues
    <3>4. QED
      BY <3>2, <3>3 DEF Owes
  <2>2. CASE RecvElection(n, m) /\ lastSent[n] = "ELECTION"
    <3>1. asked' = asked /\ Head(net[m][n]) = "ELECTION"
      BY <2>2 DEF RecvElection, Takes
    <3>2. \A b \in asked[n] : b \in Node /\ Owes(b, n)
      BY <1>1, <2>2 DEF ElectionOpen, MpiTypeOK
    <3>3. QED
      BY <1>1, <3>1, <3>2, ReadOwed
  <2>3. CASE RecvCoord(n, m) \/ RecvIaa(n, m)
    <3>1. asked' = asked /\ lastSent' = lastSent /\ Head(net[m][n]) \in {"COORD", "IAA"}
      BY <2>3 DEF RecvCoord, RecvIaa, Takes
    <3>2. \A b \in asked[n] : b \in Node /\ Owes(b, n)
      BY <1>1, <1>2, <3>1 DEF ElectionOpen, MpiTypeOK
    <3>3. QED
      BY <1>1, <3>1, <3>2, ReadOwed
  <2>4. ~RecvAnswer(n, m) /\ ~RecvAya(n, m)
    BY <1>2 DEF RecvAnswer, RecvAya, MpiTypeOK
  <2>5. QED
    BY <2>1, <2>2, <2>3, <2>4 DEF Receive
\* For another node, what is read is answered.
<1>3. ASSUME NEW a \in Node, a # n
      PROVE  /\ lastSent'[a] = lastSent[a] /\ lastReceived'[a] = lastReceived[a]
             /\ tick'[a] = tick[a] /\ asked'[a] \subseteq asked[a]
  <2>1. lastSent'[a] = lastSent[a] /\ lastReceived'[a] = lastReceived[a]
    BY <1>3 DEF Receive, RecvElection, RecvAnswer, RecvCoord, RecvAya, RecvIaa, MpiTypeOK
  <2>2. asked'[a] \subseteq asked[a]
    <3>1. asked \in [Node -> SUBSET Node]
      BY DEF MpiTypeOK
    <3>2. CASE RecvElection(n, m)
      BY <1>3, <3>1, <3>2 DEF RecvElection
    <3>3. CASE RecvAya(n, m)
      BY <1>3, <3>1, <3>3 DEF RecvAya
    <3>4. CASE RecvAnswer(n, m) \/ RecvCoord(n, m) \/ RecvIaa(n, m)
      BY <3>4 DEF RecvAnswer, RecvCoord, RecvIaa
    <3>5. QED
      BY <3>2, <3>3, <3>4 DEF Receive
  <2>3. tick'[a] = tick[a]
    BY <1>1, <1>3 DEF MpiTypeOK
  <2>4. QED
    BY <2>1, <2>2, <2>3
<1>4. dead \subseteq dead'
  BY DEF Receive, RecvElection, RecvAnswer, RecvCoord, RecvAya, RecvIaa
<1>5. \A a \in Node : asked'[a] \cap dead' = {}
  <2>1. CASE RecvAya(n, m)
    BY <2>1 DEF RecvAya, ElectionOpen
  <2>2. CASE RecvElection(n, m)
    BY <2>2 DEF RecvElection, ElectionOpen, MpiTypeOK
  <2>3. CASE RecvAnswer(n, m) \/ RecvCoord(n, m) \/ RecvIaa(n, m)
    BY <2>3 DEF RecvAnswer, RecvCoord, RecvIaa, ElectionOpen
  <2>4. QED
    BY <2>1, <2>2, <2>3 DEF Receive
<1>6. ASSUME NEW a \in Node, a # n, a \notin dead', lastSent'[a] = "ELECTION",
             NEW b \in asked'[a]
      PROVE  Owes(b, a)' /\ Fresh(a)'
  <2>1. /\ a \notin dead /\ lastSent[a] = "ELECTION"
        /\ b \in asked[a] /\ b \in Node /\ tick'[a] = tick[a]
    BY <1>3, <1>4, <1>6 DEF MpiTypeOK
  <2>2. Owes(b, a) /\ Fresh(a)
    BY <2>1 DEF ElectionOpen
  <2>3. Fresh(a)'
    BY <1>1, <2>1, <2>2 DEF Fresh
  <2>4. CASE a = m /\ b = n /\ Head(net[m][n]) = "ELECTION"
    <3>1. RecvElection(n, m)
      BY <2>4 DEF Receive, RecvAnswer, RecvCoord, RecvAya, RecvIaa, Takes
    <3>2. "ANSWER" \in Range(net'[n][m])
      BY <3>1, ElectionQueues
    <3>3. QED
      BY <2>3, <2>4, <3>2 DEF Owes
  <2>5. CASE ~(a = m /\ b = n /\ Head(net[m][n]) = "ELECTION")
    BY <1>1, <1>6, <2>1, <2>2, <2>3, <2>5, ReadOwed
  <2>6. QED
    BY <2>4, <2>5
<1>7. ElectionOpen'
  <2>1. Fresh(n)'
    BY <1>1 DEF Fresh
  <2>2. QED
    BY <1>2, <1>5, <1>6, <2>1 DEF ElectionOpen
<1>8. AskedThenActs'
  <2>1. lastSent'[n] = "none" => lastReceived'[n] # "ELECTION"
    <3>1. CASE RecvAnswer(n, m)
      BY <3>1 DEF RecvAnswer, AskedThenActs, MpiTypeOK
    <3>2. CASE RecvElection(n, m)
      BY <3>2 DEF RecvElection, MpiTypeOK
    <3>3. CASE RecvCoord(n, m) \/ RecvIaa(n, m) \/ RecvAya(n, m)
      BY <3>3 DEF RecvCoord, RecvIaa, RecvAya, MpiTypeOK
    <3>4. QED
      BY <3>1, <3>2, <3>3 DEF Receive
  <2>2. QED
    BY <1>3, <2>1 DEF AskedThenActs
<1>9. QED
  BY <1>7, <1>8
(* What a tick does to the others: nothing but to leave them the tick.          *)
LEMMA Ticking ==
  ASSUME TypeInv, ~Lossy, NEW n \in Node, NEW ping \in Pings(n),
         \/ TickAsks(n, ping) \/ TickClaims(n, ping)
         \/ TickMourns(n, ping) \/ TickPasses(n, ping)
  PROVE  /\ Kept /\ TakesTick(n, ping)
         /\ n \in pending \ dead /\ pending' = pending \ {n}
         /\ UNCHANGED <<dead, unanswered>>
         /\ \A a \in Node \ {n} :
              /\ lastSent'[a] = lastSent[a] /\ lastReceived'[a] = lastReceived[a]
              /\ tick'[a] = tick[a] /\ sincePing'[a] = sincePing[a]
              /\ coordNode'[a] = coordNode[a] /\ asked'[a] = asked[a]
<1>1. TakesTick(n, ping)
  BY DEF TickAsks, TickClaims, TickMourns, TickPasses
<1>2. MpiTypeOK
  BY DEF TypeInv
<1>3. Kept
  BY BroadcastQueues, PassesQueues DEF TickAsks, TickClaims, TickMourns
<1>4. ASSUME NEW a \in Node \ {n}
      PROVE  /\ lastSent'[a] = lastSent[a] /\ tick'[a] = tick[a]
             /\ coordNode'[a] = coordNode[a]
  BY <1>2 DEF TickAsks, TickClaims, TickMourns, TickPasses, Broadcasts, MpiTypeOK
<1>5. ASSUME NEW a \in Node \ {n}
      PROVE  lastReceived'[a] = lastReceived[a] /\ asked'[a] = asked[a]
  BY <1>2 DEF TickAsks, TickClaims, TickMourns, TickPasses, MpiTypeOK
<1>6. ASSUME NEW a \in Node \ {n}
      PROVE  sincePing'[a] = sincePing[a]
  BY <1>1, <1>2 DEF TakesTick, MpiTypeOK
<1>7. QED
  BY <1>1, <1>3, <1>4, <1>5, <1>6 DEF TakesTick

(* A tick opens elections that are owed, and leaves open ones in their second.  *)
LEMMA ElectionTick ==
  ASSUME TypeInv, ElectionInv, ~Lossy, NEW n \in Node, NEW ping \in Pings(n),
         \/ TickAsks(n, ping) \/ TickClaims(n, ping)
         \/ TickMourns(n, ping) \/ TickPasses(n, ping)
  PROVE  ElectionInv'
<1> USE DEF ElectionInv
<1>0. MpiTypeOK /\ Period \in Nat \ {0}
  BY SizeAssumption, TimeAssumption DEF TypeInv, Period
<1>1. /\ Kept
      /\ n \in pending \ dead /\ pending' = pending \ {n} /\ dead' = dead
      /\ \A a \in Node \ {n} :
           /\ lastSent'[a] = lastSent[a] /\ lastReceived'[a] = lastReceived[a]
           /\ tick'[a] = tick[a] /\ asked'[a] = asked[a]
  BY Ticking
<1>2. ASSUME NEW a \in Node \ {n}, a \notin dead', lastSent'[a] = "ELECTION"
      PROVE  /\ \A b \in asked'[a] : Owes(b, a)'
             /\ asked'[a] # {} => Fresh(a)'
  <2>1. a \notin dead /\ lastSent[a] = "ELECTION" /\ asked'[a] = asked[a] /\ tick'[a] = tick[a]
    BY <1>1, <1>2
  <2>2. /\ \A b \in asked[a] : b \in Node /\ Owes(b, a)
        /\ asked[a] # {} => Fresh(a)
    BY <1>0, <2>1 DEF ElectionOpen, MpiTypeOK
  <2>3. QED
    BY <1>1, <2>1, <2>2, KeptOwed DEF Fresh
<1>3. ASSUME lastSent'[n] = "ELECTION"
      PROVE  /\ \A b \in asked'[n] : Owes(b, n)'
             /\ asked'[n] # {} => Fresh(n)'
  <2>1. CASE TickAsks(n, ping) \/ TickMourns(n, ping)
    <3>1. Broadcasts(n, ping, "ELECTION", Higher(n)) /\ asked'[n] = Higher(n) \ dead
      BY <1>0, <2>1 DEF TickAsks, TickMourns, MpiTypeOK
    <3>2. \A q \in Higher(n) : "ELECTION" \in Range(net'[n][q])
      BY <3>1, BroadcastQueues
    <3>3. tick'[n] = 0
      BY <1>0, <3>1 DEF Broadcasts, MpiTypeOK
    <3>4. QED
      BY <3>1, <3>2, <3>3 DEF Owes, Fresh
  <2>2. CASE TickClaims(n, ping)
    <3>1. Sent(n, ping) = "ELECTION" /\ asked' = asked /\ tick'[n] = 0
      BY <1>0, <1>3, <2>2 DEF TickClaims, Broadcasts, MpiTypeOK
    <3>2. lastSent[n] = "ELECTION"
      BY <3>1 DEF Sent
    <3>3. \A b \in asked[n] : b \in Node /\ Owes(b, n)
      BY <1>0, <1>1, <3>2 DEF ElectionOpen, MpiTypeOK
    <3>4. QED
      BY <1>1, <3>1, <3>3, KeptOwed DEF Fresh
  <2>3. CASE TickPasses(n, ping)
    <3>1. /\ Sent(n, ping) = "ELECTION" /\ asked' = asked /\ tick'[n] = Ticked(n)
      BY <1>0, <1>3, <2>3 DEF TickPasses, MpiTypeOK
    <3>2. lastSent[n] = "ELECTION"
      BY <3>1 DEF Sent
    <3>3. \A b \in asked[n] : b \in Node /\ Owes(b, n)
      BY <1>0, <1>1, <3>2 DEF ElectionOpen, MpiTypeOK
    <3>4. asked[n] # {} => Fresh(n)'
      <4>1. asked[n] # {} => tick[n] = 0
        BY <1>1, <3>2 DEF ElectionOpen, Fresh, MpiTypeOK
      <4>2. tick[n] = 0 => Ticked(n) = 1
        BY <1>0 DEF Ticked
      <4>3. QED
        BY <1>1, <3>1, <4>1, <4>2 DEF Fresh
    <3>5. QED
      BY <1>1, <3>1, <3>3, <3>4, KeptOwed
  <2>4. QED
    BY <2>1, <2>2, <2>3
<1>4. \A a \in Node : asked'[a] \cap dead' = {}
  <2>1. asked'[n] \cap dead = {}
    <3>1. CASE TickAsks(n, ping) \/ TickMourns(n, ping)
      BY <1>0, <3>1 DEF TickAsks, TickMourns, MpiTypeOK
    <3>2. CASE TickClaims(n, ping) \/ TickPasses(n, ping)
      BY <3>2 DEF TickClaims, TickPasses, ElectionOpen
    <3>3. QED
      BY <3>1, <3>2
  <2>2. QED
    BY <1>1, <2>1 DEF ElectionOpen
<1>5. ElectionOpen'
  BY <1>2, <1>3, <1>4 DEF ElectionOpen
<1>6. AskedThenActs'
  <2>1. lastSent'[n] = "none" => lastReceived'[n] # "ELECTION"
    <3>1. CASE TickAsks(n, ping)
      <4>1. Sent(n, ping) = "none" /\ lastSent[n] = "none"
        BY <3>1 DEF TickAsks, Sent
      <4>2. lastReceived[n] # "ELECTION"
        BY <4>1 DEF AskedThenActs
      <4>3. QED
        BY <1>0, <3>1, <4>2 DEF TickAsks, MpiTypeOK
    <3>2. CASE TickClaims(n, ping) \/ TickMourns(n, ping) \/ TickPasses(n, ping)
      <4>1. lastReceived' = lastReceived
        BY <3>2 DEF TickClaims, TickMourns, TickPasses
      <4>2. lastSent'[n] = "none" => Sent(n, ping) = "none"
        BY <1>0, <3>2 DEF TickClaims, TickMourns, TickPasses, Broadcasts, MpiTypeOK
      <4>3. Sent(n, ping) = "none" => lastSent[n] = "none"
        BY DEF Sent
      <4>4. QED
        BY <4>1, <4>2, <4>3 DEF AskedThenActs
    <3>3. QED
      BY <3>1, <3>2
  <2>2. QED
    BY <1>1, <2>1 DEF AskedThenActs
<1>7. QED
  BY <1>5, <1>6
(* What a dead node ignores was owed to nobody who still waits for it.          *)
LEMMA Ignoring ==
  ASSUME TypeInv, NEW n \in Node, StaysDead(n) \/ ReturnsToLife(n)
  PROVE  /\ n \in dead /\ dead' \subseteq dead /\ dead \subseteq dead' \cup {n}
         /\ UNCHANGED <<tick, sincePing, coordNode, asked>>
         /\ \/ UNCHANGED <<net, unanswered>> /\ pending' = pending \ {n}
            \/ \E m \in Node :
                 /\ KeptBut(m, n) /\ pending' = pending
                 /\ unanswered' = IF Head(net[m][n]) = "AYA" THEN unanswered \cup {m}
                                                             ELSE unanswered
         /\ \A a \in Node \ {n} :
              lastSent'[a] = lastSent[a] /\ lastReceived'[a] = lastReceived[a]
         /\ n \notin dead' => lastSent'[n] = "none" /\ lastReceived'[n] = "none"
         /\ n \in dead' => lastSent' = lastSent /\ lastReceived' = lastReceived
<1>1. /\ n \in dead /\ dead' \subseteq dead /\ dead \subseteq dead' \cup {n}
      /\ UNCHANGED <<tick, sincePing, coordNode, asked>>
  BY DEF StaysDead, ReturnsToLife
<1>2. Ignores(n)
  BY DEF StaysDead, ReturnsToLife
<1>3. \/ UNCHANGED <<net, unanswered>> /\ pending' = pending \ {n}
      \/ \E m \in Node :
           /\ KeptBut(m, n) /\ pending' = pending
           /\ unanswered' = IF Head(net[m][n]) = "AYA" THEN unanswered \cup {m}
                                                       ELSE unanswered
  BY <1>2, ReadQueues DEF Ignores
<1>4. /\ \A a \in Node \ {n} :
           lastSent'[a] = lastSent[a] /\ lastReceived'[a] = lastReceived[a]
      /\ n \notin dead' => lastSent'[n] = "none" /\ lastReceived'[n] = "none"
      /\ n \in dead' => lastSent' = lastSent /\ lastReceived' = lastReceived
  BY DEF StaysDead, ReturnsToLife, TypeInv, MpiTypeOK
<1>5. QED
  BY <1>1, <1>3, <1>4

(* A death or a return leaves the elections of the others as they are.         *)
LEMMA ElectionDead ==
  ASSUME TypeInv, ElectionInv, NEW n \in Node, StaysDead(n) \/ ReturnsToLife(n)
  PROVE  ElectionInv'
<1> USE DEF ElectionInv
<1> MpiTypeOK
  BY DEF TypeInv
<1>1. /\ n \in dead /\ dead' \subseteq dead /\ dead \subseteq dead' \cup {n}
      /\ UNCHANGED <<tick, asked>>
      /\ \/ net' = net /\ pending' = pending \ {n}
         \/ \E m \in Node : KeptBut(m, n) /\ pending' = pending
      /\ \A a \in Node \ {n} :
           lastSent'[a] = lastSent[a] /\ lastReceived'[a] = lastReceived[a]
      /\ n \notin dead' => lastSent'[n] = "none" /\ lastReceived'[n] = "none"
      /\ n \in dead' => lastSent' = lastSent /\ lastReceived' = lastReceived
  BY Ignoring
<1>2. ASSUME NEW a \in Node, a \notin dead', lastSent'[a] = "ELECTION"
      PROVE  /\ \A b \in asked'[a] : Owes(b, a)'
             /\ asked'[a] # {} => Fresh(a)'
  <2>1. a # n /\ a \notin dead /\ lastSent[a] = "ELECTION"
    BY <1>1, <1>2
  <2>2. /\ \A b \in asked[a] : b \in Node /\ b # n /\ Owes(b, a)
        /\ asked[a] # {} => Fresh(a)
    BY <1>1, <2>1 DEF ElectionOpen, MpiTypeOK
  <2>3. ASSUME NEW b \in asked[a]
        PROVE  Owes(b, a)'
    <3>1. CASE net' = net
      BY <2>2, <3>1 DEF Owes
    <3>2. CASE \E m \in Node : KeptBut(m, n)
      <4>1. PICK m \in Node : KeptBut(m, n)
        BY <3>2
      <4>2. QED
        BY <2>1, <2>2, <4>1, ReadOwed
    <3>3. QED
      BY <1>1, <3>1, <3>2
  <2>4. asked[a] # {} => Fresh(a)'
    BY <1>1, <2>1, <2>2 DEF Fresh
  <2>5. QED
    BY <1>1, <2>3, <2>4
<1>3. ElectionOpen'
  BY <1>1, <1>2 DEF ElectionOpen
<1>4. AskedThenActs'
  BY <1>1 DEF AskedThenActs
<1>5. QED
  BY <1>3, <1>4

(* When the clock ticks everything sent has been read: nobody is owed anything. *)
LEMMA ElectionSecond ==
  ASSUME TypeInv, ElectionInv, Second
  PROVE  ElectionInv'
<1>1. /\ \A m, n \in Node : net[m][n] = <<>>
      /\ UNCHANGED <<tick, lastSent, lastReceived, dead, net, asked>>
  BY DEF Second
<1>2. \A m, n \in Node : ~Owes(m, n)
  BY <1>1, RangeEmpty DEF Owes
<1>3. \A n \in Node \ dead : lastSent[n] = "ELECTION" => asked[n] = {}
  BY <1>2 DEF ElectionInv, ElectionOpen, TypeInv, MpiTypeOK
<1>4. QED
  BY <1>1, <1>3 DEF ElectionInv, ElectionOpen, AskedThenActs

(* At the start nobody is in an election.                                      *)
LEMMA ElectionStart == Init => ElectionInv
<1> SUFFICES ASSUME Init PROVE ElectionInv
  OBVIOUS
<1>1. ASSUME NEW n \in Node, NEW m \in asked[n]
      PROVE  Owes(m, n)
  <2>1. n = 1 /\ m \in Node /\ m > 1
    BY <1>1 DEF Init, Higher
  <2>2. net[n][m] = <<"ELECTION">>
    BY <2>1 DEF Init
  <2>3. QED
    BY <2>2, RangeSingle DEF Owes
<1>2. QED
  BY <1>1 DEF Init, ElectionInv, ElectionOpen, AskedThenActs, Fresh

(* Every step keeps the election invariant, if nothing is lost.                *)
LEMMA ElectionStep == ~Lossy /\ TypeInv /\ ElectionInv /\ [Next]_vars => ElectionInv'
<1> SUFFICES ASSUME ~Lossy, TypeInv, ElectionInv, [Next]_vars PROVE ElectionInv'
  OBVIOUS
<1>1. CASE Second
  BY <1>1, ElectionSecond
<1>2. ASSUME NEW n \in Node, NEW m \in Node, Receive(n, m) PROVE ElectionInv'
  BY <1>2, ElectionReceive
<1>3. ASSUME NEW n \in Node, Tick(n) PROVE ElectionInv'
  BY <1>3, ElectionTick DEF Tick
<1>4. ASSUME NEW n \in Node, StaysDead(n) \/ ReturnsToLife(n) PROVE ElectionInv'
  BY <1>4, ElectionDead
<1>5. CASE UNCHANGED vars
  BY <1>5 DEF vars, ElectionInv, AskedThenActs, ElectionOpen, Owes, Fresh
<1>6. QED
  BY <1>1, <1>2, <1>3, <1>4, <1>5 DEF Next

(* Ticks that are no timeout.                                                   *)
LEMMA NotATimeout ==
  ASSUME NEW t \in Nat, t > 0, t < TimeoutValue
  PROVE  t % TimeoutValue # 0
<1>1. TimeoutValue \in Nat /\ TimeoutValue > 0
  BY TimeAssumption
<1>2. t % TimeoutValue = t
  BY <1>1
<1>3. QED
  BY <1>2

(* Where MPI_Send loses nothing and a timeout is two ticks at least, a node that *)
(* claims because nobody answered has outlasted every higher node that was alive *)
(* when it asked: every one of them has pretended to be dead since.  With a      *)
(* timeout of one tick a node may time out in the second in which it asked.      *)
THEOREM MpiClaimJustified ==
  ASSUME ~Lossy, TimeoutValue >= 2
  PROVE  Spec => ClaimJustified
<1>1. Spec => [](TypeInv /\ ElectionInv)
  <2>1. Init => ElectionInv
    BY ElectionStart
  <2>2. TypeInv /\ ElectionInv /\ [Next]_vars => ElectionInv'
    BY ElectionStep
  <2>3. QED
    BY <2>1, <2>2, TypeInvariant, PTL DEF Spec
<1>2. ASSUME TypeInv, ElectionInv, NEW n \in Node, NEW ping \in Pings(n), TickClaims(n, ping)
      PROVE  asked[n] = {}
  <2>0. Period \in Nat \ {0} /\ TimeoutValue \in Nat
    BY SizeAssumption, TimeAssumption DEF Period
  <2>1. n \in pending \ dead /\ TimedOut(n)
    BY <1>2 DEF TickClaims, TakesTick
  <2>2. lastSent[n] = "ELECTION"
    BY <1>2 DEF TickClaims, Sent, ElectionInv, AskedThenActs
  <2>3. asked[n] # {} => tick[n] = 0
    BY <1>2, <2>1, <2>2 DEF ElectionInv, ElectionOpen, Fresh
  <2>4. tick[n] = 0 => Ticked(n) = 1
    BY <2>0 DEF Ticked
  <2>5. 1 % TimeoutValue # 0
    BY <2>0, NotATimeout
  <2>6. QED
    BY <2>1, <2>3, <2>4, <2>5 DEF TimedOut
<1>3. TypeInv /\ ElectionInv /\ [Next]_vars =>
        [\A n \in Node :
           Higher(n) # {} /\ (\E ping \in Pings(n) : TickClaims(n, ping)) => asked[n] = {}]_vars
  BY <1>2
<1>4. QED
  BY <1>1, <1>3, PTL DEF Spec, ClaimJustified
-------------------------------------------------------------------------------
\* Pings and the death of leaders

\* What PingInv says of one node.
PingedBy(n) ==
  /\ lastSent[n] = "AYA" => coordNode[n] # 0
  /\ n \in dead => tick[n] = 0
  /\ coordNode[n] # 0 /\ n \notin unanswered =>
       \/ tick[n] <= sincePing[n]
       \/ n \notin pending /\ PingOpen(n) /\ tick[n] <= MaxRate

(* The ping invariant speaks of one node at a time.                            *)
LEMMA PingEach == PingInv <=> \A n \in Node : PingedBy(n)
BY DEF PingInv, PingedBy

(* A ping stays open until its AYA is read, or the IAA that answers it is.      *)
LEMMA PingStays ==
  ASSUME NEW n \in Node, NEW m \in Node, KeptBut(m, n), NEW a \in Node, a # n, PingOpen(a),
         ~(a = m /\ Head(net[m][n]) = "AYA")
  PROVE  PingOpen(a)'
<1>1. PICK q \in Node : "AYA" \in Range(net[a][q]) \/ "IAA" \in Range(net[q][a])
  BY DEF PingOpen
<1>2. CASE "AYA" \in Range(net[a][q])
  BY <1>2 DEF KeptBut, PingOpen
<1>3. CASE "IAA" \in Range(net[q][a])
  BY <1>3 DEF KeptBut, PingOpen
<1>4. QED
  BY <1>1, <1>2, <1>3

(* An AYA read is answered, unless it is ignored.                               *)
LEMMA PingReceive ==
  ASSUME TypeInv, PingInv, ~Lossy, NEW n \in Node, NEW m \in Node, Receive(n, m)
  PROVE  PingInv'
<1> MpiTypeOK
  BY DEF TypeInv
<1>1. /\ n \notin dead /\ net[m][n] # <<>> /\ m # n
      /\ KeptBut(m, n)
      /\ tick' = [tick EXCEPT ![n] = 0] /\ tick'[n] = 0
      /\ UNCHANGED <<pending, sincePing>>
  BY Reading
<1>2. PingedBy(n)'
  <2>1. lastSent'[n] = "AYA" => coordNode'[n] # 0
    <3>1. CASE RecvCoord(n, m)
      <4>1. coordNode'[n] = m
        BY <3>1 DEF RecvCoord, MpiTypeOK
      <4>2. QED
        BY <4>1, SizeAssumption DEF Node
    <3>2. CASE RecvElection(n, m) \/ RecvAya(n, m)
      BY <3>2 DEF RecvElection, RecvAya, MpiTypeOK
    <3>3. CASE RecvAnswer(n, m) \/ RecvIaa(n, m)
      <4>1. lastSent'[n] = "AYA" => lastSent[n] = "AYA"
        BY <3>3 DEF RecvAnswer, RecvIaa, MpiTypeOK
      <4>2. coordNode' = coordNode
        BY <3>3 DEF RecvAnswer, RecvIaa
      <4>3. QED
        BY <4>1, <4>2 DEF PingInv
    <3>4. QED
      BY <3>1, <3>2, <3>3 DEF Receive
  <2>2. sincePing'[n] \in Nat
    BY <1>1, TimeAssumption DEF MpiTypeOK
  <2>3. tick'[n] <= sincePing'[n]
    BY <1>1, <2>2
  <2>4. QED
    BY <1>1, <2>1, <2>3 DEF PingedBy
<1>3. ASSUME NEW a \in Node, a # n
      PROVE  PingedBy(a)'
  <2>1. /\ lastSent'[a] = lastSent[a] /\ coordNode'[a] = coordNode[a]
        /\ a \in dead' => a \in dead
        /\ a \in unanswered => a \in unanswered'
    BY <1>3 DEF Receive, RecvElection, RecvAnswer, RecvCoord, RecvAya, RecvIaa, MpiTypeOK
  <2>2. tick'[a] = tick[a] /\ sincePing'[a] = sincePing[a] /\ pending' = pending
    BY <1>1, <1>3 DEF MpiTypeOK
  <2>3. ASSUME PingOpen(a), a \notin unanswered'
        PROVE  PingOpen(a)'
    <3>1. CASE a = m /\ Head(net[m][n]) = "AYA"
      <4>1. RecvAya(n, m)
        BY <3>1 DEF Receive, RecvElection, RecvAnswer, RecvCoord, RecvIaa, Takes
      <4>2. n \notin dead'
        BY <1>1, <2>3, <3>1, <4>1 DEF RecvAya
      <4>3. "IAA" \in Range(net'[n][m])
        BY <4>1, <4>2, AyaQueues
      <4>4. QED
        BY <3>1, <4>3 DEF PingOpen
    <3>2. CASE ~(a = m /\ Head(net[m][n]) = "AYA")
      BY <1>1, <1>3, <2>3, <3>2, PingStays
    <3>3. QED
      BY <3>1, <3>2
  <2>4. PingedBy(a)
    BY PingEach
  <2>5. QED
    BY <2>1, <2>2, <2>3, <2>4 DEF PingedBy
<1>4. QED
  BY <1>2, <1>3 DEF PingInv, PingedBy

(* A tick counts both clocks, or sends the ping.                                *)
LEMMA PingTick ==
  ASSUME TypeInv, PingInv, ~Lossy, NEW n \in Node, NEW ping \in Pings(n),
         \/ TickAsks(n, ping) \/ TickClaims(n, ping)
         \/ TickMourns(n, ping) \/ TickPasses(n, ping)
  PROVE  PingInv'
<1>0. MpiTypeOK /\ MaxRate \in Nat \ {0} /\ Period \in Nat \ {0}
  BY SizeAssumption, TimeAssumption DEF TypeInv, Period
<1>1. /\ Kept /\ TakesTick(n, ping)
      /\ n \in pending \ dead /\ pending' = pending \ {n} /\ UNCHANGED <<dead, unanswered>>
      /\ \A a \in Node \ {n} :
           /\ lastSent'[a] = lastSent[a] /\ tick'[a] = tick[a]
           /\ sincePing'[a] = sincePing[a] /\ coordNode'[a] = coordNode[a]
  BY Ticking
<1>2. Sent(n, ping) = "AYA" => coordNode[n] # 0
  BY <1>0, PingsUp DEF Sent, PingInv
<1>3. ASSUME TickAsks(n, ping) \/ TickClaims(n, ping) \/ TickMourns(n, ping)
      PROVE  PingedBy(n)'
  <2>1. coordNode'[n] = 0
    BY <1>0, <1>3 DEF TickAsks, TickClaims, TickMourns, Broadcasts, MpiTypeOK
  <2>2. lastSent'[n] # "AYA"
    <3>1. CASE TickAsks(n, ping) \/ TickClaims(n, ping)
      BY <1>0, <3>1 DEF TickAsks, TickClaims, Broadcasts, MpiTypeOK
    <3>2. CASE TickMourns(n, ping)
      <4>1. coordNode[n] \in Higher(n)
        <5>1. coordNode[n] # 0 /\ coordNode[n] \in 0..Size - 1 /\ coordNode[n] > n
          BY <1>0, <1>2, <3>2 DEF TickMourns, MpiTypeOK
        <5>2. QED
          BY <5>1, SizeAssumption DEF Higher, Node
      <4>2. QED
        BY <1>0, <3>2, <4>1 DEF TickMourns, Broadcasts, MpiTypeOK
    <3>3. QED
      BY <1>3, <3>1, <3>2
  <2>3. QED
    BY <1>1, <2>1, <2>2 DEF PingedBy
<1>4. ASSUME TickPasses(n, ping)
      PROVE  PingedBy(n)'
  <2>1. coordNode' = coordNode /\ lastSent'[n] = Sent(n, ping) /\ tick'[n] = Ticked(n)
    BY <1>0, <1>4 DEF TickPasses, MpiTypeOK
  <2>2. ASSUME coordNode[n] # 0, n \notin unanswered
        PROVE  \/ tick'[n] <= sincePing'[n]
               \/ n \notin pending' /\ PingOpen(n)' /\ tick'[n] <= MaxRate
    <3>1. /\ tick[n] \in Nat /\ sincePing[n] \in 0..MaxRate - 1
          /\ tick[n] <= sincePing[n]
      BY <1>0, <1>1, <2>2 DEF PingInv, MpiTypeOK
    <3>2. Ticked(n) <= sincePing[n] + 1 /\ Ticked(n) <= MaxRate
      BY <1>0, <3>1 DEF Ticked
    <3>3. CASE ping = {}
      <4>1. sincePing'[n] = sincePing[n] + 1
        BY <1>0, <1>1, <2>2, <3>3 DEF TakesTick, MpiTypeOK
      <4>2. QED
        BY <2>1, <3>2, <4>1
    <3>4. CASE ping # {}
      <4>1. PICK q \in ping : TRUE
        BY <3>4
      <4>2. q \in Node
        BY <1>0, <4>1, PingsUp DEF Higher
      <4>3. "AYA" \in Range(net'[n][q])
        BY <1>4, <4>1, PassesQueues
      <4>4. PingOpen(n)'
        BY <4>2, <4>3 DEF PingOpen
      <4>5. QED
        BY <1>1, <2>1, <3>2, <4>4
    <3>5. QED
      BY <3>3, <3>4
  <2>3. QED
    BY <1>1, <1>2, <2>1, <2>2 DEF PingedBy
<1>5. PingedBy(n)'
  BY <1>3, <1>4
<1>6. ASSUME NEW a \in Node \ {n}
      PROVE  PingedBy(a)'
  <2>1. PingedBy(a)
    BY PingEach
  <2>2. PingOpen(a) => PingOpen(a)'
    BY <1>1 DEF Kept, PingOpen
  <2>3. QED
    BY <1>1, <2>1, <2>2 DEF PingedBy
<1>7. QED
  BY <1>5, <1>6 DEF PingInv, PingedBy
(* A dead node counts no ticks, and an AYA it ignores leaves its sender         *)
(* unanswered.                                                                  *)
LEMMA PingDead ==
  ASSUME TypeInv, PingInv, NEW n \in Node, StaysDead(n) \/ ReturnsToLife(n)
  PROVE  PingInv'
<1> MpiTypeOK
  BY DEF TypeInv
<1>1. /\ n \in dead /\ dead' \subseteq dead
      /\ UNCHANGED <<tick, sincePing, coordNode>>
      /\ \/ UNCHANGED <<net, unanswered>> /\ pending' = pending \ {n}
         \/ \E m \in Node :
              /\ KeptBut(m, n) /\ pending' = pending
              /\ unanswered' = IF Head(net[m][n]) = "AYA" THEN unanswered \cup {m}
                                                          ELSE unanswered
      /\ \A a \in Node \ {n} : lastSent'[a] = lastSent[a]
      /\ n \notin dead' => lastSent'[n] = "none"
      /\ n \in dead' => lastSent' = lastSent
  BY Ignoring
<1>2. PingedBy(n)'
  <2>1. PingedBy(n)
    BY PingEach
  <2>2. tick[n] = 0 /\ sincePing[n] \in Nat
    BY <1>1, <2>1, TimeAssumption DEF PingedBy, MpiTypeOK
  <2>3. tick'[n] <= sincePing'[n]
    BY <1>1, <2>2
  <2>4. lastSent'[n] = "AYA" => coordNode'[n] # 0
    BY <1>1, <2>1 DEF PingedBy
  <2>5. QED
    BY <1>1, <2>2, <2>3, <2>4 DEF PingedBy
<1>3. ASSUME NEW a \in Node, a # n
      PROVE  PingedBy(a)'
  <2>1. PingedBy(a)
    BY PingEach
  <2>2. CASE UNCHANGED <<net, unanswered>> /\ pending' = pending \ {n}
    <3>1. PingOpen(a) => PingOpen(a)'
      BY <2>2 DEF PingOpen
    <3>2. QED
      BY <1>1, <1>3, <2>1, <2>2, <3>1 DEF PingedBy
  <2>3. CASE \E m \in Node :
               /\ KeptBut(m, n) /\ pending' = pending
               /\ unanswered' = IF Head(net[m][n]) = "AYA" THEN unanswered \cup {m}
                                                           ELSE unanswered
    <3>1. PICK m \in Node :
            /\ KeptBut(m, n) /\ pending' = pending
            /\ unanswered' = IF Head(net[m][n]) = "AYA" THEN unanswered \cup {m}
                                                        ELSE unanswered
      BY <2>3
    <3>2. PingOpen(a) /\ a \notin unanswered' => PingOpen(a)'
      BY <1>3, <3>1, PingStays
    <3>3. QED
      BY <1>1, <1>3, <2>1, <3>1, <3>2 DEF PingedBy
  <2>4. QED
    BY <1>1, <2>2, <2>3
<1>4. QED
  BY <1>2, <1>3 DEF PingInv, PingedBy

(* When the clock ticks no ping is open: whoever has a coordinator has heard    *)
(* something since it last sent AYA.                                            *)
LEMMA PingSecond ==
  ASSUME PingInv, Second
  PROVE  PingInv'
<1>1. /\ \A m, n \in Node : net[m][n] = <<>>
      /\ UNCHANGED <<tick, sincePing, lastSent, coordNode, dead, unanswered>>
  BY DEF Second
<1>2. \A n \in Node : ~PingOpen(n)
  BY <1>1, RangeEmpty DEF PingOpen
<1>3. QED
  BY <1>1, <1>2 DEF PingInv

(* Every step keeps the ping invariant, if nothing is lost.                    *)
LEMMA PingStep == ~Lossy /\ TypeInv /\ PingInv /\ [Next]_vars => PingInv'
<1> SUFFICES ASSUME ~Lossy, TypeInv, PingInv, [Next]_vars PROVE PingInv'
  OBVIOUS
<1>1. CASE Second
  BY <1>1, PingSecond
<1>2. ASSUME NEW n \in Node, NEW m \in Node, Receive(n, m) PROVE PingInv'
  BY <1>2, PingReceive
<1>3. ASSUME NEW n \in Node, Tick(n) PROVE PingInv'
  BY <1>3, PingTick DEF Tick
<1>4. ASSUME NEW n \in Node, StaysDead(n) \/ ReturnsToLife(n) PROVE PingInv'
  BY <1>4, PingDead
<1>5. CASE UNCHANGED vars
  BY <1>5 DEF vars, PingInv, PingOpen
<1>6. QED
  BY <1>1, <1>2, <1>3, <1>4, <1>5 DEF Next

(* Where MPI_Send loses nothing and every node pings its coordinator at least    *)
(* once in a timeout, a leader is declared dead only if it has ignored an AYA of *)
(* the node that declares it, though lastSent is still AYA long after the IAA:   *)
(* the tick counter never gets ahead of the time since the last ping.            *)
THEOREM MpiLeaderDeadIsTrue ==
  ASSUME ~Lossy, MaxRate < TimeoutValue
  PROVE  Spec => LeaderDeadIsTrue
<1>1. Spec => [](TypeInv /\ PingInv)
  <2>1. Init => PingInv
    BY DEF Init, PingInv
  <2>2. TypeInv /\ PingInv /\ [Next]_vars => PingInv'
    BY PingStep
  <2>3. QED
    BY <2>1, <2>2, TypeInvariant, PTL DEF Spec
<1>2. ASSUME TypeInv, PingInv, NEW n \in Node, NEW ping \in Pings(n), TickMourns(n, ping)
      PROVE  n \in unanswered
  <2>0. MpiTypeOK /\ MaxRate \in Nat \ {0} /\ TimeoutValue \in Nat
    BY <1>2, TimeAssumption DEF TypeInv
  <2>1. n \in pending /\ TimedOut(n) /\ Sent(n, ping) = "AYA"
    BY <1>2 DEF TickMourns, TakesTick
  <2>2. coordNode[n] # 0
    BY <1>2, <2>0, <2>1, PingsUp DEF Sent, PingInv
  <2>3. SUFFICES ASSUME n \notin unanswered
                 PROVE  FALSE
    OBVIOUS
  <2>4. tick[n] \in Nat /\ sincePing[n] \in 0..MaxRate - 1 /\ tick[n] <= sincePing[n]
    BY <1>2, <2>0, <2>1, <2>2, <2>3 DEF PingInv, MpiTypeOK
  <2>5. Ticked(n) \in Nat /\ Ticked(n) > 0 /\ Ticked(n) < TimeoutValue
    BY <2>0, <2>4 DEF Ticked
  <2>6. QED
    BY <2>1, <2>5, NotATimeout DEF TimedOut
<1>3. TypeInv /\ PingInv /\ [Next]_vars =>
        [\A n \in Node :
           (\E ping \in Pings(n) : TickMourns(n, ping)) => n \in unanswered]_vars
  BY <1>2
<1>4. QED
  BY <1>1, <1>3, PTL DEF Spec, LeaderDeadIsTrue

===============================================================================
