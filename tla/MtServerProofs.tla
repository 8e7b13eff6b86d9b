---------------------------- MODULE MtServerProofs -----------------------------
(* Proofs about the multithreaded server, for any connections, even infinitely *)
(* many, any limit and any width of numThread that can hold the limit: what     *)
(* numThread counts in spite of the unlocked reads and the late count of main.  *)
(* And about one connection, for any characters, streams and pieces: how what   *)
(* HandleTCPClient answers depends on the stream and not on the pieces.         *)
EXTENDS MtServer, MtConnection, FiniteSetTheorems, SequenceTheorems, TLAPS

-------------------------------------------------------------------------------
\* The inductive invariant

\* Main holds a connection nobody has decided about yet.
Deciding == pc = "check" => \A c \in cur : conn[c] = "accepted"

\* Until main has counted the thread it started, numThread is one less than the
\* number of threads: 2^32 - 1 when that thread, and all others, have left.
Counted ==
  /\ IsFiniteSet(Threads)
  /\ Cardinality(Threads) <= max
  /\ numThread = IF pc = "count" THEN (Cardinality(Threads) - 1) % Wrap
                                 ELSE Cardinality(Threads)

ServerInv == ServerTypeOK /\ Deciding /\ Counted

-------------------------------------------------------------------------------
\* Counting modulo Wrap

(* What the thread counter does at its limits: a number below Wrap is kept, 0   *)
(* counted down becomes Wrap - 1, and Wrap - 1 counted up becomes 0.            *)
LEMMA WrapsAround ==
  ASSUME NEW n \in -1..Wrap
  PROVE  /\ n % Wrap = IF n = -1 THEN Wrap - 1 ELSE IF n = Wrap THEN 0 ELSE n
         /\ n % Wrap \in 0..(Wrap - 1)
<1> Wrap \in Nat /\ Wrap > 0
  BY LimitAssumption
<1>1. CASE n = -1
  <2>1. (-1) % Wrap = Wrap - 1
    OBVIOUS
  <2>2. QED
    BY <1>1, <2>1
<1>2. CASE n = Wrap
  BY <1>2
<1>3. CASE n \in 0..(Wrap - 1)
  BY <1>3
<1>4. QED
  BY <1>1, <1>2, <1>3

(* Counting up undoes the count that was missing.                               *)
LEMMA CountsUp ==
  ASSUME NEW n \in Nat, n <= max
  PROVE  (((n - 1) % Wrap) + 1) % Wrap = n
<1> max \in Nat /\ Wrap \in Nat /\ Wrap > max
  BY LimitAssumption
<1>1. CASE n = 0
  <2>1. (n - 1) % Wrap = Wrap - 1
    BY <1>1, WrapsAround
  <2>2. Wrap % Wrap = 0
    BY WrapsAround
  <2>3. (Wrap - 1) + 1 = Wrap
    OBVIOUS
  <2>4. QED
    BY <1>1, <2>1, <2>2, <2>3
<1>2. CASE n > 0
  <2>1. (n - 1) % Wrap = n - 1
    BY <1>2, WrapsAround
  <2>2. n % Wrap = n
    BY WrapsAround
  <2>3. (n - 1) + 1 = n
    OBVIOUS
  <2>4. QED
    BY <2>1, <2>2, <2>3
<1>3. QED
  BY <1>1, <1>2

-------------------------------------------------------------------------------
\* The set of threads

(* A connection that moves from one state to another leaves the others alone.   *)
LEMMA Moves ==
  ASSUME conn \in [Conn -> ConnState], NEW c \in Conn, NEW state \in ConnState,
         To(c, state)
  PROVE  /\ conn' \in [Conn -> ConnState]
         /\ Threads' = IF state \in {"serving", "hungup", "leaving"}
                       THEN Threads \cup {c} ELSE Threads \ {c}
         /\ conn'[c] = state
         /\ \A d \in Conn \ {c} : conn'[d] = conn[d]
BY DEF To, Threads, In
(* Threads is finite and counts at least one when a thread is there.            *)
LEMMA ThreadCount ==
  ASSUME IsFiniteSet(Threads)
  PROVE  /\ Cardinality(Threads) \in Nat
         /\ \A c \in Threads : Cardinality(Threads) >= 1
<1>1. Cardinality(Threads) \in Nat
  BY FS_CardinalityType
<1>2. ASSUME NEW c \in Threads
      PROVE  Cardinality(Threads) >= 1
  <2>1. Cardinality(Threads) # 0
    BY FS_EmptySet
  <2>2. QED
    BY <1>1, <2>1
<1>3. QED
  BY <1>1, <1>2

(* A step that neither starts nor ends a thread, nor counts, keeps the count.   *)
LEMMA SameThreads ==
  ASSUME Counted, Threads' = Threads, numThread' = numThread,
         (pc = "count") = (pc' = "count")
  PROVE  Counted'
BY DEF Counted

(* What is between main and the threads is preserved by every step.             *)
LEMMA ServerStep ==
  ASSUME ServerInv, [Next]_vars
  PROVE  ServerInv'
<1> USE DEF ServerInv
<1> Wrap \in Nat /\ max \in Nat /\ Wrap > max
  BY LimitAssumption
<1>1. Cardinality(Threads) \in Nat /\ Cardinality(Threads) <= max
  BY ThreadCount DEF Counted
<1>2. CASE Count
  <2>1. numThread' = Cardinality(Threads)
    BY <1>1, <1>2, CountsUp DEF Count, Counted
  <2>2. Threads' = Threads
    BY <1>2 DEF Count, Threads, In
  <2>3. Counted'
    BY <1>1, <1>2, <2>1, <2>2 DEF Count, Counted
  <2>4. ServerTypeOK' /\ Deciding'
    BY <1>1, <1>2, <2>1 DEF Count, ServerTypeOK, Deciding
  <2>5. QED
    BY <2>3, <2>4
<1>3. ASSUME NEW c \in Conn, Connect(c) \/ Accept(c) \/ Refuse(c)
      PROVE  ServerInv'
  <2>1. /\ conn[c] \in {"new", "queued", "accepted"}
        /\ \E state \in {"queued", "accepted", "refused"} : To(c, state)
    BY <1>3 DEF Connect, Accept, Refuse, Deciding
  <2>2. PICK state \in {"queued", "accepted", "refused"} : To(c, state)
    BY <2>1
  <2>3. /\ conn' \in [Conn -> ConnState]
        /\ Threads' = Threads \ {c}
        /\ conn'[c] = state
        /\ \A d \in Conn \ {c} : conn'[d] = conn[d]
    BY <2>2, Moves DEF ServerTypeOK, ConnState
  <2>4. Threads' = Threads
    BY <2>1, <2>3 DEF Threads, In
  <2>5. Counted'
    BY <1>3, <2>4, SameThreads DEF Connect, Accept, Refuse
  <2>6. ServerTypeOK'
    BY <1>3, <2>3 DEF Connect, Accept, Refuse, ServerTypeOK
  <2>7. Deciding'
    BY <1>3, <2>1, <2>3 DEF Connect, Accept, Refuse, Deciding, ServerTypeOK, To, ConnState
  <2>8. QED
    BY <2>5, <2>6, <2>7
<1>4. ASSUME NEW c \in Conn, Spawn(c)
      PROVE  ServerInv'
  <2>1. conn[c] = "accepted" /\ c \notin Threads
    BY <1>4 DEF Spawn, Deciding, Threads, In
  <2>2. conn' \in [Conn -> ConnState] /\ Threads' = Threads \cup {c}
    BY <1>4, Moves DEF Spawn, ServerTypeOK, ConnState
  <2>3. /\ IsFiniteSet(Threads')
        /\ Cardinality(Threads') = Cardinality(Threads) + 1
    BY <2>1, <2>2, FS_AddElement DEF Counted
  <2>4. numThread = Cardinality(Threads) /\ numThread < max
    BY <1>4 DEF Spawn, Counted, Admits
  <2>5. (Cardinality(Threads') - 1) % Wrap = Cardinality(Threads)
    BY <1>1, <2>3, WrapsAround
  <2>6. Counted'
    BY <1>1, <1>4, <2>3, <2>4, <2>5 DEF Spawn, Counted
  <2>7. ServerTypeOK' /\ Deciding'
    BY <1>4, <2>2 DEF Spawn, ServerTypeOK, Deciding
  <2>8. QED
    BY <2>6, <2>7
<1>5. ASSUME NEW c \in Conn, Load(c) \/ BrokenPipe(c)
      PROVE  ServerInv'
  <2>1. Threads' = Threads
    BY <1>5 DEF Load, BrokenPipe, Threads, In
  <2>2. Counted'
    BY <1>5, <2>1, SameThreads DEF Load, BrokenPipe
  <2>3. conn' = conn /\ pc' = pc /\ cur' = cur /\ numThread' = numThread
    BY <1>5 DEF Load, BrokenPipe
  <2>4. up' \in BOOLEAN
    BY <1>5 DEF Load, BrokenPipe, ServerTypeOK
  <2>5. answer' \in [Conn -> -1..(Wrap - 1)]
    <3>1. numThread \in -1..(Wrap - 1) /\ answer \in [Conn -> -1..(Wrap - 1)]
      BY DEF ServerTypeOK
    <3>2. QED
      BY <1>5, <3>1 DEF Load, BrokenPipe
  <2>6. ServerTypeOK' /\ Deciding'
    BY <2>3, <2>4, <2>5 DEF ServerTypeOK, Deciding
  <2>7. QED
    BY <2>2, <2>6
<1>6. ASSUME NEW c \in Conn, HangUp(c) \/ Finish(c)
      PROVE  ServerInv'
  <2>1. c \in Threads /\ conn[c] # "accepted"
    BY <1>6 DEF HangUp, Finish, Threads, In
  <2>2. conn' \in [Conn -> ConnState] /\ Threads' = Threads \cup {c}
    BY <1>6, Moves DEF HangUp, Finish, ServerTypeOK, ConnState
  <2>3. Counted'
    BY <1>6, <2>1, <2>2, SameThreads DEF HangUp, Finish
  <2>4. ServerTypeOK' /\ Deciding'
    BY <1>6, <2>1, <2>2 DEF HangUp, Finish, ServerTypeOK, Deciding, To
  <2>5. QED
    BY <2>3, <2>4
<1>7. ASSUME NEW c \in Conn, Uncount(c)
      PROVE  ServerInv'
  <2>1. c \in Threads /\ conn[c] # "accepted"
    BY <1>7 DEF Uncount, Threads, In
  <2>2. conn' \in [Conn -> ConnState] /\ Threads' = Threads \ {c}
    BY <1>7, Moves DEF Uncount, ServerTypeOK, ConnState
  <2>3. /\ IsFiniteSet(Threads')
        /\ Cardinality(Threads') = Cardinality(Threads) - 1
    BY <2>1, <2>2, FS_RemoveElement DEF Counted
  <2>4. Cardinality(Threads) >= 1
    BY <2>1, ThreadCount DEF Counted
  <2>5. Counted'
    <3>1. CASE pc = "count"
      <4>1. numThread = Cardinality(Threads) - 1
        BY <1>1, <2>4, <3>1, WrapsAround DEF Counted
      <4>2. numThread' = (Cardinality(Threads') - 1) % Wrap
        BY <1>7, <2>3, <4>1 DEF Uncount
      <4>3. QED
        BY <1>1, <1>7, <2>3, <3>1, <4>2 DEF Uncount, Counted
    <3>2. CASE pc # "count"
      <4>1. numThread' = (Cardinality(Threads) - 1) % Wrap
        BY <1>7, <3>2 DEF Uncount, Counted
      <4>2. numThread' = Cardinality(Threads')
        BY <1>1, <2>3, <2>4, <4>1, WrapsAround
      <4>3. QED
        BY <1>1, <1>7, <2>3, <3>2, <4>2 DEF Uncount, Counted
    <3>3. QED
      BY <3>1, <3>2
  <2>6. numThread' \in 0..(Wrap - 1)
    BY <1>7, WrapsAround DEF Uncount, ServerTypeOK
  <2>7. ServerTypeOK' /\ Deciding'
    BY <1>7, <2>1, <2>2, <2>6 DEF Uncount, ServerTypeOK, Deciding, To
  <2>8. QED
    BY <2>5, <2>7
<1>8. CASE UNCHANGED vars
  <2>1. Threads' = Threads
    BY <1>8 DEF vars, Threads, In
  <2>2. QED
    BY <1>8, <2>1, SameThreads DEF vars, ServerTypeOK, Deciding
<1>9. CASE ExitWithError
  <2>1. Threads' = Threads
    BY <1>9 DEF ExitWithError, Threads, In
  <2>2. QED
    BY <1>9, <2>1, SameThreads DEF ExitWithError, ServerTypeOK, Deciding
<1>10. QED
  BY <1>2, <1>3, <1>4, <1>5, <1>6, <1>7, <1>8, <1>9 DEF Next

(* Nothing is accepted or counted when the server starts.                       *)
LEMMA ServerStart == Init => ServerInv
<1> SUFFICES ASSUME Init PROVE ServerInv
  OBVIOUS
<1> Wrap \in Nat /\ max \in Nat /\ Wrap > max
  BY LimitAssumption
<1>1. Threads = {}
  BY DEF Init, Threads, In
<1>2. IsFiniteSet(Threads) /\ Cardinality(Threads) = 0
  BY <1>1, FS_EmptySet
<1>3. QED
  BY <1>2 DEF Init, ServerInv, ServerTypeOK, Deciding, Counted, ConnState

(* The server keeps its inductive invariant.                                    *)
LEMMA ServerInvariant == Spec => []ServerInv
BY ServerStart, ServerStep, PTL DEF Spec

-------------------------------------------------------------------------------
\* Theorems

(* Types, numThread among them: the counter of the source never leaves its      *)
(* width, and main never holds a connection that does not exist.                *)
THEOREM MtServerTypes == Spec => []ServerTypeOK
<1>1. ServerInv => ServerTypeOK
  BY DEF ServerInv
<1>2. QED
  BY <1>1, ServerInvariant, PTL

(* "Maximum number of clients": main reads numThread without the mutex, before  *)
(* it has counted, and still no more than max clients are ever served at once.  *)
THEOREM MtServerAtMostMax == Spec => []AtMostMax
<1>1. ServerInv => AtMostMax
  <2> SUFFICES ASSUME ServerInv PROVE AtMostMax
    OBVIOUS
  <2>1. In({"serving", "hungup"}) \subseteq Threads
    BY DEF Threads, In
  <2>2. /\ Cardinality(In({"serving", "hungup"})) \in Nat
        /\ Cardinality(In({"serving", "hungup"})) <= Cardinality(Threads)
    BY <2>1, FS_Subset, FS_CardinalityType DEF ServerInv, Counted
  <2>3. QED
    BY <2>2, ThreadCount, LimitAssumption DEF ServerInv, Counted, AtMostMax
<1>2. QED
  BY <1>1, ServerInvariant, PTL

(* An answer to "load" is the number of threads, or one less while main has not *)
(* counted the newest: the wrapped-around value is never sent, since the thread *)
(* that answers is itself one of those counted.                                 *)
THEOREM MtServerLoadIsHonest == Spec => LoadIsHonest
<1>1. ASSUME ServerInv, NEW c \in Conn, Load(c)
      PROVE  answer'[c] \in {Cardinality(Threads), Cardinality(Threads) - 1}
  <2>1. answer'[c] = numThread
    BY <1>1 DEF Load, ServerInv, ServerTypeOK
  <2>2. c \in Threads
    BY <1>1 DEF Load, Threads, In
  <2>3. /\ Cardinality(Threads) \in Nat
        /\ Cardinality(Threads) >= 1
        /\ Cardinality(Threads) <= max
    BY <1>1, <2>2, ThreadCount DEF ServerInv, Counted
  <2>4. (Cardinality(Threads) - 1) % Wrap = Cardinality(Threads) - 1
    BY <2>3, WrapsAround, LimitAssumption
  <2>5. QED
    BY <1>1, <2>1, <2>4 DEF ServerInv, Counted
<1>2. ServerInv /\ [Next]_vars =>
        [\A c \in Conn : Load(c) =>
           answer'[c] \in {Cardinality(Threads), Cardinality(Threads) - 1}]_vars
  BY <1>1
<1>3. QED
  BY <1>2, ServerInvariant, PTL DEF Spec, LoadIsHonest

(* A connection is refused only when max threads have not left: neither the     *)
(* late count nor the unlocked read makes main turn a client away early.        *)
THEOREM MtServerRefusedWhenFull == Spec => RefusedWhenFull
<1>1. ASSUME ServerInv, NEW c \in Conn, Refuse(c)
      PROVE  Cardinality(Threads) >= max
  <2>1. numThread = Cardinality(Threads) /\ ~(numThread < max)
    BY <1>1 DEF Refuse, Admits, ServerInv, Counted
  <2>2. QED
    BY <1>1, <2>1, ThreadCount, LimitAssumption DEF ServerInv, Counted
<1>2. ServerInv /\ [Next]_vars =>
        [\A c \in Conn : Refuse(c) => Cardinality(Threads) >= max]_vars
  BY <1>1
<1>3. QED
  BY <1>2, ServerInvariant, PTL DEF Spec, RefusedWhenFull

-------------------------------------------------------------------------------
(* One connection: the handler against the reference                           *)

\* What the handler may answer.
Reply ==
  [kind : {"uptime", "load", "begun", "prefixOfExit", "sum", "invalid"},
   value : {0, -1} \cup {Total(digits) : digits \in Seq(Alphabet)}]

\* The values of handler.
Handlers ==
  [buf : Seq(Alphabet), my_char : Nat \ {0}, numInvalid : Nat, open : BOOLEAN,
   answers : Seq(Reply)]

\* The loop is at a character of the buffer or behind the last.
Placed(h) == h.my_char <= Len(h.buf) + 1

\* The type invariant of a connection.
ConnTypeOK ==
  /\ sent \in Seq(Alphabet)
  /\ got \in 0..Len(sent)
  /\ handler \in Handlers /\ Placed(handler)
  /\ Len(handler.buf) <= got
  /\ parsed \in Seq(Handlers)
  /\ Len(parsed) = Len(sent) + 1

\* The buffer holds the last characters received.
Buffered ==
  \A i \in 1..Len(handler.buf) : handler.buf[i] = sent[got - Len(handler.buf) + i]

\* All characters have been looked at.
Waiting(h) == h.my_char = Len(h.buf) + 1

\* The reference: one entry makes the next, it waits for a character whenever it is
\* open, and nothing happens to it after it has closed.
ReadOnce ==
  /\ \A i \in 1..Len(sent) : parsed[i + 1] = Parsed(parsed[i], sent[i])
  /\ \A i \in 1..Len(parsed) : parsed[i].open => Waiting(parsed[i])
  /\ \A i, j \in 1..Len(parsed) : i <= j /\ ~parsed[i].open => parsed[j] = parsed[i]

\* Handler h with buffer q, of which the loop looks at character n next.
With(h, q, n) ==
  [buf |-> q, my_char |-> n, numInvalid |-> h.numInvalid, open |-> h.open,
   answers |-> h.answers]

\* Handler h before it looks at a buffer of its first n characters only.
Upto(h, n) == With(h, SubSeq(h.buf, 1, n), n)

\* How the handler is related to the reference.  Entry b + i + 1 comes after i
\* characters of the buffer.  What is looked at again has begun a request, so
\* only the first character may find another numInvalid than it did before.
InStep ==
  LET b == got - Len(handler.buf)
      n == handler.my_char
  IN /\ handler.buf = <<>> => parsed[b + 1] = handler
     /\ handler.buf # <<>> => parsed[b + 2] = Look(Upto(handler, 1))
     /\ n > 1 => /\ handler.numInvalid = 0
                 /\ Meaning(SubSeq(handler.buf, 1, 1)) = "begun"
                 /\ parsed[b + n] = With(handler, SubSeq(handler.buf, 1, n - 1), n)

\* A handler that hung up did so where the reference did, with the same answers.
HungUp ==
  \E i \in 1..(got + 1) : ~parsed[i].open /\ parsed[i].answers = handler.answers

\* A handler that is no longer open: the end of the stream or a failure may have
\* stopped it where the reference goes on.
Parted ==
  \/ link = "broken"
  \/ link = "drained" /\ parsed[got + 1].answers = handler.answers
  \/ HungUp

\* The inductive invariant behind ChunkingInvisible.
StreamInv ==
  /\ ConnTypeOK
  /\ Buffered
  /\ ReadOnce
  /\ IF handler.open THEN InStep ELSE Parted

-------------------------------------------------------------------------------
\* One round of the loop

\* The answer to a request that is neither invalid nor a prefix of "exit".
ReplyTo(p) ==
  IF Meaning(p) = "sum" THEN Answer("sum", Total(SubSeq(p, 1, Len(p) - 1)))
                        ELSE Answer(Meaning(p), 0)

(* The six things the characters looked at may be.                               *)
LEMMA Meanings ==
  ASSUME NEW p
  PROVE  Meaning(p) \in {"uptime", "load", "begun", "prefixOfExit", "sum", "invalid"}
BY DEF Meaning

(* A prefix of the buffer, and what is left when it is dropped.                  *)
LEMMA Pieces ==
  ASSUME NEW S, NEW q \in Seq(S), NEW n \in 0..Len(q)
  PROVE  /\ SubSeq(q, 1, n) \in Seq(S) /\ Len(SubSeq(q, 1, n)) = n
         /\ \A i \in 1..n : SubSeq(q, 1, n)[i] = q[i]
         /\ Drop(q, n) \in Seq(S) /\ Len(Drop(q, n)) = Len(q) - n
         /\ \A i \in 1..(Len(q) - n) : Drop(q, n)[i] = q[n + i]
<1>1. \A i \in 1..Len(q) : q[i] \in S
  OBVIOUS
<1>2. /\ SubSeq(q, 1, n) \in Seq(S) /\ Len(SubSeq(q, 1, n)) = n
      /\ \A i \in 1..n : SubSeq(q, 1, n)[i] = q[i]
  <2>1. \A i \in 1..n : q[i] \in S
    BY <1>1
  <2>2. QED
    BY <2>1, SubSeqProperties
<1>3. /\ Drop(q, n) \in Seq(S) /\ Len(Drop(q, n)) = Len(q) - n
      /\ \A i \in 1..(Len(q) - n) : Drop(q, n)[i] = q[n + i]
  <2>1. \A i \in (n + 1)..Len(q) : q[i] \in S
    BY <1>1
  <2>2. /\ SubSeq(q, n + 1, Len(q)) \in Seq(S)
        /\ Len(SubSeq(q, n + 1, Len(q))) = IF n + 1 <= Len(q) THEN Len(q) - (n + 1) + 1 ELSE 0
        /\ \A i \in 1..(Len(q) - (n + 1) + 1) : SubSeq(q, n + 1, Len(q))[i] = q[(n + 1) + i - 1]
    BY <2>1, SubSeqProperties
  <2>3. QED
    BY <2>2 DEF Drop
<1>4. QED
  BY <1>2, <1>3

(* A request takes a character at least, and no more than were looked at; only   *)
(* one that is not the first is left to be looked at again.                      *)
LEMMA Lengths ==
  ASSUME NEW p \in Seq(Alphabet), Len(p) > 0
  PROVE  /\ Length(p) \in 1..Len(p)
         /\ Length(p) = Len(p) \/ (Len(p) > 1 /\ Length(p) = Len(p) - 1)
<1> DEFINE n == Len(p)
<1>1. n \in Nat /\ n > 0
  OBVIOUS
<1>2. Length(p) = n \/ (n # 1 /\ Length(p) = n - 1)
  BY DEF Length
<1> HIDE DEF n
<1>3. Length(p) \in 1..n /\ (Length(p) = n \/ (n > 1 /\ Length(p) = n - 1))
  BY <1>1, <1>2
<1>4. QED
  BY <1>3 DEF n

(* A request cut off the front of the buffer leaves a handler at the next one.  *)
LEMMA CutType ==
  ASSUME NEW h \in Handlers, NEW n \in 0..Len(h.buf), NEW reply \in Reply,
         NEW numInvalid \in Nat, NEW open \in BOOLEAN,
         NEW g, g = Cut(h, n, reply, numInvalid, open)
  PROVE  /\ g \in Handlers /\ Placed(g)
         /\ g.my_char = 1 /\ g.numInvalid = numInvalid /\ g.open = open
         /\ g.answers = Append(h.answers, reply)
         /\ g.buf = Drop(h.buf, n)
<1>1. h.buf \in Seq(Alphabet) /\ h.answers \in Seq(Reply)
  BY DEF Handlers
<1>2. Drop(h.buf, n) \in Seq(Alphabet) /\ Len(Drop(h.buf, n)) \in Nat
  BY <1>1, Pieces
<1>3. Append(h.answers, reply) \in Seq(Reply)
  BY <1>1
<1>4. QED
  BY <1>2, <1>3 DEF Cut, Handlers, Placed

(* Waiting for the rest of a request leaves a handler.                           *)
LEMMA AwaitedType ==
  ASSUME NEW h \in Handlers
  PROVE  Awaited(h) \in Handlers
BY DEF Awaited, Handlers

(* Answers have their form.                                                      *)
LEMMA Replies ==
  /\ Answer("prefixOfExit", 0) \in Reply
  /\ Answer("invalid", -1) \in Reply
  /\ \A p \in Seq(Alphabet) : Len(p) > 0 => ReplyTo(p) \in Reply
<1>1. Answer("prefixOfExit", 0) \in Reply /\ Answer("invalid", -1) \in Reply
  BY DEF Answer, Reply
<1>2. ASSUME NEW p \in Seq(Alphabet), Len(p) > 0 PROVE ReplyTo(p) \in Reply
  <2>1. SubSeq(p, 1, Len(p) - 1) \in Seq(Alphabet)
    BY <1>2, Pieces
  <2>2. Meaning(p) \in {"uptime", "load", "begun", "prefixOfExit", "sum", "invalid"}
    BY Meanings
  <2>3. QED
    BY <2>1, <2>2 DEF ReplyTo, Answer, Reply
<1>3. QED
  BY <1>1, <1>2

(* What a round does depends on the characters looked at only.                   *)
LEMMA Round ==
  ASSUME NEW h \in Handlers, h.my_char <= Len(h.buf),
         NEW p, p = SubSeq(h.buf, 1, h.my_char)
  PROVE  /\ p \in Seq(Alphabet) /\ Len(p) = h.my_char /\ Len(p) > 0
         /\ Meaning(p) \in {"uptime", "load", "sum"} => Look(h) = Answered(h, h.my_char, ReplyTo(p))
         /\ Meaning(p) = "begun" => Look(h) = Awaited(h)
         /\ Meaning(p) = "prefixOfExit" => Look(h) = Cut(h, Len(h.buf), Answer("prefixOfExit", 0), 0, FALSE)
         /\ Meaning(p) = "invalid" => Look(h) = Rejected(h, Length(p))
<1>1. h.buf \in Seq(Alphabet) /\ h.my_char \in 1..Len(h.buf)
  BY DEF Handlers
<1>2. p \in Seq(Alphabet) /\ Len(p) = h.my_char
  BY <1>1, Pieces
<1>8. Len(p) > 0
  BY <1>1, <1>2
<1>3. ASSUME Meaning(p) \in {"uptime", "load", "sum"}
      PROVE  Look(h) = Answered(h, h.my_char, ReplyTo(p))
  <2>1. CASE Meaning(p) = "sum"
    BY <1>2, <2>1 DEF Look, ReplyTo
  <2>2. CASE Meaning(p) # "sum"
    BY <1>2, <1>3, <2>2 DEF Look, ReplyTo
  <2>3. QED
    BY <2>1, <2>2
<1>4. Meaning(p) = "begun" => Look(h) = Awaited(h)
  BY DEF Look
<1>5. Meaning(p) = "prefixOfExit" => Look(h) = Cut(h, Len(h.buf), Answer("prefixOfExit", 0), 0, FALSE)
  BY DEF Look
<1>6. Meaning(p) = "invalid" => Look(h) = Rejected(h, Length(p))
  BY DEF Look
<1>7. QED
  BY <1>2, <1>3, <1>4, <1>5, <1>6, <1>8

(* A round that does not wait for the rest of a request answers one.             *)
LEMMA RoundCuts ==
  ASSUME NEW h \in Handlers, h.my_char <= Len(h.buf),
         NEW p, p = SubSeq(h.buf, 1, h.my_char), Meaning(p) # "begun"
  PROVE  \E n \in 1..Len(h.buf), reply \in Reply, numInvalid \in Nat, open \in BOOLEAN :
           n >= h.my_char - 1 /\ Look(h) = Cut(h, n, reply, numInvalid, open)
<1>1. h.my_char \in 1..Len(h.buf) /\ h.numInvalid \in Nat /\ Len(h.buf) \in 1..Len(h.buf)
  BY DEF Handlers
<1>2. p \in Seq(Alphabet) /\ Len(p) = h.my_char /\ Len(p) > 0
  BY Round
<1>3. CASE Meaning(p) \in {"uptime", "load", "sum"}
  <2>1. Look(h) = Cut(h, h.my_char, ReplyTo(p), 0, TRUE)
    BY <1>3, Round DEF Answered
  <2>2. ReplyTo(p) \in Reply
    BY <1>2, Replies
  <2>3. QED
    BY <1>1, <2>1, <2>2, h.my_char >= h.my_char - 1
<1>4. CASE Meaning(p) = "prefixOfExit"
  <2>1. Look(h) = Cut(h, Len(h.buf), Answer("prefixOfExit", 0), 0, FALSE)
    BY <1>4, Round
  <2>2. QED
    BY <1>1, <2>1, Replies, Len(h.buf) >= h.my_char - 1
<1>5. CASE Meaning(p) = "invalid"
  <2>1. Look(h) = Cut(h, Length(p), Answer("invalid", -1), h.numInvalid + 1, h.numInvalid < 2)
    BY <1>5, Round DEF Rejected
  <2>5. Length(p) \in 1..Len(p) /\ (Length(p) = Len(p) \/ Length(p) = Len(p) - 1)
    BY <1>2, Lengths
  <2>2. Length(p) \in 1..h.my_char /\ Length(p) >= h.my_char - 1
    BY <1>1, <1>2, <2>5
  <2>3. Length(p) \in 1..Len(h.buf) /\ h.numInvalid + 1 \in Nat /\ (h.numInvalid < 2) \in BOOLEAN
    BY <1>1, <2>2
  <2>4. QED
    BY <2>1, <2>2, <2>3, Replies
<1>6. QED
  BY <1>3, <1>4, <1>5, Meanings

(* A round leaves a handler.                                                     *)
LEMMA RoundType ==
  ASSUME NEW h \in Handlers, h.my_char <= Len(h.buf)
  PROVE  Look(h) \in Handlers /\ Placed(Look(h))
<1>1. PICK p : p = SubSeq(h.buf, 1, h.my_char)
  OBVIOUS
<1>2. CASE Meaning(p) = "begun"
  <2>1. Look(h) = Awaited(h)
    BY <1>1, <1>2, Round
  <2>2. Placed(Awaited(h))
    BY DEF Placed, Awaited, Handlers
  <2>3. QED
    BY <2>1, <2>2, AwaitedType
<1>3. CASE Meaning(p) # "begun"
  <2>1. PICK n \in 1..Len(h.buf), reply \in Reply, numInvalid \in Nat, open \in BOOLEAN :
          n >= h.my_char - 1 /\ Look(h) = Cut(h, n, reply, numInvalid, open)
    BY <1>1, <1>3, RoundCuts
  <2>2. n \in 0..Len(h.buf)
    OBVIOUS
  <2>3. QED
    BY <2>1, <2>2, CutType
<1>4. QED
  BY <1>2, <1>3

(* Handlers are the same if their fields are.                                    *)
LEMMA SameHandler ==
  ASSUME NEW g \in Handlers, NEW h \in Handlers, g.buf = h.buf, g.my_char = h.my_char,
         g.numInvalid = h.numInvalid, g.open = h.open, g.answers = h.answers
  PROVE  g = h
BY DEF Handlers

(* A handler with another buffer is one.                                         *)
LEMMA WithType ==
  ASSUME NEW h \in Handlers, NEW q \in Seq(Alphabet), NEW n \in Nat \ {0}
  PROVE  With(h, q, n) \in Handlers
BY DEF With, Handlers

(* The reference appends a character.                                            *)
LEMMA Appending ==
  ASSUME NEW h \in Handlers, NEW byte \in Alphabet
  PROVE  /\ [h EXCEPT !.buf = Append(h.buf, byte)] = With(h, Append(h.buf, byte), h.my_char)
         /\ With(h, Append(h.buf, byte), h.my_char) \in Handlers
<1>1. Append(h.buf, byte) \in Seq(Alphabet) /\ h.my_char \in Nat \ {0}
  BY DEF Handlers
<1> DEFINE q == Append(h.buf, byte)
           e == [h EXCEPT !.buf = q]
<1> HIDE DEF q
<1>2. e \in Handlers
  BY <1>1 DEF Handlers, q
<1>3. /\ e.buf = q /\ e.my_char = h.my_char /\ e.numInvalid = h.numInvalid
      /\ e.open = h.open /\ e.answers = h.answers
  BY DEF Handlers
<1> HIDE DEF e
<1>4. With(h, q, h.my_char) \in Handlers
  BY <1>1, WithType DEF q
<1>5. e = With(h, q, h.my_char)
  BY <1>2, <1>3, <1>4, SameHandler DEF With
<1>6. QED
  BY <1>4, <1>5 DEF e, q

(* After the last character the loop ends, or has one to look at again.          *)
LEMMA LastLook ==
  ASSUME NEW h \in Handlers, h.my_char = Len(h.buf)
  PROVE  Waiting(Look(h)) \/ (Look(h).my_char = 1 /\ Look(h).my_char = Len(Look(h).buf))
<1>1. PICK p : p = SubSeq(h.buf, 1, h.my_char)
  OBVIOUS
<1>2. h.buf \in Seq(Alphabet) /\ h.my_char \in Nat /\ h.my_char <= Len(h.buf)
  BY DEF Handlers
<1>3. PICK r : r = Look(h)
  OBVIOUS
<1>4. CASE Meaning(p) = "begun"
  <2>1. r = Awaited(h)
    BY <1>1, <1>2, <1>3, <1>4, Round
  <2>2. r.buf = h.buf /\ r.my_char = h.my_char + 1
    BY <2>1 DEF Awaited
  <2>3. QED
    BY <1>3, <2>2 DEF Waiting
<1>5. CASE Meaning(p) # "begun"
  <2>1. PICK n \in 1..Len(h.buf), reply \in Reply, numInvalid \in Nat, open \in BOOLEAN :
          n >= h.my_char - 1 /\ r = Cut(h, n, reply, numInvalid, open)
    BY <1>1, <1>2, <1>3, <1>5, RoundCuts
  <2>2. n \in 0..Len(h.buf) /\ (Len(h.buf) - n = 0 \/ Len(h.buf) - n = 1)
    BY <1>2, <2>1
  <2>3. Len(Drop(h.buf, n)) = 0 \/ Len(Drop(h.buf, n)) = 1
    BY <1>2, <2>2, Pieces
  <2>4. r.my_char = 1 /\ r.buf = Drop(h.buf, n)
    BY <2>1, <2>2, CutType
  <2>5. QED
    BY <1>3, <2>3, <2>4 DEF Waiting
<1>6. QED
  BY <1>4, <1>5

(* A single character is looked at once.                                         *)
LEMMA FirstLook ==
  ASSUME NEW h \in Handlers, h.my_char = Len(h.buf), h.my_char = 1
  PROVE  Waiting(Look(h)) /\ ~Busy(Look(h))
<1>1. PICK p : p = SubSeq(h.buf, 1, h.my_char)
  OBVIOUS
<1>2. h.buf \in Seq(Alphabet) /\ h.my_char \in Nat /\ h.my_char <= Len(h.buf)
  BY DEF Handlers
<1>3. PICK r : r = Look(h)
  OBVIOUS
<1>4. r \in Handlers
  BY <1>2, <1>3, RoundType
<1>5. r.my_char = Len(r.buf) + 1
  <2>1. CASE Meaning(p) = "begun"
    <3>1. r = Awaited(h)
      BY <1>1, <1>2, <1>3, <2>1, Round
    <3>2. r.buf = h.buf /\ r.my_char = h.my_char + 1
      BY <3>1 DEF Awaited
    <3>3. QED
      BY <3>2
  <2>2. CASE Meaning(p) # "begun"
    <3>1. PICK n \in 1..Len(h.buf), reply \in Reply, numInvalid \in Nat, open \in BOOLEAN :
            n >= h.my_char - 1 /\ r = Cut(h, n, reply, numInvalid, open)
      BY <1>1, <1>2, <1>3, <2>2, RoundCuts
    <3>2. n = Len(h.buf) /\ n \in 0..Len(h.buf)
      BY <1>2
    <3>3. Len(Drop(h.buf, n)) = Len(h.buf) - n
      BY <1>2, <3>2, Pieces
    <3>4. r.my_char = 1 /\ r.buf = Drop(h.buf, n)
      BY <3>1, <3>2, CutType
    <3>5. Len(h.buf) - n = 0
      <4> DEFINE m == Len(h.buf)
      <4>1. m \in Nat /\ n = m
        BY <1>2, <3>2
      <4> HIDE DEF m
      <4>2. m - n = 0
        BY <4>1
      <4>3. QED
        BY <4>2 DEF m
    <3>6. Len(r.buf) = 0
      BY <3>3, <3>4, <3>5
    <3>7. QED
      BY <3>4, <3>6
  <2>3. QED
    BY <2>1, <2>2
<1>6. ~(r.my_char <= Len(r.buf))
  BY <1>4, <1>5 DEF Handlers
<1>7. QED
  BY <1>3, <1>5, <1>6 DEF Waiting, Busy

(* The reference takes a character and waits for the next one, or closes.        *)
LEMMA ParsedType ==
  ASSUME NEW h \in Handlers, h.open => Waiting(h), NEW byte \in Alphabet
  PROVE  /\ Parsed(h, byte) \in Handlers
         /\ Parsed(h, byte).open => Waiting(Parsed(h, byte))
         /\ ~h.open => Parsed(h, byte) = h
<1>1. CASE ~h.open
  BY <1>1 DEF Parsed
<1>2. CASE h.open
  <2>1. PICK g : g = [h EXCEPT !.buf = Append(h.buf, byte)]
    OBVIOUS
  <2>3. h.buf \in Seq(Alphabet) /\ h.my_char = Len(h.buf) + 1
    BY <1>2 DEF Handlers, Waiting
  <2>2. g \in Handlers /\ g.buf = Append(h.buf, byte) /\ g.my_char = h.my_char
    BY <2>1, <2>3, Appending DEF With, Handlers
  <2>4. g.my_char = Len(g.buf)
    BY <2>2, <2>3
  <2>5. PICK r : r = Look(g)
    OBVIOUS
  <2>6. r \in Handlers /\ (Waiting(r) \/ (r.my_char = 1 /\ r.my_char = Len(r.buf)))
    BY <2>2, <2>4, <2>5, LastLook, RoundType
  <2>7. Parsed(h, byte) = Again(r)
    BY <1>2, <2>1, <2>5 DEF Parsed
  <2>8. CASE Busy(r)
    <3>1. r.my_char = 1 /\ r.my_char = Len(r.buf)
      BY <2>6, <2>8 DEF Busy, Waiting, Handlers
    <3>2. Again(r) = Look(r)
      BY <2>8 DEF Again
    <3>5. r.my_char <= Len(r.buf)
      BY <2>8 DEF Busy
    <3>3. Waiting(Look(r)) /\ Look(r) \in Handlers
      BY <2>6, <3>1, <3>5, FirstLook, RoundType
    <3>4. QED
      BY <1>2, <2>7, <3>2, <3>3
  <2>9. CASE ~Busy(r)
    <3>1. Again(r) = r
      BY <2>9 DEF Again
    <3>2. ASSUME r.open PROVE Waiting(r)
      <4>1. ~(r.my_char <= Len(r.buf))
        BY <2>9, <3>2 DEF Busy
      <4>2. r.my_char = Len(r.buf) => r.my_char <= Len(r.buf)
        BY <2>6 DEF Handlers
      <4>3. QED
        BY <2>6, <4>1, <4>2
    <3>3. QED
      BY <1>2, <2>6, <2>7, <3>1, <3>2
  <2>10. QED
    BY <2>8, <2>9
<1>3. QED
  BY <1>1, <1>2

-------------------------------------------------------------------------------
\* What the handler does and what the reference does

(* One character more of a buffer.                                               *)
LEMMA OneMore ==
  ASSUME NEW q \in Seq(Alphabet), NEW n \in 1..Len(q)
  PROVE  Append(SubSeq(q, 1, n - 1), q[n]) = SubSeq(q, 1, n)
<1> DEFINE s == SubSeq(q, 1, n - 1)
           t == SubSeq(q, 1, n)
<1>1. n \in Nat /\ n - 1 \in 0..Len(q) /\ n \in 0..Len(q) /\ q[n] \in Alphabet
  OBVIOUS
<1>2. s \in Seq(Alphabet) /\ Len(s) = n - 1 /\ \A i \in 1..(n - 1) : s[i] = q[i]
  BY <1>1, Pieces
<1>3. t \in Seq(Alphabet) /\ Len(t) = n /\ \A i \in 1..n : t[i] = q[i]
  BY <1>1, Pieces
<1> HIDE DEF s, t
<1> DEFINE a == Append(s, q[n])
<1>4. /\ a \in Seq(Alphabet) /\ Len(a) = n
      /\ \A i \in 1..(n - 1) : a[i] = s[i]
      /\ a[n] = q[n]
  <2>1. a \in Seq(Alphabet) /\ Len(a) = Len(s) + 1 /\ a[Len(s) + 1] = q[n]
    BY <1>1, <1>2
  <2>2. \A i \in 1..Len(s) : a[i] = s[i]
    BY <1>1, <1>2
  <2>3. Len(s) + 1 = n
    BY <1>1, <1>2
  <2>4. QED
    BY <1>2, <2>1, <2>2, <2>3
<1> HIDE DEF a
<1>5. \A i \in 1..n : a[i] = t[i]
  <2>1. ASSUME NEW i \in 1..n PROVE a[i] = t[i]
    <3>1. i = n \/ i \in 1..(n - 1)
      BY <1>1
    <3>2. QED
      BY <1>1, <1>2, <1>3, <1>4, <3>1
  <2>2. QED
    BY <2>1
<1>6. a = t
  BY <1>3, <1>4, <1>5, SeqEqual
<1>7. QED
  BY <1>6 DEF a, s, t

(* The entry after one that holds all but the last of the first n characters.    *)
LEMMA NextEntry ==
  ASSUME NEW h \in Handlers, h.open, NEW q \in Seq(Alphabet), NEW n \in 1..Len(q)
  PROVE  Parsed(With(h, SubSeq(q, 1, n - 1), n), q[n]) = Again(Look(With(h, SubSeq(q, 1, n), n)))
<1>1. PICK g : g = With(h, SubSeq(q, 1, n - 1), n)
  OBVIOUS
<1>2. n \in Nat \ {0} /\ n - 1 \in 0..Len(q) /\ q[n] \in Alphabet
  OBVIOUS
<1>3. g \in Handlers
  BY <1>1, <1>2, Pieces, WithType
<1>4. /\ g.buf = SubSeq(q, 1, n - 1) /\ g.my_char = n /\ g.numInvalid = h.numInvalid
      /\ g.open = h.open /\ g.answers = h.answers
  BY <1>1 DEF With
<1>5. [g EXCEPT !.buf = Append(g.buf, q[n])] = With(g, Append(g.buf, q[n]), g.my_char)
  BY <1>2, <1>3, Appending
<1>6. Append(g.buf, q[n]) = SubSeq(q, 1, n)
  BY <1>4, OneMore
<1>7. With(g, SubSeq(q, 1, n), n) = With(h, SubSeq(q, 1, n), n)
  BY <1>4 DEF With
<1>8. [g EXCEPT !.buf = Append(g.buf, q[n])] = With(h, SubSeq(q, 1, n), n)
  BY <1>4, <1>5, <1>6, <1>7
<1>9. Parsed(g, q[n]) = Again(Look([g EXCEPT !.buf = Append(g.buf, q[n])]))
  BY <1>4 DEF Parsed
<1>10. QED
  BY <1>1, <1>8, <1>9

(* Nothing that is looked at once, and alone, is looked at again.                *)
LEMMA FirstEntry ==
  ASSUME NEW h \in Handlers, Len(h.buf) > 0
  PROVE  Again(Look(Upto(h, 1))) = Look(Upto(h, 1))
<1>1. h.buf \in Seq(Alphabet) /\ 1 \in 0..Len(h.buf)
  BY DEF Handlers
<1>2. SubSeq(h.buf, 1, 1) \in Seq(Alphabet) /\ Len(SubSeq(h.buf, 1, 1)) = 1
  BY <1>1, Pieces
<1>3. PICK g : g = Upto(h, 1)
  OBVIOUS
<1>4. g \in Handlers
  BY <1>2, <1>3, 1 \in Nat \ {0}, WithType DEF Upto
<1>5. g.my_char = Len(g.buf) /\ g.my_char = 1
  BY <1>2, <1>3 DEF Upto, With
<1>6. ~Busy(Look(g))
  BY <1>4, <1>5, FirstLook
<1>7. QED
  BY <1>3, <1>6 DEF Again

(* The entry after one that waits with an empty buffer.                          *)
LEMMA FreshEntry ==
  ASSUME NEW h \in Handlers, h.open, h.buf = <<>>, h.my_char = 1,
         NEW g \in Handlers, Len(g.buf) > 0, g.my_char = 1,
         g.numInvalid = h.numInvalid, g.open = h.open, g.answers = h.answers
  PROVE  Parsed(h, g.buf[1]) = Look(Upto(g, 1))
<1>1. g.buf \in Seq(Alphabet) /\ 1 \in 1..Len(g.buf) /\ 0 \in 0..Len(g.buf)
  BY DEF Handlers
<1>2. SubSeq(g.buf, 1, 0) \in Seq(Alphabet) /\ Len(SubSeq(g.buf, 1, 0)) = 0
  BY <1>1, Pieces
<1>3. SubSeq(g.buf, 1, 0) = <<>>
  BY <1>2, EmptySeq
<1>4. With(h, SubSeq(g.buf, 1, 0), 1) = h
  <2>1. With(h, SubSeq(g.buf, 1, 0), 1) \in Handlers
    BY <1>2, 1 \in Nat \ {0}, WithType
  <2>2. QED
    BY <1>3, <2>1, SameHandler DEF With
<1>5. Parsed(With(h, SubSeq(g.buf, 1, 1 - 1), 1), g.buf[1])
        = Again(Look(With(h, SubSeq(g.buf, 1, 1), 1)))
  BY <1>1, NextEntry
<1>6. 1 - 1 = 0
  OBVIOUS
<1>7. With(h, SubSeq(g.buf, 1, 1), 1) = Upto(g, 1)
  BY DEF Upto, With
<1>8. QED
  BY <1>4, <1>5, <1>6, <1>7, FirstEntry

(* A handler that looks at a buffer of the characters up to my_char only.        *)
LEMMA UptoType ==
  ASSUME NEW h \in Handlers, h.my_char <= Len(h.buf),
         NEW g, g = Upto(h, h.my_char)
  PROVE  /\ g \in Handlers /\ g.buf = SubSeq(h.buf, 1, h.my_char)
         /\ g.my_char = h.my_char /\ Len(g.buf) = h.my_char
         /\ SubSeq(g.buf, 1, g.my_char) = SubSeq(h.buf, 1, h.my_char)
<1>1. h.buf \in Seq(Alphabet) /\ h.my_char \in 1..Len(h.buf) /\ h.my_char \in Nat \ {0}
  BY DEF Handlers
<1>2. SubSeq(h.buf, 1, h.my_char) \in Seq(Alphabet) /\ Len(SubSeq(h.buf, 1, h.my_char)) = h.my_char
  BY <1>1, Pieces
<1>3. g.buf = SubSeq(h.buf, 1, h.my_char) /\ g.my_char = h.my_char
  BY DEF Upto, With
<1>4. g \in Handlers
  BY <1>1, <1>2, WithType DEF Upto
<1>5. SubSeq(g.buf, 1, g.my_char) = g.buf
  BY <1>2, <1>3, SubSeqFull
<1>6. QED
  BY <1>2, <1>3, <1>4, <1>5

(* A round that awaits the rest of a request, with the whole buffer and without. *)
LEMMA BegunRound ==
  ASSUME NEW h \in Handlers, h.open, h.my_char <= Len(h.buf),
         Meaning(SubSeq(h.buf, 1, h.my_char)) = "begun"
  PROVE  /\ Look(h) = Awaited(h)
         /\ Again(Look(Upto(h, h.my_char)))
              = With(Awaited(h), SubSeq(h.buf, 1, h.my_char), h.my_char + 1)
<1>1. PICK g : g = Upto(h, h.my_char)
  OBVIOUS
<1>2. /\ g \in Handlers /\ g.buf = SubSeq(h.buf, 1, h.my_char)
      /\ g.my_char = h.my_char /\ Len(g.buf) = h.my_char
      /\ SubSeq(g.buf, 1, g.my_char) = SubSeq(h.buf, 1, h.my_char)
  BY <1>1, UptoType
<1>3. Look(h) = Awaited(h)
  BY Round
<1>4. Look(g) = Awaited(g)
  <2>1. g.my_char <= Len(g.buf)
    BY <1>2 DEF Handlers
  <2>2. QED
    BY <1>2, <2>1, Round
<1>5. Awaited(g) = With(Awaited(h), SubSeq(h.buf, 1, h.my_char), h.my_char + 1)
  BY <1>1, <1>2 DEF Awaited, With, Upto
<1>6. ~Busy(Awaited(g))
  <2>1. Awaited(g).buf = g.buf /\ Awaited(g).my_char = h.my_char + 1
    BY <1>2 DEF Awaited
  <2>2. ~(Awaited(g).my_char <= Len(Awaited(g).buf))
    <3>1. h.my_char \in Nat
      BY DEF Handlers
    <3>2. Len(Awaited(g).buf) = h.my_char
      BY <1>2, <2>1
    <3>3. QED
      BY <2>1, <3>1, <3>2
  <2>3. QED
    BY <2>2 DEF Busy
<1>7. QED
  BY <1>1, <1>3, <1>4, <1>5, <1>6 DEF Again

(* What is left of the first n characters when m of them are cut off.            *)
LEMMA LeftOver ==
  ASSUME NEW q \in Seq(Alphabet), NEW n \in 1..Len(q), NEW m \in 1..n
  PROVE  /\ m = n => Drop(SubSeq(q, 1, n), m) = <<>>
         /\ m = n - 1 => Drop(SubSeq(q, 1, n), m) = SubSeq(Drop(q, m), 1, 1)
<1> DEFINE p == SubSeq(q, 1, n)
           k == Len(q)
<1>1. k \in Nat /\ n \in 1..k /\ n \in 0..k /\ m \in 0..k
  OBVIOUS
<1>2. p \in Seq(Alphabet) /\ Len(p) = n /\ \A i \in 1..n : p[i] = q[i]
  BY <1>1, Pieces
<1>3. Drop(q, m) \in Seq(Alphabet) /\ Len(Drop(q, m)) = k - m
      /\ \A i \in 1..(k - m) : Drop(q, m)[i] = q[m + i]
  BY <1>1, Pieces
<1> HIDE DEF p
<1>4. m \in 0..Len(p)
  BY <1>2
<1>5. Drop(p, m) \in Seq(Alphabet) /\ Len(Drop(p, m)) = Len(p) - m
      /\ \A i \in 1..(Len(p) - m) : Drop(p, m)[i] = p[m + i]
  BY <1>2, <1>4, Pieces
<1>6. Len(Drop(p, m)) = n - m /\ \A i \in 1..(n - m) : Drop(p, m)[i] = p[m + i]
  BY <1>2, <1>5
<1> HIDE DEF k
<1>7. ASSUME m = n PROVE Drop(p, m) = <<>>
  <2>1. Len(Drop(p, m)) = 0
    BY <1>1, <1>6, <1>7
  <2>2. QED
    BY <1>5, <2>1, EmptySeq
<1>8. ASSUME m = n - 1 PROVE Drop(p, m) = SubSeq(Drop(q, m), 1, 1)
  <2>1. Len(Drop(p, m)) = 1 /\ Drop(p, m)[1] = p[m + 1] /\ m + 1 = n
    BY <1>1, <1>6, <1>8
  <2>2. 1 \in 0..Len(Drop(q, m)) /\ Drop(q, m)[1] = q[m + 1]
    BY <1>1, <1>3, <1>8
  <2>3. SubSeq(Drop(q, m), 1, 1) \in Seq(Alphabet) /\ Len(SubSeq(Drop(q, m), 1, 1)) = 1
        /\ \A i \in 1..1 : SubSeq(Drop(q, m), 1, 1)[i] = Drop(q, m)[i]
    BY <1>3, <2>2, Pieces
  <2>4. p[m + 1] = q[m + 1]
    BY <1>1, <1>2, <2>1
  <2>5. \A i \in 1..Len(Drop(p, m)) : Drop(p, m)[i] = SubSeq(Drop(q, m), 1, 1)[i]
    BY <2>1, <2>2, <2>3, <2>4
  <2>6. QED
    BY <1>5, <2>1, <2>3, <2>5, SeqEqual
<1>9. QED
  BY <1>7, <1>8 DEF p

(* A round that answers: the handler cuts the same off the whole buffer and off  *)
(* one that ends with the characters looked at, except when it hangs up.         *)
LEMMA CutRound ==
  ASSUME NEW h \in Handlers, h.open, h.my_char <= Len(h.buf),
         Meaning(SubSeq(h.buf, 1, h.my_char)) # "begun",
         NEW r, r = Look(h), NEW u, u = Look(Upto(h, h.my_char))
  PROVE  /\ r.my_char = 1 /\ u.my_char = 1
         /\ r.numInvalid = u.numInvalid /\ r.open = u.open /\ r.answers = u.answers
         /\ r.open => \E m \in 1..h.my_char :
              /\ r.buf = Drop(h.buf, m)
              /\ u.buf = Drop(SubSeq(h.buf, 1, h.my_char), m)
              /\ \/ m = h.my_char
                 \/ m = h.my_char - 1 /\ h.my_char > 1
                    /\ r.numInvalid = h.numInvalid + 1 /\ r.open = (h.numInvalid < 2)
<1> DEFINE p == SubSeq(h.buf, 1, h.my_char)
<1>1. PICK g : g = Upto(h, h.my_char)
  OBVIOUS
<1>2. r = Look(h) /\ u = Look(g)
  BY <1>1
<1>3. /\ g \in Handlers /\ g.buf = p /\ g.my_char = h.my_char
      /\ Len(g.buf) = h.my_char /\ SubSeq(g.buf, 1, g.my_char) = p
  BY <1>1, UptoType
<1>4. g.my_char <= Len(g.buf)
  BY <1>3 DEF Handlers
<1>5. p \in Seq(Alphabet) /\ Len(p) = h.my_char /\ Len(p) > 0
  BY Round
<1>6. g.numInvalid = h.numInvalid /\ g.answers = h.answers /\ g.open = h.open
  BY <1>1 DEF Upto, With
<1>7. h.my_char \in Nat /\ h.my_char > 0 /\ h.my_char \in 1..h.my_char
  BY DEF Handlers
<1>8. Meaning(p) # "begun"
  OBVIOUS
<1> HIDE DEF p
<1>9. CASE Meaning(p) \in {"uptime", "load", "sum"}
  <2>1. r = Cut(h, h.my_char, ReplyTo(p), 0, TRUE)
    BY <1>2, <1>9, Round DEF Answered, p
  <2>2. u = Cut(g, h.my_char, ReplyTo(p), 0, TRUE)
    BY <1>2, <1>3, <1>4, <1>9, Round DEF Answered
  <2>3. /\ r.my_char = 1 /\ u.my_char = 1
        /\ r.numInvalid = u.numInvalid /\ r.open = u.open /\ r.answers = u.answers
        /\ r.buf = Drop(h.buf, h.my_char) /\ u.buf = Drop(g.buf, h.my_char)
    BY <1>6, <2>1, <2>2 DEF Cut
  <2>4. u.buf = Drop(SubSeq(h.buf, 1, h.my_char), h.my_char)
    BY <1>3, <2>3 DEF p
  <2>5. QED
    BY <1>7, <2>3, <2>4
<1>10. CASE Meaning(p) = "prefixOfExit"
  <2>1. r = Cut(h, Len(h.buf), Answer("prefixOfExit", 0), 0, FALSE)
    BY <1>2, <1>10, Round DEF p
  <2>2. u = Cut(g, Len(g.buf), Answer("prefixOfExit", 0), 0, FALSE)
    BY <1>2, <1>3, <1>4, <1>10, Round
  <2>3. QED
    BY <1>1, <1>2, <1>6, <2>1, <2>2 DEF Cut
<1>11. CASE Meaning(p) = "invalid"
  <2>1. r = Cut(h, Length(p), Answer("invalid", -1), h.numInvalid + 1, h.numInvalid < 2)
    BY <1>2, <1>11, Round DEF Rejected, p
  <2>2. u = Cut(g, Length(p), Answer("invalid", -1), h.numInvalid + 1, h.numInvalid < 2)
    BY <1>2, <1>3, <1>4, <1>6, <1>11, Round DEF Rejected
  <2>3. Length(p) \in 1..Len(p) /\ (Length(p) = Len(p) \/ (Len(p) > 1 /\ Length(p) = Len(p) - 1))
    BY <1>5, Lengths
  <2>4. /\ Length(p) \in 1..h.my_char
        /\ Length(p) = h.my_char \/ (Length(p) = h.my_char - 1 /\ h.my_char > 1)
    BY <1>5, <2>3
  <2>5. r.buf = Drop(h.buf, Length(p)) /\ u.buf = Drop(p, Length(p))
    BY <1>3, <2>1, <2>2 DEF Cut
  <2>6. /\ r.my_char = 1 /\ u.my_char = 1
        /\ r.numInvalid = u.numInvalid /\ r.open = u.open /\ r.answers = u.answers
        /\ r.numInvalid = h.numInvalid + 1 /\ r.open = (h.numInvalid < 2)
    BY <1>6, <2>1, <2>2 DEF Cut
  <2>7. QED
    BY <1>1, <1>2, <2>4, <2>5, <2>6 DEF p
<1>12. QED
  BY <1>8, <1>9, <1>10, <1>11, Meanings

-------------------------------------------------------------------------------
\* A handler against the reference

(* The entry for the character the loop is at.                                   *)
LEMMA Entry ==
  ASSUME ConnTypeOK, Buffered, ReadOnce, InStep, handler.open,
         handler.my_char <= Len(handler.buf),
         NEW b, b = got - Len(handler.buf), NEW n, n = handler.my_char
  PROVE  parsed[b + n + 1] = Again(Look(Upto(handler, n)))
<1> DEFINE k == Len(handler.buf)
<1>1. handler \in Handlers /\ handler.buf \in Seq(Alphabet) /\ k \in Nat /\ k <= got /\ got \in 0..Len(sent)
  BY DEF ConnTypeOK, Handlers
<1>2. n \in 1..k /\ n \in Nat \ {0}
  BY <1>1 DEF Handlers
<1>3. Len(sent) \in Nat
  BY DEF ConnTypeOK
<1>4. CASE n = 1
  <2>1. handler.buf # <<>>
    BY <1>1, <1>2
  <2>2. parsed[b + 2] = Look(Upto(handler, 1))
    BY <2>1 DEF InStep
  <2>3. k > 0
    BY <1>1, <1>2
  <2>4. Again(Look(Upto(handler, 1))) = Look(Upto(handler, 1))
    BY <1>1, <2>3, FirstEntry
  <2>5. b \in Int
    BY <1>1
  <2>6. b + n + 1 = b + 2
    BY <1>4, <2>5
  <2>7. QED
    BY <1>4, <2>2, <2>4, <2>6
<1>5. CASE n > 1
  <2>1. parsed[b + n] = With(handler, SubSeq(handler.buf, 1, n - 1), n)
    BY <1>5 DEF InStep
  <2>2. b + n \in 1..Len(sent)
    <3> HIDE DEF k
    <3>1. b = got - k
      BY DEF k
    <3>2. QED
      BY <1>1, <1>2, <1>3, <3>1
  <2>3. parsed[b + n + 1] = Parsed(parsed[b + n], sent[b + n])
    BY <2>2 DEF ReadOnce
  <2>4. handler.buf[n] = sent[b + n]
    BY <1>2 DEF Buffered
  <2>5. QED
    BY <1>1, <1>2, <2>1, <2>3, <2>4, NextEntry DEF Upto
<1>6. QED
  BY <1>2, <1>4, <1>5

(* A handler that answered and stays open, with its buffer empty or not, is in  *)
(* step with the reference at the character after the request.                   *)
LEMMA CutInStep ==
  ASSUME ConnTypeOK, ReadOnce, Buffered, NEW r \in Handlers, r.my_char = 1, r.open,
         NEW m \in 1..Len(handler.buf), r.buf = Drop(handler.buf, m),
         NEW e \in Handlers, e.my_char = 1, e.numInvalid = r.numInvalid, e.open = r.open,
         e.answers = r.answers, e.buf = <<>>,
         parsed[got - Len(r.buf) + 1] = e
  PROVE  /\ r.buf = <<>> => parsed[got - Len(r.buf) + 1] = r
         /\ r.buf # <<>> => parsed[got - Len(r.buf) + 2] = Look(Upto(r, 1))
<1>0. PICK b : b = got - Len(r.buf)
  OBVIOUS
<1>1. r.buf = <<>> => parsed[b + 1] = r
  BY <1>0, SameHandler
<1>2. ASSUME r.buf # <<>> PROVE parsed[b + 2] = Look(Upto(r, 1))
  <2> DEFINE k == Len(handler.buf)
             l == Len(r.buf)
  <2>1. handler.buf \in Seq(Alphabet) /\ k \in Nat /\ k <= got /\ got \in 0..Len(sent)
        /\ m \in 0..k /\ m \in 1..k
    <3>1. handler \in Handlers /\ k <= got /\ got \in 0..Len(sent)
      BY DEF ConnTypeOK
    <3>2. handler.buf \in Seq(Alphabet) /\ m \in 1..k
      BY <3>1 DEF Handlers
    <3>3. k \in Nat
      BY <3>2
    <3> HIDE DEF k
    <3>4. m \in 0..k
      BY <3>2, <3>3
    <3>5. QED
      BY <3>1, <3>2, <3>3, <3>4
  <2>2. Len(sent) \in Nat
    BY DEF ConnTypeOK
  <2>3. l = k - m /\ \A i \in 1..(k - m) : r.buf[i] = handler.buf[m + i]
    <3>1. Len(Drop(handler.buf, m)) = Len(handler.buf) - m
          /\ \A i \in 1..(Len(handler.buf) - m) : Drop(handler.buf, m)[i] = handler.buf[m + i]
      BY <2>1, Pieces
    <3>2. QED
      BY <3>1
  <2>4. r.buf \in Seq(Alphabet) /\ l \in Nat
    BY DEF Handlers
  <2>5. l > 0
    BY <1>2, <2>4, EmptySeq
  <2>6. Parsed(e, r.buf[1]) = Look(Upto(r, 1))
    BY <2>5, FreshEntry
  <2>7. b = got - l /\ \A i \in 1..k : handler.buf[i] = sent[got - k + i]
    BY <1>0 DEF Buffered
  <2> HIDE DEF k, l
  <2>8. b + 1 \in 1..Len(sent) /\ m + 1 \in 1..k /\ got - k + (m + 1) = b + 1 /\ b + 1 + 1 = b + 2
    <3>1. b = got - l /\ l = k - m /\ l > 0 /\ l \in Nat
      BY <2>3, <2>4, <2>5, <2>7
    <3>2. m \in Nat /\ k \in Nat /\ got \in Nat
      BY <2>1, <2>2
    <3>3. m + 1 \in 1..k /\ got - k + (m + 1) = b + 1 /\ b + 1 + 1 = b + 2
      BY <3>1, <3>2
    <3>4. b + 1 >= 1 /\ b + 1 <= got /\ b \in Int
      BY <2>1, <3>1, <3>2
    <3>5. QED
      BY <2>1, <2>2, <3>3, <3>4
  <2>9. r.buf[1] = sent[b + 1]
    <3>1. 1 \in 1..(k - m)
      BY <2>1, <2>3, <2>4, <2>5
    <3>2. r.buf[1] = handler.buf[m + 1]
      BY <2>3, <3>1
    <3>3. QED
      BY <2>7, <2>8, <3>2
  <2>10. parsed[b + 1 + 1] = Parsed(parsed[b + 1], sent[b + 1])
    BY <2>8 DEF ReadOnce
  <2>11. QED
    BY <1>0, <2>6, <2>8, <2>9, <2>10
<1>3. QED
  BY <1>0, <1>1, <1>2

(* A buffer that keeps the last characters received still does when some are     *)
(* dropped from its front.                                                       *)
LEMMA DropBuffered ==
  ASSUME ConnTypeOK, Buffered, NEW m \in 0..Len(handler.buf),
         NEW q, q = Drop(handler.buf, m)
  PROVE  /\ Len(q) <= got
         /\ \A i \in 1..Len(q) : q[i] = sent[got - Len(q) + i]
<1> DEFINE k == Len(handler.buf)
           l == Len(q)
<1>1. handler.buf \in Seq(Alphabet) /\ k \in Nat /\ k <= got /\ got \in 0..Len(sent) /\ m \in 0..k
      /\ Len(sent) \in Nat
  <2>1. handler \in Handlers /\ k <= got /\ got \in 0..Len(sent) /\ sent \in Seq(Alphabet)
    BY DEF ConnTypeOK
  <2>2. handler.buf \in Seq(Alphabet) /\ m \in 0..k
    BY <2>1 DEF Handlers
  <2>3. k \in Nat /\ Len(sent) \in Nat
    BY <2>1, <2>2
  <2>4. QED
    BY <2>1, <2>2, <2>3
<1>2. l = k - m /\ \A i \in 1..(k - m) : q[i] = handler.buf[m + i]
  <2>1. Len(Drop(handler.buf, m)) = Len(handler.buf) - m
        /\ \A i \in 1..(Len(handler.buf) - m) : Drop(handler.buf, m)[i] = handler.buf[m + i]
    <3>1. handler.buf \in Seq(Alphabet)
      BY <1>1
    <3>2. QED
      BY <3>1, Pieces
  <2>2. QED
    BY <2>1
<1>3. \A i \in 1..k : handler.buf[i] = sent[got - k + i]
  BY DEF Buffered
<1>4. got \in Nat
  BY <1>1
<1> HIDE DEF k, l
<1>5. l <= got
  BY <1>1, <1>2, <1>4
<1>6. ASSUME NEW i \in 1..l PROVE q[i] = sent[got - l + i]
  <2>1. i \in 1..(k - m) /\ m + i \in 1..k /\ got - k + (m + i) = got - l + i
    BY <1>1, <1>2, <1>4
  <2>2. QED
    BY <1>2, <1>3, <2>1
<1>7. QED
  BY <1>5, <1>6 DEF l

(* What a round changes, and the buffer after it.                                *)
LEMMA ScanBuffered ==
  ASSUME ConnTypeOK, Buffered, Scan
  PROVE  ConnTypeOK' /\ Buffered'
<1>1. PICK r : r = Look(handler)
  OBVIOUS
<1>2. handler \in Handlers /\ handler.open /\ handler.my_char <= Len(handler.buf)
  BY DEF Scan, Busy, ConnTypeOK
<1>3. handler' = r /\ sent' = sent /\ got' = got /\ parsed' = parsed
  BY <1>1 DEF Scan
<1>4. r \in Handlers /\ Placed(r)
  BY <1>1, <1>2, RoundType
<1>5. PICK p : p = SubSeq(handler.buf, 1, handler.my_char)
  OBVIOUS
<1>6. Len(r.buf) <= got /\ \A i \in 1..Len(r.buf) : r.buf[i] = sent[got - Len(r.buf) + i]
  <2>1. CASE Meaning(p) = "begun"
    <3>1. r = Awaited(handler)
      BY <1>1, <1>2, <1>5, <2>1, Round
    <3>2. r.buf = handler.buf
      BY <3>1 DEF Awaited
    <3>3. QED
      BY <3>2 DEF Buffered, ConnTypeOK
  <2>2. CASE Meaning(p) # "begun"
    <3>1. PICK m \in 1..Len(handler.buf), reply \in Reply, numInvalid \in Nat, open \in BOOLEAN :
            m >= handler.my_char - 1 /\ r = Cut(handler, m, reply, numInvalid, open)
      BY <1>1, <1>2, <1>5, <2>2, RoundCuts
    <3>2. r.buf = Drop(handler.buf, m)
      BY <3>1 DEF Cut
    <3>3. m \in 0..Len(handler.buf)
      BY <3>1
    <3>4. QED
      BY <3>2, <3>3, DropBuffered
  <2>3. QED
    BY <2>1, <2>2
<1>7. ConnTypeOK'
  BY <1>3, <1>4, <1>6 DEF ConnTypeOK
<1>8. Buffered'
  BY <1>3, <1>6 DEF Buffered
<1>9. QED
  BY <1>7, <1>8

(* A round keeps the handler in step with the reference.                         *)
LEMMA ScanPreserves ==
  ASSUME StreamInv, Scan
  PROVE  StreamInv'
<1> DEFINE k == Len(handler.buf)
           n == handler.my_char
           b == got - k
           p == SubSeq(handler.buf, 1, n)
<1>1. ConnTypeOK /\ Buffered /\ ReadOnce
  BY DEF StreamInv
<1>2. handler \in Handlers /\ handler.open /\ n <= k
  BY <1>1 DEF Scan, Busy, ConnTypeOK
<1>3. InStep
  BY <1>2 DEF StreamInv
<1>4. PICK r, u : r = Look(handler) /\ u = Look(Upto(handler, n))
  OBVIOUS
<1>5. handler' = r /\ sent' = sent /\ got' = got /\ parsed' = parsed
  BY <1>4 DEF Scan
<1>6. ConnTypeOK' /\ Buffered'
  BY <1>1, ScanBuffered
<1>7. ReadOnce'
  BY <1>1, <1>5 DEF ReadOnce
<1>8. parsed[b + n + 1] = Again(u)
  BY <1>1, <1>2, <1>3, <1>4, Entry
<1>9. /\ handler.buf \in Seq(Alphabet) /\ k \in Nat /\ n \in 1..k /\ k <= got /\ got \in 0..Len(sent)
      /\ Len(sent) \in Nat /\ Len(parsed) = Len(sent) + 1 /\ r \in Handlers
  <2>1. /\ handler \in Handlers /\ k <= got /\ got \in 0..Len(sent) /\ sent \in Seq(Alphabet)
        /\ Len(parsed) = Len(sent) + 1
    BY <1>1 DEF ConnTypeOK
  <2>2. handler.buf \in Seq(Alphabet) /\ n \in Nat \ {0}
    BY <2>1 DEF Handlers
  <2>3. k \in Nat /\ Len(sent) \in Nat
    BY <2>1, <2>2
  <2>4. n \in 1..k
    <3> HIDE DEF n, k
    <3>1. QED
      BY <1>2, <2>2, <2>3
  <2>5. r \in Handlers
    BY <1>5, <1>6 DEF ConnTypeOK
  <2>6. QED
    BY <2>1, <2>2, <2>3, <2>4, <2>5
<1>10. u \in Handlers
  <2>1. PICK g : g = Upto(handler, n)
    OBVIOUS
  <2>2. g \in Handlers /\ g.my_char = n /\ Len(g.buf) = n
    BY <1>2, <2>1, UptoType
  <2>3. g.my_char <= Len(g.buf)
    BY <1>9, <2>2
  <2>4. QED
    BY <1>4, <2>1, <2>2, <2>3, RoundType
<1>11. CASE Meaning(p) = "begun"
  <2>1. r = Awaited(handler) /\ Again(u) = With(r, p, n + 1)
    BY <1>2, <1>4, <1>11, BegunRound
  <2>2. r.buf = handler.buf /\ r.my_char = n + 1 /\ r.numInvalid = 0 /\ r.open
        /\ r.answers = handler.answers
    BY <2>1 DEF Awaited
  <2>3. parsed[b + (n + 1)] = With(r, p, n + 1)
    <3>1. b + n + 1 = b + (n + 1)
      BY <1>9
    <3>2. QED
      BY <1>8, <2>1, <3>1
  <2>4. Meaning(SubSeq(handler.buf, 1, 1)) = "begun"
    <3>1. CASE n = 1
      BY <1>11, <3>1
    <3>2. CASE n # 1
      <4>1. n > 1
        BY <1>9, <3>2
      <4>2. QED
        BY <1>3, <4>1 DEF InStep
    <3>3. QED
      BY <3>1, <3>2
  <2>5. parsed[b + 2] = Look(Upto(r, 1))
    <3>0. handler.buf # <<>>
      BY <1>9
    <3>1. parsed[b + 2] = Look(Upto(handler, 1))
      BY <1>3, <3>0 DEF InStep
    <3>2. PICK g, f : g = Upto(handler, 1) /\ f = Upto(r, 1)
      OBVIOUS
    <3>3. 1 \in 0..k /\ 1 \in Nat \ {0}
      BY <1>9
    <3>4. SubSeq(handler.buf, 1, 1) \in Seq(Alphabet) /\ Len(SubSeq(handler.buf, 1, 1)) = 1
      BY <1>9, <3>3, Pieces
    <3>5. g \in Handlers /\ f \in Handlers
      BY <1>2, <1>9, <2>2, <3>2, <3>3, <3>4, WithType DEF Upto
    <3>6. /\ g.buf = SubSeq(handler.buf, 1, 1) /\ g.my_char = 1 /\ g.open
          /\ f.buf = SubSeq(handler.buf, 1, 1) /\ f.my_char = 1 /\ f.open
          /\ f.answers = g.answers
      BY <1>2, <2>2, <3>2 DEF Upto, With
    <3>7. SubSeq(g.buf, 1, g.my_char) = g.buf /\ SubSeq(f.buf, 1, f.my_char) = f.buf
      BY <3>4, <3>6, SubSeqFull
    <3>8. g.my_char <= Len(g.buf) /\ f.my_char <= Len(f.buf)
      BY <3>4, <3>6
    <3>9. Look(g) = Awaited(g) /\ Look(f) = Awaited(f)
      BY <2>4, <3>5, <3>6, <3>7, <3>8, Round
    <3>10. Awaited(g) = Awaited(f)
      BY <3>6 DEF Awaited
    <3>11. QED
      BY <3>1, <3>2, <3>9, <3>10
  <2>6. InStep'
    <3>1. handler.buf # <<>> /\ n + 1 - 1 = n
      BY <1>9
    <3>2. handler'.buf # <<>> /\ got' - Len(handler'.buf) = b
      BY <1>5, <2>2, <3>1
    <3>3. parsed'[b + 2] = Look(Upto(handler', 1))
      BY <1>5, <2>5
    <3>4. /\ handler'.numInvalid = 0
          /\ Meaning(SubSeq(handler'.buf, 1, 1)) = "begun"
          /\ parsed'[b + handler'.my_char]
               = With(handler', SubSeq(handler'.buf, 1, handler'.my_char - 1), handler'.my_char)
      <4>0. n + 1 = handler'.my_char /\ handler'.buf = handler.buf /\ n \in Nat
        BY <1>5, <1>9, <2>2
      <4>1. handler'.my_char = n + 1 /\ handler'.my_char - 1 = n /\ handler'.buf = handler.buf
        <5> HIDE DEF n
        <5>1. QED
          BY <4>0
      <4>2. handler'.numInvalid = 0 /\ parsed'[b + (n + 1)] = With(handler', p, n + 1)
        BY <1>5, <2>2, <2>3
      <4>3. QED
        BY <2>4, <4>1, <4>2
    <3>5. QED
      BY <3>2, <3>3, <3>4 DEF InStep
  <2>7. QED
    BY <1>5, <1>6, <1>7, <2>2, <2>6 DEF StreamInv
<1>12. CASE Meaning(p) # "begun"
  <2>1. /\ r.my_char = 1 /\ u.my_char = 1
        /\ r.numInvalid = u.numInvalid /\ r.open = u.open /\ r.answers = u.answers
        /\ r.open => \E m \in 1..n :
             /\ r.buf = Drop(handler.buf, m)
             /\ u.buf = Drop(p, m)
             /\ \/ m = n
                \/ m = n - 1 /\ n > 1
                   /\ r.numInvalid = handler.numInvalid + 1 /\ r.open = (handler.numInvalid < 2)
    BY <1>2, <1>4, <1>12, CutRound
  <2>2. CASE ~r.open
    <3>1. Again(u) = u
      BY <2>1, <2>2 DEF Again, Busy
    <3>2. b + n + 1 \in 1..(got + 1)
      <4> HIDE DEF k, n
      <4>1. QED
        BY <1>9
    <3>3. ~parsed[b + n + 1].open /\ parsed[b + n + 1].answers = r.answers
      BY <1>8, <2>1, <2>2, <3>1
    <3>4. HungUp'
      BY <1>5, <3>2, <3>3 DEF HungUp
    <3>5. QED
      BY <1>5, <1>6, <1>7, <2>2, <3>4 DEF StreamInv, Parted
  <2>3. CASE r.open
    <3>1. PICK m \in 1..n :
             /\ r.buf = Drop(handler.buf, m)
             /\ u.buf = Drop(p, m)
             /\ \/ m = n
                \/ m = n - 1 /\ n > 1
                   /\ r.numInvalid = handler.numInvalid + 1 /\ r.open = (handler.numInvalid < 2)
      BY <2>1, <2>3
    <3> DEFINE c == got - Len(r.buf)
    <3>2. Len(r.buf) = k - m /\ m \in 1..k
      <4>1. m \in 0..Len(handler.buf) /\ m \in 1..k
        BY <1>9
      <4>2. Len(Drop(handler.buf, m)) = Len(handler.buf) - m
        BY <1>9, <4>1, Pieces
      <4>3. QED
        BY <3>1, <4>1, <4>2
    <3>3. c = b + m /\ k - m \in Nat /\ got \in Nat
      BY <1>9, <3>2
    <3>4. /\ r.buf = <<>> => parsed[c + 1] = r
          /\ r.buf # <<>> => parsed[c + 2] = Look(Upto(r, 1))
      <4>1. CASE m = n
        <5>1. u.buf = <<>>
          BY <1>9, <3>1, <4>1, LeftOver
        <5>2. Again(u) = u
          <6>1. ~(u.my_char <= Len(u.buf))
            BY <2>1, <5>1, EmptySeq
          <6>2. QED
            BY <6>1 DEF Again, Busy
        <5>3. parsed[c + 1] = u
          BY <1>8, <1>9, <3>3, <4>1, <5>2
        <5>4. m \in 1..Len(handler.buf)
          BY <3>2
        <5>5. /\ r \in Handlers /\ r.my_char = 1 /\ r.open /\ r.buf = Drop(handler.buf, m)
              /\ u \in Handlers /\ u.my_char = 1 /\ u.numInvalid = r.numInvalid
              /\ u.open = r.open /\ u.answers = r.answers /\ u.buf = <<>>
          BY <1>9, <1>10, <2>1, <2>3, <3>1, <5>1
        <5>6. QED
          BY <1>1, <5>3, <5>4, <5>5, CutInStep
      <4>2. CASE m = n - 1 /\ n > 1
        <5>1. u.buf = SubSeq(r.buf, 1, 1)
          BY <1>9, <3>1, <4>2, LeftOver
        <5>2. Len(r.buf) > 0 /\ 1 \in 0..Len(r.buf) /\ r.buf \in Seq(Alphabet)
          BY <1>9, <3>2, <4>2 DEF Handlers
        <5>3. u = Upto(r, 1)
          <6>1. Upto(r, 1) \in Handlers
            BY <1>9, <5>2, Pieces, 1 \in Nat \ {0}, WithType DEF Upto
          <6>2. QED
            BY <1>10, <2>1, <5>1, <6>1, SameHandler DEF Upto, With
        <5>4. Busy(u)
          <6>1. Len(SubSeq(r.buf, 1, 1)) = 1
            BY <5>2, Pieces
          <6>2. u.my_char <= Len(u.buf)
            BY <2>1, <5>1, <6>1
          <6>3. QED
            BY <2>1, <2>3, <6>2 DEF Busy
        <5>5. parsed[b + n + 1] = Look(Upto(r, 1))
          BY <1>8, <5>3, <5>4 DEF Again
        <5>6. b + n + 1 = c + 2
          <6>1. b \in Int /\ n \in Int /\ m \in Int
            BY <1>9
          <6> HIDE DEF b, c, n
          <6>2. QED
            BY <3>3, <4>2, <6>1
        <5>7. r.buf # <<>>
          BY <5>2
        <5>8. QED
          BY <5>5, <5>6, <5>7
      <4>3. QED
        BY <3>1, <4>1, <4>2
    <3>5. InStep'
      <4>1. ~(r.my_char > 1)
        BY <2>1
      <4>2. QED
        BY <1>5, <3>4, <4>1 DEF InStep
    <3>6. QED
      BY <1>5, <1>6, <1>7, <2>3, <3>5 DEF StreamInv
  <2>4. QED
    BY <2>2, <2>3
<1>13. QED
  BY <1>11, <1>12

-------------------------------------------------------------------------------
\* The handler and the reference stay in step

(* The first handler is the first entry.                                         *)
LEMMA InitStream == ConnInit => StreamInv
<1> SUFFICES ASSUME ConnInit PROVE StreamInv
  OBVIOUS
<1>1. <<>> \in Seq(Alphabet) /\ <<>> \in Seq(Reply) /\ Len(<<>>) = 0
  BY EmptySeq
<1>2. Start \in Handlers /\ Placed(Start) /\ Waiting(Start)
      /\ Start.buf = <<>> /\ Start.my_char = 1 /\ Start.open
  BY <1>1 DEF Start, Handlers, Placed, Waiting
<1>3. parsed \in Seq(Handlers) /\ Len(parsed) = 1 /\ parsed[1] = Start
  BY <1>2 DEF ConnInit
<1>4. sent = <<>> /\ got = 0 /\ handler = Start /\ Len(sent) = 0
  BY <1>1 DEF ConnInit
<1>5. ConnTypeOK
  BY <1>1, <1>2, <1>3, <1>4 DEF ConnTypeOK
<1>6. Buffered
  BY <1>1, <1>2, <1>4 DEF Buffered
<1>7. ReadOnce
  BY <1>2, <1>3, <1>4 DEF ReadOnce
<1>8. InStep
  <2>1. got - Len(handler.buf) + 1 = 1
    BY <1>1, <1>2, <1>4
  <2>2. ~(handler.my_char > 1)
    BY <1>2, <1>4
  <2>3. QED
    BY <1>2, <1>3, <1>4, <2>1, <2>2 DEF InStep
<1>9. QED
  BY <1>2, <1>4, <1>5, <1>6, <1>7, <1>8 DEF StreamInv

(* A character sent makes an entry; the handler, and the entries it stands at,   *)
(* stay.                                                                         *)
LEMMA SendPreserves ==
  ASSUME StreamInv, NEW byte \in Alphabet, Send(byte)
  PROVE  StreamInv'
<1> DEFINE s == Len(sent)
<1>1. ConnTypeOK /\ Buffered /\ ReadOnce
  BY DEF StreamInv
<1>2. handler' = handler /\ got' = got /\ sent' = Append(sent, byte) /\ handler.open
  BY DEF Send
<1>3. /\ sent \in Seq(Alphabet) /\ s \in Nat /\ got \in 0..s /\ handler \in Handlers
      /\ Len(handler.buf) \in Nat /\ Len(handler.buf) <= got
      /\ parsed \in Seq(Handlers) /\ Len(parsed) = s + 1
  BY <1>1 DEF ConnTypeOK, Handlers
<1>4. PICK last : last = parsed[s + 1]
  OBVIOUS
<1>5. last \in Handlers /\ (last.open => Waiting(last))
  <2>1. s + 1 \in 1..Len(parsed)
    BY <1>3
  <2>2. QED
    BY <1>1, <1>3, <1>4, <2>1 DEF ReadOnce
<1>6. PICK new : new = Parsed(last, byte)
  OBVIOUS
<1>7. new \in Handlers /\ (new.open => Waiting(new)) /\ (~last.open => new = last)
  BY <1>5, <1>6, ParsedType
<1>8. parsed' = Append(parsed, new)
  <2>1. Last(parsed) = last
    BY <1>3, <1>4 DEF Last
  <2>2. QED
    BY <1>6, <2>1 DEF Send
<1>9. /\ sent' \in Seq(Alphabet) /\ Len(sent') = s + 1 /\ sent'[s + 1] = byte
      /\ \A i \in 1..s : sent'[i] = sent[i]
  BY <1>2, <1>3
<1>10. /\ parsed' \in Seq(Handlers) /\ Len(parsed') = s + 2 /\ parsed'[s + 2] = new
       /\ \A i \in 1..(s + 1) : parsed'[i] = parsed[i]
  <2>1. /\ parsed' \in Seq(Handlers) /\ Len(parsed') = Len(parsed) + 1
        /\ parsed'[Len(parsed) + 1] = new
        /\ \A i \in 1..Len(parsed) : parsed'[i] = parsed[i]
    BY <1>3, <1>7, <1>8
  <2>2. Len(parsed) + 1 = s + 2
    BY <1>3
  <2>3. QED
    BY <1>3, <2>1, <2>2
<1> HIDE DEF s
<1>11. ConnTypeOK'
  <2>1. got' \in 0..Len(sent') /\ Len(parsed') = Len(sent') + 1
    BY <1>2, <1>3, <1>9, <1>10
  <2>2. Placed(handler') /\ handler' \in Handlers /\ Len(handler'.buf) <= got'
    BY <1>1, <1>2, <1>3 DEF ConnTypeOK
  <2>3. QED
    BY <1>9, <1>10, <2>1, <2>2 DEF ConnTypeOK
<1>12. Buffered'
  <2>1. ASSUME NEW i \in 1..Len(handler.buf)
        PROVE  handler.buf[i] = sent'[got - Len(handler.buf) + i]
    <3>1. handler.buf[i] = sent[got - Len(handler.buf) + i]
      BY <1>1, <2>1 DEF Buffered
    <3>2. got - Len(handler.buf) + i \in 1..s
      <4> DEFINE k == Len(handler.buf)
      <4>1. k \in Nat /\ k <= got /\ got \in 0..s /\ s \in Nat /\ i \in 1..k
        BY <1>3, <2>1
      <4> HIDE DEF k
      <4>2. got - k + i \in 1..s
        BY <4>1
      <4>3. QED
        BY <4>2 DEF k
    <3>3. QED
      BY <1>9, <3>1, <3>2
  <2>2. QED
    BY <1>2, <2>1 DEF Buffered
<1>13. ReadOnce'
  <2>1. \A i \in 1..Len(sent') : parsed'[i + 1] = Parsed(parsed'[i], sent'[i])
    <3>1. ASSUME NEW i \in 1..s PROVE parsed'[i + 1] = Parsed(parsed'[i], sent'[i])
      <4>1. parsed[i + 1] = Parsed(parsed[i], sent[i])
        BY <1>1, <3>1 DEF ReadOnce, s
      <4>2. i \in 1..(s + 1) /\ i + 1 \in 1..(s + 1)
        BY <1>3, <3>1
      <4>3. QED
        BY <1>9, <1>10, <3>1, <4>1, <4>2
    <3>2. parsed'[(s + 1) + 1] = Parsed(parsed'[s + 1], sent'[s + 1])
      <4>1. s + 1 \in 1..(s + 1) /\ (s + 1) + 1 = s + 2
        BY <1>3
      <4>2. QED
        BY <1>4, <1>6, <1>9, <1>10, <4>1
    <3>3. ASSUME NEW i \in 1..(s + 1) PROVE i \in 1..s \/ i = s + 1
      BY <1>3
    <3>4. QED
      BY <1>9, <3>1, <3>2, <3>3
  <2>2. ASSUME NEW i \in 1..(s + 2) PROVE i \in 1..(s + 1) \/ i = s + 2
    BY <1>3
  <2>3. Len(parsed) = s + 1
    BY <1>3 DEF s
  <2>4. \A i \in 1..Len(parsed') : parsed'[i].open => Waiting(parsed'[i])
    <3>1. \A i \in 1..(s + 1) : parsed[i].open => Waiting(parsed[i])
      BY <1>1, <2>3 DEF ReadOnce
    <3>2. QED
      BY <1>7, <1>10, <2>2, <3>1
  <2>5. \A i, j \in 1..Len(parsed') : i <= j /\ ~parsed'[i].open => parsed'[j] = parsed'[i]
    <3>1. \A i, j \in 1..(s + 1) : i <= j /\ ~parsed[i].open => parsed[j] = parsed[i]
      BY <1>1, <2>3 DEF ReadOnce
    <3>2. ASSUME NEW i \in 1..(s + 2), NEW j \in 1..(s + 2), i <= j, ~parsed'[i].open
          PROVE  parsed'[j] = parsed'[i]
      <4>1. CASE i \in 1..(s + 1) /\ j \in 1..(s + 1)
        BY <1>10, <3>1, <3>2, <4>1
      <4>2. CASE i \in 1..(s + 1) /\ j = s + 2
        <5>1. s + 1 \in 1..(s + 1) /\ i <= s + 1
          BY <1>3, <4>2
        <5>2. last = parsed[i] /\ ~last.open
          BY <1>4, <1>10, <3>1, <3>2, <4>2, <5>1
        <5>3. QED
          BY <1>7, <1>10, <4>2, <5>2
      <4>3. CASE i = s + 2
        <5>1. j = s + 2
          BY <1>3, <3>2, <4>3
        <5>2. QED
          BY <4>3, <5>1
      <4>4. QED
        BY <2>2, <3>2, <4>1, <4>2, <4>3
    <3>3. QED
      BY <1>10, <3>2
  <2>6. QED
    BY <2>1, <2>4, <2>5 DEF ReadOnce
<1>14. InStep'
  <2>1. InStep
    BY <1>2 DEF StreamInv
  <2> DEFINE k == Len(handler.buf)
             n == handler.my_char
             b == got - k
  <2>2. k \in Nat /\ n \in 1..(k + 1) /\ b \in 0..(s - k)
    <3>1. n <= k + 1 /\ n \in Nat \ {0}
      BY <1>1, <1>3 DEF ConnTypeOK, Placed, Handlers
    <3>2. k \in Nat /\ k <= got /\ got \in 0..s /\ s \in Nat
      BY <1>3
    <3> HIDE DEF k, n
    <3>3. QED
      BY <3>1, <3>2
  <2>3. handler.buf = <<>> => parsed'[b + 1] = handler
    <3>1. b + 1 \in 1..(s + 1)
      <4> HIDE DEF k, b
      <4>1. QED
        BY <1>3, <2>2
    <3>2. QED
      BY <1>10, <2>1, <3>1 DEF InStep
  <2>4. handler.buf # <<>> => parsed'[b + 2] = Look(Upto(handler, 1))
    <3>1. ASSUME handler.buf # <<>> PROVE b + 2 \in 1..(s + 1)
      <4>1. k > 0
        BY <1>3, <3>1, EmptySeq DEF Handlers
      <4> HIDE DEF k, b
      <4>2. QED
        BY <1>3, <2>2, <4>1
    <3>2. QED
      BY <1>10, <2>1, <3>1 DEF InStep
  <2>5. n > 1 => /\ handler.numInvalid = 0
                 /\ Meaning(SubSeq(handler.buf, 1, 1)) = "begun"
                 /\ parsed'[b + n] = With(handler, SubSeq(handler.buf, 1, n - 1), n)
    <3>1. b + n \in 1..(s + 1)
      <4> HIDE DEF k, b, n
      <4>1. QED
        BY <1>3, <2>2
    <3>2. QED
      BY <1>10, <2>1, <3>1 DEF InStep
  <2>6. QED
    BY <1>2, <2>3, <2>4, <2>5 DEF InStep
<1>15. QED
  BY <1>2, <1>11, <1>12, <1>13, <1>14 DEF StreamInv

(* What is received is appended, and the loop starts again at the first          *)
(* character: what it looks at again has begun a request and still does.         *)
LEMMA RecvPreserves ==
  ASSUME StreamInv, NEW n \in 1..(Len(sent) - got), Recv(n)
  PROVE  StreamInv'
<1> DEFINE k == Len(handler.buf)
           s == Len(sent)
           b == got - k
           more == SubSeq(sent, got + 1, got + n)
           q == handler.buf \o more
<1>1. ConnTypeOK /\ Buffered /\ ReadOnce
  BY DEF StreamInv
<1>2. handler.open /\ ~(handler.my_char <= k)
  BY DEF Recv, Busy
<1>3. /\ handler \in Handlers /\ handler.buf \in Seq(Alphabet) /\ k \in Nat /\ k <= got /\ s \in Nat
      /\ got \in 0..s /\ sent \in Seq(Alphabet) /\ n \in Nat \ {0} /\ got + n \in 0..s
  <2>1. /\ handler \in Handlers /\ handler.buf \in Seq(Alphabet) /\ k \in Nat /\ k <= got
        /\ s \in Nat /\ got \in 0..s /\ sent \in Seq(Alphabet)
    <3>1. /\ handler \in Handlers /\ k <= got /\ got \in 0..s /\ sent \in Seq(Alphabet)
      BY <1>1 DEF ConnTypeOK
    <3>2. handler.buf \in Seq(Alphabet)
      BY <3>1 DEF Handlers
    <3>3. k \in Nat /\ s \in Nat
      BY <3>1, <3>2
    <3>4. QED
      BY <3>1, <3>2, <3>3
  <2>2. n \in 1..(s - got)
    OBVIOUS
  <2> HIDE DEF s
  <2>3. n \in Nat \ {0} /\ got + n \in 0..s
    BY <2>1, <2>2
  <2>4. QED
    BY <2>1, <2>3
<1>4. more \in Seq(Alphabet) /\ Len(more) = n /\ \A i \in 1..n : more[i] = sent[got + i]
  <2>1. \A i \in (got + 1)..(got + n) : sent[i] \in Alphabet
    BY <1>3
  <2>2. got + 1 \in Int /\ got + n \in Int /\ got + 1 <= got + n
    BY <1>3
  <2>3. /\ more \in Seq(Alphabet)
        /\ Len(more) = IF got + 1 <= got + n THEN (got + n) - (got + 1) + 1 ELSE 0
        /\ \A i \in 1..((got + n) - (got + 1) + 1) : more[i] = sent[(got + 1) + i - 1]
    BY <2>1, <2>2, SubSeqProperties
  <2>4. (got + n) - (got + 1) + 1 = n /\ \A i \in 1..n : (got + 1) + i - 1 = got + i
    BY <1>3
  <2>5. QED
    BY <2>2, <2>3, <2>4
<1> HIDE DEF more
<1>5. /\ q \in Seq(Alphabet) /\ Len(q) = k + n
      /\ \A i \in 1..k : q[i] = handler.buf[i]
      /\ \A i \in 1..n : q[k + i] = more[i]
  <2>1. /\ q \in Seq(Alphabet) /\ Len(q) = Len(handler.buf) + Len(more)
        /\ \A i \in 1..(Len(handler.buf) + Len(more)) :
             q[i] = IF i <= Len(handler.buf) THEN handler.buf[i] ELSE more[i - Len(handler.buf)]
    <3>1. handler.buf \in Seq(Alphabet) /\ more \in Seq(Alphabet)
      BY <1>3, <1>4
    <3>2. QED
      BY <3>1, ConcatProperties
  <2>2. /\ Len(q) = k + n
        /\ \A i \in 1..(k + n) : q[i] = IF i <= k THEN handler.buf[i] ELSE more[i - k]
    BY <1>4, <2>1
  <2> HIDE DEF k
  <2>3. ASSUME NEW i \in 1..k PROVE q[i] = handler.buf[i]
    BY <1>3, <2>2
  <2>4. ASSUME NEW i \in 1..n PROVE q[k + i] = more[i]
    <3>1. k + i \in 1..(k + n) /\ ~(k + i <= k) /\ (k + i) - k = i
      BY <1>3
    <3>2. QED
      BY <2>2, <3>1
  <2>5. QED
    BY <2>1, <2>2, <2>3, <2>4
<1>6. handler.numInvalid \in Nat /\ handler.answers \in Seq(Reply)
  BY <1>3 DEF Handlers
<1> HIDE DEF q
<1>7. PICK r : r = With(handler, q, 1)
  OBVIOUS
<1>8. /\ r \in Handlers /\ r.buf = q /\ r.my_char = 1 /\ r.open
      /\ r.numInvalid = handler.numInvalid /\ r.answers = handler.answers
  <2>1. r \in Handlers
    BY <1>3, <1>5, <1>7, 1 \in Nat \ {0}, WithType
  <2>2. QED
    BY <1>2, <1>7, <2>1 DEF With
<1>9. handler' = r /\ got' = got + n /\ sent' = sent /\ parsed' = parsed
  <2>1. handler' = [handler EXCEPT !.buf = q, !.my_char = 1]
    BY DEF Recv, q, more
  <2>2. PICK e : e = [handler EXCEPT !.buf = q]
    OBVIOUS
  <2>3. /\ e \in Handlers /\ e.buf = q /\ e.numInvalid = handler.numInvalid
        /\ e.open = handler.open /\ e.answers = handler.answers
    BY <1>3, <1>5, <2>2 DEF Handlers
  <2>4. handler' = [e EXCEPT !.my_char = 1]
    BY <2>1, <2>2
  <2>5. handler' \in Handlers
    BY <2>3, <2>4 DEF Handlers
  <2>6. handler'.buf = q /\ handler'.my_char = 1 /\ handler'.numInvalid = handler.numInvalid
        /\ handler'.open = handler.open /\ handler'.answers = handler.answers
    BY <2>3, <2>4 DEF Handlers
  <2>7. handler' = r
    BY <1>2, <1>8, <2>5, <2>6, SameHandler
  <2>8. QED
    BY <2>7 DEF Recv
<1>10. Len(r.buf) = k + n
  BY <1>5, <1>8
<1>11. ConnTypeOK'
  <2> HIDE DEF k, s
  <2>1. Placed(r) /\ Len(r.buf) <= got + n /\ got + n \in 0..Len(sent)
    BY <1>3, <1>8, <1>10 DEF Placed, s
  <2>2. QED
    BY <1>1, <1>8, <1>9, <2>1 DEF ConnTypeOK
<1>12. \A i \in 1..(k + n) : q[i] = sent[b + i]
  <2>1. \A i \in 1..k : handler.buf[i] = sent[b + i]
    BY <1>1 DEF Buffered
  <2>2. \A i \in 1..n : q[k + i] = sent[got + i]
    BY <1>4, <1>5
  <2>3. b \in Int /\ got = b + k
    BY <1>3
  <2> HIDE DEF b, k
  <2>4. ASSUME NEW i \in 1..(k + n), i > k PROVE q[i] = sent[b + i]
    <3>1. i - k \in 1..n /\ k + (i - k) = i /\ got + (i - k) = b + i
      BY <1>3, <2>3, <2>4
    <3>2. q[k + (i - k)] = sent[got + (i - k)]
      BY <2>2, <3>1
    <3>3. QED
      BY <3>1, <3>2
  <2>5. ASSUME NEW i \in 1..(k + n), ~(i > k) PROVE i \in 1..k
    BY <1>3, <2>5
  <2>6. QED
    BY <1>5, <2>1, <2>4, <2>5
<1>13. got' - Len(handler'.buf) = b
  <2> HIDE DEF k
  <2>1. QED
    BY <1>3, <1>9, <1>10
<1>14. Buffered'
  <2>1. Len(handler'.buf) = k + n /\ handler'.buf = q
    BY <1>8, <1>9, <1>10
  <2>2. QED
    BY <1>9, <1>12, <1>13, <2>1 DEF Buffered
<1>15. ReadOnce'
  BY <1>1, <1>9 DEF ReadOnce
<1>16. InStep
  BY <1>2 DEF StreamInv
<1>17. parsed[b + 2] = Look(Upto(r, 1))
  <2>1. CASE handler.buf = <<>>
    <3>1. k = 0
      BY <2>1, EmptySeq
    <3>2. handler.my_char = 1
      BY <1>1, <1>2, <1>3, <3>1 DEF ConnTypeOK, Placed, Handlers
    <3>3. parsed[b + 1] = handler
      BY <1>16, <2>1 DEF InStep
    <3>4. Len(r.buf) > 0 /\ 1 \in 1..(k + n) /\ b + 1 \in 1..s /\ b + 1 + 1 = b + 2
      BY <1>3, <1>10, <3>1
    <3>5. r.buf[1] = sent[b + 1]
      BY <1>8, <1>12, <3>4
    <3>6. Parsed(handler, r.buf[1]) = Look(Upto(r, 1))
      BY <1>2, <1>3, <1>8, <2>1, <3>2, <3>4, FreshEntry
    <3>7. parsed[b + 1 + 1] = Parsed(parsed[b + 1], sent[b + 1])
      BY <1>1, <3>4 DEF ReadOnce
    <3>8. QED
      BY <3>3, <3>4, <3>5, <3>6, <3>7
  <2>2. CASE handler.buf # <<>>
    <3>1. parsed[b + 2] = Look(Upto(handler, 1))
      BY <1>16, <2>2 DEF InStep
    <3>2. k > 0
      BY <1>3, <2>2, EmptySeq
    <3>3. 1 \in 0..Len(handler.buf) /\ 1 \in 0..Len(q) /\ 1 \in 1..k
      BY <1>3, <1>5, <3>2
    <3>4. /\ SubSeq(handler.buf, 1, 1) \in Seq(Alphabet) /\ Len(SubSeq(handler.buf, 1, 1)) = 1
          /\ SubSeq(q, 1, 1) \in Seq(Alphabet) /\ Len(SubSeq(q, 1, 1)) = 1
          /\ \A i \in 1..1 : SubSeq(handler.buf, 1, 1)[i] = handler.buf[i]
          /\ \A i \in 1..1 : SubSeq(q, 1, 1)[i] = q[i]
      <4>1. handler.buf \in Seq(Alphabet) /\ q \in Seq(Alphabet)
        BY <1>3, <1>5
      <4>2. QED
        BY <3>3, <4>1, Pieces
    <3>5. q[1] = handler.buf[1]
      BY <1>5, <3>3
    <3>6. \A i \in 1..1 : SubSeq(q, 1, 1)[i] = SubSeq(handler.buf, 1, 1)[i]
      BY <3>4, <3>5
    <3>7. SubSeq(q, 1, 1) = SubSeq(handler.buf, 1, 1)
      BY <3>4, <3>6, SeqEqual
    <3>8. Upto(r, 1) = Upto(handler, 1)
      BY <1>2, <1>8, <3>7 DEF Upto, With
    <3>9. QED
      BY <3>1, <3>8
  <2>3. QED
    BY <2>1, <2>2
<1>18. InStep'
  <2>1. handler'.buf # <<>>
    <3>1. k + n # 0
      <4> HIDE DEF k
      <4>1. QED
        BY <1>3
    <3>2. QED
      BY <1>9, <1>10, <3>1, EmptySeq
  <2>2. ~(handler'.my_char > 1)
    BY <1>8, <1>9
  <2>3. parsed'[b + 2] = Look(Upto(handler', 1))
    BY <1>9, <1>17
  <2>4. QED
    BY <1>13, <2>1, <2>2, <2>3 DEF InStep
<1>19. QED
  BY <1>8, <1>9, <1>11, <1>14, <1>15, <1>18 DEF StreamInv

(* A handler that runs and waits for more of the stream is where the reference is. *)
LEMMA AtRest ==
  ASSUME StreamInv, ~Busy(handler), handler.open
  PROVE  handler = parsed[got + 1]
<1> DEFINE k == Len(handler.buf)
           n == handler.my_char
<1>1. ConnTypeOK /\ ReadOnce
  BY DEF StreamInv
<1>2. /\ handler \in Handlers /\ handler.buf \in Seq(Alphabet) /\ k \in Nat /\ k <= got
      /\ Len(sent) \in Nat /\ got \in 0..Len(sent) /\ n \in Nat \ {0} /\ n <= k + 1
  BY <1>1 DEF ConnTypeOK, Handlers, Placed
<1>3. InStep /\ n = k + 1
  BY <1>2 DEF StreamInv, Busy
<1>4. CASE n = 1
  <2>1. k = 0
    BY <1>2, <1>3, <1>4
  <2>2. handler.buf = <<>>
    BY <1>2, <2>1, EmptySeq
  <2>3. got - k + 1 = got + 1
    BY <1>2, <2>1
  <2>4. QED
    BY <1>3, <2>2, <2>3 DEF InStep
<1>5. CASE n > 1
  <2>1. parsed[got - k + n] = With(handler, SubSeq(handler.buf, 1, n - 1), n)
    BY <1>3, <1>5 DEF InStep
  <2>2. n - 1 = k /\ got - k + n = got + 1
    <3>1. k \in Nat /\ got \in Nat /\ n = k + 1
      BY <1>2, <1>3
    <3> HIDE DEF k, n
    <3>2. QED
      BY <3>1
  <2>3. SubSeq(handler.buf, 1, n - 1) = handler.buf
    BY <1>2, <2>2, SubSeqFull
  <2>4. With(handler, handler.buf, n) = handler
    <3>1. With(handler, handler.buf, n) \in Handlers
      BY <1>2, WithType
    <3>2. QED
      BY <1>2, <3>1, SameHandler DEF With
  <2>5. QED
    BY <2>1, <2>2, <2>3, <2>4
<1>6. QED
  BY <1>2, <1>4, <1>5

(* A handler that hangs up for the end of the stream or a failure keeps its answers. *)
LEMMA HangUpEffect ==
  ASSUME ConnTypeOK, NEW state, HangUpAs(state)
  PROVE  /\ handler.open /\ ~handler'.open /\ link' = state
         /\ handler' \in Handlers /\ handler'.answers = handler.answers
         /\ handler'.buf = handler.buf /\ handler'.my_char = handler.my_char
         /\ sent' = sent /\ got' = got /\ parsed' = parsed
<1>1. handler \in Handlers
  BY DEF ConnTypeOK
<1>2. handler' = [handler EXCEPT !.open = FALSE]
  BY DEF HangUpAs
<1>3. handler' \in Handlers
  BY <1>1, <1>2 DEF Handlers
<1>4. /\ ~handler'.open /\ handler'.answers = handler.answers
      /\ handler'.buf = handler.buf /\ handler'.my_char = handler.my_char
  BY <1>1, <1>2 DEF Handlers
<1>5. QED
  BY <1>3, <1>4 DEF HangUpAs

(* The end of the stream and a failure leave the answers given so far.             *)
LEMMA HangUpPreserves ==
  ASSUME StreamInv, Drain \/ Break
  PROVE  StreamInv'
<1>1. ConnTypeOK /\ Buffered /\ ReadOnce
  BY DEF StreamInv
<1>2. PICK state : HangUpAs(state)
  BY DEF Drain, Break
<1>3. /\ handler.open /\ ~handler'.open /\ link' = state
      /\ handler' \in Handlers /\ handler'.answers = handler.answers
      /\ handler'.buf = handler.buf /\ handler'.my_char = handler.my_char
      /\ sent' = sent /\ got' = got /\ parsed' = parsed
  BY <1>1, <1>2, HangUpEffect
<1>4. ConnTypeOK'
  BY <1>1, <1>3 DEF ConnTypeOK, Placed
<1>5. Buffered' /\ ReadOnce'
  BY <1>1, <1>3 DEF Buffered, ReadOnce
<1>6. CASE Drain
  <2>1. ~Busy(handler) /\ link' = "drained"
    BY <1>6 DEF Drain, HangUpAs
  <2>2. handler = parsed[got + 1]
    BY <1>3, <2>1, AtRest
  <2>3. Parted'
    BY <1>3, <2>1, <2>2 DEF Parted
  <2>4. QED
    BY <1>3, <1>4, <1>5, <2>3 DEF StreamInv
<1>7. CASE Break
  <2>1. link' = "broken"
    BY <1>7 DEF Break, HangUpAs
  <2>2. QED
    BY <1>3, <1>4, <1>5, <2>1 DEF StreamInv, Parted
<1>8. QED
  BY <1>6, <1>7

(* The handler is in step with the reference in every reachable state.           *)
LEMMA StreamInvHolds == ConnSpec => []StreamInv
<1>1. ConnInit => StreamInv
  BY InitStream
<1>2. StreamInv /\ [ConnNext]_connVars => StreamInv'
  <2> SUFFICES ASSUME StreamInv, [ConnNext]_connVars PROVE StreamInv'
    OBVIOUS
  <2>1. ASSUME NEW byte \in Alphabet, Send(byte) PROVE StreamInv'
    BY <2>1, SendPreserves
  <2>2. ASSUME NEW n \in 1..(Len(sent) - got), Recv(n) PROVE StreamInv'
    BY <2>2, RecvPreserves
  <2>3. CASE Scan
    BY <2>3, ScanPreserves
  <2>4. CASE EndStream \/ UNCHANGED connVars
    <3>1. /\ handler' = handler /\ sent' = sent /\ got' = got /\ parsed' = parsed
          /\ ~handler.open => link' = link
      BY <2>4 DEF connVars, EndStream
    <3>2. ConnTypeOK' /\ Buffered' /\ ReadOnce' /\ (InStep => InStep')
      BY <3>1 DEF StreamInv, ConnTypeOK, Buffered, ReadOnce, InStep
    <3>3. ~handler.open /\ Parted => Parted'
      BY <3>1 DEF Parted, HungUp
    <3>4. QED
      BY <3>1, <3>2, <3>3 DEF StreamInv
  <2>5. CASE Drain \/ Break
    BY <2>5, HangUpPreserves
  <2>6. QED
    BY <2>1, <2>2, <2>3, <2>4, <2>5 DEF ConnNext
<1>3. QED
  BY <1>1, <1>2, PTL DEF ConnSpec

(* However TCP cuts the stream, HandleTCPClient gives the answers, keeps the rest *)
(* and closes as if it had looked at each character once; at the end of the       *)
(* stream it closes besides, and when recv or send fails it just stops.           *)
THEOREM ChunksDoNotMatter == ConnSpec => []ChunkingInvisible
<1>1. StreamInv => ChunkingInvisible
  <2> SUFFICES ASSUME StreamInv, ~Busy(handler), link # "broken"
               PROVE  /\ handler.open => handler = parsed[got + 1]
                      /\ handler.open = parsed[got + 1].open \/ link = "drained"
                      /\ handler.answers = parsed[got + 1].answers
    BY DEF ChunkingInvisible
  <2>1. ConnTypeOK /\ ReadOnce
    BY DEF StreamInv
  <2>2. /\ handler.open \in BOOLEAN /\ got \in 0..Len(sent) /\ Len(sent) \in Nat
        /\ Len(parsed) = Len(sent) + 1
    BY <2>1 DEF ConnTypeOK, Handlers
  <2>3. CASE handler.open
    BY <2>3, AtRest
  <2>4. CASE ~handler.open /\ HungUp
    <3>1. PICK i \in 1..(got + 1) : ~parsed[i].open /\ parsed[i].answers = handler.answers
      BY <2>4 DEF HungUp
    <3>2. i \in 1..Len(parsed) /\ got + 1 \in 1..Len(parsed) /\ i <= got + 1
      BY <2>2
    <3>3. parsed[got + 1] = parsed[i]
      BY <2>1, <3>1, <3>2 DEF ReadOnce
    <3>4. parsed[got + 1].open \in BOOLEAN
      <4>1. parsed[got + 1] \in Handlers
        BY <2>1, <3>2 DEF ConnTypeOK
      <4>2. QED
        BY <4>1 DEF Handlers
    <3>5. QED
      BY <2>2, <2>4, <3>1, <3>3, <3>4
  <2>5. CASE ~handler.open /\ ~HungUp
    <3>1. link = "drained" /\ parsed[got + 1].answers = handler.answers
      BY <2>5 DEF StreamInv, Parted
    <3>2. QED
      BY <2>5, <3>1
  <2>6. QED
    BY <2>3, <2>4, <2>5
<1>2. QED
  BY <1>1, StreamInvHolds, PTL

-------------------------------------------------------------------------------
\* Why the handler hangs up

\* The last n answers rejected a request.
LastInvalid(h, n) ==
  LET m == Len(h.answers)
  IN n <= m /\ \A i \in (m - n + 1)..m : h.answers[i].kind = "invalid"

\* The inductive invariant behind ClosedForCause: numInvalid counts the last answers,
\* as far as they rejected requests, and is less than 3 while the handler runs.
CauseInv ==
  IF handler.open THEN handler.numInvalid <= 2 /\ LastInvalid(handler, handler.numInvalid)
                  ELSE ClosedForCause

(* One answer more.                                                              *)
LEMMA OneAnswer ==
  ASSUME NEW h \in Handlers, NEW g \in Handlers, NEW reply \in Reply,
         g.answers = Append(h.answers, reply)
  PROVE  /\ Len(g.answers) = Len(h.answers) + 1 /\ Len(h.answers) \in Nat
         /\ g.answers[Len(g.answers)] = reply
         /\ LastInvalid(g, 0)
         /\ \A n \in Nat : reply.kind = "invalid" /\ LastInvalid(h, n) => LastInvalid(g, n + 1)
<1> DEFINE m == Len(h.answers)
           l == Len(g.answers)
<1>1. h.answers \in Seq(Reply)
  BY DEF Handlers
<1>2. /\ l = m + 1 /\ m \in Nat /\ g.answers[m + 1] = reply
      /\ \A i \in 1..m : g.answers[i] = h.answers[i]
  BY <1>1
<1> HIDE DEF m, l
<1>3. LastInvalid(g, 0)
  <2>1. \A i \in (l - 0 + 1)..l : FALSE
    BY <1>2
  <2>2. 0 <= l
    BY <1>2
  <2>3. QED
    BY <2>1, <2>2 DEF LastInvalid, l
<1>4. ASSUME NEW n \in Nat, reply.kind = "invalid", LastInvalid(h, n)
      PROVE  LastInvalid(g, n + 1)
  <2>1. n <= m /\ \A i \in (m - n + 1)..m : h.answers[i].kind = "invalid"
    BY <1>4 DEF LastInvalid, m
  <2>2. n + 1 <= l
    BY <1>2, <2>1
  <2>3. ASSUME NEW i \in (l - (n + 1) + 1)..l PROVE g.answers[i].kind = "invalid"
    <3>1. i = m + 1 \/ (i \in (m - n + 1)..m /\ i \in 1..m)
      BY <1>2, <2>1
    <3>2. QED
      BY <1>2, <1>4, <2>1, <3>1
  <2>4. QED
    BY <2>2, <2>3 DEF LastInvalid, l
<1>5. QED
  BY <1>2, <1>3, <1>4 DEF m, l

(* Only an "e" begins a prefix of "exit".                                        *)
LEMMA ExitBegins ==
  ASSUME NEW p \in Seq(Alphabet), Len(p) > 0, Meaning(p) = "prefixOfExit"
  PROVE  p[1] = "e"
<1>1. Len(p) <= Len(Exit) /\ SubSeq(p, 1, Len(p)) = SubSeq(Exit, 1, Len(p))
  BY DEF Meaning, IsPrefix
<1> DEFINE S == {"e", "x", "i", "t"}
<1>2. Exit \in Seq(S)
  BY DEF Exit
<1> HIDE DEF S
<1>3. Len(Exit) = 4
  BY DEF Exit
<1>4. Exit[1] = "e"
  BY DEF Exit
<1> DEFINE n == Len(p)
<1>5. n \in Nat /\ n > 0 /\ n <= 4
  BY <1>1, <1>3
<1>6. SubSeq(p, 1, n)[1] = p[1]
  BY <1>5, Pieces
<1>7. SubSeq(Exit, 1, n)[1] = Exit[1]
  <2> HIDE DEF n
  <2>1. n \in 0..Len(Exit) /\ 1 \in 1..n
    BY <1>3, <1>5
  <2>2. \A i \in 1..n : SubSeq(Exit, 1, n)[i] = Exit[i]
    BY <1>2, <2>1, Pieces
  <2>3. QED
    BY <2>1, <2>2
<1>8. QED
  BY <1>1, <1>4, <1>6, <1>7

(* A round counts an invalid request, and hangs up after an "e" or the third.    *)
LEMMA ScanCause ==
  ASSUME ConnTypeOK, Buffered, CauseInv, Scan
  PROVE  CauseInv'
<1>1. PICK r : r = Look(handler)
  OBVIOUS
<1>2. handler \in Handlers /\ handler.open /\ handler.my_char <= Len(handler.buf)
  BY DEF Scan, Busy, ConnTypeOK
<1>3. handler' = r
  BY <1>1 DEF Scan
<1>4. r \in Handlers
  BY <1>1, <1>2, RoundType
<1>5. PICK p : p = SubSeq(handler.buf, 1, handler.my_char)
  OBVIOUS
<1>6. p \in Seq(Alphabet) /\ Len(p) > 0
  BY <1>2, <1>5, Round
<1>7. handler.numInvalid \in Nat /\ handler.numInvalid <= 2
      /\ LastInvalid(handler, handler.numInvalid)
  BY <1>2 DEF CauseInv, Handlers
<1>8. CASE Meaning(p) = "begun"
  <2>1. r = Awaited(handler)
    BY <1>1, <1>2, <1>5, <1>8, Round
  <2>2. r.numInvalid = 0 /\ r.open /\ r.answers = handler.answers
    BY <2>1 DEF Awaited
  <2>3. LastInvalid(r, 0)
    <3>1. Len(r.answers) \in Nat
      BY <1>4 DEF Handlers
    <3>2. QED
      BY <3>1 DEF LastInvalid
  <2>4. QED
    BY <1>3, <2>2, <2>3 DEF CauseInv
<1>9. CASE Meaning(p) \in {"uptime", "load", "sum"}
  <2>1. r = Cut(handler, handler.my_char, ReplyTo(p), 0, TRUE)
    BY <1>1, <1>2, <1>5, <1>9, Round DEF Answered
  <2>2. r.numInvalid = 0 /\ r.open /\ r.answers = Append(handler.answers, ReplyTo(p))
    BY <2>1 DEF Cut
  <2>3. LastInvalid(r, 0)
    BY <1>2, <1>4, <1>6, <2>2, Replies, OneAnswer
  <2>4. QED
    BY <1>3, <2>2, <2>3 DEF CauseInv
<1>10. CASE Meaning(p) = "prefixOfExit"
  <2>1. r = Cut(handler, Len(handler.buf), Answer("prefixOfExit", 0), 0, FALSE)
    BY <1>1, <1>2, <1>5, <1>10, Round
  <2>2. ~r.open /\ r.answers = Append(handler.answers, Answer("prefixOfExit", 0))
    BY <2>1 DEF Cut
  <2>3. r.answers[Len(r.answers)] = Answer("prefixOfExit", 0)
    BY <1>2, <1>4, <2>2, Replies, OneAnswer
  <2>4. p[1] = "e"
    BY <1>6, <1>10, ExitBegins
  <2>5. \E i \in 1..got : sent[i] = "e"
    <3> DEFINE k == Len(handler.buf)
    <3>0. k <= got /\ got \in 0..Len(sent) /\ Len(sent) \in Nat
      BY DEF ConnTypeOK
    <3>1. /\ handler.buf \in Seq(Alphabet) /\ k \in Nat /\ k <= got /\ got \in Nat
          /\ handler.my_char \in 1..k
      BY <1>2, <3>0 DEF Handlers
    <3>2. handler.my_char \in 0..k /\ 1 \in 1..handler.my_char /\ 1 \in 1..k
      BY <3>1
    <3>3. p[1] = handler.buf[1]
      BY <1>5, <3>1, <3>2, Pieces
    <3>4. handler.buf[1] = sent[got - k + 1]
      BY <3>2 DEF Buffered
    <3> HIDE DEF k
    <3>5. got - k + 1 \in 1..got
      BY <3>1, <3>2
    <3>6. QED
      BY <2>4, <3>3, <3>4, <3>5
  <2>6. sent' = sent /\ got' = got
    BY DEF Scan
  <2>7. Answer("prefixOfExit", 0).kind = "prefixOfExit"
    BY DEF Answer
  <2>8. ~handler'.open /\ handler'.answers[Len(handler'.answers)].kind = "prefixOfExit"
    BY <1>3, <2>2, <2>3, <2>7
  <2>9. ClosedForCause'
    BY <2>5, <2>6, <2>8 DEF ClosedForCause
  <2>10. QED
    BY <2>8, <2>9 DEF CauseInv
<1>11. CASE Meaning(p) = "invalid"
  <2> DEFINE c == handler.numInvalid
  <2>1. r = Cut(handler, Length(p), Answer("invalid", -1), c + 1, c < 2)
    BY <1>1, <1>2, <1>5, <1>11, Round DEF Rejected
  <2>2. /\ r.open = (c < 2) /\ r.numInvalid = c + 1
        /\ r.answers = Append(handler.answers, Answer("invalid", -1))
    BY <2>1 DEF Cut
  <2>3. LastInvalid(r, c + 1)
    <3>1. Answer("invalid", -1).kind = "invalid"
      BY DEF Answer
    <3>2. QED
      BY <1>2, <1>4, <1>7, <2>2, <3>1, Replies, OneAnswer
  <2>4. CASE c < 2
    <3>1. c + 1 <= 2
      BY <1>7, <2>4
    <3>2. r.open /\ r.numInvalid <= 2 /\ LastInvalid(r, r.numInvalid)
      BY <2>2, <2>3, <2>4, <3>1
    <3>3. QED
      BY <1>3, <3>2 DEF CauseInv
  <2>5. CASE ~(c < 2)
    <3>1. c + 1 = 3
      BY <1>7, <2>5
    <3>2. LastInvalid(r, 3)
      BY <2>3, <3>1
    <3> DEFINE m == Len(r.answers)
    <3>3. m \in Nat
      BY <1>4 DEF Handlers
    <3>4. 3 <= m /\ \A i \in (m - 3 + 1)..m : r.answers[i].kind = "invalid"
      BY <3>2 DEF LastInvalid
    <3> HIDE DEF m
    <3>5. m >= 3 /\ m - 3 + 1 = m - 2
      BY <3>3, <3>4
    <3>6. \A i \in (m - 2)..m : r.answers[i].kind = "invalid"
      BY <3>4, <3>5
    <3>7. QED
      BY <1>3, <2>2, <2>5, <3>5, <3>6 DEF CauseInv, ClosedForCause, m
  <2>6. QED
    BY <2>4, <2>5
<1>12. QED
  BY <1>8, <1>9, <1>10, <1>11, Meanings

(* HandleTCPClient closes a connection only when recv or send fails, when all is  *)
(* received of a client that ended its stream, after an "e" it takes for the      *)
(* beginning of "exit", or after three invalid requests in a row.                *)
THEOREM ClosesForCause == ConnSpec => []ClosedForCause
<1>1. ConnInit => CauseInv
  <2> SUFFICES ASSUME ConnInit PROVE CauseInv
    OBVIOUS
  <2>1. handler.open /\ handler.numInvalid = 0 /\ handler.answers = <<>>
    BY DEF ConnInit, Start
  <2>2. LastInvalid(handler, 0)
    BY <2>1, EmptySeq DEF LastInvalid
  <2>3. QED
    BY <2>1, <2>2 DEF CauseInv
<1>2. StreamInv /\ CauseInv /\ [ConnNext]_connVars => CauseInv'
  <2> SUFFICES ASSUME StreamInv, CauseInv, [ConnNext]_connVars PROVE CauseInv'
    OBVIOUS
  <2> ConnTypeOK /\ Buffered
    BY DEF StreamInv
  <2>1. ASSUME NEW byte \in Alphabet, Send(byte) PROVE CauseInv'
    BY <2>1 DEF Send, CauseInv, LastInvalid
  <2>2. ASSUME NEW n \in 1..(Len(sent) - got), Recv(n) PROVE CauseInv'
    <3>1. /\ handler.open /\ handler'.open = handler.open
          /\ handler'.numInvalid = handler.numInvalid /\ handler'.answers = handler.answers
      BY <2>2 DEF Recv, ConnTypeOK, Handlers
    <3>2. QED
      BY <3>1 DEF CauseInv, LastInvalid
  <2>3. CASE Scan
    BY <2>3, ScanCause
  <2>4. CASE EndStream
    BY <2>4 DEF EndStream, CauseInv, LastInvalid
  <2>5. CASE Drain
    <3>1. link' = "drained" /\ ~handler'.open /\ got' = Len(sent')
      BY <2>5, HangUpEffect DEF Drain
    <3>2. QED
      BY <3>1 DEF CauseInv, ClosedForCause
  <2>6. CASE Break
    <3>1. link' = "broken" /\ ~handler'.open
      BY <2>6, HangUpEffect DEF Break
    <3>2. QED
      BY <3>1 DEF CauseInv, ClosedForCause
  <2>7. CASE UNCHANGED connVars
    BY <2>7 DEF connVars, CauseInv, LastInvalid, ClosedForCause
  <2>8. QED
    BY <2>1, <2>2, <2>3, <2>4, <2>5, <2>6, <2>7 DEF ConnNext
<1>3. CauseInv => ClosedForCause
  BY DEF CauseInv, ClosedForCause
<1>4. QED
  BY <1>1, <1>2, <1>3, StreamInvHolds, PTL DEF ConnSpec
===============================================================================
