------------------------------- MODULE MtServer -------------------------------
(* The multithreaded TCP server (client_server/mtserver.c): main accepts or    *)
(* refuses connections, a detached thread serves each one, and numThread,      *)
(* counted up by main and down by the threads, is both the admission limit     *)
(* and the answer to "load".                                                   *)
EXTENDS Integers, FiniteSets

CONSTANTS
  Conn,        \* connections, each made once
  max,         \* first argument: maximum number of clients
  MAXPENDING,  \* length of the listen queue (5)
  Wrap         \* numThread counts modulo this (2^32)

ASSUME LimitAssumption ==
  /\ max \in Nat /\ MAXPENDING \in Nat \ {0}
  /\ Wrap \in Nat /\ Wrap > max

VARIABLES
  up,         \* the process runs
  conn,       \* per connection: how far it has come
  pc,         \* where main is
  cur,        \* clntSock of main: the connection accepted last, as a set
  numThread,
  answer      \* per connection: the last answer to "load", -1 if none

vars == <<up, conn, pc, cur, numThread, answer>>

In(states) == {c \in Conn : conn[c] \in states}

\* "hungup": the client is gone and its thread has not noticed;
\* "leaving": the thread has closed the socket and is still counted.
ConnState == {"new", "queued", "accepted", "serving", "hungup", "leaving",
              "done", "refused"}

Threads == In({"serving", "hungup", "leaving"})

ServerTypeOK ==
  /\ up \in BOOLEAN
  /\ conn \in [Conn -> ConnState]
  /\ pc \in {"accept", "check", "count"}
  /\ cur \subseteq Conn
  /\ numThread \in 0..(Wrap - 1)
  /\ answer \in [Conn -> -1..(Wrap - 1)]

Init ==
  /\ up = TRUE
  /\ conn = [c \in Conn |-> "new"]
  /\ pc = "accept"
  /\ cur = {}
  /\ numThread = 0
  /\ answer = [c \in Conn |-> -1]

To(c, state) == conn' = [conn EXCEPT ![c] = state]

Connect(c) ==
  /\ up
  /\ conn[c] = "new"
  /\ Cardinality(In({"queued"})) < MAXPENDING
  /\ To(c, "queued")
  /\ UNCHANGED <<up, pc, cur, numThread, answer>>

Accept(c) ==
  /\ up
  /\ pc = "accept"
  /\ conn[c] = "queued"
  /\ To(c, "accepted")
  /\ cur' = {c}
  /\ pc' = "check"
  /\ UNCHANGED <<up, numThread, answer>>

\* Mutant of Admits: one client too many.
AdmitsOneMore == numThread <= max

\* numThread is read without the mutex.
Admits == numThread < max

\* pthread_create: the thread may run, and end, before main counts it.
Spawn(c) ==
  /\ up
  /\ pc = "check"
  /\ c \in cur
  /\ Admits
  /\ To(c, "serving")
  /\ pc' = "count"
  /\ UNCHANGED <<up, cur, numThread, answer>>

\* Mutant of Refuse: a full server lets the client wait for a thread to end.
RefuseWaits(c) ==
  /\ FALSE
  /\ UNCHANGED vars

Refuse(c) ==
  /\ up
  /\ pc = "check"
  /\ c \in cur
  /\ ~Admits
  /\ To(c, "refused")
  /\ pc' = "accept"
  /\ cur' = {}
  /\ UNCHANGED <<up, numThread, answer>>

Count ==
  /\ up
  /\ pc = "count"
  /\ numThread' = (numThread + 1) % Wrap
  /\ pc' = "accept"
  /\ cur' = {}
  /\ UNCHANGED <<up, conn, answer>>

\* "load": numThread again without the mutex.
Load(c) ==
  /\ up
  /\ conn[c] = "serving"
  /\ answer' = [answer EXCEPT ![c] = numThread]
  /\ UNCHANGED <<up, conn, pc, cur, numThread>>

HangUp(c) ==
  /\ up
  /\ conn[c] = "serving"
  /\ To(c, "hungup")
  /\ UNCHANGED <<up, pc, cur, numThread, answer>>

\* "exit", a third invalid request in a row, or the client gone.
Finish(c) ==
  /\ up
  /\ conn[c] \in {"serving", "hungup"}
  /\ To(c, "leaving")
  /\ UNCHANGED <<up, pc, cur, numThread, answer>>

\* An answer to a client that is gone raises SIGPIPE, which is not handled.
BrokenPipe(c) ==
  /\ up
  /\ conn[c] = "hungup"
  /\ up' = FALSE
  /\ UNCHANGED <<conn, pc, cur, numThread, answer>>

\* accept, malloc or pthread_create fails: DieWithError.
ExitWithError ==
  /\ up
  /\ pc = "accept" \/ (pc = "check" /\ Admits)
  /\ up' = FALSE
  /\ UNCHANGED <<conn, pc, cur, numThread, answer>>

\* Mutant of Uncount: the thread returns without counting down.
UncountForgotten(c) ==
  /\ up
  /\ conn[c] = "leaving"
  /\ To(c, "done")
  /\ UNCHANGED <<up, pc, cur, numThread, answer>>

\* Mutant of Uncount: numThread is signed.
UncountSigned(c) ==
  /\ up
  /\ conn[c] = "leaving"
  /\ To(c, "done")
  /\ numThread' = numThread - 1
  /\ UNCHANGED <<up, pc, cur, answer>>

Uncount(c) ==
  /\ up
  /\ conn[c] = "leaving"
  /\ To(c, "done")
  /\ numThread' = (numThread - 1) % Wrap
  /\ UNCHANGED <<up, pc, cur, answer>>

Next ==
  \/ Count
  \/ ExitWithError
  \/ \E c \in Conn :
       \/ Connect(c)
       \/ Accept(c)
       \/ Spawn(c)
       \/ Refuse(c)
       \/ Load(c)
       \/ HangUp(c)
       \/ Finish(c)
       \/ BrokenPipe(c)
       \/ Uncount(c)

Spec == Init /\ [][Next]_vars

\* main and the threads are scheduled.  A thread whose client is gone sees the
\* end of the stream; one whose client stays may serve it for ever.
Fairness ==
  /\ WF_vars(Count)
  /\ \A c \in Conn :
       /\ WF_vars(Accept(c))
       /\ WF_vars(Spawn(c) \/ Refuse(c))
       /\ WF_vars(conn[c] = "hungup" /\ Finish(c))
       /\ WF_vars(Uncount(c))

FairSpec == Spec /\ Fairness

-------------------------------------------------------------------------------
\* Properties

(* "Maximum number of clients": however connects, ends of threads and the late *)
(* count of main interleave, no more than max clients are served at once.      *)
AtMostMax == Cardinality(In({"serving", "hungup"})) <= max

(* A thread that ends before main has counted it takes numThread below what it *)
(* counts, and from 0 to 2^32 - 1.  Neither an admission nor an answer to      *)
(* "load" ever sees that value: the answer is the number of threads, or one    *)
(* less while main has not counted the newest.                                 *)
LoadIsHonest ==
  [][\A c \in Conn : Load(c) =>
       answer'[c] \in {Cardinality(Threads), Cardinality(Threads) - 1}]_vars

(* A connection is refused only when max threads have not left: the count      *)
(* never drifts upwards.                                                       *)
RefusedWhenFull ==
  [][\A c \in Conn : Refuse(c) => Cardinality(Threads) >= max]_vars

(* Every client that connects is served or turned away, unless the server is   *)
(* brought down, by a broken pipe or by a call of main that fails.             *)
QueuedAnswered ==
  \A c \in Conn : conn[c] = "queued" ~> conn[c] \notin {"queued", "accepted"} \/ ~up
===============================================================================
