----------------------------- MODULE VectorClock -----------------------------
(* The vector clocks of the transaction system: tables of MAX_NODES pairs of a *)
(* node and a time, kept by tmanager.c and tworker.c, sent with every message, *)
(* saved in the log files and restored after a crash.  Every event puts the    *)
(* clock into the ShiViz log.                                                  *)
EXTENDS Integers, FiniteSets, Sequences

CONSTANTS
  Node,        \* the manager and the workers, named by their port
  Manager,     \* the manager: workers talk to it and it talks to workers
  None,        \* the node of an unused entry, 0
  MaxNodes,    \* entries of a table (10 in tworker.h)
  MaxEvents    \* bound: events of one node

ASSUME NodeAssumption == Manager \in Node /\ None \notin Node
ASSUME TableAssumption == MaxNodes \in Nat \ {0}

VARIABLES
  clock,    \* per node: myVectorClock
  saved,    \* per node: crashInfo->vectorClock, in the log file
  up,       \* per node: the process runs
  flight,   \* messages sent and not received, with the sender's clock
  past,     \* history, per node: how many events of each node it has heard of
  stamps,   \* history, per node: its own time in each line it put into ShiViz
  behind    \* history: nodes that died when their saved clock was behind

vars == <<clock, saved, up, flight, past, stamps, behind>>

Index == 1..MaxNodes

Unused == [nodeId |-> None, time |-> 0]

Blank == [i \in Index |-> Unused]

Fresh(n) == [i \in Index |-> IF i = 1 THEN [nodeId |-> n, time |-> 1] ELSE Unused]

First(i, S) == i \in S /\ \A j \in S : i <= j

Entries(vc, nodes) == {i \in Index : vc[i].nodeId \in nodes}

\* updateMyVectorClock
Updated(vc, n) ==
  IF Entries(vc, {n}) = {}
  THEN vc
  ELSE [vc EXCEPT ![CHOOSE i \in Index : First(i, Entries(vc, {n}))].time = @ + 1]

\* Mutant of MergedEntry: the received time wins, newer or not.
OverwrittenEntry(vc, e) ==
  IF Entries(vc, {e.nodeId, None}) = {}
  THEN vc
  ELSE [vc EXCEPT ![CHOOSE i \in Index : First(i, Entries(vc, {e.nodeId, None}))] = e]

\* One entry of the message: it raises the entry of its node, or takes the
\* first unused one; in a full table it is dropped.
MergedEntry(vc, e) ==
  IF Entries(vc, {e.nodeId, None}) = {}
  THEN vc
  ELSE LET i == CHOOSE i \in Index : First(i, Entries(vc, {e.nodeId, None})) IN
       IF vc[i].nodeId = None \/ e.time > vc[i].time THEN [vc EXCEPT ![i] = e] ELSE vc

\* mergeVectorClock: entry by entry, up to the first unused one.
Merged(vc, other) ==
  LET merge[i \in 0..MaxNodes] ==
        IF i = 0 THEN vc
        ELSE IF \E j \in 1..i : other[j].nodeId = None THEN merge[i - 1]
        ELSE MergedEntry(merge[i - 1], other[i])
  IN merge[MaxNodes]

-------------------------------------------------------------------------------
\* main of the manager saves its clock before it gives it a first entry.
Init ==
  /\ clock = [n \in Node |-> Fresh(n)]
  /\ saved = [n \in Node |-> IF n = Manager THEN Blank ELSE Fresh(n)]
  /\ up = [n \in Node |-> TRUE]
  /\ flight = {}
  /\ past = [n \in Node |-> [q \in Node |-> IF q = n THEN 1 ELSE 0]]
  /\ stamps = [n \in Node |-> <<1>>]
  /\ behind = {}

TimeOf(vc, q) ==
  IF Entries(vc, {q}) = {}
  THEN 0
  ELSE vc[CHOOSE i \in Index : First(i, Entries(vc, {q}))].time

\* An event of n: its clock is now vc, its causal past now heard, and both go
\* with the line it writes to the ShiViz log.
Event(n, vc, heard) ==
  /\ Len(stamps[n]) < MaxEvents
  /\ clock' = [clock EXCEPT ![n] = vc]
  /\ past' = [past EXCEPT ![n] = [heard EXCEPT ![n] = @ + 1]]
  /\ stamps' = [stamps EXCEPT ![n] = Append(@, TimeOf(vc, n))]

Save(n) == saved' = [saved EXCEPT ![n] = clock'[n]]

\* NEW_A, NEW_B, NEW_IDSTR, DELAY_RESPONSE, CRASH, ABORT
LocalEvent(n) ==
  /\ up[n]
  /\ Event(n, Updated(clock[n], n), past[n])
  /\ Save(n)
  /\ UNCHANGED <<up, flight, behind>>

\* ABORT writes its line first and saves after it; the worker dies in between.
LocalEventUnsaved(w) ==
  /\ up[w]
  /\ w # Manager
  /\ Event(w, Updated(clock[w], w), past[w])
  /\ up' = [up EXCEPT ![w] = FALSE]
  /\ behind' = behind \cup {w}
  /\ UNCHANGED <<saved, flight>>

Send(n, to) ==
  /\ up[n]
  /\ (n = Manager) # (to = Manager)
  /\ Event(n, Updated(clock[n], n), past[n])
  /\ Save(n)
  /\ flight' = flight \cup {[to |-> to, clock |-> clock'[n], past |-> past'[n]]}
  /\ UNCHANGED <<up, behind>>

Heard(n, m) == [q \in Node |-> IF past[n][q] < m.past[q] THEN m.past[q] ELSE past[n][q]]

\* The manager counts the event before it merges, a worker after.
Receive(n, m) ==
  /\ up[n]
  /\ m \in flight
  /\ m.to = n
  /\ flight' = flight \ {m}
  /\ Event(n,
           IF n = Manager
           THEN Merged(Updated(clock[n], n), m.clock)
           ELSE Updated(Merged(clock[n], m.clock), n),
           Heard(n, m))
  /\ Save(n)
  /\ UNCHANGED <<up, behind>>

\* A manager that has had no event yet dies with an empty clock in its log.
Die(n) ==
  /\ up[n]
  /\ up' = [up EXCEPT ![n] = FALSE]
  /\ behind' = IF saved[n] = clock[n] THEN behind ELSE behind \cup {n}
  /\ UNCHANGED <<clock, saved, flight, past, stamps>>

\* Mutant of Restart: the clock starts again.
RestartFresh(n) ==
  /\ ~up[n]
  /\ up' = [up EXCEPT ![n] = TRUE]
  /\ Event(n, Updated(Fresh(n), n), past[n])
  /\ Save(n)
  /\ UNCHANGED <<flight, behind>>

\* restoreVectorTime, then the RESTARTED event.
Restart(n) ==
  /\ ~up[n]
  /\ up' = [up EXCEPT ![n] = TRUE]
  /\ Event(n, Updated(saved[n], n), past[n])
  /\ Save(n)
  /\ UNCHANGED <<flight, behind>>

Next ==
  \E n \in Node :
    \/ LocalEvent(n)
    \/ LocalEventUnsaved(n)
    \/ \E to \in Node : Send(n, to)
    \/ \E m \in flight : Receive(n, m)
    \/ Die(n)
    \/ Restart(n)

Spec == Init /\ [][Next]_vars

-------------------------------------------------------------------------------
\* Properties

(* The comment of mergeVectorClock (tmanager.c:184): the clock is updated "by  *)
(* merging it with the vector clock received".  So a node's clock holds, for   *)
(* every node, exactly the number of its events in the causal past, which is   *)
(* what ShiViz needs to draw the order of events; and never more, even of a    *)
(* node that died with its saved clock behind.                                 *)
ClockIsHistory ==
  \A n, q \in Node :
    /\ TimeOf(clock[n], q) <= past[n][q]
    /\ q \notin behind => TimeOf(clock[n], q) = past[n][q]

(* tworker.c:875: a restarted worker "will get its old vector clock value and  *)
(* pick up from there": it never stamps two lines of its log with one time.    *)
StampsGrow ==
  \A n \in Node : \A i, j \in DOMAIN stamps[n] : i < j => stamps[n][i] < stamps[n][j]

(* tmanager.c:275: "Restore transaction manager's own vector clock when         *)
(* restoring state after a crash": a restarted manager's own time goes on from *)
(* where it was.                                                               *)
RestoreKeepsTime ==
  [][Restart(Manager) => TimeOf(clock'[Manager], Manager) > TimeOf(clock[Manager], Manager)]_vars

(* A receive never loses time: afterwards the receiver is at least where it    *)
(* was and where the sender was, crashes and restarts before it or not.        *)
ReceiveDominates ==
  [][\A n \in Node, m \in flight : Receive(n, m) =>
       \A q \in Node :
         /\ TimeOf(clock'[n], q) >= TimeOf(clock[n], q)
         /\ TimeOf(clock'[n], q) >= TimeOf(m.clock, q)]_vars
===============================================================================
