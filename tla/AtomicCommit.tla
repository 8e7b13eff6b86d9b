----------------------------- MODULE AtomicCommit -----------------------------
(* What the transaction system promises its users, without messages, logs or a *)
(* manager: of each transaction one decision is made, a commit only when       *)
(* everybody who takes part is prepared, and the workers learn it.             *)
CONSTANTS Worker, Tid

VARIABLES
  stage,     \* stage[t][w]: how far w has come with t
  outcome,   \* outcome[t]: the decision on t
  learnt     \* learnt[t][w]: the decision on t that w knows of

vars == <<stage, outcome, learnt>>

Init ==
  /\ stage = [t \in Tid |-> [w \in Worker |-> "out"]]
  /\ outcome = [t \in Tid |-> "open"]
  /\ learnt = [t \in Tid |-> [w \in Worker |-> "open"]]

\* Nobody joins what is committed.
Join(t, w) ==
  /\ stage[t][w] = "out" /\ outcome[t] # "commit"
  /\ stage' = [stage EXCEPT ![t][w] = "working"]
  /\ UNCHANGED <<outcome, learnt>>

Answer(t, w) ==
  /\ stage[t][w] = "working"
  /\ \E answer \in {"prepared", "refused"} : stage' = [stage EXCEPT ![t][w] = answer]
  /\ UNCHANGED <<outcome, learnt>>

Commit(t) ==
  /\ outcome[t] = "open"
  /\ \A w \in Worker : stage[t][w] \in {"out", "prepared"}
  /\ \E w \in Worker : stage[t][w] = "prepared"
  /\ outcome' = [outcome EXCEPT ![t] = "commit"]
  /\ UNCHANGED <<stage, learnt>>

Abort(t) ==
  /\ outcome[t] = "open"
  /\ outcome' = [outcome EXCEPT ![t] = "abort"]
  /\ UNCHANGED <<stage, learnt>>

Learn(t, w) ==
  /\ learnt[t][w] = "open" /\ outcome[t] # "open"
  /\ learnt' = [learnt EXCEPT ![t][w] = outcome[t]]
  /\ UNCHANGED <<stage, outcome>>

Next ==
  \E t \in Tid :
    \/ Commit(t)
    \/ Abort(t)
    \/ \E w \in Worker : Join(t, w) \/ Answer(t, w) \/ Learn(t, w)

Spec == Init /\ [][Next]_vars
===============================================================================
