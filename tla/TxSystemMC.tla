------------------------------ MODULE TxSystemMC ------------------------------
(* Instances of TxSystem for TLC: which commands the users of two workers      *)
(* issue, at most, in each scenario.                                           *)
EXTENDS TxSystem, TLC

CONSTANTS w1, w2

Asks(commands) == [c \in Command |-> IF c \in DOMAIN commands THEN commands[c] ELSE 0]

Users(first, second) == w1 :> Asks(first) @@ w2 :> Asks(second)

\* A transaction of two workers that either may abort or vote down; and
\* ShiVizReport.txt, second scenario: a worker dies after its vote, here perhaps
\* one against, and the manager after its decision.
CommitBudgets ==
  {Users([BEGINTX |-> 1, JOINTX |-> 1, NEW_VALUE |-> 1, COMMIT |-> 1, ABORT |-> 1],
         [JOINTX |-> 1, ABORT |-> 1, VOTE_ABORT |-> 1]),
   Users([BEGINTX |-> 1, JOINTX |-> 1, NEW_VALUE |-> 1, COMMIT_CRASH |-> 1, CRASH_AFTER |-> 1],
         [JOINTX |-> 1, VOTE_ABORT |-> 1, CRASH_AFTER |-> 1])}

\* Datagrams get lost and the manager is killed: a commit of two workers; one
\* that is changed, aborted and killed; and one that dies instead of voting.
LossBudgets ==
  {Users([BEGINTX |-> 1, JOINTX |-> 1, NEW_VALUE |-> 1, COMMIT |-> 1], [JOINTX |-> 1]),
   Users([BEGINTX |-> 1, JOINTX |-> 1, NEW_VALUE |-> 2, CRASH |-> 1, ABORT_CRASH |-> 1], <<>>),
   Users([BEGINTX |-> 1, JOINTX |-> 1, NEW_VALUE |-> 2, DELAY |-> 1, CRASH_BEFORE |-> 1,
          COMMIT |-> 1], <<>>)}

\* TestScripts/testDelayNeg1000.sh with two workers.
SilentBudgets ==
  {Users([BEGINTX |-> 1, JOINTX |-> 1, CRASH_BEFORE |-> 1], [JOINTX |-> 1, COMMIT |-> 1])}

\* A worker joins the same transaction twice.
DoubleJoinBudgets ==
  {Users([BEGINTX |-> 1, JOINTX |-> 2, COMMIT |-> 1], <<>>)}

\* Inside a transaction a worker asks to join one that does not exist.
FailedJoinBudgets ==
  {Users([BEGINTX |-> 1, JOINTX |-> 2, NEW_VALUE |-> 1, ABORT |-> 1], <<>>)}
===============================================================================
