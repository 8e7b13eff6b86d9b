------------------------------ MODULE RollbackMC ------------------------------
(* Instances of RollbackProofs for TLC: its invariants, and what follows from    *)
(* them, on two workers that crash by command or after a datagram.               *)
EXTENDS TxSystemMC, RollbackProofs

\* The first worker changes data, commits, aborts and crashes; the second may join
\* it, or a transaction that was never begun.
AbortBudgets ==
  {Users([BEGINTX |-> 1, JOINTX |-> 1, NEW_VALUE |-> 1, COMMIT |-> 1, ABORT |-> 1, CRASH |-> 1],
         [JOINTX |-> 1])}

\* Both may ask for the commit, of one transaction or of two; one crashes when it
\* waits or works, the other after a datagram it sends.
AskBudgets ==
  {Users([BEGINTX |-> 1, JOINTX |-> 1, NEW_VALUE |-> 1, COMMIT |-> 2, CRASH |-> 1], <<>>),
   Users([BEGINTX |-> 1, JOINTX |-> 1, NEW_VALUE |-> 1, CRASH_AFTER |-> 1],
         [BEGINTX |-> 1, COMMIT |-> 1])}

\* ConsiderateSpec with its action formulas and what the theorems add in one, as
\* TLC wants them.
RoomyCheck == Init /\ OneJoinEach /\ [][Next /\ Considerate /\ Roomy]_vars

AwareCheck == Init /\ OneJoinEach /\ [][Next /\ Considerate /\ Aware]_vars
===============================================================================
