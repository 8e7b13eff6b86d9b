------------------------------ MODULE TxOrderlyMC ------------------------------
(* An instance of OrderlySpec for TLC: the invariant of AgreementProofs, and     *)
(* what follows from it, on two workers of which each may abort, vote against    *)
(* or die after its vote.                                                        *)
EXTENDS TxSystemMC, AgreementProofs

OrderlyBudgets ==
  {Users([BEGINTX |-> 1, JOINTX |-> 1, COMMIT |-> 1, ABORT |-> 1],
         [JOINTX |-> 1, VOTE_ABORT |-> 1, CRASH_AFTER |-> 1]),
   Users([BEGINTX |-> 1, JOINTX |-> 1, COMMIT |-> 1, CRASH_AFTER |-> 1],
         [BEGINTX |-> 1, JOINTX |-> 1, COMMIT |-> 1])}

\* OrderlySpec with its two action formulas in one, as TLC wants them.
OrderlyCheck == Init /\ OneJoinEach /\ [][Next /\ Orderly]_vars
===============================================================================
