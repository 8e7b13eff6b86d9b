SPECIFICATION OrderlyCheck
CONSTANTS
  w1 = w1
  w2 = w2
  Worker = {w1, w2}
  Tid = {t1, t2}
  NoTid = none
  MaxTrans = 3
  MaxNodes = 3
  ReuseTids = FALSE
  TornKills = FALSE
  Lossy = FALSE
  MaxKills = 0
  Field = {"A"}
  Value = {0}
  Initial = 0
  Budgets <- OrderlyBudgets
INVARIANTS
  SafeInv
  Agreement
  CommitWasVoted
PROPERTIES
  KeepsPromise
CHECK_DEADLOCK FALSE
