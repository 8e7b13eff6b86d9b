SPECIFICATION Spec
CONSTANTS
  w1 = w1
  w2 = w2
  Worker = {w1, w2}
  Tid = {t1}
  NoTid = none
  MaxTrans = 1
  MaxNodes = 2
  ReuseTids = FALSE
  TornKills = FALSE
  Lossy = FALSE
  MaxKills = 0
  Field = {"A"}
  Value = {0, 1}
  Initial = 0
  Budgets <- SilentBudgets
INVARIANTS
  SilentVoterAborts
CHECK_DEADLOCK FALSE
