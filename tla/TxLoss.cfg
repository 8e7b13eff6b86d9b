SPECIFICATION Spec
CONSTANTS
  w1 = w1
  w2 = w2
  Worker = {w1, w2}
  Tid = {t1}
  NoTid = none
  MaxTrans = 1
  MaxNodes = 2
  ReuseTids = FALSE
  TornKills = TRUE
  Lossy = TRUE
  MaxKills = 1
  Field = {"A", "B"}
  Value = {0, 1}
  Initial = 0
  Budgets <- LossBudgets
PROPERTIES
  RollbackRestores
  MgrSpec
CHECK_DEADLOCK FALSE
