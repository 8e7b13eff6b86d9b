SPECIFICATION RoomyCheck
CONSTANTS
  w1 = w1
  w2 = w2
  Worker = {w1, w2}
  Tid = {t1, t2}
  NoTid = none
  MaxTrans = 2
  MaxNodes = 2
  ReuseTids = FALSE
  TornKills = TRUE
  Lossy = TRUE
  MaxKills = 0
  Field = {"A"}
  Value = {0, 1}
  Initial = 0
  Budgets <- AbortBudgets
INVARIANTS
  AskedInv
  CarefulInv
PROPERTIES
  RollbackRestores
CHECK_DEADLOCK FALSE
