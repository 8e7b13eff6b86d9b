SPECIFICATION AwareCheck
CONSTANTS
  w1 = w1
  w2 = w2
  Worker = {w1, w2}
  Tid = {t1, t2}
  NoTid = none
  MaxTrans = 1
  MaxNodes = 2
  ReuseTids = FALSE
  TornKills = TRUE
  Lossy = TRUE
  MaxKills = 1
  Field = {"A"}
  Value = {0, 1}
  Initial = 0
  Budgets <- AskBudgets
INVARIANTS
  AskedInv
  WaitsAsked
PROPERTIES
  UncertainBlocks
CHECK_DEADLOCK FALSE
