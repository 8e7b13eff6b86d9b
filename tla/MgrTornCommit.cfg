SPECIFICATION MgrSpec
CONSTANTS
  Worker = {w1}
  Tid = {t1, t2}
  NoTid = none
  MaxTrans = 2
  MaxNodes = 1
  ReuseTids = FALSE
  TornKills = TRUE
PROPERTY TimeoutSparesDecided
