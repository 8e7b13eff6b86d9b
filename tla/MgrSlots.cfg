SPECIFICATION MgrWholeSpec
CONSTANTS
  Worker = {w1}
  Tid = {t1, t2}
  NoTid = none
  MaxTrans = 2
  MaxNodes = 2
  ReuseTids = FALSE
  TornKills = FALSE
INVARIANTS
  MgrTypeOK
  CommitRetired
  CommitIsFinal
