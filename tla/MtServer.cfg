SPECIFICATION FairSpec
CONSTANTS
  Conn = {c1, c2, c3, c4}
  max = 2
  MAXPENDING = 2
  Wrap = 8
INVARIANTS
  ServerTypeOK
  AtMostMax
PROPERTIES
  LoadIsHonest
  RefusedWhenFull
  QueuedAnswered
CHECK_DEADLOCK FALSE
