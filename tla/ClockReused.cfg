SPECIFICATION Spec
CONSTANTS
  Node = {m, a, b}
  Manager = m
  None = none
  MaxNodes = 3
  MaxEvents = 3
INVARIANTS
  StampsGrow
CHECK_DEADLOCK FALSE
