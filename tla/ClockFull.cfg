SPECIFICATION Spec
CONSTANTS
  Node = {m, a, b}
  Manager = m
  None = none
  MaxNodes = 2
  MaxEvents = 4
INVARIANTS
  ClockIsHistory
CHECK_DEADLOCK FALSE
