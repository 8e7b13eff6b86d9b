SPECIFICATION Spec
CONSTANTS
  Node = {m, a, b}
  Manager = m
  None = none
  MaxNodes = 3
  MaxEvents = 4
INVARIANTS
  ClockIsHistory
PROPERTIES
  ReceiveDominates
CHECK_DEADLOCK FALSE
