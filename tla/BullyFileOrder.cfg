SPECIFICATION Spec
CONSTANTS
  Node = {1, 2, 3, 4}
  Nobody = 0
  LastMember = 1
  Absent = {1}
  Lossy = FALSE
  MaxFaults = 0
PROPERTIES
  ClaimJustified
