SPECIFICATION Spec
CONSTANTS
  Node = {1, 2, 3, 4}
  Nobody = 0
  LastMember = 4
  Absent = {1}
  Lossy = FALSE
  MaxFaults = 1
INVARIANTS
  BullyTypeOK
  FollowsUpwards
  ElectionInv
PROPERTIES
  ClaimJustified
