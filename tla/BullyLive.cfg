SPECIFICATION FairSpec
CONSTANTS
  Node = {1, 2, 3}
  Nobody = 0
  LastMember = 3
  Absent = {}
  Lossy = FALSE
  MaxFaults = 1
PROPERTIES
  OrphanNotices
