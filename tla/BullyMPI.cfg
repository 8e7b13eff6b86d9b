SPECIFICATION FairSpec
CONSTANTS
  Size = 4
  TimeoutValue = 6
  MaxRate = 3
  ReturnToLife = 12
  Lossy = FALSE
  MaxDeaths = 2
INVARIANTS
  MpiTypeOK
PROPERTIES
  ClaimJustified
  LeaderDeadIsTrue
  LeaderElected
