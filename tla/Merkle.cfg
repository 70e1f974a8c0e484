SPECIFICATION MerkleSpec
CONSTANTS
  MaxLeaves = 5
  Lists <- MCLists
  Targets <- MCTargets
  MaxPath = 3
  MaxCount = 6
  NoHash = NoHash
INVARIANTS RootCommits AcceptedIsMember PositionBound
CHECK_DEADLOCK FALSE
