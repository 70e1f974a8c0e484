SPECIFICATION FairSpec
CONSTANTS
  g1 = g1
  g2 = g2
  g3 = g3
  k1 = k1
  k2 = k2
  None = None
  EmptyId = 0
  Procs = {g1, g2, g3}
  Records = {k1, k2}
  Ids <- MCIds
  Requests <- MCRequests
INVARIANTS
  NoMapRace
PROPERTIES
  Linearizable
  CallsReturn
