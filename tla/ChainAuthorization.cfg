SPECIFICATION FairSpec
CONSTANTS
  p = p
  q = q
  r1 = r1
  l1 = l1
  l2 = l2
  l3 = l3
  a = a
  b = b
  None = None
  Unparseable = Unparseable
  EmptyKey = EmptyKey
  EmptyId = EmptyId
  Keys <- MCKeys
  Ids <- MCIds
  Categories <- MCCategories
  Times <- MCTimes
  Requests <- MCRequests
  Revocations <- MCRevocations
INVARIANTS
  TokenProvesAuthorization
  StructuralPassIsSound
  RefusalsJustified
PROPERTY
  CallReturns
CHECK_DEADLOCK FALSE
