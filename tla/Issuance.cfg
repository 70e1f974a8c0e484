SPECIFICATION Spec
CONSTANTS
  p = p
  q = q
  a = a
  b = b
  Star = Star
  Currency = Currency
  Invocations = Invocations
  None = None
  Unparseable = Unparseable
  NonFinite = NonFinite
  EmptyKey = EmptyKey
  MaxInt = 5
  MaxLinks = 3
  Keys <- MCKeys
  Segments <- MCSegments
  Units <- MCUnits
  Scopes <- MCScopes
  Times <- MCTimes
  RootOptions <- MCRootOptions
  CommerceOptions <- MCCommerceOptions
  CommerceScopes <- MCCommerceScopes
  Usd = Invocations
  ForeignRoots <- MCForeignRoots
  ChildOptions <- MCChildOptions
INVARIANTS
  MintedChainsVerify
  BoundsMaterialized
  LiveLeafLiveAncestors
CHECK_DEADLOCK FALSE
