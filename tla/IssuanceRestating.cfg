SPECIFICATION RestatingSpec
CONSTANTS
  p = p
  q = q
  a = a
  b = b
  Star = Star
  Currency = Currency
  Invocations = Invocations
  None = None
  Unparseable = Unparseable
  NonFinite = NonFinite
  EmptyKey = EmptyKey
  MaxInt = 5
  MaxLinks = 3
  Keys <- MCKeys
  Segments <- MCSegments
  Units <- MCUnits
  Scopes <- MCScopes
  Times <- MCTimes
  RootOptions <- MCRestated
  CommerceOptions = {}
  CommerceScopes <- MCCommerceScopes
  Usd = Invocations
  ForeignRoots = {}
  ChildOptions <- MCSpendChildren
INVARIANT
  MintedChainsVerify
CHECK_DEADLOCK FALSE
