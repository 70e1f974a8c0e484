SPECIFICATION Spec
CONSTANTS
  p = p
  q = q
  a = a
  b = b
  Star = Star
  Currency = Currency
  Invocations = Invocations
  None = None
  Unparseable = Unparseable
  NonFinite = NonFinite
  MaxInt = 5
  Keys <- MCKeys
  EmptyKey = EmptyKey
  Segments <- MCSegments
  Units <- MCUnits
  Scopes <- MCInnerWildcards
  Chains <- MCChains
INVARIANTS
  EffectiveCeiling
  DepthBoundsLength
  ScopeNarrowsEndToEnd
PROPERTY
  ImplementsPolicy
CHECK_DEADLOCK FALSE
