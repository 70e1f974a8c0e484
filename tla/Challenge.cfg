\* Two nonces and two keys: a response can belong to the other challenge or to
\* the other key.  A second has two units, so that challenges are made on and
\* between whole seconds; a Duration holds at most three units, so that a
\* lifetime of two seconds overflows it.
SPECIFICATION Spec
CONSTANTS
  Nonces = {n1, n2}
  Keys = {k1, k2}
  Lifetimes = {1, 2}
  Second = 2
  MaxDuration = 3
  Horizon = 3
  None = None
  Unparseable = Unparseable
SYMMETRY Symmetric
INVARIANTS AcceptedIsRecent
PROPERTY StaleStaysRefused
CHECK_DEADLOCK FALSE
