SPECIFICATION Spec
CONSTANTS
  p = p
  a = a
  b = b
  Keys = {p, a, b}
  Agents = {"x", "y"}
  Star = Star
  Scopes <- MCScopes
  Forged = Forged
  Absent = Absent
  None = None
  EmptyId = 0
  Unknown = 9
  Grants <- MCGrants
  Actions <- MCActions
  Floor <- MCFloor
  Beneficiaries <- MCBeneficiaries
  Fallback <- MCFallback
  MaxRecords = 3
  MaxReceipts = 2
  MaxArrivals = 5
INVARIANTS VerifiedLineage LineageStable ScopeFactMatchesTrace
PROPERTY ViolationStands
CHECK_DEADLOCK FALSE
