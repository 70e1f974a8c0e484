SPECIFICATION PassportSpec
CONSTANTS
  a = a
  b = b
  Keys = {a, b}
  EmptyKey = EmptyKey
  Documents <- MCDocuments
  SignedAts = {"monday", "tuesday"}
  Clocks <- MCClocks
  None = None
  Unparseable = Unparseable
  MaxSignatures = 2
  MaxVouchers = 1
INVARIANTS ValidIsVouchedFor TrustOnlyAdds IssuerChecksAgree GateAgreesOnRebuilt
CHECK_DEADLOCK FALSE
