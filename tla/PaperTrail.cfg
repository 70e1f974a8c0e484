SPECIFICATION Spec
CONSTANTS
  Null = Null
  Malformed = Malformed
  Error = Error
  Nfc <- MCNfc
  TicksPerSecond = 2
  KeysOf <- MCKeysOf
  Grain = 2
  ReceiptDrafts <- MCReceiptDrafts
  RecordDrafts <- MCRecordDrafts
  CompletionDrafts <- MCCompletionDrafts
  SaleDrafts <- MCSaleDrafts
  EmitDrafts <- MCEmitDrafts
  AttestDrafts <- MCAttestDrafts
  ReportDrafts <- MCReportDrafts
  Supplies <- MCSupplies
  MaxArtifacts = 2
  MaxTime = 2
INVARIANTS ReceiptVouchedFor RefsIdentify OutcomeBound TagsSeparate GroundAgrees WeightBound
PROPERTY VerdictStands
CHECK_DEADLOCK FALSE
