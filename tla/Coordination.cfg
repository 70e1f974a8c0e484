SPECIFICATION TaskSpec
CONSTANTS
  res = res
  ana = ana
  Operator = op
  Keys = {op, res, ana}
  Briefs <- MCBriefs
  Assignments <- MCAssignments
  Packets <- MCPackets
  Reviews <- MCReviews
  Handoffs <- MCHandoffs
  Deliverables <- MCDeliverables
  Completions <- MCCompletions
  MaxSigned = 9
INVARIANTS AcceptanceIsOfItsIds CompletedOnApprovedEvidence
CHECK_DEADLOCK FALSE
