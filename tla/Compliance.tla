----------------------------- MODULE Compliance ----------------------------
(***************************************************************************)
(* values.go, EvaluateCompliance: what a verifier reports about an agent,  *)
(* principle by principle, from the receipts and the state of the          *)
(* delegations it is given.  Wording is left out of a check, and from the  *)
(* report its own id, date and the verifier's signature; times are numbers *)
(* in the order of the strings, the order periodBounds uses.               *)
(***************************************************************************)
EXTENDS Trace

CONSTANT None    \* an absent mode, flag or evidence

\* How a principle is enforced, as the floor's JSON states it.
Enforcement == [mode : {"inline", "audit", "warn", None},
                technical : BOOLEAN \cup {None}]

\* The delegations by id, as the caller supplies them.
DelegationState == [scope : SUBSET Scopes, revoked : BOOLEAN]

\* ResolveEnforcementMode: a deprecated flag stands in for a missing mode.
ResolveEnforcementMode(e) ==
  IF e.mode # None THEN e.mode
  ELSE IF e.technical = TRUE THEN "inline"
  ELSE "audit"

\* LoadFloor, once the JSON is parsed: every principle gets a mode.
LoadFloor(floor) ==
  [i \in DOMAIN floor |->
     [floor[i] EXCEPT !.enforcement.mode =
        ResolveEnforcementMode(floor[i].enforcement)]]

-----------------------------------------------------------------------------
\* Only the agent's own receipts are analysed, here by their places in the
\* list.
OwnReceipts(agent, receipts) ==
  {i \in DOMAIN receipts : receipts[i].agentId = agent}

Untraced(receipts, own) ==
  {i \in own : receipts[i].delegationChain = << >>}

\* Mutant of OutOfScope: the scope used is read as the grant.
OutOfScopeReversed(receipts, own, states) ==
  {i \in own :
     /\ receipts[i].delegationId \in DOMAIN states
     /\ ~ \E s \in states[receipts[i].delegationId].scope :
            ScopeCovers(receipts[i].scopeUsed, s)}

\* A receipt under a delegation the caller does not know is not out of scope.
OutOfScope(receipts, own, states) ==
  {i \in own :
     /\ receipts[i].delegationId \in DOMAIN states
     /\ ~ \E s \in states[receipts[i].delegationId].scope :
            ScopeCovers(s, receipts[i].scopeUsed)}

\* Mutant of UnderRevoked: only the latest receipt is looked at.
LatestUnderRevoked(receipts, own, states) ==
  {i \in own :
     /\ i = Max(own)
     /\ receipts[i].delegationId \in DOMAIN states
     /\ states[receipts[i].delegationId].revoked}

\* The flag is the current one: what was done before the revocation counts.
UnderRevoked(receipts, own, states) ==
  {i \in own :
     /\ receipts[i].delegationId \in DOMAIN states
     /\ states[receipts[i].delegationId].revoked}

\* A signature is looked for, and not verified.
Unsigned(receipts, own) == {i \in own : receipts[i].signature = Absent}

AgentIds(receipts, own) == {receipts[i].agentId : i \in own}

Judge(clean) == IF clean THEN "enforced" ELSE "violation"

FirstOf(receipts, places) == receipts[Min(places)].receiptId

\* The switch of evaluatePrinciple.
Status(id, receipts, own, states) ==
  CASE id = "F-001" -> IF own = {} THEN "unverifiable"
                       ELSE Judge(Untraced(receipts, own) = {})
    [] id = "F-002" -> Judge(\A a, b \in AgentIds(receipts, own) : a = b)
    [] id = "F-003" -> Judge(OutOfScope(receipts, own, states) = {})
    [] id = "F-004" -> Judge(UnderRevoked(receipts, own, states) = {})
    [] id = "F-005" -> IF own = {} THEN "unverifiable"
                       ELSE Judge(Unsigned(receipts, own) = {})
    [] id \in {"F-006", "F-007"} -> "attested"
    [] OTHER -> "unverifiable"

\* The receipt a check names, when it names one.
Evidence(id, receipts, own, states) ==
  LET status == Status(id, receipts, own, states)
  IN CASE id = "F-001" /\ status = "enforced" -> FirstOf(receipts, own)
       [] id = "F-003" /\ status = "violation" ->
            FirstOf(receipts, OutOfScope(receipts, own, states))
       [] id = "F-004" /\ status = "violation" ->
            FirstOf(receipts, UnderRevoked(receipts, own, states))
       [] OTHER -> None

EvaluatePrinciple(p, receipts, own, states) ==
  [principleId |-> p.id,
   status |-> Status(p.id, receipts, own, states),
   enforcementMode |-> ResolveEnforcementMode(p.enforcement),
   evidence |-> Evidence(p.id, receipts, own, states)]

\* The weight of a status, in tenths.
Weight(status) ==
  CASE status = "enforced" -> 10 [] status = "attested" -> 8
    [] status = "unverifiable" -> 5 [] OTHER -> 0

\* The mean weight in thousandths, rounded half up.
Score(checks) ==
  LET n == Len(checks)
      sum == FoldSeq(LAMBDA c, acc : Weight(c.status) + acc, 0, checks)
  IN IF n = 0 THEN 0 ELSE (200 * sum + n) \div (2 * n)

\* periodBounds.
Period(receipts, own, fallback) ==
  LET times == {receipts[i].timestamp : i \in own}
  IN IF own = {} THEN fallback ELSE [from |-> Min(times), to |-> Max(times)]

EvaluateCompliance(agent, fallback, receipts, floor, states) ==
  LET own == OwnReceipts(agent, receipts)
      checks == [i \in DOMAIN floor |->
                   EvaluatePrinciple(floor[i], receipts, own, states)]
  IN [agentId |-> agent,
      period |-> Period(receipts, own, fallback),
      receiptsAnalyzed |-> Cardinality(own),
      checks |-> checks,
      overallCompliance |-> Score(checks)]
=============================================================================
