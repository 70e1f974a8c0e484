---------------------------- MODULE References -----------------------------
(***************************************************************************)
(* The content addresses receipts are matched by: action_ref of a request  *)
(* (actionref.go) and decision_ref of a decision (receiptcore,             *)
(* decision_ref.go).  Strings whose spelling matters are numbers in        *)
(* code-point order, and Nfc gives their normal form.  Instants are        *)
(* numbers of ticks.                                                       *)
(***************************************************************************)
EXTENDS Signatures, Integers, SequencesExt

CONSTANTS
  Nfc,             \* spelling -> its Unicode normal form
  TicksPerSecond   \* the precision a timestamp may have beyond the second

ASSUME ReferencesAssumption ==
  /\ TicksPerSecond \in Nat \ {0}
  /\ \A s \in DOMAIN Nfc : Nfc[s] \in DOMAIN Nfc /\ Nfc[Nfc[s]] = Nfc[s]

\* Place k of a sorted list is the one that k - 1 others come ahead of.
Places(ahead) ==
  [k \in DOMAIN ahead |-> CHOOSE j \in DOMAIN ahead : Cardinality(ahead[j]) = k - 1]

\* sort.Strings.
Sorted(s) ==
  LET ahead == [j \in DOMAIN s |->
                  {i \in DOMAIN s : s[i] < s[j] \/ (s[i] = s[j] /\ i < j)}]
  IN [k \in DOMAIN s |-> s[Places(ahead)[k]]]

\* NormalizeTimestamp: cut to the second.
NormalizeTimestamp(t) == t - (t % TicksPerSecond)

\* Mutant of CanonicalizeScopes: in the caller's order.
NormalizeScopes(scopes) ==
  LET normal == [i \in DOMAIN scopes |-> Nfc[scopes[i]]]
  IN IF IsInjective(normal) THEN normal ELSE Error

\* CanonicalizeScopes: normal forms, no two alike, in order.
CanonicalizeScopes(scopes) ==
  LET normal == [i \in DOMAIN scopes |-> Nfc[scopes[i]]]
  IN IF IsInjective(normal) THEN Sorted(normal) ELSE Error

\* ComputeActionRefScopes; a scope that is a single string has its own shape.
ComputeActionRefScopes(request) ==
  IF \/ request.createdAt = Malformed
     \/ CanonicalizeScopes(request.scopeRequired) = Error
  THEN Error
  ELSE CanonicalHash([agentId |-> request.agentId,
                      actionType |-> request.actionType,
                      scopeRequired |-> CanonicalizeScopes(request.scopeRequired),
                      timestamp |-> NormalizeTimestamp(request.createdAt)])

\* actionref.Match, of references that are not empty.
Match(a, b) == a = b

-----------------------------------------------------------------------------
\* A reference or time as the patterns accept it.
WellFormed(x) == x \notin {Malformed, Null}

\* NormalizeCoreDecisionOutputV1: a denial carries no authority and no end, a
\* permission both; constraints become a set.
OutputOk(o) ==
  IF o.verdict = "deny"
  THEN o.effectiveAuthorityRef = Null /\ o.validUntil = Null
  ELSE /\ o.verdict \in {"permit", "narrow"}
       /\ WellFormed(o.effectiveAuthorityRef) /\ WellFormed(o.validUntil)

NormalizeOutput(o) ==
  [o EXCEPT !.constraints = {Nfc[@[i]] : i \in DOMAIN @}]

\* BuildDecisionRefV1.  The components are hashed under tags of their own.
BuildDecisionRef(actionRef, d) ==
  IF ~ WellFormed(actionRef) \/ ~ OutputOk(d.output) THEN Error
  ELSE CanonicalHash(
         [tag |-> "APS-DECISION-REF-V1",
          action_ref |-> actionRef,
          authority_state_ref |->
            CanonicalHash([tag |-> "authority", value |-> d.authority]),
          policy_ref |-> CanonicalHash([tag |-> "policy", value |-> d.policy]),
          context_ref |-> CanonicalHash([tag |-> "context", value |-> d.context]),
          decision_output_ref |->
            CanonicalHash([tag |-> "output", value |-> NormalizeOutput(d.output)])])
=============================================================================
