-------------------------- MODULE MCAccountability -------------------------
(***************************************************************************)
(* A principal, an agent and a sub-agent.  Delegations with an id used     *)
(* twice between the same keys and once more between others, one without   *)
(* an id, and one back to the principal; receipts on a chain of one hop,   *)
(* of two, on one that goes round, and on none, of another version, and    *)
(* under a delegation nobody knows.  Three records and one receipt, or one *)
(* record and two receipts.                                                *)
(***************************************************************************)
EXTENDS Accountability

CONSTANTS p, a, b

Read == <<"data", "read">>
MCScopes == {<<"data">>, Read}

Grant == [delegationId |-> 1, delegatedBy |-> p, delegatedTo |-> a,
          scope |-> {<<"data">>}, signature |-> Absent]

MCGrants ==
  {Grant,
   [Grant EXCEPT !.delegationId = 2, !.scope = {Read}],
   [Grant EXCEPT !.scope = {Read}],
   [Grant EXCEPT !.delegationId = EmptyId, !.delegatedBy = a,
                 !.delegatedTo = p],
   [Grant EXCEPT !.delegationId = 2, !.delegatedBy = a, !.delegatedTo = b,
                 !.scope = {Read}]}

Action == [receiptId |-> 1, version |-> "1.1", timestamp |-> 1, agentId |-> "x",
           delegationId |-> 1, scopeUsed |-> Read, delegationChain |-> <<p, a>>,
           signature |-> Absent]

MCActions ==
  {Action,
   [Action EXCEPT !.receiptId = 2, !.delegationChain = <<p, a, b>>,
                  !.delegationId = 2],
   [Action EXCEPT !.receiptId = 3, !.delegationChain = <<p, a, p, a>>,
                  !.delegationId = 2, !.scopeUsed = <<"data">>,
                  !.timestamp = 2],
   [Action EXCEPT !.receiptId = 4, !.delegationChain = << >>,
                  !.delegationId = 3],
   [Action EXCEPT !.receiptId = 5, !.version = "1.0", !.agentId = "y"]}

Principle(id, m, t) == [id |-> id, enforcement |-> [mode |-> m, technical |-> t]]
MCFloor ==
  <<Principle("F-001", "inline", None), Principle("F-002", None, TRUE),
    Principle("F-003", None, FALSE), Principle("F-004", "inline", FALSE),
    Principle("F-005", None, None), Principle("F-006", "warn", None),
    Principle("F-007", "audit", None), Principle("F-099", None, None)>>
MCBeneficiaries == p :> 7
MCFallback == [from |-> 0, to |-> 9]
=============================================================================
