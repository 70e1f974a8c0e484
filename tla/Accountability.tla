--------------------------- MODULE Accountability --------------------------
(***************************************************************************)
(* Agents act under delegations and sign receipts; a verifier that keeps   *)
(* what it is given traces receipts to their beneficiaries (attribution)   *)
(* and reports on agents (values).  What it is given comes in any order,   *)
(* twice, or made up: a record nobody signed, a receipt with a signature   *)
(* that is absent or does not verify, an id used again.                    *)
(*                                                                         *)
(* Neither package keeps state: records, receipts, states and              *)
(* beneficiaries are the arguments its caller passes.  The caller modelled *)
(* appends what arrives, knows a delegation's scope from the first         *)
(* authentic record with its id, and revokes by id.                        *)
(***************************************************************************)
EXTENDS Compliance

CONSTANTS
  Grants,        \* delegations that may be signed or made up
  Actions,       \* receipts that may be signed or made up
  Floor,         \* the principles, as stated in JSON
  Beneficiaries, \* principal's key -> principal id
  MaxRecords,    \* bound on the delegation records
  MaxReceipts,   \* bound on the receipts
  MaxArrivals,   \* bound on both together, a receipt counting twice
  Fallback       \* the period of a report on no receipts

ASSUME AccountabilityAssumption ==
  /\ Grants \subseteq TraceDelegation
  /\ Actions \subseteq ActionReceipt
  /\ Floor \in Seq([id : STRING, enforcement : Enforcement])
  /\ DOMAIN Beneficiaries \subseteq Keys
  /\ MaxRecords \in Nat /\ MaxReceipts \in Nat /\ MaxArrivals \in Nat

VARIABLES
  records,       \* the delegation records, in the order they came
  receipts,      \* the receipts, in the order they came
  states,        \* id -> DelegationState
  report,        \* the last compliance report
  given,         \* history: <<from, to>> for every delegation really signed
  done           \* history: <<key, receipt>> for every receipt really signed

vars == <<records, receipts, states, report, given, done>>

-----------------------------------------------------------------------------
Init ==
  /\ records = << >> /\ receipts = << >>
  /\ states = << >>
  /\ report = None
  /\ given = {} /\ done = {}

AddRecord(d) ==
  /\ Len(records) < MaxRecords
  /\ Len(records) + 1 + 2 * Len(receipts) <= MaxArrivals
  /\ records' = Append(records, d)

\* A delegator signs a delegation, possibly under an id used before.
Delegate(g) ==
  LET d == [g EXCEPT !.signature = g.delegatedBy]
  IN /\ AddRecord(d)
     /\ given' = given \cup {<<d.delegatedBy, d.delegatedTo>>}
     /\ states' = [id \in DOMAIN states \cup {d.delegationId} |->
                     IF id \in DOMAIN states THEN states[id]
                     ELSE [scope |-> d.scope, revoked |-> FALSE]]
     /\ UNCHANGED <<receipts, report, done>>

\* A record its delegator did not sign.
MakeUpRecord(g) ==
  /\ AddRecord([g EXCEPT !.signature = Forged])
  /\ UNCHANGED <<receipts, states, report, given, done>>

AddReceipt(r) ==
  /\ Len(receipts) < MaxReceipts
  /\ Len(records) + 2 * Len(receipts) + 2 <= MaxArrivals
  /\ receipts' = Append(receipts, r)

\* A key holder signs what it did, with a chain of its own choosing.
Act(key, a) ==
  LET r == [a EXCEPT !.signature = key]
  IN /\ AddReceipt(r)
     /\ done' = done \cup {<<key, r>>}
     /\ UNCHANGED <<records, states, report, given>>

\* A receipt changed after it was signed, or never signed.
MakeUpReceipt(a, signature) ==
  /\ AddReceipt([a EXCEPT !.signature = signature])
  /\ UNCHANGED <<records, states, report, given, done>>

Revoke(id) ==
  /\ id \in DOMAIN states /\ ~ states[id].revoked
  /\ states' = [states EXCEPT ![id].revoked = TRUE]
  /\ UNCHANGED <<records, receipts, report, given, done>>

\* EvaluateCompliance on everything there is at this moment.
Evaluate(agent) ==
  /\ report' =
       EvaluateCompliance(agent, Fallback, receipts, LoadFloor(Floor), states)
  /\ UNCHANGED <<records, receipts, states, given, done>>

Next ==
  \/ \E g \in Grants : Delegate(g) \/ MakeUpRecord(g)
  \/ \E a \in Actions : \/ \E key \in Keys : Act(key, a)
                        \/ \E s \in {Forged, Absent} : MakeUpReceipt(a, s)
  \/ \E id \in DOMAIN states : Revoke(id)
  \/ \E agent \in Agents : Evaluate(agent)

Spec == Init /\ [][Next]_vars

-----------------------------------------------------------------------------
Trace(r) == TraceBeneficiary(r, records, Beneficiaries)

AllReceipts == {receipts[i] : i \in DOMAIN receipts}
AllRecords == {records[i] : i \in DOMAIN records}

\* TraceBeneficiary's Verified is true exactly when the key at the tail signed
\* the receipt and every key of the chain really delegated to the next, also
\* on chains that come back to a key they passed, and whatever made-up records
\* stand beside the true ones.  What such a trace reports of a hop is then an
\* authentic record; only the tail may show one that is not, and only under
\* the very id the receipt was signed with.
VerifiedLineage ==
  \A r \in AllReceipts :
    LET t == Trace(r)
        c == r.delegationChain
        Reports(i, d) ==
          /\ <<d.delegatedBy, d.delegatedTo>> = <<c[i], c[i + 1]>>
          /\ t.chain[i].scope = d.scope
          /\ t.chain[i].delegationId =
               IF d.delegationId = EmptyId THEN Unknown ELSE d.delegationId
    IN /\ t.verified <=>
            /\ Len(c) > 1 /\ r.version = "1.1"
            /\ <<Last(c), r>> \in done
            /\ \A i \in 1..(Len(c) - 1) : <<c[i], c[i + 1]>> \in given
       /\ t.verified =>
            \A i \in 1..(Len(c) - 1) : \E d \in AllRecords :
              /\ Reports(i, d)
              /\ d.signature # d.delegatedBy =>
                   i = Len(c) - 1 /\ d.delegationId = r.delegationId

\* "The reported lineage is stable regardless of which duplicate came first":
\* the trace does not depend on the order of the records, as long as no two
\* records between the same keys share an id and a verdict but not a scope.
LineageStable ==
  (\A d, e \in AllRecords :
     (/\ d.delegatedBy = e.delegatedBy /\ d.delegatedTo = e.delegatedTo
      /\ d.delegationId = e.delegationId /\ Authentic(d) = Authentic(e))
       => d.scope = e.scope)
    => \A p \in Bijection(DOMAIN records, DOMAIN records) : \A r \in AllReceipts :
         TraceBeneficiary(r, [i \in DOMAIN records |-> records[p[i]]],
                          Beneficiaries) = Trace(r)

StatusOf(id) ==
  {report.checks[i].status : i \in {j \in DOMAIN report.checks :
                                      report.checks[j].principleId = id}}

\* A violation cannot be outlived: once EvaluateCompliance has reported one of
\* an agent, no later report clears the principle, however many good receipts
\* follow.
ViolationStands ==
  [][(report # None /\ report.agentId = report'.agentId) =>
       \A i \in DOMAIN report.checks :
         report.checks[i].status = "violation"
           => report'.checks[i].status = "violation"]_vars

\* The two packages agree on scope, though one goes by id and the other by
\* keys: if a fresh report has F-003 enforced and a receipt's trace verifies,
\* the record reported at the tail allows the scope that was used, provided
\* its id was signed once and for these two keys.
ScopeFactMatchesTrace ==
  \A r \in AllReceipts :
    LET c == r.delegationChain
        signed == {d \in AllRecords : /\ d.signature = d.delegatedBy
                                      /\ d.delegationId = r.delegationId}
    IN (/\ r.delegationId # EmptyId
        /\ Trace(r).verified
        /\ \E d \in AllRecords : /\ signed = {d}
                                 /\ d.delegatedBy = c[Len(c) - 1]
                                 /\ d.delegatedTo = c[Len(c)]
        /\ report = EvaluateCompliance(r.agentId, Fallback, receipts,
                                       LoadFloor(Floor), states)
        /\ StatusOf("F-003") = {"enforced"})
       => \E s \in Last(Trace(r).chain).scope : ScopeCovers(s, r.scopeUsed)
=============================================================================
