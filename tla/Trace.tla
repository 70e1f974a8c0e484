------------------------------- MODULE Trace -------------------------------
(***************************************************************************)
(* attribution.go, TraceBeneficiary: from a signed action receipt back to  *)
(* the principal its delegation chain starts from, through the delegation  *)
(* records the caller holds.  The records are a list in the caller's       *)
(* order; several may be between the same keys or carry the same id.       *)
(*                                                                         *)
(* signature is the key that signed exactly the other fields of a record   *)
(* or receipt, Forged when the bytes verify under no key, Absent when      *)
(* there are none.  Delegation ids are numbers in the order of the         *)
(* strings.                                                                *)
(***************************************************************************)
EXTENDS ScopeMatch

CONSTANTS
  Keys,          \* public keys
  Agents,        \* agent ids
  Scopes,        \* scopes, as sequences of segments
  Forged,        \* a signature that verifies under no key
  Absent,        \* an empty signature
  EmptyId,       \* the empty delegation id
  Unknown        \* the id "unknown" that a trace reports for want of another

Ids == Nat
Signature == Keys \cup {Forged, Absent}

TraceDelegation ==
  [delegationId : Ids, delegatedBy : Keys, delegatedTo : Keys,
   scope : SUBSET Scopes, signature : Signature]

ActionReceipt ==
  [receiptId : Nat, version : STRING, timestamp : Nat, agentId : Agents,
   delegationId : Ids, scopeUsed : Scopes, delegationChain : Seq(Keys),
   signature : Signature]

ASSUME TraceAssumption ==
  /\ EmptyId \in Ids /\ Unknown \in Ids /\ EmptyId # Unknown
  /\ Forged \notin Keys /\ Absent \notin Keys /\ Forged # Absent

\* delegation.VerifyDelegationSignature over the fields toTypesDelegation
\* carries over, which are all the delegator signed.
Authentic(d) == d.signature = d.delegatedBy

\* verifyReceiptSignature, with its gate on the version.
VerifyReceiptSignature(r, key) == r.version = "1.1" /\ r.signature = key

\* The places of the records from one key to another in the caller's list.
Matches(records, from, to) ==
  {k \in DOMAIN records : /\ records[k].delegatedBy = from
                          /\ records[k].delegatedTo = to}

\* The comparison of the sort: authentic records first, then by id.
Before(d, e) ==
  IF Authentic(d) # Authentic(e) THEN Authentic(d)
  ELSE d.delegationId < e.delegationId

\* Mutant of FirstInOrder: the caller's order decides.
FirstGiven(records, places) == records[Min(places)]

\* The first record, among some places of a list, once it is stably sorted.
FirstInOrder(records, places) ==
  records[CHOOSE i \in places : \A j \in places \ {i} :
            \/ Before(records[i], records[j])
            \/ ~ Before(records[j], records[i]) /\ i < j]

\* Hops are numbered from 1; the last leads to the executor.
Hops(r) == 1..(Len(r.delegationChain) - 1)

\* The record a hop is reported with, of which there is at least one: at the
\* tail the one the receipt names, if it is there.
Chosen(r, records, matches, i) ==
  LET named == {k \in matches : records[k].delegationId = r.delegationId}
  IN IF i = Len(r.delegationChain) - 1 /\ named # {}
     THEN FirstInOrder(records, named)
     ELSE FirstInOrder(records, matches)

Hop(r, records, i) ==
  LET from == r.delegationChain[i]
      to == r.delegationChain[i + 1]
      matches == Matches(records, from, to)
      chosen == Chosen(r, records, matches, i)
  IN IF matches = {}
     THEN [from |-> from, to |-> to, delegationId |-> Unknown, scope |-> {},
           depth |-> i - 1]
     ELSE [from |-> from, to |-> to,
           delegationId |-> IF chosen.delegationId = EmptyId THEN Unknown
                            ELSE chosen.delegationId,
           scope |-> chosen.scope, depth |-> i - 1]

\* Mutant of HopAuthentic: there is a record.
HopRecorded(r, records, i) ==
  Matches(records, r.delegationChain[i], r.delegationChain[i + 1]) # {}

\* Some record of the hop carries its delegator's signature.
HopAuthentic(r, records, i) ==
  \E k \in Matches(records, r.delegationChain[i], r.delegationChain[i + 1]) :
    Authentic(records[k])

\* beneficiaries maps a principal's key to its id, EmptyId for an entry
\* without one.  An empty chain has no principal and no executor.
TraceBeneficiary(r, records, beneficiaries) ==
  LET keyChain == r.delegationChain
      chain == [i \in Hops(r) |-> Hop(r, records, i)]
      known == keyChain # << >> /\ Head(keyChain) \in DOMAIN beneficiaries
  IN [receiptId |-> r.receiptId,
      executorAgent |-> r.agentId,
      beneficiary |->
        IF known /\ beneficiaries[Head(keyChain)] # EmptyId
        THEN <<"principal", beneficiaries[Head(keyChain)]>>
        ELSE <<"key", IF keyChain = << >> THEN EmptyId ELSE Head(keyChain)>>,
      chain |-> chain,
      totalDepth |-> Len(chain),
      resolved |-> /\ known /\ Len(keyChain) > 1
                   /\ \A i \in Hops(r) : chain[i].delegationId # Unknown,
      verified |-> /\ Len(keyChain) > 1
                   /\ VerifyReceiptSignature(r, Last(keyChain))
                   /\ \A i \in Hops(r) : HopAuthentic(r, records, i)]
=============================================================================
