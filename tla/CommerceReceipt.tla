-------------------------- MODULE CommerceReceipt --------------------------
(***************************************************************************)
(* commerce/receipt.go: the signed record of a purchase, and the chain of  *)
(* principals it carries (ExtractDelegationChain).  An empty string is     *)
(* Null; a string that has no canonical form is Malformed.                 *)
(***************************************************************************)
EXTENDS Signatures, SequencesExt

\* ExtractDelegationChain: the passport's key, then the delegators in order,
\* none twice and none that is empty.
ExtractDelegationChain(publicKey, delegators) ==
  LET chain[n \in 0..Len(delegators)] ==
        IF n = 0 THEN <<publicKey>>
        ELSE IF delegators[n] = Null \/ delegators[n] \in Range(chain[n - 1])
             THEN chain[n - 1]
             ELSE Append(chain[n - 1], delegators[n])
  IN chain[Len(delegators)]

\* structToMap: no string a signer and a verifier could read differently.
Canonical(receipt) == \A f \in DOMAIN receipt : receipt[f] # Malformed

SignCommerceReceipt(receipt, privateKey) ==
  IF Canonical(receipt)
  THEN [receipt |-> receipt, signature |-> Sign(privateKey, receipt)]
  ELSE Error

RequiredFields ==
  {"receiptId", "agentId", "delegationId", "actionType", "scopeUsed",
   "beneficiary", "sessionId"}

\* Mutant of VerifyCommerceReceipt: complete is good enough.
VerifyFieldsOnly(r, publicKey) == \A f \in RequiredFields : r.receipt[f] # Null

VerifyCommerceReceipt(r, publicKey) ==
  /\ Canonical(r.receipt)
  /\ Verifies(r.signature, r.receipt, publicKey)
  /\ \A f \in RequiredFields : r.receipt[f] # Null
=============================================================================
