------------------------------- MODULE Intoto ------------------------------
(***************************************************************************)
(* intoto.go, parse.go: a decision as an in-toto statement in a signed     *)
(* envelope.  A payload is a text, which is the canonical form of its      *)
(* value or another spelling of it.  What an envelope says beside payload  *)
(* and signatures (payloadType, _digest) is not read.                      *)
(***************************************************************************)
EXTENDS Signatures, Integers, Sequences

\* A text that is not canonical is not the value itself.
Respelt(value) == [spelling |-> "other", value |-> value]

\* BuildStatement: digests of the intent, the receipt, the policy and the
\* chain, and the depth; the action_ref is null when it is not given.
BuildStatement(in) ==
  [statement |-> "https://in-toto.io/Statement/v1",
   subject |-> CanonicalHash(in.intent),
   decision |-> in.verdict,
   policyDigest |-> CanonicalHash(in.policy),
   delegationChainRoot |-> CanonicalHash([chain |-> in.delegationChain]),
   delegationDepth |-> Len(in.delegationChain),
   intentDigest |-> CanonicalHash(in.intent),
   receiptDigest |-> CanonicalHash(in.receipt),
   actionRef |-> in.actionRef]

\* EmitDecisionReceipt: an intent names its action type and id.
EmitDecisionReceipt(in) ==
  IF in.signerKeyId = Null \/ in.intent \in {Null, Malformed} THEN Error
  ELSE LET payload == BuildStatement(in)
       IN [payload |-> payload,
           signatures |-> <<[keyid |-> in.signerKeyId,
                             sig |-> Sign(in.signerPrivateKey, payload)]>>]

\* Mutant of IsCanonical: any spelling is taken.
AnySpelling(payload) == "tag" \notin DOMAIN payload

\* ParseDecisionReceiptStatement succeeds and the value is spelt as it was
\* given.  A tag and a zero byte do not parse.
IsCanonical(payload) ==
  "tag" \notin DOMAIN payload /\ "spelling" \notin DOMAIN payload

\* VerifyEnvelope, of the signature at an index from 0.
VerifyEnvelope(env, publicKey, sigIndex) ==
  /\ sigIndex >= 0 /\ sigIndex < Len(env.signatures)
  /\ IsCanonical(env.payload)
  /\ Verifies(env.signatures[sigIndex + 1].sig, env.payload, publicKey)
=============================================================================
