---------------------------- MODULE ReceiptCore ----------------------------
(***************************************************************************)
(* receiptcore: ReceiptV1 with one or more signers (receipt.go) and        *)
(* SupportingRecordV1 (supporting_record.go).                              *)
(*                                                                         *)
(* A receipt is its content, a receipt_id and a list of proofs.  Signers   *)
(* and evidence references are numbers in the order of their sort keys.    *)
(* A field that only has to be there is taken to be there.                 *)
(* The fields nobody compares (type, subject, delegation, result) are left *)
(* out.                                                                    *)
(***************************************************************************)
EXTENDS References

CONSTANT KeysOf    \* party -> its keys, in the order it uses them

\* The receipt without id and proofs; evidenceRefs may be nil.
ComputeReceiptID(content) ==
  CanonicalHash([tag |-> "APS-RECEIPT-ID-V1", content |-> content])

\* Mutant of ReceiptSignaturePayload: the signer is not part of it.
PayloadWithoutSigner(content, id, proof) ==
  [tag |-> "APS-RECEIPT-SIG-V1", receipt_id |-> id, content |-> content]

\* What a signer signs: the receipt with its id, and who the signer is.
ReceiptSignaturePayload(content, id, proof) ==
  [tag |-> "APS-RECEIPT-SIG-V1", receipt_id |-> id, content |-> content,
   signer |-> proof.signer, key_id |-> proof.keyId]

Increasing(s) == \A i, j \in DOMAIN s : i < j => s[i] < s[j]

\* Proofs are in order of signer and key id, no two alike.
ProofsInOrder(proofs) ==
  \A i, j \in DOMAIN proofs : i < j =>
    \/ proofs[i].signer < proofs[j].signer
    \/ proofs[i].signer = proofs[j].signer /\ proofs[i].keyId < proofs[j].keyId

\* The part of ValidateReceiptV1 about the content.
ContentOk(c) ==
  /\ WellFormed(c.actionRef) /\ WellFormed(c.issuedAt)
  /\ c.decisionRef # Malformed /\ c.prev # Malformed
  /\ c.evidenceRefs # Null /\ Increasing(c.evidenceRefs)

\* ValidateReceiptV1 of a signed receipt: the issuer is among the signers.
ValidateReceipt(r) ==
  /\ ContentOk(r.content)
  /\ ProofsInOrder(r.signatures)
  /\ \E i \in DOMAIN r.signatures : r.signatures[i].signer = r.content.issuer

\* Copying an empty list of evidence makes it nil.
SortedEvidence(refs) == IF refs \in {Null, << >>} THEN Null ELSE Sorted(refs)

SignerBefore(s, t) ==
  s.signer < t.signer \/ (s.signer = t.signer /\ s.keyId < t.keyId)

\* The signers sorted by name and key id.
SortedSigners(signers) ==
  LET ahead == [j \in DOMAIN signers |->
        {i \in DOMAIN signers :
           \/ SignerBefore(signers[i], signers[j])
           \/ ~ SignerBefore(signers[j], signers[i]) /\ i < j}]
  IN [k \in DOMAIN signers |-> signers[Places(ahead)[k]]]

\* CreateReceiptV1: sort, validate, compute the id, sign for each signer, and
\* validate again.
CreateReceipt(fields, signers) ==
  LET content == [fields EXCEPT !.evidenceRefs = SortedEvidence(@)]
      id == ComputeReceiptID(content)
      sorted == SortedSigners(signers)
      receipt ==
        [content |-> content, receiptId |-> id,
         signatures |-> [i \in DOMAIN sorted |->
           [signer |-> sorted[i].signer, keyId |-> sorted[i].keyId,
            value |-> Sign(sorted[i].privateKey,
                           ReceiptSignaturePayload(content, id, sorted[i]))]]]
  IN IF signers # << >> /\ ContentOk(content) /\ ValidateReceipt(receipt)
     THEN receipt ELSE Error

\* resolveKey, as the caller supplies it from a directory: party -> the times
\* from which its keys, in order of their key ids, were current.
ResolveKey(directory, signer, keyId, at) ==
  IF /\ keyId \in DOMAIN directory[signer]
     /\ directory[signer][keyId] <= at
     /\ keyId + 1 \in DOMAIN directory[signer] => at < directory[signer][keyId + 1]
  THEN KeysOf[signer][keyId] ELSE Null

\* Mutant of VerifyReceipt: the key must be current at the end of time.
VerifyWithLatestKey(r, directory) ==
  /\ ValidateReceipt(r)
  /\ r.receiptId = ComputeReceiptID(r.content)
  /\ \A i \in DOMAIN r.signatures :
       LET proof == r.signatures[i]
           key == ResolveKey(directory, proof.signer, proof.keyId, 1000)
       IN /\ key # Null
          /\ Verifies(proof.value,
                      ReceiptSignaturePayload(r.content, r.receiptId, proof), key)

\* VerifyReceiptV1: every proof verifies, under the key that was its signer's
\* when the receipt says it was issued.
VerifyReceipt(r, directory) ==
  /\ ValidateReceipt(r)
  /\ r.receiptId = ComputeReceiptID(r.content)
  /\ \A i \in DOMAIN r.signatures :
       LET proof == r.signatures[i]
           key == ResolveKey(directory, proof.signer, proof.keyId,
                             r.content.issuedAt)
       IN /\ key # Null
          /\ Verifies(proof.value,
                      ReceiptSignaturePayload(r.content, r.receiptId, proof), key)

-----------------------------------------------------------------------------
ComputeRecordID(content) ==
  CanonicalHash([tag |-> "APS-SUPPORTING-RECORD-ID-V1", content |-> content])

RecordSignaturePayload(content, id) ==
  [tag |-> "APS-SUPPORTING-RECORD-SIG-V1", record_id |-> id, content |-> content]

\* ValidateSupportingRecordV1.
RecordContentOk(c) == WellFormed(c.issuedAt) /\ c.actionRef # Malformed

CreateRecord(content, privateKey) ==
  LET id == ComputeRecordID(content)
  IN IF RecordContentOk(content)
     THEN [content |-> content, recordId |-> id,
           sig |-> Sign(privateKey, RecordSignaturePayload(content, id))]
     ELSE Error

VerifyRecord(r, publicKey) ==
  /\ RecordContentOk(r.content)
  /\ r.recordId = ComputeRecordID(r.content)
  /\ Verifies(r.sig, RecordSignaturePayload(r.content, r.recordId), publicKey)
=============================================================================
