----------------------------- MODULE Completion ----------------------------
(***************************************************************************)
(* completion.go: an executor signs the outcome of what a permit allowed,  *)
(* citing the attribution receipts it drew on.  Empty strings are Null.    *)
(* body leaves out the fields nobody compares (summary, hash, duration);   *)
(* a private key is always given.                                          *)
(***************************************************************************)
EXTENDS Signatures, SequencesExt

ValidResults == {"success", "failure", "partial", "timeout"}

\* CreateCompletionReceipt.
CreateCompletion(body, privateKey) ==
  IF /\ body.completionId # Null /\ body.permitReceiptHash # Null
     /\ body.executionResult \in ValidResults
     /\ body.executedAt # Null
  THEN [body |-> body, signature |-> Sign(privateKey, body)]
  ELSE Error

\* The place an id has in the map: of two receipts with it, the later one's.
LastWithId(receipts, id) ==
  Max({i \in DOMAIN receipts : receipts[i].id = id})

\* checkArtifactCitationsStructural: no id twice, each one supplied and with
\* the same content and principal.
CitationsOk(citations, receipts) ==
  /\ \A i, j \in DOMAIN citations :
       citations[i].receiptId = citations[j].receiptId => i = j
  /\ \A c \in Range(citations) :
       /\ \E i \in DOMAIN receipts : receipts[i].id = c.receiptId
       /\ LET r == receipts[LastWithId(receipts, c.receiptId)]
          IN r.content = c.content /\ r.principal = c.principal

\* VerifyCompletionReceipt; receipts is Null when none are supplied.
VerifyCompletion(c, publicKey, receipts) ==
  /\ Verifies(c.signature, c.body, publicKey)
  /\ c.body.completionId # Null /\ c.body.permitReceiptHash # Null
  /\ c.body.executionResult \in ValidResults
  /\ c.body.citations # << >> =>
       receipts # Null /\ CitationsOk(c.body.citations, receipts)

\* Mutant of PermitHash: of the permit with its signature.
HashWithSignature(permit) == CanonicalHash(permit)

\* The permit is hashed without its signature, whoever made that.
PermitHash(permit) ==
  CanonicalHash([f \in DOMAIN permit \ {"signature"} |-> permit[f]])

\* LinkPermitAndCompletion.
Linked(permit, c) == PermitHash(permit) = c.body.permitReceiptHash
=============================================================================
