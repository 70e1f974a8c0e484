----------------------------- MODULE PaperTrail ----------------------------
(***************************************************************************)
(* Parties leave signed artifacts: receipts and supporting records         *)
(* (receiptcore), completion receipts (completion), receipts of purchases  *)
(* (commerce), decision statements (intoto), floor attestations (values)   *)
(* and attribution reports (attribution).  Verifiers see them later, and   *)
(* may be shown any recombination of the parts that exist.                 *)
(*                                                                         *)
(* The packages keep no state.  The state is what has been signed so far,  *)
(* with the arguments it was signed from as history, the clock, and the    *)
(* caller's directory of who held which key when.  A draft is the          *)
(* arguments of one call.  A call that returns an error leaves nothing     *)
(* behind, so it is no step.                                               *)
(***************************************************************************)
EXTENDS ReceiptCore, Completion, CommerceReceipt, Intoto, FloorGround,
        AttributionReport

CONSTANTS
  ReceiptDrafts,     \* [request, decision, fields, signers]
  RecordDrafts,      \* [content, party]
  CompletionDrafts,  \* [permit, body, executor]
  SaleDrafts,        \* [receipt, publicKey, delegators, privateKey]
  EmitDrafts,        \* EmitInput
  AttestDrafts,      \* [body, privateKey]
  ReportDrafts,      \* [report, privateKey]
  Supplies,          \* lists of attribution receipts a verifier may hold
  MaxArtifacts,      \* bound on the artifacts of one behaviour
  MaxTime            \* bound on the clock

Parties == DOMAIN KeysOf

IsSeq(s) == s \in Seq(Range(s))

\* A time as a field may hold it.
Instant == Int \cup {Null, Malformed}

\* An object that is none of the tagged texts, and no text spelt another way:
\* no struct has fields of these names.
Plain(object) == {"tag", "spelling"} \cap DOMAIN object = {}

\* The arguments of each call have the fields of the code's structs.
ReceiptDraft(d) ==
  /\ IsSeq(d.request.scopeRequired)
  /\ \A s \in Range(d.request.scopeRequired) : s \in DOMAIN Nfc /\ Nfc[s] \in Int
  /\ d.request.createdAt \in Int \cup {Malformed}
  /\ d.fields.issuedAt \in Instant
  /\ d.signers \in Seq([signer : Parties, keyId : Nat, holder : Parties])
  /\ \A s \in Range(d.signers) : s.keyId \in DOMAIN KeysOf[s.holder]
  /\ d.decision # Null =>
       LET e == d.decision
           o == e.output
       IN /\ e = [authority |-> e.authority, policy |-> e.policy,
                  context |-> e.context, output |-> o]
          /\ o = [verdict |-> o.verdict, effectiveAuthorityRef |-> o.effectiveAuthorityRef,
                  validUntil |-> o.validUntil, constraints |-> o.constraints]

CompletionDraft(d) ==
  /\ d.executor \in Parties
  /\ Plain(d.body)
  /\ {"completionId", "permitReceiptHash", "executionResult", "executedAt", "citations"}
       \subseteq DOMAIN d.body
  /\ IsSeq(d.body.citations)
  /\ d.permit # Null => "signature" \in DOMAIN d.permit

SaleDraft(d) ==
  /\ Plain(d.receipt) /\ RequiredFields \cup {"delegationChain"} \subseteq DOMAIN d.receipt
  /\ IsSeq(d.delegators)

AttestDraft(d) ==
  /\ Plain(d.body)
  /\ {"publicKey", "floorVersion", "extensions", "attestedAt", "expiresAt", "commitment"}
       \subseteq DOMAIN d.body
  /\ IsSeq(d.body.extensions) /\ d.body.expiresAt \in Instant

ReportDraft(d) ==
  /\ Plain(d.report)
  /\ {"entries", "totalWeight", "receiptCount", "entriesHash"} \subseteq DOMAIN d.report
  /\ IsSeq(d.report.entries) /\ d.report.totalWeight \in Int
  /\ \A e \in Range(d.report.entries) : e.weight \in Int

\* A party has a key, and no key is another's; arguments have their types; a
\* nil pointer is no number and no list.
ASSUME PaperTrailAssumption ==
  /\ Parties \subseteq Nat
  /\ \A p \in Parties :
       IsSeq(KeysOf[p]) /\ KeysOf[p] # << >> /\ Null \notin Range(KeysOf[p])
  /\ \A p, q \in Parties : \A i \in DOMAIN KeysOf[p], j \in DOMAIN KeysOf[q] :
       KeysOf[p][i] = KeysOf[q][j] => p = q /\ i = j
  /\ Null \notin Int /\ Malformed \notin Int
  /\ \A d \in ReceiptDrafts : ReceiptDraft(d)
  /\ \A d \in RecordDrafts : d.party \in Parties
  /\ \A d \in CompletionDrafts : CompletionDraft(d)
  /\ \A d \in SaleDrafts : SaleDraft(d)
  /\ \A d \in AttestDrafts : AttestDraft(d)
  /\ \A d \in ReportDrafts : ReportDraft(d)
  /\ \A s \in Supplies \ {Null} : IsSeq(s) /\ Reverse(s) # Null
  /\ MaxArtifacts \in Nat /\ MaxTime \in Nat

VARIABLES
  now,               \* the clock
  directory,         \* party -> times from which its keys were current
  issued,            \* ReceiptV1s, each with the draft it was made from
  recorded,          \* SupportingRecordV1s
  completed,         \* CompletionReceipts, each with its draft
  sold,              \* CommerceActionReceipts, each with its draft
  emitted,           \* envelopes, and texts of others signed as they were spelt
  attested,          \* FloorAttestations, each with its draft
  reported           \* AttributionReports, each with its draft

vars ==
  <<now, directory, issued, recorded, completed, sold, emitted, attested, reported>>

Artifacts ==
  Cardinality(issued) + Cardinality(recorded) + Cardinality(completed)
    + Cardinality(sold) + Cardinality(emitted) + Cardinality(attested) + Cardinality(reported)

-----------------------------------------------------------------------------
Init ==
  /\ now = 0
  /\ directory = [p \in Parties |-> <<0>>]
  /\ issued = {} /\ recorded = {} /\ completed = {}
  /\ sold = {} /\ emitted = {} /\ attested = {} /\ reported = {}

\* The issuer computes both references and has the signers it names sign; it
\* may put one party's name to another's key.
IssueReceipt(d) ==
  LET actionRef == ComputeActionRefScopes(d.request)
      decisionRef == IF d.decision = Null THEN Null
                     ELSE BuildDecisionRef(actionRef, d.decision)
      fields == [actionRef |-> actionRef, decisionRef |-> decisionRef,
                 prev |-> d.fields.prev, issuer |-> d.fields.issuer,
                 issuedAt |-> d.fields.issuedAt,
                 evidenceRefs |-> d.fields.evidenceRefs]
      signers == [i \in DOMAIN d.signers |->
                    [signer |-> d.signers[i].signer, keyId |-> d.signers[i].keyId,
                     privateKey |-> KeysOf[d.signers[i].holder][d.signers[i].keyId]]]
      receipt == CreateReceipt(fields, signers)
  IN /\ Artifacts < MaxArtifacts
     /\ actionRef # Error /\ decisionRef # Error /\ receipt # Error
     /\ issued' = issued \cup {[draft |-> d, receipt |-> receipt]}
     /\ UNCHANGED <<now, directory, recorded, completed, sold, emitted, attested, reported>>

IssueRecord(d) ==
  LET record == CreateRecord(d.content, KeysOf[d.party][1])
  IN /\ Artifacts < MaxArtifacts
     /\ record # Error
     /\ recorded' = recorded \cup {record}
     /\ UNCHANGED <<now, directory, issued, completed, sold, emitted, attested, reported>>

\* The executor binds the outcome to the hash of the permit it acted on.
Complete(d) ==
  LET body == [d.body EXCEPT !.permitReceiptHash =
                 IF d.permit = Null THEN Null ELSE PermitHash(d.permit)]
      completion == CreateCompletion(body, KeysOf[d.executor][1])
  IN /\ Artifacts < MaxArtifacts
     /\ completion # Error
     /\ completed' = completed \cup {[draft |-> d, completion |-> completion]}
     /\ UNCHANGED <<now, directory, issued, recorded, sold, emitted, attested, reported>>

\* The buyer's side writes down a purchase and who stands behind it.
Sell(d) ==
  LET chain == ExtractDelegationChain(d.publicKey, d.delegators)
      sale == SignCommerceReceipt([d.receipt EXCEPT !.delegationChain = chain],
                                  d.privateKey)
  IN /\ Artifacts < MaxArtifacts
     /\ sale # Error
     /\ sold' = sold \cup {[draft |-> d, sale |-> sale]}
     /\ UNCHANGED <<now, directory, issued, recorded, completed, emitted, attested, reported>>

Emit(d) ==
  LET env == EmitDecisionReceipt(d)
  IN /\ Artifacts < MaxArtifacts
     /\ env # Error
     /\ emitted' = emitted \cup {env}
     /\ UNCHANGED <<now, directory, issued, recorded, completed, sold, attested, reported>>

\* A signer that is not this library signs a statement it has spelt its own way.
EmitRespelt(d) ==
  LET text == Respelt(BuildStatement(d))
  IN /\ Artifacts < MaxArtifacts
     /\ EmitDecisionReceipt(d) # Error
     /\ emitted' = emitted \cup
          {[payload |-> text,
            signatures |-> <<[keyid |-> d.signerKeyId,
                              sig |-> Sign(d.signerPrivateKey, text)]>>]}
     /\ UNCHANGED <<now, directory, issued, recorded, completed, sold, attested, reported>>

Attest(d) ==
  /\ Artifacts < MaxArtifacts
  /\ attested' = attested \cup
       {[draft |-> d, attestation |-> AttestFloor(d.body, d.privateKey)]}
  /\ UNCHANGED <<now, directory, issued, recorded, completed, sold, emitted, reported>>

Report(d) ==
  /\ Artifacts < MaxArtifacts
  /\ reported' = reported \cup {SignReport(d.report, d.privateKey)}
  /\ UNCHANGED <<now, directory, issued, recorded, completed, sold, emitted, attested>>

\* A party moves to its next key, from the next instant on.
Rotate(p) ==
  /\ Len(directory[p]) < Len(KeysOf[p])
  /\ Last(directory[p]) <= now
  /\ directory' = [directory EXCEPT ![p] = Append(@, now + 1)]
  /\ UNCHANGED <<now, issued, recorded, completed, sold, emitted, attested, reported>>

Tick ==
  /\ now < MaxTime
  /\ now' = now + 1
  /\ UNCHANGED <<directory, issued, recorded, completed, sold, emitted, attested, reported>>

Next ==
  \/ \E d \in ReceiptDrafts : IssueReceipt(d)
  \/ \E d \in RecordDrafts : IssueRecord(d)
  \/ \E d \in CompletionDrafts : Complete(d)
  \/ \E d \in SaleDrafts : Sell(d)
  \/ \E d \in EmitDrafts : Emit(d)
  \/ \E d \in EmitDrafts : EmitRespelt(d)
  \/ \E d \in AttestDrafts : Attest(d)
  \/ \E d \in ReportDrafts : Report(d)
  \/ \E p \in Parties : Rotate(p)
  \/ Tick

Spec == Init /\ [][Next]_vars

-----------------------------------------------------------------------------
\* What a verifier may be shown as a receipt: a content that was issued, or
\* one stripped of its decision or dated back; its id or another's; and one or
\* two of the proofs there are, under any name and key id.
ShownContents ==
  UNION {{c, [c EXCEPT !.decisionRef = Null], [c EXCEPT !.issuedAt = 0]} :
           c \in {i.receipt.content : i \in issued}}

ReceiptSignatures ==
  UNION {{i.receipt.signatures[j].value : j \in DOMAIN i.receipt.signatures} :
           i \in issued}

ShownProofs ==
  {[signer |-> p, keyId |-> k, value |-> v] :
     p \in Parties, k \in 1..2, v \in ReceiptSignatures}

Shown ==
  {[content |-> c, receiptId |-> id, signatures |-> s] :
     c \in ShownContents,
     id \in {ComputeReceiptID(c) : c \in ShownContents},
     s \in {<<p>> : p \in ShownProofs} \cup
            {s \in ShownProofs \X ShownProofs : s[1].signer < s[2].signer}}

\* This party put its name to this content, with the key it held at the time
\* the content states.
SignedInOwnName(content, party, keyId) ==
  /\ \E i \in issued :
       /\ i.receipt.content = content
       /\ [signer |-> party, keyId |-> keyId, holder |-> party]
            \in Range(i.draft.signers)
  /\ ResolveKey(directory, party, keyId, content.issuedAt) = KeysOf[party][keyId]

\* A receipt VerifyReceiptV1 calls valid was signed, in exactly this content,
\* by every party it lists and by its issuer, each with the key that was its
\* own at issued_at: no recombination of contents, ids and proofs gets
\* through.  And a receipt passes as CreateReceiptV1 made it, whatever order
\* its evidence and signers were given in, exactly if nobody's name was put to
\* a key that was not theirs then.
ReceiptVouchedFor ==
  /\ \A r \in Shown : VerifyReceipt(r, directory) =>
       /\ \A j \in DOMAIN r.signatures :
            SignedInOwnName(r.content, r.signatures[j].signer, r.signatures[j].keyId)
       /\ \E k \in DOMAIN KeysOf[r.content.issuer] :
            SignedInOwnName(r.content, r.content.issuer, k)
  /\ \A i \in issued :
       VerifyReceipt(i.receipt, directory) <=>
         \A s \in Range(i.draft.signers) :
           /\ s.holder = s.signer
           /\ SignedInOwnName(i.receipt.content, s.signer, s.keyId)

\* Verdicts do not drift: once its date has passed, a receipt keeps the verdict
\* it has while its signers move on to other keys, and an attestation that is
\* refused is never accepted later.
VerdictStands ==
  [][/\ \A i \in issued : i.receipt.content.issuedAt <= now =>
          VerifyReceipt(i.receipt, directory) = VerifyReceipt(i.receipt, directory')
     /\ \A a \in attested :
          VerifyAttestation(a.attestation, now') => VerifyAttestation(a.attestation, now)
    ]_vars

\* The same request in every respect an action_ref is about.
SameRequest(q, r) ==
  /\ q.agentId = r.agentId /\ q.actionType = r.actionType
  /\ {Nfc[s] : s \in Range(q.scopeRequired)} = {Nfc[s] : s \in Range(r.scopeRequired)}
  /\ q.createdAt \div TicksPerSecond = r.createdAt \div TicksPerSecond

\* The same decision in every respect a decision_ref is about.
SameDecision(d, e) ==
  /\ [d EXCEPT !.output.constraints = << >>] = [e EXCEPT !.output.constraints = << >>]
  /\ {Nfc[s] : s \in Range(d.output.constraints)}
       = {Nfc[s] : s \in Range(e.output.constraints)}

\* References identify: two issuers who never met compute the same action_ref
\* exactly for the same request, in whatever order and spelling they hold its
\* scopes, and the same decision_ref exactly for the same decision on it.
RefsIdentify ==
  \A i, j \in issued :
    LET same == SameRequest(i.draft.request, j.draft.request)
    IN /\ Match(i.receipt.content.actionRef, j.receipt.content.actionRef) <=> same
       /\ (i.draft.decision # Null /\ j.draft.decision # Null) =>
            (i.receipt.content.decisionRef = j.receipt.content.decisionRef
               <=> same /\ SameDecision(i.draft.decision, j.draft.decision))

-----------------------------------------------------------------------------
Permits == {d.permit : d \in CompletionDrafts} \ {Null}

\* A permit but for its signature.
Allows(permit) == [permit EXCEPT !.signature = Null]

\* Bodies a verifier may be shown: signed ones, and ones changed since.
ShownBodies ==
  UNION {{b, [b EXCEPT !.executionResult = "success"], [b EXCEPT !.citations = << >>]} :
           b \in {c.completion.body : c \in completed}}

\* An outcome is bound to its executor, its permit and its sources.  What
\* VerifyCompletionReceipt accepts, the executor signed in this very form; of
\* all permits LinkPermitAndCompletion links it to the one it was made for, no
\* matter who signed that again; and what it cites is in the verifier's hands
\* as cited, once each.  The order the verifier holds receipts in does not
\* decide, as long as no two of them share an id.  What VerifyCommerceReceipt
\* accepts is complete and as it was signed, names its agent first and every
\* other principal once.
OutcomeBound ==
  /\ \A b \in ShownBodies, c \in completed, p \in Parties, s \in Supplies :
       LET shown == [body |-> b, signature |-> c.completion.signature]
           valid == VerifyCompletion(shown, KeysOf[p][1], s)
       IN valid =>
            /\ p = c.draft.executor /\ b = c.completion.body
            /\ b.citations # << >> => s # Null
            /\ \A cited \in Range(b.citations) :
                 Cardinality({k \in DOMAIN b.citations :
                                b.citations[k].receiptId = cited.receiptId}) = 1
            /\ b.citations # << >> =>
                 /\ \A cited \in Range(b.citations) : \E r \in Range(s) :
                      /\ r.id = cited.receiptId
                      /\ r.content = cited.content /\ r.principal = cited.principal
                 /\ (\A x, y \in DOMAIN s : s[x].id = s[y].id => x = y) =>
                      VerifyCompletion(shown, KeysOf[p][1], Reverse(s))
  /\ \A c \in completed, permit \in Permits :
       Linked(permit, c.completion) <=> Allows(permit) = Allows(c.draft.permit)
  /\ \A x, y \in sold, p \in Parties :
       LET shown == [receipt |-> x.sale.receipt, signature |-> y.sale.signature]
           chain == shown.receipt.delegationChain
       IN VerifyCommerceReceipt(shown, KeysOf[p][1]) =>
            /\ KeysOf[p][1] = y.draft.privateKey
            /\ shown.receipt = y.sale.receipt
            /\ \A f \in RequiredFields : shown.receipt[f] # Null
            /\ IsInjective(chain) /\ Head(chain) = y.draft.publicKey
            /\ Range(Tail(chain))
                 = Range(y.draft.delegators) \ {Null, y.draft.publicKey}

-----------------------------------------------------------------------------
RecordSignatures == {r.sig : r \in recorded}

UntaggedSignatures ==
  {c.completion.signature : c \in completed}
    \cup {s.sale.signature : s \in sold}
    \cup {a.attestation.signature : a \in attested}
    \cup {r.signature : r \in reported}

\* A signature counts only for the kind of thing it was made for, where kinds
\* have tags: put in an envelope with what it signs, the signature of a receipt
\* or of a supporting record never passes VerifyEnvelope, nor does one over a
\* text spelt another way; as the proof of a receipt or the signature of a
\* supporting record, none made for anything else does.  Kinds without a tag
\* are not kept apart: what a key signed in canonical form passes, whatever it
\* is.
TagsSeparate ==
  LET Wrap(s) == [payload |-> s.payload, signatures |-> <<[keyid |-> 0, sig |-> s]>>]
      sent == {e.signatures[1].sig : e \in emitted}
  IN /\ \A s \in ReceiptSignatures \cup RecordSignatures : ~ VerifyEnvelope(Wrap(s), s.key, 0)
     /\ \A s \in UntaggedSignatures : VerifyEnvelope(Wrap(s), s.key, 0)
     /\ \A s \in sent :
          /\ VerifyEnvelope(Wrap(s), s.key, 0)
               <=> \E d \in EmitDrafts : s.payload = BuildStatement(d)
          /\ \A i \in {-1, 1} : ~ VerifyEnvelope(Wrap(s), s.key, i)
     /\ \A s \in ReceiptSignatures \cup UntaggedSignatures \cup sent :
          \A r \in recorded : ~ VerifyRecord([r EXCEPT !.sig = s], s.key)
     /\ \A s \in RecordSignatures \cup UntaggedSignatures \cup sent :
          \A i \in issued :
            ~ VerifyReceipt([i.receipt EXCEPT !.signatures[1].value = s], directory)

-----------------------------------------------------------------------------
\* Common ground is what both sides would have accepted alone: for
\* attestations that really are their agents', NegotiateCommonGround finds two
\* of them compatible at a time, or with no clock at all, exactly if
\* VerifyAttestation accepts each and they are of one major version; and which
\* of the two comes first changes neither that nor which extensions are
\* shared.
GroundAgrees ==
  LET own == {a.attestation : a \in {x \in attested :
                /\ x.draft.privateKey = x.draft.body.publicKey
                /\ x.draft.body.floorVersion # Null}}
  IN \A a, b \in own, clock \in {now, Null} :
       LET ab == NegotiateCommonGround(a, b, clock)
           ba == NegotiateCommonGround(b, a, clock)
       IN /\ ab.compatible <=>
               /\ VerifyAttestation(a, clock) /\ VerifyAttestation(b, clock)
               /\ a.body.floorVersion.major = b.body.floorVersion.major
          /\ ab.compatible = ba.compatible
          /\ Range(ab.sharedExtensions) = Range(ba.sharedExtensions)

\* A report that verifies adds up: its total is within a thousandth and a half
\* of what its entries weigh, and nobody changed, added or dropped an entry
\* since it was signed.
WeightBound ==
  \A r \in reported, e \in {x.report.entries : x \in reported} :
    \A p \in Parties :
      LET shown == [r EXCEPT !.report.entries = e]
      IN VerifyReport(shown, KeysOf[p][1]) =>
           /\ 2 * AbsDiff(shown.report.totalWeight, SumWeights(e)) <= 3 * Grain
           /\ shown = SignReport(r.report, KeysOf[p][1])
=============================================================================
