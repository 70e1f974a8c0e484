---------------------------- MODULE MCPaperTrail ---------------------------
(***************************************************************************)
(* Two parties with two keys each.  Spelling 2 has spelling 1 as its       *)
(* normal form.  Each kind of draft is a base and its variations: what     *)
(* must come out the same, what must differ, and what the code refuses.    *)
(***************************************************************************)
EXTENDS PaperTrail

MCKeysOf == <<<<"a1", "a2">>, <<"b1", "b2">>>>
MCNfc == <<1, 1, 3>>

Request == [agentId |-> 1, actionType |-> 1, scopeRequired |-> <<1, 3>>,
            createdAt |-> 0]
Output == [verdict |-> "permit", effectiveAuthorityRef |-> 1, validUntil |-> 1,
           constraints |-> <<1>>]
Decision == [authority |-> 1, policy |-> 1, context |-> 1, output |-> Output]
By(signer, keyId, holder) == [signer |-> signer, keyId |-> keyId, holder |-> holder]
Fields == [issuer |-> 1, issuedAt |-> 1, evidenceRefs |-> <<1>>, prev |-> Null]
Draft == [request |-> Request, decision |-> Decision, fields |-> Fields,
          signers |-> <<By(1, 1, 1)>>]

MCReceiptDrafts ==
  {[Draft EXCEPT !.request.scopeRequired = s] : s \in {<<3, 2>>, <<1, 2>>}}
  \cup {[Draft EXCEPT !.request.createdAt = t] : t \in {1, 2, Malformed}}
  \cup {[Draft EXCEPT !.request.agentId = 2]}
  \cup {[Draft EXCEPT !.decision = Null],
        [Draft EXCEPT !.decision.policy = 2],
        [Draft EXCEPT !.decision.output.constraints = <<2, 1>>],
        [Draft EXCEPT !.decision.output.constraints = <<3>>],
        [Draft EXCEPT !.decision.output.verdict = "deny"],
        [Draft EXCEPT !.decision.output =
           [Output EXCEPT !.verdict = "deny", !.effectiveAuthorityRef = Null,
                          !.validUntil = Null]]}
  \cup {[Draft EXCEPT !.fields.evidenceRefs = e] : e \in {<<2, 1>>, <<1, 1>>, << >>}}
  \cup {[Draft EXCEPT !.fields.issuedAt = t] : t \in {0, 2, Malformed}}
  \cup {[Draft EXCEPT !.signers = s] :
          s \in {<<By(1, 1, 1)>>, << >>, <<By(1, 1, 2)>>, <<By(1, 2, 1)>>,
                 <<By(2, 1, 2)>>, <<By(2, 1, 2), By(1, 1, 1)>>,
                 <<By(1, 1, 1), By(1, 1, 1)>>, <<By(1, 2, 1), By(2, 1, 1)>>}}
  \cup {[Draft EXCEPT !.fields.issuer = 2, !.signers = <<By(2, 2, 2)>>,
                      !.fields.issuedAt = 2]}

MCRecordDrafts ==
  {[content |-> [issuedAt |-> t, actionRef |-> r, issuer |-> 1], party |-> 1] :
     t \in {1, Malformed}, r \in {Null, Malformed}}

Permit == [permitId |-> 1, decision |-> "permit", signature |-> 1]
Cite(id, content) == [receiptId |-> id, content |-> content, principal |-> 1]
Body == [completionId |-> 1, permitReceiptHash |-> Null,
         executionResult |-> "failure", executedAt |-> 1, citations |-> << >>]
Completion1 == [permit |-> Permit, body |-> Body, executor |-> 1]

MCCompletionDrafts ==
  {Completion1,
   [Completion1 EXCEPT !.permit.signature = 2],
   [Completion1 EXCEPT !.permit.permitId = 2],
   [Completion1 EXCEPT !.permit = Null],
   [Completion1 EXCEPT !.executor = 2],
   [Completion1 EXCEPT !.body.completionId = Null],
   [Completion1 EXCEPT !.body.executionResult = "success"],
   [Completion1 EXCEPT !.body.executionResult = "done"],
   [Completion1 EXCEPT !.body.executedAt = Null]}
  \cup {[Completion1 EXCEPT !.body.citations = c] :
          c \in {<<Cite(1, 1)>>, <<Cite(1, 1), Cite(2, 1)>>,
                 <<Cite(1, 1), Cite(1, 1)>>, <<Cite(2, 2)>>}}

Held(id, content) == [id |-> id, content |-> content, principal |-> 1]
MCSupplies ==
  {Null, << >>, <<Held(1, 1)>>, <<Held(1, 1), Held(2, 1)>>,
   <<Held(1, 2), Held(1, 1)>>, <<Held(1, 1), Held(1, 2)>>,
   <<[Held(1, 1) EXCEPT !.principal = 2], Held(2, 2)>>}

Sale == [receiptId |-> 1, agentId |-> 1, delegationId |-> 1, actionType |-> 1,
         scopeUsed |-> 1, beneficiary |-> 1, sessionId |-> 1, spend |-> 1,
         delegationChain |-> << >>]
Sale1 == [receipt |-> Sale, publicKey |-> "a1", delegators |-> <<"b1", "c1">>,
          privateKey |-> "a1"]
MCSaleDrafts ==
  {Sale1, [Sale1 EXCEPT !.receipt.spend = 2], [Sale1 EXCEPT !.privateKey = "b1"],
   [Sale1 EXCEPT !.receipt.beneficiary = Null],
   [Sale1 EXCEPT !.receipt.sessionId = Malformed],
   [Sale1 EXCEPT !.delegators = <<"b1", "a1", Null, "c1", "b1">>],
   [Sale1 EXCEPT !.delegators = << >>]}

EmitInput == [intent |-> [id |-> 1], verdict |-> "permit", policy |-> [id |-> 1],
              delegationChain |-> <<1>>, receipt |-> [id |-> 1],
              actionRef |-> Null, signerKeyId |-> 1, signerPrivateKey |-> "a1"]
MCEmitDrafts ==
  {EmitInput, [EmitInput EXCEPT !.signerKeyId = Null],
   [EmitInput EXCEPT !.intent = Malformed],
   [EmitInput EXCEPT !.delegationChain = <<1, 2>>, !.signerPrivateKey = "b1"]}

Attestation == [agentId |-> 1, publicKey |-> "a1", floorVersion |-> [major |-> 1, minor |-> 0],
                extensions |-> <<2, 1>>, attestedAt |-> 0, expiresAt |-> 1,
                commitment |-> Null]
Attest1 == [body |-> Attestation, privateKey |-> "a1"]
MCAttestDrafts ==
  {Attest1, [Attest1 EXCEPT !.privateKey = "b1"],
   [Attest1 EXCEPT !.body.floorVersion = Null]}
  \cup {[Attest1 EXCEPT !.body.floorVersion = v, !.body.expiresAt = x] :
          v \in {[major |-> 1, minor |-> 1], [major |-> 2, minor |-> 0]},
          x \in {0, 2, Null, Malformed}}
  \cup {[Attest1 EXCEPT !.body.publicKey = "b1", !.privateKey = "b1",
                        !.body.extensions = e] : e \in {<< >>, <<1, 3>>}}

\* A total of 2 thousandths and its neighbours, over entries that add up to
\* half a thousandth less, just that, and half a thousandth more.
Entry(w) == [receiptId |-> 1, weight |-> w]
MCReportDrafts ==
  {[report |-> [totalWeight |-> t, entries |-> e, receiptCount |-> n,
                entriesHash |-> h],
    privateKey |-> "a1"] :
     t \in {0, 2, 4, 5, 7}, e \in {<<Entry(3)>>, <<Entry(1), Entry(3)>>, <<Entry(5)>>},
     n \in {1, 2}, h \in {Null, EntriesHash(<<Entry(3)>>)}}
=============================================================================
