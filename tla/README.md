# Formal model of agent-passport-go

TLA+ modules for the parts of the Agent Passport System's Go SDK that decide
who may do what: how delegations are issued and narrowed, how a chain of them is
judged, how revocation enters, how keys are kept, how passports and challenges
establish an identity, how purchases draw on a budget, how the signed messages
of a task hang together, and how what was done is signed, traced back to a
principal and reported on.  TLC checks the modules on small instances, TLAPS
proves the main results for every instance.

## The system and its parts

The repository is a library of protocol primitives.  Almost every function is
stateless; the state lives in signed records that travel between parties and in
the clock and revocation data around a call.

| Part | Source | State | Operations | What makes it correct |
|---|---|---|---|---|
| typed chain verifier | `verify/verify.go` 358-588 | the effective ceiling carried along a chain | `VerifyDelegationChain` | accepts exactly the chains whose authority narrows from every link to every later one |
| composition chain authorization | `verify/verify.go` 114-352 | evaluation time, position in the chain, answers of a caller's resolver | `ValidateChainStructure`, `VerifyChainAuthorization` | a token proves authorization at one instant; cannot-check never becomes yes |
| issuance | `delegation/delegation.go` | the chain so far, the clock | `CreateDelegation`, `SubDelegate`, `VerifyDelegationAt` | never mints what the verifier refuses; no bound is lost; no child outlives its parent |
| revocation records | `delegation/revocation.go` | published records | `CreateRevocation`, `VerifyRevocation` | only the named key's signature counts |
| key store | `keystore/keystore.go` | a map behind a `sync.RWMutex` | `Store`, `Retrieve`, `Delete`, `List` | race free, linearizable, every call returns |
| signatures, keys | `keys/`, `verify/ed25519_admissibility.go` | none | sign, verify | cryptography, taken as unforgeable |
| canonical JSON | `jcs/`, `receiptcore/jcs.go` | none | canonicalize, prevalidate | character-level encoding |
| passport | `passport/passport.go` | the signatures and countersignatures that exist | create, sign, countersign, verify | an envelope is valid exactly if its holder signed it and a trusted issuer vouched for that signature, inside the window |
| challenge | `passport/challenge.go` | challenges with an expiry, signatures over nonces | `CreateChallenge`, `SignChallenge`, `VerifyChallenge` | an accepted response is recent; a stale challenge stays refused |
| commerce | `commerce/` | spend totals and wallet lists held by callers | gates, `RecordSpend`, `CreateCommerceDelegation`, receipts | no purchase beyond the delegated limit or from a wallet of somebody else, none refused that fits |
| coordination | `coordination/` | signed messages of a task | eight create/verify pairs | a task is completed on evidence that was submitted, reviewed and approved, although messages name each other by ids |
| Merkle trees | `attribution/attribution.go` 482-616, `receiptcore/supporting_record.go` 120-343, `cpa/cpa.go` | levels of a tree, a proof under way | build, prove, verify | the root commits to the leaves; honest proofs pass, nothing but a leaf does |
| attribution trace | `attribution/attribution.go` 254-436 | the caller's delegation records | `TraceBeneficiary` | a verified trace is of delegations really given, whatever else the caller holds and in what order |
| attribution reports | `attribution/attribution.go` 438-480, 618-672 | none | `SignReport`, `VerifyAttributionReport` | the total is the entries' |
| values floor | `values/` | the caller's receipts, delegation states, attestations | `LoadFloor`, `EvaluateCompliance`, `AttestFloor`, `VerifyAttestation`, `NegotiateCommonGround` | a violation is not outlived; two readings of an expiry agree |
| receipt core | `receiptcore/receipt.go`, `decision_ref.go`, `supporting_record.go` 19-110 | signed receipts and records; the caller's key directory | create and verify | every party a valid receipt lists signed it, with the key it had then |
| action reference | `actionref/` | none | `ComputeActionRefScopes` | one reference per request, however it is spelt |
| completion | `completion/` | signed outcomes | create, verify, link | an outcome belongs to one permit and to what it cites |
| in-toto | `intoto/` | signed envelopes | emit, parse, verify | a signature counts for the text it was made over |

Components meet in seven places.  `SubDelegate` calls the verifier's
`ScopeCovers` and its own single-link check, and promises chains the chain
verifier accepts: two independent implementations of the same rules.
`VerifyChainAuthorization` runs the structural check and then calls back into
the caller's revocation resolver once per link, while other parties publish
revocations and time passes.  The key store is the only object in the library
that goroutines share.  The commerce package checks passports with code of its
own, over the JSON map it is handed, next to the checks in `passport.go`, which
build the map again from a struct.  Its
`RecordSpend` is a function on values that concurrent callers apply to one
persisted delegation, and its `CreateCommerceDelegation` makes roots that
`SubDelegate` mints from.  A receipt of an agent's action is read by two
packages, which look its delegation up by keys (`attribution`) and by id
(`values`).  And seven packages sign with the same keys, some over tagged bytes
and some over bare JSON.

The hard behaviours are long sequences of legal links with a bound left out in
the middle, the edges of integers and timestamps, reads of clock and revocation
data at different moments of one call, lock-protected multi-step methods,
envelopes recombined from parts of several, late and repeated responses, retries
on stale copies, records that arrive twice, out of order or made up, keys that
rotate, and messages that name their predecessors only by id.

## Modules

| Module | Models |
|---|---|
| `ScopeMatch` | `ScopeCovers`; a scope is the sequence of its `:`-separated segments |
| `Delegations` | the typed delegation record, the fields the narrowing layer reads; Go ints at their width |
| `Narrowing` | what "narrowing" means for a whole chain, stated over all pairs of links, no loop |
| `ChainPolicy` | abstract: presented with a chain, answer once, accept exactly the narrowing ones |
| `ChainNarrowing` | `VerifyDelegationChain`, one action per link; refines `ChainPolicy` |
| `Issuance` | `CreateDelegation`, `CreateCommerceDelegation`, `SubDelegate`, `VerifyDelegationAt` over a growing chain and a moving clock |
| `ChainAuthorization` | `VerifyChainAuthorization` and `ValidateChainStructure` as a sequence of steps, with `CreateRevocation` and the clock interleaved |
| `KeyRequests`, `KeyMap` | the `KeyStorageBackend` interface and the atomic map it promises |
| `KeyStore` | `InMemoryKeyStorage` step by step under the `RWMutex`; refines `KeyMap` |
| `Identities` | the keys and the special values `Challenge` and `Passport` share |
| `Challenge` | challenges made, signed and verified while the clock moves and expiries arrive garbled |
| `Passport` | `SignPassport`, `CountersignPassport`, and the verdicts of `VerifyPassport`, `VerifyIssuerSignature` and `CheckPassportGate` on every envelope that can be put together, over JSON maps that are read into a struct and written again |
| `Commerce` | the gates and `RecordSpend` under several buyers of one delegation, with wallets bound and a passport that changes keys; uses `ScopeMatch` |
| `Coordination` | the eight messages of a task as a protocol of signatures |
| `Merkle` | the three Merkle trees: the prover's fold, the verifier's walk over any path, a bundle's body, the tree of trees of a context |
| `Trace` | `TraceBeneficiary` |
| `Compliance` | `EvaluateCompliance` and `LoadFloor`; uses `Trace`'s receipts |
| `Accountability` | `Trace` and `Compliance` over records and receipts that arrive |
| `Signatures` | signatures and hashes as free constructors |
| `References` | `action_ref` and `decision_ref` |
| `ReceiptCore` | `ReceiptV1` and `SupportingRecordV1`; uses `References` |
| `Completion`, `CommerceReceipt`, `Intoto`, `FloorGround`, `AttributionReport` | one signed artifact each: completion receipts, purchase receipts, decision statements, floor attestations, attribution reports |
| `PaperTrail` | composes the artifacts: who signs what when, and what verifiers make of every recombination |
| `MC*` | the constants of the TLC runs (those of `challenge` fit in `Challenge.cfg`) |
| `*Proofs` | theorems and their lemmas |

### How the state corresponds to the code

*Delegations.*  A record has the fields of `types.Delegation` that any rule
reads.  An absent pointer or empty string is `None`; a non-empty timestamp that
`ParseTimestamp` refuses is `Unparseable`; a NaN or infinite limit is
`NonFinite`.  Limits and instants are integers, because the code only compares
them; depths are Go ints with wrap-around (`Increment`), because it adds one.
`signature` is the key that signed exactly the other fields, or `None` if the
bytes verify under no key.

*ChainNarrowing.*  `bound` is the `effectiveBound` variable, `next` the loop
index, `verdict` the error returned.  `NarrowViolation` lists the early returns
of `narrow` in their order, `Narrow` its assignments.  `RootViolation` and
`LinkViolation` are the bodies before and inside the loop.

*Issuance.*  `chain` is the sequence of links their holders have; `Receive` is a
root made elsewhere, authentic or forged.  `SubDelegateFailure` is the order of
the function's early returns and `Child` the record it signs.  The key that
signs a child is an option of the caller, as in the code: nothing forces it to
be the parent's delegatee.  `CommerceRoot` is what `CreateCommerceDelegation`
signs: it fills in scope, depth and unit and checks neither keys nor depths.
`Restate` (used only by the specification
`RestatingSpec`) is `CreateDelegation` called by a delegatee in the middle of a
chain.

*ChainAuthorization.*  A call goes through `structure`, `links`, `revocation`
and `done`.  `nowMs` is read when `ValidateChainStructure` starts, revocation
link by link at the end; between any two steps the clock may advance and
records may be published.  `began` is a history variable: the clock and the
records when the call was made.  The resolver is the caller's; it is modelled as
one that either cannot answer or answers from the records published so far,
counting those `VerifyRevocation` accepts and the link's delegator signed.

*KeyStore.*  Each goroutine is at a place `pc` of its method.  The mutex is
modelled from the contract of `sync.RWMutex`: a writer that called `Lock` keeps
new readers out, `Unlock` admits the readers that queued.  `Delete`'s lookup and
erase, and each entry of `List`'s iteration, are steps of their own; `sort.Strings`
is modelled from its contract, any ascending order of the same entries.

*Challenge.*  `challenges` is what the verifier keeps per nonce, `signed` when
each key signed each nonce, `call` the last `VerifyChallenge` with its answer,
`requests` (history) what was asked for.  Time has a unit finer than the second,
since `formatISO` cuts the fraction, and `Duration` multiplies at the width of a
`time.Duration`.

*Passport.*  The state is the set of signatures made over passports and over
envelopes.  `Envelope` is every combination of a document, an existing signature
and an existing countersignature, so tampering, re-signing and transplanted
countersignatures need no actions.  A document is a JSON map, a function whose
domain are the members present.  `Decoded` is what unmarshalling leaves in the
struct (unknown members dropped, absent ones zero, null a nil slice), `PassportMap`
what `passportMap` builds and signs (nil slices written empty, an empty `notBefore`
left out, nil capabilities refused), `Encoded` the struct written out as it is.
`VerifyPassport` and `VerifyIssuerSignature` judge the rebuilt map,
`CheckPassportGate` the map as it came.  Other implementations sign maps as they
are (`SignDocument`, `CountersignDocument`).  `NoErrors` is the part of
`VerifyPassport` that collects `errs`; the two early returns come before it.
Left out are documents `json.Unmarshal` refuses or reads loosely: members of
another type, twice, or spelt in another case.

*Commerce.*  `ledger` is the persisted `CommerceDelegation`, `copy` the value a
buyer holds, `pc` whether it is at the gates, recording or paying.  The package
leaves persistence to its caller.  The caller modelled records before it pays
and writes only over the value it read, otherwise reads again and repeats
`RecordSpend`, not the gates; these steps are marked external.  That nothing is
overspent rests on this compare-and-write of the caller's and on `RecordSpend`'s
limit; `PurchaseEnds` is about the caller's loop and uses of the code only that
`RecordSpend` adds and is bounded.  Of the delegation only `spentAmount` changes,
and a wallet cleared at the gate may have been re-bound by the time of payment.  `wallets` is the
caller's list of bindings, each with the passport key that signed it; `Bind` and
`Rekey` may come between any two steps of a purchase.

*Coordination.*  `signed` holds every signature made; a message verifies if a
signature exists over its signed fields.  The create functions have the guards
of the code, two of them; what the parties look at before they call them
(`Briefed`, `Acceptable`, ... ) is external and uses the package's verify
functions.  Any key may sign any assignment, also one with the ids of another;
only the operator of the task keeps to its briefs.  `shown` (history) is which
assignment each acceptance was given for.
`acceptedAt`, and other signed fields no rule reads, are left out.

*Merkle.*  `level`, `index` and `path` are the prover's loop, `walk` the
verifier's; `style` says which package.  A hash is the term it was
computed from, so equal hashes have equal preimages.  A proof that is not the
prover's own takes each step from every hash of the tree.  `Reduce` is `cpa`'s
loop, applied to the leaves of each channel and then to their roots; `SortLeaves`
orders them by rank (`InOrder`), which is what a sort does when no two keys are
equal.  `Subtrees` is the reference: RFC 6962's tree, defined from above by
splitting at a power of two, tabulated for all stretches of the leaves, one width
after the other.  Proofs with
payloads, which hash the payload first, are left out, as is the root of no leaves
but for a context's.

*Trace, Compliance, Accountability.*  The packages keep nothing: `records`,
`receipts` and `states` are the arguments their caller passes, in the order they
arrived.  `signature` is the key that signed exactly the other fields, `Forged`
or `Absent`.  `FirstInOrder` is the stable sort of the matches with its first
element taken, `Chosen` the rule for the tail.  `given` and `done` (history) are
what was really signed.  `Status` and `Evidence` are the switch of
`evaluatePrinciple`.  Wording is left out.

*PaperTrail.*  Each action is one creating function on a draft (its arguments);
calls that return an error change nothing and are no steps, so a refused draft
shows as a disabled action.  Verifying functions keep nothing either, so they
appear in the properties, which show them every recombination of the parts signed
so far.  `directory` is the `resolveKey` a caller supplies, with the times its
keys were current.  A tagged payload is a record with a field `tag`.  Spellings
are numbers with `Nfc` their normal form, instants are ticks, two to the second,
weights half-thousandths.  A clock that cannot be read, which both readers of an
attestation's expiry refuse, is left out.

## Runs

| Run | Question | Bounds | States |
|---|---|---|---|
| `chain_narrowing` | does the loop carry the effective ceiling, and does it accept exactly the chains of the policy? | all chains of up to three links in seven families, each varying the fields of one rule group (spend, depth, int edge, time, scope, linkage, a mixture); `MaxInt = 5` | 315,985 |
| `issuance` | does the minter agree with the verifier, keep every bound, and never let a leaf outlive its path? | three links, clock 0..2, families of roots, commerce roots, received roots and child options | 38,901 |
| `issuance_restating` (violation) | does the minter also agree with the verifier below a link that was not minted by `SubDelegate`? | three links, limits 1, 2 and none, no received or commerce roots | |
| `chain_authorization` | are tokens and refusals right at one instant, and does every call return? | one call on up to three links, four effective revocation records, clock 0..1, so that expiry and revocation can fall before, during and after each step | 206,447 |
| `key_store` | races, linearizability, starvation | three goroutines (two readers queueing behind a writer), two ids, endless calls | 97,167 |
| `challenge` | is every accepted response recent, and does staleness last? | two nonces, two keys, lifetimes of 1 and 2 seconds of two units each, the longer overflowing a `Duration`; clock 0..3, past the end of the first | 566,720 |
| `passport` | is valid exactly vouched-for, do the two checks of a countersignature agree, and do the struct's and the map's check of the holder's signature? | two keys, six documents (both window edges, unreadable, absent, null and unknown members), two signatures, one countersignature, every envelope and every verifier | 5,431 |
| `commerce` | overspend, lost spend, wrong refusal, foreign wallet, endless retry | two buyers, a budget of three, seven kinds of order, five grants, a wallet unbound, bound or re-bound around one change of key | 172,260 |
| `coordination` | what does an acceptance prove, and does a completion rest on approved evidence, end to end? | three parties, two tasks, four assignments with one id between them, nine signatures, which reach a completion (eight) with one to spare | 797,356 |
| `merkle` | commitment, completeness and soundness of the proofs | attribution lists of up to five of two hashes, bundles of up to five members, paths of three steps, claimed counts up to six, contexts of up to four leaves in three channels | 1,007,438 |
| `accountability` | does a verified trace rest on real delegations, is it independent of order, and do reports agree with it and last? | three keys, five grants that share keys or ids, five receipts (one hop, two, round in a circle, none, another version); three records with one receipt, or one record with two | 377,000 |
| `paper_trail` | does what verifies mean what it says, for every recombination of two artifacts? | two parties with two keys each, a base draft and its variations for each of seven kinds, two artifacts, clock 0..2 | 180,293 |

What the properties say, in the terms of the code, is written above each of them.

Three links are the smallest chain in which an omission lies between two
statements, which is where pairwise and inherited rules differ; the proofs
remove the bound.  `MaxInt = 5` keeps both the wrap-around and ordinary depths
reachable in three links.  A run over one call is enough for authorization
because calls share nothing.

Two buyers are enough for every race on one ledger: a buyer is disturbed by the
ledger changing, whoever changed it.  One countersignature is enough for
`passport` because a verdict reads one; two signatures let it cover another than
the one presented.  Five leaves are the first width at which a node is promoted
twice.  Nine signatures in `coordination` leave room for one misleading
assignment, review or packet beside a complete task.

Three records are the fewest with which a chain of two hops has a duplicate or a
made-up record beside a true one.  Two artifacts are enough for `paper_trail`
because every statement relates one artifact, or one signature and one content,
to another; a receipt alone may have two signers.  Two keys per party allow one
rotation, before, at and after the date a receipt states.

Deadlock is not checked where the system really stops: single calls that have
returned, and runs that end when their bounds on signatures are used up.
`key_store` and `commerce` never stop and are checked for deadlock.

### Fairness

`CallReturns` assumes weak fairness of the call's own steps: its goroutine is
scheduled and its resolver returns (a resolver that never does blocks the code
too).  `CallsReturn` assumes weak fairness of each goroutine and strong fairness
of a writer's acquisition of the mutex, which Go's `sync.Mutex` provides by
handing itself to the longest waiter after a millisecond.  `PurchaseEnds` assumes
weak fairness of a buyer that has begun: it is scheduled, and a human who is
asked answers; a buyer need never begin.  No fairness is put on
the clock, on callers or on revocations.

## What disagrees with the comments

`issuance_restating`: the minter looks at the immediate parent only; below a
link that omits a bound (legally, by inheritance) it mints a child above the
root's bound, which the verifier refuses: a root with limit 1, a second link
restated without a limit, a third minted with limit 2.  The positions fit
(`DepthFits`), so no overflow is involved.  The comment it contradicts is quoted
in `PROJECT.json`.

Two more places where a comment or test says more than the code holds, without a
run of their own:

* `verify.go` 474-476 promises a scope subset along a chain.  Scope is compared
  between neighbours, and `ScopeCovers` is transitive only if `*` is the last
  segment: a chain `*:*`, `*`, `a` is accepted although `*:*` does not cover `a`
  (theorem `InnerWildcardBreaksTransitivity`).
* `supporting_record.go` 229 calls a bundle proof tree-shape-bound, and
  `receipt_core_test.go` 134-136 expects another `leaf_count` to be refused.  The
  root does not contain the count, and the verifier takes it from the proof; a
  proof with another count can be accepted, though only for a member
  (`AcceptedIsMember`), and the position holds once the count is known
  (`PositionBound`).

Edges that the models make explicit, which a user of the library should know:

* `parentDepth + 1` in `SubDelegate` wraps at the largest int
  (`MintedChainsVerify` and its proof hold as long as positions fit).
* A challenge made between two seconds expires at the whole second, up to a
  second early, because `formatISO` cuts the fraction; it never expires late.
* `CheckPassportGate` reads a map, `VerifyPassport` a struct
  (`GateAgreesOnRebuilt`).  A signed map with other members than a struct writes,
  such as the one in `gates_test.go` 104-116, passes the gate and is refused by
  `VerifyPassport`; a passport that `CreatePassport` signed with nil
  `Runtime.Models` passes `VerifyPassport` and, sent as JSON, is refused by the
  gate, since it is written as null and was signed as an empty list.
* An acceptance is of ids (`AcceptanceIsOfItsIds`): whoever signs another
  assignment with the same ids to the same agent, with another role or
  delegation, can show it as accepted.
* `TraceBeneficiary`: records between the same keys with one id, one verdict and
  different scopes are reported in the order given, so `LineageStable` excludes
  them; a verified trace may report a made-up record at the tail if it carries
  the id the receipt names; `Resolved` may turn false when a record without an id
  arrives.
* `EvaluateCompliance`: F-002 cannot be violated, since only one agent's receipts
  are looked at; F-003 looks up by id and treats an unknown delegation as in
  scope; F-004 uses the current flag, so what was done before a revocation
  counts; F-005 looks for a signature and does not verify it.
* `CreateReceiptV1` refuses empty evidence, because copying makes it nil, while
  `VerifyReceiptV1` accepts an empty list.
* `VerifyEnvelope` accepts any canonical JSON the key signed, of whatever kind;
  `payloadType` and `_digest` are not read.  Receipts and supporting records are
  kept apart by their tags (`TagsSeparate`), the other kinds are not.
* `LinkPermitAndCompletion` does not verify the permit; of two supplied
  attribution receipts with one id the later decides; `NegotiateCommonGround`
  reads no signature; `VerifyCommerceReceipt` does not compare the spend with the
  checkout total.
* `CheckWalletGate`: the first entry of a wallet decides, so a wallet bound again
  after a change of key is refused until the old entry goes.

## Proofs

All theorems are for every value of the constants: chains and lists of any
length, any field values, any number of goroutines, buyers, records or messages.
Where a proof module covers two components it is because they share lemmas or
constants; their specifications stay separate, under separate names.

*`ChainNarrowingProofs`.*  `CoversTransitive`: on scopes with `*` last, coverage is
"a common prefix without the wildcard", and prefixes compose.
`InnerWildcardBreaksTransitivity` gives, for every ordinary segment, the three
scopes that show the provision cannot be dropped.  The inductive invariant of the
loop says that after each link the
carried ceiling is the least (for activation, the greatest) value stated so far
and that the links so far narrow; the policy's verdict needs it because the
loop compares with the ceiling, the policy with every ancestor.  From it follow
type correctness, `EffectiveCeiling`, `DepthBoundsLength` and the refinement
`LoopImplementsPolicy`.  `ScopeEndToEnd` uses a second invariant, built on
`CoversTransitive`, because the loop carries no scope.

*`IssuanceProofs`.*  `ChildNarrowsParent` turns the early returns and the signed
record into one relation between parent and child; `InheritsTransitive` carries
it to every ancestor.  The invariant holds pairwise inheritance, authentic
parents and the count of positions as long as they fit an int.  It gives
`MinterAgreesWithVerifier` (against the same `Narrowing` that
`LoopImplementsPolicy` shows to be what the verifier accepts), `Materialized`
and `LiveAncestors`.

*`ChainAuthorizationProofs`.*  The invariant says what each stage has
established and that clock and records only move on.  Monotonicity
(`AuthorizedBefore`) then places a success at the start of the call and a
refusal at its end.

*`KeyStoreProofs`.*  The mutex's books: whoever is inside is known to the mutex,
and a writer inside means no reader.  `RaceFree` follows.  For the refinement of
`KeyMap` the books are joined by what each goroutine relies on while inside:
`Delete`, between its lookup and its erase, that the entry is still there; `List`,
that the ids it has collected are distinct and still present (`AtomicInv`).  A step
that changes the map is a writer's, and then nobody else is at such a place
(`WriterAlone`).  Each step that computes an answer then takes effect on the abstract
map (`WorkRefines`), and every other step is a call, a return or invisible, so
the store is linearizable (`StoreIsMap`).

*`IdentityProofs`.*  For challenges, the invariant `Recorded` relates each
challenge to the request it was made for: a readable expiry is never past the
lifetime asked for.  That rests on two facts of arithmetic, that a wrapped product
of a non-negative number of seconds is never above the true one
(`DurationShortens`) and that cutting a fraction only lowers an instant
(`FormatISOCuts`).  For passports the invariant is only that every signature is over a
document and every countersignature over a signature made before (`OnlySigned`); the work is in what the verdicts are equivalent to, and in what
survives reading a document into the struct and writing it again (`RoundTrip`,
`WrittenAsSigned`).  From it follow `ValidIsVouchedFor`, `TrustOnlyAdds`,
`IssuerChecksAgree` and `GateAgreesOnRebuilt`.

*`CommerceTaskProofs`.*  `BudgetHolds` is not inductive: between recording and
paying, the ledger is ahead of what was paid.  The invariant says that it is ahead
by exactly the amounts of the buyers about to pay (`Accounted`), that no such amount
is negative, and that every copy a buyer holds is an earlier state of the ledger
(`CopiesEarlier`), so that a successful compare-and-write adds to the current
value.  The sum over buyers is a fold over a finite set; its laws (one buyer more,
one less, an amount changed) are proved by a smallest counterexample among the
finite sets.  `ClearedOnTerms` carries what the gates established up to the
payment.  For coordination the invariant gives each kind of signed message the
reason it was signed for (`AcceptedOnSight`, `ReviewedWithCause`,
`HandedOnApproval`, ...), without any rule on how ids are given; `CompletedOnApprovedEvidence` follows it back through four
signatures.

*`AccountabilityProofs`.*  The invariant says that authentic records, receipts and
revocation flags are exactly those in the histories.  `LineageStable` needs that the
first of a stable sort is the match at the least place, and that for two
orders of the same records the least places hold the same record up to what a
lineage reports.  For the Merkle trees a hash determines its children, so the root
stands for the whole tower of levels.  `TreeInv` names all levels at once and
says that the verifier's walk, as long as it can still reach the root, is on a
trail of digests that climbs this tower (`Trail`, `OnTrail`), and that the prover's
path is such a trail.  `AcceptedIsMember` follows by descending the trail from the
root, `PositionBound` because the index halves in step with the levels.
`RootCommits` compares two definitions of the tree.  The fold meets the reference
level by level: a level consists of the reference's trees over consecutive stretches
of the leaves, all of one width but the last (`Stretched`), and folding doubles the
stretches (`StretchesDouble`), so that the one node left is the tree over all leaves
(`FoldIsReference`).  Two such trees over hashes of leaves are equal only over equal
lists, by descending both at once (`SameTreeSameLeaves`).  For a context, whose
partition trees and top tree use the same tag, that argument does not apply: what is
determined is the set of leaves.  The hashes a context is made of form a set in which
every member is a leaf's hash or a node over two members (`Grown`), such a set has with
a node what is below it (`Closed`), and whatever is so closed and has a context's root
has its leaves' hashes (`ContextHolds`); the other direction is that sorting undoes the
order of arrival (`SortLeavesIs`, `RootOfLeaves`).  The invariant adds that a bundle's
leaves are in strict order and that a context's root is that of its leaves
(`LeavesKept`).

*`PaperTrailProofs`.*  The invariant is that every artifact is what its creating
function makes of its draft (`PaperInv`).  As signatures and hashes determine what
they were made from, a proof that verifies names its signer, its key and its
content (`ProofNames`), which with keys no two parties share gives
`ReceiptVouchedFor`.  `VerdictStands` rests on `ResolveStable`: a key that becomes
current later changes no answer about an earlier time.  The other theorems need what
the packages' loops and sorts compute, for lists of any length: that a list sorted by
rank has the same elements (`PlacesPermute`) and that two lists without repetition
are sorted alike exactly if they hold the same (`SortedUnique`), for `RefsIdentify`;
which extensions the loop of `NegotiateCommonGround` collects (`SharedAre`), for
`GroundAgrees`; how far rounding moves a sum (`RoundingMoves`), for `WeightBound`; which
principals `ExtractDelegationChain` names (`ChainNames`) and that the order of unique
ids does not matter to a citation (`OrderOfSupply`), for `OutcomeBound`.

Induction over data appears only as a smallest counterexample: the set of
numbers, or of finite sets, for which a claim fails has a minimal member
(`NatLessThanWellFounded`, `FS_StrictSubsetOrderingWellFounded` with `WFMin`), from
which a contradiction is derived.  That a recursive function over `0..n` has the value
its definition says is proved the same way (`LoopRuns`, `ReduceIsFold`,
`SubtreesWiden`).

Assumptions: the named `ASSUME`s, which say that the special values (None,
Unparseable, ...) differ from ordinary ones and that the constants have their
types.  TLC evaluates them in every run.  Type correctness is a theorem
(`TypeCorrect`) where it carries an argument and is not run on its own.

Only model-checked: liveness (`CallReturns`, `CallsReturn`, `PurchaseEnds`), which
the prover does not do.

## Not modelled

* Ed25519, key generation and admissibility, hex: the modules assume that a
  signature binds exactly the bytes it was made over.
* Canonical JSON (`jcs/`, `receiptcore/jcs.go`), prevalidation and Unicode
  normalisation: what they do character by character.  Equality of canonical
  bytes is equality of records; strings without a canonical form appear as
  `Malformed`, texts that are not canonical as `Respelt`, and a normal form as
  `Nfc`.
* Small pure functions no property needs: `HashReceipt`, `ComputeActionRef` (the
  single-string form of the reference), `ComputeCpaRef`,
  `ClassifySupportingRecordFormat`, `EffectiveEnforcementMode`, the signature of a
  compliance report, `CalculateVoteWeight`, `ComputeEvidenceMetadata`.

## What is left to prove

Every safety property of a passing run is a theorem.  What stays with TLC is
liveness, and the finding of the violation run, which is a counterexample.
