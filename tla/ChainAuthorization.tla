------------------------- MODULE ChainAuthorization -------------------------
(***************************************************************************)
(* The decision on a composition chain: verify.ValidateChainStructure and, *)
(* on top of it, verify.VerifyChainAuthorization, run as one call while    *)
(* the wall clock moves and delegators publish revocations.                *)
(*                                                                         *)
(* A link is what the code reads of the signed map.  A member that is      *)
(* missing or of the wrong type reads as the empty string, EmptyKey for a  *)
(* key and None for a timestamp; signature is the key that signed exactly  *)
(* the rest of the link, None when the bytes verify under no key.          *)
(***************************************************************************)
EXTENDS Integers, Sequences

CONSTANTS
  Keys,            \* public keys that have a private key
  EmptyKey,        \* the empty string where a key belongs
  Ids,             \* the identifiers revocations name links by
  EmptyId,         \* the empty identifier
  Categories,      \* action categories
  None,            \* an absent optional value
  Unparseable,     \* a timestamp ParseTimestamp does not accept
  Requests,        \* the calls that may be made
  Revocations,     \* CreateRevocationOptions that may be used
  Times            \* the instants the wall clock passes through

Principals == Keys \cup {EmptyKey}
Timestamp == Int \cup {None, Unparseable}

Link ==
  [id : Ids, delegator : Principals, delegatee : Principals,
   notAfter : Timestamp, categories : SUBSET Categories,
   signature : Keys \cup {None}]

\* ChainInput, AuthorizationOptions and the function called: authorize is
\* FALSE for ValidateChainStructure; resolver is FALSE for a nil resolver.
Request ==
  [chain : Seq(Link), maxDepth : Int \cup {None}, now : Timestamp,
   authorize : BOOLEAN, trustedRoots : SUBSET Principals, resolver : BOOLEAN]

CreateRevocationOptions ==
  [delegationId : Ids \cup {EmptyId}, revokedBy : Principals,
   privateKey : Keys]

\* RevocationRecord, with the key that signed it.
RevocationRecord ==
  [delegationId : Ids, revokedBy : Keys, signature : Keys]

ASSUME AuthorizationAssumption ==
  /\ EmptyKey \notin Keys
  /\ EmptyId \notin Ids
  /\ None \notin Int \cup Keys \cup {EmptyKey}
  /\ Unparseable \notin Int \cup {None}
  /\ Requests \subseteq Request
  /\ Revocations \subseteq CreateRevocationOptions
  /\ Times \subseteq Int /\ Times # {}

VARIABLES
  clock,           \* the wall clock, in milliseconds
  revocations,     \* the revocation records published so far
  request,         \* the call's arguments, None before the call
  stage,           \* where the call stands
  next,            \* the index of the link to look at next
  nowMs,           \* the evaluation time, once read
  token,           \* the ChainAuthorization returned
  code,            \* the refusal code returned, "none" for success
  began            \* history: clock and revocations when the call was made

call == <<request, stage, next, nowMs, token, code, began>>
vars == <<clock, revocations, call>>

ZeroToken == [hops |-> 0, revocationChecked |-> FALSE]

Codes ==
  {"invalid signature", "depth exceeded", "validity expired",
   "invalid claim scope", "untrusted root", "revocation indeterminate",
   "revoked"}

-----------------------------------------------------------------------------
\* VerifyCanonicalSignature on a link under the delegator it names.
Authentic(link) == link.signature # None /\ link.signature = link.delegator

\* Mutant of ScopeExpands: an empty list of the parent means no restriction.
ExpandsRestricted(parent, child) ==
  parent.categories # {} /\ ~(child.categories \subseteq parent.categories)

\* scopeExpands: a category of the child that the parent does not have.
ScopeExpands(parent, child) == ~(child.categories \subseteq parent.categories)

\* VerifyChainAuthorization before it turns to the structure.
RootRefusal(r) ==
  IF r.chain = << >>                          THEN "invalid signature"
  ELSE IF \/ r.chain[1].delegator = EmptyKey
          \/ r.chain[1].delegator \notin r.trustedRoots \ {EmptyKey}
                                              THEN "untrusted root"
  ELSE "none"

\* Mutant of InputRefusal: max_depth links are already too many.
InputRefusalEarly(r) ==
  IF r.chain = << >>                          THEN "invalid signature"
  ELSE IF r.maxDepth # None /\ Len(r.chain) >= r.maxDepth
                                              THEN "depth exceeded"
  ELSE IF r.now = Unparseable                 THEN "validity expired"
  ELSE "none"

\* ValidateChainStructure before its loop.
InputRefusal(r) ==
  IF r.chain = << >>                          THEN "invalid signature"
  ELSE IF r.maxDepth # None /\ Len(r.chain) > r.maxDepth
                                              THEN "depth exceeded"
  ELSE IF r.now = Unparseable                 THEN "validity expired"
  ELSE "none"

\* parseMillis of the caller's Now: an empty one means the wall clock.
EvaluationTime(r, wall) == IF r.now = None THEN wall ELSE r.now

\* The checks on a link that is not the first, against the one before it.
ContinuityRefusal(parent, child) ==
  IF \/ parent.delegatee = EmptyKey
     \/ child.delegator = EmptyKey
     \/ child.delegator # parent.delegatee    THEN "invalid signature"
  ELSE IF ScopeExpands(parent, child)         THEN "invalid claim scope"
  ELSE "none"

\* The body of ValidateChainStructure's loop for link i at instant t.
LinkRefusal(c, i, t) ==
  IF c[i].notAfter \in {None, Unparseable}    THEN "validity expired"
  ELSE IF c[i].notAfter < t                   THEN "validity expired"
  ELSE IF ~Authentic(c[i])                    THEN "invalid signature"
  ELSE IF i > 1                               THEN ContinuityRefusal(c[i-1], c[i])
  ELSE "none"

\* VerifyRevocation.
VerifyRevocation(r) == r.signature = r.revokedBy

\* What a resolver that can answer says of a link, given the records
\* published: its delegator revoked it.
RevokedBy(link, records) ==
  \E r \in records :
    /\ VerifyRevocation(r)
    /\ r.delegationId = link.id
    /\ r.revokedBy = link.delegator

-----------------------------------------------------------------------------
Init ==
  /\ clock \in Times
  /\ revocations = {}
  /\ request = None
  /\ stage = "idle"
  /\ next = 1
  /\ nowMs = None
  /\ token = ZeroToken
  /\ code = "none"
  /\ began = None

\* Every early return hands out the zero token.
Return(c) ==
  /\ stage' = "done"
  /\ code' = c
  /\ token' = ZeroToken

\* The call is made, and the trust root decided for an authorization.
Call(r) ==
  /\ stage = "idle"
  /\ request' = r
  /\ began' = [clock |-> clock, revocations |-> revocations]
  /\ \/ /\ r.authorize /\ RootRefusal(r) # "none"
        /\ Return(RootRefusal(r))
     \/ /\ r.authorize => RootRefusal(r) = "none"
        /\ stage' = "structure"
        /\ UNCHANGED <<code, token>>
  /\ UNCHANGED <<clock, revocations, next, nowMs>>

\* ValidateChainStructure up to its loop, the reading of the clock included.
ReadInput ==
  /\ stage = "structure"
  /\ IF InputRefusal(request) # "none"
     THEN Return(InputRefusal(request)) /\ UNCHANGED nowMs
     ELSE /\ nowMs' = EvaluationTime(request, clock)
          /\ stage' = "links"
          /\ UNCHANGED <<code, token>>
  /\ UNCHANGED <<clock, revocations, request, next, began>>

CheckLink ==
  /\ stage = "links"
  /\ next <= Len(request.chain)
  /\ IF LinkRefusal(request.chain, next, nowMs) # "none"
     THEN Return(LinkRefusal(request.chain, next, nowMs)) /\ UNCHANGED next
     ELSE next' = next + 1 /\ UNCHANGED <<stage, code, token>>
  /\ UNCHANGED <<clock, revocations, request, nowMs, began>>

\* Mutant of EndStructure: nobody provides for a nil resolver.
EndStructureUnguarded ==
  /\ stage = "links"
  /\ next > Len(request.chain)
  /\ IF request.authorize
     THEN /\ request.resolver
          /\ stage' = "revocation" /\ next' = 1 /\ UNCHANGED <<code, token>>
     ELSE Return("none") /\ UNCHANGED next
  /\ UNCHANGED <<clock, revocations, request, nowMs, began>>

\* The structure holds: ValidateChainStructure returns success,
\* VerifyChainAuthorization goes on if it was given a resolver.
EndStructure ==
  /\ stage = "links"
  /\ next > Len(request.chain)
  /\ \/ /\ ~request.authorize
        /\ Return("none")
        /\ UNCHANGED next
     \/ /\ request.authorize /\ ~request.resolver
        /\ Return("revocation indeterminate")
        /\ UNCHANGED next
     \/ /\ request.authorize /\ request.resolver
        /\ stage' = "revocation"
        /\ next' = 1
        /\ UNCHANGED <<code, token>>
  /\ UNCHANGED <<clock, revocations, request, nowMs, began>>

\* Mutant of ResolverUnknown: "cannot check" is taken for "not revoked".
UnknownIsLive ==
  /\ stage = "revocation"
  /\ next <= Len(request.chain)
  /\ next' = next + 1
  /\ UNCHANGED <<clock, revocations, request, stage, nowMs, token, code, began>>

\* The resolver is asked about one link and cannot answer.
ResolverUnknown ==
  /\ stage = "revocation"
  /\ next <= Len(request.chain)
  /\ Return("revocation indeterminate")
  /\ UNCHANGED <<clock, revocations, request, next, nowMs, began>>

\* The resolver is asked about one link and answers from the records of now.
ResolverAnswers ==
  /\ stage = "revocation"
  /\ next <= Len(request.chain)
  /\ IF RevokedBy(request.chain[next], revocations)
     THEN Return("revoked") /\ UNCHANGED next
     ELSE next' = next + 1 /\ UNCHANGED <<stage, code, token>>
  /\ UNCHANGED <<clock, revocations, request, nowMs, began>>

Authorize ==
  /\ stage = "revocation"
  /\ next > Len(request.chain)
  /\ stage' = "done"
  /\ token' = [hops |-> Len(request.chain), revocationChecked |-> TRUE]
  /\ UNCHANGED <<clock, revocations, request, next, nowMs, code, began>>

\* CreateRevocation, the record being published at once.  The private key is
\* the caller's: it need not be the one revokedBy names.
CreateRevocation(o) ==
  /\ o.delegationId # EmptyId /\ o.revokedBy # EmptyKey
  /\ revocations' = revocations \cup
       {[delegationId |-> o.delegationId, revokedBy |-> o.revokedBy,
         signature |-> o.privateKey]}
  /\ UNCHANGED <<clock, call>>

Tick ==
  /\ \E t \in Times : t > clock /\ clock' = t
  /\ UNCHANGED <<revocations, call>>

\* The steps of the call itself, the answers of the resolver included.
Step ==
  \/ ReadInput \/ CheckLink \/ EndStructure
  \/ ResolverUnknown \/ ResolverAnswers \/ Authorize

Next ==
  \/ \E r \in Requests : Call(r)
  \/ Step
  \/ \E o \in Revocations : CreateRevocation(o)
  \/ Tick

Spec == Init /\ [][Next]_vars

\* The goroutine of the call is scheduled and its resolver returns.
FairSpec == Spec /\ WF_vars(Step)

-----------------------------------------------------------------------------
\* The index stays within the chain, and a call that is over holds a code of
\* the package; the token is one the code can build.
TypeOK ==
  /\ clock \in Times
  /\ revocations \subseteq RevocationRecord
  /\ stage \in {"idle", "structure", "links", "revocation", "done"}
  /\ IF stage = "idle"
     THEN request = None /\ began = None
     ELSE /\ request \in Requests
          /\ began \in [clock : Times, revocations : SUBSET RevocationRecord]
          /\ next \in 1..Len(request.chain) + 1
  /\ next \in Nat
  /\ nowMs \in Int \cup {None}
  /\ token \in [hops : Nat, revocationChecked : BOOLEAN]
  /\ code \in Codes \cup {"none"}

\* The chain c holds at instant t: unexpired, each link signed by the key the
\* previous link delegates to, and no link with a category that any ancestor
\* lacks.
HoldsAt(c, t) ==
  /\ c # << >>
  /\ \A i \in 1..Len(c) : c[i].notAfter \in Int /\ t <= c[i].notAfter
  /\ \A i \in 1..Len(c) : c[i].signature = c[i].delegator
  /\ \A i \in 2..Len(c) : c[i].signature = c[i-1].delegatee
  /\ \A i, j \in 1..Len(c) : i < j => c[j].categories \subseteq c[i].categories

SoundAt(r, t) ==
  /\ r.now # Unparseable
  /\ HoldsAt(r.chain, t)
  /\ r.maxDepth = None \/ Len(r.chain) <= r.maxDepth

\* The request is authorized at instant t given the published records.
AuthorizedAt(r, t, records) ==
  /\ r.authorize /\ r.resolver
  /\ SoundAt(r, t)
  /\ r.chain[1].signature \in r.trustedRoots
  /\ \A i \in 1..Len(r.chain) : ~RevokedBy(r.chain[i], records)

\* A token is a proof: whoever holds one with RevocationChecked holds a chain
\* that was authorized as a whole, in one instant, when the call was made;
\* although the clock and each link's revocation are read at different times,
\* no revocation published before the call is ever missed.
TokenProvesAuthorization ==
  token.revocationChecked =>
    /\ AuthorizedAt(request, EvaluationTime(request, began.clock),
                    began.revocations)
    /\ token.hops = Len(request.chain)

\* The structural validator answers success only for a chain that holds from
\* the root to every descendant, and never with anything a caller could take
\* for a token.
StructuralPassIsSound ==
  stage = "done" /\ code = "none" /\ ~request.authorize =>
    /\ SoundAt(request, EvaluationTime(request, began.clock))
    /\ ~token.revocationChecked

\* Refusals other than "cannot check" are justified: whatever was refused is
\* not authorized (for a structural call: does not hold) by the time the
\* answer is given, however the clock and revocations interleaved with it.
RefusalsJustified ==
  stage = "done" /\ code \notin {"none", "revocation indeterminate"} =>
    LET t == EvaluationTime(request, clock) IN
    IF request.authorize THEN ~AuthorizedAt(request, t, revocations)
                         ELSE ~SoundAt(request, t)

\* Every call returns: no order of expiry, revocation and resolver answers
\* leaves it waiting.
CallReturns == stage = "structure" ~> stage = "done"
=============================================================================
