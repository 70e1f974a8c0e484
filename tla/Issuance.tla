----------------------------- MODULE Issuance ------------------------------
(***************************************************************************)
(* The delegation package: CreateDelegation mints a root (as does          *)
(* CreateCommerceDelegation in the commerce package), SubDelegate          *)
(* extends it one link at a time, VerifyDelegationAt judges a single link  *)
(* at an instant.  The state is one chain as its holders see it, root      *)
(* first, and the wall clock SubDelegate reads when its caller gives no    *)
(* Now.  A chain may also start from a record another party made.          *)
(***************************************************************************)
EXTENDS Narrowing

CONSTANTS
  RootOptions,     \* CreateOptions: Delegation records, the key that signs in
                   \* the signature field
  CommerceOptions, \* CreateCommerceDelegationOptions, written the same way
  CommerceScopes,  \* the scopes commerce:checkout and commerce:browse
  Usd,             \* the unit "usd"
  ForeignRoots,    \* delegations received from elsewhere, authentic or not
  ChildOptions,    \* SubDelegateOptions
  Times,           \* the instants the clock passes through, and the instants
                   \* at which validity is asked
  MaxLinks         \* bound on the length of a chain

SubDelegateOptions ==
  [privateKey : Keys, delegatedTo : Principals, scope : SUBSET Scopes,
   spendLimit : Amount, spendLimitUnit : Units \cup {None},
   expiresAt : Timestamp, notBefore : Timestamp, now : Timestamp]

ASSUME IssuanceAssumption ==
  /\ RootOptions \subseteq Delegation
  /\ CommerceOptions \subseteq Delegation
  /\ CommerceScopes \subseteq Scopes /\ Usd \in Units
  /\ ForeignRoots \subseteq Delegation
  /\ \A d \in ForeignRoots : d.signature # None => d.spendLimit # NonFinite
  /\ ChildOptions \subseteq SubDelegateOptions
  /\ Times \subseteq Int /\ Times # {}
  /\ MaxLinks \in Nat

VARIABLES
  chain,           \* the chain minted so far
  now              \* the wall clock

vars == <<chain, now>>

-----------------------------------------------------------------------------
\* VerifyDelegationSignature: the bytes of this record, signed by the key it
\* names as its delegator.
AuthenticSignature(d) ==
  d.signature # None /\ d.signature = d.delegatedBy

\* VerifyDelegationAt: the first failure at instant t, or "none".  Equality
\* with either end of the validity window is live.
DelegationFailure(d, t) ==
  IF ~AuthenticSignature(d)                   THEN "invalid signature"
  ELSE IF d.expiresAt \in {None, Unparseable} THEN "invalid expiry"
  ELSE IF d.expiresAt < t                     THEN "expired"
  ELSE IF d.notBefore = Unparseable           THEN "invalid notBefore"
  ELSE IF d.notBefore # None /\ d.notBefore > t THEN "not yet valid"
  ELSE IF /\ d.maxDepth # None
          /\ d.currentDepth # None
          /\ d.currentDepth > d.maxDepth      THEN "depth exceeded"
  ELSE "none"

Live(d, t) == DelegationFailure(d, t) = "none"

\* CreateDelegation: what it insists on; SignArtifact then fails on a number
\* that has no canonical form.
Creatable(o) ==
  /\ o.delegatedBy # EmptyKey /\ o.delegatedTo # EmptyKey
  /\ o.maxDepth # None /\ o.currentDepth # None   \* plain ints in the options
  /\ 0 <= o.currentDepth /\ o.currentDepth <= o.maxDepth
  /\ o.spendLimit # NonFinite
  /\ o.signature # None

\* The evaluation time of SubDelegate: opts.Now, or the wall clock.
EvaluationTime(o) == IF o.now = None THEN now ELSE o.now

ChildUnit(parent, o) ==
  IF o.spendLimitUnit = None THEN StatedSpendUnit(parent) ELSE o.spendLimitUnit

\* Mutant of SharesParentBudget: only a unit the caller spelled out counts.
SharesSpelledOut(parent, o) ==
  o.spendLimitUnit # None /\ o.spendLimitUnit = StatedSpendUnit(parent)
    /\ parent.spendLimit # None

\* Parent and child share a bounded budget in one unit.
SharesParentBudget(parent, o) ==
  /\ StatedSpendUnit(parent) # None
  /\ ChildUnit(parent, o) = StatedSpendUnit(parent)
  /\ parent.spendLimit # None

\* The early returns of SubDelegate, in order, once Now is read: the first
\* error or "none".
SubDelegateFailure(parent, o, t) ==
  IF ~Live(parent, t)                              THEN "invalid parent"
  ELSE IF DepthOf(parent) < 0                      THEN "parent depth negative"
  ELSE IF /\ parent.maxDepth # None
          /\ Increment(DepthOf(parent)) > parent.maxDepth
                                                   THEN "depth limit exceeded"
  ELSE IF ~ScopesCover(parent.scope, o.scope)      THEN "scope violation"
  ELSE IF /\ StatedSpendUnit(parent) # None
          /\ ChildUnit(parent, o) # StatedSpendUnit(parent)
                                                   THEN "spend unit change"
  ELSE IF /\ SharesParentBudget(parent, o)
          /\ o.spendLimit \notin {None, NonFinite}
          /\ o.spendLimit > parent.spendLimit      THEN "spend limit exceeds"
  ELSE IF Unparseable \in {o.expiresAt, o.notBefore, parent.notBefore}
                                                   THEN "timestamp invalid"
  ELSE IF o.spendLimit = NonFinite                 THEN "cannot sign"
  ELSE "none"

\* Mutant of ChildExpiresAt: a requested expiry is taken as it is.
RequestedExpiresAt(parent, o) ==
  IF o.expiresAt = None THEN parent.expiresAt ELSE o.expiresAt

\* The earlier of the requested expiry and the parent's, inherited if omitted.
ChildExpiresAt(parent, o) ==
  IF parent.expiresAt = None THEN o.expiresAt
  ELSE IF o.expiresAt = None \/ o.expiresAt > parent.expiresAt
       THEN parent.expiresAt ELSE o.expiresAt

\* Mutant of ChildNotBefore: a requested activation is taken as it is.
RequestedNotBefore(parent, o) ==
  IF o.notBefore = None THEN parent.notBefore ELSE o.notBefore

\* The later of the requested activation and the parent's.
ChildNotBefore(parent, o) ==
  IF parent.notBefore = None THEN o.notBefore
  ELSE IF o.notBefore = None \/ o.notBefore < parent.notBefore
       THEN parent.notBefore ELSE o.notBefore

\* The child SubDelegate signs: omitted bounds are materialized from the
\* parent, the depth ceiling is inherited exactly.
Child(parent, o) ==
  [delegatedBy    |-> parent.delegatedTo,
   delegatedTo    |-> o.delegatedTo,
   scope          |-> o.scope,
   spendLimit     |-> IF o.spendLimit = None /\ SharesParentBudget(parent, o)
                      THEN parent.spendLimit ELSE o.spendLimit,
   spendLimitUnit |-> ChildUnit(parent, o),
   maxDepth       |-> parent.maxDepth,
   currentDepth   |-> Increment(DepthOf(parent)),
   expiresAt      |-> ChildExpiresAt(parent, o),
   notBefore      |-> ChildNotBefore(parent, o),
   signature      |-> o.privateKey]

\* The delegation CreateCommerceDelegation signs, with its defaults.
CommerceRoot(o) ==
  [o EXCEPT !.scope = CommerceScopes \cup o.scope,
            !.spendLimitUnit = IF o.spendLimitUnit = None THEN Usd
                               ELSE o.spendLimitUnit,
            !.maxDepth = IF o.maxDepth = None THEN 1 ELSE o.maxDepth,
            !.currentDepth = IF o.currentDepth = None THEN 0 ELSE o.currentDepth]

-----------------------------------------------------------------------------
Init == chain = << >> /\ now \in Times

CreateDelegation(o) ==
  /\ chain = << >>
  /\ Creatable(o)
  /\ chain' = <<o>>
  /\ UNCHANGED now

\* CreateCommerceDelegation checks nothing, neither the keys nor the depths;
\* only a limit that is no number cannot be signed.
CreateCommerceDelegation(o) ==
  /\ chain = << >>
  /\ o.signature # None
  /\ o.spendLimit \in Int
  /\ chain' = <<CommerceRoot(o)>>
  /\ UNCHANGED now

\* A record another implementation issued, or one that only claims to be.
Receive(d) ==
  /\ chain = << >>
  /\ chain' = <<d>>
  /\ UNCHANGED now

SubDelegate(o) ==
  /\ chain # << >>
  /\ Len(chain) < MaxLinks
  /\ o.now # Unparseable
  /\ SubDelegateFailure(Last(chain), o, EvaluationTime(o)) = "none"
  /\ chain' = Append(chain, Child(Last(chain), o))
  /\ UNCHANGED now

Tick ==
  /\ \E t \in Times : t > now /\ now' = t
  /\ UNCHANGED chain

Next ==
  \/ \E o \in RootOptions : CreateDelegation(o)
  \/ \E o \in CommerceOptions : CreateCommerceDelegation(o)
  \/ \E d \in ForeignRoots : Receive(d)
  \/ \E o \in ChildOptions : SubDelegate(o)
  \/ Tick

Spec == Init /\ [][Next]_vars

\* CreateDelegation used in the middle of a chain: the last delegatee restates
\* its authority one position down in a record the chain verifier accepts.
Restate(o) ==
  /\ chain # << >>
  /\ Len(chain) < MaxLinks
  /\ Creatable(o)
  /\ Narrowing(Append(chain, o)) = TRUE
  /\ chain' = Append(chain, o)
  /\ UNCHANGED now

RestatingSpec ==
  Init /\ [][Next \/ \E o \in RootOptions : Restate(o)]_vars

-----------------------------------------------------------------------------
\* Links are typed records whatever mixture of options made them.
TypeOK == chain \in Seq(Delegation) /\ now \in Times

\* The last position of the chain, counted from its root, fits a Go int.
DepthFits == DepthOf(chain[1]) + Len(chain) - 1 <= MaxInt

\* "The minter must never produce a chain this repo's own verifier refuses":
\* whatever the root and however long the chain, what SubDelegate returns
\* extends it to one VerifyDelegationChain accepts.  Spec keeps this for chains
\* SubDelegate alone extends; RestatingSpec does not.
MintedChainsVerify ==
  Len(chain) >= 2 /\ DepthFits => Narrowing(chain)

\* "Every bound the caller omits is MATERIALIZED from the parent": a bound any
\* link states is stated by every later link, so a holder of the leaf alone
\* still carries it; no sub-delegated link lacks an expiry.
BoundsMaterialized ==
  /\ \A j, k \in 1..Len(chain) : j < k =>
       /\ chain[j].spendLimit # None => chain[k].spendLimit # None
       /\ StatedSpendUnit(chain[j]) # None =>
            chain[k].spendLimitUnit = StatedSpendUnit(chain[j])
       /\ chain[j].notBefore # None => chain[k].notBefore # None
       /\ chain[k].maxDepth = chain[j].maxDepth
  /\ \A k \in 2..Len(chain) : chain[k].expiresAt \in Int

\* Validity of a leaf is validity of the whole path: whenever VerifyDelegationAt
\* accepts the last link, it accepts every ancestor at that same instant,
\* although it never looks at one.
LiveLeafLiveAncestors ==
  \A t \in Times : \A k \in 1..Len(chain) :
    Live(Last(chain), t) => Live(chain[k], t)
=============================================================================
