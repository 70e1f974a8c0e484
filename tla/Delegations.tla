---------------------------- MODULE Delegations ----------------------------
(***************************************************************************)
(* The typed delegation record (types.Delegation) as the narrowing layer   *)
(* reads it.  A nil pointer or an empty optional string is None; a         *)
(* non-empty timestamp that ParseTimestamp cannot read is Unparseable; a   *)
(* NaN or infinite spend limit is NonFinite.  Amounts and instants are     *)
(* integers: the code only compares them.  Depths are Go ints, kept at     *)
(* their width because the code adds one to them.                          *)
(*                                                                         *)
(* signature is the key that signed exactly the other fields, or None when *)
(* the signature bytes verify under no key (absent, or the record changed  *)
(* after signing): Ed25519 over the canonical bytes is taken as            *)
(* unforgeable.                                                            *)
(***************************************************************************)
EXTENDS ScopeMatch

CONSTANTS
  Keys,          \* public keys that have a private key
  EmptyKey,      \* the empty string where a public key belongs
  Segments,      \* what may stand between two colons of a scope
  Scopes,        \* scopes, as sequences of segments
  Units,         \* spend units that may be stated
  Currency,      \* the default unit "currency"
  MaxInt,        \* the largest Go int
  None,          \* an absent optional field
  Unparseable,   \* a timestamp no layout of ParseTimestamp accepts
  NonFinite      \* NaN or an infinity

ASSUME FieldAssumption ==
  /\ MaxInt \in Nat \ {0}
  /\ Currency \in Units
  /\ EmptyKey \notin Keys
  /\ None \notin Int \cup Units \cup Keys \cup {EmptyKey}
  /\ Unparseable \notin Int \cup {None}
  /\ NonFinite \notin Int \cup {None}

ASSUME ScopeAssumption == Scopes \subseteq Seq(Segments) \ {<< >>}

MinInt == -MaxInt - 1
GoInt == MinInt..MaxInt

\* d + 1 in Go int arithmetic.
Increment(d) == IF d = MaxInt THEN MinInt ELSE d + 1

Amount == Int \cup {None, NonFinite}
Depth == GoInt \cup {None}
Timestamp == Int \cup {None, Unparseable}

Principals == Keys \cup {EmptyKey}

Delegation ==
  [delegatedBy : Principals, delegatedTo : Principals,
   scope : SUBSET Scopes,
   spendLimit : Amount, spendLimitUnit : Units \cup {None},
   maxDepth : Depth, currentDepth : Depth,
   expiresAt : Timestamp, notBefore : Timestamp,
   signature : Keys \cup {None}]

\* statedSpendUnit: a bare spend limit states the default unit.
StatedSpendUnit(d) ==
  IF d.spendLimitUnit # None THEN d.spendLimitUnit
  ELSE IF d.spendLimit # None THEN Currency
  ELSE None

\* An absent currentDepth reads as position zero.
DepthOf(d) == IF d.currentDepth = None THEN 0 ELSE d.currentDepth
=============================================================================
