-------------------------- MODULE MCChainNarrowing --------------------------
(***************************************************************************)
(* Chains for VerifyDelegationChain.  Each family varies the fields that   *)
(* one group of rules reads, over chains long enough for an omission in    *)
(* the middle to matter, and keeps the other fields well formed.           *)
(***************************************************************************)
EXTENDS ChainNarrowing

CONSTANTS p, q, a, b, Invocations

MCKeys == {p, q}
MCSegments == {Star, a, b}
MCUnits == {Currency, Invocations}
MCScopes == {<<Star>>, <<a>>, <<a, Star>>, <<a, b>>, <<a, b, Star>>, <<b>>}

\* A link that satisfies every rule at position k of a chain.
Plain(k) ==
  [delegatedBy |-> p, delegatedTo |-> p, scope |-> {<<a>>},
   spendLimit |-> None, spendLimitUnit |-> None,
   maxDepth |-> None, currentDepth |-> k - 1,
   expiresAt |-> 1, notBefore |-> None, signature |-> p]

\* All chains of n links whose k-th link is link(k, v) for a choice v.
ChainsOf(n, link(_, _), choices) ==
  {[k \in 1..n |-> link(k, v[k])] : v \in [1..n -> choices]}

\* Choices are read as <<first field, second field>>.
SpendLink(k, v) ==
  [Plain(k) EXCEPT !.spendLimit = v[1], !.spendLimitUnit = v[2]]
SpendChoices == {1, 2, None, NonFinite} \X (MCUnits \cup {None})

DepthLink(k, v) ==
  [Plain(k) EXCEPT !.currentDepth = IF v[1] = None THEN None ELSE k - v[1],
                   !.maxDepth = v[2]]
DepthChoices == {0, 1, 2, None} \X {-1, 1, 2, None}

\* Positions at the edge of the int range, and a negative start.
EdgeLink(k, v) ==
  [Plain(k) EXCEPT !.currentDepth = v[1], !.maxDepth = v[2]]
EdgeChoices == {MaxInt - 1, MaxInt, MinInt, -1, 0} \X {1, MaxInt, None}

TimeLink(k, v) ==
  [Plain(k) EXCEPT !.expiresAt = v[1], !.notBefore = v[2]]
TimeChoices == {1, 2, None, Unparseable} \X {0, 1, None, Unparseable}

ScopeLink(k, v) == [Plain(k) EXCEPT !.scope = v]
ScopeChoices == {s \in SUBSET Scopes : Cardinality(s) <= 2}

LinkageLink(k, v) ==
  [Plain(k) EXCEPT !.delegatedBy = v[1], !.delegatedTo = v[2]]
LinkageChoices == Principals \X Principals

\* A few links that mix the groups.
MixedLink(k, v) ==
  [Plain(k) EXCEPT !.spendLimit = v[1], !.maxDepth = v[2], !.notBefore = v[3]]
MixedChoices == {1, 2, None} \X {2, 3, None} \X {0, 1, None}

\* Scopes that also use "*" before the last place.
MCInnerWildcards == MCScopes \cup {<<Star, Star>>, <<a, Star, Star>>}
InnerChoices == {{s} : s \in MCInnerWildcards}

EmptyChain == [{} -> Delegation]

MCChains ==
  UNION ({EmptyChain} \cup UNION
    {{ChainsOf(n, SpendLink, SpendChoices),
      ChainsOf(n, DepthLink, DepthChoices),
      ChainsOf(n, EdgeLink, EdgeChoices),
      ChainsOf(n, TimeLink, TimeChoices),
      ChainsOf(n, ScopeLink, ScopeChoices),
      ChainsOf(n, ScopeLink, InnerChoices),
      ChainsOf(n, LinkageLink, LinkageChoices),
      ChainsOf(n, MixedLink, MixedChoices)} : n \in 1..3})
=============================================================================
