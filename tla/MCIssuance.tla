----------------------------- MODULE MCIssuance -----------------------------
(***************************************************************************)
(* Roots and options for the delegation package: each family varies the    *)
(* fields one group of rules reads; a chain may take each link from        *)
(* another family.                                                         *)
(***************************************************************************)
EXTENDS Issuance

CONSTANTS p, q, a, b, Invocations

MCKeys == {p, q}
MCSegments == {Star, a, b}
MCUnits == {Currency, Invocations}
MCScopes == {<<Star>>, <<a>>, <<a, Star>>, <<a, b>>}
MCTimes == 0..2

PlainRoot ==
  [delegatedBy |-> p, delegatedTo |-> p, scope |-> {<<a>>},
   spendLimit |-> None, spendLimitUnit |-> None,
   maxDepth |-> 3, currentDepth |-> 0,
   expiresAt |-> 2, notBefore |-> None, signature |-> p]

MCRootOptions ==
  {[PlainRoot EXCEPT !.spendLimit = l, !.spendLimitUnit = u] :
     l \in {1, 2, None, NonFinite}, u \in MCUnits \cup {None}}
  \cup
  {[PlainRoot EXCEPT !.currentDepth = d, !.maxDepth = m] :
     d \in {-1, 0, 1, 2}, m \in {0, 1, 2, MaxInt}}
  \cup
  {[PlainRoot EXCEPT !.expiresAt = e, !.notBefore = f] :
     e \in {0, 1, None, Unparseable}, f \in {0, 1, None, Unparseable}}
  \cup
  {[PlainRoot EXCEPT !.scope = s] : s \in SUBSET MCScopes}
  \cup
  {[PlainRoot EXCEPT !.delegatedBy = x, !.delegatedTo = y, !.signature = z] :
     x \in MCKeys \cup {EmptyKey}, y \in MCKeys \cup {EmptyKey}, z \in MCKeys}

\* Commerce roots on the two default scopes, as the caller leaves bounds out
\* or states depths CreateDelegation would refuse.
MCCommerceOptions ==
  {[PlainRoot EXCEPT !.scope = {}, !.spendLimit = l, !.spendLimitUnit = u,
                     !.currentDepth = d, !.maxDepth = m] :
     l \in {1, NonFinite}, u \in {None, Invocations}, d \in {None, 2},
     m \in {None, 1}}
MCCommerceScopes == {<<a, b>>, <<a, Star>>}

\* Records CreateDelegation would not make: no depth stated, a ceiling
\* without a position, a position past its ceiling, forged ones.
MCForeignRoots ==
  {[PlainRoot EXCEPT !.currentDepth = d, !.maxDepth = m, !.signature = z] :
     d \in {-1, 0, 2, MaxInt, None}, m \in {-1, 1, None}, z \in {p, None}}
  \cup {[PlainRoot EXCEPT !.delegatedTo = EmptyKey]}

PlainChild ==
  [privateKey |-> p, delegatedTo |-> p, scope |-> {<<a>>},
   spendLimit |-> None, spendLimitUnit |-> None,
   expiresAt |-> None, notBefore |-> None, now |-> None]

MCChildOptions ==
  {[PlainChild EXCEPT !.spendLimit = l, !.spendLimitUnit = u] :
     l \in {1, 2, None, NonFinite}, u \in MCUnits \cup {None}}
  \cup
  {[PlainChild EXCEPT !.expiresAt = e, !.notBefore = f, !.now = t] :
     e \in {0, 1, 3, None, Unparseable}, f \in {0, 1, 2, None, Unparseable},
     t \in {0, None}}
  \cup
  {[PlainChild EXCEPT !.scope = s] :
     s \in {{}, {<<a, b>>}, {<<Star>>}, {<<a>>, <<a, Star>>}}}
  \cup
  {[PlainChild EXCEPT !.delegatedTo = y, !.privateKey = z] :
     y \in {q, EmptyKey}, z \in MCKeys}
  \cup {[PlainChild EXCEPT !.now = Unparseable]}

\* Roots and restated links that differ in the spend limit they state.
MCRestated ==
  {[PlainRoot EXCEPT !.spendLimit = l, !.currentDepth = d] :
     l \in {1, None}, d \in {0, 1}}
MCSpendChildren ==
  {[PlainChild EXCEPT !.spendLimit = l] : l \in {1, 2, None}}
=============================================================================
