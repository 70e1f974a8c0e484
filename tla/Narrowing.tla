----------------------------- MODULE Narrowing -----------------------------
(***************************************************************************)
(* What "monotonic narrowing" means for a chain of delegations, without a  *)
(* loop and without carried state: authority narrows from the root to      *)
(* every descendant, a bound an ancestor states being a bound on every     *)
(* later link however many links in between leave it out.                  *)
(*                                                                         *)
(* Every condition is stated for the first n links, root first.            *)
(***************************************************************************)
EXTENDS Delegations

\* Each link is issued by the principal the previous link names.
Linked(c, n) ==
  \A k \in 2..n : c[k].delegatedBy = c[k-1].delegatedTo

\* Amounts are finite and activation times readable on every link; expiries
\* are readable as soon as there are two links to compare.
Readable(c, n) ==
  /\ \A k \in 1..n : c[k].spendLimit # NonFinite /\ c[k].notBefore # Unparseable
  /\ n >= 2 => \A k \in 1..n : c[k].expiresAt # Unparseable

\* No two links that state a spend unit state different ones.
UnitKept(c, n) ==
  \A j, k \in 1..n :
    \/ StatedSpendUnit(c[j]) = None
    \/ StatedSpendUnit(c[k]) = None
    \/ StatedSpendUnit(c[j]) = StatedSpendUnit(c[k])

\* No link states more spend, or more depth, than any ancestor stated.
SpendNarrows(c, n) ==
  \A j, k \in 1..n :
    \/ j >= k
    \/ c[j].spendLimit = None
    \/ c[k].spendLimit = None
    \/ c[k].spendLimit <= c[j].spendLimit

MaxDepthNarrows(c, n) ==
  \A j, k \in 1..n :
    \/ j >= k
    \/ c[j].maxDepth = None
    \/ c[k].maxDepth = None
    \/ c[k].maxDepth <= c[j].maxDepth

\* No link becomes active before an ancestor does.
ActivationNarrows(c, n) ==
  \A j, k \in 1..n :
    \/ j >= k
    \/ c[j].notBefore = None
    \/ c[k].notBefore = None
    \/ c[j].notBefore <= c[k].notBefore

\* No link outlives an ancestor, and none drops the expiry of an ancestor.
ExpiryNarrows(c, n) ==
  \A j, k \in 1..n :
    \/ j >= k
    \/ c[j].expiresAt = None
    \/ c[k].expiresAt # None /\ c[k].expiresAt <= c[j].expiresAt

\* Positions count hops from a non-negative start and stay within every
\* ceiling stated by the link itself or an ancestor.
DepthCountsHops(c, n) ==
  /\ \A k \in 1..n : DepthOf(c[k]) >= 0
  /\ \A k \in 1..n : DepthOf(c[k]) = DepthOf(c[1]) + k - 1
  /\ \A j, k \in 1..n :
       \/ j > k
       \/ c[j].maxDepth = None
       \/ c[j].maxDepth >= 0 /\ DepthOf(c[k]) <= c[j].maxDepth

\* Every scope of a link is covered by a scope of its parent.
ScopeNarrows(c, n) ==
  \A k \in 2..n : ScopesCover(c[k-1].scope, c[k].scope)

Narrows(c, n) ==
  /\ Linked(c, n)
  /\ Readable(c, n)
  /\ UnitKept(c, n)
  /\ SpendNarrows(c, n)
  /\ MaxDepthNarrows(c, n)
  /\ ActivationNarrows(c, n)
  /\ ExpiryNarrows(c, n)
  /\ DepthCountsHops(c, n)
  /\ ScopeNarrows(c, n)

\* The verdict the policy gives a whole chain; an empty one is no delegation.
Narrowing(c) == c # << >> /\ Narrows(c, Len(c))
=============================================================================
