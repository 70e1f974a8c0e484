----------------------------- MODULE ScopeMatch -----------------------------
(***************************************************************************)
(* Delegation scopes and the coverage relation verify.ScopeCovers that     *)
(* every narrowing check of the repository rests on: VerifyDelegationChain *)
(* (verify), SubDelegate (delegation) and the commerce scope gate.         *)
(*                                                                         *)
(* A scope is a string of ":"-separated segments.  It is modelled as the   *)
(* non-empty sequence of its segments, a one-to-one reading of the string  *)
(* (a segment holds no ":"), under which strings.HasPrefix(r, g + ":")     *)
(* says exactly that g is a strict prefix of r.                            *)
(***************************************************************************)
EXTENDS Integers, SequencesExt

CONSTANT
  Star      \* the segment "*"

\* granted[:len(granted)-2] of a scope that ends in ":*".
WithoutWildcard(granted) == Front(granted)

\* strings.HasSuffix(granted, ":*"): a last segment "*" that follows another.
EndsInWildcard(granted) == Len(granted) > 1 /\ Last(granted) = Star

\* Mutant of ScopeCovers: a prefix matches in either direction.
CoversEitherWay(granted, required) ==
  \/ granted = <<Star>>
  \/ IsPrefix(granted, required)
  \/ IsPrefix(required, granted)

\* verify.ScopeCovers: equal, the lone wildcard, a segment prefix, or a
\* trailing ":*" whose prefix equals or leads the required scope.
ScopeCovers(granted, required) ==
  \/ granted = required
  \/ granted = <<Star>>
  \/ IsStrictPrefix(granted, required)
  \/ /\ EndsInWildcard(granted)
     /\ \/ required = WithoutWildcard(granted)
        \/ IsStrictPrefix(WithoutWildcard(granted), required)

\* A scope that uses "*" as the documentation does: in the last place only.
WildcardLast(s) == \A k \in 1..Len(s) - 1 : s[k] # Star

\* The scope lists of a parent and a child link: every scope the child states
\* is covered by some scope of the parent (the double loop of SubDelegate and
\* VerifyDelegationChain).
ScopesCover(parentScope, childScope) ==
  \A s \in childScope : \E ps \in parentScope : ScopeCovers(ps, s)
=============================================================================
