------------------------ MODULE MCChainAuthorization ------------------------
(***************************************************************************)
(* Calls on chains of up to three links, with a clock that can pass the    *)
(* expiry of a link during the call and revocations of two of the links.   *)
(***************************************************************************)
EXTENDS ChainAuthorization

CONSTANTS p, q, r1, l1, l2, l3, a, b

MCKeys == {p, q, r1}
MCIds == {l1, l2, l3}
MCCategories == {a, b}
MCTimes == 0..1

Id(k) == CASE k = 1 -> l1 [] k = 2 -> l2 [] k = 3 -> l3

\* Link k of a sound chain r1 -> p -> q -> p.
Good(k) ==
  [id |-> Id(k),
   delegator |-> IF k = 1 THEN r1 ELSE IF k = 2 THEN p ELSE q,
   delegatee |-> IF k = 2 THEN q ELSE p,
   notAfter |-> 1, categories |-> {a},
   signature |-> IF k = 1 THEN r1 ELSE IF k = 2 THEN p ELSE q]

GoodChain(n) == [k \in 1..n |-> Good(k)]

\* The chains that differ from a sound one in link k.
Variants(k) ==
  {[Good(k) EXCEPT !.notAfter = t] : t \in {0, 2, None, Unparseable}}
  \cup {[Good(k) EXCEPT !.signature = s] : s \in {q, None}}
  \cup {[Good(k) EXCEPT !.delegator = d, !.signature = d] : d \in {p, q}}
  \cup {[Good(k) EXCEPT !.delegator = EmptyKey],
        [Good(k) EXCEPT !.delegatee = EmptyKey]}
  \cup {[Good(k) EXCEPT !.categories = c] : c \in SUBSET MCCategories}

MCChains ==
  {<< >>} \cup {GoodChain(n) : n \in 1..3}
  \cup UNION {{[GoodChain(n) EXCEPT ![k] = v] : v \in Variants(k)} :
                <<n, k>> \in {<<1, 1>>, <<2, 1>>, <<2, 2>>, <<3, 2>>, <<3, 3>>}}

Plain(c) ==
  [chain |-> c, maxDepth |-> None, now |-> None, authorize |-> TRUE,
   trustedRoots |-> {r1}, resolver |-> TRUE]

MCRequests ==
  {Plain(c) : c \in MCChains}
  \cup {[Plain(c) EXCEPT !.authorize = FALSE] : c \in MCChains}
  \cup {[Plain(GoodChain(2)) EXCEPT !.maxDepth = d] : d \in {-1, 1, 2}}
  \cup {[Plain(GoodChain(2)) EXCEPT !.now = t] : t \in {0, 1, 2, Unparseable}}
  \cup {[Plain([GoodChain(2) EXCEPT ![1].delegator = d]) EXCEPT
           !.trustedRoots = s] :
          d \in {r1, EmptyKey}, s \in {{}, {EmptyKey}, {q}, {r1, EmptyKey}}}
  \cup {[Plain(GoodChain(n)) EXCEPT !.resolver = FALSE] : n \in 1..2}

\* Revocations by the delegators of the first links, by somebody else in his own
\* name, in the delegator's name under another key, and incomplete ones.
MCRevocations ==
  {[delegationId |-> Id(k), revokedBy |-> Good(k).delegator,
    privateKey |-> Good(k).delegator] : k \in 1..2}
  \cup {[delegationId |-> l1, revokedBy |-> q, privateKey |-> q],
        [delegationId |-> l1, revokedBy |-> r1, privateKey |-> q],
        [delegationId |-> EmptyId, revokedBy |-> r1, privateKey |-> r1],
        [delegationId |-> l1, revokedBy |-> EmptyKey, privateKey |-> r1]}
=============================================================================
