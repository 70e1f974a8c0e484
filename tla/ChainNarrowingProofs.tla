------------------------ MODULE ChainNarrowingProofs ------------------------
(***************************************************************************)
(* What verify.ScopeCovers guarantees for scopes of every length over      *)
(* every set of segments, and that VerifyDelegationChain implements the    *)
(* narrowing policy, for chains of every length and every value of every   *)
(* field.                                                                  *)
(***************************************************************************)
EXTENDS ChainNarrowing, TLAPS

-----------------------------------------------------------------------------
\* Scopes.

\* What a prefix is, place by place.
LEMMA PrefixByPlace ==
  ASSUME NEW S, NEW s \in Seq(S), NEW t \in Seq(S)
  PROVE  IsPrefix(s, t) <=> /\ Len(s) <= Len(t)
                            /\ \A k \in 1..Len(s) : s[k] = t[k]
  BY DEF IsPrefix

\* The prefix relation is reflexive, so a strict prefix or equality is a
\* prefix.
LEMMA PrefixOrEqual ==
  ASSUME NEW S, NEW s \in Seq(S), NEW t \in Seq(S)
  PROVE  (s = t \/ IsStrictPrefix(s, t)) <=> IsPrefix(s, t)
  BY PrefixByPlace DEF IsStrictPrefix

\* The scope that granted[:len(granted)-2] leaves, place by place.
LEMMA FrontByPlace ==
  ASSUME NEW S, NEW s \in Seq(S), Len(s) > 1
  PROVE  /\ Front(s) \in Seq(S)
         /\ Len(Front(s)) = Len(s) - 1
         /\ \A k \in 1..Len(s) - 1 : Front(s)[k] = s[k]
  BY DEF Front

\* The four tests of ScopeCovers are three: the lone wildcard, a prefix, or a
\* trailing wildcard over a prefix.
LEMMA CoversIsPrefix ==
  ASSUME NEW S, NEW g \in Seq(S), NEW r \in Seq(S)
  PROVE  ScopeCovers(g, r) <=>
           \/ g = <<Star>>
           \/ IsPrefix(g, r)
           \/ EndsInWildcard(g) /\ IsPrefix(Front(g), r)
  <1>1. (g = r \/ IsStrictPrefix(g, r)) <=> IsPrefix(g, r)
    BY PrefixOrEqual
  <1>2. ASSUME EndsInWildcard(g)
        PROVE  (r = Front(g) \/ IsStrictPrefix(Front(g), r))
                 <=> IsPrefix(Front(g), r)
    <2>1. Front(g) \in Seq(S)
      BY <1>2, FrontByPlace DEF EndsInWildcard
    <2>2. QED
      BY <2>1, PrefixOrEqual
  <1>3. QED
    BY <1>1, <1>2 DEF ScopeCovers, WithoutWildcard

\* Prefixes compose.
LEMMA PrefixTransitive ==
  ASSUME NEW S, NEW s \in Seq(S), NEW t \in Seq(S), NEW u \in Seq(S),
         IsPrefix(s, t), IsPrefix(t, u)
  PROVE  IsPrefix(s, u)
  <1>1. /\ Len(s) <= Len(t) /\ \A k \in 1..Len(s) : s[k] = t[k]
        /\ Len(t) <= Len(u) /\ \A k \in 1..Len(t) : t[k] = u[k]
    BY PrefixByPlace
  <1>2. Len(s) <= Len(u) /\ \A k \in 1..Len(s) : s[k] = u[k]
    BY <1>1
  <1>3. QED
    BY <1>2, PrefixByPlace

\* A prefix of a scope that ends in a wildcard is that scope or a prefix of
\* what precedes the wildcard.
LEMMA PrefixOfWildcard ==
  ASSUME NEW S, NEW s \in Seq(S), NEW t \in Seq(S), Len(t) > 1,
         IsPrefix(s, t)
  PROVE  s = t \/ IsPrefix(s, Front(t))
  <1>1. Len(s) <= Len(t) /\ \A k \in 1..Len(s) : s[k] = t[k]
    BY PrefixByPlace
  <1>2. CASE Len(s) = Len(t)
    BY <1>1, <1>2
  <1>3. CASE Len(s) # Len(t)
    <2>1. /\ Front(t) \in Seq(S)
          /\ Len(Front(t)) = Len(t) - 1
          /\ \A k \in 1..Len(t) - 1 : Front(t)[k] = t[k]
      BY FrontByPlace
    <2>2. Len(s) <= Len(Front(t)) /\ \A k \in 1..Len(s) : s[k] = Front(t)[k]
      BY <1>1, <1>3, <2>1
    <2>3. QED
      BY <2>1, <2>2, PrefixByPlace
  <1>4. QED
    BY <1>2, <1>3

\* Coverage composes along a chain of grants whose first scope uses "*" in the
\* last place only: what the chain verifier checks hop by hop (ScopeCovers of
\* the parent over the child) then holds end to end.
THEOREM CoversTransitive ==
  ASSUME NEW S, NEW g \in Seq(S), NEW m \in Seq(S), NEW r \in Seq(S),
         g # << >>, m # << >>, WildcardLast(g),
         ScopeCovers(g, m), ScopeCovers(m, r)
  PROVE  ScopeCovers(g, r)
  <1>1. CASE g = <<Star>>
    BY <1>1 DEF ScopeCovers
  <1>2. CASE g # <<Star>> /\ IsPrefix(g, m)
    <2>1. Len(g) <= Len(m) /\ \A k \in 1..Len(g) : g[k] = m[k]
      BY <1>2, PrefixByPlace
    <2>2. Len(g) > 0
      OBVIOUS
    <2>3. m # <<Star>>
      <3>1. SUFFICES ASSUME m = <<Star>> PROVE FALSE
        OBVIOUS
      <3>2. Len(m) = 1 /\ m[1] = Star
        BY <3>1
      <3>3. Len(g) = 1 /\ g[1] = Star
        BY <2>1, <2>2, <3>2
      <3>4. QED
        BY <3>3, <1>2
    <2>4. IsPrefix(m, r) \/ (EndsInWildcard(m) /\ IsPrefix(Front(m), r))
      BY <2>3, CoversIsPrefix
    <2>5. CASE IsPrefix(m, r)
      BY <2>5, <1>2, PrefixTransitive, CoversIsPrefix
    <2>6. CASE EndsInWildcard(m) /\ IsPrefix(Front(m), r)
      <3>1. Len(m) > 1 /\ Front(m) \in Seq(S)
        BY <2>6, FrontByPlace DEF EndsInWildcard
      <3>2. g = m \/ IsPrefix(g, Front(m))
        BY <1>2, <3>1, PrefixOfWildcard
      <3>3. CASE g = m
        BY <3>3
      <3>4. CASE IsPrefix(g, Front(m))
        BY <2>6, <3>1, <3>4, PrefixTransitive, CoversIsPrefix
      <3>5. QED
        BY <3>2, <3>3, <3>4
    <2>7. QED
      BY <2>4, <2>5, <2>6
  <1>3. CASE EndsInWildcard(g) /\ IsPrefix(Front(g), m)
    <2>1. /\ Len(g) > 1 /\ Front(g) \in Seq(S)
          /\ Len(Front(g)) = Len(g) - 1
          /\ \A k \in 1..Len(g) - 1 : Front(g)[k] = g[k]
      BY <1>3, FrontByPlace DEF EndsInWildcard
    <2>2. /\ Len(Front(g)) <= Len(m)
          /\ \A k \in 1..Len(Front(g)) : Front(g)[k] = m[k]
      BY <1>3, <2>1, PrefixByPlace
    <2>3. \A k \in 1..Len(Front(g)) : m[k] # Star
      BY <2>1, <2>2 DEF WildcardLast
    <2>4. m # <<Star>>
      BY <2>1, <2>2, <2>3
    <2>5. IsPrefix(m, r) \/ (EndsInWildcard(m) /\ IsPrefix(Front(m), r))
      BY <2>4, CoversIsPrefix
    <2>6. IsPrefix(Front(g), r)
      <3>1. CASE IsPrefix(m, r)
        BY <1>3, <2>1, <3>1, PrefixTransitive
      <3>2. CASE EndsInWildcard(m) /\ IsPrefix(Front(m), r)
        <4>1. Len(m) > 1 /\ Front(m) \in Seq(S) /\ m[Len(m)] = Star
          BY <3>2, FrontByPlace DEF EndsInWildcard, Last
        <4>2. Front(g) # m
          BY <2>1, <2>3, <4>1
        <4>3. IsPrefix(Front(g), Front(m))
          BY <1>3, <2>1, <4>1, <4>2, PrefixOfWildcard
        <4>4. QED
          BY <2>1, <3>2, <4>1, <4>3, PrefixTransitive
      <3>3. QED
        BY <2>5, <3>1, <3>2
    <2>7. QED
      BY <1>3, <2>6, CoversIsPrefix
  <1>4. QED
    BY <1>1, <1>2, <1>3, CoversIsPrefix

\* Scopes that begin differently are no prefixes of each other.
LEMMA PrefixSharesHead ==
  ASSUME NEW S, NEW s \in Seq(S), NEW t \in Seq(S), Len(s) > 0, s[1] # t[1]
  PROVE  ~ IsPrefix(s, t)
  <1>1. 1 \in 1..Len(s)
    OBVIOUS
  <1>2. QED
    BY <1>1, PrefixByPlace

\* What the removal of the wildcard leaves of a scope of two segments.
LEMMA FrontOfPair ==
  ASSUME NEW S, NEW s \in Seq(S), Len(s) = 2
  PROVE  Front(s) = <<s[1]>>
  <1>1. Len(s) > 1
    OBVIOUS
  <1>2. /\ Front(s) \in Seq(S)
        /\ Len(Front(s)) = Len(s) - 1
        /\ \A k \in 1..Len(s) - 1 : Front(s)[k] = s[k]
    BY <1>1, FrontByPlace
  <1>3. Len(Front(s)) = 1 /\ Front(s)[1] = s[1]
    BY <1>2
  <1>4. QED
    BY <1>2, <1>3

\* The condition on "*" cannot be dropped: "*:*" covers "*" and "*" covers
\* every scope, but "*:*" covers no scope that begins with another segment.
\* A chain "*:*", "*", "a" therefore passes between neighbours.
THEOREM InnerWildcardBreaksTransitivity ==
  ASSUME NEW a, a # Star
  PROVE  /\ ScopeCovers(<<Star, Star>>, <<Star>>)
         /\ ScopeCovers(<<Star>>, <<a>>)
         /\ ~ ScopeCovers(<<Star, Star>>, <<a>>)
  <1> DEFINE S == {Star, a}
             ss == <<Star, Star>>
  <1>1. ss \in Seq(S) /\ <<Star>> \in Seq(S) /\ <<a>> \in Seq(S)
    OBVIOUS
  <1>2. Len(ss) = 2 /\ ss[1] = Star /\ ss[2] = Star
    OBVIOUS
  <1>3. Front(ss) = <<Star>>
    <2> HIDE DEF S, ss
    <2>1. QED
      BY <1>1, <1>2, FrontOfPair
  <1>4. EndsInWildcard(ss)
    BY <1>2 DEF EndsInWildcard, Last
  <1>5. ScopeCovers(ss, <<Star>>) /\ ScopeCovers(<<Star>>, <<a>>)
    BY <1>3, <1>4 DEF ScopeCovers, WithoutWildcard
  <1>6. ~ IsPrefix(ss, <<a>>)
    <2>1. ~ (Len(ss) <= Len(<<a>>))
      BY <1>2
    <2> HIDE DEF ss
    <2>2. QED
      BY <1>1, <2>1, PrefixByPlace
  <1>7. ~ IsPrefix(<<Star>>, <<a>>)
    <2>1. <<Star>>[1] # <<a>>[1] /\ Len(<<Star>>) > 0
      OBVIOUS
    <2> HIDE DEF S
    <2>2. QED
      BY <1>1, <2>1, PrefixSharesHead
  <1>8. ss # <<Star>>
    OBVIOUS
  <1>9. QED
    <2> HIDE DEF ss
    <2>1. ~ ScopeCovers(ss, <<a>>)
      BY <1>1, <1>3, <1>6, <1>7, <1>8, CoversIsPrefix
    <2>2. QED
      BY <1>5, <2>1 DEF ss

-----------------------------------------------------------------------------
\* Chains.

\* The type of a link's fields.
LEMMA LinkFields ==
  ASSUME NEW c \in Seq(Delegation), NEW k \in 1..Len(c)
  PROVE  /\ c[k] \in Delegation
         /\ c[k].spendLimit \in Amount
         /\ c[k].spendLimitUnit \in Units \cup {None}
         /\ c[k].maxDepth \in Depth
         /\ c[k].currentDepth \in Depth
         /\ c[k].expiresAt \in Timestamp
         /\ c[k].notBefore \in Timestamp
         /\ c[k].scope \in SUBSET Scopes
         /\ StatedSpendUnit(c[k]) \in Units \cup {None}
         /\ DepthOf(c[k]) \in GoInt
  <1>1. c[k] \in Delegation
    OBVIOUS
  <1>2. 0 \in GoInt
    BY FieldAssumption DEF GoInt, MinInt
  <1>3. QED
    BY <1>1, <1>2, FieldAssumption
       DEF Delegation, StatedSpendUnit, DepthOf, Depth

\* The conditions under which narrow returns no error, without their order.
NarrowAccepts(b, d) ==
  /\ \/ b.spendUnit = None
     \/ StatedSpendUnit(d) = None
     \/ StatedSpendUnit(d) = b.spendUnit
  /\ d.spendLimit # NonFinite
  /\ ~Above(d.spendLimit, b.spendLimit)
  /\ ~Above(d.maxDepth, b.maxDepth)
  /\ d.notBefore # Unparseable
  /\ ~Below(d.notBefore, b.notBefore)

\* The order of narrow's early returns does not matter to whether it accepts.
LEMMA NarrowAcceptsUnlessViolated ==
  ASSUME NEW b, NEW d
  PROVE  NarrowViolation(b, d) = "none" <=> NarrowAccepts(b, d)
  BY DEF NarrowViolation, NarrowAccepts

\* The root passes its checks exactly when it narrows on its own.
LEMMA RootNarrows ==
  ASSUME NEW c \in Seq(Delegation), c # << >>
  PROVE  RootViolation(NoBound, c[1]) = "none" <=> Narrows(c, 1)
  <1>1. 1 \in 1..Len(c)
    OBVIOUS
  <1>2. /\ c[1].spendLimit \in Amount /\ c[1].maxDepth \in Depth
        /\ c[1].currentDepth \in Depth /\ c[1].notBefore \in Timestamp
        /\ DepthOf(c[1]) \in GoInt
    BY <1>1, LinkFields
  <1>3. NarrowViolation(NoBound, c[1]) = "none"
          <=> c[1].spendLimit # NonFinite /\ c[1].notBefore # Unparseable
    BY DEF NarrowViolation, NoBound, Above, Below
  <1>4. Narrow(NoBound, c[1]).maxDepth = c[1].maxDepth
    BY DEF Narrow, NoBound
  <1>5. RootViolation(NoBound, c[1]) = "none" <=>
          /\ NarrowViolation(NoBound, c[1]) = "none"
          /\ ~BelowDepthFloor(c[1])
          /\ ~Above(DepthOf(c[1]), c[1].maxDepth)
    BY <1>4 DEF RootViolation
  <1>6. (~BelowDepthFloor(c[1]) /\ ~Above(DepthOf(c[1]), c[1].maxDepth))
          <=> DepthCountsHops(c, 1)
    BY <1>2, FieldAssumption
       DEF BelowDepthFloor, Above, DepthCountsHops, DepthOf, Depth, GoInt, MinInt
  <1>7. Readable(c, 1) <=> c[1].spendLimit # NonFinite
                           /\ c[1].notBefore # Unparseable
    BY DEF Readable
  <1>8. /\ Linked(c, 1) /\ UnitKept(c, 1) /\ SpendNarrows(c, 1)
        /\ MaxDepthNarrows(c, 1) /\ ActivationNarrows(c, 1)
        /\ ExpiryNarrows(c, 1) /\ ScopeNarrows(c, 1)
    BY DEF Linked, UnitKept, SpendNarrows, MaxDepthNarrows,
           ActivationNarrows, ExpiryNarrows, ScopeNarrows
  <1>9. QED
    BY <1>3, <1>5, <1>6, <1>7, <1>8 DEF Narrows
\* A value compared with the least one stated is compared with all of them.
LEMMA LeastDecides ==
  ASSUME NEW n \in Nat, NEW s \in [1..n -> Int \cup {None}],
         NEW b \in Int \cup {None}, NEW v \in Int \cup {None},
         LeastStated(b, s, n)
  PROVE  ~Above(v, b) <=>
           \A j \in 1..n : s[j] = None \/ v = None \/ v <= s[j]
  BY FieldAssumption DEF LeastStated, Above

\* The greatest stated value decides whether a new one lies above all of them.
LEMMA GreatestDecides ==
  ASSUME NEW n \in Nat, NEW s \in [1..n -> Int \cup {None}],
         NEW b \in Int \cup {None}, NEW v \in Int \cup {None},
         GreatestStated(b, s, n)
  PROVE  ~Below(v, b) <=>
           \A j \in 1..n : s[j] = None \/ v = None \/ s[j] <= v
  BY FieldAssumption DEF GreatestStated, Below

\* One more link: the least stated value after a link that did not exceed it.
LEMMA LeastExtends ==
  ASSUME NEW n \in Nat, NEW s \in [1..n -> Int \cup {None}],
         NEW t \in [1..n+1 -> Int \cup {None}],
         \A k \in 1..n : t[k] = s[k],
         NEW b \in Int \cup {None}, LeastStated(b, s, n)
  PROVE  LeastStated(IF b = None \/ Below(t[n+1], b) THEN t[n+1] ELSE b,
                     t, n + 1)
  BY FieldAssumption DEF LeastStated, Below

\* Carrying a value at or above the greatest gives the greatest of one more.
LEMMA GreatestExtends ==
  ASSUME NEW n \in Nat, NEW s \in [1..n -> Int \cup {None}],
         NEW t \in [1..n+1 -> Int \cup {None}],
         \A k \in 1..n : t[k] = s[k],
         NEW b \in Int \cup {None}, GreatestStated(b, s, n),
         ~Below(t[n+1], b)
  PROVE  GreatestStated(IF t[n+1] # None THEN t[n+1] ELSE b, t, n + 1)
  BY FieldAssumption DEF GreatestStated, Below

\* A link passes the body of the loop, under the effective ceiling of links
\* that narrow, exactly when the chain narrows up to and including it.
LEMMA LinkNarrows ==
  ASSUME NEW c \in Seq(Delegation), NEW n \in 1..Len(c) - 1,
         NEW b \in EffectiveBound, CeilingOf(b, c, n), Narrows(c, n)
  PROVE  LinkViolation(b, c[n], c[n+1]) = "none" <=> Narrows(c, n + 1)
  <1> DEFINE d == c[n+1]
  <1>0. n \in Nat /\ n + 1 \in 1..Len(c) /\ n \in 1..Len(c)
    OBVIOUS
  <1>1. \A k \in 1..n+1 :
          /\ c[k].spendLimit \in Amount /\ c[k].maxDepth \in Depth
          /\ c[k].expiresAt \in Timestamp /\ c[k].notBefore \in Timestamp
          /\ c[k].currentDepth \in Depth /\ DepthOf(c[k]) \in GoInt
          /\ StatedSpendUnit(c[k]) \in Units \cup {None}
    BY <1>0, LinkFields
  <1>2. /\ b.spendLimit \in Int \cup {None} /\ b.maxDepth \in Int \cup {None}
        /\ b.notBefore \in Int \cup {None} /\ b.spendUnit \in Units \cup {None}
    BY DEF EffectiveBound, GoInt
  <1>3. \A k \in 1..n : /\ c[k].spendLimit \in Int \cup {None}
                        /\ c[k].notBefore \in Int \cup {None}
                        /\ c[k].maxDepth \in Int \cup {None}
    BY <1>1 DEF Narrows, Readable, Amount, Timestamp, Depth, GoInt
  <1>4. LinkViolation(b, c[n], d) = "none" <=>
          /\ d.delegatedBy = c[n].delegatedTo
          /\ NarrowViolation(b, d) = "none"
          /\ DepthOf(d) = Increment(DepthOf(c[n]))
          /\ ~BelowDepthFloor(d)
          /\ ~Above(DepthOf(d), Narrow(b, d).maxDepth)
          /\ ScopesCover(c[n].scope, d.scope)
          /\ ExpiryViolation(c[n], d) = "none"
    BY DEF LinkViolation
  <1>5. NarrowViolation(b, d) = "none" <=> NarrowAccepts(b, d)
    BY NarrowAcceptsUnlessViolated
  <1>6. Linked(c, n+1) <=> d.delegatedBy = c[n].delegatedTo
    BY DEF Narrows, Linked
  <1>7. ScopeNarrows(c, n+1) <=> ScopesCover(c[n].scope, d.scope)
    BY DEF Narrows, ScopeNarrows
  <1>8. Readable(c, n+1) <=> /\ d.spendLimit # NonFinite
                             /\ d.notBefore # Unparseable
                             /\ c[n].expiresAt # Unparseable
                             /\ d.expiresAt # Unparseable
    BY DEF Narrows, Readable
  <1>9. UnitKept(c, n+1) <=> \/ b.spendUnit = None
                             \/ StatedSpendUnit(d) = None
                             \/ StatedSpendUnit(d) = b.spendUnit
    <2>1. UnitKept(c, n+1) => \A k \in 1..n : \/ StatedSpendUnit(c[k]) = None
                                              \/ StatedSpendUnit(d) = None
                                              \/ StatedSpendUnit(c[k])
                                                   = StatedSpendUnit(d)
      BY <1>0 DEF UnitKept
    <2>2. b.spendUnit # None =>
            \E k \in 1..n : StatedSpendUnit(c[k]) = b.spendUnit
      BY DEF CeilingOf
    <2>3. ASSUME \/ b.spendUnit = None
                 \/ StatedSpendUnit(d) = None
                 \/ StatedSpendUnit(d) = b.spendUnit
          PROVE  UnitKept(c, n+1)
      <3>1. \A k \in 1..n : StatedSpendUnit(c[k]) \in {None, b.spendUnit}
        BY DEF CeilingOf
      <3>2. \A j, k \in 1..n+1 :
              j = k \/ j = n + 1 \/ k = n + 1 \/ (j \in 1..n /\ k \in 1..n)
        OBVIOUS
      <3>3. QED
        BY <1>0, <2>3, <3>1, <3>2 DEF UnitKept
    <2>4. QED
      BY <2>1, <2>2, <2>3
  <1>10. ASSUME d.spendLimit # NonFinite
         PROVE  SpendNarrows(c, n+1) <=> ~Above(d.spendLimit, b.spendLimit)
    <2>1. d.spendLimit \in Int \cup {None}
      BY <1>1, <1>10 DEF Amount
    <2>2. ~Above(d.spendLimit, b.spendLimit) <=>
            \A j \in 1..n : \/ c[j].spendLimit = None
                            \/ d.spendLimit = None
                            \/ d.spendLimit <= c[j].spendLimit
      <3> DEFINE s == [k \in 1..n |-> c[k].spendLimit]
      <3>1. s \in [1..n -> Int \cup {None}]
        BY <1>3
      <3>2. LeastStated(b.spendLimit, s, n)
        BY DEF CeilingOf
      <3>3. ~Above(d.spendLimit, b.spendLimit) <=>
            \A j \in 1..n : \/ s[j] = None
                            \/ d.spendLimit = None
                            \/ d.spendLimit <= s[j]
        <4> HIDE DEF s, d
        <4> QED BY <1>0, <1>2, <2>1, <3>1, <3>2, LeastDecides
      <3>4. QED
        BY <3>3
    <2>3. SpendNarrows(c, n+1) =>
            \A j \in 1..n : \/ c[j].spendLimit = None
                            \/ d.spendLimit = None
                            \/ d.spendLimit <= c[j].spendLimit
      <3>1. \A j \in 1..n : j \in 1..n+1 /\ n + 1 \in 1..n+1 /\ ~(j >= n + 1)
        BY <1>0
      <3>2. QED
        BY <3>1 DEF SpendNarrows
    <2>4. (\A j \in 1..n : \/ c[j].spendLimit = None
                           \/ d.spendLimit = None
                           \/ d.spendLimit <= c[j].spendLimit) => SpendNarrows(c, n+1)
      BY <1>0 DEF Narrows, SpendNarrows
    <2>5. QED
      BY <2>2, <2>3, <2>4
  <1>11. MaxDepthNarrows(c, n+1) <=> ~Above(d.maxDepth, b.maxDepth)
    <2>1. d.maxDepth \in Int \cup {None}
      BY <1>1 DEF Depth, GoInt
    <2>2. ~Above(d.maxDepth, b.maxDepth) <=>
            \A j \in 1..n : \/ c[j].maxDepth = None
                            \/ d.maxDepth = None
                            \/ d.maxDepth <= c[j].maxDepth
      <3> DEFINE s == [k \in 1..n |-> c[k].maxDepth]
      <3>1. s \in [1..n -> Int \cup {None}]
        BY <1>3
      <3>2. LeastStated(b.maxDepth, s, n)
        BY DEF CeilingOf
      <3>3. ~Above(d.maxDepth, b.maxDepth) <=>
            \A j \in 1..n : \/ s[j] = None
                            \/ d.maxDepth = None
                            \/ d.maxDepth <= s[j]
        <4> HIDE DEF s, d
        <4> QED BY <1>0, <1>2, <2>1, <3>1, <3>2, LeastDecides
      <3>4. QED
        BY <3>3
    <2>3. MaxDepthNarrows(c, n+1) =>
            \A j \in 1..n : \/ c[j].maxDepth = None
                            \/ d.maxDepth = None
                            \/ d.maxDepth <= c[j].maxDepth
      <3>1. \A j \in 1..n : j \in 1..n+1 /\ n + 1 \in 1..n+1 /\ ~(j >= n + 1)
        BY <1>0
      <3>2. QED
        BY <3>1 DEF MaxDepthNarrows
    <2>4. (\A j \in 1..n : \/ c[j].maxDepth = None
                           \/ d.maxDepth = None
                           \/ d.maxDepth <= c[j].maxDepth) => MaxDepthNarrows(c, n+1)
      <3>1. MaxDepthNarrows(c, n)
        BY DEF Narrows
      <3>2. \A j, k \in 1..n+1 :
              j >= k \/ (j \in 1..n /\ k = n + 1) \/ (j \in 1..n /\ k \in 1..n)
        BY <1>0
      <3>3. QED
        BY <3>1, <3>2 DEF MaxDepthNarrows
    <2>5. QED
      BY <2>2, <2>3, <2>4
  <1>12. ASSUME d.notBefore # Unparseable
         PROVE  ActivationNarrows(c, n+1) <=> ~Below(d.notBefore, b.notBefore)
    <2>1. d.notBefore \in Int \cup {None}
      BY <1>1, <1>12 DEF Timestamp
    <2>2. ~Below(d.notBefore, b.notBefore) <=>
            \A j \in 1..n : \/ c[j].notBefore = None
                            \/ d.notBefore = None
                            \/ c[j].notBefore <= d.notBefore
      <3> DEFINE s == [k \in 1..n |-> c[k].notBefore]
      <3>1. s \in [1..n -> Int \cup {None}]
        BY <1>3
      <3>2. GreatestStated(b.notBefore, s, n)
        BY DEF CeilingOf
      <3>3. ~Below(d.notBefore, b.notBefore) <=>
            \A j \in 1..n : \/ s[j] = None
                            \/ d.notBefore = None
                            \/ s[j] <= d.notBefore
        <4> HIDE DEF s, d
        <4> QED BY <1>0, <1>2, <2>1, <3>1, <3>2, GreatestDecides
      <3>4. QED
        BY <3>3
    <2>3. QED
      BY <2>2 DEF Narrows, ActivationNarrows
  <1>13. ASSUME Readable(c, n+1)
         PROVE  ExpiryNarrows(c, n+1) <=> ExpiryViolation(c[n], d) = "none"
    <2>1. \A k \in 1..n+1 : c[k].expiresAt \in Int \cup {None}
      BY <1>1, <1>13, <1>0 DEF Readable, Timestamp
    <2>2. ExpiryViolation(c[n], d) = "none" <=>
            \/ c[n].expiresAt = None
            \/ d.expiresAt # None /\ d.expiresAt <= c[n].expiresAt
      BY <2>1, <1>0, <1>13, FieldAssumption
         DEF ExpiryViolation, Above, Readable
    <2>3. ExpiryNarrows(c, n)
      BY DEF Narrows
    <2>4. ExpiryNarrows(c, n+1) =>
            \/ c[n].expiresAt = None
            \/ d.expiresAt # None /\ d.expiresAt <= c[n].expiresAt
      BY <1>0 DEF ExpiryNarrows
    <2>5. ASSUME \/ c[n].expiresAt = None
                 \/ d.expiresAt # None /\ d.expiresAt <= c[n].expiresAt
          PROVE  ExpiryNarrows(c, n+1)
      <3>1. \A j \in 1..n : \/ c[j].expiresAt = None
                            \/ d.expiresAt # None
                               /\ d.expiresAt <= c[j].expiresAt
        <4> SUFFICES ASSUME NEW j \in 1..n, c[j].expiresAt # None
                     PROVE  /\ d.expiresAt # None
                            /\ d.expiresAt <= c[j].expiresAt
          OBVIOUS
        <4>1. CASE j = n
          BY <4>1, <2>5
        <4>2. CASE j < n
          <5>1. c[n].expiresAt # None /\ c[n].expiresAt <= c[j].expiresAt
            BY <4>2, <2>3 DEF ExpiryNarrows
          <5>2. /\ c[n].expiresAt \in Int /\ c[j].expiresAt \in Int
                /\ d.expiresAt \in Int \cup {None}
            BY <5>1, <2>1, <1>0
          <5>3. QED
            BY <5>1, <5>2, <2>5
        <4>3. QED
          BY <4>1, <4>2
      <3>2. QED
        BY <3>1, <2>3 DEF ExpiryNarrows
    <2>6. QED
      BY <2>2, <2>4, <2>5
  <1>14. ASSUME MaxDepthNarrows(c, n+1)
         PROVE  DepthCountsHops(c, n+1) <=>
                  /\ DepthOf(d) = Increment(DepthOf(c[n]))
                  /\ ~BelowDepthFloor(d)
                  /\ ~Above(DepthOf(d), Narrow(b, d).maxDepth)
    <2>1. /\ DepthOf(d) \in GoInt /\ d.maxDepth \in Depth
          /\ DepthOf(c[n]) \in GoInt /\ DepthOf(c[1]) \in GoInt
      BY <1>0, <1>1
    <2>2. ~BelowDepthFloor(d) <=> /\ DepthOf(d) >= 0
                                  /\ d.maxDepth = None \/ d.maxDepth >= 0
      BY <1>0, <1>1, FieldAssumption
         DEF BelowDepthFloor, DepthOf, Depth, GoInt, MinInt
    <2>3. DepthCountsHops(c, n)
      BY DEF Narrows
    <2>4. DepthOf(d) >= 0 =>
            (DepthOf(d) = Increment(DepthOf(c[n])) <=>
             DepthOf(d) = DepthOf(c[1]) + n)
      BY <2>1, <2>3, <1>0, FieldAssumption
         DEF DepthCountsHops, Increment, GoInt, MinInt
    <2>5. ~Above(DepthOf(d), Narrow(b, d).maxDepth) <=>
            \A j \in 1..n+1 : c[j].maxDepth = None
                              \/ DepthOf(d) <= c[j].maxDepth
      <3> DEFINE s == [k \in 1..n |-> c[k].maxDepth]
                 t == [k \in 1..n+1 |-> c[k].maxDepth]
                 m == IF b.maxDepth = None \/ Below(t[n+1], b.maxDepth)
                      THEN t[n+1] ELSE b.maxDepth
      <3>1. s \in [1..n -> Int \cup {None}] /\ t \in [1..n+1 -> Int \cup {None}]
        BY <1>1, <1>3 DEF Depth, GoInt
      <3>2. LeastStated(b.maxDepth, s, n) /\ \A k \in 1..n : t[k] = s[k]
        BY DEF CeilingOf
      <3>3. LeastStated(m, t, n + 1)
        <4> HIDE DEF s, t
        <4> QED BY <1>0, <1>2, <3>1, <3>2, LeastExtends
      <3>4. m = Narrow(b, d).maxDepth /\ m \in Int \cup {None}
        BY <1>0, <1>2, <3>1 DEF Narrow
      <3>5. DepthOf(d) \in Int \cup {None} /\ DepthOf(d) # None
        BY <2>1, FieldAssumption DEF GoInt, MinInt
      <3>6. ~Above(DepthOf(d), m) <=>
              \A j \in 1..n+1 : t[j] = None \/ DepthOf(d) = None
                                \/ DepthOf(d) <= t[j]
        <4> DEFINE v == DepthOf(d)
        <4>1. n + 1 \in Nat /\ v \in Int \cup {None}
          BY <1>0, <3>5
        <4>2. m \in Int \cup {None} /\ t \in [1..n+1 -> Int \cup {None}]
          BY <3>1, <3>4
        <4>3. ~Above(v, m) <=>
                \A j \in 1..n+1 : t[j] = None \/ v = None \/ v <= t[j]
          <5> HIDE DEF t, m, v
          <5> QED BY <4>1, <4>2, <3>3, LeastDecides, Zenon
        <4>4. QED
          BY <4>3
      <3>7. QED
        BY <3>4, <3>5, <3>6
    <2>6. DepthCountsHops(c, n+1) <=>
            /\ DepthOf(d) >= 0
            /\ DepthOf(d) = DepthOf(c[1]) + n
            /\ d.maxDepth = None \/ d.maxDepth >= 0
            /\ \A j \in 1..n+1 : c[j].maxDepth = None
                                 \/ DepthOf(d) <= c[j].maxDepth
      <3>1. \A k \in 1..n+1 : k \in 1..n \/ k = n + 1
        BY <1>0
      <3>2. n + 1 \in 1..n+1 /\ \A k \in 1..n : k \in 1..n+1
        BY <1>0
      <3>3. (\A k \in 1..n+1 : DepthOf(c[k]) >= 0) <=> DepthOf(d) >= 0
        BY <2>3, <3>1, <3>2 DEF DepthCountsHops
      <3>4. (\A k \in 1..n+1 : DepthOf(c[k]) = DepthOf(c[1]) + k - 1)
              <=> DepthOf(d) = DepthOf(c[1]) + n
        <4>1. DepthOf(c[1]) \in Int
          BY <2>1, FieldAssumption DEF GoInt, MinInt
        <4>2. DepthOf(c[1]) + (n + 1) - 1 = DepthOf(c[1]) + n
          BY <1>0, <4>1
        <4>3. QED
          BY <2>3, <3>1, <3>2, <4>2 DEF DepthCountsHops
      <3>5. (\A j, k \in 1..n+1 :
               \/ j > k
               \/ c[j].maxDepth = None
               \/ c[j].maxDepth >= 0 /\ DepthOf(c[k]) <= c[j].maxDepth)
            <=> /\ d.maxDepth = None \/ d.maxDepth >= 0
                /\ \A j \in 1..n+1 : c[j].maxDepth = None
                                     \/ DepthOf(d) <= c[j].maxDepth
        <4>1. \A j \in 1..n : c[j].maxDepth = None \/ c[j].maxDepth >= 0
          BY <2>3, <1>0 DEF DepthCountsHops
        <4>2. \A j \in 1..n : ~(j > n + 1) /\ n + 1 > j
          BY <1>0
        <4>3. ~(n + 1 > n + 1)
          BY <1>0
        <4>4. QED
          BY <2>3, <3>1, <3>2, <4>1, <4>2, <4>3 DEF DepthCountsHops
      <3>6. QED
        BY <3>3, <3>4, <3>5 DEF DepthCountsHops
    <2>7. QED
      BY <2>2, <2>4, <2>5, <2>6
  <1>15. QED
    BY <1>4, <1>5, <1>6, <1>7, <1>8, <1>9, <1>10, <1>11, <1>12, <1>13, <1>14
       DEF Narrows, ExpiryViolation, NarrowAccepts

\* Folding one more link into an effective ceiling gives the effective ceiling
\* of one more link.
LEMMA CeilingExtends ==
  ASSUME NEW c \in Seq(Delegation), NEW n \in 0..Len(c) - 1,
         NEW b \in EffectiveBound, CeilingOf(b, c, n), Narrows(c, n),
         NarrowAccepts(b, c[n+1])
  PROVE  /\ Narrow(b, c[n+1]) \in EffectiveBound
         /\ CeilingOf(Narrow(b, c[n+1]), c, n + 1)
  <1> DEFINE d == c[n+1]
             e == Narrow(b, d)
  <1>0. n \in Nat /\ n + 1 \in 1..Len(c)
    OBVIOUS
  <1>1. \A k \in 1..n+1 :
          /\ c[k].spendLimit \in Amount /\ c[k].maxDepth \in Depth
          /\ c[k].notBefore \in Timestamp
          /\ StatedSpendUnit(c[k]) \in Units \cup {None}
    BY <1>0, LinkFields
  <1>2. /\ b.spendLimit \in Int \cup {None} /\ b.maxDepth \in Int \cup {None}
        /\ b.maxDepth \in Depth
        /\ b.notBefore \in Int \cup {None} /\ b.spendUnit \in Units \cup {None}
    BY DEF EffectiveBound, GoInt, Depth
  <1>3. /\ d.spendLimit # NonFinite /\ d.notBefore # Unparseable
        /\ ~Below(d.notBefore, b.notBefore)
        /\ \/ b.spendUnit = None
           \/ StatedSpendUnit(d) = None
           \/ StatedSpendUnit(d) = b.spendUnit
    BY DEF NarrowAccepts
  <1>4. \A k \in 1..n+1 : /\ c[k].spendLimit \in Int \cup {None}
                          /\ c[k].notBefore \in Int \cup {None}
                          /\ c[k].maxDepth \in Int \cup {None}
    <2>1. \A k \in 1..n : c[k].spendLimit # NonFinite
                          /\ c[k].notBefore # Unparseable
      BY DEF Narrows, Readable
    <2>2. \A k \in 1..n+1 : c[k].spendLimit # NonFinite
                            /\ c[k].notBefore # Unparseable
      BY <1>0, <1>3, <2>1
    <2>3. QED
      BY <1>1, <2>2 DEF Amount, Timestamp, Depth, GoInt
  <1>5. e \in EffectiveBound
    BY <1>0, <1>1, <1>2, <1>4 DEF Narrow, EffectiveBound, Depth
  <1>6. LeastStated(e.spendLimit, [k \in 1..n+1 |-> c[k].spendLimit], n + 1)
    <2> DEFINE s == [k \in 1..n |-> c[k].spendLimit]
               t == [k \in 1..n+1 |-> c[k].spendLimit]
    <2>1. /\ s \in [1..n -> Int \cup {None}] /\ t \in [1..n+1 -> Int \cup {None}]
          /\ \A k \in 1..n : t[k] = s[k]
          /\ LeastStated(b.spendLimit, s, n)
      BY <1>4 DEF CeilingOf
    <2>2. e.spendLimit = IF b.spendLimit = None \/ Below(t[n+1], b.spendLimit)
                         THEN t[n+1] ELSE b.spendLimit
      BY <1>0 DEF Narrow
    <2>3. LeastStated(e.spendLimit, t, n + 1)
      <3> HIDE DEF s, t, e
      <3> QED BY <1>0, <1>2, <2>1, <2>2, LeastExtends
    <2>4. QED
      BY <2>3
  <1>7. LeastStated(e.maxDepth, [k \in 1..n+1 |-> c[k].maxDepth], n + 1)
    <2> DEFINE s == [k \in 1..n |-> c[k].maxDepth]
               t == [k \in 1..n+1 |-> c[k].maxDepth]
    <2>1. /\ s \in [1..n -> Int \cup {None}] /\ t \in [1..n+1 -> Int \cup {None}]
          /\ \A k \in 1..n : t[k] = s[k]
          /\ LeastStated(b.maxDepth, s, n)
      BY <1>4 DEF CeilingOf
    <2>2. e.maxDepth = IF b.maxDepth = None \/ Below(t[n+1], b.maxDepth)
                       THEN t[n+1] ELSE b.maxDepth
      BY <1>0 DEF Narrow
    <2>3. LeastStated(e.maxDepth, t, n + 1)
      <3> HIDE DEF s, t, e
      <3> QED BY <1>0, <1>2, <2>1, <2>2, LeastExtends
    <2>4. QED
      BY <2>3
  <1>8. GreatestStated(e.notBefore, [k \in 1..n+1 |-> c[k].notBefore], n + 1)
    <2> DEFINE s == [k \in 1..n |-> c[k].notBefore]
               t == [k \in 1..n+1 |-> c[k].notBefore]
    <2>1. /\ s \in [1..n -> Int \cup {None}] /\ t \in [1..n+1 -> Int \cup {None}]
          /\ \A k \in 1..n : t[k] = s[k]
          /\ GreatestStated(b.notBefore, s, n)
      BY <1>4 DEF CeilingOf
    <2>2. /\ e.notBefore = IF t[n+1] # None THEN t[n+1] ELSE b.notBefore
          /\ ~Below(t[n+1], b.notBefore)
      BY <1>0, <1>3 DEF Narrow
    <2>3. GreatestStated(e.notBefore, t, n + 1)
      <3> HIDE DEF s, t, e
      <3> QED BY <1>0, <1>2, <2>1, <2>2, GreatestExtends
    <2>4. QED
      BY <2>3
  <1>9. /\ \A k \in 1..n+1 : StatedSpendUnit(c[k]) \in {None, e.spendUnit}
        /\ e.spendUnit # None =>
             \E k \in 1..n+1 : StatedSpendUnit(c[k]) = e.spendUnit
    <2>1. /\ \A k \in 1..n : StatedSpendUnit(c[k]) \in {None, b.spendUnit}
          /\ b.spendUnit # None =>
               \E k \in 1..n : StatedSpendUnit(c[k]) = b.spendUnit
      BY DEF CeilingOf
    <2>2. e.spendUnit = IF b.spendUnit = None THEN StatedSpendUnit(d)
                        ELSE b.spendUnit
      BY DEF Narrow
    <2>3. \A k \in 1..n+1 : k \in 1..n \/ k = n + 1
      BY <1>0
    <2>4. \A k \in 1..n+1 : StatedSpendUnit(c[k]) \in {None, e.spendUnit}
      BY <1>3, <2>1, <2>2, <2>3
    <2>5. ASSUME e.spendUnit # None
          PROVE  \E k \in 1..n+1 : StatedSpendUnit(c[k]) = e.spendUnit
      <3>1. CASE b.spendUnit = None
        BY <1>0, <2>2, <3>1
      <3>2. CASE b.spendUnit # None
        <4>1. PICK k \in 1..n : StatedSpendUnit(c[k]) = b.spendUnit
          BY <3>2, <2>1
        <4>2. k \in 1..n+1
          BY <1>0
        <4>3. QED
          BY <3>2, <2>2, <4>1, <4>2
      <3>3. QED
        BY <3>1, <3>2
    <2>6. QED
      BY <2>4, <2>5
  <1>10. QED
    BY <1>5, <1>6, <1>7, <1>8, <1>9 DEF CeilingOf

\* What narrows narrows on every shorter prefix.
LEMMA PrefixNarrows ==
  ASSUME NEW c \in Seq(Delegation), NEW m \in Nat, NEW n \in Nat, n <= m,
         Narrows(c, m)
  PROVE  Narrows(c, n)
  <1>1. \A k \in 1..n : k \in 1..m
    OBVIOUS
  <1>2. \A k \in 2..n : k \in 2..m
    OBVIOUS
  <1>3. Linked(c, n) /\ ScopeNarrows(c, n)
    BY <1>2 DEF Narrows, Linked, ScopeNarrows
  <1>4. Readable(c, n)
    BY <1>1 DEF Narrows, Readable
  <1>5. UnitKept(c, n) /\ SpendNarrows(c, n) /\ MaxDepthNarrows(c, n)
    BY <1>1 DEF Narrows, UnitKept, SpendNarrows, MaxDepthNarrows
  <1>6. ActivationNarrows(c, n) /\ ExpiryNarrows(c, n)
    BY <1>1 DEF Narrows, ActivationNarrows, ExpiryNarrows
  <1>7. DepthCountsHops(c, n)
    BY <1>1 DEF Narrows, DepthCountsHops
  <1>8. QED
    BY <1>3, <1>4, <1>5, <1>6, <1>7 DEF Narrows

-----------------------------------------------------------------------------
\* An answer is the policy's answer.
ExactAnswer ==
  /\ verdict = "ok" => Narrowing(chain)
  /\ verdict \in Violations => ~Narrowing(chain)

\* The inductive invariant of the loop.
IInv == TypeOK /\ EffectiveCeiling /\ ExactAnswer

\* Violations are told apart from the other two values of verdict and from the
\* absence of one.
LEMMA VerdictsDiffer ==
  /\ "checking" \notin Violations /\ "ok" \notin Violations
  /\ "none" \notin Violations /\ "ok" # "checking"
  BY DEF Violations

\* The checks on the root return a violation the code names.
LEMMA RootReturns ==
  ASSUME NEW b, NEW d PROVE RootViolation(b, d) \in Violations \cup {"none"}
  BY DEF RootViolation, NarrowViolation, Violations

\* The checks on a later link return a violation the code names.
LEMMA LinkReturns ==
  ASSUME NEW b, NEW d, NEW e PROVE LinkViolation(b, d, e) \in Violations \cup {"none"}
  BY DEF LinkViolation, NarrowViolation, ExpiryViolation, Violations

\* The loop starts in the invariant.
LEMMA InitInvariant == Init => IInv
  <1> SUFFICES ASSUME Init PROVE IInv
    OBVIOUS
  <1>1. chain \in Seq(Delegation) /\ next = 1 /\ bound = NoBound
        /\ verdict = "checking"
    BY ChainAssumption DEF Init
  <1>2. TypeOK
    BY <1>1 DEF TypeOK, NoBound, EffectiveBound
  <1>3. CeilingOf(bound, chain, 0)
    BY <1>1 DEF CeilingOf, LeastStated, GreatestStated, NoBound
  <1>4. Narrows(chain, 0)
    BY DEF Narrows, Linked, Readable, UnitKept, SpendNarrows, MaxDepthNarrows,
           ActivationNarrows, ExpiryNarrows, DepthCountsHops, ScopeNarrows
  <1>5. QED
    BY <1>1, <1>2, <1>3, <1>4, VerdictsDiffer DEF IInv, EffectiveCeiling, ExactAnswer

\* The work on one link, whichever it is: n links are checked, and violation
\* says exactly whether link n + 1 lets the chain narrow further.
LEMMA JudgeInvariant ==
  ASSUME IInv, verdict = "checking",
         NEW n \in 0..Len(chain) - 1, next = n + 1,
         NEW violation \in Violations \cup {"none"},
         violation = "none" <=> Narrows(chain, n + 1),
         violation = "none" => NarrowAccepts(bound, chain[n+1]),
         Judge(violation, Narrow(bound, chain[n+1]))
  PROVE  IInv'
  <1>1. /\ chain \in Seq(Delegation) /\ bound \in EffectiveBound
        /\ CeilingOf(bound, chain, n) /\ Narrows(chain, n)
    BY DEF IInv, TypeOK, EffectiveCeiling
  <1>2. CASE violation = "none"
    <2>1. /\ next' = next + 1 /\ bound' = Narrow(bound, chain[n+1])
          /\ UNCHANGED <<chain, verdict>>
      BY <1>2, VerdictsDiffer DEF Judge
    <2>2. /\ bound' \in EffectiveBound
          /\ CeilingOf(bound', chain, n + 1)
      BY <1>1, <1>2, <2>1, CeilingExtends
    <2>3. TypeOK'
      BY <1>1, <2>1, <2>2 DEF IInv, TypeOK
    <2>4. EffectiveCeiling'
      BY <1>2, <2>1, <2>2 DEF EffectiveCeiling
    <2>5. QED
      BY <2>1, <2>3, <2>4, VerdictsDiffer DEF IInv, ExactAnswer
  <1>3. CASE violation # "none"
    <2>1. verdict' = violation /\ UNCHANGED <<chain, next, bound>>
      BY <1>3 DEF Judge
    <2>2. violation \in Violations /\ ~Narrows(chain, n + 1)
      BY <1>3
    <2>3. ~Narrowing(chain)
      BY <1>1, <2>2, PrefixNarrows DEF Narrowing
    <2>4. TypeOK'
      BY <2>1, <2>2 DEF IInv, TypeOK
    <2>5. QED
      BY <2>1, <2>2, <2>3, <2>4, VerdictsDiffer
         DEF IInv, EffectiveCeiling, ExactAnswer, Narrowing, Narrows
  <1>4. QED
    BY <1>2, <1>3

\* Before the first link the loop carries the zero ceiling.
LEMMA NoLinkNoBound ==
  ASSUME NEW b \in EffectiveBound, NEW c, CeilingOf(b, c, 0)
  PROVE  b = NoBound
  <1>1. /\ b.spendLimit = None /\ b.maxDepth = None /\ b.notBefore = None
        /\ b.spendUnit = None
    BY DEF CeilingOf, LeastStated, GreatestStated
  <1>2. QED
    BY <1>1 DEF EffectiveBound, NoBound

\* Every iteration preserves the invariant.
LEMMA NextInvariant == IInv /\ [Next]_vars => IInv'
  <1> SUFFICES ASSUME IInv, [Next]_vars PROVE IInv'
    OBVIOUS
  <1>0. chain \in Seq(Delegation) /\ bound \in EffectiveBound
        /\ next \in 1..Len(chain) + 1
    BY DEF IInv, TypeOK
  <1>1. CASE RefuseEmpty
    <2>1. /\ verdict' = "chain is empty" /\ verdict' \in Violations
          /\ UNCHANGED <<chain, next, bound>> /\ chain = << >>
      BY <1>1 DEF RefuseEmpty, Violations
    <2>2. QED
      BY <2>1, VerdictsDiffer
         DEF IInv, TypeOK, EffectiveCeiling, ExactAnswer, Narrowing
  <1>2. CASE CheckRoot
    <2>1. verdict = "checking" /\ chain # << >> /\ next = 0 + 1
          /\ Judge(RootViolation(bound, chain[1]), Narrow(bound, chain[1]))
      BY <1>2 DEF CheckRoot
    <2>2. bound = NoBound
      BY <1>0, <2>1, NoLinkNoBound DEF IInv, EffectiveCeiling
    <2>3. RootViolation(bound, chain[1]) = "none" <=> Narrows(chain, 0 + 1)
      BY <1>0, <2>1, <2>2, RootNarrows
    <2>4. RootViolation(bound, chain[1]) = "none" =>
            NarrowAccepts(bound, chain[0 + 1])
      BY NarrowAcceptsUnlessViolated DEF RootViolation
    <2>5. RootViolation(bound, chain[1]) \in Violations \cup {"none"}
      BY RootReturns
    <2>6. 0 \in 0..Len(chain) - 1 /\ 1 = 0 + 1
      BY <1>0, <2>1
    <2>7. QED
      BY <2>1, <2>3, <2>4, <2>5, <2>6, JudgeInvariant
  <1>3. CASE CheckLink
    <2> DEFINE n == next - 1
               v == LinkViolation(bound, chain[n], chain[n+1])
    <2>1. /\ verdict = "checking" /\ next \in 2..Len(chain)
          /\ Judge(LinkViolation(bound, chain[next-1], chain[next]),
                   Narrow(bound, chain[next]))
      BY <1>3 DEF CheckLink
    <2>2. n \in 1..Len(chain) - 1 /\ n \in 0..Len(chain) - 1 /\ next = n + 1
      BY <1>0, <2>1
    <2>3. CeilingOf(bound, chain, n) /\ Narrows(chain, n)
      BY <2>1 DEF IInv, EffectiveCeiling
    <2>4. v = "none" <=> Narrows(chain, n + 1)
      <3> HIDE DEF n
      <3> QED BY <1>0, <2>2, <2>3, LinkNarrows
    <2>5. v = "none" => NarrowAccepts(bound, chain[n+1])
      BY NarrowAcceptsUnlessViolated DEF LinkViolation
    <2>6. v \in Violations \cup {"none"}
      BY LinkReturns
    <2>7. Judge(v, Narrow(bound, chain[n+1]))
      BY <2>1, <2>2
    <2>8. QED
      <3> HIDE DEF n, v
      <3> QED BY <2>1, <2>2, <2>4, <2>5, <2>6, <2>7, JudgeInvariant
  <1>4. CASE Accept
    <2>1. /\ verdict = "checking" /\ chain # << >> /\ next = Len(chain) + 1
          /\ verdict' = "ok" /\ UNCHANGED <<chain, next, bound>>
      BY <1>4 DEF Accept
    <2>2. Narrows(chain, next - 1) /\ next - 1 = Len(chain)
      BY <1>0, <2>1 DEF IInv, EffectiveCeiling
    <2>3. Narrowing(chain)
      BY <2>1, <2>2 DEF Narrowing
    <2>4. QED
      BY <2>1, <2>3, VerdictsDiffer
         DEF IInv, TypeOK, EffectiveCeiling, ExactAnswer, Narrowing
  <1>5. CASE UNCHANGED vars
    BY <1>5 DEF vars, IInv, TypeOK, EffectiveCeiling, ExactAnswer
  <1>6. QED
    BY <1>1, <1>2, <1>3, <1>4, <1>5 DEF Next

\* The loop never leaves the chain, the ceiling it carries is a proper one and
\* it returns one of the errors the code has.
THEOREM TypeCorrect == Spec => []TypeOK
  <1>1. IInv => TypeOK
    BY DEF IInv
  <1>2. QED
    BY InitInvariant, NextInvariant, <1>1, PTL DEF Spec

\* The carried ceiling is the effective one after every link of every chain.
THEOREM CeilingIsEffective == Spec => []EffectiveCeiling
  <1>1. IInv => EffectiveCeiling
    BY DEF IInv
  <1>2. QED
    BY InitInvariant, NextInvariant, <1>1, PTL DEF Spec

\* A stated maxDepth bounds the length of every accepted chain.
THEOREM DepthBounds == Spec => []DepthBoundsLength
  <1>1. IInv => DepthBoundsLength
    <2> SUFFICES ASSUME IInv, verdict = "ok", NEW j \in 1..Len(chain),
                        chain[j].maxDepth # None
                 PROVE  Len(chain) <= chain[j].maxDepth + 1
      BY DEF DepthBoundsLength
    <2>1. chain \in Seq(Delegation) /\ Narrows(chain, Len(chain))
      BY DEF IInv, TypeOK, ExactAnswer, Narrowing
    <2>2. 1 \in 1..Len(chain) /\ Len(chain) \in 1..Len(chain)
      BY <2>1
    <2>3. /\ DepthOf(chain[1]) >= 0
          /\ DepthOf(chain[Len(chain)]) = DepthOf(chain[1]) + Len(chain) - 1
          /\ DepthOf(chain[Len(chain)]) <= chain[j].maxDepth
      BY <2>1, <2>2 DEF Narrows, DepthCountsHops
    <2>4. /\ DepthOf(chain[1]) \in Int /\ DepthOf(chain[Len(chain)]) \in Int
          /\ chain[j].maxDepth \in Int
      BY <2>1, <2>2, LinkFields DEF Depth, GoInt
    <2>5. QED
      BY <2>1, <2>3, <2>4
  <1>2. QED
    BY InitInvariant, NextInvariant, <1>1, PTL DEF Spec

\* The policy's notion of narrowing, read through its instance, is the same.
LEMMA SamePolicy == Policy!Narrowing(chain) <=> Narrowing(chain)
  <1> DEFINE n == Len(chain)
  <1>1. \A d : /\ Policy!StatedSpendUnit(d) = StatedSpendUnit(d)
               /\ Policy!DepthOf(d) = DepthOf(d)
    BY DEF Policy!StatedSpendUnit, StatedSpendUnit, Policy!DepthOf, DepthOf
  <1>2. \A g, r : Policy!ScopeCovers(g, r) <=> ScopeCovers(g, r)
    BY DEF Policy!ScopeCovers, ScopeCovers, Policy!EndsInWildcard,
           EndsInWildcard, Policy!WithoutWildcard, WithoutWildcard,
           Policy!Front, Front, Policy!Last, Last,
           Policy!IsStrictPrefix, IsStrictPrefix, Policy!IsPrefix, IsPrefix
  <1>3. Policy!ScopeNarrows(chain, n) <=> ScopeNarrows(chain, n)
    BY <1>2 DEF Policy!ScopeNarrows, ScopeNarrows, Policy!ScopesCover, ScopesCover
  <1>4. Policy!UnitKept(chain, n) <=> UnitKept(chain, n)
    BY <1>1 DEF Policy!UnitKept, UnitKept
  <1>5. Policy!DepthCountsHops(chain, n) <=> DepthCountsHops(chain, n)
    BY <1>1 DEF Policy!DepthCountsHops, DepthCountsHops
  <1>6. /\ Policy!Linked(chain, n) <=> Linked(chain, n)
        /\ Policy!Readable(chain, n) <=> Readable(chain, n)
    BY DEF Policy!Linked, Linked, Policy!Readable, Readable
  <1>7. /\ Policy!SpendNarrows(chain, n) <=> SpendNarrows(chain, n)
        /\ Policy!MaxDepthNarrows(chain, n) <=> MaxDepthNarrows(chain, n)
    BY DEF Policy!SpendNarrows, SpendNarrows,
           Policy!MaxDepthNarrows, MaxDepthNarrows
  <1>8. /\ Policy!ActivationNarrows(chain, n) <=> ActivationNarrows(chain, n)
        /\ Policy!ExpiryNarrows(chain, n) <=> ExpiryNarrows(chain, n)
    BY DEF Policy!ActivationNarrows, ActivationNarrows,
           Policy!ExpiryNarrows, ExpiryNarrows
  <1>9. QED
    BY <1>3, <1>4, <1>5, <1>6, <1>7, <1>8
       DEF Policy!Narrowing, Policy!Narrows, Narrowing, Narrows

\* VerifyDelegationChain implements the narrowing policy: every behaviour of
\* the loop answers at most once, "ok" exactly when the whole chain narrows.
THEOREM LoopImplementsPolicy == Spec => ImplementsPolicy
  <1> DEFINE outcome == IF verdict = "checking" THEN "pending"
                        ELSE IF verdict = "ok" THEN "accepted" ELSE "refused"
  <1>1. Init => Policy!Init
    <2>1. Policy!Delegation = Delegation
      BY DEF Policy!Delegation, Delegation, Policy!Principals, Principals,
             Policy!Amount, Amount,
             Policy!Depth, Depth, Policy!Timestamp, Timestamp,
             Policy!GoInt, GoInt, Policy!MinInt, MinInt
    <2>2. QED
      BY <2>1, ChainAssumption DEF Init, Policy!Init
  <1>2. IInv /\ IInv' /\ [Next]_vars => [Policy!Decide]_<<chain, outcome>>
    <2> SUFFICES ASSUME IInv, IInv', [Next]_vars
                 PROVE  Policy!Decide \/ UNCHANGED <<chain, outcome>>
      OBVIOUS
    <2>1. UNCHANGED chain
      BY DEF Next, vars, RefuseEmpty, CheckRoot, CheckLink, Accept, Judge
    <2>2. verdict # "checking" => UNCHANGED verdict
      BY DEF Next, vars, RefuseEmpty, CheckRoot, CheckLink, Accept
    <2>3. verdict' \in Violations \cup {"checking", "ok"}
      BY DEF IInv, TypeOK
    <2>4. CASE verdict = "checking" /\ verdict' = "ok"
      <3>1. Narrowing(chain)
        BY <2>1, <2>4 DEF IInv, ExactAnswer, Narrowing, Narrows
      <3>2. QED
        BY <2>1, <2>4, <3>1, SamePolicy DEF Policy!Decide
    <2>5. CASE verdict = "checking" /\ verdict' \in Violations
      <3>1. ~Narrowing(chain)
        BY <2>1, <2>5 DEF IInv, ExactAnswer, Narrowing, Narrows
      <3>2. QED
        BY <2>1, <2>5, <3>1, SamePolicy, VerdictsDiffer DEF Policy!Decide
    <2>6. CASE verdict' = verdict
      BY <2>1, <2>6
    <2>7. QED
      BY <2>2, <2>3, <2>4, <2>5, <2>6
  <1>3. QED
    BY <1>1, <1>2, InitInvariant, NextInvariant, PTL
       DEF Spec, ImplementsPolicy, Policy!Spec

-----------------------------------------------------------------------------
WildcardsLast == 
  \A k \in 1..Len(chain) : \A s \in chain[k].scope : WildcardLast(s)

\* The end-to-end coverage of the links checked so far, which the chain itself
\* does not carry: it is what the passes of the loop build up.
ScopeInv ==
  /\ WildcardsLast => \A j, k \in 1..next - 1 :
                        j < k => ScopesCover(chain[j].scope, chain[k].scope)
  /\ verdict = "ok" => next = Len(chain) + 1

\* Coverage of scope lists composes when the first list is well placed.
LEMMA ScopesCoverTransitive ==
  ASSUME NEW f \in SUBSET Scopes, NEW g \in SUBSET Scopes,
         NEW h \in SUBSET Scopes, \A s \in f : WildcardLast(s),
         ScopesCover(f, g), ScopesCover(g, h)
  PROVE  ScopesCover(f, h)
  <1> SUFFICES ASSUME NEW r \in h PROVE \E x \in f : ScopeCovers(x, r)
    BY DEF ScopesCover
  <1>1. PICK m \in g : ScopeCovers(m, r)
    BY DEF ScopesCover
  <1>2. PICK x \in f : ScopeCovers(x, m)
    BY DEF ScopesCover
  <1>3. /\ x \in Seq(Segments) /\ m \in Seq(Segments) /\ r \in Seq(Segments)
        /\ x # << >> /\ m # << >>
    BY ScopeAssumption
  <1>4. ScopeCovers(x, r)
    BY <1>1, <1>2, <1>3, CoversTransitive
  <1>5. QED
    BY <1>4

\* In an accepted chain of well-placed wildcards every link's scopes are
\* covered by those of every ancestor, however far up.
THEOREM ScopeEndToEnd == Spec => []ScopeNarrowsEndToEnd
  <1>1. Init => ScopeInv
    BY DEF Init, ScopeInv
  <1>2. IInv /\ IInv' /\ ScopeInv /\ [Next]_vars => ScopeInv'
    <2> SUFFICES ASSUME IInv, IInv', ScopeInv, [Next]_vars PROVE ScopeInv'
      OBVIOUS
    <2>1. chain \in Seq(Delegation) /\ next \in 1..Len(chain) + 1
      BY DEF IInv, TypeOK
    <2>2. CASE UNCHANGED next
      <3>1. UNCHANGED chain
        BY DEF Next, vars, RefuseEmpty, CheckRoot, CheckLink, Accept, Judge
      <3>2. verdict' = "ok" => verdict = "ok" \/ next = Len(chain) + 1
        BY <2>2, RootReturns, LinkReturns, VerdictsDiffer
           DEF Next, vars, RefuseEmpty, CheckRoot, CheckLink, Accept, Judge
      <3>3. QED
        BY <2>2, <3>1, <3>2 DEF ScopeInv, WildcardsLast
    <2>3. CASE next' # next
      <3>1. /\ verdict = "checking" /\ next' = next + 1 /\ next <= Len(chain)
            /\ UNCHANGED <<chain, verdict>>
        <4>1. CheckRoot \/ CheckLink
          BY <2>3 DEF Next, vars, RefuseEmpty, Accept
        <4>2. CASE CheckRoot
          <5>1. chain # << >> => 1 <= Len(chain)
            BY <2>1
          <5>2. QED
            BY <2>3, <4>2, <5>1 DEF CheckRoot, Judge
        <4>3. CASE CheckLink
          BY <2>1, <2>3, <4>3 DEF CheckLink, Judge
        <4>4. QED
          BY <4>1, <4>2, <4>3
      <3>2. Narrows(chain, next)
        <4>1. EffectiveCeiling' /\ verdict' = "checking" /\ next' - 1 = next
          BY <2>1, <3>1 DEF IInv
        <4>2. Narrows(chain', next' - 1)
          BY <4>1 DEF EffectiveCeiling, Narrows
        <4>3. QED
          BY <3>1, <4>1, <4>2
      <3>3. ASSUME WildcardsLast, NEW j \in 1..next, NEW k \in 1..next, j < k
            PROVE  ScopesCover(chain[j].scope, chain[k].scope)
        <4>1. CASE k < next
          BY <2>1, <3>3, <4>1 DEF ScopeInv
        <4>2. CASE k = next /\ j = next - 1
          BY <2>1, <3>2, <3>3, <4>2 DEF Narrows, ScopeNarrows
        <4>3. CASE k = next /\ j < next - 1
          <5> DEFINE n == next - 1
          <5>1. n \in 1..Len(chain) /\ j \in 1..n /\ n \in 1..n /\ next \in 2..next
            BY <2>1, <3>1, <3>3, <4>3
          <5>2. ScopesCover(chain[j].scope, chain[n].scope)
            BY <3>3, <4>3, <5>1 DEF ScopeInv
          <5>3. ScopesCover(chain[n].scope, chain[k].scope)
            BY <3>2, <4>3, <5>1 DEF Narrows, ScopeNarrows
          <5>4. /\ chain[j].scope \in SUBSET Scopes
                /\ chain[n].scope \in SUBSET Scopes
                /\ chain[k].scope \in SUBSET Scopes
            BY <2>1, <3>1, <3>3, <5>1, LinkFields
          <5>5. \A s \in chain[j].scope : WildcardLast(s)
            BY <2>1, <3>1, <3>3 DEF WildcardsLast
          <5>6. QED
            <6> HIDE DEF n
            <6> QED BY <5>2, <5>3, <5>4, <5>5, ScopesCoverTransitive
        <4>4. QED
          BY <2>1, <3>3, <4>1, <4>2, <4>3
      <3>4. QED
        BY <2>1, <3>1, <3>3, VerdictsDiffer DEF ScopeInv, WildcardsLast
    <2>4. QED
      BY <2>2, <2>3
  <1>3. IInv /\ ScopeInv => ScopeNarrowsEndToEnd
    BY DEF IInv, TypeOK, ScopeInv, ScopeNarrowsEndToEnd, WildcardsLast
  <1>4. QED
    BY <1>1, <1>2, <1>3, InitInvariant, NextInvariant, PTL DEF Spec
=============================================================================
