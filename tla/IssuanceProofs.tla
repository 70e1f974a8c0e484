--------------------------- MODULE IssuanceProofs ---------------------------
(***************************************************************************)
(* What SubDelegate mints, for roots and options of every kind and chains  *)
(* of every length.                                                        *)
(***************************************************************************)
EXTENDS Issuance, TLAPS

\* The type of a link's fields.
LEMMA FieldTypes ==
  ASSUME NEW d \in Delegation
  PROVE  /\ d.spendLimit \in Amount /\ d.spendLimitUnit \in Units \cup {None}
         /\ d.maxDepth \in Depth /\ d.currentDepth \in Depth
         /\ d.expiresAt \in Timestamp /\ d.notBefore \in Timestamp
         /\ d.scope \in SUBSET Scopes /\ d.delegatedTo \in Principals
         /\ StatedSpendUnit(d) \in Units \cup {None}
         /\ DepthOf(d) \in GoInt
  <1>1. 0 \in GoInt
    BY FieldAssumption DEF GoInt, MinInt
  <1>2. QED
    BY <1>1, FieldAssumption DEF Delegation, StatedSpendUnit, DepthOf, Depth

\* What VerifyDelegationAt accepts.
LEMMA LiveMeans ==
  ASSUME NEW d \in Delegation, NEW t \in Int
  PROVE  Live(d, t) <=>
           /\ AuthenticSignature(d)
           /\ d.expiresAt \in Int /\ t <= d.expiresAt
           /\ d.notBefore \in Int \cup {None}
           /\ d.notBefore = None \/ d.notBefore <= t
           /\ \/ d.maxDepth = None
              \/ d.currentDepth = None
              \/ d.currentDepth <= d.maxDepth
  <1>1. /\ d.expiresAt \in Timestamp /\ d.notBefore \in Timestamp
        /\ d.maxDepth \in Depth /\ d.currentDepth \in Depth
    BY FieldTypes
  <1>2. QED
    BY <1>1, FieldAssumption
       DEF Live, DelegationFailure, Timestamp, Depth, GoInt, MinInt

\* What the child carries relative to the parent it was minted from.
ChildOf(parent, child) ==
  /\ child.delegatedBy = parent.delegatedTo
  /\ ScopesCover(parent.scope, child.scope)
  /\ child.spendLimit \in Int \cup {None}
  /\ parent.spendLimit # None =>
       child.spendLimit # None /\ child.spendLimit <= parent.spendLimit
  /\ StatedSpendUnit(parent) # None =>
       child.spendLimitUnit = StatedSpendUnit(parent)
  /\ child.maxDepth = parent.maxDepth
  /\ child.currentDepth = Increment(DepthOf(parent))
  /\ DepthOf(parent) >= 0
  /\ parent.maxDepth # None => Increment(DepthOf(parent)) <= parent.maxDepth
  /\ child.expiresAt \in Int /\ child.expiresAt <= parent.expiresAt
  /\ child.notBefore \in Int \cup {None}
  /\ parent.notBefore # None =>
       child.notBefore # None /\ parent.notBefore <= child.notBefore

\* What SubDelegate signs stands in that relation to the parent it checked.
LEMMA ChildNarrowsParent ==
  ASSUME NEW parent \in Delegation, NEW o \in ChildOptions, NEW t \in Int,
         AuthenticSignature(parent) => parent.spendLimit # NonFinite,
         SubDelegateFailure(parent, o, t) = "none"
  PROVE  /\ Child(parent, o) \in Delegation
         /\ Child(parent, o).signature # None
         /\ Live(parent, t)
         /\ parent.spendLimit \in Int \cup {None}
         /\ ChildOf(parent, Child(parent, o))
  <1> DEFINE child == Child(parent, o)
  <1>1. /\ o.privateKey \in Keys /\ o.delegatedTo \in Principals
        /\ o.scope \in SUBSET Scopes /\ o.spendLimit \in Amount
        /\ o.spendLimitUnit \in Units \cup {None}
        /\ o.expiresAt \in Timestamp /\ o.notBefore \in Timestamp
    BY IssuanceAssumption DEF SubDelegateOptions
  <1>2. /\ Live(parent, t) /\ ~(DepthOf(parent) < 0)
        /\ ~(parent.maxDepth # None /\ Increment(DepthOf(parent)) > parent.maxDepth)
        /\ ScopesCover(parent.scope, o.scope)
        /\ ~(/\ StatedSpendUnit(parent) # None
             /\ ChildUnit(parent, o) # StatedSpendUnit(parent))
        /\ ~(/\ SharesParentBudget(parent, o)
             /\ o.spendLimit \notin {None, NonFinite}
             /\ o.spendLimit > parent.spendLimit)
        /\ Unparseable \notin {o.expiresAt, o.notBefore, parent.notBefore}
        /\ o.spendLimit # NonFinite
    BY DEF SubDelegateFailure
  <1>3. /\ parent.spendLimit \in Amount /\ parent.maxDepth \in Depth
        /\ parent.spendLimitUnit \in Units \cup {None}
        /\ StatedSpendUnit(parent) \in Units \cup {None}
        /\ DepthOf(parent) \in GoInt /\ parent.delegatedTo \in Principals
    BY FieldTypes
  <1>4. /\ AuthenticSignature(parent) /\ parent.expiresAt \in Int
        /\ parent.notBefore \in Int \cup {None}
    BY <1>2, LiveMeans
  <1>5. parent.spendLimit \in Int \cup {None}
    BY <1>3, <1>4 DEF Amount
  <1>6. parent.spendLimit # None => SharesParentBudget(parent, o)
    <2>1. parent.spendLimit # None => StatedSpendUnit(parent) # None
      BY <1>3, FieldAssumption DEF StatedSpendUnit
    <2>2. QED
      BY <1>2, <2>1 DEF SharesParentBudget
  <1>7. o.spendLimit \in Int \cup {None}
    BY <1>1, <1>2 DEF Amount
  <1>8. /\ child.spendLimit \in Int \cup {None}
        /\ parent.spendLimit # None =>
             child.spendLimit # None /\ child.spendLimit <= parent.spendLimit
    BY <1>2, <1>5, <1>6, <1>7, FieldAssumption DEF Child, SharesParentBudget
  <1>9. /\ child.spendLimitUnit \in Units \cup {None}
        /\ StatedSpendUnit(parent) # None =>
             child.spendLimitUnit = StatedSpendUnit(parent)
    BY <1>1, <1>2, <1>3 DEF Child, ChildUnit
  <1>10. o.expiresAt \in Int \cup {None} /\ o.notBefore \in Int \cup {None}
    BY <1>1, <1>2 DEF Timestamp
  <1>11. child.expiresAt \in Int /\ child.expiresAt <= parent.expiresAt
    BY <1>4, <1>10, FieldAssumption DEF Child, ChildExpiresAt
  <1>12. /\ child.notBefore \in Int \cup {None}
         /\ parent.notBefore # None =>
              child.notBefore # None /\ parent.notBefore <= child.notBefore
    BY <1>4, <1>10, FieldAssumption DEF Child, ChildNotBefore
  <1>13. /\ child.currentDepth = Increment(DepthOf(parent))
         /\ child.currentDepth \in GoInt
         /\ DepthOf(parent) >= 0
         /\ parent.maxDepth # None => Increment(DepthOf(parent)) <= parent.maxDepth
    BY <1>2, <1>3, FieldAssumption DEF Child, Increment, GoInt, MinInt, Depth
  <1>14. child \in Delegation
    BY <1>1, <1>3, <1>8, <1>9, <1>11, <1>12, <1>13
       DEF Child, Delegation, Amount, Timestamp, Depth
  <1>15. /\ child.delegatedBy = parent.delegatedTo /\ child.scope = o.scope
         /\ child.maxDepth = parent.maxDepth /\ child.signature # None
    BY <1>1, FieldAssumption DEF Child
  <1>16. QED
    BY <1>2, <1>5, <1>8, <1>9, <1>11, <1>12, <1>13, <1>14, <1>15 DEF ChildOf

-----------------------------------------------------------------------------
\* The fields of a link a child was, or could be, minted from.
Sound(d) ==
  /\ d.spendLimit \in Int \cup {None}
  /\ d.expiresAt \in Int
  /\ d.notBefore \in Int \cup {None}

\* What a link carries on from each of its ancestors: the part of ChildOf that
\* reaches past the parent.
Inherits(anc, d) ==
  /\ anc.spendLimit # None =>
       d.spendLimit # None /\ d.spendLimit <= anc.spendLimit
  /\ StatedSpendUnit(anc) # None => d.spendLimitUnit = StatedSpendUnit(anc)
  /\ d.maxDepth = anc.maxDepth
  /\ d.expiresAt <= anc.expiresAt
  /\ anc.notBefore # None =>
       d.notBefore # None /\ anc.notBefore <= d.notBefore

\* Inheritance passes on from link to link.
LEMMA InheritsTransitive ==
  ASSUME NEW x \in Delegation, NEW y \in Delegation, NEW z \in Delegation,
         Sound(x), Sound(y), Sound(z), Inherits(x, y), Inherits(y, z)
  PROVE  Inherits(x, z)
  <1>1. /\ x.spendLimit # None =>
             z.spendLimit # None /\ z.spendLimit <= x.spendLimit
        /\ x.notBefore # None =>
             z.notBefore # None /\ x.notBefore <= z.notBefore
        /\ z.expiresAt <= x.expiresAt /\ z.maxDepth = x.maxDepth
    BY FieldAssumption DEF Inherits, Sound
  <1>2. StatedSpendUnit(x) # None => z.spendLimitUnit = StatedSpendUnit(x)
    BY DEF Inherits, StatedSpendUnit
  <1>3. QED
    BY <1>1, <1>2 DEF Inherits

\* A minted child inherits from its parent.
LEMMA ChildInherits ==
  ASSUME NEW parent \in Delegation, NEW child \in Delegation,
         ChildOf(parent, child)
  PROVE  Sound(child) /\ Inherits(parent, child)
  BY DEF ChildOf, Sound, Inherits

\* A link within the depth ceiling it states.
WithinDepth(d) ==
  \/ d.maxDepth = None
  \/ d.currentDepth = None
  \/ d.currentDepth <= d.maxDepth

-----------------------------------------------------------------------------
\* Nothing with a readable signature has an amount that cannot be signed.
SignedAmounts ==
  \A k \in 1..Len(chain) :
    AuthenticSignature(chain[k]) => chain[k].spendLimit # NonFinite

\* Every link something was sub-delegated from passed VerifyDelegationAt.
ParentsLive ==
  \A k \in 1..Len(chain) - 1 :
    /\ AuthenticSignature(chain[k]) /\ WithinDepth(chain[k])
    /\ DepthOf(chain[k]) >= 0

Inheritance ==
  Len(chain) >= 2 =>
    /\ \A k \in 1..Len(chain) : Sound(chain[k])
    /\ \A j, k \in 1..Len(chain) : j < k => Inherits(chain[j], chain[k])

Hops ==
  \A k \in 2..Len(chain) :
    /\ chain[k].delegatedBy = chain[k-1].delegatedTo
    /\ ScopesCover(chain[k-1].scope, chain[k].scope)
    /\ chain[k].maxDepth # None => DepthOf(chain[k]) <= chain[k].maxDepth

\* Positions count hops as long as they fit an int.
Positions ==
  \A k \in 1..Len(chain) :
    DepthOf(chain[1]) + k - 1 <= MaxInt =>
      DepthOf(chain[k]) = DepthOf(chain[1]) + k - 1

IInv == TypeOK /\ SignedAmounts /\ ParentsLive /\ Inheritance /\ Hops /\ Positions

\* The empty chain satisfies the invariant.
LEMMA InitIInv == Init => IInv
  <1> SUFFICES ASSUME Init PROVE IInv
    OBVIOUS
  <1>1. chain = << >> /\ now \in Times /\ Len(chain) = 0
    BY DEF Init
  <1>2. QED
    BY <1>1 DEF IInv, TypeOK, SignedAmounts, ParentsLive, Inheritance, Hops,
                Positions

\* A chain of one link satisfies the invariant whatever the link.
LEMMA RootIInv ==
  ASSUME NEW d \in Delegation, chain' = <<d>>, now' \in Times,
         d.signature # None => d.spendLimit # NonFinite
  PROVE  IInv'
  <1>1. Len(chain') = 1 /\ chain'[1] = d /\ chain' \in Seq(Delegation)
    OBVIOUS
  <1>2. SignedAmounts'
    BY <1>1 DEF SignedAmounts, AuthenticSignature
  <1>3. TypeOK' /\ ParentsLive' /\ Inheritance' /\ Hops'
    BY <1>1 DEF TypeOK, ParentsLive, Inheritance, Hops
  <1>4. Positions'
    <2>1. DepthOf(d) \in GoInt
      BY FieldTypes
    <2>2. QED
      BY <1>1, <2>1, FieldAssumption DEF Positions, GoInt, MinInt
  <1>5. QED
    BY <1>2, <1>3, <1>4 DEF IInv

\* CreateDelegation preserves the invariant.
LEMMA CreateIInv ==
  ASSUME IInv, NEW o \in RootOptions, CreateDelegation(o)
  PROVE  IInv'
  <1>1. o \in Delegation /\ now' \in Times
    BY IssuanceAssumption DEF CreateDelegation, IInv, TypeOK
  <1>2. QED
    BY <1>1, RootIInv DEF CreateDelegation, Creatable

\* CreateCommerceDelegation preserves the invariant.
LEMMA CommerceIInv ==
  ASSUME IInv, NEW o \in CommerceOptions, CreateCommerceDelegation(o)
  PROVE  IInv'
  <1>1. o \in Delegation /\ now' \in Times
    BY IssuanceAssumption DEF CreateCommerceDelegation, IInv, TypeOK
  <1>2. CommerceRoot(o) \in Delegation
    <2>1. CommerceScopes \cup o.scope \in SUBSET Scopes
      BY <1>1, IssuanceAssumption DEF Delegation
    <2>2. (IF o.spendLimitUnit = None THEN Usd ELSE o.spendLimitUnit)
            \in Units \cup {None}
      BY <1>1, IssuanceAssumption DEF Delegation
    <2>3. /\ (IF o.maxDepth = None THEN 1 ELSE o.maxDepth) \in Depth
          /\ (IF o.currentDepth = None THEN 0 ELSE o.currentDepth) \in Depth
      BY <1>1, FieldAssumption DEF Delegation, Depth, GoInt, MinInt
    <2>4. QED
      BY <1>1, <2>1, <2>2, <2>3 DEF CommerceRoot, Delegation
  <1>3. CommerceRoot(o).spendLimit # NonFinite
    BY <1>1, FieldAssumption DEF CommerceRoot, CreateCommerceDelegation, Delegation
  <1>4. QED
    BY <1>1, <1>2, <1>3, RootIInv DEF CreateCommerceDelegation

\* Receive preserves the invariant.
LEMMA ReceiveIInv ==
  ASSUME IInv, NEW d \in ForeignRoots, Receive(d)
  PROVE  IInv'
  <1>1. d \in Delegation /\ now' \in Times
    BY IssuanceAssumption DEF Receive, IInv, TypeOK
  <1>2. d.signature # None => d.spendLimit # NonFinite
    BY IssuanceAssumption
  <1>3. QED
    BY <1>1, <1>2, RootIInv DEF Receive

\* SubDelegate preserves the invariant.
LEMMA SubDelegateIInv ==
  ASSUME IInv, NEW o \in ChildOptions, SubDelegate(o)
  PROVE  IInv'
  <1> DEFINE n == Len(chain)
             parent == chain[n]
             child == Child(parent, o)
             t == EvaluationTime(o)
  <1>1. /\ chain \in Seq(Delegation) /\ n \in Nat \ {0} /\ now \in Times
        /\ \A k \in 1..n : chain[k] \in Delegation
    BY DEF IInv, TypeOK, SubDelegate
  <1>2. t \in Int
    <2>1. o.now \in Timestamp /\ now \in Int
      BY <1>1, IssuanceAssumption DEF SubDelegateOptions
    <2>2. QED
      BY <2>1 DEF EvaluationTime, SubDelegate, Timestamp
  <1>3. SubDelegateFailure(parent, o, t) = "none"
    BY <1>1 DEF SubDelegate, Last
  <1>4. AuthenticSignature(parent) => parent.spendLimit # NonFinite
    BY <1>1 DEF IInv, SignedAmounts
  <1>5. /\ child \in Delegation
        /\ Live(parent, t)
        /\ parent.spendLimit \in Int \cup {None}
        /\ ChildOf(parent, child)
    <2>1. parent \in Delegation
      BY <1>1
    <2>2. QED
      BY <2>1, <1>2, <1>3, <1>4, ChildNarrowsParent
  <1>6. /\ chain' \in Seq(Delegation) /\ Len(chain') = n + 1
        /\ chain'[n + 1] = child /\ \A k \in 1..n : chain'[k] = chain[k]
    <2>1. chain' = Append(chain, child)
      BY <1>1 DEF SubDelegate, Last
    <2>2. QED
      BY <1>1, <1>5, <2>1
  <1>7. /\ AuthenticSignature(parent) /\ WithinDepth(parent)
        /\ Sound(parent) /\ Sound(child) /\ Inherits(parent, child)
    <2>1. parent \in Delegation
      BY <1>1
    <2>2. /\ AuthenticSignature(parent) /\ parent.expiresAt \in Int
          /\ parent.notBefore \in Int \cup {None}
          /\ \/ parent.maxDepth = None
             \/ parent.currentDepth = None
             \/ parent.currentDepth <= parent.maxDepth
      BY <1>2, <1>5, <2>1, LiveMeans
    <2>3. QED
      BY <1>5, <2>1, <2>2, ChildInherits DEF WithinDepth, Sound
  <1>8. TypeOK'
    BY <1>1, <1>6 DEF TypeOK, SubDelegate
  <1>9. SignedAmounts'
    <2>1. child.spendLimit # NonFinite
      BY <1>7, FieldAssumption DEF Sound
    <2>2. QED
      BY <1>1, <1>6, <2>1 DEF IInv, SignedAmounts
  <1>10. ParentsLive'
    <2>1. DepthOf(parent) >= 0
      BY <1>5 DEF ChildOf
    <2>2. \A k \in 1..n : AuthenticSignature(chain[k]) /\ WithinDepth(chain[k])
                           /\ DepthOf(chain[k]) >= 0
      BY <1>1, <1>7, <2>1 DEF IInv, ParentsLive
    <2>3. QED
      BY <1>1, <1>6, <2>2 DEF ParentsLive
  <1>11. Inheritance'
    <2>1. \A k \in 1..n : Sound(chain[k])
      BY <1>1, <1>7 DEF IInv, Inheritance
    <2>2. \A j, k \in 1..n : j < k => Inherits(chain[j], chain[k])
      BY <1>1 DEF IInv, Inheritance
    <2>3. \A j \in 1..n : Inherits(chain[j], child)
      <3>1. TAKE j \in 1..n
      <3>2. CASE j = n
        BY <1>7, <3>2
      <3>3. CASE j < n
        <4>1. n \in 1..n
          BY <1>1
        <4>2. Inherits(chain[j], parent) /\ Sound(chain[j])
          BY <2>1, <2>2, <3>3, <4>1
        <4>3. chain[j] \in Delegation /\ parent \in Delegation
          BY <1>1, <4>1
        <4>4. QED
          BY <1>5, <1>7, <4>2, <4>3, InheritsTransitive
      <3>4. QED
        BY <1>1, <3>2, <3>3
    <2>4. \A k \in 1..Len(chain') : Sound(chain'[k])
      BY <1>1, <1>6, <1>7, <2>1
    <2>5. ASSUME NEW j \in 1..Len(chain'), NEW k \in 1..Len(chain'), j < k
          PROVE  Inherits(chain'[j], chain'[k])
      <3>1. j \in 1..n /\ chain'[j] = chain[j]
        BY <1>1, <1>6, <2>5
      <3>2. CASE k = n + 1
        BY <1>6, <2>3, <3>1, <3>2
      <3>3. CASE k \in 1..n
        BY <1>6, <2>2, <2>5, <3>1, <3>3
      <3>4. QED
        BY <1>1, <1>6, <3>2, <3>3
    <2>6. QED
      BY <2>4, <2>5 DEF Inheritance
  <1>12. /\ child.currentDepth = Increment(DepthOf(parent))
         /\ DepthOf(child) = Increment(DepthOf(parent))
         /\ DepthOf(parent) \in GoInt
    <2>1. DepthOf(parent) \in GoInt
      BY <1>1, FieldTypes
    <2>2. child.currentDepth = Increment(DepthOf(parent))
      BY <1>5 DEF ChildOf
    <2>3. Increment(DepthOf(parent)) \in Int
      BY <2>1, FieldAssumption DEF Increment, GoInt, MinInt
    <2>4. QED
      BY <2>1, <2>2, <2>3, FieldAssumption DEF DepthOf
  <1>13. Hops'
    <2>1. /\ child.delegatedBy = parent.delegatedTo
          /\ ScopesCover(parent.scope, child.scope)
          /\ child.maxDepth # None => DepthOf(child) <= child.maxDepth
      BY <1>5, <1>12 DEF ChildOf
    <2>2. ASSUME NEW k \in 2..Len(chain')
          PROVE  /\ chain'[k].delegatedBy = chain'[k-1].delegatedTo
                 /\ ScopesCover(chain'[k-1].scope, chain'[k].scope)
                 /\ chain'[k].maxDepth # None =>
                      DepthOf(chain'[k]) <= chain'[k].maxDepth
      <3>1. CASE k = n + 1
        <4>1. chain'[k] = child /\ chain'[k-1] = parent
          BY <1>1, <1>6, <3>1
        <4>2. QED
          BY <2>1, <4>1
      <3>2. CASE k \in 2..n
        <4>1. chain'[k] = chain[k] /\ chain'[k-1] = chain[k-1]
          BY <1>1, <1>6, <3>2
        <4>2. QED
          BY <3>2, <4>1 DEF IInv, Hops
      <3>3. QED
        BY <1>1, <1>6, <3>1, <3>2
    <2>3. QED
      BY <2>2 DEF Hops
  <1>14. Positions'
    <2>1. DepthOf(chain'[1]) = DepthOf(chain[1]) /\ DepthOf(chain[1]) \in GoInt
      <3>1. 1 \in 1..n
        BY <1>1
      <3>2. QED
        BY <1>1, <1>6, <3>1, FieldTypes
    <2>2. GoInt \subseteq Int /\ MaxInt \in Int
      BY FieldAssumption DEF GoInt, MinInt
    <2>3. ASSUME NEW k \in 1..Len(chain'), DepthOf(chain[1]) + k - 1 <= MaxInt
          PROVE  DepthOf(chain'[k]) = DepthOf(chain[1]) + k - 1
      <3>1. CASE k \in 1..n
        BY <1>6, <2>3, <3>1 DEF IInv, Positions
      <3>2. CASE k = n + 1
        <4>1. /\ n \in 1..n /\ n + 1 - 1 = n
              /\ DepthOf(chain[1]) \in Int /\ DepthOf(parent) \in Int
          <5>1. n \in 1..n /\ n + 1 - 1 = n
            BY <1>1
          <5>2. DepthOf(chain[1]) \in Int /\ DepthOf(parent) \in Int
            BY <1>12, <2>1, FieldAssumption DEF GoInt, MinInt
          <5>3. QED
            BY <5>1, <5>2
        <4>2. DepthOf(chain[1]) + n <= MaxInt
          BY <1>1, <2>3, <3>2, <4>1
        <4>3. DepthOf(chain[1]) + n - 1 <= MaxInt
          BY <1>1, <2>2, <4>1, <4>2
        <4>4. DepthOf(parent) = DepthOf(chain[1]) + n - 1
          BY <4>1, <4>3 DEF IInv, Positions
        <4>5. DepthOf(parent) # MaxInt
          BY <1>1, <2>2, <4>1, <4>2, <4>4
        <4>6. DepthOf(child) = DepthOf(parent) + 1
          BY <1>12, <4>5 DEF Increment
        <4>7. DepthOf(chain'[k]) = DepthOf(child)
          BY <1>6, <3>2
        <4>8. QED
          BY <1>1, <3>2, <4>1, <4>4, <4>6, <4>7
      <3>3. QED
        BY <1>1, <1>6, <3>1, <3>2
    <2>4. QED
      BY <2>1, <2>3 DEF Positions
  <1>15. QED
    BY <1>8, <1>9, <1>10, <1>11, <1>13, <1>14 DEF IInv

\* Tick preserves the invariant.
LEMMA TickIInv == IInv /\ Tick => IInv'
  <1> SUFFICES ASSUME IInv, Tick PROVE IInv'
    OBVIOUS
  <1>1. chain' = chain /\ now' \in Times
    BY DEF Tick
  <1>2. QED
    BY <1>1 DEF IInv, TypeOK, SignedAmounts, ParentsLive, Inheritance, Hops,
                Positions

\* Inheritance from every ancestor, authentic parents and counted positions
\* are together inductive.
THEOREM Inductive == Spec => []IInv
  <1>1. IInv /\ [Next]_vars => IInv'
    <2> SUFFICES ASSUME IInv, [Next]_vars PROVE IInv'
      OBVIOUS
    <2>1. CASE \E o \in RootOptions : CreateDelegation(o)
      BY <2>1, CreateIInv
    <2>2. CASE \E d \in ForeignRoots : Receive(d)
      BY <2>2, ReceiveIInv
    <2>3. CASE \E o \in CommerceOptions : CreateCommerceDelegation(o)
      BY <2>3, CommerceIInv
    <2>4. CASE \E o \in ChildOptions : SubDelegate(o)
      BY <2>4, SubDelegateIInv
    <2>5. CASE Tick
      BY <2>5, TickIInv
    <2>6. CASE UNCHANGED vars
      BY <2>6 DEF vars, IInv, TypeOK, SignedAmounts, ParentsLive, Inheritance,
                  Hops, Positions
    <2>7. QED
      BY <2>1, <2>2, <2>3, <2>4, <2>5, <2>6 DEF Next
  <1>2. QED
    BY <1>1, InitIInv, PTL DEF Spec

-----------------------------------------------------------------------------
\* Every link of every chain the package mints has the fields of its type,
\* its position within a Go int even where parentDepth + 1 wraps around.
THEOREM TypeCorrect == Spec => []TypeOK
  <1>1. IInv => TypeOK
    BY DEF IInv
  <1>2. QED
    BY <1>1, Inductive, PTL

\* Omitted bounds are materialized at every depth: no mixture of options lets
\* a stated bound disappear from a later link.
THEOREM Materialized == Spec => []BoundsMaterialized
  <1>1. IInv => BoundsMaterialized
    <2> SUFFICES ASSUME IInv PROVE BoundsMaterialized
      OBVIOUS
    <2>0. Len(chain) \in Nat
      BY DEF IInv, TypeOK
    <2>1. ASSUME NEW j \in 1..Len(chain), NEW k \in 1..Len(chain), j < k
          PROVE  Inherits(chain[j], chain[k]) /\ Sound(chain[k])
      <3>1. Len(chain) >= 2
        BY <2>0, <2>1
      <3>2. QED
        BY <2>1, <3>1 DEF IInv, Inheritance
    <2>2. ASSUME NEW k \in 2..Len(chain)
          PROVE  chain[k].expiresAt \in Int
      <3>1. 1 \in 1..Len(chain) /\ k \in 1..Len(chain) /\ 1 < k
        BY <2>0, <2>2
      <3>2. QED
        BY <2>1, <3>1 DEF Sound
    <2>3. QED
      BY <2>1, <2>2 DEF BoundsMaterialized, Inherits
  <1>2. QED
    BY <1>1, Inductive, PTL

\* A leaf VerifyDelegationAt accepts has only ancestors it accepts.
THEOREM LiveAncestors == Spec => []LiveLeafLiveAncestors
  <1>1. IInv => LiveLeafLiveAncestors
    <2> SUFFICES ASSUME IInv, NEW t \in Times, NEW k \in 1..Len(chain),
                        Live(Last(chain), t)
                 PROVE  Live(chain[k], t)
      BY DEF LiveLeafLiveAncestors
    <2> DEFINE n == Len(chain)
               leaf == chain[n]
    <2>1. /\ n \in Nat \ {0} /\ n \in 1..n /\ t \in Int
          /\ chain[k] \in Delegation /\ leaf \in Delegation
          /\ Live(leaf, t)
      BY IssuanceAssumption DEF IInv, TypeOK, Last
    <2>2. CASE k = n
      BY <2>1, <2>2
    <2>3. CASE k < n
      <3>1. Inherits(chain[k], leaf) /\ Sound(chain[k]) /\ Sound(leaf)
        BY <2>1, <2>3 DEF IInv, Inheritance
      <3>2. AuthenticSignature(chain[k]) /\ WithinDepth(chain[k])
        BY <2>1, <2>3 DEF IInv, ParentsLive
      <3>3. t <= leaf.expiresAt /\ (leaf.notBefore = None \/ leaf.notBefore <= t)
        BY <2>1, LiveMeans
      <3>4. /\ chain[k].expiresAt \in Int /\ t <= chain[k].expiresAt
            /\ chain[k].notBefore \in Int \cup {None}
            /\ chain[k].notBefore = None \/ chain[k].notBefore <= t
        BY <2>1, <3>1, <3>3, FieldAssumption DEF Inherits, Sound
      <3>5. QED
        BY <2>1, <3>2, <3>4, LiveMeans DEF WithinDepth
    <2>4. QED
      BY <2>1, <2>2, <2>3
  <1>2. QED
    BY <1>1, Inductive, PTL

\* SubDelegate agrees with VerifyDelegationChain: every chain it extends is one
\* the chain verifier accepts, as long as positions fit an int.
THEOREM MinterAgreesWithVerifier == Spec => []MintedChainsVerify
  <1>1. IInv => MintedChainsVerify
    <2> SUFFICES ASSUME IInv, Len(chain) >= 2, DepthFits
                 PROVE  Narrowing(chain)
      BY DEF MintedChainsVerify
    <2> DEFINE n == Len(chain)
    <2>1. /\ n \in Nat /\ chain # << >>
          /\ \A k \in 1..n : chain[k] \in Delegation
      BY DEF IInv, TypeOK
    <2>2. /\ \A k \in 1..n : Sound(chain[k])
          /\ \A j, k \in 1..n : j < k => Inherits(chain[j], chain[k])
      BY DEF IInv, Inheritance
    <2>3. Linked(chain, n) /\ ScopeNarrows(chain, n)
      BY DEF IInv, Hops, Linked, ScopeNarrows
    <2>4. Readable(chain, n)
      BY <2>2, FieldAssumption DEF Readable, Sound
    <2>5. SpendNarrows(chain, n) /\ ActivationNarrows(chain, n)
      BY <2>1, <2>2 DEF SpendNarrows, ActivationNarrows, Inherits
    <2>6. ExpiryNarrows(chain, n)
      BY <2>1, <2>2, FieldAssumption DEF ExpiryNarrows, Inherits, Sound
    <2>7. UnitKept(chain, n)
      <3>1. ASSUME NEW j \in 1..n, NEW k \in 1..n, j < k,
                   StatedSpendUnit(chain[j]) # None
            PROVE  StatedSpendUnit(chain[j]) = StatedSpendUnit(chain[k])
        <4>1. chain[k].spendLimitUnit = StatedSpendUnit(chain[j])
          BY <2>2, <3>1 DEF Inherits
        <4>2. QED
          BY <3>1, <4>1 DEF StatedSpendUnit
      <3>2. \A j, k \in 1..n : j < k \/ k < j \/ j = k
        BY <2>1
      <3>3. QED
        BY <3>1, <3>2 DEF UnitKept
    <2>8. /\ MaxDepthNarrows(chain, n)
          /\ \A j, k \in 1..n : chain[j].maxDepth = chain[k].maxDepth
      <3>1. \A j, k \in 1..n : j < k => chain[k].maxDepth = chain[j].maxDepth
        BY <2>2 DEF Inherits
      <3>2. \A j, k \in 1..n : chain[j].maxDepth = chain[k].maxDepth
        BY <2>1, <3>1
      <3>3. \A k \in 1..n : chain[k].maxDepth \in Depth
        BY <2>1, FieldTypes
      <3>4. QED
        BY <3>2, <3>3, FieldAssumption DEF MaxDepthNarrows, Depth, GoInt, MinInt
    <2>9. DepthCountsHops(chain, n)
      <3>1. /\ MaxInt \in Int /\ 1 \in 1..n /\ 2 \in 2..n /\ 2 \in 1..n
            /\ \A k \in 1..n : DepthOf(chain[k]) \in Int
        <4>1. \A k \in 1..n : DepthOf(chain[k]) \in GoInt
          BY <2>1, FieldTypes
        <4>2. QED
          BY <2>1, <4>1, FieldAssumption DEF GoInt, MinInt
      <3>2. \A k \in 1..n : DepthOf(chain[k]) = DepthOf(chain[1]) + k - 1
        <4>1. TAKE k \in 1..n
        <4>2. DepthOf(chain[1]) \in Int /\ DepthOf(chain[1]) + n - 1 <= MaxInt
          BY <3>1 DEF DepthFits
        <4>3. DepthOf(chain[1]) + k - 1 <= MaxInt
          BY <2>1, <3>1, <4>2
        <4>4. QED
          BY <4>3 DEF IInv, Positions
      <3>3. DepthOf(chain[1]) >= 0
        BY <2>1, <3>1 DEF IInv, ParentsLive
      <3>4. \A k \in 1..n : DepthOf(chain[k]) >= 0
        BY <2>1, <3>1, <3>2, <3>3
      <3>5. ASSUME NEW k \in 1..n, chain[k].maxDepth # None
            PROVE  chain[k].maxDepth \in Int /\ DepthOf(chain[k]) <= chain[k].maxDepth
        <4>1. chain[k].maxDepth \in Int
          <5>1. chain[k].maxDepth \in Depth
            BY <2>1, FieldTypes
          <5>2. QED
            BY <3>5, <5>1, FieldAssumption DEF Depth, GoInt, MinInt
        <4>2. CASE k \in 2..n
          BY <3>5, <4>1, <4>2 DEF IInv, Hops
        <4>3. CASE k = 1
          <5>1. chain[2].maxDepth = chain[1].maxDepth
            BY <2>8, <3>1
          <5>2. DepthOf(chain[2]) <= chain[1].maxDepth
            BY <3>1, <3>5, <4>3, <5>1 DEF IInv, Hops
          <5>3. DepthOf(chain[2]) = DepthOf(chain[1]) + 1
            BY <3>1, <3>2
          <5>4. QED
            BY <3>1, <4>1, <4>3, <5>2, <5>3
        <4>4. QED
          BY <2>1, <4>2, <4>3
      <3>6. ASSUME NEW j \in 1..n, NEW k \in 1..n, chain[j].maxDepth # None
            PROVE  chain[j].maxDepth >= 0 /\ DepthOf(chain[k]) <= chain[j].maxDepth
        <4>1. chain[j].maxDepth = chain[k].maxDepth
          BY <2>8
        <4>2. chain[k].maxDepth \in Int /\ DepthOf(chain[k]) <= chain[k].maxDepth
          BY <3>5, <3>6, <4>1
        <4>3. DepthOf(chain[k]) \in Int /\ DepthOf(chain[k]) >= 0
          BY <3>1, <3>4
        <4>4. QED
          BY <4>1, <4>2, <4>3
      <3>7. QED
        BY <3>2, <3>4, <3>6 DEF DepthCountsHops
    <2>10. QED
      BY <2>1, <2>3, <2>4, <2>5, <2>6, <2>7, <2>8, <2>9 DEF Narrowing, Narrows
  <1>2. QED
    BY <1>1, Inductive, PTL
=============================================================================
