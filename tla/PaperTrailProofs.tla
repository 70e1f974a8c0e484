-------------------------- MODULE PaperTrailProofs --------------------------
(***************************************************************************)
(* What is proved of the artifacts of PaperTrail, for any drafts, parties, *)
(* keys and number of artifacts.  The invariant, PaperInv, is that every   *)
(* artifact is what its creating function makes of its draft; signatures   *)
(* and hashes determine what they were made from, and the rest follows.    *)
(* What the loops and sorts of the packages compute comes first.           *)
(***************************************************************************)
EXTENDS PaperTrail, FiniteSetTheorems, WellFoundedInduction, TLAPS

\* A set of natural numbers that is not empty has a least one.
LEMMA Least ==
  ASSUME NEW X, X \subseteq Nat, X # {}
  PROVE  \E m \in X : \A x \in X : m <= x
<1>1. \E m \in X : \A x \in X : ~ (<<x, m>> \in OpToRel(<, Nat))
  BY NatLessThanWellFounded, WFMin
<1>2. PICK m \in X : \A x \in X : ~ (<<x, m>> \in OpToRel(<, Nat))
  BY <1>1
<1>3. \A x \in X : ~ (x < m)
  BY <1>2 DEF OpToRel
<1> QED
  BY <1>3

\* The runs of a loop over the places 1..n that starts from a and goes, at
\* place k, from v to step[k][v].
Loop(n, V, a, step) ==
  {f \in [0..n -> V] : f[0] = a /\ \A k \in 1..n : f[k] = step[k][f[k - 1]]}

\* Such a loop has a run: a recursive function over 0..n is what it says.
LEMMA LoopRuns ==
  ASSUME NEW n \in Nat, NEW V, NEW a \in V, NEW step \in [1..n -> [V -> V]]
  PROVE  Loop(n, V, a, step) # {}
<1> SUFFICES \E f \in [0..n -> V] :
               f[0] = a /\ \A k \in 1..n : f[k] = step[k][f[k - 1]]
  BY DEF Loop
<1> DEFINE Runs(m, f) == f[0] = a /\ \A k \in 1..m : f[k] = step[k][f[k - 1]]
           X == {m \in 0..n : ~ \E f \in [0..m -> V] : Runs(m, f)}
<1> SUFFICES ASSUME X # {} PROVE FALSE
  <2>1. n \in 0..n
    OBVIOUS
  <2> QED
    BY <2>1
<1>1. PICK m \in X : \A x \in X : m <= x
  <2>1. X \subseteq Nat
    OBVIOUS
  <2> HIDE DEF X
  <2> QED
    BY <2>1, Least
<1>2. m \in 0..n
  OBVIOUS
<1>3. m # 0
  <2> SUFFICES ASSUME m = 0 PROVE FALSE
    OBVIOUS
  <2> DEFINE f == [k \in 0..0 |-> a]
  <2>1. f \in [0..0 -> V] /\ f[0] = a /\ 1..0 = {}
    OBVIOUS
  <2> QED
    BY <2>1
<1>4. m - 1 \in 0..n /\ m - 1 \notin X
  <2> HIDE DEF X
  <2> QED
    BY <1>1, <1>2, <1>3
<1>5. PICK f \in [0..(m - 1) -> V] : Runs(m - 1, f)
  BY <1>4
<1> DEFINE g == [k \in 0..m |-> IF k = m THEN step[m][f[m - 1]] ELSE f[k]]
<1>6. m \in 1..n /\ m - 1 \in 0..(m - 1)
      /\ (\A k \in 0..m : k = m \/ k \in 0..(m - 1))
      /\ \A k \in 1..m : k - 1 \in 0..(m - 1) /\ k - 1 \in 0..m /\ k \in 0..m
                         /\ k - 1 # m /\ (k = m \/ k \in 1..(m - 1))
  BY <1>2, <1>3
<1>7. g \in [0..m -> V]
  <2>1. f[m - 1] \in V
    BY <1>6
  <2>3. step[m][f[m - 1]] \in V
    BY <1>6, <2>1
  <2>4. \A k \in 0..m : (IF k = m THEN step[m][f[m - 1]] ELSE f[k]) \in V
    BY <1>6, <2>3
  <2> QED
    BY <2>4
<1>8. g[0] = a
  BY <1>2, <1>3, <1>5
<1>9. ASSUME NEW k \in 1..m PROVE g[k] = step[k][g[k - 1]]
  <2>1. g[k - 1] = f[k - 1]
    BY <1>6
  <2>2. CASE k = m
    BY <2>1, <2>2, <1>6
  <2>3. CASE k \in 1..(m - 1)
    <3>1. g[k] = f[k] /\ k # m
      BY <2>3, <1>2, <1>6
    <3> QED
      BY <3>1, <2>1, <2>3, <1>5
  <2> QED
    BY <1>6, <2>2, <2>3
<1>10. Runs(m, g)
  <2> HIDE DEF g
  <2> QED
    BY <1>8, <1>9
<1> HIDE DEF Runs, g
<1> QED
  BY <1>7, <1>10, <1>1

-----------------------------------------------------------------------------
\* The places of a sorted list are the places of the list, each once.
LEMMA PlacesPermute ==
  ASSUME NEW n \in Nat, NEW ahead \in [1..n -> SUBSET (1..n)],
         \A j \in 1..n : j \notin ahead[j],
         \A i, j \in 1..n : i # j => i \in ahead[j] \/ j \in ahead[i],
         \A i, j \in 1..n : i \in ahead[j] => ahead[i] \subseteq ahead[j]
  PROVE  /\ Places(ahead) \in [1..n -> 1..n]
         /\ \A k \in 1..n : Cardinality(ahead[Places(ahead)[k]]) = k - 1
         /\ \A j \in 1..n : \E k \in 1..n : Places(ahead)[k] = j
         /\ \A k, l \in 1..n : k < l => Places(ahead)[k] \in ahead[Places(ahead)[l]]
<1> DEFINE D == 1..n
           c == [j \in D |-> Cardinality(ahead[j])]
<1>1. IsFiniteSet(D) /\ Cardinality(D) = n
  BY FS_Interval
<1>2. ASSUME NEW S \in SUBSET D
      PROVE  IsFiniteSet(S) /\ Cardinality(S) \in Nat /\ Cardinality(S) <= n
             /\ (Cardinality(S) = n => S = D)
  <2>1. S \subseteq D
    OBVIOUS
  <2>2. IsFiniteSet(S) /\ Cardinality(S) <= Cardinality(D)
        /\ (Cardinality(S) = Cardinality(D) => S = D)
    <3> HIDE DEF D
    <3> QED
      BY <1>1, <2>1, FS_Subset
  <2>3. Cardinality(S) \in Nat
    BY <2>2, FS_CardinalityType
  <2> QED
    BY <1>1, <2>2, <2>3
<1>3. \A j \in D : ahead[j] \in SUBSET D /\ c[j] \in 0..(n - 1)
  <2> SUFFICES ASSUME NEW j \in D PROVE ahead[j] \in SUBSET D /\ c[j] \in 0..(n - 1)
    OBVIOUS
  <2>1. ahead[j] \in SUBSET D /\ ahead[j] # D
    OBVIOUS
  <2>2. /\ Cardinality(ahead[j]) \in Nat /\ Cardinality(ahead[j]) <= n
        /\ Cardinality(ahead[j]) # n
    BY <1>2, <2>1
  <2>3. c[j] = Cardinality(ahead[j])
    OBVIOUS
  <2> HIDE DEF c
  <2> QED
    BY <2>1, <2>2, <2>3
<1>4. ASSUME NEW i \in D, NEW j \in D, i \in ahead[j] PROVE c[i] < c[j]
  <2>1. ahead[i] \in SUBSET ahead[j] /\ ahead[i] # ahead[j] /\ ahead[j] \in SUBSET D
    BY <1>4
  <2>2. IsFiniteSet(ahead[j])
    BY <1>2, <2>1
  <2>3. Cardinality(ahead[i]) <= Cardinality(ahead[j])
        /\ Cardinality(ahead[i]) # Cardinality(ahead[j])
    BY <2>1, <2>2, FS_Subset
  <2>4. c[i] \in 0..(n - 1) /\ c[j] \in 0..(n - 1)
    BY <1>3
  <2>5. c[i] <= c[j] /\ c[i] # c[j]
    BY <2>3
  <2> HIDE DEF c
  <2> QED
    BY <2>4, <2>5
<1>5. c \in Injection(D, 0..(n - 1))
  <2>1. c \in [D -> 0..(n - 1)]
    BY <1>3
  <2>2. ASSUME NEW i \in D, NEW j \in D, c[i] = c[j], i # j PROVE FALSE
    <3>1. c[i] < c[j] \/ c[j] < c[i]
      BY <1>4, <2>2
    <3>2. c[i] \in 0..(n - 1) /\ c[j] \in 0..(n - 1)
      BY <1>3
    <3> HIDE DEF c
    <3> QED
      BY <2>2, <3>1, <3>2
  <2> HIDE DEF c
  <2> QED
    BY <2>1, <2>2 DEF Injection, IsInjective
<1>6. c \in Surjection(D, 0..(n - 1))
  <2>1. n - 1 \in Int /\ 0 \in Int
    OBVIOUS
  <2>2. IsFiniteSet(0..(n - 1)) /\ Cardinality(0..(n - 1)) = n
    <3>1. IsFiniteSet(0..(n - 1))
          /\ Cardinality(0..(n - 1)) = IF 0 > n - 1 THEN 0 ELSE (n - 1) - 0 + 1
      BY <2>1, FS_Interval
    <3> QED
      BY <3>1
  <2> HIDE DEF c, D
  <2> QED
    BY <1>1, <1>5, <2>2, FS_Injection
<1> DEFINE p == Places(ahead)
<1>7. \A k \in D : p[k] \in D /\ Cardinality(ahead[p[k]]) = k - 1
  <2>1. \A k \in D : \E j \in DOMAIN ahead : Cardinality(ahead[j]) = k - 1
    <3> SUFFICES ASSUME NEW k \in D PROVE \E j \in D : Cardinality(ahead[j]) = k - 1
      OBVIOUS
    <3>1. k - 1 \in 0..(n - 1)
      OBVIOUS
    <3>2. PICK j \in D : c[j] = k - 1
      <4> HIDE DEF c, D
      <4> QED
        BY <1>6, <3>1 DEF Surjection
    <3> QED
      BY <3>2
  <2>2. \A k \in D : p[k] = CHOOSE j \in DOMAIN ahead : Cardinality(ahead[j]) = k - 1
    BY DEF Places
  <2> HIDE DEF p
  <2> QED
    BY <2>1, <2>2
<1>8. p \in [D -> D]
  <2>1. p = [k \in D |-> p[k]]
    BY DEF Places
  <2> HIDE DEF p
  <2> QED
    BY <1>7, <2>1
<1> HIDE DEF p
<1>9. ASSUME NEW j \in D PROVE \E k \in D : p[k] = j
  <2> DEFINE k == c[j] + 1
  <2>1. c[j] \in 0..(n - 1)
    BY <1>3
  <2> HIDE DEF c
  <2>2. k \in D /\ k - 1 = c[j]
    BY <2>1
  <2>3. p[k] \in D /\ Cardinality(ahead[p[k]]) = c[j]
    BY <1>7, <2>2
  <2>4. c[p[k]] = c[j]
    BY <2>3 DEF c
  <2>5. p[k] = j
    BY <1>5, <2>3, <2>4 DEF Injection, IsInjective
  <2> QED
    BY <2>2, <2>5
<1>10. ASSUME NEW k \in D, NEW l \in D, k < l PROVE p[k] \in ahead[p[l]]
  <2>1. p[k] \in D /\ p[l] \in D /\ c[p[k]] = k - 1 /\ c[p[l]] = l - 1
    BY <1>7
  <2> HIDE DEF c
  <2>2. p[k] # p[l]
    BY <1>10, <2>1
  <2>3. ~ (p[l] \in ahead[p[k]])
    <3> SUFFICES ASSUME p[l] \in ahead[p[k]] PROVE FALSE
      OBVIOUS
    <3>1. c[p[l]] < c[p[k]]
      BY <1>4, <2>1
    <3> QED
      BY <1>10, <2>1, <3>1
  <2> QED
    BY <2>1, <2>2, <2>3
<1> QED
  BY <1>7, <1>8, <1>9, <1>10 DEF p

\* sort.Strings gives the same strings, in order.
LEMMA SortedIs ==
  ASSUME NEW l \in Seq(Int)
  PROVE  /\ Sorted(l) \in Seq(Int) /\ Len(Sorted(l)) = Len(l)
         /\ Range(Sorted(l)) = Range(l)
         /\ IsInjective(l) =>
              \A k \in 1..Len(l) :
                \E j \in 1..Len(l) :
                  /\ Sorted(l)[k] = l[j]
                  /\ Cardinality({i \in 1..Len(l) : l[i] < l[j]}) = k - 1
<1> DEFINE n == Len(l)
           ahead == [j \in DOMAIN l |->
                       {i \in DOMAIN l : l[i] < l[j] \/ (l[i] = l[j] /\ i < j)}]
           s == [k \in DOMAIN l |-> l[Places(ahead)[k]]]
<1>1. n \in Nat /\ DOMAIN l = 1..n /\ \A i \in 1..n : l[i] \in Int
  OBVIOUS
<1>2. ahead \in [1..n -> SUBSET (1..n)]
      /\ \A i, j \in 1..n : i \in ahead[j] <=> (l[i] < l[j] \/ (l[i] = l[j] /\ i < j))
  BY <1>1
<1>3. Sorted(l) = s
  BY DEF Sorted
<1> HIDE DEF ahead
<1>4. /\ \A j \in 1..n : j \notin ahead[j]
      /\ \A i, j \in 1..n : i # j => i \in ahead[j] \/ j \in ahead[i]
      /\ \A i, j \in 1..n : i \in ahead[j] => ahead[i] \subseteq ahead[j]
  <2>1. \A i, j \in 1..n : i \in Int /\ j \in Int /\ l[i] \in Int /\ l[j] \in Int
    BY <1>1
  <2>2. \A j \in 1..n : j \notin ahead[j]
    BY <1>2, <2>1
  <2>3. \A i, j \in 1..n : i # j => i \in ahead[j] \/ j \in ahead[i]
    BY <1>2, <2>1
  <2>4. \A h, i, j \in 1..n : h \in ahead[i] /\ i \in ahead[j] => h \in ahead[j]
    BY <1>2, <2>1
  <2>5. \A i \in 1..n : ahead[i] \subseteq 1..n
    BY <1>2
  <2> QED
    BY <2>2, <2>3, <2>4, <2>5
<1> DEFINE p == Places(ahead)
<1>5. /\ p \in [1..n -> 1..n]
      /\ \A k \in 1..n : Cardinality(ahead[p[k]]) = k - 1
      /\ \A j \in 1..n : \E k \in 1..n : p[k] = j
  <2> HIDE DEF n
  <2> QED
    BY <1>1, <1>2, <1>4, PlacesPermute
<1> HIDE DEF p
<1>6. s = [k \in 1..n |-> l[p[k]]]
  BY <1>1 DEF p
<1> HIDE DEF s, n
<1>7. s \in [1..n -> Int] /\ \A k \in 1..n : s[k] = l[p[k]]
  BY <1>1, <1>5, <1>6
<1>8. s \in Seq(Int) /\ Len(s) = n /\ DOMAIN s = 1..n
  BY <1>1, <1>7
<1>9. Range(s) = Range(l)
  <2>1. Range(s) = {s[k] : k \in 1..n} /\ Range(l) = {l[k] : k \in 1..n}
    BY <1>1, <1>8 DEF Range
  <2>2. \A x \in Range(s) : x \in Range(l)
    BY <1>5, <1>7, <2>1
  <2>3. \A x \in Range(l) : x \in Range(s)
    BY <1>5, <1>7, <2>1
  <2> QED
    BY <2>2, <2>3
<1>10. ASSUME IsInjective(l), NEW k \in 1..n
       PROVE  \E j \in 1..n : /\ s[k] = l[j]
                              /\ Cardinality({i \in 1..n : l[i] < l[j]}) = k - 1
  <2>1. \A i, j \in 1..n : l[i] = l[j] => i = j
    BY <1>1, <1>10 DEF IsInjective
  <2>2. p[k] \in 1..n /\ s[k] = l[p[k]] /\ Cardinality(ahead[p[k]]) = k - 1
    BY <1>5, <1>7
  <2>3. ahead[p[k]] = {i \in 1..n : l[i] < l[p[k]]}
    <3>1. ahead[p[k]] \subseteq 1..n
      BY <1>2, <2>2
    <3>2. \A i \in 1..n : i \in ahead[p[k]] <=> l[i] < l[p[k]]
      BY <1>1, <1>2, <2>1, <2>2
    <3> QED
      BY <3>1, <3>2
  <2> QED
    BY <2>2, <2>3
<1> QED
  BY <1>3, <1>8, <1>9, <1>10 DEF n

\* The elements of a sequence.
LEMMA SeqParts ==
  ASSUME NEW S, NEW s \in Seq(S)
  PROVE  /\ Len(s) \in Nat /\ DOMAIN s = 1..Len(s)
         /\ \A i \in 1..Len(s) : s[i] \in S
OBVIOUS

\* One list has the elements of the other.
SameElements(t, s) ==
  /\ DOMAIN t = DOMAIN s
  /\ \A k \in DOMAIN s : \E j \in DOMAIN s : t[k] = s[j]
  /\ \A j \in DOMAIN s : \E k \in DOMAIN s : t[k] = s[j]

\* Sorting the signers of a receipt loses none and adds none.
LEMMA SignersKept ==
  ASSUME NEW n \in Nat, NEW s, DOMAIN s = 1..n,
         \A i \in 1..n : s[i].signer \in Nat /\ s[i].keyId \in Nat
  PROVE  SameElements(SortedSigners(s), s)
<1> DEFINE ahead == [j \in DOMAIN s |->
                       {i \in DOMAIN s :
                          \/ SignerBefore(s[i], s[j])
                          \/ ~ SignerBefore(s[j], s[i]) /\ i < j}]
           t == [k \in DOMAIN s |-> s[Places(ahead)[k]]]
<1>1. SortedSigners(s) = t
  BY DEF SortedSigners
<1>2. /\ ahead \in [1..n -> SUBSET (1..n)]
      /\ \A i, j \in 1..n : i \in ahead[j] <=>
           \/ SignerBefore(s[i], s[j])
           \/ ~ SignerBefore(s[j], s[i]) /\ i < j
  OBVIOUS
<1> DEFINE a == [i \in 1..n |-> s[i].signer]
           b == [i \in 1..n |-> s[i].keyId]
<1>3. a \in [1..n -> Nat] /\ b \in [1..n -> Nat]
  OBVIOUS
<1>4. \A i, j \in 1..n : i \in ahead[j] <=>
        \/ a[i] < a[j]
        \/ a[i] = a[j] /\ b[i] < b[j]
        \/ a[i] = a[j] /\ b[i] = b[j] /\ i < j
  <2> SUFFICES ASSUME NEW i \in 1..n, NEW j \in 1..n
               PROVE  i \in ahead[j] <=>
                        \/ a[i] < a[j]
                        \/ a[i] = a[j] /\ b[i] < b[j]
                        \/ a[i] = a[j] /\ b[i] = b[j] /\ i < j
    OBVIOUS
  <2>1. /\ SignerBefore(s[i], s[j]) <=> (a[i] < a[j] \/ (a[i] = a[j] /\ b[i] < b[j]))
        /\ SignerBefore(s[j], s[i]) <=> (a[j] < a[i] \/ (a[j] = a[i] /\ b[j] < b[i]))
    BY DEF SignerBefore
  <2>2. a[i] \in Nat /\ a[j] \in Nat /\ b[i] \in Nat /\ b[j] \in Nat
    BY <1>3
  <2> HIDE DEF a, b, ahead
  <2> QED
    BY <1>2, <2>1, <2>2
<1> HIDE DEF a, b, ahead
<1>5. /\ \A j \in 1..n : j \notin ahead[j]
      /\ \A i, j \in 1..n : i # j => i \in ahead[j] \/ j \in ahead[i]
      /\ \A i, j \in 1..n : i \in ahead[j] => ahead[i] \subseteq ahead[j]
  <2>1. \A i \in 1..n : i \in Nat /\ a[i] \in Nat /\ b[i] \in Nat
    BY <1>3
  <2>2. \A j \in 1..n : j \notin ahead[j]
    BY <1>4, <2>1
  <2>3. ASSUME NEW i \in 1..n, NEW j \in 1..n, i # j
        PROVE  i \in ahead[j] \/ j \in ahead[i]
    <3>1. /\ i \in Nat /\ a[i] \in Nat /\ b[i] \in Nat
          /\ j \in Nat /\ a[j] \in Nat /\ b[j] \in Nat
      BY <2>1
    <3>2. \/ a[i] < a[j] \/ (a[i] = a[j] /\ b[i] < b[j])
          \/ (a[i] = a[j] /\ b[i] = b[j] /\ i < j)
          \/ a[j] < a[i] \/ (a[j] = a[i] /\ b[j] < b[i])
          \/ (a[j] = a[i] /\ b[j] = b[i] /\ j < i)
      BY <2>3, <3>1
    <3> QED
      BY <1>4, <3>2
  <2>4. ASSUME NEW h \in 1..n, NEW i \in 1..n, NEW j \in 1..n,
               h \in ahead[i], i \in ahead[j]
        PROVE  h \in ahead[j]
    <3>1. /\ i \in Nat /\ a[i] \in Nat /\ b[i] \in Nat
          /\ j \in Nat /\ a[j] \in Nat /\ b[j] \in Nat
          /\ h \in Nat /\ a[h] \in Nat /\ b[h] \in Nat
      BY <2>1
    <3>2. \/ a[i] < a[j] \/ (a[i] = a[j] /\ b[i] < b[j])
          \/ (a[i] = a[j] /\ b[i] = b[j] /\ i < j)
      BY <1>4, <2>4
    <3>3. \/ a[h] < a[i] \/ (a[h] = a[i] /\ b[h] < b[i])
          \/ (a[h] = a[i] /\ b[h] = b[i] /\ h < i)
      BY <1>4, <2>4
    <3>4. \/ a[h] < a[j] \/ (a[h] = a[j] /\ b[h] < b[j])
          \/ (a[h] = a[j] /\ b[h] = b[j] /\ h < j)
      BY <3>1, <3>2, <3>3
    <3> QED
      BY <1>4, <3>4
  <2>5. \A i \in 1..n : ahead[i] \subseteq 1..n
    BY <1>2
  <2> QED
    BY <2>2, <2>3, <2>4, <2>5
<1> DEFINE p == Places(ahead)
<1>6. p \in [1..n -> 1..n] /\ \A j \in 1..n : \E k \in 1..n : p[k] = j
  BY <1>2, <1>5, PlacesPermute
<1>7. DOMAIN t = 1..n /\ \A k \in 1..n : t[k] = s[p[k]]
  OBVIOUS
<1> HIDE DEF p, t
<1>8. \A k \in 1..n : \E j \in 1..n : t[k] = s[j]
  BY <1>6, <1>7
<1>9. \A j \in 1..n : \E k \in 1..n : t[k] = s[j]
  BY <1>6, <1>7
<1> QED
  BY <1>1, <1>7, <1>8, <1>9 DEF SameElements

-----------------------------------------------------------------------------
\* The proof a signer of a draft adds to a receipt with this content.
ProofOf(c, s) ==
  [signer |-> s.signer, keyId |-> s.keyId,
   value |-> Sign(KeysOf[s.holder][s.keyId],
                  ReceiptSignaturePayload(c, ComputeReceiptID(c), s))]

\* The references and the date of a receipt are those of its draft.
ContentMade(c, d) ==
  /\ DOMAIN c = {"actionRef", "decisionRef", "prev", "issuer", "issuedAt", "evidenceRefs"}
  /\ c.actionRef = ComputeActionRefScopes(d.request) /\ c.actionRef # Error
  /\ c.decisionRef = (IF d.decision = Null THEN Null
                      ELSE BuildDecisionRef(c.actionRef, d.decision))
  /\ c.decisionRef # Error
  /\ c.issuedAt = d.fields.issuedAt

\* A receipt is signed by the signers of its draft and by no one else.
ReceiptMade(r, d) ==
  /\ d \in ReceiptDrafts
  /\ r = [content |-> r.content, receiptId |-> ComputeReceiptID(r.content),
          signatures |-> r.signatures]
  /\ ContentMade(r.content, d)
  /\ ValidateReceipt(r)
  /\ d.signers # << >> /\ DOMAIN r.signatures = 1..Len(d.signers)
  /\ \A j \in DOMAIN r.signatures : \E s \in Range(d.signers) :
       r.signatures[j] = ProofOf(r.content, s)
  /\ \A s \in Range(d.signers) : \E j \in DOMAIN r.signatures :
       r.signatures[j] = ProofOf(r.content, s)

\* What IssueReceipt gives CreateReceiptV1 to sign with.
SignersOf(d) ==
  [i \in DOMAIN d.signers |->
     [signer |-> d.signers[i].signer, keyId |-> d.signers[i].keyId,
      privateKey |-> KeysOf[d.signers[i].holder][d.signers[i].keyId]]]

\* CreateReceiptV1 signs its content, under the id of that, for every signer.
LEMMA CreateReceiptMakes ==
  ASSUME NEW d \in ReceiptDrafts, NEW fields, NEW r, ContentMade(fields, d),
         r = CreateReceipt(fields, SignersOf(d)), r # Error
  PROVE  ReceiptMade(r, d)
<1> DEFINE n == Len(d.signers)
           signers == SignersOf(d)
           c == [fields EXCEPT !.evidenceRefs = SortedEvidence(@)]
           id == ComputeReceiptID(c)
           t == SortedSigners(signers)
<1>1. /\ r = [content |-> c, receiptId |-> id,
              signatures |-> [i \in DOMAIN t |->
                [signer |-> t[i].signer, keyId |-> t[i].keyId,
                 value |-> Sign(t[i].privateKey, ReceiptSignaturePayload(c, id, t[i]))]]]
      /\ signers # << >> /\ ValidateReceipt(r)
  BY DEF CreateReceipt
<1>2. /\ d.signers \in Seq([signer : Parties, keyId : Nat, holder : Parties])
      /\ Parties \subseteq Nat
  BY PaperTrailAssumption DEF ReceiptDraft
<1>3. /\ n \in Nat /\ DOMAIN d.signers = 1..n
      /\ \A i \in 1..n : d.signers[i] \in [signer : Parties, keyId : Nat, holder : Parties]
  BY <1>2, SeqParts
<1> HIDE DEF n, signers
<1>4. DOMAIN signers = 1..n
      /\ \A i \in 1..n : signers[i].signer \in Nat /\ signers[i].keyId \in Nat
  BY <1>2, <1>3 DEF signers, SignersOf
<1>5. /\ DOMAIN t = 1..n
      /\ \A k \in 1..n : \E j \in 1..n : t[k] = signers[j]
      /\ \A j \in 1..n : \E k \in 1..n : t[k] = signers[j]
  <2>1. n \in Nat /\ DOMAIN signers = 1..n
    BY <1>3, <1>4
  <2>2. SameElements(t, signers)
    BY <2>1, <1>4, SignersKept
  <2> HIDE DEF t
  <2> QED
    BY <1>4, <2>2 DEF SameElements
<1>6. ContentMade(c, d)
  BY DEF ContentMade
<1> HIDE DEF t, c
<1>7. /\ r.content = c /\ r.receiptId = id
      /\ DOMAIN r.signatures = 1..n
      /\ \A k \in 1..n : r.signatures[k] =
           [signer |-> t[k].signer, keyId |-> t[k].keyId,
            value |-> Sign(t[k].privateKey, ReceiptSignaturePayload(c, id, t[k]))]
  BY <1>1, <1>5
<1>8. \A k, j \in 1..n : t[k] = signers[j] => r.signatures[k] = ProofOf(c, d.signers[j])
  <2> SUFFICES ASSUME NEW k \in 1..n, NEW j \in 1..n, t[k] = signers[j]
               PROVE  r.signatures[k] = ProofOf(c, d.signers[j])
    OBVIOUS
  <2>1. t[k].signer = d.signers[j].signer /\ t[k].keyId = d.signers[j].keyId
        /\ t[k].privateKey = KeysOf[d.signers[j].holder][d.signers[j].keyId]
    BY <1>3 DEF signers, SignersOf
  <2> QED
    BY <1>7, <2>1 DEF ProofOf, ReceiptSignaturePayload
<1>9. Range(d.signers) = {d.signers[j] : j \in 1..n}
  BY <1>3 DEF Range
<1>10. d.signers # << >>
  <2> SUFFICES ASSUME d.signers = << >> PROVE FALSE
    OBVIOUS
  <2>1. n = 0
    BY DEF n
  <2>2. signers = << >>
    BY <2>1, <1>3 DEF signers, SignersOf
  <2> QED
    BY <2>2, <1>1
<1>11. r = [content |-> r.content, receiptId |-> ComputeReceiptID(r.content),
            signatures |-> r.signatures]
  BY <1>1
<1>12. ASSUME NEW k \in 1..n
       PROVE  \E s \in Range(d.signers) : r.signatures[k] = ProofOf(c, s)
  <2>1. PICK j \in 1..n : t[k] = signers[j]
    BY <1>5
  <2>2. r.signatures[k] = ProofOf(c, d.signers[j])
    BY <1>8, <2>1
  <2>3. d.signers[j] \in Range(d.signers)
    BY <1>9
  <2> QED
    BY <2>2, <2>3
<1>13. ASSUME NEW s \in Range(d.signers)
       PROVE  \E k \in 1..n : r.signatures[k] = ProofOf(c, s)
  <2>1. PICK j \in 1..n : s = d.signers[j]
    BY <1>9
  <2>2. PICK k \in 1..n : t[k] = signers[j]
    BY <1>5
  <2>3. r.signatures[k] = ProofOf(c, d.signers[j])
    BY <1>8, <2>2
  <2> QED
    BY <2>1, <2>3
<1> QED
  BY <1>1, <1>6, <1>7, <1>10, <1>11, <1>12, <1>13 DEF ReceiptMade, n

-----------------------------------------------------------------------------
\* A supporting record is its content under its id, signed with its tag.
RecordMade(r) ==
  LET id == ComputeRecordID(r.content)
  IN r = [content |-> r.content, recordId |-> id,
          sig |-> Sign(r.sig.key, RecordSignaturePayload(r.content, id))]

\* What Complete has signed.
BodyOf(d) ==
  [d.body EXCEPT !.permitReceiptHash =
     IF d.permit = Null THEN Null ELSE PermitHash(d.permit)]

CompletionMade(c) ==
  /\ c.draft \in CompletionDrafts
  /\ c.completion = [body |-> BodyOf(c.draft),
                     signature |-> Sign(KeysOf[c.draft.executor][1], BodyOf(c.draft))]
  /\ BodyOf(c.draft).permitReceiptHash # Null

\* What Sell has signed.
SaleOf(d) ==
  [d.receipt EXCEPT !.delegationChain = ExtractDelegationChain(d.publicKey, d.delegators)]

SaleMade(x) ==
  /\ x.draft \in SaleDrafts
  /\ x.sale = [receipt |-> SaleOf(x.draft),
               signature |-> Sign(x.draft.privateKey, SaleOf(x.draft))]

\* The first signature of an envelope is over a statement as BuildStatement
\* spells it or over one spelt another way.
EnvelopeMade(e) ==
  \E d \in EmitDrafts :
    \/ e.signatures[1].sig = Sign(d.signerPrivateKey, BuildStatement(d))
    \/ e.signatures[1].sig = Sign(d.signerPrivateKey, Respelt(BuildStatement(d)))

AttestationMade(a) ==
  /\ a.draft \in AttestDrafts
  /\ a.attestation = AttestFloor(a.draft.body, a.draft.privateKey)

ReportMade(r) == \E d \in ReportDrafts : r = SignReport(d.report, d.privateKey)

\* Every artifact is what its creating function makes of its draft, and the
\* directory lists times, of no more keys than a party has.
PaperInv ==
  /\ now \in Nat /\ directory \in [Parties -> Seq(Nat)]
  /\ \A p \in Parties : Len(directory[p]) <= Len(KeysOf[p])
  /\ \A i \in issued : ReceiptMade(i.receipt, i.draft)
  /\ \A r \in recorded : RecordMade(r)
  /\ \A c \in completed : CompletionMade(c)
  /\ \A x \in sold : SaleMade(x)
  /\ \A e \in emitted : EnvelopeMade(e)
  /\ \A a \in attested : AttestationMade(a)
  /\ \A r \in reported : ReportMade(r)

\* The keys of a party.
LEMMA PartyKeys ==
  ASSUME NEW p \in Parties
  PROVE  /\ Len(KeysOf[p]) \in Nat \ {0} /\ DOMAIN KeysOf[p] = 1..Len(KeysOf[p])
         /\ \A k \in DOMAIN KeysOf[p] : KeysOf[p][k] # Null
<1>1. KeysOf[p] \in Seq(Range(KeysOf[p])) /\ KeysOf[p] # << >>
      /\ Null \notin Range(KeysOf[p])
  BY PaperTrailAssumption DEF IsSeq
<1>2. Len(KeysOf[p]) \in Nat /\ DOMAIN KeysOf[p] = 1..Len(KeysOf[p])
  BY <1>1, SeqParts
<1>3. Len(KeysOf[p]) # 0
  BY <1>1
<1>4. \A k \in DOMAIN KeysOf[p] : KeysOf[p][k] \in Range(KeysOf[p])
  BY DEF Range
<1> QED
  BY <1>1, <1>2, <1>3, <1>4

\* Each creating function keeps the invariant.
LEMMA MadeKept ==
  ASSUME PaperInv, [Next]_vars
  PROVE  PaperInv'
<1>1. ASSUME NEW d \in ReceiptDrafts, IssueReceipt(d) PROVE PaperInv'
  <2> DEFINE actionRef == ComputeActionRefScopes(d.request)
             decisionRef == IF d.decision = Null THEN Null
                            ELSE BuildDecisionRef(actionRef, d.decision)
             fields == [actionRef |-> actionRef, decisionRef |-> decisionRef,
                        prev |-> d.fields.prev, issuer |-> d.fields.issuer,
                        issuedAt |-> d.fields.issuedAt,
                        evidenceRefs |-> d.fields.evidenceRefs]
             r == CreateReceipt(fields, SignersOf(d))
  <2>1. /\ actionRef # Error /\ decisionRef # Error /\ r # Error
        /\ issued' = issued \cup {[draft |-> d, receipt |-> r]}
        /\ UNCHANGED <<now, directory, recorded, completed, sold, emitted, attested, reported>>
    BY <1>1 DEF IssueReceipt, SignersOf
  <2>2. ContentMade(fields, d)
    BY <2>1 DEF ContentMade
  <2>3. ReceiptMade(r, d)
    <3> HIDE DEF fields
    <3> QED
      BY <2>1, <2>2, CreateReceiptMakes
  <2> HIDE DEF r
  <2>4. \A i \in issued' : ReceiptMade(i.receipt, i.draft)
    BY <2>1, <2>3 DEF PaperInv
  <2> QED
    BY <2>1, <2>4 DEF PaperInv
<1>2. ASSUME NEW d \in RecordDrafts, IssueRecord(d) PROVE PaperInv'
  <2> DEFINE r == CreateRecord(d.content, KeysOf[d.party][1])
  <2>1. /\ r # Error /\ recorded' = recorded \cup {r}
        /\ UNCHANGED <<now, directory, issued, completed, sold, emitted, attested, reported>>
    BY <1>2 DEF IssueRecord
  <2>2. RecordMade(r)
    BY <2>1 DEF CreateRecord, RecordMade, Sign
  <2> HIDE DEF r
  <2> QED
    BY <2>1, <2>2 DEF PaperInv
<1>3. ASSUME NEW d \in CompletionDrafts, Complete(d) PROVE PaperInv'
  <2> DEFINE c == CreateCompletion(BodyOf(d), KeysOf[d.executor][1])
             x == [draft |-> d, completion |-> c]
  <2>1. /\ c # Error /\ completed' = completed \cup {x}
        /\ UNCHANGED <<now, directory, issued, recorded, sold, emitted, attested, reported>>
    BY <1>3 DEF Complete, BodyOf
  <2>2. CompletionMade(x)
    BY <2>1 DEF CreateCompletion, CompletionMade
  <2> HIDE DEF x
  <2> QED
    BY <2>1, <2>2 DEF PaperInv
<1>4. ASSUME NEW d \in SaleDrafts, Sell(d) PROVE PaperInv'
  <2> DEFINE s == SignCommerceReceipt(SaleOf(d), d.privateKey)
             x == [draft |-> d, sale |-> s]
  <2>1. /\ s # Error /\ sold' = sold \cup {x}
        /\ UNCHANGED <<now, directory, issued, recorded, completed, emitted, attested, reported>>
    BY <1>4 DEF Sell, SaleOf
  <2>2. SaleMade(x)
    BY <2>1 DEF SignCommerceReceipt, SaleMade
  <2> HIDE DEF x
  <2> QED
    BY <2>1, <2>2 DEF PaperInv
<1>5. ASSUME NEW d \in EmitDrafts, Emit(d) PROVE PaperInv'
  <2> DEFINE e == EmitDecisionReceipt(d)
  <2>1. /\ e # Error /\ emitted' = emitted \cup {e}
        /\ UNCHANGED <<now, directory, issued, recorded, completed, sold, attested, reported>>
    BY <1>5 DEF Emit
  <2>2. e.signatures = <<[keyid |-> d.signerKeyId,
                          sig |-> Sign(d.signerPrivateKey, BuildStatement(d))]>>
    BY <2>1 DEF EmitDecisionReceipt
  <2>3. EnvelopeMade(e)
    BY <2>2 DEF EnvelopeMade
  <2> HIDE DEF e
  <2> QED
    BY <2>1, <2>3 DEF PaperInv
<1>6. ASSUME NEW d \in EmitDrafts, EmitRespelt(d) PROVE PaperInv'
  <2> DEFINE text == Respelt(BuildStatement(d))
             e == [payload |-> text,
                   signatures |-> <<[keyid |-> d.signerKeyId,
                                     sig |-> Sign(d.signerPrivateKey, text)]>>]
  <2>1. /\ emitted' = emitted \cup {e}
        /\ UNCHANGED <<now, directory, issued, recorded, completed, sold, attested, reported>>
    BY <1>6 DEF EmitRespelt
  <2>2. EnvelopeMade(e)
    BY DEF EnvelopeMade
  <2> HIDE DEF e
  <2> QED
    BY <2>1, <2>2 DEF PaperInv
<1>7. ASSUME NEW d \in AttestDrafts, Attest(d) PROVE PaperInv'
  <2> DEFINE x == [draft |-> d, attestation |-> AttestFloor(d.body, d.privateKey)]
  <2>1. /\ attested' = attested \cup {x}
        /\ UNCHANGED <<now, directory, issued, recorded, completed, sold, emitted, reported>>
    BY <1>7 DEF Attest
  <2>2. AttestationMade(x)
    BY DEF AttestationMade
  <2> HIDE DEF x
  <2> QED
    BY <2>1, <2>2 DEF PaperInv
<1>8. ASSUME NEW d \in ReportDrafts, Report(d) PROVE PaperInv'
  <2> DEFINE r == SignReport(d.report, d.privateKey)
  <2>1. /\ reported' = reported \cup {r}
        /\ UNCHANGED <<now, directory, issued, recorded, completed, sold, emitted, attested>>
    BY <1>8 DEF Report
  <2>2. ReportMade(r)
    BY DEF ReportMade
  <2> HIDE DEF r
  <2> QED
    BY <2>1, <2>2 DEF PaperInv
<1>9. ASSUME NEW p \in Parties, Rotate(p) PROVE PaperInv'
  <2>1. /\ directory' = [directory EXCEPT ![p] = Append(@, now + 1)]
        /\ UNCHANGED <<now, issued, recorded, completed, sold, emitted, attested, reported>>
    BY <1>9 DEF Rotate
  <2>2. directory' \in [Parties -> Seq(Nat)]
    <3>1. now \in Nat /\ directory \in [Parties -> Seq(Nat)]
      BY DEF PaperInv
    <3>2. Append(directory[p], now + 1) \in Seq(Nat)
      BY <3>1
    <3> QED
      BY <2>1, <3>1, <3>2
  <2>3. ASSUME NEW q \in Parties PROVE Len(directory'[q]) <= Len(KeysOf[q])
    <3>1. directory[q] \in Seq(Nat) /\ directory \in [Parties -> Seq(Nat)]
          /\ Len(directory[q]) <= Len(KeysOf[q])
      BY DEF PaperInv
    <3>2. CASE q = p
      <4>1. directory'[q] = Append(directory[q], now + 1)
        BY <2>1, <3>1, <3>2
      <4>2. Len(directory'[q]) = Len(directory[q]) + 1 /\ Len(directory[q]) \in Nat
        BY <3>1, <4>1
      <4>3. Len(directory[q]) < Len(KeysOf[q]) /\ Len(KeysOf[q]) \in Nat
        BY <1>9, <3>2, PartyKeys DEF Rotate
      <4> QED
        BY <4>2, <4>3
    <3>3. CASE q # p
      BY <2>1, <3>1, <3>3
    <3> QED
      BY <3>2, <3>3
  <2> QED
    BY <2>1, <2>2, <2>3 DEF PaperInv
<1>10. CASE Tick
  BY <1>10 DEF Tick, PaperInv
<1>11. CASE UNCHANGED vars
  BY <1>11 DEF vars, PaperInv
<1> QED
  BY <1>1, <1>2, <1>3, <1>4, <1>5, <1>6, <1>7, <1>8, <1>9, <1>10, <1>11 DEF Next

\* Every artifact of every behaviour is what its creating function makes.
THEOREM PaperInductive ==
  Spec => []PaperInv
<1>1. Init => PaperInv
  <2> SUFFICES ASSUME Init PROVE PaperInv
    OBVIOUS
  <2>1. directory = [p \in Parties |-> <<0>>] /\ <<0>> \in Seq(Nat) /\ Len(<<0>>) = 1
    BY DEF Init
  <2>2. \A p \in Parties : Len(directory[p]) = 1 /\ 1 <= Len(KeysOf[p])
    BY <2>1, PartyKeys
  <2>3. /\ now = 0 /\ issued = {} /\ recorded = {} /\ completed = {}
        /\ sold = {} /\ emitted = {} /\ attested = {} /\ reported = {}
    BY DEF Init
  <2> QED
    BY <2>1, <2>2, <2>3 DEF PaperInv
<1> QED
  BY <1>1, MadeKept, PTL DEF Spec

-----------------------------------------------------------------------------
\* A signer of a draft.
LEMMA DraftSigner ==
  ASSUME NEW d \in ReceiptDrafts, NEW s \in Range(d.signers)
  PROVE  /\ s.signer \in Parties /\ s.holder \in Parties
         /\ s = [signer |-> s.signer, keyId |-> s.keyId, holder |-> s.holder]
         /\ s.keyId \in DOMAIN KeysOf[s.holder]
<1>1. /\ d.signers \in Seq([signer : Parties, keyId : Nat, holder : Parties])
      /\ s.keyId \in DOMAIN KeysOf[s.holder]
  BY PaperTrailAssumption DEF ReceiptDraft
<1>2. s \in [signer : Parties, keyId : Nat, holder : Parties]
  <2>1. PICK i \in DOMAIN d.signers : s = d.signers[i]
    BY DEF Range
  <2> QED
    BY <1>1, <2>1, SeqParts
<1> QED
  BY <1>1, <1>2

\* No key is two parties'.
LEMMA KeysDistinct ==
  ASSUME NEW p \in Parties, NEW q \in Parties, NEW i \in DOMAIN KeysOf[p],
         NEW j \in DOMAIN KeysOf[q], KeysOf[p][i] = KeysOf[q][j]
  PROVE  p = q
BY PaperTrailAssumption

\* A proof that verifies for a content was made by its signer for this
\* content, if it was made at all.
LEMMA ProofNames ==
  ASSUME PaperInv, NEW v \in ReceiptSignatures,
         NEW party \in Parties, NEW keyId, NEW content, NEW id,
         NEW key, key = ResolveKey(directory, party, keyId, content.issuedAt),
         key # Null,
         Verifies(v, ReceiptSignaturePayload(content, id,
                       [signer |-> party, keyId |-> keyId, value |-> v]), key)
  PROVE  SignedInOwnName(content, party, keyId) /\ keyId \in DOMAIN KeysOf[party]
<1>1. PICK i \in issued : \E j \in DOMAIN i.receipt.signatures :
        v = i.receipt.signatures[j].value
  BY DEF ReceiptSignatures
<1>12. PICK j \in DOMAIN i.receipt.signatures : v = i.receipt.signatures[j].value
  BY <1>1
<1>2. ReceiptMade(i.receipt, i.draft)
  BY DEF PaperInv
<1> DEFINE c == i.receipt.content
<1>3. PICK s \in Range(i.draft.signers) : i.receipt.signatures[j] = ProofOf(c, s)
  BY <1>2 DEF ReceiptMade
<1>4. v = Sign(KeysOf[s.holder][s.keyId],
               ReceiptSignaturePayload(c, ComputeReceiptID(c), s))
  BY <1>12, <1>3 DEF ProofOf
<1>5. v = Sign(key, ReceiptSignaturePayload(content, id,
                      [signer |-> party, keyId |-> keyId, value |-> v]))
  BY DEF Verifies
<1>6. key = KeysOf[s.holder][s.keyId]
      /\ ReceiptSignaturePayload(c, ComputeReceiptID(c), s)
         = ReceiptSignaturePayload(content, id,
                       [signer |-> party, keyId |-> keyId, value |-> v])
  BY <1>4, <1>5 DEF Sign
<1>7. c = content /\ s.signer = party /\ s.keyId = keyId
  BY <1>6 DEF ReceiptSignaturePayload
<1>8. key = KeysOf[party][keyId] /\ keyId \in DOMAIN directory[party]
  BY DEF ResolveKey
<1>9. /\ s.holder \in Parties /\ keyId \in DOMAIN KeysOf[s.holder]
      /\ s = [signer |-> party, keyId |-> keyId, holder |-> s.holder]
  BY <1>2, <1>7, DraftSigner DEF ReceiptMade
<1>10. KeysOf[s.holder][keyId] = KeysOf[party][keyId] /\ keyId \in DOMAIN KeysOf[party]
  <2>1. directory[party] \in Seq(Nat) /\ Len(directory[party]) <= Len(KeysOf[party])
    BY DEF PaperInv
  <2>2. keyId \in 1..Len(directory[party]) /\ Len(directory[party]) \in Nat
    BY <1>8, <2>1, SeqParts
  <2>3. Len(KeysOf[party]) \in Nat /\ DOMAIN KeysOf[party] = 1..Len(KeysOf[party])
    BY PartyKeys
  <2>4. keyId \in DOMAIN KeysOf[party]
    BY <2>1, <2>2, <2>3
  <2> QED
    BY <2>4, <1>6, <1>7, <1>8
<1>11. s.holder = party
  BY <1>9, <1>10, KeysDistinct
<1> QED
  BY <1>2, <1>7, <1>8, <1>9, <1>10, <1>11 DEF SignedInOwnName

\* VerifyReceiptV1 calls no receipt valid that its signers and its issuer did
\* not sign as it is, each with the key that was its own at issued_at, and
\* every receipt CreateReceiptV1 made with such keys.
THEOREM ReceiptsAreVouchedFor ==
  Spec => []ReceiptVouchedFor
<1>1. ASSUME PaperInv, NEW r \in Shown, VerifyReceipt(r, directory)
      PROVE  /\ \A j \in DOMAIN r.signatures :
                  SignedInOwnName(r.content, r.signatures[j].signer, r.signatures[j].keyId)
             /\ \E k \in DOMAIN KeysOf[r.content.issuer] :
                  SignedInOwnName(r.content, r.content.issuer, k)
  <2> DEFINE I == {ComputeReceiptID(c) : c \in ShownContents}
             L == {<<p>> : p \in ShownProofs} \cup
                  {s \in ShownProofs \X ShownProofs : s[1].signer < s[2].signer}
  <2>5. \A l \in L : \A j \in DOMAIN l : l[j] \in ShownProofs
    OBVIOUS
  <2>6. Shown = {[content |-> c, receiptId |-> id, signatures |-> l] :
                   c \in ShownContents, id \in I, l \in L}
    BY DEF Shown
  <2> HIDE DEF I, L
  <2>1. PICK c \in ShownContents, id \in I, l \in L :
          r = [content |-> c, receiptId |-> id, signatures |-> l]
    BY <2>6
  <2>2. \A j \in DOMAIN l : l[j] \in ShownProofs
    BY <2>5
  <2>3. ASSUME NEW j \in DOMAIN r.signatures
        PROVE  /\ SignedInOwnName(r.content, r.signatures[j].signer, r.signatures[j].keyId)
               /\ r.signatures[j].keyId \in DOMAIN KeysOf[r.signatures[j].signer]
    <3>1. PICK p \in Parties, k \in 1..2, v \in ReceiptSignatures :
            r.signatures[j] = [signer |-> p, keyId |-> k, value |-> v]
      BY <2>1, <2>2 DEF ShownProofs
    <3> DEFINE key == ResolveKey(directory, p, k, r.content.issuedAt)
    <3>2. /\ key # Null
          /\ Verifies(v, ReceiptSignaturePayload(r.content, r.receiptId,
                           [signer |-> p, keyId |-> k, value |-> v]), key)
      BY <1>1, <3>1 DEF VerifyReceipt
    <3> HIDE DEF key
    <3>3. SignedInOwnName(r.content, p, k) /\ k \in DOMAIN KeysOf[p]
      BY <1>1, <3>2, ProofNames DEF key
    <3> QED
      BY <3>1, <3>3
  <2>4. PICK j \in DOMAIN r.signatures : r.signatures[j].signer = r.content.issuer
    BY <1>1 DEF VerifyReceipt, ValidateReceipt
  <2> QED
    BY <2>3, <2>4
<1>2. ASSUME PaperInv, NEW i \in issued
      PROVE  VerifyReceipt(i.receipt, directory) <=>
               \A s \in Range(i.draft.signers) :
                 /\ s.holder = s.signer
                 /\ SignedInOwnName(i.receipt.content, s.signer, s.keyId)
  <2> DEFINE r == i.receipt
             c == r.content
             key(s) == ResolveKey(directory, s.signer, s.keyId, c.issuedAt)
  <2>1. ReceiptMade(r, i.draft)
    BY <1>2 DEF PaperInv
  <2>2. r.receiptId = ComputeReceiptID(c) /\ ValidateReceipt(r) /\ i.draft \in ReceiptDrafts
    BY <2>1 DEF ReceiptMade
  <2> HIDE DEF c
  <2>3. ASSUME NEW s \in Range(i.draft.signers), NEW j \in DOMAIN r.signatures,
               r.signatures[j] = ProofOf(c, s)
        PROVE  /\ r.signatures[j].signer = s.signer /\ r.signatures[j].keyId = s.keyId
               /\ Verifies(r.signatures[j].value,
                    ReceiptSignaturePayload(c, r.receiptId, r.signatures[j]), key(s))
                  <=> key(s) = KeysOf[s.holder][s.keyId]
    <3>1. r.signatures[j].signer = s.signer /\ r.signatures[j].keyId = s.keyId
      BY <2>3 DEF ProofOf
    <3>2. ReceiptSignaturePayload(c, r.receiptId, r.signatures[j])
          = ReceiptSignaturePayload(c, ComputeReceiptID(c), s)
      BY <2>2, <3>1 DEF ReceiptSignaturePayload
    <3>3. r.signatures[j].value = Sign(KeysOf[s.holder][s.keyId],
                                    ReceiptSignaturePayload(c, ComputeReceiptID(c), s))
      BY <2>3 DEF ProofOf
    <3> QED
      BY <3>1, <3>2, <3>3 DEF Verifies, Sign
  <2>4. ASSUME VerifyReceipt(r, directory), NEW s \in Range(i.draft.signers)
        PROVE  s.holder = s.signer /\ SignedInOwnName(c, s.signer, s.keyId)
    <3>1. PICK j \in DOMAIN r.signatures : r.signatures[j] = ProofOf(c, s)
      BY <2>1 DEF ReceiptMade, c
    <3>2. /\ key(s) # Null
          /\ Verifies(r.signatures[j].value,
               ReceiptSignaturePayload(c, r.receiptId, r.signatures[j]), key(s))
      BY <2>3, <2>4, <3>1 DEF VerifyReceipt, c
    <3>3. r.signatures[j].value \in ReceiptSignatures
      BY DEF ReceiptSignatures
    <3>4. s.signer \in Parties /\ s.holder \in Parties /\ s.keyId \in DOMAIN KeysOf[s.holder]
      BY <2>2, DraftSigner
    <3>5. ReceiptSignaturePayload(c, r.receiptId, r.signatures[j])
          = ReceiptSignaturePayload(c, r.receiptId, [signer |-> s.signer,
              keyId |-> s.keyId, value |-> r.signatures[j].value])
      BY <2>3, <3>1 DEF ReceiptSignaturePayload
    <3>6. SignedInOwnName(c, s.signer, s.keyId) /\ s.keyId \in DOMAIN KeysOf[s.signer]
      BY <1>2, <3>2, <3>3, <3>4, <3>5, ProofNames
    <3>7. KeysOf[s.signer][s.keyId] = KeysOf[s.holder][s.keyId]
      BY <2>3, <3>1, <3>2, <3>6 DEF SignedInOwnName
    <3>8. s.holder = s.signer
      BY <3>4, <3>6, <3>7, KeysDistinct
    <3> QED
      BY <3>6, <3>8
  <2>5. ASSUME \A s \in Range(i.draft.signers) :
                 /\ s.holder = s.signer
                 /\ SignedInOwnName(c, s.signer, s.keyId),
               NEW j \in DOMAIN r.signatures
        PROVE  LET proof == r.signatures[j]
                   k == ResolveKey(directory, proof.signer, proof.keyId, c.issuedAt)
               IN k # Null /\ Verifies(proof.value,
                                ReceiptSignaturePayload(c, r.receiptId, proof), k)
    <3>1. PICK s \in Range(i.draft.signers) : r.signatures[j] = ProofOf(c, s)
      BY <2>1 DEF ReceiptMade, c
    <3>2. /\ s.signer \in Parties /\ s.holder = s.signer
          /\ key(s) = KeysOf[s.signer][s.keyId] /\ s.keyId \in DOMAIN KeysOf[s.signer]
      BY <2>2, <2>5, DraftSigner DEF SignedInOwnName
    <3>3. key(s) # Null
      BY <3>2, PartyKeys
    <3> QED
      BY <2>3, <3>1, <3>2, <3>3
  <2> QED
    BY <2>2, <2>4, <2>5 DEF VerifyReceipt, c
<1>3. PaperInv => ReceiptVouchedFor
  BY <1>1, <1>2 DEF ReceiptVouchedFor
<1> QED
  BY <1>3, PaperInductive, PTL

-----------------------------------------------------------------------------
\* A key that becomes current later changes no answer about an earlier time.
LEMMA ResolveStable ==
  ASSUME PaperInv, NEW p \in Parties, Rotate(p),
         NEW q \in Parties, NEW k, NEW at \in Int, at <= now
  PROVE  ResolveKey(directory', q, k, at) = ResolveKey(directory, q, k, at)
<1> DEFINE old == directory[q]
           new == directory'[q]
<1>1. now \in Nat /\ directory \in [Parties -> Seq(Nat)] /\ old \in Seq(Nat)
  BY DEF PaperInv
<1>2. directory' = [directory EXCEPT ![p] = Append(@, now + 1)]
  BY DEF Rotate
<1>3. CASE q # p
  <2>1. new = old
    BY <1>1, <1>2, <1>3
  <2> QED
    BY <2>1 DEF ResolveKey
<1>4. CASE q = p
  <2> DEFINE n == Len(old)
  <2>1. new = Append(old, now + 1)
    BY <1>1, <1>2, <1>4
  <2>2. n \in Nat /\ DOMAIN old = 1..n /\ DOMAIN new = 1..(n + 1)
        /\ new[n + 1] = now + 1 /\ \A j \in 1..n : new[j] = old[j] /\ old[j] \in Nat
    BY <1>1, <2>1
  <2> HIDE DEF n, old, new
  <2> DEFINE Is(d) == k \in DOMAIN d /\ d[k] <= at
                      /\ (k + 1 \in DOMAIN d => at < d[k + 1])
  <2>3. Is(new) <=> Is(old)
    <3>1. CASE k \notin 1..(n + 1)
      BY <2>2, <3>1
    <3>2. CASE k = n + 1
      <4>1. k \notin DOMAIN old /\ ~ (new[k] <= at)
        BY <1>1, <2>2, <3>2
      <4> QED
        BY <4>1
    <3>3. CASE k \in 1..n /\ k # n
      <4>1. k + 1 \in 1..n /\ k + 1 \in 1..(n + 1) /\ k \in 1..(n + 1)
        BY <2>2, <3>3
      <4> QED
        BY <2>2, <3>3, <4>1
    <3>4. CASE k = n /\ k \in 1..n
      <4>1. k + 1 \notin 1..n /\ k + 1 \in 1..(n + 1) /\ k \in 1..(n + 1)
        BY <2>2, <3>4
      <4>2. at < new[k + 1]
        BY <1>1, <2>2, <3>4
      <4> QED
        BY <2>2, <3>4, <4>1, <4>2
    <3> QED
      BY <2>2, <3>1, <3>2, <3>3, <3>4
  <2> QED
    BY <2>3 DEF ResolveKey, old, new
<1> QED
  BY <1>3, <1>4

\* A receipt keeps its verdict once its date has passed, whatever keys its
\* signers move to, and a refused attestation stays refused.
THEOREM VerdictsStand ==
  Spec => VerdictStands
<1>1. ASSUME PaperInv, [Next]_vars, NEW i \in issued, i.receipt.content.issuedAt <= now
      PROVE  VerifyReceipt(i.receipt, directory) = VerifyReceipt(i.receipt, directory')
  <2> DEFINE r == i.receipt
             at == r.content.issuedAt
  <2>1. CASE \E p \in Parties : Rotate(p)
    <3>1. PICK p \in Parties : Rotate(p)
      BY <2>1
    <3>2. ReceiptMade(r, i.draft)
      BY <1>1 DEF PaperInv
    <3>3. i.draft \in ReceiptDrafts /\ at = i.draft.fields.issuedAt /\ WellFormed(at)
      BY <3>2 DEF ReceiptMade, ContentMade, ValidateReceipt, ContentOk
    <3>4. at \in Int
      <4>1. at \in Instant
        BY <3>3, PaperTrailAssumption DEF ReceiptDraft
      <4> QED
        BY <3>3, <4>1 DEF WellFormed, Instant
    <3>5. \A j \in DOMAIN r.signatures : r.signatures[j].signer \in Parties
      <4> SUFFICES ASSUME NEW j \in DOMAIN r.signatures
                   PROVE  r.signatures[j].signer \in Parties
        OBVIOUS
      <4>1. PICK s \in Range(i.draft.signers) : r.signatures[j] = ProofOf(r.content, s)
        BY <3>2 DEF ReceiptMade
      <4>2. s.signer \in Parties
        BY <3>3, DraftSigner
      <4> QED
        BY <4>1, <4>2 DEF ProofOf
    <3>6. \A j \in DOMAIN r.signatures :
            ResolveKey(directory', r.signatures[j].signer, r.signatures[j].keyId, at)
              = ResolveKey(directory, r.signatures[j].signer, r.signatures[j].keyId, at)
      BY <1>1, <3>1, <3>4, <3>5, ResolveStable
    <3>7. VerifyReceipt(r, directory) <=> VerifyReceipt(r, directory')
      BY <3>6 DEF VerifyReceipt
    <3> QED
      BY <3>7 DEF VerifyReceipt
  <2>2. CASE ~ \E p \in Parties : Rotate(p)
    <3>1. directory' = directory
      BY <1>1, <2>2 DEF Next, vars, IssueReceipt, IssueRecord, Complete, Sell, Emit,
                        EmitRespelt, Attest, Report, Tick
    <3> QED
      BY <3>1
  <2> QED
    BY <2>1, <2>2
<1>2. ASSUME PaperInv, [Next]_vars, NEW a \in attested,
             VerifyAttestation(a.attestation, now')
      PROVE  VerifyAttestation(a.attestation, now)
  <2>1. now \in Nat /\ now' \in Nat /\ now <= now'
    <3>1. now \in Nat
      BY <1>2 DEF PaperInv
    <3>2. now' = now \/ now' = now + 1
      BY <1>2 DEF Next, vars, IssueReceipt, IssueRecord, Complete, Sell, Emit,
                  EmitRespelt, Attest, Report, Rotate, Tick
    <3> QED
      BY <3>1, <3>2
  <2> DEFINE x == a.attestation.body.expiresAt
  <2>2. x \in Instant
    <3>1. a.draft \in AttestDrafts /\ a.attestation = AttestFloor(a.draft.body, a.draft.privateKey)
      BY <1>2 DEF PaperInv, AttestationMade
    <3>2. a.draft.body.expiresAt \in Instant /\ "expiresAt" \in DOMAIN a.draft.body
      BY <3>1, PaperTrailAssumption DEF AttestDraft
    <3>3. x = a.draft.body.expiresAt
      BY <3>1, <3>2 DEF AttestFloor
    <3> QED
      BY <3>2, <3>3
  <2>3. ExpiryHolds(x, now') => ExpiryHolds(x, now)
    <3>1. Null \notin Int /\ Malformed \notin Int
      BY PaperTrailAssumption
    <3> HIDE DEF x
    <3> QED
      BY <2>1, <2>2, <3>1 DEF ExpiryHolds, Instant
  <2> QED
    BY <1>2, <2>3 DEF VerifyAttestation
<1>3. PaperInv /\ [Next]_vars =>
        [/\ \A i \in issued : i.receipt.content.issuedAt <= now =>
              VerifyReceipt(i.receipt, directory) = VerifyReceipt(i.receipt, directory')
         /\ \A a \in attested :
              VerifyAttestation(a.attestation, now') => VerifyAttestation(a.attestation, now)
        ]_vars
  BY <1>1, <1>2
<1> QED
  BY <1>3, PaperInductive, PTL DEF Spec, VerdictStands

-----------------------------------------------------------------------------
\* A signature over a text behind this tag, or over a text without one.
SignedUnder(s, tag) ==
  s = Sign(s.key, s.payload) /\ "tag" \in DOMAIN s.payload /\ s.payload.tag = tag

SignedBare(s) == s = Sign(s.key, s.payload) /\ "tag" \notin DOMAIN s.payload

\* The proofs of receipts are over texts behind the receipts' tag.
LEMMA ReceiptTag ==
  ASSUME PaperInv, NEW s \in ReceiptSignatures
  PROVE  SignedUnder(s, "APS-RECEIPT-SIG-V1")
<1>1. PICK i \in issued : \E j \in DOMAIN i.receipt.signatures :
        s = i.receipt.signatures[j].value
  BY DEF ReceiptSignatures
<1>2. PICK j \in DOMAIN i.receipt.signatures : s = i.receipt.signatures[j].value
  BY <1>1
<1>3. PICK x \in Range(i.draft.signers) :
        i.receipt.signatures[j] = ProofOf(i.receipt.content, x)
  BY DEF PaperInv, ReceiptMade
<1> DEFINE c == i.receipt.content
<1>4. s = Sign(KeysOf[x.holder][x.keyId],
               ReceiptSignaturePayload(c, ComputeReceiptID(c), x))
  BY <1>2, <1>3 DEF ProofOf
<1> QED
  BY <1>4 DEF SignedUnder, Sign, ReceiptSignaturePayload

\* The signatures of supporting records are over texts behind theirs.
LEMMA RecordTag ==
  ASSUME PaperInv, NEW s \in RecordSignatures
  PROVE  SignedUnder(s, "APS-SUPPORTING-RECORD-SIG-V1")
<1>1. PICK r \in recorded : s = r.sig
  BY DEF RecordSignatures
<1>2. s = Sign(r.sig.key, RecordSignaturePayload(r.content, ComputeRecordID(r.content)))
  BY <1>1 DEF PaperInv, RecordMade
<1> QED
  BY <1>2 DEF SignedUnder, Sign, RecordSignaturePayload

\* The other kinds have no tag, and are in canonical form.
LEMMA UntaggedBare ==
  ASSUME PaperInv, NEW s \in UntaggedSignatures
  PROVE  SignedBare(s) /\ IsCanonical(s.payload)
<1>1. ASSUME NEW k, NEW object, Plain(object), s = Sign(k, object)
      PROVE  SignedBare(s) /\ IsCanonical(s.payload)
  <2>1. s.key = k /\ s.payload = object
    BY <1>1 DEF Sign
  <2> QED
    BY <1>1, <2>1 DEF Plain, SignedBare, IsCanonical
<1>2. CASE \E c \in completed : s = c.completion.signature
  <2>1. PICK c \in completed : s = c.completion.signature
    BY <1>2
  <2>5. CompletionMade(c)
    BY DEF PaperInv
  <2>2. c.draft \in CompletionDrafts
        /\ s = Sign(KeysOf[c.draft.executor][1], BodyOf(c.draft))
    BY <2>1, <2>5 DEF CompletionMade
  <2>3. DOMAIN BodyOf(c.draft) = DOMAIN c.draft.body
    BY DEF BodyOf
  <2>4. Plain(BodyOf(c.draft))
    BY <2>2, <2>3, PaperTrailAssumption DEF CompletionDraft, Plain
  <2> QED
    BY <1>1, <2>2, <2>4
<1>3. CASE \E x \in sold : s = x.sale.signature
  <2>1. PICK x \in sold : s = x.sale.signature
    BY <1>3
  <2>5. SaleMade(x)
    BY DEF PaperInv
  <2>2. x.draft \in SaleDrafts /\ s = Sign(x.draft.privateKey, SaleOf(x.draft))
    BY <2>1, <2>5 DEF SaleMade
  <2>3. DOMAIN SaleOf(x.draft) = DOMAIN x.draft.receipt
    BY DEF SaleOf
  <2>4. Plain(SaleOf(x.draft))
    BY <2>2, <2>3, PaperTrailAssumption DEF SaleDraft, Plain
  <2> QED
    BY <1>1, <2>2, <2>4
<1>4. CASE \E a \in attested : s = a.attestation.signature
  <2>1. PICK a \in attested : s = a.attestation.signature
    BY <1>4
  <2> DEFINE b == a.draft.body
             signed == [b EXCEPT !.commitment = BuildCommitment(b)]
  <2>5. AttestationMade(a)
    BY DEF PaperInv
  <2>2. a.draft \in AttestDrafts /\ s = Sign(a.draft.privateKey, signed)
    BY <2>1, <2>5 DEF AttestationMade, AttestFloor
  <2>3. DOMAIN signed = DOMAIN b
    OBVIOUS
  <2>4. Plain(signed)
    BY <2>2, <2>3, PaperTrailAssumption DEF AttestDraft, Plain
  <2> HIDE DEF signed
  <2> QED
    BY <1>1, <2>2, <2>4
<1>5. CASE \E r \in reported : s = r.signature
  <2>1. PICK r \in reported : s = r.signature
    BY <1>5
  <2>2. PICK d \in ReportDrafts : r = SignReport(d.report, d.privateKey)
    BY DEF PaperInv, ReportMade
  <2>3. s = Sign(d.privateKey, d.report) /\ Plain(d.report)
    BY <2>1, <2>2, PaperTrailAssumption DEF SignReport, ReportDraft
  <2> QED
    BY <1>1, <2>3
<1> QED
  BY <1>2, <1>3, <1>4, <1>5 DEF UntaggedSignatures

\* Envelopes are signed without a tag, in canonical form exactly if they are
\* statements as BuildStatement spells them.
LEMMA SentBare ==
  ASSUME PaperInv, NEW e \in emitted, NEW s, s = e.signatures[1].sig
  PROVE  SignedBare(s)
         /\ (IsCanonical(s.payload) <=> \E d \in EmitDrafts : s.payload = BuildStatement(d))
<1>1. PICK d \in EmitDrafts :
        \/ s = Sign(d.signerPrivateKey, BuildStatement(d))
        \/ s = Sign(d.signerPrivateKey, Respelt(BuildStatement(d)))
  BY DEF PaperInv, EnvelopeMade
<1>2. \A x \in EmitDrafts : DOMAIN BuildStatement(x) =
        {"statement", "subject", "decision", "policyDigest", "delegationChainRoot",
         "delegationDepth", "intentDigest", "receiptDigest", "actionRef"}
  BY DEF BuildStatement
<1>3. DOMAIN Respelt(BuildStatement(d)) = {"spelling", "value"}
  BY DEF Respelt
<1>4. CASE s = Sign(d.signerPrivateKey, BuildStatement(d))
  <2>1. s.key = d.signerPrivateKey /\ s.payload = BuildStatement(d)
    BY <1>4 DEF Sign
  <2>2. "tag" \notin DOMAIN s.payload /\ "spelling" \notin DOMAIN s.payload
    BY <1>2, <2>1
  <2> QED
    BY <1>4, <2>1, <2>2 DEF SignedBare, IsCanonical
<1>5. CASE s = Sign(d.signerPrivateKey, Respelt(BuildStatement(d)))
  <2>1. s.key = d.signerPrivateKey /\ s.payload = Respelt(BuildStatement(d))
    BY <1>5 DEF Sign
  <2>2. DOMAIN s.payload = {"spelling", "value"}
    BY <1>3, <2>1
  <2>3. ~ \E x \in EmitDrafts : s.payload = BuildStatement(x)
    BY <1>2, <2>2
  <2>4. "tag" \notin DOMAIN s.payload /\ "spelling" \in DOMAIN s.payload
    BY <2>2
  <2> QED
    BY <1>5, <2>1, <2>3, <2>4 DEF SignedBare, IsCanonical
<1> QED
  BY <1>1, <1>4, <1>5

\* VerifyEnvelope of a signature wrapped with what it signs.
LEMMA WrappedVerdict ==
  ASSUME NEW s, s = Sign(s.key, s.payload), NEW i \in Int
  PROVE  VerifyEnvelope([payload |-> s.payload,
                         signatures |-> <<[keyid |-> 0, sig |-> s]>>], s.key, i)
           <=> i = 0 /\ IsCanonical(s.payload)
<1> DEFINE l == <<[keyid |-> 0, sig |-> s]>>
           env == [payload |-> s.payload, signatures |-> l]
<1>1. Len(l) = 1 /\ l[1].sig = s
  OBVIOUS
<1>2. env.payload = s.payload /\ env.signatures = l
  OBVIOUS
<1> SUFFICES VerifyEnvelope(env, s.key, i) <=> i = 0 /\ IsCanonical(s.payload)
  OBVIOUS
<1> HIDE DEF l, env
<1>3. Len(env.signatures) = 1 /\ env.signatures[1].sig = s
  BY <1>1, <1>2, Zenon
<1>4. i >= 0 /\ i < 1 <=> i = 0
  OBVIOUS
<1>5. CASE i = 0
  <2>1. i >= 0 /\ i < 1
    BY <1>5
  <2>2. i + 1 = 1
    BY <1>5
  <2>3. Verifies(env.signatures[i + 1].sig, env.payload, s.key)
    BY <1>2, <1>3, <2>2, Zenon DEF Verifies
  <2> QED
    BY <1>2, <1>3, <1>5, <2>1, <2>3, Zenon DEF VerifyEnvelope
<1>6. CASE i # 0
  BY <1>3, <1>4, <1>6, Zenon DEF VerifyEnvelope
<1> QED
  BY <1>5, <1>6

\* A signature under another tag, or under none, is no supporting record's.
LEMMA NoRecord ==
  ASSUME NEW r, RecordMade(r), NEW s,
         SignedBare(s) \/ SignedUnder(s, "APS-RECEIPT-SIG-V1")
  PROVE  ~ VerifyRecord([r EXCEPT !.sig = s], s.key)
<1> DEFINE x == [r EXCEPT !.sig = s]
<1> SUFFICES ASSUME VerifyRecord(x, s.key) PROVE FALSE
  OBVIOUS
<1>1. x.sig = s
  <2>1. "sig" \in DOMAIN r
    BY DEF RecordMade
  <2> QED
    BY <2>1
<1> HIDE DEF x
<1>2. s = Sign(s.key, RecordSignaturePayload(x.content, x.recordId))
  BY <1>1 DEF VerifyRecord, Verifies
<1>3. "tag" \in DOMAIN s.payload /\ s.payload.tag = "APS-SUPPORTING-RECORD-SIG-V1"
  BY <1>2 DEF Sign, RecordSignaturePayload
<1> QED
  BY <1>3 DEF SignedBare, SignedUnder

\* Nor is it a proof of a receipt.
LEMMA NoProof ==
  ASSUME NEW r, NEW d, ReceiptMade(r, d), NEW s, NEW dir,
         SignedBare(s) \/ SignedUnder(s, "APS-SUPPORTING-RECORD-SIG-V1")
  PROVE  ~ VerifyReceipt([r EXCEPT !.signatures[1].value = s], dir)
<1> DEFINE x == [r EXCEPT !.signatures[1].value = s]
<1> SUFFICES ASSUME VerifyReceipt(x, dir) PROVE FALSE
  OBVIOUS
<1>1. 1 \in DOMAIN r.signatures /\ "signatures" \in DOMAIN r
  <2>1. d.signers \in Seq([signer : Parties, keyId : Nat, holder : Parties])
    BY PaperTrailAssumption DEF ReceiptMade, ReceiptDraft
  <2>2. d.signers # << >> /\ DOMAIN r.signatures = 1..Len(d.signers)
    BY DEF ReceiptMade
  <2>3. Len(d.signers) \in Nat /\ Len(d.signers) # 0
    BY <2>1, <2>2
  <2>4. "signatures" \in DOMAIN r
    BY DEF ReceiptMade
  <2> QED
    BY <2>2, <2>3, <2>4
<1>2. "value" \in DOMAIN r.signatures[1]
  <2>1. PICK y \in Range(d.signers) : r.signatures[1] = ProofOf(r.content, y)
    BY <1>1 DEF ReceiptMade
  <2> QED
    BY <2>1 DEF ProofOf
<1>3. 1 \in DOMAIN x.signatures /\ x.signatures[1].value = s
  BY <1>1, <1>2
<1> HIDE DEF x
<1>4. PICK key : Verifies(s, ReceiptSignaturePayload(x.content, x.receiptId, x.signatures[1]), key)
  BY <1>3 DEF VerifyReceipt
<1>5. "tag" \in DOMAIN s.payload /\ s.payload.tag = "APS-RECEIPT-SIG-V1"
  BY <1>4 DEF Verifies, Sign, ReceiptSignaturePayload
<1> QED
  BY <1>5 DEF SignedBare, SignedUnder

\* Where kinds have tags, a signature counts only for the kind of thing it was
\* made for.
THEOREM TagsAreKept ==
  Spec => []TagsSeparate
<1> DEFINE Wrap(s) == [payload |-> s.payload, signatures |-> <<[keyid |-> 0, sig |-> s]>>]
           sent == {e.signatures[1].sig : e \in emitted}
<1>1. ASSUME PaperInv, NEW s \in sent
      PROVE  SignedBare(s)
             /\ (IsCanonical(s.payload) <=> \E d \in EmitDrafts : s.payload = BuildStatement(d))
  <2>1. PICK e \in emitted : s = e.signatures[1].sig
    OBVIOUS
  <2> QED
    BY <1>1, <2>1, SentBare
<1> HIDE DEF sent
<1>2. ASSUME PaperInv, NEW s \in ReceiptSignatures \cup RecordSignatures
      PROVE  ~ VerifyEnvelope(Wrap(s), s.key, 0)
  <2>1. s = Sign(s.key, s.payload) /\ "tag" \in DOMAIN s.payload
    BY <1>2, ReceiptTag, RecordTag DEF SignedUnder
  <2> QED
    BY <2>1, WrappedVerdict DEF IsCanonical
<1>3. ASSUME PaperInv, NEW s \in UntaggedSignatures
      PROVE  VerifyEnvelope(Wrap(s), s.key, 0)
  <2>1. s = Sign(s.key, s.payload) /\ IsCanonical(s.payload)
    BY <1>3, UntaggedBare DEF SignedBare
  <2> QED
    BY <2>1, WrappedVerdict
<1>4. ASSUME PaperInv, NEW s \in sent
      PROVE  /\ VerifyEnvelope(Wrap(s), s.key, 0)
                  <=> \E d \in EmitDrafts : s.payload = BuildStatement(d)
             /\ \A i \in {-1, 1} : ~ VerifyEnvelope(Wrap(s), s.key, i)
  <2>1. s = Sign(s.key, s.payload)
    BY <1>1, <1>4 DEF SignedBare
  <2>2. \A i \in Int : VerifyEnvelope(Wrap(s), s.key, i) <=> i = 0 /\ IsCanonical(s.payload)
    BY <2>1, WrappedVerdict
  <2> HIDE DEF Wrap
  <2>3. VerifyEnvelope(Wrap(s), s.key, 0) <=> IsCanonical(s.payload)
    BY <2>2
  <2>4. \A i \in {-1, 1} : ~ VerifyEnvelope(Wrap(s), s.key, i)
    BY <2>2
  <2> QED
    BY <1>1, <1>4, <2>3, <2>4
<1>5. ASSUME PaperInv, NEW s \in ReceiptSignatures \cup UntaggedSignatures \cup sent,
             NEW r \in recorded
      PROVE  ~ VerifyRecord([r EXCEPT !.sig = s], s.key)
  <2>1. SignedBare(s) \/ SignedUnder(s, "APS-RECEIPT-SIG-V1")
    BY <1>1, <1>5, ReceiptTag, UntaggedBare
  <2>2. RecordMade(r)
    BY <1>5 DEF PaperInv
  <2> QED
    BY <2>1, <2>2, NoRecord
<1>6. ASSUME PaperInv, NEW s \in RecordSignatures \cup UntaggedSignatures \cup sent,
             NEW i \in issued
      PROVE  ~ VerifyReceipt([i.receipt EXCEPT !.signatures[1].value = s], directory)
  <2>1. SignedBare(s) \/ SignedUnder(s, "APS-SUPPORTING-RECORD-SIG-V1")
    BY <1>1, <1>6, RecordTag, UntaggedBare
  <2>2. ReceiptMade(i.receipt, i.draft)
    BY <1>6 DEF PaperInv
  <2> QED
    BY <2>1, <2>2, NoProof
<1>7. PaperInv => TagsSeparate
  BY <1>2, <1>3, <1>4, <1>5, <1>6 DEF TagsSeparate, sent
<1> QED
  BY <1>7, PaperInductive, PTL

-----------------------------------------------------------------------------
\* An element more at the end of a list.
LEMMA AppendParts ==
  ASSUME NEW S, NEW v \in Seq(S), NEW x \in S
  PROVE  /\ Append(v, x) \in Seq(S) /\ Len(Append(v, x)) = Len(v) + 1
         /\ Append(v, x)[Len(v) + 1] = x
         /\ \A i \in 1..Len(v) : Append(v, x)[i] = v[i]
         /\ Range(Append(v, x)) = Range(v) \cup {x}
<1> DEFINE w == Append(v, x)
<1>1. /\ w \in Seq(S) /\ Len(w) = Len(v) + 1 /\ w[Len(v) + 1] = x
      /\ \A i \in 1..Len(v) : w[i] = v[i]
  OBVIOUS
<1>2. Len(v) \in Nat /\ DOMAIN v = 1..Len(v) /\ DOMAIN w = 1..(Len(v) + 1)
  BY <1>1
<1> HIDE DEF w
<1>3. \A i \in 1..(Len(v) + 1) : i \in 1..Len(v) \/ i = Len(v) + 1
  BY <1>2
<1>4. 1..Len(v) \subseteq 1..(Len(v) + 1) /\ Len(v) + 1 \in 1..(Len(v) + 1)
  BY <1>2
<1>5. Range(v) = {v[i] : i \in 1..Len(v)} /\ Range(w) = {w[i] : i \in 1..(Len(v) + 1)}
  BY <1>2 DEF Range
<1>6. \A y \in Range(w) : y \in Range(v) \cup {x}
  BY <1>1, <1>3, <1>5
<1>7. \A y \in Range(v) \cup {x} : y \in Range(w)
  BY <1>1, <1>4, <1>5
<1>8. Range(w) = Range(v) \cup {x}
  BY <1>6, <1>7
<1> QED
  BY <1>1, <1>8 DEF w

\* The loop of NegotiateCommonGround finds what both sides have.
LEMMA SharedAre ==
  ASSUME NEW a, NEW b, IsSeq(b)
  PROVE  Range(SharedExtensions(a, b)) = Range(a) \cap Range(b)
<1> DEFINE n == Len(b)
           V == Seq(Range(b))
           Next1(k, v) == IF b[k] \in Range(a) THEN Append(v, b[k]) ELSE v
           step == [k \in 1..n |-> [v \in V |-> Next1(k, v)]]
           F(f) == [k \in 0..n |->
                      IF k = 0 THEN << >>
                      ELSE IF b[k] \in Range(a) THEN Append(f[k - 1], b[k])
                      ELSE f[k - 1]]
           shared == CHOOSE f : f = F(f)
<1>1. n \in Nat /\ DOMAIN b = 1..n /\ \A k \in 1..n : b[k] \in Range(b)
  BY SeqParts DEF IsSeq
<1>2. << >> \in V /\ Range(<< >>) = {}
  BY DEF Range
<1> HIDE DEF n
<1>3. ASSUME NEW k \in 1..n, NEW v \in V
      PROVE  Next1(k, v) \in V
             /\ Range(Next1(k, v)) = Range(v) \cup ({b[k]} \cap Range(a))
  <2>1. Append(v, b[k]) \in V /\ Range(Append(v, b[k])) = Range(v) \cup {b[k]}
    BY <1>1, AppendParts
  <2> HIDE DEF V
  <2> QED
    BY <2>1
<1>4. \E f : f = F(f)
  <2>1. step \in [1..n -> [V -> V]]
    <3> HIDE DEF Next1, V
    <3> QED
      BY <1>3
  <2>2. PICK f \in [0..n -> V] : f[0] = << >> /\ \A k \in 1..n : f[k] = step[k][f[k - 1]]
    <3> HIDE DEF step, V
    <3>2. Loop(n, V, << >>, step) # {}
      BY <1>1, <1>2, <2>1, LoopRuns
    <3> QED
      BY <3>2 DEF Loop
  <2>3. ASSUME NEW k \in 1..n PROVE f[k] = Next1(k, f[k - 1])
    <3>1. k - 1 \in 0..n
      BY <1>1
    <3>2. f[k - 1] \in V
      BY <2>2, <3>1
    <3> HIDE DEF Next1, V
    <3>3. step[k][f[k - 1]] = Next1(k, f[k - 1])
      BY <3>2
    <3> QED
      BY <2>2, <3>3
  <2>4. \A k \in 0..n : k = 0 \/ k \in 1..n
    BY <1>1
  <2>5. \A k \in 0..n : f[k] = IF k = 0 THEN << >>
                               ELSE IF b[k] \in Range(a) THEN Append(f[k - 1], b[k])
                               ELSE f[k - 1]
    BY <2>2, <2>3, <2>4
  <2>6. f = F(f)
    BY <2>2, <2>5
  <2> QED
    BY <2>6
<1>5. shared = F(shared)
  <2> HIDE DEF F
  <2> QED
    BY <1>4
<1>6. SharedExtensions(a, b) = shared[n]
  BY DEF SharedExtensions, n
<1>7. shared[0] = << >> /\ \A k \in 1..n : shared[k] = Next1(k, shared[k - 1])
  <2> HIDE DEF shared
  <2>1. 0 \in 0..n /\ \A k \in 1..n : k \in 0..n /\ k # 0
    BY <1>1
  <2> QED
    BY <1>5, <2>1
<1> HIDE DEF shared, Next1, V
<1> DEFINE Good(k) == /\ shared[k] \in V
                      /\ Range(shared[k]) = {b[j] : j \in 1..k} \cap Range(a)
           X == {k \in 0..n : ~ Good(k)}
<1>8. X = {}
  <2> SUFFICES ASSUME X # {} PROVE FALSE
    OBVIOUS
  <2>1. PICK m \in X : \A x \in X : m <= x
    <3>1. X \subseteq Nat
      OBVIOUS
    <3> HIDE DEF X
    <3> QED
      BY <3>1, Least
  <2>2. m \in 0..n /\ ~ Good(m)
    OBVIOUS
  <2>3. m # 0
    <3>1. Good(0)
      BY <1>2, <1>7
    <3> QED
      BY <2>2, <3>1
  <2>4. m - 1 \in 0..n /\ m - 1 \notin X /\ m \in 1..n
    <3> HIDE DEF X
    <3> QED
      BY <1>1, <2>1, <2>2, <2>3
  <2>5. Good(m - 1)
    BY <2>4
  <2>6. shared[m] \in V
        /\ Range(shared[m]) = Range(shared[m - 1]) \cup ({b[m]} \cap Range(a))
    BY <1>3, <1>7, <2>4, <2>5
  <2>7. {b[j] : j \in 1..m} = {b[j] : j \in 1..(m - 1)} \cup {b[m]}
    <3>1. 1..m = 1..(m - 1) \cup {m}
      BY <2>4
    <3> QED
      BY <3>1
  <2>8. Good(m)
    BY <2>5, <2>6, <2>7
  <2> QED
    BY <2>2, <2>8
<1>9. Good(n)
  <2>1. n \in 0..n
    BY <1>1
  <2> QED
    BY <1>8, <2>1
<1> QED
  BY <1>1, <1>6, <1>9 DEF Range

\* NegotiateCommonGround finds two agents compatible exactly if
\* VerifyAttestation accepts both and their major versions agree, and is
\* symmetric.
THEOREM GroundIsAgreed ==
  Spec => []GroundAgrees
<1> DEFINE own == {a.attestation : a \in {x \in attested :
                     /\ x.draft.privateKey = x.draft.body.publicKey
                     /\ x.draft.body.floorVersion # Null}}
<1>1. ASSUME PaperInv, NEW a \in own
      PROVE  /\ Verifies(a.signature, a.body, a.body.publicKey)
             /\ a.body.floorVersion # Null /\ IsSeq(a.body.extensions)
  <2>1. PICK x \in attested : /\ a = x.attestation
                              /\ x.draft.privateKey = x.draft.body.publicKey
                              /\ x.draft.body.floorVersion # Null
    OBVIOUS
  <2>2. AttestationMade(x)
    BY <1>1 DEF PaperInv
  <2> DEFINE b == x.draft.body
  <2>3. x.draft \in AttestDrafts
        /\ a = [body |-> [b EXCEPT !.commitment = BuildCommitment(b)],
                signature |-> Sign(x.draft.privateKey,
                                   [b EXCEPT !.commitment = BuildCommitment(b)])]
    BY <2>1, <2>2 DEF AttestationMade, AttestFloor
  <2>4. {"publicKey", "floorVersion", "extensions"} \subseteq DOMAIN b
        /\ IsSeq(b.extensions)
    BY <2>3, PaperTrailAssumption DEF AttestDraft
  <2>5. a.body.publicKey = b.publicKey /\ a.body.floorVersion = b.floorVersion
        /\ a.body.extensions = b.extensions
    BY <2>3, <2>4
  <2>6. a.signature = Sign(x.draft.privateKey, a.body)
    BY <2>3
  <2> QED
    BY <2>1, <2>4, <2>5, <2>6 DEF Verifies
<1> HIDE DEF own
<1>2. ASSUME PaperInv, NEW a \in own, NEW b \in own, NEW clock
      PROVE  LET ab == NegotiateCommonGround(a, b, clock)
                 ba == NegotiateCommonGround(b, a, clock)
             IN /\ ab.compatible <=>
                     /\ VerifyAttestation(a, clock) /\ VerifyAttestation(b, clock)
                     /\ a.body.floorVersion.major = b.body.floorVersion.major
                /\ ab.compatible = ba.compatible
                /\ Range(ab.sharedExtensions) = Range(ba.sharedExtensions)
  <2> DEFINE ab == NegotiateCommonGround(a, b, clock)
             ba == NegotiateCommonGround(b, a, clock)
             same == a.body.floorVersion.major = b.body.floorVersion.major
  <2>1. /\ VerifyAttestation(a, clock) <=> Current(a, clock)
        /\ VerifyAttestation(b, clock) <=> Current(b, clock)
    BY <1>1, <1>2 DEF VerifyAttestation, Current, ExpiryHolds
  <2>2. /\ MajorVersion(a.body.floorVersion) = a.body.floorVersion.major
        /\ MajorVersion(b.body.floorVersion) = b.body.floorVersion.major
    BY <1>1, <1>2 DEF MajorVersion
  <2>3. /\ ab.compatible = (Current(a, clock) /\ Current(b, clock) /\ same)
        /\ ba.compatible = (Current(a, clock) /\ Current(b, clock) /\ same)
    BY <2>2 DEF NegotiateCommonGround, Current
  <2>4. /\ ab.sharedExtensions = SharedExtensions(a.body.extensions, b.body.extensions)
        /\ ba.sharedExtensions = SharedExtensions(b.body.extensions, a.body.extensions)
    BY DEF NegotiateCommonGround
  <2>5. Range(ab.sharedExtensions) = Range(ba.sharedExtensions)
    <3> DEFINE A == a.body.extensions
               B == b.body.extensions
    <3>1. IsSeq(A) /\ IsSeq(B)
      BY <1>1, <1>2
    <3> HIDE DEF A, B
    <3>2. /\ Range(SharedExtensions(A, B)) = Range(A) \cap Range(B)
          /\ Range(SharedExtensions(B, A)) = Range(B) \cap Range(A)
      BY <3>1, SharedAre
    <3>3. Range(SharedExtensions(A, B)) = Range(SharedExtensions(B, A))
      BY <3>2
    <3> QED
      BY <2>4, <3>3 DEF A, B
  <2>6. ab.compatible <=> Current(a, clock) /\ Current(b, clock) /\ same
    BY <2>3
  <2> HIDE DEF ab, ba, same
  <2>7. ab.compatible = ba.compatible
    BY <2>3
  <2> QED
    BY <2>1, <2>5, <2>6, <2>7 DEF ab, ba, same
<1>3. PaperInv => GroundAgrees
  BY <1>2 DEF GroundAgrees, own
<1> QED
  BY <1>3, PaperInductive, PTL

-----------------------------------------------------------------------------
\* The weights of a report have a sum.
LEMMA SumType ==
  ASSUME NEW e, Len(e) \in Nat, \A i \in 1..Len(e) : e[i].weight \in Int
  PROVE  SumWeights(e) \in Int
<1> DEFINE n == Len(e)
           step == [k \in 1..n |-> [v \in Int |-> v + e[k].weight]]
           F(f) == [k \in 0..n |-> IF k = 0 THEN 0 ELSE f[k - 1] + e[k].weight]
           sum == CHOOSE f : f = F(f)
<1>1. \E f : f = F(f)
  <2>1. step \in [1..n -> [Int -> Int]]
    OBVIOUS
  <2>2. PICK f \in [0..n -> Int] : f[0] = 0 /\ \A k \in 1..n : f[k] = step[k][f[k - 1]]
    <3>1. n \in Nat /\ 0 \in Int
      OBVIOUS
    <3> HIDE DEF step, n
    <3>2. Loop(n, Int, 0, step) # {}
      BY <2>1, <3>1, LoopRuns
    <3> QED
      BY <3>2 DEF Loop
  <2>3. ASSUME NEW k \in 1..n PROVE f[k] = f[k - 1] + e[k].weight
    <3>1. f[k - 1] \in Int
      BY <2>2
    <3>2. step[k][f[k - 1]] = f[k - 1] + e[k].weight
      BY <3>1
    <3> QED
      BY <2>2, <3>2
  <2>4. \A k \in 0..n : f[k] = IF k = 0 THEN 0 ELSE f[k - 1] + e[k].weight
    BY <2>2, <2>3
  <2>5. f = F(f)
    BY <2>4
  <2> QED
    BY <2>5
<1>2. sum = F(sum)
  <2> HIDE DEF F
  <2> QED
    BY <1>1
<1>3. SumWeights(e) = sum[n]
  BY DEF SumWeights
<1>4. sum[0] = 0 /\ \A k \in 1..n : sum[k] = sum[k - 1] + e[k].weight
  <2> HIDE DEF sum
  <2> QED
    BY <1>2
<1> HIDE DEF sum
<1> DEFINE X == {k \in 0..n : sum[k] \notin Int}
<1>5. X = {}
  <2> SUFFICES ASSUME X # {} PROVE FALSE
    OBVIOUS
  <2>1. PICK m \in X : \A x \in X : m <= x
    <3>1. X \subseteq Nat
      OBVIOUS
    <3> HIDE DEF X
    <3> QED
      BY <3>1, Least
  <2>2. m # 0
    BY <1>4
  <2>3. m - 1 \in 0..n /\ m - 1 \notin X /\ m \in 1..n
    BY <2>1, <2>2
  <2> QED
    BY <1>4, <2>1, <2>3
<1> QED
  BY <1>3, <1>5

\* roundTo3 moves a sum by at most half a thousandth.
LEMMA RoundingMoves ==
  ASSUME NEW s \in Int
  PROVE  /\ RoundTo3(s) \in Int
         /\ 2 * RoundTo3(s) <= 2 * s + Grain /\ 2 * s + Grain <= 2 * RoundTo3(s) + 2 * Grain
<1> DEFINE y == 2 * s + Grain
           g == 2 * Grain
           q == y \div g
<1>1. Grain \in Nat \ {0} /\ y \in Int /\ g \in Nat \ {0}
  BY GrainAssumption
<1>2. ASSUME NEW u \in Int, NEW w \in Nat \ {0}
      PROVE  u \div w \in Int /\ w * (u \div w) <= u /\ u <= w * (u \div w) + w
  OBVIOUS
<1> HIDE DEF y, g
<1>3. q \in Int /\ g * q <= y /\ y <= g * q + g
  BY <1>1, <1>2
<1> HIDE DEF q
<1>4. q * Grain \in Int /\ g * q = 2 * (q * Grain)
  BY <1>1, <1>3 DEF g
<1>5. RoundTo3(s) = q * Grain
  BY DEF RoundTo3, q, y, g
<1> DEFINE p == q * Grain
<1> HIDE DEF p
<1>6. p \in Int /\ 2 * p <= y /\ y <= 2 * p + g /\ RoundTo3(s) = p
  BY <1>3, <1>4, <1>5 DEF p
<1> QED
  BY <1>1, <1>6 DEF y, g

\* VerifyAttributionReport accepts only reports as they were signed, whose total
\* is within a thousandth and a half of the sum of the entries.
THEOREM WeightsAddUp ==
  Spec => []WeightBound
<1>1. ASSUME PaperInv, NEW r \in reported, NEW x \in reported, NEW p \in Parties,
             NEW shown, shown = [r EXCEPT !.report.entries = x.report.entries],
             VerifyReport(shown, KeysOf[p][1])
      PROVE  /\ 2 * AbsDiff(shown.report.totalWeight, SumWeights(x.report.entries)) <= 3 * Grain
             /\ shown = SignReport(r.report, KeysOf[p][1])
  <2> DEFINE e == x.report.entries
             key == KeysOf[p][1]
  <2>1. PICK d \in ReportDrafts : r = SignReport(d.report, d.privateKey)
    BY <1>1 DEF PaperInv, ReportMade
  <2>2. PICK f \in ReportDrafts : x = SignReport(f.report, f.privateKey)
    BY <1>1 DEF PaperInv, ReportMade
  <2>3. /\ r = [report |-> d.report, signature |-> Sign(d.privateKey, d.report)]
        /\ e = f.report.entries
    BY <2>1, <2>2 DEF SignReport
  <2>4. /\ shown.report = [d.report EXCEPT !.entries = e]
        /\ shown.signature = Sign(d.privateKey, d.report)
        /\ shown = [report |-> shown.report, signature |-> shown.signature]
    BY <1>1, <2>3
  <2>5. shown.signature = Sign(key, shown.report) /\ WeightOk(shown.report)
    BY <1>1 DEF VerifyReport, Verifies
  <2>6. shown.report = d.report /\ key = d.privateKey
    BY <2>4, <2>5 DEF Sign
  <2>7. shown = SignReport(r.report, key)
    BY <2>3, <2>4, <2>6 DEF SignReport
  <2>8. d.report.totalWeight \in Int /\ "entries" \in DOMAIN d.report
    BY PaperTrailAssumption DEF ReportDraft
  <2>9. shown.report.totalWeight = d.report.totalWeight /\ shown.report.entries = e
    BY <2>4, <2>6, <2>8
  <2>10. Len(e) \in Nat /\ \A i \in 1..Len(e) : e[i].weight \in Int
    <3>1. e \in Seq(Range(e)) /\ \A y \in Range(e) : y.weight \in Int
      BY <2>3, PaperTrailAssumption DEF ReportDraft, IsSeq
    <3> HIDE DEF e
    <3> QED
      BY <3>1, SeqParts
  <2> DEFINE t == d.report.totalWeight
             s == SumWeights(e)
             R == RoundTo3(s)
  <2>11. s \in Int
    <3> HIDE DEF e
    <3> QED
      BY <2>10, SumType
  <2>12. AbsDiff(t, R) <= Grain
    BY <2>5, <2>9 DEF WeightOk
  <2> HIDE DEF s
  <2>13. R \in Int /\ 2 * R <= 2 * s + Grain /\ 2 * s + Grain <= 2 * R + 2 * Grain
    BY <2>11, RoundingMoves
  <2> HIDE DEF R, t
  <2>14. 2 * AbsDiff(t, s) <= 3 * Grain
    BY <2>8, <2>11, <2>12, <2>13, GrainAssumption DEF AbsDiff, t
  <2> QED
    BY <2>7, <2>9, <2>14 DEF t, s
<1>2. PaperInv => WeightBound
  BY <1>1 DEF WeightBound
<1> QED
  BY <1>2, PaperInductive, PTL

-----------------------------------------------------------------------------
\* A list without repetition has as many elements as places.
LEMMA ImageSize ==
  ASSUME NEW l \in Seq(Int), IsInjective(l), NEW S \in SUBSET (1..Len(l))
  PROVE  LET T == {l[i] : i \in S}
         IN IsFiniteSet(T) /\ Cardinality(T) = Cardinality(S)
<1> DEFINE T == {l[i] : i \in S}
           f == [i \in S |-> l[i]]
<1>1. Len(l) \in Nat /\ DOMAIN l = 1..Len(l)
  OBVIOUS
<1>2. IsFiniteSet(S)
  <2>1. IsFiniteSet(1..Len(l))
    BY <1>1, FS_Interval
  <2> QED
    BY <2>1, FS_Subset
<1>3. f \in Bijection(S, T)
  <2>1. \A i, j \in S : l[i] = l[j] => i = j
    BY <1>1 DEF IsInjective
  <2>2. f \in [S -> T] /\ \A i, j \in S : f[i] = f[j] => i = j
    BY <2>1
  <2>3. \A y \in T : \E i \in S : f[i] = y
    OBVIOUS
  <2> HIDE DEF f, T
  <2> QED
    BY <2>2, <2>3 DEF Bijection, Injection, Surjection, IsInjective
<1> HIDE DEF f, T
<1>4. IsFiniteSet(T) /\ Cardinality(T) = Cardinality(S)
  <2>1. ExistsBijection(S, T)
    BY <1>3 DEF ExistsBijection
  <2> QED
    BY <1>2, <2>1, FS_Bijection
<1> QED
  BY <1>4 DEF T

\* Two lists without repetition are sorted alike exactly if they hold the same.
LEMMA SortedUnique ==
  ASSUME NEW l \in Seq(Int), NEW m \in Seq(Int), IsInjective(l), IsInjective(m)
  PROVE  Sorted(l) = Sorted(m) <=> Range(l) = Range(m)
<1>1. Sorted(l) = Sorted(m) => Range(l) = Range(m)
  BY SortedIs
<1>2. ASSUME Range(l) = Range(m) PROVE Sorted(l) = Sorted(m)
  <2> DEFINE R == Range(l)
             below(x) == {y \in R : y < x}
  <2>1. ASSUME NEW v \in Seq(Int), IsInjective(v), Range(v) = R
        PROVE  /\ IsFiniteSet(R) /\ Len(v) = Cardinality(R)
               /\ Sorted(v) \in Seq(Int) /\ Len(Sorted(v)) = Len(v)
               /\ \A k \in 1..Len(v) : /\ Sorted(v)[k] \in R
                                       /\ Cardinality(below(Sorted(v)[k])) = k - 1
    <3> DEFINE n == Len(v)
    <3>1. n \in Nat /\ DOMAIN v = 1..n /\ R = {v[i] : i \in 1..n}
      <4>1. n \in Nat /\ DOMAIN v = 1..n
        BY <2>1, SeqParts
      <4>2. Range(v) = {v[i] : i \in DOMAIN v}
        BY DEF Range
      <4> QED
        BY <2>1, <4>1, <4>2
    <3>2. Cardinality(1..n) = n
      <4>1. Cardinality(1..n) = IF 1 > n THEN 0 ELSE n - 1 + 1
        <5>1. n \in Int /\ 1 \in Int
          BY <3>1
        <5> HIDE DEF n
        <5> QED
          BY <5>1, FS_Interval
      <4> QED
        BY <3>1, <4>1
    <3>3. IsFiniteSet({v[i] : i \in 1..n}) /\ Cardinality({v[i] : i \in 1..n}) = n
      BY <2>1, <3>1, <3>2, ImageSize
    <3>4. /\ Sorted(v) \in Seq(Int) /\ Len(Sorted(v)) = n
          /\ \A k \in 1..n :
               \E j \in 1..n : /\ Sorted(v)[k] = v[j]
                               /\ Cardinality({i \in 1..n : v[i] < v[j]}) = k - 1
      BY <2>1, SortedIs
    <3>5. ASSUME NEW k \in 1..n
          PROVE  Sorted(v)[k] \in R /\ Cardinality(below(Sorted(v)[k])) = k - 1
      <4>1. PICK j \in 1..n : /\ Sorted(v)[k] = v[j]
                              /\ Cardinality({i \in 1..n : v[i] < v[j]}) = k - 1
        BY <3>4
      <4> DEFINE S == {i \in 1..n : v[i] < v[j]}
      <4>2. S \in SUBSET (1..n)
        OBVIOUS
      <4>3. Cardinality({v[i] : i \in S}) = Cardinality(S)
        <5> HIDE DEF S
        <5> QED
          BY <2>1, <4>2, ImageSize
      <4>4. {v[i] : i \in S} = below(v[j])
        <5> HIDE DEF R
        <5> QED
          BY <3>1
      <4> QED
        BY <3>1, <4>1, <4>3, <4>4
    <3> QED
      BY <3>1, <3>3, <3>4, <3>5
  <2> DEFINE n == Len(l)
             s == Sorted(l)
             t == Sorted(m)
  <2>2. /\ n \in Nat /\ IsFiniteSet(R) /\ s \in Seq(Int) /\ Len(s) = n
        /\ \A k \in 1..n : s[k] \in R /\ Cardinality(below(s[k])) = k - 1
    <3>1. n \in Nat /\ Range(l) = R
      OBVIOUS
    <3> HIDE DEF R, below
    <3> QED
      BY <2>1, <3>1
  <2>3. /\ t \in Seq(Int) /\ Len(t) = n
        /\ \A k \in 1..n : t[k] \in R /\ Cardinality(below(t[k])) = k - 1
    <3>1. Range(m) = R
      BY <1>2
    <3>2. Len(m) = n
      BY <2>1, <3>1
    <3> HIDE DEF R, below, n
    <3> QED
      BY <2>1, <3>1, <3>2
  <2>4. \A x \in R : x \in Int
    BY SeqParts DEF Range
  <2> HIDE DEF R, s, t, n
  <2>5. ASSUME NEW x \in R, NEW y \in R, x < y
        PROVE  Cardinality(below(x)) # Cardinality(below(y))
    <3>3. x \in Int /\ y \in Int
      BY <2>4
    <3>4. \A z \in R : z < x => z < y
      BY <2>4, <2>5, <3>3
    <3>5. ~ (x < x)
      BY <3>3
    <3>1. below(x) \subseteq below(y) /\ x \in below(y) /\ x \notin below(x)
      BY <2>5, <3>4, <3>5
    <3>2. IsFiniteSet(below(y))
      BY <2>2, FS_Subset
    <3> HIDE DEF below
    <3> QED
      BY <3>1, <3>2, FS_Subset
  <2>6. \A k \in 1..n : s[k] = t[k]
    <3> SUFFICES ASSUME NEW k \in 1..n, s[k] # t[k] PROVE FALSE
      OBVIOUS
    <3>1. s[k] \in R /\ t[k] \in R /\ Cardinality(below(s[k])) = Cardinality(below(t[k]))
      BY <2>2, <2>3
    <3>2. s[k] < t[k] \/ t[k] < s[k]
      <4>1. s[k] \in Int /\ t[k] \in Int
        BY <2>4, <3>1
      <4> QED
        BY <4>1
    <3> HIDE DEF below
    <3> QED
      BY <2>5, <3>1, <3>2
  <2>7. s = t
    BY <2>2, <2>3, <2>6
  <2> QED
    BY <2>7 DEF s, t
<1> QED
  BY <1>1, <1>2

\* NormalizeTimestamp forgets exactly the fraction of the second.
LEMMA SecondsIdentify ==
  ASSUME NEW t \in Int, NEW u \in Int
  PROVE  NormalizeTimestamp(t) = NormalizeTimestamp(u)
           <=> t \div TicksPerSecond = u \div TicksPerSecond
<1> DEFINE T == TicksPerSecond
           q == t \div T
           r == u \div T
<1>1. T \in Nat \ {0}
  BY ReferencesAssumption
<1>2. ASSUME NEW x \in Int, NEW w \in Nat \ {0}
      PROVE  x \div w \in Int /\ x - (x % w) = w * (x \div w)
  OBVIOUS
<1>3. q \in Int /\ r \in Int /\ NormalizeTimestamp(t) = T * q /\ NormalizeTimestamp(u) = T * r
  BY <1>1, <1>2 DEF NormalizeTimestamp
<1> HIDE DEF q, r, T
<1>4. ASSUME NEW a \in Int, NEW b \in Int, NEW w \in Nat \ {0}, a < b
      PROVE  w * a < w * b
  <2>1. w * (b - a) > 0
    BY <1>4
  <2> QED
    BY <2>1, <1>4
<1>5. T * q = T * r => q = r
  <2> SUFFICES ASSUME q # r PROVE T * q # T * r
    OBVIOUS
  <2>1. q < r \/ r < q
    BY <1>3
  <2>2. T * q < T * r \/ T * r < T * q
    BY <1>1, <1>3, <1>4, <2>1
  <2>3. T * q \in Int /\ T * r \in Int
    BY <1>1, <1>3
  <2> QED
    BY <2>2, <2>3
<1>6. NormalizeTimestamp(t) = NormalizeTimestamp(u) <=> q = r
  BY <1>3, <1>5
<1> QED
  BY <1>6 DEF q, r, T

\* CanonicalizeScopes gives the same exactly for scopes with the same normal
\* forms.
LEMMA ScopesIdentify ==
  ASSUME NEW d \in ReceiptDrafts, NEW e \in ReceiptDrafts,
         CanonicalizeScopes(d.request.scopeRequired) # Error,
         CanonicalizeScopes(e.request.scopeRequired) # Error
  PROVE  CanonicalizeScopes(d.request.scopeRequired)
             = CanonicalizeScopes(e.request.scopeRequired)
           <=> {Nfc[s] : s \in Range(d.request.scopeRequired)}
                 = {Nfc[s] : s \in Range(e.request.scopeRequired)}
<1>1. ASSUME NEW x \in ReceiptDrafts,
             CanonicalizeScopes(x.request.scopeRequired) # Error
      PROVE  LET l == x.request.scopeRequired
                 n == [i \in DOMAIN l |-> Nfc[l[i]]]
             IN /\ n \in Seq(Int) /\ IsInjective(n) /\ CanonicalizeScopes(l) = Sorted(n)
                /\ Range(n) = {Nfc[s] : s \in Range(l)}
  <2> DEFINE l == x.request.scopeRequired
             n == [i \in DOMAIN l |-> Nfc[l[i]]]
  <2>1. l \in Seq(Range(l)) /\ \A s \in Range(l) : Nfc[s] \in Int
    BY PaperTrailAssumption DEF ReceiptDraft, IsSeq
  <2>2. Len(l) \in Nat /\ DOMAIN l = 1..Len(l) /\ \A i \in DOMAIN l : l[i] \in Range(l)
    BY <2>1, SeqParts
  <2>3. IsInjective(n) /\ CanonicalizeScopes(l) = Sorted(n)
    BY <1>1 DEF CanonicalizeScopes
  <2> HIDE DEF l
  <2>4. n \in Seq(Int)
    <3>1. n \in [1..Len(l) -> Int]
      BY <2>1, <2>2
    <3> QED
      BY <2>2, <3>1
  <2>5. Range(n) = {Nfc[s] : s \in Range(l)}
    BY DEF Range
  <2> QED
    BY <2>3, <2>4, <2>5 DEF l
<1> DEFINE l == [i \in DOMAIN d.request.scopeRequired |-> Nfc[d.request.scopeRequired[i]]]
           m == [i \in DOMAIN e.request.scopeRequired |-> Nfc[e.request.scopeRequired[i]]]
<1>2. /\ l \in Seq(Int) /\ IsInjective(l)
      /\ CanonicalizeScopes(d.request.scopeRequired) = Sorted(l)
      /\ Range(l) = {Nfc[s] : s \in Range(d.request.scopeRequired)}
  BY <1>1
<1>3. /\ m \in Seq(Int) /\ IsInjective(m)
      /\ CanonicalizeScopes(e.request.scopeRequired) = Sorted(m)
      /\ Range(m) = {Nfc[s] : s \in Range(e.request.scopeRequired)}
  BY <1>1
<1> HIDE DEF l, m
<1>4. Sorted(l) = Sorted(m) <=> Range(l) = Range(m)
  BY <1>2, <1>3, SortedUnique
<1> QED
  BY <1>2, <1>3, <1>4

\* ComputeActionRefScopes gives the same exactly for the same request.
LEMMA RequestsIdentify ==
  ASSUME NEW d \in ReceiptDrafts, NEW e \in ReceiptDrafts,
         ComputeActionRefScopes(d.request) # Error,
         ComputeActionRefScopes(e.request) # Error
  PROVE  ComputeActionRefScopes(d.request) = ComputeActionRefScopes(e.request)
           <=> SameRequest(d.request, e.request)
<1> DEFINE Hashed(q) == [agentId |-> q.agentId, actionType |-> q.actionType,
                         scopeRequired |-> CanonicalizeScopes(q.scopeRequired),
                         timestamp |-> NormalizeTimestamp(q.createdAt)]
<1>1. ASSUME NEW x \in ReceiptDrafts, ComputeActionRefScopes(x.request) # Error
      PROVE  /\ x.request.createdAt \in Int
             /\ CanonicalizeScopes(x.request.scopeRequired) # Error
             /\ ComputeActionRefScopes(x.request) = CanonicalHash(Hashed(x.request))
  <2>1. /\ x.request.createdAt # Malformed
        /\ CanonicalizeScopes(x.request.scopeRequired) # Error
        /\ ComputeActionRefScopes(x.request) = CanonicalHash(Hashed(x.request))
    BY <1>1 DEF ComputeActionRefScopes
  <2>2. x.request.createdAt \in Int \cup {Malformed}
    BY PaperTrailAssumption DEF ReceiptDraft
  <2> QED
    BY <2>1, <2>2
<1>2. ComputeActionRefScopes(d.request) = ComputeActionRefScopes(e.request)
        <=> Hashed(d.request) = Hashed(e.request)
  <2>1. CanonicalHash(Hashed(d.request)) = CanonicalHash(Hashed(e.request))
          <=> Hashed(d.request) = Hashed(e.request)
    <3> HIDE DEF Hashed
    <3> QED
      BY DEF CanonicalHash
  <2> HIDE DEF Hashed
  <2> QED
    BY <1>1, <2>1
<1>3. Hashed(d.request) = Hashed(e.request) <=>
        /\ d.request.agentId = e.request.agentId
        /\ d.request.actionType = e.request.actionType
        /\ CanonicalizeScopes(d.request.scopeRequired)
             = CanonicalizeScopes(e.request.scopeRequired)
        /\ NormalizeTimestamp(d.request.createdAt) = NormalizeTimestamp(e.request.createdAt)
  OBVIOUS
<1> HIDE DEF Hashed
<1>4. NormalizeTimestamp(d.request.createdAt) = NormalizeTimestamp(e.request.createdAt)
        <=> d.request.createdAt \div TicksPerSecond = e.request.createdAt \div TicksPerSecond
  BY <1>1, SecondsIdentify
<1>5. CanonicalizeScopes(d.request.scopeRequired)
          = CanonicalizeScopes(e.request.scopeRequired)
        <=> {Nfc[s] : s \in Range(d.request.scopeRequired)}
              = {Nfc[s] : s \in Range(e.request.scopeRequired)}
  BY <1>1, ScopesIdentify
<1> QED
  BY <1>2, <1>3, <1>4, <1>5 DEF SameRequest

\* BuildDecisionRefV1 gives the same exactly for the same decision on the same
\* action.
LEMMA DecisionsIdentify ==
  ASSUME NEW d \in ReceiptDrafts, NEW e \in ReceiptDrafts, NEW a, NEW b,
         d.decision # Null, e.decision # Null,
         BuildDecisionRef(a, d.decision) # Error, BuildDecisionRef(b, e.decision) # Error
  PROVE  BuildDecisionRef(a, d.decision) = BuildDecisionRef(b, e.decision)
           <=> a = b /\ SameDecision(d.decision, e.decision)
<1> DEFINE x == d.decision
           y == e.decision
           Tagged(tag, value) == CanonicalHash([tag |-> tag, value |-> value])
           Hashed(r, z) == [tag |-> "APS-DECISION-REF-V1", action_ref |-> r,
                            authority_state_ref |-> Tagged("authority", z.authority),
                            policy_ref |-> Tagged("policy", z.policy),
                            context_ref |-> Tagged("context", z.context),
                            decision_output_ref |-> Tagged("output", NormalizeOutput(z.output))]
<1>1. /\ BuildDecisionRef(a, x) = CanonicalHash(Hashed(a, x))
      /\ BuildDecisionRef(b, y) = CanonicalHash(Hashed(b, y))
  BY DEF BuildDecisionRef
<1>2. \A tag, v, w : Tagged(tag, v) = Tagged(tag, w) <=> v = w
  BY DEF CanonicalHash
<1>3. CanonicalHash(Hashed(a, x)) = CanonicalHash(Hashed(b, y))
        <=> Hashed(a, x) = Hashed(b, y)
  <2> HIDE DEF Hashed
  <2> QED
    BY DEF CanonicalHash
<1> HIDE DEF Tagged, x, y
<1>4. Hashed(a, x) = Hashed(b, y) <=>
        /\ a = b
        /\ Tagged("authority", x.authority) = Tagged("authority", y.authority)
        /\ Tagged("policy", x.policy) = Tagged("policy", y.policy)
        /\ Tagged("context", x.context) = Tagged("context", y.context)
        /\ Tagged("output", NormalizeOutput(x.output))
             = Tagged("output", NormalizeOutput(y.output))
  OBVIOUS
<1> HIDE DEF Hashed
<1>5. BuildDecisionRef(a, x) = BuildDecisionRef(b, y) <=>
        /\ a = b /\ x.authority = y.authority /\ x.policy = y.policy
        /\ x.context = y.context
        /\ NormalizeOutput(x.output) = NormalizeOutput(y.output)
  BY <1>1, <1>2, <1>3, <1>4
<1>6. ASSUME NEW f \in ReceiptDrafts, f.decision # Null
      PROVE  LET z == f.decision
                 o == z.output
             IN /\ z = [authority |-> z.authority, policy |-> z.policy,
                        context |-> z.context, output |-> o]
                /\ o = [verdict |-> o.verdict,
                        effectiveAuthorityRef |-> o.effectiveAuthorityRef,
                        validUntil |-> o.validUntil, constraints |-> o.constraints]
  BY <1>6, PaperTrailAssumption DEF ReceiptDraft
<1> DEFINE o == x.output
           p == y.output
           Forms(c) == {Nfc[c[i]] : i \in DOMAIN c}
<1>7. /\ x = [authority |-> x.authority, policy |-> x.policy,
              context |-> x.context, output |-> o]
      /\ o = [verdict |-> o.verdict, effectiveAuthorityRef |-> o.effectiveAuthorityRef,
              validUntil |-> o.validUntil, constraints |-> o.constraints]
  BY <1>6 DEF x
<1>8. /\ y = [authority |-> y.authority, policy |-> y.policy,
              context |-> y.context, output |-> p]
      /\ p = [verdict |-> p.verdict, effectiveAuthorityRef |-> p.effectiveAuthorityRef,
              validUntil |-> p.validUntil, constraints |-> p.constraints]
  BY <1>6 DEF y
<1> HIDE DEF o, p, Forms
<1> DEFINE SameBut == /\ o.verdict = p.verdict
                      /\ o.effectiveAuthorityRef = p.effectiveAuthorityRef
                      /\ o.validUntil = p.validUntil
<1>9. NormalizeOutput(o) = NormalizeOutput(p)
        <=> SameBut /\ Forms(o.constraints) = Forms(p.constraints)
  <2>1. /\ NormalizeOutput(o) =
             [verdict |-> o.verdict, effectiveAuthorityRef |-> o.effectiveAuthorityRef,
              validUntil |-> o.validUntil, constraints |-> Forms(o.constraints)]
        /\ NormalizeOutput(p) =
             [verdict |-> p.verdict, effectiveAuthorityRef |-> p.effectiveAuthorityRef,
              validUntil |-> p.validUntil, constraints |-> Forms(p.constraints)]
    <3>1. NormalizeOutput(o) = [o EXCEPT !.constraints = Forms(o.constraints)]
      BY DEF NormalizeOutput, Forms
    <3>2. NormalizeOutput(p) = [p EXCEPT !.constraints = Forms(p.constraints)]
      BY DEF NormalizeOutput, Forms
    <3>3. [o EXCEPT !.constraints = Forms(o.constraints)] =
            [verdict |-> o.verdict, effectiveAuthorityRef |-> o.effectiveAuthorityRef,
             validUntil |-> o.validUntil, constraints |-> Forms(o.constraints)]
      BY <1>7
    <3>4. [p EXCEPT !.constraints = Forms(p.constraints)] =
            [verdict |-> p.verdict, effectiveAuthorityRef |-> p.effectiveAuthorityRef,
             validUntil |-> p.validUntil, constraints |-> Forms(p.constraints)]
      BY <1>8
    <3> QED
      BY <3>1, <3>2, <3>3, <3>4
  <2> QED
    BY <2>1
<1>10. Forms(o.constraints) = {Nfc[s] : s \in Range(o.constraints)}
       /\ Forms(p.constraints) = {Nfc[s] : s \in Range(p.constraints)}
  BY DEF Forms, Range
<1>11. [x EXCEPT !.output.constraints = << >>] = [y EXCEPT !.output.constraints = << >>]
         <=> /\ x.authority = y.authority /\ x.policy = y.policy
             /\ x.context = y.context /\ SameBut
  <2>1. [x EXCEPT !.output.constraints = << >>] =
          [authority |-> x.authority, policy |-> x.policy, context |-> x.context,
           output |-> [verdict |-> o.verdict,
                       effectiveAuthorityRef |-> o.effectiveAuthorityRef,
                       validUntil |-> o.validUntil, constraints |-> << >>]]
    BY <1>7
  <2>2. [y EXCEPT !.output.constraints = << >>] =
          [authority |-> y.authority, policy |-> y.policy, context |-> y.context,
           output |-> [verdict |-> p.verdict,
                       effectiveAuthorityRef |-> p.effectiveAuthorityRef,
                       validUntil |-> p.validUntil, constraints |-> << >>]]
    BY <1>8
  <2> QED
    BY <2>1, <2>2
<1>12. SameDecision(x, y) <=>
         /\ x.authority = y.authority /\ x.policy = y.policy
         /\ x.context = y.context /\ SameBut
         /\ Forms(o.constraints) = Forms(p.constraints)
  BY <1>10, <1>11 DEF SameDecision, o, p
<1> HIDE DEF SameBut
<1> QED
  BY <1>5, <1>9, <1>12 DEF x, y, o, p

\* Two issuers compute the same action_ref exactly for the same request and the
\* same decision_ref exactly for the same decision on it.
THEOREM RefsAreIdentities ==
  Spec => []RefsIdentify
<1>1. ASSUME PaperInv, NEW i \in issued, NEW j \in issued
      PROVE  LET same == SameRequest(i.draft.request, j.draft.request)
             IN /\ Match(i.receipt.content.actionRef, j.receipt.content.actionRef) <=> same
                /\ (i.draft.decision # Null /\ j.draft.decision # Null) =>
                     (i.receipt.content.decisionRef = j.receipt.content.decisionRef
                        <=> same /\ SameDecision(i.draft.decision, j.draft.decision))
  <2> DEFINE d == i.draft
             e == j.draft
             a == i.receipt.content.actionRef
             b == j.receipt.content.actionRef
             same == SameRequest(d.request, e.request)
  <2>1. ReceiptMade(i.receipt, d) /\ ReceiptMade(j.receipt, e)
    BY <1>1 DEF PaperInv
  <2>2. /\ d \in ReceiptDrafts /\ ContentMade(i.receipt.content, d)
        /\ e \in ReceiptDrafts /\ ContentMade(j.receipt.content, e)
    BY <2>1 DEF ReceiptMade
  <2>3. /\ a = ComputeActionRefScopes(d.request) /\ a # Error
        /\ b = ComputeActionRefScopes(e.request) /\ b # Error
    BY <2>2 DEF ContentMade
  <2>4. a = b <=> same
    BY <2>2, <2>3, RequestsIdentify
  <2>5. ASSUME d.decision # Null, e.decision # Null
        PROVE  i.receipt.content.decisionRef = j.receipt.content.decisionRef
                 <=> same /\ SameDecision(d.decision, e.decision)
    <3>1. /\ i.receipt.content.decisionRef = BuildDecisionRef(a, d.decision)
          /\ j.receipt.content.decisionRef = BuildDecisionRef(b, e.decision)
          /\ BuildDecisionRef(a, d.decision) # Error
          /\ BuildDecisionRef(b, e.decision) # Error
      BY <2>2, <2>5 DEF ContentMade
    <3>2. BuildDecisionRef(a, d.decision) = BuildDecisionRef(b, e.decision)
            <=> a = b /\ SameDecision(d.decision, e.decision)
      BY <2>2, <2>5, <3>1, DecisionsIdentify
    <3> QED
      BY <2>4, <3>1, <3>2
  <2> QED
    BY <2>4, <2>5 DEF Match
<1>2. PaperInv => RefsIdentify
  BY <1>1 DEF RefsIdentify
<1> QED
  BY <1>2, PaperInductive, PTL

-----------------------------------------------------------------------------
\* One round of ExtractDelegationChain: no principal twice, the first stays.
LEMMA ChainRound ==
  ASSUME NEW S, NEW v \in Seq(S), NEW x \in S, NEW key,
         IsInjective(v), Len(v) # 0, v[1] = key, x \notin Range(v)
  PROVE  LET w == Append(v, x)
         IN IsInjective(w) /\ Len(w) # 0 /\ w[1] = key
<1> DEFINE w == Append(v, x)
           n == Len(v)
<1>1. /\ w \in Seq(S) /\ Len(w) = n + 1 /\ w[n + 1] = x
      /\ \A i \in 1..n : w[i] = v[i]
  BY AppendParts
<1>2. n \in Nat /\ n # 0 /\ DOMAIN v = 1..n /\ DOMAIN w = 1..(n + 1)
  BY <1>1, SeqParts
<1> HIDE DEF w, n
<1>3. \A i \in 1..n : v[i] # x
  BY <1>2 DEF Range
<1>4. \A i \in 1..(n + 1) : i \in 1..n \/ i = n + 1
  BY <1>2
<1>5. ASSUME NEW i \in 1..(n + 1), NEW j \in 1..(n + 1), w[i] = w[j] PROVE i = j
  <2>1. CASE i \in 1..n /\ j \in 1..n
    BY <1>1, <1>2, <1>5, <2>1 DEF IsInjective
  <2>2. CASE i = n + 1 /\ j = n + 1
    BY <2>2
  <2>3. CASE i = n + 1 /\ j \in 1..n
    BY <1>1, <1>3, <1>5, <2>3
  <2>4. CASE i \in 1..n /\ j = n + 1
    BY <1>1, <1>3, <1>5, <2>4
  <2> QED
    BY <1>4, <2>1, <2>2, <2>3, <2>4
<1>6. IsInjective(w)
  BY <1>2, <1>5 DEF IsInjective
<1>7. Len(w) # 0 /\ w[1] = key
  <2>1. 1 \in 1..n
    BY <1>2
  <2>2. n + 1 # 0
    BY <1>2
  <2> QED
    BY <1>1, <2>1, <2>2
<1> QED
  BY <1>6, <1>7 DEF w

\* The chain of a purchase starts with the agent and names every other
\* principal once.
LEMMA ChainNames ==
  ASSUME NEW key, NEW dels, IsSeq(dels)
  PROVE  LET chain == ExtractDelegationChain(key, dels)
         IN /\ IsInjective(chain) /\ chain \in Seq(Range(dels) \cup {key})
            /\ Len(chain) # 0 /\ chain[1] = key
            /\ Range(chain) = {key} \cup (Range(dels) \ {Null})
<1> DEFINE n == Len(dels)
           S == Range(dels) \cup {key}
           V == Seq(S)
           Round(k, v) == IF dels[k] = Null \/ dels[k] \in Range(v) THEN v
                          ELSE Append(v, dels[k])
           step == [k \in 1..n |-> [v \in V |-> Round(k, v)]]
           F(f) == [k \in 0..n |->
                      IF k = 0 THEN <<key>>
                      ELSE IF dels[k] = Null \/ dels[k] \in Range(f[k - 1])
                           THEN f[k - 1]
                           ELSE Append(f[k - 1], dels[k])]
           chain == CHOOSE f : f = F(f)
<1>1. n \in Nat /\ DOMAIN dels = 1..n /\ \A k \in 1..n : dels[k] \in S
  BY SeqParts DEF IsSeq
<1>2. <<key>> \in V
  OBVIOUS
<1> HIDE DEF n, S
<1>3. ASSUME NEW k \in 1..n, NEW v \in V PROVE Round(k, v) \in V
  <2>1. Append(v, dels[k]) \in V
    BY <1>1, AppendParts
  <2> HIDE DEF V
  <2> QED
    BY <2>1
<1>4. \E f : f = F(f)
  <2>1. step \in [1..n -> [V -> V]]
    <3> HIDE DEF Round, V
    <3> QED
      BY <1>3
  <2>2. PICK f \in [0..n -> V] : f[0] = <<key>> /\ \A k \in 1..n : f[k] = step[k][f[k - 1]]
    <3> HIDE DEF step, V
    <3>2. Loop(n, V, <<key>>, step) # {}
      BY <1>1, <1>2, <2>1, LoopRuns
    <3> QED
      BY <3>2 DEF Loop
  <2>3. ASSUME NEW k \in 1..n PROVE f[k] = Round(k, f[k - 1])
    <3>1. k - 1 \in 0..n
      BY <1>1
    <3>2. f[k - 1] \in V
      BY <2>2, <3>1
    <3> HIDE DEF Round, V
    <3>3. step[k][f[k - 1]] = Round(k, f[k - 1])
      BY <3>2
    <3> QED
      BY <2>2, <3>3
  <2>4. \A k \in 0..n : k = 0 \/ k \in 1..n
    BY <1>1
  <2>5. \A k \in 0..n :
          f[k] = IF k = 0 THEN <<key>>
                 ELSE IF dels[k] = Null \/ dels[k] \in Range(f[k - 1])
                      THEN f[k - 1]
                      ELSE Append(f[k - 1], dels[k])
    BY <2>2, <2>3, <2>4
  <2>6. f = F(f)
    BY <2>2, <2>5
  <2> QED
    BY <2>6
<1>5. chain = F(chain)
  <2> HIDE DEF F
  <2> QED
    BY <1>4
<1>6. ExtractDelegationChain(key, dels) = chain[n]
  BY DEF ExtractDelegationChain, n
<1>7. chain[0] = <<key>> /\ \A k \in 1..n : chain[k] = Round(k, chain[k - 1])
  <2> HIDE DEF chain
  <2>1. 0 \in 0..n /\ \A k \in 1..n : k \in 0..n /\ k # 0
    BY <1>1
  <2> QED
    BY <1>5, <2>1
<1> HIDE DEF chain, V
<1> DEFINE Good(k) == /\ chain[k] \in V /\ IsInjective(chain[k])
                      /\ Len(chain[k]) # 0 /\ chain[k][1] = key
                      /\ Range(chain[k]) = {key} \cup ({dels[j] : j \in 1..k} \ {Null})
           X == {k \in 0..n : ~ Good(k)}
<1>8. X = {}
  <2> SUFFICES ASSUME X # {} PROVE FALSE
    OBVIOUS
  <2>1. PICK m \in X : \A x \in X : m <= x
    <3>1. X \subseteq Nat
      OBVIOUS
    <3> HIDE DEF X
    <3> QED
      BY <3>1, Least
  <2>2. m \in 0..n /\ ~ Good(m)
    OBVIOUS
  <2>3. m # 0
    <3>1. /\ IsInjective(<<key>>) /\ Len(<<key>>) # 0 /\ <<key>>[1] = key
          /\ Range(<<key>>) = {key}
      BY DEF IsInjective, Range
    <3>2. {dels[j] : j \in 1..0} = {}
      OBVIOUS
    <3>3. Good(0)
      BY <1>2, <1>7, <3>1, <3>2
    <3> QED
      BY <2>2, <3>3
  <2>4. m - 1 \in 0..n /\ m - 1 \notin X /\ m \in 1..n
    <3> HIDE DEF X
    <3> QED
      BY <1>1, <2>1, <2>2, <2>3
  <2>5. Good(m - 1)
    BY <2>4
  <2> DEFINE v == chain[m - 1]
             x == dels[m]
  <2>6. chain[m] = IF x = Null \/ x \in Range(v) THEN v ELSE Append(v, x)
    BY <1>7, <2>4
  <2>7. {dels[j] : j \in 1..m} = {dels[j] : j \in 1..(m - 1)} \cup {x}
    <3>1. 1..m = 1..(m - 1) \cup {m}
      BY <2>4
    <3> QED
      BY <3>1
  <2>8. CASE x = Null \/ x \in Range(v)
    <3>1. chain[m] = v
      BY <2>6, <2>8
    <3> QED
      BY <2>2, <2>5, <2>7, <2>8, <3>1
  <2>9. CASE ~ (x = Null \/ x \in Range(v))
    <3>1. chain[m] = Append(v, x) /\ v \in Seq(S) /\ x \in S
      BY <1>1, <2>4, <2>5, <2>6, <2>9 DEF V
    <3>2. Append(v, x) \in Seq(S) /\ Range(Append(v, x)) = Range(v) \cup {x}
      <4> HIDE DEF v, x
      <4> QED
        BY <3>1, AppendParts
    <3>3. /\ IsInjective(Append(v, x)) /\ Len(Append(v, x)) # 0
          /\ Append(v, x)[1] = key
      <4>1. IsInjective(v) /\ Len(v) # 0 /\ v[1] = key /\ x \notin Range(v)
        BY <2>5, <2>9
      <4> HIDE DEF v, x
      <4> QED
        BY <3>1, <4>1, ChainRound
    <3>4. Range(chain[m]) = {key} \cup ({dels[j] : j \in 1..m} \ {Null})
      BY <2>5, <2>7, <2>9, <3>1, <3>2
    <3>5. Good(m)
      BY <3>1, <3>2, <3>3, <3>4 DEF V
    <3> QED
      BY <2>2, <3>5
  <2> QED
    BY <2>8, <2>9
<1>9. Good(n)
  <2>1. n \in 0..n
    BY <1>1
  <2> QED
    BY <1>8, <2>1
<1>10. Range(dels) = {dels[j] : j \in 1..n}
  BY <1>1 DEF Range
<1> QED
  BY <1>6, <1>9, <1>10 DEF V, S

\* Without its head a list without repetition has all but its head.
LEMMA TailNames ==
  ASSUME NEW S, NEW v \in Seq(S), IsInjective(v), Len(v) # 0
  PROVE  Head(v) = v[1] /\ Range(Tail(v)) = Range(v) \ {v[1]}
<1> DEFINE n == Len(v)
           w == Tail(v)
<1>1. n \in Nat /\ n # 0 /\ DOMAIN v = 1..n /\ v # << >>
  BY SeqParts
<1>2. /\ Head(v) = v[1] /\ w \in Seq(S) /\ Len(w) = n - 1
      /\ \A i \in 1..(n - 1) : w[i] = v[i + 1]
  BY <1>1
<1>3. DOMAIN w = 1..(n - 1)
  BY <1>2, SeqParts
<1> HIDE DEF n, w
<1>4. \A i \in 1..n : i = 1 \/ (i - 1 \in 1..(n - 1) /\ (i - 1) + 1 = i)
  BY <1>1
<1>5. \A i \in 1..(n - 1) : i + 1 \in 1..n /\ i + 1 # 1
  BY <1>1
<1>6. Range(v) = {v[i] : i \in 1..n} /\ Range(w) = {w[i] : i \in 1..(n - 1)}
  BY <1>1, <1>3 DEF Range
<1>7. 1 \in 1..n
  BY <1>1
<1>8. ASSUME NEW y \in Range(w) PROVE y \in Range(v) \ {v[1]}
  <2>1. PICK i \in 1..(n - 1) : y = v[i + 1]
    BY <1>2, <1>6
  <2>2. v[i + 1] # v[1]
    BY <1>1, <1>5, <1>7 DEF IsInjective
  <2> QED
    BY <1>5, <1>6, <2>1, <2>2
<1>9. ASSUME NEW y \in Range(v) \ {v[1]} PROVE y \in Range(w)
  <2>1. PICK i \in 1..n : y = v[i]
    BY <1>6
  <2>2. i # 1
    BY <1>9, <2>1
  <2>3. i - 1 \in 1..(n - 1) /\ w[i - 1] = v[i]
    BY <1>2, <1>4, <2>2
  <2> QED
    BY <1>6, <2>1, <2>3
<1> QED
  BY <1>2, <1>8, <1>9 DEF w

-----------------------------------------------------------------------------
\* An id that is in a list has a last place there.
LEMMA LastPlace ==
  ASSUME NEW s, Len(s) \in Nat, DOMAIN s = 1..Len(s), NEW id,
         \E i \in DOMAIN s : s[i].id = id
  PROVE  LastWithId(s, id) \in DOMAIN s /\ s[LastWithId(s, id)].id = id
<1> DEFINE n == Len(s)
           I == {i \in DOMAIN s : s[i].id = id}
           X == {n - i : i \in I}
<1>1. X # {} /\ X \subseteq Nat /\ \A i \in I : i \in Nat /\ n - i \in X
  OBVIOUS
<1>2. PICK m \in X : \A x \in X : m <= x
  <2> HIDE DEF X
  <2> QED
    BY <1>1, Least
<1>3. PICK k \in I : m = n - k
  OBVIOUS
<1>4. \A i \in I : k >= i
  <2> SUFFICES ASSUME NEW i \in I PROVE k >= i
    OBVIOUS
  <2>1. n \in Nat /\ k \in Nat /\ i \in Nat /\ n - i \in X
    BY <1>1
  <2>2. m <= n - i
    BY <1>2, <2>1
  <2> HIDE DEF n
  <2> QED
    BY <1>3, <2>1, <2>2
<1> HIDE DEF I
<1>5. Max(I) \in I
  BY <1>4 DEF Max
<1>6. LastWithId(s, id) = Max(I)
  BY DEF LastWithId, I
<1> QED
  BY <1>5, <1>6 DEF I

\* If no two receipts a verifier holds share an id, it may hold them the other
\* way round.
LEMMA OrderOfSupply ==
  ASSUME NEW s, IsSeq(s), NEW cited, CitationsOk(cited, s),
         \A x, y \in DOMAIN s : s[x].id = s[y].id => x = y
  PROVE  CitationsOk(cited, Reverse(s))
<1> DEFINE n == Len(s)
           t == Reverse(s)
<1>1. n \in Nat /\ DOMAIN s = 1..n
  BY SeqParts DEF IsSeq
<1>2. DOMAIN t = 1..n /\ Len(t) = n /\ \A i \in 1..n : t[i] = s[(n - i) + 1]
  <2>1. t = [i \in 1..n |-> s[(n - i) + 1]]
    BY DEF Reverse
  <2> HIDE DEF t, n
  <2> QED
    BY <1>1, <2>1
<1> HIDE DEF t, n
<1>3. ASSUME NEW c \in Range(cited)
      PROVE  /\ \E i \in DOMAIN t : t[i].id = c.receiptId
             /\ LET r == t[LastWithId(t, c.receiptId)]
                IN r.content = c.content /\ r.principal = c.principal
  <2> DEFINE id == c.receiptId
             k == LastWithId(s, id)
             h == LastWithId(t, id)
  <2>1. /\ \E i \in DOMAIN s : s[i].id = id
        /\ s[k].content = c.content /\ s[k].principal = c.principal
    BY DEF CitationsOk
  <2>2. k \in 1..n /\ s[k].id = id
    BY <1>1, <2>1, LastPlace DEF n
  <2> HIDE DEF k
  <2> DEFINE j == (n - k) + 1
  <2>3. j \in 1..n /\ (n - j) + 1 = k
    BY <1>1, <2>2
  <2>4. t[j].id = id
    BY <1>2, <2>2, <2>3
  <2>5. \E i \in DOMAIN t : t[i].id = id
    BY <1>2, <2>3, <2>4
  <2>6. h \in 1..n /\ t[h].id = id
    BY <1>1, <1>2, <2>5, LastPlace
  <2> HIDE DEF h
  <2>7. (n - h) + 1 \in 1..n
    BY <1>1, <2>6
  <2>8. s[(n - h) + 1].id = s[k].id
    BY <1>2, <2>2, <2>6
  <2>9. (n - h) + 1 = k
    BY <1>1, <2>2, <2>7, <2>8
  <2>10. t[h] = s[k]
    BY <1>2, <2>6, <2>9
  <2> QED
    BY <2>1, <2>5, <2>10 DEF h
<1> QED
  BY <1>3 DEF CitationsOk, t

\* What VerifyCompletionReceipt accepts, the executor signed in this form, and
\* what it cites is at hand as cited, once each, in whatever order.
LEMMA CompletionBound ==
  ASSUME PaperInv, NEW b, NEW c \in completed, NEW p \in Parties,
         NEW s \in Supplies,
         VerifyCompletion([body |-> b, signature |-> c.completion.signature],
                          KeysOf[p][1], s)
  PROVE  /\ p = c.draft.executor /\ b = c.completion.body
         /\ b.citations # << >> => s # Null
         /\ \A cited \in Range(b.citations) :
              Cardinality({k \in DOMAIN b.citations :
                             b.citations[k].receiptId = cited.receiptId}) = 1
         /\ b.citations # << >> =>
              /\ \A cited \in Range(b.citations) : \E r \in Range(s) :
                   /\ r.id = cited.receiptId
                   /\ r.content = cited.content /\ r.principal = cited.principal
              /\ (\A x, y \in DOMAIN s : s[x].id = s[y].id => x = y) =>
                   VerifyCompletion([body |-> b, signature |-> c.completion.signature],
                                    KeysOf[p][1], Reverse(s))
<1> DEFINE shown == [body |-> b, signature |-> c.completion.signature]
           key == KeysOf[p][1]
           l == b.citations
<1>1. /\ Verifies(c.completion.signature, b, key)
      /\ b.completionId # Null /\ b.permitReceiptHash # Null
      /\ b.executionResult \in ValidResults
      /\ l # << >> => s # Null /\ CitationsOk(l, s)
  BY DEF VerifyCompletion
<1>2. CompletionMade(c)
  BY DEF PaperInv
<1>3. /\ c.draft \in CompletionDrafts /\ c.completion.body = BodyOf(c.draft)
      /\ c.completion.signature = Sign(KeysOf[c.draft.executor][1], BodyOf(c.draft))
  BY <1>2 DEF CompletionMade
<1>4. b = c.completion.body /\ key = KeysOf[c.draft.executor][1]
  BY <1>1, <1>3 DEF Verifies, Sign
<1>5. c.draft.executor \in Parties /\ IsSeq(c.draft.body.citations)
      /\ "citations" \in DOMAIN c.draft.body
  BY <1>3, PaperTrailAssumption DEF CompletionDraft
<1>6. p = c.draft.executor
  <2>1. 1 \in DOMAIN KeysOf[p] /\ 1 \in DOMAIN KeysOf[c.draft.executor]
    BY <1>5, PartyKeys
  <2> QED
    BY <1>4, <1>5, <2>1, KeysDistinct
<1>7. IsSeq(l)
  <2>1. l = c.draft.body.citations
    BY <1>3, <1>4, <1>5 DEF BodyOf
  <2> QED
    BY <1>5, <2>1
<1> HIDE DEF l
<1>8. ASSUME NEW cited \in Range(l)
      PROVE  /\ Cardinality({k \in DOMAIN l : l[k].receiptId = cited.receiptId}) = 1
             /\ CitationsOk(l, s) /\ s # Null
  <2>1. PICK k \in DOMAIN l : cited = l[k]
    BY DEF Range
  <2>2. l # << >>
    BY <2>1
  <2>3. CitationsOk(l, s) /\ s # Null
    BY <1>1, <2>2
  <2>4. {h \in DOMAIN l : l[h].receiptId = cited.receiptId} = {k}
    BY <2>1, <2>3 DEF CitationsOk
  <2> QED
    BY <2>3, <2>4, FS_Singleton
<1>9. ASSUME NEW cited \in Range(l)
      PROVE  \E r \in Range(s) :
               /\ r.id = cited.receiptId
               /\ r.content = cited.content /\ r.principal = cited.principal
  <2> DEFINE k == LastWithId(s, cited.receiptId)
  <2>1. IsSeq(s)
    BY <1>8, PaperTrailAssumption
  <2>2. Len(s) \in Nat /\ DOMAIN s = 1..Len(s)
    BY <2>1, SeqParts DEF IsSeq
  <2>3. /\ \E i \in DOMAIN s : s[i].id = cited.receiptId
        /\ s[k].content = cited.content /\ s[k].principal = cited.principal
    BY <1>8 DEF CitationsOk
  <2>4. k \in DOMAIN s /\ s[k].id = cited.receiptId
    BY <2>2, <2>3, LastPlace
  <2> HIDE DEF k
  <2> QED
    BY <2>3, <2>4 DEF Range
<1>10. ASSUME l # << >>, \A x, y \in DOMAIN s : s[x].id = s[y].id => x = y
       PROVE  VerifyCompletion(shown, key, Reverse(s))
  <2>1. s # Null /\ CitationsOk(l, s)
    BY <1>1, <1>10
  <2>2. IsSeq(s) /\ Reverse(s) # Null
    BY <2>1, PaperTrailAssumption
  <2>3. CitationsOk(l, Reverse(s))
    BY <1>10, <2>1, <2>2, OrderOfSupply
  <2>4. shown.body = b /\ shown.signature = c.completion.signature
    OBVIOUS
  <2> HIDE DEF shown
  <2> QED
    BY <1>1, <2>2, <2>3, <2>4 DEF VerifyCompletion, l
<1> QED
  BY <1>1, <1>4, <1>6, <1>8, <1>9, <1>10 DEF l

\* LinkPermitAndCompletion links an outcome to its permit, whoever signed that.
LEMMA PermitBound ==
  ASSUME PaperInv, NEW c \in completed, NEW permit \in Permits
  PROVE  Linked(permit, c.completion) <=> Allows(permit) = Allows(c.draft.permit)
<1> DEFINE q == c.draft.permit
           Rest(x) == [f \in DOMAIN x \ {"signature"} |-> x[f]]
<1>1. CompletionMade(c)
  BY DEF PaperInv
<1>2. /\ c.draft \in CompletionDrafts /\ c.completion.body = BodyOf(c.draft)
      /\ BodyOf(c.draft).permitReceiptHash # Null
  BY <1>1 DEF CompletionMade
<1>3. "permitReceiptHash" \in DOMAIN c.draft.body
  BY <1>2, PaperTrailAssumption DEF CompletionDraft
<1>4. BodyOf(c.draft).permitReceiptHash = IF q = Null THEN Null ELSE PermitHash(q)
  BY <1>3 DEF BodyOf
<1>5. q # Null /\ c.completion.body.permitReceiptHash = PermitHash(q)
  BY <1>2, <1>4
<1>6. "signature" \in DOMAIN q /\ "signature" \in DOMAIN permit
  BY <1>2, <1>5, PaperTrailAssumption DEF Permits, CompletionDraft
<1> HIDE DEF q
<1>7. Linked(permit, c.completion) <=> Rest(permit) = Rest(q)
  <2>1. PermitHash(permit) = CanonicalHash(Rest(permit)) /\ PermitHash(q) = CanonicalHash(Rest(q))
    BY DEF PermitHash
  <2> HIDE DEF Rest
  <2> QED
    BY <1>5, <2>1 DEF Linked, CanonicalHash
<1>8. ASSUME Rest(permit) = Rest(q) PROVE Allows(permit) = Allows(q)
  <2>1. DOMAIN Rest(permit) = DOMAIN permit \ {"signature"}
        /\ DOMAIN Rest(q) = DOMAIN q \ {"signature"}
    OBVIOUS
  <2>2. DOMAIN permit = DOMAIN q
    <3> HIDE DEF Rest
    <3> QED
      BY <1>6, <1>8, <2>1
  <2>3. \A f \in DOMAIN permit \ {"signature"} : permit[f] = Rest(permit)[f]
    OBVIOUS
  <2>4. \A f \in DOMAIN q \ {"signature"} : q[f] = Rest(q)[f]
    OBVIOUS
  <2> HIDE DEF Rest
  <2>5. \A f \in DOMAIN permit \ {"signature"} : permit[f] = q[f]
    BY <1>8, <2>2, <2>3, <2>4
  <2> QED
    BY <2>2, <2>5 DEF Allows
<1>9. ASSUME Allows(permit) = Allows(q) PROVE Rest(permit) = Rest(q)
  <2>1. DOMAIN Allows(permit) = DOMAIN permit /\ DOMAIN Allows(q) = DOMAIN q
    BY DEF Allows
  <2>2. DOMAIN permit = DOMAIN q
    BY <1>9, <2>1
  <2>3. \A f \in DOMAIN permit \ {"signature"} : permit[f] = Allows(permit)[f]
    BY DEF Allows
  <2>4. \A f \in DOMAIN q \ {"signature"} : q[f] = Allows(q)[f]
    BY DEF Allows
  <2>5. \A f \in DOMAIN permit \ {"signature"} : permit[f] = q[f]
    BY <1>9, <2>2, <2>3, <2>4
  <2> QED
    BY <2>2, <2>5
<1> QED
  BY <1>7, <1>8, <1>9 DEF q

\* What VerifyCommerceReceipt accepts is complete, as signed, and names its
\* agent and the other principals.
LEMMA SaleBound ==
  ASSUME PaperInv, NEW x \in sold, NEW y \in sold, NEW p \in Parties,
         NEW shown, shown = [receipt |-> x.sale.receipt, signature |-> y.sale.signature],
         VerifyCommerceReceipt(shown, KeysOf[p][1])
  PROVE  LET chain == shown.receipt.delegationChain
         IN /\ KeysOf[p][1] = y.draft.privateKey
            /\ shown.receipt = y.sale.receipt
            /\ \A f \in RequiredFields : shown.receipt[f] # Null
            /\ IsInjective(chain) /\ Head(chain) = y.draft.publicKey
            /\ Range(Tail(chain))
                 = Range(y.draft.delegators) \ {Null, y.draft.publicKey}
<1> DEFINE key == y.draft.publicKey
           dels == y.draft.delegators
           chain == shown.receipt.delegationChain
<1>1. SaleMade(y)
  BY DEF PaperInv
<1>2. /\ y.draft \in SaleDrafts /\ y.sale.receipt = SaleOf(y.draft)
      /\ y.sale.signature = Sign(y.draft.privateKey, SaleOf(y.draft))
  BY <1>1 DEF SaleMade
<1>3. /\ shown.signature = Sign(KeysOf[p][1], shown.receipt)
      /\ \A f \in RequiredFields : shown.receipt[f] # Null
      /\ shown.signature = y.sale.signature
  BY DEF VerifyCommerceReceipt, Verifies
<1>4. KeysOf[p][1] = y.draft.privateKey /\ shown.receipt = SaleOf(y.draft)
  BY <1>2, <1>3 DEF Sign
<1>5. "delegationChain" \in DOMAIN y.draft.receipt /\ IsSeq(dels)
  BY <1>2, PaperTrailAssumption DEF SaleDraft
<1>6. chain = ExtractDelegationChain(key, dels)
  BY <1>4, <1>5 DEF SaleOf
<1> HIDE DEF chain, key, dels
<1>7. /\ IsInjective(chain) /\ chain \in Seq(Range(dels) \cup {key})
      /\ Len(chain) # 0 /\ chain[1] = key
      /\ Range(chain) = {key} \cup (Range(dels) \ {Null})
  BY <1>5, <1>6, ChainNames
<1>8. Head(chain) = key /\ Range(Tail(chain)) = Range(chain) \ {key}
  BY <1>7, TailNames
<1>9. Range(Tail(chain)) = Range(dels) \ {Null, key}
  BY <1>7, <1>8
<1> QED
  BY <1>2, <1>3, <1>4, <1>7, <1>8, <1>9 DEF chain, key, dels

\* An outcome that verifies is bound to its executor, its permit and its
\* sources, and a purchase to its agent and principals.
THEOREM OutcomesAreBound ==
  Spec => []OutcomeBound
<1>1. ASSUME PaperInv PROVE OutcomeBound
  <2>1. ASSUME NEW x \in sold, NEW y \in sold, NEW p \in Parties
        PROVE  LET shown == [receipt |-> x.sale.receipt, signature |-> y.sale.signature]
                   chain == shown.receipt.delegationChain
               IN VerifyCommerceReceipt(shown, KeysOf[p][1]) =>
                    /\ KeysOf[p][1] = y.draft.privateKey
                    /\ shown.receipt = y.sale.receipt
                    /\ \A f \in RequiredFields : shown.receipt[f] # Null
                    /\ IsInjective(chain) /\ Head(chain) = y.draft.publicKey
                    /\ Range(Tail(chain))
                         = Range(y.draft.delegators) \ {Null, y.draft.publicKey}
    BY <1>1, SaleBound
  <2>2. \A c \in completed, permit \in Permits :
          Linked(permit, c.completion) <=> Allows(permit) = Allows(c.draft.permit)
    BY <1>1, PermitBound
  <2>3. ASSUME NEW b \in ShownBodies, NEW c \in completed, NEW p \in Parties,
               NEW s \in Supplies
        PROVE  LET shown == [body |-> b, signature |-> c.completion.signature]
                   valid == VerifyCompletion(shown, KeysOf[p][1], s)
               IN valid =>
                    /\ p = c.draft.executor /\ b = c.completion.body
                    /\ b.citations # << >> => s # Null
                    /\ \A cited \in Range(b.citations) :
                         Cardinality({k \in DOMAIN b.citations :
                                        b.citations[k].receiptId = cited.receiptId}) = 1
                    /\ b.citations # << >> =>
                         /\ \A cited \in Range(b.citations) : \E r \in Range(s) :
                              /\ r.id = cited.receiptId
                              /\ r.content = cited.content /\ r.principal = cited.principal
                         /\ (\A x, y \in DOMAIN s : s[x].id = s[y].id => x = y) =>
                              VerifyCompletion(shown, KeysOf[p][1], Reverse(s))
    BY <1>1, CompletionBound
  <2> QED
    BY <2>1, <2>2, <2>3 DEF OutcomeBound
<1> QED
  BY <1>1, PaperInductive, PTL
====
