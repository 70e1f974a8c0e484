------------------------- MODULE CommerceTaskProofs -------------------------
(***************************************************************************)
(* The two workflows in which one party relies on what another checked.    *)
(* Commerce: for any number of buyers, purchases, wallets and keys, the    *)
(* ledger of RecordSpend accounts for every payment within its limit.      *)
(* Coordination: for any set of keys and messages, verified acceptances    *)
(* and completions rest on what they claim to.                             *)
(*                                                                         *)
(* What is due on the ledger is a sum over a finite set; the lemmas about  *)
(* it argue from a smallest set for which they would fail.                 *)
(***************************************************************************)
EXTENDS Commerce, Coordination, FiniteSetTheorems, WellFoundedInduction, TLAPS

-----------------------------------------------------------------------------
\* Sums over finite sets.

\* The element that MapThenSumSet takes out of a set next.
Pick(s) == CHOOSE x \in s : TRUE

\* h is the running total of MapThenSumSet over the subsets of S, of the
\* values that f gives to the elements.
Totals(h, f, S) ==
  /\ h \in [SUBSET S -> Int]
  /\ h[{}] = 0
  /\ \A s \in SUBSET S : s # {} => h[s] = f[Pick(s)] + h[s \ {Pick(s)}]

\* What is taken out of a set that is not empty was in it.
LEMMA PickIsElement ==
  ASSUME NEW s, s # {}
  PROVE  Pick(s) \in s
BY DEF Pick

\* A non-empty set of subsets of a finite set has a smallest one.
LEMMA SmallestSubset ==
  ASSUME NEW S, IsFiniteSet(S), NEW T, T \subseteq SUBSET S, T # {}
  PROVE  \E m \in T : \A t \in T : t \subseteq m => t = m
<1>1. \A s \in SUBSET S : IsFiniteSet(s)
  BY FS_Subset
<1>2. T \subseteq FiniteSubsetsOf(S)
  BY <1>1 DEF FiniteSubsetsOf
<1>3. \E m \in T : \A t \in T : ~ (<<t, m>> \in StrictSubsetOrdering(S))
  BY <1>2, FS_StrictSubsetOrderingWellFounded, WFMin
<1> QED
  BY <1>3 DEF StrictSubsetOrdering

\* Two running totals of the same values agree on a set they both cover.
LEMMA TotalsAgree ==
  ASSUME NEW S, IsFiniteSet(S), NEW T \in SUBSET S, NEW f, NEW g, NEW h, NEW k,
         \A x \in T : f[x] = g[x],
         Totals(h, f, S), Totals(k, g, T)
  PROVE  \A s \in SUBSET T : h[s] = k[s]
<1> DEFINE Bad == {s \in SUBSET T : h[s] # k[s]}
<1>1. SUFFICES ASSUME Bad # {} PROVE FALSE
  OBVIOUS
<1>2. IsFiniteSet(T)
  BY FS_Subset
<1>3. PICK m \in Bad : \A t \in Bad : t \subseteq m => t = m
  <2>1. Bad \subseteq SUBSET T
    OBVIOUS
  <2> HIDE DEF Bad
  <2> QED
    BY <1>1, <1>2, <2>1, SmallestSubset
<1>4. m # {}
  BY <1>3 DEF Totals
<1>5. Pick(m) \in m
  BY <1>4, PickIsElement
<1> DEFINE r == m \ {Pick(m)}
<1>6. r \subseteq m /\ r # m
  BY <1>5
<1>7. h[r] = k[r]
  BY <1>3, <1>6
<1>8. f[Pick(m)] = g[Pick(m)]
  BY <1>3, <1>5
<1> QED
  BY <1>3, <1>4, <1>7, <1>8 DEF Totals

\* A running total may take any element last: the order in which
\* MapThenSumSet takes them does not matter.
LEMMA TotalsOrder ==
  ASSUME NEW S, IsFiniteSet(S), NEW f, NEW h, Totals(h, f, S),
         \A x \in S : f[x] \in Int
  PROVE  \A s \in SUBSET S : \A x \in s : h[s] = f[x] + h[s \ {x}]
<1> DEFINE Bad == {s \in SUBSET S : \E x \in s : h[s] # f[x] + h[s \ {x}]}
<1>1. SUFFICES ASSUME Bad # {} PROVE FALSE
  OBVIOUS
<1>2. PICK m \in Bad : \A t \in Bad : t \subseteq m => t = m
  <2>1. Bad \subseteq SUBSET S
    OBVIOUS
  <2> HIDE DEF Bad
  <2> QED
    BY <1>1, <2>1, SmallestSubset
<1>3. PICK x \in m : h[m] # f[x] + h[m \ {x}]
  BY <1>2
<1> DEFINE c == Pick(m)
           rest == m \ {c, x}
<1>4. c \in m
  BY <1>3, PickIsElement
<1>5. h[m] = f[c] + h[m \ {c}]
  BY <1>2, <1>3 DEF Totals
<1>6. c # x
  BY <1>3, <1>5
<1>7. h[m \ {c}] = f[x] + h[rest]
  <2>1. m \ {c} \notin Bad /\ m \ {c} \in SUBSET S
    BY <1>2, <1>4
  <2>2. x \in m \ {c} /\ (m \ {c}) \ {x} = rest
    BY <1>3, <1>6
  <2> QED
    BY <2>1, <2>2
<1>8. h[m \ {x}] = f[c] + h[rest]
  <2>1. m \ {x} \notin Bad /\ m \ {x} \in SUBSET S
    BY <1>2, <1>3
  <2>2. c \in m \ {x} /\ (m \ {x}) \ {c} = rest
    BY <1>4, <1>6
  <2> QED
    BY <2>1, <2>2
<1>9. f[c] \in Int /\ f[x] \in Int /\ h[rest] \in Int
  BY <1>2, <1>3, <1>4 DEF Totals
<1> HIDE DEF c, rest
<1> QED
  BY <1>3, <1>5, <1>7, <1>8, <1>9

\* Over a finite set of integers there is a running total.
LEMMA TotalsExist ==
  ASSUME NEW S, IsFiniteSet(S), NEW f, \A x \in S : f[x] \in Int
  PROVE  \E h : Totals(h, f, S)
<1> DEFINE Bad == {T \in SUBSET S : ~ \E h : Totals(h, f, T)}
<1>1. SUFFICES ASSUME Bad # {} PROVE FALSE
  OBVIOUS
<1>2. PICK m \in Bad : \A t \in Bad : t \subseteq m => t = m
  <2>1. Bad \subseteq SUBSET S
    OBVIOUS
  <2> HIDE DEF Bad
  <2> QED
    BY <1>1, <2>1, SmallestSubset
<1>3. m # {}
  <2>1. Totals([s \in SUBSET {} |-> 0], f, {})
    BY DEF Totals
  <2> QED
    BY <2>1, <1>2
<1> DEFINE c == Pick(m)
           Total(s) == (CHOOSE k : Totals(k, f, s))[s]
           h == [s \in SUBSET m |-> IF s = m THEN f[c] + Total(m \ {c}) ELSE Total(s)]
<1>4. c \in m /\ m \ {c} # m
  BY <1>3, PickIsElement
<1>5. ASSUME NEW s \in SUBSET m, s # m
      PROVE  Totals(CHOOSE k : Totals(k, f, s), f, s)
  <2>1. s \notin Bad /\ s \in SUBSET S
    BY <1>2, <1>5
  <2>2. PICK k : Totals(k, f, s)
    BY <2>1
  <2> QED
    BY <2>2
<1>6. ASSUME NEW s \in SUBSET m, s # m
      PROVE  /\ Total(s) \in Int
             /\ s = {} => Total(s) = 0
             /\ s # {} => Total(s) = f[Pick(s)] + Total(s \ {Pick(s)})
  <2> DEFINE k == CHOOSE q : Totals(q, f, s)
             r == s \ {Pick(s)}
             l == CHOOSE q : Totals(q, f, r)
  <2>1. Totals(k, f, s)
    BY <1>5, <1>6
  <2>2. r \in SUBSET m /\ r # m /\ r \in SUBSET s
    BY <1>6
  <2>3. Totals(l, f, r)
    BY <1>5, <2>2
  <2>4. IsFiniteSet(s)
    <3>1. s \in SUBSET S
      BY <1>2
    <3> QED
      BY <3>1, FS_Subset
  <2> HIDE DEF k, l, r
  <2>5. k[r] = l[r]
    BY <2>1, <2>2, <2>3, <2>4, TotalsAgree
  <2>6. /\ k[s] \in Int
        /\ s = {} => k[s] = 0
        /\ s # {} => k[s] = f[Pick(s)] + k[r]
    BY <2>1 DEF Totals, r
  <2> QED
    BY <2>5, <2>6 DEF k, l, r
<1>7. \A s \in SUBSET m : s # m => h[s] = Total(s)
  OBVIOUS
<1>8. h[m] = f[c] + h[m \ {c}] /\ f[c] \in Int
  BY <1>2, <1>4
<1> HIDE DEF Total
<1>9. h \in [SUBSET m -> Int]
  <2>1. m \ {c} \in SUBSET m /\ m \ {c} # m
    BY <1>4
  <2>2. Total(m \ {c}) \in Int
    BY <1>6, <2>1
  <2>3. f[c] + Total(m \ {c}) \in Int
    BY <1>8, <2>2
  <2>4. \A s \in SUBSET m : s # m => Total(s) \in Int
    BY <1>6
  <2> HIDE DEF c
  <2> QED
    BY <2>3, <2>4
<1> HIDE DEF h
<1>10. h[{}] = 0
  BY <1>3, <1>6, <1>7
<1>11. ASSUME NEW s \in SUBSET m, s # {}
       PROVE  h[s] = f[Pick(s)] + h[s \ {Pick(s)}]
  <2>1. CASE s = m
    BY <1>8, <2>1
  <2>2. CASE s # m
    <3>1. s \ {Pick(s)} \in SUBSET m /\ s \ {Pick(s)} # m
      BY <2>2
    <3> QED
      BY <2>2, <3>1, <1>6, <1>7, <1>11
  <2> QED
    BY <2>1, <2>2
<1>12. Totals(h, f, m)
  BY <1>9, <1>10, <1>11 DEF Totals
<1> QED
  BY <1>2, <1>12

Due(ord, S) == MapThenSumSet(LAMBDA b : ord[b].amount, S)

\* What MapThenSumSet computes over a finite set is such a total.
LEMMA DueIsTotal ==
  ASSUME NEW S, IsFiniteSet(S), NEW ord, \A b \in S : ord[b].amount \in Int
  PROVE  \E h : Totals(h, [b \in S |-> ord[b].amount], S) /\ Due(ord, S) = h[S]
<1> DEFINE f == [b \in S |-> ord[b].amount]
           Next1(h) == [s \in SUBSET S |->
                         IF s = {} THEN 0
                         ELSE ord[CHOOSE x \in s : TRUE].amount
                                + h[s \ {CHOOSE x \in s : TRUE}]]
           iter == CHOOSE h : h = Next1(h)
<1>1. Due(ord, S) = iter[S]
  BY DEF Due, MapThenSumSet, MapThenFoldSet
<1>2. \A b \in S : f[b] \in Int
  OBVIOUS
<1>3. PICK h : Totals(h, f, S)
  <2> HIDE DEF f
  <2> QED
    BY <1>2, TotalsExist
<1>4. \A s \in SUBSET S : s # {} => Pick(s) \in S /\ f[Pick(s)] = ord[Pick(s)].amount
  BY PickIsElement
<1>5. h = Next1(h)
  <2>1. h = [s \in SUBSET S |-> h[s]]
    BY <1>3 DEF Totals
  <2>2. ASSUME NEW s \in SUBSET S PROVE h[s] = Next1(h)[s]
    BY <1>3, <1>4 DEF Totals, Pick
  <2> QED
    BY <2>1, <2>2
<1>6. iter = Next1(iter)
  <2> HIDE DEF Next1
  <2> QED
    BY <1>5
<1>7. \A s \in SUBSET S : iter[s] = IF s = {} THEN 0 ELSE ord[Pick(s)].amount + iter[s \ {Pick(s)}]
  <2> HIDE DEF iter
  <2> QED
    BY <1>6 DEF Pick
<1> HIDE DEF iter
<1> DEFINE Bad == {s \in SUBSET S : iter[s] # h[s]}
<1>8. Bad = {}
  <2> SUFFICES ASSUME Bad # {} PROVE FALSE
    OBVIOUS
  <2>1. Bad \subseteq SUBSET S
    OBVIOUS
  <2>2. PICK m \in Bad : \A t \in Bad : t \subseteq m => t = m
    <3> HIDE DEF Bad
    <3> QED
      BY <2>1, SmallestSubset
  <2>3. m # {}
    BY <2>2, <1>3, <1>7 DEF Totals
  <2>4. m \ {Pick(m)} \notin Bad /\ m \ {Pick(m)} \in SUBSET S
    BY <2>2, <2>3, PickIsElement
  <2>5. iter[m \ {Pick(m)}] = h[m \ {Pick(m)}]
    BY <2>4
  <2> HIDE DEF f
  <2> QED
    BY <2>2, <2>3, <2>5, <1>3, <1>4, <1>7 DEF Totals
<1>9. iter[S] = h[S]
  BY <1>8
<1> QED
  BY <1>1, <1>3, <1>9

\* With no purchase on the ledger nothing is due.
LEMMA DueOfNone ==
  ASSUME NEW ord
  PROVE  Due(ord, {}) = 0
<1>1. \E h : Totals(h, [b \in {} |-> ord[b].amount], {}) /\ Due(ord, {}) = h[{}]
  BY FS_EmptySet, DueIsTotal
<1> QED
  BY <1>1 DEF Totals

\* What is due is a number.
LEMMA DueOfAll ==
  ASSUME NEW S, IsFiniteSet(S), NEW ord, \A b \in S : ord[b].amount \in Int
  PROVE  Due(ord, S) \in Int
<1>1. PICK h : Totals(h, [b \in S |-> ord[b].amount], S) /\ Due(ord, S) = h[S]
  BY DueIsTotal
<1> QED
  BY <1>1 DEF Totals

\* One more purchase on the ledger adds its amount to what is due.
LEMMA DueAdds ==
  ASSUME NEW S, IsFiniteSet(S), NEW x, x \notin S, NEW ord, NEW prd,
         \A b \in S \cup {x} : ord[b].amount \in Int,
         \A b \in S : prd[b].amount = ord[b].amount
  PROVE  Due(ord, S \cup {x}) = Due(prd, S) + ord[x].amount
<1> DEFINE Sx == S \cup {x}
           f == [b \in Sx |-> ord[b].amount]
           g == [b \in S |-> prd[b].amount]
<1>1. IsFiniteSet(Sx)
  BY FS_AddElement
<1>2. PICK h : Totals(h, f, Sx) /\ Due(ord, Sx) = h[Sx]
  BY <1>1, DueIsTotal
<1>3. PICK k : Totals(k, g, S) /\ Due(prd, S) = k[S]
  BY DueIsTotal
<1>4. S \in SUBSET Sx /\ x \in Sx /\ Sx \ {x} = S /\ \A b \in S : f[b] = g[b]
  OBVIOUS
<1>5. \A b \in Sx : f[b] \in Int
  OBVIOUS
<1>6. f[x] = ord[x].amount
  OBVIOUS
<1> HIDE DEF f, g, Sx
<1>7. h[Sx] = f[x] + h[S]
  BY <1>1, <1>2, <1>4, <1>5, TotalsOrder
<1>8. h[S] = k[S]
  BY <1>1, <1>2, <1>3, <1>4, TotalsAgree
<1>9. k[S] \in Int /\ f[x] \in Int
  BY <1>3, <1>4, <1>5 DEF Totals
<1> QED
  BY <1>2, <1>3, <1>6, <1>7, <1>8, <1>9 DEF Sx

\* What is due depends only on the amounts of the purchases it is about.
LEMMA DueSame ==
  ASSUME NEW S, IsFiniteSet(S), NEW ord, NEW prd,
         \A b \in S : ord[b].amount \in Int,
         \A b \in S : prd[b].amount = ord[b].amount
  PROVE  Due(prd, S) = Due(ord, S)
<1> DEFINE f == [b \in S |-> ord[b].amount]
           g == [b \in S |-> prd[b].amount]
<1>1. PICK h : Totals(h, f, S) /\ Due(ord, S) = h[S]
  BY DueIsTotal
<1>2. PICK k : Totals(k, g, S) /\ Due(prd, S) = k[S]
  BY DueIsTotal
<1>3. \A b \in S : f[b] = g[b]
  OBVIOUS
<1> HIDE DEF f, g
<1>4. h[S] = k[S]
  BY <1>1, <1>2, <1>3, TotalsAgree
<1> QED
  BY <1>1, <1>2, <1>4

-----------------------------------------------------------------------------
\* The buyers whose purchase is on the ledger and not settled.
Paying == {b \in Buyers : pc[b] = "pay"}

\* The types of the ledger, the passport's wallets and the buyers' copies; a
\* buyer past "idle" has a purchase in hand.
TypeInv ==
  /\ ledger \in Grant
  /\ passportKey \in Nat \ {0}
  /\ wallets \in Seq([wallet : Nat, key : Nat])
  /\ pc \in [Buyers -> {"idle", "gates", "record", "pay"}]
  /\ copy \in [Buyers -> Grant]
  /\ order \in [Buyers -> Orders \cup {None}]
  /\ \A b \in Buyers : pc[b] # "idle" => order[b] \in Orders
  /\ paid \in Int

\* RecordSpend changes the amount spent and nothing else, upward.
Earlier(d, e) ==
  /\ d.scope = e.scope /\ d.spendLimit = e.spendLimit
  /\ d.currency = e.currency /\ d.approvedMerchants = e.approvedMerchants
  /\ d.spentAmount <= e.spentAmount

\* The entry of the wallet that counts was signed by a key the passport has
\* or had.
WalletBound(w) ==
  \E i \in DOMAIN wallets :
    /\ wallets[i].wallet = w /\ wallets[i].key \in 1..passportKey
    /\ \A j \in 1..(i - 1) : wallets[j].wallet # w

\* What a buyer past the gates has shown, on the ledger as it stands.
OnTerms(o) ==
  /\ o.amount # NaN
  /\ SameCurrency(ledger, o)
  /\ CheckMerchantGate(ledger, o)
  /\ CheckScopeGate(ledger)
  /\ WalletBound(o.wallet)

\* No buyer's copy is ahead of the ledger or differs from it but in the
\* amount spent.
CopiesEarlier == \A b \in Buyers : Earlier(copy[b], ledger)

\* Who passed the gates passed them on terms that still hold.
ClearedOnTerms ==
  \A b \in Buyers : pc[b] \in {"record", "pay"} => OnTerms(order[b])

\* RecordSpend refuses a negative amount, so none is on the ledger.
NothingNegative == \A b \in Paying : order[b].amount \in Nat

\* The ledger is within its limit and is what was paid and what is due.
Accounted ==
  /\ ledger.spentAmount <= ledger.spendLimit
  /\ ledger.spentAmount = paid + Due(order, Paying)

\* The inductive invariant.
IInv ==
  /\ TypeInv
  /\ CopiesEarlier
  /\ ClearedOnTerms
  /\ NothingNegative
  /\ Accounted

-----------------------------------------------------------------------------
\* The fields of a delegation and of a purchase.
LEMMA Fields ==
  /\ \A d \in Grant : d.spendLimit \in Int /\ d.spentAmount \in Int
  /\ \A o \in Orders : o.amount \in Int \cup {NaN} /\ o.wallet \in Nat
BY CommerceAssumption DEF Grant, Order

\* Some of the buyers are finitely many.
LEMMA PayingFinite ==
  ASSUME NEW S \in SUBSET Buyers
  PROVE  IsFiniteSet(S)
BY CommerceAssumption, FS_Subset

\* The ledger, the copies and the account agree at the start.
LEMMA InitIInv ==
  Init => IInv
<1> SUFFICES ASSUME Init PROVE IInv
  OBVIOUS
<1>1. ledger \in Grant /\ 0 <= ledger.spentAmount
      /\ ledger.spentAmount <= ledger.spendLimit
  BY CommerceAssumption DEF Init
<1>2. ledger.spentAmount \in Int
  BY <1>1, Fields
<1>3. wallets \in Seq([wallet : Nat, key : Nat])
  BY CommerceAssumption DEF Init
<1>4. TypeInv
  BY <1>1, <1>2, <1>3 DEF Init, TypeInv
<1>5. Paying = {}
  BY DEF Init, Paying
<1>6. CopiesEarlier
  BY <1>1, <1>2 DEF Init, CopiesEarlier, Earlier
<1>7. ClearedOnTerms
  BY DEF Init, ClearedOnTerms
<1>8. NothingNegative
  BY <1>5 DEF NothingNegative
<1>9. Accounted
  BY <1>1, <1>2, <1>5, DueOfNone DEF Init, Accounted
<1> QED
  BY <1>4, <1>6, <1>7, <1>8, <1>9 DEF IInv

\* A step that leaves the ledger, what was paid and the purchases on it alone
\* leaves the account balanced.
LEMMA StaysAccounted ==
  ASSUME IInv, ledger' = ledger, paid' = paid, Paying' = Paying,
         \A b \in Paying : order'[b] = order[b]
  PROVE  NothingNegative' /\ Accounted'
<1>1. Paying \in SUBSET Buyers
  BY DEF Paying
<1>2. \A b \in Paying : order[b].amount \in Int
  BY DEF IInv, NothingNegative
<1>3. Due(order', Paying) = Due(order, Paying)
  BY <1>1, <1>2, PayingFinite, DueSame
<1>4. NothingNegative'
  BY DEF IInv, NothingNegative
<1>5. Due(order, Paying)' = Due(order', Paying')
  OBVIOUS
<1> QED
  BY <1>3, <1>4, <1>5 DEF IInv, Accounted

\* Reading the ledger and turning to a purchase.
LEMMA BeginKeeps ==
  ASSUME IInv, NEW b \in Buyers, NEW o \in Orders, Begin(b, o)
  PROVE  IInv'
<1> USE DEF Begin, Goto, passport
<1>1. TypeInv'
  BY DEF IInv, TypeInv
<1>2. /\ \A c \in Buyers : c # b => pc'[c] = pc[c] /\ order'[c] = order[c] /\ copy'[c] = copy[c]
      /\ pc'[b] = "gates" /\ copy'[b] = ledger /\ pc[b] = "idle"
  BY DEF IInv, TypeInv
<1>3. Paying' = Paying /\ \A c \in Paying : order'[c] = order[c]
  BY <1>2 DEF Paying
<1>4. NothingNegative' /\ Accounted'
  BY <1>3, StaysAccounted
<1>5. CopiesEarlier'
  <2>1. ledger.spentAmount \in Int
    BY Fields DEF IInv, TypeInv
  <2> QED
    BY <1>2, <2>1 DEF IInv, CopiesEarlier, Earlier
<1>6. ClearedOnTerms'
  BY <1>2 DEF IInv, ClearedOnTerms, OnTerms, WalletBound
<1> QED
  BY <1>1, <1>4, <1>5, <1>6 DEF IInv

\* Passing the gates: what they found on the copy is true of the ledger.
LEMMA ClearKeeps ==
  ASSUME IInv, NEW b \in Buyers, Clear(b) \/ Confirm(b)
  PROVE  IInv'
<1> USE DEF Goto, passport
<1>1. /\ pc[b] = "gates" /\ GatesPass(b) /\ pc' = [pc EXCEPT ![b] = "record"]
      /\ UNCHANGED <<ledger, passportKey, wallets, copy, order, paid>>
  BY DEF Clear, Confirm
<1>2. TypeInv'
  BY <1>1 DEF IInv, TypeInv
<1>3. \A c \in Buyers : pc'[c] = IF c = b THEN "record" ELSE pc[c]
  BY <1>1 DEF IInv, TypeInv
<1>4. Paying' = Paying /\ \A c \in Paying : order'[c] = order[c]
  BY <1>1, <1>3 DEF Paying
<1>5. NothingNegative' /\ Accounted'
  BY <1>1, <1>4, StaysAccounted
<1>6. CopiesEarlier'
  BY <1>1 DEF IInv, CopiesEarlier
<1>7. OnTerms(order[b])
  <2>1. Earlier(copy[b], ledger)
    BY DEF IInv, CopiesEarlier
  <2>2. order[b].amount # NaN /\ SameCurrency(ledger, order[b])
        /\ CheckMerchantGate(ledger, order[b]) /\ CheckScopeGate(ledger)
    BY <1>1, <2>1 DEF GatesPass, Earlier, CheckSpendGate, SameCurrency,
                      CheckMerchantGate, CheckScopeGate
  <2>3. WalletBound(order[b].wallet)
    <3>1. passportKey \in 1..passportKey
      BY DEF IInv, TypeInv
    <3> QED
      BY <1>1, <3>1 DEF GatesPass, CheckWalletGate, WalletBound
  <2> QED
    BY <2>2, <2>3 DEF OnTerms
<1>8. ClearedOnTerms'
  BY <1>1, <1>3, <1>7 DEF IInv, ClearedOnTerms, OnTerms, WalletBound
<1> QED
  BY <1>2, <1>5, <1>6, <1>8 DEF IInv

\* A gate or RecordSpend that refuses.
LEMMA RefuseKeeps ==
  ASSUME IInv, NEW b \in Buyers, Refuse(b) \/ RecordRefused(b)
  PROVE  IInv'
<1> USE DEF Goto, passport
<1>1. /\ pc[b] # "pay" /\ pc' = [pc EXCEPT ![b] = "idle"]
      /\ order' = [order EXCEPT ![b] = None]
      /\ UNCHANGED <<ledger, passportKey, wallets, copy, paid>>
  BY DEF Refuse, RecordRefused
<1>2. TypeInv'
  BY <1>1 DEF IInv, TypeInv
<1>3. /\ \A c \in Buyers : c # b => pc'[c] = pc[c] /\ order'[c] = order[c]
      /\ pc'[b] = "idle"
  BY <1>1 DEF IInv, TypeInv
<1>4. Paying' = Paying /\ \A c \in Paying : order'[c] = order[c]
  BY <1>1, <1>3 DEF Paying
<1>5. NothingNegative' /\ Accounted'
  BY <1>1, <1>4, StaysAccounted
<1>6. CopiesEarlier'
  BY <1>1 DEF IInv, CopiesEarlier
<1>7. ClearedOnTerms'
  BY <1>1, <1>3 DEF IInv, ClearedOnTerms, OnTerms, WalletBound
<1> QED
  BY <1>2, <1>5, <1>6, <1>7 DEF IInv

\* RecordSpend on a copy that is current: the account grows by the amount,
\* and stays within the limit.
LEMMA RecordKeeps ==
  ASSUME IInv, NEW b \in Buyers, RecordAndPersist(b)
  PROVE  IInv'
<1> USE DEF Goto, passport
<1> DEFINE a == order[b].amount
<1>1. /\ pc[b] = "record" /\ pc' = [pc EXCEPT ![b] = "pay"]
      /\ ~ RecordSpendFails(ledger, order[b])
      /\ ledger' = RecordSpend(ledger, order[b])
      /\ UNCHANGED <<passportKey, wallets, copy, order, paid>>
  BY DEF RecordAndPersist
<1>2. /\ ledger \in Grant /\ ledger.spentAmount \in Int
      /\ ledger.spendLimit \in Int /\ paid \in Int
  BY Fields DEF IInv, TypeInv
<1>3. a \in Nat /\ ledger.spentAmount + a <= ledger.spendLimit
  BY <1>1, <1>2 DEF RecordSpendFails
<1>4. /\ ledger' \in Grant /\ ledger'.spentAmount = ledger.spentAmount + a
      /\ ledger'.scope = ledger.scope /\ ledger'.spendLimit = ledger.spendLimit
      /\ ledger'.currency = ledger.currency
      /\ ledger'.approvedMerchants = ledger.approvedMerchants
  BY <1>1, <1>2, <1>3 DEF RecordSpend, Grant
<1>5. TypeInv'
  BY <1>1, <1>4 DEF IInv, TypeInv
<1>6. \A c \in Buyers : pc'[c] = IF c = b THEN "pay" ELSE pc[c]
  BY <1>1 DEF IInv, TypeInv
<1>7. Paying' = Paying \cup {b} /\ b \notin Paying /\ Paying \in SUBSET Buyers
  BY <1>1, <1>6 DEF Paying
<1>8. CopiesEarlier'
  <2>1. \A c \in Buyers : copy[c].spentAmount \in Int
    BY Fields DEF IInv, TypeInv
  <2> QED
    BY <1>1, <1>2, <1>3, <1>4, <2>1 DEF IInv, CopiesEarlier, Earlier
<1>9. ClearedOnTerms'
  <2> SUFFICES ASSUME NEW c \in Buyers, pc'[c] \in {"record", "pay"}
               PROVE  OnTerms(order[c])'
    BY DEF ClearedOnTerms
  <2>1. OnTerms(order[c])
    BY <1>1, <1>6 DEF IInv, ClearedOnTerms
  <2> QED
    BY <1>1, <1>4, <2>1 DEF OnTerms, WalletBound, SameCurrency,
                            CheckMerchantGate, CheckScopeGate
<1>10. NothingNegative'
  BY <1>1, <1>3, <1>7 DEF IInv, NothingNegative
<1>11. Accounted'
  <2>1. \A c \in Paying \cup {b} : order[c].amount \in Int
    BY <1>3 DEF IInv, NothingNegative
  <2>2. Due(order, Paying \cup {b}) = Due(order, Paying) + a
    BY <1>7, <2>1, PayingFinite, DueAdds
  <2>3. Due(order, Paying) \in Int
    BY <1>7, <2>1, PayingFinite, DueOfAll
  <2>4. Due(order, Paying)' = Due(order, Paying \cup {b})
    BY <1>1, <1>7
  <2>5. ledger.spentAmount = paid + Due(order, Paying)
    BY DEF IInv, Accounted
  <2>6. ledger'.spentAmount = paid + (Due(order, Paying) + a)
    BY <1>2, <1>3, <1>4, <2>3, <2>5
  <2> QED
    BY <1>1, <1>3, <1>4, <2>2, <2>4, <2>6 DEF Accounted
<1> QED
  BY <1>5, <1>8, <1>9, <1>10, <1>11 DEF IInv

\* Reading the ledger again.
LEMMA RereadKeeps ==
  ASSUME IInv, NEW b \in Buyers, Reread(b)
  PROVE  IInv'
<1> USE DEF Reread, passport
<1>1. TypeInv'
  BY DEF IInv, TypeInv
<1>2. /\ \A c \in Buyers : c # b => copy'[c] = copy[c]
      /\ copy'[b] = ledger
  BY DEF IInv, TypeInv
<1>3. NothingNegative' /\ Accounted'
  BY StaysAccounted DEF Paying
<1>4. CopiesEarlier'
  <2>1. ledger.spentAmount \in Int
    BY Fields DEF IInv, TypeInv
  <2> QED
    BY <1>2, <2>1 DEF IInv, CopiesEarlier, Earlier
<1>5. ClearedOnTerms'
  BY DEF IInv, ClearedOnTerms, OnTerms, WalletBound
<1> QED
  BY <1>1, <1>3, <1>4, <1>5 DEF IInv

\* Settling: what was due is paid.
LEMMA PayKeeps ==
  ASSUME IInv, NEW b \in Buyers, Pay(b)
  PROVE  IInv'
<1> USE DEF Goto, passport
<1> DEFINE a == order[b].amount
           rest == Paying \ {b}
<1>1. /\ pc[b] = "pay" /\ pc' = [pc EXCEPT ![b] = "idle"]
      /\ order' = [order EXCEPT ![b] = None] /\ paid' = paid + a
      /\ UNCHANGED <<ledger, passportKey, wallets, copy>>
  BY DEF Pay
<1>2. b \in Paying /\ a \in Nat /\ paid \in Int
  BY <1>1 DEF Paying, IInv, NothingNegative, TypeInv
<1>3. TypeInv'
  BY <1>1, <1>2 DEF IInv, TypeInv
<1>4. /\ \A c \in Buyers : c # b => pc'[c] = pc[c] /\ order'[c] = order[c]
      /\ pc'[b] = "idle"
  BY <1>1 DEF IInv, TypeInv
<1>5. /\ Paying' = rest /\ b \notin rest /\ Paying = rest \cup {b}
      /\ rest \in SUBSET Buyers /\ \A c \in rest : order'[c] = order[c]
  BY <1>2, <1>4 DEF Paying
<1>6. NothingNegative'
  BY <1>5 DEF IInv, NothingNegative
<1>7. Accounted'
  <2>1. \A c \in rest \cup {b} : order[c].amount \in Int
    BY <1>5 DEF IInv, NothingNegative
  <2>2. Due(order, rest \cup {b}) = Due(order', rest) + a
    <3>1. \A c \in rest : order'[c].amount = order[c].amount
      BY <1>5
    <3>2. IsFiniteSet(rest) /\ b \notin rest
      BY <1>5, PayingFinite
    <3> HIDE DEF rest
    <3> QED
      BY <2>1, <3>1, <3>2, DueAdds
  <2>3. Due(order', rest) \in Int
    BY <1>5, <2>1, PayingFinite, DueOfAll
  <2>4. Due(order, Paying)' = Due(order', rest)
    BY <1>5
  <2>5. ledger.spentAmount = paid + Due(order, rest \cup {b})
    BY <1>5 DEF IInv, Accounted
  <2>6. ledger.spentAmount = (paid + a) + Due(order', rest)
    BY <1>2, <2>2, <2>3, <2>5
  <2> QED
    BY <1>1, <2>4, <2>6 DEF IInv, Accounted
<1>8. CopiesEarlier'
  BY <1>1 DEF IInv, CopiesEarlier
<1>9. ClearedOnTerms'
  BY <1>1, <1>4 DEF IInv, ClearedOnTerms, OnTerms, WalletBound
<1> QED
  BY <1>3, <1>6, <1>7, <1>8, <1>9 DEF IInv

\* A new key and a new entry at the end of the list leave a wallet bound that
\* was.
LEMMA PassportKeeps ==
  ASSUME IInv, Rekey \/ \E o \in Orders : Bind(o.wallet)
  PROVE  IInv'
<1>1. UNCHANGED <<ledger, pc, copy, order, paid>>
  BY DEF Rekey, Bind
<1>2. /\ passportKey' \in Nat \ {0} /\ passportKey <= passportKey'
      /\ passportKey \in Nat
      /\ wallets \in Seq([wallet : Nat, key : Nat])
      /\ wallets' \in Seq([wallet : Nat, key : Nat])
      /\ Len(wallets) <= Len(wallets')
      /\ \A i \in 1..Len(wallets) : wallets'[i] = wallets[i]
  <2>1. CASE Rekey
    BY <2>1 DEF Rekey, IInv, TypeInv
  <2>2. CASE \E o \in Orders : Bind(o.wallet)
    <3>1. PICK o \in Orders : Bind(o.wallet)
      BY <2>2
    <3> DEFINE e == [wallet |-> o.wallet, key |-> passportKey]
    <3>2. e \in [wallet : Nat, key : Nat] /\ wallets \in Seq([wallet : Nat, key : Nat])
      BY Fields DEF IInv, TypeInv
    <3>3. wallets' = Append(wallets, e) /\ passportKey' = passportKey
      BY <3>1 DEF Bind
    <3> HIDE DEF e
    <3> QED
      BY <3>2, <3>3 DEF IInv, TypeInv
  <2> QED
    BY <2>1, <2>2
<1>3. TypeInv'
  BY <1>1, <1>2 DEF IInv, TypeInv
<1>4. NothingNegative' /\ Accounted'
  BY <1>1, StaysAccounted DEF Paying
<1>5. CopiesEarlier'
  BY <1>1 DEF IInv, CopiesEarlier
<1>6. ASSUME NEW w, WalletBound(w) PROVE WalletBound(w)'
  <2>1. PICK i \in DOMAIN wallets :
          /\ wallets[i].wallet = w /\ wallets[i].key \in 1..passportKey
          /\ \A j \in 1..(i - 1) : wallets[j].wallet # w
    BY <1>6 DEF WalletBound
  <2>2. i \in 1..Len(wallets)
    BY <1>2
  <2>4. Len(wallets) \in Nat /\ Len(wallets') \in Nat /\ DOMAIN wallets' = 1..Len(wallets')
    BY <1>2
  <2>5. i \in DOMAIN wallets' /\ \A j \in 1..(i - 1) : j \in 1..Len(wallets)
    BY <1>2, <2>2, <2>4
  <2>3. wallets[i].key \in 1..passportKey'
    <3>1. wallets[i].key \in 1..passportKey
      BY <2>1
    <3>2. passportKey \in Nat /\ passportKey' \in Nat /\ passportKey <= passportKey'
      BY <1>2
    <3>3. \A n, k, l \in Int : n \in 1..k /\ k <= l => n \in 1..l
      OBVIOUS
    <3> QED
      BY <3>1, <3>2, <3>3
  <2> QED
    BY <1>2, <2>1, <2>2, <2>3, <2>5 DEF WalletBound
<1>7. ClearedOnTerms'
  BY <1>1, <1>6 DEF IInv, ClearedOnTerms, OnTerms
<1> QED
  BY <1>3, <1>4, <1>5, <1>7 DEF IInv

\* Every step keeps the invariant.
LEMMA StepKeeps ==
  IInv /\ [Next]_vars => IInv'
<1> SUFFICES ASSUME IInv, [Next]_vars PROVE IInv'
  OBVIOUS
<1>1. ASSUME NEW b \in Buyers, Step(b) PROVE IInv'
  BY <1>1, ClearKeeps, RefuseKeeps, RecordKeeps, RereadKeeps, PayKeeps DEF Step
<1>2. ASSUME UNCHANGED vars PROVE IInv'
  <2>1. UNCHANGED <<ledger, passportKey, wallets, pc, copy, order, paid>>
    BY <1>2 DEF vars
  <2>2. NothingNegative' /\ Accounted'
    BY <2>1, StaysAccounted DEF Paying
  <2>3. TypeInv' /\ CopiesEarlier' /\ ClearedOnTerms'
    BY <2>1 DEF IInv, TypeInv, CopiesEarlier, ClearedOnTerms, OnTerms, WalletBound
  <2> QED
    BY <2>2, <2>3 DEF IInv
<1> QED
  BY <1>1, <1>2, BeginKeeps, PassportKeeps DEF Next

\* The invariant holds for any number of buyers, purchases, wallets and keys,
\* and every interleaving of RecordSpend calls.
THEOREM Inductive ==
  Spec => []IInv
BY InitIInv, StepKeeps, PTL DEF Spec

\* RecordSpend never lets the ledger pass its limit, and no spend is lost or
\* counted twice.
THEOREM SpendStaysInBudget ==
  Spec => []BudgetHolds
<1>1. IInv => BudgetHolds
  BY DEF IInv, Accounted, BudgetHolds, Due, Paying
<1> QED
  BY <1>1, Inductive, PTL

\* What is paid for has passed CheckSpendGate, CheckMerchantGate,
\* CheckScopeGate and CheckWalletGate on terms that hold at the moment of
\* payment.
THEOREM PaymentsAreOnTerms ==
  Spec => []PaidOnTerms
<1>1. IInv => PaidOnTerms
  <2> SUFFICES ASSUME IInv, NEW b \in Buyers, pc[b] = "pay"
               PROVE  LET o == order[b]
                      IN /\ o.amount # NaN /\ o.amount >= 0
                         /\ o.currency # None /\ ledger.currency # None
                              => Fold[o.currency] = Fold[ledger.currency]
                         /\ ledger.approvedMerchants # {}
                              => o.merchant \in ledger.approvedMerchants
                         /\ CheckScopeGate(ledger)
                         /\ \E i \in DOMAIN wallets :
                              /\ wallets[i].wallet = o.wallet /\ wallets[i].key \in 1..passportKey
                              /\ \A j \in 1..(i - 1) : wallets[j].wallet # o.wallet
    BY DEF PaidOnTerms
  <2>1. OnTerms(order[b]) /\ order[b].amount \in Nat
    BY DEF IInv, ClearedOnTerms, NothingNegative, Paying
  <2> QED
    BY <2>1 DEF OnTerms, WalletBound, SameCurrency, CheckMerchantGate
<1> QED
  BY <1>1, Inductive, PTL

\* A purchase that RecordSpend refuses on a copy out of date it would refuse
\* on the ledger.
THEOREM RefusalsStand ==
  Spec => RefusalStands
<1>1. ASSUME IInv, [Next]_vars, NEW b \in Buyers, pc[b] = "record", pc'[b] = "idle"
      PROVE  RecordSpendFails(ledger, order[b])
  <2>1. RecordRefused(b)
    <3>1. \A c \in Buyers : c # b => ~ Step(c)
      BY <1>1 DEF IInv, TypeInv, Step, Clear, Confirm, Refuse, RecordRefused, RecordAndPersist, Reread, Pay, Goto
    <3>2. \A c \in Buyers, o \in Orders : ~ Begin(c, o)
      BY <1>1 DEF IInv, TypeInv, Begin, Goto
    <3>3. ~ UNCHANGED vars /\ ~ Rekey /\ ~ \E o \in Orders : Bind(o.wallet)
      BY <1>1 DEF vars, Rekey, Bind
    <3>4. Step(b)
      BY <1>1, <3>1, <3>2, <3>3 DEF Next
    <3> QED
      BY <1>1, <3>4 DEF IInv, TypeInv, Step, Clear, Confirm, Refuse, RecordAndPersist, Reread, Pay, Goto
  <2>2. Earlier(copy[b], ledger) /\ RecordSpendFails(copy[b], order[b])
    BY <1>1, <2>1 DEF IInv, CopiesEarlier, RecordRefused
  <2>3. /\ copy[b].spentAmount \in Int /\ copy[b].spendLimit \in Int
        /\ ledger.spentAmount \in Int
    BY <1>1, Fields DEF IInv, TypeInv
  <2> QED
    BY <2>2, <2>3 DEF Earlier, RecordSpendFails
<1>2. IInv /\ [Next]_vars =>
        [\A b \in Buyers : (pc[b] = "record" /\ pc'[b] = "idle")
            => RecordSpendFails(ledger, order[b])]_vars
  BY <1>1
<1> QED
  BY <1>2, Inductive, PTL DEF Spec, RefusalStands

-----------------------------------------------------------------------------
\* Contents of different kinds differ.
KindsKnown ==
  /\ \A x \in Briefs : x.kind = "brief"
  /\ \A x \in Assignments : x.kind = "assignment"
  /\ \A x \in Packets : x.kind = "evidence"
  /\ \A x \in Reviews : x.kind = "review"
  /\ \A x \in Handoffs : x.kind = "handoff"
  /\ \A x \in Deliverables : x.kind = "deliverable"
  /\ \A x \in Completions : x.kind = "completion"

\* The operator assigns roles of briefs that verify.
AssignedByBrief ==
  \A a \in Assignments : <<Operator, a>> \in signed => Briefed(a)

\* Whoever signed an acceptance was shown an assignment it is of.
AcceptedOnSight ==
  \A k \in Keys : \A c : (<<k, c>> \in signed /\ c.kind = "accept") =>
    \E a \in Assignments :
      /\ VerifyAssignment(a) /\ c = AcceptContent(a)
      /\ a.agentPublicKey = k /\ <<k, a>> \in shown

\* Whoever signed a packet holds an assignment to its role, and was shown one
\* with these ids.
SubmittedInRole ==
  \A k \in Keys, p \in Packets : <<k, p>> \in signed =>
    \E a \in Assignments :
      /\ VerifyAssignment(a) /\ WasShown(a)
      /\ <<a.taskId, a.role, a.agentPublicKey>> = <<p.taskId, p.role, k>>

\* A review is of a packet that verifies, and approves no score below the
\* threshold.
ReviewedWithCause ==
  \A k \in Keys, r \in Reviews : <<k, r>> \in signed =>
    /\ Reviewable(r)
    /\ ~ (r.score < r.threshold /\ r.verdict = "approve")

\* A packet is handed on under a review of its own that approves it.
HandedOnApproval ==
  \A k \in Keys, h \in Handoffs : <<k, h>> \in signed =>
    \E r \in Reviews : /\ OwnReview(k, r) /\ r.verdict = "approve"
                       /\ r.packetId = h.packetId

\* A deliverable cites what was handed to its author.
DeliveredFromHandoffs ==
  \A k \in Keys, d \in Deliverables : <<k, d>> \in signed => Received(k, d)

\* A completion lists deliverables that verify.
CompletedWhenDelivered ==
  \A k \in Keys, c \in Completions : <<k, c>> \in signed => Delivered(c)

\* The inductive invariant of the workflow.
CInv ==
  /\ signed \subseteq Keys \X Content
  /\ AssignedByBrief /\ AcceptedOnSight /\ SubmittedInRole
  /\ ReviewedWithCause /\ HandedOnApproval
  /\ DeliveredFromHandoffs /\ CompletedWhenDelivered

\* The kinds of content are told apart by their fields.
LEMMA Kinds ==
  KindsKnown
BY CoordinationAssumption DEF KindsKnown, TaskBrief, TaskAssignment, EvidencePacket,
   ReviewDecision, EvidenceHandoff, Deliverable, TaskCompletion

\* Who finds VerifyAcceptance true of an assignment knows that its agent was
\* shown an assignment with its ids.
LEMMA AcceptanceShown ==
  ASSUME CInv, NEW a \in Assignments, VerifyAcceptance(a)
  PROVE  WasShown(a)
<1>1. a.agentPublicKey \in Keys
  BY CoordinationAssumption DEF TaskAssignment
<1> DEFINE c == AcceptContent(a)
<1>2. c.kind = "accept" /\ c.assignmentId = a.assignmentId /\ c.taskId = a.taskId
  BY DEF AcceptContent
<1>3. <<a.agentPublicKey, c>> \in signed
  BY DEF VerifyAcceptance, VerifyContent
<1>4. PICK b \in Assignments :
        /\ VerifyAssignment(b) /\ c = AcceptContent(b)
        /\ b.agentPublicKey = a.agentPublicKey /\ <<a.agentPublicKey, b>> \in shown
  <2> HIDE DEF c
  <2> QED
    BY <1>1, <1>2, <1>3 DEF CInv, AcceptedOnSight
<1>5. b.assignmentId = a.assignmentId /\ b.taskId = a.taskId
  BY <1>2, <1>4 DEF AcceptContent
<1>6. SameIds(a, b)
  BY <1>4, <1>5 DEF SameIds
<1> QED
  BY <1>4, <1>6 DEF WasShown

\* More signatures never take a verdict away.
LEMMA VerdictsKeep ==
  ASSUME signed \subseteq signed', shown \subseteq shown'
  PROVE  /\ \A a : VerifyAssignment(a) => VerifyAssignment(a)'
         /\ \A a : WasShown(a) => WasShown(a)'
         /\ \A a : Briefed(a) => Briefed(a)'
         /\ \A r : Reviewable(r) => Reviewable(r)'
         /\ \A k, r : OwnReview(k, r) => OwnReview(k, r)'
         /\ \A k, d : Received(k, d) => Received(k, d)'
         /\ \A c : Delivered(c) => Delivered(c)'
BY DEF VerifyAssignment, WasShown, Briefed, VerifyTaskBrief, Reviewable, OwnReview, Received, Delivered,
       VerifyEvidence, VerifyReview, VerifyHandoff, VerifyDeliverable,
       VerifyContent

\* What one more signature may be, with the check its signer made.
Signable(k, x) ==
  \/ x \in Briefs
  \/ x \in Assignments /\ (k = Operator => Briefed(x))
  \/ \E a \in Assignments :
       x = AcceptContent(a) /\ Acceptable(k, a) /\ <<k, a>> \in shown'
  \/ x \in Packets /\ Accepted(k, x)
  \/ x \in Reviews /\ Reviewable(x)
       /\ ~ (x.score < x.threshold /\ x.verdict = "approve")
  \/ x \in Handoffs /\ \E r \in Reviews :
       OwnReview(k, r) /\ r.verdict = "approve" /\ r.packetId = x.packetId
  \/ x \in Deliverables /\ Received(k, x)
  \/ x \in Completions /\ Delivered(x)

\* Every step adds one signature, of something its signer checked.
LEMMA OneSignature ==
  ASSUME TaskNext
  PROVE  /\ shown \subseteq shown'
         /\ \E k \in Keys : \E x : signed' = signed \cup {<<k, x>>} /\ Signable(k, x)
<1> USE DEF Sign, Signable
<1>1. PICK k \in Keys :
        \/ \E b \in Briefs : CreateTaskBrief(k, b)
        \/ \E a \in Assignments : (k = Operator => Briefed(a)) /\ CreateAssignment(k, a)
        \/ \E a \in Assignments : Acceptable(k, a) /\ AcceptTask(k, a)
        \/ \E p \in Packets : Accepted(k, p) /\ SubmitEvidence(k, p)
        \/ \E r \in Reviews : Reviewable(r) /\ ReviewEvidence(k, r)
        \/ \E h \in Handoffs, r \in Reviews :
             OwnReview(k, r) /\ HandoffEvidence(k, h, r)
        \/ \E d \in Deliverables : Received(k, d) /\ SubmitDeliverable(k, d)
        \/ \E c \in Completions : Delivered(c) /\ CompleteTask(k, c)
  BY DEF TaskNext
<1>2. CASE \E b \in Briefs : CreateTaskBrief(k, b)
  BY <1>2 DEF CreateTaskBrief
<1>3. CASE \E a \in Assignments : (k = Operator => Briefed(a)) /\ CreateAssignment(k, a)
  BY <1>3 DEF CreateAssignment
<1>4. CASE \E a \in Assignments : Acceptable(k, a) /\ AcceptTask(k, a)
  BY <1>4 DEF AcceptTask
<1>5. CASE \E p \in Packets : Accepted(k, p) /\ SubmitEvidence(k, p)
  BY <1>5 DEF SubmitEvidence
<1>6. CASE \E r \in Reviews : Reviewable(r) /\ ReviewEvidence(k, r)
  BY <1>6 DEF ReviewEvidence
<1>7. CASE \E h \in Handoffs, r \in Reviews :
             OwnReview(k, r) /\ HandoffEvidence(k, h, r)
  BY <1>7 DEF HandoffEvidence
<1>8. CASE \E d \in Deliverables : Received(k, d) /\ SubmitDeliverable(k, d)
  BY <1>8 DEF SubmitDeliverable
<1>9. CASE \E c \in Completions : Delivered(c) /\ CompleteTask(k, c)
  BY <1>9 DEF CompleteTask
<1> QED
  BY <1>1, <1>2, <1>3, <1>4, <1>5, <1>6, <1>7, <1>8, <1>9

\* One more signature keeps the invariant.
LEMMA SignatureKeeps ==
  ASSUME CInv, TaskNext
  PROVE  CInv'
<1>0. PICK k \in Keys : \E x : signed' = signed \cup {<<k, x>>} /\ Signable(k, x)
  BY OneSignature
<1>1. PICK x : signed' = signed \cup {<<k, x>>} /\ Signable(k, x)
  BY <1>0
<1>2. shown \subseteq shown' /\ signed \subseteq signed'
  BY <1>1, OneSignature
<1>3. /\ \A a : VerifyAssignment(a) => VerifyAssignment(a)'
      /\ \A a : WasShown(a) => WasShown(a)'
      /\ \A a : Briefed(a) => Briefed(a)'
      /\ \A r : Reviewable(r) => Reviewable(r)'
      /\ \A l, r : OwnReview(l, r) => OwnReview(l, r)'
      /\ \A l, d : Received(l, d) => Received(l, d)'
      /\ \A c : Delivered(c) => Delivered(c)'
  BY <1>2, VerdictsKeep
<1>4. KindsKnown
  BY Kinds
<1>5. \A a \in Assignments : AcceptContent(a).kind = "accept"
  BY DEF AcceptContent
<1>6. (signed \subseteq Keys \X Content)'
  <2>1. x \in Content
    BY <1>1 DEF Signable, Content
  <2>2. signed \subseteq Keys \X Content
    BY DEF CInv
  <2>3. signed' \subseteq Keys \X Content
    BY <1>1, <2>1, <2>2
  <2> QED
    BY <2>3 DEF Content
<1>7. AssignedByBrief'
  BY <1>1, <1>3, <1>4, <1>5 DEF CInv, AssignedByBrief, Signable, KindsKnown
<1>8. AcceptedOnSight'
  <2> SUFFICES ASSUME NEW l \in Keys, NEW c, <<l, c>> \in signed', c.kind = "accept"
               PROVE  \E a \in Assignments :
                        /\ VerifyAssignment(a)' /\ c = AcceptContent(a)
                        /\ a.agentPublicKey = l /\ <<l, a>> \in shown'
    BY DEF AcceptedOnSight
  <2>1. CASE <<l, c>> \in signed
    BY <2>1, <1>2, <1>3 DEF CInv, AcceptedOnSight
  <2>2. CASE l = k /\ c = x
    <3>1. PICK a \in Assignments :
            x = AcceptContent(a) /\ Acceptable(k, a) /\ <<k, a>> \in shown'
      BY <1>1, <1>4, <2>2 DEF Signable, KindsKnown
    <3> QED
      BY <2>2, <3>1, <1>3 DEF Acceptable
  <2> QED
    BY <1>1, <2>1, <2>2
<1>9. SubmittedInRole'
  <2> SUFFICES ASSUME NEW l \in Keys, NEW p \in Packets, <<l, p>> \in signed'
               PROVE  \E a \in Assignments :
                        /\ VerifyAssignment(a)' /\ WasShown(a)'
                        /\ <<a.taskId, a.role, a.agentPublicKey>> = <<p.taskId, p.role, l>>
    BY DEF SubmittedInRole
  <2>1. CASE <<l, p>> \in signed
    BY <2>1, <1>3 DEF CInv, SubmittedInRole
  <2>2. CASE l = k /\ p = x
    <3>1. Accepted(k, p)
      BY <1>1, <1>4, <1>5, <2>2 DEF Signable, KindsKnown
    <3>2. PICK a \in Assignments :
            /\ VerifyAssignment(a) /\ VerifyAcceptance(a)
            /\ <<a.taskId, a.role, a.agentPublicKey>> = <<p.taskId, p.role, k>>
      BY <3>1 DEF Accepted
    <3>3. VerifyAssignment(a)' /\ WasShown(a)'
      BY <3>2, <1>3, AcceptanceShown
    <3> QED
      BY <2>2, <3>2, <3>3
  <2> QED
    BY <1>1, <2>1, <2>2
<1>10. ReviewedWithCause'
  BY <1>1, <1>3, <1>4, <1>5 DEF CInv, ReviewedWithCause, Signable, KindsKnown
<1>11. HandedOnApproval'
  <2> SUFFICES ASSUME NEW l \in Keys, NEW h \in Handoffs, <<l, h>> \in signed'
               PROVE  \E r \in Reviews : /\ OwnReview(l, r)' /\ r.verdict = "approve"
                                         /\ r.packetId = h.packetId
    BY DEF HandedOnApproval
  <2>1. CASE <<l, h>> \in signed
    BY <2>1, <1>3 DEF CInv, HandedOnApproval
  <2>2. CASE l = k /\ h = x
    <3>1. PICK r \in Reviews :
            OwnReview(k, r) /\ r.verdict = "approve" /\ r.packetId = x.packetId
      BY <1>1, <1>4, <1>5, <2>2 DEF Signable, KindsKnown
    <3> QED
      BY <2>2, <3>1, <1>3
  <2> QED
    BY <1>1, <2>1, <2>2
<1>12. DeliveredFromHandoffs'
  BY <1>1, <1>3, <1>4, <1>5 DEF CInv, DeliveredFromHandoffs, Signable, KindsKnown
<1>13. CompletedWhenDelivered'
  BY <1>1, <1>3, <1>4, <1>5 DEF CInv, CompletedWhenDelivered, Signable, KindsKnown
<1> QED
  BY <1>6, <1>7, <1>8, <1>9, <1>10, <1>11, <1>12, <1>13 DEF CInv

\* So does a step that changes nothing.
LEMMA StutterKeeps ==
  ASSUME CInv, UNCHANGED taskVars
  PROVE  CInv'
<1>1. signed' = signed /\ shown' = shown
  BY DEF taskVars
<1>2. /\ \A a : VerifyAssignment(a) => VerifyAssignment(a)'
      /\ \A a : WasShown(a) => WasShown(a)'
      /\ \A a : Briefed(a) => Briefed(a)'
      /\ \A r : Reviewable(r) => Reviewable(r)'
      /\ \A l, r : OwnReview(l, r) => OwnReview(l, r)'
      /\ \A l, d : Received(l, d) => Received(l, d)'
      /\ \A c : Delivered(c) => Delivered(c)'
  BY <1>1, VerdictsKeep
<1> QED
  BY <1>1, <1>2 DEF CInv, AssignedByBrief, AcceptedOnSight, SubmittedInRole,
     ReviewedWithCause, HandedOnApproval, DeliveredFromHandoffs,
     CompletedWhenDelivered, Content

\* The invariant holds for any set of keys and contents, and messages
\* verified in any order.
THEOREM TaskInductive ==
  TaskSpec => []CInv
<1>1. TaskInit => CInv
  BY DEF TaskInit, CInv, AssignedByBrief, AcceptedOnSight, SubmittedInRole,
     ReviewedWithCause, HandedOnApproval, DeliveredFromHandoffs,
     CompletedWhenDelivered
<1>2. CInv /\ [TaskNext]_taskVars => CInv'
  BY SignatureKeeps, StutterKeeps
<1> QED
  BY <1>1, <1>2, PTL DEF TaskSpec

\* An acceptance that verifies shows that its agent was shown an assignment
\* with these ids, and this one, role, delegation and operator included, if no
\* other with these ids verifies: although the acceptance covers only ids, and
\* whoever signs assignments, with whatever ids.
THEOREM AcceptancesBind ==
  TaskSpec => []AcceptanceIsOfItsIds
<1>1. ASSUME CInv, NEW a \in Assignments, VerifyAcceptance(a)
      PROVE  /\ WasShown(a)
             /\ (\A b \in Assignments : (SameIds(a, b) /\ VerifyAssignment(b)) => b = a)
                  => <<a.agentPublicKey, a>> \in shown
  <2>1. WasShown(a)
    BY <1>1, AcceptanceShown
  <2> QED
    BY <2>1 DEF WasShown
<1>2. CInv => AcceptanceIsOfItsIds
  BY <1>1 DEF AcceptanceIsOfItsIds
<1> QED
  BY <1>2, TaskInductive, PTL

\* Behind a completion of the operator that verifies stand deliverables that
\* rest on evidence the operator approved, with a score that reaches the
\* threshold, from an agent assigned to the role.
THEOREM CompletionsRestOnEvidence ==
  TaskSpec => []CompletedOnApprovedEvidence
<1>1. ASSUME CInv, NEW id, NEW h \in Handoffs, VerifyHandoff(h, Operator), h.packetId = id
      PROVE  ApprovedEvidence(id)
  <2>1. Operator \in Keys
    BY CoordinationAssumption
  <2>2. PICK r \in Reviews : /\ OwnReview(Operator, r) /\ r.verdict = "approve"
                             /\ r.packetId = id
    BY <1>1, <2>1 DEF CInv, HandedOnApproval, VerifyHandoff, VerifyContent
  <2>3. VerifyReview(r) /\ r.reviewedBy = Operator /\ <<Operator, r>> \in signed
    BY <2>2 DEF OwnReview, VerifyReview, VerifyContent
  <2>4. Reviewable(r) /\ ~ (r.score < r.threshold)
    BY <1>1, <2>1, <2>2, <2>3 DEF CInv, ReviewedWithCause
  <2>5. r.score \in Int /\ r.threshold \in Int
    BY CoordinationAssumption DEF ReviewDecision
  <2>6. r.score >= r.threshold
    BY <2>4, <2>5
  <2>7. PICK p \in Packets : VerifyEvidence(p) /\ p.packetId = r.packetId
    BY <2>4 DEF Reviewable
  <2>8. p.submittedBy \in Keys
    BY CoordinationAssumption DEF EvidencePacket
  <2>9. PICK a \in Assignments :
          /\ VerifyAssignment(a) /\ WasShown(a)
          /\ <<a.taskId, a.role, a.agentPublicKey>> = <<p.taskId, p.role, p.submittedBy>>
    BY <1>1, <2>7, <2>8 DEF CInv, SubmittedInRole, VerifyEvidence, VerifyContent
  <2>10. a.assignedBy = Operator => Briefed(a)
    BY <1>1, <2>9 DEF CInv, AssignedByBrief, VerifyAssignment, VerifyContent
  <2> QED
    BY <2>2, <2>3, <2>6, <2>7, <2>9, <2>10 DEF ApprovedEvidence
<1>2. CInv => CompletedOnApprovedEvidence
  <2> SUFFICES ASSUME CInv, NEW c \in Completions, VerifyCompletion(c, Operator),
                      NEW id \in c.deliverableIds
               PROVE  \E d \in Deliverables :
                        /\ d.deliverableId = id /\ VerifyDeliverable(d)
                        /\ \A packet \in d.evidencePacketIds : ApprovedEvidence(packet)
    BY DEF CompletedOnApprovedEvidence
  <2>1. Delivered(c)
    BY CoordinationAssumption DEF CInv, CompletedWhenDelivered, VerifyCompletion,
       VerifyContent
  <2>2. PICK d \in Deliverables : VerifyDeliverable(d) /\ d.deliverableId = id
    BY <2>1 DEF Delivered
  <2>3. d.submittedBy \in Keys
    BY CoordinationAssumption DEF Deliverable
  <2>4. Received(d.submittedBy, d)
    BY <2>2, <2>3 DEF CInv, DeliveredFromHandoffs, VerifyDeliverable, VerifyContent
  <2>5. \A packet \in d.evidencePacketIds : ApprovedEvidence(packet)
    BY <2>4, <1>1 DEF Received
  <2> QED
    BY <2>2, <2>5
<1> QED
  BY <1>2, TaskInductive, PTL
=============================================================================
