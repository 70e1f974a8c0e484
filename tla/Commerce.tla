------------------------------ MODULE Commerce -----------------------------
(***************************************************************************)
(* commerce/commerce.go: the gates a purchase passes and RecordSpend, used *)
(* by several buyers on one commerce delegation and one passport at the    *)
(* same time.                                                              *)
(*                                                                         *)
(* The package keeps no state: it is by value, and persisting what         *)
(* RecordSpend returns is the caller's part.  The caller modelled is the   *)
(* least one for which RecordSpend "doubles as a safe check-and-record":   *)
(* it records before it pays, writes only if nobody wrote since it read,   *)
(* and otherwise reads again and repeats RecordSpend, without repeating    *)
(* the gates it has already passed.                                        *)
(*                                                                         *)
(* The passport's key may change, and wallets are bound under the key it   *)
(* has; making a binding is not in this repository.  A binding is the      *)
(* wallet and the number of the passport's key that signed it, 0 if none   *)
(* did.                                                                    *)
(*                                                                         *)
(* Amounts are integers of the smallest currency unit, exact in a float64, *)
(* or NaN; an infinity is compared like a number out of range and refused  *)
(* like NaN.  Currencies that are equal but for case are equal under Fold. *)
(***************************************************************************)
EXTENDS ScopeMatch, FiniteSetsExt

CONSTANTS
  Buyers,        \* the callers
  Grants,        \* commerce delegations a run may start from
  Orders,        \* purchases a buyer may attempt
  Scopes,        \* scopes, as sequences of segments
  Checkout,      \* the scope commerce:checkout
  Currencies,    \* currency codes
  Fold,          \* a code with its case folded
  Merchants,     \* merchant names
  WalletLists,   \* lists of bound wallets a run may start from
  MaxWallets,    \* bound on the length of such a list
  MaxKey,        \* bound on the number of the passport's key
  NaN,           \* not a number
  None           \* an empty string, a nil pointer

Grant ==
  [scope : SUBSET Scopes, spendLimit : Int, spentAmount : Int,
   currency : Currencies \cup {None}, approvedMerchants : SUBSET Merchants,
   requireHumanApproval : BOOLEAN \cup {None},
   humanApprovalThreshold : Int \cup {None}]

Order ==
  [amount : Int \cup {NaN}, currency : Currencies \cup {None},
   merchant : Merchants, wallet : Nat]

ASSUME CommerceAssumption ==
  /\ Grants \subseteq Grant /\ Grants # {}
  /\ \A g \in Grants : 0 <= g.spentAmount /\ g.spentAmount <= g.spendLimit
  /\ Orders \subseteq Order
  /\ WalletLists \subseteq Seq([wallet : Nat, key : Nat])
  /\ \A l \in WalletLists : \A i \in DOMAIN l : l[i].key \in {0, 1}
  /\ IsFiniteSet(Buyers)
  /\ MaxWallets \in Nat /\ MaxKey \in Nat
  /\ Fold \in [Currencies -> Currencies]
  /\ NaN \notin Int
  /\ None \notin Int \cup Currencies \cup BOOLEAN /\ None \notin Order

VARIABLES
  ledger,        \* the CommerceDelegation as persisted
  passportKey,   \* the number of the key the passport has
  wallets,       \* its list of bound wallets
  pc,            \* where each buyer is
  copy,          \* the delegation each buyer read
  order,         \* the purchase each buyer is making
  paid           \* history: what has been spent and paid for

passport == <<passportKey, wallets>>
vars == <<ledger, passportKey, wallets, pc, copy, order, paid>>

-----------------------------------------------------------------------------
\* scopeAuthorizes, CheckScopeGate.
CheckScopeGate(d) == \E s \in d.scope : ScopeCovers(s, Checkout)

\* Mutant of SameCurrency: amounts are compared whatever their currency.
AnyCurrency(d, o) == TRUE

\* A currency absent on either side is no constraint.
SameCurrency(d, o) ==
  (o.currency # None /\ d.currency # None)
    => Fold[o.currency] = Fold[d.currency]

\* CheckSpendGate.  No comparison with NaN is true.
CheckSpendGate(d, o) ==
  /\ SameCurrency(d, o)
  /\ o.amount # NaN /\ o.amount <= d.spendLimit - d.spentAmount

\* CheckMerchantGate; an empty list is no gate.
CheckMerchantGate(d, o) ==
  d.approvedMerchants # {} => o.merchant \in d.approvedMerchants

\* CheckHumanApprovalThreshold returns a reason.
NeedsHuman(d, o) ==
  /\ d.requireHumanApproval = TRUE
  /\ d.humanApprovalThreshold # None
  /\ ~ (o.amount # NaN /\ o.amount <= d.humanApprovalThreshold)

\* Mutant of CheckWalletGate: an entry for the wallet is as good as another.
CheckAnyBinding(list, key, w) ==
  \E i \in DOMAIN list : list[i].wallet = w /\ list[i].key = key

\* verifyBoundWallet: of the entries for this wallet the first decides, and it
\* is good if the key the passport has now signed it.
CheckWalletGate(list, key, w) ==
  \E i \in DOMAIN list :
    /\ list[i].wallet = w /\ list[i].key = key
    /\ \A j \in 1..(i - 1) : list[j].wallet # w

\* Mutant of RecordSpendFails: the gate has looked at the limit already.
RecordSpendUnlimited(d, o) == o.amount \notin Nat

\* RecordSpend refuses what is negative or not finite, and what would take
\* the total past the limit.
RecordSpendFails(d, o) ==
  o.amount \in Nat => d.spentAmount + o.amount > d.spendLimit

\* Mutant of RecordSpend: the new amount replaces the running total.
RecordLastSpend(d, o) == [d EXCEPT !.spentAmount = o.amount]

RecordSpend(d, o) == [d EXCEPT !.spentAmount = @ + o.amount]

-----------------------------------------------------------------------------
Init ==
  /\ ledger \in Grants
  /\ passportKey = 1 /\ wallets \in WalletLists
  /\ pc = [b \in Buyers |-> "idle"]
  /\ copy = [b \in Buyers |-> ledger]
  /\ order = [b \in Buyers |-> None]
  /\ paid = ledger.spentAmount

Goto(b, place) == pc' = [pc EXCEPT ![b] = place]

\* A buyer reads the delegation and turns to a purchase.
Begin(b, o) ==
  /\ pc[b] = "idle"
  /\ copy' = [copy EXCEPT ![b] = ledger]
  /\ order' = [order EXCEPT ![b] = o]
  /\ Goto(b, "gates")
  /\ UNCHANGED <<ledger, paid, passport>>

GatesPass(b) ==
  /\ CheckScopeGate(copy[b])
  /\ CheckSpendGate(copy[b], order[b])
  /\ CheckMerchantGate(copy[b], order[b])
  /\ CheckWalletGate(wallets, passportKey, order[b].wallet)

\* All gates pass and no human is needed, or the human confirms.
Clear(b) ==
  /\ pc[b] = "gates"
  /\ GatesPass(b)
  /\ ~ NeedsHuman(copy[b], order[b])
  /\ Goto(b, "record")
  /\ UNCHANGED <<ledger, copy, order, paid, passport>>

Confirm(b) ==
  /\ pc[b] = "gates"
  /\ GatesPass(b)
  /\ NeedsHuman(copy[b], order[b])
  /\ Goto(b, "record")
  /\ UNCHANGED <<ledger, copy, order, paid, passport>>

\* A gate fails, or the human declines.
Refuse(b) ==
  /\ pc[b] = "gates"
  /\ ~ GatesPass(b) \/ NeedsHuman(copy[b], order[b])
  /\ Goto(b, "idle")
  /\ order' = [order EXCEPT ![b] = None]
  /\ UNCHANGED <<ledger, copy, paid, passport>>

\* RecordSpend returns an error and the purchase is given up.
RecordRefused(b) ==
  /\ pc[b] = "record"
  /\ RecordSpendFails(copy[b], order[b])
  /\ Goto(b, "idle")
  /\ order' = [order EXCEPT ![b] = None]
  /\ UNCHANGED <<ledger, copy, paid, passport>>

\* RecordSpend returns a delegation, and nobody wrote since this one was read.
RecordAndPersist(b) ==
  /\ pc[b] = "record"
  /\ ~ RecordSpendFails(copy[b], order[b])
  /\ ledger = copy[b]
  /\ ledger' = RecordSpend(copy[b], order[b])
  /\ Goto(b, "pay")
  /\ UNCHANGED <<copy, order, paid, passport>>

\* Mutant of Reread: the copy at hand is tried again.
RetryStale(b) ==
  /\ pc[b] = "record"
  /\ ~ RecordSpendFails(copy[b], order[b])
  /\ ledger # copy[b]
  /\ UNCHANGED vars

\* Somebody did: read again, and record again.
Reread(b) ==
  /\ pc[b] = "record"
  /\ ~ RecordSpendFails(copy[b], order[b])
  /\ ledger # copy[b]
  /\ copy' = [copy EXCEPT ![b] = ledger]
  /\ UNCHANGED <<ledger, pc, order, paid, passport>>

\* The purchase settles.
Pay(b) ==
  /\ pc[b] = "pay"
  /\ paid' = paid + order[b].amount
  /\ Goto(b, "idle")
  /\ order' = [order EXCEPT ![b] = None]
  /\ UNCHANGED <<ledger, copy, passport>>

Step(b) ==
  \/ Clear(b) \/ Confirm(b) \/ Refuse(b)
  \/ RecordRefused(b) \/ RecordAndPersist(b) \/ Reread(b)
  \/ Pay(b)

\* The passport is issued again with another key; the list goes with it.
Rekey ==
  /\ passportKey < MaxKey
  /\ passportKey' = passportKey + 1
  /\ UNCHANGED <<ledger, wallets, pc, copy, order, paid>>

\* The holder binds a wallet, possibly again.
Bind(w) ==
  /\ Len(wallets) < MaxWallets
  /\ wallets' = Append(wallets, [wallet |-> w, key |-> passportKey])
  /\ UNCHANGED <<ledger, passportKey, pc, copy, order, paid>>

Next ==
  \/ \E b \in Buyers, o \in Orders : Begin(b, o)
  \/ \E b \in Buyers : Step(b)
  \/ Rekey
  \/ \E o \in Orders : Bind(o.wallet)

Spec == Init /\ [][Next]_vars

\* A buyer that has begun is scheduled, and a human who is asked answers.
FairSpec == Spec /\ \A b \in Buyers : WF_vars(Step(b))

-----------------------------------------------------------------------------
\* The budget holds across concurrent purchases: the ledger never passes its
\* limit, and it accounts for everything that was paid or is about to be, so
\* no spend is lost or counted twice however RecordSpend calls interleave.
BudgetHolds ==
  /\ ledger.spentAmount <= ledger.spendLimit
  /\ ledger.spentAmount =
       paid + MapThenSumSet(LAMBDA b : order[b].amount,
                            {b \in Buyers : pc[b] = "pay"})

\* Nothing is bought on a stale or partial clearance: a purchase that is paid
\* for has the budget's currency, a merchant on the list and the scope of the
\* delegation as it stands now, and it is never a negative amount, which
\* CheckSpendGate lets through.  Its wallet was bound by a key the passport has
\* or had, and no entry for the wallet stands before that one, whatever was
\* bound again and however the key changed since.
PaidOnTerms ==
  \A b \in Buyers : pc[b] = "pay" =>
    LET o == order[b]
    IN /\ o.amount # NaN /\ o.amount >= 0
       /\ o.currency # None /\ ledger.currency # None
            => Fold[o.currency] = Fold[ledger.currency]
       /\ ledger.approvedMerchants # {}
            => o.merchant \in ledger.approvedMerchants
       /\ CheckScopeGate(ledger)
       /\ \E i \in DOMAIN wallets :
            /\ wallets[i].wallet = o.wallet /\ wallets[i].key \in 1..passportKey
            /\ \A j \in 1..(i - 1) : wallets[j].wallet # o.wallet

\* A purchase refused on a copy that is out of date would be refused on the
\* delegation as it stands: RecordSpend never turns away what still fits.
RefusalStands ==
  [][\A b \in Buyers :
       (pc[b] = "record" /\ pc'[b] = "idle")
         => RecordSpendFails(ledger, order[b])]_vars

\* Every purchase ends, paid or refused: a buyer whose writes keep losing
\* loses to others that spend, and the budget is finite.
PurchaseEnds ==
  \A b \in Buyers : pc[b] # "idle" ~> pc[b] = "idle"
=============================================================================
