----------------------------- MODULE MCCommerce ----------------------------
(***************************************************************************)
(* Two buyers on a budget of three.  Orders below zero, of nothing, up to  *)
(* the whole budget and not a number, in the budget's currency spelled     *)
(* otherwise, in another and in none; grants with and without a merchant   *)
(* list, a human threshold and the checkout scope.  Wallet 1 is bound, not *)
(* bound, or listed by somebody else; it may be bound again, before and    *)
(* after the passport changes its key.                                     *)
(***************************************************************************)
EXTENDS Commerce

CONSTANTS usd, USD, eur, shop, bazaar

MCFold == [c \in {usd, USD, eur} |-> IF c = USD THEN usd ELSE c]
MCCheckout == <<"commerce", "checkout">>
MCScopes == {MCCheckout, <<"commerce">>, <<"commerce", "browse">>}

Base == [scope |-> {<<"commerce">>}, spendLimit |-> 3, spentAmount |-> 0,
         currency |-> usd, approvedMerchants |-> {},
         requireHumanApproval |-> None, humanApprovalThreshold |-> None]

MCGrants ==
  {Base,
   [Base EXCEPT !.currency = None, !.spentAmount = 1,
                !.requireHumanApproval = TRUE],
   [Base EXCEPT !.approvedMerchants = {shop}, !.requireHumanApproval = TRUE,
                !.humanApprovalThreshold = 1],
   [Base EXCEPT !.scope = {<<"commerce", "browse">>}],
   [Base EXCEPT !.scope = MCScopes, !.requireHumanApproval = FALSE,
                !.humanApprovalThreshold = 0]}

MCOrders ==
  {[amount |-> x, currency |-> USD, merchant |-> shop, wallet |-> 1] : x \in {-1, 0, 1, 2}}
    \cup {[amount |-> 1, currency |-> eur, merchant |-> shop, wallet |-> 1],
          [amount |-> 2, currency |-> None, merchant |-> bazaar, wallet |-> 1],
          [amount |-> NaN, currency |-> usd, merchant |-> shop, wallet |-> 1]}

MCWalletLists == {<< >>} \cup {<<[wallet |-> w, key |-> k]>> : w \in {1, 2}, k \in {0, 1}}
=============================================================================
