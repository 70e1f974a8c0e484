---------------------------- MODULE ChainPolicy ----------------------------
(***************************************************************************)
(* What the typed chain verifier promises: presented with a chain, it      *)
(* answers once, and accepts exactly the chains that narrow.               *)
(***************************************************************************)
EXTENDS Narrowing

VARIABLES
  chain,                \* the chain presented
  outcome               \* "pending", "accepted" or "refused"

Init == chain \in Seq(Delegation) /\ outcome = "pending"

Decide ==
  /\ outcome = "pending"
  /\ outcome' = IF Narrowing(chain) THEN "accepted" ELSE "refused"
  /\ UNCHANGED chain

Spec == Init /\ [][Decide]_<<chain, outcome>>
=============================================================================
