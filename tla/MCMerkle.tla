------------------------------ MODULE MCMerkle -----------------------------
(***************************************************************************)
(* Attribution lists of up to five hashes, two different ones, repetitions *)
(* and every order included; bundles of up to five members, given out of   *)
(* order, and one with a member twice.  Five leaves promote a node twice.  *)
(* Contexts of up to four leaves in three channels, in every order, a      *)
(* ctx_id in two channels and twice in one included.                       *)
(***************************************************************************)
EXTENDS Merkle

CONSTANT MaxLeaves

Leaf(channel, id, ref) == [channel |-> channel, ctxId |-> id, contentRef |-> ref]
MCContextLeaves ==
  {Leaf(1, 1, 1), Leaf(1, 2, 1), Leaf(2, 1, 1), Leaf(2, 2, 1), Leaf(3, 1, 1),
   Leaf(1, 1, 2)}

MCLists ==
  [attribution |-> UNION {[1..n -> {<<1>>, <<2>>}] : n \in 0..MaxLeaves},
   bundle      |-> {[i \in 1..n |-> <<n + 1 - i>>] : n \in 0..MaxLeaves}
                     \cup {<< <<1>>, <<2>>, <<1>> >>},
   context     |-> UNION {[1..n -> MCContextLeaves] : n \in 0..(MaxLeaves - 1)}]

MCTargets == {<<i>> : i \in 1..MaxLeaves}
=============================================================================
