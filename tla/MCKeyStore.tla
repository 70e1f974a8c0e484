----------------------------- MODULE MCKeyStore -----------------------------
(***************************************************************************)
(* Goroutines on a store with two ids.                                     *)
(***************************************************************************)
EXTENDS KeyStore

CONSTANTS g1, g2, g3, k1, k2

MCIds == {1, 2}
MCRequests ==
  {[op |-> "Store", id |-> 1, record |-> k1],
   [op |-> "Store", id |-> 2, record |-> k2],
   [op |-> "Store", id |-> EmptyId, record |-> k1],
   [op |-> "Retrieve", id |-> 1],
   [op |-> "Delete", id |-> 1],
   [op |-> "List"]}
=============================================================================
