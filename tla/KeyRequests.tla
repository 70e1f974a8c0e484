---------------------------- MODULE KeyRequests ----------------------------
(***************************************************************************)
(* The KeyStorageBackend interface: the calls a goroutine can make, what   *)
(* they return, and what each means on a map from agent ids to records.    *)
(***************************************************************************)
EXTENDS Integers, Sequences, SequencesExt

CONSTANTS
  Procs,          \* goroutines that use the store
  Ids,            \* agent ids, as integers in the order of their strings
  EmptyId,        \* the empty agent id
  Records,        \* key records
  None            \* no record, no request, no answer

AllIds == Ids \cup {EmptyId}

Request ==
  [op : {"Store"}, id : AllIds, record : Records]
  \cup [op : {"Retrieve", "Delete"}, id : AllIds] \cup [op : {"List"}]

\* A return value, with a tag that tells "not found" from "no answer yet".
Answer ==
  [stored : BOOLEAN] \cup [found : Records \cup {None}]
  \cup [deleted : BOOLEAN] \cup [ids : Seq(Ids)]

ASSUME KeyAssumption ==
  /\ AllIds \subseteq Int /\ EmptyId \notin Ids
  /\ None \notin Procs \cup Records \cup Request \cup Answer

Ascending(s) == \A i, j \in DOMAIN s : i < j => s[i] <= s[j]

\* The ids a map holds a record for, and the list of them List returns: each
\* once, in ascending order.
Present(m) == {i \in Ids : m[i] # None}
Listings(m) == {s \in SetToSeqs(Present(m)) : Ascending(s)}

\* What a request may answer, and what it leaves behind, on the map m.
Outcomes(m, r) ==
  CASE r.op = "Store"    -> {[stored |-> r.id # EmptyId]}
    [] r.op = "Retrieve" -> {[found |-> m[r.id]]}
    [] r.op = "Delete"   -> {[deleted |-> m[r.id] # None]}
    [] r.op = "List"     -> {[ids |-> s] : s \in Listings(m)}

Effect(m, r) ==
  CASE r.op = "Store" /\ r.id # EmptyId -> [m EXCEPT ![r.id] = r.record]
    [] r.op = "Delete"                  -> [m EXCEPT ![r.id] = None]
    [] OTHER                            -> m
=============================================================================
