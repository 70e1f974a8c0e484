------------------------------- MODULE KeyMap -------------------------------
(***************************************************************************)
(* What a KeyStorageBackend promises its callers: a map from agent ids to  *)
(* key records on which every call takes effect at one instant between its *)
(* start and its return.                                                   *)
(***************************************************************************)
EXTENDS KeyRequests

VARIABLES
  map,            \* the records
  request,        \* the call each goroutine has under way
  answer          \* and its result, once it took effect

Init ==
  /\ map = [i \in AllIds |-> None]
  /\ request = [p \in Procs |-> None]
  /\ answer = [p \in Procs |-> None]

Invoke(p) ==
  /\ request[p] = None
  /\ \E r \in Request : request' = [request EXCEPT ![p] = r]
  /\ UNCHANGED <<map, answer>>

TakeEffect(p) ==
  /\ request[p] # None /\ answer[p] = None
  /\ \E a \in Outcomes(map, request[p]) : answer' = [answer EXCEPT ![p] = a]
  /\ map' = Effect(map, request[p])
  /\ UNCHANGED request

Return(p) ==
  /\ answer[p] # None
  /\ request' = [request EXCEPT ![p] = None]
  /\ answer' = [answer EXCEPT ![p] = None]
  /\ UNCHANGED map

Next == \E p \in Procs : Invoke(p) \/ TakeEffect(p) \/ Return(p)

Spec == Init /\ [][Next]_<<map, request, answer>>
=============================================================================
