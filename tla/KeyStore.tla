------------------------------ MODULE KeyStore ------------------------------
(***************************************************************************)
(* keystore.InMemoryKeyStorage: a Go map behind a sync.RWMutex, used by    *)
(* concurrent goroutines.  Each method runs step by step; the mutex is     *)
(* modelled from the standard library's contract: a writer that has called *)
(* Lock keeps new readers out, and Unlock lets in every reader that waited *)
(* before another writer may come.                                         *)
(***************************************************************************)
EXTENDS KeyRequests

CONSTANT Requests \* the calls the goroutines may make

VARIABLES
  keys,           \* the map; None where it has no entry
  request,        \* the call each goroutine has under way
  answer,         \* its result, once computed
  pc,             \* where each goroutine stands in its call
  out,            \* List's local slice of ids
  writer,         \* the goroutine that has called Lock and owns the mutex
                  \* against other writers
  readers         \* the goroutines that hold the mutex for reading

vars == <<keys, request, answer, pc, out, writer, readers>>

ASSUME RequestAssumption == Requests \subseteq Request

-----------------------------------------------------------------------------
\* NewInMemoryKeyStorage.
Init ==
  /\ keys = [i \in AllIds |-> None]
  /\ request = [p \in Procs |-> None]
  /\ answer = [p \in Procs |-> None]
  /\ pc = [p \in Procs |-> "idle"]
  /\ out = [p \in Procs |-> << >>]
  /\ writer = None
  /\ readers = {}

Op(p) == request[p].op

\* Mutant of Writes: Delete takes the mutex for reading.
WritesStoreOnly(p) == Op(p) = "Store"

\* The methods that call Lock; the others call RLock.
Writes(p) == Op(p) \in {"Store", "Delete"}

\* Store's guard on its id.
EmptyStore(p) == Op(p) = "Store" /\ request[p].id = EmptyId

GoTo(p, label) == pc' = [pc EXCEPT ![p] = label]

\* The method is about to run its deferred unlock, with this result.
Finish(p, result) ==
  /\ answer' = [answer EXCEPT ![p] = result]
  /\ GoTo(p, "unlock")

Invoke(p, r) ==
  /\ pc[p] = "idle"
  /\ request' = [request EXCEPT ![p] = r]
  /\ GoTo(p, "start")
  /\ UNCHANGED <<keys, answer, out, writer, readers>>

\* Store refuses an empty id before it touches the mutex.
RefuseEmpty(p) ==
  /\ pc[p] = "start"
  /\ EmptyStore(p)
  /\ answer' = [answer EXCEPT ![p] = [stored |-> FALSE]]
  /\ GoTo(p, "return")
  /\ UNCHANGED <<keys, request, out, writer, readers>>

\* Mutant of Announce: readers keep coming while a writer waits for none.
AnnounceWhenQuiet(p) ==
  /\ pc[p] = "start" /\ Writes(p) /\ ~EmptyStore(p)
  /\ writer = None /\ readers = {}
  /\ writer' = p
  /\ GoTo(p, "announced")
  /\ UNCHANGED <<keys, request, answer, out, readers>>

\* Lock, first half: own the mutex against writers and announce.
Announce(p) ==
  /\ pc[p] = "start" /\ Writes(p)
  /\ ~EmptyStore(p)
  /\ writer = None
  /\ writer' = p
  /\ GoTo(p, "announced")
  /\ UNCHANGED <<keys, request, answer, out, readers>>

\* Lock, second half: the readers of before have left.
Lock(p) ==
  /\ pc[p] = "announced"
  /\ readers = {}
  /\ GoTo(p, "locked")
  /\ UNCHANGED <<keys, request, answer, out, writer, readers>>

\* RLock: enter, or queue behind an announced writer.
RLock(p) ==
  /\ pc[p] = "start" /\ ~Writes(p)
  /\ \/ /\ writer = None
        /\ readers' = readers \cup {p}
        /\ GoTo(p, "locked")
     \/ /\ writer # None
        /\ GoTo(p, "queued")
        /\ UNCHANGED readers
  /\ UNCHANGED <<keys, request, answer, out, writer>>

Store(p) ==
  /\ pc[p] = "locked" /\ Op(p) = "Store"
  /\ keys' = [keys EXCEPT ![request[p].id] = request[p].record]
  /\ Finish(p, [stored |-> TRUE])
  /\ UNCHANGED <<request, out, writer, readers>>

\* Retrieve hands out a copy of the record, or nil.
Retrieve(p) ==
  /\ pc[p] = "locked" /\ Op(p) = "Retrieve"
  /\ Finish(p, [found |-> keys[request[p].id]])
  /\ UNCHANGED <<keys, request, out, writer, readers>>

\* Delete looks the id up first.
DeleteLookup(p) ==
  /\ pc[p] = "locked" /\ Op(p) = "Delete"
  /\ \/ /\ keys[request[p].id] = None
        /\ Finish(p, [deleted |-> FALSE])
     \/ /\ keys[request[p].id] # None
        /\ GoTo(p, "erase")
        /\ UNCHANGED answer
  /\ UNCHANGED <<keys, request, out, writer, readers>>

DeleteErase(p) ==
  /\ pc[p] = "erase"
  /\ keys' = [keys EXCEPT ![request[p].id] = None]
  /\ Finish(p, [deleted |-> TRUE])
  /\ UNCHANGED <<request, out, writer, readers>>

\* sort.Strings, by its contract: the same entries in ascending order.
SortStrings(s) ==
  {t \in {[i \in DOMAIN s |-> s[f[i]]] : f \in Bijection(DOMAIN s, DOMAIN s)} :
     Ascending(t)}

\* List ranges over the map in any order, one entry at a time.
Unlisted(p) == Present(keys) \ Range(out[p])

ListNext(p) ==
  /\ pc[p] = "locked" /\ Op(p) = "List"
  /\ \E i \in Unlisted(p) : out' = [out EXCEPT ![p] = Append(out[p], i)]
  /\ UNCHANGED <<keys, request, answer, pc, writer, readers>>

\* Mutant of ListEnd: the slice is returned in the order of iteration.
ListUnsorted(p) ==
  /\ pc[p] = "locked" /\ Op(p) = "List"
  /\ Unlisted(p) = {}
  /\ Finish(p, [ids |-> out[p]])
  /\ UNCHANGED <<keys, request, out, writer, readers>>

\* and sorts what it collected.
ListEnd(p) ==
  /\ pc[p] = "locked" /\ Op(p) = "List"
  /\ Unlisted(p) = {}
  /\ \E sorted \in SortStrings(out[p]) : Finish(p, [ids |-> sorted])
  /\ UNCHANGED <<keys, request, out, writer, readers>>

\* Unlock lets in every queued reader; RUnlock leaves.
Unlock(p) ==
  /\ pc[p] = "unlock"
  /\ \/ /\ Writes(p)
        /\ writer' = None
        /\ readers' = readers \cup {q \in Procs : pc[q] = "queued"}
        /\ pc' = [q \in Procs |-> IF q = p THEN "return"
                                  ELSE IF pc[q] = "queued" THEN "locked"
                                  ELSE pc[q]]
     \/ /\ ~Writes(p)
        /\ readers' = readers \ {p}
        /\ GoTo(p, "return")
        /\ UNCHANGED writer
  /\ UNCHANGED <<keys, request, answer, out>>

Return(p) ==
  /\ pc[p] = "return"
  /\ request' = [request EXCEPT ![p] = None]
  /\ answer' = [answer EXCEPT ![p] = None]
  /\ out' = [out EXCEPT ![p] = << >>]
  /\ GoTo(p, "idle")
  /\ UNCHANGED <<keys, writer, readers>>

\* The steps of a call under way that wait for nobody, or only for the
\* announced writer and the readers inside.
Proceed(p) ==
  \/ RefuseEmpty(p) \/ Lock(p) \/ RLock(p)
  \/ Store(p) \/ Retrieve(p) \/ DeleteLookup(p) \/ DeleteErase(p)
  \/ ListNext(p) \/ ListEnd(p) \/ Unlock(p) \/ Return(p)

Next ==
  \E p \in Procs :
    \/ \E r \in Requests : Invoke(p, r)
    \/ Announce(p)
    \/ Proceed(p)

Spec == Init /\ [][Next]_vars

\* Goroutines are scheduled; a writer contending for the mutex gets it
\* eventually, which sync.Mutex ensures by handing it to the longest waiter
\* after a millisecond.
FairSpec ==
  /\ Spec
  /\ \A p \in Procs : WF_vars(Proceed(p)) /\ SF_vars(Announce(p))

-----------------------------------------------------------------------------
Labels ==
  {"idle", "start", "announced", "queued", "locked", "erase", "unlock",
   "return"}

\* The step a goroutine may take next reads, or writes, the Go map.
Reading(p) == pc[p] = "locked" /\ Op(p) \in {"Retrieve", "List"}
Writing(p) == pc[p] \in {"locked", "erase"} /\ Op(p) \in {"Store", "Delete"}

\* "Safe for concurrent use": no goroutine is about to touch the map while
\* another one is about to write it.  The Go runtime aborts the program on
\* such a pair.
NoMapRace ==
  \A p, q \in Procs : p # q /\ Writing(p) => ~Writing(q) /\ ~Reading(q)

\* Every method is atomic to its callers: lookup and erase, or a whole
\* iteration of List, cannot be told from one step on the map, List returns
\* the ids sorted whatever the order of iteration, and the empty id is never
\* stored.
Map == INSTANCE KeyMap WITH map <- keys
Linearizable == Map!Spec

\* Every call returns: no reader or writer waits for ever, however others
\* keep coming.
CallsReturn == \A p \in Procs : pc[p] = "start" ~> pc[p] = "idle"
=============================================================================
