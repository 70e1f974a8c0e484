--------------------------- MODULE KeyStoreProofs ---------------------------
(***************************************************************************)
(* Freedom from races on the key map, and that every method is atomic to   *)
(* its callers, for any number of goroutines, ids and calls.               *)
(***************************************************************************)
EXTENDS KeyStore, FiniteSetTheorems, TLAPS

\* The goroutine owns the mutex for writing, or has announced that it will.
OwnsMutex(p) ==
  pc[p] \in {"announced", "locked", "erase", "unlock"} /\ Writes(p)

\* It is inside with the mutex held for writing.
InsideWriting(p) == pc[p] \in {"locked", "erase", "unlock"} /\ Writes(p)

\* It holds the mutex for reading.
InsideReading(p) == pc[p] \in {"locked", "unlock"} /\ ~Writes(p)

LockTypes ==
  /\ request \in [Procs -> Requests \cup {None}]
  /\ pc \in [Procs -> Labels]
  /\ writer \in Procs \cup {None}
  /\ readers \subseteq Procs

\* Why NoMapRace holds: the mutex knows everyone inside, and a writer goes in
\* only once no reader is left.
LockInv ==
  /\ LockTypes
  /\ \A p \in Procs : pc[p] \in {"announced", "erase"} => Writes(p)
  /\ \A p \in Procs : pc[p] = "queued" => ~Writes(p)
  /\ \A p \in Procs : OwnsMutex(p) => writer = p
  /\ \A p \in Procs : InsideReading(p) => p \in readers
  /\ \A p \in Procs : InsideWriting(p) => readers = {}

\* The empty store satisfies the invariant.
LEMMA InitLockInv == Init => LockInv
  BY DEF Init, LockInv, LockTypes, Labels, OwnsMutex, InsideReading,
         InsideWriting

\* A step of p that neither takes nor releases the mutex, and moves p between
\* two places at which it holds the same thing.
LEMMA InsideStep ==
  ASSUME LockInv, NEW p \in Procs, NEW l \in Labels,
         pc' = [pc EXCEPT ![p] = l],
         UNCHANGED <<request, writer, readers>>,
         \/ pc[p] \in {"locked", "erase"} /\ l = "unlock"
         \/ pc[p] = "locked" /\ l = "erase" /\ Writes(p)
         \/ pc[p] = "start" /\ l = "return"
  PROVE  LockInv'
  BY DEF LockInv, LockTypes, Labels, OwnsMutex, InsideReading, InsideWriting,
         Writes, Op

\* A call is made.
LEMMA InvokeLockInv ==
  ASSUME LockInv, NEW p \in Procs, NEW r \in Requests, Invoke(p, r)
  PROVE  LockInv'
  BY DEF LockInv, LockTypes, Labels, OwnsMutex, InsideReading, InsideWriting,
         Writes, Op, Invoke, GoTo

\* Lock and RLock keep the books: a reader goes in only while no writer owns
\* the mutex, a writer only when the last reader has left.
LEMMA AcquireLockInv ==
  ASSUME LockInv, NEW p \in Procs, Announce(p) \/ Lock(p) \/ RLock(p)
  PROVE  LockInv'
  <1>1. CASE Announce(p)
    BY <1>1, KeyAssumption DEF LockInv, LockTypes, Labels, OwnsMutex,
       InsideReading, InsideWriting, Writes, Op, Announce, GoTo
  <1>2. CASE Lock(p)
    BY <1>2 DEF LockInv, LockTypes, Labels, OwnsMutex,
       InsideReading, InsideWriting, Writes, Op, Lock, GoTo
  <1>3. CASE RLock(p)
    BY <1>3, KeyAssumption DEF LockInv, LockTypes, Labels, OwnsMutex,
       InsideReading, InsideWriting, Writes, Op, RLock, GoTo
  <1>4. QED
    BY <1>1, <1>2, <1>3

\* Unlock hands the mutex to the queued readers, RUnlock gives it back.
LEMMA UnlockLockInv ==
  ASSUME LockInv, NEW p \in Procs, Unlock(p)
  PROVE  LockInv'
  <1>1. CASE Writes(p)
    <2>1. /\ writer' = None /\ request' = request
          /\ readers' = readers \cup {q \in Procs : pc[q] = "queued"}
          /\ pc' = [q \in Procs |-> IF q = p THEN "return"
                                    ELSE IF pc[q] = "queued" THEN "locked"
                                    ELSE pc[q]]
      BY <1>1 DEF Unlock
    <2>2. writer = p
      BY <1>1 DEF LockInv, OwnsMutex, Unlock
    <2>3. \A q \in Procs : ~OwnsMutex(q)'
      BY <2>1, <2>2 DEF LockInv, OwnsMutex, Writes, Op
    <2>4. \A q \in Procs : InsideReading(q)' => q \in readers'
      BY <2>1 DEF LockInv, InsideReading, Writes, Op
    <2>5. \A q \in Procs : ~InsideWriting(q)'
      BY <2>3 DEF OwnsMutex, InsideWriting
    <2>6. LockTypes'
      BY <2>1 DEF LockInv, LockTypes, Labels
    <2>7. \A q \in Procs : /\ pc'[q] \in {"announced", "erase"} => Writes(q)'
                           /\ pc'[q] = "queued" => ~Writes(q)'
      BY <2>1 DEF LockInv, Writes, Op
    <2>8. QED
      BY <2>3, <2>4, <2>5, <2>6, <2>7 DEF LockInv
  <1>2. CASE ~Writes(p)
    BY <1>2 DEF LockInv, LockTypes, Labels, OwnsMutex,
       InsideReading, InsideWriting, Writes, Op, Unlock, GoTo
  <1>3. QED
    BY <1>1, <1>2

\* A call returns.
LEMMA ReturnLockInv ==
  ASSUME LockInv, NEW p \in Procs, Return(p)
  PROVE  LockInv'
  BY DEF LockInv, LockTypes, Labels, OwnsMutex, InsideReading, InsideWriting,
         Writes, Op, Return, GoTo

\* The work inside the mutex.
LEMMA WorkLockInv ==
  ASSUME LockInv, NEW p \in Procs,
         \/ RefuseEmpty(p) \/ Store(p) \/ Retrieve(p) \/ DeleteLookup(p)
         \/ DeleteErase(p) \/ ListNext(p) \/ ListEnd(p)
  PROVE  LockInv'
  <1>1. CASE RefuseEmpty(p)
    BY <1>1, InsideStep DEF RefuseEmpty, GoTo, Labels
  <1>2. CASE Store(p) \/ Retrieve(p) \/ DeleteErase(p) \/ ListEnd(p)
    BY <1>2, InsideStep
       DEF Store, Retrieve, DeleteErase, ListEnd, Finish, GoTo, Labels
  <1>3. CASE DeleteLookup(p)
    BY <1>3, InsideStep DEF DeleteLookup, Finish, GoTo, Labels, Writes
  <1>4. CASE ListNext(p)
    BY <1>4 DEF ListNext, LockInv, LockTypes, OwnsMutex, InsideReading,
       InsideWriting, Writes, Op
  <1>5. QED
    BY <1>1, <1>2, <1>3, <1>4

\* The mutex keeps its books through every step.
THEOREM LockInvariant == Spec => []LockInv
  <1>1. LockInv /\ [Next]_vars => LockInv'
    <2> SUFFICES ASSUME LockInv, [Next]_vars PROVE LockInv'
      OBVIOUS
    <2>1. CASE UNCHANGED vars
      BY <2>1 DEF vars, LockInv, LockTypes, OwnsMutex, InsideReading,
         InsideWriting, Writes, Op
    <2>2. CASE Next
      <3>1. PICK p \in Procs : \/ \E r \in Requests : Invoke(p, r)
                               \/ Announce(p)
                               \/ Proceed(p)
        BY <2>2 DEF Next
      <3>2. QED
        BY <3>1, InvokeLockInv, AcquireLockInv, UnlockLockInv, ReturnLockInv,
           WorkLockInv DEF Proceed
    <2>3. QED
      BY <2>1, <2>2
  <1>2. QED
    BY <1>1, InitLockInv, PTL DEF Spec

\* No two goroutines ever meet on the Go map when one of them writes, however
\* many there are.
THEOREM RaceFree == Spec => []NoMapRace
  <1>1. LockInv => NoMapRace
    <2> SUFFICES ASSUME LockInv, NEW p \in Procs, NEW q \in Procs, p # q,
                        Writing(p)
                 PROVE  ~Writing(q) /\ ~Reading(q)
      BY DEF NoMapRace
    <2>1. OwnsMutex(p) /\ InsideWriting(p)
      BY DEF Writing, OwnsMutex, InsideWriting, Writes
    <2>2. writer = p /\ readers = {}
      BY <2>1 DEF LockInv
    <2>3. ~OwnsMutex(q) /\ ~InsideReading(q)
      BY <2>2 DEF LockInv
    <2>4. QED
      BY <2>3 DEF OwnsMutex, InsideReading, Writing, Reading, Writes
  <1>2. QED
    BY <1>1, LockInvariant, PTL

-----------------------------------------------------------------------------
StoreTypes ==
  /\ keys \in [AllIds -> Records \cup {None}]
  /\ answer \in [Procs -> Answer \cup {None}]
  /\ out \in [Procs -> Seq(Ids)]

\* How far p has come in its call, as far as its caller can tell.
CallState(p) ==
  /\ request[p] = None <=> pc[p] = "idle"
  /\ answer[p] = None <=> pc[p] \notin {"unlock", "return"}

\* What p has found out about the map and still relies on: Store will not
\* store the empty id, Delete erases an id that is there, and List holds, each
\* once, ids that are there.
Relies(p) ==
  /\ pc[p] \in {"announced", "locked"} => ~EmptyStore(p)
  /\ pc[p] = "erase" => Op(p) = "Delete" /\ keys[request[p].id] # None
  /\ pc[p] \in {"idle", "start", "announced", "queued"} => out[p] = << >>
  /\ pc[p] = "locked" => /\ Range(out[p]) \subseteq Present(keys)
                         /\ IsInjective(out[p])

\* Why every method is atomic: nobody changes the map under a goroutine that
\* relies on what it has seen of it.
AtomicInv ==
  /\ LockInv
  /\ StoreTypes
  /\ \A p \in Procs : CallState(p) /\ Relies(p)

\* The requests have the fields of their methods.
LEMMA RequestFields ==
  ASSUME NEW r \in Request
  PROVE  /\ r.op \in {"Store", "Retrieve", "Delete", "List"}
         /\ r.op # "List" => r.id \in AllIds
         /\ r.op = "Store" => r.record \in Records
  BY DEF Request

\* Nothing a goroutine does while another one writes the map touches what the
\* other relies on; so a writer's step disturbs nobody.
LEMMA WriterAlone ==
  ASSUME LockInv, NEW p \in Procs, Writing(p), NEW q \in Procs, q # p
  PROVE  pc[q] # "erase" /\ pc[q] # "locked"
  <1>1. OwnsMutex(p) /\ InsideWriting(p)
    BY DEF Writing, OwnsMutex, InsideWriting, Writes
  <1>2. writer = p /\ readers = {}
    BY <1>1 DEF LockInv
  <1>3. ~OwnsMutex(q) /\ ~InsideReading(q)
    BY <1>2 DEF LockInv
  <1> QED
    BY <1>3 DEF OwnsMutex, InsideReading, LockInv

\* The new store satisfies the invariant.
LEMMA InitAtomic == Init => AtomicInv
  <1> SUFFICES ASSUME Init PROVE AtomicInv
    OBVIOUS
  <1>1. LockInv
    BY InitLockInv
  <1>2. StoreTypes
    BY DEF Init, StoreTypes
  <1>3. ASSUME NEW p \in Procs PROVE CallState(p) /\ Relies(p)
    BY DEF Init, CallState, Relies
  <1> QED
    BY <1>1, <1>2, <1>3 DEF AtomicInv

\* A step of p that leaves the map alone keeps what the others rely on.
LEMMA OthersKeep ==
  ASSUME NEW p \in Procs, NEW q \in Procs, q # p, CallState(q), Relies(q),
         request'[q] = request[q], answer'[q] = answer[q], out'[q] = out[q],
         pc'[q] = pc[q],
         keys' = keys \/ pc[q] \notin {"locked", "erase"}
  PROVE  CallState(q)' /\ Relies(q)'
  <1>1. CallState(q)'
    BY DEF CallState
  <1>2. /\ pc'[q] \in {"announced", "locked"} => ~EmptyStore(q)'
        /\ pc'[q] \in {"idle", "start", "announced", "queued"} => out'[q] = << >>
    BY DEF Relies, EmptyStore, Op
  <1>3. pc'[q] = "erase" => Op(q)' = "Delete" /\ keys'[request'[q].id] # None
    BY DEF Relies, Op
  <1>4. pc'[q] = "locked" => /\ Range(out'[q]) \subseteq Present(keys')
                             /\ IsInjective(out'[q])
    BY DEF Relies
  <1> QED
    BY <1>1, <1>2, <1>3, <1>4 DEF Relies

\* A call is made.
LEMMA InvokeAtomic ==
  ASSUME AtomicInv, LockInv', NEW p \in Procs, NEW r \in Requests, Invoke(p, r)
  PROVE  AtomicInv'
  <1>1. StoreTypes'
    BY DEF AtomicInv, StoreTypes, Invoke
  <1>2. /\ pc' = [pc EXCEPT ![p] = "start"] /\ request' = [request EXCEPT ![p] = r]
        /\ pc[p] = "idle"
        /\ UNCHANGED <<keys, answer, out>>
        /\ request \in [Procs -> Requests \cup {None}] /\ pc \in [Procs -> Labels]
    BY DEF Invoke, GoTo, AtomicInv, LockInv, LockTypes
  <1>3. r # None
    BY KeyAssumption, RequestAssumption
  <1>4. CallState(p)' /\ Relies(p)'
    BY <1>2, <1>3 DEF AtomicInv, CallState, Relies
  <1>5. ASSUME NEW q \in Procs, q # p PROVE CallState(q)' /\ Relies(q)'
    BY <1>2, <1>5, OthersKeep DEF AtomicInv
  <1> QED
    BY <1>1, <1>4, <1>5 DEF AtomicInv

\* The empty sequence, which List starts from.
LEMMA EmptyOut == Range(<< >>) = {} /\ IsInjective(<< >>) /\ << >> \in Seq(Ids)
  BY DEF Range, IsInjective

\* Taking the mutex, or queueing for it, changes nothing a call relies on.
LEMMA AcquireAtomic ==
  ASSUME AtomicInv, LockInv', NEW p \in Procs, Announce(p) \/ Lock(p) \/ RLock(p)
  PROVE  AtomicInv'
  <1>1. UNCHANGED <<keys, request, answer, out>>
    BY DEF Announce, Lock, RLock
  <1>2. PICK l \in {"announced", "locked", "queued"} : pc' = [pc EXCEPT ![p] = l]
    BY DEF Announce, Lock, RLock, GoTo
  <1>3. pc[p] \in {"start", "announced"} /\ pc \in [Procs -> Labels]
    BY DEF Announce, Lock, RLock, AtomicInv, LockInv, LockTypes
  <1>4. ~EmptyStore(p)
    BY DEF Announce, Lock, RLock, AtomicInv, Relies, EmptyStore, Writes
  <1>5. pc'[p] = l /\ out[p] = << >>
    BY <1>2, <1>3 DEF AtomicInv, Relies
  <1>6. CallState(p)'
    BY <1>1, <1>3, <1>5 DEF AtomicInv, CallState
  <1>7. ~EmptyStore(p)' /\ out'[p] = << >>
    BY <1>1, <1>4, <1>5 DEF EmptyStore, Op
  <1>8. Relies(p)'
    BY <1>5, <1>7, EmptyOut DEF Relies
  <1>9. ASSUME NEW q \in Procs, q # p PROVE CallState(q)' /\ Relies(q)'
    BY <1>1, <1>2, <1>3, <1>9, OthersKeep DEF AtomicInv
  <1>10. StoreTypes'
    BY <1>1 DEF AtomicInv, StoreTypes
  <1> QED
    BY <1>6, <1>8, <1>9, <1>10 DEF AtomicInv

\* A step that computes p's answer, while nobody else touches the map.
LEMMA FinishAtomic ==
  ASSUME AtomicInv, LockInv', NEW p \in Procs, NEW a \in Answer,
         NEW l \in {"unlock", "return"},
         answer' = [answer EXCEPT ![p] = a], pc' = [pc EXCEPT ![p] = l],
         UNCHANGED <<request, out>>, pc[p] # "idle",
         keys' \in [AllIds -> Records \cup {None}],
         keys' = keys \/ Writing(p)
  PROVE  AtomicInv'
  <1>1. /\ pc \in [Procs -> Labels] /\ answer \in [Procs -> Answer \cup {None}]
        /\ LockInv
    BY DEF AtomicInv, LockInv, LockTypes, StoreTypes
  <1>2. a # None
    BY KeyAssumption
  <1>3. CallState(p)' /\ Relies(p)'
    BY <1>1, <1>2 DEF AtomicInv, CallState, Relies
  <1>4. ASSUME NEW q \in Procs, q # p PROVE CallState(q)' /\ Relies(q)'
    BY <1>1, <1>4, WriterAlone, OthersKeep DEF AtomicInv
  <1>5. StoreTypes'
    BY <1>1 DEF AtomicInv, StoreTypes
  <1> QED
    BY <1>3, <1>4, <1>5 DEF AtomicInv

\* The methods' answers have the types their callers expect.
LEMMA AnswerTypes ==
  /\ \A b \in BOOLEAN : [stored |-> b] \in Answer /\ [deleted |-> b] \in Answer
  /\ \A r \in Records \cup {None} : [found |-> r] \in Answer
  /\ \A s \in Seq(Ids) : [ids |-> s] \in Answer
  BY DEF Answer

\* What sort.Strings returns of distinct ids.
LEMMA SortedIds ==
  ASSUME NEW s \in Seq(Ids), IsInjective(s), NEW t \in SortStrings(s)
  PROVE  /\ t \in Seq(Ids) /\ IsInjective(t) /\ Ascending(t)
         /\ Range(t) = Range(s) /\ DOMAIN t = DOMAIN s
  <1>1. PICK f \in Bijection(DOMAIN s, DOMAIN s) : t = [i \in DOMAIN s |-> s[f[i]]]
    BY DEF SortStrings
  <1>2. /\ f \in [DOMAIN s -> DOMAIN s] /\ IsInjective(f)
        /\ \A j \in DOMAIN s : \E i \in DOMAIN s : f[i] = j
    BY DEF Bijection, Injection, Surjection
  <1>3. DOMAIN s = 1..Len(s) /\ Len(s) \in Nat /\ \A i \in DOMAIN s : s[i] \in Ids
    OBVIOUS
  <1>4. DOMAIN t = DOMAIN s /\ \A i \in DOMAIN s : t[i] = s[f[i]]
    BY <1>1
  <1>5. t \in Seq(Ids)
    BY <1>1, <1>2, <1>3
  <1>6. IsInjective(t)
    BY <1>2, <1>4 DEF IsInjective
  <1>7. Range(t) = Range(s)
    BY <1>2, <1>4 DEF Range
  <1> QED
    BY <1>4, <1>5, <1>6, <1>7 DEF SortStrings

\* A goroutine inside its call has a request with the fields of its method.
LEMMA UnderWay ==
  ASSUME AtomicInv, NEW p \in Procs, pc[p] # "idle"
  PROVE  /\ request[p] \in Request /\ request[p] # None
         /\ Op(p) \in {"Store", "Retrieve", "Delete", "List"}
         /\ Op(p) # "List" => request[p].id \in AllIds
         /\ Op(p) = "Store" => request[p].record \in Records
  <1>1. request[p] \in Request /\ request[p] # None
    BY RequestAssumption DEF AtomicInv, CallState, LockInv, LockTypes
  <1> QED
    BY <1>1, RequestFields DEF Op

\* The methods' own work preserves the invariant.
LEMMA WorkAtomic ==
  ASSUME AtomicInv, LockInv', NEW p \in Procs,
         \/ RefuseEmpty(p) \/ Store(p) \/ Retrieve(p) \/ DeleteLookup(p)
         \/ DeleteErase(p) \/ ListNext(p) \/ ListEnd(p)
  PROVE  AtomicInv'
  <1>1. keys \in [AllIds -> Records \cup {None}] /\ out \in [Procs -> Seq(Ids)]
        /\ pc \in [Procs -> Labels]
    BY DEF AtomicInv, StoreTypes, LockInv, LockTypes
  <1>2. CASE RefuseEmpty(p)
    BY <1>1, <1>2, FinishAtomic, AnswerTypes DEF RefuseEmpty, GoTo
  <1>3. CASE Store(p)
    <2>1. keys' \in [AllIds -> Records \cup {None}]
      BY <1>1, <1>3, UnderWay DEF Store
    <2> QED
      BY <1>3, <2>1, FinishAtomic, AnswerTypes DEF Store, Finish, GoTo, Writing
  <1>4. CASE Retrieve(p)
    <2>1. keys[request[p].id] \in Records \cup {None}
      BY <1>1, <1>4, UnderWay DEF Retrieve
    <2> QED
      BY <1>1, <1>4, <2>1, FinishAtomic, AnswerTypes DEF Retrieve, Finish, GoTo
  <1>5. CASE DeleteLookup(p)
    <2>1. CASE Finish(p, [deleted |-> FALSE])
      BY <1>1, <1>5, <2>1, FinishAtomic, AnswerTypes DEF DeleteLookup, Finish, GoTo
    <2>2. CASE keys[request[p].id] # None /\ GoTo(p, "erase") /\ UNCHANGED answer
      <3>1. /\ pc' = [pc EXCEPT ![p] = "erase"] /\ pc[p] = "locked"
            /\ UNCHANGED <<keys, request, out, answer>> /\ Op(p) = "Delete"
        BY <1>5, <2>2 DEF DeleteLookup, GoTo
      <3>2. CallState(p)'
        BY <1>1, <3>1 DEF AtomicInv, CallState
      <3>3. Relies(p)'
        BY <1>1, <2>2, <3>1 DEF Relies, Op
      <3>4. ASSUME NEW q \in Procs, q # p PROVE CallState(q)' /\ Relies(q)'
        BY <1>1, <3>1, <3>4, OthersKeep DEF AtomicInv
      <3>5. StoreTypes'
        BY <3>1 DEF AtomicInv, StoreTypes
      <3> QED
        BY <3>2, <3>3, <3>4, <3>5 DEF AtomicInv
    <2> QED
      BY <1>5, <2>1, <2>2 DEF DeleteLookup
  <1>6. CASE DeleteErase(p)
    <2>1. Op(p) = "Delete"
      BY <1>6 DEF DeleteErase, AtomicInv, Relies
    <2>2. keys' \in [AllIds -> Records \cup {None}]
      BY <1>1, <1>6 DEF DeleteErase
    <2> QED
      BY <1>6, <2>1, <2>2, FinishAtomic, AnswerTypes
         DEF DeleteErase, Finish, GoTo, Writing
  <1>7. CASE ListNext(p)
    <2>1. PICK i \in Unlisted(p) : out' = [out EXCEPT ![p] = Append(out[p], i)]
      BY <1>7 DEF ListNext
    <2>2. pc[p] = "locked" /\ UNCHANGED <<keys, request, answer, pc>>
      BY <1>7 DEF ListNext
    <2>3. i \in Ids /\ i \in Present(keys) /\ i \notin Range(out[p])
      BY DEF Unlisted, Present
    <2> DEFINE s == out[p]
               t == Append(out[p], i)
    <2>4. s \in Seq(Ids) /\ Range(s) \subseteq Present(keys) /\ IsInjective(s)
      BY <1>1, <2>2 DEF AtomicInv, Relies
    <2>5. /\ t \in Seq(Ids) /\ Len(s) \in Nat
          /\ DOMAIN s = 1..Len(s) /\ DOMAIN t = 1..(Len(s) + 1)
          /\ t[Len(s) + 1] = i /\ \A k \in 1..Len(s) : t[k] = s[k]
      BY <2>3, <2>4
    <2> HIDE DEF s, t
    <2>6. \A k \in 1..(Len(s) + 1) : k = Len(s) + 1 \/ k \in 1..Len(s)
      BY <2>5
    <2>7. \A k \in 1..Len(s) : s[k] \in Range(s) /\ s[k] # i
      BY <2>3, <2>5 DEF Range, s
    <2>8. Range(t) \subseteq Present(keys)
      BY <2>3, <2>4, <2>5, <2>6, <2>7 DEF Range
    <2>9. IsInjective(t)
      BY <2>4, <2>5, <2>6, <2>7 DEF IsInjective
    <2>10. out'[p] = t /\ out' \in [Procs -> Seq(Ids)]
      BY <1>1, <2>1, <2>5 DEF t
    <2>11. CallState(p)'
      BY <2>2 DEF AtomicInv, CallState
    <2>12. ~EmptyStore(p)'
      BY <2>2 DEF AtomicInv, Relies, EmptyStore, Op
    <2>13. Relies(p)'
      BY <2>2, <2>8, <2>9, <2>10, <2>12 DEF Relies
    <2>14. ASSUME NEW q \in Procs, q # p PROVE CallState(q)' /\ Relies(q)'
      BY <1>1, <2>1, <2>2, <2>14, OthersKeep DEF AtomicInv
    <2>15. StoreTypes'
      BY <2>2, <2>10 DEF AtomicInv, StoreTypes
    <2> QED
      BY <2>11, <2>13, <2>14, <2>15 DEF AtomicInv
  <1>8. CASE ListEnd(p)
    <2>1. PICK t \in SortStrings(out[p]) : Finish(p, [ids |-> t])
      BY <1>8 DEF ListEnd
    <2>2. out[p] \in Seq(Ids) /\ IsInjective(out[p])
      BY <1>1, <1>8 DEF ListEnd, AtomicInv, Relies
    <2>3. t \in Seq(Ids)
      BY <2>2, SortedIds
    <2> QED
      BY <1>1, <1>8, <2>1, <2>3, FinishAtomic, AnswerTypes DEF ListEnd, Finish, GoTo
  <1> QED
    BY <1>2, <1>3, <1>4, <1>5, <1>6, <1>7, <1>8

\* Unlock changes no call but for the queued readers it lets in, which have
\* not seen the map yet.
LEMMA UnlockAtomic ==
  ASSUME AtomicInv, LockInv', NEW p \in Procs, Unlock(p)
  PROVE  AtomicInv'
  <1>1. UNCHANGED <<keys, request, answer, out>> /\ pc[p] = "unlock"
    BY DEF Unlock
  <1>2. pc \in [Procs -> Labels] /\ pc'[p] = "return"
    BY DEF Unlock, GoTo, AtomicInv, LockInv, LockTypes
  <1>3. CallState(p)' /\ Relies(p)'
    BY <1>1, <1>2 DEF AtomicInv, CallState, Relies
  <1>4. ASSUME NEW q \in Procs, q # p PROVE CallState(q)' /\ Relies(q)'
    <2>1. pc'[q] = pc[q] \/ (pc[q] = "queued" /\ pc'[q] = "locked")
      BY <1>2, <1>4 DEF Unlock, GoTo
    <2>2. CASE pc'[q] = pc[q]
      BY <1>1, <1>4, <2>2, OthersKeep DEF AtomicInv
    <2>3. CASE pc[q] = "queued" /\ pc'[q] = "locked"
      <3>1. CallState(q)'
        BY <1>1, <2>3 DEF AtomicInv, CallState
      <3>2. out'[q] = << >>
        BY <1>1, <2>3 DEF AtomicInv, Relies
      <3>3. ~EmptyStore(q)'
        BY <1>1, <2>3 DEF AtomicInv, LockInv, Writes, EmptyStore, Op
      <3> QED
        BY <2>3, <3>1, <3>2, <3>3, EmptyOut DEF Relies
    <2> QED
      BY <2>1, <2>2, <2>3
  <1>5. StoreTypes'
    BY <1>1 DEF AtomicInv, StoreTypes
  <1> QED
    BY <1>3, <1>4, <1>5 DEF AtomicInv

\* A call returns and leaves nothing behind.
LEMMA ReturnAtomic ==
  ASSUME AtomicInv, LockInv', NEW p \in Procs, Return(p)
  PROVE  AtomicInv'
  <1>1. /\ pc \in [Procs -> Labels] /\ request \in [Procs -> Requests \cup {None}]
        /\ answer \in [Procs -> Answer \cup {None}] /\ out \in [Procs -> Seq(Ids)]
    BY DEF AtomicInv, LockInv, LockTypes, StoreTypes
  <1>2. /\ pc' = [pc EXCEPT ![p] = "idle"] /\ request' = [request EXCEPT ![p] = None]
        /\ answer' = [answer EXCEPT ![p] = None] /\ out' = [out EXCEPT ![p] = << >>]
        /\ keys' = keys
    BY DEF Return, GoTo
  <1>3. CallState(p)' /\ Relies(p)'
    BY <1>1, <1>2 DEF CallState, Relies
  <1>4. ASSUME NEW q \in Procs, q # p PROVE CallState(q)' /\ Relies(q)'
    BY <1>1, <1>2, <1>4, OthersKeep DEF AtomicInv
  <1>5. StoreTypes'
    BY <1>1, <1>2, EmptyOut DEF AtomicInv, StoreTypes
  <1> QED
    BY <1>3, <1>4, <1>5 DEF AtomicInv

\* Every step preserves the invariant.
LEMMA NextAtomic ==
  ASSUME AtomicInv, LockInv', [Next]_vars
  PROVE  AtomicInv'
  <1>1. CASE UNCHANGED vars
    BY <1>1 DEF vars, AtomicInv, StoreTypes, CallState, Relies, EmptyStore, Op,
                Present
  <1>2. CASE Next
    <2>1. PICK p \in Procs : \/ \E r \in Requests : Invoke(p, r)
                             \/ Announce(p)
                             \/ Proceed(p)
      BY <1>2 DEF Next
    <2> QED
      BY <2>1, InvokeAtomic, AcquireAtomic, WorkAtomic, UnlockAtomic, ReturnAtomic
         DEF Proceed
  <1> QED
    BY <1>1, <1>2

\* What goroutines rely on stays true through every step.
THEOREM AtomicInvariant == Spec => []AtomicInv
  <1>1. AtomicInv /\ LockInv' /\ [Next]_vars => AtomicInv'
    BY NextAtomic
  <1> QED
    BY <1>1, InitAtomic, LockInvariant, PTL DEF Spec

\* The answers and effects of the interface, read through its instance, are
\* the same.
LEMMA SameInterface ==
  /\ Map!AllIds = AllIds /\ Map!Request = Request
  /\ \A m, r : Map!Outcomes(m, r) = Outcomes(m, r) /\ Map!Effect(m, r) = Effect(m, r)
  <1>1. Map!AllIds = AllIds
    BY DEF Map!AllIds, AllIds
  <1>2. Map!Request = Request
    BY <1>1 DEF Map!Request, Request
  <1>3. \A S : Map!SetToSeqs(S) = SetToSeqs(S)
    <2>1. \A S : Map!Cardinality(S) = Cardinality(S)
      BY DEF Map!Cardinality, Cardinality
    <2> QED
      BY <2>1 DEF Map!SetToSeqs, SetToSeqs
  <1>4. \A s : Map!Ascending(s) <=> Ascending(s)
    BY DEF Map!Ascending, Ascending
  <1>5. \A m : Map!Present(m) = Present(m)
    BY DEF Map!Present, Present
  <1>6. \A m : Map!Listings(m) = Listings(m)
    BY <1>3, <1>4, <1>5 DEF Map!Listings, Listings
  <1>7. \A m, r : Map!Outcomes(m, r) = Outcomes(m, r)
    BY <1>6 DEF Map!Outcomes, Outcomes
  <1>8. \A m, r : Map!Effect(m, r) = Effect(m, r)
    BY DEF Map!Effect, Effect
  <1> QED
    BY <1>1, <1>2, <1>7, <1>8

\* A list of distinct ids in ascending order that holds exactly the ids
\* present is the listing of the map.
LEMMA ListingOf ==
  ASSUME NEW t \in Seq(Ids), IsInjective(t), Ascending(t), Range(t) = Present(keys)
  PROVE  t \in Listings(keys)
  <1> DEFINE S == Present(keys)
             n == Len(t)
  <1>1. n \in Nat /\ DOMAIN t = 1..n
    OBVIOUS
  <1>2. t \in [1..n -> S] /\ \A x \in S : \E i \in 1..n : t[i] = x
    BY <1>1 DEF Range
  <1>3. t \in Bijection(1..n, S)
    BY <1>2 DEF Bijection, Injection, Surjection
  <1>4. IsFiniteSet(1..n) /\ Cardinality(1..n) = n
    BY <1>1, FS_Interval
  <1>5. Cardinality(S) = n
    BY <1>3, <1>4, FS_Bijection DEF ExistsBijection
  <1>6. \A i, j \in 1..n : i # j => t[i] # t[j]
    BY <1>1 DEF IsInjective
  <1>7. t \in SetToSeqs(S)
    BY <1>2, <1>5, <1>6 DEF SetToSeqs
  <1> QED
    BY <1>7 DEF Listings

\* A step that computes an answer is the one instant at which its call takes
\* effect.
LEMMA EffectStep ==
  ASSUME AtomicInv, NEW p \in Procs,
         pc[p] \notin {"idle", "unlock", "return"},
         NEW a \in Outcomes(keys, request[p]),
         answer' = [answer EXCEPT ![p] = a],
         keys' = Effect(keys, request[p]), UNCHANGED request
  PROVE  Map!Next
  <1>1. request[p] # None /\ answer[p] = None
    BY DEF AtomicInv, CallState
  <1>2. Map!TakeEffect(p)
    BY <1>1, SameInterface DEF Map!TakeEffect
  <1> QED
    BY <1>2 DEF Map!Next

\* A step of a method's work takes effect, or nobody but it can see it.
LEMMA WorkRefines ==
  ASSUME AtomicInv, NEW p \in Procs,
         \/ RefuseEmpty(p) \/ Store(p) \/ Retrieve(p) \/ DeleteLookup(p)
         \/ DeleteErase(p) \/ ListNext(p) \/ ListEnd(p)
  PROVE  Map!Next \/ UNCHANGED <<keys, request, answer>>
  <1> DEFINE r == request[p]
  <1>1. keys \in [AllIds -> Records \cup {None}] /\ out \in [Procs -> Seq(Ids)]
    BY DEF AtomicInv, StoreTypes
  <1>2. CASE RefuseEmpty(p)
    <2>1. r.op = "Store" /\ r.id = EmptyId
      BY <1>2 DEF RefuseEmpty, EmptyStore, Op
    <2>2. [stored |-> FALSE] \in Outcomes(keys, r) /\ Effect(keys, r) = keys
      BY <2>1 DEF Outcomes, Effect
    <2> QED
      BY <1>2, <2>2, EffectStep DEF RefuseEmpty
  <1>3. CASE Store(p)
    <2>1. r.op = "Store" /\ r.id # EmptyId
      BY <1>3 DEF Store, AtomicInv, Relies, EmptyStore, Op
    <2>2. [stored |-> TRUE] \in Outcomes(keys, r)
      BY <2>1 DEF Outcomes
    <2>3. Effect(keys, r) = [keys EXCEPT ![r.id] = r.record]
      BY <2>1 DEF Effect
    <2> QED
      BY <1>3, <2>2, <2>3, EffectStep DEF Store, Finish
  <1>4. CASE Retrieve(p)
    <2>1. r.op = "Retrieve"
      BY <1>4 DEF Retrieve, Op
    <2>2. [found |-> keys[r.id]] \in Outcomes(keys, r) /\ Effect(keys, r) = keys
      BY <2>1 DEF Outcomes, Effect
    <2> QED
      BY <1>4, <2>2, EffectStep DEF Retrieve, Finish
  <1>5. CASE DeleteLookup(p)
    <2>1. r.op = "Delete" /\ r.id \in AllIds
      BY <1>5, UnderWay DEF DeleteLookup, Op
    <2>2. CASE keys[r.id] = None /\ Finish(p, [deleted |-> FALSE])
      <3>1. [deleted |-> FALSE] \in Outcomes(keys, r)
        BY <2>1, <2>2 DEF Outcomes
      <3>2. Effect(keys, r) = [keys EXCEPT ![r.id] = None]
        BY <2>1 DEF Effect
      <3>3. Effect(keys, r) = keys
        BY <1>1, <2>1, <2>2, <3>2
      <3> QED
        BY <1>5, <2>2, <3>1, <3>3, EffectStep DEF DeleteLookup, Finish
    <2> QED
      BY <1>5, <2>2 DEF DeleteLookup
  <1>6. CASE DeleteErase(p)
    <2>1. r.op = "Delete" /\ keys[r.id] # None
      BY <1>6 DEF DeleteErase, AtomicInv, Relies, Op
    <2>2. [deleted |-> TRUE] \in Outcomes(keys, r)
      BY <2>1 DEF Outcomes
    <2>3. Effect(keys, r) = [keys EXCEPT ![r.id] = None]
      BY <2>1 DEF Effect
    <2> QED
      BY <1>6, <2>2, <2>3, EffectStep DEF DeleteErase, Finish
  <1>7. CASE ListNext(p)
    BY <1>7 DEF ListNext
  <1>8. CASE ListEnd(p)
    <2>1. PICK t \in SortStrings(out[p]) : Finish(p, [ids |-> t])
      BY <1>8 DEF ListEnd
    <2>2. /\ out[p] \in Seq(Ids) /\ IsInjective(out[p])
          /\ Range(out[p]) \subseteq Present(keys)
      BY <1>1, <1>8 DEF ListEnd, AtomicInv, Relies
    <2>3. Range(out[p]) = Present(keys)
      BY <1>8, <2>2 DEF ListEnd, Unlisted
    <2>4. t \in Listings(keys)
      BY <2>2, <2>3, SortedIds, ListingOf
    <2>5. r.op = "List"
      BY <1>8 DEF ListEnd, Op
    <2>6. [ids |-> t] \in Outcomes(keys, r) /\ Effect(keys, r) = keys
      BY <2>4, <2>5 DEF Outcomes, Effect
    <2> QED
      BY <1>8, <2>1, <2>6, EffectStep DEF ListEnd, Finish
  <1> QED
    BY <1>2, <1>3, <1>4, <1>5, <1>6, <1>7, <1>8

\* Every step of the store is a step of the map, or invisible.
LEMMA StepRefines ==
  ASSUME AtomicInv, [Next]_vars
  PROVE  Map!Next \/ UNCHANGED <<keys, request, answer>>
  <1>1. CASE UNCHANGED vars
    BY <1>1 DEF vars
  <1>2. CASE Next
    <2>1. PICK p \in Procs : \/ \E r \in Requests : Invoke(p, r)
                             \/ Announce(p)
                             \/ Proceed(p)
      BY <1>2 DEF Next
    <2>2. ASSUME NEW r \in Requests, Invoke(p, r) PROVE Map!Next
      <3>1. request[p] = None /\ r \in Map!Request
        BY <2>2, SameInterface, RequestAssumption DEF Invoke, AtomicInv, CallState
      <3>2. Map!Invoke(p)
        BY <2>2, <3>1 DEF Map!Invoke, Invoke
      <3> QED
        BY <3>2 DEF Map!Next
    <2>3. ASSUME Return(p) PROVE Map!Next
      <3>1. answer[p] # None
        BY <2>3 DEF Return, AtomicInv, CallState
      <3>2. Map!Return(p)
        BY <2>3, <3>1 DEF Map!Return, Return
      <3> QED
        BY <3>2 DEF Map!Next
    <2>4. ASSUME Announce(p) \/ Lock(p) \/ RLock(p) \/ Unlock(p)
          PROVE  UNCHANGED <<keys, request, answer>>
      BY <2>4 DEF Announce, Lock, RLock, Unlock
    <2> QED
      BY <2>1, <2>2, <2>3, <2>4, WorkRefines DEF Proceed
  <1> QED
    BY <1>1, <1>2

\* InMemoryKeyStorage is linearizable, however many goroutines call it: its
\* callers cannot tell it from a map on which each call takes effect at one
\* instant.
THEOREM StoreIsMap == Spec => Linearizable
  <1>1. Init => Map!Init
    BY SameInterface DEF Init, Map!Init
  <1>2. AtomicInv /\ [Next]_vars => [Map!Next]_<<keys, request, answer>>
    BY StepRefines
  <1> QED
    BY <1>1, <1>2, AtomicInvariant, PTL DEF Spec, Linearizable, Map!Spec
=============================================================================
