------------------------ MODULE AccountabilityProofs ------------------------
(***************************************************************************)
(* What TraceBeneficiary and EvaluateCompliance tell a verifier, for lists *)
(* of records and receipts of any length, chains of any length and any     *)
(* floor; and what a Merkle proof of attribution.go or of                  *)
(* supporting_record.go tells one, for trees of any size.                  *)
(*                                                                         *)
(* A sort is taken by its least place, which is shown to exist: a smallest *)
(* set of places without one would have another inside it.  A tree is      *)
(* taken by all its levels at once, which the invariant says exist: the    *)
(* prover adds one, the verifier climbs from one to the next.  That the    *)
(* root commits to the leaves rests on two more views of a tree: by the    *)
(* stretches of leaves its nodes are over, and by the set of its hashes.   *)
(***************************************************************************)
EXTENDS Accountability, Merkle, FiniteSetTheorems, WellFoundedInduction, TLAPS

\* A non-empty set of subsets of a finite set has a smallest one.
LEMMA SmallestSubset ==
  ASSUME NEW S, IsFiniteSet(S), NEW T, T \subseteq SUBSET S, T # {}
  PROVE  \E m \in T : \A t \in T : t \subseteq m => t = m
<1>1. \A s \in SUBSET S : IsFiniteSet(s)
  BY FS_Subset
<1>2. T \subseteq FiniteSubsetsOf(S)
  BY <1>1 DEF FiniteSubsetsOf
<1>3. \E m \in T : \A t \in T : ~ (<<t, m>> \in StrictSubsetOrdering(S))
  BY <1>2, FS_StrictSubsetOrderingWellFounded, WFMin
<1> QED
  BY <1>3 DEF StrictSubsetOrdering

\* Place i of a list comes before place j in the stable sort.
Ahead(recs, i, j) ==
  \/ Before(recs[i], recs[j])
  \/ ~ Before(recs[j], recs[i]) /\ i < j

\* Of two places one is ahead, and being ahead is transitive.
LEMMA AheadOrders ==
  ASSUME NEW recs \in Seq(TraceDelegation)
  PROVE  /\ \A i, j \in DOMAIN recs : i # j => Ahead(recs, i, j) \/ Ahead(recs, j, i)
         /\ \A i, j, k \in DOMAIN recs :
              Ahead(recs, i, j) /\ Ahead(recs, j, k) => Ahead(recs, i, k)
<1>1. \A i \in DOMAIN recs : i \in Int /\ recs[i].delegationId \in Int
  <2>1. \A d \in TraceDelegation : d.delegationId \in Int
    BY DEF TraceDelegation, Ids
  <2> QED
    BY <2>1
<1>2. ASSUME NEW i \in DOMAIN recs, NEW j \in DOMAIN recs
      PROVE  Ahead(recs, i, j) <=>
               \/ Authentic(recs[i]) /\ ~ Authentic(recs[j])
               \/ /\ Authentic(recs[i]) <=> Authentic(recs[j])
                  /\ \/ recs[i].delegationId < recs[j].delegationId
                     \/ recs[i].delegationId = recs[j].delegationId /\ i < j
  BY <1>1 DEF Ahead, Before, Authentic
<1>3. \A i, j \in DOMAIN recs : i # j => Ahead(recs, i, j) \/ Ahead(recs, j, i)
  BY <1>1, <1>2
<1>4. ASSUME NEW i \in DOMAIN recs, NEW j \in DOMAIN recs, NEW k \in DOMAIN recs,
             Ahead(recs, i, j), Ahead(recs, j, k)
      PROVE  Ahead(recs, i, k)
  BY <1>1, <1>2, <1>4
<1> QED
  BY <1>3, <1>4

\* The stable sort has a first place: FirstInOrder is never a choice from
\* nothing.
LEMMA FirstExists ==
  ASSUME NEW recs \in Seq(TraceDelegation), NEW places \in SUBSET DOMAIN recs,
         places # {}
  PROVE  \E i \in places : /\ FirstInOrder(recs, places) = recs[i]
                           /\ \A j \in places \ {i} : Ahead(recs, i, j)
<1> DEFINE Least(T) == \E i \in T : \A j \in T \ {i} : Ahead(recs, i, j)
           Bad == {T \in SUBSET places : T # {} /\ ~ Least(T)}
<1>1. IsFiniteSet(places)
  <2>1. IsFiniteSet(1..Len(recs))
    BY FS_Interval
  <2> QED
    BY <2>1, FS_Subset
<1>2. Bad = {}
  <2> SUFFICES ASSUME Bad # {} PROVE FALSE
    OBVIOUS
  <2>1. Bad \subseteq SUBSET places
    OBVIOUS
  <2>2. PICK m \in Bad : \A t \in Bad : t \subseteq m => t = m
    <3> HIDE DEF Bad
    <3> QED
      BY <1>1, <2>1, SmallestSubset
  <2>3. PICK x \in m : TRUE
    BY <2>2
  <2>4. m \ {x} # {}
    BY <2>2
  <2>5. Least(m \ {x})
    <3>1. m \ {x} \in SUBSET places /\ m \ {x} \notin Bad
      BY <2>2, <2>3
    <3> QED
      BY <3>1, <2>4
  <2>6. PICK y \in m \ {x} : \A j \in (m \ {x}) \ {y} : Ahead(recs, y, j)
    BY <2>5
  <2>7. m \subseteq DOMAIN recs
    BY <2>2
  <2>8. CASE Ahead(recs, x, y)
    <3>1. \A j \in m \ {x} : Ahead(recs, x, j)
      BY <2>6, <2>7, <2>8, AheadOrders
    <3> QED
      BY <3>1, <2>2, <2>3
  <2>9. CASE Ahead(recs, y, x)
    <3>1. \A j \in m \ {y} : Ahead(recs, y, j)
      BY <2>6, <2>9
    <3> QED
      BY <3>1, <2>2, <2>6
  <2> QED
    BY <2>6, <2>7, <2>8, <2>9, AheadOrders
<1>3. \E i \in places : \A j \in places \ {i} : Ahead(recs, i, j)
  BY <1>2
<1> DEFINE first == CHOOSE i \in places : \A j \in places \ {i} : Ahead(recs, i, j)
<1>4. first \in places /\ \A j \in places \ {first} : Ahead(recs, first, j)
  BY <1>3
<1>5. FirstInOrder(recs, places) = recs[first]
  BY DEF FirstInOrder, Ahead
<1> QED
  BY <1>4, <1>5

-----------------------------------------------------------------------------
\* The types of the records, the receipts and the known delegations.
TypeInv ==
  /\ records \in Seq(TraceDelegation)
  /\ receipts \in Seq(ActionReceipt)
  /\ DOMAIN states \subseteq Ids
  /\ states \in [DOMAIN states -> DelegationState]

\* A delegation is authentic exactly if it was given.
RecordsTrue ==
  \A from, to \in Keys :
    <<from, to>> \in given <=>
      \E k \in Matches(records, from, to) : Authentic(records[k])

\* What is signed by a key was signed by its holder, and as it stands.
ReceiptsTrue ==
  /\ \A x \in done : x[2].signature = x[1]
  /\ \A i \in DOMAIN receipts : receipts[i].signature \in Keys =>
       <<receipts[i].signature, receipts[i]>> \in done

\* A delegation is known by its id, from an authentic record.
StatesTrue ==
  /\ \A k \in DOMAIN records : Authentic(records[k]) =>
       records[k].delegationId \in DOMAIN states
  /\ \A id \in DOMAIN states : \E k \in DOMAIN records :
       /\ Authentic(records[k]) /\ records[k].delegationId = id
       /\ states[id].scope = records[k].scope

\* A violation that was reported is one still.
ReportTrue ==
  report # None =>
    /\ DOMAIN report.checks = DOMAIN Floor
    /\ \A i \in DOMAIN Floor : report.checks[i].status = "violation" =>
         Status(Floor[i].id, receipts, OwnReceipts(report.agentId, receipts), states)
           = "violation"

\* The inductive invariant.
IInv == TypeInv /\ RecordsTrue /\ ReceiptsTrue /\ StatesTrue /\ ReportTrue

\* Receipts are only added, and a delegation keeps its scope and stays revoked.
Grows ==
  /\ Len(receipts) <= Len(receipts')
  /\ \A i \in 1..Len(receipts) : receipts'[i] = receipts[i]
  /\ DOMAIN states \subseteq DOMAIN states'
  /\ \A id \in DOMAIN states :
       /\ states'[id].scope = states[id].scope
       /\ states[id].revoked => states'[id].revoked

\* What evaluatePrinciple finds to be a violation it finds again when
\* receipts were added and delegations added or revoked.
LEMMA ViolationKept ==
  ASSUME TypeInv, TypeInv', Grows, NEW id, NEW agent,
         Status(id, receipts, OwnReceipts(agent, receipts), states) = "violation"
  PROVE  Status(id, receipts', OwnReceipts(agent, receipts'), states') = "violation"
<1> DEFINE own == OwnReceipts(agent, receipts)
           pwn == OwnReceipts(agent, receipts')
<1>1. \A i \in own : /\ i \in pwn /\ i \in 1..Len(receipts)
                     /\ receipts'[i] = receipts[i]
  BY DEF TypeInv, Grows, OwnReceipts
<1>2. Untraced(receipts, own) # {} => Untraced(receipts', pwn) # {}
  BY <1>1 DEF Untraced
<1>3. OutOfScope(receipts, own, states) # {} => OutOfScope(receipts', pwn, states') # {}
  BY <1>1 DEF OutOfScope, Grows
<1>4. UnderRevoked(receipts, own, states) # {} => UnderRevoked(receipts', pwn, states') # {}
  BY <1>1 DEF UnderRevoked, Grows
<1>5. Unsigned(receipts, own) # {} => Unsigned(receipts', pwn) # {}
  BY <1>1 DEF Unsigned
<1>6. \A a, b \in AgentIds(receipts, own) : a = b
  BY DEF AgentIds, OwnReceipts
<1>7. own # {} => pwn # {}
  BY <1>1
<1> HIDE DEF own, pwn
<1>8. Status(id, receipts, own, states) = "violation"
  BY DEF own
<1>9. id \in {"F-001", "F-003", "F-004", "F-005"}
  BY <1>6, <1>8 DEF Status, Judge
<1>10. CASE id = "F-001"
  BY <1>2, <1>7, <1>8, <1>10 DEF Status, Judge, pwn
<1>11. CASE id = "F-003"
  BY <1>3, <1>8, <1>11 DEF Status, Judge, pwn
<1>12. CASE id = "F-004"
  BY <1>4, <1>8, <1>12 DEF Status, Judge, pwn
<1>13. CASE id = "F-005"
  BY <1>5, <1>7, <1>8, <1>13 DEF Status, Judge, pwn
<1> QED
  BY <1>9, <1>10, <1>11, <1>12, <1>13

-----------------------------------------------------------------------------
\* The records are only added to, and so is what was given.
LEMMA DelegateKeeps ==
  ASSUME IInv, NEW g \in Grants, Delegate(g) \/ MakeUpRecord(g)
  PROVE  IInv'
<1> DEFINE d == records'[Len(records) + 1]
<1>1. PICK s \in Signature :
        /\ records' = Append(records, [g EXCEPT !.signature = s])
        /\ UNCHANGED <<receipts, report, done>>
        /\ \/ /\ s = Forged /\ UNCHANGED <<given, states>>
           \/ /\ s = g.delegatedBy
              /\ given' = given \cup {<<g.delegatedBy, g.delegatedTo>>}
              /\ states' = [id \in DOMAIN states \cup {g.delegationId} |->
                              IF id \in DOMAIN states THEN states[id]
                              ELSE [scope |-> g.scope, revoked |-> FALSE]]
  <2>1. g \in TraceDelegation
    BY AccountabilityAssumption
  <2>2. CASE Delegate(g)
    <3>1. g.delegatedBy \in Signature
      BY <2>1 DEF TraceDelegation, Signature
    <3>2. LET e == [g EXCEPT !.signature = g.delegatedBy]
          IN /\ e.delegatedBy = g.delegatedBy /\ e.delegatedTo = g.delegatedTo
             /\ e.delegationId = g.delegationId /\ e.scope = g.scope
      BY <2>1 DEF TraceDelegation
    <3> QED
      BY <2>2, <3>1, <3>2 DEF Delegate, AddRecord
  <2>3. CASE MakeUpRecord(g)
    BY <2>3 DEF MakeUpRecord, AddRecord, Signature
  <2> QED
    BY <2>2, <2>3
<1> DEFINE e == [g EXCEPT !.signature = s]
           n == Len(records) + 1
<1>2. /\ e \in TraceDelegation /\ e.delegatedBy = g.delegatedBy
      /\ e.delegatedTo = g.delegatedTo /\ e.delegationId = g.delegationId
      /\ e.scope = g.scope /\ e.signature = s
      /\ g.delegatedBy \in Keys /\ g.delegationId \in Ids /\ g.scope \in SUBSET Scopes
  BY AccountabilityAssumption DEF TraceDelegation
<1>3. Authentic(e) <=> s = g.delegatedBy
  BY <1>2 DEF Authentic
<1> HIDE DEF e
<1>4. /\ records' \in Seq(TraceDelegation) /\ n \in DOMAIN records'
      /\ DOMAIN records' = DOMAIN records \cup {n} /\ n \notin DOMAIN records
      /\ records'[n] = e
      /\ \A k \in DOMAIN records : records'[k] = records[k]
  BY <1>1, <1>2 DEF IInv, TypeInv, e
<1> HIDE DEF n
<1>5. TypeInv'
  <2>1. (DOMAIN states)' \subseteq Ids /\ states' \in [(DOMAIN states)' -> DelegationState]
    <3>1. CASE states' = states
      BY <3>1 DEF IInv, TypeInv
    <3>2. CASE states' # states
      <4> DEFINE new == [scope |-> g.scope, revoked |-> FALSE]
      <4>1. new \in DelegationState
        BY <1>2 DEF DelegationState
      <4>2. states' = [id \in DOMAIN states \cup {g.delegationId} |->
                         IF id \in DOMAIN states THEN states[id] ELSE new]
        BY <1>1, <3>2
      <4> HIDE DEF new
      <4> QED
        BY <1>2, <4>1, <4>2 DEF IInv, TypeInv
    <3> QED
      BY <3>1, <3>2
  <2> QED
    BY <1>1, <1>4, <2>1 DEF IInv, TypeInv
<1>6. s = Forged => s # g.delegatedBy
  BY <1>2, TraceAssumption
<1>7. RecordsTrue'
  <2> SUFFICES ASSUME NEW from \in Keys, NEW to \in Keys
               PROVE  <<from, to>> \in given' <=>
                        \E k \in Matches(records', from, to) : Authentic(records'[k])
    BY DEF RecordsTrue
  <2>1. (\E k \in Matches(records', from, to) : Authentic(records'[k])) <=>
          \/ \E k \in Matches(records, from, to) : Authentic(records[k])
          \/ e.delegatedBy = from /\ e.delegatedTo = to /\ Authentic(e)
    BY <1>4 DEF Matches
  <2>2. <<from, to>> \in given' <=>
          <<from, to>> \in given \/ (s = g.delegatedBy /\ from = g.delegatedBy /\ to = g.delegatedTo)
    BY <1>1, <1>6
  <2> QED
    BY <1>2, <1>3, <2>1, <2>2 DEF IInv, RecordsTrue
<1>8. ReceiptsTrue'
  BY <1>1 DEF IInv, ReceiptsTrue
<1>9. StatesTrue'
  <2>1. CASE s = Forged
    <3>1. ~ Authentic(e) /\ states' = states
      BY <1>1, <1>3, <1>6, <2>1
    <3> QED
      BY <1>4, <3>1 DEF IInv, StatesTrue
  <2>2. CASE s # Forged
    <3>1. /\ Authentic(e)
          /\ DOMAIN states' = DOMAIN states \cup {g.delegationId}
          /\ \A id \in DOMAIN states : states'[id] = states[id]
          /\ g.delegationId \notin DOMAIN states => states'[g.delegationId].scope = e.scope
      BY <1>1, <1>2, <1>3, <2>2
    <3>2. \A k \in DOMAIN records' : Authentic(records'[k]) =>
            records'[k].delegationId \in DOMAIN states'
      BY <1>2, <1>4, <3>1 DEF IInv, StatesTrue
    <3>3. ASSUME NEW id \in DOMAIN states'
          PROVE  \E k \in DOMAIN records' :
                   /\ Authentic(records'[k]) /\ records'[k].delegationId = id
                   /\ states'[id].scope = records'[k].scope
      <4>1. CASE id \in DOMAIN states
        BY <1>4, <3>1, <4>1 DEF IInv, StatesTrue
      <4>2. CASE id \notin DOMAIN states
        BY <1>2, <1>4, <3>1, <3>3, <4>2
      <4> QED
        BY <4>1, <4>2
    <3> QED
      BY <3>2, <3>3 DEF StatesTrue
  <2> QED
    BY <2>1, <2>2
<1>10. ReportTrue'
  <2>1. Grows
    BY <1>1 DEF Grows, IInv, TypeInv
  <2>2. TypeInv
    BY DEF IInv
  <2> QED
    BY <1>1, <1>5, <2>1, <2>2, ViolationKept DEF IInv, ReportTrue
<1> QED
  BY <1>5, <1>7, <1>8, <1>9, <1>10 DEF IInv

\* A receipt is added, signed or made up.
LEMMA ActKeeps ==
  ASSUME IInv, NEW a \in Actions,
         \/ \E key \in Keys : Act(key, a)
         \/ \E s \in {Forged, Absent} : MakeUpReceipt(a, s)
  PROVE  IInv'
<1>1. PICK s \in Signature :
        /\ receipts' = Append(receipts, [a EXCEPT !.signature = s])
        /\ UNCHANGED <<records, states, report, given>>
        /\ \/ s \notin Keys /\ done' = done
           \/ s \in Keys /\ done' = done \cup {<<s, [a EXCEPT !.signature = s]>>}
  BY TraceAssumption DEF Act, MakeUpReceipt, AddReceipt, Signature
<1> DEFINE e == [a EXCEPT !.signature = s]
<1>2. e \in ActionReceipt /\ e.signature = s
  BY AccountabilityAssumption DEF ActionReceipt
<1>3. /\ receipts' = Append(receipts, e)
      /\ \/ s \notin Keys /\ done' = done
         \/ s \in Keys /\ done' = done \cup {<<s, e>>}
  BY <1>1
<1> HIDE DEF e
<1>4. TypeInv'
  BY <1>1, <1>2, <1>3 DEF IInv, TypeInv
<1>5. RecordsTrue'
  BY <1>1 DEF IInv, RecordsTrue
<1>6. ReceiptsTrue'
  <2>1. \A i \in DOMAIN receipts' :
          receipts'[i] = e \/ (i \in DOMAIN receipts /\ receipts'[i] = receipts[i])
    BY <1>2, <1>3 DEF IInv, TypeInv
  <2>2. \A x \in done' : x[2].signature = x[1]
    BY <1>2, <1>3 DEF IInv, ReceiptsTrue
  <2>3. \A i \in DOMAIN receipts' : receipts'[i].signature \in Keys =>
          <<receipts'[i].signature, receipts'[i]>> \in done'
    BY <1>2, <1>3, <2>1 DEF IInv, ReceiptsTrue
  <2> QED
    BY <2>2, <2>3 DEF ReceiptsTrue
<1>7. StatesTrue'
  BY <1>1 DEF IInv, StatesTrue
<1>8. ReportTrue'
  <2>1. Grows
    BY <1>1, <1>2, <1>3 DEF Grows, IInv, TypeInv
  <2>2. TypeInv
    BY DEF IInv
  <2> QED
    BY <1>1, <1>4, <2>1, <2>2, ViolationKept DEF IInv, ReportTrue
<1> QED
  BY <1>4, <1>5, <1>6, <1>7, <1>8 DEF IInv

\* A delegation is revoked; its scope stays.
LEMMA RevokeKeeps ==
  ASSUME IInv, NEW id \in DOMAIN states, Revoke(id)
  PROVE  IInv'
<1>1. /\ states' = [states EXCEPT ![id].revoked = TRUE]
      /\ UNCHANGED <<records, receipts, report, given, done>>
  BY DEF Revoke
<1>2. /\ DOMAIN states' = DOMAIN states
      /\ states' \in [DOMAIN states -> DelegationState]
      /\ \A k \in DOMAIN states : /\ states'[k].scope = states[k].scope
                                  /\ states[k].revoked => states'[k].revoked
  BY <1>1 DEF IInv, TypeInv, DelegationState
<1>3. TypeInv'
  BY <1>1, <1>2 DEF IInv, TypeInv
<1>4. RecordsTrue'
  BY <1>1 DEF IInv, RecordsTrue
<1>5. ReceiptsTrue'
  BY <1>1 DEF IInv, ReceiptsTrue
<1>6. StatesTrue'
  BY <1>1, <1>2 DEF IInv, StatesTrue
<1>7. ReportTrue'
  <2>1. Grows
    BY <1>1, <1>2 DEF Grows, IInv, TypeInv
  <2>2. TypeInv
    BY DEF IInv
  <2> QED
    BY <1>1, <1>3, <2>1, <2>2, ViolationKept DEF IInv, ReportTrue
<1> QED
  BY <1>3, <1>4, <1>5, <1>6, <1>7 DEF IInv

\* What a report on everything there is says of a principle.
LEMMA ReportReads ==
  ASSUME NEW agent, NEW rs, NEW st
  PROVE  LET rep == EvaluateCompliance(agent, Fallback, rs, LoadFloor(Floor), st)
         IN /\ rep.agentId = agent
            /\ DOMAIN rep.checks = DOMAIN Floor
            /\ \A i \in DOMAIN Floor :
                 /\ rep.checks[i].principleId = Floor[i].id
                 /\ rep.checks[i].status =
                      Status(Floor[i].id, rs, OwnReceipts(agent, rs), st)
<1> DEFINE L == LoadFloor(Floor)
           own == OwnReceipts(agent, rs)
           checks == [i \in DOMAIN L |-> EvaluatePrinciple(L[i], rs, own, st)]
<1>1. DOMAIN L = DOMAIN Floor /\ \A i \in DOMAIN Floor : L[i].id = Floor[i].id
  <2>1. ASSUME NEW p \in [id : STRING, enforcement : Enforcement], NEW m
        PROVE  [p EXCEPT !.enforcement.mode = m].id = p.id
    OBVIOUS
  <2>2. \A i \in DOMAIN Floor : Floor[i] \in [id : STRING, enforcement : Enforcement]
    <3> DEFINE Principle == [id : STRING, enforcement : Enforcement]
    <3>1. Floor \in Seq(Principle)
      BY AccountabilityAssumption
    <3> HIDE DEF Principle
    <3>2. \A i \in DOMAIN Floor : Floor[i] \in Principle
      BY <3>1
    <3> QED
      BY <3>2 DEF Principle
  <2> QED
    BY <2>1, <2>2 DEF LoadFloor
<1> HIDE DEF L
<1>2. /\ DOMAIN checks = DOMAIN Floor
      /\ \A i \in DOMAIN Floor : /\ checks[i].principleId = Floor[i].id
                                 /\ checks[i].status = Status(Floor[i].id, rs, own, st)
  BY <1>1 DEF EvaluatePrinciple
<1>3. /\ EvaluateCompliance(agent, Fallback, rs, L, st).agentId = agent
      /\ EvaluateCompliance(agent, Fallback, rs, L, st).checks = checks
  BY DEF EvaluateCompliance
<1> HIDE DEF checks
<1> QED
  BY <1>2, <1>3 DEF L

\* A report is made on what there is.
LEMMA EvaluateKeeps ==
  ASSUME IInv, NEW agent \in Agents, Evaluate(agent)
  PROVE  IInv'
<1>1. /\ report' = EvaluateCompliance(agent, Fallback, receipts, LoadFloor(Floor), states)
      /\ UNCHANGED <<records, receipts, states, given, done>>
  BY DEF Evaluate
<1>2. /\ report'.agentId = agent /\ DOMAIN report'.checks = DOMAIN Floor
      /\ \A i \in DOMAIN Floor :
           report'.checks[i].status =
             Status(Floor[i].id, receipts, OwnReceipts(agent, receipts), states)
  BY <1>1, ReportReads
<1>3. ReportTrue'
  BY <1>1, <1>2 DEF ReportTrue
<1>4. TypeInv' /\ ReceiptsTrue' /\ StatesTrue'
  BY <1>1 DEF IInv, TypeInv, ReceiptsTrue, StatesTrue
<1>5. RecordsTrue'
  BY <1>1 DEF IInv, RecordsTrue
<1> QED
  BY <1>3, <1>4, <1>5 DEF IInv

\* Every step keeps the invariant.
LEMMA StepKeeps ==
  IInv /\ [Next]_vars => IInv'
<1> SUFFICES ASSUME IInv, [Next]_vars PROVE IInv'
  OBVIOUS
<1>1. ASSUME UNCHANGED vars PROVE IInv'
  <2>1. UNCHANGED <<records, receipts, states, report, given, done>>
    BY <1>1 DEF vars
  <2>2. TypeInv' /\ ReceiptsTrue' /\ StatesTrue'
    BY <2>1 DEF IInv, TypeInv, ReceiptsTrue, StatesTrue
  <2>3. RecordsTrue'
    BY <2>1 DEF IInv, RecordsTrue
  <2>4. ReportTrue'
    BY <2>1 DEF IInv, ReportTrue
  <2> QED
    BY <2>2, <2>3, <2>4 DEF IInv
<1> QED
  BY <1>1, DelegateKeeps, ActKeeps, RevokeKeeps, EvaluateKeeps DEF Next

\* The invariant holds for any records, receipts, agents and floor.
THEOREM Inductive ==
  Spec => []IInv
<1>1. Init => IInv
  <2> SUFFICES ASSUME Init PROVE IInv
    OBVIOUS
  <2>1. DOMAIN records = {} /\ DOMAIN receipts = {} /\ DOMAIN states = {}
    BY DEF Init
  <2>2. TypeInv
    BY <2>1 DEF Init, TypeInv
  <2>3. RecordsTrue /\ ReceiptsTrue /\ StatesTrue /\ ReportTrue
    BY <2>1 DEF Init, RecordsTrue, ReceiptsTrue, StatesTrue, ReportTrue, Matches
  <2> QED
    BY <2>2, <2>3 DEF IInv
<1> QED
  BY <1>1, StepKeeps, PTL DEF Spec

\* EvaluateCompliance never clears a principle it reported violated.
THEOREM ViolationsStand ==
  Spec => ViolationStands
<1>1. ASSUME IInv, IInv', [Next]_vars, report # None, report.agentId = report'.agentId,
             NEW i \in DOMAIN report.checks, report.checks[i].status = "violation"
      PROVE  report'.checks[i].status = "violation"
  <2>1. CASE report' = report
    BY <1>1, <2>1
  <2>2. CASE report' # report
    <3>1. PICK agent \in Agents : Evaluate(agent)
      BY <1>1, <2>2 DEF Next, vars, Delegate, MakeUpRecord, Act, MakeUpReceipt, Revoke
    <3>2. /\ report' = EvaluateCompliance(agent, Fallback, receipts, LoadFloor(Floor), states)
      BY <3>1 DEF Evaluate
    <3>3. i \in DOMAIN Floor
      BY <1>1 DEF IInv, ReportTrue
    <3>4. /\ report'.agentId = agent
          /\ report'.checks[i].status =
               Status(Floor[i].id, receipts, OwnReceipts(agent, receipts), states)
      BY <3>2, <3>3, ReportReads
    <3> QED
      BY <1>1, <3>3, <3>4 DEF IInv, ReportTrue
  <2> QED
    BY <2>1, <2>2
<1>2. IInv /\ IInv' /\ [Next]_vars =>
        [(report # None /\ report.agentId = report'.agentId) =>
           \A i \in DOMAIN report.checks :
             report.checks[i].status = "violation"
               => report'.checks[i].status = "violation"]_vars
  BY <1>1
<1> QED
  BY <1>2, Inductive, PTL DEF Spec, ViolationStands

-----------------------------------------------------------------------------
\* The places of a list that the record reported for a hop is taken from.
Places(r, recs, i) ==
  LET matches == Matches(recs, r.delegationChain[i], r.delegationChain[i + 1])
      named == {k \in matches : recs[k].delegationId = r.delegationId}
  IN IF i = Len(r.delegationChain) - 1 /\ named # {} THEN named ELSE matches

\* What TraceBeneficiary reports of the chain, and when it says verified.
LEMMA TraceReads ==
  ASSUME NEW r, NEW recs
  PROVE  LET t == TraceBeneficiary(r, recs, Beneficiaries)
         IN /\ t.chain = [i \in Hops(r) |-> Hop(r, recs, i)]
            /\ t.verified <=> /\ Len(r.delegationChain) > 1
                              /\ VerifyReceiptSignature(r, Last(r.delegationChain))
                              /\ \A i \in Hops(r) : HopAuthentic(r, recs, i)
BY DEF TraceBeneficiary

\* A hop that has records is reported with the first of its places.
LEMMA HopReads ==
  ASSUME NEW recs \in Seq(TraceDelegation), NEW r, NEW i,
         Matches(recs, r.delegationChain[i], r.delegationChain[i + 1]) # {}
  PROVE  \E k \in Places(r, recs, i) :
           /\ \A j \in Places(r, recs, i) \ {k} : Ahead(recs, k, j)
           /\ Hop(r, recs, i) =
                [from |-> r.delegationChain[i], to |-> r.delegationChain[i + 1],
                 delegationId |-> IF recs[k].delegationId = EmptyId THEN Unknown
                                  ELSE recs[k].delegationId,
                 scope |-> recs[k].scope, depth |-> i - 1]
<1> DEFINE matches == Matches(recs, r.delegationChain[i], r.delegationChain[i + 1])
           P == Places(r, recs, i)
<1>1. P \in SUBSET DOMAIN recs /\ P # {}
  BY DEF Places, Matches
<1>2. Chosen(r, recs, matches, i) = FirstInOrder(recs, P)
  BY DEF Chosen, Places
<1> HIDE DEF P
<1>3. PICK k \in P : /\ FirstInOrder(recs, P) = recs[k]
                     /\ \A j \in P \ {k} : Ahead(recs, k, j)
  BY <1>1, FirstExists
<1>4. Hop(r, recs, i) =
        [from |-> r.delegationChain[i], to |-> r.delegationChain[i + 1],
         delegationId |-> IF recs[k].delegationId = EmptyId THEN Unknown
                          ELSE recs[k].delegationId,
         scope |-> recs[k].scope, depth |-> i - 1]
  BY <1>2, <1>3 DEF Hop
<1> QED
  BY <1>3, <1>4 DEF P

\* An authentic record is not passed over for one that is not.
LEMMA AuthenticFirst ==
  ASSUME NEW recs, NEW k, NEW j, Ahead(recs, k, j), Authentic(recs[j])
  PROVE  Authentic(recs[k])
BY DEF Ahead, Before, Authentic

\* TraceBeneficiary says verified exactly of the receipts whose signer and
\* delegators really signed, and then shows authentic records.
THEOREM LineageIsVerified ==
  Spec => []VerifiedLineage
<1>1. ASSUME IInv, NEW r \in AllReceipts
      PROVE  LET t == Trace(r)
                 c == r.delegationChain
                 Reports(i, d) ==
                   /\ <<d.delegatedBy, d.delegatedTo>> = <<c[i], c[i + 1]>>
                   /\ t.chain[i].scope = d.scope
                   /\ t.chain[i].delegationId =
                        IF d.delegationId = EmptyId THEN Unknown ELSE d.delegationId
             IN /\ t.verified <=>
                     /\ Len(c) > 1 /\ r.version = "1.1"
                     /\ <<Last(c), r>> \in done
                     /\ \A i \in 1..(Len(c) - 1) : <<c[i], c[i + 1]>> \in given
                /\ t.verified =>
                     \A i \in 1..(Len(c) - 1) : \E d \in AllRecords :
                       /\ Reports(i, d)
                       /\ d.signature # d.delegatedBy =>
                            i = Len(c) - 1 /\ d.delegationId = r.delegationId
  <2> DEFINE t == Trace(r)
             c == r.delegationChain
  <2>1. PICK n \in DOMAIN receipts : r = receipts[n]
    BY <1>1 DEF AllReceipts
  <2>2. r \in ActionReceipt /\ records \in Seq(TraceDelegation)
    BY <1>1, <2>1 DEF IInv, TypeInv
  <2>3. c \in Seq(Keys)
    BY <2>2 DEF ActionReceipt
  <2>4. /\ t.chain = [i \in Hops(r) |-> Hop(r, records, i)]
        /\ t.verified <=> /\ Len(c) > 1 /\ VerifyReceiptSignature(r, Last(c))
                          /\ \A i \in Hops(r) : HopAuthentic(r, records, i)
    BY TraceReads DEF Trace
  <2> HIDE DEF t
  <2>5. Hops(r) = 1..(Len(c) - 1)
    BY DEF Hops
  <2>6. Len(c) > 1 => (VerifyReceiptSignature(r, Last(c))
                         <=> r.version = "1.1" /\ <<Last(c), r>> \in done)
    <3> SUFFICES ASSUME Len(c) > 1
                 PROVE  r.signature = Last(c) <=> <<Last(c), r>> \in done
      BY DEF VerifyReceiptSignature
    <3>1. Last(c) \in Keys
      BY <2>3 DEF Last
    <3> QED
      BY <1>1, <2>1, <3>1 DEF IInv, ReceiptsTrue
  <2>7. ASSUME NEW i \in Hops(r)
        PROVE  /\ c[i] \in Keys /\ c[i + 1] \in Keys
               /\ HopAuthentic(r, records, i) <=> <<c[i], c[i + 1]>> \in given
    <3>1. i \in 1..Len(c) /\ i + 1 \in 1..Len(c)
      BY <2>3, <2>5
    <3>2. c[i] \in Keys /\ c[i + 1] \in Keys
      BY <2>3, <3>1
    <3> QED
      BY <1>1, <3>2 DEF IInv, RecordsTrue, HopAuthentic
  <2>8. t.verified <=>
          /\ Len(c) > 1 /\ r.version = "1.1"
          /\ <<Last(c), r>> \in done
          /\ \A i \in 1..(Len(c) - 1) : <<c[i], c[i + 1]>> \in given
    BY <2>4, <2>5, <2>6, <2>7
  <2>9. ASSUME t.verified, NEW i \in 1..(Len(c) - 1)
        PROVE  \E d \in AllRecords :
                 /\ <<d.delegatedBy, d.delegatedTo>> = <<c[i], c[i + 1]>>
                 /\ t.chain[i].scope = d.scope
                 /\ t.chain[i].delegationId =
                      IF d.delegationId = EmptyId THEN Unknown ELSE d.delegationId
                 /\ d.signature # d.delegatedBy =>
                      i = Len(c) - 1 /\ d.delegationId = r.delegationId
    <3> DEFINE matches == Matches(records, c[i], c[i + 1])
    <3>1. PICK j \in matches : Authentic(records[j])
      BY <2>4, <2>5, <2>9 DEF HopAuthentic
    <3>2. PICK k \in Places(r, records, i) :
            /\ \A l \in Places(r, records, i) \ {k} : Ahead(records, k, l)
            /\ Hop(r, records, i) =
                 [from |-> c[i], to |-> c[i + 1],
                  delegationId |-> IF records[k].delegationId = EmptyId THEN Unknown
                                   ELSE records[k].delegationId,
                  scope |-> records[k].scope, depth |-> i - 1]
      BY <2>2, <3>1, HopReads
    <3>3. k \in matches
      BY <3>2 DEF Places
    <3>4. records[k] \in AllRecords /\ records[k].delegatedBy = c[i]
          /\ records[k].delegatedTo = c[i + 1]
      BY <3>3 DEF Matches, AllRecords
    <3>5. t.chain[i] = Hop(r, records, i)
      BY <2>4, <2>5
    <3>6. t.chain[i].scope = records[k].scope
          /\ t.chain[i].delegationId =
               IF records[k].delegationId = EmptyId THEN Unknown
               ELSE records[k].delegationId
      BY <3>2, <3>5
    <3>7. records[k].signature # records[k].delegatedBy =>
            i = Len(c) - 1 /\ records[k].delegationId = r.delegationId
      <4>1. CASE Places(r, records, i) = matches
        <5>1. Authentic(records[k])
          BY <3>1, <3>2, <4>1, AuthenticFirst
        <5> QED
          BY <5>1 DEF Authentic
      <4>2. CASE Places(r, records, i) # matches
        BY <3>2, <4>2 DEF Places
      <4> QED
        BY <4>1, <4>2
    <3> QED
      BY <3>4, <3>6, <3>7
  <2> QED
    BY <2>8, <2>9 DEF t
<1>2. IInv => VerifiedLineage
  BY <1>1 DEF VerifiedLineage
<1> QED
  BY <1>2, Inductive, PTL

-----------------------------------------------------------------------------
\* Two places that are each ahead of the other, under two orders of the list,
\* hold records with one id and one verdict.
LEMMA SameRank ==
  ASSUME NEW d \in TraceDelegation, NEW e \in TraceDelegation,
         Before(d, e) \/ ~ Before(e, d), Before(e, d) \/ ~ Before(d, e)
  PROVE  d.delegationId = e.delegationId /\ Authentic(d) = Authentic(e)
<1>1. d.delegationId \in Int /\ e.delegationId \in Int
  BY DEF TraceDelegation, Ids
<1>2. Authentic(d) \in BOOLEAN /\ Authentic(e) \in BOOLEAN
  BY DEF Authentic
<1> QED
  BY <1>1, <1>2 DEF Before

\* What is reported of a hop does not depend on the order of the records.
LEMMA HopStable ==
  ASSUME NEW recs \in Seq(TraceDelegation), NEW p \in Bijection(DOMAIN recs, DOMAIN recs),
         \A i, j \in DOMAIN recs :
           (/\ recs[i].delegatedBy = recs[j].delegatedBy
            /\ recs[i].delegatedTo = recs[j].delegatedTo
            /\ recs[i].delegationId = recs[j].delegationId
            /\ Authentic(recs[i]) = Authentic(recs[j])) => recs[i].scope = recs[j].scope,
         NEW r, NEW h
  PROVE  LET q == [i \in DOMAIN recs |-> recs[p[i]]]
         IN /\ Hop(r, q, h) = Hop(r, recs, h)
            /\ HopAuthentic(r, q, h) <=> HopAuthentic(r, recs, h)
<1> DEFINE q == [i \in DOMAIN recs |-> recs[p[i]]]
           from == r.delegationChain[h]
           to == r.delegationChain[h + 1]
<1>1. /\ \A i \in DOMAIN recs : p[i] \in DOMAIN recs
      /\ \A k \in DOMAIN recs : \E i \in DOMAIN recs : p[i] = k
  BY DEF Bijection, Injection, Surjection
<1>2. /\ q \in Seq(TraceDelegation) /\ DOMAIN q = DOMAIN recs
      /\ \A i \in DOMAIN recs : q[i] = recs[p[i]]
  <2>1. DOMAIN recs = 1..Len(recs) /\ Len(recs) \in Nat
    OBVIOUS
  <2>2. \A i \in 1..Len(recs) : recs[p[i]] \in TraceDelegation
    BY <1>1, <2>1
  <2>3. q \in [1..Len(recs) -> TraceDelegation]
    BY <2>1, <2>2
  <2> QED
    BY <2>1, <2>3
<1> HIDE DEF q
<1>3. \A i \in DOMAIN recs : i \in Matches(q, from, to) <=> p[i] \in Matches(recs, from, to)
  BY <1>1, <1>2 DEF Matches
<1>4. Matches(q, from, to) \subseteq DOMAIN recs /\ Matches(recs, from, to) \subseteq DOMAIN recs
  BY <1>2 DEF Matches
<1>5. HopAuthentic(r, q, h) <=> HopAuthentic(r, recs, h)
  <2>1. ASSUME NEW i \in Matches(q, from, to), Authentic(q[i])
        PROVE  p[i] \in Matches(recs, from, to) /\ Authentic(recs[p[i]])
    BY <1>2, <1>3, <1>4, <2>1
  <2>2. ASSUME NEW k \in Matches(recs, from, to), Authentic(recs[k])
        PROVE  \E i \in Matches(q, from, to) : Authentic(q[i])
    <3>1. PICK i \in DOMAIN recs : p[i] = k
      BY <1>1, <1>4
    <3> QED
      BY <1>2, <1>3, <2>2, <3>1
  <2> QED
    BY <2>1, <2>2 DEF HopAuthentic
<1>6. Matches(q, from, to) = {} <=> Matches(recs, from, to) = {}
  BY <1>1, <1>3, <1>4
<1>7. CASE Matches(recs, from, to) = {}
  <2>1. Hop(r, q, h) = Hop(r, recs, h)
    BY <1>6, <1>7 DEF Hop
  <2> QED
    BY <1>5, <2>1 DEF q
<1>8. CASE Matches(recs, from, to) # {}
  <2>1. PICK k \in Places(r, recs, h) :
          /\ \A j \in Places(r, recs, h) \ {k} : Ahead(recs, k, j)
          /\ Hop(r, recs, h) =
               [from |-> from, to |-> to,
                delegationId |-> IF recs[k].delegationId = EmptyId THEN Unknown
                                 ELSE recs[k].delegationId,
                scope |-> recs[k].scope, depth |-> h - 1]
    BY <1>8, HopReads
  <2>2. PICK l \in Places(r, q, h) :
          /\ \A j \in Places(r, q, h) \ {l} : Ahead(q, l, j)
          /\ Hop(r, q, h) =
               [from |-> from, to |-> to,
                delegationId |-> IF q[l].delegationId = EmptyId THEN Unknown
                                 ELSE q[l].delegationId,
                scope |-> q[l].scope, depth |-> h - 1]
    <3>1. Matches(q, r.delegationChain[h], r.delegationChain[h + 1]) # {}
      BY <1>6, <1>8
    <3>2. q \in Seq(TraceDelegation)
      BY <1>2
    <3> QED
      BY <3>1, <3>2, HopReads
  <2>3. /\ Places(r, q, h) \subseteq Matches(q, from, to)
        /\ Places(r, recs, h) \subseteq Matches(recs, from, to)
    BY DEF Places
  <2>4. \A i \in DOMAIN recs : i \in Places(r, q, h) <=> p[i] \in Places(r, recs, h)
    <3> DEFINE M == Matches(recs, from, to)
               N == Matches(q, from, to)
               mNamed == {j \in M : recs[j].delegationId = r.delegationId}
               nNamed == {j \in N : q[j].delegationId = r.delegationId}
    <3>1. \A i \in DOMAIN recs : i \in nNamed <=> p[i] \in mNamed
      BY <1>1, <1>2, <1>3
    <3>2. nNamed = {} <=> mNamed = {}
      <4>1. nNamed \subseteq DOMAIN recs /\ mNamed \subseteq DOMAIN recs
        BY <1>4
      <4> HIDE DEF nNamed, mNamed
      <4> QED
        BY <1>1, <3>1, <4>1
    <3>3. /\ Places(r, recs, h) =
               IF h = Len(r.delegationChain) - 1 /\ mNamed # {} THEN mNamed ELSE M
          /\ Places(r, q, h) =
               IF h = Len(r.delegationChain) - 1 /\ nNamed # {} THEN nNamed ELSE N
      BY DEF Places
    <3> HIDE DEF M, N, mNamed, nNamed
    <3>4. \A i \in DOMAIN recs : i \in N <=> p[i] \in M
      BY <1>3 DEF M, N
    <3> QED
      BY <3>1, <3>2, <3>3, <3>4
  <2>5. l \in DOMAIN recs /\ k \in DOMAIN recs
    BY <1>4, <2>3
  <2>6. PICK m \in DOMAIN recs : p[m] = k
    BY <1>1, <2>5
  <2>7. m \in Places(r, q, h) /\ p[l] \in Places(r, recs, h)
    BY <2>4, <2>5, <2>6
  <2>8. q[m] = recs[k] /\ q[l] = recs[p[l]] /\ p[l] \in DOMAIN recs
    BY <1>1, <1>2, <2>5, <2>6
  <2>9. recs[k].delegationId = q[l].delegationId /\ Authentic(recs[k]) = Authentic(q[l])
    <3>1. CASE k = p[l]
      BY <2>8, <3>1
    <3>2. CASE k # p[l]
      <4>1. Ahead(recs, k, p[l]) /\ Ahead(q, l, m)
        BY <2>1, <2>2, <2>6, <2>7, <3>2
      <4>2. /\ Before(recs[k], q[l]) \/ ~ Before(q[l], recs[k])
            /\ Before(q[l], recs[k]) \/ ~ Before(recs[k], q[l])
        BY <2>8, <4>1 DEF Ahead
      <4>3. recs[k] \in TraceDelegation /\ q[l] \in TraceDelegation
        BY <2>5, <2>8
      <4> QED
        BY <4>2, <4>3, SameRank
    <3> QED
      BY <3>1, <3>2
  <2>10. /\ recs[k].delegatedBy = q[l].delegatedBy
         /\ recs[k].delegatedTo = q[l].delegatedTo
    BY <2>1, <2>2, <2>3 DEF Matches
  <2>11. recs[k].scope = q[l].scope
    BY <2>5, <2>8, <2>9, <2>10
  <2>12. Hop(r, q, h) = Hop(r, recs, h)
    BY <2>1, <2>2, <2>9, <2>11
  <2> QED
    BY <1>5, <2>12 DEF q
<1> QED
  BY <1>7, <1>8

\* TraceBeneficiary reports the same lineage for every order of the records.
THEOREM LineageIsStable ==
  Spec => []LineageStable
<1>1. ASSUME IInv,
             \A d, e \in AllRecords :
               (/\ d.delegatedBy = e.delegatedBy /\ d.delegatedTo = e.delegatedTo
                /\ d.delegationId = e.delegationId /\ Authentic(d) = Authentic(e))
                 => d.scope = e.scope,
             NEW p \in Bijection(DOMAIN records, DOMAIN records), NEW r \in AllReceipts
      PROVE  TraceBeneficiary(r, [i \in DOMAIN records |-> records[p[i]]], Beneficiaries)
               = Trace(r)
  <2> DEFINE q == [i \in DOMAIN records |-> records[p[i]]]
  <2>1. records \in Seq(TraceDelegation)
    BY <1>1 DEF IInv, TypeInv
  <2>2. \A i \in DOMAIN records : records[i] \in AllRecords
    BY DEF AllRecords
  <2>3. \A h : /\ Hop(r, q, h) = Hop(r, records, h)
               /\ HopAuthentic(r, q, h) <=> HopAuthentic(r, records, h)
    BY <1>1, <2>1, <2>2, HopStable
  <2> HIDE DEF q
  <2>4. [i \in Hops(r) |-> Hop(r, q, i)] = [i \in Hops(r) |-> Hop(r, records, i)]
    BY <2>3
  <2>5. (\A i \in Hops(r) : HopAuthentic(r, q, i))
          <=> (\A i \in Hops(r) : HopAuthentic(r, records, i))
    BY <2>3
  <2>6. TraceBeneficiary(r, q, Beneficiaries) = TraceBeneficiary(r, records, Beneficiaries)
    BY <2>4, <2>5 DEF TraceBeneficiary
  <2> QED
    BY <2>6 DEF q, Trace
<1>2. IInv => LineageStable
  BY <1>1 DEF LineageStable
<1> QED
  BY <1>2, Inductive, PTL

\* What a report has of F-003 and what a trace shows at the tail agree.
THEOREM ScopeFactIsTheTraces ==
  Spec => []ScopeFactMatchesTrace
<1>1. ASSUME IInv, NEW r \in AllReceipts, r.delegationId # EmptyId, Trace(r).verified,
             NEW d \in AllRecords,
             {e \in AllRecords : /\ e.signature = e.delegatedBy
                                 /\ e.delegationId = r.delegationId} = {d},
             d.delegatedBy = r.delegationChain[Len(r.delegationChain) - 1],
             d.delegatedTo = r.delegationChain[Len(r.delegationChain)],
             report = EvaluateCompliance(r.agentId, Fallback, receipts,
                                         LoadFloor(Floor), states),
             StatusOf("F-003") = {"enforced"}
      PROVE  \E s \in Last(Trace(r).chain).scope : ScopeCovers(s, r.scopeUsed)
  <2> DEFINE c == r.delegationChain
             h == Len(c) - 1
  <2>1. PICK n \in DOMAIN receipts : r = receipts[n]
    BY <1>1 DEF AllReceipts
  <2>2. r \in ActionReceipt /\ records \in Seq(TraceDelegation)
    BY <1>1, <2>1 DEF IInv, TypeInv
  <2>3. c \in Seq(Keys) /\ Len(c) \in Nat
    BY <2>2 DEF ActionReceipt
  <2>4. Trace(r).chain = [i \in Hops(r) |-> Hop(r, records, i)] /\ Len(c) > 1
    BY <1>1, TraceReads DEF Trace
  <2>5. h \in Nat /\ h >= 1 /\ h + 1 = Len(c) /\ Hops(r) = 1..h
    BY <2>3, <2>4 DEF Hops
  <2>6. Last(Trace(r).chain) = Hop(r, records, h)
    <3>1. Len([i \in 1..h |-> Hop(r, records, i)]) = h
      BY <2>5
    <3> QED
      BY <2>4, <2>5, <3>1 DEF Last
  <2>7. PICK k \in DOMAIN records : d = records[k]
    BY DEF AllRecords
  <2>8. Authentic(records[k]) /\ records[k].delegationId = r.delegationId
    BY <1>1, <2>7 DEF Authentic
  <2>9. k \in Matches(records, c[h], c[h + 1]) /\ k \in Places(r, records, h)
    <3>1. k \in Matches(records, c[h], c[h + 1])
      BY <1>1, <2>5, <2>7 DEF Matches
    <3> QED
      BY <2>8, <3>1 DEF Places
  <2>10. \A j \in Places(r, records, h) :
           j \in DOMAIN records /\ records[j].delegationId = r.delegationId
    BY <2>8, <2>9 DEF Places, Matches
  <2>11. PICK l \in Places(r, records, h) :
           /\ \A j \in Places(r, records, h) \ {l} : Ahead(records, l, j)
           /\ Hop(r, records, h).scope = records[l].scope
    <3> DEFINE Shown(l) ==
          [from |-> c[h], to |-> c[h + 1],
           delegationId |-> IF records[l].delegationId = EmptyId THEN Unknown
                            ELSE records[l].delegationId,
           scope |-> records[l].scope, depth |-> h - 1]
    <3>1. Matches(records, c[h], c[h + 1]) # {}
      BY <2>9
    <3>2. PICK l \in Places(r, records, h) :
            /\ \A j \in Places(r, records, h) \ {l} : Ahead(records, l, j)
            /\ Hop(r, records, h) = Shown(l)
      BY <2>2, <3>1, HopReads
    <3>3. Shown(l).scope = records[l].scope
      OBVIOUS
    <3> QED
      BY <3>2, <3>3
  <2>12. Authentic(records[l])
    BY <2>8, <2>9, <2>11, AuthenticFirst
  <2>13. \A j \in DOMAIN records :
           Authentic(records[j]) /\ records[j].delegationId = r.delegationId
             => records[j] = d
    BY <1>1 DEF Authentic, AllRecords
  <2>14. Hop(r, records, h).scope = d.scope
    BY <2>10, <2>11, <2>12, <2>13
  <2>15. r.delegationId \in DOMAIN states /\ states[r.delegationId].scope = d.scope
    BY <1>1, <2>7, <2>8, <2>13 DEF IInv, StatesTrue
  <2>16. OutOfScope(receipts, OwnReceipts(r.agentId, receipts), states) = {}
    <3>1. /\ DOMAIN report.checks = DOMAIN Floor
          /\ \A i \in DOMAIN Floor :
               /\ report.checks[i].principleId = Floor[i].id
               /\ report.checks[i].status =
                    Status(Floor[i].id, receipts, OwnReceipts(r.agentId, receipts), states)
      BY <1>1, ReportReads
    <3>2. PICK i \in DOMAIN Floor : /\ report.checks[i].principleId = "F-003"
                                    /\ report.checks[i].status = "enforced"
      BY <1>1, <3>1 DEF StatusOf
    <3>3. Status("F-003", receipts, OwnReceipts(r.agentId, receipts), states) = "enforced"
      BY <3>1, <3>2
    <3> QED
      BY <3>3 DEF Status, Judge
  <2>17. n \in OwnReceipts(r.agentId, receipts)
    BY <2>1 DEF OwnReceipts
  <2>18. \E s \in states[r.delegationId].scope : ScopeCovers(s, r.scopeUsed)
    BY <2>1, <2>15, <2>16, <2>17 DEF OutOfScope
  <2> QED
    BY <2>6, <2>14, <2>15, <2>18
<1>2. IInv => ScopeFactMatchesTrace
  BY <1>1 DEF ScopeFactMatchesTrace
<1> QED
  BY <1>2, Inductive, PTL

-----------------------------------------------------------------------------
\* Of finitely many numbers one is the greatest and one is the least.
LEMMA Extremes ==
  ASSUME NEW S, IsFiniteSet(S), S # {}, NEW f, \A x \in S : f[x] \in Int
  PROVE  /\ \E m \in S : \A x \in S : f[x] <= f[m]
         /\ \E m \in S : \A x \in S : f[m] <= f[x]
<1> DEFINE Over(m) == {x \in S : f[m] < f[x]}
           Under(m) == {x \in S : f[x] < f[m]}
<1>1. PICK m \in S : \A n \in S : Over(n) \subseteq Over(m) => Over(n) = Over(m)
  <2> DEFINE T == {Over(n) : n \in S}
  <2>1. T \subseteq SUBSET S /\ T # {}
    OBVIOUS
  <2> HIDE DEF T
  <2>2. PICK t \in T : \A u \in T : u \subseteq t => u = t
    BY <2>1, SmallestSubset
  <2> HIDE DEF Over
  <2>3. \A n \in S : Over(n) \in T
    BY DEF T
  <2>4. PICK m \in S : t = Over(m)
    BY DEF T
  <2> QED
    BY <2>2, <2>3, <2>4
<1>2. \A x \in S : f[x] <= f[m]
  <2> SUFFICES ASSUME NEW x \in S, f[m] < f[x] PROVE FALSE
    OBVIOUS
  <2>1. x \in Over(m) /\ x \notin Over(x) /\ Over(x) \subseteq Over(m)
    OBVIOUS
  <2> QED
    BY <1>1, <2>1
<1>3. PICK l \in S : \A n \in S : Under(n) \subseteq Under(l) => Under(n) = Under(l)
  <2> DEFINE T == {Under(n) : n \in S}
  <2>1. T \subseteq SUBSET S /\ T # {}
    OBVIOUS
  <2> HIDE DEF T
  <2>2. PICK t \in T : \A u \in T : u \subseteq t => u = t
    BY <2>1, SmallestSubset
  <2> HIDE DEF Under
  <2>3. \A n \in S : Under(n) \in T
    BY DEF T
  <2>4. PICK o \in S : t = Under(o)
    BY DEF T
  <2> QED
    BY <2>2, <2>3, <2>4
<1>4. \A x \in S : f[l] <= f[x]
  <2> SUFFICES ASSUME NEW x \in S, f[x] < f[l] PROVE FALSE
    OBVIOUS
  <2>1. x \in Under(l) /\ x \notin Under(x) /\ Under(x) \subseteq Under(l)
    OBVIOUS
  <2> QED
    BY <1>3, <2>1
<1> QED
  BY <1>2, <1>4

\* sort.Strings keeps the values that are in the list, and puts them in order.
LEMMA SortedKeeps ==
  ASSUME NEW l \in Seq(Value)
  PROVE  /\ Sorted(l) \in Seq(Value)
         /\ Len(Sorted(l)) = Len(l)
         /\ Range(Sorted(l)) = Range(l)
         /\ \A i, j \in DOMAIN l : i < j => Sorted(l)[i][1] <= Sorted(l)[j][1]
<1> DEFINE D == DOMAIN l
           f == [j \in D |-> l[j][1]]
           Below(n) == {j \in D : f[j] < n}
           UpTo(n) == {j \in D : f[j] <= n}
           Fits(v, k) == Cardinality(Below(v[1])) < k /\ k <= Cardinality(UpTo(v[1]))
<1>1. D = 1..Len(l) /\ Len(l) \in Nat /\ IsFiniteSet(D) /\ Cardinality(D) = Len(l)
  <2>1. D = 1..Len(l) /\ Len(l) \in Nat
    OBVIOUS
  <2>2. IsFiniteSet(1..Len(l)) /\ Cardinality(1..Len(l)) = Len(l)
    BY <2>1, FS_Interval
  <2> QED
    BY <2>1, <2>2
<1>2. \A j \in D : l[j] \in Value /\ f[j] \in Int
  BY DEF Value
<1>3. \A v, w \in Value : v[1] = w[1] => v = w
  BY DEF Value
<1>4. ASSUME NEW T \in SUBSET D
      PROVE  IsFiniteSet(T) /\ Cardinality(T) \in Nat
  BY <1>1, FS_Subset, FS_CardinalityType
<1>5. \A n : Cardinality(Below(n)) \in Nat /\ Cardinality(UpTo(n)) \in Nat
  <2>1. \A n : Below(n) \in SUBSET D /\ UpTo(n) \in SUBSET D
    OBVIOUS
  <2> QED
    BY <2>1, <1>4
<1>6. ASSUME NEW m \in Int, NEW n \in Int, m < n
      PROVE  Cardinality(UpTo(m)) <= Cardinality(Below(n))
  <2>1. UpTo(m) \in SUBSET Below(n)
    BY <1>2, <1>6
  <2> QED
    BY <2>1, <1>4, FS_Subset
<1>7. ASSUME NEW j \in D
      PROVE  Cardinality(Below(f[j])) < Cardinality(UpTo(f[j]))
  <2>1. Below(f[j]) \in SUBSET UpTo(f[j]) /\ j \in UpTo(f[j]) /\ j \notin Below(f[j])
    BY <1>2
  <2>2. Cardinality(Below(f[j])) <= Cardinality(UpTo(f[j]))
        /\ Cardinality(Below(f[j])) # Cardinality(UpTo(f[j]))
    BY <2>1, <1>4, FS_Subset
  <2>3. Cardinality(Below(f[j])) \in Nat /\ Cardinality(UpTo(f[j])) \in Nat
    BY <1>5
  <2> HIDE DEF Below, UpTo
  <2> QED
    BY <2>2, <2>3
<1> HIDE DEF Below, UpTo
<1>8. ASSUME NEW k \in D
      PROVE  \E v \in Range(l) : Fits(v, k)
  <2> DEFINE W == {j \in D : k <= Cardinality(UpTo(f[j]))}
  <2>1. W # {}
    <3>1. PICK m \in D : \A x \in D : f[x] <= f[m]
      BY <1>1, <1>2, Extremes
    <3>2. UpTo(f[m]) = D
      BY <3>1 DEF UpTo
    <3>3. k <= Cardinality(UpTo(f[m]))
      BY <1>1, <3>2
    <3>4. m \in W
      BY <3>3
    <3> QED
      BY <3>4
  <2>2. W \in SUBSET D
    OBVIOUS
  <2>3. PICK m \in W : \A x \in W : f[m] <= f[x]
    <3>1. IsFiniteSet(W) /\ \A x \in W : f[x] \in Int
      BY <2>2, <1>2, <1>4
    <3> HIDE DEF W
    <3> QED
      BY <2>1, <3>1, Extremes
  <2>4. Cardinality(Below(f[m])) < k
    <3> SUFFICES ASSUME k <= Cardinality(Below(f[m])) PROVE FALSE
      BY <1>1, <1>5
    <3>1. Below(f[m]) # {}
      <4>1. k \in Nat /\ k > 0 /\ Cardinality({}) = 0
        BY <1>1, FS_EmptySet
      <4> SUFFICES ASSUME Below(f[m]) = {} PROVE FALSE
        OBVIOUS
      <4>2. Cardinality(Below(f[m])) = 0
        BY <4>1
      <4> QED
        BY <4>1, <4>2
    <3>2. Below(f[m]) \in SUBSET D
      BY DEF Below
    <3>3. PICK y \in Below(f[m]) : \A x \in Below(f[m]) : f[x] <= f[y]
      BY <1>2, <1>4, <3>1, <3>2, Extremes
    <3>4. y \in D /\ f[y] < f[m] /\ f[y] \in Int /\ f[m] \in Int
      BY <1>2, <3>3, <2>2 DEF Below
    <3>5. UpTo(f[y]) = Below(f[m])
      BY <1>2, <3>3, <3>4 DEF UpTo, Below
    <3>6. y \in W
      BY <3>4, <3>5
    <3> QED
      BY <2>3, <3>4, <3>6
  <2>5. Fits(l[m], k) /\ l[m] \in Range(l)
    BY <2>3, <2>4 DEF Range
  <2> QED
    BY <2>5
<1>9. \A v \in Range(l) : \E j \in D : v = l[j] /\ v[1] = f[j] /\ v \in Value /\ v[1] \in Int
  BY <1>2 DEF Range
<1>10. ASSUME NEW k \in D, NEW v \in Range(l), NEW w \in Range(l), Fits(v, k), Fits(w, k)
       PROVE  v = w
  <2>1. ~ (v[1] < w[1]) /\ ~ (w[1] < v[1])
    <3>1. v[1] \in Int /\ w[1] \in Int /\ k \in Nat
      BY <1>1, <1>9
    <3>2. /\ Cardinality(Below(v[1])) < k /\ k <= Cardinality(UpTo(v[1]))
          /\ Cardinality(Below(w[1])) < k /\ k <= Cardinality(UpTo(w[1]))
      BY <1>10
    <3>3. /\ Cardinality(Below(v[1])) \in Nat /\ Cardinality(UpTo(v[1])) \in Nat
          /\ Cardinality(Below(w[1])) \in Nat /\ Cardinality(UpTo(w[1])) \in Nat
      BY <1>5
    <3>4. v[1] < w[1] => Cardinality(UpTo(v[1])) <= Cardinality(Below(w[1]))
      BY <1>6, <3>1
    <3>5. w[1] < v[1] => Cardinality(UpTo(w[1])) <= Cardinality(Below(v[1]))
      BY <1>6, <3>1
    <3> QED
      BY <3>1, <3>2, <3>3, <3>4, <3>5
  <2> QED
    BY <2>1, <1>3, <1>9
<1> DEFINE Placed(v, k) ==
             /\ Cardinality({j \in DOMAIN l : l[j][1] < v[1]}) < k
             /\ k <= Cardinality({j \in DOMAIN l : l[j][1] <= v[1]})
           s == [k \in D |-> CHOOSE v \in Range(l) : Placed(v, k)]
<1>11. Sorted(l) = s
  BY DEF Sorted
<1>12. \A k \in D : s[k] \in Range(l) /\ Fits(s[k], k)
  <2>1. \A n : /\ Below(n) = {j \in DOMAIN l : l[j][1] < n}
               /\ UpTo(n) = {j \in DOMAIN l : l[j][1] <= n}
    BY DEF Below, UpTo
  <2>2. \A v, k : Placed(v, k) <=> Fits(v, k)
    BY <2>1
  <2> HIDE DEF Placed, Fits
  <2>3. \A k \in D : \E v \in Range(l) : Placed(v, k)
    BY <1>8, <2>2
  <2>4. \A k \in D : s[k] \in Range(l) /\ Placed(s[k], k)
    BY <2>3
  <2> QED
    BY <2>2, <2>4
<1> HIDE DEF Fits, Placed
<1>13. s \in Seq(Value) /\ Len(s) = Len(l) /\ DOMAIN s = D
  <2>1. \A k \in D : s[k] \in Value
    BY <1>9, <1>12
  <2>2. s \in [1..Len(l) -> Value]
    BY <1>1, <2>1
  <2> HIDE DEF s
  <2>3. s \in Seq(Value) /\ Len(s) = Len(l)
    BY <1>1, <2>2
  <2> QED
    BY <1>1, <2>2, <2>3
<1> HIDE DEF s
<1>14. Range(s) = Range(l)
  <2>1. ASSUME NEW v \in Range(l) PROVE v \in Range(s)
    <3>1. PICK j \in D : v[1] = f[j]
      BY <1>9
    <3> DEFINE k == Cardinality(UpTo(f[j]))
    <3>2. k \in D
      <4>1. UpTo(f[j]) \in SUBSET D
        BY DEF UpTo
      <4>2. k <= Len(l)
        BY <1>1, <4>1, FS_Subset
      <4> QED
        BY <1>1, <1>5, <1>7, <4>2
    <3>3. Fits(v, k)
      BY <1>5, <1>7, <3>1 DEF Fits
    <3>4. v = s[k]
      BY <1>10, <1>12, <3>2, <3>3
    <3> QED
      BY <1>13, <3>2, <3>4 DEF Range
  <2>2. ASSUME NEW v \in Range(s) PROVE v \in Range(l)
    BY <1>12, <1>13 DEF Range
  <2> QED
    BY <2>1, <2>2
<1>15. ASSUME NEW i \in D, NEW j \in D, i < j PROVE s[i][1] <= s[j][1]
  <2>1. s[i][1] \in Int /\ s[j][1] \in Int
    BY <1>9, <1>12
  <2>2. Fits(s[i], i) /\ Fits(s[j], j)
    BY <1>12
  <2>3. ~ (s[j][1] < s[i][1])
    <3> DEFINE a == s[i][1]
               b == s[j][1]
    <3>1. Cardinality(UpTo(a)) \in Nat /\ Cardinality(Below(a)) \in Nat
          /\ Cardinality(UpTo(b)) \in Nat
      BY <1>5
    <3>2. Cardinality(Below(a)) < i /\ j <= Cardinality(UpTo(b))
      BY <2>2 DEF Fits
    <3>3. b < a => Cardinality(UpTo(b)) <= Cardinality(Below(a))
      BY <1>6, <2>1
    <3>4. i \in Nat /\ j \in Nat
      BY <1>1
    <3> QED
      BY <1>15, <3>1, <3>2, <3>3, <3>4
  <2> QED
    BY <2>1, <2>3
<1> QED
  BY <1>11, <1>13, <1>14, <1>15

-----------------------------------------------------------------------------
\* A list, whatever its elements.
List(l) == Len(l) \in Nat /\ l = [i \in 1..Len(l) |-> l[i]]

\* A list is a sequence over its own elements.
LEMMA ListIsSeq ==
  ASSUME NEW l, List(l), NEW e
  PROVE  /\ DOMAIN l = 1..Len(l)
         /\ l \in Seq({l[i] : i \in 1..Len(l)} \cup {e})
<1>1. DOMAIN l = 1..Len(l)
  BY DEF List
<1> DEFINE S == {l[i] : i \in 1..Len(l)} \cup {e}
<1>2. \A i \in 1..Len(l) : l[i] \in S
  OBVIOUS
<1>3. Len(l) \in Nat /\ l = [i \in 1..Len(l) |-> l[i]]
  BY DEF List
<1> HIDE DEF S
<1>4. l \in [1..Len(l) -> S]
  BY <1>2, <1>3
<1>5. l \in Seq(S)
  BY <1>3, <1>4
<1> QED
  BY <1>1, <1>5 DEF S

\* What a list is with one more element, or none.
LEMMA ListGrows ==
  ASSUME NEW l, List(l), NEW e
  PROVE  /\ l \o << >> = l
         /\ List(l \o <<e>>)
         /\ Len(l \o <<e>>) = Len(l) + 1
         /\ (l \o <<e>>)[Len(l) + 1] = e
         /\ \A i \in 1..Len(l) : (l \o <<e>>)[i] = l[i]
<1> DEFINE S == {l[i] : i \in 1..Len(l)} \cup {e}
<1>1. l \in Seq(S) /\ Len(l) \in Nat /\ DOMAIN l = 1..Len(l)
  BY ListIsSeq DEF List
<1>2. e \in S
  OBVIOUS
<1> HIDE DEF S
<1>3. l \o << >> = l
  BY <1>1
<1> DEFINE m == l \o <<e>>
<1>4. <<e>> \in Seq(S)
  BY <1>2
<1>5. /\ m \in Seq(S) /\ Len(m) = Len(l) + 1
      /\ m[Len(l) + 1] = e /\ \A i \in 1..Len(l) : m[i] = l[i]
  BY <1>1, <1>4
<1>6. List(m)
  <2> HIDE DEF m
  <2> QED
    BY <1>1, <1>5 DEF List
<1> QED
  BY <1>3, <1>5, <1>6

\* One level up, place by place: where a place goes, and what the level above
\* has there.
LEMMA LevelUp ==
  ASSUME NEW l, List(l), Len(l) > 1
  PROVE  LET up == ReduceLevel(l)
         IN /\ List(up) /\ Len(up) = (Len(l) + 1) \div 2
            /\ Len(up) >= 1
            /\ \A i \in 0..(Len(l) - 1) :
                 /\ Parent(i) \in 0..(Len(up) - 1)
                 /\ i % 2 = 1 => /\ i \in 1..Len(l)
                                 /\ up[Parent(i) + 1] = HashNode(l[i], l[i + 1])
                 /\ (i % 2 # 1 /\ i + 1 < Len(l)) =>
                      /\ i + 2 \in 1..Len(l)
                      /\ up[Parent(i) + 1] = HashNode(l[i + 1], l[i + 2])
                 /\ (i % 2 # 1 /\ ~ (i + 1 < Len(l))) =>
                      up[Parent(i) + 1] = l[i + 1]
<1> DEFINE n == Len(l)
           h == (n + 1) \div 2
           Up(i) == IF 2 * i <= n THEN HashNode(l[2 * i - 1], l[2 * i]) ELSE l[2 * i - 1]
           up == [i \in 1..h |-> Up(i)]
<1>1. ReduceLevel(l) = up
  BY DEF ReduceLevel
<1>2. n \in Nat /\ n > 1
  BY DEF List
<1> HIDE DEF n
<1>3. h \in Nat /\ h >= 1 /\ 2 * h >= n /\ 2 * h <= n + 1
  BY <1>2
<1> HIDE DEF h
<1>4. Len(up) = h /\ List(up)
  <2>1. Len(up) = h
    BY <1>3
  <2> QED
    BY <1>3, <2>1 DEF List
<1>5. ASSUME NEW i \in 0..(n - 1)
      PROVE  /\ Parent(i) \in 0..(h - 1)
             /\ up[Parent(i) + 1] = Up(Parent(i) + 1)
             /\ i % 2 = 1 => i \in 1..n /\ Up(Parent(i) + 1) = HashNode(l[i], l[i + 1])
             /\ (i % 2 # 1 /\ i + 1 < n) =>
                  i + 2 \in 1..n /\ Up(Parent(i) + 1) = HashNode(l[i + 1], l[i + 2])
             /\ (i % 2 # 1 /\ ~ (i + 1 < n)) => Up(Parent(i) + 1) = l[i + 1]
  <2> DEFINE p == Parent(i)
  <2>1. i \in Int /\ 0 <= i /\ i <= n - 1
    BY <1>2
  <2>2. p \in Int /\ 0 <= p /\ (i % 2 = 1 => i = 2 * p + 1) /\ (i % 2 # 1 => i = 2 * p)
    BY <2>1 DEF Parent
  <2> HIDE DEF p
  <2>3. p + 1 \in 1..h /\ p \in 0..(h - 1)
    BY <1>2, <1>3, <2>1, <2>2
  <2>4. up[p + 1] = Up(p + 1)
    BY <2>3
  <2> HIDE DEF up
  <2>5. i % 2 = 1 => i \in 1..n /\ Up(p + 1) = HashNode(l[i], l[i + 1])
    <3> SUFFICES ASSUME i % 2 = 1 PROVE i \in 1..n /\ Up(p + 1) = HashNode(l[i], l[i + 1])
      OBVIOUS
    <3>1. 2 * (p + 1) <= n /\ 2 * (p + 1) - 1 = i /\ 2 * (p + 1) = i + 1 /\ i \in 1..n
      BY <1>2, <2>1, <2>2
    <3> QED
      BY <3>1
  <2>6. (i % 2 # 1 /\ i + 1 < n) =>
          i + 2 \in 1..n /\ Up(p + 1) = HashNode(l[i + 1], l[i + 2])
    <3> SUFFICES ASSUME i % 2 # 1, i + 1 < n
                 PROVE  i + 2 \in 1..n /\ Up(p + 1) = HashNode(l[i + 1], l[i + 2])
      OBVIOUS
    <3>1. 2 * (p + 1) <= n /\ 2 * (p + 1) - 1 = i + 1 /\ 2 * (p + 1) = i + 2
          /\ i + 2 \in 1..n
      BY <1>2, <2>1, <2>2
    <3> QED
      BY <3>1
  <2>7. (i % 2 # 1 /\ ~ (i + 1 < n)) => Up(p + 1) = l[i + 1]
    <3> SUFFICES ASSUME i % 2 # 1, ~ (i + 1 < n) PROVE Up(p + 1) = l[i + 1]
      OBVIOUS
    <3>1. ~ (2 * (p + 1) <= n) /\ 2 * (p + 1) - 1 = i + 1
      BY <1>2, <2>1, <2>2
    <3> QED
      BY <3>1
  <2> QED
    BY <2>3, <2>4, <2>5, <2>6, <2>7 DEF p
<1> HIDE DEF up, Up
<1> QED
  BY <1>1, <1>3, <1>4, <1>5 DEF n, h

-----------------------------------------------------------------------------
\* The prover has started on a tree.
Built == pc \in {"fold", "walk", "accepted", "refused"}

\* The tree that is folded: its leaves, the level at hand, the place of the
\* leaf to prove, the proof so far.
TreeTypes ==
  /\ style \in Styles
  /\ pc = "start" => leaves \in Lists[style] /\ path = << >>
  /\ Built => /\ style \in {"attribution", "bundle"}
              /\ List(leaves) /\ target \in 0..(Len(leaves) - 1)
              /\ List(level) /\ Len(level) >= 1 /\ index \in 0..(Len(level) - 1)
              /\ List(path)
              /\ pc # "fold" => Len(level) = 1

\* Every hash of the tree is of a leaf or of two hashes of the tree.
HashesClosed ==
  Built =>
    /\ \A i \in 1..Len(level) : level[i] \in seen
    /\ \A h \in seen : \/ \E i \in 1..Len(leaves) : h = HashLeaf(leaves[i])
                       \/ \E l, r \in seen : h = HashNode(l, r)

\* L is the levels from the leaves up to the one at hand, h of them.
Levels(L, h) ==
  /\ h \in Nat /\ h >= 1
  /\ L[1] = [i \in 1..Len(leaves) |-> HashLeaf(leaves[i])]
  /\ \A k \in 1..h : List(L[k])
  /\ \A k \in 1..(h - 1) : Len(L[k]) > 1 /\ L[k + 1] = ReduceLevel(L[k])
  /\ L[h] = level

\* The verifier of a bundle is as high as the claimed count says; if what it
\* has is the hash at its place there, the member is at the claimed index.
ClimbsInPlace(L, h) ==
  (style = "bundle" /\ proof.leafCount = Len(leaves)) =>
    LET k == walk.taken + 1
    IN /\ k \in 1..h
       /\ walk.width = Len(L[k]) /\ walk.index \in 0..(walk.width - 1)
       /\ walk.digest = L[k][walk.index + 1]
            => leaves[proof.leafIndex + 1] = proof.member

\* There are such levels, and a walking verifier climbs them.
Tower ==
  Built => \E L, h : Levels(L, h) /\ (pc = "walk" => ClimbsInPlace(L, h))

\* D, I and W are the digest, the index and the width that a verifier of the
\* prover's own proof has before each of its steps and after the last.
Trail(D, I, W) ==
  LET n == Len(path)
      bundle == style = "bundle"
  IN /\ D[1] = HashLeaf(leaves[target + 1])
     /\ D[n + 1] = level[index + 1]
     /\ \A k \in 1..n : D[k + 1] = Combine(path[k], D[k])
     /\ bundle => /\ I[1] = target /\ W[1] = Len(leaves)
                  /\ I[n + 1] = index /\ W[n + 1] = Len(level)
                  /\ \A k \in 1..n :
                       /\ I[k + 1] = Parent(I[k]) /\ W[k + 1] = (W[k] + 1) \div 2
                       /\ W[k] > 1 /\ PositionOk(path[k], I[k], W[k])

\* A verifier of the prover's own proof is where the proof leads.
OnTrail(D, I, W) ==
  proof.honest =>
    LET k == walk.taken + 1
    IN /\ walk.taken \in 0..Len(path)
       /\ walk.digest = D[k]
       /\ style = "bundle" => walk.index = I[k] /\ walk.width = W[k]

\* The proof so far leads from the leaf to its place on the level at hand.
HonestPath ==
  Built => \E D, I, W : Trail(D, I, W) /\ (pc = "walk" => OnTrail(D, I, W))

\* A verifier that has a hash of the tree started from a leaf of it.
WalkSound ==
  pc = "walk" =>
    /\ walk = [digest |-> walk.digest, index |-> walk.index, width |-> walk.width,
               taken |-> walk.taken]
    /\ walk.taken \in Nat
    /\ walk.digest \in seen => \E i \in 1..Len(leaves) : leaves[i] = proof.member

\* What the verifier's verdict is worth.
Verdict ==
  /\ pc = "accepted" => \E i \in 1..Len(leaves) : leaves[i] = proof.member
  /\ pc = "refused" => ~ proof.honest
  /\ PositionBound

\* The inductive invariant.
TreeInv ==
  /\ TreeTypes /\ HashesClosed /\ Tower /\ HonestPath /\ WalkSound /\ Verdict

\* The leaves are sorted and hashed: one level, and a proof with no step yet.
LEMMA StartKeeps ==
  ASSUME TreeInv, NEW t, Start(t)
  PROVE  TreeInv'
<1> DEFINE hashes == [i \in 1..Len(leaves') |-> HashLeaf(leaves'[i])]
<1>1. /\ pc = "start" /\ style # "context" /\ t \in Range(leaves)
      /\ leaves' = Sorted(leaves) /\ index' = target' /\ pc' = "fold"
      /\ UNCHANGED <<style, path, proof, walk>>
  BY DEF Start, Provable
<1>2. style \in {"attribution", "bundle"} /\ leaves \in Seq(Value) /\ path = << >>
  BY <1>1, MerkleAssumption DEF TreeInv, TreeTypes, Styles
<1>3. /\ leaves' \in Seq(Value) /\ Len(leaves') \in Nat
      /\ DOMAIN leaves' = 1..Len(leaves')
      /\ \E i \in 1..Len(leaves') : leaves'[i] = t
  <2>1. /\ Sorted(leaves) \in Seq(Value)
        /\ Range(Sorted(leaves)) = Range(leaves)
    BY <1>2, SortedKeeps
  <2>2. t \in Range(leaves)
    BY <1>1 DEF Range
  <2>3. t \in Range(leaves')
    BY <1>1, <2>1, <2>2
  <2> QED
    BY <1>1, <2>1, <2>3 DEF Range
<1>4. List(leaves')
  BY <1>3 DEF List
<1>5. target' \in 0..(Len(leaves') - 1)
  <2> DEFINE First(i) == leaves'[i] = t /\ \A j \in 1..(i - 1) : leaves'[j] # t
  <2>1. \E i \in DOMAIN leaves' : First(i)
    <3> DEFINE S == {i \in 1..Len(leaves') : leaves'[i] = t}
               f == [i \in S |-> i]
    <3>1. IsFiniteSet(S) /\ S # {}
      <4>1. IsFiniteSet(1..Len(leaves'))
        BY <1>3, FS_Interval
      <4> QED
        BY <1>3, <4>1, FS_Subset
    <3>2. \A x \in S : f[x] \in Int
      BY <1>3
    <3>3. PICK m \in S : \A x \in S : f[m] <= f[x]
      <4> HIDE DEF S, f
      <4> QED
        BY <3>1, <3>2, Extremes
    <3>4. m \in 1..Len(leaves') /\ leaves'[m] = t /\ m \in Int
      BY <1>3
    <3>5. \A j \in 1..(m - 1) : leaves'[j] # t
      <4> SUFFICES ASSUME NEW j \in 1..(m - 1), leaves'[j] = t PROVE FALSE
        OBVIOUS
      <4>1. j \in Int /\ j < m /\ j \in 1..Len(leaves')
        BY <1>3, <3>4
      <4>2. j \in S /\ f[j] = j /\ f[m] = m
        BY <4>1
      <4>3. m <= j
        <5> HIDE DEF S, f
        <5> QED
          BY <3>3, <4>2
      <4> QED
        BY <3>4, <4>1, <4>3
    <3> QED
      BY <1>3, <3>4, <3>5
  <2>2. target' = (CHOOSE i \in DOMAIN leaves' : First(i)) - 1
    BY DEF Start
  <2>3. (CHOOSE i \in DOMAIN leaves' : First(i)) \in DOMAIN leaves'
    <3> HIDE DEF First
    <3> QED
      BY <2>1
  <2> HIDE DEF First
  <2> QED
    BY <1>3, <2>2, <2>3
<1>6. level' = hashes
  BY <1>3 DEF Start
<1>7. Len(level') = Len(leaves') /\ List(level')
      /\ \A i \in 1..Len(leaves') : level'[i] = HashLeaf(leaves'[i])
  <2>1. Len(hashes) = Len(leaves')
    BY <1>3
  <2> QED
    BY <1>3, <1>6, <2>1 DEF List
<1>8. seen' = {level'[i] : i \in 1..Len(level')}
  <2>1. seen' = Range(level')
    BY DEF Start
  <2> QED
    BY <2>1, <1>7 DEF Range, List
<1>9. Len(path') = 0 /\ List(path') /\ path' = << >>
  BY <1>1, <1>2 DEF List
<1>10. TreeTypes'
  <2>1. Len(leaves') >= 1
    BY <1>3
  <2> QED
    BY <1>1, <1>2, <1>4, <1>5, <1>7, <1>9, <2>1 DEF TreeTypes, Styles
<1>11. HashesClosed'
  BY <1>7, <1>8 DEF HashesClosed
<1>12. Tower'
  <2>1. PICK L : L = [k \in 1..1 |-> level']
    OBVIOUS
  <2>2. L[1] = level'
    BY <2>1
  <2>3. Levels(L, 1)'
    BY <1>6, <1>7, <2>2 DEF Levels
  <2> QED
    BY <1>1, <2>3 DEF Tower
<1>13. HonestPath'
  <2>1. PICK D : D = [k \in 1..1 |-> HashLeaf(leaves'[target' + 1])]
    OBVIOUS
  <2>5. PICK I : I = [k \in 1..1 |-> target']
    OBVIOUS
  <2>6. PICK W : W = [k \in 1..1 |-> Len(leaves')]
    OBVIOUS
  <2>2. level'[index' + 1] = HashLeaf(leaves'[target' + 1])
    <3>1. target' + 1 \in 1..Len(leaves')
      <4>1. \A n \in Nat : \A x \in 0..(n - 1) : x + 1 \in 1..n
        OBVIOUS
      <4>2. Len(leaves') \in Nat
        BY <1>3
      <4> QED
        BY <1>5, <4>1, <4>2
    <3> QED
      BY <1>1, <1>7, <3>1
  <2>4. /\ D[1] = HashLeaf(leaves'[target' + 1])
        /\ I[1] = target' /\ W[1] = Len(leaves')
    BY <2>1, <2>5, <2>6
  <2>3. Trail(D, I, W)'
    BY <1>1, <1>7, <1>9, <2>4, <2>2 DEF Trail
  <2> QED
    BY <1>1, <2>3 DEF HonestPath
<1>14. WalkSound' /\ Verdict'
  BY <1>1 DEF WalkSound, Verdict, PositionBound
<1> QED
  BY <1>10, <1>11, <1>12, <1>13, <1>14 DEF TreeInv

\* The step a proof takes is what the verifier needs to get from a place of a
\* level to its parent.
LEMMA StepLeadsUp ==
  ASSUME NEW l, List(l), Len(l) > 1, NEW i \in 0..(Len(l) - 1)
  PROVE  LET s == ProofStep(l, i)
             up == ReduceLevel(l)[Parent(i) + 1]
         IN \/ s = << >> /\ style # "bundle" /\ up = l[i + 1]
            \/ \E e : /\ s = <<e>> /\ up = Combine(e, l[i + 1])
                      /\ PositionOk(e, i, Len(l))
<1>1. CASE i % 2 = 1
  BY <1>1, LevelUp DEF ProofStep, Combine, PositionOk
<1>2. CASE i % 2 # 1 /\ i + 1 < Len(l)
  BY <1>2, LevelUp DEF ProofStep, Combine, PositionOk
<1>3. CASE i % 2 # 1 /\ ~ (i + 1 < Len(l))
  BY <1>3, LevelUp DEF ProofStep, Combine, PositionOk
<1> QED
  BY <1>1, <1>2, <1>3

\* GenerateMerkleProof and BuildEvidenceBundleProofV2 go one level up.
LEMMA FoldKeeps ==
  ASSUME TreeInv, FoldLevel
  PROVE  TreeInv'
<1>1. /\ pc = "fold" /\ Len(level) > 1
      /\ path' = path \o ProofStep(level, index)
      /\ level' = ReduceLevel(level) /\ index' = Parent(index)
      /\ seen' = seen \cup Range(level')
      /\ UNCHANGED <<style, leaves, target, pc, proof, walk>>
  BY DEF FoldLevel
<1>2. /\ style \in {"attribution", "bundle"}
      /\ List(leaves) /\ target \in 0..(Len(leaves) - 1)
      /\ List(level) /\ index \in 0..(Len(level) - 1) /\ List(path)
  BY <1>1 DEF TreeInv, TreeTypes, Built
<1>3. /\ List(level') /\ Len(level') = (Len(level) + 1) \div 2 /\ Len(level') >= 1
      /\ index' \in 0..(Len(level') - 1)
  BY <1>1, <1>2, LevelUp
<1> DEFINE s == ProofStep(level, index)
<1>4. \/ s = << >> /\ style # "bundle" /\ level'[index' + 1] = level[index + 1]
      \/ \E e : /\ s = <<e>> /\ level'[index' + 1] = Combine(e, level[index + 1])
                /\ PositionOk(e, index, Len(level))
  BY <1>1, <1>2, StepLeadsUp
<1> HIDE DEF s
<1>5. List(path')
  BY <1>1, <1>2, <1>4, ListGrows DEF s
<1>6. TreeTypes'
  BY <1>1, <1>2, <1>3, <1>5 DEF TreeTypes, Built, Styles
<1>7. HashesClosed'
  <2>1. seen' = seen \cup {level'[i] : i \in 1..Len(level')}
    BY <1>1, <1>3 DEF Range, List
  <2>2. ASSUME NEW j \in 1..Len(level')
        PROVE  level'[j] \in seen \/ \E l, r \in seen : level'[j] = HashNode(l, r)
    <3>1. j \in Int /\ 1 <= j /\ j <= (Len(level) + 1) \div 2 /\ Len(level) \in Nat
      BY <1>2, <1>3 DEF List
    <3>2. 2 * j - 1 \in 1..Len(level) /\ (2 * j <= Len(level) => 2 * j \in 1..Len(level))
      BY <3>1
    <3>3. \A i \in 1..Len(level) : level[i] \in seen
      BY <1>1 DEF TreeInv, HashesClosed, Built
    <3>4. level'[j] = IF 2 * j <= Len(level) THEN HashNode(level[2 * j - 1], level[2 * j])
                      ELSE level[2 * j - 1]
      BY <1>1, <1>3 DEF ReduceLevel
    <3> QED
      BY <3>2, <3>3, <3>4
  <2>3. \A h \in seen : \/ \E i \in 1..Len(leaves) : h = HashLeaf(leaves[i])
                        \/ \E l, r \in seen : h = HashNode(l, r)
    BY <1>1 DEF TreeInv, HashesClosed, Built
  <2>4. ASSUME NEW h \in seen'
        PROVE  \/ \E i \in 1..Len(leaves) : h = HashLeaf(leaves[i])
               \/ \E l, r \in seen : h = HashNode(l, r)
    BY <2>1, <2>2, <2>3
  <2> QED
    <3>1. \A i \in 1..Len(level') : level'[i] \in seen'
      BY <2>1
    <3>2. seen \subseteq seen'
      BY <2>1
    <3> QED
      BY <1>1, <2>4, <3>1, <3>2 DEF HashesClosed
<1>8. Tower'
  <2>1. PICK L, h : Levels(L, h)
    BY <1>1 DEF TreeInv, Tower, Built
  <2>2. PICK K : K = [k \in 1..(h + 1) |-> IF k <= h THEN L[k] ELSE level']
    OBVIOUS
  <2>3. h \in Nat /\ h >= 1
    BY <2>1 DEF Levels
  <2>4. K[h + 1] = level' /\ \A k \in 1..h : K[k] = L[k]
    BY <2>2, <2>3
  <2>5. \A k \in 1..h : Len(K[k]) > 1 /\ K[k + 1] = ReduceLevel(K[k])
    <3> SUFFICES ASSUME NEW k \in 1..h PROVE Len(K[k]) > 1 /\ K[k + 1] = ReduceLevel(K[k])
      OBVIOUS
    <3>1. CASE k = h
      BY <1>1, <2>1, <2>3, <2>4, <3>1 DEF Levels
    <3>2. CASE k # h
      <4>1. k \in 1..(h - 1) /\ k + 1 \in 1..h
        BY <2>3, <3>2
      <4> QED
        BY <2>1, <2>4, <4>1 DEF Levels
    <3> QED
      BY <3>1, <3>2
  <2>6. \A k \in 1..(h + 1) : List(K[k])
    <3>1. \A k \in 1..(h + 1) : k \in 1..h \/ k = h + 1
      BY <2>3
    <3> QED
      BY <1>3, <2>1, <2>4, <3>1 DEF Levels
  <2>7. K[1] = [i \in 1..Len(leaves) |-> HashLeaf(leaves[i])]
    BY <2>1, <2>3, <2>4 DEF Levels
  <2>8. Levels(K, h + 1)'
    <3>1. (h + 1) - 1 = h /\ h + 1 \in Nat /\ h + 1 >= 1
      BY <2>3
    <3> QED
      BY <1>1, <2>4, <2>5, <2>6, <2>7, <3>1 DEF Levels
  <2> QED
    BY <1>1, <2>8 DEF Tower
<1>9. HonestPath'
  <2>1. PICK D, I, W : Trail(D, I, W)
    BY <1>1 DEF TreeInv, HonestPath, Built
  <2>2. CASE s = << >> /\ style # "bundle" /\ level'[index' + 1] = level[index + 1]
    <3>1. path' = path
      BY <1>1, <1>2, <2>2, ListGrows DEF s
    <3>2. Trail(D, I, W)'
      BY <1>1, <2>1, <2>2, <3>1 DEF Trail
    <3> QED
      BY <1>1, <3>2 DEF HonestPath
  <2>3. CASE \E e : /\ s = <<e>> /\ level'[index' + 1] = Combine(e, level[index + 1])
                    /\ PositionOk(e, index, Len(level))
    <3>1. PICK e : /\ s = <<e>> /\ level'[index' + 1] = Combine(e, level[index + 1])
                   /\ PositionOk(e, index, Len(level))
      BY <2>3
    <3> DEFINE n == Len(path)
    <3>2. /\ Len(path') = n + 1 /\ path'[n + 1] = e /\ n \in Nat
          /\ \A k \in 1..n : path'[k] = path[k]
      BY <1>1, <1>2, <3>1, ListGrows DEF s, List
    <3>3. PICK E : E = [k \in 1..(n + 2) |-> IF k <= n + 1 THEN D[k] ELSE level'[index' + 1]]
      OBVIOUS
    <3>4. PICK J : J = [k \in 1..(n + 2) |-> IF k <= n + 1 THEN I[k] ELSE index']
      OBVIOUS
    <3>5. PICK V : V = [k \in 1..(n + 2) |-> IF k <= n + 1 THEN W[k] ELSE Len(level')]
      OBVIOUS
    <3> HIDE DEF n
    <3>6. /\ E[n + 2] = level'[index' + 1] /\ J[n + 2] = index' /\ V[n + 2] = Len(level')
          /\ \A k \in 1..(n + 1) : E[k] = D[k] /\ J[k] = I[k] /\ V[k] = W[k]
      BY <3>2, <3>3, <3>4, <3>5
    <3>7. /\ D[1] = HashLeaf(leaves[target + 1]) /\ D[n + 1] = level[index + 1]
          /\ \A k \in 1..n : D[k + 1] = Combine(path[k], D[k])
          /\ style = "bundle" =>
               /\ I[1] = target /\ W[1] = Len(leaves)
               /\ I[n + 1] = index /\ W[n + 1] = Len(level)
               /\ \A k \in 1..n :
                    /\ I[k + 1] = Parent(I[k]) /\ W[k + 1] = (W[k] + 1) \div 2
                    /\ W[k] > 1 /\ PositionOk(path[k], I[k], W[k])
      BY <2>1 DEF Trail, n
    <3>8. 1 \in 1..(n + 1) /\ (n + 1) + 1 = n + 2
          /\ \A k \in 1..(n + 1) : (k \in 1..n /\ k + 1 \in 1..(n + 1)) \/ k = n + 1
      BY <3>2
    <3>9. E[1] = HashLeaf(leaves[target + 1])
          /\ \A k \in 1..(n + 1) : E[k + 1] = Combine(path'[k], E[k])
      <4> SUFFICES ASSUME NEW k \in 1..(n + 1) PROVE E[k + 1] = Combine(path'[k], E[k])
        BY <3>6, <3>7, <3>8
      <4>1. CASE k = n + 1
        BY <3>1, <3>2, <3>6, <3>7, <3>8, <4>1
      <4>2. CASE k \in 1..n /\ k + 1 \in 1..(n + 1)
        BY <3>2, <3>6, <3>7, <4>2
      <4> QED
        BY <3>8, <4>1, <4>2
    <3>10. ASSUME style = "bundle"
           PROVE  /\ J[1] = target /\ V[1] = Len(leaves)
                  /\ \A k \in 1..(n + 1) :
                       /\ J[k + 1] = Parent(J[k]) /\ V[k + 1] = (V[k] + 1) \div 2
                       /\ V[k] > 1 /\ PositionOk(path'[k], J[k], V[k])
      <4> SUFFICES ASSUME NEW k \in 1..(n + 1)
                   PROVE  /\ J[k + 1] = Parent(J[k]) /\ V[k + 1] = (V[k] + 1) \div 2
                          /\ V[k] > 1 /\ PositionOk(path'[k], J[k], V[k])
        BY <3>6, <3>7, <3>8, <3>10
      <4>1. CASE k = n + 1
        <5>1. J[n + 1] = index /\ V[n + 1] = Len(level)
          <6>1. n + 1 \in 1..(n + 1)
            BY <3>2
          <6>2. J[n + 1] = I[n + 1] /\ V[n + 1] = W[n + 1]
            BY <3>6, <6>1
          <6> QED
            BY <3>7, <3>10, <6>2
        <5>2. J[k + 1] = index' /\ V[k + 1] = Len(level') /\ path'[k] = e
          BY <3>2, <3>6, <3>8, <4>1
        <5> QED
          BY <1>1, <1>3, <3>1, <4>1, <5>1, <5>2
      <4>2. CASE k \in 1..n /\ k + 1 \in 1..(n + 1)
        BY <3>2, <3>6, <3>7, <3>10, <4>2
      <4> QED
        BY <3>8, <4>1, <4>2
    <3>11. Trail(E, J, V)'
      BY <1>1, <3>2, <3>6, <3>8, <3>9, <3>10 DEF Trail
    <3> QED
      BY <1>1, <3>11 DEF HonestPath
  <2> QED
    BY <1>4, <2>2, <2>3
<1>10. WalkSound' /\ Verdict'
  BY <1>1 DEF WalkSound, Verdict, PositionBound
<1> QED
  BY <1>6, <1>7, <1>8, <1>9, <1>10 DEF TreeInv

\* The tree does not change while the verifier walks.
LEMMA TreeStands ==
  ASSUME TreeInv, Built, Built', pc' # "fold", Len(level) = 1, List(path'), path' = path,
         UNCHANGED <<style, leaves, target, level, index, seen>>
  PROVE  /\ TreeTypes' /\ HashesClosed'
         /\ \A L, h : Levels(L, h) => Levels(L, h)'
         /\ \A D, I, W : Trail(D, I, W) => Trail(D, I, W)'
<1>1. TreeTypes'
  BY DEF TreeInv, TreeTypes, Built
<1>2. HashesClosed'
  BY DEF TreeInv, HashesClosed
<1>3. \A L, h : Levels(L, h) => Levels(L, h)'
  BY DEF Levels
<1>4. \A D, I, W : Trail(D, I, W) => Trail(D, I, W)'
  BY DEF Trail
<1> QED
  BY <1>1, <1>2, <1>3, <1>4

\* A verifier takes a proof: a verifier of a bundle refuses an index that is
\* not below the count.
LEMMA VerifyKeeps ==
  ASSUME TreeInv, NEW honest \in BOOLEAN, NEW member, NEW i \in Nat, NEW n \in Nat,
         Verify(honest, member, i, n),
         honest => member = leaves[target + 1] /\ i = target /\ n = Len(leaves)
  PROVE  TreeInv'
<1>1. /\ pc = "fold" /\ Len(level) = 1
      /\ proof' = [honest |-> honest, member |-> member, leafIndex |-> i, leafCount |-> n]
      /\ IF style = "bundle" /\ ~ (i >= 0 /\ i < n)
         THEN pc' = "refused" /\ UNCHANGED walk
         ELSE /\ pc' = "walk"
              /\ walk' = [digest |-> HashLeaf(member), index |-> i, width |-> n, taken |-> 0]
      /\ UNCHANGED <<style, leaves, target, level, index, path, seen>>
  BY DEF Verify
<1>2. Built /\ Built' /\ pc' # "fold"
  BY <1>1 DEF Built
<1>3. /\ List(leaves) /\ target \in 0..(Len(leaves) - 1) /\ List(path)
      /\ Len(leaves) \in Nat /\ Len(path) \in Nat
  BY <1>2 DEF TreeInv, TreeTypes, List
<1>4. /\ TreeTypes' /\ HashesClosed'
      /\ \A L, h : Levels(L, h) => Levels(L, h)'
      /\ \A D, I, W : Trail(D, I, W) => Trail(D, I, W)'
  BY <1>1, <1>2, <1>3, TreeStands
<1>5. proof'.honest = honest /\ proof'.member = member /\ proof'.leafIndex = i
      /\ proof'.leafCount = n
  BY <1>1
<1>6. pc' = "walk" =>
        /\ walk'.digest = HashLeaf(member) /\ walk'.index = i /\ walk'.width = n
        /\ walk'.taken = 0
        /\ walk' = [digest |-> walk'.digest, index |-> walk'.index,
                    width |-> walk'.width, taken |-> walk'.taken]
        /\ walk'.taken \in Nat
        /\ style = "bundle" => i < n
  BY <1>1
<1>7. Tower'
  <2>1. PICK L, h : Levels(L, h)
    BY <1>2 DEF TreeInv, Tower
  <2>2. pc' = "walk" => ClimbsInPlace(L, h)'
    <3> SUFFICES ASSUME pc' = "walk", style = "bundle", n = Len(leaves)
                 PROVE  /\ 1 \in 1..h /\ n = Len(L[1]) /\ i \in 0..(n - 1)
                        /\ HashLeaf(member) = L[1][i + 1] => leaves[i + 1] = member
      <4>1. pc' = "walk" => walk'.taken + 1 = 1
        BY <1>6
      <4> QED
        BY <1>1, <1>5, <1>6, <4>1 DEF ClimbsInPlace
    <3>1. h \in Nat /\ h >= 1 /\ L[1] = [k \in 1..n |-> HashLeaf(leaves[k])]
      BY <2>1 DEF Levels
    <3>2. Len(L[1]) = n /\ i \in 0..(n - 1) /\ i + 1 \in 1..n
      BY <1>6, <3>1
    <3>3. L[1][i + 1] = HashLeaf(leaves[i + 1])
      BY <3>1, <3>2
    <3> QED
      BY <3>1, <3>2, <3>3 DEF HashLeaf
  <2> QED
    BY <1>4, <2>1, <2>2 DEF Tower
<1>8. HonestPath'
  <2>1. PICK D, I, W : Trail(D, I, W)
    BY <1>2 DEF TreeInv, HonestPath
  <2>2. pc' = "walk" => OnTrail(D, I, W)'
    <3> SUFFICES ASSUME pc' = "walk", honest
                 PROVE  /\ 0 \in 0..Len(path)
                        /\ HashLeaf(member) = D[1]
                        /\ style = "bundle" => i = I[1] /\ n = W[1]
      <4>1. pc' = "walk" => walk'.taken + 1 = 1
        BY <1>6
      <4> QED
        BY <1>1, <1>5, <1>6, <4>1 DEF OnTrail
    <3> QED
      BY <1>3, <2>1 DEF Trail
  <2> QED
    BY <1>4, <2>1, <2>2 DEF HonestPath
<1>9. WalkSound'
  <2> SUFFICES ASSUME pc' = "walk", HashLeaf(member) \in seen
               PROVE  \E k \in 1..Len(leaves) : leaves[k] = member
    BY <1>1, <1>5, <1>6 DEF WalkSound
  <2>1. \A l, r : HashLeaf(member) # HashNode(l, r)
    BY DEF HashLeaf, HashNode
  <2>2. PICK k \in 1..Len(leaves) : HashLeaf(member) = HashLeaf(leaves[k])
    BY <1>2, <2>1 DEF TreeInv, HashesClosed
  <2> QED
    BY <2>2 DEF HashLeaf
<1>10. Verdict'
  <2>1. pc' = "refused" => ~ honest
    BY <1>1, <1>3
  <2> QED
    BY <1>1, <1>5, <2>1 DEF Verdict, PositionBound
<1> QED
  BY <1>4, <1>7, <1>8, <1>9, <1>10 DEF TreeInv

\* A hash made on the way is of the tree only if what it was made from is.
LEMMA CombineIsClosed ==
  ASSUME TreeInv, Built, NEW s, NEW d, Combine(s, d) \in seen
  PROVE  d \in seen
<1>1. \A l, r, x : HashNode(l, r) # HashLeaf(x)
  BY DEF HashNode, HashLeaf
<1>2. \A l, r : HashNode(l, r) \in seen => l \in seen /\ r \in seen
  <2> SUFFICES ASSUME NEW l, NEW r, HashNode(l, r) \in seen
               PROVE  l \in seen /\ r \in seen
    OBVIOUS
  <2>1. PICK x, y \in seen : HashNode(l, r) = HashNode(x, y)
    BY <1>1 DEF TreeInv, HashesClosed
  <2> QED
    BY <2>1 DEF HashNode
<1> QED
  BY <1>2 DEF Combine

\* The step of a bundle's verifier, if it leads to the hash at the parent of its
\* place, was from the hash at its place.
LEMMA StepCameFrom ==
  ASSUME NEW l, List(l), Len(l) > 1, NEW i \in 0..(Len(l) - 1), NEW s, NEW d,
         PositionOk(s, i, Len(l)),
         Combine(s, d) = ReduceLevel(l)[Parent(i) + 1]
  PROVE  d = l[i + 1]
<1>1. CASE i % 2 = 1
  BY <1>1, LevelUp DEF PositionOk, Combine, HashNode
<1>2. CASE i % 2 # 1 /\ i + 1 < Len(l)
  BY <1>2, LevelUp DEF PositionOk, Combine, HashNode
<1>3. CASE i % 2 # 1 /\ ~ (i + 1 < Len(l))
  BY <1>3, LevelUp DEF PositionOk, Combine
<1> QED
  BY <1>1, <1>2, <1>3

\* One step of VerifyMerkleProofAgainstRoot or verifyEvidenceBundleProofV2.
LEMMA WalkKeeps ==
  ASSUME TreeInv, pc = "walk", NEW s \in NextSteps,
         AttributionStep(s) \/ BundleStep(s)
  PROVE  TreeInv'
<1>1. /\ UNCHANGED <<style, leaves, target, level, index, path, seen, pc, proof>>
  BY DEF AttributionStep, BundleStep
<1>2. Built /\ Built' /\ pc' = "walk" /\ Len(level) = 1 /\ List(path)
      /\ List(level) /\ Len(path) \in Nat
  BY <1>1 DEF TreeInv, TreeTypes, Built, List
<1>3. /\ TreeTypes' /\ HashesClosed'
      /\ \A L, h : Levels(L, h) => Levels(L, h)'
      /\ \A D, I, W : Trail(D, I, W) => Trail(D, I, W)'
  BY <1>1, <1>2, TreeStands
<1>4. /\ walk' = [digest |-> walk'.digest, index |-> walk'.index,
                  width |-> walk'.width, taken |-> walk'.taken]
      /\ walk.taken \in Nat /\ walk'.taken \in Nat
      /\ walk'.digest = Combine(s, walk.digest) /\ walk'.taken = walk.taken + 1
      /\ style = "bundle" =>
           /\ walk'.index = Parent(walk.index) /\ walk'.width = (walk.width + 1) \div 2
           /\ walk.width > 1 /\ PositionOk(s, walk.index, walk.width)
  <2>3. walk.taken \in Nat
    BY DEF TreeInv, WalkSound
  <2>1. CASE AttributionStep(s)
    <3>1. walk = [digest |-> walk.digest, index |-> walk.index, width |-> walk.width,
                  taken |-> walk.taken]
      BY DEF TreeInv, WalkSound
    <3>2. walk' = [walk EXCEPT !.digest = Combine(s, @), !.taken = @ + 1]
          /\ style = "attribution"
      BY <2>1 DEF AttributionStep
    <3>3. walk' = [digest |-> Combine(s, walk.digest), index |-> walk.index,
                   width |-> walk.width, taken |-> walk.taken + 1]
      BY <3>1, <3>2
    <3>4. /\ walk'.digest = Combine(s, walk.digest) /\ walk'.index = walk.index
          /\ walk'.width = walk.width /\ walk'.taken = walk.taken + 1
      BY <3>3
    <3>5. walk' = [digest |-> walk'.digest, index |-> walk'.index,
                   width |-> walk'.width, taken |-> walk'.taken]
      BY <3>3, <3>4
    <3>6. walk'.taken \in Nat
      BY <2>3, <3>4
    <3> QED
      BY <2>3, <3>2, <3>4, <3>5, <3>6
  <2>2. CASE BundleStep(s)
    BY <2>2, <2>3 DEF BundleStep
  <2> QED
    BY <2>1, <2>2
<1>5. Tower'
  <2>1. PICK L, h : Levels(L, h) /\ ClimbsInPlace(L, h)
    BY <1>2 DEF TreeInv, Tower
  <2>2. ClimbsInPlace(L, h)'
    <3> SUFFICES ASSUME style = "bundle", proof.leafCount = Len(leaves)
                 PROVE  LET k == walk.taken + 2
                        IN /\ k \in 1..h
                           /\ walk'.width = Len(L[k]) /\ walk'.index \in 0..(walk'.width - 1)
                           /\ walk'.digest = L[k][walk'.index + 1]
                                => leaves[proof.leafIndex + 1] = proof.member
      <4>1. walk'.taken + 1 = walk.taken + 2
        BY <1>4
      <4> QED
        BY <1>1, <4>1 DEF ClimbsInPlace
    <3> DEFINE k == walk.taken + 1
               i == walk.index
    <3>1. /\ k \in 1..h /\ walk.width = Len(L[k]) /\ i \in 0..(Len(L[k]) - 1)
          /\ walk.digest = L[k][i + 1] => leaves[proof.leafIndex + 1] = proof.member
      BY <2>1 DEF ClimbsInPlace
    <3>2. Len(L[k]) > 1 /\ List(L[k]) /\ h \in Nat /\ L[h] = level
      BY <1>4, <2>1, <3>1 DEF Levels
    <3> HIDE DEF k, i
    <3>3. k # h
      <4> SUFFICES ASSUME k = h PROVE FALSE
        OBVIOUS
      <4>1. L[k] = level
        BY <3>2
      <4>2. Len(L[k]) = 1
        BY <1>2, <4>1
      <4>3. Len(L[k]) > 1
        BY <3>2
      <4>4. ~ (1 > 1)
        OBVIOUS
      <4>5. 1 > 1
        BY <4>2, <4>3
      <4> QED
        BY <4>4, <4>5
    <3>4. k \in 1..(h - 1) /\ walk.taken + 2 \in 1..h /\ k + 1 = walk.taken + 2
      BY <1>4, <3>1, <3>2, <3>3 DEF k
    <3>5. L[walk.taken + 2] = ReduceLevel(L[k])
      BY <2>1, <3>4 DEF Levels
    <3>6. /\ Len(ReduceLevel(L[k])) = (Len(L[k]) + 1) \div 2
          /\ Parent(i) \in 0..(Len(ReduceLevel(L[k])) - 1)
      BY <3>1, <3>2, LevelUp
    <3>7. PositionOk(s, i, Len(L[k])) /\ walk'.index = Parent(i)
          /\ walk'.width = (Len(L[k]) + 1) \div 2
      BY <1>4, <3>1 DEF i
    <3>8. walk'.digest = ReduceLevel(L[k])[Parent(i) + 1] => walk.digest = L[k][i + 1]
      BY <1>4, <3>1, <3>2, <3>7, StepCameFrom
    <3> QED
      BY <3>1, <3>4, <3>5, <3>6, <3>7, <3>8
  <2> QED
    BY <1>2, <1>3, <2>1, <2>2 DEF Tower
<1>6. HonestPath'
  <2>1. PICK D, I, W : Trail(D, I, W) /\ OnTrail(D, I, W)
    BY <1>2 DEF TreeInv, HonestPath
  <2>2. OnTrail(D, I, W)'
    <3> SUFFICES ASSUME proof.honest
                 PROVE  LET k == walk.taken + 2
                        IN /\ walk.taken + 1 \in 0..Len(path)
                           /\ walk'.digest = D[k]
                           /\ style = "bundle" => walk'.index = I[k] /\ walk'.width = W[k]
      <4>1. walk'.taken + 1 = walk.taken + 2 /\ walk'.taken = walk.taken + 1
        BY <1>4
      <4> QED
        BY <1>1, <4>1 DEF OnTrail
    <3> DEFINE k == walk.taken + 1
    <3>1. k \in 1..Len(path) /\ s = path[k]
      BY <1>2, ListIsSeq DEF NextSteps
    <3>2. /\ walk.digest = D[k]
          /\ style = "bundle" => walk.index = I[k] /\ walk.width = W[k]
      BY <2>1 DEF OnTrail
    <3>3. k + 1 = walk.taken + 2 /\ k \in 0..Len(path)
      BY <1>2, <1>4, <3>1
    <3> HIDE DEF k
    <3>4. /\ D[k + 1] = Combine(s, D[k])
          /\ style = "bundle" => I[k + 1] = Parent(I[k]) /\ W[k + 1] = (W[k] + 1) \div 2
      BY <2>1, <3>1 DEF Trail
    <3>5. walk'.digest = D[k + 1]
      BY <1>4, <3>2, <3>4
    <3>6. style = "bundle" => walk'.index = I[k + 1] /\ walk'.width = W[k + 1]
      BY <1>4, <3>2, <3>4
    <3>7. walk.taken + 1 \in 0..Len(path)
      BY <3>3 DEF k
    <3> QED
      BY <3>3, <3>5, <3>6, <3>7
  <2> QED
    BY <1>2, <1>3, <2>1, <2>2 DEF HonestPath
<1>7. WalkSound'
  <2>1. walk'.digest \in seen => walk.digest \in seen
    BY <1>2, <1>4, CombineIsClosed
  <2> QED
    BY <1>1, <1>2, <1>4, <2>1 DEF TreeInv, WalkSound
<1>8. Verdict'
  BY <1>2 DEF Verdict, PositionBound
<1> QED
  BY <1>3, <1>5, <1>6, <1>7, <1>8 DEF TreeInv

\* The verdict: yes only with the root at hand, no only for a proof that is not
\* the prover's.
LEMMA DecideKeeps ==
  ASSUME TreeInv, pc = "walk", NEW yes \in BOOLEAN, Decide(yes),
         yes => walk.digest = Root /\ (style = "bundle" => walk.width <= 1),
         ~ yes => ~ proof.honest
  PROVE  TreeInv'
<1>1. /\ pc' = IF yes THEN "accepted" ELSE "refused"
      /\ UNCHANGED <<style, leaves, target, level, index, path, seen, proof>>
  BY DEF Decide
<1>2. /\ Built /\ Built' /\ pc' \notin {"fold", "walk"} /\ Len(level) = 1 /\ List(path)
      /\ List(level)
  BY <1>1 DEF TreeInv, TreeTypes, Built
<1>3. /\ TreeTypes' /\ HashesClosed'
      /\ \A L, h : Levels(L, h) => Levels(L, h)'
      /\ \A D, I, W : Trail(D, I, W) => Trail(D, I, W)'
  BY <1>1, <1>2, TreeStands
<1>4. PICK L, h : Levels(L, h) /\ ClimbsInPlace(L, h)
  BY <1>2 DEF TreeInv, Tower
<1>5. Tower' /\ HonestPath' /\ WalkSound'
  <2>1. PICK D, I, W : Trail(D, I, W)
    BY <1>2 DEF TreeInv, HonestPath
  <2> QED
    BY <1>2, <1>3, <1>4, <2>1 DEF Tower, HonestPath, WalkSound
<1>6. yes => \E i \in 1..Len(leaves) : leaves[i] = proof.member
  <2>1. 1 \in 1..Len(level)
    BY <1>2
  <2>2. Root \in seen
    BY <1>2, <2>1 DEF TreeInv, HashesClosed, Root
  <2> QED
    BY <2>2 DEF TreeInv, WalkSound
<1>7. ASSUME yes, style = "bundle", proof.leafCount = Len(leaves)
      PROVE  leaves[proof.leafIndex + 1] = proof.member
  <2> DEFINE k == walk.taken + 1
  <2>1. /\ k \in 1..h /\ walk.width = Len(L[k]) /\ walk.index \in 0..(walk.width - 1)
        /\ walk.digest = L[k][walk.index + 1] => leaves[proof.leafIndex + 1] = proof.member
    BY <1>4, <1>7 DEF ClimbsInPlace
  <2> HIDE DEF k
  <2>2. h \in Nat /\ L[h] = level /\ \A j \in 1..(h - 1) : Len(L[j]) > 1
    BY <1>4 DEF Levels
  <2>3. walk.width \in Nat /\ walk.width <= 1
    <3>1. List(L[k])
      BY <1>4, <2>1 DEF Levels
    <3> QED
      BY <1>7, <2>1, <3>1 DEF List
  <2>4. k \notin 1..(h - 1)
    <3> SUFFICES ASSUME k \in 1..(h - 1) PROVE FALSE
      OBVIOUS
    <3>1. walk.width > 1
      BY <2>1, <2>2
    <3> QED
      BY <2>3, <3>1
  <2>5. k = h
    BY <2>1, <2>2, <2>4
  <2>6. walk.index = 0
    BY <2>1, <2>3
  <2>7. L[k][walk.index + 1] = Root
    BY <2>2, <2>5, <2>6 DEF Root
  <2> QED
    BY <1>7, <2>1, <2>7
<1>8. Verdict'
  <2>1. PositionBound'
    BY <1>1, <1>7 DEF PositionBound
  <2> QED
    BY <1>1, <1>6, <2>1 DEF Verdict
<1> QED
  BY <1>3, <1>5, <1>8 DEF TreeInv

\* The prover's own proof, to its end: the verifier has the root.
LEMMA HonestEnd ==
  ASSUME TreeInv, pc = "walk", proof.honest, walk.taken = Len(path)
  PROVE  walk.digest = Root /\ (style = "bundle" => walk.width <= 1)
<1>1. Built /\ Len(level) = 1 /\ index \in 0..(Len(level) - 1) /\ Len(path) \in Nat
  BY DEF TreeInv, TreeTypes, Built, List
<1>2. PICK D, I, W : Trail(D, I, W) /\ OnTrail(D, I, W)
  BY <1>1 DEF TreeInv, HonestPath
<1>3. index = 0
  BY <1>1
<1>4. walk.digest = level[index + 1] /\ (style = "bundle" => walk.width = Len(level))
  BY <1>2 DEF Trail, OnTrail
<1> QED
  BY <1>1, <1>3, <1>4 DEF Root

\* The three ways a walk ends: the path is used up, or a bundle's verifier meets
\* a step that the index and the count do not allow.
LEMMA EndKeeps ==
  ASSUME TreeInv, pc = "walk",
         \/ AttributionEnd \/ BundleEnd
         \/ \E s \in NextSteps : BundleWrongStep(s)
  PROVE  TreeInv'
<1>1. CASE AttributionEnd
  <2> DEFINE yes == walk.digest = Root
  <2>1. Decide(yes) /\ style = "attribution" /\ PathEnds
    BY <1>1 DEF AttributionEnd
  <2>2. ~ yes => ~ proof.honest
    BY <2>1, HonestEnd DEF PathEnds
  <2>3. yes \in BOOLEAN /\ (yes => walk.digest = Root /\ (style = "bundle" => walk.width <= 1))
    BY <2>1
  <2> HIDE DEF yes
  <2> QED
    BY <2>1, <2>2, <2>3, DecideKeeps
<1>2. CASE BundleEnd
  <2> DEFINE yes == walk.width <= 1 /\ walk.digest = Root
  <2>1. Decide(yes) /\ style = "bundle" /\ PathEnds
    BY <1>2 DEF BundleEnd
  <2>2. ~ yes => ~ proof.honest
    BY <2>1, HonestEnd DEF PathEnds
  <2>3. yes \in BOOLEAN /\ (yes => walk.digest = Root /\ (style = "bundle" => walk.width <= 1))
    OBVIOUS
  <2> HIDE DEF yes
  <2> QED
    BY <2>1, <2>2, <2>3, DecideKeeps
<1>3. ASSUME NEW s \in NextSteps, BundleWrongStep(s) PROVE TreeInv'
  <2>1. /\ style = "bundle" /\ Decide(FALSE)
        /\ walk.width > 1 => ~ PositionOk(s, walk.index, walk.width)
    BY <1>3 DEF BundleWrongStep
  <2>2. ~ proof.honest
    <3> SUFFICES ASSUME proof.honest PROVE FALSE
      OBVIOUS
    <3>1. Built /\ List(path)
      BY DEF TreeInv, TreeTypes, Built
    <3>2. PICK D, I, W : Trail(D, I, W) /\ OnTrail(D, I, W)
      BY <3>1 DEF TreeInv, HonestPath
    <3> DEFINE k == walk.taken + 1
    <3>3. k \in 1..Len(path) /\ s = path[k]
      BY <3>1, ListIsSeq DEF NextSteps
    <3>4. walk.index = I[k] /\ walk.width = W[k]
      BY <2>1, <3>2 DEF OnTrail
    <3> HIDE DEF k
    <3>5. W[k] > 1 /\ PositionOk(path[k], I[k], W[k])
      BY <2>1, <3>2, <3>3 DEF Trail
    <3> QED
      BY <2>1, <3>3, <3>4, <3>5
  <2> QED
    BY <2>1, <2>2, DecideKeeps
<1> QED
  BY <1>1, <1>2, <1>3

-----------------------------------------------------------------------------
\* No tree has been started: the verifier has nothing to say.
LEMMA UnbuiltKeeps ==
  ASSUME TreeInv, pc' \in {"start", "none", "root"},
         style' = style, pc' = "start" => pc = "start" /\ UNCHANGED <<leaves, path>>
  PROVE  TreeInv'
<1>1. TreeTypes'
  BY DEF TreeInv, TreeTypes, Built
<1>2. HashesClosed' /\ Tower' /\ HonestPath' /\ WalkSound'
  BY DEF HashesClosed, Tower, HonestPath, WalkSound, Built
<1>3. Verdict'
  BY DEF Verdict, PositionBound
<1> QED
  BY <1>1, <1>2, <1>3 DEF TreeInv

\* Nothing has been computed at first.
LEMMA TreeInit ==
  ASSUME MerkleInit
  PROVE  TreeInv
<1>1. style \in Styles /\ leaves \in Lists[style] /\ path = << >> /\ pc = "start"
  BY DEF MerkleInit
<1>2. TreeTypes /\ HashesClosed /\ Tower /\ HonestPath /\ WalkSound
  BY <1>1 DEF TreeTypes, HashesClosed, Tower, HonestPath, WalkSound, Built
<1>3. Verdict
  BY <1>1 DEF Verdict, PositionBound
<1> QED
  BY <1>2, <1>3 DEF TreeInv

\* Every action of the provers and of the verifiers keeps the invariant.
LEMMA TreeNext ==
  ASSUME TreeInv, [MerkleNext]_merkleVars
  PROVE  TreeInv'
<1>1. CASE BuildContext \/ ContextFails \/ \E t \in Targets : Fail(t)
  <2>1. pc' \in {"none", "root"} /\ style' = style
    BY <1>1 DEF BuildContext, ContextFails, Fail
  <2> QED
    BY <2>1, UnbuiltKeeps
<1>2. CASE \E t \in Targets : Start(t)
  BY <1>2, StartKeeps
<1>3. CASE FoldLevel
  BY <1>3, FoldKeeps
<1>4. CASE Verify(TRUE, leaves[target + 1], target, Len(leaves))
  <2>1. pc = "fold"
    BY <1>4 DEF Verify
  <2>2. target \in Nat /\ Len(leaves) \in Nat
    BY <2>1 DEF TreeInv, TreeTypes, Built, List
  <2> QED
    BY <1>4, <2>2, VerifyKeeps
<1>5. CASE \E x \in Targets \cup seen : Verify(FALSE, x, 0, 1)
  BY <1>5, VerifyKeeps
<1>6. CASE \E x \in Targets \cup seen, n \in 0..MaxCount :
             \E i \in 0..n : Verify(FALSE, x, i, n)
  <2>1. PICK x \in Targets \cup seen, n \in 0..MaxCount :
          \E i \in 0..n : Verify(FALSE, x, i, n)
    BY <1>6
  <2>2. PICK i \in 0..n : Verify(FALSE, x, i, n)
    BY <2>1
  <2>3. n \in Nat
    BY MerkleAssumption
  <2>4. i \in Nat
    BY <2>3
  <2> QED
    BY <2>2, <2>3, <2>4, VerifyKeeps
<1>7. CASE pc = "walk" /\ \E s \in NextSteps : AttributionStep(s) \/ BundleStep(s)
  BY <1>7, WalkKeeps
<1>8. CASE /\ pc = "walk"
           /\ \/ AttributionEnd \/ BundleEnd
              \/ \E s \in NextSteps : BundleWrongStep(s)
  BY <1>8, EndKeeps
<1>9. CASE UNCHANGED merkleVars
  <2>1. TreeTypes' /\ HashesClosed'
    BY <1>9 DEF merkleVars, TreeInv, TreeTypes, HashesClosed, Built
  <2>2. Built' = Built /\ pc' = pc
    BY <1>9 DEF merkleVars, Built
  <2>3. Tower'
    <3>1. \A L, h : Levels(L, h)' = Levels(L, h)
      BY <1>9 DEF merkleVars, Levels
    <3>2. \A L, h : ClimbsInPlace(L, h)' = ClimbsInPlace(L, h)
      BY <1>9 DEF merkleVars, ClimbsInPlace
    <3> QED
      BY <2>2, <3>1, <3>2 DEF TreeInv, Tower
  <2>4. HonestPath'
    <3>1. \A D, I, W : Trail(D, I, W)' = Trail(D, I, W)
      BY <1>9 DEF merkleVars, Trail
    <3>2. \A D, I, W : OnTrail(D, I, W)' = OnTrail(D, I, W)
      BY <1>9 DEF merkleVars, OnTrail
    <3> QED
      BY <2>2, <3>1, <3>2 DEF TreeInv, HonestPath
  <2>5. WalkSound' /\ Verdict'
    BY <1>9 DEF merkleVars, TreeInv, WalkSound, Verdict, PositionBound
  <2> QED
    BY <2>1, <2>3, <2>4, <2>5 DEF TreeInv
<1>10. AttributionEnd \/ BundleEnd => pc = "walk"
  BY DEF AttributionEnd, BundleEnd
<1> QED
  BY <1>1, <1>2, <1>3, <1>4, <1>5, <1>6, <1>7, <1>8, <1>9, <1>10 DEF MerkleNext

\* The invariant of the trees, of lists of any length and proofs of any make.
THEOREM TreeInductive ==
  MerkleSpec => []TreeInv
BY TreeInit, TreeNext, PTL DEF MerkleSpec

\* A proof decides membership in the trees of attribution.go and
\* supporting_record.go: only leaves are accepted, and the prover's own proof
\* always is.
THEOREM AcceptedAreMembers ==
  MerkleSpec => []AcceptedIsMember
<1>1. TreeInv => AcceptedIsMember
  <2> SUFFICES ASSUME TreeInv PROVE AcceptedIsMember
    OBVIOUS
  <2>1. ASSUME pc = "accepted" PROVE proof.member \in Range(leaves)
    <3>1. PICK i \in 1..Len(leaves) : leaves[i] = proof.member
      BY <2>1 DEF TreeInv, Verdict
    <3>2. DOMAIN leaves = 1..Len(leaves)
      BY <2>1 DEF TreeInv, TreeTypes, Built, List
    <3> QED
      BY <3>1, <3>2 DEF Range
  <2> QED
    BY <2>1 DEF AcceptedIsMember, TreeInv, Verdict
<1> QED
  BY <1>1, TreeInductive, PTL

\* verifyEvidenceBundleProofV2, told the right leaf_count, accepts no member at
\* another's leaf_index.
THEOREM PositionsAreBound ==
  MerkleSpec => []PositionBound
<1>1. TreeInv => PositionBound
  BY DEF TreeInv, Verdict
<1> QED
  BY <1>1, TreeInductive, PTL

-----------------------------------------------------------------------------
\* A set of numbers that is not empty has a least one.
LEMMA LeastOf ==
  ASSUME NEW X, X \subseteq Nat, X # {}
  PROVE  \E m \in X : \A x \in X : m <= x
<1>1. \E m \in X : \A x \in X : ~ (<<x, m>> \in OpToRel(<, Nat))
  BY NatLessThanWellFounded, WFMin
<1>2. PICK m \in X : \A x \in X : ~ (<<x, m>> \in OpToRel(<, Nat))
  BY <1>1
<1>3. \A x \in X : ~ (x < m)
  BY <1>2 DEF OpToRel
<1> QED
  BY <1>3

\* What holds at 0 and is carried from each number below n to the next holds
\* up to n.
LEMMA Climb ==
  ASSUME NEW n \in Nat, NEW X, 0 \in X,
         \A k \in 0..(n - 1) : k \in X => k + 1 \in X
  PROVE  \A k \in 0..n : k \in X
<1> DEFINE Y == {k \in 0..n : k \notin X}
<1> SUFFICES ASSUME Y # {} PROVE FALSE
  OBVIOUS
<1>1. PICK m \in Y : \A y \in Y : m <= y
  <2>1. Y \subseteq Nat
    OBVIOUS
  <2> HIDE DEF Y
  <2> QED
    BY <2>1, LeastOf
<1>2. m \in 0..n /\ m \notin X /\ m # 0
  OBVIOUS
<1>3. m - 1 \in 0..(n - 1) /\ m - 1 \in 0..n /\ ~ (m <= m - 1) /\ (m - 1) + 1 = m
  BY <1>2
<1>4. m - 1 \in X
  BY <1>1, <1>3
<1> QED
  BY <1>2, <1>3, <1>4

\* What holds of a number when it holds of all before holds of all.
LEMMA ClimbFromAll ==
  ASSUME NEW X, \A k \in Nat : (\A j \in 0..(k - 1) : j \in X) => k \in X
  PROVE  \A k \in Nat : k \in X
<1> DEFINE Y == {k \in Nat : k \notin X}
<1> SUFFICES ASSUME Y # {} PROVE FALSE
  OBVIOUS
<1>1. PICK m \in Y : \A y \in Y : m <= y
  <2>1. Y \subseteq Nat
    OBVIOUS
  <2> HIDE DEF Y
  <2> QED
    BY <2>1, LeastOf
<1>2. ASSUME NEW j \in 0..(m - 1) PROVE j \in X
  <2>1. j \in Nat /\ ~ (m <= j)
    OBVIOUS
  <2> QED
    BY <1>1, <2>1
<1> QED
  BY <1>2

-----------------------------------------------------------------------------
\* The levels above l, one after the other.
FoldsUp(L, l, n) ==
  /\ DOMAIN L = 0..n /\ L[0] = l
  /\ \A k \in 1..n : L[k] = ReduceLevel(L[k - 1])

\* The loop of reduce is the fold, level by level.
LEMMA ReduceIsFold ==
  ASSUME NEW l, Len(l) \in Nat
  PROVE  \E L : FoldsUp(L, l, Len(l)) /\ Reduce(l) = L[Len(l)][1]
<1> DEFINE n == Len(l)
           F(L) == [k \in 0..n |-> IF k = 0 THEN l ELSE ReduceLevel(L[k - 1])]
           up == CHOOSE L : L = F(L)
           X == {k \in Nat : \E L : L = [i \in 0..k |-> L[i]] /\ FoldsUp(L, l, k)}
<1>1. 0 \in X
  <2> DEFINE L == [i \in 0..0 |-> l]
  <2>1. DOMAIN L = 0..0 /\ L[0] = l /\ 1..0 = {} /\ L = [i \in 0..0 |-> L[i]]
    OBVIOUS
  <2>2. FoldsUp(L, l, 0)
    BY <2>1 DEF FoldsUp
  <2> QED
    BY <2>1, <2>2
<1>2. ASSUME NEW k \in 0..(n - 1), k \in X PROVE k + 1 \in X
  <2>1. PICK L : L = [i \in 0..k |-> L[i]] /\ FoldsUp(L, l, k)
    BY <1>2
  <2> DEFINE M == [i \in 0..(k + 1) |-> IF i = k + 1 THEN ReduceLevel(L[k]) ELSE L[i]]
  <2>2. k \in Nat /\ k + 1 \in Nat
    OBVIOUS
  <2>3. DOMAIN M = 0..(k + 1) /\ M = [i \in 0..(k + 1) |-> M[i]] /\ M[0] = l
    BY <2>1, <2>2 DEF FoldsUp
  <2>4. ASSUME NEW i \in 1..(k + 1) PROVE M[i] = ReduceLevel(M[i - 1])
    <3>1. i - 1 \in 0..k /\ M[i - 1] = L[i - 1] /\ i \in 0..(k + 1)
      BY <2>2
    <3>2. CASE i = k + 1
      BY <2>2, <3>1, <3>2
    <3>3. CASE i # k + 1
      BY <2>1, <2>2, <3>1, <3>3 DEF FoldsUp
    <3> QED
      BY <3>2, <3>3
  <2>5. FoldsUp(M, l, k + 1)
    <3> HIDE DEF M
    <3> QED
      BY <2>3, <2>4 DEF FoldsUp
  <2> QED
    BY <2>2, <2>3, <2>5
<1>3. n \in X
  <2>1. \A k \in 0..n : k \in X
    <3> HIDE DEF X, n
    <3>1. n \in Nat
      BY DEF n
    <3> QED
      BY <1>1, <1>2, <3>1, Climb
  <2> QED
    BY <2>1
<1>4. \E L : L = F(L)
  <2>1. PICK L : L = [i \in 0..n |-> L[i]] /\ FoldsUp(L, l, n)
    BY <1>3
  <2>2. \A k \in 0..n : L[k] = IF k = 0 THEN l ELSE ReduceLevel(L[k - 1])
    BY <2>1 DEF FoldsUp
  <2>3. L = F(L)
    BY <2>1, <2>2
  <2> QED
    BY <2>3
<1>5. up = F(up)
  <2> HIDE DEF F
  <2> QED
    BY <1>4
<1>6. Reduce(l) = up[n][1]
  BY DEF Reduce
<1> HIDE DEF up
<1>7. FoldsUp(up, l, n)
  <2>1. DOMAIN up = 0..n
    BY <1>5
  <2>2. up[0] = l
    BY <1>5
  <2>3. ASSUME NEW k \in 1..n PROVE up[k] = ReduceLevel(up[k - 1])
    BY <1>5
  <2> QED
    BY <2>1, <2>2, <2>3 DEF FoldsUp
<1> QED
  BY <1>6, <1>7

\* The trees of up to twice the width of those in low.
Wider(n, low) ==
  [width |-> 2 * low.width,
   root |-> [f \in 1..n |-> [e \in 1..n |->
               IF e - f < low.width THEN low.root[f][e]
               ELSE <<"node", low.root[f][f + low.width - 1],
                              low.root[f + low.width][e]>>]]]

\* The trees over one hash.
Single(b) == [width |-> 1, root |-> [f \in 1..Len(b) |-> [e \in 1..Len(b) |-> b[f]]]]

\* The trees over up to k doublings of one hash.
Widens(T, b, k) ==
  /\ DOMAIN T = 0..k
  /\ T[0] = Single(b)
  /\ \A h \in 1..k : T[h] = Wider(Len(b), T[h - 1])

\* The table of the reference tree is what its recursion says.
LEMMA SubtreesWiden ==
  ASSUME NEW b, Len(b) \in Nat
  PROVE  Widens(Subtrees(b), b, Len(b))
<1> DEFINE n == Len(b)
           F(T) == [h \in 0..n |-> IF h = 0 THEN Single(b) ELSE Wider(n, T[h - 1])]
           X == {k \in Nat : \E T : T = [i \in 0..k |-> T[i]] /\ Widens(T, b, k)}
<1>1. 0 \in X
  <2> DEFINE T == [i \in 0..0 |-> Single(b)]
  <2>1. DOMAIN T = 0..0 /\ T[0] = Single(b) /\ 1..0 = {} /\ T = [i \in 0..0 |-> T[i]]
    OBVIOUS
  <2>2. Widens(T, b, 0)
    BY <2>1 DEF Widens
  <2> QED
    BY <2>1, <2>2
<1>2. ASSUME NEW k \in 0..(n - 1), k \in X PROVE k + 1 \in X
  <2>1. PICK T : T = [i \in 0..k |-> T[i]] /\ Widens(T, b, k)
    BY <1>2
  <2> DEFINE M == [i \in 0..(k + 1) |-> IF i = k + 1 THEN Wider(n, T[k]) ELSE T[i]]
  <2>2. k \in Nat /\ k + 1 \in Nat
    OBVIOUS
  <2>3. DOMAIN M = 0..(k + 1) /\ M = [i \in 0..(k + 1) |-> M[i]]
    OBVIOUS
  <2>6. M[0] = Single(b)
    <3>1. M[0] = T[0]
      BY <2>2
    <3> QED
      BY <2>1, <3>1 DEF Widens
  <2>4. ASSUME NEW i \in 1..(k + 1) PROVE M[i] = Wider(n, M[i - 1])
    <3>1. i - 1 \in 0..k /\ M[i - 1] = T[i - 1] /\ i \in 0..(k + 1)
      BY <2>2
    <3>2. CASE i = k + 1
      BY <2>2, <3>1, <3>2
    <3>3. CASE i # k + 1
      BY <2>1, <2>2, <3>1, <3>3 DEF Widens
    <3> QED
      BY <3>2, <3>3
  <2>5. Widens(M, b, k + 1)
    <3> HIDE DEF M
    <3> QED
      BY <2>3, <2>4, <2>6 DEF Widens
  <2> QED
    BY <2>2, <2>3, <2>5
<1>3. n \in X
  <2>1. \A k \in 0..n : k \in X
    <3> HIDE DEF X, n
    <3>1. n \in Nat
      BY DEF n
    <3> QED
      BY <1>1, <1>2, <3>1, Climb
  <2> QED
    BY <2>1
<1>4. \E T : T = F(T)
  <2>1. PICK T : T = [i \in 0..n |-> T[i]] /\ Widens(T, b, n)
    BY <1>3
  <2>4. T[0] = Single(b)
    BY <2>1 DEF Widens
  <2>2. \A k \in 0..n : T[k] = IF k = 0 THEN Single(b) ELSE Wider(n, T[k - 1])
    BY <2>1, <2>4 DEF Widens
  <2>3. T = F(T)
    BY <2>1, <2>2
  <2> QED
    BY <2>3
<1> DEFINE trees == CHOOSE T : T = F(T)
<1>5. trees = F(trees)
  <2> HIDE DEF F
  <2> QED
    BY <1>4
<1>6. Subtrees(b) = trees
  BY DEF Subtrees, Wider, Single
<1> HIDE DEF trees
<1>7. Widens(trees, b, n)
  <2>1. DOMAIN trees = 0..n
    BY <1>5
  <2>2. trees[0] = Single(b)
    BY <1>5
  <2>3. ASSUME NEW k \in 1..n PROVE trees[k] = Wider(n, trees[k - 1])
    BY <1>5
  <2> QED
    BY <2>1, <2>2, <2>3 DEF Widens
<1> QED
  BY <1>6, <1>7

\* R has a tree over each stretch of hashes: of one it is the hash, of more it
\* is a node over a tree of the first of them and a tree of the rest.
Spans(R, b) ==
  \A f, e \in 1..Len(b) :
    /\ f = e => R[f][e] = b[f]
    /\ f < e => \E s \in f..(e - 1) : R[f][e] = HashNode(R[f][s], R[s + 1][e])

\* The width of a tree is more than the number of doublings.
LEMMA WidthGrows ==
  ASSUME NEW b, Len(b) \in Nat, NEW T, Widens(T, b, Len(b))
  PROVE  \A h \in 0..Len(b) : T[h].width \in Nat /\ T[h].width > h
<1> DEFINE X == {h \in Nat : T[h].width \in Nat /\ T[h].width > h}
<1>1. 0 \in X
  BY DEF Widens, Single
<1>2. ASSUME NEW k \in 0..(Len(b) - 1), k \in X PROVE k + 1 \in X
  <2>1. k + 1 \in 1..Len(b) /\ (k + 1) - 1 = k
    OBVIOUS
  <2>2. T[k + 1] = Wider(Len(b), T[k])
    BY <2>1 DEF Widens
  <2>3. T[k + 1].width = 2 * T[k].width
    BY <2>2 DEF Wider
  <2> QED
    BY <1>2, <2>3
<1> HIDE DEF X
<1>3. \A h \in 0..Len(b) : h \in X
  BY <1>1, <1>2, Climb
<1> QED
  BY <1>3 DEF X

\* One doubling more doubles the width.
LEMMA WidthDoubles ==
  ASSUME NEW b, Len(b) \in Nat, NEW T, Widens(T, b, Len(b)), NEW h \in 0..(Len(b) - 1)
  PROVE  T[h + 1].width = 2 * T[h].width
<1>1. h + 1 \in 1..Len(b) /\ (h + 1) - 1 = h
  OBVIOUS
<1>2. T[h + 1] = Wider(Len(b), T[h])
  BY <1>1 DEF Widens
<1> QED
  BY <1>2 DEF Wider

\* What one doubling adds, tree by tree.
LEMMA WiderTrees ==
  ASSUME NEW b, Len(b) \in Nat, NEW T, Widens(T, b, Len(b)),
         NEW h \in 0..(Len(b) - 1), NEW f \in 1..Len(b), NEW e \in 1..Len(b)
  PROVE  LET w == T[h].width
         IN /\ T[h + 1].width = 2 * w
            /\ e - f < w => T[h + 1].root[f][e] = T[h].root[f][e]
            /\ ~ (e - f < w) => T[h + 1].root[f][e] =
                 HashNode(T[h].root[f][f + w - 1], T[h].root[f + w][e])
<1>1. h + 1 \in 1..Len(b) /\ (h + 1) - 1 = h
  OBVIOUS
<1>2. T[h + 1] = Wider(Len(b), T[h])
  BY <1>1 DEF Widens
<1> QED
  BY <1>2 DEF Wider, HashNode

\* A tree stays what it is while wider ones are added.
LEMMA TreesStay ==
  ASSUME NEW b, Len(b) \in Nat, NEW T, Widens(T, b, Len(b)),
         NEW h \in 0..Len(b), NEW f \in 1..Len(b), NEW e \in 1..Len(b),
         e - f < T[h].width
  PROVE  T[Len(b)].root[f][e] = T[h].root[f][e]
<1> DEFINE n == Len(b)
           X == {k \in Nat : e - f < T[h + k].width
                             /\ T[h + k].root[f][e] = T[h].root[f][e]}
<1>1. 0 \in X
  OBVIOUS
<1>2. ASSUME NEW k \in 0..((n - h) - 1), k \in X PROVE k + 1 \in X
  <2>1. h + k \in 0..(n - 1) /\ h + k \in 0..n /\ h + (k + 1) = (h + k) + 1 /\ k + 1 \in Nat
    OBVIOUS
  <2>2. T[h + k].width \in Nat
    BY <2>1, WidthGrows
  <2>3. /\ T[(h + k) + 1].width = 2 * T[h + k].width
        /\ T[(h + k) + 1].root[f][e] = T[h + k].root[f][e]
    BY <1>2, <2>1, WiderTrees
  <2>4. e - f < 2 * T[h + k].width
    BY <1>2, <2>2
  <2> QED
    BY <1>2, <2>1, <2>3, <2>4
<1>3. n - h \in Nat
  OBVIOUS
<1>4. n - h \in X
  <2> HIDE DEF X
  <2>1. \A k \in 0..(n - h) : k \in X
    BY <1>1, <1>2, <1>3, Climb
  <2> QED
    BY <1>3, <2>1
<1>5. h + (n - h) = n
  OBVIOUS
<1> QED
  BY <1>4, <1>5

\* The reference tree has a tree over each stretch of the hashes.
LEMMA SubtreesSpan ==
  ASSUME NEW b, Len(b) \in Nat, Len(b) >= 1
  PROVE  Spans(Subtrees(b)[Len(b)].root, b)
<1> DEFINE n == Len(b)
           T == Subtrees(b)
           Ok(h, f, e) ==
             /\ f = e => T[h].root[f][e] = b[f]
             /\ f < e => \E s \in f..(e - 1) :
                  T[h].root[f][e] = HashNode(T[h].root[f][s], T[h].root[s + 1][e])
           X == {h \in Nat : \A f, e \in 1..n : e - f < T[h].width => Ok(h, f, e)}
<1>1. Widens(T, b, n)
  BY SubtreesWiden
<1> HIDE DEF T
<1>2. 0 \in X
  <2>1. T[0] = Single(b)
    BY <1>1 DEF Widens
  <2>2. T[0].width = 1 /\ \A f, e \in 1..n : T[0].root[f][e] = b[f]
    BY <2>1 DEF Single
  <2> QED
    BY <2>2
<1>3. ASSUME NEW h \in 0..(n - 1), h \in X PROVE h + 1 \in X
  <2> SUFFICES ASSUME NEW f \in 1..n, NEW e \in 1..n, e - f < T[h + 1].width
               PROVE  Ok(h + 1, f, e)
    <3> HIDE DEF Ok
    <3>1. h + 1 \in Nat
      OBVIOUS
    <3> QED
      BY <3>1
  <2> DEFINE w == T[h].width
  <2>1. w \in Nat /\ w > 0 /\ h \in 0..n
    BY <1>1, WidthGrows
  <2> HIDE DEF X, Ok
  <2>2. \A x, y \in 1..n :
          /\ y - x < w => T[h + 1].root[x][y] = T[h].root[x][y]
          /\ ~ (y - x < w) => T[h + 1].root[x][y] =
               HashNode(T[h].root[x][x + w - 1], T[h].root[x + w][y])
    BY <1>1, WiderTrees
  <2>3. T[h + 1].width = 2 * w
    BY <1>1, WidthDoubles
  <2> USE DEF X, Ok
  <2> HIDE DEF w
  <2>4. CASE e - f < w
    <3>1. Ok(h, f, e)
      BY <1>3, <2>4 DEF w
    <3>2. f = e => T[h + 1].root[f][e] = b[f]
      BY <2>2, <2>4, <3>1
    <3>3. ASSUME f < e
          PROVE  \E s \in f..(e - 1) : T[h + 1].root[f][e] =
                   HashNode(T[h + 1].root[f][s], T[h + 1].root[s + 1][e])
      <4>1. PICK s \in f..(e - 1) :
              T[h].root[f][e] = HashNode(T[h].root[f][s], T[h].root[s + 1][e])
        BY <3>1, <3>3
      <4>2. s \in 1..n /\ s + 1 \in 1..n /\ s - f < w /\ e - (s + 1) < w
        BY <2>1, <2>4
      <4>3. /\ T[h + 1].root[f][e] = T[h].root[f][e]
            /\ T[h + 1].root[f][s] = T[h].root[f][s]
            /\ T[h + 1].root[s + 1][e] = T[h].root[s + 1][e]
        BY <2>2, <2>4, <4>2
      <4> QED
        BY <4>1, <4>3
    <3> QED
      BY <3>2, <3>3
  <2>5. CASE ~ (e - f < w)
    <3>1. /\ f + w - 1 \in f..(e - 1) /\ (f + w - 1) + 1 = f + w /\ f # e
          /\ f + w - 1 \in 1..n /\ f + w \in 1..n
          /\ (f + w - 1) - f < w /\ e - (f + w) < w
      BY <2>1, <2>3, <2>5
    <3>2. /\ T[h + 1].root[f][e] =
               HashNode(T[h].root[f][f + w - 1], T[h].root[f + w][e])
          /\ T[h + 1].root[f][f + w - 1] = T[h].root[f][f + w - 1]
          /\ T[h + 1].root[f + w][e] = T[h].root[f + w][e]
      BY <2>2, <2>5, <3>1
    <3>3. T[h + 1].root[f][e] =
            HashNode(T[h + 1].root[f][f + w - 1], T[h + 1].root[(f + w - 1) + 1][e])
      BY <3>1, <3>2
    <3> QED
      BY <3>1, <3>3
  <2> QED
    BY <2>4, <2>5
<1>4. n \in X
  <2> HIDE DEF X
  <2>1. \A h \in 0..n : h \in X
    BY <1>2, <1>3, Climb
  <2> QED
    BY <2>1
<1>5. T[n].width \in Nat /\ T[n].width > n
  BY <1>1, WidthGrows
<1>6. \A f, e \in 1..n : Ok(n, f, e)
  <2>1. \A f, e \in 1..n : e - f < T[n].width
    BY <1>5
  <2> QED
    BY <1>4, <2>1
<1> QED
  BY <1>6 DEF Spans, T

\* A level is made of trees over stretches of the hashes, one after the other:
\* place i has the tree from st[i] to before st[i + 1], all of one width but
\* the last.
Stretched(T, b, lev, h, st) ==
  /\ st[1] = 1 /\ st[Len(lev) + 1] = Len(b) + 1
  /\ \A i \in 1..Len(lev) :
       /\ st[i] \in 1..Len(b) /\ st[i + 1] \in Nat
       /\ st[i] < st[i + 1] /\ st[i + 1] <= st[i] + T[h].width
       /\ i < Len(lev) => st[i + 1] = st[i] + T[h].width
       /\ lev[i] = T[h].root[st[i]][st[i + 1] - 1]

Stretches(T, b, lev) == \E h \in 0..Len(b) : \E st : Stretched(T, b, lev, h, st)

\* The level above l, place by place.
LEMMA LevelAbove ==
  ASSUME NEW l, List(l), Len(l) >= 1
  PROVE  LET up == ReduceLevel(l)
         IN /\ List(up) /\ Len(up) \in Nat /\ Len(up) >= 1
            /\ 2 * Len(up) >= Len(l) /\ 2 * Len(up) <= Len(l) + 1
            /\ \A i \in 1..Len(up) :
                 /\ 2 * i <= Len(l) => up[i] = HashNode(l[2 * i - 1], l[2 * i])
                 /\ ~ (2 * i <= Len(l)) => up[i] = l[2 * i - 1]
<1> DEFINE n == Len(l)
           h == (n + 1) \div 2
           up == [i \in 1..h |->
                    IF 2 * i <= n THEN HashNode(l[2 * i - 1], l[2 * i]) ELSE l[2 * i - 1]]
<1>1. ReduceLevel(l) = up
  BY DEF ReduceLevel
<1>2. n \in Nat /\ n >= 1
  BY DEF List
<1> HIDE DEF n
<1>3. h \in Nat /\ h >= 1 /\ 2 * h >= n /\ 2 * h <= n + 1
  BY <1>2
<1> HIDE DEF h
<1>4. Len(up) = h /\ List(up)
  <2>1. Len(up) = h
    BY <1>3
  <2> QED
    BY <1>3, <2>1 DEF List
<1>5. \A i \in 1..h : /\ 2 * i <= n => up[i] = HashNode(l[2 * i - 1], l[2 * i])
                      /\ ~ (2 * i <= n) => up[i] = l[2 * i - 1]
  OBVIOUS
<1> HIDE DEF up
<1> QED
  BY <1>1, <1>3, <1>4, <1>5 DEF n

\* Folding a level doubles its stretches.
LEMMA StretchesDouble ==
  ASSUME NEW b, Len(b) \in Nat, NEW T, Widens(T, b, Len(b)),
         NEW l, List(l), Len(l) > 1, NEW h \in 0..Len(b), NEW st, Stretched(T, b, l, h, st)
  PROVE  Stretches(T, b, ReduceLevel(l))
<1> DEFINE n == Len(b)
           w == T[h].width
           m == Len(l)
           up == ReduceLevel(l)
           p == Len(up)
           su == [i \in 1..(p + 1) |-> IF i = p + 1 THEN n + 1 ELSE st[2 * i - 1]]
<1>1. m \in Nat /\ n \in Nat /\ w \in Nat /\ w > h /\ h \in Nat
  BY WidthGrows DEF List
<1>2. /\ p \in Nat /\ p >= 1 /\ 2 * p >= m /\ 2 * p <= m + 1
      /\ \A i \in 1..p : /\ 2 * i <= m => up[i] = HashNode(l[2 * i - 1], l[2 * i])
                         /\ ~ (2 * i <= m) => up[i] = l[2 * i - 1]
  BY <1>1, LevelAbove
<1>3. /\ st[1] = 1 /\ st[m + 1] = n + 1
      /\ \A i \in 1..m :
           /\ st[i] \in 1..n /\ st[i + 1] \in Nat
           /\ st[i] < st[i + 1] /\ st[i + 1] <= st[i] + w
           /\ i < m => st[i + 1] = st[i] + w
           /\ l[i] = T[h].root[st[i]][st[i + 1] - 1]
  BY DEF Stretched
<1>4. h + 1 \in 0..n /\ h \in 0..(n - 1)
  <2>1. 1 \in 1..m /\ 2 \in 1..m /\ 1 + 1 = 2
    BY <1>1
  <2>2. st[2] = 1 + w /\ st[2] <= n
    BY <1>3, <2>1
  <2> QED
    BY <1>1, <2>2
<1>5. /\ T[h + 1].width = 2 * w
      /\ \A f, e \in 1..n :
           /\ e - f < w => T[h + 1].root[f][e] = T[h].root[f][e]
           /\ ~ (e - f < w) => T[h + 1].root[f][e] =
                HashNode(T[h].root[f][f + w - 1], T[h].root[f + w][e])
  <2>1. 1 \in 1..n
    BY <1>4
  <2> QED
    BY <1>4, <2>1, WiderTrees
<1> HIDE DEF w, m, up, p
<1>6. su[1] = 1 /\ su[p + 1] = n + 1
  BY <1>1, <1>2, <1>3
<1>7. ASSUME NEW i \in 1..p
      PROVE  /\ su[i] \in 1..n /\ su[i + 1] \in Nat
             /\ su[i] < su[i + 1] /\ su[i + 1] <= su[i] + 2 * w
             /\ i < p => su[i + 1] = su[i] + 2 * w
             /\ up[i] = T[h + 1].root[su[i]][su[i + 1] - 1]
  <2> DEFINE a == 2 * i - 1
  <2>1. a \in 1..m /\ 2 * i = a + 1 /\ 2 * (i + 1) - 1 = a + 2
    BY <1>1, <1>2
  <2>2. su[i] = st[a] /\ st[a] \in 1..n
    BY <1>2, <1>3, <2>1
  <2>3. CASE 2 * i <= m
    <3>1. a + 1 \in 1..m /\ (a + 1) + 1 = a + 2 /\ a < m
      BY <1>1, <2>1, <2>3
    <3>2. su[i + 1] = st[a + 2]
      <4>1. CASE i = p
        <5>1. a + 2 = m + 1 /\ i + 1 = p + 1
          BY <1>1, <1>2, <2>1, <2>3, <4>1
        <5> QED
          BY <1>3, <1>6, <5>1
      <4>2. CASE i # p
        <5>1. i + 1 \in 1..p /\ i + 1 # p + 1 /\ i + 1 \in 1..(p + 1)
          BY <1>2, <4>2
        <5> QED
          BY <2>1, <5>1
      <4> QED
        BY <4>1, <4>2
    <3>3. /\ st[a + 1] = st[a] + w /\ st[a + 1] \in 1..n
          /\ st[a + 2] \in Nat /\ st[a + 1] < st[a + 2] /\ st[a + 2] <= st[a + 1] + w
          /\ a + 1 < m => st[a + 2] = st[a + 1] + w
      BY <1>3, <2>1, <3>1
    <3>4. i < p => a + 1 < m
      BY <1>1, <1>2, <2>1
    <3>5. st[a + 2] - 1 \in 1..n
      <4>1. CASE a + 1 = m
        <5>1. st[a + 2] = n + 1
          <6>1. a + 2 = m + 1
            BY <3>1, <4>1
          <6> QED
            BY <1>3, <6>1
        <5>2. (n + 1) - 1 \in 1..n
          BY <1>1, <2>2
        <5> QED
          BY <5>1, <5>2
      <4>2. CASE a + 1 # m
        <5>1. a + 2 \in 1..m
          BY <1>1, <3>1, <4>2
        <5>2. st[a + 2] \in 1..n
          BY <1>3, <5>1
        <5> QED
          BY <1>1, <3>3, <5>2
      <4> QED
        BY <4>1, <4>2
    <3>6. up[i] = T[h + 1].root[st[a]][st[a + 2] - 1]
      <4>1. up[i] = HashNode(l[a], l[a + 1])
        BY <1>2, <2>1, <2>3
      <4>2. l[a] = T[h].root[st[a]][st[a + 1] - 1] /\ l[a + 1] = T[h].root[st[a + 1]][st[a + 2] - 1]
        BY <1>3, <2>1, <3>1
      <4>3. ~ ((st[a + 2] - 1) - st[a] < w)
        BY <1>1, <2>2, <3>3
      <4>4. T[h + 1].root[st[a]][st[a + 2] - 1] =
              HashNode(T[h].root[st[a]][st[a] + w - 1], T[h].root[st[a] + w][st[a + 2] - 1])
        BY <1>5, <2>2, <3>5, <4>3
      <4>5. st[a + 1] = st[a] + w
        BY <3>3
      <4> HIDE DEF a
      <4>6. /\ l[a] = T[h].root[st[a]][st[a] + w - 1]
            /\ l[a + 1] = T[h].root[st[a] + w][st[a + 2] - 1]
        <5>1. st[a + 1] - 1 = st[a] + w - 1
          BY <1>1, <2>2, <3>3, <4>5
        <5>2. l[a] = T[h].root[st[a]][st[a] + w - 1]
          BY <4>2, <5>1
        <5>3. l[a + 1] = T[h].root[st[a] + w][st[a + 2] - 1]
          BY <4>2, <4>5
        <5> QED
          BY <5>2, <5>3
      <4> QED
        BY <4>1, <4>4, <4>6, Zenon
    <3> HIDE DEF su
    <3>7. su[i] < su[i + 1] /\ su[i + 1] <= su[i] + 2 * w /\ (i < p => su[i + 1] = su[i] + 2 * w)
      BY <1>1, <2>2, <3>2, <3>3, <3>4
    <3> QED
      BY <2>2, <3>2, <3>3, <3>6, <3>7
  <2>4. CASE ~ (2 * i <= m)
    <3>1. a = m /\ i = p
      BY <1>1, <1>2, <2>1, <2>4
    <3>2. su[i + 1] = st[a + 1] /\ st[a + 1] = n + 1
      BY <1>3, <1>6, <3>1
    <3>3. st[a] < st[a + 1] /\ st[a + 1] <= st[a] + w /\ l[a] = T[h].root[st[a]][st[a + 1] - 1]
      BY <1>3, <2>1
    <3>4. up[i] = l[a]
      BY <1>2, <2>1, <2>4
    <3>5. n \in 1..n /\ n - st[a] < w /\ (n + 1) - 1 = n
      BY <1>1, <2>2, <3>2, <3>3
    <3>6. T[h + 1].root[st[a]][n] = T[h].root[st[a]][n]
      BY <1>5, <2>2, <3>5
    <3> HIDE DEF su
    <3>7. su[i] < su[i + 1] /\ su[i + 1] <= su[i] + 2 * w /\ su[i + 1] \in Nat
      BY <1>1, <2>2, <3>2, <3>3
    <3>8. up[i] = T[h + 1].root[su[i]][su[i + 1] - 1]
      BY <2>2, <3>2, <3>3, <3>4, <3>5, <3>6
    <3> QED
      BY <2>2, <3>1, <3>7, <3>8
  <2> QED
    BY <2>3, <2>4
<1> HIDE DEF su
<1>8. Stretched(T, b, up, h + 1, su)
  <2>1. /\ su[1] = 1 /\ su[Len(up) + 1] = Len(b) + 1
        /\ \A i \in 1..Len(up) :
             /\ su[i] \in 1..Len(b) /\ su[i + 1] \in Nat
             /\ su[i] < su[i + 1] /\ su[i + 1] <= su[i] + T[h + 1].width
             /\ i < Len(up) => su[i + 1] = su[i] + T[h + 1].width
             /\ up[i] = T[h + 1].root[su[i]][su[i + 1] - 1]
    BY <1>5, <1>6, <1>7 DEF p
  <2> QED
    BY <2>1 DEF Stretched
<1> QED
  BY <1>4, <1>8 DEF Stretches, up

\* The levels above b are made of stretches, and get shorter up to the root.
LEMMA StretchesRise ==
  ASSUME NEW b, List(b), Len(b) >= 1, NEW T, Widens(T, b, Len(b)),
         NEW m \in Nat, NEW L, FoldsUp(L, b, m)
  PROVE  \A k \in 0..m :
           /\ List(L[k]) /\ Len(L[k]) >= 1 /\ Stretches(T, b, L[k])
           /\ Len(L[k]) = 1 \/ Len(L[k]) + k <= Len(b)
<1> DEFINE n == Len(b)
           Good(k) == /\ List(L[k]) /\ Len(L[k]) >= 1 /\ Stretches(T, b, L[k])
                      /\ Len(L[k]) = 1 \/ Len(L[k]) + k <= n
           X == {k \in Nat : Good(k)}
<1>0. n \in Nat
  BY DEF List
<1>1. 0 \in X
  <2>1. L[0] = b
    BY DEF FoldsUp
  <2> DEFINE st == [i \in 1..(n + 1) |-> i]
  <2>2. T[0] = Single(b)
    BY DEF Widens
  <2>3. T[0].width = 1 /\ \A f, e \in 1..n : T[0].root[f][e] = b[f]
    BY <2>2 DEF Single
  <2>4. Stretched(T, b, b, 0, st)
    <3>1. st[1] = 1 /\ st[n + 1] = n + 1 /\ \A i \in 1..n : st[i] = i /\ st[i + 1] = i + 1
      BY <1>0
    <3> HIDE DEF st
    <3>2. \A i \in 1..n : (i + 1) - 1 = i
      BY <1>0
    <3>3. \A i \in 1..n : b[i] = T[0].root[st[i]][st[i + 1] - 1]
      BY <2>3, <3>1, <3>2
    <3>4. \A i \in 1..n : /\ st[i] \in 1..n /\ st[i + 1] \in Nat
                          /\ st[i] < st[i + 1] /\ st[i + 1] <= st[i] + T[0].width
                          /\ i < n => st[i + 1] = st[i] + T[0].width
      BY <1>0, <2>3, <3>1
    <3> QED
      BY <3>1, <3>3, <3>4 DEF Stretched
  <2>5. Stretches(T, b, b)
    <3> HIDE DEF st
    <3>1. 0 \in 0..Len(b)
      BY <1>0
    <3> QED
      BY <2>4, <3>1 DEF Stretches
  <2>6. Good(0)
    BY <1>0, <2>1, <2>5
  <2> QED
    BY <2>6
<1>2. ASSUME NEW k \in 0..(m - 1), k \in X PROVE k + 1 \in X
  <2>1. k + 1 \in 1..m /\ (k + 1) - 1 = k /\ k + 1 \in Nat
    OBVIOUS
  <2>2. L[k + 1] = ReduceLevel(L[k])
    BY <2>1 DEF FoldsUp
  <2>3. Good(k)
    BY <1>2
  <2> DEFINE l == L[k]
             up == L[k + 1]
  <2>4. /\ List(up) /\ Len(up) \in Nat /\ Len(up) >= 1
        /\ 2 * Len(up) >= Len(l) /\ 2 * Len(up) <= Len(l) + 1
        /\ \A i \in 1..Len(up) :
             /\ 2 * i <= Len(l) => up[i] = HashNode(l[2 * i - 1], l[2 * i])
             /\ ~ (2 * i <= Len(l)) => up[i] = l[2 * i - 1]
    BY <2>2, <2>3, LevelAbove
  <2>5. List(l) /\ Len(l) \in Nat /\ Len(l) >= 1 /\ Stretches(T, b, l)
    BY <2>3 DEF List
  <2>8. /\ Len(up) \in Nat /\ Len(up) >= 1 /\ Len(l) \in Nat /\ Len(l) >= 1
        /\ 2 * Len(up) <= Len(l) + 1
    BY <2>4, <2>5
  <2>9. Len(l) = 1 \/ Len(l) + k <= n
    BY <2>3
  <2>10. /\ Len(l) = 1 => Len(up) = 1
         /\ Len(l) # 1 => Len(l) > 1 /\ Len(l) + k <= n /\ Len(up) + (k + 1) <= n
    <3> DEFINE p == Len(up)
               q == Len(l)
    <3>1. p \in Nat /\ p >= 1 /\ q \in Nat /\ q >= 1 /\ 2 * p <= q + 1
      BY <2>8
    <3>2. q = 1 \/ q + k <= n
      BY <2>9
    <3> HIDE DEF p, q, n
    <3>3. /\ q = 1 => p = 1
          /\ q # 1 => q > 1 /\ q + k <= n /\ p + (k + 1) <= n
      BY <1>0, <2>1, <3>1, <3>2
    <3> QED
      BY <3>3 DEF p, q
  <2>6. CASE Len(l) = 1
    <3>1. Len(up) = 1
      BY <2>6, <2>10
    <3>2. up[1] = l[1]
      BY <2>4, <2>6, <3>1
    <3>3. up = l
      <4> HIDE DEF up, l
      <4>1. up = [i \in 1..1 |-> up[i]] /\ l = [i \in 1..1 |-> l[i]]
        BY <2>4, <2>5, <2>6, <3>1 DEF List
      <4> QED
        BY <3>2, <4>1
    <3> QED
      BY <2>1, <2>3, <2>6, <3>3
  <2>7. CASE Len(l) # 1
    <3>1. Len(l) > 1 /\ Len(l) + k <= n
      BY <2>7, <2>10
    <3>2. PICK h \in 0..Len(b) : \E st : Stretched(T, b, l, h, st)
      BY <2>5 DEF Stretches
    <3>3. PICK st : Stretched(T, b, l, h, st)
      BY <3>2
    <3>4. Stretches(T, b, up)
      BY <1>0, <2>2, <2>5, <3>1, <3>3, StretchesDouble
    <3>5. Len(up) + (k + 1) <= n
      BY <2>7, <2>10
    <3>6. Good(k + 1)
      BY <2>4, <3>4, <3>5
    <3> HIDE DEF Good
    <3> QED
      BY <2>1, <3>6
  <2> QED
    BY <2>6, <2>7
<1> HIDE DEF X
<1>3. \A k \in 0..m : k \in X
  BY <1>1, <1>2, Climb
<1> QED
  BY <1>3 DEF X

\* Where the fold has one node left it is the tree over all the hashes.
LEMMA TopIsTree ==
  ASSUME NEW b, List(b), Len(b) >= 1, NEW lev, List(lev), Len(lev) = 1,
         Stretches(Subtrees(b), b, lev)
  PROVE  lev[1] = Subtrees(b)[Len(b)].root[1][Len(b)]
<1> DEFINE T == Subtrees(b)
           n == Len(b)
<1>1. n \in Nat /\ n >= 1
  BY DEF List
<1>2. Widens(T, b, n)
  BY <1>1, SubtreesWiden
<1> HIDE DEF T
<1>3. PICK h \in 0..n : \E st : Stretched(T, b, lev, h, st)
  BY DEF Stretches, T
<1>4. PICK st : Stretched(T, b, lev, h, st)
  BY <1>3
<1>5. /\ st[1] = 1 /\ st[1 + 1] = n + 1 /\ st[1 + 1] <= st[1] + T[h].width
      /\ lev[1] = T[h].root[st[1]][st[1 + 1] - 1]
  <2>1. 1 \in 1..Len(lev)
    OBVIOUS
  <2> QED
    BY <1>4, <2>1 DEF Stretched
<1>6. T[h].width \in Nat
  BY <1>1, <1>2, WidthGrows
<1>7. n - 1 < T[h].width /\ 1 \in 1..n /\ n \in 1..n /\ (n + 1) - 1 = n
  BY <1>1, <1>5, <1>6
<1>8. T[n].root[1][n] = T[h].root[1][n]
  BY <1>1, <1>2, <1>7, TreesStay
<1> QED
  BY <1>5, <1>7, <1>8 DEF T

\* The loop of reduce computes the tree that is defined from above.
LEMMA FoldIsReference ==
  ASSUME NEW b, List(b), Len(b) >= 1
  PROVE  Reduce(b) = Subtrees(b)[Len(b)].root[1][Len(b)]
<1> DEFINE n == Len(b)
<1>1. n \in Nat
  BY DEF List
<1>2. PICK L : FoldsUp(L, b, n) /\ Reduce(b) = L[n][1]
  BY <1>1, ReduceIsFold
<1>3. Widens(Subtrees(b), b, n)
  BY <1>1, SubtreesWiden
<1>4. /\ List(L[n]) /\ Len(L[n]) >= 1 /\ Stretches(Subtrees(b), b, L[n])
      /\ Len(L[n]) = 1 \/ Len(L[n]) + n <= Len(b)
  <2>1. n \in 0..n
    BY <1>1
  <2> QED
    BY <1>1, <1>2, <1>3, <2>1, StretchesRise
<1>5. Len(L[n]) = 1
  <2>1. Len(L[n]) \in Nat
    BY <1>4 DEF List
  <2> QED
    BY <1>1, <1>4, <2>1
<1> QED
  BY <1>2, <1>4, <1>5, TopIsTree

\* A hash is what it was computed from.
LEMMA HashesAreTerms ==
  /\ \A x, y : HashLeaf(x) = HashLeaf(y) => x = y
  /\ \A l, r, x, y : HashNode(l, r) = HashNode(x, y) => l = x /\ r = y
  /\ \A l, r, x : HashNode(l, r) # HashLeaf(x)
  /\ \A l, r : HashNode(l, r) # <<"node", "EMPTY">>
  /\ \A x : HashLeaf(x) # <<"node", "EMPTY">>
<1>1. \A x, y : HashLeaf(x) = HashLeaf(y) => x = y
  BY DEF HashLeaf
<1>2. \A l, r, x, y : HashNode(l, r) = HashNode(x, y) => l = x /\ r = y
  BY DEF HashNode
<1>3. \A l, r : Len(HashNode(l, r)) = 3
  BY DEF HashNode
<1>4. \A x : Len(HashLeaf(x)) = 2
  BY DEF HashLeaf
<1>5. Len(<<"node", "EMPTY">>) = 2
  OBVIOUS
<1>6. \A x : HashLeaf(x) # <<"node", "EMPTY">>
  BY DEF HashLeaf
<1> QED
  BY <1>1, <1>2, <1>3, <1>4, <1>5, <1>6

\* Where a tree over hashes a and a tree over hashes b are the same, so are the
\* hashes they are over.
Agree(P, a, Q, b) ==
  \A f, e \in 1..Len(a), g, d \in 1..Len(b) :
    (f <= e /\ g <= d /\ P[f][e] = Q[g][d]) =>
      /\ e - f = d - g
      /\ \A i \in 0..(e - f) : a[f + i] = b[g + i]

\* Two trees over the hashes of leaves that are the same are over the same.
LEMMA SameTreeSameLeaves ==
  ASSUME NEW a, Len(a) \in Nat, \A i \in 1..Len(a) : \E x : a[i] = HashLeaf(x),
         NEW b, Len(b) \in Nat, \A i \in 1..Len(b) : \E x : b[i] = HashLeaf(x),
         NEW P, Spans(P, a), NEW Q, Spans(Q, b)
  PROVE  Agree(P, a, Q, b)
<1> DEFINE Same(f, e, g, d) == /\ e - f = d - g
                               /\ \A i \in 0..(e - f) : a[f + i] = b[g + i]
           Of(k) == \A f, e \in 1..Len(a), g, d \in 1..Len(b) :
                      (e - f = k /\ g <= d /\ P[f][e] = Q[g][d]) => Same(f, e, g, d)
           X == {k \in Nat : Of(k)}
<1>1. ASSUME NEW k \in Nat, \A j \in 0..(k - 1) : j \in X PROVE k \in X
  <2> SUFFICES ASSUME NEW f \in 1..Len(a), NEW e \in 1..Len(a),
                      NEW g \in 1..Len(b), NEW d \in 1..Len(b),
                      e - f = k, g <= d, P[f][e] = Q[g][d]
               PROVE  Same(f, e, g, d)
    <3> HIDE DEF Same
    <3> QED
      OBVIOUS
  <2>1. f = e => \E x : P[f][e] = HashLeaf(x)
    <3>1. f = e => P[f][e] = a[f]
      BY DEF Spans
    <3>2. \E x : a[f] = HashLeaf(x)
      OBVIOUS
    <3> HIDE DEF X
    <3> QED
      BY <3>1, <3>2
  <2>2. g = d => \E x : Q[g][d] = HashLeaf(x)
    <3>1. g = d => Q[g][d] = b[g]
      BY DEF Spans
    <3>2. \E x : b[g] = HashLeaf(x)
      OBVIOUS
    <3> HIDE DEF X
    <3> QED
      BY <3>1, <3>2
  <2>3. f < e => \E s \in f..(e - 1) : P[f][e] = HashNode(P[f][s], P[s + 1][e])
    BY DEF Spans
  <2>4. g < d => \E t \in g..(d - 1) : Q[g][d] = HashNode(Q[g][t], Q[t + 1][d])
    BY DEF Spans
  <2>5. CASE f = e
    <3>1. g = d
      BY <2>1, <2>4, <2>5, HashesAreTerms
    <3>2. a[f] = b[g]
      BY <2>5, <3>1 DEF Spans
    <3>3. e - f = 0 /\ d - g = 0 /\ 0..(e - f) = {0} /\ f + 0 = f /\ g + 0 = g
      BY <2>5, <3>1
    <3> QED
      BY <3>2, <3>3
  <2>6. CASE f # e
    <3>1. f < e /\ k > 0
      BY <2>6
    <3>2. g < d
      BY <2>2, <2>3, <3>1, HashesAreTerms
    <3>3. PICK s \in f..(e - 1) : P[f][e] = HashNode(P[f][s], P[s + 1][e])
      BY <2>3, <3>1
    <3>4. PICK t \in g..(d - 1) : Q[g][d] = HashNode(Q[g][t], Q[t + 1][d])
      BY <2>4, <3>2
    <3>5. P[f][s] = Q[g][t] /\ P[s + 1][e] = Q[t + 1][d]
      <4>1. HashNode(P[f][s], P[s + 1][e]) = HashNode(Q[g][t], Q[t + 1][d])
        BY <3>3, <3>4
      <4> HIDE DEF X
      <4> QED
        BY <4>1, HashesAreTerms
    <3>6. /\ s \in 1..Len(a) /\ s + 1 \in 1..Len(a) /\ f <= s /\ s + 1 <= e
          /\ t \in 1..Len(b) /\ t + 1 \in 1..Len(b) /\ g <= t /\ t + 1 <= d
          /\ s - f \in 0..(k - 1) /\ e - (s + 1) \in 0..(k - 1)
      BY <3>1, <3>2
    <3>7. Of(s - f) /\ Of(e - (s + 1))
      <4> HIDE DEF Of
      <4> QED
        BY <1>1, <3>6
    <3> HIDE DEF X
    <3>8. Same(f, s, g, t)
      <4> HIDE DEF Same
      <4> QED
        BY <3>5, <3>6, <3>7
    <3>9. Same(s + 1, e, t + 1, d)
      <4> HIDE DEF Same
      <4> QED
        BY <3>5, <3>6, <3>7
    <3> HIDE DEF Of
    <3>10. e - f = d - g
      <4>1. s - f = t - g /\ e - (s + 1) = d - (t + 1)
        BY <3>8, <3>9
      <4>2. f \in Int /\ e \in Int /\ g \in Int /\ d \in Int /\ s \in Int /\ t \in Int
        OBVIOUS
      <4> QED
        BY <4>1, <4>2
    <3>11. ASSUME NEW i \in 0..(e - f) PROVE a[f + i] = b[g + i]
      <4>1. CASE i <= s - f
        <5>1. i \in 0..(s - f)
          BY <3>6, <4>1
        <5> QED
          BY <3>8, <5>1
      <4>2. CASE ~ (i <= s - f)
        <5> DEFINE j == i - (s - f) - 1
        <5>0. s - f = t - g
          BY <3>8
        <5>1. /\ j \in 0..(e - (s + 1))
              /\ (s + 1) + j = f + i /\ (t + 1) + j = g + i
          BY <3>6, <4>2, <5>0
        <5> HIDE DEF j
        <5>2. a[(s + 1) + j] = b[(t + 1) + j]
          BY <3>9, <5>1
        <5> QED
          BY <5>1, <5>2
      <4> QED
        BY <4>1, <4>2
    <3> QED
      BY <3>10, <3>11
  <2> QED
    BY <2>5, <2>6
<1>2. \A k \in Nat : k \in X
  <2> HIDE DEF X
  <2> QED
    BY <1>1, ClimbFromAll
<1> HIDE DEF Same
<1>3. ASSUME NEW f \in 1..Len(a), NEW e \in 1..Len(a),
             NEW g \in 1..Len(b), NEW d \in 1..Len(b),
             f <= e, g <= d, P[f][e] = Q[g][d]
      PROVE  Same(f, e, g, d)
  <2>1. e - f \in Nat
    BY <1>3
  <2>2. Of(e - f)
    BY <1>2, <2>1
  <2> QED
    BY <1>3, <2>2
<1> QED
  BY <1>3 DEF Same, Agree

\* The hashes of the leaves of a list.
LeafHashes(l) == [i \in DOMAIN l |-> HashLeaf(l[i])]

LEMMA LeafHashesList ==
  ASSUME NEW l, List(l)
  PROVE  /\ List(LeafHashes(l)) /\ Len(LeafHashes(l)) = Len(l)
         /\ \A i \in 1..Len(l) : LeafHashes(l)[i] = HashLeaf(l[i])
<1>1. DOMAIN l = 1..Len(l) /\ Len(l) \in Nat
  BY DEF List
<1> DEFINE n == Len(l)
<1> HIDE DEF n
<1>2. LeafHashes(l) = [i \in 1..n |-> HashLeaf(l[i])]
  BY <1>1 DEF LeafHashes, n
<1>3. n \in Nat
  BY <1>1 DEF n
<1>4. Len(LeafHashes(l)) = n /\ \A i \in 1..n : LeafHashes(l)[i] = HashLeaf(l[i])
  BY <1>2, <1>3
<1>5. List(LeafHashes(l))
  BY <1>2, <1>3, <1>4 DEF List
<1> QED
  BY <1>4, <1>5 DEF n

\* The tree of RFC 6962 over two lists is the same only if the lists are.
LEMMA ReferenceCommits ==
  ASSUME NEW u, List(u), Len(u) >= 1, NEW v, List(v), Len(v) >= 1,
         ReferenceRoot(u) = ReferenceRoot(v)
  PROVE  u = v
<1> DEFINE a == LeafHashes(u)
           b == LeafHashes(v)
           m == Len(u)
           n == Len(v)
           P == Subtrees(a)[m].root
           Q == Subtrees(b)[n].root
<1>1. ReferenceRoot(u) = P[1][m] /\ ReferenceRoot(v) = Q[1][n]
  BY DEF ReferenceRoot, LeafHashes, HashLeaf
<1>2. /\ m \in Nat /\ Len(a) = m /\ \A i \in 1..m : a[i] = HashLeaf(u[i])
      /\ n \in Nat /\ Len(b) = n /\ \A i \in 1..n : b[i] = HashLeaf(v[i])
  BY LeafHashesList DEF List
<1>3. Spans(P, a) /\ Spans(Q, b)
  BY <1>2, SubtreesSpan
<1> HIDE DEF a, b, P, Q
<1>4. 1 \in 1..m /\ m \in 1..m /\ 1 \in 1..n /\ n \in 1..n
  BY <1>2
<1>5. Agree(P, a, Q, b)
  <2>1. /\ \A i \in 1..Len(a) : \E x : a[i] = HashLeaf(x)
        /\ \A i \in 1..Len(b) : \E x : b[i] = HashLeaf(x)
    BY <1>2
  <2>2. Len(a) \in Nat /\ Len(b) \in Nat
    BY <1>2
  <2> HIDE DEF m, n
  <2> QED
    BY <1>3, <2>1, <2>2, SameTreeSameLeaves
<1>6. m - 1 = n - 1 /\ \A i \in 0..(m - 1) : a[1 + i] = b[1 + i]
  <2>1. P[1][m] = Q[1][n]
    BY <1>1
  <2>2. 1 <= m /\ 1 <= n /\ Len(a) = m /\ Len(b) = n
    BY <1>2
  <2> HIDE DEF m, n
  <2> QED
    BY <1>4, <1>5, <2>1, <2>2 DEF Agree
<1>7. m = n
  BY <1>2, <1>6
<1>8. ASSUME NEW i \in 1..m PROVE u[i] = v[i]
  <2>1. i - 1 \in 0..(m - 1) /\ 1 + (i - 1) = i
    OBVIOUS
  <2>2. a[i] = b[i]
    BY <1>6, <2>1
  <2> QED
    BY <1>2, <1>7, <2>2, HashesAreTerms
<1>9. u = [i \in 1..m |-> u[i]] /\ v = [i \in 1..m |-> v[i]]
  BY <1>7 DEF List
<1> HIDE DEF m
<1> QED
  BY <1>8, <1>9

\* Every member of S is in H or a node over two members of S.
Grown(S, H) == \A t \in S : t \in H \/ \E l, r \in S : t = HashNode(l, r)

\* The hash t is made from those in H.
Made(t, H) == \E S : t \in S /\ Grown(S, H)

\* With a node S has what is below it.
Closed(S) == \A l, r : HashNode(l, r) \in S => l \in S /\ r \in S

\* A set grown from hashes of leaves has no others, and what is below a node.
LEMMA GrownIsClosed ==
  ASSUME NEW H, \A h \in H : \E x : h = HashLeaf(x), NEW S, Grown(S, H)
  PROVE  /\ Closed(S)
         /\ \A x : HashLeaf(x) \in S => HashLeaf(x) \in H
         /\ <<"node", "EMPTY">> \notin S
<1>1. ASSUME NEW l, NEW r, HashNode(l, r) \in S PROVE l \in S /\ r \in S
  <2>1. HashNode(l, r) \notin H
    BY HashesAreTerms
  <2>2. PICK x \in S, y \in S : HashNode(l, r) = HashNode(x, y)
    BY <1>1, <2>1 DEF Grown
  <2> QED
    BY <2>2, HashesAreTerms
<1>2. ASSUME NEW x, HashLeaf(x) \in S PROVE HashLeaf(x) \in H
  BY <1>2, HashesAreTerms DEF Grown
<1>3. <<"node", "EMPTY">> \notin S
  <2> SUFFICES ASSUME <<"node", "EMPTY">> \in S PROVE FALSE
    OBVIOUS
  <2>1. \/ <<"node", "EMPTY">> \in H
        \/ \E l, r \in S : <<"node", "EMPTY">> = HashNode(l, r)
    BY DEF Grown
  <2> QED
    BY <2>1, HashesAreTerms
<1> QED
  BY <1>1, <1>2, <1>3 DEF Closed

\* The root of a fold is made from what the folded hashes are made from.
LEMMA FoldIsMade ==
  ASSUME NEW b, List(b), Len(b) >= 1, NEW H, \A i \in 1..Len(b) : Made(b[i], H)
  PROVE  Made(Reduce(b), H)
<1> DEFINE n == Len(b)
           R == Subtrees(b)[n].root
           From(i) == CHOOSE S : b[i] \in S /\ Grown(S, H)
           Lower == UNION {From(i) : i \in 1..n}
           Trees == UNION {{R[f][e] : e \in f..n} : f \in 1..n}
           All == Lower \cup Trees
<1>1. n \in Nat /\ n >= 1
  BY DEF List
<1>2. Reduce(b) = R[1][n]
  BY FoldIsReference
<1>3. Spans(R, b)
  BY <1>1, SubtreesSpan
<1> HIDE DEF R
<1>4. \A i \in 1..n : b[i] \in From(i) /\ Grown(From(i), H)
  BY DEF Made
<1> HIDE DEF From
<1>5. \A i \in 1..n : b[i] \in Lower /\ From(i) \subseteq Lower
  BY <1>4
<1>6. Grown(Lower, H)
  <2>1. ASSUME NEW t \in Lower PROVE t \in H \/ \E l, r \in Lower : t = HashNode(l, r)
    <3>1. PICK i \in 1..n : t \in From(i)
      OBVIOUS
    <3> HIDE DEF Lower
    <3>2. t \in H \/ \E l, r \in From(i) : t = HashNode(l, r)
      BY <1>4, <3>1 DEF Grown
    <3> QED
      BY <1>5, <3>2
  <2> HIDE DEF Lower
  <2> QED
    BY <2>1 DEF Grown
<1> HIDE DEF Lower
<1>7. \A f, e \in 1..n : f <= e => R[f][e] \in Trees
  <2> TAKE f, e \in 1..n
  <2> HAVE f <= e
  <2>1. e \in f..n
    BY <1>1
  <2> QED
    BY <2>1
<1>8. ASSUME NEW t \in Trees
      PROVE  t \in Lower \/ \E l, r \in Trees : t = HashNode(l, r)
  <2>0. PICK f \in 1..n : \E e \in f..n : t = R[f][e]
    OBVIOUS
  <2>1. PICK e \in f..n : t = R[f][e]
    BY <2>0
  <2> HIDE DEF Trees
  <2>2. e \in 1..n /\ f <= e
    BY <1>1
  <2>3. CASE f = e
    <3>1. t = b[f]
      BY <1>3, <2>1, <2>2, <2>3 DEF Spans
    <3> QED
      BY <1>5, <3>1
  <2>4. CASE f # e
    <3>1. f < e
      BY <1>1, <2>2, <2>4
    <3>2. PICK s \in f..(e - 1) : t = HashNode(R[f][s], R[s + 1][e])
      BY <1>3, <2>1, <2>2, <3>1 DEF Spans
    <3>3. s \in 1..n /\ s + 1 \in 1..n /\ f <= s /\ s + 1 <= e
      BY <1>1, <2>2
    <3>4. R[f][s] \in Trees /\ R[s + 1][e] \in Trees
      BY <1>7, <2>2, <3>3
    <3> QED
      BY <3>2, <3>4
  <2> QED
    BY <2>3, <2>4
<1>9. Grown(All, H)
  <2> HIDE DEF Trees
  <2> QED
    BY <1>6, <1>8 DEF Grown
<1>10. Reduce(b) \in All
  BY <1>1, <1>2, <1>7
<1> HIDE DEF All
<1> QED
  BY <1>9, <1>10 DEF Made

\* What has the root of a fold, and with a node what is below it, has the
\* hashes that were folded.
LEMMA FoldHolds ==
  ASSUME NEW b, List(b), Len(b) >= 1, NEW S, Closed(S), Reduce(b) \in S
  PROVE  \A i \in 1..Len(b) : b[i] \in S
<1> DEFINE n == Len(b)
           R == Subtrees(b)[n].root
           Of(k) == \A f, e \in 1..n : (e - f = k /\ R[f][e] \in S) => \A i \in f..e : b[i] \in S
           X == {k \in Nat : Of(k)}
<1>1. n \in Nat /\ n >= 1
  BY DEF List
<1>2. Reduce(b) = R[1][n]
  BY FoldIsReference
<1>3. Spans(R, b)
  BY <1>1, SubtreesSpan
<1> HIDE DEF R, n
<1>4. ASSUME NEW k \in Nat, \A j \in 0..(k - 1) : j \in X PROVE k \in X
  <2> SUFFICES ASSUME NEW f \in 1..n, NEW e \in 1..n, e - f = k, R[f][e] \in S
               PROVE  \A i \in f..e : b[i] \in S
    OBVIOUS
  <2>1. CASE f = e
    <3>1. R[f][e] = b[f]
      BY <1>3, <2>1 DEF Spans, n
    <3>2. f..e = {f}
      BY <2>1
    <3> QED
      BY <3>1, <3>2
  <2>2. CASE f # e
    <3>1. f < e
      BY <2>2
    <3>2. PICK s \in f..(e - 1) : R[f][e] = HashNode(R[f][s], R[s + 1][e])
      BY <1>3, <3>1 DEF Spans, n
    <3>3. R[f][s] \in S /\ R[s + 1][e] \in S
      BY <3>2 DEF Closed
    <3>4. /\ s \in 1..n /\ s + 1 \in 1..n
          /\ s - f \in 0..(k - 1) /\ e - (s + 1) \in 0..(k - 1)
      BY <1>1
    <3>5. Of(s - f) /\ Of(e - (s + 1))
      <4> HIDE DEF Of
      <4> QED
        BY <1>4, <3>4
    <3>6. (\A i \in f..s : b[i] \in S) /\ (\A i \in (s + 1)..e : b[i] \in S)
      BY <3>3, <3>4, <3>5
    <3>7. \A i \in f..e : i \in f..s \/ i \in (s + 1)..e
      BY <3>4
    <3> QED
      BY <3>6, <3>7
  <2> QED
    BY <2>1, <2>2
<1>5. \A k \in Nat : k \in X
  <2> HIDE DEF X
  <2> QED
    BY <1>4, ClimbFromAll
<1>6. Of(n - 1)
  <2>1. n - 1 \in Nat
    BY <1>1
  <2> HIDE DEF Of
  <2> QED
    BY <1>5, <2>1
<1>7. 1 \in 1..n /\ n \in 1..n
  BY <1>1
<1>8. \A i \in 1..n : b[i] \in S
  BY <1>2, <1>6, <1>7
<1> QED
  BY <1>8 DEF n

-----------------------------------------------------------------------------
\* How many of S come before x.
Rank(S, f, x) == Cardinality({y \in S : f[y] < f[x]})

\* The members of a finite set are in the order of their numbers, each once, if
\* no two have the same.
LEMMA InOrderLists ==
  ASSUME NEW S, IsFiniteSet(S), NEW f, \A x \in S : f[x] \in Int,
         \A x, y \in S : f[x] = f[y] => x = y
  PROVE  LET s == InOrder(S, f)
             n == Cardinality(S)
         IN /\ n \in Nat /\ List(s) /\ Len(s) = n /\ DOMAIN s = 1..n
            /\ S # {} => n >= 1
            /\ \A k \in 1..n : s[k] \in S /\ Rank(S, f, s[k]) = k - 1
            /\ \A x \in S : \E k \in 1..n : s[k] = x
            /\ \A k, l \in 1..n : s[k] = s[l] => k = l
            /\ \A x, y \in S : Rank(S, f, x) = Rank(S, f, y) => x = y
<1> DEFINE n == Cardinality(S)
           Low(x) == {y \in S : f[y] < f[x]}
           c == [x \in S |-> Cardinality(Low(x))]
           s == InOrder(S, f)
<1>1. n \in Nat
  BY FS_CardinalityType
<1>2. ASSUME NEW T \in SUBSET S
      PROVE  /\ IsFiniteSet(T) /\ Cardinality(T) \in Nat /\ Cardinality(T) <= n
             /\ Cardinality(T) = n => T = S
  BY FS_Subset, FS_CardinalityType
<1> HIDE DEF n
<1>3. \A x \in S : Low(x) \in SUBSET S /\ x \notin Low(x)
  OBVIOUS
<1>4. \A x, y \in S : f[x] < f[y] => Low(x) \in SUBSET Low(y) /\ x \in Low(y)
  OBVIOUS
<1> HIDE DEF Low
<1>5. \A x \in S : c[x] \in 0..(n - 1)
  <2> SUFFICES ASSUME NEW x \in S PROVE Cardinality(Low(x)) \in 0..(n - 1)
    OBVIOUS
  <2>1. Cardinality(Low(x)) \in Nat /\ Cardinality(Low(x)) <= n /\ Cardinality(Low(x)) # n
    BY <1>2, <1>3
  <2> QED
    BY <1>1, <2>1
<1>6. ASSUME NEW x \in S, NEW y \in S, f[x] < f[y] PROVE c[x] < c[y]
  <2>1. Low(x) \in SUBSET Low(y) /\ Low(x) # Low(y) /\ IsFiniteSet(Low(y))
    BY <1>2, <1>3, <1>4, <1>6
  <2>2. Cardinality(Low(x)) <= Cardinality(Low(y))
        /\ Cardinality(Low(x)) # Cardinality(Low(y))
    BY <2>1, FS_Subset
  <2>3. c[x] <= c[y] /\ c[x] # c[y] /\ c[x] \in 0..(n - 1) /\ c[y] \in 0..(n - 1)
    BY <1>5, <2>2
  <2> HIDE DEF c
  <2> QED
    BY <1>1, <2>3
<1>7. \A x, y \in S : c[x] = c[y] => x = y
  <2> SUFFICES ASSUME NEW x \in S, NEW y \in S, c[x] = c[y], x # y PROVE FALSE
    OBVIOUS
  <2>1. f[x] < f[y] \/ f[y] < f[x]
    OBVIOUS
  <2>2. c[x] < c[y] \/ c[y] < c[x]
    BY <1>6, <2>1
  <2>3. c[x] \in Int /\ c[y] \in Int
    BY <1>5
  <2> HIDE DEF c
  <2> QED
    BY <2>2, <2>3
<1>8. c \in Injection(S, 0..(n - 1))
  <2>1. c \in [S -> 0..(n - 1)]
    BY <1>5
  <2> HIDE DEF c
  <2> QED
    BY <1>7, <2>1 DEF Injection, IsInjective
<1>9. c \in Surjection(S, 0..(n - 1))
  <2>1. IsFiniteSet(0..(n - 1)) /\ Cardinality(0..(n - 1)) = n
    <3>1. n - 1 \in Int /\ 0 \in Int
      BY <1>1
    <3>2. IsFiniteSet(0..(n - 1))
          /\ Cardinality(0..(n - 1)) = IF 0 > n - 1 THEN 0 ELSE (n - 1) - 0 + 1
      BY <3>1, FS_Interval
    <3> QED
      BY <1>1, <3>2
  <2> HIDE DEF c
  <2> QED
    BY <1>8, <2>1, FS_Injection DEF n
<1>10. s = [k \in 1..n |-> CHOOSE x \in S : Cardinality(Low(x)) = k - 1]
  BY DEF InOrder, Low, n
<1>11. \A k \in 1..n : s[k] \in S /\ Cardinality(Low(s[k])) = k - 1
  <2> SUFFICES ASSUME NEW k \in 1..n PROVE s[k] \in S /\ Cardinality(Low(s[k])) = k - 1
    OBVIOUS
  <2>1. k - 1 \in 0..(n - 1)
    BY <1>1
  <2>2. PICK x \in S : c[x] = k - 1
    <3> HIDE DEF c
    <3> QED
      BY <1>9, <2>1 DEF Surjection
  <2>3. \E y \in S : Cardinality(Low(y)) = k - 1
    BY <2>2
  <2>4. s[k] = CHOOSE y \in S : Cardinality(Low(y)) = k - 1
    BY <1>10
  <2> HIDE DEF s
  <2> QED
    BY <2>3, <2>4
<1>12. DOMAIN s = 1..n /\ s = [k \in 1..n |-> s[k]]
  BY <1>10
<1> HIDE DEF s
<1>13. List(s) /\ Len(s) = n
  <2>1. Len(s) = n
    BY <1>1, <1>12
  <2> QED
    BY <1>1, <1>12, <2>1 DEF List
<1>14. \A x \in S : \E k \in 1..n : s[k] = x
  <2> SUFFICES ASSUME NEW x \in S PROVE \E k \in 1..n : s[k] = x
    OBVIOUS
  <2> DEFINE k == c[x] + 1
  <2>1. c[x] \in 0..(n - 1)
    BY <1>5
  <2>2. k \in 1..n /\ k - 1 = c[x]
    <3> HIDE DEF c
    <3> QED
      BY <1>1, <2>1
  <2>3. s[k] \in S /\ Cardinality(Low(s[k])) = c[x]
    <3> HIDE DEF c
    <3> QED
      BY <1>11, <2>2
  <2>4. c[s[k]] = c[x]
    BY <2>3
  <2>5. s[k] = x
    <3> HIDE DEF c
    <3> QED
      BY <1>7, <2>3, <2>4
  <2> QED
    BY <2>2, <2>5
<1>15. ASSUME NEW k \in 1..n, NEW l \in 1..n, s[k] = s[l] PROVE k = l
  <2>1. k - 1 = l - 1
    BY <1>11, <1>15
  <2> QED
    BY <1>1, <2>1
<1>16. S # {} => n >= 1
  BY <1>1, <1>14
<1>17. \A x, y \in S : Cardinality(Low(x)) = Cardinality(Low(y)) => x = y
  BY <1>7
<1>18. \A x \in S : Rank(S, f, x) = Cardinality(Low(x))
  BY DEF Rank, Low
<1>19. /\ \A k \in 1..n : s[k] \in S /\ Rank(S, f, s[k]) = k - 1
       /\ \A x, y \in S : Rank(S, f, x) = Rank(S, f, y) => x = y
  BY <1>11, <1>17, <1>18
<1> HIDE DEF c
<1> QED
  BY <1>1, <1>12, <1>13, <1>14, <1>15, <1>16, <1>19 DEF n, s

\* Leaves of a context of which no two have their channel and their ctx_id in
\* common.
Context(R) ==
  /\ R \subseteq ContextLeaf /\ IsFiniteSet(R) /\ R # {}
  /\ \A x, y \in R : (x.channel = y.channel /\ x.ctxId = y.ctxId) => x = y

\* The leaves of a channel in the order of their ctx_ids.
ChannelLeaves(R, c) ==
  LET mine == {x \in R : x.channel = c}
  IN InOrder(mine, [x \in mine |-> x.ctxId])

ChannelRoot(R, c) == Reduce(LeafHashes(ChannelLeaves(R, c)))

\* The channels there are, in order.
ChannelOrder(R) ==
  LET present == {x.channel : x \in R}
  IN InOrder(present, [c \in present |-> c])

\* The root of a context from its set of leaves.
ContextRoot(R) ==
  Reduce([i \in DOMAIN ChannelOrder(R) |-> ChannelRoot(R, ChannelOrder(R)[i])])

\* The leaves of a list at these places.
Along(l, order) == [k \in DOMAIN order |-> l[order[k]]]

\* The list s has the leaves of l at the places in mine, in the order of f.
Arranged(s, l, order, mine, f) ==
  /\ List(s) /\ Len(s) >= 1 /\ Len(s) = Cardinality(mine)
  /\ \A k \in 1..Len(s) : /\ order[k] \in mine /\ s[k] = l[order[k]]
                          /\ Rank(mine, f, order[k]) = k - 1
  /\ \A j \in mine : \E k \in 1..Len(s) : s[k] = l[j]
  /\ \A j, k \in 1..Len(s) : order[j] = order[k] => j = k

\* Places in the order of their numbers, each with its leaf.
LEMMA PlacesList ==
  ASSUME NEW l, NEW mine, IsFiniteSet(mine), mine # {}, NEW f, \A j \in mine : f[j] \in Int,
         \A i, j \in mine : f[i] = f[j] => i = j
  PROVE  Arranged(Along(l, InOrder(mine, f)), l, InOrder(mine, f), mine, f)
<1> DEFINE order == InOrder(mine, f)
           n == Cardinality(mine)
           s == Along(l, order)
<1>1. /\ n \in Nat /\ DOMAIN order = 1..n /\ n >= 1
      /\ \A k \in 1..n : order[k] \in mine /\ Rank(mine, f, order[k]) = k - 1
      /\ \A x \in mine : \E k \in 1..n : order[k] = x
      /\ \A j, k \in 1..n : order[j] = order[k] => j = k
  BY InOrderLists
<1> HIDE DEF order, n
<1>2. s = [k \in 1..n |-> l[order[k]]]
  BY <1>1 DEF Along
<1>3. Len(s) = n /\ \A k \in 1..n : s[k] = l[order[k]]
  BY <1>1, <1>2
<1>4. List(s)
  <2>1. s = [k \in 1..n |-> s[k]]
    BY <1>2
  <2> HIDE DEF s
  <2> QED
    BY <1>1, <1>3, <2>1 DEF List
<1> HIDE DEF s
<1>5. /\ List(s) /\ Len(s) >= 1 /\ Len(s) = n
      /\ \A k \in 1..Len(s) : /\ order[k] \in mine /\ s[k] = l[order[k]]
                              /\ Rank(mine, f, order[k]) = k - 1
      /\ \A j \in mine : \E k \in 1..Len(s) : s[k] = l[j]
      /\ \A j, k \in 1..Len(s) : order[j] = order[k] => j = k
  BY <1>1, <1>3, <1>4
<1> QED
  BY <1>5 DEF order, s, n, Arranged

\* A partition has the leaves of its channel, no ctx_id twice.
LEMMA PartitionIs ==
  ASSUME NEW items \in Seq(ContextLeaf), ContextOk(items), NEW c \in Channels(items)
  PROVE  LET p == Partition(items, c)
         IN /\ List(p) /\ Len(p) >= 1
            /\ \A k \in 1..Len(p) : p[k] \in Range(items) /\ p[k].channel = c
            /\ \A x \in Range(items) : x.channel = c => \E k \in 1..Len(p) : p[k] = x
            /\ \A j, k \in 1..Len(p) : p[j].ctxId = p[k].ctxId => j = k
<1> DEFINE D == DOMAIN items
           mine == {j \in D : items[j].channel = c}
           f == [j \in mine |-> j]
           order == InOrder(mine, f)
           p == Along(items, order)
<1>1. D = 1..Len(items) /\ Len(items) \in Nat
  OBVIOUS
<1>2. IsFiniteSet(mine) /\ mine # {}
  <2>1. IsFiniteSet(D)
    BY <1>1, FS_Interval
  <2>2. mine \in SUBSET D
    OBVIOUS
  <2>3. PICK j \in D : c = items[j].channel
    BY DEF Channels
  <2>4. j \in mine
    BY <2>3
  <2> HIDE DEF mine
  <2> QED
    BY <2>1, <2>2, <2>4, FS_Subset
<1>3. (\A j \in mine : f[j] \in Int) /\ (\A i, j \in mine : f[i] = f[j] => i = j)
  BY <1>1
<1>4. \A j \in mine : j \in D /\ items[j].channel = c
  OBVIOUS
<1>5. \A j \in D : items[j].channel = c => j \in mine
  OBVIOUS
<1>6. Partition(items, c) = p
  BY DEF Partition, Along
<1> HIDE DEF mine, f
<1>7. /\ List(p) /\ Len(p) >= 1
      /\ \A k \in 1..Len(p) : order[k] \in mine /\ p[k] = items[order[k]]
      /\ \A j \in mine : \E k \in 1..Len(p) : p[k] = items[j]
      /\ \A j, k \in 1..Len(p) : order[j] = order[k] => j = k
  <2>1. Arranged(p, items, order, mine, f)
    BY <1>2, <1>3, PlacesList
  <2> HIDE DEF p, order
  <2> QED
    BY <2>1 DEF Arranged
<1> HIDE DEF p, order
<1>8. \A k \in 1..Len(p) : p[k] \in Range(items) /\ p[k].channel = c
  BY <1>4, <1>7 DEF Range
<1>9. \A x \in Range(items) : x.channel = c => \E k \in 1..Len(p) : p[k] = x
  BY <1>5, <1>7 DEF Range
<1>10. ASSUME NEW j \in 1..Len(p), NEW k \in 1..Len(p), p[j].ctxId = p[k].ctxId
       PROVE  j = k
  <2>1. /\ order[j] \in D /\ order[k] \in D
        /\ items[order[j]].channel = c /\ items[order[k]].channel = c
        /\ items[order[j]].ctxId = items[order[k]].ctxId
    BY <1>4, <1>7, <1>10
  <2>2. order[j] = order[k]
    BY <2>1 DEF ContextOk
  <2> QED
    BY <1>7, <2>2
<1> QED
  BY <1>6, <1>7, <1>8, <1>9, <1>10

\* sortLeaves gives the leaves in the order of their ctx_ids, whatever the
\* order they came in.
LEMMA SortLeavesIs ==
  ASSUME NEW p, List(p), Len(p) >= 1, \A k \in 1..Len(p) : p[k].ctxId \in Int,
         \A j, k \in 1..Len(p) : p[j].ctxId = p[k].ctxId => j = k,
         NEW S, \A k \in 1..Len(p) : p[k] \in S, \A x \in S : \E k \in 1..Len(p) : p[k] = x
  PROVE  SortLeaves(p) = InOrder(S, [x \in S |-> x.ctxId])
<1> DEFINE n == Len(p)
           D == 1..n
           f == [j \in D |-> p[j].ctxId]
           g == [x \in S |-> x.ctxId]
           order == InOrder(D, f)
           s == Along(p, order)
           t == InOrder(S, g)
<1>1. n \in Nat /\ n >= 1 /\ DOMAIN p = D
  BY DEF List
<1>2. SortLeaves(p) = s
  BY <1>1 DEF SortLeaves, Along
<1>3. IsFiniteSet(D) /\ Cardinality(D) = n /\ D # {}
  <2>1. 1 \in Int /\ n \in Int /\ 1 \in D
    BY <1>1
  <2>2. IsFiniteSet(1..n) /\ Cardinality(1..n) = IF 1 > n THEN 0 ELSE n - 1 + 1
    BY <2>1, FS_Interval
  <2> QED
    BY <1>1, <2>1, <2>2
<1>4. (\A j \in D : f[j] \in Int) /\ (\A i, j \in D : f[i] = f[j] => i = j)
  OBVIOUS
<1>5. \A T \in SUBSET D : /\ IsFiniteSet({p[j] : j \in T})
                          /\ Cardinality({p[j] : j \in T}) = Cardinality(T)
  <2> TAKE T \in SUBSET D
  <2> DEFINE U == {p[j] : j \in T}
             h == [j \in T |-> p[j]]
  <2>1. h \in Surjection(T, U) /\ h \in Injection(T, U)
    <3>1. h \in [T -> U] /\ (\A y \in U : \E j \in T : h[j] = y)
      OBVIOUS
    <3>2. \A i, j \in T : h[i] = h[j] => i = j
      OBVIOUS
    <3> HIDE DEF h, U
    <3> QED
      BY <3>1, <3>2 DEF Surjection, Injection, IsInjective
  <2>2. IsFiniteSet(T)
    BY <1>3, FS_Subset
  <2> HIDE DEF h, U
  <2>3. IsFiniteSet(U) /\ Cardinality(U) = Cardinality(T)
    BY <2>1, <2>2, FS_Surjection
  <2> QED
    BY <2>3 DEF U
<1>6. S = {p[j] : j \in D}
  OBVIOUS
<1>7. IsFiniteSet(S) /\ Cardinality(S) = n /\ S # {}
  <2>1. D \in SUBSET D
    OBVIOUS
  <2> HIDE DEF D
  <2>2. IsFiniteSet(S) /\ Cardinality(S) = n
    BY <1>3, <1>5, <1>6, <2>1
  <2>3. S # {}
    BY <1>3, <1>6
  <2> QED
    BY <2>2, <2>3
<1>8. (\A x \in S : g[x] \in Int) /\ (\A x, y \in S : g[x] = g[y] => x = y)
  OBVIOUS
<1>9. \A j \in D : Rank(S, g, p[j]) = Rank(D, f, j)
  <2> TAKE j \in D
  <2> DEFINE T == {i \in D : f[i] < f[j]}
  <2>1. \A i \in D : p[i] \in S /\ g[p[i]] = f[i]
    OBVIOUS
  <2>2. T \in SUBSET D
    OBVIOUS
  <2> HIDE DEF f, g, D
  <2>3. {y \in S : g[y] < g[p[j]]} = {p[i] : i \in T}
    BY <1>6, <2>1
  <2> HIDE DEF T
  <2>4. Cardinality({y \in S : g[y] < g[p[j]]}) = Cardinality(T)
    BY <1>5, <2>2, <2>3
  <2> QED
    BY <2>4 DEF Rank, T
<1>10. \A j \in D : p[j] \in S
  OBVIOUS
<1> HIDE DEF f, g
<1>11. /\ List(s) /\ Len(s) = n
       /\ \A k \in 1..Len(s) : /\ order[k] \in D /\ s[k] = p[order[k]]
                               /\ Rank(D, f, order[k]) = k - 1
  <2> HIDE DEF D, n
  <2>1. Arranged(s, p, order, D, f)
    BY <1>3, <1>4, PlacesList
  <2> HIDE DEF s, order
  <2> QED
    BY <1>3, <2>1 DEF Arranged
<1>12. /\ List(t) /\ Len(t) = n
       /\ \A k \in 1..n : t[k] \in S /\ Rank(S, g, t[k]) = k - 1
       /\ \A x, y \in S : Rank(S, g, x) = Rank(S, g, y) => x = y
  <2> HIDE DEF n
  <2>1. /\ List(t) /\ Len(t) = Cardinality(S)
        /\ \A k \in 1..Cardinality(S) : t[k] \in S /\ Rank(S, g, t[k]) = k - 1
        /\ \A x, y \in S : Rank(S, g, x) = Rank(S, g, y) => x = y
    BY <1>7, <1>8, InOrderLists, Zenon
  <2> QED
    BY <1>7, <2>1
<1> HIDE DEF order, s, t, D
<1>13. ASSUME NEW k \in 1..n PROVE s[k] = t[k]
  <2>1. /\ order[k] \in D /\ s[k] = p[order[k]] /\ s[k] \in S
        /\ Rank(D, f, order[k]) = k - 1
    BY <1>10, <1>11
  <2>2. Rank(S, g, s[k]) = k - 1
    BY <1>9, <2>1
  <2> QED
    BY <1>12, <2>1, <2>2
<1>14. s = [k \in 1..n |-> s[k]] /\ t = [k \in 1..n |-> t[k]]
  BY <1>11, <1>12 DEF List
<1>15. s = t
  <2> HIDE DEF n
  <2> QED
    BY <1>13, <1>14
<1> QED
  BY <1>2, <1>15 DEF t, g

\* The leaves of a list that BuildPartitionRoot does not refuse.
LEMMA RangeIsContext ==
  ASSUME NEW items \in Seq(ContextLeaf), ContextOk(items), items # << >>
  PROVE  Context(Range(items))
<1> DEFINE D == DOMAIN items
           R == Range(items)
<1>1. D = 1..Len(items) /\ Len(items) \in Nat
  OBVIOUS
<1>2. R = {items[i] : i \in D}
  BY DEF Range
<1>3. IsFiniteSet(R)
  <2>1. IsFiniteSet(D)
    BY <1>1, FS_Interval
  <2> DEFINE f == [i \in D |-> items[i]]
  <2>2. f \in Surjection(D, R)
    <3>1. f \in [D -> R] /\ \A y \in R : \E i \in D : f[i] = y
      BY <1>2
    <3> HIDE DEF f, R, D
    <3> QED
      BY <3>1 DEF Surjection
  <2> HIDE DEF f, R, D
  <2> QED
    BY <2>1, <2>2, FS_Surjection
<1>4. R # {} /\ R \subseteq ContextLeaf
  <2>1. D # {}
    OBVIOUS
  <2>2. \A i \in D : items[i] \in ContextLeaf
    OBVIOUS
  <2> HIDE DEF D, R
  <2> QED
    BY <1>2, <2>1, <2>2
<1>5. \A x, y \in R : (x.channel = y.channel /\ x.ctxId = y.ctxId) => x = y
  <2> HIDE DEF R
  <2> QED
    BY <1>2 DEF ContextOk
<1> QED
  BY <1>3, <1>4, <1>5 DEF Context

\* The leaves of a channel, one after the other.
LEMMA ChannelLeavesIs ==
  ASSUME NEW R, Context(R), NEW c \in {x.channel : x \in R}
  PROVE  LET s == ChannelLeaves(R, c)
         IN /\ List(s) /\ Len(s) >= 1
            /\ \A k \in 1..Len(s) : s[k] \in R /\ s[k].channel = c
            /\ \A x \in R : x.channel = c => \E k \in 1..Len(s) : s[k] = x
<1> DEFINE S == {x \in R : x.channel = c}
           g == [x \in S |-> x.ctxId]
           s == InOrder(S, g)
<1>1. ChannelLeaves(R, c) = s
  BY DEF ChannelLeaves
<1>2. S \in SUBSET R /\ S # {} /\ IsFiniteSet(S)
  <2>1. S \in SUBSET R /\ S # {}
    OBVIOUS
  <2>2. IsFiniteSet(R)
    BY DEF Context
  <2> HIDE DEF S
  <2> QED
    BY <2>1, <2>2, FS_Subset
<1>3. (\A x \in S : g[x] \in Int) /\ (\A x, y \in S : g[x] = g[y] => x = y)
  BY DEF Context, ContextLeaf
<1>4. \A x : x \in S <=> x \in R /\ x.channel = c
  OBVIOUS
<1> HIDE DEF S, g
<1>5. /\ List(s) /\ Len(s) = Cardinality(S) /\ Cardinality(S) >= 1
      /\ \A k \in 1..Cardinality(S) : s[k] \in S
      /\ \A x \in S : \E k \in 1..Cardinality(S) : s[k] = x
  BY <1>2, <1>3, InOrderLists
<1> HIDE DEF s
<1> QED
  BY <1>1, <1>4, <1>5

\* The channels of a context, one after the other.
LEMMA ChannelOrderIs ==
  ASSUME NEW R, Context(R)
  PROVE  LET o == ChannelOrder(R)
         IN /\ List(o) /\ Len(o) >= 1 /\ DOMAIN o = 1..Len(o)
            /\ \A k \in 1..Len(o) : o[k] \in {x.channel : x \in R}
            /\ \A x \in R : \E k \in 1..Len(o) : o[k] = x.channel
<1> DEFINE S == {x.channel : x \in R}
           g == [c \in S |-> c]
           o == InOrder(S, g)
<1>1. ChannelOrder(R) = o
  BY DEF ChannelOrder
<1>2. IsFiniteSet(S) /\ S # {}
  <2> DEFINE f == [x \in R |-> x.channel]
  <2>1. f \in Surjection(R, S)
    <3>1. f \in [R -> S] /\ \A y \in S : \E x \in R : f[x] = y
      OBVIOUS
    <3> HIDE DEF f, S
    <3> QED
      BY <3>1 DEF Surjection
  <2>2. IsFiniteSet(R) /\ R # {}
    BY DEF Context
  <2>3. S # {}
    BY <2>2
  <2> HIDE DEF f, S
  <2> QED
    BY <2>1, <2>2, <2>3, FS_Surjection
<1>3. (\A x \in S : g[x] \in Int) /\ (\A x, y \in S : g[x] = g[y] => x = y)
  BY DEF Context, ContextLeaf
<1>4. \A x \in R : x.channel \in S
  OBVIOUS
<1> HIDE DEF S, g
<1>5. /\ List(o) /\ Len(o) = Cardinality(S) /\ Cardinality(S) >= 1
      /\ \A k \in 1..Cardinality(S) : o[k] \in S
      /\ \A x \in S : \E k \in 1..Cardinality(S) : o[k] = x
      /\ DOMAIN o = 1..Cardinality(S)
  BY <1>2, <1>3, InOrderLists
<1> HIDE DEF o
<1> QED
  BY <1>1, <1>4, <1>5 DEF S

\* The root of a context is a matter of its leaves, not of their order.
LEMMA RootOfLeaves ==
  ASSUME NEW items \in Seq(ContextLeaf), ContextOk(items), items # << >>
  PROVE  BuildTopRoot(items) = ContextRoot(Range(items))
<1> DEFINE R == Range(items)
           present == Channels(items)
           o == InOrder(present, [c \in present |-> c])
<1>1. present = {x.channel : x \in R}
  BY DEF Channels, Range
<1>2. ChannelOrder(R) = o
  BY <1>1 DEF ChannelOrder
<1>3. Context(R)
  BY RangeIsContext
<1>4. ASSUME NEW c \in present
      PROVE  BuildPartitionRoot(Partition(items, c)) = ChannelRoot(R, c)
  <2> DEFINE p == Partition(items, c)
             S == {x \in R : x.channel = c}
  <2>1. /\ List(p) /\ Len(p) >= 1
        /\ \A k \in 1..Len(p) : p[k] \in R /\ p[k].channel = c
        /\ \A x \in R : x.channel = c => \E k \in 1..Len(p) : p[k] = x
        /\ \A j, k \in 1..Len(p) : p[j].ctxId = p[k].ctxId => j = k
    BY PartitionIs
  <2> HIDE DEF p, R
  <2>2. \A k \in 1..Len(p) : p[k].ctxId \in Int
    BY <1>3, <2>1 DEF Context, ContextLeaf
  <2>3. (\A k \in 1..Len(p) : p[k] \in S) /\ (\A x \in S : \E k \in 1..Len(p) : p[k] = x)
    BY <2>1
  <2>4. SortLeaves(p) = ChannelLeaves(R, c)
    <3> DEFINE t == InOrder(S, [x \in S |-> x.ctxId])
    <3>1. ChannelLeaves(R, c) = t
      BY DEF ChannelLeaves
    <3>2. SortLeaves(p) = t
      <4> HIDE DEF S
      <4> QED
        BY <2>1, <2>2, <2>3, SortLeavesIs
    <3> QED
      BY <3>1, <3>2
  <2>5. BuildPartitionRoot(p) = Reduce(LeafHashes(SortLeaves(p)))
    BY DEF BuildPartitionRoot, LeafHashes
  <2> QED
    BY <2>4, <2>5 DEF ChannelRoot, p
<1>5. BuildTopRoot(items) =
        Reduce([i \in DOMAIN o |-> BuildPartitionRoot(Partition(items, o[i]))])
  BY DEF BuildTopRoot
<1>6. \A i \in DOMAIN o : o[i] \in present
  <2> HIDE DEF R, o
  <2> QED
    BY <1>1, <1>2, <1>3, ChannelOrderIs
<1> HIDE DEF o, R, present
<1>7. [i \in DOMAIN o |-> BuildPartitionRoot(Partition(items, o[i]))] =
        [i \in DOMAIN o |-> ChannelRoot(R, o[i])]
  BY <1>4, <1>6
<1> QED
  BY <1>2, <1>5, <1>7 DEF ContextRoot, R

\* The list whose fold is the root of a context.
LEMMA ContextTops ==
  ASSUME NEW R, Context(R)
  PROVE  \E b : /\ List(b) /\ Len(b) >= 1 /\ ContextRoot(R) = Reduce(b)
                /\ \A i \in 1..Len(b) : \E c \in {x.channel : x \in R} : b[i] = ChannelRoot(R, c)
                /\ \A x \in R : \E i \in 1..Len(b) : b[i] = ChannelRoot(R, x.channel)
<1> DEFINE o == ChannelOrder(R)
           n == Len(o)
           b == [i \in DOMAIN o |-> ChannelRoot(R, o[i])]
<1>1. /\ List(o) /\ n >= 1 /\ DOMAIN o = 1..n
      /\ \A k \in 1..n : o[k] \in {x.channel : x \in R}
      /\ \A x \in R : \E k \in 1..n : o[k] = x.channel
  BY ChannelOrderIs
<1>2. n \in Nat
  BY <1>1 DEF List
<1>3. ContextRoot(R) = Reduce(b)
  BY DEF ContextRoot
<1> HIDE DEF o, n
<1>4. b = [i \in 1..n |-> ChannelRoot(R, o[i])]
  BY <1>1
<1>5. Len(b) = n /\ (\A i \in 1..n : b[i] = ChannelRoot(R, o[i])) /\ b = [i \in 1..n |-> b[i]]
  BY <1>2, <1>4
<1> HIDE DEF b
<1>6. List(b)
  BY <1>2, <1>5 DEF List
<1>7. Len(b) >= 1
  BY <1>1, <1>5
<1>8. \A i \in 1..Len(b) : \E c \in {x.channel : x \in R} : b[i] = ChannelRoot(R, c)
  BY <1>1, <1>5
<1>9. \A x \in R : \E i \in 1..Len(b) : b[i] = ChannelRoot(R, x.channel)
  BY <1>1, <1>5
<1> QED
  BY <1>3, <1>6, <1>7, <1>8, <1>9

\* The root of a context is made from the hashes of its leaves.
LEMMA ContextMade ==
  ASSUME NEW R, Context(R)
  PROVE  Made(ContextRoot(R), {HashLeaf(x) : x \in R})
<1> DEFINE H == {HashLeaf(x) : x \in R}
<1>1. \A h \in H : Made(h, H)
  <2> HIDE DEF H
  <2> SUFFICES ASSUME NEW h \in H PROVE h \in H /\ Grown(H, H)
    BY DEF Made
  <2> QED
    BY DEF Grown
<1>2. ASSUME NEW c \in {x.channel : x \in R} PROVE Made(ChannelRoot(R, c), H)
  <2> DEFINE s == ChannelLeaves(R, c)
             b == LeafHashes(s)
  <2>1. List(s) /\ Len(s) >= 1 /\ \A k \in 1..Len(s) : s[k] \in R
    BY ChannelLeavesIs
  <2>2. List(b) /\ Len(b) = Len(s) /\ \A i \in 1..Len(s) : b[i] = HashLeaf(s[i])
    BY <2>1, LeafHashesList
  <2> HIDE DEF s, b
  <2>3. \A i \in 1..Len(b) : b[i] \in H
    BY <2>1, <2>2
  <2> HIDE DEF H
  <2>4. Made(Reduce(b), H)
    BY <1>1, <2>1, <2>2, <2>3, FoldIsMade
  <2> QED
    BY <2>4 DEF ChannelRoot, b, s
<1> HIDE DEF H
<1>3. PICK b : /\ List(b) /\ Len(b) >= 1 /\ ContextRoot(R) = Reduce(b)
               /\ \A i \in 1..Len(b) :
                    \E c \in {x.channel : x \in R} : b[i] = ChannelRoot(R, c)
  BY ContextTops
<1>4. \A i \in 1..Len(b) : Made(b[i], H)
  BY <1>2, <1>3
<1>5. Made(Reduce(b), H)
  BY <1>3, <1>4, FoldIsMade
<1> QED
  BY <1>3, <1>5 DEF H

\* What has the root of a context, and with a node what is below it, has the
\* hashes of its leaves.
LEMMA ContextHolds ==
  ASSUME NEW R, Context(R), NEW S, Closed(S), ContextRoot(R) \in S
  PROVE  \A x \in R : HashLeaf(x) \in S
<1> SUFFICES ASSUME NEW x \in R PROVE HashLeaf(x) \in S
  OBVIOUS
<1>1. PICK b : /\ List(b) /\ Len(b) >= 1 /\ ContextRoot(R) = Reduce(b)
               /\ \A y \in R : \E i \in 1..Len(b) : b[i] = ChannelRoot(R, y.channel)
  BY ContextTops
<1>2. \A i \in 1..Len(b) : b[i] \in S
  BY <1>1, FoldHolds
<1>3. ChannelRoot(R, x.channel) \in S
  BY <1>1, <1>2
<1> DEFINE c == x.channel
           s == ChannelLeaves(R, c)
           d == LeafHashes(s)
<1>4. List(s) /\ Len(s) >= 1 /\ \E k \in 1..Len(s) : s[k] = x
  <2>1. c \in {y.channel : y \in R}
    OBVIOUS
  <2>2. \A y \in R : y.channel = c => \E k \in 1..Len(s) : s[k] = y
    BY <2>1, ChannelLeavesIs
  <2> QED
    BY <2>1, <2>2, ChannelLeavesIs
<1>5. List(d) /\ Len(d) = Len(s) /\ \A i \in 1..Len(s) : d[i] = HashLeaf(s[i])
  BY <1>4, LeafHashesList
<1>6. Reduce(d) \in S
  BY <1>3 DEF ChannelRoot
<1> HIDE DEF d, s
<1>7. \A i \in 1..Len(d) : d[i] \in S
  BY <1>4, <1>5, <1>6, FoldHolds
<1> QED
  BY <1>4, <1>5, <1>7

\* A context has the leaves of every context that has its root.
LEMMA RootHasLeaves ==
  ASSUME NEW R, Context(R), NEW Q, Context(Q), ContextRoot(R) = ContextRoot(Q)
  PROVE  R \subseteq Q
<1> DEFINE H == {HashLeaf(x) : x \in Q}
<1>1. PICK S : ContextRoot(Q) \in S /\ Grown(S, H)
  BY ContextMade DEF Made
<1>2. \A h \in H : \E x : h = HashLeaf(x)
  OBVIOUS
<1>3. \A x : HashLeaf(x) \in H => x \in Q
  BY HashesAreTerms
<1> HIDE DEF H
<1>4. Closed(S) /\ \A x : HashLeaf(x) \in S => HashLeaf(x) \in H
  BY <1>1, <1>2, GrownIsClosed
<1>5. \A x \in R : HashLeaf(x) \in S
  BY <1>1, <1>4, ContextHolds
<1> QED
  BY <1>3, <1>4, <1>5

\* The root of no leaves is that of nothing else.
LEMMA RootNotEmpty ==
  ASSUME NEW R, Context(R)
  PROVE  ContextRoot(R) # <<"node", "EMPTY">>
<1> DEFINE H == {HashLeaf(x) : x \in R}
<1>1. PICK S : ContextRoot(R) \in S /\ Grown(S, H)
  BY ContextMade DEF Made
<1>2. \A h \in H : \E x : h = HashLeaf(x)
  OBVIOUS
<1> HIDE DEF H
<1>3. <<"node", "EMPTY">> \notin S
  BY <1>1, <1>2, GrownIsClosed
<1> QED
  BY <1>1, <1>3

\* Two contexts have the same root exactly if they have the same leaves.
LEMMA ContextCommits ==
  ASSUME NEW u \in Seq(ContextLeaf), ContextOk(u), NEW v \in Seq(ContextLeaf), ContextOk(v)
  PROVE  BuildTopRoot(u) = BuildTopRoot(v) <=> Range(u) = Range(v)
<1>1. BuildTopRoot(<< >>) = <<"node", "EMPTY">> /\ Range(<< >>) = {}
  BY DEF BuildTopRoot, Range
<1>2. \A w \in Seq(ContextLeaf) : w # << >> => Range(w) # {}
  <2> TAKE w \in Seq(ContextLeaf)
  <2> HAVE w # << >>
  <2>1. 1 \in DOMAIN w
    OBVIOUS
  <2> QED
    BY <2>1 DEF Range
<1>3. ASSUME NEW w \in Seq(ContextLeaf), ContextOk(w), w # << >>
      PROVE  /\ BuildTopRoot(w) = ContextRoot(Range(w)) /\ Context(Range(w))
             /\ BuildTopRoot(w) # <<"node", "EMPTY">>
  BY <1>3, RootOfLeaves, RangeIsContext, RootNotEmpty
<1>4. CASE u = << >> /\ v = << >>
  BY <1>4
<1>5. CASE u = << >> /\ v # << >>
  BY <1>1, <1>2, <1>3, <1>5
<1>6. CASE u # << >> /\ v = << >>
  BY <1>1, <1>2, <1>3, <1>6
<1>7. CASE u # << >> /\ v # << >>
  <2>1. /\ BuildTopRoot(u) = ContextRoot(Range(u)) /\ Context(Range(u))
        /\ BuildTopRoot(v) = ContextRoot(Range(v)) /\ Context(Range(v))
    BY <1>3, <1>7
  <2>2. ContextRoot(Range(u)) = ContextRoot(Range(v)) => Range(u) = Range(v)
    BY <2>1, RootHasLeaves
  <2> QED
    BY <2>1, <2>2
<1> QED
  BY <1>4, <1>5, <1>6, <1>7

-----------------------------------------------------------------------------
\* What the prover keeps of the leaves: a bundle's are in order and none is
\* there twice, a context's are those its root was built from.
LeavesKept ==
  /\ pc = "root" => /\ style = "context" /\ leaves \in Lists["context"]
                    /\ ContextOk(leaves) /\ level = <<BuildTopRoot(leaves)>>
  /\ Built => /\ leaves \in Seq(Value)
              /\ style = "bundle" =>
                   \A i, j \in DOMAIN leaves : i < j => leaves[i][1] < leaves[j][1]

\* The inductive invariant of what a root commits to.
CommitInv == TreeInv /\ LeavesKept

\* Values of which none is in the list twice are in strict order once sorted.
LEMMA SortedStrictly ==
  ASSUME NEW l \in Seq(Value), IsInjective(l)
  PROVE  \A i, j \in DOMAIN Sorted(l) : i < j => Sorted(l)[i][1] < Sorted(l)[j][1]
<1> DEFINE s == Sorted(l)
           n == Len(l)
           D == 1..n
           V == Range(l)
<1>1. /\ s \in Seq(Value) /\ Len(s) = n /\ n \in Nat /\ Range(s) = V
      /\ DOMAIN l = D /\ DOMAIN s = D
      /\ \A i, j \in D : i < j => s[i][1] <= s[j][1]
  <2>1. /\ s \in Seq(Value) /\ Len(s) = n /\ Range(s) = V
        /\ \A i, j \in DOMAIN l : i < j => s[i][1] <= s[j][1]
    BY SortedKeeps
  <2> HIDE DEF s
  <2> QED
    BY <2>1
<1> HIDE DEF s
<1>2. IsFiniteSet(D)
  BY <1>1, FS_Interval
<1>3. l \in Injection(D, V) /\ l \in Surjection(D, V)
  <2>1. l \in [D -> V] /\ \A v \in V : \E i \in D : l[i] = v
    BY <1>1 DEF Range
  <2>2. \A i, j \in D : l[i] = l[j] => i = j
    BY <1>1 DEF IsInjective
  <2> HIDE DEF D, V
  <2> QED
    BY <2>1, <2>2 DEF Injection, Surjection, IsInjective
<1>4. s \in Surjection(D, V)
  <2>1. s \in [D -> V] /\ \A v \in V : \E i \in D : s[i] = v
    <3>1. \A v : v \in V <=> \E i \in D : s[i] = v
      BY <1>1 DEF Range
    <3>2. s = [i \in D |-> s[i]]
      BY <1>1
    <3> HIDE DEF V, D
    <3> QED
      BY <3>1, <3>2
  <2> HIDE DEF D, V
  <2> QED
    BY <2>1 DEF Surjection
<1>5. \A i, j \in D : s[i] = s[j] => i = j
  <2> HIDE DEF D, V
  <2>1. Cardinality(V) = Cardinality(D)
    BY <1>2, <1>3, FS_Surjection
  <2>2. s \in Injection(D, V)
    BY <1>2, <1>4, <2>1, FS_Surjection
  <2> QED
    BY <2>2 DEF Injection, IsInjective
<1>6. \A i \in D : s[i] \in Value
  BY <1>1
<1>7. ASSUME NEW i \in D, NEW j \in D, i < j PROVE s[i][1] < s[j][1]
  <2>1. s[i] \in Value /\ s[j] \in Value /\ s[i] # s[j]
    BY <1>5, <1>6, <1>7
  <2>2. s[i][1] \in Int /\ s[j][1] \in Int /\ s[i][1] # s[j][1]
    BY <2>1 DEF Value
  <2> QED
    BY <1>1, <1>7, <2>2
<1> QED
  BY <1>1, <1>7 DEF s

\* Every action keeps what is known of the leaves.
LEMMA LeavesStayKept ==
  ASSUME TreeInv, LeavesKept, [MerkleNext]_merkleVars
  PROVE  LeavesKept'
<1>1. CASE BuildContext
  <2>1. /\ pc = "start" /\ style = "context" /\ ContextOk(leaves)
        /\ level' = <<BuildTopRoot(leaves)>> /\ pc' = "root"
        /\ style' = style /\ leaves' = leaves
    BY <1>1 DEF BuildContext
  <2>2. leaves \in Lists["context"]
    BY <2>1 DEF TreeInv, TreeTypes
  <2>3. BuildTopRoot(leaves)' = BuildTopRoot(leaves) /\ ContextOk(leaves)' = ContextOk(leaves)
    BY <2>1
  <2>4. ~ Built'
    BY <2>1 DEF Built
  <2> QED
    BY <2>1, <2>2, <2>3, <2>4 DEF LeavesKept
<1>2. CASE ContextFails \/ \E t \in Targets : Fail(t)
  BY <1>2 DEF ContextFails, Fail, LeavesKept, Built
<1>3. CASE \E t \in Targets : Start(t)
  <2>1. /\ pc = "start" /\ style # "context" /\ pc' = "fold" /\ style' = style
        /\ leaves' = Sorted(leaves)
        /\ style = "bundle" => IsInjective(leaves)
    BY <1>3 DEF Start, Provable
  <2>2. leaves \in Seq(Value)
    BY <2>1, MerkleAssumption DEF TreeInv, TreeTypes, Styles
  <2>3. leaves' \in Seq(Value)
    BY <2>1, <2>2, SortedKeeps
  <2>4. style = "bundle" =>
          \A i, j \in DOMAIN Sorted(leaves) :
            i < j => Sorted(leaves)[i][1] < Sorted(leaves)[j][1]
    BY <2>1, <2>2, SortedStrictly
  <2>5. style' = "bundle" =>
          \A i, j \in DOMAIN leaves' : i < j => leaves'[i][1] < leaves'[j][1]
    BY <2>1, <2>4
  <2> QED
    BY <2>1, <2>3, <2>5 DEF LeavesKept
<1>4. CASE Built /\ Built' /\ UNCHANGED <<style, leaves>>
  <2>1. pc' # "root"
    BY <1>4 DEF Built
  <2> QED
    BY <1>4, <2>1 DEF LeavesKept
<1>5. CASE UNCHANGED merkleVars
  <2>1. /\ UNCHANGED <<style, leaves, level, pc>>
        /\ BuildTopRoot(leaves)' = BuildTopRoot(leaves) /\ ContextOk(leaves)' = ContextOk(leaves)
    BY <1>5 DEF merkleVars
  <2>2. Built' = Built
    BY <2>1 DEF Built
  <2> QED
    BY <2>1, <2>2 DEF LeavesKept
<1>6. ASSUME FoldLevel \/ Verify(TRUE, leaves[target + 1], target, Len(leaves))
             \/ (\E x \in Targets \cup seen : Verify(FALSE, x, 0, 1))
             \/ \E x \in Targets \cup seen, n \in 0..MaxCount :
                  \E i \in 0..n : Verify(FALSE, x, i, n)
      PROVE  Built /\ Built' /\ UNCHANGED <<style, leaves>>
  BY <1>6 DEF FoldLevel, Verify, Built
<1>7. ASSUME AttributionEnd \/ BundleEnd
             \/ \E s \in NextSteps : AttributionStep(s) \/ BundleStep(s) \/ BundleWrongStep(s)
      PROVE  Built /\ Built' /\ UNCHANGED <<style, leaves>>
  BY <1>7 DEF AttributionEnd, BundleEnd, AttributionStep, BundleStep, BundleWrongStep,
              Decide, Built
<1> QED
  BY <1>1, <1>2, <1>3, <1>4, <1>5, <1>6, <1>7 DEF MerkleNext

\* The invariant of the roots.
THEOREM CommitInductive ==
  MerkleSpec => []CommitInv
<1>1. MerkleInit => CommitInv
  <2> SUFFICES ASSUME MerkleInit PROVE CommitInv
    OBVIOUS
  <2>1. pc = "start"
    BY DEF MerkleInit
  <2> QED
    BY <2>1, TreeInit DEF CommitInv, LeavesKept, Built
<1>2. CommitInv /\ [MerkleNext]_merkleVars => CommitInv'
  BY TreeNext, LeavesStayKept DEF CommitInv
<1> QED
  BY <1>1, <1>2, PTL DEF MerkleSpec

\* The prover's fold ends in the tree of RFC 6962.
LEMMA FoldEndsInReference ==
  ASSUME TreeInv, Built, Len(level) = 1
  PROVE  Root = ReferenceRoot(leaves)
<1> DEFINE b == LeafHashes(leaves)
           n == Len(leaves)
<1>1. List(leaves) /\ n \in Nat /\ n >= 1 /\ DOMAIN leaves = 1..n
  BY DEF TreeInv, TreeTypes, List
<1>2. List(b) /\ Len(b) = n
  BY <1>1, LeafHashesList
<1>3. PICK L, h : Levels(L, h)
  BY DEF TreeInv, Tower
<1>4. /\ h \in Nat /\ h >= 1 /\ L[1] = b /\ L[h] = level /\ List(L[h])
      /\ \A k \in 1..(h - 1) : L[k + 1] = ReduceLevel(L[k])
  BY <1>1, <1>3 DEF Levels, LeafHashes
<1> DEFINE M == [k \in 0..(h - 1) |-> L[k + 1]]
<1>5. FoldsUp(M, b, h - 1)
  <2>1. DOMAIN M = 0..(h - 1) /\ M[0] = b
    BY <1>4
  <2>2. ASSUME NEW k \in 1..(h - 1) PROVE M[k] = ReduceLevel(M[k - 1])
    <3>1. k \in 0..(h - 1) /\ k - 1 \in 0..(h - 1) /\ (k - 1) + 1 = k
      BY <1>4
    <3>2. M[k] = L[k + 1] /\ M[k - 1] = L[k]
      BY <3>1
    <3> HIDE DEF M
    <3> QED
      BY <1>4, <3>2
  <2> HIDE DEF M, b
  <2> QED
    BY <2>1, <2>2 DEF FoldsUp
<1>6. M[h - 1] = level
  BY <1>4
<1> HIDE DEF M, b
<1>7. Widens(Subtrees(b), b, Len(b))
  BY <1>1, <1>2, SubtreesWiden
<1>8. Stretches(Subtrees(b), b, level)
  <2>1. h - 1 \in Nat /\ h - 1 \in 0..(h - 1)
    BY <1>4
  <2>2. Stretches(Subtrees(b), b, M[h - 1])
    BY <1>1, <1>2, <1>5, <1>7, <2>1, StretchesRise
  <2> QED
    BY <1>6, <2>2
<1>9. level[1] = Subtrees(b)[Len(b)].root[1][Len(b)]
  BY <1>1, <1>2, <1>4, <1>8, TopIsTree
<1>10. ReferenceRoot(leaves) = Subtrees(b)[n].root[1][n]
  BY DEF ReferenceRoot, LeafHashes, HashLeaf, b
<1> QED
  BY <1>2, <1>9, <1>10 DEF Root

\* The root commits to the leaves, in the three trees: it is the tree of RFC
\* 6962 and no other list's, a bundle's body verifies under it for its members
\* in order only, and a context's is that of its set of leaves.
THEOREM RootsCommit ==
  MerkleSpec => []RootCommits
<1>1. CommitInv => RootCommits
  <2> SUFFICES ASSUME TreeInv, LeavesKept PROVE RootCommits
    BY DEF CommitInv
  <2>1. ASSUME pc = "fold", Len(level) = 1
        PROVE  /\ Root = ReferenceRoot(leaves)
               /\ \A other \in Lists[style] \ {<< >>} :
                    ReferenceRoot(Sorted(other)) = Root => Sorted(other) = leaves
               /\ style = "bundle" =>
                    \A other \in Lists[style] : VerifyBundleBody(other, Root) <=> other = leaves
    <3>1. Built
      BY <2>1 DEF Built
    <3>2. Root = ReferenceRoot(leaves)
      BY <2>1, <3>1, FoldEndsInReference
    <3>3. /\ style \in {"attribution", "bundle"} /\ List(leaves) /\ Len(leaves) \in Nat
          /\ Len(leaves) >= 1 /\ DOMAIN leaves = 1..Len(leaves)
      BY <3>1 DEF TreeInv, TreeTypes, List
    <3>4. Lists[style] \subseteq Seq(Value)
      BY <3>3, MerkleAssumption
    <3>5. \A l \in Seq(Value) : List(l) /\ (l # << >> => Len(l) >= 1)
      <4> TAKE l \in Seq(Value)
      <4>1. Len(l) \in Nat /\ l = [i \in 1..Len(l) |-> l[i]] /\ (l # << >> => Len(l) >= 1)
        OBVIOUS
      <4> QED
        BY <4>1 DEF List
    <3>6. ASSUME NEW other \in Lists[style], other # << >>,
                 ReferenceRoot(Sorted(other)) = Root
          PROVE  Sorted(other) = leaves
      <4>1. other \in Seq(Value) /\ Len(other) >= 1
        BY <3>4, <3>5, <3>6
      <4>2. Sorted(other) \in Seq(Value) /\ Len(Sorted(other)) >= 1
        BY <4>1, SortedKeeps
      <4>3. List(Sorted(other))
        BY <3>5, <4>2
      <4> QED
        BY <3>2, <3>3, <3>6, <4>2, <4>3, ReferenceCommits
    <3>7. ASSUME NEW l, List(l), Len(l) >= 1
          PROVE  Reduce([i \in DOMAIN l |-> HashLeaf(l[i])]) = ReferenceRoot(l)
      <4> DEFINE b == LeafHashes(l)
      <4>1. List(b) /\ Len(b) = Len(l)
        BY <3>7, LeafHashesList
      <4>2. Reduce(b) = Subtrees(b)[Len(l)].root[1][Len(l)]
        BY <3>7, <4>1, FoldIsReference
      <4>3. ReferenceRoot(l) = Subtrees(b)[Len(l)].root[1][Len(l)]
        BY DEF ReferenceRoot, LeafHashes, HashLeaf
      <4> QED
        BY <4>2, <4>3 DEF LeafHashes
    <3>8. ASSUME style = "bundle", NEW other \in Lists[style]
          PROVE  VerifyBundleBody(other, Root) <=> other = leaves
      <4>1. ASSUME VerifyBundleBody(other, Root) PROVE other = leaves
        <5>1. List(other) /\ Len(other) >= 1
          BY <3>4, <3>5, <3>8, <4>1 DEF VerifyBundleBody
        <5>2. ReferenceRoot(other) = Root
          BY <3>7, <4>1, <5>1 DEF VerifyBundleBody
        <5> QED
          BY <3>2, <3>3, <5>1, <5>2, ReferenceCommits
      <4>2. VerifyBundleBody(leaves, Root)
        <5>1. leaves # << >>
          BY <3>3
        <5>2. ASSUME NEW i \in 1..(Len(leaves) - 1)
              PROVE  leaves[i][1] < leaves[i + 1][1]
          <6>1. i \in DOMAIN leaves /\ i + 1 \in DOMAIN leaves /\ i < i + 1
            BY <3>3
          <6> QED
            BY <3>1, <3>8, <6>1 DEF LeavesKept
        <5>3. Reduce([i \in DOMAIN leaves |-> HashLeaf(leaves[i])]) = Root
          BY <3>2, <3>3, <3>7
        <5> QED
          BY <5>1, <5>2, <5>3 DEF VerifyBundleBody
      <4> QED
        BY <4>1, <4>2
    <3> QED
      BY <3>2, <3>6, <3>8
  <2>2. ASSUME pc = "root", NEW other \in RootedContexts
        PROVE  other.root = Root <=> Range(other.items) = Range(leaves)
    <3>1. leaves \in Seq(ContextLeaf) /\ ContextOk(leaves) /\ Root = BuildTopRoot(leaves)
      BY <2>2, MerkleAssumption DEF LeavesKept, Root
    <3>2. PICK l \in Lists["context"] :
            ContextOk(l) /\ other = [items |-> l, root |-> BuildTopRoot(l)]
      BY <2>2 DEF RootedContexts
    <3>3. l \in Seq(ContextLeaf) /\ other.items = l /\ other.root = BuildTopRoot(l)
      BY <3>2, MerkleAssumption
    <3>4. BuildTopRoot(l) = BuildTopRoot(leaves) <=> Range(l) = Range(leaves)
      BY <3>1, <3>2, <3>3, ContextCommits
    <3> QED
      BY <3>1, <3>3, <3>4
  <2> QED
    BY <2>1, <2>2 DEF RootCommits
<1> QED
  BY <1>1, CommitInductive, PTL
=============================================================================
