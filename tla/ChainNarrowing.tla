--------------------------- MODULE ChainNarrowing ---------------------------
(***************************************************************************)
(* verify.VerifyDelegationChain: the loop that walks a typed delegation    *)
(* chain from the root, folding each link's stated bounds into the         *)
(* effective ceiling and refusing the chain at the first violation.  One   *)
(* action is the work on one link.                                         *)
(***************************************************************************)
EXTENDS Narrowing

CONSTANT Chains         \* the chains that may be presented

ASSUME ChainAssumption == Chains \subseteq Seq(Delegation)

VARIABLES
  chain,                \* the argument, root first
  next,                 \* the index of the link to check next
  bound,                \* effectiveBound: the ceiling carried from the root
  verdict               \* "checking", "ok" or the first violation

vars == <<chain, next, bound, verdict>>

EffectiveBound ==
  [spendLimit : Int \cup {None}, spendUnit : Units \cup {None},
   maxDepth : GoInt \cup {None}, notBefore : Int \cup {None}]

\* The zero value of effectiveBound.
NoBound ==
  [spendLimit |-> None, spendUnit |-> None, maxDepth |-> None,
   notBefore |-> None]

\* A stated value above, or below, an inherited one.
Above(stated, inherited) ==
  stated # None /\ inherited # None /\ stated > inherited
Below(stated, inherited) ==
  stated # None /\ inherited # None /\ stated < inherited

\* effectiveBound.narrow, its early returns: the first violation or "none".
NarrowViolation(b, d) ==
  IF /\ b.spendUnit # None
     /\ StatedSpendUnit(d) # None
     /\ StatedSpendUnit(d) # b.spendUnit       THEN "spend unit change"
  ELSE IF d.spendLimit = NonFinite             THEN "spend limit not finite"
  ELSE IF Above(d.spendLimit, b.spendLimit)    THEN "spend limit widening"
  ELSE IF Above(d.maxDepth, b.maxDepth)        THEN "depth limit widening"
  ELSE IF d.notBefore = Unparseable            THEN "notBefore unparseable"
  ELSE IF Below(d.notBefore, b.notBefore)      THEN "activation widening"
  ELSE "none"

\* Mutant of Narrow: each link compared with its parent only, an omitted bound
\* being no bound.
NarrowPairwise(b, d) ==
  [spendLimit |-> d.spendLimit, spendUnit |-> StatedSpendUnit(d),
   maxDepth |-> d.maxDepth, notBefore |-> d.notBefore]

\* effectiveBound.narrow, its assignments: an omitted bound inherits.
Narrow(b, d) ==
  [spendLimit |-> IF b.spendLimit = None \/ Below(d.spendLimit, b.spendLimit)
                  THEN d.spendLimit ELSE b.spendLimit,
   spendUnit  |-> IF b.spendUnit = None THEN StatedSpendUnit(d)
                  ELSE b.spendUnit,
   maxDepth   |-> IF b.maxDepth = None \/ Below(d.maxDepth, b.maxDepth)
                  THEN d.maxDepth ELSE b.maxDepth,
   notBefore  |-> IF d.notBefore # None THEN d.notBefore ELSE b.notBefore]

\* Mutant of BelowDepthFloor: only the ceiling has a floor.
CeilingBelowFloor(d) == d.maxDepth # None /\ d.maxDepth < 0

\* checkDepthFloor.
BelowDepthFloor(d) ==
  \/ d.currentDepth # None /\ d.currentDepth < 0
  \/ d.maxDepth # None /\ d.maxDepth < 0

\* The checks on the root, in order, under the zero ceiling b: the first
\* violation or "none".
RootViolation(b, root) ==
  IF NarrowViolation(b, root) # "none"   THEN NarrowViolation(b, root)
  ELSE IF BelowDepthFloor(root)          THEN "depth below zero"
  ELSE IF Above(DepthOf(root), Narrow(b, root).maxDepth)
                                         THEN "depth limit exceeded"
  ELSE "none"

\* The pairwise expiry rule: the first violation or "none".
ExpiryViolation(parent, child) ==
  IF \/ parent.expiresAt = Unparseable
     \/ child.expiresAt = Unparseable                THEN "expiry unparseable"
  ELSE IF parent.expiresAt # None /\ child.expiresAt = None
                                                     THEN "expiry dropped"
  ELSE IF Above(child.expiresAt, parent.expiresAt)   THEN "expiry widening"
  ELSE "none"

\* The body of the loop over parent and child, in order, under the ceiling b
\* inherited by the child: the first violation or "none".
LinkViolation(b, parent, child) ==
  IF child.delegatedBy # parent.delegatedTo    THEN "chain linkage broken"
  ELSE IF NarrowViolation(b, child) # "none"       THEN NarrowViolation(b, child)
  ELSE IF DepthOf(child) # Increment(DepthOf(parent))
                                               THEN "depth not monotonic"
  ELSE IF BelowDepthFloor(child)               THEN "depth below zero"
  ELSE IF Above(DepthOf(child), Narrow(b, child).maxDepth)
                                               THEN "depth limit exceeded"
  ELSE IF ~ScopesCover(parent.scope, child.scope) THEN "scope widening"
  ELSE ExpiryViolation(parent, child)

-----------------------------------------------------------------------------
Init ==
  /\ chain \in Chains
  /\ next = 1
  /\ bound = NoBound
  /\ verdict = "checking"

\* The outcome of one link's checks: carry on under the narrowed ceiling, or
\* return the violation.
Judge(violation, narrowed) ==
  \/ /\ violation = "none"
     /\ next' = next + 1
     /\ bound' = narrowed
     /\ UNCHANGED <<chain, verdict>>
  \/ /\ violation # "none"
     /\ verdict' = violation
     /\ UNCHANGED <<chain, next, bound>>

RefuseEmpty ==
  /\ verdict = "checking"
  /\ chain = << >>
  /\ verdict' = "chain is empty"
  /\ UNCHANGED <<chain, next, bound>>

CheckRoot ==
  /\ verdict = "checking"
  /\ chain # << >>
  /\ next = 1
  /\ Judge(RootViolation(bound, chain[1]), Narrow(bound, chain[1]))

CheckLink ==
  /\ verdict = "checking"
  /\ next \in 2..Len(chain)
  /\ Judge(LinkViolation(bound, chain[next-1], chain[next]),
           Narrow(bound, chain[next]))

Accept ==
  /\ verdict = "checking"
  /\ chain # << >>
  /\ next = Len(chain) + 1
  /\ verdict' = "ok"
  /\ UNCHANGED <<chain, next, bound>>

Next == RefuseEmpty \/ CheckRoot \/ CheckLink \/ Accept

Spec == Init /\ [][Next]_vars

-----------------------------------------------------------------------------
Violations ==
  {"chain is empty", "chain linkage broken", "spend unit change",
   "spend limit not finite", "spend limit widening", "depth limit widening",
   "notBefore unparseable", "activation widening", "depth below zero",
   "depth limit exceeded", "depth not monotonic", "scope widening",
   "expiry unparseable", "expiry dropped", "expiry widening"}

\* The loop stays inside the chain, the carried ceiling is always a real one,
\* and the verdict is one of those the code can return.
TypeOK ==
  /\ chain \in Seq(Delegation)
  /\ next \in 1..Len(chain) + 1
  /\ bound \in EffectiveBound
  /\ verdict \in Violations \cup {"checking", "ok"}

\* A ceiling that is the least of the values n links state, if any does.
LeastStated(b, stated, n) ==
  \/ b = None /\ \A k \in 1..n : stated[k] = None
  \/ /\ b # None
     /\ \E k \in 1..n : stated[k] = b
     /\ \A k \in 1..n : stated[k] = None \/ b <= stated[k]

\* A floor that is the greatest of the values n links state, if any does.
GreatestStated(b, stated, n) ==
  \/ b = None /\ \A k \in 1..n : stated[k] = None
  \/ /\ b # None
     /\ \E k \in 1..n : stated[k] = b
     /\ \A k \in 1..n : stated[k] = None \/ stated[k] <= b

\* b is the effective ceiling of the first n links of c: the minimum spend and
\* depth and the maximum activation time among those that state one, in the
\* unit one of them states.
CeilingOf(b, c, n) ==
  /\ LeastStated(b.spendLimit, [k \in 1..n |-> c[k].spendLimit], n)
  /\ LeastStated(b.maxDepth, [k \in 1..n |-> c[k].maxDepth], n)
  /\ GreatestStated(b.notBefore, [k \in 1..n |-> c[k].notBefore], n)
  /\ \A k \in 1..n : StatedSpendUnit(c[k]) \in {None, b.spendUnit}
  /\ b.spendUnit # None =>
       \E k \in 1..n : StatedSpendUnit(c[k]) = b.spendUnit

\* "A bounded ancestor facet never becomes unconstrained because a descendant
\* omitted the field": after each link the loop carries the effective ceiling
\* of all the links it has checked, and those links narrow.
EffectiveCeiling ==
  verdict = "checking" =>
    CeilingOf(bound, chain, next - 1) /\ Narrows(chain, next - 1)

\* checkDepthFloor's purpose: "the effective maxDepth is only a real bound on
\* chain length once there is a floor".  No accepted chain holds more links
\* after one that states a maxDepth than that maxDepth.
DepthBoundsLength ==
  verdict = "ok" =>
    \A j \in 1..Len(chain) :
      chain[j].maxDepth # None => Len(chain) <= chain[j].maxDepth + 1

\* Scope narrows end to end, although the loop compares neighbours only: in an
\* accepted chain whose scopes use "*" in the last place, every link's scopes
\* are covered by those of every ancestor.
ScopeNarrowsEndToEnd ==
  (/\ verdict = "ok"
   /\ \A k \in 1..Len(chain) : \A s \in chain[k].scope : WildcardLast(s)) =>
     \A j, k \in 1..Len(chain) :
       j < k => ScopesCover(chain[j].scope, chain[k].scope)

\* The loop implements the policy: it answers "ok" exactly on the chains that
\* narrow between every two links, and refuses all others.
Policy == INSTANCE ChainPolicy WITH
  outcome <- IF verdict = "checking" THEN "pending"
             ELSE IF verdict = "ok" THEN "accepted" ELSE "refused"
ImplementsPolicy == Policy!Spec
=============================================================================
