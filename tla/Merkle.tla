------------------------------- MODULE Merkle ------------------------------
(***************************************************************************)
(* The Merkle trees.  Two have inclusion proofs: attribution.go (a list of *)
(* receipt hashes) and receiptcore/supporting_record.go (the members of an *)
(* evidence bundle).  The third, cpa.go, is a tree per channel of a        *)
(* context under a tree of the channels.  A prover folds the leaves level  *)
(* by level and collects a proof; a verifier who has only the root walks a *)
(* proof it is handed, the prover's own or any other made from hashes that *)
(* are known.                                                              *)
(*                                                                         *)
(* SHA-256 is a free constructor: a hash is the term it was computed from. *)
(* Values have length 1, leaf hashes 2 and inner nodes 3, so that terms of *)
(* different make differ.  Values are numbers in the order of the strings. *)
(* A leaf of a context is its channel (its number in CHANNEL_ORDER), its   *)
(* ctx_id and what else is committed, in one record.                       *)
(***************************************************************************)
EXTENDS Integers, SequencesExt

CONSTANTS
  Lists,         \* style -> the lists of leaves a prover may start from
  Targets,       \* values a proof may be asked for
  MaxPath,       \* bound on the length of a made-up attribution proof
  MaxCount,      \* bound on a claimed leaf_count
  NoHash         \* no hash; nothing

Styles == {"attribution", "bundle", "context"}

Value == [1..1 -> Int]

ContextLeaf == [channel : Int, ctxId : Int, contentRef : Int]

ASSUME MerkleAssumption ==
  /\ \A s \in {"attribution", "bundle"} : Lists[s] \subseteq Seq(Value)
  /\ Lists["context"] \subseteq Seq(ContextLeaf)
  /\ MaxPath \in Nat /\ MaxCount \in Nat

VARIABLES
  style,         \* which of the trees
  leaves,        \* the leaves, sorted once the prover has started
  target,        \* position of the leaf to prove, from 0
  level, index,  \* the prover's loop
  path,          \* the proof so far
  seen,          \* every hash of the tree, what a proof can be made from
  pc,            \* "start", "none", "root", "fold", "walk", "accepted" or
                 \* "refused"
  proof,         \* the proof handed to the verifier, but for its path
  walk           \* the verifier's loop

merkleVars == <<style, leaves, target, level, index, path, seen, pc, proof, walk>>

-----------------------------------------------------------------------------
\* Mutant of HashLeaf: no tag, a leaf is its own hash.
HashLeafUntagged(x) == x

HashLeaf(x) == <<"leaf", x>>

HashNode(l, r) == <<"node", l, r>>

\* Mutant of ReduceLevel: the odd node out is paired with itself.
ReduceDuplicating(l) ==
  [i \in 1..((Len(l) + 1) \div 2) |->
     IF 2 * i <= Len(l) THEN HashNode(l[2 * i - 1], l[2 * i])
     ELSE HashNode(l[2 * i - 1], l[2 * i - 1])]

\* One level up: pairs are hashed, the odd node out is promoted.
ReduceLevel(l) ==
  [i \in 1..((Len(l) + 1) \div 2) |->
     IF 2 * i <= Len(l) THEN HashNode(l[2 * i - 1], l[2 * i])
     ELSE l[2 * i - 1]]

Parent(i) == i \div 2

\* The step a proof takes past position i of a level.  A promoted node leaves
\* no trace in an attribution proof, an explicit one in a bundle's.
ProofStep(l, i) ==
  IF i % 2 = 1 THEN <<[position |-> "left", hash |-> l[i]]>>
  ELSE IF i + 1 < Len(l) THEN <<[position |-> "right", hash |-> l[i + 2]]>>
  ELSE IF style = "bundle" THEN <<[position |-> "promote", hash |-> NoHash]>>
  ELSE << >>

\* sort.Strings: place k has the value that fewer than k of the leaves are
\* below, and at least k are not above.
Sorted(l) ==
  [k \in DOMAIN l |->
     CHOOSE v \in Range(l) :
       /\ Cardinality({j \in DOMAIN l : l[j][1] < v[1]}) < k
       /\ k <= Cardinality({j \in DOMAIN l : l[j][1] <= v[1]})]

\* A bundle refuses a member twice; a proof needs a leaf to prove.
Provable(t) ==
  /\ t \in Range(leaves)
  /\ style = "bundle" => IsInjective(leaves)

Combine(s, d) ==
  IF s.position = "left" THEN HashNode(s.hash, d)
  ELSE IF s.position = "right" THEN HashNode(d, s.hash)
  ELSE d

\* Mutant of PositionOk: the proof's word for it.
PositionAny(s, i, w) == TRUE

\* The position a bundle's verifier expects at place i of a level w wide.
PositionOk(s, i, w) ==
  s.position = IF i % 2 = 1 THEN "left"
               ELSE IF i + 1 < w THEN "right" ELSE "promote"

Root == level[1]

\* cpa.reduce, and the loop of EvidenceBundleMerkleRootV2: levels until one
\* node is left.
Reduce(l) ==
  LET up[k \in 0..Len(l)] == IF k = 0 THEN l ELSE ReduceLevel(up[k - 1])
  IN up[Len(l)][1]

\* VerifyEvidenceBundleBodyV2, of members that have their payloads' hashes:
\* in order, none twice, under their own root.
VerifyBundleBody(members, root) ==
  /\ members # << >>
  /\ \A i \in 1..(Len(members) - 1) : members[i][1] < members[i + 1][1]
  /\ Reduce([i \in DOMAIN members |-> HashLeaf(members[i])]) = root

\* The members of a finite set in the order of their numbers: place k has the
\* one that k - 1 others come before.
InOrder(S, number) ==
  [k \in 1..Cardinality(S) |->
     CHOOSE x \in S : Cardinality({y \in S : number[y] < number[x]}) = k - 1]

\* What the caller hands to BuildPartitionRoot.
Partition(items, channel) ==
  LET mine == {j \in DOMAIN items : items[j].channel = channel}
      order == InOrder(mine, [j \in mine |-> j])
  IN [k \in DOMAIN order |-> items[order[k]]]

Channels(items) == {items[i].channel : i \in DOMAIN items}

\* sortLeaves refuses a ctx_id twice within a partition.
ContextOk(items) ==
  \A i, j \in DOMAIN items :
    (items[i].channel = items[j].channel /\ items[i].ctxId = items[j].ctxId)
      => i = j

SortLeaves(items) ==
  LET order == InOrder(DOMAIN items, [j \in DOMAIN items |-> items[j].ctxId])
  IN [k \in DOMAIN order |-> items[order[k]]]

BuildPartitionRoot(items) ==
  LET sorted == SortLeaves(items)
  IN Reduce([i \in DOMAIN sorted |-> HashLeaf(sorted[i])])

\* BuildTopRoot over the partitions that are present, in the channels' order.
BuildTopRoot(items) ==
  LET present == Channels(items)
      order == InOrder(present, [c \in present |-> c])
  IN IF items = << >> THEN <<"node", "EMPTY">>
     ELSE Reduce([i \in DOMAIN order |->
                    BuildPartitionRoot(Partition(items, order[i]))])

-----------------------------------------------------------------------------
MerkleInit ==
  /\ style \in Styles
  /\ leaves \in Lists[style]
  /\ target = 0 /\ level = << >> /\ index = 0 /\ path = << >> /\ seen = {}
  /\ pc = "start" /\ proof = NoHash /\ walk = NoHash

\* BuildPartitionRoot for every channel there is, and BuildTopRoot.
BuildContext ==
  /\ pc = "start" /\ style = "context"
  /\ ContextOk(leaves)
  /\ level' = <<BuildTopRoot(leaves)>>
  /\ pc' = "root"
  /\ UNCHANGED <<style, leaves, target, index, path, seen, proof, walk>>

ContextFails ==
  /\ pc = "start" /\ style = "context"
  /\ ~ ContextOk(leaves)
  /\ pc' = "none"
  /\ UNCHANGED <<style, leaves, target, level, index, path, seen, proof, walk>>

\* GenerateMerkleProof returns nil, BuildEvidenceBundle...V2 an error.
Fail(t) ==
  /\ pc = "start" /\ style # "context"
  /\ ~ Provable(t)
  /\ pc' = "none"
  /\ UNCHANGED <<style, leaves, target, level, index, path, seen, proof, walk>>

\* Sort, hash the leaves and find the first that is asked for.
Start(t) ==
  /\ pc = "start" /\ style # "context"
  /\ Provable(t)
  /\ leaves' = Sorted(leaves)
  /\ target' = (CHOOSE i \in DOMAIN leaves' :
                  leaves'[i] = t /\ \A j \in 1..(i - 1) : leaves'[j] # t) - 1
  /\ index' = target'
  /\ level' = [i \in DOMAIN leaves' |-> HashLeaf(leaves'[i])]
  /\ seen' = Range(level')
  /\ pc' = "fold"
  /\ UNCHANGED <<style, path, proof, walk>>

FoldLevel ==
  /\ pc = "fold" /\ Len(level) > 1
  /\ path' = path \o ProofStep(level, index)
  /\ level' = ReduceLevel(level)
  /\ index' = Parent(index)
  /\ seen' = seen \cup Range(level')
  /\ UNCHANGED <<style, leaves, target, pc, proof, walk>>

\* The verifier is handed a proof that member is leaf i of n.
Verify(honest, member, i, n) ==
  /\ pc = "fold" /\ Len(level) = 1
  /\ proof' = [honest |-> honest, member |-> member, leafIndex |-> i, leafCount |-> n]
  /\ IF style = "bundle" /\ ~ (i >= 0 /\ i < n)
     THEN pc' = "refused" /\ UNCHANGED walk
     ELSE /\ pc' = "walk"
          /\ walk' = [digest |-> HashLeaf(member), index |-> i, width |-> n, taken |-> 0]
  /\ UNCHANGED <<style, leaves, target, level, index, path, seen>>

\* The next step of the proof under way: the prover's, or anything.
NextSteps ==
  IF proof.honest
  THEN {path[i] : i \in {walk.taken + 1} \cap DOMAIN path}
  ELSE [position : {"left", "right"}, hash : seen]
         \cup {[position |-> "promote", hash |-> NoHash]}

PathEnds == proof.honest => walk.taken = Len(path)

Decide(yes) ==
  /\ pc' = IF yes THEN "accepted" ELSE "refused"
  /\ walk' = NoHash
  /\ UNCHANGED <<style, leaves, target, level, index, path, seen, proof>>

\* VerifyMerkleProofAgainstRoot.
AttributionStep(s) ==
  /\ pc = "walk" /\ style = "attribution"
  /\ s.position # "promote" /\ walk.taken < MaxPath
  /\ walk' = [walk EXCEPT !.digest = Combine(s, @), !.taken = @ + 1]
  /\ UNCHANGED <<style, leaves, target, level, index, path, seen, pc, proof>>

AttributionEnd ==
  /\ pc = "walk" /\ style = "attribution"
  /\ PathEnds
  /\ Decide(walk.digest = Root)

\* verifyEvidenceBundleProofV2: the claimed index and count say which steps
\* the path must have.
BundleStep(s) ==
  /\ pc = "walk" /\ style = "bundle" /\ walk.width > 1
  /\ PositionOk(s, walk.index, walk.width)
  /\ walk' = [digest |-> Combine(s, walk.digest), index |-> Parent(walk.index),
              width |-> (walk.width + 1) \div 2, taken |-> walk.taken + 1]
  /\ UNCHANGED <<style, leaves, target, level, index, path, seen, pc, proof>>

BundleWrongStep(s) ==
  /\ pc = "walk" /\ style = "bundle"
  /\ walk.width > 1 => ~ PositionOk(s, walk.index, walk.width)
  /\ Decide(FALSE)

BundleEnd ==
  /\ pc = "walk" /\ style = "bundle"
  /\ PathEnds
  /\ Decide(walk.width <= 1 /\ walk.digest = Root)

MerkleNext ==
  \/ BuildContext \/ ContextFails
  \/ \E t \in Targets : Fail(t) \/ Start(t)
  \/ FoldLevel
  \/ Verify(TRUE, leaves[target + 1], target, Len(leaves))
  \/ style = "attribution" /\ \E x \in Targets \cup seen : Verify(FALSE, x, 0, 1)
  \/ style = "bundle" /\ \E x \in Targets \cup seen, n \in 0..MaxCount :
       \E i \in 0..n : Verify(FALSE, x, i, n)
  \/ pc = "walk" /\ \E s \in NextSteps :
       AttributionStep(s) \/ BundleStep(s) \/ BundleWrongStep(s)
  \/ AttributionEnd
  \/ BundleEnd

MerkleSpec == MerkleInit /\ [][MerkleNext]_merkleVars

-----------------------------------------------------------------------------
\* RFC 6962 defines a tree from above: over more than width hashes, a power of
\* two, and up to twice as many it has the tree of the first width on its left.
\* Subtrees has all trees over up to width of the hashes, by their first hash
\* and their last, for one width after the other.
Subtrees(hashes) ==
  LET n == Len(hashes)
      trees[h \in 0..n] ==
        IF h = 0
        THEN [width |-> 1, root |-> [f \in 1..n |-> [e \in 1..n |-> hashes[f]]]]
        ELSE LET low == trees[h - 1]
             IN [width |-> 2 * low.width,
                 root |-> [f \in 1..n |-> [e \in 1..n |->
                             IF e - f < low.width THEN low.root[f][e]
                             ELSE <<"node", low.root[f][f + low.width - 1],
                                            low.root[f + low.width][e]>>]]]
  IN trees

ReferenceRoot(l) ==
  Subtrees([i \in DOMAIN l |-> <<"leaf", l[i]>>])[Len(l)].root[1][Len(l)]

\* The contexts that have a root, each with it.
RootedContexts ==
  {[items |-> l, root |-> BuildTopRoot(l)] :
     l \in {items \in Lists["context"] : ContextOk(items)}}

\* The fold from below computes the tree that RFC 6962 defines from above, and
\* its root commits to the leaves: no other list of any length has it ("[a,b,c]
\* versus [a,b,c,c] can never fold to the same root").  The body of a bundle
\* verifies under it for these members in this order only.  The root of a
\* context is the same for two contexts exactly if they have the same leaves,
\* in whatever order these came, although partition trees and the tree above
\* them share a tag and a partition of one leaf is that leaf's hash.
RootCommits ==
  /\ (pc = "fold" /\ Len(level) = 1) =>
       /\ Root = ReferenceRoot(leaves)
       /\ \A other \in Lists[style] \ {<< >>} :
            ReferenceRoot(Sorted(other)) = Root => Sorted(other) = leaves
       /\ style = "bundle" =>
            \A other \in Lists[style] :
              VerifyBundleBody(other, Root) <=> other = leaves
  /\ pc = "root" =>
       \A other \in RootedContexts :
         other.root = Root <=> Range(other.items) = Range(leaves)

\* A proof decides membership.  Whatever path is presented, only leaves are
\* accepted: no inner node or other string passes as one, in either tree; and
\* the proof GenerateMerkleProof or BuildEvidenceBundleProofV2 makes for a leaf
\* is accepted, at every position of every tree.
AcceptedIsMember ==
  /\ pc = "accepted" => proof.member \in Range(leaves)
  /\ pc = "refused" => ~ proof.honest

\* A verifier who knows the number of members may rely on the position: with
\* the right leaf_count no member is accepted at another's leaf_index.  With
\* another count one is: the root does not contain the count.
PositionBound ==
  (pc = "accepted" /\ style = "bundle" /\ proof.leafCount = Len(leaves))
    => leaves[proof.leafIndex + 1] = proof.member
=============================================================================
