---------------------------- MODULE Coordination ---------------------------
(***************************************************************************)
(* coordination/coordination.go: the signed messages of a task,            *)
(*   Brief, Assign, Accept, Evidence, Review, Handoff, Deliver, Complete.  *)
(* The state is the signatures made so far.  Messages may be lost, arrive  *)
(* twice, late or altered: a message is whatever content somebody          *)
(* presents, and it is as good as the signature that exists over exactly   *)
(* that content.  The field sets of the kinds differ, so a signature over  *)
(* one is none over another.                                               *)
(*                                                                         *)
(* Each create function is an action with the guards the code has.  The    *)
(* package links the messages by caller-supplied ids only, and nothing in  *)
(* it keeps an id from being used twice: any key signs any assignment, any *)
(* number of them under the same ids.  The parties modelled verify what    *)
(* they act upon before they sign, with the verify functions of the        *)
(* package.                                                                *)
(***************************************************************************)
EXTENDS Integers, FiniteSets

CONSTANTS
  Keys,            \* key pairs
  Operator,        \* the operator's key
  Briefs, Assignments, Packets, Reviews, Handoffs, Deliverables, Completions,
                   \* contents the parties may sign, without signatures
  MaxSigned        \* bound on the number of signatures

\* The signed fields of each message that a rule or a link reads.
TaskBrief ==
  [kind : {"brief"}, taskId : Nat, createdBy : Keys, roles : SUBSET STRING,
   deliverables : SUBSET [name : STRING, producedBy : STRING],
   acceptanceCriteria : SUBSET STRING]

TaskAssignment ==
  [kind : {"assignment"}, assignmentId : Nat, taskId : Nat, role : STRING,
   agentPublicKey : Keys, delegationId : Nat, assignedBy : Keys]

\* A claim's quote counts by its number of words.
EvidencePacket ==
  [kind : {"evidence"}, packetId : Nat, taskId : Nat, submittedBy : Keys,
   role : STRING, claims : SUBSET [confidence : STRING, words : Nat]]

ReviewDecision ==
  [kind : {"review"}, packetId : Nat, reviewedBy : Keys, verdict : STRING,
   score : Int, threshold : Int]

EvidenceHandoff == [kind : {"handoff"}, packetId : Nat, toAgent : Keys]

Deliverable ==
  [kind : {"deliverable"}, deliverableId : Nat, submittedBy : Keys,
   evidencePacketIds : SUBSET Nat]

TaskCompletion ==
  [kind : {"completion"}, taskId : Nat, deliverableIds : SUBSET Nat]

ASSUME CoordinationAssumption ==
  /\ Operator \in Keys
  /\ MaxSigned \in Nat
  /\ Briefs \subseteq TaskBrief
  /\ Assignments \subseteq TaskAssignment
  /\ Packets \subseteq EvidencePacket
  /\ Reviews \subseteq ReviewDecision
  /\ Handoffs \subseteq EvidenceHandoff
  /\ Deliverables \subseteq Deliverable
  /\ Completions \subseteq TaskCompletion

VARIABLES
  signed,          \* <<key, content>> for every signature made
  shown            \* history: <<key, assignment>> as accepted by its agent

taskVars == <<signed, shown>>

-----------------------------------------------------------------------------
\* verifyContent: this key signed exactly this content.
VerifyContent(content, key) == <<key, content>> \in signed

\* VerifyTaskBrief.
VerifyTaskBrief(b) ==
  /\ VerifyContent(b, b.createdBy)
  /\ b.roles # {} /\ b.deliverables # {} /\ b.acceptanceCriteria # {}
  /\ \A d \in b.deliverables : d.producedBy \in b.roles

VerifyAssignment(a) == VerifyContent(a, a.assignedBy)

\* Mutant of AcceptContent: the task is left out.
AcceptContentOfId(a) == [kind |-> "accept", assignmentId |-> a.assignmentId]

\* acceptContent: the agent signs the ids and the date, not the role, the
\* delegation or the operator.
AcceptContent(a) ==
  [kind |-> "accept", assignmentId |-> a.assignmentId, taskId |-> a.taskId]

VerifyAcceptance(a) == VerifyContent(AcceptContent(a), a.agentPublicKey)

\* VerifyEvidence: a claim that was found quotes at least three words.
VerifyEvidence(p) ==
  /\ VerifyContent(p, p.submittedBy)
  /\ \A c \in p.claims : c.confidence # "not_found" => c.words >= 3

VerifyReview(r) == VerifyContent(r, r.reviewedBy) /\ r.score \in 0..100

VerifyHandoff(h, operator) == VerifyContent(h, operator)

VerifyDeliverable(d) == VerifyContent(d, d.submittedBy)

VerifyCompletion(c, operator) == VerifyContent(c, operator)

-----------------------------------------------------------------------------
TaskInit == signed = {} /\ shown = {}

\* keys.SignCanonical.
Sign(k, content) ==
  /\ Cardinality(signed) < MaxSigned
  /\ signed' = signed \cup {<<k, content>>}

\* The create functions.  Only ReviewEvidence and HandoffEvidence have guards;
\* whoever holds a private key may sign anything with the others.
CreateTaskBrief(k, b) == Sign(k, b) /\ UNCHANGED shown

CreateAssignment(k, a) == Sign(k, a) /\ UNCHANGED shown

AcceptTask(k, a) == Sign(k, AcceptContent(a)) /\ shown' = shown \cup {<<k, a>>}

SubmitEvidence(k, p) == Sign(k, p) /\ UNCHANGED shown

\* No approval below the threshold.
ReviewEvidence(k, r) ==
  /\ ~ (r.score < r.threshold /\ r.verdict = "approve")
  /\ Sign(k, r)
  /\ UNCHANGED shown

\* Mutant of HandoffEvidence: any review of the packet will do.
HandoffUnapproved(k, h, r) ==
  /\ r.packetId = h.packetId
  /\ Sign(k, h)
  /\ UNCHANGED shown

\* Only on an approval that names the same packet.
HandoffEvidence(k, h, r) ==
  /\ r.verdict = "approve"
  /\ r.packetId = h.packetId
  /\ Sign(k, h)
  /\ UNCHANGED shown

SubmitDeliverable(k, d) == Sign(k, d) /\ UNCHANGED shown

CompleteTask(k, c) == Sign(k, c) /\ UNCHANGED shown

-----------------------------------------------------------------------------
\* What the parties check before they sign; all of it is the callers' part.

\* The role is one of a brief of the task that verifies.
Briefed(a) ==
  \E b \in Briefs : VerifyTaskBrief(b) /\ b.taskId = a.taskId /\ a.role \in b.roles

Acceptable(k, a) == VerifyAssignment(a) /\ a.agentPublicKey = k

\* The submitter has accepted the role it speaks in.
Accepted(k, p) ==
  \E a \in Assignments :
    /\ VerifyAssignment(a) /\ VerifyAcceptance(a)
    /\ <<a.taskId, a.role, a.agentPublicKey>> = <<p.taskId, p.role, k>>

Reviewable(r) == \E p \in Packets : VerifyEvidence(p) /\ p.packetId = r.packetId

\* A review that verifies, by whoever hands the evidence over.
OwnReview(k, r) == VerifyReview(r) /\ r.reviewedBy = k

\* The evidence drawn on was handed to its user by the operator.
Received(k, d) ==
  \A id \in d.evidencePacketIds : \E h \in Handoffs :
    VerifyHandoff(h, Operator) /\ h.packetId = id /\ h.toAgent = k

Delivered(c) ==
  \A id \in c.deliverableIds : \E d \in Deliverables :
    VerifyDeliverable(d) /\ d.deliverableId = id

TaskNext ==
  \E k \in Keys :
    \/ \E b \in Briefs : CreateTaskBrief(k, b)
    \/ \E a \in Assignments : (k = Operator => Briefed(a)) /\ CreateAssignment(k, a)
    \/ \E a \in Assignments : Acceptable(k, a) /\ AcceptTask(k, a)
    \/ \E p \in Packets : Accepted(k, p) /\ SubmitEvidence(k, p)
    \/ \E r \in Reviews : Reviewable(r) /\ ReviewEvidence(k, r)
    \/ \E h \in Handoffs, r \in Reviews :
         OwnReview(k, r) /\ HandoffEvidence(k, h, r)
    \/ \E d \in Deliverables : Received(k, d) /\ SubmitDeliverable(k, d)
    \/ \E c \in Completions : Delivered(c) /\ CompleteTask(k, c)

TaskSpec == TaskInit /\ [][TaskNext]_taskVars

-----------------------------------------------------------------------------
Content ==
  Briefs \cup Assignments \cup Packets \cup Reviews \cup Handoffs
    \cup Deliverables \cup Completions
    \cup {AcceptContent(a) : a \in Assignments}

\* What an acceptance names: an agent by its key, and two ids.
SameIds(a, b) ==
  <<a.assignmentId, a.taskId, a.agentPublicKey>> =
    <<b.assignmentId, b.taskId, b.agentPublicKey>>

\* The agent was shown an assignment with these ids that verifies.
WasShown(a) ==
  \E b \in Assignments :
    SameIds(a, b) /\ VerifyAssignment(b) /\ <<a.agentPublicKey, b>> \in shown

\* An acceptance is of an assignment's ids, and no more.  The agent signs only
\* { assignmentId, taskId, acceptedAt }: if the acceptance of an assignment
\* verifies, the agent was shown some assignment with these ids that verifies,
\* perhaps with another role, delegation or operator, for anybody may sign a
\* second one with the same ids.  So it was shown this very assignment if no
\* other with these ids, by any operator, verifies.
AcceptanceIsOfItsIds ==
  \A a \in Assignments : VerifyAcceptance(a) =>
    /\ WasShown(a)
    /\ (\A b \in Assignments : (SameIds(a, b) /\ VerifyAssignment(b)) => b = a)
         => <<a.agentPublicKey, a>> \in shown

\* The evidence of a packet is good: it verifies, its author holds an
\* assignment to the role it speaks in and has accepted one with these ids,
\* the role is one of a brief if the operator assigned it, and the operator
\* approved the packet with a score that verifies and is not below the
\* threshold.
ApprovedEvidence(id) ==
  /\ \E p \in Packets, a \in Assignments :
       /\ p.packetId = id /\ VerifyEvidence(p)
       /\ <<a.taskId, a.role, a.agentPublicKey>> = <<p.taskId, p.role, p.submittedBy>>
       /\ VerifyAssignment(a) /\ WasShown(a)
       /\ a.assignedBy = Operator => Briefed(a)
  /\ \E r \in Reviews : /\ r.packetId = id /\ VerifyReview(r)
                        /\ r.reviewedBy = Operator /\ r.verdict = "approve"
                        /\ r.score >= r.threshold

\* From end to end: what the operator signs off was produced, and every packet
\* of evidence behind it was submitted, reviewed, approved and handed over,
\* although each message names only the id of the one before.
CompletedOnApprovedEvidence ==
  \A c \in Completions : VerifyCompletion(c, Operator) =>
    \A id \in c.deliverableIds : \E d \in Deliverables :
      /\ d.deliverableId = id /\ VerifyDeliverable(d)
      /\ \A packet \in d.evidencePacketIds : ApprovedEvidence(packet)
=============================================================================
