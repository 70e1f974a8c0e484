-------------------------- MODULE MCCoordination ---------------------------
(***************************************************************************)
(* An operator, a researcher and an analyst on two tasks.  There is a      *)
(* brief that does not verify, an assignment whose id is used in both      *)
(* tasks and others that use it again in the same one, with another role   *)
(* or under another delegation by the analyst's key, a packet with a short *)
(* quote, and reviews of every kind: approving, approving below the        *)
(* threshold, off the scale, rejecting, and by somebody else.              *)
(***************************************************************************)
EXTENDS Coordination

CONSTANTS res, ana

Brief == [kind |-> "brief", taskId |-> 1, createdBy |-> Operator,
          roles |-> {"researcher", "analyst"},
          deliverables |-> {[name |-> "report", producedBy |-> "analyst"]},
          acceptanceCriteria |-> {"cited"}]

MCBriefs ==
  {Brief, [Brief EXCEPT !.roles = {"researcher"}]}

Assignment == [kind |-> "assignment", assignmentId |-> 1, taskId |-> 1,
               role |-> "researcher", agentPublicKey |-> res,
               delegationId |-> 1, assignedBy |-> Operator]

MCAssignments ==
  {Assignment, [Assignment EXCEPT !.taskId = 2, !.assignedBy = ana],
   [Assignment EXCEPT !.role = "analyst"],
   [Assignment EXCEPT !.delegationId = 2, !.assignedBy = ana]}

Packet == [kind |-> "evidence", packetId |-> 1, taskId |-> 1,
           submittedBy |-> res, role |-> "researcher",
           claims |-> {[confidence |-> "high", words |-> 3],
                       [confidence |-> "not_found", words |-> 1]}]

MCPackets ==
  {Packet, [Packet EXCEPT !.packetId = 2,
                          !.claims = {[confidence |-> "high", words |-> 2]}]}

Review == [kind |-> "review", packetId |-> 1, reviewedBy |-> Operator,
           verdict |-> "approve", score |-> 60, threshold |-> 60]

MCReviews ==
  {Review, [Review EXCEPT !.score = 59],
   [Review EXCEPT !.score = 59, !.verdict = "reject"],
   [Review EXCEPT !.score = 101],
   [Review EXCEPT !.packetId = 2],
   [Review EXCEPT !.reviewedBy = ana]}

MCHandoffs ==
  {[kind |-> "handoff", packetId |-> p, toAgent |-> ana] : p \in {1, 2}}

MCDeliverables ==
  {[kind |-> "deliverable", deliverableId |-> p, submittedBy |-> ana,
    evidencePacketIds |-> {p}] : p \in {1, 2}}

MCCompletions ==
  {[kind |-> "completion", taskId |-> 1, deliverableIds |-> {p}] : p \in {1, 2}}
=============================================================================
