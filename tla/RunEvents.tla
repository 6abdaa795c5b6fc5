------------------------------ MODULE RunEvents ------------------------------
(***************************************************************************)
(* What a recorded event means: its type, and what EventsService.applyEvent*)
(* does to the columns of the run when it is recorded. An event is a       *)
(* record with a "type" and with "ok", what its payload says: an action is *)
(* proposed (synthesis.completed), no lane failed (run.completed).         *)
(***************************************************************************)

RunStatus     == {"PENDING", "PLANNING", "RUNNING", "AWAITING_APPROVAL",
                  "COMPLETED", "PARTIAL", "FAILED"}
ApprovalState == {"NONE", "PENDING", "APPROVED", "REJECTED"}

EventTypes == {"run.started", "plan.created", "agent.started", "tool.completed",
               "citation.added", "agent.completed", "synthesis.completed",
               "approval.required", "run.completed", "run.failed"}

(* The events that close the streams of a run.                             *)
EndsRun(e) == e.type \in {"run.completed", "run.failed"}

-----------------------------------------------------------------------------
(* EventsService.applyEvent: what an accepted event does to the run. The   *)
(* approval state is the one the transaction read when it opened.          *)

StatusAfter(e, status, approvalState) ==
  CASE e.type \in {"run.started", "agent.started"} -> "RUNNING"
    [] e.type = "plan.created"      -> "PLANNING"
    [] e.type = "approval.required" -> "AWAITING_APPROVAL"
    [] e.type = "run.failed"        -> "FAILED"
    [] e.type = "run.completed" /\ approvalState = "PENDING" -> "AWAITING_APPROVAL"
    [] e.type = "run.completed" /\ approvalState # "PENDING" ->
         IF e.ok THEN "COMPLETED" ELSE "PARTIAL"
    [] OTHER -> status

ApprovalStateAfterReset(e, approvalState) == \* mutant: a failure clears the decision
  CASE e.type = "approval.required" -> "PENDING"
    [] e.type = "run.failed"        -> "NONE"
    [] OTHER                        -> approvalState

ApprovalStateAfterAgain(e, approvalState) == \* mutant: the end asks for approval again
  IF e.type \in {"approval.required", "run.completed"} THEN "PENDING" ELSE approvalState

ApprovalStateAfter(e, approvalState) ==
  IF e.type = "approval.required" THEN "PENDING" ELSE approvalState

DecisionAfter(e, decision) ==
  IF e.type # "synthesis.completed" THEN decision
  ELSE IF e.ok THEN "proposed" ELSE "blocked"

ResultsAfter(e, results) ==
  CASE e.type = "run.completed" -> IF e.ok THEN "complete" ELSE "partial"
    [] e.type = "run.failed"    -> "failure"
    [] OTHER -> results

=============================================================================
