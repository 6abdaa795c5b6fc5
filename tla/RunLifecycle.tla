---------------------------- MODULE RunLifecycle ----------------------------
(***************************************************************************)
(* The life of one workflow run: the backend dispatches it to the AI       *)
(* service, the AI runner reports its progress through HTTP callbacks that *)
(* may be lost, delayed or retried, the backend records every accepted     *)
(* callback in a serializable transaction, and managers decide on the      *)
(* proposed action while callbacks are still arriving.                     *)
(*                                                                         *)
(* The row of the run, its event log, its tasks, approvals and tickets are *)
(* the tables of backend/prisma/schema.prisma. A transaction is two steps: *)
(* it opens with a snapshot of the row, and it commits only if the row is  *)
(* still the one it saw (PostgreSQL SERIALIZABLE; otherwise Prisma reports *)
(* P2034 and nothing is written).                                          *)
(***************************************************************************)
EXTENDS RunEvents, Integers, FiniteSets, Sequences

CONSTANTS
  Lanes,         \* the specialists, in the order the graph runs them
  EvidenceTypes, \* evidence events a lane reports, at most one of each
  Modes,         \* the run modes started
  Managers,      \* users who may decide on the run
  MaxAttempts,   \* callback client: attempts per event (max_attempts)
  MaxFaults,     \* bound: messages lost, premature timeouts, refusals, crashes
  MayRefuse      \* whether InternalServiceGuard may turn a callback away

ASSUME LanesAssumption    == Lanes \in Seq({"CREDIT", "COMPLIANCE", "OPERATIONS"})
ASSUME EvidenceAssumption == EvidenceTypes \subseteq {"tool.completed", "citation.added"}
ASSUME ModesAssumption    == Modes \subseteq {"SINGLE", "MULTI"}
ASSUME AttemptsAssumption == MaxAttempts \in Nat \ {0}
ASSUME FaultsAssumption   == MaxFaults \in Nat
ASSUME RefuseAssumption   == MayRefuse \in BOOLEAN

VARIABLES
  run,       \* the row of workflow_runs
  events,    \* run_events: the recorded events
  tasks,     \* agent_tasks: status of the task of each lane
  approvals, \* approvals
  tickets,   \* action_tickets
  startReq,  \* POST /runs from the backend to the AI service
  dispatch,  \* where RunsService.create stands
  worker,    \* the background task execute_run of the AI service
  calls,     \* callback requests being delivered, executed or answered
  decisions, \* where each manager's ApprovalsService.decide stands
  faults     \* faults so far

vars == <<run, events, tasks, approvals, tickets, startReq, dispatch,
          worker, calls, decisions, faults>>
database == <<run, events, tasks, approvals, tickets>>

-----------------------------------------------------------------------------
(* Data.                                                                   *)

TaskStatus    == {"PENDING", "RUNNING", "COMPLETED", "FAILED"}
Verdicts      == {"APPROVE", "REJECT"}

LaneIndex == 1..Len(Lanes)

(* An event. "ok" is what its payload says: the specialist did not fail   *)
(* (agent events), an action is proposed (synthesis.completed), no lane    *)
(* failed (run.completed). The idempotency key is (seq, type) for a runner *)
(* and the constant `dispatch-failure:<runId>` for the dispatcher.         *)
Event == [src: {"runner", "dispatcher"}, seq: Nat \ {0}, type: EventTypes,
          lane: {0} \cup LaneIndex, ok: BOOLEAN]
Key(e) == IF e.src = "dispatcher" THEN <<e.src, 1, "run.failed">>
                                  ELSE <<e.src, e.seq, e.type>>

DispatchFailureUnnumbered == \* mutant: counted from 0
                   [src |-> "dispatcher", seq |-> 0, type |-> "run.failed",
                    lane |-> 0, ok |-> FALSE]

DispatchFailure == [src |-> "dispatcher", seq |-> 1, type |-> "run.failed",
                    lane |-> 0, ok |-> FALSE]

Row == [mode: {"SINGLE", "MULTI"}, status: RunStatus, approvalState: ApprovalState,
        version: Nat, last: Nat, decision: {"none", "proposed", "blocked"},
        results: {"none", "complete", "partial", "failure"}]
NewRow(mode) == [mode |-> mode, status |-> "PENDING", approvalState |-> "NONE",
                 version |-> 0, last |-> 0, decision |-> "none", results |-> "none"]

Replies   == {"created", "conflict", "unavailable", "refused"}
Call      == [event: Event, attempt: Nat, stage: {"sent", "open"} \cup Replies, snap: Row]
NoSnap    == NewRow(run.mode)
Worker    == [pc: {"idle", "publishing", "published", "done", "undelivered", "dead"},
              seq: Nat, attempt: Nat, event: Event, partial: BOOLEAN, screened: BOOLEAN]
NoEvent   == [src |-> "runner", seq |-> 1, type |-> "run.started", lane |-> 0, ok |-> TRUE]
Idle      == [pc |-> "idle", seq |-> 0, attempt |-> 0, event |-> NoEvent,
              partial |-> FALSE, screened |-> FALSE]
Undecided(mode) == [pc |-> "idle", verdict |-> "REJECT", snap |-> NewRow(mode)]

-----------------------------------------------------------------------------
(* EventsService.applyEvent on the tables of the run (RunEvents says what  *)
(* it does to the columns of the row).                                     *)

TaskAfterBlind(e, l, status) == \* mutant: the status of a completed lane is not read
  CASE e.type = "plan.created" /\ run.mode = "MULTI" /\ status = "absent" -> "PENDING"
    [] e.type = "agent.started" /\ e.lane = l /\ status # "absent"   -> "RUNNING"
    [] e.type = "agent.completed" /\ e.lane = l /\ status # "absent" -> "COMPLETED"
    [] OTHER -> status

(* upsertPlanTasks creates the tasks of the plan (none in SINGLE mode) and *)
(* leaves existing ones alone; updateTaskStatus touches existing rows only.*)
TaskAfter(e, l, status) ==
  CASE e.type = "plan.created" /\ run.mode = "MULTI" /\ status = "absent" -> "PENDING"
    [] e.type = "agent.started" /\ e.lane = l /\ status # "absent" -> "RUNNING"
    [] e.type = "agent.completed" /\ e.lane = l /\ status # "absent" ->
         IF e.ok THEN "COMPLETED" ELSE "FAILED"
    [] OTHER -> status

ApplyEvent(e, approvalState) ==
  /\ run' = [run EXCEPT !.last          = e.seq,
                        !.status        = StatusAfter(e, @, approvalState),
                        !.approvalState = ApprovalStateAfter(e, @),
                        !.decision      = DecisionAfter(e, @),
                        !.results       = ResultsAfter(e, @)]
  /\ events' = events \cup {e}
  /\ tasks'  = [l \in LaneIndex |-> TaskAfter(e, l, tasks[l])]
  /\ UNCHANGED <<approvals, tickets>>

-----------------------------------------------------------------------------
(* EventsService.record, as two steps of a serializable transaction.       *)

RowUnchangedReadCommitted(snap) == snap.last = run.last \* mutant: isolation level

(* The snapshot a transaction keeps is still the row: every committed      *)
(* transaction moves `last` or `version`, so equality means no update.     *)
RowUnchanged(snap) == snap = run

Duplicate(e)    == \E f \in events : Key(f) = Key(e)
NextInLineOrLater(e) == run.last < e.seq \* mutant: gaps are accepted
NextInLine(e)   == run.last = e.seq - 1

(* Somebody still waits for the answer to this request.                    *)
Awaited(c) ==
  \/ /\ c.event.src = "runner"
     /\ worker.pc = "publishing"
     /\ c.event = worker.event
     /\ c.attempt = worker.attempt
  \/ c.event.src = "dispatcher" /\ dispatch = "recording"

(* Answer request c; an answer nobody waits for disappears.                *)
Answer(c, reply) ==
  calls' = IF Awaited(c)
           THEN (calls \ {c}) \cup {[c EXCEPT !.stage = reply, !.snap = NoSnap]}
           ELSE calls \ {c}

RecordBegin(c) ==
  /\ c.stage = "sent"
  /\ IF Duplicate(c.event) \/ ~NextInLine(c.event)
     THEN Answer(c, "conflict")
     ELSE calls' = (calls \ {c}) \cup {[c EXCEPT !.stage = "open", !.snap = run]}
  /\ UNCHANGED <<database, startReq, dispatch, worker, decisions, faults>>

RecordCommit(c) ==
  /\ c.stage = "open"
  /\ RowUnchanged(c.snap)
  /\ ApplyEvent(c.event, c.snap.approvalState)
  /\ Answer(c, "created")
  /\ UNCHANGED <<startReq, dispatch, worker, decisions, faults>>

(* P2034 is not mapped by record: the handler answers 500.                 *)
RecordAbort(c) ==
  /\ c.stage = "open"
  /\ ~RowUnchanged(c.snap)
  /\ Answer(c, "unavailable")
  /\ UNCHANGED <<database, startReq, dispatch, worker, decisions, faults>>

-----------------------------------------------------------------------------
(* The callback client and the runner (execute_run) of the AI service.     *)

(* Events the runner reports after e. FirstOrSynthesis walks the lanes.    *)
FirstOrSynthesis(i) ==
  IF run.mode = "MULTI" /\ i \in LaneIndex
  THEN <<"agent.started", i>> ELSE <<"synthesis.completed", 0>>

Evidence(types, i) == {<<t, i>> : t \in types \cap EvidenceTypes}

SuccessorsSkippingFailures(e) == \* mutant: a failed lane is not reported as completed
  CASE e.type = "run.started"         -> {<<"plan.created", 0>>}
    [] e.type = "plan.created"        -> {FirstOrSynthesis(1)}
    [] e.type = "agent.started"       ->
         IF e.ok THEN {<<"agent.completed", e.lane>>} ELSE {FirstOrSynthesis(e.lane + 1)}
    [] e.type = "agent.completed"     -> {FirstOrSynthesis(e.lane + 1)}
    [] e.type = "synthesis.completed" -> {<<"approval.required", 0>>}
    [] e.type = "approval.required"   -> {<<"run.completed", 0>>}
    [] OTHER -> {}

Successors(e) ==
  CASE e.type = "run.started"         -> {<<"plan.created", 0>>}
    [] e.type = "plan.created"        -> {FirstOrSynthesis(1)}
    [] e.type = "agent.started"       ->
         {<<"agent.completed", e.lane>>} \cup
         (IF e.ok THEN Evidence({"tool.completed", "citation.added"}, e.lane) ELSE {})
    [] e.type = "tool.completed"      ->
         {<<"agent.completed", e.lane>>} \cup Evidence({"citation.added"}, e.lane)
    [] e.type = "citation.added"      -> {<<"agent.completed", e.lane>>}
    [] e.type = "agent.completed"     -> {FirstOrSynthesis(e.lane + 1)}
    [] e.type = "synthesis.completed" -> {<<"approval.required", 0>>}
    [] e.type = "approval.required"   -> {<<"run.completed", 0>>}
    [] OTHER -> {}

(* What the payload of the next event may say. Whether a lane's agent call *)
(* failed is known when the lane is first reported; a hard stop (no        *)
(* proposed action) needs the compliance lane to have completed.           *)
PayloadChoices(type) ==
  CASE type = "agent.started"       -> BOOLEAN
    [] type = "agent.completed"     -> {worker.event.ok}
    [] type = "synthesis.completed" -> IF worker.screened THEN BOOLEAN ELSE {TRUE}
    [] type = "run.completed"       -> {~worker.partial}
    [] type = "run.failed"          -> {FALSE}
    [] OTHER -> {TRUE}

(* The answer the client has just read leaves the network.                 *)
AnswersRead ==
  {c \in calls : c.event.src = "runner" /\ Awaited(c) /\ c.stage \in Replies}

Attempt(e, n) == [event |-> e, attempt |-> n, stage |-> "sent", snap |-> NoSnap]

(* EventFactory.create followed by the first attempt to publish the event. *)
Emit(type, lane, ok) ==
  LET e == [src |-> "runner", seq |-> worker.seq + 1, type |-> type,
            lane |-> lane, ok |-> ok]
  IN  /\ worker' = [worker EXCEPT
                      !.pc = "publishing", !.seq = @ + 1, !.attempt = 1, !.event = e,
                      !.partial = @ \/ (type = "agent.completed" /\ ~ok),
                      !.screened = @ \/ (type = "agent.completed" /\ ok
                                         /\ Lanes[lane] = "COMPLIANCE")]
      /\ calls' = (calls \ AnswersRead) \cup {Attempt(e, 1)}

(* publish raises: the except branch reports run.failed under the next     *)
(* sequence number, and if that cannot be published either it only logs.   *)
Raise ==
  IF worker.event.type = "run.failed"
  THEN /\ worker' = [worker EXCEPT !.pc = "undelivered"]
       /\ calls' = calls \ AnswersRead
  ELSE Emit("run.failed", 0, FALSE)

RetryOrRaiseAtOnce == Raise \* mutant: no retry

RetryOrRaise ==
  IF worker.attempt < MaxAttempts
  THEN /\ worker' = [worker EXCEPT !.attempt = @ + 1]
       /\ calls' = (calls \ AnswersRead)
                     \cup {Attempt(worker.event, worker.attempt + 1)}
  ELSE Raise

DeliveredAnyway(reply) == reply # "refused" \* mutant: 5xx is not an error

(* 409 counts as delivered, like the 2xx codes.                            *)
Delivered(reply) == reply \in {"created", "conflict"}

Acknowledge(c) ==
  /\ c.event.src = "runner" /\ Awaited(c)
  /\ Delivered(c.stage)
  /\ worker' = [worker EXCEPT !.pc =
                  IF EndsRun(c.event)
                  THEN "done" ELSE "published"]
  /\ calls' = calls \ {c}
  /\ UNCHANGED <<database, startReq, dispatch, decisions, faults>>

(* 5xx is retried, any other 4xx ends the attempts at once.                *)
Reject(c) ==
  /\ c.event.src = "runner" /\ Awaited(c)
  /\ c.stage \in Replies /\ ~Delivered(c.stage)
  /\ IF c.stage = "refused" THEN Raise ELSE RetryOrRaise
  /\ UNCHANGED <<database, startReq, dispatch, decisions, faults>>

(* httpx.HTTPError: the request or its answer was lost (the fault is       *)
(* counted by Lose), or the backend is slower than the client's timeout    *)
(* and goes on executing the request nobody waits for any more.            *)
PublishTimeout ==
  /\ worker.pc = "publishing"
  /\ AnswersRead = {}
  /\ IF \E c \in calls : c.event.src = "runner" /\ Awaited(c)
     THEN faults < MaxFaults /\ faults' = faults + 1
     ELSE UNCHANGED faults
  /\ RetryOrRaise
  /\ UNCHANGED <<database, startReq, dispatch, decisions>>

EmitNext ==
  /\ worker.pc = "published"
  /\ \E s \in Successors(worker.event) : \E ok \in PayloadChoices(s[1]) :
       Emit(s[1], s[2], ok)
  /\ UNCHANGED <<database, startReq, dispatch, decisions, faults>>

(* workflow.run, called between run.started and plan.created, may raise.   *)
WorkflowRaises ==
  /\ worker.pc = "published"
  /\ worker.event.type = "run.started"
  /\ Emit("run.failed", 0, FALSE)
  /\ UNCHANGED <<database, startReq, dispatch, decisions, faults>>

(* The task lives in the memory of the AI process and dies with it.        *)
AiCrash ==
  /\ worker.pc \in {"publishing", "published"}
  /\ faults < MaxFaults
  /\ faults' = faults + 1
  /\ worker' = [worker EXCEPT !.pc = "dead"]
  /\ calls' = calls \ AnswersRead
  /\ UNCHANGED <<database, startReq, dispatch, decisions>>

(* A request, its transaction or its answer is lost: network failure,      *)
(* transaction timeout or death of the backend process.                    *)
Lose(c) ==
  /\ faults < MaxFaults
  /\ faults' = faults + 1
  /\ calls' = calls \ {c}
  /\ UNCHANGED <<database, startReq, dispatch, worker, decisions>>

(* InternalServiceGuard turns a request away (e.g. clocks 300s apart).     *)
GuardRefuses(c) ==
  /\ MayRefuse
  /\ c.event.src = "runner" /\ c.stage = "sent"
  /\ faults < MaxFaults
  /\ faults' = faults + 1
  /\ Answer(c, "refused")
  /\ UNCHANGED <<database, startReq, dispatch, worker, decisions>>

-----------------------------------------------------------------------------
(* RunsService.create after its transaction: one POST /runs, no retry.     *)

AcceptStart ==
  /\ startReq = "sent" /\ worker.pc = "idle"
  /\ startReq' = "accepted"
  /\ Emit("run.started", 0, TRUE)
  /\ UNCHANGED <<database, dispatch, decisions, faults>>

LoseStart ==
  /\ startReq = "sent"
  /\ faults < MaxFaults
  /\ startReq' = "lost"
  /\ faults' = faults + 1
  /\ UNCHANGED <<database, dispatch, worker, calls, decisions>>

DispatchOk ==
  /\ dispatch = "calling" /\ startReq = "accepted"
  /\ dispatch' = "dispatched"
  /\ UNCHANGED <<database, startReq, worker, calls, decisions, faults>>

(* startRun throws (refused, or no answer within 10s though the AI service *)
(* may have accepted): recordDispatchFailure records run.failed as event 1.*)
DispatchThrows ==
  /\ dispatch = "calling"
  /\ \/ startReq = "lost" /\ UNCHANGED faults
     \/ startReq # "lost" /\ faults < MaxFaults /\ faults' = faults + 1
  /\ dispatch' = "recording"
  /\ calls' = calls \cup {Attempt(DispatchFailure, 0)}
  /\ UNCHANGED <<database, startReq, worker, decisions>>

(* ConflictException means "not recorded"; other errors reach the caller.  *)
DispatchRecorded(c) ==
  /\ c.event.src = "dispatcher" /\ Awaited(c) /\ c.stage \in Replies
  /\ dispatch' = CASE c.stage = "created"  -> "failed"
                   [] c.stage = "conflict" -> "raced"
                   [] OTHER                -> "errored"
  /\ calls' = calls \ {c}
  /\ UNCHANGED <<database, startReq, worker, decisions, faults>>

-----------------------------------------------------------------------------
(* ApprovalsService.decide, as two steps of a serializable transaction.    *)

Awaiting(row) == row.approvalState = "PENDING"

(* expected is a version of the run the manager has seen.                  *)
DecideBegin(m, verdict, expected) ==
  /\ decisions[m].pc \in {"idle", "refused"}
  /\ decisions' = [decisions EXCEPT ![m] =
       IF approvals = {} /\ Awaiting(run) /\ run.version = expected
       THEN [pc |-> "open", verdict |-> verdict, snap |-> run]
       ELSE [Undecided(run.mode) EXCEPT !.pc = "refused"]]
  /\ UNCHANGED <<database, startReq, dispatch, worker, calls, faults>>

(* extractProposedAction finds an action in the decision that was read.    *)
HasProposalAssumed(row) == row.decision # "none" \* mutant: blocked decisions pass
HasProposal(row) == row.decision = "proposed"

MayCommitUnguarded(m) == \* mutant: nothing re-checked at commit
  decisions[m].verdict = "APPROVE" => HasProposal(decisions[m].snap)

MayCommit(m) ==
  LET d == decisions[m]
  IN  /\ RowUnchanged(d.snap)
      /\ approvals = {}
      /\ d.verdict = "APPROVE" => HasProposal(d.snap)

VerdictState(verdict) == IF verdict = "APPROVE" THEN "APPROVED" ELSE "REJECTED"

DecideCommit(m) ==
  LET verdict  == decisions[m].verdict
      approval == [actor |-> m, decision |-> verdict, runVersion |-> run.version + 1]
  IN  /\ decisions[m].pc = "open"
      /\ MayCommit(m)
      /\ run' = [run EXCEPT !.approvalState = VerdictState(verdict),
                            !.status        = "COMPLETED",
                            !.version       = @ + 1]
      /\ approvals' = approvals \cup {approval}
      /\ tickets'   = IF verdict = "APPROVE" THEN tickets \cup {approval} ELSE tickets
      /\ decisions' = [decisions EXCEPT ![m] = [Undecided(run.mode) EXCEPT
                                                  !.pc = "accepted", !.verdict = verdict]]
      /\ UNCHANGED <<events, tasks, startReq, dispatch, worker, calls, faults>>

DecideAbortAsSuccess(m) == \* mutant: the conflict is answered like a success
  /\ decisions[m].pc = "open"
  /\ ~MayCommit(m)
  /\ decisions' = [decisions EXCEPT ![m] = [Undecided(run.mode) EXCEPT !.pc = "accepted"]]
  /\ UNCHANGED <<database, startReq, dispatch, worker, calls, faults>>

(* Conflict (P2034, P2002) or no proposed action: 409, nothing is written. *)
DecideAbort(m) ==
  /\ decisions[m].pc = "open"
  /\ ~MayCommit(m)
  /\ decisions' = [decisions EXCEPT ![m] = [Undecided(run.mode) EXCEPT !.pc = "refused"]]
  /\ UNCHANGED <<database, startReq, dispatch, worker, calls, faults>>

-----------------------------------------------------------------------------
Init ==
  /\ \E mode \in Modes :
       /\ run = NewRow(mode)
       /\ decisions = [m \in Managers |-> Undecided(mode)]
  /\ events = {}
  /\ tasks = [l \in LaneIndex |-> "absent"]
  /\ approvals = {}
  /\ tickets = {}
  /\ startReq = "sent"
  /\ dispatch = "calling"
  /\ worker = Idle
  /\ calls = {}
  /\ faults = 0

Backend(c) == RecordBegin(c) \/ RecordCommit(c) \/ RecordAbort(c)

Runner ==
  \/ EmitNext
  \/ WorkflowRaises
  \/ PublishTimeout
  \/ \E c \in calls : Acknowledge(c) \/ Reject(c)

Dispatcher ==
  \/ AcceptStart
  \/ DispatchOk
  \/ DispatchThrows
  \/ \E c \in calls : DispatchRecorded(c)

Faults ==
  \/ AiCrash
  \/ LoseStart
  \/ \E c \in calls : Lose(c) \/ GuardRefuses(c)

Decide(m) ==
  \/ \E verdict \in Verdicts, expected \in 0..run.version :
       DecideBegin(m, verdict, expected)
  \/ DecideCommit(m)
  \/ DecideAbort(m)

Next ==
  \/ \E c \in calls : Backend(c)
  \/ Runner
  \/ Dispatcher
  \/ Faults
  \/ \E m \in Managers : Decide(m)

Spec == Init /\ [][Next]_vars

(* Processes that are alive keep working; users and faults owe nothing.    *)
Fairness ==
  /\ WF_vars(\E c \in calls : Backend(c))
  /\ WF_vars(Runner)
  /\ WF_vars(Dispatcher)

FairSpec == Spec /\ Fairness

-----------------------------------------------------------------------------
(* Properties.                                                             *)

(* The variables keep their types: rows hold enum values of the schema,    *)
(* event sequences are positive (RecordEventDto: @Min(1)).                 *)
TypeOK ==
  /\ run \in Row
  /\ events \subseteq Event
  /\ tasks \in [LaneIndex -> TaskStatus \cup {"absent"}]
  /\ approvals \subseteq [actor: Managers, decision: Verdicts, runVersion: Nat]
  /\ tickets \subseteq [actor: Managers, decision: Verdicts, runVersion: Nat]
  /\ startReq \in {"sent", "accepted", "lost"}
  /\ dispatch \in {"calling", "dispatched", "recording", "failed", "raced", "errored"}
  /\ worker \in Worker
  /\ calls \subseteq Call
  /\ decisions \in [Managers -> [pc: {"idle", "open", "accepted", "refused"},
                                 verdict: Verdicts, snap: Row]]
  /\ faults \in 0..MaxFaults

Decided == run.approvalState \in {"APPROVED", "REJECTED"}
Recorded(type) == \E e \in events : e.type = type

(* The log has no hole and no duplicate, whatever is lost, delayed or      *)
(* retried: the events of a run are numbered 1..lastEventSequence, one     *)
(* event each, with distinct idempotency keys.                             *)
LogIsContiguous ==
  /\ \A e \in events : e.seq \in 1..run.last
  /\ \A n \in 1..run.last : \E e \in events : e.seq = n
  /\ \A e, f \in events : e.seq = f.seq \/ Key(e) = Key(f) => e = f

(* A completed run has told its whole story, in order: the log of a run    *)
(* with run.completed holds the plan, every lane's start and end, the      *)
(* synthesis and the request for approval, although a 409 counts as        *)
(* delivered and attempts race. Only run.started may have lost its place,  *)
(* to a dispatch failure.                                                  *)
Precedes(e, f) == e \in events /\ f \in events /\ e.seq < f.seq
CompletedRunIsWhole ==
  \A end \in {e \in events : e.type = "run.completed"} :
    /\ \E plan, synthesis, request \in events :
         /\ plan.type = "plan.created" /\ synthesis.type = "synthesis.completed"
         /\ request.type = "approval.required"
         /\ Precedes(synthesis, request) /\ Precedes(request, end)
         /\ run.mode = "MULTI" => \A l \in LaneIndex : \E start, result \in events :
              /\ start.type = "agent.started" /\ start.lane = l
              /\ result.type = "agent.completed" /\ result.lane = l
              /\ Precedes(plan, start) /\ Precedes(start, result) /\ Precedes(result, synthesis)
    /\ \A e \in events : e.seq = 1 => e.type = "run.started" \/ e = DispatchFailure

(* A run shown as awaiting approval can be decided: its approval state is  *)
(* PENDING. A run.completed whose transaction read PENDING must not bring  *)
(* the status back after a decision has been committed.                    *)
AwaitingCanBeDecided ==
  run.status = "AWAITING_APPROVAL" => run.approvalState = "PENDING"

(* At most one decision takes effect; the row, its version, the approval   *)
(* and the ticket agree on it, and a ticket exists iff it is an approval.  *)
OneConsistentDecision ==
  /\ run.version = IF Decided THEN 1 ELSE 0
  /\ IF Decided
     THEN \E m \in Managers, v \in Verdicts :
            LET a == [actor |-> m, decision |-> v, runVersion |-> 1]
            IN  /\ approvals = {a}
                /\ tickets = IF v = "APPROVE" THEN {a} ELSE {}
                /\ run.approvalState = VerdictState(v)
     ELSE approvals = {} /\ tickets = {}

(* Of concurrent decide calls exactly one answers 201, and it is the one   *)
(* whose approval is stored.                                               *)
OnlyTheWinnerIsTold ==
  \A m \in Managers :
    decisions[m].pc = "accepted" <=> \E a \in approvals : a.actor = m

(* A ticket is only created for a run whose synthesis proposed an action   *)
(* and asked for approval: a hard stop (BLOCKED) never becomes a ticket.   *)
TicketWasProposed ==
  tickets # {} => /\ \E e \in events : e.type = "synthesis.completed" /\ e.ok
                  /\ Recorded("approval.required")

(* The tasks shown for a run are exactly what its log says.                *)
TasksMatchLog ==
  \A l \in LaneIndex :
    tasks[l] =
      IF ~Recorded("plan.created") \/ run.mode = "SINGLE" THEN "absent"
      ELSE IF \E e \in events : e.type = "agent.completed" /\ e.lane = l
           THEN IF \E e \in events : e.type = "agent.completed" /\ e.lane = l /\ e.ok
                THEN "COMPLETED" ELSE "FAILED"
      ELSE IF \E e \in events : e.type = "agent.started" /\ e.lane = l
           THEN "RUNNING" ELSE "PENDING"

(* Retrying is safe: as long as publishing never raised and the dispatcher *)
(* recorded nothing, every event the runner regards as delivered is in the *)
(* log exactly as it was sent.                                             *)
DeliveredEventsAreRecorded ==
  DispatchFailure \notin events /\ worker.event.type # "run.failed" =>
    /\ worker.pc \in {"published", "done"} => worker.event \in events
    /\ \A n \in 1..(worker.seq - 1) : \E e \in events : e.seq = n /\ e.src = "runner"

(* A decision is final: no later callback, retry or decide call changes    *)
(* the verdict, the approval or the ticket.                                *)
DecisionIsFinal ==
  [][Decided => /\ run'.approvalState = run.approvalState
                /\ run'.version = run.version
                /\ UNCHANGED <<approvals, tickets>>]_vars

(* What RunLedger promises: the log grows by one event at a time, the      *)
(* verdict is asked for once and given once, the ticket comes with it.     *)
Ledger == INSTANCE RunLedger WITH
  Types   <- EventTypes,
  log     <- {<<e.seq, e.type>> : e \in events},
  length  <- run.last,
  verdict <- run.approvalState,
  ticket  <- tickets # {}
ImplementsLedger == Ledger!Spec

Settled == run.status \in {"AWAITING_APPROVAL", "COMPLETED", "PARTIAL", "FAILED"}

(* The process that owed the run its next event died: the AI task, or the  *)
(* backend between a failed dispatch and the record of it.                 *)
Stranded == \/ worker.pc = "dead"
            \/ startReq = "lost" /\ dispatch = "recording" /\ calls = {}

(* While fewer messages are lost than an event has attempts, and unless a  *)
(* process dies, the run leaves the states a user can only wait in, for    *)
(* good: retries, late attempts and a late dispatch failure do not block.  *)
RunEventuallySettles == <>[](Settled \/ Stranded)

(* The runner logs "Unable to deliver terminal failure callback" when it   *)
(* could not report the end of the run; finishing without that message     *)
(* should mean that the end has been recorded.                             *)
EndOfRunIsDelivered ==
  worker.pc = "done" => Recorded("run.completed") \/ Recorded("run.failed")

(* The client treats COMPLETED, PARTIAL and FAILED as terminal statuses    *)
(* and stops following the run.                                            *)
TerminalStatusIsFinal ==
  [][run.status \in {"COMPLETED", "PARTIAL", "FAILED"} => run'.status = run.status]_vars

(* "Một specialist lỗi tạo kết quả PARTIAL": a run that reported a failed  *)
(* lane is not shown as COMPLETED.                                         *)
PartialRunIsNotCompleted ==
  run.results = "partial" => run.status # "COMPLETED"

-----------------------------------------------------------------------------
(* Why the properties are inductive.                                       *)

InFlight == {c.event : c \in calls}

(* A request whose transaction is open read the row just before its event; *)
(* the dispatcher only ever sends DispatchFailure.                         *)
CallsInv ==
  \A c \in calls :
    /\ c.stage = "open" => c.snap.last = c.event.seq - 1
    /\ c.event.src = "dispatcher" => c.event = DispatchFailure

(* The runner numbers its events itself, and reports approval.required at  *)
(* most once, under one number: no stray attempt can ask for a decision a  *)
(* second time.                                                            *)
RunnerInv ==
  /\ worker.pc = "idle" => /\ worker.event = NoEvent /\ worker.seq = 0
                           /\ \A e \in InFlight \cup events : e.src = "dispatcher"
  /\ worker.pc # "idle" => worker.event.src = "runner" /\ worker.event.seq = worker.seq
  /\ \A e \in InFlight \cup events :
       /\ e.src = "runner" => e.seq <= worker.seq
       /\ e.src = "dispatcher" => e.type = "run.failed"
       /\ e.type = "approval.required" =>
            worker.event.type \in {"approval.required", "run.completed", "run.failed"}
  /\ \A e, f \in InFlight \cup events \cup {worker.event} :
       e.type = "approval.required" /\ f.type = "approval.required" => e.seq = f.seq

(* The row repeats what the log says, and an open decision has read a row  *)
(* that was waiting for it.                                                *)
DecisionInv ==
  /\ run.approvalState # "NONE" => Recorded("approval.required")
  /\ run.decision = "proposed" => \E e \in events : e.type = "synthesis.completed" /\ e.ok
  /\ \A m \in Managers : decisions[m].pc = "open" => Awaiting(decisions[m].snap)

Inv == /\ TypeOK /\ CallsInv /\ RunnerInv /\ LogIsContiguous /\ DecisionInv
       /\ AwaitingCanBeDecided /\ OneConsistentDecision /\ TicketWasProposed

(* Where an event stands in the story of a run, whatever its number is: a  *)
(* lane takes four places, of which evidence may leave two empty.          *)
Place(type, lane) ==
  CASE type = "run.started"         -> 0
    [] type = "plan.created"        -> 1
    [] type = "agent.started"       -> 4 * lane - 2
    [] type = "tool.completed"      -> 4 * lane - 1
    [] type = "citation.added"      -> 4 * lane
    [] type = "agent.completed"     -> 4 * lane + 1
    [] type = "synthesis.completed" -> 4 * Len(Lanes) + 2
    [] type = "approval.required"   -> 4 * Len(Lanes) + 3
    [] type = "run.completed"       -> 4 * Len(Lanes) + 4
    [] OTHER                        -> 4 * Len(Lanes) + 5

LaneEvents == {"agent.started", "tool.completed", "citation.added", "agent.completed"}

(* Events of the runner that somebody may still record or has recorded.    *)
Told == {e \in InFlight \cup events \cup {worker.event} : e.src = "runner"}

Follows(e, f) == f.type = "run.failed" \/ <<f.type, f.lane>> \in Successors(e)

(* Whatever attempts are under way, the runner tells one story: a number   *)
(* is one event, later numbers are later in the story, and consecutive     *)
(* numbers are consecutive events.                                         *)
StoryInv ==
  /\ \A e \in Told :
       /\ e.seq = 1 <=> e.type = "run.started"
       /\ e.seq = 2 => e.type \in {"plan.created", "run.failed"}
       /\ e.type \in LaneEvents => e.lane \in LaneIndex /\ run.mode = "MULTI"
       /\ e.type \notin LaneEvents => e.lane = 0
  /\ \A e, f \in Told :
       /\ e.seq = f.seq => e = f
       /\ e.seq < f.seq => Place(e.type, e.lane) < Place(f.type, f.lane)
       /\ f.seq = e.seq + 1 => Follows(e, f)
  /\ \A e \in events : e.src = "dispatcher" => e = DispatchFailure

(* What a story cannot leave out before it goes on.                        *)
Milestones ==
  {<<type, 0>> : type \in {"plan.created", "synthesis.completed", "approval.required"}}
    \cup IF run.mode = "MULTI" THEN {"agent.started", "agent.completed"} \X LaneIndex ELSE {}

(* An event is only recorded after the milestones before it.               *)
WholeInv ==
  \A e \in events : \A m \in Milestones :
    e.type # "run.failed" /\ Place(m[1], m[2]) < Place(e.type, e.lane) =>
      \E f \in events : f.type = m[1] /\ f.lane = m[2]

(* An answer tells the truth about the log, as long as publishing has not  *)
(* raised and the dispatcher has recorded nothing.                         *)
NothingRaised == DispatchFailure \notin events /\ worker.event.type # "run.failed"
AnswersInv ==
  \A c \in calls :
    /\ c.stage = "created" => c.event \in events
    /\ NothingRaised /\ c.stage = "conflict" /\ c.event = worker.event => c.event \in events

StoryTold == /\ StoryInv /\ WholeInv /\ AnswersInv /\ TasksMatchLog
             /\ DeliveredEventsAreRecorded /\ OnlyTheWinnerIsTold

=============================================================================
