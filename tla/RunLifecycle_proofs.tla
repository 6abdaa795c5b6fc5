------------------------- MODULE RunLifecycle_proofs -------------------------
(***************************************************************************)
(* Proofs about RunLifecycle, for every number of lanes, managers,         *)
(* attempts and faults. The invariant Inv is shown inductive action by     *)
(* action; the theorems at the end read the properties off it.             *)
(***************************************************************************)
EXTENDS RunLifecycle, TLAPS

-----------------------------------------------------------------------------
(* Facts about the data.                                                   *)

LEMMA RowTypes ==
  ASSUME NEW mode \in {"SINGLE", "MULTI"}
  PROVE  NewRow(mode) \in Row
  BY DEF NewRow, Row, RunStatus, ApprovalState

LEMMA DispatchFailureType == DispatchFailure \in Event
  BY DEF DispatchFailure, Event, EventTypes

(* What the runner may report next is an event type and a lane.            *)
LEMMA SuccessorTypes ==
  ASSUME NEW e \in Event, NEW s \in Successors(e)
  PROVE  /\ s[1] \in EventTypes
         /\ s[2] \in {0} \cup LaneIndex
         /\ s[1] = "approval.required" => e.type = "synthesis.completed"
         /\ e.type \in {"approval.required", "run.completed", "run.failed"} =>
              s[1] = "run.completed"
<1>. USE DEF Event, EventTypes
<1>1. ASSUME NEW i
      PROVE  /\ FirstOrSynthesis(i)[1] \in {"agent.started", "synthesis.completed"}
             /\ FirstOrSynthesis(i)[2] \in {0} \cup LaneIndex
  BY DEF FirstOrSynthesis
<1>2. ASSUME NEW types, NEW i, NEW t \in Evidence(types, i)
      PROVE  t[1] \in types /\ t[2] = i
  BY DEF Evidence
<1>. QED
  BY <1>1, <1>2 DEF Successors

(* Applying an event to a typed row gives a typed row with the event's     *)
(* number; only approval.required asks for a verdict.                      *)
LEMMA AppliedRow ==
  ASSUME TypeOK, NEW e \in Event, NEW a \in ApprovalState, ApplyEvent(e, a)
  PROVE  /\ run' \in Row
         /\ run'.last = e.seq
         /\ run'.mode = run.mode
         /\ run'.version = run.version
         /\ run'.approvalState = ApprovalStateAfter(e, run.approvalState)
         /\ run'.status = StatusAfter(e, run.status, a)
         /\ run'.decision = DecisionAfter(e, run.decision)
<1>1. StatusAfter(e, run.status, a) \in RunStatus
  BY DEF TypeOK, Row, StatusAfter, RunStatus
<1>2. ApprovalStateAfter(e, run.approvalState) \in ApprovalState
  BY DEF TypeOK, Row, ApprovalStateAfter, ApprovalState
<1>3. DecisionAfter(e, run.decision) \in {"none", "proposed", "blocked"}
  BY DEF TypeOK, Row, DecisionAfter
<1>4. ResultsAfter(e, run.results) \in {"none", "complete", "partial", "failure"}
  BY DEF TypeOK, Row, ResultsAfter
<1>. QED
  BY <1>1, <1>2, <1>3, <1>4 DEF TypeOK, Row, ApplyEvent, Event

(* The initial rows and records are typed.                                 *)
LEMMA NoSnapType == ASSUME TypeOK PROVE NoSnap \in Row
  BY RowTypes DEF TypeOK, NoSnap, Row

-----------------------------------------------------------------------------
(* What the steps of the AI service do to its task and to the network.     *)

Late == {"approval.required", "run.completed", "run.failed"}

SameEvent ==
  /\ worker.pc # "idle"
  /\ worker'.event = worker.event
  /\ worker'.seq = worker.seq

NewEvent ==
  /\ worker'.seq = worker.seq + 1
  /\ worker'.event.src = "runner"
  /\ worker'.event.seq = worker'.seq
  /\ worker'.event.type = "approval.required" =>
       worker.pc # "idle" /\ worker.event.type = "synthesis.completed"
  /\ worker.event.type \in Late => worker'.event.type \in {"run.completed", "run.failed"}

RunnerStep ==
  /\ worker' \in Worker
  /\ worker'.pc # "idle"
  /\ SameEvent \/ NewEvent
  /\ calls' \subseteq Call
  /\ \A d \in calls' : d \in calls \/ (d.event = worker'.event /\ d.stage = "sent")

(* Reporting a new event is a step of the runner.                          *)
LEMMA EmitStep ==
  ASSUME TypeOK, NEW type \in EventTypes, NEW lane \in {0} \cup LaneIndex,
         NEW ok \in BOOLEAN, Emit(type, lane, ok),
         type = "approval.required" =>
           worker.pc # "idle" /\ worker.event.type = "synthesis.completed",
         worker.event.type \in Late => type \in {"run.completed", "run.failed"}
  PROVE  RunnerStep
<1>. DEFINE e == [src |-> "runner", seq |-> worker.seq + 1, type |-> type,
                  lane |-> lane, ok |-> ok]
<1>1. e \in Event
  BY DEF TypeOK, Worker, Event
<1>2. /\ worker' \in Worker
      /\ worker'.pc = "publishing"
      /\ worker'.event = e
      /\ worker'.seq = worker.seq + 1
  <2>. DEFINE partial  == worker.partial \/ (type = "agent.completed" /\ ~ok)
              screened == worker.screened \/ (type = "agent.completed" /\ ok
                                              /\ Lanes[lane] = "COMPLIANCE")
  <2>1. partial \in BOOLEAN /\ screened \in BOOLEAN
    BY Zenon
  <2>2. worker' = [worker EXCEPT !.pc = "publishing", !.seq = @ + 1, !.attempt = 1,
                                 !.event = e, !.partial = partial, !.screened = screened]
    BY Zenon DEF Emit
  <2>3. worker \in Worker
    BY DEF TypeOK
  <2>. HIDE DEF e, partial, screened
  <2>4. PICK p \in BOOLEAN, q \in BOOLEAN, f \in Event : p = partial /\ q = screened /\ f = e
    BY <1>1, <2>1, Zenon
  <2>5. worker' = [worker EXCEPT !.pc = "publishing", !.seq = @ + 1, !.attempt = 1,
                                 !.event = f, !.partial = p, !.screened = q]
    BY <2>2, <2>4, Zenon
  <2>6. worker' = [pc |-> "publishing", seq |-> worker.seq + 1, attempt |-> 1,
                   event |-> f, partial |-> p, screened |-> q]
    BY <2>3, <2>5 DEF Worker
  <2>7. worker.seq + 1 \in Nat
    BY <2>3 DEF Worker
  <2>. QED
    BY <2>4, <2>6, <2>7 DEF Worker
<1>3. Attempt(e, 1) \in Call /\ Attempt(e, 1).event = e /\ Attempt(e, 1).stage = "sent"
  BY <1>1, NoSnapType DEF Attempt, Call
<1>4. calls' = (calls \ AnswersRead) \cup {Attempt(e, 1)}
  BY DEF Emit
<1>5. NewEvent
  BY <1>2 DEF NewEvent
<1>6. calls' \subseteq Call
  BY <1>3, <1>4 DEF TypeOK
<1>7. \A d \in calls' : d \in calls \/ (d.event = worker'.event /\ d.stage = "sent")
  BY <1>2, <1>3, <1>4
<1>. QED
  BY <1>2, <1>5, <1>6, <1>7 DEF RunnerStep

(* A publish that raises is a step of the runner.                          *)
LEMMA RaiseStep ==
  ASSUME TypeOK, worker.pc # "idle", Raise
  PROVE  RunnerStep
<1>1. CASE worker.event.type = "run.failed"
  BY <1>1 DEF Raise, RunnerStep, SameEvent, TypeOK, Worker
<1>2. CASE worker.event.type # "run.failed"
  <2>1. Emit("run.failed", 0, FALSE)
    BY <1>2 DEF Raise
  <2>. QED
    BY <2>1, EmitStep DEF EventTypes
<1>. QED
  BY <1>1, <1>2

(* Retrying a publish, or giving it up, is a step of the runner.           *)
LEMMA RetryStep ==
  ASSUME TypeOK, worker.pc # "idle", RetryOrRaise
  PROVE  RunnerStep
<1>1. CASE worker.attempt < MaxAttempts
  <2>1. worker' \in Worker /\ worker'.pc = worker.pc /\ SameEvent
    BY <1>1 DEF RetryOrRaise, SameEvent, TypeOK, Worker
  <2>2. LET a == Attempt(worker.event, worker.attempt + 1)
        IN  a \in Call /\ a.event = worker.event /\ a.stage = "sent"
    BY NoSnapType DEF Attempt, Call, TypeOK, Worker
  <2>3. calls' = (calls \ AnswersRead) \cup {Attempt(worker.event, worker.attempt + 1)}
    BY <1>1 DEF RetryOrRaise
  <2>. QED
    BY <2>1, <2>2, <2>3 DEF RunnerStep, SameEvent, TypeOK
<1>2. CASE ~(worker.attempt < MaxAttempts)
  BY <1>2, RaiseStep DEF RetryOrRaise
<1>. QED
  BY <1>1, <1>2

AiStep ==
  \/ EmitNext \/ WorkflowRaises \/ PublishTimeout \/ AiCrash \/ AcceptStart
  \/ \E c \in calls : Acknowledge(c) \/ Reject(c)

(* Every step of the AI service is a step of the runner and leaves the     *)
(* database alone.                                                         *)
LEMMA AiStepIsRunnerStep ==
  ASSUME TypeOK, RunnerInv, AiStep
  PROVE  /\ RunnerStep
         /\ UNCHANGED <<database, decisions>>
<1>1. UNCHANGED <<database, decisions>>
  BY DEF AiStep, EmitNext, WorkflowRaises, PublishTimeout, AiCrash, AcceptStart,
         Acknowledge, Reject
<1>2. CASE EmitNext
  <2>0. PICK s \in Successors(worker.event) :
          \E ok \in PayloadChoices(s[1]) : Emit(s[1], s[2], ok)
    BY <1>2 DEF EmitNext
  <2>1. PICK ok \in PayloadChoices(s[1]) : Emit(s[1], s[2], ok)
    BY <2>0
  <2>2. worker.event \in Event /\ worker.pc = "published"
    BY <1>2 DEF EmitNext, TypeOK, Worker
  <2>3. ok \in BOOLEAN
    BY <2>1, <2>2 DEF PayloadChoices, Event, TypeOK, Worker
  <2>. QED
    BY <1>1, <2>1, <2>2, <2>3, EmitStep, SuccessorTypes DEF Late
<1>3. CASE WorkflowRaises
  BY <1>1, <1>3, EmitStep DEF WorkflowRaises, EventTypes
<1>4. CASE PublishTimeout
  BY <1>1, <1>4, RetryStep DEF PublishTimeout
<1>5. CASE AiCrash
  BY <1>1, <1>5 DEF AiCrash, RunnerStep, SameEvent, TypeOK, Worker
<1>6. CASE AcceptStart
  <2>1. worker.event.type = "run.started"
    BY <1>6 DEF AcceptStart, RunnerInv, NoEvent
  <2>. QED
    BY <1>1, <1>6, <2>1, EmitStep DEF AcceptStart, EventTypes, Late
<1>7. ASSUME NEW c \in calls, Acknowledge(c)
      PROVE  RunnerStep
  BY <1>7 DEF Acknowledge, Awaited, Delivered, RunnerStep, SameEvent, TypeOK, Worker, Call, Event
<1>8. ASSUME NEW c \in calls, Reject(c)
      PROVE  RunnerStep
  <2>1. worker.pc # "idle"
    BY <1>8 DEF Reject, Awaited
  <2>. QED
    BY <1>8, <2>1, RaiseStep, RetryStep DEF Reject
<1>. QED
  BY <1>1, <1>2, <1>3, <1>4, <1>5, <1>6, <1>7, <1>8 DEF AiStep

-----------------------------------------------------------------------------
(* What the other steps do to the network.                                 *)

(* Answering a request adds no event to the network and opens nothing.     *)
LEMMA AnswerEffect ==
  ASSUME TypeOK, NEW c \in calls, NEW reply \in Replies, Answer(c, reply)
  PROVE  /\ calls' \subseteq Call
         /\ \A d \in calls' : d \in calls \/ (d.event = c.event /\ d.stage = reply)
<1>. DEFINE a == [c EXCEPT !.stage = reply, !.snap = NoSnap]
<1>1. c \in Call /\ calls \subseteq Call
  BY DEF TypeOK
<1>2. a \in Call /\ a.event = c.event /\ a.stage = reply
  BY <1>1, NoSnapType DEF Call
<1>3. calls' \subseteq calls \cup {a}
  BY DEF Answer
<1>. QED
  BY <1>1, <1>2, <1>3

(* A request in flight is of one of three kinds: it was there before, or   *)
(* it answers or opens one that was, or it is the dispatcher's.            *)
Opened(d)   == d.stage = "open" /\ d.snap = run /\ NextInLine(d.event)
Answered(d) == d.stage # "open"

NetworkStep ==
  /\ UNCHANGED <<database, worker, decisions>>
  /\ calls' \subseteq Call
  /\ \A d \in calls' :
       \/ d \in calls
       \/ d.event \in InFlight /\ (Opened(d) \/ Answered(d))
       \/ d.event = DispatchFailure /\ Answered(d)

NetworkAction(c) ==
  \/ RecordBegin(c) \/ RecordAbort(c) \/ DispatchRecorded(c) \/ Lose(c) \/ GuardRefuses(c)

(* Opening, aborting, losing, refusing or reading a request leaves the     *)
(* database and the worker alone.                                          *)
LEMMA NetworkActionEffect ==
  ASSUME TypeOK, NEW c \in calls, NetworkAction(c)
  PROVE  NetworkStep
<1>1. UNCHANGED <<database, worker, decisions>>
  BY DEF NetworkAction, RecordBegin, RecordAbort, DispatchRecorded, Lose, GuardRefuses
<1>2. ASSUME NEW reply \in Replies \cup {"refused"}, Answer(c, reply)
      PROVE  NetworkStep
  BY <1>1, <1>2, AnswerEffect DEF NetworkStep, Replies, InFlight, Answered
<1>3. CASE RecordBegin(c)
  <2>1. CASE Duplicate(c.event) \/ ~NextInLine(c.event)
    BY <1>2, <1>3, <2>1 DEF RecordBegin, Replies
  <2>2. CASE ~(Duplicate(c.event) \/ ~NextInLine(c.event))
    <3>. DEFINE o == [c EXCEPT !.stage = "open", !.snap = run]
    <3>1. o \in Call /\ o.event = c.event /\ o.stage = "open" /\ o.snap = run
      BY DEF TypeOK, Call
    <3>2. calls' = (calls \ {c}) \cup {o}
      BY <1>3, <2>2 DEF RecordBegin
    <3>. QED
      BY <1>1, <2>2, <3>1, <3>2 DEF NetworkStep, Opened, InFlight, TypeOK
  <2>. QED
    BY <2>1, <2>2
<1>4. CASE RecordAbort(c)
  BY <1>2, <1>4 DEF RecordAbort, Replies
<1>5. CASE DispatchRecorded(c)
  BY <1>1, <1>5 DEF DispatchRecorded, NetworkStep, TypeOK
<1>6. CASE Lose(c)
  BY <1>1, <1>6 DEF Lose, NetworkStep, TypeOK
<1>7. CASE GuardRefuses(c)
  BY <1>2, <1>7 DEF GuardRefuses
<1>. QED
  BY <1>3, <1>4, <1>5, <1>6, <1>7 DEF NetworkAction

(* So does the dispatcher while it calls the AI service.                   *)
LEMMA DispatchEffect ==
  ASSUME TypeOK, DispatchOk \/ DispatchThrows \/ LoseStart
  PROVE  NetworkStep
<1>1. CASE DispatchThrows
  <2>1. LET a == Attempt(DispatchFailure, 0)
        IN  a \in Call /\ a.event = DispatchFailure /\ a.stage = "sent"
    BY DispatchFailureType, NoSnapType DEF Attempt, Call
  <2>. QED
    BY <1>1, <2>1 DEF DispatchThrows, NetworkStep, Answered, TypeOK
<1>2. CASE DispatchOk \/ LoseStart
  BY <1>2 DEF DispatchOk, LoseStart, NetworkStep, TypeOK
<1>. QED
  BY <1>1, <1>2

-----------------------------------------------------------------------------
(* The five kinds of steps, as far as the invariant is concerned.          *)

(* A decide call that opens or ends without writing anything.              *)
DecideStep ==
  /\ UNCHANGED <<database, worker, calls>>
  /\ \E m \in Managers, verdict \in Verdicts :
       decisions' = [decisions EXCEPT ![m] = [pc |-> "open", verdict |-> verdict, snap |-> run]]
         /\ Awaiting(run)
  \/ /\ UNCHANGED <<database, worker, calls>>
     /\ \E m \in Managers :
          decisions' = [decisions EXCEPT ![m] = [Undecided(run.mode) EXCEPT !.pc = "refused"]]

(* Every step is one of the five kinds.                                    *)
LEMMA StepKinds ==
  ASSUME TypeOK, Next
  PROVE  \/ AiStep
         \/ NetworkStep
         \/ \E c \in calls : RecordCommit(c)
         \/ DecideStep
         \/ \E m \in Managers : DecideCommit(m)
<1>1. ASSUME NEW c \in calls, Backend(c)
      PROVE  NetworkStep \/ RecordCommit(c)
  BY <1>1, NetworkActionEffect DEF Backend, NetworkAction
<1>2. CASE Runner
  BY <1>2 DEF Runner, AiStep
<1>3. CASE Dispatcher
  BY <1>3, NetworkActionEffect, DispatchEffect DEF Dispatcher, AiStep, NetworkAction
<1>4. CASE Faults
  BY <1>4, NetworkActionEffect, DispatchEffect DEF Faults, AiStep, NetworkAction
<1>5. ASSUME NEW m \in Managers, Decide(m)
      PROVE  DecideStep \/ DecideCommit(m)
  <2>1. ASSUME NEW verdict \in Verdicts, NEW expected, DecideBegin(m, verdict, expected)
        PROVE  DecideStep
    BY <2>1 DEF DecideBegin, DecideStep
  <2>2. CASE DecideAbort(m)
    BY <2>2 DEF DecideAbort, DecideStep
  <2>. QED
    BY <1>5, <2>1, <2>2 DEF Decide
<1>. QED
  BY <1>1, <1>2, <1>3, <1>4, <1>5 DEF Next

(* The position of the dispatch and the number of faults keep their types. *)
LEMMA DispatchTyped ==
  ASSUME TypeOK, Next
  PROVE  /\ startReq' \in {"sent", "accepted", "lost"}
         /\ dispatch' \in {"calling", "dispatched", "recording", "failed", "raced", "errored"}
         /\ faults' \in 0..MaxFaults
<1>. DEFINE Typed == /\ startReq' \in {"sent", "accepted", "lost"}
                     /\ dispatch' \in {"calling", "dispatched", "recording",
                                       "failed", "raced", "errored"}
                     /\ faults' \in 0..MaxFaults
<1>0. /\ startReq \in {"sent", "accepted", "lost"}
      /\ dispatch \in {"calling", "dispatched", "recording", "failed", "raced", "errored"}
      /\ faults \in 0..MaxFaults
      /\ faults < MaxFaults => faults + 1 \in 0..MaxFaults
  BY FaultsAssumption DEF TypeOK
<1>1. ASSUME NEW c \in calls, Backend(c) PROVE Typed
  BY <1>0, <1>1 DEF Backend, RecordBegin, RecordCommit, RecordAbort
<1>2. CASE Runner
  <2>1. CASE EmitNext \/ WorkflowRaises
    BY <1>0, <2>1 DEF EmitNext, WorkflowRaises
  <2>2. CASE PublishTimeout
    BY <1>0, <2>2 DEF PublishTimeout
  <2>3. ASSUME NEW c \in calls, Acknowledge(c) \/ Reject(c) PROVE Typed
    BY <1>0, <2>3 DEF Acknowledge, Reject
  <2>. QED
    BY <1>2, <2>1, <2>2, <2>3 DEF Runner
<1>3. CASE Dispatcher
  <2>1. CASE AcceptStart \/ DispatchOk
    BY <1>0, <2>1 DEF AcceptStart, DispatchOk
  <2>2. CASE DispatchThrows
    BY <1>0, <2>2 DEF DispatchThrows
  <2>3. ASSUME NEW c \in calls, DispatchRecorded(c) PROVE Typed
    BY <1>0, <2>3 DEF DispatchRecorded
  <2>. QED
    BY <1>3, <2>1, <2>2, <2>3 DEF Dispatcher
<1>4. CASE Faults
  <2>1. CASE AiCrash \/ LoseStart
    BY <1>0, <2>1 DEF AiCrash, LoseStart
  <2>2. ASSUME NEW c \in calls, Lose(c) \/ GuardRefuses(c) PROVE Typed
    BY <1>0, <2>2 DEF Lose, GuardRefuses
  <2>. QED
    BY <1>4, <2>1, <2>2 DEF Faults
<1>5. ASSUME NEW m \in Managers, Decide(m) PROVE Typed
  BY <1>0, <1>5 DEF Decide, DecideBegin, DecideCommit, DecideAbort
<1>. QED
  BY <1>1, <1>2, <1>3, <1>4, <1>5 DEF Next

(* Every step keeps the types.                                             *)
LEMMA TypesKept ==
  ASSUME TypeOK, RunnerInv, Next
  PROVE  TypeOK'
<1>1. CASE AiStep
  BY <1>1, DispatchTyped, AiStepIsRunnerStep DEF TypeOK, RunnerStep, database
<1>2. CASE NetworkStep
  BY <1>2, DispatchTyped DEF TypeOK, NetworkStep, database
<1>3. ASSUME NEW c \in calls, RecordCommit(c)
      PROVE  TypeOK'
  <2>1. c \in Call /\ c.event \in Event /\ c.snap.approvalState \in ApprovalState
    BY DEF TypeOK, Call, Row
  <2>2. run' \in Row
    BY <1>3, <2>1, AppliedRow DEF RecordCommit
  <2>3. events' \subseteq Event
    BY <1>3, <2>1 DEF RecordCommit, ApplyEvent, TypeOK
  <2>4. tasks' \in [LaneIndex -> TaskStatus \cup {"absent"}]
    <3>1. ASSUME NEW l \in LaneIndex
          PROVE  TaskAfter(c.event, l, tasks[l]) \in TaskStatus \cup {"absent"}
      BY DEF TaskAfter, TaskStatus, TypeOK
    <3>. QED
      BY <1>3, <3>1 DEF RecordCommit, ApplyEvent
  <2>5. calls' \subseteq Call
    BY <1>3, AnswerEffect DEF RecordCommit, Replies
  <2>6. UNCHANGED <<approvals, tickets, worker, decisions>>
    BY <1>3 DEF RecordCommit, ApplyEvent
  <2>. QED
    BY <2>2, <2>3, <2>4, <2>5, <2>6, DispatchTyped DEF TypeOK
<1>4. CASE DecideStep
  <2>1. Undecided(run.mode) \in [pc: {"idle"}, verdict: Verdicts, snap: Row]
    BY RowTypes DEF Undecided, Verdicts, TypeOK, Row
  <2>2. decisions' \in [Managers -> [pc: {"idle", "open", "accepted", "refused"},
                                     verdict: Verdicts, snap: Row]]
    BY <1>4, <2>1 DEF DecideStep, TypeOK
  <2>3. UNCHANGED <<database, worker, calls>>
    BY <1>4 DEF DecideStep
  <2>. QED
    BY <2>2, <2>3, DispatchTyped DEF TypeOK, database
<1>5. ASSUME NEW m \in Managers, DecideCommit(m)
      PROVE  TypeOK'
  <2>. DEFINE v == decisions[m].verdict
              a == [actor |-> m, decision |-> v, runVersion |-> run.version + 1]
  <2>1. v \in Verdicts
    BY DEF TypeOK
  <2>2. a \in [actor: Managers, decision: Verdicts, runVersion: Nat]
    BY <2>1 DEF TypeOK, Row
  <2>3. run' \in Row
    <3>1. VerdictState(v) \in ApprovalState
      BY DEF VerdictState, ApprovalState
    <3>2. run' = [run EXCEPT !.approvalState = VerdictState(v), !.status = "COMPLETED",
                             !.version = @ + 1]
      BY <1>5 DEF DecideCommit
    <3>. HIDE DEF v
    <3>3. run' = [mode |-> run.mode, status |-> "COMPLETED",
                  approvalState |-> VerdictState(v), version |-> run.version + 1,
                  last |-> run.last, decision |-> run.decision, results |-> run.results]
      BY <3>2 DEF TypeOK, Row
    <3>4. run.version + 1 \in Nat
      BY DEF TypeOK, Row
    <3>. QED
      BY <3>1, <3>3, <3>4 DEF TypeOK, Row, RunStatus
  <2>4. approvals' = approvals \cup {a} /\ tickets' \subseteq tickets \cup {a}
    BY <1>5 DEF DecideCommit
  <2>5. Undecided(run.mode) \in [pc: {"idle"}, verdict: Verdicts, snap: Row]
    BY RowTypes DEF Undecided, Verdicts, TypeOK, Row
  <2>6. decisions' \in [Managers -> [pc: {"idle", "open", "accepted", "refused"},
                                     verdict: Verdicts, snap: Row]]
    BY <1>5, <2>1, <2>5 DEF DecideCommit, TypeOK
  <2>7. UNCHANGED <<events, tasks, worker, calls>>
    BY <1>5 DEF DecideCommit
  <2>. HIDE DEF a
  <2>. QED
    BY <2>2, <2>3, <2>4, <2>6, <2>7, DispatchTyped DEF TypeOK
<1>. QED
  BY <1>1, <1>2, <1>3, <1>4, <1>5, StepKinds

-----------------------------------------------------------------------------
(* The transport part of the invariant.                                    *)

(* What a committed record has done. The row it read is the row it wrote   *)
(* to, so the event it adds is the next one of the log.                    *)
LEMMA RecordEffect ==
  ASSUME TypeOK, CallsInv, NEW c \in calls, RecordCommit(c)
  PROVE  /\ c.event \in Event /\ c.event \in InFlight
         /\ c.event.seq = run.last + 1
         /\ run'.last = c.event.seq
         /\ run'.mode = run.mode
         /\ run'.version = run.version
         /\ run'.approvalState = ApprovalStateAfter(c.event, run.approvalState)
         /\ run'.status = StatusAfter(c.event, run.status, run.approvalState)
         /\ run'.decision = DecisionAfter(c.event, run.decision)
         /\ events' = events \cup {c.event}
         /\ UNCHANGED <<approvals, tickets, worker, decisions>>
         /\ \A d \in calls' : d \in calls \/ (d.event = c.event /\ d.stage = "created")
<1>1. /\ c \in Call /\ c.event \in Event /\ c.event \in InFlight
      /\ run \in Row /\ run.approvalState \in ApprovalState
  BY DEF TypeOK, Call, Row, InFlight
<1>2. c.snap = run /\ c.stage = "open"
  BY DEF RecordCommit, RowUnchanged
<1>3. c.event.seq = run.last + 1
  BY <1>1, <1>2 DEF CallsInv, Row, Event
<1>4. ApplyEvent(c.event, run.approvalState)
  BY <1>2 DEF RecordCommit
<1>5. \A d \in calls' : d \in calls \/ (d.event = c.event /\ d.stage = "created")
  BY AnswerEffect DEF RecordCommit, Replies
<1>6. /\ events' = events \cup {c.event}
      /\ UNCHANGED <<approvals, tickets, worker, decisions>>
  BY <1>4 DEF ApplyEvent, RecordCommit
<1>. QED
  BY <1>1, <1>3, <1>4, <1>5, <1>6, AppliedRow

(* The steps that leave the network alone leave CallsInv alone, the others *)
(* open a request only on the row just before its event.                   *)
LEMMA CallsKept ==
  ASSUME TypeOK, CallsInv, RunnerInv, Next
  PROVE  CallsInv'
<1>1. CASE AiStep
  <2>1. RunnerStep
    BY <1>1, AiStepIsRunnerStep
  <2>2. worker'.event.src = "runner"
    BY <2>1 DEF RunnerStep, SameEvent, NewEvent, RunnerInv
  <2>. QED
    BY <2>1, <2>2 DEF RunnerStep, CallsInv
<1>2. CASE NetworkStep
  <2>1. ASSUME NEW d \in calls'
        PROVE  /\ d.stage = "open" => d.snap.last = d.event.seq - 1
               /\ d.event.src = "dispatcher" => d.event = DispatchFailure
    BY <1>2 DEF NetworkStep, CallsInv, InFlight, Opened, Answered, NextInLine, DispatchFailure
  <2>. QED
    BY <2>1 DEF CallsInv
<1>3. ASSUME NEW c \in calls, RecordCommit(c)
      PROVE  CallsInv'
  BY <1>3, RecordEffect DEF CallsInv
<1>4. CASE DecideStep \/ \E m \in Managers : DecideCommit(m)
  BY <1>4 DEF DecideStep, DecideCommit, CallsInv
<1>. QED
  BY <1>1, <1>2, <1>3, <1>4, StepKinds

(* A step that neither moves the worker nor brings in an event other than  *)
(* the dispatcher's keeps RunnerInv.                                       *)
LEMMA RunnerInvStable ==
  ASSUME RunnerInv, UNCHANGED worker,
         InFlight' \cup events' \subseteq InFlight \cup events \cup {DispatchFailure}
  PROVE  RunnerInv'
<1>1. /\ DispatchFailure.src = "dispatcher"
      /\ DispatchFailure.type = "run.failed"
  BY DEF DispatchFailure
<1>. QED
  BY <1>1 DEF RunnerInv

(* Every step keeps the numbering of the runner.                           *)
LEMMA RunnerKept ==
  ASSUME TypeOK, CallsInv, RunnerInv, Next
  PROVE  RunnerInv'
<1>1. CASE AiStep
  <2>. DEFINE known == InFlight \cup events
  <2>1. RunnerStep /\ events' = events
    BY <1>1, AiStepIsRunnerStep DEF database
  <2>2. InFlight' \cup events' \subseteq known \cup {worker'.event}
    BY <2>1 DEF RunnerStep, InFlight
  <2>3. CASE SameEvent
    <3>1. /\ worker'.pc # "idle" /\ worker.pc # "idle"
          /\ worker'.event = worker.event /\ worker'.seq = worker.seq
      BY <2>1, <2>3 DEF RunnerStep, SameEvent
    <3>2. worker.event.src = "runner" /\ worker.event.seq = worker.seq /\ worker.seq \in Nat
      BY <3>1 DEF RunnerInv, TypeOK, Worker
    <3>3. ASSUME NEW e \in InFlight' \cup events'
          PROVE  /\ e.src = "runner" => e.seq <= worker'.seq
                 /\ e.src = "dispatcher" => e.type = "run.failed"
                 /\ e.type = "approval.required" => worker'.event.type \in Late
      <4>1. CASE e \in known
        BY <3>1, <4>1 DEF RunnerInv, Late
      <4>2. CASE e = worker.event
        BY <3>1, <3>2, <4>2 DEF Late
      <4>. QED
        BY <2>2, <3>1, <4>1, <4>2
    <3>4. InFlight' \cup events' \cup {worker'.event} \subseteq known \cup {worker.event}
      BY <2>2, <3>1
    <3>. QED
      BY <3>1, <3>2, <3>3, <3>4 DEF RunnerInv, Late
  <2>4. CASE NewEvent
    <3>1. /\ worker'.pc # "idle" /\ worker'.event.src = "runner"
          /\ worker'.event.seq = worker'.seq /\ worker'.seq = worker.seq + 1
          /\ worker.seq \in Nat
      BY <2>1, <2>4 DEF RunnerStep, NewEvent, TypeOK, Worker
    <3>2. ASSUME NEW e \in known
          PROVE  /\ e.src = "runner" => e.seq <= worker.seq /\ e.seq \in Nat
                 /\ e.src = "dispatcher" => e.type = "run.failed"
                 /\ e.type = "approval.required" => worker.event.type \in Late
      BY DEF RunnerInv, Late, InFlight, TypeOK, Call, Event
    <3>3. ASSUME NEW e \in InFlight' \cup events'
          PROVE  /\ e.src = "runner" => e.seq <= worker'.seq
                 /\ e.src = "dispatcher" => e.type = "run.failed"
                 /\ e.type = "approval.required" => worker'.event.type \in Late
      <4>1. CASE e \in known
        BY <2>4, <3>1, <3>2, <4>1 DEF NewEvent, Late
      <4>2. CASE e = worker'.event
        BY <3>1, <4>2 DEF Late
      <4>. QED
        BY <2>2, <4>1, <4>2
    <3>4. ASSUME NEW e \in known, e.type = "approval.required"
          PROVE  worker'.event.type # "approval.required"
      BY <2>4, <3>2, <3>4 DEF NewEvent, Late
    <3>5. ASSUME NEW e \in InFlight' \cup events' \cup {worker'.event},
                 NEW f \in InFlight' \cup events' \cup {worker'.event},
                 e.type = "approval.required", f.type = "approval.required"
          PROVE  e.seq = f.seq
      BY <2>2, <3>4, <3>5 DEF RunnerInv
    <3>. QED
      BY <3>1, <3>3, <3>5 DEF RunnerInv, Late
  <2>. QED
    BY <2>1, <2>3, <2>4 DEF RunnerStep
<1>2. CASE NetworkStep
  <2>1. InFlight' \cup events' \subseteq InFlight \cup events \cup {DispatchFailure}
    BY <1>2 DEF NetworkStep, InFlight, database
  <2>. QED
    BY <1>2, <2>1, RunnerInvStable DEF NetworkStep
<1>3. ASSUME NEW c \in calls, RecordCommit(c)
      PROVE  RunnerInv'
  <2>1. InFlight' \cup events' \subseteq InFlight \cup events \cup {DispatchFailure}
    BY <1>3, RecordEffect DEF InFlight
  <2>. QED
    BY <1>3, <2>1, RecordEffect, RunnerInvStable
<1>4. CASE DecideStep \/ \E m \in Managers : DecideCommit(m)
  <2>1. UNCHANGED <<worker, calls, events>>
    BY <1>4 DEF DecideStep, DecideCommit, database
  <2>. QED
    BY <2>1, RunnerInvStable DEF InFlight
<1>. QED
  BY <1>1, <1>2, <1>3, <1>4, StepKinds

-----------------------------------------------------------------------------
(* The database part of the invariant.                                     *)

DatabaseInv ==
  /\ LogIsContiguous /\ DecisionInv /\ AwaitingCanBeDecided
  /\ OneConsistentDecision /\ TicketWasProposed

(* A step that leaves the tables and the open decisions alone.             *)
LEMMA DatabaseStable ==
  ASSUME DatabaseInv, UNCHANGED <<database, decisions>>
  PROVE  DatabaseInv'
  BY DEF DatabaseInv, database, LogIsContiguous, DecisionInv, AwaitingCanBeDecided,
         OneConsistentDecision, TicketWasProposed, Recorded, Decided, Awaiting

(* Opening or ending a decide call keeps it: a call is only opened on a    *)
(* row that awaits a decision.                                             *)
LEMMA DecideStepKept ==
  ASSUME TypeOK, DatabaseInv, DecideStep
  PROVE  DatabaseInv'
<1>1. UNCHANGED <<run, events, tasks, approvals, tickets>>
  BY DEF DecideStep, database
<1>2. ASSUME NEW m \in Managers, decisions'[m].pc = "open"
      PROVE  Awaiting(decisions'[m].snap)
  <2>1. CASE decisions'[m] = decisions[m]
    BY <1>2, <2>1 DEF DatabaseInv, DecisionInv
  <2>2. CASE decisions'[m] # decisions[m]
    BY <1>2, <2>2 DEF DecideStep, Undecided, TypeOK
  <2>. QED
    BY <2>1, <2>2
<1>3. DecisionInv'
  BY <1>1, <1>2 DEF DatabaseInv, DecisionInv, Recorded
<1>. QED
  BY <1>1, <1>3 DEF DatabaseInv, LogIsContiguous, AwaitingCanBeDecided,
         OneConsistentDecision, TicketWasProposed, Recorded, Decided

(* The committed event is new: nothing in the log has its number, its key  *)
(* or, if it asks for a decision, its type.                                *)
LEMMA RecordIsNew ==
  ASSUME TypeOK, CallsInv, RunnerInv, DatabaseInv, NEW c \in calls, RecordCommit(c)
  PROVE  /\ \A f \in events : f.seq \in 1..run.last /\ Key(f) # Key(c.event)
         /\ c.event.type = "approval.required" =>
              ~Recorded("approval.required") /\ run.approvalState = "NONE"
<1>. DEFINE e == c.event
<1>1. e \in Event /\ e \in InFlight /\ e.seq = run.last + 1 /\ run.last \in Nat
  BY RecordEffect DEF TypeOK, Row
<1>2. ASSUME NEW f \in events
      PROVE  f \in Event /\ f.seq \in 1..run.last /\ f.seq # e.seq
  BY <1>1 DEF DatabaseInv, LogIsContiguous, TypeOK, Event
<1>3. e.src = "dispatcher" => e.seq = 1
  BY DEF CallsInv, DispatchFailure
<1>4. ASSUME NEW f \in events
      PROVE  Key(f) # Key(e)
  <2>1. f.src \in {"runner", "dispatcher"} /\ e.src \in {"runner", "dispatcher"}
    BY <1>1, <1>2 DEF Event
  <2>2. e.src # "dispatcher"
    BY <1>1, <1>2, <1>3
  <2>3. Key(e) = <<e.src, e.seq, e.type>>
    BY <2>2 DEF Key
  <2>4. CASE f.src = "dispatcher"
    BY <2>2, <2>3, <2>4 DEF Key
  <2>5. CASE f.src = "runner"
    BY <1>2, <2>3, <2>5 DEF Key
  <2>. QED
    BY <2>1, <2>4, <2>5
<1>5. ASSUME e.type = "approval.required"
      PROVE  ~Recorded("approval.required")
  BY <1>1, <1>2, <1>5 DEF Recorded, RunnerInv
<1>6. ASSUME e.type = "approval.required"
      PROVE  run.approvalState = "NONE"
  BY <1>5, <1>6 DEF DatabaseInv, DecisionInv
<1>. QED
  BY <1>2, <1>4, <1>5, <1>6

(* Recording an event keeps the log contiguous and the decision as it is.  *)
LEMMA RecordKept ==
  ASSUME TypeOK, CallsInv, RunnerInv, DatabaseInv, NEW c \in calls, RecordCommit(c)
  PROVE  DatabaseInv'
<1>. DEFINE e == c.event
<1>1. /\ e \in Event /\ e.seq = run.last + 1 /\ run.last \in Nat
      /\ run'.last = e.seq /\ run'.version = run.version
      /\ run'.approvalState = ApprovalStateAfter(e, run.approvalState)
      /\ run'.status = StatusAfter(e, run.status, run.approvalState)
      /\ run'.decision = DecisionAfter(e, run.decision)
      /\ events' = events \cup {e}
      /\ UNCHANGED <<approvals, tickets, decisions>>
  BY RecordEffect DEF TypeOK, Row
<1>2. /\ \A f \in events : f.seq \in 1..run.last /\ Key(f) # Key(e)
      /\ e.type = "approval.required" => run.approvalState = "NONE"
  BY RecordIsNew
<1>3. LogIsContiguous'
  <2>1. \A f \in events' : f.seq \in 1..run'.last
    BY <1>1, <1>2
  <2>2. ASSUME NEW n \in 1..run'.last
        PROVE  \E f \in events' : f.seq = n
    BY <1>1 DEF DatabaseInv, LogIsContiguous
  <2>3. ASSUME NEW f \in events', NEW g \in events', f.seq = g.seq \/ Key(f) = Key(g)
        PROVE  f = g
    <3>1. CASE f \in events /\ g \in events
      BY <2>3, <3>1 DEF DatabaseInv, LogIsContiguous
    <3>2. CASE f = e /\ g = e
      BY <3>2
    <3>3. CASE (f \in events /\ g = e) \/ (f = e /\ g \in events)
      BY <1>1, <1>2, <2>3, <3>3
    <3>. QED
      BY <1>1, <3>1, <3>2, <3>3
  <2>. QED
    BY <2>1, <2>2, <2>3 DEF LogIsContiguous, Key
<1>4. run.approvalState \in ApprovalState
  BY DEF TypeOK, Row
<1>5. (Decided' <=> Decided) /\ (Decided => run'.approvalState = run.approvalState)
  BY <1>1, <1>2 DEF Decided, ApprovalStateAfter
<1>6. DecisionInv'
  BY <1>1 DEF DatabaseInv, DecisionInv, Recorded, ApprovalStateAfter, DecisionAfter
<1>7. AwaitingCanBeDecided'
  BY <1>1 DEF DatabaseInv, AwaitingCanBeDecided, StatusAfter, ApprovalStateAfter
<1>8. OneConsistentDecision'
  BY <1>1, <1>5 DEF DatabaseInv, OneConsistentDecision
<1>9. TicketWasProposed'
  BY <1>1 DEF DatabaseInv, TicketWasProposed, Recorded
<1>. QED
  BY <1>3, <1>6, <1>7, <1>8, <1>9 DEF DatabaseInv

(* A committed decision is the first one, and a ticket it creates was      *)
(* proposed and asked for.                                                 *)
LEMMA DecideCommitKept ==
  ASSUME TypeOK, DatabaseInv, NEW m \in Managers, DecideCommit(m)
  PROVE  DatabaseInv'
<1>. DEFINE v == decisions[m].verdict
            a == [actor |-> m, decision |-> v, runVersion |-> 1]
<1>1. decisions[m].snap = run /\ run.approvalState = "PENDING"
  BY DEF DecideCommit, MayCommit, RowUnchanged, DatabaseInv, DecisionInv, Awaiting
<1>2. v \in Verdicts /\ run.version = 0 /\ approvals = {} /\ tickets = {}
  BY <1>1 DEF TypeOK, DatabaseInv, OneConsistentDecision, Decided
<1>3. /\ run'.approvalState = VerdictState(v) /\ run'.status = "COMPLETED"
      /\ run'.version = 1 /\ run'.last = run.last /\ run'.decision = run.decision
      /\ events' = events
  BY <1>2 DEF DecideCommit, TypeOK, Row
<1>4. /\ approvals' = {a}
      /\ tickets' = IF v = "APPROVE" THEN {a} ELSE {}
  BY <1>2 DEF DecideCommit
<1>5. LogIsContiguous'
  BY <1>3 DEF DatabaseInv, LogIsContiguous, Key
<1>6. DecisionInv'
  <2>1. \A n \in Managers : decisions'[n].pc = "open" => decisions'[n] = decisions[n]
    BY DEF DecideCommit, TypeOK, Undecided
  <2>2. Recorded("approval.required")' /\ (run'.decision = "proposed" =>
           \E e \in events' : e.type = "synthesis.completed" /\ e.ok)
    BY <1>1, <1>3 DEF DatabaseInv, DecisionInv, Recorded
  <2>. QED
    BY <2>1, <2>2 DEF DatabaseInv, DecisionInv, Awaiting
<1>7. AwaitingCanBeDecided'
  BY <1>3 DEF AwaitingCanBeDecided
<1>8. OneConsistentDecision'
  <2>1. Decided'
    BY <1>3 DEF Decided, VerdictState
  <2>2. \E n \in Managers, w \in Verdicts :
          LET b == [actor |-> n, decision |-> w, runVersion |-> 1]
          IN  /\ approvals' = {b}
              /\ tickets' = IF w = "APPROVE" THEN {b} ELSE {}
              /\ run'.approvalState = VerdictState(w)
    BY <1>2, <1>3, <1>4
  <2>. QED
    BY <1>3, <2>1, <2>2 DEF OneConsistentDecision, VerdictState
<1>9. TicketWasProposed'
  <2>1. v = "APPROVE" => run.decision = "proposed"
    BY <1>1 DEF DecideCommit, MayCommit, HasProposal
  <2>. QED
    BY <1>1, <1>3, <1>4, <2>1 DEF DatabaseInv, DecisionInv, TicketWasProposed, Recorded
<1>. QED
  BY <1>5, <1>6, <1>7, <1>8, <1>9 DEF DatabaseInv

-----------------------------------------------------------------------------
(* The theorems.                                                           *)

(* The invariant holds initially.                                          *)
LEMMA InitInv == Init => Inv
<1>. SUFFICES ASSUME Init PROVE Inv
  OBVIOUS
<1>1. PICK mode \in Modes : /\ run = NewRow(mode)
                            /\ decisions = [m \in Managers |-> Undecided(mode)]
  BY DEF Init
<1>2. mode \in {"SINGLE", "MULTI"} /\ NewRow(mode) \in Row
  BY RowTypes, ModesAssumption
<1>3. NoEvent \in Event
  BY DEF NoEvent, Event, EventTypes
<1>4. Idle \in Worker
  BY <1>3 DEF Idle, Worker
<1>5. /\ run.version = 0 /\ run.last = 0 /\ run.approvalState = "NONE"
      /\ run.status = "PENDING" /\ run.decision = "none"
  BY <1>1 DEF NewRow
<1>6. TypeOK
  <2>1. decisions \in [Managers -> [pc: {"idle", "open", "accepted", "refused"},
                                    verdict: Verdicts, snap: Row]]
    BY <1>1, <1>2 DEF Undecided, Verdicts
  <2>. QED
    BY <1>1, <1>2, <1>4, <2>1, FaultsAssumption DEF Init, TypeOK
<1>7. CallsInv
  BY DEF Init, CallsInv
<1>8. RunnerInv
  BY DEF Init, RunnerInv, InFlight, Idle, NoEvent
<1>9. LogIsContiguous
  BY <1>5 DEF Init, LogIsContiguous
<1>10. DecisionInv
  BY <1>1, <1>5 DEF Init, DecisionInv, Undecided
<1>11. AwaitingCanBeDecided /\ OneConsistentDecision /\ TicketWasProposed
  BY <1>5 DEF Init, AwaitingCanBeDecided, OneConsistentDecision, Decided, TicketWasProposed
<1>. QED
  BY <1>6, <1>7, <1>8, <1>9, <1>10, <1>11 DEF Inv

(* Every step keeps the invariant.                                         *)
LEMMA NextInv == Inv /\ [Next]_vars => Inv'
<1>. SUFFICES ASSUME Inv, [Next]_vars PROVE Inv'
  OBVIOUS
<1>0. TypeOK /\ CallsInv /\ RunnerInv /\ DatabaseInv
  BY DEF Inv, DatabaseInv
<1>1. CASE UNCHANGED vars
  <2>1. DatabaseInv'
    BY <1>0, <1>1, DatabaseStable DEF vars, database
  <2>2. TypeOK' /\ CallsInv'
    BY <1>0, <1>1 DEF vars, TypeOK, CallsInv
  <2>3. RunnerInv'
    BY <1>0, <1>1, RunnerInvStable DEF vars, InFlight
  <2>. QED
    BY <2>1, <2>2, <2>3 DEF Inv, DatabaseInv
<1>2. CASE Next
  <2>1. TypeOK' /\ CallsInv' /\ RunnerInv'
    BY <1>0, <1>2, TypesKept, CallsKept, RunnerKept
  <2>2. DatabaseInv'
    <3>1. CASE AiStep
      BY <1>0, <3>1, AiStepIsRunnerStep, DatabaseStable
    <3>2. CASE NetworkStep
      BY <1>0, <3>2, DatabaseStable DEF NetworkStep
    <3>3. CASE \E c \in calls : RecordCommit(c)
      BY <1>0, <3>3, RecordKept
    <3>4. CASE DecideStep
      BY <1>0, <3>4, DecideStepKept
    <3>5. CASE \E m \in Managers : DecideCommit(m)
      BY <1>0, <3>5, DecideCommitKept
    <3>. QED
      BY <1>0, <1>2, <3>1, <3>2, <3>3, <3>4, <3>5, StepKinds
  <2>. QED
    BY <2>1, <2>2 DEF Inv, DatabaseInv
<1>. QED
  BY <1>1, <1>2

(* The inductive invariant holds in every reachable state.                 *)
THEOREM Invariance == Spec => []Inv
<1>. QED
  BY InitInv, NextInv, PTL DEF Spec

(* The rows, requests and program counters keep their types.               *)
THEOREM TypeCorrect == Spec => []TypeOK
<1>1. Inv => TypeOK
  BY DEF Inv
<1>. QED
  BY <1>1, Invariance, PTL

(* Whatever is lost, delayed, duplicated or retried, the log of a run has  *)
(* neither a hole nor a duplicate.                                         *)
THEOREM LogCorrect == Spec => []LogIsContiguous
<1>1. Inv => LogIsContiguous
  BY DEF Inv
<1>. QED
  BY <1>1, Invariance, PTL

(* A run shown as awaiting approval can be decided, although the callback  *)
(* run.completed and the decision race.                                    *)
THEOREM AwaitingCorrect == Spec => []AwaitingCanBeDecided
<1>1. Inv => AwaitingCanBeDecided
  BY DEF Inv
<1>. QED
  BY <1>1, Invariance, PTL

(* However many managers decide at once, one verdict takes effect, and the *)
(* approval, the ticket and the version of the row agree with it.          *)
THEOREM DecisionCorrect == Spec => []OneConsistentDecision
<1>1. Inv => OneConsistentDecision
  BY DEF Inv
<1>. QED
  BY <1>1, Invariance, PTL

(* Every ticket belongs to an action the synthesis proposed.               *)
THEOREM TicketCorrect == Spec => []TicketWasProposed
<1>1. Inv => TicketWasProposed
  BY DEF Inv
<1>. QED
  BY <1>1, Invariance, PTL

(* No step changes a decision once it has been made.                       *)
LEMMA DecidedStep ==
  ASSUME Inv, [Next]_vars, Decided
  PROVE  /\ run'.approvalState = run.approvalState
         /\ run'.version = run.version
         /\ UNCHANGED <<approvals, tickets>>
<1>0. TypeOK /\ CallsInv /\ RunnerInv /\ DatabaseInv
  BY DEF Inv, DatabaseInv
<1>1. CASE UNCHANGED database
  BY <1>1 DEF database
<1>2. ASSUME NEW c \in calls, RecordCommit(c)
      PROVE  /\ run'.approvalState = run.approvalState
             /\ run'.version = run.version
             /\ UNCHANGED <<approvals, tickets>>
  <2>1. c.event.type # "approval.required"
    BY <1>0, <1>2, RecordIsNew DEF Decided
  <2>. QED
    BY <1>0, <1>2, <2>1, RecordEffect DEF ApprovalStateAfter
<1>3. ASSUME NEW m \in Managers, DecideCommit(m)
      PROVE  FALSE
  BY <1>0, <1>3 DEF DecideCommit, MayCommit, RowUnchanged, DatabaseInv, DecisionInv,
                    Awaiting, Decided
<1>4. CASE Next
  <2>1. AiStep \/ NetworkStep \/ DecideStep => UNCHANGED database
    BY <1>0, AiStepIsRunnerStep DEF NetworkStep, DecideStep
  <2>. QED
    BY <1>0, <1>1, <1>2, <1>3, <1>4, <2>1, StepKinds
<1>. QED
  BY <1>1, <1>4 DEF vars, database

(* A decision is final: no callback, retry or decide call changes it.      *)
THEOREM DecisionFinal == Spec => DecisionIsFinal
<1>. DEFINE Final == Decided => /\ run'.approvalState = run.approvalState
                                /\ run'.version = run.version
                                /\ UNCHANGED <<approvals, tickets>>
<1>1. Inv /\ [Next]_vars => [Final]_vars
  BY DecidedStep
<1>. QED
  BY <1>1, Invariance, PTL DEF Spec, DecisionIsFinal

-----------------------------------------------------------------------------
(* RunLifecycle implements RunLedger.                                      *)

(* Every step records one event, gives the verdict, or changes nothing the *)
(* ledger knows of.                                                        *)
LEMMA LedgerStep == Inv /\ [Next]_vars => [Ledger!Next]_(Ledger!ledger)
<1>. SUFFICES ASSUME Inv, [Next]_vars PROVE [Ledger!Next]_(Ledger!ledger)
  OBVIOUS
<1>0. TypeOK /\ CallsInv /\ RunnerInv /\ DatabaseInv
  BY DEF Inv, DatabaseInv
<1>1. CASE UNCHANGED database
  BY <1>1 DEF database, Ledger!ledger
<1>2. ASSUME NEW c \in calls, RecordCommit(c)
      PROVE  Ledger!Next
  <2>. DEFINE e == c.event
  <2>1. /\ e \in Event /\ e.seq = run.last + 1 /\ run'.last = run.last + 1
        /\ run'.approvalState = ApprovalStateAfter(e, run.approvalState)
        /\ events' = events \cup {e} /\ tickets' = tickets
    BY <1>0, <1>2, RecordEffect
  <2>2. e.type = "approval.required" => run.approvalState = "NONE"
    BY <1>0, <1>2, RecordIsNew
  <2>3. {<<f.seq, f.type>> : f \in events'} =
          {<<f.seq, f.type>> : f \in events} \cup {<<run.last + 1, e.type>>}
    BY <2>1
  <2>4. Ledger!Record(e.type)
    BY <2>1, <2>2, <2>3 DEF Ledger!Record, ApprovalStateAfter
  <2>5. e.type \in EventTypes
    BY <2>1 DEF Event
  <2>. QED
    BY <2>4, <2>5 DEF Ledger!Next
<1>3. ASSUME NEW m \in Managers, DecideCommit(m)
      PROVE  Ledger!Next
  <2>. DEFINE v == decisions[m].verdict
  <2>1. run.approvalState = "PENDING"
    BY <1>0, <1>3 DEF DecideCommit, MayCommit, RowUnchanged, DatabaseInv, DecisionInv, Awaiting
  <2>2. tickets = {} /\ v \in Verdicts
    BY <1>0, <2>1 DEF DatabaseInv, OneConsistentDecision, Decided, TypeOK
  <2>3. /\ run'.approvalState = VerdictState(v) /\ run'.last = run.last /\ events' = events
    BY <1>0, <1>3 DEF DecideCommit, TypeOK, Row
  <2>4. (tickets' # {}) <=> (v = "APPROVE")
    BY <1>3, <2>2 DEF DecideCommit
  <2>5. (tickets' # {}) = (VerdictState(v) = "APPROVED")
    BY <2>4 DEF VerdictState
  <2>6. Ledger!Decide(VerdictState(v))
    BY <2>1, <2>3, <2>5 DEF Ledger!Decide
  <2>. QED
    BY <2>6 DEF Ledger!Next, VerdictState
<1>4. CASE Next
  <2>1. AiStep \/ NetworkStep \/ DecideStep => UNCHANGED database
    BY <1>0, AiStepIsRunnerStep DEF NetworkStep, DecideStep
  <2>. QED
    BY <1>0, <1>1, <1>2, <1>3, <1>4, <2>1, StepKinds
<1>. QED
  BY <1>1, <1>4 DEF vars, database

(* Callbacks, attempts, transactions and faults implement a ledger that    *)
(* only grows and whose verdict is given once.                             *)
THEOREM Refinement == Spec => ImplementsLedger
<1>1. Init => Ledger!Init
  BY DEF Init, Ledger!Init, NewRow
<1>. QED
  BY <1>1, LedgerStep, Invariance, PTL DEF Spec, ImplementsLedger, Ledger!Spec

=============================================================================
