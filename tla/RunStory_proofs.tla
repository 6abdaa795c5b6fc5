----------------------------- MODULE RunStory_proofs -----------------------------
(***************************************************************************)
(* What the log of a run, its tasks and the answers to its callbacks say:  *)
(* proofs about RunLifecycle that rest on the order in which the runner    *)
(* tells its events, whatever attempts are lost, late or repeated.         *)
(***************************************************************************)
EXTENDS RunLifecycle_proofs

-----------------------------------------------------------------------------
(* The places of the story.                                                *)

Shaped(type, lane) ==
  /\ type \in LaneEvents => lane \in LaneIndex /\ run.mode = "MULTI"
  /\ type \notin LaneEvents => lane = 0

LEMMA LanesAreNumbered ==
  /\ Len(Lanes) \in Nat
  /\ \A l \in LaneIndex : l \in Nat /\ 1 <= l /\ l <= Len(Lanes)
  BY LanesAssumption DEF LaneIndex

(* A place is a number.                                                    *)
LEMMA PlaceType ==
  ASSUME NEW type \in EventTypes, NEW lane \in {0} \cup LaneIndex
  PROVE  Place(type, lane) \in Int
  BY LanesAreNumbered DEF Place, EventTypes

(* What may follow an event: the first lane, the next one or the synthesis *)
(* after the last.                                                         *)
LEMMA FirstOrSynthesisShape ==
  ASSUME NEW i \in Nat \ {0}
  PROVE  LET s == FirstOrSynthesis(i)
         IN  \/ s = <<"agent.started", i>> /\ i \in LaneIndex /\ run.mode = "MULTI"
             \/ s = <<"synthesis.completed", 0>> /\ (run.mode = "MULTI" => i > Len(Lanes))
  BY LanesAreNumbered DEF FirstOrSynthesis, LaneIndex

LEMMA MilestoneShape ==
  ASSUME NEW m \in Milestones
  PROVE  /\ m = <<m[1], m[2]>>
         /\ \/ m[1] \in {"plan.created", "synthesis.completed", "approval.required"} /\ m[2] = 0
            \/ /\ m[1] \in {"agent.started", "agent.completed"}
               /\ m[2] \in LaneIndex /\ run.mode = "MULTI"
  BY DEF Milestones

(* The next event is of a proper shape, stands later, and no milestone     *)
(* stands between the two.                                                 *)
LEMMA NextPlace ==
  ASSUME NEW e \in Event, Shaped(e.type, e.lane), NEW s \in Successors(e)
  PROVE  /\ s = <<s[1], s[2]>> /\ Shaped(s[1], s[2])
         /\ s[1] \notin {"run.started", "run.failed"}
         /\ e.type = "run.started" <=> s[1] = "plan.created"
         /\ Place(e.type, e.lane) < Place(s[1], s[2])
         /\ \A m \in Milestones : Place(m[1], m[2]) < Place(s[1], s[2]) =>
              Place(m[1], m[2]) < Place(e.type, e.lane) \/ m = <<e.type, e.lane>>
<1>. USE LanesAreNumbered
<1>. DEFINE t == e.type
            l == e.lane
            Claim == /\ s = <<s[1], s[2]>> /\ Shaped(s[1], s[2])
                     /\ s[1] \notin {"run.started", "run.failed"}
                     /\ t = "run.started" <=> s[1] = "plan.created"
                     /\ Place(t, l) < Place(s[1], s[2])
                     /\ \A m \in Milestones : Place(m[1], m[2]) < Place(s[1], s[2]) =>
                          Place(m[1], m[2]) < Place(t, l) \/ m = <<t, l>>
<1>1. CASE t = "run.started"
  <2>1. s = <<"plan.created", 0>>
    BY <1>1 DEF Successors
  <2>. QED
    BY <1>1, <2>1, MilestoneShape DEF Place, Shaped, LaneEvents
<1>2. CASE t = "plan.created"
  <2>1. s = FirstOrSynthesis(1)
    BY <1>2 DEF Successors
  <2>. QED
    BY <1>2, <2>1, FirstOrSynthesisShape, MilestoneShape DEF Place, Shaped, LaneEvents
<1>3. CASE t \in {"agent.started", "tool.completed", "citation.added"}
  <2>1. l \in LaneIndex /\ run.mode = "MULTI"
    BY <1>3 DEF Shaped, LaneEvents
  <2>2. s = <<s[1], l>> /\ s[2] = l /\ s[1] \in {"tool.completed", "citation.added", "agent.completed"}
    BY <1>3 DEF Successors, Evidence
  <2>3. Place(t, l) < Place(s[1], l)
    BY <1>3, <2>1, <2>2 DEF Place, Successors, Evidence
  <2>4. ASSUME NEW m \in Milestones, Place(m[1], m[2]) < Place(s[1], l)
        PROVE  Place(m[1], m[2]) < Place(t, l) \/ m = <<t, l>>
    <3>. DEFINE k == m[2]
    <3>0. Place(t, l) \in Int /\ Place(s[1], l) \in Int
      BY <1>3, <2>1, <2>2, PlaceType DEF EventTypes
    <3>1. Place(s[1], l) <= 4 * l + 1
      BY <2>1, <2>2 DEF Place
    <3>2. Place(t, l) >= 4 * l - 2
      BY <1>3, <2>1 DEF Place
    <3>3. CASE m[1] \in {"plan.created", "synthesis.completed", "approval.required"}
      BY <2>1, <2>4, <3>0, <3>1, <3>2, <3>3 DEF Place
    <3>4. CASE m[1] = "agent.started" /\ k \in LaneIndex
      <4>1. Place(m[1], k) = 4 * k - 2
        BY <3>4 DEF Place
      <4>2. k < l => 4 * k - 2 < Place(t, l)
        BY <2>1, <3>0, <3>2, <3>4
      <4>3. k <= l
        BY <2>1, <2>4, <3>0, <3>1, <3>4, <4>1
      <4>4. k = l /\ t # "agent.started" => 4 * k - 2 < Place(t, l)
        BY <1>3, <2>1 DEF Place
      <4>5. t = "agent.started" /\ k = l => m = <<t, l>>
        BY <3>4, MilestoneShape
      <4>. QED
        BY <2>1, <3>4, <4>1, <4>2, <4>3, <4>4, <4>5
    <3>5. CASE m[1] = "agent.completed" /\ k \in LaneIndex
      <4>1. Place(m[1], k) = 4 * k + 1
        BY <3>5 DEF Place
      <4>. QED
        BY <2>1, <2>4, <3>0, <3>1, <3>2, <3>5, <4>1
    <3>. QED
      BY <3>3, <3>4, <3>5, MilestoneShape
  <2>5. s = <<s[1], s[2]>> /\ Shaped(s[1], s[2])
    BY <2>1, <2>2 DEF Shaped, LaneEvents
  <2>. QED
    <3>1. s[2] = l
      BY <2>2
    <3>2. s[1] \notin {"run.started", "run.failed", "plan.created"} /\ t # "run.started"
      BY <1>3, <2>2
    <3>3. \A m \in Milestones : Place(m[1], m[2]) < Place(s[1], s[2]) =>
            Place(m[1], m[2]) < Place(t, l) \/ m = <<t, l>>
      BY <2>4, <3>1
    <3>4. Place(t, l) < Place(s[1], s[2])
      BY <2>3, <3>1
    <3>. HIDE DEF t, l
    <3>. QED
      BY <2>5, <3>2, <3>3, <3>4 DEF t, l
<1>4. CASE t = "agent.completed"
  <2>1. l \in LaneIndex /\ run.mode = "MULTI"
    BY <1>4 DEF Shaped, LaneEvents
  <2>2. s = FirstOrSynthesis(l + 1)
    BY <1>4 DEF Successors
  <2>3. Place(t, l) = 4 * l + 1
    BY <1>4 DEF Place
  <2>4. ASSUME NEW m \in Milestones
        PROVE  \/ m[1] = "plan.created" /\ Place(m[1], m[2]) = 1
               \/ m[1] = "synthesis.completed" /\ Place(m[1], m[2]) = 4 * Len(Lanes) + 2
               \/ m[1] = "approval.required" /\ Place(m[1], m[2]) = 4 * Len(Lanes) + 3
               \/ m[1] = "agent.started" /\ m[2] \in LaneIndex /\ Place(m[1], m[2]) = 4 * m[2] - 2
               \/ m[1] = "agent.completed" /\ m[2] \in LaneIndex /\ Place(m[1], m[2]) = 4 * m[2] + 1
    BY MilestoneShape DEF Place
  <2>5. CASE s = <<"agent.started", l + 1>> /\ l + 1 \in LaneIndex
    <3>1. Place(s[1], s[2]) = 4 * l + 2
      BY <2>1, <2>5 DEF Place
    <3>2. ASSUME NEW m \in Milestones, Place(m[1], m[2]) < Place(s[1], s[2])
          PROVE  Place(m[1], m[2]) < Place(t, l) \/ m = <<t, l>>
      <4>1. Place(m[1], m[2]) <= 4 * l + 1 /\ (m[2] = l \/ Place(m[1], m[2]) # 4 * l + 1)
        <5>. DEFINE p == Place(m[1], m[2])
                    k == m[2]
        <5>1. p < 4 * l + 2
          BY <3>1, <3>2
        <5>2. \/ p \in {1, 4 * Len(Lanes) + 2, 4 * Len(Lanes) + 3}
              \/ k \in LaneIndex /\ p \in {4 * k - 2, 4 * k + 1}
          BY <2>4
        <5>. HIDE DEF p, k
        <5>3. p <= 4 * l + 1 /\ (k = l \/ p # 4 * l + 1)
          BY <2>1, <5>1, <5>2
        <5>. QED
          BY <5>3 DEF p, k
      <4>2. m[1] = "agent.completed" /\ m[2] = l => m = <<t, l>>
        BY <1>4, MilestoneShape
      <4>. QED
        BY <2>1, <2>3, <2>4, <4>1, <4>2
    <3>. QED
      BY <1>4, <2>1, <2>3, <2>5, <3>1, <3>2 DEF Shaped, LaneEvents
  <2>6. CASE s = <<"synthesis.completed", 0>> /\ l + 1 > Len(Lanes)
    <3>1. l = Len(Lanes) /\ Place(s[1], s[2]) = 4 * l + 2
      BY <2>1, <2>6 DEF Place
    <3>2. ASSUME NEW m \in Milestones, Place(m[1], m[2]) < Place(s[1], s[2])
          PROVE  Place(m[1], m[2]) < Place(t, l) \/ m = <<t, l>>
      <4>1. Place(m[1], m[2]) <= 4 * l + 1 /\ (m[2] = l \/ Place(m[1], m[2]) # 4 * l + 1)
        BY <2>1, <2>4, <3>1, <3>2
      <4>2. m[1] = "agent.completed" /\ m[2] = l => m = <<t, l>>
        BY <1>4, MilestoneShape
      <4>. QED
        BY <2>1, <2>3, <2>4, <3>1, <4>1, <4>2
    <3>. QED
      BY <1>4, <2>1, <2>3, <2>6, <3>1, <3>2 DEF Shaped, LaneEvents
  <2>. QED
    BY <2>1, <2>2, <2>5, <2>6, FirstOrSynthesisShape
<1>5. CASE t \in {"synthesis.completed", "approval.required"}
  <2>1. l = 0
    BY <1>5 DEF Shaped, LaneEvents
  <2>2. s = IF t = "synthesis.completed" THEN <<"approval.required", 0>> ELSE <<"run.completed", 0>>
    BY <1>5 DEF Successors
  <2>. QED
    BY <1>5, <2>1, <2>2, MilestoneShape DEF Place, Shaped, LaneEvents
<1>6. CASE t \in {"run.completed", "run.failed"}
  BY <1>6 DEF Successors
<1>. QED
  BY <1>1, <1>2, <1>3, <1>4, <1>5, <1>6 DEF Event, EventTypes

-----------------------------------------------------------------------------
(* The steps of the runner.                                                *)

(* What is reported by Emit.                                               *)
LEMMA Emitted ==
  ASSUME TypeOK, NEW type, NEW lane, NEW ok, Emit(type, lane, ok)
  PROVE  /\ worker'.event = [src |-> "runner", seq |-> worker.seq + 1, type |-> type,
                             lane |-> lane, ok |-> ok]
         /\ worker'.event.type = type /\ worker'.event.lane = lane
         /\ worker'.seq = worker.seq + 1
         /\ worker'.pc = "publishing"
         /\ calls' = (calls \ AnswersRead) \cup {Attempt(worker'.event, 1)}
<1>. DEFINE e == [src |-> "runner", seq |-> worker.seq + 1, type |-> type,
                  lane |-> lane, ok |-> ok]
            partial  == worker.partial \/ (type = "agent.completed" /\ ~ok)
            screened == worker.screened \/ (type = "agent.completed" /\ ok
                                            /\ Lanes[lane] = "COMPLIANCE")
<1>1. /\ worker' = [worker EXCEPT !.pc = "publishing", !.seq = @ + 1, !.attempt = 1,
                                  !.event = e, !.partial = partial, !.screened = screened]
      /\ calls' = (calls \ AnswersRead) \cup {Attempt(e, 1)}
  BY Zenon DEF Emit
<1>2. worker \in Worker
  BY DEF TypeOK
<1>. HIDE DEF e, partial, screened
<1>3. worker'.event = e /\ worker'.seq = worker.seq + 1 /\ worker'.pc = "publishing"
  BY <1>1, <1>2 DEF Worker
<1>. QED
  BY <1>1, <1>3 DEF e

(* A new event is the first one, follows the one before, or reports that   *)
(* publishing raised.                                                      *)
Tells ==
  \/ /\ worker.pc = "idle" /\ worker'.pc = "publishing"
     /\ worker'.event.type = "run.started" /\ worker'.event.lane = 0
  \/ /\ worker.pc = "published" /\ worker'.pc = "publishing"
     /\ <<worker'.event.type, worker'.event.lane>> \in Successors(worker.event)
  \/ /\ worker.pc # "idle"
     /\ worker.event.type # "run.failed"
     /\ worker'.event.type = "run.failed" /\ worker'.event.lane = 0

Reports == NewEvent /\ Tells

(* A raise keeps the event or reports the failure.                         *)
LEMMA RaiseTells ==
  ASSUME TypeOK, worker.pc # "idle", Raise
  PROVE  SameEvent \/ Tells
<1>1. CASE worker.event.type = "run.failed"
  BY <1>1 DEF Raise, SameEvent, TypeOK, Worker
<1>2. CASE worker.event.type # "run.failed"
  <2>1. Emit("run.failed", 0, FALSE)
    BY <1>2 DEF Raise
  <2>. QED
    BY <1>2, <2>1, Emitted DEF Tells
<1>. QED
  BY <1>1, <1>2

(* Every step of the AI service keeps the event or goes on with the story. *)
LEMMA AiTells ==
  ASSUME TypeOK, RunnerInv, AiStep
  PROVE  RunnerStep /\ (SameEvent \/ Reports)
<1>0. RunnerStep
  BY AiStepIsRunnerStep
<1>1. SameEvent \/ Tells
  <2>1. CASE EmitNext
    <3>1. PICK s \in Successors(worker.event) :
            \E ok \in PayloadChoices(s[1]) : Emit(s[1], s[2], ok)
      BY <2>1 DEF EmitNext
    <3>2. PICK ok \in PayloadChoices(s[1]) : Emit(s[1], s[2], ok)
      BY <3>1
    <3>3. s = <<s[1], s[2]>>
      BY DEF Successors, FirstOrSynthesis, Evidence
    <3>4. worker'.event.type = s[1] /\ worker'.event.lane = s[2] /\ worker'.pc = "publishing"
      BY <3>2, Emitted
    <3>. QED
      BY <2>1, <3>3, <3>4 DEF EmitNext, Tells
  <2>2. CASE WorkflowRaises
    BY <2>2, Emitted DEF WorkflowRaises, Tells
  <2>3. CASE PublishTimeout \/ \E c \in calls : Reject(c)
    <3>1. worker.pc # "idle" /\ (Raise \/ RetryOrRaise)
      BY <2>3 DEF PublishTimeout, Reject, Awaited
    <3>2. CASE RetryOrRaise /\ worker.attempt < MaxAttempts
      BY <3>1, <3>2 DEF RetryOrRaise, SameEvent, TypeOK, Worker
    <3>. QED
      BY <3>1, <3>2, RaiseTells DEF RetryOrRaise
  <2>4. CASE AiCrash
    BY <2>4 DEF AiCrash, SameEvent, TypeOK, Worker
  <2>5. CASE AcceptStart
    BY <2>5, Emitted DEF AcceptStart, Tells
  <2>6. ASSUME NEW c \in calls, Acknowledge(c)
        PROVE  SameEvent
    BY <2>6 DEF Acknowledge, Awaited, SameEvent, TypeOK, Worker
  <2>. QED
    BY <2>1, <2>2, <2>3, <2>4, <2>5, <2>6 DEF AiStep
<1>. QED
  BY <1>0, <1>1 DEF RunnerStep, Reports

-----------------------------------------------------------------------------
(* One story is told.                                                      *)

(* The shape of an event and what follows it depend on the mode only.      *)
LEMMA ShapeStable ==
  ASSUME run'.mode = run.mode
  PROVE  /\ \A e, f : Follows(e, f)' <=> Follows(e, f)
         /\ Milestones' = Milestones
<1>1. \A e : Successors(e)' = Successors(e)
  BY DEF Successors, FirstOrSynthesis
<1>. QED
  BY <1>1 DEF Follows, Milestones

(* No new event of the runner: the story stays one.                        *)
LEMMA StoryStable ==
  ASSUME StoryInv, run'.mode = run.mode, Told' \subseteq Told,
         \A e \in events' : e.src = "dispatcher" => e = DispatchFailure
  PROVE  StoryInv'
<1>1. \A e, f : Follows(e, f)' <=> Follows(e, f)
  BY ShapeStable
<1>2. ASSUME NEW e \in Told'
      PROVE  /\ e.seq = 1 <=> e.type = "run.started"
             /\ e.seq = 2 => e.type \in {"plan.created", "run.failed"}
             /\ e.type \in LaneEvents => e.lane \in LaneIndex /\ run'.mode = "MULTI"
             /\ e.type \notin LaneEvents => e.lane = 0
  BY DEF StoryInv
<1>3. ASSUME NEW e \in Told', NEW f \in Told'
      PROVE  /\ e.seq = f.seq => e = f
             /\ e.seq < f.seq => Place(e.type, e.lane) < Place(f.type, f.lane)
             /\ f.seq = e.seq + 1 => Follows(e, f)'
  BY <1>1 DEF StoryInv
<1>. QED
  BY <1>2, <1>3 DEF StoryInv

(* Whatever has been told has a type and a number the runner has reached.  *)
LEMMA ToldTyped ==
  ASSUME TypeOK, RunnerInv, StoryInv, NEW e \in Told
  PROVE  /\ e \in Event /\ Shaped(e.type, e.lane)
         /\ Place(e.type, e.lane) \in Int
         /\ worker.pc # "idle" => e.seq <= worker.seq
<1>1. e \in Event
  BY DEF Told, InFlight, TypeOK, Call, Worker
<1>2. Shaped(e.type, e.lane)
  BY DEF StoryInv, Shaped
<1>3. worker.pc # "idle" => e.seq <= worker.seq
  BY DEF Told, RunnerInv, TypeOK, Worker
<1>. QED
  BY <1>1, <1>2, <1>3, PlaceType DEF Event

(* An event that is reported stands after everything told before.          *)
LEMMA ReportsLater ==
  ASSUME TypeOK, RunnerInv, StoryInv, RunnerStep, Reports, worker.pc # "idle"
  PROVE  /\ Shaped(worker'.event.type, worker'.event.lane)
         /\ worker'.event \in Event
         /\ worker'.event.type # "run.started"
         /\ worker.event \in Told
         /\ worker.event.type = "run.started" =>
              worker'.event.type \in {"plan.created", "run.failed"}
         /\ Follows(worker.event, worker'.event)
         /\ \A e \in Told : Place(e.type, e.lane) <
                              Place(worker'.event.type, worker'.event.lane)
<1>. DEFINE e == worker.event
            f == worker'.event
<1>1. f \in Event /\ e \in Event /\ e \in Told /\ e.seq = worker.seq
  BY DEF RunnerStep, Worker, TypeOK, RunnerInv, Told
<1>2. Shaped(e.type, e.lane) /\ Place(e.type, e.lane) \in Int
  BY <1>1, ToldTyped
<1>3. e.type # "run.failed"
  BY DEF Reports, Tells, Successors
<1>4. /\ Shaped(f.type, f.lane) /\ f.type # "run.started"
      /\ e.type = "run.started" => f.type \in {"plan.created", "run.failed"}
      /\ Follows(e, f)
      /\ Place(e.type, e.lane) < Place(f.type, f.lane)
  <2>1. CASE <<f.type, f.lane>> \in Successors(e)
    BY <1>1, <1>2, <2>1, NextPlace DEF Follows
  <2>2. CASE f.type = "run.failed" /\ f.lane = 0
    <3>1. Place(f.type, f.lane) = 4 * Len(Lanes) + 5
      BY <2>2 DEF Place
    <3>2. Place(e.type, e.lane) < 4 * Len(Lanes) + 5
      BY <1>1, <1>2, <1>3, LanesAreNumbered DEF Place, Shaped, LaneEvents, Event, EventTypes
    <3>. QED
      BY <2>2, <3>1, <3>2 DEF Follows, Shaped, LaneEvents
  <2>. QED
    BY <2>1, <2>2 DEF Reports, Tells
<1>5. Place(f.type, f.lane) \in Int
  BY <1>1, PlaceType DEF Event
<1>6. ASSUME NEW g \in Told
      PROVE  Place(g.type, g.lane) < Place(f.type, f.lane)
  <2>1. g \in Event /\ g.seq <= worker.seq /\ Place(g.type, g.lane) \in Int
    BY ToldTyped
  <2>2. CASE g.seq = e.seq
    BY <1>1, <1>4, <2>2 DEF StoryInv
  <2>3. CASE g.seq < e.seq
    BY <1>1, <1>2, <1>4, <1>5, <2>1, <2>3 DEF StoryInv
  <2>4. g.seq \in Nat /\ e.seq \in Nat
    BY <1>1, <2>1 DEF Event
  <2>. QED
    BY <1>1, <2>1, <2>2, <2>3, <2>4
<1>. QED
  BY <1>1, <1>4, <1>6

(* The runner adds at most its new event to the story.                     *)
LEMMA StoryKeptByRunner ==
  ASSUME TypeOK, RunnerInv, StoryInv, AiStep
  PROVE  StoryInv'
<1>. DEFINE f == worker'.event
<1>1. RunnerStep /\ (SameEvent \/ Reports) /\ UNCHANGED <<database, decisions>>
  BY AiTells, AiStepIsRunnerStep
<1>2. InFlight' \cup events' \subseteq InFlight \cup events \cup {f} /\ run'.mode = run.mode
  BY <1>1 DEF RunnerStep, InFlight, database
<1>3. \A e \in events' : e.src = "dispatcher" => e = DispatchFailure
  BY <1>1 DEF StoryInv, database
<1>4. CASE SameEvent
  <2>1. Told' \subseteq Told
    BY <1>2, <1>4 DEF Told, SameEvent
  <2>. QED
    BY <1>2, <1>3, <2>1, StoryStable
<1>5. CASE Reports /\ worker.pc = "idle"
  <2>1. /\ Told' = {f} /\ f.seq = 1 /\ f.type = "run.started" /\ f.lane = 0 /\ f \in Event
    BY <1>1, <1>2, <1>5 DEF Told, Reports, NewEvent, Tells, RunnerInv, RunnerStep, Worker
  <2>. QED
    BY <1>3, <2>1 DEF StoryInv, LaneEvents
<1>6. CASE Reports /\ worker.pc # "idle"
  <2>1. Told' \subseteq Told \cup {f} /\ f.seq = worker.seq + 1 /\ worker.seq \in Nat
    BY <1>2, <1>6 DEF Told, Reports, NewEvent, TypeOK, Worker
  <2>2. /\ Shaped(f.type, f.lane) /\ f.type # "run.started" /\ f \in Event
        /\ worker.event \in Told /\ Follows(worker.event, f)
        /\ worker.event.type = "run.started" => f.type \in {"plan.created", "run.failed"}
        /\ \A e \in Told : Place(e.type, e.lane) < Place(f.type, f.lane)
    BY <1>1, <1>6, ReportsLater
  <2>3. worker.event.seq = worker.seq /\ worker.seq >= 1
    BY <1>6, <2>2, ToldTyped DEF RunnerInv, Event
  <2>4. \A e \in Told : e.seq \in Nat /\ e.seq <= worker.seq
    BY <1>6, ToldTyped DEF Event
  <2>5. ASSUME NEW e \in Told'
        PROVE  /\ e.seq = 1 <=> e.type = "run.started"
               /\ e.seq = 2 => e.type \in {"plan.created", "run.failed"}
               /\ e.type \in LaneEvents => e.lane \in LaneIndex /\ run'.mode = "MULTI"
               /\ e.type \notin LaneEvents => e.lane = 0
    <3>1. CASE e \in Told
      BY <1>2, <3>1 DEF StoryInv
    <3>2. CASE e = f
      BY <1>2, <2>1, <2>2, <2>3, <3>2 DEF StoryInv, Shaped
    <3>. QED
      BY <2>1, <3>1, <3>2
  <2>6. ASSUME NEW e \in Told', NEW g \in Told'
        PROVE  /\ e.seq = g.seq => e = g
               /\ e.seq < g.seq => Place(e.type, e.lane) < Place(g.type, g.lane)
               /\ g.seq = e.seq + 1 => Follows(e, g)'
    <3>0. Follows(e, g)' <=> Follows(e, g)
      BY <1>2, ShapeStable
    <3>1. CASE e \in Told /\ g \in Told
      BY <3>0, <3>1 DEF StoryInv
    <3>2. CASE e \in Told /\ g = f
      <4>1. e.seq = worker.seq => e = worker.event
        BY <2>2, <2>3, <3>2 DEF StoryInv
      <4>. QED
        BY <2>1, <2>2, <2>4, <3>0, <3>2, <4>1
    <3>3. CASE e = f /\ g \in Told
      BY <2>1, <2>4, <3>3
    <3>4. CASE e = f /\ g = f
      BY <2>1, <3>4
    <3>. QED
      BY <2>1, <3>1, <3>2, <3>3, <3>4
  <2>. QED
    BY <1>3, <2>5, <2>6 DEF StoryInv
<1>. QED
  BY <1>1, <1>4, <1>5, <1>6

(* Every step keeps the story.                                             *)
LEMMA StoryKept ==
  ASSUME TypeOK, CallsInv, RunnerInv, StoryInv, Next
  PROVE  StoryInv'
<1>1. CASE AiStep
  BY <1>1, StoryKeptByRunner
<1>2. CASE NetworkStep
  <2>1. InFlight' \subseteq InFlight \cup {DispatchFailure} /\ UNCHANGED <<run, events, worker>>
    BY <1>2 DEF NetworkStep, InFlight, database
  <2>2. Told' \subseteq Told
    BY <2>1 DEF Told, DispatchFailure
  <2>. QED
    BY <2>1, <2>2, StoryStable DEF StoryInv
<1>3. ASSUME NEW c \in calls, RecordCommit(c)
      PROVE  StoryInv'
  <2>1. /\ InFlight' \subseteq InFlight /\ UNCHANGED worker /\ run'.mode = run.mode
        /\ events' = events \cup {c.event} /\ c.event \in InFlight
    BY <1>3, RecordEffect DEF InFlight
  <2>2. Told' \subseteq Told
    BY <2>1 DEF Told
  <2>3. \A e \in events' : e.src = "dispatcher" => e = DispatchFailure
    BY <2>1 DEF StoryInv, CallsInv
  <2>. QED
    BY <2>1, <2>2, <2>3, StoryStable
<1>4. CASE DecideStep \/ \E m \in Managers : DecideCommit(m)
  <2>1. UNCHANGED <<events, worker, calls>> /\ run'.mode = run.mode
    BY <1>4 DEF DecideStep, DecideCommit, database, TypeOK, Row
  <2>2. Told' \subseteq Told
    BY <2>1 DEF Told, InFlight
  <2>. QED
    BY <2>1, <2>2, StoryStable DEF StoryInv
<1>. QED
  BY <1>1, <1>2, <1>3, <1>4, StepKinds

-----------------------------------------------------------------------------
(* What is recorded is the story from its beginning.                       *)

(* The event recorded before the one that is committed.                    *)
LEMMA EventBefore ==
  ASSUME TypeOK, CallsInv, LogIsContiguous, StoryInv, NEW c \in calls, RecordCommit(c),
         c.event.type # "run.failed"
  PROVE  /\ c.event \in Told
         /\ \/ c.event.type \in {"run.started", "plan.created"}
            \/ \E p \in events : p \in Told /\ <<c.event.type, c.event.lane>> \in Successors(p)
<1>. DEFINE e == c.event
<1>1. e \in Event /\ e \in InFlight /\ e.seq = run.last + 1 /\ run.last \in Nat
  BY RecordEffect DEF TypeOK, Row
<1>2. e \in Told
  BY <1>1 DEF Told, CallsInv, DispatchFailure, Event
<1>3. CASE e.seq \in {1, 2}
  BY <1>2, <1>3 DEF StoryInv
<1>4. CASE e.seq \notin {1, 2}
  <2>1. e.seq - 1 \in 1..run.last
    BY <1>1, <1>4 DEF Event
  <2>2. PICK p \in events : p.seq = e.seq - 1
    BY <2>1 DEF LogIsContiguous
  <2>3. p \in Event /\ p.src # "dispatcher"
    BY <1>1, <1>4, <2>2 DEF StoryInv, DispatchFailure, TypeOK, Event
  <2>4. p \in Told /\ e.seq = p.seq + 1
    BY <1>1, <2>2, <2>3 DEF Told, Event
  <2>. QED
    BY <1>2, <2>4 DEF StoryInv, Follows
<1>. QED
  BY <1>2, <1>3, <1>4

(* Recording an event leaves no milestone behind.                          *)
LEMMA WholeKept ==
  ASSUME TypeOK, CallsInv, RunnerInv, LogIsContiguous, StoryInv, WholeInv,
         NEW c \in calls, RecordCommit(c)
  PROVE  WholeInv'
<1>. DEFINE e == c.event
<1>1. events' = events \cup {e} /\ Milestones' = Milestones
  BY RecordEffect, ShapeStable
<1>2. ASSUME NEW m \in Milestones, e.type # "run.failed",
             Place(m[1], m[2]) < Place(e.type, e.lane)
      PROVE  \E f \in events : f.type = m[1] /\ f.lane = m[2]
  <2>1. e \in Told /\ Shaped(e.type, e.lane)
    BY <1>2, EventBefore, ToldTyped
  <2>2. CASE e.type \in {"run.started", "plan.created"}
    BY <1>2, <2>1, <2>2, MilestoneShape, LanesAreNumbered DEF Place, Shaped, LaneEvents
  <2>3. ASSUME NEW p \in events, p \in Told, <<e.type, e.lane>> \in Successors(p)
        PROVE  \E f \in events : f.type = m[1] /\ f.lane = m[2]
    <3>1. p \in Event /\ Shaped(p.type, p.lane) /\ p.type # "run.failed"
      BY <2>3, ToldTyped DEF Successors
    <3>2. Place(m[1], m[2]) < Place(p.type, p.lane) \/ m = <<p.type, p.lane>>
      BY <1>2, <2>3, <3>1, NextPlace
    <3>. QED
      BY <3>1, <3>2 DEF WholeInv
  <2>. QED
    BY <1>2, <2>2, <2>3, EventBefore
<1>3. ASSUME NEW e1 \in events', NEW m \in Milestones', e1.type # "run.failed",
             Place(m[1], m[2]) < Place(e1.type, e1.lane)
      PROVE  \E f \in events' : f.type = m[1] /\ f.lane = m[2]
  BY <1>1, <1>2, <1>3 DEF WholeInv
<1>. QED
  BY <1>3 DEF WholeInv

(* Among the events that are told, an earlier place has an earlier number. *)
LEMMA PlacesAreOrdered ==
  ASSUME TypeOK, RunnerInv, StoryInv, NEW e \in Told, NEW f \in Told,
         Place(e.type, e.lane) < Place(f.type, f.lane)
  PROVE  e.seq < f.seq
<1>1. /\ Place(e.type, e.lane) \in Int /\ Place(f.type, f.lane) \in Int
      /\ e.seq \in Nat /\ f.seq \in Nat
  BY ToldTyped DEF Event
<1>2. e.seq # f.seq
  BY <1>1 DEF StoryInv
<1>3. ~(f.seq < e.seq)
  BY <1>1 DEF StoryInv
<1>. QED
  BY <1>1, <1>2, <1>3

(* A recorded event that does not report a failure is one the runner told. *)
LEMMA RecordedIsTold ==
  ASSUME StoryInv, TypeOK, NEW e \in events, e.type # "run.failed"
  PROVE  e \in Told
  BY DEF StoryInv, DispatchFailure, Told, TypeOK, Event

(* A log that holds the end holds the whole story, in order.               *)
LEMMA WholeStory ==
  ASSUME TypeOK, RunnerInv, StoryInv, WholeInv
  PROVE  CompletedRunIsWhole
<1>. USE LanesAreNumbered
<1>1. ASSUME NEW end \in events, end.type = "run.completed"
      PROVE  \E plan, synthesis, request \in events :
         /\ plan.type = "plan.created" /\ synthesis.type = "synthesis.completed"
         /\ request.type = "approval.required"
         /\ Precedes(synthesis, request) /\ Precedes(request, end)
         /\ run.mode = "MULTI" => \A l \in LaneIndex : \E start, result \in events :
              /\ start.type = "agent.started" /\ start.lane = l
              /\ result.type = "agent.completed" /\ result.lane = l
              /\ Precedes(plan, start) /\ Precedes(start, result) /\ Precedes(result, synthesis)
  <2>1. end \in Told /\ Place(end.type, end.lane) = 4 * Len(Lanes) + 4
    BY <1>1, RecordedIsTold DEF Place
  <2>2. ASSUME NEW type \in EventTypes, NEW lane \in {0} \cup LaneIndex,
               <<type, lane>> \in Milestones, Place(type, lane) < 4 * Len(Lanes) + 4
        PROVE  \E f \in events : f.type = type /\ f.lane = lane
    <3>. DEFINE m == <<type, lane>>
    <3>1. m \in Milestones /\ m[1] = type /\ m[2] = lane
      BY <2>2
    <3>. HIDE DEF m
    <3>. QED
      BY <1>1, <2>1, <2>2, <3>1 DEF WholeInv
  <2>3. PICK plan \in events : plan.type = "plan.created" /\ plan.lane = 0
    <3>1. /\ <<"plan.created", 0>> \in Milestones
          /\ Place("plan.created", 0) < 4 * Len(Lanes) + 4
          /\ "plan.created" \in EventTypes
      BY DEF EventTypes, Milestones, Place
    <3>. QED
      BY <2>2, <3>1
  <2>4. PICK synthesis \in events : synthesis.type = "synthesis.completed" /\ synthesis.lane = 0
    <3>1. /\ <<"synthesis.completed", 0>> \in Milestones
          /\ Place("synthesis.completed", 0) < 4 * Len(Lanes) + 4
          /\ "synthesis.completed" \in EventTypes
      BY DEF EventTypes, Milestones, Place
    <3>. QED
      BY <2>2, <3>1
  <2>5. PICK request \in events : request.type = "approval.required" /\ request.lane = 0
    <3>1. /\ <<"approval.required", 0>> \in Milestones
          /\ Place("approval.required", 0) < 4 * Len(Lanes) + 4
          /\ "approval.required" \in EventTypes
      BY DEF EventTypes, Milestones, Place
    <3>. QED
      BY <2>2, <3>1
  <2>6. /\ plan \in Told /\ synthesis \in Told /\ request \in Told
        /\ Place(plan.type, plan.lane) = 1
        /\ Place(synthesis.type, synthesis.lane) = 4 * Len(Lanes) + 2
        /\ Place(request.type, request.lane) = 4 * Len(Lanes) + 3
    BY <2>3, <2>4, <2>5, RecordedIsTold DEF Place
  <2>7. Precedes(synthesis, request) /\ Precedes(request, end)
    BY <2>1, <2>6, PlacesAreOrdered DEF Precedes
  <2>8. ASSUME NEW l \in LaneIndex, run.mode = "MULTI"
        PROVE  \E start, result \in events :
              /\ start.type = "agent.started" /\ start.lane = l
              /\ result.type = "agent.completed" /\ result.lane = l
              /\ Precedes(plan, start) /\ Precedes(start, result) /\ Precedes(result, synthesis)
    <3>1. <<"agent.started", l>> \in Milestones /\ <<"agent.completed", l>> \in Milestones
      BY <2>8 DEF Milestones
    <3>2. Place("agent.started", l) = 4 * l - 2 /\ Place("agent.completed", l) = 4 * l + 1
      BY DEF Place
    <3>3. PICK start \in events : start.type = "agent.started" /\ start.lane = l
      BY <2>2, <3>1, <3>2 DEF EventTypes
    <3>4. PICK result \in events : result.type = "agent.completed" /\ result.lane = l
      BY <2>2, <3>1, <3>2 DEF EventTypes
    <3>5. start \in Told /\ result \in Told
      BY <3>3, <3>4, RecordedIsTold
    <3>6. Precedes(plan, start) /\ Precedes(start, result) /\ Precedes(result, synthesis)
      BY <2>6, <3>2, <3>3, <3>4, <3>5, PlacesAreOrdered DEF Precedes
    <3>. QED
      BY <3>3, <3>4, <3>6
  <2>. QED
    BY <2>3, <2>4, <2>5, <2>7, <2>8
<1>2. ASSUME NEW e \in events, e.seq = 1
      PROVE  e.type = "run.started" \/ e = DispatchFailure
  BY <1>2 DEF StoryInv, Told, TypeOK, Event
<1>. QED
  BY <1>1, <1>2 DEF CompletedRunIsWhole

-----------------------------------------------------------------------------
(* The tasks.                                                              *)

(* What is in the log stands before the event that is committed, failures  *)
(* apart.                                                                  *)
LEMMA RecordedBefore ==
  ASSUME TypeOK, CallsInv, RunnerInv, LogIsContiguous, StoryInv,
         NEW c \in calls, RecordCommit(c), NEW f \in events, f.type # "run.failed"
  PROVE  /\ f \in Event /\ Shaped(f.type, f.lane)
         /\ c.event \in Event /\ Shaped(c.event.type, c.event.lane)
         /\ Place(f.type, f.lane) < Place(c.event.type, c.event.lane)
<1>. DEFINE e == c.event
<1>1. /\ e \in Event /\ e \in InFlight /\ e.seq = run.last + 1 /\ run.last \in Nat
      /\ f.seq \in 1..run.last
  BY RecordEffect DEF TypeOK, Row, LogIsContiguous
<1>2. e.src # "dispatcher"
  BY <1>1 DEF CallsInv, DispatchFailure
<1>3. e \in Told /\ f \in Told
  BY <1>1, <1>2, RecordedIsTold DEF Told, Event
<1>. QED
  BY <1>1, <1>3, ToldTyped DEF StoryInv

(* Recording an event moves the tasks to what the longer log says.         *)
LEMMA TasksKept ==
  ASSUME TypeOK, CallsInv, RunnerInv, LogIsContiguous, StoryInv, WholeInv, TasksMatchLog,
         NEW c \in calls, RecordCommit(c)
  PROVE  TasksMatchLog'
<1>. USE LanesAreNumbered
<1>. DEFINE e == c.event
            Started(l)   == \E f \in events : f.type = "agent.started" /\ f.lane = l
            Completed(l) == \E f \in events : f.type = "agent.completed" /\ f.lane = l
            Succeeded(l) == \E f \in events : f.type = "agent.completed" /\ f.lane = l /\ f.ok
            Says(l) == IF ~Recorded("plan.created") \/ run.mode = "SINGLE" THEN "absent"
                       ELSE IF Completed(l) THEN IF Succeeded(l) THEN "COMPLETED" ELSE "FAILED"
                       ELSE IF Started(l) THEN "RUNNING" ELSE "PENDING"
<1>1. /\ events' = events \cup {e} /\ run'.mode = run.mode /\ run.mode \in {"SINGLE", "MULTI"}
      /\ e \in Event
  BY RecordEffect DEF TypeOK, Row
<1>2. tasks' = [l \in LaneIndex |-> TaskAfter(e, l, tasks[l])]
  BY DEF RecordCommit, ApplyEvent
<1>3. ASSUME NEW f \in events, f.type # "run.failed"
      PROVE  /\ Shaped(f.type, f.lane) /\ Shaped(e.type, e.lane)
             /\ Place(f.type, f.lane) < Place(e.type, e.lane)
  BY <1>3, RecordedBefore
<1>4. ASSUME NEW l \in LaneIndex
      PROVE  tasks'[l] = Says(l)'
  <2>1. tasks[l] = Says(l)
    BY DEF TasksMatchLog
  <2>2. tasks'[l] = TaskAfter(e, l, tasks[l])
    BY <1>2
  <2>3. CASE e.type = "plan.created"
    <3>1. ~Recorded("plan.created")
      BY <1>3, <2>3 DEF Recorded, Place
    <3>2. ~Started(l) /\ ~Completed(l)
      BY <1>3, <2>3 DEF Place
    <3>3. Recorded("plan.created")' /\ ~Started(l)' /\ ~Completed(l)'
      BY <1>1, <2>3, <3>2 DEF Recorded
    <3>. QED
      BY <1>1, <2>1, <2>2, <2>3, <3>1, <3>3 DEF TaskAfter
  <2>4. CASE e.type \in {"agent.started", "agent.completed"} /\ e.lane = l
    <3>1. e \in Told /\ Shaped(e.type, l)
      BY <2>4, EventBefore, ToldTyped
    <3>2. run.mode = "MULTI" /\ Recorded("plan.created")
      <4>1. PICK p \in events : p.type = "plan.created"
        <5>1. <<"plan.created", 0>> \in Milestones' /\ Place("plan.created", 0) = 1
          BY DEF Milestones, Place
        <5>2. Place(e.type, e.lane) > 1 /\ e \in events'
          BY <1>1, <2>4 DEF Place
        <5>3. \E f \in events' : f.type = <<"plan.created", 0>>[1] /\ f.lane = <<"plan.created", 0>>[2]
          BY <2>4, <5>1, <5>2, WholeKept DEF WholeInv
        <5>. QED
          BY <1>1, <2>4, <5>3
      <4>. QED
        BY <2>4, <3>1, <4>1 DEF Recorded, Shaped, LaneEvents
    <3>3. ~Completed(l)
      BY <1>3, <2>4 DEF Place
    <3>4. tasks[l] # "absent"
      BY <2>1, <3>2
    <3>5. Recorded("plan.created")' /\ run'.mode = "MULTI"
      BY <1>1, <3>2 DEF Recorded
    <3>6. CASE e.type = "agent.started"
      <4>1. ~Completed(l)' /\ Started(l)'
        BY <1>1, <2>4, <3>3, <3>6
      <4>. QED
        BY <2>2, <2>4, <3>4, <3>5, <3>6, <4>1 DEF TaskAfter
    <3>7. CASE e.type = "agent.completed"
      <4>1. Completed(l)' /\ (Succeeded(l)' <=> e.ok)
        BY <1>1, <2>4, <3>3, <3>7
      <4>2. tasks'[l] = IF e.ok THEN "COMPLETED" ELSE "FAILED"
        BY <2>2, <2>4, <3>4, <3>7 DEF TaskAfter
      <4>. QED
        BY <3>5, <4>1, <4>2
    <3>. QED
      BY <2>4, <3>6, <3>7
  <2>5. CASE /\ e.type # "plan.created"
             /\ ~(e.type \in {"agent.started", "agent.completed"} /\ e.lane = l)
    <3>1. tasks'[l] = tasks[l]
      BY <2>2, <2>5 DEF TaskAfter
    <3>2. /\ Recorded("plan.created")' <=> Recorded("plan.created")
          /\ Started(l)' <=> Started(l)
          /\ Completed(l)' <=> Completed(l)
          /\ Succeeded(l)' <=> Succeeded(l)
      BY <1>1, <2>5 DEF Recorded
    <3>. QED
      BY <1>1, <2>1, <3>1, <3>2
  <2>. QED
    BY <2>3, <2>4, <2>5
<1>. QED
  BY <1>4 DEF TasksMatchLog

-----------------------------------------------------------------------------
(* The answers.                                                            *)

(* While nothing has raised, a conflict on the event the runner waits for  *)
(* means that the event is recorded: all before it are, so the log ends    *)
(* with it or just before it.                                              *)
LEMMA ConflictMeansRecorded ==
  ASSUME TypeOK, CallsInv, RunnerInv, LogIsContiguous, StoryInv, DeliveredEventsAreRecorded,
         NothingRaised, NEW c \in calls, Awaited(c), c.event = worker.event,
         Duplicate(c.event) \/ ~NextInLine(c.event)
  PROVE  c.event \in events
<1>. DEFINE e == c.event
<1>1. e \in Event /\ e.type # "run.failed"
  BY DEF TypeOK, Call, NothingRaised
<1>2. e.src = "runner" /\ worker.pc = "publishing"
  BY <1>1 DEF Awaited, CallsInv, DispatchFailure, Event
<1>3. /\ e.seq = worker.seq /\ e.seq \in Nat \ {0} /\ run.last \in Nat
      /\ e \in Told
  BY <1>1, <1>2 DEF RunnerInv, Told, Event, TypeOK, Row
<1>4. ASSUME NEW f \in events
      PROVE  f \in Told /\ f.seq \in Nat /\ f.seq <= e.seq /\ f.src = "runner"
  <2>1. f \in Event /\ f.src = "runner"
    BY DEF StoryInv, NothingRaised, TypeOK, Event
  <2>. QED
    BY <1>3, <2>1 DEF Told, RunnerInv, Event
<1>5. run.last <= e.seq
  <2>1. CASE run.last \in 1..run.last
    BY <1>4, <2>1 DEF LogIsContiguous
  <2>. QED
    BY <1>3, <2>1
<1>6. run.last >= e.seq - 1
  <2>1. CASE e.seq - 1 \in 1..(worker.seq - 1)
    <3>1. PICK f \in events : f.seq = e.seq - 1
      BY <2>1 DEF DeliveredEventsAreRecorded, NothingRaised
    <3>. QED
      BY <1>3, <3>1 DEF LogIsContiguous
  <2>. QED
    BY <1>3, <2>1
<1>7. CASE run.last = e.seq
  <2>1. PICK f \in events : f.seq = e.seq
    BY <1>3, <1>7 DEF LogIsContiguous
  <2>. QED
    BY <1>3, <1>4, <2>1 DEF StoryInv
<1>8. CASE run.last = e.seq - 1
  <2>1. PICK f \in events : Key(f) = Key(e)
    BY <1>8 DEF Duplicate, NextInLine
  <2>2. f.seq = e.seq
    BY <1>2, <1>4, <2>1 DEF Key
  <2>. QED
    BY <1>3, <1>4, <2>2 DEF StoryInv
<1>. QED
  BY <1>3, <1>5, <1>6, <1>7, <1>8

(* What a step puts on the network that was not there: no answer at all,   *)
(* another one than these two, the truth about a recorded event, or a      *)
(* conflict somebody waits for.                                            *)
Truthful(d) ==
  \/ d \in calls
  \/ d.stage \notin {"created", "conflict"}
  \/ d.event \in events'
  \/ /\ d.stage = "conflict"
     /\ \E c \in calls : /\ c.event = d.event /\ Awaited(c)
                         /\ Duplicate(c.event) \/ ~NextInLine(c.event)

LEMMA AnswersAreTruthful ==
  ASSUME TypeOK, CallsInv, RunnerInv, Next, NEW d \in calls'
  PROVE  Truthful(d)
<1>1. ASSUME NEW c \in calls, NEW reply \in Replies, Answer(c, reply), d \notin calls
      PROVE  d.event = c.event /\ d.stage = reply /\ Awaited(c)
  BY <1>1 DEF Answer, TypeOK, Call
<1>2. ASSUME NEW c \in calls, Backend(c)
      PROVE  Truthful(d)
  <2>1. CASE RecordCommit(c)
    BY <2>1, RecordEffect DEF Truthful
  <2>2. CASE RecordAbort(c)
    BY <1>1, <2>2 DEF RecordAbort, Truthful, Replies
  <2>3. CASE RecordBegin(c) /\ (Duplicate(c.event) \/ ~NextInLine(c.event))
    BY <1>1, <2>3 DEF RecordBegin, Truthful, Replies
  <2>4. CASE RecordBegin(c) /\ ~(Duplicate(c.event) \/ ~NextInLine(c.event))
    <3>. DEFINE o == [c EXCEPT !.stage = "open", !.snap = run]
    <3>1. calls' = (calls \ {c}) \cup {o}
      BY <2>4 DEF RecordBegin
    <3>2. o.stage = "open"
      BY DEF TypeOK, Call
    <3>. HIDE DEF o
    <3>. QED
      BY <3>1, <3>2 DEF Truthful
  <2>. QED
    BY <1>2, <2>1, <2>2, <2>3, <2>4 DEF Backend
<1>3. CASE AiStep
  BY <1>3, AiStepIsRunnerStep DEF RunnerStep, Truthful
<1>4. CASE DispatchOk \/ DispatchThrows \/ LoseStart
  BY <1>4 DEF DispatchOk, DispatchThrows, LoseStart, Attempt, Truthful
<1>5. ASSUME NEW c \in calls, DispatchRecorded(c) \/ Lose(c) \/ GuardRefuses(c)
      PROVE  Truthful(d)
  <2>1. CASE GuardRefuses(c)
    BY <1>1, <2>1 DEF GuardRefuses, Truthful, Replies
  <2>. QED
    BY <1>5, <2>1 DEF DispatchRecorded, Lose, Truthful
<1>6. ASSUME NEW m \in Managers, Decide(m)
      PROVE  Truthful(d)
  BY <1>6 DEF Decide, DecideBegin, DecideCommit, DecideAbort, Truthful
<1>. QED
  BY <1>2, <1>3, <1>4, <1>5, <1>6 DEF Next, Runner, Dispatcher, Faults, AiStep

(* What has raised stays raised, and the log only grows.                   *)
LEMMA RaisedStays ==
  ASSUME TypeOK, CallsInv, RunnerInv, StoryInv, Next
  PROVE  /\ events \subseteq events'
         /\ NothingRaised' => NothingRaised
         /\ \/ UNCHANGED worker
            \/ AiStep /\ (SameEvent \/ Reports) /\ events' = events
<1>1. CASE AiStep
  <2>1. RunnerStep /\ (SameEvent \/ Reports) /\ events' = events
    BY <1>1, AiTells, AiStepIsRunnerStep DEF database
  <2>2. worker.event.type = "run.failed" => worker'.event.type = "run.failed"
    <3>1. CASE SameEvent
      BY <3>1 DEF SameEvent
    <3>2. CASE Reports
      BY <3>2 DEF Reports, Tells, Successors, RunnerInv, NoEvent
    <3>. QED
      BY <2>1, <3>1, <3>2
  <2>. QED
    BY <1>1, <2>1, <2>2 DEF NothingRaised
<1>2. CASE NetworkStep
  BY <1>2 DEF NetworkStep, NothingRaised, database
<1>3. ASSUME NEW c \in calls, RecordCommit(c)
      PROVE  events \subseteq events' /\ UNCHANGED worker
  BY <1>3, RecordEffect
<1>4. CASE DecideStep \/ \E m \in Managers : DecideCommit(m)
  BY <1>4 DEF DecideStep, DecideCommit, NothingRaised, database
<1>. QED
  BY <1>1, <1>2, <1>3, <1>4, StepKinds DEF NothingRaised

(* Every step keeps the answers truthful.                                  *)
LEMMA AnswersKept ==
  ASSUME TypeOK, CallsInv, RunnerInv, LogIsContiguous, StoryInv, AnswersInv,
         DeliveredEventsAreRecorded, Next
  PROVE  AnswersInv'
<1>1. /\ events \subseteq events'
      /\ NothingRaised' => NothingRaised
      /\ \/ UNCHANGED worker
         \/ AiStep /\ (SameEvent \/ Reports) /\ events' = events
  BY RaisedStays
<1>2. ASSUME NEW d \in calls', d.stage = "created"
      PROVE  d.event \in events'
  BY <1>1, <1>2, AnswersAreTruthful DEF Truthful, AnswersInv
<1>3. ASSUME NEW d \in calls', NothingRaised', d.stage = "conflict", d.event = worker'.event
      PROVE  d.event \in events'
  <2>1. CASE worker'.event = worker.event
    <3>1. CASE d \in calls
      BY <1>1, <1>3, <2>1, <3>1 DEF AnswersInv
    <3>2. CASE d.event \in events'
      BY <3>2
    <3>3. ASSUME NEW c \in calls, c.event = d.event, Awaited(c),
                 Duplicate(c.event) \/ ~NextInLine(c.event)
          PROVE  d.event \in events'
      <4>1. c.event \in events
        BY <1>1, <1>3, <2>1, <3>3, ConflictMeansRecorded
      <4>. QED
        BY <1>1, <3>3, <4>1
    <3>. QED
      BY <1>3, <3>1, <3>2, <3>3, AnswersAreTruthful DEF Truthful
  <2>2. CASE worker'.event # worker.event
    <3>1. AiStep /\ Reports /\ RunnerStep
      BY <1>1, <2>2, AiStepIsRunnerStep DEF SameEvent
    <3>2. d \in calls
      BY <1>3, <3>1 DEF RunnerStep
    <3>3. d.event \in InFlight /\ worker'.event.src = "runner"
          /\ worker'.event.seq = worker.seq + 1 /\ worker.seq \in Nat
      BY <3>1, <3>2 DEF InFlight, Reports, NewEvent, TypeOK, Worker
    <3>4. d.event.seq <= worker.seq
      BY <1>3, <3>3 DEF RunnerInv
    <3>. QED
      BY <1>3, <3>3, <3>4
  <2>. QED
    BY <2>1, <2>2
<1>. QED
  BY <1>2, <1>3 DEF AnswersInv

(* The runner goes on to the next event only after an acknowledgement.     *)
LEMMA PublishedByAnswer ==
  ASSUME TypeOK, RunnerInv, AiStep, SameEvent, worker'.event.type # "run.failed",
         worker'.pc \in {"published", "done"}, worker.pc \notin {"published", "done"}
  PROVE  \E c \in calls : c.event = worker.event /\ c.stage \in {"created", "conflict"}
<1>0. worker \in Worker
  BY DEF TypeOK
<1>1. ASSUME NEW type, NEW lane, NEW ok, Emit(type, lane, ok)
      PROVE  FALSE
  BY <1>1, Emitted
<1>2. ASSUME Raise PROVE FALSE
  BY <1>0, <1>1, <1>2 DEF Raise, Worker
<1>3. ASSUME RetryOrRaise PROVE FALSE
  <2>1. CASE worker.attempt < MaxAttempts
    BY <1>0, <1>3, <2>1 DEF RetryOrRaise, Worker
  <2>. QED
    BY <1>2, <1>3, <2>1 DEF RetryOrRaise
<1>4. CASE EmitNext \/ WorkflowRaises \/ AcceptStart
  BY <1>1, <1>4 DEF EmitNext, WorkflowRaises, AcceptStart
<1>5. CASE AiCrash
  BY <1>0, <1>5 DEF AiCrash, Worker
<1>6. CASE PublishTimeout \/ \E c \in calls : Reject(c)
  BY <1>2, <1>3, <1>6 DEF PublishTimeout, Reject
<1>7. ASSUME NEW c \in calls, Acknowledge(c)
      PROVE  c.event = worker.event /\ c.stage \in {"created", "conflict"}
  BY <1>7 DEF Acknowledge, Awaited, Delivered
<1>. QED
  BY <1>4, <1>5, <1>6, <1>7 DEF AiStep

(* Every step keeps what the runner believes of the log.                   *)
LEMMA DeliveryKept ==
  ASSUME TypeOK, CallsInv, RunnerInv, LogIsContiguous, StoryInv, AnswersInv,
         DeliveredEventsAreRecorded, Next
  PROVE  DeliveredEventsAreRecorded'
<1>1. /\ events \subseteq events'
      /\ NothingRaised' => NothingRaised
      /\ \/ UNCHANGED worker
         \/ AiStep /\ (SameEvent \/ Reports) /\ events' = events
  BY RaisedStays
<1>. SUFFICES ASSUME NothingRaised'
              PROVE  /\ worker'.pc \in {"published", "done"} => worker'.event \in events'
                     /\ \A n \in 1..(worker'.seq - 1) :
                          \E e \in events' : e.seq = n /\ e.src = "runner"
  BY DEF DeliveredEventsAreRecorded, NothingRaised
<1>2. /\ worker.pc \in {"published", "done"} => worker.event \in events
      /\ \A n \in 1..(worker.seq - 1) : \E e \in events : e.seq = n /\ e.src = "runner"
  BY <1>1 DEF DeliveredEventsAreRecorded, NothingRaised
<1>3. CASE UNCHANGED worker
  BY <1>1, <1>2, <1>3
<1>4. CASE AiStep /\ SameEvent
  <2>1. worker'.event = worker.event /\ worker'.seq = worker.seq
    BY <1>4 DEF SameEvent
  <2>2. worker'.pc \in {"published", "done"} => worker'.event \in events'
    <3>1. ASSUME worker'.pc \in {"published", "done"}, worker.pc \notin {"published", "done"}
          PROVE  worker.event \in events
      <4>1. PICK c \in calls : c.event = worker.event /\ c.stage \in {"created", "conflict"}
        BY <1>4, <3>1, PublishedByAnswer DEF NothingRaised
      <4>. QED
        BY <1>1, <4>1 DEF AnswersInv
    <3>. QED
      BY <1>1, <1>2, <2>1, <3>1
  <2>. QED
    BY <1>1, <1>2, <2>1, <2>2
<1>5. CASE AiStep /\ Reports
  <2>1. worker'.seq = worker.seq + 1 /\ worker.seq \in Nat /\ worker'.pc = "publishing"
    BY <1>5 DEF Reports, NewEvent, Tells, TypeOK, Worker, NothingRaised
  <2>2. CASE worker.pc = "idle"
    BY <2>1, <2>2 DEF RunnerInv
  <2>3. CASE worker.pc = "published"
    <3>1. worker.event \in events /\ worker.event.seq = worker.seq /\ worker.event.src = "runner"
      BY <1>2, <2>3 DEF RunnerInv
    <3>2. ASSUME NEW n \in 1..(worker'.seq - 1)
          PROVE  \E e \in events' : e.seq = n /\ e.src = "runner"
      <4>1. CASE n = worker.seq
        BY <1>1, <3>1, <4>1
      <4>2. CASE n \in 1..(worker.seq - 1)
        BY <1>1, <1>2, <4>2
      <4>. QED
        BY <2>1, <4>1, <4>2
    <3>. QED
      BY <2>1, <3>2
  <2>. QED
    BY <1>5, <2>2, <2>3 DEF Reports, Tells, NothingRaised
<1>. QED
  BY <1>1, <1>3, <1>4, <1>5

-----------------------------------------------------------------------------
(* The managers.                                                           *)

(* Only decide calls touch the decisions and the approvals.                *)
LEMMA OthersDecideNothing ==
  ASSUME TypeOK, CallsInv, RunnerInv, Next
  PROVE  UNCHANGED <<approvals, decisions>> \/ \E m \in Managers : Decide(m)
<1>1. ASSUME NEW c \in calls, Backend(c)
      PROVE  UNCHANGED <<approvals, decisions>>
  BY <1>1, RecordEffect DEF Backend, RecordBegin, RecordAbort, database
<1>2. CASE AiStep
  BY <1>2, AiStepIsRunnerStep DEF database
<1>3. CASE DispatchOk \/ DispatchThrows \/ LoseStart
  BY <1>3 DEF DispatchOk, DispatchThrows, LoseStart, database
<1>4. ASSUME NEW c \in calls, DispatchRecorded(c) \/ Lose(c) \/ GuardRefuses(c)
      PROVE  UNCHANGED <<approvals, decisions>>
  BY <1>4 DEF DispatchRecorded, Lose, GuardRefuses, database
<1>. QED
  BY <1>1, <1>2, <1>3, <1>4 DEF Next, Runner, Dispatcher, Faults, AiStep

(* An accepted call stays accepted, and a call is accepted only by storing *)
(* the first approval.                                                     *)
LEMMA WinnerKept ==
  ASSUME TypeOK, CallsInv, RunnerInv, OnlyTheWinnerIsTold, Next
  PROVE  OnlyTheWinnerIsTold'
<1>1. CASE UNCHANGED <<approvals, decisions>>
  BY <1>1 DEF OnlyTheWinnerIsTold
<1>2. ASSUME NEW m \in Managers, Decide(m)
      PROVE  OnlyTheWinnerIsTold'
  <2>0. \A n \in Managers : decisions[n].pc = "accepted" <=> \E a \in approvals : a.actor = n
    BY DEF OnlyTheWinnerIsTold
  <2>1. ASSUME approvals' = approvals, decisions[m].pc # "accepted",
               decisions'[m].pc # "accepted",
               \A n \in Managers \ {m} : decisions'[n] = decisions[n]
        PROVE  OnlyTheWinnerIsTold'
    BY <2>0, <2>1 DEF OnlyTheWinnerIsTold
  <2>2. ASSUME NEW verdict \in Verdicts, NEW expected, DecideBegin(m, verdict, expected)
        PROVE  OnlyTheWinnerIsTold'
    BY <2>1, <2>2 DEF DecideBegin, TypeOK, Undecided, database
  <2>3. CASE DecideAbort(m)
    BY <2>1, <2>3 DEF DecideAbort, TypeOK, Undecided, database
  <2>4. CASE DecideCommit(m)
    <3>. DEFINE v == decisions[m].verdict
                b == [actor |-> m, decision |-> v, runVersion |-> run.version + 1]
    <3>1. approvals = {} /\ approvals' = {b}
      BY <2>4 DEF DecideCommit, MayCommit
    <3>2. /\ decisions'[m].pc = "accepted"
          /\ \A n \in Managers \ {m} : decisions'[n] = decisions[n]
      BY <2>4 DEF DecideCommit, TypeOK, Undecided
    <3>3. b.actor = m
      OBVIOUS
    <3>. HIDE DEF b
    <3>. QED
      BY <2>0, <3>1, <3>2, <3>3 DEF OnlyTheWinnerIsTold
  <2>. QED
    BY <1>2, <2>2, <2>3, <2>4 DEF Decide
<1>. QED
  BY <1>1, <1>2, OthersDecideNothing

-----------------------------------------------------------------------------
(* The theorems.                                                           *)

(* Before the run is started nothing has been told.                        *)
LEMMA StoryInit == Init => StoryTold
<1>. SUFFICES ASSUME Init PROVE StoryTold
  OBVIOUS
<1>1. PICK mode \in Modes : /\ run = NewRow(mode)
                            /\ decisions = [m \in Managers |-> Undecided(mode)]
  BY DEF Init
<1>2. /\ events = {} /\ calls = {} /\ approvals = {} /\ worker = Idle
      /\ tasks = [l \in LaneIndex |-> "absent"]
  BY DEF Init
<1>3. Told = {NoEvent}
  BY <1>2 DEF Told, InFlight, Idle, NoEvent
<1>4. StoryInv
  BY <1>2, <1>3 DEF StoryInv, NoEvent, LaneEvents
<1>5. WholeInv /\ AnswersInv /\ TasksMatchLog
  BY <1>2 DEF WholeInv, AnswersInv, TasksMatchLog, Recorded
<1>6. DeliveredEventsAreRecorded
  BY <1>2 DEF DeliveredEventsAreRecorded, Idle
<1>7. OnlyTheWinnerIsTold
  BY <1>1, <1>2 DEF OnlyTheWinnerIsTold, Undecided
<1>. QED
  BY <1>4, <1>5, <1>6, <1>7 DEF StoryTold

(* A step that records nothing changes neither the milestones nor what is  *)
(* recorded of them.                                                       *)
LEMMA LogStable ==
  ASSUME WholeInv, TasksMatchLog, UNCHANGED <<events, tasks>>, run'.mode = run.mode
  PROVE  WholeInv' /\ TasksMatchLog'
<1>1. Milestones' = Milestones
  BY ShapeStable
<1>. QED
  BY <1>1 DEF WholeInv, TasksMatchLog, Recorded

(* Every step goes on with the story.                                      *)
LEMMA StoryNext == Inv /\ StoryTold /\ [Next]_vars => StoryTold'
<1>. SUFFICES ASSUME Inv, StoryTold, [Next]_vars PROVE StoryTold'
  OBVIOUS
<1>0. TypeOK /\ CallsInv /\ RunnerInv /\ LogIsContiguous /\ StoryTold
  BY DEF Inv
<1>1. CASE UNCHANGED vars
  <2>1. StoryInv'
    BY <1>0, <1>1, StoryStable DEF StoryTold, StoryInv, vars, Told, InFlight
  <2>2. WholeInv' /\ TasksMatchLog'
    BY <1>0, <1>1, LogStable DEF StoryTold, vars
  <2>3. AnswersInv' /\ DeliveredEventsAreRecorded' /\ OnlyTheWinnerIsTold'
    BY <1>0, <1>1 DEF StoryTold, vars, AnswersInv, NothingRaised,
                      DeliveredEventsAreRecorded, OnlyTheWinnerIsTold
  <2>. QED
    BY <2>1, <2>2, <2>3 DEF StoryTold
<1>2. CASE Next
  <2>1. StoryInv' /\ AnswersInv' /\ DeliveredEventsAreRecorded' /\ OnlyTheWinnerIsTold'
    BY <1>0, <1>2, StoryKept, AnswersKept, DeliveryKept, WinnerKept DEF StoryTold
  <2>2. WholeInv' /\ TasksMatchLog'
    <3>1. CASE AiStep \/ NetworkStep \/ DecideStep \/ \E m \in Managers : DecideCommit(m)
      <4>1. UNCHANGED <<events, tasks>> /\ run'.mode = run.mode
        BY <1>0, <3>1, AiStepIsRunnerStep
           DEF NetworkStep, DecideStep, DecideCommit, database, TypeOK, Row
      <4>. QED
        BY <1>0, <4>1, LogStable DEF StoryTold
    <3>2. CASE \E c \in calls : RecordCommit(c)
      BY <1>0, <3>2, WholeKept, TasksKept DEF StoryTold
    <3>. QED
      BY <1>0, <1>2, <3>1, <3>2, StepKinds
  <2>. QED
    BY <2>1, <2>2 DEF StoryTold
<1>. QED
  BY <1>1, <1>2

(* Whatever attempts are lost, late or repeated, one story is told.        *)
THEOREM OneStory == Spec => []StoryTold
<1>. QED
  BY StoryInit, StoryNext, Invariance, PTL DEF Spec

(* A log with run.completed is whole: the plan, the start and the end of   *)
(* every lane, the synthesis and the request for approval are in it, in    *)
(* this order, although a 409 counts as delivered (callback_client.py) and *)
(* attempts overtake one another.                                          *)
THEOREM CompletedRunsAreWhole == Spec => []CompletedRunIsWhole
<1>1. Inv /\ StoryTold => CompletedRunIsWhole
  BY WholeStory DEF Inv, StoryTold
<1>. QED
  BY <1>1, Invariance, OneStory, PTL

(* The tasks shown for a run are what its log says, whichever attempts the *)
(* log was written by.                                                     *)
THEOREM TasksAreRight == Spec => []TasksMatchLog
<1>1. StoryTold => TasksMatchLog
  BY DEF StoryTold
<1>. QED
  BY <1>1, OneStory, PTL

(* A retry that is answered 409 was recorded by an earlier attempt: the    *)
(* runner never skips an event, as long as publishing has not raised and   *)
(* the dispatcher has recorded nothing.                                    *)
THEOREM DeliveryIsTrue == Spec => []DeliveredEventsAreRecorded
<1>1. StoryTold => DeliveredEventsAreRecorded
  BY DEF StoryTold
<1>. QED
  BY <1>1, OneStory, PTL

(* However many managers decide at once, one of them is answered 201: the  *)
(* one whose approval is stored.                                           *)
THEOREM WinnerIsTold == Spec => []OnlyTheWinnerIsTold
<1>1. StoryTold => OnlyTheWinnerIsTold
  BY DEF StoryTold
<1>. QED
  BY <1>1, OneStory, PTL

(* A recorded request for approval is followed by the end of the run and   *)
(* nothing else: the log RunPage assumes of the run it shows.              *)
THEOREM OnlyTheEndFollowsTheRequest ==
  Spec => [](\A e, f \in events :
               e.type = "approval.required" /\ e.seq < f.seq => EndsRun(f))
<1>1. ASSUME Inv, StoryTold, NEW e \in events, NEW f \in events,
             e.type = "approval.required", e.seq < f.seq, f.type # "run.failed"
      PROVE  f.type = "run.completed"
  <2>1. e \in Told /\ f \in Told
    BY <1>1, RecordedIsTold DEF Inv, StoryTold
  <2>2. Place(e.type, e.lane) = 4 * Len(Lanes) + 3
    BY <1>1 DEF Place
  <2>3. Place(e.type, e.lane) < Place(f.type, f.lane)
    BY <1>1, <2>1 DEF StoryTold, StoryInv
  <2>4. f.type \in EventTypes /\ Shaped(f.type, f.lane)
    BY <1>1, <2>1, ToldTyped DEF Inv, StoryTold, Event
  <2>. QED
    BY <1>1, <2>2, <2>3, <2>4, LanesAreNumbered DEF Place, EventTypes, Shaped, LaneEvents
<1>2. Inv /\ StoryTold => \A e, f \in events :
        e.type = "approval.required" /\ e.seq < f.seq => EndsRun(f)
  BY <1>1 DEF EndsRun
<1>. QED
  BY <1>2, Invariance, OneStory, PTL
=============================================================================
