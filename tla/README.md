# StartFlow Agent: formal models and proofs

TLA+ specifications of the StartFlow Agent repository, the TLC configurations
that check them on small instances, and theorems about them that the TLA+ proof
system (TLAPS) checks for every value of the constants. Paths are those of the
repository; `PROJECT.json` maps every definition to the lines it models and lists
every hazard at its line.

## 1. The system

A bank employee registers a loan case and starts its assessment. The **backend**
(NestJS, PostgreSQL) takes an immutable snapshot of the case, creates a run and
asks the **AI service** (FastAPI) to execute it. The AI service runs a planner,
three specialists and a synthesizer, and reports every step through signed HTTP
callbacks. The backend records each callback in a transaction and publishes it to
the **browsers** (Angular) that follow the run over server-sent events. When the
synthesis is in, a manager approves or rejects the proposed action; an approval
creates a ticket. A second desk of the same backend recommends products to
customers (NBA): a batch writes recommendations, sales work through call lists,
read a live assessment and give feedback. Accounts and branches live in
PostgreSQL and in Keycloak, and every page and every endpoint asks for a role.

### Inventory

| component | state | operations | interacts with | status |
|---|---|---|---|---|
| runs, events, internal callback (`backend/src/modules/runs`, `events`) | `workflow_runs`, `run_events`, `agent_tasks`, snapshots, comparisons | create, createComparison, get, record, recordDispatchFailure | AI service, event stream, pages | modelled |
| approvals, action tickets | `approvals`, `action_tickets`, the row of the run | decide | run page, record through the row of the run | modelled |
| AI runner, callback client (`ai-service/src/api`, `clients`) | sequence counter, attempt | execute_run, publish with 3 attempts | backend | modelled |
| agents, graph, tools (`ai-service/src/agents`) | workflow state | plan, specialists, synthesize | runner, knowledge base | partly |
| event stream, server (`event-stream.service.ts`) | channels in memory | publish, stream | record, browsers | modelled |
| event stream, browser (`run-event-stream.service.ts`) | Last-Event-ID, seen events | stream, reconnect | run page | partly |
| run page (`features/runs`) | run shown, timeline | load, reload, submit | REST, event stream | partly |
| identity (`backend/src/modules/identity`) | `users`, `branches`, Keycloak logins | create, update, enable, disable; branches | Keycloak, audit | partly |
| administration pages (`features/administration`) | filters, rows, editor, confirmation | load, save, toggle, deactivate, reset | identity | modelled |
| authentication, roles, permissions (`core/auth`, `core/permissions`, `common/guards`) | token, roles, permissions, `users` | sign in and out, route guards, introspection, roles | Keycloak, every page and endpoint | partly |
| cases and their pages (`modules/cases`, `features/cases`) | `loan_cases`, the signals of three pages | create, load, start a run | runs | partly |
| comparison (`features/comparison`) | selection, result | select, compare, two dispatches | runs | partly |
| NBA rules (`modules/nba/assessment`) | none: functions of the bank's tables | windows, trend, evaluate, drift, evidence, post-check | desk | partly |
| NBA desk (`nba.service.ts`, `nba.controller.ts`) | call lists, feedback, suppressions, notes, KPI weights | assess, feedback, notes, assign, KPI, reads | rules, explainer, customer page | modelled |
| customer page (`features/nba/customer-detail`) | the shown customer, two drafts | load in two waves, feedback, note, refresh | desk | modelled |
| lists, dashboard, knowledge page | rows, filters, drawer | load, refresh, search, ingest | cases, desk, knowledge base | partly |
| knowledge base (`ai-service/src/rag`) | vector collection | ingest, search, list | Qdrant | partly |
| NBA batch (`ai-service/src/nba`), operations console, audit, deployment, seeds, health and configuration | | | | not modelled, see 5 |

### What is hard, and what must hold

* **Callbacks.** A callback may be lost, executed late, executed twice, answered
  after its client gave up; the client moves on after a 409. The log must have no
  hole and no duplicate, what is delivered must be recorded, a completed run must
  have told its whole story, and a run must not wait forever.
* **Decisions.** Managers decide while callbacks arrive; both change the row of
  the run. There must be one decision, final, consistent in three tables, answered
  to one manager, and never for an action that was not proposed.
* **Timeline.** Commit and publication are separate; history and live events
  meet; channels vanish at the end of a run or in a restart; clients resume. Events
  must arrive in order, once each, and none may be skipped.
* **Pages.** Every method awaits an answer and goes on with whatever the page has
  become: other answers, another route, another selection. A page must not wait for
  nothing, show half of one customer and half of another, take a decision back on
  screen, or report as started what was not.
* **Accounts.** Two systems without a common transaction, checks apart from the
  writes they protect. An administrator must remain, closed branches must be
  empty, Keycloak and the database must agree after a failure.
* **Roles.** Names of roles come from Keycloak, permissions from a table of the
  browser, requirements from decorators of the backend, and a row may be missing.
  What a page offers must be allowed; a disabled account must be out at once, though
  disabling it is two steps and a token outlives both.
* **Recommendations.** A rejected product must not come back within 90 days; lists
  are rewritten between the check and the write of a feedback; a list is written row
  by row without a transaction; two services judge the same tables with different
  defaults.

## 2. Modules

| module | models | extends |
|---|---|---|
| `RunEvents` | the event types and what `applyEvent` does to the columns of the run | |
| `RunLifecycle` | dispatch, runner, callback client, recording, decisions | `RunEvents` |
| `RunLedger` | abstract: a numbered log that grows, a verdict asked for and given once, a ticket with it | |
| `LiveTimeline` | abstract: a timeline that grows at its end without gaps and stops at the end of the run | `RunEvents` |
| `EventStream` | publication, replay, connections, the client's loop | `RunEvents`, `LiveTimeline` |
| `RunPage` | `RunFacade` and the approval panel on top of the stream and the row of the run | `EventStream` |
| `IdentityAdmin` | branches, accounts, Keycloak logins | |
| `NbaPolicy` | the rules, windows and texts of an assessment, as operators | |
| `NbaDesk` | every endpoint of the recommendation desk over its tables | `NbaPolicy` |
| `Pages` | what the modules of the browser share: numbered requests in flight | |
| `CustomerPage` | the page of a customer | `Pages` |
| `AdminPages` | the pages of accounts and of branches, with another administrator | `Pages` |
| `CasePages` | intake, detail and comparison with the creation and dispatch of their runs | `Pages` |
| `Lists` | five pages that show a list, and the drawer of the knowledge base | `Pages` |
| `Screens` | a browser that shows one of these pages | the four above |
| `Access` | login, token, permissions and route guards of the browser; guards of the backend; an administrator | `Pages` |
| `RunLifecycle_proofs`, `EventStream_proofs`, `RunPage_proofs`, `IdentityAdmin_proofs`, `NbaDesk_proofs`, `Screens_proofs`, `Access_proofs` | theorems | their module, `TLAPS` |
| `RunStory_proofs` | theorems about the whole story of a run | `RunLifecycle_proofs` |
| `MC...` | values of the constants for TLC | the module they check |

Definitions that no action uses and that stand next to one they resemble
(such as `LoadSentUnchecked` or `AllWrittenButOne`)
are the mutated forms named in `PROJECT.json`.

### RunLifecycle

`run` is the row of `workflow_runs`, `events`, `tasks`, `approvals` and `tickets`
the other tables of a run. A serializable transaction is two steps. `RecordBegin`
and `DecideBegin` open it, keep the row as read and evaluate the guards;
`RecordCommit` and `DecideCommit` write, only if the row is still what was read
(`RowUnchanged`). Every committed transaction on a run updates its row, so this is
what SERIALIZABLE does with two of them; the loser gets P2034, which `record` does
not map (500, `RecordAbort`) and `decide` maps to 409 (`DecideAbort`).

A callback is an element of `calls`: sent, then open in a transaction, then
answered. `Lose` removes it at any of these stages. `PublishTimeout` lets the client
give up while the backend still works on the request, so attempts of one event,
and of consecutive events, race. `Acknowledge` and `Reject` read the answer: 2xx and
409 count as delivered, 5xx is retried, another 4xx is not. `EmitNext` sends the next
event that `execute_run` reports (`Successors`), `Raise` is its except branch.
`worker.partial` and `worker.screened` are what the workflow state says of lanes that
failed and of the compliance lane, without which synthesis cannot block.

`RunsService.create` is `dispatch`: the start request is accepted, lost, or times out
after having been accepted (`DispatchThrows`), and `run.failed` is then recorded as
event 1 under a key of its own. `Key(e)` holds what the idempotency key of an event
depends on. The payloads of events are one bit each. The plan always has the three
tasks that `assertMultiAgentPlan` demands; the instances use one or two lanes, because
a lane is a repetition of the previous one.

### EventStream

`story` is the log the run is going to have, `committed` how much of it is in the
database, `unpublished` what `record` has committed and not published. `Publish`
forwards to the clients in `channel`; an ending event empties it, as `publish`
removes the Subject: the clients stay connected to a channel that is silent.
`LosePublication` is a transaction whose commit was not reported. `irregular`
remembers events published late or never. `conn` is the server's end of a
connection (watermark, pending events, messages under way), `loop` the client's.
`QueryHistory` and `SendHistory` are apart because the query runs between the
subscription and its continuation.

`LiveTimeline` is what all this promises a page, without any of it: a page opens with what
it has loaded, then shows the next event, one step at a time, leaves out nothing but what
was excused (and nothing is excused when every publication is in order, `MayMiss = FALSE`),
and stops at an ending event, when the user leaves or when the server refuses. The
refinement maps `committed` to its length, `irregular` to what is excused, what a client has
seen to its page, and a client that reconnects to a page that follows.

### RunPage

Adds the row of the run and the page. Every GET is two steps, executed and
arrived (`ReadSnapshot`, `ApplyReload`), so answers arrive in any order. `Submit` is
a POST followed by a GET, whether it succeeds or is answered 409; the GETs of decisions
are `posted`, those of reloads `requests`, because only the latter touch the notice of
the page. A load that failed shows that notice too, and its retry is a reload
(`UserReloads`, `retried`): it shows the run and opens no stream. A `row` step
stands for the transactions of `RunLifecycle`: their races are checked there.

### IdentityAdmin

One handler per request in `calls`, one step per query or Keycloak request.
The `pc` of a handler follows the code: read the account, validate the branch, count,
Keycloak (`provision`, `strip`, `grant`, `switch`), `save`, `audit`, and `undo` for the
catch blocks. `KeycloakFails` lets a request fail with or without effect (timeout after
5 s). Names, passwords and the reset of a password are left out: nothing depends on
them.

### NbaPolicy and NbaDesk

`NbaPolicy` holds `WindowsService`, `PolicyService` and the pure part of
`AssessmentService` as operators. Time is counted in days and half months, which is what
the windows of three and six months tell apart; amounts are small integers, so ratios
with a threshold (30 days, 20 %, DTI) become comparisons of products. `EvaluatePackage`
is the evaluation of one row of the catalog with the codes that apply to it, `Ranked`
the stable sort.

`NbaDesk` has one action per endpoint that answers at once, and one per await of those
that do not: an assessment reads the position (`ReadPosition`), scores (`ScorePackages`)
and is explained (`FinishAssessment`); a feedback is checked (`AskFeedback`) and inserted
with the trigger `auto_suppression` (`SubmitFeedback`); an assignment writes one row per
step (`AssignRow`) and may fail after any of them (`RequestFails`). `job[u]` is the
request in progress of a user, `answer` what the last step answered. The environment is
the batch that writes recommendations (`BatchRecommends`), the bank's tables and the
calendar. `written`, `writes` and `listed` are history variables of the properties.
A refusal changes nothing and is no step.

### CustomerPage, AdminPages, CasePages, Lists, Screens

A page is its signals; a request is sent, perhaps carried out, and answered or failed
at any later moment, in any order. Every method is cut at its awaits, and what it reads
afterwards is read then: a refresh after a feedback is of the customer shown *now* with
the trace that was shown *before* (`FeedbackAnswered`), `closeEditor` closes the editor
that is open *now* (`SaveAnswered`), a failed load ends the spinner of whichever load is
running (`LoadFailed`), a start of a run clears the error of the last start and keeps that
of the load (`StartRun`, `loadError`). Buttons that a template disables are guards; those that it does
not are not (`SubmitFeedback`, `Save`).

`CasePages` goes behind the request: `CreateRuns` is the transaction of `create` and
`createComparison`, `RunTaken` and `StartSettles` the start requests (refused, taken, or
taken and timed out all the same), `RunReports` the first event of a runner, and
`DispatchFailureRecorded` the attempt to record a failure as event 1, which may meet
it. What a run does later is `RunLifecycle`.

`Screens` composes the four as alternatives: a behaviour is of one page, and the state
of the others is constant.

### Access

`row` and `login` are the account in `users` and in Keycloak, `token` the names the
browser's token carries, `auth`, `loaded` and `open` what the browser derives from it:
roles, permissions, route. `request` goes through `Introspect` (`JwtAuthGuard`), `ToUser`
(the row, or the token without one) and `RolesGuard`. An administrator changes login
and row in this order, may fail between them, and may fail to undo it
(`AdminChangesLogin`, `AdminSavesRow`, `AdminGivesUp`). The tables are transcribed:
`PermissionsForRoles`, `AppRoutes`, `Offers` from the browser, `Endpoints` and `Required`
from the decorators. `RowUnreadable` is the fallback for a database of the former schema
in compat mode.

## 3. Runs

| run | instance | distinct states | shows |
|---|---|---|---|
| `lifecycle_safety` | 1 lane with evidence, both modes, 2 managers, 2 attempts, 2 faults, refusals | 737,350 | types, log, decision, delivery; `RunLifecycle` implements `RunLedger` |
| `lifecycle_lanes` | 2 lanes, both modes, 1 manager, 3 attempts, 2 faults, fairness | 387,768 | completed runs are whole, tasks match the log, tickets were proposed, a run settles |
| `stream` | 1 client, logs of 2 and 3 events, one with two ends, 2 faults, fairness | 13,540 | order, no gap, liveness of the live timeline; `EventStream` implements `LiveTimeline` |
| `page` | 1 page, 2 faults, 2 reloads or decisions by the user, fairness | 180,307 | what the page of a run promises |
| `identity` | 5 accounts, 2 branches, 3 requests one after the other, 1 failure | 172,802 | last admin, empty branches, agreement with Keycloak |
| `nba` | 2 customers, 3 packages, a sale and two managers of two branches, three sets of limits | 190,224 | scope of feedback, whole lists, suppression, quarters, staleness |
| `screens` | 2 customers, 2 names, 3 cases, 3 inputs, 2 requests in flight | 1,561,976 | what the pages promise under any order of answers |
| `access` | 4 names of roles (one of the application, two that are mapped, one that is not), 2 changes by an administrator, 2 routes opened, both modes | 1,629,602 | offered means allowed, disabled means out |
| `lifecycle_end`, `lifecycle_final`, `identity_race`, `nba_drift` | violations | | findings 1 to 4 |

Four more configurations are kept to be run by hand; TLC finds a counterexample for each:
`MCRunPage_retry.cfg` (`ShownRunIsFollowed`: the retry of a page that failed to load is
`reload`, which shows the run and does not open the stream that `load` would have opened,
so the page of a run in progress stays at its first snapshot without a notice);
`MCRunLifecycle_partial.cfg` (`PartialRunIsNotCompleted`: a decision turns a PARTIAL run
into a COMPLETED one), `MCRunPage_stale.cfg` (`StaleReloadNeverWins`: the version of a
run only grows at a decision, so the guard of `applySnapshot` cannot tell older answers
apart) and `MCIdentityAdmin_undo.cfg` (`UndoRestores`: undoing a switch that changed
nothing changes something).

**Bounds.** Two attempts are the least that make attempts of one event race; the code's
three add no new kind of interleaving (`lifecycle_lanes` has three, with fewer faults
than attempts, which liveness needs). Two faults allow a lost message and a premature
timeout, or the exhaustion of all attempts. Two managers are the least that compete. One
client is enough for the stream: clients share nothing but the channel, which treats
them alike. Three administrative requests are enough to disable an account, close its
branch and touch the account again. In `nba` the three `Limits` are three workloads: lists
rewritten while feedback is given (3 row writes, so that two assignments interleave); a
customer followed over 91 days with notes and KPI weights; and an assessment that
overlaps a feedback, the end of a suppression (`DayJumps` of 90 and 91) and changes of the
bank's rows. Two requests in flight are the least that overtake one another on a page;
four runs are two comparisons; `MaxMoves`, `MaxTurns`, `MaxAsks` and `MaxAdminSteps` bound
what a user does, two or four of each being enough to come back to where one was. In
`access` two changes are enough to disable and enable again, and `RoleNames` has a name
of the application, two that are mapped to one, and one that both sides drop.
`MaxFaults`, `MaxReloads`, `MaxCalls`, `MaxVersions`, `MaxInFlight`, `MaxOpened`,
`MaxChanges`, `MaxFeedback`, `MaxNotes`, `MaxRuns` and those above are the only bounds the
code does not have; `MaxAttempts` is its `max_attempts`. The managers and the two
initial administrators are symmetric; no liveness property is checked under symmetry.

**Deadlock.** A run that is over, a page that has everything and users who are done stop:
`CHECK_DEADLOCK` is off everywhere, and the liveness properties say what must have
happened before; `SpinnerMeansWork` is the counterpart for the pages: whatever the page
says it waits for is on its way.

**Fairness.** In `RunLifecycle`, `EventStream` and `RunPage` the backend serves the
requests it has, the runner and the dispatcher continue, the stream service and the
browser's loop go on: each is a live process with an event loop that the code never
blocks. Users, faults and the growth of the log have no fairness. Liveness therefore says
nothing of a process that died: `RunEventuallySettles` names this exception
(`Stranded`). The other modules state none: a request of a page ends when its answer
arrives or fails, which is the network's business.

### Findings

1. *The end of a run can disappear silently.* When an event exhausts its attempts
   unrecorded, `run.failed` has the next number, is answered 409, and counts as
   delivered. `EndOfRunIsDelivered`.
2. *A failed run is resurrected.* A start that timed out but was accepted leaves
   `run.failed` as event 1; `plan.created` then follows as event 2.
   `TerminalStatusIsFinal`.
3. *Two administrators can remove each other.* `AdminRemains` holds for one request
   at a time and fails for two. So does `DeactivatedBranchIsEmpty`: an account may be put
   into a branch, or enabled in it, between the count of its active accounts and the
   update of its row.
4. *The drift of an assessment names criteria that have not changed*, because one set
   of fired rules stands for all packages of a customer. `DriftIsAChange`.

The passing properties name the exceptions these behaviours make: `KeycloakAgrees`
does not speak of accounts in `unsure`, `StreamCatchesUp` not of a log with a second
end, `TimelineHeals` not of a page that shows a terminal status,
`StopsOnlyAtTheEnd` and `TimelineHeals` not of a page opened by a retry, `CallListMatchesDate`
not of overlapping requests and `ComparisonIsOfSelection` not of a selection that moved
while the comparison ran: in both cases the older answer is shown. Where an exception is
the hazard itself, the `note` of the hazard in `PROJECT.json` says what remains uncovered.

### What reading the code for the models showed

No line of the repository says otherwise, so these are not findings:

* In compat mode, without the table of the new schema, the backend takes the first role
  of a token and the browser all of them: a page may offer what is answered with 403.
  `OfferedIsAllowed` leaves this source out. It ends at the guards; a manager without a
  branch gets a 403 from the services behind them.
* A suppression without product is described in SQL as holding the whole customer back;
  `customerBlocks` looks at the last contact only.
* A window of three months can have four active months (`windows.service.ts`), which the
  evidence then states as 4 of 3; numbers of one digit pass `postCheck` unverified.
* A rejected product can be in the words of an assessment that was asked for before the
  rejection: `RejectedIsNotOffered` is about feedback that was there when it was asked.
* After the route changed, the answer to a feedback loads the trace of the former
  customer into the page of the new one; drafts of feedback and notes stay from customer
  to customer; a feedback that was recorded is reported as failed if the refresh fails.
* The retry of the page of accounts ignores the filters on display; saving closes
  whichever editor is open when the answer arrives.
* `updateBranch` with `active: false` is `deactivateBranch` and nothing else: a new name
  typed in the same form is dropped without a word, and a branch that is inactive already
  cannot be renamed while it stays so (404).

## 4. Proofs

| module | theorem | states |
|---|---|---|
| `RunLifecycle_proofs` | `Invariance`, `TypeCorrect`, `LogCorrect`, `AwaitingCorrect`, `DecisionCorrect`, `TicketCorrect` | the inductive invariant, and `TypeOK`, `LogIsContiguous`, `AwaitingCanBeDecided`, `OneConsistentDecision`, `TicketWasProposed` |
| | `DecisionFinal` | `DecisionIsFinal`: no step changes a decision, its approval or its ticket |
| | `Refinement` | `ImplementsLedger`: `RunLifecycle` implements `RunLedger` |
| `RunStory_proofs` | `OneStory`, `CompletedRunsAreWhole`, `TasksAreRight`, `DeliveryIsTrue`, `WinnerIsTold` | the invariant of the story, and `CompletedRunIsWhole`, `TasksMatchLog`, `DeliveredEventsAreRecorded`, `OnlyTheWinnerIsTold` |
| | `OnlyTheEndFollowsTheRequest` | after the request for approval a log goes on with the end of the run alone |
| `EventStream_proofs` | `StreamInvariance`, `StreamTypeCorrect`, `GivenInOrderCorrect`, `NothingSkippedCorrect` | `StreamTypeOK` (a part of `PageTypeOK`, which `page` checks), `GivenInOrder`, `NothingSkipped` |
| | `TimelineRefinement` | `ImplementsTimeline`: `EventStream` implements `LiveTimeline` |
| `RunPage_proofs` | `PageInvariance`, `PageTypeCorrect`, `StopsOnlyAtTheEndCorrect` | `PageTypeOK`, `StopsOnlyAtTheEnd` |
| | `VersionNeverRevertsCorrect` | `VersionNeverReverts`: no late answer shows a run at an older version |
| `IdentityAdmin_proofs` | `AccountInvariance`, `IdentityTypeCorrect` | `IdentityTypeOK`, for any number of requests at a time |
| | `AloneInvariance`, `FinalAdminProtected`, `CompensationCorrect`, `DeactivationCorrect` | `AdminRemains`, `KeycloakAgrees`, `DeactivatedBranchIsEmpty`, for requests one at a time |
| `NbaDesk_proofs` | `Invariance`, `OnlyFeedbackInScope`, `WholeLists` | `FeedbackWithinScope`, `AcknowledgedListIsWhole` |
| | `NbaTypeCorrect`, `RejectionsCount`, `QuartersAddUpCorrect`, `NewGatesAreFlagged` | `NbaTypeOK`, `RejectedIsNotOffered`, `QuartersAddUp`, `NewGateIsFlagged` |
| `Screens_proofs` | `Invariance`, `Acknowledged`, `OfSelection`, `WholeTurns`, `CallListOfDate`, `SpinnersWait`, `ScreensTypeCorrect` | `AcknowledgedRunIsDispatched`, `ComparisonIsOfSelection`, `TurnsAsAWhole`, `CallListMatchesDate`, `SpinnerMeansWork`, `ScreensTypeOK` |
| | `FieldsSurvive` | `UntouchedFieldsSurvive`: no save reverts a field nobody touched |
| `Access_proofs` | `Invariance`, `TypeCorrect`, `OffersAgree`, `DisabledStaysOut` | `AccessTypeOK`, `OfferedIsAllowed`, `DisabledIsOut` |

They hold for all values of the constants that satisfy the `ASSUME`s of the modules,
which TLC evaluates in every run. Bounds are numbers (`ReloadsAssumption`,
`StreamFaultsAssumption`, `InFlightAssumption` and so on); `NULL` and `NoBranch` are no
role, error, row, call, set or branch (`NullIsNoRole`, `NullIsNoError`, `NullIsNoRow`,
`NullIsNoCall`, `NullIsNoSet`, `BranchAssumption`); what the tables hold at the start is well formed
(`SeedAssumption`, which is the CHECK constraint of `users` and an administrator,
`StoriesAssumption`, `RowsAssumption`, `KnownAreCases`, `RowsAreOfUsers`, `CatalogAssumption`,
`ProfileAssumption`, `DataAssumption`), requests and time have the shapes the code gives them
(`InputAssumption`, `ClockAssumption`, `LimitAssumption`). One is a fact
about another module: `RequestAssumption` of `RunPage` says that in a log nothing but
the end of the run follows the request for approval. `OnlyTheEndFollowsTheRequest`
proves it of every log that `RunLifecycle` can write.

The theorems about administration have one more hypothesis, stated in them:
`OneAtATime`, there is at most one request at a time. Without it two of the three
properties are false, as finding 3 shows for the administrators; what does not need it
(`AccountInvariance`) is proved without.

None of the properties is inductive alone.

* **RunLifecycle.** That there is one decision needs that `approval.required` is
  recorded once, or a late duplicate would reopen a decided run. That needs that all
  attempts in flight which ask for approval carry the same number (`RunnerInv`), that a
  number is recorded once (`LogIsContiguous`), and that an open transaction read the row
  just before its event (`CallsInv`). `DecisionInv` ties the row to the log and says that
  an open decision has read a row that was waiting.
* **RunStory.** A completed run is whole although a 409 counts as delivered, so the log
  may be other than what the runner believes. `StoryInv` gives every event of the runner
  its place in the plan: what precedes it in the plan has a lower number and was
  delivered first. `WholeInv` says that a number is given to one event only, so a 409 to
  it can only mean that this event, or a failure of the dispatch in its place, is
  recorded; `AnswersInv` says what each answer on its way, and each open transaction,
  knows of the log. The tasks then follow event by event.
* **EventStream.** Nothing is skipped because of the order in which a connection is set up:
  the subscription comes before the query, and what the query does not see is published
  afterwards to a channel that already buffers. `StreamInv` states this for each state of
  the handover: every committed number above the watermark is in the history that was
  read, pending, on the wire, unpublished, or irregular. For the refinement `HeadIsNext`
  says that the first message on a live wire is the next event of the page: whatever lies
  between it and the Last-Event-ID would be on the wire before it, unless irregular; and
  `OneToPublish` that without late publications nothing becomes irregular.
* **RunPage.** Answers arrive in any order, and `applySnapshot` compares versions only.
  `PageInv` bounds the version of each answer on its way by the row, and says which
  answer of a page is the first; that the timeline and the status agree on the end needs
  `RequestAssumption`.
* **IdentityAdmin.** `AccountInv` says for each `pc` of a handler what it has read, and that
  every row keeps the CHECK constraint. `AloneInv` adds what holds while nobody else
  writes: the row is still as read, there was another administrator when it was counted
  and there still is, and exactly which half of a change Keycloak has.
* **NbaDesk.** Feedback is inserted after the check, when the lists may be others.
  `Listed` says that whoever is on a list is in the history, `Knows` that a request that
  was let in carries this knowledge to its INSERT. For an acknowledged list, `Knows` says
  that the rows before the cursor of an assignment were written after it began;
  `RowIsWritten` is the lemma that no write makes a row older, so other managers who
  write the same list do not take this away. That a rejection counts is `DeskInv`:
  a rejection has left a suppression of its product (`RejectionsSuppress`), and what an
  assessment has read of the suppressions has every one that was there when it was asked
  and has not expired since (`AssessmentKnows`), because suppressions are only added and
  the clock only advances. A product that is suppressed is blocked by R5, and the ranking
  keeps this: it is a permutation (`EveryRankOccurs`: counting what precedes is injective on
  a finite strict order, hence onto), and the words are of the first eligible package.
  `QuartersAddUp` compares sums over all transactions of a customer. It needs induction,
  which is done over a set (`UpTo`: a set that has 0, and k when it has k - 1, has 0..n),
  so no operator has to be passed to a theorem; sums are the recursive function `Total`,
  and `TotalOfParts` says that a sum whose terms are split is the sum of the parts.
* **Screens.** `PagesInv` is the conjunction of two invariants per page, one of its data
  and one of its spinner. `CaseInv`: a run that reported was taken, and a run whose start
  has settled is taken, recorded as failed, or still known by the handler of the call;
  `CustomerInv`: types of the page and of what is in flight; `ListInv`: until requests
  overlap there is at most one, and it asks for the date in the field. A spinner stops
  with whichever request ends first, so `...Spins` names for each spinner the request
  that will end it. All rest on the numbers of requests, which are unique among those in
  flight: the answer of one request is not taken for that of another, and since they are
  at most `MaxInFlight` the requests are, too (`ScreensTypeCorrect`). For
  `UntouchedFieldsSurvive`, `AdminInv` says of a form, and of a save on its way, that it
  differs from the row as it was read in touched fields only (`IsEdit`).
* **Access.** `Refused` says, for each step of a request, which of login and row still
  refuses a disabled account: when it was sent one of the two did, after the introspection
  the row must. `Steady` says that until somebody changes the account, all the browser
  holds comes from one set of names, from which the backend derives the same highest
  role. The agreement of the two tables of roles is the lemma below it: whatever the
  permissions of a set of roles let a route offer is authorized for the highest role.

Every safety property and every action property of a passing run is a theorem. Only
model-checked are the liveness properties (`RunEventuallySettles`, `StreamCatchesUp`,
`TimelineHeals`), which TLAPS does not support. Of administration, the theorems about
`AdminRemains`, `KeycloakAgrees` and `DeactivatedBranchIsEmpty` speak of one request at a
time; what happens to the last two when requests overlap is not claimed.

## 5. Not modelled

* **NBA batch** (`ai-service/src/nba`): a batch that no part of the backend calls, over
  language models and scores. What it writes is `BatchRecommends`.
* **Agents**: calls of a language model and sums over one case. What callbacks say of
  them is in `RunLifecycle`.
* **Knowledge base**: the store is external; re-ingestion deletes and upserts in two
  requests, and the window between them is a listed hazard without a property.
* **Deployment**: shell scripts over Docker, nginx and a file system; a model would be one
  of those tools.
* **Operations console**: constants of a demonstration, sends nothing. **Audit**:
  insert-only. **Seeds**: data. **Health, configuration, logging, layout**: no state.
  **Normalizers**: total functions on one answer.
* Of modelled parts: the text of frames and retry delays of the stream, the run page
  that turns to another run (only a jump in the history of the browser does that: no
  page of a run links to another, and `reload` would then apply the answer of the former), names and passwords of accounts, signatures and audiences of
  tokens (one choice: valid or not), labels and amounts of the rules beyond a few
  profiles.

## 6. Plan

1. Done: the run (`RunLifecycle`, `RunLedger`), its stream (`LiveTimeline`) and page, accounts, the desk
   and its rules, the pages, the roles, and the theorems of section 4.
2. Re-ingestion of documents against searches.

## 7. Running

In this directory: `tlc -workers 2 -config MCNba.cfg MCNba` checks one run,
`tlapm NbaDesk_proofs.tla` one module of proofs. `PROJECT.json` names for every run its
module, configuration and properties, and for every property a plausible bug of the
code under which it fails.
