------------------------------- MODULE RunPage -------------------------------
(***************************************************************************)
(* The workspace page of a run (RunFacade): it loads the snapshot of the   *)
(* run over REST, follows its live timeline (EventStream), reloads the     *)
(* snapshot on the events that change what can be done, and submits the    *)
(* decision of its user. REST answers arrive in any order. Meanwhile       *)
(* callbacks are recorded and other managers decide (RunLifecycle).        *)
(***************************************************************************)
EXTENDS EventStream, SequencesExt

CONSTANT MaxReloads \* bound: reloads each user asks for

ASSUME ReloadsAssumption == MaxReloads \in Nat

(* Only the end of a run is reported after the request for approval: the   *)
(* theorem OnlyTheEndFollowsTheRequest of every log of RunLifecycle.       *)
ASSUME RequestAssumption ==
  \A s \in Stories : \A i, j \in 1..Len(s) :
    i < j /\ s[i].type = "approval.required" => EndsRun(s[j])

VARIABLES
  row,  \* status, approval state and version of the run in the database
  page  \* RunFacade of each client

vars == <<streamVars, row, page>>

(* What GET /runs/:id answers. `at` is how many events were recorded; the  *)
(* answer holds all of them.                                               *)
Snapshot == [status: RunStatus, version: Nat, at: Nat]
Answers  == [snapshot: Snapshot, posted: BOOLEAN] \* to a GET of the facade, or of a decision
Current  == [status |-> row.status, version |-> row.version, at |-> committed]

Said(posted) == [snapshot |-> Current, posted |-> posted]

NoRun   == [status |-> "PENDING", version |-> -1, at |-> 0]
Loading == [state: {"new", "loading", "shown", "failed"}, run: Snapshot \cup {NoRun},
            events: SUBSET Numbers, error: BOOLEAN, requests: Nat, posted: Nat,
            answers: Seq(Answers), asked: Nat, lost: BOOLEAN, retried: BOOLEAN]

(* `requests` are the GETs of reload and `posted` those of a decision that *)
(* have not been executed, `answers` are on their way back. `lost`         *)
(* remembers that an answer never arrived, `retried` that the page was     *)
(* opened by a retry.                                                      *)
NewPage == [state |-> "new", run |-> NoRun, events |-> {}, error |-> FALSE, requests |-> 0,
            posted |-> 0, answers |-> <<>>, asked |-> 0, lost |-> FALSE, retried |-> FALSE]

TerminalStatus == {"COMPLETED", "PARTIAL", "FAILED"}

ReloadEventsWithoutEnd == {"approval.required"} \* mutant: the end is no reason to reload
ReloadEvents == {"approval.required", "run.completed", "run.failed"}

-----------------------------------------------------------------------------
(* The database.                                                           *)

(* A callback is recorded: one transaction advances the log and the row.   *)
RecordEvent ==
  /\ Commit
  /\ LET e == story[committed']
     IN  row' = [row EXCEPT !.status        = StatusAfter(e, @, row.approvalState),
                            !.approvalState = ApprovalStateAfter(e, @)]
  /\ UNCHANGED page

(* ApprovalsService.decide succeeds (its races are those of RunLifecycle). *)
DecideIntoStatus(version) == \* mutant: the decision becomes the status
  /\ row.approvalState = "PENDING" /\ row.version = version
  /\ row' = [status |-> "APPROVED", approvalState |-> "APPROVED", version |-> version + 1]

Decide(version) ==
  /\ row.approvalState = "PENDING" /\ row.version = version
  /\ row' = [status |-> "COMPLETED", approvalState |-> "APPROVED", version |-> version + 1]

DecideElsewhere ==
  /\ Decide(row.version)
  /\ UNCHANGED <<streamVars, page>>

-----------------------------------------------------------------------------
(* RunFacade.                                                              *)

TerminalOrAwaiting(snapshot) == \* mutant: waiting for a manager counts as over
  snapshot.status \in TerminalStatus \cup {"AWAITING_APPROVAL"}

Terminal(snapshot) == snapshot.status \in TerminalStatus

(* The version guard of applySnapshot; its events are merged either way.   *)
OlderIgnored(snapshot, shown) == FALSE \* mutant: the last answer wins
Older(snapshot, shown) == snapshot.version < shown.version

Applied(p, snapshot) ==
  [p EXCEPT !.run    = IF Older(snapshot, p.run) THEN p.run ELSE snapshot,
            !.events = @ \cup 1..snapshot.at]

(* applySnapshot aborts the stream if it shows a terminal status.          *)
StreamAfter(c, snapshot) ==
  IF Terminal(snapshot) /\ ~Older(snapshot, page[c].run) /\ loop[c].state \in {"connecting", "live"}
  THEN Abort(c)
  ELSE UNCHANGED <<loop, conn, channel>>

(* load: the snapshot is requested and read ...                            *)
Load(c) ==
  /\ page[c].state = "new"
  /\ page' = [page EXCEPT ![c].state = "loading", ![c].answers = <<Said(FALSE)>>]
  /\ UNCHANGED <<streamVars, row>>

(* ... applied when it arrives, and the stream opened unless it is over;   *)
ApplyLoad(c) ==
  /\ page[c].state = "loading"
  /\ LET snapshot == Head(page[c].answers).snapshot
         settled  == [page[c] EXCEPT !.state = "shown", !.answers = <<>>]
     IN  /\ page' = [page EXCEPT ![c] = Applied(settled, snapshot)]
         /\ IF Terminal(snapshot) THEN UNCHANGED loop ELSE Open(c, snapshot.at)
  /\ UNCHANGED <<backend, channel, conn, row, faults>>

(* ... or the request fails and the page shows an error.                   *)
LoadFails(c) ==
  /\ page[c].state = "loading"
  /\ faults < MaxFaults
  /\ faults' = faults + 1
  /\ page' = [page EXCEPT ![c].state = "failed", ![c].answers = <<>>,
                                ![c].error = TRUE]
  /\ UNCHANGED <<backend, channel, conn, loop, row>>

Reload(p) == [p EXCEPT !.requests = @ + 1]

(* onEvent: an event the stream has not seen is merged into the timeline,  *)
(* and some events reload the snapshot.                                    *)
ShowEvent(c) ==
  LET n == Head(conn[c].wire)
      p == [page[c] EXCEPT !.events = @ \cup {n}]
  IN  /\ Receive(c)
      /\ page' = IF ~New(loop[c], n) THEN page
                 ELSE [page EXCEPT ![c] =
                         IF story[n].type \in ReloadEvents THEN Reload(p) ELSE p]
      /\ UNCHANGED row

(* The retry of both notices, on a page that failed to load or to reload,   *)
(* is a reload.                                                            *)
Opened(c) == page[c].state \in {"shown", "failed"}

UserReloads(c) ==
  /\ Opened(c) /\ page[c].error /\ page[c].asked < MaxReloads
  /\ page' = [page EXCEPT ![c] = Reload([page[c] EXCEPT !.asked = @ + 1])]
  /\ UNCHANGED <<streamVars, row>>

(* The user decides against the version shown. A 409 reloads as well as a  *)
(* success: submitApproval and #handleConflict both end in getRun.         *)
Submit(c) ==
  /\ page[c].state = "shown" /\ page[c].run.status = "AWAITING_APPROVAL"
  /\ page[c].asked < MaxReloads
  /\ IF row.approvalState = "PENDING" /\ row.version = page[c].run.version
     THEN Decide(page[c].run.version)
     ELSE UNCHANGED row
  /\ page' = [page EXCEPT ![c].posted = @ + 1, ![c].asked = @ + 1]
  /\ UNCHANGED streamVars

(* RunsService.get executes a request ...                                  *)
ReadSnapshot(c) ==
  /\ \/ /\ page[c].requests > 0
        /\ page' = [page EXCEPT ![c].requests = @ - 1, ![c].answers = Append(@, Said(FALSE))]
     \/ /\ page[c].posted > 0
        /\ page' = [page EXCEPT ![c].posted = @ - 1, ![c].answers = Append(@, Said(TRUE))]
  /\ UNCHANGED <<streamVars, row>>

(* ... whose answer is applied whenever it arrives, or never does. A page   *)
(* that had failed to load shows the run then: only load opens a stream.   *)
ApplyReload(c) ==
  /\ Opened(c)
  /\ \E i \in 1..Len(page[c].answers) :
       LET answer   == page[c].answers[i]
           snapshot == answer.snapshot
           settled  == [page[c] EXCEPT !.state   = "shown",
                                       !.answers = RemoveAt(@, i),
                                       !.error   = @ /\ answer.posted,
                                       !.retried = @ \/ page[c].state = "failed"]
       IN  /\ page' = [page EXCEPT ![c] = Applied(settled, snapshot)]
           /\ StreamAfter(c, snapshot)
  /\ UNCHANGED <<backend, row, faults>>

ReloadFails(c) ==
  /\ Opened(c) /\ faults < MaxFaults
  /\ faults' = faults + 1
  /\ \/ /\ page[c].requests > 0
        /\ page' = [page EXCEPT ![c].requests = @ - 1, ![c].lost = TRUE, ![c].error = TRUE]
     \/ /\ page[c].posted > 0
        /\ page' = [page EXCEPT ![c].posted = @ - 1, ![c].lost = TRUE]
  /\ UNCHANGED <<backend, channel, conn, loop, row>>

(* Steps of the stream that the page does not see.                         *)
StreamStep ==
  /\ \/ Publisher
     \/ \E n \in unpublished : LosePublication(n)
     \/ Restart
     \/ \E c \in Clients : Server(c) \/ Connect(c) \/ Refuse(c) \/ Break(c)
  /\ UNCHANGED <<row, page>>

-----------------------------------------------------------------------------
Init ==
  /\ StreamInit
  /\ row = [status |-> "PENDING", approvalState |-> "NONE", version |-> 0]
  /\ page = [c \in Clients |-> NewPage]

User(c)   == Load(c) \/ UserReloads(c) \/ Submit(c)
Answer(c) == ApplyLoad(c) \/ ShowEvent(c) \/ ReadSnapshot(c) \/ ApplyReload(c)

Next ==
  \/ RecordEvent
  \/ DecideElsewhere
  \/ StreamStep
  \/ \E c \in Clients : User(c) \/ Answer(c) \/ LoadFails(c) \/ ReloadFails(c)

(* As in EventStream; REST requests are executed and answered.             *)
Fairness ==
  /\ WF_vars(Publisher /\ UNCHANGED <<row, page>>)
  /\ \A c \in Clients :
       /\ WF_vars((Server(c) \/ Connect(c)) /\ UNCHANGED <<row, page>>)
       /\ WF_vars(ApplyLoad(c)) /\ WF_vars(ShowEvent(c))
       /\ WF_vars(ReadSnapshot(c)) /\ WF_vars(ApplyReload(c))

Spec == Init /\ [][Next]_vars /\ Fairness

-----------------------------------------------------------------------------
(* Properties.                                                             *)

(* The variables keep their types.                                         *)
PageTypeOK ==
  /\ StreamTypeOK
  /\ row \in [status: RunStatus, approvalState: ApprovalState, version: Nat]
  /\ page \in [Clients -> Loading]

(* The page keeps its promise of one stream per page: it follows the run   *)
(* only after it has shown a snapshot, its timeline holds every event of   *)
(* the stream, and it stops following no run that it does not show as over *)
(* unless the timeline has reached the end or the user must sign in again. *)
(* A page that was opened by a retry follows nothing.                      *)
StopsOnlyAtTheEnd ==
  \A c \in Clients :
    /\ loop[c].seen \subseteq page[c].events
    /\ page[c].state = "shown" /\ ~page[c].retried
       /\ loop[c].state \in {"idle", "aborted", "ended"} =>
         \/ page[c].run.status \in TerminalStatus
         \/ \E n \in page[c].events : EndsRun(story[n])

(* A decision is never taken back on screen: once the page has shown the   *)
(* run at some version, no late answer shows it at an older one.           *)
VersionNeverReverts ==
  [][\A c \in Clients : page'[c].run.version >= page[c].run.version]_vars

(* The timeline heals: although publications are missed or overtaken, the  *)
(* page ends up with every event of an ended run, by the reload that its   *)
(* end triggers. It may not if it stopped following at a terminal status,  *)
(* was opened by a retry, lost its session or a reload, or if the end      *)
(* itself was published late or never.                                     *)
Excused(c) ==
  \/ page[c].run.status \in TerminalStatus
  \/ loop[c].state = "fatal" \/ page[c].lost \/ page[c].retried
  \/ \E n \in irregular : EndsRun(story[n])

TimelineHeals ==
  \A c \in Clients :
    <>[](/\ page[c].state = "shown" /\ ~Excused(c)
         /\ \E n \in 1..committed : EndsRun(story[n])
         => 1..committed \subseteq page[c].events)

(* "timeline realtime": a page that shows a run which is not over follows   *)
(* it, or did until it was told to stop.                                   *)
ShownRunIsFollowed ==
  \A c \in Clients :
    page[c].state = "shown" /\ loop[c].state = "idle" => page[c].run.status \in TerminalStatus

(* "does not let a stale reload overwrite a newer versioned snapshot": a   *)
(* page never goes back to an older state of the run.                      *)
StaleReloadNeverWins ==
  [][\A c \in Clients : page'[c].run.at >= page[c].run.at]_vars

-----------------------------------------------------------------------------
(* Why the properties are inductive.                                       *)

(* What an answer says: a run is over because its end is recorded, or      *)
(* because it was decided, which it stays.                                 *)
SnapshotInv(snapshot) ==
  /\ snapshot.at <= committed
  /\ snapshot.version > 0 => Terminal(snapshot)
  /\ Terminal(snapshot) => snapshot.version > 0 \/ \E n \in 1..snapshot.at : EndsRun(story[n])

RowInv ==
  /\ SnapshotInv(Current)
  /\ row.version > 0 => row.approvalState # "PENDING"
  /\ row.version > 0 \/ row.approvalState = "PENDING" =>
       \E n \in 1..committed : story[n].type = "approval.required"

(* What a page shows, and why it does not follow the run.                  *)
ShownInv(c) ==
  LET p == page[c]
  IN  /\ \A i \in 1..Len(p.answers) : SnapshotInv(p.answers[i].snapshot)
      /\ p.state # "shown" => loop[c].state = "idle"
      /\ p.state = "new" => p.answers = <<>>
      /\ p.state = "loading" => Len(p.answers) = 1
      /\ p.state \in {"new", "loading"} => p.requests = 0 /\ p.posted = 0 /\ p.run = NoRun
      /\ p.run.version > 0 => Terminal(p.run)
      /\ loop[c].seen \subseteq p.events
      /\ p.state = "shown" /\ ~p.retried /\ loop[c].state \in {"idle", "aborted", "ended"} =>
           p.run.version > 0 \/ \E n \in p.events : EndsRun(story[n])

PageInv == PageTypeOK /\ StreamInv /\ RowInv /\ \A c \in Clients : ShownInv(c)

=============================================================================
