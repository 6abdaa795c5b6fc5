----------------------------- MODULE CasePages -----------------------------
(***************************************************************************)
(* The pages of the loan cases (intake, detail, comparison) with the       *)
(* handlers behind them: CasesService.create, RunsService.create and       *)
(* RunsService.createComparison up to the dispatch of each run to the AI   *)
(* service.  A start request may be refused, time out, or time out and be  *)
(* taken all the same.  What a run does after it started is the business   *)
(* of RunLifecycle: here it only reports its first event.                  *)
(***************************************************************************)
EXTENDS Pages

CONSTANTS Cases,         \* registration numbers: a case is known by it
          Known,         \* the cases that exist from the start
          MaxRuns,       \* bound: the rows of workflow_runs
          MaxTurns       \* bound: page loads, submissions and changes of the case

VARIABLES casePage,      \* the signals of the component; loadError is that of the case detail only
          reads,         \* getCase and listCases awaiting an answer
          call,          \* the POST of the page being handled, or NULL
          registered,    \* the rows of loan_cases
          runRows,       \* the rows of workflow_runs, oldest first
          turns,
          moved          \* history: the selection was last changed while a comparison ran

ASSUME KnownAreCases == Known \subseteq Cases
\* The request of a page: which handler serves it, how far it is, and the starts of its runs.
Calls == [op : {"case", "run", "comparison"}, of : Cases,
          step : {"asked", "sent", "done", "failed"}, runs : Seq(Nat),
          starts : Seq({"awaited", "fulfilled", "rejected", "recorded"})]

ASSUME NullIsNoCall == NULL \notin Calls
ASSUME RunsAssumption == MaxRuns \in Nat
ASSUME NullIsNoError == NULL \notin {"cases", "action"}

caseVars == <<casePage, reads, call, registered, runRows, turns, moved>>

Modes == [run |-> <<"MULTI">>, comparison |-> <<"SINGLE", "MULTI">>]

Turn == turns < MaxTurns /\ turns' = turns + 1
Reading(op, c) == reads' = reads \cup {[n |-> NextNumber(reads), op |-> op, of |-> c]}

CasePagesInit ==
    /\ registered = Known /\ runRows = <<>>
    /\ call = NULL /\ turns = 0 /\ moved = FALSE
    /\ \E kind \in {"intake", "detail", "comparison"}, c \in Cases :
         /\ casePage = [kind |-> kind, at |-> IF kind = "comparison" THEN NULL ELSE c,
                        shown |-> NULL, loading |-> kind # "intake", busy |-> FALSE,
                        loadError |-> FALSE, error |-> NULL, result |-> NULL]
         /\ reads = IF kind = "intake" THEN {}
                    ELSE {IF kind = "detail" THEN [n |-> 1, op |-> "get", of |-> c]
                          ELSE [n |-> 1, op |-> "list", of |-> NULL]}

-----------------------------------------------------------------------------
(* Loading *)

\* CaseDetailComponent: the effect of the input caseId, and the retry.
OpenCase ==
    /\ casePage.kind = "detail" /\ CanSend(reads) /\ Turn
    /\ \E c \in Cases :
         /\ c # casePage.at \/ (casePage.loadError /\ ~casePage.loading)
         /\ casePage' = [casePage EXCEPT !.at = c, !.loading = TRUE, !.loadError = FALSE,
                                          !.error = NULL]
         /\ Reading("get", c)
    /\ UNCHANGED <<call, registered, runRows, moved>>

CaseAnswered(r) ==
    /\ r.op = "get" /\ r.of \in registered
    /\ casePage' = [casePage EXCEPT !.shown = r.of, !.loading = FALSE]
    /\ reads' = reads \ {r}
    /\ UNCHANGED <<call, registered, runRows, turns, moved>>

\* The case does not exist, or the request failed.
CaseFailed(r) ==
    /\ r.op = "get"
    /\ casePage' = [casePage EXCEPT !.shown = NULL, !.loading = FALSE, !.loadError = TRUE]
    /\ reads' = reads \ {r}
    /\ UNCHANGED <<call, registered, runRows, turns, moved>>

\* ComparisonComponent.loadCases keeps the selection if the case is still there.
CasesAnswered(r) ==
    /\ r.op = "list"
    /\ casePage' = [casePage EXCEPT !.shown = registered, !.loading = FALSE,
                      !.at = IF @ \in registered THEN @
                             ELSE IF registered = {} THEN NULL ELSE CHOOSE c \in registered : TRUE,
                      !.result = IF casePage.at \in registered THEN @ ELSE NULL]
    /\ reads' = reads \ {r}
    /\ UNCHANGED <<call, registered, runRows, turns, moved>>

CasesFailed(r) ==
    /\ r.op = "list"
    /\ casePage' = [casePage EXCEPT !.shown = {}, !.loading = FALSE, !.error = "cases"]
    /\ reads' = reads \ {r}
    /\ UNCHANGED <<call, registered, runRows, turns, moved>>

RetryCases ==
    /\ casePage.kind = "comparison" /\ casePage.error = "cases" /\ ~casePage.loading
    /\ CanSend(reads) /\ Turn
    /\ casePage' = [casePage EXCEPT !.loading = TRUE, !.error = NULL]
    /\ Reading("list", NULL)
    /\ UNCHANGED <<call, registered, runRows, moved>>

-----------------------------------------------------------------------------
(* What the user sends *)

Post(op, c) == call' = [op |-> op, of |-> c, step |-> "asked", runs |-> <<>>, starts |-> <<>>]
NoCall == casePage.busy = FALSE /\ call = NULL

\* CaseIntakeComponent: every change of the form, and the fixtures; a form the schema refuses
\* is NULL.
UpdateInput ==
    /\ casePage.kind = "intake" /\ Turn
    /\ \E c \in (Cases \cup {NULL}) \ {casePage.at} : casePage' = [casePage EXCEPT !.at = c]
    /\ UNCHANGED <<reads, call, registered, runRows, moved>>

SubmitCase ==
    /\ casePage.kind = "intake" /\ casePage.at # NULL /\ NoCall /\ Turn
    /\ casePage' = [casePage EXCEPT !.busy = TRUE, !.error = NULL]
    /\ Post("case", casePage.at)
    /\ UNCHANGED <<reads, registered, runRows, moved>>

\* CaseDetailComponent.startRun: the button is there as long as any case is shown, and the
\* run is one of the case in the route.  It clears actionError and leaves loadError.
StartRun ==
    /\ casePage.kind = "detail" /\ casePage.shown # NULL /\ NoCall /\ Turn
    /\ casePage' = [casePage EXCEPT !.busy = TRUE, !.error = NULL]
    /\ Post("run", casePage.at)
    /\ UNCHANGED <<reads, registered, runRows, moved>>

\* ComparisonComponent.selectCase: the select stays enabled while a comparison runs.
SelectionKeepingResult(page, c) == [page EXCEPT !.at = c, !.error = NULL]
Selection(page, c) == [page EXCEPT !.at = c, !.error = NULL, !.result = NULL]
SelectCase ==
    /\ casePage.kind = "comparison" /\ ~casePage.loading /\ casePage.error # "cases" /\ Turn
    /\ \E c \in casePage.shown \ {casePage.at} : casePage' = Selection(casePage, c)
    /\ moved' = casePage.busy
    /\ UNCHANGED <<reads, call, registered, runRows>>

Compare ==
    /\ casePage.kind = "comparison" /\ ~casePage.loading /\ casePage.error # "cases"
    /\ casePage.at # NULL /\ NoCall /\ Turn
    /\ casePage' = [casePage EXCEPT !.busy = TRUE, !.error = NULL]
    /\ Post("comparison", casePage.at)
    /\ UNCHANGED <<reads, registered, runRows, moved>>

-----------------------------------------------------------------------------
(* What the backend does of it *)

Handling(step) == call # NULL /\ call.step = step

\* CasesService.create: registration numbers are unique.
CreateCase ==
    /\ Handling("asked") /\ call.op = "case"
    /\ IF call.of \in registered
       THEN call' = [call EXCEPT !.step = "failed"] /\ UNCHANGED registered
       ELSE /\ call' = [call EXCEPT !.step = "done"]
            /\ registered' = registered \cup {call.of}
    /\ UNCHANGED <<casePage, reads, runRows, turns, moved>>

\* requireEntity, then one transaction writes the snapshot, the run or both runs with their
\* comparison, and the audit entry; then every run is sent to the AI service.
CreateRuns ==
    /\ Handling("asked") /\ call.op \in DOMAIN Modes /\ call.of \in registered
    /\ LET modes == Modes[call.op] IN
       /\ Len(runRows) + Len(modes) <= MaxRuns
       /\ runRows' = runRows \o [i \in DOMAIN modes |->
                        [case |-> call.of, mode |-> modes[i], status |-> "PENDING",
                         taken |-> FALSE]]
       /\ call' = [call EXCEPT !.step = "sent",
                               !.runs = [i \in DOMAIN modes |-> Len(runRows) + i],
                               !.starts = [i \in DOMAIN modes |-> "awaited"]]
    /\ UNCHANGED <<casePage, reads, registered, turns, moved>>

\* The AI service takes the run, perhaps after the request timed out.
RunTaken(i) ==
    /\ call # NULL /\ i \in DOMAIN call.runs /\ ~runRows[call.runs[i]].taken
    /\ runRows' = [runRows EXCEPT ![call.runs[i]].taken = TRUE]
    /\ UNCHANGED <<casePage, reads, call, registered, turns, moved>>

\* The runner of a run that was taken records its first event.
RunReports(r) ==
    /\ runRows[r].taken /\ runRows[r].status = "PENDING"
    /\ runRows' = [runRows EXCEPT ![r].status = "STARTED"]
    /\ UNCHANGED <<casePage, reads, call, registered, turns, moved>>

StartSettles(i) ==
    /\ Handling("sent") /\ i \in DOMAIN call.starts /\ call.starts[i] = "awaited"
    /\ \/ /\ runRows[call.runs[i]].taken
          /\ call' = [call EXCEPT !.starts[i] = "fulfilled"]
       \/ call' = [call EXCEPT !.starts[i] = "rejected"]
    /\ UNCHANGED <<casePage, reads, registered, runRows, turns, moved>>

\* All starts have settled (allSettled), and the first rejected one is next.
Settled == Handling("sent") /\ \A i \in DOMAIN call.starts : call.starts[i] # "awaited"
Next1stRejected(i) ==
    /\ Settled /\ i \in DOMAIN call.starts /\ call.starts[i] = "rejected"
    /\ \A j \in 1..(i - 1) : call.starts[j] # "rejected"

\* recordDispatchFailure: run.failed as event 1, or a conflict with the event 1 of the runner.
DispatchFailureRecorded(i) ==
    /\ Next1stRejected(i)
    /\ LET r == call.runs[i] IN
       runRows' = IF runRows[r].status = "PENDING"
                  THEN [runRows EXCEPT ![r].status = "FAILED"] ELSE runRows
    /\ call' = [call EXCEPT !.starts[i] = "recorded"]
    /\ UNCHANGED <<casePage, reads, registered, turns, moved>>

\* Any other error of the recording ends the request; a second failure is never recorded.
RecordErrorIgnored(i) == [call EXCEPT !.starts[i] = "recorded"]
RecordError(i) == [call EXCEPT !.step = "failed"]
DispatchFailureLost(i) ==
    /\ Next1stRejected(i)
    /\ call' = RecordError(i)
    /\ UNCHANGED <<casePage, reads, registered, runRows, turns, moved>>

RunsReturned ==
    /\ Settled /\ \A i \in DOMAIN call.starts : call.starts[i] # "rejected"
    /\ call' = [call EXCEPT !.step = "done"]
    /\ UNCHANGED <<casePage, reads, registered, runRows, turns, moved>>

\* The page has its answer: it goes to the case or to the run, or shows the comparison.
Answered ==
    /\ Handling("done")
    /\ casePage' = [casePage EXCEPT !.busy = FALSE, !.result = [of |-> call.of, runs |-> call.runs]]
    /\ call' = NULL
    /\ UNCHANGED <<reads, registered, runRows, turns, moved>>

\* The request failed or its answer was lost; the handler is not followed any further.
CallFailed ==
    /\ call # NULL
    /\ casePage' = [casePage EXCEPT !.busy = FALSE, !.error = "action"]
    /\ call' = NULL
    /\ UNCHANGED <<reads, registered, runRows, turns, moved>>

CasePagesNext ==
    \/ OpenCase \/ RetryCases \/ UpdateInput \/ SubmitCase \/ StartRun \/ SelectCase \/ Compare
    \/ \E r \in reads : CaseAnswered(r) \/ CaseFailed(r) \/ CasesAnswered(r) \/ CasesFailed(r)
    \/ CreateCase \/ CreateRuns \/ RunsReturned \/ Answered \/ CallFailed
    \/ \E i \in 1..2 : RunTaken(i) \/ StartSettles(i)
                       \/ DispatchFailureRecorded(i) \/ DispatchFailureLost(i)
    \/ \E r \in DOMAIN runRows : RunReports(r)

-----------------------------------------------------------------------------
(* Properties *)

CasePagesTypeOK ==
    /\ casePage.at \in Cases \cup {NULL}
    /\ registered \subseteq Cases /\ Len(runRows) <= MaxRuns
    /\ \A i \in DOMAIN runRows : runRows[i].status \in {"PENDING", "STARTED", "FAILED"}
    /\ casePage.result # NULL => \A i \in DOMAIN casePage.result.runs :
                                    casePage.result.runs[i] \in DOMAIN runRows

\* The user is told that runs were started only if each of them was taken by the AI service or
\* is recorded as failed: a run that stays PENDING for good is never acknowledged, however the
\* two dispatches of a comparison and the records of their failures turn out.
AcknowledgedRunIsDispatched ==
    casePage.result # NULL =>
        \A i \in DOMAIN casePage.result.runs :
            LET run == runRows[casePage.result.runs[i]] IN run.taken \/ run.status = "FAILED"

\* The comparison shown is one of the selected case, unless another case was selected while
\* the comparison ran: its answer is shown all the same (selectCase, compare).
ComparisonIsOfSelection ==
    (casePage.kind = "comparison" /\ casePage.result # NULL /\ ~moved) =>
        casePage.result.of = casePage.at
=============================================================================
