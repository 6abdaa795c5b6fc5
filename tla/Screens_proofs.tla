--------------------------- MODULE Screens_proofs ---------------------------
(***************************************************************************)
(* Proofs about Screens, for any set of cases, customers and dates and any *)
(* number of requests in flight.  Each page has an invariant of its own.   *)
(***************************************************************************)
EXTENDS Screens, TLAPS, SequenceTheorems, FiniteSetTheorems

-----------------------------------------------------------------------------
(* The pages of the cases and the handlers behind them.                    *)

RunRow == [case : Cases, mode : {"SINGLE", "MULTI"},
           status : {"PENDING", "STARTED", "FAILED"}, taken : BOOLEAN]
Results == [of : Cases, runs : Seq(Nat)]

ShownCases == (SUBSET Cases) \cup Cases \cup {NULL}
Page == [kind : {"intake", "detail", "comparison"}, at : Cases \cup {NULL},
         shown : ShownCases, loading : BOOLEAN, busy : BOOLEAN,
         loadError : BOOLEAN, error : {NULL, "cases", "action"}, result : Results \cup {NULL}]

CaseTypes ==
  /\ casePage \in Page
  /\ casePage.kind = "detail" => casePage.at \in Cases
  /\ registered \subseteq Cases
  /\ runRows \in Seq(RunRow)
  /\ call \in Calls \cup {NULL}
  /\ moved \in BOOLEAN

(* A run that reports was taken.                                           *)
OnlyTakenReport == \A r \in DOMAIN runRows : runRows[r].status = "STARTED" => runRows[r].taken

Safe(r) == r \in DOMAIN runRows /\ (runRows[r].taken \/ runRows[r].status = "FAILED")

(* What the handler knows of the starts it sent is so.                     *)
CallKnows ==
  call # NULL =>
    /\ DOMAIN call.starts = DOMAIN call.runs
    /\ call.step = "asked" => DOMAIN call.runs = {}
    /\ \A i \in DOMAIN call.runs :
         /\ call.runs[i] \in DOMAIN runRows
         /\ call.starts[i] \in {"fulfilled", "recorded"} => Safe(call.runs[i])
         /\ call.step = "done" => Safe(call.runs[i])

ResultKnows ==
  casePage.result # NULL => \A i \in DOMAIN casePage.result.runs : Safe(casePage.result.runs[i])

(* The page of the comparison reads one list at a time and none while it    *)
(* compares; what it compares, and what it shows, is of the selected case. *)
OneSelection ==
  /\ \A r \in reads : r.op = "list" <=> casePage.kind = "comparison"
  /\ casePage.kind = "comparison" =>
       /\ \A r, q \in reads : r = q
       /\ ~casePage.loading => reads = {} /\ casePage.shown \subseteq Cases
       /\ call # NULL => ~casePage.loading /\ casePage.error # "cases" /\ casePage.busy
       /\ ~moved /\ call # NULL => call.of = casePage.at
       /\ ~moved /\ casePage.result # NULL => casePage.result.of = casePage.at

(* A page that waits has a request in flight.                              *)
CaseWaits == casePage.busy => call # NULL

CaseInv == CaseTypes /\ OnlyTakenReport /\ CallKnows /\ ResultKnows /\ OneSelection /\ CaseWaits

LEMMA CallIsNone == \A c \in Calls : c # NULL
  BY NullIsNoCall

LEMMA CaseInitInv == CasePagesInit => CaseInv
<1>. SUFFICES ASSUME CasePagesInit
              PROVE  CaseInv
  OBVIOUS
<1>1. PICK kind \in {"intake", "detail", "comparison"}, c \in Cases :
        /\ casePage = [kind |-> kind, at |-> IF kind = "comparison" THEN NULL ELSE c,
                       shown |-> NULL, loading |-> kind # "intake", busy |-> FALSE,
                       loadError |-> FALSE, error |-> NULL, result |-> NULL]
        /\ reads = IF kind = "intake" THEN {}
                   ELSE {IF kind = "detail" THEN [n |-> 1, op |-> "get", of |-> c]
                         ELSE [n |-> 1, op |-> "list", of |-> NULL]}
  BY DEF CasePagesInit
<1>2. /\ registered = Known /\ runRows = <<>> /\ call = NULL /\ moved = FALSE
  BY DEF CasePagesInit
<1>3. CaseTypes
  <2>1. runRows \in Seq(RunRow)
    BY <1>2, EmptySeq
  <2>2. casePage.at \in Cases \cup {NULL} /\ (kind = "detail" => casePage.at \in Cases)
    BY <1>1
  <2>3. casePage \in Page
    <3>1. NULL \in ShownCases
      BY DEF ShownCases
    <3>2. (kind # "intake") \in BOOLEAN
      OBVIOUS
    <3>. QED
      BY <1>1, <2>2, <3>1, <3>2 DEF Page
  <2>. QED
    BY <1>1, <1>2, <2>1, <2>2, <2>3, KnownAreCases DEF CaseTypes
<1>4. OneSelection
  <2>1. casePage.kind = kind /\ casePage.loading = (kind # "intake") /\ casePage.result = NULL
    BY <1>1
  <2>2. CASE kind = "comparison"
    <3>1. reads = {[n |-> 1, op |-> "list", of |-> NULL]} /\ casePage.loading
      BY <1>1, <2>1, <2>2
    <3>. QED
      BY <1>2, <2>1, <2>2, <3>1 DEF OneSelection
  <2>3. CASE kind # "comparison"
    BY <1>1, <2>1, <2>3 DEF OneSelection
  <2>. QED
    BY <2>2, <2>3
<1>5. CaseWaits
  BY <1>1 DEF CaseWaits
<1>. QED
  BY <1>1, <1>2, <1>3, <1>4, <1>5 DEF CaseInv, OnlyTakenReport, CallKnows, ResultKnows

(* What the pages read and select leaves the runs and the request alone.   *)
LEMMA PageStep ==
  ASSUME CaseInv, UNCHANGED <<call, registered, runRows>>,
         casePage' \in Page, casePage'.kind = casePage.kind, casePage'.busy = casePage.busy,
         moved' \in BOOLEAN,
         casePage.kind = "detail" => casePage'.at \in Cases,
         casePage'.result \in {casePage.result, NULL},
         OneSelection'
  PROVE  CaseInv'
<1>1. CaseTypes'
  BY DEF CaseInv, CaseTypes
<1>2. OnlyTakenReport' /\ CallKnows'
  BY DEF CaseInv, OnlyTakenReport, CallKnows, Safe
<1>3. ResultKnows'
  BY DEF CaseInv, ResultKnows, Safe
<1>4. CaseWaits'
  BY DEF CaseInv, CaseWaits
<1>. QED
  BY <1>1, <1>2, <1>3, <1>4 DEF CaseInv

LEMMA OpensCase ==
  ASSUME CaseInv, OpenCase
  PROVE  CaseInv'
<1>1. PICK c \in Cases :
        /\ casePage' = [casePage EXCEPT !.at = c, !.loading = TRUE, !.loadError = FALSE,
                                         !.error = NULL]
        /\ reads' = reads \cup {[n |-> NextNumber(reads), op |-> "get", of |-> c]}
  BY DEF OpenCase, Reading
<1>2. /\ casePage.kind = "detail" /\ casePage \in Page
      /\ UNCHANGED <<call, registered, runRows, moved>>
  BY DEF OpenCase, CaseInv, CaseTypes
<1>3. /\ casePage' \in Page /\ casePage'.kind = casePage.kind /\ casePage'.at = c
      /\ casePage'.busy = casePage.busy
      /\ casePage'.result = casePage.result
  BY <1>1, <1>2 DEF Page
<1>4. OneSelection'
  BY <1>1, <1>2, <1>3 DEF CaseInv, OneSelection
<1>. QED
  BY <1>2, <1>3, <1>4, PageStep DEF CaseInv, CaseTypes

LEMMA CaseSettles ==
  ASSUME CaseInv, NEW r \in reads, CaseAnswered(r) \/ CaseFailed(r)
  PROVE  CaseInv'
<1>1. /\ r.op = "get" /\ reads' = reads \ {r}
      /\ UNCHANGED <<call, registered, runRows, moved>>
  BY DEF CaseAnswered, CaseFailed
<1>2. casePage.kind # "comparison" /\ casePage \in Page
  BY <1>1 DEF CaseInv, CaseTypes, OneSelection
<1>3. /\ casePage' \in Page /\ casePage'.kind = casePage.kind
      /\ casePage'.busy = casePage.busy
      /\ casePage'.at = casePage.at /\ casePage'.result = casePage.result
  <2>1. CASE CaseAnswered(r)
    <3>1. casePage' = [casePage EXCEPT !.shown = r.of, !.loading = FALSE] /\ r.of \in ShownCases
      BY <2>1 DEF CaseAnswered, CaseInv, CaseTypes, ShownCases
    <3>. QED
      BY <1>2, <3>1 DEF Page
  <2>2. CASE CaseFailed(r)
    <3>1. /\ casePage' = [casePage EXCEPT !.shown = NULL, !.loading = FALSE, !.loadError = TRUE]
          /\ NULL \in ShownCases
      BY <2>2 DEF CaseFailed, ShownCases
    <3>. QED
      BY <1>2, <3>1 DEF Page
  <2>. QED
    BY <2>1, <2>2
<1>4. OneSelection'
  BY <1>1, <1>2, <1>3 DEF CaseInv, OneSelection
<1>. QED
  BY <1>1, <1>2, <1>3, <1>4, PageStep DEF CaseInv, CaseTypes

LEMMA ListSettles ==
  ASSUME CaseInv, NEW r \in reads, CasesAnswered(r) \/ CasesFailed(r)
  PROVE  CaseInv'
<1>1. /\ r.op = "list" /\ reads' = reads \ {r}
      /\ UNCHANGED <<call, registered, runRows, moved>>
  BY DEF CasesAnswered, CasesFailed
<1>2. /\ casePage.kind = "comparison" /\ casePage \in Page /\ reads' = {}
      /\ registered \subseteq Cases /\ call = NULL
  BY <1>1 DEF CaseInv, CaseTypes, OneSelection
<1>3. CASE CasesAnswered(r)
  <2>1. PICK at \in Cases \cup {NULL}, result \in {casePage.result, NULL} :
          /\ casePage' = [casePage EXCEPT !.shown = registered, !.loading = FALSE,
                                          !.at = at, !.result = result]
          /\ at = casePage.at \/ result = NULL
    <3>1. CASE casePage.at \in registered
      <4>1. casePage' = [casePage EXCEPT !.shown = registered, !.loading = FALSE,
                                        !.at = casePage.at, !.result = casePage.result]
        BY <1>3, <3>1 DEF CasesAnswered
      <4>. QED
        BY <1>2, <3>1, <4>1
    <3>2. CASE casePage.at \notin registered
      <4>. DEFINE at == IF registered = {} THEN NULL ELSE CHOOSE c \in registered : TRUE
      <4>1. at \in Cases \cup {NULL}
        BY <1>2
      <4>2. casePage' = [casePage EXCEPT !.shown = registered, !.loading = FALSE,
                                        !.at = at, !.result = NULL]
        BY <1>3, <3>2 DEF CasesAnswered
      <4>. QED
        BY <4>1, <4>2
    <3>. QED
      BY <3>1, <3>2
  <2>2. registered \in ShownCases
    BY <1>2 DEF ShownCases
  <2>3. result \in Results \cup {NULL}
    BY <1>2 DEF Page
  <2>4. /\ casePage' \in Page /\ casePage'.kind = casePage.kind
        /\ casePage'.busy = casePage.busy
        /\ casePage'.shown = registered
        /\ casePage'.at = at /\ casePage'.result = result
    BY <1>2, <2>1, <2>2, <2>3 DEF Page
  <2>5. OneSelection'
    BY <1>1, <1>2, <2>1, <2>4 DEF CaseInv, OneSelection
  <2>. QED
    BY <1>1, <1>2, <2>4, <2>5, PageStep DEF CaseInv, CaseTypes
<1>4. CASE CasesFailed(r)
  <2>1. /\ casePage' = [casePage EXCEPT !.shown = {}, !.loading = FALSE, !.error = "cases"]
        /\ {} \in ShownCases
    BY <1>4 DEF CasesFailed, ShownCases
  <2>2. /\ casePage' \in Page /\ casePage'.kind = casePage.kind
        /\ casePage'.busy = casePage.busy
        /\ casePage'.shown = {}
        /\ casePage'.at = casePage.at /\ casePage'.result = casePage.result
    BY <1>2, <2>1 DEF Page
  <2>3. OneSelection'
    BY <1>1, <1>2, <2>2 DEF CaseInv, OneSelection
  <2>. QED
    BY <1>1, <1>2, <2>2, <2>3, PageStep DEF CaseInv, CaseTypes
<1>. QED
  BY <1>3, <1>4

(* RetryCases, UpdateInput and SelectCase.                                 *)
LEMMA Turns ==
  ASSUME CaseInv, RetryCases \/ UpdateInput \/ SelectCase
  PROVE  CaseInv'
<1>1. casePage \in Page /\ UNCHANGED <<call, registered, runRows>>
  BY DEF CaseInv, CaseTypes, RetryCases, UpdateInput, SelectCase
<1>2. CASE RetryCases
  <2>1. /\ casePage' = [casePage EXCEPT !.loading = TRUE, !.error = NULL]
        /\ casePage.kind = "comparison" /\ casePage.error = "cases" /\ ~casePage.loading
        /\ reads' = reads \cup {[n |-> NextNumber(reads), op |-> "list", of |-> NULL]}
        /\ UNCHANGED moved
    BY <1>2 DEF RetryCases, Reading
  <2>2. /\ casePage' \in Page /\ casePage'.kind = casePage.kind /\ casePage'.loading
        /\ casePage'.busy = casePage.busy
        /\ casePage'.at = casePage.at /\ casePage'.result = casePage.result
    BY <1>1, <2>1 DEF Page
  <2>3. reads = {} /\ call = NULL
    BY <2>1 DEF CaseInv, OneSelection
  <2>4. OneSelection'
    BY <1>1, <2>1, <2>2, <2>3 DEF CaseInv, OneSelection
  <2>. QED
    BY <1>1, <2>1, <2>2, <2>4, PageStep DEF CaseInv, CaseTypes
<1>3. CASE UpdateInput
  <2>1. PICK c \in Cases \cup {NULL} : casePage' = [casePage EXCEPT !.at = c]
    BY <1>3 DEF UpdateInput
  <2>2. casePage.kind = "intake" /\ UNCHANGED <<reads, moved>>
    BY <1>3 DEF UpdateInput
  <2>3. /\ casePage' \in Page /\ casePage'.kind = casePage.kind
        /\ casePage'.busy = casePage.busy
        /\ casePage'.result = casePage.result
    BY <1>1, <2>1 DEF Page
  <2>4. OneSelection'
    BY <2>2, <2>3 DEF CaseInv, OneSelection
  <2>. QED
    BY <1>1, <2>2, <2>3, <2>4, PageStep DEF CaseInv, CaseTypes
<1>4. CASE SelectCase
  <2>1. /\ casePage.kind = "comparison" /\ ~casePage.loading /\ casePage.error # "cases"
        /\ moved' = casePage.busy /\ UNCHANGED reads
    BY <1>4 DEF SelectCase
  <2>2. PICK c \in casePage.shown :
          casePage' = [casePage EXCEPT !.at = c, !.error = NULL, !.result = NULL]
    BY <1>4 DEF SelectCase, Selection
  <2>3. c \in Cases
    BY <2>1, <2>2 DEF CaseInv, OneSelection
  <2>4. /\ casePage' \in Page /\ casePage'.kind = casePage.kind
        /\ casePage'.busy = casePage.busy
        /\ casePage'.shown = casePage.shown
        /\ casePage'.result = NULL /\ casePage'.busy = casePage.busy
        /\ casePage'.loading = casePage.loading /\ casePage'.error = NULL
    BY <1>1, <2>2, <2>3 DEF Page
  <2>5. ~casePage.busy => call = NULL
    BY <2>1 DEF CaseInv, OneSelection
  <2>6. NULL # "cases"
    BY NullIsNoError
  <2>7. moved' = FALSE => call' = NULL
    BY <1>1, <2>1, <2>5
  <2>8. \A r \in reads' : r.op = "list" <=> casePage'.kind = "comparison"
    BY <2>1, <2>4 DEF CaseInv, OneSelection
  <2>9. /\ \A r, q \in reads' : r = q
        /\ reads' = {} /\ casePage'.shown \subseteq Cases
        /\ call' # NULL => ~casePage'.loading /\ casePage'.error # "cases" /\ casePage'.busy
    BY <1>1, <2>1, <2>4, <2>5, <2>6 DEF CaseInv, OneSelection
  <2>10. moved' \in BOOLEAN
    BY <1>1, <2>1 DEF Page
  <2>11. OneSelection'
    BY <1>1, <2>4, <2>7, <2>8, <2>9, <2>10 DEF OneSelection
  <2>. QED
    BY <1>1, <2>1, <2>4, <2>10, <2>11, PageStep DEF CaseInv, CaseTypes
<1>. QED
  BY <1>2, <1>3, <1>4

(* SubmitCase, StartRun and Compare.                                       *)
LEMMA Posts ==
  ASSUME CaseInv, SubmitCase \/ StartRun \/ Compare
  PROVE  CaseInv'
<1>1. /\ casePage' = [casePage EXCEPT !.busy = TRUE, !.error = NULL] /\ casePage \in Page
      /\ UNCHANGED <<reads, registered, runRows, moved>> /\ casePage.at \in Cases
      /\ casePage.kind = "comparison" => ~casePage.loading
  BY DEF SubmitCase, StartRun, Compare, CaseInv, CaseTypes, Page
<1>2. PICK op \in {"case", "run", "comparison"} :
        call' = [op |-> op, of |-> casePage.at, step |-> "asked", runs |-> <<>>, starts |-> <<>>]
  BY DEF SubmitCase, StartRun, Compare, Post
<1>3. call' \in Calls
  <2>1. \A S : <<>> \in Seq(S)
    BY EmptySeq
  <2>. QED
    BY <1>1, <1>2, <2>1 DEF Calls
<1>4. /\ casePage' \in Page /\ casePage'.kind = casePage.kind /\ casePage'.at = casePage.at
      /\ casePage'.result = casePage.result /\ casePage'.loading = casePage.loading
      /\ casePage'.shown = casePage.shown /\ casePage'.busy /\ casePage'.error = NULL
  BY <1>1 DEF Page
<1>5. CaseTypes'
  BY <1>1, <1>3, <1>4 DEF CaseInv, CaseTypes
<1>6. OnlyTakenReport' /\ ResultKnows'
  BY <1>1, <1>4 DEF CaseInv, OnlyTakenReport, ResultKnows, Safe
<1>7. CallKnows'
  BY <1>2 DEF CallKnows
<1>8. OneSelection'
  <2>1. NULL # "cases" /\ call'.of = casePage.at
    BY <1>2, NullIsNoError
  <2>. QED
    BY <1>1, <1>4, <2>1 DEF CaseInv, OneSelection
<1>9. CaseWaits'
  BY <1>3, CallIsNone DEF CaseWaits
<1>. QED
  BY <1>5, <1>6, <1>7, <1>8, <1>9 DEF CaseInv

-----------------------------------------------------------------------------
(* A step of the handlers: the rows only grow, what was taken or failed    *)
(* stays so, and the request is the same one.                              *)
RowsGrow ==
  \A r \in DOMAIN runRows :
    /\ r \in DOMAIN runRows'
    /\ runRows[r].taken => runRows'[r].taken
    /\ runRows[r].status = "FAILED" => runRows'[r].status = "FAILED"

LEMMA HandlerStep ==
  ASSUME CaseInv, RowsGrow, UNCHANGED <<casePage, reads, moved>>,
         registered' \subseteq Cases, runRows' \in Seq(RunRow), OnlyTakenReport',
         call' # NULL => call # NULL /\ call' \in Calls /\ call'.of = call.of,
         call # NULL => call' # NULL,
         CallKnows'
  PROVE  CaseInv'
<1>1. CaseTypes'
  BY DEF CaseInv, CaseTypes
<1>2. \A r : Safe(r) => Safe(r)'
  BY DEF Safe, RowsGrow
<1>3. ResultKnows'
  BY <1>2 DEF CaseInv, ResultKnows
<1>4. OneSelection'
  BY DEF CaseInv, OneSelection
<1>5. CaseWaits'
  BY DEF CaseInv, CaseWaits
<1>. QED
  BY <1>1, <1>3, <1>4, <1>5 DEF CaseInv

(* The handler goes on to its next step, of a case or of a run.            *)
LEMMA HandlerGoesOn ==
  ASSUME CaseInv, call # NULL, NEW step \in {"failed", "done"},
         call' = [call EXCEPT !.step = step],
         UNCHANGED <<casePage, reads, runRows, moved>>, registered' \subseteq Cases,
         step = "done" => \A i \in DOMAIN call.runs : Safe(call.runs[i])
  PROVE  CaseInv'
<1>1. call \in Calls /\ runRows \in Seq(RunRow)
  BY DEF CaseInv, CaseTypes
<1>2. /\ call' \in Calls /\ call'.of = call.of /\ call'.runs = call.runs
      /\ call'.starts = call.starts /\ call'.step = step
  BY <1>1 DEF Calls
<1>3. CallKnows'
  BY <1>2 DEF CaseInv, CallKnows, Safe
<1>4. RowsGrow /\ OnlyTakenReport'
  BY DEF RowsGrow, CaseInv, OnlyTakenReport
<1>. QED
  BY <1>1, <1>2, <1>3, <1>4, HandlerStep, CallIsNone

LEMMA CreatesCase ==
  ASSUME CaseInv, CreateCase
  PROVE  CaseInv'
<1>1. /\ call # NULL /\ call \in Calls /\ registered \subseteq Cases
      /\ UNCHANGED <<casePage, reads, runRows, moved>>
      /\ DOMAIN call.runs = {}
  BY DEF CreateCase, Handling, CaseInv, CaseTypes, CallKnows
<1>2. registered' \subseteq Cases
  BY <1>1 DEF CreateCase, Calls
<1>3. PICK step \in {"failed", "done"} : call' = [call EXCEPT !.step = step]
  BY DEF CreateCase
<1>. QED
  BY <1>1, <1>2, <1>3, HandlerGoesOn

(* Every start has settled, and no rejected one is left: each run is safe. *)
LEMMA ReturnsRuns ==
  ASSUME CaseInv, RunsReturned \/ \E i \in 1..2 : DispatchFailureLost(i)
  PROVE  CaseInv'
<1>1. /\ call # NULL /\ call \in Calls /\ registered' \subseteq Cases
      /\ UNCHANGED <<casePage, reads, runRows, moved>>
  BY DEF RunsReturned, DispatchFailureLost, Next1stRejected, Settled, Handling, CaseInv, CaseTypes
<1>2. CASE RunsReturned
  <2>1. /\ call' = [call EXCEPT !.step = "done"]
        /\ \A i \in DOMAIN call.starts : call.starts[i] \notin {"awaited", "rejected"}
    BY <1>2 DEF RunsReturned, Settled
  <2>2. \A i \in DOMAIN call.starts : call.starts[i] \in {"fulfilled", "recorded"}
    BY <1>1, <2>1 DEF Calls
  <2>3. \A i \in DOMAIN call.runs : Safe(call.runs[i])
    BY <1>1, <2>2 DEF CaseInv, CallKnows
  <2>. QED
    BY <1>1, <2>1, <2>3, HandlerGoesOn
<1>3. CASE \E i \in 1..2 : DispatchFailureLost(i)
  <2>1. call' = [call EXCEPT !.step = "failed"]
    BY <1>3 DEF DispatchFailureLost, RecordError
  <2>. QED
    BY <1>1, <2>1, HandlerGoesOn
<1>. QED
  BY <1>2, <1>3

LEMMA RowsAppended ==
  ASSUME NEW rows \in Seq(RunRow), NEW k \in Nat, NEW new \in [1..k -> RunRow]
  PROVE  /\ rows \o new \in Seq(RunRow)
         /\ DOMAIN (rows \o new) = 1..(Len(rows) + k)
         /\ Len(rows) \in Nat /\ DOMAIN rows = 1..Len(rows)
         /\ \A r \in 1..Len(rows) : (rows \o new)[r] = rows[r]
         /\ \A r \in 1..(Len(rows) + k) : r > Len(rows) => (rows \o new)[r] = new[r - Len(rows)]
<1>1. new \in Seq(RunRow) /\ Len(new) = k
  <2>1. new \in Seq(RunRow)
    BY SeqDef
  <2>. QED
    BY <2>1, LenProperties
<1>2. Len(rows) \in Nat /\ DOMAIN rows = 1..Len(rows)
  BY LenProperties
<1>3. /\ rows \o new \in Seq(RunRow) /\ Len(rows \o new) = Len(rows) + k
      /\ \A i \in 1..(Len(rows) + k) :
           (rows \o new)[i] = IF i <= Len(rows) THEN rows[i] ELSE new[i - Len(rows)]
  BY <1>1, ConcatProperties
<1>4. DOMAIN (rows \o new) = 1..(Len(rows) + k)
  BY <1>3, LenProperties
<1>. QED
  BY <1>2, <1>3, <1>4

(* One or two rows, and a start awaited for each.                          *)
LEMMA CreatesRuns ==
  ASSUME CaseInv, CreateRuns
  PROVE  CaseInv'
<1>1. /\ call # NULL /\ call \in Calls /\ call.op \in {"run", "comparison"}
      /\ UNCHANGED <<casePage, reads, registered, moved>>
      /\ runRows \in Seq(RunRow) /\ registered \subseteq Cases
  BY DEF CreateRuns, Handling, Modes, CaseInv, CaseTypes
<1>. DEFINE modes == Modes[call.op]
<1>2. PICK k \in Nat : modes \in [1..k -> {"SINGLE", "MULTI"}]
  <2>1. CASE call.op = "run"
    <3>1. <<"MULTI">> \in [1..1 -> {"SINGLE", "MULTI"}]
      OBVIOUS
    <3>2. Modes[call.op] = <<"MULTI">>
      BY <2>1 DEF Modes
    <3>. QED
      BY <3>1, <3>2, 1 \in Nat
  <2>2. CASE call.op = "comparison"
    <3>1. <<"SINGLE", "MULTI">> \in [1..2 -> {"SINGLE", "MULTI"}]
      OBVIOUS
    <3>2. Modes[call.op] = <<"SINGLE", "MULTI">>
      BY <2>2 DEF Modes
    <3>. QED
      BY <3>1, <3>2, 2 \in Nat
  <2>. QED
    BY <1>1, <2>1, <2>2
<1>. DEFINE new == [i \in DOMAIN modes |->
                      [case |-> call.of, mode |-> modes[i], status |-> "PENDING", taken |-> FALSE]]
            runs == [i \in DOMAIN modes |-> Len(runRows) + i]
            starts == [i \in DOMAIN modes |-> "awaited"]
<1>3. /\ runRows' = runRows \o new
      /\ call' = [call EXCEPT !.step = "sent", !.runs = runs, !.starts = starts]
  BY DEF CreateRuns
<1>. HIDE DEF modes
<1>4. /\ new \in [1..k -> RunRow]
      /\ \A i \in 1..k : new[i].status = "PENDING"
  BY <1>1, <1>2 DEF RunRow, Calls
<1>. HIDE DEF new
<1>5. /\ runRows' \in Seq(RunRow) /\ DOMAIN runRows' = 1..(Len(runRows) + k)
      /\ Len(runRows) \in Nat /\ DOMAIN runRows = 1..Len(runRows)
      /\ \A r \in DOMAIN runRows : runRows'[r] = runRows[r]
      /\ \A r \in DOMAIN runRows' \ DOMAIN runRows : runRows'[r] = new[r - Len(runRows)]
  BY <1>1, <1>3, <1>4, RowsAppended
<1>6. RowsGrow
  BY <1>5 DEF RowsGrow
<1>7. OnlyTakenReport'
  <2>1. ASSUME NEW r \in DOMAIN runRows', runRows'[r].status = "STARTED"
        PROVE  runRows'[r].taken
    <3>1. CASE r \in DOMAIN runRows
      BY <2>1, <3>1, <1>5 DEF CaseInv, OnlyTakenReport
    <3>2. CASE r \notin DOMAIN runRows
      <4>1. r - Len(runRows) \in 1..k /\ runRows'[r] = new[r - Len(runRows)]
        BY <2>1, <3>2, <1>5
      <4>. QED
        BY <2>1, <4>1, <1>4
    <3>. QED
      BY <3>1, <3>2
  <2>. QED
    BY <2>1 DEF OnlyTakenReport
<1>8. /\ runs \in Seq(Nat) /\ DOMAIN runs = 1..k
      /\ starts \in Seq({"awaited", "fulfilled", "rejected", "recorded"}) /\ DOMAIN starts = 1..k
  <2>1. runs \in [1..k -> Nat] /\ starts \in [1..k -> {"awaited", "fulfilled", "rejected", "recorded"}]
    BY <1>2, <1>5
  <2>. QED
    BY <2>1, SeqDef
<1>9. \A i \in 1..k : runs[i] \in DOMAIN runRows' /\ starts[i] = "awaited"
  BY <1>2, <1>5
<1>. HIDE DEF runs, starts
<1>10. /\ call' \in Calls /\ call'.of = call.of /\ call'.step = "sent"
       /\ call'.runs = runs /\ call'.starts = starts
  BY <1>1, <1>3, <1>8 DEF Calls
<1>11. CallKnows'
  BY <1>8, <1>9, <1>10 DEF CallKnows
<1>. QED
  BY <1>1, <1>5, <1>6, <1>7, <1>10, <1>11, HandlerStep, CallIsNone

(* A run is taken, or reports, or is recorded as failed: its row changes.  *)
LEMMA RowChanges ==
  ASSUME CaseInv, NEW r \in DOMAIN runRows, NEW row \in RunRow,
         runRows' = [runRows EXCEPT ![r] = row],
         runRows[r].taken => row.taken,
         runRows[r].status = "FAILED" => row.status = "FAILED",
         row.status = "STARTED" => row.taken
  PROVE  /\ RowsGrow /\ OnlyTakenReport' /\ runRows' \in Seq(RunRow)
         /\ DOMAIN runRows' = DOMAIN runRows /\ runRows'[r] = row
         /\ \A q \in DOMAIN runRows \ {r} : runRows'[q] = runRows[q]
<1>1. runRows \in Seq(RunRow)
  BY DEF CaseInv, CaseTypes
<1>2. r \in 1..Len(runRows)
  BY <1>1, LenProperties
<1>3. runRows' \in Seq(RunRow)
  BY <1>1, <1>2, ExceptSeq
<1>4. /\ DOMAIN runRows' = DOMAIN runRows /\ runRows'[r] = row
      /\ \A q \in DOMAIN runRows \ {r} : runRows'[q] = runRows[q]
  OBVIOUS
<1>5. RowsGrow
  BY <1>4 DEF RowsGrow
<1>6. OnlyTakenReport'
  BY <1>4 DEF CaseInv, OnlyTakenReport
<1>. QED
  BY <1>3, <1>4, <1>5, <1>6

LEMMA RunsGoOn ==
  ASSUME CaseInv, NEW r \in DOMAIN runRows, NEW row \in RunRow,
         runRows' = [runRows EXCEPT ![r] = row],
         runRows[r].taken => row.taken,
         runRows[r].status = "FAILED" => row.status = "FAILED",
         row.status = "STARTED" => row.taken,
         UNCHANGED <<casePage, reads, call, registered, moved>>
  PROVE  CaseInv'
<1>1. /\ RowsGrow /\ OnlyTakenReport' /\ runRows' \in Seq(RunRow)
  BY RowChanges
<1>2. \A q : Safe(q) => Safe(q)'
  BY <1>1 DEF Safe, RowsGrow
<1>3. CallKnows'
  BY <1>1, <1>2 DEF CaseInv, CallKnows, RowsGrow
<1>. QED
  BY <1>1, <1>3, HandlerStep DEF CaseInv, CaseTypes

LEMMA TakesAndReports ==
  ASSUME CaseInv, (\E i \in 1..2 : RunTaken(i)) \/ (\E r \in DOMAIN runRows : RunReports(r))
  PROVE  CaseInv'
<1>1. UNCHANGED <<casePage, reads, call, registered, moved>> /\ runRows \in Seq(RunRow)
  BY DEF RunTaken, RunReports, CaseInv, CaseTypes
<1>2. PICK r \in DOMAIN runRows :
        \/ runRows' = [runRows EXCEPT ![r].taken = TRUE]
        \/ runRows' = [runRows EXCEPT ![r].status = "STARTED"] /\ runRows[r].taken
           /\ runRows[r].status = "PENDING"
  BY DEF RunTaken, RunReports, CaseInv, CallKnows
<1>3. runRows[r] \in RunRow
  BY <1>1, LenProperties, ElementOfSeq
<1>4. CASE runRows' = [runRows EXCEPT ![r].taken = TRUE]
  <2>. DEFINE row == [runRows[r] EXCEPT !.taken = TRUE]
  <2>1. row \in RunRow /\ row.taken /\ row.status = runRows[r].status
    BY <1>3 DEF RunRow
  <2>2. runRows' = [runRows EXCEPT ![r] = row]
    BY <1>4
  <2>. QED
    BY <1>1, <2>1, <2>2, RunsGoOn
<1>5. CASE /\ runRows' = [runRows EXCEPT ![r].status = "STARTED"]
           /\ runRows[r].taken /\ runRows[r].status = "PENDING"
  <2>. DEFINE row == [runRows[r] EXCEPT !.status = "STARTED"]
  <2>1. row \in RunRow /\ row.taken /\ row.status = "STARTED"
    BY <1>3, <1>5 DEF RunRow
  <2>2. runRows' = [runRows EXCEPT ![r] = row]
    BY <1>5
  <2>. QED
    BY <1>1, <1>5, <2>1, <2>2, RunsGoOn
<1>. QED
  BY <1>2, <1>4, <1>5

(* A start that settles, or whose failure is recorded.                     *)
LEMMA StartChanges ==
  ASSUME CaseInv, call # NULL, NEW i \in DOMAIN call.starts,
         NEW start \in {"fulfilled", "rejected", "recorded"},
         call.step = "sent", call' = [call EXCEPT !.starts[i] = start],
         UNCHANGED <<casePage, reads, registered, moved>>,
         RowsGrow, OnlyTakenReport', runRows' \in Seq(RunRow),
         start \in {"fulfilled", "recorded"} => Safe(call.runs[i])'
  PROVE  CaseInv'
<1>1. call \in Calls /\ DOMAIN call.starts = DOMAIN call.runs
  BY DEF CaseInv, CaseTypes, CallKnows
<1>. DEFINE starts == [call.starts EXCEPT ![i] = start]
<1>2. /\ starts \in Seq({"awaited", "fulfilled", "rejected", "recorded"})
      /\ DOMAIN starts = DOMAIN call.starts /\ starts[i] = start
      /\ \A j \in DOMAIN starts \ {i} : starts[j] = call.starts[j]
  <2>1. call.starts \in Seq({"awaited", "fulfilled", "rejected", "recorded"})
    BY <1>1 DEF Calls
  <2>2. i \in 1..Len(call.starts)
    BY <2>1, LenProperties
  <2>. QED
    BY <2>1, <2>2, ExceptSeq
<1>3. call' = [call EXCEPT !.starts = starts]
  OBVIOUS
<1>. HIDE DEF starts
<1>4. /\ call' \in Calls /\ call'.of = call.of /\ call'.runs = call.runs
      /\ call'.starts = starts /\ call'.step = "sent"
  BY <1>1, <1>2, <1>3 DEF Calls
<1>5. \A q : Safe(q) => Safe(q)'
  BY DEF Safe, RowsGrow
<1>6. ASSUME NEW j \in DOMAIN call.runs
      PROVE  /\ call.runs[j] \in DOMAIN runRows'
             /\ starts[j] \in {"fulfilled", "recorded"} => Safe(call.runs[j])'
  <2>1. call.runs[j] \in DOMAIN runRows'
    BY DEF CaseInv, CallKnows, RowsGrow
  <2>2. CASE j = i
    BY <1>2, <1>4, <2>1, <2>2 DEF Safe
  <2>3. CASE j # i
    <3>1. starts[j] \in {"fulfilled", "recorded"} => Safe(call.runs[j])
      BY <1>1, <1>2, <2>3 DEF CaseInv, CallKnows
    <3>. QED
      BY <1>4, <2>1, <3>1 DEF Safe, RowsGrow
  <2>. QED
    BY <2>2, <2>3
<1>7. CallKnows'
  BY <1>1, <1>2, <1>4, <1>6 DEF CallKnows, Safe
<1>. QED
  BY <1>4, <1>7, HandlerStep, CallIsNone DEF CaseInv, CaseTypes

LEMMA Settling ==
  ASSUME CaseInv, NEW i \in 1..2, StartSettles(i)
  PROVE  CaseInv'
<1>1. /\ call # NULL /\ call.step = "sent" /\ i \in DOMAIN call.starts
      /\ UNCHANGED <<casePage, reads, registered, runRows, moved>>
      /\ runRows \in Seq(RunRow)
  BY DEF StartSettles, Handling, CaseInv, CaseTypes
<1>2. RowsGrow /\ OnlyTakenReport'
  BY <1>1 DEF RowsGrow, CaseInv, OnlyTakenReport
<1>3. call.runs[i] \in DOMAIN runRows
  BY <1>1 DEF CaseInv, CallKnows
<1>4. CASE runRows[call.runs[i]].taken /\ call' = [call EXCEPT !.starts[i] = "fulfilled"]
  <2>1. call'.runs = call.runs
    BY <1>1, <1>4 DEF CaseInv, CaseTypes, Calls
  <2>2. Safe(call.runs[i])'
    BY <1>1, <1>3, <1>4, <2>1 DEF Safe
  <2>. QED
    BY <1>1, <1>2, <1>4, <2>2, StartChanges
<1>5. CASE call' = [call EXCEPT !.starts[i] = "rejected"]
  BY <1>1, <1>2, <1>5, StartChanges
<1>. QED
  BY <1>4, <1>5 DEF StartSettles

(* After the record of the failure the run is FAILED, or the record met    *)
(* the event of a runner that has it.                                      *)
LEMMA Recording ==
  ASSUME CaseInv, NEW i \in 1..2, DispatchFailureRecorded(i)
  PROVE  CaseInv'
<1>. DEFINE r == call.runs[i]
<1>1. /\ call # NULL /\ call.step = "sent" /\ i \in DOMAIN call.starts
      /\ UNCHANGED <<casePage, reads, registered, moved>>
      /\ call' = [call EXCEPT !.starts[i] = "recorded"]
      /\ runRows \in Seq(RunRow) /\ call \in Calls
  BY DEF DispatchFailureRecorded, Next1stRejected, Settled, Handling, CaseInv, CaseTypes
<1>2. r \in DOMAIN runRows /\ call'.runs = call.runs
  BY <1>1 DEF CaseInv, CallKnows, Calls
<1>3. runRows[r] \in RunRow
  BY <1>1, <1>2, LenProperties, ElementOfSeq
<1>4. RowsGrow /\ OnlyTakenReport' /\ runRows' \in Seq(RunRow) /\ Safe(r)'
  <2>1. CASE runRows[r].status = "PENDING"
    <3>. DEFINE row == [runRows[r] EXCEPT !.status = "FAILED"]
    <3>1. row \in RunRow /\ row.status = "FAILED" /\ row.taken = runRows[r].taken
      BY <1>3 DEF RunRow
    <3>2. runRows' = [runRows EXCEPT ![r] = row]
      BY <2>1 DEF DispatchFailureRecorded
    <3>. HIDE DEF row
    <3>3. /\ RowsGrow /\ OnlyTakenReport' /\ runRows' \in Seq(RunRow)
          /\ DOMAIN runRows' = DOMAIN runRows /\ runRows'[r] = row
      BY <1>2, <3>1, <3>2, RowChanges
    <3>. QED
      BY <1>2, <3>1, <3>3 DEF Safe
  <2>2. CASE runRows[r].status # "PENDING"
    <3>1. UNCHANGED runRows
      BY <2>2 DEF DispatchFailureRecorded
    <3>2. Safe(r)
      BY <1>2, <1>3, <2>2 DEF CaseInv, OnlyTakenReport, Safe, RunRow
    <3>. QED
      BY <1>1, <1>2, <3>1, <3>2 DEF RowsGrow, CaseInv, OnlyTakenReport, Safe
  <2>. QED
    BY <2>1, <2>2
<1>. QED
  BY <1>1, <1>2, <1>4, StartChanges

(* The page has its answer, or will not have it.                           *)
LEMMA Ends ==
  ASSUME CaseInv, Answered \/ CallFailed
  PROVE  CaseInv'
<1>1. /\ call # NULL /\ call' = NULL /\ UNCHANGED <<reads, registered, runRows, moved>>
      /\ call \in Calls /\ casePage \in Page
  BY DEF Answered, CallFailed, Handling, CaseInv, CaseTypes
<1>2. CASE Answered
  <2>. DEFINE result == [of |-> call.of, runs |-> call.runs]
  <2>1. casePage' = [casePage EXCEPT !.busy = FALSE, !.result = result] /\ call.step = "done"
    BY <1>2 DEF Answered, Handling
  <2>2. result \in Results /\ result.of = call.of /\ result.runs = call.runs
    BY <1>1 DEF Results, Calls
  <2>. HIDE DEF result
  <2>3. /\ casePage' \in Page /\ casePage'.kind = casePage.kind /\ casePage'.at = casePage.at
        /\ casePage'.result = result /\ casePage'.shown = casePage.shown
        /\ casePage'.loading = casePage.loading /\ ~casePage'.busy
    BY <1>1, <2>1, <2>2 DEF Page
  <2>4. CaseTypes'
    BY <1>1, <2>3 DEF CaseInv, CaseTypes
  <2>5. ResultKnows'
    BY <1>1, <2>1, <2>2, <2>3 DEF CaseInv, CallKnows, ResultKnows, Safe
  <2>6. OneSelection'
    BY <1>1, <2>2, <2>3 DEF CaseInv, OneSelection
  <2>. QED
    BY <1>1, <2>3, <2>4, <2>5, <2>6 DEF CaseInv, OnlyTakenReport, CallKnows, CaseWaits
<1>3. CASE CallFailed
  <2>1. casePage' = [casePage EXCEPT !.busy = FALSE, !.error = "action"]
    BY <1>3 DEF CallFailed
  <2>2. /\ casePage' \in Page /\ casePage'.kind = casePage.kind /\ casePage'.at = casePage.at
        /\ casePage'.result = casePage.result /\ casePage'.shown = casePage.shown
        /\ casePage'.loading = casePage.loading /\ ~casePage'.busy
    BY <1>1, <2>1 DEF Page
  <2>3. CaseTypes'
    BY <1>1, <2>2 DEF CaseInv, CaseTypes
  <2>4. ResultKnows' /\ OneSelection'
    BY <1>1, <2>2 DEF CaseInv, ResultKnows, OneSelection, Safe
  <2>. QED
    BY <1>1, <2>2, <2>3, <2>4 DEF CaseInv, OnlyTakenReport, CallKnows, CaseWaits
<1>. QED
  BY <1>2, <1>3

LEMMA CaseStep ==
  ASSUME CaseInv, [CasePagesNext]_caseVars
  PROVE  CaseInv'
<1>1. CASE UNCHANGED caseVars
  <2>1. UNCHANGED <<casePage, reads, call, registered, runRows, moved>>
    BY <1>1 DEF caseVars
  <2>2. OneSelection'
    BY <2>1 DEF CaseInv, OneSelection
  <2>. QED
    BY <2>1, <2>2 DEF CaseInv, CaseTypes, OnlyTakenReport, CallKnows, ResultKnows, CaseWaits, Safe
<1>2. CASE CasePagesNext
  BY <1>2, OpensCase, CaseSettles, ListSettles, Turns, Posts, CreatesCase, CreatesRuns,
     ReturnsRuns, TakesAndReports, Settling, Recording, Ends DEF CasePagesNext
<1>. QED
  BY <1>1, <1>2

-----------------------------------------------------------------------------
(* The page of a customer.                                                 *)

SectionsOrNone == [of : Visited, seen : Int] \cup {NULL}
ShownCustomer == [customer : Visited \cup {NULL}, assessment : SectionsOrNone,
                  notes : SectionsOrNone, audit : SectionsOrNone]
CustomerSignals ==
  [shown : ShownCustomer, route : Visited \cup {"invalid"}, loading : BOOLEAN, error : BOOLEAN,
   status : Statuses, product : BOOLEAN, reason : BOOLEAN, noteText : BOOLEAN,
   notice : {NULL, "feedback failed", "feedback recorded", "note saved", "note failed"}]

(* Every request in flight is about a customer the user opened.            *)
CustomerInv ==
  /\ cpage \in CustomerSignals
  /\ \A l \in loads : l.of \in Visited
  /\ posting # NULL =>
       /\ posting.step \in {"post", "recorded", "refresh"}
       /\ posting.step # "refresh" => posting \in [step : {"post", "recorded"}, of : Visited]
       /\ posting.step = "refresh" => posting.of \in Visited /\ posting.about \in Visited
  /\ noting # NULL =>
       /\ noting.step \in {"post", "recorded", "refresh"}
       /\ noting.step # "refresh" => noting \in [step : {"post", "recorded"}, of : Visited]
       /\ noting.step = "refresh" => noting.of \in Visited

LEMMA SectionTypes ==
  /\ NULL \in SectionsOrNone
  /\ Unlisted \in ShownCustomer
  /\ \A c \in Visited, n \in Int : Section(c, n) \in SectionsOrNone /\ Section(c, n).of = c
  BY DEF SectionsOrNone, Unlisted, ShownCustomer, Section

LEMMA CustomerInitInv == CustomerPageInit => CustomerInv
<1>. SUFFICES ASSUME CustomerPageInit
              PROVE  CustomerInv
  OBVIOUS
<1>1. PICK c \in Visited :
        /\ cpage = [shown |-> Unlisted, route |-> c, loading |-> TRUE, error |-> FALSE,
                    status |-> "other", product |-> FALSE, reason |-> FALSE,
                    noteText |-> FALSE, notice |-> NULL]
        /\ loads = {[n |-> 1, of |-> c, step |-> "customer"]}
  BY DEF CustomerPageInit
<1>2. cpage \in CustomerSignals
  BY <1>1, SectionTypes DEF CustomerSignals, Statuses
<1>. QED
  BY <1>1, <1>2 DEF CustomerPageInit, CustomerInv

(* What a turn of the page must be: to another customer only as a whole.   *)
Turned == cpage'.shown.customer # cpage.shown.customer =>
            \A s \in {cpage'.shown.assessment, cpage'.shown.notes, cpage'.shown.audit} :
               s = NULL \/ s.of = cpage'.shown.customer

(* A step that leaves what is shown.                                       *)
LEMMA KeepsShown ==
  ASSUME CustomerInv, UNCHANGED <<posting, noting>>,
         \A l \in loads' : l.of \in Visited,
         cpage' \in CustomerSignals, cpage'.shown = cpage.shown
  PROVE  CustomerInv' /\ Turned
  BY DEF CustomerInv, Turned

LEMMA Loads ==
  ASSUME CustomerInv, OpenCustomer \/ RetryLoad \/ \E l \in loads : CustomerAnswered(l)
  PROVE  CustomerInv' /\ Turned
<1>1. cpage \in CustomerSignals /\ UNCHANGED <<posting, noting>>
  BY DEF CustomerInv, OpenCustomer, RetryLoad, CustomerAnswered
<1>2. ASSUME NEW c \in Visited \cup {"invalid"}, loads' = LoadSent(c)
      PROVE  \A l \in loads' : l.of \in Visited
  BY <1>2 DEF LoadSent, CustomerInv
<1>3. CASE OpenCustomer
  <2>1. PICK c \in Visited \cup {"invalid"} :
          /\ cpage' = LoadStarted([cpage EXCEPT !.route = c], c)
          /\ loads' = LoadSent(c)
    BY <1>3 DEF OpenCustomer
  <2>2. cpage' \in CustomerSignals /\ cpage'.shown = cpage.shown
    <3>1. (c # "invalid") \in BOOLEAN /\ (c = "invalid") \in BOOLEAN
      OBVIOUS
    <3>. QED
      BY <1>1, <2>1, <3>1 DEF LoadStarted, CustomerSignals
  <2>. QED
    BY <1>1, <1>2, <2>1, <2>2, KeepsShown
<1>4. CASE RetryLoad
  <2>1. /\ cpage' = LoadStarted(cpage, cpage.route) /\ loads' = LoadSent(cpage.route)
        /\ cpage.route \in Visited \cup {"invalid"}
    BY <1>1, <1>4 DEF RetryLoad, CustomerSignals
  <2>2. cpage' \in CustomerSignals /\ cpage'.shown = cpage.shown
    BY <1>1, <2>1 DEF LoadStarted, CustomerSignals
  <2>. QED
    BY <1>1, <1>2, <2>1, <2>2, KeepsShown
<1>5. CASE \E l \in loads : CustomerAnswered(l)
  <2>1. UNCHANGED cpage /\ \A l \in loads' : l.of \in Visited
    BY <1>5 DEF CustomerAnswered, CustomerInv
  <2>. QED
    BY <1>1, <2>1, KeepsShown
<1>. QED
  BY <1>3, <1>4, <1>5

(* The answers of a load show one customer, and a failure shows none.      *)
LEMMA LoadEnds ==
  ASSUME CustomerInv, NEW l \in loads, RestAnswered(l) \/ LoadFailed(l)
  PROVE  CustomerInv' /\ Turned
<1>1. /\ cpage \in CustomerSignals /\ UNCHANGED <<posting, noting>> /\ l.of \in Visited
      /\ \A k \in loads' : k.of \in Visited
  BY DEF CustomerInv, RestAnswered, LoadFailed
<1>2. CASE RestAnswered(l)
  <2>1. PICK a, t \in l.since.feedback..desk[l.of].feedback,
             m \in l.since.notes..desk[l.of].notes :
          cpage' = [cpage EXCEPT !.loading = FALSE, !.product = l.of \in Recommended,
                     !.shown = [customer |-> l.of, assessment |-> Section(l.of, a),
                                notes |-> Section(l.of, m),
                                audit |-> TraceOf(l.of, t)]]
    BY <1>2 DEF RestAnswered
  <2>2. TraceOf(l.of, t) \in {NULL, Section(l.of, t)}
    BY DEF TraceOf
  <2>. DEFINE shown == [customer |-> l.of, assessment |-> Section(l.of, a),
                        notes |-> Section(l.of, m), audit |-> TraceOf(l.of, t)]
  <2>. a \in Int /\ t \in Int /\ m \in Int
    OBVIOUS
  <2>3. shown \in ShownCustomer
    BY <1>1, <2>2, SectionTypes DEF ShownCustomer
  <2>4. \A s \in {shown.assessment, shown.notes, shown.audit} : s = NULL \/ s.of = shown.customer
    BY <1>1, <2>2, SectionTypes
  <2>. HIDE DEF shown
  <2>5. cpage' \in CustomerSignals /\ cpage'.shown = shown
    <3>1. (l.of \in Recommended) \in BOOLEAN
      OBVIOUS
    <3>2. cpage' = [cpage EXCEPT !.loading = FALSE, !.product = l.of \in Recommended,
                                 !.shown = shown]
      BY <2>1 DEF shown
    <3>. QED
      BY <1>1, <2>3, <3>1, <3>2 DEF CustomerSignals
  <2>. QED
    BY <1>1, <2>4, <2>5 DEF CustomerInv, Turned
<1>3. CASE LoadFailed(l)
  <2>1. cpage' = [cpage EXCEPT !.loading = FALSE, !.error = TRUE, !.shown = Unlisted]
    BY <1>3 DEF LoadFailed, AfterFailure
  <2>2. cpage' \in CustomerSignals /\ cpage'.shown = Unlisted
    BY <1>1, <2>1, SectionTypes DEF CustomerSignals
  <2>3. \A s \in {Unlisted.assessment, Unlisted.notes, Unlisted.audit} : s = NULL
    BY DEF Unlisted
  <2>. QED
    BY <1>1, <2>2, <2>3 DEF CustomerInv, Turned
<1>. QED
  BY <1>2, <1>3

(* What the user types and chooses.                                        *)
LEMMA Edits ==
  ASSUME CustomerInv,
         SetFeedbackStatus \/ SetFeedbackProduct \/ UpdateRejectReason \/ UpdateNoteText
  PROVE  CustomerInv' /\ Turned
<1>1. cpage \in CustomerSignals /\ UNCHANGED <<loads, posting, noting>>
  BY DEF CustomerInv, SetFeedbackStatus, SetFeedbackProduct, UpdateRejectReason, UpdateNoteText
<1>2. cpage' \in CustomerSignals /\ cpage'.shown = cpage.shown
  <2>1. CASE SetFeedbackStatus
    <3>1. PICK st \in Statuses :
            cpage' = [cpage EXCEPT !.status = st, !.reason = cpage.reason /\ st = "rejected"]
      BY <2>1 DEF SetFeedbackStatus
    <3>2. (cpage.reason /\ st = "rejected") \in BOOLEAN
      OBVIOUS
    <3>. QED
      BY <1>1, <3>1, <3>2 DEF CustomerSignals
  <2>2. CASE SetFeedbackProduct
    BY <1>1, <2>2 DEF SetFeedbackProduct, CustomerSignals
  <2>3. CASE UpdateRejectReason
    BY <1>1, <2>3 DEF UpdateRejectReason, CustomerSignals
  <2>4. CASE UpdateNoteText
    BY <1>1, <2>4 DEF UpdateNoteText, CustomerSignals
  <2>. QED
    BY <2>1, <2>2, <2>3, <2>4
<1>. QED
  BY <1>1, <1>2, KeepsShown DEF CustomerInv

(* Feedback: the refresh changes two sections, never the customer.         *)
LEMMA GivesFeedback ==
  ASSUME CustomerInv,
         SubmitFeedback \/ FeedbackRecorded \/ FeedbackAnswered \/ RefreshAnswered \/ FeedbackFailed
  PROVE  CustomerInv' /\ Turned
<1>1. cpage \in CustomerSignals /\ UNCHANGED <<loads, noting>>
  BY DEF CustomerInv, SubmitFeedback, FeedbackRecorded, FeedbackAnswered, RefreshAnswered,
         FeedbackFailed
<1>2. cpage.shown \in ShownCustomer
  BY <1>1 DEF CustomerSignals
<1>3. CASE SubmitFeedback
  <2>1. /\ posting' = [step |-> "post", of |-> cpage.shown.customer] /\ UNCHANGED cpage
        /\ cpage.shown.customer \in Visited
    BY <1>2, <1>3 DEF SubmitFeedback, Visible, ShownCustomer
  <2>. QED
    BY <1>1, <2>1 DEF CustomerInv, Turned
<1>4. CASE FeedbackRecorded
  <2>1. /\ posting' = [posting EXCEPT !.step = "recorded"] /\ UNCHANGED cpage
        /\ posting \in [step : {"post", "recorded"}, of : Visited]
    BY <1>4 DEF FeedbackRecorded, CustomerInv
  <2>. QED
    BY <1>1, <2>1 DEF CustomerInv, Turned
<1>5. CASE FeedbackAnswered
  <2>1. posting.of \in Visited
    BY <1>5 DEF FeedbackAnswered, CustomerInv
  <2>2. PICK notice \in {"feedback failed", "feedback recorded"} :
          cpage' = [cpage EXCEPT !.reason = FALSE, !.notice = notice]
    BY <1>5 DEF FeedbackAnswered
  <2>3. cpage' \in CustomerSignals /\ cpage'.shown = cpage.shown
    BY <1>1, <2>2 DEF CustomerSignals
  <2>4. PICK rows, own :
          \/ posting' = NULL
          \/ /\ cpage.shown.customer # NULL
             /\ posting' = [step |-> "refresh", of |-> posting.of,
                            about |-> cpage.shown.customer, rows |-> rows, own |-> own]
    BY <1>5 DEF FeedbackAnswered
  <2>5. cpage.shown.customer \in Visited \cup {NULL}
    BY <1>2 DEF ShownCustomer
  <2>6. posting' # NULL => /\ posting'.step = "refresh" /\ posting'.of = posting.of
                           /\ posting'.about \in Visited
    <3>1. CASE posting' = NULL
      BY <3>1
    <3>2. CASE posting' # NULL
      <4>1. posting' = [step |-> "refresh", of |-> posting.of,
                        about |-> cpage.shown.customer, rows |-> rows, own |-> own]
        BY <3>2, <2>4
      <4>2. cpage.shown.customer \in Visited
        BY <3>2, <2>4, <2>5
      <4>. QED
        BY <4>1, <4>2
    <3>. QED
      BY <3>1, <3>2
  <2>. QED
    BY <1>1, <2>1, <2>3, <2>6 DEF CustomerInv, Turned
<1>6. CASE RefreshAnswered
  <2>1. PICK a \in posting.rows..desk[posting.about].feedback,
             t \in posting.own..desk[posting.of].feedback :
          cpage' = [cpage EXCEPT !.shown.assessment = Section(posting.about, a),
                                 !.shown.audit = Section(posting.of, t)]
    BY <1>6 DEF RefreshAnswered
  <2>2. posting.about \in Visited /\ posting.of \in Visited /\ posting' = NULL
    BY <1>6 DEF RefreshAnswered, CustomerInv
  <2>. DEFINE shown == [cpage.shown EXCEPT !.assessment = Section(posting.about, a),
                                           !.audit = Section(posting.of, t)]
  <2>. a \in Int /\ t \in Int
    OBVIOUS
  <2>3. shown \in ShownCustomer /\ shown.customer = cpage.shown.customer
    BY <1>2, <2>2, SectionTypes DEF ShownCustomer
  <2>4. cpage' = [cpage EXCEPT !.shown = shown]
    BY <1>1, <1>2, <2>1 DEF CustomerSignals, ShownCustomer
  <2>. HIDE DEF shown
  <2>5. cpage' \in CustomerSignals /\ cpage'.shown = shown
    BY <1>1, <2>3, <2>4 DEF CustomerSignals
  <2>. QED
    BY <1>1, <2>2, <2>3, <2>5 DEF CustomerInv, Turned
<1>7. CASE FeedbackFailed
  <2>1. cpage' = [cpage EXCEPT !.notice = "feedback failed"] /\ posting' = NULL
    BY <1>7 DEF FeedbackFailed
  <2>2. cpage' \in CustomerSignals /\ cpage'.shown = cpage.shown
    BY <1>1, <2>1 DEF CustomerSignals
  <2>. QED
    BY <1>1, <2>1, <2>2 DEF CustomerInv, Turned
<1>. QED
  BY <1>3, <1>4, <1>5, <1>6, <1>7

(* Notes: the refresh changes one section.                                 *)
LEMMA WritesNote ==
  ASSUME CustomerInv,
         SaveNote \/ NoteRecorded \/ NoteAnswered \/ NotesRefreshed \/ NoteFailed
  PROVE  CustomerInv' /\ Turned
<1>1. cpage \in CustomerSignals /\ UNCHANGED <<loads, posting>>
  BY DEF CustomerInv, SaveNote, NoteRecorded, NoteAnswered, NotesRefreshed, NoteFailed
<1>2. cpage.shown \in ShownCustomer
  BY <1>1 DEF CustomerSignals
<1>3. CASE SaveNote
  <2>1. /\ noting' = [step |-> "post", of |-> cpage.shown.customer] /\ UNCHANGED cpage
        /\ cpage.shown.customer \in Visited
    BY <1>2, <1>3 DEF SaveNote, Visible, ShownCustomer
  <2>. QED
    BY <1>1, <2>1 DEF CustomerInv, Turned
<1>4. CASE NoteRecorded
  <2>1. /\ noting' = [noting EXCEPT !.step = "recorded"] /\ UNCHANGED cpage
        /\ noting \in [step : {"post", "recorded"}, of : Visited]
    BY <1>4 DEF NoteRecorded, CustomerInv
  <2>. QED
    BY <1>1, <2>1 DEF CustomerInv, Turned
<1>5. CASE NoteAnswered
  <2>1. noting.of \in Visited
    BY <1>5 DEF NoteAnswered, CustomerInv
  <2>2. PICK rows : noting' = [step |-> "refresh", of |-> noting.of, rows |-> rows]
    BY <1>5 DEF NoteAnswered
  <2>3. cpage' = [cpage EXCEPT !.noteText = FALSE]
    BY <1>5 DEF NoteAnswered
  <2>4. cpage' \in CustomerSignals /\ cpage'.shown = cpage.shown
    BY <1>1, <2>3 DEF CustomerSignals
  <2>. QED
    BY <1>1, <2>1, <2>2, <2>4 DEF CustomerInv, Turned
<1>6. CASE NotesRefreshed
  <2>1. PICK m \in noting.rows..desk[noting.of].notes :
          cpage' = [cpage EXCEPT !.shown.notes = Section(noting.of, m), !.notice = "note saved"]
    BY <1>6 DEF NotesRefreshed
  <2>2. noting.of \in Visited /\ noting' = NULL
    BY <1>6 DEF NotesRefreshed, CustomerInv
  <2>. m \in Int
    OBVIOUS
  <2>. DEFINE shown == [cpage.shown EXCEPT !.notes = Section(noting.of, m)]
  <2>3. shown \in ShownCustomer /\ shown.customer = cpage.shown.customer
    BY <1>2, <2>2, SectionTypes DEF ShownCustomer
  <2>4. cpage' = [cpage EXCEPT !.shown = shown, !.notice = "note saved"]
    BY <1>1, <1>2, <2>1 DEF CustomerSignals, ShownCustomer
  <2>. HIDE DEF shown
  <2>5. cpage' \in CustomerSignals /\ cpage'.shown = shown
    BY <1>1, <2>3, <2>4 DEF CustomerSignals
  <2>. QED
    BY <1>1, <2>2, <2>3, <2>5 DEF CustomerInv, Turned
<1>7. CASE NoteFailed
  <2>1. cpage' = [cpage EXCEPT !.notice = "note failed"] /\ noting' = NULL
    BY <1>7 DEF NoteFailed
  <2>2. cpage' \in CustomerSignals /\ cpage'.shown = cpage.shown
    BY <1>1, <2>1 DEF CustomerSignals
  <2>. QED
    BY <1>1, <2>1, <2>2 DEF CustomerInv, Turned
<1>. QED
  BY <1>3, <1>4, <1>5, <1>6, <1>7

LEMMA CustomerStep ==
  ASSUME CustomerInv, [CustomerPageNext]_customerVars
  PROVE  CustomerInv' /\ Turned
<1>1. CASE UNCHANGED customerVars
  BY <1>1 DEF customerVars, CustomerInv, Turned
<1>2. CASE CustomerPageNext
  BY <1>2, Loads, LoadEnds, Edits, GivesFeedback, WritesNote DEF CustomerPageNext
<1>. QED
  BY <1>1, <1>2

-----------------------------------------------------------------------------
(* The pages that show a list.                                             *)

AllInputs == Inputs \cup {Today, "", NULL}
ListSignals == [page : ListPages, input : AllInputs, items : [for : AllInputs] \cup {NULL},
                loading : BOOLEAN, error : BOOLEAN]

(* Until two requests of the call list overlap, the one in flight asks for  *)
(* the date in the field, and so does the list that is shown.              *)
ListInv ==
  /\ list \in ListSignals
  /\ \A a \in asks : a.input \in AllInputs
  /\ list.page = "calls" /\ ~overlap =>
       /\ \A a, b \in asks : a = b
       /\ \A a \in asks : a.input = list.input
       /\ asks = {} /\ ~list.error => list.items.for = list.input

LEMMA ListInitInv == ListInit => ListInv
<1>. SUFFICES ASSUME ListInit
              PROVE  ListInv
  OBVIOUS
<1>1. PICK page \in ListPages :
        /\ list = [page |-> page, input |-> IF page = "calls" THEN Today ELSE "",
                   items |-> NULL, loading |-> TRUE, error |-> FALSE]
        /\ asks = {[n |-> 1, kind |-> "load",
                    input |-> Asked(page, IF page = "calls" THEN Today ELSE "")]}
  BY DEF ListInit
<1>2. list \in ListSignals
  BY <1>1 DEF ListSignals, AllInputs
<1>3. /\ asks = {[n |-> 1, kind |-> "load", input |-> Asked(list.page, list.input)]}
      /\ Asked(list.page, list.input) \in AllInputs
  BY <1>1 DEF Asked, AllInputs
<1>4. list.page = "calls" => Asked(list.page, list.input) = list.input
  BY DEF Asked, Asking
<1>5. asks # {} /\ \A a \in asks : a.input = Asked(list.page, list.input)
  BY <1>3
<1>6. \A a, b \in asks : a = b
  BY <1>3
<1>. QED
  BY <1>2, <1>3, <1>4, <1>5, <1>6 DEF ListInv

(* A page that asks: for the date in its field, if it is the call list.    *)
LEMMA Asks ==
  ASSUME ListInv, list' \in ListSignals, list'.page = list.page, NEW kind, Sends(kind)
  PROVE  ListInv'
<1>1. /\ asks' = asks \cup {Ask(NextNumber(asks), kind)}
      /\ overlap' = (overlap \/ asks # {})
  BY DEF Sends
<1>2. Ask(NextNumber(asks), kind).input = Asked(list.page, list'.input)
  BY DEF Ask
<1>3. Asked(list.page, list'.input) \in AllInputs
  BY DEF Asked, ListSignals, AllInputs
<1>4. list.page = "calls" => Asked(list.page, list'.input) = list'.input
  BY DEF Asked, Asking
<1>5. \A a \in asks' : a.input \in AllInputs
  BY <1>1, <1>2, <1>3 DEF ListInv
<1>6. ASSUME list.page = "calls", ~overlap'
      PROVE  asks' = {Ask(NextNumber(asks), kind)}
  BY <1>1, <1>6
<1>. QED
  BY <1>2, <1>4, <1>5, <1>6 DEF ListInv

LEMMA ListAsks ==
  ASSUME ListInv,
         Reload \/ ChangeDate \/ UpdateQuery \/ ClearSearch \/ RefreshFromTable \/ DocumentAnswered
  PROVE  ListInv'
<1>1. list \in ListSignals
  BY DEF ListInv
<1>2. CASE Reload \/ DocumentAnswered
  <2>1. list' = Loading(list) /\ Sends("load")
    BY <1>2 DEF Reload, DocumentAnswered
  <2>2. list' \in ListSignals /\ list'.page = list.page
    BY <1>1, <2>1 DEF Loading, ListSignals
  <2>. QED
    BY <2>1, <2>2, Asks
<1>3. CASE ChangeDate
  <2>1. PICK input \in AllInputs : list' = Loading([list EXCEPT !.input = input])
    BY <1>3 DEF ChangeDate, DateChanged, AllInputs
  <2>2. list' \in ListSignals /\ list'.page = list.page /\ list'.loading
    BY <1>1, <2>1 DEF Loading, ListSignals
  <2>3. Sends("load")
    BY <1>3, <2>2 DEF ChangeDate
  <2>. QED
    BY <2>2, <2>3, Asks
<1>4. CASE UpdateQuery
  <2>1. PICK input \in AllInputs : list' = [list EXCEPT !.input = input]
    BY <1>4 DEF UpdateQuery, AllInputs
  <2>2. list' \in ListSignals /\ list'.page = list.page /\ list.page # "calls"
    BY <1>1, <1>4, <2>1 DEF UpdateQuery, ListSignals
  <2>3. UNCHANGED <<asks, overlap>>
    BY <1>4 DEF UpdateQuery, Stays
  <2>. QED
    BY <2>2, <2>3 DEF ListInv
<1>5. CASE ClearSearch
  <2>1. list' = Loading([list EXCEPT !.input = ""]) /\ Sends("load")
    BY <1>5 DEF ClearSearch
  <2>2. list' \in ListSignals /\ list'.page = list.page
    BY <1>1, <2>1 DEF Loading, ListSignals, AllInputs
  <2>. QED
    BY <2>1, <2>2, Asks
<1>6. CASE RefreshFromTable
  <2>1. list' = [list EXCEPT !.error = FALSE] /\ Sends("refresh")
    BY <1>6 DEF RefreshFromTable
  <2>2. list' \in ListSignals /\ list'.page = list.page
    BY <1>1, <2>1 DEF ListSignals
  <2>. QED
    BY <2>1, <2>2, Asks
<1>. QED
  BY <1>2, <1>3, <1>4, <1>5, <1>6

(* An answer is shown, and if nothing overlapped it was the only one.      *)
LEMMA ListEnds ==
  ASSUME ListInv, NEW ask \in asks, AskAnswered(ask) \/ AskFailed(ask)
  PROVE  ListInv'
<1>1. /\ list \in ListSignals /\ ask.input \in AllInputs
      /\ asks' = asks \ {ask} /\ UNCHANGED overlap
  BY DEF ListInv, AskAnswered, AskFailed
<1>2. PICK loading \in BOOLEAN : Ended(list, ask) = [list EXCEPT !.loading = loading]
  <2>1. (list.loading /\ ask.kind = "refresh") \in BOOLEAN
    OBVIOUS
  <2>2. Ended(list, ask) = [list EXCEPT !.loading = list.loading /\ ask.kind = "refresh"]
    BY DEF Ended
  <2>. QED
    BY <2>1, <2>2
<1>3. CASE AskAnswered(ask)
  <2>. DEFINE items == [for |-> ask.input]
  <2>1. items \in [for : AllInputs] /\ items.for = ask.input
    BY <1>1
  <2>. HIDE DEF items
  <2>2. list' = [[list EXCEPT !.loading = loading] EXCEPT !.items = items]
    BY <1>2, <1>3 DEF AskAnswered, items
  <2>3. /\ list' \in ListSignals /\ list'.page = list.page /\ list'.input = list.input
        /\ list'.items = items
    BY <1>1, <2>1, <2>2 DEF ListSignals
  <2>. QED
    BY <1>1, <2>1, <2>3 DEF ListInv
<1>4. CASE AskFailed(ask)
  <2>1. PICK items \in {NULL, list.items} :
          list' = [[list EXCEPT !.loading = loading] EXCEPT !.error = TRUE, !.items = items]
    BY <1>1, <1>2, <1>4 DEF AskFailed, ListSignals
  <2>2. /\ list' \in ListSignals /\ list'.page = list.page /\ list'.input = list.input
        /\ list'.error
    BY <1>1, <2>1 DEF ListSignals
  <2>. QED
    BY <1>1, <2>2 DEF ListInv
<1>. QED
  BY <1>3, <1>4

LEMMA ListStep ==
  ASSUME ListInv, [ListNext]_listVars
  PROVE  ListInv'
<1>1. CASE UNCHANGED <<list, asks, overlap>>
  BY <1>1 DEF ListInv
<1>2. CASE OpenDrawer \/ CloseDrawer \/ TypeDocument \/ SubmitDocument \/ DocumentAccepted
           \/ DocumentFailed
  BY <1>1, <1>2 DEF OpenDrawer, CloseDrawer, TypeDocument, SubmitDocument, DocumentAccepted,
                    DocumentFailed
<1>. QED
  BY <1>1, <1>2, ListAsks, ListEnds DEF ListNext, listVars

-----------------------------------------------------------------------------
(* Spinners: whatever ends a request ends the spinner, and what goes on    *)
(* spinning has a request of its own.                                      *)

CustomerSpins == cpage.loading => loads # {}
CaseSpins == casePage.loading => reads # {}
ListSpins == list.loading => \E ask \in asks : ask.kind = "load"

LEMMA CustomerSpinsStep ==
  ASSUME CustomerInv, CustomerSpins, [CustomerPageNext]_customerVars
  PROVE  CustomerSpins'
<1>1. cpage \in CustomerSignals
  BY DEF CustomerInv
<1>2. CASE OpenCustomer
  <2>1. PICK c \in Visited \cup {"invalid"} :
          cpage' = LoadStarted([cpage EXCEPT !.route = c], c) /\ loads' = LoadSent(c)
    BY <1>2 DEF OpenCustomer
  <2>2. cpage'.loading = (c # "invalid")
    BY <1>1, <2>1 DEF LoadStarted, CustomerSignals
  <2>. QED
    BY <2>1, <2>2 DEF LoadSent, CustomerSpins
<1>3. CASE RetryLoad
  <2>1. cpage' = LoadStarted(cpage, cpage.route) /\ loads' = LoadSent(cpage.route)
    BY <1>3 DEF RetryLoad
  <2>2. cpage'.loading = (cpage.route # "invalid")
    BY <1>1, <2>1 DEF LoadStarted, CustomerSignals
  <2>. QED
    BY <2>1, <2>2 DEF LoadSent, CustomerSpins
<1>4. ASSUME NEW l \in loads, CustomerAnswered(l)
      PROVE  CustomerSpins'
  BY <1>4 DEF CustomerAnswered, CustomerSpins
<1>5. ASSUME NEW l \in loads, RestAnswered(l) \/ LoadFailed(l)
      PROVE  CustomerSpins'
  <2>1. ~cpage'.loading
    BY <1>1, <1>5 DEF RestAnswered, LoadFailed, AfterFailure, CustomerSignals
  <2>. QED
    BY <2>1 DEF CustomerSpins
<1>6. CASE SetFeedbackStatus \/ SetFeedbackProduct \/ UpdateRejectReason \/ UpdateNoteText
  <2>1. cpage'.loading = cpage.loading /\ UNCHANGED loads
    BY <1>1, <1>6 DEF SetFeedbackStatus, SetFeedbackProduct, UpdateRejectReason, UpdateNoteText,
                      CustomerSignals
  <2>. QED
    BY <2>1 DEF CustomerSpins
<1>7. CASE SubmitFeedback \/ FeedbackRecorded \/ FeedbackAnswered \/ RefreshAnswered \/ FeedbackFailed
  <2>1. cpage'.loading = cpage.loading /\ UNCHANGED loads
    BY <1>1, <1>7 DEF SubmitFeedback, FeedbackRecorded, FeedbackAnswered, RefreshAnswered,
                      FeedbackFailed, CustomerSignals
  <2>. QED
    BY <2>1 DEF CustomerSpins
<1>8. CASE SaveNote \/ NoteRecorded \/ NoteAnswered \/ NotesRefreshed \/ NoteFailed
  <2>1. cpage'.loading = cpage.loading /\ UNCHANGED loads
    BY <1>1, <1>8 DEF SaveNote, NoteRecorded, NoteAnswered, NotesRefreshed, NoteFailed,
                      CustomerSignals
  <2>. QED
    BY <2>1 DEF CustomerSpins
<1>9. CASE UNCHANGED customerVars
  BY <1>9 DEF customerVars, CustomerSpins
<1>. QED
  BY <1>2, <1>3, <1>4, <1>5, <1>6, <1>7, <1>8, <1>9 DEF CustomerPageNext

LEMMA CaseSpinsStep ==
  ASSUME CaseInv, CaseSpins, [CasePagesNext]_caseVars
  PROVE  CaseSpins'
<1>1. casePage \in Page
  BY DEF CaseInv, CaseTypes
<1>2. CASE OpenCase \/ RetryCases
  BY <1>2 DEF OpenCase, RetryCases, Reading, CaseSpins
<1>3. CASE UpdateInput \/ SelectCase \/ SubmitCase \/ StartRun \/ Compare
  <2>1. casePage'.loading = casePage.loading /\ UNCHANGED reads
    BY <1>1, <1>3 DEF UpdateInput, SelectCase, Selection, SubmitCase, StartRun, Compare, Page
  <2>. QED
    BY <2>1 DEF CaseSpins
<1>4. ASSUME NEW r \in reads,
             CaseAnswered(r) \/ CaseFailed(r) \/ CasesAnswered(r) \/ CasesFailed(r)
      PROVE  CaseSpins'
  <2>1. ~casePage'.loading
    BY <1>1, <1>4 DEF CaseAnswered, CaseFailed, CasesAnswered, CasesFailed, Page
  <2>. QED
    BY <2>1 DEF CaseSpins
<1>5. CASE Answered \/ CallFailed
  <2>1. casePage'.loading = casePage.loading /\ UNCHANGED reads
    BY <1>1, <1>5 DEF Answered, CallFailed, Page
  <2>. QED
    BY <2>1 DEF CaseSpins
<1>6. CASE CreateCase \/ CreateRuns \/ RunsReturned
           \/ (\E r \in DOMAIN runRows : RunReports(r)) \/ UNCHANGED caseVars
  BY <1>6 DEF CreateCase, CreateRuns, RunsReturned, RunReports, caseVars, CaseSpins
<1>7. CASE \E i \in 1..2 : \/ RunTaken(i) \/ StartSettles(i)
                           \/ DispatchFailureRecorded(i) \/ DispatchFailureLost(i)
  BY <1>7 DEF RunTaken, StartSettles, DispatchFailureRecorded, DispatchFailureLost, CaseSpins
<1>. QED
  BY <1>2, <1>3, <1>4, <1>5, <1>6, <1>7 DEF CasePagesNext

LEMMA ListSpinsStep ==
  ASSUME ListInv, ListSpins, [ListNext]_listVars
  PROVE  ListSpins'
<1>1. list \in ListSignals
  BY DEF ListInv
<1>2. ASSUME Sends("load")
      PROVE  ListSpins'
  <2>1. Ask(NextNumber(asks), "load").kind = "load"
    BY DEF Ask
  <2>2. Ask(NextNumber(asks), "load") \in asks'
    BY <1>2 DEF Sends
  <2>. QED
    BY <2>1, <2>2 DEF ListSpins
<1>3. CASE UpdateQuery
  <2>1. list'.loading = list.loading /\ UNCHANGED asks
    BY <1>1, <1>3 DEF UpdateQuery, Stays, ListSignals
  <2>. QED
    BY <2>1 DEF ListSpins
<1>4. CASE RefreshFromTable
  <2>1. ~list'.loading
    BY <1>1, <1>4 DEF RefreshFromTable, ListSignals
  <2>. QED
    BY <2>1 DEF ListSpins
<1>5. CASE ChangeDate
  <2>1. list'.loading
    BY <1>1, <1>5 DEF ChangeDate, DateChanged, Loading, ListSignals
  <2>. QED
    BY <1>2, <1>5, <2>1 DEF ChangeDate
<1>6. ASSUME NEW ask \in asks, AskAnswered(ask) \/ AskFailed(ask)
      PROVE  ListSpins'
  <2>1. list'.loading = (list.loading /\ ask.kind = "refresh") /\ asks' = asks \ {ask}
    BY <1>1, <1>6 DEF AskAnswered, AskFailed, Ended, ListSignals
  <2>. QED
    BY <2>1 DEF ListSpins
<1>7. CASE OpenDrawer \/ CloseDrawer \/ TypeDocument \/ SubmitDocument \/ DocumentAccepted
           \/ DocumentFailed \/ UNCHANGED listVars
  BY <1>7 DEF OpenDrawer, CloseDrawer, TypeDocument, SubmitDocument, DocumentAccepted,
              DocumentFailed, listVars, ListSpins
<1>8. CASE Reload \/ ClearSearch \/ DocumentAnswered
  BY <1>2, <1>8 DEF Reload, ClearSearch, DocumentAnswered
<1>. QED
  BY <1>3, <1>4, <1>5, <1>6, <1>7, <1>8 DEF ListNext

-----------------------------------------------------------------------------
(* The pages of accounts and of branches.                                  *)

IsDraft(kind, d) ==
  /\ d = [f \in FormFields[kind] |-> d[f]]
  /\ "active" \in FormFields[kind] => d.active \in BOOLEAN

(* What differs from the row as it was read was touched in the form.       *)
IsEdit(kind, e) ==
  /\ e = [x \in {"name", "new", "draft", "read", "touched"} |-> e[x]]
  /\ e.name \in Names /\ e.new \in BOOLEAN /\ IsDraft(kind, e.draft)
  /\ \A f \in FormFields[kind] \ e.touched : e.draft[f] = e.read[f]

(* A name that was listed with a row still has one: no row is ever deleted. *)
HasRow(kind, reg, name) == name \in Names /\ IsRow(kind, reg[name])
Rows(kind, reg, rows) ==
  \A n \in Names : rows[n] # NULL => IsRow(kind, rows[n]) /\ HasRow(kind, reg, n)

IsWork(kind, reg, w) ==
  /\ w = [x \in DOMAIN w |-> w[x]] /\ {"n", "op", "step"} \subseteq DOMAIN w
  /\ w.op = "save" => "edit" \in DOMAIN w /\ IsEdit(kind, w.edit)
  /\ w.op # "save" => "name" \in DOMAIN w /\ HasRow(kind, reg, w.name)

InFlight(flight) == /\ \A r \in flight : r.n \in 1..MaxInFlight
                    /\ \A r, q \in flight : r.n = q.n => r = q

AdminSignals ==
  /\ admin = [x \in {"kind", "filter", "rows", "loading", "error", "saving", "editor", "confirm"}
                |-> admin[x]]
  /\ admin.kind \in {"accounts", "branches"} /\ admin.filter \in Filters
  /\ admin.loading \in BOOLEAN /\ admin.saving \in BOOLEAN

RegistryInv == registry = [n \in Names |-> registry[n]] /\ Rows(admin.kind, registry, registry)

ShownInv ==
  /\ Rows(admin.kind, registry, admin.rows)
  /\ admin.editor # NULL => IsEdit(admin.kind, admin.editor)
  /\ admin.confirm # NULL => /\ admin.confirm.op # "save"
                             /\ HasRow(admin.kind, registry, admin.confirm.name)

ListingsInv ==
  /\ InFlight(listings)
  /\ \A l \in listings : l.step = "read" => Rows(admin.kind, registry, l.rows)

WorkInv == InFlight(work) /\ \A w \in work : IsWork(admin.kind, registry, w)

AdminInv == AdminSignals /\ RegistryInv /\ ShownInv /\ ListingsInv /\ WorkInv

(* The spinners of the list and of the save.                               *)
AdminSpins ==
  /\ admin.loading => listings # {}
  /\ admin.saving => (\E w \in work : w.op = "save") \/ (\E l \in listings : l.saves)

LEMMA RowsStay ==
  ASSUME NEW kind, NEW reg, NEW reg1,
         \A n \in Names : HasRow(kind, reg, n) => HasRow(kind, reg1, n)
  PROVE  /\ \A rows : Rows(kind, reg, rows) => Rows(kind, reg1, rows)
         /\ \A w : IsWork(kind, reg, w) => IsWork(kind, reg1, w)
<1>1. ASSUME NEW rows, Rows(kind, reg, rows)
      PROVE  Rows(kind, reg1, rows)
  BY <1>1 DEF Rows
<1>2. ASSUME NEW w, IsWork(kind, reg, w)
      PROVE  IsWork(kind, reg1, w)
  <2>1. HasRow(kind, reg, w.name) => HasRow(kind, reg1, w.name)
    BY DEF HasRow
  <2>. QED
    BY <1>2, <2>1 DEF IsWork
<1>. QED
  BY <1>1, <1>2

(* A number that is free is given to one more request.                     *)
LEMMA OneMore ==
  ASSUME NEW flight, InFlight(flight), CanSend(flight),
         NEW r, r.n = NextNumber(flight)
  PROVE  InFlight(flight \cup {r})
<1>1. Numbered(flight) \subseteq 1..MaxInFlight
  BY DEF Numbered, InFlight
<1>2. \E n \in 1..MaxInFlight : n \notin Numbered(flight)
  BY <1>1 DEF CanSend
<1>3. r.n \in 1..MaxInFlight /\ r.n \notin Numbered(flight)
  BY <1>2 DEF NextNumber
<1>4. \A q \in flight : q.n # r.n
  BY <1>3 DEF Numbered
<1>. QED
  BY <1>3, <1>4 DEF InFlight

LEMMA OneInstead ==
  ASSUME NEW flight, InFlight(flight), NEW r \in flight, NEW q, q.n = r.n
  PROVE  InFlight((flight \ {r}) \cup {q}) /\ InFlight(flight \ {r})
  BY DEF InFlight

LEMMA AdminInitInv == AdminPagesInit => AdminInv /\ AdminSpins
<1>. SUFFICES ASSUME AdminPagesInit
              PROVE  AdminInv /\ AdminSpins
  OBVIOUS
<1>1. PICK kind \in DOMAIN FormFields :
        /\ admin = [kind |-> kind, filter |-> NothingFiltered, rows |-> [n \in Names |-> NULL],
                    loading |-> TRUE, error |-> FALSE, saving |-> FALSE,
                    editor |-> NULL, confirm |-> NULL]
        /\ registry \in [Names -> RowsOf[kind] \cup {NULL}]
  BY DEF AdminPagesInit
<1>2. listings = {Listing(1, NothingFiltered, FALSE)} /\ work = {}
  BY DEF AdminPagesInit
<1>3. kind \in {"accounts", "branches"}
  BY <1>1 DEF FormFields
<1>4. AdminSignals
  BY <1>1, <1>3 DEF AdminSignals, Filters
<1>5. RegistryInv
  <2>1. \A n \in Names : registry[n] # NULL => IsRow(kind, registry[n])
    BY <1>1, RowsAssumption
  <2>. QED
    BY <1>1, <2>1 DEF RegistryInv, Rows, HasRow
<1>6. ShownInv
  BY <1>1 DEF ShownInv, Rows
<1>7. ListingsInv
  <2>1. Listing(1, NothingFiltered, FALSE).n = 1 /\ Listing(1, NothingFiltered, FALSE).step = "asked"
    BY DEF Listing
  <2>2. 1 \in 1..MaxInFlight
    BY InFlightAssumption
  <2>3. \A l \in listings : l.n = 1 /\ l.step = "asked"
    BY <1>2, <2>1
  <2>4. \A l, q \in listings : l = q
    BY <1>2
  <2>. QED
    BY <2>2, <2>3, <2>4 DEF ListingsInv, InFlight
<1>8. WorkInv
  BY <1>2 DEF WorkInv, InFlight
<1>9. AdminSpins
  BY <1>1, <1>2 DEF AdminSpins
<1>. QED
  BY <1>4, <1>5, <1>6, <1>7, <1>8, <1>9 DEF AdminInv

(* UpdateFilter, ApplyFilters, RetryList.                                  *)
LEMMA Filtering ==
  ASSUME AdminInv, AdminSpins, UpdateFilter \/ ApplyFilters \/ RetryList
  PROVE  AdminInv' /\ AdminSpins'
<1>1. AdminSignals /\ UNCHANGED <<work, registry>>
  BY DEF AdminInv, UpdateFilter, ApplyFilters, RetryList, Load
<1>2. CASE UpdateFilter
  <2>1. PICK f \in Filters : admin' = [admin EXCEPT !.filter = f]
    BY <1>2 DEF UpdateFilter
  <2>2. /\ AdminSignals' /\ admin'.kind = admin.kind /\ admin'.rows = admin.rows
        /\ admin'.editor = admin.editor /\ admin'.confirm = admin.confirm
        /\ admin'.loading = admin.loading /\ admin'.saving = admin.saving
    BY <1>1, <2>1 DEF AdminSignals
  <2>3. UNCHANGED listings
    BY <1>2 DEF UpdateFilter
  <2>. QED
    BY <1>1, <2>2, <2>3 DEF AdminInv, RegistryInv, ShownInv, ListingsInv, WorkInv, AdminSpins
<1>3. CASE ApplyFilters \/ RetryList
  <2>1. PICK f : Load(f)
    BY <1>3 DEF ApplyFilters, RetryList
  <2>2. /\ AdminSignals' /\ admin'.kind = admin.kind /\ admin'.rows = admin.rows
        /\ admin'.editor = admin.editor /\ admin'.confirm = admin.confirm
        /\ admin'.loading /\ admin'.saving = admin.saving
    BY <1>1, <2>1 DEF AdminSignals, Load
  <2>. DEFINE l == Listing(NextNumber(listings), f, FALSE)
  <2>3. l.n = NextNumber(listings) /\ l.step = "asked" /\ listings' = listings \cup {l}
        /\ CanSend(listings)
    BY <2>1 DEF Load, SendListing, Listing, MaySend
  <2>. HIDE DEF l
  <2>4. ListingsInv'
    BY <1>1, <2>2, <2>3, OneMore DEF AdminInv, ListingsInv
  <2>5. AdminSpins'
    BY <1>1, <2>2, <2>3 DEF AdminSpins
  <2>. QED
    BY <1>1, <2>2, <2>4, <2>5 DEF AdminInv, RegistryInv, ShownInv, WorkInv
<1>. QED
  BY <1>2, <1>3

(* A list is read, or its answer is shown, or it is not.                   *)
LEMMA ListingEnds ==
  ASSUME AdminInv, AdminSpins, NEW l \in listings,
         ListingRead(l) \/ ListingAnswered(l) \/ ListingFailed(l)
  PROVE  AdminInv' /\ AdminSpins'
<1>1. AdminSignals /\ RegistryInv /\ UNCHANGED <<work, registry>>
  BY DEF AdminInv, ListingRead, ListingAnswered, ListingFailed
<1>2. CASE ListingRead(l)
  <2>. DEFINE q == [n |-> l.n, step |-> "read", rows |-> Listed(l.filter), saves |-> l.saves]
  <2>1. q.n = l.n /\ q.saves = l.saves /\ q.rows = Listed(l.filter)
    OBVIOUS
  <2>2. listings' = (listings \ {l}) \cup {q} /\ UNCHANGED admin
    BY <1>2 DEF ListingRead
  <2>. HIDE DEF q
  <2>3. Rows(admin.kind, registry, q.rows)
    BY <1>1, <2>1 DEF Listed, Matches, RegistryInv, Rows
  <2>4. ListingsInv'
    BY <1>1, <2>1, <2>2, <2>3, OneInstead DEF AdminInv, ListingsInv
  <2>5. AdminSpins'
    BY <1>1, <2>1, <2>2 DEF AdminSpins
  <2>. QED
    BY <1>1, <2>2, <2>4, <2>5 DEF AdminInv, AdminSignals, RegistryInv, ShownInv, WorkInv
<1>3. CASE ListingAnswered(l) \/ ListingFailed(l)
  <2>1. /\ listings' = listings \ {l}
        /\ \/ admin' = [admin EXCEPT !.rows = l.rows, !.loading = FALSE,
                                     !.saving = admin.saving /\ ~l.saves] /\ l.step = "read"
           \/ admin' = [admin EXCEPT !.error = TRUE, !.loading = FALSE,
                                     !.saving = admin.saving /\ ~l.saves]
    BY <1>1, <1>3 DEF ListingAnswered, ListingFailed, AdminSignals
  <2>2. (admin.saving /\ ~l.saves) \in BOOLEAN
    OBVIOUS
  <2>3. /\ AdminSignals' /\ admin'.kind = admin.kind
        /\ admin'.rows = admin.rows \/ (admin'.rows = l.rows /\ l.step = "read")
        /\ admin'.editor = admin.editor /\ admin'.confirm = admin.confirm
        /\ ~admin'.loading /\ admin'.saving = (admin.saving /\ ~l.saves)
    BY <1>1, <2>1, <2>2 DEF AdminSignals
  <2>4. ShownInv'
    BY <1>1, <2>3 DEF AdminInv, ShownInv, ListingsInv
  <2>5. ListingsInv'
    BY <1>1, <2>1, <2>3, OneInstead DEF AdminInv, ListingsInv
  <2>6. AdminSpins'
    BY <1>1, <2>1, <2>3 DEF AdminSpins
  <2>. QED
    BY <1>1, <2>3, <2>4, <2>5, <2>6 DEF AdminInv, RegistryInv, WorkInv
<1>. QED
  BY <1>2, <1>3

(* The form is opened, typed in and closed; a command is asked for and      *)
(* confirmed or not.  None of this touches the registry or the list.       *)
LEMMA EditorOnly ==
  ASSUME AdminInv, AdminSpins, AdminSignals', UNCHANGED <<listings, work, registry>>,
         admin'.kind = admin.kind, admin'.rows = admin.rows,
         admin'.loading = admin.loading, admin'.saving = admin.saving,
         admin'.editor # NULL => IsEdit(admin.kind, admin'.editor),
         admin'.confirm # NULL => /\ admin'.confirm.op # "save"
                                  /\ HasRow(admin.kind, registry, admin'.confirm.name)
  PROVE  AdminInv' /\ AdminSpins'
<1>1. ShownInv'
  BY DEF AdminInv, ShownInv
<1>2. RegistryInv' /\ ListingsInv' /\ WorkInv'
  BY DEF AdminInv, RegistryInv, ListingsInv, WorkInv
<1>3. AdminSpins'
  BY DEF AdminSpins
<1>. QED
  BY <1>1, <1>2, <1>3 DEF AdminInv

LEMMA Editing ==
  ASSUME AdminInv, AdminSpins,
         StartCreate \/ CloseEditor \/ Declined \/ \E name \in Names : StartEdit(name)
  PROVE  AdminInv' /\ AdminSpins'
<1>1. AdminSignals /\ ShownInv /\ UNCHANGED <<listings, work, registry>>
  BY DEF AdminInv, StartCreate, CloseEditor, Declined, StartEdit
<1>2. CASE StartCreate
  <2>1. PICK name \in Names :
          admin' = [admin EXCEPT !.editor = [name |-> name, new |-> TRUE, draft |-> EmptyDraft,
                                             read |-> EmptyDraft, touched |-> {}]]
    BY <1>2 DEF StartCreate
  <2>. DEFINE e == [name |-> name, new |-> TRUE, draft |-> EmptyDraft, read |-> EmptyDraft,
                    touched |-> {}]
  <2>2. IsDraft(admin.kind, EmptyDraft)
    <3>1. CASE admin.kind = "accounts"
      <4>1. /\ FormFields[admin.kind] = {"full_name", "role", "branch"}
            /\ EmptyDraft = [full_name |-> NULL, role |-> "employee", branch |-> NULL]
        BY <3>1 DEF FormFields, EmptyDraft
      <4>. QED
        BY <4>1 DEF IsDraft
    <3>2. CASE admin.kind = "branches"
      <4>1. FormFields[admin.kind] = {"name", "active"}
        BY <3>2 DEF FormFields
      <4>2. EmptyDraft = [name |-> NULL, active |-> TRUE]
        BY <3>2 DEF EmptyDraft
      <4>3. EmptyDraft.active \in BOOLEAN
        BY <4>2
      <4>4. EmptyDraft = [f \in {"name", "active"} |-> EmptyDraft[f]]
        BY <4>2
      <4>. QED
        BY <4>1, <4>3, <4>4 DEF IsDraft
    <3>. QED
      BY <1>1, <3>1, <3>2 DEF AdminSignals
  <2>3. IsEdit(admin.kind, e)
    <3>1. e = [x \in {"name", "new", "draft", "read", "touched"} |-> e[x]]
      OBVIOUS
    <3>2. e.name \in Names /\ e.new \in BOOLEAN /\ e.draft = EmptyDraft /\ e.read = EmptyDraft
      OBVIOUS
    <3>. HIDE DEF e
    <3>. QED
      BY <2>2, <3>1, <3>2 DEF IsEdit
  <2>. HIDE DEF e
  <2>4. admin' = [admin EXCEPT !.editor = e]
    BY <2>1 DEF e
  <2>5. /\ AdminSignals' /\ admin'.kind = admin.kind /\ admin'.rows = admin.rows
        /\ admin'.loading = admin.loading /\ admin'.saving = admin.saving
        /\ admin'.editor = e /\ admin'.confirm = admin.confirm
    BY <1>1, <2>4 DEF AdminSignals
  <2>. QED
    BY <1>1, <2>3, <2>5, EditorOnly DEF ShownInv
<1>3. CASE \E name \in Names : StartEdit(name)
  <2>1. PICK name \in Names : StartEdit(name)
    BY <1>3
  <2>. DEFINE row == admin.rows[name]
              e == [name |-> name, new |-> FALSE, draft |-> DraftOf(row),
                    read |-> Form(row), touched |-> {}]
  <2>2. IsRow(admin.kind, row)
    BY <1>1, <2>1 DEF StartEdit, Shown, ShownInv, Rows
  <2>. HIDE DEF row
  <2>3. IsDraft(admin.kind, Form(row))
    BY <2>2 DEF IsDraft, Form, IsRow
  <2>4. IsEdit(admin.kind, e)
    <3>1. e = [x \in {"name", "new", "draft", "read", "touched"} |-> e[x]]
      OBVIOUS
    <3>2. e.name \in Names /\ e.new \in BOOLEAN /\ e.draft = Form(row) /\ e.read = Form(row)
      BY DEF DraftOf
    <3>. HIDE DEF e
    <3>. QED
      BY <2>3, <3>1, <3>2 DEF IsEdit
  <2>. HIDE DEF e
  <2>5. admin' = [admin EXCEPT !.editor = e]
    BY <2>1 DEF StartEdit, e, row
  <2>6. /\ AdminSignals' /\ admin'.kind = admin.kind /\ admin'.rows = admin.rows
        /\ admin'.loading = admin.loading /\ admin'.saving = admin.saving
        /\ admin'.editor = e /\ admin'.confirm = admin.confirm
    BY <1>1, <2>5 DEF AdminSignals
  <2>. QED
    BY <1>1, <2>4, <2>6, EditorOnly DEF ShownInv
<1>4. CASE CloseEditor \/ Declined
  <2>1. \/ admin' = [admin EXCEPT !.editor = NULL]
        \/ admin' = [admin EXCEPT !.confirm = NULL]
    BY <1>4 DEF CloseEditor, Declined
  <2>2. /\ AdminSignals' /\ admin'.kind = admin.kind /\ admin'.rows = admin.rows
        /\ admin'.loading = admin.loading /\ admin'.saving = admin.saving
        /\ admin'.editor \in {NULL, admin.editor} /\ admin'.confirm \in {NULL, admin.confirm}
    BY <1>1, <2>1 DEF AdminSignals
  <2>. QED
    BY <1>1, <2>2, EditorOnly DEF ShownInv
<1>. QED
  BY <1>2, <1>3, <1>4

(* A field of the form changes, and with the role of an admin its branch.  *)
LEMMA Typing ==
  ASSUME AdminInv, AdminSpins, ChangeDraft
  PROVE  AdminInv' /\ AdminSpins'
<1>1. AdminSignals /\ ShownInv /\ UNCHANGED <<listings, work, registry>> /\ admin.editor # NULL
  BY DEF AdminInv, ChangeDraft
<1>. DEFINE e == admin.editor
            fields == FormFields[admin.kind]
<1>2. PICK f \in fields, row \in RowsOf[admin.kind] :
        LET alone == f = "role" /\ row.role = "admin"
        IN admin' = [admin EXCEPT
             !.editor.draft = IF alone THEN [@ EXCEPT !.role = "admin", !.branch = NULL]
                              ELSE [@ EXCEPT ![f] = row[f]],
             !.editor.touched = @ \cup {f} \cup IF alone THEN {"branch"} ELSE {}]
  BY DEF ChangeDraft
<1>. DEFINE alone == f = "role" /\ row.role = "admin"
            draft == IF alone THEN [e.draft EXCEPT !.role = "admin", !.branch = NULL]
                     ELSE [e.draft EXCEPT ![f] = row[f]]
            touched == e.touched \cup {f} \cup IF alone THEN {"branch"} ELSE {}
            e1 == [e EXCEPT !.draft = draft, !.touched = touched]
<1>3. IsEdit(admin.kind, e) /\ IsRow(admin.kind, row)
  <2>1. admin.kind \in DOMAIN FormFields
    BY <1>1 DEF AdminSignals, FormFields
  <2>. QED
    BY <1>1, <2>1, RowsAssumption DEF ShownInv
<1>4. admin' = [admin EXCEPT !.editor = e1]
  BY <1>1, <1>2, <1>3 DEF AdminSignals, IsEdit
<1>5. f = "role" => "active" \notin fields
  BY <1>1 DEF AdminSignals, FormFields
<1>6. /\ draft = [g \in fields |-> draft[g]]
      /\ \A g \in fields \ touched : draft[g] = e.draft[g]
  BY <1>3 DEF IsEdit, IsDraft
<1>7. "active" \in fields => draft.active \in BOOLEAN
  BY <1>3, <1>5 DEF IsEdit, IsDraft, IsRow
<1>. HIDE DEF draft
<1>8. IsEdit(admin.kind, e1)
  <2>. USE DEF IsEdit
  <2>1. e.touched \subseteq touched
    OBVIOUS
  <2>. HIDE DEF touched
  <2>2. /\ e1 = [x \in {"name", "new", "draft", "read", "touched"} |-> e1[x]]
        /\ e1.name = e.name /\ e1.new = e.new /\ e1.read = e.read
        /\ e1.draft = draft /\ e1.touched = touched
    BY <1>3
  <2>3. IsDraft(admin.kind, draft)
    BY <1>6, <1>7 DEF IsDraft
  <2>. HIDE DEF e1
  <2>. QED
    BY <1>3, <1>6, <2>1, <2>2, <2>3
<1>. HIDE DEF e1
<1>9. /\ AdminSignals' /\ admin'.kind = admin.kind /\ admin'.rows = admin.rows
      /\ admin'.loading = admin.loading /\ admin'.saving = admin.saving
      /\ admin'.editor = e1 /\ admin'.confirm = admin.confirm
  BY <1>1, <1>4 DEF AdminSignals
<1>. QED
  BY <1>1, <1>8, <1>9, EditorOnly DEF ShownInv

(* A request of the page: sent, carried out, answered, or without answer.   *)
LEMMA Sending ==
  ASSUME AdminInv, AdminSpins, Save \/ Confirmed
  PROVE  AdminInv' /\ AdminSpins'
<1>1. /\ AdminSignals /\ ShownInv /\ UNCHANGED <<listings, registry>> /\ CanSend(work)
  BY DEF AdminInv, Save, Confirmed, MaySend
<1>2. CASE Save
  <2>. DEFINE w == [n |-> NextNumber(work), op |-> "save", step |-> "asked",
                    edit |-> admin.editor]
  <2>1. work' = work \cup {w} /\ admin' = [admin EXCEPT !.saving = TRUE] /\ admin.editor # NULL
    BY <1>2 DEF Save
  <2>2. w.n = NextNumber(work) /\ w.op = "save"
    OBVIOUS
  <2>3. IsWork(admin.kind, registry, w)
    BY <1>1, <2>1 DEF IsWork, ShownInv
  <2>. HIDE DEF w
  <2>4. /\ AdminSignals' /\ admin'.kind = admin.kind /\ admin'.rows = admin.rows
        /\ admin'.loading = admin.loading
        /\ admin'.editor = admin.editor /\ admin'.confirm = admin.confirm
    BY <1>1, <2>1 DEF AdminSignals
  <2>5. WorkInv'
    BY <1>1, <2>1, <2>2, <2>3, <2>4, OneMore DEF AdminInv, WorkInv
  <2>6. AdminSpins'
    BY <1>1, <2>1, <2>2, <2>4 DEF AdminSpins
  <2>. QED
    BY <1>1, <2>4, <2>5, <2>6 DEF AdminInv, RegistryInv, ShownInv, ListingsInv
<1>3. CASE Confirmed
  <2>. DEFINE w == [n |-> NextNumber(work), op |-> admin.confirm.op, step |-> "asked",
                    name |-> admin.confirm.name]
  <2>1. work' = work \cup {w} /\ admin' = [admin EXCEPT !.confirm = NULL] /\ admin.confirm # NULL
    BY <1>3 DEF Confirmed
  <2>2. w.n = NextNumber(work)
    OBVIOUS
  <2>3. IsWork(admin.kind, registry, w)
    BY <1>1, <2>1 DEF IsWork, ShownInv
  <2>. HIDE DEF w
  <2>4. /\ AdminSignals' /\ admin'.kind = admin.kind /\ admin'.rows = admin.rows
        /\ admin'.loading = admin.loading /\ admin'.saving = admin.saving
        /\ admin'.editor = admin.editor /\ admin'.confirm = NULL
    BY <1>1, <2>1 DEF AdminSignals
  <2>5. WorkInv'
    BY <1>1, <2>1, <2>2, <2>3, <2>4, OneMore DEF AdminInv, WorkInv
  <2>6. AdminSpins'
    BY <1>1, <2>1, <2>4 DEF AdminSpins
  <2>. QED
    BY <1>1, <2>4, <2>5, <2>6 DEF AdminInv, RegistryInv, ShownInv, ListingsInv
<1>. QED
  BY <1>2, <1>3

LEMMA Asking4Confirmation ==
  ASSUME AdminInv, AdminSpins, NEW name \in Names, AskConfirm(name)
  PROVE  AdminInv' /\ AdminSpins'
<1>1. AdminSignals /\ ShownInv /\ UNCHANGED <<listings, work, registry>>
  BY DEF AdminInv, AskConfirm
<1>2. PICK op \in Commands(admin.rows[name]) :
        admin' = [admin EXCEPT !.confirm = [name |-> name, op |-> op]]
  BY DEF AskConfirm
<1>. DEFINE confirm == [name |-> name, op |-> op]
<1>3. op # "save"
  BY DEF Commands
<1>4. HasRow(admin.kind, registry, name)
  BY <1>1 DEF AskConfirm, Shown, ShownInv, Rows
<1>5. confirm.name = name /\ confirm.op = op
  OBVIOUS
<1>. HIDE DEF confirm
<1>6. admin' = [admin EXCEPT !.confirm = confirm]
  BY <1>2 DEF confirm
<1>7. /\ AdminSignals' /\ admin'.kind = admin.kind /\ admin'.rows = admin.rows
      /\ admin'.loading = admin.loading /\ admin'.saving = admin.saving
      /\ admin'.editor = admin.editor /\ admin'.confirm = confirm
  BY <1>1, <1>6 DEF AdminSignals
<1>. QED
  BY <1>1, <1>3, <1>4, <1>5, <1>7, EditorOnly DEF ShownInv

(* The registry gets another row for a name.                               *)
LEMMA RowWritten ==
  ASSUME AdminInv, NEW name \in Names, NEW row, IsRow(admin.kind, row),
         registry' = [registry EXCEPT ![name] = row], UNCHANGED <<admin, listings>>
  PROVE  /\ AdminSignals' /\ RegistryInv' /\ ShownInv' /\ ListingsInv'
         /\ \A w : IsWork(admin.kind, registry, w) => IsWork(admin.kind, registry', w)
<1>1. registry = [n \in Names |-> registry[n]]
  BY DEF AdminInv, RegistryInv
<1>2. /\ registry' = [n \in Names |-> registry'[n]]
      /\ registry'[name] = row /\ \A n \in Names \ {name} : registry'[n] = registry[n]
  BY <1>1
<1>3. \A n \in Names : HasRow(admin.kind, registry, n) => HasRow(admin.kind, registry', n)
  BY <1>2 DEF HasRow
<1>4. /\ \A rows : Rows(admin.kind, registry, rows) => Rows(admin.kind, registry', rows)
      /\ \A w : IsWork(admin.kind, registry, w) => IsWork(admin.kind, registry', w)
  BY <1>3, RowsStay
<1>5. RegistryInv'
  <2>1. \A n \in Names : registry'[n] # NULL => IsRow(admin.kind, registry'[n])
    BY <1>2 DEF AdminInv, RegistryInv, Rows
  <2>. QED
    BY <1>2, <2>1 DEF RegistryInv, Rows, HasRow
<1>6. ShownInv'
  <2>1. admin.confirm # NULL => HasRow(admin.kind, registry', admin.confirm.name)
    BY <1>3 DEF AdminInv, ShownInv, HasRow
  <2>. QED
    BY <1>4, <2>1 DEF AdminInv, ShownInv
<1>7. ListingsInv'
  BY <1>4 DEF AdminInv, ListingsInv
<1>8. AdminSignals'
  BY DEF AdminInv, AdminSignals
<1>. QED
  BY <1>4, <1>5, <1>6, <1>7, <1>8

(* A request that is carried out is the same request.                      *)
LEMMA WorkApplied ==
  ASSUME NEW kind, NEW reg, NEW w, IsWork(kind, reg, w)
  PROVE  LET v == [w EXCEPT !.step = "applied"]
         IN  /\ IsWork(kind, reg, v) /\ v.n = w.n /\ v.op = w.op /\ v.step = "applied"
<1>. DEFINE v == [w EXCEPT !.step = "applied"]
<1>1. /\ DOMAIN v = DOMAIN w /\ v = [x \in DOMAIN v |-> v[x]]
      /\ v.n = w.n /\ v.op = w.op /\ v.step = "applied"
  BY DEF IsWork
<1>2. /\ "edit" \in DOMAIN w => v.edit = w.edit
      /\ "name" \in DOMAIN w => v.name = w.name
  OBVIOUS
<1>. HIDE DEF v
<1>3. IsWork(kind, reg, v)
  BY <1>1, <1>2 DEF IsWork
<1>. QED
  BY <1>1, <1>3 DEF v

LEMMA Applying ==
  ASSUME AdminInv, AdminSpins, NEW w \in work, SaveApplied(w) \/ CommandApplied(w)
  PROVE  AdminInv' /\ AdminSpins'
<1>. DEFINE v == [w EXCEPT !.step = "applied"]
<1>1. /\ UNCHANGED <<admin, listings>> /\ work' = (work \ {w}) \cup {v}
      /\ IsWork(admin.kind, registry, w) /\ InFlight(work) /\ RegistryInv /\ AdminSignals
  BY DEF SaveApplied, CommandApplied, AdminInv, WorkInv
<1>2. IsWork(admin.kind, registry, v) /\ v.n = w.n /\ v.op = w.op
  BY <1>1, WorkApplied
<1>. HIDE DEF v
<1>3. AdminSpins'
  BY <1>1, <1>2 DEF AdminSpins
<1>4. InFlight(work')
  BY <1>1, <1>2, OneInstead
<1>5. CASE SaveApplied(w)
  <2>. DEFINE name == w.edit.name
              written == Written(w.edit.draft, w.edit.new \/ registry[w.edit.name].active)
              row == IF Closes(w.edit) THEN [registry[name] EXCEPT !.active = FALSE] ELSE written
  <2>1. /\ registry' = [registry EXCEPT ![name] = row] /\ IsEdit(admin.kind, w.edit)
        /\ w.edit.new <=> registry[name] = NULL
    BY <1>1, <1>5 DEF SaveApplied, IsWork
  <2>2. name \in Names /\ IsDraft(admin.kind, w.edit.draft)
    BY <2>1 DEF IsEdit
  <2>3. ~w.edit.new => registry[name].active \in BOOLEAN
    BY <1>1, <2>1, <2>2 DEF RegistryInv, Rows, IsRow
  <2>4. IsRow(admin.kind, written)
    <3>. DEFINE active == w.edit.new \/ registry[w.edit.name].active
    <3>1. active \in BOOLEAN
      OBVIOUS
    <3>2. written = Written(w.edit.draft, active)
      OBVIOUS
    <3>. HIDE DEF active
    <3>. QED
      BY <2>2, <3>1, <3>2 DEF IsRow, Written, IsDraft
  <2>. HIDE DEF written
  <2>5. IsRow(admin.kind, row)
    <3>1. CASE Closes(w.edit)
      <4>1. IsRow(admin.kind, registry[name])
        BY <1>1, <2>1, <2>2, <3>1 DEF Closes, RegistryInv, Rows
      <4>. QED
        BY <3>1, <4>1 DEF IsRow
    <3>. QED
      BY <2>4, <3>1
  <2>. HIDE DEF name, row
  <2>6. /\ AdminSignals' /\ RegistryInv' /\ ShownInv' /\ ListingsInv'
        /\ \A u : IsWork(admin.kind, registry, u) => IsWork(admin.kind, registry', u)
    BY <1>1, <2>1, <2>2, <2>5, RowWritten
  <2>7. WorkInv'
    BY <1>1, <1>2, <1>4, <2>6 DEF AdminInv, WorkInv
  <2>. QED
    BY <1>3, <2>6, <2>7 DEF AdminInv
<1>6. CASE CommandApplied(w) /\ w.op = "reset"
  <2>1. UNCHANGED registry
    BY <1>6 DEF CommandApplied
  <2>2. WorkInv'
    BY <1>1, <1>2, <1>4, <2>1 DEF AdminInv, WorkInv
  <2>. QED
    BY <1>1, <1>3, <2>1, <2>2 DEF AdminInv, AdminSignals, RegistryInv, ShownInv, ListingsInv
<1>7. CASE CommandApplied(w) /\ w.op # "reset"
  <2>. DEFINE row == [registry[w.name] EXCEPT !.active = w.op = "enable"]
  <2>1. HasRow(admin.kind, registry, w.name)
    BY <1>1, <1>7 DEF CommandApplied, IsCommand, IsWork
  <2>2. registry' = [registry EXCEPT ![w.name] = row]
    BY <1>7 DEF CommandApplied
  <2>3. IsRow(admin.kind, row)
    <3>1. (w.op = "enable") \in BOOLEAN
      OBVIOUS
    <3>. QED
      BY <2>1, <3>1 DEF HasRow, IsRow
  <2>. HIDE DEF row
  <2>4. /\ AdminSignals' /\ RegistryInv' /\ ShownInv' /\ ListingsInv'
        /\ \A u : IsWork(admin.kind, registry, u) => IsWork(admin.kind, registry', u)
    BY <1>1, <2>1, <2>2, <2>3, RowWritten DEF HasRow
  <2>5. WorkInv'
    BY <1>1, <1>2, <1>4, <2>4 DEF AdminInv, WorkInv
  <2>. QED
    BY <1>3, <2>4, <2>5 DEF AdminInv
<1>. QED
  BY <1>5, <1>6, <1>7

LEMMA OthersWrite ==
  ASSUME AdminInv, AdminSpins, NEW name \in Names, OtherAdminWrites(name)
  PROVE  AdminInv' /\ AdminSpins'
<1>1. PICK row \in RowsOf[admin.kind] : registry' = [registry EXCEPT ![name] = row]
  BY DEF OtherAdminWrites
<1>2. IsRow(admin.kind, row) /\ UNCHANGED <<admin, listings, work>>
  <2>1. admin.kind \in DOMAIN FormFields
    BY DEF AdminInv, AdminSignals, FormFields
  <2>. QED
    BY <2>1, RowsAssumption DEF OtherAdminWrites
<1>3. /\ AdminSignals' /\ RegistryInv' /\ ShownInv' /\ ListingsInv'
      /\ \A u : IsWork(admin.kind, registry, u) => IsWork(admin.kind, registry', u)
  BY <1>1, <1>2, RowWritten
<1>4. WorkInv' /\ AdminSpins'
  BY <1>2, <1>3 DEF AdminInv, WorkInv, AdminSpins
<1>. QED
  BY <1>3, <1>4 DEF AdminInv

LEMMA Answering ==
  ASSUME AdminInv, AdminSpins, NEW w \in work,
         SaveAnswered(w) \/ SaveFailed(w) \/ CommandAnswered(w) \/ CommandFailed(w)
  PROVE  AdminInv' /\ AdminSpins'
<1>1. /\ AdminSignals /\ ShownInv /\ ListingsInv /\ UNCHANGED registry
      /\ work' = work \ {w} /\ InFlight(work) /\ InFlight(work')
  BY OneInstead DEF AdminInv, WorkInv, SaveAnswered, SaveFailed, CommandAnswered, CommandFailed
<1>2. CASE SaveFailed(w) \/ CommandFailed(w) \/ (CommandAnswered(w) /\ w.op = "reset")
  <2>1. /\ UNCHANGED listings
        /\ \/ admin' = [admin EXCEPT !.saving = FALSE]
           \/ UNCHANGED admin /\ w.op # "save"
    BY <1>2 DEF SaveFailed, CommandFailed, CommandAnswered, IsCommand
  <2>2. /\ AdminSignals' /\ admin'.kind = admin.kind /\ admin'.rows = admin.rows
        /\ admin'.editor = admin.editor /\ admin'.confirm = admin.confirm
        /\ admin'.loading = admin.loading
        /\ ~admin'.saving \/ (admin'.saving = admin.saving /\ w.op # "save")
    BY <1>1, <2>1 DEF AdminSignals
  <2>3. WorkInv'
    BY <1>1, <2>2 DEF AdminInv, WorkInv
  <2>4. AdminSpins'
    BY <1>1, <2>1, <2>2 DEF AdminSpins
  <2>. QED
    BY <1>1, <2>1, <2>2, <2>3, <2>4 DEF AdminInv, RegistryInv, ShownInv, ListingsInv
<1>3. CASE SaveAnswered(w) \/ (CommandAnswered(w) /\ w.op # "reset")
  <2>1. PICK saves \in BOOLEAN :
          /\ SendListing(admin.filter, saves) /\ CanSend(listings)
          /\ \/ saves /\ admin' = [admin EXCEPT !.editor = NULL, !.loading = TRUE,
                                                !.error = FALSE]
             \/ w.op # "save" /\ admin' = [admin EXCEPT !.loading = TRUE, !.error = FALSE]
    BY <1>3 DEF SaveAnswered, CommandAnswered, IsCommand
  <2>. DEFINE l == Listing(NextNumber(listings), admin.filter, saves)
  <2>2. /\ l.n = NextNumber(listings) /\ l.step = "asked" /\ l.saves = saves
        /\ listings' = listings \cup {l}
    BY <2>1 DEF SendListing, Listing
  <2>. HIDE DEF l
  <2>3. /\ AdminSignals' /\ admin'.kind = admin.kind /\ admin'.rows = admin.rows
        /\ admin'.editor \in {NULL, admin.editor} /\ admin'.confirm = admin.confirm
        /\ admin'.saving = admin.saving
    BY <1>1, <2>1 DEF AdminSignals
  <2>4. WorkInv'
    BY <1>1, <2>3 DEF AdminInv, WorkInv
  <2>5. ListingsInv'
    BY <1>1, <2>1, <2>2, <2>3, OneMore DEF ListingsInv
  <2>6. AdminSpins'
    BY <1>1, <2>1, <2>2, <2>3 DEF AdminSpins
  <2>. QED
    BY <1>1, <2>3, <2>4, <2>5, <2>6 DEF AdminInv, RegistryInv, ShownInv
<1>. QED
  BY <1>2, <1>3

LEMMA AdminStep ==
  ASSUME AdminInv, AdminSpins, [AdminPagesNext]_adminVars
  PROVE  AdminInv' /\ AdminSpins'
<1>1. CASE UNCHANGED adminVars
  BY <1>1 DEF adminVars, AdminInv, AdminSignals, RegistryInv, ShownInv, ListingsInv, WorkInv,
              AdminSpins
<1>2. CASE AdminPagesNext
  BY <1>2, Filtering, ListingEnds, Editing, Typing, Sending, Asking4Confirmation, Applying,
     OthersWrite, Answering DEF AdminPagesNext
<1>. QED
  BY <1>1, <1>2

(* A save that is carried out writes what was touched in the form, and the  *)
(* rest as it was read.                                                    *)
Survives ==
  \A w \in work : (w.op = "save" /\ w.step = "asked" /\ [w EXCEPT !.step = "applied"] \in work') =>
     \A f \in DOMAIN w.edit.draft \ w.edit.touched :
        w.edit.new \/ registry'[w.edit.name][f] = registry[w.edit.name][f]
                   \/ registry[w.edit.name][f] # w.edit.read[f]

LEMMA SavesSurvive ==
  ASSUME AdminInv, [AdminPagesNext]_adminVars
  PROVE  [Survives]_adminVars
<1>. SUFFICES ASSUME AdminPagesNext, NEW w \in work, w.op = "save", w.step = "asked",
                     [w EXCEPT !.step = "applied"] \in work',
                     NEW f \in DOMAIN w.edit.draft \ w.edit.touched
              PROVE  w.edit.new \/ registry'[w.edit.name][f] = registry[w.edit.name][f]
                                \/ registry[w.edit.name][f] # w.edit.read[f]
  BY DEF Survives
<1>. DEFINE v == [w EXCEPT !.step = "applied"]
<1>1. WorkInv /\ \A u \in work : IsWork(admin.kind, registry, u)
  BY DEF AdminInv, WorkInv
<1>2. /\ v.n = w.n /\ v.op = "save" /\ v.step = "applied"
  BY <1>1, WorkApplied
<1>3. v \in work' /\ v \notin work
  BY <1>1, <1>2 DEF WorkInv, InFlight
<1>. HIDE DEF v
<1>4. SaveApplied(w)
  <2>1. CASE Save \/ Confirmed
    <3>1. PICK u : u.step = "asked" /\ work' = work \cup {u}
      BY <2>1 DEF Save, Confirmed
    <3>. QED
      BY <1>2, <1>3, <3>1
  <2>2. ASSUME NEW u \in work, SaveApplied(u)
        PROVE  SaveApplied(w)
    <3>1. v = [u EXCEPT !.step = "applied"]
      BY <1>3, <2>2 DEF SaveApplied
    <3>2. v.n = u.n
      BY <1>1, <3>1, WorkApplied
    <3>. QED
      BY <1>1, <1>2, <2>2, <3>2 DEF WorkInv, InFlight
  <2>3. ASSUME NEW u \in work, CommandApplied(u)
        PROVE  FALSE
    <3>1. v = [u EXCEPT !.step = "applied"]
      BY <1>3, <2>3 DEF CommandApplied
    <3>2. v.op = u.op
      BY <1>1, <3>1, WorkApplied
    <3>. QED
      BY <1>2, <2>3, <3>2 DEF CommandApplied, IsCommand
  <2>4. ASSUME NEW u \in work,
               SaveAnswered(u) \/ SaveFailed(u) \/ CommandAnswered(u) \/ CommandFailed(u)
        PROVE  FALSE
    BY <1>3, <2>4 DEF SaveAnswered, SaveFailed, CommandAnswered, CommandFailed
  <2>5. CASE UNCHANGED work
    BY <1>3, <2>5
  <2>6. UpdateFilter \/ ApplyFilters \/ RetryList => UNCHANGED work
    BY DEF UpdateFilter, ApplyFilters, RetryList, Load
  <2>7. \A l \in listings : ListingRead(l) \/ ListingAnswered(l) \/ ListingFailed(l) => UNCHANGED work
    BY DEF ListingRead, ListingAnswered, ListingFailed
  <2>8. StartCreate \/ ChangeDraft \/ CloseEditor \/ Declined => UNCHANGED work
    BY DEF StartCreate, ChangeDraft, CloseEditor, Declined
  <2>9. \A name \in Names :
          StartEdit(name) \/ AskConfirm(name) \/ OtherAdminWrites(name) => UNCHANGED work
    BY DEF StartEdit, AskConfirm, OtherAdminWrites
  <2>. QED
    BY <2>1, <2>2, <2>3, <2>4, <2>5, <2>6, <2>7, <2>8, <2>9 DEF AdminPagesNext
<1>5. IsEdit(admin.kind, w.edit)
  BY <1>1 DEF IsWork
<1>. DEFINE e == w.edit
<1>6. /\ registry' = [registry EXCEPT ![e.name] =
                        IF Closes(e) THEN [registry[e.name] EXCEPT !.active = FALSE]
                        ELSE Written(e.draft, e.new \/ registry[e.name].active)]
      /\ registry = [n \in Names |-> registry[n]] /\ (e.new <=> registry[e.name] = NULL)
  BY <1>4 DEF SaveApplied, AdminInv, RegistryInv
<1>. HIDE DEF e
<1>7. /\ e.name \in Names /\ f \in DOMAIN e.draft /\ e.draft[f] = e.read[f]
      /\ IsDraft(admin.kind, e.draft)
  BY <1>5 DEF IsEdit, IsDraft, e
<1>8. CASE Closes(e)
  <2>1. IsRow(admin.kind, registry[e.name])
    BY <1>6, <1>7, <1>8 DEF Closes, AdminInv, RegistryInv, Rows
  <2>. DEFINE row == registry[e.name]
  <2>2. registry'[e.name] = [row EXCEPT !.active = FALSE]
    BY <1>6, <1>7, <1>8
  <2>3. f \in DOMAIN row /\ "active" \in DOMAIN row
    BY <1>7, <2>1 DEF IsRow, IsDraft
  <2>. HIDE DEF row
  <2>4. f # "active" => registry'[e.name][f] = row[f]
    BY <2>2, <2>3
  <2>5. registry'[e.name].active = FALSE
    BY <2>2, <2>3
  <2>6. f = "active" => e.draft[f] = FALSE
    BY <1>7, <1>8 DEF Closes, IsDraft
  <2>. QED
    BY <1>7, <2>4, <2>5, <2>6 DEF e, row
<1>9. CASE ~Closes(e)
  <2>1. registry'[e.name][f] = e.draft[f]
    BY <1>6, <1>7, <1>9 DEF Written
  <2>. QED
    BY <1>7, <2>1 DEF e
<1>. QED
  BY <1>8, <1>9

-----------------------------------------------------------------------------
(* Types and bounds that the invariants above do without: how many requests *)
(* are in flight, what the sections of a customer have seen, how many runs  *)
(* there are, and what the field of a list may hold.                       *)

LEMMA Bounded ==
  ASSUME NEW flight, InFlight(flight)
  PROVE  Cardinality(flight) <= MaxInFlight
<1>. DEFINE f == [r \in flight |-> r.n]
<1>1. f \in Injection(flight, 1..MaxInFlight)
  BY DEF InFlight, Injection, IsInjective
<1>2. IsFiniteSet(1..MaxInFlight) /\ Cardinality(1..MaxInFlight) = MaxInFlight
  BY InFlightAssumption, FS_Interval
<1>. HIDE DEF f
<1>. QED
  BY <1>1, <1>2, FS_Injection

Counts == [feedback : 0..MaxFeedback, notes : 0..MaxNotes]
Seen == 0..(MaxFeedback + MaxNotes)

CountsInv ==
  /\ desk \in [Visited -> Counts]
  /\ InFlight(loads)
  /\ \A l \in loads : l.step = "rest" => l.since \in Counts
  /\ posting # NULL /\ posting.step = "refresh" => posting.rows \in Nat /\ posting.own \in Nat
  /\ noting # NULL /\ noting.step = "refresh" => noting.rows \in Nat
  /\ \A s \in Sections : s.seen \in Seen

LEMMA CountsInit == CustomerPageInit => CountsInv
<1>. SUFFICES ASSUME CustomerPageInit
              PROVE  CountsInv
  OBVIOUS
<1>1. PICK c \in Visited : loads = {[n |-> 1, of |-> c, step |-> "customer"]}
  BY DEF CustomerPageInit
<1>2. \A l \in loads : l.n = 1 /\ l.step = "customer"
  BY <1>1
<1>3. \A l, q \in loads : l = q
  BY <1>1
<1>4. InFlight(loads)
  BY <1>2, <1>3, InFlightAssumption DEF InFlight
<1>5. desk \in [Visited -> Counts]
  BY CountsAssumption DEF CustomerPageInit, Counts
<1>6. Sections = {}
  <2>1. cpage.shown = Unlisted
    BY DEF CustomerPageInit
  <2>. QED
    BY <2>1 DEF Sections, Unlisted
<1>. QED
  BY <1>2, <1>4, <1>5, <1>6 DEF CountsInv, CustomerPageInit

LEMMA CountsLoad ==
  ASSUME CustomerInv, CountsInv,
         OpenCustomer \/ RetryLoad
         \/ \E l \in loads : CustomerAnswered(l) \/ RestAnswered(l) \/ LoadFailed(l)
  PROVE  CountsInv'
<1>1. cpage \in CustomerSignals /\ UNCHANGED <<posting, noting, desk>>
  BY DEF CustomerInv, OpenCustomer, RetryLoad, CustomerAnswered, RestAnswered, LoadFailed
<1>2. CASE OpenCustomer \/ RetryLoad
  <2>1. PICK c : loads' = LoadSent(c)
    BY <1>2 DEF OpenCustomer, RetryLoad
  <2>2. cpage'.shown = cpage.shown /\ CanSend(loads)
    BY <1>1, <1>2 DEF OpenCustomer, RetryLoad, LoadStarted, CustomerSignals
  <2>. DEFINE l == [n |-> NextNumber(loads), of |-> c, step |-> "customer"]
  <2>3. l.n = NextNumber(loads) /\ l.step = "customer"
    OBVIOUS
  <2>4. loads' = loads \/ loads' = loads \cup {l}
    BY <2>1 DEF LoadSent
  <2>. HIDE DEF l
  <2>5. InFlight(loads')
    BY <2>2, <2>3, <2>4, OneMore DEF CountsInv
  <2>. QED
    BY <1>1, <2>2, <2>3, <2>4, <2>5 DEF CountsInv, Sections
<1>3. ASSUME NEW l \in loads, CustomerAnswered(l)
      PROVE  CountsInv'
  <2>. DEFINE q == [n |-> l.n, of |-> l.of, step |-> "rest", since |-> desk[l.of]]
  <2>1. q.n = l.n /\ q.since = desk[l.of] /\ loads' = (loads \ {l}) \cup {q} /\ UNCHANGED cpage
    BY <1>3 DEF CustomerAnswered
  <2>2. q.since \in Counts
    BY <2>1 DEF CustomerInv, CountsInv
  <2>. HIDE DEF q
  <2>3. InFlight(loads')
    BY <2>1, OneInstead DEF CountsInv
  <2>. QED
    BY <1>1, <2>1, <2>2, <2>3 DEF CountsInv, Sections
<1>4. ASSUME NEW l \in loads, RestAnswered(l)
      PROVE  CountsInv'
  <2>1. PICK a, t \in l.since.feedback..desk[l.of].feedback,
             m \in l.since.notes..desk[l.of].notes :
          cpage' = [cpage EXCEPT !.loading = FALSE, !.product = l.of \in Recommended,
                     !.shown = [customer |-> l.of, assessment |-> Section(l.of, a),
                                notes |-> Section(l.of, m),
                                audit |-> TraceOf(l.of, t)]]
    BY <1>4 DEF RestAnswered
  <2>2. /\ l.since \in Counts /\ desk[l.of] \in Counts
    BY <1>4 DEF RestAnswered, CustomerInv, CountsInv
  <2>3. a \in Seen /\ t \in Seen /\ m \in Seen
    BY <2>2, CountsAssumption DEF Counts, Seen
  <2>4. TraceOf(l.of, t) \in {NULL, Section(l.of, t)}
    BY DEF TraceOf
  <2>. DEFINE shown == [customer |-> l.of, assessment |-> Section(l.of, a),
                        notes |-> Section(l.of, m), audit |-> TraceOf(l.of, t)]
  <2>5. {shown.assessment, shown.notes, shown.audit} \ {NULL} \subseteq
          {Section(l.of, a), Section(l.of, m), Section(l.of, t)}
    BY <2>4
  <2>. HIDE DEF shown
  <2>6. cpage'.shown = shown
    BY <1>1, <2>1 DEF CustomerSignals, shown
  <2>7. \A s \in {Section(l.of, a), Section(l.of, m), Section(l.of, t)} : s.seen \in Seen
    BY <2>3 DEF Section
  <2>8. loads' = loads \ {l} /\ InFlight(loads')
    BY <1>4, OneInstead DEF RestAnswered, CountsInv
  <2>9. \A s \in Sections' : s.seen \in Seen
    BY <2>5, <2>6, <2>7 DEF Sections
  <2>. QED
    BY <1>1, <2>8, <2>9 DEF CountsInv
<1>5. ASSUME NEW l \in loads, LoadFailed(l)
      PROVE  CountsInv'
  <2>1. cpage'.shown = Unlisted
    BY <1>1, <1>5 DEF LoadFailed, AfterFailure, CustomerSignals
  <2>2. Sections' = {}
    BY <2>1 DEF Sections, Unlisted
  <2>3. loads' = loads \ {l} /\ InFlight(loads')
    BY <1>5, OneInstead DEF LoadFailed, CountsInv
  <2>. QED
    BY <1>1, <2>2, <2>3 DEF CountsInv
<1>. QED
  BY <1>2, <1>3, <1>4, <1>5

LEMMA CountsFeedback ==
  ASSUME CustomerInv, CountsInv,
         SubmitFeedback \/ FeedbackRecorded \/ FeedbackAnswered \/ RefreshAnswered \/ FeedbackFailed
  PROVE  CountsInv'
<1>1. cpage \in CustomerSignals /\ UNCHANGED <<loads, noting>> /\ desk \in [Visited -> Counts]
  BY DEF CustomerInv, CountsInv, SubmitFeedback, FeedbackRecorded, FeedbackAnswered,
         RefreshAnswered, FeedbackFailed
<1>2. CASE SubmitFeedback
  <2>1. posting'.step = "post" /\ UNCHANGED <<cpage, desk>>
    BY <1>2 DEF SubmitFeedback
  <2>. QED
    BY <1>1, <2>1 DEF CountsInv, Sections
<1>3. CASE FeedbackRecorded
  <2>1. /\ posting.step = "post" /\ posting \in [step : {"post", "recorded"}, of : Visited]
        /\ desk[posting.of].feedback < MaxFeedback /\ UNCHANGED cpage
        /\ desk' = [desk EXCEPT ![posting.of].feedback = desk[posting.of].feedback + 1]
        /\ posting' = [posting EXCEPT !.step = "recorded"]
    BY <1>1, <1>3 DEF FeedbackRecorded, CustomerInv
  <2>2. posting'.step = "recorded" /\ posting.of \in Visited
    BY <2>1
  <2>. DEFINE c == [desk[posting.of] EXCEPT !.feedback = desk[posting.of].feedback + 1]
  <2>3. c \in Counts
    BY <1>1, <2>1, <2>2, CountsAssumption DEF Counts
  <2>4. desk' = [desk EXCEPT ![posting.of] = c]
    BY <1>1, <2>1
  <2>. HIDE DEF c
  <2>5. desk' \in [Visited -> Counts]
    BY <1>1, <2>3, <2>4
  <2>. QED
    BY <1>1, <2>1, <2>2, <2>5 DEF CountsInv, Sections
<1>4. CASE FeedbackAnswered
  <2>1. posting.of \in Visited /\ UNCHANGED desk
    BY <1>4 DEF FeedbackAnswered, CustomerInv
  <2>2. cpage'.shown = cpage.shown
    BY <1>1, <1>4 DEF FeedbackAnswered, CustomerSignals
  <2>3. cpage.shown.customer \in Visited \cup {NULL}
    BY <1>1 DEF CustomerSignals, ShownCustomer
  <2>4. CASE posting' = NULL
    BY <1>1, <2>1, <2>2, <2>4 DEF CountsInv, Sections
  <2>5. CASE posting' # NULL
    <3>1. /\ cpage.shown.customer # NULL
          /\ posting' = [step |-> "refresh", of |-> posting.of, about |-> cpage.shown.customer,
                         rows |-> desk[cpage.shown.customer].feedback,
                         own |-> desk[posting.of].feedback]
      BY <1>4, <2>5 DEF FeedbackAnswered
    <3>2. desk[cpage.shown.customer].feedback \in Nat /\ desk[posting.of].feedback \in Nat
      BY <1>1, <2>1, <2>3, <3>1 DEF Counts
    <3>3. posting'.rows \in Nat /\ posting'.own \in Nat
      BY <3>1, <3>2
    <3>. QED
      BY <1>1, <2>1, <2>2, <3>3 DEF CountsInv, Sections
  <2>. QED
    BY <2>4, <2>5
<1>5. CASE RefreshAnswered
  <2>1. PICK a \in posting.rows..desk[posting.about].feedback,
             t \in posting.own..desk[posting.of].feedback :
          cpage' = [cpage EXCEPT !.shown.assessment = Section(posting.about, a),
                                 !.shown.audit = Section(posting.of, t)]
    BY <1>5 DEF RefreshAnswered
  <2>2. /\ posting.about \in Visited /\ posting.of \in Visited
        /\ posting.rows \in Nat /\ posting.own \in Nat
        /\ posting' = NULL /\ UNCHANGED desk
    BY <1>5 DEF RefreshAnswered, CustomerInv, CountsInv
  <2>3. desk[posting.about] \in Counts /\ desk[posting.of] \in Counts
    BY <1>1, <2>2
  <2>4. a \in Seen /\ t \in Seen
    BY <2>2, <2>3, CountsAssumption DEF Counts, Seen
  <2>5. /\ cpage'.shown.assessment = Section(posting.about, a)
        /\ cpage'.shown.audit = Section(posting.of, t)
        /\ cpage'.shown.notes = cpage.shown.notes
    BY <1>1, <2>1 DEF CustomerSignals, ShownCustomer
  <2>6. /\ Section(posting.about, a).seen \in Seen /\ Section(posting.of, t).seen \in Seen
    BY <2>4 DEF Section
  <2>7. \A s \in Sections' : s.seen \in Seen
    BY <2>5, <2>6 DEF Sections, CountsInv
  <2>. QED
    BY <1>1, <2>2, <2>7 DEF CountsInv
<1>6. CASE FeedbackFailed
  <2>1. cpage'.shown = cpage.shown /\ posting' = NULL /\ UNCHANGED desk
    BY <1>1, <1>6 DEF FeedbackFailed, CustomerSignals
  <2>. QED
    BY <1>1, <2>1 DEF CountsInv, Sections
<1>. QED
  BY <1>2, <1>3, <1>4, <1>5, <1>6

LEMMA CountsNotes ==
  ASSUME CustomerInv, CountsInv,
         SaveNote \/ NoteRecorded \/ NoteAnswered \/ NotesRefreshed \/ NoteFailed
  PROVE  CountsInv'
<1>1. cpage \in CustomerSignals /\ UNCHANGED <<loads, posting>> /\ desk \in [Visited -> Counts]
  BY DEF CustomerInv, CountsInv, SaveNote, NoteRecorded, NoteAnswered, NotesRefreshed, NoteFailed
<1>2. CASE SaveNote
  <2>1. noting'.step = "post" /\ UNCHANGED <<cpage, desk>>
    BY <1>2 DEF SaveNote
  <2>. QED
    BY <1>1, <2>1 DEF CountsInv, Sections
<1>3. CASE NoteRecorded
  <2>1. /\ noting.step = "post" /\ noting \in [step : {"post", "recorded"}, of : Visited]
        /\ desk[noting.of].notes < MaxNotes /\ UNCHANGED cpage
        /\ desk' = [desk EXCEPT ![noting.of].notes = desk[noting.of].notes + 1]
        /\ noting' = [noting EXCEPT !.step = "recorded"]
    BY <1>1, <1>3 DEF NoteRecorded, CustomerInv
  <2>2. noting'.step = "recorded" /\ noting.of \in Visited
    BY <2>1
  <2>. DEFINE c == [desk[noting.of] EXCEPT !.notes = desk[noting.of].notes + 1]
  <2>3. c \in Counts
    BY <1>1, <2>1, <2>2, CountsAssumption DEF Counts
  <2>4. desk' = [desk EXCEPT ![noting.of] = c]
    BY <1>1, <2>1
  <2>. HIDE DEF c
  <2>5. desk' \in [Visited -> Counts]
    BY <1>1, <2>3, <2>4
  <2>. QED
    BY <1>1, <2>1, <2>2, <2>5 DEF CountsInv, Sections
<1>4. CASE NoteAnswered
  <2>1. noting.of \in Visited /\ UNCHANGED desk
    BY <1>4 DEF NoteAnswered, CustomerInv
  <2>2. cpage'.shown = cpage.shown
    BY <1>1, <1>4 DEF NoteAnswered, CustomerSignals
  <2>3. noting'.rows = desk[noting.of].notes
    BY <1>4 DEF NoteAnswered
  <2>4. noting'.rows \in Nat
    BY <1>1, <2>1, <2>3 DEF Counts
  <2>. QED
    BY <1>1, <2>1, <2>2, <2>4 DEF CountsInv, Sections
<1>5. CASE NotesRefreshed
  <2>1. PICK m \in noting.rows..desk[noting.of].notes :
          cpage' = [cpage EXCEPT !.shown.notes = Section(noting.of, m), !.notice = "note saved"]
    BY <1>5 DEF NotesRefreshed
  <2>2. /\ noting.of \in Visited /\ noting.rows \in Nat /\ noting' = NULL /\ UNCHANGED desk
    BY <1>5 DEF NotesRefreshed, CustomerInv, CountsInv
  <2>3. desk[noting.of] \in Counts
    BY <1>1, <2>2
  <2>4. m \in Seen
    BY <2>2, <2>3, CountsAssumption DEF Counts, Seen
  <2>5. /\ cpage'.shown.notes = Section(noting.of, m)
        /\ cpage'.shown.assessment = cpage.shown.assessment
        /\ cpage'.shown.audit = cpage.shown.audit
    BY <1>1, <2>1 DEF CustomerSignals, ShownCustomer
  <2>6. Section(noting.of, m).seen \in Seen
    BY <2>4 DEF Section
  <2>7. \A s \in Sections' : s.seen \in Seen
    BY <2>5, <2>6 DEF Sections, CountsInv
  <2>. QED
    BY <1>1, <2>2, <2>7 DEF CountsInv
<1>6. CASE NoteFailed
  <2>1. cpage'.shown = cpage.shown /\ noting' = NULL /\ UNCHANGED desk
    BY <1>1, <1>6 DEF NoteFailed, CustomerSignals
  <2>. QED
    BY <1>1, <2>1 DEF CountsInv, Sections
<1>. QED
  BY <1>2, <1>3, <1>4, <1>5, <1>6

LEMMA CountsStep ==
  ASSUME CustomerInv, CountsInv, [CustomerPageNext]_customerVars
  PROVE  CountsInv'
<1>1. CASE UNCHANGED customerVars
  BY <1>1 DEF customerVars, CountsInv, Sections
<1>2. CASE SetFeedbackStatus \/ SetFeedbackProduct \/ UpdateRejectReason \/ UpdateNoteText
  <2>1. cpage \in CustomerSignals /\ UNCHANGED <<loads, posting, noting, desk>>
    BY <1>2 DEF CustomerInv, SetFeedbackStatus, SetFeedbackProduct, UpdateRejectReason,
                UpdateNoteText
  <2>2. cpage'.shown = cpage.shown
    BY <1>2, <2>1 DEF SetFeedbackStatus, SetFeedbackProduct, UpdateRejectReason, UpdateNoteText,
                      CustomerSignals
  <2>. QED
    BY <2>1, <2>2 DEF CountsInv, Sections
<1>. QED
  BY <1>1, <1>2, CountsLoad, CountsFeedback, CountsNotes DEF CustomerPageNext

(* CreateRuns is the only step that adds rows, and it asks for their room.  *)
RowsBounded == Len(runRows) <= MaxRuns

LEMMA RowsBoundedStep ==
  ASSUME CaseInv, CaseInv', RowsBounded, [CasePagesNext]_caseVars
  PROVE  RowsBounded'
<1>1. runRows \in Seq(RunRow) /\ runRows' \in Seq(RunRow)
  BY DEF CaseInv, CaseTypes
<1>2. ASSUME DOMAIN runRows' = DOMAIN runRows
      PROVE  RowsBounded'
  <2>1. Len(runRows') = Len(runRows)
    BY <1>1, <1>2, LenProperties
  <2>. QED
    BY <2>1 DEF RowsBounded
<1>3. CASE CreateRuns
  <2>. DEFINE modes == Modes[call.op]
              new == [i \in DOMAIN modes |->
                        [case |-> call.of, mode |-> modes[i], status |-> "PENDING",
                         taken |-> FALSE]]
  <2>1. /\ Len(runRows) + Len(modes) <= MaxRuns /\ runRows' = runRows \o new
        /\ call.op \in {"run", "comparison"}
    BY <1>3 DEF CreateRuns, Modes
  <2>2. PICK k \in 1..2 : DOMAIN modes = 1..k /\ Len(modes) = k
    <3>1. CASE call.op = "run"
      <4>1. modes = <<"MULTI">>
        BY <3>1 DEF Modes
      <4>. QED
        BY <4>1
    <3>2. CASE call.op = "comparison"
      <4>1. modes = <<"SINGLE", "MULTI">>
        BY <3>2 DEF Modes
      <4>. QED
        BY <4>1
    <3>. QED
      BY <2>1, <3>1, <3>2
  <2>. HIDE DEF modes
  <2>. DEFINE S == {new[i] : i \in 1..k}
  <2>3. new \in Seq(S) /\ Len(new) = k
    <3>1. new \in [1..k -> S]
      BY <2>2
    <3>2. new \in Seq(S)
      BY <3>1, <2>2, SeqDef
    <3>. QED
      BY <3>1, <3>2, <2>2, LenProperties
  <2>. HIDE DEF new, S
  <2>4. runRows \in Seq(RunRow \cup S) /\ new \in Seq(RunRow \cup S)
    BY <1>1, <2>3
  <2>5. Len(runRows \o new) = Len(runRows) + k
    BY <2>3, <2>4, ConcatProperties
  <2>. QED
    BY <2>1, <2>2, <2>5 DEF RowsBounded
<1>4. CASE \E i \in 1..2 : RunTaken(i) \/ DispatchFailureRecorded(i)
  BY <1>2, <1>4 DEF RunTaken, DispatchFailureRecorded
<1>5. CASE \E r \in DOMAIN runRows : RunReports(r)
  BY <1>2, <1>5 DEF RunReports
<1>6. CASE UNCHANGED runRows
  BY <1>6 DEF RowsBounded
<1>7. OpenCase \/ RetryCases \/ UpdateInput \/ SubmitCase \/ StartRun \/ SelectCase \/ Compare
        => UNCHANGED runRows
  BY DEF OpenCase, RetryCases, UpdateInput, SubmitCase, StartRun, SelectCase, Compare
<1>8. \A r \in reads :
        CaseAnswered(r) \/ CaseFailed(r) \/ CasesAnswered(r) \/ CasesFailed(r) => UNCHANGED runRows
  BY DEF CaseAnswered, CaseFailed, CasesAnswered, CasesFailed
<1>9. CreateCase \/ RunsReturned \/ Answered \/ CallFailed \/ UNCHANGED caseVars
        => UNCHANGED runRows
  BY DEF CreateCase, RunsReturned, Answered, CallFailed, caseVars
<1>10. \A i \in 1..2 : StartSettles(i) \/ DispatchFailureLost(i) => UNCHANGED runRows
  BY DEF StartSettles, DispatchFailureLost
<1>. QED
  BY <1>3, <1>4, <1>5, <1>6, <1>7, <1>8, <1>9, <1>10 DEF CasePagesNext

(* The field of a list holds what may be entered, and its drawer sends one  *)
(* document at a time.                                                     *)
FieldInv ==
  /\ list.input \in Inputs \cup {Today, ""}
  /\ list.items # NULL => list.items.for \in AllInputs
  /\ drawer = [x \in {"open", "draft", "tried", "saving"} |-> drawer[x]]
  /\ drawer.saving \in {NULL, "sent", "accepted"}

LEMMA FieldStep ==
  ASSUME ListInv, FieldInv, [ListNext]_listVars
  PROVE  FieldInv'
<1>1. list \in ListSignals /\ \A a \in asks : a.input \in AllInputs
  BY DEF ListInv
<1>2. ClosedDrawer = [x \in {"open", "draft", "tried", "saving"} |-> ClosedDrawer[x]]
      /\ ClosedDrawer.saving = NULL
  BY DEF ClosedDrawer
<1>3. CASE Reload \/ RefreshFromTable \/ DocumentAnswered
  <2>1. list'.input = list.input /\ list'.items = list.items /\ drawer' \in {drawer, ClosedDrawer}
    BY <1>1, <1>3 DEF Reload, RefreshFromTable, DocumentAnswered, Loading, ListSignals
  <2>. QED
    BY <1>2, <2>1 DEF FieldInv
<1>4. CASE ChangeDate \/ UpdateQuery \/ ClearSearch
  <2>1. PICK input \in Inputs \cup {Today, ""} :
          list' \in {[list EXCEPT !.input = input], Loading([list EXCEPT !.input = input])}
    BY <1>4 DEF ChangeDate, DateChanged, UpdateQuery, ClearSearch
  <2>2. list'.input = input /\ list'.items = list.items /\ UNCHANGED drawer
    BY <1>1, <1>4, <2>1 DEF ChangeDate, UpdateQuery, ClearSearch, Loading, ListSignals
  <2>. QED
    BY <2>2 DEF FieldInv
<1>5. ASSUME NEW ask \in asks, AskAnswered(ask) \/ AskFailed(ask)
      PROVE  FieldInv'
  <2>1. UNCHANGED drawer
    BY <1>5 DEF AskAnswered, AskFailed
  <2>2. CASE AskAnswered(ask)
    <3>. DEFINE items == [for |-> ask.input]
    <3>1. items.for \in AllInputs
      BY <1>1
    <3>. HIDE DEF items
    <3>2. list'.input = list.input /\ list'.items = items
      BY <1>1, <2>2 DEF AskAnswered, Ended, ListSignals, items
    <3>. QED
      BY <2>1, <3>1, <3>2 DEF FieldInv
  <2>3. CASE AskFailed(ask)
    <3>1. list'.input = list.input /\ list'.items \in {list.items, NULL}
      BY <1>1, <2>3 DEF AskFailed, Ended, ListSignals
    <3>. QED
      BY <2>1, <3>1 DEF FieldInv
  <2>. QED
    BY <1>5, <2>2, <2>3
<1>6. CASE \/ OpenDrawer \/ CloseDrawer \/ TypeDocument \/ SubmitDocument \/ DocumentAccepted
           \/ DocumentFailed
  <2>1. UNCHANGED list
    BY <1>6 DEF OpenDrawer, CloseDrawer, TypeDocument, SubmitDocument, DocumentAccepted,
                DocumentFailed
  <2>2. /\ drawer' = [x \in {"open", "draft", "tried", "saving"} |-> drawer'[x]]
        /\ drawer'.saving \in {NULL, "sent", "accepted"}
    BY <1>6 DEF OpenDrawer, CloseDrawer, TypeDocument, SubmitDocument, DocumentAccepted,
                DocumentFailed, FieldInv
  <2>. QED
    BY <2>1, <2>2 DEF FieldInv
<1>7. CASE UNCHANGED listVars
  BY <1>7 DEF listVars, FieldInv
<1>. QED
  BY <1>3, <1>4, <1>5, <1>6, <1>7 DEF ListNext

-----------------------------------------------------------------------------
(* The theorems.                                                           *)

PagesInv ==
  /\ CaseInv /\ CaseSpins
  /\ CustomerInv /\ CustomerSpins
  /\ ListInv /\ ListSpins
  /\ AdminInv /\ AdminSpins

LEMMA PageSteps ==
  ASSUME [ScreensNext]_screenVars
  PROVE  /\ [CasePagesNext]_caseVars /\ [CustomerPageNext]_customerVars
         /\ [ListNext]_listVars /\ [AdminPagesNext]_adminVars
  BY DEF ScreensNext, screenVars

LEMMA PagesInitInv == ScreensInit => PagesInv
<1>. SUFFICES ASSUME ScreensInit
              PROVE  PagesInv
  OBVIOUS
<1>1. CaseInv /\ CustomerInv /\ ListInv /\ AdminInv /\ AdminSpins
  BY CaseInitInv, CustomerInitInv, ListInitInv, AdminInitInv DEF ScreensInit
<1>2. CaseSpins
  <2>1. PICK kind, c :
          /\ casePage = [kind |-> kind, at |-> IF kind = "comparison" THEN NULL ELSE c,
                         shown |-> NULL, loading |-> kind # "intake", busy |-> FALSE,
                         loadError |-> FALSE, error |-> NULL, result |-> NULL]
          /\ reads = IF kind = "intake" THEN {}
                     ELSE {IF kind = "detail" THEN [n |-> 1, op |-> "get", of |-> c]
                           ELSE [n |-> 1, op |-> "list", of |-> NULL]}
    BY DEF ScreensInit, CasePagesInit
  <2>2. CASE kind = "intake"
    <3>1. casePage.loading = FALSE
      BY <2>1, <2>2
    <3>. QED
      BY <3>1 DEF CaseSpins
  <2>3. CASE kind # "intake"
    <3>1. reads # {}
      BY <2>1, <2>3
    <3>. QED
      BY <3>1 DEF CaseSpins
  <2>. QED
    BY <2>2, <2>3
<1>3. CustomerSpins
  BY DEF ScreensInit, CustomerPageInit, CustomerSpins
<1>4. ListSpins
  <2>1. PICK page : asks = {[n |-> 1, kind |-> "load",
                             input |-> Asked(page, IF page = "calls" THEN Today ELSE "")]}
    BY DEF ScreensInit, ListInit
  <2>. DEFINE ask == [n |-> 1, kind |-> "load",
                      input |-> Asked(page, IF page = "calls" THEN Today ELSE "")]
  <2>2. ask \in asks /\ ask.kind = "load"
    BY <2>1
  <2>. QED
    BY <2>2 DEF ListSpins
<1>. QED
  BY <1>1, <1>2, <1>3, <1>4 DEF PagesInv

(* The invariants of the pages are inductive.                              *)
THEOREM Invariance == Spec => []PagesInv
<1>1. PagesInv /\ [ScreensNext]_screenVars => PagesInv'
  <2>. SUFFICES ASSUME PagesInv, [ScreensNext]_screenVars
                PROVE  PagesInv'
    OBVIOUS
  <2>1. CaseInv' /\ CustomerInv' /\ ListInv' /\ AdminInv' /\ AdminSpins'
    BY PageSteps, CaseStep, CustomerStep, ListStep, AdminStep DEF PagesInv
  <2>2. CaseSpins' /\ CustomerSpins' /\ ListSpins'
    BY PageSteps, CaseSpinsStep, CustomerSpinsStep, ListSpinsStep DEF PagesInv
  <2>. QED
    BY <2>1, <2>2 DEF PagesInv
<1>. QED
  BY <1>1, PagesInitInv, PTL DEF Spec

(* No page spins for good: what it waits for is in flight, whichever        *)
(* requests of it overlap, fail or are answered late (the finally of every *)
(* load and save).                                                         *)
THEOREM SpinnersWait == Spec => []SpinnerMeansWork
<1>1. PagesInv => SpinnerMeansWork
  BY DEF PagesInv, CaseInv, CaseWaits, CaseSpins, CustomerSpins, ListSpins, AdminSpins,
         SpinnerMeansWork
<1>. QED
  BY <1>1, Invariance, PTL

(* The form of an account or of a branch writes back no field that was not  *)
(* touched, unless another administrator has changed it since (startEdit,  *)
(* onRoleChange, save).                                                    *)
THEOREM FieldsSurvive == Spec => UntouchedFieldsSurvive
<1>1. PagesInv /\ [ScreensNext]_screenVars => [Survives]_adminVars
  BY PageSteps, SavesSurvive DEF PagesInv
<1>2. [][Survives]_adminVars => UntouchedFieldsSurvive
  BY PTL DEF Survives, UntouchedFieldsSurvive
<1>. QED
  BY <1>1, <1>2, Invariance, PTL DEF Spec

(* The signals of every page keep their types, and no page has more in      *)
(* flight than it has numbers for.                                         *)
THEOREM ScreensTypeCorrect == Spec => []ScreensTypeOK
<1>. DEFINE Types == screen \in Screen /\ CountsInv /\ RowsBounded /\ FieldInv
<1>1. ScreensInit => Types
  <2>. SUFFICES ASSUME ScreensInit
                PROVE  Types
    OBVIOUS
  <2>1. screen \in Screen /\ CountsInv
    BY CountsInit DEF ScreensInit
  <2>2. RowsBounded
    <3>1. Len(<<>>) = 0
      OBVIOUS
    <3>. QED
      BY <3>1, RunsAssumption DEF ScreensInit, CasePagesInit, RowsBounded
  <2>3. FieldInv
    <3>1. list.input \in {Today, ""} /\ list.items = NULL /\ drawer = ClosedDrawer
      <4>1. PICK page \in ListPages :
              list = [page |-> page, input |-> IF page = "calls" THEN Today ELSE "",
                      items |-> NULL, loading |-> TRUE, error |-> FALSE]
        BY DEF ScreensInit, ListInit
      <4>. QED
        BY <4>1 DEF ScreensInit, ListInit
    <3>2. /\ ClosedDrawer = [x \in {"open", "draft", "tried", "saving"} |-> ClosedDrawer[x]]
          /\ ClosedDrawer.saving = NULL
      BY DEF ClosedDrawer
    <3>. QED
      BY <3>1, <3>2 DEF FieldInv
  <2>. QED
    BY <2>1, <2>2, <2>3
<1>2. PagesInv /\ PagesInv' /\ Types /\ [ScreensNext]_screenVars => Types'
  <2>. SUFFICES ASSUME PagesInv, PagesInv', Types, [ScreensNext]_screenVars
                PROVE  Types'
    OBVIOUS
  <2>1. UNCHANGED screen
    BY DEF ScreensNext, screenVars
  <2>2. CountsInv' /\ RowsBounded' /\ FieldInv'
    BY PageSteps, CountsStep, RowsBoundedStep, FieldStep DEF PagesInv
  <2>. QED
    BY <2>1, <2>2
<1>3. PagesInv /\ Types => ScreensTypeOK
  <2>. SUFFICES ASSUME PagesInv, Types
                PROVE  ScreensTypeOK
    OBVIOUS
  <2>1. CustomerPageTypeOK
    <3>1. Cardinality(loads) <= MaxInFlight
      BY Bounded DEF CountsInv
    <3>2. cpage \in CustomerSignals /\ cpage.shown \in ShownCustomer
      BY DEF PagesInv, CustomerInv, CustomerSignals
    <3>3. /\ cpage.route \in Visited \cup {"invalid"} /\ cpage.status \in Statuses
          /\ cpage.shown.customer \in Visited \cup {NULL}
      BY <3>2 DEF CustomerSignals, ShownCustomer
    <3>4. \A s \in Sections : s.of \in Visited
      BY <3>2 DEF Sections, ShownCustomer, SectionsOrNone
    <3>. QED
      BY <3>1, <3>3, <3>4 DEF PagesInv, CustomerInv, CountsInv, Seen, CustomerPageTypeOK
  <2>2. AdminPagesTypeOK
    <3>1. Cardinality(listings) <= MaxInFlight /\ Cardinality(work) <= MaxInFlight
      BY Bounded DEF PagesInv, AdminInv, ListingsInv, WorkInv
    <3>. QED
      BY <3>1 DEF PagesInv, AdminInv, AdminSignals, RegistryInv, Rows, IsRow, AdminPagesTypeOK
  <2>3. CasePagesTypeOK
    <3>1. casePage.at \in Cases \cup {NULL}
      BY DEF PagesInv, CaseInv, CaseTypes, Page
    <3>2. \A i \in DOMAIN runRows : runRows[i].status \in {"PENDING", "STARTED", "FAILED"}
      <4>1. \A i \in DOMAIN runRows : runRows[i] \in RunRow
        BY LenProperties, ElementOfSeq DEF PagesInv, CaseInv, CaseTypes
      <4>. QED
        BY <4>1 DEF RunRow
    <3>. QED
      BY <3>1, <3>2 DEF PagesInv, CaseInv, CaseTypes, ResultKnows, Safe, RowsBounded,
                        CasePagesTypeOK
  <2>4. ListTypeOK
    BY DEF PagesInv, ListInv, ListSignals, FieldInv, AllInputs, ListTypeOK
  <2>. QED
    BY <2>1, <2>2, <2>3, <2>4 DEF ScreensTypeOK
<1>. HIDE DEF Types
<1>. QED
  BY <1>1, <1>2, <1>3, Invariance, PTL DEF Spec

(* A run the user is told was started was taken by the AI service or is     *)
(* recorded as failed, however late the answers, the runs and the records  *)
(* of RunsService.create and createComparison come.                        *)
THEOREM Acknowledged == Spec => []AcknowledgedRunIsDispatched
<1>1. PagesInv => AcknowledgedRunIsDispatched
  BY DEF PagesInv, CaseInv, ResultKnows, Safe, AcknowledgedRunIsDispatched
<1>. QED
  BY <1>1, Invariance, PTL

(* ComparisonComponent shows no comparison of another case than the one     *)
(* selected, unless the selection moved while it was computed.             *)
THEOREM OfSelection == Spec => []ComparisonIsOfSelection
<1>1. PagesInv => ComparisonIsOfSelection
  BY DEF PagesInv, CaseInv, OneSelection, ComparisonIsOfSelection
<1>. QED
  BY <1>1, Invariance, PTL

(* NbaCustomerDetailComponent turns to another customer as a whole,        *)
(* whichever loads, refreshes and failures are late.                       *)
THEOREM WholeTurns == Spec => TurnsAsAWhole
<1>1. PagesInv /\ [ScreensNext]_screenVars => [Turned]_customerVars
  BY PageSteps, CustomerStep DEF PagesInv
<1>2. [][Turned]_customerVars => TurnsAsAWhole
  BY PTL DEF Turned, TurnsAsAWhole
<1>. QED
  BY <1>1, <1>2, Invariance, PTL DEF Spec

(* NbaCallListComponent shows the list of the date in its field, until two  *)
(* of its requests were in flight at a time.                               *)
THEOREM CallListOfDate == Spec => []CallListMatchesDate
<1>1. PagesInv => CallListMatchesDate
  BY DEF PagesInv, ListInv, CallListMatchesDate
<1>. QED
  BY <1>1, Invariance, PTL
=============================================================================
