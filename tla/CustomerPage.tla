---------------------------- MODULE CustomerPage ----------------------------
(***************************************************************************)
(* The page of a customer (NbaCustomerDetailComponent) on the requests of  *)
(* NbaApiService: it loads the customer, then the assessment, the notes    *)
(* and the trace of the recommendation together; the user gives feedback   *)
(* and writes notes.  The route may change to another customer while       *)
(* anything is in flight, and the page stays.  The desk behind it only     *)
(* counts the feedback and the notes of a customer.                        *)
(***************************************************************************)
EXTENDS Pages

CONSTANTS Visited,       \* the customers the user may open
          Recommended,   \* those of Visited that have a recommendation
          MaxFeedback,   \* bound: the feedback rows of a customer
          MaxNotes,      \* bound: the notes of a customer
          MaxMoves       \* bound: how often the route changes or a load is retried

VARIABLES cpage,         \* the signals of the component
          loads,         \* the calls of load awaiting an answer
          posting,       \* submitFeedback awaiting an answer, or NULL
          noting,        \* saveNote awaiting an answer, or NULL
          desk,          \* c -> [feedback, notes]: the rows of the backend
          moves

ASSUME CountsAssumption == MaxFeedback \in Nat /\ MaxNotes \in Nat

customerVars == <<cpage, loads, posting, noting, desk, moves>>

Statuses == {"rejected", "other"}     \* success, callback and no_contact are treated alike
Unlisted == [customer |-> NULL, assessment |-> NULL, notes |-> NULL, audit |-> NULL]

(* What the four sections show: the customer it is about, and how many rows it has seen. *)
Section(c, seen) == [of |-> c, seen |-> seen]

\* load: a second call starts while the first one is awaited; a customer that is no number
\* ends it at once.
LoadStarted(page, c) ==
    [page EXCEPT !.loading = c # "invalid", !.error = c = "invalid"]
LoadSentUnchecked(c) == loads \cup {[n |-> NextNumber(loads), of |-> c, step |-> "customer"]}
LoadSent(c) ==
    IF c = "invalid" THEN loads
    ELSE loads \cup {[n |-> NextNumber(loads), of |-> c, step |-> "customer"]}

CustomerPageInit ==
    /\ desk = [c \in Visited |-> [feedback |-> 0, notes |-> 0]]
    /\ posting = NULL /\ noting = NULL /\ moves = 0
    /\ \E c \in Visited :
         /\ cpage = [shown |-> Unlisted, route |-> c, loading |-> TRUE, error |-> FALSE,
                     status |-> "other", product |-> FALSE, reason |-> FALSE,
                     noteText |-> FALSE, notice |-> NULL]
         /\ loads = {[n |-> 1, of |-> c, step |-> "customer"]}

\* The effect of the constructor: the input customerId changed, to a number or not.
OpenCustomer ==
    /\ moves < MaxMoves /\ CanSend(loads)
    /\ \E c \in (Visited \cup {"invalid"}) \ {cpage.route} :
         /\ cpage' = LoadStarted([cpage EXCEPT !.route = c], c)
         /\ loads' = LoadSent(c)
    /\ moves' = moves + 1
    /\ UNCHANGED <<posting, noting, desk>>

RetryLoad ==
    /\ cpage.error /\ ~cpage.loading
    /\ moves < MaxMoves /\ CanSend(loads)
    /\ cpage' = LoadStarted(cpage, cpage.route)
    /\ loads' = LoadSent(cpage.route)
    /\ moves' = moves + 1
    /\ UNCHANGED <<posting, noting, desk>>

\* getCustomer answered; the other three are sent, the trace only with a recommendation.
CustomerAnswered(l) ==
    /\ l.step = "customer"
    /\ loads' = (loads \ {l}) \cup
                {[n |-> l.n, of |-> l.of, step |-> "rest", since |-> desk[l.of]]}
    /\ UNCHANGED <<cpage, posting, noting, desk, moves>>

\* Without a recommendation there is no trace to ask for.
TraceKept(c, rows) == IF c \in Recommended THEN Section(c, rows) ELSE cpage.shown.audit
TraceOf(c, rows) == IF c \in Recommended THEN Section(c, rows) ELSE NULL

\* All three answered: each read the rows at some moment since it was sent.
RestAnswered(l) ==
    /\ l.step = "rest"
    /\ \E a, t \in l.since.feedback..desk[l.of].feedback, m \in l.since.notes..desk[l.of].notes :
         cpage' = [cpage EXCEPT !.loading = FALSE, !.product = l.of \in Recommended,
                     !.shown = [customer |-> l.of, assessment |-> Section(l.of, a),
                                notes |-> Section(l.of, m),
                                audit |-> TraceOf(l.of, t)]]
    /\ loads' = loads \ {l}
    /\ UNCHANGED <<posting, noting, desk, moves>>

\* A request of the load failed.  finally ends the spinner, of whichever load it is.
AfterFailureSpinning == [cpage EXCEPT !.error = TRUE, !.shown = Unlisted]
AfterFailure == [cpage EXCEPT !.loading = FALSE, !.error = TRUE, !.shown = Unlisted]
LoadFailed(l) ==
    /\ cpage' = AfterFailure
    /\ loads' = loads \ {l}
    /\ UNCHANGED <<posting, noting, desk, moves>>

-----------------------------------------------------------------------------
\* The template hides the content behind the spinner and the error.
Visible == ~cpage.loading /\ ~cpage.error /\ cpage.shown.customer # NULL

SetFeedbackStatus ==
    /\ Visible
    /\ \E s \in Statuses \ {cpage.status} :
         cpage' = [cpage EXCEPT !.status = s, !.reason = @ /\ s = "rejected"]
    /\ UNCHANGED <<loads, posting, noting, desk, moves>>

SetFeedbackProduct ==
    /\ Visible /\ ~cpage.product
    /\ cpage' = [cpage EXCEPT !.product = TRUE]
    /\ UNCHANGED <<loads, posting, noting, desk, moves>>

UpdateRejectReason ==
    /\ Visible /\ cpage.status = "rejected"
    /\ cpage' = [cpage EXCEPT !.reason = ~@]
    /\ UNCHANGED <<loads, posting, noting, desk, moves>>

UpdateNoteText ==
    /\ Visible
    /\ cpage' = [cpage EXCEPT !.noteText = ~@]
    /\ UNCHANGED <<loads, posting, noting, desk, moves>>

SubmitFeedback ==
    /\ Visible /\ posting = NULL
    /\ cpage.shown.customer \in Recommended /\ cpage.product
    /\ cpage.status = "rejected" => cpage.reason
    /\ posting' = [step |-> "post", of |-> cpage.shown.customer]
    /\ UNCHANGED <<cpage, loads, noting, desk, moves>>

\* The row is written, whether the answer arrives or not.  On the answer the assessment of
\* the customer shown at that time is read again, with the trace of the old recommendation.
FeedbackRecorded ==
    /\ posting # NULL /\ posting.step = "post"
    /\ desk[posting.of].feedback < MaxFeedback
    /\ desk' = [desk EXCEPT ![posting.of].feedback = @ + 1]
    /\ posting' = [posting EXCEPT !.step = "recorded"]
    /\ UNCHANGED <<cpage, loads, noting, moves>>

FeedbackAnswered ==
    /\ posting # NULL /\ posting.step = "recorded"
    /\ LET c == cpage.shown.customer IN
       IF c = NULL
       THEN /\ cpage' = [cpage EXCEPT !.reason = FALSE, !.notice = "feedback failed"]
            /\ posting' = NULL
       ELSE /\ cpage' = [cpage EXCEPT !.reason = FALSE, !.notice = "feedback recorded"]
            /\ posting' = [step |-> "refresh", of |-> posting.of, about |-> c,
                           rows |-> desk[c].feedback, own |-> desk[posting.of].feedback]
    /\ UNCHANGED <<loads, noting, desk, moves>>

RefreshAnswered ==
    /\ posting # NULL /\ posting.step = "refresh"
    /\ \E a \in posting.rows..desk[posting.about].feedback,
          t \in posting.own..desk[posting.of].feedback :
         cpage' = [cpage EXCEPT !.shown.assessment = Section(posting.about, a),
                                !.shown.audit = Section(posting.of, t)]
    /\ posting' = NULL
    /\ UNCHANGED <<loads, noting, desk, moves>>

\* The POST failed or its answer was lost, or a request of the refresh failed: one notice.
FeedbackFailed ==
    /\ posting # NULL
    /\ cpage' = [cpage EXCEPT !.notice = "feedback failed"]
    /\ posting' = NULL
    /\ UNCHANGED <<loads, noting, desk, moves>>

SaveNote ==
    /\ Visible /\ noting = NULL /\ cpage.noteText
    /\ noting' = [step |-> "post", of |-> cpage.shown.customer]
    /\ UNCHANGED <<cpage, loads, posting, desk, moves>>

NoteRecorded ==
    /\ noting # NULL /\ noting.step = "post"
    /\ desk[noting.of].notes < MaxNotes
    /\ desk' = [desk EXCEPT ![noting.of].notes = @ + 1]
    /\ noting' = [noting EXCEPT !.step = "recorded"]
    /\ UNCHANGED <<cpage, loads, posting, moves>>

NoteAnswered ==
    /\ noting # NULL /\ noting.step = "recorded"
    /\ cpage' = [cpage EXCEPT !.noteText = FALSE]
    /\ noting' = [step |-> "refresh", of |-> noting.of, rows |-> desk[noting.of].notes]
    /\ UNCHANGED <<loads, posting, desk, moves>>

NotesRefreshed ==
    /\ noting # NULL /\ noting.step = "refresh"
    /\ \E m \in noting.rows..desk[noting.of].notes :
         cpage' = [cpage EXCEPT !.shown.notes = Section(noting.of, m), !.notice = "note saved"]
    /\ noting' = NULL
    /\ UNCHANGED <<loads, posting, desk, moves>>

NoteFailed ==
    /\ noting # NULL
    /\ cpage' = [cpage EXCEPT !.notice = "note failed"]
    /\ noting' = NULL
    /\ UNCHANGED <<loads, posting, desk, moves>>

CustomerPageNext ==
    \/ OpenCustomer \/ RetryLoad
    \/ \E l \in loads : CustomerAnswered(l) \/ RestAnswered(l) \/ LoadFailed(l)
    \/ SetFeedbackStatus \/ SetFeedbackProduct \/ UpdateRejectReason \/ UpdateNoteText
    \/ SubmitFeedback \/ FeedbackRecorded \/ FeedbackAnswered \/ RefreshAnswered
    \/ FeedbackFailed
    \/ SaveNote \/ NoteRecorded \/ NoteAnswered \/ NotesRefreshed \/ NoteFailed

-----------------------------------------------------------------------------
(* Properties *)

Sections == {cpage.shown.assessment, cpage.shown.notes, cpage.shown.audit} \ {NULL}

CustomerPageTypeOK ==
    /\ cpage.route \in Visited \cup {"invalid"}
    /\ cpage.status \in Statuses
    /\ cpage.shown.customer \in Visited \cup {NULL}
    /\ \A s \in Sections : s.of \in Visited /\ s.seen \in 0..(MaxFeedback + MaxNotes)
    /\ Cardinality(loads) <= MaxInFlight /\ \A l \in loads : l.of \in Visited

\* Whenever the page turns to another customer, all it shows is about that one: the customer
\* is not shown before the assessment, the notes and the trace have arrived (load).
TurnsAsAWhole ==
    [][cpage'.shown.customer # cpage.shown.customer =>
          \A s \in {cpage'.shown.assessment, cpage'.shown.notes, cpage'.shown.audit} :
             s = NULL \/ s.of = cpage'.shown.customer]_customerVars
=============================================================================
