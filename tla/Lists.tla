------------------------------- MODULE Lists -------------------------------
(***************************************************************************)
(* The pages that show a list: the call list of a date, the customers that *)
(* match a query, the loan cases, the dashboard over the cases, and the    *)
(* knowledge base with the drawer that adds a document.  They load alike   *)
(* and differ in what makes them load and in what a failure leaves.  The   *)
(* answer for a date or a query is named after it; the backend keeps the   *)
(* documents of the knowledge base.                                        *)
(***************************************************************************)
EXTENDS Pages

CONSTANTS Inputs,        \* the dates or the queries the user may enter; "" is the empty query
          Today,         \* the one the pages start with
          MaxAsks        \* bound: the requests a page sends

VARIABLES list,          \* the signals of the component
          asks,          \* the calls of load, search and refreshFromTable awaiting an answer
          drawer,        \* IngestDrawerComponent; used on the page of the knowledge base only
          documents,     \* history: the documents the backend accepted
          sent,          \* the requests sent
          overlap        \* history: two requests of the page were in flight at a time

listVars == <<list, asks, drawer, documents, sent, overlap>>

ListPages == {"calls", "customers", "cases", "dashboard", "knowledge"}

\* The pages whose request carries the input; the others filter what they have, or nothing.
Asking == {"calls", "customers"}
Asked(page, input) == IF page \in Asking THEN input ELSE NULL

Ask(n, kind) == [n |-> n, kind |-> kind, input |-> Asked(list.page, list'.input)]
Sends(kind) ==
    /\ CanSend(asks) /\ sent < MaxAsks
    /\ sent' = sent + 1
    /\ asks' = asks \cup {Ask(NextNumber(asks), kind)}
    /\ overlap' = (overlap \/ asks # {})
Stays == UNCHANGED <<asks, sent, overlap>>

ClosedDrawer == [open |-> FALSE, draft |-> NULL, tried |-> FALSE, saving |-> NULL]

ListInit ==
    /\ \E page \in ListPages :
         /\ list = [page |-> page, input |-> IF page = "calls" THEN Today ELSE "",
                    items |-> NULL, loading |-> TRUE, error |-> FALSE]
         /\ asks = {[n |-> 1, kind |-> "load",
                     input |-> Asked(page, IF page = "calls" THEN Today ELSE "")]}
    /\ drawer = ClosedDrawer /\ documents = 0
    /\ sent = 1 /\ overlap = FALSE

Loading(l) == [l EXCEPT !.loading = TRUE, !.error = FALSE]

\* load of a button or of a retry, on any page; of onIngested, on the page of documents.
Reload ==
    /\ list' = Loading(list) /\ Sends("load")
    /\ UNCHANGED <<drawer, documents>>

\* NbaCallListComponent.changeDate loads the list of the new date.
ChangeDateOnly(l, input) == [l EXCEPT !.input = input]
DateChanged(l, input) == Loading([l EXCEPT !.input = input])
ChangeDate ==
    /\ list.page = "calls"
    /\ \E input \in Inputs \ {list.input, ""} : list' = DateChanged(list, input)
    /\ IF list'.loading THEN Sends("load") ELSE Stays
    /\ UNCHANGED <<drawer, documents>>

\* updateQuery only remembers the query; search asks for it.
UpdateQuery ==
    /\ list.page \in {"customers", "cases"}
    /\ \E input \in Inputs \ {list.input} : list' = [list EXCEPT !.input = input]
    /\ Stays /\ UNCHANGED <<drawer, documents>>

ClearSearch ==
    /\ list.page = "customers"
    /\ list' = Loading([list EXCEPT !.input = ""]) /\ Sends("load")
    /\ UNCHANGED <<drawer, documents>>

\* The reload button of the table of cases, without the spinner.
RefreshFromTable ==
    /\ list.page = "cases" /\ ~list.loading /\ ~list.error
    /\ list' = [list EXCEPT !.error = FALSE] /\ Sends("refresh")
    /\ UNCHANGED <<drawer, documents>>

Ended(l, ask) == [l EXCEPT !.loading = @ /\ ask.kind = "refresh"]

AskAnswered(ask) ==
    /\ list' = [Ended(list, ask) EXCEPT !.items = [for |-> ask.input]]
    /\ asks' = asks \ {ask}
    /\ UNCHANGED <<drawer, documents, sent, overlap>>

\* The page of documents empties its list, the others keep theirs behind the error.
AskFailed(ask) ==
    /\ list' = [Ended(list, ask) EXCEPT !.error = TRUE,
                                        !.items = IF list.page = "knowledge" THEN NULL ELSE @]
    /\ asks' = asks \ {ask}
    /\ UNCHANGED <<drawer, documents, sent, overlap>>

-----------------------------------------------------------------------------
(* The drawer of the knowledge base *)

OpenDrawer ==
    /\ list.page = "knowledge" /\ ~drawer.open
    /\ drawer' = [drawer EXCEPT !.open = TRUE]
    /\ UNCHANGED <<list, asks, documents, sent, overlap>>

\* close and Escape do nothing while a document is being sent; the text stays.
CloseDrawer ==
    /\ drawer.open /\ drawer.saving = NULL
    /\ drawer' = [drawer EXCEPT !.open = FALSE]
    /\ UNCHANGED <<list, asks, documents, sent, overlap>>

\* A draft is "short" when the title has less than 3 characters or the content less than 20.
TypeDocument ==
    /\ drawer.open
    /\ \E d \in {"short", "long"} \ {drawer.draft} : drawer' = [drawer EXCEPT !.draft = d]
    /\ UNCHANGED <<list, asks, documents, sent, overlap>>

SubmitDocument ==
    /\ drawer.open /\ drawer.saving = NULL
    /\ documents + 1 < MaxAsks
    /\ drawer' = [drawer EXCEPT !.tried = TRUE,
                                !.saving = IF drawer.draft = "long" THEN "sent" ELSE NULL]
    /\ UNCHANGED <<list, asks, documents, sent, overlap>>

DocumentAccepted ==
    /\ drawer.saving = "sent"
    /\ documents' = documents + 1
    /\ drawer' = [drawer EXCEPT !.saving = "accepted"]
    /\ UNCHANGED <<list, asks, sent, overlap>>

\* The list is loaded again, the drawer closes and forgets what was typed.
DocumentAnswered ==
    /\ drawer.saving = "accepted"
    /\ drawer' = ClosedDrawer
    /\ list' = Loading(list) /\ Sends("load")
    /\ UNCHANGED documents

DocumentFailed ==
    /\ drawer.saving # NULL
    /\ drawer' = [drawer EXCEPT !.saving = NULL]
    /\ UNCHANGED <<list, asks, documents, sent, overlap>>

ListNext ==
    \/ Reload \/ ChangeDate \/ UpdateQuery \/ ClearSearch \/ RefreshFromTable
    \/ \E ask \in asks : AskAnswered(ask) \/ AskFailed(ask)
    \/ OpenDrawer \/ CloseDrawer \/ TypeDocument \/ SubmitDocument
    \/ DocumentAccepted \/ DocumentAnswered \/ DocumentFailed

-----------------------------------------------------------------------------
(* Properties *)

ListTypeOK ==
    /\ list.page \in ListPages /\ list.input \in Inputs \cup {Today, ""}
    /\ list.items # NULL => list.items.for \in Inputs \cup {Today, "", NULL}
    /\ drawer.saving \in {NULL, "sent", "accepted"}

\* The call list shown, when neither hidden nor being loaded, is the list of the date in the
\* field, unless requests overlapped and an older one was answered last (load, changeDate).
CallListMatchesDate ==
    (list.page = "calls" /\ asks = {} /\ ~list.error /\ ~overlap) =>
        list.items.for = list.input
=============================================================================
