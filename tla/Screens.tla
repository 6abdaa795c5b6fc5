------------------------------ MODULE Screens ------------------------------
(***************************************************************************)
(* A browser shows one of the pages; each has its own state and requests,  *)
(* and a behaviour is one of that page.                                    *)
(***************************************************************************)
EXTENDS CustomerPage, AdminPages, CasePages, Lists

VARIABLE screen

screenVars == <<screen, customerVars, adminVars, caseVars, listVars>>

Screen == {"customer", "administration", "cases", "lists"}

ScreensInit ==
    /\ screen \in Screen
    /\ CustomerPageInit /\ AdminPagesInit /\ CasePagesInit /\ ListInit
    /\ screen # "customer" => cpage.route = CHOOSE c \in Visited : TRUE
    /\ screen # "administration" => /\ admin.kind = "branches"
                                    /\ registry = CHOOSE r \in [Names -> RowsOf.branches \cup {NULL}] :
                                         \A n \in Names : r[n] # NULL <=> n \in Existing
    /\ screen # "cases" => casePage.kind = "intake" /\ casePage.at = CHOOSE c \in Cases : TRUE
    /\ screen # "lists" => list.page = "dashboard"

ScreensNext ==
    /\ UNCHANGED screen
    /\ \/ /\ screen = "customer" /\ CustomerPageNext
          /\ UNCHANGED <<adminVars, caseVars, listVars>>
       \/ /\ screen = "administration" /\ AdminPagesNext
          /\ UNCHANGED <<customerVars, caseVars, listVars>>
       \/ /\ screen = "cases" /\ CasePagesNext
          /\ UNCHANGED <<customerVars, adminVars, listVars>>
       \/ /\ screen = "lists" /\ ListNext
          /\ UNCHANGED <<customerVars, adminVars, caseVars>>

Spec == ScreensInit /\ [][ScreensNext]_screenVars

-----------------------------------------------------------------------------
ScreensTypeOK ==
    /\ screen \in Screen
    /\ CustomerPageTypeOK /\ AdminPagesTypeOK /\ CasePagesTypeOK /\ ListTypeOK

\* A page that shows a spinner is waiting for an answer: whichever requests overlap, fail or
\* are answered late, no page spins for good (the finally of every load and save).
SpinnerMeansWork ==
    /\ cpage.loading => loads # {}
    /\ admin.loading => listings # {}
    /\ admin.saving  => (\E w \in work : w.op = "save") \/ (\E l \in listings : l.saves)
    /\ casePage.loading => reads # {}
    /\ casePage.busy => call # NULL
    /\ list.loading => \E ask \in asks : ask.kind = "load"
=============================================================================
