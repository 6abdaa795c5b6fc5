----------------------------- MODULE AdminPages -----------------------------
(***************************************************************************)
(* The pages of accounts and of branches (AccountManagementComponent,      *)
(* BranchManagementComponent) on the requests of AdminApiService.  They    *)
(* are the same page with other fields: a list behind filters, an editor   *)
(* in a modal that sends every field of its form, and commands that are    *)
(* confirmed first.  Another administrator changes the same rows.  What    *)
(* the backend checks is the business of IdentityAdmin: here it may refuse *)
(* any change.                                                             *)
(***************************************************************************)
EXTENDS Pages

CONSTANTS Names,          \* usernames, or the codes of branches
          Existing,       \* those of Names that have a row from the start
          RowsOf,         \* kind -> the rows there may be: functions of the fields
          MaxAdminSteps   \* bound: requests sent, filters set, and changes made by others

VARIABLES admin,          \* the signals of the component
          listings,       \* load, loadAccounts and initialize awaiting an answer
          work,           \* saves and commands awaiting an answer
          registry,       \* name -> its row, or NULL
          adminSteps

\* The fields of the form: those a save sends.
FormFields == [accounts |-> {"full_name", "role", "branch"}, branches |-> {"name", "active"}]

\* A row has the fields of its form, and is active or not.
IsRow(kind, row) ==
    /\ row = [f \in FormFields[kind] \cup {"active"} |-> row[f]]
    /\ row.active \in BOOLEAN

ASSUME RowsAssumption == \A kind \in DOMAIN FormFields : \A row \in RowsOf[kind] : IsRow(kind, row)

adminVars == <<admin, listings, work, registry, adminSteps>>

Form(row)  == [f \in FormFields[admin.kind] |-> row[f]]
EmptyDraft == IF admin.kind = "accounts"
              THEN [full_name |-> NULL, role |-> "employee", branch |-> NULL]
              ELSE [name |-> NULL, active |-> TRUE]

\* What save asks of the form.
ValidDraft(draft) ==
    IF admin.kind = "accounts"
    THEN draft.full_name # NULL /\ (draft.role = "admin") = (draft.branch = NULL)
    ELSE draft.name # NULL

NothingFiltered == "any"
Filters == {NothingFiltered, "active", "inactive"}
Matches(row, filter) == row # NULL /\ (filter = NothingFiltered \/ row.active = (filter = "active"))
Listed(filter) == [n \in Names |-> IF Matches(registry[n], filter) THEN registry[n] ELSE NULL]

\* saves: the list is loaded on behalf of a save, which lasts until it is there.
Listing(n, filter, saves) == [n |-> n, step |-> "asked", filter |-> filter, saves |-> saves]
SendListing(filter, saves) ==
    listings' = listings \cup {Listing(NextNumber(listings), filter, saves)}
MaySend(flight) == CanSend(flight) /\ adminSteps < MaxAdminSteps
Step == adminSteps' = adminSteps + 1

AdminPagesInit ==
    /\ \E kind \in DOMAIN FormFields :
         /\ admin = [kind |-> kind, filter |-> NothingFiltered, rows |-> [n \in Names |-> NULL],
                     loading |-> TRUE, error |-> FALSE, saving |-> FALSE,
                     editor |-> NULL, confirm |-> NULL]
         /\ registry \in [Names -> RowsOf[kind] \cup {NULL}]
    /\ \A n \in Names : registry[n] # NULL <=> n \in Existing
    /\ listings = {Listing(1, NothingFiltered, FALSE)}
    /\ work = {} /\ adminSteps = 0

-----------------------------------------------------------------------------
(* The list *)

\* Every filter only sets its signal; the button loads.
UpdateFilter ==
    /\ adminSteps < MaxAdminSteps /\ Step
    /\ \E f \in Filters \ {admin.filter} : admin' = [admin EXCEPT !.filter = f]
    /\ UNCHANGED <<listings, work, registry>>

Load(filter) ==
    /\ MaySend(listings) /\ Step
    /\ admin' = [admin EXCEPT !.loading = TRUE, !.error = FALSE]
    /\ SendListing(filter, FALSE)
    /\ UNCHANGED <<work, registry>>

ApplyFilters == Load(admin.filter)

\* The page of accounts retries with initialize, which knows no filter.
RetryList ==
    /\ admin.error /\ ~admin.loading
    /\ Load(IF admin.kind = "accounts" THEN NothingFiltered ELSE admin.filter)

ListingRead(l) ==
    /\ l.step = "asked"
    /\ listings' = (listings \ {l}) \cup 
                   {[n |-> l.n, step |-> "read", rows |-> Listed(l.filter), saves |-> l.saves]}
    /\ UNCHANGED <<admin, work, registry, adminSteps>>

ListingAnswered(l) ==
    /\ l.step = "read"
    /\ admin' = [admin EXCEPT !.rows = l.rows, !.loading = FALSE,
                              !.saving = @ /\ ~l.saves]
    /\ listings' = listings \ {l}
    /\ UNCHANGED <<work, registry, adminSteps>>

\* The rows of the last answer stay, behind the error.
ListingFailed(l) ==
    /\ admin' = [admin EXCEPT !.error = TRUE, !.loading = FALSE, !.saving = @ /\ ~l.saves]
    /\ listings' = listings \ {l}
    /\ UNCHANGED <<work, registry, adminSteps>>

Shown(name) == ~admin.loading /\ ~admin.error /\ admin.rows[name] # NULL

-----------------------------------------------------------------------------
(* The editor *)

Undisturbed == admin.editor = NULL /\ admin.confirm = NULL

StartCreate ==
    /\ Undisturbed
    /\ \E name \in Names :
         admin' = [admin EXCEPT !.editor = [name |-> name, new |-> TRUE, draft |-> EmptyDraft,
                                            read |-> EmptyDraft, touched |-> {}]]
    /\ UNCHANGED <<listings, work, registry, adminSteps>>

\* The form starts from the row that is listed, whatever has become of it since.
DraftOfName(row) == [EmptyDraft EXCEPT ![IF admin.kind = "accounts" THEN "full_name" ELSE "name"] =
                        row[IF admin.kind = "accounts" THEN "full_name" ELSE "name"]]
DraftOf(row) == Form(row)
StartEdit(name) ==
    /\ Undisturbed /\ Shown(name)
    /\ admin' = [admin EXCEPT !.editor =
                   [name |-> name, new |-> FALSE, draft |-> DraftOf(admin.rows[name]),
                    read |-> Form(admin.rows[name]), touched |-> {}]]
    /\ UNCHANGED <<listings, work, registry, adminSteps>>

\* onRoleChange: an admin belongs to no branch; the switch of a branch exists in an edit only.
ChangeDraft ==
    /\ admin.editor # NULL
    /\ \E f \in FormFields[admin.kind], row \in RowsOf[admin.kind] :
         LET e == admin.editor
             alone == f = "role" /\ row.role = "admin"
         IN /\ row[f] # e.draft[f] /\ (f = "active" => ~e.new)
            /\ admin' = [admin EXCEPT
                 !.editor.draft = IF alone THEN [@ EXCEPT !.role = "admin", !.branch = NULL]
                                  ELSE [@ EXCEPT ![f] = row[f]],
                 !.editor.touched = @ \cup {f} \cup IF alone THEN {"branch"} ELSE {}]
    /\ UNCHANGED <<listings, work, registry, adminSteps>>

CloseEditor ==
    /\ admin.editor # NULL
    /\ admin' = [admin EXCEPT !.editor = NULL]
    /\ UNCHANGED <<listings, work, registry, adminSteps>>

\* Nothing keeps a second click from a second request: saving is shown, not asked.
Save ==
    /\ admin.editor # NULL /\ ValidDraft(admin.editor.draft)
    /\ MaySend(work) /\ Step
    /\ work' = work \cup {[n |-> NextNumber(work), op |-> "save", step |-> "asked",
                           edit |-> admin.editor]}
    /\ admin' = [admin EXCEPT !.saving = TRUE]
    /\ UNCHANGED <<listings, registry>>

\* PUT replaces every field of the form; POST makes an active row for a name that has none.
Written(draft, active) ==
    [f \in DOMAIN draft \cup {"active"} |-> IF f \in DOMAIN draft THEN draft[f] ELSE active]
\* updateBranch hands a branch that is switched off over to deactivateBranch, which leaves
\* the name as it was and knows active branches only.
Closes(edit) == admin.kind = "branches" /\ ~edit.new /\ ~edit.draft.active
SaveApplied(w) ==
    /\ w.op = "save" /\ w.step = "asked"
    /\ w.edit.new <=> registry[w.edit.name] = NULL
    /\ Closes(w.edit) => registry[w.edit.name].active
    /\ registry' = [registry EXCEPT ![w.edit.name] =
                      IF Closes(w.edit) THEN [registry[w.edit.name] EXCEPT !.active = FALSE]
                      ELSE Written(w.edit.draft, w.edit.new \/ registry[w.edit.name].active)]
    /\ work' = (work \ {w}) \cup {[w EXCEPT !.step = "applied"]}
    /\ UNCHANGED <<admin, listings, adminSteps>>

\* closeEditor closes what is open by now, and the list is loaded again.
SaveAnswered(w) ==
    /\ w.op = "save" /\ w.step = "applied" /\ CanSend(listings)
    /\ work' = work \ {w}
    /\ admin' = [admin EXCEPT !.editor = NULL, !.loading = TRUE,
                              !.error = FALSE]
    /\ SendListing(admin.filter, TRUE)
    /\ UNCHANGED <<registry, adminSteps>>

\* Refused, or the answer was lost.
SaveFailed(w) ==
    /\ w.op = "save"
    /\ work' = work \ {w}
    /\ admin' = [admin EXCEPT !.saving = FALSE]
    /\ UNCHANGED <<listings, registry, adminSteps>>

-----------------------------------------------------------------------------
(* Commands: toggleActive, resetPassword, deactivate *)

Commands(row) ==
    IF admin.kind = "accounts" THEN {IF row.active THEN "disable" ELSE "enable", "reset"}
    ELSE IF row.active THEN {"disable"} ELSE {}

AskConfirm(name) ==
    /\ Undisturbed /\ Shown(name)
    /\ \E op \in Commands(admin.rows[name]) :
         admin' = [admin EXCEPT !.confirm = [name |-> name, op |-> op]]
    /\ UNCHANGED <<listings, work, registry, adminSteps>>

Confirmed ==
    /\ admin.confirm # NULL /\ MaySend(work) /\ Step
    /\ work' = work \cup {[n |-> NextNumber(work), op |-> admin.confirm.op, step |-> "asked",
                           name |-> admin.confirm.name]}
    /\ admin' = [admin EXCEPT !.confirm = NULL]
    /\ UNCHANGED <<listings, registry>>

Declined ==
    /\ admin.confirm # NULL
    /\ admin' = [admin EXCEPT !.confirm = NULL]
    /\ UNCHANGED <<listings, work, registry, adminSteps>>

IsCommand(w) == w.op # "save"

CommandApplied(w) ==
    /\ IsCommand(w) /\ w.step = "asked"
    /\ registry' = IF w.op = "reset" THEN registry
                   ELSE [registry EXCEPT ![w.name].active = w.op = "enable"]
    /\ work' = (work \ {w}) \cup {[w EXCEPT !.step = "applied"]}
    /\ UNCHANGED <<admin, listings, adminSteps>>

\* A new password changes nothing that is listed.
CommandAnswered(w) ==
    /\ IsCommand(w) /\ w.step = "applied" /\ CanSend(listings)
    /\ work' = work \ {w}
    /\ IF w.op = "reset"
       THEN UNCHANGED <<admin, listings>>
       ELSE /\ admin' = [admin EXCEPT !.loading = TRUE, !.error = FALSE]
            /\ SendListing(admin.filter, FALSE)
    /\ UNCHANGED <<registry, adminSteps>>

CommandFailed(w) ==
    /\ IsCommand(w)
    /\ work' = work \ {w}
    /\ UNCHANGED <<admin, listings, registry, adminSteps>>

OtherAdminWrites(name) ==
    /\ adminSteps < MaxAdminSteps /\ Step
    /\ registry[name] # NULL
    /\ \E row \in RowsOf[admin.kind] \ {registry[name]} :
         registry' = [registry EXCEPT ![name] = row]
    /\ UNCHANGED <<admin, listings, work>>

AdminPagesNext ==
    \/ UpdateFilter \/ ApplyFilters \/ RetryList
    \/ \E l \in listings : ListingRead(l) \/ ListingAnswered(l) \/ ListingFailed(l)
    \/ StartCreate \/ ChangeDraft \/ CloseEditor \/ Save \/ Confirmed \/ Declined
    \/ \E name \in Names : StartEdit(name) \/ AskConfirm(name) \/ OtherAdminWrites(name)
    \/ \E w \in work :
         \/ SaveApplied(w) \/ SaveAnswered(w) \/ SaveFailed(w)
         \/ CommandApplied(w) \/ CommandAnswered(w) \/ CommandFailed(w)

-----------------------------------------------------------------------------
(* Properties *)

AdminPagesTypeOK ==
    /\ admin.filter \in Filters
    /\ \A n \in Names : registry[n] # NULL => registry[n].active \in BOOLEAN
    /\ Cardinality(listings) <= MaxInFlight /\ Cardinality(work) <= MaxInFlight

\* An edit changes a field that was not touched in the form only if another administrator had
\* changed that field since the row was read: the whole form is sent (save, startEdit).
UntouchedFieldsSurvive ==
    [][\A w \in work : (w.op = "save" /\ w.step = "asked"
                         /\ [w EXCEPT !.step = "applied"] \in work') =>
          \A f \in DOMAIN w.edit.draft \ w.edit.touched :
             w.edit.new \/ registry'[w.edit.name][f] = registry[w.edit.name][f]
                        \/ registry[w.edit.name][f] # w.edit.read[f]]_adminVars
=============================================================================
