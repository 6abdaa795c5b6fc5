------------------------------- MODULE Access -------------------------------
(***************************************************************************)
(* Who may do what, on both sides: the pages a browser opens and offers    *)
(* (AuthStateService, permissionsForRoles, the routes), and the guards of  *)
(* the backend that answer what the pages send (JwtAuthGuard, RolesGuard). *)
(* The browser goes by the roles in its token, the backend by the row of   *)
(* `users`.  An administrator changes the login and then the row           *)
(* (IdentityAdmin), while requests are on their way.  What a service       *)
(* refuses after the guards let a request in is not looked at here.        *)
(***************************************************************************)
EXTENDS Pages

CONSTANTS RoleNames,     \* the names of roles a login may have in Keycloak
          MaxChanges,    \* bound: changes of the account by administrators
          MaxOpened      \* bound: routes opened

VARIABLES enforcement,   \* IDENTITY_ENFORCEMENT_MODE
          row,           \* the row of the account: its role and active, or NULL
          login,         \* Keycloak: enabled, and the names of its roles
          change,        \* the change an administrator is half through, or NULL
          changes,       \* history: the changes begun
          token,         \* the role names in the token of the browser, or NULL
          auth,          \* AuthStateService: status and roles
          loaded,        \* the permissions SdPermissionService has loaded
          open,          \* the open page: its route and the permissions it was made with
          opened,        \* history: the routes opened
          request        \* a request on its way, or NULL

accessVars == <<enforcement, row, login, change, changes, token, auth, loaded, open, opened,
                request>>

ApplicationRole == {"employee", "manager", "admin"}
ASSUME NullIsNoRole == NULL \notin ApplicationRole

-----------------------------------------------------------------------------
(* Roles by name.  Both sides read the realm roles, those of the client, and realm-management. *)

\* normalizeApplicationRole, of the backend
NormalizeApplicationRole(name) ==
    CASE name \in {"employee", "sale", "analyst"} -> "employee"
      [] name \in {"manager", "approver"}         -> "manager"
      [] name \in {"admin", "realm-admin"}        -> "admin"
      [] OTHER                                    -> NULL
TokenRoles(names) == {NormalizeApplicationRole(n) : n \in names} \ {NULL}

\* normalizeUserRole, of the browser
UnknownRoleKept(name) == IF name \in {"analyst", "sale"} THEN "employee" ELSE name
NormalizeUserRole(name) ==
    CASE name \in {"employee", "manager", "admin"} -> name
      [] name = "approver"                         -> "manager"
      [] name \in {"analyst", "sale"}              -> "employee"
      [] OTHER                                     -> NULL
ResolveRoles(names) ==
    ({NormalizeUserRole(n) : n \in names} \ {NULL}) \cup
    (IF "realm-admin" \in names THEN {"admin"} ELSE {})

-----------------------------------------------------------------------------
(* The browser: which roles have which permissions, and what they open and offer. *)

CommonPermissions == {"dashboardView", "caseView", "caseCreate", "runView", "runStart",
                      "comparisonView", "nbaView", "customerView"}
ManagerPermissionsAll == {"runApprove", "nbaOperationsView", "branchView", "accountView",
                          "accountManage"}
ManagerPermissions == {"runApprove", "nbaOperationsView", "branchView", "accountView"}
AdminPermissions == {"branchManage", "accountManage", "knowledgeView", "knowledgeCreate"}
StartflowPermissions == CommonPermissions \cup ManagerPermissions \cup AdminPermissions

PermissionsForRoles(roles) ==
    IF roles = {} THEN {}
    ELSE CommonPermissions \cup (IF "manager" \in roles THEN ManagerPermissions ELSE {})
                           \cup (IF "admin" \in roles THEN StartflowPermissions ELSE {})

\* The permission each route asks for; those of the menus are the same.
NbaConsoleRoutes == [operations |-> "nbaOperationsView", administration |-> "accountManage"]
AppRoutes ==
    [dashboard   |-> "dashboardView",  customers   |-> "customerView", customer  |-> "customerView",
     nbaCustomer |-> "nbaView",        nba         |-> "nbaView",      newCase   |-> "caseCreate",
     case        |-> "caseView",       cases       |-> "caseView",     run       |-> "runView",
     comparisons |-> "comparisonView", knowledge   |-> "knowledgeView",
     branches    |-> "branchView",     accounts    |-> "accountView"]
Routes == DOMAIN NbaConsoleRoutes \cup DOMAIN AppRoutes
Opens(route) == IF route \in DOMAIN AppRoutes THEN AppRoutes[route] ELSE NbaConsoleRoutes[route]

\* What a page sends, with the permission without which it does not offer it.  The consoles
\* send nothing.
Offers(route) ==
    CASE route \in {"dashboard", "cases", "newCase"} -> {<<AppRoutes[route], "cases">>}
      [] route = "customers"   -> {<<"customerView", "customers">>}
      [] route \in {"customer", "nbaCustomer"} ->
             {<<AppRoutes[route], op>> : op \in {"customer", "feedback", "audit", "notes"}}
      [] route = "nba"         -> {<<"nbaView", "calllist">>}
      [] route = "case"        -> {<<"caseView", "cases">>, <<"runStart", "runs">>}
      [] route = "run"         -> {<<"runView", "runs">>, <<"runView", "events">>,
                                   <<"runApprove", "approvals">>}
      [] route = "comparisons" -> {<<"comparisonView", "cases">>, <<"comparisonView", "runs">>}
      [] route = "knowledge"   -> {<<"knowledgeView", "knowledge">>,
                                   <<"knowledgeCreate", "knowledge">>}
      [] route = "branches"    -> {<<"branchView", "branches">>, <<"branchManage", "editBranch">>}
      [] route = "accounts"    -> {<<"accountView", "accounts">>, <<"accountView", "branches">>,
                                   <<"accountManage", "editAccount">>}
      [] OTHER                 -> {}

-----------------------------------------------------------------------------
(* The backend: the role each endpoint requires. *)

NbaEndpoints      == {"calllist", "customers", "customer", "feedback", "audit", "notes"}
                        \X {"employee"}
IdentityEndpoints == {"branches", "accounts"} \X {"manager"} \cup
                     {"editBranch", "editAccount"} \X {"admin"}
CasesEndpoints    == {<<"cases", "employee">>}
RunsEndpoints     == {<<"runs", "employee">>}
EventsEndpoints   == {<<"events", "employee">>}
ApprovalEndpoints == {<<"approvals", "manager">>}
KnowledgeEndpoints == {<<"knowledge", "admin">>}
Endpoints == NbaEndpoints \cup IdentityEndpoints \cup CasesEndpoints \cup RunsEndpoints
             \cup EventsEndpoints \cup ApprovalEndpoints \cup KnowledgeEndpoints
Required(op) == {e[2] : e \in {x \in Endpoints : x[1] = op}}

AllowedByRequirement == [employee |-> ApplicationRole, manager |-> {"manager", "admin"},
                         admin |-> {"admin"}]
Authorized(op, role) ==
    Required(op) # {} => \E r \in Required(op) : role \in AllowedByRequirement[r]

-----------------------------------------------------------------------------
Unauthenticated == [status |-> "unauthenticated", roles |-> {}]

\* The account and its login agree at first; without a row, the login may have any roles.
AccessInit ==
    /\ enforcement \in {"compat", "strict"}
    /\ row \in [role : ApplicationRole, active : {TRUE}] \cup {NULL}
    /\ \E names \in SUBSET RoleNames :
         /\ row # NULL => TokenRoles(names) = {row.role}
         /\ login = [enabled |-> TRUE, names |-> names]
    /\ change = NULL /\ changes = 0
    /\ token = NULL /\ auth = Unauthenticated
    /\ loaded = {} /\ open = NULL /\ opened = 0 /\ request = NULL

browserVars == <<token, auth, loaded, open, opened>>

(* The administrator: IdentityService changes the login first. *)

EnabledAgain ==
    request' = IF request = NULL THEN NULL ELSE [request EXCEPT !.disabled = FALSE]

AdminChangesLogin ==
    /\ change = NULL /\ row # NULL /\ changes < MaxChanges
    /\ changes' = changes + 1
    /\ \/ /\ change' = "disable" /\ login' = [login EXCEPT !.enabled = FALSE]
          /\ UNCHANGED request
       \/ /\ change' = "enable" /\ login' = [login EXCEPT !.enabled = TRUE]
          /\ EnabledAgain
       \/ /\ \E r \in ApplicationRole \ {row.role} :
               change' = r /\ login' = [login EXCEPT !.names = {r}]
          /\ UNCHANGED request
    /\ UNCHANGED <<enforcement, row, browserVars>>

AdminSavesRow ==
    /\ change # NULL /\ change' = NULL
    /\ row' = IF change \in ApplicationRole THEN [row EXCEPT !.role = change]
              ELSE [row EXCEPT !.active = change = "enable"]
    /\ UNCHANGED <<enforcement, login, changes, browserVars, request>>

\* The row is not written, and the login is put back or, when that fails too, left as it is.
AdminGivesUp ==
    /\ change # NULL /\ change' = NULL
    /\ \/ UNCHANGED <<login, request>>
       \/ IF change \in ApplicationRole
          THEN login' = [login EXCEPT !.names = {row.role}] /\ UNCHANGED request
          ELSE login' = [login EXCEPT !.enabled = row.active] /\ EnabledAgain
    /\ UNCHANGED <<enforcement, row, changes, browserVars>>

-----------------------------------------------------------------------------
(* The browser *)

Refresh(names) == auth' = [status |-> "authenticated", roles |-> ResolveRoles(names)]

SignIn ==
    /\ auth.status # "authenticated" /\ login.enabled
    /\ token' = login.names /\ Refresh(login.names)
    /\ UNCHANGED <<enforcement, row, login, change, changes, loaded, open, opened, request>>

\* Keycloak navigates away, and the application starts anew.
SignOut ==
    /\ token # NULL
    /\ token' = NULL /\ auth' = Unauthenticated
    /\ loaded' = {} /\ open' = NULL /\ request' = NULL
    /\ UNCHANGED <<enforcement, row, login, change, changes, opened>>

\* The guards of a route; the permissions may have been loaded for an earlier route.
OpenRoute ==
    /\ auth.status = "authenticated" /\ opened < MaxOpened
    /\ opened' = opened + 1
    /\ loaded' \in {PermissionsForRoles(auth.roles)} \cup (IF loaded = {} THEN {} ELSE {loaded})
    /\ \E route \in Routes :
         open' = IF Opens(route) \in loaded' THEN [route |-> route, permissions |-> loaded']
                 ELSE NULL      \* the page "forbidden"
    /\ UNCHANGED <<enforcement, row, login, change, changes, token, auth, request>>

\* getAccessToken renews a token that is about to expire, with the roles of now.
SendRequest ==
    /\ open # NULL /\ request = NULL /\ token # NULL
    /\ \E names \in {token} \cup (IF login.enabled THEN {login.names} ELSE {}) :
         /\ token' = names /\ Refresh(names)
         /\ \E offer \in Offers(open.route) :
              /\ offer[1] \in open.permissions
              /\ request' = [op |-> offer[2], names |-> names, step |-> "sent",
                             role |-> NULL, source |-> NULL,
                             disabled |-> /\ ~(login.enabled /\ row # NULL /\ row.active)
                                          /\ change # "enable" /\ row # NULL]
    /\ UNCHANGED <<enforcement, row, login, change, changes, loaded, open, opened>>

\* The renewal is refused: the roles stay, the guard of the next route signs in again.
TokenRefused ==
    /\ open # NULL /\ request = NULL /\ token # NULL
    /\ auth' = [auth EXCEPT !.status = "error"]
    /\ UNCHANGED <<enforcement, row, login, change, changes, token, loaded, open, opened,
                   request>>

\* Any status and any failure is the end of a request for its page.
Answered ==
    /\ request # NULL /\ request.step \in {"allowed", "unauthorized", "forbidden"}
    /\ request' = NULL
    /\ UNCHANGED <<enforcement, row, login, change, changes, browserVars>>

-----------------------------------------------------------------------------
(* The guards *)

Handled == UNCHANGED <<enforcement, row, login, change, changes, browserVars>>
Stepped(step) == request' = [request EXCEPT !.step = step]

\* Keycloak says whether the token is active: that of a disabled login is not.
TokenAnswers == TRUE    \* the answer is read without its field active
TokenIsActive == login.enabled
Introspect ==
    /\ request # NULL /\ request.step = "sent"
    /\ Stepped(IF TokenIsActive THEN "introspected" ELSE "unauthorized")
    /\ Handled

\* The token expired, its signature or its audience is wrong, or Keycloak does not answer.
TokenInvalid ==
    /\ request # NULL /\ request.step = "sent"
    /\ Stepped("unauthorized") /\ Handled

Highest(roles) == IF "admin" \in roles THEN "admin"
                  ELSE IF "manager" \in roles THEN "manager"
                  ELSE IF "employee" \in roles THEN "employee" ELSE NULL

\* toUser and then RolesGuard: the request is let in as a role, taken from the source.
LetIn(role, source) ==
    request' = IF role = NULL THEN [request EXCEPT !.step = "unauthorized"]
               ELSE [request EXCEPT
                       !.step = IF Authorized(request.op, role)
                                THEN "allowed" ELSE "forbidden",
                       !.role = role, !.source = source]

ToUser ==
    /\ request # NULL /\ request.step = "introspected"
    /\ IF row # NULL
       THEN IF row.active THEN LetIn(row.role, "row") ELSE Stepped("unauthorized")
       ELSE IF enforcement = "strict" THEN Stepped("unauthorized")
       ELSE LetIn(Highest(TokenRoles(request.names)), "token")
    /\ Handled

\* The row cannot be read.  Strict gives up; compat looks for a row of the former schema, which
\* has no role and is always active, and takes the first role of the token.
RowUnreadable ==
    /\ request # NULL /\ request.step = "introspected"
    /\ \/ Stepped("unauthorized")
       \/ /\ enforcement = "compat"
          /\ \/ LetIn(Highest(TokenRoles(request.names)), "token")
             \/ /\ row # NULL
                /\ \E role \in TokenRoles(request.names) \cup
                               (IF TokenRoles(request.names) = {} THEN {"employee"} ELSE {}) :
                     LetIn(role, "first role")
    /\ Handled

AccessNext ==
    \/ AdminChangesLogin \/ AdminSavesRow \/ AdminGivesUp
    \/ SignIn \/ SignOut \/ OpenRoute \/ SendRequest \/ TokenRefused \/ Answered
    \/ Introspect \/ TokenInvalid \/ ToUser \/ RowUnreadable

Spec == AccessInit /\ [][AccessNext]_accessVars

-----------------------------------------------------------------------------
(* Properties *)

AccessTypeOK ==
    /\ row # NULL => row.role \in ApplicationRole /\ row.active \in BOOLEAN
    /\ login.names \subseteq RoleNames \cup ApplicationRole
    /\ auth.roles \subseteq ApplicationRole /\ loaded \subseteq StartflowPermissions
    /\ request # NULL /\ request.step \in {"allowed", "forbidden"} =>
           request.role \in ApplicationRole

\* What a page offers is allowed: as long as nobody changes the account, the backend answers
\* no request of a page with 403, whichever names its roles have in Keycloak and whether the
\* account has a row or not.  The two sides keep their tables of roles, names and permissions
\* in different languages and packages (permissionsForRoles, RolesGuard).
OfferedIsAllowed ==
    (request # NULL /\ request.step = "forbidden" /\ request.source # "first role") =>
        changes > 0

\* A disabled account is out: no request it sends after an administrator has disabled it is
\* let in, even while the row does not say so yet or the login was left enabled, and whatever
\* its token says; unless it is being enabled again, or the row could not be read (canActivate).
DisabledIsOut ==
    (request # NULL /\ request.step = "allowed" /\ request.source = "row") => ~request.disabled
=============================================================================
