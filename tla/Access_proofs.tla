---------------------------- MODULE Access_proofs ----------------------------
(***************************************************************************)
(* Proofs about Access, for any set of role names in Keycloak and any      *)
(* number of changes and pages.                                            *)
(***************************************************************************)
EXTENDS Access, TLAPS

-----------------------------------------------------------------------------
(* The tables.                                                             *)

(* Both sides read the same roles from the names in a token.               *)
LEMMA SameRoles ==
  ASSUME NEW names
  PROVE  ResolveRoles(names) = TokenRoles(names)
<1>1. ASSUME NEW n, n # "realm-admin"
      PROVE  NormalizeUserRole(n) = NormalizeApplicationRole(n)
  BY <1>1 DEF NormalizeUserRole, NormalizeApplicationRole
<1>2. NormalizeApplicationRole("realm-admin") = "admin"
  BY DEF NormalizeApplicationRole
<1>3. NormalizeUserRole("realm-admin") = NULL
  BY DEF NormalizeUserRole
<1>4. NULL # "admin"
  BY NullIsNoRole DEF ApplicationRole
<1>5. ASSUME NEW r \in ResolveRoles(names)
      PROVE  r \in TokenRoles(names)
  <2>1. CASE r = "admin" /\ "realm-admin" \in names
    BY <2>1, <1>2, <1>4 DEF TokenRoles
  <2>2. CASE \E n \in names : r = NormalizeUserRole(n) /\ r # NULL
    BY <2>2, <1>1, <1>3 DEF TokenRoles
  <2>. QED
    BY <1>5, <2>1, <2>2 DEF ResolveRoles
<1>6. ASSUME NEW r \in TokenRoles(names)
      PROVE  r \in ResolveRoles(names)
  <2>1. PICK n \in names : r = NormalizeApplicationRole(n) /\ r # NULL
    BY <1>6 DEF TokenRoles
  <2>2. CASE n = "realm-admin"
    BY <2>1, <2>2, <1>2 DEF ResolveRoles
  <2>3. CASE n # "realm-admin"
    BY <2>1, <2>3, <1>1 DEF ResolveRoles
  <2>. QED
    BY <2>2, <2>3
<1>. QED
  BY <1>5, <1>6

LEMMA RolesByName ==
  ASSUME NEW names
  PROVE  TokenRoles(names) \subseteq ApplicationRole
  BY DEF TokenRoles, NormalizeApplicationRole, ApplicationRole

LEMMA HighestRole ==
  ASSUME NEW roles \in SUBSET ApplicationRole
  PROVE  /\ roles # {} => Highest(roles) \in roles
         /\ Highest(roles) \in {"admin", "manager", "employee", NULL}
         /\ "admin" \in roles => Highest(roles) = "admin"
         /\ "manager" \in roles => Highest(roles) \in {"admin", "manager"}
  BY DEF Highest, ApplicationRole

(* The role each endpoint requires: one, or none for an operation that is   *)
(* not an endpoint.                                                        *)
LEMMA RequiredRoles ==
  /\ \A op \in {"calllist", "customers", "customer", "feedback", "audit", "notes", "cases",
                 "runs", "events"} : Required(op) = {"employee"}
  /\ \A op \in {"branches", "accounts", "approvals"} : Required(op) = {"manager"}
  /\ \A op \in {"editBranch", "editAccount", "knowledge"} : Required(op) = {"admin"}
<1>. USE DEF Endpoints, NbaEndpoints, IdentityEndpoints, CasesEndpoints, RunsEndpoints,
             EventsEndpoints, ApprovalEndpoints, KnowledgeEndpoints
<1>1. ASSUME NEW op \in {"calllist", "customers", "customer", "feedback", "audit", "notes",
                         "cases", "runs", "events"}
      PROVE  Required(op) = {"employee"}
  <2>1. <<op, "employee">> \in Endpoints
    OBVIOUS
  <2>2. \A e \in Endpoints : e[1] = op => e[2] = "employee"
    OBVIOUS
  <2>. QED
    BY <2>1, <2>2 DEF Required
<1>2. ASSUME NEW op \in {"branches", "accounts", "approvals"}
      PROVE  Required(op) = {"manager"}
  <2>1. <<op, "manager">> \in Endpoints
    OBVIOUS
  <2>2. \A e \in Endpoints : e[1] = op => e[2] = "manager"
    OBVIOUS
  <2>. QED
    BY <2>1, <2>2 DEF Required
<1>3. ASSUME NEW op \in {"editBranch", "editAccount", "knowledge"}
      PROVE  Required(op) = {"admin"}
  <2>1. <<op, "admin">> \in Endpoints
    OBVIOUS
  <2>2. \A e \in Endpoints : e[1] = op => e[2] = "admin"
    OBVIOUS
  <2>. QED
    BY <2>1, <2>2 DEF Required
<1>. QED
  BY <1>1, <1>2, <1>3

(* Whoever holds the permission a page asks for before it offers something  *)
(* has a role the endpoint accepts.                                        *)
LEMMA OffersAreAllowed ==
  ASSUME NEW roles \in SUBSET ApplicationRole, NEW route \in Routes,
         NEW offer \in Offers(route), offer[1] \in PermissionsForRoles(roles)
  PROVE  roles # {} /\ Authorized(offer[2], Highest(roles))
<1>1. roles # {}
  BY DEF PermissionsForRoles
<1>2. Highest(roles) \in ApplicationRole
  BY <1>1, HighestRole
<1>3. \/ offer[2] \in {"calllist", "customers", "customer", "feedback", "audit", "notes",
                       "cases", "runs", "events"}
      \/ /\ offer[2] \in {"branches", "accounts", "approvals"}
         /\ offer[1] \in {"runApprove", "branchView", "accountView"}
      \/ /\ offer[2] \in {"editBranch", "editAccount", "knowledge"}
         /\ offer[1] \in {"branchManage", "accountManage", "knowledgeView", "knowledgeCreate"}
  BY DEF Offers, AppRoutes
<1>4. CASE offer[2] \in {"calllist", "customers", "customer", "feedback", "audit", "notes",
                         "cases", "runs", "events"}
  BY <1>1, <1>2, <1>4, RequiredRoles DEF Authorized, AllowedByRequirement
<1>5. CASE /\ offer[2] \in {"branches", "accounts", "approvals"}
           /\ offer[1] \in {"runApprove", "branchView", "accountView"}
  <2>1. "manager" \in roles \/ "admin" \in roles
    BY <1>5 DEF PermissionsForRoles, CommonPermissions
  <2>2. Highest(roles) \in {"admin", "manager"}
    BY <2>1, HighestRole
  <2>. QED
    BY <1>1, <1>5, <2>2, RequiredRoles DEF Authorized, AllowedByRequirement
<1>6. CASE /\ offer[2] \in {"editBranch", "editAccount", "knowledge"}
           /\ offer[1] \in {"branchManage", "accountManage", "knowledgeView",
                            "knowledgeCreate"}
  <2>1. "admin" \in roles
    BY <1>6 DEF PermissionsForRoles, CommonPermissions, ManagerPermissions
  <2>2. Highest(roles) = "admin"
    BY <2>1, HighestRole
  <2>. QED
    BY <1>1, <1>6, <2>2, RequiredRoles DEF Authorized, AllowedByRequirement
<1>. QED
  BY <1>3, <1>4, <1>5, <1>6

Ops == {"calllist", "customers", "customer", "feedback", "audit", "notes", "cases", "runs",
        "events", "branches", "accounts", "approvals", "editBranch", "editAccount", "knowledge"}

LEMMA OffersAreOps ==
  ASSUME NEW route, NEW offer \in Offers(route)
  PROVE  offer[2] \in Ops
  BY DEF Offers, AppRoutes, Ops

-----------------------------------------------------------------------------
(* The inductive invariant.                                                *)

Names == RoleNames \cup ApplicationRole
Requests == [op : Ops, names : SUBSET Names,
             step : {"sent", "introspected", "unauthorized", "allowed", "forbidden"},
             role : ApplicationRole \cup {NULL},
             source : {"row", "token", "first role", NULL}, disabled : BOOLEAN]

(* The shape of the state.                                                 *)
Types ==
  /\ enforcement \in {"compat", "strict"}
  /\ row \in [role : ApplicationRole, active : BOOLEAN] \cup {NULL}
  /\ login \in [enabled : BOOLEAN, names : SUBSET Names]
  /\ change \in {"disable", "enable", NULL} \cup ApplicationRole
  /\ change # NULL => row # NULL
  /\ changes \in Nat
  /\ token \in (SUBSET Names) \cup {NULL}
  /\ auth \in [status : {"unauthenticated", "authenticated", "error"},
               roles : SUBSET ApplicationRole]
  /\ loaded \in SUBSET StartflowPermissions
  /\ open \in [route : Routes, permissions : SUBSET StartflowPermissions] \cup {NULL}
  /\ request \in Requests \cup {NULL}

(* A request that was answered by role was let in as a role.               *)
Decided ==
  request # NULL /\ request.step \in {"allowed", "forbidden"} => request.role \in ApplicationRole

(* What refuses a request of an account that was disabled when it was sent: *)
(* Keycloak first, and the row once Keycloak has been asked.               *)
Refused ==
  request # NULL /\ request.disabled =>
    /\ change = NULL \/ change # "enable"
    /\ request.step = "sent" => ~login.enabled \/ ~row.active
    /\ request.step = "introspected" => ~row.active
    /\ request.step = "allowed" => request.source # "row"

(* While nobody has changed the account, all that the browser holds comes   *)
(* from the names of its login, which say what its row says.               *)
Steady ==
  changes = 0 =>
    /\ change = NULL
    /\ row # NULL => TokenRoles(login.names) = {row.role}
    /\ token # NULL => token = login.names
    /\ auth.roles \in {{}, TokenRoles(login.names)}
    /\ loaded \subseteq PermissionsForRoles(TokenRoles(login.names))
    /\ open # NULL => open.permissions \subseteq PermissionsForRoles(TokenRoles(login.names))
    /\ request # NULL =>
         /\ request.names = login.names
         /\ TokenRoles(login.names) # {}
         /\ Authorized(request.op, Highest(TokenRoles(login.names)))
         /\ request.step = "forbidden" => request.source = "first role"

Inv == Types /\ Decided /\ Refused /\ Steady

LEMMA InitInv == AccessInit => Inv
<1>. SUFFICES ASSUME AccessInit
              PROVE  Inv
  OBVIOUS
<1>1. PICK names \in SUBSET RoleNames :
        /\ row # NULL => TokenRoles(names) = {row.role}
        /\ login = [enabled |-> TRUE, names |-> names]
  BY DEF AccessInit
<1>2. Types
  BY <1>1 DEF AccessInit, Types, Names, Unauthenticated
<1>3. Decided /\ Refused
  BY DEF AccessInit, Decided, Refused
<1>4. Steady
  BY <1>1 DEF AccessInit, Steady, Unauthenticated
<1>. QED
  BY <1>2, <1>3, <1>4 DEF Inv

-----------------------------------------------------------------------------
(* The administrator.                                                      *)

LEMMA ChangesLogin ==
  ASSUME Inv, AdminChangesLogin
  PROVE  Inv'
<1>. USE DEF Inv
<1>1. /\ change = NULL /\ row # NULL
      /\ changes' = changes + 1
      /\ UNCHANGED <<enforcement, row, browserVars>>
  BY DEF AdminChangesLogin
<1>2. \/ /\ change' = "disable" /\ login' = [login EXCEPT !.enabled = FALSE]
         /\ UNCHANGED request
      \/ /\ change' = "enable" /\ login' = [login EXCEPT !.enabled = TRUE]
         /\ EnabledAgain
      \/ /\ change' \in ApplicationRole /\ UNCHANGED request
         /\ login' = [login EXCEPT !.names = {change'}]
  BY DEF AdminChangesLogin
<1>3. /\ login' \in [enabled : BOOLEAN, names : SUBSET Names]
      /\ login'.enabled => login.enabled \/ change' = "enable"
  <2>1. login \in [enabled : BOOLEAN, names : SUBSET Names]
    BY DEF Types
  <2>2. CASE login' = [login EXCEPT !.enabled = FALSE]
    BY <2>1, <2>2
  <2>3. CASE login' = [login EXCEPT !.enabled = TRUE] /\ change' = "enable"
    BY <2>1, <2>3
  <2>4. CASE change' \in ApplicationRole /\ login' = [login EXCEPT !.names = {change'}]
    BY <2>1, <2>4 DEF Names
  <2>. QED
    BY <1>2, <2>2, <2>3, <2>4
<1>4. change' \in {"disable", "enable"} \cup ApplicationRole
  BY <1>2
<1>5. Steady'
  <2>1. changes' # 0
    BY <1>1 DEF Types
  <2>. QED
    BY <2>1 DEF Steady
<1>6. CASE EnabledAgain
  <2>1. CASE request # NULL
    <3>1. /\ request' = [request EXCEPT !.disabled = FALSE] /\ request \in Requests
      BY <1>6, <2>1 DEF EnabledAgain, Types
    <3>2. /\ request' \in Requests /\ ~request'.disabled
          /\ request'.step = request.step /\ request'.role = request.role
      BY <3>1 DEF Requests
    <3>3. Types'
      BY <1>1, <1>3, <1>4, <3>2 DEF Types, browserVars
    <3>4. Decided' /\ Refused'
      BY <3>2, <2>1 DEF Decided, Refused
    <3>. QED
      BY <1>5, <3>3, <3>4
  <2>2. CASE request = NULL
    <3>1. request' = NULL
      BY <1>6, <2>2 DEF EnabledAgain
    <3>2. Types'
      BY <1>1, <1>3, <1>4, <3>1 DEF Types, browserVars
    <3>. QED
      BY <1>5, <3>1, <3>2 DEF Decided, Refused
  <2>. QED
    BY <2>1, <2>2
<1>7. CASE UNCHANGED request /\ change' # "enable"
  <2>1. Types'
    BY <1>1, <1>3, <1>4, <1>7 DEF Types, browserVars
  <2>2. Decided' /\ Refused'
    BY <1>1, <1>3, <1>7 DEF Decided, Refused
  <2>. QED
    BY <1>5, <2>1, <2>2
<1>. QED
  BY <1>2, <1>6, <1>7 DEF ApplicationRole

LEMMA SavesRow ==
  ASSUME Inv, AdminSavesRow
  PROVE  Inv'
<1>. USE DEF Inv
<1>1. /\ change # NULL /\ change' = NULL
      /\ UNCHANGED <<enforcement, login, changes, browserVars, request>>
      /\ changes # 0
  BY DEF AdminSavesRow, Steady
<1>2. row \in [role : ApplicationRole, active : BOOLEAN] /\ row # NULL
  BY <1>1 DEF Types
<1>3. /\ row' \in [role : ApplicationRole, active : BOOLEAN]
      /\ row'.active => row.active \/ change = "enable"
  BY <1>2 DEF AdminSavesRow
<1>4. Types'
  BY <1>1, <1>3 DEF Types, browserVars
<1>5. Decided'
  BY <1>1 DEF Decided
<1>6. Refused'
  BY <1>1, <1>3 DEF Refused
<1>. QED
  BY <1>1, <1>4, <1>5, <1>6 DEF Steady

(* Putting the login back makes it what the row says.                      *)
LEMMA GivesUp ==
  ASSUME Inv, AdminGivesUp
  PROVE  Inv'
<1>. USE DEF Inv
<1>1. /\ change # NULL /\ change' = NULL
      /\ UNCHANGED <<enforcement, row, changes, browserVars>>
      /\ changes # 0
      /\ row \in [role : ApplicationRole, active : BOOLEAN]
  BY DEF AdminGivesUp, Steady, Types
<1>2. \/ UNCHANGED <<login, request>>
      \/ /\ login' = [login EXCEPT !.names = {row.role}]
         /\ UNCHANGED request
      \/ login' = [login EXCEPT !.enabled = row.active] /\ EnabledAgain
  BY DEF AdminGivesUp
<1>3. login' \in [enabled : BOOLEAN, names : SUBSET Names]
  BY <1>1, <1>2 DEF Types, Names
<1>4. CASE /\ login'.enabled = login.enabled /\ UNCHANGED request
  <2>1. Types'
    BY <1>1, <1>3, <1>4 DEF Types, browserVars
  <2>2. Decided' /\ Refused'
    BY <1>1, <1>4 DEF Decided, Refused, Types
  <2>. QED
    BY <1>1, <2>1, <2>2 DEF Steady
<1>5. CASE EnabledAgain
  <2>1. request' = NULL \/ (request' \in Requests /\ request # NULL)
    BY <1>5 DEF EnabledAgain, Types, Requests
  <2>2. request' # NULL => /\ ~request'.disabled
                          /\ request'.step = request.step /\ request'.role = request.role
    BY <1>5 DEF EnabledAgain, Types, Requests
  <2>3. Types'
    BY <1>1, <1>3, <2>1 DEF Types, browserVars
  <2>4. Decided' /\ Refused'
    BY <2>1, <2>2 DEF Decided, Refused
  <2>. QED
    BY <1>1, <2>3, <2>4 DEF Steady
<1>. QED
  BY <1>2, <1>4, <1>5 DEF Types

-----------------------------------------------------------------------------
(* The browser.                                                            *)

LEMMA Signs ==
  ASSUME Inv, SignIn \/ SignOut
  PROVE  Inv'
<1>. USE DEF Inv
<1>1. UNCHANGED <<enforcement, row, login, change, changes>>
  BY DEF SignIn, SignOut
<1>2. CASE SignIn
  <2>1. /\ token' = login.names
        /\ auth' = [status |-> "authenticated", roles |-> TokenRoles(login.names)]
        /\ UNCHANGED <<loaded, open, request>>
    BY <1>2, SameRoles DEF SignIn, Refresh
  <2>2. Types'
    BY <1>1, <2>1, RolesByName DEF Types
  <2>. QED
    BY <1>1, <2>1, <2>2 DEF Decided, Refused, Steady
<1>3. CASE SignOut
  <2>1. /\ token' = NULL /\ auth' = Unauthenticated
        /\ loaded' = {} /\ open' = NULL /\ request' = NULL
    BY <1>3 DEF SignOut
  <2>2. Types'
    BY <1>1, <2>1 DEF Types, Unauthenticated
  <2>. QED
    BY <1>1, <2>1, <2>2 DEF Decided, Refused, Steady, Unauthenticated
<1>. QED
  BY <1>2, <1>3

LEMMA Opening ==
  ASSUME Inv, OpenRoute
  PROVE  Inv'
<1>. USE DEF Inv
<1>1. /\ UNCHANGED <<enforcement, row, login, change, changes, token, auth, request>>
      /\ loaded' = loaded \/ loaded' = PermissionsForRoles(auth.roles)
      /\ open' = NULL \/ \E route \in Routes : open' = [route |-> route, permissions |-> loaded']
  BY DEF OpenRoute
<1>2. PermissionsForRoles(auth.roles) \subseteq StartflowPermissions
  BY DEF PermissionsForRoles, StartflowPermissions
<1>3. Types'
  BY <1>1, <1>2 DEF Types
<1>4. Decided' /\ Refused'
  BY <1>1 DEF Decided, Refused
<1>5. PermissionsForRoles({}) = {}
  BY DEF PermissionsForRoles
<1>6. open' # NULL => open'.permissions = loaded'
  BY <1>1
<1>7. ASSUME changes = 0
      PROVE  loaded' \subseteq PermissionsForRoles(TokenRoles(login.names))
  BY <1>1, <1>5, <1>7 DEF Steady
<1>. QED
  BY <1>1, <1>3, <1>4, <1>6, <1>7 DEF Steady

LEMMA Sending ==
  ASSUME Inv, SendRequest
  PROVE  Inv'
<1>. USE DEF Inv
<1>1. /\ open # NULL /\ token # NULL
      /\ UNCHANGED <<enforcement, row, login, change, changes, loaded, open>>
  BY DEF SendRequest
<1>2. PICK names \in {token} \cup {login.names}, offer \in Offers(open.route) :
        /\ token' = names /\ Refresh(names)
        /\ offer[1] \in open.permissions
        /\ request' = [op |-> offer[2], names |-> names, step |-> "sent",
                       role |-> NULL, source |-> NULL,
                       disabled |-> /\ ~(login.enabled /\ row # NULL /\ row.active)
                                    /\ change # "enable" /\ row # NULL]
  BY DEF SendRequest
<1>3. open \in [route : Routes, permissions : SUBSET StartflowPermissions]
  BY <1>1 DEF Types
<1>4. offer[2] \in Ops
  BY <1>3, OffersAreOps
<1>5. Types'
  BY <1>1, <1>2, <1>4, SameRoles, RolesByName DEF Types, Requests, Refresh
<1>6. Decided'
  BY <1>2 DEF Decided
<1>7. Refused'
  BY <1>1, <1>2 DEF Refused
<1>8. ASSUME changes = 0
      PROVE  /\ names = login.names
             /\ auth'.roles = TokenRoles(login.names)
             /\ TokenRoles(login.names) # {}
             /\ Authorized(offer[2], Highest(TokenRoles(login.names)))
  <2>1. names = login.names
    BY <1>1, <1>2, <1>8 DEF Steady
  <2>2. offer[1] \in PermissionsForRoles(TokenRoles(login.names))
    BY <1>1, <1>2, <1>8 DEF Steady
  <2>. QED
    BY <1>2, <1>3, <2>1, <2>2, SameRoles, RolesByName, OffersAreAllowed DEF Refresh
<1>9. Steady'
  BY <1>1, <1>2, <1>8 DEF Steady
<1>. QED
  BY <1>5, <1>6, <1>7, <1>9

-----------------------------------------------------------------------------
(* The guards of the backend, and the end of a request.                    *)

(* A guard that only moves a request on keeps the invariant if it lets in    *)
(* no request that was refused before.                                     *)
LEMMA Guarded ==
  ASSUME Inv, request # NULL,
         UNCHANGED <<enforcement, row, login, change, changes, token, auth, loaded, open>>,
         NEW step \in {"introspected", "unauthorized"},
         request' = [request EXCEPT !.step = step],
         step = "introspected" /\ request.disabled => ~row.active
  PROVE  Inv'
<1>. USE DEF Inv
<1>1. request \in Requests
  BY DEF Types
<1>2. /\ request' \in Requests /\ request'.step = step
      /\ request'.disabled = request.disabled /\ request'.names = request.names
      /\ request'.op = request.op
  BY <1>1 DEF Requests
<1>3. Types'
  BY <1>2 DEF Types
<1>4. Decided'
  BY <1>2 DEF Decided
<1>5. Refused'
  BY <1>2 DEF Refused
<1>6. Steady'
  BY <1>2 DEF Steady
<1>. QED
  BY <1>3, <1>4, <1>5, <1>6

(* A request let in as a role: the highest one of its names, or any that    *)
(* is not told from the token, or that of an active row.                   *)
LEMMA LetsIn ==
  ASSUME Inv, request # NULL,
         UNCHANGED <<enforcement, row, login, change, changes, token, auth, loaded, open>>,
         NEW role \in ApplicationRole \cup {NULL}, NEW source \in {"row", "token", "first role"},
         LetIn(role, source),
         source = "row" => ~request.disabled,
         changes = 0 /\ source # "first role" => role = Highest(TokenRoles(login.names))
  PROVE  Inv'
<1>. USE DEF Inv
<1>1. request \in Requests
  BY DEF Types
<1>2. CASE role = NULL
  BY <1>2, Guarded DEF LetIn
<1>3. CASE role # NULL
  <2>1. PICK step \in {"allowed", "forbidden"} :
          /\ request' = [request EXCEPT !.step = step, !.role = role, !.source = source]
          /\ step = "forbidden" => ~Authorized(request.op, role)
    BY <1>3 DEF LetIn
  <2>2. /\ request' \in Requests /\ request'.step = step
        /\ request'.role = role /\ request'.source = source
        /\ request'.disabled = request.disabled /\ request'.names = request.names
        /\ request'.op = request.op
    BY <1>1, <2>1 DEF Requests
  <2>3. Types'
    BY <2>2 DEF Types
  <2>4. Decided'
    BY <1>3, <2>2 DEF Decided
  <2>5. Refused'
    BY <2>2 DEF Refused
  <2>6. Steady'
    BY <2>1, <2>2 DEF Steady
  <2>. QED
    BY <2>3, <2>4, <2>5, <2>6
<1>. QED
  BY <1>2, <1>3

(* A step that only settles a request.                                     *)
LEMMA Settles ==
  ASSUME Inv, TokenRefused \/ Answered \/ TokenInvalid
  PROVE  Inv'
<1>. USE DEF Inv
<1>1. CASE TokenRefused
  <2>1. /\ auth' = [auth EXCEPT !.status = "error"]
        /\ UNCHANGED <<enforcement, row, login, change, changes, token, loaded, open, request>>
    BY <1>1 DEF TokenRefused
  <2>2. /\ auth' \in [status : {"unauthenticated", "authenticated", "error"},
                      roles : SUBSET ApplicationRole]
        /\ auth'.roles = auth.roles
    BY <2>1 DEF Types
  <2>3. Types'
    BY <2>1, <2>2 DEF Types
  <2>. QED
    BY <2>1, <2>2, <2>3 DEF Decided, Refused, Steady
<1>2. CASE Answered
  <2>1. /\ request' = NULL
        /\ UNCHANGED <<enforcement, row, login, change, changes, token, auth, loaded, open>>
    BY <1>2 DEF Answered, browserVars
  <2>2. Types'
    BY <2>1 DEF Types
  <2>. QED
    BY <2>1, <2>2 DEF Decided, Refused, Steady
<1>3. CASE TokenInvalid
  <2>1. /\ request' = [request EXCEPT !.step = "unauthorized"] /\ request # NULL
        /\ UNCHANGED <<enforcement, row, login, change, changes, token, auth, loaded, open>>
    BY <1>3 DEF TokenInvalid, Stepped, Handled, browserVars
  <2>. QED
    BY <2>1, Guarded
<1>. QED
  BY <1>1, <1>2, <1>3

LEMMA Introspects ==
  ASSUME Inv, Introspect
  PROVE  Inv'
<1>. USE DEF Inv
<1>1. /\ request # NULL /\ request.step = "sent"
      /\ UNCHANGED <<enforcement, row, login, change, changes, token, auth, loaded, open>>
  BY DEF Introspect, Handled, browserVars
<1>2. CASE TokenIsActive
  <2>1. request' = [request EXCEPT !.step = "introspected"]
    BY <1>2 DEF Introspect, Stepped
  <2>2. request.disabled => ~row.active
    BY <1>1, <1>2 DEF Refused, TokenIsActive
  <2>. QED
    BY <1>1, <2>1, <2>2, Guarded
<1>3. CASE ~TokenIsActive
  <2>1. request' = [request EXCEPT !.step = "unauthorized"]
    BY <1>3 DEF Introspect, Stepped
  <2>. QED
    BY <1>1, <2>1, Guarded
<1>. QED
  BY <1>2, <1>3

(* A request that the row, the token or neither lets in.                   *)
LEMMA Admits ==
  ASSUME Inv, ToUser \/ RowUnreadable
  PROVE  Inv'
<1>. USE DEF Inv
<1>1. /\ request # NULL /\ request.step = "introspected"
      /\ UNCHANGED <<enforcement, row, login, change, changes, token, auth, loaded, open>>
  BY DEF ToUser, RowUnreadable, Handled, browserVars
<1>2. CASE Stepped("unauthorized")
  BY <1>1, <1>2, Guarded DEF Stepped
<1>3. CASE row # NULL /\ row.active /\ LetIn(row.role, "row")
  <2>1. row.role \in ApplicationRole
    BY <1>3 DEF Types
  <2>2. ~request.disabled
    BY <1>1, <1>3 DEF Refused
  <2>3. changes = 0 => row.role = Highest(TokenRoles(login.names))
    BY <1>3, <2>1 DEF Steady, Highest, ApplicationRole
  <2>. QED
    BY <1>1, <1>3, <2>1, <2>2, <2>3, LetsIn
<1>4. CASE LetIn(Highest(TokenRoles(request.names)), "token")
  <2>1. Highest(TokenRoles(request.names)) \in ApplicationRole \cup {NULL}
    BY RolesByName, HighestRole DEF ApplicationRole
  <2>2. changes = 0 => request.names = login.names
    BY <1>1 DEF Steady
  <2>. QED
    BY <1>1, <1>4, <2>1, <2>2, LetsIn
<1>5. CASE \E role \in TokenRoles(request.names) \cup
                       (IF TokenRoles(request.names) = {} THEN {"employee"} ELSE {}) :
             LetIn(role, "first role")
  <2>1. PICK role \in ApplicationRole : LetIn(role, "first role")
    BY <1>5, RolesByName DEF ApplicationRole
  <2>. QED
    BY <1>1, <2>1, LetsIn
<1>6. CASE ToUser
  BY <1>2, <1>3, <1>4, <1>6 DEF ToUser
<1>7. CASE RowUnreadable
  BY <1>2, <1>4, <1>5, <1>7 DEF RowUnreadable
<1>. QED
  BY <1>6, <1>7

-----------------------------------------------------------------------------
(* The theorems.                                                           *)

LEMMA StepInv ==
  ASSUME Inv, [AccessNext]_accessVars
  PROVE  Inv'
<1>1. CASE UNCHANGED accessVars
  <2>1. UNCHANGED <<enforcement, row, login, change, changes, token, auth, loaded, open,
                    request>>
    BY <1>1 DEF accessVars
  <2>2. Types'
    BY <2>1 DEF Inv, Types
  <2>3. Decided' /\ Refused'
    BY <2>1 DEF Inv, Decided, Refused
  <2>4. Steady'
    BY <2>1 DEF Inv, Steady
  <2>. QED
    BY <2>2, <2>3, <2>4 DEF Inv
<1>2. CASE AccessNext
  BY <1>2, ChangesLogin, SavesRow, GivesUp, Signs, Opening, Sending, Settles, Introspects, Admits
     DEF AccessNext
<1>. QED
  BY <1>1, <1>2

THEOREM Invariance == Spec => []Inv
<1>1. AccessInit => Inv
  BY InitInv
<1>2. Inv /\ [AccessNext]_accessVars => Inv'
  BY StepInv
<1>. QED
  BY <1>1, <1>2, PTL DEF Spec

(* The state keeps its types: every role the browser holds and every role  *)
(* a request is answered by is one of the application's (canActivate).     *)
THEOREM TypeCorrect == Spec => []AccessTypeOK
<1>1. Inv => AccessTypeOK
  BY DEF Inv, Types, Decided, AccessTypeOK, Names
<1>. QED
  BY <1>1, Invariance, PTL

(* The tables of the two sides agree: RolesGuard forbids nothing that a    *)
(* page of the browser offers, by whatever names Keycloak knows the roles, *)
(* until somebody changes the account.                                     *)
THEOREM OffersAgree == Spec => []OfferedIsAllowed
<1>1. \A n \in Nat : n # 0 => n > 0
  OBVIOUS
<1>2. Inv => OfferedIsAllowed
  <2>. SUFFICES ASSUME Inv, request # NULL, request.step = "forbidden",
                       request.source # "first role"
                PROVE  changes > 0
    BY DEF OfferedIsAllowed
  <2>1. changes # 0
    BY DEF Inv, Steady
  <2>2. changes \in Nat
    BY DEF Inv, Types
  <2>. QED
    BY <1>1, <2>1, <2>2
<1>. QED
  BY <1>2, Invariance, PTL

(* canActivate lets in by its row no request that was sent after the       *)
(* account was disabled, between whichever steps of the administrator's    *)
(* change, its failure and its undoing the request falls.                  *)
THEOREM DisabledStaysOut == Spec => []DisabledIsOut
<1>1. Inv => DisabledIsOut
  BY DEF Inv, Refused, DisabledIsOut
<1>. QED
  BY <1>1, Invariance, PTL
=============================================================================
