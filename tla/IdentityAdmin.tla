----------------------------- MODULE IdentityAdmin -----------------------------
(***************************************************************************)
(* Administration of branches and accounts (IdentityService). An account   *)
(* is a row of `users` and, once linked, a login in Keycloak; a branch is  *)
(* a row of `branches`. No handler runs in a transaction: it checks rows,  *)
(* then calls Keycloak, then writes, and undoes the Keycloak part if the   *)
(* write fails. Handlers of different requests interleave.                 *)
(***************************************************************************)
EXTENDS Naturals

CONSTANTS
  Accounts,  \* usernames
  Branches,  \* branch codes
  Grantable, \* roles given to accounts
  Seed,      \* the rows of `users` at the start
  Handlers,  \* requests served at the same time
  MaxCalls,  \* bound: requests made
  MaxFaults, \* bound: database and Keycloak failures, crashes
  NoBranch

ApplicationRole == {"employee", "manager", "admin"}

User == [role: ApplicationRole \cup {"none"}, branch: Branches \cup {NoBranch},
         active: BOOLEAN, linked: BOOLEAN]
NoUser == [role |-> "none", branch |-> NoBranch, active |-> FALSE, linked |-> FALSE]

ASSUME RolesAssumption  == Grantable \subseteq ApplicationRole
ASSUME BranchAssumption == NoBranch \notin Branches
ASSUME SeedAssumption   == \* the CHECK constraint of `users`, and an administrator
  /\ Seed \in [Accounts -> User]
  /\ \A a \in Accounts : IF Seed[a].role = "none" THEN Seed[a] = NoUser
                         ELSE Seed[a].role = "admin" <=> Seed[a].branch = NoBranch
  /\ \E a \in Accounts : Seed[a].role = "admin" /\ Seed[a].active /\ Seed[a].linked
ASSUME BoundsAssumption == MaxCalls \in Nat /\ MaxFaults \in Nat

VARIABLES
  users,    \* rows of `users` ("none": no row)
  branches, \* rows of `branches`: "absent", "active" or "inactive"
  logins,   \* Keycloak: whether a login exists, is enabled, and its realm roles
  calls,    \* where each handler stands
  unsure,   \* history: accounts whose request was not undone, or wrongly
  started,  \* requests made so far
  faults    \* failures so far

vars == <<users, branches, logins, calls, unsure, started, faults>>

AccountOps == {"create", "update", "enable", "disable"}
BranchOps  == {"createBranch", "reactivate", "deactivate"}

NoLogin == [exists |-> FALSE, enabled |-> FALSE, roles |-> {}]
LoginOf(u) == IF u.linked THEN [exists |-> TRUE, enabled |-> u.active, roles |-> {u.role}]
              ELSE NoLogin

(* `role` and `branch` are the input, `row` what requireAccount returned.  *)
Resting == [pc |-> "idle"]
Call == [pc: {"read", "validate", "count", "provision", "strip", "grant", "switch", "save",
              "audit", "undo", "undoGrant"},
         op: AccountOps \cup BranchOps, by: Accounts, id: Accounts, role: ApplicationRole,
         branch: Branches \cup {NoBranch}, row: User]

-----------------------------------------------------------------------------
(* Requests. The guards let an active administrator in: the token is live  *)
(* in Keycloak and the row of its account is active and says admin.        *)

Authorised(a) == /\ users[a].active /\ users[a].role = "admin"
                 /\ logins[a].exists /\ logins[a].enabled

FirstStep(op) == CASE op = "create" -> "validate"
                   [] op = "createBranch" \/ op = "reactivate" -> "save"
                   [] op = "deactivate" -> "count"
                   [] OTHER -> "read"

(* An admin has no branch, the others have one (validateRoleBranch and the *)
(* CHECK constraint of `users`); other inputs are refused outright.        *)
Placements == {p \in Grantable \X (Branches \cup {NoBranch}) :
                 p[1] = "admin" <=> p[2] = NoBranch}

Request(by, op, id, role, branch) ==
  [pc |-> FirstStep(op), op |-> op, by |-> by, id |-> id, role |-> role,
   branch |-> branch, row |-> NoUser]

(* The fields a request does not have are filled in with values not used.  *)
Requests(by) ==
  {Request(by, op, id, p[1], p[2]) : op \in {"create", "update"}, id \in Accounts,
                                     p \in Placements}
    \cup {Request(by, op, id, "admin", NoBranch) : op \in {"enable", "disable"},
                                                   id \in Accounts}
    \cup {Request(by, op, by, "admin", b) : op \in BranchOps, b \in Branches}

Begin(h) ==
  /\ calls[h].pc = "idle"
  /\ started < MaxCalls
  /\ started' = started + 1
  /\ \E by \in {a \in Accounts : Authorised(a)} : \E request \in Requests(by) :
       calls' = [calls EXCEPT ![h] = request]
  /\ UNCHANGED <<users, branches, logins, unsure, faults>>

Goto(h, pc) == calls' = [calls EXCEPT ![h].pc = pc]
Finish(h)   == calls' = [calls EXCEPT ![h] = Resting]
At(h, pc)   == calls[h].pc = pc
Op(h)       == calls[h].op

-----------------------------------------------------------------------------
(* Checks. Each reads the database once.                                   *)

(* requireAccount, and what setAccountEnabled checks about the row.        *)
AfterRead(c, row) ==
  IF row.role = "none" THEN "idle"
  ELSE CASE c.op = "update" -> "validate"
         [] c.op = "disable" /\ c.by = c.id -> "idle"
         [] c.op = "disable" /\ c.by # c.id /\ row.role = "admin" -> "count"
         [] OTHER -> IF row.linked THEN "switch" ELSE "idle"

ReadAccount(h) ==
  /\ At(h, "read")
  /\ LET row == users[calls[h].id]
         pc  == AfterRead(calls[h], row)
     IN  IF pc = "idle" THEN Finish(h)
         ELSE calls' = [calls EXCEPT ![h].pc = pc, ![h].row = row]
  /\ UNCHANGED <<users, branches, logins, unsure, started, faults>>

(* From the checks of updateAccount to Keycloak; an unlinked row is only   *)
(* written.                                                                *)
KeycloakStep(row) == IF row.linked THEN "strip" ELSE "save"

ValidateBranch(h) ==
  /\ At(h, "validate")
  /\ LET c == calls[h]
     IN  IF c.branch # NoBranch /\ branches[c.branch] # "active" THEN Finish(h)
         ELSE Goto(h, CASE c.op = "create" -> "provision"
                        [] c.op = "update" /\ c.row.role = "admin" /\ c.role # "admin" -> "count"
                        [] OTHER -> KeycloakStep(c.row))
  /\ UNCHANGED <<users, branches, logins, unsure, started, faults>>

AnotherAdminOrSelf(id) == \* mutant: counts the account itself
  \E a \in Accounts : users[a].role = "admin" /\ users[a].active

AnotherAdmin(id) == \E a \in Accounts \ {id} : users[a].role = "admin" /\ users[a].active

AssertAnotherAdmin(h) ==
  /\ At(h, "count") /\ Op(h) \in AccountOps
  /\ IF ~AnotherAdmin(calls[h].id) THEN Finish(h)
     ELSE IF Op(h) = "update" THEN Goto(h, KeycloakStep(calls[h].row))
     ELSE IF calls[h].row.linked THEN Goto(h, "switch") ELSE Finish(h)
  /\ UNCHANGED <<users, branches, logins, unsure, started, faults>>

OccupiedUnfiltered(b) == FALSE \* mutant: counts nobody

Occupied(b) == \E a \in Accounts : users[a].branch = b /\ users[a].active

CountMembers(h) ==
  /\ At(h, "count") /\ Op(h) = "deactivate"
  /\ IF Occupied(calls[h].branch) THEN Finish(h) ELSE Goto(h, "save")
  /\ UNCHANGED <<users, branches, logins, unsure, started, faults>>

-----------------------------------------------------------------------------
(* Keycloak (KeycloakAdminClient). Each operator is one request's effect.  *)

SetLogin(id, login) == logins' = [logins EXCEPT ![id] = login]

KeycloakSteps == {"provision", "strip", "grant", "switch", "undo", "undoGrant"}

(* The undo of createAccount deletes the login; the others put back what   *)
(* the row said, role by role.                                             *)
UndoneRepeating(c) == \* mutant: the switch is repeated, not reversed
  CASE c.op = "create" -> NoLogin
    [] c.op = "update" -> [logins[c.id] EXCEPT !.roles = {}]
    [] OTHER           -> [logins[c.id] EXCEPT !.enabled = (c.op = "enable")]

Undone(c) ==
  CASE c.op = "create" -> NoLogin
    [] c.op = "update" -> [logins[c.id] EXCEPT !.roles = {}]
    [] OTHER           -> [logins[c.id] EXCEPT !.enabled = ~(c.op = "enable")]

(* The login after the request of this step. A refused or a missing login  *)
(* is left as it is.                                                       *)
Requested(c) ==
  LET l == logins[c.id]
  IN  CASE c.pc = "provision" -> [exists |-> TRUE, enabled |-> TRUE, roles |-> {}]
        [] c.pc = "strip"     -> [l EXCEPT !.roles = {}]
        [] c.pc = "grant"     -> [l EXCEPT !.roles = @ \cup {c.role}]
        [] c.pc = "undoGrant" -> [l EXCEPT !.roles = @ \cup {c.row.role}]
        [] c.pc = "switch"    -> [l EXCEPT !.enabled = (c.op = "enable")]
        [] c.pc = "undo"      -> Undone(c)

(* POST /users answers 409 for a username it has, and every other request  *)
(* 404 for a login it has not.                                             *)
Possible(c) == (c.pc = "provision") # logins[c.id].exists

NextStep(c) ==
  CASE c.pc = "provision" -> "strip"
    [] c.pc = "strip"     -> "grant"
    [] c.pc \in {"grant", "switch"} -> "save"
    [] c.pc = "undo" /\ c.op = "update" -> "undoGrant"
    [] OTHER -> "idle"

Leave(h, pc) == IF pc = "idle" THEN Finish(h) ELSE Goto(h, pc)

KeycloakAnswers(h) ==
  /\ calls[h].pc \in KeycloakSteps
  /\ Possible(calls[h])
  /\ SetLogin(calls[h].id, Requested(calls[h]))
  /\ Leave(h, NextStep(calls[h]))
  /\ UNCHANGED <<users, branches, unsure, started, faults>>

(* provisionAccount deletes the login it created; updateAccount and        *)
(* setAccountEnabled do nothing about a request that fails, and a failing  *)
(* undo is ignored.                                                        *)
AfterFailure(c) == IF c.op = "create" /\ c.pc \in {"strip", "grant"} THEN "undo" ELSE "idle"

KeycloakRefuses(h) ==
  /\ calls[h].pc \in KeycloakSteps
  /\ ~Possible(calls[h])
  /\ Leave(h, AfterFailure(calls[h]))
  /\ UNCHANGED <<users, branches, logins, unsure, started, faults>>

(* It answers with an error, or not within 5s though it has done its work. *)
KeycloakFails(h) ==
  /\ calls[h].pc \in KeycloakSteps
  /\ faults < MaxFaults
  /\ faults' = faults + 1
  /\ \/ UNCHANGED logins
     \/ Possible(calls[h]) /\ SetLogin(calls[h].id, Requested(calls[h]))
  /\ Leave(h, AfterFailure(calls[h]))
  /\ unsure' = unsure \cup {calls[h].id}
  /\ UNCHANGED <<users, branches, started>>

-----------------------------------------------------------------------------
(* Writes, and the audit entry that follows each of them.                  *)

WrittenKeepingBranch(c) == \* mutant: the branch is not part of the UPDATE
  CASE c.op = "create" -> [role |-> c.role, branch |-> c.branch, active |-> TRUE, linked |-> TRUE]
    [] c.op = "update" -> [users[c.id] EXCEPT !.role = c.role]
    [] OTHER           -> [users[c.id] EXCEPT !.active = (c.op = "enable")]

Written(c) ==
  CASE c.op = "create" -> [role |-> c.role, branch |-> c.branch, active |-> TRUE, linked |-> TRUE]
    [] c.op = "update" -> [users[c.id] EXCEPT !.role = c.role, !.branch = c.branch]
    [] OTHER           -> [users[c.id] EXCEPT !.active = (c.op = "enable")]

SaveAccount(h) ==
  LET c == calls[h]
  IN  /\ At(h, "save") /\ c.op \in AccountOps
      /\ IF c.op = "create" /\ users[c.id].role # "none" \* the username is taken
         THEN UNCHANGED users /\ Goto(h, "undo")
         ELSE users' = [users EXCEPT ![c.id] = Written(c)] /\ Goto(h, "audit")
      /\ UNCHANGED <<branches, logins, unsure, started, faults>>

BranchAfter(op, state) ==
  CASE op = "createBranch" /\ state = "absent"   -> "active"
    [] op = "reactivate"   /\ state = "inactive" -> "active"
    [] op = "deactivate"   /\ state = "active"   -> "inactive"
    [] OTHER -> state

SaveBranch(h) ==
  /\ At(h, "save") /\ Op(h) \in BranchOps
  /\ branches' = [branches EXCEPT ![calls[h].branch] = BranchAfter(Op(h), @)]
  /\ Goto(h, "audit")
  /\ UNCHANGED <<users, logins, unsure, started, faults>>

Audited(h) ==
  /\ At(h, "audit")
  /\ Finish(h)
  /\ UNCHANGED <<users, branches, logins, unsure, started, faults>>

(* A failing write is undone in Keycloak. So is a creation whose audit     *)
(* entry fails: its row has been written and stays. Undoing a switch that  *)
(* changed nothing changes something.                                      *)
Linked(c) == c.op = "create" \/ c.row.linked
Undoes(c) == c.op \in AccountOps /\ Linked(c) /\ (c.pc = "save" \/ c.op = "create")

UndoneWrongly(c) ==
  \/ c.op = "create" /\ c.pc = "audit"
  \/ c.op \in {"enable", "disable"} /\ c.pc = "save" /\ c.row.active = (c.op = "enable")

DatabaseFails(h) ==
  LET c == calls[h]
  IN  /\ c.pc \in {"save", "audit"}
      /\ faults < MaxFaults
      /\ faults' = faults + 1
      /\ IF Undoes(c) THEN Goto(h, "undo") ELSE Finish(h)
      /\ unsure' = IF UndoneWrongly(c) THEN unsure \cup {c.id} ELSE unsure
      /\ UNCHANGED <<users, branches, logins, started>>

(* The backend dies, and with it what its handlers were about to do.       *)
Crash ==
  /\ faults < MaxFaults
  /\ faults' = faults + 1
  /\ \E h \in Handlers : calls[h].pc # "idle"
  /\ unsure' = unsure \cup {calls[h].id : h \in {k \in Handlers : calls[k].pc # "idle"}}
  /\ calls' = [h \in Handlers |-> Resting]
  /\ UNCHANGED <<users, branches, logins, started>>

-----------------------------------------------------------------------------
Init ==
  /\ users = Seed
  /\ branches \in [Branches -> {"absent", "active"}]
  /\ \A a \in Accounts : users[a].branch # NoBranch => branches[users[a].branch] = "active"
  /\ logins = [a \in Accounts |-> LoginOf(users[a])]
  /\ calls = [h \in Handlers |-> Resting]
  /\ unsure = {}
  /\ started = 0
  /\ faults = 0

Handle(h) ==
  \/ ReadAccount(h) \/ ValidateBranch(h) \/ AssertAnotherAdmin(h) \/ CountMembers(h)
  \/ KeycloakAnswers(h) \/ KeycloakRefuses(h)
  \/ SaveAccount(h) \/ SaveBranch(h) \/ Audited(h)

Next ==
  \/ \E h \in Handlers : Begin(h) \/ Handle(h) \/ KeycloakFails(h) \/ DatabaseFails(h)
  \/ Crash

Spec == Init /\ [][Next]_vars

-----------------------------------------------------------------------------
(* Properties.                                                             *)

(* The variables keep their types, the CHECK constraint of `users` among   *)
(* them: an UPDATE that broke it would be refused by the database.         *)
IdentityTypeOK ==
  /\ users \in [Accounts -> User]
  /\ \A a \in Accounts : users[a].role = "none" \/
       (users[a].role = "admin" <=> users[a].branch = NoBranch)
  /\ branches \in [Branches -> {"absent", "active", "inactive"}]
  /\ logins \in [Accounts -> [exists: BOOLEAN, enabled: BOOLEAN,
                              roles: SUBSET ApplicationRole]]
  /\ calls \in [Handlers -> Call \cup {Resting}]
  /\ unsure \subseteq Accounts
  /\ started \in 0..MaxCalls /\ faults \in 0..MaxFaults

(* "The final active admin is protected": whatever is disabled, demoted,   *)
(* retried or fails halfway, some active account is an administrator.      *)
AdminRemains == \E a \in Accounts : users[a].role = "admin" /\ users[a].active

(* "Branch still has active accounts": at the moment a branch becomes      *)
(* inactive, none of its accounts is active.                               *)
DeactivatedBranchIsEmpty ==
  [][\A b \in Branches :
       branches[b] = "active" /\ branches'[b] = "inactive" =>
         \A a \in Accounts : users[a].branch = b => ~users[a].active]_vars

(* Compensation works: between requests, Keycloak says of an account what  *)
(* its row says (no login without a row, the same role, enabled iff        *)
(* active), whichever writes failed, unless a request on that account met  *)
(* a failure of Keycloak or a crash, or was undone wrongly.                *)
KeycloakAgrees ==
  (\A h \in Handlers : calls[h].pc = "idle") =>
    \A a \in Accounts \ unsure : logins[a] = LoginOf(users[a])

(* "dùng compensation": undoing a switch after a failed write leaves the   *)
(* login as the row, which was not written, says.                          *)
UndoRestores ==
  [][\A h \in Handlers :
       LET c == calls[h]
       IN  c.pc = "undo" /\ c.op \in {"enable", "disable"} /\ logins' # logins =>
             logins'[c.id].enabled = users[c.id].active]_vars

-----------------------------------------------------------------------------
(* Why the properties are inductive.                                       *)

StepsOf(op) ==
  CASE op = "create" -> {"validate", "provision", "strip", "grant", "save", "undo", "audit"}
    [] op = "update" -> {"read", "validate", "count", "strip", "grant", "save", "undo",
                         "undoGrant", "audit"}
    [] op \in {"enable", "disable"} -> {"read", "count", "switch", "save", "undo", "audit"}
    [] op = "deactivate" -> {"count", "save", "audit"}
    [] OTHER -> {"save", "audit"}

Changes == {"update", "enable", "disable"} \* of a row that exists

(* However many requests are served: each is at a step of its own, gives a *)
(* place the CHECK constraint allows, and has found the row it changes.    *)
Shaped(c) ==
  /\ c.pc \in StepsOf(c.op)
  /\ c.op \in {"create", "update"} => (c.role = "admin" <=> c.branch = NoBranch)
  /\ c.op \in BranchOps => c.branch \in Branches
  /\ c.op \in Changes /\ c.pc # "read" => c.row.role # "none"

ShapeInv == \A h \in Handlers : calls[h].pc # "idle" => Shaped(calls[h])

(* The rest holds of requests that are served one at a time. What a check  *)
(* has found is still so when the handler writes.                          *)
Demotes(c) == c.op = "disable" \/ (c.op = "update" /\ c.role # "admin")

Checked(c) ==
  /\ c.op \in Changes /\ c.pc \notin {"read", "audit"} => c.row = users[c.id]
  /\ Demotes(c) /\ c.pc \in {"strip", "grant", "switch", "save"} /\ c.row.role = "admin" =>
       AnotherAdmin(c.id)
  /\ c.op = "deactivate" /\ c.pc = "save" => ~Occupied(c.branch)

CheckedInv == \A h \in Handlers : calls[h].pc # "idle" => Checked(calls[h])

(* What Keycloak says of an account while a request about it is served.    *)
Expected(c) ==
  LET l == LoginOf(users[c.id])
  IN  CASE c.op = "create" /\ c.pc \in {"strip", "grant"} ->
             [exists |-> TRUE, enabled |-> TRUE, roles |-> {}]
        [] c.op = "create" /\ c.pc \in {"save", "undo"} ->
             [exists |-> TRUE, enabled |-> TRUE, roles |-> {c.role}]
        [] c.op = "update" /\ c.pc \in {"grant", "undoGrant"} -> [l EXCEPT !.roles = {}]
        [] c.op = "update" /\ c.pc \in {"save", "undo"} /\ c.row.linked ->
             [l EXCEPT !.roles = {c.role}]
        [] c.op \in {"enable", "disable"} /\ c.pc \in {"save", "undo"} ->
             [l EXCEPT !.enabled = (c.op = "enable")]
        [] OTHER -> l

(* A request that speaks to Keycloak about a row has found it linked.      *)
HasLogin(c) ==
  /\ c.op = "update" /\ c.pc \in {"strip", "grant", "undo", "undoGrant"} => c.row.linked
  /\ c.op \in {"enable", "disable"} /\ c.pc \in {"switch", "save", "undo"} => c.row.linked

Agreed(c) ==
  /\ logins[c.id] = Expected(c)
  /\ c.op = "create" /\ c.pc \in {"strip", "grant", "save", "undo"} => ~users[c.id].linked
  /\ c.op \in {"enable", "disable"} /\ c.pc = "undo" => c.row.active # (c.op = "enable")

LoginInv ==
  /\ \A h \in Handlers : calls[h].pc # "idle" =>
       /\ HasLogin(calls[h])
       /\ calls[h].id \notin unsure => Agreed(calls[h])
  /\ \A a \in Accounts \ unsure :
       (\A h \in Handlers : calls[h].pc # "idle" => calls[h].id # a) =>
         logins[a] = LoginOf(users[a])

AccountInv == IdentityTypeOK /\ ShapeInv
AloneInv   == AccountInv /\ AdminRemains /\ CheckedInv /\ LoginInv

=============================================================================
