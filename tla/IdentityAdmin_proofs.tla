------------------------- MODULE IdentityAdmin_proofs -------------------------
(***************************************************************************)
(* Proofs about IdentityAdmin: its types and the shape of its requests for *)
(* any number of handlers, the rest for requests served one at a time.     *)
(***************************************************************************)
EXTENDS IdentityAdmin, TLAPS

Pcs   == {"read", "validate", "count", "provision", "strip", "grant", "switch", "save",
          "audit", "undo", "undoGrant"}
Login == [exists: BOOLEAN, enabled: BOOLEAN, roles: SUBSET ApplicationRole]

-----------------------------------------------------------------------------
(* Requests and steps.                                                     *)

(* A handler that is not idle serves a call.                               *)
LEMMA ServesACall ==
  ASSUME calls \in [Handlers -> Call \cup {Resting}], NEW h \in Handlers,
         calls[h].pc # "idle"
  PROVE  /\ calls[h] \in Call
         /\ calls[h].pc \in Pcs
         /\ calls[h].op \in AccountOps \cup BranchOps
         /\ calls[h].by \in Accounts
         /\ calls[h].id \in Accounts
         /\ calls[h].role \in ApplicationRole
         /\ calls[h].branch \in Branches \cup {NoBranch}
         /\ calls[h].row \in User
<1>1. calls[h] \in Call
  BY DEF Resting
<1>. QED
  BY <1>1 DEF Call, Pcs

(* The steps of every operation are steps of a call.                       *)
LEMMA StepsArePcs ==
  ASSUME NEW op \in AccountOps \cup BranchOps
  PROVE  /\ StepsOf(op) \subseteq Pcs
         /\ "idle" \notin StepsOf(op)
BY DEF StepsOf, Pcs, AccountOps, BranchOps

(* A new request is a call at the first step of its operation.             *)
LEMMA RequestsAreCalls ==
  ASSUME NEW by \in Accounts, NEW r \in Requests(by)
  PROVE  /\ r \in Call
         /\ r.pc = FirstStep(r.op)
         /\ r.pc # "idle"
         /\ Shaped(r)
<1>n. NoUser \in User
  BY DEF NoUser, User
<1>1. CASE \E op \in {"create", "update"}, id \in Accounts, p \in Placements :
             r = Request(by, op, id, p[1], p[2])
  <2>1. PICK op \in {"create", "update"}, id \in Accounts, p \in Placements :
               r = Request(by, op, id, p[1], p[2])
    BY <1>1
  <2>2. /\ p[1] \in ApplicationRole
        /\ p[2] \in Branches \cup {NoBranch}
        /\ p[1] = "admin" <=> p[2] = NoBranch
    BY RolesAssumption DEF Placements
  <2>3. r = [pc |-> FirstStep(op), op |-> op, by |-> by, id |-> id, role |-> p[1],
             branch |-> p[2], row |-> NoUser]
    BY <2>1 DEF Request
  <2>4. FirstStep(op) = IF op = "create" THEN "validate" ELSE "read"
    BY DEF FirstStep
  <2>5. r \in Call
    BY <2>2, <2>3, <2>4, <1>n DEF Call, AccountOps
  <2>6. /\ r.op = op
        /\ r.pc = FirstStep(op)
        /\ r.role = p[1]
        /\ r.branch = p[2]
    BY <2>3
  <2>7. r.pc \in StepsOf(r.op)
    BY <2>4, <2>6 DEF StepsOf
  <2>. QED
    BY <2>2, <2>4, <2>5, <2>6, <2>7 DEF Shaped, BranchOps, Changes
<1>2. CASE \E op \in {"enable", "disable"}, id \in Accounts :
             r = Request(by, op, id, "admin", NoBranch)
  <2>1. PICK op \in {"enable", "disable"}, id \in Accounts :
               r = Request(by, op, id, "admin", NoBranch)
    BY <1>2
  <2>3. r = [pc |-> FirstStep(op), op |-> op, by |-> by, id |-> id, role |-> "admin",
             branch |-> NoBranch, row |-> NoUser]
    BY <2>1 DEF Request
  <2>4. FirstStep(op) = "read"
    BY DEF FirstStep
  <2>5. r \in Call
    BY <2>3, <2>4, <1>n DEF Call, AccountOps, ApplicationRole
  <2>6. /\ r.op = op
        /\ r.pc = FirstStep(op)
    BY <2>3
  <2>7. r.pc \in StepsOf(r.op)
    BY <2>4, <2>6 DEF StepsOf
  <2>. QED
    BY <2>4, <2>5, <2>6, <2>7 DEF Shaped, BranchOps, Changes
<1>3. CASE \E op \in BranchOps, b \in Branches :
             r = Request(by, op, by, "admin", b)
  <2>1. PICK op \in BranchOps, b \in Branches :
               r = Request(by, op, by, "admin", b)
    BY <1>3
  <2>3. r = [pc |-> FirstStep(op), op |-> op, by |-> by, id |-> by, role |-> "admin",
             branch |-> b, row |-> NoUser]
    BY <2>1 DEF Request
  <2>4. FirstStep(op) = IF op = "deactivate" THEN "count" ELSE "save"
    BY DEF FirstStep, BranchOps
  <2>5. r \in Call
    BY <2>3, <2>4, <1>n DEF Call, ApplicationRole
  <2>6. /\ r.op = op
        /\ r.pc = FirstStep(op)
        /\ r.branch = b
    BY <2>3
  <2>7. r.pc \in StepsOf(r.op)
    BY <2>4, <2>6 DEF StepsOf, BranchOps
  <2>. QED
    BY <2>4, <2>5, <2>6, <2>7 DEF Shaped, BranchOps, Changes
<1>. QED
  BY <1>1, <1>2, <1>3 DEF Requests

(* A handler that moves to another step changes nothing else of its call.  *)
LEMMA Moves ==
  ASSUME calls \in [Handlers -> Call \cup {Resting}], NEW h \in Handlers,
         calls[h].pc # "idle", NEW pc \in Pcs, Goto(h, pc)
  PROVE  /\ calls' \in [Handlers -> Call \cup {Resting}]
         /\ calls'[h] \in Call
         /\ calls'[h].pc = pc
         /\ calls'[h].op = calls[h].op
         /\ calls'[h].by = calls[h].by
         /\ calls'[h].id = calls[h].id
         /\ calls'[h].role = calls[h].role
         /\ calls'[h].branch = calls[h].branch
         /\ calls'[h].row = calls[h].row
         /\ \A g \in Handlers : g # h => calls'[g] = calls[g]
<1>1. calls[h] \in Call
  BY ServesACall
<1>2. calls'[h] = [calls[h] EXCEPT !.pc = pc]
  BY DEF Goto
<1>3. \A g \in Handlers : g # h => calls'[g] = calls[g]
  BY DEF Goto
<1>4. calls'[h] \in Call
  BY <1>1, <1>2 DEF Call, Pcs
<1>5. calls' = [calls EXCEPT ![h] = [calls[h] EXCEPT !.pc = pc]]
  BY DEF Goto
<1>6. calls' \in [Handlers -> Call \cup {Resting}]
  BY <1>2, <1>4, <1>5
<1>. QED
  BY <1>1, <1>2, <1>3, <1>4, <1>6 DEF Call

(* A handler that has finished rests, and the others stand where they did. *)
LEMMA Rests ==
  ASSUME calls \in [Handlers -> Call \cup {Resting}], NEW h \in Handlers, Finish(h)
  PROVE  /\ calls' \in [Handlers -> Call \cup {Resting}]
         /\ calls'[h].pc = "idle"
         /\ \A g \in Handlers : g # h => calls'[g] = calls[g]
BY DEF Finish, Resting

-----------------------------------------------------------------------------
(* Types and shapes, for any number of handlers.                           *)

(* A move to a step of the same operation keeps the shape of every call.   *)
LEMMA MovesInShape ==
  ASSUME AccountInv, NEW h \in Handlers, calls[h].pc # "idle",
         NEW pc \in StepsOf(calls[h].op), calls[h].pc # "read" \/ calls[h].op \notin Changes,
         Goto(h, pc)
  PROVE  /\ calls' \in [Handlers -> Call \cup {Resting}]
         /\ ShapeInv'
<1>1. calls \in [Handlers -> Call \cup {Resting}]
  BY DEF AccountInv, IdentityTypeOK
<1>2. pc \in Pcs
  BY <1>1, ServesACall, StepsArePcs
<1>3. /\ calls' \in [Handlers -> Call \cup {Resting}]
      /\ calls'[h].pc = pc
      /\ calls'[h].op = calls[h].op
      /\ calls'[h].role = calls[h].role
      /\ calls'[h].branch = calls[h].branch
      /\ calls'[h].row = calls[h].row
      /\ \A g \in Handlers : g # h => calls'[g] = calls[g]
  BY <1>1, <1>2, Moves
<1>4. Shaped(calls[h])
  BY DEF AccountInv, ShapeInv
<1>5. Shaped(calls'[h])
  BY <1>3, <1>4 DEF Shaped
<1>6. \A g \in Handlers : calls'[g].pc # "idle" => Shaped(calls'[g])
  BY <1>3, <1>5 DEF AccountInv, ShapeInv
<1>. QED
  BY <1>3, <1>6 DEF ShapeInv

(* So does a handler that finishes.                                        *)
LEMMA RestsInShape ==
  ASSUME AccountInv, NEW h \in Handlers, Finish(h)
  PROVE  /\ calls' \in [Handlers -> Call \cup {Resting}]
         /\ ShapeInv'
<1>1. calls \in [Handlers -> Call \cup {Resting}]
  BY DEF AccountInv, IdentityTypeOK
<1>2. /\ calls' \in [Handlers -> Call \cup {Resting}]
      /\ calls'[h].pc = "idle"
      /\ \A g \in Handlers : g # h => calls'[g] = calls[g]
  BY <1>1, Rests
<1>3. \A g \in Handlers : calls'[g].pc # "idle" => Shaped(calls'[g])
  BY <1>2 DEF AccountInv, ShapeInv
<1>. QED
  BY <1>2, <1>3 DEF ShapeInv

(* Leaving a Keycloak step is one or the other.                            *)
LEMMA LeavesInShape ==
  ASSUME AccountInv, NEW h \in Handlers, calls[h].pc \in KeycloakSteps,
         NEW pc \in StepsOf(calls[h].op) \cup {"idle"}, Leave(h, pc)
  PROVE  /\ calls' \in [Handlers -> Call \cup {Resting}]
         /\ ShapeInv'
<1>1. CASE pc = "idle"
  BY <1>1, RestsInShape DEF Leave
<1>2. CASE pc # "idle"
  <2>1. calls[h].pc # "idle" /\ calls[h].pc # "read"
    BY DEF KeycloakSteps
  <2>2. pc \in StepsOf(calls[h].op) /\ Goto(h, pc)
    BY <1>2 DEF Leave
  <2>. QED
    BY <2>1, <2>2, MovesInShape
<1>. QED
  BY <1>1, <1>2

(* The step after a Keycloak step is one of the same operation.            *)
LEMMA KeycloakStepsFollow ==
  ASSUME NEW c \in Call, Shaped(c), c.pc \in KeycloakSteps
  PROVE  /\ NextStep(c) \in StepsOf(c.op) \cup {"idle"}
         /\ AfterFailure(c) \in StepsOf(c.op) \cup {"idle"}
<1>1. c.op \in AccountOps \cup BranchOps
  BY DEF Call
<1>2. c.pc \in StepsOf(c.op)
  BY DEF Shaped
<1>. QED
  BY <1>1, <1>2 DEF NextStep, AfterFailure, StepsOf, KeycloakSteps, AccountOps, BranchOps

(* What Keycloak is asked for is a login of roles that exist.              *)
LEMMA RequestedIsALogin ==
  ASSUME AccountInv, NEW h \in Handlers, calls[h].pc \in KeycloakSteps
  PROVE  Requested(calls[h]) \in Login
<1> DEFINE c == calls[h]
           l == logins[c.id]
<1>1. calls[h].pc # "idle"
  BY DEF KeycloakSteps
<1>2. /\ c \in Call
      /\ c.op \in AccountOps \cup BranchOps
      /\ c.id \in Accounts
      /\ c.role \in ApplicationRole
      /\ c.row \in User
  BY <1>1, ServesACall DEF AccountInv, IdentityTypeOK
<1>3. Shaped(c)
  BY <1>1 DEF AccountInv, ShapeInv
<1>4. l \in Login
  BY <1>2 DEF AccountInv, IdentityTypeOK, Login
<1>5. c.pc \in KeycloakSteps
  OBVIOUS
<1>6. c.pc = "undoGrant" => c.row.role \in ApplicationRole
  <2>1. c.pc = "undoGrant" => c.op = "update"
    BY <1>2, <1>3 DEF Shaped, StepsOf, AccountOps, BranchOps
  <2>2. c.row.role \in ApplicationRole \cup {"none"}
    BY <1>2 DEF User
  <2>. QED
    BY <1>3, <2>1, <2>2 DEF Shaped, Changes
<1>7. SUFFICES Requested(c) \in Login
  OBVIOUS
<1> HIDE DEF c
<1>. QED
  <2>1. CASE c.pc = "provision"
    BY <2>1 DEF Requested, Login
  <2>2. CASE c.pc = "strip"
    BY <2>2, <1>4 DEF Requested, Login
  <2>3. CASE c.pc = "grant"
    <3>1. l.roles \cup {c.role} \in SUBSET ApplicationRole
      BY <1>2, <1>4 DEF Login
    <3>2. Requested(c) = [l EXCEPT !.roles = l.roles \cup {c.role}]
      BY <2>3 DEF Requested
    <3>. QED
      BY <3>1, <3>2, <1>4 DEF Login
  <2>4. CASE c.pc = "undoGrant"
    <3>1. l.roles \cup {c.row.role} \in SUBSET ApplicationRole
      BY <1>6, <1>4, <2>4 DEF Login
    <3>2. Requested(c) = [l EXCEPT !.roles = l.roles \cup {c.row.role}]
      BY <2>4 DEF Requested
    <3>. QED
      BY <3>1, <3>2, <1>4 DEF Login
  <2>5. CASE c.pc = "switch"
    BY <2>5, <1>4 DEF Requested, Login
  <2>6. CASE c.pc = "undo"
    <3>1. Requested(c) = Undone(c)
      BY <2>6 DEF Requested
    <3>2. Undone(c) \in Login
      BY <1>4 DEF Undone, Login, NoLogin
    <3>. QED
      BY <3>1, <3>2
  <2>. QED
    BY <1>5, <2>1, <2>2, <2>3, <2>4, <2>5, <2>6 DEF KeycloakSteps

(* What an account's row becomes is a row the CHECK constraint allows.     *)
LEMMA WrittenIsARow ==
  ASSUME AccountInv, NEW h \in Handlers, calls[h].pc = "save", calls[h].op \in AccountOps
  PROVE  /\ Written(calls[h]) \in User
         /\ Written(calls[h]).role = "none" \/
              (Written(calls[h]).role = "admin" <=> Written(calls[h]).branch = NoBranch)
<1> DEFINE c == calls[h]
           u == users[c.id]
<1>2. /\ c \in Call
      /\ c.id \in Accounts
      /\ c.role \in ApplicationRole
      /\ c.branch \in Branches \cup {NoBranch}
  BY ServesACall DEF AccountInv, IdentityTypeOK
<1>3. Shaped(c)
  BY DEF AccountInv, ShapeInv
<1>4. /\ u \in User
      /\ u.role = "none" \/ (u.role = "admin" <=> u.branch = NoBranch)
  BY <1>2 DEF AccountInv, IdentityTypeOK
<1>5. c.op \in AccountOps
  OBVIOUS
<1>6. c.op \in {"create", "update"} => (c.role = "admin" <=> c.branch = NoBranch)
  BY <1>3 DEF Shaped
<1>7. SUFFICES /\ Written(c) \in User
               /\ Written(c).role = "none" \/
                    (Written(c).role = "admin" <=> Written(c).branch = NoBranch)
  OBVIOUS
<1>8. users[c.id] = u
  OBVIOUS
<1> HIDE DEF c, u
<1>9. CASE c.op = "create"
  <2>1. Written(c) = [role |-> c.role, branch |-> c.branch, active |-> TRUE, linked |-> TRUE]
    BY <1>9 DEF Written
  <2>. QED
    BY <1>2, <1>6, <1>9, <2>1 DEF User
<1>10. CASE c.op = "update"
  <2>1. Written(c) = [u EXCEPT !.role = c.role, !.branch = c.branch]
    BY <1>8, <1>10 DEF Written
  <2>. QED
    BY <1>2, <1>4, <1>6, <1>10, <2>1 DEF User
<1>11. CASE c.op \in {"enable", "disable"}
  <2>1. Written(c) = [u EXCEPT !.active = (c.op = "enable")]
    BY <1>8, <1>11 DEF Written
  <2>. QED
    BY <1>4, <2>1 DEF User
<1>. QED
  BY <1>5, <1>9, <1>10, <1>11 DEF AccountOps

-----------------------------------------------------------------------------
(* The invariant for any number of handlers.                               *)

LEMMA InitAccount == Init => AccountInv
<1>. SUFFICES ASSUME Init PROVE AccountInv
  OBVIOUS
<1>2. users \in [Accounts -> User] /\ users = Seed
  BY SeedAssumption DEF Init
<1>3. \A a \in Accounts : users[a].role = "none" \/
        (users[a].role = "admin" <=> users[a].branch = NoBranch)
  BY <1>2, SeedAssumption
<1>4. \A a \in Accounts : LoginOf(users[a]) \in Login
  <2>. SUFFICES ASSUME NEW a \in Accounts PROVE LoginOf(users[a]) \in Login
    OBVIOUS
  <2>2. users[a] \in User
    BY <1>2
  <2>3. users[a].linked => users[a].role \in ApplicationRole
    BY <1>2, <2>2, SeedAssumption DEF NoUser, User
  <2>4. /\ users[a].linked \in BOOLEAN
        /\ users[a].active \in BOOLEAN
    BY <2>2 DEF User
  <2>. QED
    BY <2>3, <2>4 DEF LoginOf, NoLogin, Login
<1>5. logins \in [Accounts -> Login]
  BY <1>4 DEF Init
<1>6. /\ calls \in [Handlers -> Call \cup {Resting}]
      /\ ShapeInv
  BY DEF Init, ShapeInv, Resting
<1>7. started \in 0..MaxCalls /\ faults \in 0..MaxFaults
  BY BoundsAssumption DEF Init
<1>8. /\ branches \in [Branches -> {"absent", "active", "inactive"}]
      /\ unsure \subseteq Accounts
  BY DEF Init
<1>. QED
  BY <1>2, <1>3, <1>5, <1>6, <1>7, <1>8 DEF AccountInv, IdentityTypeOK, Login

(* The steps of a handler that touch neither Keycloak nor a row.           *)
LEMMA ChecksKeepAccount ==
  ASSUME AccountInv, NEW h \in Handlers,
         \/ Begin(h) \/ ReadAccount(h) \/ ValidateBranch(h)
         \/ AssertAnotherAdmin(h) \/ CountMembers(h) \/ Audited(h)
  PROVE  AccountInv'
<1>1. /\ calls \in [Handlers -> Call \cup {Resting}]
      /\ started \in 0..MaxCalls
      /\ users \in [Accounts -> User]
  BY DEF AccountInv, IdentityTypeOK
<1>2. /\ UNCHANGED <<users, branches, logins, unsure, faults>>
      /\ Begin(h) \/ UNCHANGED started
  BY DEF Begin, ReadAccount, ValidateBranch, AssertAnotherAdmin, CountMembers, Audited
<1>3. started' \in 0..MaxCalls
  BY <1>1, <1>2, BoundsAssumption DEF Begin
<1>4. SUFFICES /\ calls' \in [Handlers -> Call \cup {Resting}]
               /\ ShapeInv'
  BY <1>2, <1>3 DEF AccountInv, IdentityTypeOK
<1>5. calls[h].pc # "idle" =>
        /\ calls[h] \in Call
        /\ calls[h].op \in AccountOps \cup BranchOps
        /\ calls[h].id \in Accounts
        /\ Shaped(calls[h])
  BY <1>1, ServesACall DEF AccountInv, ShapeInv
<1>6. CASE Begin(h)
  <2>0. PICK by \in Accounts :
               \E r \in Requests(by) : calls' = [calls EXCEPT ![h] = r]
    BY <1>6 DEF Begin
  <2>1. PICK r \in Requests(by) : calls' = [calls EXCEPT ![h] = r]
    BY <2>0
  <2>2. r \in Call /\ Shaped(r)
    BY RequestsAreCalls
  <2>3. calls' \in [Handlers -> Call \cup {Resting}]
    BY <1>1, <2>1, <2>2
  <2>4. \A g \in Handlers : calls'[g] = IF g = h THEN r ELSE calls[g]
    BY <1>1, <2>1
  <2>5. \A g \in Handlers : calls'[g].pc # "idle" => Shaped(calls'[g])
    BY <2>2, <2>4 DEF AccountInv, ShapeInv
  <2>. QED
    BY <2>3, <2>5 DEF ShapeInv
<1>7. CASE ReadAccount(h)
  <2> DEFINE row == users[calls[h].id]
             pc  == AfterRead(calls[h], row)
             r   == [calls[h] EXCEPT !.pc = pc, !.row = row]
  <2>1. calls[h].pc = "read"
    BY <1>7 DEF ReadAccount, At
  <2>2. CASE pc = "idle"
    <3>1. Finish(h)
      BY <1>7, <2>2 DEF ReadAccount
    <3>. QED
      BY <3>1, RestsInShape
  <2>3. CASE pc # "idle"
    <3>1. calls' = [calls EXCEPT ![h] = r]
      BY <1>7, <2>3 DEF ReadAccount
    <3>2. calls[h].op \in {"update", "enable", "disable"}
      BY <1>5, <2>1 DEF Shaped, StepsOf, AccountOps, BranchOps
    <3>3. /\ pc \in StepsOf(calls[h].op)
          /\ row.role # "none"
      <4>1. row.role # "none"
        BY <2>3 DEF AfterRead
      <4>2. CASE calls[h].op = "update"
        <5>1. pc = "validate"
          BY <4>1, <4>2 DEF AfterRead
        <5>. QED
          BY <4>1, <4>2, <5>1 DEF StepsOf
      <4>3. CASE calls[h].op \in {"enable", "disable"}
        <5>1. pc \in {"count", "switch"}
          BY <2>3, <4>1, <4>3 DEF AfterRead
        <5>. QED
          BY <4>1, <4>3, <5>1 DEF StepsOf
      <4>. QED
        BY <3>2, <4>2, <4>3
    <3>4. row \in User /\ pc \in Pcs
      BY <1>1, <1>5, <2>1, <3>3, StepsArePcs
    <3>5. calls[h] \in Call
      BY <1>5, <2>1
    <3> HIDE DEF row, pc
    <3>6. /\ r \in Call
          /\ r.pc = pc /\ r.row = row
          /\ r.op = calls[h].op
          /\ r.role = calls[h].role /\ r.branch = calls[h].branch
      BY <3>4, <3>5 DEF Call, Pcs
    <3>7. Shaped(calls[h])
      BY <1>5, <2>1
    <3> HIDE DEF r
    <3>8. Shaped(r)
      BY <3>3, <3>6, <3>7 DEF Shaped
    <3>9. calls' \in [Handlers -> Call \cup {Resting}]
      BY <1>1, <3>1, <3>6
    <3>10. \A g \in Handlers : calls'[g] = IF g = h THEN r ELSE calls[g]
      BY <1>1, <3>1
    <3>11. \A g \in Handlers : calls'[g].pc # "idle" => Shaped(calls'[g])
      BY <3>8, <3>10 DEF AccountInv, ShapeInv
    <3>. QED
      BY <3>9, <3>11 DEF ShapeInv
  <2>. QED
    BY <2>2, <2>3
<1>8. CASE ValidateBranch(h)
  <2>1. calls[h].pc = "validate"
    BY <1>8 DEF ValidateBranch, At
  <2>2. calls[h].op \in {"create", "update"}
    BY <1>5, <2>1 DEF Shaped, StepsOf, AccountOps, BranchOps
  <2>3. Finish(h) \/ \E pc \in StepsOf(calls[h].op) : Goto(h, pc)
    BY <1>8, <2>2 DEF ValidateBranch, KeycloakStep, StepsOf
  <2>. QED
    BY <2>1, <2>3, MovesInShape, RestsInShape
<1>9. CASE AssertAnotherAdmin(h)
  <2>1. calls[h].pc = "count" /\ calls[h].op \in AccountOps
    BY <1>9 DEF AssertAnotherAdmin, At, Op
  <2>2. calls[h].op \in {"update", "enable", "disable"}
    BY <1>5, <2>1 DEF Shaped, StepsOf, AccountOps
  <2>3. Finish(h) \/ \E pc \in StepsOf(calls[h].op) : Goto(h, pc)
    BY <1>9, <2>2 DEF AssertAnotherAdmin, KeycloakStep, StepsOf, Op
  <2>. QED
    BY <2>1, <2>3, MovesInShape, RestsInShape
<1>10. CASE CountMembers(h)
  <2>1. calls[h].pc = "count" /\ calls[h].op = "deactivate"
    BY <1>10 DEF CountMembers, At, Op
  <2>2. Finish(h) \/ \E pc \in StepsOf(calls[h].op) : Goto(h, pc)
    BY <1>10, <2>1 DEF CountMembers, StepsOf
  <2>. QED
    BY <2>1, <2>2, MovesInShape, RestsInShape
<1>11. CASE Audited(h)
  BY <1>11, RestsInShape DEF Audited
<1>. QED
  BY <1>6, <1>7, <1>8, <1>9, <1>10, <1>11

(* The steps of a handler that touch Keycloak.                             *)
LEMMA KeycloakKeepsAccount ==
  ASSUME AccountInv, NEW h \in Handlers,
         KeycloakAnswers(h) \/ KeycloakRefuses(h) \/ KeycloakFails(h)
  PROVE  AccountInv'
<1>1. calls[h].pc \in KeycloakSteps
  BY DEF KeycloakAnswers, KeycloakRefuses, KeycloakFails
<1>2. calls[h].pc # "idle"
  BY <1>1 DEF KeycloakSteps
<1>3. calls[h] \in Call /\ calls[h].id \in Accounts /\ Shaped(calls[h])
  BY <1>2, ServesACall DEF AccountInv, IdentityTypeOK, ShapeInv
<1>4. /\ NextStep(calls[h]) \in StepsOf(calls[h].op) \cup {"idle"}
      /\ AfterFailure(calls[h]) \in StepsOf(calls[h].op) \cup {"idle"}
  BY <1>1, <1>3, KeycloakStepsFollow
<1>5. \E pc \in StepsOf(calls[h].op) \cup {"idle"} : Leave(h, pc)
  BY <1>4 DEF KeycloakAnswers, KeycloakRefuses, KeycloakFails
<1>6. /\ calls' \in [Handlers -> Call \cup {Resting}]
      /\ ShapeInv'
  BY <1>1, <1>5, LeavesInShape
<1>7. UNCHANGED logins \/ SetLogin(calls[h].id, Requested(calls[h]))
  BY DEF KeycloakAnswers, KeycloakRefuses, KeycloakFails
<1>8. logins \in [Accounts -> Login] /\ Requested(calls[h]) \in Login
  BY <1>1, RequestedIsALogin DEF AccountInv, IdentityTypeOK, Login
<1>9. logins' \in [Accounts -> Login]
  BY <1>7, <1>8 DEF SetLogin
<1>10. unsure' \subseteq Accounts
  BY <1>3 DEF AccountInv, IdentityTypeOK, KeycloakAnswers, KeycloakRefuses, KeycloakFails
<1>11. faults' \in 0..MaxFaults
  BY BoundsAssumption DEF AccountInv, IdentityTypeOK, KeycloakAnswers, KeycloakRefuses,
                          KeycloakFails
<1>12. UNCHANGED <<users, branches, started>>
  BY DEF KeycloakAnswers, KeycloakRefuses, KeycloakFails
<1>. QED
  BY <1>6, <1>9, <1>10, <1>11, <1>12 DEF AccountInv, IdentityTypeOK, Login

(* The steps of a handler that write a row, and the write that fails.      *)
LEMMA WritesKeepAccount ==
  ASSUME AccountInv, NEW h \in Handlers,
         SaveAccount(h) \/ SaveBranch(h) \/ DatabaseFails(h)
  PROVE  AccountInv'
<1>1. calls[h].pc \in {"save", "audit"}
  BY DEF SaveAccount, SaveBranch, DatabaseFails, At
<1>2. /\ calls[h] \in Call
      /\ calls[h].op \in AccountOps \cup BranchOps
      /\ calls[h].id \in Accounts
      /\ Shaped(calls[h])
  BY <1>1, ServesACall DEF AccountInv, IdentityTypeOK, ShapeInv
<1>3. "audit" \in StepsOf(calls[h].op)
  BY <1>2 DEF StepsOf, AccountOps, BranchOps
<1>4. calls[h].op \in AccountOps => "undo" \in StepsOf(calls[h].op)
  BY DEF StepsOf, AccountOps
<1>5. Finish(h) \/ \E pc \in StepsOf(calls[h].op) : Goto(h, pc)
  BY <1>3, <1>4 DEF SaveAccount, SaveBranch, DatabaseFails, Undoes
<1>6. /\ calls' \in [Handlers -> Call \cup {Resting}]
      /\ ShapeInv'
  BY <1>1, <1>5, MovesInShape, RestsInShape
<1>7. /\ UNCHANGED <<logins, started>>
      /\ unsure' \subseteq Accounts
  BY <1>2 DEF AccountInv, IdentityTypeOK, SaveAccount, SaveBranch, DatabaseFails
<1>8. faults' \in 0..MaxFaults
  BY BoundsAssumption DEF AccountInv, IdentityTypeOK, SaveAccount, SaveBranch, DatabaseFails
<1>9. branches' \in [Branches -> {"absent", "active", "inactive"}]
  <2>1. branches \in [Branches -> {"absent", "active", "inactive"}]
    BY DEF AccountInv, IdentityTypeOK
  <2>2. CASE SaveBranch(h)
    <3>1. calls[h].branch \in Branches
      BY <1>2, <2>2 DEF Shaped, SaveBranch, Op
    <3>2. branches' = [branches EXCEPT ![calls[h].branch] =
                         BranchAfter(calls[h].op, branches[calls[h].branch])]
      BY <2>2 DEF SaveBranch, Op
    <3>3. BranchAfter(calls[h].op, branches[calls[h].branch]) \in
            {"absent", "active", "inactive"}
      BY <2>1, <3>1 DEF BranchAfter
    <3>. QED
      BY <2>1, <3>2, <3>3
  <2>3. CASE SaveAccount(h) \/ DatabaseFails(h)
    BY <2>1, <2>3 DEF SaveAccount, DatabaseFails
  <2>. QED
    BY <2>2, <2>3
<1>10. /\ users' \in [Accounts -> User]
       /\ \A a \in Accounts : users'[a].role = "none" \/
            (users'[a].role = "admin" <=> users'[a].branch = NoBranch)
  <2>1. /\ users \in [Accounts -> User]
        /\ \A a \in Accounts : users[a].role = "none" \/
             (users[a].role = "admin" <=> users[a].branch = NoBranch)
    BY DEF AccountInv, IdentityTypeOK
  <2>2. CASE UNCHANGED users
    BY <2>1, <2>2
  <2>3. CASE SaveAccount(h) /\ users' = [users EXCEPT ![calls[h].id] = Written(calls[h])]
    <3>1. /\ Written(calls[h]) \in User
          /\ Written(calls[h]).role = "none" \/
               (Written(calls[h]).role = "admin" <=> Written(calls[h]).branch = NoBranch)
      BY <2>3, WrittenIsARow DEF SaveAccount, At
    <3>. QED
      BY <1>2, <2>1, <2>3, <3>1
  <2>. QED
    BY <2>2, <2>3 DEF SaveAccount, SaveBranch, DatabaseFails
<1>. QED
  BY <1>6, <1>7, <1>8, <1>9, <1>10 DEF AccountInv, IdentityTypeOK

LEMMA CrashKeepsAccount ==
  ASSUME AccountInv, Crash
  PROVE  AccountInv'
<1>1. /\ calls' \in [Handlers -> Call \cup {Resting}]
      /\ ShapeInv'
  BY DEF Crash, ShapeInv, Resting
<1>2. unsure' \subseteq Accounts
  <2>1. \A h \in Handlers : calls[h].pc # "idle" => calls[h].id \in Accounts
    BY ServesACall DEF AccountInv, IdentityTypeOK
  <2>. QED
    BY <2>1 DEF Crash, AccountInv, IdentityTypeOK
<1>3. /\ faults' \in 0..MaxFaults
      /\ UNCHANGED <<users, branches, logins, started>>
  BY BoundsAssumption DEF Crash, AccountInv, IdentityTypeOK
<1>. QED
  BY <1>1, <1>2, <1>3 DEF AccountInv, IdentityTypeOK

LEMMA NextKeepsAccount == AccountInv /\ [Next]_vars => AccountInv'
<1>. SUFFICES ASSUME AccountInv, [Next]_vars PROVE AccountInv'
  OBVIOUS
<1>2. CASE UNCHANGED vars
  BY <1>2 DEF vars, AccountInv, IdentityTypeOK, ShapeInv, Shaped
<1>3. CASE Crash
  BY <1>3, CrashKeepsAccount
<1>4. ASSUME NEW h \in Handlers,
             Begin(h) \/ Handle(h) \/ KeycloakFails(h) \/ DatabaseFails(h)
      PROVE  AccountInv'
  BY <1>4, ChecksKeepAccount, KeycloakKeepsAccount, WritesKeepAccount DEF Handle
<1>. QED
  BY <1>2, <1>3, <1>4 DEF Next

(* Whatever requests interleave, fail or are cut short by a crash, every   *)
(* one of them is at a step of its own operation and changes a row it has  *)
(* found.                                                                  *)
THEOREM AccountInvariance == Spec => []AccountInv
<1>1. Init => AccountInv
  BY InitAccount
<1>2. AccountInv /\ [Next]_vars => AccountInv'
  BY NextKeepsAccount
<1>. QED
  BY <1>1, <1>2, PTL DEF Spec

(* The rows keep their types and the CHECK constraint of `users`, and      *)
(* Keycloak is only ever given roles of the application.                   *)
THEOREM IdentityTypeCorrect == Spec => []IdentityTypeOK
<1>1. AccountInv => IdentityTypeOK
  BY DEF AccountInv
<1>. QED
  BY <1>1, AccountInvariance, PTL

-----------------------------------------------------------------------------
(* Requests served one at a time.                                          *)

OneAtATime == \A g, h \in Handlers : g = h

Served(c) == /\ Checked(c)
             /\ HasLogin(c)
             /\ c.id \notin unsure => Agreed(c)

(* The invariant, when h is the only handler.                              *)
AloneAt(h) ==
  /\ AdminRemains
  /\ calls[h].pc # "idle" => Served(calls[h])
  /\ \A a \in Accounts \ unsure :
       calls[h].pc = "idle" \/ calls[h].id # a => logins[a] = LoginOf(users[a])

LEMMA AloneIsAt ==
  ASSUME OneAtATime, NEW h \in Handlers
  PROVE  /\ AloneInv <=> AccountInv /\ AloneAt(h)
         /\ AloneInv' <=> AccountInv' /\ AloneAt(h)'
<1>1. \A g \in Handlers : g = h
  BY DEF OneAtATime
<1>2. AloneInv <=> AccountInv /\ AloneAt(h)
  <2>1. CheckedInv <=> (calls[h].pc # "idle" => Checked(calls[h]))
    BY <1>1 DEF CheckedInv
  <2>2. LoginInv <=>
          /\ calls[h].pc # "idle" =>
               HasLogin(calls[h]) /\ (calls[h].id \notin unsure => Agreed(calls[h]))
          /\ \A a \in Accounts \ unsure :
               calls[h].pc = "idle" \/ calls[h].id # a => logins[a] = LoginOf(users[a])
    BY <1>1 DEF LoginInv
  <2>. QED
    BY <2>1, <2>2 DEF AloneInv, AloneAt, Served
<1>3. AloneInv' <=> AccountInv' /\ AloneAt(h)'
  <2>1. CheckedInv' <=> (calls'[h].pc # "idle" => Checked(calls[h])')
    BY <1>1 DEF CheckedInv
  <2>2. LoginInv' <=>
          /\ calls'[h].pc # "idle" =>
               HasLogin(calls[h])' /\ (calls'[h].id \notin unsure' => Agreed(calls[h])')
          /\ \A a \in Accounts \ unsure' :
               calls'[h].pc = "idle" \/ calls'[h].id # a =>
                 logins'[a] = LoginOf(users[a])'
    BY <1>1 DEF LoginInv
  <2>. QED
    BY <2>1, <2>2 DEF AloneInv, AloneAt, Served
<1>. QED
  BY <1>2, <1>3

(* The handler's call, before a step that is not its first.                *)
LEMMA TheCall ==
  ASSUME AccountInv, NEW h \in Handlers, AloneAt(h), calls[h].pc # "idle"
  PROVE  /\ calls[h] \in Call
         /\ calls[h].op \in AccountOps \cup BranchOps
         /\ calls[h].id \in Accounts
         /\ calls[h].pc \in StepsOf(calls[h].op)
         /\ users[calls[h].id] \in User
         /\ Checked(calls[h])
         /\ HasLogin(calls[h])
         /\ calls[h].id \notin unsure => Agreed(calls[h])
         /\ users \in [Accounts -> User]
         /\ logins \in [Accounts -> Login]
<1>1. /\ calls \in [Handlers -> Call \cup {Resting}]
      /\ users \in [Accounts -> User]
      /\ logins \in [Accounts -> Login]
  BY DEF AccountInv, IdentityTypeOK, Login
<1>2. /\ calls[h] \in Call
      /\ calls[h].op \in AccountOps \cup BranchOps
      /\ calls[h].id \in Accounts
  BY <1>1, ServesACall
<1>3. Shaped(calls[h])
  BY DEF AccountInv, ShapeInv
<1>4. Served(calls[h])
  BY DEF AloneAt
<1>. QED
  BY <1>1, <1>2, <1>3, <1>4 DEF Shaped, Served

(* When rows and logins stay, the call decides.                            *)
LEMMA AloneMoves ==
  ASSUME NEW h \in Handlers, AloneAt(h), calls[h].pc # "idle",
         UNCHANGED <<users, logins, unsure>>,
         calls'[h].pc # "idle", calls'[h].id = calls[h].id, Served(calls'[h])
  PROVE  AloneAt(h)'
<1>1. AdminRemains'
  BY DEF AloneAt, AdminRemains
<1>2. Served(calls[h])'
  BY DEF Served, Checked, HasLogin, Agreed, Expected, AnotherAdmin, Occupied, LoginOf
<1>3. \A a \in Accounts \ unsure' :
        calls'[h].pc = "idle" \/ calls'[h].id # a => logins'[a] = LoginOf(users[a])'
  BY DEF AloneAt, LoginOf
<1>. QED
  BY <1>1, <1>2, <1>3 DEF AloneAt

LEMMA AloneRests ==
  ASSUME NEW h \in Handlers, AloneAt(h),
         UNCHANGED <<users, logins, unsure>>, calls'[h].pc = "idle",
         calls[h].id \notin unsure => logins[calls[h].id] = LoginOf(users[calls[h].id])
  PROVE  AloneAt(h)'
<1>1. AdminRemains'
  BY DEF AloneAt, AdminRemains
<1>2. \A a \in Accounts \ unsure : logins[a] = LoginOf(users[a])
  BY DEF AloneAt
<1>3. \A a \in Accounts \ unsure' : logins'[a] = LoginOf(users[a])'
  BY <1>2 DEF LoginOf
<1>. QED
  BY <1>1, <1>3 DEF AloneAt

LEMMA InitAlone == Init => AdminRemains /\ CheckedInv /\ LoginInv
<1>. SUFFICES ASSUME Init PROVE AdminRemains /\ CheckedInv /\ LoginInv
  OBVIOUS
<1>1. AdminRemains
  BY SeedAssumption DEF Init, AdminRemains
<1>2. \A h \in Handlers : calls[h].pc = "idle"
  BY DEF Init, Resting
<1>3. \A a \in Accounts : logins[a] = LoginOf(users[a])
  BY DEF Init
<1>. QED
  BY <1>1, <1>2, <1>3 DEF CheckedInv, LoginInv

(* A request arrives: nothing is in doubt about its account.               *)
LEMMA BeginAlone ==
  ASSUME AccountInv, NEW h \in Handlers, AloneAt(h), Begin(h)
  PROVE  AloneAt(h)'
<1>1. calls[h].pc = "idle" /\ UNCHANGED <<users, logins, unsure>>
  BY DEF Begin
<1>2. PICK by \in Accounts :
             \E r \in Requests(by) : calls' = [calls EXCEPT ![h] = r]
  BY DEF Begin
<1>3. PICK r \in Requests(by) : calls' = [calls EXCEPT ![h] = r]
  BY <1>2
<1>4. calls'[h] = r
  BY <1>3 DEF AccountInv, IdentityTypeOK
<1>5. /\ r \in Call
      /\ r.pc = FirstStep(r.op)
      /\ r.op \in AccountOps \cup BranchOps
      /\ r.id \in Accounts
  BY RequestsAreCalls DEF Call
<1>6. /\ r.op = "create" => r.pc = "validate"
      /\ r.op \in Changes => r.pc = "read"
      /\ r.op \in {"createBranch", "reactivate"} => r.pc = "save"
      /\ r.op = "deactivate" => r.pc = "count"
  BY <1>5 DEF FirstStep, Changes
<1>7. \A a \in Accounts \ unsure : logins[a] = LoginOf(users[a])
  BY <1>1 DEF AloneAt
<1>8. Checked(r)
  BY <1>5, <1>6 DEF Checked, Changes, Demotes, AccountOps, BranchOps
<1>9. HasLogin(r)
  BY <1>5, <1>6 DEF HasLogin, Changes
<1>10. Expected(r) = LoginOf(users[r.id])
  BY <1>5, <1>6 DEF Expected, Changes, AccountOps, BranchOps
<1>11. Agreed(r) \/ r.id \in unsure
  BY <1>5, <1>6, <1>7, <1>10 DEF Agreed, Changes
<1>12. Served(r)
  BY <1>8, <1>9, <1>11 DEF Served
<1>13. Served(calls[h])'
  BY <1>1, <1>4, <1>12
    DEF Served, Checked, HasLogin, Agreed, Expected, AnotherAdmin, Occupied, LoginOf
<1>14. AdminRemains'
  BY <1>1 DEF AloneAt, AdminRemains
<1>15. \A a \in Accounts \ unsure' : logins'[a] = LoginOf(users[a])'
  BY <1>1, <1>7 DEF LoginOf
<1>. QED
  BY <1>13, <1>14, <1>15 DEF AloneAt

(* The account is read: the row is what it is at that moment.              *)
LEMMA ReadAlone ==
  ASSUME AccountInv, NEW h \in Handlers, AloneAt(h), ReadAccount(h)
  PROVE  AloneAt(h)'
<1> DEFINE c   == calls[h]
           d   == calls'[h]
           row == users[c.id]
           pc  == AfterRead(c, row)
<1>1. /\ c.pc = "read"
      /\ UNCHANGED <<users, logins, unsure>>
  BY DEF ReadAccount, At
<1>2. /\ c \in Call
      /\ c.op \in AccountOps \cup BranchOps
      /\ c.pc \in StepsOf(c.op)
      /\ c.id \notin unsure => Agreed(c)
  BY <1>1, TheCall
<1>3. c.op \in Changes
  BY <1>1, <1>2 DEF StepsOf, AccountOps, BranchOps, Changes
<1>4. c.id \notin unsure => logins[c.id] = LoginOf(users[c.id])
  BY <1>1, <1>2, <1>3 DEF Agreed, Expected, Changes
<1>5. CASE pc = "idle"
  <2>1. calls'[h].pc = "idle"
    BY <1>5, Rests DEF ReadAccount, AccountInv, IdentityTypeOK
  <2>. QED
    BY <1>1, <1>4, <2>1, AloneRests
<1>6. CASE pc # "idle"
  <2>1. d = [c EXCEPT !.pc = pc, !.row = row]
    BY <1>6 DEF ReadAccount, AccountInv, IdentityTypeOK
  <2>2. /\ d.pc = pc /\ d.row = row
        /\ d.op = c.op /\ d.id = c.id /\ d.role = c.role
    BY <1>2, <2>1 DEF Call
  <2>3. /\ c.op = "update" => pc = "validate"
        /\ c.op \in {"enable", "disable"} => pc \in {"count", "switch"}
        /\ pc = "switch" => row.linked
        /\ c.op = "disable" /\ pc = "switch" => row.role # "admin"
    BY <1>3, <1>6 DEF AfterRead, Changes
  <2> HIDE DEF pc, d
  <2>4. Checked(d)
    BY <1>3, <2>2, <2>3 DEF Checked, Changes, Demotes
  <2>5. HasLogin(d)
    BY <1>3, <2>2, <2>3 DEF HasLogin, Changes
  <2>6. Expected(d) = LoginOf(users[d.id])
    BY <1>3, <2>2, <2>3 DEF Expected, Changes
  <2>7. d.id \notin unsure => Agreed(d)
    BY <1>3, <1>4, <2>2, <2>3, <2>6 DEF Agreed, Changes
  <2>8. Served(d)
    BY <2>4, <2>5, <2>7 DEF Served
  <2>9. d.pc # "idle" /\ c.pc # "idle"
    BY <1>1, <1>6, <2>2
  <2>. QED
    BY <1>1, <2>2, <2>8, <2>9, AloneMoves DEF d
<1>. QED
  BY <1>5, <1>6

(* The branch is read: an account that may be the last administrator is    *)
(* sent to be counted, the others go to Keycloak or to the row.            *)
LEMMA ValidateAlone ==
  ASSUME AccountInv, NEW h \in Handlers, AloneAt(h), ValidateBranch(h)
  PROVE  AloneAt(h)'
<1> DEFINE c == calls[h]
           d == calls'[h]
<1>1. /\ c.pc = "validate"
      /\ UNCHANGED <<users, logins, unsure>>
  BY DEF ValidateBranch, At
<1>2. /\ c \in Call
      /\ c.op \in AccountOps \cup BranchOps
      /\ c.pc \in StepsOf(c.op)
      /\ Checked(c)
      /\ HasLogin(c)
      /\ c.id \notin unsure => Agreed(c)
  BY <1>1, TheCall
<1>3. c.op \in {"create", "update"}
  BY <1>1, <1>2 DEF StepsOf, AccountOps, BranchOps
<1>4. c.id \notin unsure => logins[c.id] = LoginOf(users[c.id])
  BY <1>1, <1>2, <1>3 DEF Agreed, Expected
<1>5. CASE Finish(h)
  <2>1. calls'[h].pc = "idle"
    BY <1>5, Rests DEF AccountInv, IdentityTypeOK
  <2>. QED
    BY <1>1, <1>4, <2>1, AloneRests
<1>6. CASE ~Finish(h)
  <2>1. PICK pc \in {"provision", "count", "strip", "save"} :
          /\ Goto(h, pc)
          /\ c.op = "create" => pc = "provision"
          /\ c.op = "update" =>
               /\ pc # "provision"
               /\ pc = "count" <=> c.row.role = "admin" /\ c.role # "admin"
               /\ pc = "strip" => c.row.linked
               /\ pc = "save" => ~c.row.linked
    BY <1>3, <1>6 DEF ValidateBranch, KeycloakStep
  <2>2. /\ d.pc = pc /\ d.row = c.row
        /\ d.op = c.op /\ d.id = c.id /\ d.role = c.role
    BY <1>1, <2>1, Moves DEF Pcs, AccountInv, IdentityTypeOK
  <2> HIDE DEF c, d
  <2>4. Checked(d)
    BY <1>1, <1>2, <1>3, <2>1, <2>2 DEF Checked, Changes, Demotes
  <2>5. HasLogin(d)
    BY <1>3, <2>1, <2>2 DEF HasLogin
  <2>6. Expected(d) = LoginOf(users[d.id])
    BY <1>3, <2>1, <2>2 DEF Expected
  <2>7. d.id \notin unsure => Agreed(d)
    BY <1>3, <1>4, <2>1, <2>2, <2>6 DEF Agreed
  <2>8. Served(d)
    BY <2>4, <2>5, <2>7 DEF Served
  <2>9. d.pc # "idle" /\ c.pc # "idle"
    BY <1>1, <2>1, <2>2
  <2>. QED
    BY <1>1, <2>2, <2>8, <2>9, AloneMoves DEF c, d
<1>. QED
  BY <1>5, <1>6

(* The administrators are counted: another one is there, and stays.        *)
LEMMA CountAdminsAlone ==
  ASSUME AccountInv, NEW h \in Handlers, AloneAt(h), AssertAnotherAdmin(h)
  PROVE  AloneAt(h)'
<1> DEFINE c == calls[h]
           d == calls'[h]
<1>1. /\ c.pc = "count" /\ c.op \in AccountOps
      /\ UNCHANGED <<users, logins, unsure>>
  BY DEF AssertAnotherAdmin, At, Op
<1>2. /\ c \in Call
      /\ c.pc \in StepsOf(c.op)
      /\ Checked(c)
      /\ c.id \notin unsure => Agreed(c)
  BY <1>1, TheCall
<1>3. c.op \in {"update", "enable", "disable"}
  BY <1>1, <1>2 DEF StepsOf, AccountOps
<1>4. c.id \notin unsure => logins[c.id] = LoginOf(users[c.id])
  BY <1>1, <1>2, <1>3 DEF Agreed, Expected
<1>5. CASE Finish(h)
  <2>1. calls'[h].pc = "idle"
    BY <1>5, Rests DEF AccountInv, IdentityTypeOK
  <2>. QED
    BY <1>1, <1>4, <2>1, AloneRests
<1>6. CASE ~Finish(h)
  <2>1. PICK pc \in {"switch", "strip", "save"} :
          /\ Goto(h, pc)
          /\ AnotherAdmin(c.id)
          /\ c.op = "update" =>
               /\ pc # "switch"
               /\ pc = "strip" => c.row.linked
               /\ pc = "save" => ~c.row.linked
          /\ c.op # "update" => pc = "switch" /\ c.row.linked
    BY <1>3, <1>6 DEF AssertAnotherAdmin, KeycloakStep, Op
  <2>2. /\ d.pc = pc /\ d.row = c.row
        /\ d.op = c.op /\ d.id = c.id /\ d.role = c.role
    BY <1>1, <2>1, Moves DEF Pcs, AccountInv, IdentityTypeOK
  <2> HIDE DEF c, d
  <2>4. Checked(d)
    BY <1>1, <1>2, <1>3, <2>1, <2>2 DEF Checked, Changes
  <2>5. HasLogin(d)
    BY <1>3, <2>1, <2>2 DEF HasLogin
  <2>6. Expected(d) = LoginOf(users[d.id])
    BY <1>3, <2>1, <2>2 DEF Expected
  <2>7. d.id \notin unsure => Agreed(d)
    BY <1>3, <1>4, <2>1, <2>2, <2>6 DEF Agreed
  <2>8. Served(d)
    BY <2>4, <2>5, <2>7 DEF Served
  <2>9. d.pc # "idle" /\ c.pc # "idle"
    BY <1>1, <2>1, <2>2
  <2>. QED
    BY <1>1, <2>2, <2>8, <2>9, AloneMoves DEF c, d
<1>. QED
  BY <1>5, <1>6

(* The members of a branch are counted: there is none, and none comes.     *)
LEMMA CountMembersAlone ==
  ASSUME AccountInv, NEW h \in Handlers, AloneAt(h), CountMembers(h)
  PROVE  AloneAt(h)'
<1> DEFINE c == calls[h]
           d == calls'[h]
<1>1. /\ c.pc = "count" /\ c.op = "deactivate"
      /\ UNCHANGED <<users, logins, unsure>>
  BY DEF CountMembers, At, Op
<1>2. c.id \notin unsure => Agreed(c)
  BY <1>1, TheCall
<1>4. c.id \notin unsure => logins[c.id] = LoginOf(users[c.id])
  BY <1>1, <1>2 DEF Agreed, Expected
<1>5. CASE Finish(h)
  <2>1. calls'[h].pc = "idle"
    BY <1>5, Rests DEF AccountInv, IdentityTypeOK
  <2>. QED
    BY <1>1, <1>4, <2>1, AloneRests
<1>6. CASE ~Finish(h)
  <2>1. Goto(h, "save") /\ ~Occupied(c.branch)
    BY <1>6 DEF CountMembers
  <2>2. /\ d.pc = "save" /\ d.branch = c.branch
        /\ d.op = c.op /\ d.id = c.id
    BY <1>1, <2>1, Moves DEF Pcs, AccountInv, IdentityTypeOK
  <2> HIDE DEF c, d
  <2>4. Checked(d)
    BY <1>1, <2>1, <2>2 DEF Checked, Changes, Demotes
  <2>5. HasLogin(d)
    BY <1>1, <2>2 DEF HasLogin
  <2>7. d.id \notin unsure => Agreed(d)
    BY <1>1, <1>4, <2>2 DEF Agreed, Expected
  <2>8. Served(d)
    BY <2>4, <2>5, <2>7 DEF Served
  <2>9. d.pc # "idle" /\ c.pc # "idle"
    BY <1>1, <2>2
  <2>. QED
    BY <1>1, <2>2, <2>8, <2>9, AloneMoves DEF c, d
<1>. QED
  BY <1>5, <1>6

(* The audit entry is written, and the request answered.                   *)
LEMMA AuditedAlone ==
  ASSUME AccountInv, NEW h \in Handlers, AloneAt(h), Audited(h)
  PROVE  AloneAt(h)'
<1> DEFINE c == calls[h]
<1>1. /\ c.pc = "audit"
      /\ UNCHANGED <<users, logins, unsure>>
      /\ Finish(h)
  BY DEF Audited, At
<1>2. c.id \notin unsure => Agreed(c)
  BY <1>1, TheCall
<1>3. c.id \notin unsure => logins[c.id] = LoginOf(users[c.id])
  BY <1>1, <1>2 DEF Agreed, Expected
<1>4. calls'[h].pc = "idle"
  BY <1>1, Rests DEF AccountInv, IdentityTypeOK
<1>. QED
  BY <1>1, <1>3, <1>4, AloneRests

(* Logins that exist, field by field.                                      *)
LoginIs(k, enabled, roles) ==
  /\ k \in Login
  /\ k.exists
  /\ k.enabled = enabled
  /\ k.roles = roles

LEMMA SameLogin ==
  ASSUME NEW k, NEW l, NEW enabled, NEW roles,
         LoginIs(k, enabled, roles), LoginIs(l, enabled, roles)
  PROVE  k = l
BY DEF LoginIs, Login

LEMMA ThisLogin ==
  ASSUME NEW enabled \in BOOLEAN, NEW roles \in SUBSET ApplicationRole
  PROVE  LoginIs([exists |-> TRUE, enabled |-> enabled, roles |-> roles], enabled, roles)
BY DEF LoginIs, Login

(* A request that Keycloak grants finds what the one before it left there, *)
(* so that the login is always what the step says.                         *)
LEMMA RequestGivesExpected ==
  ASSUME AccountInv, NEW h \in Handlers, AloneAt(h), KeycloakAnswers(h),
         calls[h].id \notin unsure,
         NEW d, d.op = calls[h].op, d.id = calls[h].id, d.role = calls[h].role,
         d.row = calls[h].row, d.pc = NextStep(calls[h])
  PROVE  Requested(calls[h]) = Expected(d)
<1> DEFINE c == calls[h]
           u == users[c.id]
           l == LoginOf(u)
<1>1. /\ c.pc \in KeycloakSteps
      /\ Possible(c)
  BY DEF KeycloakAnswers
<1>2. c.pc # "idle"
  BY <1>1 DEF KeycloakSteps
<1>3. /\ c.op \in AccountOps \cup BranchOps
      /\ c.pc \in StepsOf(c.op)
      /\ c.role \in ApplicationRole
      /\ c.op \in Changes => c.row.role # "none"
      /\ u \in User
      /\ Checked(c)
      /\ HasLogin(c)
      /\ Agreed(c)
  <2>1. c.op \in Changes => c.row.role # "none"
    BY <1>1, <1>2 DEF AccountInv, ShapeInv, Shaped, KeycloakSteps
  <2>. QED
    BY <1>2, <2>1, TheCall DEF Call
<1>4. /\ d.op = c.op /\ d.id = c.id /\ d.role = c.role /\ d.row = c.row
      /\ d.pc = NextStep(c)
  OBVIOUS
<1>5. /\ Expected(c) = logins[c.id]
      /\ LoginOf(users[c.id]) = l
      /\ users[c.id] = u
  BY <1>3 DEF Agreed
<1>6. SUFFICES Requested(c) = Expected(d)
  OBVIOUS
<1> HIDE DEF c, u, l
<1>7. u.linked => l = [exists |-> TRUE, enabled |-> u.active, roles |-> {u.role}]
  BY DEF l, LoginOf
<1>8. ~u.linked => l = NoLogin
  BY DEF l, LoginOf
<1>13. /\ u.active \in BOOLEAN
       /\ c.row = u /\ c.row.role # "none" => u.role \in ApplicationRole
       /\ {} \in SUBSET ApplicationRole
  BY <1>3 DEF User
<1>9. CASE c.op = "create"
  <2>1. c.pc \in {"provision", "strip", "grant", "undo"}
    BY <1>1, <1>3, <1>9 DEF StepsOf, KeycloakSteps
  <2>2. CASE c.pc = "provision"
    BY <1>4, <1>9, <2>2 DEF Requested, Expected, NextStep
  <2>3. CASE c.pc = "strip"
    BY <1>4, <1>5, <1>9, <2>3 DEF Requested, Expected, NextStep
  <2>4. CASE c.pc = "grant"
    <3>1. Expected(c) = [exists |-> TRUE, enabled |-> TRUE, roles |-> {}]
      BY <1>9, <2>4 DEF Expected
    <3>2. LoginIs(logins[c.id], TRUE, {})
      BY <1>5, <3>1, ThisLogin
    <3>3. Requested(c) = [logins[c.id] EXCEPT !.roles = logins[c.id].roles \cup {c.role}]
      BY <2>4 DEF Requested
    <3>4. LoginIs(Requested(c), TRUE, {c.role})
      BY <1>3, <3>2, <3>3 DEF LoginIs, Login
    <3>5. Expected(d) = [exists |-> TRUE, enabled |-> TRUE, roles |-> {c.role}]
      BY <1>4, <1>9, <2>4 DEF Expected, NextStep
    <3>6. LoginIs(Expected(d), TRUE, {c.role})
      BY <1>3, <3>5, ThisLogin
    <3>. QED
      BY <3>4, <3>6, SameLogin
  <2>5. CASE c.pc = "undo"
    <3>1. Requested(c) = NoLogin
      BY <1>9, <2>5 DEF Requested, Undone
    <3>2. Expected(d) = l
      BY <1>4, <1>5, <1>9, <2>5 DEF Expected, NextStep
    <3>3. ~u.linked
      BY <1>3, <1>5, <1>9, <2>5 DEF Agreed
    <3>. QED
      BY <1>8, <3>1, <3>2, <3>3
  <2>. QED
    BY <2>1, <2>2, <2>3, <2>4, <2>5
<1>10. CASE c.op = "update"
  <2>1. c.pc \in {"strip", "grant", "undo", "undoGrant"}
    BY <1>1, <1>3, <1>10 DEF StepsOf, KeycloakSteps
  <2>2. c.row = u /\ c.row.linked
    BY <1>3, <1>5, <1>10, <2>1 DEF Checked, HasLogin, Changes
  <2>3. l = [exists |-> TRUE, enabled |-> u.active, roles |-> {u.role}]
    BY <1>7, <2>2
  <2>8. LoginIs(l, u.active, {u.role})
    BY <1>3, <1>10, <1>13, <2>2, <2>3, ThisLogin DEF Changes
  <2>4. CASE c.pc = "strip"
    <3>1. logins[c.id] = l
      BY <1>5, <1>10, <2>4 DEF Expected
    <3>2. Requested(c) = [l EXCEPT !.roles = {}]
      BY <2>4, <3>1 DEF Requested
    <3>3. Expected(d) = [l EXCEPT !.roles = {}]
      BY <1>4, <1>5, <1>10, <2>4 DEF Expected, NextStep
    <3>. QED
      BY <3>2, <3>3
  <2>5. CASE c.pc = "grant"
    <3>1. Expected(c) = [l EXCEPT !.roles = {}]
      BY <1>5, <1>10, <2>5 DEF Expected
    <3>2. LoginIs(logins[c.id], u.active, {})
      BY <1>5, <2>8, <3>1 DEF LoginIs, Login
    <3>3. Requested(c) = [logins[c.id] EXCEPT !.roles = logins[c.id].roles \cup {c.role}]
      BY <2>5 DEF Requested
    <3>4. LoginIs(Requested(c), u.active, {c.role})
      BY <1>3, <3>2, <3>3 DEF LoginIs, Login
    <3>5. Expected(d) = [l EXCEPT !.roles = {c.role}]
      BY <1>4, <1>5, <1>10, <2>2, <2>5 DEF Expected, NextStep
    <3>6. LoginIs(Expected(d), u.active, {c.role})
      BY <1>3, <2>8, <3>5 DEF LoginIs, Login
    <3>. QED
      BY <3>4, <3>6, SameLogin
  <2>6. CASE c.pc = "undo"
    <3>1. Expected(c) = [l EXCEPT !.roles = {c.role}]
      BY <1>5, <1>10, <2>2, <2>6 DEF Expected
    <3>2. LoginIs(logins[c.id], u.active, {c.role})
      BY <1>3, <1>5, <2>8, <3>1 DEF LoginIs, Login
    <3>3. Requested(c) = [logins[c.id] EXCEPT !.roles = {}]
      BY <1>10, <2>6 DEF Requested, Undone
    <3>4. LoginIs(Requested(c), u.active, {})
      BY <3>2, <3>3 DEF LoginIs, Login
    <3>5. Expected(d) = [l EXCEPT !.roles = {}]
      BY <1>4, <1>5, <1>10, <2>6 DEF Expected, NextStep
    <3>6. LoginIs(Expected(d), u.active, {})
      BY <2>8, <3>5 DEF LoginIs, Login
    <3>. QED
      BY <3>4, <3>6, SameLogin
  <2>7. CASE c.pc = "undoGrant"
    <3>1. Expected(c) = [l EXCEPT !.roles = {}]
      BY <1>5, <1>10, <2>7 DEF Expected
    <3>2. LoginIs(logins[c.id], u.active, {})
      BY <1>5, <2>8, <3>1 DEF LoginIs, Login
    <3>3. Requested(c) = [logins[c.id] EXCEPT !.roles = logins[c.id].roles \cup {c.row.role}]
      BY <2>7 DEF Requested
    <3>4. LoginIs(Requested(c), u.active, {u.role})
      BY <1>3, <1>10, <1>13, <2>2, <3>2, <3>3 DEF LoginIs, Login, Changes
    <3>5. Expected(d) = l
      BY <1>4, <1>5, <1>10, <2>7 DEF Expected, NextStep
    <3>. QED
      BY <2>8, <3>4, <3>5, SameLogin
  <2>. QED
    BY <2>1, <2>4, <2>5, <2>6, <2>7
<1>11. CASE c.op \in {"enable", "disable"}
  <2>1. c.pc \in {"switch", "undo"}
    BY <1>1, <1>3, <1>11 DEF StepsOf, KeycloakSteps
  <2>2. c.row = u /\ c.row.linked
    BY <1>3, <1>5, <1>11, <2>1 DEF Checked, HasLogin, Changes
  <2>3. l = [exists |-> TRUE, enabled |-> u.active, roles |-> {u.role}]
    BY <1>7, <2>2
  <2>8. LoginIs(l, u.active, {u.role})
    BY <1>3, <1>11, <1>13, <2>2, <2>3, ThisLogin DEF Changes
  <2>4. CASE c.pc = "switch"
    <3>1. logins[c.id] = l
      BY <1>5, <1>11, <2>4 DEF Expected
    <3>2. Requested(c) = [l EXCEPT !.enabled = (c.op = "enable")]
      BY <2>4, <3>1 DEF Requested
    <3>3. Expected(d) = [l EXCEPT !.enabled = (c.op = "enable")]
      BY <1>4, <1>5, <1>11, <2>4 DEF Expected, NextStep
    <3>. QED
      BY <3>2, <3>3
  <2>5. CASE c.pc = "undo"
    <3>1. Expected(c) = [l EXCEPT !.enabled = (c.op = "enable")]
      BY <1>5, <1>11, <2>5 DEF Expected
    <3>2. LoginIs(logins[c.id], (c.op = "enable"), {u.role})
      <4>1. LoginIs(Expected(c), (c.op = "enable"), {u.role})
        BY <2>8, <3>1 DEF LoginIs, Login
      <4>. QED
        BY <1>5, <4>1
    <3>3. Requested(c) = [logins[c.id] EXCEPT !.enabled = ~(c.op = "enable")]
      BY <1>11, <2>5 DEF Requested, Undone
    <3>4. c.row.active # (c.op = "enable")
      BY <1>3, <1>11, <2>5 DEF Agreed
    <3>5. u.active = ~(c.op = "enable")
      BY <1>13, <2>2, <3>4
    <3>6. Requested(c) = [logins[c.id] EXCEPT !.enabled = u.active]
      BY <3>3, <3>5
    <3>7. LoginIs(Requested(c), u.active, {u.role})
      BY <1>13, <3>2, <3>6 DEF LoginIs, Login
    <3>8. Expected(d) = l
      BY <1>4, <1>5, <1>11, <2>5 DEF Expected, NextStep
    <3>. QED
      BY <2>8, <3>7, <3>8, SameLogin
  <2>. QED
    BY <2>1, <2>4, <2>5
<1>12. CASE c.op \in BranchOps
  BY <1>1, <1>3, <1>12 DEF StepsOf, KeycloakSteps, BranchOps
<1>. QED
  BY <1>3, <1>9, <1>10, <1>11, <1>12 DEF AccountOps

(* Keycloak does what it is asked.                                         *)
LEMMA AnswersAlone ==
  ASSUME AccountInv, NEW h \in Handlers, AloneAt(h), KeycloakAnswers(h)
  PROVE  AloneAt(h)'
<1> DEFINE c == calls[h]
           d == [c EXCEPT !.pc = NextStep(c)]
           u == users[c.id]
<1>1. /\ c.pc \in KeycloakSteps
      /\ Possible(c)
      /\ logins' = [logins EXCEPT ![c.id] = Requested(c)]
      /\ Leave(h, NextStep(c))
      /\ UNCHANGED <<users, branches, unsure>>
  BY DEF KeycloakAnswers, SetLogin
<1>2. c.pc # "idle"
  BY <1>1 DEF KeycloakSteps
<1>3. /\ c \in Call
      /\ c.op \in AccountOps \cup BranchOps
      /\ c.id \in Accounts
      /\ c.pc \in StepsOf(c.op)
      /\ u \in User
      /\ Checked(c)
      /\ HasLogin(c)
      /\ c.id \notin unsure => Agreed(c)
      /\ logins \in [Accounts -> Login]
  BY <1>2, TheCall
<1>4. /\ d.pc = NextStep(c) /\ d.op = c.op /\ d.id = c.id
      /\ d.role = c.role /\ d.row = c.row
  BY <1>3 DEF Call
<1>5. /\ c.op = "create" => c.pc \in {"provision", "strip", "grant", "undo"}
      /\ c.op = "update" => c.pc \in {"strip", "grant", "undo", "undoGrant"}
      /\ c.op \in {"enable", "disable"} => c.pc \in {"switch", "undo"}
      /\ c.op \in {"create", "update", "enable", "disable"}
  BY <1>1, <1>3 DEF StepsOf, KeycloakSteps, AccountOps, BranchOps
<1>6. c.id \notin unsure => Requested(c) = Expected(d)
  <2>. HIDE DEF c, d
  <2>1. ASSUME calls[h].id \notin unsure, d.op = calls[h].op, d.id = calls[h].id,
               d.role = calls[h].role, d.row = calls[h].row, d.pc = NextStep(calls[h])
        PROVE  Requested(calls[h]) = Expected(d)
    BY <2>1, RequestGivesExpected
  <2>. QED
    BY <1>4, <2>1 DEF c
<1>7. AdminRemains'
  BY <1>1 DEF AloneAt, AdminRemains
<1>8. /\ logins'[c.id] = Requested(c)
      /\ \A a \in Accounts : a # c.id => logins'[a] = logins[a]
  BY <1>1, <1>3
<1>9. \A a \in Accounts \ unsure' : a # c.id => logins'[a] = LoginOf(users[a])'
  BY <1>1, <1>2, <1>8 DEF AloneAt, LoginOf
<1>10. CASE NextStep(c) = "idle"
  <2>1. calls'[h].pc = "idle"
    BY <1>1, <1>10, Rests DEF Leave, AccountInv, IdentityTypeOK
  <2>2. Expected(d) = LoginOf(users[c.id])
    BY <1>4, <1>10 DEF Expected
  <2>3. c.id \notin unsure => logins'[c.id] = LoginOf(users[c.id])
    BY <1>6, <1>8, <2>2
  <2>4. \A a \in Accounts \ unsure' : logins'[a] = LoginOf(users[a])'
    BY <1>1, <1>9, <2>3 DEF LoginOf
  <2>. QED
    BY <1>7, <2>1, <2>4 DEF AloneAt
<1>11. CASE NextStep(c) # "idle"
  <2>1. Goto(h, NextStep(c))
    BY <1>1, <1>11 DEF Leave
  <2>2. calls'[h] = d
    BY <2>1 DEF Goto, AccountInv, IdentityTypeOK
  <2>3. /\ c.op = "create" => \/ c.pc = "provision" /\ d.pc = "strip"
                              \/ c.pc = "strip" /\ d.pc = "grant"
                              \/ c.pc = "grant" /\ d.pc = "save"
        /\ c.op = "update" => \/ c.pc = "strip" /\ d.pc = "grant"
                              \/ c.pc = "grant" /\ d.pc = "save"
                              \/ c.pc = "undo" /\ d.pc = "undoGrant"
        /\ c.op \in {"enable", "disable"} => c.pc = "switch" /\ d.pc = "save"
    BY <1>4, <1>5, <1>11 DEF NextStep
  <2> HIDE DEF c, d, u
  <2>4. Checked(d)
    BY <1>3, <1>4, <1>5, <2>3 DEF Checked, Changes, Demotes
  <2>5. HasLogin(d)
    BY <1>3, <1>4, <1>5, <2>3 DEF HasLogin
  <2>6. c.id \notin unsure /\ c.op = "create" => ~users[c.id].linked
    <3>1. CASE c.pc = "provision" /\ c.id \notin unsure /\ c.op = "create"
      <4>1. logins[c.id] = LoginOf(users[c.id])
        BY <1>3, <3>1 DEF Agreed, Expected
      <4>2. ~logins[c.id].exists
        BY <1>1, <3>1 DEF Possible
      <4>. QED
        BY <4>1, <4>2 DEF LoginOf
    <3>2. CASE c.pc # "provision" /\ c.id \notin unsure /\ c.op = "create"
      BY <1>3, <1>5, <2>3, <3>2 DEF Agreed
    <3>. QED
      BY <3>1, <3>2
  <2>7. d.pc # "undo"
    BY <1>5, <2>3
  <2>8. c.id \notin unsure => logins'[d.id] = Expected(d)
    BY <1>4, <1>6, <1>8
  <2>9. Served(calls[h])'
    <3>1. Checked(calls[h])'
      BY <1>1, <2>2, <2>4 DEF Checked, AnotherAdmin, Occupied
    <3>2. HasLogin(calls[h])'
      BY <2>2, <2>5 DEF HasLogin
    <3>3. c.id \notin unsure => Agreed(calls[h])'
      <4>1. Expected(calls[h])' = Expected(d)
        BY <1>1, <2>2 DEF Expected, LoginOf
      <4>. QED
        BY <1>1, <1>4, <2>2, <2>6, <2>7, <2>8, <4>1 DEF Agreed
    <3>. QED
      BY <1>1, <1>4, <2>2, <3>1, <3>2, <3>3 DEF Served
  <2>10. \A a \in Accounts \ unsure' :
           calls'[h].pc = "idle" \/ calls'[h].id # a => logins'[a] = LoginOf(users[a])'
    BY <1>4, <1>9, <1>11, <2>2
  <2>. QED
    BY <1>7, <2>9, <2>10 DEF AloneAt
<1>. QED
  BY <1>10, <1>11

(* Keycloak refuses what it cannot do: of a login that is not in doubt,    *)
(* only a creation whose username it has already.                          *)
LEMMA RefusesAlone ==
  ASSUME AccountInv, NEW h \in Handlers, AloneAt(h), KeycloakRefuses(h)
  PROVE  AloneAt(h)'
<1> DEFINE c == calls[h]
           u == users[c.id]
<1>1. /\ c.pc \in KeycloakSteps
      /\ ~Possible(c)
      /\ Leave(h, AfterFailure(c))
      /\ UNCHANGED <<users, logins, unsure>>
  BY DEF KeycloakRefuses
<1>2. c.pc # "idle"
  BY <1>1 DEF KeycloakSteps
<1>3. /\ c.op \in AccountOps \cup BranchOps
      /\ c.pc \in StepsOf(c.op)
      /\ Checked(c)
      /\ HasLogin(c)
      /\ c.id \notin unsure => Agreed(c)
  BY <1>2, TheCall
<1>4. /\ c.op = "create" => c.pc \in {"provision", "strip", "grant", "undo"}
      /\ c.op = "update" => c.pc \in {"strip", "grant", "undo", "undoGrant"}
      /\ c.op \in {"enable", "disable"} => c.pc \in {"switch", "undo"}
      /\ c.op \in {"create", "update", "enable", "disable"}
  BY <1>1, <1>3 DEF StepsOf, KeycloakSteps, AccountOps, BranchOps
<1>5. c.id \notin unsure => c.pc = "provision"
  <2>. SUFFICES ASSUME c.id \notin unsure, c.pc # "provision" PROVE FALSE
    OBVIOUS
  <2>1. ~logins[c.id].exists
    BY <1>1 DEF Possible
  <2>2. logins[c.id] = Expected(c)
    BY <1>3 DEF Agreed
  <2> HIDE DEF c, u
  <2>3. CASE c.op = "create" /\ c.pc \in {"strip", "grant", "undo"}
    BY <2>1, <2>2, <2>3 DEF Expected
  <2>4. CASE c.op \in Changes
    <3>1. users[c.id].linked
      BY <1>3, <1>4, <2>4 DEF Checked, HasLogin, Changes
    <3>2. LoginOf(users[c.id]) =
            [exists |-> TRUE, enabled |-> users[c.id].active, roles |-> {users[c.id].role}]
      BY <3>1 DEF LoginOf
    <3>3. LoginOf(users[c.id]).exists
      BY <3>2
    <3> DEFINE l == LoginOf(users[c.id])
    <3>4. \/ Expected(c) = l
          \/ Expected(c) = [l EXCEPT !.roles = {}]
          \/ Expected(c) = [l EXCEPT !.roles = {c.role}]
          \/ Expected(c) = [l EXCEPT !.enabled = (c.op = "enable")]
      BY <1>4, <2>4 DEF Expected, Changes
    <3> HIDE DEF l
    <3>5. Expected(c).exists
      BY <3>2, <3>3, <3>4 DEF l
    <3>. QED
      BY <2>1, <2>2, <3>5
  <2>. QED
    BY <1>4, <2>3, <2>4 DEF Changes
<1>6. CASE AfterFailure(c) = "idle"
  <2>1. calls'[h].pc = "idle"
    BY <1>1, <1>6, Rests DEF Leave, AccountInv, IdentityTypeOK
  <2>2. c.id \notin unsure => logins[c.id] = LoginOf(users[c.id])
    BY <1>3, <1>5 DEF Agreed, Expected
  <2>. QED
    BY <1>1, <2>1, <2>2, AloneRests
<1>7. CASE AfterFailure(c) # "idle"
  <2> DEFINE d == calls'[h]
  <2>1. c.op = "create" /\ AfterFailure(c) = "undo" /\ c.id \in unsure
    BY <1>5, <1>7 DEF AfterFailure
  <2>2. Goto(h, "undo")
    BY <1>1, <2>1 DEF Leave
  <2>3. d.pc = "undo" /\ d.op = c.op /\ d.id = c.id
    BY <1>2, <2>2, Moves DEF Pcs, AccountInv, IdentityTypeOK
  <2> HIDE DEF c, d
  <2>4. Served(d)
    BY <2>1, <2>3 DEF Served, Checked, HasLogin, Changes, Demotes
  <2>. QED
    BY <1>1, <1>2, <2>3, <2>4, AloneMoves DEF c, d
<1>. QED
  BY <1>6, <1>7

(* A failure of Keycloak puts the account in doubt.                        *)
LEMMA FailsAlone ==
  ASSUME AccountInv, NEW h \in Handlers, AloneAt(h), KeycloakFails(h)
  PROVE  AloneAt(h)'
<1> DEFINE c == calls[h]
           d == calls'[h]
<1>1. /\ c.pc \in KeycloakSteps
      /\ UNCHANGED logins \/ SetLogin(c.id, Requested(c))
      /\ Leave(h, AfterFailure(c))
      /\ unsure' = unsure \cup {c.id}
      /\ UNCHANGED users
  BY DEF KeycloakFails
<1>2. c.pc # "idle"
  BY <1>1 DEF KeycloakSteps
<1>3. AdminRemains'
  BY <1>1 DEF AloneAt, AdminRemains
<1>4. logins \in [Accounts -> Login]
  BY DEF AccountInv, IdentityTypeOK, Login
<1>5. \A a \in Accounts : a # c.id => logins'[a] = logins[a]
  BY <1>1, <1>4 DEF SetLogin
<1>6. \A a \in Accounts \ unsure' : logins'[a] = LoginOf(users[a])'
  BY <1>1, <1>2, <1>5 DEF AloneAt, LoginOf
<1>7. CASE AfterFailure(c) = "idle"
  <2>1. calls'[h].pc = "idle"
    BY <1>1, <1>7, Rests DEF Leave, AccountInv, IdentityTypeOK
  <2>. QED
    BY <1>3, <1>6, <2>1 DEF AloneAt
<1>8. CASE AfterFailure(c) # "idle"
  <2>1. c.op = "create" /\ AfterFailure(c) = "undo"
    BY <1>8 DEF AfterFailure
  <2>2. Goto(h, "undo")
    BY <1>1, <2>1 DEF Leave
  <2>3. d.pc = "undo" /\ d.op = "create" /\ d.id = c.id
    BY <1>2, <2>1, <2>2, Moves DEF Pcs, AccountInv, IdentityTypeOK
  <2>4. d.id \in unsure'
    BY <1>1, <2>3
  <2>5. Served(calls[h])'
    BY <2>3, <2>4 DEF Served, Checked, HasLogin, Changes, Demotes
  <2>. QED
    BY <1>3, <1>6, <2>5 DEF AloneAt
<1>. QED
  BY <1>7, <1>8

(* The UPDATE of a row: what Keycloak already says of the account, the row *)
(* now says too, and another administrator remains if this one is gone.    *)
LEMMA WrittenAlone ==
  ASSUME AccountInv, NEW h \in Handlers, AloneAt(h), SaveAccount(h),
         users' = [users EXCEPT ![calls[h].id] = Written(calls[h])], Goto(h, "audit"),
         calls[h].op = "create" => users[calls[h].id].role = "none"
  PROVE  AloneAt(h)'
<1> DEFINE c == calls[h]
           d == calls'[h]
           u == users[c.id]
           w == Written(c)
<1>1. /\ c.pc = "save" /\ c.op \in AccountOps
      /\ UNCHANGED <<branches, logins, unsure>>
  BY DEF SaveAccount, At
<1>2. /\ c.id \in Accounts
      /\ c.role \in ApplicationRole
      /\ u \in User
      /\ Checked(c)
      /\ HasLogin(c)
      /\ c.id \notin unsure => Agreed(c)
      /\ users \in [Accounts -> User]
  BY <1>1, TheCall DEF Call
<1>3. /\ d.pc = "audit" /\ d.op = c.op /\ d.id = c.id
  BY <1>1, Moves DEF Pcs, AccountInv, IdentityTypeOK
<1>4. /\ users'[c.id] = w
      /\ \A a \in Accounts : a # c.id => users'[a] = users[a]
  BY <1>2
<1>5. c.op = "create" => users[c.id].role = "none"
  OBVIOUS
<1>6. PICK a \in Accounts : users[a].role = "admin" /\ users[a].active
  BY DEF AloneAt, AdminRemains
<1>u. users[c.id] = u /\ Written(c) = w
  OBVIOUS
<1>a. /\ AloneAt(h)
      /\ c.pc = calls[h].pc /\ c.id = calls[h].id
  OBVIOUS
<1> HIDE DEF c, d, u, w
<1>7. /\ c.op = "create" => w = [role |-> c.role, branch |-> c.branch,
                                 active |-> TRUE, linked |-> TRUE]
      /\ c.op = "update" => w = [u EXCEPT !.role = c.role, !.branch = c.branch]
      /\ c.op \in {"enable", "disable"} => w = [u EXCEPT !.active = (c.op = "enable")]
  BY <1>u DEF Written
<1>8. /\ w \in User
      /\ c.op = "create" => w.role = c.role /\ w.active = TRUE /\ w.linked
      /\ c.op = "update" => /\ w.role = c.role
                            /\ w.active = u.active
                            /\ w.linked = u.linked
      /\ c.op \in {"enable", "disable"} => /\ w.role = u.role
                                           /\ w.active = (c.op = "enable")
                                           /\ w.linked = u.linked
  <2>1. w \in User
    BY <1>1, <1>u, WrittenIsARow DEF c
  <2>2. CASE c.op = "create"
    BY <1>7, <2>1, <2>2
  <2>3. CASE c.op = "update"
    BY <1>2, <1>7, <2>1, <2>3 DEF User
  <2>4. CASE c.op \in {"enable", "disable"}
    BY <1>2, <1>7, <2>1, <2>4 DEF User
  <2>. QED
    BY <2>1, <2>2, <2>3, <2>4
<1>9. c.op \in {"create", "update", "enable", "disable"}
  BY <1>1 DEF AccountOps
<1>r. /\ w.role \in ApplicationRole
      /\ u.linked /\ c.op # "create" => u.role \in ApplicationRole
  <2>1. c.op \in Changes => c.row.role # "none" /\ c.row = u
    <3>1. c.op \in Changes => c.row = u
      BY <1>1, <1>2, <1>u DEF Checked
    <3>2. Shaped(c)
      BY <1>1, <1>a DEF AccountInv, ShapeInv, c
    <3>. QED
      BY <1>1, <3>1, <3>2 DEF Shaped
  <2>2. u.role \in ApplicationRole \cup {"none"}
    BY <1>2 DEF User
  <2>3. c.op \in Changes => u.role \in ApplicationRole
    BY <2>1, <2>2
  <2>. QED
    BY <1>2, <1>8, <1>9, <2>3 DEF Changes
<1>10. AdminRemains'
  <2>1. CASE a # c.id
    BY <1>4, <1>6, <2>1 DEF AdminRemains
  <2>2. CASE a = c.id
    <3>1. u.role = "admin" /\ u.active /\ c.op # "create"
      BY <1>5, <1>6, <1>u, <2>2
    <3>2. c.row = u
      BY <1>1, <1>2, <1>9, <1>u, <3>1 DEF Checked, Changes
    <3>3. CASE Demotes(c)
      <4>1. AnotherAdmin(c.id)
        BY <1>1, <1>2, <3>1, <3>2, <3>3 DEF Checked
      <4>2. PICK b \in Accounts \ {c.id} : users[b].role = "admin" /\ users[b].active
        BY <4>1 DEF AnotherAdmin
      <4>. QED
        BY <1>4, <4>2 DEF AdminRemains
    <3>4. CASE ~Demotes(c)
      <4>1. c.op = "enable" \/ (c.op = "update" /\ c.role = "admin")
        BY <1>9, <3>1, <3>4 DEF Demotes
      <4>2. w.role = "admin" /\ w.active
        BY <1>8, <3>1, <4>1
      <4>. QED
        BY <1>2, <1>4, <4>2 DEF AdminRemains
    <3>. QED
      BY <3>3, <3>4
  <2>. QED
    BY <2>1, <2>2
<1>11. c.id \notin unsure => logins[c.id] = LoginOf(w)
  <2>. SUFFICES ASSUME c.id \notin unsure PROVE LoginOf(w) = logins[c.id]
    OBVIOUS
  <2>1. logins[c.id] = Expected(c)
    BY <1>2 DEF Agreed
  <2>r. /\ w.role \in ApplicationRole
        /\ u.linked /\ c.op # "create" => u.role \in ApplicationRole
    BY <1>r
  <2>5. ASSUME w.linked PROVE LoginIs(LoginOf(w), w.active, {w.role})
    <3>1. LoginOf(w) = [exists |-> TRUE, enabled |-> w.active, roles |-> {w.role}]
      BY <2>5 DEF LoginOf
    <3>2. w.active \in BOOLEAN /\ {w.role} \in SUBSET ApplicationRole
      BY <1>8, <2>r DEF User
    <3>. QED
      BY <3>1, <3>2, ThisLogin
  <2>2. CASE c.op = "create"
    <3>1. Expected(c) = [exists |-> TRUE, enabled |-> TRUE, roles |-> {c.role}]
      BY <1>1, <2>2 DEF Expected
    <3>2. LoginIs(Expected(c), TRUE, {c.role})
      BY <1>2, <3>1, ThisLogin
    <3>3. LoginIs(LoginOf(w), TRUE, {c.role})
      BY <1>8, <2>2, <2>5
    <3>. QED
      BY <2>1, <3>2, <3>3, SameLogin
  <2>3. CASE c.op \in Changes /\ ~c.row.linked
    <3>1. c.op = "update" /\ c.row = u
      BY <1>1, <1>2, <1>u, <2>3 DEF Checked, HasLogin, Changes
    <3>2. LoginOf(w) = NoLogin /\ LoginOf(u) = NoLogin
      BY <1>8, <2>3, <3>1 DEF LoginOf
    <3>3. Expected(c) = LoginOf(u)
      BY <1>1, <1>u, <2>3, <3>1 DEF Expected
    <3>. QED
      BY <2>1, <3>2, <3>3
  <2>4. CASE c.op \in Changes /\ c.row.linked
    <3>1. c.row = u /\ w.linked
      BY <1>1, <1>2, <1>8, <1>u, <2>4 DEF Checked, Changes
    <3>2. LoginOf(u) = [exists |-> TRUE, enabled |-> u.active, roles |-> {u.role}]
      BY <2>4, <3>1 DEF LoginOf
    <3>3. LoginIs(LoginOf(u), u.active, {u.role})
      <4>1. u.active \in BOOLEAN /\ {u.role} \in SUBSET ApplicationRole
        BY <1>2, <2>4, <2>r, <3>1 DEF User, Changes
      <4>. QED
        BY <3>2, <4>1, ThisLogin
    <3> DEFINE l == LoginOf(u)
    <3> HIDE DEF l
    <3>4. CASE c.op = "update"
      <4>1. Expected(c) = [l EXCEPT !.roles = {c.role}]
        BY <1>1, <1>u, <2>4, <3>4 DEF Expected, l
      <4>2. LoginIs(l, u.active, {u.role})
        BY <3>3 DEF l
      <4>3. LoginIs(Expected(c), u.active, {c.role})
        BY <1>2, <4>1, <4>2 DEF LoginIs, Login
      <4>4. LoginIs(LoginOf(w), u.active, {c.role})
        BY <1>8, <2>5, <3>1, <3>4
      <4>. QED
        BY <2>1, <4>3, <4>4, SameLogin
    <3>5. CASE c.op \in {"enable", "disable"}
      <4>1. Expected(c) = [l EXCEPT !.enabled = (c.op = "enable")]
        BY <1>1, <1>u, <3>5 DEF Expected, l
      <4>2. LoginIs(l, u.active, {u.role})
        BY <3>3 DEF l
      <4>3. LoginIs(Expected(c), (c.op = "enable"), {u.role})
        BY <4>1, <4>2 DEF LoginIs, Login
      <4>4. LoginIs(LoginOf(w), (c.op = "enable"), {u.role})
        BY <1>8, <2>5, <3>1, <3>5
      <4>. QED
        BY <2>1, <4>3, <4>4, SameLogin
    <3>. QED
      BY <2>4, <3>4, <3>5 DEF Changes
  <2>. QED
    BY <1>9, <2>2, <2>3, <2>4 DEF Changes
<1>12. \A b \in Accounts \ unsure' : logins'[b] = LoginOf(users[b])'
  <2>1. \A b \in Accounts \ unsure : b # c.id => logins[b] = LoginOf(users[b])
    BY <1>1, <1>a DEF AloneAt
  <2>2. \A b \in Accounts \ unsure : b # c.id => LoginOf(users[b])' = LoginOf(users[b])
    BY <1>4 DEF LoginOf
  <2>4. \A b \in Accounts \ unsure : LoginOf(users[b])' = logins[b]
    <3>. SUFFICES ASSUME NEW b \in Accounts \ unsure PROVE LoginOf(users[b])' = logins[b]
      OBVIOUS
    <3>1. CASE b = c.id
      <4>1. LoginOf(users[b])' = LoginOf(w)
        BY <1>4, <3>1 DEF LoginOf
      <4>. QED
        BY <1>11, <3>1, <4>1
    <3>2. CASE b # c.id
      BY <2>1, <2>2, <3>2
    <3>. QED
      BY <3>1, <3>2
  <2>. QED
    BY <1>1, <2>4
<1>13. Served(calls[h])'
  <2>1. calls'[h].pc = "audit" /\ calls'[h].op = c.op /\ calls'[h].id = c.id
    BY <1>3 DEF d
  <2>2. Checked(calls[h])' /\ HasLogin(calls[h])'
    BY <1>9, <2>1 DEF Checked, HasLogin
  <2>3. Expected(calls[h])' = LoginOf(users[calls[h].id])'
    BY <2>1 DEF Expected
  <2>4. calls'[h].id \notin unsure' => Agreed(calls[h])'
    BY <1>2, <1>12, <2>1, <2>3 DEF Agreed
  <2>. QED
    BY <2>2, <2>4 DEF Served
<1>. QED
  BY <1>10, <1>12, <1>13 DEF AloneAt

(* The write of an account, or the username that was taken meanwhile.      *)
LEMMA SavesAlone ==
  ASSUME AccountInv, NEW h \in Handlers, AloneAt(h), SaveAccount(h)
  PROVE  AloneAt(h)'
<1> DEFINE c == calls[h]
           d == calls'[h]
<1>1. c.pc = "save" /\ UNCHANGED <<logins, unsure>>
  BY DEF SaveAccount, At
<1>2. CASE c.op = "create" /\ users[c.id].role # "none"
  <2>1. UNCHANGED users /\ Goto(h, "undo")
    BY <1>2 DEF SaveAccount
  <2>2. d.pc = "undo" /\ d.op = c.op /\ d.id = c.id /\ d.role = c.role
    BY <1>1, <2>1, Moves DEF Pcs, AccountInv, IdentityTypeOK
  <2>3. c.id \notin unsure => Agreed(c)
    BY <1>1, TheCall
  <2> HIDE DEF c, d
  <2>4. c.id \notin unsure => Agreed(d)
    BY <1>1, <1>2, <2>2, <2>3 DEF Agreed, Expected
  <2>5. Served(d)
    BY <1>2, <2>2, <2>4 DEF Served, Checked, HasLogin, Changes, Demotes
  <2>. QED
    BY <1>1, <2>1, <2>2, <2>5, AloneMoves DEF c, d
<1>3. CASE ~(c.op = "create" /\ users[c.id].role # "none")
  BY <1>3, WrittenAlone DEF SaveAccount
<1>. QED
  BY <1>2, <1>3

LEMMA SavesBranchAlone ==
  ASSUME AccountInv, NEW h \in Handlers, AloneAt(h), SaveBranch(h)
  PROVE  AloneAt(h)'
<1> DEFINE c == calls[h]
           d == calls'[h]
<1>1. /\ c.pc = "save" /\ c.op \in BranchOps
      /\ UNCHANGED <<users, logins, unsure>>
      /\ Goto(h, "audit")
  BY DEF SaveBranch, At, Op
<1>2. c.id \notin unsure => Agreed(c)
  BY <1>1, TheCall
<1>3. d.pc = "audit" /\ d.op = c.op /\ d.id = c.id
  BY <1>1, Moves DEF Pcs, AccountInv, IdentityTypeOK
<1> HIDE DEF c, d
<1>4. c.op \in {"createBranch", "reactivate", "deactivate"}
  BY <1>1 DEF BranchOps
<1>5. c.id \notin unsure => Agreed(d)
  BY <1>1, <1>2, <1>3, <1>4 DEF Agreed, Expected
<1>6. Served(d)
  BY <1>3, <1>4, <1>5 DEF Served, Checked, HasLogin, Changes, Demotes
<1>. QED
  BY <1>1, <1>3, <1>6, AloneMoves DEF c, d

(* A write fails: Keycloak is about to be told what the row still says.    *)
LEMMA DatabaseFailsAlone ==
  ASSUME AccountInv, NEW h \in Handlers, AloneAt(h), DatabaseFails(h)
  PROVE  AloneAt(h)'
<1> DEFINE c == calls[h]
           d == calls'[h]
<1>1. /\ c.pc \in {"save", "audit"}
      /\ UNCHANGED <<users, logins>>
      /\ IF Undoes(c) THEN Goto(h, "undo") ELSE Finish(h)
      /\ unsure' = IF UndoneWrongly(c) THEN unsure \cup {c.id} ELSE unsure
  BY DEF DatabaseFails
<1>2. /\ c.op \in AccountOps \cup BranchOps
      /\ Checked(c)
      /\ HasLogin(c)
      /\ c.id \notin unsure => Agreed(c)
      /\ c.pc # "idle"
  BY <1>1, TheCall
<1>3. AdminRemains'
  BY <1>1 DEF AloneAt, AdminRemains
<1>4. \A a \in Accounts \ unsure : a # c.id => logins[a] = LoginOf(users[a])
  BY <1>2 DEF AloneAt
<1>5. \A a \in Accounts \ unsure' : a # c.id => logins'[a] = LoginOf(users[a])'
  BY <1>1, <1>4 DEF LoginOf
<1>6. CASE Undoes(c)
  <2>1. /\ d.pc = "undo" /\ d.op = c.op /\ d.id = c.id
        /\ d.role = c.role /\ d.row = c.row
    BY <1>1, <1>2, <1>6, Moves DEF Pcs, AccountInv, IdentityTypeOK
  <2> HIDE DEF c, d
  <2>2. c.op \in {"create", "update", "enable", "disable"}
    BY <1>6 DEF Undoes, AccountOps
  <2>3. c.op # "create" => c.pc = "save" /\ c.row.linked
    BY <1>6 DEF Undoes, Linked
  <2>4. Checked(d)
    BY <1>2, <2>1, <2>2, <2>3 DEF Checked, Changes
  <2>5. HasLogin(d)
    BY <2>1, <2>2, <2>3 DEF HasLogin
  <2>6. c.id \notin unsure /\ ~UndoneWrongly(c) => Agreed(d)
    <3>. SUFFICES ASSUME c.id \notin unsure, ~UndoneWrongly(c) PROVE Agreed(d)
      OBVIOUS
    <3>1. c.pc = "save"
      BY <1>1, <2>2, <2>3 DEF UndoneWrongly
    <3>2. Expected(d) = Expected(c)
      BY <2>1, <2>2, <2>3, <3>1 DEF Expected
    <3>3. c.op \in {"enable", "disable"} => c.row.active # (c.op = "enable")
      BY <3>1 DEF UndoneWrongly
    <3>. QED
      BY <1>2, <2>1, <2>2, <3>1, <3>2, <3>3 DEF Agreed
  <2>7. c.id \notin unsure' => Agreed(d)
    BY <1>1, <2>6
  <2>8. Served(calls[h])'
    <3>1. calls'[h] = d
      BY DEF d
    <3>2. Checked(calls[h])' /\ HasLogin(calls[h])'
      BY <1>1, <2>4, <2>5, <3>1 DEF Checked, HasLogin, AnotherAdmin, Occupied
    <3>3. Expected(calls[h])' = Expected(d)
      BY <1>1, <3>1 DEF Expected, LoginOf
    <3>4. calls'[h].id \notin unsure' => Agreed(calls[h])'
      BY <1>1, <2>1, <2>7, <3>1, <3>3 DEF Agreed
    <3>. QED
      BY <3>2, <3>4 DEF Served
  <2>. QED
    BY <1>3, <1>5, <2>1, <2>8 DEF AloneAt, d
<1>7. CASE ~Undoes(c)
  <2>1. calls'[h].pc = "idle"
    BY <1>1, <1>7, Rests DEF AccountInv, IdentityTypeOK
  <2>2. c.op \in {"create", "update", "enable", "disable",
                  "createBranch", "reactivate", "deactivate"}
    BY <1>2 DEF AccountOps, BranchOps
  <2>3. c.pc = "save" => (c.op = "update" /\ ~c.row.linked) \/ c.op \in BranchOps
    BY <1>2, <1>7, <2>2 DEF Undoes, Linked, HasLogin, AccountOps, BranchOps
  <2>4. c.pc = "audit" => c.op # "create"
    BY <1>7 DEF Undoes, Linked, AccountOps
  <2> HIDE DEF c, d
  <2>5. Expected(c) = LoginOf(users[c.id])
    BY <1>1, <2>2, <2>3, <2>4 DEF Expected, BranchOps
  <2>6. c.id \notin unsure => logins[c.id] = LoginOf(users[c.id])
    BY <1>2, <2>5 DEF Agreed
  <2>7. \A a \in Accounts \ unsure' : logins'[a] = LoginOf(users[a])'
    BY <1>1, <1>4, <2>6 DEF LoginOf
  <2>. QED
    BY <1>3, <2>1, <2>7 DEF AloneAt
<1>. QED
  BY <1>6, <1>7

LEMMA CrashAlone ==
  ASSUME AccountInv, NEW h \in Handlers, AloneAt(h), Crash
  PROVE  AloneAt(h)'
<1>1. /\ UNCHANGED <<users, logins>>
      /\ unsure' = unsure \cup {calls[g].id : g \in {k \in Handlers : calls[k].pc # "idle"}}
      /\ calls'[h].pc = "idle"
  BY DEF Crash, Resting
<1>2. \A a \in Accounts \ unsure' : calls[h].pc = "idle" \/ calls[h].id # a
  BY <1>1
<1>3. \A a \in Accounts \ unsure' : logins[a] = LoginOf(users[a])
  BY <1>1, <1>2 DEF AloneAt
<1>4. \A a \in Accounts \ unsure' : logins'[a] = LoginOf(users[a])'
  BY <1>1, <1>3 DEF LoginOf
<1>5. AdminRemains'
  BY <1>1 DEF AloneAt, AdminRemains
<1>. QED
  BY <1>1, <1>4, <1>5 DEF AloneAt

LEMMA NextKeepsAlone ==
  ASSUME OneAtATime, AloneInv, [Next]_vars
  PROVE  AloneInv'
<1>1. AccountInv /\ AccountInv'
  BY NextKeepsAccount DEF AloneInv
<1>2. CASE UNCHANGED vars
  <2>1. AdminRemains'
    BY <1>2 DEF vars, AloneInv, AdminRemains
  <2>2. CheckedInv'
    BY <1>2 DEF vars, AloneInv, CheckedInv, Checked, AnotherAdmin, Occupied
  <2>3. \A a \in Accounts : LoginOf(users[a])' = LoginOf(users[a])
    BY <1>2 DEF vars, LoginOf
  <2>4. \A h \in Handlers : Expected(calls[h])' = Expected(calls[h])
    BY <1>2 DEF vars, Expected, LoginOf
  <2>5. LoginInv'
    BY <1>2, <2>3, <2>4 DEF vars, AloneInv, LoginInv, HasLogin, Agreed
  <2>. QED
    BY <1>1, <2>1, <2>2, <2>5 DEF AloneInv
<1>3. CASE Crash
  <2>1. PICK h \in Handlers : calls[h].pc # "idle"
    BY <1>3 DEF Crash
  <2>2. AloneAt(h)'
    BY <1>1, <1>3, AloneIsAt, CrashAlone
  <2>. QED
    BY <1>1, <2>2, AloneIsAt
<1>4. ASSUME NEW h \in Handlers,
             Begin(h) \/ Handle(h) \/ KeycloakFails(h) \/ DatabaseFails(h)
      PROVE  AloneInv'
  <2>1. AloneAt(h)
    BY AloneIsAt
  <2>2. AloneAt(h)'
    BY <1>1, <1>4, <2>1, BeginAlone, ReadAlone, ValidateAlone, CountAdminsAlone,
       CountMembersAlone, AuditedAlone, AnswersAlone, RefusesAlone, FailsAlone,
       SavesAlone, SavesBranchAlone, DatabaseFailsAlone
    DEF Handle
  <2>. QED
    BY <1>1, <2>2, AloneIsAt
<1>. QED
  BY <1>2, <1>3, <1>4 DEF Next

-----------------------------------------------------------------------------
(* When requests are served one at a time, what a handler has checked, and *)
(* what it has told Keycloak, is still so when it writes or undoes.        *)
THEOREM AloneInvariance ==
  ASSUME OneAtATime
  PROVE  Spec => []AloneInv
<1>1. Init => AloneInv
  BY InitAccount, InitAlone DEF AloneInv
<1>2. AloneInv /\ [Next]_vars => AloneInv'
  BY NextKeepsAlone
<1>. QED
  BY <1>1, <1>2, PTL DEF Spec

(* "The final active admin is protected", whatever fails halfway, as long  *)
(* as no other request is served between the count and the write. (Two at  *)
(* a time break it: MCIdentityAdmin_race.)                                 *)
THEOREM FinalAdminProtected ==
  ASSUME OneAtATime
  PROVE  Spec => []AdminRemains
<1>1. AloneInv => AdminRemains
  BY DEF AloneInv
<1>. QED
  BY <1>1, AloneInvariance, PTL

(* Compensation works: between requests, Keycloak says of every account    *)
(* that is not in doubt what its row says, whichever writes have failed.   *)
THEOREM CompensationCorrect ==
  ASSUME OneAtATime
  PROVE  Spec => []KeycloakAgrees
<1>1. AloneInv => KeycloakAgrees
  BY DEF AloneInv, LoginInv, KeycloakAgrees
<1>. QED
  BY <1>1, AloneInvariance, PTL

(* "Branch still has active accounts": a branch becomes inactive only when *)
(* none of its accounts is active.                                         *)
THEOREM DeactivationCorrect ==
  ASSUME OneAtATime
  PROVE  Spec => DeactivatedBranchIsEmpty
<1> DEFINE Emptied ==
      \A b \in Branches :
        branches[b] = "active" /\ branches'[b] = "inactive" =>
          \A a \in Accounts : users[a].branch = b => ~users[a].active
<1>1. AloneInv /\ [Next]_vars => [Emptied]_vars
  <2>. SUFFICES ASSUME AloneInv, Next, NEW b \in Branches,
                       branches[b] = "active", branches'[b] = "inactive"
                PROVE  \A a \in Accounts : users[a].branch = b => ~users[a].active
    OBVIOUS
  <2>1. PICK h \in Handlers : SaveBranch(h)
    BY DEF Next, Handle, Begin, Crash, ReadAccount, ValidateBranch, AssertAnotherAdmin,
           CountMembers, KeycloakAnswers, KeycloakRefuses, KeycloakFails, SaveAccount,
           Audited, DatabaseFails
  <2>2. calls[h].pc = "save" /\ calls[h].op \in BranchOps
    BY <2>1 DEF SaveBranch, At, Op
  <2>3. branches \in [Branches -> {"absent", "active", "inactive"}]
    BY DEF AloneInv, AccountInv, IdentityTypeOK
  <2>4. calls[h].branch = b /\ BranchAfter(calls[h].op, "active") = "inactive"
    BY <2>1, <2>3 DEF SaveBranch, Op
  <2>5. calls[h].op = "deactivate"
    BY <2>2, <2>4 DEF BranchAfter, BranchOps
  <2>6. ~Occupied(b)
    BY <2>2, <2>4, <2>5 DEF AloneInv, CheckedInv, Checked
  <2>. QED
    BY <2>6 DEF Occupied
<1>. QED
  BY <1>1, AloneInvariance, PTL DEF Spec, DeactivatedBranchIsEmpty

=============================================================================
