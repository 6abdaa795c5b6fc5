---------------------------- MODULE MCIdentityAdmin ----------------------------
(* Values of the constants of IdentityAdmin for model checking.            *)
EXTENDS IdentityAdmin, TLC

CONSTANTS ada, eve, bob, dan, carol, hanoi, hue, h1, h2

Admin  == [role |-> "admin", branch |-> NoBranch, active |-> TRUE, linked |-> TRUE]
Teller(linked) == [role |-> "employee", branch |-> hanoi, active |-> TRUE, linked |-> linked]

(* Two administrators, an employee, one whose row was never linked to      *)
(* Keycloak, and a free username.                                          *)
Staff == (ada :> Admin) @@ (eve :> Admin) @@ (bob :> Teller(TRUE))
           @@ (dan :> Teller(FALSE)) @@ (carol :> NoUser)

AdminSymmetry == Permutations({ada, eve})

=============================================================================
