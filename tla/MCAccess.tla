------------------------------ MODULE MCAccess ------------------------------
(* One account, with current and former names of its roles. *)
EXTENDS Access
=============================================================================
