----------------------------- MODULE MCScreens -----------------------------
(* Two customers, one of them recommended; one account or branch and a free name; three    *)
(* cases, one still to be created; two dates or queries.                                    *)
EXTENDS Screens

MCRowsOf ==
    [accounts |-> {[full_name |-> "x", role |-> "employee", branch |-> "b1", active |-> TRUE],
                   [full_name |-> "x", role |-> "admin", branch |-> NULL, active |-> TRUE]},
     branches |-> {[name |-> "x", active |-> TRUE], [name |-> "y", active |-> FALSE]}]
=============================================================================
