------------------------------- MODULE MCNba -------------------------------
(* A branch with a sale and a manager, another branch with a manager of its own; two *)
(* customers; three packages.                                                         *)
EXTENDS NbaDesk

MCCatalog == <<
    [product |-> "baohiem", package |-> "An tam", tier |-> NULL, min_balance |-> NULL,
     age_min |-> NULL, age_max |-> 65],
    [product |-> "the", package |-> "Gold", tier |-> "gold", min_balance |-> 50,
     age_min |-> 18, age_max |-> NULL],
    [product |-> "vay", package |-> "Nha", tier |-> NULL, min_balance |-> 5,
     age_min |-> 20, age_max |-> 60]>>

Txn(ts, dir, amount) == [ts |-> ts, dir |-> dir, amount |-> amount]
MCTxns == <<Txn(0, "in", 7), Txn(-1, "out", 3), Txn(-6, "in", 5), Txn(-7, "in", 2),
            Txn(-12, "out", 4), Txn(-13, "in", 9)>>

MCSolvent == [casa |-> <<20, 40>>, loans |-> <<>>, income |-> 100, cic |-> 1, age |-> 30,
              held |-> {}, tags |-> {}, txns |-> MCTxns]
MCClosed  == [casa |-> <<>>, income |-> NULL, cic |-> NULL, age |-> NULL,
              loans |-> <<[outstanding |-> 90, payment |-> 61, overdue |-> TRUE, opened |-> -2]>>,
              held |-> {[product |-> "baohiem", tier |-> NULL, active |-> TRUE, opened |-> -1]},
              tags |-> {[tag |-> "tag_dong_phi_bh", seen |-> -3]}, txns |-> <<>>]

MCEmptied == [MCSolvent EXCEPT !.casa = <<>>, !.cic = 2]

MCInitialData == {[c \in {"c1", "c2"} |-> MCSolvent]}
MCProfiles == {MCSolvent, MCClosed, MCEmptied}

User(role, branch) == [role |-> role, branch |-> branch, linked |-> TRUE]
MCUserOf == [sale |-> User("employee", "b1"), boss |-> User("manager", "b1"),
             other |-> User("manager", "b2")]
MCUsers == DOMAIN MCUserOf
Row(c, s) == [customer |-> c, sale |-> s]
MCAssignments == {[date |-> 1, rows |-> <<Row("c1", "sale"), Row("c2", "sale")>>],
                  [date |-> 1, rows |-> <<Row("c1", "other")>>]}
MCKpiInputs == {[month |-> 0, product |-> "the", multiplier |-> 120]}
MCFeedbackInputs == {[status |-> "rejected", product |-> NULL, reason |-> TRUE],
                     [status |-> "rejected", product |-> "vay", reason |-> FALSE],
                     [status |-> "success", product |-> "vay", reason |-> FALSE]}
\* Lists rewritten while feedback is given; a customer followed over 91 days.
MCLimits ==
    {[day |-> 0, feedback |-> 1, changes |-> 1, writes |-> 3, requests |-> 2,
      ops |-> {"assign", "feedback", "read"}],
     [day |-> 91, feedback |-> 1, changes |-> 2, writes |-> 1, requests |-> 1,
      ops |-> {"note", "feedback", "assign", "kpi"}],
     [day |-> 91, feedback |-> 1, changes |-> 2, writes |-> 1, requests |-> 2,
      ops |-> {"assign", "feedback", "assessment"}]}
MCReplies == {NULL, [promise |-> FALSE, numbers |-> {7, 30}],
              [promise |-> FALSE, numbers |-> {999}], [promise |-> TRUE, numbers |-> {}]}
=============================================================================
