------------------------------ MODULE MCRunPage ------------------------------
(* Values of the constants of RunPage for model checking.                  *)
EXTENDS RunPage

CONSTANT tab

Ev(type) == [type |-> type, ok |-> TRUE]

ApprovedRun == <<Ev("run.started"), Ev("approval.required"), Ev("run.completed")>>
FailingRun  == <<Ev("approval.required"), Ev("run.failed")>>
PageRuns    == {ApprovedRun, FailingRun}

=============================================================================
