---------------------------- MODULE MCEventStream ----------------------------
(* Values of the constants of EventStream for model checking.              *)
EXTENDS EventStream

CONSTANT tab

Ev(type) == [type |-> type, ok |-> TRUE]

(* Runs as the runner reports them, cut down to the events that matter.    *)
ShortRun  == <<Ev("run.started"), Ev("approval.required"), Ev("run.completed")>>
FailedRun == <<Ev("run.started"), Ev("run.failed")>>
(* A completion whose answer got lost, followed by the failure the runner  *)
(* reports instead: a log with two ends.                                   *)
LateFailure == <<Ev("run.started"), Ev("run.completed"), Ev("run.failed")>>
ShortRuns == {ShortRun, FailedRun, LateFailure}

=============================================================================
