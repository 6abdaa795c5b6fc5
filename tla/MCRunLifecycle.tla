--------------------------- MODULE MCRunLifecycle ---------------------------
(* Values of the constants of RunLifecycle for model checking.             *)
EXTENDS RunLifecycle, TLC

OneLane  == <<"COMPLIANCE">>
TwoLanes == <<"CREDIT", "COMPLIANCE">>
AllLanes == <<"CREDIT", "COMPLIANCE", "OPERATIONS">>

CONSTANTS alice, bob

ManagerSymmetry == Permutations(Managers)

=============================================================================
