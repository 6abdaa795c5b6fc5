SPECIFICATION Spec
CONSTANTS
    NULL = NULL
    MaxInFlight = 1
    RoleNames = {"employee", "approver", "realm-admin", "other"}
    MaxChanges = 2
    MaxOpened = 2
INVARIANTS
    AccessTypeOK
    OfferedIsAllowed
    DisabledIsOut
CHECK_DEADLOCK FALSE
