SPECIFICATION Spec
CONSTANTS
    MaxRequests = 1
    NumURLHooks = 1
    HasHeadersReceivedHooks = FALSE
    MaxRounds = 1
INVARIANTS
    EmptyDataIsBlocked
CHECK_DEADLOCK FALSE
