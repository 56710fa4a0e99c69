SPECIFICATION Spec
CONSTANTS
    MaxRequests = 2
    NumURLHooks = 0
    HasHeadersReceivedHooks = FALSE
    Factories = {f1, f2}
    Schemes = {"http", "internal"}
    MaxPipes = 1
    MaxRedirects = 2
INVARIANTS
    DrivenAfterStart
CHECK_DEADLOCK FALSE
