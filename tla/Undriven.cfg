SPECIFICATION Spec
CONSTANTS
    MaxRequests = 1
    NumURLHooks = 2
    HasHeadersReceivedHooks = TRUE
    Factories = {f1}
    Schemes = {"http"}
    MaxPipes = 1
    MaxRedirects = 2
INVARIANTS
    DrivenAfterStart
CHECK_DEADLOCK FALSE
