SPECIFICATION Spec
CONSTANTS
    MaxRequests = 2
    NumURLHooks = 1
    HasHeadersReceivedHooks = TRUE
    Factories = {f1}
    Schemes = {"http"}
    MaxPipes = 1
    MaxRedirects = 1
INVARIANTS
    FactoryLivesWhileNeeded
PROPERTIES
    HandlerSpec
    ContractSpec
CHECK_DEADLOCK FALSE
