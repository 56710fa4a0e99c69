SPECIFICATION FairSpec
CONSTANTS
    MaxRequests = 2
    NumURLHooks = 2
    HasHeadersReceivedHooks = TRUE
    Continuations = {"BeforeSendHeaders", "ResponseStarted"}
INVARIANTS
    HandlerInv
    CallbacksOwnedByLiveRequests
    AtMostOneContinuation
    OKOnlyAfterEveryHook
PROPERTIES
    HooksRunOnceInOrder
    EveryPendingCallIsAnswered
CHECK_DEADLOCK FALSE
