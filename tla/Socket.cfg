SPECIFICATION FairSpec
CONSTANTS
    MaxRequests = 2
    NumURLHooks = 2
    HasHeadersReceivedHooks = TRUE
    MaxRounds = 2
INVARIANTS
    SocketInv
    OneHolder
    RepliesAreOwed
PROPERTIES
    ConnectsOnceWithConsent
    HandlerSpec
    EverySocketEnds
CHECK_DEADLOCK FALSE
