SPECIFICATION FairSpec
CONSTANTS
    MaxRequests = 1
    NumURLHooks = 2
    HasHeadersReceivedHooks = TRUE
    Factories = {f1, f2}
    Schemes = {"http", "internal", "other"}
    MaxPipes = 2
    MaxRedirects = 2
INVARIANTS
    FactoryInv
    PausedExactlyWhileWaiting
    LoaderFetchesRequestURL
    FollowMeetsWaitingLoader
    ClientSeesWhatNetworkSent
PROPERTIES
    NetworkSeesOnlyVettedRequests
    EveryRequestEnds
CHECK_DEADLOCK FALSE
