SPECIFICATION Spec
CONSTANTS
    Params <- MCParams
    Sites <- MCSites
    GlobalParams <- MCGlobalParams
    SiteRules <- MCSiteRules
    MaxQuery = 4
    RedirectURLs <- MCRedirectURLs
    NoURL = NoURL
    RedirectLimit = 4
    Source = "google"
    CapReferrers = TRUE
INVARIANTS
    DelegateInv
    NothingTrackedIsSent
PROPERTIES
    HarmlessParamsKept
    ReferrerCapped
CHECK_DEADLOCK FALSE
