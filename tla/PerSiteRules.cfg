SPECIFICATION Spec
CONSTANTS
    Params <- MCParams
    Sites <- MCSites
    GlobalParams <- MCGlobalParams
    SiteRules <- MCSiteRules
    MaxQuery = 4
    RedirectURLs <- MCRedirectURLs
    NoURL = NoURL
    RedirectLimit = 4
    Source = "google"
    CapReferrers = TRUE
INVARIANT
    PerSiteRulesApplied
CHECK_DEADLOCK FALSE
