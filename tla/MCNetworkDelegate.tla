------------------------- MODULE MCNetworkDelegate --------------------------
(* A small instance of NetworkDelegate for TLC with the default rules, cut  *)
(* down to a few sites and parameters: sites with a rule, with two, with an *)
(* exception, and with neither; a parameter of the global rules, one of     *)
(* these and of a site's, two of different sites', and a harmless one.      *)
EXTENDS NetworkDelegate, DefaultRules

MCParams == {"utm_source", "ref_", "source", "qid", "q"}
MCSites  == {"google", "googlevideo", "amazon/s", "medium"}

MCGlobalParams == GetDefaultGlobalRules \cap MCParams

MCSiteRules ==
    [i \in DOMAIN GetDefaultPerSiteRules |->
        LET rule == GetDefaultPerSiteRules[i]
        IN  [sites |-> rule.sites \cap MCSites,
             exceptions |-> rule.exceptions \cap MCSites,
             params |-> rule.params \cap MCParams]]

(* Redirects go to URLs of at most two parameters                           *)
MCRedirectURLs ==
    [site : MCSites, query : UNION {[1..n -> {"utm_source", "source", "q"}] : n \in 0..2}]
=============================================================================
