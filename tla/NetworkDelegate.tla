-------------------------- MODULE NetworkDelegate ---------------------------
(***************************************************************************)
(* dumb/services/network/network_service_network_delegate.cc: what         *)
(* OnBeforeURLRequest does to one URLRequest of the network service, with  *)
(* the redirects it causes.                                                *)
(*                                                                         *)
(* net::URLRequest calls the delegate before it starts on a URL.  If the   *)
(* delegate sets *new_url the request is redirected there, which its       *)
(* client has to follow like a redirect of the server, and the delegate is *)
(* called again.  Every redirect counts against one limit.  The client may *)
(* follow a redirect to another URL than the one it was told               *)
(* (URLLoader::new_redirect_url), which the delegate then sets.            *)
(*                                                                         *)
(* The request is one of a URLLoader; of others only the referrer is       *)
(* touched.  Left out: cookie, privacy mode and reporting decisions, which *)
(* keep no state.  ClearSiteData has the callback for response headers.    *)
(***************************************************************************)
EXTENDS URLPurify

CONSTANTS
    MaxQuery,      \* bound: parameters in the URL the request begins with
    RedirectURLs,  \* bound: where servers and clients redirect to
    RedirectLimit, \* net::URLRequest::redirect_limit_
    Source,        \* the site of the page that makes the request
    CapReferrers,  \* kCapReferrerToOriginOnCrossOrigin
    NoURL          \* an empty GURL

ASSUME DelegateAssumption ==
    /\ MaxQuery \in Nat
    /\ RedirectURLs \subseteq URL
    /\ RedirectLimit \in Nat
    /\ NoURL \notin URL
    /\ Source \in Sites
    /\ CapReferrers \in BOOLEAN

VARIABLES
    url,        \* request->url()
    newUrl,     \* *new_url, and then the URL of a redirect
    wanted,     \* loader->new_redirect_url(), if the client gave one
    limit,      \* redirects left
    phase,      \* what the URLRequest is doing
    rounds,     \* redirects by purifying since client or server chose a URL
    referrer,   \* what of the page's URL is in request->referrer()
    enableReferrers  \* enable_referrers_

vars == <<url, newUrl, wanted, limit, phase, rounds, referrer, enableReferrers>>

Referrers == {"none", "origin", "full"}

Init ==
    /\ url \in [site : Sites, query : UNION {[1..n -> Params] : n \in 0..MaxQuery}]
    /\ newUrl = NoURL
    /\ wanted = NoURL
    /\ limit = RedirectLimit
    /\ phase = "starting"
    /\ rounds = 0
    /\ referrer \in {"none", "full"}
    /\ enableReferrers = TRUE

-----------------------------------------------------------------------------

(* The referrer for a request of the URL u, which is not its last URL if    *)
(* another redirect follows.                                                *)
MaybeTruncateReferrer_RedirectsOnly(u) ==
    IF u # url /\ u.site # Source /\ referrer = "full" THEN "origin" ELSE referrer

MaybeTruncateReferrer(u) ==
    IF ~enableReferrers THEN "none"
    ELSE IF CapReferrers /\ u.site # Source /\ referrer = "full" THEN "origin"
    ELSE referrer

(* OnBeforeURLRequest.  The URL that is purified is request->url(); what    *)
(* the client wanted is overwritten if anything was removed.                *)
OnBeforeURLRequest ==
    /\ phase = "starting"
    /\ LET purifies == RemovedCount(url) # 0
       IN  /\ newUrl' = IF purifies THEN TruncateURLParameters(url) ELSE wanted
           /\ rounds' = IF purifies THEN rounds + 1 ELSE 0
    /\ referrer' = MaybeTruncateReferrer(IF wanted = NoURL THEN url ELSE wanted)
    /\ wanted' = NoURL
    /\ phase' = IF newUrl' = NoURL THEN "sent" ELSE "redirected"
    /\ UNCHANGED <<url, limit, enableReferrers>>

(* The client follows the redirect, maybe to another URL than newUrl.       *)
Follow ==
    /\ phase = "redirected"
    /\ limit' = limit - 1
    /\ url' = newUrl
    /\ newUrl' = NoURL
    /\ wanted' \in RedirectURLs \cup {NoURL}
    /\ phase' = "starting"
    /\ UNCHANGED <<rounds, referrer, enableReferrers>>

FollowRedirect_OffByOne == limit >= 0 /\ Follow

FollowRedirect == limit > 0 /\ Follow

TooManyRedirects ==
    /\ phase = "redirected"
    /\ limit = 0
    /\ phase' = "failed"
    /\ UNCHANGED <<url, newUrl, wanted, limit, rounds, referrer, enableReferrers>>

(* A referrer policy may shorten the referrer on a redirect, or clear it.   *)
ServerRedirects ==
    /\ phase = "sent"
    /\ newUrl' \in RedirectURLs
    /\ phase' = "redirected"
    /\ rounds' = 0
    /\ referrer' \in IF referrer = "none" THEN {"none"} ELSE {referrer, "origin", "none"}
    /\ UNCHANGED <<url, wanted, limit, enableReferrers>>

ServerResponds ==
    /\ phase = "sent"
    /\ phase' = "answered"
    /\ UNCHANGED <<url, newUrl, wanted, limit, rounds, referrer, enableReferrers>>

(* The user's setting reaches the network context at any time.              *)
SetEnableReferrers ==
    /\ enableReferrers' = ~enableReferrers
    /\ UNCHANGED <<url, newUrl, wanted, limit, phase, rounds, referrer>>

Next ==
    \/ OnBeforeURLRequest
    \/ FollowRedirect \/ TooManyRedirects
    \/ ServerRedirects \/ ServerResponds
    \/ SetEnableReferrers

Spec == Init /\ [][Next]_vars

-----------------------------------------------------------------------------

ParamsOf(q) == {q[i] : i \in DOMAIN q}

(* Parameters no rule knows.                                                *)
Harmless == Params \ (GlobalParams \cup UNION {SiteRules[i].params : i \in DOMAIN SiteRules})

HarmlessPart(u) == LeftAt(u.query, {i \in DOMAIN u.query : u.query[i] \in Harmless})

TypeOK ==
    /\ url \in URL
    /\ newUrl \in URL \cup {NoURL}
    /\ wanted \in RedirectURLs \cup {NoURL}
    /\ limit \in 0..RedirectLimit
    /\ phase \in {"starting", "redirected", "sent", "failed", "answered"}
    /\ rounds \in Nat
    /\ referrer \in Referrers
    /\ enableReferrers \in BOOLEAN

(* "Automatically remove track query parameters from URL" (README): no URL  *)
(* goes to a server with a parameter of the global rules, although one run  *)
(* of the matchers may leave one at the front.                              *)
NothingTrackedIsSent == phase = "sent" => ParamsOf(url.query) \cap GlobalParams = {}

(* Purifying ends: two redirects are enough for any URL, so that it does    *)
(* not use up the limit, let alone loop.                                    *)
PurifyingEnds == rounds <= 2

DelegateInv == TypeOK /\ PurifyingEnds

(* Purifying takes nothing but parameters of its rules and keeps the order  *)
(* of the others.                                                           *)
HarmlessParamsKept ==
    [][rounds' > rounds =>
          /\ newUrl'.site = url.site
          /\ HarmlessPart(newUrl') = HarmlessPart(url)]_vars

(* No server of another site learns more than the origin of the page, and   *)
(* none anything if referrers are disabled when the request is sent, over   *)
(* all the redirects the client, servers and the delegate itself make.      *)
ReferrerCapped ==
    [][phase # "sent" /\ phase' = "sent" =>
          /\ ~enableReferrers => referrer' = "none"
          /\ CapReferrers /\ url'.site # Source => referrer' # "full"]_vars

(* "Apply per-site rules." (url_purify_delegate.cc:120): a URL goes to a    *)
(* site that a rule is for, and that is no exception, without the           *)
(* parameters of the rule.                                                  *)
PerSiteRulesApplied ==
    phase = "sent" =>
        \A i \in DOMAIN SiteRules :
            url.site \in SiteRules[i].sites \ SiteRules[i].exceptions =>
                ParamsOf(url.query) \cap SiteRules[i].params = {}
=============================================================================
