----------------------------- MODULE URLPurify ------------------------------
(***************************************************************************)
(* The matchers of dumb/services/network/privacy_guard/                    *)
(* url_purify_delegate.{h,cc}, which remove tracking parameters from the   *)
(* query of a URL, with rules as in url_purify_rule.h.                     *)
(*                                                                         *)
(* A query is the sequence of its parameters.  A rule's query patterns     *)
(* stand for the set of the parameters they match by name and that have a  *)
(* value (the matchers end in =[^&]+), its url pattern and exceptions for  *)
(* the sites they match.  Left out: empty pieces between two &, patterns    *)
(* that match in the query itself, enabled_ (nobody calls SetEnabled).      *)
(***************************************************************************)
EXTENDS Naturals, Sequences, FiniteSets

CONSTANTS
    Params,       \* parameters, with their values
    Sites,        \* what url patterns and exceptions tell apart
    GlobalParams, \* parameters of GetDefaultGlobalRules()
    SiteRules     \* GetDefaultPerSiteRules(), in order

Rule == [sites : SUBSET Sites, exceptions : SUBSET Sites, params : SUBSET Params]

ASSUME PurifyAssumption ==
    /\ GlobalParams \subseteq Params
    /\ SiteRules \in Seq(Rule)

URL == [site : Sites, query : Seq(Params)]

(* The nth of some places in a sequence, and what is left of a query if     *)
(* nothing is but what is at these.                                         *)
Nth(places, n) == CHOOSE i \in places : Cardinality({j \in places : j < i}) = n - 1

LeftAt(q, places) == [n \in 1..Cardinality(places) |-> q[Nth(places, n)]]

-----------------------------------------------------------------------------
(* The three query matchers of a rule, each with GlobalReplace.             *)

(* "^(names)=[^&]+$": the query is nothing but one tracked parameter.       *)
ReplaceAppended(tracked, q) == IF Len(q) = 1 /\ q[1] \in tracked THEN <<>> ELSE q

(* "^(names)=[^&]+&": the first of several, once, because of the anchor.    *)
ReplaceFirst_Missing(tracked, q) == q

ReplaceFirst_Greedy(tracked, q) ==
    IF Len(q) > 1 /\ q[1] \in tracked THEN <<q[Len(q)]>> ELSE q

ReplaceFirst(tracked, q) == IF Len(q) > 1 /\ q[1] \in tracked THEN Tail(q) ELSE q

(* "&(names)=[^&]+": every one but the first.                               *)
ReplaceOnly_OneMatch(tracked, q) ==
    LET hits == {i \in 2..Len(q) : q[i] \in tracked}
    IN  IF hits = {} THEN q
        ELSE LET i == CHOOSE i \in hits : \A j \in hits : i <= j
             IN  SubSeq(q, 1, i - 1) \o SubSeq(q, i + 1, Len(q))

ReplaceOnly(tracked, q) == LeftAt(q, {i \in DOMAIN q : i = 1 \/ q[i] \notin tracked})

ApplyQueryMatchers(tracked, q) ==
    ReplaceOnly(tracked, ReplaceFirst(tracked, ReplaceAppended(tracked, q)))

(* TryApplyMatcher returns -2, and the next rule is tried, when the rule's  *)
(* url_matcher does match.                                                  *)
SkipsRule(rule, site) == site \in rule.sites

(* The loop over per_site_matchers_ ends at the first rule that is not      *)
(* skipped, also when that rule has an exception for the URL.               *)
ApplyPerSiteRules(site, q) ==
    LET tried == {i \in DOMAIN SiteRules : ~SkipsRule(SiteRules[i], site)}
    IN  IF tried = {} THEN q
        ELSE LET rule == SiteRules[CHOOSE i \in tried : \A j \in tried : i <= j]
             IN  IF site \in rule.exceptions THEN q ELSE ApplyQueryMatchers(rule.params, q)

(* The query TruncateURLParameters leaves.  count is the number of          *)
(* parameters that are gone.                                                *)
TruncatedQuery(url) == ApplyPerSiteRules(url.site, ApplyQueryMatchers(GlobalParams, url.query))

TruncateURLParameters(url) == [url EXCEPT !.query = TruncatedQuery(url)]

RemovedCount(url) == Len(url.query) - Len(TruncatedQuery(url))
=============================================================================
