---------------------------- MODULE DefaultRules ----------------------------
(***************************************************************************)
(* components/privacy_guard/core/url_purify_default_rules.cc: the rules    *)
(* that URLPurifyDelegate has, as none ever replace them.                  *)
(*                                                                         *)
(* A site stands for the URLs the patterns of the rules do not tell apart. *)
(* A parameter stands for those that the same rules match: an expression   *)
(* such as [a-z]*ref[a-z]* matches what other rules name, and is the names *)
(* it shares with them.                                                    *)
(***************************************************************************)

(* A rule for a site and nothing else, as most are.                         *)
RuleFor(site, params) == [sites |-> {site}, exceptions |-> {}, params |-> params]

GetDefaultGlobalRules ==
    {"utm_source", "fbclid", "gclid", "gs_l", "ref", "ref_", "referrer", "spm"}

(* mail, drive, docs and other services of Google are like accounts: the    *)
(* rule is for them and has an exception for them.  It is not for           *)
(* googlevideo.                                                             *)
Google ==
    [sites |-> {"google", "accounts.google"},
     exceptions |-> {"accounts.google", "googlevideo"},
     params |-> {"ved", "source", "site", "ie", "gs_l", "hl"}]

AmazonParams ==
    {"qid", "smid", "sr", "sprefix", "ie", "pf_rd_", "ref", "ref_", "keywords", "camp"}

(* A search is an exception, for it has a rule of its own.                  *)
Amazon ==
    [sites |-> {"amazon", "amazon/s", "amazon/gp/cart"},
     exceptions |-> {"amazon/s", "amazon/gp/cart"},
     params |-> AmazonParams \cup {"s"}]

Facebook ==
    [sites |-> {"facebook", "facebook/plugins"},
     exceptions |-> {"facebook/plugins"},
     params |-> {"hc_", "sprefix", "ref", "referrer", "refId", "refsrc", "app", "padding"}]

Mozilla ==
    [sites |-> {"mozilla", "mozilla/api"},
     exceptions |-> {"mozilla/api"},
     params |-> {"src", "platform"}]

Bing ==
    [sites |-> {"bing", "bing/WS/redirect"},
     exceptions |-> {"bing/WS/redirect"},
     params |-> {"cvid", "sk"}]

Bilibili ==
    [sites |-> {"bilibili", "api.bilibili"},
     exceptions |-> {"api.bilibili"},
     params |-> {"callback", "from"}]

TaobaoParams == {"price", "sourceType", "app", "pos", "algo_expid", "acm"}

GetDefaultPerSiteRules ==
    << Google,
       Amazon,
       RuleFor("amazon/s", AmazonParams),
       RuleFor("youtube", {"feature", "gclid", "kw"}),
       Facebook,
       RuleFor("instagram", {"igshid"}),
       RuleFor("steampowered", {"snr"}),
       RuleFor("github", {"email_token"}),
       RuleFor("linkedin", {"refId", "trk"}),
       RuleFor("lazada", {"ad_src", "pos"}),
       RuleFor("disq.us", {"cuid"}),
       Mozilla,
       RuleFor("nytimes", {"smid"}),
       RuleFor("twitter", {"src", "refsrc", "s", "cn"}),
       RuleFor("reddit", {"$deep_link", "ref_source"}),
       RuleFor("netflix", {"trackId"}),
       RuleFor("techcrunch", {"ncid", "sr"}),
       Bing,
       RuleFor("twitch", {"tt_medium"}),
       RuleFor("imdb", {"ref_", "pf_rd_"}),
       RuleFor("walmart", {"u1"}),
       RuleFor("youku", {"tpa"}),
       RuleFor("taobao", TaobaoParams \cup {"spm", "ptl"}),
       RuleFor("tmall", TaobaoParams \cup {"from", "user_id"}),
       RuleFor("tb.cn", {"sm"}),
       RuleFor("aliexpress", {"algo_expid", "cv", "sk"}),
       Bilibili,
       RuleFor("gog", {"track_click"}),
       RuleFor("bestbuy", {"irclickid"}),
       RuleFor("tiktok", {"u_code", "source", "user_id"}),
       RuleFor("humblebundle", {"partner"}),
       RuleFor("epicgames", {"epic_gameId"}),
       RuleFor("medium", {"source"}),
       RuleFor("weibo", {"sourceType", "from", "wm"}),
       RuleFor("weixin", {"chksm"}) >>
=============================================================================
