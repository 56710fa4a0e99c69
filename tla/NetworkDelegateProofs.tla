------------------------ MODULE NetworkDelegateProofs ------------------------
(***************************************************************************)
(* Proofs about NetworkDelegate, for any rules, parameters, sites and URLs *)
(* to redirect to, and queries of any length.  The argument counts what    *)
(* purifying has left in the URL that a redirect of its own goes to: after *)
(* one round a tracked parameter at the front at most, after two none.     *)
(***************************************************************************)
EXTENDS NetworkDelegate, URLPurifyProofs

(* The URL that OnBeforeURLRequest is to look at next.                      *)
NextURL == IF phase = "redirected" THEN newUrl ELSE url

(* What the rounds have left to purify.                                     *)
RoundsTell ==
    /\ phase \in {"starting", "redirected"} /\ rounds >= 1 =>
           TrackedAtMostFirst(Tracked(NextURL.site), NextURL.query)
    /\ phase \in {"starting", "redirected"} /\ rounds >= 2 =>
           NothingTracked(Tracked(NextURL.site), NextURL.query)

(* A URL at a server is one that purifying leaves as it is.                 *)
SentIsPurified == phase = "sent" => RemovedCount(url) = 0

IInv ==
    /\ DelegateInv
    /\ NothingTrackedIsSent
    /\ SentIsPurified
    /\ phase = "redirected" => newUrl \in URL
    /\ phase = "sent" => rounds = 0
    /\ RoundsTell

(* What OnBeforeURLRequest does with a URL.                                 *)
LEMMA PurifyResult ==
    ASSUME NEW u \in URL
    PROVE  LET t == TruncateURLParameters(u) IN
           /\ t \in URL /\ t.site = u.site
           /\ RemovedCount(u) = 0 <=> NothingTracked(Tracked(u.site), u.query)
           /\ TrackedAtMostFirst(Tracked(t.site), t.query)
           /\ TrackedAtMostFirst(Tracked(u.site), u.query) =>
                  NothingTracked(Tracked(t.site), t.query)
           /\ HarmlessPart(t) = HarmlessPart(u)
<1> DEFINE q       == u.query
           r       == TruncatedQuery(u)
           t       == TruncateURLParameters(u)
           tracked == Tracked(u.site)
<1>1. q \in Seq(Params)
  BY DEF URL
<1>2. /\ Thins(tracked, q, r)
      /\ TrackedAtMostFirst(tracked, r)
      /\ TrackedAtMostFirst(tracked, q) => NothingTracked(tracked, r)
      /\ NothingTracked(tracked, q) <=> Len(r) = Len(q)
  BY <1>1, TruncatedQueryResult
<1>3. r \in Seq(Params)
  BY <1>1, <1>2, ThinsIsQuery
<1>4. t \in URL /\ t.site = u.site /\ t.query = r
  BY <1>3 DEF TruncateURLParameters, URL
<1>5. RemovedCount(u) = 0 <=> Len(r) = Len(q)
  BY <1>1, <1>3 DEF RemovedCount
<1>6. Harmless \cap tracked = {}
  BY SiteParamsAreOfRule DEF Harmless, Tracked
<1> HIDE DEF t, r, tracked
<1>7. HarmlessPart(t) = HarmlessPart(u)
  <2>1. PartIn(Harmless, r) = PartIn(Harmless, q)
    BY <1>1, <1>2, <1>6, ThinsKeeps
  <2> QED BY <1>4, <2>1 DEF HarmlessPart, PartIn
<1> QED BY <1>2, <1>4, <1>5, <1>7 DEF t, tracked

LEMMA InitEstablishesInv == Init => IInv
<1> SUFFICES ASSUME Init PROVE IInv
  OBVIOUS
<1> USE DEF Init
<1>1. url \in URL
  <2>1. PICK n \in 0..MaxQuery : url.query \in [1..n -> Params]
    OBVIOUS
  <2>2. MaxQuery \in Nat
    BY DelegateAssumption
  <2>3. n \in Nat
    BY <2>2
  <2>4. url.query \in Seq(Params)
    BY <2>1, <2>3
  <2>5. url = [site |-> url.site, query |-> url.query] /\ url.site \in Sites
    OBVIOUS
  <2> QED BY <2>4, <2>5 DEF URL
<1>2. DelegateInv
  <2>1. RedirectLimit \in Nat
    BY DelegateAssumption
  <2>2. limit \in 0..RedirectLimit
    BY <2>1
  <2> QED BY <1>1, <2>2 DEF DelegateInv, TypeOK, PurifyingEnds, Referrers
<1>3. ~(rounds >= 1) /\ ~(rounds >= 2)
  OBVIOUS
<1>4. phase = "starting"
  OBVIOUS
<1> QED BY <1>2, <1>3, <1>4 DEF IInv, RoundsTell, NothingTrackedIsSent, SentIsPurified

-----------------------------------------------------------------------------
(* One step for each call.                                                 *)

LEMMA OnBeforeURLRequestKeepsInv == IInv /\ OnBeforeURLRequest => IInv'
<1> SUFFICES ASSUME IInv, OnBeforeURLRequest PROVE IInv'
  OBVIOUS
<1> DEFINE t        == TruncateURLParameters(url)
           purifies == RemovedCount(url) # 0
<1>1. /\ url \in URL /\ wanted \in RedirectURLs \cup {NoURL} /\ rounds \in Nat /\ rounds <= 2
      /\ referrer \in Referrers /\ phase = "starting"
  BY DEF IInv, DelegateInv, TypeOK, PurifyingEnds, OnBeforeURLRequest
<1>2. /\ newUrl' = (IF purifies THEN t ELSE wanted)
      /\ rounds' = (IF purifies THEN rounds + 1 ELSE 0)
      /\ phase' = (IF newUrl' = NoURL THEN "sent" ELSE "redirected")
      /\ wanted' = NoURL /\ url' = url
  BY DEF OnBeforeURLRequest
<1>3. /\ t \in URL /\ t.site = url.site
      /\ RemovedCount(url) = 0 <=> NothingTracked(Tracked(url.site), url.query)
      /\ TrackedAtMostFirst(Tracked(t.site), t.query)
      /\ TrackedAtMostFirst(Tracked(url.site), url.query) => NothingTracked(Tracked(t.site), t.query)
  BY <1>1, PurifyResult
<1>4. RedirectURLs \subseteq URL /\ NoURL \notin URL
  BY DelegateAssumption
<1>5. /\ rounds >= 1 => TrackedAtMostFirst(Tracked(url.site), url.query)
      /\ rounds >= 2 => NothingTracked(Tracked(url.site), url.query)
  BY <1>1 DEF IInv, RoundsTell, NextURL
<1> HIDE DEF t, purifies
<1>6. newUrl' \in URL \cup {NoURL} /\ (phase' = "redirected" <=> newUrl' # NoURL)
  BY <1>1, <1>2, <1>3, <1>4
<1>7. purifies => rounds <= 1
  <2>1. purifies => ~(rounds >= 2)
    BY <1>3, <1>5 DEF purifies
  <2> QED BY <1>1, <2>1
<1>8. rounds' \in Nat /\ rounds' <= 2
  BY <1>1, <1>2, <1>7
<1>9. TypeOK'
  <2>1. referrer' \in Referrers
    BY <1>1 DEF OnBeforeURLRequest, MaybeTruncateReferrer, Referrers
  <2>2. limit' \in 0..RedirectLimit /\ enableReferrers' \in BOOLEAN
    BY DEF OnBeforeURLRequest, IInv, DelegateInv, TypeOK
  <2> QED BY <1>1, <1>2, <1>6, <1>8, <2>1, <2>2 DEF TypeOK
<1>10. phase' = "sent" => ~purifies
  BY <1>2, <1>3, <1>4
<1>11. NothingTrackedIsSent'
  <2>1. ~purifies => ParamsOf(url.query) \cap GlobalParams = {}
    BY <1>3 DEF NothingTracked, Tracked, ParamsOf, purifies
  <2> QED BY <1>2, <1>10, <2>1 DEF NothingTrackedIsSent
<1>12. RoundsTell'
  <2>1. CASE purifies
    <3>1. NextURL' = t
      BY <1>2, <1>3, <1>4, <2>1 DEF NextURL
    <3>2. rounds' >= 2 => rounds >= 1
      BY <1>1, <1>2, <2>1
    <3> QED BY <1>3, <1>5, <3>1, <3>2 DEF RoundsTell
  <2>2. CASE ~purifies
    <3>1. ~(rounds' >= 1) /\ ~(rounds' >= 2)
      BY <1>2, <2>2
    <3> QED BY <3>1 DEF RoundsTell
  <2> QED BY <2>1, <2>2
<1>13. phase' = "sent" => rounds' = 0
  BY <1>2, <1>10
<1>14. SentIsPurified'
  <2>1. RemovedCount(url') = RemovedCount(url)
    BY <1>2
  <2> QED BY <1>10, <2>1 DEF SentIsPurified, purifies
<1> QED BY <1>6, <1>8, <1>9, <1>11, <1>12, <1>13, <1>14 DEF IInv, DelegateInv, PurifyingEnds

LEMMA FollowRedirectKeepsInv == IInv /\ FollowRedirect => IInv'
<1> SUFFICES ASSUME IInv, FollowRedirect PROVE IInv'
  OBVIOUS
<1>1. /\ phase = "redirected" /\ limit > 0 /\ limit' = limit - 1
      /\ url' = newUrl /\ newUrl' = NoURL /\ wanted' \in RedirectURLs \cup {NoURL}
      /\ phase' = "starting" /\ rounds' = rounds /\ referrer' = referrer
      /\ enableReferrers' = enableReferrers
  BY DEF FollowRedirect, Follow
<1>2. newUrl \in URL /\ TypeOK /\ PurifyingEnds /\ RoundsTell
  BY <1>1 DEF IInv, DelegateInv
<1>3. limit' \in 0..RedirectLimit
  <2>1. RedirectLimit \in Nat /\ limit \in 0..RedirectLimit
    BY <1>2, DelegateAssumption DEF TypeOK
  <2> QED BY <1>1, <2>1
<1>4. NextURL' = NextURL
  BY <1>1 DEF NextURL
<1>5. TypeOK'
  BY <1>1, <1>2, <1>3 DEF TypeOK
<1>6. RoundsTell'
  BY <1>1, <1>2, <1>4 DEF RoundsTell
<1> QED BY <1>1, <1>2, <1>5, <1>6 DEF IInv, DelegateInv, PurifyingEnds, NothingTrackedIsSent,
                                      SentIsPurified

LEMMA NextKeepsInv == IInv /\ [Next]_vars => IInv'
<1> SUFFICES ASSUME IInv, [Next]_vars PROVE IInv'
  OBVIOUS
<1> USE DEF IInv, DelegateInv, TypeOK, PurifyingEnds, NothingTrackedIsSent, SentIsPurified
<1>1. CASE OnBeforeURLRequest
  BY <1>1, OnBeforeURLRequestKeepsInv
<1>2. CASE FollowRedirect
  BY <1>2, FollowRedirectKeepsInv
<1>3. CASE TooManyRedirects
  BY <1>3 DEF TooManyRedirects, RoundsTell
<1>4. CASE ServerRedirects
  <2>1. /\ newUrl' \in URL /\ phase' = "redirected" /\ rounds' = 0 /\ referrer' \in Referrers
        /\ url' = url /\ wanted' = wanted /\ limit' = limit
        /\ enableReferrers' = enableReferrers
    BY <1>4, DelegateAssumption DEF ServerRedirects, Referrers
  <2>2. ~(rounds' >= 1) /\ ~(rounds' >= 2) /\ rounds' \in Nat /\ rounds' <= 2
    BY <2>1
  <2> QED BY <2>1, <2>2 DEF RoundsTell
<1>5. CASE ServerResponds
  BY <1>5 DEF ServerResponds, RoundsTell
<1>6. CASE SetEnableReferrers
  <2>1. RoundsTell'
    BY <1>6 DEF SetEnableReferrers, RoundsTell, NextURL
  <2> QED BY <1>6, <2>1 DEF SetEnableReferrers
<1>7. CASE UNCHANGED vars
  <2>1. RoundsTell'
    BY <1>7 DEF vars, RoundsTell, NextURL
  <2> QED BY <1>7, <2>1 DEF vars
<1> QED BY <1>1, <1>2, <1>3, <1>4, <1>5, <1>6, <1>7 DEF Next

LEMMA JointInvariant == Spec => []IInv
BY InitEstablishesInv, NextKeepsInv, PTL DEF Spec

-----------------------------------------------------------------------------
(* The request is typed and purifying ends: no URL is redirected for its    *)
(* parameters more than twice, whatever the rules and however many          *)
(* parameters it has.                                                       *)
THEOREM PurifyingIsBounded == Spec => []DelegateInv
<1>1. IInv => DelegateInv
  BY DEF IInv
<1> QED BY <1>1, JointInvariant, PTL

(* No URL goes to a server with a parameter of the global rules.            *)
THEOREM ServersSeeNothingTracked == Spec => []NothingTrackedIsSent
<1>1. IInv => NothingTrackedIsSent
  BY DEF IInv
<1> QED BY <1>1, JointInvariant, PTL

(* What goes to a server needs no more purifying, by the global rules or by *)
(* the rule that is applied for its site: however many redirects were made, *)
(* it is a URL that TruncateURLParameters finds nothing in.                 *)
THEOREM PurifyingIsComplete == Spec => []SentIsPurified
<1>1. IInv => SentIsPurified
  BY DEF IInv
<1> QED BY <1>1, JointInvariant, PTL

(* Every parameter no rule is about stays in the URL, in its place among    *)
(* the others.                                                              *)
THEOREM HarmlessParamsStay == Spec => HarmlessParamsKept
<1>1. ASSUME IInv, [Next]_vars, rounds' > rounds
      PROVE  newUrl'.site = url.site /\ HarmlessPart(newUrl') = HarmlessPart(url)
  <2>1. rounds \in Nat /\ url \in URL
    BY <1>1 DEF IInv, DelegateInv, TypeOK
  <2>2. OnBeforeURLRequest
    <3>1. rounds' # rounds /\ rounds' # 0
      BY <1>1, <2>1
    <3> QED BY <1>1, <3>1 DEF Next, vars, FollowRedirect, Follow, TooManyRedirects,
                              ServerRedirects, ServerResponds, SetEnableReferrers
  <2>3. RemovedCount(url) # 0 /\ newUrl' = TruncateURLParameters(url)
    BY <1>1, <2>1, <2>2 DEF OnBeforeURLRequest
  <2> QED BY <2>1, <2>3, PurifyResult
<1>2. IInv /\ [Next]_vars =>
          [rounds' > rounds =>
              /\ newUrl'.site = url.site
              /\ HarmlessPart(newUrl') = HarmlessPart(url)]_vars
  BY <1>1
<1> QED BY <1>2, JointInvariant, PTL DEF Spec, HarmlessParamsKept

(* A request goes out with a referrer cut for the URL it goes to, and with  *)
(* none if referrers are disabled by then, whichever redirects came before. *)
THEOREM ReferrersAreCapped == Spec => ReferrerCapped
<1>1. ASSUME IInv, [Next]_vars, phase # "sent", phase' = "sent"
      PROVE  /\ ~enableReferrers => referrer' = "none"
             /\ CapReferrers /\ url'.site # Source => referrer' # "full"
  <2>1. OnBeforeURLRequest
    BY <1>1 DEF Next, vars, FollowRedirect, Follow, TooManyRedirects, ServerRedirects,
                ServerResponds, SetEnableReferrers
  <2>2. url \in URL /\ wanted \in RedirectURLs \cup {NoURL}
    BY <1>1 DEF IInv, DelegateInv, TypeOK
  <2>3. TruncateURLParameters(url) # NoURL
    BY <2>2, PurifyResult, DelegateAssumption
  <2>4. wanted = NoURL
    BY <1>1, <2>1, <2>3 DEF OnBeforeURLRequest
  <2>5. referrer' = MaybeTruncateReferrer(url) /\ url' = url
    BY <2>1, <2>4 DEF OnBeforeURLRequest
  <2> QED BY <2>5 DEF MaybeTruncateReferrer
<1>2. IInv /\ [Next]_vars =>
          [phase # "sent" /\ phase' = "sent" =>
              /\ ~enableReferrers => referrer' = "none"
              /\ CapReferrers /\ url'.site # Source => referrer' # "full"]_vars
  BY <1>1
<1> QED BY <1>2, JointInvariant, PTL DEF Spec, ReferrerCapped
=============================================================================
