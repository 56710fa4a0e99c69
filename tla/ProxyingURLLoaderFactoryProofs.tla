------------------- MODULE ProxyingURLLoaderFactoryProofs -------------------
(***************************************************************************)
(* Proofs about ProxyingURLLoaderFactory, for any number of requests,      *)
(* factories, hooks, pipes and redirects.  As for the WebSocket proxies,   *)
(* the invariant of the request handler and the one of its callers are     *)
(* proved together: each needs the other.  From the joint invariant follow *)
(* the calling convention of the handler, the protocol that the clients    *)
(* see (URLLoaderContract), and who may reach the network.                 *)
(***************************************************************************)
EXTENDS ProxyingURLLoaderFactory, TLAPS

(* The handler's theorems, about the variables of this module.              *)
HP == INSTANCE DumbRequestHandlerProofs

IInv == H!HandlerInv /\ RequestsInv

(* The conjuncts of RequestsInv for one request.                            *)
RequestOK(id) ==
    LET r == req[id] IN
    /\ r.receiver # "unbound" => (r.receiver = "paused" <=> H!Outstanding(id))
    /\ r.loader <=> r.receiver # "unbound"
    /\ r.params /\ r.loader => r.net \in {"redirected", "lost"}
    /\ r.net \in LoaderActive /\ r.sent # "mocked" /\ ~H!Outstanding(id) =>
          r.sent = IF r.net = "running" THEN "loading" ELSE r.net
    /\ r.owner \in Factories
    /\ r.loader <=> r.net # "none"
    /\ r.loader => r.aimed
    /\ r.sent \in C!InFlight
    /\ r.completed <=> r.sent = "redirected"
    /\ r.writing => r.sent = "mocked"
    /\ r.sent = "mocked" => r.net \in {"none", "redirected", "lost"}
    /\ H!Outstanding(id) => r.sent = "loading"
    /\ id \in hookWait =>
          /\ callbacks[id] = "ContinueToBeforeSendHeaders"
          /\ r.net \in {"none", "redirected", "lost"}
          /\ r.loader => r.params
    /\ \A t \in tasks : t.id = id =>
          \/ /\ t.cont = "ContinueToBeforeSendHeaders"
             /\ ctx[id].event = "kOnBeforeRequest"
             /\ r.net \in {"none", "redirected", "lost"}
             /\ r.loader => r.params
          \/ t.cont = "ContinueToResponseStarted" /\ r.net \in {"responded", "lost"}
          \/ t.cont = "ContinueToBeforeRedirect" /\ r.net \in {"redirected", "lost"}

(* Its conjuncts for the factories.                                         *)
FactoriesOK == FactoryLivesWhileNeeded /\ CallsOnlyWithTarget /\ TargetsAreAlive

EveryRequestOK ==
    /\ TypeOK
    /\ \A id \in live : RequestOK(id)
    /\ \A id \in Ids \ live : req[id].sent \notin C!InFlight
    /\ \A id \in Ids : id > lastId => req[id].sent = "none"
    /\ FactoriesOK

LEMMA RequestsInvByParts == RequestsInv <=> EveryRequestOK
<1>1. ASSUME RequestsInv PROVE \A id \in live : RequestOK(id)
  BY <1>1 DEF RequestsInv, PausedExactlyWhileWaiting, LoaderFetchesRequestURL,
              FollowMeetsWaitingLoader, ClientSeesWhatNetworkSent, RequestsAreConsistent,
              ContinuationMatchesPhase, RequestOK
<1>2. RequestsInv => /\ TypeOK /\ FactoriesOK
                     /\ \A id \in Ids \ live : req[id].sent \notin C!InFlight
                     /\ \A id \in Ids : id > lastId => req[id].sent = "none"
  BY DEF RequestsInv, RequestsAreConsistent, FactoriesOK
<1>3. ASSUME EveryRequestOK PROVE RequestsInv
  <2>1. PausedExactlyWhileWaiting
    BY <1>3 DEF EveryRequestOK, PausedExactlyWhileWaiting, RequestOK
  <2>2. LoaderFetchesRequestURL
    <3>1. ASSUME NEW id \in live PROVE req[id].loader <=> req[id].receiver # "unbound"
      BY <1>3 DEF EveryRequestOK, RequestOK
    <3>2. ASSUME NEW id \in live, req[id].net = "running" PROVE req[id].aimed
      BY <1>3, <3>2 DEF EveryRequestOK, RequestOK
    <3> QED BY <3>1, <3>2 DEF LoaderFetchesRequestURL
  <2>3. FollowMeetsWaitingLoader
    BY <1>3 DEF EveryRequestOK, FollowMeetsWaitingLoader, RequestOK
  <2>4. ClientSeesWhatNetworkSent
    BY <1>3 DEF EveryRequestOK, ClientSeesWhatNetworkSent, RequestOK
  <2>5. RequestsAreConsistent
    BY <1>3 DEF EveryRequestOK, RequestsAreConsistent, RequestOK
  <2>6. ContinuationMatchesPhase
    BY <1>3 DEF EveryRequestOK, ContinuationMatchesPhase, RequestOK
  <2> QED BY <1>3, <2>1, <2>2, <2>3, <2>4, <2>5, <2>6
          DEF EveryRequestOK, FactoriesOK, RequestsInv
<1>4. ASSUME RequestsInv PROVE EveryRequestOK
  BY <1>1, <1>2, <1>4 DEF EveryRequestOK
<1>5. EveryRequestOK => RequestsInv
  BY <1>3
<1> QED BY <1>4, <1>5

LEMMA Bounds ==
    /\ MaxRequests \in Nat /\ NumURLHooks \in Nat /\ MaxRedirects \in Nat
    /\ MaxPipes \in Nat \ {0}
BY FactoryAssumption

LEMMA ContinuationsFit == HP!HandlerAssumption
BY FactoryAssumption
   DEF HP!HandlerAssumption, Continuations, HP!NoCallback, HP!MovedCallback

(* H and HP are instances of the same specification.                        *)
LEMMA SameHandler ==
    /\ H!vars = HP!vars
    /\ H!Init <=> HP!Init
    /\ H!Next <=> HP!Next
    /\ H!HandlerInv <=> HP!HandlerInv
<1>1. H!vars = HP!vars
  BY DEF H!vars, HP!vars
<1>2. H!Init <=> HP!Init
  BY
     DEF H!Init, HP!Init, H!Ids, HP!Ids, H!FreshCTX, HP!FreshCTX, H!NoCallback,
         HP!NoCallback
<1>3. H!Next <=> HP!Next
  BY
     DEF H!Ids, HP!Ids, H!Results, HP!Results, H!BlockedBy, HP!BlockedBy, H!Events,
         HP!Events, H!RequestInfo, HP!RequestInfo, H!Tasks, HP!Tasks, H!FreshCTX,
         HP!FreshCTX, H!MakeCTX, HP!MakeCTX, H!RunCallbackForRequestIdentifier,
         HP!RunCallbackForRequestIdentifier, H!HookPends, HP!HookPends, H!HooksDone,
         HP!HooksDone, H!StopIndexes, HP!StopIndexes, H!RunNextCallback,
         HP!RunNextCallback, H!BeforeURLRequestReturnsOK, HP!BeforeURLRequestReturnsOK,
         H!OnBeforeURLRequest, HP!OnBeforeURLRequest, H!OnHeadersReceived,
         HP!OnHeadersReceived, H!OnURLRequestDestroyed, HP!OnURLRequestDestroyed,
         H!HookAnswers, HP!HookAnswers, H!Outstanding, HP!Outstanding, H!NewRequest,
         HP!NewRequest, H!RestartRequest, HP!RestartRequest, H!HeadersReceived,
         HP!HeadersReceived, H!SkipHeadersReceived, HP!SkipHeadersReceived,
         H!BeforeStartTransaction, HP!BeforeStartTransaction, H!NewRequestBlocked,
         HP!NewRequestBlocked, H!HeadersReceivedBlocked, HP!HeadersReceivedBlocked,
         H!RunTask, HP!RunTask, H!Destroy, HP!Destroy, H!Next, HP!Next, H!NoCallback,
         HP!NoCallback, H!MovedCallback, HP!MovedCallback
<1>4. H!HandlerInv <=> HP!HandlerInv
  BY
     DEF H!TypeOK, HP!TypeOK, H!CallbacksOwnedByLiveRequests,
         HP!CallbacksOwnedByLiveRequests, H!AtMostOneContinuation,
         HP!AtMostOneContinuation, H!NoMovedCallbackPosted, HP!NoMovedCallbackPosted,
         H!OKOnlyAfterEveryHook, HP!OKOnlyAfterEveryHook, H!FutureIdsUntouched,
         HP!FutureIdsUntouched, H!PendingHookHasCallback, HP!PendingHookHasCallback,
         H!HandlerInv, HP!HandlerInv, H!Ids, HP!Ids, H!Results, HP!Results, H!BlockedBy,
         HP!BlockedBy, H!Events, HP!Events, H!RequestInfo, HP!RequestInfo, H!Tasks,
         HP!Tasks, H!NoCallback, HP!NoCallback, H!MovedCallback, HP!MovedCallback
<1> QED BY <1>1, <1>2, <1>3, <1>4

LEMMA HandlerInitInv == H!Init => H!HandlerInv
BY ContinuationsFit, SameHandler, HP!InitEstablishesInv

LEMMA HandlerStepKeepsInv == H!HandlerInv /\ [H!Next]_H!vars => H!HandlerInv'
<1>1. HP!HandlerInv /\ [HP!Next]_HP!vars => HP!HandlerInv'
  BY ContinuationsFit, HP!NextKeepsInv, Zenon
<1>2. (H!HandlerInv <=> HP!HandlerInv)'
  BY SameHandler, PTL
<1>3. [H!Next]_H!vars => [HP!Next]_HP!vars
  BY SameHandler DEF H!vars, HP!vars
<1> QED BY <1>1, <1>2, <1>3, SameHandler

-----------------------------------------------------------------------------
(* Every step of the factories is a step of the handler or does not touch   *)
(* it.                                                                      *)

(* What a live request may rely on.                                         *)
LEMMA LiveRequest ==
    ASSUME IInv, NEW id \in live
    PROVE  /\ id \in Ids /\ req[id] \in Request /\ RequestOK(id)
           /\ lastId \in Nat /\ id <= lastId
           /\ req \in [Ids -> Request] /\ ctx \in [Ids -> H!RequestInfo]
           /\ callbacks \in [Ids -> Continuations \cup {H!NoCallback, H!MovedCallback}]
           /\ FactoriesOK
<1>1. TypeOK /\ RequestOK(id) /\ FactoriesOK
  BY RequestsInvByParts DEF IInv, EveryRequestOK
<1>2. id <= lastId
  BY DEF IInv, H!HandlerInv, H!FutureIdsUntouched
<1> QED BY <1>1, <1>2 DEF TypeOK, H!TypeOK, Ids

LEMMA IntroductionAtHandler ==
    ASSUME NEW f \in Factories, NEW id \in Ids, NEW s \in Schemes, CreateLoaderAndStart(f, id, s)
    PROVE  H!Next
<1> DEFINE r    == [NoRequest EXCEPT !.owner = f, !.scheme = s, !.sent = "loading"]
           cont == "ContinueToBeforeSendHeaders"
<1>1. cont \in Continuations
  BY DEF Continuations
<1>2. (r.scheme = "internal") \in BOOLEAN
  OBVIOUS
<1>3. H!NewRequest(id, cont, r.scheme = "internal")
  BY DEF CreateLoaderAndStart, RestartInternal, H!NewRequest
<1> HIDE DEF r, cont
<1> QED BY <1>1, <1>2, <1>3 DEF H!Next, Ids

LEMMA FollowAtHandler ==
    ASSUME IInv, NEW id \in Ids, FollowRedirect(id)
    PROVE  H!Next
<1> DEFINE r    == [req[id] EXCEPT !.sent = "loading", !.follows = @ + 1,
                                   !.params = req[id].params \/ req[id].loader]
           cont == "ContinueToBeforeSendHeaders"
<1>1. cont \in Continuations
  BY DEF Continuations
<1>2. (r.scheme = "internal") \in BOOLEAN
  OBVIOUS
<1>3. id \in live /\ ~H!Outstanding(id)
  BY LiveRequest DEF FollowRedirect, RequestOK
<1>4. H!RestartRequest(id, cont, r.scheme = "internal")
  BY <1>3 DEF FollowRedirect, RestartInternal, H!RestartRequest
<1> HIDE DEF r, cont
<1> QED BY <1>1, <1>2, <1>4 DEF H!Next, Ids

LEMMA HeadersAtHandler ==
    ASSUME IInv, NEW id \in live, ~H!Outstanding(id), NEW cont \in Continuations,
           NEW r, NEW then, HandleResponseOrRedirectHeaders(id, cont, r, then),
           UNCHANGED <<live, lastId>>
    PROVE  H!Next
<1>1. id \in Ids
  BY LiveRequest
<1>2. H!SkipHeadersReceived(id) \/ H!HeadersReceived(id, cont)
  BY DEF HandleResponseOrRedirectHeaders, H!SkipHeadersReceived, H!HeadersReceived
<1> QED BY <1>1, <1>2 DEF H!Next, Ids

LEMMA RemovalAtHandler ==
    ASSUME IInv, NEW id \in live, H!OnURLRequestDestroyed({id}),
           UNCHANGED <<lastId, ctx, redirectUrl, hookWait, tasks>>
    PROVE  H!Next
<1>1. H!Destroy({id}) /\ {id} \in SUBSET live
  BY DEF H!Destroy
<1> QED BY <1>1 DEF H!Next

LEMMA TaskAtHandler ==
    ASSUME IInv, NEW t \in tasks, RunTask(t)
    PROVE  H!Next
<1>1. tasks' = tasks \ {t} /\ UNCHANGED <<lastId, redirectUrl, hookWait>>
  BY DEF RunTask, StaleTask, ContinueToBeforeSendHeaders, ContinueToResponseStarted,
         ContinueToBeforeRedirect, TakeTask
<1>2. \/ UNCHANGED <<live, callbacks, ctx>>
      \/ t.id \in live /\ H!MakeCTX(t.id) /\ UNCHANGED <<live, callbacks>>
      \/ t.id \in live /\ H!OnURLRequestDestroyed({t.id}) /\ UNCHANGED ctx
  <2>1. CASE ContinueToBeforeSendHeaders(t)
    BY <2>1 DEF ContinueToBeforeSendHeaders, TakeTask, OnRequestError, RemoveRequest
  <2>2. CASE ~ContinueToBeforeSendHeaders(t)
    BY <2>2 DEF RunTask, StaleTask, ContinueToResponseStarted, ContinueToBeforeRedirect
  <2> QED BY <2>1, <2>2
<1>3. H!RunTask(t)
  BY <1>1, <1>2 DEF H!RunTask
<1> QED BY <1>3 DEF H!Next

LEMMA ShutdownAtHandler ==
    ASSUME IInv, Shutdown
    PROVE  [H!Next]_H!vars
<1>1. CASE live = {}
  <2>1. live' = live /\ callbacks' = [id \in Ids |-> callbacks[id]]
    BY <1>1 DEF Shutdown, H!OnURLRequestDestroyed, Ids
  <2>2. callbacks' = callbacks
    BY <2>1 DEF IInv, RequestsInv, TypeOK, H!TypeOK, Ids
  <2> QED BY <2>1, <2>2 DEF Shutdown, H!vars
<1>2. CASE live # {}
  <2>1. H!Destroy(live) /\ live \in SUBSET live
    BY <1>2 DEF Shutdown, H!Destroy
  <2> QED BY <2>1 DEF H!Next
<1> QED BY <1>1, <1>2

LEMMA NetworkAtHandler ==
    ASSUME IInv, NEW id \in Ids, NetworkAnswers(id)
    PROVE  [H!Next]_H!vars
<1>1. id \in live /\ ~H!Outstanding(id)
  <2>1. id \in live /\ req[id].receiver = "open"
    BY DEF NetworkAnswers, OnReceiveResponse, OnReceiveRedirect, OnStartLoadingResponseBody,
           OnComplete, Delivered
  <2> QED BY <2>1, LiveRequest DEF RequestOK
<1>2. "ContinueToResponseStarted" \in Continuations /\ "ContinueToBeforeRedirect" \in Continuations
  BY DEF Continuations
<1>3. CASE OnReceiveResponse(id)
  BY <1>1, <1>2, <1>3, HeadersAtHandler DEF OnReceiveResponse
<1>4. CASE OnReceiveRedirect(id)
  BY <1>1, <1>2, <1>4, HeadersAtHandler DEF OnReceiveRedirect
<1>5. CASE OnStartLoadingResponseBody(id)
  BY <1>5 DEF OnStartLoadingResponseBody, handlerVars, H!vars
<1>6. CASE OnComplete(id)
  BY <1>1, <1>6, RemovalAtHandler DEF OnComplete, OnRequestError, RemoveRequest
<1> QED BY <1>3, <1>4, <1>5, <1>6 DEF NetworkAnswers

LEMMA StepOfHandler == IInv /\ [Next]_vars => [H!Next]_H!vars
<1> SUFFICES ASSUME IInv, [Next]_vars PROVE [H!Next]_H!vars
  OBVIOUS
<1>1. ASSUME UNCHANGED handlerVars
      PROVE  [H!Next]_H!vars
  BY <1>1 DEF handlerVars, H!vars
<1>2. ASSUME NEW id \in Ids, ClientStep(id)
      PROVE  [H!Next]_H!vars
  <2>1. CASE FollowRedirect(id)
    BY <2>1, FollowAtHandler
  <2>2. CASE ClientGoesAway(id)
    BY <1>1, <2>2 DEF ClientGoesAway
  <2>3. CASE OnClientDisconnect(id)
    BY <2>3, RemovalAtHandler DEF OnClientDisconnect, OnRequestError, RemoveRequest
  <2> QED BY <1>2, <2>1, <2>2, <2>3 DEF ClientStep
<1>3. ASSUME NEW id \in Ids, HookAnswers(id)
      PROVE  H!Next
  BY <1>3 DEF HookAnswers, H!Next, Ids
<1>4. ASSUME NEW id \in Ids, OnWrite(id)
      PROVE  [H!Next]_H!vars
  <2>1. CASE id \in live /\ H!OnURLRequestDestroyed({id})
    BY <1>4, <2>1, RemovalAtHandler DEF OnWrite
  <2>2. CASE UNCHANGED <<live, callbacks>>
    BY <1>4, <2>2 DEF OnWrite, H!vars
  <2> QED BY <1>4, <2>1, <2>2 DEF OnWrite, RemoveRequest
<1>5. ASSUME NEW id \in Ids, LoaderLost(id)
      PROVE  [H!Next]_H!vars
  BY <1>1, <1>5 DEF LoaderLost
<1>6. ASSUME NEW f \in Factories, FactoryStep(f)
      PROVE  [H!Next]_H!vars
  BY <1>1, <1>6 DEF FactoryStep, StartProxying, Clone, OnProxyBindingError, OnTargetFactoryError
<1>7. CASE UNCHANGED vars
  BY <1>1, <1>7 DEF vars
<1> QED BY <1>2, <1>3, <1>4, <1>5, <1>6, <1>7, IntroductionAtHandler, NetworkAtHandler,
           TaskAtHandler, ShutdownAtHandler DEF Next

-----------------------------------------------------------------------------
(* The factories: what happens to their invariant when requests come and go.*)

(* The types of the factories' variables.                                   *)
FactoryTypeOK ==
    /\ contextData \in {"none", "live", "destroyed"}
    /\ factory \in [Factories -> {"none", "alive", "deleted"}]
    /\ pipes \in [Factories -> 0..MaxPipes]
    /\ targetBound \subseteq Factories

(* Nothing changes for them but that requests of factories with a network   *)
(* may appear.                                                              *)
LEMMA FactoriesUntouched ==
    ASSUME IInv, UNCHANGED factoryVars, live \subseteq live',
           \A i \in live : req'[i].owner = req[i].owner,
           \A i \in live' \ live : req'[i].owner \in targetBound
    PROVE  FactoryTypeOK' /\ FactoriesOK'
<1>1. TypeOK /\ FactoriesOK
  BY RequestsInvByParts DEF IInv, EveryRequestOK
<1>2. UNCHANGED <<contextData, factory, pipes, targetBound>>
  BY DEF factoryVars
<1>3. FactoryTypeOK'
  BY <1>1, <1>2 DEF TypeOK, FactoryTypeOK
<1>4. \A f \in Factories : RequestsOf(f) \subseteq RequestsOf(f)'
  BY DEF RequestsOf
<1>5. \A f \in Factories : factory'[f] = "alive" => f \in targetBound' \/ RequestsOf(f)' # {}
  BY <1>1, <1>2, <1>4 DEF FactoriesOK, FactoryLivesWhileNeeded
<1>6. \A i \in live' : factory'[req'[i].owner] = "alive" /\ contextData' = "live"
  <2>1. ASSUME NEW i \in live
        PROVE  factory'[req'[i].owner] = "alive" /\ contextData' = "live"
    BY <1>1, <1>2 DEF FactoriesOK, FactoryLivesWhileNeeded
  <2>2. ASSUME NEW i \in live' \ live
        PROVE  factory'[req'[i].owner] = "alive" /\ contextData' = "live"
    BY <1>1, <1>2 DEF FactoriesOK, TargetsAreAlive, TypeOK
  <2> QED BY <2>1, <2>2
<1>7. CallsOnlyWithTarget' /\ TargetsAreAlive'
  BY <1>1, <1>2 DEF FactoriesOK, CallsOnlyWithTarget, TargetsAreAlive
<1> QED BY <1>3, <1>5, <1>6, <1>7 DEF FactoriesOK, FactoryLivesWhileNeeded

(* A request is removed and its factory, perhaps, with it.                  *)
LEMMA RemovalKeepsFactories ==
    ASSUME IInv, NEW id \in live, live' = live \ {id},
           MaybeRemoveProxy(req[id].owner, targetBound, RequestsOf(req[id].owner) \ {id}),
           UNCHANGED <<contextData, pipes, targetBound>>,
           \A i \in live \ {id} : req'[i].owner = req[i].owner
    PROVE  FactoryTypeOK' /\ FactoriesOK'
<1> DEFINE owner == req[id].owner
           rest  == RequestsOf(owner) \ {id}
<1>1. /\ TypeOK /\ FactoriesOK /\ \A i \in live : req[i].owner \in Factories
  BY RequestsInvByParts DEF IInv, EveryRequestOK, RequestOK
<1>2. factory' = IF owner \in targetBound \/ rest # {} THEN factory
                 ELSE [factory EXCEPT ![owner] = "deleted"]
  BY DEF MaybeRemoveProxy
<1>3. FactoryTypeOK'
  BY <1>1, <1>2 DEF TypeOK, FactoryTypeOK
<1>4. \A f \in Factories : factory'[f] = "alive" => factory[f] = "alive"
  BY <1>1, <1>2 DEF TypeOK
<1>5. \A f \in Factories : RequestsOf(f)' = RequestsOf(f) \ {id}
  BY DEF RequestsOf
<1>6. ASSUME NEW f \in Factories, factory'[f] = "alive"
      PROVE  f \in targetBound' \/ RequestsOf(f)' # {}
  <2>1. CASE f = owner
    BY <1>1, <1>2, <1>5, <1>6, <2>1 DEF TypeOK
  <2>2. CASE f # owner
    <3>1. RequestsOf(f)' = RequestsOf(f)
      BY <1>5, <2>2 DEF RequestsOf
    <3> QED BY <1>1, <1>4, <1>6, <3>1 DEF FactoriesOK, FactoryLivesWhileNeeded
  <2> QED BY <2>1, <2>2
<1>7. ASSUME NEW i \in live'
      PROVE  factory'[req'[i].owner] = "alive" /\ contextData' = "live"
  <2>1. i \in live \ {id} /\ req'[i].owner = req[i].owner
    OBVIOUS
  <2>2. factory[req[i].owner] = "alive" /\ contextData = "live" /\ req[i].owner \in Factories
    BY <1>1, <2>1 DEF FactoriesOK, FactoryLivesWhileNeeded
  <2>3. req[i].owner = owner => rest # {}
    BY <2>1 DEF RequestsOf
  <2> QED BY <1>1, <1>2, <2>1, <2>2, <2>3 DEF TypeOK
<1>8. CallsOnlyWithTarget'
  BY <1>1 DEF FactoriesOK, CallsOnlyWithTarget
<1>9. TargetsAreAlive'
  BY <1>1, <1>2, <1>4 DEF FactoriesOK, TargetsAreAlive, TypeOK
<1> QED BY <1>3, <1>6, <1>7, <1>8, <1>9 DEF FactoriesOK, FactoryLivesWhileNeeded

-----------------------------------------------------------------------------
(* RequestsInv is kept.  Nearly every step concerns one request, and leaves  *)
(* what the handler holds for the others as it was.                         *)

Untouched(id) ==
    /\ id \in hookWait' <=> id \in hookWait
    /\ \A t \in tasks \cup tasks' : t.id = id => (t \in tasks' <=> t \in tasks)
    /\ callbacks'[id] = callbacks[id]
    /\ ctx'[id] = ctx[id]

LEMMA UntouchedStaysOK ==
    ASSUME NEW id, RequestOK(id), Untouched(id), req'[id] = req[id]
    PROVE  RequestOK(id)'
<1>1. H!Outstanding(id)' <=> H!Outstanding(id)
  BY DEF H!Outstanding, Untouched
<1>2. \A t \in tasks' : t.id = id => t \in tasks
  BY DEF Untouched
<1> QED BY <1>1, <1>2 DEF RequestOK, Untouched, C!InFlight

LEMMA OneRequestStep ==
    ASSUME IInv, H!HandlerInv',
           NEW id \in Ids, NEW r \in Request, req' = [req EXCEPT ![id] = r],
           \A i \in Ids \ {id} : Untouched(i) /\ (i \in live' <=> i \in live),
           id \in live' => RequestOK(id)',
           id \notin live' => r.sent \notin C!InFlight,
           lastId <= lastId', id <= lastId' \/ r.sent = "none",
           FactoryTypeOK', FactoriesOK'
    PROVE  RequestsInv'
<1>1. EveryRequestOK
  BY RequestsInvByParts DEF IInv
<1>2. req'[id] = r /\ \A i \in Ids \ {id} : req'[i] = req[i]
  BY <1>1 DEF EveryRequestOK, TypeOK
<1>3. TypeOK'
  <2>1. H!TypeOK'
    BY DEF H!HandlerInv
  <2>2. req' \in [Ids' -> Request']
    BY <1>1 DEF EveryRequestOK, TypeOK, Ids, H!Ids, Request
  <2> QED BY <2>1, <2>2 DEF TypeOK, FactoryTypeOK
<1>4. ASSUME NEW i \in live' PROVE RequestOK(i)'
  <2>1. i \in Ids
    BY <1>3 DEF TypeOK, H!TypeOK, Ids, H!Ids
  <2>2. i = id \/ (i \in live /\ i \in Ids \ {id})
    BY <2>1
  <2>3. CASE i \in live /\ i \in Ids \ {id}
    <3>1. RequestOK(i)
      BY <1>1, <2>3 DEF EveryRequestOK
    <3> QED BY <1>2, <2>3, <3>1, UntouchedStaysOK
  <2> QED BY <2>2, <2>3
<1>5. ASSUME NEW i \in Ids, i > lastId' PROVE req'[i].sent = "none"
  <2>1. i \in Nat /\ id \in Nat /\ lastId \in Nat /\ lastId' \in Nat
    BY <1>1, <1>3 DEF EveryRequestOK, TypeOK, H!TypeOK, Ids, H!Ids
  <2>2. i > lastId /\ (i = id => r.sent = "none")
    BY <1>5, <2>1
  <2> QED BY <1>1, <1>2, <2>2 DEF EveryRequestOK
<1>6. ASSUME NEW i \in Ids \ live' PROVE req'[i].sent \notin C!InFlight
  <2>1. CASE i = id
    BY <1>2, <2>1
  <2>2. CASE i # id
    BY <1>1, <1>2, <2>2 DEF EveryRequestOK
  <2> QED BY <2>1, <2>2
<1>7. (RequestsInv <=> EveryRequestOK)'
  BY RequestsInvByParts, PTL
<1>8. (\A i \in Ids \ live : req[i].sent \notin C!InFlight)'
  BY <1>6 DEF Ids, H!Ids, C!InFlight
<1> QED BY <1>3, <1>4, <1>5, <1>7, <1>8 DEF EveryRequestOK, Ids, H!Ids

(* What OnHeadersReceived at the handler leaves behind: with hooks a task,  *)
(* without hooks nothing.                                                   *)
LEMMA HeadersReceivedEffect ==
    ASSUME IInv, NEW id \in live, ~H!Outstanding(id),
           NEW cont \in Continuations, H!OnHeadersReceived(id, cont), hookWait' = hookWait
    PROVE  /\ \A i \in Ids \ {id} : Untouched(i)
           /\ id \notin hookWait'
           /\ H!Outstanding(id)' <=> HasHeadersReceivedHooks
           /\ \A t \in tasks' : t.id = id => t.cont = cont
<1> DEFINE task == [id |-> id, cont |-> cont, rv |-> "OK"]
<1>1. /\ ctx \in [Ids -> H!RequestInfo]
      /\ callbacks \in [Ids -> Continuations \cup {H!NoCallback, H!MovedCallback}]
  BY LiveRequest
<1>2. id \notin hookWait /\ \A t \in tasks : t.id # id
  BY DEF H!Outstanding
<1>3. CASE ~HasHeadersReceivedHooks
  <2>1. /\ ctx' = [ctx EXCEPT ![id] = H!FreshCTX("kUnknownEventType")]
        /\ UNCHANGED <<callbacks, tasks>>
    BY <1>3 DEF H!OnHeadersReceived, H!MakeCTX
  <2>2. \A i \in Ids \ {id} : Untouched(i)
    BY <1>1, <2>1 DEF Untouched
  <2> QED BY <1>2, <1>3, <2>1, <2>2 DEF H!Outstanding
<1>4. CASE HasHeadersReceivedHooks
  <2>1. /\ ctx' = [ctx EXCEPT ![id] = H!FreshCTX("kOnHeadersReceived")]
        /\ callbacks' = [callbacks EXCEPT ![id] = H!MovedCallback]
        /\ tasks' = tasks \cup {task}
    BY <1>4 DEF H!OnHeadersReceived, H!RunCallbackForRequestIdentifier
  <2>2. task.id = id /\ task.cont = cont
    OBVIOUS
  <2> HIDE DEF task
  <2>3. \A i \in Ids \ {id} : Untouched(i)
    BY <1>1, <2>1, <2>2 DEF Untouched
  <2>4. H!Outstanding(id)'
    BY <2>1, <2>2 DEF H!Outstanding
  <2> QED BY <1>2, <1>4, <2>1, <2>2, <2>3, <2>4
<1> QED BY <1>3, <1>4

(* RunNextCallback on the context c of request id: it waits for a hook or   *)
(* its continuation is posted, and nobody else is touched.                  *)
LEMMA RunNextCallbackEffect ==
    ASSUME IInv, NEW id \in Ids, NEW c \in H!RequestInfo, c.event = "kOnBeforeRequest",
           NEW cb \in Continuations, \A t \in tasks : t.id # id,
           H!RunNextCallback(id, c, cb, hookWait \ {id})
    PROVE  /\ \A i \in Ids \ {id} : Untouched(i)
           /\ H!Outstanding(id)'
           /\ id \in hookWait' => callbacks'[id] = cb
           /\ \A t \in tasks' : t.id = id => t.cont = cb
           /\ ctx'[id].event = "kOnBeforeRequest"
<1>1. /\ ctx \in [Ids -> H!RequestInfo]
      /\ callbacks \in [Ids -> Continuations \cup {H!NoCallback, H!MovedCallback}]
  BY DEF IInv, RequestsInv, TypeOK, H!TypeOK, Ids
<1>2. PICK index \in H!StopIndexes(c), newUrl \in BOOLEAN, blocked \in H!BlockedBy,
            refused \in BOOLEAN :
        /\ ctx' = [ctx EXCEPT ![id] = [c EXCEPT !.index = index, !.newUrl = newUrl,
                                                !.blocked = blocked, !.refused = refused]]
        /\ \/ index > c.index /\ ~refused /\ H!HookPends(id, cb, hookWait \ {id})
           \/ index > c.index /\ refused /\ H!HooksDone(id, cb, hookWait \ {id}, "error", FALSE)
           \/ index = NumURLHooks /\ ~refused /\ H!HooksDone(id, cb, hookWait \ {id}, "OK", newUrl)
  BY DEF H!RunNextCallback
<1>3. ctx'[id].event = "kOnBeforeRequest" /\ \A i \in Ids \ {id} : ctx'[i] = ctx[i]
  BY <1>1, <1>2 DEF H!RequestInfo
<1>4. CASE H!HookPends(id, cb, hookWait \ {id})
  <2>1. /\ hookWait' = (hookWait \ {id}) \cup {id}
        /\ callbacks' = [callbacks EXCEPT ![id] = cb]
        /\ tasks' = tasks
    BY <1>4 DEF H!HookPends
  <2>2. \A i \in Ids \ {id} : Untouched(i)
    BY <1>1, <1>3, <2>1 DEF Untouched
  <2> QED BY <1>1, <1>3, <2>1, <2>2 DEF H!Outstanding
<1>5. ASSUME NEW rv, NEW url, H!HooksDone(id, cb, hookWait \ {id}, rv, url)
      PROVE  /\ \A i \in Ids \ {id} : Untouched(i)
             /\ H!Outstanding(id)' /\ id \notin hookWait'
             /\ \A t \in tasks' : t.id = id => t.cont = cb
  <2> DEFINE task == [id |-> id, cont |-> cb, rv |-> rv]
  <2>1. /\ hookWait' = hookWait \ {id}
        /\ callbacks' = [callbacks EXCEPT ![id] = H!MovedCallback]
        /\ tasks' = tasks \cup {task}
    BY <1>5 DEF H!HooksDone, H!RunCallbackForRequestIdentifier
  <2>2. task.id = id /\ task.cont = cb
    OBVIOUS
  <2> HIDE DEF task
  <2>3. \A i \in Ids \ {id} : Untouched(i)
    BY <1>1, <1>3, <2>1, <2>2 DEF Untouched
  <2>4. H!Outstanding(id)'
    BY <2>1, <2>2 DEF H!Outstanding
  <2> QED BY <2>1, <2>2, <2>3, <2>4
<1> QED BY <1>2, <1>3, <1>4, <1>5

LEMMA DestroyedResult ==
    ASSUME NEW r \in Request
    PROVE  Destroyed(r) \in Request /\ Destroyed(r).sent = r.sent /\ Destroyed(r).net = "none"
BY DEF Destroyed, Request, LoaderStates

(* A request is removed once its client has seen the end.                   *)
LEMMA RemovalKeepsInv ==
    ASSUME IInv, H!HandlerInv', NEW id \in live, NEW r \in Request, RemoveRequest(id, r),
           r.owner = req[id].owner, r.sent \notin C!InFlight,
           \A i \in Ids \ {id} : ctx'[i] = ctx[i],
           \A t \in tasks \cup tasks' : t.id # id => (t \in tasks' <=> t \in tasks),
           UNCHANGED <<lastId, hookWait>>
    PROVE  RequestsInv'
<1>1. /\ live' = live \ {id}
      /\ callbacks' = [i \in Ids |-> IF i \in {id} THEN H!NoCallback ELSE callbacks[i]]
      /\ req' = [req EXCEPT ![id] = Destroyed(r)]
      /\ MaybeRemoveProxy(r.owner, targetBound, RequestsOf(r.owner) \ {id})
      /\ UNCHANGED <<contextData, pipes, targetBound>>
  BY DEF RemoveRequest, H!OnURLRequestDestroyed, Ids
<1>2. Destroyed(r) \in Request /\ Destroyed(r).sent = r.sent
  BY DestroyedResult
<1>3. id \in Ids /\ lastId <= lastId' /\ id <= lastId' /\ req \in [Ids -> Request]
  BY LiveRequest
<1>4. \A i \in Ids \ {id} : Untouched(i) /\ (i \in live' <=> i \in live)
  BY <1>1 DEF Untouched
<1>5. \A i \in live \ {id} : req'[i].owner = req[i].owner
  BY <1>1, <1>3
<1>6. FactoryTypeOK' /\ FactoriesOK'
  BY <1>1, <1>5, RemovalKeepsFactories
<1>7. id \notin live'
  BY <1>1
<1> QED BY <1>1, <1>2, <1>3, <1>4, <1>6, <1>7, OneRequestStep

LEMMA ErrorKeepsInv ==
    ASSUME IInv, H!HandlerInv', NEW id \in live, NEW r \in Request, OnRequestError(id, r),
           r.owner = req[id].owner,
           \A i \in Ids \ {id} : ctx'[i] = ctx[i],
           \A t \in tasks \cup tasks' : t.id # id => (t \in tasks' <=> t \in tasks),
           UNCHANGED <<lastId, hookWait>>
    PROVE  RequestsInv'
<1>1. PICK sent \in {"closed", "failed"} : RemoveRequest(id, [r EXCEPT !.sent = sent])
  BY DEF OnRequestError
<1> DEFINE ended == [r EXCEPT !.sent = sent]
<1>2. ended \in Request /\ ended.owner = req[id].owner /\ ended.sent \notin C!InFlight
  BY DEF Request, Sent, C!InFlight
<1> HIDE DEF ended
<1>3. RemoveRequest(id, ended)
  BY <1>1 DEF ended
<1> QED BY <1>2, <1>3, RemovalKeepsInv

(* A step of one request that stays.                                        *)
LEMMA OwnStepKeepsInv ==
    ASSUME IInv, H!HandlerInv', NEW id \in live, NEW r \in Request,
           req' = [req EXCEPT ![id] = r], r.owner = req[id].owner,
           UNCHANGED <<live, lastId, factoryVars>>,
           \A i \in Ids \ {id} : Untouched(i),
           RequestOK(id)'
    PROVE  RequestsInv'
<1>1. id \in Ids /\ lastId <= lastId' /\ id <= lastId' /\ req \in [Ids -> Request]
  BY LiveRequest
<1>2. \A i \in live : req'[i].owner = req[i].owner
  BY <1>1
<1>3. FactoryTypeOK' /\ FactoriesOK'
  BY <1>2, FactoriesUntouched
<1> QED BY <1>1, <1>3, OneRequestStep

LEMMA PausedResult ==
    ASSUME NEW r \in Request
    PROVE  LET p == Paused(r) IN
           /\ p \in Request
           /\ p.owner = r.owner /\ p.scheme = r.scheme /\ p.completed = r.completed
           /\ p.loader = r.loader /\ p.params = r.params /\ p.net = r.net /\ p.aimed = r.aimed
           /\ p.sent = r.sent /\ p.writing = r.writing
           /\ p.receiver = IF r.receiver = "unbound" THEN "unbound" ELSE "paused"
BY DEF Paused, Request

LEMMA ResumedResult ==
    ASSUME NEW r \in Request
    PROVE  LET p == Resumed(r) IN
           /\ p \in Request
           /\ p.owner = r.owner /\ p.scheme = r.scheme /\ p.completed = r.completed
           /\ p.loader = r.loader /\ p.params = r.params /\ p.net = r.net /\ p.aimed = r.aimed
           /\ p.sent = r.sent /\ p.writing = r.writing
           /\ p.receiver = IF r.receiver = "unbound" THEN "unbound" ELSE "open"
BY DEF Resumed, Request

(* A request that may be sent to the network: it has no loader, or one that *)
(* waits for the pending FollowRedirect (or was lost meanwhile).            *)
MaySend(r) ==
    /\ r.loader <=> r.receiver # "unbound"
    /\ r.loader <=> r.net # "none"
    /\ r.loader => r.aimed /\ r.params
    /\ r.net \in {"none", "redirected", "lost"}

LEMMA SendToNetworkResult ==
    ASSUME NEW r \in Request, MaySend(r)
    PROVE  LET n == SendToNetwork(r) IN
           /\ n \in Request
           /\ n.owner = r.owner /\ n.scheme = r.scheme /\ n.completed = r.completed
           /\ n.sent = r.sent /\ n.writing = r.writing
           /\ ~n.params
           /\ n.receiver # "paused"
           /\ n.loader <=> n.receiver # "unbound"
           /\ n.loader <=> n.net # "none"
           /\ n.loader => n.aimed
           /\ n.net \in {"none", "running", "lost"}
<1>1. CASE r.loader
  <2> DEFINE p == Resumed(r)
  <2>1. /\ p \in Request
        /\ p.owner = r.owner /\ p.scheme = r.scheme /\ p.completed = r.completed
        /\ p.loader = r.loader /\ p.params = r.params /\ p.net = r.net /\ p.aimed = r.aimed
        /\ p.sent = r.sent /\ p.writing = r.writing
        /\ p.receiver = IF r.receiver = "unbound" THEN "unbound" ELSE "open"
    BY ResumedResult
  <2> DEFINE net == IF r.params /\ r.net = "redirected" THEN "running" ELSE r.net
  <2>2. SendToNetwork(r) = [p EXCEPT !.params = FALSE, !.net = net]
    BY <1>1 DEF SendToNetwork
  <2>3. net \in LoaderStates /\ net \in {"running", "lost"}
    BY <1>1 DEF MaySend, Request, LoaderStates, LoaderActive
  <2>4. r.receiver # "unbound" /\ r.aimed
    BY <1>1 DEF MaySend
  <2> HIDE DEF p, net
  <2>5. [p EXCEPT !.params = FALSE, !.net = net] \in Request
    BY <2>1, <2>3 DEF Request
  <2> DEFINE n == [p EXCEPT !.params = FALSE, !.net = net]
  <2>6. /\ n.owner = p.owner /\ n.scheme = p.scheme /\ n.completed = p.completed
        /\ n.sent = p.sent /\ n.writing = p.writing /\ n.params = FALSE /\ n.net = net
        /\ n.receiver = p.receiver /\ n.loader = p.loader /\ n.aimed = p.aimed
    BY <2>1 DEF Request
  <2>7. SendToNetwork(r) = n /\ n \in Request
    BY <2>2, <2>5
  <2> HIDE DEF n
  <2> QED BY <1>1, <2>1, <2>3, <2>4, <2>6, <2>7
<1>2. CASE ~r.loader
  BY <1>2 DEF SendToNetwork, MaySend, Request, LoaderStates, LoaderActive
<1> QED BY <1>1, <1>2

(* A request whose record is as SendToNetwork leaves it, with nothing       *)
(* outstanding at the handler.                                              *)
LEMMA SentIsOK ==
    ASSUME NEW id, ~H!Outstanding(id)',
           LET n == req'[id] IN
           /\ n.owner \in Factories /\ n.sent = "loading" /\ ~n.completed /\ ~n.writing
           /\ ~n.params
           /\ n.receiver # "paused"
           /\ n.loader <=> n.receiver # "unbound"
           /\ n.loader <=> n.net # "none"
           /\ n.loader => n.aimed
           /\ n.net \in {"none", "running", "lost"}
    PROVE  RequestOK(id)'
<1>1. id \notin hookWait' /\ \A t \in tasks' : t.id # id
  BY DEF H!Outstanding
<1> QED BY <1>1 DEF RequestOK, LoaderActive, C!InFlight

(* A request that waits for the before-request hooks.                       *)
LEMMA WaitingForHooksIsOK ==
    ASSUME NEW id, H!Outstanding(id)',
           id \in hookWait' => callbacks'[id] = "ContinueToBeforeSendHeaders",
           \A t \in tasks' : t.id = id => t.cont = "ContinueToBeforeSendHeaders",
           ctx'[id].event = "kOnBeforeRequest",
           req'[id].owner \in Factories, req'[id].sent = "loading",
           ~req'[id].completed, ~req'[id].writing,
           MaySend(req[id])', req'[id].receiver \in {"unbound", "paused"}
    PROVE  RequestOK(id)'
BY DEF RequestOK, MaySend, LoaderActive, C!InFlight

(* RestartInternal of a new request or of one that follows a redirect.      *)
LEMMA RestartKeepsInv ==
    ASSUME IInv, H!HandlerInv', NEW id \in Ids, NEW r \in Request, RestartInternal(id, r),
           ~H!Outstanding(id),
           MaySend(r), r.owner \in Factories, r.sent = "loading", ~r.writing,
           live' = live \cup {id}, lastId <= lastId', id <= lastId', UNCHANGED factoryVars,
           id \in live => r.owner = req[id].owner,
           id \notin live => r.owner \in targetBound
    PROVE  RequestsInv'
<1> DEFINE started  == [r EXCEPT !.completed = FALSE]
           internal == r.scheme = "internal"
           cont     == "ContinueToBeforeSendHeaders"
           new      == IF H!BeforeURLRequestReturnsOK(internal) THEN SendToNetwork(started)
                       ELSE Paused(started)
<1>1. /\ req' = [req EXCEPT ![id] = new]
      /\ H!OnBeforeURLRequest(id, cont, internal)
  BY DEF RestartInternal
<1>2. /\ started \in Request /\ MaySend(started) /\ ~started.completed
      /\ started.owner = r.owner /\ started.sent = "loading" /\ ~started.writing
  BY DEF Request, MaySend
<1>3. id \notin hookWait /\ \A t \in tasks : t.id # id
  BY DEF H!Outstanding
<1>4. TypeOK
  BY DEF IInv, RequestsInv
<1> HIDE DEF started, internal, cont
<1>5. /\ new \in Request /\ new.owner = r.owner /\ new.sent = "loading"
      /\ ~new.completed /\ ~new.writing
  <2>1. /\ Paused(started) \in Request /\ Paused(started).owner = r.owner
        /\ Paused(started).sent = "loading" /\ ~Paused(started).completed
        /\ ~Paused(started).writing
    BY <1>2, PausedResult
  <2>2. LET n == SendToNetwork(started) IN
        /\ n \in Request /\ n.owner = r.owner
        /\ n.sent = "loading" /\ ~n.completed /\ ~n.writing
    BY <1>2, SendToNetworkResult
  <2> QED BY <2>1, <2>2
<1>6. req'[id] = new /\ \A i \in Ids \ {id} : req'[i] = req[i]
  BY <1>1, <1>4 DEF TypeOK
<1>7. FactoryTypeOK' /\ FactoriesOK'
  <2>1. \A i \in live : i \in Ids
    BY LiveRequest
  <2>2. \A i \in live : req'[i].owner = req[i].owner
    BY <1>5, <1>6, <2>1
  <2>3. \A i \in live' \ live : req'[i].owner \in targetBound
    BY <1>5, <1>6
  <2> HIDE DEF new
  <2> QED BY <2>2, <2>3, FactoriesUntouched
<1>8. (\A i \in Ids \ {id} : Untouched(i)) /\ RequestOK(id)'
  <2>1. CASE H!BeforeURLRequestReturnsOK(internal)
    <3>1. UNCHANGED <<callbacks, hookWait, tasks>> /\ \A i \in Ids \ {id} : ctx'[i] = ctx[i]
      BY <1>1, <1>4, <2>1 DEF H!OnBeforeURLRequest, H!MakeCTX, TypeOK, H!TypeOK, Ids
    <3>2. \A i \in Ids \ {id} : Untouched(i)
      BY <3>1 DEF Untouched
    <3>3. ~H!Outstanding(id)'
      BY <1>3, <3>1 DEF H!Outstanding
    <3>4. /\ ~new.params
          /\ new.receiver # "paused"
          /\ new.loader <=> new.receiver # "unbound"
          /\ new.loader <=> new.net # "none"
          /\ new.loader => new.aimed
          /\ new.net \in {"none", "running", "lost"}
      BY <1>2, <2>1, SendToNetworkResult
    <3> HIDE DEF new
    <3>5. RequestOK(id)'
      BY <1>5, <1>6, <3>3, <3>4, SentIsOK
    <3> QED BY <3>2, <3>5
  <2>2. CASE ~H!BeforeURLRequestReturnsOK(internal)
    <3>1. H!FreshCTX("kOnBeforeRequest") \in {c \in H!RequestInfo : c.event = "kOnBeforeRequest"}
      <4>1. 0 \in 0..NumURLHooks
        BY Bounds
      <4> QED BY <4>1 DEF H!FreshCTX, H!RequestInfo, H!Events, H!BlockedBy
    <3>2. H!RunNextCallback(id, H!FreshCTX("kOnBeforeRequest"), cont, hookWait)
      BY <1>1, <2>2 DEF H!OnBeforeURLRequest
    <3>3. hookWait \ {id} = hookWait
      BY <1>3
    <3>4. PICK c \in H!RequestInfo : /\ c.event = "kOnBeforeRequest"
                                    /\ H!RunNextCallback(id, c, cont, hookWait \ {id})
      BY <3>1, <3>2, <3>3
    <3>5. cont \in Continuations
      BY DEF Continuations, cont
    <3>6. /\ \A i \in Ids \ {id} : Untouched(i)
          /\ H!Outstanding(id)'
          /\ id \in hookWait' => callbacks'[id] = cont
          /\ \A t \in tasks' : t.id = id => t.cont = cont
          /\ ctx'[id].event = "kOnBeforeRequest"
      BY <1>3, <3>4, <3>5, RunNextCallbackEffect
    <3>7. MaySend(new) /\ new.receiver \in {"unbound", "paused"}
      BY <1>2, <2>2, PausedResult DEF MaySend
    <3> HIDE DEF new
    <3>8. MaySend(req[id])'
      BY <1>6, <3>7 DEF MaySend
    <3>9. RequestOK(id)'
      BY <1>5, <1>6, <3>6, <3>7, <3>8, WaitingForHooksIsOK DEF cont
    <3> QED BY <3>6, <3>9
  <2> QED BY <2>1, <2>2
<1>9. \A i \in Ids \ {id} : i \in live' <=> i \in live
  OBVIOUS
<1> HIDE DEF new
<1> QED BY <1>1, <1>5, <1>7, <1>8, <1>9, OneRequestStep

LEMMA CreateKeepsInv ==
    ASSUME IInv, H!HandlerInv', NEW f \in Factories, NEW id \in Ids, NEW s \in Schemes,
           CreateLoaderAndStart(f, id, s)
    PROVE  RequestsInv'
<1> DEFINE r == [NoRequest EXCEPT !.owner = f, !.scheme = s, !.sent = "loading"]
<1>1. /\ pipes[f] > 0 /\ id = lastId + 1 /\ lastId' = id /\ live' = live \cup {id}
      /\ RestartInternal(id, r) /\ UNCHANGED factoryVars
  BY DEF CreateLoaderAndStart
<1>2. lastId \in Nat
  BY DEF IInv, RequestsInv, TypeOK, H!TypeOK
<1>3. ~(id <= lastId) /\ lastId <= lastId' /\ id <= lastId'
  BY <1>1, <1>2
<1>4. id \notin live /\ ~H!Outstanding(id)
  BY <1>3 DEF IInv, H!HandlerInv, H!FutureIdsUntouched, H!Outstanding
<1>5. f \in targetBound
  BY <1>1 DEF IInv, RequestsInv, CallsOnlyWithTarget
<1>6. r \in Request
  <2>1. NoRequest \in Request
    <3>1. 0 \in 0..MaxRedirects
      BY Bounds
    <3> QED BY <3>1 DEF NoRequest, Request, LoaderStates, Sent
  <2> QED BY <2>1 DEF Request, Sent
<1>7. r.owner = f /\ r.sent = "loading" /\ ~r.writing /\ MaySend(r)
  BY DEF NoRequest, MaySend
<1> HIDE DEF r
<1> QED BY <1>1, <1>3, <1>4, <1>5, <1>6, <1>7, RestartKeepsInv

LEMMA FollowKeepsInv ==
    ASSUME IInv, H!HandlerInv', NEW id \in Ids, FollowRedirect(id)
    PROVE  RequestsInv'
<1> DEFINE s == req[id]
           r == [s EXCEPT !.sent = "loading", !.follows = @ + 1, !.params = s.params \/ s.loader]
<1>1. /\ id \in live /\ s.sent = "redirected" /\ s.follows < MaxRedirects
      /\ RestartInternal(id, r) /\ UNCHANGED <<live, lastId, factoryVars>>
  BY DEF FollowRedirect
<1>2. s \in Request /\ RequestOK(id)
  BY <1>1, LiveRequest
<1>3. ~H!Outstanding(id)
  BY <1>1, <1>2 DEF RequestOK
<1>4. r \in Request
  <2>1. s.follows + 1 \in 0..MaxRedirects
    <3>1. s.follows \in 0..MaxRedirects
      BY <1>2 DEF Request
    <3> QED BY <1>1, <3>1, Bounds
  <2>2. (s.params \/ s.loader) \in BOOLEAN
    BY <1>2 DEF Request
  <2> QED BY <1>2, <2>1, <2>2 DEF Request, Sent
<1>5. /\ r.owner = s.owner /\ r.owner \in Factories /\ r.sent = "loading" /\ ~r.writing
      /\ MaySend(r)
  <2>1. /\ r.owner = s.owner /\ r.sent = "loading" /\ r.writing = s.writing
        /\ r.loader = s.loader /\ r.receiver = s.receiver /\ r.net = s.net /\ r.aimed = s.aimed
        /\ r.params = (s.params \/ s.loader)
    BY <1>2 DEF Request
  <2>2. s.net \in {"none", "redirected", "lost"}
    BY <1>1, <1>2, <1>3 DEF RequestOK, Request, LoaderStates, LoaderActive
  <2> HIDE DEF r
  <2> QED BY <1>1, <1>2, <2>1, <2>2 DEF RequestOK, MaySend
<1>6. live' = live \cup {id} /\ lastId <= lastId' /\ id <= lastId' /\ UNCHANGED factoryVars
  BY <1>1, LiveRequest
<1> HIDE DEF r
<1> QED BY <1>1, <1>3, <1>4, <1>5, <1>6, RestartKeepsInv

LEMMA HookAnswersKeepsInv ==
    ASSUME IInv, H!HandlerInv', NEW id \in Ids, HookAnswers(id)
    PROVE  RequestsInv'
<1> DEFINE r == req[id]
<1>1. /\ TypeOK /\ EveryRequestOK /\ id \in hookWait
      /\ UNCHANGED <<live, lastId, req, factoryVars>> /\ H!HookAnswers(id)
  BY RequestsInvByParts DEF HookAnswers, H!HookAnswers, IInv, EveryRequestOK
<1>2. r \in Request /\ req' = [req EXCEPT ![id] = r] /\ req'[id] = r
  BY <1>1 DEF TypeOK
<1>3. id <= lastId /\ lastId <= lastId' /\ id <= lastId'
  BY <1>1 DEF IInv, H!HandlerInv, H!FutureIdsUntouched, TypeOK, H!TypeOK
<1>4. FactoryTypeOK' /\ FactoriesOK'
  <2>1. live \subseteq live' /\ live' \ live = {} /\ \A i \in live : req'[i].owner = req[i].owner
    BY <1>1
  <2> QED BY <1>1, <2>1, FactoriesUntouched
<1>5. CASE callbacks[id] = H!NoCallback
  <2>1. /\ hookWait' = hookWait \ {id} /\ UNCHANGED <<callbacks, ctx, tasks>>
    BY <1>1, <1>5 DEF H!HookAnswers
  <2>2. \A i \in Ids \ {id} : Untouched(i) /\ (i \in live' <=> i \in live)
    BY <1>1, <2>1 DEF Untouched
  <2>3. id \notin live'
    BY <1>1, <1>5, ContinuationsFit
       DEF IInv, H!HandlerInv, H!PendingHookHasCallback, HP!HandlerAssumption, HP!NoCallback,
           H!NoCallback
  <2>4. r.sent \notin C!InFlight
    BY <1>1, <2>3 DEF EveryRequestOK
  <2> HIDE DEF r
  <2> QED BY <1>2, <1>3, <1>4, <2>2, <2>3, <2>4, OneRequestStep
<1>6. CASE callbacks[id] # H!NoCallback
  <2>1. id \in live
    BY <1>6 DEF IInv, H!HandlerInv, H!CallbacksOwnedByLiveRequests, Ids
  <2>2. /\ callbacks[id] \in Continuations /\ ctx[id] \in H!RequestInfo
        /\ ctx[id].event = "kOnBeforeRequest" /\ \A t \in tasks : t.id # id
    BY <1>1, <2>1, LiveRequest DEF IInv, H!HandlerInv, H!PendingHookHasCallback,
                                   H!AtMostOneContinuation
  <2>3. H!RunNextCallback(id, ctx[id], callbacks[id], hookWait \ {id})
    BY <1>1, <1>6 DEF H!HookAnswers
  <2>4. /\ \A i \in Ids \ {id} : Untouched(i)
        /\ H!Outstanding(id)'
        /\ id \in hookWait' => callbacks'[id] = callbacks[id]
        /\ \A t \in tasks' : t.id = id => t.cont = callbacks[id]
        /\ ctx'[id].event = "kOnBeforeRequest"
    BY <2>2, <2>3, RunNextCallbackEffect
  <2>5. RequestOK(id) /\ H!Outstanding(id)
    BY <1>1, <2>1, LiveRequest DEF H!Outstanding
  <2>6. /\ callbacks[id] = "ContinueToBeforeSendHeaders"
        /\ r.owner \in Factories /\ r.sent = "loading" /\ ~r.completed /\ ~r.writing
        /\ MaySend(r) /\ r.receiver \in {"unbound", "paused"}
    BY <1>1, <2>5 DEF RequestOK, MaySend
  <2>7. MaySend(req[id])'
    BY <1>2, <2>6 DEF MaySend
  <2>8. RequestOK(id)'
    BY <1>2, <2>4, <2>6, <2>7, WaitingForHooksIsOK
  <2>9. \A i \in Ids \ {id} : i \in live' <=> i \in live
    BY <1>1
  <2> HIDE DEF r
  <2> QED BY <1>1, <1>2, <1>3, <1>4, <2>1, <2>4, <2>8, <2>9, OneRequestStep
<1> QED BY <1>5, <1>6

(* A continuation that the network's message starts: with no hooks to ask   *)
(* it runs at once and leaves record then, otherwise it is posted and the   *)
(* record r is paused.                                                      *)
LEMMA HeadersKeepInv ==
    ASSUME IInv, H!HandlerInv', NEW id \in live, ~H!Outstanding(id),
           NEW cont \in Continuations, NEW r \in Request, NEW then \in Request,
           HandleResponseOrRedirectHeaders(id, cont, r, then),
           UNCHANGED <<live, lastId, factoryVars>>,
           r.owner = req[id].owner, then.owner = req[id].owner, r.owner \in Factories,
           r.receiver # "unbound", r.loader, r.aimed, ~r.params \/ r.net = "redirected",
           r.sent = "loading", ~r.completed, ~r.writing,
           \/ cont = "ContinueToResponseStarted" /\ r.net = "responded"
           \/ cont = "ContinueToBeforeRedirect" /\ r.net = "redirected",
           then.receiver = "open", then.loader, then.aimed, then.params = r.params,
           then.net = r.net, then.sent = r.net, then.completed <=> r.net = "redirected",
           ~then.writing
    PROVE  RequestsInv'
<1> DEFINE p == Paused(r)
<1>1. /\ p \in Request /\ p.owner = r.owner /\ p.completed = r.completed
      /\ p.loader = r.loader /\ p.params = r.params /\ p.net = r.net /\ p.aimed = r.aimed
      /\ p.sent = r.sent /\ p.writing = r.writing /\ p.receiver = "paused"
  BY PausedResult
<1> HIDE DEF p
<1>2. id \in Ids /\ req \in [Ids -> Request] /\ hookWait' = hookWait
  BY LiveRequest DEF HandleResponseOrRedirectHeaders
<1>3. id \notin hookWait' /\ \A t \in tasks : t.id # id
  BY <1>2 DEF H!Outstanding
<1>4. ASSUME req' = [req EXCEPT ![id] = then], ~H!Outstanding(id)',
             \A i \in Ids \ {id} : Untouched(i)
      PROVE  RequestsInv'
  <2>1. req'[id] = then /\ \A t \in tasks' : t.id # id
    BY <1>2, <1>4 DEF H!Outstanding
  <2>2. RequestOK(id)'
    BY <1>3, <1>4, <2>1 DEF RequestOK, LoaderActive, C!InFlight
  <2> QED BY <1>4, <2>2, OwnStepKeepsInv
<1>5. CASE req' = [req EXCEPT ![id] = then] /\ UNCHANGED <<callbacks, ctx, tasks>>
  <2>1. ~H!Outstanding(id)' /\ \A i \in Ids \ {id} : Untouched(i)
    BY <1>2, <1>3, <1>5 DEF H!Outstanding, Untouched
  <2> QED BY <1>4, <1>5, <2>1
<1>6. CASE /\ H!OnHeadersReceived(id, cont)
           /\ req' = [req EXCEPT ![id] = IF HasHeadersReceivedHooks THEN p ELSE then]
  <2>1. /\ \A i \in Ids \ {id} : Untouched(i)
        /\ H!Outstanding(id)' <=> HasHeadersReceivedHooks
        /\ \A t \in tasks' : t.id = id => t.cont = cont
    BY <1>2, <1>6, HeadersReceivedEffect
  <2>2. CASE ~HasHeadersReceivedHooks
    BY <1>4, <1>6, <2>1, <2>2
  <2>3. CASE HasHeadersReceivedHooks
    <3>1. req' = [req EXCEPT ![id] = p] /\ req'[id] = p
      BY <1>2, <1>6, <2>3
    <3>2. RequestOK(id)'
      BY <1>1, <1>3, <2>1, <2>3, <3>1 DEF RequestOK, LoaderActive, C!InFlight
    <3> QED BY <1>1, <2>1, <3>1, <3>2, OwnStepKeepsInv
  <2> QED BY <2>2, <2>3
<1> QED BY <1>5, <1>6 DEF HandleResponseOrRedirectHeaders, p

(* What the network can deliver a message to.                               *)
LEMMA DeliveredFacts ==
    ASSUME IInv, NEW id, Delivered(id), req[id].net \in LoaderActive, req[id].sent # "mocked"
    PROVE  LET r == req[id] IN
           /\ id \in live /\ r \in Request /\ ~H!Outstanding(id)
           /\ r.receiver = "open" /\ r.loader /\ r.aimed /\ r.owner \in Factories /\ ~r.writing
           /\ r.sent = IF r.net = "running" THEN "loading" ELSE r.net
           /\ r.completed <=> r.sent = "redirected"
           /\ ~r.params \/ r.net \in {"redirected", "lost"}
<1>1. id \in live /\ req[id].receiver = "open"
  BY DEF Delivered
<1>2. req[id] \in Request /\ RequestOK(id)
  BY <1>1, LiveRequest
<1> QED BY <1>1, <1>2 DEF RequestOK

LEMMA NetworkKeepsInv ==
    ASSUME IInv, H!HandlerInv', NEW id \in Ids, NetworkAnswers(id)
    PROVE  RequestsInv'
<1> DEFINE s == req[id]
<1>1. Delivered(id) /\ id \in live /\ s.receiver = "open"
  BY DEF NetworkAnswers, OnReceiveResponse, OnReceiveRedirect, OnStartLoadingResponseBody,
         OnComplete, Delivered
<1>2. s \in Request /\ RequestOK(id) /\ req \in [Ids -> Request]
  BY <1>1, LiveRequest
<1>3. CASE OnReceiveResponse(id)
  <2> DEFINE r    == [s EXCEPT !.net = "responded"]
             then == ResponseStarted(r)
             cont == "ContinueToResponseStarted"
  <2>1. /\ s.net = "running" /\ HandleResponseOrRedirectHeaders(id, cont, r, then)
        /\ UNCHANGED <<live, lastId, factoryVars>>
    BY <1>3 DEF OnReceiveResponse
  <2>2. s.net \in LoaderActive /\ s.sent # "mocked"
    BY <1>2, <2>1 DEF RequestOK, LoaderActive
  <2>3. /\ ~H!Outstanding(id) /\ s.loader /\ s.aimed /\ s.owner \in Factories /\ ~s.writing
        /\ s.sent = "loading" /\ ~s.completed /\ ~s.params
    BY <1>1, <2>1, <2>2, DeliveredFacts
  <2>4. cont \in Continuations
    BY DEF Continuations
  <2>5. /\ r \in Request /\ r.owner = s.owner /\ r.receiver = "open" /\ r.loader /\ r.aimed
        /\ ~r.params /\ r.sent = "loading" /\ ~r.completed /\ ~r.writing /\ r.net = "responded"
    BY <1>1, <1>2, <2>3 DEF Request, LoaderStates, LoaderActive
  <2>6. then = [r EXCEPT !.receiver = "open", !.sent = "responded"]
    BY DEF ResponseStarted
  <2> HIDE DEF r, then
  <2>7. /\ then \in Request /\ then.owner = s.owner /\ then.receiver = "open" /\ then.loader
        /\ then.aimed /\ then.params = r.params /\ then.net = r.net /\ then.sent = r.net
        /\ ~then.completed /\ ~then.writing
    BY <2>5, <2>6 DEF Request, Sent
  <2> HIDE DEF cont, s
  <2>8. cont = "ContinueToResponseStarted"
    BY DEF cont
  <2> QED BY <1>1, <2>1, <2>3, <2>4, <2>5, <2>7, <2>8, HeadersKeepInv DEF s
<1>4. CASE OnReceiveRedirect(id)
  <2>0. PICK u \in Schemes :
               HandleResponseOrRedirectHeaders(id, "ContinueToBeforeRedirect",
                   [s EXCEPT !.net = "redirected"],
                   BeforeRedirect([s EXCEPT !.net = "redirected"], u))
    BY <1>4 DEF OnReceiveRedirect
  <2> DEFINE r    == [s EXCEPT !.net = "redirected"]
             then == BeforeRedirect(r, u)
             cont == "ContinueToBeforeRedirect"
  <2>1. /\ s.net = "running" /\ HandleResponseOrRedirectHeaders(id, cont, r, then)
        /\ UNCHANGED <<live, lastId, factoryVars>>
    BY <1>4, <2>0 DEF OnReceiveRedirect
  <2>2. s.net \in LoaderActive /\ s.sent # "mocked"
    BY <1>2, <2>1 DEF RequestOK, LoaderActive
  <2>3. /\ ~H!Outstanding(id) /\ s.loader /\ s.aimed /\ s.owner \in Factories /\ ~s.writing
        /\ s.sent = "loading" /\ ~s.completed /\ ~s.params
    BY <1>1, <2>1, <2>2, DeliveredFacts
  <2>4. cont \in Continuations
    BY DEF Continuations
  <2>5. /\ r \in Request /\ r.owner = s.owner /\ r.receiver = "open" /\ r.loader /\ r.aimed
        /\ ~r.params /\ r.sent = "loading" /\ ~r.completed /\ ~r.writing /\ r.net = "redirected"
    BY <1>1, <1>2, <2>3 DEF Request, LoaderStates, LoaderActive
  <2> HIDE DEF r
  <2>6. /\ then \in Request /\ then.owner = s.owner /\ then.receiver = "open" /\ then.loader
        /\ then.aimed /\ then.params = r.params /\ then.net = r.net /\ then.sent = r.net
        /\ then.completed /\ ~then.writing
    <3> DEFINE q == Resumed(r)
    <3>1. /\ q \in Request /\ q.owner = r.owner /\ q.loader = r.loader /\ q.params = r.params
          /\ q.net = r.net /\ q.aimed = r.aimed /\ q.writing = r.writing /\ q.receiver = "open"
      BY <2>5, ResumedResult
    <3>2. then = [q EXCEPT !.scheme = u, !.sent = "redirected", !.completed = TRUE]
      BY DEF BeforeRedirect
    <3> HIDE DEF q, then
    <3> QED BY <2>5, <3>1, <3>2 DEF Request, Sent
  <2> HIDE DEF cont, s, then
  <2>7. cont = "ContinueToBeforeRedirect"
    BY DEF cont
  <2> QED BY <1>1, <2>1, <2>3, <2>4, <2>5, <2>6, <2>7, HeadersKeepInv DEF s
<1>5. CASE OnStartLoadingResponseBody(id)
  <2> DEFINE r == [s EXCEPT !.net = "body", !.sent = "body"]
  <2>1. s.net = "responded" /\ UNCHANGED <<handlerVars, factoryVars>>
    BY <1>5 DEF OnStartLoadingResponseBody
  <2>2. req' = [req EXCEPT ![id] = r]
    BY <1>2, <1>5 DEF OnStartLoadingResponseBody
  <2>3. s.net \in LoaderActive /\ s.sent # "mocked"
    BY <1>2, <2>1 DEF RequestOK, LoaderActive
  <2>4. /\ ~H!Outstanding(id) /\ s.loader /\ s.aimed /\ s.owner \in Factories /\ ~s.writing
        /\ ~s.completed /\ ~s.params
    BY <1>1, <2>1, <2>3, DeliveredFacts
  <2>5. /\ r \in Request /\ r.owner = s.owner /\ r.receiver = "open" /\ r.loader /\ r.aimed
        /\ ~r.params /\ r.sent = "body" /\ ~r.completed /\ ~r.writing /\ r.net = "body"
    BY <1>1, <1>2, <2>4 DEF Request, LoaderStates, LoaderActive, Sent
  <2> HIDE DEF r
  <2>6. /\ UNCHANGED <<live, lastId, callbacks, ctx, hookWait, tasks>> /\ req'[id] = r
    BY <1>2, <2>1, <2>2 DEF handlerVars
  <2>7. id \notin hookWait' /\ (\A t \in tasks' : t.id # id) /\ ~H!Outstanding(id)'
    BY <2>4, <2>6 DEF H!Outstanding
  <2>8. RequestOK(id)'
    BY <2>4, <2>5, <2>6, <2>7 DEF RequestOK, LoaderActive, C!InFlight
  <2>9. \A i \in Ids \ {id} : Untouched(i)
    BY <2>6 DEF Untouched
  <2> QED BY <1>1, <2>1, <2>2, <2>5, <2>6, <2>8, <2>9, OwnStepKeepsInv
<1>6. CASE OnComplete(id)
  <2>1. UNCHANGED <<lastId, ctx, redirectUrl, hookWait, tasks>>
    BY <1>6 DEF OnComplete
  <2>2. CASE RemoveRequest(id, [s EXCEPT !.sent = "ok"])
    <3>1. [s EXCEPT !.sent = "ok"] \in {r \in Request : r.owner = s.owner /\ r.sent \notin C!InFlight}
      BY <1>2 DEF Request, Sent, C!InFlight
    <3> QED BY <1>1, <2>1, <2>2, <3>1, RemovalKeepsInv
  <2>3. CASE OnRequestError(id, s)
    BY <1>1, <1>2, <2>1, <2>3, ErrorKeepsInv
  <2> QED BY <1>6, <2>2, <2>3 DEF OnComplete
<1> QED BY <1>3, <1>4, <1>5, <1>6 DEF NetworkAnswers

(* A client that goes away and a loader that is lost leave everything else  *)
(* as it is.                                                                *)
LEMMA LossKeepsInv ==
    ASSUME IInv, H!HandlerInv', NEW id \in Ids, ClientGoesAway(id) \/ LoaderLost(id)
    PROVE  RequestsInv'
<1> DEFINE s == req[id]
<1>1. id \in live /\ UNCHANGED <<handlerVars, factoryVars>>
  BY DEF ClientGoesAway, LoaderLost
<1>2. s \in Request /\ RequestOK(id) /\ req \in [Ids -> Request]
  BY <1>1, LiveRequest
<1>3. UNCHANGED <<live, lastId, callbacks, ctx, hookWait, tasks>>
  BY <1>1 DEF handlerVars
<1>4. (\A i \in Ids \ {id} : Untouched(i)) /\ (H!Outstanding(id)' <=> H!Outstanding(id))
  BY <1>3 DEF Untouched, H!Outstanding
<1>5. CASE ClientGoesAway(id)
  <2> DEFINE r == [s EXCEPT !.gone = TRUE]
  <2>1. req' = [req EXCEPT ![id] = r]
    BY <1>2, <1>5 DEF ClientGoesAway
  <2>2. /\ r \in Request /\ r.owner = s.owner /\ r.receiver = s.receiver /\ r.loader = s.loader
        /\ r.params = s.params /\ r.net = s.net /\ r.sent = s.sent /\ r.aimed = s.aimed
        /\ r.completed = s.completed /\ r.writing = s.writing
    BY <1>2 DEF Request
  <2> HIDE DEF r
  <2>3. req'[id] = r
    BY <1>2, <2>1
  <2>4. RequestOK(id)'
    BY <1>2, <1>3, <1>4, <2>2, <2>3 DEF RequestOK, C!InFlight
  <2> QED BY <1>1, <1>3, <1>4, <2>1, <2>2, <2>4, OwnStepKeepsInv
<1>6. CASE LoaderLost(id)
  <2> DEFINE r == [s EXCEPT !.net = "lost"]
  <2>1. req' = [req EXCEPT ![id] = r] /\ s.net \in LoaderActive
    BY <1>2, <1>6 DEF LoaderLost
  <2>2. /\ r \in Request /\ r.owner = s.owner /\ r.receiver = s.receiver /\ r.loader = s.loader
        /\ r.params = s.params /\ r.net = "lost" /\ r.sent = s.sent /\ r.aimed = s.aimed
        /\ r.completed = s.completed /\ r.writing = s.writing
    BY <1>2 DEF Request, LoaderStates
  <2> HIDE DEF r
  <2>3. req'[id] = r
    BY <1>2, <2>1
  <2>4. s.net # "none"
    BY <2>1 DEF LoaderActive
  <2>5. RequestOK(id)'
    BY <1>2, <1>3, <1>4, <2>2, <2>3, <2>4 DEF RequestOK, C!InFlight, LoaderActive
  <2> QED BY <1>1, <1>3, <1>4, <2>1, <2>2, <2>5, OwnStepKeepsInv
<1> QED BY <1>5, <1>6

LEMMA DisconnectKeepsInv ==
    ASSUME IInv, H!HandlerInv', NEW id \in Ids, OnClientDisconnect(id)
    PROVE  RequestsInv'
<1>1. /\ id \in live /\ OnRequestError(id, req[id])
      /\ UNCHANGED <<lastId, ctx, redirectUrl, hookWait, tasks>>
  BY DEF OnClientDisconnect
<1> QED BY <1>1, LiveRequest, ErrorKeepsInv

(* The write of a mock response may end after its request is gone.          *)
LEMMA WriteKeepsInv ==
    ASSUME IInv, H!HandlerInv', NEW id \in Ids, OnWrite(id)
    PROVE  RequestsInv'
<1> DEFINE s == req[id]
<1>1. UNCHANGED <<lastId, ctx, redirectUrl, hookWait, tasks>>
  BY DEF OnWrite
<1>2. /\ TypeOK /\ EveryRequestOK /\ req \in [Ids -> Request] /\ s \in Request
  BY RequestsInvByParts DEF IInv, EveryRequestOK, TypeOK
<1>3. CASE id \in live /\ RemoveRequest(id, [s EXCEPT !.writing = FALSE, !.sent = "ok"])
  <2> DEFINE r == [s EXCEPT !.writing = FALSE, !.sent = "ok"]
  <2>1. r \in Request /\ r.owner = s.owner /\ r.sent \notin C!InFlight
    BY <1>2 DEF Request, Sent, C!InFlight
  <2>2. RemoveRequest(id, r)
    BY <1>3
  <2> HIDE DEF r
  <2> QED BY <1>1, <1>3, <2>1, <2>2, RemovalKeepsInv
<1>4. CASE req' = [req EXCEPT ![id].writing = FALSE] /\ UNCHANGED <<live, callbacks, factoryVars>>
  <2> DEFINE r == [s EXCEPT !.writing = FALSE]
  <2>1. req' = [req EXCEPT ![id] = r]
    BY <1>2, <1>4
  <2>2. /\ r \in Request /\ r.owner = s.owner /\ r.receiver = s.receiver /\ r.loader = s.loader
        /\ r.params = s.params /\ r.net = s.net /\ r.sent = s.sent /\ r.aimed = s.aimed
        /\ r.completed = s.completed /\ r.writing = FALSE
    BY <1>2 DEF Request
  <2> HIDE DEF r
  <2>3. req'[id] = r /\ \A i \in live : req'[i].owner = req[i].owner
    BY <1>2, <2>1, <2>2, LiveRequest
  <2>4. (\A i \in Ids \ {id} : Untouched(i)) /\ (H!Outstanding(id)' <=> H!Outstanding(id))
    BY <1>1, <1>4 DEF Untouched, H!Outstanding
  <2>5. ASSUME id \in live PROVE RequestOK(id)'
    <3>1. RequestOK(id)
      BY <2>5, LiveRequest
    <3> QED BY <1>1, <1>4, <2>2, <2>3, <2>4, <3>1 DEF RequestOK, C!InFlight
  <2>6. id \notin live => r.sent \notin C!InFlight
    BY <1>2, <2>2 DEF EveryRequestOK
  <2>7. FactoryTypeOK' /\ FactoriesOK'
    <3>1. live \subseteq live' /\ live' \ live = {}
      BY <1>4
    <3> QED BY <1>4, <2>3, <3>1, FactoriesUntouched
  <2>8. lastId <= lastId' /\ (id <= lastId' \/ r.sent = "none")
    <3>1. lastId \in Nat /\ id \in Nat /\ lastId' = lastId
      BY <1>1, <1>2 DEF TypeOK, H!TypeOK, Ids, H!Ids
    <3> QED BY <1>2, <2>2, <3>1 DEF EveryRequestOK
  <2> QED BY <1>4, <2>1, <2>2, <2>4, <2>5, <2>6, <2>7, <2>8, OneRequestStep
<1> QED BY <1>3, <1>4 DEF OnWrite

(* A continuation that is run was the only one.                             *)
LEMMA TakenTask ==
    ASSUME IInv, NEW t \in tasks, NEW cont, TakeTask(t, cont)
    PROVE  LET id == t.id
               r  == req[t.id] IN
           /\ id \in live /\ t.cont = cont /\ r \in Request /\ RequestOK(id)
           /\ r.sent = "loading"
           /\ id \notin hookWait' /\ ~H!Outstanding(id)' /\ \A u \in tasks' : u.id # id
           /\ \A u \in tasks \cup tasks' : u.id # id => (u \in tasks' <=> u \in tasks)
           /\ UNCHANGED <<lastId, redirectUrl, hookWait>>
<1>1. /\ t.id \in live /\ t.cont = cont /\ tasks' = tasks \ {t}
      /\ UNCHANGED <<lastId, redirectUrl, hookWait>>
  BY DEF TakeTask
<1>2. req[t.id] \in Request /\ RequestOK(t.id)
  BY <1>1, LiveRequest
<1>3. H!Outstanding(t.id)
  BY DEF H!Outstanding
<1>4. t.id \notin hookWait' /\ \A u \in tasks' : u.id # t.id
  BY <1>1 DEF IInv, H!HandlerInv, H!AtMostOneContinuation
<1>5. ~H!Outstanding(t.id)'
  BY <1>4 DEF H!Outstanding
<1>6. req[t.id].sent = "loading"
  BY <1>2, <1>3 DEF RequestOK
<1>7. \A u \in tasks \cup tasks' : u.id # t.id => (u \in tasks' <=> u \in tasks)
  BY <1>1
<1> QED BY <1>1, <1>2, <1>4, <1>5, <1>6, <1>7

(* What BeforeRedirect and ResponseStarted leave behind.                    *)
LEMMA ResponseStartedResult ==
    ASSUME NEW r \in Request
    PROVE  LET n == ResponseStarted(r) IN
           /\ n \in Request /\ n.owner = r.owner /\ n.loader = r.loader /\ n.params = r.params
           /\ n.net = r.net /\ n.aimed = r.aimed /\ n.writing = r.writing
           /\ n.sent = "responded" /\ n.completed = r.completed /\ n.receiver = "open"
BY DEF ResponseStarted, Request, Sent

LEMMA BeforeRedirectResult ==
    ASSUME NEW r \in Request, NEW s \in Schemes
    PROVE  LET n == BeforeRedirect(r, s) IN
           /\ n \in Request /\ n.owner = r.owner /\ n.loader = r.loader /\ n.params = r.params
           /\ n.net = r.net /\ n.aimed = r.aimed /\ n.writing = r.writing
           /\ n.sent = "redirected" /\ n.completed
           /\ n.receiver = IF r.receiver = "unbound" THEN "unbound" ELSE "open"
<1> DEFINE q == Resumed(r)
           n == BeforeRedirect(r, s)
<1>1. /\ q \in Request /\ q.owner = r.owner /\ q.loader = r.loader /\ q.params = r.params
      /\ q.net = r.net /\ q.aimed = r.aimed /\ q.writing = r.writing
      /\ q.receiver = IF r.receiver = "unbound" THEN "unbound" ELSE "open"
  BY ResumedResult
<1>2. n = [q EXCEPT !.scheme = s, !.sent = "redirected", !.completed = TRUE]
  BY DEF BeforeRedirect
<1> HIDE DEF q, n
<1>3. /\ n \in Request /\ n.owner = q.owner /\ n.loader = q.loader /\ n.params = q.params
      /\ n.net = q.net /\ n.aimed = q.aimed /\ n.writing = q.writing
      /\ n.sent = "redirected" /\ n.completed /\ n.receiver = q.receiver
  BY <1>1, <1>2 DEF Request, Sent
<1> QED BY <1>1, <1>3 DEF n

LEMMA InternalRedirectResult ==
    ASSUME NEW r \in Request, NEW s \in Schemes
    PROVE  LET n == InternalRedirect(r, s) IN
           /\ n \in Request /\ n.owner = r.owner /\ ~n.loader /\ n.net = "none"
           /\ n.receiver = "unbound" /\ n.writing = r.writing
           /\ n.sent = "redirected" /\ n.completed
<1> DEFINE q == [r EXCEPT !.receiver = "unbound", !.loader = FALSE, !.net = "none",
                          !.aimed = FALSE]
<1>1. /\ q \in Request /\ q.owner = r.owner /\ q.loader = FALSE /\ q.net = "none"
      /\ q.receiver = "unbound" /\ q.writing = r.writing
  BY DEF Request, LoaderStates
<1> HIDE DEF q
<1>2. InternalRedirect(r, s) = BeforeRedirect(q, s)
  BY DEF InternalRedirect, q
<1> QED BY <1>1, <1>2, BeforeRedirectResult

(* The continuations of the network's messages.                             *)
LEMMA HeadersTaskKeepsInv ==
    ASSUME IInv, H!HandlerInv', NEW t \in tasks,
           ContinueToResponseStarted(t) \/ ContinueToBeforeRedirect(t)
    PROVE  RequestsInv'
<1> DEFINE s == req[t.id]
<1>1. PICK cont, n :
        /\ cont \in {"ContinueToResponseStarted", "ContinueToBeforeRedirect"}
        /\ TakeTask(t, cont)
        /\ req' = [req EXCEPT ![t.id] = n]
        /\ cont = "ContinueToResponseStarted" => n = ResponseStarted(s)
        /\ cont = "ContinueToBeforeRedirect" => \E u \in Schemes : n = BeforeRedirect(s, u)
        /\ UNCHANGED <<live, callbacks, ctx, factoryVars>>
  BY DEF ContinueToResponseStarted, ContinueToBeforeRedirect
<1>2. /\ t.id \in live /\ t.cont = cont /\ s \in Request /\ RequestOK(t.id)
      /\ s.sent = "loading" /\ t.id \notin hookWait' /\ ~H!Outstanding(t.id)'
      /\ \A u \in tasks' : u.id # t.id
      /\ \A u \in tasks \cup tasks' : u.id # t.id => (u \in tasks' <=> u \in tasks)
      /\ UNCHANGED <<lastId, redirectUrl, hookWait>>
  BY <1>1, TakenTask
<1>3. \A i \in Ids \ {t.id} : Untouched(i)
  BY <1>1, <1>2 DEF Untouched
<1>4. req \in [Ids -> Request] /\ t.id \in Ids
  BY <1>2, LiveRequest
<1>5. /\ ~s.completed /\ ~s.writing /\ s.loader /\ s.receiver # "unbound" /\ s.aimed
      /\ s.owner \in Factories
  BY <1>1, <1>2 DEF RequestOK
<1>6. /\ n \in Request /\ n.owner = s.owner /\ n.loader /\ n.aimed /\ n.params = s.params
      /\ n.net = s.net /\ ~n.writing /\ n.receiver = "open"
      /\ n.completed <=> n.sent = "redirected"
      /\ \/ n.sent = "responded" /\ n.net \in {"responded", "lost"}
         \/ n.sent = "redirected" /\ n.net \in {"redirected", "lost"}
  <2>1. CASE cont = "ContinueToResponseStarted"
    <3>1. s.net \in {"responded", "lost"}
      BY <1>2, <2>1 DEF RequestOK
    <3> QED BY <1>1, <1>5, <2>1, <1>2, <3>1, ResponseStartedResult
  <2>2. CASE cont = "ContinueToBeforeRedirect"
    <3>1. s.net \in {"redirected", "lost"}
      BY <1>2, <2>2 DEF RequestOK
    <3>2. PICK u \in Schemes : n = BeforeRedirect(s, u)
      BY <1>1, <2>2
    <3> QED BY <1>5, <2>2, <1>2, <3>1, <3>2, BeforeRedirectResult
  <2> QED BY <1>1, <2>1, <2>2
<1>7. req' = [req EXCEPT ![t.id] = n] /\ req'[t.id] = n
  BY <1>1, <1>4
<1>8. s.params => n.net \in {"redirected", "lost"}
  BY <1>2, <1>5, <1>6 DEF RequestOK
<1>9. RequestOK(t.id)'
  BY <1>2, <1>5, <1>6, <1>7, <1>8 DEF RequestOK, C!InFlight, LoaderActive
<1> QED BY <1>1, <1>2, <1>3, <1>6, <1>7, <1>9, OwnStepKeepsInv

(* The continuation of the before-request hooks: it ends the request, or    *)
(* tells its client of a redirect or a mock response, or sends it.          *)
LEMMA SendTaskKeepsInv ==
    ASSUME IInv, H!HandlerInv', NEW t \in tasks, ContinueToBeforeSendHeaders(t)
    PROVE  RequestsInv'
<1> DEFINE s       == req[t.id]
           q       == Resumed(s)
           proceed == t.rv = "OK" /\ ~redirectUrl[t.id]
<1>1. TakeTask(t, "ContinueToBeforeSendHeaders")
  BY DEF ContinueToBeforeSendHeaders
<1>2. /\ t.id \in live /\ t.cont = "ContinueToBeforeSendHeaders"
      /\ s \in Request /\ RequestOK(t.id)
      /\ s.sent = "loading" /\ t.id \notin hookWait' /\ ~H!Outstanding(t.id)'
      /\ \A u \in tasks' : u.id # t.id
      /\ \A u \in tasks \cup tasks' : u.id # t.id => (u \in tasks' <=> u \in tasks)
      /\ UNCHANGED <<lastId, redirectUrl, hookWait>>
  BY <1>1, TakenTask
<1>3. /\ req \in [Ids -> Request] /\ t.id \in Ids /\ ctx \in [Ids -> H!RequestInfo]
  BY <1>2, LiveRequest
<1>4. /\ ~s.completed /\ ~s.writing /\ s.owner \in Factories /\ MaySend(s)
  BY <1>2 DEF RequestOK, MaySend
<1>5. /\ q \in Request /\ q.owner = s.owner /\ q.completed = s.completed
      /\ q.loader = s.loader /\ q.params = s.params /\ q.net = s.net /\ q.aimed = s.aimed
      /\ q.sent = s.sent /\ q.writing = s.writing
      /\ q.receiver = IF s.receiver = "unbound" THEN "unbound" ELSE "open"
  BY <1>2, ResumedResult
<1>6. ASSUME NEW n \in Request, n.owner = s.owner, req' = [req EXCEPT ![t.id] = n],
             UNCHANGED <<live, callbacks, factoryVars>>,
             \A i \in Ids \ {t.id} : ctx'[i] = ctx[i],
             req'[t.id] = n => RequestOK(t.id)'
      PROVE  RequestsInv'
  <2>1. \A i \in Ids \ {t.id} : Untouched(i)
    BY <1>2, <1>6 DEF Untouched
  <2>2. RequestOK(t.id)'
    BY <1>3, <1>6
  <2> QED BY <1>2, <1>6, <2>1, <2>2, OwnStepKeepsInv
<1>7. CASE UNCHANGED ctx /\ OnRequestError(t.id, s)
  BY <1>2, <1>7, ErrorKeepsInv
<1>8. CASE UNCHANGED ctx /\ OnRequestError(t.id, q)
  BY <1>2, <1>5, <1>8, ErrorKeepsInv
<1>9. ASSUME NEW u \in Schemes, req' = [req EXCEPT ![t.id] = InternalRedirect(s, u)],
             UNCHANGED <<live, callbacks, ctx, factoryVars>>
      PROVE  RequestsInv'
  <2> DEFINE n == InternalRedirect(s, u)
  <2>1. /\ n \in Request /\ n.owner = s.owner /\ ~n.loader /\ n.net = "none"
        /\ n.receiver = "unbound" /\ n.writing = s.writing /\ n.sent = "redirected" /\ n.completed
    BY <1>2, InternalRedirectResult
  <2>2. req' = [req EXCEPT ![t.id] = n]
    BY <1>9
  <2> HIDE DEF n
  <2>3. ASSUME req'[t.id] = n PROVE RequestOK(t.id)'
    BY <1>2, <1>4, <2>1, <2>3 DEF RequestOK, C!InFlight, LoaderActive
  <2> QED BY <1>6, <1>9, <2>1, <2>2, <2>3
<1>10. CASE /\ req' = [req EXCEPT ![t.id] = [q EXCEPT !.sent = "mocked", !.writing = TRUE]]
            /\ UNCHANGED <<live, callbacks, ctx, factoryVars>>
  <2> DEFINE n == [q EXCEPT !.sent = "mocked", !.writing = TRUE]
  <2> HIDE DEF q
  <2>1. /\ n \in Request /\ n.owner = q.owner /\ n.loader = q.loader /\ n.params = q.params
        /\ n.net = q.net /\ n.aimed = q.aimed /\ n.sent = "mocked" /\ n.writing
        /\ n.completed = q.completed /\ n.receiver = q.receiver
    BY <1>5 DEF Request, Sent
  <2>2. req' = [req EXCEPT ![t.id] = n]
    BY <1>10
  <2> HIDE DEF n
  <2>3. ASSUME req'[t.id] = n PROVE RequestOK(t.id)'
    BY <1>2, <1>4, <1>5, <2>1, <2>3 DEF RequestOK, MaySend, C!InFlight, LoaderActive
  <2> QED BY <1>5, <1>6, <1>10, <2>1, <2>2, <2>3
<1>11. CASE /\ IF s.scheme = "http" THEN H!MakeCTX(t.id) ELSE UNCHANGED ctx
            /\ req' = [req EXCEPT ![t.id] = SendToNetwork(q)]
            /\ UNCHANGED <<live, callbacks, factoryVars>>
  <2> DEFINE n == SendToNetwork(q)
  <2>1. MaySend(q)
    BY <1>4, <1>5 DEF MaySend
  <2> HIDE DEF q
  <2>2. /\ n \in Request /\ n.owner = q.owner /\ n.completed = q.completed
        /\ n.sent = q.sent /\ n.writing = q.writing /\ ~n.params /\ n.receiver # "paused"
        /\ n.loader <=> n.receiver # "unbound"
        /\ n.loader <=> n.net # "none"
        /\ n.loader => n.aimed
        /\ n.net \in {"none", "running", "lost"}
    BY <1>5, <2>1, SendToNetworkResult
  <2>3. req' = [req EXCEPT ![t.id] = n]
    BY <1>11
  <2> HIDE DEF n
  <2>4. ASSUME req'[t.id] = n PROVE RequestOK(t.id)'
    BY <1>2, <1>4, <1>5, <2>2, <2>4, SentIsOK
  <2>5. \A i \in Ids \ {t.id} : ctx'[i] = ctx[i]
    BY <1>3, <1>11 DEF H!MakeCTX
  <2> QED BY <1>5, <1>6, <1>11, <2>2, <2>3, <2>4, <2>5
<1> HIDE DEF s
<1>12. \/ UNCHANGED ctx /\ (OnRequestError(t.id, s) \/ OnRequestError(t.id, q))
       \/ \E u \in Schemes : /\ req' = [req EXCEPT ![t.id] = InternalRedirect(s, u)]
                             /\ UNCHANGED <<live, callbacks, ctx, factoryVars>>
       \/ /\ req' = [req EXCEPT ![t.id] = [q EXCEPT !.sent = "mocked", !.writing = TRUE]]
          /\ UNCHANGED <<live, callbacks, ctx, factoryVars>>
       \/ /\ IF s.scheme = "http" THEN H!MakeCTX(t.id) ELSE UNCHANGED ctx
          /\ req' = [req EXCEPT ![t.id] = SendToNetwork(q)]
          /\ UNCHANGED <<live, callbacks, factoryVars>>
  BY DEF ContinueToBeforeSendHeaders, s
<1> QED BY <1>7, <1>8, <1>9, <1>10, <1>11, <1>12

(* Steps that leave all requests alone.                                     *)
LEMMA NoRequestStep ==
    ASSUME IInv, H!HandlerInv', UNCHANGED <<live, lastId, hookWait, callbacks, ctx, req>>,
           tasks' \subseteq tasks, \A t \in tasks : t.id \in live => t \in tasks',
           FactoryTypeOK', FactoriesOK'
    PROVE  RequestsInv'
<1>1. EveryRequestOK
  BY RequestsInvByParts DEF IInv
<1>2. \A i \in live : RequestOK(i)'
  <2> SUFFICES ASSUME NEW i \in live PROVE RequestOK(i)'
    OBVIOUS
  <2>1. RequestOK(i)
    BY <1>1 DEF EveryRequestOK
  <2>2. Untouched(i)
    BY DEF Untouched
  <2> QED BY <2>1, <2>2, UntouchedStaysOK
<1>3. TypeOK'
  <2>1. H!TypeOK'
    BY DEF H!HandlerInv
  <2>2. req' \in [Ids' -> Request']
    BY <1>1 DEF EveryRequestOK, TypeOK, Ids, H!Ids, Request
  <2> QED BY <2>1, <2>2 DEF TypeOK, FactoryTypeOK
<1>4. EveryRequestOK'
  BY <1>1, <1>2, <1>3 DEF EveryRequestOK, Ids, H!Ids, C!InFlight
<1>5. (RequestsInv <=> EveryRequestOK)'
  BY RequestsInvByParts, PTL
<1> QED BY <1>4, <1>5

LEMMA TaskKeepsInv ==
    ASSUME IInv, H!HandlerInv', NEW t \in tasks, RunTask(t)
    PROVE  RequestsInv'
<1>1. CASE StaleTask(t)
  <2>1. /\ t.id \notin live /\ tasks' = tasks \ {t}
        /\ UNCHANGED <<live, lastId, callbacks, ctx, hookWait, req, factoryVars>>
    BY <1>1 DEF StaleTask
  <2>2. FactoryTypeOK' /\ FactoriesOK'
    <3>1. /\ live \subseteq live' /\ live' \ live = {}
          /\ \A i \in live : req'[i].owner = req[i].owner
      BY <2>1
    <3> QED BY <2>1, <3>1, FactoriesUntouched
  <2> QED BY <2>1, <2>2, NoRequestStep
<1> QED BY <1>1, SendTaskKeepsInv, HeadersTaskKeepsInv DEF RunTask

(* Factories that start, gain or lose pipes, or lose their network.         *)
LEMMA FactoryStepKeepsFactories ==
    ASSUME IInv, NEW f \in Factories, FactoryStep(f)
    PROVE  FactoryTypeOK' /\ FactoriesOK'
<1>1. TypeOK /\ FactoriesOK /\ \A i \in live : req[i].owner \in Factories
  BY RequestsInvByParts DEF IInv, EveryRequestOK, RequestOK
<1>2. live' = live /\ req' = req
  BY DEF FactoryStep, StartProxying, Clone, OnProxyBindingError, OnTargetFactoryError, handlerVars
<1>3. \A g \in Factories : RequestsOf(g)' = RequestsOf(g)
  BY <1>2 DEF RequestsOf
<1>4. /\ factory \in [Factories -> {"none", "alive", "deleted"}]
      /\ pipes \in [Factories -> 0..MaxPipes] /\ targetBound \subseteq Factories
      /\ MaxPipes \in Nat \ {0}
      /\ \A g \in Factories : pipes[g] > 0 <=> g \in targetBound
      /\ \A g \in targetBound : factory[g] = "alive"
      /\ \A g \in Factories : factory[g] = "alive" =>
            contextData = "live" /\ (g \in targetBound \/ RequestsOf(g) # {})
      /\ \A i \in live : factory[req[i].owner] = "alive" /\ contextData = "live"
  BY <1>1, FactoryAssumption
     DEF TypeOK, FactoriesOK, FactoryLivesWhileNeeded, CallsOnlyWithTarget, TargetsAreAlive
<1>5. ASSUME FactoryTypeOK',
             \A g \in Factories : factory'[g] = "alive" =>
                contextData' = "live" /\ (g \in targetBound' \/ RequestsOf(g) # {}),
             \A i \in live : factory'[req[i].owner] = "alive" /\ contextData' = "live",
             \A g \in Factories : pipes'[g] > 0 <=> g \in targetBound',
             \A g \in targetBound' : factory'[g] = "alive"
      PROVE  FactoryTypeOK' /\ FactoriesOK'
  BY <1>2, <1>3, <1>5
     DEF FactoriesOK, FactoryLivesWhileNeeded, CallsOnlyWithTarget, TargetsAreAlive
<1>6. CASE StartProxying(f)
  <2>1. /\ factory[f] = "none" /\ contextData' = "live" /\ factory' = [factory EXCEPT ![f] = "alive"]
        /\ pipes' = [pipes EXCEPT ![f] = 1] /\ targetBound' = targetBound \cup {f}
    BY <1>6 DEF StartProxying
  <2>2. FactoryTypeOK'
    BY <1>4, <2>1 DEF FactoryTypeOK
  <2>3. \A i \in live : req[i].owner # f
    BY <1>4, <2>1
  <2>4. \A g \in Factories : pipes'[g] > 0 <=> g \in targetBound'
    BY <1>4, <2>1
  <2> QED BY <1>1, <1>4, <1>5, <2>1, <2>2, <2>3, <2>4
<1>7. CASE Clone(f)
  <2>1. /\ pipes[f] \in 1..(MaxPipes - 1) /\ pipes' = [pipes EXCEPT ![f] = pipes[f] + 1]
        /\ UNCHANGED <<contextData, factory, targetBound>>
    BY <1>7 DEF Clone
  <2>2. pipes[f] + 1 \in 1..MaxPipes
    BY <1>4, <2>1
  <2>3. FactoryTypeOK'
    BY <1>1, <1>4, <2>1, <2>2 DEF FactoryTypeOK, TypeOK
  <2>4. \A g \in Factories : pipes'[g] > 0 <=> g \in targetBound'
    BY <1>4, <2>1, <2>2
  <2> QED BY <1>4, <1>5, <2>1, <2>3, <2>4
<1>8. ASSUME NEW n \in 0..MaxPipes, pipes' = [pipes EXCEPT ![f] = n],
             targetBound' = IF n = 0 THEN targetBound \ {f} ELSE targetBound,
             f \in targetBound, MaybeRemoveProxy(f, targetBound', RequestsOf(f)),
             contextData' = contextData
      PROVE  FactoryTypeOK' /\ FactoriesOK'
  <2>1. factory' = IF f \in targetBound' \/ RequestsOf(f) # {} THEN factory
                   ELSE [factory EXCEPT ![f] = "deleted"]
    BY <1>8 DEF MaybeRemoveProxy
  <2>2. FactoryTypeOK'
    BY <1>1, <1>4, <1>8, <2>1 DEF FactoryTypeOK, TypeOK
  <2>3. \A g \in Factories : pipes'[g] > 0 <=> g \in targetBound'
    BY <1>4, <1>8
  <2>4. \A g \in Factories \ {f} : factory'[g] = factory[g] /\ (g \in targetBound' <=> g \in targetBound)
    BY <1>4, <1>8, <2>1
  <2>5. \A g \in targetBound' : factory'[g] = "alive"
    BY <1>4, <1>8, <2>1
  <2>6. ASSUME NEW g \in Factories, factory'[g] = "alive"
        PROVE  contextData' = "live" /\ (g \in targetBound' \/ RequestsOf(g) # {})
    <3>1. CASE g = f
      BY <1>4, <1>8, <2>1, <2>6, <3>1
    <3>2. CASE g # f
      BY <1>4, <1>8, <2>4, <2>6, <3>2
    <3> QED BY <3>1, <3>2
  <2>7. ASSUME NEW i \in live
        PROVE  factory'[req[i].owner] = "alive" /\ contextData' = "live"
    <3>1. req[i].owner = f => RequestsOf(f) # {}
      BY DEF RequestsOf
    <3> QED BY <1>1, <1>4, <1>8, <2>1, <3>1
  <2> QED BY <1>5, <2>2, <2>3, <2>5, <2>6, <2>7
<1>9. CASE OnProxyBindingError(f)
  <2> DEFINE n == pipes[f] - 1
  <2>1. /\ pipes[f] > 0 /\ pipes' = [pipes EXCEPT ![f] = n]
        /\ targetBound' = IF pipes[f] = 1 THEN targetBound \ {f} ELSE targetBound
        /\ MaybeRemoveProxy(f, targetBound', RequestsOf(f)) /\ contextData' = contextData
    BY <1>9 DEF OnProxyBindingError
  <2>2. n \in 0..MaxPipes /\ (n = 0 <=> pipes[f] = 1) /\ f \in targetBound
    BY <1>4, <2>1
  <2> HIDE DEF n
  <2> QED BY <1>8, <2>1, <2>2
<1>10. CASE OnTargetFactoryError(f)
  <2>1. 0 \in 0..MaxPipes
    BY Bounds
  <2> QED BY <1>8, <1>10, <2>1 DEF OnTargetFactoryError
<1> QED BY <1>6, <1>7, <1>9, <1>10 DEF FactoryStep

LEMMA FactoryStepKeepsInv ==
    ASSUME IInv, H!HandlerInv', NEW f \in Factories, FactoryStep(f)
    PROVE  RequestsInv'
<1>1. UNCHANGED <<handlerVars, req>>
  BY DEF FactoryStep, StartProxying, Clone, OnProxyBindingError, OnTargetFactoryError
<1> QED BY <1>1, FactoryStepKeepsFactories, NoRequestStep DEF handlerVars

LEMMA ShutdownKeepsInv ==
    ASSUME IInv, H!HandlerInv', Shutdown
    PROVE  RequestsInv'
<1>1. EveryRequestOK /\ TypeOK
  BY RequestsInvByParts DEF IInv, EveryRequestOK
<1>2. live' = {} /\ lastId' = lastId
  BY DEF Shutdown, H!OnURLRequestDestroyed
<1> DEFINE closed(id) == [Destroyed(req[id]) EXCEPT !.sent = "closed"]
<1>3. req' = [id \in Ids |-> IF id \in live THEN closed(id) ELSE req[id]]
  BY DEF Shutdown
<1>4. \A id \in Ids : closed(id) \in Request /\ closed(id).sent = "closed"
  <2> SUFFICES ASSUME NEW id \in Ids PROVE closed(id) \in Request /\ closed(id).sent = "closed"
    OBVIOUS
  <2> DEFINE d == Destroyed(req[id])
  <2>1. d \in Request
    BY <1>1, DestroyedResult DEF TypeOK
  <2> HIDE DEF d
  <2>2. [d EXCEPT !.sent = "closed"] \in Request /\ [d EXCEPT !.sent = "closed"].sent = "closed"
    BY <2>1 DEF Request, Sent
  <2> QED BY <2>2 DEF d
<1> HIDE DEF closed
<1>5. req' \in [Ids -> Request]
  BY <1>1, <1>3, <1>4 DEF TypeOK
<1>6. \A id \in Ids : req'[id].sent = IF id \in live THEN "closed" ELSE req[id].sent
  BY <1>3, <1>4
<1>7. \A f \in Factories : factory'[f] # "alive" /\ pipes'[f] = 0
  BY DEF Shutdown
<1>8. targetBound' = {}
  BY DEF Shutdown
<1>9. TypeOK'
  <2>1. /\ contextData' \in {"none", "live", "destroyed"}
        /\ factory' \in [Factories -> {"none", "alive", "deleted"}]
    BY <1>1 DEF TypeOK, Shutdown
  <2>2. pipes' \in [Factories -> 0..MaxPipes]
    <3>1. 0 \in 0..MaxPipes
      BY Bounds
    <3> QED BY <3>1 DEF Shutdown
  <2> QED BY <1>5, <1>8, <2>1, <2>2 DEF TypeOK, H!HandlerInv, Ids, H!Ids, Request
<1>10. FactoriesOK'
  BY <1>2, <1>7, <1>8
     DEF FactoriesOK, FactoryLivesWhileNeeded, CallsOnlyWithTarget, TargetsAreAlive
<1>11. ASSUME NEW id \in Ids PROVE req'[id].sent \notin C!InFlight
  BY <1>1, <1>6 DEF EveryRequestOK, C!InFlight
<1>12. ASSUME NEW id \in Ids, id > lastId PROVE req'[id].sent = "none"
  <2>1. ~(id <= lastId)
    BY <1>1, <1>12 DEF TypeOK, H!TypeOK, Ids, H!Ids
  <2>2. id \notin live
    BY <2>1 DEF IInv, H!HandlerInv, H!FutureIdsUntouched
  <2> QED BY <1>1, <1>6, <1>12, <2>2 DEF EveryRequestOK
<1>13. EveryRequestOK'
  BY <1>2, <1>9, <1>10, <1>11, <1>12 DEF EveryRequestOK, Ids, H!Ids, C!InFlight
<1>14. (RequestsInv <=> EveryRequestOK)'
  BY RequestsInvByParts, PTL
<1> QED BY <1>13, <1>14

LEMMA NextKeepsInv == IInv /\ [Next]_vars => IInv'
<1> SUFFICES ASSUME IInv, [Next]_vars PROVE IInv'
  OBVIOUS
<1>1. H!HandlerInv'
  BY StepOfHandler, HandlerStepKeepsInv DEF IInv
<1> SUFFICES RequestsInv'
  BY <1>1 DEF IInv
<1>2. ASSUME NEW f \in Factories, NEW id \in Ids, NEW s \in Schemes, CreateLoaderAndStart(f, id, s)
      PROVE  RequestsInv'
  BY <1>1, <1>2, CreateKeepsInv
<1>3. ASSUME NEW id \in Ids,
             ClientStep(id) \/ HookAnswers(id) \/ OnWrite(id) \/ NetworkAnswers(id) \/ LoaderLost(id)
      PROVE  RequestsInv'
  BY <1>1, <1>3, FollowKeepsInv, LossKeepsInv, DisconnectKeepsInv, HookAnswersKeepsInv,
     WriteKeepsInv, NetworkKeepsInv DEF ClientStep
<1>4. ASSUME NEW t \in tasks, RunTask(t)
      PROVE  RequestsInv'
  BY <1>1, <1>4, TaskKeepsInv
<1>5. ASSUME NEW f \in Factories, FactoryStep(f)
      PROVE  RequestsInv'
  BY <1>1, <1>5, FactoryStepKeepsInv
<1>6. CASE Shutdown
  BY <1>1, <1>6, ShutdownKeepsInv
<1>7. CASE UNCHANGED vars
  <2>1. UNCHANGED <<handlerVars, req, factoryVars>>
    BY <1>7 DEF vars
  <2>2. FactoryTypeOK' /\ FactoriesOK'
    <3>1. /\ live \subseteq live' /\ live' \ live = {}
          /\ \A i \in live : req'[i].owner = req[i].owner
      BY <2>1 DEF handlerVars
    <3> QED BY <2>1, <3>1, FactoriesUntouched
  <2> QED BY <1>1, <2>1, <2>2, NoRequestStep DEF handlerVars
<1> QED BY <1>2, <1>3, <1>4, <1>5, <1>6, <1>7 DEF Next

LEMMA InitEstablishesInv == Init => IInv
<1> SUFFICES ASSUME Init PROVE IInv
  OBVIOUS
<1>1. H!HandlerInv /\ H!Init
  BY HandlerInitInv DEF Init
<1>2. live = {} /\ \A id \in Ids : req[id] = NoRequest
  BY DEF Init, H!Init
<1>3. NoRequest \in Request /\ NoRequest.sent = "none"
  <2>1. 0 \in 0..MaxRedirects
    BY Bounds
  <2> QED BY <2>1 DEF NoRequest, Request, LoaderStates, Sent
<1>4. TypeOK
  <2>1. 0 \in 0..MaxPipes
    BY Bounds
  <2> QED BY <1>1, <1>3, <2>1 DEF Init, H!HandlerInv, TypeOK
<1>5. FactoriesOK
  BY <1>2 DEF Init, FactoriesOK, FactoryLivesWhileNeeded, CallsOnlyWithTarget, TargetsAreAlive
<1>6. EveryRequestOK
  BY <1>2, <1>3, <1>4, <1>5 DEF EveryRequestOK, C!InFlight
<1> QED BY <1>1, <1>6, RequestsInvByParts DEF IInv

-----------------------------------------------------------------------------

LEMMA JointInvariant == Spec => []IInv
BY InitEstablishesInv, NextKeepsInv, PTL DEF Spec

(* The network's messages are held back exactly while a continuation of     *)
(* their request is with a hook or posted: RestartInternal and              *)
(* HandleResponseOrRedirectHeaders pause, and every continuation resumes.   *)
THEOREM MessagesWaitForContinuations == Spec => []PausedExactlyWhileWaiting
<1>1. IInv => PausedExactlyWhileWaiting
  BY DEF IInv, RequestsInv
<1> QED BY <1>1, JointInvariant, PTL

(* After a redirect by a hook no loader goes on with the old URL.           *)
THEOREM LoadersAreOnRequestURL == Spec => []LoaderFetchesRequestURL
<1>1. IInv => LoaderFetchesRequestURL
  BY DEF IInv, RequestsInv
<1> QED BY <1>1, JointInvariant, PTL

(* pending_follow_redirect_params_ are never kept for a loader that did not *)
(* ask for them.                                                            *)
THEOREM FollowedRedirectsAreExpected == Spec => []FollowMeetsWaitingLoader
<1>1. IInv => FollowMeetsWaitingLoader
  BY DEF IInv, RequestsInv
<1> QED BY <1>1, JointInvariant, PTL

(* The calls on target_client_ follow the network's messages one by one.    *)
THEOREM ClientIsToldTheTruth == Spec => []ClientSeesWhatNetworkSent
<1>1. IInv => ClientSeesWhatNetworkSent
  BY DEF IInv, RequestsInv
<1> QED BY <1>1, JointInvariant, PTL

(* MaybeRemoveProxy deletes a factory in time and never too early.          *)
THEOREM FactoriesLiveWhileNeeded == Spec => []FactoryLivesWhileNeeded
<1>1. IInv => FactoryLivesWhileNeeded
  BY DEF IInv, RequestsInv
<1> QED BY <1>1, JointInvariant, PTL

(* The factories implement the calling convention that DumbRequestHandler   *)
(* assumes of its callers, so its theorems hold of this composition.        *)
THEOREM FactoriesKeepHandlerConvention == Spec => HandlerSpec
<1>1. Init => H!Init
  BY DEF Init
<1> QED BY <1>1, JointInvariant, StepOfHandler, PTL DEF Spec, HandlerSpec, H!Spec

-----------------------------------------------------------------------------
(* What a step may do to the client's view of a request and to its loader.  *)

(* The moves of URLLoaderContract.                                          *)
MayBeTold(from, to) ==
    \/ from = to
    \/ from \in {"none", "redirected"} /\ to = "loading"
    \/ from = "loading" /\ to \in {"redirected", "responded", "mocked"}
    \/ from = "responded" /\ to = "body"
    \/ from \in {"body", "mocked"} /\ to = "ok"
    \/ from \in C!InFlight \ {"redirected"} /\ to = "failed"
    \/ from = "redirected" /\ to = "closed"

Vetted(id, scheme) ==
    \/ H!BeforeURLRequestReturnsOK(scheme = "internal")
    \/ /\ ctx[id].event = "kOnBeforeRequest"
       /\ ctx[id].index = NumURLHooks /\ ~ctx[id].refused
       /\ ctx[id].blocked = "kNotBlocked"
       /\ ~redirectUrl[id]

MayBecome(id, r) ==
    /\ req' = [req EXCEPT ![id] = r]
    /\ (contextData' = "destroyed") = (contextData = "destroyed")
    /\ MayBeTold(req[id].sent, r.sent)
    /\ contextData = "destroyed" => r.sent = req[id].sent
    /\ req[id].net # "running" /\ r.net = "running" => Vetted(id, r.scheme)

LEMMA RemovalMayHappen ==
    ASSUME IInv, NEW id \in live, NEW r \in Request, RemoveRequest(id, r),
           MayBeTold(req[id].sent, r.sent)
    PROVE  \E n \in Request : MayBecome(id, n)
<1>1. Destroyed(r) \in Request /\ Destroyed(r).sent = r.sent /\ Destroyed(r).net = "none"
  BY DestroyedResult
<1>2. contextData = "live" /\ contextData' = contextData
  BY LiveRequest DEF RemoveRequest, FactoriesOK, FactoryLivesWhileNeeded
<1>3. MayBecome(id, Destroyed(r))
  BY <1>1, <1>2 DEF MayBecome, RemoveRequest
<1> QED BY <1>1, <1>3

LEMMA ErrorMayHappen ==
    ASSUME IInv, NEW id \in live, NEW r \in Request, OnRequestError(id, r),
           r.completed = req[id].completed
    PROVE  \E n \in Request : MayBecome(id, n)
<1> DEFINE sent  == IF r.completed THEN "closed" ELSE "failed"
           ended == [r EXCEPT !.sent = sent]
<1>1. RequestOK(id)
  BY LiveRequest
<1>2. ended \in Request /\ ended.sent = sent
  BY DEF Request, Sent
<1>3. MayBeTold(req[id].sent, sent)
  BY <1>1 DEF RequestOK, MayBeTold
<1>4. RemoveRequest(id, ended)
  BY DEF OnRequestError
<1> HIDE DEF ended, sent
<1> QED BY <1>2, <1>3, <1>4, RemovalMayHappen

LEMMA RestartMayHappen ==
    ASSUME IInv, NEW id \in Ids, NEW r \in Request, RestartInternal(id, r), MaySend(r),
           contextData' = contextData, contextData # "destroyed",
           MayBeTold(req[id].sent, r.sent), r.net \in {"none", req[id].net}
    PROVE  \E n \in Request : MayBecome(id, n)
<1> DEFINE started  == [r EXCEPT !.completed = FALSE]
           internal == r.scheme = "internal"
           new      == IF H!BeforeURLRequestReturnsOK(internal) THEN SendToNetwork(started)
                       ELSE Paused(started)
<1>1. /\ started \in Request /\ MaySend(started) /\ started.sent = r.sent
      /\ started.net = r.net /\ started.scheme = r.scheme
  BY DEF Request, MaySend
<1>2. req' = [req EXCEPT ![id] = new]
  BY DEF RestartInternal
<1> HIDE DEF started
<1>3. new \in Request /\ new.sent = r.sent /\ new.scheme = r.scheme
  BY <1>1, PausedResult, SendToNetworkResult
<1>4. new.net = r.net \/ H!BeforeURLRequestReturnsOK(internal)
  BY <1>1, PausedResult
<1> HIDE DEF new
<1>5. MayBecome(id, new)
  BY <1>2, <1>3, <1>4 DEF MayBecome, Vetted
<1> QED BY <1>3, <1>5

LEMMA HeadersMayHappen ==
    ASSUME IInv, NEW id \in live, NEW cont, NEW r \in Request, NEW then \in Request,
           HandleResponseOrRedirectHeaders(id, cont, r, then), UNCHANGED factoryVars,
           r.sent = req[id].sent, MayBeTold(req[id].sent, then.sent),
           r.net # "running", then.net # "running"
    PROVE  \E n \in Request : MayBecome(id, n)
<1>1. Paused(r) \in Request /\ Paused(r).sent = r.sent /\ Paused(r).net = r.net
  BY PausedResult
<1>2. PICK n \in {then, Paused(r)} : req' = [req EXCEPT ![id] = n]
  BY DEF HandleResponseOrRedirectHeaders
<1>3. contextData = "live" /\ contextData' = contextData
  BY LiveRequest DEF FactoriesOK, FactoryLivesWhileNeeded, factoryVars
<1>4. MayBeTold(req[id].sent, r.sent)
  BY DEF MayBeTold
<1>5. MayBecome(id, n)
  BY <1>1, <1>2, <1>3, <1>4 DEF MayBecome
<1> QED BY <1>1, <1>2, <1>5

LEMMA NetworkMayHappen ==
    ASSUME IInv, NEW id \in Ids, NetworkAnswers(id)
    PROVE  \E n \in Request : MayBecome(id, n)
<1> DEFINE s == req[id]
<1>1. Delivered(id) /\ id \in live
  BY DEF NetworkAnswers, OnReceiveResponse, OnReceiveRedirect, OnStartLoadingResponseBody,
         OnComplete, Delivered
<1>2. /\ s \in Request /\ RequestOK(id) /\ req \in [Ids -> Request] /\ contextData = "live"
  BY <1>1, LiveRequest DEF FactoriesOK, FactoryLivesWhileNeeded
<1>3. CASE OnReceiveResponse(id)
  <2> DEFINE r    == [s EXCEPT !.net = "responded"]
             then == ResponseStarted(r)
  <2>1. /\ s.net = "running"
        /\ HandleResponseOrRedirectHeaders(id, "ContinueToResponseStarted", r, then)
        /\ UNCHANGED factoryVars
    BY <1>3 DEF OnReceiveResponse
  <2>2. s.net \in LoaderActive /\ s.sent # "mocked"
    BY <1>2, <2>1 DEF RequestOK, LoaderActive
  <2>3. s.sent = "loading"
    BY <1>1, <2>1, <2>2, DeliveredFacts
  <2>4. r \in Request /\ r.net = "responded" /\ r.sent = s.sent
    BY <1>2 DEF Request, LoaderStates, LoaderActive
  <2> HIDE DEF r
  <2>5. then \in Request /\ then.net = r.net /\ MayBeTold(s.sent, then.sent)
    BY <2>3, <2>4, ResponseStartedResult DEF MayBeTold
  <2> HIDE DEF then
  <2> QED BY <1>1, <2>1, <2>4, <2>5, HeadersMayHappen
<1>4. CASE OnReceiveRedirect(id)
  <2>0. PICK u \in Schemes :
               HandleResponseOrRedirectHeaders(id, "ContinueToBeforeRedirect",
                   [s EXCEPT !.net = "redirected"],
                   BeforeRedirect([s EXCEPT !.net = "redirected"], u))
    BY <1>4 DEF OnReceiveRedirect
  <2> DEFINE r    == [s EXCEPT !.net = "redirected"]
             then == BeforeRedirect(r, u)
  <2>1. /\ s.net = "running"
        /\ HandleResponseOrRedirectHeaders(id, "ContinueToBeforeRedirect", r, then)
        /\ UNCHANGED factoryVars
    BY <1>4, <2>0 DEF OnReceiveRedirect
  <2>2. s.net \in LoaderActive /\ s.sent # "mocked"
    BY <1>2, <2>1 DEF RequestOK, LoaderActive
  <2>3. s.sent = "loading"
    BY <1>1, <2>1, <2>2, DeliveredFacts
  <2>4. r \in Request /\ r.net = "redirected" /\ r.sent = s.sent
    BY <1>2 DEF Request, LoaderStates, LoaderActive
  <2> HIDE DEF r
  <2>5. then \in Request /\ then.net = r.net /\ MayBeTold(s.sent, then.sent)
    BY <2>0, <2>3, <2>4, BeforeRedirectResult DEF MayBeTold
  <2> HIDE DEF then
  <2> QED BY <1>1, <2>1, <2>4, <2>5, HeadersMayHappen
<1>5. CASE OnStartLoadingResponseBody(id)
  <2> DEFINE r == [s EXCEPT !.net = "body", !.sent = "body"]
  <2>1. s.net = "responded" /\ UNCHANGED factoryVars /\ req' = [req EXCEPT ![id] = r]
    BY <1>2, <1>5 DEF OnStartLoadingResponseBody
  <2>2. s.net \in LoaderActive /\ s.sent # "mocked"
    BY <1>2, <2>1 DEF RequestOK, LoaderActive
  <2>3. s.sent = "responded"
    BY <1>1, <2>1, <2>2, DeliveredFacts
  <2>4. r \in Request /\ r.net = "body" /\ r.sent = "body"
    BY <1>2 DEF Request, LoaderStates, LoaderActive, Sent
  <2> HIDE DEF r
  <2>5. MayBecome(id, r)
    BY <1>2, <2>1, <2>3, <2>4 DEF MayBecome, MayBeTold, factoryVars
  <2> QED BY <2>4, <2>5
<1>6. CASE OnComplete(id)
  <2>1. CASE s.net = "body" /\ RemoveRequest(id, [s EXCEPT !.sent = "ok"])
    <3> DEFINE r == [s EXCEPT !.sent = "ok"]
    <3>1. r \in Request /\ r.sent = "ok"
      BY <1>2 DEF Request, Sent
    <3>2. s.net \in LoaderActive /\ s.sent # "mocked"
      BY <1>2, <2>1 DEF RequestOK, LoaderActive
    <3>3. MayBeTold(s.sent, r.sent)
      BY <1>1, <2>1, <3>1, <3>2, DeliveredFacts DEF MayBeTold
    <3>4. RemoveRequest(id, r)
      BY <2>1
    <3> HIDE DEF r
    <3> QED BY <1>1, <3>1, <3>3, <3>4, RemovalMayHappen
  <2>2. CASE OnRequestError(id, s)
    BY <1>1, <1>2, <2>2, ErrorMayHappen
  <2> QED BY <1>6, <2>1, <2>2 DEF OnComplete
<1> QED BY <1>3, <1>4, <1>5, <1>6 DEF NetworkAnswers

LEMMA TaskMayHappen ==
    ASSUME IInv, NEW t \in tasks, RunTask(t), ~StaleTask(t)
    PROVE  \E n \in Request : MayBecome(t.id, n)
<1> DEFINE s == req[t.id]
           q == Resumed(s)
<1>1. PICK cont : TakeTask(t, cont)
  BY DEF RunTask, ContinueToBeforeSendHeaders, ContinueToResponseStarted,
         ContinueToBeforeRedirect
<1>2. /\ t.id \in live /\ s \in Request /\ RequestOK(t.id) /\ s.sent = "loading"
      /\ contextData = "live"
  BY <1>1, TakenTask, LiveRequest DEF FactoriesOK, FactoryLivesWhileNeeded
<1>3. /\ q \in Request /\ q.owner = s.owner /\ q.scheme = s.scheme /\ q.completed = s.completed
      /\ q.loader = s.loader /\ q.params = s.params /\ q.net = s.net /\ q.aimed = s.aimed
      /\ q.sent = s.sent /\ q.writing = s.writing
      /\ q.receiver = IF s.receiver = "unbound" THEN "unbound" ELSE "open"
  BY <1>2, ResumedResult
<1> HIDE DEF q
<1>4. ASSUME NEW n \in Request, req' = [req EXCEPT ![t.id] = n], UNCHANGED factoryVars,
             n.sent \in {"loading", "redirected", "responded", "mocked"},
             s.net # "running" /\ n.net = "running" => Vetted(t.id, n.scheme)
      PROVE  MayBecome(t.id, n)
  BY <1>2, <1>4 DEF MayBecome, MayBeTold, factoryVars
<1>5. CASE ContinueToResponseStarted(t)
  BY <1>2, <1>4, <1>5, ResponseStartedResult DEF ContinueToResponseStarted
<1>6. CASE ContinueToBeforeRedirect(t)
  <2>0. PICK u \in Schemes : req' = [req EXCEPT ![t.id] = BeforeRedirect(s, u)]
    BY <1>6 DEF ContinueToBeforeRedirect
  <2> QED BY <1>2, <1>4, <1>6, <2>0, BeforeRedirectResult DEF ContinueToBeforeRedirect
<1>7. CASE ContinueToBeforeSendHeaders(t)
  <2>1. CASE OnRequestError(t.id, s) \/ OnRequestError(t.id, q)
    BY <1>2, <1>3, <2>1, ErrorMayHappen
  <2>2. ASSUME NEW u \in Schemes, req' = [req EXCEPT ![t.id] = InternalRedirect(s, u)],
               UNCHANGED factoryVars
        PROVE  \E n \in Request : MayBecome(t.id, n)
    BY <1>2, <1>4, <2>2, InternalRedirectResult
  <2>3. CASE /\ req' = [req EXCEPT ![t.id] = [q EXCEPT !.sent = "mocked", !.writing = TRUE]]
             /\ UNCHANGED factoryVars
    <3> DEFINE n == [q EXCEPT !.sent = "mocked", !.writing = TRUE]
    <3>1. n \in Request /\ n.sent = "mocked" /\ n.net = s.net
      BY <1>3 DEF Request, Sent
    <3>2. req' = [req EXCEPT ![t.id] = n]
      BY <2>3
    <3> HIDE DEF n, s
    <3> QED BY <1>4, <2>3, <3>1, <3>2
  <2>4. CASE /\ t.rv = "OK" /\ ~redirectUrl[t.id] /\ ctx[t.id].blocked = "kNotBlocked"
             /\ req' = [req EXCEPT ![t.id] = SendToNetwork(q)] /\ UNCHANGED factoryVars
    <3> DEFINE n == SendToNetwork(q)
    <3>1. t.cont = "ContinueToBeforeSendHeaders"
      BY <1>7 DEF ContinueToBeforeSendHeaders, TakeTask
    <3>2. ctx[t.id].event = "kOnBeforeRequest" /\ MaySend(q)
      BY <1>2, <1>3, <3>1 DEF RequestOK, MaySend
    <3>3. ctx[t.id].index = NumURLHooks /\ ~ctx[t.id].refused
      BY <1>2, <2>4, <3>2 DEF IInv, H!HandlerInv, H!OKOnlyAfterEveryHook
    <3>4. n \in Request /\ n.sent = "loading"
      BY <1>2, <1>3, <3>2, SendToNetworkResult
    <3>5. Vetted(t.id, n.scheme)
      BY <2>4, <3>2, <3>3 DEF Vetted
    <3> HIDE DEF n
    <3> QED BY <1>4, <2>4, <3>4, <3>5 DEF n
  <2> HIDE DEF s
  <2>5. \/ OnRequestError(t.id, s) \/ OnRequestError(t.id, q)
        \/ \E u \in Schemes :
              req' = [req EXCEPT ![t.id] = InternalRedirect(s, u)] /\ UNCHANGED factoryVars
        \/ /\ req' = [req EXCEPT ![t.id] = [q EXCEPT !.sent = "mocked", !.writing = TRUE]]
           /\ UNCHANGED factoryVars
        \/ /\ t.rv = "OK" /\ ~redirectUrl[t.id] /\ ctx[t.id].blocked = "kNotBlocked"
           /\ req' = [req EXCEPT ![t.id] = SendToNetwork(q)] /\ UNCHANGED factoryVars
    BY <1>7 DEF ContinueToBeforeSendHeaders, s, q
  <2> QED BY <2>1, <2>2, <2>3, <2>4, <2>5
<1> QED BY <1>5, <1>6, <1>7 DEF RunTask

LEMMA WriteMayHappen ==
    ASSUME IInv, NEW id \in Ids, OnWrite(id)
    PROVE  \E n \in Request : MayBecome(id, n)
<1> DEFINE s == req[id]
<1>1. s \in Request /\ req \in [Ids -> Request] /\ s.writing
  BY DEF IInv, RequestsInv, TypeOK, OnWrite
<1>2. CASE id \in live /\ RemoveRequest(id, [s EXCEPT !.writing = FALSE, !.sent = "ok"])
  <2> DEFINE r == [s EXCEPT !.writing = FALSE, !.sent = "ok"]
  <2>1. r \in Request /\ r.sent = "ok"
    BY <1>1 DEF Request, Sent
  <2>2. MayBeTold(s.sent, r.sent)
    BY <1>1, <1>2, <2>1, LiveRequest DEF RequestOK, MayBeTold
  <2>3. RemoveRequest(id, r)
    BY <1>2
  <2> HIDE DEF r
  <2> QED BY <1>2, <2>1, <2>2, <2>3, RemovalMayHappen
<1>3. CASE req' = [req EXCEPT ![id].writing = FALSE] /\ UNCHANGED factoryVars
  <2> DEFINE r == [s EXCEPT !.writing = FALSE]
  <2>1. r \in Request /\ r.sent = s.sent /\ r.net = s.net /\ req' = [req EXCEPT ![id] = r]
    BY <1>1, <1>3 DEF Request
  <2> HIDE DEF r
  <2>2. MayBecome(id, r)
    BY <1>3, <2>1 DEF MayBecome, MayBeTold, factoryVars
  <2> QED BY <2>1, <2>2
<1> QED BY <1>2, <1>3 DEF OnWrite

LEMMA ClientMayAct ==
    ASSUME IInv, NEW id \in Ids, ClientStep(id) \/ LoaderLost(id)
    PROVE  \E n \in Request : MayBecome(id, n)
<1> DEFINE s == req[id]
<1>1. /\ id \in live
  BY DEF ClientStep, FollowRedirect, ClientGoesAway, OnClientDisconnect, LoaderLost
<1>2. /\ s \in Request /\ RequestOK(id) /\ req \in [Ids -> Request] /\ contextData = "live"
  BY <1>1, LiveRequest DEF FactoriesOK, FactoryLivesWhileNeeded
<1>3. CASE FollowRedirect(id)
  <2> DEFINE r == [s EXCEPT !.sent = "loading", !.follows = @ + 1, !.params = s.params \/ s.loader]
  <2>1. /\ s.sent = "redirected" /\ s.follows < MaxRedirects
        /\ RestartInternal(id, r) /\ UNCHANGED <<live, lastId, factoryVars>>
    BY <1>3 DEF FollowRedirect
  <2>2. r \in Request
    <3>1. s.follows + 1 \in 0..MaxRedirects
      <4>1. s.follows \in 0..MaxRedirects
        BY <1>2 DEF Request
      <4> QED BY <2>1, <4>1, Bounds
    <3>2. (s.params \/ s.loader) \in BOOLEAN
      BY <1>2 DEF Request
    <3> QED BY <1>2, <3>1, <3>2 DEF Request, Sent
  <2>3. r.net = s.net /\ r.sent = "loading"
    BY <1>2 DEF Request
  <2>4. MaySend(r)
    <3>1. /\ r.loader = s.loader /\ r.receiver = s.receiver /\ r.aimed = s.aimed
          /\ r.params = (s.params \/ s.loader)
      BY <1>2 DEF Request
    <3>2. ~H!Outstanding(id)
      BY <1>2, <2>1 DEF RequestOK
    <3>3. s.net \in {"none", "redirected", "lost"}
      BY <1>2, <2>1, <3>2 DEF RequestOK, Request, LoaderStates, LoaderActive
    <3> HIDE DEF r
    <3> QED BY <1>2, <2>3, <3>1, <3>3 DEF RequestOK, MaySend
  <2>5. MayBeTold(s.sent, r.sent)
    BY <2>1, <2>3 DEF MayBeTold
  <2> HIDE DEF r
  <2> QED BY <1>2, <2>1, <2>2, <2>3, <2>4, <2>5, RestartMayHappen DEF factoryVars
<1>4. ASSUME NEW n \in Request, req' = [req EXCEPT ![id] = n], UNCHANGED factoryVars,
             n.sent = s.sent, n.net = s.net \/ n.net = "lost"
      PROVE  MayBecome(id, n)
  BY <1>4 DEF MayBecome, MayBeTold, factoryVars
<1>5. CASE ClientGoesAway(id)
  <2> DEFINE r == [s EXCEPT !.gone = TRUE]
  <2>1. /\ r \in Request /\ r.sent = s.sent /\ r.net = s.net
        /\ req' = [req EXCEPT ![id] = r] /\ UNCHANGED factoryVars
    BY <1>2, <1>5 DEF Request, ClientGoesAway
  <2> HIDE DEF r
  <2> QED BY <1>4, <2>1
<1>6. CASE LoaderLost(id)
  <2> DEFINE r == [s EXCEPT !.net = "lost"]
  <2>1. /\ r \in Request /\ r.sent = s.sent /\ r.net = "lost"
        /\ req' = [req EXCEPT ![id] = r] /\ UNCHANGED factoryVars
    BY <1>2, <1>6 DEF Request, LoaderStates, LoaderLost
  <2> HIDE DEF r
  <2> QED BY <1>4, <2>1
<1>7. CASE OnClientDisconnect(id)
  BY <1>1, <1>2, <1>7, ErrorMayHappen DEF OnClientDisconnect
<1> QED BY <1>3, <1>5, <1>6, <1>7 DEF ClientStep

LEMMA IntroductionMayHappen ==
    ASSUME IInv, NEW f \in Factories, NEW id \in Ids, NEW s \in Schemes,
           CreateLoaderAndStart(f, id, s)
    PROVE  \E n \in Request : MayBecome(id, n)
<1> DEFINE r == [NoRequest EXCEPT !.owner = f, !.scheme = s, !.sent = "loading"]
<1>1. /\ pipes[f] > 0 /\ id = lastId + 1 /\ RestartInternal(id, r) /\ UNCHANGED factoryVars
  BY DEF CreateLoaderAndStart
<1>2. id > lastId
  <2>1. lastId \in Nat
    BY DEF IInv, RequestsInv, TypeOK, H!TypeOK
  <2> QED BY <1>1, <2>1
<1>3. req[id].sent = "none"
  BY <1>2 DEF IInv, RequestsInv, RequestsAreConsistent
<1>4. contextData = "live"
  BY <1>1 DEF IInv, RequestsInv, CallsOnlyWithTarget, TargetsAreAlive
<1>5. r \in Request /\ r.sent = "loading" /\ MaySend(r)
  <2>1. NoRequest \in Request
    <3>1. 0 \in 0..MaxRedirects
      BY Bounds
    <3> QED BY <3>1 DEF NoRequest, Request, LoaderStates, Sent
  <2> QED BY <2>1 DEF NoRequest, Request, Sent, MaySend
<1>6. r.net = "none" /\ MayBeTold(req[id].sent, r.sent)
  BY <1>3, <1>5 DEF NoRequest, MayBeTold
<1> HIDE DEF r
<1> QED BY <1>1, <1>4, <1>5, <1>6, RestartMayHappen DEF factoryVars

(* Every step but the end of the profile is a step of one request, or of    *)
(* none.                                                                    *)
LEMMA RequestStep ==
    ASSUME IInv, Next
    PROVE  \/ Shutdown
           \/ UNCHANGED req /\ (contextData' = "destroyed") = (contextData = "destroyed")
           \/ \E id \in Ids, n \in Request : MayBecome(id, n)
<1>1. ASSUME NEW id \in Ids, HookAnswers(id)
      PROVE  UNCHANGED <<req, contextData>>
  BY <1>1 DEF HookAnswers, factoryVars
<1>2. ASSUME NEW f \in Factories, FactoryStep(f)
      PROVE  UNCHANGED req /\ (contextData' = "destroyed") = (contextData = "destroyed")
  BY <1>2 DEF FactoryStep, StartProxying, Clone, OnProxyBindingError, OnTargetFactoryError
<1>3. ASSUME NEW t \in tasks, RunTask(t)
      PROVE  UNCHANGED <<req, contextData>> \/ \E id \in Ids, n \in Request : MayBecome(id, n)
  <2>1. t.id \in Ids
    BY DEF IInv, RequestsInv, TypeOK, H!TypeOK, H!Tasks, Ids
  <2>2. StaleTask(t) => UNCHANGED <<req, contextData>>
    BY DEF StaleTask, factoryVars
  <2> QED BY <1>3, <2>1, <2>2, TaskMayHappen
<1> QED BY <1>1, <1>2, <1>3, IntroductionMayHappen, ClientMayAct, WriteMayHappen,
           NetworkMayHappen DEF Next

LEMMA NextSendsVettedRequest == IInv /\ [Next]_vars => [SendsVettedRequest]_vars
<1> SUFFICES ASSUME IInv, Next PROVE SendsVettedRequest
  OBVIOUS
<1>1. req \in [Ids -> Request]
  BY DEF IInv, RequestsInv, TypeOK
<1> SUFFICES ASSUME NEW i \in Ids, req[i].net # "running", req'[i].net = "running"
             PROVE  Vetted(i, req'[i].scheme)
  BY DEF SendsVettedRequest, Vetted
<1>2. CASE Shutdown
  <2>1. req'[i] = IF i \in live THEN [Destroyed(req[i]) EXCEPT !.sent = "closed"] ELSE req[i]
    BY <1>2 DEF Shutdown
  <2>2. [Destroyed(req[i]) EXCEPT !.sent = "closed"].net = "none"
    <3> DEFINE d == Destroyed(req[i])
    <3>1. d \in Request /\ d.net = "none"
      BY <1>1, DestroyedResult
    <3> HIDE DEF d
    <3> QED BY <3>1 DEF Request, d
  <2> QED BY <2>1, <2>2
<1>3. ASSUME NEW id \in Ids, NEW n \in Request, MayBecome(id, n)
      PROVE  Vetted(i, req'[i].scheme)
  BY <1>1, <1>3 DEF MayBecome
<1> QED BY <1>2, <1>3, RequestStep

(* No URL reaches the network without the consent of every hook that has a  *)
(* say in it, however hooks, redirects, the network and the end of requests *)
(* interleave.                                                              *)
THEOREM NetworkRequestsAreVetted == Spec => NetworkSeesOnlyVettedRequests
BY JointInvariant, NextSendsVettedRequest, PTL DEF Spec, NetworkSeesOnlyVettedRequests

(* A step of the factories is one move of the protocol, or none.            *)
LEMMA StepOfContract == IInv /\ [Next]_vars => [C!ContractNext]_C!contractVars
<1> SUFFICES ASSUME IInv, [Next]_vars PROVE [C!ContractNext]_C!contractVars
  OBVIOUS
<1>1. req \in [Ids -> Request]
  BY DEF IInv, RequestsInv, TypeOK
<1>2. CASE UNCHANGED req /\ (contextData' = "destroyed") = (contextData = "destroyed")
  BY <1>2 DEF C!contractVars
<1>3. CASE UNCHANGED vars
  BY <1>2, <1>3 DEF vars, factoryVars
<1>4. CASE Shutdown
  <2>1. contextData = "live" /\ contextData' = "destroyed"
    BY <1>4 DEF Shutdown
  <2>2. \A id \in Ids : id \in live <=> req[id].sent \in C!InFlight
    BY LiveRequest DEF IInv, RequestsInv, RequestsAreConsistent
  <2>3. \A id \in Ids :
          req'[id].sent = IF req[id].sent \in C!InFlight THEN "closed" ELSE req[id].sent
    <3> SUFFICES ASSUME NEW id \in Ids
                 PROVE  req'[id].sent = IF id \in live THEN "closed" ELSE req[id].sent
      BY <2>2
    <3>1. req'[id] = IF id \in live THEN [Destroyed(req[id]) EXCEPT !.sent = "closed"] ELSE req[id]
      BY <1>4 DEF Shutdown
    <3>2. [Destroyed(req[id]) EXCEPT !.sent = "closed"].sent = "closed"
      <4> DEFINE d == Destroyed(req[id])
      <4>1. d \in Request
        BY <1>1, DestroyedResult
      <4> HIDE DEF d
      <4> QED BY <4>1 DEF Request, d
    <3> QED BY <3>1, <3>2
  <2>4. C!ShutDown
    BY <2>1, <2>3 DEF C!ShutDown
  <2> QED BY <2>4 DEF C!ContractNext
<1>5. ASSUME NEW id \in Ids, NEW n \in Request, MayBecome(id, n)
      PROVE  [C!ContractNext]_C!contractVars
  <2> DEFINE from == req[id].sent
  <2>1. /\ \A i \in Ids : req'[i].sent = IF i = id THEN n.sent ELSE req[i].sent
        /\ (contextData' = "destroyed") = (contextData = "destroyed")
        /\ MayBeTold(from, n.sent) /\ (contextData = "destroyed" => n.sent = from)
    BY <1>1, <1>5 DEF MayBecome
  <2>2. CASE n.sent = from
    BY <2>1, <2>2 DEF C!contractVars
  <2>3. ASSUME n.sent # from, NEW S, from \in S PROVE C!Tell(id, S, n.sent)
    BY <2>1, <2>3 DEF C!Tell
  <2>4. CASE n.sent # from
    <3>1. \/ C!Start(id) \/ C!Follow(id) \/ C!Redirect(id) \/ C!Respond(id) \/ C!Body(id)
          \/ C!Mock(id) \/ C!CompleteOK(id) \/ C!CompleteError(id) \/ C!Drop(id)
      BY <2>1, <2>3, <2>4
         DEF MayBeTold, C!Start, C!Follow, C!Redirect, C!Respond, C!Body, C!Mock, C!CompleteOK,
             C!CompleteError, C!Drop
    <3> QED BY <3>1 DEF C!ContractNext
  <2> QED BY <2>2, <2>4
<1> QED BY <1>2, <1>3, <1>4, <1>5, RequestStep

(* The factories implement the URLLoader protocol: a client sees its calls  *)
(* in order, at most one OnComplete, net::OK only after a body, and nothing *)
(* after the profile is gone.                                               *)
THEOREM FactoriesImplementContract == Spec => ContractSpec
<1>1. Init => C!ContractInit
  <2> SUFFICES ASSUME Init PROVE C!ContractInit
    OBVIOUS
  <2>1. \A id \in Ids : req[id].sent = "none"
    BY DEF Init, NoRequest
  <2>2. contextData # "destroyed"
    BY DEF Init
  <2> QED BY <2>1, <2>2 DEF C!ContractInit
<1> QED BY <1>1, JointInvariant, StepOfContract, PTL DEF Spec, ContractSpec, C!ContractSpec

-----------------------------------------------------------------------------
(* No request is forgotten.                                                *)

(* LoadersStartWhenTheyCan, for one request.                                *)
Driven(id) ==
    \/ req[id].loader
    \/ req[id].sent \notin {"loading", "responded", "body"}
    \/ req[id].sent = "loading" /\ (H!Outstanding(id) \/ req[id].owner \notin targetBound)

EveryRequestDriven == \A id \in live : Driven(id)

LEMMA DrivenByParts == EveryRequestDriven <=> LoadersStartWhenTheyCan
BY DEF EveryRequestDriven, Driven, LoadersStartWhenTheyCan

LEMMA RequestStaysDriven ==
    ASSUME IInv, EveryRequestDriven, NEW id \in Ids, NEW n, req' = [req EXCEPT ![id] = n],
           live' \subseteq live \cup {id}, targetBound' = targetBound,
           \A i \in Ids \ {id} : H!Outstanding(i) => H!Outstanding(i)',
           id \in live' =>
              \/ n.loader
              \/ n.sent \notin {"loading", "responded", "body"}
              \/ n.sent = "loading" /\ (H!Outstanding(id)' \/ n.owner \notin targetBound)
    PROVE  EveryRequestDriven'
<1>1. req \in [Ids -> Request] /\ live \subseteq Ids
  BY DEF IInv, RequestsInv, TypeOK, H!TypeOK, Ids, H!Ids
<1>2. req'[id] = n /\ \A i \in Ids \ {id} : req'[i] = req[i]
  BY <1>1
<1>3. ASSUME NEW i \in live' PROVE Driven(i)'
  <2>1. CASE i = id
    BY <1>2, <1>3, <2>1 DEF Driven
  <2>2. CASE i # id
    <3>1. i \in live /\ i \in Ids \ {id}
      BY <1>1, <1>3, <2>2
    <3>2. Driven(i)
      BY <3>1 DEF EveryRequestDriven
    <3> QED BY <1>2, <3>1, <3>2 DEF Driven
  <2> QED BY <2>1, <2>2
<1> QED BY <1>3 DEF EveryRequestDriven

(* A step that keeps what Driven speaks of.                                 *)
LEMMA SameRequestStaysDriven ==
    ASSUME IInv, EveryRequestDriven, NEW id \in live, NEW n, req' = [req EXCEPT ![id] = n],
           n.loader = req[id].loader, n.sent = req[id].sent, n.owner = req[id].owner,
           UNCHANGED <<live, targetBound, hookWait, tasks>>
    PROVE  EveryRequestDriven'
<1>1. id \in Ids /\ Driven(id)
  BY LiveRequest DEF EveryRequestDriven
<1>2. \A i \in Ids : H!Outstanding(i)' <=> H!Outstanding(i)
  BY DEF H!Outstanding
<1> QED BY <1>1, <1>2, RequestStaysDriven DEF Driven

LEMMA RemovalStaysDriven ==
    ASSUME IInv, EveryRequestDriven, NEW id \in live, NEW r, RemoveRequest(id, r),
           \A i \in Ids \ {id} : H!Outstanding(i) => H!Outstanding(i)'
    PROVE  EveryRequestDriven'
<1>1. id \in Ids
  BY LiveRequest
<1>2. /\ req' = [req EXCEPT ![id] = Destroyed(r)] /\ live' = live \ {id}
      /\ targetBound' = targetBound
  BY DEF RemoveRequest, H!OnURLRequestDestroyed
<1> QED BY <1>1, <1>2, RequestStaysDriven

(* A request that is sent to the network is, if there is a network.         *)
LEMMA SentIsDriven ==
    ASSUME NEW r \in Request
    PROVE  SendToNetwork(r).loader \/ SendToNetwork(r).owner \notin targetBound
<1>1. CASE r.loader
  <2> DEFINE p == Resumed(r)
  <2>1. p \in Request /\ p.loader
    BY <1>1, ResumedResult
  <2> HIDE DEF p
  <2>2. \A net : [p EXCEPT !.params = FALSE, !.net = net].loader
    BY <2>1 DEF Request
  <2> QED BY <1>1, <2>2 DEF SendToNetwork, p
<1>2. CASE ~r.loader
  BY <1>2 DEF SendToNetwork, Request
<1> QED BY <1>1, <1>2

(* The handler runs the continuation at once, or is left with it.           *)
LEMMA RestartStaysDriven ==
    ASSUME IInv, EveryRequestDriven, NEW id \in Ids, NEW r \in Request, RestartInternal(id, r),
           ~H!Outstanding(id), MaySend(r), r.sent = "loading",
           live' = live \cup {id}, targetBound' = targetBound
    PROVE  EveryRequestDriven'
<1> DEFINE started  == [r EXCEPT !.completed = FALSE]
           internal == r.scheme = "internal"
           cont     == "ContinueToBeforeSendHeaders"
<1>1. /\ req' = [req EXCEPT ![id] = IF H!BeforeURLRequestReturnsOK(internal)
                                    THEN SendToNetwork(started) ELSE Paused(started)]
      /\ H!OnBeforeURLRequest(id, cont, internal)
  BY DEF RestartInternal
<1>2. started \in Request /\ MaySend(started) /\ started.sent = "loading"
  BY DEF Request, MaySend
<1>3. id \notin hookWait /\ \A t \in tasks : t.id # id
  BY DEF H!Outstanding
<1> HIDE DEF started, internal, cont
<1>4. CASE H!BeforeURLRequestReturnsOK(internal)
  <2> DEFINE n == SendToNetwork(started)
  <2>1. n.sent = "loading" /\ (n.loader \/ n.owner \notin targetBound)
    BY <1>2, SendToNetworkResult, SentIsDriven
  <2>2. UNCHANGED <<hookWait, tasks>>
    BY <1>1, <1>4 DEF H!OnBeforeURLRequest
  <2>3. \A i \in Ids \ {id} : H!Outstanding(i) => H!Outstanding(i)'
    BY <2>2 DEF H!Outstanding
  <2>4. req' = [req EXCEPT ![id] = n]
    BY <1>1, <1>4
  <2> HIDE DEF n
  <2> QED BY <2>1, <2>3, <2>4, RequestStaysDriven
<1>5. CASE ~H!BeforeURLRequestReturnsOK(internal)
  <2> DEFINE n == Paused(started)
  <2>1. n.sent = "loading"
    BY <1>2, PausedResult
  <2>2. H!FreshCTX("kOnBeforeRequest") \in {c \in H!RequestInfo : c.event = "kOnBeforeRequest"}
    <3>1. 0 \in 0..NumURLHooks
      BY Bounds
    <3> QED BY <3>1 DEF H!FreshCTX, H!RequestInfo, H!Events, H!BlockedBy
  <2>3. hookWait \ {id} = hookWait
    BY <1>3
  <2>4. H!RunNextCallback(id, H!FreshCTX("kOnBeforeRequest"), cont, hookWait)
    BY <1>1, <1>5 DEF H!OnBeforeURLRequest
  <2>5. PICK c \in H!RequestInfo : /\ c.event = "kOnBeforeRequest"
                                  /\ H!RunNextCallback(id, c, cont, hookWait \ {id})
    BY <2>2, <2>3, <2>4
  <2>6. cont \in Continuations
    BY DEF Continuations, cont
  <2>7. H!Outstanding(id)' /\ \A i \in Ids \ {id} : Untouched(i)
    BY <1>3, <2>5, <2>6, RunNextCallbackEffect
  <2>8. \A i \in Ids \ {id} : H!Outstanding(i) => H!Outstanding(i)'
    BY <2>7 DEF H!Outstanding, Untouched
  <2>9. req' = [req EXCEPT ![id] = n]
    BY <1>1, <1>5
  <2> HIDE DEF n
  <2> QED BY <2>1, <2>7, <2>8, <2>9, RequestStaysDriven
<1> QED BY <1>4, <1>5

LEMMA CreateStaysDriven ==
    ASSUME IInv, EveryRequestDriven, NEW f \in Factories, NEW id \in Ids, NEW s \in Schemes,
           CreateLoaderAndStart(f, id, s)
    PROVE  EveryRequestDriven'
<1> DEFINE r == [NoRequest EXCEPT !.owner = f, !.scheme = s, !.sent = "loading"]
<1>1. /\ id = lastId + 1 /\ live' = live \cup {id}
      /\ RestartInternal(id, r) /\ targetBound' = targetBound
  BY DEF CreateLoaderAndStart, factoryVars
<1>2. lastId \in Nat
  BY DEF IInv, RequestsInv, TypeOK, H!TypeOK
<1>3. ~(id <= lastId)
  BY <1>1, <1>2
<1>4. ~H!Outstanding(id)
  BY <1>3 DEF IInv, H!HandlerInv, H!FutureIdsUntouched, H!Outstanding
<1>5. r \in Request
  <2>1. NoRequest \in Request
    <3>1. 0 \in 0..MaxRedirects
      BY Bounds
    <3> QED BY <3>1 DEF NoRequest, Request, LoaderStates, Sent
  <2> QED BY <2>1 DEF Request, Sent
<1>6. r.sent = "loading" /\ MaySend(r)
  BY DEF NoRequest, MaySend
<1> HIDE DEF r
<1> QED BY <1>1, <1>4, <1>5, <1>6, RestartStaysDriven

LEMMA ClientStaysDriven ==
    ASSUME IInv, EveryRequestDriven, NEW id \in Ids, ClientStep(id) \/ LoaderLost(id)
    PROVE  EveryRequestDriven'
<1> DEFINE s == req[id]
<1>1. id \in live
  BY DEF ClientStep, FollowRedirect, ClientGoesAway, OnClientDisconnect, LoaderLost
<1>2. s \in Request /\ RequestOK(id) /\ req \in [Ids -> Request]
  BY <1>1, LiveRequest
<1>3. CASE FollowRedirect(id)
  <2> DEFINE r == [s EXCEPT !.sent = "loading", !.follows = @ + 1, !.params = s.params \/ s.loader]
  <2>1. /\ s.sent = "redirected" /\ s.follows < MaxRedirects
        /\ RestartInternal(id, r) /\ live' = live /\ targetBound' = targetBound
    BY <1>3 DEF FollowRedirect, factoryVars
  <2>2. ~H!Outstanding(id)
    BY <1>2, <2>1 DEF RequestOK
  <2>3. r \in Request
    <3>1. s.follows + 1 \in 0..MaxRedirects
      <4>1. s.follows \in 0..MaxRedirects
        BY <1>2 DEF Request
      <4> QED BY <2>1, <4>1, Bounds
    <3>2. (s.params \/ s.loader) \in BOOLEAN
      BY <1>2 DEF Request
    <3> QED BY <1>2, <3>1, <3>2 DEF Request, Sent
  <2>4. r.sent = "loading" /\ MaySend(r)
    <3>1. /\ r.sent = "loading" /\ r.loader = s.loader /\ r.receiver = s.receiver
          /\ r.net = s.net /\ r.aimed = s.aimed /\ r.params = (s.params \/ s.loader)
      BY <1>2 DEF Request
    <3>2. s.net \in {"none", "redirected", "lost"}
      BY <1>2, <2>1, <2>2 DEF RequestOK, Request, LoaderStates, LoaderActive
    <3> HIDE DEF r
    <3> QED BY <1>2, <3>1, <3>2 DEF RequestOK, MaySend
  <2> HIDE DEF r
  <2> QED BY <1>1, <2>1, <2>2, <2>3, <2>4, RestartStaysDriven
<1>4. ASSUME NEW n, req' = [req EXCEPT ![id] = n], UNCHANGED <<handlerVars, factoryVars>>,
             n.loader = s.loader, n.sent = s.sent, n.owner = s.owner
      PROVE  EveryRequestDriven'
  BY <1>1, <1>4, SameRequestStaysDriven DEF handlerVars, factoryVars
<1>5. CASE ClientGoesAway(id)
  <2> DEFINE n == [s EXCEPT !.gone = TRUE]
  <2>1. /\ n.loader = s.loader /\ n.sent = s.sent /\ n.owner = s.owner
        /\ req' = [req EXCEPT ![id] = n]
    BY <1>2, <1>5 DEF Request, ClientGoesAway
  <2> HIDE DEF n
  <2> QED BY <1>4, <1>5, <2>1 DEF ClientGoesAway
<1>6. CASE LoaderLost(id)
  <2> DEFINE n == [s EXCEPT !.net = "lost"]
  <2>1. /\ n.loader = s.loader /\ n.sent = s.sent /\ n.owner = s.owner
        /\ req' = [req EXCEPT ![id] = n]
    BY <1>2, <1>6 DEF Request, LoaderLost
  <2> HIDE DEF n
  <2> QED BY <1>4, <1>6, <2>1 DEF LoaderLost
<1>7. CASE OnClientDisconnect(id)
  <2>1. \A i \in Ids \ {id} : H!Outstanding(i) => H!Outstanding(i)'
    BY <1>7 DEF OnClientDisconnect, H!Outstanding
  <2> QED BY <1>1, <1>7, <2>1, RemovalStaysDriven DEF OnClientDisconnect, OnRequestError
<1> QED BY <1>3, <1>5, <1>6, <1>7 DEF ClientStep

LEMMA HookAnswersStaysDriven ==
    ASSUME IInv, EveryRequestDriven, NEW id \in Ids, HookAnswers(id)
    PROVE  EveryRequestDriven'
<1>1. /\ id \in hookWait /\ H!HookAnswers(id)
      /\ UNCHANGED <<live, req, targetBound>> /\ req \in [Ids -> Request]
  BY DEF HookAnswers, H!HookAnswers, factoryVars, IInv, RequestsInv, TypeOK
<1>2. req' = [req EXCEPT ![id] = req[id]]
  BY <1>1
<1>3. CASE callbacks[id] = H!NoCallback
  <2>1. hookWait' = hookWait \ {id} /\ tasks' = tasks
    BY <1>1, <1>3 DEF H!HookAnswers
  <2>2. \A i \in Ids \ {id} : H!Outstanding(i) => H!Outstanding(i)'
    BY <2>1 DEF H!Outstanding
  <2>3. id \notin live
    BY <1>1, <1>3, ContinuationsFit
       DEF IInv, H!HandlerInv, H!PendingHookHasCallback, HP!HandlerAssumption, HP!NoCallback,
           H!NoCallback
  <2> QED BY <1>1, <1>2, <2>2, <2>3, RequestStaysDriven
<1>4. CASE callbacks[id] # H!NoCallback
  <2>1. id \in live
    BY <1>4 DEF IInv, H!HandlerInv, H!CallbacksOwnedByLiveRequests, Ids
  <2>2. /\ callbacks[id] \in Continuations /\ ctx[id] \in H!RequestInfo
        /\ ctx[id].event = "kOnBeforeRequest" /\ \A t \in tasks : t.id # id
    BY <1>1, <2>1, LiveRequest DEF IInv, H!HandlerInv, H!PendingHookHasCallback,
                                   H!AtMostOneContinuation
  <2>3. H!RunNextCallback(id, ctx[id], callbacks[id], hookWait \ {id})
    BY <1>1, <1>4 DEF H!HookAnswers
  <2>4. H!Outstanding(id)' /\ \A i \in Ids \ {id} : Untouched(i)
    BY <2>2, <2>3, RunNextCallbackEffect
  <2>5. \A i \in Ids \ {id} : H!Outstanding(i) => H!Outstanding(i)'
    BY <2>4 DEF H!Outstanding, Untouched
  <2>6. req[id].sent = "loading"
    BY <1>1, <2>1, LiveRequest DEF RequestOK, H!Outstanding
  <2> QED BY <1>1, <1>2, <2>4, <2>5, <2>6, RequestStaysDriven
<1> QED BY <1>3, <1>4

LEMMA HeadersStayDriven ==
    ASSUME IInv, EveryRequestDriven, NEW id \in live, NEW r \in Request, NEW then,
           NEW cont \in Continuations, ~H!Outstanding(id),
           HandleResponseOrRedirectHeaders(id, cont, r, then),
           UNCHANGED <<live, targetBound>>, r.loader, then.loader
    PROVE  EveryRequestDriven'
<1>1. Paused(r).loader /\ id \in Ids
  BY PausedResult, LiveRequest
<1>2. \E n \in {Paused(r), then} : req' = [req EXCEPT ![id] = n]
  BY DEF HandleResponseOrRedirectHeaders
<1>3. hookWait' = hookWait /\ tasks \subseteq tasks'
  BY DEF HandleResponseOrRedirectHeaders, H!OnHeadersReceived,
         H!RunCallbackForRequestIdentifier
<1>4. \A i \in Ids \ {id} : H!Outstanding(i) => H!Outstanding(i)'
  BY <1>3 DEF H!Outstanding
<1> QED BY <1>1, <1>2, <1>4, RequestStaysDriven

LEMMA NetworkStaysDriven ==
    ASSUME IInv, EveryRequestDriven, NEW id \in Ids, NetworkAnswers(id)
    PROVE  EveryRequestDriven'
<1>1. /\ id \in live /\ req[id] \in Request /\ RequestOK(id) /\ req[id].receiver = "open"
      /\ req \in [Ids -> Request]
  BY LiveRequest DEF NetworkAnswers, OnReceiveResponse, OnReceiveRedirect,
                     OnStartLoadingResponseBody, OnComplete, Delivered
<1>2. req[id].loader /\ ~H!Outstanding(id)
  BY <1>1 DEF RequestOK
<1>3. CASE OnReceiveResponse(id)
  <2> DEFINE r == [req[id] EXCEPT !.net = "responded"]
             n == ResponseStarted(r)
  <2>1. /\ HandleResponseOrRedirectHeaders(id, "ContinueToResponseStarted", r, n)
        /\ UNCHANGED <<live, targetBound>>
    BY <1>3 DEF OnReceiveResponse, factoryVars
  <2>2. r \in Request /\ r.loader
    BY <1>1, <1>2 DEF Request, LoaderStates, LoaderActive
  <2> HIDE DEF r
  <2>3. n.loader
    BY <2>2, ResponseStartedResult
  <2> HIDE DEF n
  <2>4. "ContinueToResponseStarted" \in Continuations
    BY DEF Continuations
  <2> QED BY <1>1, <1>2, <2>1, <2>2, <2>3, <2>4, HeadersStayDriven
<1>4. CASE OnReceiveRedirect(id)
  <2>0. PICK u \in Schemes :
               HandleResponseOrRedirectHeaders(id, "ContinueToBeforeRedirect",
                   [req[id] EXCEPT !.net = "redirected"],
                   BeforeRedirect([req[id] EXCEPT !.net = "redirected"], u))
    BY <1>4 DEF OnReceiveRedirect
  <2> DEFINE r == [req[id] EXCEPT !.net = "redirected"]
             n == BeforeRedirect(r, u)
  <2>1. /\ HandleResponseOrRedirectHeaders(id, "ContinueToBeforeRedirect", r, n)
        /\ UNCHANGED <<live, targetBound>>
    BY <1>4, <2>0 DEF OnReceiveRedirect, factoryVars
  <2>2. r \in Request /\ r.loader
    BY <1>1, <1>2 DEF Request, LoaderStates, LoaderActive
  <2> HIDE DEF r
  <2>3. n.loader
    BY <2>0, <2>2, BeforeRedirectResult
  <2> HIDE DEF n
  <2>4. "ContinueToBeforeRedirect" \in Continuations
    BY DEF Continuations
  <2> QED BY <1>1, <1>2, <2>1, <2>2, <2>3, <2>4, HeadersStayDriven
<1>5. CASE OnStartLoadingResponseBody(id)
  <2> DEFINE n == [req[id] EXCEPT !.net = "body", !.sent = "body"]
  <2>1. /\ req' = [req EXCEPT ![id] = n]
        /\ UNCHANGED <<live, hookWait, tasks, targetBound>>
    BY <1>1, <1>5 DEF OnStartLoadingResponseBody, handlerVars, factoryVars, Request
  <2>2. n.loader
    BY <1>1, <1>2 DEF Request
  <2>3. \A i \in Ids \ {id} : H!Outstanding(i) => H!Outstanding(i)'
    BY <2>1 DEF H!Outstanding
  <2> HIDE DEF n
  <2> QED BY <2>1, <2>2, <2>3, RequestStaysDriven
<1>6. CASE OnComplete(id)
  <2>1. \A i \in Ids \ {id} : H!Outstanding(i) => H!Outstanding(i)'
    BY <1>6 DEF OnComplete, H!Outstanding
  <2>2. \E r : RemoveRequest(id, r)
    BY <1>6 DEF OnComplete, OnRequestError
  <2> QED BY <1>1, <2>1, <2>2, RemovalStaysDriven
<1> QED BY <1>3, <1>4, <1>5, <1>6 DEF NetworkAnswers

LEMMA TaskStaysDriven ==
    ASSUME IInv, EveryRequestDriven, NEW t \in tasks, RunTask(t)
    PROVE  EveryRequestDriven'
<1> DEFINE id == t.id
           s  == req[id]
           q  == Resumed(s)
<1>1. CASE StaleTask(t)
  <2>1. id \notin live /\ UNCHANGED <<live, req, targetBound, hookWait>> /\ tasks' = tasks \ {t}
    BY <1>1 DEF StaleTask, factoryVars
  <2>2. ASSUME NEW i \in live PROVE Driven(i)'
    <3>1. Driven(i)
      BY DEF EveryRequestDriven
    <3>2. H!Outstanding(i) => H!Outstanding(i)'
      BY <2>1 DEF H!Outstanding
    <3> QED BY <2>1, <3>1, <3>2 DEF Driven
  <2> QED BY <2>1, <2>2 DEF EveryRequestDriven
<1>2. ASSUME NEW cont, TakeTask(t, cont)
      PROVE  /\ id \in live /\ id \in Ids /\ s \in Request /\ RequestOK(id)
             /\ s.sent = "loading" /\ t.cont = cont
             /\ \A i \in Ids \ {id} : H!Outstanding(i) => H!Outstanding(i)'
  <2>1. /\ id \in live /\ s \in Request /\ RequestOK(id) /\ s.sent = "loading" /\ t.cont = cont
        /\ hookWait' = hookWait
        /\ \A u \in tasks \cup tasks' : u.id # id => (u \in tasks' <=> u \in tasks)
    BY <1>2, TakenTask
  <2>2. \A i \in Ids \ {id} : H!Outstanding(i) => H!Outstanding(i)'
    BY <2>1 DEF H!Outstanding
  <2> QED BY <2>1, <2>2, LiveRequest
<1>3. ASSUME NEW n, req' = [req EXCEPT ![id] = n], UNCHANGED <<live, factoryVars>>,
             \E cont : TakeTask(t, cont),
             \/ n.loader
             \/ n.sent \notin {"loading", "responded", "body"}
             \/ n.sent = "loading" /\ n.owner \notin targetBound
      PROVE  EveryRequestDriven'
  BY <1>2, <1>3, RequestStaysDriven DEF factoryVars
<1>4. CASE ContinueToResponseStarted(t)
  <2> DEFINE n == ResponseStarted(s)
  <2>1. /\ TakeTask(t, "ContinueToResponseStarted") /\ req' = [req EXCEPT ![id] = n]
        /\ UNCHANGED <<live, factoryVars>>
    BY <1>4 DEF ContinueToResponseStarted
  <2>2. s \in Request /\ RequestOK(id) /\ t.cont = "ContinueToResponseStarted"
    BY <1>2, <2>1
  <2>3. s.loader
    BY <2>2 DEF RequestOK
  <2>4. n.loader
    BY <2>2, <2>3, ResponseStartedResult
  <2> HIDE DEF n
  <2> QED BY <1>3, <2>1, <2>4
<1>5. CASE ContinueToBeforeRedirect(t)
  <2>0. PICK u \in Schemes : req' = [req EXCEPT ![id] = BeforeRedirect(s, u)]
    BY <1>5 DEF ContinueToBeforeRedirect
  <2> DEFINE n == BeforeRedirect(s, u)
  <2>1. /\ TakeTask(t, "ContinueToBeforeRedirect") /\ req' = [req EXCEPT ![id] = n]
        /\ UNCHANGED <<live, factoryVars>>
    BY <1>5, <2>0 DEF ContinueToBeforeRedirect
  <2>2. s \in Request
    BY <1>2, <2>1
  <2>3. n.sent = "redirected"
    BY <2>0, <2>2, BeforeRedirectResult
  <2> HIDE DEF n
  <2> QED BY <1>3, <2>1, <2>3
<1>6. CASE ContinueToBeforeSendHeaders(t)
  <2>1. TakeTask(t, "ContinueToBeforeSendHeaders")
    BY <1>6 DEF ContinueToBeforeSendHeaders
  <2>2. /\ id \in live /\ s \in Request /\ s.sent = "loading"
        /\ \A i \in Ids \ {id} : H!Outstanding(i) => H!Outstanding(i)'
    BY <1>2, <2>1
  <2>3. q \in Request /\ q.sent = "loading"
    BY <2>2, ResumedResult
  <2>4. ASSUME NEW r, OnRequestError(id, r) PROVE EveryRequestDriven'
    BY <2>2, <2>4, RemovalStaysDriven DEF OnRequestError
  <2>5. ASSUME NEW u \in Schemes, req' = [req EXCEPT ![id] = InternalRedirect(s, u)],
               UNCHANGED <<live, factoryVars>>
        PROVE  EveryRequestDriven'
    <3> DEFINE n == InternalRedirect(s, u)
    <3>1. n.sent = "redirected" /\ req' = [req EXCEPT ![id] = n]
      BY <2>2, <2>5, InternalRedirectResult
    <3> HIDE DEF n
    <3> QED BY <1>3, <2>1, <2>5, <3>1
  <2>6. ASSUME req' = [req EXCEPT ![id] = [q EXCEPT !.sent = "mocked", !.writing = TRUE]],
               UNCHANGED <<live, factoryVars>>
        PROVE  EveryRequestDriven'
    <3> DEFINE n == [q EXCEPT !.sent = "mocked", !.writing = TRUE]
    <3> HIDE DEF q
    <3>1. n.sent = "mocked" /\ req' = [req EXCEPT ![id] = n]
      BY <2>3, <2>6 DEF Request
    <3> HIDE DEF n
    <3> QED BY <1>3, <2>1, <2>6, <3>1
  <2>7. ASSUME req' = [req EXCEPT ![id] = SendToNetwork(q)], UNCHANGED <<live, factoryVars>>
        PROVE  EveryRequestDriven'
    <3> DEFINE n == SendToNetwork(q)
    <3>1. MaySend(q)
      <4>1. RequestOK(id) /\ t.cont = "ContinueToBeforeSendHeaders"
        BY <1>2, <2>1
      <4>2. MaySend(s)
        BY <4>1 DEF RequestOK, MaySend
      <4> QED BY <2>2, <4>2, ResumedResult DEF MaySend
    <3> HIDE DEF q
    <3>2. n.sent = "loading" /\ (n.loader \/ n.owner \notin targetBound)
      BY <2>3, <3>1, SendToNetworkResult, SentIsDriven
    <3>3. req' = [req EXCEPT ![id] = n]
      BY <2>7
    <3> HIDE DEF n
    <3> QED BY <1>3, <2>1, <2>7, <3>2, <3>3
  <2> HIDE DEF q, s
  <2>8. \/ OnRequestError(id, s) \/ OnRequestError(id, q)
        \/ /\ UNCHANGED <<live, factoryVars>>
           /\ \/ \E u \in Schemes : req' = [req EXCEPT ![id] = InternalRedirect(s, u)]
              \/ req' = [req EXCEPT ![id] = [q EXCEPT !.sent = "mocked", !.writing = TRUE]]
              \/ req' = [req EXCEPT ![id] = SendToNetwork(q)]
    BY <1>6 DEF ContinueToBeforeSendHeaders, q, s
  <2> QED BY <2>4, <2>5, <2>6, <2>7, <2>8
<1> QED BY <1>1, <1>4, <1>5, <1>6 DEF RunTask

(* A new factory has no requests, and no other gains a network.             *)
LEMMA FactoryStepStaysDriven ==
    ASSUME IInv, EveryRequestDriven, NEW f \in Factories, FactoryStep(f)
    PROVE  EveryRequestDriven'
<1>1. UNCHANGED <<live, req, hookWait, tasks>>
  BY DEF FactoryStep, StartProxying, Clone, OnProxyBindingError, OnTargetFactoryError,
         handlerVars
<1>2. targetBound' \subseteq targetBound \cup {f}
      /\ (targetBound' \subseteq targetBound \/ factory[f] = "none")
  BY DEF FactoryStep, StartProxying, Clone, OnProxyBindingError, OnTargetFactoryError
<1>3. ASSUME NEW i \in live PROVE Driven(i)'
  <2>1. Driven(i) /\ factory[req[i].owner] = "alive"
    BY LiveRequest DEF EveryRequestDriven, FactoriesOK, FactoryLivesWhileNeeded
  <2>2. req[i].owner \notin targetBound => req[i].owner \notin targetBound'
    BY <1>2, <2>1
  <2>3. H!Outstanding(i)' <=> H!Outstanding(i)
    BY <1>1 DEF H!Outstanding
  <2> QED BY <1>1, <2>1, <2>2, <2>3 DEF Driven
<1> QED BY <1>1, <1>3 DEF EveryRequestDriven

LEMMA WriteStaysDriven ==
    ASSUME IInv, EveryRequestDriven, NEW id \in Ids, OnWrite(id)
    PROVE  EveryRequestDriven'
<1>1. UNCHANGED <<hookWait, tasks>> /\ req \in [Ids -> Request]
  BY DEF OnWrite, IInv, RequestsInv, TypeOK
<1>2. \A i \in Ids : H!Outstanding(i)' <=> H!Outstanding(i)
  BY <1>1 DEF H!Outstanding
<1>3. ASSUME id \in live, NEW r, RemoveRequest(id, r) PROVE EveryRequestDriven'
  BY <1>2, <1>3, RemovalStaysDriven
<1>4. ASSUME req' = [req EXCEPT ![id].writing = FALSE], live' = live, UNCHANGED factoryVars
      PROVE  EveryRequestDriven'
  <2> DEFINE n == [req[id] EXCEPT !.writing = FALSE]
  <2>1. req' = [req EXCEPT ![id] = n]
    BY <1>1, <1>4
  <2>2. n.loader = req[id].loader /\ n.sent = req[id].sent /\ n.owner = req[id].owner
    BY <1>1 DEF Request
  <2>3. id \in live => Driven(id)
    BY DEF EveryRequestDriven
  <2> HIDE DEF n
  <2> QED BY <1>2, <1>4, <2>1, <2>2, <2>3, RequestStaysDriven DEF Driven, factoryVars
<1> QED BY <1>3, <1>4 DEF OnWrite

LEMMA NextStaysDriven == IInv /\ EveryRequestDriven /\ [Next]_vars => EveryRequestDriven'
<1> SUFFICES ASSUME IInv, EveryRequestDriven, [Next]_vars PROVE EveryRequestDriven'
  OBVIOUS
<1>1. CASE Shutdown
  <2>1. live' = {}
    BY <1>1 DEF Shutdown, H!OnURLRequestDestroyed
  <2> QED BY <2>1 DEF EveryRequestDriven
<1>2. CASE UNCHANGED vars
  BY <1>2 DEF vars, handlerVars, factoryVars, EveryRequestDriven, Driven, H!Outstanding
<1> QED BY <1>1, <1>2, CreateStaysDriven, ClientStaysDriven, HookAnswersStaysDriven,
           NetworkStaysDriven, TaskStaysDriven, FactoryStepStaysDriven, WriteStaysDriven DEF Next

LEMMA DrivenInvariant == Spec => []LoadersStartWhenTheyCan
<1>1. Init => EveryRequestDriven
  BY DEF Init, H!Init, EveryRequestDriven
<1>2. EveryRequestDriven => LoadersStartWhenTheyCan
  BY DrivenByParts
<1> QED BY <1>1, <1>2, NextStaysDriven, JointInvariant, PTL DEF Spec

(* While a request lives, and the code has not abandoned it, somebody owes  *)
(* it a step: this is what EveryRequestEnds needs besides fairness.         *)
THEOREM RequestsAreNotForgotten == Spec => []NoRequestIsForgotten
<1>1. ASSUME IInv, LoadersStartWhenTheyCan, NEW id \in live
      PROVE  \/ H!Outstanding(id)
             \/ req[id].sent = "redirected"
             \/ Delivered(id) /\ req[id].net \in {"running", "responded", "body"}
             \/ req[id].writing
             \/ Abandoned(id)
  <2> SUFFICES ASSUME ~H!Outstanding(id), req[id].sent # "redirected", ~req[id].writing,
                      ~Abandoned(id)
               PROVE  Delivered(id) /\ req[id].net \in {"running", "responded", "body"}
    OBVIOUS
  <2>1. req[id] \in Request /\ RequestOK(id)
    BY <1>1, LiveRequest
  <2>2. req[id].sent \in {"loading", "responded", "body"} /\ req[id].net # "lost"
    BY <2>1 DEF RequestOK, C!InFlight, Abandoned
  <2>3. req[id].loader
    BY <1>1, <2>2 DEF LoadersStartWhenTheyCan, Abandoned
  <2>4. req[id].net \in LoaderActive /\ req[id].receiver = "open"
    BY <2>1, <2>2, <2>3 DEF RequestOK, Request, LoaderStates
  <2>5. req[id].net # "redirected"
    BY <2>1, <2>2, <2>4 DEF RequestOK
  <2> QED BY <2>4, <2>5 DEF Delivered, LoaderActive
<1>2. IInv /\ LoadersStartWhenTheyCan => NoRequestIsForgotten
  BY <1>1 DEF NoRequestIsForgotten
<1> QED BY <1>2, DrivenInvariant, JointInvariant, PTL

(* The safety properties of the factories in every reachable state.         *)
THEOREM FactoryInvariant == Spec => []FactoryInv
<1>1. IInv /\ LoadersStartWhenTheyCan /\ NoRequestIsForgotten => FactoryInv
  BY DEF IInv, FactoryInv
<1> QED BY <1>1, JointInvariant, DrivenInvariant, RequestsAreNotForgotten, PTL

-----------------------------------------------------------------------------
(* Without before-request hooks, as the browser is shipped: no request ever *)
(* waits for one or is redirected by one, so each has a loader.             *)
Unhooked ==
    /\ \A id \in live : req[id].loader
    /\ \A t \in tasks : t.cont # "ContinueToBeforeSendHeaders"
    /\ hookWait = {}

LEMMA RequestStaysUnhooked ==
    ASSUME IInv, Unhooked, NEW id \in Ids, NEW n, req' = [req EXCEPT ![id] = n],
           live' \subseteq live \cup {id}, id \in live' => n.loader, hookWait' = hookWait,
           \A t \in tasks' \ tasks : t.cont # "ContinueToBeforeSendHeaders"
    PROVE  Unhooked'
<1>1. req \in [Ids -> Request] /\ live \subseteq Ids
  BY DEF IInv, RequestsInv, TypeOK, H!TypeOK, Ids, H!Ids
<1> QED BY <1>1 DEF Unhooked

LEMMA RemovalStaysUnhooked ==
    ASSUME IInv, Unhooked, NEW id \in live, NEW r \in Request, RemoveRequest(id, r),
           hookWait' = hookWait, tasks' \subseteq tasks
    PROVE  Unhooked'
<1>1. Destroyed(r) \in Request /\ id \in Ids
  BY DestroyedResult, LiveRequest
<1>2. req' = [req EXCEPT ![id] = Destroyed(r)] /\ live' = live \ {id}
  BY DEF RemoveRequest, H!OnURLRequestDestroyed
<1> QED BY <1>1, <1>2, RequestStaysUnhooked

LEMMA ErrorStaysUnhooked ==
    ASSUME IInv, Unhooked, NEW id \in live, NEW r \in Request, OnRequestError(id, r),
           hookWait' = hookWait, tasks' \subseteq tasks
    PROVE  Unhooked'
<1> DEFINE sent  == IF r.completed THEN "closed" ELSE "failed"
           ended == [r EXCEPT !.sent = sent]
<1>1. ended \in Request /\ RemoveRequest(id, ended)
  BY DEF Request, Sent, OnRequestError
<1> HIDE DEF ended
<1> QED BY <1>1, RemovalStaysUnhooked

LEMMA RestartStaysUnhooked ==
    ASSUME IInv, Unhooked, NumURLHooks = 0, NEW id \in Ids, NEW r \in Request,
           RestartInternal(id, r), r.loader \/ r.owner \in targetBound,
           live' \subseteq live \cup {id}
    PROVE  Unhooked'
<1> DEFINE started == [r EXCEPT !.completed = FALSE]
           n       == SendToNetwork(started)
<1>1. started \in Request /\ (started.loader \/ started.owner \in targetBound)
  BY DEF Request
<1>2. H!BeforeURLRequestReturnsOK(r.scheme = "internal")
  BY DEF H!BeforeURLRequestReturnsOK
<1>3. req' = [req EXCEPT ![id] = n] /\ hookWait' = hookWait /\ tasks' = tasks
  BY <1>2 DEF RestartInternal, H!OnBeforeURLRequest
<1> HIDE DEF started
<1>4. n.loader
  <2>1. CASE started.loader
    <3>1. Resumed(started) \in Request /\ Resumed(started).loader
      BY <1>1, <2>1, ResumedResult
    <3> DEFINE p == Resumed(started)
    <3> HIDE DEF p
    <3>2. p \in Request /\ p.loader
      BY <3>1 DEF p
    <3>3. \A net : [p EXCEPT !.params = FALSE, !.net = net].loader
      BY <3>2 DEF Request
    <3> QED BY <2>1, <3>3 DEF SendToNetwork, p
  <2>2. CASE ~started.loader
    BY <1>1, <2>2 DEF SendToNetwork, Request
  <2> QED BY <2>1, <2>2
<1> HIDE DEF n
<1> QED BY <1>3, <1>4, RequestStaysUnhooked

LEMMA CreateStaysUnhooked ==
    ASSUME IInv, Unhooked, NumURLHooks = 0, NEW f \in Factories, NEW id \in Ids,
           NEW s \in Schemes, CreateLoaderAndStart(f, id, s)
    PROVE  Unhooked'
<1> DEFINE r == [NoRequest EXCEPT !.owner = f, !.scheme = s, !.sent = "loading"]
<1>1. pipes[f] > 0 /\ live' = live \cup {id} /\ RestartInternal(id, r)
  BY DEF CreateLoaderAndStart
<1>2. f \in targetBound
  BY <1>1 DEF IInv, RequestsInv, CallsOnlyWithTarget
<1>3. r \in Request /\ r.owner = f
  <2>1. NoRequest \in Request
    <3>1. 0 \in 0..MaxRedirects
      BY Bounds
    <3> QED BY <3>1 DEF NoRequest, Request, LoaderStates, Sent
  <2> QED BY <2>1 DEF NoRequest, Request, Sent
<1> HIDE DEF r
<1> QED BY <1>1, <1>2, <1>3, RestartStaysUnhooked

LEMMA ClientStaysUnhooked ==
    ASSUME IInv, Unhooked, NumURLHooks = 0, NEW id \in Ids, ClientStep(id)
    PROVE  Unhooked'
<1>1. CASE FollowRedirect(id)
  <2> DEFINE s == req[id]
             r == [s EXCEPT !.sent = "loading", !.follows = @ + 1, !.params = s.params \/ s.loader]
  <2>1. /\ id \in live /\ s.follows < MaxRedirects
        /\ RestartInternal(id, r) /\ live' = live
    BY <1>1 DEF FollowRedirect
  <2>2. s \in Request /\ s.loader
    BY <2>1, LiveRequest DEF Unhooked
  <2>3. s.follows + 1 \in 0..MaxRedirects
    <3>1. s.follows \in 0..MaxRedirects
      BY <2>2 DEF Request
    <3> QED BY <2>1, <3>1, Bounds
  <2>4. (s.params \/ s.loader) \in BOOLEAN
    BY <2>2 DEF Request
  <2>5. r \in Request /\ r.loader
    BY <2>2, <2>3, <2>4 DEF Request, Sent
  <2> HIDE DEF r
  <2> QED BY <2>1, <2>5, RestartStaysUnhooked
<1>2. CASE ClientGoesAway(id)
  <2> DEFINE n == [req[id] EXCEPT !.gone = TRUE]
  <2>1. id \in live /\ req' = [req EXCEPT ![id] = n] /\ UNCHANGED <<live, hookWait, tasks>>
    BY <1>2 DEF ClientGoesAway, handlerVars
  <2>2. n.loader
    BY <2>1, LiveRequest DEF Unhooked, Request
  <2> HIDE DEF n
  <2> QED BY <2>1, <2>2, RequestStaysUnhooked
<1>3. CASE OnClientDisconnect(id)
  <2>1. id \in live /\ req[id] \in Request
    BY <1>3, LiveRequest DEF OnClientDisconnect
  <2> QED BY <1>3, <2>1, ErrorStaysUnhooked DEF OnClientDisconnect
<1> QED BY <1>1, <1>2, <1>3 DEF ClientStep

LEMMA HeadersStayUnhooked ==
    ASSUME IInv, Unhooked, NEW id \in live, NEW r \in Request, NEW then \in Request,
           NEW cont \in {"ContinueToResponseStarted", "ContinueToBeforeRedirect"},
           HandleResponseOrRedirectHeaders(id, cont, r, then), live' = live,
           r.loader, then.loader
    PROVE  Unhooked'
<1>1. Paused(r).loader /\ id \in Ids
  BY PausedResult, LiveRequest
<1>2. \E n \in {Paused(r), then} : req' = [req EXCEPT ![id] = n]
  BY DEF HandleResponseOrRedirectHeaders
<1>3. hookWait' = hookWait /\ \A t \in tasks' \ tasks : t.cont # "ContinueToBeforeSendHeaders"
  BY DEF HandleResponseOrRedirectHeaders, H!OnHeadersReceived,
         H!RunCallbackForRequestIdentifier
<1> QED BY <1>1, <1>2, <1>3, RequestStaysUnhooked

LEMMA NetworkStaysUnhooked ==
    ASSUME IInv, Unhooked, NEW id \in Ids, NetworkAnswers(id)
    PROVE  Unhooked'
<1>1. id \in live /\ req[id] \in Request /\ req[id].loader
  BY LiveRequest DEF NetworkAnswers, OnReceiveResponse, OnReceiveRedirect,
                     OnStartLoadingResponseBody, OnComplete, Delivered, Unhooked
<1>2. CASE OnReceiveResponse(id)
  <2> DEFINE r == [req[id] EXCEPT !.net = "responded"]
             n == ResponseStarted(r)
  <2>1. /\ HandleResponseOrRedirectHeaders(id, "ContinueToResponseStarted", r, n)
        /\ live' = live
    BY <1>2 DEF OnReceiveResponse
  <2>2. r \in Request /\ r.loader
    BY <1>1 DEF Request, LoaderStates, LoaderActive
  <2> HIDE DEF r
  <2>3. n \in Request /\ n.loader
    BY <2>2 DEF ResponseStarted, Request, Sent
  <2> HIDE DEF n
  <2> QED BY <1>1, <2>1, <2>2, <2>3, HeadersStayUnhooked
<1>3. CASE OnReceiveRedirect(id)
  <2>0. PICK u \in Schemes :
               HandleResponseOrRedirectHeaders(id, "ContinueToBeforeRedirect",
                   [req[id] EXCEPT !.net = "redirected"],
                   BeforeRedirect([req[id] EXCEPT !.net = "redirected"], u))
    BY <1>3 DEF OnReceiveRedirect
  <2> DEFINE r == [req[id] EXCEPT !.net = "redirected"]
             n == BeforeRedirect(r, u)
  <2>1. /\ HandleResponseOrRedirectHeaders(id, "ContinueToBeforeRedirect", r, n)
        /\ live' = live
    BY <1>3, <2>0 DEF OnReceiveRedirect
  <2>2. r \in Request /\ r.loader
    BY <1>1 DEF Request, LoaderStates, LoaderActive
  <2> HIDE DEF r
  <2>3. n \in Request /\ n.loader
    BY <2>0, <2>2, BeforeRedirectResult
  <2> HIDE DEF n
  <2> QED BY <1>1, <2>1, <2>2, <2>3, HeadersStayUnhooked
<1>4. CASE OnStartLoadingResponseBody(id)
  <2> DEFINE n == [req[id] EXCEPT !.net = "body", !.sent = "body"]
  <2>1. req' = [req EXCEPT ![id] = n] /\ UNCHANGED <<live, hookWait, tasks>>
    BY <1>1, <1>4 DEF OnStartLoadingResponseBody, handlerVars, IInv, RequestsInv, TypeOK, Request
  <2>2. n.loader
    BY <1>1 DEF Request
  <2> HIDE DEF n
  <2> QED BY <2>1, <2>2, RequestStaysUnhooked
<1>5. CASE OnComplete(id)
  <2>1. UNCHANGED <<hookWait, tasks>>
    BY <1>5 DEF OnComplete
  <2>2. CASE RemoveRequest(id, [req[id] EXCEPT !.sent = "ok"])
    <3>1. [req[id] EXCEPT !.sent = "ok"] \in Request
      BY <1>1 DEF Request, Sent
    <3> QED BY <1>1, <2>1, <2>2, <3>1, RemovalStaysUnhooked
  <2>3. CASE OnRequestError(id, req[id])
    BY <1>1, <2>1, <2>3, ErrorStaysUnhooked
  <2> QED BY <1>5, <2>2, <2>3 DEF OnComplete
<1> QED BY <1>2, <1>3, <1>4, <1>5 DEF NetworkAnswers

LEMMA TaskStaysUnhooked ==
    ASSUME IInv, Unhooked, NEW t \in tasks, RunTask(t)
    PROVE  Unhooked'
<1> DEFINE id == t.id
<1>1. t.cont # "ContinueToBeforeSendHeaders"
  BY DEF Unhooked
<1>2. CASE StaleTask(t)
  BY <1>2 DEF StaleTask, Unhooked
<1>3. CASE ContinueToResponseStarted(t)
  <2> DEFINE n == ResponseStarted(req[id])
  <2>1. id \in live /\ req[id] \in Request /\ req[id].loader
    BY <1>3, LiveRequest DEF ContinueToResponseStarted, TakeTask, Unhooked
  <2>2. /\ req' = [req EXCEPT ![id] = n] /\ tasks' = tasks \ {t} /\ UNCHANGED <<live, hookWait>>
    BY <1>3 DEF ContinueToResponseStarted, TakeTask
  <2>3. n.loader /\ id \in Ids
    BY <2>1, LiveRequest DEF ResponseStarted, Request
  <2> HIDE DEF n
  <2> QED BY <2>2, <2>3, RequestStaysUnhooked
<1>4. CASE ContinueToBeforeRedirect(t)
  <2>0. PICK u \in Schemes : req' = [req EXCEPT ![id] = BeforeRedirect(req[id], u)]
    BY <1>4 DEF ContinueToBeforeRedirect
  <2> DEFINE n == BeforeRedirect(req[id], u)
  <2>1. id \in live /\ req[id] \in Request /\ req[id].loader
    BY <1>4, LiveRequest DEF ContinueToBeforeRedirect, TakeTask, Unhooked
  <2>2. /\ req' = [req EXCEPT ![id] = n] /\ tasks' = tasks \ {t} /\ UNCHANGED <<live, hookWait>>
    BY <1>4, <2>0 DEF ContinueToBeforeRedirect, TakeTask
  <2>3. n.loader /\ id \in Ids
    BY <2>0, <2>1, BeforeRedirectResult, LiveRequest
  <2> HIDE DEF n
  <2> QED BY <2>2, <2>3, RequestStaysUnhooked
<1> QED BY <1>1, <1>2, <1>3, <1>4 DEF RunTask, ContinueToBeforeSendHeaders, TakeTask

LEMMA NextStaysUnhooked ==
    IInv /\ Unhooked /\ NumURLHooks = 0 /\ [Next]_vars => Unhooked'
<1> SUFFICES ASSUME IInv, Unhooked, NumURLHooks = 0, [Next]_vars PROVE Unhooked'
  OBVIOUS
<1>1. ASSUME NEW id \in Ids, HookAnswers(id) PROVE FALSE
  BY <1>1 DEF HookAnswers, H!HookAnswers, Unhooked
<1>2. ASSUME NEW id \in Ids, LoaderLost(id) PROVE Unhooked'
  <2> DEFINE n == [req[id] EXCEPT !.net = "lost"]
  <2>1. id \in live /\ req' = [req EXCEPT ![id] = n] /\ UNCHANGED <<live, hookWait, tasks>>
    BY <1>2 DEF LoaderLost, handlerVars
  <2>2. n.loader
    BY <2>1, LiveRequest DEF Unhooked, Request
  <2> HIDE DEF n
  <2> QED BY <2>1, <2>2, RequestStaysUnhooked
<1>3. ASSUME NEW id \in Ids, OnWrite(id) PROVE Unhooked'
  <2>1. UNCHANGED <<hookWait, tasks>>
    BY <1>3 DEF OnWrite
  <2>2. ASSUME id \in live, RemoveRequest(id, [req[id] EXCEPT !.writing = FALSE, !.sent = "ok"])
        PROVE  Unhooked'
    <3>1. [req[id] EXCEPT !.writing = FALSE, !.sent = "ok"] \in Request
      BY <2>2, LiveRequest DEF Request, Sent
    <3> QED BY <2>1, <2>2, <3>1, RemovalStaysUnhooked
  <2>3. ASSUME req' = [req EXCEPT ![id].writing = FALSE], live' = live PROVE Unhooked'
    <3>1. req \in [Ids -> Request]
      BY DEF IInv, RequestsInv, TypeOK
    <3> DEFINE n == [req[id] EXCEPT !.writing = FALSE]
    <3>2. req' = [req EXCEPT ![id] = n]
      BY <2>3, <3>1
    <3>3. id \in live => n.loader
      BY <3>1 DEF Unhooked, Request
    <3> HIDE DEF n
    <3> QED BY <2>1, <2>3, <3>2, <3>3, RequestStaysUnhooked
  <2> QED BY <1>3, <2>2, <2>3 DEF OnWrite
<1>4. ASSUME NEW f \in Factories, FactoryStep(f) PROVE Unhooked'
  <2>1. UNCHANGED <<live, hookWait, tasks, req>>
    BY <1>4 DEF FactoryStep, StartProxying, Clone, OnProxyBindingError, OnTargetFactoryError,
                handlerVars
  <2> QED BY <2>1 DEF Unhooked
<1>5. CASE Shutdown
  <2>1. live' = {} /\ UNCHANGED <<hookWait, tasks>>
    BY <1>5 DEF Shutdown, H!OnURLRequestDestroyed
  <2> QED BY <2>1 DEF Unhooked
<1>6. CASE UNCHANGED vars
  BY <1>6 DEF vars, handlerVars, Unhooked
<1> QED BY <1>1, <1>2, <1>3, <1>4, <1>5, <1>6, CreateStaysUnhooked, ClientStaysUnhooked,
           NetworkStaysUnhooked, TaskStaysUnhooked DEF Next

(* Where no before-request hook is registered, a request that waits neither *)
(* for the handler nor for its client has a network loader to hear from, as *)
(* the comment at the end of ContinueToStartRequest has it.                 *)
THEOREM RequestsAreDrivenWithoutHooks ==
    ASSUME NumURLHooks = 0
    PROVE  Spec => []DrivenAfterStart
<1>1. Init => Unhooked
  BY DEF Init, H!Init, Unhooked
<1>2. IInv /\ Unhooked /\ [Next]_vars => Unhooked'
  BY NextStaysUnhooked
<1>3. Unhooked => DrivenAfterStart
  BY DEF Unhooked, DrivenAfterStart
<1> QED BY <1>1, <1>2, <1>3, JointInvariant, PTL DEF Spec
=============================================================================
