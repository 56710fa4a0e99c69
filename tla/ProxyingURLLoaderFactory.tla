---------------------- MODULE ProxyingURLLoaderFactory ----------------------
(***************************************************************************)
(* dumb/browser/net/dumb_proxying_url_loader_factory.{h,cc}: the factories *)
(* that stand between a renderer (or the browser) and the network service, *)
(* and their InProgressRequests, with the ResourceContextData that owns    *)
(* them and the request handler they share.                                *)
(*                                                                         *)
(* An InProgressRequest is a URLLoader for its client and a                *)
(* URLLoaderClient for the network's loader:                               *)
(*                                                                         *)
(*   client --proxied_loader_receiver_-->   InProgressRequest              *)
(*   client <--target_client_------------   InProgressRequest              *)
(*              InProgressRequest --target_loader_-->          network     *)
(*              InProgressRequest <--proxied_client_receiver_-- network    *)
(*                                                                         *)
(* Every handler runs on the UI thread and is one step.  Deliveries of the *)
(* client, of the network, answers of hooks, posted tasks, disconnects and *)
(* profile shutdown interleave freely between steps.                       *)
(*                                                                         *)
(* Left out: the header and body contents (referrer, removed_headers,      *)
(* request_initiator, STS stripping), pure forwarding that keeps no state  *)
(* (SetPriority, OnUploadProgress, ...), and branches no execution         *)
(* reaches: a synchronous ERR_BLOCKED_BY_CLIENT and an error or redirect   *)
(* from OnHeadersReceived, which DumbRequestHandler never produces.        *)
(***************************************************************************)
EXTENDS Naturals

CONSTANTS
    MaxRequests,              \* bound: requests ever created
    NumURLHooks,              \* before-request hooks of the request handler
    HasHeadersReceivedHooks,  \* are there headers-received hooks
    Factories,                \* proxying factories of the profile
    Schemes,                  \* schemes of URLs: "http", "internal", "other"
    MaxPipes,                 \* bound: receivers in one proxy_receivers_
    MaxRedirects              \* redirects a client follows before it gives up

ASSUME FactoryAssumption ==
    /\ MaxRequests \in Nat
    /\ NumURLHooks \in Nat
    /\ HasHeadersReceivedHooks \in BOOLEAN
    /\ Schemes \subseteq {"http", "internal", "other"}
    /\ MaxPipes \in Nat \ {0}
    /\ MaxRedirects \in Nat
    /\ "no factory" \notin Factories

VARIABLES
    live, lastId, callbacks, ctx, redirectUrl, hookWait, tasks,  \* request handler
    contextData,   \* ResourceContextData of the profile: none, live, destroyed
    factory,       \* each factory: none, alive (in proxies_), deleted
    pipes,         \* proxy_receivers_ of each factory
    targetBound,   \* factories whose target_factory_ is bound
    req            \* the InProgressRequest of each identifier

Continuations ==
    {"ContinueToBeforeSendHeaders", "ContinueToResponseStarted", "ContinueToBeforeRedirect"}

H == INSTANCE DumbRequestHandler

Ids == H!Ids
handlerVars == <<live, lastId, callbacks, ctx, redirectUrl, hookWait, tasks>>
factoryVars == <<contextData, factory, pipes, targetBound>>
vars == <<handlerVars, factoryVars, req>>

(* What the network's end of target_loader_ is doing: loading, waiting for  *)
(* FollowRedirect, having sent the response head, having sent the body, or  *)
(* gone without a word (no disconnect handler is set on the two pipes).     *)
LoaderActive == {"running", "redirected", "responded", "body"}
LoaderStates == {"none", "lost"} \cup LoaderActive

(* The last call on target_client_, and how the request ended.              *)
Sent == {"none", "loading", "redirected", "responded", "body", "mocked",
         "ok", "failed", "closed"}

Request == [owner     : Factories \cup {"no factory"},
            scheme    : Schemes \cup {"none"},          \* of request_.url
            completed : BOOLEAN,                        \* request_completed_
            loader    : BOOLEAN,                        \* target_loader_.is_bound()
            receiver  : {"unbound", "open", "paused"},  \* proxied_client_receiver_
            params    : BOOLEAN,                        \* pending_follow_redirect_params_
            net       : LoaderStates,
            aimed     : BOOLEAN,    \* the network's loader is on request_.url
            follows   : 0..MaxRedirects,                \* redirects the client followed
            sent      : Sent,
            gone      : BOOLEAN,    \* the client closed its end of target_client_
            writing   : BOOLEAN]    \* a mock response's DataPipeProducer is writing

NoRequest ==
    [owner |-> "no factory", scheme |-> "none", completed |-> FALSE, loader |-> FALSE,
     receiver |-> "unbound", params |-> FALSE, net |-> "none", aimed |-> FALSE,
     follows |-> 0, sent |-> "none", gone |-> FALSE, writing |-> FALSE]

RequestsOf(f) == {id \in live : req[id].owner = f}

Init ==
    /\ H!Init
    /\ contextData = "none"
    /\ factory = [f \in Factories |-> "none"]
    /\ pipes = [f \in Factories |-> 0]
    /\ targetBound = {}
    /\ req = [id \in Ids |-> NoRequest]

-----------------------------------------------------------------------------
(* What the InProgressRequest does to its own members, as functions of its *)
(* record.                                                                 *)

Paused(r)  == IF r.receiver = "unbound" THEN r ELSE [r EXCEPT !.receiver = "paused"]
Resumed(r) == IF r.receiver = "unbound" THEN r ELSE [r EXCEPT !.receiver = "open"]

(* ContinueToSendHeaders and ContinueToStartRequest: pass a pending         *)
(* FollowRedirect on to the loader that is waiting for it, or start a new   *)
(* loader if the factory still has a network.                               *)
SendToNetwork_DropsFollow(r) ==
    IF r.loader \/ r.owner \notin targetBound
    THEN [Resumed(r) EXCEPT !.params = FALSE]
    ELSE [r EXCEPT !.params = FALSE, !.loader = TRUE, !.receiver = "open",
                   !.net = "running", !.aimed = TRUE]

SendToNetwork_KeepsParams(r) ==
    IF r.loader THEN
        [Resumed(r) EXCEPT !.net = IF r.params /\ r.net = "redirected" THEN "running" ELSE r.net]
    ELSE IF r.owner \in targetBound THEN
        [r EXCEPT !.loader = TRUE, !.receiver = "open", !.net = "running", !.aimed = TRUE]
    ELSE r

SendToNetwork(r) ==
    IF r.loader THEN
        [Resumed(r) EXCEPT
            !.params = FALSE,
            !.net = IF r.params /\ r.net = "redirected" THEN "running" ELSE r.net]
    ELSE IF r.owner \in targetBound THEN
        [r EXCEPT !.params = FALSE, !.loader = TRUE, !.receiver = "open",
                  !.net = "running", !.aimed = TRUE]
    ELSE [r EXCEPT !.params = FALSE]

(* ContinueToBeforeRedirect: tell the client and adopt the new URL, of      *)
(* scheme s.                                                                *)
BeforeRedirect(r, s) ==
    [Resumed(r) EXCEPT !.scheme = s, !.sent = "redirected", !.completed = TRUE]

(* HandleBeforeRequestRedirect: a hook redirects to a URL of scheme s.  The *)
(* network's loader knows nothing of it and is closed.                      *)
InternalRedirect_KeepsLoader(r, s) ==
    [BeforeRedirect(r, s) EXCEPT !.aimed = FALSE]

InternalRedirect(r, s) ==
    BeforeRedirect([r EXCEPT !.receiver = "unbound", !.loader = FALSE, !.net = "none",
                             !.aimed = FALSE], s)

(* ContinueToResponseStarted.                                               *)
ResponseStarted_NoResume(r) == [r EXCEPT !.sent = "responded"]

ResponseStarted(r) == [r EXCEPT !.receiver = "open", !.sent = "responded"]

(* The pipes of a destroyed request.  A write under way is not cancelled.   *)
Destroyed(r) ==
    [r EXCEPT !.loader = FALSE, !.receiver = "unbound", !.params = FALSE, !.net = "none"]

-----------------------------------------------------------------------------
(* Destruction of requests and factories.                                  *)

(* Deletes the factory that has neither a network nor requests left.        *)
MaybeRemoveProxy_IgnoresRequests(f, bound, requests) ==
    factory' = IF f \in bound THEN factory ELSE [factory EXCEPT ![f] = "deleted"]

MaybeRemoveProxy(f, bound, requests) ==
    factory' = IF f \in bound \/ requests # {} THEN factory
               ELSE [factory EXCEPT ![f] = "deleted"]

(* RemoveRequest of a request that leaves its record as r.                  *)
RemoveRequest_WithoutNotice(id, r) ==
    /\ live' = live \ {id}
    /\ req' = [req EXCEPT ![id] = Destroyed(r)]
    /\ MaybeRemoveProxy(r.owner, targetBound, RequestsOf(r.owner) \ {id})
    /\ UNCHANGED <<callbacks, contextData, pipes, targetBound>>

RemoveRequest(id, r) ==
    /\ H!OnURLRequestDestroyed({id})
    /\ req' = [req EXCEPT ![id] = Destroyed(r)]
    /\ MaybeRemoveProxy(r.owner, targetBound, RequestsOf(r.owner) \ {id})
    /\ UNCHANGED <<contextData, pipes, targetBound>>

(* OnRequestError: OnComplete(error), unless the client was told of a       *)
(* redirect and has not followed it.                                        *)
OnRequestError_AlwaysCompletes(id, r) == RemoveRequest(id, [r EXCEPT !.sent = "failed"])

OnRequestError(id, r) ==
    RemoveRequest(id, [r EXCEPT !.sent = IF r.completed THEN "closed" ELSE "failed"])

-----------------------------------------------------------------------------
(* The client.                                                             *)

(* RestartInternal of a request whose record is r.  When the handler        *)
(* returns net::OK the request goes to the network in the same step.        *)
RestartInternal(id, r) ==
    LET started  == [r EXCEPT !.completed = FALSE]
        internal == r.scheme = "internal"
    IN  /\ H!OnBeforeURLRequest(id, "ContinueToBeforeSendHeaders", internal)
        /\ req' = [req EXCEPT ![id] = IF H!BeforeURLRequestReturnsOK(internal)
                                      THEN SendToNetwork(started)
                                      ELSE Paused(started)]

CreateLoaderAndStart(f, id, s) ==
    /\ pipes[f] > 0
    /\ id = lastId + 1
    /\ lastId' = id
    /\ live' = live \cup {id}
    /\ RestartInternal(id, [NoRequest EXCEPT !.owner = f, !.scheme = s, !.sent = "loading"])
    /\ UNCHANGED factoryVars

(* A client answers each OnReceiveRedirect with at most one FollowRedirect. *)
FollowRedirect(id) ==
    /\ id \in live
    /\ req[id].sent = "redirected"
    /\ req[id].follows < MaxRedirects
    /\ RestartInternal(id, [req[id] EXCEPT !.sent = "loading", !.follows = @ + 1,
                                           !.params = req[id].params \/ req[id].loader])
    /\ UNCHANGED <<live, lastId, factoryVars>>

(* The client closes its end; the proxy learns of it later.                 *)
ClientGoesAway(id) ==
    /\ id \in live
    /\ ~req[id].gone
    /\ req' = [req EXCEPT ![id].gone = TRUE]
    /\ UNCHANGED <<handlerVars, factoryVars>>

(* The disconnect handler of target_client_.                                *)
OnClientDisconnect(id) ==
    /\ id \in live
    /\ req[id].gone
    /\ OnRequestError(id, req[id])
    /\ UNCHANGED <<lastId, ctx, redirectUrl, hookWait, tasks>>

-----------------------------------------------------------------------------
(* Hooks and the continuations the handler posted.                         *)

HookAnswers(id) == H!HookAnswers(id) /\ UNCHANGED <<req, factoryVars>>

TakeTask(t, cont) ==
    /\ t.id \in live
    /\ t.cont = cont
    /\ tasks' = tasks \ {t}
    /\ UNCHANGED <<lastId, redirectUrl, hookWait>>

StaleTask(t) ==
    /\ t.id \notin live
    /\ tasks' = tasks \ {t}
    /\ UNCHANGED <<live, lastId, callbacks, ctx, redirectUrl, hookWait, req, factoryVars>>

ContinueToBeforeSendHeaders(t) ==
    LET id      == t.id
        proceed == t.rv = "OK" /\ ~redirectUrl[id]
    IN  /\ TakeTask(t, "ContinueToBeforeSendHeaders")
        /\ \/ \* a hook failed the request
              /\ t.rv = "error"
              /\ OnRequestError(id, req[id])
              /\ UNCHANGED ctx
           \/ \* a hook redirected it
              /\ t.rv = "OK" /\ redirectUrl[id]
              /\ \E s \in Schemes : req' = [req EXCEPT ![id] = InternalRedirect(@, s)]
              /\ UNCHANGED <<live, callbacks, ctx, factoryVars>>
           \/ \* a hook blocked it, or CreateDataPipe failed for its mock response
              /\ proceed /\ ctx[id].blocked \in {"blocked", "mocked"}
              /\ OnRequestError(id, Resumed(req[id]))
              /\ UNCHANGED ctx
           \/ \* the mock response
              /\ proceed /\ ctx[id].blocked = "mocked"
              /\ req' = [req EXCEPT ![id] = [Resumed(@) EXCEPT !.sent = "mocked",
                                                               !.writing = TRUE]]
              /\ UNCHANGED <<live, callbacks, ctx, factoryVars>>
           \/ /\ proceed /\ ctx[id].blocked = "kNotBlocked"
              /\ IF req[id].scheme = "http" THEN H!MakeCTX(id) ELSE UNCHANGED ctx
              /\ req' = [req EXCEPT ![id] = SendToNetwork(Resumed(@))]
              /\ UNCHANGED <<live, callbacks, factoryVars>>

ContinueToResponseStarted(t) ==
    /\ TakeTask(t, "ContinueToResponseStarted")
    /\ req' = [req EXCEPT ![t.id] = ResponseStarted(@)]
    /\ UNCHANGED <<live, callbacks, ctx, factoryVars>>

ContinueToBeforeRedirect(t) ==
    /\ TakeTask(t, "ContinueToBeforeRedirect")
    /\ \E s \in Schemes : req' = [req EXCEPT ![t.id] = BeforeRedirect(@, s)]
    /\ UNCHANGED <<live, callbacks, ctx, factoryVars>>

RunTask(t) ==
    \/ StaleTask(t)
    \/ ContinueToBeforeSendHeaders(t)
    \/ ContinueToResponseStarted(t)
    \/ ContinueToBeforeRedirect(t)

(* The asynchronous write of a mock response ends.  WriteData holds a weak  *)
(* pointer; a failed write leaves the request as it is.                     *)
OnWrite(id) ==
    /\ req[id].writing
    /\ UNCHANGED <<lastId, ctx, redirectUrl, hookWait, tasks>>
    /\ \/ /\ id \in live
          /\ RemoveRequest(id, [req[id] EXCEPT !.writing = FALSE, !.sent = "ok"])
       \/ /\ req' = [req EXCEPT ![id].writing = FALSE]
          /\ UNCHANGED <<live, callbacks, factoryVars>>

-----------------------------------------------------------------------------
(* The network's end of proxied_client_receiver_: messages arrive in order *)
(* and only while the receiver is not paused.                              *)

Delivered(id) == id \in live /\ req[id].receiver = "open"

(* HandleResponseOrRedirectHeaders for a request whose record is r now and  *)
(* then once the continuation has run.                                      *)
HandleResponseOrRedirectHeaders_NoPause(id, cont, r, then) ==
    /\ redirectUrl' = [redirectUrl EXCEPT ![id] = FALSE]
    /\ UNCHANGED hookWait
    /\ \/ /\ r.scheme # "http"
          /\ req' = [req EXCEPT ![id] = then]
          /\ UNCHANGED <<callbacks, ctx, tasks>>
       \/ /\ r.scheme = "http"
          /\ H!OnHeadersReceived(id, cont)
          /\ req' = [req EXCEPT ![id] = IF HasHeadersReceivedHooks THEN r ELSE then]

HandleResponseOrRedirectHeaders(id, cont, r, then) ==
    /\ redirectUrl' = [redirectUrl EXCEPT ![id] = FALSE]
    /\ UNCHANGED hookWait
    /\ \/ /\ r.scheme # "http"
          /\ req' = [req EXCEPT ![id] = then]
          /\ UNCHANGED <<callbacks, ctx, tasks>>
       \/ /\ r.scheme = "http"
          /\ H!OnHeadersReceived(id, cont)
          /\ req' = [req EXCEPT ![id] = IF HasHeadersReceivedHooks THEN Paused(r) ELSE then]

OnReceiveResponse(id) ==
    LET r == [req[id] EXCEPT !.net = "responded"]
    IN  /\ Delivered(id) /\ req[id].net = "running"
        /\ HandleResponseOrRedirectHeaders(id, "ContinueToResponseStarted", r,
                                           ResponseStarted(r))
        /\ UNCHANGED <<live, lastId, factoryVars>>

OnReceiveRedirect(id) ==
    LET r == [req[id] EXCEPT !.net = "redirected"]
    IN  /\ Delivered(id) /\ req[id].net = "running"
        /\ \E s \in Schemes : HandleResponseOrRedirectHeaders(id, "ContinueToBeforeRedirect", r,
                                                              BeforeRedirect(r, s))
        /\ UNCHANGED <<live, lastId, factoryVars>>

OnStartLoadingResponseBody(id) ==
    /\ Delivered(id) /\ req[id].net = "responded"
    /\ req' = [req EXCEPT ![id].net = "body", ![id].sent = "body"]
    /\ UNCHANGED <<handlerVars, factoryVars>>

OnComplete(id) ==
    /\ Delivered(id)
    /\ \/ /\ req[id].net = "body"
          /\ RemoveRequest(id, [req[id] EXCEPT !.sent = "ok"])
       \/ /\ req[id].net \in LoaderActive
          /\ OnRequestError(id, req[id])
    /\ UNCHANGED <<lastId, ctx, redirectUrl, hookWait, tasks>>

(* The network service drops the two pipes (it crashed): nobody listens.    *)
LoaderLost(id) ==
    /\ id \in live
    /\ req[id].net \in LoaderActive
    /\ req' = [req EXCEPT ![id].net = "lost"]
    /\ UNCHANGED <<handlerVars, factoryVars>>

-----------------------------------------------------------------------------
(* The factories and their owner.                                          *)

StartProxying(f) ==
    /\ contextData # "destroyed"
    /\ factory[f] = "none"
    /\ contextData' = "live"
    /\ factory' = [factory EXCEPT ![f] = "alive"]
    /\ pipes' = [pipes EXCEPT ![f] = 1]
    /\ targetBound' = targetBound \cup {f}
    /\ UNCHANGED <<handlerVars, req>>

Clone(f) ==
    /\ pipes[f] \in 1..(MaxPipes - 1)
    /\ pipes' = [pipes EXCEPT ![f] = @ + 1]
    /\ UNCHANGED <<handlerVars, req, contextData, factory, targetBound>>

(* A client closes one of the factory's pipes.                              *)
OnProxyBindingError_KeepsTarget(f) ==
    /\ pipes[f] > 0
    /\ pipes' = [pipes EXCEPT ![f] = @ - 1]
    /\ UNCHANGED <<handlerVars, req, contextData, targetBound, factory>>

OnProxyBindingError(f) ==
    /\ pipes[f] > 0
    /\ pipes' = [pipes EXCEPT ![f] = @ - 1]
    /\ targetBound' = IF pipes[f] = 1 THEN targetBound \ {f} ELSE targetBound
    /\ MaybeRemoveProxy(f, targetBound', RequestsOf(f))
    /\ UNCHANGED <<handlerVars, req, contextData>>

(* The network's factory is gone.                                           *)
OnTargetFactoryError_KeepsPipes(f) ==
    /\ f \in targetBound
    /\ targetBound' = targetBound \ {f}
    /\ MaybeRemoveProxy(f, targetBound', RequestsOf(f))
    /\ UNCHANGED <<handlerVars, req, contextData, pipes>>

OnTargetFactoryError(f) ==
    /\ f \in targetBound
    /\ targetBound' = targetBound \ {f}
    /\ pipes' = [pipes EXCEPT ![f] = 0]
    /\ MaybeRemoveProxy(f, targetBound', RequestsOf(f))
    /\ UNCHANGED <<handlerVars, req, contextData>>

(* The profile is destroyed, and with it ResourceContextData: the factories *)
(* and their requests first, request_handler_ last.                         *)
Shutdown ==
    /\ contextData = "live"
    /\ contextData' = "destroyed"
    /\ factory' = [f \in Factories |-> IF factory[f] = "alive" THEN "deleted" ELSE factory[f]]
    /\ pipes' = [f \in Factories |-> 0]
    /\ targetBound' = {}
    /\ H!OnURLRequestDestroyed(live)
    /\ req' = [id \in Ids |-> IF id \in live THEN [Destroyed(req[id]) EXCEPT !.sent = "closed"]
                              ELSE req[id]]
    /\ UNCHANGED <<lastId, ctx, redirectUrl, hookWait, tasks>>

-----------------------------------------------------------------------------

ClientStep(id) == FollowRedirect(id) \/ ClientGoesAway(id) \/ OnClientDisconnect(id)

NetworkAnswers(id) ==
    \/ OnReceiveResponse(id) \/ OnReceiveRedirect(id)
    \/ OnStartLoadingResponseBody(id) \/ OnComplete(id)

FactoryStep(f) ==
    StartProxying(f) \/ Clone(f) \/ OnProxyBindingError(f) \/ OnTargetFactoryError(f)

Next ==
    \/ \E f \in Factories, id \in Ids, s \in Schemes : CreateLoaderAndStart(f, id, s)
    \/ \E id \in Ids :
          ClientStep(id) \/ HookAnswers(id) \/ OnWrite(id) \/ NetworkAnswers(id) \/ LoaderLost(id)
    \/ \E t \in tasks : RunTask(t)
    \/ \E f \in Factories : FactoryStep(f)
    \/ Shutdown

Spec == Init /\ [][Next]_vars

(* Mojo and the UI thread deliver what is posted, hooks answer, a network   *)
(* loader that is not lost goes on answering, and a client that is told of  *)
(* a redirect follows it or gives up.                                       *)
ClientDecides(id) ==
    req[id].sent = "redirected" /\ (FollowRedirect(id) \/ ClientGoesAway(id))

Fairness ==
    \A id \in Ids :
        /\ WF_vars(HookAnswers(id))
        /\ WF_vars(\E t \in tasks : t.id = id /\ RunTask(t))
        /\ WF_vars(NetworkAnswers(id))
        /\ WF_vars(OnWrite(id))
        /\ WF_vars(ClientDecides(id))
        /\ WF_vars(OnClientDisconnect(id))

FairSpec == Spec /\ Fairness

-----------------------------------------------------------------------------

TypeOK ==
    /\ H!TypeOK
    /\ contextData \in {"none", "live", "destroyed"}
    /\ factory \in [Factories -> {"none", "alive", "deleted"}]
    /\ pipes \in [Factories -> 0..MaxPipes]
    /\ targetBound \subseteq Factories
    /\ req \in [Ids -> Request]

(* The network's messages are held back exactly while a continuation is     *)
(* with a hook or in the task queue: nothing overtakes the step in          *)
(* progress, and no path through the continuations forgets to resume.       *)
PausedExactlyWhileWaiting ==
    \A id \in live : req[id].receiver # "unbound" =>
        (req[id].receiver = "paused" <=> H!Outstanding(id))

(* The two pipes to the network are bound and reset together, and a loader  *)
(* that is loading is loading request_.url: after a hook redirected the     *)
(* request no loader goes on with the old URL (crbug.com/882661).           *)
LoaderFetchesRequestURL ==
    \A id \in live :
        /\ req[id].loader <=> req[id].receiver # "unbound"
        /\ req[id].net = "running" => req[id].aimed

(* A pending FollowRedirect meets either the loader that waits for it or no *)
(* loader at all, so that it is never handed to a loader in another phase.  *)
FollowMeetsWaitingLoader ==
    \A id \in live : req[id].params /\ req[id].loader => req[id].net \in {"redirected", "lost"}

(* The client has been told exactly what the network's loader has done:     *)
(* nothing is lost, repeated or made up on the way, and a redirect the      *)
(* client followed is followed by the network.                              *)
ClientSeesWhatNetworkSent ==
    \A id \in live :
        req[id].net \in LoaderActive /\ req[id].sent # "mocked" /\ ~H!Outstanding(id) =>
            req[id].sent = IF req[id].net = "running" THEN "loading" ELSE req[id].net

(* A factory exists exactly as long as it is needed: it is not kept without *)
(* network and requests, and no request outlives its factory or the profile *)
(* data that owns the handler it calls on destruction.                      *)
FactoryLivesWhileNeeded ==
    /\ \A f \in Factories :
          factory[f] = "alive" => f \in targetBound \/ RequestsOf(f) # {}
    /\ \A id \in live : factory[req[id].owner] = "alive" /\ contextData = "live"

(* "Stop calls to CreateLoaderAndStart() when |target_factory_| is invalid":*)
(* a factory that still takes requests has a network to send them to.       *)
CallsOnlyWithTarget ==
    \A f \in Factories : pipes[f] > 0 <=> f \in targetBound

(* The client sees the URLLoader protocol of URLLoaderContract.             *)
C == INSTANCE URLLoaderContract
        WITH Requests <- Ids,
             view <- [id \in Ids |-> req[id].sent],
             down <- (contextData = "destroyed")

(* What makes the above inductive.  A request exists as long as its client  *)
(* has not seen its end; pipes, loader and the client's view of a redirect  *)
(* go together.                                                             *)
RequestsAreConsistent ==
    /\ \A id \in live :
          /\ req[id].owner \in Factories
          /\ req[id].loader <=> req[id].net # "none"
          /\ req[id].loader => req[id].aimed
          /\ req[id].sent \in C!InFlight
          /\ req[id].completed <=> req[id].sent = "redirected"
          /\ req[id].writing => req[id].sent = "mocked"
          /\ req[id].sent = "mocked" => req[id].net \in {"none", "redirected", "lost"}
    /\ \A id \in Ids \ live : req[id].sent \notin C!InFlight
    /\ \A id \in Ids : id > lastId => req[id].sent = "none"

(* The continuation a request waits for, stored or posted, is the one of    *)
(* the phase its loader is in: before-request hooks meet a loader that      *)
(* waits for FollowRedirect or none, the others meet the message that made  *)
(* the handler post them.                                                   *)
ContinuationMatchesPhase ==
    \A id \in live :
        /\ H!Outstanding(id) => req[id].sent = "loading"
        /\ id \in hookWait =>
              /\ callbacks[id] = "ContinueToBeforeSendHeaders"
              /\ req[id].net \in {"none", "redirected", "lost"}
              /\ req[id].loader => req[id].params
        /\ \A t \in tasks : t.id = id =>
              \/ /\ t.cont = "ContinueToBeforeSendHeaders"
                 /\ ctx[id].event = "kOnBeforeRequest"
                 /\ req[id].net \in {"none", "redirected", "lost"}
                 /\ req[id].loader => req[id].params
              \/ /\ t.cont = "ContinueToResponseStarted"
                 /\ req[id].net \in {"responded", "lost"}
              \/ /\ t.cont = "ContinueToBeforeRedirect"
                 /\ req[id].net \in {"redirected", "lost"}

(* A factory with a network exists, and the profile data with it.           *)
TargetsAreAlive ==
    /\ \A f \in targetBound : factory[f] = "alive"
    /\ \A f \in Factories : factory[f] = "alive" => contextData = "live"

(* A request without a loader that waits for nobody has no network to start *)
(* one with, and no response is under way without a loader.                 *)
LoadersStartWhenTheyCan ==
    \A id \in live :
        /\ req[id].sent = "loading" /\ ~req[id].loader /\ ~H!Outstanding(id) =>
              req[id].owner \notin targetBound
        /\ req[id].sent \in {"responded", "body"} => req[id].loader

(* Nothing will ever happen to this request until its client goes away: its *)
(* loader was lost, no network was left to start one, or the write of its   *)
(* mock response failed.                                                    *)
Abandoned(id) ==
    /\ ~H!Outstanding(id)
    /\ \/ req[id].net = "lost"
       \/ req[id].sent = "loading" /\ ~req[id].loader /\ req[id].owner \notin targetBound
       \/ req[id].sent = "mocked" /\ ~req[id].writing

(* No path through the continuations forgets a request: unless the code     *)
(* abandons it, somebody owes it a step, a hook or the task queue, its      *)
(* client, the network, whose messages are not held back, or the writer of  *)
(* its mock response.                                                       *)
NoRequestIsForgotten ==
    \A id \in live :
        \/ H!Outstanding(id)
        \/ req[id].sent = "redirected"
        \/ Delivered(id) /\ req[id].net \in {"running", "responded", "body"}
        \/ req[id].writing
        \/ Abandoned(id)

(* Requests, factories and profile data agree with one another at the end   *)
(* of every handler.                                                        *)
RequestsInv ==
    /\ TypeOK
    /\ PausedExactlyWhileWaiting
    /\ LoaderFetchesRequestURL
    /\ FollowMeetsWaitingLoader
    /\ ClientSeesWhatNetworkSent
    /\ FactoryLivesWhileNeeded
    /\ CallsOnlyWithTarget
    /\ RequestsAreConsistent
    /\ ContinuationMatchesPhase
    /\ TargetsAreAlive

(* They agree, and every request has somebody to take its next step.        *)
FactoryInv == RequestsInv /\ LoadersStartWhenTheyCan /\ NoRequestIsForgotten

(* A URL reaches the network (a new loader or a followed redirect) only     *)
(* with the consent of every hook, or when no hook has a say in it.         *)
SendsVettedRequest ==
    \A id \in Ids : req[id].net # "running" /\ req'[id].net = "running" =>
        \/ H!BeforeURLRequestReturnsOK(req'[id].scheme = "internal")
        \/ /\ ctx[id].event = "kOnBeforeRequest"
           /\ ctx[id].index = NumURLHooks /\ ~ctx[id].refused
           /\ ctx[id].blocked = "kNotBlocked"
           /\ ~redirectUrl[id]

NetworkSeesOnlyVettedRequests == [][SendsVettedRequest]_vars

(* The factories use the handler as its specification assumes: one call at  *)
(* a time per request, and OnURLRequestDestroyed for every request.         *)
HandlerSpec == H!Spec

ContractSpec == C!ContractSpec

(* Every request ends, unless it is abandoned.                              *)
EveryRequestEnds == \A id \in Ids : id \in live ~> id \notin live \/ Abandoned(id)

(* "From here the lifecycle of this request is driven by subsequent events  *)
(* on either |proxied_loader_receiver_|, |proxied_client_receiver_|" (the   *)
(* end of ContinueToStartRequest): a request that has been through          *)
(* ContinueToStartRequest, and neither waits for its client to follow a     *)
(* redirect nor serves a mock response, has a network loader to hear from.  *)
DrivenAfterStart ==
    \A id \in live :
        req[id].sent = "loading" /\ ~H!Outstanding(id) => req[id].loader
=============================================================================
