------------------------- MODULE DumbRequestHandler -------------------------
(***************************************************************************)
(* dumb/browser/net/dumb_request_handler.{h,cc} with the per-request       *)
(* context of url_context.{h,cc} and the RequestIDGenerator of             *)
(* resource_context_data.h.                                                *)
(*                                                                         *)
(* The handler is shared by every URLLoader and WebSocket proxy of one     *)
(* profile.  A proxy calls OnBeforeURLRequest or OnHeadersReceived; the    *)
(* handler either returns net::OK at once or stores the proxy's            *)
(* continuation in callbacks_, runs the registered hooks and posts the     *)
(* continuation to the UI thread when they have all answered.  A hook may  *)
(* return ERR_IO_PENDING and answer later through next_callback.           *)
(*                                                                         *)
(* Everything runs on the UI thread, so each handler entry is one atomic   *)
(* step; the concurrency is between these steps: posted tasks, hooks that  *)
(* answer late, and proxies that are destroyed in between.                 *)
(*                                                                         *)
(* A request identifier stands for the object that owns it (an             *)
(* InProgressRequest or a DumbProxyingWebSocket): identifiers are          *)
(* generated once per object and never reused.                             *)
(***************************************************************************)
EXTENDS Naturals

CONSTANTS
    MaxRequests,              \* bound: identifiers generated by RequestIDGenerator
    NumURLHooks,              \* before_url_request_callbacks_.size()
    HasHeadersReceivedHooks,  \* ~headers_received_callbacks_.empty()
    Continuations             \* the continuations the proxies pass in

NoCallback    == "none"       \* no entry in callbacks_
MovedCallback == "moved"      \* an entry whose OnceCallback was moved out

ASSUME HandlerAssumption ==
    /\ MaxRequests \in Nat
    /\ NumURLHooks \in Nat
    /\ HasHeadersReceivedHooks \in BOOLEAN
    /\ NoCallback \notin Continuations
    /\ MovedCallback \notin Continuations

VARIABLES
    live,         \* identifiers whose proxy object exists
    lastId,       \* RequestIDGenerator::id_
    callbacks,    \* callbacks_
    ctx,          \* the DumbRequestInfo each proxy holds in ctx_
    redirectUrl,  \* is the proxy's redirect_url_ (ctx->new_url points to it) set?
    hookWait,     \* identifiers for which a hook holds next_callback
    tasks         \* continuations posted to the UI thread and not run yet

vars == <<live, lastId, callbacks, ctx, redirectUrl, hookWait, tasks>>

Ids == 1..MaxRequests

Results == {"OK", "error"}

(* blocked_by and mock_data_url together: "mocked" is a blocked request for *)
(* which ShouldMockRequest() holds.                                         *)
BlockedBy == {"kNotBlocked", "blocked", "mocked"}

Events == {"kUnknownEventType", "kOnBeforeRequest", "kOnHeadersReceived"}

(* newUrl: new_url_spec is neither empty nor the request's own URL.         *)
(* refused is history, which no guard reads: a hook has returned an error.  *)
RequestInfo == [event : Events, index : 0..NumURLHooks,
                newUrl : BOOLEAN, blocked : BlockedBy, refused : BOOLEAN]

Tasks == [id : Ids, cont : Continuations \cup {MovedCallback}, rv : Results]

-----------------------------------------------------------------------------

(* DumbRequestInfo::MakeCTX: nothing of what the hooks wrote into the old   *)
(* context survives.  The handler then sets event_type.                     *)
FreshCTX(event) == [event |-> event, index |-> 0,
                    newUrl |-> FALSE, blocked |-> "kNotBlocked", refused |-> FALSE]

MakeCTX(id) == ctx' = [ctx EXCEPT ![id] = FreshCTX("kUnknownEventType")]

Init ==
    /\ live = {}
    /\ lastId = 0
    /\ callbacks = [id \in Ids |-> NoCallback]
    /\ ctx = [id \in Ids |-> FreshCTX("kUnknownEventType")]
    /\ redirectUrl = [id \in Ids |-> FALSE]
    /\ hookWait = {}
    /\ tasks = {}

-----------------------------------------------------------------------------

(* The callback is moved out of the map but its entry stays behind.         *)
RunCallbackForRequestIdentifier_DropsError(id, cb, rv) ==
    /\ callbacks' = [callbacks EXCEPT ![id] = MovedCallback]
    /\ tasks' = tasks \cup {[id |-> id, cont |-> cb, rv |-> "OK"]}

RunCallbackForRequestIdentifier(id, cb, rv) ==
    /\ callbacks' = [callbacks EXCEPT ![id] = MovedCallback]
    /\ tasks' = tasks \cup {[id |-> id, cont |-> cb, rv |-> rv]}

(* A hook returns ERR_IO_PENDING: RunNextCallback returns and the stored    *)
(* callback stays in the map.                                               *)
HookPends_PostsAnyway(id, cb, wait) ==
    /\ hookWait' = wait \cup {id}
    /\ redirectUrl' = [redirectUrl EXCEPT ![id] = FALSE]
    /\ RunCallbackForRequestIdentifier(id, cb, "OK")

HookPends(id, cb, wait) ==
    /\ hookWait' = wait \cup {id}
    /\ redirectUrl' = [redirectUrl EXCEPT ![id] = FALSE]
    /\ callbacks' = [callbacks EXCEPT ![id] = cb]
    /\ UNCHANGED tasks

(* The loop over the hooks is over: *ctx->new_url is written, if at all,    *)
(* before the callback is posted.                                           *)
HooksDone(id, cb, wait, rv, newUrl) ==
    /\ hookWait' = wait
    /\ redirectUrl' = [redirectUrl EXCEPT ![id] = newUrl]
    /\ RunCallbackForRequestIdentifier(id, cb, rv)

(* The values next_url_request_index may have when the loop stops.          *)
StopIndexes_OffByOne(c) == c.index..(NumURLHooks + 1)
StopIndexes(c) == c.index..NumURLHooks

(* RunNextCallback for kOnBeforeRequest once its Contains() check has       *)
(* passed.  c is the context it is bound to, cb the callback stored in the  *)
(* map, wait the other requests a hook holds.  The hooks that run may write *)
(* new_url_spec, blocked_by and mock_data_url.  The last hook run is the    *)
(* one at index - 1.                                                        *)
RunNextCallback(id, c, cb, wait) ==
    \E index \in StopIndexes(c), newUrl \in BOOLEAN, blocked \in BlockedBy, refused \in BOOLEAN :
        /\ ctx' = [ctx EXCEPT ![id] = [c EXCEPT !.index = index, !.newUrl = newUrl,
                                                !.blocked = blocked, !.refused = refused]]
        /\ \/ index > c.index /\ ~refused /\ HookPends(id, cb, wait)
           \/ index > c.index /\ refused /\ HooksDone(id, cb, wait, "error", FALSE)
           \/ index = NumURLHooks /\ ~refused /\ HooksDone(id, cb, wait, "OK", newUrl)

(* The early return of OnBeforeURLRequest.                                  *)
BeforeURLRequestReturnsOK(internalScheme) == NumURLHooks = 0 \/ internalScheme

(* OnBeforeURLRequest, with the caller's MakeCTX and redirect_url_ = GURL() *)
(* that always precede it.                                                  *)
OnBeforeURLRequest(id, cont, internalScheme) ==
    \/ /\ BeforeURLRequestReturnsOK(internalScheme)
       /\ MakeCTX(id)
       /\ redirectUrl' = [redirectUrl EXCEPT ![id] = FALSE]
       /\ UNCHANGED <<callbacks, hookWait, tasks>>
    \/ /\ ~BeforeURLRequestReturnsOK(internalScheme)
       /\ RunNextCallback(id, FreshCTX("kOnBeforeRequest"), cont, hookWait)

(* OnHeadersReceived, with the caller's MakeCTX.  RunNextCallback has no    *)
(* loop for kOnHeadersReceived: the registered hooks are never called and   *)
(* net::OK is posted.  Left out is that a chrome:// URL is treated as if    *)
(* there were hooks: both callers call for http(s) and ws(s) URLs only.     *)
OnHeadersReceived(id, cont) ==
    \/ /\ ~HasHeadersReceivedHooks
       /\ MakeCTX(id)
       /\ UNCHANGED <<callbacks, tasks>>
    \/ /\ HasHeadersReceivedHooks
       /\ ctx' = [ctx EXCEPT ![id] = FreshCTX("kOnHeadersReceived")]
       /\ RunCallbackForRequestIdentifier(id, cont, "OK")

(* The destructors of the proxies in S: OnURLRequestDestroyed for each.     *)
OnURLRequestDestroyed_KeepsCallback(S) ==
    /\ live' = live \ S
    /\ UNCHANGED callbacks

OnURLRequestDestroyed(S) ==
    /\ live' = live \ S
    /\ callbacks' = [id \in Ids |-> IF id \in S THEN NoCallback ELSE callbacks[id]]

(* A pending hook answers: next_callback runs RunNextCallback on the        *)
(* context the hook was given.  When the request is gone only the hook's    *)
(* reference is dropped.                                                    *)
HookAnswers_DropsAnswer(id) ==
    /\ id \in hookWait
    /\ hookWait' = hookWait \ {id}
    /\ UNCHANGED <<live, lastId, callbacks, ctx, redirectUrl, tasks>>

HookAnswers_FromFirstHook(id) ==
    /\ id \in hookWait
    /\ UNCHANGED <<live, lastId>>
    /\ callbacks[id] # NoCallback
    /\ RunNextCallback(id, [ctx[id] EXCEPT !.index = 0], callbacks[id], hookWait \ {id})

HookAnswers(id) ==
    /\ id \in hookWait
    /\ UNCHANGED <<live, lastId>>
    /\ \/ /\ callbacks[id] = NoCallback
          /\ hookWait' = hookWait \ {id}
          /\ UNCHANGED <<callbacks, ctx, redirectUrl, tasks>>
       \/ /\ callbacks[id] # NoCallback
          /\ RunNextCallback(id, ctx[id], callbacks[id], hookWait \ {id})

-----------------------------------------------------------------------------
(* What the handler's callers do, the only way it is ever used: they make   *)
(* one call at a time per request, and go away whenever they like.          *)

(* A continuation of the request is with a hook or in the task queue.       *)
Outstanding(id) == id \in hookWait \/ \E t \in tasks : t.id = id

(* A proxy object is created with RequestIDGenerator::Generate() and makes  *)
(* its first call.                                                          *)
NewRequest(id, cont, internalScheme) ==
    /\ id = lastId + 1
    /\ lastId' = id
    /\ live' = live \cup {id}
    /\ OnBeforeURLRequest(id, cont, internalScheme)

(* The proxy starts over on a redirect.                                     *)
RestartRequest(id, cont, internalScheme) ==
    /\ id \in live
    /\ ~Outstanding(id)
    /\ OnBeforeURLRequest(id, cont, internalScheme)
    /\ UNCHANGED <<live, lastId>>

(* A loader proxy clears its redirect_url_ first, a WebSocket proxy keeps   *)
(* what the before-request hooks wrote.                                     *)
HeadersReceived(id, cont) ==
    /\ id \in live
    /\ ~Outstanding(id)
    /\ OnHeadersReceived(id, cont)
    /\ redirectUrl' \in {redirectUrl, [redirectUrl EXCEPT ![id] = FALSE]}
    /\ UNCHANGED <<live, lastId, hookWait>>

(* A loader proxy of a URL that is not http(s) only clears redirect_url_.   *)
SkipHeadersReceived(id) ==
    /\ id \in live
    /\ ~Outstanding(id)
    /\ redirectUrl' = [redirectUrl EXCEPT ![id] = FALSE]
    /\ UNCHANGED <<live, lastId, callbacks, ctx, hookWait, tasks>>

(* OnBeforeStartTransaction always returns net::OK; its caller makes a new  *)
(* context for it.                                                          *)
BeforeStartTransaction(id) ==
    /\ id \in live
    /\ ~Outstanding(id)
    /\ MakeCTX(id)
    /\ UNCHANGED <<live, lastId, callbacks, redirectUrl, hookWait, tasks>>

(* A WebSocket proxy that finds kEmptyDataURI in redirect_url_ when the     *)
(* handler returns is destroyed at once, and its posted continuation finds  *)
(* nobody.  In its first call all hooks have answered at once; in           *)
(* OnHeadersReceived redirect_url_ is an old one.                           *)
NewRequestBlocked(id, cont) ==
    /\ ~BeforeURLRequestReturnsOK(FALSE)
    /\ id = lastId + 1
    /\ lastId' = id
    /\ redirectUrl' = [redirectUrl EXCEPT ![id] = TRUE]
    /\ \E blocked \in BlockedBy :
          ctx' = [ctx EXCEPT ![id] = [event |-> "kOnBeforeRequest", index |-> NumURLHooks,
                                      newUrl |-> TRUE, blocked |-> blocked,
                                      refused |-> FALSE]]
    /\ tasks' = tasks \cup {[id |-> id, cont |-> cont, rv |-> "OK"]}
    /\ UNCHANGED <<live, callbacks, hookWait>>

HeadersReceivedBlocked(id, cont) ==
    /\ id \in live
    /\ ~Outstanding(id)
    /\ live' = live \ {id}
    /\ callbacks' = [callbacks EXCEPT ![id] = NoCallback]
    /\ ctx' = [ctx EXCEPT ![id] = FreshCTX(IF HasHeadersReceivedHooks
                                           THEN "kOnHeadersReceived" ELSE "kUnknownEventType")]
    /\ tasks' = tasks \cup IF HasHeadersReceivedHooks
                           THEN {[id |-> id, cont |-> cont, rv |-> "OK"]} ELSE {}
    /\ UNCHANGED <<lastId, redirectUrl, hookWait>>

(* The UI thread runs a posted continuation.  It is bound to a weak pointer *)
(* and does nothing for a proxy that is gone; otherwise the proxy may go on *)
(* with its context, replace it (MakeCTX) or be destroyed.                  *)
RunTask(t) ==
    /\ t \in tasks
    /\ tasks' = tasks \ {t}
    /\ UNCHANGED <<lastId, redirectUrl, hookWait>>
    /\ \/ UNCHANGED <<live, callbacks, ctx>>
       \/ t.id \in live /\ MakeCTX(t.id) /\ UNCHANGED <<live, callbacks>>
       \/ t.id \in live /\ OnURLRequestDestroyed({t.id}) /\ UNCHANGED ctx

Destroy(S) ==
    /\ S # {}
    /\ OnURLRequestDestroyed(S)
    /\ UNCHANGED <<lastId, ctx, redirectUrl, hookWait, tasks>>

Next ==
    \/ \E id \in Ids, cont \in Continuations, internal \in BOOLEAN :
          NewRequest(id, cont, internal) \/ RestartRequest(id, cont, internal)
    \/ \E id \in Ids, cont \in Continuations :
          \/ HeadersReceived(id, cont)
          \/ NewRequestBlocked(id, cont) \/ HeadersReceivedBlocked(id, cont)
    \/ \E id \in Ids :
          SkipHeadersReceived(id) \/ BeforeStartTransaction(id) \/ HookAnswers(id)
    \/ \E t \in tasks : RunTask(t)
    \/ \E S \in SUBSET live : Destroy(S)

Spec == Init /\ [][Next]_vars

(* Hooks answer and the UI thread runs what was posted to it.               *)
Fairness ==
    /\ \A id \in Ids : WF_vars(HookAnswers(id))
    /\ \A t \in Tasks : WF_vars(RunTask(t))

FairSpec == Spec /\ Fairness

-----------------------------------------------------------------------------

TypeOK ==
    /\ live \subseteq Ids
    /\ lastId \in 0..MaxRequests
    /\ callbacks \in [Ids -> Continuations \cup {NoCallback, MovedCallback}]
    /\ ctx \in [Ids -> RequestInfo]
    /\ redirectUrl \in [Ids -> BOOLEAN]
    /\ hookWait \subseteq Ids
    /\ tasks \subseteq Tasks

(* callbacks_ has entries of existing proxies only.  RunNextCallback writes *)
(* through the raw pointer ctx->new_url after nothing but a look-up in      *)
(* callbacks_, so an entry that outlives its proxy is a write after free    *)
(* when a slow hook answers.                                                *)
CallbacksOwnedByLiveRequests ==
    \A id \in Ids : callbacks[id] # NoCallback => id \in live

(* A proxy waits for at most one continuation: never for a hook and a       *)
(* posted task at once, never for two tasks.  The proxies' phase is kept in *)
(* the bound function alone, so a second continuation would run a phase     *)
(* twice.                                                                   *)
AtMostOneContinuation ==
    /\ \A t \in tasks : t.id \in live => t.id \notin hookWait
    /\ \A t, u \in tasks : t.id = u.id /\ t.id \in live => t = u

(* RunCallbackForRequestIdentifier leaves a moved-from callback in the map; *)
(* it is never posted (running it would be a null OnceCallback).            *)
NoMovedCallbackPosted == \A t \in tasks : t.cont # MovedCallback

(* net::OK is posted for a request only after every before-request hook has *)
(* returned net::OK: neither an error of any of them, the last one          *)
(* included, nor a pending hook is ever taken for consent.                  *)
OKOnlyAfterEveryHook ==
    \A t \in tasks :
        t.id \in live /\ t.rv = "OK" /\ ctx[t.id].event = "kOnBeforeRequest"
            => ctx[t.id].index = NumURLHooks /\ ~ctx[t.id].refused

(* The hooks run in order and each at most once for a URL: while a request  *)
(* waits, next_url_request_index only grows and the context a hook holds is *)
(* not replaced by another one, so what it writes is what the proxy reads.  *)
HookOrderStep ==
    \A id \in hookWait \cap live : ctx'[id] # ctx[id] =>
        /\ ctx'[id].event = ctx[id].event
        /\ ctx'[id].index >= ctx[id].index
        /\ id \in hookWait' => ctx'[id].index > ctx[id].index

HooksRunOnceInOrder == [][HookOrderStep]_vars

(* A call that waits for a hook gets its continuation posted, unless the    *)
(* proxy goes away first.                                                   *)
EveryPendingCallIsAnswered ==
    \A id \in Ids : id \in hookWait /\ id \in live ~>
        id \notin live \/ \E t \in tasks : t.id = id

(* Strengthening of the above that is inductive: identifiers not generated  *)
(* yet have left no trace, and a proxy with a pending hook has its callback *)
(* in the map.                                                              *)
FutureIdsUntouched ==
    /\ \A id \in live \cup hookWait : id <= lastId
    /\ \A t \in tasks : t.id <= lastId

PendingHookHasCallback ==
    \A id \in hookWait \cap live :
        callbacks[id] \in Continuations /\ ctx[id].event = "kOnBeforeRequest"

HandlerInv ==
    /\ TypeOK
    /\ CallbacksOwnedByLiveRequests
    /\ AtMostOneContinuation
    /\ NoMovedCallbackPosted
    /\ OKOnlyAfterEveryHook
    /\ FutureIdsUntouched
    /\ PendingHookHasCallback
=============================================================================
