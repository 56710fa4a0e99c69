------------------------- MODULE ProxyingWebSocket --------------------------
(***************************************************************************)
(* dumb/browser/net/dumb_proxying_web_socket.{h,cc}: the proxies between a *)
(* renderer's WebSocket handshake and the network service, with the part   *)
(* of ResourceContextData that owns them and the request handler.          *)
(*                                                                         *)
(*   renderer <--forwarding_handshake_client_--   proxy                    *)
(*                proxy <--receiver_as_handshake_client_-- network         *)
(*                proxy <--receiver_as_header_client_----- network         *)
(*   header client of a chained proxy <--proxy_trusted_header_client_-->   *)
(*                                                                         *)
(* With a chained header client (proxy_has_extra_headers()) the network    *)
(* asks the proxy about request and response headers and waits for the     *)
(* stored reply callbacks, and the proxy asks the header client in turn.   *)
(*                                                                         *)
(* Left out: header contents, OnAuthRequired and OnOpeningHandshakeStarted *)
(* (forwarded without touching any state), OnFailure (empty), and the      *)
(* branches on errors the handler never returns.                           *)
(***************************************************************************)
EXTENDS Naturals

CONSTANTS
    MaxRequests,              \* bound: sockets ever started
    NumURLHooks,              \* before-request hooks of the request handler
    HasHeadersReceivedHooks,  \* are there headers-received hooks
    MaxRounds                 \* bound: times the network sends headers (once, and
                              \* again after each authentication challenge)

ASSUME SocketAssumption ==
    /\ MaxRequests \in Nat
    /\ NumURLHooks \in Nat
    /\ HasHeadersReceivedHooks \in BOOLEAN
    /\ MaxRounds \in Nat \ {0}

VARIABLES
    live, lastId, callbacks, ctx, redirectUrl, hookWait, tasks,  \* request handler
    contextData,   \* ResourceContextData of the profile: none, live, destroyed
    unstarted,     \* proxies created whose factory function was not called yet
    ws             \* the DumbProxyingWebSocket of each identifier

Continuations ==
    {"ContinueToStartRequest", "OnBeforeRequestComplete", "OnHeadersReceivedComplete"}

H == INSTANCE DumbRequestHandler

Ids == H!Ids
handlerVars == <<live, lastId, callbacks, ctx, redirectUrl, hookWait, tasks>>
vars == <<handlerVars, contextData, unstarted, ws>>

Pipe == {"unbound", "open", "paused"}

(* What the network's end of the handshake is doing.                        *)
NetActive == {"connecting", "awaitSend", "sent", "awaitReceived", "vetted"}
NetStates == {"none", "lost"} \cup NetActive

Socket == [extra     : BOOLEAN,   \* proxy_has_extra_headers()
           handshake : Pipe,      \* receiver_as_handshake_client_
           headers   : Pipe,      \* receiver_as_header_client_
           asked     : {"nothing", "OnBeforeSendHeaders", "OnHeadersReceived"},
                                  \* what the header client still has to answer
           onBeforeSendHeaders : BOOLEAN,  \* on_before_send_headers_callback_
           onHeadersReceived   : BOOLEAN,  \* on_headers_received_callback_
           emptyData : BOOLEAN,   \* redirect_url_ == kEmptyDataURI
           net       : NetStates,
           rounds    : 0..MaxRounds,
           deaf      : BOOLEAN,   \* the header client closed its pipe
           told      : {"nothing", "established", "reset", "dropped"}]
                                  \* what the renderer was told

NoSocket ==
    [extra |-> FALSE, handshake |-> "unbound", headers |-> "unbound", asked |-> "nothing",
     onBeforeSendHeaders |-> FALSE, onHeadersReceived |-> FALSE, emptyData |-> FALSE,
     net |-> "none", rounds |-> 0, deaf |-> FALSE, told |-> "nothing"]

Init ==
    /\ H!Init
    /\ contextData = "none"
    /\ unstarted = 0
    /\ ws = [id \in Ids |-> NoSocket]

-----------------------------------------------------------------------------
(* What the proxy does to its own members, as functions of its record.      *)

Pause(p)  == IF p = "open" THEN "paused" ELSE p
Resume(p) == IF p = "paused" THEN "open" ELSE p

PauseIncomingMethodCallProcessing_HandshakeOnly(r) ==
    [r EXCEPT !.handshake = Pause(@)]

PauseIncomingMethodCallProcessing(r) ==
    [r EXCEPT !.handshake = Pause(@), !.headers = Pause(@)]

ResumeIncomingMethodCallProcessing_HeadersOnly(r) ==
    [r EXCEPT !.headers = Resume(@)]

ResumeIncomingMethodCallProcessing(r) ==
    [r EXCEPT !.handshake = Resume(@), !.headers = Resume(@)]

(* Runs factory_, which is a OnceCallback.                                  *)
ContinueToStartRequest(r) ==
    [r EXCEPT !.net = "connecting", !.handshake = "open",
              !.headers = IF r.extra THEN "open" ELSE @]

(* Answers the network, or, when there is no header client, starts the      *)
(* request.                                                                 *)
OnBeforeSendHeadersComplete_AlwaysStarts(r) ==
    ContinueToStartRequest([r EXCEPT !.asked = "nothing", !.onBeforeSendHeaders = FALSE])

OnBeforeSendHeadersComplete(r) ==
    IF r.extra
    THEN [r EXCEPT !.asked = "nothing", !.onBeforeSendHeaders = FALSE,
                   !.net = IF @ = "awaitSend" THEN "sent" ELSE @]
    ELSE ContinueToStartRequest(r)

(* OnBeforeRequestComplete(net::OK) of a proxy with a header client.        *)
AskHeaderClientBeforeSend(r) ==
    [r EXCEPT !.onBeforeSendHeaders = TRUE, !.net = "awaitSend",
              !.asked = "OnBeforeSendHeaders", !.rounds = @ + 1]

(* What OnBeforeURLRequest's consent leads to.                              *)
Proceed(r) == IF r.extra THEN ContinueToStartRequest(r) ELSE OnBeforeSendHeadersComplete(r)

OnHeadersReceivedCompleteFromProxy_NoAnswer(r) ==
    ResumeIncomingMethodCallProcessing([r EXCEPT !.asked = "nothing"])

OnHeadersReceivedCompleteFromProxy(r) ==
    ResumeIncomingMethodCallProcessing(
        [r EXCEPT !.asked = "nothing", !.onHeadersReceived = FALSE,
                  !.net = IF @ = "awaitReceived" THEN "vetted" ELSE @])

(* The destructor: every pipe and stored callback goes.                     *)
Destroyed(r) ==
    [r EXCEPT !.handshake = "unbound", !.headers = "unbound", !.asked = "nothing",
              !.onBeforeSendHeaders = FALSE, !.onHeadersReceived = FALSE, !.net = "lost",
              !.told = IF @ = "nothing" THEN "dropped" ELSE @]

(* OnError of a proxy whose record is r: on_disconnect_ deletes it.         *)
OnError_WithoutNotice(id, r) ==
    /\ live' = live \ {id}
    /\ ws' = [ws EXCEPT ![id] = Destroyed(r)]
    /\ UNCHANGED callbacks

OnError(id, r) ==
    /\ H!OnURLRequestDestroyed({id})
    /\ ws' = [ws EXCEPT ![id] = Destroyed(r)]

-----------------------------------------------------------------------------
(* Creation and start.                                                      *)

StartProxyingWebSocket ==
    /\ contextData # "destroyed"
    /\ lastId + unstarted < MaxRequests
    /\ contextData' = "live"
    /\ unstarted' = unstarted + 1
    /\ UNCHANGED <<handlerVars, ws>>

Start_IgnoresPending(id, extra) ==
    LET cont == IF extra THEN "ContinueToStartRequest" ELSE "OnBeforeRequestComplete"
    IN  /\ unstarted > 0
        /\ unstarted' = unstarted - 1
        /\ UNCHANGED contextData
        /\ H!NewRequest(id, cont, FALSE)
        /\ ws' = [ws EXCEPT ![id] = Proceed([NoSocket EXCEPT !.extra = extra])]

(* Start, called directly or, for a chained proxy, by WebSocketFactoryRun.  *)
(* When all hooks answer at once and redirect to kEmptyDataURI the proxy is *)
(* gone before Start returns; other redirects are ignored.                  *)
Start(id, extra) ==
    LET cont == IF extra THEN "ContinueToStartRequest" ELSE "OnBeforeRequestComplete"
        r    == [NoSocket EXCEPT !.extra = extra]
    IN  /\ unstarted > 0
        /\ unstarted' = unstarted - 1
        /\ UNCHANGED contextData
        /\ \/ /\ H!NewRequest(id, cont, FALSE)
              /\ ws' = [ws EXCEPT ![id] = IF H!BeforeURLRequestReturnsOK(FALSE)
                                          THEN Proceed(r) ELSE r]
           \/ /\ H!NewRequestBlocked(id, cont)
              /\ ws' = [ws EXCEPT ![id] = Destroyed([r EXCEPT !.emptyData = TRUE])]

(* A pending hook answers; the URL it redirects to may be kEmptyDataURI.    *)
HookAnswers(id) ==
    /\ H!HookAnswers(id)
    /\ \E empty \in BOOLEAN :
          /\ empty => redirectUrl'[id] /\ id \in live
          /\ ws' = [ws EXCEPT ![id].emptyData = @ \/ empty]
    /\ UNCHANGED <<contextData, unstarted>>

TakeTask(t, conts) ==
    /\ t.id \in live
    /\ t.cont \in conts
    /\ tasks' = tasks \ {t}
    /\ UNCHANGED <<lastId, redirectUrl, hookWait, contextData, unstarted>>

StaleTask(t) ==
    /\ t.id \notin live
    /\ tasks' = tasks \ {t}
    /\ UNCHANGED <<live, lastId, callbacks, ctx, redirectUrl, hookWait, contextData,
                   unstarted, ws>>

(* ContinueToStartRequest(rv) and OnBeforeRequestComplete(rv), as posted by *)
(* the handler.  Without a header client the latter passes through          *)
(* OnBeforeSendHeadersCompleteFromProxy, which renews the context.          *)
HooksAnswered(t) ==
    /\ TakeTask(t, {"ContinueToStartRequest", "OnBeforeRequestComplete"})
    /\ \/ /\ t.rv # "OK"
          /\ OnError(t.id, ws[t.id])
          /\ UNCHANGED ctx
       \/ /\ t.rv = "OK"
          /\ ws' = [ws EXCEPT ![t.id] = Proceed(@)]
          /\ IF ws[t.id].extra THEN UNCHANGED ctx ELSE H!MakeCTX(t.id)
          /\ UNCHANGED <<live, callbacks>>

-----------------------------------------------------------------------------
(* The network service.                                                     *)

OnBeforeSendHeaders(id) ==
    /\ id \in live
    /\ ws[id].headers = "open"
    /\ ws[id].net \in {"connecting", "vetted"}
    /\ ws[id].rounds < MaxRounds
    /\ ws' = [ws EXCEPT ![id] = AskHeaderClientBeforeSend(@)]
    /\ UNCHANGED <<handlerVars, contextData, unstarted>>

(* OnHeadersReceived with ContinueToHeadersReceived.  redirect_url_ still   *)
(* holds what the before-request hooks wrote.                               *)
OnHeadersReceived(id) ==
    LET r == [ws[id] EXCEPT !.onHeadersReceived = TRUE, !.net = "awaitReceived"]
        paused == PauseIncomingMethodCallProcessing(r)
    IN  /\ id \in live
        /\ ws[id].headers = "open"
        /\ ws[id].net = "sent"
        /\ UNCHANGED <<lastId, redirectUrl, hookWait, contextData, unstarted>>
        /\ \/ /\ ws[id].emptyData
              /\ H!HeadersReceivedBlocked(id, "OnHeadersReceivedComplete")
              /\ ws' = [ws EXCEPT ![id] = Destroyed(r)]
           \/ /\ ~ws[id].emptyData
              /\ H!OnHeadersReceived(id, "OnHeadersReceivedComplete")
              /\ ws' = [ws EXCEPT ![id] = IF HasHeadersReceivedHooks THEN paused
                                          ELSE [paused EXCEPT !.asked = "OnHeadersReceived"]]
              /\ UNCHANGED live

(* The handler's answer, always net::OK: now the header client is asked.    *)
OnHeadersReceivedComplete(t) ==
    /\ TakeTask(t, {"OnHeadersReceivedComplete"})
    /\ ws' = [ws EXCEPT ![t.id].asked = "OnHeadersReceived"]
    /\ UNCHANGED <<live, callbacks, ctx>>

(* OnConnectionEstablished: the renderer gets its socket and the proxy      *)
(* deletes itself.  A header client's network has seen both answers.        *)
OnConnectionEstablished(id) ==
    /\ id \in live
    /\ ws[id].handshake = "open"
    /\ ws[id].net = IF ws[id].extra THEN "vetted" ELSE "connecting"
    /\ OnError(id, [ws[id] EXCEPT !.told = "established"])
    /\ UNCHANGED <<lastId, ctx, redirectUrl, hookWait, tasks, contextData, unstarted>>

(* The network gives up, after a failed handshake or a crash.               *)
NetworkGone(id) ==
    /\ id \in live
    /\ ws[id].net \in NetActive
    /\ ws' = [ws EXCEPT ![id].net = "lost"]
    /\ UNCHANGED <<handlerVars, contextData, unstarted>>

(* A paused receiver does not notice that its pipe was closed.              *)
OnMojoConnectionError(id) ==
    /\ id \in live
    /\ ws[id].handshake = "open"
    /\ ws[id].net = "lost"
    /\ OnError(id, [ws[id] EXCEPT !.told = "reset"])
    /\ UNCHANGED <<lastId, ctx, redirectUrl, hookWait, tasks, contextData, unstarted>>

-----------------------------------------------------------------------------
(* The chained header client.  Its reply callbacks hold weak pointers.      *)

OnBeforeSendHeadersCompleteFromProxy(id) ==
    /\ id \in live
    /\ ws[id].asked = "OnBeforeSendHeaders"
    /\ UNCHANGED <<contextData, unstarted>>
    /\ \/ \* it fails the request
          /\ OnError(id, ws[id])
          /\ UNCHANGED <<lastId, ctx, redirectUrl, hookWait, tasks>>
       \/ /\ H!BeforeStartTransaction(id)
          /\ ws' = [ws EXCEPT ![id] = OnBeforeSendHeadersComplete(@)]

(* Its error code is not looked at: the network is told net::OK.            *)
HeadersReceivedAnswered(id) ==
    /\ id \in live
    /\ ws[id].asked = "OnHeadersReceived"
    /\ ws' = [ws EXCEPT ![id] = OnHeadersReceivedCompleteFromProxy(@)]
    /\ UNCHANGED <<handlerVars, contextData, unstarted>>

HeaderClientAnswers(id) ==
    /\ ~ws[id].deaf
    /\ OnBeforeSendHeadersCompleteFromProxy(id) \/ HeadersReceivedAnswered(id)

(* No disconnect handler is set on proxy_trusted_header_client_.            *)
HeaderClientGone(id) ==
    /\ id \in live
    /\ ws[id].extra /\ ~ws[id].deaf
    /\ ws' = [ws EXCEPT ![id].deaf = TRUE]
    /\ UNCHANGED <<handlerVars, contextData, unstarted>>

-----------------------------------------------------------------------------

(* The profile is destroyed: websocket_proxies_ before request_handler_.    *)
Shutdown ==
    /\ contextData = "live"
    /\ contextData' = "destroyed"
    /\ unstarted' = 0
    /\ H!OnURLRequestDestroyed(live)
    /\ ws' = [id \in Ids |-> IF id \in live THEN Destroyed(ws[id]) ELSE ws[id]]
    /\ UNCHANGED <<lastId, ctx, redirectUrl, hookWait, tasks>>

RunTask(t) == StaleTask(t) \/ HooksAnswered(t) \/ OnHeadersReceivedComplete(t)

NetworkAnswers(id) ==
    OnBeforeSendHeaders(id) \/ OnHeadersReceived(id) \/ OnConnectionEstablished(id)

Next ==
    \/ StartProxyingWebSocket
    \/ \E id \in Ids, extra \in BOOLEAN : Start(id, extra)
    \/ \E id \in Ids :
          \/ HookAnswers(id) \/ NetworkAnswers(id) \/ NetworkGone(id)
          \/ OnMojoConnectionError(id) \/ HeaderClientAnswers(id) \/ HeaderClientGone(id)
    \/ \E t \in tasks : RunTask(t)
    \/ Shutdown

Spec == Init /\ [][Next]_vars

(* Hooks and header clients answer, the UI thread runs what is posted, mojo *)
(* delivers, and a network that is not gone goes on with the handshake.     *)
Fairness ==
    \A id \in Ids :
        /\ WF_vars(HookAnswers(id))
        /\ WF_vars(\E t \in tasks : t.id = id /\ RunTask(t))
        /\ WF_vars(NetworkAnswers(id))
        /\ WF_vars(HeaderClientAnswers(id))
        /\ WF_vars(OnMojoConnectionError(id))

FairSpec == Spec /\ Fairness

-----------------------------------------------------------------------------

TypeOK ==
    /\ H!TypeOK
    /\ contextData \in {"none", "live", "destroyed"}
    /\ unstarted \in 0..MaxRequests
    /\ ws \in [Ids -> Socket]

(* Exactly one party holds a socket at any time, so that nobody waits for   *)
(* nobody and no answer comes twice: the handler (a hook or a posted task), *)
(* the header client, or the network.                                       *)
OneHolder ==
    \A id \in live :
        /\ H!Outstanding(id) => ws[id].asked = "nothing"
        /\ ws[id].net = "none" => H!Outstanding(id)
        /\ ws[id].net = "awaitSend" => ws[id].asked = "OnBeforeSendHeaders"
        /\ ws[id].net = "awaitReceived" =>
              H!Outstanding(id) \/ ws[id].asked = "OnHeadersReceived"
        /\ ws[id].net \in {"connecting", "sent", "vetted"} =>
              ~H!Outstanding(id) /\ ws[id].asked = "nothing"

(* A reply callback is stored exactly as long as somebody is asked for the  *)
(* answer, also when the network has gone meanwhile: none is overwritten or *)
(* left behind.                                                             *)
RepliesAreOwed ==
    \A id \in live :
        /\ ws[id].onBeforeSendHeaders <=> ws[id].asked = "OnBeforeSendHeaders"
        /\ ws[id].onHeadersReceived <=>
              \/ ws[id].asked = "OnHeadersReceived"
              \/ H!Outstanding(id) /\ ws[id].handshake # "unbound"

(* While response headers are with a hook, the handler or the header client *)
(* both pipes of the network are paused, and they are paused for no other   *)
(* reason.                                                                  *)
PausedWhileHeadersAreVetted ==
    \A id \in live : ws[id].handshake # "unbound" =>
        /\ ws[id].handshake = IF ws[id].onHeadersReceived THEN "paused" ELSE "open"
        /\ ws[id].extra => ws[id].headers = ws[id].handshake

(* DCHECK(proxy_has_extra_headers() || !receiver_as_handshake_client_       *)
(* .is_bound()) of the continuations, and factory_ is run once: a posted or *)
(* pending start meets a proxy that has not started.                        *)
StartMeetsUnstarted ==
    \A id \in live :
        /\ id \in hookWait => ws[id].net = "none"
        /\ \A t \in tasks :
              t.id = id /\ t.cont # "OnHeadersReceivedComplete" =>
                 ws[id].net = "none" /\ ws[id].handshake = "unbound"

(* What makes the above inductive.  The pipes tell how far a proxy is:      *)
(* factory_ has been run exactly when the handshake pipe is bound, and only *)
(* a proxy with a header client has a headers pipe, something to ask or a   *)
(* network that waits for headers.  An identifier that was not generated    *)
(* yet has no proxy.                                                        *)
PipesTellPhase ==
    /\ \A id \in live :
          /\ ws[id].net = "none" <=> ws[id].handshake = "unbound"
          /\ ~ws[id].extra => /\ ws[id].headers = "unbound"
                             /\ ws[id].asked = "nothing" /\ ~ws[id].onHeadersReceived
    /\ \A id \in Ids : id > lastId => ws[id].net = "none"

(* A stored or posted continuation is the one of the proxy's phase: nothing *)
(* but OnHeadersReceivedComplete reaches a proxy that has started, and the  *)
(* others carry the before-request context of the hooks they answer for.    *)
ContinuationMatchesPhase ==
    \A id \in live :
        /\ id \in hookWait => callbacks[id] # "OnHeadersReceivedComplete"
        /\ \A t \in tasks : t.id = id =>
              IF t.cont = "OnHeadersReceivedComplete"
              THEN ws[id].handshake # "unbound"
              ELSE ctx[id].event = "kOnBeforeRequest"

SocketInv ==
    /\ TypeOK
    /\ OneHolder
    /\ RepliesAreOwed
    /\ PausedWhileHeadersAreVetted
    /\ StartMeetsUnstarted
    /\ PipesTellPhase
    /\ ContinuationMatchesPhase

(* factory_ is a OnceCallback: the network is connected to once, and only   *)
(* with the consent of every hook.                                          *)
ConnectsWithConsent ==
    \A id \in Ids : ws[id].net # "connecting" /\ ws'[id].net = "connecting" =>
        /\ ws[id].net = "none"
        /\ \/ NumURLHooks = 0
           \/ /\ ctx[id].event = "kOnBeforeRequest"
              /\ ctx[id].index = NumURLHooks /\ ~ctx[id].refused

ConnectsOnceWithConsent == [][ConnectsWithConsent]_vars

(* The proxies use the handler as its specification assumes.                *)
HandlerSpec == H!Spec

(* A header client that closed its pipe owes an answer that never comes.    *)
Abandoned(id) == ws[id].deaf /\ ws[id].asked # "nothing"

(* Every started socket is handed over or dropped, unless it is abandoned.  *)
EverySocketEnds == \A id \in Ids : id \in live ~> id \notin live \/ Abandoned(id)

(* "handle adblock kEmptyDataURI" (Start and ContinueToHeadersReceived): a  *)
(* socket that a hook redirected to kEmptyDataURI is not established.       *)
EmptyDataIsBlocked == \A id \in Ids : ws[id].told = "established" => ~ws[id].emptyData
=============================================================================
