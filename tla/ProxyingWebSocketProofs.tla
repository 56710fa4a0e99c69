---------------------- MODULE ProxyingWebSocketProofs -----------------------
(***************************************************************************)
(* Proofs about ProxyingWebSocket, for any number of sockets, hooks and    *)
(* rounds.  The proxies keep to the calling convention of the request      *)
(* handler only because of their own invariant, and their invariant needs  *)
(* the handler's, so the two are proved together: every step of the        *)
(* proxies is a step of the handler or leaves it alone, hence keeps        *)
(* HandlerInv by the handler's own theorem, and with HandlerInv before and *)
(* after the step SocketInv is kept too.                                   *)
(***************************************************************************)
EXTENDS ProxyingWebSocket, TLAPS

(* The handler's theorems, about the variables of this module.              *)
HP == INSTANCE DumbRequestHandlerProofs

IInv == H!HandlerInv /\ SocketInv

(* The conjuncts of SocketInv for one socket.                               *)
SocketOK(id) ==
    LET s == ws[id] IN
    /\ H!Outstanding(id) => s.asked = "nothing"
    /\ s.net = "none" => H!Outstanding(id)
    /\ s.net = "awaitSend" => s.asked = "OnBeforeSendHeaders"
    /\ s.net = "awaitReceived" => H!Outstanding(id) \/ s.asked = "OnHeadersReceived"
    /\ s.net \in {"connecting", "sent", "vetted"} =>
          ~H!Outstanding(id) /\ s.asked = "nothing"
    /\ s.onBeforeSendHeaders <=> s.asked = "OnBeforeSendHeaders"
    /\ s.onHeadersReceived <=>
          s.asked = "OnHeadersReceived" \/ (H!Outstanding(id) /\ s.handshake # "unbound")
    /\ s.handshake # "unbound" =>
          /\ s.handshake = IF s.onHeadersReceived THEN "paused" ELSE "open"
          /\ s.extra => s.headers = s.handshake
    /\ id \in hookWait => s.net = "none" /\ callbacks[id] # "OnHeadersReceivedComplete"
    /\ \A t \in tasks : t.id = id =>
          IF t.cont = "OnHeadersReceivedComplete" THEN s.handshake # "unbound"
          ELSE s.net = "none" /\ s.handshake = "unbound" /\ ctx[id].event = "kOnBeforeRequest"
    /\ s.net = "none" <=> s.handshake = "unbound"
    /\ ~s.extra => s.headers = "unbound" /\ s.asked = "nothing" /\ ~s.onHeadersReceived

EverySocketOK ==
    /\ TypeOK
    /\ \A id \in live : SocketOK(id)
    /\ \A id \in Ids : id > lastId => ws[id].net = "none"

LEMMA SocketInvByParts == SocketInv <=> EverySocketOK
<1>1. SocketInv => \A id \in live : SocketOK(id)
  BY DEF SocketInv, OneHolder, RepliesAreOwed, PausedWhileHeadersAreVetted, StartMeetsUnstarted,
         PipesTellPhase, ContinuationMatchesPhase, SocketOK
<1>2. SocketInv => TypeOK /\ \A id \in Ids : id > lastId => ws[id].net = "none"
  BY DEF SocketInv, PipesTellPhase
<1>3. ASSUME TypeOK, \A id \in live : SocketOK(id),
             \A id \in Ids : id > lastId => ws[id].net = "none"
      PROVE  SocketInv
  <2>1. OneHolder
    BY <1>3 DEF OneHolder, SocketOK
  <2>2. RepliesAreOwed
    BY <1>3 DEF RepliesAreOwed, SocketOK
  <2>3. PausedWhileHeadersAreVetted
    BY <1>3 DEF PausedWhileHeadersAreVetted, SocketOK
  <2>4. StartMeetsUnstarted
    BY <1>3 DEF StartMeetsUnstarted, SocketOK
  <2>5. PipesTellPhase
    BY <1>3 DEF PipesTellPhase, SocketOK
  <2>6. ContinuationMatchesPhase
    BY <1>3 DEF ContinuationMatchesPhase, SocketOK
  <2> QED BY <1>3, <2>1, <2>2, <2>3, <2>4, <2>5, <2>6 DEF SocketInv
<1> QED BY <1>1, <1>2, <1>3 DEF EverySocketOK

LEMMA ContinuationsFit == HP!HandlerAssumption
BY SocketAssumption
   DEF HP!HandlerAssumption, Continuations, HP!NoCallback, HP!MovedCallback

(* H and HP are instances of the same specification.                        *)
LEMMA SameHandler ==
    /\ H!vars = HP!vars
    /\ H!Init <=> HP!Init
    /\ H!Next <=> HP!Next
    /\ H!HandlerInv <=> HP!HandlerInv
<1>1. H!vars = HP!vars
  BY DEF H!vars, HP!vars
<1>2. H!Init <=> HP!Init
  BY
     DEF H!Init, HP!Init, H!Ids, HP!Ids, H!FreshCTX, HP!FreshCTX, H!NoCallback,
         HP!NoCallback
<1>3. H!Next <=> HP!Next
  BY
     DEF H!Ids, HP!Ids, H!Results, HP!Results, H!BlockedBy, HP!BlockedBy, H!Events,
         HP!Events, H!RequestInfo, HP!RequestInfo, H!Tasks, HP!Tasks, H!FreshCTX,
         HP!FreshCTX, H!MakeCTX, HP!MakeCTX, H!RunCallbackForRequestIdentifier,
         HP!RunCallbackForRequestIdentifier, H!HookPends, HP!HookPends, H!HooksDone,
         HP!HooksDone, H!StopIndexes, HP!StopIndexes, H!RunNextCallback,
         HP!RunNextCallback, H!BeforeURLRequestReturnsOK, HP!BeforeURLRequestReturnsOK,
         H!OnBeforeURLRequest, HP!OnBeforeURLRequest, H!OnHeadersReceived,
         HP!OnHeadersReceived, H!OnURLRequestDestroyed, HP!OnURLRequestDestroyed,
         H!HookAnswers, HP!HookAnswers, H!Outstanding, HP!Outstanding, H!NewRequest,
         HP!NewRequest, H!RestartRequest, HP!RestartRequest, H!HeadersReceived,
         HP!HeadersReceived, H!SkipHeadersReceived, HP!SkipHeadersReceived,
         H!BeforeStartTransaction, HP!BeforeStartTransaction, H!NewRequestBlocked,
         HP!NewRequestBlocked, H!HeadersReceivedBlocked, HP!HeadersReceivedBlocked,
         H!RunTask, HP!RunTask, H!Destroy, HP!Destroy, H!Next, HP!Next, H!NoCallback,
         HP!NoCallback, H!MovedCallback, HP!MovedCallback
<1>4. H!HandlerInv <=> HP!HandlerInv
  BY
     DEF H!TypeOK, HP!TypeOK, H!CallbacksOwnedByLiveRequests,
         HP!CallbacksOwnedByLiveRequests, H!AtMostOneContinuation,
         HP!AtMostOneContinuation, H!NoMovedCallbackPosted, HP!NoMovedCallbackPosted,
         H!OKOnlyAfterEveryHook, HP!OKOnlyAfterEveryHook, H!FutureIdsUntouched,
         HP!FutureIdsUntouched, H!PendingHookHasCallback, HP!PendingHookHasCallback,
         H!HandlerInv, HP!HandlerInv, H!Ids, HP!Ids, H!Results, HP!Results, H!BlockedBy,
         HP!BlockedBy, H!Events, HP!Events, H!RequestInfo, HP!RequestInfo, H!Tasks,
         HP!Tasks, H!NoCallback, HP!NoCallback, H!MovedCallback, HP!MovedCallback
<1> QED BY <1>1, <1>2, <1>3, <1>4

LEMMA HandlerInitInv == H!Init => H!HandlerInv
BY ContinuationsFit, SameHandler, HP!InitEstablishesInv

LEMMA HandlerStepKeepsInv == H!HandlerInv /\ [H!Next]_H!vars => H!HandlerInv'
<1>1. HP!HandlerInv /\ [HP!Next]_HP!vars => HP!HandlerInv'
  BY ContinuationsFit, HP!NextKeepsInv, Zenon
<1>2. (H!HandlerInv <=> HP!HandlerInv)'
  BY SameHandler, PTL
<1>3. [H!Next]_H!vars => [HP!Next]_HP!vars
  BY SameHandler DEF H!vars, HP!vars
<1> QED BY <1>1, <1>2, <1>3, SameHandler

-----------------------------------------------------------------------------
(* Every step of the proxies is a step of the handler or does not touch it. *)

LEMMA Introduction ==
    ASSUME NEW id \in Ids, NEW extra \in BOOLEAN, Start(id, extra)
    PROVE  H!Next
<1> DEFINE cont == IF extra THEN "ContinueToStartRequest" ELSE "OnBeforeRequestComplete"
<1>1. cont \in Continuations
  BY DEF Continuations
<1>2. H!NewRequest(id, cont, FALSE) \/ H!NewRequestBlocked(id, cont)
  BY DEF Start
<1> HIDE DEF cont
<1> QED BY <1>1, <1>2 DEF H!Next, Ids

LEMMA HeadersAtHandler ==
    ASSUME IInv, NEW id \in Ids, OnHeadersReceived(id)
    PROVE  H!Next
<1> DEFINE cont == "OnHeadersReceivedComplete"
<1>1. cont \in Continuations
  BY DEF Continuations
<1>2. id \in live /\ ~H!Outstanding(id)
  BY DEF IInv, SocketInv, OneHolder, OnHeadersReceived
<1>3. H!HeadersReceivedBlocked(id, cont) \/ H!HeadersReceived(id, cont)
  BY <1>2 DEF OnHeadersReceived, H!HeadersReceived
<1> HIDE DEF cont
<1> QED BY <1>1, <1>3 DEF H!Next, Ids

LEMMA DeletionAtHandler ==
    ASSUME IInv, NEW id \in live, H!OnURLRequestDestroyed({id}),
           UNCHANGED <<lastId, ctx, redirectUrl, hookWait, tasks>>
    PROVE  H!Next
<1>1. H!Destroy({id}) /\ {id} \in SUBSET live
  BY DEF H!Destroy
<1> QED BY <1>1 DEF H!Next

LEMMA HeaderClientAtHandler ==
    ASSUME IInv, NEW id \in Ids, HeaderClientAnswers(id)
    PROVE  [H!Next]_H!vars
<1>1. CASE OnBeforeSendHeadersCompleteFromProxy(id)
  <2>1. id \in live /\ ~H!Outstanding(id)
    BY <1>1 DEF IInv, SocketInv, OneHolder, OnBeforeSendHeadersCompleteFromProxy
  <2>2. CASE H!BeforeStartTransaction(id)
    BY <2>2 DEF H!Next, Ids
  <2>3. CASE /\ OnError(id, ws[id])
             /\ UNCHANGED <<lastId, ctx, redirectUrl, hookWait, tasks>>
    BY <2>1, <2>3, DeletionAtHandler DEF OnError
  <2> QED BY <1>1, <2>2, <2>3 DEF OnBeforeSendHeadersCompleteFromProxy
<1>2. CASE HeadersReceivedAnswered(id)
  BY <1>2 DEF HeadersReceivedAnswered, handlerVars, H!vars
<1> QED BY <1>1, <1>2 DEF HeaderClientAnswers

LEMMA TaskAtHandler ==
    ASSUME IInv, NEW t \in tasks, RunTask(t)
    PROVE  H!Next
<1>1. tasks' = tasks \ {t} /\ UNCHANGED <<lastId, redirectUrl, hookWait>>
  BY DEF RunTask, StaleTask, HooksAnswered, OnHeadersReceivedComplete, TakeTask
<1>2. \/ UNCHANGED <<live, callbacks, ctx>>
      \/ t.id \in live /\ H!MakeCTX(t.id) /\ UNCHANGED <<live, callbacks>>
      \/ t.id \in live /\ H!OnURLRequestDestroyed({t.id}) /\ UNCHANGED ctx
  BY DEF RunTask, StaleTask, HooksAnswered, OnHeadersReceivedComplete, TakeTask, OnError
<1>3. H!RunTask(t)
  BY <1>1, <1>2 DEF H!RunTask
<1> QED BY <1>3 DEF H!Next

LEMMA ShutdownAtHandler ==
    ASSUME IInv, Shutdown
    PROVE  [H!Next]_H!vars
<1>1. CASE live = {}
  <2>1. live' = live /\ callbacks' = [id \in Ids |-> callbacks[id]]
    BY <1>1 DEF Shutdown, H!OnURLRequestDestroyed, Ids
  <2>2. callbacks' = callbacks
    BY <2>1 DEF IInv, SocketInv, TypeOK, H!TypeOK, Ids
  <2> QED BY <2>1, <2>2 DEF Shutdown, H!vars
<1>2. CASE live # {}
  <2>1. H!Destroy(live) /\ live \in SUBSET live
    BY <1>2 DEF Shutdown, H!Destroy
  <2> QED BY <2>1 DEF H!Next
<1> QED BY <1>1, <1>2

LEMMA StepOfHandler == IInv /\ [Next]_vars => [H!Next]_H!vars
<1> SUFFICES ASSUME IInv, [Next]_vars PROVE [H!Next]_H!vars
  OBVIOUS
<1>1. ASSUME UNCHANGED handlerVars
      PROVE  [H!Next]_H!vars
  BY <1>1 DEF handlerVars, H!vars
<1>2. ASSUME NEW id \in Ids, HookAnswers(id)
      PROVE  H!Next
  BY <1>2 DEF HookAnswers, H!Next, Ids
<1>3. ASSUME NEW id \in Ids, NetworkAnswers(id) \/ OnMojoConnectionError(id)
      PROVE  [H!Next]_H!vars
  <2>1. CASE OnBeforeSendHeaders(id)
    BY <1>1, <2>1 DEF OnBeforeSendHeaders
  <2>2. CASE OnHeadersReceived(id)
    BY <2>2, HeadersAtHandler
  <2>3. CASE OnConnectionEstablished(id) \/ OnMojoConnectionError(id)
    BY <2>3, DeletionAtHandler DEF OnConnectionEstablished, OnMojoConnectionError, OnError
  <2> QED BY <1>3, <2>1, <2>2, <2>3 DEF NetworkAnswers
<1>4. CASE StartProxyingWebSocket
  BY <1>1, <1>4 DEF StartProxyingWebSocket
<1>5. ASSUME NEW id \in Ids, NetworkGone(id) \/ HeaderClientGone(id)
      PROVE  [H!Next]_H!vars
  BY <1>1, <1>5 DEF NetworkGone, HeaderClientGone
<1>6. CASE UNCHANGED vars
  BY <1>1, <1>6 DEF vars
<1> QED BY <1>2, <1>3, <1>4, <1>5, <1>6, Introduction, HeaderClientAtHandler, TaskAtHandler,
           ShutdownAtHandler DEF Next

-----------------------------------------------------------------------------
(* SocketInv is kept.  Nearly every step concerns one socket, and leaves    *)
(* what the handler holds for the others as it was.                         *)

Untouched(id) ==
    /\ id \in hookWait' <=> id \in hookWait
    /\ \A t \in tasks \cup tasks' : t.id = id => (t \in tasks' <=> t \in tasks)
    /\ callbacks'[id] = callbacks[id]
    /\ ctx'[id] = ctx[id]

LEMMA UntouchedStaysOK ==
    ASSUME NEW id, SocketOK(id), Untouched(id), ws'[id] = ws[id]
    PROVE  SocketOK(id)'
<1>1. H!Outstanding(id)' <=> H!Outstanding(id)
  BY DEF H!Outstanding, Untouched
<1>2. \A t \in tasks' : t.id = id => t \in tasks
  BY DEF Untouched
<1> QED BY <1>1, <1>2 DEF SocketOK, Untouched

LEMMA OneSocketStep ==
    ASSUME IInv, H!HandlerInv',
           NEW id \in Ids, NEW r \in Socket, ws' = [ws EXCEPT ![id] = r],
           contextData' \in {"none", "live", "destroyed"}, unstarted' \in 0..MaxRequests,
           live' \subseteq live \cup {id},
           \A i \in Ids \ {id} : Untouched(i),
           id \in live' => SocketOK(id)',
           lastId <= lastId', id <= lastId' \/ r.net = "none"
    PROVE  SocketInv'
<1>1. TypeOK /\ (\A i \in live : SocketOK(i)) /\ \A i \in Ids : i > lastId => ws[i].net = "none"
  BY SocketInvByParts DEF IInv, EverySocketOK
<1>2. ws'[id] = r /\ \A i \in Ids \ {id} : ws'[i] = ws[i]
  BY <1>1 DEF TypeOK
<1>3. TypeOK'
  <2>1. H!TypeOK'
    BY DEF H!HandlerInv
  <2>2. ws' \in [Ids' -> Socket']
    BY <1>1 DEF TypeOK, Ids, H!Ids, Socket
  <2> QED BY <2>1, <2>2 DEF TypeOK
<1>4. ASSUME NEW i \in live' PROVE SocketOK(i)'
  <2>1. i = id \/ (i \in live /\ i \in Ids \ {id})
    BY <1>1 DEF TypeOK, H!TypeOK, Ids
  <2> QED BY <1>1, <1>2, <2>1, UntouchedStaysOK
<1>5. ASSUME NEW i \in Ids, i > lastId' PROVE ws'[i].net = "none"
  <2>1. i \in Nat /\ id \in Nat /\ lastId \in Nat /\ lastId' \in Nat
    BY <1>1, <1>3 DEF TypeOK, H!TypeOK, Ids, H!Ids
  <2>2. i > lastId /\ (i = id => r.net = "none")
    BY <1>5, <2>1
  <2> QED BY <1>1, <1>2, <2>2
<1>6. (SocketInv <=> EverySocketOK)'
  BY SocketInvByParts, PTL
<1> QED BY <1>3, <1>4, <1>5, <1>6 DEF EverySocketOK, Ids, H!Ids

(* What a live socket may rely on.                                          *)
LEMMA LiveSocket ==
    ASSUME IInv, NEW id \in live
    PROVE  /\ id \in Ids /\ ws[id] \in Socket /\ SocketOK(id)
           /\ lastId \in Nat /\ id <= lastId
           /\ ws \in [Ids -> Socket] /\ ctx \in [Ids -> H!RequestInfo]
           /\ callbacks \in [Ids -> Continuations \cup {H!NoCallback, H!MovedCallback}]
           /\ contextData \in {"none", "live", "destroyed"} /\ unstarted \in 0..MaxRequests
<1>1. TypeOK /\ SocketOK(id)
  BY SocketInvByParts DEF IInv, EverySocketOK
<1>2. id <= lastId
  BY DEF IInv, H!HandlerInv, H!FutureIdsUntouched
<1> QED BY <1>1, <1>2 DEF TypeOK, H!TypeOK, Ids

LEMMA DestroyedType == ASSUME NEW r \in Socket PROVE Destroyed(r) \in Socket
BY DEF Destroyed, Socket, Pipe, NetStates

(* A proxy deletes itself.                                                  *)
LEMMA DeletionKeepsInv ==
    ASSUME IInv, H!HandlerInv', NEW id \in live, NEW r \in Socket, OnError(id, r),
           \A i \in Ids \ {id} : ctx'[i] = ctx[i],
           \A t \in tasks \cup tasks' : t.id # id => (t \in tasks' <=> t \in tasks),
           UNCHANGED <<lastId, hookWait, contextData, unstarted>>
    PROVE  SocketInv'
<1>1. /\ live' = live \ {id}
      /\ callbacks' = [i \in Ids |-> IF i \in {id} THEN H!NoCallback ELSE callbacks[i]]
      /\ ws' = [ws EXCEPT ![id] = Destroyed(r)]
  BY DEF OnError, H!OnURLRequestDestroyed, Ids
<1>2. Destroyed(r) \in Socket
  BY DestroyedType
<1>3. \A i \in Ids \ {id} : Untouched(i)
  BY <1>1 DEF Untouched
<1>4. id \notin live' /\ live' \subseteq live \cup {id}
  BY <1>1
<1>5. /\ id \in Ids /\ lastId <= lastId' /\ id <= lastId'
      /\ contextData' \in {"none", "live", "destroyed"} /\ unstarted' \in 0..MaxRequests
  BY LiveSocket
<1> QED BY <1>1, <1>2, <1>3, <1>4, <1>5, OneSocketStep

(* A step of one proxy that the handler takes no part in.                   *)
LEMMA OwnStepKeepsInv ==
    ASSUME IInv, H!HandlerInv', NEW id \in live, NEW r \in Socket, ws' = [ws EXCEPT ![id] = r],
           UNCHANGED <<live, lastId, callbacks, hookWait, tasks, contextData, unstarted>>,
           \A i \in Ids \ {id} : ctx'[i] = ctx[i],
           SocketOK(id)'
    PROVE  SocketInv'
<1>1. \A i \in Ids \ {id} : Untouched(i)
  BY DEF Untouched
<1>2. /\ id \in Ids /\ lastId <= lastId' /\ id <= lastId' /\ live' \subseteq live \cup {id}
      /\ contextData' \in {"none", "live", "destroyed"} /\ unstarted' \in 0..MaxRequests
  BY LiveSocket
<1> QED BY <1>1, <1>2, OneSocketStep

LEMMA BeforeSendHeadersKeepsInv ==
    ASSUME IInv, H!HandlerInv', NEW id \in Ids, OnBeforeSendHeaders(id)
    PROVE  SocketInv'
<1> DEFINE s == ws[id]
           r == AskHeaderClientBeforeSend(s)
<1>1. /\ id \in live /\ s.headers = "open" /\ s.net \in {"connecting", "vetted"}
      /\ s.rounds < MaxRounds /\ ws' = [ws EXCEPT ![id] = r]
      /\ UNCHANGED <<handlerVars, contextData, unstarted>>
  BY DEF OnBeforeSendHeaders
<1>2. /\ s \in Socket /\ SocketOK(id)
      /\ ws \in [Ids -> Socket]
  BY <1>1, LiveSocket
<1>3. r \in Socket
  <2>1. s.rounds + 1 \in 0..MaxRounds
    BY <1>1, <1>2, SocketAssumption DEF Socket
  <2> QED BY <1>2, <2>1 DEF AskHeaderClientBeforeSend, Socket, NetStates, NetActive
<1>4. /\ ws'[id] = r /\ H!Outstanding(id)' = H!Outstanding(id)
  BY <1>1, <1>2 DEF handlerVars, H!Outstanding
<1>5. ~H!Outstanding(id) /\ s.asked = "nothing" /\ s.handshake # "unbound" /\ s.extra
  BY <1>1, <1>2 DEF SocketOK
<1> HIDE DEF r
<1>6. SocketOK(id)'
  <2>1. /\ r.extra = s.extra /\ r.handshake = s.handshake /\ r.headers = s.headers
        /\ r.onHeadersReceived = s.onHeadersReceived
        /\ r.asked = "OnBeforeSendHeaders" /\ r.net = "awaitSend" /\ r.onBeforeSendHeaders
    BY <1>2 DEF r, AskHeaderClientBeforeSend, Socket
  <2>2. id \notin hookWait' /\ \A t \in tasks' : t.id # id
    BY <1>1, <1>5 DEF handlerVars, H!Outstanding
  <2> QED BY <1>2, <1>4, <1>5, <2>1, <2>2 DEF SocketOK
<1> QED BY <1>1, <1>3, <1>6, OwnStepKeepsInv DEF handlerVars

(* What OnHeadersReceived at the handler leaves behind: with hooks a task,  *)
(* without hooks nothing.                                                   *)
LEMMA HeadersReceivedEffect ==
    ASSUME IInv, NEW id \in live, ~H!Outstanding(id),
           NEW cont \in Continuations, H!OnHeadersReceived(id, cont), hookWait' = hookWait
    PROVE  /\ \A i \in Ids \ {id} : Untouched(i)
           /\ id \notin hookWait'
           /\ H!Outstanding(id)' <=> HasHeadersReceivedHooks
           /\ \A t \in tasks' : t.id = id => t.cont = cont
<1> DEFINE task == [id |-> id, cont |-> cont, rv |-> "OK"]
<1>1. /\ ctx \in [Ids -> H!RequestInfo]
      /\ callbacks \in [Ids -> Continuations \cup {H!NoCallback, H!MovedCallback}]
  BY LiveSocket
<1>2. id \notin hookWait /\ \A t \in tasks : t.id # id
  BY DEF H!Outstanding
<1>3. CASE ~HasHeadersReceivedHooks
  <2>1. /\ ctx' = [ctx EXCEPT ![id] = H!FreshCTX("kUnknownEventType")]
        /\ UNCHANGED <<callbacks, tasks>>
    BY <1>3 DEF H!OnHeadersReceived, H!MakeCTX
  <2>2. \A i \in Ids \ {id} : Untouched(i)
    BY <1>1, <2>1 DEF Untouched
  <2> QED BY <1>2, <1>3, <2>1, <2>2 DEF H!Outstanding
<1>4. CASE HasHeadersReceivedHooks
  <2>1. /\ ctx' = [ctx EXCEPT ![id] = H!FreshCTX("kOnHeadersReceived")]
        /\ callbacks' = [callbacks EXCEPT ![id] = H!MovedCallback]
        /\ tasks' = tasks \cup {task}
    BY <1>4 DEF H!OnHeadersReceived, H!RunCallbackForRequestIdentifier
  <2>2. task.id = id /\ task.cont = cont
    OBVIOUS
  <2> HIDE DEF task
  <2>3. \A i \in Ids \ {id} : Untouched(i)
    BY <1>1, <2>1, <2>2 DEF Untouched
  <2>4. H!Outstanding(id)'
    BY <2>1, <2>2 DEF H!Outstanding
  <2> QED BY <1>2, <1>4, <2>1, <2>2, <2>3, <2>4
<1> QED BY <1>3, <1>4

LEMMA HeadersReceivedKeepsInv ==
    ASSUME IInv, H!HandlerInv', NEW id \in Ids, OnHeadersReceived(id)
    PROVE  SocketInv'
<1> DEFINE s == ws[id]
           r == [s EXCEPT !.onHeadersReceived = TRUE, !.net = "awaitReceived"]
           paused == PauseIncomingMethodCallProcessing(r)
           asking == [paused EXCEPT !.asked = "OnHeadersReceived"]
<1>1. /\ id \in live /\ s.headers = "open" /\ s.net = "sent"
      /\ UNCHANGED <<lastId, redirectUrl, hookWait, contextData, unstarted>>
  BY DEF OnHeadersReceived
<1>2. s \in Socket /\ SocketOK(id) /\ ws \in [Ids -> Socket]
  BY <1>1, LiveSocket
<1>3. /\ ~H!Outstanding(id) /\ s.asked = "nothing" /\ s.extra /\ ~s.onBeforeSendHeaders
      /\ s.handshake = "open"
  BY <1>1, <1>2 DEF SocketOK
<1>4. r \in Socket /\ paused \in Socket /\ asking \in Socket
  BY <1>2 DEF Socket, NetStates, NetActive, PauseIncomingMethodCallProcessing, Pause, Pipe
<1>5. CASE /\ H!HeadersReceivedBlocked(id, "OnHeadersReceivedComplete")
           /\ ws' = [ws EXCEPT ![id] = Destroyed(r)]
  <2> DEFINE task == [id |-> id, cont |-> "OnHeadersReceivedComplete", rv |-> "OK"]
  <2>1. /\ live' = live \ {id}
        /\ callbacks' = [callbacks EXCEPT ![id] = H!NoCallback]
        /\ \A i \in Ids \ {id} : ctx'[i] = ctx[i]
    BY <1>1, <1>5, LiveSocket DEF H!HeadersReceivedBlocked
  <2>2. tasks' = tasks \/ tasks' = tasks \cup {task}
    BY <1>5 DEF H!HeadersReceivedBlocked
  <2>3. task.id = id
    OBVIOUS
  <2> HIDE DEF task, r
  <2>4. \A i \in Ids \ {id} : Untouched(i)
    BY <1>1, <2>1, <2>2, <2>3, LiveSocket DEF Untouched
  <2>5. Destroyed(r) \in Socket
    BY <1>4, DestroyedType
  <2>6. /\ live' \subseteq live \cup {id} /\ id \notin live'
        /\ lastId <= lastId' /\ id <= lastId'
        /\ contextData' \in {"none", "live", "destroyed"} /\ unstarted' \in 0..MaxRequests
    BY <1>1, <2>1, LiveSocket
  <2> QED BY <1>5, <2>4, <2>5, <2>6, OneSocketStep
<1>6. CASE /\ H!OnHeadersReceived(id, "OnHeadersReceivedComplete")
           /\ ws' = [ws EXCEPT ![id] = IF HasHeadersReceivedHooks THEN paused ELSE asking]
           /\ UNCHANGED live
  <2>1. "OnHeadersReceivedComplete" \in Continuations
    BY DEF Continuations
  <2>2. /\ \A i \in Ids \ {id} : Untouched(i)
        /\ id \notin hookWait'
        /\ H!Outstanding(id)' <=> HasHeadersReceivedHooks
        /\ \A t \in tasks' : t.id = id => t.cont = "OnHeadersReceivedComplete"
    BY <1>1, <1>3, <1>6, <2>1, HeadersReceivedEffect
  <2> DEFINE new == IF HasHeadersReceivedHooks THEN paused ELSE asking
  <2>3. /\ new \in Socket /\ new.extra /\ new.net = "awaitReceived" /\ new.onHeadersReceived
        /\ ~new.onBeforeSendHeaders /\ new.handshake = "paused" /\ new.headers = "paused"
        /\ new.asked = IF HasHeadersReceivedHooks THEN "nothing" ELSE "OnHeadersReceived"
    BY <1>1, <1>2, <1>3, <1>4 DEF Socket, PauseIncomingMethodCallProcessing, Pause
  <2> HIDE DEF new
  <2>4. ws' = [ws EXCEPT ![id] = new] /\ ws'[id] = new
    BY <1>2, <1>6 DEF new
  <2>5. SocketOK(id)'
    BY <2>2, <2>3, <2>4 DEF SocketOK
  <2>6. /\ live' \subseteq live \cup {id}
        /\ lastId <= lastId' /\ id <= lastId'
        /\ contextData' \in {"none", "live", "destroyed"} /\ unstarted' \in 0..MaxRequests
    BY <1>1, <1>6, LiveSocket
  <2> QED BY <2>2, <2>3, <2>4, <2>5, <2>6, OneSocketStep
<1> QED BY <1>5, <1>6 DEF OnHeadersReceived

LEMMA DisconnectKeepsInv ==
    ASSUME IInv, H!HandlerInv', NEW id \in Ids,
           OnConnectionEstablished(id) \/ OnMojoConnectionError(id)
    PROVE  SocketInv'
<1>1. PICK told \in {"established", "reset"} : OnError(id, [ws[id] EXCEPT !.told = told])
  BY DEF OnConnectionEstablished, OnMojoConnectionError
<1>2. id \in live /\ UNCHANGED <<lastId, ctx, redirectUrl, hookWait, tasks, contextData, unstarted>>
  BY DEF OnConnectionEstablished, OnMojoConnectionError
<1>3. [ws[id] EXCEPT !.told = told] \in Socket
  BY <1>2, LiveSocket DEF Socket
<1> QED BY <1>1, <1>2, <1>3, DeletionKeepsInv

LEMMA LossKeepsInv ==
    ASSUME IInv, H!HandlerInv', NEW id \in Ids, NetworkGone(id) \/ HeaderClientGone(id)
    PROVE  SocketInv'
<1> DEFINE s == ws[id]
<1>1. /\ id \in live
      /\ UNCHANGED <<handlerVars, contextData, unstarted>>
  BY DEF NetworkGone, HeaderClientGone
<1>2. s \in Socket /\ SocketOK(id) /\ ws \in [Ids -> Socket]
  BY <1>1, LiveSocket
<1>3. PICK r \in {[s EXCEPT !.net = "lost"], [s EXCEPT !.deaf = TRUE]} :
        /\ ws' = [ws EXCEPT ![id] = r]
        /\ r.net = s.net \/ (s.net # "none" /\ r.net = "lost")
  BY <1>2 DEF NetworkGone, HeaderClientGone, NetActive, Socket
<1>4. /\ r \in Socket
      /\ r.extra = s.extra /\ r.handshake = s.handshake /\ r.headers = s.headers
      /\ r.asked = s.asked /\ r.onBeforeSendHeaders = s.onBeforeSendHeaders
      /\ r.onHeadersReceived = s.onHeadersReceived
  BY <1>2, <1>3 DEF Socket, NetStates
<1>5. ws'[id] = r /\ UNCHANGED <<hookWait, tasks, callbacks, ctx>>
  BY <1>1, <1>2, <1>3 DEF handlerVars
<1>6. H!Outstanding(id)' <=> H!Outstanding(id)
  BY <1>5 DEF H!Outstanding
<1>7. SocketOK(id)'
  BY <1>2, <1>3, <1>4, <1>5, <1>6 DEF SocketOK
<1> QED BY <1>1, <1>3, <1>4, <1>5, <1>7, OwnStepKeepsInv DEF handlerVars

(* HeaderClientAnswers.                                                     *)
LEMMA HeaderClientKeepsInv ==
    ASSUME IInv, H!HandlerInv', NEW id \in Ids, HeaderClientAnswers(id)
    PROVE  SocketInv'
<1> DEFINE s == ws[id]
<1>1. id \in live /\ s.asked # "nothing" /\ UNCHANGED <<contextData, unstarted>>
  BY DEF HeaderClientAnswers, OnBeforeSendHeadersCompleteFromProxy, HeadersReceivedAnswered
<1>2. s \in Socket /\ SocketOK(id) /\ ws \in [Ids -> Socket]
  BY <1>1, LiveSocket
<1>3. s.extra /\ ~H!Outstanding(id)
  BY <1>1, <1>2 DEF SocketOK
<1>4. CASE /\ OnError(id, s)
           /\ UNCHANGED <<lastId, ctx, redirectUrl, hookWait, tasks>>
  BY <1>1, <1>2, <1>4, DeletionKeepsInv
<1>5. CASE /\ s.asked = "OnBeforeSendHeaders" /\ H!BeforeStartTransaction(id)
           /\ ws' = [ws EXCEPT ![id] = OnBeforeSendHeadersComplete(s)]
  <2> DEFINE r == OnBeforeSendHeadersComplete(s)
  <2>1. /\ r \in Socket
        /\ r.extra /\ r.handshake = s.handshake /\ r.headers = s.headers
        /\ r.asked = "nothing" /\ ~r.onBeforeSendHeaders
        /\ r.onHeadersReceived = s.onHeadersReceived
        /\ r.net = IF s.net = "awaitSend" THEN "sent" ELSE s.net
    BY <1>2, <1>3 DEF OnBeforeSendHeadersComplete, Socket, NetStates, NetActive
  <2> HIDE DEF r
  <2>2. /\ \A i \in Ids \ {id} : ctx'[i] = ctx[i]
        /\ UNCHANGED <<live, lastId, callbacks, hookWait, tasks>>
    BY <1>1, <1>5, LiveSocket DEF H!BeforeStartTransaction, H!MakeCTX
  <2>3. ws' = [ws EXCEPT ![id] = r] /\ ws'[id] = r
    BY <1>2, <1>5 DEF r
  <2>4. id \notin hookWait' /\ (\A t \in tasks' : t.id # id) /\ ~H!Outstanding(id)'
    BY <1>3, <2>2 DEF H!Outstanding
  <2>5. SocketOK(id)'
    BY <1>2, <1>3, <1>5, <2>1, <2>3, <2>4 DEF SocketOK
  <2> QED BY <1>1, <2>1, <2>2, <2>3, <2>5, OwnStepKeepsInv
<1>6. CASE HeadersReceivedAnswered(id)
  <2> DEFINE r == OnHeadersReceivedCompleteFromProxy(s)
  <2>1. s.asked = "OnHeadersReceived" /\ UNCHANGED handlerVars /\ ws' = [ws EXCEPT ![id] = r]
    BY <1>6 DEF HeadersReceivedAnswered
  <2>2. /\ r \in Socket
        /\ r.extra /\ r.handshake = Resume(s.handshake) /\ r.headers = Resume(s.headers)
        /\ r.asked = "nothing" /\ r.onBeforeSendHeaders = s.onBeforeSendHeaders
        /\ ~r.onHeadersReceived
        /\ r.net = IF s.net = "awaitReceived" THEN "vetted" ELSE s.net
    <3> DEFINE q == [s EXCEPT !.asked = "nothing", !.onHeadersReceived = FALSE,
                              !.net = IF @ = "awaitReceived" THEN "vetted" ELSE @]
    <3>1. /\ q \in Socket
          /\ q.extra /\ q.handshake = s.handshake /\ q.headers = s.headers
          /\ q.asked = "nothing" /\ q.onBeforeSendHeaders = s.onBeforeSendHeaders
          /\ ~q.onHeadersReceived
          /\ q.net = IF s.net = "awaitReceived" THEN "vetted" ELSE s.net
      BY <1>2, <1>3 DEF Socket, NetStates, NetActive
    <3>2. r = [q EXCEPT !.handshake = Resume(q.handshake), !.headers = Resume(q.headers)]
      BY DEF OnHeadersReceivedCompleteFromProxy, ResumeIncomingMethodCallProcessing
    <3>3. \A x \in Pipe : Resume(x) \in Pipe
      BY DEF Resume, Pipe
    <3> HIDE DEF q, r
    <3> QED BY <3>1, <3>2, <3>3 DEF Socket
  <2> HIDE DEF r
  <2>3. ws'[id] = r
    BY <1>2, <2>1
  <2>4. id \notin hookWait' /\ (\A t \in tasks' : t.id # id) /\ ~H!Outstanding(id)'
    BY <1>3, <2>1 DEF H!Outstanding, handlerVars
  <2>5. SocketOK(id)'
    BY <1>2, <1>3, <2>1, <2>2, <2>3, <2>4 DEF SocketOK, Resume
  <2> QED BY <1>1, <2>1, <2>2, <2>5, OwnStepKeepsInv DEF handlerVars
<1> QED BY <1>4, <1>5, <1>6 DEF HeaderClientAnswers, OnBeforeSendHeadersCompleteFromProxy

(* A posted continuation runs.                                              *)
LEMMA TaskKeepsInv ==
    ASSUME IInv, H!HandlerInv', NEW t \in tasks, RunTask(t)
    PROVE  SocketInv'
<1> DEFINE id == t.id
           s == ws[id]
<1>1. tasks' = tasks \ {t} /\ UNCHANGED <<lastId, redirectUrl, hookWait, contextData, unstarted>>
  BY DEF RunTask, StaleTask, HooksAnswered, OnHeadersReceivedComplete, TakeTask
<1>2. id \in Ids /\ TypeOK
  BY DEF IInv, SocketInv, TypeOK, H!TypeOK, H!Tasks, Ids
<1>3. \A u \in tasks \cup tasks' : u.id # id => (u \in tasks' <=> u \in tasks)
  BY <1>1
<1>4. CASE StaleTask(t)
  <2>1. id \notin live /\ UNCHANGED <<live, callbacks, ctx, ws>>
    BY <1>4 DEF StaleTask
  <2>2. \A i \in Ids \ {id} : Untouched(i)
    BY <1>1, <1>3, <2>1 DEF Untouched
  <2>3. s \in Socket /\ ws' = [ws EXCEPT ![id] = s]
    BY <1>2, <2>1 DEF TypeOK
  <2>4. id <= lastId' /\ lastId <= lastId'
    BY <1>1, <1>2 DEF IInv, H!HandlerInv, H!FutureIdsUntouched, TypeOK, H!TypeOK
  <2>5. contextData' \in {"none", "live", "destroyed"} /\ unstarted' \in 0..MaxRequests
    BY <1>1, <1>2 DEF TypeOK
  <2> HIDE DEF s, id
  <2> QED BY <1>2, <2>1, <2>2, <2>3, <2>4, <2>5, OneSocketStep
<1>5. ASSUME id \in live
      PROVE  /\ s \in Socket /\ SocketOK(id) /\ ws \in [Ids -> Socket] /\ H!Outstanding(id)
             /\ id \notin hookWait' /\ (\A u \in tasks' : u.id # id) /\ ~H!Outstanding(id)'
  <2>1. s \in Socket /\ SocketOK(id) /\ ws \in [Ids -> Socket]
    BY <1>5, LiveSocket
  <2>2. id \notin hookWait /\ (\A u \in tasks : u.id = id => u = t)
    BY <1>5 DEF IInv, H!HandlerInv, H!AtMostOneContinuation
  <2> QED BY <1>1, <2>1, <2>2 DEF H!Outstanding
<1>6. CASE HooksAnswered(t) /\ OnError(id, s) /\ UNCHANGED ctx
  BY <1>1, <1>3, <1>5, <1>6, DeletionKeepsInv DEF HooksAnswered, TakeTask
<1>7. ASSUME id \in live, NEW r \in Socket, ws' = [ws EXCEPT ![id] = r],
             UNCHANGED <<live, callbacks>>, \A i \in Ids \ {id} : ctx'[i] = ctx[i], SocketOK(id)'
      PROVE  SocketInv'
  <2>1. \A i \in Ids \ {id} : Untouched(i)
    BY <1>1, <1>3, <1>7 DEF Untouched
  <2>2. /\ lastId <= lastId' /\ id <= lastId' /\ live' \subseteq live \cup {id}
        /\ contextData' \in {"none", "live", "destroyed"} /\ unstarted' \in 0..MaxRequests
    BY <1>1, <1>7, LiveSocket
  <2> QED BY <1>2, <1>7, <2>1, <2>2, OneSocketStep
<1>8. CASE HooksAnswered(t) /\ ws' = [ws EXCEPT ![id] = Proceed(s)] /\ UNCHANGED <<live, callbacks>>
           /\ IF s.extra THEN UNCHANGED ctx ELSE H!MakeCTX(id)
  <2> DEFINE r == Proceed(s)
  <2>1. id \in live /\ t.cont # "OnHeadersReceivedComplete"
    BY <1>8 DEF HooksAnswered, TakeTask
  <2>2. /\ s \in Socket /\ SocketOK(id) /\ ws \in [Ids -> Socket] /\ H!Outstanding(id)
        /\ id \notin hookWait' /\ (\A u \in tasks' : u.id # id) /\ ~H!Outstanding(id)'
    BY <1>5, <2>1
  <2>3. /\ s.net = "none" /\ s.handshake = "unbound" /\ s.asked = "nothing"
        /\ ~s.onBeforeSendHeaders /\ ~s.onHeadersReceived /\ (~s.extra => s.headers = "unbound")
    BY <2>1, <2>2 DEF SocketOK
  <2>4. /\ r \in Socket
        /\ r.extra = s.extra /\ r.handshake = "open" /\ r.net = "connecting"
        /\ r.headers = (IF s.extra THEN "open" ELSE "unbound")
        /\ r.asked = "nothing" /\ ~r.onBeforeSendHeaders /\ ~r.onHeadersReceived
    BY <2>2, <2>3 DEF Proceed, OnBeforeSendHeadersComplete, ContinueToStartRequest,
                      Socket, NetStates, NetActive, Pipe
  <2>5. \A i \in Ids \ {id} : ctx'[i] = ctx[i]
    BY <1>2, <1>8 DEF H!MakeCTX, TypeOK, H!TypeOK, Ids
  <2> HIDE DEF r
  <2>6. ws' = [ws EXCEPT ![id] = r] /\ ws'[id] = r
    BY <1>2, <1>8 DEF r, TypeOK
  <2>7. SocketOK(id)'
    BY <2>2, <2>4, <2>6 DEF SocketOK
  <2> QED BY <1>7, <1>8, <2>1, <2>4, <2>5, <2>6, <2>7
<1>9. CASE OnHeadersReceivedComplete(t)
  <2> DEFINE r == [s EXCEPT !.asked = "OnHeadersReceived"]
  <2>1. /\ id \in live /\ t.cont = "OnHeadersReceivedComplete"
        /\ ws' = [ws EXCEPT ![id] = r] /\ UNCHANGED <<live, callbacks, ctx>>
    BY <1>9 DEF OnHeadersReceivedComplete, TakeTask
  <2>2. /\ s \in Socket /\ SocketOK(id) /\ ws \in [Ids -> Socket] /\ H!Outstanding(id)
        /\ id \notin hookWait' /\ (\A u \in tasks' : u.id # id) /\ ~H!Outstanding(id)'
    BY <1>5, <2>1
  <2>3. s.handshake # "unbound" /\ s.onHeadersReceived /\ s.net \in {"awaitReceived", "lost"}
    BY <2>1, <2>2 DEF SocketOK, Socket, NetStates, NetActive
  <2>4. /\ r \in Socket
        /\ r.extra = s.extra /\ r.handshake = s.handshake /\ r.headers = s.headers
        /\ r.asked = "OnHeadersReceived" /\ r.net = s.net
        /\ r.onBeforeSendHeaders = s.onBeforeSendHeaders
        /\ r.onHeadersReceived = s.onHeadersReceived
    BY <2>2 DEF Socket
  <2> HIDE DEF r
  <2>5. ws'[id] = r
    BY <1>2, <2>1 DEF TypeOK
  <2>6. SocketOK(id)'
    BY <2>2, <2>3, <2>4, <2>5 DEF SocketOK
  <2> QED BY <1>7, <2>1, <2>4, <2>6
<1> QED BY <1>4, <1>6, <1>8, <1>9 DEF RunTask, HooksAnswered

(* RunNextCallback on the context c of request id: it waits for a hook or   *)
(* its continuation is posted, and nobody else is touched.                  *)
LEMMA RunNextCallbackEffect ==
    ASSUME IInv, NEW id \in Ids, NEW c \in H!RequestInfo, c.event = "kOnBeforeRequest",
           NEW cb \in Continuations, \A t \in tasks : t.id # id,
           H!RunNextCallback(id, c, cb, hookWait \ {id})
    PROVE  /\ \A i \in Ids \ {id} : Untouched(i)
           /\ H!Outstanding(id)'
           /\ id \in hookWait' => callbacks'[id] = cb
           /\ \A t \in tasks' : t.id = id => t.cont = cb
           /\ ctx'[id].event = "kOnBeforeRequest"
<1>1. /\ ctx \in [Ids -> H!RequestInfo]
      /\ callbacks \in [Ids -> Continuations \cup {H!NoCallback, H!MovedCallback}]
  BY DEF IInv, SocketInv, TypeOK, H!TypeOK, Ids
<1>2. PICK index \in H!StopIndexes(c), newUrl \in BOOLEAN, blocked \in H!BlockedBy,
            refused \in BOOLEAN :
        /\ ctx' = [ctx EXCEPT ![id] = [c EXCEPT !.index = index, !.newUrl = newUrl,
                                                !.blocked = blocked, !.refused = refused]]
        /\ \/ index > c.index /\ ~refused /\ H!HookPends(id, cb, hookWait \ {id})
           \/ index > c.index /\ refused /\ H!HooksDone(id, cb, hookWait \ {id}, "error", FALSE)
           \/ index = NumURLHooks /\ ~refused /\ H!HooksDone(id, cb, hookWait \ {id}, "OK", newUrl)
  BY DEF H!RunNextCallback
<1>3. ctx'[id].event = "kOnBeforeRequest" /\ \A i \in Ids \ {id} : ctx'[i] = ctx[i]
  BY <1>1, <1>2 DEF H!RequestInfo
<1>4. CASE H!HookPends(id, cb, hookWait \ {id})
  <2>1. /\ hookWait' = (hookWait \ {id}) \cup {id}
        /\ callbacks' = [callbacks EXCEPT ![id] = cb]
        /\ tasks' = tasks
    BY <1>4 DEF H!HookPends
  <2>2. \A i \in Ids \ {id} : Untouched(i)
    BY <1>1, <1>3, <2>1 DEF Untouched
  <2> QED BY <1>1, <1>3, <2>1, <2>2 DEF H!Outstanding
<1>5. ASSUME NEW rv, NEW url, H!HooksDone(id, cb, hookWait \ {id}, rv, url)
      PROVE  /\ \A i \in Ids \ {id} : Untouched(i)
             /\ H!Outstanding(id)' /\ id \notin hookWait'
             /\ \A t \in tasks' : t.id = id => t.cont = cb
  <2> DEFINE task == [id |-> id, cont |-> cb, rv |-> rv]
  <2>1. /\ hookWait' = hookWait \ {id}
        /\ callbacks' = [callbacks EXCEPT ![id] = H!MovedCallback]
        /\ tasks' = tasks \cup {task}
    BY <1>5 DEF H!HooksDone, H!RunCallbackForRequestIdentifier
  <2>2. task.id = id /\ task.cont = cb
    OBVIOUS
  <2> HIDE DEF task
  <2>3. \A i \in Ids \ {id} : Untouched(i)
    BY <1>1, <1>3, <2>1, <2>2 DEF Untouched
  <2>4. H!Outstanding(id)'
    BY <2>1, <2>2 DEF H!Outstanding
  <2> QED BY <2>1, <2>2, <2>3, <2>4
<1> QED BY <1>2, <1>3, <1>4, <1>5

(* A proxy that has not run factory_ and waits for the hooks.               *)
LEMMA WaitingForHooksIsOK ==
    ASSUME NEW id, H!Outstanding(id)',
           id \in hookWait' => callbacks'[id] # "OnHeadersReceivedComplete",
           \A t \in tasks' : t.id = id => t.cont # "OnHeadersReceivedComplete",
           ctx'[id].event = "kOnBeforeRequest",
           ws'[id].net = "none", ws'[id].handshake = "unbound", ws'[id].asked = "nothing",
           ~ws'[id].onBeforeSendHeaders, ~ws'[id].onHeadersReceived,
           ~ws'[id].extra => ws'[id].headers = "unbound"
    PROVE  SocketOK(id)'
BY DEF SocketOK

LEMMA HookAnswersKeepsInv ==
    ASSUME IInv, H!HandlerInv', NEW id \in Ids, HookAnswers(id)
    PROVE  SocketInv'
<1> DEFINE s == ws[id]
<1>1. PICK empty \in BOOLEAN : ws' = [ws EXCEPT ![id].emptyData = @ \/ empty]
  BY DEF HookAnswers
<1>2. /\ TypeOK /\ id \in hookWait /\ UNCHANGED <<live, lastId, contextData, unstarted>>
      /\ H!HookAnswers(id)
  BY DEF HookAnswers, H!HookAnswers, IInv, SocketInv
<1> DEFINE r == [s EXCEPT !.emptyData = s.emptyData \/ empty]
<1>3. /\ r \in Socket /\ ws' = [ws EXCEPT ![id] = r] /\ ws'[id] = r
      /\ r.extra = s.extra /\ r.handshake = s.handshake /\ r.headers = s.headers
      /\ r.asked = s.asked /\ r.net = s.net /\ r.onBeforeSendHeaders = s.onBeforeSendHeaders
      /\ r.onHeadersReceived = s.onHeadersReceived
  BY <1>1, <1>2 DEF TypeOK, Socket
<1>4. /\ id <= lastId /\ lastId <= lastId' /\ id <= lastId' /\ live' \subseteq live \cup {id}
      /\ contextData' \in {"none", "live", "destroyed"} /\ unstarted' \in 0..MaxRequests
  BY <1>2 DEF IInv, H!HandlerInv, H!FutureIdsUntouched, TypeOK, H!TypeOK
<1> HIDE DEF r
<1>5. CASE callbacks[id] = H!NoCallback
  <2>1. /\ hookWait' = hookWait \ {id} /\ UNCHANGED <<callbacks, ctx, tasks>>
    BY <1>2, <1>5 DEF H!HookAnswers
  <2>2. \A i \in Ids \ {id} : Untouched(i)
    BY <2>1 DEF Untouched
  <2>3. id \notin live'
    BY <1>2, <1>5, ContinuationsFit
       DEF IInv, H!HandlerInv, H!PendingHookHasCallback, HP!HandlerAssumption, HP!NoCallback,
           H!NoCallback
  <2> QED BY <1>3, <1>4, <2>2, <2>3, OneSocketStep
<1>6. CASE callbacks[id] # H!NoCallback
  <2>1. id \in live
    BY <1>6 DEF IInv, H!HandlerInv, H!CallbacksOwnedByLiveRequests, Ids
  <2>2. /\ callbacks[id] \in Continuations /\ ctx[id] \in H!RequestInfo
        /\ ctx[id].event = "kOnBeforeRequest" /\ \A t \in tasks : t.id # id
    BY <1>2, <2>1, LiveSocket DEF IInv, H!HandlerInv, H!PendingHookHasCallback,
                                  H!AtMostOneContinuation
  <2>3. H!RunNextCallback(id, ctx[id], callbacks[id], hookWait \ {id})
    BY <1>2, <1>6 DEF H!HookAnswers
  <2>4. /\ \A i \in Ids \ {id} : Untouched(i)
        /\ H!Outstanding(id)'
        /\ id \in hookWait' => callbacks'[id] = callbacks[id]
        /\ \A t \in tasks' : t.id = id => t.cont = callbacks[id]
        /\ ctx'[id].event = "kOnBeforeRequest"
    BY <2>2, <2>3, RunNextCallbackEffect
  <2>5. SocketOK(id) /\ H!Outstanding(id)
    BY <1>2, <2>1, LiveSocket DEF H!Outstanding
  <2>6. /\ callbacks[id] # "OnHeadersReceivedComplete"
        /\ s.net = "none" /\ s.handshake = "unbound" /\ s.asked = "nothing"
        /\ ~s.onBeforeSendHeaders /\ ~s.onHeadersReceived /\ (~s.extra => s.headers = "unbound")
    BY <1>2, <2>5 DEF SocketOK
  <2>7. SocketOK(id)'
    BY <1>3, <2>4, <2>6, WaitingForHooksIsOK
  <2> QED BY <1>3, <1>4, <2>4, <2>7, OneSocketStep
<1> QED BY <1>5, <1>6

(* A proxy is created and, if the hooks do not have to be asked, started.   *)
LEMMA StartKeepsInv ==
    ASSUME IInv, H!HandlerInv', NEW id \in Ids, NEW extra \in BOOLEAN, Start(id, extra)
    PROVE  SocketInv'
<1> DEFINE cont == IF extra THEN "ContinueToStartRequest" ELSE "OnBeforeRequestComplete"
           s    == [NoSocket EXCEPT !.extra = extra]
<1>1. /\ TypeOK /\ contextData' = contextData /\ unstarted' \in 0..MaxRequests
      /\ id = lastId + 1 /\ lastId' = id /\ lastId \in Nat /\ id \notin hookWait
      /\ \A t \in tasks : t.id # id
  <2>1. /\ TypeOK /\ contextData' = contextData /\ unstarted > 0 /\ unstarted' = unstarted - 1
        /\ id = lastId + 1 /\ lastId' = id
    BY DEF Start, H!NewRequest, H!NewRequestBlocked, IInv, SocketInv
  <2>2. unstarted \in 0..MaxRequests /\ lastId \in Nat
    BY <2>1 DEF TypeOK, H!TypeOK
  <2>3. ~(id <= lastId)
    BY <2>1, <2>2
  <2>4. id \notin hookWait /\ \A t \in tasks : t.id # id
    BY <2>3 DEF IInv, H!HandlerInv, H!FutureIdsUntouched
  <2>5. unstarted' \in 0..MaxRequests
    BY <2>1, <2>2, SocketAssumption
  <2> QED BY <2>1, <2>2, <2>4, <2>5
<1>2. /\ lastId <= lastId' /\ id <= lastId'
      /\ contextData' \in {"none", "live", "destroyed"}
  BY <1>1 DEF TypeOK
<1>3. cont \in Continuations /\ cont # "OnHeadersReceivedComplete"
  BY DEF Continuations
<1>4. /\ s \in Socket /\ s.net = "none" /\ s.handshake = "unbound" /\ s.asked = "nothing"
      /\ ~s.onBeforeSendHeaders /\ ~s.onHeadersReceived /\ s.extra = extra /\ s.headers = "unbound"
  <2>1. NoSocket \in Socket
    BY SocketAssumption DEF NoSocket, Socket, Pipe, NetStates
  <2>2. s \in Socket
    BY <2>1 DEF Socket
  <2> QED BY <2>2 DEF NoSocket
<1> HIDE DEF cont, s
<1>5. CASE /\ H!NewRequest(id, cont, FALSE) /\ ~H!BeforeURLRequestReturnsOK(FALSE)
           /\ ws' = [ws EXCEPT ![id] = s]
  <2>1. H!FreshCTX("kOnBeforeRequest") \in {c \in H!RequestInfo : c.event = "kOnBeforeRequest"}
    BY SocketAssumption DEF H!FreshCTX, H!RequestInfo, H!Events, H!BlockedBy
  <2>2. /\ live' = live \cup {id}
        /\ H!RunNextCallback(id, H!FreshCTX("kOnBeforeRequest"), cont, hookWait)
    BY <1>5 DEF H!NewRequest, H!OnBeforeURLRequest
  <2>3. hookWait \ {id} = hookWait
    BY <1>1
  <2>4. PICK c \in H!RequestInfo : /\ c.event = "kOnBeforeRequest"
                                  /\ H!RunNextCallback(id, c, cont, hookWait \ {id})
    BY <2>1, <2>2, <2>3
  <2>5. /\ \A i \in Ids \ {id} : Untouched(i)
        /\ H!Outstanding(id)'
        /\ id \in hookWait' => callbacks'[id] = cont
        /\ \A t \in tasks' : t.id = id => t.cont = cont
        /\ ctx'[id].event = "kOnBeforeRequest"
    BY <1>1, <1>3, <2>4, RunNextCallbackEffect
  <2>6. ws'[id] = s
    BY <1>1, <1>5 DEF TypeOK
  <2>7. SocketOK(id)'
    BY <1>3, <1>4, <2>5, <2>6, WaitingForHooksIsOK
  <2> QED BY <1>1, <1>2, <1>4, <1>5, <2>2, <2>5, <2>7, OneSocketStep
<1>6. CASE /\ H!NewRequest(id, cont, FALSE) /\ H!BeforeURLRequestReturnsOK(FALSE)
           /\ ws' = [ws EXCEPT ![id] = Proceed(s)]
  <2> DEFINE r == Proceed(s)
  <2>1. /\ live' = live \cup {id} /\ UNCHANGED <<callbacks, hookWait, tasks>>
        /\ \A i \in Ids \ {id} : ctx'[i] = ctx[i]
    BY <1>1, <1>6 DEF H!NewRequest, H!OnBeforeURLRequest, H!MakeCTX, TypeOK, H!TypeOK, Ids
  <2>2. \A i \in Ids \ {id} : Untouched(i)
    BY <2>1 DEF Untouched
  <2>3. /\ r \in Socket
        /\ r.extra = s.extra /\ r.handshake = "open" /\ r.net = "connecting"
        /\ r.headers = (IF s.extra THEN "open" ELSE "unbound")
        /\ r.asked = "nothing" /\ ~r.onBeforeSendHeaders /\ ~r.onHeadersReceived
    BY <1>4 DEF Proceed, OnBeforeSendHeadersComplete, ContinueToStartRequest,
                Socket, NetStates, NetActive, Pipe
  <2> HIDE DEF r
  <2>4. ws' = [ws EXCEPT ![id] = r] /\ ws'[id] = r
    BY <1>1, <1>6 DEF r, TypeOK
  <2>5. id \notin hookWait' /\ (\A t \in tasks' : t.id # id) /\ ~H!Outstanding(id)'
    BY <1>1, <2>1 DEF H!Outstanding
  <2>6. SocketOK(id)'
    BY <2>3, <2>4, <2>5 DEF SocketOK
  <2> QED BY <1>1, <1>2, <2>1, <2>2, <2>3, <2>4, <2>6, OneSocketStep
<1>7. CASE /\ H!NewRequestBlocked(id, cont)
           /\ ws' = [ws EXCEPT ![id] = Destroyed([s EXCEPT !.emptyData = TRUE])]
  <2> DEFINE task == [id |-> id, cont |-> cont, rv |-> "OK"]
             r    == [s EXCEPT !.emptyData = TRUE]
  <2>1. tasks' = tasks \cup {task} /\ UNCHANGED <<live, callbacks, hookWait>>
    BY <1>7 DEF H!NewRequestBlocked
  <2>2. \A i \in Ids \ {id} : ctx'[i] = ctx[i]
    <3>1. PICK c : ctx' = [ctx EXCEPT ![id] = c]
      BY <1>7 DEF H!NewRequestBlocked
    <3> QED BY <1>1, <3>1 DEF TypeOK, H!TypeOK, Ids
  <2>3. task.id = id
    OBVIOUS
  <2>4. r \in Socket
    BY <1>4 DEF Socket
  <2> HIDE DEF task, r
  <2>5. \A i \in Ids \ {id} : Untouched(i)
    BY <2>1, <2>2, <2>3 DEF Untouched
  <2>6. Destroyed(r) \in Socket
    BY <2>4, DestroyedType
  <2>7. live' \subseteq live \cup {id} /\ id \notin live'
    <3>1. ~(id <= lastId)
      BY <1>1
    <3> QED BY <2>1, <3>1 DEF IInv, H!HandlerInv, H!FutureIdsUntouched
  <2> QED BY <1>1, <1>2, <1>7, <2>5, <2>6, <2>7, OneSocketStep DEF r
<1> QED BY <1>5, <1>6, <1>7 DEF Start, cont, s

LEMMA ShutdownKeepsInv ==
    ASSUME IInv, H!HandlerInv', Shutdown
    PROVE  SocketInv'
<1>1. /\ live' = {} /\ lastId' = lastId /\ contextData' = "destroyed" /\ unstarted' = 0
      /\ ws' = [id \in Ids |-> IF id \in live THEN Destroyed(ws[id]) ELSE ws[id]]
  BY DEF Shutdown, H!OnURLRequestDestroyed
<1>2. TypeOK /\ \A i \in Ids : i > lastId => ws[i].net = "none"
  BY SocketInvByParts DEF IInv, EverySocketOK
<1>3. H!TypeOK'
  BY DEF H!HandlerInv
<1>4. \A i \in Ids : ws[i] \in Socket /\ Destroyed(ws[i]) \in Socket
  BY <1>2, DestroyedType DEF TypeOK
<1>5. TypeOK'
  BY <1>1, <1>3, <1>4, SocketAssumption DEF TypeOK, Ids, H!Ids, Socket
<1>6. \A i \in Ids : i > lastId => i \notin live
  BY <1>2 DEF IInv, H!HandlerInv, H!FutureIdsUntouched, TypeOK, H!TypeOK, Ids, H!Ids
<1>7. (\A i \in Ids : i > lastId => ws[i].net = "none")'
  BY <1>1, <1>2, <1>6 DEF Ids, H!Ids
<1>8. (SocketInv <=> EverySocketOK)'
  BY SocketInvByParts, PTL
<1> QED BY <1>1, <1>5, <1>7, <1>8 DEF EverySocketOK

LEMMA NextKeepsInv == IInv /\ [Next]_vars => IInv'
<1> SUFFICES ASSUME IInv, [Next]_vars PROVE IInv'
  OBVIOUS
<1>1. H!HandlerInv'
  BY StepOfHandler, HandlerStepKeepsInv DEF IInv
<1> SUFFICES SocketInv'
  BY <1>1 DEF IInv
<1>2. ASSUME UNCHANGED <<handlerVars, ws>>, contextData' \in {"none", "live", "destroyed"},
             unstarted' \in 0..MaxRequests
      PROVE  SocketInv'
  <2>1. EverySocketOK
    BY SocketInvByParts DEF IInv
  <2>2. \A i \in live : SocketOK(i)'
    BY <1>2, <2>1, UntouchedStaysOK DEF EverySocketOK, handlerVars, Untouched
  <2>3. TypeOK'
    BY <1>1, <1>2, <2>1 DEF EverySocketOK, H!HandlerInv, TypeOK, Ids, H!Ids, Socket
  <2>4. EverySocketOK'
    BY <1>2, <2>1, <2>2, <2>3 DEF EverySocketOK, handlerVars, Ids, H!Ids
  <2>5. (SocketInv <=> EverySocketOK)'
    BY SocketInvByParts, PTL
  <2> QED BY <2>4, <2>5
<1>3. CASE StartProxyingWebSocket
  <2>1. TypeOK /\ lastId + unstarted < MaxRequests /\ unstarted' = unstarted + 1
        /\ contextData' = "live"
    BY <1>3 DEF StartProxyingWebSocket, IInv, SocketInv
  <2>2. unstarted' \in 0..MaxRequests
    BY <2>1, SocketAssumption DEF TypeOK, H!TypeOK
  <2>3. UNCHANGED <<handlerVars, ws>>
    BY <1>3 DEF StartProxyingWebSocket
  <2> QED BY <1>2, <2>1, <2>2, <2>3
<1>4. CASE UNCHANGED vars
  <2>1. UNCHANGED <<handlerVars, ws>> /\ UNCHANGED <<contextData, unstarted>>
    BY <1>4 DEF vars
  <2>2. contextData' \in {"none", "live", "destroyed"} /\ unstarted' \in 0..MaxRequests
    BY <2>1 DEF IInv, SocketInv, TypeOK
  <2> QED BY <1>2, <2>1, <2>2
<1>5. ASSUME NEW id \in Ids, NetworkAnswers(id)
      PROVE  SocketInv'
  BY <1>1, <1>5, BeforeSendHeadersKeepsInv, HeadersReceivedKeepsInv, DisconnectKeepsInv
     DEF NetworkAnswers
<1>6. ASSUME NEW id \in Ids,
             \/ HookAnswers(id) \/ NetworkAnswers(id) \/ NetworkGone(id)
             \/ OnMojoConnectionError(id) \/ HeaderClientAnswers(id) \/ HeaderClientGone(id)
      PROVE  SocketInv'
  BY <1>1, <1>5, <1>6, HookAnswersKeepsInv, LossKeepsInv, DisconnectKeepsInv, HeaderClientKeepsInv
<1>7. ASSUME NEW id \in Ids, NEW extra \in BOOLEAN, Start(id, extra)
      PROVE  SocketInv'
  BY <1>1, <1>7, StartKeepsInv
<1>8. ASSUME NEW t \in tasks, RunTask(t)
      PROVE  SocketInv'
  BY <1>1, <1>8, TaskKeepsInv
<1>9. CASE Shutdown
  BY <1>1, <1>9, ShutdownKeepsInv
<1> QED BY <1>3, <1>4, <1>6, <1>7, <1>8, <1>9 DEF Next

LEMMA InitEstablishesInv == Init => IInv
<1> SUFFICES ASSUME Init PROVE IInv
  OBVIOUS
<1>1. H!HandlerInv /\ H!Init
  BY HandlerInitInv DEF Init
<1>2. live = {} /\ \A id \in Ids : ws[id] = NoSocket
  BY DEF Init, H!Init
<1>3. NoSocket \in Socket /\ NoSocket.net = "none"
  BY SocketAssumption DEF NoSocket, Socket, Pipe, NetStates
<1>4. TypeOK
  BY <1>1, <1>3, SocketAssumption DEF Init, H!HandlerInv, TypeOK
<1>5. EverySocketOK
  BY <1>2, <1>3, <1>4 DEF EverySocketOK
<1> QED BY <1>1, <1>5, SocketInvByParts DEF IInv

-----------------------------------------------------------------------------

LEMMA JointInvariant == Spec => []IInv
BY InitEstablishesInv, NextKeepsInv, PTL DEF Spec

(* The safety properties of the proxies in every reachable state.           *)
THEOREM SocketInvariant == Spec => []SocketInv
<1>1. IInv => SocketInv
  BY DEF IInv
<1> QED BY <1>1, JointInvariant, PTL

(* One party holds each socket: the handler, the header client or the       *)
(* network; nobody waits for nobody and no answer comes twice.              *)
THEOREM SocketsHaveOneHolder == Spec => []OneHolder
<1>1. IInv => OneHolder
  BY DEF IInv, SocketInv
<1> QED BY <1>1, JointInvariant, PTL

(* No reply callback of the network is dropped, overwritten or left behind. *)
THEOREM NoReplyIsLost == Spec => []RepliesAreOwed
<1>1. IInv => RepliesAreOwed
  BY DEF IInv, SocketInv
<1> QED BY <1>1, JointInvariant, PTL

(* The proxies implement the calling convention that DumbRequestHandler     *)
(* assumes of its callers, so its theorems hold of this composition.        *)
THEOREM SocketsKeepHandlerConvention == Spec => HandlerSpec
<1>1. Init => H!Init
  BY DEF Init
<1> QED BY <1>1, JointInvariant, StepOfHandler, PTL DEF Spec, HandlerSpec, H!Spec

(* Only a start with consent connects.                                      *)
LEMMA ConnectingStep ==
    ASSUME IInv, Next,
           NEW i \in Ids, ws[i].net # "connecting", ws'[i].net = "connecting"
    PROVE  \/ \E extra \in BOOLEAN : Start(i, extra) /\ H!BeforeURLRequestReturnsOK(FALSE)
           \/ \E t \in tasks : t.id = i /\ t.id \in live /\ t.rv = "OK"
                                /\ t.cont # "OnHeadersReceivedComplete"
<1>1. /\ ws \in [Ids -> Socket] /\ \A t \in tasks : t.id \in Ids
      /\ \A id \in live : id \in Ids /\ ws[id] \in Socket /\ SocketOK(id)
  BY SocketInvByParts DEF IInv, EverySocketOK, TypeOK, H!TypeOK, H!Tasks, Ids
<1>2. ASSUME NEW id \in Ids, NEW r, ws' = [ws EXCEPT ![id] = r]
      PROVE  id = i /\ r.net = "connecting"
  BY <1>1, <1>2
<1>3. ASSUME NEW r \in Socket PROVE Destroyed(r).net = "lost"
  BY DEF Destroyed, Socket
<1>4. ASSUME NEW id \in live, NEW r \in Socket, OnError(id, r) PROVE FALSE
  BY <1>1, <1>2, <1>3, <1>4 DEF OnError
<1>5. ws' # ws
  OBVIOUS
<1>6. ASSUME NEW id \in Ids, NEW extra \in BOOLEAN, Start(id, extra)
      PROVE  id = i /\ H!BeforeURLRequestReturnsOK(FALSE)
  <2> DEFINE s == [NoSocket EXCEPT !.extra = extra]
  <2>1. NoSocket \in Socket
    BY SocketAssumption DEF NoSocket, Socket, Pipe, NetStates
  <2>2. s \in Socket /\ s.net = "none" /\ [s EXCEPT !.emptyData = TRUE] \in Socket
    BY <2>1 DEF Socket, NoSocket
  <2> HIDE DEF s
  <2>3. \/ ws' = [ws EXCEPT ![id] = IF H!BeforeURLRequestReturnsOK(FALSE) THEN Proceed(s) ELSE s]
        \/ ws' = [ws EXCEPT ![id] = Destroyed([s EXCEPT !.emptyData = TRUE])]
    BY <1>6 DEF Start, s
  <2>4. ASSUME ~H!BeforeURLRequestReturnsOK(FALSE) PROVE FALSE
    BY <1>2, <1>3, <2>2, <2>3, <2>4
  <2>5. id = i
    BY <1>2, <2>3
  <2> QED BY <2>4, <2>5
<1>7. ASSUME NEW id \in Ids, HookAnswers(id) PROVE FALSE
  <2>1. PICK empty \in BOOLEAN : ws' = [ws EXCEPT ![id].emptyData = @ \/ empty]
    BY <1>7 DEF HookAnswers
  <2>2. ws'[i].net = ws[i].net
    BY <1>1, <2>1 DEF Socket
  <2> QED BY <2>2
<1>8. ASSUME NEW id \in Ids, NetworkAnswers(id) \/ OnMojoConnectionError(id) PROVE FALSE
  <2>1. id \in live /\ ws[id] \in Socket
    BY <1>1, <1>8 DEF NetworkAnswers, OnBeforeSendHeaders, OnHeadersReceived,
                      OnConnectionEstablished, OnMojoConnectionError
  <2>2. CASE OnBeforeSendHeaders(id)
    <3>1. AskHeaderClientBeforeSend(ws[id]).net = "awaitSend"
      BY <2>1 DEF AskHeaderClientBeforeSend, Socket
    <3> QED BY <1>2, <2>2, <3>1 DEF OnBeforeSendHeaders
  <2>3. CASE OnHeadersReceived(id)
    <3> DEFINE r      == [ws[id] EXCEPT !.onHeadersReceived = TRUE, !.net = "awaitReceived"]
               paused == PauseIncomingMethodCallProcessing(r)
               asking == [paused EXCEPT !.asked = "OnHeadersReceived"]
    <3>1. r \in Socket
      BY <2>1 DEF Socket, NetStates, NetActive
    <3>2. paused.net = "awaitReceived" /\ asking.net = "awaitReceived"
      BY <2>1 DEF PauseIncomingMethodCallProcessing, Socket
    <3>3. \/ ws' = [ws EXCEPT ![id] = Destroyed(r)]
          \/ ws' = [ws EXCEPT ![id] = IF HasHeadersReceivedHooks THEN paused ELSE asking]
      BY <2>3 DEF OnHeadersReceived
    <3> HIDE DEF r, paused, asking
    <3> QED BY <1>2, <1>3, <3>1, <3>2, <3>3
  <2>4. CASE OnConnectionEstablished(id) \/ OnMojoConnectionError(id)
    <3>1. PICK told \in {"established", "reset"} : OnError(id, [ws[id] EXCEPT !.told = told])
      BY <2>4 DEF OnConnectionEstablished, OnMojoConnectionError
    <3>2. [ws[id] EXCEPT !.told = told] \in Socket
      BY <2>1 DEF Socket
    <3> QED BY <1>4, <2>1, <3>1, <3>2
  <2> QED BY <1>8, <2>2, <2>3, <2>4 DEF NetworkAnswers
<1>9. ASSUME NEW id \in Ids, NetworkGone(id) \/ HeaderClientGone(id) PROVE FALSE
  <2>1. ws'[i].net \in {ws[i].net, "lost"}
    BY <1>1, <1>9 DEF NetworkGone, HeaderClientGone, Socket
  <2> QED BY <2>1
<1>10. ASSUME NEW id \in Ids, HeaderClientAnswers(id) PROVE FALSE
  <2> DEFINE s == ws[id]
  <2>1. id \in live /\ s \in Socket /\ s.extra
    BY <1>1, <1>10 DEF HeaderClientAnswers, OnBeforeSendHeadersCompleteFromProxy,
                       HeadersReceivedAnswered, SocketOK
  <2>2. OnBeforeSendHeadersComplete(s).net \in {s.net, "sent"}
    BY <2>1 DEF OnBeforeSendHeadersComplete, Socket
  <2>3. OnHeadersReceivedCompleteFromProxy(s).net \in {s.net, "vetted"}
    <3> DEFINE q == [s EXCEPT !.asked = "nothing", !.onHeadersReceived = FALSE,
                              !.net = IF @ = "awaitReceived" THEN "vetted" ELSE @]
    <3>1. q.net \in {s.net, "vetted"} /\ DOMAIN q = DOMAIN s
      BY <2>1 DEF Socket
    <3>2. OnHeadersReceivedCompleteFromProxy(s)
            = [q EXCEPT !.handshake = Resume(q.handshake), !.headers = Resume(q.headers)]
      BY DEF OnHeadersReceivedCompleteFromProxy, ResumeIncomingMethodCallProcessing
    <3> QED BY <2>1, <3>1, <3>2 DEF Socket
  <2>4. \/ OnError(id, s) \/ ws' = [ws EXCEPT ![id] = OnBeforeSendHeadersComplete(s)]
        \/ ws' = [ws EXCEPT ![id] = OnHeadersReceivedCompleteFromProxy(s)]
    BY <1>10 DEF HeaderClientAnswers, OnBeforeSendHeadersCompleteFromProxy,
                 HeadersReceivedAnswered
  <2> QED BY <1>2, <1>4, <2>1, <2>2, <2>3, <2>4
<1>11. ASSUME NEW t \in tasks, RunTask(t)
       PROVE  t.id = i /\ t.id \in live /\ t.rv = "OK" /\ t.cont # "OnHeadersReceivedComplete"
  <2>1. ~StaleTask(t)
    BY <1>5 DEF StaleTask
  <2>2. t.id \in live /\ ws[t.id] \in Socket /\ t.id \in Ids
    BY <1>1, <1>11, <2>1 DEF RunTask, HooksAnswered, OnHeadersReceivedComplete, TakeTask
  <2>3. ~OnHeadersReceivedComplete(t)
    <3>1. [ws[t.id] EXCEPT !.asked = "OnHeadersReceived"].net = ws[t.id].net
      BY <2>2 DEF Socket
    <3>2. ASSUME OnHeadersReceivedComplete(t)
          PROVE  ws' = [ws EXCEPT ![t.id] = [ws[t.id] EXCEPT !.asked = "OnHeadersReceived"]]
      BY <3>2 DEF OnHeadersReceivedComplete
    <3> QED BY <1>2, <2>2, <3>1, <3>2
  <2>4. HooksAnswered(t)
    BY <1>11, <2>1, <2>3 DEF RunTask
  <2>5. t.rv = "OK" /\ ws' = [ws EXCEPT ![t.id] = Proceed(ws[t.id])]
    BY <1>4, <2>2, <2>4 DEF HooksAnswered
  <2> QED BY <1>2, <2>2, <2>4, <2>5 DEF HooksAnswered, TakeTask
<1>12. ~Shutdown
  <2>1. ASSUME Shutdown PROVE ws'[i] = IF i \in live THEN Destroyed(ws[i]) ELSE ws[i]
    BY <2>1 DEF Shutdown
  <2> QED BY <1>1, <1>3, <2>1
<1>13. ~StartProxyingWebSocket
  BY <1>5 DEF StartProxyingWebSocket
<1> QED BY <1>6, <1>7, <1>8, <1>9, <1>10, <1>11, <1>12, <1>13 DEF Next

LEMMA NextConnectsWithConsent == IInv /\ [Next]_vars => [ConnectsWithConsent]_vars
<1> SUFFICES ASSUME IInv, Next,
                    NEW i \in Ids, ws[i].net # "connecting", ws'[i].net = "connecting"
             PROVE  /\ ws[i].net = "none"
                    /\ \/ NumURLHooks = 0
                       \/ /\ ctx[i].event = "kOnBeforeRequest"
                          /\ ctx[i].index = NumURLHooks /\ ~ctx[i].refused
  BY DEF ConnectsWithConsent
<1>1. CASE \E extra \in BOOLEAN : Start(i, extra) /\ H!BeforeURLRequestReturnsOK(FALSE)
  <2>1. i = lastId + 1
    BY <1>1 DEF Start, H!NewRequest, H!NewRequestBlocked
  <2>2. lastId \in Nat
    BY DEF IInv, SocketInv, TypeOK, H!TypeOK
  <2>3. ws[i].net = "none"
    BY <2>1, <2>2 DEF IInv, SocketInv, PipesTellPhase
  <2> QED BY <1>1, <2>3 DEF H!BeforeURLRequestReturnsOK
<1>2. ASSUME NEW t \in tasks, t.id = i, t.id \in live, t.rv = "OK",
             t.cont # "OnHeadersReceivedComplete"
      PROVE  /\ ws[i].net = "none" /\ ctx[i].event = "kOnBeforeRequest"
             /\ ctx[i].index = NumURLHooks /\ ~ctx[i].refused
  <2>1. ws[i].net = "none" /\ ctx[i].event = "kOnBeforeRequest"
    BY <1>2, LiveSocket DEF SocketOK
  <2> QED BY <1>2, <2>1 DEF IInv, H!HandlerInv, H!OKOnlyAfterEveryHook
<1> QED BY <1>1, <1>2, ConnectingStep

(* factory_ is a OnceCallback and is run with the consent of every hook, or *)
(* of the handler where no hook is registered.                              *)
THEOREM ConnectionsAreVetted == Spec => ConnectsOnceWithConsent
BY JointInvariant, NextConnectsWithConsent, PTL DEF Spec, ConnectsOnceWithConsent
=============================================================================
