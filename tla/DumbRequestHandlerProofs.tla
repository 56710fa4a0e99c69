---------------------- MODULE DumbRequestHandlerProofs ----------------------
(***************************************************************************)
(* Proofs about DumbRequestHandler, for any number of requests, hooks and  *)
(* continuations.  HandlerInv is inductive; each of the handler's safety   *)
(* properties is one of its conjuncts, and the order of the hooks follows  *)
(* from it step by step.                                                   *)
(***************************************************************************)
EXTENDS DumbRequestHandler, TLAPS

(* A new context is well-formed and carries the event it was made for.      *)
LEMMA FreshCTXType ==
    /\ FreshCTX("kUnknownEventType") \in RequestInfo
    /\ FreshCTX("kOnBeforeRequest") \in RequestInfo
    /\ FreshCTX("kOnHeadersReceived") \in RequestInfo
    /\ FreshCTX("kUnknownEventType").event = "kUnknownEventType"
    /\ FreshCTX("kOnBeforeRequest").event = "kOnBeforeRequest"
    /\ FreshCTX("kOnHeadersReceived").event = "kOnHeadersReceived"
BY HandlerAssumption DEF FreshCTX, RequestInfo, Events, BlockedBy

(* What a step that runs the hooks for request id may rely on: the request  *)
(* exists after the step and no continuation of it was left in the queue.   *)
(* NewRequest, RestartRequest and HookAnswers all meet it.                  *)
LEMMA RunNextCallbackKeepsInv ==
    ASSUME HandlerInv,
           NEW id \in Ids, NEW c \in RequestInfo, NEW cb \in Continuations,
           c.event = "kOnBeforeRequest",
           \A t \in tasks : t.id # id,
           live' = live \cup {id},
           lastId' \in 0..MaxRequests, lastId <= lastId', id <= lastId',
           RunNextCallback(id, c, cb, hookWait \ {id})
    PROVE  HandlerInv'
<1> USE HandlerAssumption DEF Ids
<1>1. PICK index \in StopIndexes(c), newUrl \in BOOLEAN, blocked \in BlockedBy,
            refused \in BOOLEAN :
        /\ ctx' = [ctx EXCEPT ![id] = [c EXCEPT !.index = index, !.newUrl = newUrl,
                                                !.blocked = blocked, !.refused = refused]]
        /\ \/ index > c.index /\ ~refused /\ HookPends(id, cb, hookWait \ {id})
           \/ index > c.index /\ refused /\ HooksDone(id, cb, hookWait \ {id}, "error", FALSE)
           \/ index = NumURLHooks /\ ~refused /\ HooksDone(id, cb, hookWait \ {id}, "OK", newUrl)
  BY DEF RunNextCallback
<1>2. index \in 0..NumURLHooks
  BY DEF StopIndexes, RequestInfo
<1>3. /\ ctx' \in [Ids -> RequestInfo]
      /\ ctx'[id].event = "kOnBeforeRequest" /\ ctx'[id].index = index
      /\ ctx'[id].refused = refused
      /\ \A i \in Ids \ {id} : ctx'[i] = ctx[i]
  BY <1>1, <1>2 DEF HandlerInv, TypeOK, RequestInfo
<1>4. CASE HookPends(id, cb, hookWait \ {id})
  <2>1. /\ hookWait' = (hookWait \ {id}) \cup {id}
        /\ redirectUrl' = [redirectUrl EXCEPT ![id] = FALSE]
        /\ callbacks' = [callbacks EXCEPT ![id] = cb]
        /\ tasks' = tasks
    BY <1>4 DEF HookPends
  <2>2. TypeOK'
    BY <1>3, <2>1 DEF HandlerInv, TypeOK
  <2>3. CallbacksOwnedByLiveRequests' /\ NoMovedCallbackPosted'
    BY <2>1 DEF HandlerInv, TypeOK, CallbacksOwnedByLiveRequests, NoMovedCallbackPosted
  <2>4. AtMostOneContinuation'
    BY <2>1 DEF HandlerInv, AtMostOneContinuation
  <2>5. OKOnlyAfterEveryHook'
    BY <1>3, <2>1 DEF HandlerInv, TypeOK, Tasks, OKOnlyAfterEveryHook
  <2>6. FutureIdsUntouched'
    BY <2>1 DEF HandlerInv, TypeOK, Tasks, FutureIdsUntouched
  <2>7. PendingHookHasCallback'
    BY <1>3, <2>1 DEF HandlerInv, TypeOK, PendingHookHasCallback
  <2> QED BY <2>2, <2>3, <2>4, <2>5, <2>6, <2>7 DEF HandlerInv
<1>5. ASSUME NEW rv \in Results, NEW url \in BOOLEAN,
             HooksDone(id, cb, hookWait \ {id}, rv, url),
             rv = "OK" => index = NumURLHooks /\ ~refused
      PROVE  HandlerInv'
  <2> DEFINE task == [id |-> id, cont |-> cb, rv |-> rv]
  <2>1. /\ hookWait' = hookWait \ {id}
        /\ redirectUrl' = [redirectUrl EXCEPT ![id] = url]
        /\ callbacks' = [callbacks EXCEPT ![id] = MovedCallback]
        /\ tasks' = tasks \cup {task}
    BY <1>5 DEF HooksDone, RunCallbackForRequestIdentifier
  <2>2. task \in Tasks /\ task.id = id /\ task.cont = cb /\ task.rv = rv
    BY DEF Tasks
  <2> HIDE DEF task
  <2>3. TypeOK'
    BY <1>3, <2>1, <2>2 DEF HandlerInv, TypeOK
  <2>4. CallbacksOwnedByLiveRequests'
    BY <2>1 DEF HandlerInv, TypeOK, CallbacksOwnedByLiveRequests
  <2>5. NoMovedCallbackPosted'
    BY <2>1, <2>2 DEF HandlerInv, NoMovedCallbackPosted
  <2>6. AtMostOneContinuation'
    BY <2>1, <2>2 DEF HandlerInv, AtMostOneContinuation
  <2>7. OKOnlyAfterEveryHook'
    BY <1>3, <1>5, <2>1, <2>2 DEF HandlerInv, TypeOK, Tasks, OKOnlyAfterEveryHook
  <2>8. FutureIdsUntouched'
    BY <2>1, <2>2 DEF HandlerInv, TypeOK, Tasks, FutureIdsUntouched
  <2>9. PendingHookHasCallback'
    BY <1>3, <2>1 DEF HandlerInv, TypeOK, PendingHookHasCallback
  <2> QED BY <2>3, <2>4, <2>5, <2>6, <2>7, <2>8, <2>9 DEF HandlerInv
<1> QED BY <1>1, <1>4, <1>5 DEF Results

(* A call of OnBeforeURLRequest by a proxy with nothing outstanding.        *)
LEMMA OnBeforeURLRequestKeepsInv ==
    ASSUME HandlerInv,
           NEW id \in Ids, NEW cont \in Continuations, NEW internal \in BOOLEAN,
           ~Outstanding(id),
           live' = live \cup {id},
           lastId' \in 0..MaxRequests, lastId <= lastId', id <= lastId',
           OnBeforeURLRequest(id, cont, internal)
    PROVE  HandlerInv'
<1> USE HandlerAssumption DEF Ids
<1>1. id \notin hookWait /\ \A t \in tasks : t.id # id
  BY DEF Outstanding
<1>2. CASE BeforeURLRequestReturnsOK(internal)
  <2>1. /\ ctx' = [ctx EXCEPT ![id] = FreshCTX("kUnknownEventType")]
        /\ redirectUrl' = [redirectUrl EXCEPT ![id] = FALSE]
        /\ UNCHANGED <<callbacks, hookWait, tasks>>
    BY <1>2 DEF OnBeforeURLRequest, MakeCTX
  <2>2. FreshCTX("kUnknownEventType") \in RequestInfo
    BY FreshCTXType
  <2>3. TypeOK'
    BY <2>1, <2>2 DEF HandlerInv, TypeOK
  <2>4. CallbacksOwnedByLiveRequests' /\ AtMostOneContinuation' /\ NoMovedCallbackPosted'
    BY <1>1, <2>1 DEF HandlerInv, CallbacksOwnedByLiveRequests, AtMostOneContinuation,
                      NoMovedCallbackPosted
  <2>5. OKOnlyAfterEveryHook'
    BY <1>1, <2>1 DEF HandlerInv, TypeOK, Tasks, OKOnlyAfterEveryHook
  <2>6. FutureIdsUntouched'
    BY <2>1 DEF HandlerInv, TypeOK, Tasks, FutureIdsUntouched
  <2>7. PendingHookHasCallback'
    BY <1>1, <2>1 DEF HandlerInv, TypeOK, PendingHookHasCallback
  <2> QED BY <2>3, <2>4, <2>5, <2>6, <2>7 DEF HandlerInv
<1>3. CASE ~BeforeURLRequestReturnsOK(internal)
  <2> DEFINE c == FreshCTX("kOnBeforeRequest")
  <2>1. c \in RequestInfo /\ c.event = "kOnBeforeRequest"
    BY FreshCTXType
  <2>2. RunNextCallback(id, c, cont, hookWait \ {id})
    <3>1. RunNextCallback(id, c, cont, hookWait)
      BY <1>3 DEF OnBeforeURLRequest
    <3>2. hookWait \ {id} = hookWait
      BY <1>1
    <3> QED BY <3>1, <3>2
  <2> HIDE DEF c
  <2> QED BY <1>1, <2>1, <2>2, RunNextCallbackKeepsInv
<1> QED BY <1>2, <1>3

LEMMA HeadersReceivedKeepsInv ==
    ASSUME HandlerInv, NEW id \in Ids, NEW cont \in Continuations, HeadersReceived(id, cont)
    PROVE  HandlerInv'
<1> USE HandlerAssumption DEF Ids
<1>1. /\ id \in live /\ id \notin hookWait /\ \A t \in tasks : t.id # id
      /\ UNCHANGED <<live, lastId, hookWait>>
      /\ redirectUrl' \in [Ids -> BOOLEAN]
  BY DEF HeadersReceived, OnHeadersReceived, Outstanding, HandlerInv, TypeOK
<1>2. PICK c \in RequestInfo :
        /\ ctx' = [ctx EXCEPT ![id] = c]
        /\ c.event # "kOnBeforeRequest"
        /\ \/ UNCHANGED <<callbacks, tasks>>
           \/ /\ callbacks' = [callbacks EXCEPT ![id] = MovedCallback]
              /\ tasks' = tasks \cup {[id |-> id, cont |-> cont, rv |-> "OK"]}
  <2> QED BY FreshCTXType DEF HeadersReceived, OnHeadersReceived, MakeCTX,
                      RunCallbackForRequestIdentifier
<1> DEFINE task == [id |-> id, cont |-> cont, rv |-> "OK"]
<1>3. task \in Tasks /\ task.id = id /\ task.cont = cont
  BY DEF Tasks, Results
<1>4. tasks' = tasks \/ tasks' = tasks \cup {task}
  BY <1>2
<1> HIDE DEF task
<1>5. TypeOK'
  BY <1>1, <1>2, <1>3, <1>4 DEF HandlerInv, TypeOK
<1>6. CallbacksOwnedByLiveRequests'
  BY <1>1, <1>2 DEF HandlerInv, TypeOK, CallbacksOwnedByLiveRequests
<1>7. AtMostOneContinuation' /\ NoMovedCallbackPosted'
  BY <1>1, <1>3, <1>4 DEF HandlerInv, AtMostOneContinuation, NoMovedCallbackPosted
<1>8. OKOnlyAfterEveryHook'
  BY <1>1, <1>2, <1>3, <1>4 DEF HandlerInv, TypeOK, Tasks, OKOnlyAfterEveryHook
<1>9. FutureIdsUntouched'
  BY <1>1, <1>3, <1>4 DEF HandlerInv, TypeOK, Tasks, FutureIdsUntouched
<1>10. PendingHookHasCallback'
  BY <1>1, <1>2 DEF HandlerInv, TypeOK, PendingHookHasCallback
<1> QED BY <1>5, <1>6, <1>7, <1>8, <1>9, <1>10 DEF HandlerInv

(* Steps of an existing proxy with nothing outstanding that change no more  *)
(* than its own context and redirect_url_.                                  *)
LEMMA OwnStepKeepsInv ==
    ASSUME HandlerInv, NEW id \in Ids, SkipHeadersReceived(id) \/ BeforeStartTransaction(id)
    PROVE  HandlerInv'
<1> USE HandlerAssumption DEF Ids
<1>1. /\ id \in live /\ id \notin hookWait /\ \A t \in tasks : t.id # id
      /\ UNCHANGED <<live, lastId, callbacks, hookWait, tasks>>
  BY DEF SkipHeadersReceived, BeforeStartTransaction, Outstanding
<1>2. /\ redirectUrl' \in [Ids -> BOOLEAN]
      /\ ctx' \in [Ids -> RequestInfo] /\ \A i \in Ids \ {id} : ctx'[i] = ctx[i]
  BY FreshCTXType DEF SkipHeadersReceived, BeforeStartTransaction, MakeCTX, HandlerInv, TypeOK
<1>3. TypeOK'
  BY <1>1, <1>2 DEF HandlerInv, TypeOK
<1>4. /\ CallbacksOwnedByLiveRequests' /\ AtMostOneContinuation' /\ NoMovedCallbackPosted'
      /\ FutureIdsUntouched'
  BY <1>1 DEF HandlerInv, CallbacksOwnedByLiveRequests, AtMostOneContinuation,
              NoMovedCallbackPosted, FutureIdsUntouched
<1>5. OKOnlyAfterEveryHook' /\ PendingHookHasCallback'
  BY <1>1, <1>2 DEF HandlerInv, TypeOK, Tasks, OKOnlyAfterEveryHook, PendingHookHasCallback
<1> QED BY <1>3, <1>4, <1>5 DEF HandlerInv

(* Steps that post a continuation for a proxy that does not exist any more. *)
LEMMA BlockedKeepsInv ==
    ASSUME HandlerInv, NEW id \in Ids, NEW cont \in Continuations,
           NewRequestBlocked(id, cont) \/ HeadersReceivedBlocked(id, cont)
    PROVE  HandlerInv'
<1> USE HandlerAssumption DEF Ids
<1> DEFINE task == [id |-> id, cont |-> cont, rv |-> "OK"]
<1>1. task \in Tasks /\ task.id = id /\ task.cont = cont
  BY DEF Tasks, Results
<1>2. /\ hookWait' = hookWait /\ live' \subseteq live /\ id \notin live'
      /\ tasks' = tasks \/ tasks' = tasks \cup {task}
      /\ lastId' \in 0..MaxRequests /\ lastId <= lastId' /\ id <= lastId'
  <2>1. CASE NewRequestBlocked(id, cont)
    BY <2>1 DEF NewRequestBlocked, HandlerInv, TypeOK, FutureIdsUntouched
  <2>2. CASE HeadersReceivedBlocked(id, cont)
    <3>1. tasks' = tasks \/ tasks' = tasks \cup {task}
      BY <2>2 DEF HeadersReceivedBlocked
    <3> QED BY <2>2, <3>1 DEF HeadersReceivedBlocked, HandlerInv, TypeOK, FutureIdsUntouched
  <2> QED BY <2>1, <2>2
<1>3. /\ redirectUrl' \in [Ids -> BOOLEAN]
      /\ callbacks' \in [Ids -> Continuations \cup {NoCallback, MovedCallback}]
      /\ \A i \in Ids : callbacks'[i] # NoCallback => callbacks'[i] = callbacks[i] /\ i \in live'
      /\ \A i \in live' : callbacks'[i] = callbacks[i]
  BY <1>2 DEF NewRequestBlocked, HeadersReceivedBlocked, HandlerInv, TypeOK,
              CallbacksOwnedByLiveRequests
<1>4. PICK c \in RequestInfo : ctx' = [ctx EXCEPT ![id] = c]
  <2>1. CASE NewRequestBlocked(id, cont)
    <3>1. PICK blocked \in BlockedBy :
             ctx' = [ctx EXCEPT ![id] = [event |-> "kOnBeforeRequest", index |-> NumURLHooks,
                                         newUrl |-> TRUE, blocked |-> blocked,
                                         refused |-> FALSE]]
      BY <2>1 DEF NewRequestBlocked
    <3>2. [event |-> "kOnBeforeRequest", index |-> NumURLHooks,
           newUrl |-> TRUE, blocked |-> blocked, refused |-> FALSE] \in RequestInfo
      BY DEF RequestInfo, Events
    <3> QED BY <3>1, <3>2
  <2>2. CASE HeadersReceivedBlocked(id, cont)
    BY <2>2, FreshCTXType DEF HeadersReceivedBlocked
  <2> QED BY <2>1, <2>2
<1> HIDE DEF task
<1>5. TypeOK'
  BY <1>1, <1>2, <1>3, <1>4 DEF HandlerInv, TypeOK
<1>6. CallbacksOwnedByLiveRequests'
  BY <1>2, <1>3 DEF CallbacksOwnedByLiveRequests
<1>7. AtMostOneContinuation' /\ NoMovedCallbackPosted'
  BY <1>1, <1>2 DEF HandlerInv, AtMostOneContinuation, NoMovedCallbackPosted
<1>8. OKOnlyAfterEveryHook'
  BY <1>1, <1>2, <1>4 DEF HandlerInv, TypeOK, Tasks, OKOnlyAfterEveryHook
<1>9. FutureIdsUntouched'
  BY <1>1, <1>2 DEF HandlerInv, TypeOK, Tasks, FutureIdsUntouched
<1>10. PendingHookHasCallback'
  BY <1>2, <1>3, <1>4 DEF HandlerInv, TypeOK, PendingHookHasCallback
<1> QED BY <1>5, <1>6, <1>7, <1>8, <1>9, <1>10 DEF HandlerInv

LEMMA HookAnswersKeepsInv ==
    ASSUME HandlerInv, NEW id \in Ids, HookAnswers(id)
    PROVE  HandlerInv'
<1> USE HandlerAssumption DEF Ids
<1>1. id \in hookWait /\ UNCHANGED <<live, lastId>>
  BY DEF HookAnswers
<1>2. CASE callbacks[id] = NoCallback
  <2>1. /\ hookWait' = hookWait \ {id}
        /\ UNCHANGED <<live, lastId, callbacks, ctx, redirectUrl, tasks>>
    BY <1>2 DEF HookAnswers
  <2> QED BY <2>1 DEF HandlerInv, TypeOK, CallbacksOwnedByLiveRequests, AtMostOneContinuation,
                 NoMovedCallbackPosted, OKOnlyAfterEveryHook, FutureIdsUntouched,
                 PendingHookHasCallback
<1>3. CASE callbacks[id] # NoCallback
  <2>1. id \in live
    BY <1>3 DEF HandlerInv, CallbacksOwnedByLiveRequests
  <2>2. callbacks[id] \in Continuations /\ ctx[id] \in RequestInfo
        /\ ctx[id].event = "kOnBeforeRequest"
    BY <1>1, <2>1 DEF HandlerInv, TypeOK, PendingHookHasCallback
  <2>3. \A t \in tasks : t.id # id
    BY <1>1, <2>1 DEF HandlerInv, AtMostOneContinuation
  <2>4. RunNextCallback(id, ctx[id], callbacks[id], hookWait \ {id})
    BY <1>3 DEF HookAnswers
  <2>5. /\ live' = live \cup {id} /\ lastId' \in 0..MaxRequests /\ lastId <= lastId'
        /\ id <= lastId'
    BY <1>1, <2>1 DEF HandlerInv, TypeOK, FutureIdsUntouched
  <2> QED BY <2>2, <2>3, <2>4, <2>5, RunNextCallbackKeepsInv
<1> QED BY <1>2, <1>3

(* Any set of requests may be destroyed at any time, together with tasks    *)
(* being taken from the queue.                                              *)
LEMMA DestroyKeepsInv ==
    ASSUME HandlerInv, NEW S \in SUBSET Ids, OnURLRequestDestroyed(S),
           tasks' \subseteq tasks,
           UNCHANGED <<lastId, ctx, redirectUrl, hookWait>>
    PROVE  HandlerInv'
<1> USE HandlerAssumption DEF Ids
<1>1. /\ live' = live \ S
      /\ callbacks' = [id \in Ids |-> IF id \in S THEN NoCallback ELSE callbacks[id]]
  BY DEF OnURLRequestDestroyed
<1>2. TypeOK'
  BY <1>1 DEF HandlerInv, TypeOK
<1>3. CallbacksOwnedByLiveRequests' /\ PendingHookHasCallback'
  BY <1>1 DEF HandlerInv, TypeOK, CallbacksOwnedByLiveRequests, PendingHookHasCallback
<1>4. AtMostOneContinuation' /\ NoMovedCallbackPosted' /\ OKOnlyAfterEveryHook'
  BY <1>1 DEF HandlerInv, AtMostOneContinuation, NoMovedCallbackPosted, OKOnlyAfterEveryHook
<1>5. FutureIdsUntouched'
  BY <1>1 DEF HandlerInv, FutureIdsUntouched
<1> QED BY <1>2, <1>3, <1>4, <1>5 DEF HandlerInv

LEMMA RunTaskKeepsInv ==
    ASSUME HandlerInv, NEW t \in tasks, RunTask(t)
    PROVE  HandlerInv'
<1> USE HandlerAssumption DEF Ids
<1>1. /\ tasks' = tasks \ {t}
      /\ UNCHANGED <<lastId, redirectUrl, hookWait>>
      /\ t.id \in Ids
  BY DEF RunTask, HandlerInv, TypeOK, Tasks
<1>2. CASE UNCHANGED <<live, callbacks, ctx>>
  BY <1>1, <1>2 DEF HandlerInv, TypeOK, CallbacksOwnedByLiveRequests, AtMostOneContinuation,
                    NoMovedCallbackPosted, OKOnlyAfterEveryHook, FutureIdsUntouched,
                    PendingHookHasCallback
<1>3. CASE t.id \in live /\ MakeCTX(t.id) /\ UNCHANGED <<live, callbacks>>
  <2>1. t.id \notin hookWait /\ \A u \in tasks' : u.id # t.id
    BY <1>1, <1>3 DEF HandlerInv, AtMostOneContinuation
  <2>2. /\ ctx' = [ctx EXCEPT ![t.id] = FreshCTX("kUnknownEventType")]
        /\ FreshCTX("kUnknownEventType") \in RequestInfo
    BY <1>3, FreshCTXType DEF MakeCTX
  <2>3. TypeOK'
    BY <1>1, <1>3, <2>2 DEF HandlerInv, TypeOK
  <2>4. /\ CallbacksOwnedByLiveRequests' /\ AtMostOneContinuation' /\ NoMovedCallbackPosted'
        /\ FutureIdsUntouched'
    BY <1>1, <1>3 DEF HandlerInv, CallbacksOwnedByLiveRequests, AtMostOneContinuation,
                      NoMovedCallbackPosted, FutureIdsUntouched
  <2>5. OKOnlyAfterEveryHook'
    BY <1>1, <1>3, <2>1, <2>2 DEF HandlerInv, TypeOK, Tasks, OKOnlyAfterEveryHook
  <2>6. PendingHookHasCallback'
    BY <1>1, <1>3, <2>1, <2>2 DEF HandlerInv, TypeOK, PendingHookHasCallback
  <2> QED BY <2>3, <2>4, <2>5, <2>6 DEF HandlerInv
<1>4. CASE t.id \in live /\ OnURLRequestDestroyed({t.id}) /\ UNCHANGED ctx
  BY <1>1, <1>4, DestroyKeepsInv
<1> QED BY <1>2, <1>3, <1>4 DEF RunTask

LEMMA InitEstablishesInv == Init => HandlerInv
BY HandlerAssumption
   DEF Init, Ids, HandlerInv, TypeOK, FreshCTX, RequestInfo, Events, BlockedBy,
       CallbacksOwnedByLiveRequests, AtMostOneContinuation, NoMovedCallbackPosted,
       OKOnlyAfterEveryHook, FutureIdsUntouched, PendingHookHasCallback

LEMMA NextKeepsInv == HandlerInv /\ [Next]_vars => HandlerInv'
<1> SUFFICES ASSUME HandlerInv, [Next]_vars PROVE HandlerInv'
  OBVIOUS
<1> USE HandlerAssumption
<1>1. ASSUME NEW id \in Ids, NEW cont \in Continuations, NEW internal \in BOOLEAN,
             NewRequest(id, cont, internal)
      PROVE  HandlerInv'
  <2>1. /\ id = lastId + 1 /\ lastId' = id /\ live' = live \cup {id}
        /\ OnBeforeURLRequest(id, cont, internal)
    BY <1>1 DEF NewRequest
  <2>2. ~Outstanding(id)
    BY <2>1 DEF Outstanding, HandlerInv, TypeOK, FutureIdsUntouched, Ids, Tasks
  <2>3. lastId' \in 0..MaxRequests /\ lastId <= lastId' /\ id <= lastId'
    BY <2>1 DEF Ids, HandlerInv, TypeOK
  <2> QED BY <2>1, <2>2, <2>3, OnBeforeURLRequestKeepsInv
<1>2. ASSUME NEW id \in Ids, NEW cont \in Continuations, NEW internal \in BOOLEAN,
             RestartRequest(id, cont, internal)
      PROVE  HandlerInv'
  <2>1. /\ id \in live /\ live' = live /\ lastId' = lastId /\ ~Outstanding(id)
        /\ OnBeforeURLRequest(id, cont, internal)
    BY <1>2 DEF RestartRequest
  <2>2. live' = live \cup {id} /\ lastId' \in 0..MaxRequests /\ lastId <= lastId'
        /\ id <= lastId'
    BY <2>1 DEF HandlerInv, TypeOK, FutureIdsUntouched
  <2> QED BY <2>1, <2>2, OnBeforeURLRequestKeepsInv
<1>3. ASSUME NEW id \in Ids, NEW cont \in Continuations, HeadersReceived(id, cont)
      PROVE  HandlerInv'
  BY <1>3, HeadersReceivedKeepsInv
<1>4. ASSUME NEW id \in Ids, HookAnswers(id)
      PROVE  HandlerInv'
  BY <1>4, HookAnswersKeepsInv
<1>5. ASSUME NEW t \in tasks, RunTask(t)
      PROVE  HandlerInv'
  BY <1>5, RunTaskKeepsInv
<1>6. ASSUME NEW S \in SUBSET live, Destroy(S)
      PROVE  HandlerInv'
  <2>1. S \in SUBSET Ids
    BY DEF HandlerInv, TypeOK
  <2> QED BY <1>6, <2>1, DestroyKeepsInv DEF Destroy
<1>7. ASSUME NEW id \in Ids, SkipHeadersReceived(id) \/ BeforeStartTransaction(id)
      PROVE  HandlerInv'
  BY <1>7, OwnStepKeepsInv
<1>8. ASSUME NEW id \in Ids, NEW cont \in Continuations,
             NewRequestBlocked(id, cont) \/ HeadersReceivedBlocked(id, cont)
      PROVE  HandlerInv'
  BY <1>8, BlockedKeepsInv
<1>9. CASE UNCHANGED vars
  BY <1>9 DEF vars, HandlerInv, TypeOK, CallbacksOwnedByLiveRequests, AtMostOneContinuation,
              NoMovedCallbackPosted, OKOnlyAfterEveryHook, FutureIdsUntouched,
              PendingHookHasCallback, RequestInfo, Tasks
<1> QED BY <1>1, <1>2, <1>3, <1>4, <1>5, <1>6, <1>7, <1>8, <1>9 DEF Next

(* The inductive invariant holds of every behaviour: all the safety         *)
(* properties of the handler at once.                                       *)
THEOREM HandlerInvariant == Spec => []HandlerInv
BY InitEstablishesInv, NextKeepsInv, PTL DEF Spec

(* The raw pointers in a context are only written through while the proxy   *)
(* they point into exists.                                                  *)
THEOREM CallbacksStayOwned == Spec => []CallbacksOwnedByLiveRequests
<1>1. HandlerInv => CallbacksOwnedByLiveRequests
  BY DEF HandlerInv
<1> QED BY <1>1, HandlerInvariant, PTL

(* A request is never continued twice.                                      *)
THEOREM NeverTwoContinuations == Spec => []AtMostOneContinuation
<1>1. HandlerInv => AtMostOneContinuation
  BY DEF HandlerInv
<1> QED BY <1>1, HandlerInvariant, PTL

(* No request goes on before its last hook has agreed.                      *)
THEOREM EveryHookConsulted == Spec => []OKOnlyAfterEveryHook
<1>1. HandlerInv => OKOnlyAfterEveryHook
  BY DEF HandlerInv
<1> QED BY <1>1, HandlerInvariant, PTL

LEMMA NextKeepsHookOrder == HandlerInv /\ [Next]_vars => [HookOrderStep]_vars
<1> SUFFICES ASSUME HandlerInv, Next,
                    NEW i \in hookWait \cap live, ctx'[i] # ctx[i]
             PROVE  /\ ctx'[i].event = ctx[i].event
                    /\ ctx'[i].index >= ctx[i].index
                    /\ i \in hookWait' => ctx'[i].index > ctx[i].index
  BY DEF HookOrderStep, vars
<1> USE HandlerAssumption
<1>1. /\ i \in Ids /\ Outstanding(i) /\ ctx[i] \in RequestInfo
      /\ i <= lastId /\ lastId \in Nat /\ \A t \in tasks : t.id # i
  BY DEF HandlerInv, TypeOK, Outstanding, FutureIdsUntouched, AtMostOneContinuation
<1>2. ASSUME NEW id \in Ids, NEW cont \in Continuations, NEW internal \in BOOLEAN,
             NewRequest(id, cont, internal) \/ RestartRequest(id, cont, internal)
      PROVE  ctx'[i] = ctx[i]
  <2>1. id # i
    BY <1>1, <1>2 DEF NewRequest, RestartRequest
  <2> QED BY <1>1, <1>2, <2>1
             DEF NewRequest, RestartRequest, OnBeforeURLRequest, MakeCTX, RunNextCallback,
                 HandlerInv, TypeOK
<1>3. ASSUME NEW id \in Ids, NEW cont \in Continuations, HeadersReceived(id, cont)
      PROVE  ctx'[i] = ctx[i]
  BY <1>1, <1>3 DEF HeadersReceived, OnHeadersReceived, MakeCTX, HandlerInv, TypeOK
<1>4. ASSUME NEW id \in Ids, HookAnswers(id)
      PROVE  /\ ctx'[i].event = ctx[i].event
             /\ ctx'[i].index >= ctx[i].index
             /\ i \in hookWait' => ctx'[i].index > ctx[i].index
  <2>1. /\ id = i /\ callbacks[id] # NoCallback
        /\ RunNextCallback(id, ctx[id], callbacks[id], hookWait \ {id})
    BY <1>1, <1>4 DEF HookAnswers, RunNextCallback, HandlerInv, TypeOK
  <2>2. PICK index \in StopIndexes(ctx[id]), newUrl \in BOOLEAN, blocked \in BlockedBy,
            refused \in BOOLEAN :
          /\ ctx' = [ctx EXCEPT ![id] = [ctx[id] EXCEPT !.index = index, !.newUrl = newUrl,
                                                        !.blocked = blocked, !.refused = refused]]
          /\ \/ /\ index > ctx[id].index /\ ~refused
                /\ HookPends(id, callbacks[id], hookWait \ {id})
             \/ /\ index > ctx[id].index /\ refused
                /\ HooksDone(id, callbacks[id], hookWait \ {id}, "error", FALSE)
             \/ /\ index = NumURLHooks /\ ~refused
                /\ HooksDone(id, callbacks[id], hookWait \ {id}, "OK", newUrl)
    BY <2>1 DEF RunNextCallback
  <2>3. hookWait' = hookWait \ {id} \/ index > ctx[id].index
    BY <2>2 DEF HooksDone
  <2>4. ctx'[id].event = ctx[id].event /\ ctx'[id].index = index
    BY <1>1, <2>1, <2>2 DEF HandlerInv, TypeOK, RequestInfo
  <2>5. index >= ctx[id].index
    BY <1>1, <2>1, <2>2 DEF StopIndexes, RequestInfo
  <2> QED BY <2>1, <2>3, <2>4, <2>5
<1>5. ASSUME NEW t \in tasks, RunTask(t)
      PROVE  ctx'[i] = ctx[i]
  BY <1>1, <1>5 DEF RunTask, MakeCTX, HandlerInv, TypeOK
<1>6. ASSUME NEW S \in SUBSET live, Destroy(S)
      PROVE  ctx'[i] = ctx[i]
  BY <1>6 DEF Destroy
<1>7. ASSUME NEW id \in Ids, NEW cont \in Continuations,
             NewRequestBlocked(id, cont) \/ HeadersReceivedBlocked(id, cont)
      PROVE  ctx'[i] = ctx[i]
  <2>1. id # i
    <3>1. CASE NewRequestBlocked(id, cont)
      BY <1>1, <3>1 DEF NewRequestBlocked, Ids
    <3>2. CASE HeadersReceivedBlocked(id, cont)
      BY <1>1, <3>2 DEF HeadersReceivedBlocked
    <3> QED BY <1>7, <3>1, <3>2
  <2> QED BY <1>1, <1>7, <2>1
             DEF NewRequestBlocked, HeadersReceivedBlocked, HandlerInv, TypeOK
<1>8. ASSUME NEW id \in Ids, SkipHeadersReceived(id) \/ BeforeStartTransaction(id)
      PROVE  ctx'[i] = ctx[i]
  BY <1>1, <1>8 DEF SkipHeadersReceived, BeforeStartTransaction, MakeCTX, Outstanding,
                    HandlerInv, TypeOK
<1> QED BY <1>2, <1>3, <1>4, <1>5, <1>6, <1>7, <1>8 DEF Next

(* No hook is run twice for a URL, and none is skipped or overtaken.        *)
THEOREM HooksInOrder == Spec => HooksRunOnceInOrder
BY HandlerInvariant, NextKeepsHookOrder, PTL DEF Spec, HooksRunOnceInOrder
=============================================================================
