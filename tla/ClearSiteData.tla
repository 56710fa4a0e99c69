--------------------------- MODULE ClearSiteData ----------------------------
(***************************************************************************)
(* dumb/services/network/network_service_network_delegate.cc: what         *)
(* OnHeadersReceived does with the headers of a response.                  *)
(*                                                                         *)
(* Two parties have a say before a response goes on: the header client of  *)
(* the URLLoader or WebSocket, which may veto it, and, if the server sent  *)
(* Clear-Site-Data, the browser process, which clears the data first.      *)
(* Each may answer at once or later; a PendingCallbackChain collects the   *)
(* answers, and the last one makes the URLRequest go on.                   *)
(*                                                                         *)
(* A request can be destroyed at any time.  Its loader, which owns the     *)
(* callback given to the header client, goes with it, but the callback for *)
(* the browser is in a reply that is still to come.  The chain lives as    *)
(* long as a callback does.  A request may get several header blocks, one  *)
(* for each redirect or authentication challenge.                          *)
(***************************************************************************)
EXTENDS Naturals

CONSTANTS
    Requests,
    Observed,  \* loaders with a URLLoaderNetworkServiceObserver
    Vetted,    \* loaders and web sockets, which have a header client
    MaxBlocks  \* bound: header blocks of a request

ASSUME ClearSiteDataAssumption ==
    /\ Observed \subseteq Vetted
    /\ Vetted \subseteq Requests
    /\ MaxBlocks \in Nat

VARIABLES
    phase,     \* what each URLRequest does
    blocks,    \* header blocks seen
    chain,     \* the PendingCallbackChain of the last block
    client,    \* requests whose header client has the callback
    clearing,  \* where the callback of OnClearSiteData is
    lost,      \* requests whose observer has been disconnected
    told,      \* header blocks the URLRequest has had an answer for
    vetoed     \* requests whose header client has vetoed the last block

vars == <<phase, blocks, chain, client, clearing, lost, told, vetoed>>

Results == {"OK", "ERR_BLOCKED_BY_CLIENT", "ERR_IO_PENDING"}

Init ==
    /\ phase = [r \in Requests |-> "sent"]
    /\ blocks = [r \in Requests |-> 0]
    /\ chain = [r \in Requests |-> [waiting |-> 0, result |-> "OK"]]
    /\ client = {}
    /\ clearing = [r \in Requests |-> "none"]
    /\ lost = {}
    /\ told = [r \in Requests |-> 0]
    /\ vetoed = {}

-----------------------------------------------------------------------------
(* The chain                                                               *)

SetResult_Last(final, result) == result

(* The first error stays.                                                   *)
SetResult(final, result) == IF final = "OK" THEN result ELSE final

AddResult_NoPending(c, result) == [c EXCEPT !.result = SetResult(@, result)]

AddResult(c, result) ==
    IF result = "ERR_IO_PENDING"
    THEN [c EXCEPT !.waiting = @ + 1]
    ELSE [c EXCEPT !.result = SetResult(@, result)]

(* The URLRequest gets the answer for its header block.  A response that is *)
(* let through may be a redirect or a challenge, after which more follow.   *)
Proceed(r, result) ==
    /\ told' = [told EXCEPT ![r] = @ + 1]
    /\ IF phase[r] = "gone" THEN phase' = phase
       ELSE IF result = "OK"
       THEN \E next \in {"sent", "answered"} : phase' = [phase EXCEPT ![r] = next]
       ELSE phase' = [phase EXCEPT ![r] = "failed"]

CallbackComplete(r, result) ==
    LET c == [waiting |-> chain[r].waiting - 1,
              result |-> SetResult(chain[r].result, result)]
    IN  /\ chain' = [chain EXCEPT ![r] = c]
        /\ IF c.waiting = 0 THEN Proceed(r, c.result) ELSE UNCHANGED <<phase, told>>

-----------------------------------------------------------------------------
(* The network service                                                     *)

HandleClearSiteDataHeader_Async(r, header) == "OK"

HandleClearSiteDataHeader_NoObserver(r, header) ==
    IF header THEN "ERR_IO_PENDING" ELSE "OK"

(* header says whether there is a Clear-Site-Data header.  Only for a       *)
(* request of a loader with an observer is there somebody to ask.           *)
HandleClearSiteDataHeader(r, header) ==
    IF header /\ r \in Observed THEN "ERR_IO_PENDING" ELSE "OK"

OnHeadersReceived(r, verdict, header) ==
    /\ phase[r] = "sent"
    /\ blocks[r] < MaxBlocks
    /\ r \notin Vetted => verdict = "OK"
    /\ blocks' = [blocks EXCEPT ![r] = @ + 1]
    /\ client' = IF verdict = "ERR_IO_PENDING" THEN client \cup {r} ELSE client
    /\ clearing' = [clearing EXCEPT ![r] =
                       IF header /\ r \in Observed THEN "asked" ELSE "none"]
    /\ vetoed' = IF verdict = "ERR_BLOCKED_BY_CLIENT" THEN vetoed \cup {r} ELSE vetoed
    /\ LET c == AddResult(AddResult([waiting |-> 0, result |-> "OK"], verdict),
                          HandleClearSiteDataHeader(r, header))
       IN  /\ chain' = [chain EXCEPT ![r] = c]
           /\ IF c.waiting = 0
              THEN Proceed(r, c.result)
              ELSE phase' = [phase EXCEPT ![r] = "vetting"] /\ UNCHANGED told
    /\ UNCHANGED lost

HeaderClientAnswers(r, verdict) ==
    /\ r \in client
    /\ client' = client \ {r}
    /\ vetoed' = IF verdict = "OK" THEN vetoed ELSE vetoed \cup {r}
    /\ CallbackComplete(r, verdict)
    /\ UNCHANGED <<blocks, clearing, lost>>

FinishedClearSiteData_NoCheck(r) ==
    /\ clearing[r] = "cleared"
    /\ clearing' = [clearing EXCEPT ![r] = "finished"]
    /\ CallbackComplete(r, "OK")
    /\ UNCHANGED <<blocks, client, lost, vetoed>>

(* The reply of the browser arrives.                                        *)
FinishedClearSiteData(r) ==
    /\ clearing[r] = "cleared"
    /\ clearing' = [clearing EXCEPT ![r] = "finished"]
    /\ IF phase[r] = "gone"
       THEN UNCHANGED <<phase, chain, told>>
       ELSE CallbackComplete(r, "OK")
    /\ UNCHANGED <<blocks, client, lost, vetoed>>

(* The loader is destroyed, and its request with it.                        *)
RequestDestroyed(r) ==
    /\ phase[r] # "gone"
    /\ phase' = [phase EXCEPT ![r] = "gone"]
    /\ client' = client \ {r}
    /\ UNCHANGED <<blocks, chain, clearing, lost, told, vetoed>>

-----------------------------------------------------------------------------
(* The browser process                                                     *)

OnClearSiteData(r) ==
    /\ clearing[r] = "asked"
    /\ r \notin lost
    /\ clearing' = [clearing EXCEPT ![r] = "cleared"]
    /\ UNCHANGED <<phase, blocks, chain, client, lost, told, vetoed>>

(* The observer's pipe is disconnected.  Replies sent before still arrive,  *)
(* but what it has not done by then it will never do.                       *)
ObserverDisconnected(r) ==
    /\ r \in Observed \ lost
    /\ lost' = lost \cup {r}
    /\ UNCHANGED <<phase, blocks, chain, client, clearing, told, vetoed>>

Next ==
    \E r \in Requests :
        \/ \E verdict \in Results, header \in BOOLEAN : OnHeadersReceived(r, verdict, header)
        \/ \E verdict \in Results \ {"ERR_IO_PENDING"} : HeaderClientAnswers(r, verdict)
        \/ FinishedClearSiteData(r)
        \/ RequestDestroyed(r)
        \/ OnClearSiteData(r)
        \/ ObserverDisconnected(r)

Spec == Init /\ [][Next]_vars

(* Header clients answer, the browser clears what it is asked to, and what  *)
(* it replies arrives.                                                      *)
Fairness ==
    \A r \in Requests :
        /\ WF_vars(\E verdict \in Results \ {"ERR_IO_PENDING"} : HeaderClientAnswers(r, verdict))
        /\ WF_vars(FinishedClearSiteData(r))
        /\ WF_vars(OnClearSiteData(r))

FairSpec == Spec /\ Fairness

-----------------------------------------------------------------------------

TypeOK ==
    /\ phase \in [Requests -> {"sent", "vetting", "answered", "failed", "gone"}]
    /\ blocks \in [Requests -> 0..MaxBlocks]
    /\ chain \in [Requests -> [waiting : 0..2, result : Results \ {"ERR_IO_PENDING"}]]
    /\ client \subseteq Vetted
    /\ clearing \in [Requests -> {"none", "asked", "cleared", "finished"}]
    /\ lost \subseteq Observed
    /\ told \in [Requests -> 0..MaxBlocks]
    /\ vetoed \subseteq Vetted

(* A response with Clear-Site-Data goes on only after the browser has       *)
(* cleared the data, whatever the header client answers, and when: nothing  *)
(* of the new response can be stored and then be cleared with the old.      *)
ClearedBeforeProceeding ==
    \A r \in Requests :
        phase[r] \in {"sent", "answered"} => clearing[r] \in {"none", "finished"}

(* A veto of the header client stops the response although the browser's    *)
(* answer, which is always OK, comes before or after it.                    *)
VetoStands ==
    \A r \in vetoed : phase[r] \in {"vetting", "failed", "gone"}

(* A URLRequest gets one answer for each header block, and a request that   *)
(* has been destroyed gets none, although the browser's reply still comes.  *)
OneAnswerPerBlock ==
    [][\A r \in Requests :
          told'[r] # told[r] => /\ phase[r] \in {"sent", "vetting"}
                                /\ told'[r] = blocks'[r]]_vars

(* The chain of a live request waits for just the callbacks it has given    *)
(* away, so that it completes with the last of them.                        *)
ChainWaitsForHolders ==
    \A r \in Requests :
        phase[r] # "gone" =>
            chain[r].waiting = (IF r \in client THEN 1 ELSE 0)
                             + (IF clearing[r] \in {"asked", "cleared"} THEN 1 ELSE 0)

(* A request is held just while its chain waits, it has had all answers but *)
(* that for the block it is held for, and only such a request has given a   *)
(* callback to its header client.                                           *)
AnswersCounted ==
    /\ \A r \in client : phase[r] = "vetting"
    /\ \A r \in Requests :
          phase[r] # "gone" =>
              /\ phase[r] = "vetting" <=> chain[r].waiting > 0
              /\ blocks[r] = told[r] + IF phase[r] = "vetting" THEN 1 ELSE 0

(* Until the chain completes, a veto is kept in its result.                 *)
VetoRecorded ==
    \A r \in vetoed : phase[r] = "vetting" => chain[r].result = "ERR_BLOCKED_BY_CLIENT"

ChainInv ==
    /\ TypeOK
    /\ ClearedBeforeProceeding
    /\ VetoStands
    /\ ChainWaitsForHolders
    /\ AnswersCounted
    /\ VetoRecorded

(* No response is held forever, unless the observer has been disconnected.  *)
EveryResponseProceeds ==
    \A r \in Requests : phase[r] = "vetting" ~> phase[r] # "vetting" \/ r \in lost
=============================================================================
