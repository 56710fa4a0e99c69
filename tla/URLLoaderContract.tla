------------------------- MODULE URLLoaderContract --------------------------
(***************************************************************************)
(* What a client of a proxied network::mojom::URLLoader is promised, per   *)
(* request, whatever hooks, network, other requests and shutdown do.  It   *)
(* is the abstract specification that ProxyingURLLoaderFactory implements  *)
(* (dumb_proxying_url_loader_factory.cc, the calls on target_client_).     *)
(*                                                                         *)
(* view[id] is the last thing the client was told.  "mocked" is a response *)
(* with its body sent at once (ContinueToBeforeSendHeaders, mock_data_url),*)
(* "closed" a client pipe closed without OnComplete.                       *)
(***************************************************************************)
EXTENDS Naturals

CONSTANTS Requests

VARIABLES
    view,   \* per request, what the client was told last
    down    \* the profile is shut down

contractVars == <<view, down>>

InFlight == {"loading", "redirected", "responded", "body", "mocked"}
Final    == {"ok", "failed", "closed"}

ContractTypeOK ==
    /\ view \in [Requests -> {"none"} \cup InFlight \cup Final]
    /\ down \in BOOLEAN

ContractInit ==
    /\ view = [id \in Requests |-> "none"]
    /\ down = FALSE

Tell(id, from, to) ==
    /\ ~down
    /\ view[id] \in from
    /\ view' = [view EXCEPT ![id] = to]
    /\ UNCHANGED down

(* The client's own moves. *)
Start(id)  == Tell(id, {"none"}, "loading")
Follow(id) == Tell(id, {"redirected"}, "loading")

(* OnReceiveRedirect, OnReceiveResponse, OnStartLoadingResponseBody. *)
Redirect(id) == Tell(id, {"loading"}, "redirected")
Respond(id)  == Tell(id, {"loading"}, "responded")
Body(id)     == Tell(id, {"responded"}, "body")
Mock(id)     == Tell(id, {"loading"}, "mocked")

(* OnComplete: once, with net::OK only after a body, and not while the      *)
(* client still has to decide on a redirect.                                *)
CompleteOK(id)    == Tell(id, {"body", "mocked"}, "ok")
CompleteError(id) == Tell(id, InFlight \ {"redirected"}, "failed")

(* A request whose client sits on a redirect may only be dropped.           *)
Drop(id) == Tell(id, {"redirected"}, "closed")

ShutDown ==
    /\ ~down
    /\ down' = TRUE
    /\ view' = [id \in Requests |-> IF view[id] \in InFlight THEN "closed" ELSE view[id]]

ContractNext ==
    \/ \E id \in Requests :
          \/ Start(id) \/ Follow(id)
          \/ Redirect(id) \/ Respond(id) \/ Body(id) \/ Mock(id)
          \/ CompleteOK(id) \/ CompleteError(id) \/ Drop(id)
    \/ ShutDown

ContractSpec == ContractInit /\ [][ContractNext]_contractVars
=============================================================================
