------------------------ MODULE MCProxyingWebSocket -------------------------
(* Small instances of ProxyingWebSocket for TLC.                           *)
EXTENDS ProxyingWebSocket
=============================================================================
