--------------------- MODULE MCProxyingURLLoaderFactory ---------------------
(* Small instances of ProxyingURLLoaderFactory for TLC.                    *)
EXTENDS ProxyingURLLoaderFactory
=============================================================================
