--------------------------- MODULE MCProxySocket ---------------------------
(* ProxySocket for TLC: the constants are given in the Proxy*.cfg files.   *)
EXTENDS ProxySocket
=============================================================================
