-------------------------------- MODULE MCProxy --------------------------------
(* An instance of the proxy small enough to check.                            *)
EXTENDS Proxy

OneReconnection == 0 .. 1
=============================================================================
