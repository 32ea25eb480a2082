-------------------------- MODULE MCGatewayRunLoop --------------------------
(* One lane, two calls, two restarts.                                      *)
EXTENDS GatewayRunLoop

MCArgs == {1}
=============================================================================
