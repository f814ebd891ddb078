--------------------------- MODULE MCGatewayServer ---------------------------
(* Two requests; one failure opens the breaker, so that an open and a      *)
(* half-open circuit meet the second request.                              *)
EXTENDS GatewayServer

CONSTANTS c1, c2
TwoConns == {c1, c2}
=============================================================================
