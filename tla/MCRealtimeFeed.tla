---------------------------- MODULE MCRealtimeFeed ----------------------------
(* Two dashboards with a limit of one, which overlapping handshakes        *)
(* exceed, a scanning client and the demo agent: two broadcasts at once.   *)
EXTENDS RealtimeFeed

CONSTANTS v1, v2, scanner
TwoViewers == {v1, v2}
OneScanner == {scanner}
=============================================================================
