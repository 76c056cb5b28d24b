--------------------------- MODULE MCWsConnection ---------------------------
(* Instances of WsConnection for TLC.                                      *)
EXTENDS WsConnection
=============================================================================
