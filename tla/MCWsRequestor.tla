--------------------------- MODULE MCWsRequestor ---------------------------
(* Small instances of WsRequestor. *)
EXTENDS WsRequestor

CONSTANTS h1, h2, s1

TwoHooks == {h1, h2}
OneNote == {s1}
=============================================================================
