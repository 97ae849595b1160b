--------------------------- MODULE MCCallSession ---------------------------
(* Small instances of CallSession. *)
EXTENDS CallSession

\* Verb lists that between them use every kind of verb.
WsScripts == {<<"config">>, <<"play", "hangup">>, <<"early", "bargeoff">>, <<"decline">>}

============================================================================
