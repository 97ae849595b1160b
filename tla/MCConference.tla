--------------------------- MODULE MCConference ---------------------------
(* Small instances of Conference: two callers that may start it, on different servers, *)
(* one of whom ends it when he leaves, and a guest on the first server.                 *)
EXTENDS Conference

CONSTANTS a, b, g

MCServer == [p \in Callers |-> IF p = b THEN "there" ELSE "here"]
============================================================================
