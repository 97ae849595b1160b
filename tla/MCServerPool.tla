--------------------------- MODULE MCServerPool ---------------------------
(* Small instances of ServerPool: a feature server watched by one or two sidecars. *)
EXTENDS ServerPool

CONSTANTS f, s1, s2
===========================================================================
