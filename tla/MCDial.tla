------------------------------ MODULE MCDial ------------------------------
(* Small instances of Dial: two targets called at once, the callee of the second of *)
(* which has to confirm, while the caller is answered when the callee has accepted.  *)
EXTENDS Dial

CONSTANTS a, b
===========================================================================
