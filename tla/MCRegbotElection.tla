-------------------------- MODULE MCRegbotElection --------------------------
(* Small instances of RegbotElection. *)
EXTENDS RegbotElection

CONSTANTS n1, n2, n3, g1, g2

TwoNodes == {n1, n2}
ThreeNodes == {n1, n2, n3}
OneGateway == {g1}
TwoGateways == {g1, g2}
=============================================================================
