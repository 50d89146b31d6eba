----------------------------- MODULE MCInbound ------------------------------
(* Instances of what an inbound request meets, for TLC. *)
EXTENDS Inbound, MCSearch, MCFigures

CONSTANTS c1, c2, k1, p1, p2, e1, i1, i2

EveryEndpoint == Endpoint

\* One account from two places; from one place, an account and nobody in particular.
CrowdsSmall == { {<<i1, e1>>, <<i2, e1>>}, {<<i1, e1>>, <<i1, NoEmail>>} }
=============================================================================
