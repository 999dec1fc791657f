--------------------------- MODULE MCGateway ---------------------------
(* Instances of Gateway for TLC.                                           *)
EXTENDS Gateway, TLC

CONSTANTS i1, u, r1, r2, r3

Symm == Permutations(Caller)

NoExpiry      == {0}
ShortLifetime == {0, 1}
========================================================================
