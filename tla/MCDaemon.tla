----------------------------- MODULE MCDaemon -----------------------------
(* Values for TLC: three daemons with two identities each.  The ports of a *)
(* and b overlap in one, c has ports of its own.                           *)
EXTENDS Daemon, TLC

CONSTANTS a, b, c1

ThreeDaemons == {a, b, c1}
Bases        == (a :> 1) @@ (b :> 2) @@ (c1 :> 5)
=============================================================================
