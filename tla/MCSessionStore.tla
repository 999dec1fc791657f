------------------------- MODULE MCSessionStore -------------------------
(* Instances of SessionStore for TLC.                                      *)
EXTENDS SessionStore, TLC

CONSTANTS i1, i2, u, c1, c2, c3

Symm == Permutations(Caller) \cup Permutations(Id)

\* A target that does not state a lifetime (0), and a short one.
MCLifetimes == {0, 1}
===========================================================================
