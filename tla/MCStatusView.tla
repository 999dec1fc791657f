--------------------------- MODULE MCStatusView ---------------------------
(* Instances of StatusView for TLC.                                        *)
EXTENDS StatusView

CONSTANTS i1, i2, c1, c2, w

MCNames == <<i1, i2>>

\* Not stated, and one that ends within the clock.
MCLifetimes == {0, 2}
===========================================================================
