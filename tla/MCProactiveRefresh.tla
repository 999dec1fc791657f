----------------------- MODULE MCProactiveRefresh -----------------------
(* Instances of ProactiveRefresh for TLC.                                  *)
EXTENDS ProactiveRefresh, TLC

CONSTANTS i1, i2, c1, lp

Symm == Permutations(Id)

\* The shortest lifetime that outlasts the window and what the loop looks ahead.
LongLifetimes == {9}

\* The history and the health, which nothing here reads, tell no states apart.
View == <<now, session, stamps, flight, logins, pc, want, before, login, attempts, loop>>
=========================================================================
