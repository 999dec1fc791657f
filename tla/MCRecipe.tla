----------------------------- MODULE MCRecipe -----------------------------
(* Values for TLC: a flow of a login page, a login form and a landing page,*)
(* and a Duration of 8 bits with 4 units in a second, so that a lifetime of*)
(* 40 seconds is beyond what it can hold.                                  *)
EXTENDS Recipe

AllKinds  == {"form", "oauth", "multistep", "browser"}
CsrfFlow  == <<{"csrf"}, {"ticket"}, {}>>
Lifetimes == {-1, 0, 1, 16, 40}
=============================================================================
