--------------------------- MODULE MCAdminSignIn ---------------------------
(***************************************************************************)
(* Small instances of AdminSignIn.                                         *)
(***************************************************************************)
EXTENDS AdminSignIn, TLC

CONSTANTS c1, c2, h1, h2, k1, t1, t2, t3, p1

\* Calls, challenges and tokens are interchangeable.
Symmetry == Permutations({c1, c2}) \cup Permutations({h1, h2}) \cup Permutations({t1, t2, t3})
=============================================================================
