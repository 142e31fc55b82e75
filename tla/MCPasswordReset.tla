-------------------------- MODULE MCPasswordReset --------------------------
(***************************************************************************)
(* Small instances of PasswordReset.                                       *)
(***************************************************************************)
EXTENDS PasswordReset, TLC

CONSTANTS u1, u2, c1, c2
\* Users and calls are interchangeable: no definition names one of them.
Symmetry == Permutations({c1, c2})
=============================================================================
