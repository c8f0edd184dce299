------------------------------ MODULE MCSignIn ------------------------------
(* TLC instance of SignIn.                                                 *)
EXTENDS SignIn, TLC

Symmetry == Permutations(Requests)
=============================================================================
