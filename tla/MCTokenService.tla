--------------------------- MODULE MCTokenService ---------------------------
(* TLC instance of TokenService and of its refinement of TokenContract.    *)
EXTENDS TokenImplements, TLC

Symmetry == Permutations(Requests) \cup Permutations(Clients)
=============================================================================
