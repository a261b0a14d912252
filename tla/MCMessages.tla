------------------------------ MODULE MCMessages ------------------------------
EXTENDS Messages, TLC

CONSTANTS p1, r1, r2

MCNodeOf == p1 :> 1
Symmetry == Permutations({r1, r2})
=============================================================================
