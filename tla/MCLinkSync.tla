----------------------------- MODULE MCLinkSync -----------------------------
(* Three postings, two processes.                                           *)
EXTENDS LinkInv, TLC
CONSTANTS p1, p2
Symmetry == Permutations(Proc)
=============================================================================
