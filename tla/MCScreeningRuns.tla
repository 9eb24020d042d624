-------------------------- MODULE MCScreeningRuns --------------------------
(* A small instance of ScreeningRuns: one CLI provider before the local     *)
(* one, and a caller beside the snapshot rescreen.                          *)
EXTENDS ScreeningInv, TLC

CONSTANTS j1, j2, c1, c2, runner, claude, local

OneCli == <<claude>>

(* JDs and callers are interchangeable: no definition names one.            *)
Symmetry == Permutations(Jd) \cup Permutations(Caller)
=============================================================================
