----------------------------- MODULE MCAutoRun -----------------------------
(* A small instance of AutoRun: a search capped at one of two postings.     *)
EXTENDS AutoRun

CONSTANTS p1, p2
=============================================================================
