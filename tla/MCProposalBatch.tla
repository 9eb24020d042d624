-------------------------- MODULE MCProposalBatch --------------------------
(* Two proposals with the same texts: a source and a record each.           *)
EXTENDS BatchInv

CONSTANTS before, after, approved, applied

Texts == {before, after, approved, applied}
Originals == <<before, approved, before, approved>>
Replacements == <<after, applied, after, applied>>
Attempts == 1..MaxAttempt
=============================================================================
