----------------------------- MODULE MCPublish -----------------------------
(* Small instances of PublishTransaction.                                   *)
EXTENDS PublishInv

CONSTANTS old1, old2, new1, new2, new3, other, t1

(* two existing targets and one new one, in the order they are written      *)
Original3 == <<old1, old2, None>>
Replacement3 == <<new1, new2, new3>>
=============================================================================
