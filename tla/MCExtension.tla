---------------------------- MODULE MCExtension ----------------------------
(* Two postings, one of which may be collected under the URL of the other;  *)
(* two connections.                                                         *)
EXTENDS ServiceWorker
CONSTANTS zighang, wanted
TwoTargets == (zighang :> {zighang, wanted}) @@ (wanted :> {wanted})
=============================================================================
