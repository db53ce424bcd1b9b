----------------------------- MODULE MCHtCache -----------------------------
(* HtCache for TLC: three slots; k1 and k2 have the same hash. *)
EXTENDS HtCache, TLC

CONSTANTS k1, k2, k3

SomeHash == k1 :> 1 @@ k2 :> 1 @@ k3 :> 2
=============================================================================
