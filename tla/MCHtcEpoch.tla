----------------------------- MODULE MCHtcEpoch -----------------------------
(* Small instances of HtcEpoch for TLC. *)
EXTENDS HtcEpoch, TLC

CONSTANTS t1, t2, t3, r1, r2, g1, g2

\* for instances in which t1 and t2 are both writers
SymmetricWriters == Permutations({t1, t2}) \cup Permutations({g1, g2})

Symmetric == Permutations({r1, r2}) \cup Permutations({g1, g2})
=============================================================================
