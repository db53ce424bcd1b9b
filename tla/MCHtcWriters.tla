---------------------------- MODULE MCHtcWriters ----------------------------
EXTENDS HtcWriters, TLC

CONSTANTS t1, t2, k1, k2, k3, k4, k5

TwoThreads == Permutations({t1, t2})

\* a hash that does not depend on the seed
Fixed(h) == [s \in Seeds |-> [k \in Keys |-> h[k]]]

\* While there are four buckets every key lives in the first two, so the
\* third one goes to a stash; with eight each key has a bucket of its own.
CrowdedHash1 == Fixed(k1 :> 0 @@ k2 :> 4 @@ k3 :> 0)
CrowdedHash2 == Fixed(k1 :> 1 @@ k2 :> 5 @@ k3 :> 5)

\* Four buckets of one slot.  k2 and k4 have bucket 2 only; k1, when it sits
\* there, can be displaced into bucket 3, unless k3 has taken that.
DisplaceHash1 == Fixed(k1 :> 2 @@ k2 :> 2 @@ k3 :> 3 @@ k4 :> 6)
DisplaceHash2 == Fixed(k1 :> 3 @@ k2 :> 6 @@ k3 :> 7 @@ k4 :> 2)

\* The same with a bucket for k4 under the first seed; under the second k1
\* and k2 share one bucket, so that a table with both cannot be rehashed.
AloneHash1 == (1 :> [DisplaceHash1[1] EXCEPT ![k4] = 0]) @@
              (2 :> Fixed(k1 :> 0 @@ k2 :> 0 @@ k3 :> 1 @@ k4 :> 2)[2])
AloneHash2 == (1 :> [DisplaceHash2[1] EXCEPT ![k4] = 4]) @@
              (2 :> Fixed(k1 :> 0 @@ k2 :> 0 @@ k3 :> 1 @@ k4 :> 2)[2])

\* Every key can live in buckets 0 and 1 under the first seed, and has room
\* under the second.
ReseedHash1 == (1 :> [k \in Keys |-> 0]) @@ (2 :> Fixed(k1 :> 0 @@ k2 :> 1 @@ k3 :> 2 @@ k4 :> 3)[2])
ReseedHash2 == (1 :> [k \in Keys |-> 1]) @@ (2 :> Fixed(k1 :> 4 @@ k2 :> 5 @@ k3 :> 6 @@ k4 :> 7)[2])

\* k3 is stashed in shard 0 of three; in a table of eight buckets its primary
\* bucket is 4, in shard 1.
OddHash1 == Fixed(k1 :> 0 @@ k2 :> 0 @@ k3 :> 4)
OddHash2 == Fixed(k1 :> 1 @@ k2 :> 1 @@ k3 :> 1)

\* k1, k2, k3 fill buckets 1, 0 and 3 of four; rehashed in bucket order, k2
\* takes k1's bucket, k1 that of k3, and k3 ends in the global stash.
SpillHash1 == Fixed(k1 :> 1 @@ k2 :> 1 @@ k3 :> 3 @@ k4 :> 5 @@ k5 :> 6)
SpillHash2 == Fixed(k1 :> 3 @@ k2 :> 0 @@ k3 :> 1 @@ k4 :> 5 @@ k5 :> 6)

\* A table that starts with seed 1 displaces, one that starts with 3 spills.
RacesHash1 == [s \in Seeds |-> IF s <= 2 THEN DisplaceHash1[s] ELSE SpillHash1[s]]
RacesHash2 == [s \in Seeds |-> IF s <= 2 THEN DisplaceHash2[s] ELSE SpillHash2[s]]
=============================================================================
