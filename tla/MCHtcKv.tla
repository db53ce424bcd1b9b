------------------------------ MODULE MCHtcKv ------------------------------
(* Instances of HtcKv for TLC. *)
EXTENDS HtcKv, TLC

CONSTANTS t1, t2, k1, k2, k3

\* k1 and k2 have the same hash.
HashOf == k1 :> 1 @@ k2 :> 1 @@ k3 :> 2

Nothing == [t \in Threads |-> {}]
Only(a, b) == t1 :> a @@ t2 :> b
Base == [inserts |-> Nothing, removes |-> Nothing, finds |-> Nothing, scans |-> Nothing,
         start |-> <<>>, fails |-> FALSE, oom |-> FALSE, ops |-> 4]

\* Each hash is inserted and removed by one thread; the other one finds its
\* keys, and adds up the memory of the store.
Owned == [Base EXCEPT !.inserts = Only({k1, k2}, {k3}), !.removes = Only({k1}, {k3}),
                      !.finds = Only({}, {k1}), !.scans = Only({}, {k1}), !.start = <<k1>>]
\* Both insert the same keys, and nobody removes.
Inserts == [Base EXCEPT !.inserts = Only({k1, k2}, {k1}), !.finds = Only({}, {k1, k2})]
\* Both remove the same key, and nobody inserts.
Removes == [Base EXCEPT !.removes = Only({k1, k2}, {k1}), !.finds = Only({k1}, {k3}),
                        !.scans = Only({}, {k1}), !.start = <<k1, k3>>]
\* One thread, for whom inserts fail late and memory runs out.
Alone == [Base EXCEPT !.inserts = Only({k1, k3}, {}), !.removes = Only({k1}, {}),
                      !.finds = Only({k1}, {}), !.scans = Only({k1}, {}), !.ops = 3, !.fails = TRUE, !.oom = TRUE]
Clients == {Owned, Inserts, Removes, Alone}

\* One inserts the key the other one removes.
Shared == [Base EXCEPT !.inserts = Only({k1}, {}), !.removes = Only({}, {k1})]
AnyClients == {Shared}

\* Both remove the key that one of them also inserts: OneOwner fails.
Reinserted == {[Base EXCEPT !.inserts = Only({k1}, {}), !.removes = Only({k1}, {k1}), !.start = <<k1>>]}

\* Inserts that fail late beside htc_kv_memory_bytes, and removes without
\* memory beside htc_kv_find: NoneDangling fails for each.
FailsBesideScan == {[Base EXCEPT !.inserts = Only({k1}, {}), !.scans = Only({}, {k1}), !.fails = TRUE]}
OomBesideFind == {[Removes EXCEPT !.oom = TRUE]}
=============================================================================
