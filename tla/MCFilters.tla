------------------------------ MODULE MCFilters ------------------------------
(* Filters of two to eight slots whose hashes share fingerprints and       *)
(* buckets, for TLC.                                                       *)
EXTENDS HtcFilter

CONSTANTS t1, t2

MixTable == [x \in 0 .. 7 |-> <<5, 3, 6, 1, 4, 7, 2, 0>>[x + 1]]
Items == [h \in 0 .. 63 |-> (h * 5 + 1) % 16]
Items2 == [h \in 0 .. 63 |-> (h * 3 + 2) % 16]

Cuckoo(capacity, size, kicks, hs, ts) ==
    [kind |-> "cuckoo", capacity |-> capacity, bucket_size |-> size, fp_bits |-> 3,
     max_kicks |-> kicks, hashes |-> hs, threads |-> ts,
     most |-> MaxHeld, spare |-> -1]
VacuumOf(capacity, kicks, sizes, hs) ==
    [kind |-> "vacuum", capacity |-> capacity, bucket_size |-> 2, fp_bits |-> 3,
     max_kicks |-> kicks, sizes |-> sizes, hashes |-> hs, threads |-> {}, most |-> MaxHeld, spare |-> -1]
Bloom(bits, n, hs) ==
    [kind |-> "bloom", num_bits |-> bits, num_hashes |-> n, hashes |-> hs, threads |-> {},
     most |-> MaxHeld, spare |-> MaxHeld]
Rsqf(capacity, rbits, hs, spare_) ==
    [kind |-> "rsqf", capacity |-> capacity, fp_bits |-> rbits, hashes |-> hs, threads |-> {},
     most |-> MaxHeld, spare |-> spare_]
CqfOf(capacity, rbits, hs, most_, spare_) ==
    [kind |-> "cqf", capacity |-> capacity, fp_bits |-> rbits, hashes |-> hs, threads |-> {},
     most |-> most_, spare |-> spare_]

Ar(a, b, c, d) == [i \in 0 .. 3 |-> <<a, b, c, d>>[i + 1]]

AllFilters ==
    {Cuckoo(3, 2, 3, {1, 2, 9, 17, 19, 24}, {}),
     Cuckoo(2, 2, 2, {1, 9, 10}, {t1, t2}),
     Cuckoo(15, 1, 3, {1, 3, 9, 12, 27}, {}),
     VacuumOf(7, 3, Ar(8, 4, 2, 1), {1, 4, 5, 9, 26, 60}),
     Bloom(6, 2, {0, 1, 2, 3}),
     Rsqf(4, 2, {0, 1, 4, 6, 8, 9, 13, 15}, MaxHeld),
     CqfOf(4, 2, {0, 1, 3, 6, 7, 12}, 2, 1),
     CqfOf(8, 2, {0, 5, 10, 31}, MaxHeld, 1)}
OneRsqf == {Rsqf(4, 2, {0, 1, 4, 6, 8, 9, 13, 15}, 0)}
CqfDeletes == {CqfOf(4, 2, {0, 1, 3, 6, 7, 12}, 2, 0)}
CqfCounts == {CqfOf(8, 2, {0, 1, 3, 6, 7, 12}, MaxHeld, MaxHeld)}
==============================================================================
