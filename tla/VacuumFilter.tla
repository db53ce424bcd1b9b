---------------------------- MODULE VacuumFilter ----------------------------
(* The vacuum filter of src/src/vacuum_filter.c: a cuckoo filter whose     *)
(* number of buckets need not be a power of two, since the two buckets of  *)
(* an entry lie in one chunk of ar[fingerprint % 4] buckets.  The          *)
(* floating-point choice of the four sizes (range_selection) is the        *)
(* parameter sizes of VacuumCreate: any powers of two.                     *)
EXTENDS PackedSets

NumAr == 4   \* VACUUM_NUM_AR

vf_get(vf, idx) ==
    set_get(vf.table[idx \div vf.entries_per_set], idx % vf.entries_per_set, vf.fp_bits)
vf_set_entry(vf, idx, v) ==
    [vf EXCEPT !.table[idx \div vf.entries_per_set] =
        set_set(@, idx % vf.entries_per_set, vf.fp_bits, v)]

vacuum_fingerprint(hash, fp_bits) ==
    IF hash % 2^fp_bits = 0 THEN 1 ELSE hash % 2^fp_bits
vacuum_hash_index(hash, num_buckets) == Scale(High(hash), num_buckets)

vacuum_alt_index(vf, i, fp) ==
    LET l == vf.ar[fp % NumAr]
        chunk_start == (i \div l) * l
    IN  IF l <= 1 THEN i
        ELSE chunk_start + ((i - chunk_start) ^^ ((Mix[fp] % (l - 1)) + 1))

-----------------------------------------------------------------------------
RECURSIVE PowerOf2UpTo(_, _)
PowerOf2UpTo(n, p) == IF 2 * p > n THEN p ELSE PowerOf2UpTo(n, 2 * p)
Capped(size, ar_cap) == IF size > ar_cap THEN ar_cap ELSE size
AtLeast2(size) == IF size < 2 THEN 2 ELSE size

RECURSIVE HalveBuckets(_, _)
HalveBuckets(num_buckets, bucket_size) ==
    IF num_buckets > UintMax \/ num_buckets * bucket_size > UintMax
    THEN HalveBuckets(num_buckets \div 2, bucket_size)
    ELSE num_buckets

VacuumCreate(capacity, bucket_size, fp_bits, max_evicts, sizes) ==
    LET wanted == (capacity * 100 + bucket_size * 95 - 1) \div (bucket_size * 95)
        entries_per_set == (WordBits * SetWords) \div fp_bits
        ar == [i \in 0 .. NumAr - 1 |->
                  AtLeast2(Capped(AtLeast2(sizes[i]), PowerOf2UpTo(wanted, 1)))]
        largest == CHOOSE l \in {ar[i] : i \in 0 .. NumAr - 1} : \A i \in 0 .. NumAr - 1 : l >= ar[i]
        num_buckets == HalveBuckets(((wanted + largest - 1) \div largest) * largest, bucket_size)
        num_sets == (num_buckets * bucket_size + entries_per_set - 1) \div entries_per_set
    IN  [table |-> EmptySets(num_sets), count |-> 0, num_buckets |-> num_buckets,
         entries_per_set |-> entries_per_set, num_sets |-> num_sets, ar |-> ar,
         fp_bits |-> fp_bits, bucket_size |-> bucket_size, max_evicts |-> max_evicts]

vacuum_filter_reset(vf) == [vf EXCEPT !.table = EmptySets(vf.num_sets), !.count = 0]

-----------------------------------------------------------------------------
NoEntry == -1
EntriesOf(vf, b) == b * vf.bucket_size .. (b + 1) * vf.bucket_size - 1
VfFind(vf, b, fp) ==
    LET here == {i \in EntriesOf(vf, b) : vf_get(vf, i) = fp}
    IN  IF here = {} THEN NoEntry ELSE CHOOSE i \in here : \A j \in here : i <= j
VfHas(vf, b, fp) == VfFind(vf, b, fp) # NoEntry
VfPlaced(vf, b, fp) == [vf_set_entry(vf, VfFind(vf, b, 0), fp) EXCEPT !.count = @ + 1]

VfPrint(vf, hash) == vacuum_fingerprint(hash, vf.fp_bits)
VfIndex1(vf, hash) == vacuum_hash_index(hash, vf.num_buckets)
VfIndex2(vf, hash) == vacuum_alt_index(vf, VfIndex1(vf, hash), VfPrint(vf, hash))

\* the entries of bucket b that have room in their other bucket
Movable(vf, b) ==
    {i \in EntriesOf(vf, b) :
        vf_get(vf, i) # 0 /\ VfHas(vf, vacuum_alt_index(vf, b, vf_get(vf, i)), 0)}
\* the first of them moves, fp takes its place
MoveOne(vf, b, fp) ==
    LET i == CHOOSE i \in Movable(vf, b) : \A j \in Movable(vf, b) : i <= j
        moved == VfPlaced(vf, vacuum_alt_index(vf, b, vf_get(vf, i)), vf_get(vf, i))
    IN  [ok |-> TRUE, f |-> vf_set_entry(moved, i, fp)]

VfRollback(vf, undo) == FoldRight(LAMBDA u, v : vf_set_entry(v, u[1], u[2]), undo, vf)

RECURSIVE Evict(_, _, _, _, _)
Evict(vf, b, fp, n, undo) ==
    IF n = vf.max_evicts THEN [ok |-> FALSE, f |-> VfRollback(vf, undo)]
    ELSE IF Movable(vf, b) # {} THEN MoveOne(vf, b, fp)
    ELSE LET idx == b * vf.bucket_size + Scale(Mix[n ^^ fp], vf.bucket_size)
             temp == vf_get(vf, idx)
             evicted == vf_set_entry(vf, idx, fp)
             next == vacuum_alt_index(vf, b, temp)
         IN  IF VfHas(evicted, next, 0)
             THEN [ok |-> TRUE, f |-> VfPlaced(evicted, next, temp)]
             ELSE Evict(evicted, next, temp, n + 1, Append(undo, <<idx, temp>>))

vacuum_filter_insert(vf, hash) ==
    LET fp == VfPrint(vf, hash)
        b1 == VfIndex1(vf, hash)
        b2 == VfIndex2(vf, hash)
    IN  IF VfHas(vf, b1, 0) THEN [ok |-> TRUE, f |-> VfPlaced(vf, b1, fp)]
        ELSE IF VfHas(vf, b2, 0) THEN [ok |-> TRUE, f |-> VfPlaced(vf, b2, fp)]
        ELSE IF Movable(vf, b1) # {} THEN MoveOne(vf, b1, fp)
        ELSE IF Movable(vf, b2) # {} THEN MoveOne(vf, b2, fp)
        ELSE Evict(vf, IF (b1 + b2) % 2 = 1 THEN b1 ELSE b2, fp, 0, <<>>)

vacuum_filter_lookup(vf, hash) ==
    \/ VfHas(vf, VfIndex1(vf, hash), VfPrint(vf, hash))
    \/ VfHas(vf, VfIndex2(vf, hash), VfPrint(vf, hash))

vacuum_filter_delete(vf, hash) ==
    LET fp == VfPrint(vf, hash)
        b == IF VfHas(vf, VfIndex1(vf, hash), fp) THEN VfIndex1(vf, hash) ELSE VfIndex2(vf, hash)
    IN  IF ~ vacuum_filter_lookup(vf, hash) THEN [ok |-> FALSE, f |-> vf]
        ELSE [ok |-> TRUE, f |-> [vf_set_entry(vf, VfFind(vf, b, fp), 0) EXCEPT !.count = @ - 1]]

VacuumClass(vf, hash) == <<VfPrint(vf, hash), {VfIndex1(vf, hash), VfIndex2(vf, hash)}>>
=============================================================================
