---------------------------- MODULE CuckooFilter ----------------------------
(* The cuckoo filter of src/src/cuckoo_filter.c as operators on a record   *)
(* cf with the fields of cuckoo_filter_t and the table behind it.          *)
EXTENDS PackedSets

NoSlotFree == -1

cf_get(cf, idx) ==
    set_get(cf.table[idx \div cf.entries_per_set], idx % cf.entries_per_set, cf.fp_bits)
cf_set_entry(cf, idx, v) ==
    [cf EXCEPT !.table[idx \div cf.entries_per_set] =
        set_set(@, idx % cf.entries_per_set, cf.fp_bits, v)]

cuckoo_fingerprint(hash, fp_bits) ==
    IF hash % 2^fp_bits = 0 THEN 1 ELSE hash % 2^fp_bits
cuckoo_hash_index(hash, num_buckets) == High(hash) % num_buckets
cuckoo_alt_index(i, fp, num_buckets) == (i ^^ Mix[fp]) % num_buckets

-----------------------------------------------------------------------------
RECURSIVE PowerOf2From(_, _)
PowerOf2From(n, p) == IF p >= n THEN p ELSE PowerOf2From(n, 2 * p)
next_power_of_2(n) == PowerOf2From(n, 1)

RECURSIVE CapBuckets(_, _)
CapBuckets(num_buckets, bucket_size) ==
    IF num_buckets > UintMax \div 2 + 1 \/ num_buckets * bucket_size > UintMax
    THEN CapBuckets(num_buckets \div 2, bucket_size)
    ELSE num_buckets

CuckooCreate(capacity, bucket_size, fp_bits, max_kicks) ==
    LET total_entries == (capacity * 100 + 94) \div 95
        entries_per_set == (WordBits * SetWords) \div fp_bits
        num_buckets == CapBuckets(
            next_power_of_2((total_entries + bucket_size - 1) \div bucket_size), bucket_size)
        num_sets == (num_buckets * bucket_size + entries_per_set - 1) \div entries_per_set
    IN  [table |-> EmptySets(num_sets), count |-> 0, num_buckets |-> num_buckets,
         entries_per_set |-> entries_per_set, num_sets |-> num_sets,
         fp_bits |-> fp_bits, bucket_size |-> bucket_size, max_kicks |-> max_kicks]

cuckoo_filter_reset(cf) == [cf EXCEPT !.table = EmptySets(cf.num_sets), !.count = 0]

-----------------------------------------------------------------------------
\* index of the first entry of a bucket that holds fp, 0 for an empty one
FindEntry(cf, b, fp) ==
    LET here == {i \in b * cf.bucket_size .. (b + 1) * cf.bucket_size - 1 : cf_get(cf, i) = fp}
    IN  IF here = {} THEN NoSlotFree ELSE CHOOSE i \in here : \A j \in here : i <= j
CfHas(cf, b, fp) == FindEntry(cf, b, fp) # NoSlotFree
CfPlaced(cf, b, fp) == [cf_set_entry(cf, FindEntry(cf, b, 0), fp) EXCEPT !.count = @ + 1]

CfIndex1(cf, hash) == cuckoo_hash_index(hash, cf.num_buckets)
CfPrint(cf, hash) == cuckoo_fingerprint(hash, cf.fp_bits)
CfIndex2(cf, hash) == cuckoo_alt_index(CfIndex1(cf, hash), CfPrint(cf, hash), cf.num_buckets)

\* undo is the list of index and former entry, first eviction first
RollbackInOrder(cf, undo) ==
    FoldLeft(LAMBDA c, u : cf_set_entry(c, u[1], u[2]), cf, undo)
Rollback(cf, undo) == FoldRight(LAMBDA u, c : cf_set_entry(c, u[1], u[2]), undo, cf)

RECURSIVE Kick(_, _, _, _, _)
Kick(cf, i, fp, n, undo) ==
    IF n = cf.max_kicks THEN [ok |-> FALSE, f |-> Rollback(cf, undo)]
    ELSE LET idx == i * cf.bucket_size + Scale(Mix[n ^^ fp], cf.bucket_size)
             temp == cf_get(cf, idx)
             evicted == cf_set_entry(cf, idx, fp)
             next == cuckoo_alt_index(i, temp, cf.num_buckets)
         IN  IF CfHas(evicted, next, 0)
             THEN [ok |-> TRUE, f |-> CfPlaced(evicted, next, temp)]
             ELSE Kick(evicted, next, temp, n + 1, Append(undo, <<idx, temp>>))

cuckoo_filter_insert(cf, hash) ==
    LET fp == CfPrint(cf, hash)
        i1 == CfIndex1(cf, hash)
        i2 == CfIndex2(cf, hash)
    IN  IF CfHas(cf, i1, 0) THEN [ok |-> TRUE, f |-> CfPlaced(cf, i1, fp)]
        ELSE IF CfHas(cf, i2, 0) THEN [ok |-> TRUE, f |-> CfPlaced(cf, i2, fp)]
        ELSE Kick(cf, IF (i1 + i2) % 2 = 1 THEN i1 ELSE i2, fp, 0, <<>>)

cuckoo_filter_lookup(cf, hash) ==
    \/ CfHas(cf, CfIndex1(cf, hash), CfPrint(cf, hash))
    \/ CfHas(cf, CfIndex2(cf, hash), CfPrint(cf, hash))

cuckoo_filter_delete(cf, hash) ==
    LET fp == CfPrint(cf, hash)
        found == {i \in {CfIndex1(cf, hash), CfIndex2(cf, hash)} : CfHas(cf, i, fp)}
        b == IF CfIndex1(cf, hash) \in found THEN CfIndex1(cf, hash) ELSE CfIndex2(cf, hash)
    IN  IF found = {} THEN [ok |-> FALSE, f |-> cf]
        ELSE [ok |-> TRUE, f |-> [cf_set_entry(cf, FindEntry(cf, b, fp), 0) EXCEPT !.count = @ - 1]]

\* what the filter can tell apart: a fingerprint and its two buckets
CuckooClass(cf, hash) == <<CfPrint(cf, hash), {CfIndex1(cf, hash), CfIndex2(cf, hash)}>>
=============================================================================
