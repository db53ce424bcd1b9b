----------------------------- MODULE BloomFilter -----------------------------
(* The Bloom filter of src/src/bloom_filter.c.  The bit array is the set   *)
(* of the positions that are 1; an item is named by a number, its two FNV  *)
(* hashes are the arbitrary functions DoubleHash1 and DoubleHash2.         *)
EXTENDS Integers

CONSTANTS HashRange,    \* 2^64: probe positions are computed modulo this
          DoubleHash1, DoubleHash2

BloomPositions(bf, item) ==
    {((DoubleHash1[item] + i * DoubleHash2[item]) % HashRange) % bf.num_bits :
        i \in 0 .. bf.num_hashes - 1}

BloomCreate(num_bits, num_hashes) ==
    [bits |-> {}, count |-> 0, num_bits |-> num_bits, num_hashes |-> num_hashes]
bloom_filter_reset(bf) == [bf EXCEPT !.bits = {}, !.count = 0]
bloom_filter_insert(bf, item) ==
    [ok |-> TRUE,
     f |-> [bf EXCEPT !.bits = @ \cup BloomPositions(bf, item), !.count = @ + 1]]
bloom_filter_lookup(bf, item) == BloomPositions(bf, item) \subseteq bf.bits
=============================================================================
