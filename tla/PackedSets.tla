----------------------------- MODULE PackedSets -----------------------------
(* Bit-packed fingerprints, as cuckoo_filter.c and vacuum_filter.c keep    *)
(* them: a set is one cache line of SetWords words of WordBits bits, an    *)
(* entry may lie across two words of a set and never across two sets.      *)
EXTENDS Integers, Sequences, SequencesExt, Bitwise

CONSTANTS WordBits,   \* 64 in the code
          SetWords,   \* CUCKOO_SET_WORDS, VACUUM_SET_WORDS
          HalfBits,   \* a hash has 2 * HalfBits bits, 32 each in the code
          UintMax,    \* UINT32_MAX
          Mix         \* mix32, an arbitrary function on HalfBits bits

ASSUME PackedAssumption == \A x \in 0 .. 2^HalfBits - 1 : Mix[x] \in 0 .. 2^HalfBits - 1

High(hash) == hash \div 2^HalfBits
Scale(x, n) == (x * n) \div 2^HalfBits

WordOf(off, fp_bits) == (off * fp_bits) \div WordBits
BitOf(off, fp_bits) == (off * fp_bits) % WordBits
Crosses(off, fp_bits) ==
    WordOf(off, fp_bits) + 1 < SetWords /\ BitOf(off, fp_bits) + fp_bits > WordBits

set_get(set, off, fp_bits) ==
    LET wi == WordOf(off, fp_bits)
        bo == BitOf(off, fp_bits)
        low == set[wi] \div 2^bo
        val == IF Crosses(off, fp_bits) THEN low + set[wi + 1] * 2^(WordBits - bo) ELSE low
    IN  val % 2^fp_bits

OverwriteOr(word, bo, fp_bits, v) == word | ((v * 2^bo) % 2^WordBits)   \* old bits stay
\* the word with v written over the fp_bits bits from bit bo on
Overwrite(word, bo, fp_bits, v) ==
    (word % 2^bo) + ((v * 2^bo) % 2^WordBits)
        + (word \div 2^(bo + fp_bits)) * 2^(bo + fp_bits)

set_set(set, off, fp_bits, v) ==
    LET wi == WordOf(off, fp_bits)
        bo == BitOf(off, fp_bits)
        one == [set EXCEPT ![wi] = Overwrite(@, bo, fp_bits, v)]
        kept == 2^(fp_bits - (WordBits - bo))
    IN  IF Crosses(off, fp_bits)
        THEN [one EXCEPT ![wi + 1] = (@ \div kept) * kept + v \div 2^(WordBits - bo)]
        ELSE one

EmptySets(num_sets) == [si \in 0 .. num_sets - 1 |-> [wi \in 0 .. SetWords - 1 |-> 0]]
=============================================================================
