-------------------------------- MODULE MCHt --------------------------------
EXTENDS HtTable

CONSTANTS k1, k2

\* 2 and 6 share an ideal slot until the table has 8 slots, 3 is their neighbour
MCPairs == {<<2, 0>>, <<2, 1>>, <<3, 0>>, <<6, 0>>}

\* a bare table; a keyed one in which both keys have the same 48 bits; and one
\* in which a key goes to the spill lane
MCConfigs ==
    {[kind |-> "bare", max_probe |-> 1, max_load |-> 75, hash_fn |-> [k \in Keys |-> 2]],
     [kind |-> "keyed", max_probe |-> 1, max_load |-> 50, hash_fn |-> [k \in Keys |-> 2]],
     [kind |-> "keyed", max_probe |-> 0, max_load |-> 50,
      hash_fn |-> [k \in Keys |-> IF k = k1 THEN 0 ELSE 2]]}

\* answer is the output of a step: no step depends on it
View == <<kind, hash_fn, b, entries, found>>
=============================================================================
