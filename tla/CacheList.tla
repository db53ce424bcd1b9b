----------------------------- MODULE CacheList -----------------------------
(* What ht_cache.h promises: a list of at most Capacity keys, the most     *)
(* recently used first.  A key may be in it several times, since put       *)
(* always inserts.                                                         *)
EXTENDS Integers, Sequences

CONSTANTS Capacity, Keys, Hash, HasEq

VARIABLE keys

\* eq_fn, or the hash alone
Same(j, k) == IF HasEq THEN j = k ELSE Hash[j] = Hash[k]

Drop(i) == [j \in 1 .. Len(keys) - 1 |-> IF j < i THEN keys[j] ELSE keys[j + 1]]
DropLast == Drop(Len(keys))
Full == Len(keys) = Capacity

Put(k) == keys' = <<k>> \o (IF Full THEN DropLast ELSE keys)
\* a put that fails may have made room already
PutFails == Full /\ keys' = DropLast
Use(k) == \E i \in 1 .. Len(keys) : Same(keys[i], k) /\ keys' = <<keys[i]>> \o Drop(i)
Remove(k) == \E i \in 1 .. Len(keys) : Same(keys[i], k) /\ keys' = Drop(i)
Evict == keys # <<>> /\ keys' = DropLast
Clear == keys' = <<>>

Next == (\E k \in Keys : Put(k) \/ Use(k) \/ Remove(k)) \/ PutFails \/ Evict \/ Clear

Spec == keys = <<>> /\ [][Next]_keys
=============================================================================
