------------------------------ MODULE HtCache ------------------------------
(***************************************************************************)
(* The LRU cache (src/src/ht_cache.c): a fixed array of entries, a doubly  *)
(* linked list of slot indices in order of use, a stack of free slots, and *)
(* a bare table from hashes to slots.                                      *)
(*                                                                         *)
(* An entry is its key.  The bare table is the set of its (hash, slot)     *)
(* pairs; which of several pairs with one hash it visits first is open,    *)
(* and an insertion into it may fail for lack of memory.  ht_cache_find    *)
(* and the iterator only read; a pointer they returned may be promoted     *)
(* later, when its slot holds another entry or none.                       *)
(*                                                                         *)
(* order is a history variable: the occupied slots, the most recently used *)
(* first.  No guard and no assignment to another variable looks at it.     *)
(***************************************************************************)
EXTENDS Integers, Sequences

CONSTANTS
    Capacity,
    Keys,
    Hash,           \* [Keys -> Nat]: hash_fn
    HasEq,          \* whether eq_fn is given
    NoKey,          \* contents of an entry never written
    NONE

Slots == 0 .. Capacity - 1
Links == Slots \cup {NONE}
List == [prev : [Slots -> Links], next : [Slots -> Links], head : Links, tail : Links]

ASSUME CacheConstants ==
    /\ Capacity \in Nat \ {0}
    /\ Hash \in [Keys -> Nat]
    /\ HasEq \in BOOLEAN
    /\ NoKey \notin Keys
    /\ NONE \notin Slots

VARIABLES
    entries, hashes, live,
    lru,            \* [prev, next : arrays of links, head, tail : links]
    free_stack, free_top,
    size,
    bare,
    order

vars == <<entries, hashes, live, lru, free_stack, free_top, size, bare, order>>

EmptyList == [prev |-> [s \in Slots |-> NONE], next |-> [s \in Slots |-> NONE],
              head |-> NONE, tail |-> NONE]
FullStack == [i \in Slots |-> Capacity - 1 - i]

Init ==
    /\ entries = [s \in Slots |-> NoKey]
    /\ hashes = [s \in Slots |-> 0]
    /\ live = [s \in Slots |-> FALSE]
    /\ lru = EmptyList
    /\ free_stack = FullStack
    /\ free_top = Capacity
    /\ size = 0
    /\ bare = {}
    /\ order = <<>>
-----------------------------------------------------------------------------
(* The list.                                                               *)

LruAddHead(l, i) ==
    [prev |-> [s \in Slots |-> IF s = l.head THEN i ELSE IF s = i THEN NONE ELSE l.prev[s]],
     next |-> [l.next EXCEPT ![i] = l.head],
     head |-> i,
     tail |-> IF l.tail = NONE THEN i ELSE l.tail]

\* leaves the tail where it was when the last entry goes
LruRemoveKeepsTail(l, i) ==
    [prev |-> [s \in Slots |-> IF s = i THEN NONE
                               ELSE IF s = l.next[i] THEN l.prev[i] ELSE l.prev[s]],
     next |-> [s \in Slots |-> IF s = i THEN NONE
                               ELSE IF s = l.prev[i] THEN l.next[i] ELSE l.next[s]],
     head |-> IF l.prev[i] = NONE THEN l.next[i] ELSE l.head,
     tail |-> l.tail]
LruRemove(l, i) ==
    [prev |-> [s \in Slots |-> IF s = i THEN NONE
                               ELSE IF s = l.next[i] THEN l.prev[i] ELSE l.prev[s]],
     next |-> [s \in Slots |-> IF s = i THEN NONE
                               ELSE IF s = l.prev[i] THEN l.next[i] ELSE l.next[s]],
     head |-> IF l.prev[i] = NONE THEN l.next[i] ELSE l.head,
     tail |-> IF l.next[i] = NONE THEN l.prev[i] ELSE l.tail]

LruPromote(l, i) == IF l.head = i THEN l ELSE LruAddHead(LruRemove(l, i), i)

\* the same on the history variable
At(o, s) == CHOOSE i \in 1 .. Len(o) : o[i] = s
Drop(o, i) == [j \in 1 .. Len(o) - 1 |-> IF j < i THEN o[j] ELSE o[j + 1]]
Without(o, s) == Drop(o, At(o, s))
First(o, s) == <<s>> \o Without(o, s)
-----------------------------------------------------------------------------
(* The operations.                                                         *)

\* ht_bare_find_all with get_scan_cb or remove_scan_cb: a slot they stop at
Matches(k) ==
    {s \in Slots : /\ <<Hash[k], s>> \in bare
                   /\ live[s]
                   /\ HasEq => entries[s] = k}

\* the slot is free again
Release(s) ==
    /\ live' = [live EXCEPT ![s] = FALSE]
    /\ free_stack' = [free_stack EXCEPT ![free_top] = s]
    /\ free_top' = free_top + 1
    /\ size' = size - 1

\* a free slot: ht_cache_put without eviction
Put(k) ==
    LET s == free_stack[free_top - 1] IN
    /\ free_top > 0
    /\ entries' = [entries EXCEPT ![s] = k]
    /\ hashes' = [hashes EXCEPT ![s] = Hash[k]]
    /\ bare' = bare \cup {<<Hash[k], s>>}
    /\ live' = [live EXCEPT ![s] = TRUE]
    /\ lru' = LruAddHead(lru, s)
    /\ free_top' = free_top - 1
    /\ size' = size + 1
    /\ order' = <<s>> \o order
    /\ UNCHANGED free_stack

\* takes back a count that was never made
PutFailsUncounts(k) ==
    LET s == free_stack[free_top - 1] IN
    /\ free_top > 0
    /\ entries' = [entries EXCEPT ![s] = k]
    /\ hashes' = [hashes EXCEPT ![s] = 0]
    /\ size' = size - 1
    /\ UNCHANGED <<live, lru, free_stack, free_top, bare, order>>
\* no memory in the bare table: the slot goes back, its old contents do not
PutFails(k) ==
    LET s == free_stack[free_top - 1] IN
    /\ free_top > 0
    /\ entries' = [entries EXCEPT ![s] = k]
    /\ hashes' = [hashes EXCEPT ![s] = 0]
    /\ UNCHANGED <<live, lru, free_stack, free_top, size, bare, order>>

\* no free slot: ht_cache_evict, and the slot it freed is used at once
CanEvict == size # 0 /\ lru.tail # NONE /\ <<hashes[lru.tail], lru.tail>> \in bare

\* takes the wrong end of the list
PutEvictsNewest(k) ==
    LET s == lru.head IN
    /\ free_top = 0
    /\ CanEvict
    /\ free_stack' = [free_stack EXCEPT ![0] = s]
    /\ entries' = [entries EXCEPT ![s] = k]
    /\ hashes' = [hashes EXCEPT ![s] = Hash[k]]
    /\ bare' = (bare \ {<<hashes[s], s>>}) \cup {<<Hash[k], s>>}
    /\ lru' = LruAddHead(LruRemove(lru, s), s)
    /\ order' = First(order, s)
    /\ UNCHANGED <<live, free_top, size>>
PutEvicts(k) ==
    LET s == lru.tail IN
    /\ free_top = 0
    /\ CanEvict
    /\ free_stack' = [free_stack EXCEPT ![0] = s]
    /\ entries' = [entries EXCEPT ![s] = k]
    /\ hashes' = [hashes EXCEPT ![s] = Hash[k]]
    /\ bare' = (bare \ {<<hashes[s], s>>}) \cup {<<Hash[k], s>>}
    /\ lru' = LruAddHead(LruRemove(lru, s), s)
    /\ order' = First(order, s)
    /\ UNCHANGED <<live, free_top, size>>

\* the eviction stays when the insertion into the bare table then fails
PutEvictsAndFails(k) ==
    LET s == lru.tail IN
    /\ free_top = 0
    /\ CanEvict
    /\ Release(s)
    /\ entries' = [entries EXCEPT ![s] = k]
    /\ hashes' = [hashes EXCEPT ![s] = 0]
    /\ bare' = bare \ {<<hashes[s], s>>}
    /\ lru' = LruRemove(lru, s)
    /\ order' = Without(order, s)

Get(k) ==
    /\ \E s \in Matches(k) :
          /\ lru' = LruPromote(lru, s)
          /\ order' = First(order, s)
    /\ UNCHANGED <<entries, hashes, live, free_stack, free_top, size, bare>>

\* of a pointer into slot s, which a caller may have kept for long
Promote(s) ==
    /\ live[s]
    /\ lru' = LruPromote(lru, s)
    /\ order' = First(order, s)
    /\ UNCHANGED <<entries, hashes, live, free_stack, free_top, size, bare>>

Remove(k) ==
    /\ \E s \in Matches(k) :
          /\ bare' = bare \ {<<Hash[k], s>>}
          /\ lru' = LruRemove(lru, s)
          /\ Release(s)
          /\ order' = Without(order, s)
    /\ UNCHANGED <<entries, hashes>>

Evict ==
    /\ CanEvict
    /\ bare' = bare \ {<<hashes[lru.tail], lru.tail>>}
    /\ lru' = LruRemove(lru, lru.tail)
    /\ Release(lru.tail)
    /\ order' = Without(order, lru.tail)
    /\ UNCHANGED <<entries, hashes>>

\* resets the depth of the free stack but not its contents
ClearKeepsStack ==
    /\ bare' = {}
    /\ live' = [s \in Slots |-> FALSE]
    /\ hashes' = [s \in Slots |-> 0]
    /\ size' = 0
    /\ lru' = EmptyList
    /\ free_top' = Capacity
    /\ order' = <<>>
    /\ UNCHANGED <<entries, free_stack>>
Clear ==
    /\ bare' = {}
    /\ live' = [s \in Slots |-> FALSE]
    /\ hashes' = [s \in Slots |-> 0]
    /\ size' = 0
    /\ lru' = EmptyList
    /\ free_stack' = FullStack
    /\ free_top' = Capacity
    /\ order' = <<>>
    /\ UNCHANGED entries

Next ==
    \/ \E k \in Keys : \/ Put(k) \/ PutFails(k) \/ PutEvicts(k) \/ PutEvictsAndFails(k)
                       \/ Get(k) \/ Remove(k)
    \/ \E s \in Slots : Promote(s)
    \/ Evict
    \/ Clear

Spec == Init /\ [][Next]_vars
-----------------------------------------------------------------------------
TypeOK ==
    /\ entries \in [Slots -> Keys \cup {NoKey}]
    /\ hashes \in [Slots -> Nat]
    /\ live \in [Slots -> BOOLEAN]
    /\ lru \in List
    /\ free_stack \in [Slots -> Slots]
    /\ free_top \in 0 .. Capacity
    /\ size \in 0 .. Capacity
    /\ bare \subseteq Nat \X Slots
    /\ order \in Seq(Slots)

\* List l, walked from head to tail and back again, visits the slots of o
\* in order; a slot that is not on it has no links.
Represents(l, o) ==
    /\ \A i, j \in 1 .. Len(o) : o[i] = o[j] => i = j
    /\ l.head = (IF o = <<>> THEN NONE ELSE o[1])
    /\ l.tail = (IF o = <<>> THEN NONE ELSE o[Len(o)])
    /\ \A i \in 1 .. Len(o) :
          /\ l.next[o[i]] = (IF i = Len(o) THEN NONE ELSE o[i + 1])
          /\ l.prev[o[i]] = (IF i = 1 THEN NONE ELSE o[i - 1])
    /\ \A s \in Slots : (\A i \in 1 .. Len(o) : o[i] # s) =>
          l.next[s] = NONE /\ l.prev[s] = NONE

\* The linked list of the code is the order of use, whatever sequence of
\* puts, hits, promotions, removals and evictions has relinked it.
ListIsOrder == Represents(lru, order)

\* A slot is either occupied (on the list, in the bare table under the hash
\* of its entry) or on the free stack, once: no slot is leaked by a failed
\* put, handed out twice, or found after it was evicted.
SlotsAccounted ==
    /\ size = Len(order)
    /\ free_top = Capacity - size
    /\ \A s \in Slots : live[s] <=> \E i \in 1 .. Len(order) : order[i] = s
    /\ \A i \in 0 .. free_top - 1 : ~ live[free_stack[i]]
    /\ \A i, j \in 0 .. free_top - 1 : free_stack[i] = free_stack[j] => i = j
    /\ bare = {<<hashes[s], s>> : s \in {r \in Slots : live[r]}}
    /\ \A s \in Slots : live[s] => entries[s] \in Keys /\ hashes[s] = Hash[entries[s]]

\* What a client sees is a list of keys in order of use (CacheList): a full
\* cache makes room by dropping the last, and nothing else is ever dropped.
Listed == INSTANCE CacheList WITH keys <- [i \in 1 .. Len(order) |-> entries[order[i]]]
IsLru == Listed!Spec
=============================================================================
