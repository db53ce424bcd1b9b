------------------------------- MODULE HtcKv -------------------------------
(***************************************************************************)
(* The key-value store, src/htc_kv.c: entries with keys and values, found  *)
(* through the concurrent table by the hash of their key, kept on a list,  *)
(* and freed through epoch reclamation.                                    *)
(*                                                                         *)
(* The table is what HtcMap promises, one record per hash, and epochs are  *)
(* what HtcEpoch promises when it keeps its word: a retired object is freed*)
(* when every thread that was pinned at its retirement has unpinned.       *)
(* Entries are never allocated at the address of an earlier one.           *)
(***************************************************************************)
EXTENDS Integers, Sequences, FiniteSets, Functions

CONSTANTS Threads, Keys, Values, None,
          Hash,         \* key -> hash
          MaxEntries, MaxRecords,
          Configs       \* who makes which calls

\* None is nothing else; the calls of a client are of its keys; a store
\* starts with keys of different hashes, and has room for them.
ASSUME KvConstants ==
    /\ MaxEntries \in Nat /\ MaxRecords \in Nat /\ Values # {}
    /\ None \notin Keys \cup Values \cup Nat \cup {"refused", <<>>}
    /\ \A v \in Values \cup {None} : <<v>> # None
    /\ \A c \in Configs :
          /\ {c.inserts, c.removes, c.finds, c.scans} \subseteq [Threads -> SUBSET Keys]
          /\ c.start \in Seq(Keys) /\ Len(c.start) <= MaxEntries /\ Len(c.start) <= MaxRecords
          /\ \A i, j \in DOMAIN c.start : Hash[c.start[i]] = Hash[c.start[j]] => i = j

VARIABLES conf,
          heap,         \* entry -> [state, key, val]
          recs,         \* record -> [flags, value], an entry or None
          table,        \* hash -> record or None
          list,         \* all_entries, the first one at the head
          retired,      \* [what, holders]: records and entries to be freed
          pinned,       \* threads inside an epoch
          job,          \* thread -> where it is in a call
          destroyed, ops
vars == <<conf, heap, recs, table, list, retired, pinned, job, destroyed, ops>>

Entries == 1 .. MaxEntries
Records == 1 .. MaxRecords
Hashes == {Hash[k] : k \in Keys}
Unborn == [state |-> "unborn", key |-> None, val |-> None]
FreeRec == [flags |-> 0, value |-> None]
FirstValue == CHOOSE v \in Values : TRUE
Idle == [op |-> "idle", pc |-> "idle", key |-> None, val |-> None, entry |-> None, rec |-> None, res |-> None]

\* A store into which the keys of conf.start, none with the hash of another,
\* have been inserted one after the other.
Init ==
    /\ conf \in Configs
    /\ heap = [e \in Entries |-> IF e \in DOMAIN conf.start
                                 THEN [state |-> "used", key |-> conf.start[e], val |-> FirstValue]
                                 ELSE Unborn]
    /\ recs = [r \in Records |-> IF r \in DOMAIN conf.start THEN [flags |-> 0, value |-> r] ELSE FreeRec]
    /\ table = [h \in Hashes |-> IF \E r \in DOMAIN conf.start : Hash[conf.start[r]] = h
                                 THEN CHOOSE r \in DOMAIN conf.start : Hash[conf.start[r]] = h
                                 ELSE None]
    /\ list = [i \in DOMAIN conf.start |-> Len(conf.start) - i + 1]
    /\ retired = {}
    /\ pinned = {}
    /\ job = [t \in Threads |-> Idle]
    /\ destroyed = FALSE
    /\ ops = 0

\* Clients that keep out of each other's way: a hash that is both inserted
\* and removed is so by one thread; where inserts fail late no other thread
\* adds up memory; where retiring finds no memory no other thread looks at
\* what is removed.
KeptApart(c) ==
    /\ \A t, u \in Threads : \A k \in c.inserts[t], l \in c.removes[u] : Hash[k] = Hash[l] => t = u
    /\ c.fails => \A t, u \in Threads : c.inserts[t] # {} /\ c.scans[u] # {} => t = u
    /\ c.oom => \A t, u \in Threads : \A k \in c.removes[t] :
                   c.scans[u] # {} \/ (\E l \in c.removes[u] \cup c.finds[u] : Hash[k] = Hash[l]) => t = u

H(t) == Hash[job[t].key]
Free(h, e) == [h EXCEPT ![e].state = "freed"]

\* Records the table is not using: neither linked, nor retired, nor with a
\* thread that is about to link them.
IsRec(n, r) == n.what = <<"record", r>>
InUse == {table[h] : h \in Hashes} \cup {job[t].rec : t \in {u \in Threads : job[u].op = "insert"}}
         \cup {r \in Records : \E n \in retired : IsRec(n, r)}

Begin(t) ==
    /\ job[t] = Idle
    /\ ~destroyed
    /\ ops < conf.ops
    /\ ops' = ops + 1

----------------------------------------------------------------------------
(* htc_kv_insert and htc_kv_insert_copy *)

\* kv_entry_alloc; without memory it returns false and nothing has changed.
CallInsert(t) ==
    /\ Begin(t)
    /\ \E k \in conf.inserts[t], v \in Values, e \in Entries :
          /\ heap[e] = Unborn
          /\ \A d \in 1 .. e - 1 : heap[d] # Unborn
          /\ heap' = [heap EXCEPT ![e] = [state |-> "used", key |-> k, val |-> v]]
          /\ job' = [job EXCEPT ![t] = [Idle EXCEPT !.op = "insert", !.pc = "alloc", !.key = k, !.val = v, !.entry = e]]
    /\ UNCHANGED <<conf, recs, table, list, retired, pinned, destroyed>>

\* Mutant: the entry is forgotten.
RefusedKeeps(t) ==
    /\ UNCHANGED heap
    /\ job' = [job EXCEPT ![t].pc = "return", ![t].entry = None, ![t].rec = None, ![t].res = "refused"]

\* The insert is refused: the entry is freed at once, no one can have it.
Refused(t) ==
    /\ heap' = Free(heap, job[t].entry)
    /\ job' = [job EXCEPT ![t].pc = "return", ![t].entry = None, ![t].rec = None, ![t].res = "refused"]

\* htc_insert, first part: a duplicate, or a record that names the entry, one
\* that was freed or the next of the block.
\* The shard's lock keeps others with this hash out until the second part.
InsertRecord(t) ==
    /\ job[t].pc = "alloc"
    /\ \A u \in Threads : job[u].pc = "link" => H(u) # H(t)
    /\ IF table[H(t)] # None
       THEN Refused(t) /\ UNCHANGED recs
       ELSE \E r \in Records \ InUse :
               /\ recs[r] = FreeRec => \A q \in 1 .. r - 1 : recs[q] # FreeRec
               /\ recs' = [recs EXCEPT ![r] = [flags |-> 0, value |-> job[t].entry]]
               /\ job' = [job EXCEPT ![t].pc = "link", ![t].rec = r]
               /\ UNCHANGED heap
    /\ UNCHANGED <<conf, table, list, retired, pinned, destroyed, ops>>

\* htc_insert, second part: the record gets a place ...
InsertLink(t) ==
    /\ job[t].pc = "link"
    /\ table' = [table EXCEPT ![H(t)] = job[t].rec]
    /\ job' = [job EXCEPT ![t].pc = "push", ![t].rec = None, ![t].res = <<job[t].val>>]
    /\ UNCHANGED <<conf, heap, recs, list, retired, pinned, destroyed, ops>>

\* ... or there is none, nor room for a larger table, and it is freed;
\* htc_arena_rec_zero leaves the flags alone.
InsertFails(t) ==
    /\ job[t].pc = "link"
    /\ conf.fails
    /\ recs' = [recs EXCEPT ![job[t].rec].value = None]
    /\ Refused(t)
    /\ UNCHANGED <<conf, table, list, retired, pinned, destroyed, ops>>

\* ... or, the table having grown, htc_insert starts again.
InsertRetry(t) ==
    /\ job[t].pc = "link"
    /\ conf.fails
    /\ recs' = [recs EXCEPT ![job[t].rec].value = None]
    /\ job' = [job EXCEPT ![t].pc = "alloc", ![t].rec = None]
    /\ UNCHANGED <<conf, heap, table, list, retired, pinned, destroyed, ops>>

\* list_push, under list_lock
ListPush(t) ==
    /\ job[t].pc = "push"
    /\ list' = <<job[t].entry>> \o list
    /\ job' = [job EXCEPT ![t].pc = "return", ![t].entry = None]
    /\ UNCHANGED <<conf, heap, recs, table, retired, pinned, destroyed, ops>>

----------------------------------------------------------------------------
(* htc_find_scoped, for htc_kv_find and htc_kv_remove *)

\* the thread leaves its epoch: it holds nothing back any more
Unpin(t) ==
    /\ pinned' = pinned \ {t}
    /\ retired' = {[n EXCEPT !.holders = @ \ {t}] : n \in retired}

Call(t, op, keys) ==
    /\ Begin(t)
    /\ \E k \in keys : job' = [job EXCEPT ![t] = [Idle EXCEPT !.op = op, !.pc = op, !.key = k]]
    /\ pinned' = pinned \cup {t}
    /\ UNCHANGED <<conf, heap, recs, table, list, retired, destroyed>>

CallFind(t) == Call(t, "find", conf.finds[t])
CallRemove(t) == Call(t, "remove", conf.removes[t])
CallMemory(t) == Call(t, "memory", conf.scans[t])

\* Mutant: the epoch is left before the entry is read.
ScopedUnpinned(t, pc, miss) ==
    /\ job' = [job EXCEPT ![t].pc = IF table[H(t)] = None THEN "return" ELSE pc,
                          ![t].entry = IF table[H(t)] = None THEN None ELSE recs[table[H(t)]].value,
                          ![t].res = IF table[H(t)] = None THEN miss ELSE None]
    /\ Unpin(t)

\* The value of the record is loaded; without one the epoch is left.
Scoped(t, pc, miss) ==
    IF table[H(t)] = None
    THEN /\ job' = [job EXCEPT ![t].pc = "return", ![t].res = miss]
         /\ Unpin(t)
    ELSE /\ job' = [job EXCEPT ![t].pc = pc, ![t].entry = recs[table[H(t)]].value]
         /\ UNCHANGED <<retired, pinned>>

FindScoped(t) ==
    /\ \/ job[t].pc = "find" /\ Scoped(t, "compare", <<None>>)
       \/ job[t].pc = "remove" /\ Scoped(t, "match", "refused")
    /\ UNCHANGED <<conf, heap, recs, table, list, destroyed, ops>>

\* keys_equal, and a mutant that leaves it to the hash
SameHash(t) == Hash[heap[job[t].entry].key] = H(t)
Same(t) == heap[job[t].entry].key = job[t].key

\* what is copied for the caller, or nothing
Found(t) == <<IF Same(t) THEN heap[job[t].entry].val ELSE None>>

FindCompare(t) ==
    /\ job[t].pc = "compare"
    /\ job' = [job EXCEPT ![t].pc = "return", ![t].entry = None, ![t].res = Found(t)]
    /\ Unpin(t)
    /\ UNCHANGED <<conf, heap, recs, table, list, destroyed, ops>>

----------------------------------------------------------------------------
(* htc_kv_remove, still in the epoch *)

GiveUp(t) == job' = [job EXCEPT ![t].pc = "return", ![t].entry = None, ![t].res = "refused"]

\* The remove returns false and leaves the epoch.
NothingRemoved(t) == GiveUp(t) /\ Unpin(t)

RemoveMatch(t) ==
    /\ job[t].pc = "match"
    /\ IF Same(t)
       THEN job' = [job EXCEPT ![t].pc = "unlink"] /\ UNCHANGED <<retired, pinned>>
       ELSE NothingRemoved(t)
    /\ UNCHANGED <<conf, heap, recs, table, list, destroyed, ops>>

\* htc_remove: whatever record the hash has is marked, unlinked, retired.
RemoveUnlink(t) ==
    LET r == table[H(t)] IN
    /\ job[t].pc = "unlink"
    /\ r # None
    /\ recs' = [recs EXCEPT ![r].flags = 1]
    /\ table' = [table EXCEPT ![H(t)] = None]
    /\ retired' = retired \cup {[what |-> <<"record", r>>, by |-> t, holders |-> pinned]}
    /\ job' = [job EXCEPT ![t].pc = "off", ![t].res = <<>>]
    /\ UNCHANGED <<conf, heap, list, pinned, destroyed, ops>>

\* It is gone, or the table is being replaced by a larger one.
RemoveMissed(t) ==
    /\ job[t].pc = "unlink"
    /\ NothingRemoved(t)
    /\ UNCHANGED <<conf, heap, recs, table, list, destroyed, ops>>

\* list_remove, under list_lock: the first link to the entry is taken out;
\* the mutant stops one link too early.
Drop(l, i) == [j \in 1 .. Len(l) - 1 |-> IF j < i THEN l[j] ELSE l[j + 1]]
FirstLink(l, e) == CHOOSE i \in DOMAIN l : l[i] = e /\ \A j \in 1 .. i - 1 : l[j] # e
OffEarly(l, e) == IF e \in Range(SubSeq(l, 1, Len(l) - 1)) THEN Drop(l, FirstLink(l, e)) ELSE l
Off(l, e) == IF e \in Range(l) THEN Drop(l, FirstLink(l, e)) ELSE l

ListRemove(t) ==
    /\ job[t].pc = "off"
    /\ list' = Off(list, job[t].entry)
    /\ job' = [job EXCEPT ![t].pc = "retire"]
    /\ UNCHANGED <<conf, heap, recs, table, retired, pinned, destroyed, ops>>

\* htc_epoch_retire_custom, ...
Retire(t) ==
    /\ job[t].pc = "retire"
    /\ retired' = retired \cup {[what |-> <<"entry", job[t].entry>>, by |-> t, holders |-> pinned]}
    /\ job' = [job EXCEPT ![t].pc = "unpin", ![t].entry = None]
    /\ UNCHANGED <<conf, heap, recs, table, list, pinned, destroyed, ops>>

\* ... which without memory for the node calls kv_entry_retire_cb at once.
RetireNow(t) ==
    /\ job[t].pc = "retire"
    /\ conf.oom
    /\ heap' = Free(heap, job[t].entry)
    /\ job' = [job EXCEPT ![t].pc = "unpin", ![t].entry = None]
    /\ UNCHANGED <<conf, recs, table, list, retired, pinned, destroyed, ops>>

RemoveUnpin(t) ==
    /\ job[t].pc = "unpin"
    /\ Unpin(t)
    /\ job' = [job EXCEPT ![t].pc = "return"]
    /\ UNCHANGED <<conf, heap, recs, table, list, destroyed, ops>>

----------------------------------------------------------------------------
(* htc_kv_memory_bytes: the flags of each record, its value, the entry *)

\* The record the scan is at is in job[t].rec; the first one is 1.
ScanAt(t) == IF job[t].rec = None THEN 1 ELSE job[t].rec + 1

ScanFlags(t) ==
    /\ job[t].pc = "memory"
    /\ IF ScanAt(t) \in Records
       THEN /\ job' = [job EXCEPT ![t].pc = IF recs[ScanAt(t)].flags = 0 THEN "value" ELSE "memory",
                                  ![t].rec = ScanAt(t)]
            /\ UNCHANGED <<retired, pinned>>
       ELSE job' = [job EXCEPT ![t].pc = "return", ![t].rec = None] /\ Unpin(t)
    /\ UNCHANGED <<conf, heap, recs, table, list, destroyed, ops>>

ScanValue(t) ==
    LET e == recs[job[t].rec].value IN
    /\ job[t].pc = "value"
    /\ job' = [job EXCEPT ![t].pc = IF e = None THEN "memory" ELSE "lengths", ![t].entry = e]
    /\ UNCHANGED <<conf, heap, recs, table, list, retired, pinned, destroyed, ops>>

ScanLengths(t) ==
    /\ job[t].pc = "lengths"
    /\ job' = [job EXCEPT ![t].pc = "memory", ![t].entry = None]
    /\ UNCHANGED <<conf, heap, recs, table, list, retired, pinned, destroyed, ops>>

----------------------------------------------------------------------------
Return(t) ==
    /\ job[t].pc = "return"
    /\ job' = [job EXCEPT ![t] = Idle]
    /\ UNCHANGED <<conf, heap, recs, table, list, retired, pinned, destroyed, ops>>

\* htc_epoch_collect, at the end of some other call into the table: the
\* record goes back to the arena, the entry to kv_entry_retire_cb.
Reclaim(n, h, r) ==
    IF n.what[1] = "entry"
    THEN heap' = Free(h, n.what[2]) /\ recs' = r
    ELSE recs' = [r EXCEPT ![n.what[2]].value = None] /\ heap' = h

Collect ==
    /\ ~destroyed
    /\ \E n \in retired :
          /\ n.holders = {}
          /\ retired' = retired \ {n}
          /\ Reclaim(n, heap, recs)
    /\ UNCHANGED <<conf, table, list, pinned, job, destroyed, ops>>

\* With no thread pinned htc_epoch_collect frees all that is retired.
Drained == {e \in Entries : \E n \in retired : n.what = <<"entry", e>>}

\* htc_kv_destroy, when no call is under way: what is retired is collected,
\* what is on the list is freed, the table goes.
Destroy ==
    /\ ~destroyed
    /\ \A t \in Threads : job[t] = Idle
    /\ heap' = [e \in Entries |-> IF e \in Drained \cup Range(list) THEN Free(heap, e)[e] ELSE heap[e]]
    /\ recs' = [r \in Records |-> FreeRec]
    /\ table' = [h \in Hashes |-> None]
    /\ list' = <<>>
    /\ retired' = {}
    /\ destroyed' = TRUE
    /\ UNCHANGED <<conf, pinned, job, ops>>

Step(t) ==
    \/ CallInsert(t) \/ InsertRecord(t) \/ InsertLink(t) \/ InsertFails(t) \/ InsertRetry(t) \/ ListPush(t)
    \/ CallFind(t) \/ CallRemove(t) \/ CallMemory(t) \/ FindScoped(t) \/ FindCompare(t)
    \/ RemoveMatch(t) \/ RemoveUnlink(t) \/ RemoveMissed(t) \/ ListRemove(t)
    \/ Retire(t) \/ RetireNow(t) \/ RemoveUnpin(t)
    \/ ScanFlags(t) \/ ScanValue(t) \/ ScanLengths(t) \/ Return(t)

Next == (\E t \in Threads : Step(t)) \/ Collect \/ Destroy
Spec == Init /\ [][Next]_vars

----------------------------------------------------------------------------
(* Properties *)

\* The types; and no thread that is outside a call is pinned, which would
\* keep the table from ever freeing anything.
TypeOK ==
    /\ heap \in [Entries -> [state : {"unborn", "used", "freed"}, key : Keys \cup {None}, val : Values \cup {None}]]
    /\ recs \in [Records -> [flags : {0, 1}, value : Entries \cup {None}]]
    /\ table \in [Hashes -> Records \cup {None}]
    /\ list \in Seq(Entries)
    /\ \A n \in retired : n.holders \subseteq pinned
    /\ \A t \in Threads : job[t].entry \in Entries \cup {None} /\ job[t].rec \in Records \cup {None}
    /\ \A t \in pinned : job[t].pc \notin {"idle", "return"}

Linked == {recs[table[h]].value : h \in {g \in Hashes : table[g] # None}}
At(pcs) == {t \in Threads : job[t].pc \in pcs}
EntriesAt(pcs) == {job[t].entry : t \in At(pcs)}

\* Nobody reads an entry that has been freed: not htc_kv_find and
\* htc_kv_remove when they compare keys, not htc_kv_memory_bytes when it
\* adds up lengths, not list_remove when it walks the list, and no find to
\* come, because the table names none.
NoneDangling ==
    \A e \in EntriesAt({"compare", "match", "unlink", "off", "retire", "lengths"}) \cup Range(list) \cup Linked :
        heap[e].state = "used"

\* Each entry has one owner, who will free it: the thread inserting it, then
\* the table, then the thread that removed it, then the list of retired
\* objects. So none is freed twice and none is forgotten, by htc_kv_destroy
\* either; and every variable has its type.
Owners(e) ==
    {<<"insert", t>> : t \in {u \in At({"alloc", "link"}) : job[u].entry = e}}
    \cup {<<"table", h>> : h \in {g \in Hashes : table[g] # None /\ recs[table[g]].value = e}}
    \cup {<<"remove", t>> : t \in {u \in At({"off", "retire"}) : job[u].entry = e}}
    \cup {<<"retired", n>> : n \in {m \in retired : m.what = <<"entry", e>>}}

OneOwner ==
    TypeOK /\ \A e \in Entries : Cardinality(Owners(e)) = (IF heap[e].state = "used" THEN 1 ELSE 0)

\* The list holds, once each, the entries of the table, but for those about
\* to be pushed, and those just removed from the table: an entry given to
\* kv_entry_retire_cb "has already been removed from the all_entries list".
ListAgrees ==
    /\ IsInjective(list)
    /\ Range(list) = (Linked \ EntriesAt({"push"})) \cup EntriesAt({"off"})

\* What kv_entry_retire_cb says of itself: no retired entry is on the list.
RetiredOffList ==
    \A n \in retired : n.what[1] = "entry" => n.what[2] \notin Range(list)

\* The store is a map from keys to values, though the table knows hashes
\* only: what htc_kv_find returns is the value of its key at the instant the
\* record was read, whatever was removed or freed since.
Answer(t) ==
    IF job[t].pc = "compare"
    THEN <<IF heap[job[t].entry].key = job[t].key THEN heap[job[t].entry].val ELSE None>>
    ELSE job[t].res
CallOf(t) ==
    IF job[t].op \in {"idle", "memory"} THEN [op |-> "idle", key |-> None, val |-> None, res |-> None]
    ELSE [op |-> job[t].op, key |-> job[t].key, val |-> job[t].val, res |-> Answer(t)]
MapOf(k) ==
    IF destroyed THEN None
    ELSE LET r == table[Hash[k]] IN
         IF r # None /\ heap[recs[r].value].key = k THEN heap[recs[r].value].val ELSE None
MapNow == [k \in Keys |-> MapOf(k)]
CallNow == [t \in Threads |-> CallOf(t)]
Map == INSTANCE KvMap WITH map <- MapNow, call <- CallNow
IsKvMap == Map!Spec
=============================================================================
