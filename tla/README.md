# A TLA+ verification of draugr

draugr is a C11 library of hash tables and the things around them. This
directory holds TLA+ models of its components, the TLC configurations that
check them on small instances, and TLAPS proofs of the properties that matter
most. `PROJECT.json` maps every modelling definition to the lines of code it
stands for, and lists runs, mutants, findings, hazards and theorems.

Run a check with `tlc -config X.cfg MCModule`, a proof with `tlapm Module.tla`.

## 1. Inventory

| Component | Code | State | Operations |
|---|---|---|---|
| Epoch reclamation | `htc.c` 236-482 | global epoch, a published epoch per slot, two retire lists | register, pin, unpin, detach, retire, collect, advance |
| Table writers | `htc.c` 726-1422, 2456-2836, 3071-3214 | shard locks, generations of buckets, per-shard stashes, global stash, size, seed | insert, upsert, remove, grow |
| Lock-free readers | `htc.c` 759-805, 2838-3069 | bucket sequence numbers, control tags, remap counters | find, find_scoped, update |
| Front cache | `htc_internal.h` 853-897 | thread-local (hash, index, generation) | lookup, put, remove |
| Record arena | `htc.c` 67-175 | chain of blocks, free indices | alloc, free, index to pointer, clear |
| Lazy migration | `htc.c` 489-720 | chunk bitmap, old generation | start, migrate a chunk, finish |
| Key-value layer | `htc_kv.c` | list of entries on top of the table | insert, find, remove, iterate |
| Robin Hood table | `ht.c` | slots with probe distances, tombstones, spill lane | insert, find, remove, compact, resize |
| LRU cache | `ht_cache.c` | intrusive list, free stack, bare table | put, get, find, promote, remove, evict, clear, iterate |
| Filters | `cuckoo_`, `vacuum_`, `bloom_`, `rsqf_`, `cqf_filter.c` | fingerprint tables | insert, lookup, delete, reset |
| Filter wrapper | `htc_filter.h` | spin lock around a filter | insert, lookup, delete |
| General allocator | `arena.c` | slabs with bitmaps, thread caches, segments, deferred frees | alloc, free, realloc, clear, flush |
| Utilities | `util.c`, `alloc.h` | none | next_pow2, allocation macros |

How they interact: a table operation loads `current_gen` (readers under an epoch
pin), writers lock one or two shards in ascending order, change slots, retire
records and generations through the epoch control block and collect what has
become unreachable. `htc_grow` freezes the generation, takes all shards,
rehashes and publishes a successor. `htc_kv` keeps its entries as values of the
table and retires them through the same epochs. `ht_cache` keeps its index in a
bare Robin Hood table. Filters answer "not there" before a table is searched.

What makes it hard: lock-free readers against writers, growers and collectors;
a displacement that gives up its locks to take others; three places (buckets,
shard stash, global stash) a key can be in; state cached before a lock is taken;
allocation failures in the middle of multi-step updates; unsigned counters.

What should be true: no freed memory is reachable by a reader; nothing is freed
twice or leaked; shard locks exclude; a key has at most one entry; a grow hides
no key; clients see a map changed atomically; every call returns; a filter has
no false negative for a key that is in it; a cache evicts the least recently
used entry and never loses a slot.

## 2. Plan

Done: epoch reclamation, the write protocol, the LRU cache and the key-value
layer, with proofs; the five filters and their wrapper, the Robin Hood table and
the keyed table on it, the lock-free readers with front cache and record arena,
and the general allocator.

Left: proofs about the allocator's segments. Lazy migration is not modelled, for
the reasons in section 7.

## 3. Modules

### HtcEpoch (`MCHtcEpoch`, `HtcEpochProof`, `HtcEpochSafeProof`)

State: `global_epoch`, `thread_epoch` per slot, the two retire lists
(`retire_head`, one for records, one for generations) as sets of nodes, the
current generation and the records linked in each generation, the allocation
state of every record and generation, and per thread its slot (`tid`), program
counter, loaded epoch, pointers it holds, and the local variables of
`htc_epoch_collect` (scan position, `min_ep`, popped list).

One action per atomic access: loading and storing the epoch, claiming a slot,
loading `current_gen` and a record out of it, unlinking, reading the epoch to
retire with, pushing, reading one `thread_epoch`, popping the whole list,
freeing one node, re-pending the rest, advancing. With `StoreBuffers` a
published epoch sits in the writer's store buffer until `Flush`. The retire
lists are sets, because their order is never looked at.

Two specifications: `Spec` is the whole protocol, with registration and detach.
`SpecRegistered` starts with one slot per thread and no thread comes or goes.

### HtcWriters, HtcMap (`MCHtcWriters`, `MCHtcRemove`, `HtcWritersProof`)

State: the flags of the shard locks and of `grow_lock`, all generations made so
far with their state, seed and slots, the stashes, `size` (wrapping), the last
seed, and per thread program counter, arguments, loaded generation, attempt
counters, the shards it still wants and those it holds, the displacement path.
A slot word is (key, seed of the record's `placement_hash`, seed of the tag):
lookups compare the tag, displacement uses the placement hash in the record, a
rehash renews the tag and not the record.

A step reaches from one point where another thread can interfere to the next:
one lock acquisition, the region under the locks, a store of a generation's
state. Under the locks control bytes, remap counters and sequence numbers answer
like a scan of the slots, so they are left out here. The search for a
displacement path is one step that may find any path the code's search could
find; what it read is validated again under the path's locks, as in the code.
Memory can be refused at every allocation (`InsertOom`, `GrowOom`). The branch of
`htc_grow` for a failed compare-and-swap (1228-1235) is left out: `FreezeOwned`
shows that the current generation is ACTIVE whenever `grow_lock` has just been
taken.

`HtcMap` is what the table promises: a set of keys; insert adds an absent one,
upsert makes it present, remove deletes a present one, each in one step between
call and return; failures change nothing. `IsMap` is the refinement, with the
set of findable keys as the abstract state. `HtcMap` lets `NOT_FOUND` be
answered at any time, because `htc_remove` does; `MCHtcRemove` adds a history
variable and states what `NOT_FOUND` should mean.

### HtCache, CacheList (`MCHtCache`, `HtCacheProof`)

State: the arrays of the cache block (`entries`, `hashes`, `live`, the links in
`lru`, `free_stack` up to `free_top`), `size`, and the bare table as the set of
its (hash, slot) pairs. An entry is its key. One action per outcome of an
operation: a put takes a free slot or evicts, and succeeds or fails in the bare
table; get, promote, remove, evict, clear. `ht_cache_find` and the iterator only
read; a pointer they returned can be promoted at any later time, so `Promote`
takes any slot. Which of several entries with one hash the bare table meets
first is left open. The history variable `order` lists the occupied slots in
order of use; nothing depends on it.

`CacheList` is the promise of `ht_cache.h`: a list of at most `Capacity` keys.
Put adds in front and drops the last when full, get and promote move to the
front, a put that fails for lack of memory may have dropped the last entry.

### HtcFind (`MCHtcFind`)

The lock-free side: `htc_find` with filter, front cache, sequence-validated scans
of both buckets, remap hint, the shard's stash and the table's own, and
`htc_update`, against one writer that inserts, upserts, removes, displaces and
reclaims. A reader's step is one atomic
load or store. The writer decides under its shard locks, so it computes its
stores when it begins, and `todo` holds those still to be made, one per step.

State: slots, control tags and sequence numbers of the buckets, remap counter
and remap filter, the two stashes, the records of the arena in the order of their
blocks, its free indices and their capacity, the retired records with the readers that keep them, the
filter, the reader's front cache and, per reader, its program counter and local
variables. Epochs are reduced to what `HtcEpoch` proves for one writer: a record
is freed when nobody pinned at its retirement is pinned any more. The histories
`saw` (what a key's value was during a call) and `rec_of` (the record made for a
key's entry) state the properties and no step reads them: the writer finds out
whether a key is there by the scans of the code. So an insert does not see a key
that a grow has spilled into the table's stash (2524), an upsert and a remove do,
and an update that finds its key there loads the slot of the same number from the
shard's stash (2888). A free list that is full and is refused memory drops the
record's index (144), which `given_up` records.

### HtBare, HtTable, HtMultimap (`MCHt`)

`HtBare` holds the algorithms of `ht_bare_t` as operators on a record: Robin Hood
insertion with probe limit, overflow stash and unbounded fallback, tombstones
with look-ahead, deletion with backward shift, prophylactic tombstones, spill
lane, resize, compaction, iteration and `ht_bare_check_invariants`. `HtTable` adds
the entries of the keyed table and has one action per public operation of either
table. Each call may be refused one allocation; operators thread the result
through as `[ok, b]`. The list of matches that removals and upserts make moves to
the heap beyond `MatchCap` entries; refused that, the scan ends early (1287).
After `ht_clear` of a table whose spill lane had grown, the lane's values lie in
the memory of the entries (1500), and a store to one changes the other. An upsert
with a list on the heap reads it after freeing it (1543), and finds any indices.
`Risks` says which of the last two the clients of a run provoke.

`HtMultimap` is the promise of `ht.h`: a bag of pairs, and for each operation what
it returns and does to the bag; a step of the table has to be the step of the
operation that was called, with its key, value and answer. A removal that was
refused memory for its list may leave pairs, and `ht_inc`, whose result does not
say whether it stored (1738), may change nothing. `IsMultimap` maps what lookups
find onto that bag.

### Filters: PackedSets, CuckooFilter, VacuumFilter, BloomFilter, RsqfFilter, CqfFilter, HtcFilter (`MCFilters`)

Each filter is a record and a set of operators named as the C functions;
`PackedSets` models the bit-packed cache lines of the cuckoo and vacuum filters
word by word. `RsqfFilter` keeps the cached prefix sums and block offsets, which
are updated from one block on; `CqfFilter` reads rank and select off the bit
vectors, because `update_offsets` recomputes all of its sums. Hash functions
(mixers, double hashing) and the vacuum filter's chunk sizes, which the code
computes in floating point, are parameters. The counting filter resized for no
items destroys itself when it is empty (1615).

`HtcFilter` is the client of them all: one action for a direct call, reset, growth
and merging of the counting filter, and the four steps of a call under the spin
lock of `htc_filter_t`. A call that inserts reads the filter in one step and
writes it in another, so that only the lock keeps a second thread out. `held`
counts what clients have inserted and not deleted.

### HtcKv, KvMap (`MCHtcKv`, `HtcKvProof`, `HtcKvWriteProof`, `HtcKvReadProof`, `HtcKvSafeProof`)

Entries with key and value, the table from hashes to records, the list of
entries, retired objects with the threads that keep them, and per thread where
it is in a call. The table is what `HtcMap` promises and reclamation what
`HtcEpoch` promises. `KvMap` is the abstract store: a map from keys to values
whose calls take effect in one step between call and return.

A configuration (`conf`) says which keys each thread inserts, finds and removes,
who scans, whether late failures and refused retire nodes occur, and what the
store holds at the start. `KeptApart` says that clients keep out of each other's
way: a hash that is both inserted and removed is so by one thread, where inserts
fail late no other thread scans, and where retiring finds no memory no other
thread looks at what is removed.

### Arena (`MCArena`)

Slab sets, segments with bitmap and control word, per-thread caches, pages and
the list of deferred frees. Inside `arena_alloc` and `arena_free` a step is one
atomic access; work on a thread's own cache, and the calls `arena.h` wants
synchronised, are one step. Segments, thread caches and arenas may be refused
memory. `lost` records the blocks the code gives up and why: a compacted segment
ignores a free; a block cached from one arena is freed to another, whose `munmap`
refuses it; the thread ends with blocks in its cache; the arena is cleared or
destroyed while pages are out or blocks cached. `MemoryAccounted` says that every block is
somewhere or lost for one of these reasons, that the reason really occurred, and
that a client of one arena that only allocates, reallocates, frees, defers and
flushes loses nothing.

## 4. Runs

| Run | Result | Shows |
|---|---|---|
| `epoch_one_writer` | pass | one writer, registered readers: no thread refers to freed memory |
| `epoch_accounting` | pass | two writers, one slot to share, store buffers, an allocation failure: unlinked objects are accounted for exactly once |
| `epoch_two_writers` | violation | `min_ep` is computed before the list is popped; a second writer's object is freed under a reader |
| `writers_crowded` | pass | two threads, three keys for two buckets, stash and grow: exclusion, freeze ownership, unique entries, size, old generations untouched, atomic map |
| `writers_alone` | pass | one thread: displacement, reseeding, load-factor grows, rehashes that fail: no key is lost |
| `writers_races` | pass | two threads with displacement, stashes, global stash and grow: every call returns |
| `cache` | pass | every sequence of calls on three slots: list, free stack and table agree; the cache is a list of keys in order of use |
| `readers` | pass | a lock-free reader against a writer, four tables: finds and updates agree with the table, tags and hints lead to the entries, no bucket stays busy, every record is in one place |
| `filters` | pass | all filters under every sequence of calls, one behind the spin lock with two threads: no false negative, no undercount, right count, refused inserts leave no trace |
| `ht` | pass | a bare and two keyed tables with refused allocations: the table's self-check, ownership of entries, iteration, and the multimap of `ht.h` |
| `kv` | pass | two threads on the key-value store: one owner per entry, list and table agree, nothing freed is read, the store is a map |
| `arena` | pass | two threads in one arena, one thread with every call, one in two arenas, one refused memory: blocks are disjoint, memory is accounted for, counts agree, calls return |

Bounds. Two threads suffice for every interference between two operations, and
the epoch runs need two because a collector, a retiring writer and a reader may
be two threads in three roles. Buckets have one slot and stashes one entry, so
that buckets and stashes are full, displacement, spilling and growing happen
after two or three inserts. The hash functions of `MCHtcWriters` are chosen so
that keys compete for buckets; a table may start from one of several seeds
(`InitialSeeds`), each with its own hash function, so one run covers a table
that displaces and one that spills. `MaxOps` bounds the calls of a behaviour,
`MaxGens` the generations (a table that would need more is out of memory).
`SizeWrap` stands for 2^64. Three slots give the list a first, a middle and a
last element, and two keys with one hash make the table return a wrong
candidate; the proofs cover every capacity.

In `readers` a bucket has one slot, the stash one entry, and the remap counter
saturates at 2, so that three keys reach the secondary bucket, the stash and the
saturated counter within the three to five writes of a behaviour. In the fourth
table a grow has left a key in the table's own stash; finds, upserts and removals
meet it there, and insertions and updates are of other keys (section 5). There
too the free list, of one index at first (64 in the code), may be refused memory. Sequence
numbers grow without bound; the `VIEW` keeps of them only whether they are even
and equal to the one the reader loaded.

In `filters` words have 4 bits and sets two words, so fingerprints of 3 bits lie
across words; quotient filters have blocks of 2 (counting: 4) slots and offsets
clamp at 1, so several blocks and clamped offsets occur; clients hold at most 5
items. The quotient filter runs without deletions. The counting filter runs with
at most two copies of an item, or with one remainder per quotient and up to five
copies, and clients keep the last copy; section 5 says what happens beyond that.

In `ht` a table starts with 4 slots, a probe limit of 1, a stash of 1 and a spill
lane of 1; four bare entries or three keyed ones make it displace, overflow, fall
back, grow and shrink. Counters count modulo 64 and integers end at 1. A list of
two matches (64 in the code) is still on the stack.

In `kv` two keys share a hash, three or four calls are made, and each
configuration of `MCHtcKv` says who makes which. In `arena` there are two size
classes, segments of three slots, one slab of two per class, thread caches of
one block and a batch of two deferred frees, so each of them overflows within
four to six calls.

Fairness. `LiveSpec` assumes weak fairness of each thread's steps: a thread in
the middle of a call is scheduled again and again. A spin lock makes no promise
about who gets it, so no strong fairness is assumed; calls return because the
other threads' calls are bounded. The arena's calls spin on nothing: its
`LiveSpec` is weak fairness of each thread's steps too.

## 5. Disagreements between code and documentation

The run `epoch_two_writers` is recorded in `PROJECT.json` under findings: `min_ep`
is computed before the retire list is popped.

These configurations are kept beside the runs; TLC finds a violation in each:

| Configuration (module) | Violates | What the code does |
|---|---|---|
| `WritersDoubleUnlock` (`MCHtcWriters`) | `MutualExclusion` | the second unlock of `insert_done` frees another thread's lock (`htc.c` 2747) |
| `WritersDuplicate` (`MCHtcWriters`) | `UniqueEntry` | the duplicate check after an invalid path misses the buckets (2700) |
| `WritersReseed` (`MCHtcWriters`) | `GrowKeepsKeys` | stashed keys are not findable after a reseed (1314) |
| `WritersRemoveMeetsGrow` (`MCHtcRemove`) | `NotFoundIsAbsent` | `htc_remove` answers NOT_FOUND for a key that is there when it meets a grow (3090) |
| `ReadersOther` (`MCHtcFind`) | `FindsOwnValue` | the slot is loaded again after the scan was validated (2956), and a find answers with another key's value |
| `ArenaBlocks` (`MCHtcFind`) | `EntriesKeepRecords` | a new block is put in front of the chain from which `htc_arena_ptr` counts, so indices handed out before name other records (117; the comment at 64 says blocks are never moved) |
| `KvShared` (`MCHtcKv`) | `RetiredOffList` | an entry is in the table before it is on the list, so a remove in between does not take it off (`htc_kv.c` 110; the comment at 180 says it has been taken off) |
| `RsqfForgets` (`MCFilters`) | `NeverForgets` | with deletions `run_start` (`rsqf_filter.c` 380) takes slot 0 for the start of the first run, wherever that begins; `rsqf_filter.h` 59 promises no false negatives |
| `CqfForgets` (`MCFilters`) | `NeverForgets` | three copies of a remainder beside another one in the same quotient are decoded wrongly (`cqf_filter.c` 1416); `cqf_filter.h` 31 says "never undercounts" |
| `CqfDeleteForgets` (`MCFilters`) | `NeverForgets` | after the deletion of a last copy a later item is not found (`cqf_filter.c` 1000-1105) |

More are reached by changing the constants of a configuration (and dropping its
symmetry):

- `EpochTwoWriters` with `Gens = {g1, g2}` violates `WriterGenSafe`: a writer
  that waits for its locks has not pinned, and refers to a freed generation
  (`htc.c` 2464).
- `EpochTwoWriters` with `SPECIFICATION Spec`, `Writers = {t1}`, `NumSlots = 1`
  violates `PinnedReaderSafe`: registration hands out the slot of a registered,
  unpinned thread (427).
- `EpochOneWriter` with `StoreBuffers = TRUE` violates `NoUseAfterFree`: the pin
  is not visible in time (442).
- `EpochOneWriter` with `MaxOom = 1` violates `NoUseAfterFree`: an object whose
  retire node cannot be allocated is freed under a reader (247, 1392-1401).
- `WritersDuplicate` with `MaxGens = 2`, `MaxLoad = 50` violates `OldUntouched`: a
  displacement is committed to a generation already replaced, because nothing is
  revalidated after the path's locks are taken (2650).
- `WritersReseed` with `Seeds = {1}`, `NumShards = 3`, `MaxLoad = 50`,
  `Keys = {k1, k2, k3}`, `OddHash1`, `OddHash2` violates `GrowKeepsKeys`: a stash
  entry stays with its old shard although the key's primary bucket moved (1456).
- `WritersReseed` with `Seeds = {1}`, `MaxLoad = 50`, `SpillHash1`, `SpillHash2`,
  five keys and `MaxGens = 3` violates `GrowKeepsKeys`: the global stash is
  dropped by the next grow (1279). With three keys and `MaxGens = 2` the same
  configuration violates `UniqueEntry`: insert's duplicate check does not look
  at the global stash (2524).
- `Readers` with `Configs <- Cached` violates `FindAgrees`: the front cache with
  reclamation compares generation and identity before the flags, and the record
  may be reused in between (`htc_internal.h` 865-869). With `Configs <- FilterFull`
  it fails because a full filter refuses the key and `htc_insert` ignores that
  (`htc.c` 2745). `FindAgrees` leaves out keys that are inserted, removed or moved
  by a displacement during the call: a find may miss a key that moves between
  its two scans (2992). With `Configs <- UpdateSpilled` it violates `UpdateAgrees`:
  an update of a key in the table's own stash stores into another record (2888).
  With `Configs <- InsertSpilled` it violates `RecordsAccounted`: an insert does
  not look at that stash, and the key has two entries (2524).
- `Kv` with `Configs <- Reinserted` violates `OneOwner`: `htc_kv_remove` removes by
  hash what it compared earlier (`htc_kv.c` 241). `FailsBesideScan` and
  `OomBesideFind` violate `NoneDangling`: an insert that fails late frees its
  entry, and a remove without memory for the retire node frees at once
  (`htc.c` 272).
- `Arena` with `Configs <- ClearsDeferred` or `ClearsOther` violates `Exclusive`:
  `arena_clear` leaves the deferred frees (`arena.c` 1007), and a thread's cache
  belongs to no arena (361). With `Configs <- Compacts` the invariant
  `NoFreeIgnored` fails: a segment flagged by compaction drops every free (602).
- `Ht` with `EmptyKeys = {k1}` violates `IsMultimap`: a rebuild drops entries whose
  key has length 0 (`ht.c` 1961, 1993, 2020), although
  `tests/test_property.c` 2269 stores one. With `Risks = {"clear_grown"}` it violates
  `EntriesOwned` and `IsMultimap`: `ht_clear` computes `spill_vals` with the old lane
  capacity (1500). With `Risks = {"long_upsert"}` it violates `IsMultimap`: `ht_upsert`
  of a key with more than `MatchCap` entries reads its list after freeing it (1543).

Met while modelling, without a configuration of their own: `htc_update` follows an
unvalidated remap hint (`htc.c` 2864); slabs never serve an allocation, because the
bitmap of a fresh slab is taken for a full one (`arena.c` 113-116, 161, against the
comment at 5-7);
clear and destroy do not unmap the pages of large blocks, and a thread's end forgets its cached blocks; `ht_bare_remove` stops
after capacity + 1 steps, each removal being one (`ht.c` 722); an insert into an
empty table that must grow fails (1569); `num_buckets` is halved after the chunk sizes were derived from it
(`vacuum_filter.c` 264-266); merging two empty counting filters makes one of 64
slots, whatever their size (`cqf_filter.c` 1549).

## 6. Proofs

Two modules, the second extending the first, prove for any number of threads,
slots, records and generations:

- `TypeCorrect` (`HtcEpochProof`): `Spec => []TypeOK`.
- `Accounting` (`HtcEpochProof`): `Spec => []RetiredOnce`. The inductive invariant
  `AccountInv` says where an unlinked object may be: retire nodes on a shared or
  popped list, and a writer's target, name unlinked objects; no object has two of
  these claims; every unlinked object has one (`NothingLost`); and the current
  generation is linked. Without the disjointness of claims a pop could duplicate
  a node. `AccountFree` and `AccountRepend` cover the two ways a popped node
  leaves a collection.
- `OneWriterSafe` (`HtcEpochSafeProof`): with at most one writer, no store buffers
  and no allocation failure `SpecRegistered => []NoUseAfterFree`. `OneWriterInv`
  adds that threads own their slots, that a pinned thread's epoch is published,
  not zero and at most the global one, that only the writer retires and collects,
  and `ReachProtected`: every object a pinned reader can reach, through the
  generation it holds too, is not free, is retired no earlier than in the
  reader's epoch, and a collection that has passed the reader's slot has a
  `min_ep` that is at most that epoch. The last conjunct is inductive only
  because the collector is the thread that retired: with a second writer an
  object can be retired after `min_ep` was computed, which is what
  `epoch_two_writers` shows.

`HtCacheProof` proves for every capacity, set of keys and hash function:

- `TypeCorrect`, `ListKept` and `Consistent`: `Spec => []TypeOK`, `[]ListIsOrder`,
  `[]SlotsAccounted`. The three are inductive only together: that a slot popped
  from the free stack is not on the list is `SlotsAccounted`, that the tail is a
  live slot is `ListIsOrder`. The lemmas `AddHeadRepresents` and
  `RemoveRepresents` are the heart: relinking a doubly linked list inserts in
  front and closes a gap.
- `ImplementsLru`: `Spec => IsLru`, the refinement of `CacheList`, from the same
  invariant and one lemma per kind of change of the list.

`HtcWritersProof` proves about the write protocol, for any number of threads, shards,
buckets and keys, any hash functions and any bound:

- `FreezeOwnedHolds`: `Spec => []FreezeOwned`. The inductive
  invariant `GrowInv` adds that whoever is between taking and clearing
  `grow_lock` is alone there: without it a second grower could freeze a
  generation the first is about to publish. It also says that `gens` is a
  sequence of generations over whatever slots it holds (`Generations`), so
  that nothing needs to be known of what the rehash loop, a recursive function,
  computes. Displacements are included.
- `MutualExclusionHolds` and `OldUntouchedHolds`:
  `Spec /\ [][CommitsNothing]_vars => []MutualExclusion`, and `=> OldUntouched`.
  The premise excludes exactly one step, the commit of a displacement path;
  paths may be searched, locked, found changed and given up. With that step both
  properties fail (`WritersDoubleUnlock`, and `OldUntouched` with the constants of
  `WritersRaces`), so the premise says precisely
  what has to be repaired. `LockInv` says which shards a thread holds at each
  label: those of its key in the generation it loaded, those of its path, all, or
  none; while it waits, those it has and those it wants make up that set. This
  is inductive because the seed and the size of a generation never change
  (`SeedsKeptNext`). The last conjunct, that a thread about to write has the
  current generation, survives a publication because the publisher holds every
  shard and the writer at least one.

Four modules prove about the key-value layer, for any number of threads, keys,
values, entries, records and calls, and any hash function, when every
configuration is `KeptApart`:

- `EntriesOwned`, `ListInStep`, `NothingDangles`, `RetiredIsOff` (`HtcKvSafeProof`):
  `Spec =>` `[]OneOwner`, `[]ListAgrees`, `[]NoneDangling` and `[]RetiredOffList`.
- `StoreIsMap` (`HtcKvSafeProof`): `Spec => IsKvMap`, the refinement of `KvMap`. An
  insert takes effect when the table links its record (`InsertLink`), a remove
  when it unlinks it (`RemoveUnlink`), a find when `htc_find_scoped` reads the
  record (`FindScoped`); every other step leaves map and calls as they are
  (`MapStays`, `CallStays`). `MapInv` says what a call waiting for its instant
  and one that has had it will answer.

The hypothesis cannot be dropped: each of its conjuncts is what one of `KvShared`,
`Reinserted`, `FailsBesideScan` and `OomBesideFind` lacks, and an invariant fails
there (section 5). It is what the run
`kv` assumes of its configurations too; the theorems remove the bounds.

The inductive invariant `Inv` is in `HtcKvProof`. It says, for each entry by itself
(`EntryInv`), that it has an owner while in use and none otherwise, that no two
claim it, that it is on the list exactly while the table or a remover about to
take it off has it, and that whoever reads it is protected: the entry is linked,
or in the hand of a thread that has not retired it, or retired with the reader
among the holders. It says the same of records (`Tables`, `Links`, `Named`), and
where each thread is in its call (`Locals`). What the invariant of an entry depends
on is little, so most steps leave that of all entries but one alone, and the frame
lemmas say so once. `HtcKvProof` also has the steps of an insert up to its link and
those of one that fails; `HtcKvWriteProof` has the link and the push, the steps of
a remove from its unlink on, reclamation, destruction and the start;
`HtcKvReadProof` has the other steps of a remove, those of a find and of a scan,
and what each step is to the map; `HtcKvSafeProof` puts them together. The hypothesis enters at three places: between
compare and unlink nobody inserts the hash anew (`Matches`), and between link and
push nobody removes it (`Pushes`); failures enter at `Safe`.

TLC confirmed `GrowInv` on `WritersCrowded`, `LockInv` on `WritersRaces` without the
commit, and the parts of `Inv` on `Kv` before they were proved.

Assumptions are those named in the modules (`EpochConstants`, `CacheConstants`,
`WriterConstants`, `KvConstants`, which TLC evaluates on every run) and the ones in
a theorem's statement.

Only model-checked:

- liveness (`CallsReturn`), which the prover does not support;
- the contents of the table in `HtcWriters` (`UniqueEntry`, `SizeAgrees`,
  `GrowKeepsKeys`, `IsMap`): they depend on what the rehash loop, a recursive
  function, computes, and hold only for the constants of the runs (section 5);
- `HtTable` and the filters, which are built from recursive operators, about which
  the prover cannot reason;
- `HtcFind`, whose properties hold for the configurations of its run only, and
  `Arena`.

## 7. Not modelled

Lazy chunk migration (`htc.c` 489-720). Nothing in the library calls
`htc_resize_start`; two tests do. It marks the old generation OLD, whereas
`htc_find_scoped` (3044) searches an old generation only while it is FREEZING; a
chunk is marked migrated before its entries are copied (639-641); chunk numbers
are those of the new generation, so a key's new bucket and its old one belong to
different chunks; and an entry whose target bucket is full stays in the old
generation, which `htc_resize_finish` frees. A model would have no property of
migration to show that is not about one of these.

Creation, destruction and clearing of the concurrent table (quiescent), its
statistics, debug checkers and witness recording (they only read), false-positive
estimates and memory sizes of the filters, and the memory model beyond store
buffers.
