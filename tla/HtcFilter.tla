------------------------------ MODULE HtcFilter ------------------------------
(* The filters behind htc_amq_filter_t, and the spinlock wrapper           *)
(* htc_filter_t that makes one of them usable by several threads.  A       *)
(* configuration chooses the filter, its size, the hashes and the threads  *)
(* that call it.  A filter operation reads and writes many words: between  *)
(* the step that reads the filter and the step that has written it other   *)
(* threads may run, and only the lock keeps them out.                      *)
EXTENDS CuckooFilter, BloomFilter, RsqfFilter, FiniteSets, FiniteSetsExt

Vacuum == INSTANCE VacuumFilter

CONSTANTS Configs,     \* the filters to create and what their clients do
          MaxHeld,     \* bound on the items of a filter
          CqfBlock,    \* CQF_SLOTS_PER_BLOCK, 64: the smallest counting filter
          MaxSlots     \* bound on the slots of a counting filter that grows

Cqf == INSTANCE CqfFilter WITH SlotsPerBlock <- CqfBlock

VARIABLES kind, hashes, threads,   \* of the configuration, never changed
          most, spare,             \* clients hold at most so many of an item, and delete
                                   \* one only of an item of which they hold more than spare
          f,                       \* the filter
          lock,                    \* htc_filter_t.lock
          pc, call, seen,          \* per thread: where it is, op and hash, the filter as read
          held                     \* history: items by class, see ClassOf
vars == <<kind, hashes, threads, most, spare, f, lock, pc, call, seen, held>>
config == <<kind, hashes, threads, most, spare>>

Created(c) ==
    CASE c.kind = "cuckoo" -> CuckooCreate(c.capacity, c.bucket_size, c.fp_bits, c.max_kicks)
      [] c.kind = "vacuum" -> Vacuum!VacuumCreate(c.capacity, c.bucket_size, c.fp_bits,
                                                   c.max_kicks, c.sizes)
      [] c.kind = "bloom"  -> BloomCreate(c.num_bits, c.num_hashes)
      [] c.kind = "rsqf"   -> RsqfCreate(c.capacity, c.fp_bits)
      [] c.kind = "cqf"    -> Cqf!cqf_filter_create(c.capacity, c.fp_bits)

Inserted(g, h) ==
    CASE kind = "cuckoo" -> cuckoo_filter_insert(g, h)
      [] kind = "vacuum" -> Vacuum!vacuum_filter_insert(g, h)
      [] kind = "bloom"  -> bloom_filter_insert(g, h)
      [] kind = "rsqf"   -> rsqf_filter_insert(g, h)
      [] kind = "cqf"    -> Cqf!cqf_filter_insert(g, h)
Removed(g, h) ==
    CASE kind = "cuckoo" -> cuckoo_filter_delete(g, h)
      [] kind = "vacuum" -> Vacuum!vacuum_filter_delete(g, h)
      [] kind = "rsqf"   -> rsqf_filter_delete(g, h)
      [] kind = "cqf"    -> Cqf!cqf_filter_delete(g, h)
Has(g, h) ==
    CASE kind = "cuckoo" -> cuckoo_filter_lookup(g, h)
      [] kind = "vacuum" -> Vacuum!vacuum_filter_lookup(g, h)
      [] kind = "bloom"  -> bloom_filter_lookup(g, h)
      [] kind = "rsqf"   -> rsqf_filter_lookup(g, h)
      [] kind = "cqf"    -> Cqf!cqf_filter_lookup(g, h)
Cleared(g) ==
    CASE kind = "cuckoo" -> cuckoo_filter_reset(g)
      [] kind = "vacuum" -> Vacuum!vacuum_filter_reset(g)
      [] kind = "bloom"  -> bloom_filter_reset(g)
      [] kind = "rsqf"   -> rsqf_filter_reset(g)
      [] kind = "cqf"    -> Cqf!cqf_filter_reset(g)

\* Two hashes of one class are the same item to the filter.
SameClass(g, h) ==
    CASE kind = "cuckoo" -> CuckooClass(f, g) = CuckooClass(f, h)
      [] kind = "vacuum" -> Vacuum!VacuumClass(f, g) = Vacuum!VacuumClass(f, h)
      [] OTHER           -> g = h
ClassOf(h) == CHOOSE g \in hashes : SameClass(g, h) /\ \A k \in hashes : SameClass(k, h) => g <= k

Init ==
    \E c \in Configs :
        /\ kind = c.kind /\ hashes = c.hashes /\ threads = c.threads
        /\ most = c.most /\ spare = c.spare
        /\ f = Created(c)
        /\ lock = 0
        /\ pc = [t \in c.threads |-> "idle"]
        /\ call = [t \in c.threads |-> [op |-> "none", hash |-> 0]]
        /\ seen = [t \in c.threads |-> Created(c)]
        /\ held = [h \in c.hashes |-> 0]

-----------------------------------------------------------------------------
Goto(t, l) == pc' = [pc EXCEPT ![t] = l]
\* calls a client may make
Calls ==
    {[op |-> "lookup", hash |-> h] : h \in hashes}
    \cup {[op |-> "insert", hash |-> h] : h \in {g \in hashes : held[ClassOf(g)] < most}}
    \cup {[op |-> "delete", hash |-> h] : h \in {g \in hashes : held[ClassOf(g)] > spare}}

\* the exchange that found the lock free; the others spin
AcquireAnyway(t) ==
    /\ pc[t] = "idle"
    /\ lock' = 1
    /\ \E c \in Calls : call' = [call EXCEPT ![t] = c]
    /\ Goto(t, "read")
    /\ UNCHANGED <<config, f, seen, held>>
Acquire(t) ==
    /\ pc[t] = "idle"
    /\ lock = 0
    /\ lock' = 1
    /\ \E c \in Calls : call' = [call EXCEPT ![t] = c]
    /\ Goto(t, "read")
    /\ UNCHANGED <<config, f, seen, held>>

ReadFilter(t) ==
    /\ pc[t] = "read"
    /\ seen' = [seen EXCEPT ![t] = f]
    /\ Goto(t, "write")
    /\ UNCHANGED <<config, f, lock, call, held>>

\* call c, made on the filter g, has written what it had to
Completed(g, c) ==
    \/ c.op = "lookup" /\ UNCHANGED <<f, held>>
    \/ /\ c.op = "insert" /\ MapThenSumSet(LAMBDA h : held[h], hashes) < MaxHeld
       /\ \E r \in {Inserted(g, c.hash)} :
              /\ f' = r.f
              /\ held' = IF r.ok THEN [held EXCEPT ![ClassOf(c.hash)] = @ + 1] ELSE held
    \/ /\ c.op = "delete"
       /\ \E r \in {Removed(g, c.hash)} :
              /\ f' = r.f
              /\ held' = IF r.ok THEN [held EXCEPT ![ClassOf(c.hash)] = @ - 1] ELSE held

WriteFilter(t) ==
    /\ pc[t] = "write"
    /\ Completed(seen[t], call[t])
    /\ Goto(t, "release")
    /\ UNCHANGED <<config, lock, call, seen>>

Release(t) ==
    /\ pc[t] = "release"
    /\ lock' = 0
    /\ Goto(t, "idle")
    /\ call' = [call EXCEPT ![t] = [op |-> "none", hash |-> 0]]
    /\ seen' = [seen EXCEPT ![t] = Cleared(f)]
    /\ UNCHANGED <<config, f, held>>

\* a filter without the wrapper has one caller
Direct ==
    /\ threads = {}
    /\ \E c \in Calls : Completed(f, c)
    /\ UNCHANGED <<config, lock, pc, call, seen>>

\* not in the wrapper: the owner resets the filter when nobody uses it
Reset ==
    /\ \A t \in threads : pc[t] = "idle"
    /\ f' = Cleared(f)
    /\ held' = [h \in hashes |-> 0]
    /\ UNCHANGED <<config, lock, pc, call, seen>>

\* the owner of a counting filter replaces it by one of twice the size, as long
\* as quotient and remainder keep all of a hash, or by its union with itself
Grow ==
    /\ kind = "cqf" /\ f.num_slots < MaxSlots
    /\ \A h \in hashes : h < f.num_slots * 2^f.rbits
    /\ f' = Cqf!cqf_filter_resize(f, 2 * f.num_slots).f
    /\ UNCHANGED <<config, lock, pc, call, seen, held>>
Merge ==
    /\ kind = "cqf"
    /\ \A h \in hashes : 2 * held[h] <= most
    /\ 2 * f.count <= MaxHeld
    /\ \E r \in {Cqf!cqf_filter_merge(f, f)} :
        /\ f' = r.f
        /\ held' = IF r.ok THEN [h \in hashes |-> 2 * held[h]] ELSE held
    /\ UNCHANGED <<config, lock, pc, call, seen>>

Next == \/ Direct \/ Reset \/ Grow \/ Merge
        \/ \E t \in threads : Acquire(t) \/ ReadFilter(t) \/ WriteFilter(t) \/ Release(t)
Spec == Init /\ [][Next]_vars

-----------------------------------------------------------------------------
\* Every variable has its type; the lock is 0 when everybody is idle.
TypeOK ==
    /\ lock \in {0, 1}
    /\ \A t \in threads : pc[t] \in {"idle", "read", "write", "release"}
    /\ \A h \in hashes : held[h] \in 0 .. MaxHeld
    /\ f.count \in 0 .. MaxHeld
    /\ (\A t \in threads : pc[t] = "idle") => lock = 0

\* No false negatives: what was inserted, and not deleted as often, is found,
\* whatever evictions, rollbacks, shifts and deletions of other items have
\* moved since.
\* A counting filter counts no item short, resized and merged ones included.
NeverForgets ==
    \A h \in hashes : held[ClassOf(h)] > 0 =>
        /\ Has(f, h)
        /\ kind = "cqf" => Cqf!cqf_filter_count_occurrences(f, h) >= held[h]

\* The cuckoo and the vacuum filter find nothing else: a hash is found only
\* if a hash with its fingerprint and its two buckets is held.
TellsApart ==
    kind \in {"cuckoo", "vacuum"} => \A h \in hashes : Has(f, h) => held[ClassOf(h)] > 0

\* count is the number of items inserted and not deleted: no update of a
\* thread is lost to another, no rollback or delete miscounts; and every
\* variable has its type.
CountAgrees ==
    /\ TypeOK
    /\ f.count = MapThenSumSet(LAMBDA h : held[h], hashes)
    /\ kind = "cqf" => Cqf!cqf_filter_validate(f)

\* An insert is refused for a reason and without a trace: the filter is as
\* it was, although entries may have moved before the insert gave up, and in
\* a cuckoo or vacuum filter both buckets of the hash are full.
RefusalsClean ==
    \A h \in hashes : \E r \in {Inserted(f, h)} : ~ r.ok =>
        /\ r.f = f
        /\ kind = "cuckoo" => ~ CfHas(f, CfIndex1(f, h), 0) /\ ~ CfHas(f, CfIndex2(f, h), 0)
        /\ kind = "vacuum" => ~ Vacuum!VfHas(f, Vacuum!VfIndex1(f, h), 0)
                              /\ ~ Vacuum!VfHas(f, Vacuum!VfIndex2(f, h), 0)
=============================================================================
