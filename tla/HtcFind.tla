------------------------------- MODULE HtcFind -------------------------------
(***************************************************************************)
(* The lock-free side of the concurrent table (src/src/htc.c): htc_find    *)
(* with its filter, front cache, sequence-validated bucket scans, remap    *)
(* hint and the two stashes (the shard's, and the table's own into which a *)
(* grow spills), and htc_update, against one writer that inserts, upserts, *)
(* removes, displaces and reclaims.                                        *)
(*                                                                         *)
(* A step of a reader is one atomic load (or store) of the code, a step of *)
(* the writer one store.  What the writer decides it decides under its     *)
(* shard locks (HtcWriters), so it computes the list of its stores when it *)
(* begins and `todo' holds those still to come.  One generation; HtcEpoch  *)
(* is abstracted to what it guarantees with one writer: a record is freed  *)
(* when no reader that was pinned at its retirement still is.              *)
(***************************************************************************)
EXTENDS Integers, Sequences, FiniteSets, SequencesExt

CONSTANTS
    Readers, Keys,
    Configs,        \* tables: front, reclaim : BOOLEAN; filter : capacity of the filter;
                    \* place: the keys' buckets and tags; spilled: the key that a grow
                    \* left in the table's stash, or NoKey; oom: the free list may be
                    \* refused memory; writes, calls: the keys of each operation of the
                    \* writer and of the readers; ops: a bound on the former
    Records,        \* 0 .. n - 1: arena indices
    BlockSize,      \* HTC_ARENA_BLOCK_SIZE
    StashMax,       \* HTC_STASH_MAX
    FreeInitial,    \* the free list's first capacity
    Saturated,      \* HTC_REMAP_SATURATED; remap_count has Saturated + 1 values
    NoKey

ASSUME FindConstants ==
    /\ BlockSize \in Nat \ {0} /\ StashMax \in Nat \ {0} /\ Saturated \in Nat \ {0}
    /\ FreeInitial \in Nat \ {0}
    /\ Records = 0 .. Cardinality(Records) - 1
    /\ NoKey \notin Keys

VARIABLES
    conf,           \* the table's configuration and the keys' placement
    slot,           \* [bucket -> Word]: a bucket has one slot
    ctrl,           \* [bucket -> tag, 0 when empty]: ctrl_tags
    seq,            \* [bucket -> Nat]: odd while the bucket is busy
    remap_count, remap_filter,
    stash,          \* ["shard" and "table" -> [1 .. StashMax -> Word]]
    live_count,     \* [the two stashes -> Nat]
    recs,           \* [Records -> identity, value, flags, generation], in the
                    \* order in which their blocks were allocated
    free_idx, free_cap, count,
    given_up,       \* history: the records whose index the free list had no room for
    retired,        \* [idx, holders]: holders were pinned at the retirement
    filter,         \* the keys the filter holds
    todo, wop,      \* the writer's remaining stores, its operation
    ops,
    rd,             \* [Readers -> the reader's program counter and locals]
    cache,          \* [Readers -> the one entry of htc_thread_cache]
    rec_of,         \* history: [Keys -> record of the entry, -1 when absent]
    saw             \* history: [Readers -> states of its key since the call began]

index == <<slot, ctrl, seq, remap_count, remap_filter, stash, live_count>>
freelist == <<free_idx, free_cap, given_up>>
arena == <<recs, freelist, count, retired>>
writer == <<todo, wop, ops>>
readers == <<rd, cache>>
vars == <<conf, index, arena, filter, writer, readers, rec_of, saw>>

\* The records that rd and wop hold between calls, so that locals of a
\* finished call do not tell states apart.
IdleReader == [pc |-> "idle", op |-> "none", key |-> NoKey, at |-> "primary", s0 |-> 0,
               idx |-> 0, gen |-> 0, val |-> <<NoKey, 0>>, left |-> 0]
IdleWriter == [op |-> "none", key |-> NoKey, idx |-> 0, moved |-> NoKey]

Stashes == {"shard", "table"}

\* htc_slot_pack and htc_slot_empty_word: the empty word names record 0
Word(i, k, sec) == [idx |-> i, tag |-> conf.place[k].tag, live |-> TRUE, sec |-> sec]
EmptyWord == [idx |-> 0, tag |-> 0, live |-> FALSE, sec |-> FALSE]

\* htc_arena_ptr counts blocks from the head of the chain, where a new block
\* is put: the place of index i among the records of n blocks.
BlocksFor(n) == (n + BlockSize - 1) \div BlockSize
Place(i, n) == (BlocksFor(n) - 1 - i \div BlockSize) * BlockSize + (i % BlockSize)
Ptr(i) == Place(i, count)
Rec(i) == recs[Ptr(i)]

\* user_value: the key it was stored for and the operation that stored it
Inserted(k) == <<k, 1>>
Upserted(k) == <<k, 2>>
Updated(k) == <<k, 3>>

B1(k) == conf.place[k].b1
B2(k) == conf.place[k].b2
Tag(k) == conf.place[k].tag
BucketsOf(c) == UNION {{c.place[k].b1, c.place[k].b2} : k \in Keys}

\* What a grow that spilled conf.spilled into the table's stash leaves when
\* the other keys were removed since: record SpilledRecord is that key's, the
\* others are free.  The arena of a new table is empty.
SpilledRecord == 1
Spilled == conf.spilled # NoKey
FirstWord(st) ==
    IF st = "table" /\ Spilled THEN Word(SpilledRecord, conf.spilled, FALSE) ELSE EmptyWord
FirstRecord(i) ==
    [identity |-> IF Spilled /\ i = SpilledRecord THEN conf.spilled ELSE NoKey,
     value |-> IF Spilled /\ i = SpilledRecord THEN Inserted(conf.spilled) ELSE <<NoKey, 0>>,
     flags |-> IF Spilled /\ i # SpilledRecord THEN 1 ELSE 0,
     generation |-> IF Spilled /\ i # SpilledRecord THEN 1 ELSE 0]
FirstFree == IF Spilled THEN SetToSeq(Records \ {SpilledRecord}) ELSE <<>>

Init ==
    /\ conf \in Configs
    /\ slot = [b \in BucketsOf(conf) |-> EmptyWord]
    /\ ctrl = [b \in BucketsOf(conf) |-> 0]
    /\ seq = [b \in BucketsOf(conf) |-> 0]
    /\ remap_count = [b \in BucketsOf(conf) |-> 0]
    /\ remap_filter = [b \in BucketsOf(conf) |-> {}]
    /\ stash = [st \in Stashes |->
            [i \in 1 .. StashMax |-> IF i = 1 THEN FirstWord(st) ELSE EmptyWord]]
    /\ live_count = [st \in Stashes |-> IF st = "table" /\ Spilled THEN 1 ELSE 0]
    /\ recs = [i \in Records |-> FirstRecord(i)]
    /\ free_idx = FirstFree /\ free_cap = Len(FirstFree) /\ given_up = {}
    /\ count = IF Spilled THEN Cardinality(Records) ELSE 0
    /\ retired = {}
    /\ filter = {conf.spilled} \ {NoKey}
    /\ todo = <<>> /\ wop = IdleWriter /\ ops = 0
    /\ rd = [r \in Readers |-> IdleReader]
    /\ cache = [r \in Readers |-> [hash |-> NoKey, idx |-> 0, gen |-> 0]]
    /\ rec_of = [k \in Keys |-> IF k = conf.spilled THEN SpilledRecord ELSE -1]
    /\ saw = [r \in Readers |-> {}]
-----------------------------------------------------------------------------
\* What a key is: its value, or <<k, 0>> when absent, <<k, -1>> while an
\* operation changes that; <<k, -2>> while a displacement moves its entry.
StatesOf(k, w, rec, rs, n) ==
    {IF w.op \in {"insert", "remove"} /\ w.key = k THEN <<k, -1>>
     ELSE IF rec[k] = -1 THEN <<k, 0>> ELSE rs[Place(rec[k], n)].value}
    \cup (IF w.moved = k THEN {<<k, -2>>} ELSE {})
Watch == saw' = [r \in Readers |->
    CASE rd'[r].pc = "idle" -> {}
      [] rd[r].pc = "done" -> saw[r]
      [] OTHER -> saw[r] \cup StatesOf(rd'[r].key, wop', rec_of', recs', count')]
-----------------------------------------------------------------------------
(* What the writer decides under its locks: the stores of an operation.    *)

SeqBegin(b) == [do |-> "begin", b |-> b]
SeqEnd(b) == [do |-> "end", b |-> b]
SetSlot(b, w) == [do |-> "slot", b |-> b, w |-> w]
SetCtrl(b, t) == [do |-> "ctrl", b |-> b, tag |-> t]
RemapInc(b, t) == <<[do |-> "mark", b |-> b, tag |-> t], [do |-> "inc", b |-> b]>>
RemapDec(b) == <<[do |-> "dec", b |-> b]>>
Flag(i) == [do |-> "flag", idx |-> i]
SetValue(i, v) == [do |-> "value", idx |-> i, v |-> v]
SetStash(st, i, w) == [do |-> "stash", st |-> st, i |-> i, w |-> w]
AddLive(st, n) == [do |-> "live", st |-> st, n |-> n]
Done == [do |-> "done"]

\* seq_begin(b1) and, when it is another bucket, seq_begin(b2); so the ends
BeginBoth(k) == IF B1(k) = B2(k) THEN <<SeqBegin(B1(k))>> ELSE <<SeqBegin(B1(k)), SeqBegin(B2(k))>>
EndBoth(k) == IF B1(k) = B2(k) THEN <<SeqEnd(B1(k))>> ELSE <<SeqEnd(B1(k)), SeqEnd(B2(k))>>
Vacant(b) == ~slot[b].live
VacantStash == {i \in 1 .. StashMax : ~stash["shard"][i].live}
Least(S) == CHOOSE i \in S : \A j \in S : i <= j

\* htc_bucket_scan in its two modes and htc_stash_find, as a writer makes
\* them: nobody else changes the buckets and the stashes meanwhile
Holds(w, k) == w.live /\ w.tag = Tag(k) /\ Rec(w.idx).identity = k /\ Rec(w.idx).flags = 0
MustCheckSecondary(b, t) ==
    remap_count[b] # 0 /\ (remap_count[b] = Saturated \/ t \in remap_filter[b])
InPrimary(k) ==
    ctrl[B1(k)] = Tag(k) /\ Holds(slot[B1(k)], k) /\ ~slot[B1(k)].sec
InSecondary(k) ==
    /\ MustCheckSecondary(B1(k), Tag(k))
    /\ ctrl[B2(k)] = Tag(k) /\ Holds(slot[B2(k)], k) /\ slot[B2(k)].sec
StashSlots(st, k) == {i \in 1 .. StashMax : Holds(stash[st][i], k)}
InStash(st, k) == live_count[st] # 0 /\ StashSlots(st, k) # {}
StashWord(st, k) == stash[st][Least(StashSlots(st, k))]

PrimaryStores(k, i) ==
    BeginBoth(k) \o <<SetSlot(B1(k), Word(i, k, FALSE)), SetCtrl(B1(k), Tag(k))>>
        \o EndBoth(k)

\* mutant: the hint is raised after the entry was published
SecondaryHintLate(k, i) ==
    BeginBoth(k) \o <<SetSlot(B2(k), Word(i, k, TRUE)), SetCtrl(B2(k), Tag(k))>>
        \o EndBoth(k) \o RemapInc(B1(k), Tag(k))
SecondaryStores(k, i) ==
    BeginBoth(k) \o RemapInc(B1(k), Tag(k))
        \o <<SetSlot(B2(k), Word(i, k, TRUE)), SetCtrl(B2(k), Tag(k))>> \o EndBoth(k)

StashStores(k, i) ==
    BeginBoth(k) \o EndBoth(k)
        \o <<SetStash("shard", Least(VacantStash), Word(i, k, FALSE)), AddLive("shard", 1)>>

\* The other bucket of the entry in b, and the paths of one move: an entry of
\* one of the key's buckets whose other bucket is empty.
Other(b) == LET k == Rec(slot[b].idx).identity IN IF b = B1(k) THEN B2(k) ELSE B1(k)
Moves(k) == {b \in {B1(k), B2(k)} : slot[b].live /\ Vacant(Other(b))}
Mover(b) == Rec(slot[b].idx).identity

\* commit_path_locked for such a path, after the buckets were found full
PathStores(k, i, b) ==
    LET m == Mover(b)
        to == Other(b)
        sec == to # B1(m)
        touched == <<b, to>> \o (IF B1(k) \in {b, to} THEN <<>> ELSE <<B1(k)>>)
    IN BeginBoth(k) \o EndBoth(k)
        \o [j \in 1 .. Len(touched) |-> SeqBegin(touched[j])]
        \o <<SetSlot(to, Word(slot[b].idx, m, sec)), SetSlot(b, EmptyWord),
             SetSlot(b, Word(i, k, b # B1(k))),
             SetCtrl(to, Tag(m)), SetCtrl(b, 0), SetCtrl(b, Tag(k))>>
        \o (IF sec THEN RemapInc(B1(m), Tag(m)) ELSE RemapDec(B1(m)))
        \o (IF b # B1(k) THEN RemapInc(B1(k), Tag(k)) ELSE <<>>)
        \o [j \in 1 .. Len(touched) |-> SeqEnd(touched[j])]

RemovePrimaryStores(k) ==
    <<SeqBegin(B1(k)), Flag(slot[B1(k)].idx), SetSlot(B1(k), EmptyWord), SetCtrl(B1(k), 0),
      SeqEnd(B1(k))>>

\* mutant: the guard of the primary bucket is not released
RemoveKeepsGuard(k) ==
    <<SeqBegin(B1(k)), SeqBegin(B2(k)), Flag(slot[B2(k)].idx), SetSlot(B2(k), EmptyWord),
      SetCtrl(B2(k), 0), SeqEnd(B2(k))>> \o RemapDec(B1(k))
RemoveSecondaryStores(k) ==
    <<SeqBegin(B1(k)), SeqBegin(B2(k)), Flag(slot[B2(k)].idx), SetSlot(B2(k), EmptyWord),
      SetCtrl(B2(k), 0), SeqEnd(B2(k))>> \o RemapDec(B1(k)) \o <<SeqEnd(B1(k))>>

RemoveStashStores(st, k) ==
    <<Flag(StashWord(st, k).idx), SetStash(st, Least(StashSlots(st, k)), EmptyWord), AddLive(st, -1)>>
-----------------------------------------------------------------------------
(* The writer.                                                             *)

\* htc_arena_alloc: a freed record is used again, the last freed first
CanAlloc == free_idx # <<>> \/ count < Cardinality(Records)
NextRecord == IF free_idx # <<>> THEN Last(free_idx) ELSE count
ArenaAlloc(k) ==
    /\ recs' = [recs EXCEPT ![Place(NextRecord, IF free_idx # <<>> THEN count ELSE count + 1)] =
            [identity |-> k, value |-> Inserted(k), flags |-> 0,
             generation |-> IF free_idx # <<>> THEN @.generation + 1 ELSE @.generation]]
    /\ IF free_idx # <<>> THEN free_idx' = Front(free_idx) /\ count' = count
                          ELSE free_idx' = free_idx /\ count' = count + 1
    /\ UNCHANGED <<free_cap, given_up, retired>>

Start(o, k, i, moved, stores) ==
    /\ todo = <<>> /\ ops < conf.ops /\ o \in DOMAIN conf.writes /\ k \in conf.writes[o]
    /\ ops' = ops + 1
    /\ todo' = stores \o <<Done>>
    /\ wop' = [op |-> o, key |-> k, idx |-> i, moved |-> moved]
    /\ UNCHANGED <<conf, index, filter, readers>>

\* htc_insert of a key that its scans do not find: the table's own stash is
\* not among the places it looks at
StartInsert(k, moved, stores) ==
    /\ ~InPrimary(k) /\ ~InSecondary(k) /\ ~InStash("shard", k) /\ CanAlloc
    /\ ArenaAlloc(k)
    /\ Start("insert", k, NextRecord, moved, stores)
    /\ UNCHANGED rec_of /\ Watch

InsertPrimary(k) ==
    Vacant(B1(k)) /\ StartInsert(k, NoKey, PrimaryStores(k, NextRecord))
InsertSecondary(k) ==
    ~Vacant(B1(k)) /\ Vacant(B2(k)) /\ StartInsert(k, NoKey, SecondaryStores(k, NextRecord))
InsertDisplacing(k) ==
    /\ ~Vacant(B1(k)) /\ ~Vacant(B2(k))
    /\ \E b \in Moves(k) : StartInsert(k, Mover(b), PathStores(k, NextRecord, b))
InsertStash(k) ==
    /\ ~Vacant(B1(k)) /\ ~Vacant(B2(k)) /\ Moves(k) = {} /\ VacantStash # {}
    /\ StartInsert(k, NoKey, StashStores(k, NextRecord))

\* htc_upsert of a key that is there, htc_remove: the places in the order in
\* which they are looked at
Entry(k) ==
    CASE InPrimary(k) -> slot[B1(k)]
      [] ~InPrimary(k) /\ InSecondary(k) -> slot[B2(k)]
      [] ~InPrimary(k) /\ ~InSecondary(k) /\ InStash("shard", k) -> StashWord("shard", k)
      [] ~InPrimary(k) /\ ~InSecondary(k) /\ ~InStash("shard", k) /\ InStash("table", k) ->
            StashWord("table", k)
      [] OTHER -> EmptyWord
UpsertStart(k) ==
    \E w \in {Entry(k)} :
    /\ w.live
    /\ Start("upsert", k, w.idx, NoKey, <<SetValue(w.idx, Upserted(k))>>)
    /\ UNCHANGED <<arena, rec_of>> /\ Watch

RemoveStores(k) ==
    CASE InPrimary(k) -> RemovePrimaryStores(k)
      [] ~InPrimary(k) /\ InSecondary(k) -> RemoveSecondaryStores(k)
      [] ~InPrimary(k) /\ ~InSecondary(k) /\ InStash("shard", k) -> RemoveStashStores("shard", k)
      [] OTHER -> RemoveStashStores("table", k)
RemoveStart(k) ==
    \E w \in {Entry(k)} :
    /\ w.live
    /\ Start("remove", k, w.idx, NoKey, RemoveStores(k))
    /\ rec_of' = [rec_of EXCEPT ![k] = -1]
    /\ UNCHANGED arena /\ Watch

\* One store of the operation; the rest of the state stays as it is.
Store(kind) == todo # <<>> /\ Head(todo).do = kind /\ todo' = Tail(todo)
Elsewhere == UNCHANGED <<conf, filter, wop, ops, readers, rec_of>> /\ Watch
IndexStore(kind) == Store(kind) /\ UNCHANGED arena /\ Elsewhere

\* htc_bucket_seq_begin and htc_bucket_seq_end; the bucket's busy bit is the
\* lowest of the counter
StoreSeq ==
    LET b == Head(todo).b IN
    /\ IndexStore("begin") \/ IndexStore("end")
    /\ seq' = [seq EXCEPT ![b] = @ + 1]
    /\ UNCHANGED <<slot, ctrl, remap_count, remap_filter, stash, live_count>>
StoreSlot ==
    /\ IndexStore("slot")
    /\ slot' = [slot EXCEPT ![Head(todo).b] = Head(todo).w]
    /\ UNCHANGED <<ctrl, seq, remap_count, remap_filter, stash, live_count>>
StoreCtrl ==
    /\ IndexStore("ctrl")
    /\ ctrl' = [ctrl EXCEPT ![Head(todo).b] = Head(todo).tag]
    /\ UNCHANGED <<slot, seq, remap_count, remap_filter, stash, live_count>>
StoreMark ==
    /\ IndexStore("mark")
    /\ remap_filter' = [remap_filter EXCEPT ![Head(todo).b] = @ \cup {Head(todo).tag}]
    /\ UNCHANGED <<slot, ctrl, seq, remap_count, stash, live_count>>

\* htc_remap_inc adds first and then, at the limit, stores the limit: from
\* the limit itself the addition wraps to zero
StoreInc ==
    LET b == Head(todo).b
        stick == IF remap_count[b] >= Saturated - 1 THEN <<[do |-> "stick", b |-> b]>> ELSE <<>>
    IN
    /\ todo # <<>> /\ Head(todo).do = "inc" /\ todo' = stick \o Tail(todo)
    /\ remap_count' = [remap_count EXCEPT ![b] = (@ + 1) % (Saturated + 1)]
    /\ UNCHANGED <<slot, ctrl, seq, remap_filter, stash, live_count, arena>> /\ Elsewhere
StoreStick ==
    /\ IndexStore("stick")
    /\ remap_count' = [remap_count EXCEPT ![Head(todo).b] = Saturated]
    /\ UNCHANGED <<slot, ctrl, seq, remap_filter, stash, live_count>>
AfterDec(c) == IF c \in {0, Saturated} THEN c ELSE c - 1
StoreDec ==
    /\ IndexStore("dec")
    /\ remap_count' = [remap_count EXCEPT ![Head(todo).b] = AfterDec(@)]
    /\ UNCHANGED <<slot, ctrl, seq, remap_filter, stash, live_count>>
StoreStash ==
    /\ IndexStore("stash")
    /\ stash' = [stash EXCEPT ![Head(todo).st][Head(todo).i] = Head(todo).w]
    /\ UNCHANGED <<slot, ctrl, seq, remap_count, remap_filter, live_count>>
StoreLive ==
    /\ IndexStore("live")
    /\ live_count' = [live_count EXCEPT ![Head(todo).st] = @ + Head(todo).n]
    /\ UNCHANGED <<slot, ctrl, seq, remap_count, remap_filter, stash>>
StoreFlag ==
    /\ Store("flag")
    /\ recs' = [recs EXCEPT ![Ptr(Head(todo).idx)].flags = 1]
    /\ UNCHANGED <<index, freelist, count, retired>> /\ Elsewhere
StoreValue ==
    /\ Store("value")
    /\ recs' = [recs EXCEPT ![Ptr(Head(todo).idx)].value = Head(todo).v]
    /\ UNCHANGED <<index, freelist, count, retired>> /\ Elsewhere
\* After the last store: the filter, which may be full, the retirement of a
\* removed record, and the locks are released.
Pinned == {r \in Readers : rd[r].pc \notin {"idle", "enter", "done"}}
FilterInsert(k) == IF Cardinality(filter) < conf.filter THEN filter \cup {k} ELSE filter
RetireNothing(i) == retired \* mutant
Retire(i) == retired \cup {[idx |-> i, holders |-> Pinned]}
Finish ==
    /\ Store("done")
    /\ wop' = IdleWriter
    /\ filter' = CASE wop.op = "insert" -> FilterInsert(wop.key)
                   [] wop.op = "remove" -> filter \ {wop.key}
                   [] OTHER -> filter
    /\ rec_of' = IF wop.op = "insert" THEN [rec_of EXCEPT ![wop.key] = wop.idx] ELSE rec_of
    /\ retired' = IF wop.op = "remove" THEN Retire(wop.idx) ELSE retired
    /\ UNCHANGED <<conf, index, recs, freelist, count, ops, readers>> /\ Watch

\* htc_arena_free of index i: a list without room grows, and when it cannot
\* the index is nowhere any more
ArenaFree(i) ==
    \/ /\ Len(free_idx) < free_cap
       /\ free_idx' = Append(free_idx, i) /\ UNCHANGED <<free_cap, given_up>>
    \/ /\ Len(free_idx) >= free_cap
       /\ free_cap' = IF free_cap = 0 THEN FreeInitial ELSE 2 * free_cap
       /\ free_idx' = Append(free_idx, i) /\ UNCHANGED given_up
    \/ /\ Len(free_idx) >= free_cap /\ conf.oom
       /\ given_up' = given_up \cup {i} /\ UNCHANGED <<free_idx, free_cap>>

\* htc_epoch_collect.  conf.reclaim is FALSE when a thread elsewhere stays
\* pinned, so that nothing retired is freed.
Collect(e) ==
    /\ conf.reclaim /\ todo = <<>> /\ e.holders \cap Pinned = {}
    /\ retired' = retired \ {e}
    /\ recs' = [recs EXCEPT ![Ptr(e.idx)] = [@ EXCEPT !.identity = NoKey, !.value = <<NoKey, 0>>,
                                                 !.generation = @ + 1]]
    /\ ArenaFree(e.idx)
    /\ UNCHANGED <<conf, index, count, filter, writer, readers, rec_of>> /\ Watch
-----------------------------------------------------------------------------
(* htc_find and htc_update.                                                *)

At(r, l) == rd[r].pc = l
Set(r, new) == rd' = [rd EXCEPT ![r] = new]
Goto(r, l) == Set(r, [rd[r] EXCEPT !.pc = l])
Reading == UNCHANGED <<conf, index, arena, filter, writer, cache, rec_of>> /\ Watch
NotFound == <<NoKey, 0>>
Answer(r, v) == Set(r, [IdleReader EXCEPT !.pc = "done", !.op = rd[r].op, !.key = rd[r].key, !.val = v])
Finding(r) == rd[r].op = "find"
Bucket(r) == IF rd[r].at = "primary" THEN B1(rd[r].key) ELSE B2(rd[r].key)
Quiet(b) == seq[b] % 2 = 0

Begin(r, o, k) ==
    /\ At(r, "idle")
    /\ Set(r, [IdleReader EXCEPT !.pc = "enter", !.op = o, !.key = k])
    /\ Reading

\* htc_epoch_pin, then for a find the filter and the front cache
Enter(r) ==
    /\ At(r, "enter")
    /\ CASE ~Finding(r) -> Goto(r, "ctrl")
         [] Finding(r) /\ rd[r].key \notin filter -> Answer(r, NotFound)
         [] OTHER -> Goto(r, IF conf.front THEN "cache" ELSE "seq")
    /\ Reading

\* htc_front_cache_lookup: generation and identity, flags, value, flags
CacheValid(c, k) ==
    /\ c.hash = k /\ c.idx < count
    /\ Rec(c.idx).generation = c.gen
    /\ Rec(c.idx).identity = k
CacheLookup(r) ==
    /\ At(r, "cache")
    /\ IF CacheValid(cache[r], rd[r].key)
       THEN Set(r, [rd[r] EXCEPT !.pc = "cache_flags", !.idx = cache[r].idx])
       ELSE Goto(r, "seq")
    /\ Reading
CacheFlags(r) ==
    /\ At(r, "cache_flags")
    /\ Goto(r, IF Rec(rd[r].idx).flags = 0 THEN "cache_value" ELSE "seq")
    /\ Reading
CacheValue(r) ==
    /\ At(r, "cache_value")
    /\ Set(r, [rd[r] EXCEPT !.pc = "cache_again", !.val = Rec(rd[r].idx).value])
    /\ Reading
CacheFlagsAgain(r) ==
    /\ At(r, "cache_again")
    /\ IF Rec(rd[r].idx).flags = 0 THEN Answer(r, rd[r].val) ELSE Goto(r, "seq")
    /\ Reading

\* htc_bucket_scan_seq for a find; htc_bucket_scan, which has no sequence
\* numbers, for an update
ScanSeq(r) ==
    /\ At(r, "seq") /\ Quiet(Bucket(r))
    /\ Set(r, [rd[r] EXCEPT !.pc = "ctrl", !.s0 = seq[Bucket(r)]])
    /\ Reading

\* where a scan that found nothing goes on
NextPlace(l) ==
    CASE l.at = "primary" -> [l EXCEPT !.pc = IF l.op = "find" THEN "remap" ELSE "must_check"]
      [] OTHER -> [l EXCEPT !.pc = "stash", !.at = "shard"]
Scanned(r, hit) ==
    Set(r, IF Finding(r) THEN [rd[r] EXCEPT !.pc = IF hit THEN "hit" ELSE "miss"]
           ELSE IF hit THEN [rd[r] EXCEPT !.pc = "reload"] ELSE NextPlace(rd[r]))
ScanCtrl(r) ==
    /\ At(r, "ctrl")
    /\ IF ctrl[Bucket(r)] = Tag(rd[r].key) THEN Goto(r, "slot") ELSE Scanned(r, FALSE)
    /\ Reading
MatchesTag(w, k) == w.live /\ w.tag = Tag(k) \* mutant: the identity is not compared
Matches(w, k) == w.live /\ w.tag = Tag(k) /\ Rec(w.idx).identity = k
ScanSlot(r) ==
    LET w == slot[Bucket(r)] IN
    /\ At(r, "slot")
    /\ IF Matches(w, rd[r].key) /\ w.sec = (rd[r].at = "secondary")
       THEN Set(r, [rd[r] EXCEPT !.pc = "flags", !.idx = w.idx])
       ELSE Scanned(r, FALSE)
    /\ Reading
ScanFlags(r) ==
    /\ At(r, "flags")
    /\ Scanned(r, Rec(rd[r].idx).flags = 0)
    /\ Reading
\* mutant: the sequence number is not looked at again
Unvalidated(r, b) == TRUE
Unchanged(r, b) == seq[b] = rd[r].s0
Validate(r) ==
    /\ At(r, "hit") \/ At(r, "miss")
    /\ CASE ~Unchanged(r, Bucket(r)) -> Goto(r, "seq")
         [] Unchanged(r, Bucket(r)) /\ At(r, "hit") -> Goto(r, "reload")
         [] OTHER -> Set(r, NextPlace(rd[r]))
    /\ Reading

\* The remap hint of the primary bucket, validated by a find only
RemapSeq(r) ==
    /\ At(r, "remap") /\ Quiet(B1(rd[r].key))
    /\ Set(r, [rd[r] EXCEPT !.pc = "must_check", !.s0 = seq[B1(rd[r].key)]])
    /\ Reading
Decided(r, check) ==
    IF check THEN Set(r, [rd[r] EXCEPT !.at = "secondary", !.pc = IF Finding(r) THEN "seq" ELSE "ctrl"])
             ELSE Set(r, [rd[r] EXCEPT !.at = "shard", !.pc = "stash"])
MustCheck(r) ==
    LET check == MustCheckSecondary(B1(rd[r].key), Tag(rd[r].key)) IN
    /\ At(r, "must_check")
    /\ IF Finding(r) THEN Set(r, [rd[r] EXCEPT !.pc = "remap_end", !.left = IF check THEN 1 ELSE 0])
                     ELSE Decided(r, check)
    /\ Reading
RemapEnd(r) ==
    /\ At(r, "remap_end")
    /\ IF Unchanged(r, B1(rd[r].key)) THEN Decided(r, rd[r].left = 1) ELSE Goto(r, "remap")
    /\ Reading

\* htc_stash_find of the shard's stash, then of the table's; `left' is the
\* slot it looks at
NotInStash(r) ==
    IF rd[r].at = "shard" THEN Set(r, [rd[r] EXCEPT !.pc = "stash", !.at = "table"])
                          ELSE Answer(r, NotFound)
StashNext(r, i) ==
    IF i > StashMax THEN NotInStash(r)
                    ELSE Set(r, [rd[r] EXCEPT !.pc = "stash_slot", !.left = i])
StashCount(r) ==
    /\ At(r, "stash")
    /\ IF live_count[rd[r].at] = 0 THEN NotInStash(r) ELSE StashNext(r, 1)
    /\ Reading
StashSlot(r) ==
    LET w == stash[rd[r].at][rd[r].left] IN
    /\ At(r, "stash_slot")
    /\ IF Matches(w, rd[r].key)
       THEN Set(r, [rd[r] EXCEPT !.pc = "stash_flags", !.idx = w.idx])
       ELSE StashNext(r, rd[r].left + 1)
    /\ Reading
StashFlags(r) ==
    /\ At(r, "stash_flags")
    /\ IF Rec(rd[r].idx).flags = 0 THEN Goto(r, "reload") ELSE StashNext(r, rd[r].left + 1)
    /\ Reading

\* The slot is loaded a second time, and its record used.  A find loads it
\* from the stash it was found in; an update loads a slot of the shard's
\* stash, also when the entry was found in the table's.
Reloaded(r) ==
    CASE rd[r].at \in {"primary", "secondary"} -> slot[Bucket(r)]
      [] rd[r].at \in Stashes /\ Finding(r) -> stash[rd[r].at][rd[r].left]
      [] OTHER -> stash["shard"][rd[r].left]
Reload(r) ==
    /\ At(r, "reload")
    /\ Set(r, [rd[r] EXCEPT !.pc = IF Finding(r) THEN "value" ELSE "store", !.idx = Reloaded(r).idx])
    /\ Reading
LoadValue(r) ==
    /\ At(r, "value")
    /\ Set(r, [rd[r] EXCEPT !.pc = "again", !.gen = Rec(rd[r].idx).generation,
                            !.val = Rec(rd[r].idx).value])
    /\ Reading
FlagsAgain(r) ==
    /\ At(r, "again")
    /\ IF Rec(rd[r].idx).flags = 0
       THEN /\ Answer(r, rd[r].val)
            /\ cache' = [cache EXCEPT ![r] = [hash |-> rd[r].key, idx |-> rd[r].idx, gen |-> rd[r].gen]]
       ELSE /\ Set(r, [IdleReader EXCEPT !.pc = "enter", !.op = rd[r].op, !.key = rd[r].key])
            /\ cache' = cache
    /\ UNCHANGED <<conf, index, arena, filter, writer, rec_of>> /\ Watch
UpdateStore(r) ==
    /\ At(r, "store")
    /\ recs' = [recs EXCEPT ![Ptr(rd[r].idx)].value = Updated(rd[r].key)]
    /\ Answer(r, Updated(rd[r].key))
    /\ UNCHANGED <<conf, index, freelist, count, retired, filter, writer, cache, rec_of>> /\ Watch
Return(r) == At(r, "done") /\ Set(r, IdleReader) /\ Reading
-----------------------------------------------------------------------------
WriterStep ==
    \/ \E k \in Keys : \/ InsertPrimary(k) \/ InsertSecondary(k) \/ InsertDisplacing(k)
                       \/ InsertStash(k) \/ UpsertStart(k) \/ RemoveStart(k)
    \/ StoreSeq \/ StoreSlot \/ StoreCtrl \/ StoreMark \/ StoreInc \/ StoreStick \/ StoreDec
    \/ StoreStash \/ StoreLive \/ StoreFlag \/ StoreValue \/ Finish
    \/ \E e \in retired : Collect(e)
ReaderStep(r) ==
    \/ Enter(r) \/ CacheLookup(r) \/ CacheFlags(r) \/ CacheValue(r) \/ CacheFlagsAgain(r)
    \/ ScanSeq(r) \/ ScanCtrl(r) \/ ScanSlot(r) \/ ScanFlags(r) \/ Validate(r)
    \/ RemapSeq(r) \/ MustCheck(r) \/ RemapEnd(r)
    \/ StashCount(r) \/ StashSlot(r) \/ StashFlags(r)
    \/ Reload(r) \/ LoadValue(r) \/ FlagsAgain(r) \/ UpdateStore(r) \/ Return(r)
Call(r) == \E o \in DOMAIN conf.calls : \E k \in conf.calls[o] : Begin(r, o, k)

Next == WriterStep \/ \E r \in Readers : ReaderStep(r) \/ Call(r)
Spec == Init /\ [][Next]_vars
-----------------------------------------------------------------------------
\* Every variable has its type.
TypeOK ==
    /\ \A b \in BucketsOf(conf) : seq[b] \in Nat /\ remap_count[b] \in 0 .. Saturated
    /\ \A st \in Stashes : live_count[st] \in 0 .. StashMax
    /\ Len(free_idx) <= free_cap /\ given_up \subseteq Records /\ count \in 0 .. Cardinality(Records)
    /\ \A i \in Records : recs[i].identity \in Keys \cup {NoKey} /\ recs[i].flags \in {0, 1}
    /\ filter \subseteq Keys
    /\ \A r \in Readers : rd[r].idx \in Records /\ rd[r].key \in Keys \cup {NoKey}

\* A find whose key is not inserted, removed or moved during the call agrees
\* with the table: it answers with a value the key had meanwhile, or
\* NOT_FOUND when it was absent (htc.h: "find(H): returns HTC_OK with value,
\* or HTC_ERR_NOT_FOUND").
FindAgrees == \A r \in Readers :
    At(r, "done") /\ Finding(r) /\ saw[r] \cap {<<rd[r].key, -1>>, <<rd[r].key, -2>>} = {} =>
        IF rd[r].val = NotFound THEN <<rd[r].key, 0>> \in saw[r] ELSE rd[r].val \in saw[r]

\* The same for an update: what it stores goes into the record of its key.
\* This needs the entry to be elsewhere than in the table's own stash: from
\* there htc_update (htc.c:2888) takes the slot of the shard's stash that has
\* the same number, and with it the record of another key, or record 0.
UpdateAgrees == \A r \in Readers :
    At(r, "store") /\ saw[r] \cap {<<rd[r].key, -1>>, <<rd[r].key, -2>>} = {} =>
        rd[r].idx = rec_of[rd[r].key]

\* While a bucket's sequence number is even, its control tag describes its
\* slot, and the remap hint of a key's primary bucket leads to its entry in
\* the secondary one: what a validated scan relies on.
QuietAgrees == \A b \in BucketsOf(conf) : Quiet(b) =>
    /\ ctrl[b] = slot[b].tag
    /\ \A k \in Keys : B1(k) = b /\ Holds(slot[B2(k)], k) /\ slot[B2(k)].sec =>
            MustCheckSecondary(b, Tag(k))

\* The writer leaves no bucket busy behind, on which every later find of a
\* key of that bucket would spin.
LeftQuiet == todo = <<>> => \A b \in BucketsOf(conf) : Quiet(b)

\* Every record handed out is in one place: the entry of a key, the entry
\* the writer is about to make or has taken away, the retired list, the free
\* list, or nowhere, given up because the free list was full and refused the
\* memory to grow (htc.c:144), and then never again in one of the others; and
\* every variable has its type.
Places(i) ==
    {<<"key", k>> : k \in {j \in Keys : rec_of[j] = i}}
    \cup {<<"retired", e>> : e \in {x \in retired : x.idx = i}}
    \cup {<<"free", n>> : n \in {m \in DOMAIN free_idx : free_idx[m] = i}}
    \cup (IF wop.op \in {"insert", "remove"} /\ wop.idx = i THEN {<<"writer", 0>>} ELSE {})
    \cup {<<"given up", 0>> : j \in given_up \cap {i}}
RecordsAccounted == TypeOK /\ \A i \in 0 .. count - 1 : Cardinality(Places(i)) = 1

\* An entry's index leads to the record made for it, whatever was inserted
\* and removed since: "Blocks are never moved" (htc_arena_ptr).
EntriesKeepRecords == \A k \in Keys : rec_of[k] # -1 =>
    Rec(rec_of[k]).identity = k /\ Rec(rec_of[k]).flags = 0

\* A find never answers with the value of another key: what "find never
\* returns DELETED" (htc.h, C2) and the double check of the flags are for.
FindsOwnValue == \A r \in Readers :
    At(r, "done") => rd[r].val = NotFound \/ rd[r].val[1] = rd[r].key
=============================================================================
