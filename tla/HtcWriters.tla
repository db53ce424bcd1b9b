----------------------------- MODULE HtcWriters -----------------------------
(***************************************************************************)
(* The write protocol of the concurrent table (src/src/htc.c): htc_insert, *)
(* htc_upsert and htc_remove under two shard locks each, cuckoo            *)
(* displacement under the locks of a whole path, the per-shard and the     *)
(* global stash, and htc_grow with its ACTIVE -> FREEZING -> OLD           *)
(* generations.                                                            *)
(*                                                                         *)
(* A step is what one thread does between two points where another thread  *)
(* can interfere: acquiring one lock, the region run under the locks up to *)
(* the next release, a store of a generation's state.  The memory behind   *)
(* the table is the subject of HtcEpoch, the lock-free readers that of     *)
(* HtcFind.                                                                *)
(***************************************************************************)
EXTENDS Integers, Sequences, FiniteSets

CONSTANTS
    Threads, Keys,
    Ops,            \* the operations the threads call
    Seeds,          \* placement seeds, in the order htc_seed hands them out
    InitialSeeds,   \* those a new table may get: the counter is a process-wide one
    Hash1, Hash2,   \* [Seeds -> [Keys -> Nat]]: the bits that choose a key's
                    \* primary and alternative bucket
    NumShards, InitialBuckets,
    BucketSlots,    \* HTC_BUCKET_SLOTS
    StashMax,       \* HTC_STASH_MAX
    MaxPath,        \* moves in a displacement path (HTC_BFS_MAX_DEPTH)
    MaxPathShards,  \* bfs_max_shards
    MaxAttempts,    \* attempts of htc_insert: 4 in the code
    MaxLoad,        \* max_load_factor in percent: entries per bucket before a grow
    SizeWrap,       \* t->size is an unsigned counter of this many values
    MaxGens,        \* bound: generations; a larger table is out of memory
    MaxOps,         \* bound: operations in a behaviour
    Empty, NoKey

ASSUME WriterConstants ==
    /\ Ops \subseteq {"insert", "upsert", "remove"}
    /\ NumShards \in Nat \ {0} /\ InitialBuckets \in Nat \ {0}
    /\ BucketSlots \in Nat \ {0} /\ StashMax \in Nat
    /\ MaxPath \in Nat /\ MaxPathShards \in Nat /\ MaxAttempts \in Nat
    /\ MaxLoad \in 1 .. 100 /\ SizeWrap \in Nat \ {0}
    /\ MaxGens \in Nat \ {0} /\ MaxOps \in Nat
    /\ Seeds \subseteq Nat /\ InitialSeeds \subseteq Seeds
    /\ Hash1 \in [Seeds -> [Keys -> Nat]] /\ Hash2 \in [Seeds -> [Keys -> Nat]]
    /\ NoKey \notin Keys

VARIABLES
    lock,           \* [Shards -> BOOLEAN]: t->shards[s].lock
    grow_lock,
    gens,           \* every generation made so far, oldest first
    current_gen,    \* index into gens
    shard_stash,    \* [Shards -> SUBSET Words]
    stash,          \* t->stash, the global one
    size,           \* t->size
    seed,           \* the last seed htc_seed handed out
    pc, op, key,
    gen,            \* the generation a thread loaded at the start of an attempt
    attempt,        \* of htc_insert
    outer,          \* of htc_upsert
    want, then,     \* shards still to be locked, and where to go with them
    held,           \* shards a thread has locked and not yet unlocked
    path,           \* the displacement path: cells from the root to an empty one
    reseed,         \* the argument of htc_grow
    result,
    ops

table == <<gens, current_gen, shard_stash, stash, size, seed>>
locks == <<lock, grow_lock, held, want, then>>
call == <<op, key, result, ops>>
local == <<gen, attempt, outer, path, reseed>>
vars == <<table, locks, call, local, pc>>

Shards == 0 .. NumShards - 1
SlotIds == 1 .. BucketSlots

\* htc_slot_pack: the record's key, the seed of the record's placement_hash
\* and the seed of the tag in the slot word
Words == [key : Keys, ph : Seeds, tag : Seeds]
Word(k, s) == [key |-> k, ph |-> s, tag |-> s]

NewSlots(n) == [b \in 0 .. n - 1 |-> [i \in SlotIds |-> Empty]]
NewGen(s, n) == [state |-> "ACTIVE", seed |-> s, num_buckets |-> n, slot |-> NewSlots(n)]

Init ==
    /\ lock = [s \in Shards |-> FALSE]
    /\ grow_lock = FALSE
    /\ seed \in InitialSeeds
    /\ gens = <<NewGen(seed, InitialBuckets)>>
    /\ current_gen = 1
    /\ shard_stash = [s \in Shards |-> {}]
    /\ stash = {}
    /\ size = 0
    /\ pc = [t \in Threads |-> "idle"]
    /\ op = [t \in Threads |-> "none"]
    /\ key = [t \in Threads |-> NoKey]
    /\ gen = [t \in Threads |-> 1]
    /\ attempt = [t \in Threads |-> 0]
    /\ outer = [t \in Threads |-> 0]
    /\ want = [t \in Threads |-> {}]
    /\ then = [t \in Threads |-> "idle"]
    /\ held = [t \in Threads |-> {}]
    /\ path = [t \in Threads |-> <<>>]
    /\ reseed = [t \in Threads |-> FALSE]
    /\ result = [t \in Threads |-> "none"]
    /\ ops = 0

Goto(t, l) == pc' = [pc EXCEPT ![t] = l]
-----------------------------------------------------------------------------
(* Placement and lookup in a generation G (a record of gens).              *)

Bucket1(G, s, k) == Hash1[s][k] % G.num_buckets
Bucket2(G, s, k) == Hash2[s][k] % G.num_buckets     \* htc_alt_bucket
Home(G, k) == {Bucket1(G, G.seed, k), Bucket2(G, G.seed, k)}
ShardOf(b) == b % NumShards
ShardsOf(G, k) == {ShardOf(b) : b \in Home(G, k)}
StashShard(G, k) == ShardOf(Bucket1(G, G.seed, k))

\* htc_bucket_scan, htc_stash_find: same identity and same tag
Matches(w, G, k) == w # Empty /\ w.key = k /\ w.tag = G.seed
CellsOf(G, b, k) == {c \in {b} \X SlotIds : Matches(G.slot[b][c[2]], G, k)}
StashedFor(S, G, k) == {w \in S : Matches(w, G, k)}
InBuckets(G, k) == UNION {CellsOf(G, b, k) : b \in Home(G, k)} # {}

\* what htc_find answers when nothing moves meanwhile
Findable(G, k) ==
    \/ InBuckets(G, k)
    \/ StashedFor(shard_stash[StashShard(G, k)], G, k) # {}
    \/ StashedFor(stash, G, k) # {}

EmptySlots(G, b) == {i \in SlotIds : G.slot[b][i] = Empty}
FirstEmpty(G, b) == CHOOSE i \in EmptySlots(G, b) : \A j \in EmptySlots(G, b) : i <= j
Put(G, b, i, w) == [G EXCEPT !.slot[b][i] = w]

\* htc_place_entry, without its fallback to the stash
PlaceInBuckets(G, s, w) ==
    LET b1 == Bucket1(G, s, w.key)
        b2 == Bucket2(G, s, w.key)
        b == IF EmptySlots(G, b1) # {} THEN b1 ELSE b2
    IN Put(G, b, FirstEmpty(G, b), w)
CanPlace(G, s, k) == \E b \in {Bucket1(G, s, k), Bucket2(G, s, k)} : EmptySlots(G, b) # {}

\* A displacement path: each cell but the last holds a record that may move
\* to the bucket of the next one, the last cell is empty.  Where a record
\* may live is computed from the placement_hash kept in the record.
Homes(G, w) == {Bucket1(G, w.ph, w.key), Bucket2(G, w.ph, w.key)}
Movable(G, p) ==
    /\ G.slot[p[Len(p)][1]][p[Len(p)][2]] = Empty
    /\ \A i \in 1 .. Len(p) - 1 :
          LET w == G.slot[p[i][1]][p[i][2]] IN
             /\ w # Empty
             /\ {p[i][1], p[i + 1][1]} \subseteq Homes(G, w)
             /\ p[i][1] # p[i + 1][1]

Cells(G) == (0 .. G.num_buckets - 1) \X SlotIds
DistinctBuckets(p) == \A i, j \in 1 .. Len(p) : p[i][1] = p[j][1] => i = j

\* bfs_find_path: some path that starts in one of the key's two buckets and
\* visits no bucket twice.  The search reads buckets it has not locked; it
\* is one step here, and whatever it read is validated again under the locks.
Paths(G, k) ==
    {p \in UNION {[1 .. n -> Cells(G)] : n \in 2 .. MaxPath + 1} :
        /\ p[1][1] \in Home(G, k)
        /\ \A i \in 2 .. Len(p) : p[i][1] \notin Home(G, k)
        /\ DistinctBuckets(p)
        /\ Movable(G, p)}

PathShards(G, k, p) == ShardsOf(G, k) \cup {ShardOf(p[i][1]) : i \in 1 .. Len(p)}

\* commit_path_locked: every record one cell further, the new one in front;
\* the moved words get the tag of their record's placement_hash
CommitPathDropsMoved(G, p, w) == Put(G, p[1][1], p[1][2], w)
CommitPath(G, p, w) ==
    [G EXCEPT !.slot =
        [b \in DOMAIN G.slot |-> [i \in SlotIds |->
            LET at == {j \in 1 .. Len(p) : p[j] = <<b, i>>} IN
            IF at = {} THEN G.slot[b][i]
            ELSE LET j == CHOOSE x \in at : TRUE IN
                 IF j = 1 THEN w
                 ELSE LET m == G.slot[p[j - 1][1]][p[j - 1][2]] IN [m EXCEPT !.tag = m.ph]]]]

\* htc_rehash_place of the first n cells, in the order of the loops in
\* htc_grow: the words get new tags, the records keep their placement_hash
RehashUpTo(G, s, n) ==
    LET word(i) == G.slot[(i - 1) \div BucketSlots][((i - 1) % BucketSlots) + 1]
        r[i \in 0 .. n] ==
            IF i = 0 THEN [g |-> NewGen(s, 2 * G.num_buckets), stash |-> {}, ok |-> TRUE]
            ELSE LET w == [word(i) EXCEPT !.tag = s] IN
                 IF word(i) = Empty \/ ~ r[i - 1].ok THEN r[i - 1]
                 ELSE IF CanPlace(r[i - 1].g, s, w.key)
                 THEN [r[i - 1] EXCEPT !.g = PlaceInBuckets(@, s, w)]
                 ELSE IF Cardinality(r[i - 1].stash) < StashMax
                 THEN [r[i - 1] EXCEPT !.stash = @ \cup {w}]
                 ELSE [r[i - 1] EXCEPT !.ok = FALSE]
    IN r[n]
RehashSkipsLast(G, s) == RehashUpTo(G, s, G.num_buckets * BucketSlots - 1)
Rehash(G, s) == RehashUpTo(G, s, G.num_buckets * BucketSlots)

\* t->size wraps like the size_t it is
DecrementSigned(n) == n - 1
Decrement(n) == (n - 1) % SizeWrap
Increment(n) == (n + 1) % SizeWrap
-----------------------------------------------------------------------------
(* Calls and locks.                                                        *)

Current == gens[current_gen]
MyGen(t) == gens[gen[t]]

Call(t, o, k) ==
    /\ pc[t] = "idle"
    /\ ops < MaxOps
    /\ ops' = ops + 1
    /\ op' = [op EXCEPT ![t] = o]
    /\ key' = [key EXCEPT ![t] = k]
    /\ attempt' = [attempt EXCEPT ![t] = 0]
    /\ outer' = [outer EXCEPT ![t] = 0]
    /\ Goto(t, IF o = "upsert" THEN "upsert_load" ELSE "load")
    /\ UNCHANGED <<table, locks, result, gen, path, reseed>>

Return(t) ==
    /\ pc[t] = "return"
    /\ op' = [op EXCEPT ![t] = "none"]
    /\ key' = [key EXCEPT ![t] = NoKey]
    /\ result' = [result EXCEPT ![t] = "none"]
    /\ Goto(t, "idle")
    /\ UNCHANGED <<table, locks, local, ops>>

\* the operation's outcome, decided in this step
Answer(t, r) == result' = [result EXCEPT ![t] = r]

\* acquire the shards S in ascending order, then go on at l
Acquire(t, S, l) ==
    /\ want' = [want EXCEPT ![t] = S]
    /\ then' = [then EXCEPT ![t] = l]
    /\ Goto(t, "acquire")

\* htc_spin_lock of the next shard: waits while the flag is set
SpinLockBarges(s) == lock' = [lock EXCEPT ![s] = TRUE]
SpinLock(s) == ~ lock[s] /\ lock' = [lock EXCEPT ![s] = TRUE]

\* the shards one is waiting for are taken in ascending order
LockShard(t) ==
    /\ pc[t] = "acquire"
    /\ \E s \in want[t] :
          /\ \A r \in want[t] : s <= r
          /\ SpinLock(s)
          /\ held' = [held EXCEPT ![t] = @ \cup {s}]
          /\ want' = [want EXCEPT ![t] = @ \ {s}]
          /\ Goto(t, IF want[t] = {s} THEN then[t] ELSE "acquire")
    /\ UNCHANGED <<table, grow_lock, then, call, local>>

\* htc_spin_unlock of the shards S: clears the flags, whoever set them
Unlock(t, S) ==
    /\ lock' = [s \in Shards |-> lock[s] /\ s \notin S]
    /\ held' = [held EXCEPT ![t] = @ \ S]

MyShards(t) == ShardsOf(MyGen(t), key[t])
-----------------------------------------------------------------------------
(* htc_insert and htc_remove: load the generation, lock the key's two      *)
(* shards, revalidate.                                                     *)

LoadGen(t) ==
    /\ pc[t] = "load"
    /\ attempt[t] < MaxAttempts
    /\ gen' = [gen EXCEPT ![t] = current_gen]
    /\ Acquire(t, ShardsOf(Current, key[t]), "check")
    /\ UNCHANGED <<table, lock, grow_lock, held, call, attempt, outer, path, reseed>>

GiveUp(t) ==
    /\ pc[t] = "load"
    /\ attempt[t] = MaxAttempts
    /\ Answer(t, "PATHOLOGICAL")
    /\ Goto(t, "return")
    /\ UNCHANGED <<table, locks, local, op, key, ops>>

StillCurrentNotFrozen(t) == MyGen(t).state # "FREEZING"
StillCurrent(t) == current_gen = gen[t] /\ Current.state = "ACTIVE"

Validated(t) ==
    /\ pc[t] = "check"
    /\ StillCurrent(t)
    /\ Goto(t, IF op[t] = "remove" THEN "remove" ELSE "insert")
    /\ UNCHANGED <<table, locks, call, local>>

\* htc_insert starts over ...
InsertStaleUncounted(t) ==
    /\ pc[t] \in {"check", "stash"}
    /\ op[t] # "remove"
    /\ ~ StillCurrent(t)
    /\ Unlock(t, MyShards(t))
    /\ Goto(t, "load")
    /\ UNCHANGED <<table, grow_lock, want, then, call, local>>
InsertStale(t) ==
    /\ pc[t] \in {"check", "stash"}
    /\ op[t] # "remove"
    /\ ~ StillCurrent(t)
    /\ Unlock(t, MyShards(t))
    /\ attempt' = [attempt EXCEPT ![t] = @ + 1]
    /\ Goto(t, "load")
    /\ UNCHANGED <<table, grow_lock, want, then, call, gen, outer, path, reseed>>

\* ... htc_remove returns at once
RemoveStale(t) ==
    /\ pc[t] = "check"
    /\ op[t] = "remove"
    /\ ~ StillCurrent(t)
    /\ Unlock(t, MyShards(t))
    /\ Answer(t, "NOT_FOUND")
    /\ Goto(t, "return")
    /\ UNCHANGED <<table, grow_lock, want, then, local, op, key, ops>>
-----------------------------------------------------------------------------
(* htc_remove under its locks.                                             *)

\* primary bucket, else secondary, else the shard's stash, else the global one
RemoveHit(t) ==
    LET G == MyGen(t)
        k == key[t]
        s == StashShard(G, k)
        b == IF CellsOf(G, Bucket1(G, G.seed, k), k) # {} THEN Bucket1(G, G.seed, k)
                                                          ELSE Bucket2(G, G.seed, k)
    IN
    /\ pc[t] = "remove"
    /\ Findable(G, k)
    /\ \/ /\ InBuckets(G, k)
          /\ \E c \in CellsOf(G, b, k) :
                gens' = [gens EXCEPT ![gen[t]] = Put(@, c[1], c[2], Empty)]
          /\ UNCHANGED <<shard_stash, stash>>
       \/ /\ ~ InBuckets(G, k)
          /\ \E w \in StashedFor(shard_stash[s], G, k) :
                shard_stash' = [shard_stash EXCEPT ![s] = @ \ {w}]
          /\ UNCHANGED <<gens, stash>>
       \/ /\ ~ InBuckets(G, k) /\ StashedFor(shard_stash[s], G, k) = {}
          /\ \E w \in StashedFor(stash, G, k) : stash' = stash \ {w}
          /\ UNCHANGED <<gens, shard_stash>>
    /\ size' = Decrement(size)
    /\ Unlock(t, MyShards(t))
    /\ Answer(t, "OK")
    /\ Goto(t, "return")
    /\ UNCHANGED <<current_gen, seed, grow_lock, want, then, local, op, key, ops>>

RemoveMiss(t) ==
    /\ pc[t] = "remove"
    /\ ~ Findable(MyGen(t), key[t])
    /\ Unlock(t, MyShards(t))
    /\ Answer(t, "NOT_FOUND")
    /\ Goto(t, "return")
    /\ UNCHANGED <<table, grow_lock, want, then, local, op, key, ops>>
-----------------------------------------------------------------------------
(* htc_insert under its locks.                                             *)

\* the duplicate check: both buckets and the shard's stash
DuplicateInBuckets(G, k) == InBuckets(G, k)
Duplicate(G, k) == InBuckets(G, k) \/ StashedFor(shard_stash[StashShard(G, k)], G, k) # {}
NewWord(t) == Word(key[t], MyGen(t).seed)

\* htc_insert returns DUPLICATE: the answer, or the next attempt of htc_upsert
AnswerDuplicate(t) ==
    \/ /\ op[t] = "insert"
       /\ Answer(t, "DUPLICATE")
       /\ Goto(t, "return")
       /\ UNCHANGED outer
    \/ /\ op[t] = "upsert"
       /\ outer' = [outer EXCEPT ![t] = @ + 1]
       /\ Goto(t, "upsert_load")
       /\ UNCHANGED result

InsertDuplicate(t) ==
    /\ pc[t] = "insert"
    /\ Duplicate(MyGen(t), key[t])
    /\ Unlock(t, MyShards(t))
    /\ AnswerDuplicate(t)
    /\ UNCHANGED <<table, grow_lock, want, then, gen, attempt, path, reseed, op, key, ops>>

\* no arena record to be had
InsertOom(t) ==
    /\ pc[t] = "insert"
    /\ ~ Duplicate(MyGen(t), key[t])
    /\ Unlock(t, MyShards(t))
    /\ Answer(t, "OOM")
    /\ Goto(t, "return")
    /\ UNCHANGED <<table, grow_lock, want, then, local, op, key, ops>>

\* primary or secondary bucket
InsertDirect(t) ==
    /\ pc[t] = "insert"
    /\ ~ Duplicate(MyGen(t), key[t])
    /\ CanPlace(MyGen(t), MyGen(t).seed, key[t])
    /\ gens' = [gens EXCEPT ![gen[t]] = PlaceInBuckets(@, @.seed, NewWord(t))]
    /\ Answer(t, "OK")
    /\ Goto(t, "done")
    /\ UNCHANGED <<current_gen, shard_stash, stash, size, seed, locks, local, op, key, ops>>

BothFull(t) ==
    /\ pc[t] = "insert"
    /\ ~ Duplicate(MyGen(t), key[t])
    /\ ~ CanPlace(MyGen(t), MyGen(t).seed, key[t])

\* a path over few enough shards: give up the two locks, take those of the path
InsertFindPath(t) ==
    /\ BothFull(t)
    /\ \E p \in Paths(MyGen(t), key[t]) :
          /\ Cardinality(PathShards(MyGen(t), key[t], p)) <= MaxPathShards
          /\ path' = [path EXCEPT ![t] = p]
          /\ Acquire(t, PathShards(MyGen(t), key[t], p), "commit")
    /\ Unlock(t, MyShards(t))
    /\ UNCHANGED <<table, grow_lock, call, gen, attempt, outer, reseed>>

\* no path, or the one found touches too many shards
InsertNoPath(t) ==
    /\ BothFull(t)
    /\ Paths(MyGen(t), key[t]) # {} =>
          \E p \in Paths(MyGen(t), key[t]) :
             Cardinality(PathShards(MyGen(t), key[t], p)) > MaxPathShards
    /\ Goto(t, "stash")
    /\ UNCHANGED <<table, locks, call, local>>

\* validate_path_locked and commit_path_locked, then unlock the path
PathCommit(t) ==
    /\ pc[t] = "commit"
    /\ Movable(MyGen(t), path[t])
    /\ gens' = [gens EXCEPT ![gen[t]] = CommitPath(@, path[t], NewWord(t))]
    /\ Unlock(t, PathShards(MyGen(t), key[t], path[t]))
    /\ Answer(t, "OK")
    /\ Goto(t, "done")
    /\ UNCHANGED <<current_gen, shard_stash, stash, size, seed, grow_lock, want, then,
                   local, op, key, ops>>

\* the path has changed: back to the two locks and on to the stash
PathInvalid(t) ==
    /\ pc[t] = "commit"
    /\ ~ Movable(MyGen(t), path[t])
    /\ Unlock(t, PathShards(MyGen(t), key[t], path[t]))
    /\ Acquire(t, MyShards(t), "stash")
    /\ UNCHANGED <<table, grow_lock, call, local>>

MyStash(t) == shard_stash[StashShard(MyGen(t), key[t])]

StashDuplicate(t) ==
    /\ pc[t] = "stash"
    /\ StillCurrent(t)
    /\ StashedFor(MyStash(t), MyGen(t), key[t]) # {}
    /\ Unlock(t, MyShards(t))
    /\ AnswerDuplicate(t)
    /\ UNCHANGED <<table, grow_lock, want, then, gen, attempt, path, reseed, op, key, ops>>

StashInsert(t) ==
    /\ pc[t] = "stash"
    /\ StillCurrent(t)
    /\ StashedFor(MyStash(t), MyGen(t), key[t]) = {}
    /\ Cardinality(MyStash(t)) < StashMax
    /\ shard_stash' = [shard_stash EXCEPT ![StashShard(MyGen(t), key[t])] =
                          @ \cup {NewWord(t)}]
    /\ Answer(t, "OK")
    /\ Goto(t, "done")
    /\ UNCHANGED <<gens, current_gen, stash, size, seed, locks, local, op, key, ops>>

\* the stash is full too: grow with a new seed, then try again
StashFull(t) ==
    /\ pc[t] = "stash"
    /\ StillCurrent(t)
    /\ StashedFor(MyStash(t), MyGen(t), key[t]) = {}
    /\ Cardinality(MyStash(t)) >= StashMax
    /\ Unlock(t, MyShards(t))
    /\ reseed' = [reseed EXCEPT ![t] = TRUE]
    /\ Goto(t, "grow")
    /\ UNCHANGED <<table, grow_lock, want, then, call, gen, attempt, outer, path>>

\* insert_done: count the entry and unlock the key's two shards
InsertDoneUncounted(t) ==
    /\ pc[t] = "done"
    /\ Unlock(t, MyShards(t))
    /\ Goto(t, "load_factor")
    /\ UNCHANGED <<table, grow_lock, want, then, call, local>>
InsertDone(t) ==
    /\ pc[t] = "done"
    /\ size' = Increment(size)
    /\ Unlock(t, MyShards(t))
    /\ Goto(t, "load_factor")
    /\ UNCHANGED <<gens, current_gen, shard_stash, stash, seed, grow_lock, want, then,
                   call, local>>

Overloaded == 100 * size > MaxLoad * Current.num_buckets

InsertReturn(t) ==
    /\ pc[t] = "load_factor"
    /\ ~ Overloaded
    /\ Goto(t, "return")
    /\ UNCHANGED <<table, locks, call, local>>

InsertGrow(t) ==
    /\ pc[t] = "load_factor"
    /\ Overloaded
    /\ reseed' = [reseed EXCEPT ![t] = FALSE]
    /\ Goto(t, "grow")
    /\ UNCHANGED <<table, locks, call, gen, attempt, outer, path>>
-----------------------------------------------------------------------------
(* htc_upsert: looks for the key under its two locks and stores the value, *)
(* or gives them up and calls htc_insert.                                  *)

UpsertLoad(t) ==
    /\ pc[t] = "upsert_load"
    /\ outer[t] < MaxAttempts
    /\ gen' = [gen EXCEPT ![t] = current_gen]
    /\ Acquire(t, ShardsOf(Current, key[t]), "upsert")
    /\ UNCHANGED <<table, lock, grow_lock, held, call, attempt, outer, path, reseed>>

UpsertGiveUp(t) ==
    /\ pc[t] = "upsert_load"
    /\ outer[t] = MaxAttempts
    /\ Answer(t, "PATHOLOGICAL")
    /\ Goto(t, "return")
    /\ UNCHANGED <<table, locks, local, op, key, ops>>

UpsertStale(t) ==
    /\ pc[t] = "upsert"
    /\ ~ StillCurrent(t)
    /\ Unlock(t, MyShards(t))
    /\ outer' = [outer EXCEPT ![t] = @ + 1]
    /\ Goto(t, "upsert_load")
    /\ UNCHANGED <<table, grow_lock, want, then, call, gen, attempt, path, reseed>>

UpsertHit(t) ==
    /\ pc[t] = "upsert"
    /\ StillCurrent(t)
    /\ Findable(MyGen(t), key[t])
    /\ Unlock(t, MyShards(t))
    /\ Answer(t, "OK")
    /\ Goto(t, "return")
    /\ UNCHANGED <<table, grow_lock, want, then, local, op, key, ops>>

UpsertMiss(t) ==
    /\ pc[t] = "upsert"
    /\ StillCurrent(t)
    /\ ~ Findable(MyGen(t), key[t])
    /\ Unlock(t, MyShards(t))
    /\ attempt' = [attempt EXCEPT ![t] = 0]
    /\ Goto(t, "load")
    /\ UNCHANGED <<table, grow_lock, want, then, call, gen, outer, path, reseed>>
-----------------------------------------------------------------------------
(* htc_grow.                                                               *)

\* grow_lock, then the compare-and-swap ACTIVE -> FREEZING, then all shards
GrowLock(t) ==
    /\ pc[t] = "grow"
    /\ ~ grow_lock
    /\ grow_lock' = TRUE
    /\ Goto(t, "freeze")
    /\ UNCHANGED <<table, lock, held, want, then, call, local>>

Freeze(t) ==
    /\ pc[t] = "freeze"
    /\ Current.state = "ACTIVE"
    /\ gens' = [gens EXCEPT ![current_gen].state = "FREEZING"]
    /\ Acquire(t, Shards, "rehash")
    /\ UNCHANGED <<current_gen, shard_stash, stash, size, seed, lock, grow_lock, held, call, local>>

NextSeed(t) == IF reseed[t] THEN seed + 1 ELSE Current.seed
CanGrow(t) == Len(gens) < MaxGens /\ NextSeed(t) \in Seeds

\* rehash, mark the old generation OLD, publish the new one, unlock the
\* shards; the old contents of the global stash are dropped
Publish(t) ==
    LET r == Rehash(Current, NextSeed(t)) IN
    /\ pc[t] = "rehash"
    /\ CanGrow(t)
    /\ r.ok
    /\ gens' = Append([gens EXCEPT ![current_gen].state = "OLD"],
                      [NewGen(NextSeed(t), 2 * Current.num_buckets) EXCEPT !.slot = r.g.slot])
    /\ current_gen' = Len(gens) + 1
    /\ stash' = r.stash
    /\ seed' = IF reseed[t] THEN seed + 1 ELSE seed
    /\ Unlock(t, Shards)
    /\ Goto(t, "grown")
    /\ UNCHANGED <<shard_stash, size, grow_lock, want, then, call, local>>

\* Not all entries fit: everything is put back, but the seed is used up.
GrowOverflows(t) ==
    /\ pc[t] = "rehash"
    /\ CanGrow(t)
    /\ ~ Rehash(Current, NextSeed(t)).ok
    /\ seed' = IF reseed[t] THEN seed + 1 ELSE seed
    /\ Unlock(t, Shards)
    /\ Goto(t, "unfreeze")
    /\ UNCHANGED <<gens, current_gen, shard_stash, stash, size, grow_lock, want, then,
                   call, local>>

\* No memory: for the buckets, or for the generation when everything has been
\* rehashed and the old contents of the global stash have been destroyed.
GrowOom(t) ==
    /\ pc[t] = "rehash"
    /\ \/ UNCHANGED <<stash, seed>>
       \/ /\ CanGrow(t) /\ Rehash(Current, NextSeed(t)).ok
          /\ stash' = {}
          /\ seed' = IF reseed[t] THEN seed + 1 ELSE seed
    /\ Unlock(t, Shards)
    /\ Goto(t, "unfreeze")
    /\ UNCHANGED <<gens, current_gen, shard_stash, size, grow_lock, want, then, call, local>>

\* the failed grower restores the state and returns to htc_insert
UnfreezeForgotten(t) ==
    /\ pc[t] = "unfreeze"
    /\ grow_lock' = FALSE
    /\ \/ reseed[t] /\ Answer(t, "OOM")
       \/ ~ reseed[t] /\ UNCHANGED result
    /\ Goto(t, "return")
    /\ UNCHANGED <<table, lock, held, want, then, local, op, key, ops>>
Unfreeze(t) ==
    /\ pc[t] = "unfreeze"
    /\ gens' = [gens EXCEPT ![current_gen].state = "ACTIVE"]
    /\ grow_lock' = FALSE
    /\ \/ reseed[t] /\ Answer(t, "OOM")
       \/ ~ reseed[t] /\ UNCHANGED result
    /\ Goto(t, "return")
    /\ UNCHANGED <<current_gen, shard_stash, stash, size, seed, lock, held, want, then,
                   local, op, key, ops>>

\* back to htc_insert: the next attempt, or the return after a load-factor grow
Grown(t) ==
    /\ pc[t] = "grown"
    /\ grow_lock' = FALSE
    /\ \/ reseed[t] /\ attempt' = [attempt EXCEPT ![t] = @ + 1] /\ Goto(t, "load")
       \/ ~ reseed[t] /\ UNCHANGED attempt /\ Goto(t, "return")
    /\ UNCHANGED <<table, lock, held, want, then, call, gen, outer, path, reseed>>
-----------------------------------------------------------------------------
Enter(t) == \E o \in Ops, k \in Keys : Call(t, o, k)

Remove(t) == RemoveStale(t) \/ RemoveHit(t) \/ RemoveMiss(t)

Insert(t) ==
    \/ GiveUp(t) \/ InsertStale(t) \/ InsertDuplicate(t) \/ InsertOom(t)
    \/ InsertDirect(t) \/ InsertFindPath(t) \/ InsertNoPath(t)
    \/ PathCommit(t) \/ PathInvalid(t)
    \/ StashDuplicate(t) \/ StashInsert(t) \/ StashFull(t)
    \/ InsertDone(t) \/ InsertReturn(t) \/ InsertGrow(t)

Upsert(t) ==
    \/ UpsertLoad(t) \/ UpsertGiveUp(t) \/ UpsertStale(t) \/ UpsertHit(t) \/ UpsertMiss(t)

Grow(t) ==
    \/ GrowLock(t) \/ Freeze(t) \/ Publish(t) \/ GrowOverflows(t) \/ GrowOom(t)
    \/ Unfreeze(t) \/ Grown(t)

Step(t) ==
    \/ LockShard(t) \/ LoadGen(t) \/ Validated(t) \/ Return(t)
    \/ Insert(t) \/ Upsert(t) \/ Remove(t) \/ Grow(t)

\* every call has returned and no more are made
Finished ==
    /\ ops = MaxOps
    /\ \A t \in Threads : pc[t] = "idle"
    /\ UNCHANGED vars

Next == (\E t \in Threads : Enter(t) \/ Step(t)) \/ Finished

Spec == Init /\ [][Next]_vars

\* a thread inside a call is not stopped for ever
Fairness == \A t \in Threads : WF_vars(Step(t))
LiveSpec == Spec /\ Fairness
-----------------------------------------------------------------------------
Labels == {"idle", "load", "acquire", "check", "insert", "remove", "commit",
           "stash", "done", "load_factor", "grow", "freeze", "rehash",
           "unfreeze", "grown", "return", "upsert_load", "upsert"}
Results == {"none", "OK", "DUPLICATE", "NOT_FOUND", "OOM", "PATHOLOGICAL"}

IsGen(G) ==
    /\ DOMAIN G = {"state", "seed", "num_buckets", "slot"}
    /\ G.state \in {"ACTIVE", "FREEZING", "OLD"}
    /\ G.seed \in Seeds /\ G.num_buckets \in Nat \ {0}
    /\ G.slot \in [0 .. G.num_buckets - 1 -> [SlotIds -> Words \cup {Empty}]]

TypeOK ==
    /\ lock \in [Shards -> BOOLEAN] /\ grow_lock \in BOOLEAN
    /\ \A i \in 1 .. Len(gens) : IsGen(gens[i])
    /\ current_gen \in 1 .. Len(gens)
    /\ shard_stash \in [Shards -> SUBSET Words] /\ stash \subseteq Words
    /\ size \in 0 .. SizeWrap - 1 /\ seed \in Seeds
    /\ pc \in [Threads -> Labels]
    /\ op \in [Threads -> Ops \cup {"none"}]
    /\ key \in [Threads -> Keys \cup {NoKey}]
    /\ gen \in [Threads -> 1 .. Len(gens)]
    /\ attempt \in [Threads -> 0 .. MaxAttempts] /\ outer \in [Threads -> 0 .. MaxAttempts]
    /\ want \in [Threads -> SUBSET Shards] /\ held \in [Threads -> SUBSET Shards]
    /\ then \in [Threads -> Labels]
    /\ \A t \in Threads : path[t] \in Seq((0 .. MyGen(t).num_buckets - 1) \X SlotIds)
    /\ reseed \in [Threads -> BOOLEAN]
    /\ result \in [Threads -> Results]
    /\ ops \in 0 .. MaxOps

\* A shard lock is a lock: no two threads are between locking and unlocking
\* the same shard, and while one is, the flag stays set.
MutualExclusion ==
    /\ \A t, u \in Threads : t # u => held[t] \cap held[u] = {}
    /\ \A t \in Threads : \A s \in held[t] : lock[s]

\* htc_grow owns the generation it froze: the current generation is FREEZING
\* exactly while one thread is between the freeze and the publication (or
\* the failure), so the compare-and-swap of the next grower never fails, no
\* failed grow leaves writers locked out, and only older ones are OLD.
InGrow(t) == pc[t] \in {"rehash", "unfreeze"} \/ (pc[t] = "acquire" /\ then[t] = "rehash")
FreezeOwned ==
    /\ Current.state = "FREEZING" <=> \E t \in Threads : InGrow(t)
    /\ \A t, u \in Threads : InGrow(t) /\ InGrow(u) => t = u
    /\ \A i \in 1 .. Len(gens) : gens[i].state = "OLD" <=> i # current_gen

\* htc.h: upsert and insert leave "exactly one logical entry": no key is in
\* two cells or stashes of the current generation, whatever races.
Entries ==
    {<<"cell", c, Current.slot[c[1]][c[2]].key>> :
        c \in {d \in Cells(Current) : Current.slot[d[1]][d[2]] # Empty}}
      \cup UNION {{<<"shard", s, w.key>> : w \in shard_stash[s]} : s \in Shards}
      \cup {<<"global", 0, w.key>> : w \in stash}
UniqueEntry == \A d, e \in Entries : d[3] = e[3] => d = e

\* htc_size: an insert that has published its entry and not yet counted it
\* is the only difference between size and the entries in the table.
SizeAgrees ==
    (size + Cardinality({t \in Threads : pc[t] = "done"})) % SizeWrap = Cardinality(Entries)

\* The revalidation "prevents committing into a frozen generation": once a
\* generation is OLD its buckets never change again.
OldUntouched ==
    [][\A i \in 1 .. Len(gens) : gens[i].state = "OLD" => gens'[i].slot = gens[i].slot]_vars

\* htc.h: "Prior successful inserts remain findable" when the table grows or
\* is reseeded: publishing a generation hides no key.
GrowKeepsKeys ==
    [][current_gen' # current_gen =>
          \A k \in Keys : Findable(Current, k) => Findable(Current, k)']_vars

\* Every call returns, although inserts retry, displace, spill and grow and
\* every path takes up to NumShards + 1 locks.
CallsReturn == \A t \in Threads : pc[t] # "idle" ~> pc[t] = "idle"

\* What a client sees is a set of keys changed atomically (HtcMap).
Map == INSTANCE HtcMap WITH present <- {k \in Keys : Findable(Current, k)}
IsMap == Map!Spec
=============================================================================
