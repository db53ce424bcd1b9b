------------------------------- MODULE Arena -------------------------------
(***************************************************************************)
(* The general allocator, src/arena.c: slabs, per-thread caches of freed   *)
(* blocks, segments with a bitmap, pages from the system, and the list of  *)
(* deferred frees.  A thread inside arena_alloc or arena_free takes one    *)
(* step per atomic access to shared memory; work on its own cache and      *)
(* calls that arena.h wants synchronised (clear, compact) are one step.    *)
(* Left out: prefetching, the size histogram and the counters that         *)
(* arena_get_stats and arena_size report but no decision reads.            *)
(***************************************************************************)
EXTENDS Integers, Sequences, FiniteSets

CONSTANTS Threads, Arenas,
          SlabSizes,      \* g_slab_sizes, in units of the model
          MidSize,        \* 4096: the largest size served by segments
          Granularity,    \* ARENA_SEG_GRANULARITY
          SegsPerClass, SegSlots, SlabSlots, MaxSlabs, TcacheDepth, DeferredBatch,
          CompactTrigger, \* in percent
          SysPages,       \* what mmap can hand out
          Configs         \* which calls a client makes, and how many; whether memory may
                          \* be refused

Classes == 1 .. Len(SlabSizes)
SmallMax == SlabSizes[Len(SlabSizes)]
Bits == 0 .. SegSlots - 1

\* size_to_slab_class
Class(size) == IF size > SmallMax THEN Len(SlabSizes)
               ELSE CHOOSE c \in Classes : /\ size <= SlabSizes[c]
                                           /\ \A d \in 1 .. c - 1 : size > SlabSizes[d]

Needed(size) == (size + Granularity - 1) \div Granularity

\* A block may come back from the thread cache for any size of its class.
ASSUME ClassesUniform ==
    \A n, m \in 1 .. SmallMax : Class(n) = Class(m) => Needed(n) = Needed(m)

VARIABLES conf,       \* the chosen element of Configs
          open,       \* the arenas that exist
          slabs,      \* arena, class -> slab set
          segs,       \* arena, class, number -> segment
          tcache,     \* thread, class -> pointers, the last one on top
          noded,      \* the threads for which tcache_get has made a cache
          deferred,   \* arena -> blocks
          mapped,     \* pages obtained from mmap
          live,       \* blocks the client holds
          job,        \* thread -> where it is in a call
          lost,       \* history: blocks that nobody can free any more, and why
          ops         \* calls made, up to conf.ops
caches == <<tcache, noded>>
vars == <<conf, open, slabs, segs, caches, deferred, mapped, live, job, lost, ops>>

Sys == <<>>
Seg == Arenas \X Classes \X (1 .. SegsPerClass)
NoBlock == [arena |-> "none", seg |-> Sys, slot |-> 0, size |-> 0]
Block(a, seg, slot, size) == [arena |-> a, seg |-> seg, slot |-> slot, size |-> size]

\* The memory of a block: slots of a segment, or a page.
Extent(b) == IF b.seg = Sys THEN {<<Sys, b.slot>>}
             ELSE {<<b.seg, s>> : s \in b.slot .. b.slot + Needed(b.size) - 1}

SegAt(g) == segs[g[1]][g[2]][g[3]]
\* A segment that seg_create could not map is not there.
NewSeg(there) == [free |-> Bits, used |-> 0, flagged |-> FALSE, there |-> there]
FreshSegs == [c \in Classes |-> [i \in 1 .. SegsPerClass |-> NewSeg(TRUE)]]
Created == IF conf.oom
           THEN {[c \in Classes |-> [i \in 1 .. SegsPerClass |-> NewSeg(<<c, i>> \in S)]] :
                    S \in SUBSET (Classes \X (1 .. SegsPerClass))}
           ELSE {FreshSegs}
FreshSlab == [ones |-> 0 .. SlabSlots - 1, stack |-> <<>>]
NoSlab == [ones |-> {}, stack |-> <<>>]
FreshSet == [count |-> 0, slabs |-> [i \in 1 .. MaxSlabs |-> NoSlab], total |-> 0, free |-> 0]
FreshSets == [c \in Classes |-> FreshSet]
EmptyCache == [c \in Classes |-> <<>>]
Lose(why, blocks) == {[why |-> why, block |-> b] : b \in blocks}

Idle == [pc |-> "idle", arena |-> "none", size |-> 0, pass |-> 0, seg |-> 0, at |-> 0, run |-> 0,
         start |-> 0, next |-> 0, old |-> NoBlock, rest |-> <<>>, then |-> "idle"]

Init ==
    /\ conf \in Configs
    /\ open = conf.arenas
    /\ slabs = [a \in Arenas |-> FreshSets]
    /\ segs \in [Arenas -> Created]
    /\ tcache = [t \in Threads |-> EmptyCache]
    /\ noded = {}
    /\ deferred = [a \in Arenas |-> <<>>]
    /\ mapped = {}
    /\ live = {}
    /\ job = [t \in Threads |-> Idle]
    /\ lost = {}
    /\ ops = 0

----------------------------------------------------------------------------
(* Calls of the client. *)

Call(t, name) ==
    /\ t \in conf.threads
    /\ name \in conf.calls
    /\ job[t] = Idle
    /\ ops < conf.ops
    /\ ops' = ops + 1

AllocJob(a, size, old) ==
    [Idle EXCEPT !.pc = IF size <= SmallMax THEN "cache" ELSE IF size <= MidSize THEN "seg" ELSE "sys",
                 !.arena = a, !.size = size, !.pass = 2, !.seg = 1, !.old = old]
FreeJob(a, blocks, then) ==
    [Idle EXCEPT !.pc = IF blocks = <<>> THEN then ELSE "free", !.arena = a, !.rest = blocks,
                 !.then = IF blocks = <<>> THEN "idle" ELSE then]

CallAlloc(t) ==
    /\ Call(t, "alloc")
    /\ \E a \in open, size \in conf.sizes : job' = [job EXCEPT ![t] = AllocJob(a, size, NoBlock)]
    /\ UNCHANGED <<conf, open, slabs, segs, caches, deferred, mapped, live, lost>>

CallFree(t) ==
    /\ Call(t, "free")
    /\ \E b \in live :
          /\ live' = live \ {b}
          /\ job' = [job EXCEPT ![t] = FreeJob(b.arena, <<b>>, "idle")]
    /\ UNCHANGED <<conf, open, slabs, segs, caches, deferred, mapped, lost>>

\* arena_realloc: in place within a class of small sizes, otherwise a new
\* block and then the free of the old one.
InPlace(old, new) == old <= SmallMax /\ new <= SmallMax /\ Class(old) = Class(new)

CallRealloc(t) ==
    /\ Call(t, "realloc")
    /\ \E b \in live, size \in conf.sizes :
          IF InPlace(b.size, size)
          THEN /\ live' = (live \ {b}) \cup {[b EXCEPT !.size = size]}
               /\ UNCHANGED job
          ELSE /\ live' = live \ {b}
               /\ job' = [job EXCEPT ![t] = AllocJob(b.arena, size, b)]
    /\ UNCHANGED <<conf, open, slabs, segs, caches, deferred, mapped, lost>>

CallFreeDeferred(t) ==
    /\ Call(t, "defer")
    /\ \E b \in live :
          /\ live' = live \ {b}
          /\ IF Len(deferred[b.arena]) < DeferredBatch
             THEN /\ deferred' = [deferred EXCEPT ![b.arena] = Append(@, b)]
                  /\ UNCHANGED job
             ELSE /\ job' = [job EXCEPT ![t] = FreeJob(b.arena, <<b>>, "idle")]
                  /\ UNCHANGED deferred
    /\ UNCHANGED <<conf, open, slabs, segs, caches, mapped, lost>>

CallFlushDeferred(t) ==
    /\ Call(t, "flush")
    /\ \E a \in open :
          /\ deferred[a] # <<>>
          /\ deferred' = [deferred EXCEPT ![a] = <<>>]
          /\ job' = [job EXCEPT ![t] = FreeJob(a, deferred[a], "idle")]
    /\ UNCHANGED <<conf, open, slabs, segs, caches, mapped, live, lost>>

\* arena_destroy begins with a flush; no other thread uses the arena.
CallDestroy(t) ==
    /\ Call(t, "destroy")
    /\ \E a \in open :
          /\ \A u \in Threads : job[u].arena # a
          /\ deferred' = [deferred EXCEPT ![a] = <<>>]
          /\ job' = [job EXCEPT ![t] = FreeJob(a, deferred[a], "destroy")]
          /\ open' = open \ {a}
    /\ UNCHANGED <<conf, slabs, segs, caches, mapped, live, lost>>

CallCreate(t) ==
    /\ Call(t, "create")
    /\ \E a \in conf.arenas \ open, made \in Created :
          /\ \A u \in Threads : job[u].arena # a
          /\ open' = open \cup {a}
          /\ segs' = [segs EXCEPT ![a] = made]
    /\ UNCHANGED <<conf, slabs, caches, deferred, mapped, live, job, lost>>

----------------------------------------------------------------------------
(* arena_alloc, and the part of arena_realloc that follows it. *)

MyClass(t) == Class(job[t].size)

\* The call returns a pointer; arena_realloc goes on to free the old block.
Return(t, seg, slot) ==
    LET j == job[t] IN
    /\ live' = live \cup {Block(j.arena, seg, slot, j.size)}
    /\ job' = [job EXCEPT ![t] = IF j.old = NoBlock THEN Idle ELSE FreeJob(j.arena, <<j.old>>, "idle")]

GoTo(t, pc) == job' = [job EXCEPT ![t].pc = pc]
ToSegments(t) == job' = [job EXCEPT ![t].pc = "seg", ![t].pass = 1, ![t].seg = 1]

\* tcache_try_get: the cache is the thread's, whatever the arena.  A thread
\* that has none yet is given one, unless the memory for it is refused.
CacheGet(t) ==
    /\ job[t].pc = "cache"
    /\ LET bin == tcache[t][MyClass(t)]
           top == bin[Len(bin)] IN
       IF bin = <<>>
       THEN /\ GoTo(t, "slab")
            /\ UNCHANGED <<tcache, live>>
       ELSE /\ tcache' = [tcache EXCEPT ![t][MyClass(t)] = SubSeq(bin, 1, Len(bin) - 1)]
            /\ Return(t, top.seg, top.slot)
    /\ noded' \in {noded \cup {t}} \cup (IF conf.oom THEN {noded} ELSE {})
    /\ UNCHANGED <<conf, open, slabs, segs, deferred, mapped, lost, ops>>

\* slab_alloc_slot: the top of the free stack, or a slot whose bit is 0.
\* Slabs are created with every bit set, so neither exists and it is -1.
SlabAllocSlot(slab) ==
    IF slab.stack # <<>> THEN slab.stack[Len(slab.stack)]
    ELSE IF slab.ones = 0 .. SlabSlots - 1 THEN -1
    ELSE CHOOSE s \in 0 .. SlabSlots - 1 : s \notin slab.ones

SetOf(t) == slabs[job[t].arena][MyClass(t)]
Upto(n) == 1 .. (IF n < MaxSlabs THEN n ELSE MaxSlabs)

\* slab_set_alloc: no slab of the set has a slot; there are eight of them,
\* mmap fails, or a slab is created.
SlabLook(t) ==
    /\ job[t].pc = "slab"
    /\ \A i \in Upto(SetOf(t).count) :
          SetOf(t).slabs[i] # NoSlab => SlabAllocSlot(SetOf(t).slabs[i]) = -1
    /\ \/ ToSegments(t)
       \/ SetOf(t).count < MaxSlabs /\ GoTo(t, "slab_add")
    /\ UNCHANGED <<conf, open, slabs, segs, caches, deferred, mapped, live, lost, ops>>

\* The count is raised first; a thread that gets a place beyond the last one
\* unmaps its slab.
SlabAdd(t) ==
    /\ job[t].pc = "slab_add"
    /\ slabs' = [slabs EXCEPT ![job[t].arena][MyClass(t)].count = @ + 1]
    /\ IF SetOf(t).count < MaxSlabs
       THEN job' = [job EXCEPT ![t].pc = "slab_store", ![t].next = SetOf(t).count + 1]
       ELSE ToSegments(t)
    /\ UNCHANGED <<conf, open, segs, caches, deferred, mapped, live, lost, ops>>

SlabStore(t) ==
    /\ job[t].pc = "slab_store"
    /\ slabs' = [slabs EXCEPT ![job[t].arena][MyClass(t)].slabs[job[t].next] = FreshSlab]
    /\ GoTo(t, "slab_count")
    /\ UNCHANGED <<conf, open, segs, caches, deferred, mapped, live, lost, ops>>

SlabCount(t) ==
    /\ job[t].pc = "slab_count"
    /\ SlabAllocSlot(SetOf(t).slabs[job[t].next]) = -1
    /\ slabs' = [slabs EXCEPT ![job[t].arena][MyClass(t)].total = @ + SlabSlots,
                              ![job[t].arena][MyClass(t)].free = @ + SlabSlots]
    /\ ToSegments(t)
    /\ UNCHANGED <<conf, open, segs, caches, deferred, mapped, live, lost, ops>>

\* seg_alloc looks for a run of free slots, one load per slot ...
SegOf(t) == <<job[t].arena, MyClass(t), job[t].seg>>

SegScan(t) ==
    LET j == job[t]
        isfree == j.at \in SegAt(SegOf(t)).free
        start == IF j.run = 0 THEN j.at ELSE j.start IN
    /\ j.pc = "seg"
    /\ SegAt(SegOf(t)).there /\ j.at < SegSlots
    /\ job' = [job EXCEPT ![t] =
          IF ~isfree THEN [j EXCEPT !.run = 0, !.at = @ + 1]
          ELSE IF j.run + 1 < Needed(j.size)
          THEN [j EXCEPT !.run = @ + 1, !.start = start, !.at = @ + 1]
          ELSE [j EXCEPT !.pc = "claim", !.run = @ + 1, !.start = start, !.next = start]]
    /\ UNCHANGED <<conf, open, slabs, segs, caches, deferred, mapped, live, lost, ops>>

\* Mutant: the second round over the segments leads to another one.
SegNextAgain(t) ==
    LET j == job[t] IN
    /\ j.pc = "seg"
    /\ ~SegAt(SegOf(t)).there \/ j.at = SegSlots
    /\ job' = [job EXCEPT ![t] =
          IF j.seg < SegsPerClass THEN [j EXCEPT !.seg = @ + 1, !.at = 0, !.run = 0]
          ELSE [j EXCEPT !.seg = 1, !.at = 0, !.run = 0]]
    /\ UNCHANGED <<conf, open, slabs, segs, caches, deferred, mapped, live, lost, ops>>

\* ... in each segment of the class, for a small size twice.
SegNext(t) ==
    LET j == job[t] IN
    /\ j.pc = "seg"
    /\ ~SegAt(SegOf(t)).there \/ j.at = SegSlots
    /\ job' = [job EXCEPT ![t] =
          IF j.seg < SegsPerClass THEN [j EXCEPT !.seg = @ + 1, !.at = 0, !.run = 0]
          ELSE IF j.pass = 1 THEN [j EXCEPT !.pass = 2, !.seg = 1, !.at = 0, !.run = 0]
          ELSE [j EXCEPT !.pc = "sys"]]
    /\ UNCHANGED <<conf, open, slabs, segs, caches, deferred, mapped, live, lost, ops>>

SetFree(g, bits) == segs' = [segs EXCEPT ![g[1]][g[2]][g[3]].free = bits]

\* Mutants: the bit is cleared without a look at it; the slots taken so far
\* are not given back.
SegClaimBlind(t) ==
    LET j == job[t] IN
    /\ j.pc = "claim"
    /\ SetFree(SegOf(t), SegAt(SegOf(t)).free \ {j.next})
    /\ job' = [job EXCEPT ![t].next = @ + 1,
                          ![t].pc = IF j.next + 1 = j.start + Needed(j.size) THEN "used" ELSE @]
    /\ UNCHANGED <<conf, open, slabs, caches, deferred, mapped, live, lost, ops>>

SegClaimKeeps(t) ==
    LET j == job[t] IN
    \/ j.pc = "claim" /\ j.next \in SegAt(SegOf(t)).free /\ SegClaimBlind(t)
    \/ /\ j.pc = "claim"
       /\ j.next \notin SegAt(SegOf(t)).free
       /\ job' = [job EXCEPT ![t].pc = "seg", ![t].run = 0, ![t].at = @ + 1]
       /\ UNCHANGED <<conf, open, slabs, segs, caches, deferred, mapped, live, lost, ops>>

\* It then takes the slots one by one; when one has been taken meanwhile ...
SegClaim(t) ==
    LET j == job[t]
        g == SegOf(t) IN
    /\ j.pc = "claim"
    /\ IF j.next \in SegAt(g).free
       THEN /\ SetFree(g, SegAt(g).free \ {j.next})
            /\ job' = [job EXCEPT ![t].next = @ + 1,
                                  ![t].pc = IF j.next + 1 = j.start + Needed(j.size) THEN "used" ELSE @]
       ELSE /\ job' = [job EXCEPT ![t].pc = IF j.start = j.next THEN "seg" ELSE "undo",
                                  ![t].run = 0,
                                  ![t].at = @ + 1]
            /\ UNCHANGED segs
    /\ UNCHANGED <<conf, open, slabs, caches, deferred, mapped, live, lost, ops>>

\* ... it gives back those it has, and goes on behind the run it had found.
SegUndo(t) ==
    LET j == job[t] IN
    /\ j.pc = "undo"
    /\ SetFree(SegOf(t), SegAt(SegOf(t)).free \cup {j.start})
    /\ job' = [job EXCEPT ![t].start = @ + 1, ![t].pc = IF j.start + 1 = j.next THEN "seg" ELSE @]
    /\ UNCHANGED <<conf, open, slabs, caches, deferred, mapped, live, lost, ops>>

SegUsed(t) ==
    LET j == job[t]
        g == SegOf(t) IN
    /\ j.pc = "used"
    /\ segs' = [segs EXCEPT ![g[1]][g[2]][g[3]].used = @ + Needed(j.size)]
    /\ Return(t, g, j.start)
    /\ UNCHANGED <<conf, open, slabs, caches, deferred, mapped, lost, ops>>

\* sys_alloc; when mmap fails arena_realloc leaves the old block as it was.
SysAlloc(t) ==
    /\ job[t].pc = "sys"
    /\ IF mapped # SysPages
       THEN LET p == CHOOSE q \in SysPages : q \notin mapped IN
            mapped' = mapped \cup {p} /\ Return(t, Sys, p)
       ELSE /\ live' = live \cup ({job[t].old} \ {NoBlock})
            /\ job' = [job EXCEPT ![t] = Idle]
            /\ UNCHANGED mapped
    /\ UNCHANGED <<conf, open, slabs, segs, caches, deferred, lost, ops>>

----------------------------------------------------------------------------
(* arena_free of the first block of job[t].rest. *)

Freed(t) == job[t].rest[1]

Freeing(t) ==
    job' = [job EXCEPT ![t] = IF Len(@.rest) > 1 THEN [@ EXCEPT !.pc = "free", !.rest = Tail(@)]
                              ELSE IF @.then = "idle" THEN Idle
                              ELSE [@ EXCEPT !.pc = job[t].then, !.rest = <<>>]]

\* Mutant: one block more than the bin has room for.
CacheableOver(t) == /\ Freed(t).size <= SmallMax
                    /\ Len(tcache[t][Class(Freed(t).size)]) <= TcacheDepth

\* A small block goes to the thread's cache while there is room, unless the
\* thread has no cache and the memory for one is refused.
Cacheable(t) == /\ Freed(t).size <= SmallMax
                /\ Len(tcache[t][Class(Freed(t).size)]) < TcacheDepth

Uncached(t) == ~Cacheable(t) \/ (conf.oom /\ t \notin noded)

CachePut(t) ==
    /\ job[t].pc = "free"
    /\ Cacheable(t)
    /\ tcache' = [tcache EXCEPT ![t][Class(Freed(t).size)] =
                      Append(@, [seg |-> Freed(t).seg, slot |-> Freed(t).slot])]
    /\ noded' = noded \cup {t}
    /\ Freeing(t)
    /\ UNCHANGED <<conf, open, slabs, segs, deferred, mapped, live, lost, ops>>

\* Otherwise, no slab having it, the segments are asked in turn, and the
\* first that is flagged or contains it answers: seg_free looks at the flag
\* before it looks at the address.
Asked(t) == {g \in Seg : g[1] = job[t].arena /\ (SegAt(g).flagged \/ g = Freed(t).seg)}
Answers(t) == CHOOSE g \in Asked(t) :
                 \A h \in Asked(t) : g[2] < h[2] \/ (g[2] = h[2] /\ g[3] <= h[3])
Segmented(t) == Freed(t).size <= MidSize /\ Asked(t) # {}

FreeIgnored(t) ==
    /\ job[t].pc = "free"
    /\ Uncached(t)
    /\ Segmented(t)
    /\ SegAt(Answers(t)).flagged
    /\ lost' = lost \cup Lose("ignored", {Freed(t)})
    /\ Freeing(t)
    /\ UNCHANGED <<conf, open, slabs, segs, caches, deferred, mapped, live, ops>>

FreeSegment(t) ==
    /\ job[t].pc = "free"
    /\ Uncached(t)
    /\ Segmented(t)
    /\ ~SegAt(Answers(t)).flagged
    /\ job' = [job EXCEPT ![t].pc = "release", ![t].next = Freed(t).slot]
    /\ UNCHANGED <<conf, open, slabs, segs, caches, deferred, mapped, live, lost, ops>>

\* sys_free: munmap refuses an address inside a segment, which is one of
\* another arena: the block came to this one through a thread's cache.
SysFree(t) ==
    /\ job[t].pc = "free"
    /\ Uncached(t)
    /\ ~Segmented(t)
    /\ IF Freed(t).seg = Sys
       THEN mapped' = mapped \ {Freed(t).slot} /\ UNCHANGED lost
       ELSE lost' = lost \cup Lose("foreign", {Freed(t)}) /\ UNCHANGED mapped
    /\ Freeing(t)
    /\ UNCHANGED <<conf, open, slabs, segs, caches, deferred, live, ops>>

SegRelease(t) ==
    LET j == job[t]
        g == Freed(t).seg IN
    /\ j.pc = "release"
    /\ SetFree(g, SegAt(g).free \cup {j.next})
    /\ job' = [job EXCEPT ![t].next = @ + 1,
                          ![t].pc = IF j.next + 1 = Freed(t).slot + Needed(Freed(t).size)
                                    THEN "unused" ELSE @]
    /\ UNCHANGED <<conf, open, slabs, caches, deferred, mapped, live, lost, ops>>

\* Mutant: the count of used slots is not lowered.
SegUnusedKeeps(t) ==
    /\ job[t].pc = "unused"
    /\ Freeing(t)
    /\ UNCHANGED <<conf, open, slabs, segs, caches, deferred, mapped, live, lost, ops>>

SegUnused(t) ==
    LET g == Freed(t).seg
        n == Needed(Freed(t).size) IN
    /\ job[t].pc = "unused"
    /\ segs' = [segs EXCEPT ![g[1]][g[2]][g[3]].used = IF @ >= n THEN @ - n ELSE 0]
    /\ Freeing(t)
    /\ UNCHANGED <<conf, open, slabs, caches, deferred, mapped, live, lost, ops>>

----------------------------------------------------------------------------
(* Calls on a whole arena. *)

CachedBy(t) == UNION {{Block("none", p.seg, p.slot, SlabSizes[c]) :
                          p \in {tcache[t][c][n] : n \in 1 .. Len(tcache[t][c])}} : c \in Classes}

\* tcache_clear empties the caches of every thread, whatever arena their
\* blocks are from.  Segments of a are emptied; its pages stay mapped.
Forget(a) ==
    /\ tcache' = [t \in Threads |-> EmptyCache]
    /\ segs' = [segs EXCEPT ![a] = [c \in Classes |-> [i \in 1 .. SegsPerClass |->
                                       NewSeg(segs[a][c][i].there)]]]
    /\ live' = {b \in live : b.arena # a}
    /\ lost' = {x \in lost \cup Lose("emptied", UNION {CachedBy(t) : t \in Threads} \cup (live \ live')) :
                   x.block.seg = Sys \/ x.block.seg[1] # a}
    /\ UNCHANGED noded

\* arena_clear; a client that keeps conf.flush has no deferred blocks then.
Clear(t) ==
    /\ Call(t, "clear")
    /\ \A u \in Threads : job[u] = Idle
    /\ \E a \in open :
          /\ conf.flush => deferred[a] = <<>>
          /\ Forget(a)
          /\ slabs' = [slabs EXCEPT ![a] = [c \in Classes |->
                [slabs[a][c] EXCEPT !.free = slabs[a][c].total,
                       !.slabs = [i \in 1 .. MaxSlabs |-> IF @[i] = NoSlab THEN NoSlab ELSE FreshSlab]]]]
    /\ UNCHANGED <<conf, open, deferred, mapped, job>>

\* The rest of arena_destroy.
Destroy(t) ==
    /\ job[t].pc = "destroy"
    /\ Forget(job[t].arena)
    /\ slabs' = [slabs EXCEPT ![job[t].arena] = FreshSets]
    /\ job' = [job EXCEPT ![t] = Idle]
    /\ UNCHANGED <<conf, open, deferred, mapped, ops>>

\* The failure path of arena_create destroys what there is of the arena, and
\* with that empties the caches.
CreateFails(t) ==
    /\ Call(t, "create") /\ conf.oom
    /\ \E a \in conf.arenas \ open : (\A u \in Threads : job[u].arena # a) /\ Forget(a)
    /\ UNCHANGED <<conf, open, slabs, deferred, mapped, job>>

\* arena_compact of the cold tier flags the segments that are fuller than
\* the threshold; the warm tier has no segments.
Compact(t) ==
    /\ Call(t, "compact")
    /\ \A u \in Threads : job[u] = Idle
    /\ \E a \in open :
          segs' = [segs EXCEPT ![a] = [c \in Classes |-> [i \in 1 .. SegsPerClass |->
                      [@[c][i] EXCEPT !.flagged = @ \/ segs[a][c][i].used * 100 > SegSlots * CompactTrigger]]]]
    /\ UNCHANGED <<conf, open, slabs, caches, deferred, mapped, live, job, lost>>

\* tcache_destroy, when a thread ends: the blocks in its cache are forgotten.
ThreadExit(t) ==
    /\ Call(t, "exit")
    /\ lost' = lost \cup Lose("ended", CachedBy(t))
    /\ tcache' = [tcache EXCEPT ![t] = EmptyCache]
    /\ noded' = noded \ {t}
    /\ UNCHANGED <<conf, open, slabs, segs, deferred, mapped, live, job>>

Calls(t) == \/ CallAlloc(t) \/ CallFree(t) \/ CallRealloc(t) \/ CallFreeDeferred(t)
            \/ CallFlushDeferred(t) \/ CallDestroy(t) \/ CallCreate(t) \/ CreateFails(t)
            \/ Clear(t) \/ Compact(t) \/ ThreadExit(t)

Steps(t) == \/ CacheGet(t) \/ SlabLook(t) \/ SlabAdd(t) \/ SlabStore(t) \/ SlabCount(t)
            \/ SegScan(t) \/ SegNext(t) \/ SegClaim(t) \/ SegUndo(t) \/ SegUsed(t)
            \/ SysAlloc(t)
            \/ CachePut(t) \/ FreeIgnored(t) \/ FreeSegment(t) \/ SysFree(t)
            \/ SegRelease(t) \/ SegUnused(t) \/ Destroy(t)

\* conf.ops calls have been made and have returned.
Finished == ops = conf.ops /\ (\A t \in Threads : job[t] = Idle) /\ UNCHANGED vars

Next == (\E t \in Threads : Calls(t) \/ Steps(t)) \/ Finished

Spec == Init /\ [][Next]_vars

\* A thread inside a call goes on with it.
LiveSpec == Spec /\ \A t \in Threads : WF_vars(Steps(t))

----------------------------------------------------------------------------
(* Properties. *)

Pcs == {"idle", "cache", "slab", "slab_add", "slab_store", "slab_count", "seg", "claim", "undo",
        "used", "sys", "free", "release", "unused", "destroy"}
IsBlock(b) == /\ b.arena \in Arenas
              /\ \/ b.seg = Sys /\ b.slot \in SysPages
                 \/ b.seg \in Seg /\ Extent(b) \subseteq {b.seg} \X Bits

\* Every block lies inside one segment or is a page, every bin, list and
\* count is within its limit, and a slab is untouched.
TypeOK ==
    /\ open \subseteq conf.arenas
    /\ \A a \in Arenas, c \in Classes :
          /\ slabs[a][c].slabs \in [1 .. MaxSlabs -> {NoSlab, FreshSlab}]
          /\ slabs[a][c].count \in 0 .. MaxSlabs + Cardinality(Threads) - 1
          /\ \A i \in 1 .. SegsPerClass : /\ segs[a][c][i].free \subseteq Bits
                                          /\ segs[a][c][i].used \in 0 .. SegSlots * (1 + Cardinality(Threads))
                                          /\ segs[a][c][i].flagged => segs[a][c][i].there
    /\ \A t \in Threads, c \in Classes : Len(tcache[t][c]) <= TcacheDepth
    /\ \A a \in Arenas : Len(deferred[a]) <= DeferredBatch
    /\ mapped \subseteq SysPages
    /\ \A b \in live : IsBlock(b)
    /\ \A t \in Threads : /\ job[t].pc \in Pcs
                          /\ \A n \in 1 .. Len(job[t].rest) : IsBlock(job[t].rest[n])

\* What a thread has of the block it is taking or giving back.
InWork(t) ==
    LET j == job[t] IN
    CASE j.pc \in {"claim", "undo", "used"} -> {<<SegOf(t), s>> : s \in j.start .. j.next - 1}
      [] j.pc = "release" -> {e \in Extent(Freed(t)) : e[2] >= j.next}
      [] j.pc = "unused" -> {}
      [] j.pc = "free" -> Extent(Freed(t))
      [] OTHER -> {}

\* All memory somebody has a pointer to, with the place of the pointer.
Held ==
    {<<"live", b, Extent(b)>> : b \in live}
    \cup UNION {{<<"cache", <<t, c, n>>,
                   Extent(Block("none", tcache[t][c][n].seg, tcache[t][c][n].slot, SlabSizes[c]))>> :
                 n \in 1 .. Len(tcache[t][c])} : t \in Threads, c \in Classes}
    \cup UNION {{<<"deferred", <<a, n>>, Extent(deferred[a][n])>> : n \in 1 .. Len(deferred[a])} : a \in Arenas}
    \cup UNION {{<<"queued", <<t, n>>, Extent(job[t].rest[n])>> : n \in 2 .. Len(job[t].rest)} : t \in Threads}
    \cup {<<"old", t, Extent(job[t].old)>> : t \in {u \in Threads : job[u].old # NoBlock}}
    \cup {<<"work", t, InWork(t)>> : t \in Threads}

Taken == {<<Sys, p>> : p \in mapped}
         \cup UNION {{<<g, s>> : s \in Bits \ SegAt(g).free} : g \in Seg}

\* No two threads, lists or caches have the same memory: what arena_alloc
\* hands out is in no other live block, and is marked as taken, however
\* allocations, rollbacks, frees and reallocations interleave.
Exclusive ==
    /\ \A x, y \in Held : x # y => x[3] \cap y[3] = {}
    /\ \A x \in Held : x[3] \subseteq Taken

\* A lost block has a cause of its kind.  "ignored": a flagged segment took
\* its free for one of its own, and segments are flagged by a compaction;
\* "foreign": it was freed through an arena other than the one it lies in;
\* "ended": it was in the cache of a thread that ended; "emptied": it was in
\* a cache, or a page, when an arena was cleared or destroyed.
Excused(x) ==
    CASE x.why = "ignored" -> "compact" \in conf.calls
      [] x.why = "foreign" -> x.block.seg # Sys /\ x.block.seg[1] # x.block.arena
      [] x.why = "ended" -> x.block.size <= SmallMax
      [] x.why = "emptied" -> x.block.seg = Sys \/ x.block.size <= SmallMax

\* Memory marked as taken is held by somebody, or is one of the four kinds
\* of blocks that the code gives up, each for its cause: frees ignored after
\* a compaction (arena.c:602), blocks freed through an arena that got them
\* from the cache of another and that munmap refuses (arena.c:975), the
\* caches of threads that end, and caches and pages when an arena is cleared
\* or destroyed.  A client of one arena that only allocates, reallocates and
\* frees loses nothing.
MemoryAccounted ==
    /\ Taken = UNION {x[3] : x \in Held} \cup UNION {Extent(x.block) : x \in lost}
    /\ \A x \in lost : Excused(x)
    /\ Cardinality(conf.arenas) = 1 /\ conf.calls \subseteq {"alloc", "realloc", "free", "defer", "flush"} =>
          lost = {}

\* No free is ignored: what arena_free does where nothing was compacted.
NoFreeIgnored == \A x \in lost : x.why # "ignored"

\* The count of used slots in a segment's control word, by which compaction
\* decides, is the number of slots taken when no thread works in it.
UsedAgrees ==
    \A g \in Seg :
       (\A t \in Threads : /\ job[t].pc \in {"claim", "undo", "used"} => SegOf(t) # g
                           /\ job[t].pc \in {"release", "unused"} => Freed(t).seg # g)
       => SegAt(g).used = SegSlots - Cardinality(SegAt(g).free)

\* A slab set whose threads are done has its slabs in its first places, also
\* after several threads found it without room at once, and counts them.
SlabsAccounted ==
    \A a \in Arenas, c \in Classes :
       (\A t \in Threads : job[t].pc \in {"slab_add", "slab_store", "slab_count"}
                              => job[t].arena # a \/ MyClass(t) # c)
       => LET set == slabs[a][c]
              stored == {i \in 1 .. MaxSlabs : set.slabs[i] # NoSlab} IN
          stored = Upto(set.count) /\ set.total = SlabSlots * Cardinality(stored) /\ set.free = set.total

\* The counts by which the allocator decides are right: those of segments
\* and those of slab sets.
CountsAgree == UsedAgrees /\ SlabsAccounted

\* A thread that keeps running returns from every call: neither the scan,
\* nor the rollback, nor the queue of deferred frees goes round for ever.
CallsReturn == \A t \in Threads : job[t] # Idle ~> job[t] = Idle
=============================================================================
