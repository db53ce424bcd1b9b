------------------------------- MODULE HtBare -------------------------------
(***************************************************************************)
(* The bare Robin Hood table (src/src/ht.c, first half): hashes to 32-bit  *)
(* values, linear probing, tombstones, a spill lane for the two reserved   *)
(* hashes, an overflow stash for entries pushed further than               *)
(* max_probe_dist.                                                         *)
(*                                                                         *)
(* A table is a record and every function of the code an operator on it,   *)
(* because the keyed table (HtTable) calls them in the middle of its own   *)
(* operations.  b.oom is the set of allocations refused during the call.   *)
(* A result is [ok, b]: a call that fails may have changed the table.      *)
(***************************************************************************)
EXTENDS Integers, Sequences, FiniteSets, SequencesExt

CONSTANTS
    BarePairs,      \* the hashes (their low 48 bits) and values a client passes
    InitialCap,     \* initial_capacity, a power of two
    BShiftCap,      \* BSHIFT_CAP
    StashCap,       \* HT_OVERFLOW_STASH_CAP
    SpillInitial,   \* SPILL_INITIAL
    SizeWrap,       \* 2^64 for the counters
    MaxHeld         \* bound on the entries of a bare table

EMPTY == 0
TOMB == 1
Free(h) == [h |-> h, pd |-> 0, v |-> -1]
Live(s) == s.h > TOMB

NextPow2(n) == CHOOSE p \in {2 ^ i : i \in 0 .. 8} : p >= n /\ (p = 1 \/ p \div 2 < n)

EmptySlots(cap) == [i \in 0 .. cap - 1 |-> Free(EMPTY)]

\* c is the part of ht_config_t that does not change: max_probe_dist (0 for no
\* limit) and max_load_factor in percent; lane is the spill lane's capacity when
\* the block was laid out, over the word of entries[] in which spill_vals begins
\* after ht_clear of a keyed table, -1 while it is in its own place
NewBare(cap, c) ==
    [cap |-> cap, max_probe |-> c.max_probe, max_load |-> c.max_load, slots |-> EmptySlots(cap), size |-> 0, tombs |-> 0,
     spill |-> <<>>, spill_cap |-> SpillInitial, in_block |-> FALSE, lane |-> SpillInitial, over |-> -1,
     overflow |-> <<>>, violated |-> FALSE, resizing |-> FALSE, oom |-> {}]

MainLive(b) == b.size - Len(b.spill) - Len(b.overflow)
Overloaded(b) == ~ b.resizing /\ (MainLive(b) + 1) * 100 > b.max_load * b.cap

Done(b) == [ok |-> TRUE, b |-> b]
Failed(b) == [ok |-> FALSE, b |-> b]
-----------------------------------------------------------------------------
(* Spill lane and overflow stash: sequences of [h, v].                     *)

SpillInsert(b, h, v) ==
    IF Len(b.spill) >= b.spill_cap /\ "spill" \in b.oom
    THEN Failed(b)
    ELSE Done([b EXCEPT !.spill = Append(@, [h |-> h, v |-> v]),
                        !.spill_cap = IF Len(b.spill) >= @ THEN 2 * @ ELSE @,
                        !.in_block = @ /\ Len(b.spill) < b.spill_cap,
                        !.over = IF Len(b.spill) < b.spill_cap THEN @ ELSE -1,
                        !.size = @ + 1])

Without(lane, h) == SelectSeq(lane, LAMBDA e : e.h # h)
ValsOf(lane, h) ==
    LET found == SelectSeq(lane, LAMBDA e : e.h = h)
    IN  [i \in 1 .. Len(found) |-> found[i].v]

FirstOf(lane, h, v) ==
    LET I == {i \in 1 .. Len(lane) : lane[i].h = h /\ lane[i].v = v}
    IN  IF I = {} THEN 0 ELSE CHOOSE i \in I : \A j \in I : i <= j

SpillRemove(b, h) ==
    [b EXCEPT !.spill = Without(@, h), !.size = @ - (Len(b.spill) - Len(Without(b.spill, h)))]

SpillRemoveVal(b, h, v) ==
    LET i == FirstOf(b.spill, h, v)
    IN  IF i = 0 THEN b ELSE [b EXCEPT !.spill = RemoveAt(@, i), !.size = @ - 1]

OverflowRemove(b, h) ==
    [b EXCEPT !.overflow = Without(@, h),
              !.size = @ - (Len(b.overflow) - Len(Without(b.overflow, h)))]

\* the last entry moves into the gap
OverflowRemoveVal(b, h, v) ==
    LET i == FirstOf(b.overflow, h, v)
    IN  IF i = 0 THEN b
        ELSE [b EXCEPT !.overflow = Front([@ EXCEPT ![i] = Last(b.overflow)]), !.size = @ - 1]
-----------------------------------------------------------------------------
(* Insertion.                                                              *)

At(b, i) == b.slots[i % b.cap]

\* an entry further on, found within BSHIFT_CAP slots and before an empty one,
\* would no longer be reached if the tombstone at i took an entry at distance d
Blocked(b, i, d) ==
    \E k \in 1 .. BShiftCap :
        /\ Live(At(b, i + k)) /\ At(b, i + k).pd > d + k
        /\ \A j \in 1 .. k - 1 : At(b, i + j).h # EMPTY

\* bare_place_prophylactic_tombstones: every spacing-th slot that is empty
Spacing(b) ==
    LET x == IF b.size >= b.cap THEN 3 * b.cap
             ELSE IF b.size * 100 < b.cap THEN 3
             ELSE (3 * b.cap) \div (b.cap - b.size)
    IN  IF x < 4 THEN 4 ELSE x

Prophylactic(b) ==
    LET P == {i \in 0 .. b.cap - 1 : i % Spacing(b) = 0 /\ b.slots[i].h = EMPTY}
    IN  [b EXCEPT !.slots = [i \in 0 .. b.cap - 1 |-> IF i \in P THEN Free(TOMB) ELSE @[i]],
                  !.tombs = @ + Cardinality(P)]

LiveSeq(b) == SelectSeq([i \in 1 .. b.cap |-> b.slots[i - 1]], Live)

RECURSIVE Probe(_, _, _, _, _, _)
RECURSIVE ResizeTable(_)

Over(b, bounded, d) == bounded /\ b.max_probe > 0 /\ d > b.max_probe

\* the overflow stash, or when it is full ("Policy B") the table without a limit
Stash(b, h, v) ==
    IF Len(b.overflow) < StashCap
    THEN Done([b EXCEPT !.overflow = Append(@, [h |-> h, v |-> v]), !.size = @ + 1])
    ELSE Probe([b EXCEPT !.violated = TRUE], h, v, h % b.cap, 0, FALSE)

\* a tombstone that is passed over is not compared with the limit, and one that
\* is taken is uncounted before the comparison
TakeSlot(b, h, v, i, d, bounded) ==
    LET t == IF b.slots[i].h = TOMB THEN [b EXCEPT !.tombs = (@ - 1) % SizeWrap] ELSE b
    IN  IF Over(b, bounded, d) THEN Stash(t, h, v)
        ELSE Done([t EXCEPT !.slots[i] = [h |-> h, pd |-> d, v |-> v], !.size = @ + 1])

\* from the ideal slot, in the table r as it was grown
ProbeGrown(r, h, v, bounded) ==
    IF r.ok THEN Probe(r.b, h, v, h % r.b.cap, 0, bounded) ELSE r

\* one round of the loop of bare_rh_insert_bounded, or of the unbounded one
Probe(b, h, v, i, d, bounded) ==
    LET s == b.slots[i]
        next == (i + 1) % b.cap
    IN  IF s.h = TOMB /\ Blocked(b, i, d) THEN Probe(b, h, v, next, d + 1, bounded)
        ELSE IF ~ Live(s) THEN TakeSlot(b, h, v, i, d, bounded)
        ELSE IF s.pd < d
        THEN LET swapped == [b EXCEPT !.slots[i] = [h |-> h, pd |-> d, v |-> v]]
             IN  IF Over(b, bounded, s.pd + 1) THEN Stash(swapped, s.h, s.v)
                 ELSE Probe(swapped, s.h, s.v, next, s.pd + 1, bounded)
        ELSE IF Over(b, bounded, d + 1) THEN Stash(b, h, v)
        ELSE IF d + 1 > b.cap THEN ProbeGrown(ResizeTable(b), h, v, bounded)
        ELSE Probe(b, h, v, next, d + 1, bounded)


RhInsert(b, h, v) == ProbeGrown(Done(b), h, v, TRUE)

\* under its hash, wherever that belongs
Place(b, h, v) == IF h <= TOMB THEN SpillInsert(b, h, v) ELSE RhInsert(b, h, v)

\* insertion of every entry of a sequence; what does not fit is not noticed
Reinsert(b, lane) == FoldLeft(LAMBDA t, e : RhInsert(t, e.h, e.v).b, b, lane)
Respill(b, lane) == FoldLeft(LAMBDA t, e : SpillInsert(t, e.h, e.v).b, b, lane)

SpillRoom(b) == IF Len(b.spill) > SpillInitial THEN Len(b.spill) ELSE SpillInitial

\* all entries into a new block of cap slots
Rebuilt(b, cap, locked) ==
    LET new == [NewBare(cap, b) EXCEPT
                    !.spill_cap = SpillRoom(b), !.lane = SpillRoom(b), !.resizing = locked, !.oom = b.oom]
    IN  Prophylactic(Reinsert(Respill(Reinsert(new, LiveSeq(b)), b.spill), b.overflow))

AtLeast4(n) == IF n < 4 THEN 4 ELSE n

\* bare_resize_table: the capacity follows from the size alone
ResizeTable(b) ==
    IF b.resizing \/ "resize" \in b.oom THEN Failed(b)
    ELSE Done([Rebuilt(b, AtLeast4(NextPow2(2 * b.size)), TRUE) EXCEPT !.resizing = FALSE])

\* mutant: insists that half the new slots stay free
BareResizeHalf(b, cap) == IF cap <= 2 * (MainLive(b) + 1) THEN Failed(b) ELSE ResizeTable(b)

BareResize(b, cap) == IF cap < MainLive(b) THEN Failed(b) ELSE ResizeTable(b)

BareCompact(b) == IF "resize" \in b.oom THEN b ELSE Rebuilt(b, b.cap, b.resizing)

BareClear(b) == [NewBare(b.cap, b) EXCEPT !.spill_cap = b.spill_cap, !.in_block = b.in_block,
                                         !.lane = b.lane, !.over = b.over]

Relieved(b) == IF Overloaded(b) THEN BareResize(b, 2 * b.cap) ELSE Done(b)
\* the second growth: the overflow stash is full
Drained(r) ==
    IF r.ok /\ r.b.max_probe > 0 /\ Len(r.b.overflow) = StashCap
    THEN BareResize(r.b, 2 * r.b.cap) ELSE r

BareInsert(b, h, v) ==
    IF h <= TOMB THEN SpillInsert(b, h, v) ELSE ProbeGrown(Drained(Relieved(b)), h, v, TRUE)
-----------------------------------------------------------------------------
(* Lookup: the distances from the ideal slot a probe visits before it      *)
(* breaks off at an empty slot, at an entry closer to its own ideal slot,  *)
(* or beyond the limit.                                                    *)

BreaksOff(b, h, d, limited) ==
    LET s == At(b, h + d)
    IN  \/ s.h = EMPTY
        \/ Live(s) /\ s.pd < d
        \/ Live(s) /\ limited /\ ~ b.violated /\ b.max_probe > 0 /\ d > b.max_probe

Visited(b, h, limited) ==
    {d \in 0 .. b.cap : \A e \in 0 .. d : ~ BreaksOff(b, h, e, limited)}

\* ht_bare_find_all: the values found for a hash, in the order of the callbacks;
\* ht_bare_find returns the first
FindAll(b, h) ==
    LET D == Visited(b, h, TRUE)
        probed == SelectSeq([d \in 1 .. b.cap + 1 |-> [At(b, h + d - 1) EXCEPT !.pd = d - 1]],
                            LAMBDA s : s.pd \in D)
    IN  IF h <= TOMB THEN ValsOf(b.spill, h) ELSE ValsOf(probed \o b.overflow, h)
-----------------------------------------------------------------------------
(* Removal.                                                                *)

\* bare_delete_compact, with the slot i just made a tombstone: the entries of
\* the n slots behind it, when these end at an empty slot, move up to their
\* ideal slots; n is BShiftCap when the scan gives up
EndsChain(s) == s.h = EMPTY \/ (Live(s) /\ s.pd = 0)

ChainLen(b, i) ==
    LET E == {k \in 1 .. BShiftCap : EndsChain(At(b, i + k))}
    IN  IF E = {} THEN BShiftCap ELSE (CHOOSE k \in E : \A j \in E : k <= j) - 1

ChainLive(b, i, n) == {k \in 1 .. n : Live(At(b, i + k))}
Rank(S, k) == Cardinality({j \in S : j < k})

IdealSafe(b, i, L) ==
    \A k \in L :
        LET s == At(b, i + k)
            target == (i + Rank(L, k)) % b.cap
            ideal == s.h % b.cap
        IN  ~ (ideal > target /\ ideal - target < b.cap \div 2) /\ k - Rank(L, k) <= s.pd

\* mutant: the entries keep their probe distances
BackwardShiftKeepsPd(b, i, n, L) ==
    LET moved(w) == CHOOSE k \in L : Rank(L, k) = w
        new(w) == IF w < Cardinality(L) THEN At(b, i + moved(w)) ELSE Free(EMPTY)
    IN  [b EXCEPT !.slots = [p \in DOMAIN @ |-> LET w == (p - i) % b.cap
                                                IN  IF w <= n THEN new(w) ELSE @[p]],
                  !.tombs = (@ - (n - Cardinality(L)) - 1) % SizeWrap]

BackwardShift(b, i, n, L) ==
    LET moved(w) == CHOOSE k \in L : Rank(L, k) = w
        new(w) == IF w < Cardinality(L)
                  THEN [At(b, i + moved(w)) EXCEPT !.pd = @ - (moved(w) - w)]
                  ELSE Free(EMPTY)
    IN  [b EXCEPT !.slots = [p \in DOMAIN @ |-> LET w == (p - i) % b.cap
                                                IN  IF w <= n THEN new(w) ELSE @[p]],
                  !.tombs = (@ - (n - Cardinality(L)) - 1) % SizeWrap]

ShiftChain(b, i, n, L) ==
    IF n < BShiftCap /\ At(b, i + n + 1).h = EMPTY /\ L # {} /\ IdealSafe(b, i, L)
    THEN BackwardShift(b, i, n, L) ELSE b
CompactChain(b, i, n) == ShiftChain(b, i, n, ChainLive(b, i, n))
DeleteCompact(b, i) == CompactChain(b, i, ChainLen(b, i))

TombAt(b, i) ==
    DeleteCompact([b EXCEPT !.slots[i] = Free(TOMB), !.tombs = @ + 1, !.size = @ - 1], i)

\* the loop of ht_bare_remove: a removal does not advance but is one of the
\* capacity + 1 steps
RECURSIVE RemoveLoop(_, _, _, _)

\* mutant: a removal advances past the entry shifted into the slot
RemoveLoopAdvances(b, h, d, steps) ==
    IF steps > b.cap \/ BreaksOff(b, h, d, FALSE) THEN b
    ELSE IF At(b, h + d).h = h THEN RemoveLoop(TombAt(b, (h + d) % b.cap), h, d + 1, steps + 1)
    ELSE RemoveLoop(b, h, d + 1, steps + 1)

RemoveLoop(b, h, d, steps) ==
    IF steps > b.cap \/ BreaksOff(b, h, d, FALSE) THEN b
    ELSE IF At(b, h + d).h = h THEN RemoveLoop(TombAt(b, (h + d) % b.cap), h, d, steps + 1)
    ELSE RemoveLoop(b, h, d + 1, steps + 1)

BareRemove(b, h) ==
    IF h <= TOMB THEN SpillRemove(b, h) ELSE OverflowRemove(RemoveLoop(b, h, 0, 0), h)

BareRemoveVal(b, h, v) ==
    LET D == {d \in Visited(b, h, FALSE) : At(b, h + d).h = h /\ At(b, h + d).v = v}
    IN  IF h <= TOMB THEN SpillRemoveVal(b, h, v)
        ELSE IF D = {} THEN OverflowRemoveVal(b, h, v)
        ELSE TombAt(b, (h + CHOOSE d \in D : \A e \in D : d <= e) % b.cap)
-----------------------------------------------------------------------------
\* mutant: the iterator ends with the spill lane
IteratedToSpill(b) ==
    LET main == LiveSeq(b)
    IN  [i \in 1 .. Len(main) |-> [h |-> main[i].h, v |-> main[i].v]] \o b.spill

\* ht_bare_iter_next from the beginning to the end of a table left alone
Iterated(b) ==
    LET main == LiveSeq(b)
    IN  [i \in 1 .. Len(main) |-> [h |-> main[i].h, v |-> main[i].v]] \o b.spill \o b.overflow

\* ht_bare_check_invariants returns NULL
CheckInvariants(b) ==
    LET live == {i \in 0 .. b.cap - 1 : Live(b.slots[i])}
        dist(i) == (i - b.slots[i].h) % b.cap
    IN  /\ \A i \in live : b.slots[i].pd = dist(i)
        /\ b.size = Cardinality(live) + Len(b.spill) + Len(b.overflow)
        /\ Len(b.overflow) <= StashCap
        /\ b.tombs = Cardinality({i \in 0 .. b.cap - 1 : b.slots[i].h = TOMB})
        /\ \A i \in live : \A d \in 0 .. dist(i) - 1 : ~ BreaksOff(b, b.slots[i].h, d, FALSE)
=============================================================================
