------------------------------ MODULE CqfFilter ------------------------------
(* The counting quotient filter of src/src/cqf_filter.c.  The runs lie one *)
(* behind the other in the order of their quotients; a run is a sequence   *)
(* of entries, one per remainder in ascending order, and an entry encodes  *)
(* how often its remainder was inserted.  The prefix sums are left out:    *)
(* update_offsets recomputes them whenever occ or run has changed, and the *)
(* block offsets are never read.                                           *)
EXTENDS Integers, FiniteSets, Sequences, SequencesExt

CONSTANT SlotsPerBlock     \* CQF_SLOTS_PER_BLOCK, 64: the smallest filter

Least(S) == CHOOSE p \in S : \A q \in S : p <= q

rank_occ_fast(cf, pos) == Cardinality({p \in cf.occ : p <= pos})
select_run_fast(cf, k) ==
    IF k = 0 THEN 0
    ELSE IF k > Cardinality(cf.run) THEN cf.num_slots - 1
    ELSE CHOOSE p \in cf.run : Cardinality({o \in cf.run : o <= p}) = k
run_start_cqf(cf, k) == IF k = 1 THEN 0 ELSE (select_run_fast(cf, k - 1) + 1) % cf.num_slots
LastRunend(cf) == select_run_fast(cf, Cardinality(cf.occ))

RunOf(cf, k) == [has |-> TRUE, start |-> run_start_cqf(cf, k), end |-> select_run_fast(cf, k)]
\* the occupied quotients met going down from q, and round
Before(cf, q) ==
    SelectSeq([i \in 1 .. cf.num_slots |-> (q + cf.num_slots - i) % cf.num_slots],
              LAMBDA p : p \in cf.occ)
find_run(cf, q) ==
    IF q \in cf.occ THEN RunOf(cf, rank_occ_fast(cf, q))
    ELSE IF q \notin cf.run THEN [has |-> FALSE, start |-> 0, end |-> 0]
    ELSE IF cf.occ = {} THEN [has |-> TRUE, start |-> 0, end |-> q]
    ELSE RunOf(cf, rank_occ_fast(cf, Before(cf, q)[1]))

-----------------------------------------------------------------------------
(* The counters.                                                           *)
RECURSIVE Digits(_, _)
Digits(val, base) ==
    IF val < base THEN <<val>> ELSE Append(Digits(val \div base, base), val % base)
Symbol(x, d) == IF x = 0 \/ d < x - 1 THEN d + 1 ELSE d + 2
Base(x, rbits) == IF x = 0 THEN 2^rbits - 1 ELSE 2^rbits - 2

cqf_encode(C, x, rbits) ==
    LET digits == Digits(C - 3, Base(x, rbits))
        enc == [i \in DOMAIN digits |-> Symbol(x, digits[i])]
    IN  IF C <= 2 THEN <<>>
        ELSE IF x > 0 /\ enc[1] >= x THEN <<0>> \o enc
        ELSE enc

\* the slots of an entry, as cqf_write_entry fills them
EntryOf(C, x, rbits) ==
    LET enc == cqf_encode(C, x, rbits)
    IN  IF C <= 1 THEN <<x>>
        ELSE IF C = 2 THEN <<x, x>>
        ELSE IF x = 0 THEN <<0, 0>> \o enc \o <<0, 0>>
        ELSE <<x>> \o enc \o <<x>>
cqf_enc_slots(C, x, rbits) == Len(EntryOf(C, x, rbits))

Digit(x, sym) == IF sym = 0 THEN 0 ELSE IF x = 0 \/ sym < x THEN sym - 1 ELSE sym - 2
decode_count(enc, x, rbits) ==
    3 + FoldLeft(LAMBDA val, sym : val * Base(x, rbits) + Digit(x, sym), 0, enc)

\* how often the entry at position p of a run that ends at rend counts its
\* remainder, and the position behind the entry; i is the first slot behind p
\* that is not 0, and t the first behind i that is
ZeroEntry(cf, p, i, t, rend) ==
    IF i - p > 2 THEN [cnt |-> 1, next |-> p + 1]
    ELSE IF i - p = 2 /\ t < rend /\ cf.rem[t + 1] = 0
    THEN [cnt |-> decode_count([k \in 1 .. t - i |-> cf.rem[i + k - 1]], 0, cf.rbits),
          next |-> t + 2]
    ELSE [cnt |-> i - p, next |-> i]
\* j is the first slot behind p that holds the same remainder
NonzeroEntry(cf, p, j, rend) ==
    IF j > rend THEN [cnt |-> 1, next |-> p + 1]
    ELSE IF j = p + 1 THEN [cnt |-> 2, next |-> j + 1]
    ELSE [cnt |-> decode_count([k \in 1 .. j - p - 1 |-> cf.rem[p + k]], cf.rem[p], cf.rbits),
          next |-> j + 1]
EntryAt(cf, p, rend) ==
    LET After(n, Ok(_)) == Least({m \in n .. rend : Ok(cf.rem[m])} \cup {rend + 1})
        i == After(p + 1, LAMBDA v : v # 0)
    IN  IF cf.rem[p] = 0 THEN ZeroEntry(cf, p, i, After(i, LAMBDA v : v = 0), rend)
        ELSE NonzeroEntry(cf, p, After(p + 1, LAMBDA v : v = cf.rem[p]), rend)

NoEntry == [ok |-> FALSE, rem |-> 0, cnt |-> 0, next |-> 0]
Checked(cf, p, e) ==
    IF e.next - p # cqf_enc_slots(e.cnt, cf.rem[p], cf.rbits) THEN NoEntry
    ELSE [ok |-> TRUE, rem |-> cf.rem[p], cnt |-> e.cnt, next |-> e.next]
FirstEntry(cf, p, rend) == IF p > rend THEN NoEntry ELSE Checked(cf, p, EntryAt(cf, p, rend))
\* the entry at pos or, where a deletion has left a gap, behind it
cqf_decode_entry(cf, rend, pos) ==
    FirstEntry(cf, Least({p \in pos .. rend : p \in cf.phys} \cup {rend + 1}), rend)

-----------------------------------------------------------------------------
(* The entry of a remainder in a run.  A run that wraps is decoded from    *)
(* slot 0 on: before that cqf_decode_entry fails, its position being       *)
(* behind the end of the run.                                              *)
Wrapped(r) == r.start > r.end
Miss(at) == [hit |-> FALSE, at |-> at, next |-> at, cnt |-> 0]
RECURSIVE ScanFrom(_, _, _, _, _, _)
ScanEntry(cf, r, rem, stop, pos, at, e) ==
    IF ~ e.ok THEN Miss(at)
    ELSE IF e.rem = rem THEN [hit |-> TRUE, at |-> pos, next |-> e.next, cnt |-> e.cnt]
    ELSE IF stop /\ e.rem > rem THEN Miss(pos)
    ELSE ScanFrom(cf, r, rem, stop, e.next, e.next)
ScanFrom(cf, r, rem, stop, pos, at) ==
    ScanEntry(cf, r, rem, stop, pos, at, cqf_decode_entry(cf, r.end, pos))
\* stop: an entry with a greater remainder ends the search
Scanned(cf, r, rem, stop) ==
    ScanFrom(cf, r, rem, stop, IF Wrapped(r) THEN 0 ELSE r.start, (r.end + 1) % cf.num_slots)

Quotient(cf, hash) == (hash \div 2^cf.rbits) % cf.num_slots
Remainder(cf, hash) == hash % 2^cf.rbits

cqf_filter_lookup(cf, hash) ==
    /\ cf.count # 0
    /\ \E r \in {find_run(cf, Quotient(cf, hash))} :
        r.has /\ Scanned(cf, r, Remainder(cf, hash), TRUE).hit
cqf_filter_count_occurrences(cf, hash) ==
    LET CountIn(r, rem) == IF r.has THEN Scanned(cf, r, rem, rem # 0).cnt ELSE 0
    IN  IF cf.count = 0 THEN 0
        ELSE CountIn(find_run(cf, Quotient(cf, hash)), Remainder(cf, hash))

-----------------------------------------------------------------------------
Power(n) == Least({p \in {2^i : i \in 0 .. n} : p >= n})
cqf_filter_create(capacity, rbits) ==
    LET ns == IF Power(capacity) < SlotsPerBlock THEN SlotsPerBlock ELSE Power(capacity)
    IN  [num_slots |-> ns, rbits |-> rbits, count |-> 0, distinct |-> 0,
         occ |-> {}, run |-> {}, phys |-> {}, rem |-> [p \in 0 .. ns - 1 |-> 0]]
cqf_filter_reset(cf) == cqf_filter_create(cf.num_slots, cf.rbits)

Full(cf) == [ok |-> FALSE, f |-> cf]
Ok(cf) == [ok |-> TRUE, f |-> cf]

Put(cf, pos, vals) ==
    [cf EXCEPT !.rem = [p \in DOMAIN @ |->
        IF p \in pos .. pos + Len(vals) - 1 THEN vals[p - pos + 1] ELSE @[p]]]
Wiped(cf, S) ==
    [cf EXCEPT !.rem = [p \in DOMAIN @ |-> IF p \in S THEN 0 ELSE @[p]],
               !.run = @ \ S, !.phys = @ \ S]
\* positions first .. last, going round
Span(cf, first, last) ==
    IF first <= last THEN first .. last ELSE first .. cf.num_slots - 1 \cup 0 .. last

\* the n slots from src on move to dst and behind, nearest to dst first
MoveSlot(cf, src, dst) ==
    [cf EXCEPT !.rem[dst] = cf.rem[src],
               !.phys = IF src \in @ THEN (@ \cup {dst}) \ {src} ELSE @,
               !.run = IF src \in @ THEN (@ \cup {dst}) \ {src} ELSE @ \ {dst}]
MoveSlots(cf, src, dst, n) ==
    LET order == [i \in 1 .. n |-> IF dst < src THEN i - 1 ELSE n - i]
        At(p, k) == (p + k) % cf.num_slots
    IN  FoldLeft(LAMBDA g, k : MoveSlot(g, At(src, k), At(dst, k)), cf, order)

\* slots from p to the end of the last run that must move, 0 if p lies behind
TailSlots(cf, r, p, last) ==
    IF ~ Wrapped(r) THEN IF p <= last THEN last - p + 1 ELSE 0
    ELSE ((last + cf.num_slots - (p % cf.num_slots)) % cf.num_slots) + 1

-----------------------------------------------------------------------------
\* old slots from at on become the new entry and tail slots move up to it
Rewritten(cf, r, at, old, entry, tail) ==
    LET start == at + Len(entry)
        moved == MoveSlots(cf, at + old, start, tail)
    IN  [Put(Wiped(moved, at .. start - 1), at, entry) EXCEPT
            !.phys = @ \cup at .. start - 1,
            !.run = @ \cup {(r.end - old + Len(entry)) % cf.num_slots}]
\* what is left behind a shorter entry: from after to the end of the last run
Leftover(cf, after, limit) ==
    IF after <= limit THEN after .. limit
    ELSE IF after < cf.num_slots \/ limit > 0 THEN after .. cf.num_slots - 1 \cup 0 .. limit
    ELSE {}
\* the entry e that Scanned has found takes another number of slots
Resized(cf, r, e, entry, limit, tail) ==
    LET old == e.next - e.at
        after == ((e.at + Len(entry) + tail - 1) % cf.num_slots) + 1
    IN  Wiped(Rewritten(cf, r, e.at, old, entry, tail),
              IF Len(entry) < old THEN Leftover(cf, after, limit) ELSE {})

\* the same in as many slots: the symbols change
Recounted(cf, e, rem, C) ==
    IF C > 2 /\ e.cnt > 2
    THEN Put(cf, e.at + (IF rem = 0 THEN 2 ELSE 1), cqf_encode(C, rem, cf.rbits))
    ELSE cf

ResizeIfFits(cf, r, e, entry, limit, tail) ==
    IF /\ Len(entry) > e.next - e.at /\ ~ Wrapped(r)
       /\ e.at + Len(entry) + tail > cf.num_slots
    THEN Full(cf)
    ELSE Ok(Resized([cf EXCEPT !.count = @ + 1], r, e, entry, limit, tail))
Grown(cf, r, e, entry, limit) ==
    ResizeIfFits(cf, r, e, entry, limit, TailSlots(cf, r, e.next, limit))
Incremented(cf, r, e, rem, entry) ==
    IF Len(entry) = e.next - e.at
    THEN Ok(Recounted([cf EXCEPT !.count = @ + 1], e, rem, e.cnt + 1))
    ELSE Grown(cf, r, e, entry, IF Len(entry) < e.next - e.at THEN r.end ELSE LastRunend(cf))

-----------------------------------------------------------------------------
PushSlot(cf, p) ==
    [cf EXCEPT !.rem = [@ EXCEPT ![p + 1] = cf.rem[p], ![p] = 0],
               !.phys = IF p \in @ THEN (@ \cup {p + 1}) \ {p} ELSE @,
               !.run = IF p \in @ THEN (@ \cup {p + 1}) \ {p} ELSE @]
Push(cf, from, to) == FoldLeft(PushSlot, cf, [i \in 1 .. to - from |-> to - i])
shift_range_right(cf, from, to) ==
    LET last == cf.num_slots - 1
        round == Push(Push(cf, from, last), 0, to)
    IN  IF from <= to THEN Push(cf, from, to)
        ELSE [round EXCEPT !.rem[0] = cf.rem[last],
                           !.run = (IF last \in cf.run THEN @ \cup {0} ELSE @ \ {0}) \ {last},
                           !.phys = @ \ {last}]

\* a free slot behind the last run, or round from the start
FreeSlots(cf) ==
    LET first == LastRunend(cf) + 1
    IN  SelectSeq([i \in 1 .. cf.num_slots |-> (first + i - 1) % cf.num_slots],
                  LAMBDA p : p \notin cf.phys)
\* rem is stored at pos with count 1
Stored(cf, pos, rem, free) ==
    [Put(shift_range_right(cf, pos, free[1]), pos, <<rem>>) EXCEPT
        !.phys = @ \cup {pos}, !.count = @ + 1, !.distinct = @ + 1]

NewRun(cf, q, rem, pos, free) ==
    IF free = <<>> THEN Full(cf)
    ELSE Ok([Stored(cf, pos, rem, free) EXCEPT !.run = @ \cup {pos}, !.occ = @ \cup {q}])
NewEntry(cf, r, rem, pos, free) ==
    IF free = <<>> THEN Full(cf)
    ELSE Ok([Stored(cf, pos, rem, free) EXCEPT
                !.run = IF (r.end + 1) % cf.num_slots = pos THEN (@ \ {r.end}) \cup {pos} ELSE @])

InsertEntry(cf, r, rem, e) ==
    IF e.hit THEN Incremented(cf, r, e, rem, EntryOf(e.cnt + 1, rem, cf.rbits))
    ELSE NewEntry(cf, r, rem, e.at, FreeSlots(cf))
InsertIn(cf, r, rem) == InsertEntry(cf, r, rem, Scanned(cf, r, rem, TRUE))
cqf_filter_insert(cf, hash) ==
    LET q == Quotient(cf, hash)
        rem == Remainder(cf, hash)
        rk == rank_occ_fast(cf, q)
        behind == select_run_fast(cf, rk)
    IN  IF cf.count >= cf.num_slots * 16 THEN Full(cf)
        ELSE IF q \notin cf.occ
        THEN NewRun(cf, q, rem, IF rk = 0 THEN 0 ELSE (behind + 1) % cf.num_slots, FreeSlots(cf))
        ELSE InsertIn(cf, [start |-> IF rk > 1 THEN select_run_fast(cf, rk - 1) + 1 ELSE 0,
                           end |-> behind], rem)

-----------------------------------------------------------------------------
\* the last occurrence goes: the rest of its run, and no other, closes up
Closed(cf, r, e, tail) ==
    IF tail = 0 THEN cf
    ELSE Wiped(MoveSlots(cf, e.next, e.at, tail), Span(cf, (e.at + tail) % cf.num_slots, r.end))
Erased(cf, q, r, e, tail, slots) ==
    IF e.next - e.at >= Cardinality(slots)
    THEN [Closed(cf, r, e, tail) EXCEPT !.occ = @ \ {q}, !.run = @ \ slots, !.distinct = @ - 1]
    ELSE [Closed(cf, r, e, tail) EXCEPT
            !.run = (@ \ slots) \cup {(e.at + tail + cf.num_slots - 1) % cf.num_slots}]

Decremented(cf, q, r, e, rem, entry) ==
    IF e.cnt = 1 THEN Erased(cf, q, r, e, TailSlots(cf, r, e.next, r.end), Span(cf, r.start, r.end))
    ELSE IF Len(entry) = e.next - e.at /\ e.cnt > 2 THEN Recounted(cf, e, rem, e.cnt - 1)
    ELSE Resized(cf, r, e, entry, LastRunend(cf), TailSlots(cf, r, e.next, LastRunend(cf)))
DeleteAt(cf, q, r, rem, e) ==
    IF ~ e.hit THEN Full(cf)
    ELSE Ok(Decremented([cf EXCEPT !.count = @ - 1], q, r, e, rem,
                        EntryOf(e.cnt - 1, rem, cf.rbits)))
DeleteIn(cf, q, r, rem) ==
    IF ~ r.has THEN Full(cf) ELSE DeleteAt(cf, q, r, rem, Scanned(cf, r, rem, TRUE))
cqf_filter_delete(cf, hash) ==
    IF cf.count = 0 THEN Full(cf)
    ELSE DeleteIn(cf, Quotient(cf, hash), find_run(cf, Quotient(cf, hash)), Remainder(cf, hash))

-----------------------------------------------------------------------------
(* Every fingerprint of a filter with its count, and the filters rebuilt   *)
(* from them.                                                              *)
RECURSIVE EntriesFrom(_, _, _)
AndBehind(cf, rend, e) ==
    IF ~ e.ok THEN <<>> ELSE <<<<e.rem, e.cnt>>>> \o EntriesFrom(cf, rend, e.next)
EntriesFrom(cf, rend, pos) == AndBehind(cf, rend, cqf_decode_entry(cf, rend, pos))
Fingerprints(cf, q, entries) ==
    [i \in DOMAIN entries |-> <<q * 2^cf.rbits + entries[i][1], entries[i][2]>>]
PairsOf(cf, q) ==
    LET rk == rank_occ_fast(cf, q)
        rend == select_run_fast(cf, rk)
        rstart == IF rk > 1 THEN select_run_fast(cf, rk - 1) + 1 ELSE 0
    IN  Fingerprints(cf, q, EntriesFrom(cf, rend, IF rstart > rend THEN 0 ELSE rstart))
enumerate_pairs(cf) ==
    FoldLeft(LAMBDA s, q : s \o PairsOf(cf, q), <<>>,
             SelectSeq([i \in 1 .. cf.num_slots |-> i - 1], LAMBDA q : q \in cf.occ))

\* each fingerprint as often as it counts
Occurrences(pairs) ==
    FoldLeft(LAMBDA s, p : s \o [i \in 1 .. p[2] |-> p[1]], <<>>, pairs)

\* an insert that is refused is tried again in a filter of twice the size, and
\* not a third time
RECURSIVE cqf_filter_resize(_, _)
AgainIn(g, fp) == IF g.ok THEN Ok(cqf_filter_insert(g.f, fp).f) ELSE g
OrDoubled(r, fp) ==
    IF r.ok THEN r ELSE AgainIn(cqf_filter_resize(r.f, 2 * r.f.num_slots), fp)
InsertAll(cf, fps) ==
    FoldLeft(LAMBDA g, fp : IF g.ok THEN OrDoubled(cqf_filter_insert(g.f, fp), fp) ELSE g,
             Ok(cf), fps)

RebuiltOr(cf, new) == IF new.ok THEN new ELSE Full(cf)
ResizeTo(cf, pairs, capacity) ==
    IF capacity < Len(pairs) THEN Full(cf)
    ELSE RebuiltOr(cf, InsertAll(cqf_filter_create(capacity, cf.rbits), Occurrences(pairs)))
CapacityFor(n, pairs) == IF n = 0 THEN 2 * Len(pairs) ELSE n
\* An empty filter is destroyed before it is known that there is a new one:
\* for a capacity of 0 there is none.
NoFilter == <<>>
ResizeEmpty(cf, capacity) ==
    IF capacity = 0 THEN [ok |-> FALSE, f |-> NoFilter] ELSE Ok(cqf_filter_create(capacity, cf.rbits))
cqf_filter_resize(cf, new_capacity) ==
    IF enumerate_pairs(cf) = <<>> THEN ResizeEmpty(cf, new_capacity)
    ELSE ResizeTo(cf, enumerate_pairs(cf), CapacityFor(new_capacity, enumerate_pairs(cf)))

Union(cf, pairs) ==
    IF pairs = <<>> THEN Ok(cqf_filter_create(SlotsPerBlock, cf.rbits))
    ELSE RebuiltOr(cf, InsertAll(cqf_filter_create(cf.num_slots, cf.rbits), Occurrences(pairs)))
cqf_filter_merge(cf1, cf2) ==
    IF cf1.rbits # cf2.rbits \/ cf1.num_slots # cf2.num_slots THEN Full(cf1)
    ELSE Union(cf1, enumerate_pairs(cf1) \o enumerate_pairs(cf2))

cqf_filter_validate(cf) ==
    /\ Cardinality(cf.occ) = Cardinality(cf.run)
    /\ \A q \in cf.occ : select_run_fast(cf, rank_occ_fast(cf, q)) < cf.num_slots
=============================================================================
