----------------------------- MODULE RsqfFilter -----------------------------
(* The rank-and-select quotient filter of src/src/rsqf_filter.c.  The bit  *)
(* vectors occupieds, runends and phys_occ are sets of positions, the      *)
(* remainder table is a function; the cached prefix sums and block offsets *)
(* are kept, since every operation reads them and updates them in part.    *)
EXTENDS Integers, FiniteSets, Sequences, SequencesExt

CONSTANTS SlotsPerBlock,   \* RSQF_SLOTS_PER_BLOCK, 64
          MaxOffset        \* 254; one more is the overflow sentinel

RsBlocks(rf) == rf.num_slots \div SlotsPerBlock
RsSlots(rf) == 0 .. rf.num_slots - 1
BlockOf(pos) == pos \div SlotsPerBlock
InBlock(bits, b) == {p \in bits : BlockOf(p) = b}
Least(S) == CHOOSE p \in S : \A q \in S : p <= q

rank_occ(rf, pos) ==
    rf.occ_prefix[BlockOf(pos)] + Cardinality({p \in InBlock(rf.occ, BlockOf(pos)) : p <= pos})

select64(bits, b, k) ==
    IF k \notin 1 .. Cardinality(InBlock(bits, b)) THEN (b + 1) * SlotsPerBlock
    ELSE CHOOSE p \in InBlock(bits, b) : Cardinality({o \in InBlock(bits, b) : o <= p}) = k

select_run(rf, k) ==
    LET block == Least({b \in 0 .. RsBlocks(rf) : rf.run_prefix[b] >= k}) - 1
    IN  IF k = 0 THEN 0
        ELSE IF k > rf.run_prefix[RsBlocks(rf)] THEN rf.num_slots - 1
        ELSE select64(rf.run, block, k - rf.run_prefix[block])

\* the d-th runend after pos, going round
RunendAfter(rf, pos, d) ==
    LET round == [i \in 1 .. rf.num_slots |-> (pos + i) % rf.num_slots]
        ends == SelectSeq(round, LAMBDA p : p \in rf.run)
    IN  ends[((d - 1) % Len(ends)) + 1]

rank_select(rf, q) ==
    LET base == BlockOf(q) * SlotsPerBlock
        off_val == rf.off[BlockOf(q)]
        rk_base == IF base > 0 THEN rank_occ(rf, base - 1) ELSE 0
        d == rank_occ(rf, q - 1) - rk_base
    IN  IF off_val = MaxOffset + 1 THEN select_run(rf, rank_occ(rf, q))
        ELSE IF q = base THEN q + off_val
        ELSE IF d = 0 THEN base + off_val
        ELSE RunendAfter(rf, base + off_val, d)

run_start(rf, k) == IF k = 1 THEN 0 ELSE (select_run(rf, k - 1) + 1) % rf.num_slots

NoRun == [has |-> FALSE, start |-> 0, end |-> 0]
find_run(rf, q) ==
    LET before == rank_occ(rf, q)
        rk == IF before = 0 THEN rank_occ(rf, rf.num_slots - 1) ELSE before
    IN  IF q \in rf.occ
        THEN [has |-> TRUE, start |-> run_start(rf, before), end |-> rank_select(rf, q)]
        ELSE IF q \in rf.run
        THEN [has |-> TRUE, start |-> run_start(rf, rk), end |-> select_run(rf, rk)]
        ELSE NoRun

-----------------------------------------------------------------------------
PrefixFrom(rf, old, bits, first) ==
    [b \in 0 .. RsBlocks(rf) |->
        IF b <= first THEN old[b]
        ELSE old[first] + Cardinality({p \in bits : BlockOf(p) \in first .. b - 1})]
OffsetOf(rf, b) ==
    LET end == select_run(rf, rf.occ_prefix[b] + 1)
        o == IF rf.occ_prefix[b + 1] > rf.occ_prefix[b] /\ end > b * SlotsPerBlock
             THEN end - b * SlotsPerBlock ELSE 0
    IN  IF o > MaxOffset THEN MaxOffset + 1 ELSE o
\* prefix sums and offsets that are never brought up to date
OffsetsStale(rf, first) ==
    [rf EXCEPT !.occ_prefix = PrefixFrom(rf, @, rf.occ, first),
               !.run_prefix = PrefixFrom(rf, @, rf.run, first)]
update_offsets_from(rf, first) ==
    LET new == [rf EXCEPT !.occ_prefix = PrefixFrom(rf, @, rf.occ, first),
                          !.run_prefix = PrefixFrom(rf, @, rf.run, first)]
    IN  [new EXCEPT !.off = [b \in DOMAIN @ |-> IF b < first THEN @[b] ELSE OffsetOf(new, b)]]

-----------------------------------------------------------------------------
RECURSIVE RsPower(_, _)
RsPower(n, p) == IF p >= n THEN p ELSE RsPower(n, 2 * p)

RsqfCreate(capacity, rbits) ==
    LET blocks == (RsPower(capacity, 1) + SlotsPerBlock - 1) \div SlotsPerBlock
        ns == blocks * SlotsPerBlock
    IN  [num_slots |-> ns, rbits |-> rbits, count |-> 0, occ |-> {}, run |-> {}, phys |-> {},
         rem |-> [p \in 0 .. ns - 1 |-> 0],
         occ_prefix |-> [b \in 0 .. blocks |-> 0], run_prefix |-> [b \in 0 .. blocks |-> 0],
         off |-> [b \in 0 .. blocks - 1 |-> 0]]
rsqf_filter_reset(rf) == RsqfCreate(rf.num_slots, rf.rbits)

Quotient(rf, hash) == (hash \div 2^rf.rbits) % rf.num_slots
Remainder(rf, hash) == hash % 2^rf.rbits
RunSlots(rf, r) ==
    IF r.start <= r.end THEN r.start .. r.end
    ELSE r.start .. rf.num_slots - 1 \cup 0 .. r.end

rsqf_filter_lookup(rf, hash) ==
    LET r == find_run(rf, Quotient(rf, hash))
    IN  rf.count # 0 /\ r.has
        /\ \E i \in RunSlots(rf, r) : rf.rem[i] = Remainder(rf, hash)

-----------------------------------------------------------------------------
move_slot_right(rf, dst, src) ==
    [rf EXCEPT !.rem = [@ EXCEPT ![dst] = rf.rem[src], ![src] = 0],
               !.phys = (IF src \in @ THEN @ \cup {dst} ELSE @) \ {src},
               !.run = (IF src \in @ THEN @ \cup {dst} ELSE @ \ {dst}) \ {src}]
\* positions to .. from + 1, last first
RECURSIVE ShiftRight(_, _, _)
ShiftRight(rf, from, to) ==
    IF to <= from THEN rf ELSE ShiftRight(move_slot_right(rf, to, to - 1), from, to - 1)
\* open position s when the free slot n lies before it: round the end
ShiftRound(rf, s, n) ==
    LET last == rf.rem[rf.num_slots - 1]
        shifted == ShiftRight(ShiftRight(rf, s, rf.num_slots - 1), 0, n)
    IN  [shifted EXCEPT !.rem[0] = last, !.phys = @ \cup {0}, !.run = @ \ {0}]
Opened(rf, s, n) ==
    IF n > s THEN ShiftRight(rf, s, n) ELSE IF s > n THEN ShiftRound(rf, s, n) ELSE rf

\* the first free slot from s on, going round
FreeFrom(rf, s) ==
    LET round == [i \in 1 .. rf.num_slots |-> (s + i - 1) % rf.num_slots]
        free == SelectSeq(round, LAMBDA p : p \notin rf.phys)
    IN  free[1]
NoneFree(rf) == rf.phys = RsSlots(rf)

Written(rf, pos, q, rem) ==
    [rf EXCEPT !.rem[pos] = rem, !.phys = @ \cup {pos}, !.run = @ \cup {pos},
               !.occ = @ \cup {q}, !.count = @ + 1]
Smaller(a, b) == IF a < b THEN a ELSE b
Affected(q, pos, n) == IF pos > n THEN 0 ELSE BlockOf(Smaller(q, pos))
Full(rf) == [ok |-> FALSE, f |-> rf]
Ok(rf) == [ok |-> TRUE, f |-> rf]

\* q has no run and its slot holds an entry of another one
NewRun(rf, q, rem) ==
    LET rk == rank_occ(rf, q)
        pos == IF rk > 0 THEN (select_run(rf, rk) + 1) % rf.num_slots ELSE 0
        n == FreeFrom(rf, q)
    IN  IF (rk > 0 /\ pos = 0) \/ NoneFree(rf) \/ (pos > n /\ rf.num_slots - 1 \in rf.run)
        THEN Full(rf)
        ELSE Ok(update_offsets_from(Written(Opened(rf, pos, n), pos, q, rem), Affected(q, pos, n)))

\* q has a run, or is the end of another quotient's
ExtendRun(rf, q, rem, rend) ==
    LET s == (rend + 1) % rf.num_slots
        n == FreeFrom(rf, s)
        opened == Opened(rf, s, n)
        before == (s + rf.num_slots - 1) % rf.num_slots
        closed == IF q \in rf.occ THEN [opened EXCEPT !.run = @ \ {before}] ELSE opened
    IN  IF \/ NoneFree(rf)
           \/ s = 0 /\ (q \in rf.occ \/ rank_occ(rf, q) > 0)
           \/ s > n /\ rf.num_slots - 1 \in rf.run
        THEN Full(rf)
        ELSE Ok(update_offsets_from(Written(closed, s, q, rem), Affected(q, s, n)))

rsqf_filter_insert(rf, hash) ==
    LET q == Quotient(rf, hash)
        rem == Remainder(rf, hash)
        r == find_run(rf, q)
    IN  IF rf.count >= rf.num_slots THEN Full(rf)
        ELSE IF r.has THEN ExtendRun(rf, q, rem, r.end)
        ELSE IF q \notin rf.phys
        THEN Ok(update_offsets_from(Written(rf, q, q, rem), BlockOf(q)))
        ELSE NewRun(rf, q, rem)

-----------------------------------------------------------------------------
Distance(rf, from, to) == (to + rf.num_slots - from) % rf.num_slots
\* entries del + 1 .. del + n, going round, move down by one
RECURSIVE ShiftLeft(_, _, _)
ShiftLeft(rf, del, n) ==
    LET src == (del + 1) % rf.num_slots
    IN  IF n = 0 THEN rf
        ELSE ShiftLeft([rf EXCEPT !.rem[del] = rf.rem[src],
                                  !.phys = IF src \in @ THEN (@ \cup {del}) \ {src} ELSE @,
                                  !.run = IF src \in @ THEN (@ \cup {del}) \ {src} ELSE @],
                       src, n - 1)

\* the place of the k-th slot of a run
Nth(rf, r, k) == (r.start + k) % rf.num_slots

rsqf_filter_delete(rf, hash) ==
    LET q == Quotient(rf, hash)
        r == find_run(rf, q)
        len == Distance(rf, r.start, r.end)
        hits == {k \in 0 .. len : rf.rem[Nth(rf, r, k)] = Remainder(rf, hash)}
        del == Nth(rf, r, Least(hits))
        moved == ShiftLeft(rf, del, Distance(rf, del, r.end))
        gone == [moved EXCEPT !.rem[r.end] = 0, !.phys = @ \ {r.end}, !.run = @ \ {r.end},
                              !.count = @ - 1]
        left == {k \in 0 .. len : Nth(rf, r, k) \in gone.phys}
        last == Nth(rf, r, CHOOSE k \in left : \A j \in left : k >= j)
        marked == IF left = {} THEN [gone EXCEPT !.occ = @ \ {q}]
                  ELSE [gone EXCEPT !.run = (@ \ RunSlots(rf, r)) \cup {last}]
        first == IF r.start > r.end THEN 0 ELSE BlockOf(Smaller(q, r.start))
    IN  IF rf.count = 0 \/ ~ r.has \/ hits = {} THEN Full(rf)
        ELSE Ok(update_offsets_from(marked, first))
=============================================================================
