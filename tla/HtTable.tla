------------------------------ MODULE HtTable -------------------------------
(***************************************************************************)
(* The keyed table (src/src/ht.c, second half) and the public operations   *)
(* of the bare one.  The keyed table stores in a bare table, under the     *)
(* hash of a key, the index of an entry that owns a copy of key and value. *)
(* Entries are only appended; a rebuild compacts them to new indices.      *)
(*                                                                         *)
(* kind says which of the two interfaces a client uses.  An operation      *)
(* names the allocations it is refused (oom): at most one per call.  The   *)
(* block that holds slots, lane and entries is modelled where two parts of *)
(* it overlap (b.over); its 64 entries are more than MaxEntries.           *)
(***************************************************************************)
EXTENDS HtBare

CONSTANTS
    Configs,        \* tables considered: kind, max_probe, max_load, hash_fn
    Keys,           \* keys, and
    EmptyKeys,      \* those of length 0
    NoKey,          \* not a key
    IntMax,         \* INT64_MAX; INT64_MIN is -IntMax - 1
    Text,           \* a value that is not 8 bytes long
    PutVals,        \* the values keyed clients pass
    MinLoad,        \* min_load_factor in percent
    ShrinkFloor,    \* the 64 slots below which a table does not shrink
    ResizeTo,       \* capacities clients ask for
    MatchCap,       \* the 64 matches a scan lists without allocating
    Risks,          \* what clients do: "clear_grown", "long_upsert"
    MaxEntries      \* bound on the entries of a keyed table

VARIABLES
    kind,           \* "bare" or "keyed"
    hash_fn,        \* keyed: the low 48 bits of the hash of each key
    b,              \* the bare table
    entries,        \* keyed: [k, v, live], live while kv_ptr is not NULL
    answer,         \* the last call and what it returned
    found           \* derived: how often a client finds each pair

vars == <<kind, hash_fn, b, entries, answer, found>>

IntMin == - IntMax - 1
Ints == IntMin .. IntMax
Vals == Ints \cup {Text}
Hashes == {p[1] : p \in BarePairs}
BareVals == {p[2] : p \in BarePairs}
Pairs == (Keys \cup Hashes) \X (Vals \cup BareVals)
\* the allocations a call makes, at most one of them refused
Refusals(sites) == {{}} \cup {{x} : x \in sites}

Init ==
    /\ \E c \in Configs : kind = c.kind /\ hash_fn = c.hash_fn
                          /\ b = [NewBare(InitialCap, c) EXCEPT !.in_block = (c.kind = "keyed")]
    /\ entries = <<>>
    /\ answer = [turn |-> 0, op |-> "create", key |-> NoKey, arg |-> NoKey, res |-> "ok", n |-> 0,
                 starved |-> FALSE, short |-> FALSE]
    /\ found = [p \in Pairs |-> 0]

\* the call c = <<operation, key, argument>> returns r and n
Answers(c, r, n, oom) ==
    answer' = [turn |-> 1 - answer.turn, op |-> c[1], key |-> c[2], arg |-> c[3], res |-> r, n |-> n,
               starved |-> oom # {}, short |-> "scan" \in oom]
OkOr(ok) == IF ok THEN "ok" ELSE "failed"
Becomes(t) == b' = [t.b EXCEPT !.oom = {}] /\ entries' = t.entries
T(oom) == [b |-> [b EXCEPT !.oom = oom], entries |-> entries]
-----------------------------------------------------------------------------
(* Operations of the bare table.                                           *)

BareStep(new, c, r, n, oom) ==
    /\ b' = [new EXCEPT !.oom = {}]
    /\ Answers(c, r, n, oom)
    /\ UNCHANGED entries

ht_bare_insert(h, v, oom) ==
    LET r == BareInsert([b EXCEPT !.oom = oom], h, v)
    IN  b.size < MaxHeld /\ BareStep(r.b, <<"insert", h, v>>, OkOr(r.ok), 0, oom)

ht_bare_remove(h) ==
    LET new == BareRemove(b, h) IN BareStep(new, <<"remove", h, NoKey>>, "ok", b.size - new.size, {})

ht_bare_remove_val(h, v) ==
    LET new == BareRemoveVal(b, h, v)
    IN  BareStep(new, <<"remove_kv_one", h, v>>, "ok", b.size - new.size, {})

ht_bare_resize(cap, oom) ==
    LET r == BareResize([b EXCEPT !.oom = oom], cap)
    IN  BareStep(r.b, <<"resize", NoKey, cap>>, OkOr(r.ok), 0, oom)

ht_bare_compact(oom) ==
    BareStep(BareCompact([b EXCEPT !.oom = oom]), <<"compact", NoKey, NoKey>>, "ok", 0, oom)

ht_bare_clear == BareStep(BareClear(b), <<"clear", NoKey, NoKey>>, "ok", 0, {})
-----------------------------------------------------------------------------
(* Operations of the keyed table, on t = [b, entries].                     *)

\* the entry in whose memory value j of the spill lane lies, when the lane was
\* put there (ht_clear); an entry is four words long
Under(t, j) == (t.b.over + j - 1) \div 4 + 1
\* a store to entry i changes the lane's values there: no index of an entry
EntryStored(t, i) ==
    IF t.b.over < 0 THEN t
    ELSE [t EXCEPT !.b.spill = [j \in DOMAIN @ |-> IF Under(t, j) = i THEN [@[j] EXCEPT !.v = 0] ELSE @[j]]]
\* and a store to the lane, which was as given, the entries there: in the
\* first word lies the length of the key, in the others storage and its length
LaneStored(t, lane) ==
    LET stored == {j \in DOMAIN t.b.spill : j \notin DOMAIN lane \/ lane[j] # t.b.spill[j]}
        words(i) == {(t.b.over + j - 1) % 4 : j \in {n \in stored : Under(t, n) = i}}
    IN  IF t.b.over < 0 THEN t
        ELSE [t EXCEPT !.entries = [i \in DOMAIN @ |->
                [@[i] EXCEPT !.k = IF words(i) = {} THEN @ ELSE NoKey, !.live = @ /\ words(i) \subseteq {0}]]]

\* the entries of a key, as a scan of its hash meets them
Matches(t, k) ==
    SelectSeq(FindAll(t.b, hash_fn[k]), LAMBDA i : i \in DOMAIN t.entries /\ t.entries[i].k = k)

\* hl_key_scan_cb: the scan ends when the list cannot grow
Listed(t, k) ==
    LET M == Matches(t, k)
    IN  IF "scan" \in t.b.oom /\ Len(M) > MatchCap THEN SubSeq(M, 1, MatchCap) ELSE M

Freed == [k |-> NoKey, v |-> Text, live |-> FALSE]
Free1(t, i) == EntryStored([t EXCEPT !.entries[i] = Freed], i)

\* mutant: the index stays in the bare table
RemoveEntryIndexed(t, k, i) == Free1(t, i)

RemoveEntry(t, k, i) ==
    LET u == Free1(t, i)
    IN  LaneStored([u EXCEPT !.b = BareRemoveVal(@, hash_fn[k], i)], u.b.spill)
RemoveEntries(t, k, I) == FoldLeft(LAMBDA u, i : RemoveEntry(u, k, i), t, I)

Kept(t) == [ok |-> TRUE, b |-> t.b, entries |-> t.entries]
Refused(t) == [ok |-> FALSE, b |-> t.b, entries |-> t.entries]
\* r is the bare table of u in which the index of the new entry e was placed
WithEntry(u, r, e) == [ok |-> r.ok, b |-> r.b, entries |-> Append(u.entries, e)]

\* ht_rebuild: one entry of the old table into the new
Move(old, u, h, i) ==
    IF ~ u.ok \/ i \notin DOMAIN old.entries THEN u
    ELSE IF old.entries[i].k \in EmptyKeys THEN u
    ELSE WithEntry(u, Place(u.b, h, Len(u.entries) + 1), old.entries[i])

\* any failure leaves the old table
Adopted(t, all) ==
    IF all.ok /\ "resize" \notin t.b.oom
    THEN [all EXCEPT !.b = [Prophylactic(all.b) EXCEPT !.in_block = TRUE]]
    ELSE Refused(t)

\* a copy of what the old table refers to
Rebuild(t, cap) ==
    LET new == [ok |-> TRUE, entries |-> <<>>,
                b |-> [NewBare(cap, t.b) EXCEPT
                          !.spill_cap = SpillRoom(t.b), !.lane = SpillRoom(t.b), !.oom = t.b.oom, !.resizing = t.b.resizing]]
    IN  Adopted(t, FoldLeft(LAMBDA u, e : Move(t, u, e.h, e.v), new, Iterated(t.b)))

Resize(t, cap) ==
    IF cap < MainLive(t.b) THEN Refused(t)
    ELSE IF NextPow2(cap) = t.b.cap THEN [Kept(t) EXCEPT !.b.resizing = FALSE]
    ELSE [Rebuild([t EXCEPT !.b.resizing = TRUE], NextPow2(cap)) EXCEPT !.b.resizing = FALSE]

\* Phase 2 of do_insert_with_hash: the entry is stored, then its index
Indexed(u, r, e) ==
    LET t == LaneStored([b |-> r.b, entries |-> Append(u.entries, e)], u.b.spill)
    IN  [ok |-> r.ok, b |-> t.b, entries |-> t.entries]
Appended(u, k, e) == Indexed(u, Place(u.b, hash_fn[k], Len(u.entries) + 1), e)
AppendEntry(t, k, v, ready) ==
    IF ~ ready \/ "entry" \in t.b.oom THEN Refused(t)
    ELSE Appended(EntryStored(t, Len(t.entries) + 1), k, [k |-> k, v |-> v, live |-> TRUE])
\* a table that is still empty after it has grown is taken for a failure
AppendGrown(r, k, v) == AppendEntry(r, k, v, r.ok /\ r.b.size > 0)
AddNew(t, k, v) ==
    IF Overloaded(t.b) THEN AppendGrown(Resize(t, 2 * t.b.cap), k, v)
    ELSE AppendEntry(t, k, v, TRUE)

SameLength(v, w) == (v = Text) = (w = Text)

\* update_entry_value on entry i, then removal of the others
UpdateFirst(t, k, v, i, others) ==
    IF ~ SameLength(v, t.entries[i].v) /\ "entry" \in t.b.oom
    THEN Refused(t)
    ELSE Kept(RemoveEntries(EntryStored([t EXCEPT !.entries[i].v = v], i), k, others))

\* The matches after the first, of which the loop of do_insert_with_hash frees
\* those it reads; a list that was allocated has been freed by then (1543), and
\* what it reads may have changed.
Others(M) ==
    IF Len(M) <= MatchCap THEN {Tail(M)}
    ELSE {SelectSeq(Tail(M), LAMBDA i : i \in S) : S \in SUBSET Range(Tail(M))}

\* what the four modes of insertion come to: a table, and the answer of a success
Put(t, k, v) == [said |-> "ok", new |-> AddNew(t, k, v)]
\* Upserts is the set of outcomes
Upserts(t, k, v, M) ==
    IF M = <<>> THEN {Put(t, k, v)}
    ELSE {[said |-> "updated", new |-> UpdateFirst(t, k, v, M[1], R)] : R \in Others(M)}
Upsertable(M) ==
    /\ M = <<>> => Len(entries) < MaxEntries
    /\ Len(M) > MatchCap => "long_upsert" \in Risks

InsertStep(o, c, oom) ==
    /\ Becomes(o.new)
    /\ Answers(c, IF o.new.ok THEN o.said ELSE "failed", 0, oom)

ht_insert(k, v, oom) ==
    /\ Len(entries) < MaxEntries
    /\ InsertStep(Put(T(oom), k, v), <<"insert", k, v>>, oom)

ht_upsert(k, v, oom) ==
    \E M \in {Listed(T(oom), k)} :
        Upsertable(M) /\ \E o \in Upserts(T(oom), k, v, M) : InsertStep(o, <<"upsert", k, v>>, oom)

HasPair(k, v) == \E i \in Range(Matches(T({}), k)) : entries[i].v = v

ht_unsert(k, v, oom) ==
    IF HasPair(k, v)
    THEN InsertStep([said |-> "updated", new |-> Kept(T({}))], <<"unsert", k, v>>, {})
    ELSE /\ Len(entries) < MaxEntries
         /\ InsertStep(Put(T(oom), k, v), <<"unsert", k, v>>, oom)

\* saturating; what is not an integer counts from 0
Bump(v, d) ==
    IF v \notin Ints THEN d
    ELSE IF d > 0 /\ v > IntMax - d THEN IntMax
    ELSE IF d < 0 /\ v < IntMin - d THEN IntMin
    ELSE v + d

Incremented(k, d) ==
    LET M == Matches(T({}), k) IN Bump(IF M = <<>> THEN Text ELSE entries[M[1]].v, d)

\* returns the new value whatever became of the upsert
ht_inc(k, d, oom) ==
    \E v \in {Incremented(k, d)}, M \in {Listed(T(oom), k)} :
        /\ Upsertable(M)
        /\ \E o \in Upserts(T(oom), k, v, M) : Becomes(o.new)
        /\ Answers(<<"inc", k, d>>, "ok", v, oom)

ht_inc_with_hash(k, d, oom) ==
    \E v \in {Incremented(k, d)}, M \in {Listed(T(oom), k)} :
        /\ Upsertable(M)
        /\ \E o \in Upserts(T(oom), k, v, M) :
              /\ Becomes(o.new)
              /\ Answers(<<"inc_with_hash", k, d>>, OkOr(o.new.ok), IF o.new.ok THEN v ELSE 0, oom)

\* half the slots when few are used
Shrink(t) ==
    IF /\ t.b.size > 0 /\ t.b.size * 100 < MinLoad * t.b.cap
       /\ t.b.cap > ShrinkFloor /\ t.b.cap \div 2 >= 2 * t.b.size
    THEN Resize(t, t.b.cap \div 2)
    ELSE Kept(t)

RemoveStep(t, c, n, oom) == Becomes(t) /\ Answers(c, "ok", n, oom)

ht_remove(k, oom) ==
    LET M == Listed(T(oom), k)
        t == RemoveEntries(T(oom), k, M)
    IN  RemoveStep(IF M = <<>> THEN t ELSE Shrink(t), <<"remove", k, NoKey>>, Len(M), oom)

PairMatches(k, v, oom) == SelectSeq(Listed(T(oom), k), LAMBDA i : entries[i].v = v)

ht_remove_kv(k, v, oom) ==
    LET M == PairMatches(k, v, oom)
    IN  RemoveStep(RemoveEntries(T(oom), k, M), <<"remove_kv", k, v>>, Len(M), oom)

ht_remove_kv_one(k, v, oom) ==
    LET M == PairMatches(k, v, oom)
    IN  IF M = <<>> THEN RemoveStep(T(oom), <<"remove_kv_one", k, v>>, 0, oom)
        ELSE RemoveStep(Shrink(RemoveEntry(T(oom), k, M[1])), <<"remove_kv_one", k, v>>, 1, oom)

RebuildStep(r, c, oom) == Becomes(r) /\ Answers(c, OkOr(r.ok), 0, oom)

ht_resize(cap, oom) == RebuildStep(Resize(T(oom), cap), <<"resize", NoKey, cap>>, oom)
ht_compact(oom) == RebuildStep(Rebuild(T(oom), b.cap), <<"compact", NoKey, NoKey>>, oom)

\* A lane that had grown out of the block gets its first place again, but its
\* values are put behind room for as many hashes as it had grown to (1500): the
\* block has room for the first capacity, two words for a hash and one for a
\* value, and entries[] begins at the next multiple of two words.
ClearedLane(t) ==
    IF t.in_block THEN t
    ELSE [t EXCEPT !.in_block = TRUE, !.spill_cap = SpillInitial,
                   !.over = 2 * t.spill_cap - 2 * ((3 * t.lane + 1) \div 2)]

ht_clear ==
    /\ b.in_block \/ "clear_grown" \in Risks
    /\ RebuildStep([ok |-> TRUE, entries |-> <<>>, b |-> ClearedLane(BareClear(b))],
                   <<"clear", NoKey, NoKey>>, {})
-----------------------------------------------------------------------------
BareNext ==
    \/ \E p \in BarePairs :
        \/ ht_bare_remove_val(p[1], p[2])
        \/ \E oom \in Refusals({"resize", "spill"}) : ht_bare_insert(p[1], p[2], oom)
    \/ \E h \in Hashes : ht_bare_remove(h)
    \/ \E oom \in Refusals({"resize"}) :
        ht_bare_compact(oom) \/ \E c \in ResizeTo : ht_bare_resize(c, oom)
    \/ ht_bare_clear

KeyedNext ==
    \/ \E k \in Keys, oom \in Refusals({"resize", "spill", "entry"}) :
        \E v \in PutVals : ht_insert(k, v, oom) \/ ht_unsert(k, v, oom)
    \/ \E k \in Keys, oom \in Refusals({"resize", "spill", "entry", "scan"}) :
        \/ \E v \in PutVals : ht_upsert(k, v, oom)
        \/ \E d \in {-1, 1} : ht_inc(k, d, oom) \/ ht_inc_with_hash(k, d, oom)
    \/ \E k \in Keys, v \in PutVals, oom \in Refusals({"scan"}) : ht_remove_kv(k, v, oom)
    \/ \E k \in Keys, oom \in Refusals({"resize", "scan"}) :
        ht_remove(k, oom) \/ \E v \in PutVals : ht_remove_kv_one(k, v, oom)
    \/ \E oom \in Refusals({"resize"}) :
        \/ ht_compact(oom)
        \/ \E c \in ResizeTo : ht_resize(c, oom)
    \/ ht_clear

Times(v, seq) == Cardinality({n \in DOMAIN seq : seq[n] = v})

ValsFound(t, x) ==
    IF kind = "bare" THEN IF x \in Hashes THEN FindAll(t.b, x) ELSE <<>>
    ELSE IF x \in Hashes THEN <<>>
    ELSE LET M == Matches(t, x) IN [n \in DOMAIN M |-> t.entries[M[n]].v]

Next ==
    /\ UNCHANGED <<kind, hash_fn>>
    /\ (kind = "bare" /\ BareNext) \/ (kind = "keyed" /\ KeyedNext)
    /\ \E t \in {[b |-> b', entries |-> entries']} :
            \E vals \in {[x \in Keys \cup Hashes |-> ValsFound(t, x)]} :
                found' = [p \in Pairs |-> Times(p[2], vals[p[1]])]

Spec == Init /\ [][Next]_vars
-----------------------------------------------------------------------------
\* Every variable has its type.
TypeOK ==
    /\ kind \in {"bare", "keyed"}
    /\ b.cap > 0 /\ DOMAIN b.slots = 0 .. b.cap - 1
    /\ \A i \in 0 .. b.cap - 1 : b.slots[i].pd \in 0 .. b.cap
    /\ Len(b.spill) <= b.spill_cap
    /\ ~ b.resizing /\ b.oom = {}

(* ht_bare_check_invariants, which the tests of the table call after every   *)
(* operation, finds nothing wrong: probe distances, counters and tombstones  *)
(* agree with the slots and a probe from its ideal slot reaches every entry; *)
(* and every field has its type.                                             *)
SelfCheck == TypeOK /\ CheckInvariants(b)

InTable == {e.v : e \in Range(Iterated(b))}

(* Entry indices are owned: every index the bare table holds is that of an   *)
(* entry whose storage is live, no two slots hold the same index, and an     *)
(* entry whose storage was freed is out of the table.  Not for a client that *)
(* clears a table whose spill lane has grown: the lane's values then lie in  *)
(* the memory of the entries (ht.c:1500; Risks = {"clear_grown"}).           *)
EntriesOwned ==
    kind = "keyed" =>
        /\ InTable \subseteq {i \in DOMAIN entries : entries[i].live}
        /\ Cardinality(InTable) = b.size

Shows(e, p) ==
    IF kind = "bare" THEN <<e.h, e.v>> = p
    ELSE e.v \in DOMAIN entries /\ <<entries[e.v].k, entries[e.v].v>> = p

(* Iterating over the table meets exactly the pairs lookups find, each as    *)
(* often: nothing is stored out of the reach of its own probe sequence.      *)
IterationAgrees ==
    \A p \in Pairs :
        found[p] = Cardinality({n \in DOMAIN Iterated(b) : Shows(Iterated(b)[n], p)})

(* A call fails only because an allocation was refused, or because the table *)
(* was empty and had to grow (ht.c:1569), or was asked to shrink too far.    *)
FailsForCause ==
    [][answer'.res = "failed" =>
          \/ answer'.starved \/ b.size = 0
          \/ answer'.op = "resize" /\ answer'.arg < MainLive(b)]_vars

Promise == INSTANCE HtMultimap WITH
    Keys <- Keys \cup Hashes, Vals <- Vals \cup BareVals, Bump <- Bump, NoInt <- Text, held <- found

(* The table is the multimap ht.h describes: what scans find after every     *)
(* operation, and what the operation returns, is what the multimap gives,    *)
(* through displacement, overflow, tombstones, growth, shrinking, and        *)
(* allocations refused on the way.  A scan that has no memory to list the    *)
(* matches may leave some of them (ht.c:1287), and ht_inc does not say that  *)
(* it failed (ht.c:1738).  Not for clients that clear a table whose lane has *)
(* grown, or upsert a key of more than MatchCap entries, whose list is read  *)
(* after it was freed (ht.c:1543): see Risks.                                *)
IsMultimap == Promise!Spec
=============================================================================
