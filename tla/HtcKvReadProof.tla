--------------------------- MODULE HtcKvReadProof ---------------------------
(* The key-value store, continued: the steps that change nothing but what  *)
(* their own thread knows, those of a find, of a scan and of a remove      *)
(* before it unlinks; and what the clients see of every step: one of the   *)
(* map of KvMap, or nothing.                                               *)
EXTENDS HtcKvProof

----------------------------------------------------------------------------
(* Steps that only concern the thread that takes them. *)

\* Leaving an epoch takes one holder from the retired entries.
LEMMA UnpinNodes ==
    ASSUME Types, Holders, NodesOnce, NEW t \in Threads, Unpin(t)
    PROVE  /\ retired' \subseteq Nodes /\ pinned' = pinned \ {t} /\ Holders' /\ NodesOnce'
           /\ \A n \in retired : \E m \in retired' : m.what = n.what
           /\ \A m \in retired' : \E n \in retired : m.what = n.what /\ m.holders = n.holders \ {t}
<1>1. \A n \in retired : /\ [n EXCEPT !.holders = @ \ {t}] \in Nodes
                          /\ [n EXCEPT !.holders = @ \ {t}].what = n.what
                          /\ [n EXCEPT !.holders = @ \ {t}].holders = n.holders \ {t}
  BY Zenon DEF Types, Nodes
<1>2. retired' = {[n EXCEPT !.holders = @ \ {t}] : n \in retired} /\ pinned' = pinned \ {t}
  BY DEF Unpin
<1>3. retired' \subseteq Nodes /\ pinned' \subseteq Threads
  BY <1>1, <1>2 DEF Types
<1>4. \A n \in retired : \E m \in retired' : m.what = n.what
  BY <1>1, <1>2, Zenon
<1>5. \A m \in retired' : \E n \in retired : m.what = n.what /\ m.holders = n.holders \ {t}
  BY <1>1, <1>2, Zenon
<1>6. Holders'
  BY <1>2, <1>5 DEF Holders
<1>7. NodesOnce'
  <2> SUFFICES ASSUME NEW a \in retired', NEW b \in retired', a.what = b.what PROVE a = b
    BY DEF NodesOnce
  <2>1. PICK n \in retired : a = [n EXCEPT !.holders = @ \ {t}]
    BY <1>2
  <2>2. PICK m \in retired : b = [m EXCEPT !.holders = @ \ {t}]
    BY <1>2
  <2>3. n.what = m.what
    BY <1>1, <2>1, <2>2
  <2> QED
    BY <2>1, <2>2, <2>3, Zenon DEF NodesOnce
<1> QED
  BY <1>2, <1>3, <1>4, <1>5, <1>6, <1>7, Zenon

\* The thread owns no entry before the step or after it, and changes
\* nothing but its own job and whether it is pinned.
Owning == {"alloc", "link", "push", "off", "retire"}
Quiet(t) ==
    /\ OnlyJob(t)
    /\ job[t].pc \notin Owning /\ job'[t].pc \notin Owning
    /\ UNCHANGED <<conf, heap, recs, table, list, destroyed>>
    /\ \/ UNCHANGED <<retired, pinned>>
       \/ UNCHANGED retired /\ pinned' = pinned \cup {t}
       \/ Unpin(t)

\* What thread t reads, or is about to, is not freed under its hands.
Reads(t) == \A e \in Entries : Holding(t, e) => Protected(t, e)

\* A step no other thread can notice keeps the invariant, if what its own thread then reads is safe.
LEMMA QuietKeeps ==
    ASSUME Inv, NEW t \in Threads, Quiet(t), Local(t)', MatchOf(t)', Reads(t)'
    PROVE  Inv'
<1>1. /\ retired' \subseteq Nodes /\ pinned' \subseteq Threads /\ Holders' /\ NodesOnce'
      /\ \A n \in retired : \E m \in retired' : m.what = n.what
      /\ \A m \in retired' : \E n \in retired : m.what = n.what /\ n.holders \ {t} \subseteq m.holders
      /\ \A u \in Threads : u # t => (u \in pinned' <=> u \in pinned)
  <2>1. CASE Unpin(t)
    BY <2>1, UnpinNodes DEF Inv, Types
  <2>2. CASE retired' = retired /\ pinned' \in {pinned, pinned \cup {t}}
    BY <2>2 DEF Inv, Types, Holders, NodesOnce
  <2> QED
    BY <2>1, <2>2, Zenon DEF Quiet
<1>2. /\ \A r : RetiredRec(r)' <=> RetiredRec(r)
      /\ \A e : RetiredEntry(e)' <=> RetiredEntry(e)
  BY <1>1, Zenon DEF RetiredRec, RetiredEntry
<1>3. OnlyJob(t) /\ \A u \in Threads : u # t => job'[u] = job[u]
  BY DEF Quiet, OnlyJob
<1>4. job[t].pc \notin Owning /\ job'[t].pc \notin Owning
  BY DEF Quiet
<1>5. conf' = conf /\ heap' = heap /\ recs' = recs /\ table' = table /\ list' = list /\ destroyed' = destroyed
  BY DEF Quiet
<1>6. KeysKept /\ LinksKept
  BY <1>5 DEF KeysKept, LinksKept, ByTable
<1>7. Types' /\ Apart' /\ Once(list)'
  BY <1>1, <1>3, <1>5 DEF Inv, Types, Apart, Once, OnlyJob
<1>8. job[t].pc # "link" /\ job'[t].pc # "link" /\ job'[t].pc # "push"
  BY <1>4 DEF Owning
<1>9. Locals' /\ Matches' /\ Pushes'
  BY <1>1, <1>3, <1>5, <1>6, <1>8, ThreadsKept
<1>10. Tables' /\ Links' /\ Named'
  BY <1>2, <1>3, <1>5, <1>6, <1>8, StoreKept
<1>11. ASSUME NEW e \in Entries PROVE EntryInv(e)'
  <2>1. EntryInv(e)
    BY DEF Inv, Entrywise
  <2>2. /\ \A u \in Threads : ByInsert(u, e) => job'[u] = job[u]
        /\ \A u \in Threads : ByInsert(u, e)' <=> ByInsert(u, e)
        /\ \A u \in Threads : ByRemove(u, e)' <=> ByRemove(u, e)
        /\ \A u \in Threads : ByPush(u, e)' <=> ByPush(u, e)
        /\ \A u \in Threads : ByOff(u, e)' <=> ByOff(u, e)
    BY <1>3, <1>4 DEF ByInsert, ByRemove, ByPush, ByOff, Owning
  <2>3. SameOwner(e)
    BY <1>2, <1>5, <2>2 DEF SameOwner, ByTable, OnList
  <2>4. ASSUME NEW u \in Threads, u # t, Holding(u, e)' PROVE Protected(u, e)'
    <3>1. Protected(u, e)
      BY <1>3, <1>5, <2>1, <2>4 DEF Holding, EntryInv, Safe
    <3> QED
      BY <1>1, <1>5, <2>2, <2>4, <3>1, Zenon DEF Protected
  <2>5. Safe(e)'
    BY <2>4 DEF Safe, Reads
  <2> QED
    BY <2>1, <2>3, <2>5, SameOwned, Zenon DEF EntryInv
<1> QED
  BY <1>1, <1>7, <1>9, <1>10, <1>11 DEF Inv, Entrywise

\* What a thread has just got hold of, or keeps.
LEMMA ReadsOne ==
    ASSUME NEW t \in Threads, NEW e \in Entries, OnlyJob(t), UNCHANGED <<conf, heap, retired>>, Protected(t, e),
           job'[t].pc \notin {"alloc", "link"}, \A x \in Entries : Holding(t, x)' => x = e
    PROVE  Reads(t)'
<1>1. \A u \in Threads : ByInsert(u, e)' => ByInsert(u, e) /\ job'[u] = job[u]
  BY DEF ByInsert, OnlyJob
<1>2. Protected(t, e)'
  BY <1>1 DEF Protected
<1> QED
  BY <1>2 DEF Reads

\* The call of a find, a remove or a scan keeps the invariant.
LEMMA CallKeeps ==
    ASSUME Inv, NEW t \in Threads, CallFind(t) \/ CallRemove(t) \/ CallMemory(t)
    PROVE  Inv'
<1>1. PICK op \in {"find", "remove", "memory"}, k \in Keys :
          /\ job' = [job EXCEPT ![t] = [Idle EXCEPT !.op = op, !.pc = op, !.key = k]]
          /\ op = "find" => k \in conf.finds[t]
          /\ op = "remove" => k \in conf.removes[t]
          /\ op = "memory" => k \in conf.scans[t]
  <2>1. conf.finds[t] \subseteq Keys /\ conf.removes[t] \subseteq Keys /\ conf.scans[t] \subseteq Keys
    BY KvConstants DEF Inv, Types
  <2> QED
    BY <2>1, Zenon DEF CallFind, CallRemove, CallMemory, Call
<1>2. /\ job[t] = Idle /\ ~destroyed /\ pinned' = pinned \cup {t}
      /\ UNCHANGED <<conf, heap, recs, table, list, retired, destroyed>>
  BY Zenon DEF CallFind, CallRemove, CallMemory, Call, Begin
<1>3. op \in Ops /\ op \in Pcs
  BY PcsHave DEF Ops
<1>4. /\ OnlyJob(t)
      /\ job'[t] = [Idle EXCEPT !.op = op, !.pc = op, !.key = k]
  BY <1>1, <1>3, CallMoves, Zenon DEF Inv, OnlyJob
<1>5. job'[t].op = op /\ job'[t].pc = op /\ job'[t].key = k /\ job'[t].rec = None
  BY <1>4 DEF Idle
<1>6. Quiet(t)
  BY <1>2, <1>4, <1>5 DEF Quiet, Owning, Idle
<1>7. Local(t)'
  BY <1>1, <1>2, <1>5 DEF Local, Inserting, Finding, Removing, Scanning, Inside, WithEntry
<1>8. MatchOf(t)' /\ Reads(t)'
  BY <1>5 DEF MatchOf, Reads, Holding
<1> QED
  BY <1>6, <1>7, <1>8, QuietKeeps

\* A step after which the thread is about to return, or has nothing in hand.
LEMMA LeaveKeeps ==
    ASSUME Inv, NEW t \in Threads, NEW p \in {"return", "memory"}, NEW e, NEW r, NEW s,
           Becomes(t, p, e, r, s), Quiet(t),
           job[t].op # "insert", job[t].pc # "idle",
           p = "return" => t \notin pinned',
           p = "memory" => job[t].pc \in Scanning /\ t \in pinned'
    PROVE  Inv'
<1>1. job'[t].op = job[t].op /\ job'[t].pc = p /\ job'[t].key = job[t].key
  BY DEF Becomes, Moved
<1>2. Local(t) /\ conf' = conf /\ destroyed' = destroyed
  BY DEF Inv, Locals, Quiet
<1>3. Local(t)'
  BY <1>1, <1>2, Zenon DEF Local, Inserting, Finding, Removing, Scanning, Inside, WithEntry
<1>4. MatchOf(t)' /\ Reads(t)'
  BY <1>1 DEF MatchOf, Reads, Holding
<1> QED
  BY <1>3, <1>4, QuietKeeps

\* What the table names is in use, and safe for whoever gets hold of it.
LEMMA LinkedIs ==
    ASSUME Inv, NEW h \in Hashes, table[h] # None
    PROVE  \E e \in Entries :
              /\ table[h] \in Records /\ e = recs[table[h]].value /\ ByTable(h, e)
              /\ heap[e].state = "used" /\ heap[e].key # None /\ Hash[heap[e].key] = h
              /\ \A t \in Threads : Protected(t, e)
<1>1. table[h] \in Records
  BY DEF Inv, Types
<1>2. PICK e \in Entries : e = recs[table[h]].value
  BY TableLeads, Zenon
<1>3. ByTable(h, e)
  BY <1>2 DEF ByTable
<1>4. heap[e].state = "used" /\ ~RetiredEntry(e)
  BY <1>3 DEF Inv, Entrywise, EntryInv, Owned, TableOwns
<1>5. \A u \in Threads : ~ByInsert(u, e)
  BY <1>3 DEF Inv, Entrywise, EntryInv, Owned, InsertOwns
<1>6. heap[e].key # None /\ Hash[heap[e].key] = h
  BY <1>2, TableLeads, Zenon DEF Home
<1>7. \A t \in Threads : Protected(t, e)
  BY <1>4, <1>5, Zenon DEF Protected, RetiredEntry
<1> QED
  BY <1>1, <1>2, <1>3, <1>4, <1>6, <1>7, Zenon

\* htc_find_scoped keeps the invariant.
LEMMA FindScopedKeeps == ASSUME Inv, NEW t \in Threads, FindScoped(t) PROVE Inv'
<1>1. PICK pc \in {"compare", "match"}, miss \in Results :
          /\ Scoped(t, pc, miss)
          /\ job[t].pc = (IF pc = "compare" THEN "find" ELSE "remove")
  BY ResultsHave DEF FindScoped
<1>2. UNCHANGED <<conf, heap, recs, table, list, destroyed>>
  BY DEF FindScoped
<1>3. job[t].pc \in Inside /\ job[t].pc \notin Owning /\ pc \in Pcs
  BY <1>1, PcsHave DEF Inside, Finding, Removing, Owning
<1>4. H(t) \in Hashes
  BY <1>3, HashKnown DEF Inv
<1>5. CASE table[H(t)] = None /\ Becomes(t, "return", job[t].entry, job[t].rec, miss) /\ Unpin(t)
  <2>1. Quiet(t)
    BY <1>2, <1>3, <1>5 DEF Becomes, Moved, Quiet, OnlyJob, Owning
  <2>2. job[t].op # "insert" /\ job[t].pc # "idle" /\ t \notin pinned'
    BY <1>1, <1>5 DEF Inv, Locals, Local, Finding, Removing, Unpin
  <2> QED
    BY <1>5, <2>1, <2>2, LeaveKeeps
<1>6. CASE /\ table[H(t)] \in Records
           /\ Becomes(t, pc, recs[table[H(t)]].value, job[t].rec, job[t].res)
           /\ UNCHANGED <<retired, pinned>>
  <2>1. PICK e \in Entries :
            /\ table[H(t)] \in Records /\ e = recs[table[H(t)]].value /\ ByTable(H(t), e)
            /\ heap[e].state = "used" /\ heap[e].key # None /\ Hash[heap[e].key] = H(t)
            /\ \A u \in Threads : Protected(u, e)
    BY <1>4, <1>6, LinkedIs, NoneApart
  <2>2. OnlyJob(t) /\ job'[t].op = job[t].op /\ job'[t].pc = pc /\ job'[t].key = job[t].key /\ job'[t].entry = e
    BY <1>6, <2>1, Zenon DEF Becomes, Moved, OnlyJob
  <2>3. Quiet(t)
    BY <1>2, <1>3, <1>6, <2>2 DEF Quiet, Owning
  <2>4. Local(t) /\ conf' = conf /\ destroyed' = destroyed /\ pinned' = pinned
    BY <1>2, <1>6 DEF Inv, Locals
  <2>5. Local(t)'
    BY <1>1, <2>1, <2>2, <2>4, NoneApart, Zenon DEF Local, Inserting, Finding, Removing, Scanning, Inside, WithEntry
  <2>6. MatchOf(t)'
    BY <1>2, <2>1, <2>2, Zenon DEF MatchOf, H, ByTable
  <2>7. Reads(t)'
    <3>1. \A x \in Entries : Holding(t, x)' => x = e
      BY <2>2 DEF Holding
    <3> QED
      BY <1>2, <1>6, <2>1, <2>2, <3>1, ReadsOne, Zenon
  <2> QED
    BY <2>3, <2>5, <2>6, <2>7, QuietKeeps
<1> QED
  BY <1>1, <1>3, <1>5, <1>6, ScopedMoves, Zenon DEF Inv

\* The comparison of a find keeps it.
LEMMA FindCompareKeeps == ASSUME Inv, NEW t \in Threads, FindCompare(t) PROVE Inv'
<1>1. Becomes(t, "return", None, job[t].rec, Found(t)) /\ Unpin(t)
  BY FindCompareMoves, Zenon DEF Inv, FindCompare
<1>2. Quiet(t)
  BY <1>1 DEF Becomes, Moved, Quiet, OnlyJob, Owning, FindCompare
<1>3. job[t].op # "insert" /\ job[t].pc # "idle" /\ t \notin pinned'
  BY <1>1, Zenon DEF Inv, Locals, Local, Finding, Unpin, FindCompare
<1> QED
  BY <1>1, <1>2, <1>3, LeaveKeeps

\* A remove that gives up keeps it.
LEMMA NothingRemovedKeeps ==
    ASSUME Inv, NEW t \in Threads, job[t].pc \in {"match", "unlink"}, NothingRemoved(t),
           UNCHANGED <<conf, heap, recs, table, list, destroyed>>
    PROVE  Inv'
<1>1. Becomes(t, "return", None, job[t].rec, "refused") /\ Unpin(t)
  BY GiveUpMoves DEF Inv, NothingRemoved
<1>2. Quiet(t)
  BY <1>1 DEF Becomes, Moved, Quiet, OnlyJob, Owning
<1>3. job[t].op # "insert" /\ job[t].pc # "idle" /\ t \notin pinned'
  BY <1>1, Zenon DEF Inv, Locals, Local, Removing, Unpin
<1> QED
  BY <1>1, <1>2, <1>3, LeaveKeeps

\* The comparison of a remove keeps it.
LEMMA RemoveMatchKeeps == ASSUME Inv, NEW t \in Threads, RemoveMatch(t) PROVE Inv'
<1>1. job[t].pc = "match" /\ UNCHANGED <<conf, heap, recs, table, list, destroyed>>
  BY DEF RemoveMatch
<1>2. CASE ~Same(t)
  BY <1>1, <1>2, NothingRemovedKeeps DEF RemoveMatch
<1>3. CASE Same(t)
  <2>1. job' = [job EXCEPT ![t].pc = "unlink"] /\ UNCHANGED <<retired, pinned>>
    BY <1>3 DEF RemoveMatch
  <2>2. Becomes(t, "unlink", job[t].entry, job[t].rec, job[t].res)
    BY <2>1, SetPc, PcsHave, Zenon DEF Inv, Types, Becomes
  <2>3. /\ OnlyJob(t)
        /\ job'[t].op = job[t].op /\ job'[t].pc = "unlink" /\ job'[t].key = job[t].key /\ job'[t].entry = job[t].entry
    BY <2>2 DEF Becomes, Moved, OnlyJob
  <2>4. Quiet(t)
    BY <1>1, <2>1, <2>3 DEF Quiet, Owning
  <2>5. Local(t) /\ MatchOf(t) /\ job[t].entry \in Entries
    BY <1>1, InHand DEF Inv, Locals, Matches, WithEntry
  <2>6. Local(t)'
    BY <1>1, <2>1, <2>3, <2>5 DEF Local, Inserting, Finding, Removing, Scanning, Inside, WithEntry
  <2>7. MatchOf(t)'
    BY <1>1, <1>3, <2>3, <2>5, Zenon DEF MatchOf, H, ByTable, Same
  <2>8. Reads(t)'
    <3>1. Protected(t, job[t].entry)
      BY <1>1, <2>5, Zenon DEF Inv, Entrywise, EntryInv, Safe, Holding
    <3>2. \A x \in Entries : Holding(t, x)' => x = job[t].entry
      BY <2>3 DEF Holding
    <3> QED
      BY <1>1, <2>1, <2>3, <2>5, <3>1, <3>2, ReadsOne
  <2> QED
    BY <2>4, <2>6, <2>7, <2>8, QuietKeeps
<1> QED
  BY <1>2, <1>3

\* A remove that finds its entry replaced keeps it.
LEMMA RemoveMissedKeeps == ASSUME Inv, NEW t \in Threads, RemoveMissed(t) PROVE Inv'
BY NothingRemovedKeeps DEF RemoveMissed

\* A remove that leaves its epoch keeps it.
LEMMA RemoveUnpinKeeps == ASSUME Inv, NEW t \in Threads, RemoveUnpin(t) PROVE Inv'
<1>1. Becomes(t, "return", job[t].entry, job[t].rec, job[t].res) /\ Unpin(t)
  BY RemoveUnpinMoves, Zenon DEF Inv, RemoveUnpin
<1>2. Quiet(t)
  BY <1>1 DEF Becomes, Moved, Quiet, OnlyJob, Owning, RemoveUnpin
<1>3. job[t].op # "insert" /\ job[t].pc # "idle" /\ t \notin pinned'
  BY <1>1 DEF Inv, Locals, Local, Removing, Unpin, RemoveUnpin
<1> QED
  BY <1>1, <1>2, <1>3, LeaveKeeps

\* A scan that reads the lengths of an entry keeps it.
LEMMA ScanLengthsKeeps == ASSUME Inv, NEW t \in Threads, ScanLengths(t) PROVE Inv'
<1>1. Becomes(t, "memory", None, job[t].rec, job[t].res)
  BY ScanLengthsMoves DEF Inv
<1>2. Quiet(t)
  BY <1>1 DEF Becomes, Moved, Quiet, OnlyJob, Owning, ScanLengths
<1>3. job[t].op # "insert" /\ job[t].pc # "idle" /\ job[t].pc \in Scanning /\ t \in pinned'
  BY DEF Inv, Locals, Local, Scanning, Inside, ScanLengths
<1> QED
  BY <1>1, <1>2, <1>3, LeaveKeeps

\* A return keeps it.
LEMMA ReturnKeeps == ASSUME Inv, NEW t \in Threads, Return(t) PROVE Inv'
<1>1. OnlyJob(t) /\ job'[t] = Idle
  BY ReturnMoves DEF Inv, OnlyJob
<1>2. job[t].pc = "return" /\ UNCHANGED <<conf, heap, recs, table, list, retired, pinned, destroyed>>
  BY DEF Return
<1>3. job'[t].op = "idle" /\ job'[t].pc = "idle"
  BY <1>1 DEF Idle
<1>4. Quiet(t)
  BY <1>1, <1>2, <1>3 DEF Quiet, Owning
<1>5. Local(t)'
  BY <1>1, <1>2, <1>3, Zenon DEF Inv, Locals, Local, Inserting, Finding, Removing, Scanning, Inside, WithEntry, Idle
<1>6. MatchOf(t)' /\ Reads(t)'
  BY <1>3 DEF MatchOf, Reads, Holding
<1> QED
  BY <1>4, <1>5, <1>6, QuietKeeps

\* No one has retired a record that is not marked, and what it names is safe
\* from being freed.
LEMMA UnmarkedSafe ==
    ASSUME Inv, NEW t \in Threads, job[t].pc = "memory", NEW r \in Records, recs[r].flags = 0, NEW e \in Entries, recs[r].value = e
    PROVE  Protected(t, e)
<1>1. LinkedRec(r) \/ \E u \in Threads : job[u].pc = "link" /\ job[u].rec = r
  BY NoneApart DEF Inv, Named
<1>2. CASE LinkedRec(r)
  <2>1. PICK h \in Hashes : table[h] = r
    BY <1>2 DEF LinkedRec
  <2> QED
    BY <2>1, LinkedIs, NoneApart
<1>3. ASSUME NEW u \in Threads, job[u].pc = "link", job[u].rec = r PROVE Protected(t, e)
  <2>1. job[u].entry = e /\ ByInsert(u, e)
    BY <1>3 DEF Inv, Links, Ready, ByInsert
  <2>2. EntryInv(e)
    BY DEF Inv, Entrywise
  <2>3. heap[e].state = "used" /\ ~RetiredEntry(e) /\ \A v \in Threads : ByInsert(v, e) => u = v
    BY <2>1, <2>2 DEF EntryInv, Owned, InsertOwns
  <2>4. Local(u) /\ Local(t) /\ KeptApart(conf)
    BY DEF Inv, Locals, Apart
  <2>5. job[u].key \in conf.inserts[u] /\ job[t].key \in conf.scans[t] /\ u # t
    BY <1>3, <2>4, Zenon DEF Local, Inserting, Scanning
  <2>6. ~conf.fails
    BY <2>4, <2>5 DEF KeptApart
  <2> QED
    BY <1>3, <2>3, <2>6 DEF Protected, RetiredEntry
<1> QED
  BY <1>1, <1>2, <1>3

\* A scan that reads the flags of a record keeps it.
LEMMA ScanFlagsKeeps == ASSUME Inv, NEW t \in Threads, ScanFlags(t) PROVE Inv'
<1>1. job[t].pc = "memory" /\ UNCHANGED <<conf, heap, recs, table, list, destroyed>>
  BY DEF ScanFlags
<1>2. job[t].op # "insert" /\ job[t].pc # "idle" /\ job[t].pc \in Scanning /\ job[t].op = "memory" /\ t \in pinned
  BY <1>1, Zenon DEF Inv, Locals, Local, Scanning, Inside
<1>3. CASE Becomes(t, "return", job[t].entry, None, job[t].res) /\ Unpin(t)
  <2>1. Quiet(t)
    BY <1>1, <1>3 DEF Becomes, Moved, Quiet, OnlyJob, Owning
  <2>2. t \notin pinned'
    BY <1>3 DEF Unpin
  <2> QED
    BY <1>2, <1>3, <2>1, <2>2, LeaveKeeps
<1>4. ASSUME NEW r \in Records, UNCHANGED <<retired, pinned>>,
             Becomes(t, IF recs[r].flags = 0 THEN "value" ELSE "memory", job[t].entry, r, job[t].res)
      PROVE  Inv'
  <2>1. Quiet(t)
    BY <1>1, <1>4 DEF Becomes, Moved, Quiet, OnlyJob, Owning
  <2>2. CASE recs[r].flags # 0
    BY <1>2, <1>4, <2>1, <2>2, LeaveKeeps
  <2>3. CASE recs[r].flags = 0
    <3>1. /\ job'[t].op = job[t].op /\ job'[t].pc = "value" /\ job'[t].key = job[t].key /\ job'[t].rec = r
          /\ OnlyJob(t)
      BY <1>4, <2>3 DEF Becomes, Moved, OnlyJob
    <3>2. job[t].op = "memory" /\ job[t].key \in conf'.scans[t] /\ t \in pinned' /\ ~destroyed'
      BY <1>1, <1>2, <1>4, Zenon DEF Inv, Locals, Local
    <3>3. Local(t)'
      BY <3>1, <3>2, NoneApart, Zenon DEF Local, Inserting, Finding, Removing, Scanning, Inside, WithEntry
    <3>4. ASSUME NEW e \in Entries, recs[r].value = e PROVE Protected(t, e)
      BY <1>1, <2>3, <3>4, UnmarkedSafe
    <3>5. MatchOf(t)'
      BY <3>1 DEF MatchOf
    <3>6. Reads(t)'
      <4>1. \A x \in Entries : Holding(t, x)' => recs[r].value = x
        BY <1>1, <3>1 DEF Holding
      <4>2. CASE recs[r].value = None
        BY <4>1, <4>2, NoneApart DEF Reads
      <4>3. CASE recs[r].value \in Entries
        BY <1>1, <1>4, <3>1, <3>4, <4>1, <4>3, ReadsOne
      <4> QED
        BY <4>2, <4>3 DEF Inv, Types
    <3> QED
      BY <2>1, <3>3, <3>5, <3>6, QuietKeeps
  <2> QED
    BY <2>2, <2>3
<1> QED
  BY <1>3, <1>4, ScanFlagsMoves, Zenon DEF Inv

\* A scan that reads the value of a record keeps it.
LEMMA ScanValueKeeps == ASSUME Inv, NEW t \in Threads, ScanValue(t) PROVE Inv'
<1>1. job[t].pc = "value" /\ UNCHANGED <<conf, heap, recs, table, list, retired, pinned, destroyed>>
  BY DEF ScanValue
<1>2. PICK e \in Entries \cup {None} :
          /\ job[t].rec \in Records /\ e = recs[job[t].rec].value
          /\ Becomes(t, IF e = None THEN "memory" ELSE "lengths", e, job[t].rec, job[t].res)
  BY ScanValueMoves DEF Inv
<1>3. job[t].op # "insert" /\ job[t].pc # "idle" /\ job[t].pc \in Scanning /\ t \in pinned'
  BY <1>1, Zenon DEF Inv, Locals, Local, Scanning, Inside
<1>4. Quiet(t)
  BY <1>1, <1>2, Zenon DEF Becomes, Moved, Quiet, OnlyJob, Owning
<1>5. CASE e = None
  BY <1>2, <1>3, <1>4, <1>5, LeaveKeeps, Zenon
<1>6. CASE e # None
  <2>1. /\ job'[t].op = job[t].op /\ job'[t].pc = "lengths" /\ job'[t].key = job[t].key /\ job'[t].entry = e
        /\ OnlyJob(t)
    BY <1>2, <1>6, Zenon DEF Becomes, Moved, OnlyJob
  <2>2. Local(t) /\ e \in Entries
    BY <1>6 DEF Inv, Locals
  <2>3. Local(t)'
    BY <1>1, <1>6, <2>1, <2>2, Zenon DEF Local, Inserting, Finding, Removing, Scanning, Inside, WithEntry
  <2>4. Protected(t, e)
    BY <1>1, <1>2, <2>2, Zenon DEF Inv, Entrywise, EntryInv, Safe, Holding
  <2>5. MatchOf(t)'
    BY <2>1, Zenon DEF MatchOf
  <2>6. \A x \in Entries : Holding(t, x)' => x = e
    BY <2>1 DEF Holding
  <2>7. Reads(t)'
    BY <1>1, <2>1, <2>2, <2>4, <2>6, ReadsOne, Zenon
  <2> QED
    BY <1>4, <2>3, <2>5, <2>7, QuietKeeps
<1> QED
  BY <1>5, <1>6

----------------------------------------------------------------------------
(* The store is a map: each step is one of KvMap, or one no client sees.   *)
(* What that rests on, beside Inv.                                         *)

Waiting == {"alloc", "link", "find", "compare", "remove", "match", "unlink"}
Decided == {"push", "off", "retire", "unpin", "return"}

\* A call has no answer before it takes effect, and has one after that.
AnswerOf(t) ==
    /\ job[t].pc \in Waiting => job[t].res = None
    /\ job[t].pc \in Decided /\ job[t].op # "memory" => job[t].res # None

\* What is in the table has a value.
Valued == \A h \in Hashes : table[h] # None => heap[recs[table[h]].value].val # None
MapInv == (\A t \in Threads : AnswerOf(t)) /\ Valued

\* The step is one of the map.
Follows == MapInv' /\ (Map!Next \/ UNCHANGED Map!vars)

\* No entry in use changes, nor does any link.
DataKept == \A e \in Entries : heap[e].state = "used" => heap'[e].key = heap[e].key /\ heap'[e].val = heap[e].val
SameLinks ==
    /\ table' = table /\ destroyed' = destroyed
    /\ \A h \in Hashes : table[h] # None => recs'[table[h]].value = recs[table[h]].value

\* A thread between calls, before a step and after it.
LEMMA IdleCall == ASSUME NEW t \in Threads, job[t] = Idle PROVE CallOf(t) = Map!Idle /\ AnswerOf(t)
<1>1. job[t].op = "idle" /\ job[t].pc = "idle"
  BY DEF Idle
<1>2. CallOf(t) = Map!Idle
  BY <1>1 DEF CallOf, Map!Idle
<1>3. AnswerOf(t)
  BY <1>1 DEF AnswerOf, Waiting, Decided
<1> QED
  BY <1>2, <1>3

\* The same after the step.
LEMMA IdleCallNext == ASSUME NEW t \in Threads, job'[t] = Idle PROVE CallOf(t)' = Map!Idle /\ AnswerOf(t)'
<1>1. job'[t].op = "idle" /\ job'[t].pc = "idle"
  BY DEF Idle
<1>2. CallOf(t)' = Map!Idle
  BY <1>1 DEF CallOf, Map!Idle
<1>3. AnswerOf(t)'
  BY <1>1 DEF AnswerOf, Waiting, Decided
<1> QED
  BY <1>2, <1>3

\* An entry that the table leads to is in use.
LEMMA LinkedUsed ==
    ASSUME Inv, NEW h \in Hashes, table[h] # None
    PROVE  table[h] \in Records /\ recs[table[h]].value \in Entries /\ heap[recs[table[h]].value].state = "used"
<1>1. table[h] \in Records /\ recs[table[h]].value \in Entries
  BY TableLeads, Zenon
<1> QED
  BY <1>1, Zenon DEF Inv, Entrywise, EntryInv, Owned, TableOwns, ByTable

\* The map is the same as long as the links and the entries are.
LEMMA MapStays == ASSUME Inv, Valued, DataKept, SameLinks PROVE MapNow' = MapNow /\ Valued'
<1>1. \A h \in Hashes : table[h] # None => /\ recs'[table[h]].value = recs[table[h]].value
                                           /\ heap'[recs[table[h]].value].key = heap[recs[table[h]].value].key
                                           /\ heap'[recs[table[h]].value].val = heap[recs[table[h]].value].val
  BY LinkedUsed, Zenon DEF DataKept, SameLinks
<1>2. \A k \in Keys : Hash[k] \in Hashes
  BY DEF Hashes
<1>3. \A k \in Keys : MapOf(k)' = MapOf(k)
  BY <1>1, <1>2, Zenon DEF MapOf, SameLinks
<1>4. Valued'
  BY <1>1, Zenon DEF Valued, SameLinks
<1> QED
  BY <1>3, <1>4 DEF MapNow

\* The call of a thread that does not move is the same.
LEMMA CallStays == ASSUME Inv, DataKept, NEW u \in Threads, job'[u] = job[u], AnswerOf(u) PROVE CallOf(u)' = CallOf(u) /\ AnswerOf(u)'
<1>1. job[u].pc = "compare" => job[u].entry \in Entries /\ heap[job[u].entry].state = "used"
  BY InHand, Zenon DEF Inv, Entrywise, EntryInv, Safe, Holding, Protected, WithEntry
<1>2. Answer(u)' = Answer(u)
  BY <1>1, Zenon DEF Answer, DataKept
<1> QED
  BY <1>2, Zenon DEF CallOf, AnswerOf

\* Thread t gets an answer, or a call, and the others notice nothing.
LEMMA OneCall ==
    ASSUME Inv, MapInv, NEW t \in Threads, OnlyJob(t), DataKept, AnswerOf(t)', NEW c, CallOf(t)' = c
    PROVE  (\A u \in Threads : AnswerOf(u)') /\ CallNow' = [CallNow EXCEPT ![t] = c]
<1>1. \A u \in Threads : u # t => CallOf(u)' = CallOf(u) /\ AnswerOf(u)'
  BY CallStays DEF MapInv, OnlyJob
<1> QED
  BY <1>1, Zenon DEF CallNow

\* A step that gives no answer and changes no link is one no client sees.
LEMMA Unseen ==
    ASSUME Inv, MapInv, NEW t \in Threads, OnlyJob(t), DataKept, SameLinks, AnswerOf(t)', CallOf(t)' = CallOf(t)
    PROVE  Follows
<1>1. \A u \in Threads : AnswerOf(u)'
  BY OneCall
<1>2. \A u \in Threads : CallOf(u)' = CallOf(u)
  BY CallStays DEF MapInv, OnlyJob
<1>3. CallNow' = CallNow
  BY <1>2 DEF CallNow
<1>4. MapNow' = MapNow /\ Valued'
  BY MapStays DEF MapInv
<1> QED
  BY <1>1, <1>3, <1>4 DEF Follows, MapInv, Map!vars

\* What the call of a thread looks like from outside.
LEMMA CallIs ==
    ASSUME NEW t \in Threads, job[t].op \in {"insert", "find", "remove"}, job[t].pc # "compare"
    PROVE  CallOf(t) = [op |-> job[t].op, key |-> job[t].key, val |-> job[t].val, res |-> job[t].res]
BY Zenon DEF CallOf, Answer

\* A thread that starts on a call starts on the same call of the map.
LEMMA Starts ==
    ASSUME Inv, MapInv, NEW t \in Threads, OnlyJob(t), DataKept, SameLinks, job[t] = Idle,
           job'[t].op \in {"insert", "find", "remove"}, job'[t].pc \in Waiting \ {"compare"}, job'[t].res = None,
           job'[t].key \in Keys
    PROVE  Follows
<1>1. CallOf(t) = Map!Idle
  BY DEF CallOf, Idle, Map!Idle
<1>2. PICK op \in {"insert", "remove", "find"}, k \in Keys, v \in Values \cup {None} :
          op = job'[t].op /\ k = job'[t].key /\ v = job'[t].val
  BY Zenon DEF OnlyJob, Jobs
<1>3. CallOf(t)' = [op |-> op, key |-> k, val |-> v, res |-> None]
  BY <1>2, Zenon DEF CallOf, Answer
<1>4. AnswerOf(t)'
  BY DEF AnswerOf, Waiting, Decided
<1>5. (\A u \in Threads : AnswerOf(u)') /\ CallNow' = [CallNow EXCEPT ![t] = [op |-> op, key |-> k, val |-> v, res |-> None]]
  BY <1>3, <1>4, OneCall, Zenon
<1>6. MapNow' = MapNow /\ Valued'
  BY MapStays DEF MapInv
<1>7. CallNow[t] = Map!Idle
  BY <1>1 DEF CallNow
<1>8. Map!Start(t)
  BY <1>5, <1>6, <1>7, Zenon DEF Map!Start
<1> QED
  BY <1>5, <1>6, <1>8, Zenon DEF Follows, MapInv, Map!Next

\* The answer r is given.
Answered(t, r) ==
    /\ OnlyJob(t)
    /\ job[t].pc \in Waiting \ {"compare"} /\ job'[t].pc \in Decided
    /\ job'[t].op = job[t].op /\ job'[t].key = job[t].key /\ job'[t].val = job[t].val /\ job'[t].res = r /\ r # None

\* The answer of one thread is the only change to the calls.
LEMMA AnsweredIs ==
    ASSUME Inv, MapInv, NEW t \in Threads, NEW r, Answered(t, r), DataKept, job[t].op \in {"insert", "find", "remove"}
    PROVE  /\ \A u \in Threads : AnswerOf(u)'
           /\ CallNow' = [CallNow EXCEPT ![t].res = r]
           /\ CallNow[t].op = job[t].op /\ CallNow[t].res = None /\ CallNow[t].key = job[t].key /\ CallNow[t].val = job[t].val
<1>1. CallOf(t) = [op |-> job[t].op, key |-> job[t].key, val |-> job[t].val, res |-> None]
  BY CallIs, Zenon DEF Answered, MapInv, AnswerOf
<1>2. CallOf(t)' = [op |-> job[t].op, key |-> job[t].key, val |-> job[t].val, res |-> r]
  BY Zenon DEF Answered, CallOf, Answer, Decided
<1>3. AnswerOf(t)'
  BY DEF Answered, AnswerOf, Waiting, Decided
<1>4. /\ \A u \in Threads : AnswerOf(u)'
      /\ CallNow' = [CallNow EXCEPT ![t] = [op |-> job[t].op, key |-> job[t].key, val |-> job[t].val, res |-> r]]
  BY <1>2, <1>3, OneCall, Zenon DEF Answered
<1>5. CallNow[t] = [op |-> job[t].op, key |-> job[t].key, val |-> job[t].val, res |-> None]
  BY <1>1, Zenon DEF CallNow
<1>6. [CallNow[t] EXCEPT !.res = r] = [op |-> job[t].op, key |-> job[t].key, val |-> job[t].val, res |-> r]
  BY <1>5
<1>7. CallNow' = [CallNow EXCEPT ![t] = [CallNow[t] EXCEPT !.res = r]]
  BY <1>4, <1>6, Zenon
<1>8. [CallNow EXCEPT ![t] = [CallNow[t] EXCEPT !.res = r]] = [CallNow EXCEPT ![t].res = r]
  OBVIOUS
<1>9. CallNow[t].op = job[t].op /\ CallNow[t].res = None /\ CallNow[t].key = job[t].key /\ CallNow[t].val = job[t].val
  BY <1>5
<1> QED
  BY <1>4, <1>7, <1>8, <1>9, Zenon

\* An insert or a remove that is refused is refused by the map.
LEMMA Refuses ==
    ASSUME Inv, MapInv, NEW t \in Threads, Answered(t, "refused"), DataKept, SameLinks, job[t].op \in {"insert", "remove"}
    PROVE  Follows
<1>1. /\ \A u \in Threads : AnswerOf(u)'
      /\ CallNow' = [CallNow EXCEPT ![t].res = "refused"]
      /\ CallNow[t].op = job[t].op /\ CallNow[t].res = None
  BY AnsweredIs
<1>2. MapNow' = MapNow /\ Valued'
  BY MapStays DEF MapInv
<1>3. Map!Refuse(t)
  BY <1>1, <1>2 DEF Map!Refuse, Map!Pending, Map!Answer
<1> QED
  BY <1>1, <1>2, <1>3 DEF Follows, MapInv, Map!Next


----------------------------------------------------------------------------
(* The steps of the map. *)

\* Which call a step belongs to.
LEMMA OpIs ==
    ASSUME Inv, NEW t \in Threads
    PROVE  /\ job[t].pc \in {"alloc", "link", "push"} => job[t].op = "insert" /\ job[t].val \in Values
           /\ job[t].pc \in {"find", "compare"} => job[t].op = "find"
           /\ job[t].pc \in {"remove", "match", "unlink", "off", "retire", "unpin"} => job[t].op = "remove"
           /\ job[t].pc \in {"memory", "value", "lengths"} => job[t].op = "memory"
BY Zenon DEF Inv, Locals, Local, Inserting, Finding, Removing, Scanning

\* Answers are not None.
LEMMA AnswersAre == "refused" # None /\ <<>> # None /\ \A v \in Values \cup {None} : <<v>> # None
BY KvConstants

\* Freeing an entry changes no data.
LEMMA FreeKeepsData == ASSUME Inv, NEW x \in Entries, heap' = Free(heap, x) PROVE DataKept
BY FreeIs DEF Inv, DataKept

\* A step that has no effect on the store.
LEMMA StoreSame == ASSUME UNCHANGED <<heap, recs, table, destroyed>> PROVE DataKept /\ SameLinks
BY DEF DataKept, SameLinks

\* The call of an insert is one of the map.
LEMMA CallInsertFollows == ASSUME Inv, MapInv, NEW t \in Threads, CallInsert(t) PROVE Follows
<1>1. PICK k \in conf.inserts[t], v \in Values, x \in Entries :
          /\ heap[x] = Unborn
          /\ heap' = [heap EXCEPT ![x] = [state |-> "used", key |-> k, val |-> v]]
          /\ job' = [job EXCEPT ![t] = [Idle EXCEPT !.op = "insert", !.pc = "alloc", !.key = k, !.val = v, !.entry = x]]
  BY Zenon DEF CallInsert
<1>2. job[t] = Idle /\ UNCHANGED <<recs, table, destroyed>>
  BY DEF CallInsert, Begin
<1>3. k \in Keys
  BY KvConstants, Zenon DEF Inv, Types
<1>4. /\ OnlyJob(t)
      /\ job'[t].op = "insert" /\ job'[t].pc = "alloc" /\ job'[t].key = k /\ job'[t].val = v
      /\ job'[t].entry = x /\ job'[t].rec = None /\ job'[t].res = None
  BY <1>1, <1>3, CallInsertMoves, Zenon DEF Inv
<1>5. DataKept /\ SameLinks
  BY <1>1, <1>2 DEF DataKept, SameLinks, Unborn, Inv, Types
<1> QED
  BY <1>2, <1>3, <1>4, <1>5, Starts, Zenon DEF Waiting

\* The other calls are calls of the map, or unseen.
LEMMA CallFollows == ASSUME Inv, MapInv, NEW t \in Threads, CallFind(t) \/ CallRemove(t) \/ CallMemory(t) PROVE Follows
<1>1. PICK op \in {"find", "remove", "memory"}, k \in Keys :
          job' = [job EXCEPT ![t] = [Idle EXCEPT !.op = op, !.pc = op, !.key = k]]
  <2>1. conf.finds[t] \subseteq Keys /\ conf.removes[t] \subseteq Keys /\ conf.scans[t] \subseteq Keys
    BY KvConstants, Zenon DEF Inv, Types
  <2> QED
    BY <2>1, Zenon DEF CallFind, CallRemove, CallMemory, Call
<1>2. job[t] = Idle /\ UNCHANGED <<heap, recs, table, destroyed>>
  BY Zenon DEF CallFind, CallRemove, CallMemory, Call, Begin
<1>3. op \in Ops /\ op \in Pcs
  BY PcsHave DEF Ops
<1>4. /\ OnlyJob(t)
      /\ job'[t] = [Idle EXCEPT !.op = op, !.pc = op, !.key = k]
  BY <1>1, <1>3, CallMoves, Zenon DEF Inv, OnlyJob
<1>5. job'[t].op = op /\ job'[t].pc = op /\ job'[t].key = k /\ job'[t].res = None
  BY <1>4 DEF Idle
<1>6. DataKept /\ SameLinks
  BY <1>2, StoreSame
<1>7. CASE op = "memory"
  <2>1. CallOf(t)' = CallOf(t)
    BY <1>2, <1>5, <1>7 DEF CallOf, Idle
  <2>2. AnswerOf(t)'
    BY <1>5, <1>7 DEF AnswerOf, Waiting, Decided
  <2> QED
    BY <1>4, <1>6, <2>1, <2>2, Unseen
<1>8. CASE op # "memory"
  BY <1>2, <1>4, <1>5, <1>6, <1>8, Starts, Zenon DEF Waiting
<1> QED
  BY <1>7, <1>8

\* A step of a call that leaves its answer as it is.
LEMMA GoesOn ==
    ASSUME Inv, MapInv, NEW t \in Threads, DataKept, SameLinks, OnlyJob(t),
           job'[t].op = job[t].op, job'[t].key = job[t].key, job'[t].val = job[t].val, job'[t].res = job[t].res,
           \/ job[t].op = "memory" /\ job'[t].pc \notin Waiting
           \/ job[t].pc \in Waiting \ {"compare"} /\ job'[t].pc \in Waiting \ {"compare"}
           \/ job[t].pc \in Decided /\ job'[t].pc \in Decided
    PROVE  Follows
<1>1. AnswerOf(t)'
  BY Zenon DEF MapInv, AnswerOf, Waiting, Decided
<1>2. CallOf(t)' = CallOf(t)
  BY Zenon DEF CallOf, Answer, Waiting, Decided
<1> QED
  BY <1>1, <1>2, Unseen, Zenon

\* An insert that looks for a record is unseen, or refused by the map.
LEMMA InsertRecordFollows == ASSUME Inv, MapInv, NEW t \in Threads, InsertRecord(t) PROVE Follows
<1>1. job[t].pc = "alloc" /\ UNCHANGED <<table, destroyed>> /\ job[t].entry \in Entries /\ job[t].op = "insert"
  BY InHand, OpIs DEF InsertRecord, WithEntry
<1>2. CASE table[H(t)] # None
  <2>1. Refused(t) /\ recs' = recs
    BY <1>2 DEF InsertRecord
  <2>2. DataKept /\ SameLinks
    BY <1>1, <2>1, FreeKeepsData DEF SameLinks, Refused
  <2>3. Answered(t, "refused")
    BY <1>1, <2>1, RefusedMoves, AnswersAre, Zenon DEF Inv, Becomes, Moved, Answered, OnlyJob, Waiting, Decided
  <2> QED
    BY <1>1, <2>2, <2>3, Refuses
<1>3. CASE table[H(t)] = None
  <2>1. PICK r \in Records \ InUse :
             /\ recs' = [recs EXCEPT ![r] = [flags |-> 0, value |-> job[t].entry]]
             /\ job' = [job EXCEPT ![t].pc = "link", ![t].rec = r]
             /\ UNCHANGED heap
    BY <1>3 DEF InsertRecord
  <2>2. DataKept /\ SameLinks
    BY <1>1, <2>1 DEF DataKept, SameLinks, InUse, Inv, Types
  <2>3. Becomes(t, "link", job[t].entry, r, job[t].res)
    BY <2>1, InsertRecordMoves, Zenon DEF Inv
  <2> QED
    BY <1>1, <2>2, <2>3, GoesOn, Zenon DEF Becomes, Moved, OnlyJob, Waiting
<1> QED
  BY <1>2, <1>3

\* The record that is given back is not linked.
LEMMA ReturnedUnlinked ==
    ASSUME Inv, NEW t \in Threads, job[t].pc = "link", recs' = [recs EXCEPT ![job[t].rec].value = None], UNCHANGED <<table, destroyed>>
    PROVE  SameLinks
<1>1. job[t].rec \in Records /\ \A h \in Hashes : table[h] # job[t].rec
  BY InHand, Zenon DEF Inv, Links, Ready, LinkedRec
<1> QED
  BY <1>1 DEF SameLinks, Inv, Types

\* An insert whose allocation fails is refused by the map.
LEMMA InsertFailsFollows == ASSUME Inv, MapInv, NEW t \in Threads, InsertFails(t) PROVE Follows
<1>1. job[t].pc = "link" /\ UNCHANGED <<table, destroyed>> /\ job[t].entry \in Entries /\ job[t].op = "insert" /\ Refused(t)
  BY InHand, OpIs DEF InsertFails, WithEntry
<1>2. DataKept
  BY <1>1, FreeKeepsData DEF Refused
<1>3. SameLinks
  BY <1>1, ReturnedUnlinked, Zenon DEF InsertFails
<1>4. Answered(t, "refused")
  BY <1>1, RefusedMoves, AnswersAre, Zenon DEF Inv, Becomes, Moved, Answered, OnlyJob, Waiting, Decided
<1> QED
  BY <1>1, <1>2, <1>3, <1>4, Refuses

\* An insert that starts again is unseen.
LEMMA InsertRetryFollows == ASSUME Inv, MapInv, NEW t \in Threads, InsertRetry(t) PROVE Follows
<1>1. job[t].pc = "link" /\ UNCHANGED <<heap, table, destroyed>>
  BY DEF InsertRetry
<1>2. SameLinks /\ DataKept
  BY <1>1, ReturnedUnlinked, Zenon DEF InsertRetry, DataKept
<1>3. Becomes(t, "alloc", job[t].entry, None, job[t].res)
  BY InsertRetryMoves DEF Inv
<1> QED
  BY <1>1, <1>2, <1>3, GoesOn, Zenon DEF Becomes, Moved, OnlyJob, Waiting

\* The insert takes effect when the record gets its place.
LEMMA InsertLinkFollows == ASSUME Inv, MapInv, NEW t \in Threads, InsertLink(t) PROVE Follows
<1>1. job[t].pc = "link" /\ UNCHANGED <<heap, recs, destroyed>>
  BY DEF InsertLink
<1>2. PICK x \in Entries, r \in Records, h \in Hashes : x = job[t].entry /\ r = job[t].rec /\ h = H(t)
  BY <1>1, InHand DEF WithEntry, Inserting
<1>3. /\ job[t].op = "insert" /\ job[t].val \in Values /\ ~destroyed /\ job[t].key \in Keys /\ Hash[job[t].key] = h
      /\ table[h] = None /\ recs[r].value = x
  BY <1>1, <1>2, OpIs, HashKnown, Zenon DEF Inv, Links, Ready, Locals, Local, Inserting, H
<1>4. heap[x].key = job[t].key /\ heap[x].val = job[t].val
  BY <1>1, <1>2, Zenon DEF Inv, Entrywise, EntryInv, Owned, InsertOwns, ByInsert
<1>5. table'[h] = r /\ \A g \in Hashes : g # h => table'[g] = table[g]
  BY <1>2 DEF Inv, Types, InsertLink
<1>6. Answered(t, <<job[t].val>>) /\ DataKept
  BY <1>1, <1>3, InsertLinkMoves, AnswersAre, Zenon DEF Inv, Becomes, Moved, Answered, OnlyJob, Waiting, Decided, DataKept
<1>7. /\ \A u \in Threads : AnswerOf(u)'
      /\ CallNow' = [CallNow EXCEPT ![t].res = <<job[t].val>>]
      /\ CallNow[t].op = "insert" /\ CallNow[t].res = None /\ CallNow[t].key = job[t].key /\ CallNow[t].val = job[t].val
  BY <1>3, <1>6, AnsweredIs
<1>8. \A k \in Keys : Hash[k] \in Hashes
  BY DEF Hashes
<1>9. r # None
  BY NoneApart
<1>10. \A k \in Keys : k # job[t].key => MapOf(k)' = MapOf(k)
  BY <1>1, <1>3, <1>4, <1>5, <1>8, Zenon DEF MapOf
<1>11. PICK k \in Keys : k = job[t].key
  BY <1>3
<1>12. MapOf(k) = None /\ MapOf(k)' = job[t].val
  <2>1. destroyed' = destroyed /\ recs' = recs /\ heap' = heap
    BY <1>1, Zenon
  <2>2. MapOf(k) = None
    BY <1>3, <1>11, Zenon DEF MapOf
  <2>3. table'[Hash[k]] = r /\ heap'[recs'[r].value].key = k /\ heap'[recs'[r].value].val = job[t].val
    BY <1>3, <1>4, <1>5, <1>11, <2>1, Zenon
  <2> QED
    BY <1>3, <1>9, <2>1, <2>2, <2>3, Zenon DEF MapOf
<1>13. MapNow[k] = None /\ MapNow' = [MapNow EXCEPT ![k] = job[t].val]
  BY <1>10, <1>11, <1>12 DEF MapNow
<1>14. Valued'
  <2>1. heap'[recs'[table'[h]].value].val # None
    BY <1>1, <1>3, <1>4, <1>5, NoneApart, Zenon
  <2>2. ASSUME NEW g \in Hashes, g # h, table'[g] # None PROVE heap'[recs'[table'[g]].value].val # None
    BY <1>1, <1>5, <2>2, Zenon DEF MapInv, Valued
  <2> QED
    BY <2>1, <2>2, Zenon DEF Valued
<1>15. Map!Insert(t)
  BY <1>7, <1>11, <1>13 DEF Map!Insert, Map!Pending, Map!Answer
<1> QED
  BY <1>7, <1>14, <1>15 DEF Follows, MapInv, Map!Next

\* Putting an entry on the list is unseen.
LEMMA ListPushFollows == ASSUME Inv, MapInv, NEW t \in Threads, ListPush(t) PROVE Follows
<1>1. job[t].pc = "push" /\ DataKept /\ SameLinks
  BY StoreSame DEF ListPush
<1>2. Becomes(t, "return", None, job[t].rec, job[t].res)
  BY ListPushMoves DEF Inv
<1> QED
  BY <1>1, <1>2, GoesOn, Zenon DEF Becomes, Moved, OnlyJob, Decided

\* A find takes effect when it loads the value of the record, and its answer
\* is fixed from then on.
LEMMA FindScopedFollows == ASSUME Inv, MapInv, NEW t \in Threads, FindScoped(t) PROVE Follows
<1>1. DataKept /\ SameLinks /\ UNCHANGED <<heap, recs, table>>
  BY StoreSame DEF FindScoped
<1>2. job[t].pc \in {"find", "remove"} /\ job[t].pc \in Inside
  BY DEF FindScoped, Inside, Finding, Removing
<1>3. Types /\ Locals /\ job[t].key \in Keys /\ H(t) \in Hashes /\ ~destroyed
  BY <1>2, HashKnown, Zenon DEF Inv, Locals, Local
<1>4. PICK k \in Keys : k = job[t].key /\ Hash[k] = H(t)
  BY <1>3, Zenon DEF H
<1>5. ASSUME job[t].pc = "find", Scoped(t, "compare", <<None>>) PROVE Follows
  <2>1. job[t].op = "find" /\ job[t].res = None
    BY <1>5, OpIs, Zenon DEF MapInv, AnswerOf, Waiting
  <2>2. \/ table[H(t)] = None /\ Becomes(t, "return", job[t].entry, job[t].rec, <<None>>)
        \/ table[H(t)] \in Records /\ Becomes(t, "compare", recs[table[H(t)]].value, job[t].rec, job[t].res)
    BY <1>2, <1>3, <1>5, ScopedMoves, PcsHave, ResultsHave, Zenon
  <2>3. OnlyJob(t) /\ job'[t].op = "find" /\ job'[t].key = k /\ job'[t].val = job[t].val /\ AnswerOf(t)'
    BY <1>4, <2>1, <2>2, AnswersAre, Zenon DEF Becomes, Moved, OnlyJob, AnswerOf, Waiting, Decided
  <2>4. Answer(t)' = <<MapOf(k)>>
    <3>1. CASE table[H(t)] = None /\ Becomes(t, "return", job[t].entry, job[t].rec, <<None>>)
      BY <1>3, <1>4, <3>1, Zenon DEF Becomes, Moved, Answer, MapOf
    <3>2. CASE table[H(t)] \in Records /\ Becomes(t, "compare", recs[table[H(t)]].value, job[t].rec, job[t].res)
      BY <1>1, <1>3, <1>4, <3>2, NoneApart, Zenon DEF Becomes, Moved, Answer, MapOf
    <3> QED
      BY <2>2, <3>1, <3>2, Zenon
  <2>5. CallOf(t)' = [op |-> "find", key |-> k, val |-> job[t].val, res |-> <<MapOf(k)>>]
    BY <2>3, <2>4, Zenon DEF CallOf
  <2>6. /\ \A u \in Threads : AnswerOf(u)'
        /\ CallNow' = [CallNow EXCEPT ![t] = [op |-> "find", key |-> k, val |-> job[t].val, res |-> <<MapOf(k)>>]]
    BY <1>1, <2>3, <2>5, OneCall, Zenon
  <2>7. CallNow[t] = [op |-> "find", key |-> k, val |-> job[t].val, res |-> None]
    BY <1>4, <1>5, <2>1, CallIs, Zenon DEF CallNow
  <2>8. [CallNow[t] EXCEPT !.res = <<MapOf(k)>>] = [op |-> "find", key |-> k, val |-> job[t].val, res |-> <<MapOf(k)>>]
    BY <2>7
  <2>9. CallNow' = [CallNow EXCEPT ![t] = [CallNow[t] EXCEPT !.res = <<MapOf(k)>>]]
    BY <2>6, <2>8, Zenon
  <2>10. MapNow' = MapNow /\ Valued' /\ MapNow[k] = MapOf(k) /\ CallNow[t].key = k /\ CallNow[t].op = "find" /\ CallNow[t].res = None
    BY <1>1, <2>7, MapStays DEF MapInv, MapNow
  <2>11. Map!Find(t)
    BY <2>9, <2>10, Zenon DEF Map!Find, Map!Pending, Map!Answer
  <2> QED
    BY <2>6, <2>10, <2>11, Zenon DEF Follows, MapInv, Map!Next
<1>6. ASSUME job[t].pc = "remove", Scoped(t, "match", "refused") PROVE Follows
  <2>1. job[t].op = "remove"
    BY <1>6, OpIs, Zenon
  <2>2. \/ Becomes(t, "return", job[t].entry, job[t].rec, "refused")
        \/ Becomes(t, "match", recs[table[H(t)]].value, job[t].rec, job[t].res)
    BY <1>2, <1>3, <1>6, ScopedMoves, PcsHave, ResultsHave, Zenon
  <2>3. CASE Becomes(t, "return", job[t].entry, job[t].rec, "refused")
    <3>1. Answered(t, "refused")
      BY <1>6, <2>3, AnswersAre, Zenon DEF Becomes, Moved, Answered, OnlyJob, Waiting, Decided
    <3> QED
      BY <1>1, <2>1, <3>1, Refuses, Zenon
  <2>4. CASE Becomes(t, "match", recs[table[H(t)]].value, job[t].rec, job[t].res)
    BY <1>1, <1>6, <2>4, GoesOn, Zenon DEF Becomes, Moved, OnlyJob, Waiting
  <2> QED
    BY <2>2, <2>3, <2>4, Zenon
<1> QED
  BY <1>5, <1>6 DEF FindScoped

\* The comparison of a find is unseen: its answer was settled when the table was read.
LEMMA FindCompareFollows == ASSUME Inv, MapInv, NEW t \in Threads, FindCompare(t) PROVE Follows
<1>1. job[t].pc = "compare" /\ DataKept /\ SameLinks /\ job[t].op = "find"
  BY StoreSame, OpIs DEF FindCompare
<1>2. Becomes(t, "return", None, job[t].rec, Found(t))
  BY FindCompareMoves DEF Inv
<1>3. Found(t) # None
  <2>1. job[t].entry \in Entries
    BY <1>1, InHand, Zenon DEF WithEntry
  <2>2. heap[job[t].entry].val \in Values \cup {None}
    BY <2>1, Zenon DEF Inv, Types
  <2> QED
    BY <2>2, AnswersAre, Zenon DEF Found
<1>4. Answer(t) = Found(t)
  BY <1>1, Zenon DEF Answer, Found, Same
<1>5. CallOf(t)' = CallOf(t)
  BY <1>1, <1>2, <1>4, Zenon DEF Becomes, Moved, CallOf, Answer
<1>6. AnswerOf(t)' /\ OnlyJob(t)
  BY <1>2, <1>3, Zenon DEF Becomes, Moved, OnlyJob, AnswerOf, Waiting, Decided
<1> QED
  BY <1>1, <1>5, <1>6, Unseen, Zenon

\* A remove that gives up is refused by the map.
LEMMA NothingRemovedFollows ==
    ASSUME Inv, MapInv, NEW t \in Threads, NothingRemoved(t), job[t].pc \in {"match", "unlink"}, UNCHANGED <<heap, recs, table, destroyed>>
    PROVE  Follows
<1>1. DataKept /\ SameLinks /\ job[t].op = "remove"
  BY StoreSame, OpIs
<1>2. Becomes(t, "return", None, job[t].rec, "refused")
  BY GiveUpMoves, Zenon DEF Inv, NothingRemoved
<1>3. Answered(t, "refused")
  BY <1>2, AnswersAre, Zenon DEF Becomes, Moved, Answered, OnlyJob, Waiting, Decided
<1> QED
  BY <1>1, <1>3, Refuses, Zenon

\* The comparison of a remove is unseen, or the remove is refused.
LEMMA RemoveMatchFollows == ASSUME Inv, MapInv, NEW t \in Threads, RemoveMatch(t) PROVE Follows
<1>1. job[t].pc = "match" /\ UNCHANGED <<heap, recs, table, destroyed>>
  BY DEF RemoveMatch
<1>2. CASE Same(t)
  <2>1. Becomes(t, "unlink", job[t].entry, job[t].rec, job[t].res)
    BY <1>2, SetPc, PcsHave, Zenon DEF Inv, Types, RemoveMatch, Becomes
  <2>2. DataKept /\ SameLinks
    BY <1>1, StoreSame, Zenon
  <2> QED
    BY <1>1, <2>1, <2>2, GoesOn, Zenon DEF Becomes, Moved, OnlyJob, Waiting
<1>3. CASE ~Same(t)
  BY <1>1, <1>3, NothingRemovedFollows DEF RemoveMatch
<1> QED
  BY <1>2, <1>3

\* A remove that finds its entry replaced is refused.
LEMMA RemoveMissedFollows == ASSUME Inv, MapInv, NEW t \in Threads, RemoveMissed(t) PROVE Follows
BY NothingRemovedFollows, Zenon DEF RemoveMissed

\* The remove takes effect when the record is unlinked.
LEMMA RemoveUnlinkFollows == ASSUME Inv, MapInv, NEW t \in Threads, RemoveUnlink(t) PROVE Follows
<1>1. job[t].pc = "unlink" /\ table[H(t)] # None /\ UNCHANGED <<heap, destroyed>> /\ job[t].op = "remove"
  BY OpIs, Zenon DEF RemoveUnlink
<1>2. job[t].key \in Keys /\ H(t) \in Hashes /\ ~destroyed
  BY <1>1, HashKnown, Zenon DEF Inv, Locals, Local, Inside, Removing
<1>3. PICK k \in Keys, h \in Hashes, r \in Records : k = job[t].key /\ h = H(t) /\ h = Hash[k] /\ r = table[h]
  BY <1>1, <1>2, Zenon DEF Inv, Types, H
<1>4. table'[h] = None /\ \A g \in Hashes : g # h => table'[g] = table[g]
  BY <1>3, Zenon DEF Inv, Types, RemoveUnlink
<1>5. \A g \in Hashes : table[g] # None => recs'[table[g]].value = recs[table[g]].value
  <2>1. \A q \in Records : recs'[q].value = recs[q].value
    BY <1>3, Zenon DEF Inv, Types, RemoveUnlink
  <2> QED
    BY <2>1, Zenon DEF Inv, Types
<1>6. heap[recs[r].value].key = k /\ heap[recs[r].value].val # None
  <2>1. MatchOf(t) /\ Valued
    BY Zenon DEF Inv, Matches, MapInv
  <2>2. recs[r].value = job[t].entry /\ heap[job[t].entry].key = job[t].key
    BY <1>1, <1>3, <2>1, Zenon DEF MatchOf, ByTable
  <2>3. heap[recs[r].value].val # None
    BY <1>1, <1>3, <2>1, Zenon DEF Valued
  <2> QED
    BY <1>3, <2>2, <2>3, Zenon
<1>7. \A j \in Keys : Hash[j] \in Hashes
  BY Zenon DEF Hashes
<1>8. \A j \in Keys : j # k => MapOf(j)' = MapOf(j)
  <2>1. ASSUME NEW j \in Keys, j # k, Hash[j] = h PROVE MapOf(j)' = MapOf(j)
    BY <1>1, <1>3, <1>4, <1>6, <2>1, Zenon DEF MapOf
  <2>2. ASSUME NEW j \in Keys, Hash[j] # h PROVE MapOf(j)' = MapOf(j)
    BY <1>1, <1>4, <1>5, <1>7, <2>2, Zenon DEF MapOf
  <2> QED
    BY <2>1, <2>2
<1>9. MapOf(k) # None /\ MapOf(k)' = None
  BY <1>1, <1>2, <1>3, <1>4, <1>6, NoneApart, Zenon DEF MapOf
<1>10. MapNow[k] # None /\ MapNow' = [MapNow EXCEPT ![k] = None]
  BY <1>8, <1>9, Zenon DEF MapNow
<1>11. Answered(t, <<>>) /\ DataKept
  BY <1>1, RemoveUnlinkMoves, AnswersAre, Zenon DEF Inv, Becomes, Moved, Answered, OnlyJob, Waiting, Decided, DataKept
<1>12. /\ \A u \in Threads : AnswerOf(u)'
       /\ CallNow' = [CallNow EXCEPT ![t].res = <<>>]
       /\ CallNow[t].op = "remove" /\ CallNow[t].res = None /\ CallNow[t].key = k
  BY <1>1, <1>3, <1>11, AnsweredIs, Zenon
<1>13. Valued'
  BY <1>1, <1>4, <1>5, Zenon DEF MapInv, Valued
<1>14. Map!Remove(t)
  BY <1>10, <1>12 DEF Map!Remove, Map!Pending, Map!Answer
<1> QED
  BY <1>12, <1>13, <1>14 DEF Follows, MapInv, Map!Next

\* What a remove does after it has unlinked the entry is unseen.
LEMMA RemovedFollows ==
    ASSUME Inv, MapInv, NEW t \in Threads, ListRemove(t) \/ Retire(t) \/ RetireNow(t) \/ RemoveUnpin(t)
    PROVE  Follows
<1>1. job[t].pc \in {"off", "retire", "unpin"} /\ UNCHANGED <<recs, table, destroyed>>
  BY DEF ListRemove, Retire, RetireNow, RemoveUnpin
<1>2. DataKept
  <2>1. CASE RetireNow(t)
    <3>1. job[t].entry \in Entries
      BY <2>1, InHand DEF RetireNow, WithEntry
    <3> QED
      BY <2>1, <3>1, FreeKeepsData DEF RetireNow
  <2>2. CASE heap' = heap
    BY <2>2, Zenon DEF DataKept
  <2> QED
    BY <2>1, <2>2 DEF ListRemove, Retire, RemoveUnpin
<1>3. SameLinks
  BY <1>1, Zenon DEF SameLinks
<1>4. \E pc \in Decided : \E e : Becomes(t, pc, e, job[t].rec, job[t].res)
  BY ListRemoveMoves, RetireMoves, RetireNowMoves, RemoveUnpinMoves, Zenon DEF Inv, Decided
<1> QED
  BY <1>1, <1>2, <1>3, <1>4, GoesOn, Zenon DEF Becomes, Moved, OnlyJob, Decided

\* The steps of a scan are unseen.
LEMMA ScanFollows ==
    ASSUME Inv, MapInv, NEW t \in Threads, ScanFlags(t) \/ ScanValue(t) \/ ScanLengths(t)
    PROVE  Follows
<1>1. job[t].pc \in {"memory", "value", "lengths"} /\ UNCHANGED <<heap, recs, table, destroyed>>
  BY Zenon DEF ScanFlags, ScanValue, ScanLengths
<1>2. DataKept /\ SameLinks /\ job[t].op = "memory"
  BY <1>1, StoreSame, OpIs, Zenon
<1>3. \E pc \in {"memory", "value", "lengths", "return"} : \E e, r : Becomes(t, pc, e, r, job[t].res)
  <2>1. CASE ScanFlags(t)
    <3>1. \/ \E r \in Records : Becomes(t, IF recs[r].flags = 0 THEN "value" ELSE "memory", job[t].entry, r, job[t].res)
          \/ Becomes(t, "return", job[t].entry, None, job[t].res)
      BY <2>1, ScanFlagsMoves, Zenon DEF Inv
    <3> QED
      BY <3>1
  <2>2. CASE ScanValue(t)
    <3>1. \E e : Becomes(t, IF e = None THEN "memory" ELSE "lengths", e, job[t].rec, job[t].res)
      BY <2>2, ScanValueMoves, Zenon DEF Inv
    <3> QED
      BY <3>1
  <2>3. CASE ScanLengths(t)
    BY <2>3, ScanLengthsMoves DEF Inv
  <2> QED
    BY <2>1, <2>2, <2>3
<1> QED
  BY <1>2, <1>3, GoesOn, Zenon DEF Becomes, Moved, OnlyJob, Waiting

\* A return is one of the map, or the end of a scan.
LEMMA ReturnFollows == ASSUME Inv, MapInv, NEW t \in Threads, Return(t) PROVE Follows
<1>1. job[t].pc = "return" /\ DataKept /\ SameLinks
  BY StoreSame DEF Return
<1>2. OnlyJob(t) /\ job'[t] = Idle
  BY ReturnMoves DEF Inv, OnlyJob
<1>3. CallOf(t)' = Map!Idle /\ AnswerOf(t)'
  BY <1>2 DEF CallOf, AnswerOf, Idle, Map!Idle, Waiting, Decided
<1>4. CASE job[t].op \in {"idle", "memory"}
  <2>1. CallOf(t)' = CallOf(t)
    BY <1>3, <1>4, Zenon DEF CallOf, Map!Idle
  <2> QED
    BY <1>1, <1>2, <1>3, <2>1, Unseen, Zenon
<1>5. CASE job[t].op \notin {"idle", "memory"}
  <2>1. (\A u \in Threads : AnswerOf(u)') /\ CallNow' = [CallNow EXCEPT ![t] = Map!Idle]
    BY <1>1, <1>2, <1>3, OneCall, Zenon
  <2>2. CallOf(t).res = job[t].res /\ job[t].res # None
    BY <1>1, <1>5, Zenon DEF CallOf, Answer, MapInv, AnswerOf, Decided
  <2>3. CallNow[t].res # None
    BY <2>2, Zenon DEF CallNow
  <2>4. MapNow' = MapNow /\ Valued'
    BY <1>1, MapStays, Zenon DEF MapInv
  <2>5. Map!Return(t)
    BY <2>1, <2>3, <2>4 DEF Map!Return
  <2> QED
    BY <2>1, <2>4, <2>5 DEF Follows, MapInv, Map!Next
<1> QED
  BY <1>4, <1>5

\* A step of no thread, with no effect on what is in the table.
LEMMA StoreFollows == ASSUME Inv, MapInv, DataKept, SameLinks, job' = job PROVE Follows
<1>1. \A u \in Threads : CallOf(u)' = CallOf(u) /\ AnswerOf(u)'
  BY CallStays DEF MapInv
<1>2. MapNow' = MapNow /\ Valued'
  BY MapStays DEF MapInv
<1> QED
  BY <1>1, <1>2 DEF Follows, MapInv, Map!vars, CallNow

\* Reclamation is unseen.
LEMMA CollectFollows == ASSUME Inv, MapInv, Collect PROVE Follows
<1>1. PICK n \in retired : Reclaim(n, heap, recs)
  BY DEF Collect
<1>2. table' = table /\ destroyed' = destroyed /\ job' = job
  BY DEF Collect
<1>3. n.what \in ({"entry"} \X Entries) \cup ({"record"} \X Records)
  BY Zenon DEF Inv, Types, Nodes
<1>4. ASSUME NEW x \in Entries, n.what = <<"entry", x>> PROVE DataKept /\ SameLinks
  <2>1. heap' = Free(heap, x) /\ recs' = recs
    BY <1>1, <1>4 DEF Reclaim
  <2> QED
    BY <1>2, <2>1, FreeKeepsData DEF SameLinks
<1>5. ASSUME NEW r \in Records, n.what = <<"record", r>> PROVE DataKept /\ SameLinks
  <2>1. heap' = heap /\ recs' = [recs EXCEPT ![r].value = None]
    BY <1>1, <1>5 DEF Reclaim
  <2>2. RetiredRec(r)
    BY <1>5 DEF RetiredRec
  <2>3. \A h \in Hashes : table[h] # None => table[h] \in Records /\ table[h] # r
    BY <2>2, TableLeads, Zenon DEF Home
  <2>4. DataKept
    BY <2>1 DEF DataKept
  <2> QED
    BY <1>2, <2>1, <2>3, <2>4 DEF SameLinks, Inv, Types
<1>6. (\E x \in Entries : n.what = <<"entry", x>>) \/ (\E r \in Records : n.what = <<"record", r>>)
  BY <1>3
<1> QED
  BY <1>2, <1>4, <1>5, <1>6, StoreFollows, Zenon

\* htc_kv_destroy follows the map.
LEMMA DestroyFollows == ASSUME Inv, MapInv, Destroy PROVE Follows
<1>1. job' = job /\ destroyed' = TRUE /\ table' = [h \in Hashes |-> None] /\ \A t \in Threads : job[t] = Idle
  BY DEF Destroy
<1>2. \A t \in Threads : CallOf(t) = Map!Idle /\ CallOf(t)' = CallOf(t) /\ AnswerOf(t)'
  BY <1>1, IdleCall, IdleCallNext
<1>3. CallNow' = CallNow /\ \A t \in Threads : CallNow[t] = Map!Idle
  BY <1>2 DEF CallNow
<1>4. MapNow' = [k \in Keys |-> None]
  BY <1>1, Zenon DEF MapNow, MapOf
<1>5. Valued'
  BY <1>1 DEF Valued
<1>6. Map!Destroy
  BY <1>3, <1>4 DEF Map!Destroy
<1> QED
  BY <1>2, <1>5, <1>6 DEF Follows, MapInv, Map!Next

\* Every step follows the map.
LEMMA StepFollows == ASSUME Inv, MapInv, [Next]_vars PROVE Follows
<1>1. ASSUME NEW t \in Threads, Step(t) PROVE Follows
  BY <1>1, CallInsertFollows, InsertRecordFollows, InsertLinkFollows, InsertFailsFollows, InsertRetryFollows, ListPushFollows,
     CallFollows, FindScopedFollows, FindCompareFollows, RemoveMatchFollows, RemoveUnlinkFollows, RemoveMissedFollows,
     RemovedFollows, ScanFollows, ReturnFollows, Zenon DEF Step
<1>2. ASSUME UNCHANGED vars PROVE Follows
  <2>1. UNCHANGED <<heap, recs, table, destroyed>> /\ job' = job
    BY <1>2 DEF vars
  <2> QED
    BY <2>1, StoreSame, StoreFollows
<1> QED
  BY <1>1, <1>2, CollectFollows, DestroyFollows, Zenon DEF Next

\* The store starts as the empty map.
LEMMA InitFollows == ASSUME Init, Inv PROVE MapInv /\ Map!Init
<1>1. \A t \in Threads : job[t] = Idle
  BY Zenon DEF Init
<1>2. \A t \in Threads : CallOf(t) = Map!Idle /\ AnswerOf(t)
  BY <1>1, IdleCall
<1>3. CallNow = [t \in Threads |-> Map!Idle]
  BY <1>2 DEF CallNow
<1>4. \A h \in Hashes : table[h] # None => recs[table[h]].value \in Entries /\ heap[recs[table[h]].value].state = "used"
  BY LinkedUsed, Zenon
<1>5. \A e \in Entries : heap[e].val \in Values \cup {None}
  BY Zenon DEF Inv, Types
<1>6. \A k \in Keys : Hash[k] \in Hashes
  BY DEF Hashes
<1>7. \A k \in Keys : MapOf(k) \in Values \cup {None}
  BY <1>4, <1>5, <1>6, Zenon DEF MapOf
<1>8. MapNow \in [Keys -> Values \cup {None}]
  BY <1>7 DEF MapNow
<1>9. \A e \in Entries : heap[e].state = "used" => heap[e].val # None
  <2>1. FirstValue \in Values
    BY KvConstants DEF FirstValue
  <2>2. ASSUME NEW e \in Entries PROVE heap[e] \in {[state |-> "used", key |-> conf.start[e], val |-> FirstValue], Unborn}
    BY Zenon DEF Init
  <2>3. ASSUME NEW e \in Entries, heap[e] = [state |-> "used", key |-> conf.start[e], val |-> FirstValue] PROVE heap[e].val # None
    BY <2>1, <2>3, NoneApart
  <2>4. ASSUME NEW e \in Entries, heap[e] = Unborn PROVE heap[e].state # "used"
    BY <2>4 DEF Unborn
  <2> QED
    BY <2>2, <2>3, <2>4, Zenon
<1>10. Valued
  BY <1>4, <1>9, Zenon DEF Valued
<1> QED
  BY <1>2, <1>3, <1>8, <1>10 DEF MapInv, Map!Init
=============================================================================
