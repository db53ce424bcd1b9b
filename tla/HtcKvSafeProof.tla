--------------------------- MODULE HtcKvSafeProof ---------------------------
(* The key-value store, concluded: the invariant holds in every reachable   *)
(* state, and the theorems follow from it.                                  *)
EXTENDS HtcKvWriteProof, HtcKvReadProof, FiniteSetTheorems

----------------------------------------------------------------------------
(* Every step keeps the invariant. *)

\* A step of a thread keeps the invariant.
LEMMA StepKeeps == ASSUME Inv, NEW t \in Threads, Step(t) PROVE Inv'
BY CallInsertKeeps, InsertRecordKeeps, InsertLinkKeeps, InsertFailsKeeps, InsertRetryKeeps, ListPushKeeps,
   CallKeeps, FindScopedKeeps, FindCompareKeeps, RemoveMatchKeeps, RemoveUnlinkKeeps, RemoveMissedKeeps, ListRemoveKeeps,
   RetireKeeps, RetireNowKeeps, RemoveUnpinKeeps, ScanFlagsKeeps, ScanValueKeeps, ScanLengthsKeeps, ReturnKeeps, Zenon DEF Step

\* So does a step that changes nothing.
LEMMA StutterKeeps == ASSUME Inv, UNCHANGED vars PROVE Inv'
<1>1. conf' = conf /\ heap' = heap /\ recs' = recs /\ table' = table /\ list' = list /\ retired' = retired
      /\ pinned' = pinned /\ job' = job /\ destroyed' = destroyed
  BY DEF vars
<1>2. Apart' /\ Types' /\ Holders' /\ NodesOnce'
  BY <1>1, Zenon DEF Inv, Apart, Types, Holders, NodesOnce
<1>3. Locals'
  BY <1>1, Zenon DEF Inv, Locals, Local
<1>4. Tables' /\ Links'
  <2>1. Tables /\ Links
    BY Zenon DEF Inv
  <2>2. Tables'
    BY <1>1, <2>1, Zenon DEF Tables, Home, RetiredRec
  <2>3. Links'
    BY <1>1, <2>1, Zenon DEF Links, Ready, LinkedRec, RetiredRec, H
  <2> QED
    BY <2>2, <2>3, Zenon
<1>5. Named'
  BY <1>1, Zenon DEF Inv, Named, LinkedRec, RetiredRec
<1>6. Matches' /\ Pushes' /\ Once(list)'
  BY <1>1, Zenon DEF Inv, Matches, MatchOf, Pushes, Once, ByTable, H
<1>7. ASSUME NEW e \in Entries PROVE EntryInv(e)'
  <2>1. EntryInv(e)
    BY DEF Inv, Entrywise
  <2>2. SameOwner(e)
    BY <1>1, Zenon DEF SameOwner, ByInsert, ByTable, ByRemove, RetiredEntry, OnList, ByPush, ByOff
  <2>3. SameReaders(e)
    BY <1>1, Zenon DEF SameReaders, Holding
  <2> QED
    BY <2>1, <2>2, <2>3, SameOwned, SameSafe, Zenon DEF EntryInv
<1> QED
  BY <1>2, <1>3, <1>4, <1>5, <1>6, <1>7 DEF Inv, Entrywise

\* Every step keeps the invariant.
LEMMA NextKeeps == ASSUME Inv, [Next]_vars PROVE Inv'
BY StepKeeps, StutterKeeps, CollectKeeps, DestroyKeeps, Zenon DEF Next

\* For clients that keep out of each other's way the invariant holds.
LEMMA Invariant == ASSUME \A c \in Configs : KeptApart(c) PROVE Spec => []Inv
<1>1. Init => Inv
  BY InitKeeps, Zenon DEF Init, Apart
<1>2. Inv /\ [Next]_vars => Inv'
  BY NextKeeps
<1> QED
  BY <1>1, <1>2, PTL DEF Spec

\* Together with what the steps of the map need.
LEMMA MapInvariant == ASSUME \A c \in Configs : KeptApart(c) PROVE Spec => [](Inv /\ MapInv)
<1>1. Init => Inv /\ MapInv
  BY InitKeeps, InitFollows, Zenon DEF Init, Apart
<1>2. (Inv /\ MapInv) /\ [Next]_vars => (Inv /\ MapInv)'
  BY NextKeeps, StepFollows DEF Follows
<1> QED
  BY <1>1, <1>2, PTL DEF Spec

----------------------------------------------------------------------------
(* The theorems. *)

\* The invariant gives the types.
LEMMA InvTypeOK == ASSUME Inv PROVE TypeOK
<1>1. \A t \in Threads : job[t].entry \in Entries \cup {None} /\ job[t].rec \in Records \cup {None}
  BY JobFields DEF Inv
<1>2. \A t \in pinned : job[t].pc \notin {"idle", "return"}
  BY Zenon DEF Inv, Types, Locals, Local, Inside, Finding, Removing, Scanning
<1> QED
  BY <1>1, <1>2, Zenon DEF TypeOK, Inv, Types, Holders

\* The owners of an entry, one kind after the other.
LEMMA OwnersAre ==
    ASSUME Inv, NEW e \in Entries
    PROVE  (heap[e].state = "used" => \E o : Owners(e) = {o}) /\ (heap[e].state # "used" => Owners(e) = {})
<1> DEFINE I == {<<"insert", t>> : t \in {u \in At({"alloc", "link"}) : job[u].entry = e}}
           T == {<<"table", h>> : h \in {g \in Hashes : table[g] # None /\ recs[table[g]].value = e}}
           R == {<<"remove", t>> : t \in {u \in At({"off", "retire"}) : job[u].entry = e}}
           N == {<<"retired", n>> : n \in {m \in retired : m.what = <<"entry", e>>}}
<1>1. Owners(e) = I \cup T \cup R \cup N
  BY Zenon DEF Owners
<1>2. \A o : o \in I <=> \E t \in Threads : ByInsert(t, e) /\ o = <<"insert", t>>
  BY Zenon DEF At, ByInsert
<1>3. \A o : o \in T <=> \E h \in Hashes : ByTable(h, e) /\ o = <<"table", h>>
  BY Zenon DEF ByTable
<1>4. \A o : o \in R <=> \E t \in Threads : ByRemove(t, e) /\ o = <<"remove", t>>
  BY DEF At, ByRemove
<1>5. \A o : o \in N <=> \E n \in retired : n.what = <<"entry", e>> /\ o = <<"retired", n>>
  OBVIOUS
<1> HIDE DEF I, T, R, N
<1>6. ASSUME NEW t \in Threads, ByInsert(t, e) PROVE heap[e].state = "used" /\ Owners(e) = {<<"insert", t>>}
  <2>1. /\ heap[e].state = "used" /\ ~RetiredEntry(e)
        /\ \A u \in Threads : (ByInsert(u, e) => u = t) /\ ~ByRemove(u, e)
        /\ \A h \in Hashes : ~ByTable(h, e)
    BY <1>6, Zenon DEF Inv, Entrywise, EntryInv, Owned, InsertOwns
  <2>2. I = {<<"insert", t>>} /\ T = {} /\ R = {}
    BY <1>2, <1>3, <1>4, <1>6, <2>1
  <2>3. N = {}
    BY <1>5, <2>1, Zenon DEF RetiredEntry
  <2> QED
    BY <1>1, <2>1, <2>2, <2>3
<1>7. ASSUME NEW h \in Hashes, ByTable(h, e) PROVE heap[e].state = "used" /\ Owners(e) = {<<"table", h>>}
  <2>1. /\ heap[e].state = "used" /\ ~RetiredEntry(e)
        /\ \A u \in Threads : ~ByInsert(u, e) /\ ~ByRemove(u, e)
        /\ \A g \in Hashes : ByTable(g, e) => g = h
    BY <1>7, Zenon DEF Inv, Entrywise, EntryInv, Owned, TableOwns, InsertOwns
  <2>2. I = {} /\ T = {<<"table", h>>} /\ R = {}
    BY <1>2, <1>3, <1>4, <1>7, <2>1, Zenon
  <2>3. N = {}
    BY <1>5, <2>1, Zenon DEF RetiredEntry
  <2> QED
    BY <1>1, <2>1, <2>2, <2>3, Zenon
<1>8. ASSUME NEW t \in Threads, ByRemove(t, e) PROVE heap[e].state = "used" /\ Owners(e) = {<<"remove", t>>}
  <2>1. /\ heap[e].state = "used" /\ ~RetiredEntry(e)
        /\ \A u \in Threads : ~ByInsert(u, e) /\ (ByRemove(u, e) => u = t)
        /\ \A h \in Hashes : ~ByTable(h, e)
    BY <1>8, Zenon DEF Inv, Entrywise, EntryInv, Owned, RemoveOwns, TableOwns, InsertOwns
  <2>2. I = {} /\ T = {} /\ R = {<<"remove", t>>}
    BY <1>2, <1>3, <1>4, <1>8, <2>1, Zenon
  <2>3. N = {}
    BY <1>5, <2>1, Zenon DEF RetiredEntry
  <2> QED
    BY <1>1, <2>1, <2>2, <2>3, Zenon
<1>9. ASSUME NEW n \in retired, n.what = <<"entry", e>> PROVE heap[e].state = "used" /\ Owners(e) = {<<"retired", n>>}
  <2>1. RetiredEntry(e) /\ \A m \in retired : m.what = <<"entry", e>> => m = n
    BY <1>9 DEF RetiredEntry, Inv, NodesOnce
  <2>2. /\ heap[e].state = "used"
        /\ \A u \in Threads : ~ByInsert(u, e) /\ ~ByRemove(u, e)
        /\ \A h \in Hashes : ~ByTable(h, e)
    BY <2>1, Zenon DEF Inv, Entrywise, EntryInv, Owned, RetiredOwns, RemoveOwns, TableOwns, InsertOwns
  <2>3. I = {} /\ T = {} /\ R = {}
    BY <1>2, <1>3, <1>4, <2>2
  <2>4. N = {<<"retired", n>>}
    BY <1>5, <1>9, <2>1
  <2> QED
    BY <1>1, <2>2, <2>3, <2>4
<1>10. ASSUME heap[e].state = "used" PROVE \E o : Owners(e) = {o}
  <2>1. \/ \E t \in Threads : ByInsert(t, e)
        \/ \E h \in Hashes : ByTable(h, e)
        \/ \E t \in Threads : ByRemove(t, e)
        \/ \E n \in retired : n.what = <<"entry", e>>
    BY <1>10, Zenon DEF Inv, Entrywise, EntryInv, Owned, HasOwner, RetiredEntry
  <2> QED
    BY <1>6, <1>7, <1>8, <1>9, <2>1, Zenon
<1>11. ASSUME heap[e].state # "used" PROVE Owners(e) = {}
  BY <1>1, <1>2, <1>3, <1>4, <1>5, <1>6, <1>7, <1>8, <1>9, <1>11, Zenon
<1> QED
  BY <1>10, <1>11, Zenon

\* It gives every entry in use one owner.
LEMMA InvOneOwner == ASSUME Inv PROVE OneOwner
<1>1. ASSUME NEW e \in Entries PROVE Cardinality(Owners(e)) = (IF heap[e].state = "used" THEN 1 ELSE 0)
  <2>1. CASE heap[e].state = "used"
    <3>1. PICK o : Owners(e) = {o}
      BY <2>1, OwnersAre, Zenon
    <3> QED
      BY <2>1, <3>1, FS_Singleton, Zenon
  <2>2. CASE heap[e].state # "used"
    BY <2>2, OwnersAre, FS_EmptySet, Zenon
  <2> QED
    BY <2>1, <2>2
<1> QED
  BY <1>1, InvTypeOK DEF OneOwner

\* The entries the table leads to.
LEMMA InvLinked == ASSUME Inv PROVE \A e : e \in Linked <=> e \in Entries /\ \E h \in Hashes : ByTable(h, e)
<1>1. \A h \in Hashes : table[h] # None => recs[table[h]].value \in Entries
  BY LinkedIs, Zenon
<1> QED
  BY <1>1 DEF Linked, ByTable

\* The entries on the list.
LEMMA InvOnList == ASSUME Inv PROVE \A e : e \in Range(list) <=> e \in Entries /\ OnList(e)
<1>1. list \in Seq(Entries)
  BY Zenon DEF Inv, Types
<1> QED
  BY <1>1 DEF Range, OnList

\* The invariant gives the agreement of list and table.
LEMMA InvListAgrees == ASSUME Inv PROVE ListAgrees
<1>1. IsInjective(list)
  <2>1. DOMAIN list = 1 .. Len(list)
    BY DEF Inv, Types
  <2> QED
    BY <2>1 DEF IsInjective, Inv, Once
<1>2. \A e : e \in EntriesAt({"push"}) <=> \E t \in Threads : job[t].pc = "push" /\ job[t].entry = e
  BY DEF EntriesAt, At
<1>3. \A e : e \in EntriesAt({"off"}) <=> e \in Entries /\ \E t \in Threads : job[t].pc = "off" /\ job[t].entry = e
  BY InHand DEF EntriesAt, At, WithEntry
<1>4. \A e \in Entries : OnList(e) <=> \/ /\ \E h \in Hashes : ByTable(h, e)
                                          /\ \A t \in Threads : ~(job[t].pc = "push" /\ job[t].entry = e)
                                       \/ \E t \in Threads : job[t].pc = "off" /\ job[t].entry = e
  BY Zenon DEF Inv, Entrywise, EntryInv, Listed, ByPush, ByOff
<1>5. Range(list) = (Linked \ EntriesAt({"push"})) \cup EntriesAt({"off"})
  <2>1. \A e : e \in Linked <=> e \in Entries /\ \E h \in Hashes : ByTable(h, e)
    BY InvLinked
  <2>2. \A e : e \in Range(list) <=> e \in Entries /\ OnList(e)
    BY InvOnList
  <2>3. ASSUME NEW e \in Entries PROVE e \in Range(list) <=> (e \in Linked /\ e \notin EntriesAt({"push"})) \/ e \in EntriesAt({"off"})
    BY <1>2, <1>3, <1>4, <2>1, <2>2
  <2>4. \A e : e \in Range(list) \/ e \in Linked \/ e \in EntriesAt({"off"}) => e \in Entries
    BY <1>3, <2>1, <2>2
  <2>5. ASSUME NEW e PROVE e \in Range(list) <=> e \in (Linked \ EntriesAt({"push"})) \cup EntriesAt({"off"})
    BY <2>3, <2>4
  <2> QED
    BY <2>5
<1> QED
  BY <1>1, <1>5 DEF ListAgrees

\* It keeps freed entries from being read.
LEMMA InvNoneDangling == ASSUME Inv PROVE NoneDangling
<1>1. ASSUME NEW t \in Threads, job[t].pc \in {"compare", "match", "unlink", "lengths"} PROVE heap[job[t].entry].state = "used"
  BY <1>1, InHand, Zenon DEF Inv, Entrywise, EntryInv, Safe, Holding, Protected, WithEntry
<1>2. ASSUME NEW t \in Threads, job[t].pc \in {"off", "retire"} PROVE heap[job[t].entry].state = "used"
  BY <1>2, InHand, Zenon DEF Inv, Entrywise, EntryInv, Owned, RemoveOwns, ByRemove, WithEntry
<1>3. \A e \in EntriesAt({"compare", "match", "unlink", "off", "retire", "lengths"}) : heap[e].state = "used"
  BY <1>1, <1>2, Zenon DEF EntriesAt, At
<1>4. \A e \in Linked : heap[e].state = "used"
  BY InvLinked, Zenon DEF Inv, Entrywise, EntryInv, Owned, TableOwns
<1>5. ASSUME NEW e \in Range(list) PROVE heap[e].state = "used"
  <2>1. e \in Entries /\ OnList(e)
    BY <1>5, InvOnList
  <2>2. (\E h \in Hashes : ByTable(h, e)) \/ \E t \in Threads : ByRemove(t, e)
    BY <2>1, Zenon DEF Inv, Entrywise, EntryInv, Listed, ByOff, ByRemove
  <2> QED
    BY <2>1, <2>2, Zenon DEF Inv, Entrywise, EntryInv, Owned, TableOwns, RemoveOwns
<1> QED
  BY <1>3, <1>4, <1>5 DEF NoneDangling

\* It keeps retired entries off the list.
LEMMA InvRetiredOffList == ASSUME Inv PROVE RetiredOffList
<1> SUFFICES ASSUME NEW n \in retired, n.what[1] = "entry", n.what[2] \in Range(list) PROVE FALSE
  BY Zenon DEF RetiredOffList
<1>1. PICK e \in Entries : n.what = <<"entry", e>>
  BY DEF Inv, Types, Nodes
<1>2. RetiredEntry(e) /\ OnList(e)
  BY <1>1, InvOnList DEF RetiredEntry
<1>3. (\E h \in Hashes : ByTable(h, e)) \/ \E t \in Threads : ByRemove(t, e)
  BY <1>2, Zenon DEF Inv, Entrywise, EntryInv, Listed, ByOff, ByRemove
<1> QED
  BY <1>2, <1>3, Zenon DEF Inv, Entrywise, EntryInv, Owned, TableOwns, RemoveOwns

\* Every entry in use has one owner who will free it, and one that is not in
\* use has none, for any number of threads, keys and entries: from
\* kv_entry_alloc to kv_entry_retire_cb or htc_kv_destroy.
THEOREM EntriesOwned == ASSUME \A c \in Configs : KeptApart(c) PROVE Spec => []OneOwner
<1>1. Inv => OneOwner
  BY InvOneOwner
<1> QED
  BY <1>1, Invariant, PTL

\* list_push and list_remove keep the list and the table in step.
THEOREM ListInStep == ASSUME \A c \in Configs : KeptApart(c) PROVE Spec => []ListAgrees
<1>1. Inv => ListAgrees
  BY InvListAgrees
<1> QED
  BY <1>1, Invariant, PTL

\* No find, remove or scan reads an entry that has been freed.
THEOREM NothingDangles == ASSUME \A c \in Configs : KeptApart(c) PROVE Spec => []NoneDangling
<1>1. Inv => NoneDangling
  BY InvNoneDangling
<1> QED
  BY <1>1, Invariant, PTL

\* What kv_entry_retire_cb says of itself: the entry is off the list.
THEOREM RetiredIsOff == ASSUME \A c \in Configs : KeptApart(c) PROVE Spec => []RetiredOffList
<1>1. Inv => RetiredOffList
  BY InvRetiredOffList
<1> QED
  BY <1>1, Invariant, PTL

\* The store is a map from keys to values, and every call takes effect at one
\* instant between its start and its return: an insert when htc_insert gives
\* the record its place, a remove when htc_remove unlinks it, a find when
\* htc_find_scoped loads the value of the record, though the table knows
\* hashes only and entries are removed and freed meanwhile.
THEOREM StoreIsMap == ASSUME \A c \in Configs : KeptApart(c) PROVE Spec => IsKvMap
<1>1. Init => Map!Init
  BY InitKeeps, InitFollows, Zenon DEF Init, Apart
<1>2. (Inv /\ MapInv) /\ [Next]_vars => [Map!Next]_(Map!vars)
  BY StepFollows DEF Follows
<1>3. Spec => [](Inv /\ MapInv)
  BY MapInvariant
<1> QED
  BY <1>1, <1>2, <1>3, PTL DEF Spec, IsKvMap, Map!Spec
=============================================================================
