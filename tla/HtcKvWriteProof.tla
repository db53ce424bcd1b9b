-------------------------- MODULE HtcKvWriteProof ---------------------------
(* The key-value store, continued: the last steps of an insert, which hand *)
(* the entry to the table and put it on the list, those of a remove, which *)
(* take it from the table and off the list and retire it, reclamation and  *)
(* destruction, and the initial states.                                    *)
EXTENDS HtcKvProof

----------------------------------------------------------------------------
(* An insert that succeeds. *)

\* The record is linked: the entry belongs to the table.
LEMMA InsertLinkKeeps == ASSUME Inv, NEW t \in Threads, InsertLink(t) PROVE Inv'
<1>1. job[t].pc = "link" /\ UNCHANGED <<conf, heap, recs, list, retired, pinned, destroyed>>
  BY DEF InsertLink
<1>2. PICK x \in Entries, r \in Records, h \in Hashes : x = job[t].entry /\ r = job[t].rec /\ h = H(t)
  BY <1>1, InHand DEF WithEntry, Inserting
<1>3. /\ OnlyJob(t)
      /\ job'[t].op = job[t].op /\ job'[t].key = job[t].key /\ job'[t].val = job[t].val
      /\ job'[t].pc = "push" /\ job'[t].entry = x /\ job'[t].rec = None
  BY <1>2, InsertLinkMoves, Zenon DEF Inv, Becomes, Moved, OnlyJob
<1>4. \A u \in Threads : u # t => job'[u] = job[u]
  BY <1>3 DEF OnlyJob
<1>5. /\ table' \in [Hashes -> Records \cup {None}]
      /\ table'[h] = r /\ \A g \in Hashes : g # h => table'[g] = table[g]
  BY <1>2 DEF Inv, Types, InsertLink
<1>6. /\ table[h] = None /\ ~LinkedRec(r) /\ ~RetiredRec(r) /\ recs[r].flags = 0 /\ recs[r].value = x
      /\ \A u \in Threads : u # t /\ job[u].pc = "link" => job[u].rec # r /\ H(u) # h
  BY <1>1, <1>2, Zenon DEF Inv, Links, Ready
<1>7. Local(t) /\ EntryInv(x) /\ ByInsert(t, x) /\ job[t].op = "insert" /\ job[t].key \in conf.inserts[t]
  BY <1>1, <1>2, Zenon DEF ByInsert, Inv, Locals, Local, Inserting, Entrywise
<1>8. /\ heap[x].state = "used" /\ heap[x].key = job[t].key /\ ~RetiredEntry(x)
      /\ \A g \in Hashes : ~ByTable(g, x)
      /\ \A u \in Threads : ~ByRemove(u, x) /\ (ByInsert(u, x) => u = t)
  BY <1>7 DEF EntryInv, Owned, InsertOwns
<1>9. heap[x].key # None /\ Hash[heap[x].key] = h /\ r # None /\ x # None
  BY <1>1, <1>2, <1>8, HashKnown, NoneApart, Zenon DEF Inv, H, Inserting
<1>10. \A g \in Hashes, e \in Entries : ByTable(g, e)' <=> ByTable(g, e) \/ (g = h /\ e = x)
  BY <1>1, <1>5, <1>6, <1>9 DEF ByTable
<1>11. \A q \in Records : (LinkedRec(q)' <=> LinkedRec(q) \/ q = r) /\ (RetiredRec(q)' <=> RetiredRec(q))
  BY <1>1, <1>5, <1>6, NoneApart DEF LinkedRec, RetiredRec
<1>12. Types' /\ Apart' /\ Holders' /\ NodesOnce' /\ Once(list)'
  BY <1>1, <1>3, <1>5 DEF Inv, Types, Apart, Holders, NodesOnce, Once, OnlyJob
<1>13. Locals'
  <2>1. Local(t)'
    BY <1>1, <1>3, <1>7, <1>9, Zenon DEF Local, Inserting, Finding, Removing, Scanning, Inside, WithEntry
  <2> QED
    BY <1>1, <1>4, <2>1 DEF Inv, Locals, Local
<1>14. Tables'
  <2>1. \A f, g \in Hashes : table'[f] # None /\ table'[f] = table'[g] => f = g
    <3>1. /\ \A f, g \in Hashes : table[f] # None /\ table[f] = table[g] => f = g
          /\ \A g \in Hashes : table[g] # r
      BY <1>6, Zenon DEF Inv, Tables, LinkedRec
    <3> QED
      BY <1>5, <3>1
  <2>2. ASSUME NEW g \in Hashes, table'[g] # None PROVE Home(g)'
    <3>1. \A q : RetiredRec(q)' <=> RetiredRec(q)
      BY <1>1, Zenon DEF RetiredRec
    <3>2. CASE g = h
      <4>1. table'[g] = r /\ recs' = recs /\ heap' = heap /\ ~RetiredRec(table[g])'
        BY <1>1, <1>5, <1>6, <3>1, <3>2 DEF RetiredRec
      <4> QED
        BY <1>6, <1>9, <3>2, <4>1, Zenon DEF Home
    <3>3. CASE g # h
      <4>1. table'[g] = table[g] /\ recs' = recs /\ heap' = heap
        BY <1>1, <1>5, <3>3
      <4>2. Home(g) /\ (RetiredRec(table[g])' => RetiredRec(table[g]))
        BY <1>1, <2>2, <4>1, TableLeads, Zenon DEF RetiredRec
      <4> QED
        BY <4>1, <4>2, HomeKept, Zenon
    <3> QED
      BY <3>2, <3>3, Zenon
  <2> QED
    BY <2>1, <2>2, Zenon DEF Tables
<1>15. Links'
  <2>1. ASSUME NEW u \in Threads, job'[u].pc = "link" PROVE job'[u] = job[u] /\ Ready(u)'
    <3>1. u # t /\ job'[u] = job[u] /\ job[u].pc = "link"
      BY <1>3, <1>4, <2>1
    <3>2. job[u].rec \in Records /\ H(u) \in Hashes
      BY <3>1, InHand DEF Inserting
    <3>3. Ready(u) /\ H(u) # h /\ job[u].rec # r
      BY <1>6, <3>1, Zenon DEF Inv, Links
    <3>4. table'[H(u)] = table[H(u)] /\ recs' = recs
      BY <1>1, <1>5, <3>2, <3>3
    <3>5. (LinkedRec(job[u].rec)' => LinkedRec(job[u].rec)) /\ (RetiredRec(job[u].rec)' => RetiredRec(job[u].rec))
      BY <1>11, <3>1, <3>2, <3>3, Zenon
    <3> QED
      BY <3>1, <3>3, <3>4, <3>5, ReadyKept, Zenon
  <2> QED
    BY <2>1, LinkersKept, Zenon
<1>16. Named'
  BY <1>1, <1>2, <1>4, <1>11 DEF Inv, Named
<1>17. Matches'
  <2>1. ASSUME NEW u \in Threads, u # t PROVE MatchOf(u)'
    <3>1. ASSUME job[u].pc \in {"match", "unlink"} PROVE table'[H(u)] = table[H(u)]
      <4>1. H(u) \in Hashes /\ job[u].key \in conf.removes[u]
        BY <3>1, InHand, Zenon DEF Inside, Removing, Inv, Locals, Local
      <4>2. H(u) # h
        BY <1>2, <1>7, <2>1, <4>1 DEF Inv, Apart, KeptApart, H
      <4> QED
        BY <1>5, <4>1, <4>2
    <3>2. MatchOf(u) /\ job'[u] = job[u] /\ H(u)' = H(u)
      BY <1>4, <2>1 DEF Inv, Matches, H
    <3> QED
      BY <1>1, <3>1, <3>2, Zenon DEF MatchOf, ByTable
  <2>2. MatchOf(t)'
    BY <1>3 DEF MatchOf
  <2> QED
    BY <2>1, <2>2 DEF Matches
<1>18. Pushes'
  <2>1. H(t)' = h /\ \A u \in Threads : u # t => H(u)' = H(u)
    BY <1>2, <1>3, <1>4 DEF H
  <2>2. \A u \in Threads : job[u].pc = "push" => H(u) \in Hashes /\ job[u].entry \in Entries /\ ByTable(H(u), job[u].entry)
    BY InHand DEF Inserting, WithEntry, Inv, Pushes
  <2>3. \A u \in Threads : job'[u].pc = "push" => ByTable(H(u), job[u].entry)'
    <3>1. ByTable(H(t), job[t].entry)'
      BY <1>3, <1>10, <2>1
    <3>2. ASSUME NEW u \in Threads, u # t, job'[u].pc = "push" PROVE ByTable(H(u), job[u].entry)'
      BY <1>4, <1>10, <2>1, <2>2, <3>2
    <3> QED
      BY <3>1, <3>2
  <2>4. \A u \in Threads : u # t /\ job[u].pc = "push" => job[u].entry # x
    BY <1>8, <2>2
  <2>5. \A u, w \in Threads : job'[u].pc = "push" /\ job'[w].pc = "push" /\ job'[u].entry = job'[w].entry => w = u
    BY <1>3, <1>4, <2>4 DEF Inv, Pushes
  <2> QED
    BY <2>3, <2>5 DEF Pushes
<1>19. EntryInv(x)'
  <2>1. \A u \in Threads : ~ByInsert(u, x)' /\ ~ByRemove(u, x)' /\ ~ByOff(u, x)'
    BY <1>3, <1>4, <1>8 DEF ByInsert, ByRemove, ByOff
  <2>2. \A g \in Hashes : ByTable(g, x)' <=> g = h
    BY <1>8, <1>10
  <2>3. ~RetiredEntry(x)' /\ heap'[x].state = "used"
    BY <1>1, <1>8 DEF RetiredEntry
  <2>4. Owned(x)'
    BY <2>1, <2>2, <2>3 DEF Owned, HasOwner, InsertOwns, TableOwns, RemoveOwns, RetiredOwns
  <2>5. ~OnList(x)'
    <3>1. ~OnList(x)
      BY <1>7, <1>8 DEF EntryInv, Listed, ByOff, ByRemove
    <3> QED
      BY <1>1, <3>1 DEF OnList
  <2>6. ByPush(t, x)'
    BY <1>3 DEF ByPush
  <2>7. Listed(x)'
    BY <2>1, <2>5, <2>6 DEF Listed
  <2>8. Safe(x)'
    BY <2>1, <2>3, Zenon DEF Safe, Protected, RetiredEntry
  <2> QED
    BY <2>4, <2>7, <2>8 DEF EntryInv
<1>20. Elsewhere(t, x)
  BY <1>1, <1>2, <1>3, <1>10, Zenon DEF Elsewhere, OnList
<1>21. Entrywise'
  BY <1>19, <1>20, EntriesKept
<1> QED
  BY <1>12, <1>13, <1>14, <1>15, <1>16, <1>17, <1>18, <1>21, Zenon DEF Inv

\* What is on the list after a push.
LEMMA PushList ==
    ASSUME NEW l \in Seq(Entries), NEW x \in Entries, NEW m, m = <<x>> \o l
    PROVE  /\ m \in Seq(Entries) /\ Len(m) = Len(l) + 1 /\ m[1] = x
           /\ \A i \in 1 .. Len(l) : m[i + 1] = l[i]
           /\ \A i \in 1 .. Len(m) : i # 1 => i - 1 \in 1 .. Len(l) /\ m[i] = l[i - 1]
OBVIOUS

\* Putting the entry on the list keeps the invariant.
LEMMA ListPushKeeps == ASSUME Inv, NEW t \in Threads, ListPush(t) PROVE Inv'
<1>1. job[t].pc = "push" /\ UNCHANGED <<conf, heap, recs, table, retired, pinned, destroyed>>
  BY DEF ListPush
<1>2. PICK x \in Entries, h \in Hashes : x = job[t].entry /\ h = H(t)
  BY <1>1, InHand DEF WithEntry, Inserting
<1>3. /\ OnlyJob(t)
      /\ job'[t].op = job[t].op /\ job'[t].pc = "return" /\ job'[t].entry = None /\ job'[t].rec = job[t].rec
  BY ListPushMoves, Zenon DEF Inv, Becomes, Moved, OnlyJob
<1>4. /\ list' \in Seq(Entries) /\ Len(list') = Len(list) + 1 /\ list'[1] = x
      /\ \A i \in 1 .. Len(list) : list'[i + 1] = list[i]
      /\ \A i \in 1 .. Len(list') : i # 1 => i - 1 \in 1 .. Len(list) /\ list'[i] = list[i - 1]
  <2>1. list' = <<x>> \o list /\ list \in Seq(Entries)
    BY <1>2 DEF ListPush, Inv, Types
  <2> QED
    BY <2>1, PushList
<1>5. Local(t) /\ job[t].op = "insert" /\ job[t].rec = None
  BY <1>1, Zenon DEF Inv, Locals, Local, Inserting
<1>6. KeysKept /\ LinksKept
  BY <1>1 DEF KeysKept, LinksKept, ByTable
<1>7. Types' /\ Apart' /\ Holders' /\ NodesOnce'
  BY <1>1, <1>3, <1>4, Zenon DEF Inv, Types, Apart, Holders, NodesOnce, OnlyJob
<1>8. Local(t)' /\ MatchOf(t)'
  BY <1>1, <1>3, <1>5, Zenon DEF MatchOf, Local, Inserting, Finding, Removing, Scanning, Inside, WithEntry
<1>9. Locals' /\ Matches' /\ Pushes'
  BY <1>1, <1>3, <1>6, <1>8, ThreadsKept, Zenon
<1>10. Tables' /\ Links' /\ Named'
  BY <1>1, <1>3, <1>6, StoreKept, Zenon DEF RetiredRec
<1>11. ByTable(h, x) /\ EntryInv(x) /\ \A u \in Threads : ByPush(u, x) => u = t
  BY <1>1, <1>2, Zenon DEF Inv, Pushes, Entrywise, ByPush
<1>12. ~OnList(x)
  <2>1. ByPush(t, x) /\ \A u \in Threads : ~ByOff(u, x)
    BY <1>1, <1>2, <1>11, Zenon DEF EntryInv, Owned, TableOwns, ByRemove, ByOff, ByPush
  <2> QED
    BY <1>11, <2>1 DEF EntryInv, Listed
<1>13. \A e \in Entries : OnList(e)' <=> OnList(e) \/ e = x
  <2>1. 1 \in 1 .. Len(list') /\ \A i \in 1 .. Len(list) : i + 1 \in 1 .. Len(list')
    BY <1>4 DEF Inv, Types
  <2>2. ASSUME NEW e \in Entries, OnList(e)' PROVE OnList(e) \/ e = x
    BY <1>4, <2>2 DEF OnList
  <2>3. ASSUME NEW e \in Entries, OnList(e) \/ e = x PROVE OnList(e)'
    BY <1>4, <2>1, <2>3, Zenon DEF OnList
  <2> QED
    BY <2>2, <2>3
<1>14. Once(list)'
  <2> SUFFICES ASSUME NEW i \in 1 .. Len(list'), NEW j \in 1 .. Len(list'), list'[i] = list'[j] PROVE i = j
    BY DEF Once
  <2>1. \A a \in 1 .. Len(list) : list[a] # x
    BY <1>12 DEF OnList
  <2>2. i # 1 => i - 1 \in 1 .. Len(list) /\ list'[i] = list[i - 1]
    BY <1>4
  <2>3. j # 1 => j - 1 \in 1 .. Len(list) /\ list'[j] = list[j - 1]
    BY <1>4
  <2>4. CASE i # 1 /\ j # 1
    <3>1. i - 1 = j - 1
      BY <2>2, <2>3, <2>4, Zenon DEF Inv, Once
    <3> QED
      BY <3>1
  <2> QED
    BY <1>4, <2>1, <2>2, <2>3, <2>4
<1>15. EntryInv(x)'
  <2>1. \A u \in Threads : u # t => job'[u] = job[u]
    BY <1>3 DEF OnlyJob
  <2>2. /\ \A u \in Threads : ByInsert(u, x) => job'[u] = job[u]
        /\ \A u \in Threads : ByInsert(u, x)' <=> ByInsert(u, x)
        /\ \A u \in Threads : ByRemove(u, x)' <=> ByRemove(u, x)
        /\ \A u \in Threads : Holding(u, x)' => Holding(u, x)
        /\ \A u \in Threads : ~ByPush(u, x)'
    BY <1>1, <1>3, <1>11, <2>1, Zenon DEF ByInsert, ByRemove, Holding, ByPush
  <2>3. /\ \A g \in Hashes : ByTable(g, x)' <=> ByTable(g, x)
        /\ RetiredEntry(x)' <=> RetiredEntry(x)
    BY <1>1 DEF ByTable, RetiredEntry
  <2>4. HasOwner(x)' /\ TableOwns(x)' /\ RemoveOwns(x)' /\ RetiredOwns(x)'
    BY <1>1, <1>11, <2>2, <2>3, Zenon DEF EntryInv, Owned, HasOwner, TableOwns, RemoveOwns, RetiredOwns
  <2>5. InsertOwns(x)'
    BY <1>1, <1>11, <2>2, <2>3, Zenon DEF EntryInv, Owned, InsertOwns
  <2>6. Listed(x)'
    BY <1>11, <1>13, <2>2, <2>3, Zenon DEF Listed
  <2>7. Safe(x)'
    BY <1>1, <1>11, <2>2, Zenon DEF EntryInv, Safe, Protected
  <2> QED
    BY <2>4, <2>5, <2>6, <2>7 DEF EntryInv, Owned
<1>16. Elsewhere(t, x)
  BY <1>1, <1>2, <1>3, <1>13, Zenon DEF Elsewhere, ByTable
<1>17. Entrywise'
  BY <1>15, <1>16, EntriesKept
<1> QED
  BY <1>7, <1>9, <1>10, <1>14, <1>17 DEF Inv

----------------------------------------------------------------------------
(* The steps of a remove. *)

\* The record is unlinked: the entry, still on the list, belongs to the
\* thread removing it.
LEMMA RemoveUnlinkKeeps == ASSUME Inv, NEW t \in Threads, RemoveUnlink(t) PROVE Inv'
<1>1. job[t].pc = "unlink" /\ table[H(t)] # None /\ UNCHANGED <<conf, heap, list, pinned, destroyed>>
  BY DEF RemoveUnlink
<1>2. PICK x \in Entries, h \in Hashes, r \in Records : x = job[t].entry /\ h = H(t) /\ r = table[h]
  BY <1>1, InHand, Zenon DEF WithEntry, Inside, Removing, Inv, Types
<1>3. /\ OnlyJob(t)
      /\ job'[t].op = job[t].op /\ job'[t].key = job[t].key
      /\ job'[t].pc = "off" /\ job'[t].entry = x /\ job'[t].rec = job[t].rec
  BY <1>2, RemoveUnlinkMoves, Zenon DEF Inv, Becomes, Moved, OnlyJob
<1>4. /\ table' \in [Hashes -> Records \cup {None}]
      /\ table'[h] = None /\ \A g \in Hashes : g # h => table'[g] = table[g]
  BY <1>2 DEF Inv, Types, RemoveUnlink
<1>5. /\ recs' \in [Records -> [flags : {0, 1}, value : Entries \cup {None}]]
      /\ \A q \in Records : recs'[q].value = recs[q].value
      /\ recs'[r].flags = 1 /\ \A q \in Records : q # r => recs'[q].flags = recs[q].flags
  BY <1>2, Zenon DEF Inv, Types, RemoveUnlink
<1>6. PICK n \in Nodes : n.what = <<"record", r>> /\ n.holders = pinned /\ retired' = retired \cup {n}
  BY <1>2, Zenon DEF Inv, Types, RemoveUnlink, Nodes
<1>7. /\ MatchOf(t) /\ ByTable(h, x) /\ recs[r].value = x
      /\ \A e \in Entries : ByTable(h, e) => e = x
  BY <1>1, <1>2, Zenon DEF Inv, Matches, MatchOf, ByTable
<1>8. EntryInv(x) /\ Local(t)
  BY DEF Inv, Entrywise, Locals
<1>9. /\ ~RetiredRec(r) /\ \A g \in Hashes : table[g] = r => g = h
      /\ \A u \in Threads : job[u].pc = "link" => job[u].rec # r
  <2>1. table[h] # None /\ Home(h) /\ Tables /\ Links
    BY <1>2, NoneApart, TableLeads, Zenon DEF Inv
  <2> QED
    BY <1>2, <2>1, Zenon DEF Home, Tables, Links, Ready, LinkedRec
<1>10. job[t].op = "remove" /\ job[t].key \in conf.removes[t] /\ t \in pinned
  BY <1>1, <1>8, Zenon DEF Local, Removing, Inside
<1>11. \A u \in Threads : u # t => job'[u] = job[u]
  BY <1>3 DEF OnlyJob
<1>12. \A g \in Hashes, e \in Entries : ByTable(g, e)' <=> ByTable(g, e) /\ g # h
  <2>1. \A g \in Hashes : table[g] # None => recs'[table[g]].value = recs[table[g]].value
    BY <1>5 DEF Inv, Types
  <2> QED
    BY <1>4, <2>1 DEF ByTable
<1>13. /\ \A q \in Records : RetiredRec(q)' <=> RetiredRec(q) \/ q = r
       /\ \A q \in Records : LinkedRec(q)' <=> LinkedRec(q) /\ q # r
  BY <1>2, <1>4, <1>6, <1>9, NoneApart DEF RetiredRec, LinkedRec
<1>14. Types' /\ Apart' /\ Once(list)'
  BY <1>1, <1>3, <1>4, <1>5, <1>6, Zenon DEF Inv, Types, Apart, Once, OnlyJob
<1>15. Holders' /\ NodesOnce'
  BY <1>1, <1>6, <1>9 DEF Inv, Holders, NodesOnce, RetiredRec
<1>16. Locals'
  <2>1. Local(t)'
    BY <1>1, <1>2, <1>3, <1>8, <1>10, NoneApart, Zenon DEF Local, Inserting, Finding, Removing, Scanning, Inside, WithEntry
  <2>2. ASSUME NEW u \in Threads, u # t PROVE Local(u)'
    <3>1. Local(u) /\ job'[u] = job[u] /\ conf' = conf /\ pinned' = pinned /\ destroyed' = destroyed
      BY <1>1, <1>11, <2>2 DEF Inv, Locals
    <3> QED
      BY <3>1, Zenon DEF Local
  <2> QED
    BY <2>1, <2>2, Zenon DEF Locals
<1>17. Tables'
  <2>1. \A g \in Hashes : table'[g] # None =>
          /\ g # h /\ table'[g] = table[g] /\ table[g] \in Records /\ table[g] # r
          /\ recs'[table[g]].value = recs[table[g]].value /\ recs'[table[g]].flags = recs[table[g]].flags
          /\ ~RetiredRec(table[g])'
    <3> SUFFICES ASSUME NEW g \in Hashes, table'[g] # None
                 PROVE  /\ g # h /\ table'[g] = table[g] /\ table[g] \in Records /\ table[g] # r
                        /\ recs'[table[g]].value = recs[table[g]].value /\ recs'[table[g]].flags = recs[table[g]].flags
                        /\ ~RetiredRec(table[g])'
      BY Zenon
    <3>1. g # h /\ table'[g] = table[g]
      BY <1>4
    <3>2. table[g] \in Records /\ table[g] # r
      BY <1>9, <3>1, Zenon DEF Inv, Types
    <3>3. ~RetiredRec(table[g])
      BY <3>1, TableLeads, Zenon DEF Home
    <3>4. ~RetiredRec(table[g])'
      BY <1>6, <3>1, <3>2, <3>3 DEF RetiredRec
    <3> QED
      BY <1>5, <3>1, <3>2, <3>4, Zenon
  <2>2. \A f, g \in Hashes : table'[f] # None /\ table'[f] = table'[g] => f = g
    <3>1. Tables
      BY Zenon DEF Inv
    <3> QED
      BY <2>1, <3>1, Zenon DEF Tables
  <2>3. ASSUME NEW g \in Hashes, table'[g] # None PROVE Home(g)'
    <3>1. Home(g) /\ table'[g] = table[g] /\ heap' = heap
      BY <1>1, <2>1, <2>3, TableLeads, Zenon
    <3> QED
      BY <2>1, <2>3, <3>1, Zenon DEF Home
  <2> QED
    BY <2>2, <2>3, Zenon DEF Tables
<1>18. Links'
  <2>1. ASSUME NEW u \in Threads, job'[u].pc = "link" PROVE job'[u] = job[u] /\ Ready(u)'
    <3>1. u # t /\ job'[u] = job[u] /\ job[u].pc = "link"
      BY <1>3, <1>11, <2>1
    <3>2. job[u].rec \in Records /\ H(u) \in Hashes
      BY <3>1, InHand DEF Inserting
    <3>3. Ready(u) /\ job[u].rec # r
      BY <1>9, <3>1, Zenon DEF Inv, Links
    <3>4. table'[H(u)] = None /\ H(u)' = H(u)
      BY <1>4, <3>1, <3>2, <3>3, Zenon DEF Ready, H
    <3>5. ~LinkedRec(job[u].rec)' /\ ~RetiredRec(job[u].rec)'
      <4>1. ~LinkedRec(job[u].rec) /\ ~RetiredRec(job[u].rec)
        BY <3>3, Zenon DEF Ready
      <4>2. LinkedRec(job[u].rec)' = (\E g \in Hashes : table'[g] = job[u].rec)
        BY <3>1, Zenon DEF LinkedRec
      <4>3. RetiredRec(job[u].rec)' = (\E m \in retired' : m.what = <<"record", job[u].rec>>)
        BY <3>1, Zenon DEF RetiredRec
      <4> QED
        BY <1>4, <1>6, <3>2, <3>3, <4>1, <4>2, <4>3, NoneApart DEF LinkedRec, RetiredRec
    <3>6. recs'[job[u].rec].flags = recs[job[u].rec].flags /\ recs'[job[u].rec].value = recs[job[u].rec].value
      BY <1>5, <3>2, <3>3, Zenon
    <3> QED
      BY <3>1, <3>3, <3>4, <3>5, <3>6, Zenon DEF Ready
  <2> QED
    BY <2>1, LinkersKept, Zenon
<1>19. Named'
  <2>1. \A q \in Records : RetiredRec(q)' => recs'[q].flags = 1
    BY <1>5, <1>13 DEF Inv, Named
  <2>2. \A u \in Threads : job[u].pc = "link" => job'[u] = job[u]
    BY <1>1, <1>11
  <2>3. ASSUME NEW q \in Records, recs'[q].value # None
        PROVE  LinkedRec(q)' \/ RetiredRec(q)' \/ \E u \in Threads : job'[u].pc = "link" /\ job'[u].rec = q
    <3>1. LinkedRec(q) \/ RetiredRec(q) \/ \E u \in Threads : job[u].pc = "link" /\ job[u].rec = q
      BY <1>5, <2>3, Zenon DEF Inv, Named
    <3> QED
      BY <1>13, <2>2, <3>1, Zenon
  <2> QED
    BY <2>1, <2>3, Zenon DEF Named
<1>20. Matches'
  <2>1. ASSUME NEW u \in Threads, u # t PROVE MatchOf(u)'
    <3>1. MatchOf(u) /\ job'[u] = job[u] /\ H(u)' = H(u)
      BY <1>11, <2>1, Zenon DEF Inv, Matches, H
    <3>2. job[u].pc \in {"match", "unlink"} => H(u) \in Hashes /\ job[u].entry \in Entries
      BY InHand DEF Inside, Removing, WithEntry
    <3> QED
      BY <1>1, <1>4, <1>12, <3>1, <3>2, Zenon DEF MatchOf
  <2>2. MatchOf(t)'
    BY <1>1, <1>2, <1>3, <1>7, Zenon DEF MatchOf, H
  <2> QED
    BY <2>1, <2>2 DEF Matches
<1>21. ASSUME NEW u \in Threads, job[u].pc = "push"
       PROVE  H(u) \in Hashes /\ job[u].entry \in Entries /\ ByTable(H(u), job[u].entry) /\ H(u) # h
  <2>1. H(u) \in Hashes /\ job[u].entry \in Entries /\ ByTable(H(u), job[u].entry)
    BY <1>21, InHand, Zenon DEF Inserting, WithEntry, Inv, Pushes
  <2>2. job[u].key \in conf.inserts[u] /\ u # t
    BY <1>1, <1>21, Zenon DEF Inv, Locals, Local, Inserting
  <2>3. \A a, b \in Threads : \A k \in conf.inserts[a], l \in conf.removes[b] : Hash[k] = Hash[l] => a = b
    BY Zenon DEF Inv, Apart, KeptApart
  <2>4. H(u) # h
    BY <1>2, <1>10, <2>2, <2>3, Zenon DEF H
  <2> QED
    BY <2>1, <2>4
<1>22. Pushes'
  <2>1. \A u \in Threads : job'[u].pc = "push" => job'[u] = job[u] /\ H(u)' = H(u)
    BY <1>3, <1>11 DEF H
  <2>2. ASSUME NEW u \in Threads, job'[u].pc = "push" PROVE ByTable(H(u), job[u].entry)'
    BY <1>12, <1>21, <2>1, <2>2
  <2> QED
    BY <2>1, <2>2, Zenon DEF Inv, Pushes
<1>23. EntryInv(x)'
  <2>1. /\ heap[x].state = "used" /\ ~RetiredEntry(x)
        /\ \A g \in Hashes : ByTable(g, x) => g = h
        /\ \A u \in Threads : ~ByRemove(u, x) /\ ~ByInsert(u, x)
    BY <1>7, <1>8, Zenon DEF EntryInv, Owned, TableOwns, InsertOwns
  <2>2. OnList(x)
    <3>1. \A u \in Threads : ~ByPush(u, x)
      BY <1>21, <2>1, Zenon DEF ByPush
    <3> QED
      BY <1>7, <1>8, <3>1 DEF EntryInv, Listed
  <2>3. /\ \A u \in Threads : ByRemove(u, x)' <=> u = t
        /\ \A u \in Threads : ~ByInsert(u, x)' /\ (ByOff(u, x)' <=> u = t)
    BY <1>1, <1>3, <1>11, <2>1, Zenon DEF ByInsert, ByRemove, ByOff
  <2>4. /\ \A g \in Hashes : ~ByTable(g, x)'
        /\ ~RetiredEntry(x)' /\ OnList(x)' /\ heap'[x].state = "used"
    <3>1. \A g \in Hashes : ~ByTable(g, x)'
      BY <1>12, <2>1
    <3>2. ~RetiredEntry(x)'
      BY <1>6, <2>1 DEF RetiredEntry
    <3>3. OnList(x)' /\ heap'[x].state = "used"
      BY <1>1, <2>1, <2>2 DEF OnList
    <3> QED
      BY <3>1, <3>2, <3>3
  <2>5. Owned(x)'
    BY <2>3, <2>4, Zenon DEF Owned, HasOwner, InsertOwns, TableOwns, RemoveOwns, RetiredOwns
  <2>6. Listed(x)'
    BY <2>3, <2>4, Zenon DEF Listed
  <2>7. Safe(x)'
    BY <2>3, <2>4, Zenon DEF Safe, Protected, RetiredEntry
  <2> QED
    BY <2>5, <2>6, <2>7 DEF EntryInv
<1>24. Elsewhere(t, x)
  <2>1. \A g \in Hashes, e \in Entries : e # x => (ByTable(g, e)' <=> ByTable(g, e))
    BY <1>7, <1>12
  <2>2. \A e \in Entries, m \in retired \cup retired' : m.what = <<"entry", e>> => m \in retired /\ m \in retired'
    BY <1>6
  <2> QED
    BY <1>1, <1>2, <1>3, <1>5, <2>1, <2>2, Zenon DEF Elsewhere, OnList
<1>25. Entrywise'
  BY <1>23, <1>24, EntriesKept
<1> QED
  BY <1>14, <1>15, <1>16, <1>17, <1>18, <1>19, <1>20, <1>22, <1>25 DEF Inv

\* A sequence without its i-th element.
LEMMA DropIs ==
    ASSUME NEW l \in Seq(Entries), NEW i \in 1 .. Len(l)
    PROVE  /\ Drop(l, i) \in Seq(Entries) /\ Len(Drop(l, i)) = Len(l) - 1
           /\ \A j \in 1 .. Len(l) - 1 : Drop(l, i)[j] = IF j < i THEN l[j] ELSE l[j + 1]
<1>1. Len(l) - 1 \in Nat /\ \A j \in 1 .. Len(l) - 1 : j \in 1 .. Len(l) /\ j + 1 \in 1 .. Len(l)
  OBVIOUS
<1>2. \A j \in 1 .. Len(l) : l[j] \in Entries
  OBVIOUS
<1>3. \A j \in 1 .. Len(l) - 1 : (IF j < i THEN l[j] ELSE l[j + 1]) \in Entries
  BY <1>1, <1>2
<1>4. PICK n \in Nat : n = Len(l) - 1
  BY <1>1, Zenon
<1>5. PICK m : m = [j \in 1 .. n |-> IF j < i THEN l[j] ELSE l[j + 1]]
  BY Zenon
<1>6. m \in Seq(Entries) /\ Len(m) = n
  BY <1>3, <1>4, <1>5
<1>7. Drop(l, i) = m
  BY <1>4, <1>5 DEF Drop
<1> QED
  BY <1>4, <1>5, <1>6, <1>7

\* list_remove of an entry that is on the list, once.
Has(l, e) == \E i \in 1 .. Len(l) : l[i] = e

\* What list_remove leaves: the list without the entry.
LEMMA OffIs ==
    ASSUME NEW l \in Seq(Entries), NEW x \in Entries, Once(l), Has(l, x)
    PROVE  /\ Off(l, x) \in Seq(Entries) /\ Once(Off(l, x))
           /\ \A e \in Entries : Has(Off(l, x), e) <=> Has(l, e) /\ e # x
<1>a. PICK m : m = Off(l, x)
  OBVIOUS
<1>b. PICK p \in 1 .. Len(l) : l[p] = x
  BY DEF Has
<1>c. \A i, j \in 1 .. Len(l) : l[i] = l[j] => i = j
  BY DEF Once
<1>1. x \in Range(l)
  BY <1>b DEF Range
<1>2. FirstLink(l, x) = p
  <2>1. p \in DOMAIN l /\ l[p] = x /\ \A j \in 1 .. p - 1 : l[j] # x
    BY <1>b, <1>c
  <2>2. FirstLink(l, x) \in DOMAIN l /\ l[FirstLink(l, x)] = x
    BY <2>1 DEF FirstLink
  <2> QED
    BY <1>b, <1>c, <2>2
<1>3. m = Drop(l, p)
  BY <1>a, <1>1, <1>2 DEF Off
<1>4. /\ m \in Seq(Entries) /\ Len(m) = Len(l) - 1
      /\ \A j \in 1 .. Len(l) - 1 : m[j] = IF j < p THEN l[j] ELSE l[j + 1]
  <2>1. /\ Drop(l, p) \in Seq(Entries) /\ Len(Drop(l, p)) = Len(l) - 1
        /\ \A j \in 1 .. Len(l) - 1 : Drop(l, p)[j] = IF j < p THEN l[j] ELSE l[j + 1]
    BY DropIs
  <2> QED
    BY <1>3, <2>1, Zenon
<1>5. ASSUME NEW i \in 1 .. Len(m), NEW j \in 1 .. Len(m), m[i] = m[j] PROVE i = j
  BY <1>c, <1>4, <1>5
<1>6. ASSUME NEW i \in 1 .. Len(m) PROVE \E a \in 1 .. Len(l) : a # p /\ l[a] = m[i]
  <2>1. CASE i < p
    <3>1. i \in 1 .. Len(l) /\ i # p /\ l[i] = m[i]
      BY <1>4, <2>1
    <3> QED
      BY <3>1
  <2>2. CASE ~(i < p)
    <3>1. i + 1 \in 1 .. Len(l) /\ i + 1 # p /\ l[i + 1] = m[i]
      BY <1>4, <2>2
    <3> QED
      BY <3>1
  <2> QED
    BY <2>1, <2>2
<1>7. ASSUME NEW a \in 1 .. Len(l), a # p PROVE \E i \in 1 .. Len(m) : m[i] = l[a]
  <2>1. CASE a < p
    <3>1. a \in 1 .. Len(m) /\ m[a] = l[a]
      BY <1>4, <2>1
    <3> QED
      BY <3>1
  <2>2. CASE a > p
    <3>1. a - 1 \in 1 .. Len(m) /\ m[a - 1] = l[a]
      BY <1>4, <2>2
    <3> QED
      BY <3>1
  <2> QED
    BY <1>7, <2>1, <2>2
<1>8. ASSUME NEW e \in Entries
      PROVE  (\E i \in 1 .. Len(m) : m[i] = e) <=> (\E i \in 1 .. Len(l) : l[i] = e) /\ e # x
  <2>1. ASSUME NEW i \in 1 .. Len(m), m[i] = e PROVE (\E a \in 1 .. Len(l) : l[a] = e) /\ e # x
    <3>1. PICK a \in 1 .. Len(l) : a # p /\ l[a] = m[i]
      BY <1>6
    <3> QED
      BY <1>b, <1>c, <2>1, <3>1
  <2>2. ASSUME NEW a \in 1 .. Len(l), l[a] = e, e # x PROVE \E i \in 1 .. Len(m) : m[i] = e
    BY <1>b, <1>7, <2>2
  <2> QED
    BY <2>1, <2>2, Zenon
<1>9. m \in Seq(Entries) /\ Once(m) /\ \A e \in Entries : Has(m, e) <=> Has(l, e) /\ e # x
  BY <1>4, <1>5, <1>8 DEF Once, Has
<1> QED
  BY <1>a, <1>9, Zenon

\* list_remove: the entry goes off the list, and still is the remover's.
LEMMA ListRemoveKeeps == ASSUME Inv, NEW t \in Threads, ListRemove(t) PROVE Inv'
<1>1. job[t].pc = "off" /\ UNCHANGED <<conf, heap, recs, table, retired, pinned, destroyed>>
  BY DEF ListRemove
<1>2. PICK x \in Entries : x = job[t].entry
  BY <1>1, InHand DEF WithEntry
<1>3. /\ OnlyJob(t)
      /\ job'[t].op = job[t].op /\ job'[t].key = job[t].key
      /\ job'[t].pc = "retire" /\ job'[t].entry = x /\ job'[t].rec = job[t].rec
  BY <1>2, ListRemoveMoves, Zenon DEF Inv, Becomes, Moved, OnlyJob
<1>4. EntryInv(x) /\ Local(t) /\ MatchOf(t) /\ ByRemove(t, x) /\ ByOff(t, x)
  BY <1>1, <1>2 DEF ByRemove, ByOff, Inv, Entrywise, Locals, Matches
<1>5. /\ list' \in Seq(Entries) /\ Once(list)'
      /\ \A e \in Entries : OnList(e)' <=> OnList(e) /\ e # x
  <2>1. OnList(x) /\ list \in Seq(Entries) /\ Once(list)
    BY <1>4 DEF EntryInv, Listed, Inv, Types
  <2>2. Has(list, x)
    BY <2>1, Zenon DEF Has, OnList
  <2>3. list' = Off(list, x)
    BY <1>2 DEF ListRemove
  <2>4. list' \in Seq(Entries) /\ Once(list') /\ \A e \in Entries : Has(list', e) <=> Has(list, e) /\ e # x
    BY <2>1, <2>2, <2>3, OffIs, Zenon
  <2> QED
    BY <2>4, Zenon DEF OnList, Once, Has
<1>6. KeysKept /\ LinksKept
  BY <1>1 DEF KeysKept, LinksKept, ByTable
<1>7. Types' /\ Apart' /\ Holders' /\ NodesOnce'
  BY <1>1, <1>3, <1>5, Zenon DEF Inv, Types, Apart, Holders, NodesOnce, OnlyJob
<1>8. Local(t)' /\ MatchOf(t)'
  <2>1. Local(t)'
    BY <1>1, <1>2, <1>3, <1>4, NoneApart, Zenon DEF Local, Inserting, Finding, Removing, Scanning, Inside, WithEntry
  <2> QED
    BY <1>1, <1>2, <1>3, <1>4, <2>1, Zenon DEF MatchOf, H
<1>9. Locals' /\ Matches' /\ Pushes'
  BY <1>1, <1>3, <1>6, <1>8, ThreadsKept, Zenon
<1>10. Tables' /\ Links' /\ Named'
  BY <1>1, <1>3, <1>6, StoreKept, Zenon DEF RetiredRec
<1>11. EntryInv(x)'
  <2>1. \A u \in Threads : u # t => job'[u] = job[u]
    BY <1>3 DEF OnlyJob
  <2>2. /\ \A u \in Threads : ByRemove(u, x) => u = t
        /\ \A h \in Hashes : ~ByTable(h, x)
    BY <1>4, Zenon DEF EntryInv, Owned, RemoveOwns, TableOwns
  <2>3. /\ \A u \in Threads : ByInsert(u, x) => job'[u] = job[u]
        /\ \A u \in Threads : ByInsert(u, x)' <=> ByInsert(u, x)
        /\ \A u \in Threads : ByRemove(u, x)' <=> ByRemove(u, x)
        /\ \A u \in Threads : Holding(u, x)' => Holding(u, x)
        /\ \A u \in Threads : ~ByOff(u, x)'
    BY <1>1, <1>2, <1>3, <2>1, <2>2, Zenon DEF ByInsert, ByRemove, Holding, ByOff
  <2>4. /\ \A g \in Hashes : ByTable(g, x)' <=> ByTable(g, x)
        /\ RetiredEntry(x)' <=> RetiredEntry(x)
    BY <1>1 DEF ByTable, RetiredEntry
  <2>5. HasOwner(x)' /\ TableOwns(x)' /\ RemoveOwns(x)' /\ RetiredOwns(x)'
    BY <1>1, <1>4, <2>3, <2>4, Zenon DEF EntryInv, Owned, HasOwner, TableOwns, RemoveOwns, RetiredOwns
  <2>6. InsertOwns(x)'
    BY <1>1, <1>4, <2>3, <2>4, Zenon DEF EntryInv, Owned, InsertOwns
  <2>7. Listed(x)'
    BY <1>5, <2>2, <2>3, <2>4, Zenon DEF Listed
  <2>8. Safe(x)'
    BY <1>1, <1>4, <2>3, Zenon DEF EntryInv, Safe, Protected
  <2> QED
    BY <2>5, <2>6, <2>7, <2>8 DEF EntryInv, Owned
<1>12. Elsewhere(t, x)
  BY <1>1, <1>2, <1>3, <1>5, Zenon DEF Elsewhere, ByTable
<1>13. Entrywise'
  BY <1>11, <1>12, EntriesKept
<1> QED
  BY <1>5, <1>7, <1>9, <1>10, <1>13 DEF Inv

\* The entry goes to the list of retired objects, where every thread that
\* may have it in hand holds it back.
LEMMA RetireKeeps == ASSUME Inv, NEW t \in Threads, Retire(t) PROVE Inv'
<1>1. job[t].pc = "retire" /\ UNCHANGED <<conf, heap, recs, table, list, pinned, destroyed>>
  BY DEF Retire
<1>2. PICK x \in Entries : x = job[t].entry
  BY <1>1, InHand, Zenon DEF WithEntry
<1>3. /\ OnlyJob(t)
      /\ job'[t].op = job[t].op /\ job'[t].key = job[t].key
      /\ job'[t].pc = "unpin" /\ job'[t].entry = None /\ job'[t].rec = job[t].rec
  BY <1>2, RetireMoves, Zenon DEF Inv, Becomes, Moved, OnlyJob
<1>4. PICK n \in Nodes : n.what = <<"entry", x>> /\ n.holders = pinned /\ retired' = retired \cup {n}
  BY <1>2, Zenon DEF Inv, Types, Retire, Nodes
<1>5. EntryInv(x) /\ Local(t) /\ ByRemove(t, x)
  BY <1>1, <1>2, Zenon DEF ByRemove, Inv, Entrywise, Locals
<1>6. /\ heap[x].state = "used" /\ ~RetiredEntry(x) /\ \A u \in Threads : ByRemove(u, x) => u = t
      /\ \A u \in Threads : ~ByInsert(u, x)
      /\ \A h \in Hashes : ~ByTable(h, x)
  BY <1>5, Zenon DEF EntryInv, Owned, RemoveOwns, TableOwns, InsertOwns
<1>7. KeysKept /\ LinksKept /\ \A q \in Records : RetiredRec(q)' <=> RetiredRec(q)
  BY <1>1, <1>4 DEF KeysKept, LinksKept, ByTable, RetiredRec
<1>8. Types' /\ Apart' /\ Once(list)'
  BY <1>1, <1>3, <1>4, Zenon DEF Inv, Types, Apart, Once, OnlyJob
<1>9. Holders' /\ NodesOnce'
  <2>1. Holders /\ NodesOnce
    BY Zenon DEF Inv
  <2>2. Holders'
    BY <1>1, <1>4, <2>1 DEF Holders
  <2>3. NodesOnce'
    BY <1>4, <1>6, <2>1, Zenon DEF NodesOnce, RetiredEntry
  <2> QED
    BY <2>2, <2>3, Zenon
<1>10. Local(t)' /\ MatchOf(t)'
  BY <1>1, <1>3, <1>5, Zenon DEF MatchOf, Local, Inserting, Finding, Removing, Scanning, Inside, WithEntry
<1>11. Locals' /\ Matches' /\ Pushes'
  BY <1>1, <1>3, <1>7, <1>10, ThreadsKept, Zenon
<1>12. Tables' /\ Links' /\ Named'
  BY <1>1, <1>3, <1>7, StoreKept, Zenon
<1>13. EntryInv(x)'
  <2>1. \A u \in Threads : u # t => job'[u] = job[u]
    BY <1>3 DEF OnlyJob
  <2>2. \A u \in Threads : ~ByInsert(u, x)' /\ ~ByRemove(u, x)' /\ ~ByOff(u, x)'
    BY <1>3, <1>6, <2>1, Zenon DEF ByInsert, ByRemove, ByOff
  <2>3. (\A h \in Hashes : ~ByTable(h, x)') /\ RetiredEntry(x)' /\ heap'[x].state = "used"
    BY <1>1, <1>4, <1>6, Zenon DEF ByTable, RetiredEntry
  <2>4. Owned(x)'
    BY <2>2, <2>3, Zenon DEF Owned, HasOwner, InsertOwns, TableOwns, RemoveOwns, RetiredOwns
  <2>5. Listed(x)'
    <3>1. ~OnList(x)
      <4>1. \A u \in Threads : ~ByOff(u, x)
        BY <1>1, <1>6, Zenon DEF ByOff, ByRemove
      <4> QED
        BY <1>5, <1>6, <4>1, Zenon DEF EntryInv, Listed
    <3> QED
      BY <1>1, <2>2, <2>3, <3>1, Zenon DEF Listed, OnList
  <2>6. ASSUME NEW u \in Threads, Holding(u, x)' PROVE Protected(u, x)'
    <3>1. u # t /\ Holding(u, x)
      BY <1>1, <1>3, <2>1, <2>6, Zenon DEF Holding
    <3>2. u \in pinned
      BY <3>1, Zenon DEF Holding, Inv, Locals, Local, Inside, Finding, Removing, Scanning
    <3>3. \A m \in retired' : m.what = <<"entry", x>> => u \in m.holders
      BY <1>4, <1>6, <3>2, Zenon DEF RetiredEntry
    <3> QED
      BY <2>2, <2>3, <3>3, Zenon DEF Protected
  <2> QED
    BY <2>4, <2>5, <2>6 DEF EntryInv, Safe
<1>14. Elsewhere(t, x)
  <2>1. \A e \in Entries, m \in retired \cup retired' :
            m.what = <<"entry", e>> /\ e # x => m \in retired /\ m \in retired'
    BY <1>4
  <2> QED
    BY <1>1, <1>2, <1>3, <2>1, Zenon DEF Elsewhere, OnList, ByTable
<1>15. Entrywise'
  BY <1>13, <1>14, EntriesKept
<1> QED
  BY <1>8, <1>9, <1>11, <1>12, <1>15 DEF Inv

\* Without memory for the node the entry is freed at once: where that may
\* happen no other thread has it in hand.
LEMMA RetireNowKeeps == ASSUME Inv, NEW t \in Threads, RetireNow(t) PROVE Inv'
<1>1. job[t].pc = "retire" /\ conf.oom /\ UNCHANGED <<conf, recs, table, list, retired, pinned, destroyed>>
  BY DEF RetireNow
<1>2. PICK x \in Entries : x = job[t].entry
  BY <1>1, InHand, Zenon DEF WithEntry
<1>3. /\ OnlyJob(t)
      /\ job'[t].op = job[t].op /\ job'[t].key = job[t].key
      /\ job'[t].pc = "unpin" /\ job'[t].entry = None /\ job'[t].rec = job[t].rec
  BY <1>2, RetireNowMoves, Zenon DEF Inv, Becomes, Moved, OnlyJob
<1>4. /\ heap' \in [Entries -> [state : {"unborn", "used", "freed"}, key : Keys \cup {None}, val : Values \cup {None}]]
      /\ heap'[x].state = "freed" /\ \A e \in Entries : heap'[e].key = heap[e].key /\ heap'[e].val = heap[e].val
      /\ \A e \in Entries : e # x => heap'[e] = heap[e]
  BY <1>2, FreeIs, Zenon DEF Inv, RetireNow
<1>5. EntryInv(x) /\ Local(t) /\ MatchOf(t) /\ ByRemove(t, x)
  BY <1>1, <1>2, Zenon DEF ByRemove, Inv, Entrywise, Locals, Matches
<1>6. KeysKept /\ LinksKept
  BY <1>1, <1>4, Zenon DEF KeysKept, LinksKept, ByTable
<1>7. Types' /\ Apart' /\ Holders' /\ NodesOnce' /\ Once(list)'
  BY <1>1, <1>3, <1>4, Zenon DEF Inv, Types, Apart, Holders, NodesOnce, Once, OnlyJob
<1>8. Local(t)' /\ MatchOf(t)'
  BY <1>1, <1>3, <1>5, Zenon DEF MatchOf, Local, Inserting, Finding, Removing, Scanning, Inside, WithEntry
<1>9. Locals' /\ Matches' /\ Pushes'
  BY <1>1, <1>3, <1>6, <1>8, ThreadsKept, Zenon
<1>10. Tables' /\ Links' /\ Named'
  BY <1>1, <1>3, <1>6, StoreKept, Zenon DEF RetiredRec
<1>11. ASSUME NEW u \in Threads, u # t PROVE ~Holding(u, x)
  <2>1. KeptApart(conf) /\ Local(u) /\ MatchOf(u)
    BY DEF Inv, Apart, Locals, Matches
  <2>2. Hash[heap[x].key] = H(t) /\ job[t].key \in conf.removes[t]
    BY <1>1, <1>2, <1>5, Zenon DEF MatchOf, Local, Removing
  <2>3. conf.scans[u] = {} /\ \A l \in conf.removes[u] \cup conf.finds[u] : Hash[job[t].key] # Hash[l]
    BY <1>1, <1>11, <2>1, <2>2, Zenon DEF KeptApart
  <2>4. job[u].pc \notin {"lengths", "value"}
    BY <2>1, <2>3, Zenon DEF Local, Scanning
  <2>5. ASSUME job[u].pc \in {"compare", "match", "unlink"}, job[u].entry = x PROVE FALSE
    <3>1. H(u) = H(t)
      BY <2>1, <2>2, <2>5, Zenon DEF MatchOf
    <3>2. job[u].key \in conf.removes[u] \cup conf.finds[u]
      BY <2>1, <2>5, Zenon DEF Local, Finding, Removing
    <3> QED
      BY <2>3, <3>1, <3>2, Zenon DEF H
  <2> QED
    BY <2>4, <2>5 DEF Holding
<1>12. EntryInv(x)'
  <2>1. \A u \in Threads : u # t => job'[u] = job[u]
    BY <1>3 DEF OnlyJob
  <2>2. /\ ~RetiredEntry(x) /\ \A u \in Threads : ByRemove(u, x) => u = t
        /\ \A u \in Threads : ~ByInsert(u, x)
        /\ \A h \in Hashes : ~ByTable(h, x)
    BY <1>5, Zenon DEF EntryInv, Owned, RemoveOwns, TableOwns, InsertOwns
  <2>3. \A u \in Threads : ~ByOff(u, x)
    BY <1>1, <2>2, Zenon DEF ByOff, ByRemove
  <2>4. ~OnList(x)
    BY <1>5, <2>2, <2>3 DEF EntryInv, Listed
  <2>5. \A u \in Threads : ~ByInsert(u, x)' /\ ~ByRemove(u, x)' /\ ~Holding(u, x)'
    BY <1>1, <1>3, <1>11, <2>1, <2>2, Zenon DEF ByInsert, ByRemove, Holding
  <2>6. NoOnes(x)'
    BY <1>1, <1>4, <2>2, <2>4, <2>5, Zenon DEF NoOnes, RetiredEntry, OnList, ByTable
  <2> QED
    BY <2>6, NoOnesFine
<1>13. Elsewhere(t, x)
  BY <1>1, <1>2, <1>3, <1>4, Zenon DEF Elsewhere, OnList, ByTable
<1>14. Entrywise'
  BY <1>12, <1>13, EntriesKept
<1> QED
  BY <1>7, <1>9, <1>10, <1>14 DEF Inv

----------------------------------------------------------------------------
(* Reclamation, htc_kv_destroy, and the start. *)

\* A step of no thread.
LEMMA ThreadsStay ==
    ASSUME Inv, UNCHANGED <<conf, table, destroyed, pinned, job>>, KeysKept, LinksKept
    PROVE  Locals' /\ Matches' /\ Pushes'
<1>1. Locals'
  BY Zenon DEF Inv, Locals, Local
<1>2. \A u \in Threads : H(u)' = H(u)
  BY DEF H
<1>3. ASSUME NEW u \in Threads PROVE MatchOf(u)'
  <2>1. MatchOf(u) /\ job'[u] = job[u]
    BY DEF Inv, Matches
  <2>2. job[u].pc \in {"compare", "match", "unlink", "off", "retire"} => job[u].entry \in Entries /\ H(u) \in Hashes
    BY InHand DEF WithEntry, Inside, Finding, Removing
  <2> QED
    BY <1>2, <2>1, <2>2, Zenon DEF MatchOf, KeysKept, LinksKept
<1>4. \A u \in Threads : job[u].pc = "push" => job[u].entry \in Entries /\ H(u) \in Hashes
  BY InHand, Zenon DEF WithEntry, Inserting
<1>5. Pushes'
  BY <1>2, <1>4, Zenon DEF Inv, Pushes, LinksKept
<1> QED
  BY <1>1, <1>3, <1>5, Zenon DEF Matches

\* Collecting a retired entry, which no thread holds back.
LEMMA CollectEntry ==
    ASSUME Inv, NEW n \in retired, n.holders = {}, NEW x \in Entries, n.what = <<"entry", x>>,
           retired' = retired \ {n}, heap' = Free(heap, x), UNCHANGED <<conf, recs, table, list, pinned, job, destroyed>>
    PROVE  Inv'
<1>1. conf' = conf /\ recs' = recs /\ table' = table /\ list' = list /\ pinned' = pinned /\ job' = job /\ destroyed' = destroyed
  OBVIOUS
<1>2. /\ heap' \in [Entries -> [state : {"unborn", "used", "freed"}, key : Keys \cup {None}, val : Values \cup {None}]]
      /\ heap'[x].state = "freed" /\ \A e \in Entries : heap'[e].key = heap[e].key /\ heap'[e].val = heap[e].val
      /\ \A e \in Entries : e # x => heap'[e] = heap[e]
  BY FreeIs, Zenon DEF Inv
<1>3. RetiredEntry(x) /\ \A m \in retired : m.what = <<"entry", x>> => m = n
  BY DEF RetiredEntry, Inv, NodesOnce
<1>4. /\ \A e \in Entries : RetiredEntry(e)' <=> RetiredEntry(e) /\ e # x
      /\ \A q \in Records : RetiredRec(q)' <=> RetiredRec(q)
  BY <1>3 DEF RetiredEntry, RetiredRec
<1>5. KeysKept /\ LinksKept
  BY <1>1, <1>2, Zenon DEF KeysKept, LinksKept, ByTable
<1>6. Types' /\ Apart' /\ Holders' /\ NodesOnce' /\ Once(list)'
  <2>1. Types /\ Apart /\ Holders /\ NodesOnce /\ Once(list)
    BY Zenon DEF Inv
  <2>2. Types'
    BY <1>1, <1>2, <2>1 DEF Types
  <2>3. Apart' /\ Once(list)'
    BY <1>1, <2>1, Zenon DEF Apart, Once
  <2>4. Holders' /\ NodesOnce'
    BY <1>1, <2>1 DEF Holders, NodesOnce
  <2> QED
    BY <2>2, <2>3, <2>4, Zenon
<1>7. Locals' /\ Matches' /\ Pushes'
  BY <1>1, <1>5, ThreadsStay, Zenon
<1>8. Tables'
  <2>1. \A h \in Hashes : table[h] # None => table[h] \in Records
    BY Zenon DEF Inv, Types
  <2> QED
    BY <1>1, <1>4, <1>5, <2>1, TablesKept, Zenon
<1>9. \A q : LinkedRec(q)' <=> LinkedRec(q)
  BY <1>1, Zenon DEF LinkedRec
<1>10. Links'
  <2>1. ASSUME NEW u \in Threads, job'[u].pc = "link" PROVE job'[u] = job[u] /\ Ready(u)'
    <3>1. job'[u] = job[u] /\ job[u].pc = "link" /\ Ready(u)
      BY <1>1, <2>1, Zenon DEF Inv, Links
    <3>2. job[u].rec \in Records
      BY <3>1, InHand, Zenon
    <3>3. (LinkedRec(job[u].rec)' => LinkedRec(job[u].rec)) /\ (RetiredRec(job[u].rec)' => RetiredRec(job[u].rec))
      BY <1>4, <1>9, <3>1, <3>2, Zenon
    <3> QED
      BY <1>1, <3>1, <3>3, ReadyKept, Zenon
  <2> QED
    BY <2>1, LinkersKept, Zenon
<1>11. Named'
  <2> SUFFICES ASSUME NEW q \in Records
               PROVE  /\ RetiredRec(q)' => recs'[q].flags = 1
                      /\ recs'[q].value # None =>
                            LinkedRec(q)' \/ RetiredRec(q)' \/ \E u \in Threads : job'[u].pc = "link" /\ job'[u].rec = q
    BY Zenon DEF Named
  <2>1. /\ RetiredRec(q) => recs[q].flags = 1
        /\ recs[q].value # None =>
              LinkedRec(q) \/ RetiredRec(q) \/ \E u \in Threads : job[u].pc = "link" /\ job[u].rec = q
    BY Zenon DEF Inv, Named
  <2>2. (RetiredRec(q)' <=> RetiredRec(q)) /\ (LinkedRec(q)' <=> LinkedRec(q))
    BY <1>4, <1>9, Zenon
  <2> QED
    BY <1>1, <2>1, <2>2, Zenon
<1>12. EntryInv(x)'
  <2>1. EntryInv(x)
    BY DEF Inv, Entrywise
  <2>2. /\ \A u \in Threads : ~ByInsert(u, x) /\ ~ByRemove(u, x) /\ ~ByOff(u, x)
        /\ \A h \in Hashes : ~ByTable(h, x)
    BY <1>3, <2>1, Zenon DEF EntryInv, Owned, RemoveOwns, TableOwns, InsertOwns, ByRemove, ByOff
  <2>3. \A u \in Threads : ~Holding(u, x)
    BY <2>1, Zenon DEF EntryInv, Safe, Protected
  <2>4. ~OnList(x)
    BY <2>1, <2>2, Zenon DEF EntryInv, Listed
  <2>5. NoOnes(x)'
    <3>1. heap'[x].state # "used" /\ ~RetiredEntry(x)'
      BY <1>2, <1>4
    <3>2. ~OnList(x)'
      BY <1>1, <2>4, Zenon DEF OnList
    <3>3. \A h \in Hashes : ~ByTable(h, x)'
      BY <1>1, <2>2, Zenon DEF ByTable
    <3>4. \A u \in Threads : ~ByInsert(u, x)' /\ ~ByRemove(u, x)' /\ ~Holding(u, x)'
      BY <1>1, <2>2, <2>3, Zenon DEF ByInsert, ByRemove, Holding
    <3> QED
      BY <3>1, <3>2, <3>3, <3>4, Zenon DEF NoOnes
  <2> QED
    BY <2>5, NoOnesFine
<1>13. ASSUME NEW e \in Entries, e # x PROVE EntryInv(e)'
  <2>1. EntryInv(e)
    BY Zenon DEF Inv, Entrywise
  <2>2. SameOwner(e)
    BY <1>1, <1>2, <1>4, <1>13, Zenon DEF SameOwner, ByInsert, ByTable, ByRemove, OnList, ByPush, ByOff
  <2>3. SameReaders(e)
    BY <1>1, Zenon DEF SameReaders, Holding
  <2> QED
    BY <2>1, <2>2, <2>3, SameOwned, SameSafe, Zenon DEF EntryInv
<1> QED
  BY <1>6, <1>7, <1>8, <1>10, <1>11, <1>12, <1>13, Zenon DEF Inv, Entrywise

\* Collecting a record: it is neither linked nor about to be.
LEMMA CollectRecord ==
    ASSUME Inv, NEW n \in retired, NEW r \in Records, n.what = <<"record", r>>,
           retired' = retired \ {n}, UNCHANGED <<conf, heap, table, list, pinned, job, destroyed>>, Cleared(r)
    PROVE  Inv'
<1>1. conf' = conf /\ heap' = heap /\ table' = table /\ list' = list /\ pinned' = pinned /\ job' = job /\ destroyed' = destroyed
  OBVIOUS
<1>2. /\ recs' \in [Records -> [flags : {0, 1}, value : Entries \cup {None}]]
      /\ \A q \in Records : recs'[q].flags = recs[q].flags
      /\ recs'[r].value = None /\ \A q \in Records : q # r => recs'[q] = recs[q]
  BY Zenon DEF Cleared
<1>3. RetiredRec(r) /\ \A m \in retired : m.what = <<"record", r>> => m = n
  BY DEF RetiredRec, Inv, NodesOnce
<1>4. /\ \A q \in Records : RetiredRec(q)' <=> RetiredRec(q) /\ q # r
      /\ \A e : RetiredEntry(e)' <=> RetiredEntry(e)
  BY <1>3 DEF RetiredEntry, RetiredRec
<1>5. \A h \in Hashes : table[h] # None => table[h] \in Records /\ recs'[table[h]] = recs[table[h]]
  <2>1. ASSUME NEW h \in Hashes, table[h] # None PROVE table[h] \in Records /\ table[h] # r
    BY <1>3, <2>1, TableLeads, Zenon DEF Home
  <2> QED
    BY <1>2, <2>1, Zenon
<1>6. \A u \in Threads : job[u].pc = "link" => job[u].rec \in Records /\ recs'[job[u].rec] = recs[job[u].rec]
  BY <1>2, <1>3, InHand, Zenon DEF Inv, Links, Ready
<1>7. \A h \in Hashes, e \in Entries : ByTable(h, e)' <=> ByTable(h, e)
  BY <1>1, <1>5, Zenon DEF ByTable
<1>8. KeysKept /\ LinksKept
  BY <1>1, <1>7, Zenon DEF KeysKept, LinksKept
<1>9. Types' /\ Apart' /\ Holders' /\ NodesOnce' /\ Once(list)'
  BY <1>1, <1>2, Zenon DEF Inv, Types, Apart, Holders, NodesOnce, Once
<1>10. Locals' /\ Matches' /\ Pushes'
  BY <1>1, <1>8, ThreadsStay
<1>11. Tables'
  BY <1>1, <1>4, <1>5, <1>8, TablesKept, Zenon
<1>12. \A q : LinkedRec(q)' <=> LinkedRec(q)
  BY <1>1 DEF LinkedRec
<1>13. Links'
  <2>1. ASSUME NEW u \in Threads, job'[u].pc = "link" PROVE job'[u] = job[u] /\ Ready(u)'
    <3>1. job'[u] = job[u] /\ job[u].pc = "link" /\ Ready(u)
      BY <1>1, <2>1, Zenon DEF Inv, Links
    <3>2. (LinkedRec(job[u].rec)' => LinkedRec(job[u].rec)) /\ (RetiredRec(job[u].rec)' => RetiredRec(job[u].rec))
      BY <1>4, <1>6, <1>12, <3>1, Zenon
    <3> QED
      BY <1>1, <1>6, <3>1, <3>2, ReadyKept, Zenon
  <2> QED
    BY <2>1, LinkersKept, Zenon
<1>14. Named'
  <2> SUFFICES ASSUME NEW q \in Records
               PROVE  /\ RetiredRec(q)' => recs'[q].flags = 1
                      /\ recs'[q].value # None =>
                            LinkedRec(q)' \/ RetiredRec(q)' \/ \E u \in Threads : job'[u].pc = "link" /\ job'[u].rec = q
    BY Zenon DEF Named
  <2>1. /\ RetiredRec(q) => recs[q].flags = 1
        /\ recs[q].value # None =>
              LinkedRec(q) \/ RetiredRec(q) \/ \E u \in Threads : job[u].pc = "link" /\ job[u].rec = q
    BY Zenon DEF Inv, Named
  <2>2. (RetiredRec(q)' <=> RetiredRec(q) /\ q # r) /\ (LinkedRec(q)' <=> LinkedRec(q))
    BY <1>4, <1>12, Zenon
  <2> QED
    BY <1>1, <1>2, <2>1, <2>2, Zenon
<1>15. ASSUME NEW e \in Entries PROVE EntryInv(e)'
  <2>1. EntryInv(e)
    BY DEF Inv, Entrywise
  <2>2. SameOwner(e)
    BY <1>1, <1>4, <1>7, Zenon DEF SameOwner, ByInsert, ByRemove, OnList, ByPush, ByOff
  <2>3. \A u \in Threads : job[u].pc = "value" => job[u].rec \in Records
    BY InHand, Zenon
  <2>4. SameReaders(e)
    BY <1>1, <1>2, <2>3, NoneApart, Zenon DEF SameReaders, Holding
  <2> QED
    BY <2>1, <2>2, <2>4, SameOwned, SameSafe, Zenon DEF EntryInv
<1> QED
  BY <1>9, <1>10, <1>11, <1>13, <1>14, <1>15, Zenon DEF Inv, Entrywise

\* Reclamation keeps the invariant.
LEMMA CollectKeeps == ASSUME Inv, Collect PROVE Inv'
<1>1. PICK n \in retired : n.holders = {} /\ retired' = retired \ {n} /\ Reclaim(n, heap, recs)
  BY Zenon DEF Collect
<1>2. UNCHANGED <<conf, table, list, pinned, job, destroyed>>
  BY DEF Collect
<1>3. n.what \in ({"entry"} \X Entries) \cup ({"record"} \X Records)
  BY Zenon DEF Inv, Types, Nodes
<1>4. ASSUME NEW x \in Entries, n.what = <<"entry", x>> PROVE Inv'
  <2>1. heap' = Free(heap, x) /\ recs' = recs
    BY <1>1, <1>4 DEF Reclaim
  <2> QED
    BY <1>1, <1>2, <1>4, <2>1, CollectEntry, Zenon
<1>5. ASSUME NEW r \in Records, n.what = <<"record", r>> PROVE Inv'
  <2>1. heap' = heap /\ recs' = [recs EXCEPT ![r].value = None]
    BY <1>1, <1>5 DEF Reclaim
  <2>2. Cleared(r)
    BY <2>1, ClearedIs, Zenon DEF Inv
  <2>3. heap' = heap
    BY <2>1
  <2> QED
    BY <1>1, <1>2, <1>5, <2>2, <2>3, CollectRecord, Zenon
<1>6. (\E x \in Entries : n.what = <<"entry", x>>) \/ (\E r \in Records : n.what = <<"record", r>>)
  BY <1>3
<1> QED
  BY <1>4, <1>5, <1>6

\* htc_kv_destroy, with no call under way: all that is in use is retired or
\* on the list, so that nothing stays.
LEMMA DestroyKeeps == ASSUME Inv, Destroy PROVE Inv'
<1>1. /\ conf' = conf /\ pinned' = pinned /\ job' = job
      /\ list' = <<>> /\ retired' = {} /\ destroyed' = TRUE
      /\ recs' = [r \in Records |-> FreeRec]
      /\ table' = [h \in Hashes |-> None]
  BY Zenon DEF Destroy
<1>2. \A u \in Threads : job[u] = Idle /\ job[u].pc = "idle" /\ job[u].op = "idle"
  <2>1. \A u \in Threads : job[u] = Idle
    BY Zenon DEF Destroy
  <2>2. Idle.pc = "idle" /\ Idle.op = "idle"
    BY DEF Idle
  <2> QED
    BY <2>1, <2>2, Zenon
<1>3. /\ recs' \in [Records -> [flags : {0, 1}, value : Entries \cup {None}]]
      /\ \A r \in Records : recs'[r].value = None
  BY <1>1 DEF FreeRec
<1>4. table' \in [Hashes -> Records \cup {None}] /\ \A h \in Hashes : table'[h] = None
  BY <1>1
<1>5. heap' \in [Entries -> [state : {"unborn", "used", "freed"}, key : Keys \cup {None}, val : Values \cup {None}]]
  <2>1. \A e \in Entries : Free(heap, e)[e] \in [state : {"unborn", "used", "freed"}, key : Keys \cup {None}, val : Values \cup {None}]
    BY Zenon DEF Inv, Types, Free
  <2>2. \A e \in Entries : heap[e] \in [state : {"unborn", "used", "freed"}, key : Keys \cup {None}, val : Values \cup {None}]
    BY Zenon DEF Inv, Types
  <2> QED
    BY <2>1, <2>2, Zenon DEF Destroy
<1>6. ASSUME NEW e \in Entries PROVE heap'[e].state # "used"
  <2>1. CASE heap[e].state # "used"
    <3>1. heap'[e] \in {heap[e], Free(heap, e)[e]}
      BY Zenon DEF Destroy
    <3>2. Free(heap, e)[e].state = "freed"
      BY Zenon DEF Free, Inv, Types
    <3> QED
      BY <2>1, <3>1, <3>2
  <2>2. CASE heap[e].state = "used"
    <3>1. (\E h \in Hashes : ByTable(h, e)) \/ RetiredEntry(e)
      BY <1>2, <2>2, Zenon DEF Inv, Entrywise, EntryInv, Owned, HasOwner, ByInsert, ByRemove
    <3>2. (\E h \in Hashes : ByTable(h, e)) => OnList(e)
      BY <1>2, Zenon DEF Inv, Entrywise, EntryInv, Listed, ByPush
    <3>3. OnList(e) => e \in Range(list)
      BY DEF OnList, Range, Inv, Types
    <3>4. RetiredEntry(e) => e \in Drained
      BY Zenon DEF RetiredEntry, Drained
    <3>5. heap'[e] = Free(heap, e)[e]
      BY <3>1, <3>2, <3>3, <3>4, Zenon DEF Destroy
    <3> QED
      BY <3>5, Zenon DEF Free, Inv, Types
  <2> QED
    BY <2>1, <2>2
<1>7. \A u \in Threads : u \notin pinned
  BY <1>2, Zenon DEF Inv, Locals, Local, Inside, Finding, Removing, Scanning
<1>8. Types' /\ Apart' /\ Holders' /\ NodesOnce' /\ Once(list)'
  <2>1. Types /\ Apart
    BY Zenon DEF Inv
  <2>2. Types'
    BY <1>1, <1>3, <1>4, <1>5, <2>1 DEF Types
  <2>3. Apart' /\ Holders' /\ NodesOnce'
    BY <1>1, <2>1, Zenon DEF Apart, Holders, NodesOnce
  <2>4. Once(list)'
    BY <1>1 DEF Once
  <2> QED
    BY <2>2, <2>3, <2>4, Zenon
<1>9. Locals'
  BY <1>1, <1>2, <1>7, Zenon DEF Locals, Local, Inserting, Finding, Removing, Scanning, Inside, WithEntry
<1>10. Tables'
  BY <1>4, Zenon DEF Tables
<1>11. Links' /\ Matches' /\ Pushes'
  BY <1>1, <1>2, Zenon DEF Links, Matches, MatchOf, Pushes
<1>12. Named'
  BY <1>1, <1>3, Zenon DEF Named, RetiredRec
<1>13. ASSUME NEW e \in Entries PROVE EntryInv(e)'
  <2>1. /\ ~RetiredEntry(e)' /\ ~OnList(e)'
        /\ \A h \in Hashes : ~ByTable(h, e)'
    BY <1>1, <1>4 DEF RetiredEntry, OnList, ByTable
  <2>2. \A u \in Threads : ~ByInsert(u, e)' /\ ~ByRemove(u, e)' /\ ~Holding(u, e)'
    BY <1>1, <1>2, Zenon DEF ByInsert, ByRemove, Holding
  <2>3. NoOnes(e)'
    BY <1>6, <2>1, <2>2, Zenon DEF NoOnes
  <2> QED
    BY <2>3, NoOnesFine
<1> QED
  BY <1>8, <1>9, <1>10, <1>11, <1>12, <1>13, Zenon DEF Inv, Entrywise

\* The store has been filled key by key: record i names entry i, and the
\* last entry is at the head of the list.
LEMMA InitKeeps == ASSUME Init, Apart PROVE Inv
<1>1. conf \in Configs /\ retired = {} /\ pinned = {} /\ destroyed = FALSE
  BY Zenon DEF Init
<1>2. PICK n \in Nat, s \in Seq(Keys) :
          /\ s = conf.start /\ n = Len(s) /\ n <= MaxEntries /\ n <= MaxRecords
          /\ \A i, j \in 1 .. n : Hash[s[i]] = Hash[s[j]] => i = j
  BY <1>1, KvConstants
<1>3. DOMAIN conf.start = 1 .. n /\ (\A i \in 1 .. n : s[i] \in Keys /\ Hash[s[i]] \in Hashes) /\ 1 .. n \subseteq Entries /\ 1 .. n \subseteq Records
  BY <1>2, KvConstants DEF Entries, Records, Hashes
<1>4. \A u \in Threads : job[u] = Idle /\ job[u].pc = "idle" /\ job[u].op = "idle"
  BY Zenon DEF Init, Idle
<1>5. FirstValue \in Values
  BY KvConstants DEF FirstValue
<1>6. /\ heap \in [Entries -> [state : {"unborn", "used", "freed"}, key : Keys \cup {None}, val : Values \cup {None}]]
      /\ \A e \in Entries : heap[e].state = "used" <=> e \in 1 .. n
      /\ \A e \in 1 .. n : heap[e].key = s[e]
  <2>1. heap = [e \in Entries |-> IF e \in 1 .. n THEN [state |-> "used", key |-> s[e], val |-> FirstValue] ELSE Unborn]
    BY <1>2, <1>3, Zenon DEF Init
  <2> QED
    BY <1>3, <1>5, <2>1, Zenon DEF Unborn
<1>7. /\ recs \in [Records -> [flags : {0, 1}, value : Entries \cup {None}]]
      /\ \A r \in 1 .. n : recs[r].value = r
      /\ \A r \in Records : recs[r].flags = 0 /\ (recs[r].value # None => r \in 1 .. n)
  <2>1. recs = [r \in Records |-> IF r \in 1 .. n THEN [flags |-> 0, value |-> r] ELSE FreeRec]
    BY <1>3, Zenon DEF Init
  <2> QED
    BY <1>3, <2>1 DEF FreeRec
<1>8. /\ table \in [Hashes -> Records \cup {None}]
      /\ \A h \in Hashes : table[h] # None => table[h] \in 1 .. n /\ Hash[s[table[h]]] = h
      /\ \A r \in 1 .. n : table[Hash[s[r]]] = r
  <2>1. table = [h \in Hashes |-> IF \E r \in 1 .. n : Hash[s[r]] = h THEN CHOOSE r \in 1 .. n : Hash[s[r]] = h ELSE None]
    BY <1>2, <1>3, Zenon DEF Init
  <2>2. ASSUME NEW h \in Hashes, NEW r \in 1 .. n, Hash[s[r]] = h PROVE table[h] = r
    <3>1. table[h] = CHOOSE q \in 1 .. n : Hash[s[q]] = h
      BY <2>1, <2>2, Zenon
    <3>2. (CHOOSE q \in 1 .. n : Hash[s[q]] = h) \in 1 .. n /\ Hash[s[CHOOSE q \in 1 .. n : Hash[s[q]] = h]] = h
      BY <2>2, Zenon
    <3> QED
      BY <1>2, <2>2, <3>1, <3>2, Zenon
  <2>3. ASSUME NEW h \in Hashes, ~\E r \in 1 .. n : Hash[s[r]] = h PROVE table[h] = None
    BY <2>1, <2>3
  <2>4. \A h \in Hashes : table[h] = None \/ (table[h] \in 1 .. n /\ Hash[s[table[h]]] = h)
    BY <2>2, <2>3, Zenon
  <2>5. table \in [Hashes -> Records \cup {None}]
    BY <1>3, <2>1, <2>4, Zenon
  <2> QED
    BY <1>3, <2>2, <2>4, <2>5, Zenon
<1>9. /\ list \in Seq(Entries) /\ Len(list) = n
      /\ \A i \in 1 .. n : list[i] = n - i + 1
  <2>1. list = [i \in 1 .. n |-> n - i + 1]
    BY <1>2, <1>3, Zenon DEF Init
  <2>2. \A i \in 1 .. n : n - i + 1 \in Entries
    BY <1>3
  <2> QED
    BY <2>1, <2>2
<1>10. job \in [Threads -> Jobs]
  BY IdleIs, Zenon DEF Init
<1>11. \A h \in Hashes, e \in Entries : ByTable(h, e) <=> e \in 1 .. n /\ Hash[s[e]] = h
  BY <1>3, <1>7, <1>8, NoneApart DEF ByTable
<1>12. Types /\ Holders /\ NodesOnce
  BY <1>1, <1>6, <1>7, <1>8, <1>9, <1>10, Zenon DEF Types, Holders, NodesOnce
<1>13. Locals
  BY <1>1, <1>4, Zenon DEF Locals, Local, Inserting, Finding, Removing, Scanning, Inside, WithEntry
<1>14. Tables
  <2>1. \A h \in Hashes : table[h] # None => /\ table[h] \in 1 .. n /\ table[h] \in Entries /\ table[h] \in Records
                                             /\ recs[table[h]].value = table[h] /\ heap[table[h]].key = s[table[h]]
                                             /\ s[table[h]] \in Keys
    BY <1>3, <1>6, <1>7, <1>8, Zenon
  <2> QED
    BY <1>1, <1>7, <1>8, <2>1, NoneApart DEF Tables, Home, RetiredRec
<1>15. Links /\ Matches /\ Pushes
  BY <1>4, Zenon DEF Links, Matches, MatchOf, Pushes
<1>16. Named
  BY <1>1, <1>3, <1>7, <1>8, Zenon DEF Named, RetiredRec, LinkedRec
<1>17. Once(list)
  BY <1>9 DEF Once
<1>18. ASSUME NEW e \in Entries PROVE EntryInv(e)
  <2>1. \A u \in Threads : ~ByInsert(u, e) /\ ~ByRemove(u, e) /\ ~ByPush(u, e) /\ ~ByOff(u, e) /\ ~Holding(u, e)
    BY <1>4, Zenon DEF ByInsert, ByRemove, ByPush, ByOff, Holding
  <2>2. ~RetiredEntry(e)
    BY <1>1 DEF RetiredEntry
  <2>3. (\E h \in Hashes : ByTable(h, e)) <=> e \in 1 .. n
    BY <1>3, <1>11
  <2>4. OnList(e) <=> e \in 1 .. n
    <3>1. ASSUME e \in 1 .. n PROVE OnList(e)
      <4>1. n - e + 1 \in 1 .. n /\ list[n - e + 1] = e
        BY <1>9, <3>1
      <4> QED
        BY <1>9, <4>1 DEF OnList
    <3>2. ASSUME OnList(e) PROVE e \in 1 .. n
      BY <1>9, <3>2 DEF OnList
    <3> QED
      BY <3>1, <3>2
  <2>5. HasOwner(e) /\ TableOwns(e)
    BY <1>6, <1>11, <2>1, <2>2, <2>3 DEF HasOwner, TableOwns
  <2>6. InsertOwns(e) /\ RemoveOwns(e) /\ RetiredOwns(e)
    BY <2>1, <2>2, Zenon DEF InsertOwns, RemoveOwns, RetiredOwns
  <2>7. Listed(e) /\ Safe(e)
    BY <2>1, <2>3, <2>4 DEF Listed, Safe
  <2> QED
    BY <2>5, <2>6, <2>7 DEF EntryInv, Owned
<1> QED
  BY <1>12, <1>13, <1>14, <1>15, <1>16, <1>17, <1>18 DEF Inv, Entrywise

=============================================================================
