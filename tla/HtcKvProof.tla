----------------------------- MODULE HtcKvProof -----------------------------
(* The key-value store, for any number of threads, keys and entries, and   *)
(* clients that keep out of each other's way: every entry has one owner,   *)
(* the list agrees with the table, and nothing that is freed is read.      *)
EXTENDS HtcKv, TLAPS

----------------------------------------------------------------------------
(* The inductive invariant. *)

Inserting == {"alloc", "link", "push"}
Finding == {"find", "compare"}
Removing == {"remove", "match", "unlink", "off", "retire", "unpin"}
Scanning == {"memory", "value", "lengths"}
Inside == Finding \cup Removing \cup Scanning
WithEntry == {"alloc", "link", "push", "compare", "match", "unlink", "off", "retire", "lengths"}
Results == {None, "refused", <<>>} \cup {<<v>> : v \in Values \cup {None}}
Ops == {"idle", "insert", "find", "remove", "memory"}
Pcs == Inserting \cup Inside \cup {"idle", "return"}
Jobs == [op : Ops, pc : Pcs,
         key : Keys \cup {None}, val : Values \cup {None},
         entry : Entries \cup {None}, rec : Records \cup {None}, res : Results]
Nodes == [what : ({"entry"} \X Entries) \cup ({"record"} \X Records), by : Threads, holders : SUBSET Threads]

Types ==
    /\ conf \in Configs
    /\ heap \in [Entries -> [state : {"unborn", "used", "freed"}, key : Keys \cup {None}, val : Values \cup {None}]]
    /\ recs \in [Records -> [flags : {0, 1}, value : Entries \cup {None}]]
    /\ table \in [Hashes -> Records \cup {None}]
    /\ list \in Seq(Entries)
    /\ retired \subseteq Nodes
    /\ pinned \subseteq Threads
    /\ job \in [Threads -> Jobs]
    /\ destroyed \in BOOLEAN

\* What the place of a thread in its call says of its other fields.
Local(t) ==
    /\ job[t].pc = "idle" => job[t] = Idle
    /\ job[t].pc \in Inserting => job[t].op = "insert" /\ job[t].key \in conf.inserts[t] /\ job[t].val \in Values
    /\ job[t].pc \in Finding => job[t].op = "find" /\ job[t].key \in conf.finds[t]
    /\ job[t].pc \in Removing => job[t].op = "remove" /\ job[t].key \in conf.removes[t]
    /\ job[t].pc \in Scanning => job[t].op = "memory" /\ job[t].key \in conf.scans[t]
    /\ job[t].pc \in WithEntry => job[t].entry # None
    /\ job[t].pc \in {"link", "value"} => job[t].rec # None
    /\ job[t].op = "insert" /\ job[t].pc # "link" => job[t].rec = None
    /\ t \in pinned <=> job[t].pc \in Inside
    /\ destroyed => job[t].pc = "idle"
Locals == \A t \in Threads : Local(t)

Holders == \A n \in retired : n.holders \subseteq pinned
NodesOnce == \A n, m \in retired : n.what = m.what => n = m

\* The records in use: linked, with a thread about to link them, retired.
LinkedRec(r) == \E h \in Hashes : table[h] = r
RetiredRec(r) == \E n \in retired : n.what = <<"record", r>>
RetiredEntry(e) == \E n \in retired : n.what = <<"entry", e>>

Home(h) ==
    /\ recs[table[h]].flags = 0 /\ recs[table[h]].value # None
    /\ ~RetiredRec(table[h])
    /\ heap[recs[table[h]].value].key # None
    /\ Hash[heap[recs[table[h]].value].key] = h
Tables ==
    /\ \A g, h \in Hashes : table[g] # None /\ table[g] = table[h] => g = h
    /\ \A h \in Hashes : table[h] # None => Home(h)
Ready(t) ==
    /\ recs[job[t].rec].flags = 0 /\ recs[job[t].rec].value = job[t].entry
    /\ table[H(t)] = None /\ ~LinkedRec(job[t].rec) /\ ~RetiredRec(job[t].rec)
Links ==
    /\ \A t, u \in Threads : job[t].pc = "link" /\ job[u].pc = "link" /\ t # u => job[t].rec # job[u].rec /\ H(t) # H(u)
    /\ \A t \in Threads : job[t].pc = "link" => Ready(t)
Named ==
    \A r \in Records : /\ RetiredRec(r) => recs[r].flags = 1
                       /\ recs[r].value # None => LinkedRec(r) \/ RetiredRec(r) \/ \E t \in Threads : job[t].pc = "link" /\ job[t].rec = r

\* Who has an entry, one predicate for each kind of owner; who is about to
\* put it on the list or to take it off; who reads it, or the record that
\* names it.
ByInsert(t, e) == job[t].pc \in {"alloc", "link"} /\ job[t].entry = e
ByTable(h, e) == table[h] # None /\ recs[table[h]].value = e
ByRemove(t, e) == job[t].pc \in {"off", "retire"} /\ job[t].entry = e
ByPush(t, e) == job[t].pc = "push" /\ job[t].entry = e
ByOff(t, e) == job[t].pc = "off" /\ job[t].entry = e
Holding(t, e) ==
    \/ job[t].pc \in {"compare", "match", "unlink", "lengths"} /\ job[t].entry = e
    \/ job[t].pc = "value" /\ recs[job[t].rec].value = e

\* An entry in use has one owner.
HasOwner(e) ==
    heap[e].state = "used" => \/ \E t \in Threads : ByInsert(t, e)
                              \/ \E h \in Hashes : ByTable(h, e)
                              \/ \E t \in Threads : ByRemove(t, e)
                              \/ RetiredEntry(e)
InsertOwns(e) ==
    \A t \in Threads : ByInsert(t, e) =>
        /\ heap[e].state = "used" /\ heap[e].key = job[t].key /\ heap[e].val = job[t].val
        /\ \A u \in Threads : ByInsert(u, e) => t = u
        /\ \A h \in Hashes : ~ByTable(h, e)
        /\ \A u \in Threads : ~ByRemove(u, e)
        /\ ~RetiredEntry(e)
TableOwns(e) ==
    \A h \in Hashes : ByTable(h, e) =>
        /\ heap[e].state = "used"
        /\ \A g \in Hashes : ByTable(g, e) => g = h
        /\ \A u \in Threads : ~ByRemove(u, e)
        /\ ~RetiredEntry(e)
RemoveOwns(e) ==
    \A t \in Threads : ByRemove(t, e) =>
        /\ heap[e].state = "used"
        /\ \A u \in Threads : ByRemove(u, e) => u = t
        /\ ~RetiredEntry(e)
RetiredOwns(e) == RetiredEntry(e) => heap[e].state = "used"

\* It is on the list while the table has it, but for a moment at each end.
OnList(e) == \E i \in 1 .. Len(list) : list[i] = e
Listed(e) ==
    OnList(e) <=> \/ (\E h \in Hashes : ByTable(h, e)) /\ (\A t \in Threads : ~ByPush(t, e))
                  \/ \E t \in Threads : ByOff(t, e)

\* One that t reads is not freed before t leaves its epoch.
Protected(t, e) ==
    /\ heap[e].state = "used"
    /\ \A n \in retired : n.what = <<"entry", e>> => t \in n.holders
    /\ \A u \in Threads : ByInsert(u, e) => job[u].pc = "link" /\ ~conf.fails
Safe(e) == \A t \in Threads : Holding(t, e) => Protected(t, e)

Owned(e) == HasOwner(e) /\ InsertOwns(e) /\ TableOwns(e) /\ RemoveOwns(e) /\ RetiredOwns(e)
EntryInv(e) == Owned(e) /\ Listed(e) /\ Safe(e)
Entrywise == \A e \in Entries : EntryInv(e)

\* An entry found by a thread that compares or removes.
MatchOf(t) ==
    /\ job[t].pc \in {"compare", "match", "unlink", "off", "retire"} =>
          heap[job[t].entry].key # None /\ Hash[heap[job[t].entry].key] = H(t)
    /\ job[t].pc \in {"match", "unlink"} => table[H(t)] = None \/ ByTable(H(t), job[t].entry)
    /\ job[t].pc = "unlink" => heap[job[t].entry].key = job[t].key
Matches == \A t \in Threads : MatchOf(t)

\* What a thread is about to push is still in the table.
Pushes ==
    \A t \in Threads : job[t].pc = "push" =>
       /\ ByTable(H(t), job[t].entry)
       /\ \A u \in Threads : job[u].pc = "push" /\ job[u].entry = job[t].entry => u = t

Once(l) == \A i, j \in 1 .. Len(l) : l[i] = l[j] => i = j

\* The clients keep out of each other's way.
Apart == KeptApart(conf)

Inv == /\ Apart /\ Types /\ Locals /\ Holders /\ NodesOnce /\ Tables /\ Links /\ Named
       /\ Entrywise /\ Matches /\ Pushes /\ Once(list)

----------------------------------------------------------------------------
(* What a step makes of the job of its thread. *)

\* From f to g thread t gets on with its call, and no other thread moves.
Moved(f, g, t, pc, entry, rec, res) ==
    /\ g \in [Threads -> Jobs]
    /\ \A u \in Threads : u # t => g[u] = f[u]
    /\ g[t].op = f[t].op /\ g[t].key = f[t].key /\ g[t].val = f[t].val
    /\ g[t].pc = pc /\ g[t].entry = entry /\ g[t].rec = rec /\ g[t].res = res
Becomes(t, pc, entry, rec, res) == Moved(job, job', t, pc, entry, rec, res)

\* Some fields of a job are set.
LEMMA SetPc ==
    ASSUME NEW f \in [Threads -> Jobs], NEW t \in Threads, NEW p \in Pcs
    PROVE  Moved(f, [f EXCEPT ![t].pc = p], t, p, f[t].entry, f[t].rec, f[t].res)
<1>1. PICK j \in Jobs : j = f[t]
  OBVIOUS
<1>2. PICK k \in Jobs : k = [j EXCEPT !.pc = p]
  BY Zenon DEF Jobs
<1>3. PICK g : g = [f EXCEPT ![t] = k]
  BY Zenon
<1>4. g[t] = k /\ g \in [Threads -> Jobs] /\ \A u \in Threads : u # t => g[u] = f[u]
  BY <1>3
<1>5. k.op = j.op /\ k.pc = p /\ k.key = j.key /\ k.val = j.val /\ k.entry = j.entry /\ k.rec = j.rec /\ k.res = j.res
  BY <1>2 DEF Jobs
<1>6. g = [f EXCEPT ![t].pc = p]
  BY <1>1, <1>2, <1>3 DEF Jobs
<1>7. Moved(f, g, t, p, f[t].entry, f[t].rec, f[t].res)
  BY <1>1, <1>4, <1>5, Zenon DEF Moved
<1> QED
  BY <1>6, <1>7, Zenon

\* The step and the entry are set.
LEMMA SetEntry ==
    ASSUME NEW f \in [Threads -> Jobs], NEW t \in Threads, NEW p \in Pcs, NEW e \in Entries \cup {None}
    PROVE  Moved(f, [f EXCEPT ![t].pc = p, ![t].entry = e], t, p, e, f[t].rec, f[t].res)
<1>1. PICK j \in Jobs : j = f[t]
  OBVIOUS
<1>2. PICK k \in Jobs : k = [j EXCEPT !.pc = p, !.entry = e]
  BY Zenon DEF Jobs
<1>3. PICK g : g = [f EXCEPT ![t] = k]
  BY Zenon
<1>4. g[t] = k /\ g \in [Threads -> Jobs] /\ \A u \in Threads : u # t => g[u] = f[u]
  BY <1>3
<1>5. k.op = j.op /\ k.pc = p /\ k.key = j.key /\ k.val = j.val /\ k.entry = e /\ k.rec = j.rec /\ k.res = j.res
  BY <1>2 DEF Jobs
<1>6. g = [f EXCEPT ![t].pc = p, ![t].entry = e]
  BY <1>1, <1>2, <1>3, Zenon DEF Jobs
<1>7. Moved(f, g, t, p, e, f[t].rec, f[t].res)
  BY <1>1, <1>4, <1>5, Zenon DEF Moved
<1> QED
  BY <1>6, <1>7, Zenon

\* The step and the record are set.
LEMMA SetRec ==
    ASSUME NEW f \in [Threads -> Jobs], NEW t \in Threads, NEW p \in Pcs, NEW r \in Records \cup {None}
    PROVE  Moved(f, [f EXCEPT ![t].pc = p, ![t].rec = r], t, p, f[t].entry, r, f[t].res)
<1>1. PICK j \in Jobs : j = f[t]
  OBVIOUS
<1>2. PICK k \in Jobs : k = [j EXCEPT !.pc = p, !.rec = r]
  BY Zenon DEF Jobs
<1>3. PICK g : g = [f EXCEPT ![t] = k]
  BY Zenon
<1>4. g[t] = k /\ g \in [Threads -> Jobs] /\ \A u \in Threads : u # t => g[u] = f[u]
  BY <1>3
<1>5. k.op = j.op /\ k.pc = p /\ k.key = j.key /\ k.val = j.val /\ k.entry = j.entry /\ k.rec = r /\ k.res = j.res
  BY <1>2 DEF Jobs
<1>6. g = [f EXCEPT ![t].pc = p, ![t].rec = r]
  BY <1>1, <1>2, <1>3, Zenon DEF Jobs
<1>7. Moved(f, g, t, p, f[t].entry, r, f[t].res)
  BY <1>1, <1>4, <1>5, Zenon DEF Moved
<1> QED
  BY <1>6, <1>7, Zenon

\* The step and the result are set.
LEMMA SetRes ==
    ASSUME NEW f \in [Threads -> Jobs], NEW t \in Threads, NEW p \in Pcs, NEW s \in Results
    PROVE  Moved(f, [f EXCEPT ![t].pc = p, ![t].res = s], t, p, f[t].entry, f[t].rec, s)
<1>1. PICK j \in Jobs : j = f[t]
  OBVIOUS
<1>2. PICK k \in Jobs : k = [j EXCEPT !.pc = p, !.res = s]
  BY Zenon DEF Jobs
<1>3. PICK g : g = [f EXCEPT ![t] = k]
  BY Zenon
<1>4. g[t] = k /\ g \in [Threads -> Jobs] /\ \A u \in Threads : u # t => g[u] = f[u]
  BY <1>3
<1>5. k.op = j.op /\ k.pc = p /\ k.key = j.key /\ k.val = j.val /\ k.entry = j.entry /\ k.rec = j.rec /\ k.res = s
  BY <1>2 DEF Jobs
<1>6. g = [f EXCEPT ![t].pc = p, ![t].res = s]
  BY <1>1, <1>2, <1>3, Zenon DEF Jobs
<1>7. Moved(f, g, t, p, f[t].entry, f[t].rec, s)
  BY <1>1, <1>4, <1>5, Zenon DEF Moved
<1> QED
  BY <1>6, <1>7, Zenon

\* The step, the entry and the result are set.
LEMMA SetEntryRes ==
    ASSUME NEW f \in [Threads -> Jobs], NEW t \in Threads, NEW p \in Pcs, NEW e \in Entries \cup {None}, NEW s \in Results
    PROVE  Moved(f, [f EXCEPT ![t].pc = p, ![t].entry = e, ![t].res = s], t, p, e, f[t].rec, s)
<1>1. PICK j \in Jobs : j = f[t]
  OBVIOUS
<1>2. PICK k \in Jobs : k = [j EXCEPT !.pc = p, !.entry = e, !.res = s]
  BY Zenon DEF Jobs
<1>3. PICK g : g = [f EXCEPT ![t] = k]
  BY Zenon
<1>4. g[t] = k /\ g \in [Threads -> Jobs] /\ \A u \in Threads : u # t => g[u] = f[u]
  BY <1>3
<1>5. k.op = j.op /\ k.pc = p /\ k.key = j.key /\ k.val = j.val /\ k.entry = e /\ k.rec = j.rec /\ k.res = s
  BY <1>2 DEF Jobs
<1>6. g = [f EXCEPT ![t].pc = p, ![t].entry = e, ![t].res = s]
  BY <1>1, <1>2, <1>3, Zenon DEF Jobs
<1>7. Moved(f, g, t, p, e, f[t].rec, s)
  BY <1>1, <1>4, <1>5, Zenon DEF Moved
<1> QED
  BY <1>6, <1>7, Zenon

\* The step, the record and the result are set.
LEMMA SetRecRes ==
    ASSUME NEW f \in [Threads -> Jobs], NEW t \in Threads, NEW p \in Pcs, NEW r \in Records \cup {None}, NEW s \in Results
    PROVE  Moved(f, [f EXCEPT ![t].pc = p, ![t].rec = r, ![t].res = s], t, p, f[t].entry, r, s)
<1>1. PICK j \in Jobs : j = f[t]
  OBVIOUS
<1>2. PICK k \in Jobs : k = [j EXCEPT !.pc = p, !.rec = r, !.res = s]
  BY Zenon DEF Jobs
<1>3. PICK g : g = [f EXCEPT ![t] = k]
  BY Zenon
<1>4. g[t] = k /\ g \in [Threads -> Jobs] /\ \A u \in Threads : u # t => g[u] = f[u]
  BY <1>3
<1>5. k.op = j.op /\ k.pc = p /\ k.key = j.key /\ k.val = j.val /\ k.entry = j.entry /\ k.rec = r /\ k.res = s
  BY <1>2 DEF Jobs
<1>6. g = [f EXCEPT ![t].pc = p, ![t].rec = r, ![t].res = s]
  BY <1>1, <1>2, <1>3, Zenon DEF Jobs
<1>7. Moved(f, g, t, p, f[t].entry, r, s)
  BY <1>1, <1>4, <1>5, Zenon DEF Moved
<1> QED
  BY <1>6, <1>7, Zenon

\* All fields that change during a call are set.
LEMMA SetAll ==
    ASSUME NEW f \in [Threads -> Jobs], NEW t \in Threads, NEW p \in Pcs, NEW e \in Entries \cup {None}, NEW r \in Records \cup {None}, NEW s \in Results
    PROVE  Moved(f, [f EXCEPT ![t].pc = p, ![t].entry = e, ![t].rec = r, ![t].res = s], t, p, e, r, s)
<1>1. PICK j \in Jobs : j = f[t]
  OBVIOUS
<1>2. PICK k \in Jobs : k = [j EXCEPT !.pc = p, !.entry = e, !.rec = r, !.res = s]
  BY Zenon DEF Jobs
<1>3. PICK g : g = [f EXCEPT ![t] = k]
  BY Zenon
<1>4. g[t] = k /\ g \in [Threads -> Jobs] /\ \A u \in Threads : u # t => g[u] = f[u]
  BY <1>3
<1>5. k.op = j.op /\ k.pc = p /\ k.key = j.key /\ k.val = j.val /\ k.entry = e /\ k.rec = r /\ k.res = s
  BY <1>2 DEF Jobs
<1>6. g = [f EXCEPT ![t].pc = p, ![t].entry = e, ![t].rec = r, ![t].res = s]
  BY <1>1, <1>2, <1>3, Zenon DEF Jobs
<1>7. Moved(f, g, t, p, e, r, s)
  BY <1>1, <1>4, <1>5, Zenon DEF Moved
<1> QED
  BY <1>6, <1>7, Zenon

\* The steps, listed.
LEMMA PcsHave ==
    {"idle", "return", "alloc", "link", "push", "find", "compare", "remove", "match", "unlink", "off", "retire",
     "unpin", "memory", "value", "lengths"} = Pcs
BY DEF Pcs, Inserting, Inside, Finding, Removing, Scanning

\* The results a call can have.
LEMMA ResultsHave ==
    None \in Results /\ "refused" \in Results /\ <<>> \in Results /\ \A v \in Values \cup {None} : <<v>> \in Results
BY DEF Results

\* The types of the fields of a job.
LEMMA JobFields ==
    ASSUME Types, NEW t \in Threads
    PROVE  /\ job[t].op \in Ops /\ job[t].pc \in Pcs /\ job[t].key \in Keys \cup {None} /\ job[t].val \in Values \cup {None}
           /\ job[t].entry \in Entries \cup {None} /\ job[t].rec \in Records \cup {None} /\ job[t].res \in Results
BY DEF Types, Jobs

\* None, the null pointer, is none of the values a pointer can hold.
LEMMA NoneApart ==
    None \notin Entries /\ None \notin Records /\ None \notin Keys /\ None \notin Values
BY KvConstants DEF Entries, Records

\* The keys of the calls have hashes the table knows.
LEMMA HashKnown ==
    ASSUME Types, Locals, NEW t \in Threads, job[t].pc \in Inserting \cup Inside
    PROVE  job[t].key \in Keys /\ H(t) \in Hashes
<1>1. /\ conf.inserts[t] \subseteq Keys /\ conf.finds[t] \subseteq Keys
      /\ conf.removes[t] \subseteq Keys /\ conf.scans[t] \subseteq Keys
  BY KvConstants DEF Types
<1>2. job[t].key \in Keys
  BY <1>1 DEF Locals, Local, Inside
<1> QED
  BY <1>2 DEF H, Hashes

\* What the job of thread t becomes in each of its steps.
LEMMA RefusedMoves == ASSUME Types, NEW t \in Threads, Refused(t) PROVE Becomes(t, "return", None, None, "refused")
BY SetAll, PcsHave, ResultsHave, Zenon DEF Types, Refused, Becomes

\* An insert that has linked its record goes on to the list.
LEMMA InsertLinkMoves == ASSUME Types, NEW t \in Threads, InsertLink(t) PROVE Becomes(t, "push", job[t].entry, None, <<job[t].val>>)
BY SetRecRes, PcsHave, ResultsHave, JobFields, Zenon DEF Types, InsertLink, Becomes

\* An insert that lost its slot takes a record again.
LEMMA InsertRetryMoves == ASSUME Types, NEW t \in Threads, InsertRetry(t) PROVE Becomes(t, "alloc", job[t].entry, None, job[t].res)
BY SetRec, PcsHave, ResultsHave, Zenon DEF Types, InsertRetry, Becomes

\* An insert that is on the list has nothing more to do.
LEMMA ListPushMoves == ASSUME Types, NEW t \in Threads, ListPush(t) PROVE Becomes(t, "return", None, job[t].rec, job[t].res)
BY SetEntry, PcsHave, ResultsHave, Zenon DEF Types, ListPush, Becomes

\* A remove that finds nothing to remove answers so.
LEMMA GiveUpMoves == ASSUME Types, NEW t \in Threads, GiveUp(t) PROVE Becomes(t, "return", None, job[t].rec, "refused")
BY SetEntryRes, PcsHave, ResultsHave, Zenon DEF Types, GiveUp, Becomes

\* A remove that unlinked its entry goes on to the list.
LEMMA RemoveUnlinkMoves == ASSUME Types, NEW t \in Threads, RemoveUnlink(t) PROVE Becomes(t, "off", job[t].entry, job[t].rec, <<>>)
BY SetRes, PcsHave, ResultsHave, Zenon DEF Types, RemoveUnlink, Becomes

\* A remove that is done with the list retires the entry.
LEMMA ListRemoveMoves == ASSUME Types, NEW t \in Threads, ListRemove(t) PROVE Becomes(t, "retire", job[t].entry, job[t].rec, job[t].res)
BY SetPc, PcsHave, ResultsHave, Zenon DEF Types, ListRemove, Becomes

\* A remove that retired its entry leaves its epoch.
LEMMA RetireMoves == ASSUME Types, NEW t \in Threads, Retire(t) PROVE Becomes(t, "unpin", None, job[t].rec, job[t].res)
BY SetEntry, PcsHave, ResultsHave, Zenon DEF Types, Retire, Becomes

\* The same, where the entry was freed at once.
LEMMA RetireNowMoves == ASSUME Types, NEW t \in Threads, RetireNow(t) PROVE Becomes(t, "unpin", None, job[t].rec, job[t].res)
BY SetEntry, PcsHave, ResultsHave, Zenon DEF Types, RetireNow, Becomes

\* A remove that left its epoch returns.
LEMMA RemoveUnpinMoves == ASSUME Types, NEW t \in Threads, RemoveUnpin(t) PROVE Becomes(t, "return", job[t].entry, job[t].rec, job[t].res)
BY SetPc, PcsHave, ResultsHave, Zenon DEF Types, RemoveUnpin, Becomes

\* A scan goes from an entry to the next record.
LEMMA ScanLengthsMoves == ASSUME Types, NEW t \in Threads, ScanLengths(t) PROVE Becomes(t, "memory", None, job[t].rec, job[t].res)
BY SetEntry, PcsHave, ResultsHave, Zenon DEF Types, ScanLengths, Becomes

\* A find answers what its comparison shows.
LEMMA FindCompareMoves ==
    ASSUME Types, Locals, NEW t \in Threads, FindCompare(t)
    PROVE  Becomes(t, "return", None, job[t].rec, Found(t))
<1>1. job[t].entry \in Entries
  BY JobFields, Zenon DEF Locals, Local, FindCompare, WithEntry
<1>2. heap[job[t].entry].val \in Values \cup {None}
  BY <1>1 DEF Types
<1>3. Found(t) \in Results
  BY <1>2, ResultsHave DEF Found
<1> QED
  BY <1>3, SetEntryRes, PcsHave, Zenon DEF Types, FindCompare, Becomes

\* An insert that has a record goes on to link it.
LEMMA InsertRecordMoves ==
    ASSUME Types, NEW t \in Threads, NEW r \in Records, job' = [job EXCEPT ![t].pc = "link", ![t].rec = r]
    PROVE  Becomes(t, "link", job[t].entry, r, job[t].res)
BY SetRec, PcsHave, Zenon DEF Types, Becomes

\* What htc_find_scoped finds for the hash of thread t.
LEMMA ScopedMoves ==
    ASSUME Types, Locals, NEW t \in Threads, job[t].pc \in Inside, NEW pc \in Pcs, NEW miss \in Results, Scoped(t, pc, miss)
    PROVE  \/ /\ table[H(t)] = None
              /\ Becomes(t, "return", job[t].entry, job[t].rec, miss)
              /\ Unpin(t)
           \/ /\ table[H(t)] \in Records
              /\ Becomes(t, pc, recs[table[H(t)]].value, job[t].rec, job[t].res)
              /\ UNCHANGED <<retired, pinned>>
<1>1. H(t) \in Hashes
  BY HashKnown
<1>2. CASE table[H(t)] = None
  <2>1. job' = [job EXCEPT ![t].pc = "return", ![t].res = miss] /\ Unpin(t)
    BY <1>2, Zenon DEF Scoped
  <2> QED
    BY <1>2, <2>1, SetRes, PcsHave, Zenon DEF Types, Becomes
<1>3. CASE table[H(t)] # None
  <2>1. table[H(t)] \in Records /\ recs[table[H(t)]].value \in Entries \cup {None}
    BY <1>1, <1>3 DEF Types
  <2>2. job' = [job EXCEPT ![t].pc = pc, ![t].entry = recs[table[H(t)]].value] /\ UNCHANGED <<retired, pinned>>
    BY <1>3, Zenon DEF Scoped
  <2> QED
    BY <2>1, <2>2, SetEntry, Zenon DEF Types, Becomes
<1> QED
  BY <1>2, <1>3

\* A scan meets a record, live or not, or is at the end.
LEMMA ScanFlagsMoves ==
    ASSUME Types, NEW t \in Threads, ScanFlags(t)
    PROVE  \/ \E r \in Records : /\ Becomes(t, IF recs[r].flags = 0 THEN "value" ELSE "memory", job[t].entry, r, job[t].res)
                                 /\ UNCHANGED <<retired, pinned>>
           \/ Becomes(t, "return", job[t].entry, None, job[t].res) /\ Unpin(t)
<1>1. CASE ScanAt(t) \in Records
  <2>1. (IF recs[ScanAt(t)].flags = 0 THEN "value" ELSE "memory") \in Pcs
    BY PcsHave
  <2>3. /\ job' = [job EXCEPT ![t].pc = IF recs[ScanAt(t)].flags = 0 THEN "value" ELSE "memory", ![t].rec = ScanAt(t)]
        /\ UNCHANGED <<retired, pinned>>
    BY <1>1 DEF ScanFlags
  <2>2. Becomes(t, IF recs[ScanAt(t)].flags = 0 THEN "value" ELSE "memory", job[t].entry, ScanAt(t), job[t].res)
    BY <1>1, <2>1, <2>3, SetRec, Zenon DEF Types, Becomes
  <2> QED
    BY <1>1, <2>3, <2>2, Zenon
<1>2. CASE ScanAt(t) \notin Records
  <2>1. job' = [job EXCEPT ![t].pc = "return", ![t].rec = None] /\ Unpin(t)
    BY <1>2 DEF ScanFlags
  <2> QED
    BY <2>1, SetRec, PcsHave, Zenon DEF Types, Becomes
<1> QED
  BY <1>1, <1>2

\* A scan takes the entry of a record, or passes over it when there is none.
LEMMA ScanValueMoves ==
    ASSUME Types, Locals, NEW t \in Threads, ScanValue(t)
    PROVE  \E e \in Entries \cup {None} : /\ job[t].rec \in Records /\ e = recs[job[t].rec].value
                                          /\ Becomes(t, IF e = None THEN "memory" ELSE "lengths", e, job[t].rec, job[t].res)
<1>1. job[t].rec \in Records
  BY JobFields DEF Locals, Local, ScanValue
<1>2. PICK e \in Entries \cup {None} : e = recs[job[t].rec].value
  BY <1>1 DEF Types
<1>3. (IF e = None THEN "memory" ELSE "lengths") \in Pcs
  BY PcsHave
<1>4. Becomes(t, IF e = None THEN "memory" ELSE "lengths", e, job[t].rec, job[t].res)
  BY <1>2, <1>3, SetEntry, Zenon DEF Types, ScanValue, Becomes
<1> QED
  BY <1>1, <1>2, <1>4, Zenon

\* The job of an idle thread is one.
LEMMA IdleIs == Idle \in Jobs
BY PcsHave, ResultsHave DEF Idle, Jobs, Ops

\* A thread that returns is idle.
LEMMA ReturnMoves ==
    ASSUME Types, NEW t \in Threads, Return(t)
    PROVE  job' \in [Threads -> Jobs] /\ job'[t] = Idle /\ \A u \in Threads : u # t => job'[u] = job[u]
BY IdleIs DEF Types, Return

\* A find, a remove or a scan is called.
LEMMA CallMoves ==
    ASSUME Types, NEW t \in Threads, NEW op \in Ops, op \in Pcs, NEW k \in Keys,
           job' = [job EXCEPT ![t] = [Idle EXCEPT !.op = op, !.pc = op, !.key = k]]
    PROVE  /\ job' \in [Threads -> Jobs] /\ \A u \in Threads : u # t => job'[u] = job[u]
           /\ job'[t] = [Idle EXCEPT !.op = op, !.pc = op, !.key = k]
<1>1. PICK j \in Jobs : j = [Idle EXCEPT !.op = op, !.pc = op, !.key = k]
  BY IdleIs, Zenon DEF Jobs
<1> QED
  BY <1>1, Zenon DEF Types

\* Freeing an entry changes its state and nothing else.
LEMMA FreeIs ==
    ASSUME Types, NEW x \in Entries, heap' = Free(heap, x)
    PROVE  /\ heap' \in [Entries -> [state : {"unborn", "used", "freed"}, key : Keys \cup {None}, val : Values \cup {None}]]
           /\ heap'[x].state = "freed" /\ \A e \in Entries : heap'[e].key = heap[e].key /\ heap'[e].val = heap[e].val
           /\ \A e \in Entries : e # x => heap'[e] = heap[e]
<1>1. PICK y : y = [heap[x] EXCEPT !.state = "freed"]
  BY Zenon
<1>2. /\ y \in [state : {"unborn", "used", "freed"}, key : Keys \cup {None}, val : Values \cup {None}]
      /\ y.state = "freed" /\ y.key = heap[x].key /\ y.val = heap[x].val
  BY <1>1, Zenon DEF Types
<1>3. heap' = [heap EXCEPT ![x] = y]
  BY <1>1 DEF Free, Types
<1> QED
  BY <1>2, <1>3 DEF Types

\* What a thread in the middle of a call has in hand.
LEMMA InHand ==
    ASSUME Inv, NEW u \in Threads
    PROVE  /\ job[u].pc \in WithEntry => job[u].entry \in Entries
           /\ job[u].pc \in {"link", "value"} => job[u].rec \in Records
           /\ job[u].pc \in Inserting \cup Inside => H(u) \in Hashes
<1>1. Types /\ Locals /\ Local(u)
  BY DEF Inv, Locals
<1>2. job[u].entry \in Entries \cup {None} /\ job[u].rec \in Records \cup {None}
  BY <1>1, JobFields
<1>3. job[u].pc \in Inserting \cup Inside => H(u) \in Hashes
  BY <1>1, HashKnown
<1> QED
  BY <1>1, <1>2, <1>3 DEF Local

----------------------------------------------------------------------------
(* What a step leaves alone. *)

\* Only thread t moves.
OnlyJob(t) == job' \in [Threads -> Jobs] /\ \A u \in Threads : u # t => job'[u] = job[u]

\* An insert is called, with an entry of its own.
LEMMA CallInsertMoves ==
    ASSUME Types, NEW t \in Threads, NEW k \in Keys, NEW v \in Values, NEW x \in Entries,
           job' = [job EXCEPT ![t] = [Idle EXCEPT !.op = "insert", !.pc = "alloc", !.key = k, !.val = v, !.entry = x]]
    PROVE  /\ OnlyJob(t)
           /\ job'[t].op = "insert" /\ job'[t].pc = "alloc" /\ job'[t].key = k /\ job'[t].val = v
           /\ job'[t].entry = x /\ job'[t].rec = None /\ job'[t].res = None
<1>1. PICK j \in Jobs : j = [Idle EXCEPT !.op = "insert", !.pc = "alloc", !.key = k, !.val = v, !.entry = x]
  BY IdleIs, PcsHave, Zenon DEF Jobs, Ops
<1>2. j.op = "insert" /\ j.pc = "alloc" /\ j.key = k /\ j.val = v /\ j.entry = x /\ j.rec = None /\ j.res = None
  BY <1>1 DEF Idle
<1>3. job' = [job EXCEPT ![t] = j] /\ job \in [Threads -> Jobs]
  BY <1>1, Zenon DEF Types
<1> QED
  BY <1>2, <1>3, Zenon DEF OnlyJob

\* No entry changes its key, no record that is linked its place or its entry.
KeysKept == \A e \in Entries : heap[e].key # None => heap'[e].key = heap[e].key
LinksKept == \A h \in Hashes, e \in Entries : ByTable(h, e) => ByTable(h, e)'

\* Entry e stays with its owner, and on the list if it was there.
SameOwner(e) ==
    /\ heap'[e] = heap[e]
    /\ \A u \in Threads : ByInsert(u, e) => job'[u] = job[u]
    /\ \A u \in Threads : ByInsert(u, e)' <=> ByInsert(u, e)
    /\ \A h \in Hashes : ByTable(h, e)' <=> ByTable(h, e)
    /\ \A u \in Threads : ByRemove(u, e)' <=> ByRemove(u, e)
    /\ RetiredEntry(e)' <=> RetiredEntry(e)
    /\ OnList(e)' <=> OnList(e)
    /\ \A u \in Threads : ByPush(u, e)' <=> ByPush(u, e)
    /\ \A u \in Threads : ByOff(u, e)' <=> ByOff(u, e)

\* Nobody gets hold of entry e, and whoever has it keeps it from being freed.
SameReaders(e) ==
    /\ conf' = conf
    /\ \A u \in Threads : Holding(u, e)' => Holding(u, e)
    /\ \A n \in retired' : n.what = <<"entry", e>> => n \in retired

\* An entry whose owner stays is owned, and listed, as before.
LEMMA SameOwned ==
    ASSUME NEW e \in Entries, Owned(e), Listed(e), SameOwner(e)
    PROVE  Owned(e)' /\ Listed(e)'
<1>1. HasOwner(e)' /\ TableOwns(e)' /\ RemoveOwns(e)' /\ RetiredOwns(e)'
  BY DEF Owned, SameOwner, HasOwner, TableOwns, RemoveOwns, RetiredOwns
<1>2. InsertOwns(e)'
  BY DEF Owned, SameOwner, InsertOwns
<1>3. Listed(e)'
  BY DEF Listed, SameOwner
<1> QED
  BY <1>1, <1>2, <1>3 DEF Owned

\* An entry whose owner and whose readers stay is as safe as before.
LEMMA SameSafe ==
    ASSUME NEW e \in Entries, Safe(e), SameOwner(e), SameReaders(e)
    PROVE  Safe(e)'
BY DEF Safe, Protected, SameOwner, SameReaders

\* Thread t does something to entry x and to no other.
Elsewhere(t, x) ==
    /\ OnlyJob(t) /\ conf' = conf
    /\ job[t].entry \in {x, None} /\ job'[t].entry \in {x, None}
    /\ job[t].pc # "value" /\ job'[t].pc # "value"
    /\ \A e \in Entries : e # x => heap'[e] = heap[e]
    /\ \A h \in Hashes, e \in Entries : e # x => (ByTable(h, e)' <=> ByTable(h, e))
    /\ \A e \in Entries : e # x => (OnList(e)' <=> OnList(e))
    /\ \A e \in Entries, n \in retired \cup retired' :
          n.what = <<"entry", e>> /\ e # x => n \in retired /\ n \in retired'
    /\ \A r \in Records, e \in Entries : e # x /\ recs'[r].value = e => recs[r].value = e

\* The invariant of the entries is kept when it is kept for the one entry a step is about.
LEMMA EntriesKept ==
    ASSUME Inv, NEW t \in Threads, NEW x \in Entries, Elsewhere(t, x), EntryInv(x)'
    PROVE  Entrywise'
<1> SUFFICES ASSUME NEW e \in Entries, e # x PROVE EntryInv(e)'
  BY DEF Entrywise
<1>1. EntryInv(e) /\ e # None
  BY NoneApart DEF Inv, Entrywise
<1>2. \A u \in Threads : u # t => job'[u] = job[u]
  BY DEF Elsewhere, OnlyJob
<1>3. job[t].entry # e /\ job'[t].entry # e /\ job[t].pc # "value" /\ job'[t].pc # "value"
  BY <1>1 DEF Elsewhere
<1>4. /\ \A u \in Threads : ByInsert(u, e) => job'[u] = job[u]
      /\ \A u \in Threads : ByInsert(u, e)' <=> ByInsert(u, e)
      /\ \A u \in Threads : ByRemove(u, e)' <=> ByRemove(u, e)
      /\ \A u \in Threads : ByPush(u, e)' <=> ByPush(u, e)
      /\ \A u \in Threads : ByOff(u, e)' <=> ByOff(u, e)
  BY <1>2, <1>3 DEF ByInsert, ByRemove, ByPush, ByOff
<1>5. RetiredEntry(e)' <=> RetiredEntry(e)
  BY DEF RetiredEntry, Elsewhere
<1>6. SameOwner(e)
  BY <1>4, <1>5, Zenon DEF SameOwner, Elsewhere
<1>7. \A u \in Threads : Holding(u, e)' => Holding(u, e)
  <2>1. \A u \in Threads : job[u].pc = "value" => job[u].rec \in Records
    BY InHand
  <2> QED
    BY <1>2, <1>3, <2>1 DEF Holding, Elsewhere
<1>8. SameReaders(e)
  BY <1>7, Zenon DEF SameReaders, Elsewhere
<1> QED
  BY <1>1, <1>6, <1>8, SameOwned, SameSafe, Zenon DEF EntryInv

\* What the table leads to.
LEMMA TableLeads ==
    ASSUME Inv, NEW h \in Hashes, table[h] # None
    PROVE  Home(h) /\ table[h] \in Records /\ recs[table[h]].value \in Entries
<1>1. Home(h)
  BY Zenon DEF Inv, Tables
<1>2. table \in [Hashes -> Records \cup {None}] /\ recs \in [Records -> [flags : {0, 1}, value : Entries \cup {None}]]
  BY Zenon DEF Inv, Types
<1>3. table[h] \in Records
  BY <1>2
<1>4. recs[table[h]].value \in Entries \cup {None}
  BY <1>2, <1>3
<1> QED
  BY <1>1, <1>3, <1>4, Zenon DEF Home

\* A linked record and the key of its entry stay as they are.
LEMMA HomeKept ==
    ASSUME NEW h, Home(h), table'[h] = table[h], recs'[table[h]] = recs[table[h]],
           heap'[recs[table[h]].value].key = heap[recs[table[h]].value].key,
           RetiredRec(table[h])' => RetiredRec(table[h])
    PROVE  Home(h)'
BY Zenon DEF Home

\* So do all of them in a step that neither links nor unlinks.
LEMMA TablesKept ==
    ASSUME Inv, table' = table, KeysKept,
           \A h \in Hashes : table[h] # None => /\ recs'[table[h]] = recs[table[h]]
                                                /\ RetiredRec(table[h])' => RetiredRec(table[h])
    PROVE  Tables'
<1>1. ASSUME NEW h \in Hashes, table[h] # None PROVE Home(h)'
  <2>1. Home(h) /\ recs[table[h]].value \in Entries
    BY <1>1, TableLeads, Zenon
  <2>2. heap'[recs[table[h]].value].key = heap[recs[table[h]].value].key
    BY <2>1, Zenon DEF Home, KeysKept
  <2> QED
    BY <1>1, <2>1, <2>2, HomeKept, Zenon
<1> QED
  BY <1>1, Zenon DEF Inv, Tables

\* A record about to be linked stays so.
LEMMA ReadyKept ==
    ASSUME NEW u, Ready(u), job'[u] = job[u], recs'[job[u].rec] = recs[job[u].rec],
           table'[H(u)] = table[H(u)],
           LinkedRec(job[u].rec)' => LinkedRec(job[u].rec),
           RetiredRec(job[u].rec)' => RetiredRec(job[u].rec)
    PROVE  Ready(u)'
BY Zenon DEF Ready, H

\* No thread comes to link a record.
LEMMA LinkersKept ==
    ASSUME Inv, \A u \in Threads : job'[u].pc = "link" => job'[u] = job[u] /\ Ready(u)'
    PROVE  Links'
<1>1. Links
  BY Zenon DEF Inv
<1>2. ASSUME NEW u \in Threads, NEW w \in Threads, job'[u].pc = "link", job'[w].pc = "link", u # w
      PROVE  job'[u].rec # job'[w].rec /\ H(u)' # H(w)'
  <2>1. job'[u] = job[u] /\ job'[w] = job[w]
    BY <1>2, Zenon
  <2>2. job[u].rec # job[w].rec /\ H(u) # H(w)
    BY <1>1, <1>2, <2>1 DEF Links
  <2> QED
    BY <2>1, <2>2 DEF H
<1> QED
  BY <1>2, Zenon DEF Links

\* A step that links, unlinks and reclaims nothing.
LEMMA StoreKept ==
    ASSUME Inv, NEW t \in Threads, OnlyJob(t), UNCHANGED <<recs, table>>, KeysKept,
           \A r \in Records : RetiredRec(r)' <=> RetiredRec(r),
           job[t].pc # "link", job'[t].pc # "link"
    PROVE  Tables' /\ Links' /\ Named'
<1>1. Tables /\ Links /\ Named /\ Types
  BY DEF Inv
<1>2. \A u \in Threads : u # t => job'[u] = job[u]
  BY DEF OnlyJob
<1>3. \A h \in Hashes : table[h] # None => table[h] \in Records /\ recs[table[h]].value \in Entries \cup {None}
  BY <1>1 DEF Types
<1>4. Tables'
  BY <1>3, TablesKept, Zenon
<1>5. \A u \in Threads : job[u].pc = "link" => job[u].rec \in Records
  BY InHand
<1>6. Links'
  <2>1. ASSUME NEW u \in Threads, job'[u].pc = "link" PROVE job'[u] = job[u] /\ Ready(u)'
    <3>1. job'[u] = job[u] /\ job[u].pc = "link" /\ Ready(u)
      BY <1>1, <1>2, <2>1, Zenon DEF Links
    <3>2. LinkedRec(job[u].rec)' => LinkedRec(job[u].rec)
      BY <3>1, Zenon DEF LinkedRec
    <3> QED
      BY <1>5, <3>1, <3>2, ReadyKept, Zenon
  <2> QED
    BY <2>1, LinkersKept, Zenon
<1>7. Named'
  BY <1>1, <1>2 DEF Named, LinkedRec
<1> QED
  BY <1>4, <1>6, <1>7

\* What the other threads know of the store stays true.
LEMMA ThreadsKept ==
    ASSUME Inv, NEW t \in Threads, OnlyJob(t), UNCHANGED <<conf, table, destroyed>>, KeysKept, LinksKept,
           \A u \in Threads : u # t => (u \in pinned' <=> u \in pinned),
           Local(t)', MatchOf(t)', job'[t].pc # "push"
    PROVE  Locals' /\ Matches' /\ Pushes'
<1>1. \A u \in Threads : u # t => job'[u] = job[u]
  BY DEF OnlyJob
<1>2. Locals'
  <2>1. ASSUME NEW u \in Threads, u # t PROVE Local(u)'
    <3>1. Local(u) /\ job'[u] = job[u]
      BY <1>1, <2>1, Zenon DEF Inv, Locals
    <3> QED
      BY <2>1, <3>1, Zenon DEF Local
  <2> QED
    BY <2>1, Zenon DEF Locals
<1>3. ASSUME NEW u \in Threads, u # t PROVE MatchOf(u)'
  <2>1. MatchOf(u) /\ H(u)' = H(u) /\ job'[u] = job[u]
    BY <1>1, <1>3 DEF Inv, Matches, H
  <2>2. job[u].pc \in {"compare", "match", "unlink", "off", "retire"} => job[u].entry \in Entries /\ H(u) \in Hashes
    BY InHand DEF WithEntry, Inside, Finding, Removing
  <2> QED
    BY <2>1, <2>2, Zenon DEF MatchOf, KeysKept, LinksKept
<1>4. Matches'
  BY <1>3 DEF Matches
<1>5. \A u \in Threads : job[u].pc = "push" => job[u].entry \in Entries /\ H(u) \in Hashes
  BY InHand DEF WithEntry, Inserting
<1>6. \A u \in Threads : u # t => H(u)' = H(u)
  BY <1>1 DEF H
<1>7. Pushes'
  BY <1>1, <1>5, <1>6 DEF Inv, Pushes, LinksKept
<1> QED
  BY <1>2, <1>4, <1>7

\* Record r is given back.
Cleared(r) ==
    /\ recs' \in [Records -> [flags : {0, 1}, value : Entries \cup {None}]]
    /\ \A q \in Records : recs'[q].flags = recs[q].flags
    /\ recs'[r].value = None /\ \A q \in Records : q # r => recs'[q] = recs[q]

\* What is left of a record whose value is cleared.
LEMMA ClearedIs == ASSUME Types, NEW r \in Records, recs' = [recs EXCEPT ![r].value = None] PROVE Cleared(r)
BY DEF Types, Cleared

\* It is the one thread t was about to link.
LEMMA RecordReturned ==
    ASSUME Inv, NEW t \in Threads, OnlyJob(t), UNCHANGED <<table, retired>>, KeysKept,
           job[t].pc = "link", job'[t].pc # "link", Cleared(job[t].rec)
    PROVE  /\ Tables' /\ Links' /\ Named'
           /\ \A h \in Hashes, e \in Entries : ByTable(h, e)' <=> ByTable(h, e)
<1>1. PICK r \in Records : r = job[t].rec
  BY InHand
<1>2. /\ \A q \in Records : recs'[q].flags = recs[q].flags
      /\ recs'[r].value = None /\ \A q \in Records : q # r => recs'[q] = recs[q]
  BY <1>1 DEF Cleared
<1>3. Links /\ Tables /\ Named
  BY DEF Inv
<1>4. ~LinkedRec(r) /\ ~RetiredRec(r) /\ \A u \in Threads : u # t /\ job[u].pc = "link" => job[u].rec # r
  BY <1>1, <1>3, Zenon DEF Links, Ready
<1>5. \A h \in Hashes : table[h] # None => /\ table[h] \in Records /\ recs'[table[h]] = recs[table[h]]
                                           /\ recs[table[h]].value \in Entries \cup {None}
  BY <1>2, <1>4, Zenon DEF Inv, Types, LinkedRec
<1>6. \A h \in Hashes, e \in Entries : ByTable(h, e)' <=> ByTable(h, e)
  BY <1>5, Zenon DEF ByTable
<1>7. Tables'
  <2>1. \A q : RetiredRec(q)' <=> RetiredRec(q)
    BY Zenon DEF RetiredRec
  <2> QED
    BY <1>5, <2>1, TablesKept, Zenon
<1>8. \A u \in Threads : u # t => job'[u] = job[u]
  BY DEF OnlyJob
<1>9. \A u \in Threads : u # t /\ job[u].pc = "link" => job[u].rec \in Records /\ recs'[job[u].rec] = recs[job[u].rec]
  BY <1>2, <1>4, InHand, Zenon
<1>10. Links'
  <2>1. ASSUME NEW u \in Threads, job'[u].pc = "link" PROVE job'[u] = job[u] /\ Ready(u)'
    <3>1. u # t /\ job'[u] = job[u] /\ job[u].pc = "link" /\ Ready(u)
      BY <1>3, <1>8, <2>1, Zenon DEF Links
    <3>2. (LinkedRec(job[u].rec)' => LinkedRec(job[u].rec)) /\ (RetiredRec(job[u].rec)' => RetiredRec(job[u].rec))
      BY <3>1, Zenon DEF LinkedRec, RetiredRec
    <3> QED
      BY <1>9, <3>1, <3>2, ReadyKept, Zenon
  <2> QED
    BY <2>1, LinkersKept, Zenon
<1>11. Named'
  <2>1. \A q \in Records : (LinkedRec(q)' <=> LinkedRec(q)) /\ (RetiredRec(q)' <=> RetiredRec(q))
    BY DEF LinkedRec, RetiredRec
  <2> QED
    BY <1>1, <1>2, <1>3, <1>8, <2>1 DEF Named
<1> QED
  BY <1>6, <1>7, <1>10, <1>11

\* An entry that has been freed, or not been made, is no one's.
NoOnes(e) ==
    /\ heap[e].state # "used" /\ ~RetiredEntry(e) /\ ~OnList(e)
    /\ \A h \in Hashes : ~ByTable(h, e)
    /\ \A u \in Threads : ~ByInsert(u, e) /\ ~ByRemove(u, e) /\ ~Holding(u, e)

\* An entry that has no owner and no reader meets the invariant.
LEMMA NoOnesFine == ASSUME NEW e \in Entries, NoOnes(e)' PROVE EntryInv(e)'
<1>1. \A u \in Threads : ByOff(u, e)' => ByRemove(u, e)'
  BY DEF ByOff, ByRemove
<1>2. Owned(e)'
  BY Zenon DEF NoOnes, Owned, HasOwner, InsertOwns, TableOwns, RemoveOwns, RetiredOwns
<1>3. Listed(e)' /\ Safe(e)'
  BY <1>1, Zenon DEF NoOnes, Listed, Safe
<1> QED
  BY <1>2, <1>3 DEF EntryInv

----------------------------------------------------------------------------
(* The steps of an insert before it links its record. *)

\* An insert is refused, before it has a record or, where inserts fail late,
\* after: the entry was seen by no thread that could still read it.
LEMMA RefusedStep ==
    ASSUME Inv, NEW t \in Threads, Refused(t), UNCHANGED <<conf, table, list, retired, pinned, destroyed>>,
           \/ job[t].pc = "alloc" /\ UNCHANGED recs
           \/ job[t].pc = "link" /\ conf.fails /\ recs' = [recs EXCEPT ![job[t].rec].value = None]
    PROVE  Inv'
<1>1. PICK x \in Entries : x = job[t].entry
  BY InHand DEF WithEntry
<1>2. OnlyJob(t) /\ job'[t].op = job[t].op /\ job'[t].pc = "return" /\ job'[t].entry = None /\ job'[t].rec = None
  BY RefusedMoves, Zenon DEF Inv, Becomes, Moved, OnlyJob
<1>3. /\ heap' \in [Entries -> [state : {"unborn", "used", "freed"}, key : Keys \cup {None}, val : Values \cup {None}]]
      /\ heap'[x].state = "freed" /\ \A e \in Entries : heap'[e].key = heap[e].key /\ heap'[e].val = heap[e].val
      /\ \A e \in Entries : e # x => heap'[e] = heap[e]
  BY <1>1, FreeIs, Zenon DEF Inv, Refused
<1>4. KeysKept
  BY <1>3 DEF KeysKept
<1>5. /\ recs' \in [Records -> [flags : {0, 1}, value : Entries \cup {None}]]
      /\ \A q \in Records : recs'[q].value \in {None, recs[q].value}
      /\ Tables' /\ Links' /\ Named'
      /\ \A h \in Hashes, e \in Entries : ByTable(h, e)' <=> ByTable(h, e)
  <2>1. CASE job[t].pc = "alloc" /\ recs' = recs
    <3>1. Tables' /\ Links' /\ Named'
      BY <1>2, <1>4, <2>1, StoreKept DEF RetiredRec
    <3> QED
      BY <2>1, <3>1 DEF Inv, Types, ByTable
  <2>2. CASE job[t].pc = "link" /\ recs' = [recs EXCEPT ![job[t].rec].value = None]
    <3>1. Cleared(job[t].rec)
      BY <2>2, InHand, ClearedIs, Zenon DEF Inv
    <3> QED
      BY <1>2, <1>4, <2>2, <3>1, RecordReturned, Zenon DEF Cleared
  <2> QED
    BY <2>1, <2>2
<1>6. LinksKept
  BY <1>5 DEF LinksKept
<1>7. Types' /\ Apart' /\ Holders' /\ NodesOnce' /\ Once(list)'
  BY <1>2, <1>3, <1>5 DEF Inv, Types, Apart, Holders, NodesOnce, Once, OnlyJob
<1>8. job[t].op = "insert" /\ Local(t)
  BY Zenon DEF Inv, Locals, Local, Inserting
<1>9. Local(t)' /\ MatchOf(t)'
  BY <1>2, <1>8 DEF MatchOf, Local, Inserting, Finding, Removing, Scanning, Inside, WithEntry
<1>10. Locals' /\ Matches' /\ Pushes'
  BY <1>2, <1>4, <1>6, <1>9, ThreadsKept
<1>11. ByInsert(t, x) /\ EntryInv(x)
  BY <1>1 DEF ByInsert, Inv, Entrywise
<1>12. EntryInv(x)'
  <2>1. /\ \A u \in Threads : ByInsert(u, x) => u = t
        /\ \A u \in Threads : ~ByRemove(u, x) /\ ~ByOff(u, x)
        /\ \A h \in Hashes : ~ByTable(h, x)
        /\ ~RetiredEntry(x)
    BY <1>11 DEF EntryInv, Owned, InsertOwns, ByOff, ByRemove
  <2>2. ~OnList(x)
    BY <1>11, <2>1 DEF EntryInv, Listed
  <2>3. \A u \in Threads : ~Holding(u, x)
    BY <1>11 DEF EntryInv, Safe, Protected
  <2>4. \A u \in Threads : u # t => job'[u] = job[u]
    BY <1>2 DEF OnlyJob
  <2>5. \A u \in Threads : ~ByInsert(u, x)' /\ ~ByRemove(u, x)'
    BY <1>2, <2>1, <2>4 DEF ByInsert, ByRemove
  <2>6. \A u \in Threads : ~Holding(u, x)'
    <3>1. \A u \in Threads : job[u].pc = "value" => job[u].rec \in Records
      BY InHand
    <3> QED
      BY <1>2, <1>5, <2>3, <2>4, <3>1, NoneApart DEF Holding
  <2>7. NoOnes(x)'
    BY <1>3, <1>5, <2>1, <2>2, <2>5, <2>6 DEF NoOnes, RetiredEntry, OnList
  <2> QED
    BY <2>7, NoOnesFine
<1>13. Elsewhere(t, x)
  BY <1>1, <1>2, <1>3, <1>5, NoneApart DEF Elsewhere, OnList
<1>14. Entrywise'
  BY <1>12, <1>13, EntriesKept
<1> QED
  BY <1>5, <1>7, <1>10, <1>14 DEF Inv

\* A new entry, which no one knows yet, belongs to the thread inserting it.
LEMMA CallInsertKeeps == ASSUME Inv, NEW t \in Threads, CallInsert(t) PROVE Inv'
<1>1. PICK k \in conf.inserts[t], v \in Values, x \in Entries :
          /\ heap[x] = Unborn
          /\ heap' = [heap EXCEPT ![x] = [state |-> "used", key |-> k, val |-> v]]
          /\ job' = [job EXCEPT ![t] = [Idle EXCEPT !.op = "insert", !.pc = "alloc", !.key = k, !.val = v, !.entry = x]]
  BY Zenon DEF CallInsert
<1>2. /\ job[t] = Idle /\ ~destroyed
      /\ UNCHANGED <<conf, recs, table, list, retired, pinned, destroyed>>
  BY DEF CallInsert, Begin
<1>3. k \in Keys
  BY KvConstants DEF Inv, Types
<1>4. /\ OnlyJob(t)
      /\ job'[t].op = "insert" /\ job'[t].pc = "alloc" /\ job'[t].key = k /\ job'[t].val = v
      /\ job'[t].entry = x /\ job'[t].rec = None /\ job'[t].res = None
  <2>1. Types
    BY DEF Inv
  <2> QED
    BY <1>1, <1>3, <2>1, CallInsertMoves, Zenon
<1>5. job[t].pc = "idle" /\ job[t].entry = None /\ heap[x].state = "unborn" /\ heap[x].key = None
  BY <1>1, <1>2 DEF Idle, Unborn
<1>6. /\ heap' \in [Entries -> [state : {"unborn", "used", "freed"}, key : Keys \cup {None}, val : Values \cup {None}]]
      /\ heap'[x].state = "used" /\ heap'[x].key = k /\ heap'[x].val = v
      /\ \A e \in Entries : e # x => heap'[e] = heap[e]
  BY <1>1, <1>3 DEF Inv, Types
<1>7. KeysKept /\ LinksKept
  BY <1>2, <1>5, <1>6 DEF KeysKept, LinksKept, ByTable
<1>8. Types' /\ Apart' /\ Holders' /\ NodesOnce' /\ Once(list)'
  BY <1>2, <1>4, <1>6, Zenon DEF Inv, Types, Apart, Holders, NodesOnce, Once, OnlyJob
<1>9. Local(t)' /\ MatchOf(t)'
  <2>1. Local(t)
    BY DEF Inv, Locals
  <2> QED
    BY <1>2, <1>4, <1>5, <2>1, NoneApart, Zenon DEF MatchOf, Local, Inserting, Finding, Removing, Scanning, Inside, WithEntry
<1>10. Locals' /\ Matches' /\ Pushes'
  BY <1>2, <1>4, <1>7, <1>9, ThreadsKept, Zenon
<1>11. Tables' /\ Links' /\ Named'
  BY <1>2, <1>4, <1>5, <1>7, StoreKept, Zenon DEF RetiredRec
<1>12. EntryInv(x)'
  <2>1. EntryInv(x) /\ x # None
    BY NoneApart DEF Inv, Entrywise
  <2>2. /\ \A u \in Threads : ~ByInsert(u, x) /\ ~ByRemove(u, x) /\ ~ByOff(u, x)
        /\ \A h \in Hashes : ~ByTable(h, x)
        /\ ~RetiredEntry(x)
    BY <1>5, <2>1, Zenon DEF EntryInv, Owned, InsertOwns, TableOwns, RemoveOwns, RetiredOwns, ByOff, ByRemove
  <2>3. ~OnList(x) /\ \A u \in Threads : ~Holding(u, x)
    BY <1>5, <2>1, <2>2, Zenon DEF EntryInv, Listed, Safe, Protected
  <2>4. \A u \in Threads : u # t => job'[u] = job[u]
    BY <1>4 DEF OnlyJob
  <2>5. /\ \A u \in Threads : ByInsert(u, x)' <=> u = t
        /\ \A u \in Threads : ~ByRemove(u, x)' /\ ~ByOff(u, x)' /\ ~Holding(u, x)'
        /\ \A h \in Hashes : ~ByTable(h, x)'
        /\ ~RetiredEntry(x)' /\ ~OnList(x)'
    <3>1. \A u \in Threads : /\ ByInsert(u, x)' <=> u = t
                             /\ ~ByRemove(u, x)' /\ ~ByOff(u, x)' /\ ~Holding(u, x)'
      BY <1>2, <1>4, <2>2, <2>3, <2>4, Zenon DEF ByInsert, ByRemove, ByOff, Holding
    <3> QED
      BY <1>2, <2>2, <2>3, <3>1, Zenon DEF ByTable, RetiredEntry, OnList
  <2>6. Owned(x)'
    BY <1>4, <1>6, <2>5, Zenon DEF Owned, HasOwner, InsertOwns, TableOwns, RemoveOwns, RetiredOwns
  <2> QED
    BY <2>5, <2>6 DEF EntryInv, Listed, Safe
<1>13. Elsewhere(t, x)
  BY <1>2, <1>4, <1>5, <1>6, Zenon DEF Elsewhere, OnList, ByTable
<1>14. Entrywise'
  BY <1>12, <1>13, EntriesKept, Zenon
<1> QED
  BY <1>8, <1>10, <1>11, <1>14 DEF Inv

\* A record names the entry, and the thread may now link it: the record is
\* one that nobody uses, though a scan may be about to read its value.
LEMMA RecordStep ==
    ASSUME Inv, NEW t \in Threads, job[t].pc = "alloc", NEW r \in Records, r \notin InUse, NEW x \in Entries, job[t].entry = x,
           table[H(t)] = None, \A u \in Threads : job[u].pc = "link" => H(u) # H(t),
           recs' \in [Records -> [flags : {0, 1}, value : Entries \cup {None}]],
           recs'[r].flags = 0, recs'[r].value = x, \A q \in Records : q # r => recs'[q] = recs[q],
           Becomes(t, "link", x, r, job[t].res),
           UNCHANGED <<conf, heap, table, list, retired, pinned, destroyed>>
    PROVE  Inv'
<1>1. /\ OnlyJob(t) /\ job'[t].op = job[t].op /\ job'[t].key = job[t].key /\ job'[t].val = job[t].val
      /\ job'[t].pc = "link" /\ job'[t].entry = x /\ job'[t].rec = r
  BY Zenon DEF Becomes, Moved, OnlyJob
<1>2. \A u \in Threads : u # t => job'[u] = job[u]
  BY <1>1, Zenon DEF OnlyJob
<1>3. /\ ~LinkedRec(r) /\ ~RetiredRec(r)
      /\ \A u \in Threads : job[u].pc = "link" => job[u].rec # r
  <2>1. \A u \in Threads : job[u].pc = "link" => job[u].op = "insert"
    BY Zenon DEF Inv, Locals, Local, Inserting
  <2> QED
    BY <2>1, Zenon DEF InUse, IsRec, LinkedRec, RetiredRec
<1>4. \A h \in Hashes : table[h] # None => table[h] \in Records /\ recs'[table[h]] = recs[table[h]]
  BY <1>3, Zenon DEF Inv, Types, LinkedRec
<1>5. \A h \in Hashes, e \in Entries : ByTable(h, e)' <=> ByTable(h, e)
  BY <1>4, Zenon DEF ByTable
<1>6. KeysKept /\ LinksKept
  BY <1>5, Zenon DEF KeysKept, LinksKept
<1>7. \A q \in Records : (LinkedRec(q)' <=> LinkedRec(q)) /\ (RetiredRec(q)' <=> RetiredRec(q))
  BY DEF LinkedRec, RetiredRec
<1>8. Types' /\ Apart' /\ Holders' /\ NodesOnce' /\ Once(list)'
  BY <1>1 DEF Inv, Types, Apart, Holders, NodesOnce, Once, OnlyJob
<1>9. job[t].op = "insert" /\ job[t].key \in conf.inserts[t] /\ Local(t)
  BY Zenon DEF Inv, Locals, Local, Inserting
<1>10. Local(t)' /\ MatchOf(t)'
  BY <1>1, <1>9, NoneApart, Zenon DEF MatchOf, Local, Inserting, Finding, Removing, Scanning, Inside, WithEntry
<1>11. Locals' /\ Matches' /\ Pushes'
  BY <1>1, <1>6, <1>10, ThreadsKept, Zenon
<1>12. Tables'
  BY <1>4, <1>6, <1>7, TablesKept, Zenon
<1>13. Links'
  <2>1. Links
    BY Zenon DEF Inv
  <2>2. H(t)' = H(t) /\ \A u \in Threads : u # t => H(u)' = H(u)
    BY <1>1, <1>2, Zenon DEF H
  <2>3. \A u \in Threads : u # t /\ job[u].pc = "link" => job[u].rec \in Records /\ recs'[job[u].rec] = recs[job[u].rec]
    BY <1>3, InHand, Zenon
  <2>4. ASSUME NEW u \in Threads, job'[u].pc = "link" PROVE Ready(u)'
    <3>1. CASE u = t
      BY <1>1, <1>3, <1>7, <2>2, <3>1, Zenon DEF Ready
    <3>2. CASE u # t
      <4>1. job'[u] = job[u] /\ job[u].pc = "link" /\ Ready(u)
        BY <1>2, <2>1, <2>4, <3>2, Zenon DEF Links
      <4> QED
        BY <1>7, <2>3, <3>2, <4>1, ReadyKept, Zenon
    <3> QED
      BY <3>1, <3>2, Zenon
  <2>5. ASSUME NEW u \in Threads, NEW w \in Threads, job'[u].pc = "link", job'[w].pc = "link", u # w
        PROVE  job'[u].rec # job'[w].rec /\ H(u)' # H(w)'
    <3>1. CASE u = t
      <4>1. w # t /\ job'[w] = job[w] /\ H(w)' = H(w)
        BY <1>2, <2>2, <2>5, <3>1
      <4> QED
        BY <1>1, <1>3, <2>2, <2>5, <3>1, <4>1
    <3>2. CASE w = t
      <4>1. u # t /\ job'[u] = job[u] /\ H(u)' = H(u)
        BY <1>2, <2>2, <2>5, <3>2
      <4> QED
        BY <1>1, <1>3, <2>2, <2>5, <3>2, <4>1
    <3>3. CASE u # t /\ w # t
      <4>1. job'[u] = job[u] /\ job'[w] = job[w] /\ H(u)' = H(u) /\ H(w)' = H(w)
        BY <1>2, <2>2, <3>3
      <4>2. job[u].rec # job[w].rec /\ H(u) # H(w)
        BY <2>1, <2>5, <4>1 DEF Links
      <4> QED
        BY <4>1, <4>2
    <3> QED
      BY <3>1, <3>2, <3>3, Zenon
  <2> QED
    BY <2>4, <2>5, Zenon DEF Links
<1>14. Named'
  <2>1. Named
    BY Zenon DEF Inv
  <2> QED
    BY <1>1, <1>2, <1>3, <1>7, <2>1 DEF Named
<1>15. EntryInv(x)'
  <2>1. ByInsert(t, x) /\ EntryInv(x)
    BY Zenon DEF ByInsert, Inv, Entrywise
  <2>2. /\ heap[x].state = "used" /\ heap[x].key = job[t].key /\ heap[x].val = job[t].val
        /\ \A u \in Threads : ByInsert(u, x) => u = t
        /\ \A u \in Threads : ~ByRemove(u, x) /\ ~ByOff(u, x)
        /\ \A h \in Hashes : ~ByTable(h, x)
        /\ ~RetiredEntry(x)
    BY <2>1, Zenon DEF EntryInv, Owned, InsertOwns, ByOff, ByRemove
  <2>3. ~OnList(x) /\ \A u \in Threads : ~Holding(u, x)
    BY <2>1, <2>2, Zenon DEF EntryInv, Listed, Safe, Protected
  <2>4. \A u \in Threads : (ByInsert(u, x)' <=> u = t) /\ ~ByRemove(u, x)' /\ ~ByOff(u, x)'
    BY <1>1, <1>2, <2>2, Zenon DEF ByInsert, ByRemove, ByOff
  <2>5. (\A h \in Hashes : ~ByTable(h, x)') /\ ~RetiredEntry(x)' /\ ~OnList(x)'
    BY <1>5, <2>2, <2>3, Zenon DEF RetiredEntry, OnList
  <2>6. Owned(x)'
    BY <1>1, <2>2, <2>4, <2>5, Zenon DEF Owned, HasOwner, InsertOwns, TableOwns, RemoveOwns, RetiredOwns
  <2>7. ASSUME NEW u \in Threads, Holding(u, x)' PROVE Protected(u, x)'
    <3>1. u # t /\ job[u].pc = "value"
      BY <1>1, <1>2, <2>3, <2>7, InHand, Zenon DEF Holding
    <3>2. job[u].key \in conf.scans[u]
      BY <3>1, Zenon DEF Inv, Locals, Local, Scanning
    <3>3. ~conf.fails
      <4>1. KeptApart(conf)
        BY Zenon DEF Inv, Apart
      <4> QED
        BY <1>9, <3>1, <3>2, <4>1 DEF KeptApart
    <3> QED
      BY <1>1, <2>2, <2>4, <2>5, <3>3, Zenon DEF Protected, RetiredEntry
  <2>8. Safe(x)'
    BY <2>7 DEF Safe
  <2> QED
    BY <2>4, <2>5, <2>6, <2>8, Zenon DEF EntryInv, Listed
<1>16. Elsewhere(t, x)
  BY <1>1, <1>5, Zenon DEF Elsewhere, OnList
<1>17. Entrywise'
  BY <1>15, <1>16, EntriesKept
<1> QED
  BY <1>8, <1>11, <1>12, <1>13, <1>14, <1>17 DEF Inv

\* Taking a record keeps the invariant.
LEMMA InsertRecordKeeps == ASSUME Inv, NEW t \in Threads, InsertRecord(t) PROVE Inv'
<1>1. /\ job[t].pc = "alloc" /\ \A u \in Threads : job[u].pc = "link" => H(u) # H(t)
      /\ UNCHANGED <<conf, table, list, retired, pinned, destroyed>>
  BY DEF InsertRecord
<1>2. CASE table[H(t)] # None
  <2>1. Refused(t) /\ recs' = recs
    BY <1>2 DEF InsertRecord
  <2> QED
    BY <1>1, <2>1, RefusedStep, Zenon
<1>3. CASE table[H(t)] = None
  <2>1. PICK r \in Records \ InUse :
            /\ recs' = [recs EXCEPT ![r] = [flags |-> 0, value |-> job[t].entry]]
            /\ job' = [job EXCEPT ![t].pc = "link", ![t].rec = r]
            /\ UNCHANGED heap
    BY <1>3, Zenon DEF InsertRecord
  <2>2. PICK x \in Entries : x = job[t].entry
    BY <1>1, InHand DEF WithEntry
  <2>3. Becomes(t, "link", x, r, job[t].res)
    BY <2>1, <2>2, InsertRecordMoves, Zenon DEF Inv
  <2>4. /\ recs' \in [Records -> [flags : {0, 1}, value : Entries \cup {None}]]
        /\ recs'[r].flags = 0 /\ recs'[r].value = x /\ \A q \in Records : q # r => recs'[q] = recs[q]
    BY <2>1, <2>2 DEF Inv, Types
  <2> QED
    BY <1>1, <1>3, <2>1, <2>2, <2>3, <2>4, RecordStep
<1> QED
  BY <1>2, <1>3

\* An insert that fails keeps it.
LEMMA InsertFailsKeeps == ASSUME Inv, NEW t \in Threads, InsertFails(t) PROVE Inv'
BY RefusedStep, Zenon DEF InsertFails

\* htc_insert starts again: the record is given back.
LEMMA InsertRetryKeeps == ASSUME Inv, NEW t \in Threads, InsertRetry(t) PROVE Inv'
<1>1. /\ job[t].pc = "link" /\ conf.fails
      /\ UNCHANGED <<conf, heap, table, list, retired, pinned, destroyed>>
  BY DEF InsertRetry
<1>2. PICK x \in Entries, r \in Records : x = job[t].entry /\ r = job[t].rec
  BY <1>1, InHand DEF WithEntry
<1>3. /\ OnlyJob(t)
      /\ job'[t].op = job[t].op /\ job'[t].key = job[t].key /\ job'[t].val = job[t].val
      /\ job'[t].pc = "alloc" /\ job'[t].entry = x /\ job'[t].rec = None
  BY <1>2, InsertRetryMoves, Zenon DEF Inv, Becomes, Moved, OnlyJob
<1>4. Cleared(r)
  BY <1>2, ClearedIs, Zenon DEF Inv, InsertRetry
<1>5. KeysKept
  BY <1>1 DEF KeysKept
<1>6. /\ Tables' /\ Links' /\ Named'
      /\ \A h \in Hashes, e \in Entries : ByTable(h, e)' <=> ByTable(h, e)
  BY <1>1, <1>2, <1>3, <1>4, <1>5, RecordReturned, Zenon
<1>7. LinksKept
  BY <1>6 DEF LinksKept
<1>8. Types' /\ Apart' /\ Holders' /\ NodesOnce' /\ Once(list)'
  BY <1>1, <1>3, <1>4, Zenon DEF Inv, Types, Apart, Holders, NodesOnce, Once, OnlyJob, Cleared
<1>9. Local(t)' /\ MatchOf(t)'
  <2>1. Local(t)
    BY DEF Inv, Locals
  <2> QED
    BY <1>1, <1>3, <2>1, NoneApart, Zenon DEF MatchOf, Local, Inserting, Finding, Removing, Scanning, Inside, WithEntry
<1>10. Locals' /\ Matches' /\ Pushes'
  BY <1>1, <1>3, <1>5, <1>7, <1>9, ThreadsKept, Zenon
<1>11. EntryInv(x)'
  <2>1. EntryInv(x)
    BY DEF Inv, Entrywise
  <2>2. \A u \in Threads : u # t => job'[u] = job[u]
    BY <1>3 DEF OnlyJob
  <2>3. ByInsert(t, x) /\ \A u \in Threads : ByInsert(u, x) => u = t
    BY <1>1, <1>2, <2>1, Zenon DEF EntryInv, Owned, InsertOwns, ByInsert
  <2>4. \A u \in Threads : ~Holding(u, x)
    BY <1>1, <2>1, <2>3, Zenon DEF EntryInv, Safe, Protected
  <2>5. \A u \in Threads : ~Holding(u, x)'
    <3>1. \A u \in Threads : job[u].pc = "value" => job[u].rec \in Records
      BY InHand
    <3> QED
      BY <1>3, <1>4, <2>2, <2>4, <3>1, NoneApart DEF Holding, Cleared
  <2>6. \A u \in Threads : /\ ByInsert(u, x)' <=> ByInsert(u, x)
                           /\ ByRemove(u, x)' <=> ByRemove(u, x)
                           /\ ByPush(u, x)' <=> ByPush(u, x)
                           /\ ByOff(u, x)' <=> ByOff(u, x)
    BY <1>1, <1>2, <1>3, <2>2, Zenon DEF ByInsert, ByRemove, ByPush, ByOff
  <2>7. (RetiredEntry(x)' <=> RetiredEntry(x)) /\ (OnList(x)' <=> OnList(x))
    BY <1>1 DEF RetiredEntry, OnList
  <2>8. HasOwner(x)' /\ TableOwns(x)' /\ RemoveOwns(x)' /\ RetiredOwns(x)'
    BY <1>1, <1>6, <2>1, <2>6, <2>7, Zenon DEF EntryInv, Owned, HasOwner, TableOwns, RemoveOwns, RetiredOwns
  <2>9. InsertOwns(x)'
    BY <1>1, <1>3, <1>6, <2>1, <2>3, <2>6, <2>7, Zenon DEF EntryInv, Owned, InsertOwns
  <2>10. Listed(x)'
    BY <1>6, <2>1, <2>6, <2>7 DEF EntryInv, Listed
  <2> QED
    BY <2>5, <2>8, <2>9, <2>10 DEF EntryInv, Owned, Safe
<1>12. Elsewhere(t, x)
  <2>1. \A q \in Records, e \in Entries : e # x /\ recs'[q].value = e => recs[q].value = e
    BY <1>4, NoneApart DEF Cleared
  <2>2. \A e \in Entries : OnList(e)' <=> OnList(e)
    BY <1>1 DEF OnList
  <2> QED
    BY <1>1, <1>2, <1>3, <1>6, <2>1, <2>2, Zenon DEF Elsewhere
<1>13. Entrywise'
  BY <1>11, <1>12, EntriesKept
<1> QED
  BY <1>6, <1>8, <1>10, <1>13 DEF Inv
=============================================================================
