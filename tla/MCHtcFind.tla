------------------------------ MODULE MCHtcFind ------------------------------
EXTENDS HtcFind, TLC

CONSTANTS k1, k2, k3, r1

Home(b1, b2, tag) == [b1 |-> b1, b2 |-> b2, tag |-> tag]
Table(front, reclaim, place, writes, calls, maxops) ==
    [front |-> front, reclaim |-> reclaim, filter |-> 3, place |-> place,
     spilled |-> NoKey, oom |-> FALSE, writes |-> writes, calls |-> calls, ops |-> maxops]

\* k1 and k2 have one tag and the same buckets, k3 has its primary bucket
\* with them: two entries in secondary buckets bring remap_count to its limit.
Spread == k1 :> Home(0, 1, 1) @@ k2 :> Home(0, 1, 1) @@ k3 :> Home(0, 2, 2)

\* Three keys for two buckets: one goes to the stash.
Crowded == k1 :> Home(0, 1, 1) @@ k2 :> Home(0, 1, 1) @@ k3 :> Home(1, 0, 2)

\* k2 and k3 have one bucket each, and displace k1 into the other one: out of
\* its primary bucket or back into it.
Displacing == k1 :> Home(0, 1, 1) @@ k2 :> Home(0, 0, 1) @@ k3 :> Home(1, 1, 2)

\* The front cache is on in the table whose records are never freed.  The
\* last table was grown and k3 spilled; its free list may be refused memory.
SpreadTable ==
    Table(FALSE, TRUE, Spread, [insert |-> Keys, remove |-> Keys], [find |-> {k3}], 5)
SpilledTable ==
    [Table(FALSE, TRUE, Crowded,
           [insert |-> {k1, k2}, upsert |-> {k3}, remove |-> {k1, k3}],
           [find |-> {k3}, update |-> {k1}], 3)
     EXCEPT !.spilled = k3, !.oom = TRUE]
Tables ==
    {SpreadTable,
     Table(FALSE, TRUE, Crowded, [insert |-> Keys, upsert |-> {k2, k3}, remove |-> Keys],
           [find |-> {k3}, update |-> {k2}], 4),
     Table(TRUE, FALSE, Displacing, [insert |-> Keys, remove |-> Keys], [find |-> {k1}], 4),
     SpilledTable}

\* Tables in which FindAgrees fails: with the front cache and reclamation,
\* and with a filter that holds one key.  UpdateAgrees fails when the key
\* updated is the one that spilled, RecordsAccounted when it is inserted anew.
Cached ==
    {Table(TRUE, TRUE, Crowded, [insert |-> Keys, remove |-> Keys], [find |-> {k1}], 5)}
UpdateSpilled == {[SpilledTable EXCEPT !.calls = [update |-> {k3}]]}
InsertSpilled == {[SpilledTable EXCEPT !.writes = [insert |-> {k3}]]}
FilterFull == {[SpreadTable EXCEPT !.filter = 1]}
OneTable == {SpreadTable}

\* A reader compares a sequence number with the one it loaded, and reads the
\* generation of a record through its cache only: states that agree in that
\* and in everything else have the same future.
SeqView == [b \in BucketsOf(conf) |-> <<Quiet(b), {r \in Readers : seq[b] = rd[r].s0}>>]
RecView == [i \in Records |-> [recs[i] EXCEPT !.generation = IF conf.front THEN @ ELSE 0]]
ReaderView == [r \in Readers |-> [rd[r] EXCEPT !.s0 = 0, !.gen = IF conf.front THEN @ ELSE 0]]
View == <<conf, slot, ctrl, SeqView, remap_count, remap_filter, stash, live_count, RecView,
          freelist, count, retired, filter, writer, ReaderView,
          IF conf.front THEN cache ELSE <<>>, rec_of, saw>>
=============================================================================
