------------------------------ MODULE MCArena ------------------------------
EXTENDS Arena, TLC

CONSTANTS t1, t2, a1, a2, p1, p2

Client(threads, arenas, sizes, calls, flush, n) ==
    [threads |-> threads, arenas |-> arenas, sizes |-> sizes, calls |-> calls, flush |-> flush,
     oom |-> FALSE, ops |-> n]

TwoClasses == <<2, 4>>

\* Two threads race for the three slots of a segment, and for slabs.
Racing == Client({t1, t2}, {a1}, {3, 6}, {"alloc", "free"}, TRUE, 4)
\* One thread makes every call; blocks move from cache to list to page.
Sequential == Client({t1}, {a1}, {1, 2, 6, 7},
                     {"alloc", "free", "realloc", "defer", "flush", "clear", "compact", "destroy", "create", "exit"},
                     TRUE, 5)
\* A thread uses two arenas; neither is ever cleared or destroyed.
TwoArenas == Client({t1}, {a1, a2}, {1, 6}, {"alloc", "free"}, TRUE, 6)

\* Segments that were not mapped, threads without a cache, arenas that are
\* not made for want of memory.
Refused == [Client({t1}, {a1}, {1, 6}, {"alloc", "free", "destroy", "create"}, TRUE, 5) EXCEPT !.oom = TRUE]

Clients == {Racing, Sequential, TwoArenas, Refused}

\* Clients for which Exclusive fails: blocks are deferred when an arena is
\* cleared; a second arena is cleared.  One for which NoFreeIgnored fails.
ClearsDeferred == {Client({t1}, {a1}, {6}, {"alloc", "defer", "flush", "clear"}, FALSE, 6)}
Compacts == {Client({t1}, {a1}, {6}, {"alloc", "free", "compact"}, TRUE, 5)}
ClearsOther == {Client({t1}, {a1, a2}, {1}, {"alloc", "free", "clear"}, TRUE, 6)}
=============================================================================
