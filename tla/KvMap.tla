------------------------------- MODULE KvMap -------------------------------
(***************************************************************************)
(* What the key-value store promises its clients (include/draugr/htc_kv.h):*)
(* a map, and calls that take effect at one instant before they return.    *)
(* An insert may be refused (the key, or one with its hash, is there, or   *)
(* there is no room), a remove may be refused when the table grows.        *)
(***************************************************************************)
CONSTANTS Threads, Keys, Values, None

VARIABLES map,      \* key -> value or None
          call      \* thread -> the call it is in
vars == <<map, call>>

Idle == [op |-> "idle", key |-> None, val |-> None, res |-> None]

\* whatever the store holds when the calls begin
Init == map \in [Keys -> Values \cup {None}] /\ call = [t \in Threads |-> Idle]

Start(t) ==
    /\ call[t] = Idle
    /\ \E op \in {"insert", "remove", "find"}, k \in Keys, v \in Values \cup {None} :
          call' = [call EXCEPT ![t] = [op |-> op, key |-> k, val |-> v, res |-> None]]
    /\ UNCHANGED map

Pending(t, op) == call[t].op = op /\ call[t].res = None
Answer(t, r) == call' = [call EXCEPT ![t].res = r]

Insert(t) ==
    /\ Pending(t, "insert")
    /\ map[call[t].key] = None
    /\ map' = [map EXCEPT ![call[t].key] = call[t].val]
    /\ Answer(t, <<call[t].val>>)

Remove(t) ==
    /\ Pending(t, "remove")
    /\ map[call[t].key] # None
    /\ map' = [map EXCEPT ![call[t].key] = None]
    /\ Answer(t, <<>>)

Refuse(t) ==
    /\ Pending(t, "insert") \/ Pending(t, "remove")
    /\ Answer(t, "refused")
    /\ UNCHANGED map

\* the value the key has at that instant
Find(t) ==
    /\ Pending(t, "find")
    /\ Answer(t, <<map[call[t].key]>>)
    /\ UNCHANGED map

Return(t) ==
    /\ call[t].res # None
    /\ call' = [call EXCEPT ![t] = Idle]
    /\ UNCHANGED map

\* The store is destroyed while no call is under way.
Destroy ==
    /\ \A t \in Threads : call[t] = Idle
    /\ map' = [k \in Keys |-> None]
    /\ UNCHANGED call

Next == Destroy \/ \E t \in Threads : Start(t) \/ Insert(t) \/ Remove(t) \/ Refuse(t) \/ Find(t) \/ Return(t)

Spec == Init /\ [][Next]_vars
=============================================================================
