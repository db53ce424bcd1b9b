------------------------------- MODULE HtcMap -------------------------------
(***************************************************************************)
(* What the concurrent table promises its clients (include/draugr/htc.h,   *)
(* "Public API contract"): a set of keys, and calls that each take effect  *)
(* at one instant between their start and their return.                    *)
(***************************************************************************)
EXTENDS Integers

CONSTANTS Threads, Keys, Ops, MaxOps, NoKey

VARIABLES
    present,            \* the keys in the table
    op, key, result,    \* the call a thread is in; "none": no answer yet
    ops

vars == <<present, op, key, result, ops>>

Init ==
    /\ present = {}
    /\ op = [t \in Threads |-> "none"]
    /\ key = [t \in Threads |-> NoKey]
    /\ result = [t \in Threads |-> "none"]
    /\ ops = 0

Call(t, o, k) ==
    /\ op[t] = "none"
    /\ ops < MaxOps
    /\ ops' = ops + 1
    /\ op' = [op EXCEPT ![t] = o]
    /\ key' = [key EXCEPT ![t] = k]
    /\ UNCHANGED <<present, result>>

Pending(t, o) == op[t] = o /\ result[t] = "none"
Answer(t, r) == result' = [result EXCEPT ![t] = r] /\ UNCHANGED <<op, key, ops>>

InsertNew(t) ==
    /\ Pending(t, "insert")
    /\ key[t] \notin present
    /\ present' = present \cup {key[t]}
    /\ Answer(t, "OK")

InsertDuplicate(t) ==
    /\ Pending(t, "insert")
    /\ key[t] \in present
    /\ Answer(t, "DUPLICATE")
    /\ UNCHANGED present

\* afterwards the key is in the table, whether it was before or not
Upsert(t) ==
    /\ Pending(t, "upsert")
    /\ present' = present \cup {key[t]}
    /\ Answer(t, "OK")

\* a failed insert or upsert leaves the table as it was
InsertFails(t) ==
    /\ Pending(t, "insert") \/ Pending(t, "upsert")
    /\ \E r \in {"OOM", "PATHOLOGICAL"} : Answer(t, r)
    /\ UNCHANGED present

RemovePresent(t) ==
    /\ Pending(t, "remove")
    /\ key[t] \in present
    /\ present' = present \ {key[t]}
    /\ Answer(t, "OK")

\* NOT_FOUND also answers a remove that met a grow, present key or not
RemoveMiss(t) ==
    /\ Pending(t, "remove")
    /\ Answer(t, "NOT_FOUND")
    /\ UNCHANGED present

Return(t) ==
    /\ result[t] # "none"
    /\ op' = [op EXCEPT ![t] = "none"]
    /\ key' = [key EXCEPT ![t] = NoKey]
    /\ result' = [result EXCEPT ![t] = "none"]
    /\ UNCHANGED <<present, ops>>

Next == \E t \in Threads :
    \/ \E o \in Ops, k \in Keys : Call(t, o, k)
    \/ InsertNew(t) \/ InsertDuplicate(t) \/ InsertFails(t) \/ Upsert(t)
    \/ RemovePresent(t) \/ RemoveMiss(t) \/ Return(t)

Spec == Init /\ [][Next]_vars
=============================================================================
