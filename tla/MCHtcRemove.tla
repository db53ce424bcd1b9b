---------------------------- MODULE MCHtcRemove -----------------------------
(***************************************************************************)
(* HtcWriters with a history variable: whether the key a thread is         *)
(* removing has been absent, or still on its way in, at some instant of    *)
(* the call.                                                               *)
(***************************************************************************)
EXTENDS MCHtcWriters

VARIABLE missing

Settled(k) == Findable(Current, k) /\ \A u \in Threads : op[u] \in {"insert", "upsert"} => key[u] # k

HistoryInit == Init /\ missing = [t \in Threads |-> FALSE]

HistoryNext ==
    /\ Next
    /\ missing' = [t \in Threads |->
          /\ op'[t] = "remove"
          /\ missing[t] \/ ~ Settled(key[t])']

HistorySpec == HistoryInit /\ [][HistoryNext]_<<vars, missing>>

\* htc_remove answers NOT_FOUND ("key not present") only if the key was
\* not settled in the table at some instant between call and return.
NotFoundIsAbsent ==
    \A t \in Threads : op[t] = "remove" /\ result[t] = "NOT_FOUND" => missing[t]
=============================================================================
