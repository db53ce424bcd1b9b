----------------------------- MODULE HtMultimap -----------------------------
(***************************************************************************)
(* What ht.h promises: how often each key-value pair is held, and          *)
(* operations on all the pairs of a key.  answer is the last call: which   *)
(* operation, its arguments, "ok", "updated" or "failed", the number it    *)
(* returned, and what memory it was refused (starved: any; short: room to  *)
(* list the pairs of the key).  Calls alternate in turn, so that none is   *)
(* taken for a stuttering step.                                            *)
(***************************************************************************)
EXTENDS Integers, Functions

CONSTANTS
    Keys, Vals,
    NoKey, NoInt,   \* not a key, not an integer
    Bump(_, _)      \* the value a counter takes when it is incremented

VARIABLES held, answer

vars == <<held, answer>>

Pairs == Keys \X Vals
Absent(k) == \A v \in Vals : held[<<k, v>>] = 0
Total(k) == FoldFunction(+, 0, [v \in Vals |-> held[<<k, v>>]])

Init ==
    /\ held = [p \in Pairs |-> 0]
    /\ answer = [turn |-> 0, op |-> "create", key |-> NoKey, arg |-> NoKey, res |-> "ok", n |-> 0,
                 starved |-> FALSE, short |-> FALSE]

Says(r, n) == answer'.res = r /\ answer'.n = n

\* of the pairs p \in S there are as many as P says, of the others as many as before
Held(S, P(_)) == \A p \in Pairs : IF p \in S THEN P(p) ELSE held'[p] = held[p]
Of(k) == {k} \X Vals
\* all the pairs of S are gone; without room to list them, perhaps not all
Gone(S) == Held(S, LAMBDA p : held'[p] = 0 \/ (answer'.short /\ held'[p] \in 0 .. held[p]))

Fail == Says("failed", 0) /\ UNCHANGED held

\* always adds
Insert(k, v) == Says("ok", 0) /\ held' = [held EXCEPT ![<<k, v>>] = @ + 1]

\* replaces the pairs of the key by one
Replace(k, v) ==
    Held(Of(k), LAMBDA p : IF p = <<k, v>>
                           THEN held'[p] = 1 \/ (answer'.short /\ held'[p] \in 1 .. held[p] + 1)
                           ELSE held'[p] = 0 \/ (answer'.short /\ held'[p] \in 0 .. held[p]))
Upsert(k, v) == Says(IF Absent(k) THEN "ok" ELSE "updated", 0) /\ Replace(k, v)

\* adds unless the pair exists
Unsert(k, v) ==
    \/ held[<<k, v>>] = 0 /\ Insert(k, v)
    \/ held[<<k, v>>] > 0 /\ Says("updated", 0) /\ UNCHANGED held

\* returns what one of the values of the key becomes, and stores that; ht_inc,
\* which cannot say that it failed, may not have stored it
IncTo(k, v) ==
    /\ Says("ok", v)
    /\ \/ Replace(k, v)
       \/ answer'.op = "inc" /\ (answer'.starved \/ \A j \in Keys : Absent(j)) /\ UNCHANGED held
Inc(k, d) ==
    \/ Absent(k) /\ IncTo(k, Bump(NoInt, d))
    \/ \E v \in Vals : held[<<k, v>>] > 0 /\ IncTo(k, Bump(v, d))

Remove(k) == Says("ok", Total(k) - Total(k)') /\ Gone(Of(k))

RemoveKv(k, v) == Says("ok", held[<<k, v>>] - held'[<<k, v>>]) /\ Gone({<<k, v>>})

RemoveKvOne(k, v) ==
    \/ held[<<k, v>>] > 0 /\ Says("ok", 1) /\ held' = [held EXCEPT ![<<k, v>>] = @ - 1]
    \/ (held[<<k, v>>] = 0 \/ answer'.short) /\ Says("ok", 0) /\ UNCHANGED held

Clear == Says("ok", 0) /\ held' = [p \in Pairs |-> 0]

\* a call that reorganises the table loses nothing
Reorganise == (Fail \/ Says("ok", 0)) /\ UNCHANGED held

\* the operation called, on its arguments
Operation(op, k, x) ==
    \/ op = "insert" /\ (Insert(k, x) \/ Fail)
    \/ op = "upsert" /\ (Upsert(k, x) \/ Fail)
    \/ op = "unsert" /\ (Unsert(k, x) \/ Fail)
    \/ op = "inc" /\ Inc(k, x)
    \/ op = "inc_with_hash" /\ (Inc(k, x) \/ Fail)
    \/ op = "remove" /\ Remove(k)
    \/ op = "remove_kv" /\ RemoveKv(k, x)
    \/ op = "remove_kv_one" /\ RemoveKvOne(k, x)
    \/ op = "clear" /\ Clear
    \/ op \in {"resize", "compact"} /\ Reorganise

Next ==
    /\ answer'.turn = 1 - answer.turn
    /\ \E op \in {answer'.op}, k \in {answer'.key}, x \in {answer'.arg} : Operation(op, k, x)

Spec == Init /\ [][Next]_vars
=============================================================================
