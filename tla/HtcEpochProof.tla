---------------------------- MODULE HtcEpochProof ----------------------------
(* Type correctness of HtcEpoch, and its accounting: an unlinked object is *)
(* on exactly one list or in exactly one hand until it is freed.           *)
EXTENDS HtcEpoch, TLAPS

USE EpochConstants, SMTT(30), ZenonT(30)   \* the provers may take 30 seconds a step
USE DEF shared, reader, collector, counts, Goto

\* The initial states have the types of TypeOK.
LEMMA TypeInit ==
    InitTable /\ tid \in [Threads -> 0 .. NumSlots] => TypeOK
BY DEF InitTable, TypeOK, Slots, Objs, Kinds, NoSlot, Labels

\* Publishing an epoch, through the store buffer or not, keeps the types.
LEMMA StoreEpochType ==
    ASSUME TypeOK, NEW t \in Threads, NEW e \in Nat, tid[t] \in Slots,
           StoreEpoch(t, e)
    PROVE  thread_epoch' \in [Slots -> Nat] /\ buffer' \in [Threads -> SUBSET Store]
<1>1. [slot |-> tid[t], epoch |-> e] \in Store
  BY DEF Store
<1>2. CASE buffer' = [buffer EXCEPT ![t] = {[slot |-> tid[t], epoch |-> e]}]
           /\ UNCHANGED thread_epoch
  BY <1>1, <1>2 DEF TypeOK
<1>3. CASE thread_epoch' = [thread_epoch EXCEPT ![tid[t]] = e] /\ UNCHANGED buffer
  BY <1>3 DEF TypeOK
<1>q. QED
  BY <1>2, <1>3 DEF StoreEpoch

\* What follows a retirement, a collection or nothing, keeps the types of the
\* collector's variables and leaves the label "push".
LEMMA AfterRetireType ==
    ASSUME TypeOK, NEW t \in Threads, AfterRetire(t)
    PROVE  /\ scan' \in [Threads -> 0 .. NumSlots]
           /\ min_ep' \in [Threads -> Nat \cup {UINT64_MAX}]
           /\ phase' \in [Threads -> Kinds]
           /\ \E l \in {"scan", "idle"} : pc' = [pc EXCEPT ![t] = l]
<1>1. /\ scan \in [Threads -> 0 .. NumSlots] /\ min_ep \in [Threads -> Nat \cup {UINT64_MAX}]
      /\ phase \in [Threads -> Kinds]
  BY Zenon DEF TypeOK
<1>2. CASE StartCollect(t)
  <2>1. /\ scan' = [scan EXCEPT ![t] = 0] /\ min_ep' = [min_ep EXCEPT ![t] = UINT64_MAX]
        /\ phase' = [phase EXCEPT ![t] = "rec"] /\ pc' = [pc EXCEPT ![t] = "scan"]
    BY <1>2, Zenon DEF StartCollect
  <2>2. scan' \in [Threads -> 0 .. NumSlots]
    BY <1>1, <2>1
  <2>3. min_ep' \in [Threads -> Nat \cup {UINT64_MAX}]
    BY <1>1, <2>1
  <2>4. phase' \in [Threads -> Kinds]
    BY <1>1, <2>1 DEF Kinds
  <2>q. QED
    BY <2>1, <2>2, <2>3, <2>4, Zenon
<1>3. CASE pc' = [pc EXCEPT ![t] = "idle"] /\ UNCHANGED <<scan, min_ep, phase>>
  <2>1. scan' = scan /\ min_ep' = min_ep /\ phase' = phase /\ pc' = [pc EXCEPT ![t] = "idle"]
    BY <1>3
  <2>q. QED
    BY <1>1, <2>1, Zenon
<1>q. QED
  BY <1>2, <1>3, Zenon DEF AfterRetire

\* A thread that leaves "push" for "scan" or "idle" with nothing left to
\* retire keeps the relations between label, target and slot.
LEMMA PushLeft ==
    ASSUME TypeOK, NEW t \in Threads, NEW l \in {"scan", "idle"},
           pc' = [pc EXCEPT ![t] = l], target' = [target EXCEPT ![t] = None], tid' = tid
    PROVE  /\ pc' \in [Threads -> Labels]
           /\ target' \in [Threads -> Objs \cup {None}]
           /\ \A u \in Threads : target'[u] # None <=> pc'[u] \in {"retire", "push"}
           /\ \A u \in Threads : pc'[u] \in {"pin_load", "pin_store"} => tid'[u] # NoSlot
<1>1. /\ pc \in [Threads -> Labels] /\ target \in [Threads -> Objs \cup {None}]
      /\ \A u \in Threads : target[u] # None <=> pc[u] \in {"retire", "push"}
      /\ \A u \in Threads : pc[u] \in {"pin_load", "pin_store"} => tid[u] # NoSlot
  BY Zenon DEF TypeOK
<1>2. pc' \in [Threads -> Labels]
  BY <1>1 DEF Labels
<1>3. target' \in [Threads -> Objs \cup {None}]
  BY <1>1
<1>4. \A u \in Threads : target'[u] # None <=> pc'[u] \in {"retire", "push"}
  BY <1>1
<1>5. \A u \in Threads : pc'[u] \in {"pin_load", "pin_store"} => tid'[u] # NoSlot
  BY <1>1
<1>q. QED
  BY <1>2, <1>3, <1>4, <1>5, Zenon

\* Every atomic step of the epoch protocol keeps the types.
LEMMA TypeStep ==
    TypeOK /\ [Next]_vars => TypeOK'
<1> SUFFICES ASSUME TypeOK, [Next]_vars PROVE TypeOK'
  OBVIOUS
<1> USE DEF TypeOK
<1>1. ASSUME NEW t \in Threads, PinStart(t) PROVE TypeOK'
  <2>1. pc' \in [Threads -> Labels]
    BY <1>1 DEF PinStart, Labels
  <2>2. scan' \in [Threads -> 0 .. NumSlots]
    BY <1>1 DEF PinStart
  <2>3. \A u \in Threads : target'[u] # None <=> pc'[u] \in {"retire", "push"}
    BY <1>1 DEF PinStart, Labels
  <2>4. \A u \in Threads : pc'[u] \in {"pin_load", "pin_store"} => tid'[u] # NoSlot
    BY <1>1 DEF PinStart, Labels
  <2>q. QED
    BY <1>1, <2>1, <2>2, <2>3, <2>4 DEF PinStart
<1>2. ASSUME NEW t \in Threads, PinLoad(t) PROVE TypeOK'
  <2>1. pc' \in [Threads -> Labels]
    BY <1>2 DEF PinLoad, Labels
  <2>2. ep' \in [Threads -> Nat]
    BY <1>2 DEF PinLoad
  <2>3. \A u \in Threads : target'[u] # None <=> pc'[u] \in {"retire", "push"}
    BY <1>2 DEF PinLoad, Labels
  <2>4. \A u \in Threads : pc'[u] \in {"pin_load", "pin_store"} => tid'[u] # NoSlot
    BY <1>2 DEF PinLoad, Labels
  <2>q. QED
    BY <1>2, <2>1, <2>2, <2>3, <2>4 DEF PinLoad
<1>3. ASSUME NEW t \in Threads, PinStore(t) PROVE TypeOK'
  <2>1. pc' \in [Threads -> Labels]
    BY <1>3 DEF PinStore, StoreEpoch, NoSlot, Slots, Labels
  <2>2. \A u \in Threads : target'[u] # None <=> pc'[u] \in {"retire", "push"}
    BY <1>3 DEF PinStore, StoreEpoch, NoSlot, Slots, Labels
  <2>3. \A u \in Threads : pc'[u] \in {"pin_load", "pin_store"} => tid'[u] # NoSlot
    BY <1>3 DEF PinStore, StoreEpoch, NoSlot, Slots, Labels
  <2>4. thread_epoch' \in [Slots -> Nat] /\ buffer' \in [Threads -> SUBSET Store]
    <3>1. tid[t] \in Slots
      BY <1>3 DEF PinStore, NoSlot, Slots
    <3>q. QED
      BY <1>3, <3>1, StoreEpochType DEF PinStore
  <2>q. QED
    BY <1>3, <2>1, <2>2, <2>3, <2>4 DEF PinStore
<1>4. ASSUME NEW t \in Threads, LoadGen(t) PROVE TypeOK'
  <2>1. hold' \in [Threads -> SUBSET Objs]
    BY <1>4 DEF LoadGen, Objs
  <2>q. QED
    BY <1>4, <2>1 DEF LoadGen
<1>5. ASSUME NEW t \in Threads, LoadRec(t) PROVE TypeOK'
  <2>1. hold' \in [Threads -> SUBSET Objs]
    BY <1>5 DEF LoadRec, Objs
  <2>q. QED
    BY <1>5, <2>1 DEF LoadRec
<1>6. ASSUME NEW t \in Threads, Unpin(t) PROVE TypeOK'
  <2>1. pc' \in [Threads -> Labels]
    BY <1>6 DEF Unpin, StoreEpoch, NoSlot, Slots, Labels
  <2>2. \A u \in Threads : target'[u] # None <=> pc'[u] \in {"retire", "push"}
    BY <1>6 DEF Unpin, StoreEpoch, NoSlot, Slots, Labels
  <2>3. \A u \in Threads : pc'[u] \in {"pin_load", "pin_store"} => tid'[u] # NoSlot
    BY <1>6 DEF Unpin, StoreEpoch, NoSlot, Slots, Labels
  <2>4. hold' \in [Threads -> SUBSET Objs]
    BY <1>6 DEF Unpin, StoreEpoch, NoSlot, Slots
  <2>5. thread_epoch' \in [Slots -> Nat] /\ buffer' \in [Threads -> SUBSET Store]
    <3>1. CASE tid[t] = NoSlot
      BY <1>6, <3>1 DEF Unpin
    <3>2. CASE tid[t] # NoSlot
      <4>1. tid[t] \in Slots
        BY <3>2 DEF NoSlot, Slots
      <4>q. QED
        BY <1>6, <3>2, <4>1, StoreEpochType DEF Unpin
    <3>q. QED
      BY <3>1, <3>2
  <2>q. QED
    BY <1>6, <2>1, <2>2, <2>3, <2>4, <2>5 DEF Unpin
<1>7. ASSUME NEW t \in Threads, Flush(t) PROVE TypeOK'
  <2>1. thread_epoch' \in [Slots -> Nat]
    BY <1>7 DEF Flush, Store
  <2>2. buffer' \in [Threads -> SUBSET Store]
    BY <1>7 DEF Flush, Store
  <2>q. QED
    BY <1>7, <2>1, <2>2 DEF Flush
<1>8. ASSUME NEW t \in Threads, RegisterClaim(t) PROVE TypeOK'
  <2>1. pc' \in [Threads -> Labels]
    BY <1>8 DEF RegisterClaim, Slots, NoSlot, Labels
  <2>2. \A u \in Threads : target'[u] # None <=> pc'[u] \in {"retire", "push"}
    BY <1>8 DEF RegisterClaim, Slots, NoSlot, Labels
  <2>3. \A u \in Threads : pc'[u] \in {"pin_load", "pin_store"} => tid'[u] # NoSlot
    BY <1>8 DEF RegisterClaim, Slots, NoSlot, Labels
  <2>4. thread_epoch' \in [Slots -> Nat]
    BY <1>8 DEF RegisterClaim, Slots, NoSlot
  <2>5. tid' \in [Threads -> 0 .. NumSlots]
    BY <1>8 DEF RegisterClaim, Slots, NoSlot
  <2>q. QED
    BY <1>8, <2>1, <2>2, <2>3, <2>4, <2>5 DEF RegisterClaim
<1>9. ASSUME NEW t \in Threads, RegisterSkip(t) PROVE TypeOK'
  <2>1. scan' \in [Threads -> 0 .. NumSlots]
    BY <1>9 DEF RegisterSkip, Slots
  <2>q. QED
    BY <1>9, <2>1 DEF RegisterSkip
<1>10. ASSUME NEW t \in Threads, RegisterFull(t) PROVE TypeOK'
  <2>1. pc' \in [Threads -> Labels]
    BY <1>10 DEF RegisterFull, Labels
  <2>2. \A u \in Threads : target'[u] # None <=> pc'[u] \in {"retire", "push"}
    BY <1>10 DEF RegisterFull, Labels
  <2>3. \A u \in Threads : pc'[u] \in {"pin_load", "pin_store"} => tid'[u] # NoSlot
    BY <1>10 DEF RegisterFull, Labels
  <2>q. QED
    BY <1>10, <2>1, <2>2, <2>3 DEF RegisterFull
<1>11. ASSUME NEW t \in Threads, Detach(t) PROVE TypeOK'
  <2>1. tid' \in [Threads -> 0 .. NumSlots]
    BY <1>11 DEF Detach, NoSlot
  <2>2. \A u \in Threads : pc'[u] \in {"pin_load", "pin_store"} => tid'[u] # NoSlot
    BY <1>11 DEF Detach, NoSlot, Labels
  <2>q. QED
    BY <1>11, <2>1, <2>2 DEF Detach
<1>12. ASSUME NEW t \in Threads, WriteStart(t) PROVE TypeOK'
  <2>1. pc' \in [Threads -> Labels]
    BY <1>12 DEF WriteStart, Objs, Labels
  <2>2. \A u \in Threads : target'[u] # None <=> pc'[u] \in {"retire", "push"}
    BY <1>12 DEF WriteStart, Objs, Labels
  <2>3. \A u \in Threads : pc'[u] \in {"pin_load", "pin_store"} => tid'[u] # NoSlot
    BY <1>12 DEF WriteStart, Objs, Labels
  <2>4. hold' \in [Threads -> SUBSET Objs]
    BY <1>12 DEF WriteStart, Objs
  <2>5. ops' \in Nat
    BY <1>12 DEF WriteStart, Objs
  <2>q. QED
    BY <1>12, <2>1, <2>2, <2>3, <2>4, <2>5 DEF WriteStart
<1>13. ASSUME NEW t \in Threads, WriteStale(t) PROVE TypeOK'
  <2>1. pc' \in [Threads -> Labels]
    BY <1>13 DEF WriteStale, Labels
  <2>2. \A u \in Threads : target'[u] # None <=> pc'[u] \in {"retire", "push"}
    BY <1>13 DEF WriteStale, Labels
  <2>3. \A u \in Threads : pc'[u] \in {"pin_load", "pin_store"} => tid'[u] # NoSlot
    BY <1>13 DEF WriteStale, Labels
  <2>4. hold' \in [Threads -> SUBSET Objs]
    BY <1>13 DEF WriteStale
  <2>q. QED
    BY <1>13, <2>1, <2>2, <2>3, <2>4 DEF WriteStale
<1>14. ASSUME NEW t \in Threads, Insert(t) PROVE TypeOK'
  <2>1. pc' \in [Threads -> Labels]
    BY <1>14 DEF Insert, StartCollect, Objs, Kinds, Labels
  <2>2. \A u \in Threads : target'[u] # None <=> pc'[u] \in {"retire", "push"}
    BY <1>14 DEF Insert, StartCollect, Objs, Kinds, Labels
  <2>3. \A u \in Threads : pc'[u] \in {"pin_load", "pin_store"} => tid'[u] # NoSlot
    BY <1>14 DEF Insert, StartCollect, Objs, Kinds, Labels
  <2>4. hold' \in [Threads -> SUBSET Objs]
    BY <1>14 DEF Insert, StartCollect, Objs, Kinds
  <2>5. state' \in [Objs -> {"free", "linked", "unlinked"}]
    BY <1>14 DEF Insert, StartCollect, Objs, Kinds
  <2>6. slots' \in [Gens -> SUBSET Recs]
    BY <1>14 DEF Insert, StartCollect, Objs, Kinds
  <2>7. scan' \in [Threads -> 0 .. NumSlots]
    BY <1>14 DEF Insert, StartCollect, Objs, Kinds
  <2>8. min_ep' \in [Threads -> Nat \cup {UINT64_MAX}]
    BY <1>14 DEF Insert, StartCollect, Objs, Kinds
  <2>9. phase' \in [Threads -> Kinds]
    BY <1>14 DEF Insert, StartCollect, Objs, Kinds
  <2>q. QED
    BY <1>14, <2>1, <2>2, <2>3, <2>4, <2>5, <2>6, <2>7, <2>8, <2>9 DEF Insert
<1>15. ASSUME NEW t \in Threads, Remove(t) PROVE TypeOK'
  <2>1. pc' \in [Threads -> Labels]
    BY <1>15 DEF Remove, Objs, Labels
  <2>2. \A u \in Threads : target'[u] # None <=> pc'[u] \in {"retire", "push"}
    BY <1>15 DEF Remove, Objs, Labels
  <2>3. \A u \in Threads : pc'[u] \in {"pin_load", "pin_store"} => tid'[u] # NoSlot
    BY <1>15 DEF Remove, Objs, Labels
  <2>4. hold' \in [Threads -> SUBSET Objs]
    BY <1>15 DEF Remove, Objs
  <2>5. state' \in [Objs -> {"free", "linked", "unlinked"}]
    BY <1>15 DEF Remove, Objs
  <2>6. slots' \in [Gens -> SUBSET Recs]
    BY <1>15 DEF Remove, Objs
  <2>7. target' \in [Threads -> Objs \cup {None}]
    BY <1>15 DEF Remove, Objs
  <2>q. QED
    BY <1>15, <2>1, <2>2, <2>3, <2>4, <2>5, <2>6, <2>7, Zenon DEF Remove
<1>16. ASSUME NEW t \in Threads, RemoveMiss(t) PROVE TypeOK'
  <2>1. pc' \in [Threads -> Labels]
    BY <1>16 DEF RemoveMiss, StartCollect, Kinds, Labels
  <2>2. \A u \in Threads : target'[u] # None <=> pc'[u] \in {"retire", "push"}
    BY <1>16 DEF RemoveMiss, StartCollect, Kinds, Labels
  <2>3. \A u \in Threads : pc'[u] \in {"pin_load", "pin_store"} => tid'[u] # NoSlot
    BY <1>16 DEF RemoveMiss, StartCollect, Kinds, Labels
  <2>4. hold' \in [Threads -> SUBSET Objs]
    BY <1>16 DEF RemoveMiss, StartCollect, Kinds
  <2>5. scan' \in [Threads -> 0 .. NumSlots]
    BY <1>16 DEF RemoveMiss, StartCollect, Kinds
  <2>6. min_ep' \in [Threads -> Nat \cup {UINT64_MAX}]
    BY <1>16 DEF RemoveMiss, StartCollect, Kinds
  <2>7. phase' \in [Threads -> Kinds]
    BY <1>16 DEF RemoveMiss, StartCollect, Kinds
  <2>q. QED
    BY <1>16, <2>1, <2>2, <2>3, <2>4, <2>5, <2>6, <2>7 DEF RemoveMiss
<1>17. ASSUME NEW t \in Threads, Grow(t) PROVE TypeOK'
  <2>1. pc' \in [Threads -> Labels]
    BY <1>17 DEF Grow, Objs, Labels
  <2>2. \A u \in Threads : target'[u] # None <=> pc'[u] \in {"retire", "push"}
    BY <1>17 DEF Grow, Objs, Labels
  <2>3. \A u \in Threads : pc'[u] \in {"pin_load", "pin_store"} => tid'[u] # NoSlot
    BY <1>17 DEF Grow, Objs, Labels
  <2>4. hold' \in [Threads -> SUBSET Objs]
    BY <1>17 DEF Grow, Objs
  <2>5. state' \in [Objs -> {"free", "linked", "unlinked"}]
    <3>1. current_gen \in Objs
      BY DEF Objs
    <3>2. PICK g \in Gens : state' = [state EXCEPT ![g] = "linked", ![current_gen] = "unlinked"]
      BY <1>17, Zenon DEF Grow
    <3>q. QED
      BY <3>1, <3>2 DEF Objs
  <2>6. slots' \in [Gens -> SUBSET Recs]
    BY <1>17 DEF Grow, Objs
  <2>7. target' \in [Threads -> Objs \cup {None}]
    BY <1>17 DEF Grow, Objs
  <2>8. current_gen' \in Gens
    BY <1>17 DEF Grow, Objs
  <2>q. QED
    BY <1>17, <2>1, <2>2, <2>3, <2>4, <2>5, <2>6, <2>7, <2>8, Zenon DEF Grow
<1>18. ASSUME NEW t \in Threads, RetireLoad(t) PROVE TypeOK'
  <2>1. pc' \in [Threads -> Labels]
    BY <1>18 DEF RetireLoad, Labels
  <2>2. \A u \in Threads : target'[u] # None <=> pc'[u] \in {"retire", "push"}
    BY <1>18 DEF RetireLoad, Labels
  <2>3. \A u \in Threads : pc'[u] \in {"pin_load", "pin_store"} => tid'[u] # NoSlot
    BY <1>18 DEF RetireLoad, Labels
  <2>4. ep' \in [Threads -> Nat]
    BY <1>18 DEF RetireLoad
  <2>q. QED
    BY <1>18, <2>1, <2>2, <2>3, <2>4, Zenon DEF RetireLoad
<1>19. ASSUME NEW t \in Threads, RetirePush(t) PROVE TypeOK'
  <2>0. AfterRetire(t) /\ target' = [target EXCEPT ![t] = None] /\ UNCHANGED reader /\ pc[t] = "push"
    BY <1>19, Zenon DEF RetirePush
  <2>1. tid' = tid
    BY <2>0
  <2>2. /\ scan' \in [Threads -> 0 .. NumSlots] /\ min_ep' \in [Threads -> Nat \cup {UINT64_MAX}]
        /\ phase' \in [Threads -> Kinds]
    BY <2>0, AfterRetireType, Zenon
  <2>3. PICK l \in {"scan", "idle"} : pc' = [pc EXCEPT ![t] = l]
    BY <2>0, AfterRetireType, Zenon
  <2>4. /\ pc' \in [Threads -> Labels]
        /\ target' \in [Threads -> Objs \cup {None}]
        /\ \A u \in Threads : target'[u] # None <=> pc'[u] \in {"retire", "push"}
        /\ \A u \in Threads : pc'[u] \in {"pin_load", "pin_store"} => tid'[u] # NoSlot
    BY <2>0, <2>1, <2>3, PushLeft, Zenon
  <2>5. retire_head' \in [Kinds -> SUBSET Node]
    <3>1. target[t] \in Objs
      BY <2>0
    <3>2. Kind(target[t]) \in Kinds /\ [obj |-> target[t], retire_epoch |-> ep[t] + 2] \in Node
      BY <3>1 DEF Kind, Kinds, Node
    <3>q. QED
      BY <1>19, <3>2 DEF RetirePush
  <2>q. QED
    BY <1>19, <2>2, <2>4, <2>5, Zenon DEF RetirePush
<1>20. ASSUME NEW t \in Threads, RetireOom(t) PROVE TypeOK'
  <2>0. AfterRetire(t) /\ target' = [target EXCEPT ![t] = None] /\ UNCHANGED reader
    BY <1>20, Zenon DEF RetireOom
  <2>1. tid' = tid
    BY <2>0
  <2>2. /\ scan' \in [Threads -> 0 .. NumSlots] /\ min_ep' \in [Threads -> Nat \cup {UINT64_MAX}]
        /\ phase' \in [Threads -> Kinds]
    BY <2>0, AfterRetireType, Zenon
  <2>3. PICK l \in {"scan", "idle"} : pc' = [pc EXCEPT ![t] = l]
    BY <2>0, AfterRetireType, Zenon
  <2>4. /\ pc' \in [Threads -> Labels]
        /\ target' \in [Threads -> Objs \cup {None}]
        /\ \A u \in Threads : target'[u] # None <=> pc'[u] \in {"retire", "push"}
        /\ \A u \in Threads : pc'[u] \in {"pin_load", "pin_store"} => tid'[u] # NoSlot
    BY <2>0, <2>1, <2>3, PushLeft, Zenon
  <2>5. state' \in [Objs -> {"free", "linked", "unlinked"}]
    BY <1>20 DEF RetireOom
  <2>6. ooms' \in Nat
    BY <1>20 DEF RetireOom
  <2>q. QED
    BY <1>20, <2>2, <2>4, <2>5, <2>6 DEF RetireOom
<1>21. ASSUME NEW t \in Threads, ScanSlot(t) PROVE TypeOK'
  <2>1. scan' \in [Threads -> 0 .. NumSlots]
    BY <1>21 DEF ScanSlot, Slots
  <2>2. min_ep' \in [Threads -> Nat \cup {UINT64_MAX}]
    BY <1>21, Zenon DEF ScanSlot, Slots
  <2>q. QED
    BY <1>21, <2>1, <2>2 DEF ScanSlot
<1>22. ASSUME NEW t \in Threads, ScanDone(t) PROVE TypeOK'
  <2>1. pc' \in [Threads -> Labels]
    BY <1>22 DEF ScanDone, Labels
  <2>2. \A u \in Threads : target'[u] # None <=> pc'[u] \in {"retire", "push"}
    BY <1>22 DEF ScanDone, Labels
  <2>3. \A u \in Threads : pc'[u] \in {"pin_load", "pin_store"} => tid'[u] # NoSlot
    BY <1>22 DEF ScanDone, Labels
  <2>q. QED
    BY <1>22, <2>1, <2>2, <2>3, Zenon DEF ScanDone
<1>23. ASSUME NEW t \in Threads, Pop(t) PROVE TypeOK'
  <2>1. pc' \in [Threads -> Labels]
    BY <1>23 DEF Pop, Labels
  <2>2. \A u \in Threads : target'[u] # None <=> pc'[u] \in {"retire", "push"}
    BY <1>23 DEF Pop, Labels
  <2>3. \A u \in Threads : pc'[u] \in {"pin_load", "pin_store"} => tid'[u] # NoSlot
    BY <1>23 DEF Pop, Labels
  <2>4. popped' \in [Threads -> SUBSET Node]
    BY <1>23 DEF Pop
  <2>5. retire_head' \in [Kinds -> SUBSET Node]
    BY <1>23 DEF Pop
  <2>q. QED
    BY <1>23, <2>1, <2>2, <2>3, <2>4, <2>5, Zenon DEF Pop
<1>24. ASSUME NEW t \in Threads, Free(t) PROVE TypeOK'
  <2>1. state' \in [Objs -> {"free", "linked", "unlinked"}]
    BY <1>24 DEF Free, Node
  <2>2. popped' \in [Threads -> SUBSET Node]
    BY <1>24 DEF Free, Node
  <2>q. QED
    BY <1>24, <2>1, <2>2, Zenon DEF Free
<1>25. ASSUME NEW t \in Threads, Repend(t) PROVE TypeOK'
  <2>1. pc' \in [Threads -> Labels]
    BY <1>25 DEF Repend, Kinds, Labels
  <2>2. \A u \in Threads : target'[u] # None <=> pc'[u] \in {"retire", "push"}
    BY <1>25 DEF Repend, Kinds, Labels
  <2>3. \A u \in Threads : pc'[u] \in {"pin_load", "pin_store"} => tid'[u] # NoSlot
    BY <1>25 DEF Repend, Kinds, Labels
  <2>4. popped' \in [Threads -> SUBSET Node]
    BY <1>25 DEF Repend, Kinds
  <2>5. retire_head' \in [Kinds -> SUBSET Node]
    BY <1>25 DEF Repend, Kinds
  <2>6. phase' \in [Threads -> Kinds]
    BY <1>25 DEF Repend, Kinds
  <2>q. QED
    BY <1>25, <2>1, <2>2, <2>3, <2>4, <2>5, <2>6, Zenon DEF Repend
<1>26. ASSUME NEW t \in Threads, Advance(t) PROVE TypeOK'
  <2>1. pc' \in [Threads -> Labels]
    BY <1>26 DEF Advance, Labels
  <2>2. \A u \in Threads : target'[u] # None <=> pc'[u] \in {"retire", "push"}
    BY <1>26, Zenon DEF Advance, Labels
  <2>3. \A u \in Threads : pc'[u] \in {"pin_load", "pin_store"} => tid'[u] # NoSlot
    BY <1>26 DEF Advance, Labels
  <2>4. global_epoch' \in Nat \ {0}
    BY <1>26 DEF Advance
  <2>q. QED
    BY <1>26, <2>1, <2>2, <2>3, <2>4, Zenon DEF Advance
<1>27. CASE UNCHANGED vars
  BY <1>27, Zenon DEF vars
<1>q. QED
  BY <1>1, <1>2, <1>3, <1>4, <1>5, <1>6, <1>7, <1>8, <1>9, <1>10, <1>11, <1>12, <1>13, <1>14, <1>15, <1>16, <1>17, <1>18, <1>19, <1>20, <1>21, <1>22, <1>23, <1>24, <1>25, <1>26, <1>27, Zenon
     DEF Next, Read, Register, Write, Collect

\* Type correctness of the reclamation scheme, with or without threads that
\* come and go: every variable keeps its type, a thread that writes its
\* epoch slot has one, a writer that retires has something to retire.
THEOREM TypeCorrect == Spec => []TypeOK
<1>1. Init => TypeOK
  BY TypeInit DEF Init, NoSlot
<1>q. QED
  BY <1>1, TypeStep, PTL DEF Spec
----------------------------------------------------------------------------

(* What a claim on an object is exclusive against is spelled out kind by   *)
(* kind, so that each action disturbs few conjuncts.                       *)

ListedUnlinked ==
    \A k \in Kinds : \A n \in retire_head[k] :
        Kind(n.obj) = k /\ state[n.obj] = "unlinked"

PoppedUnlinked ==
    \A t \in Threads : \A n \in popped[t] :
        /\ Kind(n.obj) = phase[t]
        /\ state[n.obj] = "unlinked"
        /\ pc[t] = "free"

TargetUnlinked ==
    \A t \in Threads : target[t] # None => state[target[t]] = "unlinked"

TargetOnce ==
    /\ \A t, u \in Threads : target[t] # None /\ target[t] = target[u] => t = u
    /\ \A t \in Threads, k \in Kinds : \A n \in retire_head[k] : n.obj # target[t]
    /\ \A t, u \in Threads : \A n \in popped[u] : n.obj # target[t]

ListedOnce ==
    /\ \A k \in Kinds : \A m, n \in retire_head[k] : m.obj = n.obj => m = n
    /\ \A k \in Kinds, t \in Threads :
          \A m \in retire_head[k], n \in popped[t] : m.obj # n.obj

PoppedOnce ==
    \A t, u \in Threads : \A m \in popped[t], n \in popped[u] :
        m.obj = n.obj => m = n /\ t = u

NothingLost ==
    \A o \in Objs : state[o] = "unlinked" =>
        \/ \E t \in Threads : target[t] = o
        \/ \E n \in retire_head[Kind(o)] : n.obj = o
        \/ \E t \in Threads : \E n \in popped[t] : n.obj = o

CurrentLinked ==
    /\ state[current_gen] = "linked"
    /\ \A r \in slots[current_gen] : state[r] = "linked"

AccountInv ==
    /\ ListedUnlinked /\ PoppedUnlinked /\ TargetUnlinked
    /\ TargetOnce /\ ListedOnce /\ PoppedOnce
    /\ NothingLost /\ CurrentLinked

\* Nothing is retired in a new table.
LEMMA AccountInit == InitTable => AccountInv
BY DEF InitTable, AccountInv, ListedUnlinked, PoppedUnlinked, TargetUnlinked,
       TargetOnce, ListedOnce, PoppedOnce, NothingLost, CurrentLinked, Kinds, Objs

\* A step that touches neither the lists, the targets nor what is linked
\* keeps the accounts, as long as no thread leaves a popped list behind.
LEMMA AccountFrame ==
    ASSUME AccountInv,
           UNCHANGED <<state, target, retire_head, popped, slots, current_gen>>,
           \A u \in Threads : popped[u] # {} => pc'[u] = "free" /\ phase'[u] = phase[u]
    PROVE  AccountInv'
BY DEF AccountInv, ListedUnlinked, PoppedUnlinked, TargetUnlinked, TargetOnce,
       ListedOnce, PoppedOnce, NothingLost, CurrentLinked, Kind

\* Freeing takes one node off a popped list, and its object with it.
LEMMA AccountFree ==
    ASSUME AccountInv,
           state \in [Objs -> {"free", "linked", "unlinked"}],
           popped \in [Threads -> SUBSET Node],
           target \in [Threads -> Objs \cup {None}],
           retire_head \in [Kinds -> SUBSET Node],
           slots \in [Gens -> SUBSET Recs], current_gen \in Gens,
           NEW t \in Threads, Free(t)
    PROVE  AccountInv'
<1>1. PICK m \in popped[t] : /\ state' = [state EXCEPT ![m.obj] = "free"]
                             /\ popped' = [popped EXCEPT ![t] = @ \ {m}]
  BY Zenon DEF Free
<1>2. UNCHANGED <<retire_head, target, slots, current_gen, pc, phase>>
  BY Zenon DEF Free
<1>3. \A o \in Objs : o # m.obj => state'[o] = state[o]
  BY <1>1
<1>4. \A u \in Threads : popped'[u] \subseteq popped[u]
  BY <1>1
<1>5. m \notin popped'[t]
  BY <1>1
<1>6. \A u \in Threads : \A n \in popped[u] : n # m => n \in popped'[u]
  BY <1>1
<1>7. /\ \A k \in Kinds : \A n \in retire_head[k] : n.obj \in Objs
      /\ \A u \in Threads : \A n \in popped[u] : n.obj \in Objs
  BY DEF Node
<1>8. m.obj \in Objs /\ state[m.obj] = "unlinked" /\ state'[m.obj] = "free"
  BY <1>1, <1>7 DEF AccountInv, PoppedUnlinked
<1>9. ListedUnlinked'
  <2>1. \A k \in Kinds : \A n \in retire_head[k] : n.obj # m.obj
    BY DEF AccountInv, ListedOnce
  <2>q. QED
    BY <2>1, <1>2, <1>3, <1>7, Zenon DEF AccountInv, ListedUnlinked
<1>10. PoppedUnlinked'
  <2>1. ASSUME NEW u \in Threads, NEW n \in popped'[u] PROVE n \in popped[u] /\ n.obj # m.obj
    <3>1. n \in popped[u]
      BY <1>4
    <3>2. n.obj = m.obj => n = m /\ u = t
      BY <3>1 DEF AccountInv, PoppedOnce
    <3>q. QED
      BY <3>1, <3>2, <1>5
  <2>q. QED
    BY <2>1, <1>2, <1>3, <1>7 DEF AccountInv, PoppedUnlinked
<1>11. TargetUnlinked'
  <2>1. \A u \in Threads : target[u] # m.obj
    BY DEF AccountInv, TargetOnce
  <2>q. QED
    BY <2>1, <1>2, <1>3 DEF AccountInv, TargetUnlinked
<1>12. TargetOnce'
  BY <1>2, <1>4 DEF AccountInv, TargetOnce
<1>13. ListedOnce'
  BY <1>2, <1>4 DEF AccountInv, ListedOnce
<1>14. PoppedOnce'
  BY <1>4 DEF AccountInv, PoppedOnce
<1>15. NothingLost'
  <2> SUFFICES ASSUME NEW o \in Objs, state'[o] = "unlinked"
               PROVE  \/ \E u \in Threads : target'[u] = o
                      \/ \E n \in retire_head'[Kind(o)] : n.obj = o
                      \/ \E u \in Threads : \E n \in popped'[u] : n.obj = o
    BY Zenon DEF NothingLost
  <2>1. o # m.obj
    BY <1>8, Zenon
  <2>2. state[o] = "unlinked"
    BY <2>1, <1>3
  <2>3. \/ \E u \in Threads : target[u] = o
        \/ \E n \in retire_head[Kind(o)] : n.obj = o
        \/ \E u \in Threads : \E n \in popped[u] : n.obj = o
    BY <2>2, Zenon DEF AccountInv, NothingLost
  <2>4. ASSUME NEW u \in Threads, NEW n \in popped[u], n.obj = o PROVE n \in popped'[u]
    BY <2>1, <2>4, <1>6
  <2>q. QED
    BY <2>3, <2>4, <1>2, Zenon
<1>16. CurrentLinked'
  <2>1. current_gen \in Objs /\ \A r \in slots[current_gen] : r \in Objs
    BY DEF Objs
  <2>q. QED
    BY <2>1, <1>2, <1>3, <1>8, Zenon DEF AccountInv, CurrentLinked
<1>q. QED
  BY <1>9, <1>10, <1>11, <1>12, <1>13, <1>14, <1>15, <1>16, Zenon DEF AccountInv

\* Re-pending moves the nodes of a popped list back to the list they are from.
LEMMA AccountRepend ==
    ASSUME AccountInv,
           popped \in [Threads -> SUBSET Node],
           retire_head \in [Kinds -> SUBSET Node],
           phase \in [Threads -> Kinds],
           pc \in [Threads -> Labels],
           NEW t \in Threads, Repend(t)
    PROVE  AccountInv'
<1>1. UNCHANGED <<state, target, slots, current_gen>>
  BY DEF Repend
<1>2. /\ popped'[t] = {}
      /\ \A u \in Threads : u # t => /\ popped'[u] = popped[u]
                                      /\ phase'[u] = phase[u] /\ pc'[u] = pc[u]
  BY DEF Repend
<1>3. /\ retire_head'[phase[t]] = retire_head[phase[t]] \cup popped[t]
      /\ \A k \in Kinds : k # phase[t] => retire_head'[k] = retire_head[k]
  BY DEF Repend
<1>4. \A k \in Kinds : \A n \in retire_head'[k] :
         n \in retire_head[k] \/ (k = phase[t] /\ n \in popped[t])
  BY <1>3
<1>5. ListedUnlinked'
  BY <1>1, <1>4 DEF AccountInv, ListedUnlinked, PoppedUnlinked
<1>6. PoppedUnlinked'
  BY <1>1, <1>2, Zenon DEF AccountInv, PoppedUnlinked
<1>7. TargetUnlinked'
  BY <1>1, Zenon DEF AccountInv, TargetUnlinked
<1>8. TargetOnce'
  BY <1>1, <1>2, <1>4 DEF AccountInv, TargetOnce
<1>9. ListedOnce'
  <2>1. \A k \in Kinds : \A m, n \in retire_head'[k] : m.obj = n.obj => m = n
    BY <1>4 DEF AccountInv, ListedOnce, PoppedOnce
  <2>2. \A k \in Kinds, u \in Threads :
           \A m \in retire_head'[k], n \in popped'[u] : m.obj # n.obj
    BY <1>2, <1>4 DEF AccountInv, ListedOnce, PoppedOnce
  <2>q. QED
    BY <2>1, <2>2, Zenon DEF ListedOnce
<1>10. PoppedOnce'
  BY <1>2, Zenon DEF AccountInv, PoppedOnce
<1>11. NothingLost'
  <2> SUFFICES ASSUME NEW o \in Objs, state'[o] = "unlinked"
               PROVE  \/ \E u \in Threads : target'[u] = o
                      \/ \E n \in retire_head'[Kind(o)] : n.obj = o
                      \/ \E u \in Threads : \E n \in popped'[u] : n.obj = o
    BY Zenon DEF NothingLost
  <2>1. state[o] = "unlinked"
    BY <1>1
  <2>2. \/ \E u \in Threads : target[u] = o
        \/ \E n \in retire_head[Kind(o)] : n.obj = o
        \/ \E u \in Threads : \E n \in popped[u] : n.obj = o
    BY <2>1, Zenon DEF AccountInv, NothingLost
  <2>3. Kind(o) \in Kinds
    BY DEF Kind, Kinds
  <2>4. retire_head[Kind(o)] \subseteq retire_head'[Kind(o)]
    BY <2>3, <1>3, Zenon
  <2>5. ASSUME NEW n \in popped[t], n.obj = o PROVE n \in retire_head'[Kind(o)]
    <3>1. Kind(o) = phase[t]
      BY <2>5, Zenon DEF AccountInv, PoppedUnlinked
    <3>q. QED
      BY <3>1, <1>3
  <2>q. QED
    BY <2>2, <2>4, <2>5, <1>1, <1>2, Zenon
<1>12. CurrentLinked'
  BY <1>1 DEF AccountInv, CurrentLinked
<1>q. QED
  BY <1>5, <1>6, <1>7, <1>8, <1>9, <1>10, <1>11, <1>12, Zenon DEF AccountInv

\* Unlinking, retiring, popping, freeing and re-pending each keep every
\* unlinked object in exactly one place.
LEMMA AccountStep ==
    TypeOK /\ TypeOK' /\ AccountInv /\ [Next]_vars => AccountInv'
<1> SUFFICES ASSUME TypeOK, TypeOK', AccountInv, [Next]_vars PROVE AccountInv'
  OBVIOUS
<1>a. \A u \in Threads : popped[u] # {} => pc[u] = "free"
  BY DEF AccountInv, PoppedUnlinked
<1>b. /\ state \in [Objs -> {"free", "linked", "unlinked"}]
      /\ target \in [Threads -> Objs \cup {None}]
      /\ retire_head \in [Kinds -> SUBSET Node]
      /\ popped \in [Threads -> SUBSET Node]
      /\ pc \in [Threads -> Labels] /\ phase \in [Threads -> Kinds]
      /\ slots \in [Gens -> SUBSET Recs] /\ current_gen \in Gens
  BY Zenon DEF TypeOK
<1>c. \A u \in Threads : target[u] # None => pc[u] \in {"retire", "push"}
  BY Zenon DEF TypeOK
<1>1. ASSUME NEW t \in Threads, PinStart(t) PROVE AccountInv'
  <2>1. UNCHANGED <<state, target, retire_head, popped, slots, current_gen, phase>>
    BY <1>1, Zenon DEF PinStart
  <2>2. \A u \in Threads : popped[u] # {} => pc'[u] = "free"
    BY <1>a, <1>b, <1>1 DEF PinStart
  <2> QED
    BY <2>1, <2>2, AccountFrame
<1>2. ASSUME NEW t \in Threads, PinLoad(t) PROVE AccountInv'
  BY <1>a, <1>2, AccountFrame DEF PinLoad
<1>3. ASSUME NEW t \in Threads, PinStore(t) PROVE AccountInv'
  BY <1>a, <1>3, AccountFrame DEF PinStore
<1>4. ASSUME NEW t \in Threads, LoadGen(t) PROVE AccountInv'
  BY <1>a, <1>4, AccountFrame, Zenon DEF LoadGen
<1>5. ASSUME NEW t \in Threads, LoadRec(t) PROVE AccountInv'
  BY <1>a, <1>5, AccountFrame, Zenon DEF LoadRec
<1>6. ASSUME NEW t \in Threads, Unpin(t) PROVE AccountInv'
  BY <1>a, <1>6, AccountFrame DEF Unpin
<1>7. ASSUME NEW t \in Threads, Flush(t) PROVE AccountInv'
  BY <1>a, <1>7, AccountFrame, Zenon DEF Flush
<1>8. ASSUME NEW t \in Threads, RegisterClaim(t) PROVE AccountInv'
  BY <1>a, <1>8, AccountFrame DEF RegisterClaim
<1>9. ASSUME NEW t \in Threads, RegisterSkip(t) PROVE AccountInv'
  BY <1>a, <1>9, AccountFrame, Zenon DEF RegisterSkip
<1>10. ASSUME NEW t \in Threads, RegisterFull(t) PROVE AccountInv'
  BY <1>a, <1>10, AccountFrame DEF RegisterFull
<1>11. ASSUME NEW t \in Threads, Detach(t) PROVE AccountInv'
  BY <1>a, <1>11, AccountFrame DEF Detach
<1>12. ASSUME NEW t \in Threads, WriteStart(t) PROVE AccountInv'
  BY <1>a, <1>12, AccountFrame DEF WriteStart
<1>13. ASSUME NEW t \in Threads, WriteStale(t) PROVE AccountInv'
  BY <1>a, <1>13, AccountFrame DEF WriteStale
<1>14. ASSUME NEW t \in Threads, RemoveMiss(t) PROVE AccountInv'
  BY <1>a, <1>14, AccountFrame DEF RemoveMiss, StartCollect
<1>15. ASSUME NEW t \in Threads, RetireLoad(t) PROVE AccountInv'
  BY <1>a, <1>15, AccountFrame DEF RetireLoad
<1>16. ASSUME NEW t \in Threads, ScanSlot(t) PROVE AccountInv'
  BY <1>a, <1>16, AccountFrame, Zenon DEF ScanSlot
<1>17. ASSUME NEW t \in Threads, ScanDone(t) PROVE AccountInv'
  BY <1>a, <1>17, AccountFrame DEF ScanDone
<1>18. ASSUME NEW t \in Threads, Advance(t) PROVE AccountInv'
  BY <1>a, <1>18, AccountFrame DEF Advance
<1>19. ASSUME NEW t \in Threads, Insert(t) PROVE AccountInv'
  <2> USE <1>19, <1>b DEF Insert, AccountInv
  <2>1. ListedUnlinked'
    BY DEF ListedUnlinked
  <2>2. PoppedUnlinked'
    BY DEF PoppedUnlinked, StartCollect
  <2>3. TargetUnlinked'
    BY Zenon DEF TargetUnlinked
  <2>4. TargetOnce'
    BY Zenon DEF TargetOnce
  <2>5. ListedOnce'
    BY DEF ListedOnce
  <2>6. PoppedOnce'
    BY Zenon DEF PoppedOnce
  <2>7. NothingLost'
    <3> SUFFICES ASSUME NEW o \in Objs, state'[o] = "unlinked"
                 PROVE  \/ \E u \in Threads : target'[u] = o
                        \/ \E n \in retire_head'[Kind(o)] : n.obj = o
                        \/ \E u \in Threads : \E n \in popped'[u] : n.obj = o
      BY Zenon DEF NothingLost
    <3>1. state[o] = "unlinked"
      BY Zenon DEF Objs
    <3>2. \/ \E u \in Threads : target[u] = o
          \/ \E n \in retire_head[Kind(o)] : n.obj = o
          \/ \E u \in Threads : \E n \in popped[u] : n.obj = o
      BY <3>1, Zenon DEF NothingLost
    <3>q. QED
      BY <3>2, Zenon
  <2>8. CurrentLinked'
    BY DEF CurrentLinked, Objs
  <2>q. QED
    BY <2>1, <2>2, <2>3, <2>4, <2>5, <2>6, <2>7, <2>8, Zenon
<1>20. ASSUME NEW t \in Threads, Remove(t) PROVE AccountInv'
  <2> USE <1>20, <1>b DEF Remove, AccountInv
  <2>1. ListedUnlinked'
    BY DEF ListedUnlinked
  <2>2. PoppedUnlinked'
    BY DEF PoppedUnlinked
  <2>3. TargetUnlinked'
    BY DEF TargetUnlinked, Objs
  <2>4. TargetOnce'
    BY DEF TargetOnce, ListedUnlinked, PoppedUnlinked, TargetUnlinked, CurrentLinked
  <2>5. ListedOnce'
    BY DEF ListedOnce
  <2>6. PoppedOnce'
    BY Zenon DEF PoppedOnce
  <2>7. NothingLost'
    <3> SUFFICES ASSUME NEW o \in Objs, state'[o] = "unlinked"
                 PROVE  \/ \E u \in Threads : target'[u] = o
                        \/ \E n \in retire_head'[Kind(o)] : n.obj = o
                        \/ \E u \in Threads : \E n \in popped'[u] : n.obj = o
      BY Zenon DEF NothingLost
    <3>1. CASE o = target'[t]
      BY <3>1, Zenon
    <3>2. CASE o # target'[t]
      <4>1. state[o] = "unlinked"
        BY <3>2, Zenon DEF Objs
      <4>2. \/ \E u \in Threads : target[u] = o
            \/ \E n \in retire_head[Kind(o)] : n.obj = o
            \/ \E u \in Threads : \E n \in popped[u] : n.obj = o
        BY <4>1, Zenon DEF NothingLost
      <4>3. ASSUME NEW u \in Threads, target[u] = o PROVE target'[u] = o
        BY <1>c, <4>3, Zenon
      <4>q. QED
        BY <4>2, <4>3, Zenon
    <3>q. QED
      BY <3>1, <3>2, Zenon
  <2>8. CurrentLinked'
    BY DEF CurrentLinked
  <2>q. QED
    BY <2>1, <2>2, <2>3, <2>4, <2>5, <2>6, <2>7, <2>8, Zenon
<1>21. ASSUME NEW t \in Threads, Grow(t) PROVE AccountInv'
  <2> USE <1>21, <1>b DEF Grow, AccountInv
  <2>1. ListedUnlinked'
    BY DEF ListedUnlinked, Node
  <2>2. PoppedUnlinked'
    BY DEF PoppedUnlinked, Node
  <2>3. TargetUnlinked'
    BY DEF TargetUnlinked, Objs
  <2>4. TargetOnce'
    BY DEF TargetOnce, ListedUnlinked, PoppedUnlinked, TargetUnlinked, CurrentLinked
  <2>5. ListedOnce'
    BY DEF ListedOnce
  <2>6. PoppedOnce'
    BY Zenon DEF PoppedOnce
  <2>7. NothingLost'
    <3> SUFFICES ASSUME NEW o \in Objs, state'[o] = "unlinked"
                 PROVE  \/ \E u \in Threads : target'[u] = o
                        \/ \E n \in retire_head'[Kind(o)] : n.obj = o
                        \/ \E u \in Threads : \E n \in popped'[u] : n.obj = o
      BY Zenon DEF NothingLost
    <3>1. CASE o = target'[t]
      BY <3>1, Zenon
    <3>2. CASE o # target'[t]
      <4>1. state[o] = "unlinked"
        BY <3>2, Zenon DEF Objs
      <4>2. \/ \E u \in Threads : target[u] = o
            \/ \E n \in retire_head[Kind(o)] : n.obj = o
            \/ \E u \in Threads : \E n \in popped[u] : n.obj = o
        BY <4>1, Zenon DEF NothingLost
      <4>3. ASSUME NEW u \in Threads, target[u] = o PROVE target'[u] = o
        BY <1>c, <4>3, Zenon
      <4>q. QED
        BY <4>2, <4>3, Zenon
    <3>q. QED
      BY <3>1, <3>2, Zenon
  <2>8. CurrentLinked'
    BY DEF CurrentLinked, Kinds, Objs
  <2>q. QED
    BY <2>1, <2>2, <2>3, <2>4, <2>5, <2>6, <2>7, <2>8, Zenon
<1>22. ASSUME NEW t \in Threads, RetirePush(t) PROVE AccountInv'
  <2> USE <1>22, <1>b DEF RetirePush, AccountInv
  <2>1. ListedUnlinked'
    BY DEF ListedUnlinked, AfterRetire, Objs, TargetUnlinked
  <2>2. PoppedUnlinked'
    <3>1. popped' = popped /\ state' = state /\ pc[t] = "push"
      BY Zenon
    <3>2. \A u \in Threads : u # t => pc'[u] = pc[u] /\ phase'[u] = phase[u]
      BY Zenon DEF AfterRetire, StartCollect
    <3> QED
      BY <3>1, <3>2, Zenon DEF PoppedUnlinked
  <2>3. TargetUnlinked'
    BY Zenon DEF TargetUnlinked
  <2>4. TargetOnce'
    BY DEF TargetOnce, AfterRetire, Objs, Node
  <2>5. ListedOnce'
    BY DEF ListedOnce, TargetOnce
  <2>6. PoppedOnce'
    BY Zenon DEF PoppedOnce
  <2>7. NothingLost'
    <3> SUFFICES ASSUME NEW o \in Objs, state'[o] = "unlinked"
                 PROVE  \/ \E u \in Threads : target'[u] = o
                        \/ \E n \in retire_head'[Kind(o)] : n.obj = o
                        \/ \E u \in Threads : \E n \in popped'[u] : n.obj = o
      BY Zenon DEF NothingLost
    <3>1. \/ \E u \in Threads : target[u] = o
          \/ \E n \in retire_head[Kind(o)] : n.obj = o
          \/ \E u \in Threads : \E n \in popped[u] : n.obj = o
      BY Zenon DEF NothingLost
    <3>2. CASE o = target[t]
      <4>1. [obj |-> o, retire_epoch |-> ep[t] + 2] \in retire_head'[Kind(o)]
        BY <3>2, Zenon DEF Kind, Kinds
      <4>q. QED
        BY <4>1, Zenon
    <3>3. CASE o # target[t]
      <4>1. ASSUME NEW u \in Threads, target[u] = o PROVE target'[u] = o
        BY <3>3, <4>1, Zenon
      <4>2. retire_head[Kind(o)] \subseteq retire_head'[Kind(o)]
        OBVIOUS
      <4>q. QED
        BY <3>1, <4>1, <4>2, Zenon
    <3>q. QED
      BY <3>2, <3>3, Zenon
  <2>8. CurrentLinked'
    BY Zenon DEF CurrentLinked
  <2>q. QED
    BY <2>1, <2>2, <2>3, <2>4, <2>5, <2>6, <2>7, <2>8, Zenon
<1>23. ASSUME NEW t \in Threads, RetireOom(t) PROVE AccountInv'
  <2> USE <1>23, <1>b DEF RetireOom, AccountInv
  <2>1. ListedUnlinked'
    BY DEF ListedUnlinked, TargetOnce
  <2>2. PoppedUnlinked'
    BY DEF PoppedUnlinked, AfterRetire, StartCollect, TargetOnce
  <2>3. TargetUnlinked'
    BY Zenon DEF TargetUnlinked, TargetOnce
  <2>4. TargetOnce'
    BY DEF TargetOnce, Node
  <2>5. ListedOnce'
    BY Zenon DEF ListedOnce
  <2>6. PoppedOnce'
    BY Zenon DEF PoppedOnce
  <2>7. NothingLost'
    <3> SUFFICES ASSUME NEW o \in Objs, state'[o] = "unlinked"
                 PROVE  \/ \E u \in Threads : target'[u] = o
                        \/ \E n \in retire_head'[Kind(o)] : n.obj = o
                        \/ \E u \in Threads : \E n \in popped'[u] : n.obj = o
      BY Zenon DEF NothingLost
    <3>1. o # target[t] /\ state[o] = "unlinked"
      BY Zenon
    <3>2. \/ \E u \in Threads : target[u] = o
          \/ \E n \in retire_head[Kind(o)] : n.obj = o
          \/ \E u \in Threads : \E n \in popped[u] : n.obj = o
      BY <3>1, Zenon DEF NothingLost
    <3>3. ASSUME NEW u \in Threads, target[u] = o PROVE target'[u] = o
      BY <3>1, <3>3, Zenon
    <3>q. QED
      BY <3>2, <3>3, Zenon
  <2>8. CurrentLinked'
    BY DEF CurrentLinked, TargetUnlinked
  <2>q. QED
    BY <2>1, <2>2, <2>3, <2>4, <2>5, <2>6, <2>7, <2>8, Zenon
<1>24. ASSUME NEW t \in Threads, Pop(t) PROVE AccountInv'
  <2> USE <1>24, <1>b DEF Pop, AccountInv
  <2>1. ListedUnlinked'
    BY Zenon DEF ListedUnlinked
  <2>2. PoppedUnlinked'
    BY Zenon DEF PoppedUnlinked, ListedUnlinked
  <2>3. TargetUnlinked'
    BY Zenon DEF TargetUnlinked
  <2>4. TargetOnce'
    BY Zenon DEF TargetOnce
  <2>5. ListedOnce'
    BY DEF ListedOnce, ListedUnlinked
  <2>6. PoppedOnce'
    BY DEF PoppedOnce, ListedOnce
  <2>7. NothingLost'
    <3> SUFFICES ASSUME NEW o \in Objs, state'[o] = "unlinked"
                 PROVE  \/ \E u \in Threads : target'[u] = o
                        \/ \E n \in retire_head'[Kind(o)] : n.obj = o
                        \/ \E u \in Threads : \E n \in popped'[u] : n.obj = o
      BY Zenon DEF NothingLost
    <3>1. \/ \E u \in Threads : target[u] = o
          \/ \E n \in retire_head[Kind(o)] : n.obj = o
          \/ \E u \in Threads : \E n \in popped[u] : n.obj = o
      BY Zenon DEF NothingLost
    <3>2. popped'[t] = retire_head[phase[t]] /\ \A u \in Threads : u # t => popped'[u] = popped[u]
      BY Zenon
    <3>3. popped[t] = {}
      BY <1>a, Zenon
    <3>4. \A k \in Kinds : k # phase[t] => retire_head'[k] = retire_head[k]
      BY Zenon
    <3>5. ASSUME NEW n \in retire_head[Kind(o)], n.obj = o
          PROVE  \/ \E m \in retire_head'[Kind(o)] : m.obj = o
                 \/ \E u \in Threads : \E m \in popped'[u] : m.obj = o
      BY <3>2, <3>4, <3>5, Zenon DEF Kind, Kinds
    <3>q. QED
      BY <3>1, <3>2, <3>3, <3>5, Zenon
  <2>8. CurrentLinked'
    BY Zenon DEF CurrentLinked
  <2>q. QED
    BY <2>1, <2>2, <2>3, <2>4, <2>5, <2>6, <2>7, <2>8, Zenon
<1>25. ASSUME NEW t \in Threads, Free(t) PROVE AccountInv'
  BY <1>25, <1>b, AccountFree, Zenon
<1>26. ASSUME NEW t \in Threads, Repend(t) PROVE AccountInv'
  BY <1>26, <1>b, AccountRepend, Zenon
<1>27. CASE UNCHANGED vars
  BY <1>a, <1>27, AccountFrame, Zenon DEF vars
<1>q. QED
  BY <1>1, <1>2, <1>3, <1>4, <1>5, <1>6, <1>7, <1>8, <1>9, <1>10, <1>11, <1>12, <1>13, <1>14, <1>15, <1>16, <1>17, <1>18, <1>19, <1>20, <1>21, <1>22, <1>23, <1>24, <1>25, <1>26, <1>27, Zenon
     DEF Next, Read, Register, Write, Collect

\* The inductive invariant implies the property that is model-checked.
LEMMA AccountRetiredOnce == TypeOK /\ AccountInv => RetiredOnce
<1> SUFFICES ASSUME TypeOK, AccountInv, NEW o \in Objs
             PROVE  /\ \A c, d \in Claims(o) : c = d
                    /\ Claims(o) # {} <=> state[o] = "unlinked"
  BY DEF RetiredOnce
<1> DEFINE T(c) == \E t \in Threads : target[t] = o /\ c = <<"target", t>>
           L(c) == \E n \in retire_head[Kind(o)] : n.obj = o /\ c = <<"listed", n>>
           P(c) == \E t \in Threads : \E n \in popped[t] : n.obj = o /\ c = <<"popped", t, n>>
<1>1. \A c : c \in Claims(o) <=> T(c) \/ L(c) \/ P(c)
  BY DEF Claims
<1>2. Kind(o) \in Kinds /\ o # None
  BY DEF Kind, Kinds
<1>3. ASSUME NEW c, NEW d, T(c), T(d) PROVE c = d
  BY <1>3 DEF AccountInv, TargetOnce
<1>4. ASSUME NEW c, NEW d, L(c), L(d) PROVE c = d
  BY <1>2, <1>4, Zenon DEF AccountInv, ListedOnce
<1>5. ASSUME NEW c, NEW d, P(c), P(d) PROVE c = d
  BY <1>5, Zenon DEF AccountInv, PoppedOnce
<1>6. ASSUME NEW c, NEW d, T(c), L(d) PROVE FALSE
  BY <1>2, <1>6, Zenon DEF AccountInv, TargetOnce
<1>7. ASSUME NEW c, NEW d, T(c), P(d) PROVE FALSE
  BY <1>7, Zenon DEF AccountInv, TargetOnce
<1>8. ASSUME NEW c, NEW d, L(c), P(d) PROVE FALSE
  BY <1>2, <1>8, Zenon DEF AccountInv, ListedOnce
<1>9. \A c, d \in Claims(o) : c = d
  <2> HIDE DEF T, L, P
  <2>q. QED
    BY <1>1, <1>3, <1>4, <1>5, <1>6, <1>7, <1>8
<1>10. ASSUME NEW c, T(c) \/ L(c) \/ P(c) PROVE state[o] = "unlinked"
  BY <1>2, <1>10 DEF AccountInv, TargetUnlinked, ListedUnlinked, PoppedUnlinked
<1>11. state[o] = "unlinked" => \E c : T(c) \/ L(c) \/ P(c)
  BY Zenon DEF AccountInv, NothingLost
<1>q. QED
  <2> HIDE DEF T, L, P
  <2>q. QED
    BY <1>1, <1>9, <1>10, <1>11

\* Whatever the interleaving of removers, growers and collectors, and
\* however many there are, htc_epoch_collect loses no retired object and
\* frees none twice.
THEOREM Accounting == Spec => []RetiredOnce
<1>1. Init => TypeOK /\ AccountInv
  BY TypeInit, AccountInit DEF Init, NoSlot
<1>2. TypeOK /\ AccountInv /\ [Next]_vars => (TypeOK /\ AccountInv)'
  BY TypeStep, AccountStep
<1>q. QED
  BY <1>1, <1>2, AccountRetiredOnce, PTL DEF Spec
=============================================================================
