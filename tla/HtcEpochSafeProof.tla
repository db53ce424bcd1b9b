-------------------------- MODULE HtcEpochSafeProof --------------------------
(* No thread refers to freed memory when a single thread writes, on a      *)
(* machine that does not reorder the pin's store with the loads that       *)
(* follow it (ARMv8 with STLR/LDAR), and with memory for every retire      *)
(* node. First what holds of the threads one by one: slots are owned,      *)
(* epochs published, retiring left to the writer.                          *)
EXTENDS HtcEpochProof

USE EpochConstants, SMTT(30), ZenonT(30)
USE DEF shared, reader, collector, counts, Goto

OneWriter ==
    /\ \A a, b \in Writers : a = b
    /\ StoreBuffers = FALSE
    /\ MaxOom = 0

\* Every thread has a slot of its own and no store is delayed.
SlotsOwned ==
    /\ \A t \in Threads : tid[t] \in Slots /\ buffer[t] = {}
    /\ \A t, u \in Threads : tid[t] = tid[u] => t = u

PinnedEpoch ==
    \A t \in Threads :
        /\ pc[t] \in {"pin_store", "pinned"} => ep[t] # 0 /\ ep[t] <= global_epoch
        /\ pc[t] = "pinned" => thread_epoch[tid[t]] = ep[t]

Working == {"write", "retire", "push", "scan", "pop", "free", "advance"}

\* Only the writer writes; it holds the current generation and nothing else.
WriterAlone ==
    \A t \in Threads :
        /\ pc[t] \in Working => t \in Writers
        /\ pc[t] = "write" => hold[t] = {current_gen}
        /\ pc[t] \notin {"write", "pinned"} => hold[t] = {}
        /\ pc[t] \in {"pop", "free"} => scan[t] = NumSlots

\* What holds of the threads one by one.
Threadwise == SlotsOwned /\ PinnedEpoch /\ WriterAlone

\* With every thread registered no two threads share a slot of thread_epoch;
\* a pinned thread has published an epoch that is at most the global one; and
\* retiring and collecting are only ever under way in the one writer.
LEMMA ThreadwiseStep ==
    TypeOK /\ OneWriter /\ Threadwise /\ [NextRegistered]_vars => Threadwise'
<1> SUFFICES ASSUME TypeOK, OneWriter, Threadwise PROVE [NextRegistered]_vars => Threadwise'
  OBVIOUS
<1> USE DEF Threadwise, SlotsOwned, PinnedEpoch, WriterAlone, Working
<1>1. ASSUME NEW t \in Threads, PinStart(t) PROVE Threadwise'
  BY <1>1 DEF PinStart, TypeOK
<1>2. ASSUME NEW t \in Threads, PinLoad(t) PROVE Threadwise'
  BY <1>2 DEF PinLoad, TypeOK
<1>3. ASSUME NEW t \in Threads, PinStore(t) PROVE Threadwise'
  BY <1>3 DEF PinStore, StoreEpoch, OneWriter, TypeOK
<1>4. ASSUME NEW t \in Threads, LoadGen(t) PROVE Threadwise'
  BY <1>4 DEF LoadGen, TypeOK
<1>5. ASSUME NEW t \in Threads, LoadRec(t) PROVE Threadwise'
  BY <1>5 DEF LoadRec, TypeOK
<1>6. ASSUME NEW t \in Threads, Unpin(t) PROVE Threadwise'
  BY <1>6 DEF Unpin, StoreEpoch, OneWriter, TypeOK
<1>7. ASSUME NEW t \in Threads, Flush(t) PROVE Threadwise'
  BY <1>7 DEF Flush
<1>8. ASSUME NEW t \in Threads, WriteStart(t) PROVE Threadwise'
  BY <1>8 DEF WriteStart, TypeOK
<1>9. ASSUME NEW t \in Threads, WriteStale(t) PROVE Threadwise'
  BY <1>9 DEF WriteStale, TypeOK
<1>10. ASSUME NEW t \in Threads, Insert(t) PROVE Threadwise'
  BY <1>10 DEF Insert, StartCollect, TypeOK
<1>11. ASSUME NEW t \in Threads, Remove(t) PROVE Threadwise'
  BY <1>11 DEF Remove, TypeOK
<1>12. ASSUME NEW t \in Threads, RemoveMiss(t) PROVE Threadwise'
  BY <1>12 DEF RemoveMiss, StartCollect, TypeOK
<1>13. ASSUME NEW t \in Threads, Grow(t) PROVE Threadwise'
  BY <1>13 DEF Grow, OneWriter, TypeOK
<1>14. ASSUME NEW t \in Threads, RetireLoad(t) PROVE Threadwise'
  BY <1>14 DEF RetireLoad, TypeOK
<1>15. ASSUME NEW t \in Threads, RetirePush(t) PROVE Threadwise'
  <2>1. /\ pc' = [pc EXCEPT ![t] = IF target[t] \in Gens THEN "idle" ELSE "scan"]
        /\ scan' = IF target[t] \in Gens THEN scan ELSE [scan EXCEPT ![t] = 0]
        /\ UNCHANGED <<hold, current_gen, tid, buffer, ep, thread_epoch, global_epoch>>
    BY <1>15 DEF RetirePush, AfterRetire, StartCollect
  <2>q. QED
    BY <1>15, <2>1 DEF RetirePush, TypeOK
<1>16. ASSUME NEW t \in Threads, RetireOom(t) PROVE Threadwise'
  BY <1>16 DEF RetireOom, OneWriter, TypeOK
<1>17. ASSUME NEW t \in Threads, ScanSlot(t) PROVE Threadwise'
  BY <1>17 DEF ScanSlot, TypeOK
<1>18. ASSUME NEW t \in Threads, ScanDone(t) PROVE Threadwise'
  BY <1>18 DEF ScanDone, TypeOK
<1>19. ASSUME NEW t \in Threads, Pop(t) PROVE Threadwise'
  BY <1>19 DEF Pop, TypeOK
<1>20. ASSUME NEW t \in Threads, Free(t) PROVE Threadwise'
  BY <1>20 DEF Free, TypeOK
<1>21. ASSUME NEW t \in Threads, Repend(t) PROVE Threadwise'
  BY <1>21 DEF Repend, TypeOK
<1>22. ASSUME NEW t \in Threads, Advance(t) PROVE Threadwise'
  BY <1>22 DEF Advance, TypeOK
<1>23. CASE UNCHANGED vars
  BY <1>23 DEF vars
<1>q. QED
  BY <1>1, <1>2, <1>3, <1>4, <1>5, <1>6, <1>7, <1>8, <1>9, <1>10, <1>11, <1>12, <1>13, <1>14, <1>15, <1>16, <1>17, <1>18, <1>19, <1>20, <1>21, <1>22, <1>23, Zenon
     DEF NextRegistered, Read, Write, Collect
----------------------------------------------------------------------------

\* What a reader can still get at: what it holds, and the records that the
\* generation it holds refers to, which is an old one after a grow.
Reach(t) == hold[t] \cup UNION {slots[g] : g \in hold[t] \cap Gens}

\* Object o cannot be freed while u stays pinned: it is retired no earlier
\* than u's epoch, and a collection that has passed u's slot saw u in it.
Protected(u, o) ==
    /\ state[o] # "free"
    /\ \A k \in Kinds : \A n \in retire_head[k] :
          n.obj = o => ep[u] <= n.retire_epoch
    /\ \A w \in Threads : \A n \in popped[w] :
          n.obj = o => ep[u] <= n.retire_epoch
    /\ \A w \in Threads : target[w] = o /\ pc[w] = "push" => ep[u] <= ep[w]
    /\ state[o] = "unlinked" =>
          \A w \in Threads : pc[w] \in {"scan", "pop", "free"} /\ tid[u] < scan[w] =>
              min_ep[w] # UINT64_MAX /\ min_ep[w] <= ep[u]

ReachProtected ==
    \A u \in Threads : pc[u] = "pinned" => \A o \in Reach(u) : Protected(u, o)

OneWriterInv == Threadwise /\ ReachProtected

\* Reachable objects stay protected in a step of a thread that is not
\* pinned after it, retires nothing and extends no collection's scan.
LEMMA ReachFrame ==
    ASSUME ReachProtected, NEW t \in Threads,
           UNCHANGED <<state, slots, tid, target, retire_head, popped>>,
           \A u \in Threads \ {t} : pc'[u] = pc[u] /\ ep'[u] = ep[u] /\ hold'[u] = hold[u],
           pc'[t] \notin {"pinned", "push"},
           \A u, w \in Threads :
               pc'[w] \in {"scan", "pop", "free"} /\ tid[u] < scan'[w] =>
                   /\ pc[w] \in {"scan", "pop", "free"} /\ tid[u] < scan[w]
                   /\ min_ep'[w] = min_ep[w]
    PROVE  ReachProtected'
<1> SUFFICES ASSUME NEW u \in Threads, pc'[u] = "pinned", NEW o \in Reach(u)'
             PROVE  Protected(u, o)'
  BY DEF ReachProtected
<1>1. u # t /\ pc[u] = "pinned" /\ o \in Reach(u)
  BY DEF Reach
<1>2. Protected(u, o)
  BY <1>1 DEF ReachProtected
<1>q. QED
  BY <1>1, <1>2 DEF Protected

\* A step after which the lists name nothing new, and no collection has
\* passed a slot that it had not passed before.
ListsKept == \A k \in Kinds : \A n \in retire_head'[k] :
    n \in retire_head[k] \/ \E w \in Threads : n \in popped[w]
CollectorsKept == \A w \in Threads :
    /\ popped'[w] \subseteq popped[w]
    /\ pc'[w] = "push" => pc[w] = "push" /\ target'[w] = target[w] /\ ep'[w] = ep[w]
    /\ pc'[w] \in {"scan", "pop", "free"} =>
           pc[w] \in {"scan", "pop", "free"} /\ scan'[w] = scan[w] /\ min_ep'[w] = min_ep[w]

\* The same for one object: it stays protected in such a step if it is not
\* freed.
LEMMA ProtectedFrame ==
    ASSUME NEW u \in Threads, NEW o, Protected(u, o), state'[o] = state[o], ep'[u] = ep[u], tid'[u] = tid[u],
           ListsKept, CollectorsKept
    PROVE  Protected(u, o)'
<1>1. \A k \in Kinds : \A n \in retire_head'[k] : n.obj = o => ep'[u] <= n.retire_epoch
  BY DEF Protected, ListsKept
<1>2. \A w \in Threads : \A n \in popped'[w] : n.obj = o => ep'[u] <= n.retire_epoch
  BY DEF Protected, CollectorsKept
<1>3. \A w \in Threads : target'[w] = o /\ pc'[w] = "push" => ep'[u] <= ep'[w]
  BY DEF Protected, CollectorsKept
<1>4. state'[o] # "free"
  BY DEF Protected
<1>5. state'[o] = "unlinked" =>
          \A w \in Threads : pc'[w] \in {"scan", "pop", "free"} /\ tid'[u] < scan'[w] =>
              min_ep'[w] # UINT64_MAX /\ min_ep'[w] <= ep'[u]
  BY DEF Protected, CollectorsKept
<1> QED
  BY <1>1, <1>2, <1>3, <1>4, <1>5, Zenon DEF Protected

\* And in a step that unlinks an object, after which no one collects.
LEMMA ProtectedIdle ==
    ASSUME NEW u \in Threads, NEW o, Protected(u, o), state'[o] # "free",
           retire_head' = retire_head, popped' = popped, ep' = ep,
           \A w \in Threads : pc'[w] \notin {"push", "scan", "pop", "free"}
    PROVE  Protected(u, o)'
  BY Zenon DEF Protected

\* While the one writer is unlinking, no thread pushes or collects.
LEMMA NoCollector ==
    ASSUME TypeOK, OneWriter, WriterAlone, NEW t \in Threads,
           pc[t] = "write", pc' = [pc EXCEPT ![t] = "retire"]
    PROVE  \A w \in Threads : pc'[w] \notin {"push", "scan", "pop", "free"}
<1> SUFFICES ASSUME NEW w \in Threads PROVE pc'[w] \notin {"push", "scan", "pop", "free"}
  OBVIOUS
<1>1. pc'[w] = IF w = t THEN "retire" ELSE pc[w]
  BY DEF TypeOK
<1>2. pc[w] \in {"push", "scan", "pop", "free"} => w = t
  BY DEF WriterAlone, Working, OneWriter
<1> QED
  BY <1>1, <1>2

\* What a pinned reader can reach is retired no earlier than the reader's
\* epoch, and htc_epoch_collect has seen that epoch once it passed the slot.
LEMMA ReachProtectedStep ==
    TypeOK /\ AccountInv /\ OneWriter /\ OneWriterInv /\ [NextRegistered]_vars => ReachProtected'
<1> SUFFICES ASSUME TypeOK, AccountInv, OneWriter, SlotsOwned, PinnedEpoch, WriterAlone, ReachProtected
             PROVE  [NextRegistered]_vars => ReachProtected'
  BY DEF OneWriterInv, Threadwise
<1>1. ASSUME NEW t \in Threads, PinStart(t) PROVE ReachProtected'
  BY <1>1, ReachFrame DEF PinStart, TypeOK
<1>2. ASSUME NEW t \in Threads, PinLoad(t) PROVE ReachProtected'
  BY <1>2, ReachFrame DEF PinLoad, TypeOK
<1>3. ASSUME NEW t \in Threads, PinStore(t) PROVE ReachProtected'
  <2> SUFFICES ASSUME NEW u \in Threads, pc'[u] = "pinned", NEW o \in Reach(u)'
               PROVE  Protected(u, o)'
    BY Zenon DEF ReachProtected
  <2>1. CASE u = t
    BY <1>3, <2>1 DEF PinStore, Reach, WriterAlone
  <2>2. CASE u # t
    <3>1. pc[u] = "pinned" /\ o \in Reach(u)
      BY <1>3, <2>2 DEF PinStore, Reach, TypeOK
    <3>2. Protected(u, o)
      BY <3>1, Zenon DEF ReachProtected
    <3>3. /\ state' = state /\ ep' = ep /\ tid' = tid /\ retire_head' = retire_head
          /\ popped' = popped /\ target' = target /\ scan' = scan /\ min_ep' = min_ep
      BY <1>3 DEF PinStore
    <3>4. \A w \in Threads : pc'[w] = pc[w] \/ pc'[w] = "pinned"
      BY <1>3 DEF PinStore, TypeOK
    <3>5. ListsKept /\ CollectorsKept
      BY <3>3, <3>4 DEF ListsKept, CollectorsKept
    <3>q. QED
      BY <3>2, <3>3, <3>5, ProtectedFrame, Zenon
  <2>q. QED
    BY <2>1, <2>2
<1>4. ASSUME NEW t \in Threads, LoadGen(t) PROVE ReachProtected'
  <2> SUFFICES ASSUME NEW u \in Threads, pc'[u] = "pinned", NEW o \in Reach(u)'
               PROVE  Protected(u, o)'
    BY Zenon DEF ReachProtected
  <2>1. CASE u = t
    <3>1. o = current_gen \/ o \in slots[current_gen]
      BY <1>4, <2>1 DEF LoadGen, Reach
    <3>2. o \in Objs /\ state[o] = "linked"
      BY <3>1 DEF AccountInv, CurrentLinked, TypeOK, Objs
    <3>q. QED
      BY <1>4, <3>2 DEF LoadGen, Protected, AccountInv, ListedUnlinked, PoppedUnlinked, TargetUnlinked
  <2>2. CASE u # t
    <3>1. pc[u] = "pinned" /\ o \in Reach(u)
      BY <1>4, <2>2 DEF LoadGen, Reach
    <3>2. Protected(u, o)
      BY <3>1, Zenon DEF ReachProtected
    <3>3. /\ state' = state /\ ep' = ep /\ tid' = tid /\ retire_head' = retire_head
          /\ popped' = popped /\ target' = target /\ scan' = scan /\ min_ep' = min_ep /\ pc' = pc
      BY <1>4 DEF LoadGen
    <3>4. ListsKept /\ CollectorsKept
      BY <3>3 DEF ListsKept, CollectorsKept
    <3>q. QED
      BY <3>2, <3>3, <3>4, ProtectedFrame, Zenon
  <2>q. QED
    BY <2>1, <2>2
<1>5. ASSUME NEW t \in Threads, LoadRec(t) PROVE ReachProtected'
  <2> SUFFICES ASSUME NEW u \in Threads, pc'[u] = "pinned", NEW o \in Reach(u)'
               PROVE  Protected(u, o)'
    BY Zenon DEF ReachProtected
  <2>1. pc[u] = "pinned" /\ o \in Reach(u)
    BY <1>5 DEF LoadRec, Reach, TypeOK
  <2>2. Protected(u, o)
    BY <2>1, Zenon DEF ReachProtected
  <2>3. /\ state' = state /\ ep' = ep /\ tid' = tid /\ retire_head' = retire_head
        /\ popped' = popped /\ target' = target /\ scan' = scan /\ min_ep' = min_ep /\ pc' = pc
    BY <1>5 DEF LoadRec
  <2>4. ListsKept /\ CollectorsKept
    BY <2>3 DEF ListsKept, CollectorsKept
  <2>q. QED
    BY <2>2, <2>3, <2>4, ProtectedFrame, Zenon
<1>6. ASSUME NEW t \in Threads, Unpin(t) PROVE ReachProtected'
  BY <1>6, ReachFrame DEF Unpin, TypeOK
<1>7. ASSUME NEW t \in Threads, Flush(t) PROVE ReachProtected'
  BY <1>7 DEF Flush, SlotsOwned
<1>8. ASSUME NEW t \in Threads, WriteStart(t) PROVE ReachProtected'
  BY <1>8, ReachFrame DEF WriteStart, TypeOK
<1>9. ASSUME NEW t \in Threads, WriteStale(t) PROVE ReachProtected'
  BY <1>9, ReachFrame DEF WriteStale, TypeOK
<1>10. ASSUME NEW t \in Threads, Insert(t) PROVE ReachProtected'
  <2> SUFFICES ASSUME NEW u \in Threads, pc'[u] = "pinned", NEW o \in Reach(u)'
               PROVE  Protected(u, o)'
    BY Zenon DEF ReachProtected
  <2>1. PICK r \in Recs : /\ state[r] = "free"
                          /\ state' = [state EXCEPT ![r] = "linked"]
                          /\ slots' = [slots EXCEPT ![current_gen] = @ \cup {r}]
    BY <1>10, Zenon DEF Insert
  <2>2. u # t /\ pc[u] = "pinned" /\ (o \in Reach(u) \/ o = r)
    BY <1>10, <2>1 DEF Insert, StartCollect, Reach
  <2>3. CASE o = r
    BY <1>10, <2>1, <2>3 DEF Insert, StartCollect, Protected, AccountInv, ListedUnlinked,
        PoppedUnlinked, TargetUnlinked, TypeOK, Objs
  <2>4. CASE o \in Reach(u) /\ o # r
    <3>1. Protected(u, o)
      BY <2>2, <2>4, Zenon DEF ReachProtected
    <3>2. o \in Objs
      BY <2>4 DEF Reach, TypeOK, Objs
    <3>q. QED
      BY <1>10, <2>1, <2>2, <2>4, <3>1, <3>2 DEF Insert, StartCollect, Protected, TypeOK, Objs
  <2>q. QED
    BY <2>2, <2>3, <2>4
<1>11. ASSUME NEW t \in Threads, Remove(t) PROVE ReachProtected'
  <2> SUFFICES ASSUME NEW u \in Threads, pc'[u] = "pinned", NEW o \in Reach(u)'
               PROVE  Protected(u, o)'
    BY Zenon DEF ReachProtected
  <2>2. u # t /\ pc[u] = "pinned" /\ o \in Reach(u)
    BY <1>11 DEF Remove, Reach
  <2>3. Protected(u, o)
    BY <2>2, Zenon DEF ReachProtected
  <2>4. \A w \in Threads : pc'[w] \notin {"push", "scan", "pop", "free"}
    <3>1. pc[t] = "write" /\ pc' = [pc EXCEPT ![t] = "retire"]
      BY <1>11 DEF Remove
    <3>q. QED
      BY <3>1, NoCollector, Zenon
  <2>5. PICK r \in slots[current_gen] : state' = [state EXCEPT ![r] = "unlinked"]
    BY <1>11, Zenon DEF Remove
  <2>6. o \in Objs
    BY <2>2 DEF Reach, TypeOK, Objs
  <2>7. state'[o] # "free"
    BY <2>3, <2>5, <2>6, Zenon DEF Protected, TypeOK
  <2>8. retire_head' = retire_head /\ popped' = popped /\ ep' = ep
    BY <1>11 DEF Remove
  <2>q. QED
    BY <2>3, <2>4, <2>7, <2>8, ProtectedIdle, Zenon
<1>12. ASSUME NEW t \in Threads, RemoveMiss(t) PROVE ReachProtected'
  BY <1>12, ReachFrame DEF RemoveMiss, StartCollect, TypeOK
<1>13. ASSUME NEW t \in Threads, Grow(t) PROVE ReachProtected'
  <2> SUFFICES ASSUME NEW u \in Threads, pc'[u] = "pinned", NEW o \in Reach(u)'
               PROVE  Protected(u, o)'
    BY Zenon DEF ReachProtected
  <2>1. PICK g \in Gens :
                 /\ state[g] = "free"
                 /\ state' = [state EXCEPT ![g] = "linked", ![current_gen] = "unlinked"]
                 /\ slots' = [slots EXCEPT ![g] = slots[current_gen]]
    BY <1>13, Zenon DEF Grow
  <2>2. u # t /\ pc[u] = "pinned"
    BY <1>13 DEF Grow, TypeOK
  <2>3. g \notin Reach(u)
    BY <2>1, <2>2 DEF ReachProtected, Protected
  <2>4. o \in Reach(u)
    BY <1>13, <2>1, <2>3 DEF Grow, Reach
  <2>5. Protected(u, o)
    BY <2>2, <2>4, Zenon DEF ReachProtected
  <2>6. \A w \in Threads : pc'[w] \notin {"push", "scan", "pop", "free"}
    <3>1. pc[t] = "write" /\ pc' = [pc EXCEPT ![t] = "retire"]
      BY <1>13 DEF Grow
    <3>q. QED
      BY <3>1, NoCollector, Zenon
  <2>7. o \in Objs /\ g \in Objs /\ current_gen \in Objs /\ o # g
    BY <2>3, <2>4 DEF Reach, TypeOK, Objs
  <2>8. state'[o] # "free"
    BY <2>1, <2>5, <2>7 DEF Protected, TypeOK
  <2>9. retire_head' = retire_head /\ popped' = popped /\ ep' = ep
    BY <1>13 DEF Grow
  <2>q. QED
    BY <2>5, <2>6, <2>8, <2>9, ProtectedIdle, Zenon
<1>14. ASSUME NEW t \in Threads, RetireLoad(t) PROVE ReachProtected'
  <2> SUFFICES ASSUME NEW u \in Threads, pc'[u] = "pinned", NEW o \in Reach(u)'
               PROVE  Protected(u, o)'
    BY Zenon DEF ReachProtected
  <2>1. u # t /\ pc[u] = "pinned" /\ o \in Reach(u)
    BY <1>14 DEF RetireLoad, Reach
  <2>2. Protected(u, o)
    BY <2>1, Zenon DEF ReachProtected
  <2>3. ep[u] <= global_epoch
    BY <2>1, Zenon DEF PinnedEpoch
  <2>q. QED
    BY <1>14, <2>2, <2>3, Zenon DEF RetireLoad, Protected, TypeOK
<1>15. ASSUME NEW t \in Threads, RetirePush(t) PROVE ReachProtected'
  <2> SUFFICES ASSUME NEW u \in Threads, pc'[u] = "pinned", NEW o \in Reach(u)'
               PROVE  Protected(u, o)'
    BY Zenon DEF ReachProtected
  <2> DEFINE new == [obj |-> target[t], retire_epoch |-> ep[t] + 2]
  <2>1. u # t /\ pc[u] = "pinned" /\ o \in Reach(u)
    BY <1>15 DEF RetirePush, AfterRetire, StartCollect, Reach, TypeOK
  <2>2. Protected(u, o)
    BY <2>1, Zenon DEF ReachProtected
  <2>3. ASSUME NEW k \in Kinds, NEW n \in retire_head'[k], n.obj = o
        PROVE  ep[u] <= n.retire_epoch
    <3>1. n \in retire_head[k] \/ n = new
      BY <1>15 DEF RetirePush
    <3>2. CASE n \in retire_head[k]
      BY <2>2, <2>3, <3>2, Zenon DEF Protected
    <3>3. CASE n = new
      <4>1. target[t] = o /\ n.retire_epoch = ep[t] + 2
        BY <2>3, <3>3
      <4>2. ep[u] <= ep[t]
        BY <1>15, <2>2, <4>1, Zenon DEF Protected, RetirePush
      <4>q. QED
        BY <4>1, <4>2 DEF TypeOK
    <3>q. QED
      BY <3>1, <3>2, <3>3, Zenon
  <2>4. \A w \in Threads : /\ pc'[w] # "push"
                           /\ pc'[w] \in {"scan", "pop", "free"} => scan'[w] = 0
    BY <1>15 DEF RetirePush, AfterRetire, StartCollect, WriterAlone, Working, OneWriter, TypeOK
  <2>5. tid[u] >= 0 /\ UNCHANGED <<state, popped, tid, ep>>
    BY <1>15 DEF RetirePush, TypeOK
  <2>6. \A w \in Threads : ~ (pc'[w] \in {"scan", "pop", "free"} /\ tid'[u] < scan'[w])
    BY <2>4, <2>5 DEF TypeOK
  <2>q. QED
    BY <2>2, <2>3, <2>4, <2>5, <2>6, Zenon DEF Protected
<1>16. ASSUME NEW t \in Threads, RetireOom(t) PROVE ReachProtected'
  BY <1>16 DEF RetireOom, OneWriter, TypeOK
<1>17. ASSUME NEW t \in Threads, ScanSlot(t) PROVE ReachProtected'
  <2> SUFFICES ASSUME NEW u \in Threads, pc'[u] = "pinned", NEW o \in Reach(u)'
               PROVE  Protected(u, o)'
    BY Zenon DEF ReachProtected
  <2>1. pc[u] = "pinned" /\ o \in Reach(u) /\ u # t
    BY <1>17 DEF ScanSlot, Reach
  <2>2. Protected(u, o)
    BY <2>1, Zenon DEF ReachProtected
  <2>3. thread_epoch[tid[u]] = ep[u] /\ ep[u] # 0 /\ tid[u] \in Slots
    BY <2>1, Zenon DEF PinnedEpoch, SlotsOwned
  <2>4. ASSUME state[o] = "unlinked", tid[u] < scan[t] + 1
        PROVE  min_ep'[t] # UINT64_MAX /\ min_ep'[t] <= ep[u]
    <3>1. CASE tid[u] = scan[t]
      BY <1>17, <2>3, <3>1 DEF ScanSlot, TypeOK
    <3>2. CASE tid[u] < scan[t]
      <4>1. min_ep[t] # UINT64_MAX /\ min_ep[t] <= ep[u]
        BY <1>17, <2>2, <2>4, <3>2, Zenon DEF Protected, ScanSlot
      <4>2. min_ep \in [Threads -> Nat \cup {UINT64_MAX}] /\ ep[u] \in Nat /\ thread_epoch[scan[t]] \in Nat
        BY <1>17, Zenon DEF ScanSlot, TypeOK
      <4>q. QED
        BY <1>17, <2>3, <4>1, <4>2 DEF ScanSlot
    <3>q. QED
      <4>1. tid[u] \in Nat /\ scan[t] \in Nat
        BY <1>17, <2>3 DEF ScanSlot, Slots
      <4>q. QED
        BY <2>4, <3>1, <3>2, <4>1
  <2>5. /\ UNCHANGED <<state, popped, retire_head, tid, ep, target, pc>>
        /\ scan'[t] = scan[t] + 1
        /\ \A w \in Threads \ {t} : scan'[w] = scan[w] /\ min_ep'[w] = min_ep[w]
    BY <1>17, Zenon DEF ScanSlot, TypeOK
  <2>q. QED
    BY <2>2, <2>4, <2>5, Zenon DEF Protected
<1>18. ASSUME NEW t \in Threads, ScanDone(t) PROVE ReachProtected'
  BY <1>18, ReachFrame DEF ScanDone, TypeOK
<1>19. ASSUME NEW t \in Threads, Pop(t) PROVE ReachProtected'
  <2> SUFFICES ASSUME NEW u \in Threads, pc'[u] = "pinned", NEW o \in Reach(u)'
               PROVE  Protected(u, o)'
    BY Zenon DEF ReachProtected
  <2>1. u # t /\ pc[u] = "pinned" /\ o \in Reach(u)
    BY <1>19 DEF Pop, Reach
  <2>2. Protected(u, o)
    BY <2>1, Zenon DEF ReachProtected
  <2>q. QED
    BY <1>19, <2>2, Zenon DEF Pop, Protected, TypeOK
<1>20. ASSUME NEW t \in Threads, Free(t) PROVE ReachProtected'
  <2> SUFFICES ASSUME NEW u \in Threads, pc'[u] = "pinned", NEW o \in Reach(u)'
               PROVE  Protected(u, o)'
    BY Zenon DEF ReachProtected
  <2>1. u # t /\ pc[u] = "pinned" /\ o \in Reach(u)
    <3>1. pc[t] = "free" /\ pc' = pc /\ hold' = hold /\ slots' = slots
      BY <1>20 DEF Free
    <3>q. QED
      BY <3>1 DEF Reach
  <2>2. Protected(u, o)
    BY <2>1, Zenon DEF ReachProtected
  <2>3. PICK m \in popped[t] : /\ Collectable(t, m)
                               /\ state' = [state EXCEPT ![m.obj] = "free"]
                               /\ popped' = [popped EXCEPT ![t] = @ \ {m}]
    BY <1>20, Zenon DEF Free
  <2>4. m.obj # o
    <3> SUFFICES ASSUME m.obj = o PROVE FALSE
      OBVIOUS
    <3>1. state[o] = "unlinked" /\ tid[u] < scan[t]
      BY DEF AccountInv, PoppedUnlinked, WriterAlone, SlotsOwned, Slots
    <3>2. min_ep[t] # UINT64_MAX /\ min_ep[t] <= ep[u] /\ ep[u] <= m.retire_epoch
      BY <1>20, <2>2, <3>1, Zenon DEF Free, Protected
    <3>3. m.retire_epoch < min_ep[t]
      BY <2>3, <3>2 DEF Collectable
    <3>4. m.retire_epoch \in Nat /\ min_ep[t] \in Nat /\ ep[u] \in Nat
      BY <3>2 DEF TypeOK, Node
    <3>q. QED
      BY <3>2, <3>3, <3>4
  <2>5. state'[o] = state[o]
    BY <2>3, <2>4
  <2>6. /\ ep' = ep /\ tid' = tid /\ retire_head' = retire_head /\ target' = target
        /\ scan' = scan /\ min_ep' = min_ep /\ pc' = pc
    BY <1>20 DEF Free
  <2>7. \A w \in Threads : popped'[w] \subseteq popped[w]
    BY <2>3, Zenon DEF TypeOK
  <2>8. ListsKept /\ CollectorsKept
    BY <2>6, <2>7 DEF ListsKept, CollectorsKept
  <2>q. QED
    BY <2>2, <2>5, <2>6, <2>8, ProtectedFrame, Zenon
<1>21. ASSUME NEW t \in Threads, Repend(t) PROVE ReachProtected'
  <2> SUFFICES ASSUME NEW u \in Threads, pc'[u] = "pinned", NEW o \in Reach(u)'
               PROVE  Protected(u, o)'
    BY Zenon DEF ReachProtected
  <2>1. u # t /\ pc[u] = "pinned" /\ o \in Reach(u)
    BY <1>21 DEF Repend, Reach
  <2>2. Protected(u, o)
    BY <2>1, Zenon DEF ReachProtected
  <2>3. state' = state /\ ep' = ep /\ tid' = tid /\ target' = target /\ scan' = scan /\ min_ep' = min_ep
    BY <1>21 DEF Repend
  <2>4. \A w \in Threads : /\ popped'[w] \subseteq popped[w]
                           /\ pc'[w] = pc[w] \/ (pc[w] = "free" /\ pc'[w] \in {"pop", "advance"})
    BY <1>21, Zenon DEF Repend, TypeOK
  <2>5. ListsKept
    BY <1>21, Zenon DEF Repend, TypeOK, ListsKept
  <2>6. CollectorsKept
    BY <2>3, <2>4 DEF CollectorsKept
  <2>q. QED
    BY <2>2, <2>3, <2>5, <2>6, ProtectedFrame, Zenon
<1>22. ASSUME NEW t \in Threads, Advance(t) PROVE ReachProtected'
  BY <1>22, ReachFrame, Zenon DEF Advance, TypeOK
<1>23. CASE UNCHANGED vars
  <2>1. /\ state' = state /\ retire_head' = retire_head /\ popped' = popped
        /\ target' = target /\ pc' = pc /\ ep' = ep /\ tid' = tid /\ scan' = scan
        /\ min_ep' = min_ep /\ hold' = hold /\ slots' = slots
    BY <1>23 DEF vars
  <2>2. ASSUME NEW u \in Threads PROVE Reach(u)' = Reach(u)
    BY <2>1, Zenon DEF Reach
  <2>3. ASSUME NEW u \in Threads, NEW o PROVE Protected(u, o)' <=> Protected(u, o)
    BY <2>1, Zenon DEF Protected
  <2>q. QED
    BY <2>1, <2>2, <2>3, Zenon DEF ReachProtected
<1>q. QED
  BY <1>1, <1>2, <1>3, <1>4, <1>5, <1>6, <1>7, <1>8, <1>9, <1>10, <1>11, <1>12, <1>13, <1>14, <1>15, <1>16, <1>17, <1>18, <1>19, <1>20, <1>21, <1>22, <1>23, Zenon
     DEF NextRegistered, Read, Write, Collect

\* htc.c reclaims safely when a single thread writes: however many readers
\* pin, load and unpin meanwhile, none of them, nor the writer, ever has a
\* pointer to a record or generation that has been freed.
THEOREM OneWriterSafe ==
  ASSUME OneWriter
  PROVE  SpecRegistered => []NoUseAfterFree
<1> DEFINE I == TypeOK /\ AccountInv /\ OneWriterInv
<1>1. InitRegistered => I
  <2> SUFFICES ASSUME InitRegistered PROVE I
    OBVIOUS
  <2>1. TypeOK
    BY TypeInit DEF InitRegistered, Slots
  <2>2. OneWriterInv
    BY DEF InitRegistered, InitTable, OneWriterInv, Threadwise, SlotsOwned, PinnedEpoch,
           WriterAlone, ReachProtected, Working
  <2>q. QED
    BY <2>1, <2>2, AccountInit DEF InitRegistered
<1>2. [NextRegistered]_vars => [Next]_vars
  BY DEF NextRegistered, Next
<1>3. I /\ [NextRegistered]_vars => I'
  BY <1>2, TypeStep, AccountStep, ThreadwiseStep, ReachProtectedStep DEF OneWriterInv
<1>4. I => NoUseAfterFree
  <2> SUFFICES ASSUME I PROVE NoUseAfterFree
    OBVIOUS
  <2>1. PinnedReaderSafe
    BY DEF OneWriterInv, PinnedReaderSafe, ReachProtected, Reach, Protected
  <2>2. WriterGenSafe
    BY DEF OneWriterInv, Threadwise, WriterGenSafe, WriterAlone, AccountInv, CurrentLinked
  <2>q. QED
    BY <2>1, <2>2 DEF NoUseAfterFree
<1>q. QED
  BY <1>1, <1>3, <1>4, PTL DEF SpecRegistered
=============================================================================
