------------------------------ MODULE HtcEpoch ------------------------------
(***************************************************************************)
(* Epoch-based reclamation of the concurrent table (src/src/htc.c):        *)
(* pinning, retirement and collection of arena records and of table        *)
(* generations, at the granularity of the atomic loads and stores of the   *)
(* code.                                                                   *)
(*                                                                         *)
(* Objects are arena records and generations.  A generation refers to the  *)
(* records in its buckets and stashes.  A reader pins an epoch, loads the  *)
(* current generation, loads records out of it, dereferences both and      *)
(* unpins.  A writer links or unlinks a record or publishes a generation,  *)
(* retires what it unlinked, and collects.  The shard locks are the        *)
(* subject of HtcWriters: here a change of the table is one step, and the  *)
(* locks are held until what it unlinked is retired.                       *)
(***************************************************************************)
EXTENDS Integers

CONSTANTS
    Threads,        \* threads using the table
    Writers,        \* the threads among them that insert, remove and grow
    NumSlots,       \* HTC_EPOCH_MAX_THREADS
    Recs, Gens,     \* arena records and generations
    StoreBuffers,   \* TRUE: x86, a store may become visible after later loads
    MaxOps,         \* bound: write operations in a behaviour
    MaxOom,         \* bound: failed allocations of a retire node
    None,           \* no object
    UINT64_MAX      \* the value of min_ep when no thread is pinned

Slots == 0 .. NumSlots - 1
NoSlot == NumSlots          \* htc_epoch_tid = UINT_MAX
Objs == Recs \cup Gens
Kinds == {"rec", "gen"}
Kind(o) == IF o \in Recs THEN "rec" ELSE "gen"

ASSUME EpochConstants ==
    /\ NumSlots \in Nat \ {0}
    /\ Writers \subseteq Threads
    /\ Recs \cap Gens = {}
    /\ Gens # {}
    /\ None \notin Objs
    /\ UINT64_MAX \notin Nat
    /\ StoreBuffers \in BOOLEAN
    /\ MaxOps \in Nat /\ MaxOom \in Nat

VARIABLES
    global_epoch,
    thread_epoch,   \* [Slots -> Nat], 0 = not pinned
    retire_head,    \* [Kinds -> sets of retire nodes]: retire_head and retire_gen_head
    current_gen,
    slots,          \* [Gens -> SUBSET Recs]: the records a generation refers to
    state,          \* [Objs -> {"free", "linked", "unlinked"}]
    tid,            \* htc_epoch_tid of each thread
    pc,
    ep,             \* the epoch a thread loaded (pin: e, retire: cur)
    hold,           \* the objects a thread has a pointer to
    target,         \* the object a writer has unlinked and not yet retired
    scan,           \* next epoch slot a registration or collection looks at
    min_ep,
    popped,         \* the retire nodes a collector has popped
    phase,          \* the list a collector works on
    buffer,         \* the store to thread_epoch that is not yet visible (x86 only;
                    \* bound: one store at a time waits in a store buffer)
    ops, ooms

shared == <<global_epoch, thread_epoch, retire_head, current_gen, slots, state>>
reader == <<tid, ep, hold, buffer>>
collector == <<scan, min_ep, popped, phase>>
counts == <<ops, ooms>>
vars == <<shared, reader, collector, counts, pc, target>>

Store == [slot : Slots, epoch : Nat]
Node == [obj : Objs, retire_epoch : Nat]

InitTable ==
    /\ global_epoch = 1
    /\ thread_epoch = [i \in Slots |-> 0]
    /\ retire_head = [k \in Kinds |-> {}]
    /\ current_gen \in Gens
    /\ slots = [g \in Gens |-> {}]
    /\ state = [o \in Objs |-> IF o = current_gen THEN "linked" ELSE "free"]
    /\ pc = [t \in Threads |-> "idle"]
    /\ ep = [t \in Threads |-> 0]
    /\ hold = [t \in Threads |-> {}]
    /\ target = [t \in Threads |-> None]
    /\ scan = [t \in Threads |-> 0]
    /\ min_ep = [t \in Threads |-> UINT64_MAX]
    /\ popped = [t \in Threads |-> {}]
    /\ phase = [t \in Threads |-> "rec"]
    /\ buffer = [t \in Threads |-> {}]
    /\ ops = 0 /\ ooms = 0

Init == InitTable /\ tid = [t \in Threads |-> NoSlot]

Goto(t, l) == pc' = [pc EXCEPT ![t] = l]
-----------------------------------------------------------------------------
(* htc_epoch_pin, htc_epoch_unpin, htc_thread_detach and the accesses in   *)
(* between (htc_find_scoped, htc_update).                                  *)

\* a store to the thread's epoch slot: through the store buffer on x86
StoreEpoch(t, e) ==
    \/ /\ StoreBuffers
       /\ buffer[t] = {}
       /\ buffer' = [buffer EXCEPT ![t] = {[slot |-> tid[t], epoch |-> e]}]
       /\ UNCHANGED thread_epoch
    \/ /\ ~ StoreBuffers
       /\ thread_epoch' = [thread_epoch EXCEPT ![tid[t]] = e]
       /\ UNCHANGED buffer

Flush(t) ==
    /\ \E s \in buffer[t] :
          thread_epoch' = [thread_epoch EXCEPT ![s.slot] = s.epoch]
    /\ buffer' = [buffer EXCEPT ![t] = {}]
    /\ UNCHANGED <<global_epoch, retire_head, current_gen, slots, state,
                   tid, ep, hold, collector, counts, pc, target>>

PinStart(t) ==
    /\ pc[t] = "idle"
    /\ Goto(t, IF tid[t] = NoSlot THEN "register" ELSE "pin_load")
    /\ scan' = [scan EXCEPT ![t] = 0]
    /\ UNCHANGED <<shared, reader, min_ep, popped, phase, counts, target>>

\* htc_epoch_register: one compare-and-swap of the loop that succeeds ...
RegisterClaim(t) ==
    /\ pc[t] = "register"
    /\ scan[t] \in Slots
    /\ buffer[t] = {}
    /\ thread_epoch[scan[t]] = 0
    /\ thread_epoch' = [thread_epoch EXCEPT ![scan[t]] = 1]
    /\ tid' = [tid EXCEPT ![t] = scan[t]]
    /\ Goto(t, "pin_load")
    /\ UNCHANGED <<global_epoch, retire_head, current_gen, slots, state,
                   ep, hold, buffer, collector, counts, target>>

\* ... one that fails ...
RegisterSkip(t) ==
    /\ pc[t] = "register"
    /\ scan[t] \in Slots
    /\ buffer[t] = {}
    /\ thread_epoch[scan[t]] # 0
    /\ scan' = [scan EXCEPT ![t] = @ + 1]
    /\ UNCHANGED <<shared, reader, min_ep, popped, phase, counts, pc, target>>

\* ... and no slot left: the pin returns, and the caller goes on unprotected
RegisterFull(t) ==
    /\ pc[t] = "register"
    /\ scan[t] = NumSlots
    /\ Goto(t, "pinned")
    /\ UNCHANGED <<shared, reader, collector, counts, target>>

Register(t) == RegisterClaim(t) \/ RegisterSkip(t) \/ RegisterFull(t)

PinLoad(t) ==
    /\ pc[t] = "pin_load"
    /\ ep' = [ep EXCEPT ![t] = global_epoch]
    /\ Goto(t, "pin_store")
    /\ UNCHANGED <<shared, tid, hold, buffer, collector, counts, target>>

PinStore(t) ==
    /\ pc[t] = "pin_store"
    /\ StoreEpoch(t, ep[t])
    /\ Goto(t, "pinned")
    /\ UNCHANGED <<global_epoch, retire_head, current_gen, slots, state,
                   tid, ep, hold, collector, counts, target>>

\* the load of t->current_gen of a pinned reader
LoadGen(t) ==
    /\ pc[t] = "pinned"
    /\ hold[t] = {}
    /\ hold' = [hold EXCEPT ![t] = {current_gen}]
    /\ UNCHANGED <<shared, tid, ep, buffer, collector, counts, pc, target>>

\* the load of a slot word of the generation, and with it of a record
LoadRec(t) ==
    /\ pc[t] = "pinned"
    /\ \E g \in hold[t] \cap Gens : \E r \in slots[g] :
          hold' = [hold EXCEPT ![t] = @ \cup {r}]
    /\ UNCHANGED <<shared, tid, ep, buffer, collector, counts, pc, target>>

\* htc_epoch_unpin
Unpin(t) ==
    /\ pc[t] = "pinned"
    /\ hold' = [hold EXCEPT ![t] = {}]
    /\ Goto(t, "idle")
    /\ \/ tid[t] # NoSlot /\ StoreEpoch(t, 0)
       \/ tid[t] = NoSlot /\ UNCHANGED <<thread_epoch, buffer>>
    /\ UNCHANGED <<global_epoch, retire_head, current_gen, slots, state,
                   tid, ep, collector, counts, target>>

Detach(t) ==
    /\ pc[t] = "idle"
    /\ tid[t] # NoSlot
    /\ tid' = [tid EXCEPT ![t] = NoSlot]
    /\ UNCHANGED <<shared, ep, hold, buffer, collector, counts, pc, target>>
-----------------------------------------------------------------------------
(* Write operations.  Each begins by loading t->current_gen WITHOUT        *)
(* pinning, and works on that generation under the shard locks only if it  *)
(* is still the current one.                                               *)

\* A grower holds every shard until it has retired the old generation, a
\* remover two of them until it has retired the record.
NoGrower == \A u \in Threads : target[u] \notin Gens
NoWriter == \A u \in Threads : target[u] = None

WriteStart(t) ==
    /\ t \in Writers
    /\ pc[t] = "idle"
    /\ buffer[t] = {}
    /\ ops < MaxOps
    /\ ops' = ops + 1
    /\ hold' = [hold EXCEPT ![t] = {current_gen}]
    /\ Goto(t, "write")
    /\ UNCHANGED <<shared, tid, ep, buffer, collector, ooms, target>>

\* htc_epoch_collect runs next, from the first epoch slot
StartCollectAtOne(t) ==
    /\ scan' = [scan EXCEPT ![t] = 1]
    /\ min_ep' = [min_ep EXCEPT ![t] = UINT64_MAX]
    /\ phase' = [phase EXCEPT ![t] = "rec"]
    /\ Goto(t, "scan")
StartCollect(t) ==
    /\ scan' = [scan EXCEPT ![t] = 0]
    /\ min_ep' = [min_ep EXCEPT ![t] = UINT64_MAX]
    /\ phase' = [phase EXCEPT ![t] = "rec"]
    /\ Goto(t, "scan")

\* generation changed while waiting for the locks: insert retries, remove
\* returns at once
WriteStale(t) ==
    /\ pc[t] = "write"
    /\ NoGrower
    /\ current_gen \notin hold[t]
    /\ hold' = [hold EXCEPT ![t] = {}]
    /\ Goto(t, "idle")
    /\ UNCHANGED <<shared, tid, ep, buffer, collector, counts, target>>

\* htc_insert: allocate a record and publish its slot word, then collect
Insert(t) ==
    /\ pc[t] = "write"
    /\ NoGrower
    /\ current_gen \in hold[t]
    /\ \E r \in Recs :
          /\ state[r] = "free"
          /\ state' = [state EXCEPT ![r] = "linked"]
          /\ slots' = [slots EXCEPT ![current_gen] = @ \cup {r}]
    /\ hold' = [hold EXCEPT ![t] = {}]
    /\ StartCollect(t)
    /\ UNCHANGED <<global_epoch, thread_epoch, retire_head, current_gen,
                   tid, ep, buffer, popped, counts, target>>

\* htc_remove of a key that is present: mark deleted, clear the slot word
Remove(t) ==
    /\ pc[t] = "write"
    /\ NoGrower
    /\ current_gen \in hold[t]
    /\ \E r \in slots[current_gen] :
          /\ state' = [state EXCEPT ![r] = "unlinked"]
          /\ slots' = [slots EXCEPT ![current_gen] = @ \ {r}]
          /\ target' = [target EXCEPT ![t] = r]
    /\ hold' = [hold EXCEPT ![t] = {}]
    /\ Goto(t, "retire")
    /\ UNCHANGED <<global_epoch, thread_epoch, retire_head, current_gen,
                   tid, ep, buffer, collector, counts>>

\* htc_remove of an absent key: collects all the same
RemoveMiss(t) ==
    /\ pc[t] = "write"
    /\ NoGrower
    /\ current_gen \in hold[t]
    /\ hold' = [hold EXCEPT ![t] = {}]
    /\ StartCollect(t)
    /\ UNCHANGED <<shared, tid, ep, buffer, popped, counts, target>>

\* htc_grow: copy every slot word into a new generation and publish it
Grow(t) ==
    /\ pc[t] = "write"
    /\ NoWriter
    /\ \E g \in Gens :
          /\ state[g] = "free"
          /\ state' = [state EXCEPT ![g] = "linked", ![current_gen] = "unlinked"]
          /\ slots' = [slots EXCEPT ![g] = slots[current_gen]]
          /\ current_gen' = g
    /\ target' = [target EXCEPT ![t] = current_gen]
    /\ hold' = [hold EXCEPT ![t] = {}]
    /\ Goto(t, "retire")
    /\ UNCHANGED <<global_epoch, thread_epoch, retire_head,
                   tid, ep, buffer, collector, counts>>
-----------------------------------------------------------------------------
(* htc_epoch_retire / htc_epoch_retire_gen, then htc_epoch_collect and     *)
(* htc_epoch_advance.  htc_grow retires but does not collect.              *)

RetireLoad(t) ==
    /\ pc[t] = "retire"
    /\ ep' = [ep EXCEPT ![t] = global_epoch]
    /\ Goto(t, "push")
    /\ UNCHANGED <<shared, tid, hold, buffer, collector, counts, target>>

AfterRetire(t) ==
    \/ target[t] \in Recs /\ StartCollect(t)
    \/ target[t] \in Gens /\ Goto(t, "idle") /\ UNCHANGED <<scan, min_ep, phase>>

\* the retire node is pushed
RetirePushKeepsTarget(t) ==
    /\ pc[t] = "push"
    /\ retire_head' = [retire_head EXCEPT ![Kind(target[t])] =
                          @ \cup {[obj |-> target[t], retire_epoch |-> ep[t] + 2]}]
    /\ AfterRetire(t)
    /\ UNCHANGED <<global_epoch, thread_epoch, current_gen, slots, state,
                   reader, popped, counts, target>>
RetirePush(t) ==
    /\ pc[t] = "push"
    /\ retire_head' = [retire_head EXCEPT ![Kind(target[t])] =
                          @ \cup {[obj |-> target[t], retire_epoch |-> ep[t] + 2]}]
    /\ target' = [target EXCEPT ![t] = None]
    /\ AfterRetire(t)
    /\ UNCHANGED <<global_epoch, thread_epoch, current_gen, slots, state,
                   reader, popped, counts>>

\* no memory for the retire node: the object is freed at once
RetireOom(t) ==
    /\ pc[t] = "push"
    /\ ooms < MaxOom
    /\ ooms' = ooms + 1
    /\ state' = [state EXCEPT ![target[t]] = "free"]
    /\ target' = [target EXCEPT ![t] = None]
    /\ AfterRetire(t)
    /\ UNCHANGED <<global_epoch, thread_epoch, retire_head, current_gen, slots,
                   reader, popped, ops>>

\* one iteration of the loop that computes min_ep
ScanSlot(t) ==
    /\ pc[t] = "scan"
    /\ scan[t] \in Slots
    /\ LET te == thread_epoch[scan[t]] IN
          min_ep' = IF te # 0 /\ (min_ep[t] = UINT64_MAX \/ te < min_ep[t])
                    THEN [min_ep EXCEPT ![t] = te]
                    ELSE min_ep
    /\ scan' = [scan EXCEPT ![t] = @ + 1]
    /\ UNCHANGED <<shared, reader, popped, phase, counts, pc, target>>

ScanDone(t) ==
    /\ pc[t] = "scan"
    /\ scan[t] = NumSlots
    /\ Goto(t, "pop")
    /\ UNCHANGED <<shared, reader, collector, counts, target>>

\* the atomic exchange that takes a whole retire list
PopLeavesList(t) ==
    /\ pc[t] = "pop"
    /\ popped' = [popped EXCEPT ![t] = retire_head[phase[t]]]
    /\ Goto(t, "free")
    /\ UNCHANGED <<shared, reader, scan, min_ep, phase, counts, target>>
Pop(t) ==
    /\ pc[t] = "pop"
    /\ popped' = [popped EXCEPT ![t] = retire_head[phase[t]]]
    /\ retire_head' = [retire_head EXCEPT ![phase[t]] = {}]
    /\ Goto(t, "free")
    /\ UNCHANGED <<global_epoch, thread_epoch, current_gen, slots, state,
                   reader, scan, min_ep, phase, counts, target>>

Collectable(t, n) ==
    min_ep[t] # UINT64_MAX => n.retire_epoch < min_ep[t]

Free(t) ==
    /\ pc[t] = "free"
    /\ \E n \in popped[t] :
          /\ Collectable(t, n)
          /\ state' = [state EXCEPT ![n.obj] = "free"]
          /\ popped' = [popped EXCEPT ![t] = @ \ {n}]
    /\ UNCHANGED <<global_epoch, thread_epoch, retire_head, current_gen, slots,
                   reader, scan, min_ep, phase, counts, pc, target>>

\* put back what is not safe yet; first the record list, then the generations
Repend(t) ==
    /\ pc[t] = "free"
    /\ \A n \in popped[t] : ~ Collectable(t, n)
    /\ retire_head' = [retire_head EXCEPT ![phase[t]] = @ \cup popped[t]]
    /\ popped' = [popped EXCEPT ![t] = {}]
    /\ phase' = [phase EXCEPT ![t] = "gen"]
    /\ Goto(t, IF phase[t] = "rec" THEN "pop" ELSE "advance")
    /\ UNCHANGED <<global_epoch, thread_epoch, current_gen, slots, state,
                   reader, scan, min_ep, counts, target>>

Advance(t) ==
    /\ pc[t] = "advance"
    /\ global_epoch' = global_epoch + 1
    /\ Goto(t, "idle")
    /\ UNCHANGED <<thread_epoch, retire_head, current_gen, slots, state,
                   reader, collector, counts, target>>
-----------------------------------------------------------------------------
Read(t) == PinStart(t) \/ PinLoad(t) \/ PinStore(t) \/ LoadGen(t)
               \/ LoadRec(t) \/ Unpin(t) \/ Flush(t)

Write(t) == WriteStart(t) \/ WriteStale(t) \/ Insert(t) \/ Remove(t)
               \/ RemoveMiss(t) \/ Grow(t) \/ RetireLoad(t) \/ RetirePush(t)
               \/ RetireOom(t)

Collect(t) == ScanSlot(t) \/ ScanDone(t) \/ Pop(t) \/ Free(t) \/ Repend(t) \/ Advance(t)

Next == \E t \in Threads : Read(t) \/ Register(t) \/ Detach(t)
                               \/ Write(t) \/ Collect(t)

Spec == Init /\ [][Next]_vars
-----------------------------------------------------------------------------
(* Threads that registered while they overlapped own a slot each; as long  *)
(* as none of them detaches and no new thread arrives, they keep it.       *)

InitRegistered ==
    /\ InitTable
    /\ tid \in [Threads -> Slots]
    /\ \A t, u \in Threads : t # u => tid[t] # tid[u]

NextRegistered == \E t \in Threads : Read(t) \/ Write(t) \/ Collect(t)

SpecRegistered == InitRegistered /\ [][NextRegistered]_vars
-----------------------------------------------------------------------------
Labels == {"idle", "register", "pin_load", "pin_store", "pinned", "write",
           "retire", "push", "scan", "pop", "free", "advance"}

\* The types of the variables; a writer has a target exactly while it is
\* retiring one, and a thread that stores its epoch has a slot.
TypeOK ==
    /\ global_epoch \in Nat \ {0}
    /\ thread_epoch \in [Slots -> Nat]
    /\ retire_head \in [Kinds -> SUBSET Node]
    /\ current_gen \in Gens
    /\ slots \in [Gens -> SUBSET Recs]
    /\ state \in [Objs -> {"free", "linked", "unlinked"}]
    /\ tid \in [Threads -> 0 .. NumSlots]
    /\ pc \in [Threads -> Labels]
    /\ ep \in [Threads -> Nat]
    /\ hold \in [Threads -> SUBSET Objs]
    /\ target \in [Threads -> Objs \cup {None}]
    /\ scan \in [Threads -> 0 .. NumSlots]
    /\ min_ep \in [Threads -> Nat \cup {UINT64_MAX}]
    /\ popped \in [Threads -> SUBSET Node]
    /\ phase \in [Threads -> Kinds]
    /\ buffer \in [Threads -> SUBSET Store]
    /\ ops \in Nat /\ ooms \in Nat
    /\ \A t \in Threads : target[t] # None <=> pc[t] \in {"retire", "push"}
    /\ \A t \in Threads : pc[t] \in {"pin_load", "pin_store"} => tid[t] # NoSlot

\* htc_epoch_pin protects what its caller dereferences: a thread between
\* pin and unpin never has a pointer to a record or a generation that
\* htc_epoch_collect has freed.
PinnedReaderSafe ==
    \A t \in Threads : pc[t] = "pinned" =>
        \A o \in hold[t] : state[o] # "free"

\* A writer that loaded current_gen and waits for its shard locks has not
\* pinned; the generation whose bucket_mask and seed it reads is not freed
\* meanwhile.
WriterGenSafe ==
    \A t \in Threads : pc[t] = "write" =>
        \A o \in hold[t] : state[o] # "free"

\* Both together: no thread, reader or writer, can reach freed memory.
NoUseAfterFree == PinnedReaderSafe /\ WriterGenSafe

\* Where an unlinked object is accounted for: by the writer about to retire
\* it, on a shared retire list, or on the private list of a collector.
Claims(o) ==
    {<<"target", t>> : t \in {u \in Threads : target[u] = o}}
      \cup {<<"listed", n>> : n \in {m \in retire_head[Kind(o)] : m.obj = o}}
      \cup UNION {{<<"popped", t, n>> : n \in {m \in popped[t] : m.obj = o}} : t \in Threads}

\* Retirement loses nothing and frees nothing twice, whatever the
\* interleaving of removers, growers and collectors: an unlinked object is
\* accounted for exactly once, a linked or a free one not at all.
RetiredOnce ==
    \A o \in Objs :
        /\ \A c, d \in Claims(o) : c = d
        /\ Claims(o) # {} <=> state[o] = "unlinked"
=============================================================================
