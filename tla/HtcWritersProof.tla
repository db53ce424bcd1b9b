--------------------------- MODULE HtcWritersProof ---------------------------
(***************************************************************************)
(* The generations of the concurrent table: who may change their state.    *)
(* FreezeOwned for every number of threads, shards, buckets and keys; then *)
(* MutualExclusion and OldUntouched, where no displacement is committed.   *)
(***************************************************************************)
EXTENDS HtcWriters, TLAPS

States == {"ACTIVE", "FREEZING", "OLD"}

\* Sequences of generations, whatever their slots hold: what the rehash loop
\* computes is beyond the prover and does not matter here.
GenOver(S) == [state : States, seed : Seeds, num_buckets : Nat \ {0}, slot : S]
SlotsIn(g) == {g[i].slot : i \in 1 .. Len(g)}
Generations(g) == g \in Seq(GenOver(SlotsIn(g)))
IsGeneration(r) == r \in GenOver({r.slot})
With(g, i, r) == [g EXCEPT ![i] = r]

\* A sequence over a set is one over a larger set.
LEMMA SeqMore ==
    ASSUME NEW A, NEW B, A \subseteq B, NEW g \in Seq(A)
    PROVE  g \in Seq(B)
OBVIOUS

\* One element replaced.
LEMMA SeqReplaced ==
    ASSUME NEW A, NEW g \in Seq(A), NEW i \in 1 .. Len(g), NEW r \in A
    PROVE  [g EXCEPT ![i] = r] \in Seq(A) /\ Len([g EXCEPT ![i] = r]) = Len(g)
OBVIOUS

\* One element added.
LEMMA SeqAdded ==
    ASSUME NEW A, NEW g \in Seq(A), NEW r \in A
    PROVE  Append(g, r) \in Seq(A) /\ Len(Append(g, r)) = Len(g) + 1 /\ Len(g) \in Nat
OBVIOUS

\* Any sequence of such records is one over the slots it holds.
LEMMA SlotsSuffice ==
    ASSUME NEW S, NEW g \in Seq(GenOver(S))
    PROVE  Generations(g)
<1>1. ASSUME NEW i \in 1 .. Len(g)
      PROVE  g[i] \in GenOver(SlotsIn(g))
  <2>1. g[i] \in GenOver(S) /\ g[i].slot \in SlotsIn(g)
    BY DEF SlotsIn
  <2>q. QED
    BY <2>1 DEF GenOver
<1>q. QED
  BY <1>1 DEF Generations

\* Replacing a generation gives generations again.
LEMMA Replaced ==
    ASSUME NEW g, Generations(g), NEW i \in 1 .. Len(g), NEW r, IsGeneration(r)
    PROVE  Generations(With(g, i, r)) /\ Len(With(g, i, r)) = Len(g)
<1> DEFINE A == GenOver(SlotsIn(g) \cup {r.slot})
           h == With(g, i, r)
<1>1. /\ GenOver(SlotsIn(g)) \subseteq A
      /\ r \in A
  BY DEF GenOver, IsGeneration
<1> HIDE DEF A
<1>2. g \in Seq(A)
  BY <1>1, SeqMore, Zenon DEF Generations
<1>3. h \in Seq(A) /\ Len(h) = Len(g)
  BY <1>1, <1>2, SeqReplaced DEF With
<1> HIDE DEF h
<1>4. Generations(h)
  BY <1>3, SlotsSuffice, Zenon DEF A
<1>q. QED
  BY <1>3, <1>4, Zenon DEF h

\* Adding a generation gives generations again.
LEMMA Added ==
    ASSUME NEW g, Generations(g), NEW r, IsGeneration(r)
    PROVE  Generations(Append(g, r)) /\ Len(Append(g, r)) = Len(g) + 1 /\ Len(g) \in Nat
<1> DEFINE A == GenOver(SlotsIn(g) \cup {r.slot})
           h == Append(g, r)
<1>1. /\ GenOver(SlotsIn(g)) \subseteq A
      /\ r \in A
  BY DEF GenOver, IsGeneration
<1> HIDE DEF A
<1>2. g \in Seq(A)
  BY <1>1, SeqMore, Zenon DEF Generations
<1>3. h \in Seq(A) /\ Len(h) = Len(g) + 1 /\ Len(g) \in Nat
  BY <1>1, <1>2, SeqAdded
<1> HIDE DEF h
<1>4. Generations(h)
  BY <1>3, SlotsSuffice, Zenon DEF A
<1>q. QED
  BY <1>3, <1>4, Zenon DEF h

\* The fields of a generation.
LEMMA Fields ==
    ASSUME NEW g, Generations(g), NEW i \in 1 .. Len(g)
    PROVE  /\ IsGeneration(g[i])
           /\ g[i].state \in States /\ g[i].seed \in Seeds /\ g[i].num_buckets \in Nat \ {0}
<1>1. g[i] \in GenOver(SlotsIn(g))
  BY DEF Generations
<1>q. QED
  BY <1>1 DEF GenOver, IsGeneration

\* A change of its slots keeps the other fields.
LEMMA SlotField ==
    ASSUME NEW r, IsGeneration(r), NEW v, NEW q, q = [r EXCEPT !.slot = v]
    PROVE  /\ IsGeneration(q)
           /\ q.state = r.state /\ q.seed = r.seed /\ q.num_buckets = r.num_buckets
           /\ q.slot = v
BY DEF GenOver, IsGeneration

\* A change of its state keeps the other fields.
LEMMA StateField ==
    ASSUME NEW r, IsGeneration(r), NEW x \in States, NEW q, q = [r EXCEPT !.state = x]
    PROVE  /\ IsGeneration(q)
           /\ q.state = x /\ q.seed = r.seed /\ q.num_buckets = r.num_buckets
           /\ q.slot = r.slot
BY DEF GenOver, IsGeneration
-----------------------------------------------------------------------------
\* Between taking grow_lock and clearing it.
OwnsGrow(t) == pc[t] \in {"freeze", "grown"} \/ InGrow(t)

\* The labels of htc_grow under grow_lock, and where a thread goes on with
\* the shard locks it asked for.
GrowLabels == {"freeze", "rehash", "unfreeze", "grown"}
Nexts == {"check", "commit", "stash", "upsert", "rehash"}

Shape ==
    /\ Generations(gens)
    /\ current_gen \in 1 .. Len(gens)
    /\ gen \in [Threads -> 1 .. Len(gens)]
    /\ pc \in [Threads -> Labels]
    /\ then \in [Threads -> Nexts \cup {"idle"}]

\* The inductive invariant: FreezeOwned, and that grow_lock keeps every other
\* thread out of the labels where the state is stored.
Owned ==
    /\ FreezeOwned
    /\ \A t \in Threads : OwnsGrow(t) => grow_lock
    /\ \A t, u \in Threads : OwnsGrow(t) /\ OwnsGrow(u) => t = u

GrowInv == Shape /\ Owned

\* A step of t outside of htc_grow, as far as GrowInv is concerned.
Outside(t) ==
    /\ pc[t] \notin GrowLabels \cup {"acquire"}
    /\ current_gen' = current_gen /\ grow_lock' = grow_lock
    /\ \/ gen' = gen
       \/ gen' = [gen EXCEPT ![t] = current_gen]
    /\ \/ \E l \in Labels \ (GrowLabels \cup {"acquire"}) :
             pc' = [pc EXCEPT ![t] = l] /\ then' = then
       \/ \E l \in Nexts \ {"rehash"} :
             pc' = [pc EXCEPT ![t] = "acquire"] /\ then' = [then EXCEPT ![t] = l]

\* The slots of t's generation change and nothing else of any generation.
Writes(t) == \E v : gens' = [gens EXCEPT ![gen[t]] = [gens[gen[t]] EXCEPT !.slot = v]]

\* Such a write leaves the state, the seed and the size of every generation.
LEMMA WritesKeep ==
    ASSUME Shape, NEW t \in Threads, Writes(t)
    PROVE  /\ Generations(gens') /\ Len(gens') = Len(gens)
           /\ \A i \in 1 .. Len(gens) : /\ gens'[i].state = gens[i].state
                                        /\ gens'[i].seed = gens[i].seed
                                        /\ gens'[i].num_buckets = gens[i].num_buckets
                                        /\ i # gen[t] => gens'[i] = gens[i]
<1>1. Generations(gens) /\ gen[t] \in 1 .. Len(gens)
  BY DEF Shape
<1>2. PICK v : gens' = [gens EXCEPT ![gen[t]] = [gens[gen[t]] EXCEPT !.slot = v]]
  BY Zenon DEF Writes
<1>r. PICK r : r = [gens[gen[t]] EXCEPT !.slot = v]
  BY Zenon
<1>3. IsGeneration(gens[gen[t]])
  BY <1>1, Fields, Zenon
<1>4. /\ IsGeneration(r)
      /\ r.state = gens[gen[t]].state /\ r.seed = gens[gen[t]].seed
      /\ r.num_buckets = gens[gen[t]].num_buckets
  BY <1>3, <1>r, SlotField
<1>5. gens' = With(gens, gen[t], r)
  BY <1>2, <1>r DEF With
<1>6. Generations(gens') /\ Len(gens') = Len(gens)
  BY <1>1, <1>4, <1>5, Replaced, Zenon
<1>7. /\ gens'[gen[t]] = r
      /\ \A j \in 1 .. Len(gens) : j # gen[t] => gens'[j] = gens[j]
  BY <1>1, <1>5 DEF With, Generations
<1>q. QED
  BY <1>4, <1>6, <1>7, Zenon

\* A step outside of htc_grow keeps the invariant.
LEMMA OutsideKeeps ==
    ASSUME GrowInv, NEW t \in Threads, Outside(t), gens' = gens \/ Writes(t)
    PROVE  GrowInv'
<1>1. /\ Generations(gens') /\ Len(gens') = Len(gens)
      /\ \A i \in 1 .. Len(gens) : gens'[i].state = gens[i].state
  <2>1. CASE gens' = gens
    BY <2>1 DEF GrowInv, Shape
  <2>2. CASE Writes(t)
    BY <2>2, WritesKeep, Zenon DEF GrowInv
  <2>q. QED
    BY <2>1, <2>2
<1>2. Shape'
  <2>1. current_gen' \in 1 .. Len(gens')
    BY <1>1 DEF Outside, GrowInv, Shape
  <2>2. gen' \in [Threads -> 1 .. Len(gens')]
    BY <1>1, Zenon DEF Outside, GrowInv, Shape
  <2>3. pc' \in [Threads -> Labels] /\ then' \in [Threads -> Nexts \cup {"idle"}]
    BY DEF Outside, GrowInv, Shape, Labels
  <2>q. QED
    BY <1>1, <2>1, <2>2, <2>3, Zenon DEF Shape
<1>3. /\ ~ OwnsGrow(t) /\ ~ InGrow(t) /\ ~ OwnsGrow(t)' /\ ~ InGrow(t)'
      /\ \A u \in Threads \ {t} : (OwnsGrow(u)' <=> OwnsGrow(u)) /\ (InGrow(u)' <=> InGrow(u))
  BY DEF Outside, GrowInv, Shape, OwnsGrow, InGrow, GrowLabels, Nexts
<1>4. Owned'
  <2>1. current_gen' = current_gen /\ grow_lock' = grow_lock /\ current_gen \in 1 .. Len(gens)
    BY DEF Outside, GrowInv, Shape
  <2>2. Current'.state = Current.state
    BY <1>1, <2>1 DEF Current
  <2>q. QED
    BY <1>1, <1>3, <2>1, <2>2 DEF GrowInv, Owned, FreezeOwned
<1>q. QED
  BY <1>2, <1>4 DEF GrowInv

\* The steps that only move a thread on.
LEMMA MovesOn ==
    ASSUME NEW t \in Threads,
           \/ Enter(t) \/ Return(t) \/ GiveUp(t) \/ Validated(t)
           \/ InsertStale(t) \/ RemoveStale(t) \/ RemoveMiss(t) \/ InsertOom(t)
           \/ InsertNoPath(t) \/ StashInsert(t) \/ StashFull(t)
           \/ InsertDone(t) \/ InsertReturn(t) \/ InsertGrow(t)
           \/ UpsertGiveUp(t) \/ UpsertStale(t) \/ UpsertHit(t)
           \/ UpsertMiss(t)
    PROVE  Outside(t) /\ gens' = gens
<1> USE DEF Labels, GrowLabels, Goto, table, locks, local, Outside
<1>Enter. CASE Enter(t)
  BY <1>Enter, Zenon DEF Enter, Call
<1>Return. CASE Return(t)
  BY <1>Return, Zenon DEF Return
<1>GiveUp. CASE GiveUp(t)
  BY <1>GiveUp, Zenon DEF GiveUp
<1>Validated. CASE Validated(t)
  BY <1>Validated, Zenon DEF Validated
<1>InsertStale. CASE InsertStale(t)
  BY <1>InsertStale, Zenon DEF InsertStale
<1>RemoveStale. CASE RemoveStale(t)
  BY <1>RemoveStale, Zenon DEF RemoveStale
<1>RemoveMiss. CASE RemoveMiss(t)
  BY <1>RemoveMiss, Zenon DEF RemoveMiss
<1>InsertOom. CASE InsertOom(t)
  BY <1>InsertOom, Zenon DEF InsertOom
<1>InsertNoPath. CASE InsertNoPath(t)
  BY <1>InsertNoPath, Zenon DEF InsertNoPath, BothFull
<1>StashInsert. CASE StashInsert(t)
  BY <1>StashInsert, Zenon DEF StashInsert
<1>StashFull. CASE StashFull(t)
  BY <1>StashFull, Zenon DEF StashFull
<1>InsertDone. CASE InsertDone(t)
  BY <1>InsertDone, Zenon DEF InsertDone
<1>InsertReturn. CASE InsertReturn(t)
  BY <1>InsertReturn, Zenon DEF InsertReturn
<1>InsertGrow. CASE InsertGrow(t)
  BY <1>InsertGrow, Zenon DEF InsertGrow
<1>UpsertGiveUp. CASE UpsertGiveUp(t)
  BY <1>UpsertGiveUp, Zenon DEF UpsertGiveUp
<1>UpsertStale. CASE UpsertStale(t)
  BY <1>UpsertStale, Zenon DEF UpsertStale
<1>UpsertHit. CASE UpsertHit(t)
  BY <1>UpsertHit, Zenon DEF UpsertHit
<1>UpsertMiss. CASE UpsertMiss(t)
  BY <1>UpsertMiss, Zenon DEF UpsertMiss
<1>q. QED
  BY <1>Enter, <1>Return, <1>GiveUp, <1>Validated, <1>InsertStale, <1>RemoveStale,
     <1>RemoveMiss, <1>InsertOom, <1>InsertNoPath, <1>StashInsert, <1>StashFull, <1>InsertDone,
     <1>InsertReturn, <1>InsertGrow, <1>UpsertGiveUp, <1>UpsertStale, <1>UpsertHit,
     <1>UpsertMiss, Zenon

\* Those that go on to wait for shards.
LEMMA Waits ==
    ASSUME NEW t \in Threads,
           LoadGen(t) \/ UpsertLoad(t) \/ InsertFindPath(t) \/ PathInvalid(t)
    PROVE  Outside(t) /\ gens' = gens
<1> USE DEF Labels, GrowLabels, Nexts, Goto, Acquire, table, local, Outside
<1>1. CASE LoadGen(t)
  BY <1>1, Zenon DEF LoadGen
<1>2. CASE UpsertLoad(t)
  BY <1>2, Zenon DEF UpsertLoad
<1>3. CASE InsertFindPath(t)
  BY <1>3, Zenon DEF InsertFindPath, BothFull
<1>4. CASE PathInvalid(t)
  BY <1>4, Zenon DEF PathInvalid
<1>q. QED
  BY <1>1, <1>2, <1>3, <1>4

\* Those that answer "duplicate".
LEMMA Duplicates ==
    ASSUME NEW t \in Threads, InsertDuplicate(t) \/ StashDuplicate(t)
    PROVE  Outside(t) /\ gens' = gens
<1> USE DEF Labels, GrowLabels, Goto, table, Outside, AnswerDuplicate
<1>1. CASE InsertDuplicate(t)
  BY <1>1, Zenon DEF InsertDuplicate
<1>2. CASE StashDuplicate(t)
  BY <1>2, Zenon DEF StashDuplicate
<1>q. QED
  BY <1>1, <1>2

\* The steps that change slots: of the thread's own generation.
LEMMA Changes ==
    ASSUME NEW t \in Threads, RemoveHit(t) \/ InsertDirect(t) \/ PathCommit(t)
    PROVE  Outside(t) /\ (gens' = gens \/ Writes(t))
<1>1. CASE RemoveHit(t)
  <2>1. Outside(t)
    BY <1>1, Zenon DEF RemoveHit, Labels, GrowLabels, Goto, local, Outside
  <2>2. gens' = gens \/ \E b, i : gens' = [gens EXCEPT ![gen[t]] = Put(gens[gen[t]], b, i, Empty)]
    BY <1>1, Zenon DEF RemoveHit
  <2>q. QED
    BY <2>1, <2>2, Zenon DEF Writes, Put
<1>2. CASE InsertDirect(t)
  <2>1. Outside(t)
    BY <1>2, Zenon DEF InsertDirect, Labels, GrowLabels, Goto, locks, local, Outside
  <2>2. \E b, i : gens' = [gens EXCEPT ![gen[t]] = Put(gens[gen[t]], b, i, NewWord(t))]
    BY <1>2, Zenon DEF InsertDirect, PlaceInBuckets
  <2>q. QED
    BY <2>1, <2>2, Zenon DEF Writes, Put
<1>3. CASE PathCommit(t)
  <2>1. Outside(t)
    BY <1>3, Zenon DEF PathCommit, Labels, GrowLabels, Goto, local, Outside
  <2>2. gens' = [gens EXCEPT ![gen[t]] = CommitPath(gens[gen[t]], path[t], NewWord(t))]
    BY <1>3, Zenon DEF PathCommit
  <2>q. QED
    BY <2>1, <2>2, Zenon DEF Writes, CommitPath
<1>q. QED
  BY <1>1, <1>2, <1>3
-----------------------------------------------------------------------------
\* Storing the state of the current generation changes nothing else.
StateStored(x) == [gens EXCEPT ![current_gen].state = x]

\* The other generations and the other fields stay.
LEMMA StateStoredKeeps ==
    ASSUME Shape, NEW x \in States
    PROVE  /\ Generations(StateStored(x)) /\ Len(StateStored(x)) = Len(gens)
           /\ StateStored(x)[current_gen].state = x
           /\ \A i \in 1 .. Len(gens) :
                /\ i # current_gen => StateStored(x)[i].state = gens[i].state
                /\ StateStored(x)[i].seed = gens[i].seed
                /\ StateStored(x)[i].num_buckets = gens[i].num_buckets
                /\ StateStored(x)[i].slot = gens[i].slot
<1>1. Generations(gens) /\ current_gen \in 1 .. Len(gens)
  BY DEF Shape
<1>r. PICK r : r = [gens[current_gen] EXCEPT !.state = x]
  BY Zenon
<1>g. PICK g : g = StateStored(x)
  OBVIOUS
<1>2. IsGeneration(gens[current_gen])
  BY <1>1, Fields, Zenon
<1>3. /\ IsGeneration(r)
      /\ r.state = x /\ r.seed = gens[current_gen].seed
      /\ r.num_buckets = gens[current_gen].num_buckets /\ r.slot = gens[current_gen].slot
  BY <1>2, <1>r, StateField
<1>4. g = With(gens, current_gen, r)
  BY <1>r, <1>g DEF With, StateStored
<1>5. Generations(With(gens, current_gen, r)) /\ Len(With(gens, current_gen, r)) = Len(gens)
  BY <1>1, <1>3, Replaced, Zenon
<1>6. /\ g[current_gen] = r
      /\ \A j \in 1 .. Len(gens) : j # current_gen => g[j] = gens[j]
  BY <1>1, <1>4 DEF With, Generations
<1>7. Generations(g) /\ Len(g) = Len(gens)
  BY <1>4, <1>5, Zenon
<1>8. \A i \in 1 .. Len(gens) : /\ i # current_gen => g[i].state = gens[i].state
                                /\ g[i].seed = gens[i].seed
                                /\ g[i].num_buckets = gens[i].num_buckets
                                /\ g[i].slot = gens[i].slot
  BY <1>3, <1>6, Zenon
<1>9. g[current_gen].state = x
  BY <1>3, <1>6, Zenon
<1>q. QED
  BY <1>7, <1>8, <1>9, <1>g, Zenon

\* Taking a shard lock: a grower stays one.
LEMMA LockShardKeeps ==
    ASSUME GrowInv, NEW t \in Threads, LockShard(t)
    PROVE  GrowInv'
<1>1. /\ gens' = gens /\ current_gen' = current_gen /\ grow_lock' = grow_lock
      /\ gen' = gen /\ then' = then /\ pc[t] = "acquire"
      /\ pc' = [pc EXCEPT ![t] = then[t]] \/ pc' = [pc EXCEPT ![t] = "acquire"]
  BY Zenon DEF LockShard, Goto, table, local
<1>2. Shape'
  <2>1. pc' \in [Threads -> Labels]
    BY <1>1 DEF GrowInv, Shape, Nexts, Labels
  <2>q. QED
    BY <1>1, <2>1, Zenon DEF GrowInv, Shape
<1>3. \A u \in Threads : (OwnsGrow(u)' <=> OwnsGrow(u)) /\ (InGrow(u)' <=> InGrow(u))
  BY <1>1 DEF GrowInv, Shape, Nexts, OwnsGrow, InGrow
<1>4. Owned'
  BY <1>1, <1>3 DEF GrowInv, Owned, FreezeOwned, Current
<1>q. QED
  BY <1>2, <1>4 DEF GrowInv

\* Taking grow_lock: nobody else is in htc_grow.
LEMMA GrowLockKeeps ==
    ASSUME GrowInv, NEW t \in Threads, GrowLock(t)
    PROVE  GrowInv'
<1>1. /\ gens' = gens /\ current_gen' = current_gen /\ ~ grow_lock /\ grow_lock'
      /\ gen' = gen /\ then' = then /\ pc[t] = "grow" /\ pc' = [pc EXCEPT ![t] = "freeze"]
  BY DEF GrowLock, Goto, table, local
<1>2. Shape'
  <2>1. pc' \in [Threads -> Labels]
    BY <1>1 DEF GrowInv, Shape, Labels
  <2>q. QED
    BY <1>1, <2>1, Zenon DEF GrowInv, Shape
<1>3. /\ \A u \in Threads : InGrow(u)' <=> InGrow(u)
      /\ \A u \in Threads \ {t} : OwnsGrow(u)' <=> OwnsGrow(u)
  BY <1>1 DEF GrowInv, Shape, OwnsGrow, InGrow
<1>4. \A u \in Threads : ~ OwnsGrow(u)
  BY <1>1, Zenon DEF GrowInv, Owned
<1>5. Owned'
  BY <1>1, <1>3, <1>4, Zenon DEF GrowInv, Owned, FreezeOwned, Current
<1>q. QED
  BY <1>2, <1>5 DEF GrowInv

\* The freeze: from now on the thread is the one InGrow.
LEMMA FreezeKeeps ==
    ASSUME GrowInv, NEW t \in Threads, Freeze(t)
    PROVE  GrowInv'
<1>1. /\ gens' = StateStored("FREEZING") /\ Current.state = "ACTIVE"
      /\ current_gen' = current_gen /\ grow_lock' = grow_lock
      /\ gen' = gen /\ then' = [then EXCEPT ![t] = "rehash"]
      /\ pc[t] = "freeze" /\ pc' = [pc EXCEPT ![t] = "acquire"]
  BY DEF Freeze, Acquire, Goto, local, StateStored
<1>2. /\ Generations(gens') /\ Len(gens') = Len(gens)
      /\ gens'[current_gen].state = "FREEZING"
      /\ \A i \in 1 .. Len(gens) : i # current_gen => gens'[i].state = gens[i].state
  <2>1. "FREEZING" \in States /\ Shape
    BY DEF States, GrowInv
  <2>q. QED
    BY <1>1, <2>1, StateStoredKeeps, Zenon
<1>3. Shape'
  <2>1. pc' \in [Threads -> Labels] /\ then' \in [Threads -> Nexts \cup {"idle"}]
    BY <1>1 DEF GrowInv, Shape, Labels, Nexts
  <2>2. current_gen' \in 1 .. Len(gens') /\ gen' \in [Threads -> 1 .. Len(gens')]
    BY <1>1, <1>2 DEF GrowInv, Shape
  <2>q. QED
    BY <1>2, <2>1, <2>2, Zenon DEF Shape
<1>4. /\ OwnsGrow(t) /\ ~ InGrow(t) /\ InGrow(t)' /\ OwnsGrow(t)'
      /\ \A u \in Threads \ {t} : (OwnsGrow(u)' <=> OwnsGrow(u)) /\ (InGrow(u)' <=> InGrow(u))
  BY <1>1 DEF GrowInv, Shape, OwnsGrow, InGrow
<1>5. Owned'
  <2>1. \A u \in Threads : OwnsGrow(u) => u = t
    BY <1>4, Zenon DEF GrowInv, Owned
  <2>2. \A u \in Threads \ {t} : ~ OwnsGrow(u)' /\ ~ InGrow(u)'
    BY <1>4, <2>1 DEF OwnsGrow
  <2>3. FreezeOwned'
    BY <1>1, <1>2, <1>4, <2>2 DEF GrowInv, Owned, FreezeOwned, Current
  <2>q. QED
    BY <1>1, <1>4, <2>2, <2>3 DEF GrowInv, Owned
<1>q. QED
  BY <1>3, <1>5 DEF GrowInv

\* A new generation, whatever was rehashed into its slots.
LEMMA NewGeneration ==
    ASSUME NEW s \in Seeds, NEW n \in Nat \ {0}, NEW v
    PROVE  /\ IsGeneration([NewGen(s, n) EXCEPT !.slot = v])
           /\ [NewGen(s, n) EXCEPT !.slot = v].state = "ACTIVE"
BY DEF NewGen, IsGeneration, GenOver, States

\* The thread in the last step of a grow is the only one in htc_grow.
LEMMA Alone ==
    ASSUME GrowInv, NEW t \in Threads, OwnsGrow(t),
           \A u \in Threads \ {t} : pc'[u] = pc[u] /\ then'[u] = then[u]
    PROVE  \A u \in Threads \ {t} : ~ OwnsGrow(u)' /\ ~ InGrow(u)' /\ ~ InGrow(u)
<1>1. \A u \in Threads \ {t} : ~ OwnsGrow(u)
  BY DEF GrowInv, Owned
<1>q. QED
  BY <1>1 DEF OwnsGrow, InGrow

\* The publication: the old generation becomes OLD, the new one is ACTIVE.
LEMMA PublishKeeps ==
    ASSUME GrowInv, NEW t \in Threads, Publish(t)
    PROVE  /\ GrowInv'
           /\ Len(gens') = Len(gens) + 1
           /\ \A i \in 1 .. Len(gens) : /\ gens'[i].seed = gens[i].seed
                                        /\ gens'[i].num_buckets = gens[i].num_buckets
                                        /\ gens'[i].slot = gens[i].slot
<1>1. /\ current_gen' = Len(gens) + 1 /\ grow_lock' = grow_lock
      /\ gen' = gen /\ then' = then
      /\ pc[t] = "rehash" /\ pc' = [pc EXCEPT ![t] = "grown"]
  BY DEF Publish, Goto, local
<1>2. PICK r : /\ gens' = Append(StateStored("OLD"), r)
               /\ IsGeneration(r) /\ r.state = "ACTIVE"
  <2>1. NextSeed(t) \in Seeds
    BY DEF Publish, CanGrow
  <2>2. 2 * Current.num_buckets \in Nat \ {0}
    <3>1. Current.num_buckets \in Nat \ {0}
      BY Fields, Zenon DEF GrowInv, Shape, Current
    <3>q. QED
      BY <3>1
  <2>3. PICK v : gens' = Append(StateStored("OLD"),
                            [NewGen(NextSeed(t), 2 * Current.num_buckets) EXCEPT !.slot = v])
    BY Zenon DEF Publish, StateStored
  <2>q. QED
    BY <2>1, <2>2, <2>3, NewGeneration, Zenon
<1>g. PICK g : g = StateStored("OLD")
  OBVIOUS
<1>3. /\ Generations(g) /\ Len(g) = Len(gens) /\ g[current_gen].state = "OLD"
      /\ \A i \in 1 .. Len(gens) : /\ i # current_gen => g[i].state = gens[i].state
                                   /\ g[i].seed = gens[i].seed
                                   /\ g[i].num_buckets = gens[i].num_buckets
                                   /\ g[i].slot = gens[i].slot
  <2>1. "OLD" \in States /\ Shape
    BY DEF States, GrowInv
  <2>q. QED
    BY <1>g, <2>1, StateStoredKeeps
<1>4. gens' = Append(g, r)
  BY <1>2, <1>g
<1>5. /\ Generations(gens') /\ Len(gens') = Len(gens) + 1 /\ Len(gens) \in Nat
  <2>1. Generations(Append(g, r)) /\ Len(Append(g, r)) = Len(g) + 1 /\ Len(g) \in Nat
    BY <1>2, <1>3, Added, Zenon
  <2>q. QED
    BY <1>3, <1>4, <2>1
<1>6. gens'[Len(gens) + 1] = r /\ \A i \in 1 .. Len(gens) : gens'[i] = g[i]
  BY <1>3, <1>4 DEF Generations
<1>7. Shape'
  <2>1. pc' \in [Threads -> Labels]
    BY <1>1 DEF GrowInv, Shape, Labels
  <2>2. current_gen' \in 1 .. Len(gens') /\ gen' \in [Threads -> 1 .. Len(gens')]
    BY <1>1, <1>5 DEF GrowInv, Shape
  <2>q. QED
    BY <1>1, <1>5, <2>1, <2>2, Zenon DEF GrowInv, Shape
<1>8. Owned'
  <2>1. OwnsGrow(t) /\ OwnsGrow(t)' /\ ~ InGrow(t)' /\ grow_lock'
    BY <1>1 DEF GrowInv, Shape, Owned, OwnsGrow, InGrow
  <2>2. \A u \in Threads \ {t} : ~ OwnsGrow(u)' /\ ~ InGrow(u)'
    BY <1>1, <2>1, Alone DEF GrowInv, Shape
  <2>3. Current'.state = "ACTIVE"
    BY <1>1, <1>2, <1>6, Zenon DEF Current
  <2>4. \A i \in 1 .. Len(gens') : gens'[i].state = "OLD" <=> i # current_gen'
    BY <1>1, <1>2, <1>3, <1>5, <1>6 DEF GrowInv, Owned, FreezeOwned
  <2>5. FreezeOwned'
    BY <2>1, <2>2, <2>3, <2>4 DEF FreezeOwned
  <2>q. QED
    BY <2>1, <2>2, <2>5 DEF Owned
<1>q. QED
  BY <1>3, <1>5, <1>6, <1>7, <1>8, Zenon DEF GrowInv

\* A failed rehash: still frozen.
LEMMA GrowFailsKeeps ==
    ASSUME GrowInv, NEW t \in Threads, GrowOverflows(t) \/ GrowOom(t)
    PROVE  GrowInv'
<1>1. /\ gens' = gens /\ current_gen' = current_gen /\ grow_lock' = grow_lock
      /\ gen' = gen /\ then' = then
      /\ pc[t] = "rehash" /\ pc' = [pc EXCEPT ![t] = "unfreeze"]
  BY Zenon DEF GrowOverflows, GrowOom, Goto, local
<1>2. Shape'
  <2>1. pc' \in [Threads -> Labels]
    BY <1>1 DEF GrowInv, Shape, Labels
  <2>q. QED
    BY <1>1, <2>1, Zenon DEF GrowInv, Shape
<1>3. \A u \in Threads : (OwnsGrow(u)' <=> OwnsGrow(u)) /\ (InGrow(u)' <=> InGrow(u))
  BY <1>1 DEF GrowInv, Shape, OwnsGrow, InGrow
<1>4. Owned'
  BY <1>1, <1>3, Zenon DEF GrowInv, Owned, FreezeOwned, Current
<1>q. QED
  BY <1>2, <1>4 DEF GrowInv

\* The end of a failed grow: ACTIVE again, and nobody in htc_grow.
LEMMA UnfreezeKeeps ==
    ASSUME GrowInv, NEW t \in Threads, Unfreeze(t)
    PROVE  GrowInv'
<1>1. /\ gens' = StateStored("ACTIVE") /\ current_gen' = current_gen
      /\ gen' = gen /\ then' = then
      /\ pc[t] = "unfreeze" /\ pc' = [pc EXCEPT ![t] = "return"]
  BY Zenon DEF Unfreeze, Goto, local, StateStored
<1>2. /\ Generations(gens') /\ Len(gens') = Len(gens)
      /\ gens'[current_gen].state = "ACTIVE"
      /\ \A i \in 1 .. Len(gens) : i # current_gen => gens'[i].state = gens[i].state
  <2>1. "ACTIVE" \in States /\ Shape
    BY DEF States, GrowInv
  <2>q. QED
    BY <1>1, <2>1, StateStoredKeeps, Zenon
<1>3. Shape'
  <2>1. pc' \in [Threads -> Labels]
    BY <1>1 DEF GrowInv, Shape, Labels
  <2>2. current_gen' \in 1 .. Len(gens') /\ gen' \in [Threads -> 1 .. Len(gens')]
    BY <1>1, <1>2 DEF GrowInv, Shape
  <2>q. QED
    BY <1>1, <1>2, <2>1, <2>2, Zenon DEF GrowInv, Shape
<1>4. Owned'
  <2>1. OwnsGrow(t) /\ ~ OwnsGrow(t)' /\ ~ InGrow(t)'
    BY <1>1 DEF GrowInv, Shape, OwnsGrow, InGrow
  <2>2. \A u \in Threads \ {t} : ~ OwnsGrow(u)' /\ ~ InGrow(u)'
    BY <1>1, <2>1, Alone DEF GrowInv, Shape
  <2>3. FreezeOwned'
    BY <1>1, <1>2, <2>1, <2>2 DEF GrowInv, Owned, FreezeOwned, Current
  <2>q. QED
    BY <2>1, <2>2, <2>3 DEF Owned
<1>q. QED
  BY <1>3, <1>4 DEF GrowInv

\* The end of a successful one.
LEMMA GrownKeeps ==
    ASSUME GrowInv, NEW t \in Threads, Grown(t)
    PROVE  GrowInv'
<1>1. /\ gens' = gens /\ current_gen' = current_gen
      /\ gen' = gen /\ then' = then /\ pc[t] = "grown"
      /\ pc' = [pc EXCEPT ![t] = "load"] \/ pc' = [pc EXCEPT ![t] = "return"]
  BY DEF Grown, Goto, table
<1>2. Shape'
  <2>1. pc' \in [Threads -> Labels]
    BY <1>1 DEF GrowInv, Shape, Labels
  <2>q. QED
    BY <1>1, <2>1, Zenon DEF GrowInv, Shape
<1>3. Owned'
  <2>1. OwnsGrow(t) /\ ~ OwnsGrow(t)' /\ ~ InGrow(t)' /\ ~ InGrow(t)
    BY <1>1 DEF GrowInv, Shape, OwnsGrow, InGrow
  <2>2. \A u \in Threads \ {t} : ~ OwnsGrow(u)' /\ ~ InGrow(u)' /\ ~ InGrow(u)
    BY <1>1, <2>1, Alone DEF GrowInv, Shape
  <2>3. FreezeOwned'
    BY <1>1, <2>1, <2>2 DEF GrowInv, Owned, FreezeOwned, Current
  <2>q. QED
    BY <2>1, <2>2, <2>3 DEF Owned
<1>q. QED
  BY <1>2, <1>3 DEF GrowInv
-----------------------------------------------------------------------------
\* A new table satisfies the invariant.
LEMMA GrowInvInit == Init => GrowInv
<1> SUFFICES ASSUME Init PROVE GrowInv
  OBVIOUS
<1>1. /\ gens = <<NewGen(seed, InitialBuckets)>> /\ current_gen = 1 /\ seed \in Seeds
      /\ pc = [t \in Threads |-> "idle"] /\ gen = [t \in Threads |-> 1]
      /\ then = [t \in Threads |-> "idle"] /\ InitialBuckets \in Nat \ {0}
  BY WriterConstants DEF Init
<1>2. /\ NewGen(seed, InitialBuckets) \in GenOver({NewSlots(InitialBuckets)})
      /\ NewGen(seed, InitialBuckets).state = "ACTIVE"
  BY <1>1 DEF NewGen, GenOver, States
<1>3. gens \in Seq(GenOver({NewSlots(InitialBuckets)})) /\ Len(gens) = 1 /\ gens[1].state = "ACTIVE"
  BY <1>1, <1>2
<1>4. Shape
  <2>1. Generations(gens)
    BY <1>3, SlotsSuffice, Zenon
  <2>q. QED
    BY <1>1, <1>3, <2>1 DEF Shape, Labels
<1>5. \A t \in Threads : ~ OwnsGrow(t) /\ ~ InGrow(t)
  BY <1>1 DEF OwnsGrow, InGrow
<1>6. Owned
  BY <1>1, <1>3, <1>5 DEF Owned, FreezeOwned, Current
<1>q. QED
  BY <1>4, <1>6 DEF GrowInv

\* Every step of every thread keeps it.
LEMMA GrowInvNext == GrowInv /\ [Next]_vars => GrowInv'
<1> SUFFICES ASSUME GrowInv, [Next]_vars PROVE GrowInv'
  OBVIOUS
<1>1. CASE UNCHANGED vars
  <2>1. /\ gens' = gens /\ current_gen' = current_gen /\ grow_lock' = grow_lock
        /\ gen' = gen /\ then' = then /\ pc' = pc
    BY <1>1 DEF vars, table, locks, local
  <2>2. Shape'
    BY <2>1, Zenon DEF GrowInv, Shape
  <2>3. \A u \in Threads : (OwnsGrow(u)' <=> OwnsGrow(u)) /\ (InGrow(u)' <=> InGrow(u))
    BY <2>1 DEF OwnsGrow, InGrow
  <2>4. Owned'
    BY <2>1, <2>3, Zenon DEF GrowInv, Owned, FreezeOwned, Current
  <2>q. QED
    BY <2>2, <2>4 DEF GrowInv
<1>2. ASSUME NEW t \in Threads, Enter(t) \/ Step(t) PROVE GrowInv'
  <2>1. CASE Enter(t)
    BY <2>1, MovesOn, OutsideKeeps, Zenon
  <2>2. CASE LockShard(t)
    BY <2>2, LockShardKeeps, Zenon
  <2>3. CASE LoadGen(t) \/ Validated(t) \/ Return(t)
    BY <2>3, MovesOn, Waits, OutsideKeeps, Zenon
  <2>4. CASE Insert(t)
    BY <2>4, MovesOn, Waits, Duplicates, Changes, OutsideKeeps, Zenon DEF Insert
  <2>5. CASE Upsert(t)
    BY <2>5, MovesOn, Waits, OutsideKeeps, Zenon DEF Upsert
  <2>6. CASE Remove(t)
    BY <2>6, MovesOn, Changes, OutsideKeeps, Zenon DEF Remove
  <2>7. CASE Grow(t)
    BY <2>7, GrowLockKeeps, FreezeKeeps, PublishKeeps, GrowFailsKeeps, UnfreezeKeeps, GrownKeeps,
       Zenon DEF Grow
  <2>q. QED
    BY <1>2, <2>1, <2>2, <2>3, <2>4, <2>5, <2>6, <2>7, Zenon DEF Step
<1>q. QED
  BY <1>1, <1>2, Zenon DEF Next, Finished

\* The invariant, for every table, whatever its threads do.
THEOREM GrowInvHolds == Spec => []GrowInv
<1>q. QED
  BY GrowInvInit, GrowInvNext, PTL DEF Spec

\* htc_grow owns the generation it froze: the current generation is FREEZING
\* exactly while one thread is between the freeze and the publication or the
\* failure, and exactly the generations before it are OLD.
THEOREM FreezeOwnedHolds == Spec => []FreezeOwned
<1>1. GrowInv => FreezeOwned
  BY Zenon DEF GrowInv, Owned
<1>q. QED
  BY <1>1, GrowInvHolds, PTL

\* Paths may be searched, locked, found changed and given up, as long as
\* none is committed.
CommitsNothing == \A t \in Threads : ~ PathCommit(t)

HomeLabels == {"check", "insert", "remove", "stash", "done", "upsert"}
FreeLabels == {"idle", "load", "load_factor", "grow", "freeze", "unfreeze", "grown",
               "return", "upsert_load"}

\* The shards a thread has locked at label l.
Locked(t, l) ==
    IF l \in HomeLabels THEN MyShards(t)
    ELSE IF l = "commit" THEN PathShards(MyGen(t), key[t], path[t])
    ELSE IF l = "rehash" THEN Shards ELSE {}

Holding(t) ==
    IF pc[t] = "acquire" THEN then[t] \in Nexts /\ held[t] \cup want[t] = Locked(t, then[t])
                         ELSE held[t] = Locked(t, pc[t])

LockShape ==
    /\ lock \in [Shards -> BOOLEAN]
    /\ held \in [Threads -> SUBSET Shards] /\ want \in [Threads -> SUBSET Shards]
    /\ DOMAIN key = Threads /\ DOMAIN path = Threads
    /\ \A t \in Threads : pc[t] # "idle" => key[t] \in Keys

\* The inductive invariant: each thread holds exactly the shards its label
\* calls for, and one that is about to write has the current generation.
LockInv ==
    /\ GrowInv
    /\ LockShape
    /\ MutualExclusion
    /\ \A t \in Threads : Holding(t)
    /\ \A t \in Threads : pc[t] \in {"insert", "remove"} => gen[t] = current_gen
-----------------------------------------------------------------------------
\* A bucket of a generation belongs to a shard.
LEMMA ShardOfBucket ==
    ASSUME NEW n \in Nat \ {0}, NEW h \in Nat
    PROVE  ShardOf(h % n) \in Shards
BY WriterConstants DEF ShardOf, Shards

\* The two shards of a key exist.
LEMMA KeyShards ==
    ASSUME Shape, NEW i \in 1 .. Len(gens), NEW k \in Keys
    PROVE  ShardsOf(gens[i], k) \subseteq Shards /\ ShardsOf(gens[i], k) # {}
<1>1. gens[i].seed \in Seeds /\ gens[i].num_buckets \in Nat \ {0}
  BY Fields, Zenon DEF Shape
<1>2. Hash1[gens[i].seed][k] \in Nat /\ Hash2[gens[i].seed][k] \in Nat
  BY <1>1, WriterConstants
<1>3. /\ ShardOf(Bucket1(gens[i], gens[i].seed, k)) \in Shards
      /\ ShardOf(Bucket2(gens[i], gens[i].seed, k)) \in Shards
  BY <1>1, <1>2, ShardOfBucket, Zenon DEF Bucket1, Bucket2
<1>q. QED
  BY <1>3, Zenon DEF ShardsOf, Home

\* So do those of a displacement path.
LEMMA PathShardsExist ==
    ASSUME Shape, NEW i \in 1 .. Len(gens), NEW k \in Keys, NEW p \in Paths(gens[i], k)
    PROVE  PathShards(gens[i], k, p) \subseteq Shards
<1>1. gens[i].num_buckets \in Nat \ {0}
  BY Fields, Zenon DEF Shape
<1>2. PICK n \in 2 .. MaxPath + 1 : p \in [1 .. n -> Cells(gens[i])]
  BY Zenon DEF Paths
<1>3. Len(p) = n
  BY <1>2, WriterConstants
<1>4. ASSUME NEW j \in 1 .. Len(p) PROVE ShardOf(p[j][1]) \in Shards
  <2>1. p[j][1] \in Nat
    BY <1>1, <1>2, <1>3 DEF Cells
  <2>q. QED
    BY <2>1, WriterConstants DEF ShardOf, Shards
<1>5. ShardsOf(gens[i], k) \subseteq Shards
  BY KeyShards, Zenon
<1>q. QED
  BY <1>4, <1>5, Zenon DEF PathShards

\* No step changes the seed or the size of a generation.
SeedsKept ==
    \A i \in 1 .. Len(gens) : /\ gens'[i].seed = gens[i].seed
                              /\ gens'[i].num_buckets = gens[i].num_buckets

\* The shards a thread must hold at a label depend on the seed and the size
\* of its generation only: they stay while its own variables do.
LEMMA LockedStays ==
    ASSUME Shape, SeedsKept, NEW u \in Threads, NEW l,
           gen'[u] = gen[u], key'[u] = key[u], path'[u] = path[u]
    PROVE  Locked(u, l)' = Locked(u, l)
<1>1. gen[u] \in 1 .. Len(gens)
  BY DEF Shape
<1>2. /\ gens'[gen[u]].seed = gens[gen[u]].seed
      /\ gens'[gen[u]].num_buckets = gens[gen[u]].num_buckets
  BY <1>1, Zenon DEF SeedsKept
<1>3. /\ ShardsOf(gens'[gen[u]], key[u]) = ShardsOf(gens[gen[u]], key[u])
      /\ PathShards(gens'[gen[u]], key[u], path[u]) = PathShards(gens[gen[u]], key[u], path[u])
  BY <1>2, Zenon DEF ShardsOf, PathShards, Home, Bucket1, Bucket2
<1>q. QED
  BY <1>3, Zenon DEF Locked, MyShards, MyGen
-----------------------------------------------------------------------------
(* What a step does to the locks: a thread keeps its two shards, gives up  *)
(* all it has and goes on or waits for others, or takes one more.          *)

OnlyMoves(t) ==
    \A u \in Threads \ {t} :
        /\ pc'[u] = pc[u] /\ then'[u] = then[u] /\ gen'[u] = gen[u]
        /\ key'[u] = key[u] /\ path'[u] = path[u]
        /\ held'[u] = held[u] /\ want'[u] = want[u]

HomeStep(t) ==
    /\ lock' = lock /\ held' = held /\ want' = want /\ then' = then
    /\ key' = key /\ gen' = gen /\ path' = path /\ current_gen' = current_gen
    /\ pc[t] \in HomeLabels
    /\ \E l \in HomeLabels : /\ pc' = [pc EXCEPT ![t] = l]
                             /\ l \in {"insert", "remove"} => gen[t] = current_gen

Releases(t) ==
    /\ lock' = [s \in Shards |-> lock[s] /\ s \notin held[t]]
    /\ held' = [held EXCEPT ![t] = {}]

GoesFree(t) ==
    /\ Releases(t)
    /\ want' = want /\ then' = then /\ gen' = gen /\ path' = path
    /\ current_gen' = current_gen \/ held[t] = Shards
    /\ \E l \in FreeLabels :
          /\ pc' = [pc EXCEPT ![t] = l]
          /\ \/ key' = key /\ pc[t] # "idle"
             \/ \E k \in Keys : key' = [key EXCEPT ![t] = k]
             \/ l = "idle" /\ key' = [key EXCEPT ![t] = NoKey]

GoesWaiting(t) ==
    /\ Releases(t)
    /\ key' = key /\ pc[t] # "idle" /\ current_gen' = current_gen
    /\ gen' = gen \/ gen' = [gen EXCEPT ![t] = current_gen]
    /\ path' = path \/ \E p : path' = [path EXCEPT ![t] = p]
    /\ pc' = [pc EXCEPT ![t] = "acquire"]
    /\ \E l \in Nexts, S \in SUBSET Shards :
          /\ want' = [want EXCEPT ![t] = S] /\ then' = [then EXCEPT ![t] = l]
          /\ S = Locked(t, l)'

\* The other threads hold what they held.
LEMMA OthersHold ==
    ASSUME LockInv, SeedsKept, NEW t \in Threads, OnlyMoves(t)
    PROVE  \A u \in Threads \ {t} : Holding(u)'
<1> SUFFICES ASSUME NEW u \in Threads \ {t} PROVE Holding(u)'
  OBVIOUS
<1>1. /\ pc'[u] = pc[u] /\ then'[u] = then[u] /\ gen'[u] = gen[u]
      /\ key'[u] = key[u] /\ path'[u] = path[u]
      /\ held'[u] = held[u] /\ want'[u] = want[u]
  BY Zenon DEF OnlyMoves
<1>2. Shape /\ Holding(u)
  BY DEF LockInv, GrowInv
<1>3. Locked(u, pc[u])' = Locked(u, pc[u]) /\ Locked(u, then[u])' = Locked(u, then[u])
  <2>1. \A l : Locked(u, l)' = Locked(u, l)
    BY <1>1, <1>2, LockedStays, Zenon
  <2>q. QED
    BY <1>1, <2>1, Zenon
<1>q. QED
  BY <1>1, <1>2, <1>3, Zenon DEF Holding

\* A thread that gives up its shards leaves those of the others locked.
LEMMA ReleasesExclude ==
    ASSUME LockShape, MutualExclusion, NEW t \in Threads, Releases(t)
    PROVE  /\ MutualExclusion'
           /\ lock' \in [Shards -> BOOLEAN] /\ held' \in [Threads -> SUBSET Shards]
           /\ held'[t] = {} /\ \A u \in Threads \ {t} : held'[u] = held[u]
<1>1. /\ held' \in [Threads -> SUBSET Shards]
      /\ held'[t] = {} /\ \A u \in Threads \ {t} : held'[u] = held[u]
  BY Zenon DEF Releases, LockShape
<1>2. lock' \in [Shards -> BOOLEAN]
  BY DEF Releases, LockShape
<1>3. ASSUME NEW u \in Threads, NEW s \in held'[u] PROVE lock'[s]
  <2>1. u # t /\ s \in held[u] /\ s \in Shards
    BY <1>1, <1>3 DEF LockShape
  <2>2. lock[s] /\ s \notin held[t]
    BY <2>1 DEF MutualExclusion
  <2>q. QED
    BY <2>1, <2>2, Zenon DEF Releases
<1>4. ASSUME NEW u \in Threads, NEW v \in Threads, u # v PROVE held'[u] \cap held'[v] = {}
  BY <1>1, <1>4 DEF MutualExclusion
<1>q. QED
  BY <1>1, <1>2, <1>3, <1>4, Zenon DEF MutualExclusion

\* One that stays with its two shards.
LEMMA HomeStepKeeps ==
    ASSUME LockInv, GrowInv', SeedsKept, NEW t \in Threads, HomeStep(t)
    PROVE  LockInv'
<1>1. PICK l \in HomeLabels : /\ pc' = [pc EXCEPT ![t] = l]
                              /\ l \in {"insert", "remove"} => gen[t] = current_gen
  BY Zenon DEF HomeStep
<1>2. /\ lock' = lock /\ held' = held /\ want' = want /\ then' = then
      /\ key' = key /\ gen' = gen /\ path' = path /\ current_gen' = current_gen
      /\ pc[t] \in HomeLabels
  BY Zenon DEF HomeStep
<1>3. pc'[t] = l /\ \A u \in Threads \ {t} : pc'[u] = pc[u]
  BY <1>1, Zenon DEF LockInv, GrowInv, Shape
<1>4. LockShape'
  BY <1>2, <1>3, Zenon DEF LockInv, LockShape, HomeLabels
<1>5. MutualExclusion'
  BY <1>2, Zenon DEF LockInv, MutualExclusion
<1>6. \A u \in Threads \ {t} : Holding(u)'
  BY <1>2, <1>3, OthersHold, Zenon DEF OnlyMoves
<1>7. Holding(t)'
  <2>1. Locked(t, l)' = Locked(t, l)
    BY <1>2, LockedStays, Zenon DEF LockInv, GrowInv
  <2>2. held[t] = MyShards(t)
    BY <1>2, Zenon DEF LockInv, Holding, Locked, HomeLabels
  <2>3. Locked(t, l) = MyShards(t)
    BY <1>1, Zenon DEF Locked
  <2>4. pc'[t] # "acquire" /\ held'[t] = Locked(t, l)'
    BY <1>2, <1>3, <2>1, <2>2, <2>3, Zenon DEF HomeLabels
  <2>q. QED
    BY <1>3, <2>4, Zenon DEF Holding
<1>8. \A u \in Threads : pc'[u] \in {"insert", "remove"} => gen'[u] = current_gen'
  BY <1>1, <1>2, <1>3 DEF LockInv
<1>q. QED
  BY <1>4, <1>5, <1>6, <1>7, <1>8, Zenon DEF LockInv

\* One that gives them up and goes on without a lock.
LEMMA GoesFreeKeeps ==
    ASSUME LockInv, GrowInv', SeedsKept, NEW t \in Threads, GoesFree(t)
    PROVE  LockInv'
<1>1. PICK l \in FreeLabels : /\ pc' = [pc EXCEPT ![t] = l]
                              /\ \/ key' = key /\ pc[t] # "idle"
                                 \/ \E k \in Keys : key' = [key EXCEPT ![t] = k]
                                 \/ l = "idle" /\ key' = [key EXCEPT ![t] = NoKey]
  BY Zenon DEF GoesFree
<1>2. /\ Releases(t) /\ want' = want /\ then' = then /\ gen' = gen /\ path' = path
      /\ current_gen' = current_gen \/ held[t] = Shards
  BY Zenon DEF GoesFree
<1>3. pc'[t] = l /\ \A u \in Threads \ {t} : pc'[u] = pc[u]
  BY <1>1, Zenon DEF LockInv, GrowInv, Shape
<1>4. /\ DOMAIN key' = Threads /\ \A u \in Threads \ {t} : key'[u] = key[u]
      /\ l # "idle" => key'[t] \in Keys
  BY <1>1 DEF LockInv, LockShape
<1>5. /\ MutualExclusion'
      /\ lock' \in [Shards -> BOOLEAN] /\ held' \in [Threads -> SUBSET Shards]
      /\ held'[t] = {} /\ \A u \in Threads \ {t} : held'[u] = held[u]
  BY <1>2, ReleasesExclude, Zenon DEF LockInv
<1>6. LockShape'
  BY <1>2, <1>3, <1>4, <1>5, Zenon DEF LockInv, LockShape
<1>7. \A u \in Threads \ {t} : Holding(u)'
  BY <1>2, <1>3, <1>4, <1>5, OthersHold, Zenon DEF OnlyMoves
<1>8. Holding(t)'
  <2>1. l # "acquire" /\ l \notin HomeLabels /\ l # "commit" /\ l # "rehash"
    BY <1>1 DEF FreeLabels, HomeLabels
  <2>q. QED
    BY <1>3, <1>5, <2>1, Zenon DEF Holding, Locked
<1>9. ASSUME NEW u \in Threads, pc'[u] \in {"insert", "remove"} PROVE gen'[u] = current_gen'
  <2>1. u # t /\ pc[u] \in {"insert", "remove"}
    BY <1>1, <1>3, <1>9 DEF FreeLabels
  <2>2. gen'[u] = current_gen
    BY <1>2, <2>1 DEF LockInv
  <2>3. held[u] = MyShards(u)
    BY <2>1, Zenon DEF LockInv, Holding, Locked, HomeLabels
  <2>4. gen[u] \in 1 .. Len(gens) /\ key[u] \in Keys /\ Shape
    BY <2>1, Zenon DEF LockInv, LockShape, GrowInv, Shape
  <2>5. MyShards(u) \subseteq Shards /\ MyShards(u) # {}
    BY <2>4, KeyShards, Zenon DEF MyShards, MyGen
  <2>6. held[t] \cap held[u] = {}
    BY <2>1 DEF LockInv, MutualExclusion
  <2>7. held[t] # Shards
    BY <2>3, <2>5, <2>6
  <2>q. QED
    BY <1>2, <2>2, <2>7
<1>q. QED
  BY <1>5, <1>6, <1>7, <1>8, <1>9, Zenon DEF LockInv

\* One that gives them up and waits for others.
LEMMA GoesWaitingKeeps ==
    ASSUME LockInv, GrowInv', SeedsKept, NEW t \in Threads, GoesWaiting(t)
    PROVE  LockInv'
<1>1. /\ Releases(t) /\ key' = key /\ pc[t] # "idle" /\ current_gen' = current_gen
      /\ gen' = gen \/ gen' = [gen EXCEPT ![t] = current_gen]
      /\ path' = path \/ \E p : path' = [path EXCEPT ![t] = p]
      /\ pc' = [pc EXCEPT ![t] = "acquire"]
  BY Zenon DEF GoesWaiting
<1>2. PICK l \in Nexts, S \in SUBSET Shards :
          /\ want' = [want EXCEPT ![t] = S] /\ then' = [then EXCEPT ![t] = l]
          /\ S = Locked(t, l)'
  BY Zenon DEF GoesWaiting
<1>3. pc'[t] = "acquire" /\ \A u \in Threads \ {t} : pc'[u] = pc[u]
  BY <1>1, Zenon DEF LockInv, GrowInv, Shape
<1>4. /\ then'[t] = l /\ \A u \in Threads \ {t} : then'[u] = then[u]
      /\ \A u \in Threads \ {t} : gen'[u] = gen[u]
  BY <1>1, <1>2, Zenon DEF LockInv, GrowInv, Shape
<1>5. /\ want' \in [Threads -> SUBSET Shards]
      /\ want'[t] = S /\ \A u \in Threads \ {t} : want'[u] = want[u]
      /\ DOMAIN path' = Threads /\ \A u \in Threads \ {t} : path'[u] = path[u]
  BY <1>1, <1>2, Zenon DEF LockInv, LockShape
<1>6. /\ MutualExclusion'
      /\ lock' \in [Shards -> BOOLEAN] /\ held' \in [Threads -> SUBSET Shards]
      /\ held'[t] = {} /\ \A u \in Threads \ {t} : held'[u] = held[u]
  BY <1>1, ReleasesExclude, Zenon DEF LockInv
<1>7. LockShape'
  BY <1>1, <1>3, <1>5, <1>6, Zenon DEF LockInv, LockShape
<1>8. \A u \in Threads \ {t} : Holding(u)'
  <2>1. OnlyMoves(t)
    BY <1>1, <1>3, <1>4, <1>5, <1>6, Zenon DEF OnlyMoves
  <2>q. QED
    BY <2>1, OthersHold, Zenon
<1>9. Holding(t)'
  BY <1>2, <1>3, <1>4, <1>5, <1>6, Zenon DEF Holding
<1>10. \A u \in Threads : pc'[u] \in {"insert", "remove"} => gen'[u] = current_gen'
  BY <1>1, <1>3, <1>4, Zenon DEF LockInv
<1>q. QED
  BY <1>6, <1>7, <1>8, <1>9, <1>10, Zenon DEF LockInv

\* One that takes the next shard, which nobody holds.
LEMMA LockShardHolds ==
    ASSUME LockInv, GrowInv', SeedsKept, NEW t \in Threads, LockShard(t)
    PROVE  LockInv'
<1>1. PICK s \in want[t] :
          /\ ~ lock[s] /\ lock' = [lock EXCEPT ![s] = TRUE]
          /\ held' = [held EXCEPT ![t] = held[t] \cup {s}]
          /\ want' = [want EXCEPT ![t] = want[t] \ {s}]
          /\ pc' = [pc EXCEPT ![t] = IF want[t] = {s} THEN then[t] ELSE "acquire"]
  BY Zenon DEF LockShard, SpinLock, Goto
<1>2. /\ pc[t] = "acquire" /\ then' = then /\ key' = key /\ gen' = gen /\ path' = path
      /\ current_gen' = current_gen
  BY DEF LockShard, table, call, local
<1>3. /\ pc'[t] = (IF want[t] = {s} THEN then[t] ELSE "acquire")
      /\ \A u \in Threads \ {t} : pc'[u] = pc[u]
  BY <1>1, Zenon DEF LockInv, GrowInv, Shape
<1>4. s \in Shards /\ held[t] \subseteq Shards
  BY <1>1, Zenon DEF LockInv, LockShape
<1>5. /\ held' \in [Threads -> SUBSET Shards] /\ want' \in [Threads -> SUBSET Shards]
      /\ held'[t] = held[t] \cup {s} /\ want'[t] = want[t] \ {s}
      /\ \A u \in Threads \ {t} : held'[u] = held[u] /\ want'[u] = want[u]
  BY <1>1, <1>4, Zenon DEF LockInv, LockShape
<1>6. /\ lock' \in [Shards -> BOOLEAN] /\ lock'[s]
      /\ \A r \in Shards : lock[r] => lock'[r]
  BY <1>1, <1>4, Zenon DEF LockInv, LockShape
<1>7. MutualExclusion'
  <2>1. ASSUME NEW u \in Threads, NEW r \in held'[u] PROVE lock'[r]
    <3>1. r = s \/ (r \in held[u] /\ r \in Shards)
      BY <1>5, <2>1, Zenon DEF LockInv, LockShape
    <3>2. r \in held[u] => lock[r]
      BY Zenon DEF LockInv, MutualExclusion
    <3>q. QED
      BY <1>6, <3>1, <3>2, Zenon
  <2>2. \A u \in Threads : s \notin held[u]
    BY <1>1, Zenon DEF LockInv, MutualExclusion
  <2>3. ASSUME NEW u \in Threads, NEW v \in Threads, u # v PROVE held'[u] \cap held'[v] = {}
    <3>1. held[u] \cap held[v] = {}
      BY <2>3, Zenon DEF LockInv, MutualExclusion
    <3>2. \A w \in Threads : held'[w] = held[w] \/ (w = t /\ held'[w] = held[w] \cup {s})
      BY <1>5, Zenon
    <3>q. QED
      BY <2>2, <2>3, <3>1, <3>2
  <2>q. QED
    BY <2>1, <2>3, Zenon DEF MutualExclusion
<1>8. LockShape'
  BY <1>2, <1>3, <1>5, <1>6, Zenon DEF LockInv, LockShape
<1>9. \A u \in Threads \ {t} : Holding(u)'
  <2>1. OnlyMoves(t)
    BY <1>2, <1>3, <1>5, Zenon DEF OnlyMoves
  <2>q. QED
    BY <2>1, OthersHold, Zenon
<1>10. Holding(t)'
  <2>1. then[t] \in Nexts /\ held[t] \cup want[t] = Locked(t, then[t])
    BY <1>2, Zenon DEF LockInv, Holding
  <2>2. \A l : Locked(t, l)' = Locked(t, l)
    BY <1>2, LockedStays, Zenon DEF LockInv, GrowInv
  <2>3. held'[t] \cup want'[t] = held[t] \cup want[t]
    BY <1>1, <1>5, Zenon
  <2>4. want[t] = {s} => held'[t] = held[t] \cup want[t]
    BY <1>5
  <2>5. CASE want[t] = {s}
    <3>1. pc'[t] = then[t] /\ then[t] # "acquire" /\ held'[t] = Locked(t, then[t])
      BY <1>3, <2>1, <2>4, <2>5, Zenon DEF Nexts
    <3>2. Locked(t, pc[t])' = Locked(t, then[t])
      BY <2>2, <3>1, Zenon
    <3>q. QED
      BY <3>1, <3>2, Zenon DEF Holding
  <2>6. CASE want[t] # {s}
    <3>1. pc'[t] = "acquire" /\ held'[t] \cup want'[t] = Locked(t, then[t])
      BY <1>3, <2>1, <2>3, <2>6, Zenon
    <3>2. Locked(t, then[t])' = Locked(t, then[t])
      BY <1>2, <2>2, Zenon
    <3>q. QED
      BY <1>2, <2>1, <3>1, <3>2, Zenon DEF Holding
  <2>q. QED
    BY <2>5, <2>6, Zenon
<1>11. \A u \in Threads : pc'[u] \in {"insert", "remove"} => gen'[u] = current_gen'
  <2>1. pc'[t] \notin {"insert", "remove"}
    BY <1>2, <1>3, Zenon DEF LockInv, Holding, Nexts
  <2>q. QED
    BY <1>2, <1>3, <2>1, Zenon DEF LockInv
<1>q. QED
  BY <1>7, <1>8, <1>9, <1>10, <1>11, Zenon DEF LockInv
-----------------------------------------------------------------------------
\* What a thread holds, label by label.
LEMMA HeldAt ==
    ASSUME LockInv, NEW t \in Threads
    PROVE  /\ pc[t] \in HomeLabels => held[t] = MyShards(t)
           /\ pc[t] \in FreeLabels => held[t] = {}
           /\ pc[t] = "commit" => held[t] = PathShards(MyGen(t), key[t], path[t])
           /\ pc[t] = "rehash" => held[t] = Shards
BY Zenon DEF LockInv, Holding, Locked, HomeLabels, FreeLabels

\* Unlocking all one holds.
LEMMA UnlockReleases ==
    ASSUME LockInv, NEW t \in Threads, NEW S, held[t] = S, Unlock(t, S)
    PROVE  Releases(t)
BY Zenon DEF Unlock, Releases, LockInv, LockShape

\* A thread that holds nothing has released all it holds.
LEMMA NothingReleased ==
    ASSUME LockInv, NEW t \in Threads, held[t] = {}, lock' = lock, held' = held
    PROVE  Releases(t)
<1>1. held' = [held EXCEPT ![t] = {}]
  BY DEF LockInv, LockShape
<1>2. lock = [s \in Shards |-> lock[s] /\ s \notin held[t]]
  BY DEF LockInv, LockShape
<1>q. QED
  BY <1>1, <1>2, Zenon DEF Releases

\* The steps of a thread that keeps its two shards.
LEMMA HomeSteps ==
    ASSUME LockInv, NEW t \in Threads,
           \/ Validated(t) \/ InsertDirect(t) \/ InsertNoPath(t)
           \/ StashInsert(t)
    PROVE  HomeStep(t)
<1> USE DEF HomeStep, HomeLabels, Goto, table, locks, local, call
<1>Validated. CASE Validated(t)
  BY <1>Validated, Zenon DEF Validated, StillCurrent
<1>InsertDirect. CASE InsertDirect(t)
  BY <1>InsertDirect, Zenon DEF InsertDirect
<1>InsertNoPath. CASE InsertNoPath(t)
  BY <1>InsertNoPath, Zenon DEF InsertNoPath, BothFull
<1>StashInsert. CASE StashInsert(t)
  BY <1>StashInsert, Zenon DEF StashInsert
<1>q. QED
  BY <1>Validated, <1>InsertDirect, <1>InsertNoPath, <1>StashInsert, Zenon

\* The steps of a thread that holds no shard and asks for none.
LEMMA FreeSteps ==
    ASSUME LockInv, NEW t \in Threads,
           \/ Enter(t) \/ Return(t) \/ GiveUp(t) \/ InsertReturn(t)
           \/ InsertGrow(t) \/ UpsertGiveUp(t) \/ GrowLock(t) \/ Unfreeze(t)
           \/ Grown(t)
    PROVE  GoesFree(t)
<1>1. /\ pc[t] \in FreeLabels /\ lock' = lock /\ held' = held
      /\ want' = want /\ then' = then /\ gen' = gen /\ path' = path /\ current_gen' = current_gen
  BY Zenon DEF Enter, Call, Return, GiveUp, InsertReturn, InsertGrow, UpsertGiveUp, GrowLock, Unfreeze,
         Grown, FreeLabels, table, locks, local
<1>2. Releases(t)
  BY <1>1, HeldAt, NothingReleased, Zenon
<1>3. \E l \in FreeLabels :
          /\ pc' = [pc EXCEPT ![t] = l]
          /\ \/ key' = key /\ pc[t] # "idle"
             \/ \E k \in Keys : key' = [key EXCEPT ![t] = k]
             \/ l = "idle" /\ key' = [key EXCEPT ![t] = NoKey]
  <2> USE DEF FreeLabels, Goto, call
  <2>Enter. CASE Enter(t)
    BY <2>Enter, Zenon DEF Enter, Call
  <2>Return. CASE Return(t)
    BY <2>Return DEF Return
  <2>GiveUp. CASE GiveUp(t)
    BY <2>GiveUp DEF GiveUp
  <2>InsertReturn. CASE InsertReturn(t)
    BY <2>InsertReturn DEF InsertReturn
  <2>InsertGrow. CASE InsertGrow(t)
    BY <2>InsertGrow DEF InsertGrow
  <2>UpsertGiveUp. CASE UpsertGiveUp(t)
    BY <2>UpsertGiveUp DEF UpsertGiveUp
  <2>GrowLock. CASE GrowLock(t)
    BY <2>GrowLock DEF GrowLock
  <2>Unfreeze. CASE Unfreeze(t)
    BY <2>Unfreeze DEF Unfreeze
  <2>Grown. CASE Grown(t)
    BY <2>Grown, Zenon DEF Grown
  <2>q. QED
    BY <2>Enter, <2>Return, <2>GiveUp, <2>InsertReturn, <2>InsertGrow, <2>UpsertGiveUp,
       <2>GrowLock, <2>Unfreeze, <2>Grown, Zenon
<1>q. QED
  BY <1>1, <1>2, <1>3, Zenon DEF GoesFree

\* The steps of a thread that gives up its two shards.
LEMMA HomeReleases ==
    ASSUME LockInv, NEW t \in Threads,
           \/ InsertStale(t) \/ RemoveStale(t) \/ RemoveHit(t)
           \/ RemoveMiss(t) \/ InsertDuplicate(t) \/ InsertOom(t)
           \/ StashDuplicate(t) \/ StashFull(t) \/ InsertDone(t)
           \/ UpsertStale(t) \/ UpsertHit(t) \/ UpsertMiss(t)
    PROVE  GoesFree(t)
<1>1. /\ pc[t] \in HomeLabels /\ Unlock(t, MyShards(t))
      /\ want' = want /\ then' = then /\ gen' = gen /\ path' = path /\ current_gen' = current_gen
      /\ key' = key /\ \E l \in FreeLabels : pc' = [pc EXCEPT ![t] = l]
  <2> USE DEF HomeLabels, FreeLabels, Goto, table, local, call
  <2>InsertStale. CASE InsertStale(t)
    BY <2>InsertStale, Zenon DEF InsertStale
  <2>RemoveStale. CASE RemoveStale(t)
    BY <2>RemoveStale, Zenon DEF RemoveStale
  <2>RemoveHit. CASE RemoveHit(t)
    BY <2>RemoveHit, Zenon DEF RemoveHit
  <2>RemoveMiss. CASE RemoveMiss(t)
    BY <2>RemoveMiss, Zenon DEF RemoveMiss
  <2>InsertDuplicate. CASE InsertDuplicate(t)
    BY <2>InsertDuplicate, Zenon DEF InsertDuplicate, AnswerDuplicate
  <2>InsertOom. CASE InsertOom(t)
    BY <2>InsertOom, Zenon DEF InsertOom
  <2>StashDuplicate. CASE StashDuplicate(t)
    BY <2>StashDuplicate, Zenon DEF StashDuplicate, AnswerDuplicate
  <2>StashFull. CASE StashFull(t)
    BY <2>StashFull, Zenon DEF StashFull
  <2>InsertDone. CASE InsertDone(t)
    BY <2>InsertDone, Zenon DEF InsertDone
  <2>UpsertStale. CASE UpsertStale(t)
    BY <2>UpsertStale, Zenon DEF UpsertStale
  <2>UpsertHit. CASE UpsertHit(t)
    BY <2>UpsertHit, Zenon DEF UpsertHit
  <2>UpsertMiss. CASE UpsertMiss(t)
    BY <2>UpsertMiss, Zenon DEF UpsertMiss
  <2>q. QED
    BY <2>InsertStale, <2>RemoveStale, <2>RemoveHit, <2>RemoveMiss, <2>InsertDuplicate,
       <2>InsertOom,
       <2>StashDuplicate, <2>StashFull, <2>InsertDone, <2>UpsertStale, <2>UpsertHit, <2>UpsertMiss, Zenon
<1>2. held[t] = MyShards(t) /\ pc[t] # "idle"
  BY <1>1, HeldAt, Zenon DEF HomeLabels
<1>3. Releases(t)
  BY <1>1, <1>2, UnlockReleases, Zenon
<1>q. QED
  BY <1>1, <1>2, <1>3, Zenon DEF GoesFree

\* A grower that gives up all shards.
LEMMA GrowReleases ==
    ASSUME LockInv, NEW t \in Threads, Publish(t) \/ GrowOverflows(t) \/ GrowOom(t)
    PROVE  GoesFree(t)
<1>1. /\ pc[t] = "rehash" /\ Unlock(t, Shards)
      /\ want' = want /\ then' = then /\ gen' = gen /\ path' = path /\ key' = key
      /\ \E l \in FreeLabels : pc' = [pc EXCEPT ![t] = l]
  BY Zenon DEF Publish, GrowOverflows, GrowOom, FreeLabels, Goto, local, call
<1>2. held[t] = Shards /\ pc[t] # "idle"
  BY <1>1, HeldAt, Zenon
<1>3. Releases(t)
  BY <1>1, <1>2, UnlockReleases, Zenon
<1>q. QED
  BY <1>1, <1>2, <1>3, Zenon DEF GoesFree

\* Loading the current generation and asking for the key's shards in it.
LEMMA LoadsWait ==
    ASSUME LockInv, NEW t \in Threads, LoadGen(t) \/ UpsertLoad(t)
    PROVE  GoesWaiting(t)
<1>1. /\ pc[t] \in {"load", "upsert_load"} /\ lock' = lock /\ held' = held
      /\ key' = key /\ current_gen' = current_gen /\ gens' = gens /\ path' = path
      /\ gen' = [gen EXCEPT ![t] = current_gen]
      /\ pc' = [pc EXCEPT ![t] = "acquire"]
      /\ want' = [want EXCEPT ![t] = ShardsOf(Current, key[t])]
      /\ \E l \in {"check", "upsert"} : then' = [then EXCEPT ![t] = l]
  BY Zenon DEF LoadGen, UpsertLoad, Acquire, Goto, table, call
<1>2. Releases(t)
  BY <1>1, HeldAt, NothingReleased, Zenon DEF FreeLabels
<1>3. ShardsOf(Current, key[t]) \subseteq Shards
  <2>1. key[t] \in Keys /\ Shape /\ current_gen \in 1 .. Len(gens)
    BY <1>1, Zenon DEF LockInv, LockShape, GrowInv, Shape
  <2>q. QED
    BY <2>1, KeyShards, Zenon DEF Current
<1>4. MyShards(t)' = ShardsOf(Current, key[t])
  <2>1. gen'[t] = current_gen
    BY <1>1 DEF LockInv, GrowInv, Shape
  <2>q. QED
    BY <1>1, <2>1 DEF MyShards, MyGen, Current
<1>5. \A l \in {"check", "upsert"} : l \in Nexts /\ Locked(t, l)' = MyShards(t)'
  BY Zenon DEF Locked, HomeLabels, Nexts
<1>6. pc[t] # "idle"
  BY <1>1
<1>q. QED
  BY <1>1, <1>2, <1>3, <1>4, <1>5, <1>6, Zenon DEF GoesWaiting

\* Freezing and asking for all shards.
LEMMA FreezeWaits ==
    ASSUME LockInv, NEW t \in Threads, Freeze(t)
    PROVE  GoesWaiting(t)
<1>1. /\ pc[t] = "freeze" /\ lock' = lock /\ held' = held
      /\ key' = key /\ current_gen' = current_gen /\ path' = path /\ gen' = gen
      /\ pc' = [pc EXCEPT ![t] = "acquire"]
      /\ want' = [want EXCEPT ![t] = Shards] /\ then' = [then EXCEPT ![t] = "rehash"]
  BY DEF Freeze, Acquire, Goto, call, local
<1>2. Releases(t)
  BY <1>1, HeldAt, NothingReleased, Zenon DEF FreeLabels
<1>3. Locked(t, "rehash")' = Shards /\ "rehash" \in Nexts /\ pc[t] # "idle"
  BY <1>1, Zenon DEF Locked, HomeLabels, Shards, Nexts
<1>q. QED
  BY <1>1, <1>2, <1>3, Zenon DEF GoesWaiting

\* Trading the key's shards for those of a path.
LEMMA FindPathWaits ==
    ASSUME LockInv, NEW t \in Threads, InsertFindPath(t)
    PROVE  GoesWaiting(t)
<1>1. PICK p \in Paths(MyGen(t), key[t]) :
          /\ path' = [path EXCEPT ![t] = p]
          /\ Acquire(t, PathShards(MyGen(t), key[t], p), "commit")
  BY Zenon DEF InsertFindPath
<1>2. /\ pc[t] = "insert" /\ Unlock(t, MyShards(t))
      /\ key' = key /\ current_gen' = current_gen /\ gens' = gens /\ gen' = gen
  BY Zenon DEF InsertFindPath, BothFull, table, call
<1>3. /\ pc' = [pc EXCEPT ![t] = "acquire"] /\ then' = [then EXCEPT ![t] = "commit"]
      /\ want' = [want EXCEPT ![t] = PathShards(MyGen(t), key[t], p)]
  BY <1>1, Zenon DEF Acquire, Goto
<1>4. held[t] = MyShards(t) /\ pc[t] # "idle"
  BY <1>2, HeldAt, Zenon DEF HomeLabels
<1>5. Releases(t)
  BY <1>2, <1>4, UnlockReleases, Zenon
<1>6. PathShards(MyGen(t), key[t], p) \subseteq Shards
  <2>1. key[t] \in Keys /\ Shape /\ gen[t] \in 1 .. Len(gens)
    BY <1>2, Zenon DEF LockInv, LockShape, GrowInv, Shape
  <2>q. QED
    BY <1>1, <2>1, PathShardsExist, Zenon DEF MyGen
<1>7. Locked(t, "commit")' = PathShards(MyGen(t), key[t], p) /\ "commit" \in Nexts
  <2>1. path'[t] = p
    BY <1>1, Zenon DEF LockInv, LockShape
  <2>2. MyGen(t)' = MyGen(t) /\ key'[t] = key[t]
    BY <1>2, Zenon DEF MyGen
  <2>3. Locked(t, "commit")' = PathShards(MyGen(t), key[t], path[t])'
    BY Zenon DEF Locked, HomeLabels
  <2>4. PathShards(MyGen(t), key[t], path[t])' = PathShards(MyGen(t), key[t], p)
    BY <2>1, <2>2, Zenon DEF PathShards, ShardsOf, Home, Bucket1, Bucket2
  <2>q. QED
    BY <2>3, <2>4, Zenon DEF Nexts
<1>q. QED
  BY <1>1, <1>2, <1>3, <1>4, <1>5, <1>6, <1>7, Zenon DEF GoesWaiting

\* A path found changed: back to the key's two shards.
LEMMA PathInvalidWaits ==
    ASSUME LockInv, NEW t \in Threads, PathInvalid(t)
    PROVE  GoesWaiting(t)
<1>1. /\ pc[t] = "commit" /\ Unlock(t, PathShards(MyGen(t), key[t], path[t]))
      /\ key' = key /\ current_gen' = current_gen /\ gens' = gens /\ gen' = gen /\ path' = path
      /\ pc' = [pc EXCEPT ![t] = "acquire"] /\ then' = [then EXCEPT ![t] = "stash"]
      /\ want' = [want EXCEPT ![t] = MyShards(t)]
  BY Zenon DEF PathInvalid, Acquire, Goto, table, call, local
<1>2. held[t] = PathShards(MyGen(t), key[t], path[t]) /\ pc[t] # "idle"
  BY <1>1, HeldAt, Zenon
<1>3. Releases(t)
  BY <1>1, <1>2, UnlockReleases, Zenon
<1>4. MyShards(t) \subseteq Shards
  <2>1. key[t] \in Keys /\ Shape /\ gen[t] \in 1 .. Len(gens)
    BY <1>1, Zenon DEF LockInv, LockShape, GrowInv, Shape
  <2>q. QED
    BY <2>1, KeyShards, Zenon DEF MyShards, MyGen
<1>5. Locked(t, "stash")' = MyShards(t) /\ "stash" \in Nexts
  BY <1>1, Zenon DEF Locked, HomeLabels, MyShards, MyGen, Nexts
<1>q. QED
  BY <1>1, <1>2, <1>3, <1>4, <1>5, Zenon DEF GoesWaiting
-----------------------------------------------------------------------------
\* No step changes the seed or the size of a generation.
LEMMA SeedsKeptNext == GrowInv /\ [Next]_vars => SeedsKept
<1> SUFFICES ASSUME GrowInv, [Next]_vars PROVE SeedsKept
  OBVIOUS
<1>1. gens' = gens => SeedsKept
  BY DEF SeedsKept
<1>2. ASSUME NEW t \in Threads, Writes(t) PROVE SeedsKept
  BY <1>2, WritesKeep, Zenon DEF GrowInv, SeedsKept
<1>3. ASSUME NEW x \in States, gens' = StateStored(x) PROVE SeedsKept
  <2>1. \A i \in 1 .. Len(gens) : /\ StateStored(x)[i].seed = gens[i].seed
                                  /\ StateStored(x)[i].num_buckets = gens[i].num_buckets
    BY StateStoredKeeps, Zenon DEF GrowInv
  <2>q. QED
    BY <1>3, <2>1 DEF SeedsKept
<1>4. ASSUME NEW t \in Threads, Enter(t) \/ Step(t) PROVE SeedsKept
  <2>1. CASE Enter(t)
    BY <1>1, <2>1, MovesOn, Zenon
  <2>2. CASE LockShard(t)
    BY <1>1, <2>2, Zenon DEF LockShard, table
  <2>3. CASE LoadGen(t) \/ Validated(t) \/ Return(t)
    BY <1>1, <2>3, MovesOn, Waits, Zenon
  <2>4. CASE Insert(t)
    BY <1>1, <1>2, <2>4, MovesOn, Waits, Duplicates, Changes, Zenon DEF Insert
  <2>5. CASE Upsert(t)
    BY <1>1, <2>5, MovesOn, Waits, Zenon DEF Upsert
  <2>6. CASE Remove(t)
    BY <1>1, <1>2, <2>6, MovesOn, Changes, Zenon DEF Remove
  <2>7. CASE GrowLock(t) \/ GrowOverflows(t) \/ GrowOom(t) \/ Grown(t)
    BY <1>1, <2>7, Zenon DEF GrowLock, GrowOverflows, GrowOom, Grown, table
  <2>8. CASE Freeze(t)
    BY <1>3, <2>8 DEF Freeze, StateStored, States
  <2>9. CASE Unfreeze(t)
    BY <1>3, <2>9 DEF Unfreeze, StateStored, States
  <2>10. CASE Publish(t)
    BY <2>10, PublishKeeps, Zenon DEF SeedsKept
  <2>q. QED
    BY <1>4, <2>1, <2>2, <2>3, <2>4, <2>5, <2>6, <2>7, <2>8, <2>9, <2>10, Zenon DEF Step, Grow
<1>5. UNCHANGED vars => SeedsKept
  BY <1>1 DEF vars, table
<1>q. QED
  BY <1>4, <1>5, Zenon DEF Next, Finished

\* A new table satisfies the invariant.
LEMMA LockInvInit == Init => LockInv
<1> SUFFICES ASSUME Init PROVE LockInv
  OBVIOUS
<1>1. GrowInv
  BY GrowInvInit
<1>2. /\ lock = [s \in Shards |-> FALSE] /\ pc = [t \in Threads |-> "idle"]
      /\ key = [t \in Threads |-> NoKey] /\ want = [t \in Threads |-> {}]
      /\ held = [t \in Threads |-> {}] /\ path = [t \in Threads |-> <<>>]
  BY DEF Init
<1>3. LockShape /\ MutualExclusion
  BY <1>2 DEF LockShape, MutualExclusion
<1>4. \A t \in Threads : Holding(t)
  BY <1>2 DEF Holding, Locked, HomeLabels
<1>q. QED
  BY <1>1, <1>2, <1>3, <1>4 DEF LockInv

\* Every step but a committed displacement keeps it.
LEMMA LockInvNext == LockInv /\ [Next]_vars /\ [CommitsNothing]_vars => LockInv'
<1> SUFFICES ASSUME LockInv, [Next]_vars, [CommitsNothing]_vars PROVE LockInv'
  OBVIOUS
<1>1. GrowInv' /\ SeedsKept
  BY GrowInvNext, SeedsKeptNext, Zenon DEF LockInv
<1>2. CASE UNCHANGED vars
  <2>1. /\ gens' = gens /\ current_gen' = current_gen /\ lock' = lock /\ held' = held
        /\ want' = want /\ then' = then /\ gen' = gen /\ key' = key /\ path' = path /\ pc' = pc
    BY <1>2, Zenon DEF vars, table, locks, local, call
  <2>2. \A t \in Threads : Holding(t)'
    BY <2>1, Zenon DEF LockInv, Holding, Locked, MyShards, MyGen
  <2>q. QED
    BY <1>1, <2>1, <2>2, Zenon DEF LockInv, LockShape, MutualExclusion
<1>3. ASSUME NEW t \in Threads, Enter(t) \/ Step(t), ~ PathCommit(t) PROVE LockInv'
  <2>1. CASE Enter(t)
    BY <1>1, <2>1, FreeSteps, GoesFreeKeeps, Zenon
  <2>2. CASE LockShard(t)
    BY <1>1, <2>2, LockShardHolds, Zenon
  <2>3. CASE LoadGen(t) \/ Validated(t) \/ Return(t)
    BY <1>1, <2>3, LoadsWait, HomeSteps, FreeSteps, GoesWaitingKeeps, HomeStepKeeps,
       GoesFreeKeeps, Zenon
  <2>4. CASE Insert(t)
    BY <1>1, <1>3, <2>4, FreeSteps, HomeReleases, HomeSteps, FindPathWaits, PathInvalidWaits,
       GoesFreeKeeps, HomeStepKeeps, GoesWaitingKeeps, Zenon DEF Insert
  <2>5. CASE Upsert(t)
    BY <1>1, <2>5, LoadsWait, FreeSteps, HomeReleases, GoesFreeKeeps, GoesWaitingKeeps,
       Zenon DEF Upsert
  <2>6. CASE Remove(t)
    BY <1>1, <2>6, HomeReleases, GoesFreeKeeps, Zenon DEF Remove
  <2>7. CASE Grow(t)
    BY <1>1, <2>7, FreeSteps, FreezeWaits, GrowReleases, GoesFreeKeeps, GoesWaitingKeeps,
       Zenon DEF Grow
  <2>q. QED
    BY <1>3, <2>1, <2>2, <2>3, <2>4, <2>5, <2>6, <2>7, Zenon DEF Step
<1>q. QED
  BY <1>2, <1>3, Zenon DEF Next, Finished, CommitsNothing

\* In a behaviour without a committed displacement every thread holds the
\* shards its label calls for.
THEOREM LockInvHolds == Spec /\ [][CommitsNothing]_vars => []LockInv
<1>q. QED
  BY LockInvInit, LockInvNext, PTL DEF Spec

\* Mutual exclusion: only a committed displacement, whose shards insert_done
\* unlocks a second time, can let two writers into one shard.
THEOREM MutualExclusionHolds == Spec /\ [][CommitsNothing]_vars => []MutualExclusion
<1>1. LockInv => MutualExclusion
  BY Zenon DEF LockInv
<1>q. QED
  BY <1>1, LockInvHolds, PTL

\* A step leaves the slots of an OLD generation alone: who writes slots has
\* validated under the locks that its generation is current, and no grower
\* can publish another before they are given up.
OldKept == \A i \in 1 .. Len(gens) : gens[i].state = "OLD" => gens'[i].slot = gens[i].slot

\* Every step but a committed displacement is such a step.
LEMMA OldKeptNext == LockInv /\ [Next]_vars /\ [CommitsNothing]_vars => [OldKept]_vars
<1> SUFFICES ASSUME LockInv, Next, [CommitsNothing]_vars, ~ UNCHANGED vars PROVE OldKept
  OBVIOUS
<1>1. gens' = gens => OldKept
  BY DEF OldKept
<1>2. ASSUME NEW t \in Threads, Writes(t), pc[t] \in {"insert", "remove"} PROVE OldKept
  <2>1. gen[t] = current_gen /\ Shape
    BY <1>2, Zenon DEF LockInv, GrowInv
  <2>2. \A i \in 1 .. Len(gens) : gens[i].state = "OLD" => i # current_gen
    BY Zenon DEF LockInv, GrowInv, Owned, FreezeOwned
  <2>3. \A i \in 1 .. Len(gens) : i # gen[t] => gens'[i] = gens[i]
    BY <1>2, <2>1, WritesKeep, Zenon
  <2>q. QED
    BY <2>1, <2>2, <2>3, Zenon DEF OldKept
<1>3. ASSUME NEW x \in States, gens' = StateStored(x) PROVE OldKept
  <2>1. \A i \in 1 .. Len(gens) : StateStored(x)[i].slot = gens[i].slot
    BY StateStoredKeeps, Zenon DEF LockInv, GrowInv
  <2>q. QED
    BY <1>3, <2>1 DEF OldKept
<1>4. ASSUME NEW t \in Threads, Enter(t) \/ Step(t), ~ PathCommit(t) PROVE OldKept
  <2>1. CASE Enter(t)
    BY <1>1, <2>1, MovesOn, Zenon
  <2>2. CASE LockShard(t)
    BY <1>1, <2>2, Zenon DEF LockShard, table
  <2>3. CASE LoadGen(t) \/ Validated(t) \/ Return(t)
    BY <1>1, <2>3, MovesOn, Waits, Zenon
  <2>4. CASE InsertDirect(t) \/ RemoveHit(t)
    <3>1. pc[t] \in {"insert", "remove"}
      BY <2>4, Zenon DEF InsertDirect, RemoveHit
    <3>q. QED
      BY <1>1, <1>2, <2>4, <3>1, Changes, Zenon
  <2>5. CASE Insert(t)
    BY <1>1, <1>4, <2>4, <2>5, MovesOn, Waits, Duplicates, Zenon DEF Insert
  <2>6. CASE Upsert(t)
    BY <1>1, <2>6, MovesOn, Waits, Zenon DEF Upsert
  <2>7. CASE Remove(t)
    BY <1>1, <2>4, <2>7, MovesOn, Zenon DEF Remove
  <2>8. CASE GrowLock(t) \/ GrowOverflows(t) \/ GrowOom(t) \/ Grown(t)
    BY <1>1, <2>8, Zenon DEF GrowLock, GrowOverflows, GrowOom, Grown, table
  <2>9. CASE Freeze(t)
    BY <1>3, <2>9 DEF Freeze, StateStored, States
  <2>10. CASE Unfreeze(t)
    BY <1>3, <2>10 DEF Unfreeze, StateStored, States
  <2>11. CASE Publish(t)
    BY <2>11, PublishKeeps, Zenon DEF LockInv, OldKept
  <2>q. QED
    BY <1>4, <2>1, <2>2, <2>3, <2>5, <2>6, <2>7, <2>8, <2>9, <2>10, <2>11, Zenon DEF Step, Grow
<1>q. QED
  BY <1>4, Zenon DEF Next, Finished, CommitsNothing

\* The revalidation "prevents committing into a frozen generation": without a
\* committed displacement the buckets of an OLD generation never change.
THEOREM OldUntouchedHolds == Spec /\ [][CommitsNothing]_vars => OldUntouched
<1>1. Spec /\ [][CommitsNothing]_vars => [][OldKept]_vars
  BY LockInvHolds, OldKeptNext, PTL DEF Spec
<1>q. QED
  BY <1>1, PTL DEF OldUntouched, OldKept
=============================================================================
