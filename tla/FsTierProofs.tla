------------------------------ MODULE FsTierProofs ------------------------------
(***************************************************************************)
(* Proofs about FsTier, for any processes, store jobs, shards, thresholds  *)
(* and size of the volume.                                                 *)
(***************************************************************************)
EXTENDS FsTier, SumLemmas

-------------------------------------------------------------------------------
\* Space.  The units on the volume are whole numbers, and no directory holds more
\* than all of them.
LEMMA SumOfNat ==
  ASSUME NEW S, IsFiniteSet(S), NEW f \in [S -> Nat]
  PROVE  /\ SumFunction(f) \in Nat
         /\ \A x \in S : f[x] <= SumFunction(f)
<1>1. DOMAIN f = S
  OBVIOUS
<1> QED
  BY <1>1, SumNat DEF SumFunction

\* One directory changes its size.
LEMMA SumOfChange ==
  ASSUME NEW S, IsFiniteSet(S), NEW f \in [S -> Nat], NEW g \in [S -> Nat], NEW x \in S,
         \A y \in S \ {x} : g[y] = f[y]
  PROVE  SumFunction(g) = SumFunction(f) - f[x] + g[x]
<1>1. DOMAIN f = S /\ DOMAIN g = S /\ (\A y \in S : f[y] \in Int) /\ g[x] \in Int
  OBVIOUS
<1> QED
  BY <1>1, SumUpdate DEF SumFunction

\* What the type invariant says of the volume.
SpaceOK == /\ live \in [Shards -> 0..Capacity] /\ tombs \in [Tombs -> 0..Capacity]
           /\ Free >= 0

\* The sums it is made of are whole numbers.
LEMMA SpaceFacts ==
  ASSUME SpaceOK
  PROVE  /\ live \in [Shards -> Nat] /\ tombs \in [Tombs -> Nat]
         /\ SumFunction(live) \in Nat /\ SumFunction(tombs) \in Nat
         /\ Capacity \in Nat /\ Free = Capacity - SumFunction(live) - SumFunction(tombs)
<1>1. live \in [Shards -> Nat] /\ tombs \in [Tombs -> Nat]
  BY ThresholdAssumption DEF SpaceOK
<1> QED
  BY <1>1, SumOfNat, NamesAssumption, ThresholdAssumption DEF Free

\* It is enough that the sizes are whole numbers and fit.
LEMMA SpaceFits ==
  ASSUME NEW f \in [Shards -> Nat], NEW g \in [Tombs -> Nat],
         Capacity - SumFunction(f) - SumFunction(g) >= 0
  PROVE  f \in [Shards -> 0..Capacity] /\ g \in [Tombs -> 0..Capacity]
<1>1. /\ SumFunction(f) \in Nat /\ \A x \in Shards : f[x] <= SumFunction(f)
      /\ SumFunction(g) \in Nat /\ \A x \in Tombs : g[x] <= SumFunction(g)
  BY SumOfNat, NamesAssumption
<1>2. SumFunction(f) <= Capacity /\ SumFunction(g) <= Capacity
  BY <1>1, ThresholdAssumption
<1>3. /\ \A x \in Shards : f[x] \in 0..Capacity
      /\ \A x \in Tombs : g[x] \in 0..Capacity
  BY <1>1, <1>2, ThresholdAssumption
<1> QED
  BY <1>3

\* The steps that touch the volume, directory by directory: a write adds a unit, a
\* rename moves the units of a shard, a deletion takes those of a tombstone.
OnlyChanges(f, S, x, n) == f' \in [S -> Nat] /\ f'[x] = n /\ \A y \in S \ {x} : f'[y] = f[y]

\* A write of one unit fits when there was a unit free.
LEMMA WriteSpace ==
  ASSUME SpaceOK, NEW s \in Shards, Free > 0, OnlyChanges(live, Shards, s, live[s] + 1),
         tombs' = tombs
  PROVE  SpaceOK'
<1>1. SumFunction(live') = SumFunction(live) - live[s] + live'[s]
  BY SpaceFacts, SumOfChange, NamesAssumption DEF OnlyChanges
<1>2. live[s] \in Nat
  BY SpaceFacts
<1>3. Free' >= 0
  BY <1>1, <1>2, SpaceFacts DEF Free, OnlyChanges
<1> QED
  BY <1>3, SpaceFacts, SpaceFits DEF SpaceOK, Free, OnlyChanges

\* A rename to a new name loses no space and makes none.
LEMMA RenameSpace ==
  ASSUME SpaceOK, NEW s \in Shards, NEW t \in Tombs, tombs[t] = 0,
         OnlyChanges(live, Shards, s, 0), OnlyChanges(tombs, Tombs, t, live[s])
  PROVE  SpaceOK'
<1>1. SumFunction(live') = SumFunction(live) - live[s] + live'[s]
  BY SpaceFacts, SumOfChange, NamesAssumption DEF OnlyChanges
<1>2. SumFunction(tombs') = SumFunction(tombs) - tombs[t] + tombs'[t]
  BY SpaceFacts, SumOfChange, NamesAssumption DEF OnlyChanges
<1>3. live[s] \in Nat
  BY SpaceFacts
<1>4. Free' >= 0
  BY <1>1, <1>2, <1>3, SpaceFacts DEF Free, OnlyChanges, SpaceOK
<1> QED
  BY <1>4, SpaceFits DEF SpaceOK, Free, OnlyChanges

\* A deletion frees what the tombstone held.
LEMMA DeleteSpace ==
  ASSUME SpaceOK, NEW t \in Tombs, OnlyChanges(tombs, Tombs, t, 0), live' = live
  PROVE  SpaceOK'
<1>1. SumFunction(tombs') = SumFunction(tombs) - tombs[t] + tombs'[t]
  BY SpaceFacts, SumOfChange, NamesAssumption DEF OnlyChanges
<1>2. tombs[t] \in Nat
  BY SpaceFacts
<1>3. Free' >= 0
  BY <1>1, <1>2, SpaceFacts DEF Free, OnlyChanges, SpaceOK
<1> QED
  BY <1>3, SpaceFacts, SpaceFits DEF SpaceOK, Free, OnlyChanges
-------------------------------------------------------------------------------
\* An eviction pass.  It leaves the disk, the store jobs and the leases alone.
GateInv == /\ ActiveIsOwner /\ DeletesUnderFence /\ FenceIsTight
           /\ RetiredIsFree /\ ItemIsNamed
JobInv == ReservationExact /\ FewStores /\ ReportedAtMostOnce

Items == [shard : Shards \cup {None}, tomb : Tombs \cup {None},
          stage : {"none", "queued", "ok", "failed"}]

\* What any of the seven ends of a pass does to the gate and to the item.
PassType == /\ owner' \in Procs \cup {NoProc} /\ raised' \in BOOLEAN /\ stores' = stores
            /\ active' \in [Procs -> BOOLEAN] /\ orphans' \in [Procs -> SUBSET Tombs]
            /\ retire' \in [Procs -> Items]

\* The items the passes make are items.
LEMMA ItemTypes ==
  /\ Nothing \in Items
  /\ \A s \in Shards : OfShard(s) \in Items
  /\ \A t \in Tombs : OfTomb(t) \in Items
  BY DEF Nothing, OfShard, OfTomb, Items

\* So the owner's bookkeeping keeps its types.
LEMMA GoType ==
  ASSUME TierTypeOK, NEW p \in Procs, NEW item \in Items, NEW rest \in SUBSET Tombs,
         Go(p, item, rest)
  PROVE  /\ active' \in [Procs -> BOOLEAN] /\ orphans' \in [Procs -> SUBSET Tombs]
         /\ retire' \in [Procs -> Items]
  BY DEF TierTypeOK, Go, Items

\* A pass keeps the types, whichever way it ends.
LEMMA PassKeepsType ==
  ASSUME TierTypeOK, NEW p \in Procs, NEW m \in 0..Capacity, EvictionPass(p, m),
         call' \in [Procs -> {"none", "submit_store", "get_finished"}]
  PROVE  TierTypeOK'
<1>1. Collected(p) \in Items /\ Left(p) \in SUBSET Tombs /\ {} \in SUBSET Tombs
  BY ItemTypes DEF TierTypeOK, Collected, Left, Items
<1>2. PassType
  <2>1. CASE PassBy(p) \/ Busy(p)
    BY <2>1 DEF PassBy, Busy, TierTypeOK, PassType, fenceVars, Items
  <2>2. CASE AwaitFence(p, m)
    <3>1. Go(p, Collected(p), Left(p)) /\ owner' = p /\ raised' = raised /\ stores' = stores
      BY <2>2 DEF AwaitFence
    <3> QED
      BY <3>1, <1>1, GoType DEF PassType, TierTypeOK
  <2>3. CASE RetireOrphan(p, m)
    <3>1. PICK t \in Left(p) : Go(p, OfTomb(t), Left(p) \ {t})
      BY <2>3 DEF RetireOrphan
    <3>2. OfTomb(t) \in Items /\ Left(p) \ {t} \in SUBSET Tombs
      BY <1>1, <3>1, ItemTypes
    <3>3. owner' = p /\ raised' = TRUE /\ stores' = stores
      BY <2>3 DEF RetireOrphan, Fence
    <3> QED
      BY <3>1, <3>2, <3>3, GoType DEF PassType
  <2>4. CASE TargetReached(p, m)
    BY <2>4, <1>1 DEF TargetReached, PassType, TierTypeOK, Items
  <2>5. CASE RetireShard(p, m)
    <3>1. PICK s \in Idle(p) : Go(p, OfShard(s), {})
      BY <2>5 DEF RetireShard
    <3>2. OfShard(s) \in Items
      BY <3>1, ItemTypes DEF Idle, Known, TierTypeOK
    <3>3. owner' = p /\ raised' = TRUE /\ stores' = stores
      BY <2>5 DEF RetireShard, Fence
    <3> QED
      BY <3>1, <3>2, <3>3, <1>1, GoType DEF PassType
  <2>6. CASE NothingIdle(p, m)
    <3>1. Go(p, Collected(p), {}) /\ owner' = p /\ raised' = TRUE /\ stores' = stores
      BY <2>6 DEF NothingIdle, Fence
    <3> QED
      BY <3>1, <1>1, GoType DEF PassType
  <2> QED
    BY <2>1, <2>2, <2>3, <2>4, <2>5, <2>6 DEF EvictionPass
<1>3. /\ UNCHANGED <<live, tombs, job, reports, reserved, held>>
      /\ avail' = [avail EXCEPT ![p] = m] /\ checked' = [checked EXCEPT ![p] = TRUE]
      /\ tracked' = [tracked EXCEPT ![p] = Known(p)]
  BY DEF EvictionPass, disk, jobVars
<1>4. Known(p) \in SUBSET Shards
  BY DEF TierTypeOK, Known
<1> QED
  BY <1>2, <1>3, <1>4 DEF TierTypeOK, PassType, Items, Free

\* Only the owner has an item, so a pass that makes one finds no other, and the
\* shard it retires is one nobody leases.
LEMMA PassKeepsGate ==
  ASSUME TierTypeOK, GateInv, NEW p \in Procs, NEW m \in 0..Capacity, EvictionPass(p, m)
  PROVE  GateInv'
<1> USE DEF GateInv, ActiveIsOwner, DeletesUnderFence, FenceIsTight, RetiredIsFree, ItemIsNamed
<1>1. held' = held /\ NoProc \notin Procs /\ p # NoProc
  BY NamesAssumption DEF EvictionPass
<1>2. retire[p].stage \in {"none", "queued", "ok", "failed"} /\ held \in [Procs -> SUBSET Shards]
  BY DEF TierTypeOK
<1>3. ~Outstanding(p) => Collected(p) = Nothing
  BY <1>2 DEF Outstanding, Collected, Finished
<1>4. \A q \in Procs : Nothing.shard \notin held[q] /\ OfTomb(None).shard \notin held[q]
  BY <1>2, NamesAssumption DEF Nothing, OfTomb
<1>5. CASE PassBy(p) \/ Busy(p)
  BY <1>1, <1>5 DEF PassBy, Busy, fenceVars, Outstanding
<1>6. ASSUME Owner(p, m), NEW item, NEW rest, Go(p, item, rest), owner' = p,
             \/ item = Nothing /\ raised' = raised /\ stores' = stores
             \/ Fence(p) /\ (item.stage = "none" => item = Nothing)
                         /\ (item.stage = "queued" /\ item.tomb = None => item.shard # None)
                         /\ \A q \in Procs : item.shard \notin held[q]
      PROVE  GateInv'
  <2>1. \A q \in Procs \ {p} : retire[q].stage = "none" /\ ~active[q]
    BY <1>1, <1>6 DEF Owner, TierTypeOK
  <2>2. /\ active' = [active EXCEPT ![p] = TRUE] /\ retire' = [retire EXCEPT ![p] = item]
        /\ active \in [Procs -> BOOLEAN] /\ DOMAIN retire = Procs
    BY <1>6 DEF Go, TierTypeOK
  <2>3. ActiveIsOwner' /\ FenceIsTight'
    BY <1>1, <1>6, <2>1, <2>2 DEF Fence
  <2>4. DeletesUnderFence'
    BY <1>6, <2>1, <2>2 DEF Fence, Nothing
  <2>5. RetiredIsFree' /\ ItemIsNamed'
    BY <1>1, <1>4, <1>6, <2>1, <2>2 DEF Outstanding, Nothing
  <2> QED
    BY <2>3, <2>4, <2>5
<1>7. CASE AwaitFence(p, m)
  BY <1>3, <1>6, <1>7 DEF AwaitFence, Owner
<1>8. CASE RetireOrphan(p, m)
  <2>1. PICK t \in Left(p) : Go(p, OfTomb(t), Left(p) \ {t})
    BY <1>8 DEF RetireOrphan
  <2>2. t # None
    BY NamesAssumption DEF Left, Tombstones
  <2>3. /\ OfTomb(t).stage = "queued" /\ OfTomb(t).tomb # None
        /\ \A q \in Procs : OfTomb(t).shard \notin held[q]
    BY <1>4, <2>2 DEF OfTomb
  <2>4. Owner(p, m) /\ Fence(p) /\ owner' = p
    BY <1>8 DEF RetireOrphan, Fence
  <2> QED
    BY <1>6, <2>1, <2>3, <2>4
<1>9. CASE TargetReached(p, m)
  <2>1. \A q \in Procs \ {p} : retire[q].stage = "none" /\ ~active[q]
    BY <1>1, <1>9 DEF TargetReached, Owner, TierTypeOK
  <2>2. /\ active' = [active EXCEPT ![p] = FALSE] /\ retire' = [retire EXCEPT ![p] = Nothing]
        /\ owner' = NoProc /\ raised' = FALSE
        /\ active \in [Procs -> BOOLEAN] /\ DOMAIN retire = Procs
    BY <1>3, <1>9 DEF TargetReached, Owner, TierTypeOK
  <2> QED
    BY <1>1, <1>4, <2>1, <2>2 DEF Nothing, Outstanding
<1>10. CASE RetireShard(p, m)
  <2>1. PICK s \in Idle(p) : Go(p, OfShard(s), {})
    BY <1>10 DEF RetireShard
  <2>2. s \in Shards /\ s # None /\ \A q \in Procs : s \notin held[q]
    BY <2>1, NamesAssumption DEF Idle, Known, LeasedBy, TierTypeOK
  <2>3. OfShard(s).stage = "queued" /\ OfShard(s).shard = s
    BY DEF OfShard
  <2>4. Owner(p, m) /\ Fence(p) /\ owner' = p
    BY <1>10 DEF RetireShard, Fence
  <2> QED
    BY <1>6, <2>1, <2>2, <2>3, <2>4
<1>11. CASE NothingIdle(p, m)
  <2>1. Owner(p, m) /\ Fence(p) /\ owner' = p /\ Go(p, Nothing, {})
    BY <1>3, <1>11 DEF NothingIdle, Fence, Owner
  <2>2. Nothing.stage = "none"
    BY DEF Nothing
  <2> QED
    BY <1>4, <1>6, <2>1, <2>2
<1> QED
  BY <1>5, <1>7, <1>8, <1>9, <1>10, <1>11 DEF EvictionPass

\* A pass leaves the jobs to the calls that follow it.
LEMMA PassKeepsJobs ==
  ASSUME JobInv, NEW p \in Procs, NEW m \in 0..Capacity, EvictionPass(p, m)
  PROVE  JobInv'
<1>1. stores' = stores /\ job' = job /\ reports' = reports /\ reserved' = reserved
  BY DEF EvictionPass, jobVars, PassBy, Busy, AwaitFence, RetireOrphan, TargetReached,
         RetireShard, NothingIdle, Fence, fenceVars
<1> QED
  BY <1>1 DEF JobInv, ReservationExact, FewStores, ReportedAtMostOnce, JobsOf

-------------------------------------------------------------------------------
\* The rest of the calls, the pool's steps and the worker's keep the types.
CallTypes == {"none", "submit_store", "get_finished"}

\* submit_store keeps the types, whether it admits, bypasses or rejects.
LEMMA StoreKeepsType ==
  ASSUME TierTypeOK, NEW p \in Procs, NEW j \in JobsOf(p), NEW m \in 0..Capacity,
         AdmitStore(p, j, m) \/ BypassStore(p, j) \/ RejectStore(p, j, m)
  PROVE  TierTypeOK'
<1>1. j \in Jobs
  BY DEF JobsOf
<1>2. /\ UNCHANGED <<live, tombs, reports, checked, active, orphans, tracked, held, retire>>
      /\ owner' = owner /\ raised' = raised
      /\ call' = [call EXCEPT ![p] = "none"]
  BY DEF AdmitStore, BypassStore, RejectStore, SubmitStore, Return, disk, evict, Admit,
         fenceVars
<1>3. /\ stores' \in [Procs -> SUBSET Jobs] /\ job' \in [Jobs -> JobStates]
      /\ reserved' \in [Procs -> Nat]
  <2>1. /\ stores \in [Procs -> SUBSET Jobs] /\ job \in [Jobs -> JobStates]
        /\ reserved \in [Procs -> Nat] /\ reserved[p] + 1 \in Nat
    BY DEF TierTypeOK
  <2>2. CASE AdmitStore(p, j, m)
    <3>1. /\ stores' = [stores EXCEPT ![p] = @ \cup {j}]
          /\ job' = [job EXCEPT ![j] = "writing"]
          /\ reserved' = [reserved EXCEPT ![p] = @ + 1]
      BY <2>2 DEF AdmitStore, Admit
    <3>2. stores[p] \cup {j} \in SUBSET Jobs
      BY <1>1, <2>1
    <3> QED
      BY <2>1, <3>1, <3>2 DEF JobStates
  <2>3. CASE BypassStore(p, j) \/ RejectStore(p, j, m)
    <3>1. /\ stores' = stores /\ reserved' = reserved
          /\ job' = [job EXCEPT ![j] = "rejected"]
      BY <2>3 DEF BypassStore, RejectStore, fenceVars
    <3> QED
      BY <2>1, <3>1 DEF JobStates
  <2> QED
    BY <2>2, <2>3
<1>4. avail' \in [Procs -> 0..Capacity]
  BY DEF AdmitStore, BypassStore, RejectStore, CheckSpace, TierTypeOK
<1> QED
  BY <1>2, <1>3, <1>4 DEF TierTypeOK, Free

\* A write keeps the types, and takes a unit that was free.
LEMMA WriteKeepsType ==
  ASSUME TierTypeOK, NEW j \in Jobs, Write(j) \/ WriteFails(j)
  PROVE  TierTypeOK'
<1>1. /\ UNCHANGED <<owner, raised, stores, reports, reserved, avail, checked, active,
                     orphans, tracked, held, retire, call>>
      /\ job' \in [Jobs -> JobStates]
  BY DEF Write, WriteFails, TierTypeOK, JobStates, fenceVars, space, evict
<1>2. SpaceOK'
  <2>1. SpaceOK
    BY DEF TierTypeOK, SpaceOK
  <2>2. CASE Write(j)
    <3>1. ShardOf[j] \in Shards
      BY NamesAssumption
    <3>2. live \in [Shards -> Nat]
      BY <2>1, SpaceFacts
    <3>3. OnlyChanges(live, Shards, ShardOf[j], live[ShardOf[j]] + 1)
      BY <2>2, <3>1, <3>2 DEF Write, OnlyChanges
    <3> QED
      BY <2>1, <2>2, <3>1, <3>3, WriteSpace DEF Write
  <2>3. CASE WriteFails(j)
    BY <2>1, <2>3 DEF WriteFails, disk, SpaceOK, Free
  <2> QED
    BY <2>2, <2>3
<1> QED
  BY <1>1, <1>2 DEF TierTypeOK, SpaceOK

\* The worker keeps the types: a rename and a deletion keep the space accounted for.
LEMMA WorkerKeepsType ==
  ASSUME TierTypeOK, ItemIsNamed, NEW p \in Procs, Worker(p)
  PROVE  TierTypeOK'
<1>1. /\ UNCHANGED <<owner, raised, stores, job, reports, reserved, avail, checked, active,
                     orphans, tracked, held, call>>
  BY DEF Worker, RenameShard, DeleteTree, DeleteFails, fenceVars, jobVars, space
<1>2. SpaceOK
  BY DEF TierTypeOK, SpaceOK
<1>3. retire[p] \in Items
  BY DEF TierTypeOK, Items
<1>4. CASE RenameShard(p)
  <2> DEFINE s == retire[p].shard
  <2>1. s \in Shards
    BY <1>3, <1>4 DEF RenameShard, ItemIsNamed, Items
  <2>2. CASE live[s] = 0
    <3>1. retire' = [retire EXCEPT ![p].stage = "ok"] /\ live' = live /\ tombs' = tombs
      BY <1>4, <2>2 DEF RenameShard, disk
    <3>2. retire' \in [Procs -> Items]
      BY <3>1 DEF TierTypeOK, Items
    <3> QED
      BY <1>1, <3>1, <3>2 DEF TierTypeOK, Free, Items
  <2>3. CASE live[s] # 0
    <3>1. PICK t \in Unused : /\ tombs' = [tombs EXCEPT ![t] = live[s]]
                              /\ live' = [live EXCEPT ![s] = 0]
                              /\ retire' = [retire EXCEPT ![p].tomb = t]
      BY <1>4, <2>3 DEF RenameShard
    <3>2. t \in Tombs /\ tombs[t] = 0
      BY DEF Unused
    <3>3. live \in [Shards -> Nat] /\ tombs \in [Tombs -> Nat]
      BY <1>2, SpaceFacts
    <3>4. OnlyChanges(live, Shards, s, 0) /\ OnlyChanges(tombs, Tombs, t, live[s])
      BY <2>1, <3>1, <3>2, <3>3 DEF OnlyChanges
    <3>5. SpaceOK'
      <4> HIDE DEF s
      <4> QED BY <1>2, <2>1, <3>2, <3>4, RenameSpace
    <3>6. retire' \in [Procs -> Items]
      BY <3>1, <3>2 DEF TierTypeOK, Items
    <3> QED
      BY <1>1, <3>5, <3>6 DEF TierTypeOK, SpaceOK, Items
  <2> QED
    BY <2>2, <2>3
<1>5. CASE DeleteTree(p)
  <2> DEFINE t == retire[p].tomb
  <2>1. t \in Tombs
    BY <1>3, <1>5 DEF DeleteTree, Items
  <2>2. OnlyChanges(tombs, Tombs, t, 0)
    BY <1>2, <1>5, <2>1, SpaceFacts DEF DeleteTree, OnlyChanges
  <2>3. SpaceOK'
    <3>1. live' = live
      BY <1>5 DEF DeleteTree
    <3> HIDE DEF t
    <3> QED BY <1>2, <2>1, <2>2, <3>1, DeleteSpace
  <2>4. retire' \in [Procs -> Items]
    <3>1. retire' = [retire EXCEPT ![p].stage = "ok"]
      BY <1>5 DEF DeleteTree
    <3> QED
      BY <3>1 DEF TierTypeOK, Items
  <2> QED
    BY <1>1, <2>3, <2>4 DEF TierTypeOK, SpaceOK, Items
<1>6. CASE DeleteFails(p)
  <2>1. retire' = [retire EXCEPT ![p].stage = "failed"] /\ live' = live /\ tombs' = tombs
    BY <1>6 DEF DeleteFails, disk
  <2>2. retire' \in [Procs -> Items]
    BY <2>1 DEF TierTypeOK, Items
  <2> QED
    BY <1>1, <2>1, <2>2 DEF TierTypeOK, Free, Items
<1> QED
  BY <1>4, <1>5, <1>6 DEF Worker

\* A hit, a release and a restart keep the types.
LEMMA RestKeepsType ==
  ASSUME TierTypeOK, NEW p \in Procs,
         \/ \E s \in Shards : Hit(p, s) \/ Unlease(p, s)
         \/ Restart(p)
  PROVE  TierTypeOK'
<1>1. CASE \E s \in Shards : Hit(p, s) \/ Unlease(p, s)
  BY <1>1, SMTT(30) DEF Hit, Unlease, TierTypeOK, fenceVars, disk, jobVars, space, Free
<1>2. CASE Restart(p)
  <2>1. /\ owner' \in Procs \cup {NoProc} /\ raised' \in BOOLEAN
        /\ stores' \in [Procs -> SUBSET Jobs]
    BY <1>2 DEF Restart, Leave, TierTypeOK
  <2>2. 0 \in 0..Capacity
    BY ThresholdAssumption
  <2>3. job' \in [Jobs -> JobStates] /\ reports' = reports /\ UNCHANGED disk
    BY <1>2 DEF Restart, TierTypeOK, JobStates
  <2>4. /\ reserved' \in [Procs -> Nat] /\ avail' \in [Procs -> 0..Capacity]
        /\ checked' \in [Procs -> BOOLEAN] /\ active' \in [Procs -> BOOLEAN]
        /\ held' \in [Procs -> SUBSET Shards] /\ call' \in [Procs -> CallTypes]
    BY <1>2, <2>2 DEF Restart, TierTypeOK, CallTypes
  <2>5. /\ orphans' \in [Procs -> SUBSET Tombs] /\ tracked' \in [Procs -> SUBSET Shards]
    BY <1>2 DEF Restart, TierTypeOK, Tombstones, Existing
  <2>6. retire' \in [Procs -> Items]
    BY <1>2, ItemTypes DEF Restart, TierTypeOK, Items
  <2> QED
    BY <2>1, <2>3, <2>4, <2>5, <2>6 DEF TierTypeOK, disk, Free, Items, CallTypes
<1> QED
  BY <1>1, <1>2

-------------------------------------------------------------------------------
\* The jobs of a process that are admitted and not collected.
InFlight(p) == {j \in JobsOf(p) : job[j] \in {"writing", "written", "unwritten"}}

\* The reservation's invariant, by that name.
LEMMA InFlightIs ==
  ReservationExact <=> \A p \in Procs : /\ reserved[p] = Cardinality(InFlight(p))
                                        /\ stores[p] = InFlight(p)
  BY DEF ReservationExact, InFlight

\* get_finished_jobs gives back the leases and the reservation of the jobs that are
\* done, which are in flight, and reports no job twice.
LEMMA GetFinishedKeeps ==
  ASSUME TierTypeOK, JobInv, NEW p \in Procs, GetFinished(p)
  PROVE  TierTypeOK' /\ JobInv'
<1>1. /\ job' = [j \in Jobs |-> IF j \in Over(p) THEN "over" ELSE job[j]]
      /\ reports' = [j \in Jobs |-> IF j \in Over(p) THEN reports[j] + 1 ELSE reports[j]]
      /\ reserved' = [reserved EXCEPT ![p] = @ - Cardinality(Done(p))]
      /\ stores' = [stores EXCEPT ![p] = @ \ Done(p)]
      /\ tracked' = [tracked EXCEPT ![p] =
           @ \cup {ShardOf[j] : j \in {i \in Done(p) : job[i] = "written"}}]
      /\ call' = [call EXCEPT ![p] = "none"]
      /\ UNCHANGED <<owner, raised, live, tombs, avail, checked, active, orphans, held, retire>>
  BY DEF GetFinished, Return, disk, space
<1>2. /\ stores \in [Procs -> SUBSET Jobs] /\ job \in [Jobs -> JobStates]
      /\ reports \in [Jobs -> Nat] /\ reserved \in [Procs -> Nat]
      /\ tracked \in [Procs -> SUBSET Shards] /\ call \in [Procs -> CallTypes]
  BY DEF TierTypeOK, CallTypes
<1>3. /\ Done(p) \subseteq InFlight(p) /\ Over(p) \subseteq JobsOf(p) /\ Done(p) \subseteq Jobs
      /\ \A j \in Over(p) : job[j] # "over"
  BY DEF Done, Over, InFlight, JobsOf
<1>4. /\ reserved[p] = Cardinality(InFlight(p)) /\ stores[p] = InFlight(p)
      /\ IsFiniteSet(InFlight(p))
  BY InFlightIs DEF JobInv, FewStores
<1>5. /\ IsFiniteSet(Done(p)) /\ IsFiniteSet(InFlight(p) \ Done(p))
      /\ Cardinality(InFlight(p) \ Done(p)) = Cardinality(InFlight(p)) - Cardinality(Done(p))
      /\ Cardinality(InFlight(p) \ Done(p)) \in Nat /\ Cardinality(Done(p)) \in Nat
  <2>1. InFlight(p) \cap Done(p) = Done(p)
    BY <1>3
  <2>2. IsFiniteSet(Done(p))
    BY <1>3, <1>4, FS_Subset
  <2>3. /\ IsFiniteSet(InFlight(p) \ Done(p))
        /\ Cardinality(InFlight(p) \ Done(p))
             = Cardinality(InFlight(p)) - Cardinality(InFlight(p) \cap Done(p))
    BY <1>4, FS_Difference
  <2>4. Cardinality(InFlight(p) \ Done(p)) \in Nat /\ Cardinality(Done(p)) \in Nat
    BY <2>2, <2>3, FS_CardinalityType
  <2> QED
    BY <2>1, <2>2, <2>3, <2>4
<1>6. InFlight(p)' = InFlight(p) \ Done(p)
  BY <1>1, <1>3 DEF InFlight, Done, Over, JobsOf
<1>7. ASSUME NEW q \in Procs, q # p PROVE InFlight(q)' = InFlight(q)
  BY <1>1, <1>3, <1>7 DEF InFlight, JobsOf
<1>8. ReservationExact' /\ FewStores'
  <2>1. ASSUME NEW q \in Procs
        PROVE  /\ reserved'[q] = Cardinality(InFlight(q)') /\ stores'[q] = InFlight(q)'
               /\ IsFiniteSet(stores'[q])
    <3>1. CASE q = p
      BY <1>1, <1>2, <1>4, <1>5, <1>6, <3>1
    <3>2. CASE q # p
      BY <1>1, <1>2, <1>7, <3>2, InFlightIs DEF JobInv, FewStores
    <3> QED
      BY <3>1, <3>2
  <2> QED
    BY <2>1 DEF ReservationExact, InFlight, FewStores
<1>9. ReportedAtMostOnce'
  BY <1>1, <1>2, <1>3 DEF JobInv, ReportedAtMostOnce, JobsOf
<1>10. TierTypeOK'
  <2>1. reserved' \in [Procs -> Nat]
    BY <1>1, <1>2, <1>4, <1>5
  <2>2. tracked' \in [Procs -> SUBSET Shards]
    <3>1. {ShardOf[j] : j \in {i \in Done(p) : job[i] = "written"}} \in SUBSET Shards
      BY <1>3, NamesAssumption
    <3> QED
      BY <1>1, <1>2, <3>1
  <2>3. job' \in [Jobs -> JobStates] /\ reports' \in [Jobs -> Nat]
    BY <1>1, <1>2 DEF JobStates
  <2>4. stores' \in [Procs -> SUBSET Jobs] /\ call' \in [Procs -> CallTypes]
    BY <1>1, <1>2 DEF CallTypes
  <2> QED
    BY <1>1, <2>1, <2>2, <2>3, <2>4 DEF TierTypeOK, CallTypes, Free
<1> QED
  BY <1>8, <1>9, <1>10 DEF JobInv

\* submit_store reserves and leases for the job it admits, and for no other.
LEMMA StoreKeepsJobs ==
  ASSUME TierTypeOK, JobInv, NEW p \in Procs, NEW j \in JobsOf(p), NEW m \in 0..Capacity,
         AdmitStore(p, j, m) \/ BypassStore(p, j) \/ RejectStore(p, j, m)
  PROVE  JobInv'
<1>1. /\ stores \in [Procs -> SUBSET Jobs] /\ job \in [Jobs -> JobStates]
      /\ reserved \in [Procs -> Nat]
      /\ j \in Jobs /\ ProcOf[j] = p /\ job[j] = "new" /\ reports' = reports
  BY DEF TierTypeOK, JobsOf, AdmitStore, BypassStore, RejectStore, SubmitStore
<1>2. \A q \in Procs : /\ reserved[q] = Cardinality(InFlight(q)) /\ stores[q] = InFlight(q)
                       /\ IsFiniteSet(InFlight(q))
  BY InFlightIs DEF JobInv, FewStores
<1>3. CASE AdmitStore(p, j, m)
  <2>1. /\ stores' = [stores EXCEPT ![p] = @ \cup {j}]
        /\ job' = [job EXCEPT ![j] = "writing"]
        /\ reserved' = [reserved EXCEPT ![p] = @ + 1]
    BY <1>3 DEF AdmitStore, Admit
  <2>2. InFlight(p)' = InFlight(p) \cup {j} /\ j \notin InFlight(p)
    BY <1>1, <2>1 DEF InFlight, JobsOf
  <2>3. \A q \in Procs \ {p} : InFlight(q)' = InFlight(q)
    BY <1>1, <2>1 DEF InFlight, JobsOf
  <2>4. /\ IsFiniteSet(InFlight(p) \cup {j})
        /\ Cardinality(InFlight(p) \cup {j}) = Cardinality(InFlight(p)) + 1
    BY <1>2, <2>2, FS_AddElement
  <2>5. ASSUME NEW q \in Procs
        PROVE  /\ reserved'[q] = Cardinality(InFlight(q)') /\ stores'[q] = InFlight(q)'
               /\ IsFiniteSet(stores'[q])
    <3>1. CASE q = p
      BY <1>1, <1>2, <2>1, <2>2, <2>4, <3>1
    <3>2. CASE q # p
      BY <1>1, <1>2, <2>1, <2>3, <3>2
    <3> QED
      BY <3>1, <3>2
  <2>6. ReportedAtMostOnce'
    BY <1>1, <2>1 DEF JobInv, ReportedAtMostOnce
  <2> QED
    BY <2>5, <2>6 DEF JobInv, ReservationExact, InFlight, FewStores
<1>4. CASE BypassStore(p, j) \/ RejectStore(p, j, m)
  <2>1. /\ stores' = stores /\ reserved' = reserved
        /\ job' = [job EXCEPT ![j] = "rejected"]
    BY <1>4 DEF BypassStore, RejectStore, fenceVars
  <2>2. \A q \in Procs : InFlight(q)' = InFlight(q)
    BY <1>1, <2>1 DEF InFlight, JobsOf
  <2>3. ReportedAtMostOnce'
    BY <1>1, <2>1 DEF JobInv, ReportedAtMostOnce
  <2> QED
    BY <1>2, <2>1, <2>2, <2>3 DEF JobInv, ReservationExact, InFlight, FewStores
<1> QED
  BY <1>3, <1>4

\* The pool moves a job from one state in flight to another.
LEMMA WriteKeepsJobs ==
  ASSUME TierTypeOK, JobInv, NEW j \in Jobs, Write(j) \/ WriteFails(j)
  PROVE  JobInv'
<1>1. /\ stores' = stores /\ reserved' = reserved /\ reports' = reports
      /\ job[j] = "writing" /\ job \in [Jobs -> JobStates]
      /\ \/ job' = [job EXCEPT ![j] = "written"]
         \/ job' = [job EXCEPT ![j] = "unwritten"]
  BY DEF Write, WriteFails, fenceVars, TierTypeOK
<1>2. \A q \in Procs : InFlight(q)' = InFlight(q)
  BY <1>1 DEF InFlight, JobsOf
<1>3. ReportedAtMostOnce'
  BY <1>1 DEF JobInv, ReportedAtMostOnce
<1> QED
  BY <1>1, <1>2, <1>3, InFlightIs DEF JobInv, ReservationExact, InFlight, FewStores

\* The process that dies takes its leases and its reservation along, and its jobs
\* are never reported.
LEMMA RestartKeepsJobs ==
  ASSUME TierTypeOK, JobInv, NEW p \in Procs, Restart(p)
  PROVE  JobInv'
<1>1. /\ stores' = [stores EXCEPT ![p] = {}] /\ reports' = reports
      /\ job' = [j \in Jobs |-> IF ProcOf[j] = p /\ job[j] # "new" THEN "over" ELSE job[j]]
      /\ reserved' = [reserved EXCEPT ![p] = 0]
      /\ DOMAIN stores = Procs /\ DOMAIN reserved = Procs
  BY DEF Restart, Leave, TierTypeOK
<1>2. InFlight(p)' = {} /\ \A q \in Procs \ {p} : InFlight(q)' = InFlight(q)
  BY <1>1 DEF InFlight, JobsOf
<1>3. IsFiniteSet({}) /\ Cardinality({}) = 0
  BY FS_EmptySet
<1>4. ReportedAtMostOnce'
  BY <1>1 DEF JobInv, ReportedAtMostOnce
<1>5. ASSUME NEW q \in Procs
      PROVE  /\ reserved'[q] = Cardinality(InFlight(q)') /\ stores'[q] = InFlight(q)'
             /\ IsFiniteSet(stores'[q])
  <2>1. CASE q = p
    BY <1>1, <1>2, <1>3, <2>1
  <2>2. CASE q # p
    BY <1>1, <1>2, <2>2, InFlightIs DEF JobInv, FewStores
  <2> QED
    BY <2>1, <2>2
<1> QED
  BY <1>4, <1>5 DEF JobInv, ReservationExact, InFlight, FewStores

-------------------------------------------------------------------------------
\* The steps that neither elect an owner nor raise the fence.
GateParts == <<owner, raised, active, retire>>

\* A store is admitted while there is no owner, hence no fence; otherwise the stores
\* only shrink, and the leases grow by no shard that is being retired.
LEMMA CallsKeepGate ==
  ASSUME GateInv, UNCHANGED GateParts,
         \/ stores' = stores
         \/ owner = NoProc
         \/ \A q \in Procs : stores'[q] \subseteq stores[q],
         \A q, r \in Procs : retire[r].shard \notin held'[q]
  PROVE  GateInv'
  BY DEF GateInv, GateParts, ActiveIsOwner, DeletesUnderFence, FenceIsTight, RetiredIsFree,
         ItemIsNamed, Outstanding, Nothing

\* submit_store changes no owner and no item.
LEMMA StoreKeepsGate ==
  ASSUME GateInv, NEW p \in Procs, NEW j \in JobsOf(p), NEW m \in 0..Capacity,
         AdmitStore(p, j, m) \/ BypassStore(p, j) \/ RejectStore(p, j, m)
  PROVE  GateInv'
<1>1. UNCHANGED GateParts /\ held' = held
  BY DEF GateParts, AdmitStore, BypassStore, RejectStore, SubmitStore, Admit, evict, fenceVars
<1>2. stores' = stores \/ owner = NoProc
  BY DEF AdmitStore, BypassStore, RejectStore, Admit, fenceVars
<1> QED
  BY <1>1, <1>2, CallsKeepGate DEF GateInv, RetiredIsFree

\* Jobs that are collected leave the gate.
LEMMA GetFinishedKeepsGate ==
  ASSUME TierTypeOK, GateInv, NEW p \in Procs, GetFinished(p)
  PROVE  GateInv'
<1>1. UNCHANGED GateParts /\ held' = held
  BY DEF GateParts, GetFinished
<1>2. \A q \in Procs : stores'[q] \subseteq stores[q]
  BY DEF GetFinished, TierTypeOK
<1> QED
  BY <1>1, <1>2, CallsKeepGate DEF GateInv, RetiredIsFree

\* The pool does not touch the gate.
LEMMA WriteKeepsGate ==
  ASSUME GateInv, NEW j \in Jobs, Write(j) \/ WriteFails(j)
  PROVE  GateInv'
<1>1. UNCHANGED GateParts /\ held' = held /\ stores' = stores
  BY DEF GateParts, Write, WriteFails, evict, fenceVars
<1> QED
  BY <1>1, CallsKeepGate DEF GateInv, RetiredIsFree

\* A request leases no shard that is being retired.
LEMMA LeasesKeepGate ==
  ASSUME TierTypeOK, GateInv, NEW p \in Procs, NEW s \in Shards, Hit(p, s) \/ Unlease(p, s)
  PROVE  GateInv'
<1>1. UNCHANGED GateParts /\ stores' = stores
  BY DEF GateParts, Hit, Unlease, fenceVars
<1>2. \A q, r \in Procs : retire[r].shard \notin held'[q]
  <2>1. /\ \A q, r \in Procs : retire[r].shard \notin held[q]
        /\ DOMAIN held = Procs
    BY DEF TierTypeOK, GateInv, RetiredIsFree
  <2>2. CASE Hit(p, s)
    <3>1. /\ held' = [held EXCEPT ![p] = @ \cup {s}]
          /\ \A r \in Procs : retire[r].shard # s
      BY <2>2 DEF Hit
    <3> QED
      BY <2>1, <3>1
  <2>3. CASE Unlease(p, s)
    <3>1. held' = [held EXCEPT ![p] = @ \ {s}]
      BY <2>3 DEF Unlease
    <3> QED
      BY <2>1, <3>1
  <2> QED
    BY <2>2, <2>3
<1> QED
  BY <1>1, <1>2, CallsKeepGate

\* The worker goes on with the shard it has, and names the tombstone it made.
LEMMA WorkerKeepsGate ==
  ASSUME TierTypeOK, GateInv, NEW p \in Procs, Worker(p)
  PROVE  GateInv'
<1>1. /\ UNCHANGED <<owner, raised, stores, active, held>>
      /\ Outstanding(p)
  BY DEF Worker, RenameShard, DeleteTree, DeleteFails, fenceVars
<1>2. retire \in [Procs -> Items]
  BY DEF TierTypeOK, Items
<1>3. PICK st \in {"queued", "ok", "failed"}, t \in Tombs \cup {None} :
        /\ retire' = [retire EXCEPT ![p] =
                        [shard |-> retire[p].shard, tomb |-> t, stage |-> st]]
        /\ st = "queued" => t # None
  <2>1. CASE \E t \in Unused : retire' = [retire EXCEPT ![p].tomb = t]
    <3>1. PICK t \in Unused : retire' = [retire EXCEPT ![p].tomb = t]
      BY <2>1
    <3>2. t \in Tombs /\ t # None
      BY NamesAssumption DEF Unused
    <3>3. [retire[p] EXCEPT !.tomb = t]
            = [shard |-> retire[p].shard, tomb |-> t, stage |-> "queued"]
      BY <1>1, <1>2 DEF Items, Outstanding
    <3> QED
      BY <3>1, <3>2, <3>3
  <2>2. ASSUME NEW st \in {"ok", "failed"}, retire' = [retire EXCEPT ![p].stage = st]
        PROVE  retire' = [retire EXCEPT ![p] =
                 [shard |-> retire[p].shard, tomb |-> retire[p].tomb, stage |-> st]]
    <3>1. [retire[p] EXCEPT !.stage = st]
            = [shard |-> retire[p].shard, tomb |-> retire[p].tomb, stage |-> st]
      BY <1>2 DEF Items
    <3> QED
      BY <2>2, <3>1
  <2>3. retire[p].tomb \in Tombs \cup {None}
    BY <1>2 DEF Items
  <2> QED
    BY <2>1, <2>2, <2>3 DEF Worker, RenameShard, DeleteTree, DeleteFails
<1> DEFINE item == [shard |-> retire[p].shard, tomb |-> t, stage |-> st]
<1>4. /\ item.shard = retire[p].shard /\ item.tomb = t /\ item.stage = st
      /\ retire'[p] = item /\ \A q \in Procs \ {p} : retire'[q] = retire[q]
  BY <1>2, <1>3
<1>5. retire[p].stage # "none"
  BY <1>1 DEF Outstanding
<1> HIDE DEF item
<1>6. ActiveIsOwner' /\ FenceIsTight' /\ RetiredIsFree'
  BY <1>1, <1>4 DEF GateInv, ActiveIsOwner, FenceIsTight, RetiredIsFree
<1>7. DeletesUnderFence'
  BY <1>1, <1>4, <1>5 DEF GateInv, DeletesUnderFence
<1>8. ItemIsNamed'
  BY <1>3, <1>4 DEF GateInv, ItemIsNamed, Outstanding, Nothing
<1> QED
  BY <1>6, <1>7, <1>8 DEF GateInv

\* A process that dies resigns, and its worker with it.
LEMMA RestartKeepsGate ==
  ASSUME TierTypeOK, GateInv, NEW p \in Procs, Restart(p)
  PROVE  GateInv'
<1>1. /\ stores' = [stores EXCEPT ![p] = {}] /\ active' = [active EXCEPT ![p] = FALSE]
      /\ held' = [held EXCEPT ![p] = {}] /\ retire' = [retire EXCEPT ![p] = Nothing]
      /\ IF owner = p THEN owner' = NoProc /\ raised' = FALSE
                      ELSE owner' = owner /\ raised' = raised
  BY DEF Restart, Leave
<1>2. /\ DOMAIN stores = Procs /\ DOMAIN active = Procs /\ DOMAIN retire = Procs
      /\ held \in [Procs -> SUBSET Shards] /\ NoProc \notin Procs
      /\ active \in [Procs -> BOOLEAN] /\ None \notin Shards
  BY NamesAssumption DEF TierTypeOK
<1>3. Nothing.stage = "none" /\ Nothing.shard = None
  BY DEF Nothing
<1>4. ActiveIsOwner' /\ DeletesUnderFence'
  BY <1>1, <1>2, <1>3 DEF GateInv, ActiveIsOwner, DeletesUnderFence
<1>5. FenceIsTight'
  BY <1>1, <1>2 DEF GateInv, FenceIsTight
<1>6. RetiredIsFree'
  BY <1>1, <1>2, <1>3 DEF GateInv, RetiredIsFree
<1>7. ItemIsNamed'
  BY <1>1, <1>2, <1>3 DEF GateInv, ItemIsNamed, Outstanding, Nothing
<1> QED
  BY <1>4, <1>5, <1>6, <1>7 DEF GateInv

-------------------------------------------------------------------------------
\* A hit, a release and the worker's steps leave the jobs alone.
LEMMA RestKeepsJobs ==
  ASSUME JobInv, NEW p \in Procs,
         Worker(p) \/ \E s \in Shards : Hit(p, s) \/ Unlease(p, s)
  PROVE  JobInv'
<1>1. stores' = stores /\ job' = job /\ reports' = reports /\ reserved' = reserved
  BY DEF Worker, RenameShard, DeleteTree, DeleteFails, Hit, Unlease, fenceVars, jobVars
<1> QED
  BY <1>1 DEF JobInv, ReservationExact, FewStores, ReportedAtMostOnce, JobsOf

\* The invariant in the two halves the lemmas are about.
LEMMA IInvHalves == TierIInv <=> TierTypeOK /\ GateInv /\ JobInv
  BY DEF TierIInv, GateInv, JobInv

\* A new directory, and processes that have just scanned it.
LEMMA InitTierIInv == TierInit => TierIInv
<1> SUFFICES ASSUME TierInit PROVE TierIInv
  OBVIOUS
<1>1. TierTypeOK
  <2>1. live \in [Shards -> Nat] /\ tombs \in [Tombs -> Nat] /\ Free >= MinFree
    BY DEF TierInit
  <2>2. SumFunction(live) \in Nat /\ SumFunction(tombs) \in Nat
    BY <2>1, SumOfNat, NamesAssumption
  <2>3. Free >= 0
    BY <2>1, <2>2, ThresholdAssumption DEF Free
  <2>4. live \in [Shards -> 0..Capacity] /\ tombs \in [Tombs -> 0..Capacity]
    BY <2>1, <2>3, SpaceFits DEF Free
  <2>5. /\ owner \in Procs \cup {NoProc} /\ raised \in BOOLEAN
        /\ stores \in [Procs -> SUBSET Jobs]
        /\ job \in [Jobs -> JobStates] /\ reports \in [Jobs -> Nat]
        /\ reserved \in [Procs -> Nat]
    BY DEF TierInit, FenceInit, JobStates
  <2>6. /\ avail \in [Procs -> 0..Capacity] /\ checked \in [Procs -> BOOLEAN]
        /\ active \in [Procs -> BOOLEAN] /\ orphans \in [Procs -> SUBSET Tombs]
        /\ tracked \in [Procs -> SUBSET Shards] /\ held \in [Procs -> SUBSET Shards]
        /\ call \in [Procs -> CallTypes]
    BY ThresholdAssumption DEF TierInit, Tombstones, Existing, CallTypes
  <2>7. retire \in [Procs -> Items]
    BY ItemTypes DEF TierInit
  <2> QED
    BY <2>3, <2>4, <2>5, <2>6, <2>7 DEF TierTypeOK, Items, CallTypes
<1>2. GateInv
  BY NamesAssumption DEF TierInit, FenceInit, GateInv, ActiveIsOwner, DeletesUnderFence,
     FenceIsTight, RetiredIsFree, ItemIsNamed, Outstanding, Nothing
<1>3. JobInv
  <2>1. \A p \in Procs : InFlight(p) = {} /\ stores[p] = {} /\ reserved[p] = 0
    BY DEF TierInit, FenceInit, InFlight, JobsOf
  <2>2. ReportedAtMostOnce
    BY DEF TierInit, ReportedAtMostOnce
  <2> QED
    BY <2>1, <2>2, InFlightIs, FS_EmptySet DEF JobInv, FewStores
<1> QED
  BY <1>1, <1>2, <1>3, IInvHalves

\* Every step keeps the invariant.
LEMMA StepKeepsTierIInv == TierIInv /\ [TierNext]_tierVars => TierIInv'
<1> SUFFICES ASSUME TierIInv, [TierNext]_tierVars PROVE TierIInv'
  OBVIOUS
<1>1. TierTypeOK /\ GateInv /\ JobInv /\ ItemIsNamed
  BY IInvHalves DEF GateInv
<1>2. SUFFICES TierTypeOK' /\ GateInv' /\ JobInv'
  BY DEF TierIInv, GateInv, JobInv
<1>3. ASSUME NEW p \in Procs, OnScheduleEnd(p) \/ StartSubmitStore(p) \/ StartGetFinished(p)
      PROVE  TierTypeOK' /\ GateInv' /\ JobInv'
  <2>1. PICK m \in 0..Capacity : EvictionPass(p, m)
    BY <1>3 DEF OnScheduleEnd, StartSubmitStore, StartGetFinished
  <2>2. call' \in [Procs -> {"none", "submit_store", "get_finished"}]
    BY <1>1, <1>3 DEF OnScheduleEnd, StartSubmitStore, StartGetFinished, Enter, TierTypeOK
  <2> QED
    BY <1>1, <2>1, <2>2, PassKeepsType, PassKeepsGate, PassKeepsJobs
<1>4. ASSUME NEW p \in Procs, FinishSubmitStore(p)
      PROVE  TierTypeOK' /\ GateInv' /\ JobInv'
  <2>1. 0 \in 0..Capacity
    BY ThresholdAssumption
  <2>2. PICK j \in JobsOf(p), m \in 0..Capacity :
          AdmitStore(p, j, m) \/ BypassStore(p, j) \/ RejectStore(p, j, m)
    BY <1>4, <2>1 DEF FinishSubmitStore
  <2> QED
    BY <1>1, <2>2, StoreKeepsType, StoreKeepsGate, StoreKeepsJobs
<1>5. ASSUME NEW p \in Procs, GetFinished(p) PROVE TierTypeOK' /\ GateInv' /\ JobInv'
  BY <1>1, <1>5, GetFinishedKeeps, GetFinishedKeepsGate
<1>6. ASSUME NEW p \in Procs, Worker(p) PROVE TierTypeOK' /\ GateInv' /\ JobInv'
  BY <1>1, <1>6, WorkerKeepsType, WorkerKeepsGate, RestKeepsJobs
<1>7. ASSUME NEW p \in Procs, NEW s \in Shards, Hit(p, s) \/ Unlease(p, s)
      PROVE  TierTypeOK' /\ GateInv' /\ JobInv'
  BY <1>1, <1>7, RestKeepsType, LeasesKeepGate, RestKeepsJobs
<1>8. ASSUME NEW p \in Procs, Restart(p) PROVE TierTypeOK' /\ GateInv' /\ JobInv'
  BY <1>1, <1>8, RestKeepsType, RestartKeepsGate, RestartKeepsJobs
<1>9. ASSUME NEW j \in Jobs, Write(j) \/ WriteFails(j)
      PROVE  TierTypeOK' /\ GateInv' /\ JobInv'
  BY <1>1, <1>9, WriteKeepsType, WriteKeepsGate, WriteKeepsJobs
<1>10. CASE UNCHANGED tierVars
  <2>1. /\ UNCHANGED <<owner, raised, stores, live, tombs, job, reports, reserved>>
        /\ UNCHANGED <<avail, checked, active, orphans, tracked, held, retire, call>>
    BY <1>10 DEF tierVars, fenceVars, disk, jobVars, space, evict
  <2>2. TierTypeOK'
    BY <1>1, <2>1 DEF TierTypeOK, Free
  <2>3. GateInv'
    BY <1>1, <2>1 DEF GateInv, ActiveIsOwner, DeletesUnderFence, FenceIsTight,
       RetiredIsFree, ItemIsNamed, Outstanding
  <2>4. JobInv'
    BY <1>1, <2>1 DEF JobInv, ReservationExact, FewStores, ReportedAtMostOnce, JobsOf
  <2> QED
    BY <2>2, <2>3, <2>4
<1> QED
  BY <1>3, <1>4, <1>5, <1>6, <1>7, <1>8, <1>9, <1>10 DEF TierNext

\* The inductive invariant holds of the tier, crashes included.
THEOREM TierIInvHolds == TierSpec => []TierIInv
  BY InitTierIInv, StepKeepsTierIInv, PTL DEF TierSpec

\* Types are kept, the units on the volume never exceed it, and no process reserves
\* less than nothing, whatever fails or crashes.
THEOREM TierTypeOKHolds == TierSpec => []TierTypeOK
<1>1. TierIInv => TierTypeOK
  BY DEF TierIInv
<1> QED
  BY <1>1, TierIInvHolds, PTL

\* _eviction_active says who owns the gate, after a crash of the owner too.
THEOREM ActiveIsOwnerHolds == TierSpec => []ActiveIsOwner
<1>1. TierIInv => ActiveIsOwner
  BY DEF TierIInv
<1> QED
  BY <1>1, TierIInvHolds, PTL

\* The bytes reserved and the gate's leases are those of the jobs in flight, however
\* a job ends.
THEOREM ReservationExactHolds == TierSpec => []ReservationExact
<1>1. TierIInv => ReservationExact
  BY DEF TierIInv
<1> QED
  BY <1>1, TierIInvHolds, PTL

\* No store job is reported twice.
THEOREM ReportedAtMostOnceHolds == TierSpec => []ReportedAtMostOnce
<1>1. TierIInv => ReportedAtMostOnce
  BY DEF TierIInv
<1> QED
  BY <1>1, TierIInvHolds, PTL

\* While a worker has a directory to delete, its process owns eviction behind a raised
\* fence, no store of any process writes, and nobody leases the shard.
THEOREM NoDeletionUnderWritesHolds == TierSpec => []NoDeletionUnderWrites
<1>1. TierIInv => NoDeletionUnderWrites
  <2> SUFFICES ASSUME TierIInv, NEW p \in Procs, Outstanding(p)
               PROVE  /\ owner = p /\ raised
                      /\ \A j \in Jobs : job[j] # "writing"
                      /\ \A q \in Procs : retire[p].shard \notin LeasedBy(q)
    BY DEF NoDeletionUnderWrites
  <2>1. owner = p /\ raised
    BY DEF TierIInv, DeletesUnderFence, Outstanding
  <2>2. \A q \in Procs : stores[q] = {}
    BY <2>1 DEF TierIInv, FenceIsTight
  <2>3. ASSUME NEW j \in Jobs PROVE job[j] # "writing"
    <3>1. ProcOf[j] \in Procs /\ j \in JobsOf(ProcOf[j])
      BY NamesAssumption DEF JobsOf
    <3>2. stores[ProcOf[j]] = InFlight(ProcOf[j])
      BY <3>1, InFlightIs DEF TierIInv
    <3> QED
      BY <2>2, <3>1, <3>2 DEF InFlight
  <2>4. \A q \in Procs : retire[p].shard \notin LeasedBy(q)
    BY <2>2 DEF LeasedBy, TierIInv, RetiredIsFree
  <2> QED
    BY <2>1, <2>3, <2>4
<1> QED
  BY <1>1, TierIInvHolds, PTL
===============================================================================
