---------------------------- MODULE ContentProofs ----------------------------
(***************************************************************************)
(* Proofs about Offload, continued: what is in the slots of the host       *)
(* cache, in the staging buffers and in the blocks.  The slots first, then *)
(* the jobs a step waits for, then the contents: the last are right        *)
(* provided reset_cache comes only while no request has blocks             *)
(* (ResetActive is FALSE), which is what the operations on them assume.    *)
(***************************************************************************)
EXTENDS OffloadProofs

(***************************************************************************)
(* The slots.  Stores of the same slot are copied to it in the order they  *)
(* were made, and only the last may still count: a chunk the cache offers, *)
(* or is about to, is in a slot no store under way writes.                 *)
(***************************************************************************)

\* Two transfers have a slot in common.
Shares(t, u) == \E m \in t.job.moves, n \in u.job.moves : m.slot = n.slot

\* The stores whose copy to their slots is still to come, and all of them.
ToCopy == ToSave \cup deferred \cup Sent("store")
Stores == ToCopy \cup {t \in completed : t.job.store}

MovesOK(job) == \A m \in job.moves : m.key \in Keys /\ m.block \in Blocks /\ m.slot \in Slots
StoreShape(job) ==
  /\ MovesOK(job) /\ job.req \in Requests
  /\ job.keys = {m.key : m \in job.moves}
  /\ \A m, n \in job.moves : m.key = n.key \/ m.slot = n.slot => m = n
  /\ \A m \in job.moves : m.block \in IF m.key[1] = "sliding" THEN job.sliding ELSE job.other
LoadShape(job) ==
  /\ MovesOK(job)
  /\ job.keys = {m.key : m \in job.moves}
  /\ \A m, n \in job.moves : m.block = n.block => m = n

\* A slot has one chunk, if any.
SlotTypes ==
  /\ slotOf \in [Keys -> 0..NumSlots] /\ ready \subseteq Keys
  /\ \A k, l \in Keys : slotOf[k] = slotOf[l] /\ slotOf[k] # 0 => k = l
  /\ \A k \in ready : slotOf[k] # 0
Shapes ==
  /\ \A t \in Stores : StoreShape(t.job)
  /\ \A t \in Loads : LoadShape(t.job)

\* Since the last reset a store owns its chunks' slots, until it completes.
Fresh(t) == t.id >= threshold
Owns(t) == \A m \in t.job.moves : slotOf[m.key] = m.slot /\ m.key \notin ready
Owning ==
  /\ \A t \in Stores : Fresh(t) => Owns(t)
  /\ \A t, u \in Stores : Fresh(t) /\ Fresh(u)
        => \A m \in t.job.moves, n \in u.job.moves : m.key = n.key => t.id = u.id

\* Stores to one slot, of before and after a reset, are copied in turn.
InTurn(q) == \A i, k \in DOMAIN q : Shares(q[i], q[k]) /\ q[i].id < q[k].id => i < k
SlotOrder ==
  /\ InTurn(transfers["store"])
  /\ \A t \in deferred, u \in Sent("store") : Shares(t, u) => u.id < t.id
  /\ \A t \in ToSave, u \in deferred \cup Sent("store") : Shares(t, u) => u.id < t.id
  /\ \A t, u \in ToSave : Shares(t, u) => t = u
  /\ \A t, u \in deferred : Shares(t, u) => t = u

\* No copy is still to come into the slot of a chunk that is ready, or will be when
\* its completion is given to the connector.
Untainted(s) == \A u \in ToCopy : \A n \in u.job.moves : n.slot # s
Clear ==
  /\ \A k \in ready : Untainted(slotOf[k])
  /\ \A t \in completed : t.job.store /\ Fresh(t) => \A m \in t.job.moves : Untainted(m.slot)

\* What a load is about to read is ready.
Reads(t) == \A m \in t.job.moves : m.key \in ready /\ slotOf[m.key] = m.slot
Reading == \A t \in ToLoad : Fresh(t) /\ Reads(t)

SlotsRight == SlotTypes /\ Shapes /\ Owning /\ SlotOrder /\ Clear /\ Reading

\* Steps that leave jobs and slots where they are.
LEMMA SlotsKept ==
  ASSUME SlotsRight, ToLoad' = ToLoad, ToSave' = ToSave, \A d : Sent(d)' = Sent(d),
         UNCHANGED <<slotOf, ready, threshold, deferred, completed, transfers>>
  PROVE  SlotsRight'
<1>1. ToCopy' = ToCopy /\ Stores' = Stores /\ Loads' = Loads
  BY DEF ToCopy, Stores, Loads
<1>2. SlotTypes'
  BY DEF SlotsRight, SlotTypes
<1>3. Shapes'
  BY <1>1 DEF SlotsRight, Shapes
<1>4. Owning'
  BY <1>1 DEF SlotsRight, Owning, Fresh, Owns
<1>5. SlotOrder'
  BY <1>1 DEF SlotsRight, SlotOrder
<1>6. Clear'
  BY <1>1 DEF SlotsRight, Clear, Untainted, Fresh
<1>7. Reading'
  BY <1>1 DEF SlotsRight, Reading, Reads, Fresh
<1> QED
  BY <1>2, <1>3, <1>4, <1>5, <1>6, <1>7 DEF SlotsRight

\* A reset leaves all slots free, and makes all jobs those of before.
LEMMA ResetSlots ==
  ASSUME Travel, SlotsRight, ResetCache, UNCHANGED <<handlerVars, deferred, completed>>
  PROVE  SlotsRight'
<1>1. /\ slotOf' = [k \in Keys |-> 0] /\ ready' = {} /\ threshold' = counter
      /\ phase = "sched" /\ newLoads = {}
  BY DEF ResetCache, BetweenSteps
<1>2. /\ ToLoad' = ToLoad /\ ToSave' = ToSave /\ (\A d : Sent(d)' = Sent(d))
      /\ UNCHANGED <<deferred, completed, transfers>>
  <2>1. Quiet
    BY Zenon DEF Quiet
  <2> QED
    BY <2>1, QuietWays
<1>3. ToCopy' = ToCopy /\ Stores' = Stores /\ Loads' = Loads
  BY <1>2 DEF ToCopy, Stores, Loads
<1>4. ToLoad = {}
  BY <1>1 DEF ToLoad, Entries
<1>5. \A t \in Stores : ~(t.id >= counter)
  <2>1. counter \in Nat /\ \A t \in UnderWay : t.id \in 0..(counter - 1)
    BY DEF Travel, Numbered
  <2>2. Stores \subseteq UnderWay
    BY DEF Stores, ToCopy, UnderWay
  <2> QED
    BY <2>1, <2>2
<1>6. \A t \in completed : ~(t.id >= counter)
  <2>1. counter \in Nat /\ \A t \in UnderWay : t.id \in 0..(counter - 1)
    BY DEF Travel, Numbered
  <2>2. completed \subseteq UnderWay
    BY DEF UnderWay
  <2> QED
    BY <2>1, <2>2
<1>7. SlotTypes'
  <2>1. NumSlots \in Nat
    BY SchedulerAssumption
  <2> QED
    BY <1>1, <2>1 DEF SlotTypes
<1>8. Shapes'
  BY <1>3 DEF SlotsRight, Shapes
<1>9. Owning'
  BY <1>1, <1>3, <1>5 DEF Owning, Fresh
<1>10. SlotOrder'
  BY <1>2 DEF SlotsRight, SlotOrder
<1>11. Clear'
  BY <1>1, <1>2, <1>6 DEF Clear, Fresh
<1>12. Reading'
  BY <1>2, <1>4 DEF Reading
<1> QED
  BY <1>7, <1>8, <1>9, <1>10, <1>11, <1>12 DEF SlotsRight

\* The steps that move no job keep the slots right.
LEMMA QuietSlots ==
  ASSUME Travel, SlotsRight, Quiet, UNCHANGED <<handlerVars, deferred, completed>>
  PROVE  SlotsRight'
<1>1. CASE ResetCache
  BY <1>1, ResetSlots
<1>2. ASSUME UNCHANGED <<slotOf, ready, threshold>> PROVE SlotsRight'
  <2>1. /\ ToLoad' = ToLoad /\ ToSave' = ToSave /\ (\A d : Sent(d)' = Sent(d))
        /\ UNCHANGED <<deferred, completed, transfers>>
    BY QuietWays
  <2> QED
    BY <1>2, <2>1, SlotsKept
<1>3. ASSUME StartMeta PROVE UNCHANGED <<slotOf, ready, threshold>>
  BY <1>3, Zenon DEF StartMeta, mgrVars
<1>4. ASSUME EndMeta PROVE UNCHANGED <<slotOf, ready, threshold>>
  BY <1>4, Zenon DEF EndMeta, mgrVars
<1>5. ASSUME EndStep PROVE UNCHANGED <<slotOf, ready, threshold>>
  BY <1>5 DEF EndStep, conVars, mgrVars
<1>6. ASSUME UNCHANGED vars PROVE UNCHANGED <<slotOf, ready, threshold>>
  BY <1>6 DEF vars, schedVars, conVars, mgrVars
<1>7. ASSUME NEW r \in Requests, OnNewRequest(r) \/ GetMatchedWaits(r) \/ Preempt(r) \/ Abort(r)
      PROVE UNCHANGED <<slotOf, ready, threshold>>
  BY <1>7 DEF OnNewRequest, GetMatchedWaits, Preempt, Abort, conVars, mgrVars
<1>8. ASSUME NEW r \in Requests, NEW n \in 1..MaxTokens, ScheduleWaiting(r, n) \/ ScheduleRunning(r, n)
      PROVE UNCHANGED <<slotOf, ready, threshold>>
  BY <1>8 DEF ScheduleWaiting, ScheduleRunning, conVars, mgrVars
<1>9. ASSUME NEW r \in Requests, StoreNothing(r) \/ StoreRefused(r)
      PROVE UNCHANGED <<slotOf, ready, threshold>>
  BY <1>9 DEF StoreNothing, StoreRefused, mgrVars
<1>10. ASSUME NEW r \in Requests, NEW stops \in BOOLEAN, RequestOutput(r, stops)
      PROVE UNCHANGED <<slotOf, ready, threshold>>
  BY <1>10 DEF RequestOutput, mgrVars
<1>11. CASE ~ResetCache
  <2>1. UNCHANGED <<slotOf, ready, threshold>>
    BY <1>3, <1>4, <1>5, <1>6, <1>7, <1>8, <1>9, <1>10, <1>11, Zenon DEF Quiet
  <2> QED
    BY <1>2, <2>1
<1> QED
  BY <1>1, <1>11

\* Stores and loads on their way have numbers given out, in one place each.
LEMMA NumbersAre ==
  ASSUME Travel
  PROVE  /\ counter \in Nat /\ threshold \in Nat /\ threshold <= counter
         /\ \A t \in UnderWay : t.id \in 0..(counter - 1) /\ t.id < counter /\ t.id # counter /\ t.id \in Nat
         /\ \A t \in UnderWay : Fresh(t) => t.id \in DOMAIN jobs /\ jobs[t.id] = t.job
         /\ Stores \subseteq UnderWay /\ Loads \subseteq UnderWay /\ completed \subseteq UnderWay
<1>1. /\ counter \in Nat /\ threshold \in Nat /\ threshold <= counter
      /\ \A t \in UnderWay : t.id \in 0..(counter - 1)
  BY DEF Travel, Numbered
<1>2. \A t \in UnderWay : Fresh(t) => t.id \in DOMAIN jobs /\ jobs[t.id] = t.job
  BY DEF Travel, Numbered, Fresh
<1>3. \A t \in UnderWay : t.id < counter /\ t.id # counter /\ t.id \in Nat
  BY <1>1
<1>4. Stores \subseteq UnderWay /\ Loads \subseteq UnderWay /\ completed \subseteq UnderWay
  BY DEF Stores, ToCopy, Loads, UnderWay
<1> QED
  BY <1>1, <1>2, <1>3, <1>4

\* ScheduleLoad: a load reads readable chunks from the slots they are in.
LEMMA LoadSlots ==
  ASSUME Travel, Books, TablesRight, SlotsRight, NEW r \in Requests, ScheduleLoad(r),
         UNCHANGED <<handlerVars, deferred, completed>>
  PROVE  SlotsRight'
<1> DEFINE h == LongestHit(r)
           table == LoadTable(r)
<1>0. h = LongestHit(r) /\ table = LoadTable(r)
  OBVIOUS
<1> HIDE DEF h, table
<1>1. /\ h \in Nat /\ h <= ChunksIn(MaxTokens) /\ (\A k \in HitKeys(h) : k \in ready)
      /\ table \in Table /\ (\A g \in Groups : Len(table[g]) = h /\ DOMAIN table[g] = 1..h)
      /\ (\A g \in Groups, i \in 1..h : table[g][i] = 0 <=> Behind(g, i, h * TokensPerChunk))
      /\ (\A g, g2 \in Groups, i, j \in 1..h : table[g][i] = table[g2][j] /\ table[g][i] # 0 => g = g2 /\ i = j)
      /\ LoadJob(r).moves = {[key |-> k, block |-> table[k[1]][k[2] + 1], slot |-> slotOf[k]] : k \in HitKeys(h)}
      /\ LoadJob(r).keys = HitKeys(h) /\ LoadJob(r).req = r /\ ~LoadJob(r).store
      /\ UNCHANGED <<threshold, slotOf, ready>>
  BY <1>0, ScheduleLoadIs
<1> DEFINE new == NewEntry(LoadJob(r))
<1>2. /\ ToLoad' = ToLoad \cup {new} /\ ToSave' = ToSave /\ \A d : Sent(d)' = Sent(d)
  BY LoadJobMade, LoadSetsOut
<1>3. new.job = LoadJob(r) /\ new.id = counter
  BY DEF NewEntry
<1> HIDE DEF new
<1>4. UNCHANGED <<deferred, completed, transfers>>
  BY DEF handlerVars
<1>5. ToCopy' = ToCopy /\ Stores' = Stores /\ Loads' = Loads \cup {new}
  BY <1>2, <1>4 DEF ToCopy, Stores, Loads
<1>6. ASSUME NEW k \in HitKeys(h)
      PROVE  /\ k \in Keys /\ k[1] \in Groups /\ k[2] \in Nat /\ k[2] + 1 \in 1..h /\ k = <<k[1], k[2]>>
             /\ table[k[1]][k[2] + 1] # 0 /\ table[k[1]][k[2] + 1] \in Blocks /\ slotOf[k] \in Slots
  <2>1. k \in Keys /\ k[2] + 1 \in 1..h /\ ~Behind(k[1], k[2] + 1, h * TokensPerChunk)
    BY <1>1, HitKeysAre
  <2>2. k[1] \in Groups /\ k[2] \in Nat /\ k = <<k[1], k[2]>>
    BY <2>1, KeysAre
  <2>3. table[k[1]][k[2] + 1] # 0
    BY <1>1, <2>1, <2>2
  <2>4. table[k[1]][k[2] + 1] \in 0..NumBlocks
    <3>1. table[k[1]] \in Seq(0..NumBlocks) /\ k[2] + 1 \in 1..Len(table[k[1]])
      BY <1>1, <2>1, <2>2 DEF Table
    <3> QED
      BY <3>1, SequenceIs
  <2>5. NumBlocks \in Nat /\ NumSlots \in Nat
    BY SchedulerAssumption
  <2>6. table[k[1]][k[2] + 1] \in Blocks
    BY <2>3, <2>4, <2>5 DEF Blocks
  <2>7. slotOf[k] \in 0..NumSlots /\ slotOf[k] # 0
    BY <1>1, <2>1 DEF SlotsRight, SlotTypes
  <2>8. slotOf[k] \in Slots
    BY <2>5, <2>7 DEF Slots
  <2> QED
    BY <2>1, <2>2, <2>3, <2>6, <2>8
<1>7. LoadShape(LoadJob(r))
  <2>1. \A m \in LoadJob(r).moves : \E k \in HitKeys(h) : m.key = k /\ m.block = table[k[1]][k[2] + 1] /\ m.slot = slotOf[k]
                /\ m = [key |-> k, block |-> table[k[1]][k[2] + 1], slot |-> slotOf[k]]
    BY <1>1
  <2>2. MovesOK(LoadJob(r))
    BY <1>6, <2>1, Zenon DEF MovesOK
  <2>3. LoadJob(r).keys = {m.key : m \in LoadJob(r).moves}
    <3>1. \A k \in HitKeys(h) : \E m \in LoadJob(r).moves : m.key = k
      <4> SUFFICES ASSUME NEW k \in HitKeys(h) PROVE \E m \in LoadJob(r).moves : m.key = k
        OBVIOUS
      <4>1. [key |-> k, block |-> table[k[1]][k[2] + 1], slot |-> slotOf[k]] \in LoadJob(r).moves
        BY <1>1
      <4> QED
        BY <4>1
    <3> QED
      BY <1>1, <2>1, <3>1
  <2>4. ASSUME NEW m \in LoadJob(r).moves, NEW n \in LoadJob(r).moves, m.block = n.block PROVE m = n
    <3>1. PICK k \in HitKeys(h) : m.block = table[k[1]][k[2] + 1]
                /\ m = [key |-> k, block |-> table[k[1]][k[2] + 1], slot |-> slotOf[k]]
      BY <2>1
    <3>2. PICK l \in HitKeys(h) : n.block = table[l[1]][l[2] + 1]
                /\ n = [key |-> l, block |-> table[l[1]][l[2] + 1], slot |-> slotOf[l]]
      BY <2>1
    <3>3. table[k[1]][k[2] + 1] = table[l[1]][l[2] + 1]
      BY <2>4, <3>1, <3>2
    <3>4. k[1] = l[1] /\ k[2] + 1 = l[2] + 1
      BY <1>1, <1>6, <3>3, SMTT(30)
    <3>5. k[2] = l[2]
      BY <1>6, <3>4
    <3>6. k = l
      BY <1>6, <3>4, <3>5
    <3> QED
      BY <3>1, <3>2, <3>6
  <2> QED
    BY <2>2, <2>3, <2>4 DEF LoadShape
<1>8. SlotTypes'
  BY <1>1 DEF SlotsRight, SlotTypes
<1>9. Shapes'
  BY <1>3, <1>5, <1>7 DEF SlotsRight, Shapes
<1>10. Owning'
  BY <1>1, <1>5 DEF SlotsRight, Owning, Fresh, Owns
<1>11. SlotOrder'
  BY <1>2, <1>4 DEF SlotsRight, SlotOrder
<1>12. Clear'
  BY <1>1, <1>4, <1>5 DEF SlotsRight, Clear, Untainted, Fresh
<1>13. Reading'
  <2>1. new.id >= threshold
    BY <1>3, NumbersAre
  <2>2. \A m \in LoadJob(r).moves : m.key \in ready /\ slotOf[m.key] = m.slot
    BY <1>1
  <2>3. \A t \in ToLoad : t.id >= threshold /\ \A m \in t.job.moves : m.key \in ready /\ slotOf[m.key] = m.slot
    BY DEF SlotsRight, Reading, Reads, Fresh
  <2>4. \A t \in ToLoad \cup {new} : t.id >= threshold /\ \A m \in t.job.moves : m.key \in ready /\ slotOf[m.key] = m.slot
    BY <1>3, <2>1, <2>2, <2>3
  <2> QED
    BY <1>1, <1>2, <2>4 DEF Reading, Reads, Fresh
<1> QED
  BY <1>8, <1>9, <1>10, <1>11, <1>12, <1>13 DEF SlotsRight

\* The slots a store gets are free, or those of chunks that are evicted, each once.
LEMMA SlotForIs ==
  ASSUME SlotTypes, NEW r \in Requests, NEW evicted, evicted \subseteq Keys, NEW free, NEW keys,
         free = FreeSlots \cup {slotOf[l] : l \in evicted}, keys = StoredKeys(r),
         Cardinality(free) >= Cardinality(keys), \A l \in evicted : slotOf[l] # 0
  PROVE  /\ keys \subseteq Keys
         /\ \A k \in keys : SlotFor(r, evicted, k) \in free /\ SlotFor(r, evicted, k) \in Slots
         /\ \A k, l \in keys : SlotFor(r, evicted, k) = SlotFor(r, evicted, l) => k = l
         /\ \A k \in Keys : slotOf[k] # 0 /\ k \notin evicted => slotOf[k] \notin free
<1>1. keys \subseteq Keys /\ IsFiniteSet(keys)
  <2>1. keys \subseteq Keys
    BY DEF StoredKeys, NewKeys
  <2> QED
    BY <2>1, KeysAre, FS_Subset
<1>2. free \subseteq Slots /\ NumSlots \in Nat /\ free \in SUBSET (0..NumSlots)
  <2>1. NumSlots \in Nat
    BY SchedulerAssumption
  <2>2. \A l \in evicted : slotOf[l] \in Slots
    BY <2>1 DEF SlotTypes, Slots
  <2>3. free \subseteq Slots
    BY <2>2 DEF FreeSlots
  <2> QED
    BY <2>1, <2>3 DEF Slots
<1>3. \A k \in Keys : slotOf[k] # 0 /\ k \notin evicted => slotOf[k] \notin free
  BY DEF FreeSlots, SlotTypes
<1> DEFINE order == SetToSeq(keys)
           c == Cardinality(keys)
           low == Lowest(free, c)
           Place(k) == CHOOSE i \in DOMAIN order : order[i] = k
<1>4. /\ c \in Nat /\ Len(order) = c /\ DOMAIN order = 1..c
      /\ \A x \in keys : \E i \in 1..c : order[i] = x
  <2>1. /\ c \in Nat /\ Len(order) = c /\ order \in [1..c -> keys]
        /\ \A x \in keys : \E i \in 1..c : order[i] = x
    BY <1>1, OrderIs
  <2> QED
    BY <2>1
<1>5. c <= Cardinality(free)
  <2>0. 0 \in Int /\ NumSlots \in Int
    BY <1>2
  <2>1. IsFiniteSet(0..NumSlots)
    BY <2>0, FS_Interval
  <2>2. Cardinality(free) \in Nat
    BY <1>2, <2>1, FS_Subset, FS_CardinalityType
  <2>3. c = Cardinality(keys)
    OBVIOUS
  <2> QED
    BY <1>4, <2>2, <2>3
<1>6. /\ low \in [1..c -> free]
      /\ \A i, k \in 1..c : low[i] = low[k] => i = k
  BY <1>2, <1>4, <1>5, LowestOnce
<1>7. \A k \in keys : Place(k) \in 1..c /\ order[Place(k)] = k
  BY <1>4
<1>8. \A k : SlotFor(r, evicted, k) = low[Place(k)]
  BY <1>4 DEF SlotFor
<1> HIDE DEF low, order, c, Place
<1>9. \A k \in keys : SlotFor(r, evicted, k) \in free
  BY <1>6, <1>7, <1>8
<1>10. \A k, l \in keys : SlotFor(r, evicted, k) = SlotFor(r, evicted, l) => k = l
  <2> SUFFICES ASSUME NEW k \in keys, NEW l \in keys, SlotFor(r, evicted, k) = SlotFor(r, evicted, l) PROVE k = l
    OBVIOUS
  <2>1. Place(k) = Place(l)
    BY <1>6, <1>7, <1>8
  <2> QED
    BY <1>7, <2>1
<1> QED
  BY <1>1, <1>2, <1>3, <1>9, <1>10

\* What StoreChunks does to the cache's slots, and the others' state.
LEMMA StoreChunksIs ==
  ASSUME NEW r, NEW evicted, StoreChunks(r, evicted)
  PROVE  /\ phase = "build" /\ r \in toStore /\ evicted \subseteq Evictable \ NewKeys(r)
         /\ Cardinality(FreeSlots \cup {slotOf[l] : l \in evicted}) >= Cardinality(StoredKeys(r))
         /\ slotOf' = [k \in Keys |-> IF k \in StoredKeys(r) THEN SlotFor(r, evicted, k)
                                      ELSE IF k \in evicted THEN 0 ELSE slotOf[k]]
         /\ ready' = ready \ evicted
         /\ nextStored' = Advanced(r)
         /\ toStore' = toStore \ {r}
         /\ flush' = flush \cup (IF Finished(r) /\ BlocksFor(StoreMoves(r, evicted), "full") \cap allocated # {}
                                   THEN {counter} ELSE {})
         /\ watch' = watch \cup ((BlocksFor(StoreMoves(r, evicted), "sliding") \cup
                        (IF Finished(r) THEN BlocksFor(StoreMoves(r, evicted), "full") ELSE {})) \X {counter})
         /\ UNCHANGED <<extVars, tracked, signaled, blockIds, threshold, allocated,
                       beingLoaded, newLoads, meta>>
<1>1. /\ phase = "build" /\ r \in toStore /\ evicted \subseteq Evictable \ NewKeys(r)
      /\ ready' = ready \ evicted /\ nextStored' = Advanced(r) /\ toStore' = toStore \ {r}
      /\ UNCHANGED <<extVars, tracked, signaled, blockIds, threshold, allocated,
                       beingLoaded, newLoads, meta>>
  BY Zenon DEF StoreChunks
<1>2. Cardinality(FreeSlots \cup {slotOf[l] : l \in evicted}) >= Cardinality(StoredKeys(r))
  BY Zenon DEF StoreChunks, StoredKeys
<1>3. slotOf' = [k \in Keys |-> IF k \in StoredKeys(r) THEN SlotFor(r, evicted, k)
                                      ELSE IF k \in evicted THEN 0 ELSE slotOf[k]]
  BY Zenon DEF StoreChunks, StoredKeys, SlotFor
<1>4. watch' = watch \cup ((BlocksFor(StoreMoves(r, evicted), "sliding") \cup
                        (IF Finished(r) THEN BlocksFor(StoreMoves(r, evicted), "full") ELSE {})) \X {counter})
  BY Zenon DEF StoreChunks, StoredKeys, SlotFor, StoreMoves, BlocksFor
<1>5. flush' = IF (IF Finished(r) THEN BlocksFor(StoreMoves(r, evicted), "full") ELSE {}) \cap allocated # {}
                 THEN flush \cup {counter} ELSE flush
  BY Zenon DEF StoreChunks, StoredKeys, SlotFor, StoreMoves, BlocksFor
<1>6. flush' = flush \cup (IF Finished(r) /\ BlocksFor(StoreMoves(r, evicted), "full") \cap allocated # {}
                                   THEN {counter} ELSE {})
  <2> DEFINE full == BlocksFor(StoreMoves(r, evicted), "full")
  <2>1. flush' = IF (IF Finished(r) THEN full ELSE {}) \cap allocated # {} THEN flush \cup {counter} ELSE flush
    BY <1>5
  <2>0. full = BlocksFor(StoreMoves(r, evicted), "full")
    OBVIOUS
  <2> HIDE DEF full
  <2>2. CASE Finished(r)
    <3>1. flush' = IF full \cap allocated # {} THEN flush \cup {counter} ELSE flush
      BY <2>1, <2>2, Zenon
    <3> QED
      BY <2>0, <2>2, <3>1
  <2>3. CASE ~Finished(r)
    BY <2>0, <2>1, <2>3
  <2> QED
    BY <2>2, <2>3
<1> QED
  BY <1>1, <1>2, <1>3, <1>4, <1>6

\* The chunks of a store job have a block, and no slot so far.
LEMMA StoredKeysAre ==
  ASSUME blockIds \in [Requests -> Table], computed \in [Requests -> Nat], total \in [Requests -> Nat],
         sched \in [Requests -> Nat], NEW r \in Requests, NEW k \in StoredKeys(r)
  PROVE  /\ k \in Keys /\ k[1] \in Groups /\ k[2] \in Nat /\ slotOf[k] = 0
         /\ k[2] + 1 \in DOMAIN blockIds[r][k[1]] /\ blockIds[r][k[1]][k[2] + 1] \in Blocks
         /\ nextStored[r][k[1]] <= k[2] /\ k[2] < Offloadable(r) \div TokensPerChunk
         /\ Offloadable(r) \in Nat
<1>1. /\ k \in Keys /\ nextStored[r][k[1]] <= k[2] /\ k[2] < StorableChunks(r, k[1])
      /\ blockIds[r][k[1]][k[2] + 1] # 0 /\ slotOf[k] = 0
  BY DEF StoredKeys, NewKeys, Present
<1>2. k[1] \in Groups /\ k[2] \in Nat
  BY <1>1, KeysAre
<1>3. Offloadable(r) \in Nat
  <2>1. computed[r] \in Nat /\ total[r] \in Nat /\ sched[r] \in Nat
    OBVIOUS
  <2> QED
    BY <2>1 DEF Offloadable
<1>4. Offloadable(r) \div TokensPerChunk \in Nat
  BY <1>3, ChunkSize, Floor
<1>5. blockIds[r][k[1]] \in Seq(0..NumBlocks)
  BY <1>2 DEF Table
<1> DEFINE len == Len(blockIds[r][k[1]])
           n == Offloadable(r) \div TokensPerChunk
<1>6. len \in Nat /\ DOMAIN blockIds[r][k[1]] = 1..len
      /\ \A i \in 1..len : blockIds[r][k[1]][i] \in 0..NumBlocks
  BY <1>5, SequenceIs
<1>7. StorableChunks(r, k[1]) = IF n < len THEN n ELSE len
  BY DEF StorableChunks
<1>8. n = Offloadable(r) \div TokensPerChunk /\ len = Len(blockIds[r][k[1]])
  OBVIOUS
<1> HIDE DEF n, len
<1>9. k[2] < n /\ k[2] < len
  BY <1>1, <1>2, <1>4, <1>6, <1>7, <1>8
<1>10. k[2] + 1 \in 1..len
  BY <1>2, <1>6, <1>9
<1>11. NumBlocks \in Nat
  BY SchedulerAssumption
<1>12. blockIds[r][k[1]][k[2] + 1] \in Blocks
  BY <1>1, <1>6, <1>10, <1>11 DEF Blocks
<1> QED
  BY <1>1, <1>2, <1>3, <1>6, <1>8, <1>9, <1>10, <1>12

\* The moves of a store job.
StoreMove(r, evicted, k) ==
  [key |-> k, block |-> blockIds[r][k[1]][k[2] + 1], slot |-> SlotFor(r, evicted, k)]

\* The job StoreChunks makes, move by move.
LEMMA StoreJobIs ==
  ASSUME NEW r, NEW evicted
  PROVE  /\ StoreJobOf(r, evicted).req = r /\ StoreJobOf(r, evicted).store
         /\ StoreJobOf(r, evicted).keys = StoredKeys(r)
         /\ \A m \in StoreJobOf(r, evicted).moves : \E k \in StoredKeys(r) : m = StoreMove(r, evicted, k)
         /\ \A k \in StoredKeys(r) : StoreMove(r, evicted, k) \in StoreJobOf(r, evicted).moves
         /\ StoreJobOf(r, evicted).sliding = BlocksFor(StoreJobOf(r, evicted).moves, "sliding")
         /\ StoreJobOf(r, evicted).other = BlocksFor(StoreJobOf(r, evicted).moves, "full")
<1>1. StoreJobOf(r, evicted).moves = {StoreMove(r, evicted, k) : k \in StoredKeys(r)}
  BY DEF StoreJobOf, StoreMoves, StoreMove
<1>2. /\ StoreJobOf(r, evicted).req = r /\ StoreJobOf(r, evicted).store
      /\ StoreJobOf(r, evicted).keys = StoredKeys(r)
      /\ StoreJobOf(r, evicted).sliding = BlocksFor(StoreJobOf(r, evicted).moves, "sliding")
      /\ StoreJobOf(r, evicted).other = BlocksFor(StoreJobOf(r, evicted).moves, "full")
  BY DEF StoreJobOf
<1> QED
  BY <1>1, <1>2

\* One of its moves.
LEMMA StoreMoveIs ==
  ASSUME NEW r, NEW evicted, NEW k
  PROVE  /\ StoreMove(r, evicted, k).key = k
         /\ StoreMove(r, evicted, k).block = blockIds[r][k[1]][k[2] + 1]
         /\ StoreMove(r, evicted, k).slot = SlotFor(r, evicted, k)
  BY DEF StoreMove

\* What the choice of slots means: a new job gets free slots, which are its own
\* from now on, and no chunk that keeps its slot has one of them.
LEMMA StoreTakes ==
  ASSUME Travel, Books, TablesRight, SlotTypes, NEW r, NEW evicted, StoreChunks(r, evicted)
  PROVE  /\ r \in Requests /\ evicted \subseteq ready /\ evicted \cap Pinned = {}
         /\ \A k \in StoredKeys(r) : k \in Keys /\ slotOf[k] = 0 /\ k \notin ready /\ k \notin evicted
         /\ \A m \in StoreJobOf(r, evicted).moves : slotOf'[m.key] = m.slot
         /\ \A m \in StoreJobOf(r, evicted).moves, k \in Keys :
              slotOf[k] # 0 /\ k \notin evicted => slotOf[k] # m.slot
         /\ \A k \in Keys : slotOf[k] # 0 /\ k \notin evicted => slotOf'[k] = slotOf[k]
         /\ ready' = ready \ evicted
         /\ StoreShape(StoreJobOf(r, evicted))
         /\ SlotTypes'
<1> DEFINE keys == StoredKeys(r)
           free == FreeSlots \cup {slotOf[l] : l \in evicted}
           job == StoreJobOf(r, evicted)
<1>0. keys = StoredKeys(r) /\ free = FreeSlots \cup {slotOf[l] : l \in evicted} /\ job = StoreJobOf(r, evicted)
  OBVIOUS
<1> HIDE DEF keys, free, job
<1>1. /\ phase = "build" /\ r \in toStore /\ evicted \subseteq Evictable \ NewKeys(r)
      /\ Cardinality(free) >= Cardinality(keys)
      /\ slotOf' = [k \in Keys |-> IF k \in keys THEN SlotFor(r, evicted, k)
                                   ELSE IF k \in evicted THEN 0 ELSE slotOf[k]]
      /\ ready' = ready \ evicted
  BY <1>0, StoreChunksIs
<1>2. r \in Requests
  BY <1>1 DEF Books, RequestsAreKnown
<1>3. evicted \subseteq ready /\ evicted \cap Pinned = {} /\ evicted \subseteq Keys /\ keys \cap evicted = {}
  BY <1>0, <1>1 DEF Evictable, SlotTypes, StoredKeys
<1>4. \A l \in evicted : slotOf[l] # 0
  BY <1>3 DEF SlotTypes
<1>5. \A k \in keys : /\ k \in Keys /\ slotOf[k] = 0 /\ k \notin ready /\ k \notin evicted
                      /\ blockIds[r][k[1]][k[2] + 1] \in Blocks
  <2> SUFFICES ASSUME NEW k \in keys
               PROVE k \in Keys /\ slotOf[k] = 0 /\ k \notin ready /\ k \notin evicted
                     /\ blockIds[r][k[1]][k[2] + 1] \in Blocks
    OBVIOUS
  <2>1. k \in Keys /\ slotOf[k] = 0 /\ blockIds[r][k[1]][k[2] + 1] \in Blocks
    <3>1. /\ blockIds \in [Requests -> Table] /\ computed \in [Requests -> Nat]
          /\ total \in [Requests -> Nat] /\ sched \in [Requests -> Nat]
      BY DEF TablesRight, TableTypes, Books, RequestsAreKnown
    <3>2. k \in StoredKeys(r)
      BY <1>0
    <3> QED
      BY <1>2, <3>1, <3>2, StoredKeysAre
  <2> QED
    BY <1>3, <2>1 DEF SlotTypes
<1>6. /\ \A k \in keys : SlotFor(r, evicted, k) \in free /\ SlotFor(r, evicted, k) \in Slots
      /\ \A k, l \in keys : SlotFor(r, evicted, k) = SlotFor(r, evicted, l) => k = l
      /\ \A k \in Keys : slotOf[k] # 0 /\ k \notin evicted => slotOf[k] \notin free
  <2>1. Cardinality(free) >= Cardinality(keys)
    BY <1>1
  <2>2. evicted \subseteq Keys
    BY <1>3
  <2>3. free = FreeSlots \cup {slotOf[l] : l \in evicted}
    BY <1>0
  <2>4. keys = StoredKeys(r)
    BY <1>0
  <2> QED
    BY <1>2, <1>4, <2>1, <2>2, <2>3, <2>4, SlotForIs
<1>7. \A m \in job.moves : \E k \in keys : /\ m = StoreMove(r, evicted, k) /\ m.key = k
                                           /\ m.block = blockIds[r][k[1]][k[2] + 1]
                                           /\ m.slot = SlotFor(r, evicted, k)
  <2>1. \A m \in job.moves : \E k \in keys : m = StoreMove(r, evicted, k)
    BY <1>0, StoreJobIs
  <2> QED
    BY <2>1, StoreMoveIs
<1>8. \A m \in job.moves : slotOf'[m.key] = m.slot
  BY <1>1, <1>5, <1>7
<1>9. \A m \in job.moves, k \in Keys : slotOf[k] # 0 /\ k \notin evicted => slotOf[k] # m.slot
  BY <1>6, <1>7
<1>10. \A k \in Keys : slotOf[k] # 0 /\ k \notin evicted => slotOf'[k] = slotOf[k]
  BY <1>1, <1>5
<1>11. StoreShape(job)
  <2>1. MovesOK(job) /\ job.req \in Requests
    <3>1. job.req = r
      BY <1>0, StoreJobIs
    <3> QED
      BY <1>2, <1>5, <1>6, <1>7, <3>1 DEF MovesOK
  <2>2. job.keys = {m.key : m \in job.moves}
    <3>1. job.keys = keys /\ \A k \in keys : StoreMove(r, evicted, k) \in job.moves
      BY <1>0, StoreJobIs
    <3>2. \A k \in keys : \E m \in job.moves : m.key = k
      BY <3>1, StoreMoveIs
    <3> QED
      BY <1>7, <3>1, <3>2
  <2>3. ASSUME NEW m \in job.moves, NEW n \in job.moves, m.key = n.key \/ m.slot = n.slot
        PROVE m = n
    <3>1. PICK k \in keys : m = StoreMove(r, evicted, k) /\ m.key = k /\ m.slot = SlotFor(r, evicted, k)
      BY <1>7
    <3>2. PICK l \in keys : n = StoreMove(r, evicted, l) /\ n.key = l /\ n.slot = SlotFor(r, evicted, l)
      BY <1>7
    <3>3. k = l
      BY <1>6, <2>3, <3>1, <3>2
    <3> QED
      BY <3>1, <3>2, <3>3
  <2>4. ASSUME NEW m \in job.moves
        PROVE  m.block \in IF m.key[1] = "sliding" THEN job.sliding ELSE job.other
    <3>1. m.key \in Keys
      BY <2>1 DEF MovesOK
    <3>2. m.key[1] = "sliding" \/ m.key[1] = "full"
      BY <3>1, KeysAre DEF Groups
    <3>3. job.sliding = BlocksFor(job.moves, "sliding") /\ job.other = BlocksFor(job.moves, "full")
      BY <1>0, StoreJobIs
    <3> QED
      BY <3>2, <3>3 DEF BlocksFor
  <2> QED
    BY <2>1, <2>2, <2>3, <2>4 DEF StoreShape
<1>12. SlotTypes'
  <2>1. NumSlots \in Nat
    BY SchedulerAssumption
  <2>2. ASSUME NEW k \in Keys PROVE slotOf'[k] \in 0..NumSlots
    BY <1>1, <1>6, <2>1 DEF SlotTypes, Slots
  <2>3. ASSUME NEW k \in Keys, NEW l \in Keys, slotOf'[k] = slotOf'[l], slotOf'[k] # 0
        PROVE  k = l
    <3>1. CASE k \in keys /\ l \in keys
      BY <1>1, <1>6, <2>3, <3>1
    <3>2. CASE k \in keys /\ l \notin keys
      <4>1. slotOf'[k] \in free
        BY <1>1, <1>6, <3>2
      <4>2. slotOf'[l] = slotOf[l] /\ slotOf[l] # 0 /\ l \notin evicted
        BY <1>1, <2>3, <3>2
      <4> QED
        BY <1>6, <2>3, <4>1, <4>2
    <3>3. CASE k \notin keys /\ l \in keys
      <4>1. slotOf'[l] \in free
        BY <1>1, <1>6, <3>3
      <4>2. slotOf'[k] = slotOf[k] /\ slotOf[k] # 0 /\ k \notin evicted
        BY <1>1, <2>3, <3>3
      <4> QED
        BY <1>6, <2>3, <4>1, <4>2
    <3>4. CASE k \notin keys /\ l \notin keys
      <4>1. slotOf'[k] = slotOf[k] /\ slotOf[k] # 0 /\ slotOf'[l] = slotOf[l]
        BY <1>1, <2>3, <3>4
      <4> QED
        BY <2>3, <4>1 DEF SlotTypes
    <3> QED
      BY <3>1, <3>2, <3>3, <3>4
  <2>4. slotOf' \in [Keys -> 0..NumSlots]
    BY <1>1, <2>2
  <2>5. ready' \subseteq Keys /\ \A k \in ready' : slotOf'[k] # 0
    BY <1>1, <1>10 DEF SlotTypes
  <2> QED
    BY <2>3, <2>4, <2>5 DEF SlotTypes
<1> QED
  BY <1>0, <1>1, <1>2, <1>3, <1>5, <1>8, <1>9, <1>10, <1>11, <1>12

\* StoreChunks: the slots of the new store are nobody else's, but for older stores
\* that a reset or an eviction has made void.
LEMMA StoreSlots ==
  ASSUME Travel, Kinds, Books, TablesRight, SlotsRight, NEW r \in Requests, NEW evicted, StoreChunks(r, evicted),
         UNCHANGED <<handlerVars, deferred, completed>>
  PROVE  SlotsRight'
<1> DEFINE job == StoreJobOf(r, evicted)
           new == NewEntry(job)
<1>1. /\ evicted \subseteq ready /\ evicted \cap Pinned = {}
      /\ \A m \in job.moves : slotOf'[m.key] = m.slot
      /\ \A m \in job.moves, k \in Keys : slotOf[k] # 0 /\ k \notin evicted => slotOf[k] # m.slot
      /\ \A k \in Keys : slotOf[k] # 0 /\ k \notin evicted => slotOf'[k] = slotOf[k]
      /\ ready' = ready \ evicted /\ StoreShape(job) /\ SlotTypes'
  BY StoreTakes DEF SlotsRight
<1>2. \A k \in StoredKeys(r) : k \in Keys /\ slotOf[k] = 0 /\ k \notin ready /\ k \notin evicted
  BY StoreTakes DEF SlotsRight
<1>3. \A m \in job.moves : slotOf[m.key] = 0 /\ m.key \notin ready /\ m.key \in Keys
  <2>1. \A m \in job.moves : \E k \in StoredKeys(r) : m = StoreMove(r, evicted, k)
    BY StoreJobIs
  <2> QED
    BY <1>2, <2>1, StoreMoveIs
<1>4. /\ phase = "build" /\ ToSave' = ToSave \cup {new} /\ ToLoad' = ToLoad /\ \A d : Sent(d)' = Sent(d)
  BY StoreJobMade, StoreSetsOut
<1>5. new.id = counter /\ new.job = job /\ job.store
  BY StoreJobIs DEF NewEntry
<1> HIDE DEF job, new
<1>6. UNCHANGED <<deferred, completed, transfers, threshold>> /\ completed = {}
  <2>1. threshold' = threshold
    BY StoreChunksIs
  <2> QED
    BY <1>4, <2>1 DEF handlerVars, Travel, InPhase
<1>7. ToCopy' = ToCopy \cup {new} /\ Stores' = Stores \cup {new} /\ Loads' = Loads
  BY <1>4, <1>6 DEF ToCopy, Stores, Loads
<1>8. /\ \A t \in UnderWay : t.id < counter
      /\ \A t \in UnderWay : Fresh(t) => t.id \in DOMAIN jobs /\ jobs[t.id] = t.job
      /\ Stores \subseteq UnderWay /\ ToLoad \subseteq UnderWay /\ ToSave \subseteq UnderWay
      /\ deferred \subseteq UnderWay /\ Sent("store") \subseteq UnderWay
  BY NumbersAre DEF UnderWay
<1>9. \A u \in Stores : Fresh(u) =>
         \A n \in u.job.moves : /\ n.key \in Keys /\ slotOf[n.key] = n.slot /\ n.slot # 0
                                /\ n.key \notin ready /\ n.key \notin evicted
                                /\ slotOf'[n.key] = n.slot
  <2> SUFFICES ASSUME NEW u \in Stores, Fresh(u), NEW n \in u.job.moves
               PROVE /\ n.key \in Keys /\ slotOf[n.key] = n.slot /\ n.slot # 0
                                /\ n.key \notin ready /\ n.key \notin evicted
                                /\ slotOf'[n.key] = n.slot
    OBVIOUS
  <2>1. slotOf[n.key] = n.slot /\ n.key \notin ready
    BY DEF SlotsRight, Owning, Owns
  <2>2. n.key \in Keys /\ n.slot \in Slots
    BY DEF SlotsRight, Shapes, StoreShape, MovesOK
  <2>3. NumSlots \in Nat
    BY SchedulerAssumption
  <2>4. n.slot # 0
    BY <2>2, <2>3 DEF Slots
  <2> QED
    BY <1>1, <2>1, <2>2, <2>4
<1>10. \A t, u \in Stores' : t = new /\ u \in Stores /\ Fresh(u) => ~Shares(t, u) /\ ~Shares(u, t)
  <2> SUFFICES ASSUME NEW u \in Stores, Fresh(u), NEW m \in job.moves, NEW n \in u.job.moves, m.slot = n.slot
               PROVE FALSE
    BY <1>5 DEF Shares
  <2> QED
    BY <1>1, <1>9
<1>11. \A u \in ToSave : Fresh(u)
  <2>1. ToSave = Entries(newStores)
    BY <1>4 DEF ToSave
  <2>2. \A u \in ToSave : u.id \in newStores
    BY <2>1 DEF Entries
  <2> QED
    BY <2>2 DEF Travel, InPhase, Numbered, Fresh
<1>12. Shapes'
  BY <1>1, <1>5, <1>7 DEF SlotsRight, Shapes
<1>13. Owning'
  <2>1. ASSUME NEW t \in Stores', Fresh(t)' PROVE Owns(t)'
    <3>1. CASE t = new
      BY <1>1, <1>3, <1>5, <3>1 DEF Owns
    <3>2. CASE t \in Stores
      <4>1. Fresh(t)
        BY <1>6, <2>1 DEF Fresh
      <4> QED
        BY <1>1, <1>9, <3>2, <4>1 DEF Owns
    <3> QED
      BY <1>7, <3>1, <3>2
  <2>2. ASSUME NEW t \in Stores', NEW u \in Stores', Fresh(t)', Fresh(u)',
               NEW m \in t.job.moves, NEW n \in u.job.moves, m.key = n.key
        PROVE  t.id = u.id
    <3>1. CASE t = new /\ u = new
      BY <3>1
    <3>2. CASE t \in Stores /\ u \in Stores
      BY <1>6, <2>2, <3>2 DEF SlotsRight, Owning, Fresh
    <3>3. CASE t = new /\ u \in Stores
      <4>1. slotOf[m.key] = 0 /\ slotOf[n.key] # 0
        BY <1>3, <1>5, <1>6, <1>9, <2>2, <3>3 DEF Fresh
      <4> QED
        BY <2>2, <4>1
    <3>4. CASE u = new /\ t \in Stores
      <4>1. slotOf[n.key] = 0 /\ slotOf[m.key] # 0
        BY <1>3, <1>5, <1>6, <1>9, <2>2, <3>4 DEF Fresh
      <4> QED
        BY <2>2, <4>1
    <3> QED
      BY <1>7, <3>1, <3>2, <3>3, <3>4
  <2> QED
    BY <2>1, <2>2 DEF Owning
<1>14. SlotOrder'
  <2>1. InTurn(transfers'["store"])
    BY <1>6 DEF SlotsRight, SlotOrder
  <2>2. \A t \in deferred', u \in Sent("store")' : Shares(t, u) => u.id < t.id
    BY <1>4, <1>6 DEF SlotsRight, SlotOrder
  <2>3. \A t \in ToSave', u \in deferred' \cup Sent("store")' : Shares(t, u) => u.id < t.id
    BY <1>4, <1>5, <1>6, <1>8 DEF SlotsRight, SlotOrder
  <2>4. \A t, u \in ToSave' : Shares(t, u) => t = u
    <3>1. \A t, u \in ToSave : Shares(t, u) => t = u
      BY DEF SlotsRight, SlotOrder
    <3>2. \A u \in ToSave : ~Shares(new, u) /\ ~Shares(u, new)
      BY <1>7, <1>10, <1>11 DEF Stores, ToCopy
    <3> QED
      BY <1>4, <3>1, <3>2
  <2>5. \A t, u \in deferred' : Shares(t, u) => t = u
    BY <1>6 DEF SlotsRight, SlotOrder
  <2> QED
    BY <2>1, <2>2, <2>3, <2>4, <2>5 DEF SlotOrder
<1>15. Clear'
  <2>1. ASSUME NEW k \in ready', NEW u \in ToCopy', NEW n \in u.job.moves, n.slot = slotOf'[k] PROVE FALSE
    <3>1. k \in ready /\ k \notin evicted /\ k \in Keys /\ slotOf[k] # 0 /\ slotOf'[k] = slotOf[k]
      BY <1>1, <2>1 DEF SlotsRight, SlotTypes
    <3>2. CASE u = new
      BY <1>1, <1>5, <2>1, <3>1, <3>2
    <3>3. CASE u \in ToCopy
      BY <2>1, <3>1, <3>3 DEF SlotsRight, Clear, Untainted
    <3> QED
      BY <1>7, <3>2, <3>3
  <2> QED
    BY <1>6, <2>1 DEF Clear, Untainted
<1>16. Reading'
  <2> SUFFICES ASSUME NEW t \in ToLoad PROVE Fresh(t)' /\ Reads(t)'
    BY <1>4 DEF Reading
  <2>1. Fresh(t) /\ Reads(t)
    BY DEF SlotsRight, Reading
  <2>2. t.id \in DOMAIN jobs /\ jobs[t.id] = t.job /\ ~t.job.store
    BY <1>8, <2>1 DEF Kinds
  <2>3. t.job.keys = {m.key : m \in t.job.moves}
    BY DEF SlotsRight, Shapes, LoadShape, Loads
  <2>4. t.job.keys \subseteq Pinned
    BY <2>2 DEF Pinned
  <2>5. \A m \in t.job.moves : m.key \in Pinned
    BY <2>3, <2>4
  <2>6. Reads(t)'
    BY <1>1, <2>1, <2>5 DEF Reads, SlotsRight, SlotTypes
  <2> QED
    BY <1>6, <2>1, <2>6 DEF Fresh
<1> QED
  BY <1>1, <1>12, <1>13, <1>14, <1>15, <1>16 DEF SlotsRight

\* Steps of the workers: jobs change places only.
Among(X, Y) == \A t \in X : \E u \in Y : t.id = u.id /\ t.job = u.job

\* Steps that move jobs on keep the slots right, if the order is kept in which the
\* stores write a slot.
LEMMA MovesKeepSlots ==
  ASSUME SlotsRight, UNCHANGED <<slotOf, ready, threshold>>,
         NEW S, S = Stores, NEW C, C = ToCopy, NEW L, L = Loads,
         Among(Stores', S), Among(ToCopy', C), Among(Loads', L), ToLoad' \subseteq ToLoad,
         SlotOrder',
         \A t \in completed' : t.job.store /\ Fresh(t) => \A m \in t.job.moves : Untainted(m.slot)'
  PROVE  SlotsRight'
<1>1. SlotTypes'
  BY DEF SlotsRight, SlotTypes
<1>2. Shapes'
  BY DEF SlotsRight, Shapes, Among
<1>3. Owning'
  <2>1. ASSUME NEW t \in Stores', Fresh(t)' PROVE Owns(t)'
    <3>1. PICK u \in Stores : t.id = u.id /\ t.job = u.job
      BY DEF Among
    <3>2. Fresh(u)
      BY <2>1, <3>1 DEF Fresh
    <3>3. Owns(u)
      BY <3>2 DEF SlotsRight, Owning
    <3> QED
      BY <3>1, <3>3 DEF Owns
  <2>2. ASSUME NEW t \in Stores', NEW u \in Stores', Fresh(t)', Fresh(u)',
               NEW m \in t.job.moves, NEW n \in u.job.moves, m.key = n.key
        PROVE  t.id = u.id
    <3>1. PICK v \in Stores : t.id = v.id /\ t.job = v.job
      BY DEF Among
    <3>2. PICK w \in Stores : u.id = w.id /\ u.job = w.job
      BY DEF Among
    <3>3. Fresh(v) /\ Fresh(w)
      BY <2>2, <3>1, <3>2 DEF Fresh
    <3> QED
      BY <2>2, <3>1, <3>2, <3>3 DEF SlotsRight, Owning
  <2> QED
    BY <2>1, <2>2 DEF Owning
<1>4. \A k \in ready : \A u \in ToCopy' : \A n \in u.job.moves : n.slot # slotOf[k]
  BY DEF SlotsRight, Clear, Untainted, Among
<1>5. Clear'
  <2>1. \A t \in completed' : t.job.store /\ Fresh(t)' => \A m \in t.job.moves : Untainted(m.slot)'
    BY DEF Fresh
  <2> QED
    BY <1>4, <2>1 DEF Clear, Untainted
<1>6. Reading'
  BY DEF SlotsRight, Reading, Reads, Fresh
<1> QED
  BY <1>1, <1>2, <1>3, <1>5, <1>6 DEF SlotsRight

\* Numbers of jobs on their way can be compared.
LEMMA NumbersCompare ==
  ASSUME Travel, NEW t \in UnderWay, NEW u \in UnderWay
  PROVE  /\ t.id \in Nat /\ u.id \in Nat /\ ~(t.id < u.id /\ u.id < t.id)
         /\ ~(t.id < t.id) /\ (t.id < u.id \/ t.id = u.id \/ u.id < t.id)
         /\ Fresh(t) /\ ~Fresh(u) => u.id < t.id
<1>1. t.id \in Nat /\ u.id \in Nat /\ threshold \in Nat
  BY NumbersAre
<1> QED
  BY <1>1 DEF Fresh

\* SubmitStores.
LEMMA SubmitSlots ==
  ASSUME Travel, Kinds, SlotsRight, SubmitStores
  PROVE  SlotsRight'
<1>1. /\ phase = "exec" /\ phase' = "flush" /\ ToSave' = {} /\ ToLoad' = ToLoad
      /\ completed = {} /\ completed' = {}
      /\ deferred' = {t \in ToSave : t.id \notin meta.flush}
      /\ transfers'["load"] = transfers["load"] /\ UNCHANGED threshold
  BY StoresSubmitted, Zenon DEF SubmitStores, conVars
<1>2. UNCHANGED <<slotOf, ready, threshold>>
  BY DEF SubmitStores, mgrVars, conVars
<1> DEFINE q == transfers["store"]
           p == transfers'["store"]
<1>3. /\ Len(q) \in Nat /\ Len(p) \in Nat /\ Len(q) <= Len(p)
      /\ DOMAIN q = 1..Len(q) /\ DOMAIN p = 1..Len(p)
      /\ \A i \in 1..Len(q) : p[i] = q[i]
      /\ \A i \in (Len(q) + 1)..Len(p) :
           \E t \in Due : p[i] = Transfer(t.id, t.job, Staged("store", t.job))
      /\ \A i, k \in (Len(q) + 1)..Len(p) : i < k => p[i].id < p[k].id
  BY StoresSubmitted DEF Submits
<1>4. \A i \in (Len(q) + 1)..Len(p) : \E t \in Due : p[i].id = t.id /\ p[i].job = t.job
  <2>1. ASSUME NEW t, NEW x PROVE Transfer(t.id, t.job, x).id = t.id /\ Transfer(t.id, t.job, x).job = t.job
    BY DEF Transfer
  <2> SUFFICES ASSUME NEW i \in (Len(q) + 1)..Len(p)
               PROVE  \E t \in Due : p[i].id = t.id /\ p[i].job = t.job
    OBVIOUS
  <2>2. PICK t \in Due : p[i] = Transfer(t.id, t.job, Staged("store", t.job))
    BY <1>3
  <2> QED
    BY <2>1, <2>2
<1>5. Sent("store")' = {p[i] : i \in 1..Len(p)} /\ Sent("store") = {q[i] : i \in 1..Len(q)}
  BY <1>3 DEF Sent, Range
<1>6. Due \subseteq ToSave \cup deferred /\ \A t \in Due : t \in deferred \/ (t \in ToSave /\ t.id \in meta.flush)
  BY DEF Due
<1>7. ToSave \subseteq UnderWay /\ deferred \subseteq UnderWay /\ Sent("store") \subseteq UnderWay
  BY DEF UnderWay
<1> HIDE DEF q, p
<1>8. \A i \in 1..Len(p) : i \in 1..Len(q) \/ i \in (Len(q) + 1)..Len(p)
  BY <1>3
<1>9. \A v \in Sent("store")' : v \in Sent("store") \/ \E t \in Due : v.id = t.id /\ v.job = t.job
  BY <1>3, <1>4, <1>5, <1>8
<1>10. /\ Among(ToCopy', ToCopy) /\ Among(Stores', Stores)
  BY <1>1, <1>6, <1>9 DEF Among, Stores, ToCopy
<1>11. Among(Loads', Loads)
  <2>1. Same(Loads, Loads')
    BY WorkersMove
  <2> QED
    BY <2>1 DEF Same, Among
<1>12. InTurn(p)
  <2> SUFFICES ASSUME NEW i \in 1..Len(p), NEW k \in 1..Len(p), Shares(p[i], p[k]), p[i].id < p[k].id
               PROVE  i < k
    BY <1>3 DEF InTurn
  <2>1. CASE i \in 1..Len(q) /\ k \in 1..Len(q)
    <3>1. InTurn(q)
      BY DEF SlotsRight, SlotOrder, q
    <3> QED
      BY <1>3, <2>1, <3>1 DEF InTurn
  <2>2. CASE i \in 1..Len(q) /\ k \in (Len(q) + 1)..Len(p)
    BY <1>3, <2>2
  <2>3. CASE i \in (Len(q) + 1)..Len(p) /\ k \in 1..Len(q)
    <3>1. PICK t \in Due : p[i].id = t.id /\ p[i].job = t.job
      BY <1>4, <2>3
    <3>2. q[k] \in Sent("store") /\ p[k] = q[k]
      BY <1>3, <1>5, <2>3
    <3>3. Shares(t, q[k])
      BY <3>1, <3>2 DEF Shares
    <3>4. q[k].id < t.id
      BY <1>6, <3>2, <3>3 DEF SlotsRight, SlotOrder
    <3>5. t \in UnderWay /\ q[k] \in UnderWay
      BY <1>6, <1>7, <3>2
    <3>6. t.id < q[k].id
      BY <3>1, <3>2
    <3> QED
      BY <3>4, <3>5, <3>6, NumbersCompare
  <2>4. CASE i \in (Len(q) + 1)..Len(p) /\ k \in (Len(q) + 1)..Len(p)
    <3>1. PICK t \in Due : p[i].id = t.id
      BY <1>4, <2>4
    <3>2. PICK u \in Due : p[k].id = u.id
      BY <1>4, <2>4
    <3>3. t \in UnderWay /\ u \in UnderWay
      BY <1>6, <1>7
    <3>4. ~(p[k].id < p[i].id) /\ p[i].id # p[k].id
      BY <3>1, <3>2, <3>3, NumbersCompare
    <3>5. ~(k < i) /\ i # k
      BY <1>3, <2>4, <3>4
    <3> QED
      BY <1>3, <2>4, <3>5
  <2> QED
    BY <1>8, <2>1, <2>2, <2>3, <2>4
<1>13. SlotOrder'
  <2>1. InTurn(transfers'["store"])
    BY <1>12 DEF p
  <2>2. ASSUME NEW t \in deferred', NEW u \in Sent("store")', Shares(t, u) PROVE u.id < t.id
    <3>1. t \in ToSave /\ t.id \notin meta.flush
      BY <1>1
    <3>2. CASE u \in Sent("store")
      BY <2>2, <3>1, <3>2 DEF SlotsRight, SlotOrder
    <3>3. CASE \E v \in Due : u.id = v.id /\ u.job = v.job
      <4>1. PICK v \in Due : u.id = v.id /\ u.job = v.job
        BY <3>3
      <4>2. Shares(t, v)
        BY <2>2, <4>1 DEF Shares
      <4>3. CASE v \in deferred
        BY <3>1, <4>1, <4>2, <4>3 DEF SlotsRight, SlotOrder
      <4>4. CASE v \in ToSave /\ v.id \in meta.flush
        BY <3>1, <4>1, <4>2, <4>4 DEF SlotsRight, SlotOrder
      <4> QED
        BY <1>6, <4>3, <4>4
    <3> QED
      BY <1>9, <3>2, <3>3
  <2>3. \A t \in ToSave', u \in deferred' \cup Sent("store")' : Shares(t, u) => u.id < t.id
    BY <1>1
  <2>4. \A t, u \in ToSave' : Shares(t, u) => t = u
    BY <1>1
  <2>5. \A t, u \in deferred' : Shares(t, u) => t = u
    BY <1>1 DEF SlotsRight, SlotOrder
  <2> QED
    BY <2>1, <2>2, <2>3, <2>4, <2>5 DEF SlotOrder
<1> QED
  BY <1>1, <1>2, <1>10, <1>11, <1>13, MovesKeepSlots

\* Forward.
LEMMA ForwardSlots ==
  ASSUME Travel, Kinds, SlotsRight, Forward
  PROVE  SlotsRight'
<1>1. /\ ToSave = {} /\ ToSave' = {} /\ ToLoad' = {} /\ completed = {} /\ completed' = {}
      /\ deferred' = deferred /\ transfers'["store"] = transfers["store"]
  BY LoadsSubmitted, SMTT(30)
<1>2. UNCHANGED <<slotOf, ready, threshold>>
  BY DEF Forward, mgrVars
<1>3. Sent("store")' = Sent("store")
  BY <1>1 DEF Sent
<1>4. ToCopy' = ToCopy /\ Stores' = Stores
  BY <1>1, <1>3 DEF ToCopy, Stores
<1>5. Among(Loads', Loads)
  <2>1. Same(Loads, Loads')
    BY WorkersMove
  <2> QED
    BY <2>1 DEF Same, Among
<1>6. SlotOrder'
  BY <1>1, <1>3 DEF SlotsRight, SlotOrder, InTurn
<1>7. Among(ToCopy', ToCopy) /\ Among(Stores', Stores)
  BY <1>4 DEF Among
<1> QED
  BY <1>1, <1>2, <1>5, <1>6, <1>7, MovesKeepSlots

\* StoreCopied.
LEMMA StoreCopySlots ==
  ASSUME Travel, Kinds, SlotsRight, GpuCopy, StoreCopied
  PROVE  SlotsRight'
<1> DEFINE q == transfers["store"]
           p == transfers'["store"]
<1>1. UNCHANGED <<phase, meta, newLoads, newStores, jobs, deferred, completed, slotOf, ready, threshold>>
  BY DEF GpuCopy, schedVars, extVars, conVars, mgrVars
<1>2. transfers'["load"] = transfers["load"] /\ \E i : Copies(q, i, p)
  BY StoreCopyIs
<1>3. /\ Len(q) \in Nat /\ DOMAIN q = 1..Len(q) /\ DOMAIN p = 1..Len(q)
      /\ \A k \in 1..Len(q) : p[k].id = q[k].id /\ p[k].job = q[k].job
  BY <1>2 DEF Copies
<1>4. ToLoad' = ToLoad /\ ToSave' = ToSave
  BY <1>1 DEF ToLoad, ToSave, Entries
<1>5. Sent("store")' = {p[k] : k \in 1..Len(q)} /\ Sent("store") = {q[k] : k \in 1..Len(q)}
      /\ Sent("load")' = Sent("load")
  BY <1>2, <1>3 DEF Sent, Range
<1>6. InTurn(q)
  BY DEF SlotsRight, SlotOrder
<1>7. q = transfers["store"] /\ p = transfers'["store"]
  OBVIOUS
<1> HIDE DEF q, p
<1>8. \A v \in Sent("store")' : \E u \in Sent("store") : v.id = u.id /\ v.job = u.job
  BY <1>3, <1>5
<1>9. Among(ToCopy', ToCopy) /\ Among(Stores', Stores) /\ Among(Loads', Loads)
  BY <1>1, <1>4, <1>5, <1>8 DEF Among, Stores, ToCopy, Loads
<1>10. SlotOrder'
  <2>1. InTurn(p)
    BY <1>3, <1>6 DEF InTurn, Shares
  <2>2. ASSUME NEW t \in deferred \cup ToSave, NEW u \in Sent("store")', Shares(t, u) PROVE u.id < t.id
    <3>1. PICK v \in Sent("store") : u.id = v.id /\ u.job = v.job
      BY <1>8
    <3>2. Shares(t, v)
      BY <2>2, <3>1 DEF Shares
    <3> QED
      BY <3>1, <3>2 DEF SlotsRight, SlotOrder
  <2>3. /\ \A t \in ToSave, u \in deferred : Shares(t, u) => u.id < t.id
        /\ \A t, u \in ToSave : Shares(t, u) => t = u
        /\ \A t, u \in deferred : Shares(t, u) => t = u
    BY DEF SlotsRight, SlotOrder
  <2> QED
    BY <1>1, <1>4, <1>7, <2>1, <2>2, <2>3 DEF SlotOrder
<1>11. \A t \in completed' : t.job.store /\ Fresh(t) => \A m \in t.job.moves : Untainted(m.slot)'
  BY <1>1, <1>9 DEF SlotsRight, Clear, Untainted, Among
<1> QED
  BY <1>1, <1>4, <1>9, <1>10, <1>11, MovesKeepSlots

\* LoadCopied.
LEMMA LoadCopySlots ==
  ASSUME Travel, Kinds, SlotsRight, GpuCopy, LoadCopied
  PROVE  SlotsRight'
<1>1. UNCHANGED <<phase, meta, newLoads, newStores, jobs, deferred, completed, slotOf, ready, threshold>>
  BY DEF GpuCopy, schedVars, extVars, conVars, mgrVars
<1>2. transfers'["store"] = transfers["store"]
  BY LoadCopyIs
<1>3. ToLoad' = ToLoad /\ ToSave' = ToSave /\ Sent("store")' = Sent("store")
  BY <1>1, <1>2 DEF ToLoad, ToSave, Entries, Sent
<1>4. ToCopy' = ToCopy /\ Stores' = Stores
  BY <1>1, <1>3 DEF Stores, ToCopy
<1>5. Among(Loads', Loads)
  <2>1. Same(Loads, Loads')
    BY WorkersMove
  <2> QED
    BY <2>1 DEF Same, Among
<1>6. SlotOrder'
  BY <1>1, <1>2, <1>3 DEF SlotsRight, SlotOrder
<1>7. Among(ToCopy', ToCopy) /\ Among(Stores', Stores)
  BY <1>4 DEF Among
<1>8. \A t \in completed' : t.job.store /\ Fresh(t) => \A m \in t.job.moves : Untainted(m.slot)'
  BY <1>1, <1>4 DEF SlotsRight, Clear, Untainted
<1> QED
  BY <1>1, <1>3, <1>5, <1>6, <1>7, <1>8, MovesKeepSlots

\* A store that is collected has its slots to itself: those before it in its slots
\* were copied before it, and no later one owns them yet.
LEMMA CollectSlots ==
  ASSUME Travel, Kinds, SlotsRight, Collect
  PROVE  SlotsRight'
<1> DEFINE q == transfers["store"]
           p == transfers'["store"]
           n == DonePrefix("store")
<1>1. /\ ToLoad' = {} /\ ToLoad = {} /\ ToSave' = {} /\ ToSave = {} /\ completed = {}
      /\ UNCHANGED <<deferred, threshold>>
  BY CollectIs
<1>2. UNCHANGED <<slotOf, ready, threshold>>
  BY DEF Collect, mgrVars, conVars
<1>3. /\ Len(q) \in Nat /\ DOMAIN q = 1..Len(q) /\ n \in 0..Len(q) /\ Len(p) = Len(q) - n
      /\ DOMAIN p = 1..(Len(q) - n) /\ \A i \in 1..(Len(q) - n) : p[i] = q[i + n]
  BY CollectIs DEF Collects, Directions
<1>4. completed' = {q[i] : i \in 1..n} \cup {transfers["load"][i] : i \in 1..DonePrefix("load")}
  BY CollectIs
<1>5. /\ Collects(transfers["load"], DonePrefix("load"), transfers'["load"])
      /\ \A t \in Sent("load") : ~t.job.store
  BY CollectIs DEF Directions, Kinds
<1>6. Sent("load") = Sent("load")' \cup {transfers["load"][i] : i \in 1..DonePrefix("load")}
  <2>1. \A x, y, z : Collects(x, y, z) => Range(x) = Range(z) \cup {x[i] : i \in 1..y}
    BY CollectsJobs
  <2> QED
    BY <1>5, <2>1 DEF Sent
<1>7. \A i \in 1..n : i \in 1..Len(q)
  BY <1>3
<1>8. Sent("store") = {q[i] : i \in 1..Len(q)} /\ Sent("store")' = {p[i] : i \in 1..(Len(q) - n)}
  BY <1>3 DEF Sent, Range
<1>9. q = transfers["store"] /\ p = transfers'["store"]
  OBVIOUS
<1>10. EachOnce(q)
  BY DEF Travel, OneWay, Moving, Queue, Directions
<1>11. InTurn(q)
  BY DEF SlotsRight, SlotOrder
<1> HIDE DEF q, p, n
<1>12. \A i \in 1..(Len(q) - n) : i + n \in 1..Len(q) /\ p[i] = q[i + n] /\ \A k \in 1..n : k < i + n
  BY <1>3
<1>13. Sent("store")' \subseteq Sent("store")
  BY <1>8, <1>12
<1>14. \A t \in completed' : t.job.store => \E i \in 1..n : t = q[i]
  BY <1>4, <1>5, <1>6
<1>15. Stores' \subseteq Stores /\ ToCopy' = deferred \cup Sent("store")' /\ ToCopy' \subseteq ToCopy
       /\ ToCopy = deferred \cup Sent("store") /\ Stores = ToCopy
  BY <1>1, <1>7, <1>8, <1>13, <1>14 DEF Stores, ToCopy
<1>16. Among(ToCopy', ToCopy) /\ Among(Stores', Stores)
  BY <1>15 DEF Among
<1>17. Among(Loads', Loads)
  <2>1. Same(Loads, Loads')
    BY WorkersMove
  <2> QED
    BY <2>1 DEF Same, Among
<1>18. SlotOrder'
  <2>1. InTurn(p)
    <3> SUFFICES ASSUME NEW i \in 1..(Len(q) - n), NEW k \in 1..(Len(q) - n),
                        Shares(p[i], p[k]), p[i].id < p[k].id
                 PROVE  i < k
      BY <1>3 DEF InTurn
    <3>1. i + n < k + n
      BY <1>3, <1>11, <1>12 DEF InTurn
    <3> QED
      BY <1>3, <3>1
  <2>2. \A t \in deferred, u \in Sent("store")' : Shares(t, u) => u.id < t.id
    BY <1>13 DEF SlotsRight, SlotOrder
  <2>3. \A t, u \in deferred : Shares(t, u) => t = u
    BY DEF SlotsRight, SlotOrder
  <2> QED
    BY <1>1, <1>9, <2>1, <2>2, <2>3 DEF SlotOrder
<1>19. ASSUME NEW t \in completed', t.job.store, Fresh(t), NEW m \in t.job.moves,
              NEW u \in ToCopy', NEW x \in u.job.moves, x.slot = m.slot
       PROVE  FALSE
  <2>1. PICK i \in 1..n : t = q[i]
    BY <1>14, <1>19
  <2>2. t \in Sent("store") /\ t \in Stores /\ u \in Stores /\ t \in UnderWay /\ u \in UnderWay
    BY <1>7, <1>8, <1>15, <2>1 DEF UnderWay
  <2>3. Shares(u, t)
    BY <1>19 DEF Shares
  <2>4. t.id # u.id
    <3>1. CASE u \in deferred
      BY <2>2, <3>1 DEF Travel, OneWay, Apart, Ids
    <3>2. CASE u \in Sent("store")'
      <4>1. PICK k \in 1..(Len(q) - n) : u = p[k]
        BY <1>8, <3>2
      <4>2. k + n \in DOMAIN q /\ i \in DOMAIN q /\ u = q[k + n] /\ k + n # i
        BY <1>3, <1>7, <1>12, <4>1
      <4> QED
        BY <1>10, <2>1, <4>2 DEF EachOnce
    <3> QED
      BY <1>15, <3>1, <3>2
  <2>5. CASE Fresh(u)
    <3>1. slotOf[m.key] = m.slot /\ slotOf[x.key] = x.slot
      BY <1>19, <2>2, <2>5 DEF SlotsRight, Owning, Owns
    <3>2. m.key \in Keys /\ x.key \in Keys /\ m.slot \in Slots
      BY <2>2 DEF SlotsRight, Shapes, StoreShape, MovesOK
    <3>3. m.slot # 0
      <4>1. NumSlots \in Nat
        BY SchedulerAssumption
      <4> QED
        BY <3>2, <4>1 DEF Slots
    <3>4. m.key = x.key
      BY <1>19, <3>1, <3>2, <3>3 DEF SlotsRight, SlotTypes
    <3> QED
      BY <1>19, <2>2, <2>4, <2>5, <3>4 DEF SlotsRight, Owning
  <2>6. CASE ~Fresh(u)
    <3>1. u.id < t.id /\ ~(t.id < u.id)
      BY <1>19, <2>2, <2>6, NumbersCompare
    <3>2. CASE u \in deferred
      BY <2>2, <2>3, <3>1, <3>2 DEF SlotsRight, SlotOrder
    <3>3. CASE u \in Sent("store")'
      <4>1. PICK k \in 1..(Len(q) - n) : u = p[k]
        BY <1>8, <3>3
      <4>2. k + n \in DOMAIN q /\ i \in DOMAIN q /\ u = q[k + n] /\ i < k + n
        BY <1>3, <1>7, <1>12, <4>1
      <4>3. k + n < i
        BY <1>11, <2>1, <2>3, <3>1, <4>2 DEF InTurn
      <4>4. k + n \in Nat /\ i \in Nat
        BY <1>3, <4>2
      <4> QED
        BY <4>2, <4>3, <4>4
    <3> QED
      BY <1>15, <3>2, <3>3
  <2> QED
    BY <2>5, <2>6
<1> QED
  BY <1>1, <1>2, <1>16, <1>17, <1>18, <1>19, MovesKeepSlots DEF Untainted

\* A completion given to the connector makes the chunks it stored ready.
LEMMA GivenIs ==
  ASSUME NEW t, GiveOutput(t)
  PROVE  /\ UNCHANGED <<slotOf, threshold>>
         /\ t.id < threshold => ready' = ready
         /\ ~(t.id < threshold) => ready' = IF jobs[t.id].store THEN ready \cup jobs[t.id].keys ELSE ready
<1>1. ConnectorOutput(t)
  BY DEF GiveOutput
<1>2. UNCHANGED <<slotOf, threshold>>
  BY <1>1, Zenon DEF ConnectorOutput
<1>3. t.id < threshold => ready' = ready
  BY <1>1, Zenon DEF ConnectorOutput
<1>4. ~(t.id < threshold) => ready' = IF jobs[t.id].store THEN ready \cup jobs[t.id].keys ELSE ready
  BY <1>1, Zenon DEF ConnectorOutput
<1> QED
  BY <1>2, <1>3, <1>4

\* GiveOutput: the chunks of a completed store are readable, and no store under way
\* writes their slots.
LEMMA GivenSlots ==
  ASSUME Travel, SlotsRight, NEW t \in completed, GiveOutput(t)
  PROVE  SlotsRight'
<1>1. /\ completed' = completed \ {t} /\ ToLoad' = ToLoad /\ ToSave' = ToSave
      /\ (\A d : Sent(d)' = Sent(d)) /\ UNCHANGED <<deferred, transfers>>
  BY OutputWays
<1>2. UNCHANGED <<slotOf, threshold>>
  BY GivenIs
<1>3. t \in UnderWay /\ completed \subseteq UnderWay /\ threshold \in Nat /\ t.id \in Nat
  BY NumbersAre DEF UnderWay
<1>4. ready' = IF Fresh(t) /\ t.job.store THEN ready \cup t.job.keys ELSE ready
  <2>1. CASE t.id < threshold
    <3>1. ready' = ready /\ ~Fresh(t)
      BY <1>3, <2>1, GivenIs DEF Fresh
    <3> QED
      BY <3>1
  <2>2. CASE ~(t.id < threshold)
    <3>1. Fresh(t)
      BY <1>3, <2>2 DEF Fresh
    <3>2. jobs[t.id] = t.job
      BY <1>3, <3>1, NumbersAre
    <3>3. ready' = IF t.job.store THEN ready \cup t.job.keys ELSE ready
      BY <2>2, <3>2, GivenIs
    <3> QED
      BY <3>1, <3>3
  <2> QED
    BY <2>1, <2>2
<1>5. ToCopy' = ToCopy /\ Loads' \subseteq Loads
  BY <1>1 DEF ToCopy, Loads
<1>6. Stores' = Stores \ ({t} \ ToCopy) /\ Stores' \subseteq Stores
  <2>1. ToCopy \subseteq Stores /\ Stores = ToCopy \cup {u \in completed : u.job.store}
    BY DEF Stores
  <2> QED
    BY <1>1, <1>5, <2>1 DEF Stores
<1>7. \A u \in Stores' : u.id # t.id
  <2>1. ASSUME NEW u \in ToCopy PROVE u.id # t.id
    BY <2>1 DEF Travel, OneWay, Apart, Ids, ToCopy
  <2>2. ASSUME NEW u \in completed, u # t PROVE u.id # t.id
    BY <2>2 DEF Travel, OneWay, Single
  <2> QED
    BY <1>1, <1>5, <2>1, <2>2 DEF Stores
<1>8. \A k : k \in ready' => k \in ready \/ (Fresh(t) /\ t.job.store /\ k \in t.job.keys)
  BY <1>4
<1>9. ready \subseteq ready'
  BY <1>4
<1>10. t.job.store => t \in Stores /\ t.job.keys = {m.key : m \in t.job.moves} /\ MovesOK(t.job)
  BY DEF SlotsRight, Shapes, StoreShape, Stores
<1>11. ASSUME NEW k \in ready', k \notin ready
       PROVE  Fresh(t) /\ t.job.store /\ t \in Stores
              /\ \E m \in t.job.moves : m.key = k /\ slotOf[k] = m.slot /\ k \in Keys /\ slotOf[k] # 0
  <2>1. Fresh(t) /\ t.job.store /\ k \in t.job.keys
    BY <1>8, <1>11
  <2>2. t \in Stores /\ \E m \in t.job.moves : m.key = k
    BY <1>10, <2>1
  <2>3. PICK m \in t.job.moves : m.key = k
    BY <2>2
  <2>4. slotOf[k] = m.slot /\ k \in Keys /\ m.slot \in Slots
    BY <1>10, <2>1, <2>2, <2>3 DEF SlotsRight, Owning, Owns, MovesOK
  <2>5. NumSlots \in Nat
    BY SchedulerAssumption
  <2>6. m.slot # 0
    BY <2>4, <2>5 DEF Slots
  <2> QED
    BY <2>1, <2>2, <2>3, <2>4, <2>6
<1>12. SlotTypes'
  <2>1. ready' \subseteq Keys /\ \A k \in ready' : slotOf[k] # 0
    BY <1>11 DEF SlotsRight, SlotTypes
  <2> QED
    BY <1>2, <2>1 DEF SlotsRight, SlotTypes
<1>13. Shapes'
  BY <1>5, <1>6 DEF SlotsRight, Shapes
<1>14. Owning'
  <2>1. ASSUME NEW u \in Stores', Fresh(u), NEW n \in u.job.moves, n.key \in ready' PROVE FALSE
    <3>1. u \in Stores /\ n.key \notin ready /\ u.id # t.id
      BY <1>6, <1>7, <2>1 DEF SlotsRight, Owning, Owns
    <3>2. Fresh(t) /\ t \in Stores /\ \E m \in t.job.moves : m.key = n.key
      BY <1>11, <2>1, <3>1
    <3> QED
      BY <2>1, <3>1, <3>2 DEF SlotsRight, Owning
  <2>2. \A u \in Stores' : Fresh(u) => \A n \in u.job.moves : slotOf[n.key] = n.slot
    BY <1>6 DEF SlotsRight, Owning, Owns
  <2>3. \A u \in Stores' : Fresh(u)' <=> Fresh(u)
    BY <1>2 DEF Fresh
  <2>4. \A u \in Stores' : Fresh(u)' => Owns(u)'
    BY <1>2, <2>1, <2>2, <2>3 DEF Owns
  <2>5. \A u, v \in Stores' : Fresh(u) /\ Fresh(v)
           => \A m \in u.job.moves, n \in v.job.moves : m.key = n.key => u.id = v.id
    BY <1>6 DEF SlotsRight, Owning
  <2> QED
    BY <2>3, <2>4, <2>5 DEF Owning
<1>15. SlotOrder'
  BY <1>1 DEF SlotsRight, SlotOrder
<1>16. Clear'
  <2>1. \A k \in ready' : Untainted(slotOf[k])
    <3> SUFFICES ASSUME NEW k \in ready' PROVE Untainted(slotOf[k])
      OBVIOUS
    <3>1. CASE k \in ready
      BY <3>1 DEF SlotsRight, Clear
    <3>2. CASE k \notin ready
      BY <1>11, <3>2 DEF SlotsRight, Clear
    <3> QED
      BY <3>1, <3>2
  <2>2. \A u \in completed' : u.job.store /\ Fresh(u) => \A m \in u.job.moves : Untainted(m.slot)
    BY <1>1 DEF SlotsRight, Clear
  <2> QED
    BY <1>2, <1>5, <2>1, <2>2 DEF Clear, Untainted, Fresh
<1>17. Reading'
  BY <1>1, <1>2, <1>9 DEF SlotsRight, Reading, Reads, Fresh
<1> QED
  BY <1>12, <1>13, <1>14, <1>15, <1>16, <1>17 DEF SlotsRight

\* Every step keeps the slots right.
LEMMA StepKeepsSlots ==
  Travel /\ Kinds /\ Books /\ TablesRight /\ SlotsRight /\ [Next]_vars => SlotsRight'
<1> SUFFICES ASSUME Travel, Kinds, Books, TablesRight, SlotsRight, [Next]_vars PROVE SlotsRight'
  OBVIOUS
<1>1. CASE Quiet /\ UNCHANGED <<handlerVars, deferred, completed>>
  BY <1>1, QuietSlots
<1>2. CASE \E r \in Requests : ScheduleLoad(r) /\ UNCHANGED <<handlerVars, deferred, completed>>
  BY <1>2, LoadSlots
<1>3. CASE \E r \in Requests : \E e \in SUBSET Evictable :
               StoreChunks(r, e) /\ UNCHANGED <<handlerVars, deferred, completed>>
  BY <1>3, StoreSlots
<1>4. CASE SubmitStores
  BY <1>4, SubmitSlots
<1>5. CASE Forward
  BY <1>5, ForwardSlots
<1>6. CASE Collect
  BY <1>6, CollectSlots
<1>7. CASE GpuCopy
  <2>1. CASE StoreCopied
    BY <1>7, <2>1, StoreCopySlots
  <2>2. CASE LoadCopied
    BY <1>7, <2>2, LoadCopySlots
  <2> QED
    BY <1>7, <2>1, <2>2 DEF GpuCopy
<1>8. CASE \E t \in completed : GiveOutput(t)
  BY <1>8, GivenSlots
<1> QED
  BY <1>1, <1>2, <1>3, <1>4, <1>5, <1>6, <1>7, <1>8, StepsAre

\* They are right when the program starts.
LEMMA InitSlots == Init => SlotsRight
<1> SUFFICES ASSUME Init PROVE SlotsRight
  OBVIOUS
<1>1. /\ slotOf = [k \in Keys |-> 0] /\ ready = {} /\ newLoads = {} /\ newStores = {}
      /\ phase = "sched" /\ deferred = {} /\ completed = {}
      /\ transfers = [d \in Directions |-> <<>>]
  BY DEF Init, SchedInit
<1>2. transfers["store"] = <<>> /\ transfers["load"] = <<>>
  BY <1>1 DEF Directions
<1>3. ToLoad = {} /\ ToSave = {} /\ Sent("store") = {} /\ Sent("load") = {}
  BY <1>1, <1>2 DEF ToLoad, ToSave, Entries, Sent, Range
<1>4. ToCopy = {} /\ Stores = {} /\ Loads = {}
  BY <1>1, <1>3 DEF ToCopy, Stores, Loads
<1>5. SlotTypes
  <2>1. NumSlots \in Nat
    BY SchedulerAssumption
  <2> QED
    BY <1>1, <2>1 DEF SlotTypes
<1>6. Shapes /\ Owning /\ Clear /\ Reading
  BY <1>1, <1>3, <1>4 DEF Shapes, Owning, Clear, Reading
<1>7. SlotOrder
  BY <1>1, <1>2, <1>3 DEF SlotOrder, InTurn
<1> QED
  BY <1>5, <1>6, <1>7 DEF SlotsRight

\* The slots of the host cache: two chunks never share one, a store that counts owns
\* its slots, stores of one slot are copied in the order they were made, none is
\* left to write a slot that is readable, and a load waiting to be submitted finds
\* its chunks where they were when it was made.
THEOREM SlotsHold == Spec => []SlotsRight
<1>1. Spec => []Travel
  BY TravelHolds
<1>2. Spec => []Kinds
  BY KindsHold
<1>3. Spec => []Books
  BY BooksHold
<1>4. Spec => []TablesRight
  BY TablesHold
<1> QED
  BY <1>1, <1>2, <1>3, <1>4, InitSlots, StepKeepsSlots, PTL DEF Spec

(***************************************************************************)
(* The jobs a step waits for.                                              *)
(***************************************************************************)

\* Stores of the step before, and of this one: the copy of the former may begin
\* before the step's blocks are computed.
Later  == ToSave \cup (IF phase = "flush" THEN deferred ELSE {})
Sooner == (IF phase = "flush" THEN {} ELSE deferred) \cup {t \in Sent("store") : ~t.done}

\* A job is waited for in this step.
Doomed(j) == \/ phase = "build" /\ j \in flush
             \/ phase \in {"exec", "flush"} /\ j \in meta.flush

\* The jobs to flush are known; of the stores made in the step they are those of
\* requests that are over, and the stores put off are not waited for.
FlushKnown == \A j \in flush : j \in Nat /\ j < counter
DoomedOver == \A t \in ToSave : Doomed(t.id) => Finished(t.job.req)
PutOff == phase = "flush" => \A t \in deferred : t.id \notin meta.flush
ToStoreKnown == phase = "build" => toStore \subseteq Scheduled \cup (finishedIds \cap tracked)
IndexTypes == nextStored \in [Requests -> [Groups -> Nat]]
Staging == \A t \in Sent("store") : DOMAIN t.staging = t.job.moves
FlushRight == FlushKnown /\ DoomedOver /\ PutOff /\ ToStoreKnown /\ IndexTypes /\ Staging

\* advance_stored_idx never goes back.
LEMMA AdvancedIs ==
  ASSUME blockIds \in [Requests -> Table], computed \in [Requests -> Nat], total \in [Requests -> Nat],
         sched \in [Requests -> Nat], IndexTypes, NEW r \in Requests
  PROVE  /\ Advanced(r) \in [Requests -> [Groups -> Nat]]
         /\ \A q \in Requests, g \in Groups : nextStored[q][g] <= Advanced(r)[q][g]
<1>1. Offloadable(r) \in Nat
  <2>1. computed[r] \in Nat /\ total[r] \in Nat /\ sched[r] \in Nat
    OBVIOUS
  <2> QED
    BY <2>1 DEF Offloadable
<1>2. \A g \in Groups : StorableChunks(r, g) \in Nat
  <2> SUFFICES ASSUME NEW g \in Groups PROVE StorableChunks(r, g) \in Nat
    OBVIOUS
  <2>1. Offloadable(r) \div TokensPerChunk \in Nat
    BY <1>1, ChunkSize, Floor
  <2>2. blockIds[r][g] \in Seq(0..NumBlocks)
    BY DEF Table
  <2>3. Len(blockIds[r][g]) \in Nat
    BY <2>2, SequenceIs
  <2> QED
    BY <2>1, <2>3 DEF StorableChunks
<1> DEFINE next == [g \in Groups |-> IF StorableChunks(r, g) > nextStored[r][g]
                                       THEN StorableChunks(r, g) ELSE nextStored[r][g]]
<1>3. Advanced(r) = [nextStored EXCEPT ![r] = next]
  BY DEF Advanced
<1>4. next \in [Groups -> Nat] /\ \A g \in Groups : nextStored[r][g] <= next[g]
  BY <1>2 DEF IndexTypes
<1> HIDE DEF next
<1>5. Advanced(r)[r] = next /\ \A q \in Requests \ {r} : Advanced(r)[q] = nextStored[q]
  BY <1>3 DEF IndexTypes
<1>6. Advanced(r) \in [Requests -> [Groups -> Nat]]
  BY <1>3, <1>4 DEF IndexTypes
<1>7. \A q \in Requests, g \in Groups : nextStored[q][g] \in Nat
  BY DEF IndexTypes
<1> QED
  BY <1>4, <1>5, <1>6, <1>7

\* Between the parts of a step nothing is doomed.
LEMMA PhaseFlush ==
  ASSUME FlushRight, phase' \in {"sched", "out", "collect"}, FlushKnown', IndexTypes', Sent("store")' = Sent("store")
  PROVE  FlushRight'
<1>1. DoomedOver'
  BY DEF DoomedOver, Doomed
<1>2. PutOff' /\ ToStoreKnown'
  BY DEF PutOff, ToStoreKnown
<1>3. Staging'
  BY DEF FlushRight, Staging
<1> QED
  BY <1>1, <1>2, <1>3 DEF FlushRight

\* The steps that move no job.
LEMMA QuietFlush ==
  ASSUME Travel, Books, TablesRight, FlushRight, Quiet, UNCHANGED <<handlerVars, deferred, completed>>
  PROVE  FlushRight'
<1>1. ToLoad' = ToLoad /\ ToSave' = ToSave /\ Sent("store")' = Sent("store")
  BY QuietWays
<1>2. ASSUME ResetCache PROVE FlushRight'
  <2>1. phase' = "sched" /\ flush' = DOMAIN jobs /\ nextStored' = [r \in Requests |-> [g \in Groups |-> 0]] /\ counter' = counter
    BY <1>2 DEF ResetCache, BetweenSteps
  <2>2. FlushKnown' /\ IndexTypes'
    BY <2>1 DEF FlushKnown, IndexTypes, Books, JobsAreKnown
  <2> QED
    BY <1>1, <2>1, <2>2, PhaseFlush
<1>3. ASSUME StartMeta PROVE FlushRight'
  <2>1. /\ phase = "sched" /\ phase' = "build" /\ toStore' = Scheduled \cup (finishedIds \cap tracked)
        /\ UNCHANGED <<sched, finishedIds, tracked, nextStored, counter>>
        /\ \A j : j \in flush' => \/ j \in flush
                                  \/ \E r \in preempted : j \in JobsOf(r)
                                  \/ \E w \in watch : w[2] = j
    BY <1>3, StartMetaIs
  <2>2. \A j : j \in flush' => j \in flush \/ j \in DOMAIN jobs
    <3>1. \A w \in watch : w[2] \in DOMAIN jobs
      <4> SUFFICES ASSUME NEW w \in watch PROVE w[2] \in DOMAIN jobs
        OBVIOUS
      <4>1. PICK b, j : w = <<b, j>>
        BY DEF Books, WatchIsPairs
      <4>2. <<b, j>> \in watch /\ w[2] = j
        BY <4>1
      <4> QED
        BY <4>2 DEF Books, WatchIsExact
    <3> QED
      BY <2>1, <3>1 DEF JobsOf
  <2>3. FlushKnown'
    BY <2>1, <2>2 DEF FlushRight, FlushKnown, Books, JobsAreKnown
  <2>4. ToSave' = {}
    BY <1>1, <2>1 DEF ToSave, Travel, InPhase, Entries
  <2>5. DoomedOver' /\ PutOff' /\ ToStoreKnown' /\ IndexTypes' /\ Staging'
    BY <1>1, <2>1, <2>4 DEF FlushRight, DoomedOver, PutOff, ToStoreKnown, IndexTypes, Staging, Scheduled
  <2> QED
    BY <2>3, <2>5 DEF FlushRight
<1>4. ASSUME EndMeta PROVE FlushRight'
  <2>1. phase = "build" /\ phase' = "exec" /\ flush' = {} /\ UNCHANGED <<status, nextStored>>
    BY <1>4 DEF EndMeta
  <2>2. meta'.flush = flush
    BY <1>4, Zenon DEF EndMeta
  <2>3. DoomedOver'
    BY <1>1, <2>1, <2>2 DEF FlushRight, DoomedOver, Doomed, Finished
  <2> QED
    BY <1>1, <2>1, <2>3 DEF FlushRight, FlushKnown, PutOff, ToStoreKnown, IndexTypes, Staging
<1>5. ASSUME EndStep PROVE FlushRight'
  <2>1. phase' = "sched" /\ UNCHANGED <<flush, nextStored, counter>>
    BY <1>5 DEF EndStep, conVars
  <2>2. FlushKnown' /\ IndexTypes'
    BY <2>1 DEF FlushRight, FlushKnown, IndexTypes
  <2> QED
    BY <1>1, <2>1, <2>2, PhaseFlush
<1>6. ASSUME UNCHANGED vars PROVE FlushRight'
  BY <1>1, <1>6 DEF vars, schedVars, extVars, conVars, FlushRight, FlushKnown, DoomedOver, Doomed, PutOff,
                    ToStoreKnown, Scheduled, IndexTypes, Staging, Finished
<1>7. ASSUME NEW r \in Requests, OnNewRequest(r) \/ GetMatchedWaits(r) \/ Preempt(r) \/ Abort(r)
      PROVE FlushRight'
  <2>1. phase' = "sched" /\ UNCHANGED <<flush, nextStored, counter>>
    BY <1>7 DEF OnNewRequest, GetMatchedWaits, Preempt, Abort, BetweenSteps, extVars, conVars
  <2>2. FlushKnown' /\ IndexTypes'
    BY <2>1 DEF FlushRight, FlushKnown, IndexTypes
  <2> QED
    BY <1>1, <2>1, <2>2, PhaseFlush
<1>8. ASSUME NEW r \in Requests, NEW n \in 1..MaxTokens, ScheduleWaiting(r, n) \/ ScheduleRunning(r, n)
      PROVE FlushRight'
  <2>1. phase' = "sched" /\ UNCHANGED <<flush, nextStored, counter>>
    BY <1>8 DEF ScheduleWaiting, ScheduleRunning, conVars
  <2>2. FlushKnown' /\ IndexTypes'
    BY <2>1 DEF FlushRight, FlushKnown, IndexTypes
  <2> QED
    BY <1>1, <2>1, <2>2, PhaseFlush
<1>9. ASSUME NEW r \in Requests, StoreNothing(r) \/ StoreRefused(r) PROVE FlushRight'
  <2>1. UNCHANGED <<phase, status, flush, counter, meta, deferred, sched, finishedIds, tracked>> /\ toStore' \subseteq toStore
        /\ (nextStored' = Advanced(r) \/ nextStored' = nextStored)
    BY <1>9 DEF StoreNothing, StoreRefused, extVars
  <2>2. IndexTypes'
    <3>1. /\ blockIds \in [Requests -> Table] /\ computed \in [Requests -> Nat]
          /\ total \in [Requests -> Nat] /\ sched \in [Requests -> Nat]
      BY DEF TablesRight, TableTypes, Books, RequestsAreKnown
    <3>2. Advanced(r) \in [Requests -> [Groups -> Nat]]
      BY <3>1, AdvancedIs DEF FlushRight
    <3> QED
      BY <2>1, <3>2 DEF FlushRight, IndexTypes
  <2>3. FlushKnown' /\ DoomedOver' /\ PutOff' /\ Staging'
    BY <1>1, <2>1 DEF FlushRight, FlushKnown, DoomedOver, Doomed, PutOff, Staging, Finished
  <2>4. ToStoreKnown'
    BY <2>1 DEF FlushRight, ToStoreKnown, Scheduled
  <2> QED
    BY <2>2, <2>3, <2>4 DEF FlushRight
<1>10. ASSUME NEW r \in Requests, NEW stops \in BOOLEAN, RequestOutput(r, stops) PROVE FlushRight'
  <2>1. phase' = "out" /\ UNCHANGED <<flush, nextStored, counter>>
    BY <1>10, Zenon DEF RequestOutput
  <2>2. FlushKnown' /\ IndexTypes'
    BY <2>1 DEF FlushRight, FlushKnown, IndexTypes
  <2> QED
    BY <1>1, <2>1, <2>2, PhaseFlush
<1> QED
  BY <1>2, <1>3, <1>4, <1>5, <1>6, <1>7, <1>8, <1>9, <1>10, Zenon DEF Quiet

\* StoreChunks: only a request that is over has its new store flushed at once.
LEMMA StoreFlush ==
  ASSUME Travel, Books, TablesRight, FlushRight, NEW r \in Requests, NEW evicted, StoreChunks(r, evicted),
         UNCHANGED <<handlerVars, deferred, completed>>
  PROVE  FlushRight'
<1> DEFINE job == StoreJobOf(r, evicted)
           new == NewEntry(job)
<1>1. /\ phase = "build" /\ ToSave' = ToSave \cup {new} /\ \A d : Sent(d)' = Sent(d)
  BY StoreJobMade, StoreSetsOut
<1>2. new.id = counter /\ new.job.req = r
  BY StoreJobIs DEF NewEntry
<1>3. /\ toStore' = toStore \ {r} /\ nextStored' = Advanced(r)
      /\ UNCHANGED <<phase, status, sched, finishedIds, tracked>>
      /\ \A j : j \in flush' => j \in flush \/ (j = counter /\ Finished(r))
      /\ flush \subseteq flush'
  <2>1. flush' = flush \cup (IF Finished(r) /\ BlocksFor(StoreMoves(r, evicted), "full") \cap allocated # {}
                               THEN {counter} ELSE {})
    BY StoreChunksIs
  <2>2. \A j : j \in flush' => j \in flush \/ (j = counter /\ Finished(r))
    BY <2>1, Zenon
  <2>3. flush \subseteq flush'
    BY <2>1
  <2>4. toStore' = toStore \ {r} /\ nextStored' = Advanced(r) /\ UNCHANGED extVars  /\ UNCHANGED tracked
    BY StoreChunksIs
  <2> QED
    BY <2>2, <2>3, <2>4 DEF extVars
<1> HIDE DEF new, job
<1>4. counter' = counter + 1 /\ counter \in Nat
  <2>1. counter' = counter + 1
    BY Zenon DEF StoreChunks
  <2> QED
    BY <2>1, NumbersAre
<1>5. FlushKnown'
  BY <1>3, <1>4 DEF FlushRight, FlushKnown
<1>6. DoomedOver'
  <2> SUFFICES ASSUME NEW t \in ToSave', t.id \in flush' PROVE Finished(t.job.req)'
    BY <1>1, <1>3 DEF DoomedOver, Doomed
  <2>1. CASE t = new
    <3>1. counter \notin flush
      BY <1>4 DEF FlushRight, FlushKnown
    <3>2. Finished(r)
      BY <1>2, <1>3, <2>1, <3>1
    <3> QED
      BY <1>2, <1>3, <2>1, <3>2 DEF Finished
  <2>2. CASE t \in ToSave
    <3>1. t.id # counter
      BY <2>2, NumbersAre DEF UnderWay
    <3>2. t.id \in flush
      BY <1>3, <3>1
    <3> QED
      BY <1>1, <1>3, <2>2, <3>2 DEF FlushRight, DoomedOver, Doomed, Finished
  <2> QED
    BY <1>1, <2>1, <2>2
<1>7. PutOff' /\ Staging'
  BY <1>1, <1>3 DEF FlushRight, PutOff, Staging
<1>8. ToStoreKnown'
  BY <1>3 DEF FlushRight, ToStoreKnown, Scheduled
<1>9. IndexTypes'
  <2>1. /\ blockIds \in [Requests -> Table] /\ computed \in [Requests -> Nat]
        /\ total \in [Requests -> Nat] /\ sched \in [Requests -> Nat]
    BY DEF TablesRight, TableTypes, Books, RequestsAreKnown
  <2>2. Advanced(r) \in [Requests -> [Groups -> Nat]]
    BY <2>1, AdvancedIs DEF FlushRight
  <2> QED
    BY <1>3, <2>2 DEF IndexTypes
<1> QED
  BY <1>5, <1>6, <1>7, <1>8, <1>9 DEF FlushRight

\* ScheduleLoad.
LEMMA LoadFlush ==
  ASSUME Travel, Books, TablesRight, FlushRight, NEW r \in Requests, ScheduleLoad(r),
         UNCHANGED <<handlerVars, deferred, completed>>
  PROVE  FlushRight'
<1>1. Sent("store")' = Sent("store")
  BY LoadJobMade, LoadSetsOut
<1>2. counter' = counter + 1 /\ counter \in Nat
  <2>1. counter' = counter + 1
    BY Zenon DEF ScheduleLoad
  <2> QED
    BY <2>1, NumbersAre
<1>3. /\ phase' = "sched" /\ flush' = flush /\ LongestHit(r) \in Nat
      /\ nextStored' = [nextStored EXCEPT ![r] = [g \in Groups |-> LongestHit(r)]]
  BY ScheduleLoadIs
<1>4. FlushKnown'
  BY <1>2, <1>3 DEF FlushRight, FlushKnown
<1>5. IndexTypes'
  BY <1>3 DEF FlushRight, IndexTypes
<1> QED
  BY <1>1, <1>3, <1>4, <1>5, PhaseFlush

\* SubmitStores: a store that is to be flushed is not put off.
LEMMA SubmitFlush ==
  ASSUME Travel, FlushRight, SubmitStores
  PROVE  FlushRight'
<1>1. /\ phase = "exec" /\ phase' = "flush" /\ ToSave' = {}
      /\ deferred' = {t \in ToSave : t.id \notin meta.flush}
      /\ Submits(transfers["store"], Due, "store", transfers'["store"])
      /\ UNCHANGED <<meta, counter>>
  BY StoresSubmitted
<1>2. UNCHANGED <<flush, nextStored, toStore>>
  BY DEF SubmitStores, conVars
<1>3. FlushKnown' /\ DoomedOver' /\ PutOff' /\ ToStoreKnown' /\ IndexTypes'
  BY <1>1, <1>2 DEF FlushRight, FlushKnown, DoomedOver, PutOff, ToStoreKnown, IndexTypes
<1>4. Staging'
  <2> DEFINE q == transfers["store"]
             p == transfers'["store"]
  <2>1. /\ Len(q) \in Nat /\ DOMAIN q = 1..Len(q) /\ DOMAIN p = 1..Len(p) /\ Len(p) \in Nat
        /\ \A i \in 1..Len(q) : p[i] = q[i]
        /\ \A i \in (Len(q) + 1)..Len(p) : \E t \in Due : p[i] = Transfer(t.id, t.job, Staged("store", t.job))
    BY <1>1 DEF Submits
  <2>2. Sent("store")' = {p[i] : i \in 1..Len(p)} /\ Sent("store") = {q[i] : i \in 1..Len(q)}
    BY <2>1 DEF Sent, Range
  <2> HIDE DEF q, p
  <2> SUFFICES ASSUME NEW i \in 1..Len(p) PROVE DOMAIN p[i].staging = p[i].job.moves
    BY <2>2 DEF Staging
  <2>3. CASE i \in 1..Len(q)
    BY <2>1, <2>2, <2>3 DEF FlushRight, Staging
  <2>4. CASE i \in (Len(q) + 1)..Len(p)
    <3>1. PICK t \in Due : p[i] = Transfer(t.id, t.job, Staged("store", t.job))
      BY <2>1, <2>4
    <3>2. p[i].staging = Staged("store", t.job) /\ p[i].job = t.job
      BY <3>1 DEF Transfer
    <3>3. DOMAIN Staged("store", t.job) = t.job.moves
      BY DEF Staged
    <3> QED
      BY <3>2, <3>3
  <2> QED
    BY <2>1, <2>3, <2>4
<1> QED
  BY <1>3, <1>4 DEF FlushRight

\* Forward, Collect and the GPU's copies.
LEMMA WorkFlush ==
  ASSUME Travel, FlushRight, Forward \/ Collect \/ GpuCopy
  PROVE  FlushRight'
<1>1. ASSUME Forward PROVE FlushRight'
  <2>1. /\ phase' = "collect" /\ transfers'["store"] = transfers["store"] /\ counter' = counter
    BY <1>1, LoadsSubmitted, SMTT(30)
  <2>2. UNCHANGED <<flush, nextStored>>
    BY <1>1 DEF Forward
  <2>3. Sent("store")' = Sent("store") /\ FlushKnown' /\ IndexTypes'
    BY <2>1, <2>2 DEF Sent, FlushRight, FlushKnown, IndexTypes
  <2> QED
    BY <2>1, <2>3, PhaseFlush
<1>2. ASSUME Collect PROVE FlushRight'
  <2>1. phase' = "out" /\ counter' = counter /\ Collects(transfers["store"], DonePrefix("store"), transfers'["store"])
    BY <1>2, CollectIs DEF Directions
  <2>2. UNCHANGED <<flush, nextStored>>
    BY <1>2 DEF Collect, conVars
  <2>3. Sent("store")' \subseteq Sent("store")
    <3>1. \A x, y, z : Collects(x, y, z) => Range(x) = Range(z) \cup {x[i] : i \in 1..y}
      BY CollectsJobs
    <3> QED
      BY <2>1, <3>1 DEF Sent
  <2>4. FlushKnown' /\ IndexTypes' /\ Staging'
    BY <2>1, <2>2, <2>3 DEF FlushRight, FlushKnown, IndexTypes, Staging
  <2>5. DoomedOver' /\ PutOff' /\ ToStoreKnown'
    BY <2>1 DEF DoomedOver, Doomed, PutOff, ToStoreKnown
  <2> QED
    BY <2>4, <2>5 DEF FlushRight
<1>3. ASSUME GpuCopy PROVE FlushRight'
  <2>1. UNCHANGED <<phase, meta, newLoads, newStores, jobs, deferred, flush, counter, nextStored, toStore,
                    status, sched, finishedIds, tracked>>
    BY <1>3 DEF GpuCopy, schedVars, extVars, conVars
  <2>2. ToSave' = ToSave
    BY <2>1 DEF ToSave, Entries
  <2>3. FlushKnown' /\ DoomedOver' /\ PutOff' /\ ToStoreKnown' /\ IndexTypes'
    BY <2>1, <2>2 DEF FlushRight, FlushKnown, DoomedOver, Doomed, PutOff, ToStoreKnown, IndexTypes, Scheduled, Finished
  <2>4. ASSUME StoreCopied PROVE Staging'
    <3> DEFINE q == transfers["store"]
               p == transfers'["store"]
    <3>1. PICK i : Copies(q, i, p) /\ p[i].staging = [m \in DOMAIN q[i].staging |-> gpu[m.block]]
      BY <2>4, StoreCopyIs
    <3>2. /\ DOMAIN q = 1..Len(q) /\ DOMAIN p = 1..Len(q) /\ i \in 1..Len(q)
          /\ p[i].job = q[i].job /\ DOMAIN p[i].staging = DOMAIN q[i].staging
          /\ \A k \in 1..Len(q) : k # i => p[k] = q[k]
      BY <3>1 DEF Copies
    <3>3. Sent("store")' = {p[k] : k \in 1..Len(q)} /\ Sent("store") = {q[k] : k \in 1..Len(q)}
      BY <3>2 DEF Sent, Range
    <3> HIDE DEF q, p
    <3>4. \A k \in 1..Len(q) : DOMAIN q[k].staging = q[k].job.moves
      BY <3>3 DEF FlushRight, Staging
    <3>5. \A k \in 1..Len(q) : DOMAIN p[k].staging = p[k].job.moves
      BY <3>2, <3>4
    <3> QED
      BY <3>3, <3>5 DEF Staging
  <2>5. ASSUME LoadCopied PROVE Staging'
    <3>1. transfers'["store"] = transfers["store"]
      BY <2>5, LoadCopyIs
    <3> QED
      BY <3>1 DEF FlushRight, Staging, Sent
  <2> QED
    BY <1>3, <2>3, <2>4, <2>5 DEF FlushRight, GpuCopy
<1> QED
  BY <1>1, <1>2, <1>3

\* GiveOutput.
LEMMA GivenFlush ==
  ASSUME Travel, FlushRight, NEW t \in completed, GiveOutput(t)
  PROVE  FlushRight'
<1>1. phase' = "out" /\ Sent("store")' = Sent("store")
  BY OutputWays
<1>2. ConnectorOutput(t)
  BY DEF GiveOutput
<1>3. UNCHANGED <<flush, nextStored, counter>>
  BY <1>2, Zenon DEF ConnectorOutput
<1>4. FlushKnown' /\ IndexTypes'
  BY <1>3 DEF FlushRight, FlushKnown, IndexTypes
<1> QED
  BY <1>1, <1>4, PhaseFlush

\* Every step keeps it.
LEMMA StepKeepsFlush == Travel /\ Books /\ TablesRight /\ FlushRight /\ [Next]_vars => FlushRight'
<1> SUFFICES ASSUME Travel, Books, TablesRight, FlushRight, [Next]_vars PROVE FlushRight'
  OBVIOUS
<1>1. ASSUME Quiet, UNCHANGED <<handlerVars, deferred, completed>> PROVE FlushRight'
  BY <1>1, QuietFlush
<1>2. ASSUME NEW r \in Requests, ScheduleLoad(r), UNCHANGED <<handlerVars, deferred, completed>> PROVE FlushRight'
  BY <1>2, LoadFlush
<1>3. ASSUME NEW r \in Requests, NEW e \in SUBSET Evictable, StoreChunks(r, e),
             UNCHANGED <<handlerVars, deferred, completed>>
      PROVE FlushRight'
  BY <1>3, StoreFlush
<1>4. ASSUME SubmitStores PROVE FlushRight'
  BY <1>4, SubmitFlush
<1>5. ASSUME Forward \/ Collect \/ GpuCopy PROVE FlushRight'
  BY <1>5, WorkFlush
<1>6. ASSUME NEW t \in completed, GiveOutput(t) PROVE FlushRight'
  BY <1>6, GivenFlush
<1> QED
  BY <1>1, <1>2, <1>3, <1>4, <1>5, <1>6, StepsAre, Zenon

\* It holds when the program starts.
LEMMA InitFlush == Init => FlushRight
<1> SUFFICES ASSUME Init PROVE FlushRight
  OBVIOUS
<1>1. /\ flush = {} /\ phase = "sched" /\ nextStored = [r \in Requests |-> [g \in Groups |-> 0]]
      /\ transfers = [d \in Directions |-> <<>>]
  BY DEF Init, SchedInit
<1>2. Sent("store") = {}
  BY <1>1 DEF Sent, Range, Directions
<1> QED
  BY <1>1, <1>2 DEF FlushRight, FlushKnown, DoomedOver, Doomed, PutOff, ToStoreKnown, IndexTypes, Staging

\* The flush set names known jobs, of this step's stores only those of requests that
\* are over, and a store the worker puts off is not one the step waits for.
THEOREM FlushHolds == Spec => []FlushRight
  BY InitFlush, StepKeepsFlush, TravelHolds, BooksHold, TablesHold, PTL DEF Spec

(***************************************************************************)
(* The contents.  A block of a running request holds its text.  A store    *)
(* about to read a block finds its chunk there: the block is its running   *)
(* request's and full by then, or was given up full, and nobody writes it  *)
(* but one the worker lets wait for the store.  The blocks the connector's *)
(* copies of the tables offer for storing are like that too, so a new      *)
(* store claims only such blocks.                                          *)
(***************************************************************************)

Filled(cuts, k, n) == IF Full(k, n) THEN Chunk(cuts, k) ELSE {Data(k, n - k[2] * TokensPerChunk)}
Done(r) == computed[r] + (IF phase \in {"collect", "out"} THEN sched[r] ELSE 0)

\* A running request's blocks hold its text.
TextOf(cuts, r) ==
  status[r] = "running" =>
     \A k \in Keys : k[2] + 1 \in DOMAIN held[r][k[1]] /\ held[r][k[1]][k[2] + 1] # 0 /\ Begun(k, Done(r))
        => gpu[held[r][k[1]][k[2] + 1]] \in Filled(cuts, k, Done(r))
Texts(cuts) == \A r \in Requests : TextOf(cuts, r)

\* What is copied is the chunk, in the slots, the staging buffers and the blocks.
Copied(cuts) ==
  /\ DOMAIN gpu = Blocks /\ DOMAIN cpu = Slots
  /\ \A k \in ready : cpu[slotOf[k]] \in Chunk(cuts, k)
  /\ \A t \in completed : \A m \in t.job.moves :
       IF t.job.store THEN Fresh(t) => cpu[m.slot] \in Chunk(cuts, m.key) ELSE gpu[m.block] \in Chunk(cuts, m.key)
  /\ \A t \in Sent("store") : t.done /\ Fresh(t) => \A m \in t.job.moves : t.staging[m] \in Chunk(cuts, m.key)
  /\ \A t \in Sent("load") : \A m \in t.job.moves :
       IF t.done THEN gpu[m.block] \in Chunk(cuts, m.key) ELSE t.staging[m] \in Chunk(cuts, m.key)

\* A block is in a table; in that of a request that writes it in this step; and has
\* come there in this step.
Given(q) == sched[q] # 0 \/ \E t \in ToLoad : t.job.req = q
In(b, q) == \E g \in Groups : \E i \in DOMAIN held[q][g] : held[q][g][i] = b
Taken(b) == \E q \in Requests : In(b, q)
TakenByGiven(b) == \E q \in Requests : Given(q) /\ In(b, q)
New(b, q) ==
  \/ \E g \in Groups : \E i \in DOMAIN held[q][g] : FreshBlock(q, g, i, b)
  \/ b \in allocated /\ In(b, q) /\ \E t \in ToLoad : t.job.req = q
Settled(b) == Taken(b) => \E q \in Requests : New(b, q)

\* A block a store is about to read is its running request's, and is full before it
\* is read.  Or the request has given it up, it is full, and nobody writes it but
\* one the worker lets wait for the store.
Watched(job, m) == m.key[1] = "sliding" \/ Finished(job.req)
Owned(job, m, n) ==
  status[job.req] = "running" /\ Own(job.req, m.key, m.block) /\ Full(m.key, n)
Left(cuts, j, job, m) ==
  /\ gpu[m.block] \in Chunk(cuts, m.key)
  /\ phase = "sched" => (Watched(job, m) \/ job.req \in preempted) /\ Settled(m.block)
  /\ phase \in {"build", "exec", "flush"} =>
        /\ Watched(job, m) \/ Doomed(j)
        /\ Taken(m.block) => Doomed(j) /\ TakenByGiven(m.block)
  /\ phase \notin {"sched", "build", "exec", "flush"} => Watched(job, m) /\ ~Taken(m.block)
Claims(cuts) ==
  /\ \A t \in Later : Fresh(t) => \A m \in t.job.moves :
       Owned(t.job, m, Reach(t.job.req)) \/ Left(cuts, t.id, t.job, m)
  /\ \A t \in Sooner : Fresh(t) => \A m \in t.job.moves :
       Owned(t.job, m, Done(t.job.req)) \/ Left(cuts, t.id, t.job, m)

\* The blocks of which a store may be made, and what they hold.
MayStore(r) == \/ status[r] = "running"
               \/ Finished(r) /\ r \in finishedIds \cap tracked /\ (phase = "build" => r \in toStore)
Offered(r, k) ==
  /\ nextStored[r][k[1]] <= k[2] /\ k[2] + 1 \in DOMAIN blockIds[r][k[1]]
  /\ blockIds[r][k[1]][k[2] + 1] # 0
  /\ \/ status[r] = "running" \/ Full(k, computed[r])
     \/ status[r] = "stopped" /\ Full(k, computed[r] + 1)
Spare(cuts, r, k, b) ==
  /\ gpu[b] \in Chunk(cuts, k) /\ (k[1] = "sliding" \/ Finished(r))
  /\ phase = "sched" => Settled(b)
  /\ phase = "build" /\ Taken(b) => Finished(r) /\ k[1] = "full" /\ b \in allocated /\ TakenByGiven(b)
  /\ phase \notin {"sched", "build"} => ~Taken(b)
OfferOf(cuts, r) ==
  MayStore(r) => \A k \in Keys : Offered(r, k) =>
     \/ status[r] = "running" /\ Own(r, k, blockIds[r][k[1]][k[2] + 1])
     \/ Spare(cuts, r, k, blockIds[r][k[1]][k[2] + 1])
Offers(cuts) == \A r \in Requests : OfferOf(cuts, r)

Contents(cuts) == Texts(cuts) /\ Copied(cuts) /\ Claims(cuts) /\ Offers(cuts)

\* A block is in one table, in one place.
LEMMA OneOwner ==
  ASSUME Exclusive, NEW b \in Blocks, NEW q \in Requests, NEW p \in Requests, In(b, q), In(b, p)
  PROVE  q = p
<1>1. b # 0
  BY SchedulerAssumption DEF Blocks
<1> QED
  BY <1>1 DEF In, Exclusive

\* The block of a chunk is in the table.
LEMMA OwnIsIn ==
  ASSUME NEW r, NEW b, NEW k \in Keys, Own(r, k, b)
  PROVE  In(b, r)
  BY KeysAre DEF Own, In

\* And nowhere else in it.
LEMMA OnePlace ==
  ASSUME Exclusive, NEW b \in Blocks, NEW q \in Requests, NEW k \in Keys, Own(q, k, b),
         NEW g \in Groups, NEW i \in DOMAIN held[q][g], held[q][g][i] = b
  PROVE  g = k[1] /\ i = k[2] + 1
<1>1. b # 0 /\ k[1] \in Groups
  BY SchedulerAssumption, KeysAre DEF Blocks
<1>2. k[2] + 1 \in DOMAIN held[q][k[1]] /\ held[q][k[1]][k[2] + 1] = b
  BY DEF Own
<1> QED
  BY <1>1, <1>2 DEF Exclusive

\* A block that has come to a table is in it.
LEMMA NewIsIn ==
  ASSUME NEW q, NEW b, New(b, q)
  PROVE  In(b, q)
  BY DEF New, In, FreshBlock

\* A step of vLLM's scheduler for a request with nothing scheduled yet: the blocks
\* its table gets are new.
Grown(r) ==
  \A b \in Blocks, g \in Groups : \A i \in DOMAIN held'[r][g] : held'[r][g][i] = b =>
     \/ i \in DOMAIN held[r][g] /\ held[r][g][i] = b
     \/ New(b, r)'
SchedStep(r) ==
  /\ phase = "sched" /\ phase' = "sched" /\ sched[r] = 0 /\ \A t \in ToLoad : t.job.req # r
  /\ \A q \in Requests \ {r} : Untouched(q) /\ nextStored'[q] = nextStored[q]
  /\ allocated \subseteq allocated' /\ ToLoad \subseteq ToLoad' /\ Grown(r)
  /\ preempted \subseteq preempted' /\ finishedIds' \subseteq finishedIds \cup {r} /\ tracked' \subseteq tracked \cup {r}
  /\ Finished(r) => Finished(r)'
  /\ ToSave' = ToSave /\ \A d : Sent(d)' = Sent(d)
  /\ UNCHANGED <<gpu, cpu, slotOf, ready, threshold, deferred, completed>>

\* Scheduling a request takes new blocks only: a block somebody has come by in this
\* step stays so, and one that the request gives up is free or comes to somebody.
LEMMA SchedSettles ==
  ASSUME Exclusive, Exclusive', NEW r \in Requests, SchedStep(r)
  PROVE  /\ \A b \in Blocks : Settled(b) => Settled(b)'
         /\ \A b \in Blocks, k \in Keys : Own(r, k, b) /\ ~Own(r, k, b)' => Settled(b)'
<1>1. \A b : ~New(b, r)
  BY DEF SchedStep, New, FreshBlock
<1>2. \A b \in Blocks : In(b, r)' => New(b, r)' \/ \E g \in Groups : \E i \in DOMAIN held[r][g] :
                          held[r][g][i] = b /\ i \in DOMAIN held'[r][g] /\ held'[r][g][i] = b
  <2> SUFFICES ASSUME NEW b \in Blocks, In(b, r)'
               PROVE  New(b, r)' \/ \E g \in Groups : \E i \in DOMAIN held[r][g] :
                          held[r][g][i] = b /\ i \in DOMAIN held'[r][g] /\ held'[r][g][i] = b
    OBVIOUS
  <2>1. PICK g \in Groups : \E i \in DOMAIN held'[r][g] : held'[r][g][i] = b
    BY DEF In
  <2>2. PICK i \in DOMAIN held'[r][g] : held'[r][g][i] = b
    BY <2>1
  <2>3. (i \in DOMAIN held[r][g] /\ held[r][g][i] = b) \/ New(b, r)'
    BY <2>1, <2>2 DEF SchedStep, Grown
  <2> QED
    BY <2>1, <2>2, <2>3
<1>3. \A b \in Blocks : In(b, r)' => New(b, r)' \/ In(b, r)
  BY <1>2 DEF In
<1>4. ASSUME NEW q \in Requests \ {r} PROVE held'[q] = held[q] /\ sched'[q] = sched[q] /\ blockIds'[q] = blockIds[q]
  BY DEF SchedStep, Untouched
<1>5. ASSUME NEW q \in Requests \ {r}, NEW b PROVE (In(b, q)' <=> In(b, q)) /\ (New(b, q) => New(b, q)')
  BY <1>4, <1>5 DEF In, New, FreshBlock, SchedStep
<1>6. ASSUME NEW b \in Blocks, Settled(b) PROVE Settled(b)'
  <2> SUFFICES ASSUME NEW q \in Requests, In(b, q)' PROVE \E p \in Requests : New(b, p)'
    BY DEF Settled, Taken
  <2>1. CASE New(b, q)'
    BY <2>1
  <2>2. CASE ~New(b, q)'
    <3>1. In(b, q)
      BY <1>3, <1>5, <2>2
    <3>2. PICK p \in Requests : New(b, p)
      BY <1>6, <3>1 DEF Settled, Taken
    <3>3. p # r
      BY <1>1, <3>2
    <3> QED
      BY <1>5, <3>2, <3>3
  <2> QED
    BY <2>1, <2>2
<1>7. ASSUME NEW b \in Blocks, NEW k \in Keys, Own(r, k, b), ~Own(r, k, b)' PROVE Settled(b)'
  <2> SUFFICES ASSUME NEW q \in Requests, In(b, q)', ~New(b, q)' PROVE FALSE
    BY DEF Settled, Taken
  <2>1. In(b, q) /\ In(b, r)
    BY <1>3, <1>5, <1>7, OwnIsIn
  <2>2. q = r
    BY <2>1, OneOwner
  <2>3. PICK g \in Groups : \E i \in DOMAIN held[r][g] :
                          held[r][g][i] = b /\ i \in DOMAIN held'[r][g] /\ held'[r][g][i] = b
    BY <1>2, <2>2
  <2>4. PICK i \in DOMAIN held[r][g] : held[r][g][i] = b /\ i \in DOMAIN held'[r][g] /\ held'[r][g][i] = b
    BY <2>3
  <2>5. g = k[1] /\ i = k[2] + 1
    BY <1>7, <2>4, OnePlace
  <2> QED
    BY <1>7, <2>4, <2>5 DEF Own
<1> QED
  BY <1>6, <1>7

\* A full chunk is begun, and whole.
LEMMA WholeIsBegun ==
  ASSUME NEW cuts, NEW k \in Keys, NEW n \in Nat, Full(k, n)
  PROVE  Begun(k, n) /\ Filled(cuts, k, n) = Chunk(cuts, k)
<1>1. k[2] \in Nat
  BY KeysAre
<1>2. k[2] * TokensPerChunk \in Nat /\ (k[2] + 1) * TokensPerChunk = k[2] * TokensPerChunk + TokensPerChunk
  BY <1>1, ChunkSize, Products
<1> QED
  BY <1>2, ChunkSize DEF Full, Begun, Filled

\* More tokens.
LEMMA FullGrows ==
  ASSUME NEW k \in Keys, NEW m \in Nat, NEW n \in Nat, m <= n, Full(k, m)
  PROVE  Full(k, n)
<1>1. k[2] \in Nat
  BY KeysAre
<1>2. k[2] + 1 \in Nat
  BY <1>1
<1>3. (k[2] + 1) * TokensPerChunk \in Nat
  BY <1>2, ChunkSize, Products
<1> QED
  BY <1>3 DEF Full

\* The token counts of a request in a step.
LEMMA CountsAre ==
  ASSUME TablesRight, Books, NEW r \in Requests
  PROVE  computed[r] \in Nat /\ sched[r] \in Nat /\ Done(r) \in Nat /\ Reach(r) \in Nat
         /\ computed[r] <= Done(r) /\ Done(r) <= Reach(r) /\ computed[r] <= Reach(r)
<1>1. computed[r] \in Nat /\ sched[r] \in Nat
  BY DEF TablesRight, TableTypes, Books, RequestsAreKnown
<1> QED
  BY <1>1 DEF Done, Reach

\* A full chunk of a running request is in its block.
LEMMA OwnedIsWhole ==
  ASSUME NEW cuts, TablesRight, Books, NEW r \in Requests, TextOf(cuts, r), status[r] = "running",
         NEW k \in Keys, NEW b \in Blocks, Own(r, k, b), Full(k, Done(r))
  PROVE  gpu[b] \in Chunk(cuts, k)
<1>1. b # 0
  BY SchedulerAssumption DEF Blocks
<1>2. Begun(k, Done(r)) /\ Filled(cuts, k, Done(r)) = Chunk(cuts, k)
  BY CountsAre, WholeIsBegun
<1> QED
  BY <1>1, <1>2 DEF Own, TextOf

\* The moves of stores still to be read.
LEMMA MovesAre ==
  ASSUME SlotsRight, NEW t \in Later \cup Sooner, NEW m \in t.job.moves
  PROVE  t.job.req \in Requests /\ m.key \in Keys /\ m.block \in Blocks /\ m.slot \in Slots
         /\ t \in Stores /\ t \in ToCopy
<1>1. t \in ToCopy /\ t \in Stores
  BY DEF Later, Sooner, ToCopy, Stores
<1> QED
  BY <1>1 DEF SlotsRight, Shapes, StoreShape, MovesOK

\* Steps that write nothing and move no job.
LEMMA CopiedKept ==
  ASSUME NEW cuts, Copied(cuts), UNCHANGED <<gpu, cpu, slotOf, ready, threshold, completed>>,
         \A d : Sent(d)' = Sent(d)
  PROVE  Copied(cuts)'
  BY DEF Copied, Fresh

\* What becomes of the request's blocks: it runs on, giving up blocks of the sliding
\* window; or it has none any more.
Fate(r) ==
  status[r] = "running" =>
    \/ /\ status'[r] = "running" /\ computed'[r] = computed[r]
       /\ \A b \in Blocks, k \in Keys : Own(r, k, b) /\ ~Own(r, k, b)' => k[1] = "sliding"
    \/ /\ r \in preempted' \/ Finished(r)'
       /\ \A b \in Blocks : ~In(b, r)'

\* Scheduling a request: the stores under way find what they are to read.
LEMMA SchedClaims ==
  ASSUME NEW cuts, Travel, TablesRight, Books, TablesRight', SlotsRight, Texts(cuts), Claims(cuts),
         NEW r \in Requests, SchedStep(r), Fate(r)
  PROVE  Claims(cuts)'
<1>1. Exclusive /\ Exclusive'
  BY DEF TablesRight
<1>2. /\ phase = "sched" /\ phase' = "sched" /\ preempted \subseteq preempted' /\ (Finished(r) => Finished(r)')
      /\ UNCHANGED <<gpu, threshold, deferred>> /\ ToSave' = ToSave /\ \A d : Sent(d)' = Sent(d)
      /\ \A q \in Requests \ {r} : Untouched(q)
  BY DEF SchedStep
<1>3. Later' = Later /\ Sooner' = Sooner
  BY <1>2 DEF Later, Sooner
<1>4. \A q \in Requests : Finished(q) => Finished(q)'
  BY <1>2 DEF Finished, Untouched
<1>5. ASSUME NEW q \in Requests, NEW k \in Keys, NEW b \in Blocks, NEW n,
             status[q] = "running", Own(q, k, b), Full(k, n), n = computed[q]
      PROVE  \/ status'[q] = "running" /\ Own(q, k, b)' /\ computed'[q] = computed[q]
             \/ gpu[b] \in Chunk(cuts, k) /\ Settled(b)' /\ (k[1] = "sliding" \/ Finished(q)' \/ q \in preempted')
  <2>1. CASE q # r
    <3>1. Untouched(q)
      BY <1>2, <2>1
    <3> QED
      BY <1>5, <3>1 DEF Untouched, Own
  <2>2. CASE q = r
    <3>1. gpu[b] \in Chunk(cuts, k)
      <4>1. Done(q) = computed[q]
        BY <1>2, CountsAre DEF Done
      <4> QED
        BY <1>5, <4>1, OwnedIsWhole DEF Texts
    <3>2. CASE /\ status'[r] = "running" /\ computed'[r] = computed[r]
               /\ \A c \in Blocks, l \in Keys : Own(r, l, c) /\ ~Own(r, l, c)' => l[1] = "sliding"
      <4>1. ~Own(r, k, b)' => Settled(b)'
        BY <1>1, <1>5, <2>2, SchedSettles
      <4> QED
        BY <1>5, <2>2, <3>1, <3>2, <4>1
    <3>3. CASE (r \in preempted' \/ Finished(r)') /\ \A c \in Blocks : ~In(c, r)'
      <4>1. ~Own(r, k, b)'
        BY <3>3, KeysAre DEF Own, In
      <4>2. Settled(b)'
        BY <1>1, <1>5, <2>2, <4>1, SchedSettles
      <4> QED
        BY <2>2, <3>1, <3>3, <4>2
    <3> QED
      BY <1>5, <2>2, <3>2, <3>3 DEF Fate
  <2> QED
    BY <2>1, <2>2
<1>6. ASSUME NEW t \in Later \cup Sooner, NEW m \in t.job.moves, Left(cuts, t.id, t.job, m)
      PROVE  Left(cuts, t.id, t.job, m)'
  <2>1. m.block \in Blocks /\ t.job.req \in Requests
    BY MovesAre
  <2>2. gpu[m.block] \in Chunk(cuts, m.key) /\ (Watched(t.job, m) \/ t.job.req \in preempted) /\ Settled(m.block)
    BY <1>2, <1>6 DEF Left
  <2>3. (Watched(t.job, m) => Watched(t.job, m)') /\ Settled(m.block)'
    BY <1>1, <1>4, <2>1, <2>2, SchedSettles DEF Watched
  <2> QED
    BY <1>2, <2>2, <2>3 DEF Left
<1>7. ASSUME NEW t \in Later \cup Sooner, NEW m \in t.job.moves, Owned(t.job, m, computed[t.job.req])
      PROVE  Owned(t.job, m, computed[t.job.req])' \/ Left(cuts, t.id, t.job, m)'
  <2> DEFINE q == t.job.req
             k == m.key
             b == m.block
  <2>1. q \in Requests /\ k \in Keys /\ b \in Blocks
    BY MovesAre
  <2>2. status[q] = "running" /\ Own(q, k, b) /\ Full(k, computed[q])
    BY <1>7 DEF Owned
  <2>3. \/ status'[q] = "running" /\ Own(q, k, b)' /\ computed'[q] = computed[q]
        \/ gpu[b] \in Chunk(cuts, k) /\ Settled(b)' /\ (k[1] = "sliding" \/ Finished(q)' \/ q \in preempted')
    BY <1>5, <2>1, <2>2
  <2>4. CASE status'[q] = "running" /\ Own(q, k, b)' /\ computed'[q] = computed[q]
    BY <2>2, <2>4 DEF Owned, Full
  <2>5. CASE gpu[b] \in Chunk(cuts, k) /\ Settled(b)' /\ (k[1] = "sliding" \/ Finished(q)' \/ q \in preempted')
    BY <1>2, <2>5 DEF Left, Watched
  <2> QED
    BY <2>3, <2>4, <2>5
<1>8. Later = {}
  <2>1. ToSave = {}
    BY <1>2 DEF ToSave, Entries, Travel, InPhase
  <2> QED
    BY <1>2, <2>1 DEF Later
<1>9. ASSUME NEW t \in Sooner, NEW m \in t.job.moves, Fresh(t)
      PROVE  Owned(t.job, m, Done(t.job.req))' \/ Left(cuts, t.id, t.job, m)'
  <2>1. t.job.req \in Requests
    BY MovesAre
  <2>2. Done(t.job.req) = computed[t.job.req]
    BY <1>2, <2>1, CountsAre DEF Done
  <2>3. Owned(t.job, m, computed[t.job.req]) \/ Left(cuts, t.id, t.job, m)
    BY <1>9, <2>2 DEF Claims
  <2>4. Owned(t.job, m, computed[t.job.req])' \/ Left(cuts, t.id, t.job, m)'
    BY <1>6, <1>7, <2>3
  <2>5. computed'[t.job.req] \in Nat
    BY <2>1 DEF TablesRight, TableTypes
  <2>6. Done(t.job.req)' = computed'[t.job.req]
    BY <1>2, <2>5 DEF Done
  <2> QED
    BY <2>4, <2>6 DEF Owned
<1> QED
  BY <1>2, <1>3, <1>8, <1>9 DEF Claims, Fresh

\* The block of a chunk that is offered for storing is a block.
LEMMA OfferedIs ==
  ASSUME TablesRight, NEW r \in Requests, NEW k \in Keys, Offered(r, k)
  PROVE  blockIds[r][k[1]][k[2] + 1] \in Blocks
<1>1. /\ k[2] + 1 \in DOMAIN blockIds[r][k[1]] /\ blockIds[r][k[1]][k[2] + 1] # 0
  BY DEF Offered
<1>2. blockIds[r][k[1]] \in Seq(0..NumBlocks)
  BY KeysAre DEF TablesRight, TableTypes, Table
<1>3. blockIds[r][k[1]][k[2] + 1] \in 0..NumBlocks
  BY <1>1, <1>2, SequenceIs
<1>4. NumBlocks \in Nat
  BY SchedulerAssumption
<1> QED
  BY <1>1, <1>3, <1>4 DEF Blocks

\* Scheduling a request: what the others offer stays as it was.
LEMMA SchedOffers ==
  ASSUME NEW cuts, TablesRight, TablesRight', Offers(cuts), NEW r \in Requests, SchedStep(r), OfferOf(cuts, r)'
  PROVE  Offers(cuts)'
<1>1. /\ phase = "sched" /\ phase' = "sched" /\ gpu' = gpu
      /\ finishedIds' \subseteq finishedIds \cup {r} /\ tracked' \subseteq tracked \cup {r}
      /\ \A q \in Requests \ {r} : Untouched(q) /\ nextStored'[q] = nextStored[q]
  BY DEF SchedStep
<1>2. Exclusive /\ Exclusive'
  BY DEF TablesRight
<1>3. ASSUME NEW q \in Requests, q # r PROVE OfferOf(cuts, q)'
  <2>1. /\ status'[q] = status[q] /\ computed'[q] = computed[q] /\ held'[q] = held[q]
        /\ blockIds'[q] = blockIds[q] /\ nextStored'[q] = nextStored[q]
    BY <1>1, <1>3 DEF Untouched
  <2>2. MayStore(q)' => MayStore(q)
    BY <1>1, <1>3, <2>1 DEF MayStore, Finished
  <2> SUFFICES ASSUME MayStore(q), NEW k \in Keys, Offered(q, k), NEW b \in Blocks,
                      b = blockIds[q][k[1]][k[2] + 1]
               PROVE  (status'[q] = "running" /\ Own(q, k, b)') \/ Spare(cuts, q, k, b)'
    <3>1. ASSUME MayStore(q)', NEW k \in Keys, Offered(q, k)'
          PROVE  \/ status'[q] = "running" /\ Own(q, k, blockIds[q][k[1]][k[2] + 1])'
                 \/ Spare(cuts, q, k, blockIds[q][k[1]][k[2] + 1])'
      <4>1. Offered(q, k)
        BY <2>1, <3>1 DEF Offered, Full
      <4>2. blockIds[q][k[1]][k[2] + 1] \in Blocks
        BY <4>1, OfferedIs
      <4>3. PICK b \in Blocks : b = blockIds[q][k[1]][k[2] + 1]
        BY <4>2
      <4>4. (status'[q] = "running" /\ Own(q, k, b)') \/ Spare(cuts, q, k, b)'
        BY <2>2, <3>1, <4>1, <4>3
      <4>5. b = blockIds'[q][k[1]][k[2] + 1]
        BY <2>1, <4>3
      <4>6. CASE status'[q] = "running" /\ Own(q, k, b)'
        BY <4>5, <4>6 DEF Own
      <4>7. CASE Spare(cuts, q, k, b)'
        <5>1. Settled(blockIds[q][k[1]][k[2] + 1])'
          <6>1. Settled(b)'
            BY <1>1, <4>7 DEF Spare
          <6> QED
            BY <4>5, <6>1 DEF Settled, Taken, In, New, FreshBlock
        <5>2. gpu'[blockIds'[q][k[1]][k[2] + 1]] \in Chunk(cuts, k)'
          BY <4>5, <4>7 DEF Spare
        <5>3. (k[1] = "sliding" \/ Finished(q)')
          BY <4>7 DEF Spare
        <5> QED
          BY <1>1, <5>1, <5>2, <5>3 DEF Spare
      <4> QED
        BY <4>4, <4>6, <4>7
    <3> QED
      BY <3>1, SMTT(30) DEF OfferOf
  <2>3. CASE status[q] = "running" /\ Own(q, k, b)
    BY <2>1, <2>3 DEF Own
  <2>4. CASE Spare(cuts, q, k, b)
    <3>1. gpu[b] \in Chunk(cuts, k) /\ (k[1] = "sliding" \/ Finished(q)) /\ Settled(b)
      BY <1>1, <2>4 DEF Spare
    <3>2. Settled(b)'
      BY <1>2, <3>1, SchedSettles
    <3> QED
      BY <1>1, <2>1, <3>1, <3>2 DEF Spare, Full, Finished
  <2> QED
    BY <2>3, <2>4 DEF Offers, OfferOf
<1> QED
  BY <1>3 DEF Offers

\* Scheduling a request keeps the contents right, if they are for the request itself.
LEMMA SchedContents ==
  ASSUME NEW cuts, Travel, Books, TablesRight, TablesRight', SlotsRight, Contents(cuts), NEW r \in Requests,
         SchedStep(r), Fate(r), TextOf(cuts, r)', OfferOf(cuts, r)'
  PROVE  Contents(cuts)'
<1>1. Texts(cuts)'
  <2> SUFFICES ASSUME NEW q \in Requests, q # r PROVE TextOf(cuts, q)'
    BY DEF Texts
  <2>1. /\ Untouched(q) /\ gpu' = gpu /\ phase = "sched" /\ phase' = "sched"
    BY DEF SchedStep
  <2>2. Done(q)' = Done(q)
    BY <2>1 DEF Done, Untouched
  <2> QED
    BY <2>1, <2>2 DEF Contents, Texts, TextOf, Untouched, Filled, Begun, Full
<1>2. Copied(cuts)'
  BY CopiedKept DEF Contents, SchedStep
<1>3. Claims(cuts)'
  BY SchedClaims DEF Contents
<1>4. Offers(cuts)'
  BY SchedOffers DEF Contents
<1> QED
  BY <1>1, <1>2, <1>3, <1>4 DEF Contents

\* An entry of a table that is not null is a block.
LEMMA TableBlock ==
  ASSUME NEW table \in Table, NEW k \in Keys, k[2] + 1 \in DOMAIN table[k[1]], table[k[1]][k[2] + 1] # 0
  PROVE  table[k[1]][k[2] + 1] \in Blocks
<1>1. table[k[1]] \in Seq(0..NumBlocks)
  BY KeysAre DEF Table
<1>2. table[k[1]][k[2] + 1] \in 0..NumBlocks
  BY <1>1, SequenceIs
<1>3. NumBlocks \in Nat
  BY SchedulerAssumption
<1> QED
  BY <1>2, <1>3 DEF Blocks

\* A step may leave the table as it is,
LEMMA TablesStay ==
  ASSUME NEW r, held'[r] = held[r]
  PROVE  Grown(r)
  BY DEF Grown

\* or give all of it up.
LEMMA TablesGo ==
  ASSUME NEW r \in Requests, held \in [Requests -> Table], held' = [held EXCEPT ![r] = NoBlocks]
  PROVE  Grown(r) /\ \A b : ~In(b, r)'
<1>1. held'[r] = NoBlocks
  OBVIOUS
<1>2. \A g \in Groups : DOMAIN held'[r][g] = {}
  BY <1>1 DEF NoBlocks
<1> QED
  BY <1>2 DEF Grown, In

\* A request that neither loads nor was aborted waits for no load.
LEMMA NoLoadOut ==
  ASSUME TablesRight, NEW r, status[r] \notin {"loading", "aborted"}
  PROVE  \A t \in ToLoad : t.job.req # r
  BY NoLoadOf DEF Loads

\* A request comes, waits, or loses its blocks to others.
LEMMA ComeContents ==
  ASSUME NEW cuts, Travel, Books, TablesRight, SlotsRight, Contents(cuts), NEW r \in Requests,
         OnNewRequest(r) \/ GetMatchedWaits(r) \/ Preempt(r), UNCHANGED <<handlerVars, deferred, completed>>
  PROVE  Contents(cuts)'
<1>0. Quiet
  BY Zenon DEF Quiet
<1>1. /\ ToLoad' = ToLoad /\ ToSave' = ToSave /\ (\A d : Sent(d)' = Sent(d))
      /\ UNCHANGED <<deferred, completed, transfers, gpu, cpu>>
  BY <1>0, QuietWays
<1>2. TablesRight'
  BY <1>0, QuietTables
<1>3. /\ status \in [Requests -> Statuses] /\ held \in [Requests -> Table] /\ blockIds \in [Requests -> Table]
      /\ computed \in [Requests -> Nat]
  BY DEF Books, RequestsAreKnown, TablesRight, TableTypes
<1>4. phase = "sched" /\ phase' = "sched" /\ UNCHANGED <<sched, total, nextStored, allocated, finishedIds, slotOf, ready, threshold>>
  BY DEF OnNewRequest, GetMatchedWaits, Preempt, BetweenSteps, extVars, conVars, mgrVars
<1>5. /\ status[r] \in {"new", "waiting", "running"} /\ sched[r] = 0
      /\ preempted \subseteq preempted' /\ tracked' \subseteq tracked \cup {r}
  <2>1. status[r] = "running" => sched[r] = 0
    BY DEF OnNewRequest, GetMatchedWaits, Preempt
  <2>2. status[r] # "running" => sched[r] = 0
    BY DEF Books, RequestsAreKnown
  <2> QED
    BY <2>1, <2>2 DEF OnNewRequest, GetMatchedWaits, Preempt, extVars, conVars
<1>6. \A q \in Requests \ {r} : Untouched(q) /\ nextStored'[q] = nextStored[q]
  BY <1>3, <1>4 DEF OnNewRequest, GetMatchedWaits, Preempt, extVars, conVars, Untouched
<1>7. Grown(r) /\ Fate(r) /\ status'[r] = "waiting" /\ ~Finished(r)
  <2>1. CASE OnNewRequest(r) \/ GetMatchedWaits(r)
    <3>1. held'[r] = held[r] /\ status[r] # "running" /\ status'[r] = "waiting" /\ ~Finished(r)
      BY <1>3, <2>1 DEF OnNewRequest, GetMatchedWaits, extVars, Finished
    <3> QED
      BY <3>1, TablesStay DEF Fate
  <2>2. CASE Preempt(r)
    <3>1. held' = [held EXCEPT ![r] = NoBlocks] /\ r \in preempted' /\ status'[r] = "waiting" /\ ~Finished(r)
      BY <1>3, <2>2 DEF Preempt, Finished
    <3> QED
      BY <1>3, <3>1, TablesGo DEF Fate
  <2> QED
    BY <2>1, <2>2
<1>8. \A t \in ToLoad : t.job.req # r
  BY <1>5, NoLoadOut
<1>9. SchedStep(r)
  BY <1>1, <1>4, <1>5, <1>6, <1>7, <1>8 DEF SchedStep
<1>10. TextOf(cuts, r)' /\ OfferOf(cuts, r)'
  BY <1>7 DEF TextOf, OfferOf, MayStore, Finished
<1> QED
  BY <1>2, <1>7, <1>9, <1>10, SchedContents

\* Abort: the request's blocks are watched for its stores, or stay with its load.
LEMMA AbortContents ==
  ASSUME NEW cuts, Travel, Books, TablesRight, SlotsRight, Contents(cuts), NEW r \in Requests, Abort(r),
         UNCHANGED <<handlerVars, deferred, completed>>
  PROVE  Contents(cuts)'
<1>0. Quiet
  BY Zenon DEF Quiet
<1>1. /\ ToLoad' = ToLoad /\ ToSave' = ToSave /\ (\A d : Sent(d)' = Sent(d))
      /\ UNCHANGED <<deferred, completed, transfers, gpu, cpu>>
  BY <1>0, QuietWays
<1>2. TablesRight' /\ Exclusive /\ Exclusive'
  BY <1>0, QuietTables DEF TablesRight
<1>3. /\ status \in [Requests -> Statuses] /\ held \in [Requests -> Table] /\ blockIds \in [Requests -> Table]
      /\ computed \in [Requests -> Nat]
  BY DEF Books, RequestsAreKnown, TablesRight, TableTypes
<1>4. /\ phase = "sched" /\ phase' = "sched" /\ newLoads = {} /\ sched[r] = 0 /\ status[r] \in {"waiting", "loading", "running"}
      /\ UNCHANGED <<sched, computed, total, blockIds, nextStored, allocated, preempted, slotOf, ready, threshold, tracked>>
      /\ finishedIds' = finishedIds \cup {r} /\ status' = [status EXCEPT ![r] = "aborted"]
      /\ held' = IF status[r] = "loading" THEN held ELSE [held EXCEPT ![r] = NoBlocks]
  BY DEF Abort, BetweenSteps, RequestFinished, mgrVars
<1>5. \A q \in Requests \ {r} : Untouched(q) /\ nextStored'[q] = nextStored[q]
  BY <1>3, <1>4 DEF Untouched
<1>6. ToLoad = {}
  BY <1>4 DEF ToLoad, Entries
<1>7. status'[r] = "aborted" /\ Finished(r)' /\ ~Finished(r)
  BY <1>3, <1>4 DEF Finished
<1>8. Grown(r) /\ Fate(r) /\ (status[r] = "running" => \A b : ~In(b, r)')
  BY <1>3, <1>4, <1>7, TablesStay, TablesGo DEF Fate
<1>9. SchedStep(r)
  BY <1>1, <1>4, <1>5, <1>6, <1>7, <1>8 DEF SchedStep
<1>10. TextOf(cuts, r)'
  BY <1>7 DEF TextOf
<1>11. ASSUME MayStore(r)', NEW k \in Keys, Offered(r, k)', NEW b \in Blocks, b = blockIds[r][k[1]][k[2] + 1]
       PROVE  Spare(cuts, r, k, b)'
  <2>1. /\ nextStored[r][k[1]] <= k[2] /\ k[2] + 1 \in DOMAIN blockIds[r][k[1]]
        /\ blockIds[r][k[1]][k[2] + 1] # 0 /\ Full(k, computed[r])
    BY <1>4, <1>7, <1>11 DEF Offered, Full
  <2>2. k[1] \in Groups /\ k[2] \in Nat
    BY KeysAre
  <2>3. status[r] = "running"
    <3>1. CASE status[r] = "waiting"
      <4>1. computed[r] = 0
        BY <3>1 DEF TablesRight, CountsOf
      <4>2. Full(k, 0)
        BY <2>1, <4>1
      <4>3. Begun(k, 0)
        BY <4>2, WholeIsBegun
      <4>4. k[2] * TokensPerChunk \in Nat
        BY <2>2, ChunkSize, Products
      <4> QED
        BY <4>3, <4>4 DEF Begun
    <3>2. CASE status[r] = "loading"
      <4>1. Len(blockIds[r][k[1]]) = 0
        BY <2>2, <3>2 DEF TablesRight, TablesOf
      <4>2. blockIds[r][k[1]] \in Seq(0..NumBlocks)
        BY <1>3, <2>2 DEF Table
      <4>3. k[2] + 1 \in 1..0
        BY <2>1, <4>1, <4>2, SequenceIs
      <4> QED
        BY <4>3
    <3> QED
      BY <1>4, <3>1, <3>2
  <2>4. Offered(r, k) /\ MayStore(r)
    BY <2>1, <2>3 DEF Offered, MayStore
  <2>5. Own(r, k, b) \/ Spare(cuts, r, k, b)
    BY <1>11, <2>4 DEF Contents, Offers, OfferOf
  <2>6. gpu[b] \in Chunk(cuts, k) /\ Settled(b)'
    <3>1. CASE Own(r, k, b)
      <4>1. Done(r) = computed[r]
        BY <1>4, CountsAre DEF Done
      <4>2. gpu[b] \in Chunk(cuts, k)
        BY <2>1, <2>3, <3>1, <4>1, OwnedIsWhole DEF Contents, Texts
      <4>3. ~Own(r, k, b)'
        BY <1>8, <2>2, <2>3 DEF Own, In
      <4>4. Settled(b)'
        BY <1>2, <1>9, <3>1, <4>3, SchedSettles
      <4> QED
        BY <4>2, <4>4
    <3>2. CASE Spare(cuts, r, k, b)
      BY <1>2, <1>4, <1>9, <3>2, SchedSettles DEF Spare
    <3> QED
      BY <2>5, <3>1, <3>2
  <2> QED
    BY <1>1, <1>4, <1>7, <2>1, <2>6 DEF Spare, Full
<1>12. OfferOf(cuts, r)'
  <2> SUFFICES ASSUME MayStore(r)', NEW k \in Keys, Offered(r, k)'
               PROVE  Spare(cuts, r, k, blockIds[r][k[1]][k[2] + 1])'
    BY DEF OfferOf
  <2>1. blockIds'[r][k[1]][k[2] + 1] \in Blocks
    <3>1. k[2] + 1 \in DOMAIN blockIds'[r][k[1]] /\ blockIds'[r][k[1]][k[2] + 1] # 0
      BY DEF Offered
    <3>2. blockIds'[r] \in Table
      BY <1>3, <1>4
    <3> QED
      BY <3>1, <3>2, TableBlock
  <2>2. PICK b \in Blocks : b = blockIds[r][k[1]][k[2] + 1]
    BY <1>4, <2>1
  <2>3. Spare(cuts, r, k, b)' /\ b = blockIds'[r][k[1]][k[2] + 1]
    BY <1>4, <1>11, <2>2
  <2> QED
    BY <2>3 DEF Spare, Settled, Taken, In, New, FreshBlock
<1> QED
  BY <1>2, <1>8, <1>9, <1>10, <1>12, SchedContents

(***************************************************************************)
(* The contents, step by step: scheduling.                                 *)
(***************************************************************************)

\* No chunk is begun with no token computed.
LEMMA NothingBegun ==
  ASSUME NEW k \in Keys
  PROVE  ~Begun(k, 0)
<1>1. k[2] \in Nat
  BY KeysAre
<1>2. k[2] * TokensPerChunk \in Nat
  BY <1>1, ChunkSize, Products
<1> QED
  BY <1>2 DEF Begun

\* ScheduleWaiting and ScheduleRunning: the window moves on, and the tables grow.
LEMMA MoreContents ==
  ASSUME NEW cuts, Travel, Books, TablesRight, SlotsRight, Contents(cuts), NEW r \in Requests,
         NEW n \in 1..MaxTokens,
         ScheduleMore(r, n), UNCHANGED <<handlerVars, deferred, completed>>
  PROVE  Contents(cuts)'
<1>0. Quiet
  BY Zenon DEF Quiet, ScheduleMore
<1>1. /\ ToLoad' = ToLoad /\ ToSave' = ToSave /\ (\A d : Sent(d)' = Sent(d))
      /\ UNCHANGED <<deferred, completed, transfers, gpu, cpu>>
  BY <1>0, QuietWays
<1>2. TablesRight' /\ Exclusive /\ Exclusive'
  BY <1>0, QuietTables DEF TablesRight
<1>3. /\ status \in [Requests -> Statuses] /\ held \in [Requests -> Table] /\ blockIds \in [Requests -> Table]
      /\ computed \in [Requests -> Nat] /\ sched \in [Requests -> Nat]
  BY DEF Books, RequestsAreKnown, TablesRight, TableTypes
<1> DEFINE c == computed[r]
           len == ChunksIn(c + n)
<1>4. /\ status[r] \in {"waiting", "running"} /\ sched[r] = 0 /\ n \in Nat /\ n # 0
      /\ c \in Nat /\ c + n \in Nat
      /\ status' = [status EXCEPT ![r] = "running"] /\ sched' = [sched EXCEPT ![r] = n]
      /\ \A g \in Groups : Len(held[r][g]) <= len
      /\ UNCHANGED <<computed, total, allocated, preempted, phase>> /\ phase = "sched"
  BY MoreIs
<1>5. \/ status[r] = "waiting" /\ computed[r] = 0 /\ blockIds' = [blockIds EXCEPT ![r] = NoBlocks]
      \/ status[r] = "running" /\ blockIds' = blockIds
  BY MoreIs
<1>6. Allocation(r, c, c + n).fits /\ held' = [held EXCEPT ![r] = Allocation(r, c, c + n).table]
  BY MoreIs
<1>7. c <= c + n
  BY <1>4
<1>a. computed[r] <= computed[r] + n /\ computed[r] \in Nat /\ computed[r] + n \in Nat
  BY <1>4
<1>b. \A g \in Groups : Len(held[r][g]) <= ChunksIn(computed[r] + n)
  BY <1>4
<1>d. /\ \A g \in Groups : Len(held'[r][g]) = ChunksIn(computed[r] + n) /\ DOMAIN held'[r][g] = 1..ChunksIn(computed[r] + n)
      /\ \A g \in Groups, i \in 1..ChunksIn(computed[r] + n) :
              /\ Behind(g, i, computed[r]) => held'[r][g][i] = 0
              /\ ~Behind(g, i, computed[r]) /\ i <= Len(held[r][g]) => held'[r][g][i] = held[r][g][i]
  <2> DEFINE m == computed[r] + n
  <2>1. m = computed[r] + n
    OBVIOUS
  <2> HIDE DEF m, c, len
  <2>2. computed[r] <= m /\ computed[r] \in Nat /\ m \in Nat
    BY <1>a, <2>1
  <2>3. \A g \in Groups : Len(held[r][g]) <= ChunksIn(m)
    BY <1>b, <2>1
  <2>4. Allocation(r, computed[r], m).fits /\ held' = [held EXCEPT ![r] = Allocation(r, computed[r], m).table]
    BY <1>6, <2>1 DEF c
  <2>5. held \in [Requests -> Table] /\ Exclusive
    BY <1>2, <1>3
  <2> DEFINE table == Allocation(r, computed[r], m).table
  <2>7. /\ table \in Table /\ \A g \in Groups : Len(table[g]) = ChunksIn(m)
        /\ \A g \in Groups, i \in 1..ChunksIn(m) :
              /\ Behind(g, i, computed[r]) => table[g][i] = 0
              /\ ~Behind(g, i, computed[r]) /\ i <= Len(held[r][g]) => table[g][i] = held[r][g][i]
    BY <2>2, <2>3, <2>4, <2>5, AllocationIs
  <2>8. held'[r] = table
    BY <2>4, <2>5
  <2> HIDE DEF table
  <2>9. \A g \in Groups : DOMAIN table[g] = 1..ChunksIn(m)
    BY <2>7 DEF Table
  <2> QED
    BY <2>1, <2>7, <2>8, <2>9
<1>8. /\ \A g \in Groups : Len(held'[r][g]) = len /\ DOMAIN held'[r][g] = 1..len
      /\ \A g \in Groups, i \in 1..len :
              /\ Behind(g, i, c) => held'[r][g][i] = 0
              /\ ~Behind(g, i, c) /\ i <= Len(held[r][g]) => held'[r][g][i] = held[r][g][i]
  BY <1>d
<1>9. c = computed[r] /\ held'[r] = Allocation(r, c, c + n).table /\ \A q \in Requests \ {r} : held'[q] = held[q]
  BY <1>3, <1>6
<1> HIDE DEF c, len
<1>10. UNCHANGED <<nextStored, finishedIds, tracked, slotOf, ready, threshold>>
  BY DEF ScheduleMore, ScheduleWaiting, ScheduleRunning, conVars, mgrVars
<1>11. \A q \in Requests \ {r} : Untouched(q) /\ nextStored'[q] = nextStored[q]
  BY <1>3, <1>4, <1>5, <1>9, <1>10 DEF Untouched
<1>12. \A t \in ToLoad : t.job.req # r
  BY <1>4, NoLoadOut
<1>13. \A g \in Groups : /\ Len(held[r][g]) \in Nat /\ DOMAIN held[r][g] = 1..Len(held[r][g])
                         /\ Len(blockIds'[r][g]) \in Nat /\ Len(blockIds'[r][g]) <= Len(held[r][g])
  <2> SUFFICES ASSUME NEW g \in Groups
               PROVE /\ Len(held[r][g]) \in Nat /\ DOMAIN held[r][g] = 1..Len(held[r][g])
                     /\ Len(blockIds'[r][g]) \in Nat /\ Len(blockIds'[r][g]) <= Len(held[r][g])
    OBVIOUS
  <2>1. held[r][g] \in Seq(0..NumBlocks) /\ blockIds[r][g] \in Seq(0..NumBlocks)
    BY <1>3 DEF Table
  <2>2. Len(held[r][g]) \in Nat /\ DOMAIN held[r][g] = 1..Len(held[r][g]) /\ Len(blockIds[r][g]) \in Nat
    BY <2>1, SequenceIs
  <2>3. CASE status[r] = "waiting"
    <3>1. blockIds'[r] = NoBlocks
      BY <1>3, <1>5, <2>3
    <3>2. Len(blockIds'[r][g]) = 0
      BY <3>1 DEF NoBlocks
    <3> QED
      BY <2>2, <3>2
  <2>4. CASE status[r] = "running"
    <3>1. Len(blockIds[r][g]) <= Len(held[r][g])
      BY <2>4 DEF TablesRight, TablesOf
    <3> QED
      BY <1>5, <2>2, <2>4, <3>1
  <2> QED
    BY <1>4, <2>3, <2>4
<1>14. Grown(r)
  <2> SUFFICES ASSUME NEW b \in Blocks, NEW g \in Groups, NEW i \in DOMAIN held'[r][g], held'[r][g][i] = b,
                      ~(i \in DOMAIN held[r][g] /\ held[r][g][i] = b)
               PROVE  New(b, r)'
    BY DEF Grown
  <2>1. i \in 1..len /\ b # 0
    BY <1>8, SchedulerAssumption DEF Blocks
  <2>2. ~Behind(g, i, c)
    BY <1>8, <2>1
  <2>3. ~(i <= Len(held[r][g]))
    <3>1. i <= Len(held[r][g]) => i \in DOMAIN held[r][g]
      BY <1>13, <2>1
    <3> QED
      BY <1>8, <2>1, <2>2, <3>1
  <2>4. ~(i <= Len(blockIds'[r][g]))
    BY <1>13, <2>1, <2>3
  <2>5. sched'[r] # 0
    BY <1>3, <1>4
  <2> QED
    BY <2>4, <2>5 DEF New, FreshBlock
<1>15. ASSUME NEW b \in Blocks, NEW k \in Keys, Own(r, k, b), ~Own(r, k, b)'
       PROVE  Behind(k[1], k[2] + 1, c) /\ k[1] = "sliding"
  <2>1. k[1] \in Groups /\ k[2] + 1 \in DOMAIN held[r][k[1]] /\ held[r][k[1]][k[2] + 1] = b
    BY <1>15, KeysAre DEF Own
  <2>2. k[2] + 1 \in 1..len /\ k[2] + 1 <= Len(held[r][k[1]])
    <3>1. Len(held[r][k[1]]) <= len /\ Len(held[r][k[1]]) \in Nat
      BY <1>4, <1>13, <2>1
    <3>2. len \in Nat
      BY <1>8, <2>1, Ceiling, <1>4 DEF len
    <3> QED
      BY <1>13, <2>1, <3>1, <3>2
  <2>3. CASE ~Behind(k[1], k[2] + 1, c)
    <3>1. held'[r][k[1]][k[2] + 1] = b
      BY <1>8, <2>1, <2>2, <2>3
    <3>2. k[2] + 1 \in DOMAIN held'[r][k[1]]
      BY <1>8, <2>1, <2>2
    <3> QED
      BY <1>15, <3>1, <3>2 DEF Own
  <2> QED
    BY <2>3 DEF Behind
<1>16. Fate(r)
  BY <1>3, <1>4, <1>15 DEF Fate
<1>17. SchedStep(r)
  BY <1>1, <1>4, <1>10, <1>11, <1>12, <1>14 DEF SchedStep, Finished
<1>18. TextOf(cuts, r)'
  <2>1. Done(r)' = c
    <3>1. computed'[r] = c /\ c + 0 = c /\ phase' = "sched"
      BY <1>4, <1>9
    <3> QED
      BY <3>1 DEF Done
  <2> SUFFICES ASSUME NEW k \in Keys, k[2] + 1 \in DOMAIN held'[r][k[1]], held'[r][k[1]][k[2] + 1] # 0, Begun(k, c)
               PROVE  gpu[held'[r][k[1]][k[2] + 1]] \in Filled(cuts, k, c)
    BY <1>1, <2>1 DEF TextOf
  <2>2. k[1] \in Groups /\ k[2] \in Nat
    BY KeysAre
  <2>3. status[r] = "running"
    BY <1>5, <1>9, NothingBegun
  <2>4. k[2] < ChunksIn(c)
    BY <1>4, <2>2, Ceiling DEF Begun
  <2>5. Len(held[r][k[1]]) = ChunksIn(c)
    <3>1. Reach(r) = c
      BY <1>4, <1>9 DEF Reach
    <3> QED
      BY <2>2, <2>3, <3>1 DEF TablesRight, TablesOf
  <2>6. k[2] + 1 <= Len(held[r][k[1]]) /\ k[2] + 1 \in DOMAIN held[r][k[1]]
    BY <1>13, <2>2, <2>4, <2>5
  <2>7. held'[r][k[1]][k[2] + 1] = held[r][k[1]][k[2] + 1]
    BY <1>8, <2>2, <2>6
  <2>8. Done(r) = c
    BY <1>4, <1>9 DEF Done
  <2> QED
    BY <2>3, <2>6, <2>7, <2>8 DEF Contents, Texts, TextOf
<1>19. ASSUME NEW k \in Keys, Offered(r, k)', NEW b \in Blocks, b = blockIds[r][k[1]][k[2] + 1], status[r] = "running"
       PROVE  Own(r, k, b)' \/ Spare(cuts, r, k, b)'
  <2>1. Offered(r, k) /\ MayStore(r)
    BY <1>4, <1>5, <1>10, <1>19 DEF Offered, MayStore
  <2>2. Own(r, k, b) \/ Spare(cuts, r, k, b)
    BY <1>19, <2>1 DEF Contents, Offers, OfferOf
  <2>3. CASE Own(r, k, b) /\ ~Own(r, k, b)'
    <3>1. k[1] = "sliding" /\ k[2] + 1 <= FirstLive(c) /\ k[2] \in Nat
      BY <1>15, <2>3, KeysAre DEF Behind
    <3>2. Full(k, c)
      <4>1. FirstLive(c) \in Nat /\ \A i \in Nat : i < FirstLive(c) => (i + 1) * TokensPerChunk <= c
        BY <1>4, LeftBehind
      <4>2. k[2] < FirstLive(c)
        BY <3>1, <4>1
      <4> QED
        BY <3>1, <4>1, <4>2 DEF Full
    <3>3. Done(r) = c
      BY <1>4, <1>9 DEF Done
    <3>4. gpu[b] \in Chunk(cuts, k)
      BY <1>19, <2>3, <3>2, <3>3, OwnedIsWhole DEF Contents, Texts
    <3>5. Settled(b)'
      BY <1>2, <1>17, <2>3, SchedSettles
    <3> QED
      BY <1>1, <1>4, <1>9, <3>1, <3>2, <3>4, <3>5 DEF Spare, Full
  <2>4. CASE Spare(cuts, r, k, b)
    <3>1. gpu[b] \in Chunk(cuts, k) /\ (k[1] = "sliding" \/ Finished(r)) /\ Settled(b)
      BY <1>4, <2>4 DEF Spare
    <3>2. Settled(b)' /\ ~Finished(r)
      BY <1>2, <1>17, <1>19, <3>1, SchedSettles DEF Finished
    <3> QED
      BY <1>1, <1>4, <3>1, <3>2 DEF Spare, Full
  <2> QED
    BY <2>2, <2>3, <2>4
<1>20. OfferOf(cuts, r)'
  <2> SUFFICES ASSUME NEW k \in Keys, Offered(r, k)'
               PROVE  \/ status'[r] = "running" /\ Own(r, k, blockIds[r][k[1]][k[2] + 1])'
                      \/ Spare(cuts, r, k, blockIds[r][k[1]][k[2] + 1])'
    BY DEF OfferOf
  <2>1. CASE status[r] = "waiting"
    <3>1. blockIds'[r] = NoBlocks
      BY <1>3, <1>5, <2>1
    <3>2. DOMAIN blockIds'[r][k[1]] = {}
      BY <3>1, KeysAre, SMTT(40) DEF NoBlocks
    <3> QED
      BY <3>2 DEF Offered
  <2>2. CASE status[r] = "running"
    <3>1. k[2] + 1 \in DOMAIN blockIds[r][k[1]] /\ blockIds[r][k[1]][k[2] + 1] # 0 /\ blockIds' = blockIds
      BY <1>5, <2>2 DEF Offered
    <3>2. blockIds[r] \in Table
      BY <1>3
    <3>3. blockIds[r][k[1]][k[2] + 1] \in Blocks
      BY <3>1, <3>2, TableBlock
    <3>4. PICK b \in Blocks : b = blockIds[r][k[1]][k[2] + 1]
      BY <3>3
    <3>5. (Own(r, k, b)' \/ Spare(cuts, r, k, b)') /\ b = blockIds'[r][k[1]][k[2] + 1] /\ status'[r] = "running"
      BY <1>3, <1>4, <1>19, <2>2, <3>1, <3>4
    <3> QED
      BY <3>5 DEF Own, Spare, Settled, Taken, In, New, FreshBlock
  <2> QED
    BY <1>4, <2>1, <2>2
<1> QED
  BY <1>2, <1>16, <1>17, <1>18, <1>20, SchedContents

\* A load is set out with new blocks for the chunks it brings.
LEMMA LoadContents ==
  ASSUME NEW cuts, Travel, Books, TablesRight, TablesRight', SlotsRight, FlushRight, Contents(cuts),
         NEW r \in Requests, ScheduleLoad(r),
         UNCHANGED <<handlerVars, deferred, completed>>
  PROVE  Contents(cuts)'
<1> DEFINE h == LongestHit(r)
           table == LoadTable(r)
           new == NewEntry(LoadJob(r))
<1>0. h = LongestHit(r) /\ table = LoadTable(r)
  OBVIOUS
<1> HIDE DEF h, table
<1>1. /\ phase = "sched" /\ status[r] = "waiting" /\ sched[r] = 0
      /\ h \in Nat /\ h <= ChunksIn(MaxTokens)
      /\ table \in Table /\ (\A g \in Groups : Len(table[g]) = h /\ DOMAIN table[g] = 1..h)
      /\ (\A g \in Groups, i \in 1..h : table[g][i] = 0 <=> Behind(g, i, h * TokensPerChunk))
      /\ status' = [status EXCEPT ![r] = "loading"] /\ held' = [held EXCEPT ![r] = table]
      /\ computed' = [computed EXCEPT ![r] = h * TokensPerChunk]
      /\ blockIds' = [blockIds EXCEPT ![r] = NoBlocks]
      /\ nextStored' = [nextStored EXCEPT ![r] = [g \in Groups |-> h]]
      /\ allocated' = allocated \cup {m.block : m \in LoadJob(r).moves}
      /\ LoadJob(r).moves = {[key |-> k, block |-> table[k[1]][k[2] + 1], slot |-> slotOf[k]] : k \in HitKeys(h)}
      /\ LoadJob(r).req = r
      /\ UNCHANGED <<total, sched, tracked, threshold, preempted, phase, finishedIds, slotOf, ready>>
  BY <1>0, ScheduleLoadIs
<1>2. /\ ToLoad' = ToLoad \cup {new} /\ ToSave' = ToSave /\ \A d : Sent(d)' = Sent(d)
  BY LoadJobMade, LoadSetsOut
<1>3. new.job.req = r
  BY <1>1 DEF NewEntry
<1> HIDE DEF new
<1>4. UNCHANGED <<deferred, completed, gpu, cpu>>
  BY DEF handlerVars
<1>5. /\ status \in [Requests -> Statuses] /\ held \in [Requests -> Table] /\ blockIds \in [Requests -> Table]
      /\ computed \in [Requests -> Nat] 
  BY DEF Books, RequestsAreKnown, TablesRight, TableTypes
<1>6. \A q \in Requests \ {r} : Untouched(q) /\ nextStored'[q] = nextStored[q]
  <2> SUFFICES ASSUME NEW q \in Requests \ {r} PROVE Untouched(q) /\ nextStored'[q] = nextStored[q]
    OBVIOUS
  <2>1. nextStored'[q] = nextStored[q]
    <3>1. q \in DOMAIN nextStored
      BY DEF FlushRight, IndexTypes
    <3> QED
      BY <1>1, <3>1
  <2> QED
    BY <1>1, <1>5, <2>1 DEF Untouched
<1>7. held'[r] = table /\ status'[r] = "loading"
  BY <1>1, <1>5
<1>8. \A t \in ToLoad : t.job.req # r
  BY <1>1, NoLoadOut
<1>9. Grown(r)
  <2> SUFFICES ASSUME NEW b \in Blocks, NEW g \in Groups, NEW i \in DOMAIN held'[r][g], held'[r][g][i] = b
               PROVE  New(b, r)'
    BY DEF Grown
  <2>1. g \in Groups /\ i \in 1..h /\ table[g][i] = b /\ b # 0
    BY <1>1, <1>7, SchedulerAssumption DEF Blocks
  <2>2. ~Behind(g, i, h * TokensPerChunk)
    BY <1>1, <2>1
  <2> DEFINE k == <<g, i - 1>>
  <2>3. k \in Keys /\ k[1] = g /\ k[2] + 1 = i
    <3>1. i \in 1..ChunksIn(MaxTokens) /\ (i - 1) + 1 = i
      BY <1>1, <2>1, KeysAre
    <3> QED
      BY <2>1, <3>1, KeysAre
  <2>4. k \in HitKeys(h)
    BY <1>1, <2>1, <2>2, <2>3, HitKeysAre
  <2> HIDE DEF k
  <2>5. [key |-> k, block |-> table[k[1]][k[2] + 1], slot |-> slotOf[k]] \in LoadJob(r).moves
    BY <1>1, <2>4
  <2>6. b \in allocated'
    <3>1. PICK m \in LoadJob(r).moves : m.block = table[k[1]][k[2] + 1]
      BY <2>5
    <3>2. m.block = b
      BY <2>1, <2>3, <3>1
    <3> QED
      BY <1>1, <3>2
  <2>7. In(b, r)'
    BY <2>1 DEF In
  <2> QED
    BY <1>2, <1>3, <2>6, <2>7 DEF New
<1>10. Fate(r)
  BY <1>1 DEF Fate
<1>11. SchedStep(r)
  <2>1. Finished(r) => Finished(r)'
    BY <1>1 DEF Finished
  <2> QED
    BY <1>1, <1>2, <1>4, <1>6, <1>8, <1>9, <2>1 DEF SchedStep
<1>12. TextOf(cuts, r)' /\ OfferOf(cuts, r)'
  BY <1>7 DEF TextOf, OfferOf, MayStore, Finished
<1> QED
  BY <1>10, <1>11, <1>12, SchedContents

(***************************************************************************)
(* build_connector_meta.                                                   *)
(***************************************************************************)

\* Steps that leave the blocks, the tables and the token counts as they are.
LEMMA TextsKept ==
  ASSUME NEW cuts, Texts(cuts), UNCHANGED <<gpu, status, held>>, \A r \in Requests : Done(r)' = Done(r)
  PROVE  Texts(cuts)'
  BY DEF Texts, TextOf, Filled, Full, Begun

\* A store under way since the last reset is its request's job, and what it must
\* watch is watched.
LEMMA WatchedIs ==
  ASSUME Travel, Books, SlotsRight, NEW t \in Later \cup Sooner, Fresh(t), NEW m \in t.job.moves
  PROVE  /\ t.id \in JobsOf(t.job.req)
         /\ Watched(t.job, m) => <<m.block, t.id>> \in watch
<1>1. t \in Stores /\ m.key \in Keys
  BY MovesAre
<1>2. t.id \in DOMAIN jobs /\ jobs[t.id] = t.job
  BY <1>1, NumbersAre
<1>3. m.block \in IF m.key[1] = "sliding" THEN t.job.sliding ELSE t.job.other
  BY <1>1 DEF SlotsRight, Shapes, StoreShape
<1>4. Watched(t.job, m) => m.block \in WatchedFor(t.id)
  BY <1>2, <1>3 DEF Watched, WatchedFor
<1>5. Watched(t.job, m) => <<m.block, t.id>> \in watch
  BY <1>2, <1>4 DEF Books, WatchIsExact
<1> QED
  BY <1>2, <1>5 DEF JobsOf

\* The metadata is begun: the copies of the tables are brought up to date, and the
\* jobs to flush are found.
LEMMA StartContents ==
  ASSUME NEW cuts, Travel, Books, TablesRight, SlotsRight, FlushRight, Contents(cuts), StartMeta,
         UNCHANGED <<handlerVars, deferred, completed>>
  PROVE  Contents(cuts)'
<1>0. Quiet
  BY DEF Quiet
<1>1. /\ ToLoad' = ToLoad /\ ToSave' = ToSave /\ (\A d : Sent(d)' = Sent(d))
      /\ UNCHANGED <<deferred, completed, transfers, gpu, cpu>>
  BY <1>0, QuietWays
<1>2. /\ phase = "sched" /\ phase' = "build"
      /\ \A b : b \in allocated' <=> b # 0 /\ (b \in allocated \/ \E q \in Requests, g \in Groups : \E i : FreshBlock(q, g, i, b))
      /\ \A q \in Requests, g \in Groups : Refreshed(q, g, blockIds'[q][g])
      /\ \A j : j \in flush' <=> \/ j \in flush
                                 \/ \E r \in preempted : j \in JobsOf(r)
                                 \/ \E w \in watch : w[1] \in allocated' /\ w[2] = j
      /\ toStore' = Scheduled \cup (finishedIds \cap tracked)
      /\ UNCHANGED <<status, computed, total, held, sched, finishedIds, preempted,
                     tracked, nextStored, threshold>>
  BY StartMetaIs
<1>3. UNCHANGED <<slotOf, ready>>
  BY Zenon DEF StartMeta, mgrVars
<1>4. \A q \in Requests : Done(q)' = Done(q) /\ Reach(q)' = Reach(q)
  BY <1>2 DEF Done, Reach
<1>5. Texts(cuts)'
  BY <1>1, <1>2, <1>4, TextsKept DEF Contents
<1>6. Copied(cuts)'
  BY <1>1, <1>2, <1>3, CopiedKept DEF Contents
<1>7. ASSUME NEW b \in Blocks, Settled(b), Taken(b)' PROVE b \in allocated' /\ TakenByGiven(b)'
  <2>1. Taken(b)
    BY <1>2, <1>7 DEF Taken, In
  <2>2. PICK q \in Requests : New(b, q)
    BY <1>7, <2>1 DEF Settled
  <2>3. In(b, q)' /\ b # 0
    BY <1>2, <2>2, NewIsIn, SchedulerAssumption DEF In, Blocks
  <2>4. CASE \E g \in Groups : \E i \in DOMAIN held[q][g] : FreshBlock(q, g, i, b)
    <3>1. b \in allocated'
      BY <1>2, <2>3, <2>4
    <3>2. Given(q)'
      BY <1>2, <2>4 DEF Given, FreshBlock
    <3> QED
      BY <2>3, <3>1, <3>2 DEF TakenByGiven
  <2>5. CASE b \in allocated /\ \E t \in ToLoad : t.job.req = q
    <3>1. b \in allocated'
      BY <1>2, <2>3, <2>5
    <3>2. Given(q)'
      BY <1>1, <2>5 DEF Given
    <3> QED
      BY <2>3, <3>1, <3>2 DEF TakenByGiven
  <2> QED
    BY <2>2, <2>4, <2>5 DEF New
<1>8. \A r, k, b : Own(r, k, b)' <=> Own(r, k, b)
  BY <1>2 DEF Own
<1>9. Later' = Later /\ Sooner' = Sooner
  BY <1>1, <1>2 DEF Later, Sooner
<1>10. ASSUME NEW t \in Later \cup Sooner, Fresh(t), NEW m \in t.job.moves, Left(cuts, t.id, t.job, m)
       PROVE  Left(cuts, t.id, t.job, m)'
  <2>1. m.block \in Blocks
    BY MovesAre
  <2>2. gpu[m.block] \in Chunk(cuts, m.key) /\ (Watched(t.job, m) \/ t.job.req \in preempted) /\ Settled(m.block)
    BY <1>2, <1>10 DEF Left
  <2>3. Watched(t.job, m)' <=> Watched(t.job, m)
    BY <1>2 DEF Watched, Finished
  <2>4. Watched(t.job, m) => <<m.block, t.id>> \in watch
    BY <1>10, WatchedIs
  <2>5. t.id \in JobsOf(t.job.req)
    BY <1>10, WatchedIs
  <2>6. t.job.req \in preempted => Doomed(t.id)'
    BY <1>2, <2>5 DEF Doomed
  <2>7. Watched(t.job, m) /\ m.block \in allocated' => Doomed(t.id)'
    <3> SUFFICES ASSUME Watched(t.job, m), m.block \in allocated' PROVE t.id \in flush'
      BY <1>2 DEF Doomed
    <3>1. <<m.block, t.id>> \in watch /\ <<m.block, t.id>>[1] \in allocated' /\ <<m.block, t.id>>[2] = t.id
      BY <2>4
    <3> QED
      BY <1>2, <3>1
  <2>8. Taken(m.block)' => Doomed(t.id)' /\ TakenByGiven(m.block)'
    BY <1>7, <2>1, <2>2, <2>6, <2>7
  <2> QED
    BY <1>1, <1>2, <2>2, <2>3, <2>6, <2>8 DEF Left
<1>11. Claims(cuts)'
  <2>1. ASSUME NEW t \in Later', Fresh(t)', NEW m \in t.job.moves
        PROVE  Owned(t.job, m, Reach(t.job.req))' \/ Left(cuts, t.id, t.job, m)'
    <3>1. t \in Later /\ Fresh(t)
      BY <1>2, <1>9, <2>1 DEF Fresh
    <3>2. t.job.req \in Requests
      BY <3>1, MovesAre
    <3>3. Owned(t.job, m, Reach(t.job.req)) \/ Left(cuts, t.id, t.job, m)
      BY <2>1, <3>1 DEF Contents, Claims
    <3>4. CASE Owned(t.job, m, Reach(t.job.req))
      BY <1>2, <1>4, <1>8, <3>2, <3>4 DEF Owned, Full
    <3> QED
      BY <1>10, <2>1, <3>1, <3>3, <3>4
  <2>2. ASSUME NEW t \in Sooner', Fresh(t)', NEW m \in t.job.moves
        PROVE  Owned(t.job, m, Done(t.job.req))' \/ Left(cuts, t.id, t.job, m)'
    <3>1. t \in Sooner /\ Fresh(t)
      BY <1>2, <1>9, <2>2 DEF Fresh
    <3>2. t.job.req \in Requests
      BY <3>1, MovesAre
    <3>3. Owned(t.job, m, Done(t.job.req)) \/ Left(cuts, t.id, t.job, m)
      BY <2>2, <3>1 DEF Contents, Claims
    <3>4. CASE Owned(t.job, m, Done(t.job.req))
      BY <1>2, <1>4, <1>8, <3>2, <3>4 DEF Owned, Full
    <3> QED
      BY <1>10, <2>2, <3>1, <3>3, <3>4
  <2> QED
    BY <2>1, <2>2 DEF Claims
<1>12. Offers(cuts)'
  <2> SUFFICES ASSUME NEW r \in Requests, MayStore(r)', NEW k \in Keys, Offered(r, k)'
               PROVE  \/ status'[r] = "running" /\ Own(r, k, blockIds[r][k[1]][k[2] + 1])'
                      \/ Spare(cuts, r, k, blockIds[r][k[1]][k[2] + 1])'
    BY DEF Offers, OfferOf
  <2> DEFINE g == k[1]
             i == k[2] + 1
  <2>1. g \in Groups /\ i \in Nat /\ k[2] \in Nat /\ i > k[2] /\ g = k[1] /\ i = k[2] + 1
    BY KeysAre
  <2> HIDE DEF g, i
  <2>2. /\ nextStored[r][g] <= k[2] /\ i \in DOMAIN blockIds'[r][g] /\ blockIds'[r][g][i] # 0
        /\ \/ status[r] = "running" \/ Full(k, computed[r])
           \/ status[r] = "stopped" /\ Full(k, computed[r] + 1)
    BY <1>2, <2>1 DEF Offered, Full
  <2>3. MayStore(r) /\ r \in tracked
    BY <1>2 DEF MayStore, Finished, Books, RequestsAreKnown, Active
  <2>4. Refreshed(r, g, blockIds'[r][g])
    BY <1>2, <2>1
  <2>5. /\ blockIds[r][g] \in Seq(0..NumBlocks) /\ held[r][g] \in Seq(0..NumBlocks)
        /\ nextStored[r][g] \in Nat
    BY <2>1 DEF TablesRight, TableTypes, Table, FlushRight, IndexTypes
  <2>6. /\ Len(blockIds[r][g]) \in Nat /\ Len(held[r][g]) \in Nat
        /\ DOMAIN blockIds[r][g] = 1..Len(blockIds[r][g]) /\ DOMAIN held[r][g] = 1..Len(held[r][g])
        /\ DOMAIN blockIds'[r][g] = 1..Len(blockIds'[r][g])
    BY <2>4, <2>5, SequenceIs DEF Refreshed
  <2>7. CASE i <= Len(blockIds[r][g])
    <3>1. i \in 1..Len(blockIds[r][g]) /\ i \in DOMAIN blockIds[r][g]
      BY <2>1, <2>6, <2>7
    <3>2. ~GivenAway(r, g, i) /\ blockIds'[r][g][i] = blockIds[r][g][i]
      BY <2>2, <2>4, <3>1 DEF Refreshed
    <3>3. Offered(r, k)
      BY <2>1, <2>2, <3>1, <3>2 DEF Offered
    <3>4. PICK b \in Blocks : b = blockIds[r][g][i]
      BY <2>1, <3>3, OfferedIs
    <3>5. (status[r] = "running" /\ Own(r, k, b)) \/ Spare(cuts, r, k, b)
      BY <2>1, <2>3, <3>3, <3>4 DEF Contents, Offers, OfferOf
    <3>6. b = blockIds'[r][g][i]
      BY <3>2, <3>4
    <3>7. CASE status[r] = "running" /\ Own(r, k, b)
      BY <1>2, <1>8, <2>1, <3>6, <3>7 DEF Own
    <3>8. CASE Spare(cuts, r, k, b)
      <4>1. gpu[b] \in Chunk(cuts, k) /\ (g = "sliding" \/ Finished(r)) /\ Settled(b)
        BY <1>2, <2>1, <3>8 DEF Spare
      <4>2. Taken(b)' => b \in allocated' /\ TakenByGiven(b)'
        BY <1>7, <4>1
      <4>3. b \in allocated' => g = "full"
        <5>1. ~(i > nextStored[r][g]) => FALSE
          BY <2>1, <2>2, <2>5
        <5> QED
          BY <2>1, <2>3, <3>2, <3>4, <5>1 DEF GivenAway, Groups
      <4>4. Spare(cuts, r, k, b)'
        BY <1>1, <1>2, <2>1, <4>1, <4>2, <4>3 DEF Spare, Finished, Full
      <4> QED
        BY <2>1, <3>6, <4>4 DEF Spare, Taken, TakenByGiven, In, Given
    <3> QED
      BY <3>5, <3>7, <3>8
  <2>8. CASE ~(i <= Len(blockIds[r][g]))
    <3>1. sched[r] # 0 /\ i \in 1..Len(held[r][g])
      BY <2>1, <2>2, <2>4, <2>6, <2>8 DEF Refreshed
    <3>2. blockIds'[r][g][i] = held[r][g][i]
      BY <2>4, <2>8, <3>1 DEF Refreshed
    <3>3. status'[r] = "running"
      BY <1>2, <3>1 DEF Books, RequestsAreKnown
    <3> QED
      BY <1>2, <2>1, <2>6, <3>1, <3>2, <3>3 DEF Own
  <2> QED
    BY <2>7, <2>8
<1> QED
  BY <1>5, <1>6, <1>11, <1>12 DEF Contents

\* What a finished or running request may store was computed.
LEMMA StorableIs ==
  ASSUME Books, TablesRight, FlushRight, NEW r \in Requests, r \in toStore, phase = "build", NEW k \in StoredKeys(r)
  PROVE  /\ MayStore(r) /\ Offered(r, k)
         /\ status[r] = "running" => Full(k, Reach(r))
<1>1. /\ blockIds \in [Requests -> Table] /\ computed \in [Requests -> Nat]
      /\ total \in [Requests -> Nat] /\ sched \in [Requests -> Nat]
  BY DEF TablesRight, TableTypes, Books, RequestsAreKnown
<1>2. /\ k \in Keys /\ k[1] \in Groups /\ k[2] \in Nat
      /\ k[2] + 1 \in DOMAIN blockIds[r][k[1]] /\ blockIds[r][k[1]][k[2] + 1] \in Blocks
      /\ nextStored[r][k[1]] <= k[2] /\ k[2] < Offloadable(r) \div TokensPerChunk
      /\ Offloadable(r) \in Nat
  BY <1>1, StoredKeysAre
<1>3. Full(k, Offloadable(r))
  BY <1>2, ChunkSize, Floor DEF Full
<1>4. computed[r] \in Nat /\ total[r] \in Nat /\ sched[r] \in Nat /\ CountsOf(r)
  BY <1>1 DEF TablesRight
<1>5. status[r] = "running" \/ (Finished(r) /\ r \in finishedIds \cap tracked)
  <2>1. sched[r] # 0 \/ r \in finishedIds \cap tracked
    BY DEF FlushRight, ToStoreKnown, Scheduled
  <2>2. sched[r] # 0 => status[r] = "running"
    BY DEF Books, RequestsAreKnown
  <2>3. r \in finishedIds => Finished(r)
    BY DEF Books, EndsAreKnown
  <2> QED
    BY <2>1, <2>2, <2>3
<1>6. MayStore(r)
  BY <1>5 DEF MayStore
<1> DEFINE f == (k[2] + 1) * TokensPerChunk
<1>7. f \in Nat /\ f <= Offloadable(r)
  <2>1. k[2] + 1 \in Nat
    BY <1>2
  <2>2. f \in Nat
    BY <2>1, ChunkSize, Products
  <2> QED
    BY <1>3, <2>2 DEF Full
<1> HIDE DEF f
<1>8. ASSUME status[r] = "running" PROVE Full(k, Reach(r))
  <2>1. Offloadable(r) <= computed[r] + sched[r]
    BY <1>4, <1>8 DEF Offloadable
  <2>2. computed[r] + sched[r] \in Nat
    BY <1>4
  <2>3. f <= computed[r] + sched[r]
    BY <1>2, <1>7, <2>1, <2>2
  <2> QED
    BY <2>3 DEF Full, Reach, f
<1>9. ASSUME Finished(r)
      PROVE  Full(k, computed[r]) \/ (status[r] = "stopped" /\ Full(k, computed[r] + 1))
  <2>1. CASE status[r] = "aborted"
    <3>1. Offloadable(r) <= computed[r]
      BY <1>4, <2>1 DEF Offloadable
    <3>2. f <= computed[r]
      BY <1>2, <1>4, <1>7, <3>1
    <3> QED
      BY <3>2 DEF Full, f
  <2>2. CASE status[r] = "stopped"
    <3>1. Offloadable(r) = total[r]
      BY <1>4, <2>2 DEF Offloadable
    <3>2. total[r] = computed[r] + 1
      BY <1>4, <2>2 DEF CountsOf
    <3>3. f <= computed[r] + 1
      BY <1>7, <3>1, <3>2
    <3> QED
      BY <2>2, <3>3 DEF Full, f
  <2> QED
    BY <1>9, <2>1, <2>2 DEF Finished
<1>10. Offered(r, k)
  <2>1. blockIds[r][k[1]][k[2] + 1] # 0
    BY <1>2, SchedulerAssumption DEF Blocks
  <2> QED
    BY <1>2, <1>5, <1>9, <2>1 DEF Offered
<1> QED
  BY <1>6, <1>8, <1>10

\* While the metadata is built, what was claimed and offered stays so.
BuildStep ==
  /\ phase = "build" /\ UNCHANGED <<extVars, tracked, blockIds, threshold, allocated>>
  /\ ToLoad' = ToLoad /\ ToSave \subseteq ToSave' /\ \A d : Sent(d)' = Sent(d)
  /\ UNCHANGED <<deferred, completed, gpu, cpu>>
  /\ flush \subseteq flush' /\ toStore' \subseteq toStore
  /\ \A q \in Requests, g \in Groups : nextStored[q][g] <= nextStored'[q][g]
  /\ nextStored \in [Requests -> [Groups -> Nat]] /\ nextStored' \in [Requests -> [Groups -> Nat]]
\* A step of _build_store_jobs: what was right of the blocks and of the stores under
\* way still is.
LEMMA BuildKeeps ==
  ASSUME NEW cuts, Travel, Books, TablesRight, SlotsRight, Contents(cuts), BuildStep
  PROVE  /\ Texts(cuts)' /\ Offers(cuts)'
         /\ \A t \in Later : Fresh(t) => \A m \in t.job.moves :
              (Owned(t.job, m, Reach(t.job.req)) \/ Left(cuts, t.id, t.job, m))'
         /\ \A t \in Sooner : Fresh(t) => \A m \in t.job.moves :
              (Owned(t.job, m, Done(t.job.req)) \/ Left(cuts, t.id, t.job, m))'
<1>1. /\ phase = "build" /\ phase' = "build" /\ UNCHANGED <<status, computed, total, held, sched, finishedIds, preempted>>
  BY DEF BuildStep, extVars
<1>2. \A q \in Requests : Done(q)' = Done(q) /\ Reach(q)' = Reach(q)
  BY <1>1 DEF Done, Reach
<1>3. Texts(cuts)'
  BY <1>1, <1>2, TextsKept DEF Contents, BuildStep
<1>4. \A r, k, b : Own(r, k, b)' <=> Own(r, k, b)
  BY <1>1 DEF Own
<1>5. \A b : (Taken(b)' <=> Taken(b)) /\ (TakenByGiven(b)' <=> TakenByGiven(b))
  BY <1>1 DEF Taken, TakenByGiven, In, Given, BuildStep
<1>6. \A j : Doomed(j) => Doomed(j)'
  BY <1>1 DEF Doomed, BuildStep
<1>7. ASSUME NEW t, NEW m, Left(cuts, t.id, t.job, m) PROVE Left(cuts, t.id, t.job, m)'
  <2>1. /\ gpu[m.block] \in Chunk(cuts, m.key) /\ (Watched(t.job, m) \/ Doomed(t.id))
        /\ Taken(m.block) => Doomed(t.id) /\ TakenByGiven(m.block)
    BY <1>1, <1>7 DEF Left
  <2>2. gpu' = gpu /\ (Watched(t.job, m)' <=> Watched(t.job, m))
    BY <1>1 DEF BuildStep, Watched, Finished
  <2> QED
    BY <1>1, <1>5, <1>6, <2>1, <2>2 DEF Left
<1>8. ASSUME NEW t \in Later, Fresh(t), NEW m \in t.job.moves
      PROVE  (Owned(t.job, m, Reach(t.job.req)) \/ Left(cuts, t.id, t.job, m))'
  <2>1. t.job.req \in Requests
    BY MovesAre
  <2>2. Owned(t.job, m, Reach(t.job.req)) \/ Left(cuts, t.id, t.job, m)
    BY <1>8 DEF Contents, Claims
  <2> QED
    BY <1>1, <1>2, <1>4, <1>7, <2>1, <2>2 DEF Owned, Full
<1>9. ASSUME NEW t \in Sooner, Fresh(t), NEW m \in t.job.moves
      PROVE  (Owned(t.job, m, Done(t.job.req)) \/ Left(cuts, t.id, t.job, m))'
  <2>1. t.job.req \in Requests
    BY MovesAre
  <2>2. Owned(t.job, m, Done(t.job.req)) \/ Left(cuts, t.id, t.job, m)
    BY <1>9 DEF Contents, Claims
  <2> QED
    BY <1>1, <1>2, <1>4, <1>7, <2>1, <2>2 DEF Owned, Full
<1>10. Offers(cuts)'
  <2> SUFFICES ASSUME NEW r \in Requests, MayStore(r)', NEW k \in Keys, Offered(r, k)'
               PROVE  \/ status'[r] = "running" /\ Own(r, k, blockIds[r][k[1]][k[2] + 1])'
                      \/ Spare(cuts, r, k, blockIds[r][k[1]][k[2] + 1])'
    BY DEF Offers, OfferOf
  <2>1. MayStore(r)
    BY <1>1 DEF MayStore, BuildStep, Finished
  <2>2. Offered(r, k)
    <3>1. nextStored[r][k[1]] <= k[2]
      <4>1. /\ nextStored[r][k[1]] \in Nat /\ nextStored'[r][k[1]] \in Nat /\ k[2] \in Nat
            /\ nextStored[r][k[1]] <= nextStored'[r][k[1]]
        BY KeysAre DEF BuildStep
      <4>2. nextStored'[r][k[1]] <= k[2]
        BY DEF Offered
      <4> QED
        BY <4>1, <4>2
    <3> QED
      BY <1>1, <3>1 DEF Offered, BuildStep, Full
  <2>3. PICK b \in Blocks : b = blockIds[r][k[1]][k[2] + 1]
    BY <2>2, OfferedIs
  <2>4. (status[r] = "running" /\ Own(r, k, b)) \/ Spare(cuts, r, k, b)
    BY <2>1, <2>2, <2>3 DEF Contents, Offers, OfferOf
  <2>5. b = blockIds'[r][k[1]][k[2] + 1]
    BY <2>3 DEF BuildStep
  <2>6. CASE status[r] = "running" /\ Own(r, k, b)
    BY <1>1, <1>4, <2>5, <2>6 DEF Own
  <2>7. CASE Spare(cuts, r, k, b)
    <3>1. gpu' = gpu /\ allocated' = allocated /\ (Finished(r)' <=> Finished(r))
      BY <1>1 DEF BuildStep, Finished
    <3>2. gpu[b] \in Chunk(cuts, k) /\ (k[1] = "sliding" \/ Finished(r))
          /\ (Taken(b) => Finished(r) /\ k[1] = "full" /\ b \in allocated /\ TakenByGiven(b))
      BY <1>1, <2>7 DEF Spare
    <3>3. Spare(cuts, r, k, b)'
      BY <1>1, <1>5, <3>1, <3>2 DEF Spare, Full
    <3> QED
      BY <2>5, <3>3 DEF Spare, Taken, TakenByGiven, In, Given
  <2> QED
    BY <2>4, <2>6, <2>7
<1> QED
  BY <1>3, <1>8, <1>9, <1>10

\* Nothing to store, or nowhere to store it.
LEMMA NoStoreContents ==
  ASSUME NEW cuts, Travel, Books, TablesRight, SlotsRight, FlushRight, Contents(cuts), NEW r \in Requests,
         StoreNothing(r) \/ StoreRefused(r), UNCHANGED <<handlerVars, deferred, completed>>
  PROVE  Contents(cuts)'
<1>0. Quiet
  BY DEF Quiet
<1>1. /\ ToLoad' = ToLoad /\ ToSave' = ToSave /\ (\A d : Sent(d)' = Sent(d))
      /\ UNCHANGED <<deferred, completed, transfers, gpu, cpu>>
  BY <1>0, QuietWays
<1>2. /\ phase = "build" /\ UNCHANGED <<extVars, tracked, blockIds, threshold, allocated, flush, mgrVars>>
      /\ toStore' \subseteq toStore
  BY DEF StoreNothing, StoreRefused
<1>3. nextStored' = nextStored \/ nextStored' = Advanced(r)
  BY DEF StoreNothing, StoreRefused
<1>4. /\ blockIds \in [Requests -> Table] /\ computed \in [Requests -> Nat]
      /\ total \in [Requests -> Nat] /\ sched \in [Requests -> Nat]
  BY DEF TablesRight, TableTypes, Books, RequestsAreKnown
<1>5. /\ \A q \in Requests, g \in Groups : nextStored[q][g] <= nextStored'[q][g]
      /\ nextStored \in [Requests -> [Groups -> Nat]] /\ nextStored' \in [Requests -> [Groups -> Nat]]
  <2>1. IndexTypes
    BY DEF FlushRight
  <2>2. /\ Advanced(r) \in [Requests -> [Groups -> Nat]]
        /\ \A q \in Requests, g \in Groups : nextStored[q][g] <= Advanced(r)[q][g]
    BY <1>4, <2>1, AdvancedIs
  <2>3. \A q \in Requests, g \in Groups : nextStored[q][g] \in Nat
    BY <2>1 DEF IndexTypes
  <2> QED
    BY <1>3, <2>1, <2>2, <2>3 DEF IndexTypes
<1>6. BuildStep
  BY <1>1, <1>2, <1>5 DEF BuildStep
<1>7. Texts(cuts)' /\ Offers(cuts)'
      /\ (\A t \in Later : Fresh(t) => \A m \in t.job.moves :
              (Owned(t.job, m, Reach(t.job.req)) \/ Left(cuts, t.id, t.job, m))')
      /\ (\A t \in Sooner : Fresh(t) => \A m \in t.job.moves :
              (Owned(t.job, m, Done(t.job.req)) \/ Left(cuts, t.id, t.job, m))')
  BY <1>6, BuildKeeps
<1>8. Later' = Later /\ Sooner' = Sooner /\ \A t : Fresh(t)' <=> Fresh(t)
  BY <1>1, <1>2 DEF Later, Sooner, Fresh, extVars
<1>9. Claims(cuts)'
  BY <1>7, <1>8 DEF Claims
<1>10. Copied(cuts)'
  <2>1. UNCHANGED <<slotOf, ready>>
    BY <1>2, Zenon DEF mgrVars
  <2> QED
    BY <1>1, <1>2, <2>1, CopiedKept DEF Contents
<1> QED
  BY <1>7, <1>9, <1>10 DEF Contents

\* A store is set out of chunks that are full or will be at the step's end.
LEMMA StoreContents ==
  ASSUME NEW cuts, Travel, Books, TablesRight, SlotsRight, FlushRight, Contents(cuts), NEW r \in Requests,
         NEW evicted,
         StoreChunks(r, evicted), UNCHANGED <<handlerVars, deferred, completed>>
  PROVE  Contents(cuts)'
<1>a. PICK job : job = StoreJobOf(r, evicted)
  OBVIOUS
<1>b. PICK new : new = NewEntry(job)
  OBVIOUS
<1>c. PICK n : n = counter
  OBVIOUS
<1>0. job = StoreJobOf(r, evicted) /\ new = NewEntry(job) /\ new.job = job /\ new.id = n
  BY <1>a, <1>b, <1>c DEF NewEntry
<1>1. /\ ToSave' = ToSave \cup {new} /\ ToLoad' = ToLoad /\ \A d : Sent(d)' = Sent(d)
  BY <1>0, StoreJobMade, StoreSetsOut
<1>2. /\ phase = "build" /\ r \in toStore
      /\ ready' = ready \ evicted
      /\ nextStored' = Advanced(r)
      /\ toStore' = toStore \ {r}
      /\ flush' = flush \cup (IF Finished(r) /\ BlocksFor(StoreMoves(r, evicted), "full") \cap allocated # {}
                                   THEN {counter} ELSE {})
      /\ UNCHANGED <<extVars, tracked, blockIds, threshold, allocated>>
  BY StoreChunksIs
<1>3. UNCHANGED <<status, computed, total, held, sched, phase>>
  BY <1>2 DEF extVars
<1>4. UNCHANGED <<deferred, completed, gpu, cpu>>
  BY DEF handlerVars
<1>5. /\ blockIds \in [Requests -> Table] /\ computed \in [Requests -> Nat]
      /\ total \in [Requests -> Nat] /\ sched \in [Requests -> Nat]
  BY DEF TablesRight, TableTypes, Books, RequestsAreKnown
<1>6. BuildStep
  <2>1. IndexTypes
    BY DEF FlushRight
  <2>2. /\ Advanced(r) \in [Requests -> [Groups -> Nat]]
        /\ \A q \in Requests, g \in Groups : nextStored[q][g] <= Advanced(r)[q][g]
    BY <1>5, <2>1, AdvancedIs
  <2>3. flush \subseteq flush' /\ toStore' \subseteq toStore /\ ToSave \subseteq ToSave'
    BY <1>1, <1>2
  <2> QED
    BY <1>1, <1>2, <1>4, <2>1, <2>2, <2>3 DEF BuildStep, IndexTypes
<1>7. Texts(cuts)' /\ Offers(cuts)'
      /\ (\A t \in Later : Fresh(t) => \A m \in t.job.moves :
              (Owned(t.job, m, Reach(t.job.req)) \/ Left(cuts, t.id, t.job, m))')
      /\ (\A t \in Sooner : Fresh(t) => \A m \in t.job.moves :
              (Owned(t.job, m, Done(t.job.req)) \/ Left(cuts, t.id, t.job, m))')
  BY <1>6, BuildKeeps
<1>8. Later' = Later \cup {new} /\ Sooner' = Sooner /\ \A t : Fresh(t)' <=> Fresh(t)
  BY <1>1, <1>2, <1>3, <1>4 DEF Later, Sooner, Fresh
<1>9. ASSUME NEW m \in job.moves
      PROVE  (Owned(job, m, Reach(job.req)) \/ Left(cuts, n, job, m))'
  <2>1. job.req = r
    BY <1>0, StoreJobIs
  <2>2. PICK k \in StoredKeys(r) : m = StoreMove(r, evicted, k)
    BY <1>0, StoreJobIs
  <2>3. m.key = k /\ m.block = blockIds[r][k[1]][k[2] + 1]
    BY <2>2, StoreMoveIs
  <2>4. /\ MayStore(r) /\ Offered(r, k)
        /\ status[r] = "running" => Full(k, Reach(r))
    BY <1>2, StorableIs
  <2>5. k \in Keys
    BY DEF StoredKeys, NewKeys
  <2>6. PICK b \in Blocks : b = m.block
    BY <2>3, <2>4, <2>5, OfferedIs
  <2>7. (status[r] = "running" /\ Own(r, k, b)) \/ Spare(cuts, r, k, b)
    BY <2>3, <2>4, <2>5, <2>6 DEF Contents, Offers, OfferOf
  <2>8. CASE status[r] = "running" /\ Own(r, k, b)
    <3>1. Reach(r)' = Reach(r) /\ status'[r] = "running" /\ Own(r, k, b)'
      BY <1>3, <2>8 DEF Reach, Own
    <3>2. Full(k, Reach(r))
      BY <2>4, <2>8
    <3> QED
      BY <2>1, <2>3, <2>6, <3>1, <3>2 DEF Owned, Full
  <2>9. CASE Spare(cuts, r, k, b)
    <3>1. /\ gpu[b] \in Chunk(cuts, k) /\ (k[1] = "sliding" \/ Finished(r))
          /\ Taken(b) => Finished(r) /\ k[1] = "full" /\ b \in allocated /\ TakenByGiven(b)
      BY <1>2, <2>9 DEF Spare
    <3>2. Watched(job, m)'
      BY <1>3, <2>1, <2>3, <3>1 DEF Watched, Finished
    <3>3. (Taken(b)' <=> Taken(b)) /\ (TakenByGiven(b)' <=> TakenByGiven(b))
      BY <1>1, <1>3 DEF Taken, TakenByGiven, In, Given
    <3>4. Taken(b) => n \in flush'
      <4> SUFFICES ASSUME Taken(b) PROVE n \in flush'
        OBVIOUS
      <4>1. Finished(r) /\ k[1] = "full" /\ b \in allocated
        BY <3>1
      <4>2. StoreMove(r, evicted, k) \in StoreMoves(r, evicted)
        BY DEF StoreMove, StoreMoves
      <4>3. b \in BlocksFor(StoreMoves(r, evicted), "full")
        BY <2>2, <2>3, <2>6, <4>1, <4>2 DEF BlocksFor
      <4> QED
        BY <1>2, <1>c, <4>1, <4>3
    <3>5. Left(cuts, n, job, m)'
      <4>1. gpu'[m.block] \in Chunk(cuts, m.key) /\ phase' = "build"
        BY <1>2, <1>3, <1>4, <2>3, <2>6, <3>1
      <4>2. Taken(m.block)' => Taken(b) /\ TakenByGiven(b)
        BY <2>6, <3>1, <3>3
      <4>3. TakenByGiven(b) => TakenByGiven(m.block)'
        BY <2>6, <3>3
      <4>4. Taken(b) => (n \in flush)'
        BY <3>4
      <4> QED
        BY <1>2, <1>3, <3>2, <4>1, <4>2, <4>3, <4>4 DEF Left, Doomed
    <3> QED
      BY <3>5
  <2> QED
    BY <2>7, <2>8, <2>9
<1>10. Claims(cuts)'
  BY <1>0, <1>7, <1>8, <1>9 DEF Claims
<1>11. Copied(cuts)'
  <2>1. SlotTypes
    BY DEF SlotsRight
  <2>2. \A k \in Keys : slotOf[k] # 0 /\ k \notin evicted => slotOf'[k] = slotOf[k]
    BY <2>1, StoreTakes
  <2>3. \A k \in ready' : k \in ready /\ slotOf'[k] = slotOf[k]
    BY <1>2, <2>1, <2>2 DEF SlotTypes
  <2> QED
    BY <1>1, <1>2, <1>4, <2>3 DEF Contents, Copied, Fresh
<1> QED
  BY <1>7, <1>10, <1>11 DEF Contents

\* The metadata goes to the worker, with the jobs to flush.
LEMMA EndMetaContents ==
  ASSUME NEW cuts, Travel, Books, TablesRight, SlotsRight, Contents(cuts), EndMeta, UNCHANGED <<handlerVars,
         deferred, completed>>
  PROVE  Contents(cuts)'
<1>0. Quiet
  BY DEF Quiet
<1>1. /\ ToLoad' = ToLoad /\ ToSave' = ToSave /\ (\A d : Sent(d)' = Sent(d))
      /\ UNCHANGED <<deferred, completed, transfers, gpu, cpu>>
  BY <1>0, QuietWays
<1>2. /\ phase = "build" /\ phase' = "exec" /\ finishedIds' = {} /\ meta'.flush = flush
      /\ UNCHANGED <<status, computed, total, held, sched, blockIds, nextStored, threshold, slotOf, ready>>
  BY DEF EndMeta, mgrVars
<1>3. \A q \in Requests : Done(q)' = Done(q) /\ Reach(q)' = Reach(q)
  BY <1>2 DEF Done, Reach
<1>4. Texts(cuts)'
  BY <1>1, <1>2, <1>3, TextsKept DEF Contents
<1>5. Copied(cuts)'
  BY <1>1, <1>2, CopiedKept DEF Contents
<1>6. \A r, k, b : Own(r, k, b)' <=> Own(r, k, b)
  BY <1>2 DEF Own
<1>7. \A b : (Taken(b)' <=> Taken(b)) /\ (TakenByGiven(b)' <=> TakenByGiven(b))
  BY <1>1, <1>2 DEF Taken, TakenByGiven, In, Given
<1>8. \A j : Doomed(j)' <=> Doomed(j)
  BY <1>2 DEF Doomed
<1>9. Later' = Later /\ Sooner' = Sooner /\ \A t : Fresh(t)' <=> Fresh(t)
  BY <1>1, <1>2 DEF Later, Sooner, Fresh
<1>10. ASSUME NEW t, NEW m, Left(cuts, t.id, t.job, m) PROVE Left(cuts, t.id, t.job, m)'
  <2>1. /\ gpu[m.block] \in Chunk(cuts, m.key) /\ (Watched(t.job, m) \/ Doomed(t.id))
        /\ Taken(m.block) => Doomed(t.id) /\ TakenByGiven(m.block)
    BY <1>2, <1>10 DEF Left
  <2>2. gpu' = gpu /\ (Watched(t.job, m)' <=> Watched(t.job, m))
    BY <1>1, <1>2 DEF Watched, Finished
  <2> QED
    BY <1>2, <1>7, <1>8, <2>1, <2>2 DEF Left
<1>11. Claims(cuts)'
  <2>1. ASSUME NEW t \in Later, Fresh(t), NEW m \in t.job.moves
        PROVE  (Owned(t.job, m, Reach(t.job.req)) \/ Left(cuts, t.id, t.job, m))'
    <3>1. t.job.req \in Requests
      BY MovesAre
    <3>2. Owned(t.job, m, Reach(t.job.req)) \/ Left(cuts, t.id, t.job, m)
      BY <2>1 DEF Contents, Claims
    <3> QED
      BY <1>2, <1>3, <1>6, <1>10, <3>1, <3>2 DEF Owned, Full
  <2>2. ASSUME NEW t \in Sooner, Fresh(t), NEW m \in t.job.moves
        PROVE  (Owned(t.job, m, Done(t.job.req)) \/ Left(cuts, t.id, t.job, m))'
    <3>1. t.job.req \in Requests
      BY MovesAre
    <3>2. Owned(t.job, m, Done(t.job.req)) \/ Left(cuts, t.id, t.job, m)
      BY <2>2 DEF Contents, Claims
    <3> QED
      BY <1>2, <1>3, <1>6, <1>10, <3>1, <3>2 DEF Owned, Full
  <2> QED
    BY <1>9, <2>1, <2>2 DEF Claims
<1>12. Offers(cuts)'
  <2> SUFFICES ASSUME NEW r \in Requests, MayStore(r)', NEW k \in Keys, Offered(r, k)'
               PROVE  \/ status'[r] = "running" /\ Own(r, k, blockIds[r][k[1]][k[2] + 1])'
                      \/ Spare(cuts, r, k, blockIds[r][k[1]][k[2] + 1])'
    BY DEF Offers, OfferOf
  <2>1. status[r] = "running" /\ status'[r] = "running" /\ MayStore(r) /\ ~Finished(r)
    BY <1>2 DEF MayStore, Finished
  <2>2. Offered(r, k)
    BY <1>2 DEF Offered, Full
  <2>3. PICK b \in Blocks : b = blockIds[r][k[1]][k[2] + 1]
    BY <2>2, OfferedIs
  <2>4. Own(r, k, b) \/ Spare(cuts, r, k, b)
    BY <2>1, <2>2, <2>3 DEF Contents, Offers, OfferOf
  <2>5. b = blockIds'[r][k[1]][k[2] + 1]
    BY <1>2, <2>3
  <2>6. CASE Own(r, k, b)
    BY <1>6, <2>1, <2>5, <2>6 DEF Own
  <2>7. CASE Spare(cuts, r, k, b)
    <3>1. gpu[b] \in Chunk(cuts, k) /\ k[1] = "sliding" /\ ~Taken(b)
      BY <1>2, <2>1, <2>7 DEF Spare
    <3>2. Spare(cuts, r, k, b)'
      BY <1>1, <1>2, <1>7, <3>1 DEF Spare, Full
    <3> QED
      BY <2>5, <3>2 DEF Spare, Taken, TakenByGiven, In, Given
  <2> QED
    BY <2>4, <2>6, <2>7
<1> QED
  BY <1>4, <1>5, <1>11, <1>12 DEF Contents

\* The engine's step ends: what nobody has, nobody has just taken.
LEMMA EndStepContents ==
  ASSUME NEW cuts, Travel, Books, TablesRight, SlotsRight, Contents(cuts), EndStep
  PROVE  Contents(cuts)'
<1>0. Quiet /\ UNCHANGED <<handlerVars, deferred, completed>>
  BY DEF Quiet, EndStep
<1>1. /\ ToLoad' = ToLoad /\ ToSave' = ToSave /\ (\A d : Sent(d)' = Sent(d))
      /\ UNCHANGED <<deferred, completed, transfers, gpu, cpu>>
  BY <1>0, QuietWays
<1>2. /\ phase = "out" /\ phase' = "sched" /\ \A q \in Requests : sched[q] = 0
      /\ UNCHANGED <<status, computed, total, held, sched, blockIds, nextStored, threshold, slotOf, ready, finishedIds, tracked>>
  BY DEF EndStep, conVars, mgrVars
<1>3. \A q \in Requests : Done(q)' = Done(q) /\ Reach(q)' = Reach(q)
  BY <1>2 DEF Done, Reach
<1>4. Texts(cuts)'
  BY <1>1, <1>2, <1>3, TextsKept DEF Contents
<1>5. Copied(cuts)'
  BY <1>1, <1>2, CopiedKept DEF Contents
<1>6. \A r, k, b : Own(r, k, b)' <=> Own(r, k, b)
  BY <1>2 DEF Own
<1>7. \A b : (~Taken(b) => Settled(b)')
  BY <1>2 DEF Taken, In, Settled
<1>9. Later' = Later /\ Sooner' = Sooner /\ \A t : Fresh(t)' <=> Fresh(t)
  BY <1>1, <1>2 DEF Later, Sooner, Fresh
<1>10. ASSUME NEW t, NEW m, Left(cuts, t.id, t.job, m) PROVE Left(cuts, t.id, t.job, m)'
  <2>1. gpu[m.block] \in Chunk(cuts, m.key) /\ Watched(t.job, m) /\ ~Taken(m.block)
    BY <1>2, <1>10 DEF Left
  <2>2. gpu' = gpu /\ (Watched(t.job, m)' <=> Watched(t.job, m))
    BY <1>1, <1>2 DEF Watched, Finished
  <2> QED
    BY <1>2, <1>7, <2>1, <2>2 DEF Left
<1>11. Claims(cuts)'
  <2>1. ASSUME NEW t \in Later, Fresh(t), NEW m \in t.job.moves
        PROVE  (Owned(t.job, m, Reach(t.job.req)) \/ Left(cuts, t.id, t.job, m))'
    <3>1. t.job.req \in Requests
      BY MovesAre
    <3>2. Owned(t.job, m, Reach(t.job.req)) \/ Left(cuts, t.id, t.job, m)
      BY <2>1 DEF Contents, Claims
    <3> QED
      BY <1>2, <1>3, <1>6, <1>10, <3>1, <3>2 DEF Owned, Full
  <2>2. ASSUME NEW t \in Sooner, Fresh(t), NEW m \in t.job.moves
        PROVE  (Owned(t.job, m, Done(t.job.req)) \/ Left(cuts, t.id, t.job, m))'
    <3>1. t.job.req \in Requests
      BY MovesAre
    <3>2. Owned(t.job, m, Done(t.job.req)) \/ Left(cuts, t.id, t.job, m)
      BY <2>2 DEF Contents, Claims
    <3> QED
      BY <1>2, <1>3, <1>6, <1>10, <3>1, <3>2 DEF Owned, Full
  <2> QED
    BY <1>9, <2>1, <2>2 DEF Claims
<1>12. Offers(cuts)'
  <2> SUFFICES ASSUME NEW r \in Requests, MayStore(r)', NEW k \in Keys, Offered(r, k)'
               PROVE  \/ status'[r] = "running" /\ Own(r, k, blockIds[r][k[1]][k[2] + 1])'
                      \/ Spare(cuts, r, k, blockIds[r][k[1]][k[2] + 1])'
    BY DEF Offers, OfferOf
  <2>1. MayStore(r)
    BY <1>2 DEF MayStore, Finished
  <2>2. Offered(r, k)
    BY <1>2 DEF Offered, Full
  <2>3. PICK b \in Blocks : b = blockIds[r][k[1]][k[2] + 1]
    BY <2>2, OfferedIs
  <2>4. (status[r] = "running" /\ Own(r, k, b)) \/ Spare(cuts, r, k, b)
    BY <2>1, <2>2, <2>3 DEF Contents, Offers, OfferOf
  <2>5. b = blockIds'[r][k[1]][k[2] + 1]
    BY <1>2, <2>3
  <2>6. CASE status[r] = "running" /\ Own(r, k, b)
    BY <1>2, <1>6, <2>5, <2>6 DEF Own
  <2>7. CASE Spare(cuts, r, k, b)
    <3>1. gpu[b] \in Chunk(cuts, k) /\ (k[1] = "sliding" \/ Finished(r)) /\ ~Taken(b)
      BY <1>2, <2>7 DEF Spare
    <3>2. Spare(cuts, r, k, b)'
      BY <1>1, <1>2, <1>7, <3>1 DEF Spare, Full, Finished
    <3> QED
      BY <2>5, <3>2 DEF Spare, Settled, Taken, TakenByGiven, In, Given, New, FreshBlock
  <2> QED
    BY <2>4, <2>6, <2>7
<1> QED
  BY <1>4, <1>5, <1>11, <1>12 DEF Contents

(***************************************************************************)
(* The worker's step and its outcome.                                      *)
(***************************************************************************)

\* The last chunk of a request that stops, when it counts a token more than were
\* computed: its block holds the chunk but for that token.
LEMMA OwnedAtStop ==
  ASSUME NEW cuts, TablesRight, Books, NEW r \in Requests, TextOf(cuts, r), status[r] = "running",
         NEW k \in Keys, NEW b \in Blocks, Own(r, k, b), phase = "out",
         ~Full(k, Done(r)), Full(k, Done(r) + 1),
         Cuts' \subseteq cuts, status'[r] = "stopped", total'[r] = Done(r) + 1
  PROVE  gpu[b] \in Chunk(cuts, k)
<1> DEFINE f == k[2] * TokensPerChunk
<1>1. /\ k[1] \in Groups /\ k[2] \in Nat /\ f \in Nat /\ TokensPerChunk \in Nat \ {0}
      /\ (k[2] + 1) * TokensPerChunk = f + TokensPerChunk
  BY KeysAre, ChunkSize, Products
<1>2. Done(r) \in Nat /\ Reach(r) = Done(r)
  BY CountsAre DEF Done, Reach
<1>3. f + TokensPerChunk = Done(r) + 1
  BY <1>1, <1>2 DEF Full
<1>4. k[2] + 1 \in 1..ChunksIn(Done(r))
  <2>1. Len(held[r][k[1]]) = ChunksIn(Done(r)) /\ held[r][k[1]] \in Seq(0..NumBlocks)
    BY <1>1, <1>2 DEF TablesRight, TablesOf, TableTypes, Table
  <2> QED
    BY <2>1, SequenceIs DEF Own
<1>5. Begun(k, Done(r))
  <2>1. ChunksIn(Done(r)) \in Nat /\ (k[2] < ChunksIn(Done(r)) <=> f < Done(r))
    BY <1>1, <1>2, Ceiling
  <2> QED
    BY <1>1, <1>4, <2>1 DEF Begun
<1>6. gpu[b] = Data(k, TokensPerChunk - 1)
  <2>1. b # 0
    BY SchedulerAssumption DEF Blocks
  <2>2. gpu[b] \in Filled(cuts, k, Done(r))
    BY <1>5, <2>1 DEF TextOf, Own
  <2>3. gpu[b] = Data(k, Done(r) - f)
    BY <2>2 DEF Filled
  <2>4. Done(r) - f = TokensPerChunk - 1
    BY <1>1, <1>2, <1>3
  <2> QED
    BY <2>3, <2>4
<1>7. k \in cuts
  <2>1. k \in Cuts'
    BY <1>1, <1>3 DEF Cuts
  <2> QED
    BY <2>1
<1> QED
  BY <1>6, <1>7 DEF Chunk

\* A request's output: its scheduled tokens are computed, and it may stop there.
LEMMA OutputContents ==
  ASSUME NEW cuts, Travel, Books, TablesRight, SlotsRight, Contents(cuts), NEW r \in Requests,
         NEW stops \in BOOLEAN,
         Cuts' \subseteq cuts, RequestOutput(r, stops), UNCHANGED <<handlerVars, deferred, completed>>
  PROVE  Contents(cuts)'
<1>0. Quiet
  BY Zenon DEF Quiet
<1>1. /\ ToLoad' = ToLoad /\ ToSave' = ToSave /\ (\A d : Sent(d)' = Sent(d))
      /\ UNCHANGED <<deferred, completed, transfers, gpu, cpu>>
  BY <1>0, QuietWays
<1>2. /\ status \in [Requests -> Statuses] /\ sched \in [Requests -> Nat] /\ status[r] = "running"
      /\ computed \in [Requests -> Nat] /\ held \in [Requests -> Table] /\ sched[r] # 0
  BY DEF Books, RequestsAreKnown, TablesRight, TableTypes, RequestOutput
<1>3. /\ phase = "out" /\ phase' = "out" /\ computed' = [computed EXCEPT ![r] = computed[r] + sched[r]]
      /\ sched' = [sched EXCEPT ![r] = 0]
      /\ UNCHANGED <<blockIds, nextStored, threshold, tracked, slotOf, ready>>
      /\ \/ ~stops /\ UNCHANGED <<status, held, finishedIds>>
         \/ /\ stops /\ status' = [status EXCEPT ![r] = "stopped"] /\ held' = [held EXCEPT ![r] = NoBlocks]
            /\ finishedIds' = finishedIds \cup {r}
  BY <1>2 DEF RequestOutput, RequestFinished, mgrVars
<1>4. \A q \in Requests \ {r} : /\ status'[q] = status[q] /\ computed'[q] = computed[q] /\ sched'[q] = sched[q]
                                /\ held'[q] = held[q]
  BY <1>2, <1>3
<1>5. /\ computed'[r] = computed[r] + sched[r] /\ sched'[r] = 0
      /\ Done(r) = computed[r] + sched[r] /\ Reach(r) = computed[r] + sched[r] /\ computed'[r] \in Nat
      /\ computed[r] \in Nat /\ computed[r] <= computed'[r]
  BY <1>2, <1>3 DEF Done, Reach
<1>6. \A q \in Requests : Done(q)' = Done(q) /\ Reach(q)' = Reach(q) /\ Reach(q) = Done(q)
  BY <1>3, <1>4, <1>5 DEF Done, Reach
<1>7. \A q \in Requests : \A b : In(b, q)' => In(b, q)
  <2>1. \A q \in Requests \ {r} : \A b : In(b, q)' => In(b, q)
    BY <1>4 DEF In
  <2>2. held'[r] = held[r] \/ held'[r] = NoBlocks
    BY <1>2, <1>3
  <2>3. ASSUME NEW b, In(b, r)' PROVE In(b, r)
    <3>1. held'[r] = NoBlocks => FALSE
      BY <2>3 DEF In, NoBlocks
    <3> QED
      BY <2>2, <2>3, <3>1 DEF In
  <2> QED
    BY <2>1, <2>3
<1>8. \A b : Taken(b)' => Taken(b)
  BY <1>7 DEF Taken
<1>9. stops => status'[r] = "stopped" /\ \A b : ~In(b, r)'
  <2>1. stops => status'[r] = "stopped" /\ held'[r] = NoBlocks
    BY <1>2, <1>3
  <2> QED
    BY <2>1 DEF In, NoBlocks
<1>10. \A q \in Requests : Finished(q) => Finished(q)'
  BY <1>2, <1>4 DEF Finished
\* What a request that stops has computed is in its block, which nobody has: all of
\* a chunk, or all but the last token it counts.
<1>11. ASSUME stops, NEW k \in Keys, NEW b \in Blocks, Own(r, k, b),
              Full(k, Done(r)) \/ Full(k, Done(r) + 1)
       PROVE  gpu[b] \in Chunk(cuts, k) /\ ~Taken(b)' /\ Finished(r)'
  <2>1. gpu[b] \in Chunk(cuts, k)
    <3>1. CASE Full(k, Done(r))
      BY <1>2, <1>11, <3>1, OwnedIsWhole DEF Contents, Texts
    <3>2. CASE ~Full(k, Done(r))
      <4>1. Full(k, Done(r) + 1)
        BY <1>11, <3>2
      <4>2. status'[r] = "stopped" /\ total'[r] = Done(r) + 1
        BY <1>5, <1>9, <1>11 DEF RequestOutput, Books, RequestsAreKnown, TablesRight, TableTypes
      <4>3. TextOf(cuts, r)
        BY DEF Contents, Texts
      <4> QED
        BY <1>2, <1>3, <1>11, <3>2, <4>1, <4>2, <4>3, OwnedAtStop
    <3> QED
      BY <3>1, <3>2
  <2>2. ~Taken(b)'
    <3> SUFFICES ASSUME NEW q \in Requests, In(b, q)' PROVE FALSE
      BY DEF Taken
    <3>1. q # r
      BY <1>9, <1>11
    <3>2. In(b, q) /\ In(b, r)
      BY <1>7, <1>11, OwnIsIn
    <3> QED
      BY <3>1, <3>2, OneOwner DEF TablesRight
  <2> QED
    BY <1>9, <1>11, <2>1, <2>2 DEF Finished
<1>12. Texts(cuts)'
  <2> SUFFICES ASSUME NEW q \in Requests, status'[q] = "running" PROVE TextOf(cuts, q)'
    BY DEF Texts, TextOf
  <2>1. q = r => ~stops
    BY <1>9
  <2>2. held'[q] = held[q] /\ status[q] = "running"
    BY <1>2, <1>3, <1>4, <2>1
  <2> QED
    BY <1>1, <1>6, <2>2 DEF Contents, Texts, TextOf, Filled, Full, Begun
<1>13. Copied(cuts)'
  BY <1>1, <1>3, CopiedKept DEF Contents
<1>14. Later' = Later /\ Sooner' = Sooner /\ \A t : Fresh(t)' <=> Fresh(t)
  BY <1>1, <1>3 DEF Later, Sooner, Fresh
<1>15. ASSUME NEW t \in Later \cup Sooner, NEW m \in t.job.moves, Left(cuts, t.id, t.job, m)
       PROVE  Left(cuts, t.id, t.job, m)'
  <2>1. gpu[m.block] \in Chunk(cuts, m.key) /\ Watched(t.job, m) /\ ~Taken(m.block) /\ t.job.req \in Requests
    BY <1>3, <1>15, MovesAre DEF Left
  <2>2. Watched(t.job, m)'
    BY <1>10, <2>1 DEF Watched
  <2> QED
    BY <1>1, <1>3, <1>8, <2>1, <2>2 DEF Left
<1>16. ASSUME NEW t \in Later \cup Sooner, NEW m \in t.job.moves, Owned(t.job, m, Done(t.job.req))
       PROVE  Owned(t.job, m, Done(t.job.req))' \/ Left(cuts, t.id, t.job, m)'
  <2>1. t.job.req \in Requests /\ m.key \in Keys /\ m.block \in Blocks
    BY MovesAre
  <2>2. status[t.job.req] = "running" /\ Own(t.job.req, m.key, m.block) /\ Full(m.key, Done(t.job.req))
    BY <1>16 DEF Owned
  <2>3. CASE t.job.req = r /\ stops
    <3>1. gpu[m.block] \in Chunk(cuts, m.key) /\ ~Taken(m.block)' /\ Finished(r)'
      BY <1>11, <2>1, <2>2, <2>3
    <3>2. Watched(t.job, m)'
      BY <2>3, <3>1 DEF Watched
    <3> QED
      BY <1>1, <1>3, <3>1, <3>2 DEF Left
  <2>4. CASE ~(t.job.req = r /\ stops)
    <3>1. held'[t.job.req] = held[t.job.req] /\ status'[t.job.req] = status[t.job.req]
      BY <1>3, <1>4, <2>1, <2>4
    <3> QED
      BY <1>6, <2>1, <2>2, <3>1 DEF Owned, Own, Full
  <2> QED
    BY <2>3, <2>4
<1>17. Claims(cuts)'
  <2>1. ASSUME NEW t \in Later, Fresh(t), NEW m \in t.job.moves
        PROVE  Owned(t.job, m, Reach(t.job.req))' \/ Left(cuts, t.id, t.job, m)'
    <3>1. t.job.req \in Requests
      BY MovesAre
    <3>2. Owned(t.job, m, Reach(t.job.req)) \/ Left(cuts, t.id, t.job, m)
      BY <2>1 DEF Contents, Claims
    <3>3. Reach(t.job.req) = Done(t.job.req) /\ Reach(t.job.req)' = Done(t.job.req)'
      BY <1>6, <3>1
    <3>4. Owned(t.job, m, Reach(t.job.req)) => Owned(t.job, m, Done(t.job.req))
      BY <3>3 DEF Owned
    <3>5. Owned(t.job, m, Done(t.job.req))' => Owned(t.job, m, Reach(t.job.req))'
      BY <3>3 DEF Owned, Full
    <3> QED
      BY <1>15, <1>16, <3>2, <3>4, <3>5
  <2>2. ASSUME NEW t \in Sooner, Fresh(t), NEW m \in t.job.moves
        PROVE  Owned(t.job, m, Done(t.job.req))' \/ Left(cuts, t.id, t.job, m)'
    <3>1. Owned(t.job, m, Done(t.job.req)) \/ Left(cuts, t.id, t.job, m)
      BY <2>2 DEF Contents, Claims
    <3> QED
      BY <1>15, <1>16, <3>1
  <2> QED
    BY <1>14, <2>1, <2>2 DEF Claims
<1>18. Offers(cuts)'
  <2> SUFFICES ASSUME NEW q \in Requests, MayStore(q)', NEW k \in Keys, Offered(q, k)'
               PROVE  \/ status'[q] = "running" /\ Own(q, k, blockIds[q][k[1]][k[2] + 1])'
                      \/ Spare(cuts, q, k, blockIds[q][k[1]][k[2] + 1])'
    BY DEF Offers, OfferOf
  <2>1. MayStore(q) /\ (q = r => status[q] = "running")
    BY <1>2, <1>3, <1>4 DEF MayStore, Finished
  <2>2. Offered(q, k)
    BY <1>2, <1>3, <1>4 DEF Offered, Full
  <2>3. PICK b \in Blocks : b = blockIds[q][k[1]][k[2] + 1]
    BY <2>2, OfferedIs
  <2>4. (status[q] = "running" /\ Own(q, k, b)) \/ Spare(cuts, q, k, b)
    BY <2>1, <2>2, <2>3 DEF Contents, Offers, OfferOf
  <2>5. b = blockIds'[q][k[1]][k[2] + 1]
    BY <1>3, <2>3
  <2>6. CASE Spare(cuts, q, k, b)
    <3>1. gpu[b] \in Chunk(cuts, k) /\ (k[1] = "sliding" \/ Finished(q)) /\ ~Taken(b)
      BY <1>3, <2>6 DEF Spare
    <3>3. Spare(cuts, q, k, b)'
      BY <1>1, <1>3, <1>8, <1>10, <3>1 DEF Spare
    <3> QED
      BY <2>5, <3>3 DEF Spare, Settled, Taken, TakenByGiven, In, Given, New, FreshBlock
  <2>7. CASE status[q] = "running" /\ Own(q, k, b) /\ ~(q = r /\ stops)
    <3>1. held'[q] = held[q] /\ status'[q] = status[q]
      BY <1>3, <1>4, <2>7
    <3> QED
      BY <2>5, <2>7, <3>1 DEF Own
  <2>8. CASE Own(q, k, b) /\ q = r /\ stops
    <3>1. Full(k, computed'[r]) \/ Full(k, computed'[r] + 1)
      BY <1>9, <2>8 DEF Offered, Full
    <3>2. gpu[b] \in Chunk(cuts, k) /\ ~Taken(b)' /\ Finished(r)'
      BY <1>5, <1>11, <2>8, <3>1
    <3>3. Spare(cuts, q, k, b)'
      BY <1>1, <1>3, <2>8, <3>2 DEF Spare
    <3> QED
      BY <2>5, <3>3 DEF Spare, Settled, Taken, TakenByGiven, In, Given, New, FreshBlock
  <2> QED
    BY <2>4, <2>6, <2>7, <2>8
<1> QED
  BY <1>12, <1>13, <1>17, <1>18 DEF Contents

\* A queue after a submission has what it had, and new transfers not begun.
LEMMA SubmittedAre ==
  ASSUME NEW q, NEW X, NEW dir, NEW r, Submits(q, X, dir, r), NEW v \in Range(r)
  PROVE  \/ v \in Range(q)
         \/ \E t \in X : v.id = t.id /\ v.job = t.job /\ ~v.done /\ v.staging = Staged(dir, t.job)
<1>1. /\ Len(q) \in Nat /\ Len(r) \in Nat /\ DOMAIN q = 1..Len(q) /\ DOMAIN r = 1..Len(r)
      /\ \A i \in 1..Len(q) : r[i] = q[i]
      /\ \A i \in (Len(q) + 1)..Len(r) : \E t \in X : r[i] = Transfer(t.id, t.job, Staged(dir, t.job))
  BY DEF Submits
<1>2. PICK i \in 1..Len(r) : v = r[i]
  BY <1>1 DEF Range
<1>3. CASE i <= Len(q)
  BY <1>1, <1>2, <1>3 DEF Range
<1>4. CASE ~(i <= Len(q))
  <2>1. i \in (Len(q) + 1)..Len(r)
    BY <1>1, <1>4
  <2>2. PICK t \in X : v = Transfer(t.id, t.job, Staged(dir, t.job))
    BY <1>1, <1>2, <2>1
  <2> QED
    BY <2>2 DEF Transfer
<1> QED
  BY <1>3, <1>4

\* The stores of requests that are over, and those put off, go to the worker.
LEMMA SubmitContents ==
  ASSUME NEW cuts, Travel, Books, TablesRight, SlotsRight, FlushRight, Contents(cuts), SubmitStores
  PROVE  Contents(cuts)'
<1>1. /\ phase = "exec" /\ phase' = "flush"
      /\ ToSave' = {} /\ ToLoad' = ToLoad /\ completed = {} /\ completed' = {}
      /\ deferred' = {t \in ToSave : t.id \notin meta.flush}
      /\ transfers'["load"] = transfers["load"]
      /\ Submits(transfers["store"], Due, "store", transfers'["store"])
      /\ UNCHANGED <<meta, threshold, gpu, cpu>>
  BY StoresSubmitted
<1>2. UNCHANGED <<status, computed, total, held, sched, finishedIds, tracked, blockIds, nextStored, slotOf, ready>>
  BY DEF SubmitStores, conVars, mgrVars
<1>3. \A q \in Requests : Done(q)' = Done(q) /\ Reach(q)' = Reach(q)
  BY <1>1, <1>2 DEF Done, Reach
<1>4. Texts(cuts)'
  BY <1>1, <1>2, <1>3, TextsKept DEF Contents
<1>5. Sent("load")' = Sent("load")
  BY <1>1 DEF Sent
<1>6. \A v \in Sent("store")' : \/ v \in Sent("store")
                                \/ ~v.done /\ \E t \in Due : v.id = t.id /\ v.job = t.job
  BY <1>1, SubmittedAre DEF Sent
<1>7. Copied(cuts)'
  <2>1. \A v \in Sent("store")' : v.done => v \in Sent("store")
    BY <1>6
  <2> QED
    BY <1>1, <1>2, <1>5, <2>1 DEF Contents, Copied, Fresh
<1>8. \A r, k, b : Own(r, k, b)' <=> Own(r, k, b)
  BY <1>2 DEF Own
<1>9. \A b : (Taken(b)' <=> Taken(b)) /\ (TakenByGiven(b)' <=> TakenByGiven(b))
  BY <1>1, <1>2 DEF Taken, TakenByGiven, In, Given
<1>10. \A j : Doomed(j)' <=> Doomed(j)
  BY <1>1 DEF Doomed
<1>11. ASSUME NEW j, NEW job, NEW m, Left(cuts, j, job, m) PROVE Left(cuts, j, job, m)'
  <2>1. /\ gpu[m.block] \in Chunk(cuts, m.key) /\ (Watched(job, m) \/ Doomed(j))
        /\ Taken(m.block) => Doomed(j) /\ TakenByGiven(m.block)
    BY <1>1, <1>11 DEF Left
  <2>2. gpu' = gpu /\ (Watched(job, m)' <=> Watched(job, m))
    BY <1>1, <1>2 DEF Watched, Finished
  <2> QED
    BY <1>1, <1>9, <1>10, <2>1, <2>2 DEF Left
<1>12. Later = ToSave /\ Later' = deferred' /\ Sooner = deferred \cup {t \in Sent("store") : ~t.done}
       /\ Sooner' = {t \in Sent("store")' : ~t.done}
  BY <1>1 DEF Later, Sooner
<1>13. Claims(cuts)'
  <2>1. ASSUME NEW t \in Later', Fresh(t)', NEW m \in t.job.moves
        PROVE  Owned(t.job, m, Reach(t.job.req))' \/ Left(cuts, t.id, t.job, m)'
    <3>1. t \in Later /\ Fresh(t)
      BY <1>1, <1>12, <2>1 DEF Fresh
    <3>2. t.job.req \in Requests
      BY <3>1, MovesAre
    <3>3. Owned(t.job, m, Reach(t.job.req)) \/ Left(cuts, t.id, t.job, m)
      BY <3>1 DEF Contents, Claims
    <3> QED
      BY <1>2, <1>3, <1>8, <1>11, <3>2, <3>3 DEF Owned, Full
  <2>2. ASSUME NEW v \in Sooner', Fresh(v)', NEW m \in v.job.moves
        PROVE  Owned(v.job, m, Done(v.job.req))' \/ Left(cuts, v.id, v.job, m)'
    <3>1. \/ \E t \in Sooner : v.id = t.id /\ v.job = t.job
          \/ \E t \in ToSave : v.id = t.id /\ v.job = t.job /\ t.id \in meta.flush
      BY <1>6, <1>12 DEF Due
    <3>2. CASE \E t \in Sooner : v.id = t.id /\ v.job = t.job
      <4>1. PICK t \in Sooner : v.id = t.id /\ v.job = t.job
        BY <3>2
      <4>2. Fresh(t) /\ t.job.req \in Requests
        BY <1>1, <2>2, <4>1, MovesAre DEF Fresh
      <4>3. Owned(v.job, m, Done(v.job.req)) \/ Left(cuts, v.id, v.job, m)
        BY <4>1, <4>2 DEF Contents, Claims
      <4> QED
        BY <1>2, <1>3, <1>8, <1>11, <4>1, <4>2, <4>3 DEF Owned, Full
    <3>3. CASE \E t \in ToSave : v.id = t.id /\ v.job = t.job /\ t.id \in meta.flush
      <4>1. PICK t \in ToSave : v.id = t.id /\ v.job = t.job /\ t.id \in meta.flush
        BY <3>3
      <4>2. Fresh(t)
        BY <1>1, <2>2, <4>1 DEF Fresh
      <4>3. Owned(v.job, m, Reach(v.job.req)) \/ Left(cuts, v.id, v.job, m)
        BY <1>12, <4>1, <4>2 DEF Contents, Claims
      <4>4. Finished(t.job.req)
        BY <1>1, <4>1 DEF FlushRight, DoomedOver, Doomed
      <4>5. ~Owned(v.job, m, Reach(v.job.req))
        BY <4>1, <4>4 DEF Owned, Finished
      <4> QED
        BY <1>11, <4>3, <4>5
    <3> QED
      BY <3>1, <3>2, <3>3
  <2> QED
    BY <2>1, <2>2 DEF Claims
<1>14. Offers(cuts)'
  <2> SUFFICES ASSUME NEW r \in Requests, MayStore(r)', NEW k \in Keys, Offered(r, k)'
               PROVE  \/ status'[r] = "running" /\ Own(r, k, blockIds[r][k[1]][k[2] + 1])'
                      \/ Spare(cuts, r, k, blockIds[r][k[1]][k[2] + 1])'
    BY DEF Offers, OfferOf
  <2>1. MayStore(r)
    BY <1>1, <1>2 DEF MayStore, Finished
  <2>2. Offered(r, k)
    BY <1>2 DEF Offered, Full
  <2>3. PICK b \in Blocks : b = blockIds[r][k[1]][k[2] + 1]
    BY <2>2, OfferedIs
  <2>4. (status[r] = "running" /\ Own(r, k, b)) \/ Spare(cuts, r, k, b)
    BY <2>1, <2>2, <2>3 DEF Contents, Offers, OfferOf
  <2>5. b = blockIds'[r][k[1]][k[2] + 1]
    BY <1>2, <2>3
  <2>6. CASE status[r] = "running" /\ Own(r, k, b)
    BY <1>2, <1>8, <2>5, <2>6 DEF Own
  <2>7. CASE Spare(cuts, r, k, b)
    <3>1. gpu[b] \in Chunk(cuts, k) /\ (k[1] = "sliding" \/ Finished(r)) /\ ~Taken(b)
      BY <1>1, <2>7 DEF Spare
    <3>2. Spare(cuts, r, k, b)'
      BY <1>1, <1>2, <1>9, <3>1 DEF Spare, Full, Finished
    <3> QED
      BY <2>5, <3>2 DEF Spare, Settled, Taken, TakenByGiven, In, Given, New, FreshBlock
  <2> QED
    BY <2>4, <2>6, <2>7
<1> QED
  BY <1>4, <1>7, <1>13, <1>14 DEF Contents

\* The forward pass writes chunk k of request r, into block b.
Writer(r, k, b) ==
  /\ sched[r] # 0
  /\ k[2] \in (computed[r] \div TokensPerChunk)..((computed[r] + sched[r] - 1) \div TokensPerChunk)
  /\ held[r][k[1]][k[2] + 1] = b

\* Which chunks: those not full before and begun after.
LEMMA WrittenChunks ==
  ASSUME NEW c \in Nat, NEW n \in Nat, n # 0, NEW k \in Keys
  PROVE  k[2] \in (c \div TokensPerChunk)..((c + n - 1) \div TokensPerChunk) <=> ~Full(k, c) /\ Begun(k, c + n)
<1> DEFINE i == k[2]
           t == TokensPerChunk
           p == c \div t
           e == c + n - 1
           q == e \div t
<1>1. i \in Nat /\ t \in Nat \ {0} /\ e \in Nat /\ c + n = e + 1
  BY KeysAre, ChunkSize
<1> HIDE DEF e, t, i
<1>2. /\ p \in Nat /\ (i < p <=> (i + 1) * t <= c)
      /\ q \in Nat /\ q * t <= e
  BY <1>1, Floor
<1>3. ~((q + 1) * t <= e)
  BY <1>1, <1>2, Floor
<1> HIDE DEF p, q
<1>4. /\ i * t \in Nat /\ q * t \in Nat /\ (q + 1) * t = q * t + t
      /\ (q < i <=> q * t + t <= i * t)
      /\ (i < q <=> i * t < q * t)
  BY <1>1, <1>2, Products
<1>5. i <= q <=> i * t <= e
  <2>1. CASE i < q
    BY <1>1, <1>2, <1>4, <2>1
  <2>2. CASE i = q
    BY <1>1, <1>2, <2>2
  <2>3. CASE q < i
    BY <1>1, <1>2, <1>3, <1>4, <2>3
  <2> QED
    BY <1>1, <1>2, <2>1, <2>2, <2>3
<1>6. i \in p..q <=> ~((i + 1) * t <= c) /\ i * t < e + 1
  BY <1>1, <1>2, <1>4, <1>5
<1> QED
  BY <1>1, <1>6 DEF Full, Begun, i, t, p, q, e

\* It writes the blocks of running requests.
LEMMA WriterIs ==
  ASSUME Books, TablesRight, NEW r \in Requests, NEW k \in Keys, NEW b, Writer(r, k, b)
  PROVE  /\ status[r] = "running" /\ Given(r) /\ Own(r, k, b) /\ In(b, r)
         /\ ~Full(k, computed[r]) /\ Begun(k, Reach(r))
<1>1. status[r] = "running" /\ sched[r] # 0 /\ sched[r] \in Nat /\ computed[r] \in Nat
  BY DEF Writer, Books, RequestsAreKnown, TablesRight, TableTypes
<1>2. ~Full(k, computed[r]) /\ Begun(k, Reach(r))
  BY <1>1, WrittenChunks DEF Writer, Reach
<1>3. k[1] \in Groups /\ k[2] \in Nat /\ Reach(r) \in Nat
  BY <1>1, KeysAre DEF Reach
<1>4. k[2] < ChunksIn(Reach(r)) /\ ChunksIn(Reach(r)) \in Nat
  BY <1>2, <1>3, Ceiling DEF Begun
<1>5. Len(held[r][k[1]]) = ChunksIn(Reach(r)) /\ held[r][k[1]] \in Seq(0..NumBlocks)
  BY <1>1, <1>3 DEF TablesRight, TablesOf, TableTypes, Table
<1>6. k[2] + 1 \in DOMAIN held[r][k[1]]
  <2>1. DOMAIN held[r][k[1]] = 1..ChunksIn(Reach(r))
    BY <1>5, SequenceIs
  <2> QED
    BY <1>3, <1>4, <2>1
<1>7. Own(r, k, b)
  BY <1>6 DEF Own, Writer
<1> QED
  BY <1>1, <1>2, <1>7, OwnIsIn DEF Given

\* What Forward leaves in a block: what it held, or what one of its writers made.
LEMMA ForwardWrites ==
  ASSUME Forward, DOMAIN gpu = Blocks
  PROVE  /\ DOMAIN gpu' = Blocks
         /\ \A b \in Blocks : (\A r \in Requests, k \in Keys : ~Writer(r, k, b)) => gpu'[b] = gpu[b]
         /\ \A b \in Blocks : (\E r \in Requests, k \in Keys : Writer(r, k, b)) =>
              \E r \in Requests, k \in Keys : Writer(r, k, b) /\ gpu'[b] = Written(r, k, b)
<1> DEFINE Writes(b) == {w \in Requests \X Keys : Writer(w[1], w[2], b)}
           One(b) == CHOOSE w \in Writes(b) : TRUE
<1>1. gpu' = [b \in Blocks |-> IF Writes(b) = {} THEN gpu[b] ELSE Written(One(b)[1], One(b)[2], b)]
  BY DEF Forward, Writer
<1>2. \A b : Writes(b) # {} => One(b) \in Writes(b)
  OBVIOUS
<1>3. \A b, w : w \in Writes(b) <=> w \in Requests \X Keys /\ Writer(w[1], w[2], b)
  OBVIOUS
<1> HIDE DEF Writes, One
<1>4. ASSUME NEW b \in Blocks, \A r \in Requests, k \in Keys : ~Writer(r, k, b) PROVE gpu'[b] = gpu[b]
  <2>1. Writes(b) = {}
    BY <1>3, <1>4
  <2> QED
    BY <1>1, <2>1
<1>5. ASSUME NEW b \in Blocks, NEW r \in Requests, NEW k \in Keys, Writer(r, k, b)
      PROVE  \E q \in Requests, l \in Keys : Writer(q, l, b) /\ gpu'[b] = Written(q, l, b)
  <2>1. <<r, k>> \in Requests \X Keys /\ <<r, k>>[1] = r /\ <<r, k>>[2] = k
    OBVIOUS
  <2>2. Writes(b) # {}
    BY <1>3, <1>5, <2>1
  <2>3. One(b) \in Requests \X Keys /\ Writer(One(b)[1], One(b)[2], b)
    BY <1>2, <1>3, <2>2
  <2>4. gpu'[b] = Written(One(b)[1], One(b)[2], b)
    BY <1>1, <2>2
  <2> QED
    BY <2>3, <2>4
<1> QED
  BY <1>1, <1>4, <1>5, SMTT(30)

\* A block is written by its owner only.
LEMMA OwnerWrites ==
  ASSUME Books, TablesRight, Forward, DOMAIN gpu = Blocks, NEW b \in Blocks
  PROVE  /\ ~TakenByGiven(b) => gpu'[b] = gpu[b]
         /\ \A r \in Requests, k \in Keys : Own(r, k, b) =>
              /\ Writer(r, k, b) => gpu'[b] = Written(r, k, b)
              /\ ~Writer(r, k, b) => gpu'[b] = gpu[b]
<1>1. ASSUME NEW r \in Requests, NEW k \in Keys, Own(r, k, b), NEW q \in Requests, NEW l \in Keys, Writer(q, l, b)
      PROVE  q = r /\ l = k
  <2>1. Own(q, l, b) /\ In(b, q) /\ In(b, r)
    BY <1>1, WriterIs, OwnIsIn
  <2>2. q = r
    BY <2>1, OneOwner DEF TablesRight
  <2>3. l[1] \in Groups /\ l[2] \in Nat /\ k[1] \in Groups /\ k[2] \in Nat /\ l = <<l[1], l[2]>> /\ k = <<k[1], k[2]>>
    BY KeysAre
  <2>4. l[1] = k[1] /\ l[2] + 1 = k[2] + 1
    <3>1. l[2] + 1 \in DOMAIN held[r][l[1]] /\ held[r][l[1]][l[2] + 1] = b
      BY <2>1, <2>2 DEF Own
    <3>2. Exclusive
      BY DEF TablesRight
    <3> QED
      BY <1>1, <2>3, <3>1, <3>2, OnePlace
  <2>5. l[2] = k[2]
    BY <2>3, <2>4
  <2> QED
    BY <2>2, <2>3, <2>4, <2>5
<1>2. ASSUME ~TakenByGiven(b) PROVE gpu'[b] = gpu[b]
  <2>1. \A q \in Requests, l \in Keys : ~Writer(q, l, b)
    BY <1>2, WriterIs DEF TakenByGiven
  <2> QED
    BY <2>1, ForwardWrites
<1>3. ASSUME NEW r \in Requests, NEW k \in Keys, Own(r, k, b), Writer(r, k, b) PROVE gpu'[b] = Written(r, k, b)
  <2>1. PICK q \in Requests, l \in Keys : Writer(q, l, b) /\ gpu'[b] = Written(q, l, b)
    BY <1>3, ForwardWrites
  <2>2. q = r /\ l = k
    BY <1>1, <1>3, <2>1
  <2> QED
    BY <2>1, <2>2
<1>4. ASSUME NEW r \in Requests, NEW k \in Keys, Own(r, k, b), ~Writer(r, k, b) PROVE gpu'[b] = gpu[b]
  <2>1. \A q \in Requests, l \in Keys : ~Writer(q, l, b)
    BY <1>1, <1>4
  <2> QED
    BY <2>1, ForwardWrites
<1> QED
  BY <1>2, <1>3, <1>4

\* What the forward pass leaves in the block of a chunk of a running request.
LEMMA OwnerText ==
  ASSUME NEW cuts, Books, TablesRight, Texts(cuts), Forward, DOMAIN gpu = Blocks, NEW r \in Requests,
         status[r] = "running",
         NEW k \in Keys, NEW b \in Blocks, Own(r, k, b), Begun(k, Reach(r))
  PROVE  gpu'[b] \in Filled(cuts, k, Reach(r))
<1>2. computed[r] \in Nat /\ sched[r] \in Nat /\ Reach(r) \in Nat
  BY CountsAre
<1>1. phase = "flush" /\ Done(r) = computed[r] /\ Reach(r) = computed[r] + sched[r]
  <2>1. phase = "flush"
    BY DEF Forward
  <2> QED
    BY <1>2, <2>1, SMTT(30) DEF Done, Reach
<1>3. k[2] + 1 \in DOMAIN held[r][k[1]] /\ held[r][k[1]][k[2] + 1] = b /\ b # 0
  BY SchedulerAssumption DEF Own, Blocks
<1>4. Begun(k, Done(r)) => gpu[b] \in Filled(cuts, k, Done(r))
  BY <1>3 DEF Texts, TextOf
<1>5. CASE Writer(r, k, b)
  <2>1. gpu'[b] = Written(r, k, b) /\ ~Full(k, computed[r])
    BY <1>5, OwnerWrites, WriterIs
  <2> DEFINE f == k[2] * TokensPerChunk
             c == computed[r]
             n == sched[r]
  <2>2. f \in Nat /\ TokensPerChunk \in Nat \ {0} /\ (k[2] + 1) * TokensPerChunk = f + TokensPerChunk
    BY KeysAre, ChunkSize, Products
  <2>3. c <= f \/ gpu[b] = Data(k, c - f)
    <3>1. SUFFICES ASSUME ~(c <= f) PROVE gpu[b] = Data(k, c - f)
      OBVIOUS
    <3>2. Begun(k, c)
      BY <1>2, <2>2, <3>1 DEF Begun
    <3> QED
      BY <1>1, <1>4, <2>1, <3>2 DEF Filled
  <2>4. Full(k, Reach(r)) <=> ~(c + n < f + TokensPerChunk)
    BY <1>1, <1>2, <2>2 DEF Full
  <2>5. CASE c + n < f + TokensPerChunk
    <3>1. Written(r, k, b) = Data(k, (c + n) - f)
      BY <2>3, <2>5 DEF Written
    <3>2. Data(k, (c + n) - f) \in Filled(cuts, k, Reach(r))
      BY <1>1, <2>4, <2>5 DEF Filled
    <3> QED
      BY <2>1, <3>1, <3>2
  <2>6. CASE ~(c + n < f + TokensPerChunk)
    <3>1. Written(r, k, b) = Data(k, (f + TokensPerChunk) - f)
      BY <2>3, <2>6 DEF Written
    <3>2. Data(k, TokensPerChunk) \in Filled(cuts, k, Reach(r))
      BY <1>1, <2>4, <2>6 DEF Filled, Whole, Chunk
    <3>3. (f + TokensPerChunk) - f = TokensPerChunk
      BY <2>2
    <3> QED
      BY <2>1, <3>1, <3>2, <3>3
  <2> QED
    BY <2>5, <2>6
<1>6. CASE ~Writer(r, k, b)
  <2>1. gpu'[b] = gpu[b]
    BY <1>6, OwnerWrites
  <2>2. CASE sched[r] = 0
    BY <1>1, <1>2, <1>4, <2>1, <2>2
  <2>3. CASE sched[r] # 0
    <3>1. Full(k, computed[r])
      BY <1>1, <1>2, <1>3, <1>6, <2>3, WrittenChunks DEF Writer
    <3>2. Full(k, Reach(r))
      BY <1>1, <1>2, <3>1, FullGrows
    <3> QED
      BY <1>1, <1>2, <1>4, <2>1, <3>1, <3>2, WholeIsBegun
  <2> QED
    BY <2>2, <2>3
<1> QED
  BY <1>5, <1>6

\* The forward pass and the submission of the loads.
LEMMA ForwardContents ==
  ASSUME NEW cuts, Travel, Books, TablesRight, SlotsRight, FlushRight, Contents(cuts), Forward
  PROVE  Contents(cuts)'
<1>1. /\ phase = "flush" /\ phase' = "collect" /\ Waited(meta.flush)
      /\ ToSave = {} /\ ToSave' = {} /\ ToLoad' = {} /\ completed' = {}
      /\ deferred' = deferred /\ transfers'["store"] = transfers["store"]
      /\ Submits(transfers["load"], ToLoad, "load", transfers'["load"])
      /\ UNCHANGED <<threshold, cpu>>
  BY LoadsSubmitted, SMTT(30)
<1>2. UNCHANGED <<status, computed, total, held, sched, finishedIds, tracked, blockIds, nextStored, slotOf, ready>>
  BY DEF Forward, conVars, mgrVars
<1>3. \A q \in Requests : Done(q)' = Reach(q) /\ Done(q) = computed[q]
  <2> SUFFICES ASSUME NEW q \in Requests PROVE Done(q)' = Reach(q) /\ Done(q) = computed[q]
    OBVIOUS
  <2>1. computed[q] \in Nat
    BY CountsAre
  <2> QED
    BY <1>1, <1>2, <2>1 DEF Done, Reach
<1>4. DOMAIN gpu = Blocks /\ Texts(cuts)
  BY DEF Contents, Copied
<1>5. \A r, k, b : Own(r, k, b)' <=> Own(r, k, b)
  BY <1>2 DEF Own
<1>6. \A b : (Taken(b)' <=> Taken(b)) /\ (~Taken(b) => ~TakenByGiven(b))
  BY <1>2 DEF Taken, TakenByGiven, In
<1>7. Texts(cuts)'
  <2> SUFFICES ASSUME NEW r \in Requests, status'[r] = "running", NEW k \in Keys,
                      k[2] + 1 \in DOMAIN held'[r][k[1]], held'[r][k[1]][k[2] + 1] # 0, Begun(k, Done(r)')
               PROVE  gpu'[held'[r][k[1]][k[2] + 1]] \in Filled(cuts, k, Done(r)')
    BY DEF Texts, TextOf, Begun, Filled, Full
  <2>1. held[r] \in Table /\ status[r] = "running"
    BY <1>2 DEF TablesRight, TableTypes
  <2>2. PICK b \in Blocks : b = held[r][k[1]][k[2] + 1]
    BY <1>2, <2>1, TableBlock
  <2>3. Own(r, k, b) /\ Begun(k, Reach(r))
    BY <1>2, <1>3, <2>2 DEF Own
  <2>4. gpu'[b] \in Filled(cuts, k, Reach(r))
    BY <1>4, <2>1, <2>3, OwnerText
  <2> QED
    BY <1>2, <1>3, <2>2, <2>4
<1>8. Copied(cuts)'
  <2>1. DOMAIN gpu' = Blocks /\ DOMAIN cpu' = Slots
    BY <1>1, <1>4, ForwardWrites DEF Contents, Copied
  <2>2. \A k \in ready : cpu[slotOf[k]] \in Chunk(cuts, k)
    BY DEF Contents, Copied
  <2>3. Sent("store")' = Sent("store")
    BY <1>1 DEF Sent
  <2>4. \A t \in Sent("store") : t.done /\ Fresh(t) => \A m \in t.job.moves : t.staging[m] \in Chunk(cuts, m.key)
    BY DEF Contents, Copied
  <2>5. ASSUME NEW v \in Sent("load")', NEW m \in v.job.moves
        PROVE  IF v.done THEN gpu'[m.block] \in Chunk(cuts, m.key) ELSE v.staging[m] \in Chunk(cuts, m.key)
    <3>1. \/ v \in Sent("load")
          \/ \E t \in ToLoad : v.id = t.id /\ v.job = t.job /\ ~v.done /\ v.staging = Staged("load", t.job)
      BY <1>1, SubmittedAre DEF Sent
    <3>2. CASE v \in Sent("load")
      <4>1. IF v.done THEN gpu[m.block] \in Chunk(cuts, m.key) ELSE v.staging[m] \in Chunk(cuts, m.key)
        BY <3>2 DEF Contents, Copied
      <4>2. v.job.req \in Requests /\ LoadOf(v, v.job.req)
        BY <3>2 DEF TablesRight, Loads
      <4>3. m.key \in Keys /\ m.block \in Blocks /\ Own(v.job.req, m.key, m.block) /\ status[v.job.req] # "running"
        BY <4>2 DEF LoadOf
      <4>4. ~Writer(v.job.req, m.key, m.block)
        BY <4>2, <4>3, WriterIs
      <4>5. gpu'[m.block] = gpu[m.block]
        BY <1>4, <4>2, <4>3, <4>4, OwnerWrites
      <4> QED
        BY <4>1, <4>5
    <3>3. CASE \E t \in ToLoad : v.id = t.id /\ v.job = t.job /\ ~v.done /\ v.staging = Staged("load", t.job)
      <4>1. PICK t \in ToLoad : v.id = t.id /\ v.job = t.job /\ ~v.done /\ v.staging = Staged("load", t.job)
        BY <3>3
      <4>2. m.key \in ready /\ slotOf[m.key] = m.slot
        BY <2>5, <4>1 DEF SlotsRight, Reading, Reads
      <4>3. v.staging[m] = cpu[m.slot]
        BY <2>5, <4>1 DEF Staged
      <4> QED
        BY <2>2, <4>1, <4>2, <4>3
    <3> QED
      BY <3>1, <3>2, <3>3
  <2> QED
    BY <1>1, <1>2, <2>1, <2>2, <2>3, <2>4, <2>5 DEF Copied, Fresh
<1>9. ASSUME NEW j, NEW job, NEW m, Left(cuts, j, job, m), ~Doomed(j), m.block \in Blocks PROVE Left(cuts, j, job, m)'
  <2>1. gpu[m.block] \in Chunk(cuts, m.key) /\ Watched(job, m) /\ ~Taken(m.block)
    BY <1>1, <1>9 DEF Left
  <2>2. gpu'[m.block] = gpu[m.block]
    BY <1>4, <1>6, <1>9, <2>1, OwnerWrites
  <2>3. Watched(job, m)' <=> Watched(job, m)
    BY <1>2 DEF Watched, Finished
  <2> QED
    BY <1>1, <1>6, <2>1, <2>2, <2>3 DEF Left
<1>10. /\ Later' = {} /\ Later = deferred /\ Sooner = {t \in Sent("store") : ~t.done}
       /\ Sooner' = deferred \cup {t \in Sent("store") : ~t.done}
  BY <1>1 DEF Later, Sooner, Sent
<1>11. Claims(cuts)'
  <2>1. ASSUME NEW t \in Sooner', Fresh(t)', NEW m \in t.job.moves
        PROVE  Owned(t.job, m, Done(t.job.req))' \/ Left(cuts, t.id, t.job, m)'
    <3>1. t \in Later \cup Sooner /\ Fresh(t)
      BY <1>1, <1>10, <2>1 DEF Fresh
    <3>2. t.job.req \in Requests /\ m.key \in Keys /\ m.block \in Blocks
      BY <3>1, MovesAre
    <3>3. Reach(t.job.req) \in Nat /\ computed[t.job.req] \in Nat /\ computed[t.job.req] <= Reach(t.job.req)
      BY <3>2, CountsAre
    <3>4. ~Doomed(t.id)
      <4>1. CASE t \in deferred
        BY <1>1, <4>1 DEF FlushRight, PutOff, Doomed
      <4>2. CASE t \in Sent("store") /\ ~t.done
        <5>1. t.id \notin meta.flush
          BY <1>1, <4>2 DEF Waited, Sent, Range, Directions
        <5> QED
          BY <1>1, <5>1 DEF Doomed
      <4> QED
        BY <1>10, <2>1, <4>1, <4>2
    <3>5. Owned(t.job, m, Reach(t.job.req)) \/ Left(cuts, t.id, t.job, m)
      <4>1. CASE t \in deferred
        BY <1>10, <3>1, <4>1 DEF Contents, Claims
      <4>2. CASE t \notin deferred
        <5>1. Owned(t.job, m, Done(t.job.req)) \/ Left(cuts, t.id, t.job, m)
          BY <1>10, <2>1, <3>1, <4>2 DEF Contents, Claims
        <5> QED
          BY <1>3, <3>2, <3>3, <5>1, FullGrows DEF Owned
      <4> QED
        BY <4>1, <4>2
    <3> QED
      BY <1>2, <1>3, <1>5, <1>9, <3>2, <3>4, <3>5 DEF Owned, Full
  <2> QED
    BY <1>10, <2>1 DEF Claims
<1>12. Offers(cuts)'
  <2> SUFFICES ASSUME NEW r \in Requests, MayStore(r)', NEW k \in Keys, Offered(r, k)'
               PROVE  \/ status'[r] = "running" /\ Own(r, k, blockIds[r][k[1]][k[2] + 1])'
                      \/ Spare(cuts, r, k, blockIds[r][k[1]][k[2] + 1])'
    BY DEF Offers, OfferOf
  <2>1. MayStore(r)
    BY <1>1, <1>2 DEF MayStore, Finished
  <2>2. Offered(r, k)
    BY <1>2 DEF Offered, Full
  <2>3. PICK b \in Blocks : b = blockIds[r][k[1]][k[2] + 1]
    BY <2>2, OfferedIs
  <2>4. (status[r] = "running" /\ Own(r, k, b)) \/ Spare(cuts, r, k, b)
    BY <2>1, <2>2, <2>3 DEF Contents, Offers, OfferOf
  <2>5. b = blockIds'[r][k[1]][k[2] + 1]
    BY <1>2, <2>3
  <2>6. CASE status[r] = "running" /\ Own(r, k, b)
    BY <1>2, <1>5, <2>5, <2>6 DEF Own
  <2>7. CASE Spare(cuts, r, k, b)
    <3>1. gpu[b] \in Chunk(cuts, k) /\ (k[1] = "sliding" \/ Finished(r)) /\ ~Taken(b)
      BY <1>1, <2>7 DEF Spare
    <3>2. gpu'[b] = gpu[b]
      BY <1>4, <1>6, <3>1, OwnerWrites
    <3>3. Spare(cuts, r, k, b)'
      BY <1>1, <1>2, <1>6, <3>1, <3>2 DEF Spare, Full, Finished
    <3> QED
      BY <2>5, <3>3 DEF Spare, Settled, Taken, TakenByGiven, In, Given, New, FreshBlock
  <2> QED
    BY <2>4, <2>6, <2>7
<1> QED
  BY <1>7, <1>8, <1>11, <1>12 DEF Contents

\* A GPU copy that spares the blocks nobody owns any more.
LEMMA CopyKeeps ==
  ASSUME NEW cuts, Travel, Books, TablesRight, SlotsRight, Contents(cuts), UNCHANGED <<schedVars, deferred,
         completed>>, Texts(cuts)', Copied(cuts)',
         ToLoad' = ToLoad, ToSave' = ToSave, NEW S, S = Sooner, Among(Sooner', S),
         \A t \in Later \cup Sooner : \A m \in t.job.moves :
            Left(cuts, t.id, t.job, m) => gpu'[m.block] = gpu[m.block],
         \A r \in Requests, k \in Keys, b \in Blocks : Spare(cuts, r, k, b) => gpu'[b] = gpu[b]
  PROVE  Contents(cuts)'
<1>1. /\ UNCHANGED <<phase, meta, status, computed, total, held, sched, finishedIds, preempted, tracked, flush>>
      /\ UNCHANGED <<blockIds, nextStored, threshold, allocated, toStore, deferred, completed>>
  BY DEF schedVars, extVars, conVars, mgrVars
<1>2. \A q \in Requests : Done(q)' = Done(q) /\ Reach(q)' = Reach(q)
  BY <1>1 DEF Done, Reach
<1>3. \A r, k, b : Own(r, k, b)' <=> Own(r, k, b)
  BY <1>1 DEF Own
<1>4. \A b : (Taken(b)' <=> Taken(b)) /\ (TakenByGiven(b)' <=> TakenByGiven(b)) /\ (Settled(b)' <=> Settled(b))
  <2>1. \A b, q : (In(b, q)' <=> In(b, q)) /\ (Given(q)' <=> Given(q)) /\ (New(b, q)' <=> New(b, q))
    BY <1>1 DEF In, Given, New, FreshBlock
  <2> QED
    BY <2>1 DEF Taken, TakenByGiven, Settled
<1>5. \A j : Doomed(j)' <=> Doomed(j)
  BY <1>1 DEF Doomed
<1>6. Later' = Later
  BY <1>1 DEF Later
<1>7. ASSUME NEW j, NEW job, NEW m, Left(cuts, j, job, m), gpu'[m.block] = gpu[m.block] PROVE Left(cuts, j, job, m)'
  <2>1. Watched(job, m)' <=> Watched(job, m)
    BY <1>1 DEF Watched, Finished
  <2> QED
    BY <1>1, <1>4, <1>5, <1>7, <2>1 DEF Left
<1>8. Claims(cuts)'
  <2>1. ASSUME NEW t \in Later, Fresh(t), NEW m \in t.job.moves
        PROVE  (Owned(t.job, m, Reach(t.job.req)) \/ Left(cuts, t.id, t.job, m))'
    <3>1. t.job.req \in Requests
      BY MovesAre
    <3>2. Owned(t.job, m, Reach(t.job.req)) \/ Left(cuts, t.id, t.job, m)
      BY <2>1 DEF Contents, Claims
    <3> QED
      BY <1>1, <1>2, <1>3, <1>7, <3>1, <3>2 DEF Owned, Full
  <2>2. ASSUME NEW v \in Sooner', Fresh(v)', NEW m \in v.job.moves
        PROVE  (Owned(v.job, m, Done(v.job.req)) \/ Left(cuts, v.id, v.job, m))'
    <3>1. PICK t \in Sooner : v.id = t.id /\ v.job = t.job
      BY DEF Among
    <3>2. t.job.req \in Requests /\ Fresh(t) /\ m \in t.job.moves
      BY <1>1, <2>2, <3>1, MovesAre DEF Fresh
    <3>3. Owned(t.job, m, Done(t.job.req)) \/ Left(cuts, t.id, t.job, m)
      BY <3>1, <3>2 DEF Contents, Claims
    <3> QED
      BY <1>1, <1>2, <1>3, <1>7, <3>1, <3>2, <3>3 DEF Owned, Full
  <2> QED
    BY <1>1, <1>6, <2>1, <2>2 DEF Claims, Fresh
<1>9. Offers(cuts)'
  <2> SUFFICES ASSUME NEW r \in Requests, MayStore(r)', NEW k \in Keys, Offered(r, k)'
               PROVE  \/ status'[r] = "running" /\ Own(r, k, blockIds[r][k[1]][k[2] + 1])'
                      \/ Spare(cuts, r, k, blockIds[r][k[1]][k[2] + 1])'
    BY DEF Offers, OfferOf
  <2>1. MayStore(r) /\ Offered(r, k)
    BY <1>1 DEF MayStore, Offered, Finished, Full
  <2>3. PICK b \in Blocks : b = blockIds[r][k[1]][k[2] + 1]
    BY <2>1, OfferedIs
  <2>4. (status[r] = "running" /\ Own(r, k, b)) \/ Spare(cuts, r, k, b)
    BY <2>1, <2>3 DEF Contents, Offers, OfferOf
  <2>5. b = blockIds'[r][k[1]][k[2] + 1]
    BY <1>1, <2>3
  <2>6. CASE status[r] = "running" /\ Own(r, k, b)
    BY <1>1, <1>3, <2>5, <2>6 DEF Own
  <2>7. CASE Spare(cuts, r, k, b)
    <3>1. gpu'[b] = gpu[b]
      BY <2>7
    <3>2. Spare(cuts, r, k, b)'
      BY <1>1, <1>4, <2>7, <3>1 DEF Spare, Full, Finished
    <3> QED
      BY <2>5, <3>2 DEF Spare, Settled, Taken, TakenByGiven, In, Given, New, FreshBlock
  <2> QED
    BY <2>4, <2>6, <2>7
<1> QED
  BY <1>8, <1>9 DEF Contents

\* The GPU's copy for a store reads what the chunk should be.
LEMMA StoreCopyContents ==
  ASSUME NEW cuts, Travel, Books, TablesRight, SlotsRight, FlushRight, Contents(cuts), GpuCopy, StoreCopied
  PROVE  Contents(cuts)'
<1> DEFINE q == transfers["store"]
           p == transfers'["store"]
<1>1. UNCHANGED <<phase, meta, newLoads, newStores, jobs, deferred, completed, slotOf, ready, threshold,
                  status, held, computed, sched>>
  BY DEF GpuCopy, schedVars, extVars, conVars, mgrVars
<1>2. transfers'["load"] = transfers["load"] /\ UNCHANGED <<gpu, cpu>>
  BY StoreCopyIs
<1>3. PICK i : Copies(q, i, p) /\ p[i].staging = [m \in DOMAIN q[i].staging |-> gpu[m.block]]
  BY StoreCopyIs
<1>4. ToLoad' = ToLoad /\ ToSave' = ToSave
  BY <1>1 DEF ToLoad, ToSave, Entries
<1>5. /\ Len(q) \in Nat /\ DOMAIN q = 1..Len(q) /\ DOMAIN p = 1..Len(q) /\ i \in 1..Len(q) /\ ~q[i].done
      /\ p[i].id = q[i].id /\ p[i].job = q[i].job /\ p[i].done
      /\ \A k \in 1..Len(q) : k # i => p[k] = q[k]
  BY <1>3 DEF Copies
<1>6. Sent("store")' = {p[k] : k \in 1..Len(q)} /\ Sent("store") = {q[k] : k \in 1..Len(q)}
      /\ Sent("load")' = Sent("load")
  BY <1>2, <1>5 DEF Sent, Range
<1>7. DOMAIN q[i].staging = q[i].job.moves /\ q[i] \in Sooner
  BY <1>5, <1>6 DEF FlushRight, Staging, Sooner
<1> HIDE DEF q, p
<1>8. \A v \in Sent("store")' : v \in Sent("store") \/ v = p[i]
  BY <1>5, <1>6
<1>9. \A q1 \in Requests : Done(q1)' = Done(q1)
  BY <1>1 DEF Done
<1>10. Texts(cuts)'
  BY <1>1, <1>2, <1>9, TextsKept DEF Contents
<1>11. ASSUME Fresh(q[i]), NEW m \in q[i].job.moves PROVE p[i].staging[m] \in Chunk(cuts, m.key)
  <2>1. q[i].job.req \in Requests /\ m.key \in Keys /\ m.block \in Blocks
    BY <1>7, <1>11, MovesAre
  <2>2. Owned(q[i].job, m, Done(q[i].job.req)) \/ Left(cuts, q[i].id, q[i].job, m)
    BY <1>7, <1>11 DEF Contents, Claims
  <2>3. gpu[m.block] \in Chunk(cuts, m.key)
    <3>1. CASE Owned(q[i].job, m, Done(q[i].job.req))
      <4>1. TextOf(cuts, q[i].job.req)
        BY <2>1 DEF Contents, Texts
      <4> QED
        BY <2>1, <3>1, <4>1, OwnedIsWhole DEF Owned
    <3>2. CASE Left(cuts, q[i].id, q[i].job, m)
      BY <3>2 DEF Left
    <3> QED
      BY <2>2, <3>1, <3>2
  <2> QED
    BY <1>3, <1>7, <1>11, <2>3
<1>12. Copied(cuts)'
  <2>1. \A v \in Sent("store")' : v.done /\ Fresh(v) => \A m \in v.job.moves : v.staging[m] \in Chunk(cuts, m.key)
    <3>1. \A v \in Sent("store") : v.done /\ Fresh(v) => \A m \in v.job.moves : v.staging[m] \in Chunk(cuts, m.key)
      BY DEF Contents, Copied
    <3>2. Fresh(p[i]) => \A m \in p[i].job.moves : p[i].staging[m] \in Chunk(cuts, m.key)
      BY <1>5, <1>11 DEF Fresh
    <3> QED
      BY <1>8, <3>1, <3>2
  <2>2. /\ DOMAIN gpu = Blocks /\ DOMAIN cpu = Slots
        /\ \A k \in ready : cpu[slotOf[k]] \in Chunk(cuts, k)
        /\ \A t \in completed : \A m \in t.job.moves :
              IF t.job.store THEN Fresh(t) => cpu[m.slot] \in Chunk(cuts, m.key) ELSE gpu[m.block] \in Chunk(cuts, m.key)
        /\ \A t \in Sent("load") : \A m \in t.job.moves :
              IF t.done THEN gpu[m.block] \in Chunk(cuts, m.key) ELSE t.staging[m] \in Chunk(cuts, m.key)
    BY DEF Contents, Copied
  <2> QED
    BY <1>1, <1>2, <1>6, <2>1, <2>2 DEF Copied, Fresh
<1>13. Among(Sooner', Sooner)
  BY <1>1, <1>5, <1>8 DEF Among, Sooner
<1> QED
  BY <1>2, <1>4, <1>10, <1>12, <1>13, CopyKeeps DEF GpuCopy

\* The blocks of a submitted load are in the table of its request, which is not
\* given anything in this step.
LEMMA LoadNotClear ==
  ASSUME Travel, Books, TablesRight, NEW t \in Sent("load"), NEW m \in t.job.moves
  PROVE  /\ m.block \in Blocks /\ Taken(m.block) /\ ~TakenByGiven(m.block)
         /\ \A q \in Requests : ~New(m.block, q)
         /\ \A q \in Requests : In(m.block, q) => q = t.job.req
<1> DEFINE p == t.job.req
           b == m.block
<1>1. p \in Requests /\ LoadOf(t, p) /\ t \in Loads
  BY DEF TablesRight, Loads
<1>2. m.key \in Keys /\ b \in Blocks /\ Own(p, m.key, b) /\ status[p] # "running"
  BY <1>1 DEF LoadOf
<1>3. In(b, p)
  BY <1>2, OwnIsIn
<1>4. sched[p] = 0
  BY <1>1, <1>2 DEF Books, RequestsAreKnown
<1>5. \A u \in ToLoad : u.job.req # p
  <2> SUFFICES ASSUME NEW u \in ToLoad, u.job.req = p PROVE FALSE
    OBVIOUS
  <2>1. u \in Loads
    BY DEF Loads
  <2>2. u.id = t.id
    BY <1>1, <2>1 DEF TablesRight
  <2> QED
    BY <2>2 DEF Travel, OneWay, Apart, Ids
<1>6. \A q \in Requests : In(b, q) => q = p
  BY <1>1, <1>2, <1>3, OneOwner DEF TablesRight
<1>7. ~Given(p)
  BY <1>4, <1>5 DEF Given
<1>8. ~TakenByGiven(b)
  BY <1>6, <1>7 DEF TakenByGiven
<1>9. \A q \in Requests : ~New(b, q)
  <2> SUFFICES ASSUME NEW q \in Requests, New(b, q) PROVE FALSE
    OBVIOUS
  <2>1. q = p
    BY <1>6, NewIsIn
  <2> QED
    BY <1>4, <1>5, <2>1 DEF New, FreshBlock
<1> QED
  BY <1>1, <1>2, <1>3, <1>6, <1>8, <1>9 DEF Taken

\* The GPU's copy for a load fills blocks that nobody reads yet.
LEMMA LoadCopyContents ==
  ASSUME NEW cuts, Travel, Books, TablesRight, SlotsRight, FlushRight, Contents(cuts), GpuCopy, LoadCopied
  PROVE  Contents(cuts)'
<1> DEFINE q == transfers["load"]
           p == transfers'["load"]
<1>1. UNCHANGED <<phase, meta, newLoads, newStores, jobs, deferred, completed, slotOf, ready, threshold,
                  status, held, computed, sched>>
  BY DEF GpuCopy, schedVars, extVars, conVars, mgrVars
<1>2. transfers'["store"] = transfers["store"] /\ UNCHANGED cpu
  BY LoadCopyIs
<1>3. PICK i : Copies(q, i, p) /\ p[i].staging = q[i].staging /\ gpu' = Loaded(q[i])
  BY LoadCopyIs
<1>4. ToLoad' = ToLoad /\ ToSave' = ToSave
  BY <1>1 DEF ToLoad, ToSave, Entries
<1>5. /\ Len(q) \in Nat /\ DOMAIN q = 1..Len(q) /\ DOMAIN p = 1..Len(q) /\ i \in 1..Len(q) /\ ~q[i].done
      /\ p[i].id = q[i].id /\ p[i].job = q[i].job /\ p[i].done
      /\ \A k \in 1..Len(q) : k # i => p[k] = q[k]
  BY <1>3 DEF Copies
<1>6. Sent("load")' = {p[k] : k \in 1..Len(q)} /\ Sent("load") = {q[k] : k \in 1..Len(q)}
      /\ Sent("store")' = Sent("store")
  BY <1>2, <1>5 DEF Sent, Range
<1> HIDE DEF q, p
<1>7. \A v \in Sent("load")' : v \in Sent("load") \/ v = p[i]
  BY <1>5, <1>6
<1>8. PICK t \in Sent("load") : t = q[i]
  BY <1>5, <1>6
<1>9. t.job.req \in Requests /\ LoadOf(t, t.job.req) /\ LoadShape(t.job)
  BY DEF TablesRight, SlotsRight, Shapes, Loads
<1>10. \A m \in t.job.moves : t.staging[m] \in Chunk(cuts, m.key)
  BY <1>5, <1>8 DEF Contents, Copied
<1>11. DOMAIN gpu = Blocks
  BY DEF Contents, Copied
<1>12. DOMAIN gpu' = Blocks
       /\ \A b \in Blocks : gpu'[b] = IF {m \in t.job.moves : m.block = b} = {} THEN gpu[b]
                              ELSE t.staging[CHOOSE m \in {m \in t.job.moves : m.block = b} : TRUE]
  BY <1>3, <1>8, <1>11 DEF Loaded
<1>13. ASSUME NEW b \in Blocks, \A m \in t.job.moves : m.block # b PROVE gpu'[b] = gpu[b]
  <2>1. {m \in t.job.moves : m.block = b} = {}
    BY <1>13
  <2> QED
    BY <1>12, <2>1
<1>14. ASSUME NEW m \in t.job.moves PROVE m.block \in Blocks /\ gpu'[m.block] \in Chunk(cuts, m.key)
  <2>1. m.block \in Blocks
    BY <1>9 DEF LoadOf
  <2>2. {n \in t.job.moves : n.block = m.block} = {m}
    BY <1>9 DEF LoadShape
  <2>3. (CHOOSE n \in {m} : TRUE) = m
    OBVIOUS
  <2>4. gpu'[m.block] = t.staging[m]
    BY <1>12, <2>1, <2>2, <2>3
  <2> QED
    BY <1>10, <2>1, <2>4
<1>16. Texts(cuts)'
  <2> SUFFICES ASSUME NEW r \in Requests, status'[r] = "running", NEW k \in Keys,
                      k[2] + 1 \in DOMAIN held'[r][k[1]], held'[r][k[1]][k[2] + 1] # 0, Begun(k, Done(r)')
               PROVE  gpu'[held'[r][k[1]][k[2] + 1]] \in Filled(cuts, k, Done(r)')
    BY DEF Texts, TextOf, Begun, Filled, Full
  <2>1. held[r] \in Table /\ status[r] = "running"
    BY <1>1 DEF TablesRight, TableTypes
  <2>2. PICK b \in Blocks : b = held[r][k[1]][k[2] + 1]
    BY <1>1, <2>1, TableBlock
  <2>3. Done(r)' = Done(r)
    BY <1>1 DEF Done
  <2>4. gpu[b] \in Filled(cuts, k, Done(r))
    BY <1>1, <2>1, <2>2, <2>3 DEF Contents, Texts, TextOf
  <2>5. In(b, r)
    BY <1>1, <2>2, KeysAre DEF In
  <2>6. \A m \in t.job.moves : m.block # b
    BY <1>9, <2>1, <2>5, LoadNotClear DEF LoadOf
  <2> QED
    BY <1>1, <1>13, <2>2, <2>3, <2>4, <2>6
<1>17. ASSUME NEW u \in Loads, NEW m \in u.job.moves, gpu[m.block] \in Chunk(cuts, m.key) PROVE gpu'[m.block] \in Chunk(cuts, m.key)
  <2>1. u.job.req \in Requests /\ LoadOf(u, u.job.req)
    BY DEF TablesRight
  <2>2. m.key \in Keys /\ m.block \in Blocks /\ Own(u.job.req, m.key, m.block)
    BY <2>1 DEF LoadOf
  <2>3. CASE \A n \in t.job.moves : n.block # m.block
    BY <1>13, <1>17, <2>2, <2>3
  <2>4. CASE \E n \in t.job.moves : n.block = m.block
    <3>1. PICK n \in t.job.moves : n.block = m.block
      BY <2>4
    <3>2. n.key \in Keys /\ Own(t.job.req, n.key, m.block)
      BY <1>9, <3>1 DEF LoadOf
    <3>3. u.job.req = t.job.req
      BY <2>1, <2>2, <3>1, OwnIsIn, LoadNotClear
    <3>4. n.key[1] \in Groups /\ n.key[2] \in Nat /\ n.key = <<n.key[1], n.key[2]>>
          /\ m.key[1] \in Groups /\ m.key[2] \in Nat /\ m.key = <<m.key[1], m.key[2]>>
      BY <2>2, <3>2, KeysAre
    <3>5. n.key[2] + 1 \in DOMAIN held[u.job.req][n.key[1]] /\ held[u.job.req][n.key[1]][n.key[2] + 1] = m.block
      BY <3>2, <3>3 DEF Own
    <3>6. Exclusive
      BY DEF TablesRight
    <3>7. n.key[1] = m.key[1] /\ n.key[2] + 1 = m.key[2] + 1
      BY <2>1, <2>2, <3>4, <3>5, <3>6, OnePlace
    <3>8. n.key[2] = m.key[2]
      BY <3>4, <3>7
    <3>9. n.key = m.key
      BY <3>4, <3>7, <3>8
    <3> QED
      BY <1>14, <3>1, <3>9
  <2> QED
    BY <2>3, <2>4
<1>18. Copied(cuts)'
  <2>1. \A u \in completed : \A m \in u.job.moves :
           IF u.job.store THEN Fresh(u) => cpu[m.slot] \in Chunk(cuts, m.key) ELSE gpu[m.block] \in Chunk(cuts, m.key)
    BY DEF Contents, Copied
  <2>2. \A u \in completed : \A m \in u.job.moves :
           IF u.job.store THEN Fresh(u) => cpu[m.slot] \in Chunk(cuts, m.key) ELSE gpu'[m.block] \in Chunk(cuts, m.key)
    BY <1>17, <2>1 DEF Loads
  <2>3. ASSUME NEW v \in Sent("load")', NEW m \in v.job.moves
        PROVE  IF v.done THEN gpu'[m.block] \in Chunk(cuts, m.key) ELSE v.staging[m] \in Chunk(cuts, m.key)
    <3>1. CASE v = p[i]
      BY <1>5, <1>8, <1>14, <2>3, <3>1
    <3>2. CASE v \in Sent("load")
      <4>1. IF v.done THEN gpu[m.block] \in Chunk(cuts, m.key) ELSE v.staging[m] \in Chunk(cuts, m.key)
        BY <3>2 DEF Contents, Copied
      <4> QED
        BY <1>17, <3>2, <4>1 DEF Loads
    <3> QED
      BY <1>7, <3>1, <3>2
  <2>4. /\ DOMAIN cpu = Slots
        /\ \A k \in ready : cpu[slotOf[k]] \in Chunk(cuts, k)
        /\ \A u \in Sent("store") : u.done /\ Fresh(u) => \A m \in u.job.moves : u.staging[m] \in Chunk(cuts, m.key)
    BY DEF Contents, Copied
  <2> QED
    BY <1>1, <1>2, <1>6, <1>12, <2>2, <2>3, <2>4 DEF Copied, Fresh
<1>19. ASSUME NEW v \in Later \cup Sooner, NEW m \in v.job.moves, Left(cuts, v.id, v.job, m)
       PROVE  gpu'[m.block] = gpu[m.block]
  <2>1. m.block \in Blocks
    BY MovesAre
  <2>2. ASSUME NEW n \in t.job.moves, n.block = m.block PROVE FALSE
    <3>1. Taken(m.block) /\ ~TakenByGiven(m.block) /\ \A x \in Requests : ~New(m.block, x)
      BY <2>2, LoadNotClear
    <3>2. ~Settled(m.block)
      BY <3>1 DEF Settled
    <3> QED
      BY <1>19, <3>1, <3>2 DEF Left
  <2> QED
    BY <1>13, <2>1, <2>2
<1>20. ASSUME NEW r \in Requests, NEW k \in Keys, NEW b \in Blocks, Spare(cuts, r, k, b) PROVE gpu'[b] = gpu[b]
  <2>1. ASSUME NEW n \in t.job.moves, n.block = b PROVE FALSE
    <3>1. Taken(b) /\ ~TakenByGiven(b) /\ \A x \in Requests : ~New(b, x)
      BY <2>1, LoadNotClear
    <3>2. ~Settled(b)
      BY <3>1 DEF Settled
    <3> QED
      BY <1>20, <3>1, <3>2 DEF Spare
  <2> QED
    BY <1>13, <2>1
<1>21. Sooner' = Sooner
  BY <1>1, <1>6 DEF Sooner
<1>22. Among(Sooner', Sooner)
  BY <1>21 DEF Among
<1> QED
  BY <1>4, <1>16, <1>18, <1>19, <1>20, <1>22, CopyKeeps DEF GpuCopy

\* What the host copies of the collected stores put in a slot: what the last of
\* them to write it has for it.
Writers(n, s) == {i \in 1..n : \E m \in transfers["store"][i].job.moves : m.slot = s}
LEMMA CopiedOutIs ==
  ASSUME NEW n \in Nat, NEW s \in DOMAIN cpu
  PROVE  /\ Writers(n, s) = {} => CopiedOut(n)[s] = cpu[s]
         /\ Writers(n, s) # {} =>
               \E i \in Writers(n, s) :
                  /\ \A x \in Writers(n, s) : x <= i
                  /\ CopiedOut(n)[s] = transfers["store"][i].staging
                                         [CHOOSE m \in transfers["store"][i].job.moves : m.slot = s]
<1> DEFINE last == CHOOSE i \in Writers(n, s) : \A x \in Writers(n, s) : x <= i
<1>1. CopiedOut(n)[s] = IF Writers(n, s) = {} THEN cpu[s]
                        ELSE transfers["store"][last].staging
                               [CHOOSE m \in transfers["store"][last].job.moves : m.slot = s]
  BY DEF CopiedOut, Writers
<1>2. ASSUME Writers(n, s) # {} PROVE last \in Writers(n, s) /\ \A x \in Writers(n, s) : x <= last
  <2>1. Writers(n, s) \in SUBSET (0..n)
    BY DEF Writers
  <2>2. \E i \in Writers(n, s) : \A x \in Writers(n, s) : x <= i
    BY <1>2, <2>1, GreatestIs
  <2> QED
    BY <2>2
<1> HIDE DEF last
<1> QED
  BY <1>1, <1>2

\* Among the collected stores the one that owns a slot wrote it last.
LEMMA OwnerLast ==
  ASSUME Travel, SlotsRight, NEW q, q = transfers["store"], NEW i \in DOMAIN q, NEW x \in DOMAIN q,
         Fresh(q[i]), NEW m \in q[i].job.moves, NEW n \in q[x].job.moves, n.slot = m.slot, i <= x,
         DOMAIN q = 1..Len(q), Len(q) \in Nat
  PROVE  x = i
<1>1. q[i] \in Sent("store") /\ q[x] \in Sent("store") /\ q[i] \in Stores /\ q[x] \in Stores
      /\ q[i] \in UnderWay /\ q[x] \in UnderWay
  BY DEF Sent, Range, Stores, ToCopy, UnderWay
<1> SUFFICES ASSUME x # i PROVE FALSE
  OBVIOUS
<1>2. q[i].id # q[x].id
  BY DEF Travel, OneWay, Moving, Queue, EachOnce, Directions
<1>3. Shares(q[x], q[i])
  BY DEF Shares
<1>4. ~(q[x].id < q[i].id)
  <2>1. q[x].id < q[i].id => x < i
    BY <1>3 DEF SlotsRight, SlotOrder, InTurn
  <2> QED
    BY <2>1
<1>5. Fresh(q[x])
  BY <1>1, <1>4, NumbersCompare
<1>6. slotOf[m.key] = m.slot /\ slotOf[n.key] = n.slot
  BY <1>1, <1>5 DEF SlotsRight, Owning, Owns
<1>7. m.key \in Keys /\ n.key \in Keys /\ m.slot \in Slots
  BY <1>1 DEF SlotsRight, Shapes, StoreShape, MovesOK
<1>8. m.slot # 0
  BY <1>7, SchedulerAssumption DEF Slots
<1>9. m.key = n.key
  BY <1>6, <1>7, <1>8 DEF SlotsRight, SlotTypes
<1> QED
  BY <1>1, <1>2, <1>5, <1>9 DEF SlotsRight, Owning

\* The host copies of finished stores, and the completions handed on.
LEMMA CollectContents ==
  ASSUME NEW cuts, Travel, Kinds, Books, TablesRight, SlotsRight, Contents(cuts), Collect
  PROVE  Contents(cuts)'
<1> DEFINE q == transfers["store"]
           p == transfers'["store"]
           n == DonePrefix("store")
           l == transfers["load"]
           e == DonePrefix("load")
<1>1. /\ phase = "collect" /\ phase' = "out" /\ completed = {}
      /\ ToLoad' = {} /\ ToLoad = {} /\ ToSave' = {} /\ ToSave = {}
      /\ cpu' = CopiedOut(n) /\ UNCHANGED <<gpu, deferred, threshold>>
  BY CollectIs
<1>2. UNCHANGED <<status, computed, total, held, sched, finishedIds, tracked, blockIds, nextStored, slotOf, ready>>
  BY DEF Collect, conVars, mgrVars
<1>3. /\ Len(q) \in Nat /\ DOMAIN q = 1..Len(q) /\ n \in 0..Len(q) /\ (\A i \in 1..n : q[i].done)
      /\ Collects(q, n, p) /\ Collects(l, e, transfers'["load"])
      /\ DOMAIN l = 1..Len(l) /\ e \in 0..Len(l) /\ Len(l) \in Nat /\ (\A i \in 1..e : l[i].done)
  BY CollectIs DEF Collects, Directions
<1>4. completed' = {q[i] : i \in 1..n} \cup {l[i] : i \in 1..e}
  BY CollectIs
<1>5. Sent("store") = Sent("store")' \cup {q[i] : i \in 1..n} /\ Sent("load") = Sent("load")' \cup {l[i] : i \in 1..e}
  <2>1. \A x, y, z : Collects(x, y, z) => Range(x) = Range(z) \cup {x[i] : i \in 1..y}
    BY CollectsJobs
  <2> QED
    BY <1>3, <2>1 DEF Sent
<1>6. n \in Nat /\ (\A i \in 1..n : i \in DOMAIN q) /\ q = transfers["store"] /\ cpu' = CopiedOut(n)
  BY <1>1, <1>3
<1> HIDE DEF q, p, n, l, e
<1>7. \A w \in Requests : Done(w)' = Done(w) /\ Reach(w)' = Reach(w)
  BY <1>1, <1>2 DEF Done, Reach
<1>8. Texts(cuts)'
  BY <1>1, <1>2, <1>7, TextsKept, SMTT(30) DEF Contents
<1>9. DOMAIN cpu = Slots /\ DOMAIN gpu = Blocks /\ DOMAIN cpu' = DOMAIN cpu
  BY <1>6 DEF Contents, Copied, CopiedOut
<1>10. ASSUME NEW k \in ready PROVE cpu'[slotOf[k]] \in Chunk(cuts, k)
  <2>1. cpu[slotOf[k]] \in Chunk(cuts, k) /\ k \in Keys /\ slotOf[k] # 0 /\ slotOf[k] \in 0..NumSlots
    BY DEF Contents, Copied, SlotsRight, SlotTypes
  <2>2. slotOf[k] \in DOMAIN cpu
    BY <1>9, <2>1, SchedulerAssumption DEF Slots
  <2>3. PICK s \in DOMAIN cpu : s = slotOf[k]
    BY <2>2
  <2>4. \A i \in 1..n : \A m \in q[i].job.moves : m.slot # s
    <3>1. Untainted(s)
      BY <2>3 DEF SlotsRight, Clear
    <3>2. \A i \in 1..n : q[i] \in ToCopy
      BY <1>5 DEF ToCopy
    <3> QED
      BY <3>1, <3>2 DEF Untainted
  <2>5. Writers(n, s) = {}
    BY <1>6, <2>4 DEF Writers
  <2>6. CopiedOut(n)[s] = cpu[s]
    BY <1>6, <2>5, CopiedOutIs
  <2> QED
    BY <1>6, <2>1, <2>3, <2>6
<1>11. ASSUME NEW i \in 1..n, Fresh(q[i]), NEW m \in q[i].job.moves PROVE cpu'[m.slot] \in Chunk(cuts, m.key)
  <2>1. q[i] \in Sent("store") /\ q[i] \in Stores /\ q[i].done
    BY <1>3, <1>5 DEF Stores, ToCopy
  <2>2. StoreShape(q[i].job)
    BY <2>1 DEF SlotsRight, Shapes
  <2>3. PICK s \in DOMAIN cpu : s = m.slot
    BY <1>9, <2>2 DEF StoreShape, MovesOK
  <2>4. \A x \in Writers(n, s) : x \in 1..n /\ \E y \in q[x].job.moves : y.slot = s
    BY <1>6 DEF Writers
  <2>5. i \in Writers(n, s)
    BY <1>6, <1>11, <2>3 DEF Writers
  <2>6. \E z \in Writers(n, s) :
           /\ \A x \in Writers(n, s) : x <= z
           /\ CopiedOut(n)[s] = transfers["store"][z].staging
                                  [CHOOSE y \in transfers["store"][z].job.moves : y.slot = s]
    BY <1>6, <2>5, CopiedOutIs
  <2>7. PICK x \in Writers(n, s) :
           /\ i <= x
           /\ CopiedOut(n)[s] = transfers["store"][x].staging
                                  [CHOOSE y \in transfers["store"][x].job.moves : y.slot = s]
    BY <2>5, <2>6
  <2>8. PICK y \in q[x].job.moves : y.slot = s
    BY <2>4, <2>7
  <2>9. i \in DOMAIN q /\ x \in DOMAIN q
    BY <1>6, <2>4, <2>7
  <2>10. x = i
    BY <1>3, <1>6, <1>11, <2>3, <2>7, <2>8, <2>9, OwnerLast
  <2>11. {z \in transfers["store"][i].job.moves : z.slot = s} = {m}
    BY <1>6, <1>11, <2>2, <2>3 DEF StoreShape
  <2>12. (CHOOSE z \in transfers["store"][i].job.moves : z.slot = s) = m
    BY <2>11
  <2>13. q[i].staging[m] \in Chunk(cuts, m.key)
    BY <1>11, <2>1 DEF Contents, Copied
  <2> QED
    BY <1>6, <2>3, <2>7, <2>10, <2>12, <2>13
<1>12. Copied(cuts)'
  <2>1. ASSUME NEW t \in completed', NEW m \in t.job.moves
        PROVE IF t.job.store THEN Fresh(t)' => cpu'[m.slot] \in Chunk(cuts, m.key) ELSE gpu'[m.block] \in Chunk(cuts, m.key)
    <3>1. CASE t \in {q[i] : i \in 1..n}
      <4>1. t.job.store
        BY <1>5, <3>1 DEF Kinds
      <4> QED
        BY <1>1, <1>11, <2>1, <3>1, <4>1 DEF Fresh
    <3>2. CASE t \in {l[i] : i \in 1..e}
      <4>1. ~t.job.store /\ t.done /\ t \in Sent("load")
        BY <1>3, <1>5, <3>2 DEF Kinds
      <4>2. gpu[m.block] \in Chunk(cuts, m.key)
        BY <2>1, <4>1 DEF Contents, Copied
      <4> QED
        BY <1>1, <4>1, <4>2
    <3> QED
      BY <1>4, <3>1, <3>2
  <2>2. /\ \A t \in Sent("store") : t.done /\ Fresh(t) => \A m \in t.job.moves : t.staging[m] \in Chunk(cuts, m.key)
        /\ \A t \in Sent("load") : \A m \in t.job.moves :
             IF t.done THEN gpu[m.block] \in Chunk(cuts, m.key) ELSE t.staging[m] \in Chunk(cuts, m.key)
    BY DEF Contents, Copied
  <2> QED
    BY <1>1, <1>2, <1>5, <1>9, <1>10, <2>1, <2>2 DEF Copied, Fresh
<1>13. \A r, k, b : Own(r, k, b)' <=> Own(r, k, b)
  BY <1>2 DEF Own
<1>14. \A b : Taken(b)' <=> Taken(b)
  BY <1>2 DEF Taken, In
<1>15. ASSUME NEW j, NEW job, NEW m, Left(cuts, j, job, m) PROVE Left(cuts, j, job, m)'
  <2>1. gpu[m.block] \in Chunk(cuts, m.key) /\ Watched(job, m) /\ ~Taken(m.block)
    BY <1>1, <1>15 DEF Left
  <2>2. Watched(job, m)' <=> Watched(job, m)
    BY <1>2 DEF Watched, Finished
  <2> QED
    BY <1>1, <1>14, <2>1, <2>2 DEF Left
<1>16. Later' = {} /\ Sooner' \subseteq Sooner
  BY <1>1, <1>5 DEF Later, Sooner
<1>17. Claims(cuts)'
  <2>1. ASSUME NEW t \in Sooner, Fresh(t), NEW m \in t.job.moves
        PROVE  (Owned(t.job, m, Done(t.job.req)) \/ Left(cuts, t.id, t.job, m))'
    <3>1. t.job.req \in Requests
      BY MovesAre
    <3>2. Owned(t.job, m, Done(t.job.req)) \/ Left(cuts, t.id, t.job, m)
      BY <2>1 DEF Contents, Claims
    <3> QED
      BY <1>2, <1>7, <1>13, <1>15, <3>1, <3>2 DEF Owned, Full
  <2> QED
    BY <1>1, <1>16, <2>1 DEF Claims, Fresh
<1>18. Offers(cuts)'
  <2> SUFFICES ASSUME NEW r \in Requests, MayStore(r)', NEW k \in Keys, Offered(r, k)'
               PROVE  \/ status'[r] = "running" /\ Own(r, k, blockIds[r][k[1]][k[2] + 1])'
                      \/ Spare(cuts, r, k, blockIds[r][k[1]][k[2] + 1])'
    BY DEF Offers, OfferOf
  <2>1. MayStore(r) /\ Offered(r, k)
    BY <1>1, <1>2 DEF MayStore, Offered, Finished, Full
  <2>3. PICK b \in Blocks : b = blockIds[r][k[1]][k[2] + 1]
    BY <2>1, OfferedIs
  <2>4. (status[r] = "running" /\ Own(r, k, b)) \/ Spare(cuts, r, k, b)
    BY <2>1, <2>3 DEF Contents, Offers, OfferOf
  <2>5. b = blockIds'[r][k[1]][k[2] + 1]
    BY <1>2, <2>3
  <2>6. CASE status[r] = "running" /\ Own(r, k, b)
    BY <1>2, <1>13, <2>5, <2>6 DEF Own
  <2>7. CASE Spare(cuts, r, k, b)
    <3>1. gpu[b] \in Chunk(cuts, k) /\ (k[1] = "sliding" \/ Finished(r)) /\ ~Taken(b)
      BY <1>1, <2>7 DEF Spare
    <3>2. Spare(cuts, r, k, b)'
      BY <1>1, <1>2, <1>14, <3>1 DEF Spare, Full, Finished
    <3> QED
      BY <2>5, <3>2 DEF Spare, Settled, Taken, TakenByGiven, In, Given, New, FreshBlock
  <2> QED
    BY <2>4, <2>6, <2>7
<1> QED
  BY <1>8, <1>12, <1>17, <1>18 DEF Contents

\* What becomes ready with a completion.
LEMMA ReadyGrows ==
  ASSUME Travel, NEW t \in completed, GiveOutput(t)
  PROVE  ready' = IF Fresh(t) /\ t.job.store THEN ready \cup t.job.keys ELSE ready
<1>1. t \in UnderWay /\ threshold \in Nat /\ t.id \in Nat
  BY NumbersAre DEF UnderWay
<1>2. CASE t.id < threshold
  <2>1. ready' = ready /\ ~Fresh(t)
    BY <1>1, <1>2, GivenIs DEF Fresh
  <2> QED
    BY <2>1
<1>3. CASE ~(t.id < threshold)
  <2>1. Fresh(t)
    BY <1>1, <1>3 DEF Fresh
  <2>2. jobs[t.id] = t.job
    BY <1>1, <2>1, NumbersAre
  <2>3. ready' = IF t.job.store THEN ready \cup t.job.keys ELSE ready
    BY <1>3, <2>2, GivenIs
  <2> QED
    BY <2>1, <2>3
<1> QED
  BY <1>2, <1>3

\* What a completion does to the requests.
LEMMA GivenMoves ==
  ASSUME Books, TablesRight, NEW t \in completed, GiveOutput(t)
  PROVE  /\ UNCHANGED <<computed, total, sched, blockIds, nextStored, finishedIds, threshold, slotOf>>
         /\ tracked' \subseteq tracked /\ \A q \in Requests : sched[q] = 0
         /\ \A q \in Requests :
              \/ status'[q] = status[q] /\ held'[q] = held[q]
              \/ /\ q = t.job.req /\ ~t.job.store /\ held'[q] = held[q]
                 /\ status[q] = "loading" /\ status'[q] = "running"
              \/ /\ q = t.job.req /\ ~t.job.store /\ \A b : ~In(b, q)'
                 /\ status[q] = "aborted" /\ status'[q] = "aborted"
<1>1. /\ UNCHANGED <<computed, total, sched, blockIds, nextStored, finishedIds, threshold, slotOf>>
      /\ \A q \in Requests : sched[q] = 0
      /\ t.job.store => UNCHANGED <<status, held>>
      /\ ~t.job.store => LoadArrived(t.job.req)
  BY DEF GiveOutput, ConnectorOutput
<1>2. tracked' \subseteq tracked
  BY DEF GiveOutput, ConnectorOutput
<1>3. CASE t.job.store
  BY <1>1, <1>2, <1>3
<1>4. CASE ~t.job.store
  <2> DEFINE r == t.job.req
  <2>1. r \in Requests /\ LoadOf(t, r) /\ LoadArrived(r)
    BY <1>1, <1>4 DEF TablesRight, Loads
  <2>2. status \in [Requests -> Statuses] /\ held \in [Requests -> Table]
    BY <2>1 DEF Books, RequestsAreKnown, TablesRight, TableTypes
  <2>3. \/ /\ status[r] = "loading" /\ status' = [status EXCEPT ![r] = "running"] /\ held' = held
        \/ /\ status[r] = "aborted" /\ held' = [held EXCEPT ![r] = NoBlocks] /\ status' = status
    BY <2>1, Zenon DEF LoadArrived, LoadOf
  <2> HIDE DEF r
  <2>4. CASE status[r] = "loading"
    <3>1. status' = [status EXCEPT ![r] = "running"] /\ held' = held
      BY <2>3, <2>4
    <3> QED
      BY <1>1, <1>2, <1>4, <2>1, <2>2, <2>4, <3>1 DEF r
  <2>5. CASE status[r] = "aborted"
    <3>1. held' = [held EXCEPT ![r] = NoBlocks] /\ status' = status
      BY <2>3, <2>5
    <3>2. \A b : ~In(b, r)'
      BY <2>1, <2>2, <3>1, TablesGo
    <3>3. \A q \in Requests \ {r} : held'[q] = held[q]
      BY <2>1, <2>2, <3>1
    <3> QED
      BY <1>1, <1>2, <1>4, <2>1, <2>5, <3>1, <3>2, <3>3 DEF r
  <2> QED
    BY <2>3, <2>4, <2>5
<1> QED
  BY <1>3, <1>4

\* The blocks of a request whose load is done hold its prefix.
LEMMA LoadFills ==
  ASSUME NEW cuts, Travel, Books, TablesRight, SlotsRight, Contents(cuts), NEW t \in completed,
         GiveOutput(t), ~t.job.store,
         NEW r, r = t.job.req, status[r] = "loading", NEW k \in Keys,
         k[2] + 1 \in DOMAIN held[r][k[1]], held[r][k[1]][k[2] + 1] # 0, Begun(k, computed[r])
  PROVE  gpu[held[r][k[1]][k[2] + 1]] \in Filled(cuts, k, computed[r])
<1>1. t \in Loads /\ r \in Requests /\ LoadOf(t, r) /\ Covered(r)
  BY DEF TablesRight, Loads
<1>2. computed[r] = ChunksIn(computed[r]) * TokensPerChunk /\ \E u \in Loads : u.job.req = r /\ Fills(r, u.job)
  BY <1>1 DEF Covered
<1>3. PICK u \in Loads : u.job.req = r /\ Fills(r, u.job)
  BY <1>2
<1>4. u.id = t.id
  BY <1>1, <1>3 DEF TablesRight
<1>5. u = t
  BY <1>3, <1>4, OthersStay
<1>6. PICK m \in t.job.moves : m.key = k
  BY <1>3, <1>5 DEF Fills
<1>7. held[r][k[1]][k[2] + 1] = m.block
  BY <1>1, <1>6 DEF LoadOf, Own
<1>8. gpu[m.block] \in Chunk(cuts, k)
  BY <1>6 DEF Contents, Copied
<1>9. Full(k, computed[r])
  <2>1. k[2] \in Nat /\ computed[r] \in Nat
    BY <1>1, CountsAre, KeysAre
  <2>2. ChunksIn(computed[r]) \in Nat /\ k[2] < ChunksIn(computed[r])
    BY <2>1, Ceiling DEF Begun
  <2>3. k[2] * TokensPerChunk + TokensPerChunk <= ChunksIn(computed[r]) * TokensPerChunk
        /\ (k[2] + 1) * TokensPerChunk = k[2] * TokensPerChunk + TokensPerChunk
    BY <2>1, <2>2, ChunkSize, Products
  <2> QED
    BY <1>2, <2>3 DEF Full
<1>10. computed[r] \in Nat
  BY <1>1, CountsAre
<1> QED
  BY <1>7, <1>8, <1>9, <1>10, WholeIsBegun

\* A completion: a loaded request runs, stored chunks are ready.
LEMMA GivenContents ==
  ASSUME NEW cuts, Travel, Books, TablesRight, SlotsRight, Contents(cuts), NEW t \in completed, GiveOutput(t)
  PROVE  Contents(cuts)'
<1>1. /\ phase = "out" /\ phase' = "out" /\ completed' = completed \ {t}
      /\ ToLoad' = ToLoad /\ ToSave' = ToSave /\ (\A d : Sent(d)' = Sent(d))
      /\ UNCHANGED <<deferred, transfers, gpu, cpu>>
  BY OutputWays, Zenon
<1>2. /\ UNCHANGED <<computed, total, sched, blockIds, nextStored, finishedIds, threshold, slotOf>>
      /\ tracked' \subseteq tracked /\ \A q \in Requests : sched[q] = 0
      /\ \A q \in Requests :
              \/ status'[q] = status[q] /\ held'[q] = held[q]
              \/ /\ q = t.job.req /\ ~t.job.store /\ held'[q] = held[q]
                 /\ status[q] = "loading" /\ status'[q] = "running"
              \/ /\ q = t.job.req /\ ~t.job.store /\ \A b : ~In(b, q)'
                 /\ status[q] = "aborted" /\ status'[q] = "aborted"
  BY GivenMoves, Zenon
<1>3. ASSUME NEW q \in Requests PROVE Done(q) = computed[q] /\ Done(q)' = computed[q] /\ computed[q] \in Nat
  <2>1. computed[q] \in Nat
    BY CountsAre
  <2> QED
    BY <1>1, <1>2, <2>1 DEF Done
<1>4. \A q \in Requests : Finished(q)' <=> Finished(q)
  BY <1>2 DEF Finished
<1>5. \A q \in Requests : status[q] = "running" => status'[q] = "running" /\ held'[q] = held[q]
  BY <1>2
<1>6. \A b : ~Taken(b) => ~Taken(b)'
  BY <1>2 DEF Taken, In
<1>7. Texts(cuts)'
  <2> SUFFICES ASSUME NEW r \in Requests, status'[r] = "running", NEW k \in Keys,
                      k[2] + 1 \in DOMAIN held'[r][k[1]], held'[r][k[1]][k[2] + 1] # 0, Begun(k, Done(r)')
               PROVE  gpu'[held'[r][k[1]][k[2] + 1]] \in Filled(cuts, k, Done(r)')
    BY DEF Texts, TextOf, Begun, Filled, Full
  <2>1. held'[r] = held[r] /\ Done(r) = computed[r] /\ Done(r)' = computed[r]
    BY <1>2, <1>3
  <2>2. CASE status[r] = "running"
    BY <1>1, <2>1, <2>2 DEF Contents, Texts, TextOf
  <2>3. CASE status[r] # "running"
    <3>1. r = t.job.req /\ ~t.job.store /\ status[r] = "loading"
      BY <1>2, <2>3
    <3> QED
      BY <1>1, <2>1, <3>1, LoadFills
  <2> QED
    BY <2>2, <2>3
<1>8. Copied(cuts)'
  <2>1. ASSUME NEW k \in ready' PROVE cpu[slotOf[k]] \in Chunk(cuts, k)
    <3>1. CASE k \in ready
      BY <3>1 DEF Contents, Copied
    <3>2. CASE k \notin ready
      <4>1. Fresh(t) /\ t.job.store /\ k \in t.job.keys
        BY <2>1, <3>2, ReadyGrows
      <4>2. t \in Stores /\ StoreShape(t.job)
        BY <4>1 DEF SlotsRight, Shapes, Stores
      <4>3. PICK m \in t.job.moves : m.key = k
        BY <4>1, <4>2 DEF StoreShape
      <4>4. slotOf[k] = m.slot
        BY <4>1, <4>2, <4>3 DEF SlotsRight, Owning, Owns
      <4>5. cpu[m.slot] \in Chunk(cuts, k)
        BY <4>1, <4>3 DEF Contents, Copied
      <4> QED
        BY <4>4, <4>5
    <3> QED
      BY <3>1, <3>2
  <2>2. /\ DOMAIN gpu = Blocks /\ DOMAIN cpu = Slots
        /\ \A u \in completed : \A m \in u.job.moves :
              IF u.job.store THEN Fresh(u) => cpu[m.slot] \in Chunk(cuts, m.key) ELSE gpu[m.block] \in Chunk(cuts, m.key)
        /\ \A u \in Sent("store") : u.done /\ Fresh(u) => \A m \in u.job.moves : u.staging[m] \in Chunk(cuts, m.key)
        /\ \A u \in Sent("load") : \A m \in u.job.moves :
              IF u.done THEN gpu[m.block] \in Chunk(cuts, m.key) ELSE u.staging[m] \in Chunk(cuts, m.key)
    BY DEF Contents, Copied
  <2> QED
    BY <1>1, <1>2, <2>1, <2>2 DEF Copied, Fresh
<1>9. ASSUME NEW j, NEW job, job.req \in Requests, NEW m, Left(cuts, j, job, m) PROVE Left(cuts, j, job, m)'
  <2>1. gpu[m.block] \in Chunk(cuts, m.key) /\ Watched(job, m) /\ ~Taken(m.block)
    BY <1>1, <1>9 DEF Left
  <2>2. Watched(job, m)'
    BY <1>4, <1>9, <2>1 DEF Watched
  <2> QED
    BY <1>1, <1>6, <2>1, <2>2 DEF Left
<1>10. Later' = Later /\ Later = {} /\ Sooner' = Sooner
  BY <1>1 DEF Later, Sooner, Travel, InPhase, ToSave, Entries
<1>11. Claims(cuts)'
  <2>1. ASSUME NEW v \in Sooner, Fresh(v), NEW m \in v.job.moves
        PROVE  (Owned(v.job, m, Done(v.job.req)) \/ Left(cuts, v.id, v.job, m))'
    <3>1. v.job.req \in Requests
      BY MovesAre
    <3>2. Owned(v.job, m, Done(v.job.req)) \/ Left(cuts, v.id, v.job, m)
      BY <2>1 DEF Contents, Claims
    <3> QED
      BY <1>3, <1>5, <1>9, <3>1, <3>2 DEF Owned, Full, Own
  <2> QED
    BY <1>2, <1>10, <2>1 DEF Claims, Fresh
<1>12. Offers(cuts)'
  <2> SUFFICES ASSUME NEW r \in Requests, MayStore(r)', NEW k \in Keys, Offered(r, k)'
               PROVE  \/ status'[r] = "running" /\ Own(r, k, blockIds[r][k[1]][k[2] + 1])'
                      \/ Spare(cuts, r, k, blockIds[r][k[1]][k[2] + 1])'
    BY DEF Offers, OfferOf
  <2>1. status[r] # "loading"
    <3> SUFFICES ASSUME status[r] = "loading" PROVE FALSE
      OBVIOUS
    <3>1. k[1] \in Groups /\ k[2] \in Nat
      BY KeysAre
    <3>2. Len(blockIds[r][k[1]]) = 0 /\ blockIds[r][k[1]] \in Seq(0..NumBlocks)
      BY <3>1 DEF TablesRight, TablesOf, TableTypes, Table
    <3>3. DOMAIN blockIds[r][k[1]] = {}
      BY <3>2, SequenceIs
    <3> QED
      BY <1>2, <3>3 DEF Offered
  <2>2. status'[r] = status[r]
    BY <1>2, <2>1
  <2>3. MayStore(r) /\ Offered(r, k)
    BY <1>1, <1>2, <2>2 DEF MayStore, Offered, Finished, Full
  <2>4. PICK b \in Blocks : b = blockIds[r][k[1]][k[2] + 1]
    BY <2>3, OfferedIs
  <2>5. (status[r] = "running" /\ Own(r, k, b)) \/ Spare(cuts, r, k, b)
    BY <2>3, <2>4 DEF Contents, Offers, OfferOf
  <2>6. b = blockIds'[r][k[1]][k[2] + 1]
    BY <1>2, <2>4
  <2>7. CASE status[r] = "running" /\ Own(r, k, b)
    BY <1>5, <2>6, <2>7 DEF Own
  <2>8. CASE Spare(cuts, r, k, b)
    <3>1. gpu[b] \in Chunk(cuts, k) /\ (k[1] = "sliding" \/ Finished(r)) /\ ~Taken(b)
      BY <1>1, <2>8 DEF Spare
    <3>2. ~Taken(b)' /\ (k[1] = "sliding" \/ Finished(r)')
      BY <1>4, <1>6, <3>1
    <3>3. Spare(cuts, r, k, b)'
      BY <1>1, <1>2, <3>1, <3>2 DEF Spare, Full
    <3> QED
      BY <2>6, <3>3 DEF Spare, Settled, Taken, TakenByGiven, In, Given, New, FreshBlock
  <2> QED
    BY <2>5, <2>7, <2>8
<1> QED
  BY <1>7, <1>8, <1>11, <1>12 DEF Contents

(***************************************************************************)
(* All steps.                                                              *)
(***************************************************************************)

\* A reset while no request has blocks: no store is looked at any more, and no
\* chunk is offered.
LEMMA ResetContents ==
  ASSUME NEW cuts, Travel, Contents(cuts), ResetActive = FALSE, ResetCache, UNCHANGED <<handlerVars,
         deferred, completed>>
  PROVE  Contents(cuts)'
<1>0. Quiet
  BY DEF Quiet
<1>1. /\ ToLoad' = ToLoad /\ ToSave' = ToSave /\ (\A d : Sent(d)' = Sent(d))
      /\ UNCHANGED <<deferred, completed, transfers, gpu, cpu>>
  BY <1>0, QuietWays
<1>2. /\ phase = "sched" /\ phase' = "sched" /\ ready' = {} /\ threshold' = counter
      /\ tracked' = {r \in tracked : ~Finished(r)} /\ UNCHANGED <<status, finishedIds>>
      /\ \A r \in Requests : status[r] \notin {"loading", "running"}
  BY DEF ResetCache, BetweenSteps
<1>3. Texts(cuts)' /\ Offers(cuts)'
  BY <1>2 DEF Texts, TextOf, Offers, OfferOf, MayStore, Finished
<1>4. \A t \in UnderWay : ~Fresh(t)'
  <2>1. \A t \in UnderWay : t.id < counter /\ t.id \in Nat /\ counter \in Nat
    BY NumbersAre
  <2>2. \A t \in UnderWay : ~(t.id >= counter)
    BY <2>1
  <2> QED
    BY <1>2, <2>2 DEF Fresh
<1>5. Later' \cup Sooner' \cup Sent("store") \subseteq UnderWay
  BY <1>1 DEF Later, Sooner, UnderWay
<1>6. Claims(cuts)'
  BY <1>4, <1>5 DEF Claims
<1>7. Copied(cuts)'
  <2>1. completed = {}
    BY <1>2 DEF Travel, InPhase
  <2> QED
    BY <1>1, <1>2, <1>4, <1>5, <2>1 DEF Contents, Copied
<1> QED
  BY <1>3, <1>6, <1>7 DEF Contents

\* A step of nobody's.
LEMMA NothingContents ==
  ASSUME NEW cuts, Travel, Books, TablesRight, SlotsRight, Contents(cuts), UNCHANGED vars
  PROVE  Contents(cuts)'
<1>0. Quiet /\ UNCHANGED <<handlerVars, deferred, completed>> /\ UNCHANGED <<schedVars, deferred, completed>>
  BY DEF Quiet, vars
<1>1. /\ ToLoad' = ToLoad /\ ToSave' = ToSave /\ (\A d : Sent(d)' = Sent(d))
      /\ UNCHANGED <<deferred, completed, transfers, gpu, cpu>>
  BY <1>0, QuietWays
<1>2. UNCHANGED <<phase, status, held, computed, sched, slotOf, ready, threshold>>
  BY <1>0 DEF schedVars, extVars, conVars, mgrVars
<1>3. \A r \in Requests : Done(r)' = Done(r)
  BY <1>2 DEF Done
<1>4. Texts(cuts)' /\ Copied(cuts)'
  BY <1>1, <1>2, <1>3, TextsKept, CopiedKept DEF Contents
<1>5. Sooner' = Sooner
  BY <1>1, <1>2 DEF Sooner
<1>6. Among(Sooner', Sooner)
  BY <1>5 DEF Among
<1> QED
  BY <1>0, <1>1, <1>4, <1>6, CopyKeeps

\* The steps that move no job.
LEMMA QuietContents ==
  ASSUME NEW cuts, Cuts' \subseteq cuts, Travel, Books, TablesRight, SlotsRight, FlushRight, Contents(cuts),
         ResetActive = FALSE, Quiet, UNCHANGED <<handlerVars, deferred, completed>>
  PROVE  Contents(cuts)'
<1>1. CASE ResetCache
  BY <1>1, ResetContents
<1>2. CASE StartMeta
  BY <1>2, StartContents
<1>3. CASE EndMeta
  BY <1>3, EndMetaContents
<1>4. CASE EndStep
  BY <1>4, EndStepContents
<1>5. CASE UNCHANGED vars
  BY <1>5, NothingContents
<1>6. ASSUME NEW r \in Requests, OnNewRequest(r) \/ GetMatchedWaits(r) \/ Preempt(r) PROVE Contents(cuts)'
  BY <1>6, ComeContents
<1>7. ASSUME NEW r \in Requests, Abort(r) PROVE Contents(cuts)'
  BY <1>7, AbortContents
<1>8. ASSUME NEW r \in Requests, NEW n \in 1..MaxTokens, ScheduleWaiting(r, n) \/ ScheduleRunning(r, n)
      PROVE  Contents(cuts)'
  BY <1>8, MoreContents DEF ScheduleMore
<1>9. ASSUME NEW r \in Requests, StoreNothing(r) \/ StoreRefused(r) PROVE Contents(cuts)'
  BY <1>9, NoStoreContents
<1>10. ASSUME NEW r \in Requests, NEW stops \in BOOLEAN, RequestOutput(r, stops) PROVE Contents(cuts)'
  BY <1>10, OutputContents
<1> QED
  BY <1>1, <1>2, <1>3, <1>4, <1>5, <1>6, <1>7, <1>8, <1>9, <1>10, Zenon DEF Quiet

\* Every step keeps the contents right.
LEMMA StepKeepsContents ==
  ASSUME NEW cuts, Cuts' \subseteq cuts, ResetActive = FALSE
  PROVE  Travel /\ Kinds /\ Books /\ TablesRight /\ SlotsRight /\ FlushRight /\ Contents(cuts) /\ [Next]_vars
           => Contents(cuts)'
<1> SUFFICES ASSUME Travel, Kinds, Books, TablesRight, SlotsRight, FlushRight, Contents(cuts), [Next]_vars
             PROVE  Contents(cuts)'
  OBVIOUS
<1>0. TablesRight'
  BY StepKeepsTables
<1>1. CASE Quiet /\ UNCHANGED <<handlerVars, deferred, completed>>
  BY <1>1, QuietContents
<1>2. ASSUME NEW r \in Requests, ScheduleLoad(r), UNCHANGED <<handlerVars, deferred, completed>> PROVE Contents(cuts)'
  BY <1>0, <1>2, LoadContents
<1>3. ASSUME NEW r \in Requests, NEW e \in SUBSET Evictable, StoreChunks(r, e),
             UNCHANGED <<handlerVars, deferred, completed>>
      PROVE  Contents(cuts)'
  BY <1>3, StoreContents
<1>4. CASE SubmitStores
  BY <1>4, SubmitContents
<1>5. CASE Forward
  BY <1>5, ForwardContents
<1>6. CASE Collect
  BY <1>6, CollectContents
<1>7. CASE GpuCopy
  <2>1. CASE StoreCopied
    BY <1>7, <2>1, StoreCopyContents
  <2>2. CASE LoadCopied
    BY <1>7, <2>2, LoadCopyContents
  <2> QED
    BY <1>7, <2>1, <2>2 DEF GpuCopy
<1>8. ASSUME NEW t \in completed, GiveOutput(t) PROVE Contents(cuts)'
  BY <1>8, GivenContents
<1> QED
  BY <1>1, <1>2, <1>3, <1>4, <1>5, <1>6, <1>7, <1>8, StepsAre, Zenon

\* They are right when the program starts.
LEMMA InitContents ==
  ASSUME NEW cuts, Init
  PROVE  Contents(cuts)
<1>1. /\ phase = "sched" /\ newStores = {} /\ deferred = {} /\ completed = {} /\ ready = {}
      /\ gpu = [b \in Blocks |-> NoData] /\ cpu = [s \in Slots |-> NoData]
      /\ transfers = [d \in Directions |-> <<>>]
      /\ \A r \in Requests : status[r] = "new"
  BY DEF Init, SchedInit
<1>2. Sent("store") = {} /\ Sent("load") = {}
  BY <1>1 DEF Sent, Range, Directions
<1>3. Later = {} /\ Sooner = {}
  BY <1>1, <1>2 DEF Later, Sooner, ToSave, Entries
<1>4. Texts(cuts) /\ Offers(cuts)
  BY <1>1 DEF Texts, TextOf, Offers, OfferOf, MayStore, Finished
<1>5. Copied(cuts)
  BY <1>1, <1>2 DEF Copied
<1> QED
  BY <1>3, <1>4, <1>5 DEF Contents, Claims

\* A chunk once cut stays so: a request that stopped stays as it was.
LEMMA CutsStay == Books /\ TablesRight /\ [Next]_vars => Cuts \subseteq Cuts'
<1> SUFFICES ASSUME Books, TablesRight, [Next]_vars, NEW r \in Requests, status[r] = "stopped"
             PROVE  status'[r] = "stopped" /\ total'[r] = total[r]
  BY DEF Cuts
<1>1. status \in [Requests -> Statuses] /\ total \in [Requests -> Nat]
  BY DEF Books, RequestsAreKnown, TablesRight, TableTypes
<1>2. status[r] \notin {"new", "waiting", "loading", "running"}
  OBVIOUS
<1>3. ASSUME NEW q \in Requests,
             \/ OnNewRequest(q) \/ GetMatchedWaits(q) \/ ScheduleLoad(q) \/ Preempt(q) \/ Abort(q)
             \/ \E n \in 1..MaxTokens : ScheduleWaiting(q, n) \/ ScheduleRunning(q, n)
      PROVE  status'[r] = "stopped" /\ total'[r] = total[r]
  BY <1>1, <1>2, <1>3 DEF OnNewRequest, GetMatchedWaits, ScheduleLoad, Preempt, Abort, RequestFinished,
     ScheduleWaiting, ScheduleRunning, extVars
<1>4. ASSUME NEW q \in Requests, NEW stops \in BOOLEAN, RequestOutput(q, stops)
      PROVE  status'[r] = "stopped" /\ total'[r] = total[r]
  <2>1. status[q] = "running"
    BY <1>4 DEF RequestOutput, Books, RequestsAreKnown
  <2> QED
    BY <1>1, <1>2, <1>4, <2>1 DEF RequestOutput, RequestFinished
<1>5. ASSUME NEW t \in completed, GiveOutput(t) PROVE status'[r] = "stopped" /\ total'[r] = total[r]
  <2>1. UNCHANGED total /\ (UNCHANGED status \/ LoadArrived(t.job.req))
    BY <1>5 DEF GiveOutput, ConnectorOutput
  <2> QED
    BY <1>1, <1>2, <2>1 DEF LoadArrived
<1>6. ASSUME NEW q \in Requests, NEW e, StoreChunks(q, e) PROVE UNCHANGED <<status, total>>
  BY <1>6, StoreChunksIs DEF extVars
<1>7. ASSUME \/ ResetCache \/ StartMeta \/ EndMeta \/ EndStep \/ SubmitStores \/ Forward \/ Collect
             \/ UNCHANGED vars \/ GpuCopy
             \/ \E q \in Requests : StoreNothing(q) \/ StoreRefused(q)
      PROVE  UNCHANGED <<status, total>>
  BY <1>7, Zenon DEF ResetCache, StartMeta, EndMeta, EndStep, SubmitStores, Forward, Collect, GpuCopy, vars,
     schedVars, extVars, StoreNothing, StoreRefused
<1> QED
  BY <1>3, <1>4, <1>5, <1>6, <1>7, StepsAre, Zenon DEF Quiet

\* More chunks may be cut.
LEMMA MoreCuts ==
  ASSUME NEW cuts, NEW more, cuts \subseteq more, Contents(cuts)
  PROVE  Contents(more)
<1>1. \A k : Chunk(cuts, k) \subseteq Chunk(more, k)
  BY DEF Chunk
<1>2. \A k, n : Filled(cuts, k, n) \subseteq Filled(more, k, n)
  BY <1>1 DEF Filled
<1>3. Texts(more)
  BY <1>2 DEF Contents, Texts, TextOf
<1>4. Copied(more)
  BY <1>1 DEF Contents, Copied
<1>5. Claims(more)
  BY <1>1 DEF Contents, Claims, Left
<1>6. Offers(more)
  BY <1>1 DEF Contents, Offers, OfferOf, Spare
<1> QED
  BY <1>3, <1>4, <1>5, <1>6 DEF Contents

\* What is in the blocks, the staging buffers and the slots is what the tables, the
\* jobs and the cache say: whole chunks, but for the last token of those at whose
\* end a request stopped.
ContentsRight == \E cuts \in SUBSET Keys : cuts = Cuts /\ Contents(cuts)

\* It holds in every reachable state, if reset_cache comes only while no request has
\* blocks.
THEOREM ContentsHold ==
  ASSUME ResetActive = FALSE
  PROVE  Spec => []ContentsRight
<1>1. Init => ContentsRight
  <2> SUFFICES ASSUME Init PROVE ContentsRight
    OBVIOUS
  <2>1. Cuts \in SUBSET Keys
    BY DEF Cuts
  <2>2. PICK cuts \in SUBSET Keys : cuts = Cuts
    BY <2>1
  <2> QED
    BY <2>2, InitContents DEF ContentsRight
<1>2. Travel /\ Kinds /\ Books /\ TablesRight /\ SlotsRight /\ FlushRight /\ ContentsRight /\ [Next]_vars
        => ContentsRight'
  <2> SUFFICES ASSUME Travel, Kinds, Books, TablesRight, SlotsRight, FlushRight, ContentsRight, [Next]_vars
               PROVE  ContentsRight'
    OBVIOUS
  <2>1. PICK cuts \in SUBSET Keys : cuts = Cuts /\ Contents(cuts)
    BY DEF ContentsRight
  <2>2. Cuts' \in SUBSET Keys
    BY DEF Cuts, Keys, Groups
  <2>3. PICK more \in SUBSET Keys : more = Cuts'
    BY <2>2
  <2>4. Contents(more)
    BY <2>1, <2>3, CutsStay, MoreCuts
  <2>5. Contents(more)'
    BY <2>3, <2>4, StepKeepsContents
  <2> QED
    BY <2>3, <2>5 DEF ContentsRight
<1> QED
  BY <1>1, <1>2, TravelHolds, KindsHold, BooksHold, TablesHold, SlotsHold, FlushHolds, PTL DEF Spec

\* A chunk the cache offers as a hit is the KV of that chunk, or of all of it but the
\* last token if a request stopped at its end: no store read a block that was not
\* computed or was already somebody else's, and no late copy landed in a slot with a
\* new owner.
THEOREM ReadyIsRightHolds ==
  ASSUME ResetActive = FALSE
  PROVE  Spec => []ReadyIsRight
<1>1. ContentsRight => ReadyIsRight
  BY DEF ContentsRight, Contents, Copied, ReadyIsRight
<1> QED
  BY <1>1, ContentsHold, PTL

\* A running request's table leads to its text.
LEMMA BlocksHoldText == Books /\ TablesRight /\ ContentsRight => BlocksAreRight
<1> SUFFICES ASSUME Books, TablesRight, ContentsRight, NEW r \in Requests, status[r] = "running", NEW k \in Keys,
                    NEW first, first = k[2] * TokensPerChunk, NEW b, b = held[r][k[1]][k[2] + 1],
                    first < computed[r], b # 0, phase \in {"sched", "build"}
             PROVE  gpu[b] \in IF computed[r] < first + TokensPerChunk
                                THEN {Data(k, computed[r] - first)} ELSE Chunk(Cuts, k)
  BY DEF BlocksAreRight
<1>1. computed[r] \in Nat /\ Reach(r) \in Nat /\ computed[r] <= Reach(r) /\ Done(r) = computed[r]
  <2>1. computed[r] \in Nat /\ Reach(r) \in Nat /\ computed[r] <= Reach(r)
    BY CountsAre
  <2> QED
    BY <2>1 DEF Done
<1>2. k[1] \in Groups /\ k[2] \in Nat /\ first \in Nat
      /\ (k[2] + 1) * TokensPerChunk = first + TokensPerChunk /\ TokensPerChunk \in Nat \ {0}
  BY KeysAre, ChunkSize, Products
<1>3. k[2] < ChunksIn(computed[r]) /\ ChunksIn(computed[r]) \in Nat
  BY <1>1, <1>2, Ceiling
<1>4. ChunksIn(computed[r]) <= ChunksIn(Reach(r)) /\ ChunksIn(Reach(r)) \in Nat
  BY <1>1, ChunksGrow
<1>5. Len(held[r][k[1]]) = ChunksIn(Reach(r)) /\ held[r][k[1]] \in Seq(0..NumBlocks)
  BY <1>2 DEF TablesRight, TablesOf, TableTypes, Table
<1>6. k[2] + 1 \in DOMAIN held[r][k[1]]
  <2>1. DOMAIN held[r][k[1]] = 1..ChunksIn(Reach(r))
    BY <1>5, SequenceIs
  <2> QED
    BY <1>2, <1>3, <1>4, <2>1
<1>7. Begun(k, computed[r])
  BY DEF Begun
<1>8. gpu[b] \in Filled(Cuts, k, computed[r])
  <2>1. PICK cuts \in SUBSET Keys : cuts = Cuts /\ Contents(cuts)
    BY DEF ContentsRight
  <2>2. gpu[b] \in Filled(cuts, k, computed[r])
    BY <1>1, <1>6, <1>7, <2>1 DEF Contents, Texts, TextOf
  <2> QED
    BY <2>1, <2>2
<1>9. Full(k, computed[r]) <=> ~(computed[r] < first + TokensPerChunk)
  BY <1>1, <1>2 DEF Full
<1> QED
  BY <1>8, <1>9 DEF Filled

\* The attention of a running request reads what it should: each block of its table
\* holds its chunk up to the tokens computed, whether they were computed or loaded,
\* but for the last token of a chunk at whose end a request stopped.
THEOREM BlocksAreRightHolds ==
  ASSUME ResetActive = FALSE
  PROVE  Spec => []BlocksAreRight
  BY BlocksHoldText, ContentsHold, BooksHold, TablesHold, PTL

\* A store of this step that is not flushed reads no block another request has.
LEMMA StoresKeepOff == Travel /\ Books /\ TablesRight /\ SlotsRight /\ ContentsRight => StoresReadOwnBlocks
<1> SUFFICES ASSUME Travel, Books, TablesRight, SlotsRight, ContentsRight, NEW j \in newStores, j \notin flush,
                    NEW m \in jobs[j].moves, NEW q \in Requests, q # jobs[j].req, m.block \in BlocksOf(q)
             PROVE  FALSE
  BY DEF StoresReadOwnBlocks
<1>1. phase = "build" /\ j \in DOMAIN jobs
  BY DEF Travel, InPhase
<1>2. PICK t \in ToSave : t.id = j /\ t.job = jobs[j]
  <2>1. [id |-> j, job |-> jobs[j]] \in ToSave
    BY DEF ToSave, Entries
  <2> QED
    BY <2>1
<1>3. Fresh(t) /\ t \in Later
  BY <1>1, <1>2 DEF Travel, Numbered, Fresh, Later
<1>4. t.job.req \in Requests /\ m.key \in Keys /\ m.block \in Blocks
  BY <1>2, <1>3, MovesAre
<1>5. In(m.block, q)
  BY BlocksOfHas DEF Range, In
<1>6. PICK cuts \in SUBSET Keys : Owned(t.job, m, Reach(t.job.req)) \/ Left(cuts, t.id, t.job, m)
  BY <1>2, <1>3 DEF ContentsRight, Contents, Claims
<1>7. CASE Owned(t.job, m, Reach(t.job.req))
  <2>1. In(m.block, t.job.req)
    BY <1>4, <1>7, OwnIsIn DEF Owned
  <2> QED
    BY <1>2, <1>4, <1>5, <2>1, OneOwner DEF TablesRight
<1>8. CASE Left(cuts, t.id, t.job, m)
  <2>1. Doomed(j)
    BY <1>1, <1>2, <1>5, <1>8 DEF Left, Taken
  <2> QED
    BY <1>1, <2>1 DEF Doomed
<1> QED
  BY <1>6, <1>7, <1>8

\* "Earlier positions were already offloaded": a store job reads no block that is in
\* another request's table, unless it is flushed before that one writes.  With a
\* reset while requests have blocks this is false, as a run of Offload shows.
THEOREM StoresReadOwnBlocksHolds ==
  ASSUME ResetActive = FALSE
  PROVE  Spec => []StoresReadOwnBlocks
  BY StoresKeepOff, ContentsHold, TravelHolds, BooksHold, TablesHold, SlotsHold, PTL
=============================================================================
