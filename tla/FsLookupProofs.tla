----------------------------- MODULE FsLookupProofs -----------------------------
(***************************************************************************)
(* Proofs about the lookup manager, for any keys, requests, workers and    *)
(* limits, and about the FsLookup and ShardLeases around it, for any       *)
(* shards, jobs and processes.  The lemmas about the manager are about     *)
(* single steps and any set of stages, so that they serve it by itself     *)
(* (AsyncSpec) and inside the tier.                                        *)
(***************************************************************************)
EXTENDS FsLookup, FiniteSetTheorems, SequenceTheorems, SumLemmas

Results == {"absent", "wait", "hit", "miss"}

\* Chunks, and who carries them.
ItemSets == SUBSET Items
Batches == [keys : SUBSET Keys, hits : SUBSET Keys]

AsyncInv == WaitIsCovered /\ OneLiveItem

\* A place, kind by kind.
InBatch(k, n) == n \in DOMAIN batch /\ k \in LiveKeys({batch[n]})
InChunk(k, c) == c \in flushing /\ k \in LiveKeys(c.items)
InQueue(k, n) == n \in DOMAIN queue /\ k \in LiveKeys(queue[n])
AtWorker(k, w) == w \in Workers /\ k \in LiveKeys(work[w].items)

\* The places of a key are of these four kinds.
LEMMA PlacesAre ==
  ASSUME NEW k
  PROVE  \A x : x \in LivePlaces(k) <=>
            \/ \E n : InBatch(k, n) /\ x = <<"batch", n>>
            \/ \E c : InChunk(k, c) /\ x = <<"flush", c>>
            \/ \E n : InQueue(k, n) /\ x = <<"queue", n>>
            \/ \E w : AtWorker(k, w) /\ x = <<"worker", w>>
  BY DEF LivePlaces, InBatch, InChunk, InQueue, AtWorker

\* Having a place, and having no two, without naming places.
Somewhere(k) == \/ \E n : InBatch(k, n) 
                \/ \E c : InChunk(k, c)
                \/ \E n : InQueue(k, n)
                \/ \E w : AtWorker(k, w)
NotTwice(k) ==
  /\ \A m, n : InBatch(k, m) /\ InBatch(k, n) => m = n
  /\ \A m, n : InChunk(k, m) /\ InChunk(k, n) => m = n
  /\ \A m, n : InQueue(k, m) /\ InQueue(k, n) => m = n
  /\ \A m, n : AtWorker(k, m) /\ AtWorker(k, n) => m = n
  /\ \A m, n : ~(InBatch(k, m) /\ InChunk(k, n)) /\ ~(InBatch(k, m) /\ InQueue(k, n))
  /\ \A m, n : ~(InBatch(k, m) /\ AtWorker(k, n)) /\ ~(InChunk(k, m) /\ InQueue(k, n))
  /\ \A m, n : ~(InChunk(k, m) /\ AtWorker(k, n)) /\ ~(InQueue(k, m) /\ AtWorker(k, n))

\* So both invariants can be told from the four kinds, without the tuples.
LEMMA PlacesCount ==
  ASSUME NEW k
  PROVE  /\ LivePlaces(k) # {} <=> Somewhere(k)
         /\ (\A x, y \in LivePlaces(k) : x = y) <=> NotTwice(k)
<1>1. LivePlaces(k) # {} <=> Somewhere(k)
  BY PlacesAre DEF Somewhere
<1>2. ASSUME \A x, y \in LivePlaces(k) : x = y PROVE NotTwice(k)
  <2>1. /\ \A n : InBatch(k, n) => <<"batch", n>> \in LivePlaces(k)
        /\ \A n : InChunk(k, n) => <<"flush", n>> \in LivePlaces(k)
        /\ \A n : InQueue(k, n) => <<"queue", n>> \in LivePlaces(k)
        /\ \A n : AtWorker(k, n) => <<"worker", n>> \in LivePlaces(k)
    BY PlacesAre
  <2>2. ASSUME NEW a, NEW b, NEW m, NEW n,
               <<a, m>> \in LivePlaces(k), <<b, n>> \in LivePlaces(k)
        PROVE  a = b /\ m = n
    <3>1. <<a, m>> = <<b, n>>
      BY <1>2, <2>2, Zenon
    <3> QED
      BY <3>1
  <2> QED
    BY <2>1, <2>2, ZenonT(60) DEF NotTwice
<1>3. ASSUME NotTwice(k) PROVE \A x, y \in LivePlaces(k) : x = y
  BY <1>3, PlacesAre DEF NotTwice
<1> QED
  BY <1>1, <1>2, <1>3

\* The two invariants, key by key.
KeyInv(k) == /\ result[k] = "wait" => Somewhere(k) \/ Answered(k) # {}
             /\ NotTwice(k)
             /\ Somewhere(k) => result[k] # "absent" /\ askers[k] # {}

\* The manager's invariant is the same for every key, in this state ...
LEMMA InvIs == AsyncInv <=> \A k \in Keys : KeyInv(k)
  BY PlacesCount DEF AsyncInv, WaitIsCovered, OneLiveItem, KeyInv

\* ... and in the next.
LEMMA InvIsNext == (AsyncInv <=> \A k \in Keys : KeyInv(k))'
  BY InvIs, PTL

\* Which keys a set of items is alive for.
LEMMA LiveKeysAre ==
  ASSUME NEW S, NEW k
  PROVE  k \in LiveKeys(S) <=> \E i \in S : i.live /\ i.key = k
  BY DEF LiveKeys, Live

-------------------------------------------------------------------------------
\* The scheduler's steps.

\* lookup() changes a state, the batch and the published answers within their types.
LEMMA LookupKeepsTypes ==
  ASSUME NEW stages, Typed(stages), NEW r \in Reqs, NEW k \in Keys, Lookup(r, k)
  PROVE  Typed(stages)'
<1>1. /\ \A q \in Keys : Drained(q) \in Results
      /\ Item(k, r) \in Items
  BY DEF Typed, Drained, LastAnswer, Results, Item, Items
<1>2. result' \in [Keys -> Results]
  BY <1>1 DEF Lookup, Results
<1>3. askers' \in [Keys -> SUBSET Reqs]
  BY DEF Typed, Lookup
<1>4. batch' \in Seq(Items)
  BY <1>1 DEF Typed, Lookup
<1>5. published' \in Seq(Batches) /\ needDrain' \in BOOLEAN
  <2>1. published \in Seq(Batches) /\ <<>> \in Seq(Batches)
    BY DEF Typed, Batches
  <2>2. published' = (IF needDrain THEN <<>> ELSE published) /\ needDrain' = FALSE
    BY DEF Lookup
  <2> QED
    BY <2>1, <2>2
<1> QED
  BY <1>2, <1>3, <1>4, <1>5 DEF Typed, Lookup, Results, Batches, NotStopping, NumWorkers

\* It adds one item, for a key that had no state and hence no item.
LEMMA LookupKeeps ==
  ASSUME NEW stages, Typed(stages), AsyncInv, NEW r \in Reqs, NEW k \in Keys, Lookup(r, k)
  PROVE  AsyncInv'
<1> DEFINE new == result[k] = "absent" /\ Len(batch) < MaxKeysPerStep
<1>1. /\ result' = [q \in Keys |->
           IF q = k /\ result[k] = "absent"
             THEN (IF Len(batch) < MaxKeysPerStep THEN "wait" ELSE "miss") ELSE Drained(q)]
      /\ batch' = IF new THEN Append(batch, Item(k, r)) ELSE batch
      /\ published' = IF needDrain THEN <<>> ELSE published
      /\ askers' = [askers EXCEPT ![k] = @ \cup {r}]
      /\ UNCHANGED <<flushing, queue, work>>
  BY DEF Lookup
<1>2. batch \in Seq(Items) /\ askers \in [Keys -> SUBSET Reqs]
  BY DEF Typed
<1>3. /\ \A q, n : InChunk(q, n)' <=> InChunk(q, n)
      /\ \A q, n : InQueue(q, n)' <=> InQueue(q, n)
      /\ \A q, n : AtWorker(q, n)' <=> AtWorker(q, n)
  BY <1>1 DEF InChunk, InQueue, AtWorker
<1>4. ASSUME NEW q, NEW n
      PROVE  InBatch(q, n)' <=> InBatch(q, n) \/ (new /\ q = k /\ n = Len(batch) + 1)
  <2>1. CASE ~new
    BY <1>1, <2>1 DEF InBatch
  <2>2. CASE new
    <3>1. batch' = Append(batch, Item(k, r))
      BY <1>1, <2>2
    <3>2. /\ DOMAIN batch' = DOMAIN batch \cup {Len(batch) + 1}
          /\ \A m \in DOMAIN batch : batch'[m] = batch[m]
          /\ batch'[Len(batch) + 1] = Item(k, r) /\ Len(batch) + 1 \notin DOMAIN batch
      BY <1>2, <3>1 DEF Item, Items
    <3>3. q \in LiveKeys({Item(k, r)}) <=> q = k
      <4>1. Item(k, r).live /\ Item(k, r).key = k
        BY DEF Item
      <4>2. q \in LiveKeys({Item(k, r)})
              <=> \E i \in {Item(k, r)} : i.live /\ i.key = q
        BY LiveKeysAre
      <4> QED
        BY <4>1, <4>2
    <3> QED
      BY <2>2, <3>2, <3>3 DEF InBatch
  <2> QED
    BY <2>1, <2>2
<1>5. ASSUME NEW q \in Keys PROVE KeyInv(q)'
  <2>1. KeyInv(q)
    BY InvIs
  <2>2. askers[q] \subseteq askers'[q] /\ (q = k => askers'[q] # {})
    BY <1>1, <1>2
  <2>3. CASE new /\ q = k
    <3>1. ~Somewhere(q)
      BY <2>1, <2>3 DEF KeyInv
    <3>2. \A n : /\ InBatch(q, n)' <=> n = Len(batch) + 1
                 /\ ~InChunk(q, n)' /\ ~InQueue(q, n)' /\ ~AtWorker(q, n)'
      BY <1>3, <1>4, <2>3, <3>1 DEF Somewhere
    <3>3. result'[q] = "wait" /\ Somewhere(q)' /\ NotTwice(q)'
      BY <1>1, <2>3, <3>2 DEF Somewhere, NotTwice
    <3> QED
      BY <2>2, <2>3, <3>3 DEF KeyInv
  <2>4. CASE ~(new /\ q = k)
    <3>1. (Somewhere(q)' <=> Somewhere(q)) /\ (NotTwice(q)' <=> NotTwice(q))
      BY <1>3, <1>4, <2>4 DEF Somewhere, NotTwice
    <3>2. CASE q = k /\ result[k] = "absent"
      BY <1>1, <2>1, <2>2, <2>4, <3>1, <3>2 DEF KeyInv
    <3>3. CASE ~(q = k /\ result[k] = "absent")
      <4>1. result'[q] = Drained(q)
        BY <1>1, <3>3
      <4>2. Drained(q) = "absent" => result[q] = "absent"
        BY DEF Drained, LastAnswer
      <4>3. Drained(q) = "wait" => /\ result[q] = "wait"
                                   /\ ~needDrain \/ Answered(q) = {}
        BY DEF Drained, LastAnswer
      <4>4. ~needDrain => Answered(q)' = Answered(q)
        BY <1>1 DEF Answered
      <4> QED
        BY <2>1, <2>2, <3>1, <4>1, <4>2, <4>3, <4>4 DEF KeyInv
    <3> QED
      BY <3>2, <3>3
  <2> QED
    BY <2>3, <2>4
<1> QED
  BY <1>5, InvIsNext

\* flush() gives the item of a batch to the chunk of its turn, and so each key to
\* one chunk.
LEMMA FlushKeeps ==
  ASSUME NEW stages, Typed(stages), AsyncInv, Flush
  PROVE  Typed(stages)' /\ AsyncInv'
<1>1. /\ batch' = <<>> /\ flushing = {} /\ flushing' = Chunks /\ needDrain' = TRUE
      /\ UNCHANGED <<result, askers, queue, work, published, sentinels>>
  BY DEF Flush, SchedulerFree
<1>2. batch \in Seq(Items) /\ \A n \in DOMAIN batch : batch[n] \in Items
  BY DEF Typed
<1>3. \A c \in Chunks : c.items \in SUBSET Items
  BY <1>2 DEF Chunks, Chunk
<1>4. Typed(stages)'
  BY <1>1, <1>3 DEF Typed, NotStopping, NumWorkers
<1>5. /\ \A q, n : InQueue(q, n)' <=> InQueue(q, n)
      /\ \A q, n : AtWorker(q, n)' <=> AtWorker(q, n)
      /\ \A q, n : ~InBatch(q, n)' /\ ~InChunk(q, n)
  BY <1>1 DEF InChunk, InQueue, AtWorker, InBatch
<1>6. ASSUME NEW q, NEW c PROVE InChunk(q, c)' <=> \E n : InBatch(q, n) /\ c = Chunk(Turn(n))
  <2>1. InChunk(q, c)' <=> c \in Chunks /\ q \in LiveKeys(c.items)
    BY <1>1 DEF InChunk
  <2>2. ASSUME NEW n \in DOMAIN batch, c = Chunk(Turn(n)), q \in LiveKeys(c.items)
        PROVE  \E m : InBatch(q, m) /\ c = Chunk(Turn(m))
    <3>1. PICK i \in c.items : i.live /\ i.key = q
      BY <2>2, LiveKeysAre
    <3>2. PICK m \in DOMAIN batch : i = batch[m] /\ Turn(m) = Turn(n)
      BY <2>2, <3>1 DEF Chunk
    <3>3. q \in LiveKeys({batch[m]})
      BY <3>1, <3>2, LiveKeysAre
    <3> QED
      BY <2>2, <3>2, <3>3 DEF InBatch
  <2>3. ASSUME NEW n, InBatch(q, n), c = Chunk(Turn(n)) PROVE c \in Chunks /\ q \in LiveKeys(c.items)
    <3>1. n \in DOMAIN batch /\ batch[n].live /\ batch[n].key = q
      BY <2>3, LiveKeysAre DEF InBatch
    <3>2. batch[n] \in c.items
      BY <2>3, <3>1 DEF Chunk
    <3> QED
      BY <2>3, <3>1, <3>2, LiveKeysAre DEF Chunks
  <2> QED
    BY <2>1, <2>2, <2>3 DEF Chunks
<1>7. ASSUME NEW q \in Keys PROVE KeyInv(q)'
  <2>1. KeyInv(q)
    BY InvIs
  <2>2. /\ \A m, n : InBatch(q, m) /\ InBatch(q, n) => m = n
        /\ \A m, n : ~(InBatch(q, m) /\ InQueue(q, n)) /\ ~(InBatch(q, m) /\ AtWorker(q, n))
        /\ \A m, n : InQueue(q, m) /\ InQueue(q, n) => m = n
        /\ \A m, n : AtWorker(q, m) /\ AtWorker(q, n) => m = n
        /\ \A m, n : ~(InQueue(q, m) /\ AtWorker(q, n))
    BY <2>1 DEF KeyInv, NotTwice
  <2>3. NotTwice(q)'
    BY <1>5, <1>6, <2>2 DEF NotTwice
  <2>4. Somewhere(q)' <=> Somewhere(q)
    BY <1>5, <1>6 DEF Somewhere
  <2> QED
    BY <1>1, <2>1, <2>3, <2>4 DEF KeyInv, Answered
<1> QED
  BY <1>4, <1>7, InvIsNext

\* A chunk that is put keeps its keys; one that is dropped makes its live keys misses.
LEMMA PutOrDropKeeps ==
  ASSUME NEW stages, Typed(stages), AsyncInv, PutOrDrop
  PROVE  Typed(stages)' /\ AsyncInv'
<1>1. PICK c \in flushing : PutChunk(c) \/ DropChunk(c)
  BY DEF PutOrDrop
<1>2. /\ flushing' = flushing \ {c}
      /\ UNCHANGED <<askers, batch, work, published, needDrain, sentinels>>
  BY <1>1 DEF PutChunk, DropChunk
<1>3. c.items \in SUBSET Items /\ queue \in Seq(SUBSET Items) /\ result \in [Keys -> Results]
  BY DEF Typed, Results
<1>4. /\ \A q, n : InBatch(q, n)' <=> InBatch(q, n)
      /\ \A q, n : AtWorker(q, n)' <=> AtWorker(q, n)
      /\ \A q, n : InChunk(q, n)' <=> InChunk(q, n) /\ n # c
      /\ \A q : InChunk(q, c) <=> q \in LiveKeys(c.items)
  BY <1>2 DEF InChunk, AtWorker, InBatch
<1>5. CASE PutChunk(c)
  <2>1. queue' = Append(queue, c.items) /\ result' = result
    BY <1>5 DEF PutChunk
  <2>2. queue' \in Seq(SUBSET Items)
    BY <1>3, <2>1
  <2>3. Typed(stages)'
    BY <1>2, <2>1, <2>2 DEF Typed, NotStopping, NumWorkers
  <2>4. \A q, n : InQueue(q, n)' <=> InQueue(q, n) \/ (InChunk(q, c) /\ n = Len(queue) + 1)
    <3>1. /\ DOMAIN queue' = DOMAIN queue \cup {Len(queue) + 1}
          /\ \A m \in DOMAIN queue : queue'[m] = queue[m]
          /\ queue'[Len(queue) + 1] = c.items /\ Len(queue) + 1 \notin DOMAIN queue
      BY <1>3, <2>1
    <3> QED
      BY <1>4, <3>1 DEF InQueue
  <2>5. ASSUME NEW q \in Keys PROVE KeyInv(q)'
    <3>1. KeyInv(q)
      BY InvIs
    <3>2. NotTwice(q)'
      <4>1. CASE InChunk(q, c)
        <5>1. \A n : /\ ~InQueue(q, n) /\ ~InBatch(q, n) /\ ~AtWorker(q, n)
                     /\ InChunk(q, n) => n = c
          BY <3>1, <4>1 DEF KeyInv, NotTwice
        <5> QED
          BY <1>4, <2>4, <5>1 DEF NotTwice
      <4>2. CASE ~InChunk(q, c)
        BY <1>4, <2>4, <3>1, <4>2 DEF KeyInv, NotTwice
      <4> QED
        BY <4>1, <4>2
    <3>3. Somewhere(q)' <=> Somewhere(q)
      BY <1>4, <2>4 DEF Somewhere
    <3> QED
      BY <1>2, <2>1, <3>1, <3>2, <3>3 DEF KeyInv, Answered
  <2> QED
    BY <2>3, <2>5, InvIsNext
<1>6. CASE DropChunk(c)
  <2>1. /\ queue' = queue
        /\ result' = [k \in Keys |-> IF k \in LiveKeys(c.items) THEN "miss" ELSE result[k]]
    BY <1>6 DEF DropChunk
  <2>2. result' \in [Keys -> Results]
    BY <1>3, <2>1 DEF Results
  <2>3. Typed(stages)'
    BY <1>2, <2>1, <2>2 DEF Typed, NotStopping, NumWorkers, Results
  <2>4. \A q, n : InQueue(q, n)' <=> InQueue(q, n)
    BY <2>1 DEF InQueue
  <2>5. ASSUME NEW q \in Keys PROVE KeyInv(q)'
    <3>1. KeyInv(q)
      BY InvIs
    <3>2. NotTwice(q)' /\ (Somewhere(q)' => Somewhere(q))
      BY <1>4, <2>4, <3>1 DEF KeyInv, NotTwice, Somewhere
    <3>3. ~InChunk(q, c) => (Somewhere(q)' <=> Somewhere(q))
      BY <1>4, <2>4 DEF Somewhere
    <3>4. /\ InChunk(q, c) => result'[q] = "miss"
          /\ ~InChunk(q, c) => result'[q] = result[q]
      BY <1>4, <2>1
    <3> QED
      BY <1>2, <3>1, <3>2, <3>3, <3>4 DEF KeyInv, Answered
  <2> QED
    BY <2>3, <2>5, InvIsNext
<1> QED
  BY <1>1, <1>5, <1>6

\* A token that is cleared ends the life of its key's items, and of no other's.
LEMMA CancelKeys ==
  ASSUME NEW S, NEW ks, NEW q
  PROVE  q \in LiveKeys(Cancel(S, ks)) <=> q \in LiveKeys(S) /\ q \notin ks
<1>1. \A i : /\ Cancelled(i, ks).key = i.key
             /\ Cancelled(i, ks).live <=> i.live /\ i.key \notin ks
  BY DEF Cancelled
<1> QED
  BY <1>1, LiveKeysAre DEF Cancel

\* It leaves items what they are, and makes none.
LEMMA CancelTypes ==
  ASSUME NEW ks
  PROVE  /\ \A i \in Items : Cancelled(i, ks) \in Items
         /\ \A S \in SUBSET Items : Cancel(S, ks) \in SUBSET Items
         /\ \A S : Cancel(S, ks) = {} <=> S = {}
<1>1. ASSUME NEW i \in Items PROVE Cancelled(i, ks) \in Items
  <2>1. i.key \in Keys /\ i.req \in Reqs /\ (i.live /\ i.key \notin ks) \in BOOLEAN
    BY DEF Items
  <2> HIDE DEF Items
  <2>2. [key |-> i.key, req |-> i.req, live |-> i.live /\ i.key \notin ks]
          \in [key : Keys, req : Reqs, live : BOOLEAN]
    BY <2>1
  <2> QED
    BY <2>2 DEF Cancelled, Items
<1> QED
  BY <1>1 DEF Cancel

\* A sequence changed element by element is a sequence.
LEMMA MapInSeq ==
  ASSUME NEW S, NEW T, NEW s \in Seq(S), NEW f, f = [n \in DOMAIN s |-> f[n]],
         \A n \in DOMAIN s : f[n] \in T
  PROVE  f \in Seq(T)
<1>1. DOMAIN s = 1..Len(s) /\ Len(s) \in Nat
  BY LenProperties
<1>2. f \in [1..Len(s) -> T]
  BY <1>1
<1> QED
  BY <1>1, <1>2, SeqDef

\* cleanup() deletes a state and the life of its items together; the others keep
\* an asker.
LEMMA CleanupKeeps ==
  ASSUME NEW stages, Typed(stages), AsyncInv, NEW r \in Reqs, Cleanup(r)
  PROVE  Typed(stages)' /\ AsyncInv'
<1> DEFINE gone == Orphaned(r)
<1>1. /\ askers' = [k \in Keys |-> askers[k] \ {r}]
      /\ result' = [k \in Keys |-> IF k \in gone THEN "absent" ELSE result[k]]
      /\ batch' = [n \in DOMAIN batch |-> Cancelled(batch[n], gone)]
      /\ queue' = [n \in DOMAIN queue |-> Cancel(queue[n], gone)]
      /\ UNCHANGED <<flushing, published, needDrain, sentinels>>
      /\ flushing = {}
  BY DEF Cleanup, SchedulerFree
<1>2. /\ askers \in [Keys -> SUBSET Reqs] /\ result \in [Keys -> Results]
      /\ batch \in Seq(Items) /\ queue \in Seq(SUBSET Items)
      /\ work \in [Workers -> [stage : stages, items : SUBSET Items, hits : SUBSET Keys]]
      /\ \A w \in Workers : work[w].stage \in {"idle", "stopped"} <=> work[w].items = {}
  BY DEF Typed, Results
<1>3. /\ \A i \in Items : Cancelled(i, gone) \in Items
      /\ \A S \in SUBSET Items : Cancel(S, gone) \in SUBSET Items
      /\ \A S : Cancel(S, gone) = {} <=> S = {}
  BY CancelTypes
<1>4. ASSUME NEW w \in Workers
      PROVE  /\ work'[w].stage = work[w].stage /\ work'[w].hits = work[w].hits
             /\ work'[w].items = Cancel(work[w].items, gone)
             /\ work'[w] \in [stage : stages, items : SUBSET Items, hits : SUBSET Keys]
  <2>1. work'[w] = [work[w] EXCEPT !.items = Cancel(@, gone)]
    BY DEF Cleanup
  <2>2. work[w] \in [stage : stages, items : SUBSET Items, hits : SUBSET Keys]
    BY <1>2
  <2>3. Cancel(work[w].items, gone) \in SUBSET Items
    BY <1>3, <2>2
  <2> HIDE DEF gone
  <2> QED
    BY <2>1, <2>2, <2>3
<1> HIDE DEF gone
<1>5. DOMAIN work' = Workers /\ work' = [w \in Workers |-> work'[w]]
  BY DEF Cleanup
<1>6. Typed(stages)'
  <2>1. askers' \in [Keys -> SUBSET Reqs] /\ result' \in [Keys -> Results]
    BY <1>1, <1>2 DEF Results
  <2>2. batch' \in Seq(Items) /\ queue' \in Seq(SUBSET Items)
    <3>1. \A n \in DOMAIN batch : Cancelled(batch[n], gone) \in Items
      BY <1>2, <1>3
    <3>2. \A n \in DOMAIN queue : Cancel(queue[n], gone) \in SUBSET Items
      BY <1>2, <1>3
    <3>3. /\ batch' = [n \in DOMAIN batch |-> batch'[n]]
          /\ \A n \in DOMAIN batch : batch'[n] \in Items
      BY <1>1, <3>1
    <3>4. /\ queue' = [n \in DOMAIN queue |-> queue'[n]]
          /\ \A n \in DOMAIN queue : queue'[n] \in SUBSET Items
      BY <1>1, <3>2
    <3> QED
      BY <1>2, <3>3, <3>4, MapInSeq
  <2>3. work' \in [Workers -> [stage : stages, items : SUBSET Items, hits : SUBSET Keys]]
    BY <1>4, <1>5
  <2>4. \A w \in Workers : work'[w].stage \in {"idle", "stopped"} <=> work'[w].items = {}
    BY <1>2, <1>3, <1>4
  <2> QED
    BY <1>1, <2>1, <2>2, <2>3, <2>4 DEF Typed, NotStopping, NumWorkers, Results
<1>7. /\ \A q, n : InBatch(q, n)' <=> InBatch(q, n) /\ q \notin gone
      /\ \A q, n : InQueue(q, n)' <=> InQueue(q, n) /\ q \notin gone
      /\ \A q, w : AtWorker(q, w)' <=> AtWorker(q, w) /\ q \notin gone
      /\ \A q, c : ~InChunk(q, c)' /\ ~InChunk(q, c)
  <2>1. \A q, n : InBatch(q, n)' <=> InBatch(q, n) /\ q \notin gone
    <3>1. ASSUME NEW n \in DOMAIN batch PROVE {batch'[n]} = Cancel({batch[n]}, gone)
      BY <1>1, <3>1 DEF Cancel
    <3>2. DOMAIN batch' = DOMAIN batch
      BY <1>1
    <3> QED
      BY <3>1, <3>2, CancelKeys DEF InBatch
  <2>2. \A q, n : InQueue(q, n)' <=> InQueue(q, n) /\ q \notin gone
    <3>1. \A n \in DOMAIN queue : queue'[n] = Cancel(queue[n], gone)
      BY <1>1
    <3>2. DOMAIN queue' = DOMAIN queue
      BY <1>1
    <3> QED
      BY <3>1, <3>2, CancelKeys DEF InQueue
  <2>3. \A q, w : AtWorker(q, w)' <=> AtWorker(q, w) /\ q \notin gone
    BY <1>4, CancelKeys DEF AtWorker
  <2> QED
    BY <1>1, <2>1, <2>2, <2>3 DEF InChunk
<1>8. ASSUME NEW q \in Keys PROVE KeyInv(q)'
  <2>1. KeyInv(q)
    BY InvIs
  <2>2. NotTwice(q)'
    BY <1>7, <2>1 DEF KeyInv, NotTwice
  <2>3. CASE q \in gone
    <3>1. ~Somewhere(q)' /\ result'[q] = "absent"
      BY <1>1, <1>7, <2>3 DEF Somewhere
    <3> QED
      BY <2>2, <3>1 DEF KeyInv
  <2>4. CASE q \notin gone
    <3>1. (Somewhere(q)' <=> Somewhere(q)) /\ result'[q] = result[q]
      BY <1>1, <1>7, <2>4 DEF Somewhere
    <3>2. askers[q] # {} => askers'[q] # {}
      BY <1>1, <2>4 DEF gone, Orphaned
    <3> QED
      BY <1>1, <2>1, <2>2, <3>1, <3>2 DEF KeyInv, Answered
  <2> QED
    BY <2>3, <2>4
<1> QED
  BY <1>6, <1>8, InvIsNext

\* invalidate() turns states into misses, and starts no wait.
LEMMA InvalidateKeeps ==
  ASSUME NEW stages, Typed(stages), AsyncInv, NEW ks, Invalidate(ks)
  PROVE  Typed(stages)' /\ AsyncInv'
<1>1. /\ result' = [k \in Keys |-> IF k \in ks /\ result[k] # "absent" THEN "miss" ELSE result[k]]
      /\ UNCHANGED <<askers, batch, flushing, queue, work, published, needDrain, sentinels>>
  BY DEF Invalidate
<1>2. Typed(stages)'
  BY <1>1 DEF Typed, NotStopping, NumWorkers
<1>3. ASSUME NEW q \in Keys PROVE KeyInv(q)'
  <2>1. KeyInv(q)
    BY InvIs
  <2>2. (Somewhere(q)' <=> Somewhere(q)) /\ (NotTwice(q)' <=> NotTwice(q))
    BY <1>1 DEF Somewhere, NotTwice, InBatch, InChunk, InQueue, AtWorker
  <2>3. /\ result'[q] = "wait" => result[q] = "wait"
        /\ result'[q] = "absent" => result[q] = "absent"
    BY <1>1
  <2> QED
    BY <1>1, <2>1, <2>2, <2>3 DEF KeyInv, Answered
<1> QED
  BY <1>2, <1>3, InvIsNext

\* The sentinels carry no item.
LEMMA ShutdownKeeps ==
  ASSUME NEW stages, Typed(stages), AsyncInv, Shutdown \/ PutSentinel
  PROVE  Typed(stages)' /\ AsyncInv'
<1>1. UNCHANGED <<result, askers, batch, flushing, work, published, needDrain>>
  BY DEF Shutdown, PutSentinel
<1>2. NumWorkers \in Nat
  BY LimitsAssumption, FS_CardinalityType DEF NumWorkers
<1>3. queue \in Seq(SUBSET Items) /\ (queue' = queue \/ queue' = Append(queue, {}))
  BY DEF Typed, Shutdown, PutSentinel, Sentinel
<1>4. Typed(stages)'
  <2>1. queue' \in Seq(SUBSET Items)
    BY <1>3
  <2>2. sentinels' \in 0..NotStopping
    BY <1>2 DEF Shutdown, PutSentinel, NotStopping, Typed
  <2> QED
    BY <1>1, <2>1, <2>2 DEF Typed, NotStopping, NumWorkers
<1>5. \A q, n : InQueue(q, n)' <=> InQueue(q, n)
  <2>1. CASE queue' = queue
    BY <2>1 DEF InQueue
  <2>2. CASE queue' = Append(queue, {})
    <3>1. /\ DOMAIN queue' = DOMAIN queue \cup {Len(queue) + 1}
          /\ \A m \in DOMAIN queue : queue'[m] = queue[m]
          /\ queue'[Len(queue) + 1] = {}
      BY <1>3, <2>2
    <3>2. \A q : q \notin LiveKeys({})
      BY LiveKeysAre
    <3> QED
      BY <3>1, <3>2 DEF InQueue
  <2> QED
    BY <1>3, <2>1, <2>2
<1>6. ASSUME NEW q \in Keys PROVE KeyInv(q)'
  <2>1. KeyInv(q)
    BY InvIs
  <2>2. (Somewhere(q)' <=> Somewhere(q)) /\ (NotTwice(q)' <=> NotTwice(q))
    <3>1. /\ \A n : (InBatch(q, n)' <=> InBatch(q, n)) /\ (InChunk(q, n)' <=> InChunk(q, n))
          /\ \A n : AtWorker(q, n)' <=> AtWorker(q, n)
      BY <1>1 DEF InBatch, InChunk, AtWorker
    <3> QED
      BY <1>5, <3>1 DEF Somewhere, NotTwice
  <2> QED
    BY <1>1, <2>1, <2>2 DEF KeyInv, Answered
<1> QED
  BY <1>4, <1>6, InvIsNext

-------------------------------------------------------------------------------
\* The workers' steps.

\* The chunk at the head of the queue goes, and the others move up.
LEMMA QueueMoves ==
  ASSUME queue \in Seq(SUBSET Items), queue # <<>>, queue' = Tail(queue)
  PROVE  /\ queue' \in Seq(SUBSET Items) /\ Head(queue) \in SUBSET Items
         /\ 1 \in DOMAIN queue /\ queue[1] = Head(queue)
         /\ \A q, n : InQueue(q, n)' <=> n \in Nat \ {0} /\ InQueue(q, n + 1)
         /\ \A q, n : InQueue(q, n) => n = 1 \/ (n - 1 \in Nat \ {0} /\ InQueue(q, n - 1)')
<1>1. /\ DOMAIN queue = 1..Len(queue) /\ Len(queue) \in Nat /\ Len(queue) >= 1
      /\ queue' \in Seq(SUBSET Items) /\ DOMAIN queue' = 1..(Len(queue) - 1)
      /\ \A n \in 1..(Len(queue) - 1) : queue'[n] = queue[n + 1]
      /\ Head(queue) = queue[1] /\ Head(queue) \in SUBSET Items
  OBVIOUS
<1>2. ASSUME NEW q, NEW n PROVE InQueue(q, n)' <=> n \in Nat \ {0} /\ InQueue(q, n + 1)
  BY <1>1 DEF InQueue
<1>3. ASSUME NEW q, NEW n, InQueue(q, n), n # 1
      PROVE  n - 1 \in Nat \ {0} /\ InQueue(q, n - 1)'
  BY <1>1, <1>3 DEF InQueue
<1> QED
  BY <1>1, <1>2, <1>3

\* A worker takes the live items of the first chunk, or the sentinel.
LEMMA TakeKeeps ==
  ASSUME NEW stages, "probing" \in stages, "stopped" \in stages, "idle" \in stages,
         Typed(stages), AsyncInv, NEW w \in Workers, Take(w) \/ Stop(w)
  PROVE  Typed(stages)' /\ AsyncInv'
<1> DEFINE taken == Live(Head(queue))
<1>1. /\ work[w].stage = "idle" /\ queue # <<>> /\ queue' = Tail(queue)
      /\ UNCHANGED <<result, askers, batch, flushing, needDrain, sentinels, published>>
  BY DEF Take, Stop, schedVars
<1>2. /\ queue \in Seq(SUBSET Items)
      /\ work \in [Workers -> [stage : stages, items : SUBSET Items, hits : SUBSET Keys]]
      /\ \A v \in Workers : work[v].stage \in {"idle", "stopped"} <=> work[v].items = {}
  BY DEF Typed
<1>3. work[w].items = {}
  BY <1>1, <1>2
<1>4. /\ queue' \in Seq(SUBSET Items) /\ Head(queue) \in SUBSET Items
      /\ 1 \in DOMAIN queue /\ queue[1] = Head(queue)
      /\ \A q, n : InQueue(q, n)' <=> n \in Nat \ {0} /\ InQueue(q, n + 1)
      /\ \A q, n : InQueue(q, n) => n = 1 \/ (n - 1 \in Nat \ {0} /\ InQueue(q, n - 1)')
  BY <1>1, <1>2, QueueMoves
<1>5. /\ taken \in SUBSET Items
      /\ \A q : q \in LiveKeys(taken) <=> InQueue(q, 1)
  <2>1. \A q : q \in LiveKeys(taken) <=> q \in LiveKeys(Head(queue))
    BY DEF LiveKeys, Live
  <2> QED
    BY <1>4, <2>1 DEF InQueue, Live
<1> HIDE DEF taken
<1>6. PICK st \in {"idle", "probing", "stopped"} :
        /\ work' = [work EXCEPT ![w] = [stage |-> st, items |-> taken, hits |-> {}]]
        /\ st \in {"idle", "stopped"} <=> taken = {}
  <2>1. CASE Take(w)
    BY <2>1 DEF Take, IdleWorker, taken
  <2>2. CASE Stop(w)
    <3>1. Head(queue) = {} /\ work' = [work EXCEPT ![w] =
                                [stage |-> "stopped", items |-> work[w].items, hits |-> {}]]
      BY <2>2 DEF Stop, Goes, Sentinel
    <3>2. taken = {}
      BY <3>1 DEF taken, Live
    <3> QED
      BY <1>3, <3>1, <3>2
  <2> QED
    BY <2>1, <2>2
<1>7. /\ work'[w].items = taken /\ (work'[w].stage \in {"idle", "stopped"} <=> taken = {})
      /\ work'[w] \in [stage : stages, items : SUBSET Items, hits : SUBSET Keys]
      /\ \A v \in Workers \ {w} : work'[v] = work[v]
      /\ work' = [v \in Workers |-> work'[v]]
  BY <1>2, <1>5, <1>6
<1>8. Typed(stages)'
  <2>1. work' \in [Workers -> [stage : stages, items : SUBSET Items, hits : SUBSET Keys]]
    BY <1>2, <1>7
  <2>2. \A v \in Workers : work'[v].stage \in {"idle", "stopped"} <=> work'[v].items = {}
    BY <1>2, <1>7
  <2> QED
    BY <1>1, <1>4, <2>1, <2>2 DEF Typed, NotStopping, NumWorkers
<1>9. /\ \A q, n : (InBatch(q, n)' <=> InBatch(q, n)) /\ (InChunk(q, n)' <=> InChunk(q, n))
      /\ \A q, v : AtWorker(q, v)' <=> IF v = w THEN InQueue(q, 1) ELSE AtWorker(q, v)
      /\ \A q : ~AtWorker(q, w)
  <2>1. \A q, n : (InBatch(q, n)' <=> InBatch(q, n)) /\ (InChunk(q, n)' <=> InChunk(q, n))
    BY <1>1 DEF InBatch, InChunk
  <2>2. \A q : q \notin LiveKeys({})
    BY LiveKeysAre
  <2> QED
    BY <1>3, <1>5, <1>7, <2>1, <2>2 DEF AtWorker
<1>10. ASSUME NEW q \in Keys PROVE KeyInv(q)'
  <2>1. KeyInv(q)
    BY InvIs
  <2>2. Somewhere(q)' <=> Somewhere(q)
    <3>1. Somewhere(q)' => Somewhere(q)
      BY <1>4, <1>9 DEF Somewhere
    <3>2. Somewhere(q) => Somewhere(q)'
      BY <1>4, <1>9 DEF Somewhere
    <3> QED
      BY <3>1, <3>2
  <2>3. NotTwice(q)'
    <3>1. NotTwice(q)
      BY <2>1 DEF KeyInv
    <3>2. CASE InQueue(q, 1)
      <4>1. \A n : /\ ~InBatch(q, n) /\ ~InChunk(q, n) /\ ~AtWorker(q, n)
                   /\ InQueue(q, n) => n = 1
        BY <3>1, <3>2 DEF NotTwice
      <4>2. \A n : ~InQueue(q, n)'
        BY <1>4, <4>1
      <4> QED
        BY <1>9, <4>1, <4>2 DEF NotTwice
    <3>3. CASE ~InQueue(q, 1)
      <4>1. \A m, n : InQueue(q, m)' /\ InQueue(q, n)' => m = n
        BY <1>4, <3>1 DEF NotTwice
      <4>2. \A n : InQueue(q, n)' => \E m : InQueue(q, m)
        BY <1>4
      <4>3. \A n : AtWorker(q, n)' <=> AtWorker(q, n)
        BY <1>9, <3>3
      <4> QED
        BY <1>9, <3>1, <4>1, <4>2, <4>3 DEF NotTwice
    <3> QED
      BY <3>2, <3>3
  <2> QED
    BY <1>1, <2>1, <2>2, <2>3 DEF KeyInv, Answered
<1> QED
  BY <1>8, <1>10, InvIsNext

\* A worker that goes on with what it took keeps it.
LEMMA GoesKeeps ==
  ASSUME NEW stages, Typed(stages), AsyncInv, NEW w \in Workers,
         NEW st \in stages \ {"idle", "stopped"}, NEW hits \in SUBSET Keys, Goes(w, st, hits),
         work[w].stage \notin {"idle", "stopped"},
         UNCHANGED <<schedVars, queue, published>>
  PROVE  Typed(stages)' /\ AsyncInv'
<1>1. UNCHANGED <<result, askers, batch, flushing, needDrain, sentinels, queue, published>>
  BY DEF schedVars
<1>2. /\ work \in [Workers -> [stage : stages, items : SUBSET Items, hits : SUBSET Keys]]
      /\ \A v \in Workers : work[v].stage \in {"idle", "stopped"} <=> work[v].items = {}
  BY DEF Typed
<1>3. /\ work' = [work EXCEPT ![w] = [stage |-> st, items |-> work[w].items, hits |-> hits]]
      /\ work[w].items \in SUBSET Items
  BY <1>2 DEF Goes
<1>4. /\ work' \in [Workers -> [stage : stages, items : SUBSET Items, hits : SUBSET Keys]]
      /\ \A v \in Workers : /\ work'[v].items = work[v].items
                            /\ work'[v].stage \in {"idle", "stopped"}
                                 <=> work[v].stage \in {"idle", "stopped"}
  BY <1>2, <1>3
<1>5. Typed(stages)'
  BY <1>1, <1>2, <1>4 DEF Typed, NotStopping, NumWorkers
<1>6. ASSUME NEW q \in Keys PROVE KeyInv(q)'
  <2>1. KeyInv(q)
    BY InvIs
  <2>2. (Somewhere(q)' <=> Somewhere(q)) /\ (NotTwice(q)' <=> NotTwice(q))
    BY <1>1, <1>4 DEF Somewhere, NotTwice, InBatch, InChunk, InQueue, AtWorker
  <2> QED
    BY <1>1, <2>1, <2>2 DEF KeyInv, Answered
<1> QED
  BY <1>5, <1>6, InvIsNext

\* A worker's live keys turn into answers.
LEMMA PublishKeeps ==
  ASSUME NEW stages, "idle" \in stages, Typed(stages), AsyncInv, NEW w \in Workers, Publish(w)
  PROVE  Typed(stages)' /\ AsyncInv'
<1> DEFINE keys == LiveKeys(work[w].items)
<1>1. /\ UNCHANGED <<result, askers, batch, flushing, needDrain, sentinels, queue>>
      /\ work' = [work EXCEPT ![w] = IdleWorker]
      /\ published' = IF keys = {} THEN published
                      ELSE Append(published, [keys |-> keys, hits |-> work[w].hits])
  BY DEF Publish, schedVars
<1>2. /\ work \in [Workers -> [stage : stages, items : SUBSET Items, hits : SUBSET Keys]]
      /\ \A v \in Workers : work[v].stage \in {"idle", "stopped"} <=> work[v].items = {}
      /\ published \in Seq(Batches)
  BY DEF Typed, Batches
<1>3. keys \in SUBSET Keys /\ work[w].hits \in SUBSET Keys
  <2>1. work[w].items \in SUBSET Items /\ work[w].hits \in SUBSET Keys
    BY <1>2
  <2> QED
    BY <2>1 DEF LiveKeys, Live, Items
<1> HIDE DEF keys
<1>4. /\ work'[w] = IdleWorker /\ \A v \in Workers \ {w} : work'[v] = work[v]
      /\ work' \in [Workers -> [stage : stages, items : SUBSET Items, hits : SUBSET Keys]]
  BY <1>1, <1>2 DEF IdleWorker
<1>5. published' \in Seq(Batches)
  <2>1. [keys |-> keys, hits |-> work[w].hits] \in Batches
    BY <1>3 DEF Batches
  <2>2. Append(published, [keys |-> keys, hits |-> work[w].hits]) \in Seq(Batches)
    BY <1>2, <2>1, AppendProperties
  <2> QED
    BY <1>1, <1>2, <2>2
<1>6. Typed(stages)'
  <2>1. \A v \in Workers : work'[v].stage \in {"idle", "stopped"} <=> work'[v].items = {}
    BY <1>2, <1>4 DEF IdleWorker
  <2> QED
    BY <1>1, <1>4, <1>5, <2>1 DEF Typed, Batches, NotStopping, NumWorkers
<1>7. \A q : /\ Answered(q) # {} => Answered(q)' # {}
             /\ AtWorker(q, w) => Answered(q)' # {}
  <2>1. CASE keys = {}
    BY <1>1, <2>1 DEF Answered, AtWorker, keys
  <2>2. CASE keys # {}
    <3>1. /\ DOMAIN published' = DOMAIN published \cup {Len(published) + 1}
          /\ \A n \in DOMAIN published : published'[n] = published[n]
          /\ published'[Len(published) + 1].keys = keys
      BY <1>1, <1>2, <1>3, <2>2 DEF Batches
    <3> QED
      BY <3>1 DEF Answered, AtWorker, keys
  <2> QED
    BY <2>1, <2>2
<1>8. /\ \A q, n : (InBatch(q, n)' <=> InBatch(q, n)) /\ (InChunk(q, n)' <=> InChunk(q, n))
      /\ \A q, n : InQueue(q, n)' <=> InQueue(q, n)
      /\ \A q, v : AtWorker(q, v)' <=> AtWorker(q, v) /\ v # w
  <2>1. /\ \A q, n : (InBatch(q, n)' <=> InBatch(q, n)) /\ (InChunk(q, n)' <=> InChunk(q, n))
        /\ \A q, n : InQueue(q, n)' <=> InQueue(q, n)
    BY <1>1 DEF InBatch, InChunk, InQueue
  <2>2. \A q : q \notin LiveKeys(IdleWorker.items)
    BY LiveKeysAre DEF IdleWorker
  <2> QED
    BY <1>4, <2>1, <2>2 DEF AtWorker
<1>9. ASSUME NEW q \in Keys PROVE KeyInv(q)'
  <2>1. KeyInv(q)
    BY InvIs
  <2>2. NotTwice(q)' /\ (Somewhere(q)' => Somewhere(q))
    BY <1>8, <2>1 DEF KeyInv, NotTwice, Somewhere
  <2>3. Somewhere(q) => Somewhere(q)' \/ AtWorker(q, w)
    BY <1>8 DEF Somewhere
  <2> QED
    BY <1>1, <1>7, <2>1, <2>2, <2>3 DEF KeyInv
<1> QED
  BY <1>6, <1>9, InvIsNext

-------------------------------------------------------------------------------
\* A step that leaves the manager alone.
LEMMA AsyncStutter ==
  ASSUME NEW stages, Typed(stages), AsyncInv, UNCHANGED asyncVars
  PROVE  Typed(stages)' /\ AsyncInv'
<1>1. UNCHANGED <<result, askers, batch, flushing, queue, work, published, needDrain, sentinels>>
  BY DEF asyncVars
<1>2. Typed(stages)'
  BY <1>1 DEF Typed, NotStopping, NumWorkers
<1>3. ASSUME NEW q \in Keys PROVE KeyInv(q)'
  <2>1. KeyInv(q)
    BY InvIs
  <2> QED
    BY <1>1, <2>1 DEF KeyInv, Answered, Somewhere, NotTwice, InBatch, InChunk, InQueue, AtWorker
<1> QED
  BY <1>2, <1>3, InvIsNext

\* The manager by itself.
AsyncIInv == AsyncTypeOK /\ AsyncInv

\* A manager that was just constructed has no states and no items.
LEMMA InitAsyncIInv == ASSUME NEW stages, "idle" \in stages, AsyncInit
                       PROVE  Typed(stages) /\ AsyncInv
<1>1. NumWorkers \in Nat
  BY LimitsAssumption, FS_CardinalityType DEF NumWorkers
<1>2. Typed(stages)
  <2>1. /\ IdleWorker \in [stage : stages, items : SUBSET Items, hits : SUBSET Keys]
        /\ IdleWorker.stage = "idle" /\ IdleWorker.items = {}
    BY DEF IdleWorker
  <2>2. sentinels \in 0..NotStopping
    BY <1>1 DEF AsyncInit, NotStopping
  <2>3. /\ result \in [Keys -> {"absent", "wait", "hit", "miss"}]
        /\ askers \in [Keys -> SUBSET Reqs] /\ flushing = {} /\ needDrain \in BOOLEAN
    BY DEF AsyncInit
  <2>5. /\ batch \in Seq(Items) /\ queue \in Seq(SUBSET Items)
        /\ published \in Seq([keys : SUBSET Keys, hits : SUBSET Keys])
    <3>1. batch = <<>> /\ queue = <<>> /\ published = <<>>
      BY DEF AsyncInit
    <3> QED
      BY <3>1, EmptySeq
  <2>4. work = [w \in Workers |-> IdleWorker]
    BY DEF AsyncInit
  <2> HIDE DEF IdleWorker
  <2> QED
    BY <2>1, <2>2, <2>3, <2>4, <2>5 DEF Typed
<1>3. \A k : ~Somewhere(k)
  <2>1. \A q : q \notin LiveKeys({})
    BY LiveKeysAre
  <2> QED
    BY <2>1 DEF AsyncInit, Somewhere, InBatch, InChunk, InQueue, AtWorker, IdleWorker
<1>4. \A k \in Keys : KeyInv(k)
  BY <1>3 DEF AsyncInit, KeyInv, NotTwice, Somewhere
<1> QED
  BY <1>2, <1>4, InvIs

\* Every step keeps the invariant.
LEMMA StepKeepsAsyncIInv == AsyncIInv /\ [AsyncNext]_asyncVars => AsyncIInv'
<1> SUFFICES ASSUME AsyncIInv, [AsyncNext]_asyncVars PROVE AsyncIInv'
  OBVIOUS
<1>1. /\ Typed(Stages) /\ AsyncInv /\ "idle" \in Stages /\ "probing" \in Stages
      /\ "stopped" \in Stages /\ "done" \in Stages \ {"idle", "stopped"}
  BY DEF AsyncIInv, AsyncTypeOK, Stages
<1>2. SUFFICES Typed(Stages)' /\ AsyncInv'
  BY DEF AsyncIInv, AsyncTypeOK, Typed, Stages, NotStopping, NumWorkers
<1>3. ASSUME NEW r \in Reqs, NEW k \in Keys, Lookup(r, k) PROVE Typed(Stages)' /\ AsyncInv'
  BY <1>1, <1>3, LookupKeepsTypes, LookupKeeps
<1>4. ASSUME NEW r \in Reqs, Cleanup(r) PROVE Typed(Stages)' /\ AsyncInv'
  BY <1>1, <1>4, CleanupKeeps
<1>5. ASSUME NEW k \in Keys, Invalidate({k}) PROVE Typed(Stages)' /\ AsyncInv'
  BY <1>1, <1>5, InvalidateKeeps
<1>6. CASE Flush \/ PutOrDrop \/ Shutdown \/ PutSentinel
  BY <1>1, <1>6, FlushKeeps, PutOrDropKeeps, ShutdownKeeps
<1>7. ASSUME NEW w \in Workers, Take(w) \/ Stop(w) PROVE Typed(Stages)' /\ AsyncInv'
  BY <1>1, <1>7, TakeKeeps
<1>8. ASSUME NEW w \in Workers, Probe(w) PROVE Typed(Stages)' /\ AsyncInv'
  <2>1. PICK hits \in SUBSET KeysOf(work[w].items) : Probed(w, hits)
    BY <1>8 DEF Probe
  <2>2. work[w].items \in SUBSET Items
    BY <1>1 DEF Typed
  <2>3. hits \in SUBSET Keys
    BY <2>2 DEF KeysOf, Items
  <2>4. work[w].stage = "probing" /\ Goes(w, "done", hits)
    BY <2>1 DEF Probed
  <2>5. UNCHANGED <<schedVars, queue, published>>
    BY <1>8 DEF Probe
  <2> QED
    BY <1>1, <2>3, <2>4, <2>5, GoesKeeps
<1>9. ASSUME NEW w \in Workers, Publish(w) PROVE Typed(Stages)' /\ AsyncInv'
  BY <1>1, <1>9, PublishKeeps
<1>10. CASE UNCHANGED asyncVars
  BY <1>1, <1>10, AsyncStutter
<1> QED
  BY <1>3, <1>4, <1>5, <1>6, <1>7, <1>8, <1>9, <1>10 DEF AsyncNext

\* The inductive invariant holds of the manager in every reachable state.
THEOREM AsyncIInvHolds == AsyncSpec => []AsyncIInv
<1>1. AsyncInit => AsyncIInv
  BY InitAsyncIInv DEF AsyncIInv, AsyncTypeOK, Stages
<1> QED
  BY <1>1, StepKeepsAsyncIInv, PTL DEF AsyncSpec

\* The manager's variables keep their types, and only idle workers are without items.
THEOREM AsyncTypeOKHolds == AsyncSpec => []AsyncTypeOK
<1>1. AsyncIInv => AsyncTypeOK
  BY DEF AsyncIInv
<1> QED
  BY <1>1, AsyncIInvHolds, PTL

\* No awaited answer is ever lost: to a full queue, to a cancellation, or to a drain.
THEOREM WaitIsCoveredHolds == AsyncSpec => []WaitIsCovered
<1>1. AsyncIInv => WaitIsCovered
  BY DEF AsyncIInv, AsyncInv
<1> QED
  BY <1>1, AsyncIInvHolds, PTL

\* However many requests ask about a key, it has one live item at most, and a live
\* item has a state with somebody to report to.
THEOREM OneLiveItemHolds == AsyncSpec => []OneLiveItem
<1>1. AsyncIInv => OneLiveItem
  BY DEF AsyncIInv, AsyncInv
<1> QED
  BY <1>1, AsyncIInvHolds, PTL

-------------------------------------------------------------------------------
\* Who holds a shard.  All requests and jobs are Me's, so Me's holders are the sum
\* over all of them, and no other process has any.
OfReq(s) == [r \in Reqs |-> Each(pinned[r])[s] + pending[r][s]]
OfJob(s) == [j \in Jobs |-> Each(jobShards[j])[s]]
ReqSum(s) == SumFunctionOnSet(OfReq(s), Reqs)
JobSum(s) == SumFunctionOnSet(OfJob(s), Jobs)
Balanced == \A s \in Shards : /\ count[Me][s] <= ReqSum(s) + JobSum(s)
                              /\ \A p \in Procs \ {Me} : count[p][s] <= 0

\* No lease leaks exactly when Me's counts are covered and nobody else has any.
LEMMA BalancedIs == LeasesNotLeaked <=> Balanced
<1>1. {r \in Reqs : ProcOf[r] = Me} = Reqs /\ {j \in Jobs : ProcOf[j] = Me} = Jobs
  BY OwnRequests
<1>2. \A s : Holders(Me, s) = ReqSum(s) + JobSum(s)
  BY <1>1 DEF Holders, ReqSum, JobSum, OfReq, OfJob
<1>3. ASSUME NEW p \in Procs \ {Me}, NEW s PROVE Holders(p, s) = 0
  <2>1. {r \in Reqs : ProcOf[r] = p} = {} /\ {j \in Jobs : ProcOf[j] = p} = {}
    BY <1>3, OwnRequests
  <2>2. Holders(p, s) = SumFunctionOnSet(OfReq(s), {}) + SumFunctionOnSet(OfJob(s), {})
    BY <2>1 DEF Holders, OfReq, OfJob
  <2> QED
    BY <2>2, SumEmpty
<1> QED
  BY <1>2, <1>3, OwnRequests DEF LeasesNotLeaked, Balanced

\* The same in the next state.
LEMMA BalancedIsNext == (LeasesNotLeaked <=> Balanced)'
  BY BalancedIs, PTL

\* How many of something there are in each shard.
ShardCounts == [Shards -> Nat]

\* One holder per shard of a set.
LEMMA EachIs ==
  ASSUME NEW S
  PROVE  /\ Each(S) \in ShardCounts /\ None \in ShardCounts
         /\ \A s \in Shards : /\ Each(S)[s] = IF s \in S THEN 1 ELSE 0
                              /\ None[s] = 0
  BY DEF Each, None, ShardCounts

\* The holders of a shard are whole numbers.
LEMMA SumTypes ==
  ASSUME LeaseTypeOK, NEW s \in Shards
  PROVE  /\ \A r \in Reqs : OfReq(s)[r] \in Nat /\ OfReq(s)[r] = Each(pinned[r])[s] + pending[r][s]
         /\ \A j \in Jobs : OfJob(s)[j] \in Nat /\ OfJob(s)[j] = Each(jobShards[j])[s]
         /\ ReqSum(s) \in Nat /\ JobSum(s) \in Nat
<1>1. \A r \in Reqs : OfReq(s)[r] \in Nat /\ OfReq(s)[r] = Each(pinned[r])[s] + pending[r][s]
  BY EachIs DEF LeaseTypeOK, OfReq, ShardCounts
<1>2. \A j \in Jobs : OfJob(s)[j] \in Nat /\ OfJob(s)[j] = Each(jobShards[j])[s]
  BY EachIs DEF OfJob, ShardCounts
<1> QED
  BY <1>1, <1>2, SumNat, ProcOfAssumption DEF ReqSum, JobSum

\* The same in the next state.
LEMMA SumTypesNext == (LeaseTypeOK => \A s \in Shards :
         /\ \A r \in Reqs : OfReq(s)[r] \in Nat /\ OfReq(s)[r] = Each(pinned[r])[s] + pending[r][s]
         /\ \A j \in Jobs : OfJob(s)[j] \in Nat /\ OfJob(s)[j] = Each(jobShards[j])[s]
         /\ ReqSum(s) \in Nat /\ JobSum(s) \in Nat)'
<1>1. LeaseTypeOK => \A s \in Shards :
         /\ \A r \in Reqs : OfReq(s)[r] \in Nat /\ OfReq(s)[r] = Each(pinned[r])[s] + pending[r][s]
         /\ \A j \in Jobs : OfJob(s)[j] \in Nat /\ OfJob(s)[j] = Each(jobShards[j])[s]
         /\ ReqSum(s) \in Nat /\ JobSum(s) \in Nat
  BY SumTypes
<1> QED
  BY <1>1, PTL

\* What a step does to the holders of one request, or of one job.
OnlyReq(r) == \A q \in Reqs \ {r} : pinned'[q] = pinned[q] /\ pending'[q] = pending[q]
OnlyJob(j) == \A i \in Jobs \ {j} : jobShards'[i] = jobShards[i]
SameReqs == \A q \in Reqs : pinned'[q] = pinned[q] /\ pending'[q] = pending[q]
SameJobs == \A i \in Jobs : jobShards'[i] = jobShards[i]

\* The holders of a shard change by what one request's do.
LEMMA ReqChange ==
  ASSUME LeaseTypeOK, LeaseTypeOK', NEW r \in Reqs, OnlyReq(r), NEW s \in Shards
  PROVE  ReqSum(s)' = ReqSum(s) - OfReq(s)[r] + OfReq(s)'[r]
<1>1. \A q \in Reqs \ {r} : OfReq(s)'[q] = OfReq(s)[q]
  BY DEF OnlyReq, OfReq, Each
<1>2. (\A q \in Reqs : OfReq(s)[q] \in Int) /\ OfReq(s)'[r] \in Int
  BY SumTypes, SumTypesNext
<1> QED
  BY <1>1, <1>2, SumUpdate, ProcOfAssumption DEF ReqSum

\* They change by what one job's do.
LEMMA JobChange ==
  ASSUME LeaseTypeOK, LeaseTypeOK', NEW j \in Jobs, OnlyJob(j), NEW s \in Shards
  PROVE  JobSum(s)' = JobSum(s) - OfJob(s)[j] + OfJob(s)'[j]
<1>1. \A q \in Jobs \ {j} : OfJob(s)'[q] = OfJob(s)[q]
  BY DEF OnlyJob, OfJob, Each
<1>2. (\A q \in Jobs : OfJob(s)[q] \in Int) /\ OfJob(s)'[j] \in Int
  BY SumTypes, SumTypesNext
<1> QED
  BY <1>1, <1>2, SumUpdate, ProcOfAssumption DEF JobSum

\* They stay when no request, or no job, changes what it holds.
LEMMA NoChange ==
  ASSUME NEW s \in Shards
  PROVE  /\ SameReqs => ReqSum(s)' = ReqSum(s)
         /\ SameJobs => JobSum(s)' = JobSum(s)
<1>1. ASSUME SameReqs PROVE \A q \in Reqs : OfReq(s)'[q] = OfReq(s)[q]
  BY <1>1 DEF SameReqs, OfReq, Each
<1>2. ASSUME SameJobs PROVE \A q \in Jobs : OfJob(s)'[q] = OfJob(s)[q]
  BY <1>2 DEF SameJobs, OfJob, Each
<1> QED
  BY <1>1, <1>2, SumSame, ProcOfAssumption DEF ReqSum, JobSum

\* A count follows its holders, or is zero.
LEMMA RecountIs ==
  ASSUME LeaseTypeOK, NEW p \in Procs, NEW more \in ShardCounts, NEW fewer \in ShardCounts,
         Recount(p, more, fewer)
  PROVE  /\ count' \in [Procs -> [Shards -> Nat]]
         /\ \A s \in Shards : \/ count'[p][s] = 0
                              \/ count'[p][s] = count[p][s] + more[s] - fewer[s]
         /\ \A q \in Procs \ {p} : count'[q] = count[q]
<1>1. count \in [Procs -> [Shards -> Nat]]
  BY DEF LeaseTypeOK
<1>2. count' = [count EXCEPT ![p] =
                  [s \in Shards |-> Minus(count[p][s] + more[s], fewer[s])]]
  BY DEF Recount
<1>3. ASSUME NEW s \in Shards
      PROVE  /\ Minus(count[p][s] + more[s], fewer[s]) \in Nat
             /\ \/ Minus(count[p][s] + more[s], fewer[s]) = 0
                \/ Minus(count[p][s] + more[s], fewer[s]) = count[p][s] + more[s] - fewer[s]
  BY <1>1 DEF Minus, ShardCounts
<1> QED
  BY <1>1, <1>2, <1>3

-------------------------------------------------------------------------------
\* The index's methods.

\* Counts stay covered when they grow by no more than their holders do.
LEMMA Rebalance ==
  ASSUME LeaseTypeOK, LeaseTypeOK', Balanced, NEW more \in ShardCounts, NEW fewer \in ShardCounts,
         Recount(Me, more, fewer),
         \A s \in Shards : more[s] - fewer[s] <= (ReqSum(s)' - ReqSum(s)) + (JobSum(s)' - JobSum(s))
  PROVE  Balanced'
<1>1. Me \in Procs
  BY OwnRequests
<1>2. /\ \A s \in Shards : \/ count'[Me][s] = 0
                           \/ count'[Me][s] = count[Me][s] + more[s] - fewer[s]
      /\ \A q \in Procs \ {Me} : count'[q] = count[q]
  BY <1>1, RecountIs
<1>3. ASSUME NEW s \in Shards PROVE count'[Me][s] <= ReqSum(s)' + JobSum(s)'
  <2>1. /\ ReqSum(s) \in Nat /\ JobSum(s) \in Nat /\ count[Me][s] \in Nat
        /\ more[s] \in Nat /\ fewer[s] \in Nat /\ count[Me][s] <= ReqSum(s) + JobSum(s)
    BY <1>1, SumTypes DEF Balanced, LeaseTypeOK, ShardCounts
  <2>2. ReqSum(s)' \in Nat /\ JobSum(s)' \in Nat
    BY SumTypesNext
  <2>3. more[s] - fewer[s] <= (ReqSum(s)' - ReqSum(s)) + (JobSum(s)' - JobSum(s))
    OBVIOUS
  <2> QED
    BY <1>2, <2>1, <2>2, <2>3
<1> QED
  BY <1>2, <1>3 DEF Balanced

\* The same for a method that touches the leases of one request.
LEMMA RequestStep ==
  ASSUME LeaseTypeOK, LeaseTypeOK', Balanced, NEW r \in Reqs, OnlyReq(r), SameJobs,
         NEW more \in ShardCounts, NEW fewer \in ShardCounts, Recount(ProcOf[r], more, fewer),
         \A s \in Shards : more[s] - fewer[s] <= OfReq(s)'[r] - OfReq(s)[r]
  PROVE  Balanced'
<1>1. ProcOf[r] = Me
  BY OwnRequests
<1>2. ASSUME NEW s \in Shards
      PROVE  more[s] - fewer[s] <= (ReqSum(s)' - ReqSum(s)) + (JobSum(s)' - JobSum(s))
  <2>1. ReqSum(s)' = ReqSum(s) - OfReq(s)[r] + OfReq(s)'[r] /\ JobSum(s)' = JobSum(s)
    BY ReqChange, NoChange
  <2>2. /\ ReqSum(s) \in Nat /\ JobSum(s) \in Nat /\ OfReq(s)[r] \in Nat
        /\ more[s] \in Nat /\ fewer[s] \in Nat
    BY SumTypes DEF ShardCounts
  <2>3. OfReq(s)'[r] \in Nat
    BY SumTypesNext
  <2>4. more[s] - fewer[s] <= OfReq(s)'[r] - OfReq(s)[r]
    OBVIOUS
  <2> QED
    BY <2>1, <2>2, <2>3, <2>4
<1> QED
  BY <1>1, <1>2, Rebalance

\* What one request holds of a shard, before and after a step.
LEMMA HeldIs ==
  ASSUME LeaseTypeOK, LeaseTypeOK', NEW r \in Reqs, NEW s \in Shards
  PROVE  /\ OfReq(s)[r] = (IF s \in pinned[r] THEN 1 ELSE 0) + pending[r][s]
         /\ OfReq(s)'[r] = (IF s \in pinned'[r] THEN 1 ELSE 0) + pending'[r][s]
         /\ pending[r][s] \in Nat /\ pending'[r][s] \in Nat
<1>1. OfReq(s)[r] = Each(pinned[r])[s] + pending[r][s]
  BY SumTypes
<1>2. OfReq(s)'[r] = Each(pinned'[r])[s] + pending'[r][s]
  BY SumTypesNext
<1>3. pending[r][s] \in Nat /\ pending'[r][s] \in Nat
  BY DEF LeaseTypeOK
<1> QED
  BY <1>1, <1>2, <1>3, EachIs

\* A check's leases are counted to its request.
LEMMA BeginCheckKeeps ==
  ASSUME LeaseTypeOK, Balanced, NEW r \in Reqs, NEW want \in ShardCounts, BeginCheck(r, want)
  PROVE  LeaseTypeOK' /\ Balanced'
<1> DEFINE granted == [s \in Shards |-> IF s \in Eligible(r) THEN want[s] ELSE 0]
<1>1. /\ Recount(ProcOf[r], granted, None)
      /\ pending' = [pending EXCEPT ![r] = [s \in Shards |-> pending[r][s] + granted[s]]]
      /\ UNCHANGED <<evicting, tracked, pinned, jobShards, cancelled, closedReqs>>
  BY DEF BeginCheck
<1>2. granted \in ShardCounts /\ None \in ShardCounts /\ ProcOf[r] \in Procs
  BY EachIs, OwnRequests DEF ShardCounts
<1> HIDE DEF granted
<1>3. pending \in [Reqs -> [Shards -> Nat]] /\ granted \in [Shards -> Nat]
  BY <1>2 DEF LeaseTypeOK, ShardCounts
<1>4. /\ pending' \in [Reqs -> [Shards -> Nat]]
      /\ \A s \in Shards : pending'[r][s] = pending[r][s] + granted[s]
      /\ \A q \in Reqs \ {r} : pending'[q] = pending[q]
  BY <1>1, <1>3
<1>5. LeaseTypeOK'
  BY <1>1, <1>2, <1>4, RecountIs DEF LeaseTypeOK
<1>6. ASSUME NEW s \in Shards PROVE granted[s] - None[s] <= OfReq(s)'[r] - OfReq(s)[r]
  <2>1. /\ OfReq(s)[r] = (IF s \in pinned[r] THEN 1 ELSE 0) + pending[r][s]
        /\ OfReq(s)'[r] = (IF s \in pinned'[r] THEN 1 ELSE 0) + pending'[r][s]
        /\ pending[r][s] \in Nat /\ granted[s] \in Nat /\ None[s] = 0
    BY <1>3, <1>5, HeldIs, EachIs
  <2> QED
    BY <1>1, <1>4, <2>1
<1>7. OnlyReq(r) /\ SameJobs
  BY <1>1, <1>4 DEF OnlyReq, SameJobs
<1> QED
  BY <1>1, <1>2, <1>5, <1>6, <1>7, RequestStep

\* What is due of a request's checks is at most what they hold.
LEMMA DueIs ==
  ASSUME LeaseTypeOK, NEW r \in Reqs, NEW held \in ShardCounts
  PROVE  /\ Due(r, held) \in ShardCounts
         /\ \A s \in Shards : Due(r, held)[s] \in Nat /\ Due(r, held)[s] <= pending[r][s]
<1>1. ASSUME NEW s \in Shards
      PROVE  /\ Due(r, held)[s] = Least(held[s], pending[r][s])
             /\ Due(r, held)[s] \in Nat /\ Due(r, held)[s] <= pending[r][s]
  <2>1. held[s] \in Nat /\ pending[r][s] \in Nat
    BY DEF LeaseTypeOK, ShardCounts
  <2>2. Due(r, held)[s] = Least(held[s], pending[r][s])
    BY DEF Due
  <2> QED
    BY <2>1, <2>2 DEF Least
<1>2. Due(r, held) = [s \in Shards |-> Due(r, held)[s]]
  BY DEF Due
<1> QED
  BY <1>1, <1>2 DEF ShardCounts

\* A check gives back what it was leased and still has.
LEMMA EndCheckKeeps ==
  ASSUME LeaseTypeOK, Balanced, NEW r \in Reqs, NEW held \in ShardCounts, EndCheck(r, held)
  PROVE  LeaseTypeOK' /\ Balanced'
<1>1. /\ Recount(ProcOf[r], None, Due(r, held))
      /\ pending' = [pending EXCEPT ![r] = [s \in Shards |-> pending[r][s] - Due(r, held)[s]]]
      /\ UNCHANGED <<evicting, tracked, pinned, jobShards, cancelled, closedReqs>>
  BY DEF EndCheck, ReleasePending
<1>2. pending \in [Reqs -> [Shards -> Nat]] /\ held \in [Shards -> Nat]
  BY DEF LeaseTypeOK, ShardCounts
<1>3. /\ Due(r, held) \in ShardCounts /\ None \in ShardCounts /\ ProcOf[r] \in Procs
      /\ \A s \in Shards : Due(r, held)[s] \in Nat /\ Due(r, held)[s] <= pending[r][s]
  BY DueIs, EachIs, OwnRequests
<1>4. /\ pending' \in [Reqs -> [Shards -> Nat]]
      /\ \A s \in Shards : pending'[r][s] = pending[r][s] - Due(r, held)[s]
      /\ \A q \in Reqs \ {r} : pending'[q] = pending[q]
  BY <1>1, <1>2, <1>3
<1>5. LeaseTypeOK'
  BY <1>1, <1>3, <1>4, RecountIs DEF LeaseTypeOK
<1>6. ASSUME NEW s \in Shards
      PROVE  None[s] - Due(r, held)[s] <= OfReq(s)'[r] - OfReq(s)[r]
  <2>1. /\ OfReq(s)[r] = (IF s \in pinned[r] THEN 1 ELSE 0) + pending[r][s]
        /\ OfReq(s)'[r] = (IF s \in pinned'[r] THEN 1 ELSE 0) + pending'[r][s]
        /\ pending[r][s] \in Nat /\ Due(r, held)[s] \in Nat /\ None[s] = 0
    BY <1>3, <1>5, HeldIs, EachIs
  <2> QED
    BY <1>1, <1>4, <2>1
<1>7. OnlyReq(r) /\ SameJobs
  BY <1>1, <1>4 DEF OnlyReq, SameJobs
<1> QED
  BY <1>1, <1>3, <1>5, <1>6, <1>7, RequestStep

\* A shard with a hit is counted once, if it was granted, and recorded as leased.
LEMMA PinHitsKeeps ==
  ASSUME LeaseTypeOK, Balanced, NEW r \in Reqs, NEW hitShards \in SUBSET Shards, PinHits(r, hitShards)
  PROVE  LeaseTypeOK' /\ Balanced'
<1> DEFINE more == Each({s \in hitShards \ pinned[r] : CanShare(ProcOf[r], s)})
<1>1. /\ Recount(ProcOf[r], more, None)
      /\ pinned' = [pinned EXCEPT ![r] = @ \cup hitShards]
      /\ tracked' = [tracked EXCEPT ![ProcOf[r]] = @ \cup hitShards]
      /\ UNCHANGED <<evicting, pending, jobShards, cancelled, closedReqs>>
  BY DEF PinHits
<1>2. /\ more \in ShardCounts /\ None \in ShardCounts /\ ProcOf[r] \in Procs
      /\ \A s \in Shards : more[s] = IF s \in hitShards \ pinned[r] /\ CanShare(ProcOf[r], s) THEN 1 ELSE 0
  BY EachIs, OwnRequests
<1> HIDE DEF more
<1>3. /\ pinned \in [Reqs -> SUBSET Shards] /\ tracked \in [Procs -> SUBSET Shards]
  BY DEF LeaseTypeOK
<1>4. /\ pinned' \in [Reqs -> SUBSET Shards] /\ tracked' \in [Procs -> SUBSET Shards]
      /\ pinned'[r] = pinned[r] \cup hitShards
      /\ \A q \in Reqs \ {r} : pinned'[q] = pinned[q]
  BY <1>1, <1>3
<1>5. LeaseTypeOK'
  BY <1>1, <1>2, <1>4, RecountIs DEF LeaseTypeOK
<1>6. ASSUME NEW s \in Shards PROVE more[s] - None[s] <= OfReq(s)'[r] - OfReq(s)[r]
  <2>1. /\ OfReq(s)[r] = (IF s \in pinned[r] THEN 1 ELSE 0) + pending[r][s]
        /\ OfReq(s)'[r] = (IF s \in pinned'[r] THEN 1 ELSE 0) + pending'[r][s]
        /\ pending[r][s] \in Nat /\ None[s] = 0
    BY <1>5, HeldIs, EachIs
  <2> QED
    BY <1>1, <1>2, <1>4, <2>1
<1>7. OnlyReq(r) /\ SameJobs
  BY <1>1, <1>4 DEF OnlyReq, SameJobs
<1> QED
  BY <1>1, <1>2, <1>5, <1>6, <1>7, RequestStep

\* An answer turns one of the request's checks into a lease, or into nothing.
LEMMA ResolveKeeps ==
  ASSUME LeaseTypeOK, Balanced, NEW r \in Reqs, NEW s0 \in Shards, NEW hit,
         ResolveCachedLookup(r, s0, hit)
  PROVE  LeaseTypeOK' /\ Balanced'
<1> DEFINE pin   == IF ResolvesToHit(r, s0, hit) THEN {s0} \ pinned[r] ELSE {}
           due   == Due(r, Each({s0}))
<1>1. /\ Recount(ProcOf[r], Each(pin), due)
      /\ pending' = [pending EXCEPT ![r][s0] = @ - due[s0]]
      /\ pinned' = [pinned EXCEPT ![r] = @ \cup pin]
      /\ tracked' = [tracked EXCEPT ![ProcOf[r]] =
                       IF ResolvesToHit(r, s0, hit) THEN @ \cup {s0} ELSE @]
      /\ UNCHANGED <<evicting, jobShards, cancelled, closedReqs>>
  BY DEF ResolveCachedLookup
<1>2. /\ Each(pin) \in ShardCounts /\ due \in ShardCounts /\ ProcOf[r] \in Procs
      /\ \A s \in Shards : /\ Each(pin)[s] = IF s \in pin THEN 1 ELSE 0
                           /\ due[s] \in Nat /\ due[s] <= pending[r][s]
  BY EachIs, DueIs, OwnRequests
<1>3. \A s \in Shards \ {s0} : due[s] = 0
  <2>1. \A s \in Shards : due[s] = Least(Each({s0})[s], pending[r][s])
    BY DEF Due
  <2>2. \A s \in Shards \ {s0} : Each({s0})[s] = 0 /\ pending[r][s] \in Nat
    BY EachIs DEF LeaseTypeOK
  <2> QED
    BY <2>1, <2>2 DEF Least
<1>4. pin \in SUBSET Shards /\ pin \cap pinned[r] = {}
  OBVIOUS
<1> HIDE DEF pin, due
<1>5. /\ pinned \in [Reqs -> SUBSET Shards] /\ tracked \in [Procs -> SUBSET Shards]
      /\ pending \in [Reqs -> [Shards -> Nat]]
  BY DEF LeaseTypeOK
<1>6. /\ pinned' \in [Reqs -> SUBSET Shards] /\ tracked' \in [Procs -> SUBSET Shards]
      /\ pinned'[r] = pinned[r] \cup pin
      /\ \A q \in Reqs \ {r} : pinned'[q] = pinned[q]
  BY <1>1, <1>4, <1>5
<1>7. /\ pending' \in [Reqs -> [Shards -> Nat]]
      /\ \A s \in Shards : pending'[r][s] = pending[r][s] - due[s]
      /\ \A q \in Reqs \ {r} : pending'[q] = pending[q]
  <2>1. pending' = [pending EXCEPT ![r] = [pending[r] EXCEPT ![s0] = pending[r][s0] - due[s0]]]
    BY <1>1, <1>5
  <2>2. /\ pending[r][s0] - due[s0] \in Nat
        /\ [pending[r] EXCEPT ![s0] = pending[r][s0] - due[s0]] \in [Shards -> Nat]
    BY <1>2, <1>5
  <2>3. \A s \in Shards : pending[r][s] = pending[r][s] - 0
    BY <1>5
  <2> QED
    BY <1>3, <1>5, <2>1, <2>2, <2>3
<1>8. LeaseTypeOK'
  BY <1>1, <1>2, <1>6, <1>7, RecountIs DEF LeaseTypeOK
<1>9. ASSUME NEW s \in Shards PROVE Each(pin)[s] - due[s] <= OfReq(s)'[r] - OfReq(s)[r]
  <2>1. /\ OfReq(s)[r] = (IF s \in pinned[r] THEN 1 ELSE 0) + pending[r][s]
        /\ OfReq(s)'[r] = (IF s \in pinned'[r] THEN 1 ELSE 0) + pending'[r][s]
        /\ pending[r][s] \in Nat /\ due[s] \in Nat
    BY <1>2, <1>8, HeldIs
  <2> QED
    BY <1>2, <1>4, <1>6, <1>7, <2>1
<1>10. OnlyReq(r) /\ SameJobs
  BY <1>1, <1>6, <1>7 DEF OnlyReq, SameJobs
<1> QED
  BY <1>1, <1>2, <1>8, <1>9, <1>10, RequestStep

\* A request's leases that go are taken off the count, all of them at once.
LEMMA DropKeeps ==
  ASSUME LeaseTypeOK, Balanced, NEW r \in Reqs, NEW gone \in SUBSET pinned[r],
         NEW drop, drop = [s \in Shards |-> pending[r][s] + IF s \in gone THEN 1 ELSE 0],
         Recount(ProcOf[r], None, drop),
         OnlyReq(r), pinned' \in [Reqs -> SUBSET Shards], pinned'[r] = pinned[r] \ gone,
         pending' = [pending EXCEPT ![r] = None],
         UNCHANGED <<evicting, tracked, jobShards>>,
         cancelled' \subseteq Reqs, closedReqs' \subseteq Reqs
  PROVE  LeaseTypeOK' /\ Balanced'
<1>1. pending \in [Reqs -> [Shards -> Nat]]
  BY DEF LeaseTypeOK
<1>2. /\ drop \in ShardCounts /\ None \in ShardCounts /\ ProcOf[r] \in Procs
      /\ \A s \in Shards : /\ drop[s] = pending[r][s] + IF s \in gone THEN 1 ELSE 0
                           /\ drop[s] \in Nat /\ None[s] = 0
  <2>1. \A s \in Shards : /\ pending[r][s] + (IF s \in gone THEN 1 ELSE 0) \in Nat
    BY <1>1
  <2> QED
    BY <2>1, EachIs, OwnRequests DEF ShardCounts
<1>3. pending' \in [Reqs -> [Shards -> Nat]] /\ pending'[r] = None
  BY <1>1, <1>2 DEF ShardCounts
<1>4. LeaseTypeOK'
  BY <1>2, <1>3, RecountIs DEF LeaseTypeOK
<1>5. ASSUME NEW s \in Shards PROVE None[s] - drop[s] <= OfReq(s)'[r] - OfReq(s)[r]
  <2>1. /\ OfReq(s)[r] = (IF s \in pinned[r] THEN 1 ELSE 0) + pending[r][s]
        /\ OfReq(s)'[r] = (IF s \in pinned'[r] THEN 1 ELSE 0) + pending'[r][s]
        /\ pending[r][s] \in Nat
    BY <1>4, HeldIs
  <2>2. s \in gone => s \in pinned[r]
    OBVIOUS
  <2> QED
    BY <1>2, <1>3, <2>1, <2>2
<1>6. SameJobs
  BY DEF SameJobs
<1> QED
  BY <1>2, <1>4, <1>5, <1>6, RequestStep

\* cancel_lookup drops the checks, and the pins if it is told to.
LEMMA CancelLookupKeeps ==
  ASSUME LeaseTypeOK, Balanced, NEW r \in Reqs, NEW releasePins \in BOOLEAN,
         CancelLookup(r, releasePins)
  PROVE  LeaseTypeOK' /\ Balanced'
<1> DEFINE gone == IF releasePins THEN pinned[r] ELSE {}
           drop == [s \in Shards |-> pending[r][s] + IF s \in gone THEN 1 ELSE 0]
<1>1. /\ Recount(ProcOf[r], None, drop)
      /\ pending' = [pending EXCEPT ![r] = None] /\ cancelled' = cancelled \cup {r}
      /\ pinned' = IF releasePins THEN [pinned EXCEPT ![r] = {}] ELSE pinned
      /\ UNCHANGED <<evicting, tracked, jobShards, closedReqs>>
  <2>1. drop = [s \in Shards |-> pending[r][s] + IF releasePins /\ s \in pinned[r] THEN 1 ELSE 0]
    OBVIOUS
  <2> HIDE DEF drop
  <2> QED
    BY <2>1 DEF CancelLookup
<1>2. gone \in SUBSET pinned[r]
  OBVIOUS
<1>3. pinned \in [Reqs -> SUBSET Shards] /\ pending \in [Reqs -> [Shards -> Nat]]
      /\ cancelled \subseteq Reqs /\ closedReqs \subseteq Reqs
  BY DEF LeaseTypeOK
<1>4. /\ pinned' \in [Reqs -> SUBSET Shards] /\ pinned'[r] = pinned[r] \ gone
      /\ cancelled' \subseteq Reqs /\ closedReqs' \subseteq Reqs /\ OnlyReq(r)
  BY <1>1, <1>3 DEF OnlyReq
<1> HIDE DEF gone
<1>5. drop = [s \in Shards |-> pending[r][s] + IF s \in gone THEN 1 ELSE 0]
  OBVIOUS
<1> HIDE DEF drop
<1> QED
  BY <1>1, <1>2, <1>4, <1>5, DropKeeps

\* release_request drops both.
LEMMA ReleaseRequestKeeps ==
  ASSUME LeaseTypeOK, Balanced, NEW r \in Reqs, ReleaseRequest(r)
  PROVE  LeaseTypeOK' /\ Balanced'
<1> DEFINE drop == [s \in Shards |-> pending[r][s] + IF s \in pinned[r] THEN 1 ELSE 0]
<1>1. /\ Recount(ProcOf[r], None, drop)
      /\ pending' = [pending EXCEPT ![r] = None] /\ pinned' = [pinned EXCEPT ![r] = {}]
      /\ cancelled' = cancelled \ {r} /\ closedReqs' = closedReqs \cup {r}
      /\ UNCHANGED <<evicting, tracked, jobShards>>
  BY DEF ReleaseRequest
<1>2. pinned[r] \in SUBSET pinned[r]
  OBVIOUS
<1>3. pinned \in [Reqs -> SUBSET Shards] /\ pending \in [Reqs -> [Shards -> Nat]]
      /\ cancelled \subseteq Reqs /\ closedReqs \subseteq Reqs
  BY DEF LeaseTypeOK
<1>4. /\ pinned' \in [Reqs -> SUBSET Shards] /\ pinned'[r] = pinned[r] \ pinned[r]
      /\ cancelled' \subseteq Reqs /\ closedReqs' \subseteq Reqs /\ OnlyReq(r)
  BY <1>1, <1>3 DEF OnlyReq
<1>5. drop = [s \in Shards |-> pending[r][s] + IF s \in pinned[r] THEN 1 ELSE 0]
  OBVIOUS
<1> HIDE DEF drop
<1> QED
  BY <1>1, <1>2, <1>4, <1>5, DropKeeps

\* A load without leases takes over a request's pins; its shards are counted, and
\* those of the request are not any more.
LEMMA HandOverKeeps ==
  ASSUME LeaseTypeOK, Balanced, NEW r \in Reqs, NEW j \in Jobs, NEW S \in SUBSET Shards,
         jobShards[j] = {}, HandOver(r, j, S)
  PROVE  LeaseTypeOK' /\ Balanced'
<1>1. /\ Recount(ProcOf[j], Each(S), Each(pinned[r]))
      /\ jobShards' = [jobShards EXCEPT ![j] = S]
      /\ pinned' = [pinned EXCEPT ![r] = {}]
      /\ UNCHANGED <<evicting, tracked, pending, cancelled, closedReqs>>
  BY DEF HandOver
<1>2. /\ Each(S) \in ShardCounts /\ Each(pinned[r]) \in ShardCounts
      /\ ProcOf[j] = Me /\ Me \in Procs
      /\ \A s \in Shards : /\ Each(S)[s] = IF s \in S THEN 1 ELSE 0
                           /\ Each(pinned[r])[s] = IF s \in pinned[r] THEN 1 ELSE 0
  BY EachIs, OwnRequests
<1>3. pinned \in [Reqs -> SUBSET Shards] /\ jobShards \in [Jobs -> SUBSET Shards]
  BY DEF LeaseTypeOK
<1>4. /\ pinned' \in [Reqs -> SUBSET Shards] /\ pinned'[r] = {}
      /\ jobShards' \in [Jobs -> SUBSET Shards] /\ jobShards'[j] = S
      /\ OnlyReq(r) /\ OnlyJob(j)
  BY <1>1, <1>3 DEF OnlyReq, OnlyJob
<1>5. LeaseTypeOK'
  BY <1>1, <1>2, <1>4, RecountIs DEF LeaseTypeOK
<1>6. ASSUME NEW s \in Shards
      PROVE  Each(S)[s] - Each(pinned[r])[s]
               <= (ReqSum(s)' - ReqSum(s)) + (JobSum(s)' - JobSum(s))
  <2>1. /\ ReqSum(s)' = ReqSum(s) - OfReq(s)[r] + OfReq(s)'[r]
        /\ JobSum(s)' = JobSum(s) - OfJob(s)[j] + OfJob(s)'[j]
    BY <1>4, <1>5, ReqChange, JobChange
  <2>2. /\ OfReq(s)[r] = (IF s \in pinned[r] THEN 1 ELSE 0) + pending[r][s]
        /\ OfReq(s)'[r] = (IF s \in pinned'[r] THEN 1 ELSE 0) + pending'[r][s]
        /\ pending[r][s] \in Nat
    BY <1>5, HeldIs
  <2>3. /\ ReqSum(s) \in Nat /\ JobSum(s) \in Nat
        /\ OfJob(s)[j] = Each(jobShards[j])[s]
    BY SumTypes
  <2>4. OfJob(s)'[j] = Each(jobShards'[j])[s]
    BY <1>5, SumTypesNext
  <2>5. OfJob(s)[j] = 0 /\ OfJob(s)'[j] = IF s \in S THEN 1 ELSE 0
    BY <1>4, <2>3, <2>4, EachIs
  <2> QED
    BY <1>1, <1>2, <1>4, <2>1, <2>2, <2>3, <2>5
<1> QED
  BY <1>1, <1>2, <1>5, <1>6, Rebalance

\* A job that is refused costs the request its pins all the same.
LEMMA RefuseJobKeeps ==
  ASSUME LeaseTypeOK, Balanced, NEW r \in Reqs, NEW j \in Jobs, NEW S, RefuseJob(r, j, S)
  PROVE  LeaseTypeOK' /\ Balanced'
<1>1. /\ Recount(ProcOf[j], None, Each(pinned[r]))
      /\ pinned' = [pinned EXCEPT ![r] = {}]
      /\ UNCHANGED <<evicting, tracked, pending, jobShards, cancelled, closedReqs>>
  BY DEF RefuseJob
<1>2. /\ None \in ShardCounts /\ Each(pinned[r]) \in ShardCounts
      /\ ProcOf[j] = ProcOf[r] /\ ProcOf[r] \in Procs
      /\ \A s \in Shards : /\ None[s] = 0
                           /\ Each(pinned[r])[s] = IF s \in pinned[r] THEN 1 ELSE 0
  BY EachIs, OwnRequests
<1>3. pinned \in [Reqs -> SUBSET Shards]
  BY DEF LeaseTypeOK
<1>4. /\ pinned' \in [Reqs -> SUBSET Shards] /\ pinned'[r] = {} /\ OnlyReq(r) /\ SameJobs
  BY <1>1, <1>3 DEF OnlyReq, SameJobs
<1>5. LeaseTypeOK'
  BY <1>1, <1>2, <1>4, RecountIs DEF LeaseTypeOK
<1>6. ASSUME NEW s \in Shards PROVE None[s] - Each(pinned[r])[s] <= OfReq(s)'[r] - OfReq(s)[r]
  <2>1. /\ OfReq(s)[r] = (IF s \in pinned[r] THEN 1 ELSE 0) + pending[r][s]
        /\ OfReq(s)'[r] = (IF s \in pinned'[r] THEN 1 ELSE 0) + pending'[r][s]
        /\ pending[r][s] \in Nat
    BY <1>5, HeldIs
  <2> QED
    BY <1>1, <1>2, <1>4, <2>1
<1> QED
  BY <1>1, <1>2, <1>4, <1>5, <1>6, RequestStep

\* A job that is over gives its shards back.
LEMMA ReleaseJobKeeps ==
  ASSUME LeaseTypeOK, Balanced, NEW j \in Jobs, ReleaseJob(j)
  PROVE  LeaseTypeOK' /\ Balanced'
<1>1. /\ Recount(ProcOf[j], None, Each(jobShards[j]))
      /\ jobShards' = [jobShards EXCEPT ![j] = {}]
      /\ UNCHANGED <<evicting, tracked, pinned, pending, cancelled, closedReqs>>
  BY DEF ReleaseJob
<1>2. /\ None \in ShardCounts /\ Each(jobShards[j]) \in ShardCounts
      /\ ProcOf[j] = Me /\ Me \in Procs
      /\ \A s \in Shards : /\ None[s] = 0
                           /\ Each(jobShards[j])[s] = IF s \in jobShards[j] THEN 1 ELSE 0
  BY EachIs, OwnRequests
<1>3. jobShards \in [Jobs -> SUBSET Shards]
  BY DEF LeaseTypeOK
<1>4. /\ jobShards' \in [Jobs -> SUBSET Shards] /\ jobShards'[j] = {}
      /\ OnlyJob(j) /\ SameReqs
  BY <1>1, <1>3 DEF OnlyJob, SameReqs
<1>5. LeaseTypeOK'
  BY <1>1, <1>2, <1>4, RecountIs DEF LeaseTypeOK
<1>6. ASSUME NEW s \in Shards
      PROVE  None[s] - Each(jobShards[j])[s]
               <= (ReqSum(s)' - ReqSum(s)) + (JobSum(s)' - JobSum(s))
  <2>1. /\ ReqSum(s)' = ReqSum(s)
        /\ JobSum(s)' = JobSum(s) - OfJob(s)[j] + OfJob(s)'[j]
    BY <1>4, <1>5, NoChange, JobChange
  <2>3. /\ ReqSum(s) \in Nat /\ JobSum(s) \in Nat
        /\ OfJob(s)[j] = Each(jobShards[j])[s]
    BY SumTypes
  <2>4. OfJob(s)'[j] = Each(jobShards'[j])[s]
    BY <1>5, SumTypesNext
  <2>5. OfJob(s)'[j] = 0
    BY <1>4, <2>4, EachIs
  <2> QED
    BY <1>2, <2>1, <2>3, <2>5
<1> QED
  BY <1>1, <1>2, <1>5, <1>6, Rebalance

\* Evictions change no lease.
LEMMA EvictionKeeps ==
  ASSUME LeaseTypeOK, Balanced, NEW p \in Procs, NEW s \in Shards,
         BeginEviction(p, s) \/ \E success \in BOOLEAN : FinishEviction(p, s, success)
  PROVE  LeaseTypeOK' /\ Balanced'
<1>1. UNCHANGED <<count, pinned, pending, jobShards, cancelled, closedReqs>>
  BY DEF BeginEviction, FinishEviction
<1>2. evicting \in [Procs -> SUBSET Shards] /\ tracked \in [Procs -> SUBSET Shards]
  BY DEF LeaseTypeOK
<1>3. evicting' \in [Procs -> SUBSET Shards] /\ tracked' \in [Procs -> SUBSET Shards]
  BY <1>2 DEF BeginEviction, FinishEviction
<1>4. SameReqs /\ SameJobs
  BY <1>1 DEF SameReqs, SameJobs
<1>5. \A t \in Shards : ReqSum(t)' = ReqSum(t) /\ JobSum(t)' = JobSum(t)
  BY <1>4, NoChange
<1> QED
  BY <1>1, <1>3, <1>5 DEF LeaseTypeOK, Balanced

\* A step that leaves the index alone.
LEMMA LeaseStutter ==
  ASSUME LeaseTypeOK, Balanced, UNCHANGED leaseVars
  PROVE  LeaseTypeOK' /\ Balanced'
<1>1. UNCHANGED <<count, evicting, tracked, pinned, pending, jobShards, cancelled, closedReqs>>
  BY DEF leaseVars
<1>2. SameReqs /\ SameJobs
  BY <1>1 DEF SameReqs, SameJobs
<1>3. \A t \in Shards : ReqSum(t)' = ReqSum(t) /\ JobSum(t)' = JobSum(t)
  BY <1>2, NoChange
<1> QED
  BY <1>1, <1>3 DEF LeaseTypeOK, Balanced

\* At the start nobody holds anything.
LEMMA InitBalanced == LeaseInit => LeaseTypeOK /\ Balanced
<1> SUFFICES ASSUME LeaseInit PROVE LeaseTypeOK /\ Balanced
  OBVIOUS
<1>1. LeaseTypeOK
  BY DEF LeaseInit, LeaseTypeOK
<1>2. ASSUME NEW s \in Shards PROVE ReqSum(s) \in Nat /\ JobSum(s) \in Nat
  BY <1>1, SumTypes
<1>3. \A p \in Procs, s \in Shards : count[p][s] = 0
  BY DEF LeaseInit
<1> QED
  BY <1>1, <1>2, <1>3, OwnRequests DEF Balanced

-------------------------------------------------------------------------------
\* The tier.
AllStages == Stages \cup {"checking", "checked", "pinning"}
OwnTypes ==
  /\ onDisk \subseteq Keys /\ eligible \in [Workers -> SUBSET Keys]
  /\ reported \in [Reqs -> SUBSET Keys]
  /\ loads \in [Jobs -> [stage : LoadStages, keys : SUBSET Keys]]

\* A job holds shards only once it is submitted, and never one that Me evicts: why
\* taking it over into the count is one holder more, and no other's.
JobsInv == OwnLoadsAreSafe /\ \A j \in Jobs : loads[j] = NewLoad => jobShards[j] = {}

FsIInv == FsTypeOK /\ AsyncInv /\ LeasesNotLeaked /\ JobsInv

\* The parts of the invariant, the lookup manager's and the index's first.
ManagerInv == Typed(AllStages) /\ AsyncInv
IndexInv == LeaseTypeOK /\ Balanced

\* The invariant by its parts, ...
LEMMA FsIInvIs == FsIInv <=> ManagerInv /\ IndexInv /\ OwnTypes /\ JobsInv
  BY BalancedIs DEF FsIInv, FsTypeOK, ManagerInv, IndexInv, OwnTypes, AllStages

\* ... in the next state too.
LEMMA FsIInvIsNext == (FsIInv <=> ManagerInv /\ IndexInv /\ OwnTypes /\ JobsInv)'
  BY FsIInvIs, PTL

\* Steps that touch no job and no eviction cannot disturb the jobs.
LEMMA JobsKept ==
  ASSUME JobsInv, UNCHANGED <<evicting, jobShards, loads>>
  PROVE  JobsInv'
  BY DEF JobsInv, OwnLoadsAreSafe, NewLoad

\* A step that leaves the manager alone, or the index.
LEMMA ManagerStutter == ASSUME ManagerInv, UNCHANGED asyncVars PROVE ManagerInv'
<1>1. Typed(AllStages) /\ AsyncInv
  BY DEF ManagerInv
<1>2. Typed(AllStages)' /\ AsyncInv'
  BY <1>1, AsyncStutter
<1> QED
  BY <1>2 DEF ManagerInv, AllStages, Stages, Typed, NotStopping, NumWorkers

\* The manager's steps, inside the tier.
LEMMA ManagerSteps ==
  ASSUME ManagerInv
  PROVE  /\ \A r \in Reqs, k \in Keys : Lookup(r, k) => ManagerInv'
         /\ \A r \in Reqs : Cleanup(r) => ManagerInv'
         /\ \A ks : Invalidate(ks) => ManagerInv'
         /\ Flush \/ PutOrDrop => ManagerInv'
         /\ \A w \in Workers : Take(w) \/ Publish(w) => ManagerInv'
         /\ \A w \in Workers, st \in AllStages \ {"idle", "stopped"}, hits \in SUBSET Keys :
              /\ Goes(w, st, hits) /\ work[w].stage \notin {"idle", "stopped"}
              /\ UNCHANGED <<schedVars, queue, published>>
              => ManagerInv'
<1>1. /\ Typed(AllStages) /\ AsyncInv
      /\ "idle" \in AllStages /\ "probing" \in AllStages /\ "stopped" \in AllStages
  BY DEF ManagerInv, AllStages, Stages
<1>2. Typed(AllStages)' /\ AsyncInv' => ManagerInv'
  BY DEF ManagerInv, AllStages, Stages, Typed, NotStopping, NumWorkers
<1>3. ASSUME NEW r \in Reqs, NEW k \in Keys, Lookup(r, k) PROVE ManagerInv'
  BY <1>1, <1>2, <1>3, LookupKeepsTypes, LookupKeeps
<1>4. ASSUME NEW r \in Reqs, Cleanup(r) PROVE ManagerInv'
  BY <1>1, <1>2, <1>4, CleanupKeeps
<1>5. ASSUME NEW ks, Invalidate(ks) PROVE ManagerInv'
  BY <1>1, <1>2, <1>5, InvalidateKeeps
<1>6. ASSUME Flush \/ PutOrDrop PROVE ManagerInv'
  BY <1>1, <1>2, <1>6, FlushKeeps, PutOrDropKeeps
<1>7. ASSUME NEW w \in Workers, Take(w) \/ Publish(w) PROVE ManagerInv'
  BY <1>1, <1>2, <1>7, TakeKeeps, PublishKeeps
<1>8. ASSUME NEW w \in Workers, NEW st \in AllStages \ {"idle", "stopped"},
             NEW hits \in SUBSET Keys, Goes(w, st, hits),
             work[w].stage \notin {"idle", "stopped"}, UNCHANGED <<schedVars, queue, published>>
      PROVE  ManagerInv'
  BY <1>1, <1>2, <1>8, GoesKeeps
<1> QED
  BY <1>3, <1>4, <1>5, <1>6, <1>7, <1>8

\* The shards of keys, and how many of them are in each.
LEMMA ShardsAre ==
  ASSUME NEW ks \in SUBSET Keys
  PROVE  ShardsOf(ks) \in SUBSET Shards /\ PerShard(ks) \in ShardCounts
<1>1. \A k \in Keys : ShardOf[k] \in Shards
  BY OwnRequests
<1>2. \A s \in Shards : Cardinality({k \in ks : ShardOf[k] = s}) \in Nat
  <2>1. \A s : IsFiniteSet({k \in ks : ShardOf[k] = s})
    BY OwnRequests, FS_Subset
  <2> QED
    BY <2>1, FS_CardinalityType
<1> QED
  BY <1>1, <1>2 DEF ShardsOf, PerShard, ShardCounts

\* A worker at work has a request it works for, and keys.
LEMMA WorkersWork ==
  ASSUME Typed(AllStages), NEW w \in Workers, work[w].stage \notin {"idle", "stopped"}
  PROVE  Requester(w) \in Reqs /\ BatchKeys(w) \in SUBSET Keys /\ work[w].hits \in SUBSET Keys
<1>1. /\ work[w].items \in SUBSET Items /\ work[w].items # {} /\ work[w].hits \in SUBSET Keys
  BY DEF Typed
<1>2. (CHOOSE i \in work[w].items : TRUE) \in Items
  BY <1>1
<1> QED
  BY <1>1, <1>2 DEF Requester, BatchKeys, KeysOf, Items

\* lookup(): a resolved answer makes a lease of the request's check.
LEMMA TierLookupKeeps ==
  ASSUME FsIInv, NEW r \in Reqs, NEW k \in Keys, TierLookup(r, k)
  PROVE  FsIInv'
<1>1. ManagerInv /\ IndexInv /\ OwnTypes /\ JobsInv
  BY FsIInvIs
<1>2. ManagerInv'
  BY <1>1, ManagerSteps DEF TierLookup
<1>3. IndexInv' /\ UNCHANGED <<evicting, jobShards>>
  <2>1. CASE UNCHANGED leaseVars
    BY <1>1, <2>1, LeaseStutter DEF IndexInv, leaseVars
  <2>2. CASE ResolveCachedLookup(r, ShardOf[k], result'[k] = "hit")
    <3>1. ShardOf[k] \in Shards
      BY OwnRequests
    <3>2. UNCHANGED <<evicting, jobShards>>
      BY <2>2 DEF ResolveCachedLookup
    <3> QED
      BY <1>1, <2>2, <3>1, <3>2, ResolveKeeps DEF IndexInv
  <2> QED
    BY <2>1, <2>2 DEF TierLookup
<1>4. OwnTypes'
  BY <1>1 DEF OwnTypes, TierLookup
<1>5. JobsInv'
  BY <1>1, <1>3, JobsKept DEF TierLookup
<1> QED
  BY <1>2, <1>3, <1>4, <1>5, FsIInvIsNext

\* The end of a lookup, and of a request.
LEMMA StopKeeps ==
  ASSUME FsIInv, NEW r \in Reqs,
         FinishRequest(r) \/ \E keep \in BOOLEAN : StopLookup(r, keep)
  PROVE  FsIInv'
<1>1. ManagerInv /\ IndexInv /\ OwnTypes /\ JobsInv
  BY FsIInvIs
<1>2. ManagerInv'
  BY <1>1, ManagerSteps DEF FinishRequest, StopLookup
<1>3. IndexInv' /\ UNCHANGED <<evicting, jobShards>>
  <2>1. CASE FinishRequest(r)
    <3>1. ReleaseRequest(r) /\ UNCHANGED <<evicting, jobShards>>
      BY <2>1 DEF FinishRequest, ReleaseRequest
    <3> QED
      BY <1>1, <3>1, ReleaseRequestKeeps DEF IndexInv
  <2>2. ASSUME NEW keep \in BOOLEAN, StopLookup(r, keep)
        PROVE  IndexInv' /\ UNCHANGED <<evicting, jobShards>>
    <3>1. CancelLookup(r, ~keep) /\ (~keep) \in BOOLEAN /\ UNCHANGED <<evicting, jobShards>>
      BY <2>2 DEF StopLookup, CancelLookup
    <3> QED
      BY <1>1, <3>1, CancelLookupKeeps DEF IndexInv
  <2> QED
    BY <2>1, <2>2
<1>4. OwnTypes'
  BY <1>1 DEF OwnTypes, FinishRequest, StopLookup
<1>5. JobsInv'
  BY <1>1, <1>3, JobsKept DEF FinishRequest, StopLookup
<1> QED
  BY <1>2, <1>3, <1>4, <1>5, FsIInvIsNext

\* A new job takes shards nobody here evicts, or none.
LEMMA SubmitKeeps ==
  ASSUME FsIInv, NEW r \in Reqs, NEW j \in Jobs, NEW ks \in SUBSET Keys, SubmitLoad(r, j, ks)
  PROVE  FsIInv'
<1>1. ManagerInv /\ IndexInv /\ OwnTypes /\ JobsInv
  BY FsIInvIs
<1>2. jobShards[j] = {} /\ ShardsOf(ks) \in SUBSET Shards
  BY <1>1, ShardsAre DEF JobsInv, SubmitLoad
<1>3. UNCHANGED <<onDisk, eligible, reported>> /\ loads \in [Jobs -> [stage : LoadStages, keys : SUBSET Keys]]
  BY <1>1 DEF OwnTypes, SubmitLoad
<1>4. CASE /\ HandOver(r, j, ShardsOf(ks)) /\ UNCHANGED asyncVars
           /\ loads' = [loads EXCEPT ![j] = [stage |-> "queued", keys |-> ks]]
  <2>1. ManagerInv'
    BY <1>1, <1>4, ManagerStutter
  <2>2. IndexInv'
    BY <1>1, <1>2, <1>4, HandOverKeeps DEF IndexInv
  <2>3. OwnTypes'
    BY <1>1, <1>3, <1>4 DEF OwnTypes, LoadStages
  <2>4. JobsInv'
    <3>1. /\ evicting' = evicting /\ jobShards' = [jobShards EXCEPT ![j] = ShardsOf(ks)]
          /\ jobShards \in [Jobs -> SUBSET Shards]
          /\ ShardsOf(ks) \cap evicting[ProcOf[j]] = {}
      BY <1>1, <1>4 DEF HandOver, CanPinJob, IndexInv, LeaseTypeOK
    <3>2. loads'[j] # NewLoad /\ \A i \in Jobs \ {j} : loads'[i] = loads[i]
      BY <1>3, <1>4 DEF NewLoad
    <3> QED
      BY <1>1, <3>1, <3>2 DEF JobsInv, OwnLoadsAreSafe, NewLoad
  <2> QED
    BY <2>1, <2>2, <2>3, <2>4, FsIInvIsNext
<1>5. CASE /\ RefuseJob(r, j, ShardsOf(ks)) /\ Invalidate(ks)
           /\ loads' = [loads EXCEPT ![j] = [stage |-> "over", keys |-> ks]]
  <2>1. ManagerInv'
    BY <1>1, <1>5, ManagerSteps
  <2>2. IndexInv'
    BY <1>1, <1>5, RefuseJobKeeps DEF IndexInv
  <2>3. OwnTypes'
    BY <1>1, <1>3, <1>5 DEF OwnTypes, LoadStages
  <2>4. JobsInv'
    <3>1. evicting' = evicting /\ jobShards' = jobShards
      BY <1>5 DEF RefuseJob
    <3>2. loads'[j] # NewLoad /\ \A i \in Jobs \ {j} : loads'[i] = loads[i]
      BY <1>3, <1>5 DEF NewLoad
    <3> QED
      BY <1>1, <3>1, <3>2 DEF JobsInv, OwnLoadsAreSafe, NewLoad
  <2> QED
    BY <2>1, <2>2, <2>3, <2>4, FsIInvIsNext
<1> QED
  BY <1>4, <1>5 DEF SubmitLoad

\* A job is read, and reaped.
LEMMA LoadKeeps ==
  ASSUME FsIInv, NEW j \in Jobs, ReadFiles(j) \/ ReapLoad(j)
  PROVE  FsIInv'
<1>1. ManagerInv /\ IndexInv /\ OwnTypes /\ JobsInv
  BY FsIInvIs
<1>2. PICK st \in LoadStages \ {"new"} : loads' = [loads EXCEPT ![j].stage = st]
  BY DEF ReadFiles, ReapLoad, LoadStages
<1>3. /\ loads \in [Jobs -> [stage : LoadStages, keys : SUBSET Keys]]
      /\ UNCHANGED <<onDisk, eligible, reported>>
  BY <1>1 DEF OwnTypes, ReadFiles, ReapLoad
<1>4. /\ loads'[j] = [stage |-> st, keys |-> loads[j].keys]
      /\ \A i \in Jobs \ {j} : loads'[i] = loads[i]
      /\ loads' \in [Jobs -> [stage : LoadStages, keys : SUBSET Keys]]
  BY <1>2, <1>3
<1>5. OwnTypes'
  BY <1>1, <1>3, <1>4 DEF OwnTypes
<1>6. ManagerInv'
  BY <1>1, ManagerStutter, ManagerSteps DEF ReadFiles, ReapLoad
<1>7. IndexInv' /\ evicting' = evicting /\ jobShards' \in [Jobs -> SUBSET Shards]
                /\ \A i \in Jobs : jobShards'[i] \subseteq jobShards[i]
  <2>1. CASE ReadFiles(j)
    BY <1>1, <2>1, LeaseStutter DEF ReadFiles, IndexInv, leaseVars, LeaseTypeOK
  <2>2. CASE ReapLoad(j)
    <3>1. ReleaseJob(j)
      BY <2>2 DEF ReapLoad
    <3> QED
      BY <1>1, <3>1, ReleaseJobKeeps DEF ReleaseJob, IndexInv, LeaseTypeOK
  <2> QED
    BY <2>1, <2>2
<1>8. JobsInv'
  <2>1. loads'[j] # NewLoad
    BY <1>2, <1>4 DEF NewLoad
  <2> QED
    BY <1>1, <1>4, <1>7, <2>1 DEF JobsInv, OwnLoadsAreSafe, NewLoad
<1> QED
  BY <1>5, <1>6, <1>7, <1>8, FsIInvIsNext

\* The end of a scheduler step, and what a worker does outside the check.
LEMMA ManagerOnlyKeeps ==
  ASSUME FsIInv, ScheduleEnd \/ \E w \in Workers : WorkerOther(w)
  PROVE  FsIInv'
<1>1. ManagerInv /\ IndexInv /\ OwnTypes /\ JobsInv
  BY FsIInvIs
<1>2. ManagerInv'
  BY <1>1, ManagerSteps DEF ScheduleEnd, WorkerOther
<1>3. UNCHANGED <<leaseVars, onDisk, eligible, reported, loads>>
  BY DEF ScheduleEnd, WorkerOther
<1>4. IndexInv'
  BY <1>1, <1>3, LeaseStutter DEF IndexInv
<1>5. OwnTypes'
  BY <1>1, <1>3 DEF OwnTypes
<1>6. JobsInv'
  BY <1>1, <1>3, JobsKept DEF leaseVars
<1> QED
  BY <1>2, <1>4, <1>5, <1>6, FsIInvIsNext

\* A check: from the leases it takes to those its hits get.
LEMMA WorkerKeeps ==
  ASSUME FsIInv, NEW w \in Workers,
         StartCheck(w) \/ Exists(w) \/ DropCheckLeases(w) \/ LeaseHits(w)
  PROVE  FsIInv'
<1>1. ManagerInv /\ IndexInv /\ OwnTypes /\ JobsInv
  BY FsIInvIs
<1>2. work[w].stage \in {"probing", "checking", "checked", "pinning"}
  BY DEF StartCheck, Exists, DropCheckLeases, LeaseHits
<1>3. /\ Requester(w) \in Reqs /\ BatchKeys(w) \in SUBSET Keys /\ work[w].hits \in SUBSET Keys
      /\ eligible[w] \in SUBSET Keys /\ {} \in SUBSET Keys
  BY <1>1, <1>2, WorkersWork DEF ManagerInv, OwnTypes
<1>4. ManagerInv'
  <2>1. \E st \in {"done", "checking", "checked", "pinning"}, hits \in SUBSET Keys : Goes(w, st, hits)
    <3>1. ASSUME StartCheck(w) PROVE Goes(w, "done", {}) \/ Goes(w, "checking", {})
      BY <3>1 DEF StartCheck, Probed
    <3>2. ASSUME Exists(w) PROVE Goes(w, "checked", eligible[w] \cap onDisk)
      BY <3>2 DEF Exists
    <3>3. ASSUME DropCheckLeases(w) PROVE Goes(w, "pinning", work[w].hits)
      BY <3>3 DEF DropCheckLeases
    <3>4. ASSUME LeaseHits(w) PROVE Goes(w, "done", {}) \/ Goes(w, "done", work[w].hits)
      BY <3>4 DEF LeaseHits, EndPinning
    <3> QED
      BY <1>3, <3>1, <3>2, <3>3, <3>4
  <2>2. {"done", "checking", "checked", "pinning"} \subseteq AllStages \ {"idle", "stopped"}
    BY DEF AllStages, Stages
  <2>3. UNCHANGED <<schedVars, queue, published>>
    BY DEF StartCheck, Exists, DropCheckLeases, LeaseHits
  <2> QED
    BY <1>1, <1>2, <2>1, <2>2, <2>3, ManagerSteps
<1>5. IndexInv' /\ UNCHANGED <<evicting, jobShards>>
  <2>1. ASSUME UNCHANGED leaseVars PROVE IndexInv' /\ UNCHANGED <<evicting, jobShards>>
    BY <1>1, <2>1, LeaseStutter DEF IndexInv, leaseVars
  <2>2. ASSUME BeginCheck(Requester(w), PerShard(BatchKeys(w)))
        PROVE  IndexInv' /\ UNCHANGED <<evicting, jobShards>>
    <3>1. PerShard(BatchKeys(w)) \in ShardCounts
      BY <1>3, ShardsAre
    <3>2. IndexInv'
      BY <1>1, <1>3, <2>2, <3>1, BeginCheckKeeps DEF IndexInv
    <3> QED
      BY <2>2, <3>2 DEF BeginCheck
  <2>3. ASSUME EndCheck(Requester(w), PerShard(eligible[w]))
        PROVE  IndexInv' /\ UNCHANGED <<evicting, jobShards>>
    <3>1. PerShard(eligible[w]) \in ShardCounts
      BY <1>3, ShardsAre
    <3>2. IndexInv'
      BY <1>1, <1>3, <2>3, <3>1, EndCheckKeeps DEF IndexInv
    <3> QED
      BY <2>3, <3>2 DEF EndCheck
  <2>4. ASSUME PinHits(Requester(w), ShardsOf(work[w].hits))
        PROVE  IndexInv' /\ UNCHANGED <<evicting, jobShards>>
    <3>1. ShardsOf(work[w].hits) \in SUBSET Shards
      BY <1>3, ShardsAre
    <3>2. IndexInv'
      BY <1>1, <1>3, <2>4, <3>1, PinHitsKeeps DEF IndexInv
    <3> QED
      BY <2>4, <3>2 DEF PinHits
  <2> QED
    BY <2>1, <2>2, <2>3, <2>4 DEF StartCheck, Exists, DropCheckLeases, LeaseHits
<1>6. OwnTypes'
  <2>1. /\ UNCHANGED <<onDisk, reported, loads>>
        /\ \E ks \in SUBSET Keys : eligible' = eligible \/ eligible' = [eligible EXCEPT ![w] = ks]
    <3>1. {k \in BatchKeys(w) : ShardOf[k] \in Eligible(Requester(w))} \in SUBSET Keys
      BY <1>3
    <3> QED
      BY <1>3, <3>1 DEF StartCheck, Exists, DropCheckLeases, LeaseHits, EndPinning
  <2> QED
    BY <1>1, <2>1 DEF OwnTypes
<1>7. loads' = loads
  BY DEF StartCheck, Exists, DropCheckLeases, LeaseHits
<1>8. JobsInv'
  BY <1>1, <1>5, <1>7, JobsKept
<1> QED
  BY <1>4, <1>5, <1>6, <1>8, FsIInvIsNext

\* An eviction begins only on a shard no job of its process reads.
LEMMA EvictKeeps ==
  ASSUME FsIInv, NEW p \in Procs, NEW s \in Shards,
         StartEviction(p, s) \/ Rename(p, s) \/ ReapEviction(p, s)
  PROVE  FsIInv'
<1>1. ManagerInv /\ IndexInv /\ OwnTypes /\ JobsInv
  BY FsIInvIs
<1>2. UNCHANGED <<asyncVars, eligible, reported, loads>> /\ onDisk' \subseteq onDisk
  BY DEF StartEviction, Rename, ReapEviction
<1>3. ManagerInv' /\ OwnTypes'
  BY <1>1, <1>2, ManagerStutter DEF OwnTypes
<1>4. CASE Rename(p, s)
  <2>1. UNCHANGED leaseVars
    BY <1>4 DEF Rename
  <2>2. IndexInv'
    BY <1>1, <2>1, LeaseStutter DEF IndexInv
  <2>3. JobsInv'
    BY <1>1, <1>2, <2>1, JobsKept DEF leaseVars
  <2> QED
    BY <1>3, <2>2, <2>3, FsIInvIsNext
<1>5. CASE StartEviction(p, s) \/ ReapEviction(p, s)
  <2>1. BeginEviction(p, s) \/ \E success \in BOOLEAN : FinishEviction(p, s, success)
    BY <1>5 DEF StartEviction, ReapEviction
  <2>2. IndexInv'
    BY <1>1, <2>1, EvictionKeeps DEF IndexInv
  <2>3. evicting \in [Procs -> SUBSET Shards] /\ jobShards' = jobShards
    BY <1>1, <2>1 DEF IndexInv, LeaseTypeOK, BeginEviction, FinishEviction
  <2>4. \A j \in Jobs : jobShards[j] \cap evicting'[ProcOf[j]] = {}
    <3>1. \A j \in Jobs : jobShards[j] \cap evicting[ProcOf[j]] = {}
      BY <1>1 DEF JobsInv, OwnLoadsAreSafe
    <3>2. CASE BeginEviction(p, s)
      <4>1. \A j \in Jobs : ProcOf[j] = p => s \notin jobShards[j]
        BY <3>2 DEF BeginEviction, Idle, LocalHolds
      <4>2. evicting' = [evicting EXCEPT ![p] = @ \cup {s}]
        BY <3>2 DEF BeginEviction
      <4> QED
        BY <2>3, <3>1, <4>1, <4>2
    <3>3. ASSUME NEW success \in BOOLEAN, FinishEviction(p, s, success)
          PROVE  \A j \in Jobs : jobShards[j] \cap evicting'[ProcOf[j]] = {}
      <4>1. evicting' = [evicting EXCEPT ![p] = @ \ {s}]
        BY <3>3 DEF FinishEviction
      <4> QED
        BY <2>3, <3>1, <4>1
    <3> QED
      BY <2>1, <3>2, <3>3
  <2>5. JobsInv'
    BY <1>1, <1>2, <2>3, <2>4 DEF JobsInv, OwnLoadsAreSafe, NewLoad
  <2> QED
    BY <1>3, <2>2, <2>5, FsIInvIsNext
<1> QED
  BY <1>4, <1>5

\* Every step of the tier keeps the invariant.
LEMMA StepKeepsFsIInv == FsIInv /\ [FsNext]_fsVars => FsIInv'
<1> SUFFICES ASSUME FsIInv, [FsNext]_fsVars PROVE FsIInv'
  OBVIOUS
<1>1. CASE UNCHANGED fsVars
  <2>1. ManagerInv /\ IndexInv /\ OwnTypes /\ JobsInv
    BY FsIInvIs
  <2>2. UNCHANGED <<asyncVars, leaseVars, onDisk, eligible, reported, loads>>
    BY <1>1 DEF fsVars
  <2>3. ManagerInv' /\ IndexInv'
    BY <2>1, <2>2, ManagerStutter, LeaseStutter DEF IndexInv
  <2>4. OwnTypes' /\ JobsInv'
    BY <2>1, <2>2, JobsKept DEF OwnTypes, leaseVars
  <2> QED
    BY <2>3, <2>4, FsIInvIsNext
<1>2. ASSUME NEW r \in Reqs, NEW k \in Keys, TierLookup(r, k) PROVE FsIInv'
  BY <1>2, TierLookupKeeps
<1>3. ASSUME NEW r \in Reqs, FinishRequest(r) \/ \E keep \in BOOLEAN : StopLookup(r, keep)
      PROVE  FsIInv'
  BY <1>3, StopKeeps
<1>4. ASSUME NEW r \in Reqs, NEW j \in Jobs, NEW ks \in SUBSET Keys, SubmitLoad(r, j, ks)
      PROVE  FsIInv'
  BY <1>4, SubmitKeeps
<1>5. ASSUME NEW j \in Jobs, ReadFiles(j) \/ ReapLoad(j) PROVE FsIInv'
  BY <1>5, LoadKeeps
<1>6. CASE ScheduleEnd
  BY <1>6, ManagerOnlyKeeps
<1>7. ASSUME NEW w \in Workers, WorkerOther(w) PROVE FsIInv'
  BY <1>7, ManagerOnlyKeeps
<1>8. ASSUME NEW w \in Workers,
             StartCheck(w) \/ Exists(w) \/ DropCheckLeases(w) \/ LeaseHits(w)
      PROVE  FsIInv'
  BY <1>8, WorkerKeeps
<1>9. ASSUME NEW p \in Procs, NEW s \in Shards,
             StartEviction(p, s) \/ Rename(p, s) \/ ReapEviction(p, s)
      PROVE  FsIInv'
  BY <1>9, EvictKeeps
<1> QED
  BY <1>1, <1>2, <1>3, <1>4, <1>5, <1>6, <1>7, <1>8, <1>9 DEF FsNext

\* Nothing is looked up, leased or loaded when the tier starts.
LEMMA InitFsIInv == FsInit => FsIInv
<1> SUFFICES ASSUME FsInit PROVE FsIInv
  OBVIOUS
<1>1. AsyncInit /\ LeaseInit /\ onDisk \in SUBSET Keys
      /\ eligible = [w \in Workers |-> {}] /\ reported = [r \in Reqs |-> {}]
      /\ loads = [j \in Jobs |-> NewLoad]
  BY DEF FsInit
<1>2. "idle" \in AllStages
  BY DEF AllStages, Stages
<1>3. ManagerInv
  BY <1>1, <1>2, InitAsyncIInv DEF ManagerInv
<1>4. IndexInv
  BY <1>1, InitBalanced DEF IndexInv
<1>5. OwnTypes
  BY <1>1 DEF OwnTypes, NewLoad, LoadStages
<1>6. JobsInv
  BY <1>1 DEF JobsInv, OwnLoadsAreSafe, LeaseInit
<1> QED
  BY <1>3, <1>4, <1>5, <1>6, FsIInvIs

\* The inductive invariant holds of the read path in every reachable state.
THEOREM FsIInvHolds == FsSpec => []FsIInv
  BY InitFsIInv, StepKeepsFsIInv, PTL DEF FsSpec

\* Every variable of the read path keeps its type: no count of leases is ever
\* negative, and a worker at work always has somebody's keys.
THEOREM FsTypeOKHolds == FsSpec => []FsTypeOK
<1>1. FsIInv => FsTypeOK
  BY DEF FsIInv
<1> QED
  BY <1>1, FsIInvHolds, PTL

\* Under the tier's schedule too, no awaited answer is ever lost.
THEOREM FsWaitIsCoveredHolds == FsSpec => []WaitIsCovered
<1>1. FsIInv => WaitIsCovered
  BY DEF FsIInv, AsyncInv
<1> QED
  BY <1>1, FsIInvHolds, PTL

\* A process's count of a shard is at most what its requests, checks and jobs hold
\* of it, in whatever order answers, cancellations and load jobs come.
THEOREM LeasesNotLeakedHolds == FsSpec => []LeasesNotLeaked
<1>1. FsIInv => LeasesNotLeaked
  BY DEF FsIInv
<1> QED
  BY <1>1, FsIInvHolds, PTL

\* A process never evicts a shard one of its own load jobs reads.
THEOREM OwnLoadsAreSafeHolds == FsSpec => []OwnLoadsAreSafe
<1>1. FsIInv => OwnLoadsAreSafe
  BY DEF FsIInv, JobsInv
<1> QED
  BY <1>1, FsIInvHolds, PTL

\* Which methods of the index add to a request's pins, and for whom: an answer for
\* one that is not fenced, and the hits of a check.
LEMMA WhoPins ==
  ASSUME LeaseTypeOK, NEW q \in Reqs, NEW r \in Reqs
  PROVE  /\ \A s \in Shards, hit \in BOOLEAN :
              ResolveCachedLookup(r, s, hit) /\ Fenced(q) => pinned'[q] \subseteq pinned[q]
         /\ ReleaseRequest(r) \/ (\E b \in BOOLEAN : CancelLookup(r, b)) => pinned'[q] \subseteq pinned[q]
         /\ \A j \in Jobs : \A S : HandOver(r, j, S) \/ RefuseJob(r, j, S) => pinned'[q] \subseteq pinned[q]
         /\ \A S : PinHits(r, S) /\ q # r => pinned'[q] = pinned[q]
<1>1. pinned \in [Reqs -> SUBSET Shards]
  BY DEF LeaseTypeOK
<1>2. ASSUME NEW s \in Shards, NEW hit \in BOOLEAN, ResolveCachedLookup(r, s, hit), Fenced(q)
      PROVE  pinned'[q] \subseteq pinned[q]
  <2>1. pinned' = [pinned EXCEPT ![r] =
                     @ \cup IF ResolvesToHit(r, s, hit) THEN {s} \ pinned[r] ELSE {}]
    BY <1>2 DEF ResolveCachedLookup
  <2>2. ResolvesToHit(r, s, hit) => q # r
    BY <1>2 DEF ResolvesToHit
  <2> QED
    BY <1>1, <2>1, <2>2
<1>3. ASSUME ReleaseRequest(r) \/ (\E b \in BOOLEAN : CancelLookup(r, b))
      PROVE  pinned'[q] \subseteq pinned[q]
  BY <1>1, <1>3 DEF ReleaseRequest, CancelLookup
<1>4. ASSUME NEW j \in Jobs, NEW S, HandOver(r, j, S) \/ RefuseJob(r, j, S)
      PROVE  pinned'[q] \subseteq pinned[q]
  BY <1>1, <1>4 DEF HandOver, RefuseJob
<1>5. ASSUME NEW S, PinHits(r, S), q # r PROVE pinned'[q] = pinned[q]
  BY <1>1, <1>5 DEF PinHits
<1> QED
  BY <1>2, <1>3, <1>4, <1>5

\* No step leases anything to a request that is fenced.
LEMMA StepFences ==
  FsIInv /\ [FsNext]_fsVars
    => [\A r \in Reqs : Fenced(r) => pinned'[r] \subseteq pinned[r]]_fsVars
<1> SUFFICES ASSUME FsIInv, FsNext, NEW q \in Reqs, Fenced(q)
             PROVE  pinned'[q] \subseteq pinned[q]
  OBVIOUS
<1>1. LeaseTypeOK /\ Typed(AllStages)
  BY FsIInvIs DEF IndexInv, ManagerInv
<1>2. UNCHANGED pinned => pinned'[q] \subseteq pinned[q]
  OBVIOUS
<1>3. ASSUME NEW r \in Reqs, NEW k \in Keys, TierLookup(r, k) PROVE pinned'[q] \subseteq pinned[q]
  <2>1. ShardOf[k] \in Shards /\ (result'[k] = "hit") \in BOOLEAN
    BY OwnRequests
  <2>2. UNCHANGED pinned \/ ResolveCachedLookup(r, ShardOf[k], result'[k] = "hit")
    BY <1>3 DEF TierLookup, leaseVars
  <2> QED
    BY <1>1, <1>2, <2>1, <2>2, WhoPins
<1>4. ASSUME NEW r \in Reqs, FinishRequest(r) \/ \E keep \in BOOLEAN : StopLookup(r, keep)
      PROVE  pinned'[q] \subseteq pinned[q]
  <2>1. \A keep \in BOOLEAN : (~keep) \in BOOLEAN
    OBVIOUS
  <2> QED
    BY <1>1, <1>4, <2>1, WhoPins DEF FinishRequest, StopLookup
<1>5. ASSUME NEW r \in Reqs, NEW j \in Jobs, NEW ks \in SUBSET Keys, SubmitLoad(r, j, ks)
      PROVE  pinned'[q] \subseteq pinned[q]
  BY <1>1, <1>5, WhoPins DEF SubmitLoad
<1>6. ASSUME NEW w \in Workers, LeaseHits(w) PROVE pinned'[q] \subseteq pinned[q]
  <2>1. work[w].stage = "pinning"
    BY <1>6 DEF LeaseHits
  <2>2. Requester(w) \in Reqs
    BY <1>1, <2>1, WorkersWork
  <2>3. UNCHANGED pinned
          \/ (Requester(w) # q /\ PinHits(Requester(w), ShardsOf(work[w].hits)))
    BY <1>6 DEF LeaseHits, leaseVars
  <2> QED
    BY <1>1, <1>2, <2>2, <2>3, WhoPins
<1>7. ASSUME NEW w \in Workers, WorkerOther(w) \/ StartCheck(w) \/ Exists(w) \/ DropCheckLeases(w)
      PROVE  UNCHANGED pinned
  BY <1>7 DEF WorkerOther, StartCheck, Exists, DropCheckLeases, BeginCheck, EndCheck, leaseVars
<1>8. ASSUME NEW j \in Jobs, ReadFiles(j) \/ ReapLoad(j) PROVE UNCHANGED pinned
  BY <1>8 DEF ReadFiles, ReapLoad, ReleaseJob, leaseVars
<1>9. ScheduleEnd => UNCHANGED pinned
  BY DEF ScheduleEnd, leaseVars
<1>10. ASSUME NEW p \in Procs, NEW s \in Shards,
              StartEviction(p, s) \/ Rename(p, s) \/ ReapEviction(p, s)
       PROVE  UNCHANGED pinned
  BY <1>10 DEF StartEviction, Rename, ReapEviction, BeginEviction, FinishEviction, leaseVars
<1> QED
  BY <1>2, <1>3, <1>4, <1>5, <1>6, <1>7, <1>8, <1>9, <1>10 DEF FsNext

\* A metadata result that comes late leases nothing to a request whose lookup was
\* cancelled or that has finished; the lock makes checking the fence and leasing one.
THEOREM FenceHoldsHolds == FsSpec => FenceHolds
  BY FsIInvHolds, StepFences, PTL DEF FsSpec, FenceHolds
===============================================================================
