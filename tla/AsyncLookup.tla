------------------------------ MODULE AsyncLookup ------------------------------
(***************************************************************************)
(* AsyncLookupManager (patches/async_lookup.bounded.py): the scheduler     *)
(* thread asks whether keys exist on disk and is never made to wait; a     *)
(* pool of workers finds out.  lookup() batches the keys of one scheduler  *)
(* step, flush() cuts the batch into chunks and puts them round-robin on   *)
(* a bounded queue, workers answer the chunks, and the next lookup()       *)
(* drains the answers.  Scheduler calls and worker steps interleave freely.*)
(*                                                                         *)
(* A LookupState's cancellation token lives as long as the state: instead  *)
(* of the Event, every queued item carries `live', which cleanup() clears  *)
(* in the items of the states it deletes.                                  *)
(***************************************************************************)
EXTENDS Requests, Integers, FiniteSets, Sequences

CONSTANTS
  Keys, Workers,
  MaxPendingBatches, MaxKeysPerStep, MaxKeysPerBatch

ASSUME LimitsAssumption ==
  /\ IsFiniteSet(Workers) /\ Workers # {}
  /\ MaxPendingBatches \in Nat \ {0}
  /\ MaxKeysPerStep \in Nat \ {0} /\ MaxKeysPerBatch \in Nat \ {0}

VARIABLES
  result,      \* _lookup_state[k].result; "absent" when there is no state
  askers,      \* _lookup_state[k].request_ids, and its inverse _req_keys
  batch,       \* _lookup_batch
  flushing,    \* flush() in progress: the chunks it has not put yet
  queue,       \* _lookup_queue: the items of each chunk
  work,        \* what each worker thread is doing
  published,   \* _pending_results
  needDrain,   \* _need_to_drain
  sentinels    \* shutdown(): sentinels still to put; NotStopping before it

schedVars == <<result, askers, batch, flushing, needDrain, sentinels>>
asyncVars == <<result, askers, batch, flushing, queue, work, published, needDrain, sentinels>>

Item(k, r) == [key |-> k, req |-> r, live |-> TRUE]
Items == [key : Keys, req : Reqs, live : BOOLEAN]
Sentinel == {}
IdleWorker == [stage |-> "idle", items |-> {}, hits |-> {}]
NumWorkers == Cardinality(Workers)
NotStopping == NumWorkers + 1

AsyncInit ==
  /\ result = [k \in Keys |-> "absent"]
  /\ askers = [k \in Keys |-> {}]
  /\ batch = <<>> /\ flushing = {} /\ queue = <<>> /\ published = <<>>
  /\ work = [w \in Workers |-> IdleWorker]
  /\ needDrain = FALSE
  /\ sentinels = NotStopping

Live(items) == {i \in items : i.live}
LiveKeys(items) == {i.key : i \in Live(items)}

\* Clear the tokens of the states of ks, wherever their items are.
Cancelled(i, ks) == [key |-> i.key, req |-> i.req, live |-> i.live /\ i.key \notin ks]
Cancel(items, ks) == {Cancelled(i, ks) : i \in items}

\* drain_results: the last published answer wins; a key nobody asks about any
\* more has no state to hold it.
Answered(k) == {n \in DOMAIN published : k \in published[n].keys}
LastAnswer(k) ==
  LET last == CHOOSE n \in Answered(k) : \A m \in Answered(k) : m <= n
  IN  IF k \in published[last].hits THEN "hit" ELSE "miss"
Drained(k) == IF needDrain /\ result[k] # "absent" /\ Answered(k) # {}
                THEN LastAnswer(k) ELSE result[k]

\* The scheduler thread is not inside flush() or shutdown().
SchedulerFree == flushing = {} /\ sentinels = NotStopping

Lookup(r, k) ==
  /\ SchedulerFree
  /\ needDrain' = FALSE
  /\ published' = IF needDrain THEN <<>> ELSE published
  /\ LET fresh == result[k] = "absent"
         room  == Len(batch) < MaxKeysPerStep
     IN  /\ result' = [q \in Keys |->
                         IF q = k /\ fresh THEN (IF room THEN "wait" ELSE "miss")
                                           ELSE Drained(q)]
         /\ batch' = IF fresh /\ room THEN Append(batch, Item(k, r)) ELSE batch
  /\ askers' = [askers EXCEPT ![k] = @ \cup {r}]
  /\ UNCHANGED <<flushing, queue, work, sentinels>>

\* flush: an iterator per request, in the order the requests came, gives the
\* next MaxKeysPerBatch of its items whenever its turn comes round.  Which chunk
\* the n-th item of the batch is in is told by the round and by the place of its
\* request, the first of whose items comes First.
Place(n) == Cardinality({m \in 1..n : batch[m].req = batch[n].req})
First(n) == CHOOSE m \in 1..n : /\ batch[m].req = batch[n].req
                                /\ \A l \in 1..(m - 1) : batch[l].req # batch[n].req
Turn(n) == <<(Place(n) - 1) \div MaxKeysPerBatch, First(n)>>
Chunk(t) == [turn |-> t, items |-> {batch[n] : n \in {m \in DOMAIN batch : Turn(m) = t}}]
Chunks == {Chunk(Turn(n)) : n \in DOMAIN batch}

Before(t, u) == t[1] < u[1] \/ (t[1] = u[1] /\ t[2] < u[2])
IsNext(c) == c \in flushing /\ \A d \in flushing \ {c} : Before(c.turn, d.turn)

\* Mutant: the step's end forgets that there may be results to drain.
FlushNoDrain ==
  /\ SchedulerFree
  /\ batch' = <<>>
  /\ flushing' = Chunks
  /\ UNCHANGED <<result, askers, queue, work, published, needDrain, sentinels>>

Flush ==
  /\ SchedulerFree
  /\ needDrain' = TRUE
  /\ batch' = <<>>
  /\ flushing' = Chunks
  /\ UNCHANGED <<result, askers, queue, work, published, sentinels>>

QueueFull == Len(queue) >= MaxPendingBatches

\* put_nowait of the next chunk; workers may make room between two of them.
PutChunk(c) ==
  /\ IsNext(c) /\ ~QueueFull
  /\ queue' = Append(queue, c.items)
  /\ flushing' = flushing \ {c}
  /\ UNCHANGED <<result, askers, batch, work, published, needDrain, sentinels>>

\* Mutant: a chunk that does not fit is forgotten.
ForgetChunk(c) ==
  /\ IsNext(c) /\ QueueFull
  /\ flushing' = flushing \ {c}
  /\ UNCHANGED <<result, askers, batch, queue, work, published, needDrain, sentinels>>

\* queue.Full: the chunk's live keys become misses.
DropChunk(c) ==
  /\ IsNext(c) /\ QueueFull
  /\ result' = [k \in Keys |-> IF k \in LiveKeys(c.items) THEN "miss" ELSE result[k]]
  /\ flushing' = flushing \ {c}
  /\ UNCHANGED <<askers, batch, queue, work, published, needDrain, sentinels>>

\* cleanup: forget the request; a state nobody asks about is deleted and its
\* token cleared.
Orphaned(r) == {k \in Keys : askers[k] = {r}}
\* Mutant: the deleted states' tokens stay set.
CleanupKeepsTokens(r) ==
  /\ SchedulerFree
  /\ askers' = [k \in Keys |-> askers[k] \ {r}]
  /\ result' = [k \in Keys |-> IF k \in Orphaned(r) THEN "absent" ELSE result[k]]
  /\ UNCHANGED <<batch, queue, work, flushing, published, needDrain, sentinels>>

Cleanup(r) ==
  /\ SchedulerFree
  /\ askers' = [k \in Keys |-> askers[k] \ {r}]
  /\ LET gone == Orphaned(r)
     IN  /\ result' = [k \in Keys |-> IF k \in gone THEN "absent" ELSE result[k]]
         /\ batch' = [n \in DOMAIN batch |-> Cancelled(batch[n], gone)]
         /\ queue' = [n \in DOMAIN queue |-> Cancel(queue[n], gone)]
         /\ work' = [w \in Workers |-> [work[w] EXCEPT !.items = Cancel(@, gone)]]
  /\ UNCHANGED <<flushing, published, needDrain, sentinels>>

Invalidate(ks) ==
  /\ SchedulerFree
  /\ result' = [k \in Keys |-> IF k \in ks /\ result[k] # "absent" THEN "miss" ELSE result[k]]
  /\ UNCHANGED <<askers, batch, flushing, queue, work, published, needDrain, sentinels>>

\* A worker takes a chunk and keeps the items whose token is set.
Take(w) ==
  /\ work[w].stage = "idle" /\ queue # <<>> /\ Head(queue) # Sentinel
  /\ queue' = Tail(queue)
  /\ work' = [work EXCEPT ![w] =
                IF Live(Head(queue)) = {} THEN IdleWorker
                ELSE [stage |-> "probing", items |-> Live(Head(queue)), hits |-> {}]]
  /\ UNCHANGED <<schedVars, published>>

\* batch_lookup returns, all misses when it raised: hits are the keys found.
KeysOf(items) == {i.key : i \in items}
Goes(w, stage, hits) ==
  work' = [work EXCEPT ![w] = [stage |-> stage, items |-> work[w].items, hits |-> hits]]
Probed(w, hits) == work[w].stage = "probing" /\ Goes(w, "done", hits)

\* The worker puts the answers whose token is still set.
Publish(w) ==
  /\ work[w].stage = "done"
  /\ LET keys == LiveKeys(work[w].items)
     IN  published' = IF keys = {} THEN published
                      ELSE Append(published, [keys |-> keys, hits |-> work[w].hits])
  /\ work' = [work EXCEPT ![w] = IdleWorker]
  /\ UNCHANGED <<schedVars, queue>>

\* Mutant: one sentinel too few.
ShutdownOneShort ==
  /\ SchedulerFree
  /\ sentinels' = NumWorkers - 1
  /\ UNCHANGED <<result, askers, batch, flushing, queue, work, published, needDrain>>

\* shutdown: one blocking put per worker, then join.
Shutdown ==
  /\ SchedulerFree
  /\ sentinels' = NumWorkers
  /\ UNCHANGED <<result, askers, batch, flushing, queue, work, published, needDrain>>

\* Mutant: the loop over the threads has no end.
PutSentinelsForever ==
  /\ sentinels # NotStopping /\ ~QueueFull
  /\ queue' = Append(queue, Sentinel)
  /\ sentinels' = sentinels - 1
  /\ UNCHANGED <<result, askers, batch, flushing, work, published, needDrain>>

PutSentinel ==
  /\ sentinels \in 1..NumWorkers /\ ~QueueFull
  /\ queue' = Append(queue, Sentinel)
  /\ sentinels' = sentinels - 1
  /\ UNCHANGED <<result, askers, batch, flushing, work, published, needDrain>>

Stop(w) ==
  /\ work[w].stage = "idle" /\ queue # <<>> /\ Head(queue) = Sentinel
  /\ queue' = Tail(queue)
  /\ Goes(w, "stopped", {})
  /\ UNCHANGED <<schedVars, published>>

\* The manager by itself: batch_lookup may find any of its keys.
Probe(w) ==
  /\ \E hits \in SUBSET KeysOf(work[w].items) : Probed(w, hits)
  /\ UNCHANGED <<schedVars, queue, published>>

PutOrDrop == \E c \in flushing : PutChunk(c) \/ DropChunk(c)

AsyncNext ==
  \/ \E r \in Reqs, k \in Keys : Lookup(r, k)
  \/ \E r \in Reqs : Cleanup(r)
  \/ \E k \in Keys : Invalidate({k})
  \/ Flush \/ PutOrDrop \/ Shutdown \/ PutSentinel
  \/ \E w \in Workers : Take(w) \/ Probe(w) \/ Publish(w) \/ Stop(w)

AsyncSpec == AsyncInit /\ [][AsyncNext]_asyncVars

\* Threads run; the scheduler ends its steps (flush) and asks again about what
\* it was told to wait for.  It may stop the manager at any time or never.
Asked(r, k) == r \in askers[k] /\ Lookup(r, k)
AsyncFairness ==
  /\ WF_asyncVars(Flush) /\ WF_asyncVars(PutOrDrop) /\ WF_asyncVars(PutSentinel)
  /\ \A w \in Workers : WF_asyncVars(Take(w) \/ Probe(w) \/ Publish(w) \/ Stop(w))
  /\ \A r \in Reqs, k \in Keys : WF_asyncVars(Asked(r, k))

AsyncFairSpec == AsyncSpec /\ AsyncFairness

-------------------------------------------------------------------------------
Stages == {"idle", "probing", "done", "stopped"}

\* Every variable of the manager keeps its type, and the only idle hands are empty.
Typed(stages) ==
  /\ result \in [Keys -> {"absent", "wait", "hit", "miss"}]
  /\ askers \in [Keys -> SUBSET Reqs]
  /\ batch \in Seq(Items) /\ queue \in Seq(SUBSET Items)
  /\ \A c \in flushing : c.items \in SUBSET Items
  /\ work \in [Workers -> [stage : stages, items : SUBSET Items, hits : SUBSET Keys]]
  /\ \A w \in Workers : work[w].stage \in {"idle", "stopped"} <=> work[w].items = {}
  /\ published \in Seq([keys : SUBSET Keys, hits : SUBSET Keys])
  /\ needDrain \in BOOLEAN
  /\ sentinels \in 0..NotStopping
AsyncTypeOK == Typed(Stages)

\* Where the manager has a live item for a key.
LivePlaces(k) ==
  {<<"batch", n>> : n \in {m \in DOMAIN batch : k \in LiveKeys({batch[m]})}}
    \cup {<<"flush", c>> : c \in {d \in flushing : k \in LiveKeys(d.items)}}
    \cup {<<"queue", n>> : n \in {m \in DOMAIN queue : k \in LiveKeys(queue[m])}}
    \cup {<<"worker", w>> : w \in {v \in Workers : k \in LiveKeys(work[v].items)}}

\* A lookup is never lost: while a key's answer is awaited, a live item for it
\* is on its way to or through a worker, or an answer is waiting to be drained.
WaitIsCovered ==
  \A k \in Keys : result[k] = "wait" => LivePlaces(k) # {} \/ Answered(k) # {}

\* A lookup is made once: requests that ask about the same key share one live
\* item, and a live item always has a state to report to.
OneLiveItem ==
  \A k \in Keys :
    /\ \A x, y \in LivePlaces(k) : x = y
    /\ LivePlaces(k) # {} => result[k] # "absent" /\ askers[k] # {}

\* A scheduler that is asked to wait is not asked to wait forever.
WaitEnds ==
  \A r \in Reqs, k \in Keys :
    (r \in askers[k] /\ result[k] = "wait")
      ~> (result[k] # "wait" \/ r \notin askers[k] \/ sentinels # NotStopping)

\* shutdown() returns: the bounded queue does not block the sentinels forever.
ShutdownEnds ==
  (sentinels # NotStopping) ~> (\A w \in Workers : work[w].stage = "stopped")
===============================================================================
