-------------------------- MODULE OffloadScheduler --------------------------
(***************************************************************************)
(* OffloadingConnectorScheduler: the scheduler side of the connector that  *)
(* copies KV blocks between the GPU and the cache in host memory.  One     *)
(* chunk is one block of TokensPerChunk tokens (blocks_per_chunk = 1, the  *)
(* deployed value).  There are two KV cache groups: full attention keeps   *)
(* all blocks of a running request, the sliding window frees those it has  *)
(* left behind.  The requests share one text, so a chunk is named by its   *)
(* group and its index.                                                    *)
(*                                                                         *)
(* vLLM's own scheduler, its block pool and the cache's manager are not    *)
(* under src/: they are the external part, as the connector's methods use  *)
(* them.  Blocks and cache slots are handed out lowest first.              *)
(***************************************************************************)
EXTENDS Naturals, Sequences, FiniteSets, SequencesExt

CONSTANTS
    Requests,
    NumBlocks,       \* GPU blocks, without the null block 0
    NumSlots,        \* slots of the host cache
    TokensPerChunk,  \* also the sliding window, so a window is one chunk
    Prompt,          \* prompt tokens of each request
    MaxTokens,       \* bound: tokens of a request when it stops
    MaxJobs,         \* bound: transfer jobs
    MaxPreemptions,  \* bound
    MaxResets,       \* bound: calls of reset_cache
    ResetActive      \* whether reset_cache may come while requests hold blocks

ASSUME SchedulerAssumption ==
    /\ {NumBlocks, NumSlots, TokensPerChunk} \subseteq Nat \ {0}
    /\ Prompt \in [Requests -> Nat \ {0}]
    /\ \A r \in Requests : Prompt[r] < MaxTokens
    /\ {MaxTokens, MaxJobs, MaxPreemptions, MaxResets} \subseteq Nat
    /\ ResetActive \in BOOLEAN

VARIABLES
    \* vLLM's scheduler and block pool
    status,      \* of each request
    computed,    \* tokens whose KV is on the GPU
    total,       \* tokens of the request (num_tokens)
    held,        \* its block table per group; 0 is the null block
    sched,       \* tokens scheduled in this step
    finishedIds, \* finished_req_ids of the next scheduler output
    preempted,   \* preempted_req_ids of this one
    phase,       \* where the engine's step is
    preemptions, \* counter for the bound
    resets,      \* counter for the bound
    \* the connector
    tracked,     \* requests with an entry in _req_status
    signaled,    \* finished_signaled
    blockIds,    \* the connector's copy of the block table
    nextStored,  \* next_stored_chunk_idx
    jobs,        \* _jobs; a request's transfer_jobs are its jobs here
    counter,     \* _job_counter
    threshold,   \* _stale_job_threshold
    watch,       \* _block_id_to_pending_jobs, as pairs of block and job
    flush,       \* _current_batch_jobs_to_flush
    allocated,   \* _current_batch_allocated_block_ids
    beingLoaded, \* _chunks_being_loaded
    newLoads,    \* _current_batch_load_jobs
    newStores,   \* the store jobs of the metadata under construction
    toStore,     \* requests _build_store_jobs has still to look at
    meta,        \* the metadata the workers got
    \* the cache's manager
    slotOf,      \* slot of each chunk in the cache
    ready        \* chunks whose store is complete

extVars == <<status, computed, total, held, sched, finishedIds, preempted,
             phase, preemptions, resets>>
conVars == <<tracked, signaled, blockIds, nextStored, jobs, counter, threshold,
             watch, flush, allocated, beingLoaded, newLoads, newStores, toStore,
             meta>>
mgrVars == <<slotOf, ready>>
schedVars == <<extVars, conVars, mgrVars>>

Groups == {"full", "sliding"}
Blocks == 1..NumBlocks
Slots  == 1..NumSlots
ChunksIn(n) == (n + TokensPerChunk - 1) \div TokensPerChunk
Chunks == 0..(ChunksIn(MaxTokens) - 1)
Keys   == Groups \X Chunks
NoMeta == [loads |-> {}, stores |-> {}, flush |-> {}]

\* The n lowest numbers of S, in order.
Lowest(S, n) ==
    [i \in 1..n |-> CHOOSE x \in S : Cardinality({y \in S : y < x}) = i - 1]

(***************************************************************************)
(* The block pool (external).  With c tokens computed the sliding window   *)
(* has left the chunks before FirstLive(c) behind.                         *)
(***************************************************************************)
FirstLive(c) ==
    IF c < TokensPerChunk THEN 0 ELSE (c - TokensPerChunk + 1) \div TokensPerChunk

BlocksOf(r)  == (UNION {Range(held[r][g]) : g \in Groups}) \ {0}
FreeBlocks   == Blocks \ UNION {BlocksOf(r) : r \in Requests}
NoBlocks     == [g \in Groups |-> <<>>]

\* The group's table without the blocks behind the window of c tokens.
Trimmed(table, g, c) ==
    [i \in DOMAIN table |->
        IF g = "sliding" /\ i <= FirstLive(c) THEN 0 ELSE table[i]]

\* The table of a group extended to cover n tokens with blocks of the sequence
\* `new`; chunks behind the window of c tokens get the null block.
Extended(table, g, c, n, new) ==
    LET null == IF g = "sliding" THEN FirstLive(c) ELSE 0
        At(i) == IF i <= Len(table) THEN table[i]
                 ELSE IF i <= null THEN 0
                 ELSE new[i - (IF Len(table) > null THEN Len(table) ELSE null)]
    IN  [i \in 1..ChunksIn(n) |-> At(i)]

Needed(table, g, c, n) ==
    Cardinality({i \in (Len(table) + 1)..ChunksIn(n) :
                    g = "full" \/ i > FirstLive(c)})

\* allocate_slots: free what the window left, then extend both groups.
Allocation(r, c, n) ==
    LET table == [g \in Groups |-> Trimmed(held[r][g], g, c)]
        pool  == FreeBlocks \cup (Range(held[r]["sliding"]) \ Range(table["sliding"]))
        nf    == Needed(table["full"], "full", c, n)
        ns    == Needed(table["sliding"], "sliding", c, n)
        fits  == Cardinality(pool) >= nf + ns
        New(g) == IF g = "full" THEN Lowest(pool, nf)
                  ELSE SubSeq(Lowest(pool, nf + ns), nf + 1, nf + ns)
    IN  [fits  |-> fits,
         table |-> IF fits THEN [g \in Groups |-> Extended(table[g], g, c, n, New(g))]
                   ELSE table]

(***************************************************************************)
(* The cache's manager (external): prepare_store gives slots to chunks it  *)
(* lacks, evicting readable ones nobody loads, or refuses.  Other tiers'    *)
(* traffic takes slots too, so how many are evicted is left open.          *)
(***************************************************************************)
Present(k) == slotOf[k] # 0
Pinned     == UNION {jobs[j].keys : j \in {i \in DOMAIN jobs : ~jobs[i].store}}
FreeSlots  == Slots \ {slotOf[k] : k \in Keys}
Evictable  == ready \ Pinned

\* _jobs with one more, under the id _generate_job_id returns.
WithJob(job) ==
    [j \in DOMAIN jobs \cup {counter} |-> IF j = counter THEN job ELSE jobs[j]]

JobsOf(r) == {j \in DOMAIN jobs : jobs[j].req = r}
Finished(r) == status[r] \in {"stopped", "aborted"}
BetweenSteps ==
    /\ phase = "sched"
    /\ \A r \in Requests : sched[r] = 0
    /\ newLoads = {} /\ preempted = {}

SchedInit ==
    /\ status = [r \in Requests |-> "new"]
    /\ computed = [r \in Requests |-> 0]
    /\ total = Prompt
    /\ held = [r \in Requests |-> NoBlocks]
    /\ sched = [r \in Requests |-> 0]
    /\ finishedIds = {} /\ preempted = {} /\ phase = "sched"
    /\ preemptions = 0 /\ resets = 0
    /\ tracked = {} /\ signaled = {}
    /\ blockIds = [r \in Requests |-> NoBlocks]
    /\ nextStored = [r \in Requests |-> [g \in Groups |-> 0]]
    /\ jobs = <<>> /\ counter = 0 /\ threshold = 0
    /\ watch = {} /\ flush = {} /\ allocated = {} /\ beingLoaded = {}
    /\ newLoads = {} /\ newStores = {} /\ toStore = {} /\ meta = NoMeta
    /\ slotOf = [k \in Keys |-> 0] /\ ready = {}

(***************************************************************************)
(* Scheduling.                                                             *)
(***************************************************************************)
OnNewRequest(r) ==
    /\ BetweenSteps /\ status[r] = "new"
    /\ status' = [status EXCEPT ![r] = "waiting"]
    /\ tracked' = tracked \cup {r}
    /\ UNCHANGED <<computed, total, held, sched, finishedIds, preempted, phase,
                   preemptions, resets, signaled, blockIds, nextStored, jobs,
                   counter, threshold, watch, flush, allocated, beingLoaded,
                   newLoads, newStores, toStore, meta, mgrVars>>

\* What a hit of h chunks reads: the whole prefix of the full group and the
\* last window of the sliding one.
HitKeys(h) ==
    {<<"full", i>> : i \in 0..(h - 1)}
        \cup {<<"sliding", i>> : i \in FirstLive(h * TokensPerChunk)..(h - 1)}

\* _lookup: the longest prefix all of whose chunks are in the cache; the last
\* token is always computed.  (The fixpoint itself is PrefixLookup's.)
LongestHit(r) ==
    LET hits == {h \in 0..((total[r] - 1) \div TokensPerChunk) :
                    \A k \in HitKeys(h) : Present(k)}
    IN  CHOOSE h \in hits : \A x \in hits : x <= h

\* mutant: a chunk whose store is not complete counts as a hit.
PendingIsHit(r) == JobsOf(r) # {} \/ HitKeys(LongestHit(r)) \cap beingLoaded # {}

\* None: a transfer of the request is in flight, or a chunk of the hit is still
\* being stored or is being loaded by another request.
LookupDefers(r) ==
    \/ JobsOf(r) # {}
    \/ ~(HitKeys(LongestHit(r)) \subseteq ready \ beingLoaded)

\* get_num_new_matched_tokens answers None, or allocation fails: the request
\* stays, its copy of the block table is dropped.
GetMatchedWaits(r) ==
    /\ phase = "sched" /\ preempted = {}
    /\ status[r] = "waiting" /\ blockIds[r] # NoBlocks
    /\ blockIds' = [blockIds EXCEPT ![r] = NoBlocks]
    /\ UNCHANGED <<extVars, tracked, signaled, nextStored, jobs, counter,
                   threshold, watch, flush, allocated, beingLoaded, newLoads,
                   newStores, toStore, meta, mgrVars>>

\* No external hit, or the fail-open policy bypassed it: n tokens are computed.
ScheduleWaiting(r, n) ==
    LET a == Allocation(r, 0, n)
    IN  /\ phase = "sched" /\ preempted = {}
        /\ status[r] = "waiting" /\ JobsOf(r) = {}
        /\ n <= total[r] /\ a.fits
        /\ status' = [status EXCEPT ![r] = "running"]
        /\ held' = [held EXCEPT ![r] = a.table]
        /\ sched' = [sched EXCEPT ![r] = n]
        /\ blockIds' = [blockIds EXCEPT ![r] = NoBlocks]
        /\ UNCHANGED <<computed, total, finishedIds, preempted, phase,
                       preemptions, resets, tracked, signaled, nextStored, jobs,
                       counter, threshold, watch, flush, allocated, beingLoaded,
                       newLoads, newStores, toStore, meta, mgrVars>>

\* An external hit: blocks for the prefix are allocated and
\* update_state_after_alloc makes the load job.
ScheduleLoad(r) ==
    LET h == LongestHit(r)
        c == h * TokensPerChunk
        a == Allocation(r, c, c)
        moves == {[key |-> k, block |-> a.table[k[1]][k[2] + 1], slot |-> slotOf[k]] :
                     k \in HitKeys(h)}
    IN  /\ phase = "sched" /\ preempted = {}
        /\ status[r] = "waiting" /\ h > 0 /\ ~LookupDefers(r) /\ a.fits
        /\ counter < MaxJobs
        /\ status' = [status EXCEPT ![r] = "loading"]
        /\ computed' = [computed EXCEPT ![r] = c]
        /\ held' = [held EXCEPT ![r] = a.table]
        /\ blockIds' = [blockIds EXCEPT ![r] = NoBlocks]
        /\ allocated' = allocated \cup {m.block : m \in moves}
        /\ nextStored' = [nextStored EXCEPT ![r] = [g \in Groups |-> h]]
        /\ jobs' = WithJob([req |-> r, store |-> FALSE, moves |-> moves,
                            keys |-> HitKeys(h), sliding |-> {}, other |-> {}])
        /\ newLoads' = newLoads \cup {counter}
        /\ counter' = counter + 1
        /\ beingLoaded' = beingLoaded \cup HitKeys(h)
        /\ UNCHANGED <<total, sched, finishedIds, preempted, phase, preemptions,
                       resets, tracked, signaled, threshold, watch, flush,
                       newStores, toStore, meta, mgrVars>>

ScheduleRunning(r, n) ==
    LET a == Allocation(r, computed[r], computed[r] + n)
    IN  /\ phase = "sched" /\ status[r] = "running" /\ sched[r] = 0
        /\ computed[r] + n <= total[r] /\ a.fits
        /\ held' = [held EXCEPT ![r] = a.table]
        /\ sched' = [sched EXCEPT ![r] = n]
        /\ UNCHANGED <<status, computed, total, finishedIds, preempted, phase,
                       preemptions, resets, conVars, mgrVars>>

Preempt(r) ==
    /\ phase = "sched" /\ status[r] = "running" /\ sched[r] = 0
    /\ preemptions < MaxPreemptions
    /\ preemptions' = preemptions + 1
    /\ status' = [status EXCEPT ![r] = "waiting"]
    /\ computed' = [computed EXCEPT ![r] = 0]
    /\ held' = [held EXCEPT ![r] = NoBlocks]
    /\ preempted' = preempted \cup {r}
    /\ UNCHANGED <<total, sched, finishedIds, phase, resets, conVars, mgrVars>>

(***************************************************************************)
(* build_connector_meta.  One call of one thread: its parts are steps only *)
(* because GPU copies go on beside it.                                     *)
(***************************************************************************)
\* mutant: transfers in flight do not keep the engine stepping.
StepsForRequests ==
    finishedIds # {} \/ preempted # {} \/ \E r \in Requests : sched[r] # 0

\* has_pending_push_work, or the scheduler has something to say.
EngineSteps ==
    \/ DOMAIN jobs # {} \/ finishedIds # {} \/ preempted # {}
    \/ \E r \in Requests : sched[r] # 0

\* The requests of this step, which yield_req_data goes through.
Scheduled == {r \in Requests : sched[r] # 0}

\* The blocks that came to the request in this step, which the connector's copy
\* lacks.
NewBlocks(r, g) == SubSeq(held[r][g], Len(blockIds[r][g]) + 1, Len(held[r][g]))

\* _current_batch_allocated_block_ids once all requests are updated.
AllocatedNow ==
    (allocated \cup
        UNION {Range(NewBlocks(r, "full")) \cup Range(NewBlocks(r, "sliding")) : r \in Scheduled})
      \ {0}

\* The copy without the sliding-window blocks allocated again in this step.
Zeroed(r, g) ==
    [i \in DOMAIN blockIds[r][g] |->
        IF /\ g = "sliding" /\ r \in tracked
           /\ i > nextStored[r][g] /\ blockIds[r][g][i] \in AllocatedNow
          THEN 0 ELSE blockIds[r][g][i]]

\* _update_req_states and the flush sets: extend the copies of the block tables,
\* zero sliding-window entries whose block was allocated again in this step, and
\* flush the stores of preempted requests and of blocks that are reused.
StartMeta ==
    /\ phase = "sched" /\ EngineSteps
    /\ allocated' = AllocatedNow
    /\ blockIds' = [r \in Requests |-> [g \in Groups |->
                       Zeroed(r, g) \o (IF r \in Scheduled THEN NewBlocks(r, g) ELSE <<>>)]]
    /\ flush' = flush \cup (UNION {JobsOf(r) : r \in preempted})
                      \cup {p[2] : p \in {w \in watch : w[1] \in AllocatedNow}}
    /\ toStore' = Scheduled \cup (finishedIds \cap tracked)
    /\ phase' = "build"
    /\ UNCHANGED <<status, computed, total, held, sched, finishedIds, preempted,
                   preemptions, resets, tracked, signaled, nextStored, jobs,
                   counter, threshold, watch, beingLoaded, newLoads, newStores,
                   meta, mgrVars>>

\* num_tokens_after_batch, through _calc_num_offloadable_tokens.
Offloadable(r) ==
    LET after == CASE status[r] = "aborted" -> computed[r]
                   [] status[r] = "stopped" -> total[r]
                   [] OTHER -> computed[r] + sched[r]
    IN  IF after < total[r] THEN after ELSE total[r]

\* mutant: the last chunk counts although it is not full.
StorableRoundsUp(r, g) ==
    IF ChunksIn(Offloadable(r)) < Len(blockIds[r][g]) THEN ChunksIn(Offloadable(r))
    ELSE Len(blockIds[r][g])

\* storable_chunks, for a group that is no draft group.
StorableChunks(r, g) ==
    LET n == Offloadable(r) \div TokensPerChunk
    IN  IF n < Len(blockIds[r][g]) THEN n ELSE Len(blockIds[r][g])

\* advance_stored_idx
Advanced(r) ==
    [nextStored EXCEPT ![r] =
        [g \in Groups |-> IF StorableChunks(r, g) > @[g] THEN StorableChunks(r, g) ELSE @[g]]]

\* The chunks of the request that became storable and still have their block.
NewKeys(r) ==
    {k \in Keys : /\ nextStored[r][k[1]] <= k[2] /\ k[2] < StorableChunks(r, k[1])
                  /\ blockIds[r][k[1]][k[2] + 1] # 0}

\* _build_store_jobs for one request, when prepare_store has nothing to store.
StoreNothing(r) ==
    /\ phase = "build" /\ r \in toStore
    /\ \A k \in NewKeys(r) : Present(k)
    /\ nextStored' = Advanced(r)
    /\ toStore' = toStore \ {r}
    /\ UNCHANGED <<extVars, tracked, signaled, blockIds, jobs, counter, threshold,
                   watch, flush, allocated, beingLoaded, newLoads, newStores,
                   meta, mgrVars>>

\* prepare_store refuses: the index stays, so the chunks are tried again.
StoreRefused(r) ==
    /\ phase = "build" /\ r \in toStore
    /\ \E k \in NewKeys(r) : ~Present(k)
    /\ toStore' = toStore \ {r}
    /\ UNCHANGED <<extVars, tracked, signaled, blockIds, nextStored, jobs, counter,
                   threshold, watch, flush, allocated, beingLoaded, newLoads,
                   newStores, meta, mgrVars>>

\* A store job, for which chunks may be evicted.  Sliding-window blocks are watched from now on, the others of a
\* request that is over too; if one of these was given away in this very step,
\* the job is flushed in it.
StoreChunks(r, evicted) ==
    LET keys  == {k \in NewKeys(r) : ~Present(k)}
        free  == FreeSlots \cup {slotOf[k] : k \in evicted}
        order == SetToSeq(keys)
        Slot(k) == Lowest(free, Len(order))[CHOOSE i \in DOMAIN order : order[i] = k]
        moves == {[key |-> k, block |-> blockIds[r][k[1]][k[2] + 1], slot |-> Slot(k)] :
                     k \in keys}
        BlocksIn(g) == {m.block : m \in {x \in moves : x.key[1] = g}}
        over == IF Finished(r) THEN BlocksIn("full") ELSE {}
    IN  /\ phase = "build" /\ r \in toStore /\ keys # {}
        /\ evicted \subseteq Evictable \ NewKeys(r)
        /\ Cardinality(free) >= Cardinality(keys)
        /\ counter < MaxJobs
        /\ slotOf' = [k \in Keys |-> IF k \in keys THEN Slot(k)
                                     ELSE IF k \in evicted THEN 0 ELSE slotOf[k]]
        /\ ready' = ready \ evicted
        /\ jobs' = WithJob([req |-> r, store |-> TRUE, moves |-> moves, keys |-> keys,
                            sliding |-> BlocksIn("sliding"), other |-> BlocksIn("full")])
        /\ counter' = counter + 1
        /\ newStores' = newStores \cup {counter}
        /\ nextStored' = Advanced(r)
        /\ watch' = watch \cup ((BlocksIn("sliding") \cup over) \X {counter})
        /\ flush' = IF over \cap allocated # {} THEN flush \cup {counter} ELSE flush
        /\ toStore' = toStore \ {r}
        /\ UNCHANGED <<extVars, tracked, signaled, blockIds, threshold, allocated,
                       beingLoaded, newLoads, meta>>

\* The rest of build_connector_meta: finished requests are signalled, and
\* forgotten unless a transfer of theirs is in flight.
EndMeta ==
    /\ phase = "build" /\ toStore = {}
    /\ signaled' = signaled \cup (finishedIds \cap tracked)
    /\ tracked' = tracked \ {r \in finishedIds : JobsOf(r) = {}}
    /\ meta' = [loads  |-> {[id |-> j, job |-> jobs[j]] : j \in newLoads},
                stores |-> {[id |-> j, job |-> jobs[j]] : j \in newStores},
                flush  |-> flush]
    /\ finishedIds' = {} /\ preempted' = {} /\ newLoads' = {} /\ newStores' = {}
    /\ flush' = {} /\ allocated' = {}
    /\ phase' = "exec"
    /\ UNCHANGED <<status, computed, total, held, sched, preemptions, resets,
                   blockIds, nextStored, jobs, counter, threshold, watch,
                   beingLoaded, toStore, mgrVars>>

(***************************************************************************)
(* After the workers' step.                                                *)
(***************************************************************************)
\* mutant: the blocks of transfers in flight are not watched.
FinishedUnwatched(r, how) ==
    /\ status' = [status EXCEPT ![r] = how]
    /\ held' = IF status[r] = "loading" THEN held ELSE [held EXCEPT ![r] = NoBlocks]
    /\ finishedIds' = finishedIds \cup {r}
    /\ UNCHANGED watch

\* request_finished, before the blocks are freed: blocks of transfers in flight
\* that the request protected so far are watched.  Blocks a load still writes
\* stay with the request.
RequestFinished(r, how) ==
    /\ status' = [status EXCEPT ![r] = how]
    /\ watch' = watch \cup UNION {jobs[j].other \X {j} : j \in JobsOf(r)}
    /\ held' = IF status[r] = "loading" THEN held ELSE [held EXCEPT ![r] = NoBlocks]
    /\ finishedIds' = finishedIds \cup {r}

\* update_from_output: the scheduled tokens are computed; when they are all, one
\* more is sampled, and the request may stop there, at any length.  The KV of the
\* last token it sampled is never computed.
RequestOutput(r, stops) ==
    LET c    == computed[r] + sched[r]
        last == c = total[r]
    IN  /\ phase = "out" /\ sched[r] # 0
        /\ computed' = [computed EXCEPT ![r] = c]
        /\ total' = [total EXCEPT ![r] = IF last THEN @ + 1 ELSE @]
        /\ sched' = [sched EXCEPT ![r] = 0]
        /\ total'[r] = MaxTokens => stops
        /\ IF stops
             THEN /\ last
                  /\ RequestFinished(r, "stopped")
             ELSE UNCHANGED <<status, held, watch, finishedIds>>
        /\ UNCHANGED <<preempted, phase, preemptions, resets, tracked, signaled,
                       blockIds, nextStored, jobs, counter, threshold, flush,
                       allocated, beingLoaded, newLoads, newStores, toStore,
                       meta, mgrVars>>

\* finish_requests between two steps.
Abort(r) ==
    /\ BetweenSteps /\ status[r] \in {"waiting", "loading", "running"}
    /\ RequestFinished(r, "aborted")
    /\ UNCHANGED <<computed, total, sched, preempted, phase, preemptions, resets,
                   tracked, signaled, blockIds, nextStored, jobs, counter,
                   threshold, flush, allocated, beingLoaded, newLoads, newStores,
                   toStore, meta, mgrVars>>

\* A load arrived (external): its request runs, or gives its blocks back.
LoadArrived(r) ==
    IF status[r] = "loading"
      THEN /\ status' = [status EXCEPT ![r] = "running"]
           /\ UNCHANGED held
      ELSE /\ held' = [held EXCEPT ![r] = NoBlocks]
           /\ UNCHANGED status

\* update_connector_output for one completed job.
ConnectorOutput(t) ==
    LET j == t.id
    IN  /\ phase = "out" /\ \A r \in Requests : sched[r] = 0
        /\ IF t.job.store THEN UNCHANGED <<status, held>> ELSE LoadArrived(t.job.req)
        /\ IF j < threshold
             THEN UNCHANGED <<jobs, ready, beingLoaded, watch, tracked>>
             ELSE LET job == jobs[j]
                      rest == [i \in DOMAIN jobs \ {j} |-> jobs[i]]
                      gone == job.sliding \cup
                                 (IF Finished(job.req) THEN job.other ELSE {})
                  IN  /\ jobs' = rest
                      /\ ready' = IF job.store THEN ready \cup job.keys ELSE ready
                      /\ beingLoaded' = IF job.store THEN beingLoaded
                                        ELSE beingLoaded \ job.keys
                      /\ watch' = watch \ (gone \X {j})
                      /\ tracked' = IF job.req \in signaled /\ JobsOf(job.req) = {j}
                                      THEN tracked \ {job.req} ELSE tracked
        /\ UNCHANGED <<computed, total, sched, finishedIds, preempted, phase,
                       preemptions, resets, signaled, blockIds, nextStored,
                       counter, threshold, flush, allocated, newLoads, newStores,
                       toStore, meta, slotOf>>

\* reset_cache, between two steps.  Requests that are over are forgotten, the
\* others store again from their first chunk; all jobs are to be flushed and
\* their results ignored.
ResetCache ==
    /\ BetweenSteps /\ flush = {} /\ resets < MaxResets
    /\ ResetActive \/ \A r \in Requests : status[r] \notin {"loading", "running"}
    /\ resets' = resets + 1
    /\ flush' = DOMAIN jobs
    /\ tracked' = {r \in tracked : ~Finished(r)}
    /\ slotOf' = [k \in Keys |-> 0]
    /\ ready' = {}
    /\ nextStored' = [r \in Requests |-> [g \in Groups |-> 0]]
    /\ threshold' = counter
    /\ jobs' = <<>> /\ watch' = {} /\ beingLoaded' = {}
    /\ UNCHANGED <<status, computed, total, held, sched, finishedIds, preempted,
                   phase, preemptions, signaled, blockIds, counter, allocated,
                   newLoads, newStores, toStore, meta>>
=============================================================================
