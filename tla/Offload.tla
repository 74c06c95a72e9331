------------------------------- MODULE Offload -------------------------------
(***************************************************************************)
(* The connector's scheduler and one worker with its GPU: how jobs travel  *)
(* between host cache and KV blocks while the engine steps.  The worker    *)
(* half of the connector is not under src/; it hands the metadata's jobs   *)
(* to the transfer handlers as follows.  When a step begins it submits the *)
(* stores of the step before, whose blocks are computed by then, and new   *)
(* ones that are to be flushed; it waits for the jobs to flush, submits    *)
(* the loads, and only then lets the model write blocks.                   *)
(***************************************************************************)
EXTENDS OffloadScheduler, TransferHandler

VARIABLES
    deferred, \* stores submitted when the next step begins
    completed \* jobs collected in this step and not yet given to the connector

vars == <<schedVars, handlerVars, deferred, completed>>

\* What a block or slot holds: the first n tokens of a chunk.
Data(k, n) == [key |-> k, tokens |-> n]
Whole(k)   == Data(k, TokensPerChunk)

Init ==
    /\ SchedInit
    /\ transfers = [d \in Directions |-> <<>>]
    /\ gpu = [b \in Blocks |-> NoData]
    /\ cpu = [s \in Slots |-> NoData]
    /\ deferred = {} /\ completed = {}

\* In the order the jobs were made.
InOrder(js) ==
    [i \in 1..Cardinality(js) |->
        CHOOSE t \in js : Cardinality({u \in js : u.id < t.id}) = i - 1]

Submitted(js, dir) ==
    [i \in 1..Cardinality(js) |->
        Transfer(InOrder(js)[i].id, InOrder(js)[i].job, Staged(dir, InOrder(js)[i].job))]

SubmitStores ==
    LET now == {s \in meta.stores : s.id \in meta.flush}
    IN  /\ phase = "exec"
        /\ transfers' = [transfers EXCEPT !["store"] = @ \o Submitted(deferred \cup now, "store")]
        /\ deferred' = meta.stores \ now
        /\ phase' = "flush"
        /\ UNCHANGED <<status, computed, total, held, sched, finishedIds,
                       preempted, preemptions, resets, conVars, mgrVars, gpu, cpu,
                       completed>>

\* The tokens of block i of a group after a step, when the block held what the
\* step builds on.
Written(r, k, b) ==
    LET first == k[2] * TokensPerChunk
        from  == computed[r]
        end   == IF from + sched[r] < first + TokensPerChunk
                   THEN from + sched[r] ELSE first + TokensPerChunk
    IN  IF from <= first \/ gpu[b] = Data(k, from - first)
          THEN Data(k, end - first) ELSE NoData

\* The forward pass: loads are submitted, and the model writes the KV of the
\* scheduled tokens.
Forward ==
    LET WritesTo(r, k, b) ==
            /\ sched[r] # 0
            /\ k[2] \in (computed[r] \div TokensPerChunk)..
                        ((computed[r] + sched[r] - 1) \div TokensPerChunk)
            /\ held[r][k[1]][k[2] + 1] = b
        Writes(b) == {w \in Requests \X Keys : WritesTo(w[1], w[2], b)}
        One(b) == CHOOSE w \in Writes(b) : TRUE
    IN  /\ phase = "flush" /\ Waited(meta.flush)
        /\ transfers' = [transfers EXCEPT !["load"] = @ \o Submitted(meta.loads, "load")]
        /\ gpu' = [b \in Blocks |-> IF Writes(b) = {} THEN gpu[b]
                                    ELSE Written(One(b)[1], One(b)[2], b)]
        /\ meta' = NoMeta
        /\ phase' = "collect"
        /\ UNCHANGED <<status, computed, total, held, sched, finishedIds,
                       preempted, preemptions, resets, tracked, signaled, blockIds,
                       nextStored, jobs, counter, threshold, watch, flush,
                       allocated, beingLoaded, newLoads, newStores, toStore,
                       mgrVars, cpu, deferred, completed>>

Collect ==
    /\ phase = "collect"
    /\ GetFinished
    /\ completed' = Collected
    /\ phase' = "out"
    /\ UNCHANGED <<status, computed, total, held, sched, finishedIds, preempted,
                   preemptions, resets, conVars, mgrVars, deferred>>

GiveOutput(t) ==
    /\ t \in completed
    /\ ConnectorOutput(t)
    /\ completed' = completed \ {t}
    /\ UNCHANGED <<handlerVars, deferred>>

EndStep ==
    /\ phase = "out" /\ completed = {} /\ \A r \in Requests : sched[r] = 0
    /\ phase' = "sched"
    /\ UNCHANGED <<status, computed, total, held, sched, finishedIds, preempted,
                   preemptions, resets, conVars, mgrVars, handlerVars, deferred,
                   completed>>

GpuCopy == (StoreCopied \/ LoadCopied) /\ UNCHANGED <<schedVars, deferred, completed>>

StoreJob(r) ==
    StoreNothing(r) \/ StoreRefused(r) \/ \E e \in SUBSET Evictable : StoreChunks(r, e)

Scheduling(r) ==
    \/ OnNewRequest(r) \/ GetMatchedWaits(r) \/ ScheduleLoad(r) \/ Preempt(r) \/ Abort(r)
    \/ \E n \in 1..MaxTokens : ScheduleWaiting(r, n) \/ ScheduleRunning(r, n)

\* One thread makes these steps, in this order; what may be scheduled in a step
\* is vLLM's choice.
EngineStep ==
    \/ /\ \/ StartMeta \/ EndMeta
          \/ \E r \in Requests : StoreJob(r) \/ \E stops \in BOOLEAN : RequestOutput(r, stops)
       /\ UNCHANGED <<handlerVars, deferred, completed>>
    \/ SubmitStores \/ Forward \/ Collect \/ EndStep
    \/ \E t \in completed : GiveOutput(t)

Next ==
    \/ /\ ResetCache \/ \E r \in Requests : Scheduling(r)
       /\ UNCHANGED <<handlerVars, deferred, completed>>
    \/ EngineStep
    \/ GpuCopy

Spec == Init /\ [][Next]_vars

(***************************************************************************)
(* Properties.                                                             *)
(***************************************************************************)
\* Chunks at whose end a request stopped: it counts its last token, whose KV was
\* never computed, and stores the chunk without it.
Cuts == {k \in Keys : \E r \in Requests :
            status[r] = "stopped" /\ total[r] = (k[2] + 1) * TokensPerChunk}

\* What a full block or a slot of a chunk may hold, when some are cut.
Chunk(cuts, k) == {Whole(k)} \cup (IF k \in cuts THEN {Data(k, TokensPerChunk - 1)} ELSE {})

\* What the cache offers as a hit is the KV of that chunk, of all of it or, where
\* a request stopped at the chunk's end, of all but its last token: no store read
\* a block before it was computed, but for that one token, or after it was given
\* to somebody else, and no copy out of a staging buffer landed in a slot that had
\* a new owner.
ReadyIsRight == \A k \in ready : cpu[slotOf[k]] \in Chunk(Cuts, k)

\* The attention of a running request reads what it should: each block in its
\* table holds its chunk up to the tokens computed, but for the last token of a
\* chunk at whose end a request stopped.  A load that was submitted for blocks
\* given to another request, or read a slot too early, breaks this.
BlocksAreRight ==
    \A r \in Requests : status[r] = "running" =>
        \A k \in Keys :
            LET first == k[2] * TokensPerChunk
                b == held[r][k[1]][k[2] + 1]
            IN  /\ first < computed[r] /\ b # 0 /\ phase \in {"sched", "build"}
                => gpu[b] \in IF computed[r] < first + TokensPerChunk
                                THEN {Data(k, computed[r] - first)} ELSE Chunk(Cuts, k)

\* A completion finds what it removes: _remove_pending_job raises KeyError for a
\* block that is not watched, and the blocks to remove depend on whether the
\* request was over when the job was made, when it ended, or not at all.  And a
\* completion that is not from before a reset finds its job, the one the worker
\* did: no other completion has removed it.
CompletionsResolve ==
    /\ \A j \in DOMAIN jobs :
          /\ jobs[j].sliding \X {j} \subseteq watch
          /\ Finished(jobs[j].req) => jobs[j].other \X {j} \subseteq watch
          /\ jobs[j].req \in tracked
    /\ \A t \in completed :
          t.id >= threshold => t.id \in DOMAIN jobs /\ jobs[t.id] = t.job

\* When the engine stops stepping nothing is left behind: has_pending_push_work
\* keeps it going until each request that is over is forgotten, no block is
\* watched for a job, and no chunk is marked as being loaded (a lookup of such a
\* chunk would be put off for ever).
NothingLeftBehind ==
    BetweenSteps /\ ~EngineSteps =>
        /\ \A r \in Requests : Finished(r) => r \notin tracked
        /\ watch = {} /\ beingLoaded = {}

\* "Earlier positions were already offloaded": a store job reads no block that
\* is in another request's table, unless it is flushed before that one writes.
StoresReadOwnBlocks ==
    \A j \in newStores \ flush : \A m \in jobs[j].moves :
        \A r \in Requests \ {jobs[j].req} : m.block \notin BlocksOf(r)
=============================================================================
