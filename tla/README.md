# TLA+ models of the serving overlay

The repository serves DeepSeek V4 Flash on MI300X with a patched vLLM. What it adds
is a set of overlay files under `src/patches/`. Its own control logic is the external
KV cache: a scheduler that asks storage for prefixes it may not wait for, a
filesystem tier shared by sibling processes, and the locks that keep lookups, loads,
stores and evictions apart. Beside it stand the parser that turns the model's output
into tool calls, and the kernels of the sparse attention. These modules model that
logic, TLC checks it on small instances, and TLAPS proves the safety of the storage side
(gate, policy, lookup manager, lease index, the tier's write path, the connector with its
worker down to the contents of blocks and slots, and its prefix lookup) for every value of the constants.

## 1. Inventory

Paths are under `src/patches/` unless they say otherwise.

| Component | State | Operations | Interacts with | Hard behaviour | What makes it correct |
|---|---|---|---|---|---|
| `SharedEvictionGate` (`tiering-fs-bounded-lru.py`) | two advisory file locks, who owns eviction, whether writes are fenced, admitted store jobs | try_begin_eviction, try_fence_writes, try_pin_store, release_store, eviction_active, finish_eviction, close | sibling processes through flock; the tier | siblings run between two flocks of a method; crashes | one owner; deletion and stores exclude each other; no store starts while there is an owner; the owner gets its fence |
| `ShardLeaseIndex` (same file) | reference counts and flocks per shard, leases of requests, checks and jobs, evicting shards, LRU times, cancelled and closed requests | lookup_and_pin, resolve_cached_lookup, cancel_lookup, release_request(_pins), pin_job, release_job, begin_oldest_eviction, finish_eviction, record_*, flush_touches | lookup workers, scheduler, siblings | a check runs without the lock; late results of cancelled requests | leases are neither leaked nor taken away early; no eviction of what is read |
| `ShardEvictionWorker` (same file) | queue, results, outstanding count | submit, get_finished, shutdown | the tier | rename and rmtree fail or are cut short by a crash | every submission is answered once |
| `AsyncLookupManager` (`async_lookup.bounded.py`) | per-key state, request sets, step batch, bounded queue, results | lookup, flush, drain_results, cleanup, invalidate, shutdown; worker loop | scheduler thread and n worker threads | bounded queue, cancellation tokens, answers for deleted states, sentinels in the same queue | an awaited answer always comes; a key is probed once; shutdown ends |
| `FileSystemTierManager` (`tiering-fs-manager.disk-reserve.py`) | pending jobs, reserved bytes, cached free space, eviction ownership, orphaned tombstones | lookup, cancel_lookup, submit_store, submit_load, get_finished_jobs, on_schedule_end, on_request_finished, has_pending_work, shutdown | all of the above, an I/O pool, siblings | failed admissions, stale measurements, crash between rename and delete, idle engines | leases and reservations are given back once; every job is reported; the reserve is kept; stores resume |
| `LookupFailOpenPolicy` (`kv_lookup_fail_open.py`) | deferred lookups with start times, consecutive timeouts, circuit | bypass_reason, circuit_bypass_reason, defer, finish | scheduler | the clock, half-open circuit, re-query after preemption | bounded probes, no leaked slot, fixed deadlines, retry ends |
| `OffloadingConnectorScheduler` (`offloading-scheduler.dspark-prefix.py`) | request status, transfer jobs, blocks being loaded, flush sets | prefix lookup, store jobs, connector output, reset_cache, request_finished | engine, tiers, workers | block reuse while a transfer reads it, results after a reset, multi-group prefix fixpoint | no load of a prefix some group lacks; no block is overwritten under a transfer |
| CPU-GPU worker (`kv_offload_cpu_gpu_worker.load-war.py`) | streams, events, staged copies, transfers in flight | transfer_async, get_finished, wait | GPU streams, host threads | transfers chained by events, host copies after the stream | results in order and only when the copy is done |
| `StreamingParserEngine`, DeepSeek configurations (`streaming-parser-engine...`, `parser-engine-config...`, `parser-deepseek-*`) | parser state, tool index, held opener and name, held white space; the lexer's buffer | feed, finish | `ParserEngine`, tokenizer | markers cut anywhere by the stream; orphaned openers that may be prose | events do not depend on the cuts; a false alarm leaves no trace |
| `ParserEngine` (`parser-engine...`), `coerce_to_schema_type` (`tool-parser-utils...`) | tool slots, what was streamed of each, deferred content | parse_delta, finish_streaming | API server, client | a value's type may still change after its prefix was sent; content and calls in one delta | what the client puts together is what parsing the whole response gives |
| Structural tags, option flags, source transformers | none | pure functions, checked text edits | build, kernels | boundaries | constraints kept |
| Paged indexer logits (`aiter_pa_mqa_logits.i64.py`) | a pipeline per program: two table entries, half a chunk of K | the preshuffle kernel and its variable-context form | launcher, KV pool, top-k | shares that begin anywhere, pipeline rotation, 64-bit offsets | every logit top-k reads comes from the right token |
| Sparse attention (`rocm_aiter_mla_sparse.prefill-bh64.py`) | ragged index buffer, partial softmaxes | pack, prefill, whole and split decode, reduce | the GPU's stream | empty slices, uninitialised partials, rows side by side | every valid key counts once, at its weight |
| Other kernels, speculator | tensors | numerical code | GPU | values | out of reach here |

How they meet: on every scheduling opportunity the scheduler asks the policy whether a
waiting request may look external KV up, then the tier, whose lookup manager answers
from its per-key states or queues a check. Workers check files under shard leases. A
complete answer becomes a load job, which takes the leases over from the request. At
the end of a step the manager's batch is flushed, finished evictions are collected, and
an eviction may be scheduled through the gate. Siblings meet only in the locks and the
directory. Inside one engine the scheduler's jobs travel in the step's metadata to the
worker, whose copies run beside the forward pass, and come back as completions one or
more steps later; vLLM's block pool meanwhile gives blocks to other requests. The
parser, its deltas and the kernels each run to their end on one thread or one stream and
share nothing with the rest.

## 2. Modules

| Module | What it is | Status |
|---|---|---|
| `WriteFence` | abstract: what the gate promises its users | done |
| `EvictionGate` | the gate, one step per flock, with crashes | done, implements `WriteFence` |
| `EvictionGateProofs` | invariants and refinement, proved | done |
| `SumLemmas` | what a sum over a finite set of numbers is, for counts of units and of leases | done |
| `LookupFailOpen` | policy and the scheduler's routing around it | done |
| `LookupFailOpenProofs` | its safety, proved | done |
| `Requests` | the constant two modules share | done |
| `AsyncLookup` | the lookup manager and its worker threads | done |
| `ShardLeases` | the lease index, its methods as actions | done except what section 7 lists |
| `FsLookup` | `AsyncLookup` + `ShardLeases` + loads, evictions and a sibling: the tier's read path | done |
| `FsLookupProofs` | the lookup manager's safety, proved by itself and inside the tier; leases, loads and the fence | done |
| `FsTier` | on `WriteFence`: the tier's write path, reserve, evictions, tombstones, restarts | done except shutdown |
| `FsTierProofs` | its safety, proved | done |
| `OffloadScheduler` | load and store jobs, flushes, connector output, finish, reset, with vLLM's block pool and cache manager as the external part | done for one chunk per block |
| `TransferHandler` | the CPU-GPU worker: staging, ordered copies, collection, wait | done except what section 7 lists |
| `Offload` | `OffloadScheduler` + `TransferHandler` + the forward pass: one engine | done |
| `OffloadProofs` | the connector's books, where each transfer job is, and the block tables, proved | done |
| `ContentProofs` | what is in slots, staging buffers and blocks, proved | done |
| `PrefixLookup` | the multi-group lookup as a loop, and the chunks stores skip for it | done |
| `PrefixLookupProofs` | it finds the longest prefix and what was stored, proved | done |
| `DsmlFormat` | the transition tables of DeepSeek V4, V4 thinking and V3.2 | done |
| `StreamingParser` | the parser engine over any cut of a stream, beside two reference engines | done but for JSON arguments and message headers |
| `ToolCallDeltas` | from semantic events to messages, and what a client makes of them | done except what section 7 lists |
| `PagedMqaLogits` | the logits kernel's programs and pipelines, K by its address | done for the gfx9 path |
| `SparseAttention` | packing, prefill and decode with a symbolic softmax | done |
| `MCFsLookup`, `MCFsTier`, `MCOffload` | values of function constants for TLC | |
| `MCSequential` | instances of the five single-threaded modules, one at a time | |

`map` in `PROJECT.json` names the source lines of every definition. The main
correspondences:

- **EvictionGate.** `intentEx`, `intentSh`, `writeEx`, `writeSh` are the kernel's record
  of the two lock files; `owns`, `fenced`, `leaseHeld`, `storeJobs`, `closed` are the
  gate's fields. A method runs under the gate's RLock, so a process has one program
  counter; each flock call is a step, because siblings run between two of them. `Exit`
  is a crash at any point; the kernel releases what the process held.
- **LookupFailOpen.** `deferred` and `age` are `_deferred` relative to the clock; `timeouts`,
  `tripped`, `openLeft` the circuit; `started`, `bypassed` the two fields of the
  request's status. `lately` is a history variable that no action reads: how the last lookups that
  count ended. `Ask` is one whole call of `get_num_new_matched_tokens`; the lookup
  in it may take up to `MaxDelay` ticks, so that it can use up the budget by itself.
- **AsyncLookup.** `result`, `askers` are the key states (`drain_results` publishes to
  them); `batch`, `flushing`, `queue` where the items are; `work` the
  threads. An item is live while its state's cancellation token is set: `Cancel` clears
  it wherever the item is. `flush()` deals the batch out round-robin: the n-th item's `Turn` is
  its round and its request's place, and a chunk is the set of the items of one turn. `Flush`,
  then `PutChunk` or `DropChunk` per chunk in the order of the turns, are the steps of the call;
  workers run between two of them. An answer is the set of keys asked and the hits among them.
- **ShardLeases / FsLookup.** `count` is `_shared_lock_counts` (positive: the process has
  LOCK_SH), `evicting` the exclusive flocks, `pinned`, `pending`, `jobShards` the three kinds of holders.
  `lookup_and_pin` is four steps: check leases under the lock (`StartCheck`), file probes
  without it (`Exists`), check leases dropped (`DropCheckLeases`), hits leased
  (`LeaseHits`). The last two are in one critical section of this process, and two
  steps for a sibling.
- **FsTier.** One action per part of a tier call: `OnScheduleEnd`, `StartSubmitStore`
  and `StartGetFinished` contain `_drain_evictions` and `_maybe_schedule_eviction`
  (`EvictionPass`, one disjunct per way it returns); `AdmitStore`, `BypassStore`, `RejectStore` and
  `GetFinished` are the rest of the calls. The pool (`Write`, `WriteFails`), the
  eviction worker (`RenameShard`, `DeleteTree`, `DeleteFails`), requests (`Hit`,
  `Unlease`) and `Restart` interleave with them.
- **OffloadScheduler / Offload.** An engine step is a sequence of phases: scheduling (vLLM's
  free choice: `ScheduleWaiting`, `ScheduleLoad`, `ScheduleRunning`, `Preempt`, `Abort`),
  `StartMeta` (`_update_req_states`), one of `StoreNothing`, `StoreRefused`, `StoreChunks` per
  request (`_build_store_jobs`), `EndMeta`, then on the worker `SubmitStores`, `Forward`,
  `Collect`, and back `GiveOutput` and `RequestOutput`. The GPU's copies (`StoreCopied`,
  `LoadCopied`) happen at any time. A block or slot holds `Data(key, tokens)`: the first tokens
  of a chunk. `watch` is `_block_id_to_pending_jobs`, `flush` `_current_batch_jobs_to_flush`.
- **PrefixLookup.** `look` is the local state of one `_lookup`: `max`, `todo` (the groups of the
  pass), `again`, `popped` (`eagle_verified`); `LookUpGroup` is one round of its inner
  loop, `NextPass` of the outer one. `Before` is the order of `_lookup_groups`. `StoreUpTo` is what a step's stores cover.
- **StreamingParser.** The engine is a record and each method an operator from engine to
  engine, so that three engines can read the same stream: `engine` in the server's deltas,
  `stepped` unit by unit, `plain` with no declared tools. A unit is a piece of text no
  literal divides, or a special token.
- **ToolCallDeltas.** `Queue` collects what the engine emits in one delta and `ParseDelta` is
  `_events_to_delta` over it, for a delta in the middle and for the last one; `FinishStreaming` is the
  other end of a stream, `Endings` what the engine's `finish()` adds in both. `Parse` is `parse()` as an operator over
  the whole response, `heard`. JSON and DSML are sequences of tokens, `client` what an OpenAI client has concatenated.
- **PagedMqaLogits.** A program's record is its pipeline's registers (`b0`, `b1` the table
  entries in hand, `half` the loaded half chunk); `PagedStart`/`PagedIterate`/`PagedTail` are
  prologue, loop and epilogue where a block holds several half chunks, `Staged...` where a
  half chunk holds whole blocks. A logit is the pair of addresses its K and scale came from,
  modulo the width of the address.
- **SparseAttention.** One action per program of a kernel; `NextKernel` is the stream's order.
  A softmax sum is the sequence of its terms with their exponents.

## 3. Runs

| Run | Bounds | What it checks |
|---|---|---|
| `gate` | 3 processes, 2 jobs | the inductive invariant, deletion/store exclusion, one owner, no admission under an owner, `WriteFence` refinement, and that an owner which stays gets its fence |
| `failopen` | 3 requests, 2 slots, threshold 2, budget 2, circuit 2, delays up to 3 | probe bound, slots never leaked, circuit tripped exactly when the last lookups that count were all late and open for its time, deadlines never restart, retries end on storage that never answers |
| `async` | 1 key, 2 requests, 2 workers, queue of 2 one-key chunks | awaited answers are covered, one live item per key, waits end, shutdown ends |
| `fs_shared` | 2 keys in one shard, 1 request, 1 worker, 1 load, a sibling; queue of 1 | leases not leaked, late results fenced off, own loads safe from own evictions |
| `fs_pin_race` | 1 key, a sibling | **violation**: see finding 1 |
| `fs_check_evicted` | 2 keys in one shard | **violation**: see finding 2 |
| `tier` | 2 processes with a store each, 1 shard, volume of 4 units, reserve 1, trigger 2, target 3, one tombstone name | deletion excludes writes in every process, ownership, exact reservations, stores reported at most once and eventually, stores resume at the target |
| `tier_reserve` | the same, 3 units, target 2 | **violation**: see finding 3 |
| `tier_idle_owner` | as `tier`, 3 units | **violation**: see finding 4 |
| `offload` | 2 requests, 5 blocks, 4 slots, chunks of 2 tokens, prompts of 1 and of 3, up to 5 tokens, any of them the last, 3 jobs, a preemption, a reset while nothing runs | what the cache offers is right and whole, but for the last token of a chunk at whose end a request stopped; running requests read the right KV; completions find what they remove; an idle engine leaves nothing pending |
| `offload_reset` | 7 tokens, 4 jobs, the reset while requests hold blocks | **violation**: see finding 5 |
| `sequential` | see below | cuts do not matter, false alarms leave no trace, streamed calls are whole, the lookup is the longest prefix, logits and keys are right |

`sequential` runs five components that share nothing, one per behaviour:

- parser: every stream of deltas of one or two units (20 units: text, every DSML literal in its
  own piece, special tokens) with at most 2 calls and 1 held unit of padding, for 5 requests
  (three formats, token ids or text, skipped and suppressed tools) and two declared names of
  which one is a prefix of the other. The state is finite because emitted output is compared and
  dropped in each step: streams are not bounded in length.
- deltas: responses of up to 10 events with 2 calls and 2 units of content, in deltas of up to 3 events,
  none included; finished by a last delta or by `finish_streaming`, between calls, in a name or in a
  parameter; calls without a name (2 argument tokens at most), repeated parameters, and tags that agree with
  the schema, contradict it, or name a parameter it does not know.
- lookup: a text of 5 tokens, three layouts (windows narrower than a chunk of full attention;
  an excluded eagle group; an eagle group that is looked up), every order of stores, every subset
  evicted, one answer that is not final.
- logits: chunks of 4, blocks of 1, 2, 4 and 8, contexts up to 11, 1 to 3 queries, 1 to 3 shares,
  even and variable; one or two rows; block numbers beyond 5-bit offsets in an 8-bit space.
- decode: prefill, whole and split kernels with 1 to 4 splits, one or two queries, rows of four
  with holes and slots out of range, lengths 0 to 5, a sink that is absent, below or above all scores.

Why the bounds are enough for what the runs claim: conflicts in the gate are between
pairs (an owner and a store, two owners), and the third process is the bystander
that shows nobody else slips in. Three requests over two slots include refusal, a slot
passing on, and a circuit opened by two different requests. Two requests on one key give
sharing, cancellation of the one that queued the batch, and a re-created state beside an
old answer; two one-key slots in the queue give full and partly drained queues. One shard with
two keys is where counts matter (two checks and a lease of one shard by one request). In
`tier` a volume of four units makes every pass outcome occur: refusal for space,
waiting for a sibling's store, orphan first, nothing idle, target reached.
`MaxDelay`, `Tombs` and `Capacity` are bounds of the models and not of the code, and so is the cap of the count of
timeouts at the threshold (`AtMost`): the code's counter goes on, but is only compared with the threshold and set to 0.
No property is about the cap.
In `offload` five blocks for two requests of up to three blocks a group make block reuse in the
step of a store, in the step after, and under a preemption happen; four slots for up to four
keys make eviction happen; three jobs let a store, a load and a second store overlap. With prompts of
one token and of three, requests stop at every length from 2 to 5, the ends of both chunks included, and the longer
prompt loads the chunk at whose end the other request stopped.
The pipelines of `PagedMqaLogits` repeat after two chunks, and a share of three chunks shows prologue, a
full iteration and epilogue at each position in a block.
`CHECK_DEADLOCK FALSE` stands in the runs whose system may stop: all requests finished,
the manager shut down, all stores over, the bound on jobs reached, the stream at its end.

Every property of a passing run has a mutant of the code under which TLC refutes it
(`mutants` in `PROJECT.json`, operators marked "mutant" in the modules).

## 4. Fairness

- `EvictionGate!Fairness`: a method in progress returns (no lock in it blocks), an admitted store is
  released (the pool finishes or fails it), and the owner retries the fence, which
  `_maybe_schedule_eviction` does on each engine step. Nobody has to crash, close, or begin.
  The retry is an assumption about stepping engines; `FsTier` drops it and shows what is left.
- `LookupFailOpen!FairSpec`: time passes, transfers end, and the engine asks about each waiting
  request again and again. Nothing is assumed of storage.
- `AsyncLookup!AsyncFairness`: the scheduler flushes and asks again; threads run; `shutdown`'s puts go
  on while there is room.
- `FsTier!TierFairness`: threads run, a call that began returns, and an engine steps **while
  `has_pending_work`** (`has_pending_push_work` in the scheduler) and need not step otherwise.
- `Offload` and the sequential modules state no liveness; what must not be left undone is an
  invariant about the states in which the engine may stop (`NothingLeftBehind`).

## 5. Proofs

Every proof below is for all values of the constants, under the assumptions the modules name.
The sets of processes, requests, jobs, keys, shards and threads are any sets, finite where something is
counted over them. The bounds of the models (`Capacity`, `MaxDelay`, `MaxJobs`, ...) are any numbers.

| Module | Assumed of the constants | Inductive invariant | Theorems |
|---|---|---|---|
| `EvictionGateProofs` | `NoProc` is no process | `IInv` | `FenceExcludesStores`, `SoleOwner`, `OwnedMeansDraining`, `WriteFence` is implemented |
| `LookupFailOpenProofs` | finite requests, thresholds the constructor accepts | `Inv` | probe bound, slots, circuit; `DeadlineFixed`, `OpenMeansNoProbe` |
| `FsTierProofs` | `MinFree <= Trigger <= Target`, finite shards and tombstones | `TierIInv` | `TierTypeOK`, `NoDeletionUnderWrites`, `ActiveIsOwner`, `ReservationExact`, `ReportedAtMostOnce` |
| `FsLookupProofs`, of `AsyncSpec` | finite, nonempty set of workers, positive limits | `AsyncIInv` | `AsyncTypeOK`, `WaitIsCovered`, `OneLiveItem` |
| `FsLookupProofs`, of `FsSpec` | the same, finite keys, requests and jobs, the process's own requests | `FsIInv` | `FsTypeOK`, `WaitIsCovered`, `LeasesNotLeaked`, `OwnLoadsAreSafe`, `FenceHolds` |
| `OffloadProofs` | positive sizes and prompts | `Books`, `Travel`, `Kinds`, `TablesRight` | `NothingLeftBehind`, `CompletionsResolve`; every job is on its way in one place (`TravelHolds`); no block is in two places (`TablesHold`) |
| `ContentProofs` | the same; for the contents also `ResetActive = FALSE` | with these `SlotsRight`, `FlushRight`, `Contents` | `ReadyIsRight`, `BlocksAreRight`, `StoresReadOwnBlocks`; copies into a slot come in order (`SlotsHold`) |
| `PrefixLookupProofs` | layouts list groups with positive chunks, "retry" and "pending" are neither hit nor miss | `LookupInv`, `StoredInv` | `LookupFindsWhatWasStored` |

**Gate.** `IInv` says that the gate's fields agree with the kernel's
locks (`LocksMatchFields`), that locks exclude (`LocksExclude`), that a store job
has the lease (`JobsHoldLease`) and that a fence has an owner (`FenceNeedsOwner`).
`FenceExcludesStores` alone is not inductive: it needs that the fence is the exclusive
write lock and that a store is covered by the shared one. Each method keeps `IInv`
(`MethodKeepsIInv`, one step per action). From it follow `FenceExcludesStores`,
`SoleOwner`, the action property `OwnedMeansDraining` (a store is admitted only by a
process that holds the shared intent lock, which excludes an owner), and the refinement
`GateImplementsFence`: initial states map to `FenceInit`, each step to a step of
`WriteFence` or a stutter.

**Policy.** `Inv` joins the types, `ProbesBounded`, `SlotsAreLive` and
`OpenHasCause` with the facts that only deferred requests have an age, that the
circuit has time left only when tripped, and that the count is the number of late lookups since the last healthy
one that counts (`CountIsRun`), without which a step that trips the circuit says nothing of the
steps before it. A healthy answer at the first query while the circuit is closed does not count: `resolve()`
leaves the count alone (:91), so timeouts that trip the circuit need not be adjacent, and `OpenHasCause` does not claim it. `AskKeepsInv` treats the ways out of a
query one by one; `DeferKeepsInv` is the one case that takes a slot, and uses the policy's own bound.
`DeadlineFixed` and `OpenMeansNoProbe` are proved from `Inv` for each step.

**Sums.** Free space is what the volume holds less a sum over shards and tombstones, and a
count of leases is a sum over requests and jobs. The community modules define a sum by a recursive function
that takes out a chosen element at a time, so what one changed summand does to it needs an
induction over the finite set. The library's induction theorem takes an operator and cannot be
used; `SumLemmas` argues instead by a smallest counterexample (`SmallestSet`: the strict subset order on a
finite set is well-founded). `SumUnique` and `SumExists` make the choice well defined, `SumRemove`
says that the order in which elements are taken out does not matter, and `SumUpdate` that changing
one summand changes the sum by the difference. The two proofs below cite only the last ones.

**Write path.** `NoDeletionUnderWrites` does not survive a step alone: that a worker renames or
deletes only while no store is admitted needs to know that an item in the worker's hands was submitted under a
fence which is still raised (`DeletesUnderFence`), that the fence is raised by an owner, with
every process's stores out (`FenceIsTight`), that no process holds a lease on the shard of an item
(`RetiredIsFree`) and that an item names what it deletes (`ItemIsNamed`). `ReservationExact` counts
admitted stores, which are finitely many (`FewStores`).
That free space is never negative is what makes `TierTypeOK` inductive, and uses the sums.
A pass ends in seven ways; `PassKeepsType`, `PassKeepsGate` and `PassKeepsJobs` treat them once for the three calls
that contain one. `Restart` is a step like any other: after a crash the locks are gone, and the scan
re-creates `orphans`.

**Lookup manager.** A live item of a key may be in the batch, in a chunk that flush has not put, in the queue, or at a worker.
`WaitIsCovered` and `OneLiveItem` are inductive only together and with the types: a worker that
publishes covers the wait because its item was live, and a drained answer is the only one because
there was one live item. The proof reads the invariant key by key (`KeyInv`) and its four kinds of
places separately (`PlacesAre`), so a step that moves one chunk is a statement about two places.
The lemmas are stated for any set of worker stages that contains the
manager's own (`Typed(stages)`): `FsLookup` adds stages and inherits each lemma.

**Read path.** `FsIInv` adds to the manager's invariant that leases balance (`LeasesNotLeaked`: the
count of a shard is at most the number of its holders) and `JobsInv`. That a hand-over neither makes nor loses a lease
needs that a load that was not yet submitted holds no shard. `OwnLoadsAreSafe` does not rest on the counts: an
eviction begins only on a shard that no holder of its process names, and a job takes over only shards its process
does not evict. `FenceHolds` is the action property that no step
leases a shard to a request that is fenced; only two methods lease (`WhoPins`), and each looks at the
fence itself, under the index's lock, in the step in which it leases.

**Connector.** `Books` says what the scheduler of the connector must know of requests, jobs and watched blocks:
every active request is tracked, every job's request is; a request that is over is still
known only if it will be signalled or has jobs left; the watched pairs are exactly those
the completions will remove (`WatchIsExact`); a chunk marked as being loaded has its load job. What is to be
watched for a job changes with its request's end, so exactness is what keeps `_remove_pending_job` from
removing a pair that is not there and from leaving one behind. `NothingLeftBehind` is then immediate:
an engine that stops has no jobs and nobody to signal.

**Jobs on their way.** `_jobs[job_id]` and `_remove_pending_job` raise `KeyError` for a job that is not there, so a completion
must name a job that nobody removed before. `Travel` follows each job from the step that makes it to its output: it waits
for the metadata or is in it (`ToLoad`, `ToSave`), is deferred by the worker, is a transfer of one direction, or
is collected. Each place is empty outside the part of the engine's step that fills and empties it
(`InPhase`); what is in a place has a number given out before and, since the last reset,
is the connector's job of that number, and each of the connector's jobs is in some place (`Numbered`); no number is in two
places or twice in one (`OneWay`). A submission puts a set of jobs in the order of
their numbers, which `RanksAre` shows to be an enumeration without repetition (a job's place is
the number of jobs before it); a collection cuts off the transfers before the first that is not
done (`PrefixIs`), and a queue cut in two loses and repeats nothing (`QueueCut`). With `Books` this gives
`CompletionsResolve`: a completion that is not from before a reset finds the very job the worker did, with
its blocks watched.

**What is in the blocks.** `ReadyIsRight` (a chunk the cache offers is its own and computed) and `BlocksAreRight`
(a running request reads its own tokens) are statements about contents, and a wrong content needs a long story: a block
freed while a store has still to read it, given to another request and written, its copy
landing in a slot that was evicted and given away. The invariant is built in layers, each a theorem
of its own which the next ones use:

1. `Kinds`: what is under way in one direction is a job of that direction.
2. `TablesRight`: no block is in two places of the tables (`Exclusive`); a running request's table covers exactly
   the tokens scheduled, and the connector's copy is no longer than it; a request that loads has one load, which fills
   every block of its table and no other. `Allocation` takes the lowest free blocks; `Lowest` is therefore
   a function of ranks, about which `LowestAre` can be proved, and not a sorted sequence.
3. `SlotsRight`: stores into the same slot are copied to it in the order they were made (`SlotOrder`), a store that
   may still count owns its chunks' slots (`Owning`), and no copy is still to come into
   the slot of a chunk that is ready or is about to be (`Clear`). This holds through `reset_cache` at any time: a copy from before a reset
   may land in a slot that was given away, and the proof shows that its new owner's copy comes after it, because
   host copies are made in the order of the transfers.
4. `FlushRight`: which jobs the worker waits for before the forward pass, and which it puts off.
5. `Contents`. The blocks of a running request hold its text (`Texts`). What is copied is whole, in staging buffers, slots and blocks
   (`Copied`). A store that has not read its block yet finds the whole chunk there (`Claims`): either the block is its
   running request's, full by the time it is read (`Owned`), or it was given up full (`Left`), and then
   it is watched, and whoever takes it waits for the store in the step in which it takes it. And what
   the connector's copies of the tables offer for storing is like that too (`Offers`), so that a new store claims only
   such blocks. `Offers` is what makes `Claims` inductive, and is the part that fails after finding 5.
   "Whole" allows for the chunks that a request cut by stopping at their end (section 6): `Chunk(cuts, k)` is what the place of a
   chunk may hold, with or without the last token if it is in `cuts`. The layers are proved for any fixed set of `cuts`
   that contains the chunks cut so far and those the step cuts (`OwnedAtStop`); as `Cuts` only grows (`CutsStay`, `MoreCuts`),
   the invariant is `ContentsRight`: `Contents` for the present `Cuts`. A chunk at whose end no request stopped is whole wherever it is.

`StepKeepsContents` has one step per action, each a lemma of its own (`GivenContents`, `StoreCopyContents`,
`ForwardContents`, `ResetContents`, ...). The order of an engine step matters in it: `StartMeta`
decides what is flushed before the forward pass writes, and a put-off store is submitted after it, in the next step.

`Contents` is proved for `ResetActive = FALSE`, under which `reset_cache` comes only while no request has blocks. The code has
no such condition; finding 5 is the trace that shows the theorem false without it. So the theorem and the violation together
say that this reset is the only way in which the contents go wrong in the model. The layers below `Contents`
are proved for every reset.

**Prefix lookup.** The loop of `_lookup` lowers one bound group by group, takes some groups up again and others not, and
must end at the longest prefix that every group serves. `Right` is its loop invariant: a group that comes neither
in this pass nor in the next one serves the bound as it is (or an answer is not final); if no window was looked up in this pass
yet, all of them are still to come, and if a next pass is due it has all of them; and no prefix that every group serves is longer than the bound. A
full-attention group need not be asked again when the bound drops, because it serves every shorter prefix of what it
serves (`ServedLess`); a window need, because it serves other chunks. `TightenKeeps` is one turn of the loop. What one
group confirms is `GroupFound`: of `MaximalPrefix` and `SlidingWindow` it needs only that what they count is held
and that nothing longer is (`PrefixIs`, `WindowIs`), and no induction, since both are stated by
their first miss or last run. Minima and maxima come from the well-foundedness of the naturals (`Least`, `Greatest`),
the order of groups from ranks (`RankIs`). With eagle groups, which drop a confirmed
chunk, the theorem says that what is reported is held, and not that it is longest.
`StoredInv` says which chunks are held while nothing was evicted: all, or those at the end of their segment, the whole one even
when they were stored as part of a shorter one (`StoreCovers`). A prefix of whole segments needs only these (`WholeSegmentsLoad`), so the
longest prefix is no shorter. That a segment is a whole number of chunks is a premise of the property: without it the theorem is false
(section 6).

Only model-checked, and why:

- Liveness (`OwnerGetsFence`, `RetryEnds`, `WaitEnds`, `ShutdownEnds`, `JobsReported`, `StoresResume`): the
  prover has no rule for fairness and ENABLED.
- The other five properties of `sequential`: what a recursive definition (an engine run over a stream, a
  pipeline over its chunks) computes for every input is an induction over data.

The inductive invariants were checked by TLC on the instances of the runs before they were proved.

## 6. Findings

1. **A positive lookup may have no lease** (`fs_pin_race`). `lookup_and_pin` drops the
   check's flock before it takes the request's, ignores whether it got it, and reports
   a hit. A sibling may take the exclusive lock in between. The comment at the caller
   says this race is closed.
2. **A check can lose its lease** (`fs_check_evicted`). `resolve_cached_lookup` drops one
   pending check of the shard, which may be another key's check still in progress.
3. **Two processes store into the reserve** (`tier_reserve`). Each counts only its own
   admitted stores. With the deployed thresholds the trigger is 512 GiB above the
   reserve, so it takes that much in flight.
4. **An idle owner blocks its siblings' stores** (`tier_idle_owner`). An owner waiting for
   the fence has no pending work; when its engine goes idle nobody retries.

5. **After `reset_cache` a running request stores from blocks it no longer has** (`offload_reset`).
   The reset makes active requests store again from chunk 0, but the connector's block table of a
   sliding-window group still names blocks that were freed since; only entries from the
   store index on are zeroed when a block is reused.

A sixth disagreement is in the model of `offload` and in what its properties say, and needs no run of its own:
**a finished request stores a chunk whose last token was never computed.** `_build_store_jobs` counts `num_tokens`
for a request that is over (scheduler, :1212-1213), and the KV of the last sampled token does not exist. When a request
stops at the end of a chunk, its last store covers that chunk; the cache offers it, and a request with the same
text loads it and reads a position nobody wrote. `RequestOutput` stops a request at any length, so that this
happens in the run; `ReadyIsRight` and `BlocksAreRight` say that it is the only way in which contents are
wrong: a chunk that no request stopped at the end of is whole, and of one that is cut only the last token is missing.

Observed while modelling and not checked:

- README line 39 says that one request at a time may probe metadata while `compose.yaml`
  sets `max_concurrent_lookups` to 4 (the model has it as a constant).
- A failed rmtree leaves a tombstone nobody deletes before a restart (so in `FsTier`); a process
  knows only shards it scanned, stored to or hit, so an owner may report that "every shard is
  leased" while idle shards made by a sibling remain (`NothingIdle` with shards outside `tracked`).
- A second `reset_cache` before the next step meets `assert not _current_batch_jobs_to_flush`
  when the first left jobs to flush.
- `_events_to_delta` defers text that follows a tool event of its delta (:746), and asks once, at :776, whether to send it.
  `parse()` and `parse_delta(finished=True)` therefore drop text behind a call of their last delta, and `finish_streaming` does
  when it has to end a call; between calls it sends it, as does any other delta. Text deferred from one delta is
  overtaken by the text of a next delta that again carries a call. All of this is in `ToolCallDeltas`: `ContentIsKept` says what
  is kept (every unit is with the client or deferred, in order unless text stands between two calls; the
  client has at least what `parse` gives), and is false if it says more.
- A repeated parameter name, which overrides a value already sent, and a call cut in a parameter leave the client with a prefix
  that is not completed. Both are in `ToolCallDeltas`; `CallsAreWhole` claims nothing of the first (`NamesOnce`), and of the second that
  the prefix is one of the call with that parameter closed. A string parameter named as a wrapper ("arguments", "input"),
  which `_unwrap_wrapper_args` opens after its prefix was streamed, and a number such as `15e-1` under a string
  schema do the same and are not modelled.
- White space between recovered invokes depends on the cuts (so `CutsDoNotMatter` ignores it);
  finish reports the end of a call once more when it stops between calls.
- With three or more queries a row the kernel writes logits beyond a row's causal limit, inside
  its context; harmless while top-k bounds each row itself (`Observed`).
- The variable-context kernel widens the offsets of its small-block pipeline only (`Wide`); the launcher
  here does not ask for that kernel. An empty row in the middle of the batch ends its walk.
- `from_spec`'s "hits are always aligned" is not exact when an eagle group is looked up; the
  cost is lost reuse.
- `_alignment_chunk_count` rounds down: were a window's chunk no divisor of the full-attention chunk, stores would
  leave out chunks that a lookup needs (chunks of 2 under 5: chunk 2 of 8 tokens). vLLM chooses the sizes; the cost is lost reuse.
- A count of non-negative indices is taken as a row's length when no lengths are given, which
  drops entries after a hole.

## 7. Not modelled

- In `ShardLeaseIndex`: `open_request` for a reused id, LRU order and persisted touches, the bound of the
  closed-request fence. In the tier: shutdown, a store whose enqueue raises, KV
  events, statistics.
- In the offloading scheduler: several blocks per chunk, GPU prefix hits, Mamba alignment,
  per-request policies, KV events; in `Offload` also the draft group (it is in
  `PrefixLookup`) and more than one worker. The requests of `Offload` share one text. vLLM's
  scheduler, block pool (lowest free block first) and cache manager (may refuse any store, evicts
  any chunk that is ready and not pinned) are external.
- In the worker: shutdown, buffer growth, the choice of the copy function, transfers of parts of
  a chunk.
- In the parsers: JSON argument buffering and message headers (no DeepSeek format uses them),
  reasoning parts of a delta, wrapper parameters, malformed arguments, the other JSON types, structural tags.
- Preemption of Python threads inside a critical section of their lock: the lock
  makes those sections steps. Sibling-visible steps inside them are split.
- Bytes and paths: keys, shards and units stand for them.
- In the kernels: the multiplications, quantisation, layouts, the barriers of the schedule, the
  gfx1250 branches, the kernel for caches that are not preshuffled. The expert, quantisation and
  metadata kernels and the speculator are numerical tensor code whose correctness is in
  values a model checker does not reach.
- Source transformers and option flags: text edits counted at build time, and a table.
- Deployment files, diffs, tuning tables: configuration and data. Tests are read as
  statements of intent.

## 8. Plan

What is left, in this order:

1. Proofs: `LogitsAreRight` for the part of a pipeline that needs no induction; `Contents` for a reset at any time,
   once `reset_cache` clears the connector's block tables.
2. `ShardLeases`: touches and eviction order; `FsTier`: shutdown.
3. `OffloadScheduler`: several blocks per chunk, GPU prefix hits.
