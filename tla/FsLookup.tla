-------------------------------- MODULE FsLookup --------------------------------
(***************************************************************************)
(* The read path of FileSystemTierManager                                  *)
(* (patches/tiering-fs-manager.disk-reserve.py): the lookup manager of one *)
(* process, Me, whose workers probe the cache directory under shard        *)
(* leases; the scheduler, which turns answers into hits, hits into load    *)
(* jobs, and ends lookups; and evictions, by Me or by a sibling process    *)
(* that shares the directory.                                              *)
(*                                                                         *)
(* The index's lock orders the lease operations of one process.  It does   *)
(* not order those of two: a worker between the two halves of              *)
(* lookup_and_pin's last critical section ("pinning") stops Me's other     *)
(* lease operations, and no sibling's.                                     *)
(***************************************************************************)
EXTENDS AsyncLookup, ShardLeases, Functions

CONSTANTS
  Me,        \* the process whose read path this is
  ShardOf    \* the shard of each key's file

\* Keys are hashes of a fixed length.
ASSUME OwnRequests == /\ Me \in Procs /\ ShardOf \in [Keys -> Shards]
                      /\ IsFiniteSet(Keys)
                      /\ \A x \in Reqs \cup Jobs : ProcOf[x] = Me

VARIABLES
  onDisk,     \* the keys whose files are in the live namespace
  eligible,   \* per worker: the keys its check leased
  reported,   \* per request: the keys lookup() last called a HIT
  loads       \* per load job: its keys and how far it is

fsVars == <<asyncVars, leaseVars, onDisk, eligible, reported, loads>>

NewLoad == [stage |-> "new", keys |-> {}]

FsInit ==
  /\ AsyncInit /\ LeaseInit
  /\ onDisk \in SUBSET Keys
  /\ eligible = [w \in Workers |-> {}]
  /\ reported = [r \in Reqs |-> {}]
  /\ loads = [j \in Jobs |-> NewLoad]

ShardsOf(ks) == {ShardOf[k] : k \in ks}
PerShard(ks) == [s \in Shards |-> Cardinality({k \in ks : ShardOf[k] = s})]
LockFree == \A w \in Workers : work[w].stage # "pinning"
Open(r) == r \notin closedReqs

-------------------------------------------------------------------------------
\* The scheduler thread.

\* FileSystemTierManager.lookup
TierLookup(r, k) ==
  /\ Open(r) /\ LockFree
  /\ Lookup(r, k)
  /\ \/ /\ result'[k] = "wait"
        /\ reported' = [reported EXCEPT ![r] = @ \ {k}]
        /\ UNCHANGED leaseVars
     \/ /\ result'[k] # "wait"
        /\ reported' = [reported EXCEPT ![r] =
             IF ResolvesToHit(r, ShardOf[k], result'[k] = "hit")
               THEN @ \cup {k} ELSE @ \ {k}]
        /\ ResolveCachedLookup(r, ShardOf[k], result'[k] = "hit")
  /\ UNCHANGED <<onDisk, eligible, loads>>

ScheduleEnd ==
  /\ Flush \/ PutOrDrop
  /\ UNCHANGED <<leaseVars, onDisk, eligible, reported, loads>>

\* cancel_lookup of the tier.  The scheduler keeps the pins when the lookup
\* ended with hits, and drops them when it found none or gave up waiting.
StopLookup(r, keepPins) ==
  /\ Open(r) /\ LockFree
  /\ keepPins => reported[r] # {} /\ \A k \in Keys : r \in askers[k] => result[k] # "wait"
  /\ Cleanup(r) /\ CancelLookup(r, ~keepPins)
  /\ UNCHANGED <<onDisk, eligible, reported, loads>>

\* on_request_finished
FinishRequest(r) ==
  /\ Open(r) /\ LockFree
  /\ Cleanup(r) /\ ReleaseRequest(r)
  /\ reported' = [reported EXCEPT ![r] = {}]
  /\ UNCHANGED <<onDisk, eligible, loads>>

\* submit_load
SubmitLoad(r, j, ks) ==
  /\ Open(r) /\ LockFree /\ SchedulerFree /\ loads[j] = NewLoad
  /\ ks # {} /\ ks \subseteq reported[r]
  /\ \/ /\ HandOver(r, j, ShardsOf(ks))
        /\ loads' = [loads EXCEPT ![j] = [stage |-> "queued", keys |-> ks]]
        /\ UNCHANGED asyncVars
     \/ /\ RefuseJob(r, j, ShardsOf(ks))
        /\ loads' = [loads EXCEPT ![j] = [stage |-> "over", keys |-> ks]]
        /\ Invalidate(ks)
  /\ UNCHANGED <<onDisk, eligible, reported>>

\* get_finished_jobs for one load
ReapLoad(j) ==
  /\ LockFree /\ SchedulerFree /\ loads[j].stage \in {"good", "bad"}
  /\ ReleaseJob(j)
  /\ loads' = [loads EXCEPT ![j].stage = "over"]
  /\ IF loads[j].stage = "bad" THEN Invalidate(loads[j].keys) ELSE UNCHANGED asyncVars
  /\ UNCHANGED <<onDisk, eligible, reported>>

-------------------------------------------------------------------------------
\* Lookup workers: batch_lookup is lookup_and_pin of the batch's keys.
BatchKeys(w) == KeysOf(work[w].items)
Requester(w) == (CHOOSE i \in work[w].items : TRUE).req

WorkerOther(w) ==
  /\ Take(w) \/ Publish(w)
  /\ UNCHANGED <<leaseVars, onDisk, eligible, reported, loads>>

StartCheck(w) ==
  /\ LockFree /\ work[w].stage = "probing"
  /\ IF Fenced(Requester(w))
       THEN Probed(w, {}) /\ UNCHANGED <<leaseVars, eligible>>
       ELSE /\ eligible' = [eligible EXCEPT ![w] =
                 {k \in BatchKeys(w) : ShardOf[k] \in Eligible(Requester(w))}]
            /\ BeginCheck(Requester(w), PerShard(BatchKeys(w)))
            /\ Goes(w, "checking", {})
  /\ UNCHANGED <<schedVars, queue, published, onDisk, reported, loads>>

Exists(w) ==
  /\ work[w].stage = "checking"
  /\ Goes(w, "checked", eligible[w] \cap onDisk)
  /\ UNCHANGED <<schedVars, queue, published, leaseVars, onDisk, eligible, reported, loads>>

DropCheckLeases(w) ==
  /\ LockFree /\ work[w].stage = "checked"
  /\ EndCheck(Requester(w), PerShard(eligible[w]))
  /\ Goes(w, "pinning", work[w].hits)
  /\ UNCHANGED <<schedVars, queue, published, onDisk, eligible, reported, loads>>

EndPinning(w, hits) ==
  /\ Goes(w, "done", hits)
  /\ eligible' = [eligible EXCEPT ![w] = {}]

\* Mutant: a result that comes after cancellation is leased all the same.
LeaseLateHits(w) ==
  /\ work[w].stage = "pinning"
  /\ EndPinning(w, work[w].hits) /\ PinHits(Requester(w), ShardsOf(work[w].hits))
  /\ UNCHANGED <<schedVars, queue, published, onDisk, reported, loads>>

LeaseHits(w) ==
  /\ work[w].stage = "pinning"
  /\ IF Fenced(Requester(w))
       THEN EndPinning(w, {}) /\ UNCHANGED leaseVars
       ELSE /\ EndPinning(w, work[w].hits)
            /\ PinHits(Requester(w), ShardsOf(work[w].hits))
  /\ UNCHANGED <<schedVars, queue, published, onDisk, reported, loads>>

\* A pool thread reads the job's files.
ReadFiles(j) ==
  /\ loads[j].stage = "queued"
  /\ loads' = [loads EXCEPT ![j].stage = IF loads[j].keys \subseteq onDisk THEN "good" ELSE "bad"]
  /\ UNCHANGED <<asyncVars, leaseVars, onDisk, eligible, reported>>

-------------------------------------------------------------------------------
\* Evictions: one process owns eviction at a time (module EvictionGate) and
\* retires one shard at a time.
StartEviction(p, s) ==
  /\ p = Me => LockFree /\ SchedulerFree
  /\ \A q \in Procs : evicting[q] = {}
  /\ BeginEviction(p, s)
  /\ UNCHANGED <<asyncVars, onDisk, eligible, reported, loads>>

\* evict_shard_atomically: the files leave the namespace all at once.
Rename(p, s) ==
  /\ s \in evicting[p]
  /\ onDisk' = {k \in onDisk : ShardOf[k] # s}
  /\ UNCHANGED <<asyncVars, leaseVars, eligible, reported, loads>>

ReapEviction(p, s) ==
  /\ p = Me => LockFree /\ SchedulerFree
  /\ \E success \in BOOLEAN :
       /\ success => \A k \in onDisk : ShardOf[k] # s
       /\ FinishEviction(p, s, success)
  /\ UNCHANGED <<asyncVars, onDisk, eligible, reported, loads>>

FsNext ==
  \/ \E r \in Reqs, k \in Keys : TierLookup(r, k)
  \/ \E r \in Reqs : FinishRequest(r) \/ \E keep \in BOOLEAN : StopLookup(r, keep)
  \/ \E r \in Reqs, j \in Jobs, ks \in SUBSET Keys : SubmitLoad(r, j, ks)
  \/ \E j \in Jobs : ReadFiles(j) \/ ReapLoad(j)
  \/ ScheduleEnd
  \/ \E w \in Workers : \/ WorkerOther(w) \/ StartCheck(w) \/ Exists(w)
                        \/ DropCheckLeases(w) \/ LeaseHits(w)
  \/ \E p \in Procs, s \in Shards : StartEviction(p, s) \/ Rename(p, s) \/ ReapEviction(p, s)

FsSpec == FsInit /\ [][FsNext]_fsVars

-------------------------------------------------------------------------------
LoadStages == {"new", "queued", "good", "bad", "over"}

\* Every variable keeps its type.
FsTypeOK ==
  /\ Typed(Stages \cup {"checking", "checked", "pinning"}) /\ LeaseTypeOK
  /\ onDisk \subseteq Keys /\ eligible \in [Workers -> SUBSET Keys]
  /\ reported \in [Reqs -> SUBSET Keys]
  /\ loads \in [Jobs -> [stage : LoadStages, keys : SUBSET Keys]]

\* Nothing outlives its holder: a process's share of a shard is at most the
\* requests, checks and jobs it is for, so that when they end the shard can be
\* evicted, and an idle process keeps no sibling from evicting.
Holders(p, s) ==
  SumFunctionOnSet([r \in Reqs |-> Each(pinned[r])[s] + pending[r][s]],
                   {r \in Reqs : ProcOf[r] = p})
    + SumFunctionOnSet([j \in Jobs |-> Each(jobShards[j])[s]],
                       {j \in Jobs : ProcOf[j] = p})
LeasesNotLeaked == \A p \in Procs, s \in Shards : count[p][s] <= Holders(p, s)

\* A late metadata result never leases a shard to a request whose lookup was
\* cancelled or that has finished.
FenceHolds == [][\A r \in Reqs : Fenced(r) => pinned'[r] \subseteq pinned[r]]_fsVars

\* A process never evicts a shard one of its own load jobs reads, whatever
\* became of the counts.
OwnLoadsAreSafe == \A j \in Jobs : jobShards[j] \cap evicting[ProcOf[j]] = {}

\* "A positive lookup is leased to the request while holding the same lock used
\* to begin eviction" (tiering-fs-manager.disk-reserve.py): the flock of every
\* shard recorded as leased to a request is held.
PinsHoldFlock ==
  \A r \in Reqs : \A s \in pinned[r] : count[ProcOf[r]][s] > 0

\* "one process cannot evict a shard while the other is looking it up, loading
\* it, or writing it" (README.md): a shard that a live existence check leased is
\* not evicted until the check is over.
Checking(w) == work[w].stage \in {"checking", "checked"} /\ ~Fenced(Requester(w))
ChecksExcludeEviction ==
  \A w \in Workers, p \in Procs :
    Checking(w) => ShardsOf(eligible[w]) \cap evicting[p] = {}
===============================================================================
