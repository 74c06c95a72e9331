--------------------------------- MODULE FsTier ---------------------------------
(***************************************************************************)
(* The write path and the evictions of FileSystemTierManager               *)
(* (patches/tiering-fs-manager.disk-reserve.py): processes that share a    *)
(* cache directory store blocks into its hash shards, and retire shards    *)
(* when space runs out.  Each process has a scheduler thread, which makes  *)
(* the tier's calls one at a time, a pool that writes, and an eviction     *)
(* worker that deletes; a process may crash between any two steps.         *)
(*                                                                         *)
(* The eviction gate is used through what it promises, module WriteFence,  *)
(* which EvictionGate implements: a try_ method may fail although the      *)
(* abstract step is possible, because a sibling holds a lock just then.    *)
(* Leases are effective (module FsLookup has the steps that take them).    *)
(* Space is counted in units of one store job.                             *)
(***************************************************************************)
EXTENDS WriteFence, Integers, FiniteSets, Functions

CONSTANTS
  Shards,    \* hash shards
  Tombs,     \* names of tombstones; bounds how many exist at a time
  None,      \* neither a shard nor a tombstone
  ProcOf,    \* the process of each store job
  ShardOf,   \* the shard each store job writes to
  Capacity,  \* size of the volume
  MinFree, Trigger, Target   \* min_free, eviction_trigger and _target

\* FileSystemTierManager.__init__ refuses other thresholds; no trigger means no
\* eviction at all, and no eviction worker.
ASSUME ThresholdAssumption ==
  /\ MinFree \in Nat /\ Trigger \in Nat \ {0} /\ Target \in Nat /\ Capacity \in Nat
  /\ MinFree <= Trigger /\ Trigger <= Target

ASSUME NamesAssumption ==
  /\ NoProc \notin Procs /\ None \notin Shards \cup Tombs
  /\ ProcOf \in [Jobs -> Procs] /\ ShardOf \in [Jobs -> Shards]
  /\ IsFiniteSet(Shards) /\ IsFiniteSet(Tombs)

VARIABLES
  live,      \* units in each shard of the live namespace; 0: no directory
  tombs,     \* units in each tombstone; 0: no such directory
  job,       \* where each store job is
  reports,   \* how often each job was reported finished
  reserved,  \* _reserved_store_bytes
  avail,     \* _available_bytes
  checked,   \* _last_space_check # 0
  active,    \* _eviction_active
  orphans,   \* _orphan_tombstones
  tracked,   \* the shards the lease index knows (_last_used)
  held,      \* shards leased by the process's requests
  retire,    \* the eviction worker's item: what it deletes and how far it is
  call       \* the tier call in progress

disk == <<live, tombs>>
jobVars == <<job, reports, reserved>>
space == <<avail, checked>>
evict == <<active, orphans, tracked, held, retire>>
tierVars == <<fenceVars, disk, jobVars, space, evict, call>>

Nothing == [shard |-> None, tomb |-> None, stage |-> "none"]
OfShard(s) == [shard |-> s, tomb |-> None, stage |-> "queued"]
OfTomb(t)  == [shard |-> None, tomb |-> t, stage |-> "queued"]

Free == Capacity - SumFunction(live) - SumFunction(tombs)
Existing   == {s \in Shards : live[s] > 0}
Tombstones == {t \in Tombs : tombs[t] > 0}
JobsOf(p)  == {j \in Jobs : ProcOf[j] = p}

TierInit ==
  /\ FenceInit
  /\ live \in [Shards -> 0..1] /\ tombs \in [Tombs -> 0..1] /\ Free >= MinFree
  /\ job = [j \in Jobs |-> "new"] /\ reports = [j \in Jobs |-> 0]
  /\ reserved = [p \in Procs |-> 0]
  /\ avail = [p \in Procs |-> 0] /\ checked = [p \in Procs |-> FALSE]
  /\ active = [p \in Procs |-> FALSE] /\ orphans = [p \in Procs |-> Tombstones]
  /\ tracked = [p \in Procs |-> Existing] /\ held = [p \in Procs |-> {}]
  /\ retire = [p \in Procs |-> Nothing]
  /\ call = [p \in Procs |-> "none"]

-------------------------------------------------------------------------------
\* Every call begins with _drain_evictions and _maybe_schedule_eviction.

Finished(p)    == retire[p].stage \in {"ok", "failed"}
Outstanding(p) == retire[p].stage = "queued"

\* _drain_evictions takes the result, and forgets a shard that is gone and the
\* last measurement.
Collected(p) == IF Finished(p) THEN Nothing ELSE retire[p]
Known(p) == IF retire[p].stage = "ok" THEN tracked[p] \ {retire[p].shard} ELSE tracked[p]
NeverResets(p) == FALSE                         \* mutant: drain keeps the measurement
Resets(p) == Finished(p)

\* _get_available_bytes: the volume's free space, or what it was within the
\* check interval.
Measured(p, m) == m = Free \/ (checked[p] /\ m = avail[p])

\* try_begin_eviction, for a process that is not the owner.
NeedsOwner(p, m) == orphans[p] # {} \/ m < Trigger
PassBy(p) == ~active[p] /\ UNCHANGED <<fenceVars, active, orphans, retire>>

Busy(p) == active[p] /\ Outstanding(p) /\ UNCHANGED <<fenceVars, active, orphans, retire>>

\* The owner, elected now or before, with no deletion outstanding.
\* Mutant: the pass goes on while a deletion is outstanding.
OwnerBusyOrNot(p, m) == active[p] \/ (NeedsOwner(p, m) /\ owner = NoProc)
Owner(p, m) ==
  /\ active[p] \/ (NeedsOwner(p, m) /\ owner = NoProc)
  /\ ~Outstanding(p)

\* Names that no longer exist are dropped as they come to the front of the deque.
Left(p) == orphans[p] \cap Tombstones

Fence(p) ==
  /\ raised \/ \A q \in Procs : stores[q] = {}
  /\ owner' = p /\ raised' = TRUE
  /\ UNCHANGED stores

Go(p, item, rest) ==
  /\ active' = [active EXCEPT ![p] = TRUE]
  /\ orphans' = [orphans EXCEPT ![p] = rest]
  /\ retire' = [retire EXCEPT ![p] = item]

\* try_fence_writes fails: a store is admitted, or a sibling is about to try.
AwaitFence(p, m) ==
  /\ Owner(p, m) /\ ~raised
  /\ Left(p) # {} \/ m < Target
  /\ \E q \in Procs : stores[q] # {} \/ call[q] = "submit_store"
  /\ Go(p, Collected(p), Left(p))
  /\ owner' = p
  /\ UNCHANGED <<raised, stores>>

\* Tombstones of dead processes go first.
RetireOrphan(p, m) ==
  /\ Owner(p, m) /\ Fence(p)
  /\ \E t \in Left(p) : Go(p, OfTomb(t), Left(p) \ {t})

\* Mutant: the process stops evicting and keeps the gate.
TargetReachedKeepsGate(p, m) ==
  /\ Owner(p, m)
  /\ Left(p) = {} /\ m >= Target
  /\ active' = [active EXCEPT ![p] = FALSE]
  /\ orphans' = [orphans EXCEPT ![p] = {}]
  /\ retire' = [retire EXCEPT ![p] = Collected(p)]
  /\ owner' = p
  /\ UNCHANGED <<raised, stores>>

\* The target is reached: finish_eviction.
TargetReached(p, m) ==
  /\ Owner(p, m)
  /\ Left(p) = {} /\ m >= Target
  /\ active' = [active EXCEPT ![p] = FALSE]
  /\ orphans' = [orphans EXCEPT ![p] = {}]
  /\ retire' = [retire EXCEPT ![p] = Collected(p)]
  /\ owner' = NoProc /\ raised' = FALSE
  /\ UNCHANGED stores

\* begin_oldest_eviction: a shard this process knows and nobody leases.
LeasedBy(p) == held[p] \cup {ShardOf[j] : j \in stores[p]}
Idle(p) == Known(p) \ UNION {LeasedBy(q) : q \in Procs}

RetireShard(p, m) ==
  /\ Owner(p, m) /\ Left(p) = {} /\ m < Target /\ Fence(p)
  /\ \E s \in Idle(p) : Go(p, OfShard(s), {})

NothingIdle(p, m) ==
  /\ Owner(p, m) /\ Left(p) = {} /\ m < Target /\ Fence(p)
  /\ Idle(p) = {}
  /\ Go(p, Collected(p), {})

EvictionPass(p, m) ==
  /\ IF Resets(p) THEN m = Free ELSE Measured(p, m)
  /\ avail' = [avail EXCEPT ![p] = m] /\ checked' = [checked EXCEPT ![p] = TRUE]
  /\ tracked' = [tracked EXCEPT ![p] = Known(p)]
  /\ \/ PassBy(p) \/ Busy(p) \/ AwaitFence(p, m) \/ RetireOrphan(p, m)
     \/ TargetReached(p, m) \/ RetireShard(p, m) \/ NothingIdle(p, m)
  /\ UNCHANGED <<disk, jobVars, held>>

Enter(p, c) == call[p] = "none" /\ call' = [call EXCEPT ![p] = c]
Return(p, c) == call[p] = c /\ call' = [call EXCEPT ![p] = "none"]

\* on_schedule_end ends there; the other calls go on.
OnScheduleEnd(p) ==
  /\ call[p] = "none" /\ UNCHANGED call
  /\ \E m \in 0..Capacity : EvictionPass(p, m)

StartSubmitStore(p) ==
  /\ \E j \in JobsOf(p) : job[j] = "new"
  /\ Enter(p, "submit_store")
  /\ \E m \in 0..Capacity : EvictionPass(p, m)

StartGetFinished(p) ==
  /\ Enter(p, "get_finished")
  /\ \E m \in 0..Capacity : EvictionPass(p, m)

-------------------------------------------------------------------------------
\* The rest of submit_store.  Gate lease, space check, shard leases and the
\* reservation are one step: what a sibling could see between them is a refused
\* lock, which AwaitFence and PassBy allow throughout the call.
HasSpace(p, m) == MinFree = 0 \/ m - reserved[p] - 1 >= MinFree
CheckSpace(p, m) == /\ IF MinFree = 0 THEN m = avail[p] ELSE Measured(p, m)
                    /\ avail' = [avail EXCEPT ![p] = m]

\* pin_job: nobody is evicting the shard.
CanPin(j) == \A p \in Procs : retire[p].shard # ShardOf[j]

SubmitStore(p, j) ==
  /\ job[j] = "new"
  /\ Return(p, "submit_store")
  /\ UNCHANGED <<disk, reports, checked, evict>>

AdmitStore(p, j, m) ==
  /\ SubmitStore(p, j)
  /\ Admit(p, j)
  /\ CheckSpace(p, m) /\ HasSpace(p, m) /\ CanPin(j)
  /\ job' = [job EXCEPT ![j] = "writing"]
  /\ reserved' = [reserved EXCEPT ![p] = @ + 1]

\* The gate refuses the store: some process owns eviction.
BypassStore(p, j) ==
  /\ SubmitStore(p, j)
  /\ owner # NoProc
  /\ job' = [job EXCEPT ![j] = "rejected"]
  /\ UNCHANGED <<fenceVars, reserved, avail>>

\* Mutant: a store refused for space keeps the gate's lease.
RejectKeepsGateLease(p, j, m) ==
  /\ SubmitStore(p, j)
  /\ Admit(p, j)
  /\ CheckSpace(p, m) /\ (~HasSpace(p, m) \/ ~CanPin(j))
  /\ job' = [job EXCEPT ![j] = "rejected"]
  /\ UNCHANGED reserved

\* The gate lets it in, and for want of space or of a lease it is let go again.
RejectStore(p, j, m) ==
  /\ SubmitStore(p, j)
  /\ owner = NoProc
  /\ CheckSpace(p, m) /\ (~HasSpace(p, m) \/ ~CanPin(j))
  /\ job' = [job EXCEPT ![j] = "rejected"]
  /\ UNCHANGED <<fenceVars, reserved>>

\* A pool thread has written the job's blocks, or failed to.
Write(j) ==
  /\ job[j] = "writing" /\ Free > 0
  /\ live' = [live EXCEPT ![ShardOf[j]] = @ + 1]
  /\ job' = [job EXCEPT ![j] = "written"]
  /\ UNCHANGED <<fenceVars, tombs, reports, reserved, space, evict, call>>

WriteFails(j) ==
  /\ job[j] = "writing"
  /\ job' = [job EXCEPT ![j] = "unwritten"]
  /\ UNCHANGED <<fenceVars, disk, reports, reserved, space, evict, call>>

\* The rest of get_finished_jobs: the failed jobs and what the pool finished.
DoneOrRefused(p) ==                             \* mutant: gives back what was not taken
  {j \in JobsOf(p) : job[j] \in {"written", "unwritten", "rejected"}}
Done(p) == {j \in JobsOf(p) : job[j] \in {"written", "unwritten"}}
OverIfTried(p) == Done(p)                       \* mutant: forgets _failed_jobs
Over(p) == Done(p) \cup {j \in JobsOf(p) : job[j] = "rejected"}

\* Mutant: _failed_jobs is not cleared.
GetFinishedKeepsFailed(p) ==
  /\ Return(p, "get_finished")
  /\ job' = [j \in Jobs |-> IF j \in Done(p) THEN "over" ELSE job[j]]
  /\ reports' = [j \in Jobs |-> IF j \in Over(p) THEN reports[j] + 1 ELSE reports[j]]
  /\ reserved' = [reserved EXCEPT ![p] = @ - Cardinality(Done(p))]
  /\ stores' = [stores EXCEPT ![p] = @ \ Done(p)]
  /\ UNCHANGED <<owner, raised, disk, space, active, orphans, tracked, held, retire>>

GetFinished(p) ==
  /\ Return(p, "get_finished")
  /\ job' = [j \in Jobs |-> IF j \in Over(p) THEN "over" ELSE job[j]]
  /\ reports' = [j \in Jobs |-> IF j \in Over(p) THEN reports[j] + 1 ELSE reports[j]]
  /\ reserved' = [reserved EXCEPT ![p] = @ - Cardinality(Done(p))]
  /\ stores' = [stores EXCEPT ![p] = @ \ Done(p)]
  /\ tracked' = [tracked EXCEPT ![p] =
       @ \cup {ShardOf[j] : j \in {i \in Done(p) : job[i] = "written"}}]
  /\ UNCHANGED <<owner, raised, disk, space, active, orphans, held, retire>>

-------------------------------------------------------------------------------
\* The eviction worker: a shard is renamed to a fresh name, which is then
\* deleted; either may fail.
Unused == {t \in Tombs : /\ tombs[t] = 0
                         /\ \A p \in Procs : t \notin orphans[p] /\ retire[p].tomb # t}

RenameShard(p) ==
  /\ Outstanding(p) /\ retire[p].tomb = None
  /\ LET s == retire[p].shard
     IN  IF live[s] = 0
           THEN /\ retire' = [retire EXCEPT ![p].stage = "ok"]
                /\ UNCHANGED disk
           ELSE \E t \in Unused : /\ tombs' = [tombs EXCEPT ![t] = live[s]]
                                  /\ live' = [live EXCEPT ![s] = 0]
                                  /\ retire' = [retire EXCEPT ![p].tomb = t]
  /\ UNCHANGED <<fenceVars, jobVars, space, active, orphans, tracked, held, call>>

DeleteTree(p) ==
  /\ Outstanding(p) /\ retire[p].tomb # None
  /\ tombs' = [tombs EXCEPT ![retire[p].tomb] = 0]
  /\ retire' = [retire EXCEPT ![p].stage = "ok"]
  /\ UNCHANGED <<fenceVars, live, jobVars, space, active, orphans, tracked, held, call>>

DeleteFails(p) ==
  /\ Outstanding(p)
  /\ retire' = [retire EXCEPT ![p].stage = "failed"]
  /\ UNCHANGED <<fenceVars, disk, jobVars, space, active, orphans, tracked, held, call>>

-------------------------------------------------------------------------------
\* A request of p finds a shard and leases it, and lets go of it.
Hit(p, s) ==
  /\ live[s] > 0 /\ s \notin held[p]
  /\ \A q \in Procs : retire[q].shard # s
  /\ held' = [held EXCEPT ![p] = @ \cup {s}]
  /\ tracked' = [tracked EXCEPT ![p] = @ \cup {s}]
  /\ UNCHANGED <<fenceVars, disk, jobVars, space, active, orphans, retire, call>>

Unlease(p, s) ==
  /\ s \in held[p]
  /\ held' = [held EXCEPT ![p] = @ \ {s}]
  /\ UNCHANGED <<fenceVars, disk, jobVars, space, active, orphans, tracked, retire, call>>

\* The process dies and a new one scans the directory.
Restart(p) ==
  /\ Leave(p)
  /\ job' = [j \in Jobs |-> IF ProcOf[j] = p /\ job[j] # "new" THEN "over" ELSE job[j]]
  /\ reserved' = [reserved EXCEPT ![p] = 0]
  /\ avail' = [avail EXCEPT ![p] = 0] /\ checked' = [checked EXCEPT ![p] = FALSE]
  /\ active' = [active EXCEPT ![p] = FALSE]
  /\ orphans' = [orphans EXCEPT ![p] = Tombstones]
  /\ tracked' = [tracked EXCEPT ![p] = Existing]
  /\ held' = [held EXCEPT ![p] = {}]
  /\ retire' = [retire EXCEPT ![p] = Nothing]
  /\ call' = [call EXCEPT ![p] = "none"]
  /\ UNCHANGED <<disk, reports>>

FinishSubmitStore(p) ==
  \E j \in JobsOf(p) :
    \/ BypassStore(p, j)
    \/ \E m \in 0..Capacity : AdmitStore(p, j, m) \/ RejectStore(p, j, m)
Worker(p) == RenameShard(p) \/ DeleteTree(p) \/ DeleteFails(p)

TierNext ==
  \/ \E p \in Procs :
       \/ OnScheduleEnd(p)
       \/ StartSubmitStore(p) \/ FinishSubmitStore(p)
       \/ StartGetFinished(p) \/ GetFinished(p)
       \/ Worker(p)
       \/ \E s \in Shards : Hit(p, s) \/ Unlease(p, s)
       \/ Restart(p)
  \/ \E j \in Jobs : Write(j) \/ WriteFails(j)

TierSpec == TierInit /\ [][TierNext]_tierVars

\* Threads run, and the engine steps while a deletion is outstanding
\* (has_pending_work) and while it has a store to hear of (which the tiering
\* manager above this tier, outside this repository, is taken to count as pending
\* work).  Otherwise it may be idle, and stay so.
HasPendingWork(p) ==
  \/ retire[p].stage # "none"
  \/ \E j \in JobsOf(p) : job[j] \notin {"new", "over"}
Step(p) == HasPendingWork(p) /\ StartGetFinished(p)

TierFairness ==
  /\ \A p \in Procs : /\ WF_tierVars(Worker(p))
                      /\ WF_tierVars(Step(p))
                      /\ WF_tierVars(FinishSubmitStore(p) \/ GetFinished(p))
  /\ \A j \in Jobs : WF_tierVars(Write(j) \/ WriteFails(j))

FairTierSpec == TierSpec /\ TierFairness

-------------------------------------------------------------------------------
JobStates == {"new", "writing", "written", "unwritten", "rejected", "over"}

\* Every variable has its type, no unit of space is lost or made up, and no
\* process reserves less than nothing.
TierTypeOK ==
  /\ owner \in Procs \cup {NoProc} /\ raised \in BOOLEAN
  /\ stores \in [Procs -> SUBSET Jobs]
  /\ live \in [Shards -> 0..Capacity] /\ tombs \in [Tombs -> 0..Capacity] /\ Free >= 0
  /\ job \in [Jobs -> JobStates] /\ reports \in [Jobs -> Nat]
  /\ reserved \in [Procs -> Nat]
  /\ avail \in [Procs -> 0..Capacity] /\ checked \in [Procs -> BOOLEAN]
  /\ active \in [Procs -> BOOLEAN] /\ orphans \in [Procs -> SUBSET Tombs]
  /\ tracked \in [Procs -> SUBSET Shards] /\ held \in [Procs -> SUBSET Shards]
  /\ retire \in [Procs -> [shard : Shards \cup {None}, tomb : Tombs \cup {None},
                           stage : {"none", "queued", "ok", "failed"}]]
  /\ call \in [Procs -> {"none", "submit_store", "get_finished"}]

\* Foreground writes never compete with a deletion, in any process: while a
\* worker has an item, no store job writes, the item's process owns eviction and
\* the fence is up, and nobody leases the shard that goes (:511, :550).
NoDeletionUnderWrites ==
  \A p \in Procs : Outstanding(p) =>
    /\ owner = p /\ raised
    /\ \A j \in Jobs : job[j] # "writing"
    /\ \A q \in Procs : retire[p].shard \notin LeasedBy(q)

\* _eviction_active says who owns the gate, whatever fails or crashes.
ActiveIsOwner == \A p \in Procs : active[p] <=> owner = p

\* The bytes reserved are those of the jobs admitted and not yet collected, and
\* the gate's lease stands for the same jobs: every way out gives both back once.
ReservationExact ==
  \A p \in Procs :
    LET inFlight == {j \in JobsOf(p) : job[j] \in {"writing", "written", "unwritten"}}
    IN  /\ reserved[p] = Cardinality(inFlight)
        /\ stores[p] = inFlight

\* A store job is reported at most once, and one that is over was reported
\* unless its process died.
ReportedAtMostOnce == \A j \in Jobs : reports[j] <= 1 /\ (reports[j] = 1 => job[j] = "over")

\* The invariant the proofs go by.  What a worker deletes is deleted under its
\* process's fence; a fence has an owner and leaves no store running; and who
\* would lease a shard looks whether it is being retired.
DeletesUnderFence == \A p \in Procs : retire[p].stage # "none" => owner = p /\ raised
FenceIsTight == raised => owner # NoProc /\ \A q \in Procs : stores[q] = {}
RetiredIsFree == \A p, q \in Procs : retire[p].shard \notin held[q]
ItemIsNamed ==
  \A p \in Procs : /\ retire[p].stage = "none" => retire[p] = Nothing
                   /\ Outstanding(p) /\ retire[p].tomb = None => retire[p].shard # None
FewStores == \A p \in Procs : IsFiniteSet(stores[p])

TierIInv ==
  /\ TierTypeOK
  /\ ActiveIsOwner /\ DeletesUnderFence /\ FenceIsTight /\ RetiredIsFree /\ ItemIsNamed
  /\ ReservationExact /\ FewStores /\ ReportedAtMostOnce

\* submit_store promises a result for every job: a failed store, one skipped
\* under eviction and one refused for space are reported too.
JobsReported == \A j \in Jobs : job[j] \notin {"new", "over"} ~> job[j] = "over"

\* Stores resume automatically after eviction reaches its target (:553): an owner
\* whose deletion reaches it resigns.
StoresResume ==
  \A p \in Procs : (retire[p].stage # "none" /\ Free >= Target) ~> owner # p

\* The owner waits for the stores admitted before it to finish, then deletes
\* (:531): it raises the fence or resigns.
WaitForStoresEnds == (owner # NoProc /\ ~raised) ~> (raised \/ owner = NoProc)

\* Stores are rejected before they consume the reserve (README.md:168).
ReserveKept == Free >= MinFree
===============================================================================
