------------------------------ MODULE ShardLeases ------------------------------
(***************************************************************************)
(* ShardLeaseIndex (patches/tiering-fs-bounded-lru.py): who may use a hash *)
(* shard of the cache directory and who may retire it.  Requests, queued   *)
(* existence checks and transfer jobs of one process share one flock per   *)
(* shard through a reference count; an eviction takes the same flock       *)
(* exclusively.  The actions here are the index's methods; the modules     *)
(* that extend this one say when they are called.                          *)
(*                                                                         *)
(* A process has the shared flock of a shard exactly when its count is     *)
(* positive, and the exclusive one exactly while it evicts the shard: the  *)
(* code changes each pair together.                                        *)
(***************************************************************************)
EXTENDS Requests, Integers, FiniteSets

CONSTANTS
  Procs,    \* the processes sharing the cache directory
  Shards,   \* its hash shards
  Jobs,     \* transfer jobs
  ProcOf    \* the process a request or a job belongs to

ASSUME ProcOfAssumption == /\ ProcOf \in [Reqs \cup Jobs -> Procs]
                           /\ IsFiniteSet(Reqs) /\ IsFiniteSet(Jobs)

VARIABLES
  count,       \* _shared_lock_counts, per process
  evicting,    \* _evicting and the exclusive flocks, per process
  tracked,     \* the shards of _last_used, per process
  pinned,      \* _request_shards
  pending,     \* _pending_lookup_shards: per request, checks in progress per shard
  jobShards,   \* _job_shards
  cancelled,   \* _lookup_cancelled_requests
  closedReqs   \* _closed_requests

leaseVars == <<count, evicting, tracked, pinned, pending, jobShards, cancelled, closedReqs>>

LeaseInit ==
  /\ count = [p \in Procs |-> [s \in Shards |-> 0]]
  /\ evicting = [p \in Procs |-> {}]
  /\ tracked = [p \in Procs |-> Shards]   \* _scan_shards: every shard exists
  /\ pinned = [r \in Reqs |-> {}]
  /\ pending = [r \in Reqs |-> [s \in Shards |-> 0]]
  /\ jobShards = [j \in Jobs |-> {}]
  /\ cancelled = {} /\ closedReqs = {}

Fenced(r) == r \in closedReqs \cup cancelled

\* _acquire_shared_locked succeeds: one more local holder, or LOCK_SH granted.
CanShare(p, s) == count[p][s] > 0 \/ \A q \in Procs : s \notin evicting[q]

MinusUnchecked(m, n) == m - n    \* mutant: a release nobody is due
Minus(m, n) == IF m > n THEN m - n ELSE 0
Least(m, n) == IF m < n THEN m ELSE n

\* The count of p after more and fewer holders per shard; releasing a shard
\* nobody holds is a no-op.
Recount(p, more, fewer) ==
  count' = [count EXCEPT ![p] = [s \in Shards |-> Minus(@[s] + more[s], fewer[s])]]

None == [s \in Shards |-> 0]
Each(S) == [s \in Shards |-> IF s \in S THEN 1 ELSE 0]

\* lookup_and_pin, first section: lease the shard of every path of the batch
\* that nobody evicts, once per path.  want counts the batch's paths per shard.
Eligible(r) == {s \in Shards : s \notin evicting[ProcOf[r]] /\ CanShare(ProcOf[r], s)}

BeginCheck(r, want) ==
  /\ LET granted == [s \in Shards |-> IF s \in Eligible(r) THEN want[s] ELSE 0]
     IN  /\ Recount(ProcOf[r], granted, None)
         /\ pending' = [pending EXCEPT ![r] = [s \in Shards |-> @[s] + granted[s]]]
  /\ UNCHANGED <<evicting, tracked, pinned, jobShards, cancelled, closedReqs>>

\* _release_pending_shards_locked
Due(r, held) == [s \in Shards |-> Least(held[s], pending[r][s])]

ReleasePending(r, held) ==
  /\ Recount(ProcOf[r], None, Due(r, held))
  /\ pending' = [pending EXCEPT ![r] = [s \in Shards |-> @[s] - Due(r, held)[s]]]

\* lookup_and_pin, last section, in the same critical section: first the
\* check's own leases go ...
EndCheck(r, held) ==
  /\ ReleasePending(r, held)
  /\ UNCHANGED <<evicting, tracked, pinned, jobShards, cancelled, closedReqs>>

\* ... then each shard with a hit is leased to the request.  The result of
\* _acquire_shared_locked is not looked at.
PinHits(r, hitShards) ==
  LET p     == ProcOf[r]
      fresh == hitShards \ pinned[r]
  IN  /\ Recount(p, Each({s \in fresh : CanShare(p, s)}), None)
      /\ pinned' = [pinned EXCEPT ![r] = @ \cup hitShards]
      /\ tracked' = [tracked EXCEPT ![p] = @ \cup hitShards]
      /\ UNCHANGED <<evicting, pending, jobShards, cancelled, closedReqs>>

\* resolve_cached_lookup's verdict on an answer for shard s, and its effect:
\* a lease for a hit, and one pending check of the shard less.
ResolvesToHit(r, s, hit) ==
  /\ hit /\ ~Fenced(r)
  /\ s \notin evicting[ProcOf[r]]
  /\ s \in pinned[r] \/ CanShare(ProcOf[r], s)

ResolveCachedLookup(r, s, hit) ==
  LET p   == ProcOf[r]
      ok  == ResolvesToHit(r, s, hit)
      pin == IF ok THEN {s} \ pinned[r] ELSE {}
  IN  /\ Recount(p, Each(pin), Due(r, Each({s})))
      /\ pending' = [pending EXCEPT ![r][s] = @ - Due(r, Each({s}))[s]]
      /\ pinned' = [pinned EXCEPT ![r] = @ \cup pin]
      /\ tracked' = [tracked EXCEPT ![p] = IF ok THEN @ \cup {s} ELSE @]
      /\ UNCHANGED <<evicting, jobShards, cancelled, closedReqs>>

\* Mutant: the leases of the checks in progress stay behind.
CancelLeaksChecks(r, releasePins) ==
  /\ Recount(ProcOf[r], None, Each(IF releasePins THEN pinned[r] ELSE {}))
  /\ cancelled' = cancelled \cup {r}
  /\ pending' = [pending EXCEPT ![r] = None]
  /\ pinned' = IF releasePins THEN [pinned EXCEPT ![r] = {}] ELSE pinned
  /\ UNCHANGED <<evicting, tracked, jobShards, closedReqs>>

\* cancel_lookup; release_pins is false when the hits are about to be loaded.
CancelLookup(r, releasePins) ==
  LET drop == [s \in Shards |-> pending[r][s] +
                                IF releasePins /\ s \in pinned[r] THEN 1 ELSE 0]
  IN  /\ Recount(ProcOf[r], None, drop)
      /\ cancelled' = cancelled \cup {r}
      /\ pending' = [pending EXCEPT ![r] = None]
      /\ pinned' = IF releasePins THEN [pinned EXCEPT ![r] = {}] ELSE pinned
      /\ UNCHANGED <<evicting, tracked, jobShards, closedReqs>>

\* release_request
ReleaseRequest(r) ==
  /\ Recount(ProcOf[r], None,
             [s \in Shards |-> pending[r][s] + IF s \in pinned[r] THEN 1 ELSE 0])
  /\ pinned' = [pinned EXCEPT ![r] = {}]
  /\ pending' = [pending EXCEPT ![r] = None]
  /\ cancelled' = cancelled \ {r}
  /\ closedReqs' = closedReqs \cup {r}
  /\ UNCHANGED <<evicting, tracked, jobShards>>

\* pin_job takes all shards of the job or none.
CanPinJob(j, S) == \A s \in S : s \notin evicting[ProcOf[j]] /\ CanShare(ProcOf[j], s)

\* pin_job, then release_request_pins: the load's leases replace the lookup's.
HandOver(r, j, S) ==
  /\ CanPinJob(j, S)
  /\ Recount(ProcOf[j], Each(S), Each(pinned[r]))
  /\ jobShards' = [jobShards EXCEPT ![j] = S]
  /\ pinned' = [pinned EXCEPT ![r] = {}]
  /\ UNCHANGED <<evicting, tracked, pending, cancelled, closedReqs>>

\* pin_job fails: the request's leases go all the same.
RefuseJob(r, j, S) ==
  /\ ~CanPinJob(j, S)
  /\ Recount(ProcOf[j], None, Each(pinned[r]))
  /\ pinned' = [pinned EXCEPT ![r] = {}]
  /\ UNCHANGED <<evicting, tracked, pending, jobShards, cancelled, closedReqs>>

ReleaseJob(j) ==
  /\ Recount(ProcOf[j], None, Each(jobShards[j]))
  /\ jobShards' = [jobShards EXCEPT ![j] = {}]
  /\ UNCHANGED <<evicting, tracked, pinned, pending, cancelled, closedReqs>>

\* Mutant: load jobs are not looked at.
LocalRequestsHold(p, s) ==
  \E r \in Reqs : ProcOf[r] = p /\ (s \in pinned[r] \/ pending[r][s] > 0)

LocalHolds(p, s) ==
  \/ \E r \in Reqs : ProcOf[r] = p /\ (s \in pinned[r] \/ pending[r][s] > 0)
  \/ \E j \in Jobs : ProcOf[j] = p /\ s \in jobShards[j]

Idle(p, s) == s \in tracked[p] /\ s \notin evicting[p] /\ ~LocalHolds(p, s)

\* begin_oldest_eviction takes one idle shard.  Which of the idle shards is the
\* oldest is left open: no property here depends on it.
BeginEviction(p, s) ==
  /\ Idle(p, s)
  /\ \A q \in Procs : count[q][s] = 0 /\ s \notin evicting[q]
  /\ evicting' = [evicting EXCEPT ![p] = @ \cup {s}]
  /\ UNCHANGED <<count, tracked, pinned, pending, jobShards, cancelled, closedReqs>>

\* finish_eviction; a shard that could not be retired stays tracked.
FinishEviction(p, s, success) ==
  /\ s \in evicting[p]
  /\ evicting' = [evicting EXCEPT ![p] = @ \ {s}]
  /\ tracked' = IF success THEN [tracked EXCEPT ![p] = @ \ {s}] ELSE tracked
  /\ UNCHANGED <<count, pinned, pending, jobShards, cancelled, closedReqs>>

-------------------------------------------------------------------------------
\* Every variable of the index keeps its type; a count is never negative.
LeaseTypeOK ==
  /\ count \in [Procs -> [Shards -> Nat]]
  /\ evicting \in [Procs -> SUBSET Shards] /\ tracked \in [Procs -> SUBSET Shards]
  /\ pinned \in [Reqs -> SUBSET Shards] /\ pending \in [Reqs -> [Shards -> Nat]]
  /\ jobShards \in [Jobs -> SUBSET Shards]
  /\ cancelled \subseteq Reqs /\ closedReqs \subseteq Reqs
===============================================================================
