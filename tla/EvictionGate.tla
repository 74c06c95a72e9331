----------------------------- MODULE EvictionGate -----------------------------
(***************************************************************************)
(* SharedEvictionGate (patches/tiering-fs-bounded-lru.py): the two         *)
(* advisory file locks by which the vLLM processes that share one cache    *)
(* directory keep disk writes and shard deletion apart.  A method runs     *)
(* under the gate's RLock, so a process has one method in progress at a    *)
(* time; between two flock() calls of a method the siblings run, so every  *)
(* flock() is a step.  A process may crash between any two steps; the      *)
(* kernel then closes its descriptors and drops its locks.                 *)
(***************************************************************************)
EXTENDS Naturals, FiniteSets

CONSTANTS Procs,    \* the processes sharing the cache
          Jobs,     \* store job ids
          NoProc    \* no process: the value of the abstract owner when there is none

ASSUME NoProcAssumption == NoProc \notin Procs

VARIABLES
  \* The kernel's side: which processes' descriptors hold which lock.
  intentEx,    \* _intent_fd: LOCK_EX on eviction-intent.lock
  intentSh,    \* _intent_probe_fd: LOCK_SH on eviction-intent.lock
  writeEx,     \* _eviction_write_fd: LOCK_EX on eviction-writes.lock
  writeSh,     \* _write_fd: LOCK_SH on eviction-writes.lock
  \* The gate's own fields, per process.
  owns,        \* _owns_eviction
  fenced,      \* _writes_fenced
  leaseHeld,   \* _store_lease_held
  storeJobs,   \* _store_jobs
  closed,      \* _closed
  pc,          \* the method in progress and how far it is
  job          \* the job_id of a try_pin_store in progress

locks  == <<intentEx, intentSh, writeEx, writeSh>>
fields == <<owns, fenced, leaseHeld, storeJobs, closed>>
vars   == <<intentEx, intentSh, writeEx, writeSh,
            owns, fenced, leaseHeld, storeJobs, closed, pc, job>>

PCs == {"idle",     \* no method in progress
        "pin",      \* try_pin_store: the shared intent lock is held
        "unprobe",  \* about to drop the shared intent lock
        "finish",   \* inside finish_eviction
        "close",    \* inside close
        "down"}     \* the process does not run

\* flock(LOCK_NB) succeeds when no other open description holds a conflicting
\* lock; the descriptors of one process are distinct descriptions.
IntentOwnerIgnored == intentSh = {}                \* mutant: two owners
IntentFreeForEx == intentEx = {} /\ intentSh = {}
IntentUnchecked == TRUE                            \* mutant: stores ignore the intent
IntentFreeForSh == intentEx = {}
WriteFreeForEx  == writeEx = {} /\ writeSh = {}
WriteFreeForSh  == writeEx = {}

Init == /\ intentEx = {} /\ intentSh = {} /\ writeEx = {} /\ writeSh = {}
        /\ owns = [p \in Procs |-> FALSE]
        /\ fenced = [p \in Procs |-> FALSE]
        /\ leaseHeld = [p \in Procs |-> FALSE]
        /\ storeJobs = [p \in Procs |-> {}]
        /\ closed = [p \in Procs |-> FALSE]
        /\ pc = [p \in Procs |-> "idle"]
        /\ job \in [Procs -> Jobs]

Goto(p, l) == pc' = [pc EXCEPT ![p] = l]

\* try_begin_eviction, when it changes anything.  On closed descriptors
\* flock() raises and changes nothing.
TryBeginEviction(p) ==
  /\ pc[p] = "idle" /\ ~closed[p]
  /\ ~owns[p]
  /\ IntentFreeForEx
  /\ intentEx' = intentEx \cup {p}
  /\ owns' = [owns EXCEPT ![p] = TRUE]
  /\ UNCHANGED <<intentSh, writeEx, writeSh, fenced, leaseHeld, storeJobs,
                 closed, pc, job>>

TryFenceWrites(p) ==
  /\ pc[p] = "idle"
  /\ owns[p] /\ ~fenced[p]
  /\ WriteFreeForEx
  /\ writeEx' = writeEx \cup {p}
  /\ fenced' = [fenced EXCEPT ![p] = TRUE]
  /\ UNCHANGED <<intentEx, intentSh, writeSh, owns, leaseHeld, storeJobs,
                 closed, pc, job>>

\* try_pin_store: the shared intent lock first ...
PinProbe(p, j) ==
  /\ pc[p] = "idle" /\ ~closed[p]
  /\ ~owns[p]
  /\ IntentFreeForSh
  /\ intentSh' = intentSh \cup {p}
  /\ job' = [job EXCEPT ![p] = j]
  /\ Goto(p, "pin")
  /\ UNCHANGED <<intentEx, writeEx, writeSh, fields>>

\* ... then, with it held, the process's shared write lease and the job.
\* The else branch, a fence without an owner, is there as in the code and never
\* taken (IInv).
TakeWriteLease(p) ==
  /\ pc[p] = "pin"
  /\ IF leaseHeld[p] \/ WriteFreeForSh
       THEN /\ writeSh' = writeSh \cup {p}
            /\ leaseHeld' = [leaseHeld EXCEPT ![p] = TRUE]
            /\ storeJobs' = [storeJobs EXCEPT ![p] = @ \cup {job[p]}]
       ELSE UNCHANGED <<writeSh, leaseHeld, storeJobs>>
  /\ Goto(p, "unprobe")
  /\ UNCHANGED <<intentEx, intentSh, writeEx, owns, fenced, closed, job>>

\* The finally clause of try_pin_store, and the unlock of eviction_active.
UnlockProbe(p) ==
  /\ pc[p] = "unprobe"
  /\ intentSh' = intentSh \ {p}
  /\ Goto(p, "idle")
  /\ UNCHANGED <<intentEx, writeEx, writeSh, fields, job>>

\* eviction_active takes the same probe lock for a moment.
ProbeActive(p) ==
  /\ pc[p] = "idle" /\ ~closed[p]
  /\ ~owns[p]
  /\ IntentFreeForSh
  /\ intentSh' = intentSh \cup {p}
  /\ Goto(p, "unprobe")
  /\ UNCHANGED <<intentEx, writeEx, writeSh, fields, job>>

\* Mutant: the first finished job of several drops the shared lease.
ReleaseLeaseEarly(p, j) ==
  /\ pc[p] = "idle"
  /\ j \in storeJobs[p]
  /\ storeJobs' = [storeJobs EXCEPT ![p] = @ \ {j}]
  /\ writeSh' = writeSh \ {p}
  /\ leaseHeld' = [leaseHeld EXCEPT ![p] = FALSE]
  /\ UNCHANGED <<intentEx, intentSh, writeEx, owns, fenced, closed, pc, job>>

ReleaseStore(p, j) ==
  /\ pc[p] = "idle"
  /\ j \in storeJobs[p]
  /\ storeJobs' = [storeJobs EXCEPT ![p] = @ \ {j}]
  /\ IF leaseHeld[p] /\ storeJobs[p] = {j}
       THEN /\ writeSh' = writeSh \ {p}
            /\ leaseHeld' = [leaseHeld EXCEPT ![p] = FALSE]
       ELSE UNCHANGED <<writeSh, leaseHeld>>
  /\ UNCHANGED <<intentEx, intentSh, writeEx, owns, fenced, closed, pc, job>>

StartFinish(p) ==
  /\ pc[p] = "idle" /\ owns[p]
  /\ Goto(p, "finish")
  /\ UNCHANGED <<locks, fields, job>>

StartClose(p) ==
  /\ pc[p] = "idle" /\ ~closed[p]
  /\ Goto(p, "close")
  /\ UNCHANGED <<locks, fields, job>>

\* finish_eviction drops the write lock before the intent lock.
LiftFence(p) ==
  /\ pc[p] \in {"finish", "close"} /\ fenced[p]
  /\ writeEx' = writeEx \ {p}
  /\ fenced' = [fenced EXCEPT ![p] = FALSE]
  /\ UNCHANGED <<intentEx, intentSh, writeSh, owns, leaseHeld, storeJobs,
                 closed, pc, job>>

\* Mutant: the intent goes while the fence is still up.
DropIntentFirst(p) ==
  /\ pc[p] \in {"finish", "close"} /\ owns[p]
  /\ intentEx' = intentEx \ {p}
  /\ owns' = [owns EXCEPT ![p] = FALSE]
  /\ UNCHANGED <<intentSh, writeEx, writeSh, fenced, leaseHeld, storeJobs,
                 closed, pc, job>>

DropIntent(p) ==
  /\ pc[p] \in {"finish", "close"} /\ ~fenced[p] /\ owns[p]
  /\ intentEx' = intentEx \ {p}
  /\ owns' = [owns EXCEPT ![p] = FALSE]
  /\ Goto(p, IF pc[p] = "finish" THEN "idle" ELSE "close")
  /\ UNCHANGED <<intentSh, writeEx, writeSh, fenced, leaseHeld, storeJobs,
                 closed, job>>

\* The rest of close: the store lease, the jobs, the descriptors.
CloseGate(p) ==
  /\ pc[p] = "close" /\ ~fenced[p] /\ ~owns[p]
  /\ writeSh' = writeSh \ {p}
  /\ leaseHeld' = [leaseHeld EXCEPT ![p] = FALSE]
  /\ storeJobs' = [storeJobs EXCEPT ![p] = {}]
  /\ closed' = [closed EXCEPT ![p] = TRUE]
  /\ Goto(p, "idle")
  /\ UNCHANGED <<intentEx, intentSh, writeEx, owns, fenced, job>>

\* The process exits, at any point: the kernel drops its flocks.
Exit(p) ==
  /\ pc[p] # "down"
  /\ intentEx' = intentEx \ {p} /\ intentSh' = intentSh \ {p}
  /\ writeEx' = writeEx \ {p}   /\ writeSh' = writeSh \ {p}
  /\ owns' = [owns EXCEPT ![p] = FALSE]
  /\ fenced' = [fenced EXCEPT ![p] = FALSE]
  /\ leaseHeld' = [leaseHeld EXCEPT ![p] = FALSE]
  /\ storeJobs' = [storeJobs EXCEPT ![p] = {}]
  /\ Goto(p, "down")
  /\ UNCHANGED <<closed, job>>

\* A new process builds a new gate over the same two files.
Construct(p) ==
  /\ pc[p] = "down"
  /\ closed' = [closed EXCEPT ![p] = FALSE]
  /\ Goto(p, "idle")
  /\ UNCHANGED <<locks, owns, fenced, leaseHeld, storeJobs, job>>

Next ==
  \E p \in Procs :
    \/ TryBeginEviction(p) \/ TryFenceWrites(p)
    \/ \E j \in Jobs : PinProbe(p, j) \/ ReleaseStore(p, j)
    \/ TakeWriteLease(p) \/ UnlockProbe(p) \/ ProbeActive(p)
    \/ StartFinish(p) \/ StartClose(p)
    \/ LiftFence(p) \/ DropIntent(p) \/ CloseGate(p)
    \/ Exit(p) \/ Construct(p)

Spec == Init /\ [][Next]_vars

\* A method that has started runs on; the transfer of an admitted store ends
\* and its process collects it; an owner retries the fence on every scheduler
\* step.  Nothing else is assumed: a process may never start a method, never
\* resign, and may crash at any time.
Fairness ==
  \A p \in Procs :
    /\ WF_vars(TakeWriteLease(p)) /\ WF_vars(UnlockProbe(p))
    /\ WF_vars(LiftFence(p)) /\ WF_vars(DropIntent(p)) /\ WF_vars(CloseGate(p))
    /\ WF_vars(TryFenceWrites(p))
    /\ \A j \in Jobs : WF_vars(ReleaseStore(p, j))

FairSpec == Spec /\ Fairness

-------------------------------------------------------------------------------
\* Every variable keeps its type.
TypeOK ==
  /\ intentEx \in SUBSET Procs /\ intentSh \in SUBSET Procs
  /\ writeEx \in SUBSET Procs /\ writeSh \in SUBSET Procs
  /\ owns \in [Procs -> BOOLEAN] /\ fenced \in [Procs -> BOOLEAN]
  /\ leaseHeld \in [Procs -> BOOLEAN] /\ closed \in [Procs -> BOOLEAN]
  /\ storeJobs \in [Procs -> SUBSET Jobs]
  /\ pc \in [Procs -> PCs]
  /\ job \in [Procs -> Jobs]

\* The gate's fields and the kernel's locks tell the same story, and each lock
\* is held by one exclusive holder or by shared ones.
LocksMatchFields ==
  \A p \in Procs :
    /\ owns[p] <=> p \in intentEx
    /\ fenced[p] <=> p \in writeEx
    /\ leaseHeld[p] <=> p \in writeSh
    /\ pc[p] \in {"pin", "unprobe"} <=> p \in intentSh

LocksExclude ==
  /\ intentEx = {} \/ intentSh = {}
  /\ writeEx = {} \/ writeSh = {}
  /\ \A p, q \in Procs : p \in intentEx /\ q \in intentEx => p = q

JobsHoldLease == \A p \in Procs : storeJobs[p] # {} => leaseHeld[p]

FenceNeedsOwner == \A p \in Procs : fenced[p] => owns[p]

IInv == TypeOK /\ LocksMatchFields /\ LocksExclude /\ JobsHoldLease /\ FenceNeedsOwner

\* Shard deletion and filesystem writes exclude each other (docstring of
\* SharedEvictionGate): while one process has fenced writes no process, itself
\* included, has a store admitted and unfinished.
FenceExcludesStores ==
  \A p, q \in Procs : fenced[p] => storeJobs[q] = {}

\* At most one process believes it owns eviction, whatever crashes.
SoleOwner == \A p, q \in Procs : owns[p] /\ owns[q] => p = q

\* While a process owns eviction no store is admitted anywhere: the fence can
\* only get nearer.  try_pin_store keeps the shared intent lock until the write
\* lease is taken so that "an evictor cannot slip between the two checks".
OwnedMeansDraining ==
  [][\A p, q \in Procs : owns[p] => storeJobs'[q] \subseteq storeJobs[q]]_vars

\* The gate implements WriteFence: the owner is the process with the exclusive
\* intent lock, the fence is up while somebody has the exclusive write lock.
Owner == IF \E p \in Procs : owns[p] THEN CHOOSE p \in Procs : owns[p] ELSE NoProc

Fence == INSTANCE WriteFence WITH
           owner <- Owner, raised <- (\E p \in Procs : fenced[p]), stores <- storeJobs

FenceSpec == Fence!FenceSpec

\* An owner that stays gets its fence: nobody's new stores can starve it.
OwnerGetsFence == \A p \in Procs : owns[p] ~> (fenced[p] \/ ~owns[p])
===============================================================================
