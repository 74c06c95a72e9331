-------------------------- MODULE EvictionGateProofs --------------------------
(***************************************************************************)
(* Proofs about EvictionGate, for any set of processes and of jobs.        *)
(***************************************************************************)
EXTENDS EvictionGate, TLAPS

\* The initial state of the gate satisfies the inductive invariant.
LEMMA InitIInv == Init => IInv
  BY DEF Init, IInv, TypeOK, PCs, LocksMatchFields, LocksExclude, JobsHoldLease,
         FenceNeedsOwner

\* A step of one process other than its exit and construction keeps the
\* invariant.
LEMMA MethodKeepsIInv ==
  ASSUME NEW p \in Procs, IInv,
         \/ TryBeginEviction(p) \/ TryFenceWrites(p)
         \/ \E j \in Jobs : PinProbe(p, j) \/ ReleaseStore(p, j)
         \/ TakeWriteLease(p) \/ UnlockProbe(p) \/ ProbeActive(p)
         \/ StartFinish(p) \/ StartClose(p)
         \/ LiftFence(p) \/ DropIntent(p) \/ CloseGate(p)
         \/ Exit(p) \/ Construct(p)
  PROVE  IInv'
<1> USE DEF IInv, TypeOK, PCs, LocksMatchFields, LocksExclude, JobsHoldLease,
            FenceNeedsOwner, Goto, locks, fields
<1>1. CASE TryBeginEviction(p)
  BY <1>1 DEF TryBeginEviction, IntentFreeForEx
<1>2. CASE TryFenceWrites(p)
  BY <1>2 DEF TryFenceWrites, WriteFreeForEx
<1>3. ASSUME NEW j \in Jobs, PinProbe(p, j) PROVE IInv'
  BY <1>3 DEF PinProbe, IntentFreeForSh
<1>4. ASSUME NEW j \in Jobs, ReleaseStore(p, j) PROVE IInv'
  BY <1>4, ZenonT(60) DEF ReleaseStore
<1>5. CASE TakeWriteLease(p)
  <2>1. WriteFreeForSh
    BY <1>5 DEF TakeWriteLease, WriteFreeForSh
  <2>2. /\ writeSh' = writeSh \cup {p}
        /\ leaseHeld' = [leaseHeld EXCEPT ![p] = TRUE]
        /\ storeJobs' = [storeJobs EXCEPT ![p] = @ \cup {job[p]}]
        /\ pc' = [pc EXCEPT ![p] = "unprobe"]
        /\ UNCHANGED <<intentEx, intentSh, writeEx, owns, fenced, closed, job>>
    BY <1>5, <2>1 DEF TakeWriteLease
  <2>3. pc[p] = "pin" /\ writeEx = {}
    BY <1>5, <2>1 DEF TakeWriteLease, WriteFreeForSh
  <2> QED
    BY <2>2, <2>3
<1>6. CASE UnlockProbe(p)
  BY <1>6 DEF UnlockProbe
<1>7. CASE ProbeActive(p)
  BY <1>7 DEF ProbeActive, IntentFreeForSh
<1>8. CASE StartFinish(p)
  BY <1>8 DEF StartFinish
<1>9. CASE StartClose(p)
  BY <1>9 DEF StartClose
<1>10. CASE LiftFence(p)
  BY <1>10 DEF LiftFence
<1>11. CASE DropIntent(p)
  BY <1>11 DEF DropIntent
<1>12. CASE CloseGate(p)
  BY <1>12 DEF CloseGate
<1>13. CASE Exit(p)
  BY <1>13 DEF Exit
<1>14. CASE Construct(p)
  BY <1>14 DEF Construct
<1> QED
  BY <1>1, <1>2, <1>3, <1>4, <1>5, <1>6, <1>7, <1>8, <1>9, <1>10, <1>11,
     <1>12, <1>13, <1>14

\* So does every step, crashes and new processes included.
LEMMA StepKeepsIInv == IInv /\ [Next]_vars => IInv'
<1> SUFFICES ASSUME IInv, [Next]_vars PROVE IInv'
  OBVIOUS
<1>1. CASE Next
  BY <1>1, MethodKeepsIInv DEF Next
<1>2. CASE UNCHANGED vars
  BY <1>2 DEF vars, IInv, TypeOK, LocksMatchFields, LocksExclude, JobsHoldLease,
              FenceNeedsOwner
<1> QED
  BY <1>1, <1>2

\* The gate's inductive invariant, type correctness included, holds in every
\* reachable state.
THEOREM IInvHolds == Spec => []IInv
  BY InitIInv, StepKeepsIInv, PTL DEF Spec

\* While one process has fenced writes, no process has a store in flight: the
\* exclusive write lock excludes the lease every admitted store keeps.
THEOREM FenceExcludesStoresHolds == Spec => []FenceExcludesStores
<1>1. IInv => FenceExcludesStores
  BY DEF IInv, TypeOK, LocksMatchFields, LocksExclude, JobsHoldLease,
         FenceExcludesStores
<1> QED
  BY <1>1, IInvHolds, PTL

\* The exclusive intent lock has one holder, so eviction has one owner.
LEMMA IInvSoleOwner == IInv => SoleOwner
  BY DEF IInv, TypeOK, LocksMatchFields, LocksExclude, SoleOwner

\* At most one process owns eviction in every reachable state.
THEOREM SoleOwnerHolds == Spec => []SoleOwner
  BY IInvSoleOwner, IInvHolds, PTL

\* While a process owns eviction no step admits a store.  Only TakeWriteLease admits
\* one, and the shared intent lock it runs under excludes an owner.
THEOREM OwnedMeansDrainingHolds == Spec => OwnedMeansDraining
<1>1. ASSUME IInv, [Next]_vars, NEW p \in Procs, NEW q \in Procs, owns[p]
      PROVE  storeJobs'[q] \subseteq storeJobs[q]
  <2> USE <1>1 DEF IInv, TypeOK, LocksMatchFields, LocksExclude, locks, fields
  <2>1. ~(\E r \in Procs : TakeWriteLease(r))
    BY DEF TakeWriteLease
  <2>2. ASSUME NEW r \in Procs, NEW j \in Jobs, ReleaseStore(r, j)
        PROVE  storeJobs'[q] \subseteq storeJobs[q]
    BY <2>2 DEF ReleaseStore
  <2>3. ASSUME NEW r \in Procs, CloseGate(r) \/ Exit(r)
        PROVE  storeJobs'[q] \subseteq storeJobs[q]
    BY <2>3 DEF CloseGate, Exit
  <2>4. CASE UNCHANGED storeJobs
    BY <2>4
  <2> QED
    BY <2>1, <2>2, <2>3, <2>4
    DEF Next, vars, TryBeginEviction, TryFenceWrites, PinProbe,
        UnlockProbe, ProbeActive, StartFinish, StartClose, LiftFence, DropIntent,
        Construct
<1>2. IInv /\ [Next]_vars =>
        [\A p, q \in Procs : owns[p] => storeJobs'[q] \subseteq storeJobs[q]]_vars
  BY <1>1
<1> QED
  BY <1>2, IInvHolds, PTL DEF Spec, OwnedMeansDraining

-------------------------------------------------------------------------------
\* The process with the intent lock is the abstract owner, and there is an
\* owner only when some process has it.
OwnerFacts == /\ \A p \in Procs : owns[p] <=> Owner = p
              /\ (\A p \in Procs : ~owns[p]) <=> Owner = NoProc
              /\ Owner \in Procs \cup {NoProc}

\* Owner names the process whose _owns_eviction is set, if there is one.
LEMMA OwnerIsHolder == IInv => OwnerFacts
<1> SUFFICES ASSUME IInv PROVE OwnerFacts
  OBVIOUS
<1> USE DEF OwnerFacts
<1>1. SoleOwner
  BY IInvSoleOwner
<1>2. CASE \E p \in Procs : owns[p]
  <2>1. PICK p \in Procs : owns[p]
    BY <1>2
  <2>2. Owner \in Procs /\ owns[Owner]
    BY <1>2 DEF Owner
  <2>3. \A q \in Procs : owns[q] <=> q = Owner
    BY <1>1, <2>2 DEF SoleOwner
  <2> QED
    BY <2>1, <2>2, <2>3, NoProcAssumption
<1>3. CASE \A p \in Procs : ~owns[p]
  BY <1>3, NoProcAssumption DEF Owner
<1> QED
  BY <1>2, <1>3

\* Every step of a method is a step of the abstract fence or leaves it alone.
LEMMA MethodRefines ==
  ASSUME NEW p \in Procs, IInv, IInv', OwnerFacts, OwnerFacts',
         \/ TryBeginEviction(p) \/ TryFenceWrites(p)
         \/ \E j \in Jobs : PinProbe(p, j) \/ ReleaseStore(p, j)
         \/ TakeWriteLease(p) \/ UnlockProbe(p) \/ ProbeActive(p)
         \/ StartFinish(p) \/ StartClose(p)
         \/ LiftFence(p) \/ DropIntent(p) \/ CloseGate(p)
         \/ Exit(p) \/ Construct(p)
  PROVE  [Fence!FenceNext]_(Fence!fenceVars)
<1> DEFINE raised == \E q \in Procs : fenced[q]
<1> USE DEF IInv, TypeOK, LocksMatchFields, LocksExclude, JobsHoldLease,
            FenceNeedsOwner, OwnerFacts, Fence!FenceNext, Fence!fenceVars, locks, fields
<1>1. CASE TryBeginEviction(p)
  <2>1. Owner = NoProc /\ Owner' = p
    BY <1>1 DEF TryBeginEviction, IntentFreeForEx
  <2>2. raised' = raised /\ storeJobs' = storeJobs
    BY <1>1 DEF TryBeginEviction
  <2> QED
    BY <2>1, <2>2 DEF Fence!Elect
<1>2. CASE TryFenceWrites(p)
  <2>1. \A q \in Procs : storeJobs[q] = {}
    BY <1>2 DEF TryFenceWrites, WriteFreeForEx
  <2>2. raised' = TRUE /\ storeJobs' = storeJobs /\ owns' = owns /\ owns[p]
    BY <1>2 DEF TryFenceWrites
  <2>3. Owner' = Owner /\ Owner # NoProc
    BY <2>2
  <2> QED
    BY <2>1, <2>2, <2>3 DEF Fence!Raise
<1>3. CASE TakeWriteLease(p)
  <2>1. Owner = NoProc
    BY <1>3 DEF TakeWriteLease
  <2>2. owns' = owns /\ fenced' = fenced /\ job[p] \in Jobs
        /\ storeJobs' = [storeJobs EXCEPT ![p] = @ \cup {job[p]}]
    BY <1>3, <2>1 DEF TakeWriteLease, WriteFreeForSh
  <2>3. Owner' = Owner
    BY <2>2
  <2> QED
    BY <2>1, <2>2, <2>3 DEF Fence!Admit
<1>4. ASSUME NEW j \in Jobs, ReleaseStore(p, j) PROVE [Fence!FenceNext]_(Fence!fenceVars)
  BY <1>4 DEF ReleaseStore, Fence!Finish
<1>5. CASE LiftFence(p)
  <2>1. owns' = owns /\ storeJobs' = storeJobs /\ raised' = FALSE
    BY <1>5 DEF LiftFence
  <2>2. Owner' = Owner
    BY <2>1
  <2> QED
    BY <2>1, <2>2 DEF Fence!Lower
<1>6. CASE DropIntent(p)
  <2>1. ~raised /\ fenced' = fenced /\ storeJobs' = storeJobs
    BY <1>6 DEF DropIntent
  <2>2. Owner' = NoProc
    BY <1>6 DEF DropIntent
  <2> QED
    BY <2>1, <2>2 DEF Fence!Resign
<1>7. ASSUME CloseGate(p) \/ Exit(p) PROVE Fence!Leave(p)
  <2>1. storeJobs' = [storeJobs EXCEPT ![p] = {}]
    BY <1>7 DEF CloseGate, Exit
  <2>2. CASE Owner = p
    <3>1. owns[p] /\ Exit(p)
      BY <1>7, <2>2 DEF CloseGate
    <3>2. Owner' = NoProc /\ raised' = FALSE
      BY <3>1 DEF Exit
    <3> QED
      BY <2>1, <2>2, <3>2 DEF Fence!Leave
  <2>3. CASE Owner # p
    <3>1. ~owns[p] /\ ~fenced[p] /\ owns' = owns /\ fenced' = fenced
      BY <1>7, <2>3 DEF CloseGate, Exit
    <3>2. Owner' = Owner /\ raised' = raised
      BY <3>1
    <3> QED
      BY <2>1, <2>3, <3>2 DEF Fence!Leave
  <2> QED
    BY <2>2, <2>3
<1>8. ASSUME UNCHANGED <<owns, fenced, storeJobs>> PROVE UNCHANGED Fence!fenceVars
  BY <1>8
<1> QED
  BY <1>1, <1>2, <1>3, <1>4, <1>5, <1>6, <1>7, <1>8
  DEF PinProbe, UnlockProbe, ProbeActive, StartFinish, StartClose,
      Construct

\* So is every step of the gate, exit and construction included.
LEMMA StepRefines == IInv /\ IInv' /\ OwnerFacts /\ OwnerFacts' /\ [Next]_vars
                       => [Fence!FenceNext]_(Fence!fenceVars)
<1> SUFFICES ASSUME IInv, IInv', OwnerFacts, OwnerFacts', [Next]_vars
             PROVE  [Fence!FenceNext]_(Fence!fenceVars)
  OBVIOUS
<1>1. CASE Next
  BY <1>1, MethodRefines DEF Next
<1>2. CASE UNCHANGED vars
  BY <1>2 DEF vars, Fence!fenceVars, Owner
<1> QED
  BY <1>1, <1>2

\* The two file locks implement the write fence: every behaviour of the gate's
\* processes, crashes included, is one the abstract fence allows.
THEOREM GateImplementsFence == Spec => FenceSpec
<1>1. Init => Fence!FenceInit
  BY DEF Init, Owner, Fence!FenceInit
<1> QED
  BY <1>1, StepRefines, OwnerIsHolder, IInvHolds, PTL
  DEF Spec, FenceSpec, Fence!FenceSpec
===============================================================================
