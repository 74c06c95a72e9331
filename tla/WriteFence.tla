------------------------------ MODULE WriteFence ------------------------------
(***************************************************************************)
(* What SharedEvictionGate promises the processes that share one cache     *)
(* directory: at most one of them owns eviction, nobody starts a store     *)
(* while there is an owner, and the owner raises the write fence only when *)
(* every store admitted before it has finished.  The locks that implement  *)
(* the promise are in EvictionGate.                                        *)
(***************************************************************************)
CONSTANTS Procs, Jobs, NoProc

VARIABLES owner,    \* the process that owns eviction, or NoProc
          raised,   \* whether the owner has fenced disk writes
          stores    \* per process, the store jobs admitted and not finished

fenceVars == <<owner, raised, stores>>

FenceInit == /\ owner = NoProc
             /\ raised = FALSE
             /\ stores = [p \in Procs |-> {}]

Elect(p) == /\ owner = NoProc
            /\ owner' = p
            /\ UNCHANGED <<raised, stores>>

Raise == /\ owner # NoProc
         /\ \A p \in Procs : stores[p] = {}
         /\ raised' = TRUE
         /\ UNCHANGED <<owner, stores>>

Admit(p, j) == /\ owner = NoProc
               /\ stores' = [stores EXCEPT ![p] = @ \cup {j}]
               /\ UNCHANGED <<owner, raised>>

Finish(p, j) == /\ stores' = [stores EXCEPT ![p] = @ \ {j}]
                /\ UNCHANGED <<owner, raised>>

Lower == /\ raised' = FALSE
         /\ UNCHANGED <<owner, stores>>

Resign == /\ ~raised
          /\ owner' = NoProc
          /\ UNCHANGED <<raised, stores>>

\* A process that exits drops its stores and, when it is the owner, the
\* ownership and the fence with it.
Leave(p) == /\ stores' = [stores EXCEPT ![p] = {}]
            /\ IF owner = p
                 THEN owner' = NoProc /\ raised' = FALSE
                 ELSE UNCHANGED <<owner, raised>>

FenceNext == \/ Raise \/ Lower \/ Resign
             \/ \E p \in Procs : \/ Elect(p) \/ Leave(p)
                                 \/ \E j \in Jobs : Admit(p, j) \/ Finish(p, j)

FenceSpec == FenceInit /\ [][FenceNext]_fenceVars
===============================================================================
