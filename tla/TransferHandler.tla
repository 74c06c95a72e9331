--------------------------- MODULE TransferHandler ---------------------------
(***************************************************************************)
(* CPUOffloadingWorker: a SingleDirectionOffloadingHandler per direction   *)
(* between GPU blocks and the slots of a memory-mapped file.  A transfer   *)
(* goes through a staging buffer: a store's copy from there to its slots   *)
(* is made when the transfer is collected, a load's copy into the buffer   *)
(* when it is submitted.  The streams of one direction are chained by      *)
(* events, so the GPU makes the copies in the order they were submitted.   *)
(***************************************************************************)
EXTENDS Naturals, Sequences, FiniteSets, SequencesExt

CONSTANT NoData

VARIABLES
    transfers, \* per direction, _transfers: in flight or not collected
    gpu,       \* contents of the GPU blocks
    cpu        \* contents of the slots

handlerVars == <<transfers, gpu, cpu>>

Directions == {"store", "load"}

\* A transfer is a set of moves, each between a block and a slot.
Transfer(id, job, staging) ==
    [id |-> id, job |-> job, staging |-> staging, done |-> FALSE]

\* What is in the staging buffer at submission: copy_host_pages fills a load's
\* from the slots.
Staged(dir, job) ==
    [m \in job.moves |-> IF dir = "load" THEN cpu[m.slot] ELSE NoData]

\* The first transfer of a direction whose end event is not reached.
FirstRunning(dir) ==
    LET running == {i \in DOMAIN transfers[dir] : ~transfers[dir][i].done}
    IN  CHOOSE i \in running : \A x \in running : i <= x

\* The GPU's copy of the next store: blocks into the staging buffer.
StoreCopied ==
    LET i == FirstRunning("store")
    IN  /\ \E x \in DOMAIN transfers["store"] : ~transfers["store"][x].done
        /\ transfers' = [transfers EXCEPT !["store"][i].done = TRUE,
                            !["store"][i].staging =
                                [m \in DOMAIN @ |-> gpu[m.block]]]
        /\ UNCHANGED <<gpu, cpu>>

\* The GPU's copy of the next load: staging buffer into the blocks.
LoadCopied ==
    LET i == FirstRunning("load")
        t == transfers["load"][i]
        To(b) == {m \in t.job.moves : m.block = b}
    IN  /\ \E x \in DOMAIN transfers["load"] : ~transfers["load"][x].done
        /\ transfers' = [transfers EXCEPT !["load"][i].done = TRUE]
        /\ gpu' = [b \in DOMAIN gpu |->
                      IF To(b) = {} THEN gpu[b]
                      ELSE t.staging[CHOOSE m \in To(b) : TRUE]]
        /\ UNCHANGED cpu

\* wait(job_ids): the end events of these jobs are reached.  (Nothing is said of
\* the copy from the staging buffer to the slots.)
Waited(ids) ==
    \A dir \in Directions : \A i \in DOMAIN transfers[dir] :
        transfers[dir][i].id \in ids => transfers[dir][i].done

\* The transfers get_finished collects: those done before the first that is not.
DonePrefix(dir) ==
    CHOOSE n \in 0..Len(transfers[dir]) :
        /\ \A i \in 1..n : transfers[dir][i].done
        /\ n < Len(transfers[dir]) => ~transfers[dir][n + 1].done

\* The slots after the collected stores' host copies, one after the other.
CopiedOut(n) ==
    [s \in DOMAIN cpu |->
        LET writers == {i \in 1..n :
                           \E m \in transfers["store"][i].job.moves : m.slot = s}
            t == transfers["store"][CHOOSE i \in writers : \A x \in writers : x <= i]
        IN  IF writers = {} THEN cpu[s]
            ELSE t.staging[CHOOSE m \in t.job.moves : m.slot = s]]

\* get_finished of both handlers.
Collected == UNION {Range(SubSeq(transfers[d], 1, DonePrefix(d))) : d \in Directions}
GetFinished ==
    /\ cpu' = CopiedOut(DonePrefix("store"))
    /\ transfers' = [d \in Directions |->
                        SubSeq(transfers[d], DonePrefix(d) + 1, Len(transfers[d]))]
    /\ UNCHANGED gpu
=============================================================================
