----------------------------- MODULE PagedMqaLogits -----------------------------
(* The paged MQA logits kernel of the sparse indexer, whose K cache is a pool of *)
(* blocks that layers share, so that a block's offset may not fit in 32 bits.    *)
(* Programs divide each row's context; each runs a software pipeline that holds  *)
(* two half chunks of K and two entries of the block table ahead of the one it   *)
(* multiplies.  A logit is the pair of addresses its K and its scale came from.  *)
EXTENDS Integers, Sequences, FiniteSets, FiniteSetsExt, SequencesExt

CONSTANTS
    Launches,     \* what a launch may look like, see Init
    Stride,       \* distance of two blocks in the pool
    WideBits,     \* width of a pointer
    NarrowBits    \* width of a buffer offset

VARIABLES
    launch,       \* chunk, block, nextN, splits, safe, maxLen, contexts, tables
    programs,     \* program -> where its pipeline is
    logits        \* the output buffer, which is not cleared before the launch

vars == <<launch, programs, logits>>

Stale == <<>>
NegInf == <<"-inf">>
Undefined == -1        \* what a masked load without a default gives

Cdiv(a, b) == (a + b - 1) \div b

Stage == launch.chunk \div 2
InBlocks == Stage % launch.block # 0
Batches == DOMAIN launch.contexts
Rows == Len(launch.contexts) * launch.nextN

-----------------------------------------------------------------------------
(* The share of one program: its row's context is cut in chunks, and the first   *)
(* shares take the chunks left over.  An empty share has length 0 or less.       *)
Share(batch, n, split, shares) ==
    LET context == launch.contexts[batch]
        chunks == Cdiv(context, launch.chunk)
        each == chunks \div shares
        over == chunks % shares
        start == (split * each + Min({split, over})) * launch.chunk
        most == (each + (IF split < over THEN 1 ELSE 0)) * launch.chunk
    IN  [batch |-> batch, n |-> n, start |-> start, length |-> Min({context - start, most})]

(* Program ids are laid out batch first, then query, then split.                 *)
EvenShare(pid) ==
    LET rest == pid \div Len(launch.contexts)
    IN  Share((pid % Len(launch.contexts)) + 1, rest % launch.nextN,
              rest \div launch.nextN, launch.splits)

(* With variable contexts a program walks the batch to find its row; a row has a *)
(* program for every safe_chunks_per_cta chunks.  An empty row ends the walk.    *)
VariableShare(pid) ==
    LET ctas(b) == IF b \in Batches
                   THEN Cdiv(Cdiv(launch.contexts[b], launch.chunk), launch.safe) ELSE 0
        walk(x, b) == IF b = x.batch /\ x.left >= ctas(b) * launch.nextN /\ ctas(b) > 0
                      THEN [batch |-> b + 1, left |-> x.left - ctas(b) * launch.nextN] ELSE x
        found == FoldLeft(walk, [batch |-> 1, left |-> pid], [b \in Batches |-> b])
    IN  IF ctas(found.batch) = 0 THEN [length |-> 0]
        ELSE Share(found.batch, found.left % launch.nextN, found.left \div launch.nextN,
                   ctas(found.batch))

WorkOf(pid) == IF launch.safe = 0 THEN EvenShare(pid) ELSE VariableShare(pid)

-----------------------------------------------------------------------------
(* kv_indices of a row; beyond the row's blocks the load is masked or reads what  *)
(* nothing uses.                                                                *)
TableEntry(batch, i) ==
    IF i \in 0 .. Len(launch.tables[batch]) - 1 THEN launch.tables[batch][i + 1] ELSE Undefined

\* Mutant: the address is formed in 32 bits and widened afterwards.
BlockAddressInInt32(block, token) == (block * Stride + token) % 2 ^ NarrowBits

(* Which loads of K go through a pointer formed after .to(tl.int64); the pipeline *)
(* for large blocks of the variable-context kernel keeps 32-bit buffer offsets.   *)
Wide == launch.safe = 0 \/ ~InBlocks

BlockAddress(block, token) ==
    (block * Stride + token) % 2 ^ (IF Wide THEN WideBits ELSE NarrowBits)

Gather(block, token) ==
    IF block = Undefined THEN Undefined ELSE BlockAddress(block, token)

(* A half chunk at a position, from one block or from a vector of them: the      *)
(* addresses of K and of the scale, lane by lane.                               *)
LoadFromBlock(block, at) ==
    [i \in 0 .. Stage - 1 |-> <<Gather(block, (at % launch.block) + i),
                               Gather(block, (at + i) % launch.block)>>]

TableVector(batch, at, from) ==
    [i \in 0 .. Stage - 1 |->
        LET b == at \div launch.block + i \div launch.block
        IN  IF b >= from \div launch.block THEN TableEntry(batch, b) ELSE 0]

LoadFromVector(blocks) ==
    [i \in 0 .. Stage - 1 |-> <<Gather(blocks[i], i % launch.block),
                               Gather(blocks[i], i % launch.block)>>]

(* The causal limit: a row of next_n queries ends next_n - 1 - n tokens early.    *)
Limit(work) == launch.contexts[work.batch] - launch.nextN + work.n

Causal(work, at, half) ==
    [i \in DOMAIN half |-> IF at + i <= Limit(work) THEN half[i] ELSE NegInf]

(* buffer_store of a half chunk where the mask holds.                           *)
StoreHalves(buffer, work, halves) ==
    LET row == ((work.batch - 1) * launch.nextN + work.n) * launch.maxLen
        put(b, h) == [x \in DOMAIN b |->
            IF x - row - h.at \in DOMAIN h.half /\ x - row \in h.from .. h.to
            THEN h.half[x - row - h.at] ELSE b[x]]
    IN  FoldLeft(put, buffer, halves)

Half(at, half, from, to) == [at |-> at, half |-> half, from |-> from, to |-> to]

Whole == Rows * launch.maxLen

-----------------------------------------------------------------------------
(* A block holds more than a half chunk (KVBlockSize = 256 in production): two    *)
(* table entries are kept, and rotated when the first's half chunks are used up.  *)
PagedStart(pid, work) ==
    LET first == work.start \div launch.block
        b0 == TableEntry(work.batch, first)
        half == LoadFromBlock(b0, work.start)
    IN  /\ programs' = [programs EXCEPT ![pid] =
              [ phase |-> "loop", work |-> work, end |-> work.start + work.length,
                at |-> work.start,
                b0 |-> b0, b1 |-> TableEntry(work.batch, first + 1), next |-> first + 2,
                rank |-> ((work.start \div Stage) % (launch.block \div Stage)) + 2,
                half |-> LoadFromBlock(b0, work.start + Stage) ]]
        /\ logits' = StoreHalves(logits, work,
              <<Half(work.start, Causal(work, work.start, half), 0, launch.maxLen - 1)>>)

(* One iteration; the second half of the chunk in hand is stored unmasked.       *)
PagedIterate(pid) ==
    LET p == programs[pid]
        turn == p.rank = launch.block \div Stage
        b0 == IF turn THEN p.b1 ELSE p.b0
        ahead == p.at + launch.chunk
        half == LoadFromBlock(b0, ahead)
    IN  /\ programs' = [programs EXCEPT ![pid] =
              [p EXCEPT !.at = ahead, !.b0 = b0,
                        !.b1 = IF turn THEN TableEntry(p.work.batch, p.next) ELSE @,
                        !.next = IF turn THEN @ + 1 ELSE @,
                        !.rank = (IF turn THEN 0 ELSE @) + 2,
                        !.half = LoadFromBlock(b0, ahead + Stage)]]
        /\ logits' = StoreHalves(logits, p.work,
              << Half(p.at + Stage, p.half, 0, launch.maxLen - 1),
                 Half(ahead, Causal(p.work, ahead, half), 0, launch.maxLen - 1) >>)

(* A half chunk holds whole blocks: the share is rounded up to blocks and ends    *)
(* with its context, so its first chunk may begin before the share does.         *)
StagedStart(pid, work) ==
    LET blocks == Cdiv(work.length, launch.block)
        perChunk == launch.chunk \div launch.block
        lead == ((perChunk - (blocks % perChunk)) % perChunk) * launch.block
        at == work.start - lead
        end == work.start + blocks * launch.block
        vector(x) == TableVector(work.batch, x, work.start)
    IN  /\ programs' = [programs EXCEPT ![pid] =
              [ phase |-> "loop", work |-> work, end |-> end, at |-> at,
                v0 |-> IF at + launch.chunk < end THEN vector(at + launch.chunk)
                       ELSE vector(at),
                half |-> LoadFromVector(vector(at + Stage)) ]]
        /\ logits' = StoreHalves(logits, work,
              <<Half(at, LoadFromVector(vector(at)), work.start, Whole)>>)

StagedIterate(pid) ==
    LET p == programs[pid]
        ahead == p.at + launch.chunk
        vector(x) == TableVector(p.work.batch, x, 0)
    IN  /\ programs' = [programs EXCEPT ![pid] =
              [p EXCEPT !.at = ahead,
                        !.v0 = IF ahead + launch.chunk < p.end
                               THEN vector(ahead + launch.chunk) ELSE @,
                        !.half = LoadFromVector(vector(ahead + Stage))]]
        /\ logits' = StoreHalves(logits, p.work,
              << Half(p.at + Stage, p.half, p.work.start, Whole),
                 Half(ahead, LoadFromVector(p.v0), 0, launch.maxLen - 1) >>)

-----------------------------------------------------------------------------
(* A program begins: nothing to do, or the pipeline's prologue.                  *)
Start(pid) ==
    /\ programs[pid].phase = "ready"
    /\ LET work == WorkOf(pid) IN
       IF work.length <= 0
       THEN /\ programs' = [programs EXCEPT ![pid] = [phase |-> "done"]]
            /\ UNCHANGED logits
       ELSE IF InBlocks THEN PagedStart(pid, work) ELSE StagedStart(pid, work)
    /\ UNCHANGED launch

Iterate(pid) ==
    /\ programs[pid].phase = "loop"
    /\ programs[pid].at < programs[pid].end - launch.chunk
    /\ IF InBlocks THEN PagedIterate(pid) ELSE StagedIterate(pid)
    /\ UNCHANGED launch

(* The half chunk still in hand, and where it may be stored.                     *)
PagedTail(p) == Half(p.at + Stage, Causal(p.work, p.at + Stage, p.half), 0, launch.maxLen - 1)

StagedTail(p) == Half(p.at + Stage, Causal(p.work, p.at + Stage, p.half), p.work.start, Whole)

Epilogue(pid) ==
    LET p == programs[pid] IN
    /\ p.phase = "loop" /\ p.at >= p.end - launch.chunk
    /\ programs' = [programs EXCEPT ![pid] = [phase |-> "done"]]
    /\ logits' = StoreHalves(logits, p.work,
                             <<IF InBlocks THEN PagedTail(p) ELSE StagedTail(p)>>)
    /\ UNCHANGED launch

Init ==
    /\ launch \in Launches
    /\ programs = [pid \in 0 .. Rows * launch.splits - 1 |-> [phase |-> "ready"]]
    /\ logits = [x \in 0 .. Whole - 1 |-> Stale]

Next == \E pid \in DOMAIN programs : Start(pid) \/ Iterate(pid) \/ Epilogue(pid)

Spec == Init /\ [][Next]_vars

-----------------------------------------------------------------------------
(* fp8_paged_mqa_logits_torch: position p of a row is the token p % block of the  *)
(* block the table names, up to the row's limit.                                 *)
Reference(batch, n, p) ==
    LET address == launch.tables[batch][p \div launch.block + 1] * Stride + (p % launch.block)
    IN  IF p <= launch.contexts[batch] - launch.nextN + n THEN <<address, address>> ELSE NegInf

AllDone == \A pid \in DOMAIN programs : programs[pid].phase = "done"

(* What the consumer reads: a row up to its limit.  The stores without a mask     *)
(* reach further only when next_n exceeds 2; up to 2 the tail is -inf.           *)
Observed(batch, n) ==
    0 .. launch.contexts[batch] - 1 - (IF launch.nextN <= 2 THEN 0 ELSE launch.nextN - 1 - n)

(* Whatever the split, the order the programs run in and however far apart the    *)
(* blocks lie, no position top-k reads ever holds a wrong logit, and when the     *)
(* programs are done none is missing: chunks are shared out without gap, the      *)
(* table entry in hand is always the one of the chunk being loaded, and the       *)
(* address of a far block does not wrap (_gluon_deepgemm_fp8_paged_mqa_logits_    *)
(* preshuffle, both pipelines, and its variable-context form).                    *)
LogitsAreRight ==
    \A batch \in Batches, n \in 0 .. launch.nextN - 1 :
       \A p \in Observed(batch, n) :
          LET got == logits[((batch - 1) * launch.nextN + n) * launch.maxLen + p]
          IN  got = Reference(batch, n, p) \/ (got = Stale /\ ~AllDone)
=============================================================================
