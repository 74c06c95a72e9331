---------------------------- MODULE SparseAttention ----------------------------
(* Sparse attention of a prefill or a decode step.  The indices of each query     *)
(* (sliding window and top-k) are packed row by row into one ragged buffer; one   *)
(* program walks a query's keys with a running softmax, or split programs walk a  *)
(* slice each and a reduce program joins them.  The kernels follow one another on *)
(* the stream; the programs of one kernel run in any order.  A softmax is kept    *)
(* symbolically: a sum is the sequence of its terms <<key, slot, log>>, log the   *)
(* exponent of the term's weight.                                               *)
EXTENDS Integers, Sequences, FiniteSets, FiniteSetsExt, SequencesExt

CONSTANTS
    Calls,        \* what a call may look like, see Init
    Score,        \* slot -> the query's score for the key in it
    BlockK,       \* tokens a program walks at a time
    PackBlock     \* indices a packing program copies

VARIABLES
    call,         \* kernel, dense [segment -> rows], lengths, numRows, sink, units
    phase,        \* the kernel that runs: "pack", "attend", "reduce"
    flat,         \* segment -> the ragged buffer
    ran,          \* programs of the running kernel that are done
    parts,        \* <<query, split>> -> its partial softmax
    out

vars == <<call, phase, flat, ran, parts, out>>

NegLarge == -1000      \* below every score by more than exp can show
Exp0 == -500           \* exp of less is 0
Foreign == 3           \* whatever an uninitialised buffer holds

Cdiv(a, b) == (a + b - 1) \div b

Queries == DOMAIN call.dense["main"]
Segments == DOMAIN call.dense
Width(seg) == Len(call.dense[seg][1])

-----------------------------------------------------------------------------
(* build_ragged_indices_from_dense: lengths are clamped, rows laid end to end.    *)
Length(seg, q) == Min({Max({call.lengths[seg][q], 0}), Width(seg)})

RowStart(seg, q) == FoldLeft(LAMBDA sum, r : sum + IF r < q THEN Length(seg, r) ELSE 0,
                             0, [r \in Queries |-> r])

Usable(slot) == IF slot \in 0 .. call.numRows - 1 THEN slot ELSE -1

PackPrograms == UNION {{seg} \X Queries \X (0 .. Cdiv(Width(seg), PackBlock) - 1) :
                          seg \in Segments}

Pack(program) ==
    LET seg == program[1]  q == program[2]
        mine == {x \in program[3] * PackBlock .. (program[3] + 1) * PackBlock - 1 :
                    x < Length(seg, q)}
    IN  /\ phase = "pack" /\ program \notin ran
        /\ ran' = ran \cup {program}
        /\ flat' = [flat EXCEPT ![seg] = [x \in DOMAIN @ |->
                      IF x - RowStart(seg, q) \in mine
                      THEN Usable(call.dense[seg][q][x - RowStart(seg, q) + 1]) ELSE @[x]]]
        /\ UNCHANGED <<call, phase, parts, out>>

-----------------------------------------------------------------------------
(* _decode_num_splits: the split count of least cost waves * (1/s + 0.04), in      *)
(* whole numbers; then the smallest with as many waves and iterations.          *)
Waves(s) == Cdiv(Len(call.dense["main"]) * s, call.units)

CheaperSplits(s, t) == Waves(s) * (25 + s) * t < Waves(t) * (25 + t) * s

PartialIters(s) ==
    FoldSet(LAMBDA seg, sum : sum + Cdiv(Cdiv(Width(seg), s), BlockK), 0, Segments)

NumSplits ==
    LET best == FoldLeft(LAMBDA b, s : IF CheaperSplits(s, b) THEN s ELSE b, 1, [s \in 1 .. 16 |-> s])
    IN  Min({s \in 1 .. best : Waves(s) = Waves(best) /\ PartialIters(s) = PartialIters(best)})

(* One program does a whole query where split-K has not been tuned.              *)
Splits == IF call.kernel = "split" THEN NumSplits ELSE 1

-----------------------------------------------------------------------------
(* exp(a - b) times a sum.                                                       *)
Rescale(terms, a, b) ==
    SelectSeq([i \in DOMAIN terms |-> [terms[i] EXCEPT ![3] = @ + a - b]],
              LAMBDA t : t[3] > Exp0)

EmptySoftmax == [m |-> NegLarge, l |-> <<>>, acc |-> <<>>]

(* torch.empty.                                                                  *)
Uninitialised == LET junk == << << <<"?", 0>>, Foreign, 0 >> >> IN [m |-> 0, l |-> junk, acc |-> junk]

(* The slots of BLOCK_K keys from start, lane by lane; -1 beyond the slice.       *)
LoadSlots(seg, q, start, hi) ==
    [i \in 0 .. BlockK - 1 |-> IF start + i < hi THEN flat[seg][RowStart(seg, q) + start + i] ELSE -1]

(* The maximum is raised, what was summed is rescaled to it, and the valid keys   *)
(* are added.                                                                   *)
Attend(state, seg, start, loaded) ==
    LET valid == {i \in DOMAIN loaded : loaded[i] \in 0 .. call.numRows - 1}
        top == Max({state.m, NegLarge} \cup {Score[loaded[i]] : i \in valid})
        term(i) == << <<seg, start + i>>, loaded[i], Score[loaded[i]] - top >>
        lanes == SetToSortSeq(valid, <)
        terms == [n \in DOMAIN lanes |-> term(lanes[n])]
    IN  [m |-> top, l |-> Rescale(state.l, state.m, top) \o terms,
         acc |-> Rescale(state.acc, state.m, top) \o terms]

Starts(lo, hi) == [n \in 1 .. Max({0, Cdiv(hi - lo, BlockK)}) |-> lo + (n - 1) * BlockK]

\* Mutant: the division rounds down.
SliceRoundsDown(seg, q, split) ==
    LET chunk == Length(seg, q) \div Splits
    IN  [lo |-> split * chunk, hi |-> split * chunk + chunk]

(* The slice of a segment a split walks.                                        *)
Slice(seg, q, split) ==
    LET chunk == Cdiv(Length(seg, q), Splits)
    IN  [lo |-> split * chunk, hi |-> Min({split * chunk + chunk, Length(seg, q)})]

AttendSegment(state, seg, q, split) ==
    LET s == Slice(seg, q, split)
        walk(x, k) == Attend(x, seg, k, LoadSlots(seg, q, k, s.hi))
    IN  FoldLeft(walk, state, Starts(s.lo, s.hi))

(* The window's keys, then the top-k ones, if there are any.                     *)
AttendSlices(q, split) ==
    LET main == AttendSegment(EmptySoftmax, "main", q, split)
    IN  IF "extra" \in Segments THEN AttendSegment(main, "extra", q, split) ELSE main

(* A split's unnormalised state goes to the partial buffers.                     *)
DecodePartial(q, split) ==
    /\ phase = "attend" /\ call.kernel = "split"
    /\ <<q, split>> \in DOMAIN parts \ ran
    /\ parts' = [parts EXCEPT ![<<q, split>>] = AttendSlices(q, split)]
    /\ ran' = ran \cup {<<q, split>>}
    /\ UNCHANGED <<call, phase, flat, out>>

(* The sink counts in the denominator only; a query with no key gives zero.      *)
WithSink(state) ==
    IF call.sink = NegLarge THEN [l |-> state.l, acc |-> state.acc]
    ELSE LET top == Max({state.m, call.sink})
         IN  [l |-> Rescale(state.l, state.m, top) \o << <<"sink", call.sink - top>> >>,
              acc |-> Rescale(state.acc, state.m, top)]

Finish(q, state) ==
    /\ out' = [x \in DOMAIN out \cup {q} |-> IF x = q THEN WithSink(state) ELSE out[x]]
    /\ UNCHANGED <<call, phase, flat, ran, parts>>

DecodeWhole(q) ==
    /\ phase = "attend" /\ call.kernel = "whole" /\ q \notin DOMAIN out
    /\ Finish(q, AttendSlices(q, 0))

(* The prefill kernel loads the slots of the next BLOCK_K keys one round ahead.  *)
PrefillSoftmax(q) ==
    LET hi == Length("main", q)
        walk(x, k) == [state |-> Attend(x.state, "main", k, x.loaded),
                       loaded |-> LoadSlots("main", q, k + BlockK, hi)]
    IN  FoldLeft(walk, [state |-> EmptySoftmax, loaded |-> LoadSlots("main", q, 0, hi)],
                 Starts(0, hi)).state

Prefill(q) ==
    /\ phase = "attend" /\ call.kernel = "prefill" /\ q \notin DOMAIN out
    /\ Finish(q, PrefillSoftmax(q))

(* The maximum of all splits and the sink, then every split's sums at its weight.*)
DecodeReduce(q) ==
    LET all == [s \in 1 .. Splits |-> parts[<<q, s - 1>>]]
        comb == Max({all[s].m : s \in DOMAIN all})
        top == Max({comb, call.sink})
        sum(f) == FlattenSeq([s \in DOMAIN all |-> Rescale(all[s][f], all[s].m, top)])
        sunk == IF call.sink = NegLarge THEN <<>> ELSE << <<"sink", call.sink - top>> >>
    IN  /\ phase = "reduce" /\ q \notin DOMAIN out
        /\ out' = [x \in DOMAIN out \cup {q} |->
                      IF x = q THEN [l |-> sum("l") \o sunk, acc |-> sum("acc")] ELSE out[x]]
        /\ UNCHANGED <<call, phase, flat, ran, parts>>

(* The stream starts a kernel when every program of the last one is done.        *)
NextKernel ==
    /\ \/ phase = "pack" /\ ran = PackPrograms /\ phase' = "attend"
       \/ /\ phase = "attend" /\ call.kernel = "split" /\ ran = DOMAIN parts
          /\ phase' = "reduce"
    /\ ran' = {}
    /\ UNCHANGED <<call, flat, parts, out>>

Init ==
    /\ call \in Calls
    /\ phase = "pack" /\ ran = {} /\ out = <<>>
    /\ flat = [seg \in Segments |->
                  [x \in 0 .. Len(call.dense[seg]) * Width(seg) - 1 |-> Foreign]]
    /\ parts = [x \in Queries \X (0 .. Splits - 1) |-> Uninitialised]

Next ==
    \/ \E program \in PackPrograms : Pack(program)
    \/ \E q \in Queries, split \in 0 .. Splits - 1 : DecodePartial(q, split)
    \/ \E q \in Queries : Prefill(q) \/ DecodeWhole(q) \/ DecodeReduce(q)
    \/ NextKernel

Spec == Init /\ [][Next]_vars

-----------------------------------------------------------------------------
KeysOf(q) ==
    {key \in UNION {{seg} \X (0 .. Length(seg, q) - 1) : seg \in Segments} :
        call.dense[key[1]][q][key[2] + 1] \in 0 .. call.numRows - 1}

SlotOf(q, key) == call.dense[key[1]][q][key[2] + 1]

(* However the keys are packed, sliced and walked, the result is the softmax over  *)
(* the query's own valid keys: each enters the sum and the denominator exactly    *)
(* once, at its score relative to the one maximum of all of them and the sink,    *)
(* also when slices are empty or hold no valid key at all (build_ragged_indices_  *)
(* from_dense, _sparse_attn_decode_partial_kernel, _reduce_kernel, and the kernel *)
(* that does not split).                                                        *)
KeysCountOnce ==
    \A q \in DOMAIN out :
       LET keys == KeysOf(q)
           top == Max({Score[SlotOf(q, k)] : k \in keys} \cup {call.sink})
           terms == {<<k, SlotOf(q, k), Score[SlotOf(q, k)] - top>> : k \in keys}
           sunk == IF call.sink = NegLarge THEN {} ELSE {<<"sink", call.sink - top>>}
       IN  /\ Range(out[q].acc) = terms /\ Len(out[q].acc) = Cardinality(keys)
           /\ Range(out[q].l) = terms \cup sunk
           /\ Len(out[q].l) = Cardinality(keys) + Cardinality(sunk)
=============================================================================
