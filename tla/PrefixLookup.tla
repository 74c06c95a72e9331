----------------------------- MODULE PrefixLookup -----------------------------
(* How the offloading scheduler finds the longest prefix it can load when the  *)
(* model's layers form several KV-cache groups: full attention needs every     *)
(* chunk of the prefix, a sliding window only the last ones, and chunk sizes    *)
(* differ.  _lookup tightens one bound group after group until nothing changes.*)
(* One request stores its chunks as it is computed, skipping those no lookup   *)
(* can ask for; chunks are evicted; another request with the same text asks.   *)
EXTENDS Integers, Sequences, FiniteSets, FiniteSetsExt, SequencesExt

CONSTANTS
    Layouts,      \* the lists of groups: chunk (tokens), window (chunks, 0: full), eagle, skip
    MaxTokens,    \* bound: tokens of the text
    Prompts,      \* lengths the storing request's prompt may have
    Unsure        \* answers of the tiers other than hit and miss: "retry", "pending"

VARIABLES
    layout,       \* the groups, in order
    prompt,       \* prompt tokens of the storing request
    stored,       \* tokens of the storing request that have been computed and stored
    nextChunk,    \* group -> next_stored_chunk_idx
    present,      \* <<group, chunk>> the manager holds
    evicted,      \* some chunk has been evicted
    unsure,       \* <<group, chunk>> the tiers do not answer for yet -> how
    look          \* the lookup that runs

vars == <<layout, prompt, stored, nextChunk, present, evicted, unsure, look>>

NoLook == [phase |-> "none"]

Cdiv(a, b) == (a + b - 1) \div b

-----------------------------------------------------------------------------
(* from_spec: chunks of a sliding-window group in one alignment segment, the     *)
(* chunk of the one full-attention size there is; 0 when nothing can be skipped.*)
FullSizes == {layout[g].chunk : g \in {x \in DOMAIN layout : layout[x].window = 0}}

AlignmentChunks(g) ==
    LET size == CHOOSE s \in FullSizes : TRUE
        perSegment == size \div layout[g].chunk
    IN  IF Cardinality(FullSizes) = 1 /\ layout[g].window \in 1 .. perSegment - 1
        THEN perSegment ELSE 0

\* Mutant: the window's tail counted one chunk short.
ReachableTailShort(g, i, storable) ==
    LET count == AlignmentChunks(g)
        segment == i - (i % count)
    IN  count = 0 \/ i % count > Min({count, storable - segment}) - layout[g].window

IsStoreReachable(g, i, storable) ==
    LET count == AlignmentChunks(g)
        segment == i - (i % count)
        tail == layout[g].window + (IF layout[g].eagle THEN 1 ELSE 0)
    IN  count = 0 \/ i % count >= Min({count, storable - segment}) - tail

Storable(g, tokens) ==
    LET chunks == tokens \div layout[g].chunk
    IN  IF layout[g].eagle /\ tokens > prompt THEN Max({0, chunks - 1}) ELSE chunks

Groups == {g \in DOMAIN layout : ~layout[g].skip}

(* The keys a step's stores cover, and how far the indexes advance.             *)
StoreUpTo(tokens) ==
    /\ look = NoLook /\ ~evicted
    /\ tokens > stored
    /\ stored' = tokens
    /\ present' = present \cup
          {k \in UNION {{g} \X (nextChunk[g] .. Storable(g, tokens) - 1) : g \in Groups} :
              IsStoreReachable(k[1], k[2], Storable(k[1], tokens))}
    /\ nextChunk' = [g \in DOMAIN layout |-> Max({nextChunk[g], Storable(g, tokens)})]
    /\ UNCHANGED <<layout, prompt, evicted, unsure, look>>

Evict(key) ==
    /\ look = NoLook
    /\ key \in present
    /\ present' = present \ {key}
    /\ evicted' = TRUE
    /\ UNCHANGED <<layout, prompt, stored, nextChunk, unsure, look>>

-----------------------------------------------------------------------------
(* manager.lookup.                                                              *)
Answer(key) ==
    IF key \in DOMAIN unsure THEN unsure[key] ELSE IF key \in present THEN "hit" ELSE "miss"

Counts(answer) == answer \in {"hit", "pending"}

(* _maximal_prefix_lookup over chunks from .. to - 1: hits before the first     *)
(* miss, retries passed over; None (-1) when an answer on the way is not final. *)
MaximalPrefix(g, from, to) ==
    LET misses == {i \in from .. to - 1 : Answer(<<g, i>>) = "miss"}
        stop == Min(misses \cup {to})
        seen == from .. stop - 1
    IN  IF \E i \in seen : Answer(<<g, i>>) \in Unsure THEN -1
        ELSE Cardinality({i \in seen : Counts(Answer(<<g, i>>))})

(* _sliding_window_lookup: the end of the last run of window hits, else the      *)
(* run the range starts with; None when an answer on the way is not final.      *)
SlidingWindow(g, from, to, window) ==
    LET hits(a, b) == \A i \in a .. b - 1 : Counts(Answer(<<g, i>>))
        ends == {e \in from + window .. to : hits(e - window, e)}
        runs == {e \in from .. to : hits(from, e)}
        scanned == (IF ends = {} THEN from ELSE Max(ends) - window) .. to - 1
    IN  IF \E i \in scanned : Answer(<<g, i>>) \in Unsure THEN -1
        ELSE IF ends # {} THEN Max(ends) - from ELSE Max(runs) - from

(* Full-attention groups come first, then sliding windows, widest first, and      *)
(* equals as they are numbered (the sort is stable).                              *)
Before(g, h) ==
    LET v == layout[g].window
        w == layout[h].window
    IN  IF v = w THEN g < h ELSE v = 0 \/ (w # 0 /\ v > w)

(* _lookup_groups, or _sliding_window_groups, without the excluded ones.          *)
LookedUp(all) == {g \in Groups : all \/ layout[g].window > 0}

Looking(all) ==
    [n \in 1 .. Cardinality(LookedUp(all)) |->
        CHOOSE g \in LookedUp(all) :
            Cardinality({h \in LookedUp(all) : Before(h, g)}) = n - 1]

Keys(g) == look.tokens \div layout[g].chunk

(* _lookup begins: the last token is computed again when a window is used.       *)
Ask(tokens, computed, tiers) ==
    /\ look = NoLook
    /\ unsure' = tiers
    /\ look' = [ phase |-> "looking", tokens |-> tokens, computed |-> computed,
                 max |-> tokens - (IF \E g \in DOMAIN layout : layout[g].window > 0
                                   THEN 1 ELSE 0),
                 hit |-> 0, todo |-> Looking(TRUE), again |-> <<>>,
                 slid |-> FALSE, popped |-> {}, defer |-> FALSE, result |-> 0 ]
    /\ UNCHANGED <<layout, prompt, stored, nextChunk, present, evicted>>

Return(result) == look' = [look EXCEPT !.phase = "done", !.result = result, !.todo = <<>>]

(* The body of the loop over groups, with g the group, bound what the keys       *)
(* allow, found the chunks confirmed from the first one the GPU lacks.           *)
TightenBy(g, bound, found) ==
    LET fresh == layout[g].eagle /\ g \notin look.popped
        chunk == layout[g].chunk
        first == look.computed \div chunk
        kept == IF fresh THEN found - 1 ELSE found
        max == IF found = -1 THEN bound ELSE Min({bound, chunk * (first + kept)})
        gain == max - look.computed
        lower == gain < look.hit
        defer == look.defer \/ found = -1
        popped == (IF fresh /\ found # -1 THEN look.popped \cup {g} ELSE look.popped)
    IN  IF found = 0 \/ gain < chunk THEN Return(0)
        ELSE look' = [look EXCEPT
                !.max = max, !.hit = gain, !.todo = Tail(@),
                !.slid = @ \/ layout[g].window > 0,
                !.popped = IF lower /\ ~layout[g].eagle THEN {} ELSE popped,
                !.defer = defer /\ ~lower,
                !.again = IF lower /\ defer THEN Looking(TRUE)
                          ELSE IF lower /\ look.slid /\ @ = <<>> THEN Looking(FALSE)
                          ELSE @]

LookUpGroup ==
    /\ look.phase = "looking" /\ look.todo # <<>>
    /\ LET g == Head(look.todo)
           chunk == layout[g].chunk
           bound == Min({look.max, Keys(g) * chunk})
           fresh == layout[g].eagle /\ g \notin look.popped
           query == IF fresh /\ layout[g].window > 0
                    THEN Min({bound + chunk, Keys(g) * chunk}) ELSE bound
           from == look.computed \div chunk
           to == Min({Cdiv(query, chunk), Keys(g)})
       IN  IF bound - look.computed < chunk THEN Return(0)
           ELSE TightenBy(g, bound,
                   IF layout[g].window = 0 THEN MaximalPrefix(g, from, to)
                   ELSE SlidingWindow(g, from, to,
                            layout[g].window + (IF fresh THEN 1 ELSE 0)))
    /\ UNCHANGED <<layout, prompt, stored, nextChunk, present, evicted, unsure>>

(* The end of a pass: another over the groups set aside, or the answer (None     *)
(* is -1).                                                                       *)
NextPass ==
    /\ look.phase = "looking" /\ look.todo = <<>>
    /\ IF look.again # <<>>
       THEN look' = [look EXCEPT !.todo = look.again, !.again = <<>>, !.slid = FALSE]
       ELSE Return(IF look.defer THEN -1 ELSE look.hit)
    /\ UNCHANGED <<layout, prompt, stored, nextChunk, present, evicted, unsure>>

-----------------------------------------------------------------------------
Init ==
    /\ layout \in Layouts /\ prompt \in Prompts
    /\ stored = 0 /\ nextChunk = [g \in DOMAIN layout |-> 0]
    /\ present = {} /\ evicted = FALSE /\ unsure = <<>>
    /\ look = NoLook

(* At most one answer is not final.                                             *)
Tiers(tokens) ==
    {<<>>} \cup UNION {UNION {[{<<g, i>>} -> Unsure] :
                              i \in 0 .. (tokens \div layout[g].chunk) - 1} : g \in Groups}

Next ==
    \/ \E tokens \in 1 .. MaxTokens : StoreUpTo(tokens)
    \/ \E key \in present : Evict(key)
    \/ \E tokens \in 1 .. MaxTokens : \E computed \in 0 .. tokens - 1, tiers \in Tiers(tokens) :
          Ask(tokens, computed, tiers)
    \/ LookUpGroup
    \/ NextPass

Spec == Init /\ [][Next]_vars

-----------------------------------------------------------------------------
(* What a prefix of that many tokens needs of a group: every chunk the GPU       *)
(* lacks, or the last window of them; held, and known to be.                     *)
Served(g, tokens) ==
    LET end == Cdiv(tokens, layout[g].chunk)
        first == look.computed \div layout[g].chunk
        start == IF layout[g].window = 0 THEN first ELSE Max({first, end - layout[g].window})
    IN  end <= Keys(g) /\ \A i \in start .. end - 1 : Answer(<<g, i>>) = "hit"

Loadable(tokens) == \A g \in Groups : Served(g, tokens)

Cap == look.tokens - (IF \E g \in DOMAIN layout : layout[g].window > 0 THEN 1 ELSE 0)

Candidates == {t \in look.computed + 1 .. Cap : Loadable(t)}

Largest == Max({layout[g].chunk : g \in Groups})

(* Whatever subset of the chunks is left, the fixpoint of _lookup is the longest *)
(* prefix every group can serve: nothing it reports is missing from a group, a   *)
(* longer one does not exist, it answers "no hit" only if no prefix gains a chunk*)
(* of the largest group, and "ask again" only if an answer is not final.         *)
LookupIsLongest ==
    look.phase = "done" =>
       /\ look.result > 0 => Loadable(look.computed + look.result)
       /\ look.result = -1 => DOMAIN unsure # {}
       /\ (DOMAIN unsure = {} /\ Groups # {} /\ \A g \in Groups : ~layout[g].eagle) =>
             \A t \in Candidates :
                t <= look.computed + (IF look.result > 0 THEN look.result ELSE Largest - 1)

(* What the stores skip no lookup misses: with nothing evicted, a request that   *)
(* computed nothing is served up to every whole segment of the full-attention    *)
(* group that was stored, however the storing request's steps were cut.  The     *)
(* segment is a whole number of each group's chunks: from_spec divides it by them.*)
SkippedChunksAreNotMissed ==
    (look.phase = "done" /\ ~evicted /\ DOMAIN unsure = {} /\ look.computed = 0
       /\ Cardinality(FullSizes) = 1 /\ Groups # {} /\ \A g \in Groups : ~layout[g].eagle) =>
       LET segment == CHOOSE s \in FullSizes : TRUE
           whole == (Min({stored, Cap}) \div segment) * segment
       IN  (\A g \in Groups : segment % layout[g].chunk = 0) => look.result >= whole

LookupFindsWhatWasStored == LookupIsLongest /\ SkippedChunksAreNotMissed
=============================================================================
