------------------------------ MODULE MCSequential ------------------------------
(* Components that run to their end on one thread or one stream and share nothing: *)
(* the parser engine, the tool-call deltas, the prefix lookup and two kernels.     *)
(* A behaviour exercises one of them, the subject; the others stay idle.          *)
EXTENDS Integers, Sequences, FiniteSets

VARIABLES subject,
    request, engine, stepped, plain, agree, committed, owed, finished,
    stage, batch, slots, deferred, hasNonWs, client, heard,
    layout, prompt, stored, nextChunk, present, evicted, unsure, look,
    launch, programs, logits,
    call, phase, flat, ran, parts, out

parserVars == <<request, engine, stepped, plain, agree, committed, owed, finished>>
deltaVars == <<stage, batch, slots, deferred, hasNonWs, client, heard>>
lookupVars == <<layout, prompt, stored, nextChunk, present, evicted, unsure, look>>
logitsVars == <<launch, programs, logits>>
decodeVars == <<call, phase, flat, ran, parts, out>>

-----------------------------------------------------------------------------
(* Every delta of one or two units: text, and the special tokens.                 *)
Text == {"n", "a", " ", "<", "q", ">", "think>", "/think>", "tools>", "/tools>",
         "invoke", "/invoke>", "/param>", "foreign>", "/foreign>"}
Units == Text \cup {"[think]", "[/think]", "[tools]", "[/tools]", "[drop]"}
PieceOfStream == {<<u>> : u \in Units} \cup {<<u, v>> : u, v \in Units}

(* One declared name is a prefix of the other.                                   *)
Asks(format, ids, skip, suppress) ==
    [ format |-> format, ids |-> ids, skip |-> skip, suppress |-> suppress,
      allowed |-> {<<"n">>, <<"n", "a">>} ]

Parser == INSTANCE StreamingParser WITH
    Deltas <- PieceOfStream, MaxCalls <- 2, MaxPadding <- 1,
    Requests <- { Asks("v4", TRUE, FALSE, FALSE), Asks("v4_thinking", FALSE, FALSE, FALSE),
                  Asks("v32", FALSE, FALSE, FALSE), Asks("v4_thinking", TRUE, TRUE, FALSE),
                  Asks("v4", TRUE, FALSE, TRUE) }

-----------------------------------------------------------------------------
(* A string and an integer parameter, and one the schema does not know; tags that *)
(* agree with the schema and tags that do not.                                   *)
Tag(key, string) == [key |-> key, string |-> string]

Messages == INSTANCE ToolCallDeltas WITH
    Schema <- [s |-> "string", i |-> "integer"],
    Tags <- [ sT |-> Tag("s", TRUE), sF |-> Tag("s", FALSE), iT |-> Tag("i", TRUE),
              uF |-> Tag("u", FALSE) ],
    Values <- {"1", ">"}, MaxEvents <- 10, MaxNameless <- 2, Letters <- <<"a", "b">>, MaxBatch <- 3, MaxCalls <- 2

-----------------------------------------------------------------------------
(* Full attention with windows narrower than its chunks; an eagle group left out  *)
(* of the lookup; an eagle group in it.                                          *)
Group(chunk, window) == [chunk |-> chunk, window |-> window, eagle |-> FALSE, skip |-> FALSE]
Eagle(chunk, window, skip) == [chunk |-> chunk, window |-> window, eagle |-> TRUE, skip |-> skip]

Lookup == INSTANCE PrefixLookup WITH
    Layouts <- { <<Group(4, 0), Group(2, 1), Group(1, 2)>>,
                 <<Group(2, 1), Group(1, 0), Eagle(1, 1, TRUE)>>,
                 <<Group(2, 0), Eagle(1, 1, FALSE), Group(2, 2)>> },
    MaxTokens <- 5, Prompts <- {4}, Unsure <- {"retry", "pending"}

-----------------------------------------------------------------------------
(* Launches: blocks smaller than, equal to and larger than a chunk of 4; contexts  *)
(* that end anywhere in one; up to three queries and three shares a row.  The     *)
(* pool is larger than 32 bits reach, but for the pipeline that keeps to them.    *)
FarBlocks == <<3, 9, 0, 6, 12, 5, 10, 2, 7>>

Launch(block, contexts, nextN, splits, safe) ==
    [ chunk |-> 4, block |-> block, nextN |-> nextN, splits |-> splits, safe |-> safe,
      maxLen |-> IF block < 4 THEN 12 ELSE 11, contexts |-> contexts,
      tables |-> [b \in DOMAIN contexts |->
          [i \in 1 .. (contexts[b] + block - 1) \div block |->
              IF safe = 0 \/ block < 4 THEN FarBlocks[((i + 3 * b) % 9) + 1] ELSE i % 2]] ]

Launches ==
         {Launch(block, <<c>>, n, splits, 0) :
             block \in {1, 2, 4, 8}, c \in 3 .. 11, n \in 1 .. 3, splits \in {1, 2}}
    \cup {Launch(block, <<c>>, 1, 3, 0) : block \in {2, 4, 8}, c \in 1 .. 11}
    \cup {Launch(block, <<c, d>>, 1, 2, 0) : block \in {2, 4}, c \in {1, 5, 9}, d \in {4, 11}}
    \cup {Launch(block, <<c, d>>, 1, 3, safe) :
             block \in {2, 8}, c \in {5, 9}, d \in {0, 4, 11}, safe \in {1, 2}}

Logits == INSTANCE PagedMqaLogits WITH
    Launches <- Launches, Stride <- 9, WideBits <- 8, NarrowBits <- 5

-----------------------------------------------------------------------------
(* Calls: holes and slots out of range in a row, lengths that cut it, a sink that  *)
(* is absent, below or above every score, devices that give 1 to 4 splits.       *)
NoSink == -1000

Call(kernel, main, mainLens, extra, extraLens, sink, units) ==
    LET both(m, x) == IF extra = <<>> THEN [main |-> m] ELSE [main |-> m, extra |-> x]
    IN  [ kernel |-> kernel, dense |-> both(main, extra), lengths |-> both(mainLens, extraLens),
          numRows |-> 4, sink |-> sink, units |-> units ]

MainRows == {<<2, -1, 0, 1>>, <<0, 9, -1, 1>>, <<-1, 9, 2, 0>>, <<1, 0, 1, -1>>}

Calls ==
         {Call(kernel, <<r>>, <<n>>, <<>>, <<>>, sink, units) :
             kernel \in {"prefill", "whole", "split"}, r \in MainRows, n \in {0, 1, 3, 5},
             sink \in {NoSink, 2, 9}, units \in {2, 4, 12}}
    \cup {Call(kernel, <<r>>, <<n>>, <<x>>, <<k>>, sink, units) :
             kernel \in {"whole", "split"}, r \in MainRows, n \in {0, 3, 4},
             x \in {<<2, -1, 1>>, <<-1, 0, 2>>}, k \in {0, 2, 3},
             sink \in {NoSink, 2, 9}, units \in {3, 12}}
    \cup {Call(kernel, <<r, s>>, <<n, m>>, <<>>, <<>>, 2, 8) :
             kernel \in {"prefill", "split"}, r \in MainRows, s \in MainRows,
             n \in {0, 3}, m \in {2, 4}}

Decode == INSTANCE SparseAttention WITH
    Calls <- Calls, BlockK <- 2, PackBlock <- 2,
    Score <- [slot \in 0 .. 3 |-> <<3, 1, 7, 5>>[slot + 1]]

-----------------------------------------------------------------------------
Idle == "idle"

ParserIdle == /\ request = Idle /\ engine = Idle /\ stepped = Idle /\ plain = Idle
              /\ agree = Idle /\ committed = Idle /\ owed = Idle /\ finished = Idle
DeltasIdle == /\ stage = Idle /\ batch = Idle /\ slots = Idle /\ deferred = Idle
              /\ hasNonWs = Idle /\ client = Idle /\ heard = Idle
LookupIdle == /\ layout = Idle /\ prompt = Idle /\ stored = Idle /\ nextChunk = Idle
              /\ present = Idle /\ evicted = Idle /\ unsure = Idle /\ look = Idle
LogitsIdle == launch = Idle /\ programs = Idle /\ logits = Idle
DecodeIdle == /\ call = Idle /\ phase = Idle /\ flat = Idle
              /\ ran = Idle /\ parts = Idle /\ out = Idle

Init ==
    /\ subject \in {"parser", "deltas", "lookup", "logits", "decode"}
    /\ IF subject = "parser" THEN Parser!Init ELSE ParserIdle
    /\ IF subject = "deltas" THEN Messages!Init ELSE DeltasIdle
    /\ IF subject = "lookup" THEN Lookup!Init ELSE LookupIdle
    /\ IF subject = "logits" THEN Logits!Init ELSE LogitsIdle
    /\ IF subject = "decode" THEN Decode!Init ELSE DecodeIdle

Next ==
    /\ UNCHANGED subject
    /\ \/ /\ subject = "parser" /\ Parser!Next
          /\ UNCHANGED <<deltaVars, lookupVars, logitsVars, decodeVars>>
       \/ /\ subject = "deltas" /\ Messages!Next
          /\ UNCHANGED <<parserVars, lookupVars, logitsVars, decodeVars>>
       \/ /\ subject = "lookup" /\ Lookup!Next
          /\ UNCHANGED <<parserVars, deltaVars, logitsVars, decodeVars>>
       \/ /\ subject = "logits" /\ Logits!Next
          /\ UNCHANGED <<parserVars, deltaVars, lookupVars, decodeVars>>
       \/ /\ subject = "decode" /\ Decode!Next
          /\ UNCHANGED <<parserVars, deltaVars, lookupVars, logitsVars>>

Spec == Init /\ [][Next]_<<subject, parserVars, deltaVars, lookupVars, logitsVars, decodeVars>>

-----------------------------------------------------------------------------
(* How the response is cut into deltas changes nothing (StreamingParserEngine).   *)
CutsDoNotMatter == subject = "parser" => Parser!CutsDoNotMatter

(* A tool marker in prose leaves no trace (_begin_hold, _abort_hold, finish).     *)
FalseAlarmLeavesNoTrace == subject = "parser" => Parser!FalseAlarmLeavesNoTrace

(* What was streamed never has to be taken back, and nothing is missing in the    *)
(* end (ParserEngine._events_to_delta, _compute_arg_delta, _flush_arg_converter). *)
StreamMatchesParse == subject = "deltas" => Messages!StreamMatchesParse

(* The lookup's answer is the longest prefix the groups can serve, and chunks the *)
(* stores skip are not among those it needs (_lookup, is_store_reachable).        *)
LookupFindsWhatWasStored == subject = "lookup" => Lookup!LookupFindsWhatWasStored

(* Every logit top-k reads comes from the right token of the right block          *)
(* (_gluon_deepgemm_fp8_paged_mqa_logits_preshuffle).                             *)
LogitsAreRight == subject = "logits" => Logits!LogitsAreRight

(* Every valid key of a query counts exactly once, at its weight                  *)
(* (_sparse_attn_decode_partial_kernel, _sparse_attn_decode_reduce_kernel).       *)
KeysCountOnce == subject = "decode" => Decode!KeysCountOnce
=============================================================================
