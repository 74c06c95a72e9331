---------------------------- MODULE ToolCallDeltas ----------------------------
(* ParserEngine: the semantic events of one delta become the message the client *)
(* gets.  The arguments of a call arrive as DSML parameters and leave as JSON,  *)
(* of which only a prefix that can no longer change is sent before the call     *)
(* ends; content that follows a tool event of its delta waits for the next one.*)
(* JSON and DSML text are sequences of tokens: what matters is where a value    *)
(* begins and ends, and whether its type, and so its text, can still change.    *)
(* No parameter is named as a wrapper, which _unwrap_wrapper_args would open.     *)
EXTENDS Naturals, Sequences, FiniteSets, SequencesExt

CONSTANTS
    Schema,        \* parameter -> its type in the tool's schema ("string", "integer")
    Tags,          \* opening tag -> the parameter's name, and whether it says string
    Values,        \* characters of values; "1" is a digit, ">" the structural one
    MaxEvents,     \* bound: events of the response
    Letters,       \* units of content that are not blank, by their place; bounds the content
    MaxNameless,   \* bound: arguments of a call whose name is empty
    MaxBatch,      \* bound: events of one delta
    MaxCalls       \* bound: calls in the response

VARIABLES
    stage,         \* where the response is: "content", "name", "args"; how it was finished:
                   \* "last" delta, "finished" between calls, "cut" inside one
    batch,         \* events of the delta being read
    slots,         \* _tool_slots
    deferred,      \* _deferred_content
    hasNonWs,      \* _content_has_nonws
    client,        \* what the client has put together: content, and name and args per call
    heard          \* history: the events of the response so far; only the bounds read it

vars == <<stage, batch, slots, deferred, hasNonWs, client, heard>>

-----------------------------------------------------------------------------
(* DSML parameters: an opening tag up to its last two characters, which are a     *)
(* terminal of their own, the characters of the value, the closing tag.         *)
TagEnd == "tag end"
ParamClose == "param close"
Digit == "1"

AllDigits(v) == v # <<>> /\ \A i \in DOMAIN v : v[i] = Digit

(* json.loads of the text of a parameter that is not a string, or the text.     *)
Load(isString, v) == [number |-> ~isString /\ AllDigits(v), text |-> v]

(* What the two expressions find in the text: the parameters that are closed, in  *)
(* the order of a dict (a repeated name keeps its place and takes the new value),  *)
(* and the one that is open.                                                     *)
Assign(params, key, v) ==
    IF \E i \in DOMAIN params : params[i][1] = key
    THEN [i \in DOMAIN params |-> IF params[i][1] = key THEN <<key, v>> ELSE params[i]]
    ELSE Append(params, <<key, v>>)

NoParam == [done |-> <<>>, key |-> "", str |-> FALSE, in |-> FALSE, text |-> <<>>]

Read(raw) ==
    LET step(x, t) ==
            IF t = TagEnd THEN [x EXCEPT !.in = TRUE]
            ELSE IF t = ParamClose
            THEN [NoParam EXCEPT !.done = Assign(x.done, x.key, Load(x.str, x.text))]
            ELSE IF x.in THEN [x EXCEPT !.text = Append(@, t)]
            ELSE [x EXCEPT !.key = Tags[t].key, !.str = Tags[t].string]
    IN  FoldLeft(step, NoParam, raw)

(* _dsml_arg_converter before json.dumps: the closed parameters; when partial,    *)
(* also the open one, unless its value does not load yet.                        *)
Params(raw, partial) ==
    LET x == Read(raw)
    IN  IF partial /\ x.in /\ (x.str \/ AllDigits(x.text))
        THEN Assign(x.done, x.key, Load(x.str, x.text)) ELSE x.done

(* coerce_to_schema_type for the two types: digits under an integer schema are a *)
(* number, everything else is text.                                             *)
CoerceToSchemaType(type, text) == [number |-> type = "integer" /\ AllDigits(text), text |-> text]

(* _coerce_value: a number under a string schema becomes a string again.         *)
Coerce(key, v) == IF key \in DOMAIN Schema THEN CoerceToSchemaType(Schema[key], v.text) ELSE v

FixArgTypes(params) == [i \in DOMAIN params |-> <<params[i][1], Coerce(params[i][1], params[i][2])>>]

(* json.dumps of a flat object.                                                 *)
JsonValue(v) == IF v.number THEN v.text ELSE <<"quote">> \o v.text \o <<"quote">>

Json(params) ==
    <<"{">> \o FlattenSeq([i \in DOMAIN params |->
                  (IF i = 1 THEN <<>> ELSE <<",">>)
                    \o <<params[i][1], ":">> \o JsonValue(params[i][2])])
            \o <<"}">>

FinalJson(raw) == Json(FixArgTypes(Params(raw, FALSE)))

(* _streamable_string_keys and _safe_arg_prefix: everything up to the value of   *)
(* the last key; with it, if the key's schema lets it only be a string, the     *)
(* value itself but for its closing quote.                                      *)
StreamableStringKeys == {k \in DOMAIN Schema : Schema[k] = "string"}

\* Mutant: any string goes out as it stands, whatever its schema may turn it into.
AnyStringPrefix(json) ==
    LET colons == {i \in DOMAIN json : json[i] = ":"}
        last == CHOOSE i \in colons : \A j \in colons : j <= i
        quotes == {i \in last + 2 .. Len(json) : json[i] = "quote"}
    IN  IF colons = {} THEN <<>>
        ELSE IF json[last + 1] # "quote" THEN SubSeq(json, 1, last)
        ELSE SubSeq(json, 1, (CHOOSE i \in quotes : \A j \in quotes : i <= j) - 1)

SafeArgPrefix(json) ==
    LET colons == {i \in DOMAIN json : json[i] = ":"}
        last == CHOOSE i \in colons : \A j \in colons : j <= i
        key == json[last - 1]
        closing == CHOOSE i \in last + 2 .. Len(json) :
                      json[i] = "quote" /\ \A j \in last + 2 .. i - 1 : json[j] # "quote"
    IN  IF colons = {} THEN <<>>
        ELSE IF json[last + 1] # "quote" \/ key \notin StreamableStringKeys
        THEN SubSeq(json, 1, last)
        ELSE SubSeq(json, 1, closing - 1)

-----------------------------------------------------------------------------
(* A slot, and the deltas of one message: <<call, name or "", args>>.            *)
NewSlot == [name |-> <<>>, args |-> <<>>, nameSent |-> FALSE, streamed |-> <<>>]

Structural(t) == t \in {TagEnd, ParamClose} \/ t = ">"

After(prev, json) == SubSeq(json, Len(prev) + 1, Len(json))

(* _compute_arg_delta: only a chunk with a structural character can make a       *)
(* difference, and only an extension of what was sent is sent.                  *)
ComputeArgDelta(slot, token) ==
    LET safe == SafeArgPrefix(Json(FixArgTypes(Params(slot.args, TRUE))))
    IN  IF Structural(token) /\ Len(safe) > Len(slot.streamed) /\ IsPrefix(slot.streamed, safe)
        THEN safe ELSE slot.streamed

(* _flush_arg_converter.                                                        *)
FlushArgs(slot) ==
    LET final == FinalJson(slot.args)
    IN  IF Len(final) > Len(slot.streamed) /\ IsPrefix(slot.streamed, final)
        THEN final ELSE slot.streamed

(* One event: the slots, the content parts, the deltas and the deferred content. *)
EnsureSlot(x, i) ==
    [x EXCEPT !.tool = TRUE, !.slots = IF i > Len(@) THEN Append(@, NewSlot) ELSE @]

HandleToolName(x, i, name) ==
    [x EXCEPT !.tool = TRUE, !.slots[i].name = @ \o name]

Said(deltas, delta) == IF delta[2] = <<>> /\ delta[3] = <<>> THEN deltas ELSE Append(deltas, delta)

(* A call without a name sends nothing: _accept_tool_name wants one, and         *)
(* _try_extract_name looks for JSON.                                            *)
HandleArgChunk(x, i, token) ==
    LET slot == [x.slots[i] EXCEPT !.args = Append(@, token)]
        safe == ComputeArgDelta(slot, token)
    IN  [x EXCEPT !.tool = TRUE,
                  !.slots[i] = IF slot.nameSent THEN [slot EXCEPT !.streamed = safe]
                               ELSE [slot EXCEPT !.nameSent = slot.name # <<>>],
                  !.deltas = Said(@, IF slot.nameSent THEN <<i, <<>>, After(slot.streamed, safe)>>
                                     ELSE <<i, slot.name, <<>>>>)]

HandleToolEnd(x, i) ==
    LET slot == x.slots[i]
        json == FlushArgs(slot)
    IN  [x EXCEPT !.tool = TRUE,
                  !.slots[i] = [slot EXCEPT !.nameSent = slot.name # <<>>, !.streamed = json],
                  !.deltas = IF slot.name = <<>> THEN @
                             ELSE Said(@, <<i, IF slot.nameSent THEN <<>> ELSE slot.name,
                                            After(slot.streamed, json)>>)]

HandleText(x, text) ==
    IF x.tool THEN [x EXCEPT !.deferred = @ \o text] ELSE [x EXCEPT !.content = @ \o text]

Handle(x, event) ==
    CASE event[1] = "text"  -> HandleText(x, event[2])
      [] event[1] = "start" -> EnsureSlot(x, event[2])
      [] event[1] = "name"  -> HandleToolName(x, event[2], event[3])
      [] event[1] = "arg"   -> HandleArgChunk(x, event[2], event[3])
      [] event[1] = "end"   -> HandleToolEnd(x, event[2])

Blank(text) == \A i \in DOMAIN text : text[i] = " "

(* _coalesce_tool_call_deltas: one delta per call, its arguments joined.         *)
Coalesced(deltas) ==
    LET merge(m, d) ==
            LET same == {i \in DOMAIN m : m[i][1] = d[1]}
                at == CHOOSE i \in same : TRUE
            IN  IF same = {} THEN Append(m, d)
                ELSE [m EXCEPT ![at] = <<d[1], IF @[2] = <<>> THEN d[2] ELSE @[2], @[3] \o d[3]>>]
    IN  FoldLeft(merge, <<>>, deltas)

(* What a client does with a message.                                           *)
Receive(c, content, deltas) ==
    LET one(x, d) == [x EXCEPT !.name[d[1]] = @ \o d[2], !.args[d[1]] = @ \o d[3]]
    IN  FoldLeft(one, [c EXCEPT !.content = @ \o content], deltas)

(* _events_to_delta: its loop over the events, then what of the content is sent   *)
(* and what is kept for later.                                                  *)
Loop(events, before, kept) ==
    FoldLeft(Handle, [slots |-> before, content |-> <<>>, deferred |-> kept,
                      deltas |-> <<>>, tool |-> FALSE], events)

Message(x, nonWs, finished) ==
    LET flush == ~x.tool \/ x.deltas = <<>>
        text == IF flush THEN x.deferred \o x.content ELSE x.content
        left == IF flush THEN <<>> ELSE x.deferred
        blank == ~nonWs /\ text # <<>> /\ Blank(text)
        hold == blank /\ x.slots = <<>> /\ ~finished
        drop == blank /\ x.slots # <<>>
    IN  [ content |-> IF hold \/ drop THEN <<>> ELSE text,
          deferred |-> IF hold THEN text ELSE left,
          nonWs |-> nonWs \/ ~Blank(text) ]

(* x and message are values bound once, here and in StreamMatchesParse.           *)
EventsToDelta(events, finished) ==
    \E x \in {Loop(events, slots, deferred)} :
       \E message \in {Message(x, hasNonWs, finished)} :
          /\ slots' = x.slots
          /\ hasNonWs' = message.nonWs
          /\ deferred' = message.deferred
          /\ client' = Receive(client, message.content, Coalesced(x.deltas))

(* parse: the whole response as one finished delta (_single_pass_parse), and the   *)
(* calls out of the slots (_build_extracted_result).                             *)
Parse(events) ==
    LET x == Loop(events, <<>>, <<>>)
        none == [name |-> <<>>, args |-> <<>>]
    IN  [ content |-> Message(x, FALSE, TRUE).content,
          calls |-> [i \in DOMAIN x.slots |->
                        IF x.slots[i].name = <<>> THEN none
                        ELSE [name |-> x.slots[i].name, args |-> FinalJson(x.slots[i].args)]] ]

-----------------------------------------------------------------------------
(* The engine's events, in the order its transitions produce them.               *)
Call == IF slots = <<>> /\ ~\E i \in DOMAIN batch : batch[i][1] = "start" THEN 0
        ELSE Len(slots) + Cardinality({i \in DOMAIN batch : batch[i][1] = "start"})

Raw == LET part == SelectSeq(batch, LAMBDA e : e[1] = "arg" /\ e[2] = Call)
       IN  (IF Call \in DOMAIN slots THEN slots[Call].args ELSE <<>>)
              \o [i \in DOMAIN part |-> part[i][3]]

TextOf(events) ==
    LET texts == SelectSeq(events, LAMBDA e : e[1] = "text")
    IN  FlattenSeq([i \in DOMAIN texts |-> texts[i][2]])

(* Tokens an argument text goes on with; a parameter may come again.             *)
NextTokens(raw) ==
    IF raw = <<>> \/ Last(raw) = ParamClose THEN DOMAIN Tags
    ELSE IF Last(raw) \in DOMAIN Tags THEN {TagEnd} ELSE Values \cup {ParamClose}

Unfinished == stage \in {"content", "name", "args"}

Queue(event, next) ==
    /\ Len(batch) < MaxBatch /\ Len(heard) < MaxEvents
    /\ batch' = Append(batch, event)
    /\ heard' = Append(heard, event)
    /\ stage' = next
    /\ UNCHANGED <<slots, deferred, hasNonWs, client>>

EmitText ==
    /\ stage = "content" /\ Len(TextOf(heard)) < Len(Letters)
    /\ \E unit \in {Letters[Len(TextOf(heard)) + 1], " "} :
          Queue(<<"text", <<unit>>>>, "content")

EmitStart ==
    /\ stage = "content" /\ Call < MaxCalls
    /\ Queue(<<"start", Call + 1>>, "name")

EmitName ==
    /\ stage = "name"
    /\ Queue(<<"name", Call, <<"n">>>>, "args")

(* The name is empty: the arguments begin, and nothing is emitted.               *)
NameIsEmpty ==
    /\ stage = "name"
    /\ stage' = "args"
    /\ UNCHANGED <<batch, slots, deferred, hasNonWs, client, heard>>

Named == \E e \in Range(heard) : e[1] = "name" /\ e[2] = Call

EmitArg ==
    /\ stage = "args" /\ (Named \/ Len(Raw) < MaxNameless)
    /\ \E t \in NextTokens(Raw) : Queue(<<"arg", Call, t>>, "args")

(* The call may end inside a parameter.                                          *)
EmitEnd ==
    /\ stage = "args"
    /\ Queue(<<"end", Call>>, "content")

(* What the engine's finish() adds: the end of the call that is open, and between  *)
(* two calls of one block the end of the last one again.                         *)
Endings ==
    IF stage = "content" THEN {<<>>} \cup {<<<<"end", i>>>> : i \in {Call} \ {0}}
    ELSE {<<<<"end", Call>>>>}

(* parse_delta: one delta's events have been produced; there may be none.        *)
ParseDelta(finished) ==
    /\ Unfinished
    /\ \E ending \in IF finished THEN Endings ELSE {<<>>} :
          /\ EventsToDelta(batch \o ending, finished)
          /\ heard' = heard \o ending
    /\ batch' = <<>>
    /\ stage' = IF finished THEN "last" ELSE stage

(* finish_streaming, after a delta that did not say it was the last.             *)
FinishStreaming ==
    /\ Unfinished /\ batch = <<>>
    /\ \E ending \in Endings :
          /\ EventsToDelta(ending, TRUE)
          /\ heard' = heard \o ending
    /\ stage' = IF stage = "content" THEN "finished" ELSE "cut"
    /\ UNCHANGED batch

Init ==
    /\ stage = "content" /\ batch = <<>> /\ slots = <<>>
    /\ deferred = <<>> /\ hasNonWs = FALSE /\ heard = <<>>
    /\ client = [content |-> <<>>, name |-> [i \in 1 .. MaxCalls |-> <<>>],
                 args |-> [i \in 1 .. MaxCalls |-> <<>>]]

Next ==
    \/ EmitText \/ EmitStart \/ EmitName \/ NameIsEmpty \/ EmitArg \/ EmitEnd
    \/ \E finished \in BOOLEAN : ParseDelta(finished)
    \/ FinishStreaming

Spec == Init /\ [][Next]_vars

-----------------------------------------------------------------------------
(* The parameters of an argument text: each name once; the last one left open.    *)
NamesOnce(raw) ==
    \A i, j \in {k \in DOMAIN raw : raw[k] \in DOMAIN Tags} :
       Tags[raw[i]].key = Tags[raw[j]].key => i = j

Closed(raw) == IF Read(raw).in THEN Append(raw, ParamClose) ELSE raw

Ended == {heard[i][2] : i \in {k \in DOMAIN heard : heard[k][1] = "end"}}

(* Nothing of a call that was streamed has to be taken back (_compute_arg_delta):  *)
(* while no parameter's name is repeated, the client holds a prefix of the       *)
(* arguments the call would have if the parameter it is in ended here.  Once the  *)
(* call has ended it holds exactly the call that parse finds in the response      *)
(* (_flush_arg_converter, _build_extracted_result), unless the call was cut inside *)
(* a parameter: the client may have half of that one, and parse leaves it out.    *)
CallsAreWhole(parsed) ==
    \A i \in DOMAIN slots :
       LET raw == slots[i].args
           open == Read(raw).in
           got == [name |-> client.name[i], args |-> client.args[i]]
       IN  NamesOnce(raw) =>
              /\ got.name \in {<<>>, slots[i].name}
              /\ i \in Ended /\ ~open => got = parsed.calls[i]
              /\ i \notin Ended \/ open =>
                    \/ IsPrefix(got.args, FinalJson(Closed(raw)))
                    \/ i \in Ended /\ got = parsed.calls[i]

NonBlank(text) == SelectSeq(text, LAMBDA unit : unit # " ")

TextBetweenCalls ==
    \E i, j, k \in DOMAIN heard :
       /\ i < j /\ j < k
       /\ heard[i][1] = "start" /\ heard[j][1] = "text" /\ heard[k][1] = "start"

(* Content that shares a delta with a call is delayed, not lost: what is not blank *)
(* is with the client or deferred, each unit once, and in the response's order    *)
(* unless text stands between two calls, which later text may overtake.  Nothing  *)
(* stays deferred when finish_streaming comes between calls.  A last delta and    *)
(* parse do drop text behind a call (:775 keeps it for a delta that never comes):  *)
(* in the end the client has all that parse gives.                               *)
ContentIsKept(parsed) ==
    LET kept == NonBlank(client.content \o deferred)
        response == NonBlank(TextOf(heard))
    IN  /\ Len(kept) = Len(response) /\ Range(kept) = Range(response)
        /\ ~TextBetweenCalls => kept = response
        /\ stage = "finished" => deferred = <<>>
        /\ slots = <<>> /\ deferred = <<>> => client.content = TextOf(heard)
        /\ ~Unfinished => Range(NonBlank(parsed.content)) \subseteq Range(client.content)

StreamMatchesParse ==
    batch = <<>> => \A parsed \in {Parse(heard)} : CallsAreWhole(parsed) /\ ContentIsKept(parsed)
=============================================================================
