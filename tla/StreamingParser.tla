--------------------------- MODULE StreamingParser ---------------------------
(* StreamingParserEngine: deltas of model output become semantic events.  The   *)
(* engine is a record; every operator below returns the new engine with the    *)
(* events it emitted appended to its field out.  Three engines read the same    *)
(* stream: one in the deltas the server cut, one a unit at a time, and one for  *)
(* a request that declares no tools, which can recover no call.                *)
EXTENDS DsmlFormat, SequencesExt, FiniteSets

CONSTANTS
    Deltas,       \* the pieces of stream a delta may bring
    Requests,     \* what is set per request: format, ids, skip, suppress, allowed
    MaxCalls,     \* bound: tool calls in one response
    MaxPadding    \* bound: units of white space held between recovered invokes

Space == " "

(* The configurations are built once and kept (functools.cache).               *)
Configs == [ v4 |-> DeepSeekV4Config(FALSE), v4_thinking |-> DeepSeekV4Config(TRUE),
             v32 |-> DeepSeekV32Config ]

Config(req) == Configs[req.format]

VARIABLES
    request,      \* the request's settings, fixed for the stream
    engine,       \* fed delta by delta
    stepped,      \* fed the same stream one unit at a time
    plain,        \* the same, with no declared tool names
    agree,        \* engine and stepped emitted the same in the last step
    committed,    \* a recovered call passed validation
    owed,         \* text plain has emitted and engine has not
    finished

vars == <<request, engine, stepped, plain, agree, committed, owed, finished>>

-----------------------------------------------------------------------------
(* reset.  buffer is the lexer's: units that may still become a literal.        *)
NewEngine(req) ==
    [ req |-> req, state |-> Config(req).initial, index |-> 0, recovered |-> FALSE,
      between |-> <<>>, hold |-> FALSE, heldEvents |-> <<>>, heldRaw |-> <<>>,
      heldName |-> <<>>, priorState |-> Config(req).initial, priorIndex |-> 0,
      buffer |-> <<>>, out |-> <<>> ]

Event(type, value, index) == [type |-> type, value |-> value, index |-> index]

Emit(e, type, value) == [e EXCEPT !.out = Append(@, Event(type, value, e.index))]

ClearHold(e) ==
    [e EXCEPT !.hold = FALSE, !.heldEvents = <<>>, !.heldRaw = <<>>, !.heldName = <<>>]

(* Text with no hold open.  White space after a recovered invoke is held; when  *)
(* something else follows, the whole run goes out as content.                  *)
EmitPlain(e, text) ==
    LET cfg == Config(e.req)  run == e.between \o text IN
    IF e.state \in DOMAIN cfg.contentEvents
    THEN Emit(e, cfg.contentEvents[e.state], text)
    ELSE IF ~(e.recovered /\ e.state = "between") THEN e
    ELSE IF \A i \in DOMAIN run : run[i] = Space
    THEN [e EXCEPT !.between = run]
    ELSE Emit([e EXCEPT !.between = <<>>], "text", run)

\* Mutant: the tool index taken for the held call is not given back.
AbortHoldKeepsIndex(e, raw) ==
    EmitPlain(ClearHold([e EXCEPT !.state = e.priorState,
                                  !.recovered = e.priorState \in ToolStates]), raw)

AbortHold(e, raw) ==
    LET back == [e EXCEPT !.state = e.priorState, !.index = e.priorIndex,
                          !.recovered = e.priorState \in ToolStates]
    IN  EmitPlain(ClearHold(back), raw)

CanGrowIntoDeclaredName(e, candidate) ==
    \E name \in e.req.allowed : IsPrefix(candidate, name)

\* Mutant: only the new piece is compared with the declared names.
EmitForStateByPiece(e, text) ==
    IF ~(e.hold /\ e.state = "name") THEN EmitPlain(e, text)
    ELSE IF ~CanGrowIntoDeclaredName(e, text) THEN AbortHold(e, e.heldRaw \o text)
    ELSE [e EXCEPT !.heldRaw = @ \o text, !.heldName = @ \o text,
                   !.heldEvents = Append(@, Event("tool_name", text, e.index))]

EmitForState(e, text) ==
    IF ~(e.hold /\ e.state = "name") THEN EmitPlain(e, text)
    ELSE IF ~CanGrowIntoDeclaredName(e, e.heldName \o text)
    THEN AbortHold(e, e.heldRaw \o text)
    ELSE [e EXCEPT !.heldRaw = @ \o text, !.heldName = @ \o text,
                   !.heldEvents = Append(@, Event("tool_name", text, e.index))]

(* The events of a transition.  A call's start moves to the next tool index     *)
(* before it is emitted.                                                        *)
RunTransition(e, tr, value) ==
    LET moved == [e EXCEPT !.between = <<>>, !.state = tr.next,
                           !.recovered = @ /\ tr.next \in ToolStates]
        fire(x, type) ==
            Emit(IF type = "call_start" THEN [x EXCEPT !.index = @ + 1] ELSE x, type, value)
    IN  FoldLeft(fire, moved, tr.events)

BeginHold(e, tr, value) ==
    LET ran == RunTransition([e EXCEPT !.out = <<>>], tr, value)
    IN  [ran EXCEPT !.out = e.out, !.heldEvents = ran.out, !.heldRaw = value,
                    !.heldName = <<>>, !.priorState = e.state, !.priorIndex = e.index,
                    !.hold = TRUE, !.recovered = TRUE]

ResolveHold(e, tr, value) ==
    IF e.heldName \in e.req.allowed
    THEN RunTransition(ClearHold([e EXCEPT !.out = @ \o e.heldEvents]), tr, value)
    ELSE AbortHold(e, e.heldRaw \o value)

(* allowed_tool_names is None when the request declared no tools.              *)
ApplyTransition(e, tr, value) ==
    IF e.hold THEN ResolveHold(e, tr, value)
    ELSE IF ~tr.validate THEN RunTransition(e, tr, value)
    ELSE IF e.req.suppress \/ e.req.allowed = {} THEN EmitForState(e, value)
    ELSE BeginHold(e, tr, value)

(* Terminals that lead into or out of a tool state.                            *)
ToolTerminals(cfg) ==
    {k[2] : k \in {j \in DOMAIN cfg.transitions :
                      j[1] \in ToolStates \/ cfg.transitions[j].next \in ToolStates}}

SkipToolTerminal(e, tr, value) ==
    LET cfg == Config(e.req) IN
    IF "reasoning_end" \in Range(tr.events)
    THEN Emit(Emit([e EXCEPT !.state = "content"], "reasoning_end", value), "text", value)
    ELSE IF e.state \in DOMAIN cfg.contentEvents
    THEN Emit(e, cfg.contentEvents[e.state], value)
    ELSE e

(* A terminal that means something where the engine stands.                    *)
Known(e, terminal, value) ==
    LET cfg == Config(e.req)  tr == cfg.transitions[<<e.state, terminal>>] IN
    IF e.req.skip /\ terminal \in ToolTerminals(cfg)
    THEN SkipToolTerminal(e, tr, value)
    ELSE ApplyTransition(e, tr, value)

(* A terminal with no meaning where the engine stands is text.                  *)
HasRow(e, terminal) == <<e.state, terminal>> \in DOMAIN Config(e.req).transitions

Here(e, terminal, value) ==
    IF HasRow(e, terminal) THEN Known(e, terminal, value)
    ELSE IF terminal = "DROP" THEN e
    ELSE EmitForState(e, value)

(* Inside a held name it ends the hold and is handled again in the state the    *)
(* hold began in.                                                               *)
OnTerminal(e, terminal, value) ==
    LET strange == e.hold /\ e.state = "name" /\ terminal # "DROP" /\ ~HasRow(e, terminal)
    IN  Here(IF strange THEN AbortHold(e, e.heldRaw) ELSE e, terminal, value)

-----------------------------------------------------------------------------
(* TokenIDScanner and IncrementalLexer.  A literal becomes a terminal, a last   *)
(* unit that starts one stays in the buffer, the rest is content; adjacent      *)
(* content of one feed is one token.                                            *)
LexAppend(toks, terminal, text) ==
    IF terminal = "CONTENT" /\ toks # <<>> /\ Last(toks).terminal = "CONTENT"
    THEN [toks EXCEPT ![Len(toks)].text = @ \o text]
    ELSE Append(toks, [terminal |-> terminal, text |-> text])

Lex(cfg, buffer, units) ==
    LET heads == {Head(cfg.literals[t]) : t \in DOMAIN cfg.literals}
        named(two) == {t \in DOMAIN cfg.literals : cfg.literals[t] = two}
        push(x, u) == IF u \in heads THEN [x EXCEPT !.buffer = <<u>>]
                      ELSE [x EXCEPT !.buffer = <<>>, !.toks = LexAppend(@, "CONTENT", <<u>>)]
        take(x, u) ==
            IF x.buffer = <<>> THEN push(x, u)
            ELSE IF named(Append(x.buffer, u)) # {}
            THEN [buffer |-> <<>>,
                  toks |-> LexAppend(x.toks, CHOOSE t \in named(Append(x.buffer, u)) : TRUE,
                                     Append(x.buffer, u))]
            ELSE push([x EXCEPT !.toks = LexAppend(@, "CONTENT", x.buffer)], u)
    IN  FoldLeft(take, [buffer |-> buffer, toks |-> <<>>], units)

(* _process_lex_tokens: once ids have been seen, a terminal that has an id of   *)
(* its own counts only when it comes as that id.                                *)
ProcessLexTokens(e, toks) ==
    LET strict == IF e.req.ids THEN Config(e.req).tokenIds ELSE {}
        step(x, tok) == IF tok.terminal \in strict \cup {"CONTENT"}
                        THEN EmitForState(x, tok.text)
                        ELSE OnTerminal(x, tok.terminal, tok.text)
    IN  FoldLeft(step, e, toks)

LexerFlush(e) ==
    IF e.buffer = <<>> THEN e ELSE EmitForState([e EXCEPT !.buffer = <<>>], e.buffer)

FeedText(e, units) ==
    LET lex == Lex(Config(e.req), e.buffer, units)
    IN  ProcessLexTokens([e EXCEPT !.buffer = lex.buffer], lex.toks)

(* The scanner splits a delta at its special tokens.                            *)
SpecialUnits == [ THINK_START |-> "[think]", THINK_END |-> "[/think]",
                  TOOL_START |-> "[tools]", TOOL_END |-> "[/tools]", DROP |-> "[drop]" ]
IsSpecial(u) == \E t \in DOMAIN SpecialUnits : SpecialUnits[t] = u

ScanDelta(units) ==
    LET add(items, u) ==
            IF IsSpecial(u) THEN items \o << <<u>>, <<>> >>
            ELSE [items EXCEPT ![Len(items)] = Append(@, u)]
    IN  SelectSeq(FoldLeft(add, << <<>> >>, units), LAMBDA item : item # <<>>)

FeedItem(e, item) ==
    IF ~IsSpecial(item[1]) THEN FeedText(e, item)
    ELSE LET t == CHOOSE x \in DOMAIN SpecialUnits : SpecialUnits[x] = item[1]
         IN  OnTerminal(LexerFlush(e), t,
                        IF t = "DROP" THEN item ELSE Config(e.req).literals[t])

FeedDelta(e, units) ==
    FoldLeft(FeedItem, [e EXCEPT !.out = <<>>], ScanDelta(units))

FeedUnits(e, units) ==
    FoldLeft(LAMBDA x, u : FeedItem(x, <<u>>), [e EXCEPT !.out = <<>>], units)

(* finish: what the lexer and an open hold keep goes out, and what is open ends. *)
Close(e) ==
    LET closed == IF e.state \in ToolStates /\ e.index > 0 THEN Emit(e, "call_end", <<>>)
                  ELSE IF e.state = "reasoning" THEN Emit(e, "reasoning_end", <<>>) ELSE e
    IN  IF e.state \in ToolStates \cup {"reasoning"}
        THEN [closed EXCEPT !.state = "content"] ELSE closed

Release(e) == IF e.hold THEN AbortHold(e, e.heldRaw) ELSE e

Finish(e) == Close(Release(LexerFlush([e EXCEPT !.out = <<>>])))

-----------------------------------------------------------------------------
(* What a reader of the stream gets: chunks unit by unit, marks as they come.   *)
ChunkTypes == {"text", "reasoning_chunk", "tool_name", "arg_chunk"}

Said(events) ==
    FlattenSeq([i \in DOMAIN events |->
        IF events[i].type \in ChunkTypes
        THEN [j \in DOMAIN events[i].value |->
                 <<events[i].type, events[i].index, events[i].value[j]>>]
        ELSE <<<<events[i].type, events[i].index>>>>])

Visible(events) == SelectSeq(Said(events), LAMBDA x : Len(x) = 2 \/ x[3] # Space)

(* owed after a step; a mark in front when the two streams no longer agree.     *)
Settle(debt, said) ==
    IF IsPrefix(said, debt) THEN SubSeq(debt, Len(said) + 1, Len(debt))
    ELSE <<<<"mismatch", 0>>>> \o debt

CallsStarted(e) == Cardinality({i \in DOMAIN e.out : e.out[i].type = "call_start"})

Quiet(e) == [e EXCEPT !.out = <<>>]

(* The three engines after a step, and what their output showed.  White space   *)
(* around recovered invokes is compared only when none can be held.             *)
Advance(e, s, p) ==
    LET heard(x) == IF engine.recovered \/ e.recovered THEN Visible(x.out) ELSE Said(x.out)
    IN  /\ engine' = Quiet(e)
        /\ stepped' = Quiet(s)
        /\ agree' = (heard(e) = heard(s))
        /\ committed' = (committed \/ CallsStarted(e) > CallsStarted(p))
        /\ plain' = IF committed' THEN plain ELSE Quiet(p)
        /\ owed' = IF committed' THEN <<>> ELSE Settle(owed \o Said(p.out), Said(e.out))

Init ==
    /\ request \in Requests
    /\ engine = NewEngine(request)
    /\ stepped = engine
    /\ plain = NewEngine([request EXCEPT !.allowed = {}])
    /\ agree = TRUE
    /\ committed = FALSE
    /\ owed = <<>>
    /\ finished = FALSE

(* feed of one delta.                                                           *)
Feed(delta) ==
    /\ ~finished
    /\ ~request.ids => \A i \in DOMAIN delta : ~IsSpecial(delta[i])
    /\ \E fed \in {FeedDelta(engine, delta)} :
       /\ fed.index <= MaxCalls
       /\ Len(fed.between) <= MaxPadding
       /\ Advance(fed, FeedUnits(stepped, delta), FeedDelta(plain, delta))
    /\ UNCHANGED <<request, finished>>

(* finish, at the end of the response.                                          *)
EndOfStream ==
    /\ ~finished
    /\ Advance(Finish(engine), Finish(stepped), Finish(plain))
    /\ finished' = TRUE
    /\ UNCHANGED request

Next == EndOfStream \/ \E delta \in Deltas : Feed(delta)

Spec == Init /\ [][Next]_vars

-----------------------------------------------------------------------------
(* The same but for white space held between recovered invokes and how the      *)
(* chunks of a held name were cut.                                              *)
Alike(e, s) ==
    LET essence(x) == [x EXCEPT !.between = <<>>, !.heldEvents = Said(@)]
    IN  essence(e) = essence(s)

(* How the server cuts the response into deltas has no effect on what the       *)
(* engine emits, nor on where it stands: not in the middle of a literal, of a   *)
(* held name, or at the end of the stream (feed, _process_lex_tokens, finish).  *)
CutsDoNotMatter == agree /\ Alike(engine, stepped)

(* A marker in prose costs nothing: as long as no recovered call passed          *)
(* validation, what was said is what an engine without recovery says, less the  *)
(* text of an open hold, and when the hold ends the two stand at the same place *)
(* (_begin_hold, _resolve_hold, _abort_hold, finish).                           *)
FalseAlarmLeavesNoTrace ==
    committed \/
    LET released == IF engine.hold THEN engine.heldRaw ELSE <<>> IN
    /\ owed = [i \in DOMAIN released |-> <<"text", plain.index, released[i]>>]
    /\ plain.state = IF engine.hold THEN engine.priorState ELSE engine.state
    /\ plain.index = IF engine.hold THEN engine.priorIndex ELSE engine.index
    /\ plain.buffer = engine.buffer
    /\ ~engine.hold => plain.recovered = engine.recovered
    /\ finished => ~engine.hold
=============================================================================
