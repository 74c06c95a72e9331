----------------------------- MODULE DsmlFormat -----------------------------
(* The output formats of DeepSeek V4 and V3.2 as the parser engine sees them:  *)
(* literals that become terminals, the states, and the transition tables of    *)
(* parser-deepseek-v4 and parser-deepseek-v32.  Text is a sequence of units; a  *)
(* literal is two units, so a delta can end in the middle of one.              *)
EXTENDS Naturals, Sequences, TLC

ToolStates == {"preamble", "name", "args", "between"}

ToolLiterals ==
    [ TOOL_START   |-> <<"<", "tools>">>,    TOOL_END      |-> <<"<", "/tools>">>,
      INVOKE_PREFIX |-> <<"<", "invoke">>,   INVOKE_NAME_END |-> <<"q", ">">>,
      INVOKE_END   |-> <<"<", "/invoke>">>,  PARAM_CLOSE   |-> <<"<", "/param>">>,
      FOREIGN_START |-> <<"<", "foreign>">>, FOREIGN_END   |-> <<"<", "/foreign>">> ]

ThinkLiterals == [ THINK_START |-> <<"<", "think>">>, THINK_END |-> <<"<", "/think>">> ]

To(next, events) == [next |-> next, events |-> events, validate |-> FALSE]

(* Rows both formats have.  An invoke with no wrapper is recovered, but only    *)
(* after its name has been validated; the other model's wrapper is content.    *)
ToolRows ==
    <<"content", "TOOL_START">>    :> To("preamble", <<>>)
 @@ <<"content", "INVOKE_PREFIX">> :> [To("name", <<"call_start">>) EXCEPT !.validate = TRUE]
 @@ <<"content", "FOREIGN_START">> :> To("foreign", <<"text">>)
 @@ <<"foreign", "FOREIGN_END">>   :> To("content", <<"text">>)
 @@ <<"foreign", "TOOL_START">>    :> To("preamble", <<>>)
 @@ <<"preamble", "INVOKE_PREFIX">> :> To("name", <<"call_start">>)
 @@ <<"name", "INVOKE_NAME_END">>  :> To("args", <<>>)
 @@ <<"args", "INVOKE_END">>       :> To("between", <<"call_end">>)
 @@ <<"args", "TOOL_END">>         :> To("content", <<"call_end">>)
 @@ <<"between", "INVOKE_PREFIX">> :> To("name", <<"call_start">>)
 @@ <<"between", "TOOL_END">>      :> To("content", <<>>)

ThinkRows ==
    <<"content", "THINK_START">>   :> To("reasoning", <<"reasoning_start">>)
 @@ <<"content", "THINK_END">>     :> To("content", <<>>)
 @@ <<"reasoning", "THINK_START">> :> To("reasoning", <<>>)
 @@ <<"reasoning", "THINK_END">>   :> To("content", <<"reasoning_end">>)
 @@ <<"reasoning", "TOOL_START">>  :> To("preamble", <<"reasoning_end">>)

(* Text found in a state becomes a chunk of this type; text in the preamble     *)
(* and between invokes is not output (recovered calls aside).                   *)
ContentEvents ==
    [ content |-> "text", foreign |-> "text", name |-> "tool_name", args |-> "arg_chunk" ]

DeepSeekV4Config(thinking) ==
    [ initial |-> IF thinking THEN "reasoning" ELSE "content",
      literals |-> ThinkLiterals @@ ToolLiterals,
      tokenIds |-> {"THINK_START", "THINK_END", "TOOL_START", "TOOL_END"},
      transitions |-> ThinkRows @@ ToolRows,
      contentEvents |-> ContentEvents @@ [reasoning |-> "reasoning_chunk"] ]

DeepSeekV32Config ==
    [ initial |-> "content",
      literals |-> ToolLiterals,
      tokenIds |-> {"TOOL_START", "TOOL_END"},
      transitions |-> ToolRows,
      contentEvents |-> ContentEvents ]
=============================================================================
