------------------------------ MODULE ChatBody ------------------------------
(***************************************************************************)
(* The request body one model accepts: what its id says it will and will   *)
(* not take (src/app/services/llm/capabilities.py, capability_rules.py),   *)
(* and how a ChatRequest, which states only intents, is put into that      *)
(* shape by the two adapters (openai_compatible.py and anthropic.py of     *)
(* src/app/services/llm/providers).                                        *)
(*                                                                         *)
(* A model id is one of Family, the ids that the patterns of the rules     *)
(* tell apart; a pattern is the set of them it matches.  A body is a       *)
(* function from Key, with Absent for a key that is not in it; what a note *)
(* says is reduced to what it is about.                                    *)
(***************************************************************************)
EXTENDS Integers, Sequences

CONSTANT Absent    \* Python's None, a key that is not in the body

-------------------------------------------------------------------------------
Claude == {"claude-fable-5", "claude-opus-5", "claude-sonnet-5", "claude-haiku-4-5", "claude-3"}
GPT4 == {"gpt-4o", "gpt-4.1", "gpt-4"}
DeepSeek == {"deepseek-reasoner", "deepseek-chat"}

\* "deepseek-(reasoner|r1)" is the one pattern that matches inside an id; an id with
\* a vendor in front escapes the others and is one nobody has catalogued.
Family == Claude \cup GPT4 \cup DeepSeek \cup
    {"o3", "gpt-5", "gpt-3.5", "vendor/deepseek-r1", "qwen", "glm", "magistral", "sonar",
     "gemini", "llama", "vendor/claude"}

\* ModelCapabilities and its defaults; supports_system_prompt holds in every rule.
Usual ==
    [temperature |-> TRUE, json |-> TRUE, role |-> "system", limit |-> "max_tokens",
     reasoning |-> "none", window |-> Absent, cap |-> Absent]

Sized(window, cap) == [Usual EXCEPT !.window = window, !.cap = cap]

AdaptiveClaude ==
    [Sized(1000000, 128000) EXCEPT !.temperature = FALSE, !.reasoning = "adaptive_thinking"]

Rule(pattern, has) == [pattern |-> pattern, has |-> has]

\* CAPABILITY_RULES, most specific first.
Rules == <<
    Rule({"claude-fable-5"}, AdaptiveClaude),
    Rule({"claude-opus-5"}, AdaptiveClaude),
    Rule({"claude-sonnet-5"}, AdaptiveClaude),
    Rule({"claude-haiku-4-5"}, [Sized(200000, 64000) EXCEPT !.reasoning = "budget_tokens"]),
    Rule(Claude, [Sized(200000, 8192) EXCEPT !.reasoning = "budget_tokens"]),
    Rule({"o3"}, [Sized(200000, 100000) EXCEPT !.temperature = FALSE, !.role = "developer",
                      !.limit = "max_completion_tokens", !.reasoning = "effort"]),
    Rule({"gpt-5"}, [Sized(400000, 128000) EXCEPT !.temperature = FALSE,
                         !.limit = "max_completion_tokens", !.reasoning = "effort"]),
    Rule({"gpt-4o"}, Sized(128000, 16384)),
    Rule({"gpt-4.1"}, Sized(1047576, 32768)),
    Rule(GPT4, Sized(128000, 4096)),
    Rule({"gpt-3.5"}, Sized(16385, 4096)),
    Rule({"deepseek-reasoner", "vendor/deepseek-r1"},
         [Sized(128000, 8192) EXCEPT !.temperature = FALSE, !.json = FALSE]),
    Rule(DeepSeek, Sized(128000, 8192)),
    Rule({"qwen"}, [Sized(131072, 8192) EXCEPT !.reasoning = "enable_thinking"]),
    Rule({"glm"}, [Sized(128000, 8192) EXCEPT !.reasoning = "thinking_type"]),
    Rule({"magistral"}, [Sized(128000, 8192) EXCEPT !.json = FALSE]),
    Rule({"sonar"}, [Sized(128000, 4096) EXCEPT !.json = FALSE]),
    Rule({"gemini"}, Sized(1000000, 8192)),
    Rule({"llama"}, Sized(128000, 4096)) >>

\* UNKNOWN_MODEL_CAPABILITIES: the smallest request everybody accepts.
Unheard == [Usual EXCEPT !.json = FALSE]

\* resolve_capabilities: what the provider reports of a model beats the first rule
\* that matches its id.
Capabilities(model, window, cap) ==
    LET matching == {i \in DOMAIN Rules : model \in Rules[i].pattern}
        found == IF matching = {} THEN Unheard
                 ELSE Rules[CHOOSE i \in matching : \A j \in matching : i <= j].has
    IN  [found EXCEPT !.window = IF window # Absent THEN window ELSE @,
                      !.cap = IF cap # Absent THEN cap ELSE @]

\* What a call's body is shaped by: the rules alone.
Has(model) == Capabilities(model, Absent, Absent)

-------------------------------------------------------------------------------
\* Nothing that a key of a body may hold is a key left out.
ASSUME AbsentAssumption ==
    Absent \notin Int \cup BOOLEAN \cup Family
        \cup {"system", "developer", "user", "default", "json_object",
              "minimal", "low", "medium", "high", "max"}

\* clamp_output_tokens.
Clamped(tokens, has) == IF has.cap # Absent /\ tokens > has.cap THEN has.cap ELSE tokens

MinBudget == 1024

\* The thinking budget of a model that wants one, and whether it fits.
Budget(tokens) == IF tokens \div 2 > MinBudget THEN tokens \div 2 ELSE MinBudget

\* Mutant: a budget that leaves no room for the answer is sent all the same.
Thinks_Always(tokens) == TRUE

Thinks(tokens) == Budget(tokens) < tokens

OpenAIEfforts == {"minimal", "low", "medium", "high"}

Key == {"model", "messages", "system", "max_tokens", "max_completion_tokens", "temperature",
        "response_format", "reasoning_effort", "thinking", "output_config", "enable_thinking"}

Thinking(type, budget) == [type |-> type, budget |-> budget]

\* apply_reasoning: the key, or keys, that say how hard to think.
Reasoned(key, effort, style, tokens) ==
    IF effort = Absent THEN Absent
    ELSE CASE style = "effort" /\ key = "reasoning_effort" ->
                  IF effort \in OpenAIEfforts THEN effort ELSE "medium"
           [] style = "adaptive_thinking" /\ key = "thinking" -> Thinking("adaptive", Absent)
           [] style = "adaptive_thinking" /\ key = "output_config" -> effort
           [] style = "budget_tokens" /\ key = "thinking" /\ Thinks(tokens) ->
                  Thinking("enabled", Budget(tokens))
           [] style = "enable_thinking" /\ key = "enable_thinking" -> TRUE
           [] style = "thinking_type" /\ key = "thinking" -> Thinking("enabled", Absent)
           [] OTHER -> Absent

\* Mutant: a thinking budget that does not fit is dropped without a word.
ReasoningNoted_NoBudget(effort, style) ==
    /\ effort # Absent
    /\ IF style = "effort" THEN effort \notin OpenAIEfforts
       ELSE style \notin {"adaptive_thinking", "budget_tokens"}

\* Whether apply_reasoning leaves a note.
ReasoningNoted(effort, style) ==
    /\ effort # Absent
    /\ IF style = "effort" THEN effort \notin OpenAIEfforts ELSE style # "adaptive_thinking"

\* A ChatRequest: what is wanted, whatever the model takes.
ChatRequest ==
    [max_output_tokens : Nat \ {0}, temperature : {"default", Absent}, json_mode : BOOLEAN,
     effort : {"minimal", "low", "medium", "high", "max", Absent}]

\* shape_openai_body.
OpenAIBody(model, ask) ==
    LET has == Has(model)
        tokens == Clamped(ask.max_output_tokens, has)
    IN  [key \in Key |->
            CASE key = "model" -> model
              [] key = "messages" -> has.role
              [] key = has.limit -> tokens
              [] key = "temperature" /\ has.temperature -> ask.temperature
              [] key = "response_format" /\ ask.json_mode /\ has.json -> "json_object"
              [] OTHER -> Reasoned(key, ask.effort, has.reasoning, tokens)]

\* The adjustments it records, by what they are about.
OpenAINotes(model, ask) ==
    LET has == Has(model)
    IN  {note \in {"max_output_tokens", "limit", "role", "temperature", "json_mode", "effort"} :
            CASE note = "max_output_tokens" ->
                     Clamped(ask.max_output_tokens, has) # ask.max_output_tokens
              [] note = "limit" -> has.limit # "max_tokens"
              [] note = "role" -> has.role # "system"
              [] note = "temperature" -> ask.temperature # Absent /\ ~ has.temperature
              [] note = "json_mode" -> ask.json_mode /\ ~ has.json
              [] note = "effort" -> ReasoningNoted(ask.effort, has.reasoning)}

-------------------------------------------------------------------------------
\* The reasoning styles of the Messages API.
ClaudeStyle(has) ==
    IF has.reasoning \in {"adaptive_thinking", "budget_tokens"} THEN has.reasoning ELSE "none"

\* Whether extended thinking is on, which accepts no other temperature.
Extended(model, ask) ==
    /\ Has(model).reasoning = "budget_tokens" /\ ask.effort # Absent
    /\ Thinks(Clamped(ask.max_output_tokens, Has(model)))

\* Whether a temperature is sent.
ClaudeTemperature(model, ask) == Has(model).temperature /\ ~ Extended(model, ask)

\* _build_kwargs: the system prompt has a key of its own and JSON mode has none.
AnthropicBody(model, ask) ==
    LET has == Has(model)
        tokens == Clamped(ask.max_output_tokens, has)
    IN  [key \in Key |->
            CASE key = "model" -> model
              [] key = "messages" -> "user"
              [] key = "system" -> "system"
              [] key = "max_tokens" -> tokens
              [] key = "temperature" /\ ClaudeTemperature(model, ask) -> ask.temperature
              [] OTHER -> Reasoned(key, ask.effort, ClaudeStyle(has), tokens)]

AnthropicNotes(model, ask) ==
    {note \in {"max_output_tokens", "temperature", "effort"} :
        CASE note = "max_output_tokens" ->
                 Clamped(ask.max_output_tokens, Has(model)) # ask.max_output_tokens
          [] note = "temperature" ->
                 ask.temperature # Absent
                     /\ (~ Has(model).temperature \/ Extended(model, ask))
          [] note = "effort" -> ReasoningNoted(ask.effort, ClaudeStyle(Has(model)))}

-------------------------------------------------------------------------------
Keys(body) == {key \in Key : body[key] # Absent}

\* find_unsupported_parameter: the top-level key of the body that a refusal names.
Offender(named, body) == IF named \in Keys(body) THEN named ELSE Absent

\* retry_body.
Without(body, offender) == [body EXCEPT ![offender] = Absent]
===============================================================================
