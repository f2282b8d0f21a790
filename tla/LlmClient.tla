------------------------------ MODULE LlmClient ------------------------------
(***************************************************************************)
(* The client of the language models (llm_client.py) and the two endpoints *)
(* of the provider proxy that hand a chat on to them.  The agent keeps its *)
(* history in the format of OpenAI and sends all of it with every request; *)
(* a provider that speaks the format of Anthropic gets a translation, and  *)
(* its answer is translated back.                                          *)
(*                                                                         *)
(* The agent and the providers are external: the agent asks and runs the   *)
(* tools it is told to run, a provider answers, refuses or is cut off.     *)
(*                                                                         *)
(* A joined text is the sequence of its non-empty parts.  What a tool is   *)
(* called with is an object, named by its JSON text, or the raw text of a  *)
(* provider of OpenAI's format that wrote none.  A call may lack the name  *)
(* of its tool, and a result the id of its call.                           *)
(***************************************************************************)
EXTENDS Naturals, Sequences, SequencesExt

CONSTANT MaxTurns    \* bound of the model on the length of the history

Providers == {"openai", "anthropic"}
Texts == {"", "words"}
Objects == {"{}", "{object}"}
Arguments == Objects \cup {"", "[list]", "{broken"}
NoId == <<>>

VARIABLES
    history,   \* the agent's history, in OpenAI's format
    said,      \* the same conversation as its parties spoke: what is compared with it
    call,      \* the request under way: provider, mode, messages, attempts
    told       \* how the last request ended

vars == <<history, said, call, told>>

\* The variables a provider is built from, plain and of the profile that a request names.
Keys == {"ENABLED", "BASE_URL"}
Environments == [plain : [Keys -> {"absent", "set"}], profile : [Keys -> {"absent", "blank", "set"}]]

\* _profile_env_value: a blank value of the profile gives way to the plain one.
Setting(env, key) == "set" \in {env.profile[key], env.plain[key]}
\* _profile_env_flag: a blank flag of the profile does not.
Flag(env, key) == IF env.profile[key] = "absent" THEN env.plain[key] = "set" ELSE env.profile[key] = "set"

Enabled(env) == Flag(env, "ENABLED")
Configured(env) == Enabled(env) /\ Setting(env, "BASE_URL")

Idle == [step |-> "idle", provider |-> "openai", mode |-> "chat", messages |-> <<>>, posts |-> 0, prompt |-> <<>>]

Init ==
    /\ history = <<>> /\ said = <<>>
    /\ call = Idle /\ told = "nothing"

-----------------------------------------------------------------------------
(* Translations. *)

Text(words) == [type |-> "text", text |-> words]
ToolUse(id, name, input) == [type |-> "tool_use", id |-> id, name |-> name, input |-> input]
Result(id, words) == [type |-> "tool_result", id |-> id, text |-> words]
IsToolUse(block) == block.type = "tool_use"
IsText(block) == block.type = "text"
IsNamed(use) == use.name # ""
Joined(texts) == SelectSeq(texts, LAMBDA t : t # "")

\* json.dumps of what a tool is called with.
Object(text) == [raw |-> FALSE, text |-> text]
Dumps(input) == input.text
\* Faulty variant of Loads: a text that is no object is lost.
LoadsObjects(arguments) == IF arguments \in Objects THEN Object(arguments) ELSE Object("{}")
\* _parse_tool_arguments: what is no JSON object is kept as it is under raw_arguments.
Loads(arguments) ==
    CASE arguments = "" -> Object("{}")
      [] arguments \in Objects -> Object(arguments)
      [] OTHER -> [raw |-> TRUE, text |-> arguments]

\* anthropic_response_to_openai_chat_completion
ToOpenAI(blocks) ==
    [role |-> "assistant",
     text |-> Joined([i \in DOMAIN SelectSeq(blocks, IsText) |-> SelectSeq(blocks, IsText)[i].text]),
     calls |-> [i \in DOMAIN SelectSeq(blocks, IsToolUse) |->
                   LET use == SelectSeq(blocks, IsToolUse)[i]
                   IN  [id |-> use.id, name |-> use.name, arguments |-> Dumps(use.input)]]]

\* A call without a name is left out.
Uses(message) ==
    LET calls == SelectSeq(message.calls, IsNamed)
    IN  [i \in DOMAIN calls |-> ToolUse(calls[i].id, calls[i].name, Loads(calls[i].arguments))]

\* One message for Anthropic, each result in a message of its own: an assistant that said nothing
\* keeps its turn with an empty text, and a result without an id becomes words of the user.
Turn(message) ==
    CASE message.role = "assistant" ->
           LET spoken == (IF message.text # <<>> THEN <<Text(message.text)>> ELSE <<>>) \o Uses(message)
           IN  [role |-> "assistant", content |-> IF spoken = <<>> THEN <<Text(<<>>)>> ELSE spoken]
      [] message.role = "tool" /\ message.id # NoId -> [role |-> "user", content |-> <<Result(message.id, message.text)>>]
      [] OTHER -> [role |-> "user", content |-> <<Text(message.text)>>]

IsSystem(message) == message.role = "system"
IsTurn(message) == message.role # "system"

\* _openai_messages_to_anthropic: the texts of the system go into a field of their own.
ToAnthropic(messages) ==
    LET turns == SelectSeq(messages, IsTurn)
        system == SelectSeq(messages, IsSystem)
    IN  [system |-> FlattenSeq([i \in DOMAIN system |-> system[i].text]),
         messages |-> [i \in DOMAIN turns |-> Turn(turns[i])]]

Mentions(messages) == \E i \in DOMAIN messages : "json" \in ToSet(messages[i].text)

\* LLMProvider.json: a prompt that does not mention json is told to, in its system message.
WithHint(messages) ==
    IF Mentions(messages) THEN messages
    ELSE IF messages # <<>> /\ IsSystem(messages[1])
      THEN <<[messages[1] EXCEPT !.text = @ \o <<"json">>]>> \o Tail(messages)
      ELSE <<[role |-> "system", text |-> <<"json">>]>> \o messages

-----------------------------------------------------------------------------
(* The agent. *)

Spoken(message, turn) ==
    /\ history' = Append(history, message)
    /\ said' = Append(said, turn)
    /\ UNCHANGED <<call, told>>

Room == call.step = "idle" /\ Len(history) < MaxTurns

\* The agent opens with a text of the system, or hands on what the user says.
Speak(role, words) ==
    /\ Room
    /\ role = "system" => history = <<>>
    /\ Spoken([role |-> role, text |-> <<words>>], [role |-> role, content |-> <<Text(<<words>>)>>])

Unanswered(id) ==
    /\ \E i \in DOMAIN history : history[i].role = "assistant" /\ \E c \in ToSet(history[i].calls) : c.id = id
    /\ ~\E i \in DOMAIN history : history[i].role = "tool" /\ history[i].id = id

\* The agent has run a tool and keeps what it gave, with the id of the call or without.
RunTool(id, kept) ==
    /\ Room /\ Unanswered(id)
    /\ kept \in {id, NoId}
    /\ Spoken([role |-> "tool", id |-> kept, text |-> <<"words">>],
              [role |-> "user", content |-> <<IF kept = NoId THEN Text(<<"words">>) ELSE Result(id, <<"words">>)>>])

-----------------------------------------------------------------------------
(* Requests. *)

Start(provider, mode, env, prompt, messages) ==
    /\ call.step = "idle"
    /\ IF Configured(env)
         THEN /\ call' = [step |-> "posted", provider |-> provider, mode |-> mode,
                          prompt |-> prompt, messages |-> messages, posts |-> 1]
              /\ told' = "nothing"
         ELSE /\ UNCHANGED call
              /\ told' = IF Enabled(env) THEN "not_configured" ELSE "not_enabled"
    /\ UNCHANGED <<history, said>>

\* _proxy_openai_chat_completion, _proxy_anthropic_message: the whole history is posted.
Chat(provider, env) ==
    /\ history # <<>> /\ Len(history) < MaxTurns
    /\ Start(provider, "chat", env, history, history)

\* A tool of the sellers asks for an object (LLMProvider.json).  Anthropic's format has no field
\* for that (response_format is dropped), so the prompt must say it.
Json(provider, prompt, env) ==
    /\ history = <<>>    \* reduction: the sellers' prompts owe nothing to the agent's history
    /\ Start(provider, "json", env, prompt, WithHint(prompt))

End(outcome) ==
    /\ call' = Idle
    /\ told' = outcome

\* Connection, timeout, a stream cut off or an answer that is no JSON: OpenAI's is posted twice.
Tries == [openai |-> 2, anthropic |-> 1]
Break ==
    /\ call.step = "posted"
    /\ IF call.posts < Tries[call.provider]
         THEN call' = [call EXCEPT !.posts = @ + 1] /\ UNCHANGED told
         ELSE End("unreachable")
    /\ UNCHANGED <<history, said>>

\* A status of 400 or more is told as it is and not tried again.
Refuse ==
    /\ call.step = "posted"
    /\ End("refused")
    /\ UNCHANGED <<history, said>>

Fresh(i) == <<Len(history), i>>

\* Anthropic answers with blocks; the agent keeps the translation.
AnswerAnthropic(blocks) ==
    /\ call.step = "posted" /\ call.provider = "anthropic" /\ call.mode = "chat"
    /\ history' = Append(history, ToOpenAI(blocks))
    /\ said' = Append(said, [role |-> "assistant", content |-> blocks])
    /\ End("answered")

\* A provider of OpenAI's format answers with a message, which is handed on as it is.
AnswerOpenAI(words, name, arguments) ==
    /\ call.step = "posted" /\ call.provider = "openai" /\ call.mode = "chat"
    /\ LET message == [role |-> "assistant", text |-> Joined(<<words>>),
                       calls |-> [i \in DOMAIN arguments |-> [id |-> Fresh(i), name |-> name, arguments |-> arguments[i]]]]
       IN  /\ history' = Append(history, message)
           /\ said' = Append(said, [role |-> "assistant",
                 content |-> <<Text(words)>> \o
                             [i \in DOMAIN arguments |-> ToolUse(Fresh(i), name, Object(arguments[i]))]])
    /\ End("answered")

\* extract_message_text and extract_json_object: an answer without choices, without an object, or
\* with one; what is translated from Anthropic's format always has a choice.
AnswerJson(content) ==
    /\ call.step = "posted" /\ call.mode = "json"
    /\ content = "no_choices" => call.provider = "openai"
    /\ End(CASE content = "no_choices" -> "value_error"
             [] content = "no_object"  -> "parse_error"
             [] OTHER -> "object")
    /\ UNCHANGED <<history, said>>

Prompts ==
    {<<[role |-> r, text |-> <<a>>], [role |-> "user", text |-> <<b>>]>> :
        r \in {"system", "user"}, a \in {"words", "json"}, b \in {"words", "json"}} \cup {<<>>}

Blocks == {<<>>, <<Text("words")>>}
          \cup {<<ToolUse(Fresh(1), n, Object("{}")), Text(t), ToolUse(Fresh(2), "tool", Object("{object}"))>> :
                   n \in {"", "tool"}, t \in Texts}

Next ==
    \/ \E role \in {"system", "user"}, words \in {"words"} : Speak(role, words)
    \/ \E n \in 0..MaxTurns, i \in 1..2 : \E kept \in {<<n, i>>, NoId} : RunTool(<<n, i>>, kept)
    \/ \E p \in Providers : \E env \in Environments : Chat(p, env)
    \/ \E p \in Providers, prompt \in Prompts, env \in Environments : Json(p, prompt, env)
    \/ Break \/ Refuse
    \/ \E blocks \in Blocks : AnswerAnthropic(blocks)
    \/ \E words \in Texts, arguments \in {<<>>} \cup {<<a>> : a \in Arguments} : AnswerOpenAI(words, "tool", arguments)
    \/ AnswerOpenAI("words", "", <<"{}">>)
    \/ \E content \in {"no_choices", "no_object", "object"} : AnswerJson(content)

Spec == Init /\ [][Next]_vars

-----------------------------------------------------------------------------
(* Properties. *)

\* What a tool is to be called with: the object that was written, or the text that is none.
SameInput(input, spoken) ==
    /\ input.text = spoken.text \/ (spoken.text = "" /\ input.text = "{}")
    /\ input.raw <=> input.text \notin Objects

TextOf(blocks) == LET texts == SelectSeq(blocks, IsText)
                  IN  Joined([i \in DOMAIN texts |-> texts[i].text])

\* Text blocks of a translated turn hold joined texts.
SameText(blocks, spoken) ==
    LET texts == SelectSeq(blocks, IsText)
    IN  FlattenSeq([i \in DOMAIN texts |-> texts[i].text]) = TextOf(spoken)

IsNamedUse(block) == IsToolUse(block) /\ IsNamed(block)

SameTurn(turn, spoken) ==
    /\ turn.role = spoken.role
    /\ LET uses == SelectSeq(turn.content, IsToolUse)
           meant == SelectSeq(spoken.content, IsNamedUse)
       IN  /\ Len(uses) = Len(meant)
           /\ \A i \in DOMAIN uses :
                 /\ uses[i].id = meant[i].id /\ uses[i].name = meant[i].name
                 /\ SameInput(uses[i].input, meant[i].input)
    /\ spoken.role = "assistant" => SameText(turn.content, spoken.content)
    /\ spoken.role # "assistant" => turn.content = spoken.content

\* What goes to Anthropic is the conversation as it was held: every turn in its order, each with
\* its words, its tools under their ids and names and what they were called with, whoever spoke
\* it; only a call that names no tool, which nobody could run, is not in it.
ConversationIsKept ==
    LET sent == ToAnthropic(history)
        turns == SelectSeq(said, IsTurn)
    IN  /\ Len(sent.messages) = Len(turns)
        /\ \A i \in DOMAIN turns : SameTurn(sent.messages[i], turns[i])

\* A result comes after the turn that called for it; if that turn is sent without the call, the
\* call had no name.
ResultsFollowUses ==
    LET sent == ToAnthropic(history).messages
        Calls(id) == \E m \in ToSet(history) : m.role = "assistant" /\ [id |-> id, name |-> ""] \in
                        {[id |-> c.id, name |-> c.name] : c \in ToSet(m.calls)}
    IN  \A i \in DOMAIN sent : \A block \in ToSet(sent[i].content) :
           block.type = "tool_result" =>
             \/ \E j \in 1..i - 1 : \E use \in ToSet(sent[j].content) : IsToolUse(use) /\ use.id = block.id
             \/ Calls(block.id)

\* Who is posted which words, in the format of the provider.
Posted(provider, messages) ==
    IF provider = "openai" THEN {[role |-> m.role, text |-> m.text] : m \in ToSet(messages)}
    ELSE LET sent == ToAnthropic(messages)
         IN  {[role |-> "system", text |-> sent.system]}
             \cup {[role |-> m.role, text |-> m.content[1].text] : m \in ToSet(sent.messages)}

\* A prompt for an object mentions json in whichever format it is posted, and says everything it
\* said before.
JsonIsAsked ==
    (call.step = "posted" /\ call.mode = "json") =>
        LET posted == Posted(call.provider, call.messages)
        IN  /\ \E n \in posted : "json" \in ToSet(n.text)
            /\ \A m \in ToSet(call.prompt) : \E n \in posted : n.role = m.role /\ IsPrefix(m.text, n.text)
=============================================================================
