---------------------------- MODULE ConvertedChat ----------------------------
(***************************************************************************)
(* A conversation through the non-streaming conversions of                 *)
(* internal/proxy/convert.go: a client of one wire format talks, turn by   *)
(* turn, to a model of the other.  The proxy keeps nothing between turns:  *)
(* the client sends the whole conversation every time, the answers it was  *)
(* given included, so what one conversion does to an answer the other has  *)
(* to take back.                                                           *)
(*                                                                         *)
(* A piece of text is the number of the turn it was said in, a call is     *)
(* known by its turn and its place.  Clients keep to their protocol: the   *)
(* results of all calls come with the next message, ahead of its text.     *)
(* Content that is a string and content of one text block are converted    *)
(* alike.                                                                  *)
(***************************************************************************)
EXTENDS Naturals, Sequences, SequencesExt, FiniteSets

CONSTANTS
    MaxTurns,  \* bound: answers in a conversation
    MaxCalls   \* bound: calls in an answer

VARIABLES
    client,   \* the client's wire format
    prompt,   \* how the client gives a system prompt
    talk,     \* the client's messages, in its own format
    sent,     \* the upstream's last request: system prompts and messages
    stop,     \* the stop reason of the last answer, as the client got it
    answers   \* history: the upstream's answers as it gave them

vars == <<client, prompt, talk, sent, stop, answers>>

(* OpenAI's arguments of a call are text: none, the JSON of an object or   *)
(* of a string, or no JSON.  Anthropic's are an input, which is JSON.      *)
Args == {"none", "{json}", "quoted", "junk"}
Inputs == {"object", "string"}

(* Without arguments the input is the empty object; what cannot be parsed  *)
(* becomes a string.                                                       *)
InputOf(args) == IF args \in {"none", "{json}"} THEN "object" ELSE "string"

ArgsOf(input) == IF input = "object" THEN "{json}" ELSE "quoted"

Mapped(f(_), s) == [i \in DOMAIN s |-> f(s[i])]

(* The loops over messages and blocks: each adds a sequence, or nothing.   *)
Collected(f(_), s) == FlattenSeq(Mapped(f, s))

(* Of a message's blocks: its texts, its results as messages of their own, *)
(* and its calls.                                                          *)
TextsOf(blocks) ==
    Collected(LAMBDA b : IF b.type = "text" THEN <<b.text>> ELSE <<>>, blocks)
ResultsOf(blocks) ==
    Collected(LAMBDA b : IF b.type = "tool_result" THEN <<[role |-> "tool", call |-> b.call]>>
                         ELSE <<>>, blocks)
CallsIn(blocks) ==
    Collected(LAMBDA b : IF b.type = "tool_use" THEN <<[id |-> b.call, args |-> ArgsOf(b.input)]>>
                         ELSE <<>>, blocks)

Init ==
    /\ client \in {"anthropic", "openai"}
    /\ prompt \in {"none", "string", "blocks"}
    /\ talk = <<>>
    /\ sent = [system |-> <<>>, messages |-> <<>>]
    /\ stop = "none"
    /\ answers = <<>>

Turn == Len(answers) + 1
Asked == Len(talk) > 0 /\ talk[Len(talk)].role # "assistant"

----------------------------------------------------------------------------
(* An Anthropic client: messages are [role, blocks].                       *)

(* Mutant: the results of a message that also has text are dropped.        *)
UserToOpenAITextOnly(m) ==
    LET texts == TextsOf(m.blocks)
    IN  IF texts # <<>> THEN <<[role |-> "user", text |-> texts]>> ELSE ResultsOf(m.blocks)

(* Mutant: a message with results is nothing but its results.              *)
UserToOpenAIResultsOnly(m) ==
    LET results == ResultsOf(m.blocks)
    IN  IF results # <<>> THEN results
        ELSE <<[role |-> "user", text |-> TextsOf(m.blocks)]>>

(* A user message: its text, if any, and then a tool message for every     *)
(* result.                                                                 *)
UserToOpenAI(m) ==
    LET texts == TextsOf(m.blocks)
    IN  (IF texts = <<>> THEN <<>> ELSE <<[role |-> "user", text |-> texts]>>)
          \o ResultsOf(m.blocks)

AssistantToOpenAI(m) ==
    [role |-> "assistant", text |-> TextsOf(m.blocks), calls |-> CallsIn(m.blocks)]

(* AnthropicToOpenAIRequest: a system prompt that is not a string is left  *)
(* out.                                                                    *)
AnthropicToOpenAIRequest(messages) ==
    [system |-> IF prompt = "string" THEN <<"prompt">> ELSE <<>>,
     messages |-> Collected(LAMBDA m : IF m.role = "user" THEN UserToOpenAI(m)
                                       ELSE <<AssistantToOpenAI(m)>>, messages)]

(* OpenAIToAnthropicResponse: the text, if any, and a block for each call. *)
OpenAIToAnthropicResponse(a) ==
    [role |-> "assistant",
     blocks |-> Mapped(LAMBDA t : [type |-> "text", text |-> t], a.text)
                  \o Mapped(LAMBDA c : [type |-> "tool_use", call |-> c.id,
                                        input |-> InputOf(c.args)], a.calls)]

(* Mutant: tool_calls is not told from the others.                         *)
StopReasonNoTools(finish) == IF finish = "length" THEN "max_tokens" ELSE "end_turn"

(* finish_reason to stop_reason; what it does not know ends the turn.      *)
StopReason(finish) ==
    CASE finish = "length" -> "max_tokens"
      [] finish = "tool_calls" -> "tool_use"
      [] OTHER -> "end_turn"

----------------------------------------------------------------------------
(* An OpenAI client: messages are [role, text], an assistant's with calls, *)
(* and a tool's [role, call].                                              *)

(* Mutant: roles Anthropic does not know become user messages.             *)
OpenAIToAnthropicRequestToolsAsUser(messages) ==
    [system |-> IF prompt = "string" THEN <<"prompt">> ELSE <<>>,
     messages |-> Mapped(LAMBDA m : [role |-> IF m.role = "tool" THEN "user" ELSE m.role,
                                     text |-> IF m.role = "tool" THEN <<0>> ELSE m.text],
                         messages)]

(* OpenAIToAnthropicRequest: of users and assistants, the content and      *)
(* nothing else; no other role but the system's, whose strings go ahead.   *)
OpenAIToAnthropicRequest(messages) ==
    [system |-> IF prompt = "string" THEN <<"prompt">> ELSE <<>>,
     messages |-> Collected(LAMBDA m : IF m.role \in {"user", "assistant"}
                                         THEN <<[role |-> m.role, text |-> m.text]>>
                                         ELSE <<>>, messages)]

(* AnthropicToOpenAIResponse: the texts joined, and a call for each        *)
(* tool_use block.                                                         *)
AnthropicToOpenAIResponse(a) ==
    [role |-> "assistant", text |-> a.text,
     calls |-> Mapped(LAMBDA c : [id |-> c.id, args |-> ArgsOf(c.args)], a.calls)]

(* mapAnthropicStopReason: reasons it does not know go through.            *)
mapAnthropicStopReason(reason) ==
    CASE reason = "max_tokens" -> "length"
      [] reason = "tool_use" -> "tool_calls"
      [] reason \in {"end_turn", "stop_sequence"} -> "stop"
      [] OTHER -> reason

----------------------------------------------------------------------------
(* The calls that the client's next message has to answer.                 *)
Pending ==
    IF answers = <<>> THEN <<>>
    ELSE Mapped(LAMBDA c : c.id, answers[Len(answers)].calls)

(* The client's next message, in its own format, and the upstream's        *)
(* request.                                                                *)
Ask(speaks) ==
    /\ ~Asked
    /\ speaks \/ Pending # <<>>
    /\ talk' = talk \o
         IF client = "anthropic"
           THEN <<[role |-> "user",
                   blocks |-> Mapped(LAMBDA c : [type |-> "tool_result", call |-> c], Pending)
                                \o IF speaks THEN <<[type |-> "text", text |-> Turn]>>
                                   ELSE <<>>]>>
           ELSE Mapped(LAMBDA c : [role |-> "tool", call |-> c], Pending)
                  \o IF speaks THEN <<[role |-> "user", text |-> <<Turn>>]>> ELSE <<>>
    /\ sent' = IF client = "anthropic" THEN AnthropicToOpenAIRequest(talk')
               ELSE OpenAIToAnthropicRequest(talk')
    /\ UNCHANGED <<client, prompt, stop, answers>>

CallsOf(args) == [i \in DOMAIN args |-> [id |-> <<Turn, i>>, args |-> args[i]]]

(* The upstream answers; an Anthropic upstream's inputs are objects.       *)
Answer(says, args, reason) ==
    LET a == [text |-> IF says THEN <<Turn>> ELSE <<>>, calls |-> CallsOf(args),
              reason |-> reason]
    IN  /\ Asked /\ Turn <= MaxTurns
        /\ answers' = Append(answers, a)
        /\ IF client = "anthropic"
             THEN /\ talk' = Append(talk, OpenAIToAnthropicResponse(a))
                  /\ stop' = StopReason(reason)
             ELSE /\ talk' = Append(talk, AnthropicToOpenAIResponse(a))
                  /\ stop' = mapAnthropicStopReason(reason)
        /\ UNCHANGED <<client, prompt, sent>>

(* The reasons an upstream has for an answer with, and one without calls.  *)
Reasons(calls) ==
    IF client = "anthropic"
      THEN IF calls # <<>> THEN {"tool_calls", "length"} ELSE {"stop", "length", "content_filter"}
      ELSE IF calls # <<>> THEN {"tool_use", "max_tokens"}
           ELSE {"end_turn", "stop_sequence", "max_tokens", "refusal"}

Next ==
    \/ \E speaks \in BOOLEAN : Ask(speaks)
    \/ \E says \in BOOLEAN, n \in 0..MaxCalls :
         \E args \in [1..n -> IF client = "anthropic" THEN Args ELSE {"object"}] :
           \E reason \in Reasons(args) : Answer(says, args, reason)

Spec == Init /\ [][Next]_vars

----------------------------------------------------------------------------
Call == [id: (1..MaxTurns) \X (1..MaxCalls), args: Args \cup Inputs]

(* Every variable has its type; client and upstream never speak out of     *)
(* turn.                                                                   *)
TypeOK ==
    /\ client \in {"anthropic", "openai"} /\ prompt \in {"none", "string", "blocks"}
    /\ sent.system \in {<<>>, <<"prompt">>}
    /\ \A i \in DOMAIN sent.messages :
         sent.messages[i].role \in IF client = "anthropic" THEN {"user", "assistant", "tool"}
                                   ELSE {"user", "assistant"}
    /\ \A i \in DOMAIN answers :
         /\ answers[i].text \in {<<>>, <<i>>}
         /\ \A k \in DOMAIN answers[i].calls : answers[i].calls[k] \in Call
    /\ Cardinality({i \in DOMAIN talk : talk[i].role = "assistant"}) = Len(answers)

(* Who said what, in order.                                                *)
Said(messages) ==
    Collected(LAMBDA m : IF m.role = "tool" THEN <<>>
                         ELSE Mapped(LAMBDA t : <<m.role, t>>, m.text), messages)

TextsOfTalk ==
    IF client = "openai" THEN Said(talk)
    ELSE Said(Mapped(LAMBDA m : [role |-> m.role, text |-> TextsOf(m.blocks)], talk))

(* What the two sides have said so far reaches the upstream in every       *)
(* request, all of it and in order, with whoever said it, tools or no      *)
(* tools; a system prompt does when it is a string.                        *)
TextsKept ==
    Asked =>
      /\ Said(sent.messages) = TextsOfTalk
      /\ (sent.system = <<"prompt">>) <=> (prompt = "string")

(* Anthropic clients: an OpenAI model gets its own answers back as it gave *)
(* them, and between each and the next the result of every call, once and  *)
(* in order; arguments that were not the JSON of an object come back as a  *)
(* string.                                                                 *)
AnswersComeBack ==
    Asked /\ client = "anthropic" =>
      LET m == sent.messages
          own == {i \in DOMAIN m : m[i].role = "assistant"}
          Own == CHOOSE s \in [1..Cardinality(own) -> own] :
                   \A i, j \in DOMAIN s : i < j => s[i] < s[j]
          End(k) == IF k < Len(answers) THEN Own[k + 1] - 1 ELSE Len(m)
          Results(k) == {i \in Own[k] + 1 .. End(k) : m[i].role = "tool"}
          Back(c) == [id |-> c.id,
                      args |-> IF c.args \in {"none", "{json}"} THEN "{json}" ELSE "quoted"]
      IN  /\ Cardinality(own) = Len(answers)
          /\ \A k \in DOMAIN answers :
               /\ m[Own[k]].text = answers[k].text
               /\ m[Own[k]].calls = Mapped(Back, answers[k].calls)
               /\ \E place \in [DOMAIN answers[k].calls -> Results(k)] :
                    /\ \A i, j \in DOMAIN place : i < j => place[i] < place[j]
                    /\ \A i \in Results(k) : \E j \in DOMAIN place : i = place[j]
                    /\ \A j \in DOMAIN place : m[place[j]].call = answers[k].calls[j].id

(* Upstreams reject an answer with calls unless tool messages follow it    *)
(* "before any subsequent user turn" (history.go 222).  What an Anthropic  *)
(* client says with its results is put before them.                        *)
ResultsFollowCalls ==
    Asked /\ client = "anthropic" =>
      LET m == sent.messages
      IN  \A i \in DOMAIN m : m[i].role = "assistant" =>
            \A k \in DOMAIN m[i].calls :
              \E j \in i + 1 .. Len(m) :
                /\ \A x \in i + 1 .. j : m[x].role = "tool"
                /\ m[j].call = m[i].calls[k].id

(* OpenAI clients: calls and results do not reach an Anthropic model, so   *)
(* a turn that only brings results leaves its own answer last; without     *)
(* tools the two take turns and the user has the last word.                *)
TakeTurns ==
    Asked /\ client = "openai" =>
      LET m == sent.messages
      IN  /\ m[Len(m)].role = "user" <=> talk[Len(talk)].role = "user"
          /\ (\A k \in DOMAIN answers : answers[k].calls = <<>>) =>
               \A i \in DOMAIN m : m[i].role = IF i % 2 = 1 THEN "user" ELSE "assistant"

(* A client is told to run calls if the model waits for their results, and *)
(* then it has got all of them; it is told of a limit if there was one.    *)
CallsAnnounced ==
    talk # <<>> /\ ~Asked =>
      LET reason == answers[Len(answers)].reason
          last == talk[Len(talk)]
          ids == IF client = "anthropic"
                   THEN Mapped(LAMBDA c : c.id, CallsIn(last.blocks))
                   ELSE Mapped(LAMBDA c : c.id, last.calls)
      IN  /\ stop \in {"tool_use", "tool_calls"} <=> reason \in {"tool_use", "tool_calls"}
          /\ stop \in {"length", "max_tokens"} <=> reason \in {"length", "max_tokens"}
          /\ ids = Pending
============================================================================
