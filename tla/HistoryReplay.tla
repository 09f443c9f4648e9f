---------------------------- MODULE HistoryReplay ----------------------------
(***************************************************************************)
(* POST /v1/responses with previous_response_id: what of an earlier answer *)
(* reaches the upstream, and in which shape.  dispatch and serveStream     *)
(* (internal/handler/responses.go) turn the request into messages          *)
(* (ToChatRequest), put the messages made from the stored output in front  *)
(* of them (stateToHistory, MergeHistory) and convert the whole for a      *)
(* model of either family (ToOpenAIChatRequest, ToAnthropicRequest).       *)
(* Which response may be continued, and when its row is written and        *)
(* forgotten, is ConversationChain's subject: here the row is there.       *)
(*                                                                         *)
(* A message is [role, text, calls, call]: a text is empty or says who     *)
(* wrote it, calls are the ids of tool calls, call is the id a tool        *)
(* message or a result block answers.  An empty text answers a call only   *)
(* in a placeholder: the results of clients are not empty here.            *)
(***************************************************************************)
EXTENDS Naturals, Sequences, SequencesExt, FiniteSetsExt

CONSTANTS
    CallIds,   \* the ids upstreams give to calls
    NoId,      \* no id
    MaxTurns,   \* bound: answers in a conversation
    MaxItems,   \* bound: input items of a request
    MaxOutputs  \* bound: output items of an answer

VARIABLES
    family,  \* of the model: "openai" or "anthropic"
    turn,    \* answers stored
    stored,  \* the output items of the last response, as its row has them
    asked,   \* the request that was sent: its instructions, its input, whether
             \* it continues the last response
    sent     \* what became of it: a refusal, or the upstream's request

vars == <<family, turn, stored, asked, sent>>

Message(role, text, calls, call) ==
    [role |-> role, text |-> text, calls |-> calls, call |-> call]

Placeholder(c) == Message("tool", <<>>, <<>>, c)
IsPlaceholder(m) == m.call # NoId /\ m.text = <<>>

Mapped(f(_), s) == [i \in DOMAIN s |-> f(s[i])]

(* What of a sequence passes a test.                                       *)
Selected(s, Test(_)) == FlattenSeq(Mapped(LAMBDA x : IF Test(x) THEN <<x>> ELSE <<>>, s))

Nothing == [instructions |-> FALSE, input |-> <<>>, continues |-> FALSE]
Unsent == [status |-> "none", system |-> FALSE, messages |-> <<>>]

Init ==
    /\ family \in {"openai", "anthropic"}
    /\ turn = 0
    /\ stored = <<>>
    /\ asked = Nothing
    /\ sent = Unsent

----------------------------------------------------------------------------
(* Input items are [type, role, call]: messages with a text, an empty user *)
(* message, results, and types that are not modelled.  Calls are no input. *)
Items ==
    [type: {"message"}, role: {"user", "assistant", "system", "developer"}, call: {NoId}]
      \cup [type: {"empty"}, role: {"user"}, call: {NoId}]
      \cup [type: {"function_call_output"}, role: {"tool"}, call: CallIds]
      \cup [type: {"unknown"}, role: {"none"}, call: {NoId}]

(* ToChatRequest: instructions are the first system message.               *)
ToChatRequest(r) ==
    LET Convert(item) ==
          CASE item.type = "unknown" -> <<>>
            [] item.type = "empty" -> <<Message("user", <<>>, <<>>, NoId)>>
            [] OTHER -> <<Message(item.role, <<"client">>, <<>>, item.call)>>
    IN  (IF r.instructions THEN <<Message("system", <<"instructions">>, <<>>, NoId)>> ELSE <<>>)
          \o FlattenSeq(Mapped(Convert, r.input))

(* Mutant: only messages are turned back.                                  *)
stateToHistoryNoCalls(items) ==
    Mapped(LAMBDA item : Message("assistant", item.text, <<>>, NoId),
           Selected(items, LAMBDA item : item.type # "function_call"))

(* stateToHistory: an assistant message for every item; calls without an   *)
(* id are left out.                                                        *)
stateToHistory(items) ==
    LET Convert(item) ==
          IF item.type = "function_call"
            THEN IF item.call = NoId THEN <<>>
                 ELSE <<Message("assistant", <<>>, <<item.call>>, NoId)>>
            ELSE <<Message("assistant", item.text, <<>>, NoId)>>
    IN  FlattenSeq(Mapped(Convert, items))

(* The calls answered by the tool messages right after message i.          *)
AnsweredAfter(msgs, i) ==
    {msgs[j].call : j \in {j \in i + 1 .. Len(msgs) :
                             \A k \in i + 1 .. j : msgs[k].role = "tool"}}

Placeholders(calls, answered) ==
    FlattenSeq(Mapped(LAMBDA c : IF c \in answered THEN <<>> ELSE <<Placeholder(c)>>, calls))

Answering(msgs, answered(_)) ==
    FlattenSeq([i \in DOMAIN msgs |->
      <<msgs[i]>> \o Placeholders(msgs[i].calls, answered(i))])

(* Mutant: an answer anywhere behind the call will do.                     *)
ensureToolCallsAnsweredAnywhere(msgs) ==
    Answering(msgs, LAMBDA i : {msgs[j].call : j \in i + 1 .. Len(msgs)})

(* Mutant: every call gets a placeholder.                                  *)
ensureToolCallsAnsweredAlways(msgs) == Answering(msgs, LAMBDA i : {})

(* ensureToolCallsAnswered: a placeholder for every call that the next     *)
(* messages do not answer.                                                 *)
ensureToolCallsAnswered(msgs) == Answering(msgs, LAMBDA i : AnsweredAfter(msgs, i))

(* The messages before the first that is not the system's.                 *)
SystemLen(msgs) ==
    Max({n \in 0..Len(msgs) : \A i \in 1..n : msgs[i].role = "system"})

(* MergeHistory: nothing is checked or added without a history.            *)
MergeHistory(msgs, history) ==
    IF history = <<>> THEN msgs
    ELSE LET n == SystemLen(msgs)
         IN  ensureToolCallsAnswered(SubSeq(msgs, 1, n) \o history
                                       \o SubSeq(msgs, n + 1, Len(msgs)))

----------------------------------------------------------------------------
(* The upstreams' requests: whether the system prompt goes ahead, and the  *)
(* messages.                                                               *)

(* convertMessageToOpenAI: every message is sent, with whatever it has; of *)
(* a tool message its text and its call.                                   *)
convertMessageToOpenAI(m) ==
    IF m.role = "tool" THEN Message("tool", m.text, <<>>, m.call)
    ELSE Message(m.role, m.text, m.calls, NoId)

ToOpenAIChatRequest(msgs) ==
    [status |-> "sent", system |-> FALSE, messages |-> Mapped(convertMessageToOpenAI, msgs)]

(* convertMessageToAnthropic: a tool message is a result block of the      *)
(* user; a message that would be empty is not sent.                        *)
convertMessageToAnthropic(m) ==
    IF m.role = "tool" THEN <<Message("user", m.text, <<>>, m.call)>>
    ELSE IF m.text = <<>> /\ m.calls = <<>> THEN <<>>
    ELSE <<Message(m.role, m.text, m.calls, NoId)>>

(* ToAnthropicRequest: of the system messages only the instructions go     *)
(* ahead, the others are skipped; no messages at all is an error.          *)
ToAnthropicRequest(msgs, instructions) ==
    LET Convert(m) == IF m.role = "system" THEN <<>> ELSE convertMessageToAnthropic(m)
        messages == FlattenSeq(Mapped(Convert, msgs))
    IN  IF messages = <<>> THEN [Unsent EXCEPT !.status = "refused"]
        ELSE [status |-> "sent", system |-> instructions, messages |-> messages]

----------------------------------------------------------------------------
(* A request, up to the upstream call or the refusal.                      *)
Ask(r) ==
    /\ r.continues => turn > 0
    /\ LET history == IF r.continues THEN stateToHistory(stored) ELSE <<>>
           chat == MergeHistory(ToChatRequest(r), history)
       IN  sent' = IF family = "anthropic" THEN ToAnthropicRequest(chat, r.instructions)
                   ELSE ToOpenAIChatRequest(chat)
    /\ asked' = IF sent'.status = "sent" THEN r ELSE Nothing
    /\ UNCHANGED <<family, turn, stored>>

(* The output items of an answer, [type, text, call].  There is one        *)
(* message and one reasoning at most, and an id is given to one call.  A   *)
(* stream stores them in the order in which they were opened; otherwise    *)
(* FromChatResponse puts the message first and the reasoning last.         *)
OutputItem ==
    {[type |-> "message", text |-> <<"model">>, call |-> NoId],
     [type |-> "reasoning", text |-> <<>>, call |-> NoId]}
      \cup {[type |-> "function_call", text |-> <<>>, call |-> c] : c \in CallIds \cup {NoId}}

Outputs(streamed) ==
    {o \in SeqOf(OutputItem, MaxOutputs) :
       /\ \A i, j \in DOMAIN o : i # j /\ o[i] = o[j] =>
            o[i].type = "function_call" /\ o[i].call = NoId
       /\ streamed \/ \A i, j \in DOMAIN o :
            i < j => o[j].type # "message" /\ o[i].type # "reasoning"}

(* The answer is stored.  Without a stream a call without an id ends the   *)
(* handler in a panic (FunctionCallIDs is never filled) and nothing is.    *)
Answer(streamed, output) ==
    LET panics == ~streamed /\ \E i \in DOMAIN output :
                                 output[i].type = "function_call" /\ output[i].call = NoId
    IN  /\ turn' = IF panics THEN turn ELSE turn + 1
        /\ stored' = IF panics THEN stored ELSE output
        /\ asked' = Nothing
        /\ sent' = Unsent
        /\ UNCHANGED family

Next ==
    \/ /\ sent.status # "sent"
       /\ \E instructions, continues \in BOOLEAN, n \in 1..MaxItems :
            \E input \in [1..n -> Items] :
              Ask([instructions |-> instructions, input |-> input, continues |-> continues])
    \/ /\ sent.status = "sent" /\ turn < MaxTurns
       /\ \E streamed \in BOOLEAN :
            \E output \in Outputs(streamed) : Answer(streamed, output)

Spec == Init /\ [][Next]_vars

----------------------------------------------------------------------------
(* Every variable has its type; only an Anthropic request is refused, and  *)
(* only one without a message.                                             *)
TypeOK ==
    /\ family \in {"openai", "anthropic"} /\ turn \in 0..MaxTurns
    /\ \A i \in DOMAIN stored : stored[i] \in OutputItem
    /\ Len(stored) <= MaxOutputs
    /\ asked \in [instructions: BOOLEAN, input: Seq(Items), continues: BOOLEAN]
    /\ sent.status \in {"none", "sent", "refused"}
    /\ sent.status = "refused" => family = "anthropic" /\ sent.messages = <<>>
    /\ sent.status = "sent" <=> asked # Nothing

Sent == sent.status = "sent"

(* What the previous answer said: its items with a text, a call or neither,*)
(* but for calls without an id.                                            *)
Said ==
    LET items == Selected(stored, LAMBDA o : o.type # "function_call" \/ o.call # NoId)
    IN  IF ~asked.continues THEN <<>>
        ELSE Mapped(LAMBDA o : Message("assistant", o.text,
                                       IF o.call = NoId THEN <<>> ELSE <<o.call>>, NoId),
                    items)

(* No upstream gets a call that is not answered at once: behind a message  *)
(* with calls come answers, and one of them answers each of its calls,     *)
(* whatever results the client sent, in whatever order, or did not send.   *)
CallsAnsweredAtOnce ==
    Sent =>
      \A i \in DOMAIN sent.messages : \A k \in DOMAIN sent.messages[i].calls :
        \E j \in i + 1 .. Len(sent.messages) :
          /\ \A x \in i + 1 .. j : sent.messages[x].call # NoId
          /\ sent.messages[j].call = sent.messages[i].calls[k]

(* What a message adds to the talk: who says it, and what; a result is its *)
(* call's, whoever brings it.                                              *)
Told(msgs) ==
    Mapped(LAMBDA m : <<IF m.call = NoId THEN m.role ELSE "result", m.text, m.calls, m.call>>,
           Selected(msgs, LAMBDA m : m.role # "system" /\ (m.text # <<>> \/ m.calls # <<>>)))

(* The request ends with the previous answer, every text and every call of *)
(* it in its order, and behind it the whole input in its order: whatever   *)
(* the client brings along is told after what the model said, and whatever *)
(* placeholders are put in displace nothing.  Instructions go along.       *)
HistoryThenInput ==
    Sent =>
      /\ IsSuffix(Told(Said \o ToChatRequest(asked)), Told(sent.messages))
      /\ asked.instructions =>
           sent.system \/ sent.messages[1] = Message("system", <<"instructions">>, <<>>, NoId)

(* The ordinary tool loop: if the answer ended with a call and the input   *)
(* begins with its result, alone or with others, the model sees the result *)
(* and no placeholder for that call.                                       *)
LastCallNotDoubled ==
    Sent /\ Said # <<>> =>
      \A c \in ToSet(Said[Len(Said)].calls), n \in DOMAIN asked.input :
        /\ asked.input[n].call = c
        /\ \A i \in 1..n : asked.input[i].role = "tool"
        => \A i \in DOMAIN sent.messages :
             sent.messages[i].call = c => ~IsPlaceholder(sent.messages[i])

----------------------------------------------------------------------------
(* What comments say and the code does not do.                             *)

(* "If the client already sent real function_call_output items ..., those  *)
(* are preserved and no duplicate placeholder is inserted" (history.go     *)
(* 229): here of a client whose input is its results and nothing else.     *)
(* Calls made together are replayed as messages of their own, and only     *)
(* behind the last of them come the results.                               *)
NoDuplicatePlaceholder ==
    Sent /\ (\A i \in DOMAIN asked.input : asked.input[i].role = "tool") =>
      \A i, j \in DOMAIN sent.messages :
        IsPlaceholder(sent.messages[i]) /\ sent.messages[j].call = sent.messages[i].call =>
          IsPlaceholder(sent.messages[j])
============================================================================
