--------------------------- MODULE ConvertedStream ---------------------------
(***************************************************************************)
(* A converted stream after HTTP 200: the line loops of streamConverted    *)
(* (internal/handler/openai.go) and streamAnthropicConverted               *)
(* (internal/handler/anthropic.go) with the event conversions of           *)
(* internal/proxy/convert.go.                                              *)
(*                                                                         *)
(* The upstream keeps to its protocol and writes a data line and a blank   *)
(* line for every event, but its body may end, or break, anywhere.  Lines  *)
(* of other kinds change nothing and are left out.  Events are numbered,   *)
(* and a piece of text or of arguments is the number of its event.         *)
(***************************************************************************)
EXTENDS Naturals, Sequences, SequencesExt

CONSTANTS
    Calls,     \* the tool calls of an answer
    NoCall,
    MaxEvents  \* bound: events of the upstream

VARIABLES
    client,  \* the client's wire format; the upstream's is the other one
    up,      \* how far the upstream is in its protocol
    buf,     \* dataBuf: the data line that waits for its blank line
    st,      \* OpenAIStreamState, for an Anthropic client
    wire,    \* the events written to the client
    phase,   \* how the body ended, or "open"
    read     \* history: the events that were parsed

vars == <<client, up, buf, st, wire, phase, read>>

NoReason == "none"
OpenAIReasons == {"stop", "length", "tool_calls"}
AnthropicReasons == {"end_turn", "stop_sequence", "max_tokens", "tool_use"}

Init ==
    /\ client \in {"anthropic", "openai"}
    /\ up = [at |-> "start", sent |-> 0, called |-> {}]
    /\ buf = <<>>
    /\ st = [started |-> FALSE, textBlockOpen |-> FALSE, finishReason |-> NoReason]
    /\ wire = <<>>
    /\ phase = "open"
    /\ read = <<>>

----------------------------------------------------------------------------
(* The upstream's protocols: an event, and where it takes the upstream.    *)

N == up.sent + 1

(* OpenAI: chunks with text, or a fragment of a call, whose first fragment *)
(* has its id, or both; one with the finish reason; with usage or an error *)
(* and no choices; [DONE].                                                 *)
Moved(at) == [up EXCEPT !.at = at, !.sent = N]
Chunk(text, call, args, reason) ==
    [type |-> "chunk", n |-> N, text |-> text, args |-> args, reason |-> reason,
     part |-> call # NoCall, call |-> IF call \in up.called THEN NoCall ELSE call]

TextChunk == <<Chunk(TRUE, NoCall, FALSE, NoReason), Moved("talking")>>
CallChunk(c, carries) ==
    <<Chunk(carries = "both", c, carries # "no_args", NoReason),
      [Moved("talking") EXCEPT !.called = @ \cup {c}]>>
LastChunk(r) == <<Chunk(FALSE, NoCall, FALSE, r), Moved("finished")>>
NoChoices == <<[type |-> "no_choices", n |-> N], Moved(up.at)>>
DoneLine == <<[type |-> "[DONE]", n |-> N], Moved("over")>>

OpenAIEvents ==
    (IF up.at \in {"start", "talking"}
       THEN {TextChunk} \cup {LastChunk(r) : r \in OpenAIReasons}
              \cup {CallChunk(c, carries) : c \in Calls, carries \in {"no_args", "args", "both"}}
       ELSE {})
    \cup (IF up.at # "over" THEN {NoChoices, DoneLine} ELSE {})

(* Anthropic: the message's start, blocks one after the other, its stop    *)
(* reason, its stop.  A ping or an error may come anywhere.                *)
AnthropicEvents ==
    LET Step(type, at) == <<[type |-> type, n |-> N], [up EXCEPT !.at = at, !.sent = N]>>
    IN  (CASE up.at = "start" -> {Step("message_start", "between")}
           [] up.at = "between" ->
                {Step("text_block", "text"), Step("tool_block", "tool")}
                  \cup {<<[type |-> "message_delta", n |-> N, reason |-> r],
                          [up EXCEPT !.at = "finished", !.sent = N]>> : r \in AnthropicReasons}
           [] up.at = "text" -> {Step("text_delta", "text"), Step("block_stop", "between")}
           [] up.at = "tool" -> {Step("input_json_delta", "tool"), Step("block_stop", "between")}
           [] up.at = "finished" -> {Step("message_stop", "over")}
           [] OTHER -> {})
        \cup (IF up.at # "over" THEN {Step("ping_or_error", up.at)} ELSE {})

UpstreamEvents == IF client = "anthropic" THEN OpenAIEvents ELSE AnthropicEvents

----------------------------------------------------------------------------
(* OpenAI to Anthropic.                                                    *)

(* Mutant: every piece of text has a block of its own.                     *)
ChunkToEventsReopening(e) ==
    (IF st.started THEN <<>> ELSE <<[type |-> "message_start"]>>)
      \o (IF e.text THEN <<[type |-> "block_start", index |-> 0, call |-> NoCall],
                           [type |-> "text_delta", index |-> 0, n |-> e.n]>> ELSE <<>>)

(* OpenAIChunkToAnthropicEvents: the first chunk with choices starts the   *)
(* message, the first text opens block 0, every fragment opens block 1.    *)
ChunkToEvents(e) ==
    LET start == IF st.started THEN <<>> ELSE <<[type |-> "message_start"]>>
        open == IF st.textBlockOpen THEN <<>>
                ELSE <<[type |-> "block_start", index |-> 0, call |-> NoCall]>>
        text == IF e.text THEN Append(open, [type |-> "text_delta", index |-> 0, n |-> e.n])
                ELSE <<>>
        part == IF e.part THEN <<[type |-> "block_start", index |-> 1, call |-> e.call]>>
                ELSE <<>>
        args == IF e.args THEN <<[type |-> "json_delta", index |-> 1, n |-> e.n]>>
                ELSE <<>>
    IN  start \o text \o part \o args

StateAfter(e) ==
    [started |-> TRUE,
     textBlockOpen |-> st.textBlockOpen \/ e.text,
     finishReason |-> IF e.reason # NoReason THEN e.reason ELSE st.finishReason]

StopReason(finish) ==
    CASE finish = "length" -> "max_tokens"
      [] finish = "tool_calls" -> "tool_use"
      [] OTHER -> "end_turn"

(* Mutant: the text block is left open.                                    *)
FinalEventsOpen ==
    <<[type |-> "message_delta", reason |-> StopReason(st.finishReason)],
      [type |-> "message_stop"]>>

(* FinalizeOpenAIStream: the text block is closed, and only that one.      *)
FinalEvents ==
    (IF st.textBlockOpen THEN <<[type |-> "block_stop", index |-> 0]>> ELSE <<>>)
      \o <<[type |-> "message_delta", reason |-> StopReason(st.finishReason)],
           [type |-> "message_stop"]>>

(* Anthropic to OpenAI: AnthropicEventToOpenAIChunk.  A block's identity   *)
(* is not known when its deltas come.                                      *)
FinishReason(stop) ==
    CASE stop \in {"end_turn", "stop_sequence"} -> "stop"
      [] stop = "max_tokens" -> "length"
      [] stop = "tool_use" -> "tool_calls"

EventToChunks(e) ==
    CASE e.type = "message_start" -> <<[type |-> "role"]>>
      [] e.type = "text_block" -> <<[type |-> "no_content"]>>
      [] e.type = "text_delta" -> <<[type |-> "text_delta", n |-> e.n]>>
      [] e.type = "input_json_delta" -> <<[type |-> "json_delta", n |-> e.n]>>
      [] e.type = "message_delta" -> <<[type |-> "finish", reason |-> FinishReason(e.reason)]>>
      [] e.type = "message_stop" -> <<[type |-> "no_content"]>>
      [] OTHER -> <<>>

----------------------------------------------------------------------------
(* The line loop.                                                          *)

(* What waits is parsed, converted and written.                            *)
Dispatch(e) ==
    /\ read' = Append(read, e)
    /\ buf' = <<>>
    /\ IF client = "openai"
         THEN wire' = wire \o EventToChunks(e) /\ UNCHANGED st
         ELSE CASE e.type = "chunk" -> wire' = wire \o ChunkToEvents(e) /\ st' = StateAfter(e)
                [] e.type = "[DONE]" -> wire' = wire \o FinalEvents /\ UNCHANGED st
                [] OTHER -> UNCHANGED <<wire, st>>

(* A data line.                                                            *)
Data(e) ==
    /\ phase = "open" /\ buf = <<>> /\ up.sent < MaxEvents
    /\ buf' = <<e[1]>> /\ up' = e[2]
    /\ UNCHANGED <<client, st, wire, phase, read>>

(* A blank line.                                                           *)
Blank ==
    /\ phase = "open" /\ buf # <<>>
    /\ Dispatch(buf[1])
    /\ UNCHANGED <<client, up, phase>>

(* Mutant: the last event has to have its blank line.                      *)
EndUndispatched ==
    /\ phase = "open"
    /\ phase' = "ended"
    /\ UNCHANGED <<client, up, buf, st, wire, read>>

(* The body ends behind a line: what is read then is an empty line.        *)
End ==
    /\ phase = "open"
    /\ IF buf = <<>> THEN UNCHANGED <<buf, st, wire, read>> ELSE Dispatch(buf[1])
    /\ phase' = "ended"
    /\ UNCHANGED <<client, up>>

(* The body ends in a data line, whose event is not dispatched.            *)
EndInLine(e) ==
    /\ phase = "open" /\ buf = <<>> /\ up.sent < MaxEvents
    /\ buf' = <<e[1]>> /\ up' = e[2]
    /\ phase' = "cut"
    /\ UNCHANGED <<client, st, wire, read>>

(* A read error: the caller writes its JSON error behind the events.       *)
Break ==
    /\ phase = "open"
    /\ wire' = Append(wire, [type |-> "json_error"])
    /\ phase' = "broken"
    /\ UNCHANGED <<client, up, buf, st, read>>

Next ==
    \/ \E e \in UpstreamEvents : Data(e) \/ EndInLine(e)
    \/ Blank \/ End \/ Break

Spec == Init /\ [][Next]_vars

----------------------------------------------------------------------------
Has(s, type) == \E i \in DOMAIN s : s[i].type = type
Numbers(s) == [i \in DOMAIN s |-> s[i].n]

(* Every variable has its type, and the parsed events are those the        *)
(* upstream sent, without a gap: only one may be missing, the last.        *)
TypeOK ==
    /\ client \in {"anthropic", "openai"}
    /\ up.at \in {"start", "talking", "between", "text", "tool", "finished", "over"}
    /\ up.sent \in 0..MaxEvents /\ up.called \subseteq Calls
    /\ st \in [started: BOOLEAN, textBlockOpen: BOOLEAN, finishReason: OpenAIReasons \cup {NoReason}]
    /\ phase \in {"open", "ended", "cut", "broken"}
    /\ Numbers(read \o buf) = [i \in 1..up.sent |-> i] /\ Len(buf) <= 1
    /\ phase = "ended" => buf = <<>>

(* The numbers of the events that carry a piece, in order.                *)
Pieces(s, Carries(_)) ==
    FlattenSeq([i \in DOMAIN s |-> IF Carries(s[i]) THEN <<s[i].n>> ELSE <<>>])

HasText(e) ==
    IF client = "anthropic" THEN e.type = "chunk" /\ e.text ELSE e.type = "text_delta"
HasArguments(e) ==
    IF client = "anthropic" THEN e.type = "chunk" /\ e.args ELSE e.type = "input_json_delta"

(* Text and arguments reach the client piece by piece, all that was parsed *)
(* and in order, in either direction, and whatever stands between them.    *)
PiecesKept ==
    /\ Pieces(wire, LAMBDA e : e.type = "text_delta") = Pieces(read, HasText)
    /\ Pieces(wire, LAMBDA e : e.type = "json_delta") = Pieces(read, HasArguments)

(* "Text completion only" (convert.go 14): without calls an Anthropic      *)
(* client gets a message by its protocol, however far it gets.  It starts  *)
(* once and first, unless there was no choice at all to start it; text is  *)
(* in an open block; the reason comes when blocks are closed, and the stop *)
(* behind it.                                                              *)
TextStreamsWellFormed ==
    LET At(type) == {i \in DOMAIN wire : wire[i].type = type}
        Before(i, type) == \E j \in At(type) : j < i
    IN  client = "anthropic" /\ ~(\E i \in DOMAIN read : read[i].type = "chunk" /\ read[i].part) =>
          /\ At("message_start") = IF Has(read, "chunk") THEN {1} ELSE {}
          /\ \A type \in {"block_start", "block_stop", "message_delta", "message_stop"} :
               \A i, j \in At(type) : i = j
          /\ \A i \in At("text_delta") : Before(i, "block_start") /\ ~Before(i, "block_stop")
          /\ \A i \in At("message_delta") :
               /\ Before(i, "block_start") <=> Before(i, "block_stop")
               /\ \A j \in i + 1 .. Len(wire) : wire[j].type \in {"message_stop", "json_error"}
          /\ \A i \in At("message_stop") : i > 1 /\ wire[i - 1].type = "message_delta"

(* A client is told once why the answer ended, with the upstream's reason, *)
(* when the upstream said so and the line arrived, and never otherwise; a  *)
(* body that ends behind its last line has arrived.  No piece of the       *)
(* answer comes behind it.                                                 *)
ReasonTold ==
    LET Tells(e) == e.type \in {"finish", "message_delta"}
        told == {j \in DOMAIN wire : Tells(wire[j])}
        Finishes(e) == e.type \in {"chunk", "message_delta"} /\ e.reason # NoReason
    IN  /\ IF Has(read, IF client = "anthropic" THEN "[DONE]" ELSE "message_delta")
             THEN \E j \in told : told = {j} ELSE told = {}
        /\ phase = "ended" /\ up.at = "over" => told # {}
        /\ \A i \in DOMAIN read, j \in told :
             Finishes(read[i]) =>
               wire[j].reason = IF client = "anthropic" THEN StopReason(read[i].reason)
                                ELSE FinishReason(read[i].reason)
        /\ \A i \in told : \A j \in i + 1 .. Len(wire) :
             wire[j].type \notin {"text_delta", "json_delta"}
============================================================================
