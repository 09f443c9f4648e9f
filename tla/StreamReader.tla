----------------------------- MODULE StreamReader -----------------------------
(***************************************************************************)
(* What stands in front of ResponseStream's converter when the upstream    *)
(* is an Anthropic model: the SSE reader (internal/proxy/responses/sse.go) *)
(* and the adapter that makes a delta of an event, with the state of the   *)
(* block it belongs to (anthropic.go), in the loop of runOneStreamAttempt  *)
(* (internal/handler/responses.go).                                        *)
(*                                                                         *)
(* The upstream keeps to its protocol: one block after the other, a data   *)
(* line and a blank line for every event.  Its body may end or break       *)
(* anywhere.  Other lines matter only as an unterminated last line: fields *)
(* (event, id, retry), and lines that are comments or have no colon.       *)
(* Events are numbered, and so are blocks, whose number is their index;    *)
(* the id of a call is the number of its block, and 0 is no id.            *)
(***************************************************************************)
EXTENDS Naturals, Sequences

CONSTANT MaxEvents  \* bound: events of the upstream

VARIABLES
    up,      \* how far the upstream is in its protocol
    pending, \* dataLines: the event that waits for its blank line
    state,   \* AnthropicStreamState
    phase,   \* how the loop was left, or "open"
    deltas,  \* what Process was called with
    sent     \* history: the events whose data line the upstream completed

vars == <<up, pending, state, phase, deltas, sent>>

Init ==
    /\ up = [at |-> "start", block |-> 0]
    /\ pending = <<>>
    /\ state = [index |-> 0, tool |-> 0]
    /\ phase = "open"
    /\ deltas = <<>>
    /\ sent = <<>>

Kinds == {"text", "thinking", "tool"}

(* The upstream's next events, and where they take it.                     *)
UpstreamEvents ==
    LET Step(type, of, at, block) ==
          <<[type |-> type, of |-> of, n |-> Len(sent) + 1, block |-> block],
            [at |-> at, block |-> block]>>
        Starts(block) == {Step("start", kind, kind, block) : kind \in Kinds}
    IN  (CASE up.at = "start" -> {Step("message_start", "none", "first", 0)}
           [] up.at = "first" -> Starts(0)
           [] up.at \in Kinds ->
                {Step("delta", up.at, up.at, up.block), Step("stop", up.at, "between", up.block)}
           [] up.at = "between" ->
                Starts(up.block + 1) \cup {Step("message_delta", "none", "finished", up.block)}
           [] up.at = "finished" -> {Step("message_stop", "none", "over", up.block)}
           [] OTHER -> {})
        \cup (IF up.at # "over" THEN {Step("ping", "none", up.at, up.block)} ELSE {})

IsFragment(e) == e.type = "delta" /\ e.of = "tool"

----------------------------------------------------------------------------
(* ApplyAnthropicEvent: the block's index and call come from its start;    *)
(* its stop forgets the call and keeps the index.                          *)

(* Mutant: a call that is not forgotten keeps its id from the next.        *)
StateAfterKeeping(e) ==
    IF e.type = "start"
      THEN [index |-> e.block,
            tool |-> IF e.of = "tool" /\ state.tool = 0 THEN e.block + 1 ELSE state.tool]
      ELSE state

StateAfter(e) ==
    CASE e.type = "start" ->
           [index |-> e.block, tool |-> IF e.of = "tool" THEN e.block + 1 ELSE state.tool]
      [] e.type = "stop" -> [state EXCEPT !.tool = 0]
      [] OTHER -> state

DeltaOf(e) ==
    LET Delta(kind) == [kind |-> kind, n |-> e.n, index |-> 0, tool |-> 0]
    IN  CASE IsFragment(e) ->
               [kind |-> "fragment", n |-> e.n, index |-> state.index, tool |-> state.tool]
          [] e.type = "delta" /\ e.of = "text" -> Delta("text")
          [] e.type = "delta" /\ e.of = "thinking" -> Delta("reasoning")
          [] e.type \in {"message_delta", "message_stop"} -> Delta("finish")
          [] OTHER -> Delta("nothing")

(* ReadSSE returns an event, and the loop converts it.                     *)
Deliver(e) ==
    /\ deltas' = Append(deltas, DeltaOf(e))
    /\ state' = StateAfter(e)

DeliverPending ==
    IF pending = <<>> THEN UNCHANGED <<deltas, state>> ELSE Deliver(pending[1])

----------------------------------------------------------------------------
Reading == phase = "open" /\ pending = <<>> /\ Len(sent) < MaxEvents

DataLine(e) ==
    /\ Reading
    /\ pending' = <<e[1]>> /\ up' = e[2] /\ sent' = Append(sent, e[1])
    /\ UNCHANGED <<state, phase, deltas>>

BlankLine ==
    /\ phase = "open" /\ pending # <<>>
    /\ Deliver(pending[1])
    /\ pending' = <<>>
    /\ UNCHANGED <<up, phase, sent>>

(* Mutant: at the end of the body what waits is dropped.                   *)
EndDropping ==
    /\ phase = "open"
    /\ pending' = <<>> /\ phase' = "ended"
    /\ UNCHANGED <<up, state, deltas, sent>>

(* The body ends behind a line, or in one with a field: what waits is      *)
(* returned without its blank line.                                        *)
End ==
    /\ phase = "open"
    /\ DeliverPending
    /\ pending' = <<>> /\ phase' = "ended"
    /\ UNCHANGED <<up, sent>>

(* It ends in a data line whose payload is whole.                          *)
EndInData(e) ==
    /\ Reading
    /\ Deliver(e[1])
    /\ up' = e[2] /\ sent' = Append(sent, e[1])
    /\ phase' = "ended"
    /\ UNCHANGED pending

(* It ends in a comment, or before the colon of a field: the reader says   *)
(* io.EOF and nothing else.                                                *)
EndInComment ==
    /\ phase = "open"
    /\ phase' = "ended_in_comment"
    /\ UNCHANGED <<up, pending, state, deltas, sent>>

(* It breaks, or ends inside a payload, which is then no JSON: the stream  *)
(* fails, and what waits is lost.                                          *)
Break ==
    /\ phase = "open"
    /\ phase' = "failed"
    /\ UNCHANGED <<up, pending, state, deltas, sent>>

Next ==
    \/ \E e \in UpstreamEvents : DataLine(e) \/ EndInData(e)
    \/ BlankLine \/ End \/ EndInComment \/ Break

Spec == Init /\ [][Next]_vars

----------------------------------------------------------------------------
(* Every variable has its type.                                            *)
TypeOK ==
    /\ up.at \in Kinds \cup {"start", "first", "between", "finished", "over"}
    /\ up.block \in 0..MaxEvents
    /\ Len(pending) <= 1 /\ Len(sent) <= MaxEvents
    /\ state \in [index: 0..MaxEvents, tool: 0..MaxEvents + 1]
    /\ phase \in {"open", "ended", "ended_in_comment", "failed"}

(* Events are read one by one, none twice, none left out and none out of   *)
(* order, however far the body gets: what is read is a prefix of what came,*)
(* at most one event shorter, and all of it if the body ends behind a line *)
(* or in one with a field.                                                 *)
EventsRead ==
    /\ Len(deltas) \in {Len(sent) - 1, Len(sent)}
    /\ \A i \in DOMAIN deltas : deltas[i].n = sent[i].n
    /\ phase = "ended" => Len(deltas) = Len(sent)

(* Every fragment names the call it belongs to, by index and by id, and    *)
(* calls that came in parallel share neither; a call whose arguments are   *)
(* never sent is never seen.                                               *)
FragmentsNameTheirCall ==
    \A i \in DOMAIN deltas :
       /\ deltas[i].n = sent[i].n
       /\ deltas[i].kind = "fragment" <=> IsFragment(sent[i])
       /\ deltas[i].kind = "fragment" =>
            deltas[i].index = sent[i].block /\ deltas[i].tool = sent[i].block + 1
============================================================================
