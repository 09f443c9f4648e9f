--------------------------- MODULE ResponseStream ---------------------------
(***************************************************************************)
(* One streamed answer of POST /v1/responses after HTTP 200 is committed:  *)
(* the loop of runOneStreamAttempt (internal/handler/responses.go) and the *)
(* StreamConverter it feeds (internal/proxy/responses/stream.go).          *)
(*                                                                         *)
(* Text, reasoning and arguments are counted in pieces, one for each       *)
(* non-empty fragment.  Items are known by their position in c.outputs,    *)
(* counted from 1.  emitEvent numbers the events in the order in which     *)
(* they are written, so an event's number is its position in "wire".       *)
(* Events carry pointers to the items; what the final response says of an  *)
(* item is what "outputs" says when the stream has ended.                  *)
(***************************************************************************)
EXTENDS Naturals, Sequences, SequencesExt

CONSTANTS
    CallIndexes,   \* the tool_calls indexes of the upstream
    MaxDeltas      \* bound: upstream events read in a stream

VARIABLES
    outputs,  \* c.outputs with c.itemState
    calls,    \* c.toolCallsByIndex
    wire,     \* the events written to the client
    phase,    \* how the loop ended, or "open"
    got       \* history: the pieces of each kind read, and the events read

vars == <<outputs, calls, wire, phase, got>>

Kinds == {"message", "function_call", "reasoning"}
Item == [kind: Kinds, pieces: Nat, open: BOOLEAN, given: BOOLEAN,
         status: {"in_progress", "completed"}]

(* A builder's item, whether its id is the upstream's, and its arguments.  *)
Builder == [item: Nat, given: BOOLEAN, pieces: Nat]
NoCall == [item |-> 0, given |-> FALSE, pieces |-> 0]

ItemEvents == {"item_added", "part_added", "text_delta", "reasoning_delta",
               "arguments_delta", "text_done", "part_done", "arguments_done",
               "item_done"}
Terminals == {"completed", "failed"}
Event == [type: ItemEvents \cup Terminals \cup {"created", "in_progress"},
          item: Nat, index: Nat]

(* A fragment of a tool call: its index, whether it has the call's id, and *)
(* whether it has arguments.                                               *)
Fragments == [index: CallIndexes, given: BOOLEAN, args: BOOLEAN]

(* One upstream event: any of a reasoning piece, a fragment and a text     *)
(* piece; none of them, for an event that only carries usage.              *)
Deltas == [reasoning: BOOLEAN, text: BOOLEAN,
           fragment: {{}} \cup {{f} : f \in Fragments}]

Lifecycle(type) == [type |-> type, item |-> 0, index |-> 0]
OfItem(type, i) == [type |-> type, item |-> i, index |-> i]

Init ==
    /\ outputs = <<>>
    /\ calls = [x \in CallIndexes |-> NoCall]
    /\ wire = <<>>
    /\ phase = "open"
    /\ got = [text |-> 0, reasoning |-> 0, arguments |-> 0, events |-> 0]

----------------------------------------------------------------------------
(* The converter.  Its operations map a state [outputs, calls, events] to  *)
(* the next; "events" are the ones the call returns.                       *)

NewItem(kind, pieces, given) ==
    [kind |-> kind, pieces |-> pieces, open |-> FALSE, given |-> given,
     status |-> "in_progress"]

Positions(c, kind) == {i \in DOMAIN c.outputs : c.outputs[i].kind = kind}

Emit(c, events) == [c EXCEPT !.events = @ \o events]

AddPiece(c, i) == [c EXCEPT !.outputs[i].pieces = @ + 1]

(* Mutant: every burst of reasoning replaces what the item held.           *)
AppendReasoningReplacing(c) ==
    IF Positions(c, "reasoning") # {}
      THEN LET i == CHOOSE i \in Positions(c, "reasoning") : TRUE
           IN  Emit([c EXCEPT !.outputs[i].pieces = 1],
                    <<OfItem("reasoning_delta", i)>>)
      ELSE LET i == Len(c.outputs) + 1
           IN  Emit([c EXCEPT !.outputs = Append(@, NewItem("reasoning", 1, FALSE))],
                    <<OfItem("item_added", i), OfItem("reasoning_delta", i)>>)

(* appendReasoning: there is at most one reasoning item.                   *)
AppendReasoning(c) ==
    IF Positions(c, "reasoning") # {}
      THEN LET i == CHOOSE i \in Positions(c, "reasoning") : TRUE
           IN  Emit(AddPiece(c, i), <<OfItem("reasoning_delta", i)>>)
      ELSE LET i == Len(c.outputs) + 1
           IN  Emit([c EXCEPT !.outputs = Append(@, NewItem("reasoning", 1, FALSE))],
                    <<OfItem("item_added", i), OfItem("reasoning_delta", i)>>)

(* appendToolCall, first fragment of an index: the item is announced; the  *)
(* arguments of this fragment are not kept.                                *)
OpenCall(c, f) ==
    LET i == Len(c.outputs) + 1
    IN  Emit([c EXCEPT !.outputs = Append(@, NewItem("function_call", 0, f.given)),
                       !.calls[f.index] = [item |-> i, given |-> f.given, pieces |-> 0]],
             <<OfItem("item_added", i)>>)

(* appendToolCall, later fragments: an id that comes late replaces the     *)
(* builder's and leaves the item's.                                        *)
ExtendCall(c, f) ==
    LET b == c.calls[f.index]
        d == [c EXCEPT !.calls[f.index].given = b.given \/ f.given]
    IN  IF ~f.args THEN d
        ELSE Emit([d EXCEPT !.calls[f.index].pieces = @ + 1],
                  <<OfItem("arguments_delta", b.item)>>)

(* Mutant: a tool call marks its item as open text.                        *)
AppendToolCallOpen(c, f) ==
    IF c.calls[f.index] = NoCall
      THEN LET d == OpenCall(c, f)
           IN  [d EXCEPT !.outputs[Len(d.outputs)].open = TRUE]
      ELSE ExtendCall(c, f)

AppendToolCall(c, f) ==
    IF c.calls[f.index] = NoCall THEN OpenCall(c, f) ELSE ExtendCall(c, f)

EnsureMessageItem(c) ==
    IF Positions(c, "message") # {} THEN c
    ELSE [c EXCEPT !.outputs = Append(@, NewItem("message", 0, FALSE))]

(* Mutant: the index is the number of items.                               *)
AppendTextBeyond(c) ==
    LET d == EnsureMessageItem(c)
        i == CHOOSE i \in Positions(d, "message") : TRUE
        OfText(type) == [type |-> type, item |-> i, index |-> Len(d.outputs) + 1]
        added == IF d.outputs[1].open THEN <<>>
                 ELSE <<OfText("item_added"), OfText("part_added")>>
    IN  Emit(AddPiece([d EXCEPT !.outputs[1].open = TRUE], i),
             added \o <<OfText("text_delta")>>)

(* appendText: "open" is read and set on the first item, whatever it is,   *)
(* and the index is that of the last one.                                  *)
AppendText(c) ==
    LET d == EnsureMessageItem(c)
        i == CHOOSE i \in Positions(d, "message") : TRUE
        OfText(type) == [type |-> type, item |-> i, index |-> Len(d.outputs)]
        added == IF d.outputs[1].open THEN <<>>
                 ELSE <<OfText("item_added"), OfText("part_added")>>
    IN  Emit(AddPiece([d EXCEPT !.outputs[1].open = TRUE], i),
             added \o <<OfText("text_delta")>>)

Starting == <<Lifecycle("created"), Lifecycle("in_progress")>>

(* Process: reasoning, then tool calls, then text.                         *)
Process(d) ==
    LET c0 == [outputs |-> outputs, calls |-> calls,
               events |-> IF wire = <<>> THEN Starting ELSE <<>>]
        c1 == IF d.reasoning THEN AppendReasoning(c0) ELSE c0
        c2 == IF d.fragment = {} THEN c1
              ELSE AppendToolCall(c1, CHOOSE f \in d.fragment : TRUE)
    IN  IF d.text THEN AppendText(c2) ELSE c2

(* closeOpenItems, one item: a message is closed when its text is open.    *)
CloseEvents(i) ==
    CASE outputs[i].kind = "message" ->
           IF outputs[i].open
             THEN <<OfItem("text_done", i), OfItem("part_done", i), OfItem("item_done", i)>>
             ELSE <<>>
      [] outputs[i].kind = "function_call" ->
           <<OfItem("arguments_done", i), OfItem("item_done", i)>>
      [] outputs[i].kind = "reasoning" -> <<OfItem("item_done", i)>>

(* Mutant: the arguments collected by the builders are not copied back.    *)
FinalPiecesOfItem(i) == outputs[i].pieces

(* assembleResponse copies a builder's arguments to the item with its id.  *)
FinalPieces(i) ==
    LET mine == {x \in CallIndexes : calls[x].item = i /\ calls[x].given = outputs[i].given}
    IN  IF outputs[i].kind = "function_call" /\ mine # {}
          THEN calls[CHOOSE x \in mine : TRUE].pieces
          ELSE outputs[i].pieces

(* assembleResponse, after closeOpenItems when the stream is complete.     *)
Assemble(closed) ==
    outputs' = [i \in DOMAIN outputs |->
        [outputs[i] EXCEPT !.pieces = FinalPieces(i),
                           !.status = IF closed /\ CloseEvents(i) # <<>>
                                        THEN "completed" ELSE "in_progress"]]

----------------------------------------------------------------------------
(* The loop.                                                               *)

Count(d) == got' = [text |-> got.text + (IF d.text THEN 1 ELSE 0),
                    reasoning |-> got.reasoning + (IF d.reasoning THEN 1 ELSE 0),
                    arguments |-> got.arguments + (IF \E f \in d.fragment : f.args THEN 1 ELSE 0),
                    events |-> got.events + 1]

Read(d) ==
    /\ phase = "open" /\ got.events < MaxDeltas
    /\ LET c == Process(d)
       IN  /\ outputs' = c.outputs
           /\ calls' = c.calls
           /\ wire' = wire \o c.events
    /\ Count(d)
    /\ UNCHANGED phase

(* End of file or [DONE]: Complete, whose first two events are written     *)
(* whether or not they have been before.                                   *)
Complete ==
    /\ phase = "open"
    /\ wire' = wire \o Starting
                 \o FlattenSeq([i \in DOMAIN outputs |-> CloseEvents(i)])
                 \o <<Lifecycle("completed")>>
    /\ Assemble(TRUE)
    /\ phase' = "completed"
    /\ UNCHANGED <<calls, got>>

(* Mutant: the loop goes on after response.failed.                         *)
FailAndGoOn ==
    /\ phase = "open" /\ got.events < MaxDeltas
    /\ wire' = Append(wire, Lifecycle("failed"))
    /\ got' = [got EXCEPT !.events = @ + 1]
    /\ Assemble(FALSE)
    /\ UNCHANGED <<calls, phase>>

(* A read or a parse error: Fail.                                          *)
Fail ==
    /\ phase = "open"
    /\ wire' = Append(wire, Lifecycle("failed"))
    /\ Assemble(FALSE)
    /\ phase' = "failed"
    /\ UNCHANGED <<calls, got>>

(* The client is gone: the request's context ends, or a write fails.       *)
Abandon ==
    /\ phase = "open"
    /\ phase' = "abandoned"
    /\ UNCHANGED <<outputs, calls, wire, got>>

Next ==
    \/ \E d \in Deltas : Read(d)
    \/ Complete
    \/ Fail
    \/ Abandon

Spec == Init /\ [][Next]_vars

----------------------------------------------------------------------------
(* Every variable has its type, and no event names an item beyond the      *)
(* last.                                                                   *)
TypeOK ==
    /\ outputs \in Seq(Item)
    /\ calls \in [CallIndexes -> Builder]
    /\ wire \in Seq(Event)
    /\ \A k \in DOMAIN wire : {wire[k].item, wire[k].index} \subseteq 0..Len(outputs)
    /\ phase \in {"open", "completed", "failed", "abandoned"}
    /\ got \in [text: Nat, reasoning: Nat, arguments: Nat, events: Nat]

Events(i, types) == {k \in DOMAIN wire : wire[k].item = i /\ wire[k].type \in types}

(* A stream that ends with the client still there has exactly one terminal *)
(* event, it is the last one, and the first event is response.created      *)
(* unless the stream failed before it read anything.                       *)
EndsOnce ==
    /\ \A k \in DOMAIN wire : wire[k].type \in Terminals => k = Len(wire)
    /\ phase \in Terminals <=> wire # <<>> /\ wire[Len(wire)].type \in Terminals
    /\ phase \in Terminals => wire[Len(wire)].type = phase
    /\ wire # <<>> /\ wire[1].type # "created" => phase = "failed" /\ got.events = 0

(* Items are announced once, in the order of the final output and with its *)
(* index, before any other event about them.                               *)
AnnouncedInOrder ==
    /\ \A i \in DOMAIN outputs :
         /\ \E k \in Events(i, {"item_added"}) :
              /\ wire[k].index = i
              /\ \A l \in Events(i, ItemEvents) : k <= l
              /\ Events(i, {"item_added"}) = {k}
    /\ \A k, l \in DOMAIN wire :
         wire[k].type = "item_added" /\ wire[l].type = "item_added" /\ k < l
           => wire[k].item < wire[l].item

DeltasOf(i) == Events(i, {"text_delta", "reasoning_delta", "arguments_delta"})

(* A client that adds up the deltas has the final response: of a message,  *)
(* of reasoning, and of a call that keeps the id it was announced with,    *)
(* the completed response holds as many pieces as deltas were written,     *)
(* though an item's pieces are kept in one place and a builder's in        *)
(* another, and the item knows its builder by nothing but the id.          *)
DeltasMakeTheResponse ==
    phase = "completed" =>
      \A i \in DOMAIN outputs :
        (\A x \in CallIndexes : calls[x].item = i => calls[x].given = outputs[i].given)
          => Cardinality(DeltasOf(i)) = outputs[i].pieces

(* All text and all reasoning of the upstream is in the response, in one   *)
(* message and one reasoning item, however they interleave with calls.     *)
NothingLost ==
    LET Total(kind) == {i \in DOMAIN outputs : outputs[i].kind = kind}
        Holds(kind, n) == IF n = 0 THEN Total(kind) = {}
                          ELSE \E i \in Total(kind) : Total(kind) = {i} /\ outputs[i].pieces = n
    IN  Holds("message", got.text) /\ Holds("reasoning", got.reasoning)

----------------------------------------------------------------------------
(* What comments say and the code does not do.                             *)

(* The comment of closeOpenItems: the close sequence is emitted for every  *)
(* item still in flight, so a completed stream has closed all its items.   *)
EveryItemClosed ==
    phase = "completed" =>
      \A i \in DOMAIN outputs : Events(i, {"item_done"}) # {}

(* "accumulates a streaming tool-call fragment and emits                   *)
(* response.function_call_arguments.delta" (stream.go 363), and "Sync it   *)
(* back so persistence has complete arguments" (619): a completed response *)
(* has all arguments that were read.  Those of a call's first fragment are *)
(* not kept, and a builder that took a late id is no longer found under    *)
(* its item's.                                                             *)
ArgumentsComplete ==
    LET CallItems == {i \in DOMAIN outputs : outputs[i].kind = "function_call"}
    IN  phase = "completed" =>
          MapThenSumSet(LAMBDA i : outputs[i].pieces, CallItems) = got.arguments
=============================================================================
