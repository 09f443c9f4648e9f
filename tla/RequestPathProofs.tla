-------------------------- MODULE RequestPathProofs --------------------------
(***************************************************************************)
(* The steps on a request's path share no state, so that what is proved of *)
(* one of them alone holds of it in their product.  ChatProofs has what is *)
(* proved of whole messages; here are the streams, their reader and the    *)
(* selection of a key, and at the end the types of all parts together.     *)
(***************************************************************************)
EXTENDS ChatProofs

----------------------------------------------------------------------------
(* The reader.  Wherever a body ends, the converter was called with the    *)
(* events in their order, and every fragment names its call.  The first is *)
(* inductive with the numbers of the events; the second needs to know, for *)
(* the event that waits as well, that the adapter's block is the           *)
(* upstream's while a call is open.                                        *)

ReaderEventTypes ==
    {"message_start", "start", "delta", "stop", "message_delta", "message_stop", "ping"}
ReaderEvent == [type: ReaderEventTypes, of: Reader!Kinds \cup {"none"}, n: Nat, block: Nat]
AdapterDelta == [kind: {"text", "reasoning", "fragment", "finish", "nothing"},
          n: Nat, index: Nat, tool: Nat]
ReaderPlaces == Reader!Kinds \cup {"start", "first", "between", "finished", "over"}

(* What an event does to where the upstream is, and what it may be there.  *)
ReaderFollows(e, to) ==
    /\ to = [at |-> to.at, block |-> to.block]
    /\ e.n = Len(readerSent) + 1
    /\ to.at \in ReaderPlaces
    /\ to.block \in Nat /\ readerUp.block <= to.block /\ to.block <= readerUp.block + 1
    /\ to.at \in {"start", "first"} => to.block = 0
    /\ e.block = to.block
    /\ Reader!IsFragment(e) =>
         readerUp.at = "tool" /\ to.at = "tool" /\ e.block = readerUp.block
    /\ to.at = "tool" => \/ e.type = "start" /\ e.of = "tool"
                         \/ readerUp.at = "tool" /\ to.block = readerUp.block
                              /\ e.type \in {"delta", "ping"}

LEMMA ReaderEventsFollow ==
    ASSUME readerUp.at \in ReaderPlaces, readerUp.block \in Nat,
           readerSent \in Seq(ReaderEvent),
           readerUp.at \in {"start", "first"} => readerUp.block = 0,
           NEW e \in Reader!UpstreamEvents
    PROVE  e[1] \in ReaderEvent /\ ReaderFollows(e[1], e[2])
<1> DEFINE Step(type, of, at, block) ==
        <<[type |-> type, of |-> of, n |-> Len(readerSent) + 1, block |-> block],
          [at |-> at, block |-> block]>>
<1>0. Len(readerSent) \in Nat
  OBVIOUS
<1>1. CASE e = Step("ping", "none", readerUp.at, readerUp.block)
  BY <1>0, <1>1 DEF ReaderEvent, ReaderEventTypes, ReaderFollows, ReaderPlaces,
      Reader!IsFragment
<1>2. CASE readerUp.at = "start" /\ e = Step("message_start", "none", "first", 0)
  BY <1>0, <1>2 DEF ReaderEvent, ReaderEventTypes, ReaderFollows, ReaderPlaces,
      Reader!IsFragment
<1>3. CASE readerUp.at = "first"
                /\ \E kind \in Reader!Kinds : e = Step("start", kind, kind, 0)
  BY <1>0, <1>3 DEF ReaderEvent, ReaderEventTypes, ReaderFollows, ReaderPlaces,
      Reader!Kinds, Reader!IsFragment
<1>4. CASE readerUp.at \in Reader!Kinds
                /\ e = Step("delta", readerUp.at, readerUp.at, readerUp.block)
  BY <1>0, <1>4 DEF ReaderEvent, ReaderEventTypes, ReaderFollows, ReaderPlaces,
      Reader!Kinds, Reader!IsFragment
<1>5. CASE readerUp.at \in Reader!Kinds
                /\ e = Step("stop", readerUp.at, "between", readerUp.block)
  BY <1>0, <1>5 DEF ReaderEvent, ReaderEventTypes, ReaderFollows, ReaderPlaces,
      Reader!Kinds, Reader!IsFragment
<1>6. CASE readerUp.at = "between"
                /\ \E kind \in Reader!Kinds :
                     e = Step("start", kind, kind, readerUp.block + 1)
  BY <1>0, <1>6 DEF ReaderEvent, ReaderEventTypes, ReaderFollows, ReaderPlaces,
      Reader!Kinds, Reader!IsFragment
<1>7. CASE readerUp.at = "between"
                /\ e = Step("message_delta", "none", "finished", readerUp.block)
  BY <1>0, <1>7 DEF ReaderEvent, ReaderEventTypes, ReaderFollows, ReaderPlaces,
      Reader!IsFragment
<1>8. CASE readerUp.at = "finished"
                /\ e = Step("message_stop", "none", "over", readerUp.block)
  BY <1>0, <1>8 DEF ReaderEvent, ReaderEventTypes, ReaderFollows, ReaderPlaces,
      Reader!IsFragment
<1>9. QED
  BY <1>1, <1>2, <1>3, <1>4, <1>5, <1>6, <1>7, <1>8 DEF Reader!UpstreamEvents,
      Reader!Kinds

----------------------------------------------------------------------------
(* The parts of the invariant.                                             *)

ReaderPhases == {"open", "ended", "ended_in_comment", "failed"}
AdapterState == [index: Nat, tool: Nat]

ReaderTyped ==
    /\ readerUp.at \in ReaderPlaces /\ readerUp.block \in Nat
    /\ readerUp.at \in {"start", "first"} => readerUp.block = 0
    /\ readerSent \in Seq(ReaderEvent) /\ pending \in Seq(ReaderEvent)
    /\ deltas \in Seq(AdapterDelta)
    /\ state \in AdapterState /\ readerPhase \in ReaderPhases

ReaderBounded ==
    /\ Len(readerSent) <= MaxRead
    /\ readerUp.block <= Len(readerSent)
    /\ state.index <= readerUp.block /\ state.tool <= readerUp.block + 1
    /\ pending # <<>> => pending[1].block <= readerUp.block

(* What was converted, and what waits, is what was sent.                   *)
EventsCounted ==
    /\ Len(pending) <= 1
    /\ Len(deltas) + Len(pending) = Len(readerSent)
    /\ pending # <<>> => pending[1] = readerSent[Len(readerSent)]
    /\ readerPhase = "ended" => pending = <<>>
    /\ \A i \in DOMAIN readerSent : readerSent[i].n = i

(* A delta is right for the event e it was made of.                        *)
Fits(d, e) ==
    /\ d.n = e.n
    /\ d.kind = "fragment" <=> Reader!IsFragment(e)
    /\ d.kind = "fragment" => d.index = e.block /\ d.tool = e.block + 1

Fitting == \A i \in DOMAIN deltas : Fits(deltas[i], readerSent[i])

(* The adapter's block is the upstream's while a call is open.             *)
Synced(s) == readerUp.at = "tool" => s.index = readerUp.block /\ s.tool = readerUp.block + 1

AdapterReady(e) == Reader!IsFragment(e) => state.index = e.block /\ state.tool = e.block + 1

InStep ==
    readerPhase = "open" =>
      IF pending = <<>> THEN Synced(state)
      ELSE AdapterReady(pending[1]) /\ Synced(Reader!StateAfter(pending[1]))

ReadingOn == ReaderTyped /\ ReaderBounded /\ EventsCounted /\ Fitting /\ InStep

----------------------------------------------------------------------------
(* What the adapter makes of an event.                                     *)
LEMMA AdapterConverts ==
    ASSUME state \in AdapterState, NEW e \in ReaderEvent, AdapterReady(e)
    PROVE  /\ Reader!DeltaOf(e) \in AdapterDelta
           /\ Fits(Reader!DeltaOf(e), e)
BY DEF AdapterState, ReaderEvent, AdapterReady, Reader!DeltaOf, AdapterDelta, Fits,
    Reader!IsFragment

LEMMA StateConverted ==
    ASSUME state \in AdapterState, NEW e \in ReaderEvent, NEW b \in Nat,
           state.index <= b, state.tool <= b + 1, e.block <= b
    PROVE  /\ Reader!StateAfter(e) \in AdapterState
           /\ Reader!StateAfter(e).index <= b /\ Reader!StateAfter(e).tool <= b + 1
BY DEF AdapterState, ReaderEvent, Reader!StateAfter

(* An event that comes while the adapter is in step can be converted, and  *)
(* the adapter is in step with what follows.                               *)
LEMMA StaysInStep ==
    ASSUME state \in AdapterState, readerUp.block \in Nat, Synced(state),
           NEW e \in ReaderEvent, NEW to, ReaderFollows(e, to)
    PROVE  /\ AdapterReady(e)
           /\ to.at = "tool" => Reader!StateAfter(e).index = to.block
                                 /\ Reader!StateAfter(e).tool = to.block + 1
BY DEF AdapterState, ReaderEvent, ReaderFollows, Synced, AdapterReady,
    Reader!StateAfter, Reader!IsFragment

(* The next delta fits the next event.                                     *)
LEMMA DeliverFits ==
    ASSUME ReaderTyped, Fitting, NEW e \in ReaderEvent, AdapterReady(e), Reader!Deliver(e),
           readerSent' \in Seq(ReaderEvent), Len(readerSent') = Len(deltas) + 1,
           \A i \in DOMAIN deltas : readerSent'[i] = readerSent[i],
           readerSent'[Len(readerSent')] = e
    PROVE  /\ deltas' \in Seq(AdapterDelta) /\ Len(deltas') = Len(readerSent')
           /\ Fitting'
<1>1. Reader!DeltaOf(e) \in AdapterDelta /\ Fits(Reader!DeltaOf(e), e)
  BY AdapterConverts DEF ReaderTyped
<1>2. deltas' \in Seq(AdapterDelta) /\ Len(deltas') = Len(readerSent')
  BY <1>1 DEF ReaderTyped, Reader!Deliver
<1>3. ASSUME NEW i \in DOMAIN deltas' PROVE Fits(deltas'[i], readerSent'[i])
  <2>1. CASE i \in DOMAIN deltas
    <3>1. deltas'[i] = deltas[i]
      BY <1>1, <2>1 DEF ReaderTyped, Reader!Deliver
    <3>2. QED
      BY <2>1, <3>1 DEF Fitting
  <2>2. CASE i = Len(deltas) + 1
    BY <1>1, <2>2 DEF ReaderTyped, Reader!Deliver
  <2>3. i \in DOMAIN deltas \/ i = Len(deltas) + 1
    BY <1>1 DEF ReaderTyped, Reader!Deliver
  <2>4. QED
    BY <2>1, <2>2, <2>3
<1>4. QED
  BY <1>2, <1>3 DEF Fitting, Fits, Reader!IsFragment

----------------------------------------------------------------------------
LEMMA ReadingBegins == MaxRead \in Nat /\ Reader!Init => ReadingOn
BY DEF Reader!Init, ReadingOn, ReaderTyped, ReaderBounded, EventsCounted, Fitting,
    InStep, Synced, ReaderPlaces, AdapterState, ReaderPhases

LEMMA DataLineReads ==
    ASSUME MaxRead \in Nat, ReadingOn, NEW e \in Reader!UpstreamEvents, Reader!DataLine(e)
    PROVE  ReadingOn'
<1>1. e[1] \in ReaderEvent /\ ReaderFollows(e[1], e[2])
  BY ReaderEventsFollow DEF ReadingOn, ReaderTyped
<1>2. AdapterReady(e[1]) /\ (e[2].at = "tool" => Reader!StateAfter(e[1]).index = e[2].block
                                          /\ Reader!StateAfter(e[1]).tool = e[2].block + 1)
  BY <1>1, StaysInStep DEF ReadingOn, ReaderTyped, InStep, Reader!DataLine,
      Reader!Reading
<1>3. ReaderTyped'
  BY <1>1 DEF ReadingOn, ReaderTyped, Reader!DataLine, ReaderFollows
<1>4. ReaderBounded'
  BY <1>1 DEF ReadingOn, ReaderTyped, ReaderBounded, Reader!DataLine,
      Reader!Reading, ReaderFollows, AdapterState
<1>5. EventsCounted'
  BY <1>1 DEF ReadingOn, ReaderTyped, EventsCounted, Reader!DataLine,
      Reader!Reading, ReaderFollows
<1>6. Fitting'
  BY <1>1 DEF ReadingOn, ReaderTyped, EventsCounted, Fitting, Fits,
      Reader!IsFragment, Reader!DataLine, Reader!Reading
<1>7. InStep'
  BY <1>1, <1>2 DEF InStep, Synced, AdapterReady, Reader!StateAfter,
      Reader!IsFragment, Reader!DataLine, Reader!Reading
<1>8. QED
  BY <1>3, <1>4, <1>5, <1>6, <1>7 DEF ReadingOn

(* What waits is converted, and nothing waits then.                        *)
LEMMA PendingDelivered ==
    ASSUME MaxRead \in Nat, ReadingOn, readerPhase = "open", pending # <<>>,
           Reader!Deliver(pending[1]), pending' = <<>>, readerPhase' \in {"open", "ended"},
           UNCHANGED <<readerUp, readerSent>>
    PROVE  ReadingOn'
<1> DEFINE e == pending[1]
<1>1. /\ e \in ReaderEvent /\ e = readerSent[Len(readerSent)]
      /\ AdapterReady(e) /\ Synced(Reader!StateAfter(e))
      /\ Len(readerSent) = Len(deltas) + 1
  BY DEF ReadingOn, ReaderTyped, EventsCounted, InStep
<1>2. deltas' \in Seq(AdapterDelta) /\ Len(deltas') = Len(readerSent') /\ Fitting'
  BY <1>1, DeliverFits DEF ReadingOn, ReaderTyped
<1>3. /\ state' \in AdapterState
      /\ state'.index <= readerUp.block /\ state'.tool <= readerUp.block + 1
  BY <1>1, StateConverted DEF ReadingOn, ReaderTyped, ReaderBounded, Reader!Deliver
<1>4. ReaderTyped'
  BY <1>2, <1>3 DEF ReadingOn, ReaderTyped, ReaderPhases
<1>5. ReaderBounded'
  BY <1>3 DEF ReadingOn, ReaderBounded
<1>6. EventsCounted'
  BY <1>2 DEF ReadingOn, ReaderTyped, EventsCounted
<1>7. InStep'
  BY <1>1 DEF InStep, Synced, Reader!Deliver
<1>8. QED
  BY <1>2, <1>4, <1>5, <1>6, <1>7 DEF ReadingOn

LEMMA EndInDataReads ==
    ASSUME MaxRead \in Nat, ReadingOn, NEW e \in Reader!UpstreamEvents, Reader!EndInData(e)
    PROVE  ReadingOn'
<1>1. e[1] \in ReaderEvent /\ ReaderFollows(e[1], e[2])
  BY ReaderEventsFollow DEF ReadingOn, ReaderTyped
<1>2. AdapterReady(e[1])
  BY <1>1, StaysInStep DEF ReadingOn, ReaderTyped, InStep, Reader!EndInData,
      Reader!Reading
<1>3. /\ readerSent' \in Seq(ReaderEvent) /\ Len(readerSent') = Len(readerSent) + 1
      /\ Len(deltas) = Len(readerSent)
      /\ \A i \in DOMAIN deltas : readerSent'[i] = readerSent[i]
      /\ readerSent'[Len(readerSent')] = e[1]
  BY <1>1 DEF ReadingOn, ReaderTyped, EventsCounted, Reader!EndInData, Reader!Reading
<1>4. deltas' \in Seq(AdapterDelta) /\ Len(deltas') = Len(readerSent') /\ Fitting'
  BY <1>1, <1>2, <1>3, DeliverFits DEF ReadingOn, Reader!EndInData
<1>5. /\ state' \in AdapterState
      /\ state'.index <= readerUp'.block /\ state'.tool <= readerUp'.block + 1
  <2>1. /\ e[2].block \in Nat /\ state.index <= e[2].block /\ state.tool <= e[2].block + 1
        /\ e[1].block <= e[2].block
    BY SMTT(30), <1>1 DEF ReadingOn, ReaderTyped, ReaderBounded, ReaderFollows, AdapterState
  <2>2. QED
        BY <1>1, <2>1, StateConverted DEF ReadingOn, ReaderTyped, Reader!EndInData,
        Reader!Deliver
<1>6. ReaderTyped'
  BY <1>1, <1>3, <1>4, <1>5 DEF ReadingOn, ReaderTyped, Reader!EndInData,
      ReaderFollows, ReaderPhases
<1>7. ReaderBounded'
  BY <1>1, <1>3, <1>5 DEF ReadingOn, ReaderTyped, ReaderBounded, Reader!EndInData,
      Reader!Reading, ReaderFollows
<1>8. EventsCounted'
  BY <1>1, <1>3, <1>4 DEF ReadingOn, ReaderTyped, EventsCounted, Reader!EndInData,
      Reader!Reading, ReaderFollows
<1>9. InStep'
  BY DEF InStep, Reader!EndInData
<1>10. QED
  BY <1>4, <1>6, <1>7, <1>8, <1>9 DEF ReadingOn

(* An end at which nothing is converted.                                   *)
LEMMA ClosedReads ==
    ASSUME ReadingOn, readerPhase' \in ReaderPhases \ {"open"},
           readerPhase' = "ended" => pending = <<>>,
           UNCHANGED <<readerUp, pending, state, deltas, readerSent>>
    PROVE  ReadingOn'
BY DEF ReadingOn, ReaderTyped, ReaderBounded, EventsCounted, Fitting, Fits, InStep,
    Reader!IsFragment, ReaderPhases

LEMMA ReadingGoesOn ==
    ASSUME MaxRead \in Nat, ReadingOn, [Reader!Next]_readerVars
    PROVE  ReadingOn'
<1>1. ASSUME NEW e \in Reader!UpstreamEvents, Reader!DataLine(e) PROVE ReadingOn'
  BY <1>1, DataLineReads
<1>2. ASSUME NEW e \in Reader!UpstreamEvents, Reader!EndInData(e) PROVE ReadingOn'
  BY <1>2, EndInDataReads
<1>3. CASE Reader!BlankLine
  BY <1>3, PendingDelivered DEF Reader!BlankLine
<1>4. CASE Reader!End
  <2>1. CASE pending = <<>>
    BY <1>4, <2>1, ClosedReads DEF Reader!End, Reader!DeliverPending, ReaderPhases
  <2>2. CASE pending # <<>>
    BY <1>4, <2>2, PendingDelivered DEF Reader!End, Reader!DeliverPending
  <2>3. QED
    BY <2>1, <2>2
<1>5. CASE Reader!EndInComment
  BY <1>5, ClosedReads DEF Reader!EndInComment, ReaderPhases
<1>6. CASE Reader!Break
  BY <1>6, ClosedReads DEF Reader!Break, ReaderPhases
<1>7. CASE UNCHANGED readerVars
  BY <1>7 DEF readerVars, ReadingOn, ReaderTyped, ReaderBounded, EventsCounted,
      Fitting, Fits, InStep, Synced, AdapterReady,
              Reader!StateAfter, Reader!IsFragment
<1>8. QED
  BY <1>1, <1>2, <1>3, <1>4, <1>5, <1>6, <1>7 DEF Reader!Next

(* A behaviour of the product is one of the reader, with stuttering.       *)
LEMMA ReaderRuns == Spec => Reader!Init /\ [][Reader!Next]_readerVars
<1>1. Init => Reader!Init
  BY DEF Init
<1>2. [Next]_vars => [Reader!Next]_readerVars
  BY DEF Next, vars
<1>3. QED
  BY <1>1, <1>2, PTL DEF Spec

LEMMA ReadingAlways == Spec => []ReadingOn
<1>1. MaxRead \in Nat
  BY RequestPathAssumption
<1>2. Reader!Init => ReadingOn
  BY <1>1, ReadingBegins
<1>3. ReadingOn /\ [Reader!Next]_readerVars => ReadingOn'
  BY <1>1, ReadingGoesOn
<1>4. QED
  BY <1>2, <1>3, ReaderRuns, PTL

----------------------------------------------------------------------------
(* Every variable of the reader and of its adapter keeps its type, however *)
(* many events come.                                                       *)
THEOREM ReaderAlwaysTyped == Spec => []Reader!TypeOK
<1>0. MaxRead \in Nat
  BY RequestPathAssumption
<1>1. ReadingOn => Reader!TypeOK
  BY <1>0 DEF ReadingOn, ReaderTyped, ReaderBounded, EventsCounted, Reader!TypeOK,
      ReaderPlaces, ReaderPhases, AdapterState
<1>2. QED
  BY <1>1, ReadingAlways, PTL

(* What is converted is a prefix of the events that came, in order and one *)
(* event shorter at most, and all of them if the body ends behind a line   *)
(* or in one with a field.                                                 *)
THEOREM EventsAlwaysRead == Spec => []EventsRead
<1>1. ASSUME ReadingOn PROVE EventsRead
  <2>1. /\ Len(readerSent) \in Nat /\ Len(deltas) \in Nat /\ Len(pending) \in Nat
        /\ DOMAIN readerSent = 1..Len(readerSent) /\ DOMAIN deltas = 1..Len(deltas)
    BY <1>1 DEF ReadingOn, ReaderTyped
  <2>2. /\ Len(pending) <= 1 /\ Len(deltas) + Len(pending) = Len(readerSent)
        /\ readerPhase = "ended" => Len(pending) = 0
    BY <1>1 DEF ReadingOn, EventsCounted
  <2>3. Len(deltas) \in {Len(readerSent) - 1, Len(readerSent)}
        /\ (readerPhase = "ended" => Len(deltas) = Len(readerSent))
    <3>1. PICK d, p, n : d = Len(deltas) /\ p = Len(pending) /\ n = Len(readerSent)
      OBVIOUS
    <3>2. d \in Nat /\ p \in Nat /\ n \in Nat /\ p <= 1 /\ d + p = n
      BY <2>1, <2>2, <3>1
    <3>3. d \in {n - 1, n} /\ (p = 0 => d = n)
      BY <3>2
    <3>4. QED
      BY <2>2, <3>1, <3>3
  <2>4. \A i \in DOMAIN deltas : deltas[i].n = readerSent[i].n
    BY <1>1 DEF ReadingOn, Fitting, Fits
  <2>5. QED
    BY <2>3, <2>4 DEF EventsRead, Reader!EventsRead
<1>2. QED
  BY <1>1, ReadingAlways, PTL

(* Every fragment names its own call, by index and by id, with any number  *)
(* of calls one after the other and other blocks between them.             *)
THEOREM FragmentsAlwaysNamed == Spec => []FragmentsNameTheirCall
<1>1. ReadingOn => FragmentsNameTheirCall
  BY DEF ReadingOn, Fitting, Fits, FragmentsNameTheirCall, Reader!FragmentsNameTheirCall
<1>2. QED
  BY <1>1, ReadingAlways, PTL

----------------------------------------------------------------------------
(* ConvertedStream, towards an Anthropic client.  A behaviour of the       *)
(* product is one of the line loop, with stuttering.                       *)

LEMMA StreamRuns == Spec => Stream!Init /\ [][Stream!Next]_streamVars
<1>1. Init => Stream!Init
  BY DEF Init
<1>2. [Next]_vars => [Stream!Next]_streamVars
  BY DEF Next, vars
<1>3. QED
  BY <1>1, <1>2, PTL DEF Spec

(* What an OpenAI upstream sends, and how far it is.                       *)
FinishReasons == Stream!OpenAIReasons \cup {Stream!NoReason}
Chunk == [type: {"chunk"}, n: Nat, text: BOOLEAN, args: BOOLEAN,
          reason: FinishReasons,
          part: BOOLEAN, call: Calls \cup {NoCall}]
Chunks == {e \in Chunk : e.args => e.part} \cup [type: {"no_choices", "[DONE]"}, n: Nat]
Progress == [at: {"start", "talking", "finished", "over"}, sent: Nat, called: SUBSET Calls]

LEMMA UpstreamChunks ==
    ASSUME streamClient = "anthropic", upstream \in Progress, NEW e \in Stream!UpstreamEvents
    PROVE  /\ e[1] \in Chunks /\ e[2] \in Progress
           /\ upstream.at # "over"
           /\ e[2].at = "over" <=> e[1].type = "[DONE]"
           /\ upstream.at = "finished" => e[1].type # "chunk" /\ e[2].at \in {"finished", "over"}
           /\ e[1].type = "chunk" /\ e[1].reason # Stream!NoReason => e[2].at = "finished"
<1>0. Stream!N \in Nat /\ NoCall \notin Calls
  BY RequestPathAssumption DEF Progress, Stream!N
<1>1. \A at \in {"start", "talking", "finished", "over"} :
        /\ Stream!Moved(at) \in Progress /\ Stream!Moved(at).at = at
        /\ \A c \in Calls : /\ [Stream!Moved(at) EXCEPT !.called = @ \cup {c}] \in Progress
                            /\ [Stream!Moved(at) EXCEPT !.called = @ \cup {c}].at = at
  BY <1>0 DEF Progress, Stream!Moved
<1>2. \A text, args \in BOOLEAN, reason \in FinishReasons,
         call \in Calls \cup {NoCall} :
        (args => call # NoCall) =>
          /\ Stream!Chunk(text, call, args, reason) \in Chunks
          /\ Stream!Chunk(text, call, args, reason).type = "chunk"
          /\ Stream!Chunk(text, call, args, reason).reason = reason
  BY <1>0 DEF Chunks, Chunk, Stream!Chunk
<1>3. CASE upstream.at \in {"start", "talking"} /\ e = Stream!TextChunk
  <2>1. /\ Stream!Chunk(TRUE, NoCall, FALSE, Stream!NoReason) \in Chunks
        /\ Stream!Chunk(TRUE, NoCall, FALSE, Stream!NoReason).type = "chunk"
        /\ Stream!Chunk(TRUE, NoCall, FALSE, Stream!NoReason).reason = Stream!NoReason
    BY <1>2 DEF FinishReasons
  <2>2. QED
    BY <1>1, <1>3, <2>1 DEF Stream!TextChunk
<1>4. CASE upstream.at \in {"start", "talking"} /\ \E r \in Stream!OpenAIReasons : e = Stream!LastChunk(r)
  <2>1. PICK r \in Stream!OpenAIReasons : e = Stream!LastChunk(r)
    BY <1>4
  <2>2. /\ Stream!Chunk(FALSE, NoCall, FALSE, r) \in Chunks
        /\ Stream!Chunk(FALSE, NoCall, FALSE, r).type = "chunk"
    BY <1>2 DEF FinishReasons
  <2>3. QED
    BY <1>1, <1>4, <2>1, <2>2 DEF Stream!LastChunk
<1>5. CASE /\ upstream.at \in {"start", "talking"}
           /\ \E c \in Calls, carries \in {"no_args", "args", "both"} : e = Stream!CallChunk(c, carries)
  <2>1. PICK c \in Calls, carries \in {"no_args", "args", "both"} : e = Stream!CallChunk(c, carries)
    BY <1>5
  <2> DEFINE text == carries = "both"
             args == carries # "no_args"
             chunk == Stream!Chunk(text, c, args, Stream!NoReason)
  <2>2. text \in BOOLEAN /\ args \in BOOLEAN /\ c # NoCall
    BY <1>0
  <2> HIDE DEF text, args
  <2>3. chunk \in Chunks /\ chunk.type = "chunk" /\ chunk.reason = Stream!NoReason
    BY <1>2, <2>2 DEF FinishReasons
  <2> HIDE DEF chunk
  <2> DEFINE to == [Stream!Moved("talking") EXCEPT !.called = @ \cup {c}]
  <2>4. to \in Progress /\ to.at = "talking"
    BY <1>1
  <2> HIDE DEF to
  <2>5. e = <<chunk, to>>
    BY <2>1, Zenon DEF Stream!CallChunk, chunk, text, args, to
  <2>6. QED
    BY <1>5, <2>3, <2>4, <2>5
<1>6. CASE upstream.at # "over" /\ e = Stream!NoChoices
  BY <1>0, <1>1, <1>6 DEF Stream!NoChoices, Chunks, Progress
<1>7. CASE upstream.at # "over" /\ e = Stream!DoneLine
  BY <1>0, <1>1, <1>7 DEF Stream!DoneLine, Chunks
<1>8. QED
  BY <1>3, <1>4, <1>5, <1>6, <1>7 DEF Stream!UpstreamEvents, Stream!OpenAIEvents

(* What an Anthropic upstream sends, and how far it is.                    *)
BlockEvents ==
    [type: {"message_start", "text_block", "tool_block", "text_delta", "input_json_delta",
            "block_stop", "message_stop", "ping_or_error"}, n: Nat]
      \cup [type: {"message_delta"}, n: Nat, reason: Stream!AnthropicReasons]
BlockProgress ==
    [at: {"start", "between", "text", "tool", "finished", "over"}, sent: Nat, called: SUBSET Calls]

LEMMA UpstreamBlocks ==
    ASSUME streamClient # "anthropic", upstream \in BlockProgress, NEW e \in Stream!UpstreamEvents
    PROVE  /\ e[1] \in BlockEvents /\ e[2] \in BlockProgress
           /\ upstream.at # "over"
           /\ e[2].at \in {"finished", "over"} <=>
                e[1].type = "message_delta" \/ upstream.at = "finished"
           /\ upstream.at = "finished" => e[1].type \in {"message_stop", "ping_or_error"}
<1> DEFINE Event(type) == [type |-> type, n |-> Stream!N]
           Reason(r) == [type |-> "message_delta", n |-> Stream!N, reason |-> r]
           To(at) == [upstream EXCEPT !.at = at, !.sent = Stream!N]
<1>0. Stream!N \in Nat
  BY DEF BlockProgress, Stream!N
<1>1. \A at \in {"start", "between", "text", "tool", "finished", "over"} :
        To(at) \in BlockProgress /\ To(at).at = at
  BY <1>0 DEF BlockProgress
<1>2. \A type \in {"message_start", "text_block", "tool_block", "text_delta", "input_json_delta",
                   "block_stop", "message_stop", "ping_or_error"} :
        Event(type) \in BlockEvents /\ Event(type).type = type
  BY <1>0 DEF BlockEvents
<1>3. \A r \in Stream!AnthropicReasons : Reason(r) \in BlockEvents /\ Reason(r).type = "message_delta"
  BY <1>0 DEF BlockEvents
<1>4. \/ upstream.at = "start" /\ e = <<Event("message_start"), To("between")>>
      \/ /\ upstream.at = "between"
         /\ \/ e = <<Event("text_block"), To("text")>>
            \/ e = <<Event("tool_block"), To("tool")>>
            \/ \E r \in Stream!AnthropicReasons : e = <<Reason(r), To("finished")>>
      \/ upstream.at = "text" /\ (\/ e = <<Event("text_delta"), To("text")>>
                                  \/ e = <<Event("block_stop"), To("between")>>)
      \/ upstream.at = "tool" /\ (\/ e = <<Event("input_json_delta"), To("tool")>>
                                  \/ e = <<Event("block_stop"), To("between")>>)
      \/ upstream.at = "finished" /\ e = <<Event("message_stop"), To("over")>>
      \/ upstream.at # "over" /\ e = <<Event("ping_or_error"), To(upstream.at)>>
  <2> HIDE DEF Event, Reason, To
  <2>1. e \in Stream!AnthropicEvents
    BY DEF Stream!UpstreamEvents
  <2>2. Stream!AnthropicEvents =
          (CASE upstream.at = "start" -> {<<Event("message_start"), To("between")>>}
             [] upstream.at = "between" ->
                  {<<Event("text_block"), To("text")>>, <<Event("tool_block"), To("tool")>>}
                    \cup {<<Reason(r), To("finished")>> : r \in Stream!AnthropicReasons}
             [] upstream.at = "text" ->
                  {<<Event("text_delta"), To("text")>>, <<Event("block_stop"), To("between")>>}
             [] upstream.at = "tool" ->
                  {<<Event("input_json_delta"), To("tool")>>, <<Event("block_stop"), To("between")>>}
             [] upstream.at = "finished" -> {<<Event("message_stop"), To("over")>>}
             [] OTHER -> {})
          \cup (IF upstream.at # "over" THEN {<<Event("ping_or_error"), To(upstream.at)>>} ELSE {})
    BY Zenon DEF Stream!AnthropicEvents, Event, Reason, To
  <2>3. QED
    BY <2>1, <2>2
<1> HIDE DEF Event, Reason, To
<1>5. upstream.at \in {"start", "between", "text", "tool", "finished", "over"}
  BY DEF BlockProgress
<1>6. QED
  BY <1>1, <1>2, <1>3, <1>4, <1>5

(* What either upstream sends, and how far it is.                          *)
SentTo(c) == IF c = "anthropic" THEN Chunks ELSE BlockEvents
Far(c) == IF c = "anthropic" THEN Progress ELSE BlockProgress

(* What either client is written.                                          *)
Written ==
    [type: {"message_start", "message_stop", "json_error", "role", "no_content"}]
      \cup [type: {"block_start"}, index: {0, 1}, call: Calls \cup {NoCall}]
      \cup [type: {"text_delta", "json_delta"}, index: {0, 1}, n: Nat]
      \cup [type: {"text_delta", "json_delta"}, n: Nat]
      \cup [type: {"block_stop"}, index: {0}]
      \cup [type: {"message_delta", "finish"}, reason: {Stream!StopReason(r) : r \in FinishReasons}
              \cup Stream!OpenAIReasons]

MessageStart == [type |-> "message_start"]
BlockStart(i, c) == [type |-> "block_start", index |-> i, call |-> c]
TextDelta(n) == [type |-> "text_delta", index |-> 0, n |-> n]
JsonDelta(n) == [type |-> "json_delta", index |-> 1, n |-> n]
BlockStop == [type |-> "block_stop", index |-> 0]
MessageDelta(r) == [type |-> "message_delta", reason |-> r]
MessageStop == [type |-> "message_stop"]
JsonError == [type |-> "json_error"]

LEMMA WrittenEvents ==
    /\ MessageStart \in Written /\ MessageStart.type = "message_start"
    /\ \A i \in {0, 1}, c \in Calls \cup {NoCall} :
         BlockStart(i, c) \in Written /\ BlockStart(i, c).type = "block_start"
    /\ \A n \in Nat :
         /\ TextDelta(n) \in Written /\ TextDelta(n).type = "text_delta" /\ TextDelta(n).n = n
         /\ JsonDelta(n) \in Written /\ JsonDelta(n).type = "json_delta" /\ JsonDelta(n).n = n
    /\ BlockStop \in Written /\ BlockStop.type = "block_stop"
    /\ \A r \in FinishReasons : /\ MessageDelta(Stream!StopReason(r)) \in Written
                         /\ MessageDelta(Stream!StopReason(r)).type = "message_delta"
    /\ MessageStop \in Written /\ MessageStop.type = "message_stop"
    /\ JsonError \in Written /\ JsonError.type = "json_error"
<1>1. /\ MessageStart \in Written /\ MessageStart.type = "message_start"
      /\ MessageStop \in Written /\ MessageStop.type = "message_stop"
      /\ JsonError \in Written /\ JsonError.type = "json_error"
  BY DEF Written, MessageStart, MessageStop, JsonError
<1>2. \A i \in {0, 1}, c \in Calls \cup {NoCall} :
        BlockStart(i, c) \in Written /\ BlockStart(i, c).type = "block_start"
  BY DEF Written, BlockStart
<1>3. \A n \in Nat :
        /\ TextDelta(n) \in Written /\ TextDelta(n).type = "text_delta" /\ TextDelta(n).n = n
        /\ JsonDelta(n) \in Written /\ JsonDelta(n).type = "json_delta" /\ JsonDelta(n).n = n
  BY DEF Written, TextDelta, JsonDelta
<1>4. BlockStop \in Written /\ BlockStop.type = "block_stop"
  BY DEF Written, BlockStop
<1>5. \A r \in FinishReasons : /\ MessageDelta(Stream!StopReason(r)) \in Written
                        /\ MessageDelta(Stream!StopReason(r)).type = "message_delta"
  BY DEF Written, MessageDelta
<1>6. QED
  BY <1>1, <1>2, <1>3, <1>4, <1>5

(* The events of a chunk are written one by one.                           *)
Begun(w, e) == AppendIf(~st.started, w, MessageStart)
Opened(w, e) == AppendIf(e.text /\ ~st.textBlockOpen, Begun(w, e), BlockStart(0, NoCall))
Said(w, e) == AppendIf(e.text, Opened(w, e), TextDelta(e.n))
Named(w, e) == AppendIf(e.part, Said(w, e), BlockStart(1, e.call))
Argued(w, e) == AppendIf(e.args, Named(w, e), JsonDelta(e.n))

LEMMA ChunkWritten ==
    ASSUME NEW w \in Seq(Written), NEW e \in Chunk
    PROVE  /\ Begun(w, e) \in Seq(Written) /\ Opened(w, e) \in Seq(Written)
           /\ Said(w, e) \in Seq(Written) /\ Named(w, e) \in Seq(Written)
           /\ Argued(w, e) \in Seq(Written)
           /\ w \o Stream!ChunkToEvents(e) = Argued(w, e)
<1> DEFINE ms == MessageStart
           b0 == BlockStart(0, NoCall)
           td == TextDelta(e.n)
           b1 == BlockStart(1, e.call)
           jd == JsonDelta(e.n)
           start == IF st.started THEN <<>> ELSE <<ms>>
           open == IF st.textBlockOpen THEN <<>> ELSE <<b0>>
           text == IF e.text THEN Append(open, td) ELSE <<>>
           part1 == IF e.part THEN <<b1>> ELSE <<>>
           args == IF e.args THEN <<jd>> ELSE <<>>
<1>1. e.n \in Nat /\ e.call \in Calls \cup {NoCall}
  BY DEF Chunk
<1>2. ms \in Written /\ b0 \in Written /\ td \in Written /\ b1 \in Written /\ jd \in Written
  BY <1>1, WrittenEvents
<1>3. Stream!ChunkToEvents(e) = ((start \o text) \o part1) \o args
  BY Zenon DEF Stream!ChunkToEvents, MessageStart, BlockStart, TextDelta, JsonDelta
<1> HIDE DEF ms, b0, td, b1, jd
<1>4. /\ start \in Seq(Written) /\ open \in Seq(Written) /\ text \in Seq(Written)
      /\ part1 \in Seq(Written) /\ args \in Seq(Written)
  BY <1>2, AppendProperties
<1>5. /\ Begun(w, e) \in Seq(Written) /\ Opened(w, e) \in Seq(Written)
      /\ Said(w, e) \in Seq(Written) /\ Named(w, e) \in Seq(Written)
      /\ Argued(w, e) \in Seq(Written)
  BY <1>2, AppendIfType DEF Begun, Opened, Said, Named, Argued, ms, b0, td, b1, jd
<1>6. w \o start = Begun(w, e)
  BY <1>2, AppendIfConcat DEF Begun, ms
<1>7. Begun(w, e) \o text = Said(w, e)
  <2> DEFINE u == Begun(w, e)
  <2>1. CASE e.text
    <3>1. u \o open = Opened(w, e)
      <4>1. u \o open = AppendIf(~st.textBlockOpen, u, b0)
        BY ZenonT(30), <1>2, <1>5, AppendIfConcat
      <4>2. QED
        BY <2>1, <4>1 DEF Opened, AppendIf, b0
    <3>2. u \o text = (u \o open) \o <<td>>
      <4> DEFINE v == <<td>>
      <4>1. text = open \o v /\ v \in Seq(Written)
        BY <1>2, <1>4, <2>1, AppendIsConcat
      <4>2. u \in Seq(Written) /\ open \in Seq(Written) /\ v \in Seq(Written)
        BY <1>4, <1>5, <4>1
      <4> HIDE DEF text, open, u, v
      <4>3. Cat(u, Cat(open, v)) = Cat(Cat(u, open), v)
        BY <4>2, CatAssociative
      <4>4. QED
        BY <4>1, <4>3, Zenon DEF Cat, v
    <3>3. QED
      BY <1>2, <1>5, <2>1, <3>1, <3>2, AppendIsConcat DEF Said, AppendIf, td
  <2>2. CASE ~e.text
    BY <1>5, <2>2, ConcatEmptySeq DEF Opened, Said, AppendIf
  <2>3. QED
    BY <2>1, <2>2
<1>8. Said(w, e) \o part1 = Named(w, e)
  BY <1>2, <1>5, AppendIsConcat, ConcatEmptySeq DEF AppendIf, Named, b1
<1>9. Named(w, e) \o args = Argued(w, e)
  BY <1>2, <1>5, AppendIsConcat, ConcatEmptySeq DEF AppendIf, Argued, jd
<1> HIDE DEF start, open, text, part1, args
<1>10. w \o (((start \o text) \o part1) \o args) = (((w \o start) \o text) \o part1) \o args
  <2>1. Cat(w, Cat(Cat(Cat(start, text), part1), args))
          = Cat(Cat(Cat(Cat(w, start), text), part1), args)
    BY <1>4, ConcatOneByOne
  <2>2. QED
    BY <2>1, Zenon DEF Cat
<1>11. QED
  BY <1>3, <1>5, <1>6, <1>7, <1>8, <1>9, <1>10

(* So are the last events, and the chunk of an event if it has one.        *)
Closed(w) == AppendIf(st.textBlockOpen, w, BlockStop)
Finished(w) == Append(Closed(w), MessageDelta(Stream!StopReason(st.finishReason)))
Stopped(w) == Append(Finished(w), MessageStop)

LEMMA FinalWritten ==
    ASSUME NEW w \in Seq(Written), st.finishReason \in FinishReasons
    PROVE  /\ Closed(w) \in Seq(Written) /\ Finished(w) \in Seq(Written)
           /\ Stopped(w) \in Seq(Written)
           /\ w \o Stream!FinalEvents = Stopped(w)
<1> DEFINE bs == BlockStop
           md == MessageDelta(Stream!StopReason(st.finishReason))
           ms == MessageStop
           close == IF st.textBlockOpen THEN <<bs>> ELSE <<>>
           end == <<md, ms>>
<1>1. bs \in Written /\ md \in Written /\ ms \in Written
  BY WrittenEvents
<1>2. Stream!FinalEvents = close \o end
  BY Zenon DEF Stream!FinalEvents, BlockStop, MessageDelta, MessageStop
<1> HIDE DEF bs, md, ms
<1>3. close \in Seq(Written) /\ end \in Seq(Written)
  BY <1>1
<1>4. Closed(w) \in Seq(Written)
  BY <1>1, AppendIfType DEF Closed, bs
<1>5. w \o close = Closed(w)
  BY <1>1, AppendIsConcat, ConcatEmptySeq DEF Closed, AppendIf, bs
<1>6. /\ Finished(w) \in Seq(Written) /\ Stopped(w) \in Seq(Written)
      /\ Closed(w) \o end = Stopped(w)
  <2> DEFINE c == Closed(w)
             f == Append(c, md)
  <2> HIDE DEF c
  <2>1. c \in Seq(Written)
    BY <1>4 DEF c
  <2>2. f \in Seq(Written) /\ Append(f, ms) \in Seq(Written)
    BY <1>1, <2>1, AppendProperties
  <2>3. c \o end = Append(f, ms)
    BY <1>1, <2>1, TwoAppended
  <2>4. QED
    BY <2>2, <2>3, Zenon DEF Finished, Stopped, c, md, ms
<1> HIDE DEF close, end
<1>7. Cat(w, Cat(close, end)) = Cat(Cat(w, close), end)
  BY <1>3, CatAssociative
<1>8. w \o (close \o end) = (w \o close) \o end
  BY <1>7, Zenon DEF Cat
<1>9. QED
  BY <1>2, <1>4, <1>5, <1>6, <1>8

Converts(e) == e.type \notin {"tool_block", "block_stop", "ping_or_error"}
ChunkOf(e) ==
    CASE e.type = "message_start" -> [type |-> "role"]
      [] e.type \in {"text_block", "message_stop"} -> [type |-> "no_content"]
      [] e.type = "text_delta" -> [type |-> "text_delta", n |-> e.n]
      [] e.type = "input_json_delta" -> [type |-> "json_delta", n |-> e.n]
      [] e.type = "message_delta" -> [type |-> "finish", reason |-> Stream!FinishReason(e.reason)]

LEMMA EventWritten ==
    ASSUME NEW w \in Seq(Written), NEW e \in BlockEvents
    PROVE  /\ w \o Stream!EventToChunks(e) = AppendIf(Converts(e), w, ChunkOf(e))
           /\ Converts(e) =>
                /\ ChunkOf(e) \in Written
                /\ ChunkOf(e).type = "text_delta" <=> e.type = "text_delta"
                /\ ChunkOf(e).type = "json_delta" <=> e.type = "input_json_delta"
                /\ e.type \in {"text_delta", "input_json_delta"} => ChunkOf(e).n = e.n
                /\ ChunkOf(e).type = "finish" <=> e.type = "message_delta"
                /\ e.type = "message_delta" => ChunkOf(e).reason = Stream!FinishReason(e.reason)
                /\ e.type = "message_stop" => ChunkOf(e).type = "no_content"
                /\ ChunkOf(e).type \notin {"message_delta", "message_stop"}
<1>1. CASE e.type = "message_start"
  BY <1>1, AppendIsConcat DEF Converts, ChunkOf, AppendIf, Stream!EventToChunks, Written
<1>2. CASE e.type \in {"text_block", "message_stop"}
  BY <1>2, AppendIsConcat DEF Converts, ChunkOf, AppendIf, Stream!EventToChunks, Written
<1>3. CASE e.type \in {"text_delta", "input_json_delta"}
  BY <1>3, AppendIsConcat DEF Converts, ChunkOf, AppendIf, Stream!EventToChunks, Written, BlockEvents
<1>4. CASE e.type = "message_delta"
  BY <1>4, AppendIsConcat DEF Converts, ChunkOf, AppendIf, Stream!EventToChunks, Written, BlockEvents,
        Stream!FinishReason, Stream!AnthropicReasons, Stream!OpenAIReasons
<1>5. CASE e.type \in {"tool_block", "block_stop", "ping_or_error"}
  BY <1>5, ConcatEmptySeq DEF Converts, ChunkOf, AppendIf, Stream!EventToChunks
<1>6. QED
  BY <1>1, <1>2, <1>3, <1>4, <1>5 DEF BlockEvents

----------------------------------------------------------------------------
(* The steps of the line loop, with what they write spelled out.           *)

Streaming ==
    /\ streamClient \in {"anthropic", "openai"}
    /\ upstream \in Far(streamClient)
    /\ buf = <<>> \/ \E e \in SentTo(streamClient) : buf = <<e>>
    /\ st \in [started: BOOLEAN, textBlockOpen: BOOLEAN,
               finishReason: FinishReasons]
    /\ wire \in Seq(Written)
    /\ read \in Seq(SentTo(streamClient))

Arrives(e) ==
    /\ e \in Stream!UpstreamEvents
    /\ phase = "open" /\ phase' \in {"open", "cut"}
    /\ buf = <<>> /\ buf' = <<e[1]>> /\ upstream' = e[2]
    /\ UNCHANGED <<streamClient, st, wire, read>>

Parses(e) ==
    /\ e \in SentTo(streamClient)
    /\ phase = "open" /\ phase' \in {"open", "ended"}
    /\ buf = <<e>> /\ buf' = <<>>
    /\ read' = Append(read, e)
    /\ UNCHANGED <<streamClient, upstream>>

ParsesChunk(e) ==
    /\ Parses(e) /\ streamClient = "anthropic" /\ e \in Chunk /\ (e.args => e.part)
    /\ wire' = Argued(wire, e) /\ st' = Stream!StateAfter(e)

ParsesDone(e) ==
    /\ Parses(e) /\ streamClient = "anthropic" /\ e.type = "[DONE]"
    /\ wire' = Stopped(wire) /\ st' = st

ParsesNothing(e) ==
    /\ Parses(e) /\ streamClient = "anthropic" /\ e.type = "no_choices"
    /\ UNCHANGED <<wire, st>>

ParsesEvent(e) ==
    /\ Parses(e) /\ streamClient = "openai"
    /\ wire' = AppendIf(Converts(e), wire, ChunkOf(e)) /\ st' = st

Ends ==
    /\ phase = "open" /\ phase' = "ended" /\ buf = <<>>
    /\ UNCHANGED <<streamClient, upstream, buf, st, wire, read>>

Breaks ==
    /\ phase = "open" /\ phase' = "broken"
    /\ wire' = Append(wire, JsonError)
    /\ UNCHANGED <<streamClient, upstream, buf, st, read>>

StreamStep ==
    \/ \E e : Arrives(e) \/ ParsesChunk(e) \/ ParsesDone(e) \/ ParsesNothing(e) \/ ParsesEvent(e)
    \/ Ends \/ Breaks

LEMMA Dispatched ==
    ASSUME Streaming, NEW e \in SentTo(streamClient), Stream!Dispatch(e),
           phase = "open", phase' \in {"open", "ended"}, buf = <<e>>,
           UNCHANGED <<streamClient, upstream>>
    PROVE  ParsesChunk(e) \/ ParsesDone(e) \/ ParsesNothing(e) \/ ParsesEvent(e)
<1>1. Parses(e)
  BY Zenon DEF Parses, Stream!Dispatch
<1>2. CASE streamClient = "anthropic" /\ e.type = "chunk"
  <2>1. e \in Chunk /\ (e.args => e.part)
    BY <1>2 DEF SentTo, Chunks
  <2>2. wire' = wire \o Stream!ChunkToEvents(e) /\ st' = Stream!StateAfter(e)
    BY <1>2, Zenon DEF Stream!Dispatch
  <2>3. wire' = Argued(wire, e)
    BY <2>1, <2>2, ChunkWritten DEF Streaming
  <2>4. QED
    BY <1>1, <1>2, <2>1, <2>2, <2>3 DEF ParsesChunk
<1>3. CASE streamClient = "anthropic" /\ e.type = "[DONE]"
  <2>1. wire' = wire \o Stream!FinalEvents /\ st' = st
    BY <1>3 DEF Stream!Dispatch
  <2>2. st.finishReason \in FinishReasons
    BY DEF Streaming
  <2>3. wire' = Stopped(wire)
    BY <2>1, <2>2, FinalWritten DEF Streaming
  <2>4. QED
    BY <1>1, <1>3, <2>1, <2>3 DEF ParsesDone
<1>4. CASE streamClient = "anthropic" /\ e.type \notin {"chunk", "[DONE]"}
  <2>1. e.type = "no_choices"
    BY <1>4 DEF SentTo, Chunks, Chunk
  <2>2. UNCHANGED <<wire, st>>
    BY <1>4 DEF Stream!Dispatch
  <2>3. QED
    BY <1>1, <1>4, <2>1, <2>2 DEF ParsesNothing
<1>5. CASE streamClient = "openai"
  <2>1. wire' = wire \o Stream!EventToChunks(e) /\ st' = st
    BY <1>5, Zenon DEF Stream!Dispatch
  <2>2. e \in BlockEvents
    BY <1>5 DEF SentTo
  <2>3. wire' = AppendIf(Converts(e), wire, ChunkOf(e))
    BY <2>1, <2>2, EventWritten DEF Streaming
  <2>4. QED
    BY <1>1, <1>5, <2>1, <2>3 DEF ParsesEvent
<1>6. QED
  BY <1>2, <1>3, <1>4, <1>5 DEF Streaming

LEMMA StreamSteps ==
    ASSUME Streaming, [Stream!Next]_streamVars
    PROVE  StreamStep \/ UNCHANGED streamVars
<1>1. ASSUME NEW e \in Stream!UpstreamEvents, Stream!Data(e) \/ Stream!EndInLine(e)
      PROVE  Arrives(e)
  BY <1>1, Zenon DEF Stream!Data, Stream!EndInLine, Arrives
<1>2. CASE buf # <<>> /\ (Stream!Blank \/ Stream!End)
  <2>1. PICK e \in SentTo(streamClient) : buf = <<e>>
    BY <1>2 DEF Streaming
  <2>2. buf[1] = e
    BY <2>1
  <2>3. /\ Stream!Dispatch(e) /\ phase = "open" /\ phase' \in {"open", "ended"}
        /\ UNCHANGED <<streamClient, upstream>>
    BY <1>2, <2>2 DEF Stream!Blank, Stream!End
  <2>4. QED
    BY <2>1, <2>3, Dispatched DEF StreamStep
<1>3. CASE buf = <<>> /\ Stream!End
  BY <1>3 DEF Stream!End, Ends, StreamStep
<1>4. CASE Stream!Break
  BY <1>4, Zenon DEF Stream!Break, Breaks, JsonError, StreamStep
<1>5. QED
  BY <1>1, <1>2, <1>3, <1>4 DEF Stream!Next, Stream!Blank, StreamStep

LEMMA StreamingStep ==
    ASSUME Streaming, StreamStep \/ UNCHANGED streamVars
    PROVE  Streaming'
<1>1. ASSUME NEW e, Arrives(e)
      PROVE  Streaming'
  <2>1. e[1] \in SentTo(streamClient) /\ e[2] \in Far(streamClient)
    <3>1. CASE streamClient = "anthropic"
      BY <1>1, <3>1, UpstreamChunks DEF Streaming, Arrives, SentTo, Far
    <3>2. CASE streamClient # "anthropic"
      BY <1>1, <3>2, UpstreamBlocks DEF Streaming, Arrives, SentTo, Far
    <3>3. QED
      BY <3>1, <3>2
  <2>2. QED
    BY <1>1, <2>1 DEF Streaming, Arrives
<1>2. ASSUME NEW e, Parses(e), wire' \in Seq(Written),
             st' \in [started: BOOLEAN, textBlockOpen: BOOLEAN,
                      finishReason: FinishReasons]
      PROVE  Streaming'
  <2>1. read' \in Seq(SentTo(streamClient))
    BY <1>2, AppendProperties DEF Streaming, Parses
  <2>2. QED
    BY <1>2, <2>1 DEF Streaming, Parses
<1>3. ASSUME NEW e, ParsesChunk(e)
      PROVE  Streaming'
  <2>1. wire' \in Seq(Written)
    BY <1>3, ChunkWritten DEF ParsesChunk, Streaming
  <2>2. st' \in [started: BOOLEAN, textBlockOpen: BOOLEAN,
                 finishReason: FinishReasons]
    BY <1>3 DEF ParsesChunk, Stream!StateAfter, Chunk, Streaming
  <2>3. QED
    BY <1>2, <1>3, <2>1, <2>2 DEF ParsesChunk
<1>4. ASSUME NEW e, ParsesDone(e)
      PROVE  Streaming'
  <2>1. st.finishReason \in FinishReasons
    BY DEF Streaming
  <2>2. wire' \in Seq(Written)
    BY <1>4, <2>1, FinalWritten DEF ParsesDone, Streaming
  <2>3. QED
    BY <1>2, <1>4, <2>2 DEF ParsesDone, Streaming
<1>5. ASSUME NEW e, ParsesNothing(e)
      PROVE  Streaming'
  BY <1>2, <1>5 DEF ParsesNothing, Streaming
<1>6. ASSUME NEW e, ParsesEvent(e)
      PROVE  Streaming'
  <2>1. Converts(e) => ChunkOf(e) \in Written
    BY <1>6, EventWritten DEF ParsesEvent, Parses, Streaming, SentTo
  <2>2. wire' \in Seq(Written)
    BY <1>6, <2>1, AppendProperties DEF ParsesEvent, Streaming, AppendIf
  <2>3. QED
    BY <1>2, <1>6, <2>2 DEF ParsesEvent, Streaming
<1>7. CASE Ends
  BY <1>7 DEF Ends, Streaming
<1>8. CASE Breaks
  <2>1. wire' \in Seq(Written)
    BY <1>8, WrittenEvents, AppendProperties DEF Breaks, Streaming
  <2>2. QED
    BY <1>8, <2>1 DEF Breaks, Streaming
<1>9. CASE UNCHANGED streamVars
  BY <1>9 DEF streamVars, Streaming
<1>10. QED
  BY <1>1, <1>3, <1>4, <1>5, <1>6, <1>7, <1>8, <1>9 DEF StreamStep

LEMMA StreamingFirst == Stream!Init => Streaming
<1>1. SUFFICES ASSUME Stream!Init PROVE Streaming
  OBVIOUS
<1>2. upstream \in Far(streamClient)
  <2>1. upstream = [at |-> "start", sent |-> 0, called |-> {}]
    BY <1>1 DEF Stream!Init
  <2>2. upstream \in Progress /\ upstream \in BlockProgress
    BY <2>1 DEF Progress, BlockProgress
  <2>3. QED
    BY <2>2 DEF Far
<1>3. st \in [started: BOOLEAN, textBlockOpen: BOOLEAN, finishReason: FinishReasons]
  BY <1>1 DEF Stream!Init, FinishReasons
<1>4. QED
  BY <1>1, <1>2, <1>3 DEF Stream!Init, Streaming

----------------------------------------------------------------------------
(* Text and arguments: the pieces of a sequence of events are what a       *)
(* function on events makes of it, one event after the other.              *)
Numbers == Nat

TextOf == [e \in Written |-> IF e.type = "text_delta" THEN <<e.n>> ELSE <<>>]
ArgsOf == [e \in Written |-> IF e.type = "json_delta" THEN <<e.n>> ELSE <<>>]

TextIn(c) ==
    [e \in SentTo(c) |->
       IF IF c = "anthropic" THEN e.type = "chunk" /\ e.text ELSE e.type = "text_delta"
         THEN <<e.n>> ELSE <<>>]
ArgsIn(c) ==
    [e \in SentTo(c) |->
       IF IF c = "anthropic" THEN e.type = "chunk" /\ e.args ELSE e.type = "input_json_delta"
         THEN <<e.n>> ELSE <<>>]

LEMMA WrittenNumbers ==
    ASSUME NEW e \in Written, e.type \in {"text_delta", "json_delta"}
    PROVE  e.n \in Nat
BY DEF Written

LEMMA SentNumbers ==
    ASSUME NEW c, NEW e \in SentTo(c)
    PROVE  e.n \in Nat
BY DEF SentTo, Chunks, Chunk, BlockEvents

LEMMA PieceFunctions ==
    /\ TextOf \in [Written -> Seq(Numbers)] /\ ArgsOf \in [Written -> Seq(Numbers)]
    /\ \A c : TextIn(c) \in [SentTo(c) -> Seq(Numbers)] /\ ArgsIn(c) \in [SentTo(c) -> Seq(Numbers)]
<1>1. \A n \in Numbers : <<n>> \in Seq(Numbers)
  OBVIOUS
<1>2. <<>> \in Seq(Numbers)
  OBVIOUS
<1>3. \A e \in Written : e.type \in {"text_delta", "json_delta"} => <<e.n>> \in Seq(Numbers)
  BY <1>1, WrittenNumbers DEF Numbers
<1>4. \A c : \A e \in SentTo(c) : <<e.n>> \in Seq(Numbers)
  BY <1>1, SentNumbers DEF Numbers
<1>5. TextOf \in [Written -> Seq(Numbers)] /\ ArgsOf \in [Written -> Seq(Numbers)]
  BY <1>2, <1>3 DEF TextOf, ArgsOf
<1>6. \A c : TextIn(c) \in [SentTo(c) -> Seq(Numbers)] /\ ArgsIn(c) \in [SentTo(c) -> Seq(Numbers)]
  BY <1>2, <1>4 DEF TextIn, ArgsIn
<1>7. QED
  BY <1>5, <1>6

LEMMA WirePieces ==
    ASSUME NEW w \in Seq(Written)
    PROVE  /\ Stream!Pieces(w, LAMBDA e : e.type = "text_delta") = Mapped(w, TextOf)
           /\ Stream!Pieces(w, LAMBDA e : e.type = "json_delta") = Mapped(w, ArgsOf)
<1>1. \A i \in DOMAIN w : w[i] \in Written
  BY ElementOfSeq, LenProperties
<1>2. [i \in DOMAIN w |-> IF w[i].type = "text_delta" THEN <<w[i].n>> ELSE <<>>]
        = [i \in DOMAIN w |-> TextOf[w[i]]]
  BY <1>1 DEF TextOf
<1>3. [i \in DOMAIN w |-> IF w[i].type = "json_delta" THEN <<w[i].n>> ELSE <<>>]
        = [i \in DOMAIN w |-> ArgsOf[w[i]]]
  BY <1>1 DEF ArgsOf
<1>4. \A f : Stream!FlattenSeq(f) = FlattenSeq(f)
  BY Zenon DEF Stream!FlattenSeq, FlattenSeq
<1>5. /\ Stream!Pieces(w, LAMBDA e : e.type = "text_delta")
           = Stream!FlattenSeq([i \in DOMAIN w |-> IF w[i].type = "text_delta" THEN <<w[i].n>> ELSE <<>>])
      /\ Stream!Pieces(w, LAMBDA e : e.type = "json_delta")
           = Stream!FlattenSeq([i \in DOMAIN w |-> IF w[i].type = "json_delta" THEN <<w[i].n>> ELSE <<>>])
  BY Zenon DEF Stream!Pieces
<1>6. QED
  BY <1>2, <1>3, <1>4, <1>5, Zenon DEF Mapped

LEMMA ReadPieces ==
    ASSUME NEW r \in Seq(SentTo(streamClient))
    PROVE  /\ Stream!Pieces(r, Stream!HasText) = Mapped(r, TextIn(streamClient))
           /\ Stream!Pieces(r, Stream!HasArguments) = Mapped(r, ArgsIn(streamClient))
<1>1. \A i \in DOMAIN r : r[i] \in SentTo(streamClient)
  BY ElementOfSeq, LenProperties
<1>2. [i \in DOMAIN r |-> IF Stream!HasText(r[i]) THEN <<r[i].n>> ELSE <<>>]
        = [i \in DOMAIN r |-> TextIn(streamClient)[r[i]]]
  BY <1>1 DEF TextIn, Stream!HasText
<1>3. [i \in DOMAIN r |-> IF Stream!HasArguments(r[i]) THEN <<r[i].n>> ELSE <<>>]
        = [i \in DOMAIN r |-> ArgsIn(streamClient)[r[i]]]
  BY <1>1 DEF ArgsIn, Stream!HasArguments
<1>4. \A f : Stream!FlattenSeq(f) = FlattenSeq(f)
  BY Zenon DEF Stream!FlattenSeq, FlattenSeq
<1>5. /\ Stream!Pieces(r, Stream!HasText)
           = Stream!FlattenSeq([i \in DOMAIN r |-> IF Stream!HasText(r[i]) THEN <<r[i].n>> ELSE <<>>])
      /\ Stream!Pieces(r, Stream!HasArguments)
           = Stream!FlattenSeq([i \in DOMAIN r |-> IF Stream!HasArguments(r[i]) THEN <<r[i].n>> ELSE <<>>])
  BY Zenon DEF Stream!Pieces
<1>6. QED
  BY <1>2, <1>3, <1>4, <1>5, Zenon DEF Mapped

Kept ==
    /\ Mapped(wire, TextOf) = Mapped(read, TextIn(streamClient))
    /\ Mapped(wire, ArgsOf) = Mapped(read, ArgsIn(streamClient))

LEMMA KeptTold == Streaming /\ Kept => PiecesKept
BY WirePieces, ReadPieces, Zenon DEF Streaming, Kept, PiecesKept, Stream!PiecesKept

LEMMA KeptFirst == Stream!Init => Kept
BY MappedEmpty DEF Stream!Init, Kept

(* What says nothing adds nothing.                                         *)
LEMMA MappedSilent ==
    ASSUME NEW S, NEW g \in [S -> Seq(Numbers)], NEW s \in Seq(S), NEW a \in S,
           g[a] = <<>>
    PROVE  Mapped(Append(s, a), g) = Mapped(s, g)
<1>1. Mapped(s, g) \in Seq(Numbers)
  BY MappedType
<1>2. Mapped(s, g) \o <<>> = Mapped(s, g)
  BY <1>1, ConcatEmptySeq
<1>3. Mapped(Append(s, a), g) = Mapped(s, g) \o g[a]
  BY MappedAppended
<1>4. QED
  BY <1>2, <1>3

LEMMA ReadMapped ==
    ASSUME NEW c, NEW r \in Seq(SentTo(c)), NEW e \in SentTo(c)
    PROVE  /\ Mapped(Append(r, e), TextIn(c)) = Mapped(r, TextIn(c)) \o TextIn(c)[e]
           /\ Mapped(Append(r, e), ArgsIn(c)) = Mapped(r, ArgsIn(c)) \o ArgsIn(c)[e]
<1>1. TextIn(c) \in [SentTo(c) -> Seq(Numbers)] /\ ArgsIn(c) \in [SentTo(c) -> Seq(Numbers)]
  BY PieceFunctions
<1>2. Mapped(Append(r, e), TextIn(c)) = Mapped(r, TextIn(c)) \o TextIn(c)[e]
  BY <1>1, MappedAppended
<1>3. Mapped(Append(r, e), ArgsIn(c)) = Mapped(r, ArgsIn(c)) \o ArgsIn(c)[e]
  BY <1>1, MappedAppended
<1>4. QED
  BY <1>2, <1>3

LEMMA PiecesOfOne ==
    ASSUME NEW a \in Written
    PROVE  /\ a.type # "text_delta" => TextOf[a] = <<>>
           /\ a.type # "json_delta" => ArgsOf[a] = <<>>
           /\ a.type = "text_delta" => TextOf[a] = <<a.n>>
           /\ a.type = "json_delta" => ArgsOf[a] = <<a.n>>
BY DEF TextOf, ArgsOf

LEMMA ChunkPieces ==
    ASSUME NEW w \in Seq(Written), NEW e \in Chunk
    PROVE  /\ Mapped(Argued(w, e), TextOf)
                = IF e.text THEN Mapped(w, TextOf) \o <<e.n>> ELSE Mapped(w, TextOf)
           /\ Mapped(Argued(w, e), ArgsOf)
                = IF e.args THEN Mapped(w, ArgsOf) \o <<e.n>> ELSE Mapped(w, ArgsOf)
<1> DEFINE b0 == BlockStart(0, NoCall)
           td == TextDelta(e.n)
           b1 == BlockStart(1, e.call)
           jd == JsonDelta(e.n)
<1>1. e.n \in Nat /\ e.call \in Calls \cup {NoCall}
  BY DEF Chunk
<1>2. /\ MessageStart \in Written /\ b0 \in Written /\ td \in Written /\ b1 \in Written /\ jd \in Written
      /\ MessageStart.type = "message_start"
      /\ b0.type = "block_start" /\ b1.type = "block_start"
      /\ td.type = "text_delta" /\ td.n = e.n /\ jd.type = "json_delta" /\ jd.n = e.n
  BY <1>1, WrittenEvents
<1> HIDE DEF b0, td, b1, jd
<1>3. /\ TextOf[MessageStart] = <<>> /\ ArgsOf[MessageStart] = <<>>
      /\ TextOf[b0] = <<>> /\ ArgsOf[b0] = <<>> /\ TextOf[b1] = <<>> /\ ArgsOf[b1] = <<>>
      /\ TextOf[td] = <<e.n>> /\ ArgsOf[td] = <<>>
      /\ TextOf[jd] = <<>> /\ ArgsOf[jd] = <<e.n>>
  BY <1>2, PiecesOfOne
<1>4. /\ TextOf \in [Written -> Seq(Numbers)] /\ ArgsOf \in [Written -> Seq(Numbers)]
  BY PieceFunctions
<1>5. /\ Begun(w, e) \in Seq(Written) /\ Opened(w, e) \in Seq(Written)
      /\ Said(w, e) \in Seq(Written) /\ Named(w, e) \in Seq(Written)
  BY ChunkWritten
<1>6. ASSUME NEW g \in [Written -> Seq(Numbers)], g[MessageStart] = <<>>, g[b0] = <<>>
      PROVE  Mapped(Opened(w, e), g) = Mapped(w, g)
  <2>1. Mapped(Begun(w, e), g) = Mapped(w, g)
    <3>1. Mapped(Append(w, MessageStart), g) = Mapped(w, g)
      BY <1>2, <1>6, MappedSilent
    <3>2. QED
      BY <3>1 DEF AppendIf, Begun
  <2>2. Mapped(Opened(w, e), g) = Mapped(Begun(w, e), g)
    <3>1. Mapped(Append(Begun(w, e), b0), g) = Mapped(Begun(w, e), g)
      BY <1>2, <1>5, <1>6, MappedSilent
    <3>2. QED
      BY <3>1 DEF AppendIf, Opened, b0
  <2>3. QED
    BY <2>1, <2>2
<1>7. Mapped(Argued(w, e), TextOf)
        = IF e.text THEN Mapped(w, TextOf) \o <<e.n>> ELSE Mapped(w, TextOf)
  <2>1. Mapped(Opened(w, e), TextOf) = Mapped(w, TextOf)
    BY <1>3, <1>4, <1>6
  <2>2. Mapped(Append(Opened(w, e), td), TextOf) = Mapped(Opened(w, e), TextOf) \o TextOf[td]
    BY <1>2, <1>4, <1>5, MappedAppended
  <2>3. Mapped(Said(w, e), TextOf)
          = IF e.text THEN Mapped(w, TextOf) \o <<e.n>> ELSE Mapped(w, TextOf)
    BY <1>3, <2>1, <2>2 DEF Said, AppendIf, td
  <2>4. Mapped(Named(w, e), TextOf) = Mapped(Said(w, e), TextOf)
    <3>1. Mapped(Append(Said(w, e), b1), TextOf) = Mapped(Said(w, e), TextOf)
      BY <1>2, <1>3, <1>4, <1>5, MappedSilent
    <3>2. QED
      BY <3>1 DEF AppendIf, Named, b1
  <2>5. Mapped(Argued(w, e), TextOf) = Mapped(Named(w, e), TextOf)
    <3>1. Mapped(Append(Named(w, e), jd), TextOf) = Mapped(Named(w, e), TextOf)
      BY <1>2, <1>3, <1>4, <1>5, MappedSilent
    <3>2. QED
      BY <3>1 DEF AppendIf, Argued, jd
  <2>6. QED
    BY <2>3, <2>4, <2>5
<1>8. Mapped(Argued(w, e), ArgsOf)
        = IF e.args THEN Mapped(w, ArgsOf) \o <<e.n>> ELSE Mapped(w, ArgsOf)
  <2>1. Mapped(Opened(w, e), ArgsOf) = Mapped(w, ArgsOf)
    BY <1>3, <1>4, <1>6
  <2>2. Mapped(Said(w, e), ArgsOf) = Mapped(Opened(w, e), ArgsOf)
    <3>1. Mapped(Append(Opened(w, e), td), ArgsOf) = Mapped(Opened(w, e), ArgsOf)
      BY <1>2, <1>3, <1>4, <1>5, MappedSilent
    <3>2. QED
      BY <3>1 DEF AppendIf, Said, td
  <2>3. Mapped(Named(w, e), ArgsOf) = Mapped(Said(w, e), ArgsOf)
    <3>1. Mapped(Append(Said(w, e), b1), ArgsOf) = Mapped(Said(w, e), ArgsOf)
      BY <1>2, <1>3, <1>4, <1>5, MappedSilent
    <3>2. QED
      BY <3>1 DEF AppendIf, Named, b1
  <2>4. Mapped(Append(Named(w, e), jd), ArgsOf) = Mapped(Named(w, e), ArgsOf) \o ArgsOf[jd]
    BY <1>2, <1>4, <1>5, MappedAppended
  <2>5. QED
    BY <1>3, <2>1, <2>2, <2>3, <2>4 DEF Argued, AppendIf, jd
<1>9. QED
  BY <1>7, <1>8

LEMMA KeptStep ==
    ASSUME Streaming, Streaming', Kept, StreamStep \/ UNCHANGED streamVars
    PROVE  Kept'
<1> DEFINE Texts(w) == Mapped(w, TextOf)
           Args(w) == Mapped(w, ArgsOf)
           RTexts(r) == Mapped(r, TextIn(streamClient))
           RArgs(r) == Mapped(r, ArgsIn(streamClient))
<1>1. /\ TextOf \in [Written -> Seq(Numbers)] /\ ArgsOf \in [Written -> Seq(Numbers)]
      /\ TextIn(streamClient) \in [SentTo(streamClient) -> Seq(Numbers)]
      /\ ArgsIn(streamClient) \in [SentTo(streamClient) -> Seq(Numbers)]
  BY PieceFunctions
<1>2. \A r \in Seq(SentTo(streamClient)) : RTexts(r) \in Seq(Numbers) /\ RArgs(r) \in Seq(Numbers)
  BY <1>1, MappedType
<1>3. ASSUME NEW e, Parses(e)
      PROVE  /\ RTexts(read') = RTexts(read) \o TextIn(streamClient)[e]
             /\ RArgs(read') = RArgs(read) \o ArgsIn(streamClient)[e]
  <2>1. /\ read \in Seq(SentTo(streamClient)) /\ e \in SentTo(streamClient)
        /\ read' = Append(read, e)
    BY <1>3 DEF Streaming, Parses
  <2>2. /\ Mapped(Append(read, e), TextIn(streamClient)) = RTexts(read) \o TextIn(streamClient)[e]
        /\ Mapped(Append(read, e), ArgsIn(streamClient)) = RArgs(read) \o ArgsIn(streamClient)[e]
    BY <2>1, ReadMapped
  <2>3. QED
    BY <2>1, <2>2, Zenon
<1>4. ASSUME NEW e, Parses(e)
      PROVE  /\ TextIn(streamClient)[e] = <<>> => RTexts(read') = RTexts(read)
             /\ ArgsIn(streamClient)[e] = <<>> => RArgs(read') = RArgs(read)
             /\ Texts(wire) = RTexts(read) /\ Args(wire) = RArgs(read)
             /\ Texts(wire') = RTexts(read') /\ Args(wire') = RArgs(read') => Kept'
  <2>1. RTexts(read) \in Seq(Numbers) /\ RArgs(read) \in Seq(Numbers)
    BY <1>2 DEF Streaming
  <2>2. RTexts(read) \o <<>> = RTexts(read) /\ RArgs(read) \o <<>> = RArgs(read)
    BY <2>1, ConcatEmptySeq
  <2>3. streamClient' = streamClient
    BY <1>4 DEF Parses
  <2>4. QED
    BY <1>3, <1>4, <2>2, <2>3 DEF Kept
<1>5. ASSUME NEW e, ParsesChunk(e)
      PROVE  Kept'
  <2>1. e \in SentTo(streamClient) /\ e \in Chunk /\ streamClient = "anthropic" /\ e.type = "chunk"
    BY <1>5 DEF ParsesChunk, Parses, Chunk
  <2>2. /\ TextIn(streamClient)[e] = IF e.text THEN <<e.n>> ELSE <<>>
        /\ ArgsIn(streamClient)[e] = IF e.args THEN <<e.n>> ELSE <<>>
    BY <2>1 DEF TextIn, ArgsIn
  <2>3. /\ Texts(wire') = IF e.text THEN Texts(wire) \o <<e.n>> ELSE Texts(wire)
        /\ Args(wire') = IF e.args THEN Args(wire) \o <<e.n>> ELSE Args(wire)
    BY <1>5, <2>1, ChunkPieces DEF ParsesChunk, Streaming
  <2>4. QED
    <3>1. Parses(e)
      BY <1>5 DEF ParsesChunk
    <3>2. Texts(wire) = RTexts(read) /\ Args(wire) = RArgs(read)
      BY <1>4, <3>1
    <3>3. /\ RTexts(read') = RTexts(read) \o TextIn(streamClient)[e]
          /\ RArgs(read') = RArgs(read) \o ArgsIn(streamClient)[e]
          /\ TextIn(streamClient)[e] = <<>> => RTexts(read') = RTexts(read)
          /\ ArgsIn(streamClient)[e] = <<>> => RArgs(read') = RArgs(read)
      BY <1>3, <1>4, <3>1
    <3>4. Texts(wire') = RTexts(read')
      BY <2>2, <2>3, <3>2, <3>3
    <3>5. Args(wire') = RArgs(read')
      BY <2>2, <2>3, <3>2, <3>3
    <3>6. QED
      BY <1>4, <3>1, <3>4, <3>5
<1>6. ASSUME NEW e, ParsesDone(e)
      PROVE  Kept'
  <2>1. e \in SentTo(streamClient) /\ streamClient = "anthropic" /\ e.type # "chunk"
    BY <1>6 DEF ParsesDone, Parses
  <2>2. TextIn(streamClient)[e] = <<>> /\ ArgsIn(streamClient)[e] = <<>>
    BY <2>1 DEF TextIn, ArgsIn
  <2>3. Texts(wire') = Texts(wire) /\ Args(wire') = Args(wire)
    <3> DEFINE md == MessageDelta(Stream!StopReason(st.finishReason))
    <3>1. /\ BlockStop \in Written /\ BlockStop.type = "block_stop"
          /\ md \in Written /\ md.type = "message_delta"
          /\ MessageStop \in Written /\ MessageStop.type = "message_stop"
      BY WrittenEvents DEF Streaming
    <3>2. Closed(wire) \in Seq(Written) /\ Finished(wire) \in Seq(Written)
      BY FinalWritten DEF Streaming
    <3> HIDE DEF md
    <3>3. /\ TextOf[BlockStop] = <<>> /\ ArgsOf[BlockStop] = <<>>
          /\ TextOf[md] = <<>> /\ ArgsOf[md] = <<>>
          /\ TextOf[MessageStop] = <<>> /\ ArgsOf[MessageStop] = <<>>
      BY <3>1, PiecesOfOne
    <3>4. ASSUME NEW g \in [Written -> Seq(Numbers)], g[BlockStop] = <<>>, g[md] = <<>>,
                 g[MessageStop] = <<>>
          PROVE  Mapped(Stopped(wire), g) = Mapped(wire, g)
      <4>1. Mapped(Closed(wire), g) = Mapped(wire, g)
        <5>1. Mapped(Append(wire, BlockStop), g) = Mapped(wire, g)
          BY <3>1, <3>4, MappedSilent DEF Streaming
        <5>2. QED
          BY <5>1 DEF AppendIf, Closed
      <4>2. Mapped(Append(Closed(wire), md), g) = Mapped(Closed(wire), g)
        BY <3>1, <3>2, <3>4, MappedSilent
      <4>3. Mapped(Append(Finished(wire), MessageStop), g) = Mapped(Finished(wire), g)
        BY <3>1, <3>2, <3>4, MappedSilent
      <4>4. QED
        BY <4>1, <4>2, <4>3, Zenon DEF Finished, Stopped, md
    <3>5. wire' = Stopped(wire)
      BY <1>6 DEF ParsesDone
    <3>6. QED
      BY <1>1, <3>3, <3>4, <3>5
  <2>4. QED
    BY <1>4, <1>6, <2>2, <2>3 DEF ParsesDone
<1>7. ASSUME NEW e, ParsesNothing(e)
      PROVE  Kept'
  <2>1. e \in SentTo(streamClient) /\ streamClient = "anthropic" /\ e.type # "chunk"
    BY <1>7 DEF ParsesNothing, Parses
  <2>2. TextIn(streamClient)[e] = <<>> /\ ArgsIn(streamClient)[e] = <<>>
    BY <2>1 DEF TextIn, ArgsIn
  <2>3. QED
    BY <1>4, <1>7, <2>2 DEF ParsesNothing
<1>8. ASSUME NEW e, ParsesEvent(e)
      PROVE  Kept'
  <2> DEFINE a == ChunkOf(e)
  <2>1. e \in SentTo(streamClient) /\ streamClient # "anthropic" /\ e \in BlockEvents
    BY <1>8 DEF ParsesEvent, Parses, SentTo
  <2>2. /\ TextIn(streamClient)[e] = IF e.type = "text_delta" THEN <<e.n>> ELSE <<>>
        /\ ArgsIn(streamClient)[e] = IF e.type = "input_json_delta" THEN <<e.n>> ELSE <<>>
    BY <2>1 DEF TextIn, ArgsIn
  <2>3. wire' = AppendIf(Converts(e), wire, a) /\ wire \in Seq(Written)
    BY <1>8 DEF ParsesEvent, Streaming
  <2>4. Converts(e) =>
          /\ a \in Written
          /\ TextOf[a] = TextIn(streamClient)[e] /\ ArgsOf[a] = ArgsIn(streamClient)[e]
    BY <2>1, <2>2, <2>3, EventWritten, PiecesOfOne
  <2>5. ~Converts(e) => TextIn(streamClient)[e] = <<>> /\ ArgsIn(streamClient)[e] = <<>>
    BY <2>2 DEF Converts
  <2> HIDE DEF a
  <2>6. CASE Converts(e)
    <3>1. Mapped(Append(wire, a), TextOf) = Mapped(wire, TextOf) \o TextOf[a]
      BY <1>1, <2>3, <2>4, <2>6, MappedAppended
    <3>2. Mapped(Append(wire, a), ArgsOf) = Mapped(wire, ArgsOf) \o ArgsOf[a]
      BY <1>1, <2>3, <2>4, <2>6, MappedAppended
    <3>3. wire' = Append(wire, a)
      BY <2>3, <2>6 DEF AppendIf
    <3>4. QED
      BY <1>3, <1>4, <1>8, <2>4, <2>6, <3>1, <3>2, <3>3 DEF ParsesEvent
  <2>7. CASE ~Converts(e)
    <3>1. wire' = wire
      BY <2>3, <2>7 DEF AppendIf
    <3>2. QED
      BY <1>4, <1>8, <2>5, <2>7, <3>1 DEF ParsesEvent
  <2>8. QED
    BY <2>6, <2>7
<1>9. CASE Breaks
  <2>1. /\ TextOf[JsonError] = <<>> /\ ArgsOf[JsonError] = <<>> /\ JsonError \in Written
    BY WrittenEvents, PiecesOfOne
  <2>2. /\ Mapped(Append(wire, JsonError), TextOf) = Texts(wire)
        /\ Mapped(Append(wire, JsonError), ArgsOf) = Args(wire)
    BY ZenonT(30), <1>1, <2>1, MappedSilent DEF Streaming
  <2>3. Texts(wire') = Texts(wire) /\ Args(wire') = Args(wire)
    BY <1>9, <2>2, Zenon DEF Breaks
  <2>4. QED
    BY <1>9, <2>3 DEF Kept, Breaks
<1>10. CASE (\E e : Arrives(e)) \/ Ends \/ UNCHANGED streamVars
  BY <1>10, Zenon DEF Arrives, Ends, streamVars, Kept
<1>11. QED
  BY <1>5, <1>6, <1>7, <1>8, <1>9, <1>10 DEF StreamStep

(* ConvertedStream: text and arguments reach the client piece by piece and *)
(* in order, in either direction.                                          *)
THEOREM PiecesAlwaysKept == Spec => []PiecesKept
<1> DEFINE I == Streaming /\ Kept
<1>1. Stream!Init => I
  BY StreamingFirst, KeptFirst
<1>2. I /\ [Stream!Next]_streamVars => I'
  BY StreamSteps, StreamingStep, KeptStep
<1>3. I => PiecesKept
  BY KeptTold
<1>4. QED
  BY <1>1, <1>2, <1>3, StreamRuns, PTL

----------------------------------------------------------------------------
(* The end of the answer.                                                  *)

(* v has more events than w: behind those of w, and with types in T.       *)
More(w, v, T) ==
    /\ \A i \in DOMAIN w : i \in DOMAIN v /\ v[i] = w[i]
    /\ \A i \in DOMAIN v : \/ i \in DOMAIN w
                           \/ v[i].type \in T /\ \A j \in DOMAIN w : j < i

LEMMA MoreIf ==
    ASSUME NEW w, NEW v \in Seq(Written), NEW T, NEW a \in Written, a.type \in T, More(w, v, T), NEW c
    PROVE  More(w, AppendIf(c, v, a), T)
<1> DEFINE u == Append(v, a)
<1>1. /\ \A i \in DOMAIN v : i \in DOMAIN u /\ u[i] = v[i]
      /\ \A i \in DOMAIN u : \/ i \in DOMAIN v /\ u[i] = v[i]
                             \/ u[i] = a /\ \A j \in DOMAIN v : j < i
  BY AppendedBehind
<1> HIDE DEF u
<1>2. More(w, u, T)
  BY <1>1 DEF More
<1>3. QED
  BY <1>2 DEF AppendIf, u

LEMMA ChunkMore ==
    ASSUME NEW w \in Seq(Written), NEW e \in Chunk
    PROVE  More(w, Argued(w, e), {"message_start", "block_start", "text_delta", "json_delta"})
<1> DEFINE T == {"message_start", "block_start", "text_delta", "json_delta"}
           b0 == BlockStart(0, NoCall)
           td == TextDelta(e.n)
           b1 == BlockStart(1, e.call)
           jd == JsonDelta(e.n)
<1>1. e.n \in Nat /\ e.call \in Calls \cup {NoCall}
  BY DEF Chunk
<1>2. /\ MessageStart \in Written /\ b0 \in Written /\ td \in Written /\ b1 \in Written /\ jd \in Written
      /\ MessageStart.type \in T /\ b0.type \in T /\ b1.type \in T /\ td.type \in T /\ jd.type \in T
  BY <1>1, WrittenEvents
<1>3. /\ Begun(w, e) \in Seq(Written) /\ Opened(w, e) \in Seq(Written)
      /\ Said(w, e) \in Seq(Written) /\ Named(w, e) \in Seq(Written)
  BY ChunkWritten
<1> HIDE DEF T, b0, td, b1, jd
<1>4. More(w, w, T)
  BY DEF More
<1>5. \A v \in Seq(Written), a \in Written :
        a.type \in T /\ More(w, v, T) => \A c : More(w, AppendIf(c, v, a), T)
  BY MoreIf
<1>6. More(w, Begun(w, e), T)
  BY <1>2, <1>4, <1>5 DEF Begun
<1>7. More(w, Opened(w, e), T)
  BY <1>2, <1>3, <1>5, <1>6 DEF Opened, b0
<1>8. More(w, Said(w, e), T)
  BY <1>2, <1>3, <1>5, <1>7 DEF Said, td
<1>9. More(w, Named(w, e), T)
  BY <1>2, <1>3, <1>5, <1>8 DEF Named, b1
<1>10. More(w, Argued(w, e), T)
  BY <1>2, <1>3, <1>5, <1>9 DEF Argued, jd
<1>11. QED
  BY <1>10 DEF T

(* The last events: the reason, and behind it the end.                     *)
LEMMA StoppedMore ==
    ASSUME NEW w \in Seq(Written), st.finishReason \in FinishReasons
    PROVE  \E m \in Nat :
             LET v == Stopped(w) IN
             /\ m \in DOMAIN v /\ m + 1 \in DOMAIN v /\ DOMAIN v = 1 .. m + 1
             /\ \A i \in DOMAIN w : i \in DOMAIN v /\ v[i] = w[i] /\ i < m
             /\ \A i \in DOMAIN v : \/ i \in DOMAIN w
                                    \/ st.textBlockOpen /\ i = m - 1
                                    \/ i = m \/ i = m + 1
             /\ st.textBlockOpen =>
                  /\ m - 1 \in DOMAIN v /\ v[m - 1] = BlockStop
                  /\ \A i \in DOMAIN w : i < m - 1
             /\ v[m] = MessageDelta(Stream!StopReason(st.finishReason))
             /\ v[m + 1] = MessageStop
<1> DEFINE md == MessageDelta(Stream!StopReason(st.finishReason))
           c == Closed(w)
           f == Append(c, md)
           v == Append(f, MessageStop)
           m == Len(c) + 1
<1>1. /\ c \in Seq(Written) /\ f \in Seq(Written) /\ v = Stopped(w) /\ f = Finished(w)
  BY FinalWritten, Zenon DEF Finished, Stopped
<1>2. BlockStop \in Written /\ md \in Written /\ MessageStop \in Written
  BY WrittenEvents
<1>3. /\ \A i \in DOMAIN w : i \in DOMAIN c /\ c[i] = w[i]
      /\ \A i \in DOMAIN c : i \in DOMAIN w \/ (st.textBlockOpen /\ i = Len(c))
      /\ st.textBlockOpen => /\ Len(c) \in DOMAIN c /\ c[Len(c)] = BlockStop
                             /\ \A i \in DOMAIN w : i < Len(c)
  <2> DEFINE u == Append(w, BlockStop)
  <2>1. /\ \A i \in DOMAIN w : i \in DOMAIN u /\ u[i] = w[i]
        /\ \A i \in DOMAIN u : i \in DOMAIN w \/ i = Len(w) + 1
        /\ Len(w) + 1 \in DOMAIN u /\ u[Len(w) + 1] = BlockStop
        /\ DOMAIN w = 1..Len(w) /\ Len(w) \in Nat
    BY <1>2, AppendedBehind
  <2>2. Len(u) = Len(w) + 1
    BY <1>2, Appended
  <2> HIDE DEF u
  <2>3. CASE st.textBlockOpen
    <3>1. c = u
      BY <2>3 DEF Closed, AppendIf, u
    <3>2. QED
      BY <2>1, <2>2, <2>3, <3>1
  <2>4. CASE ~st.textBlockOpen
    <3>1. c = w
      BY <2>4 DEF Closed, AppendIf
    <3>2. QED
      BY <2>4, <3>1
  <2>5. QED
    BY <2>3, <2>4
<1> HIDE DEF md, c
<1>4. /\ \A i \in DOMAIN c : i \in DOMAIN f /\ f[i] = c[i]
      /\ \A i \in DOMAIN f : i \in DOMAIN c \/ i = m
      /\ m \in DOMAIN f /\ f[m] = md
      /\ DOMAIN c = 1..Len(c) /\ Len(c) \in Nat
  BY <1>1, <1>2, AppendedBehind
<1>5. Len(f) = m
  BY <1>1, <1>2, Appended
<1> HIDE DEF f
<1>6. /\ \A i \in DOMAIN f : i \in DOMAIN v /\ v[i] = f[i]
      /\ \A i \in DOMAIN v : i \in DOMAIN f \/ i = m + 1
      /\ m + 1 \in DOMAIN v /\ v[m + 1] = MessageStop
      /\ DOMAIN f = 1..m /\ DOMAIN v = 1 .. m + 1
  BY <1>1, <1>2, <1>5, AppendedBehind
<1> HIDE DEF v
<1>7. /\ m \in Nat /\ m \in DOMAIN v /\ m + 1 \in DOMAIN v /\ v[m] = md /\ v[m + 1] = MessageStop
      /\ Len(c) = m - 1 /\ \A i \in DOMAIN c : i < m
  BY <1>4, <1>6
<1> HIDE DEF m
<1>8. /\ \A i \in DOMAIN w : i \in DOMAIN v /\ v[i] = w[i] /\ i < m
      /\ \A i \in DOMAIN v : \/ i \in DOMAIN w
                             \/ st.textBlockOpen /\ i = m - 1
                             \/ i = m \/ i = m + 1
      /\ st.textBlockOpen => /\ m - 1 \in DOMAIN v /\ v[m - 1] = BlockStop
                             /\ \A i \in DOMAIN w : i < m - 1
  BY <1>3, <1>4, <1>6, <1>7
<1>9. QED
  BY <1>1, <1>6, <1>7, <1>8 DEF md

Finishes(e) == e.type \in {"chunk", "message_delta"} /\ e.reason # Stream!NoReason
DoneRead == Stream!Has(read, "[DONE]")
StopRead == Stream!Has(read, "message_delta")

(* Towards an Anthropic client: [DONE] is the last line, and the chunk     *)
(* with the finish reason is the last chunk.                               *)
TellsAnthropic ==
    streamClient = "anthropic" =>
      /\ DoneRead => upstream.at = "over" /\ buf = <<>>
      /\ upstream.at = "over" => DoneRead \/ (buf # <<>> /\ buf[1].type = "[DONE]")
      /\ \A i \in DOMAIN read :
           Finishes(read[i]) => /\ upstream.at \in {"finished", "over"}
                                /\ read[i].reason = st.finishReason
      /\ buf # <<>> =>
           /\ buf[1].type = "[DONE]" => upstream.at = "over"
           /\ Finishes(buf[1]) => /\ upstream.at = "finished"
                                  /\ \A i \in DOMAIN read : ~Finishes(read[i])
      /\ ~DoneRead => \A j \in DOMAIN wire : wire[j].type \notin {"message_delta", "message_stop"}
      /\ DoneRead =>
           \E j \in DOMAIN wire :
             /\ wire[j].type = "message_delta"
             /\ \A k \in DOMAIN wire :
                  /\ wire[k].type = "message_delta" => k = j
                  /\ j < k => wire[k].type \in {"message_stop", "json_error"}
      /\ \A j \in DOMAIN wire :
           /\ wire[j].type # "finish"
           /\ wire[j].type = "message_delta" => wire[j].reason = Stream!StopReason(st.finishReason)

(* Towards an OpenAI client: behind the stop reason come only the stop,    *)
(* pings and errors.                                                       *)
TellsOpenAI ==
    streamClient = "openai" =>
      /\ StopRead => /\ upstream.at \in {"finished", "over"}
                     /\ buf # <<>> => buf[1].type \in {"message_stop", "ping_or_error"}
      /\ upstream.at \in {"finished", "over"} =>
           StopRead \/ (buf # <<>> /\ buf[1].type = "message_delta")
      /\ buf # <<>> /\ buf[1].type = "message_delta" => upstream.at \in {"finished", "over"}
      /\ ~StopRead => \A j \in DOMAIN wire : wire[j].type # "finish"
      /\ StopRead =>
           \E j \in DOMAIN wire :
             /\ wire[j].type = "finish"
             /\ \A k \in DOMAIN wire : /\ wire[k].type = "finish" => k = j
                                       /\ j < k => wire[k].type \in {"no_content", "json_error"}
      /\ \A j \in DOMAIN wire : wire[j].type \notin {"message_delta", "message_stop"}
      /\ \A i \in DOMAIN read, j \in DOMAIN wire :
           read[i].type = "message_delta" /\ wire[j].type = "finish" =>
             wire[j].reason = Stream!FinishReason(read[i].reason)

Tells == TellsAnthropic /\ TellsOpenAI /\ (phase = "ended" => buf = <<>>)

LEMMA TellsTold == Streaming /\ Tells => ReasonTold
<1>1. SUFFICES ASSUME Streaming, Tells PROVE Stream!ReasonTold
  BY DEF ReasonTold
<1>2. /\ DOMAIN wire \subseteq Nat
      /\ \A i \in DOMAIN read : read[i] \in SentTo(streamClient)
  BY <1>1, ElementOfSeq, LenProperties DEF Streaming
<1>3. CASE streamClient = "anthropic"
  <2>1. \A i \in DOMAIN read : read[i].type # "message_delta"
    BY <1>2, <1>3 DEF SentTo, Chunks, Chunk
  <2>2. \A i \in DOMAIN read, j \in DOMAIN wire :
          Finishes(read[i]) /\ wire[j].type \in {"finish", "message_delta"} =>
            wire[j].reason = Stream!StopReason(read[i].reason)
    BY <1>1, <1>3 DEF Tells, TellsAnthropic
  <2>3. /\ ~DoneRead => \A j \in DOMAIN wire : wire[j].type \notin {"finish", "message_delta"}
        /\ DoneRead =>
             \E j \in DOMAIN wire :
               /\ wire[j].type = "message_delta"
               /\ \A k \in DOMAIN wire :
                    /\ wire[k].type \in {"finish", "message_delta"} => k = j
                    /\ j < k => wire[k].type \in {"message_stop", "json_error"}
        /\ phase = "ended" /\ upstream.at = "over" => DoneRead
    BY <1>1, <1>3 DEF Tells, TellsAnthropic
  <2>4. QED
    BY <1>2, <1>3, <2>1, <2>2, <2>3 DEF Stream!ReasonTold, DoneRead, Finishes
<1>4. CASE streamClient = "openai"
  <2>1. \A i \in DOMAIN read : read[i].type # "chunk"
    BY <1>2, <1>4 DEF SentTo, BlockEvents
  <2>2. \A i \in DOMAIN read, j \in DOMAIN wire :
          Finishes(read[i]) /\ wire[j].type \in {"finish", "message_delta"} =>
            wire[j].reason = Stream!FinishReason(read[i].reason)
    BY <1>1, <1>4, <2>1 DEF Tells, TellsOpenAI, Finishes
  <2>3. /\ ~StopRead => \A j \in DOMAIN wire : wire[j].type \notin {"finish", "message_delta"}
        /\ StopRead =>
             \E j \in DOMAIN wire :
               /\ wire[j].type = "finish"
               /\ \A k \in DOMAIN wire : /\ wire[k].type \in {"finish", "message_delta"} => k = j
                                         /\ j < k => wire[k].type \in {"no_content", "json_error"}
        /\ phase = "ended" /\ upstream.at = "over" => StopRead
    BY <1>1, <1>4 DEF Tells, TellsOpenAI
  <2>4. QED
    BY <1>2, <1>4, <2>1, <2>2, <2>3 DEF Stream!ReasonTold, StopRead, Finishes
<1>5. QED
  BY <1>1, <1>3, <1>4 DEF Streaming

LEMMA TellsFirst == Stream!Init => Tells
BY DEF Stream!Init, Tells, TellsAnthropic, TellsOpenAI, DoneRead, StopRead, Stream!Has

LEMMA ReadMore ==
    ASSUME Streaming, NEW e, Parses(e)
    PROVE  /\ \A i \in DOMAIN read : i \in DOMAIN read' /\ read'[i] = read[i]
           /\ \A i \in DOMAIN read' : (i \in DOMAIN read /\ read'[i] = read[i]) \/ read'[i] = e
           /\ \E i \in DOMAIN read' : read'[i] = e
           /\ DoneRead' <=> DoneRead \/ e.type = "[DONE]"
           /\ StopRead' <=> StopRead \/ e.type = "message_delta"
           /\ buf # <<>> /\ buf[1] = e /\ buf' = <<>>
           /\ streamClient' = streamClient /\ upstream' = upstream
<1>1. /\ \A i \in DOMAIN read : i \in DOMAIN read' /\ read'[i] = read[i]
      /\ \A i \in DOMAIN read' : (i \in DOMAIN read /\ read'[i] = read[i]) \/ read'[i] = e
      /\ \E i \in DOMAIN read' : read'[i] = e
  <2>1. read \in Seq(SentTo(streamClient)) /\ e \in SentTo(streamClient) /\ read' = Append(read, e)
    BY DEF Streaming, Parses
  <2>2. /\ \A i \in DOMAIN read : i \in DOMAIN read' /\ read'[i] = read[i]
        /\ \A i \in DOMAIN read' : \/ i \in DOMAIN read /\ read'[i] = read[i]
                                   \/ i = Len(read) + 1 /\ read'[i] = e /\ \A j \in DOMAIN read : j < i
        /\ Len(read) + 1 \in DOMAIN read' /\ read'[Len(read) + 1] = e
    BY <2>1, AppendedBehind
  <2>3. QED
    BY <2>2
<1>2. /\ DoneRead' <=> DoneRead \/ e.type = "[DONE]"
      /\ StopRead' <=> StopRead \/ e.type = "message_delta"
  BY <1>1 DEF DoneRead, StopRead, Stream!Has
<1>3. /\ buf # <<>> /\ buf[1] = e /\ buf' = <<>>
      /\ streamClient' = streamClient /\ upstream' = upstream
  BY DEF Parses
<1>4. QED
  BY <1>1, <1>2, <1>3

LEMMA TellsAnthropicStep ==
    ASSUME Streaming, Tells, StreamStep \/ UNCHANGED streamVars, streamClient = "anthropic"
    PROVE  TellsAnthropic'
<1>1. ASSUME NEW e, Arrives(e)
      PROVE  TellsAnthropic'
  <2>1. /\ upstream.at # "over"
        /\ upstream'.at = "over" <=> buf'[1].type = "[DONE]"
        /\ upstream.at = "finished" => buf'[1].type # "chunk" /\ upstream'.at \in {"finished", "over"}
        /\ buf'[1].type = "chunk" /\ buf'[1].reason # Stream!NoReason => upstream'.at = "finished"
        /\ buf'[1].type # "message_delta"
        /\ buf' # <<>> /\ buf = <<>>
    <3>1. e \in Stream!UpstreamEvents /\ upstream \in Progress
      BY <1>1 DEF Arrives, Streaming, Far
    <3>2. buf'[1] = e[1] /\ upstream' = e[2] /\ buf' # <<>> /\ buf = <<>>
      BY <1>1 DEF Arrives
    <3>3. e[1] \in Chunks
      BY <3>1, UpstreamChunks
    <3>4. e[1].type # "message_delta"
      BY <3>3 DEF Chunks, Chunk
    <3>5. QED
      BY <3>1, <3>2, <3>4, UpstreamChunks
  <2>2. UNCHANGED <<streamClient, st, wire, read>> /\ (DoneRead' <=> DoneRead)
    BY <1>1 DEF Arrives, DoneRead, Stream!Has
  <2>3. QED
    BY <2>1, <2>2 DEF Tells, TellsAnthropic, Finishes
<1>2. ASSUME NEW e, ParsesChunk(e)
      PROVE  TellsAnthropic'
  <2>1. /\ Parses(e) /\ e.type = "chunk"
        /\ st'.finishReason = IF e.reason # Stream!NoReason THEN e.reason ELSE st.finishReason
    BY <1>2 DEF ParsesChunk, Stream!StateAfter, Chunk
  <2>2. ~DoneRead
    BY <2>1, ReadMore DEF Tells, TellsAnthropic
  <2>3. \A j \in DOMAIN wire' : wire'[j].type \notin {"message_delta", "message_stop", "finish"}
    <3>1. More(wire, wire', {"message_start", "block_start", "text_delta", "json_delta"})
      BY <1>2, ChunkMore DEF ParsesChunk, Streaming
    <3>2. QED
      BY <2>2, <3>1 DEF More, Tells, TellsAnthropic
  <2>4. ~DoneRead'
    BY <2>1, <2>2, ReadMore
  <2>5. \A i \in DOMAIN read' :
          Finishes(read'[i]) => /\ upstream'.at \in {"finished", "over"}
                                /\ read'[i].reason = st'.finishReason
    BY <2>1, ReadMore DEF Tells, TellsAnthropic, Finishes
  <2>6. /\ upstream'.at = "over" => DoneRead'
        /\ buf' = <<>>
    BY <2>1, <2>2, ReadMore DEF Tells, TellsAnthropic
  <2>7. QED
    BY <2>3, <2>4, <2>5, <2>6 DEF TellsAnthropic, Finishes
<1>3. ASSUME NEW e, ParsesDone(e)
      PROVE  TellsAnthropic'
  <2>1. Parses(e) /\ e.type = "[DONE]" /\ st' = st /\ wire' = Stopped(wire)
    BY <1>3 DEF ParsesDone
  <2>2. ~DoneRead /\ DoneRead' /\ upstream'.at = "over" /\ buf' = <<>>
    BY <2>1, ReadMore DEF Tells, TellsAnthropic
  <2>3. PICK m \in Nat :
          /\ m \in DOMAIN wire' /\ m + 1 \in DOMAIN wire' /\ DOMAIN wire' = 1 .. m + 1
          /\ \A i \in DOMAIN wire : i \in DOMAIN wire' /\ wire'[i] = wire[i] /\ i < m
          /\ \A i \in DOMAIN wire' : \/ i \in DOMAIN wire
                                     \/ st.textBlockOpen /\ i = m - 1
                                     \/ i = m \/ i = m + 1
          /\ st.textBlockOpen => wire'[m - 1] = BlockStop
          /\ wire'[m] = MessageDelta(Stream!StopReason(st.finishReason))
          /\ wire'[m + 1] = MessageStop
    BY <2>1, StoppedMore DEF Streaming
  <2>4. /\ BlockStop.type = "block_stop" /\ MessageStop.type = "message_stop"
        /\ wire'[m].type = "message_delta"
        /\ wire'[m].reason = Stream!StopReason(st.finishReason)
    BY <2>3 DEF BlockStop, MessageStop, MessageDelta
  <2>5. \A j \in DOMAIN wire : wire[j].type \notin {"message_delta", "message_stop", "finish"}
    BY <2>2 DEF Tells, TellsAnthropic
  <2>6. \A i \in DOMAIN wire' : \/ i \in DOMAIN wire /\ wire'[i] = wire[i]
                                \/ wire'[i].type = "block_stop"
                                \/ i = m \/ i = m + 1
    BY <2>3, <2>4
  <2>7. /\ m \in DOMAIN wire' /\ wire'[m].type = "message_delta"
        /\ \A k \in DOMAIN wire' : /\ wire'[k].type = "message_delta" => k = m
                                   /\ m < k => wire'[k].type = "message_stop"
    BY <2>3, <2>4, <2>5, <2>6
  <2>8. \A j \in DOMAIN wire' :
          /\ wire'[j].type # "finish"
          /\ wire'[j].type = "message_delta" => wire'[j].reason = Stream!StopReason(st'.finishReason)
    BY <2>1, <2>3, <2>4, <2>5, <2>6
  <2>9. \A i \in DOMAIN read' :
          Finishes(read'[i]) => /\ upstream'.at \in {"finished", "over"}
                                /\ read'[i].reason = st'.finishReason
    BY <2>1, ReadMore DEF Tells, TellsAnthropic, Finishes
  <2>10. QED
    BY <2>2, <2>7, <2>8, <2>9 DEF TellsAnthropic, Finishes
<1>4. ASSUME NEW e, ParsesNothing(e)
      PROVE  TellsAnthropic'
  <2>1. Parses(e) /\ e.type = "no_choices" /\ UNCHANGED <<wire, st>>
    BY <1>4 DEF ParsesNothing
  <2>2. QED
    BY <2>1, ReadMore DEF Tells, TellsAnthropic, Finishes
<1>5. CASE Breaks
  <2>1. /\ UNCHANGED <<streamClient, upstream, buf, st, read>> /\ (DoneRead' <=> DoneRead)
        /\ JsonError.type = "json_error"
    BY <1>5 DEF Breaks, DoneRead, Stream!Has, JsonError
  <2>2. /\ \A i \in DOMAIN wire : i \in DOMAIN wire' /\ wire'[i] = wire[i]
        /\ \A i \in DOMAIN wire' : \/ i \in DOMAIN wire /\ wire'[i] = wire[i]
                                   \/ wire'[i] = JsonError
    BY <1>5, AppendedBehind, WrittenEvents DEF Breaks, Streaming
  <2>3. QED
    BY <2>1, <2>2 DEF Tells, TellsAnthropic, Finishes
<1>6. CASE Ends \/ UNCHANGED streamVars
  BY <1>6 DEF Ends, streamVars, Tells, TellsAnthropic, DoneRead, Stream!Has
<1>7. QED
  BY <1>1, <1>2, <1>3, <1>4, <1>5, <1>6 DEF StreamStep, ParsesEvent

LEMMA TellsOpenAIStep ==
    ASSUME Streaming, Tells, StreamStep \/ UNCHANGED streamVars, streamClient = "openai"
    PROVE  TellsOpenAI'
<1>1. ASSUME NEW e, Arrives(e)
      PROVE  TellsOpenAI'
  <2>1. e \in Stream!UpstreamEvents /\ upstream \in BlockProgress
    BY <1>1 DEF Arrives, Streaming, Far
  <2>2. buf'[1] = e[1] /\ upstream' = e[2] /\ buf' # <<>> /\ buf = <<>>
    BY <1>1 DEF Arrives
  <2>3. /\ upstream'.at \in {"finished", "over"} <=>
             buf'[1].type = "message_delta" \/ upstream.at = "finished"
        /\ upstream.at # "over"
        /\ upstream.at = "finished" => buf'[1].type \in {"message_stop", "ping_or_error"}
    BY <2>1, <2>2, UpstreamBlocks
  <2>4. UNCHANGED <<streamClient, st, wire, read>> /\ (StopRead' <=> StopRead)
    BY <1>1 DEF Arrives, StopRead, Stream!Has
  <2>5. QED
    BY <2>2, <2>3, <2>4 DEF Tells, TellsOpenAI
<1>2. ASSUME NEW e, ParsesEvent(e)
      PROVE  TellsOpenAI'
  <2>1. /\ Parses(e) /\ e \in BlockEvents /\ st' = st
        /\ wire' = AppendIf(Converts(e), wire, ChunkOf(e))
    BY <1>2 DEF ParsesEvent, Parses, SentTo
  <2>2. CASE Converts(e)
    <3>1. /\ \A i \in DOMAIN wire : i \in DOMAIN wire' /\ wire'[i] = wire[i]
          /\ \A i \in DOMAIN wire' : \/ i \in DOMAIN wire /\ wire'[i] = wire[i]
                                     \/ /\ i = Len(wire) + 1 /\ wire'[i] = ChunkOf(e)
                                        /\ \A j \in DOMAIN wire : j < i
          /\ Len(wire) + 1 \in DOMAIN wire' /\ wire'[Len(wire) + 1] = ChunkOf(e)
          /\ DOMAIN wire = 1..Len(wire) /\ Len(wire) \in Nat
      BY <2>1, <2>2, EventWritten, AppendedBehind DEF Streaming, AppendIf
    <3>2. /\ ChunkOf(e).type \notin {"message_delta", "message_stop"}
          /\ ChunkOf(e).type = "finish" <=> e.type = "message_delta"
          /\ e.type = "message_delta" => ChunkOf(e).reason = Stream!FinishReason(e.reason)
          /\ e.type = "message_stop" => ChunkOf(e).type = "no_content"
      BY <2>1, <2>2, EventWritten DEF Streaming
    <3>3. /\ StopRead => e.type = "message_stop"
          /\ upstream.at \in {"finished", "over"} => StopRead \/ e.type = "message_delta"
          /\ e.type = "message_delta" => upstream.at \in {"finished", "over"}
      BY <2>1, <2>2, ReadMore DEF Tells, TellsOpenAI, Converts
    <3>4. \A j \in DOMAIN wire' : wire'[j].type \notin {"message_delta", "message_stop"}
      BY <3>1, <3>2 DEF Tells, TellsOpenAI
    <3>5. CASE e.type = "message_delta"
      <4>1. ~StopRead /\ \A j \in DOMAIN wire : wire[j].type # "finish"
        BY <3>3, <3>5 DEF Tells, TellsOpenAI
      <4>2. \A i \in DOMAIN read : read[i].type # "message_delta"
        BY <4>1 DEF StopRead, Stream!Has
      <4>3. StopRead' /\ upstream'.at \in {"finished", "over"} /\ buf' = <<>>
        BY <2>1, <3>3, <3>5, ReadMore
      <4>4. \A i \in DOMAIN read', j \in DOMAIN wire' :
              read'[i].type = "message_delta" /\ wire'[j].type = "finish" =>
                wire'[j].reason = Stream!FinishReason(read'[i].reason)
        <5>1. \A i \in DOMAIN read' : read'[i].type = "message_delta" => read'[i] = e
          BY <2>1, <4>2, ReadMore
        <5>2. \A j \in DOMAIN wire' : wire'[j].type = "finish" => wire'[j] = ChunkOf(e)
          BY <3>1, <4>1
        <5>3. QED
          BY <3>2, <3>5, <5>1, <5>2
      <4>5. \A k \in DOMAIN wire' : /\ wire'[k].type = "finish" => k = Len(wire) + 1
                                    /\ ~(Len(wire) + 1 < k)
        BY <3>1, <4>1
      <4>6. wire'[Len(wire) + 1].type = "finish"
        BY <3>1, <3>2, <3>5
      <4>7. QED
        BY <3>1, <3>4, <4>3, <4>4, <4>5, <4>6 DEF TellsOpenAI
    <3>6. CASE e.type # "message_delta"
      <4>1. /\ StopRead' <=> StopRead
            /\ buf' = <<>> /\ upstream' = upstream
            /\ \A i \in DOMAIN read' : read'[i].type = "message_delta" =>
                 i \in DOMAIN read /\ read'[i] = read[i]
        BY <2>1, <3>6, ReadMore
      <4>2. \A j \in DOMAIN wire' : wire'[j].type = "finish" => j \in DOMAIN wire /\ wire'[j] = wire[j]
        BY <3>1, <3>2, <3>6
      <4>3. StopRead' =>
              \E j \in DOMAIN wire' :
                /\ wire'[j].type = "finish"
                /\ \A k \in DOMAIN wire' : /\ wire'[k].type = "finish" => k = j
                                           /\ j < k => wire'[k].type \in {"no_content", "json_error"}
        <5>1. SUFFICES ASSUME StopRead'
                       PROVE  \E j \in DOMAIN wire' :
                                /\ wire'[j].type = "finish"
                                /\ \A k \in DOMAIN wire' :
                                     /\ wire'[k].type = "finish" => k = j
                                     /\ j < k => wire'[k].type \in {"no_content", "json_error"}
          OBVIOUS
        <5>2. PICK j \in DOMAIN wire :
                /\ wire[j].type = "finish"
                /\ \A k \in DOMAIN wire : /\ wire[k].type = "finish" => k = j
                                          /\ j < k => wire[k].type \in {"no_content", "json_error"}
          BY <4>1, <5>1 DEF Tells, TellsOpenAI
        <5>3. ChunkOf(e).type = "no_content"
          BY <3>2, <3>3, <4>1, <5>1
        <5>4. QED
          BY <3>1, <4>2, <5>2, <5>3
      <4>4. QED
        BY <3>3, <3>4, <3>6, <4>1, <4>2, <4>3 DEF Tells, TellsOpenAI
    <3>7. QED
      BY <3>5, <3>6
  <2>3. CASE ~Converts(e)
    <3>1. wire' = wire /\ e.type \in {"tool_block", "block_stop", "ping_or_error"}
      BY <2>1, <2>3 DEF AppendIf, Converts
    <3>2. QED
      BY <2>1, <3>1, ReadMore DEF Tells, TellsOpenAI
  <2>4. QED
    BY <2>2, <2>3
<1>3. CASE Breaks
  <2>1. /\ UNCHANGED <<streamClient, upstream, buf, st, read>> /\ (StopRead' <=> StopRead)
        /\ JsonError.type = "json_error"
    BY <1>3 DEF Breaks, StopRead, Stream!Has, JsonError
  <2>2. /\ \A i \in DOMAIN wire : i \in DOMAIN wire' /\ wire'[i] = wire[i]
        /\ \A i \in DOMAIN wire' : \/ i \in DOMAIN wire /\ wire'[i] = wire[i]
                                   \/ wire'[i] = JsonError
    BY <1>3, AppendedBehind, WrittenEvents DEF Breaks, Streaming
  <2>3. QED
    BY <2>1, <2>2 DEF Tells, TellsOpenAI
<1>4. CASE Ends \/ UNCHANGED streamVars
  BY <1>4 DEF Ends, streamVars, Tells, TellsOpenAI, StopRead, Stream!Has
<1>5. QED
  BY <1>1, <1>2, <1>3, <1>4 DEF StreamStep, ParsesChunk, ParsesDone, ParsesNothing

LEMMA TellsStep ==
    ASSUME Streaming, Tells, StreamStep \/ UNCHANGED streamVars
    PROVE  Tells'
<1>1. streamClient' = streamClient /\ streamClient \in {"anthropic", "openai"}
  BY DEF Streaming, StreamStep, Arrives, Parses, ParsesChunk, ParsesDone, ParsesNothing,
         ParsesEvent, Ends, Breaks, streamVars
<1>2. TellsAnthropic'
  <2>1. CASE streamClient = "anthropic"
    BY <2>1, TellsAnthropicStep
  <2>2. CASE streamClient # "anthropic"
    BY <1>1, <2>2 DEF TellsAnthropic
  <2>3. QED
    BY <2>1, <2>2
<1>3. TellsOpenAI'
  <2>1. CASE streamClient = "openai"
    BY <2>1, TellsOpenAIStep
  <2>2. CASE streamClient # "openai"
    BY <1>1, <2>2 DEF TellsOpenAI
  <2>3. QED
    BY <2>1, <2>2
<1>4. phase' = "ended" => buf' = <<>>
  BY DEF StreamStep, Arrives, Parses, ParsesChunk, ParsesDone, ParsesNothing,
         ParsesEvent, Ends, Breaks, streamVars, Tells
<1>5. QED
  BY <1>2, <1>3, <1>4 DEF Tells

(* ConvertedStream: a client is told once and rightly why the answer ended,*)
(* when and only when the upstream said so, with no piece of the answer    *)
(* behind it.                                                              *)
THEOREM ReasonAlwaysTold == Spec => []ReasonTold
<1> DEFINE I == Streaming /\ Tells
<1>1. Stream!Init => I
  BY StreamingFirst, TellsFirst
<1>2. I /\ [Stream!Next]_streamVars => I'
  BY StreamSteps, StreamingStep, TellsStep
<1>3. I => ReasonTold
  BY TellsTold
<1>4. QED
  BY <1>1, <1>2, <1>3, StreamRuns, PTL

----------------------------------------------------------------------------
(* A message without calls, towards an Anthropic client.                   *)
At(w, type) == {i \in DOMAIN w : w[i].type = type}

(* What TextStreamsWellFormed says of the events w.                        *)
WellFormed(w, started) ==
    /\ At(w, "message_start") = IF started THEN {1} ELSE {}
    /\ \A type \in {"block_start", "block_stop", "message_delta", "message_stop"} :
         \A i, j \in At(w, type) : i = j
    /\ \A i \in At(w, "text_delta") : /\ \E j \in At(w, "block_start") : j < i
                                      /\ ~ \E j \in At(w, "block_stop") : j < i
    /\ \A i \in At(w, "message_delta") :
         /\ (\E j \in At(w, "block_start") : j < i) <=> (\E j \in At(w, "block_stop") : j < i)
         /\ \A j \in i + 1 .. Len(w) : w[j].type \in {"message_stop", "json_error"}
    /\ \A i \in At(w, "message_stop") : i > 1 /\ w[i - 1].type = "message_delta"

(* Before its end, with the state of the conversion.                       *)
Talking(w, started, open) ==
    /\ started \/ (w = <<>> /\ ~open)
    /\ \A i \in DOMAIN w : w[i].type \in {"message_start", "block_start", "text_delta"}
    /\ At(w, "message_start") = IF started THEN {1} ELSE {}
    /\ At(w, "block_start") # {} <=> open
    /\ \A i, j \in At(w, "block_start") : i = j
    /\ \A i \in At(w, "text_delta") : \E j \in At(w, "block_start") : j < i

LEMMA TalkingWell ==
    ASSUME NEW w, NEW started, NEW open, Talking(w, started, open)
    PROVE  WellFormed(w, started)
BY DEF Talking, WellFormed, At

(* What an event adds.                                                     *)
LEMMA AtAppended ==
    ASSUME NEW w \in Seq(Written), NEW a \in Written, NEW type
    PROVE  /\ At(Append(w, a), type)
                = IF a.type = type THEN At(w, type) \cup {Len(w) + 1} ELSE At(w, type)
           /\ At(w, type) \subseteq 1..Len(w) /\ Len(w) \in Nat
<1> DEFINE v == Append(w, a)
<1>1. /\ \A i \in DOMAIN w : i \in DOMAIN v /\ v[i] = w[i]
      /\ \A i \in DOMAIN v : \/ i \in DOMAIN w /\ v[i] = w[i]
                             \/ i = Len(w) + 1 /\ v[i] = a
      /\ Len(w) + 1 \in DOMAIN v /\ v[Len(w) + 1] = a
      /\ DOMAIN w = 1..Len(w) /\ Len(w) \in Nat
  BY AppendedBehind
<1> HIDE DEF v
<1>2. At(v, type) = IF a.type = type THEN At(w, type) \cup {Len(w) + 1} ELSE At(w, type)
  BY <1>1 DEF At
<1>3. At(w, type) \subseteq 1..Len(w) /\ Len(w) \in Nat
  BY <1>1 DEF At
<1>4. QED
  BY <1>2, <1>3 DEF v

LEMMA TalkingStarts ==
    ASSUME NEW w \in Seq(Written), NEW open, Talking(w, FALSE, open)
    PROVE  Talking(Append(w, MessageStart), TRUE, open)
<1> DEFINE v == Append(w, MessageStart)
<1>1. w = <<>> /\ ~open /\ Len(w) = 0 /\ At(w, "message_start") = {}
  BY DEF Talking
<1>2. MessageStart \in Written /\ MessageStart.type = "message_start"
  BY WrittenEvents
<1>3. DOMAIN v = {1} /\ v[1].type = "message_start"
  <2>1. DOMAIN v = 1 .. 0 + 1 /\ v[0 + 1] = MessageStart
    BY <1>1, <1>2, AppendedBehind
  <2>2. QED
    BY <1>2, <2>1
<1> HIDE DEF v
<1>4. QED
  BY <1>1, <1>3 DEF Talking, At, v

LEMMA TalkingOpens ==
    ASSUME NEW w \in Seq(Written), Talking(w, TRUE, FALSE)
    PROVE  Talking(Append(w, BlockStart(0, NoCall)), TRUE, TRUE)
<1> DEFINE b == BlockStart(0, NoCall)
           v == Append(w, b)
<1>1. b \in Written /\ b.type = "block_start"
  BY WrittenEvents
<1>2. /\ \A type : At(v, type) = IF b.type = type THEN At(w, type) \cup {Len(w) + 1} ELSE At(w, type)
      /\ \A i \in DOMAIN v : (i \in DOMAIN w /\ v[i] = w[i]) \/ v[i] = b
  BY <1>1, AtAppended, AppendedBehind
<1> HIDE DEF v, b
<1>3. /\ At(v, "message_start") = At(w, "message_start")
      /\ At(v, "text_delta") = At(w, "text_delta")
      /\ At(v, "block_start") = At(w, "block_start") \cup {Len(w) + 1}
  BY <1>1, <1>2
<1>4. At(w, "block_start") = {} /\ At(w, "text_delta") = {}
  BY DEF Talking
<1>5. QED
  BY <1>1, <1>2, <1>3, <1>4 DEF Talking, b, v

LEMMA TalkingSays ==
    ASSUME NEW w \in Seq(Written), NEW n \in Nat, Talking(w, TRUE, TRUE)
    PROVE  Talking(Append(w, TextDelta(n)), TRUE, TRUE)
<1> DEFINE d == TextDelta(n)
           v == Append(w, d)
<1>1. d \in Written /\ d.type = "text_delta"
  BY WrittenEvents
<1>2. /\ \A type : At(v, type) = IF d.type = type THEN At(w, type) \cup {Len(w) + 1} ELSE At(w, type)
      /\ \A type : At(w, type) \subseteq 1..Len(w)
      /\ Len(w) \in Nat
      /\ \A i \in DOMAIN v : (i \in DOMAIN w /\ v[i] = w[i]) \/ v[i] = d
  BY <1>1, AtAppended, AppendedBehind
<1> HIDE DEF v, d
<1>3. /\ At(v, "message_start") = At(w, "message_start")
      /\ At(v, "text_delta") = At(w, "text_delta") \cup {Len(w) + 1}
      /\ At(v, "block_start") = At(w, "block_start")
  BY <1>1, <1>2
<1>4. PICK k \in At(w, "block_start") : k < Len(w) + 1
  <2>1. PICK k : k \in At(w, "block_start")
    BY DEF Talking
  <2>2. k \in 1..Len(w)
    BY <1>2, <2>1
  <2>3. k < Len(w) + 1
    BY <1>2, <2>2
  <2>4. QED
    BY <2>1, <2>3
<1>5. \A i \in At(v, "text_delta") : \E j \in At(v, "block_start") : j < i
  BY <1>3, <1>4 DEF Talking
<1>6. \A i \in DOMAIN v : v[i].type \in {"message_start", "block_start", "text_delta"}
  BY <1>1, <1>2 DEF Talking
<1>7. QED
  BY <1>3, <1>5, <1>6 DEF Talking, d, v

LEMMA TalkingOn ==
    ASSUME Streaming, NEW e \in Chunk, ~e.part, ~e.args,
           Talking(wire, st.started, st.textBlockOpen)
    PROVE  Talking(Argued(wire, e), TRUE, st.textBlockOpen \/ e.text)
<1>1. e.n \in Nat /\ wire \in Seq(Written)
  BY DEF Chunk, Streaming
<1>2. Begun(wire, e) \in Seq(Written) /\ Opened(wire, e) \in Seq(Written)
  BY <1>1, ChunkWritten
<1>3. Talking(Begun(wire, e), TRUE, st.textBlockOpen)
  <2>1. CASE st.started
    BY <2>1 DEF Begun, AppendIf, Talking
  <2>2. CASE ~st.started
    <3>1. Talking(wire, FALSE, st.textBlockOpen)
      BY <2>2 DEF Talking
    <3>2. QED
      BY <1>1, <2>2, <3>1, TalkingStarts DEF Begun, AppendIf
  <2>3. QED
    BY <2>1, <2>2
<1>4. CASE ~e.text
  <2>1. Argued(wire, e) = Begun(wire, e)
    BY <1>4 DEF Argued, Named, Said, Opened, AppendIf
  <2>2. QED
    BY <1>3, <1>4, <2>1 DEF Talking
<1>5. CASE e.text
  <2>1. Argued(wire, e) = Append(Opened(wire, e), TextDelta(e.n))
    BY <1>5 DEF Argued, Named, Said, AppendIf
  <2>2. Talking(Opened(wire, e), TRUE, TRUE)
    <3>1. CASE st.textBlockOpen
      <4>1. Opened(wire, e) = Begun(wire, e)
        BY <3>1 DEF Opened, AppendIf
      <4>2. QED
        BY <1>3, <3>1, <4>1 DEF Talking
    <3>2. CASE ~st.textBlockOpen
      <4>1. Opened(wire, e) = Append(Begun(wire, e), BlockStart(0, NoCall))
        BY <1>5, <3>2 DEF Opened, AppendIf
      <4>2. Talking(Begun(wire, e), TRUE, FALSE)
        BY <1>3, <3>2 DEF Talking
      <4>3. QED
        BY <1>2, <4>1, <4>2, TalkingOpens
    <3>3. QED
      BY <3>1, <3>2
  <2>3. Talking(Argued(wire, e), TRUE, TRUE)
    BY <1>1, <1>2, <2>1, <2>2, TalkingSays
  <2>4. QED
    BY <1>5, <2>3 DEF Talking
<1>6. QED
  BY <1>4, <1>5

LEMMA TalkingStops ==
    ASSUME Streaming, Talking(wire, st.started, st.textBlockOpen)
    PROVE  WellFormed(Stopped(wire), st.started)
<1> DEFINE v == Stopped(wire)
<1>1. PICK m \in Nat :
        /\ m \in DOMAIN v /\ m + 1 \in DOMAIN v /\ DOMAIN v = 1 .. m + 1
        /\ \A i \in DOMAIN wire : i \in DOMAIN v /\ v[i] = wire[i] /\ i < m
        /\ \A i \in DOMAIN v : \/ i \in DOMAIN wire
                               \/ st.textBlockOpen /\ i = m - 1
                               \/ i = m \/ i = m + 1
        /\ st.textBlockOpen =>
             /\ m - 1 \in DOMAIN v /\ v[m - 1] = BlockStop
             /\ \A i \in DOMAIN wire : i < m - 1
        /\ v[m] = MessageDelta(Stream!StopReason(st.finishReason))
        /\ v[m + 1] = MessageStop
  BY StoppedMore DEF Streaming
<1>2. /\ BlockStop.type = "block_stop" /\ v[m].type = "message_delta"
      /\ v[m + 1].type = "message_stop"
  BY <1>1 DEF BlockStop, MessageStop, MessageDelta
<1> HIDE DEF v
<1>3. Len(v) = m + 1 /\ m > 0
  <2>1. v \in Seq(Written)
    BY FinalWritten DEF Streaming, v
  <2>2. DOMAIN v = 1..Len(v) /\ Len(v) \in Nat
    BY <2>1, LenProperties
  <2>3. m \in 1..Len(v) /\ m + 1 \in 1..Len(v)
    BY <1>1, <2>2
  <2>4. Len(v) \in 1..Len(v)
    BY <2>2, <2>3
  <2>5. Len(v) \in 1 .. m + 1
    BY <1>1, <2>2, <2>4
  <2>6. m \in Nat /\ m + 1 \in Nat
    BY <1>1
  <2>7. m + 1 <= Len(v) /\ m > 0
    BY <2>2, <2>3
  <2>8. Len(v) <= m + 1
    BY <2>2, <2>5, <2>6
  <2>9. Len(v) \in Nat
    BY <2>2
  <2>10. Len(v) = m + 1
    BY <2>6, <2>7, <2>8, <2>9
  <2>11. QED
    BY <2>7, <2>10
<1>4. /\ At(v, "message_start") = At(wire, "message_start")
      /\ At(v, "block_start") = At(wire, "block_start")
      /\ At(v, "text_delta") = At(wire, "text_delta")
      /\ At(v, "block_stop") = IF st.textBlockOpen THEN {m - 1} ELSE {}
      /\ At(v, "message_delta") = {m}
      /\ At(v, "message_stop") = {m + 1}
  BY SMTT(30), <1>1, <1>2 DEF At, Talking
<1>5. /\ \A i \in At(wire, "block_start") \cup At(wire, "text_delta") :
           i \in Nat /\ i < m /\ (st.textBlockOpen => i < m - 1)
      /\ At(wire, "block_start") # {} <=> st.textBlockOpen
  BY <1>1 DEF At, Talking
<1>6. At(v, "message_start") = IF st.started THEN {1} ELSE {}
  BY <1>4 DEF Talking
<1>7. \A type \in {"block_start", "block_stop", "message_delta", "message_stop"} :
        \A i, j \in At(v, type) : i = j
  BY <1>4 DEF Talking
<1>8. \A i \in At(v, "text_delta") : /\ \E j \in At(v, "block_start") : j < i
                                     /\ ~ \E j \in At(v, "block_stop") : j < i
  BY <1>4, <1>5 DEF Talking
<1>9. \A i \in At(v, "message_delta") :
        /\ (\E j \in At(v, "block_start") : j < i) <=> (\E j \in At(v, "block_stop") : j < i)
        /\ \A j \in i + 1 .. Len(v) : v[j].type \in {"message_stop", "json_error"}
  <2>1. CASE st.textBlockOpen
    <3>1. PICK k : k \in At(v, "block_start")
      BY <1>4, <1>5, <2>1
    <3>2. k < m /\ m - 1 < m
      BY <1>4, <1>5, <3>1
    <3>3. QED
      BY SMTT(30), <1>2, <1>3, <1>4, <2>1, <3>1, <3>2
  <2>2. CASE ~st.textBlockOpen
    BY <1>2, <1>3, <1>4, <1>5, <2>2
  <2>3. QED
    BY <2>1, <2>2
<1>10. \A i \in At(v, "message_stop") : i > 1 /\ v[i - 1].type = "message_delta"
  BY <1>2, <1>3, <1>4
<1>11. QED
  BY <1>6, <1>7, <1>8, <1>9, <1>10 DEF WellFormed, v

LEMMA WellBroken ==
    ASSUME NEW w \in Seq(Written), NEW started, WellFormed(w, started)
    PROVE  WellFormed(Append(w, JsonError), started)
<1> DEFINE v == Append(w, JsonError)
<1>1. JsonError \in Written /\ JsonError.type = "json_error"
  BY WrittenEvents
<1>2. /\ \A type : At(v, type) = IF JsonError.type = type THEN At(w, type) \cup {Len(w) + 1} ELSE At(w, type)
      /\ \A type : At(w, type) \subseteq 1..Len(w)
      /\ Len(w) \in Nat /\ DOMAIN w = 1..Len(w)
      /\ \A i \in DOMAIN w : v[i] = w[i]
      /\ v[Len(w) + 1] = JsonError
  BY <1>1, AtAppended, AppendedBehind
<1>3. Len(v) = Len(w) + 1
  BY <1>1, Appended
<1> HIDE DEF v
<1>4. \A type \in {"message_start", "block_start", "block_stop", "text_delta", "message_delta",
                   "message_stop"} : At(v, type) = At(w, type)
  BY <1>1, <1>2
<1>5. \A i \in At(w, "message_delta") : \A j \in i + 1 .. Len(v) :
        v[j].type \in {"message_stop", "json_error"}
  <2>1. TAKE i \in At(w, "message_delta")
  <2>2. TAKE j \in i + 1 .. Len(v)
  <2>3. i \in 1..Len(w)
    BY <1>2
  <2>4. CASE j \in i + 1 .. Len(w)
    BY <1>2, <2>3, <2>4 DEF WellFormed
  <2>5. CASE j = Len(w) + 1
    BY <1>1, <1>2, <2>5
  <2>6. QED
    BY <1>2, <1>3, <2>3, <2>4, <2>5
<1>6. \A i \in At(w, "message_stop") : i > 1 /\ v[i - 1].type = "message_delta"
  <2>1. TAKE i \in At(w, "message_stop")
  <2>2. i \in 1..Len(w) /\ i > 1 /\ w[i - 1].type = "message_delta"
    BY <1>2 DEF WellFormed
  <2>3. i - 1 \in DOMAIN w
    BY <1>2, <2>2
  <2>4. QED
    BY <1>2, <2>2, <2>3
<1>7. QED
  BY <1>4, <1>5, <1>6 DEF WellFormed, v

NoPart == ~ \E i \in DOMAIN read : read[i].type = "chunk" /\ read[i].part

Speaks ==
    streamClient = "anthropic" /\ NoPart =>
      /\ st.started <=> Stream!Has(read, "chunk")
      /\ IF phase = "open" /\ ~DoneRead
           THEN Talking(wire, st.started, st.textBlockOpen)
           ELSE WellFormed(wire, st.started)

LEMMA SpeaksTold == Speaks => TextStreamsWellFormed
<1>1. SUFFICES ASSUME Speaks, streamClient = "anthropic", NoPart
               PROVE  TextStreamsWellFormed
  BY DEF TextStreamsWellFormed, Stream!TextStreamsWellFormed, NoPart
<1>2. WellFormed(wire, st.started) /\ (st.started <=> Stream!Has(read, "chunk"))
  BY <1>1, TalkingWell DEF Speaks
<1>3. QED
  BY <1>2, Zenon DEF TextStreamsWellFormed, Stream!TextStreamsWellFormed, WellFormed, At

LEMMA SpeaksFirst == Stream!Init => Speaks
BY DEF Stream!Init, Speaks, Talking, At, Stream!Has, DoneRead

LEMMA SpeaksStep ==
    ASSUME Streaming, Tells, Speaks, StreamStep \/ UNCHANGED streamVars
    PROVE  Speaks'
<1>1. SUFFICES ASSUME streamClient' = "anthropic", NoPart'
               PROVE  Speaks'
  BY DEF Speaks
<1>2. CASE (\E e : Arrives(e)) \/ Ends \/ UNCHANGED streamVars
  <2>1. /\ UNCHANGED <<streamClient, st, wire, read>>
        /\ DoneRead' <=> DoneRead
        /\ Stream!Has(read, "chunk")' <=> Stream!Has(read, "chunk")
        /\ NoPart' <=> NoPart
    BY <1>2 DEF Arrives, Ends, streamVars, DoneRead, NoPart, Stream!Has
  <2>2. phase # "open" => phase' # "open"
    BY <1>2 DEF Arrives, Ends, streamVars
  <2>3. QED
    BY <1>1, <2>1, <2>2, TalkingWell DEF Speaks
<1>3. ASSUME NEW e, Parses(e)
      PROVE  /\ phase = "open" /\ ~DoneRead /\ streamClient = "anthropic" /\ NoPart
             /\ st.started <=> Stream!Has(read, "chunk")
             /\ Talking(wire, st.started, st.textBlockOpen)
             /\ Stream!Has(read, "chunk")' <=> Stream!Has(read, "chunk") \/ e.type = "chunk"
             /\ DoneRead' <=> e.type = "[DONE]"
             /\ e.type = "chunk" => ~e.part
  <2>1. /\ \A i \in DOMAIN read : i \in DOMAIN read' /\ read'[i] = read[i]
        /\ \A i \in DOMAIN read' : (i \in DOMAIN read /\ read'[i] = read[i]) \/ read'[i] = e
        /\ \E i \in DOMAIN read' : read'[i] = e
    BY <1>3, ReadMore
  <2>2. NoPart /\ (e.type = "chunk" => ~e.part)
    BY <1>1, <2>1 DEF NoPart
  <2>3. phase = "open" /\ streamClient = "anthropic" /\ buf # <<>>
    BY <1>1, <1>3, ReadMore DEF Parses
  <2>4. ~DoneRead /\ (DoneRead' <=> e.type = "[DONE]")
    BY <1>3, <2>3, ReadMore DEF Tells, TellsAnthropic
  <2>5. Stream!Has(read, "chunk")' <=> Stream!Has(read, "chunk") \/ e.type = "chunk"
    BY <2>1 DEF Stream!Has
  <2>6. QED
    BY <2>2, <2>3, <2>4, <2>5 DEF Speaks
<1>4. ASSUME NEW e, ParsesChunk(e)
      PROVE  Speaks'
  <2>1. Parses(e) /\ e \in Chunk /\ e.type = "chunk" /\ (e.args => e.part) /\ wire' = Argued(wire, e)
    BY <1>4 DEF ParsesChunk, Chunk
  <2>2. st'.started = TRUE /\ st'.textBlockOpen = (st.textBlockOpen \/ e.text)
    BY <1>4 DEF ParsesChunk, Stream!StateAfter
  <2>3. Talking(wire', st'.started, st'.textBlockOpen)
    BY <1>3, <2>1, <2>2, TalkingOn
  <2>4. QED
    BY <1>3, <2>1, <2>2, <2>3, TalkingWell DEF Speaks
<1>5. ASSUME NEW e, ParsesDone(e)
      PROVE  Speaks'
  <2>1. Parses(e) /\ e.type = "[DONE]" /\ wire' = Stopped(wire) /\ st' = st
    BY <1>5 DEF ParsesDone
  <2>2. WellFormed(wire', st'.started)
    BY <1>3, <2>1, TalkingStops
  <2>3. QED
    BY <1>3, <2>1, <2>2 DEF Speaks
<1>6. ASSUME NEW e, ParsesNothing(e)
      PROVE  Speaks'
  <2>1. Parses(e) /\ e.type = "no_choices" /\ wire' = wire /\ st' = st
    BY <1>6 DEF ParsesNothing
  <2>2. QED
    BY <1>3, <2>1, TalkingWell DEF Speaks
<1>7. CASE Breaks
  <2>1. /\ UNCHANGED <<streamClient, st, read>> /\ phase' # "open"
        /\ wire' = Append(wire, JsonError)
        /\ Stream!Has(read, "chunk")' <=> Stream!Has(read, "chunk")
        /\ NoPart' <=> NoPart
    BY <1>7 DEF Breaks, NoPart, Stream!Has
  <2>2. WellFormed(wire, st.started) /\ (st.started <=> Stream!Has(read, "chunk"))
    BY <1>1, <2>1, TalkingWell DEF Speaks
  <2>3. WellFormed(wire', st.started)
    BY <2>1, <2>2, WellBroken DEF Streaming
  <2>4. QED
    BY <2>1, <2>2, <2>3 DEF Speaks
<1>8. QED
  <2>1. ~ \E e : ParsesEvent(e)
    BY <1>1 DEF ParsesEvent, Parses
  <2>2. QED
    BY <1>2, <1>4, <1>5, <1>6, <1>7, <2>1 DEF StreamStep

(* ConvertedStream: without calls an Anthropic client gets a message by    *)
(* its protocol, however far it gets.                                      *)
THEOREM TextStreamsAlwaysWellFormed == Spec => []TextStreamsWellFormed
<1> DEFINE I == Streaming /\ Tells /\ Speaks
<1>1. Stream!Init => I
  BY StreamingFirst, TellsFirst, SpeaksFirst
<1>2. I /\ [Stream!Next]_streamVars => I'
  BY StreamSteps, StreamingStep, TellsStep, SpeaksStep
<1>3. I => TextStreamsWellFormed
  BY SpeaksTold
<1>4. QED
  BY <1>1, <1>2, <1>3, StreamRuns, PTL

----------------------------------------------------------------------------
(* The types of a converted stream.  Beyond those of the events: what was  *)
(* parsed and what waits are as many as the upstream sent, and numbered.   *)
StreamTyped ==
    /\ Streaming
    /\ upstream.sent <= MaxEvents
    /\ Len(read) + Len(buf) = upstream.sent
    /\ \A i \in 1..Len(read) : read[i].n = i
    /\ buf # <<>> => buf[1].n = upstream.sent
    /\ phase \in {"open", "ended", "cut", "broken"}
    /\ phase = "ended" => buf = <<>>

LEMMA EventsNumbered ==
    ASSUME Streaming, NEW e \in Stream!UpstreamEvents
    PROVE  e[1].n = Stream!N /\ e[2].sent = Stream!N
<1>1. CASE streamClient = "anthropic"
  <2>1. upstream \in Progress
    BY <1>1 DEF Streaming, Far
  <2>2. \A at : /\ Stream!Moved(at).sent = Stream!N
                /\ \A c : [Stream!Moved(at) EXCEPT !.called = @ \cup {c}].sent = Stream!N
    BY <2>1 DEF Progress, Stream!Moved
  <2>3. \A text, call, args, reason : Stream!Chunk(text, call, args, reason).n = Stream!N
    BY DEF Stream!Chunk
  <2>4. \/ e = Stream!TextChunk \/ e = Stream!NoChoices \/ e = Stream!DoneLine
        \/ \E r \in Stream!OpenAIReasons : e = Stream!LastChunk(r)
        \/ \E c \in Calls : \E carries \in {"no_args", "args", "both"} : e = Stream!CallChunk(c, carries)
    BY <1>1 DEF Stream!UpstreamEvents, Stream!OpenAIEvents
  <2>5. CASE e = Stream!TextChunk \/ \E r \in Stream!OpenAIReasons : e = Stream!LastChunk(r)
    <3>1. \/ e = <<Stream!Chunk(TRUE, NoCall, FALSE, Stream!NoReason), Stream!Moved("talking")>>
          \/ \E r : e = <<Stream!Chunk(FALSE, NoCall, FALSE, r), Stream!Moved("finished")>>
      BY <2>5, Zenon DEF Stream!TextChunk, Stream!LastChunk
    <3>2. PICK chunk, to : e = <<chunk, to>> /\ chunk.n = Stream!N /\ to.sent = Stream!N
      BY <2>2, <2>3, <3>1, Zenon
    <3>3. QED
      BY <3>2
  <2>6. CASE e = Stream!NoChoices \/ e = Stream!DoneLine
    BY <2>2, <2>6 DEF Stream!NoChoices, Stream!DoneLine
  <2>7. CASE \E c \in Calls : \E carries \in {"no_args", "args", "both"} : e = Stream!CallChunk(c, carries)
    <3>1. PICK c \in Calls, carries \in {"no_args", "args", "both"} : e = Stream!CallChunk(c, carries)
      BY <2>7
    <3> DEFINE chunk == Stream!Chunk(carries = "both", c, carries # "no_args", Stream!NoReason)
               to == [Stream!Moved("talking") EXCEPT !.called = @ \cup {c}]
    <3>2. chunk.n = Stream!N /\ to.sent = Stream!N
      BY <2>2, <2>3
    <3> HIDE DEF chunk, to
    <3>3. e = <<chunk, to>>
      BY <3>1, Zenon DEF Stream!CallChunk, chunk, to
    <3>4. QED
      BY <3>2, <3>3
  <2>8. QED
    BY <2>4, <2>5, <2>6, <2>7
<1>2. CASE streamClient # "anthropic"
  <2> DEFINE Event(type) == [type |-> type, n |-> Stream!N]
             Reason(r) == [type |-> "message_delta", n |-> Stream!N, reason |-> r]
             To(at) == [upstream EXCEPT !.at = at, !.sent = Stream!N]
  <2>1. upstream \in BlockProgress
    BY <1>2 DEF Streaming, Far
  <2>2. \A at : To(at).sent = Stream!N
    BY <2>1 DEF BlockProgress
  <2>3. (\A type : Event(type).n = Stream!N) /\ \A r : Reason(r).n = Stream!N
    OBVIOUS
  <2>4. \/ \E type, at : e = <<Event(type), To(at)>>
        \/ \E r : e = <<Reason(r), To("finished")>>
    BY <1>2 DEF Stream!UpstreamEvents, Stream!AnthropicEvents
  <2> HIDE DEF Event, Reason, To
  <2>5. QED
    BY <2>2, <2>3, <2>4
<1>3. QED
  BY <1>1, <1>2

LEMMA StreamTypedFirst == Stream!Init => StreamTyped
<1>1. MaxEvents \in Nat
  BY RequestPathAssumption
<1>2. QED
  BY <1>1, StreamingFirst, EmptySeq DEF Stream!Init, StreamTyped

LEMMA StreamTypedStep ==
    ASSUME StreamTyped, [Stream!Next]_streamVars
    PROVE  StreamTyped'
<1>0. /\ MaxEvents \in Nat /\ upstream.sent \in Nat /\ Len(read) \in Nat
      /\ read \in Seq(SentTo(streamClient)) /\ Streaming'
  BY RequestPathAssumption, LenProperties, StreamSteps, StreamingStep
     DEF StreamTyped, Streaming, Far, Progress, BlockProgress
<1>1. ASSUME NEW e \in Stream!UpstreamEvents, Stream!Data(e) \/ Stream!EndInLine(e)
      PROVE  StreamTyped'
  <2>1. /\ buf = <<>> /\ upstream.sent < MaxEvents /\ buf' = <<e[1]>> /\ upstream' = e[2]
        /\ phase' \in {"open", "cut"} /\ read' = read
    BY <1>1 DEF Stream!Data, Stream!EndInLine, StreamTyped
  <2>2. e[1].n = upstream.sent + 1 /\ e[2].sent = upstream.sent + 1
    BY EventsNumbered DEF StreamTyped, Stream!N
  <2>3. Len(buf) = 0 /\ Len(buf') = 1 /\ buf'[1] = e[1] /\ buf' # <<>>
    BY <2>1, EmptySeq
  <2>4. QED
    BY <1>0, <2>1, <2>2, <2>3 DEF StreamTyped
<1>2. ASSUME NEW e, Parses(e)
      PROVE  StreamTyped'
  <2>1. /\ e \in SentTo(streamClient) /\ buf = <<e>> /\ buf' = <<>>
        /\ read' = Append(read, e) /\ upstream' = upstream /\ phase' \in {"open", "ended"}
    BY <1>2 DEF Parses
  <2>2. Len(buf) = 1 /\ buf[1] = e /\ buf # <<>> /\ Len(buf') = 0
    BY <2>1, EmptySeq
  <2>3. /\ Len(read') = Len(read) + 1
        /\ \A i \in 1..Len(read) : read'[i] = read[i]
        /\ read'[Len(read) + 1] = e
    BY <1>0, <2>1, Appended
  <2>4. e.n = Len(read) + 1
    BY <2>2 DEF StreamTyped
  <2>5. \A i \in 1..Len(read') : read'[i].n = i
    BY <1>0, <2>3, <2>4 DEF StreamTyped
  <2>6. QED
    BY <1>0, <2>1, <2>2, <2>3, <2>5 DEF StreamTyped
<1>3. CASE Ends \/ Breaks
  BY <1>0, <1>3 DEF Ends, Breaks, StreamTyped
<1>4. CASE UNCHANGED streamVars
  BY <1>0, <1>4 DEF streamVars, StreamTyped
<1>5. CASE Stream!Blank \/ Stream!End \/ Stream!Break
  <2>1. StreamStep \/ UNCHANGED streamVars
    BY StreamSteps DEF StreamTyped
  <2>2. ASSUME NEW e, Arrives(e) PROVE FALSE
    <3>1. buf = <<>> /\ buf' = <<e[1]>>
      BY <2>2 DEF Arrives
    <3>2. buf' # <<>>
      BY <3>1
    <3>3. buf' = buf
      BY <1>5, <3>1 DEF Stream!Blank, Stream!End, Stream!Break
    <3>4. QED
      BY <3>1, <3>2, <3>3
  <2>3. QED
    BY <1>2, <1>3, <1>4, <2>1, <2>2
       DEF StreamStep, ParsesChunk, ParsesDone, ParsesNothing, ParsesEvent
<1>6. QED
  BY <1>1, <1>4, <1>5 DEF Stream!Next

(* ConvertedStream: every variable keeps its type, and the events that     *)
(* were parsed are those the upstream sent, without a gap.                 *)
THEOREM StreamAlwaysTyped == Spec => []Stream!TypeOK
<1>1. StreamTyped => Stream!TypeOK
  <2> SUFFICES ASSUME StreamTyped PROVE Stream!TypeOK
    OBVIOUS
  <2>1. /\ streamClient \in {"anthropic", "openai"}
        /\ upstream.at \in {"start", "talking", "between", "text", "tool", "finished", "over"}
        /\ upstream.sent \in Nat /\ upstream.called \subseteq Calls
    BY DEF StreamTyped, Streaming, Far, Progress, BlockProgress
  <2>2. upstream.sent \in 0..MaxEvents
    BY <2>1, RequestPathAssumption DEF StreamTyped
  <2>3. st \in [started: BOOLEAN, textBlockOpen: BOOLEAN,
                finishReason: Stream!OpenAIReasons \cup {Stream!NoReason}]
    BY DEF StreamTyped, Streaming, FinishReasons
  <2> DEFINE both == read \o buf
  <2>4. Len(buf) \in {0, 1}
    BY EmptySeq DEF StreamTyped, Streaming
  <2>5. DOMAIN both = 1..upstream.sent /\ \A i \in 1..upstream.sent : both[i].n = i
    <3>1. read \in Seq(SentTo(streamClient)) /\ Len(read) \in Nat
      BY LenProperties DEF StreamTyped, Streaming
    <3>2. CASE buf = <<>>
      <4>1. both = read /\ Len(read) = upstream.sent
        BY <3>1, <3>2, EmptySeq, ConcatEmptySeq DEF StreamTyped
      <4>2. QED
        BY <3>1, <4>1, LenProperties DEF StreamTyped
    <3>3. CASE buf # <<>>
      <4>1. PICK e \in SentTo(streamClient) : buf = <<e>>
        BY <3>3 DEF StreamTyped, Streaming
      <4>2. /\ both = Append(read, e) /\ Len(read) + 1 = upstream.sent /\ e.n = upstream.sent
        BY <3>1, <3>3, <4>1, AppendIsConcat DEF StreamTyped
      <4> HIDE DEF both
      <4>3. /\ DOMAIN both = 1 .. Len(read) + 1 /\ \A i \in 1..Len(read) : both[i] = read[i]
            /\ both[Len(read) + 1] = e
        BY <3>1, <4>1, <4>2, Appended
      <4>4. QED
        BY <3>1, <4>2, <4>3 DEF StreamTyped
    <3>4. QED
      BY <3>2, <3>3
  <2> HIDE DEF both
  <2>6. [i \in DOMAIN both |-> both[i].n] = [i \in 1..upstream.sent |-> i]
    BY <2>5
  <2>7. Stream!Numbers(read \o buf) = [i \in 1..upstream.sent |-> i]
    BY <2>6 DEF both, Stream!Numbers
  <2>8. Len(buf) <= 1
    BY <2>4
  <2>9. phase \in {"open", "ended", "cut", "broken"} /\ (phase = "ended" => buf = <<>>)
    BY DEF StreamTyped
  <2>10. QED
    BY <2>1, <2>2, <2>3, <2>7, <2>8, <2>9, Zenon DEF Stream!TypeOK
<1>2. QED
  BY <1>1, StreamTypedFirst, StreamTypedStep, StreamRuns, PTL

----------------------------------------------------------------------------
(* KeySelect.  A snapshot of a quota.                                      *)
Snapshot == [rem: Levels \cup {0}, seen: 0..MaxSeconds]

LEMMA SnapshotsAreNumbers ==
    \A q \in Snapshot : q.rem \in Nat /\ q.seen \in Nat
<1>1. Levels \subseteq Nat /\ MaxSeconds \in Nat
  BY RequestPathAssumption
<1>2. \A x \in Levels \cup {0} : x \in Nat
  BY <1>1
<1>3. ASSUME NEW q \in Snapshot PROVE q.rem \in Nat /\ q.seen \in Nat
  <2>1. q.rem \in Levels \cup {0} /\ q.seen \in 0..MaxSeconds
    BY DEF Snapshot
  <2>2. q.rem \in Nat
    BY <1>2, <2>1
  <2>3. q.seen \in Nat
    BY <2>1
  <2>4. QED
    BY <2>2, <2>3
<1>4. QED
  BY <1>3

(* Keys are listed in their order.                                         *)
LEMMA KeysInOrder ==
    ASSUME NEW S \in SUBSET Keys
    PROVE  /\ Select!InOrder(S) \in Seq(S)
           /\ Len(Select!InOrder(S)) = Cardinality(S)
           /\ \A x \in S : \E i \in DOMAIN Select!InOrder(S) : Select!InOrder(S)[i] = x
           /\ \A i, j \in DOMAIN Select!InOrder(S) : i < j => Select!InOrder(S)[i] < Select!InOrder(S)[j]
<1> DEFINE R == {r \in Nat \X Nat : r[1] < r[2]}
<1>1. IsFiniteSet(S) /\ Cardinality(S) \in Nat /\ S \subseteq Nat
  BY RequestPathAssumption, FS_Subset, FS_CardinalityType
<1>2. Orders(R, S)
  BY <1>1 DEF Orders
<1>3. \A s : Lists(s, R, S) <=> /\ s \in [1..Cardinality(S) -> S]
                                 /\ \A i, j \in DOMAIN s : i < j => s[i] < s[j]
  BY <1>1 DEF Lists
<1>4. \E s : Lists(s, R, S)
  BY <1>1, <1>2, Listed
<1>5. Lists(Select!InOrder(S), R, S)
  <2>1. \E s \in [1..Cardinality(S) -> S] : \A i, j \in DOMAIN s : i < j => s[i] < s[j]
    BY <1>3, <1>4
  <2>0. Cardinality(S) = Select!Cardinality(S)
    BY Zenon DEF Cardinality, Select!Cardinality
  <2>2. Select!InOrder(S) = CHOOSE s \in [1..Cardinality(S) -> S] :
                               \A i, j \in DOMAIN s : i < j => s[i] < s[j]
    BY <2>0, Zenon DEF Select!InOrder
  <2> HIDE DEF R
  <2>3. QED
    BY <1>3, <2>1, <2>2, Zenon
<1>6. \A x \in S : \E i \in 1..Cardinality(S) : Select!InOrder(S)[i] = x
  BY <1>1, <1>2, <1>5, ListsAll
<1>7. Select!InOrder(S) \in [1..Cardinality(S) -> S]
  BY <1>5 DEF Lists
<1> HIDE DEF R
<1>8. Select!InOrder(S) \in Seq(S) /\ Len(Select!InOrder(S)) = Cardinality(S)
  BY <1>1, <1>7, SeqDef, LenProperties
<1>9. \A i, j \in DOMAIN Select!InOrder(S) : i < j => Select!InOrder(S)[i] < Select!InOrder(S)[j]
  BY <1>3, <1>5, Zenon
<1>10. QED
  BY <1>6, <1>7, <1>8, <1>9

(* What the sort compares: what remains, when it was seen, and the place.  *)
Ranked(r, s, i, q, t, j) ==
    \/ r > q \/ (r = q /\ s > t)
    \/ ~(q > r \/ (q = r /\ t > s)) /\ i < j

LEMMA RanksChain ==
    ASSUME NEW a1 \in Nat, NEW a2 \in Nat, NEW a3 \in Nat, NEW b1 \in Nat, NEW b2 \in Nat,
           NEW b3 \in Nat, NEW c1 \in Nat, NEW c2 \in Nat, NEW c3 \in Nat,
           Ranked(a1, a2, a3, b1, b2, b3), Ranked(b1, b2, b3, c1, c2, c3)
    PROVE  Ranked(a1, a2, a3, c1, c2, c3)
BY DEF Ranked

(* The order of the sort is total, so that the sort says who is first,     *)
(* and names everybody.                                                    *)
LEMMA ScoresSorted ==
    ASSUME NEW scores \in Seq(Snapshot), NEW p, p = Select!Sorted(scores)
    PROVE  /\ p \in [1..Len(scores) -> 1..Len(scores)]
           /\ Len(p) = Len(scores)
           /\ \A i, j \in 1..Len(scores) : i < j => Select!Before(scores, p[i], p[j])
           /\ \A x \in 1..Len(scores) : \E i \in 1..Len(scores) : p[i] = x
<1> DEFINE n == Len(scores)
           R == {r \in (1..n) \X (1..n) : Select!Before(scores, r[1], r[2])}
<1>1. n \in Nat /\ DOMAIN scores = 1..n /\ IsFiniteSet(1..n) /\ Cardinality(1..n) = n
  <2>1. n \in Nat /\ DOMAIN scores = 1..n
    BY LenProperties
  <2> HIDE DEF n
  <2>2. IsFiniteSet(1..n) /\ Cardinality(1..n) = IF 1 > n THEN 0 ELSE n - 1 + 1
    BY <2>1, FS_Interval
  <2>3. QED
    BY <2>1, <2>2
<1>2. \A i \in 1..n : scores[i].rem \in Nat /\ scores[i].seen \in Nat /\ i \in Nat
  <2>1. \A i \in 1..n : scores[i] \in Snapshot
    BY ElementOfSeq
  <2>2. QED
    BY <2>1, SnapshotsAreNumbers
<1>3. Orders(R, 1..n)
  <2>1. ASSUME NEW i \in 1..n, NEW j \in 1..n, i # j PROVE <<i, j>> \in R \/ <<j, i>> \in R
    BY <1>2, <2>1 DEF Select!Before, Select!Ahead
  <2>2. ASSUME NEW i \in 1..n PROVE <<i, i>> \notin R
    BY <1>2 DEF Select!Before, Select!Ahead
  <2>3. ASSUME NEW i \in 1..n, NEW j \in 1..n, NEW k \in 1..n, <<i, j>> \in R, <<j, k>> \in R
        PROVE  <<i, k>> \in R
    <3>1. Select!Before(scores, i, j) /\ Select!Before(scores, j, k)
      BY <2>3
    <3> DEFINE a == scores[i]
               b == scores[j]
               c == scores[k]
    <3>2. /\ a.rem \in Nat /\ a.seen \in Nat /\ b.rem \in Nat /\ b.seen \in Nat
          /\ c.rem \in Nat /\ c.seen \in Nat /\ i \in Nat /\ j \in Nat /\ k \in Nat
      BY <1>2
    <3>3. /\ Ranked(a.rem, a.seen, i, b.rem, b.seen, j)
          /\ Ranked(b.rem, b.seen, j, c.rem, c.seen, k)
      BY <3>1, Zenon DEF Select!Before, Select!Ahead, Ranked
    <3> HIDE DEF a, b, c
    <3>4. Ranked(a.rem, a.seen, i, c.rem, c.seen, k)
      BY <3>2, <3>3, RanksChain
    <3>5. Select!Before(scores, i, k)
      BY <3>4, Zenon DEF Select!Before, Select!Ahead, Ranked, a, b, c
    <3>6. QED
      BY <3>5
  <2> HIDE DEF R, n
  <2>4. QED
    BY <2>1, <2>2, <2>3, Zenon DEF Orders
<1>4. ASSUME NEW s
      PROVE  Lists(s, R, 1..n) <=> /\ s \in [1..n -> 1..n]
                                   /\ \A i, j \in DOMAIN s : i < j => Select!Before(scores, s[i], s[j])
  <2>1. ASSUME s \in [1..n -> 1..n]
        PROVE  \A i, j \in 1..n : <<s[i], s[j]>> \in R <=> Select!Before(scores, s[i], s[j])
    BY <2>1
  <2> HIDE DEF R, n
  <2>2. QED
    BY <1>1, <2>1 DEF Lists
<1>5. \E s : Lists(s, R, 1..n)
  <2> HIDE DEF R, n
  <2>1. QED
    BY <1>1, <1>3, Listed
<1>6. Lists(p, R, 1..n)
  <2>1. \E s \in [1..n -> 1..n] : \A i, j \in DOMAIN s : i < j => Select!Before(scores, s[i], s[j])
    BY <1>4, <1>5
  <2>2. p = CHOOSE s \in [1..n -> 1..n] :
              \A i, j \in DOMAIN s : i < j => Select!Before(scores, s[i], s[j])
    BY <1>1, Zenon DEF Select!Sorted
  <2> HIDE DEF R, n
  <2>3. QED
    BY <1>4, <2>1, <2>2, Zenon
<1>7. \A x \in 1..n : \E i \in 1..n : p[i] = x
  <2> DEFINE D == 1..n
  <2>1. IsFiniteSet(D) /\ Cardinality(D) = n /\ Orders(R, D) /\ Lists(p, R, D)
    BY <1>1, <1>3, <1>6
  <2> HIDE DEF R, n, D
  <2>2. \A x \in D : \E i \in 1..Cardinality(D) : p[i] = x
    BY <2>1, ListsAll
  <2> USE DEF D
  <2>3. QED
    BY <2>1, <2>2
<1>8. p \in [1..n -> 1..n] /\ \A i, j \in 1..n : i < j => Select!Before(scores, p[i], p[j])
  BY <1>4, <1>6
<1>9. Len(p) = n
  BY <1>1, <1>8, SeqDef, LenProperties
<1>10. QED
  BY <1>7, <1>8, <1>9

(* A behaviour of the product is one of the selection, with stuttering.    *)
LEMMA SelectRuns == Spec => Select!Init /\ [][Select!Next]_selectVars
<1>1. Init => Select!Init
  BY DEF Init
<1>2. [Next]_vars => [Select!Next]_selectVars
  BY DEF Next, vars
<1>3. QED
  BY <1>1, <1>2, PTL DEF Spec

(* Every key that a Pick has read of has the snapshot it read, or was      *)
(* touched; the keys it considers stay available.                          *)
Considered ==
    /\ up \subseteq Keys /\ now \in 1..MaxSeconds /\ touched \subseteq Keys
    /\ quota \in [Keys -> Snapshot]
    /\ pick \in [pc: {"idle", "reading"}, avail: Seq(Keys), scores: Seq(Snapshot), key: Nat]
    /\ Len(pick.scores) <= Len(pick.avail)
    /\ pick.pc = "reading" =>
         \A i \in 1..Len(pick.avail) :
           /\ pick.avail[i] \in up
           /\ i <= Len(pick.scores) =>
                pick.avail[i] \in touched \/ pick.scores[i] = quota[pick.avail[i]]

LEMMA PickTypes ==
    ASSUME Considered
    PROVE  /\ Len(pick.avail) \in Nat /\ DOMAIN pick.avail = 1..Len(pick.avail)
           /\ Len(pick.scores) \in Nat /\ DOMAIN pick.scores = 1..Len(pick.scores)
           /\ pick.avail \in Seq(Keys) /\ pick.scores \in Seq(Snapshot)
BY LenProperties DEF Considered

LEMMA BeginsConsidering ==
    ASSUME Considered, Select!BeginPick
    PROVE  Considered'
<1> DEFINE s == Select!InOrder(up)
<1>1. up \in SUBSET Keys
  BY DEF Considered
<1>2. s \in Seq(up) /\ s \in Seq(Keys)
  BY <1>1, KeysInOrder, SeqMonotonic
<1>3. \A i \in 1..Len(s) : s[i] \in up
  BY <1>2, ElementOfSeq
<1>4. <<>> \in Seq(Snapshot) /\ Len(<<>>) = 0 /\ Len(s) \in Nat
  BY <1>2, EmptySeq, LenProperties
<1>5. pick' = [pc |-> "reading", avail |-> s, scores |-> <<>>, key |-> 0]
  BY DEF Select!BeginPick
<1> HIDE DEF s
<1>6. /\ pick'.avail = s /\ pick'.scores = <<>> 
      /\ pick' \in [pc: {"idle", "reading"}, avail: Seq(Keys), scores: Seq(Snapshot), key: Nat]
  BY <1>2, <1>4, <1>5
<1>7. Len(pick'.scores) <= Len(pick'.avail) /\ \A i \in 1..Len(pick'.avail) : ~(i <= Len(pick'.scores))
  BY <1>4, <1>6
<1>8. UNCHANGED <<up, now, quota>> /\ touched' = {}
  BY DEF Select!BeginPick
<1>9. QED
  BY <1>3, <1>6, <1>7, <1>8 DEF Considered

LEMMA ReadsConsidering ==
    ASSUME Considered, NEW fails \in BOOLEAN, Select!ReadQuota(fails)
    PROVE  Considered'
<1> DEFINE n == Len(pick.scores)
           k == pick.avail[n + 1]
           q == IF fails THEN Select!NoQuota ELSE quota[k]
           t == Append(pick.scores, q)
<1>1. /\ n \in Nat /\ Len(pick.avail) \in Nat /\ n < Len(pick.avail) /\ pick.pc = "reading"
      /\ pick' = [pick EXCEPT !.scores = t]
      /\ touched' = IF fails THEN touched \cup {k} ELSE touched
      /\ UNCHANGED <<up, now, quota>>
  BY PickTypes DEF Select!ReadQuota
<1>2. k \in Keys /\ n + 1 \in 1..Len(pick.avail)
  <2>1. n + 1 \in 1..Len(pick.avail)
    BY <1>1
  <2>2. QED
    BY <2>1, PickTypes, ElementOfSeq
<1>3. q \in Snapshot
  <2>1. Select!NoQuota \in Snapshot
    BY RequestPathAssumption DEF Select!NoQuota, Snapshot
  <2>2. QED
    BY <1>2, <2>1 DEF Considered
<1> HIDE DEF q
<1>4. /\ t \in Seq(Snapshot) /\ Len(t) = n + 1 /\ t[n + 1] = q
      /\ \A i \in 1..n : t[i] = pick.scores[i]
  BY <1>3, PickTypes, Appended
<1>5. k \in touched' \/ q = quota[k]
  BY <1>1 DEF q
<1> HIDE DEF t, k, n
<1>6. /\ pick'.scores = t /\ pick'.avail = pick.avail
      /\ pick' \in [pc: {"idle", "reading"}, avail: Seq(Keys), scores: Seq(Snapshot), key: Nat]
  BY <1>1, <1>4 DEF Considered
<1>7. touched \subseteq touched' /\ touched' \subseteq Keys
  BY <1>1, <1>2 DEF Considered
<1>8. ASSUME NEW i \in 1..Len(pick.avail)
      PROVE  /\ pick.avail[i] \in up
             /\ i <= n + 1 => pick.avail[i] \in touched' \/ t[i] = quota[pick.avail[i]]
  <2>1. pick.avail[i] \in up /\ (i <= n => pick.avail[i] \in touched \/ pick.scores[i] = quota[pick.avail[i]])
    BY <1>1 DEF Considered, n
  <2>2. CASE i <= n
    BY <1>1, <1>4, <1>7, <2>1, <2>2
  <2>3. CASE i = n + 1
    BY <1>4, <1>5, <2>1, <2>3 DEF k
  <2>4. QED
    BY <1>1, <2>1, <2>2, <2>3
<1>9. QED
  BY <1>1, <1>4, <1>6, <1>7, <1>8 DEF Considered

LEMMA RecordsConsidering ==
    ASSUME Considered, NEW k \in Keys, NEW remaining \in Levels \cup {0}, NEW more,
           Select!RecordQuota(k, remaining, more)
    PROVE  Considered'
<1>1. UNCHANGED <<up, now, pick>>
  BY DEF Select!RecordQuota
<1>2. CASE UNCHANGED <<quota, touched>>
  BY <1>1, <1>2 DEF Considered
<1>3. CASE quota' = [quota EXCEPT ![k] = [rem |-> remaining, seen |-> now]] /\ touched' = touched \cup {k}
  <2>1. [rem |-> remaining, seen |-> now] \in Snapshot
    BY RequestPathAssumption DEF Considered, Snapshot
  <2>2. quota' \in [Keys -> Snapshot] /\ touched' \subseteq Keys
    BY <1>3, <2>1 DEF Considered
  <2>3. \A j \in Keys : j \in touched' \/ quota'[j] = quota[j]
    BY <1>3 DEF Considered
  <2>4. \A i \in 1..Len(pick.avail) : pick.avail[i] \in Keys
    BY PickTypes, ElementOfSeq
  <2>5. QED
    BY <1>1, <1>3, <2>2, <2>3, <2>4 DEF Considered
<1>4. QED
  BY <1>2, <1>3 DEF Select!RecordQuota

LEMMA ConsideredAlways == Spec => []Considered
<1>1. Select!Init => Considered
  <2>1. SUFFICES ASSUME Select!Init PROVE Considered
    OBVIOUS
  <2>2. Select!NoQuota \in Snapshot /\ 1 \in 1..MaxSeconds
    <3>1. MaxSeconds \in Nat \ {0}
      BY RequestPathAssumption
    <3>2. QED
      BY <3>1 DEF Select!NoQuota, Snapshot
  <2>3. quota \in [Keys -> Snapshot]
    BY <2>1, <2>2 DEF Select!Init
  <2>4. /\ pick.scores = <<>> /\ pick.avail = <<>> /\ pick.pc = "idle"
        /\ pick \in [pc: {"idle", "reading"}, avail: Seq(Keys), scores: Seq(Snapshot), key: Nat]
    BY <2>1, EmptySeq DEF Select!Init
  <2>5. QED
    BY <2>1, <2>2, <2>3, <2>4, EmptySeq DEF Select!Init, Considered
<1>2. Considered /\ [Select!Next]_selectVars => Considered'
  <2>1. SUFFICES ASSUME Considered, [Select!Next]_selectVars PROVE Considered'
    OBVIOUS
  <2>2. CASE UNCHANGED selectVars
    BY <2>1, <2>2 DEF selectVars, Considered
  <2>3. CASE Select!PickByCounter
    BY <2>1, <2>3 DEF Select!PickByCounter, Considered
  <2>4. CASE Select!BeginPick
    BY <2>1, <2>4, BeginsConsidering
  <2>5. CASE \E fails \in BOOLEAN : Select!ReadQuota(fails)
    BY <2>1, <2>5, ReadsConsidering
  <2>6. CASE \E i \in DOMAIN pick.scores : Select!ChooseKey(i)
    <3>1. PICK i \in DOMAIN pick.scores : Select!ChooseKey(i)
      BY <2>6
    <3>2. Len(pick.scores) = Len(pick.avail) /\ i \in 1..Len(pick.avail)
      BY <2>1, <3>1, PickTypes DEF Select!ChooseKey
    <3>3. pick.avail[i] \in Nat
      BY <2>1, <3>2, PickTypes, ElementOfSeq, RequestPathAssumption
    <3>4. pick' = [pc |-> "idle", avail |-> <<>>, scores |-> <<>>, key |-> pick.avail[i]]
      BY <3>1 DEF Select!ChooseKey
    <3>5. /\ pick' \in [pc: {"idle", "reading"}, avail: Seq(Keys), scores: Seq(Snapshot), key: Nat]
          /\ pick'.pc = "idle" /\ pick'.scores = <<>> /\ pick'.avail = <<>>
      BY <3>3, <3>4, EmptySeq
    <3>6. QED
      BY <2>1, <3>1, <3>5, EmptySeq DEF Select!ChooseKey, Considered
  <2>7. CASE \E k \in Keys, remaining \in Levels \cup {0}, more \in BOOLEAN :
               Select!RecordQuota(k, remaining, more)
    BY <2>1, <2>7, RecordsConsidering
  <2>8. CASE \E available \in SUBSET Keys : Select!ChangeAvailability(available)
    <3>1. PICK available \in SUBSET Keys : Select!ChangeAvailability(available)
      BY <2>8
    <3>2. up' \subseteq Keys /\ (pick.pc = "reading" => up \subseteq up')
      BY <3>1 DEF Select!ChangeAvailability
    <3>3. UNCHANGED <<now, touched, quota, pick>>
      BY <3>1 DEF Select!ChangeAvailability
    <3>4. QED
      BY <2>1, <3>2, <3>3 DEF Considered
  <2>9. CASE Select!NextSecond
    <3>1. now' \in 1..MaxSeconds
      BY <2>1, <2>9, RequestPathAssumption DEF Select!NextSecond, Considered
    <3>2. UNCHANGED <<up, touched, quota, pick>>
      BY <2>9 DEF Select!NextSecond
    <3>3. QED
      BY <2>1, <3>1, <3>2 DEF Considered
  <2>10. QED
    BY <2>1, <2>2, <2>3, <2>4, <2>5, <2>6, <2>7, <2>8, <2>9 DEF Select!Next
<1>3. QED
  BY <1>1, <1>2, SelectRuns, PTL

(* The key that is chosen is first by its score, or second with at least   *)
(* 90% of the first.                                                       *)
LEMMA TopTierIsNearTop ==
    ASSUME NEW scores \in Seq(Snapshot), NEW i \in 1..Len(scores), i \in Select!TopTier(scores)
    PROVE  /\ \A x \in 1..Len(scores) : 10 * scores[i].rem >= 9 * scores[x].rem
           /\ \E f \in 1..Len(scores) : \A x \in 1..Len(scores) :
                Select!Ahead(scores[x], scores[i]) => x = f
<1> DEFINE p == Select!Sorted(scores)
           n == Len(scores)
<1>1. n \in Nat /\ DOMAIN scores = 1..n
  BY LenProperties
<1>2. \A x \in 1..n : scores[x].rem \in Nat /\ scores[x].seen \in Nat
  BY ElementOfSeq, SnapshotsAreNumbers
<1>3. /\ p \in [1..n -> 1..n] /\ Len(p) = n
      /\ \A x, y \in 1..n : x < y => Select!Before(scores, p[x], p[y])
      /\ \A x \in 1..n : \E y \in 1..n : p[y] = x
  BY ScoresSorted
<1>4. i = p[1] \/ (n > 1 /\ i = p[2] /\ 10 * scores[i].rem >= 9 * scores[p[1]].rem)
  BY <1>3 DEF Select!TopTier
<1> HIDE DEF p, n
<1>5. \A x, y \in 1..n : Select!Before(scores, x, y) =>
        scores[x].rem >= scores[y].rem /\ ~Select!Ahead(scores[y], scores[x])
  BY <1>2 DEF Select!Before, Select!Ahead
<1>6. 1 \in 1..n
  BY <1>1 DEF n
<1>7. \A x \in 1..n : scores[p[1]].rem >= scores[x].rem /\ ~Select!Ahead(scores[x], scores[p[1]])
  <2>1. SUFFICES ASSUME NEW x \in 1..n
        PROVE scores[p[1]].rem >= scores[x].rem /\ ~Select!Ahead(scores[x], scores[p[1]])
    OBVIOUS
  <2>2. PICK y \in 1..n : p[y] = x
    BY <1>3
  <2>3. CASE y = 1
    BY <1>2, <2>2, <2>3 DEF Select!Ahead
  <2>4. CASE y # 1
    <3>1. 1 < y
      BY <2>4
    <3>2. Select!Before(scores, p[1], x) /\ p[1] \in 1..n
      BY <1>3, <1>6, <2>2, <3>1
    <3>3. QED
      BY <1>5, <3>2
  <2>5. QED
    BY <2>3, <2>4
<1>8. CASE i = p[1]
  <2>1. \A x \in 1..n : 10 * scores[i].rem >= 9 * scores[x].rem
    <3>1. \A x \in 1..n : scores[i].rem >= scores[x].rem /\ scores[i].rem \in Nat /\ scores[x].rem \in Nat
      BY <1>2, <1>7, <1>8 DEF n
    <3>2. QED
      BY <3>1
  <2>2. QED
    BY <1>6, <1>7, <1>8, <2>1 DEF n
<1>9. CASE n > 1 /\ i = p[2] /\ 10 * scores[i].rem >= 9 * scores[p[1]].rem
  <2>1. p[1] \in 1..n /\ 2 \in 1..n
    BY <1>1, <1>3, <1>6, <1>9
  <2>2. ASSUME NEW x \in 1..n PROVE 10 * scores[i].rem >= 9 * scores[x].rem
    <3>1. scores[p[1]].rem >= scores[x].rem /\ scores[x].rem \in Nat /\ scores[p[1]].rem \in Nat
      BY <1>2, <1>7, <2>1 DEF n
    <3>2. scores[i].rem \in Nat
      BY <1>2 DEF n
    <3> DEFINE a == scores[i].rem
               b == scores[p[1]].rem
               c == scores[x].rem
    <3>3. a \in Nat /\ b \in Nat /\ c \in Nat /\ b >= c /\ 10 * a >= 9 * b
      BY <1>9, <3>1, <3>2
    <3> HIDE DEF a, b, c
    <3>4. 10 * a >= 9 * c
      BY <3>3
    <3>5. QED
      BY <3>4 DEF a, c
  <2>3. ASSUME NEW x \in 1..n, Select!Ahead(scores[x], scores[i]) PROVE x = p[1]
    <3>1. PICK y \in 1..n : p[y] = x
      BY <1>3
    <3>2. y # 2
      BY <1>2, <1>9, <2>3, <3>1 DEF Select!Ahead, n
    <3>3. ~(2 < y)
      <4>1. SUFFICES ASSUME 2 < y PROVE FALSE
        OBVIOUS
      <4>2. Select!Before(scores, i, x)
        BY <1>3, <1>9, <2>1, <3>1, <4>1
      <4>3. QED
        BY <1>5, <2>3, <4>2 DEF n
    <3>4. y = 1
      BY <3>2, <3>3
    <3>5. QED
      BY <3>1, <3>4
  <2>4. QED
    BY <2>1, <2>2, <2>3 DEF n
<1>10. QED
  BY <1>4, <1>8, <1>9

(* KeySelect: a quota-aware Pick takes no key that two others beat, and    *)
(* none with less than 90% of another, by the table as it is then, but for *)
(* snapshots that changed under it or could not be read.                   *)
THEOREM PicksRespectQuota == Spec => QuotaRespected
<1> DEFINE Respected ==
      LET known == Select!ToSet(pick.avail) \ touched
          k == pick'.key
      IN  /\ k \in up
          /\ k \in known =>
               /\ \A j \in known : 10 * quota[k].rem >= 9 * quota[j].rem
               /\ Select!Cardinality({j \in known : Select!Ahead(quota[j], quota[k])}) <= 1
<1>1. Considered /\ [Select!Next]_selectVars =>
        [pick.pc = "reading" /\ pick'.pc = "idle" => Respected]_selectVars
  <2>1. SUFFICES ASSUME Considered, Select!Next, pick.pc = "reading", pick'.pc = "idle"
        PROVE  Respected
    BY Zenon
  <2>2. PICK i \in DOMAIN pick.scores : Select!ChooseKey(i)
    BY <2>1 DEF Select!Next, Select!PickByCounter, Select!BeginPick, Select!ReadQuota,
         Select!RecordQuota, Select!ChangeAvailability, Select!NextSecond, Considered
  <2> DEFINE known == Select!ToSet(pick.avail) \ touched
             k == pick.avail[i]
  <2>3. /\ Len(pick.scores) = Len(pick.avail) /\ i \in 1..Len(pick.avail)
        /\ i \in Select!TopTier(pick.scores) /\ pick'.key = k
        /\ pick.scores \in Seq(Snapshot)
    BY <2>1, <2>2, PickTypes DEF Select!ChooseKey
  <2>4. k \in up
    BY <2>1, <2>3 DEF Considered
  <2>5. \A j \in known : \E x \in 1..Len(pick.avail) : j = pick.avail[x] /\ pick.scores[x] = quota[j]
    <3>1. SUFFICES ASSUME NEW j \in known
          PROVE  \E x \in 1..Len(pick.avail) : j = pick.avail[x] /\ pick.scores[x] = quota[j]
      OBVIOUS
    <3>2. PICK x \in 1..Len(pick.avail) : j = pick.avail[x]
      BY <2>1, PickTypes DEF Select!ToSet
    <3>3. x <= Len(pick.scores)
      BY <2>3
    <3>4. QED
      BY <2>1, <3>2, <3>3 DEF Considered
  <2>6. k \in known => quota[k] = pick.scores[i]
    BY <2>1, <2>3, PickTypes DEF Considered
  <2>7. /\ \A x \in 1..Len(pick.avail) : 10 * pick.scores[i].rem >= 9 * pick.scores[x].rem
        /\ \E f \in 1..Len(pick.avail) : \A x \in 1..Len(pick.avail) :
             Select!Ahead(pick.scores[x], pick.scores[i]) => x = f
    BY <2>3, TopTierIsNearTop
  <2> HIDE DEF known, k
  <2>8. ASSUME k \in known
        PROVE  /\ \A j \in known : 10 * quota[k].rem >= 9 * quota[j].rem
               /\ Cardinality({j \in known : Select!Ahead(quota[j], quota[k])}) <= 1
    <3>1. \A j \in known : 10 * quota[k].rem >= 9 * quota[j].rem
      BY <2>5, <2>6, <2>7, <2>8
    <3>2. PICK f \in 1..Len(pick.avail) : \A x \in 1..Len(pick.avail) :
             Select!Ahead(pick.scores[x], pick.scores[i]) => x = f
      BY <2>7
    <3> DEFINE Better == {j \in known : Select!Ahead(quota[j], quota[k])}
               top == pick.avail[f]
    <3>3. ASSUME NEW j \in Better PROVE j = top
      <4>1. PICK x \in 1..Len(pick.avail) : j = pick.avail[x] /\ pick.scores[x] = quota[j]
        BY <2>5
      <4>2. Select!Ahead(pick.scores[x], pick.scores[i])
        BY <2>6, <2>8, <4>1
      <4>3. QED
        BY <3>2, <4>1, <4>2
    <3> HIDE DEF Better, top
    <3>4. Better \in SUBSET {top} /\ IsFiniteSet({top}) /\ Cardinality({top}) = 1
      BY <3>3, FS_Singleton
    <3>5. Cardinality(Better) <= 1
      <4>1. Cardinality(Better) <= Cardinality({top})
        BY <3>4, FS_Subset
      <4>2. QED
        BY <3>4, <4>1
    <3> USE DEF Better
    <3>6. QED
      BY <3>1, <3>5
  <2>9. \A T : Cardinality(T) = Select!Cardinality(T)
    BY Zenon DEF Cardinality, Select!Cardinality
  <2>10. QED
    BY <2>3, <2>4, <2>8, <2>9, Zenon DEF known
<1>2. [][Select!Next]_selectVars /\ []Considered =>
        [][pick.pc = "reading" /\ pick'.pc = "idle" => Respected]_selectVars
  BY <1>1, PTL
<1>3. QED
  BY <1>2, ConsideredAlways, SelectRuns, PTL DEF QuotaRespected, Select!QuotaRespected, selectVars, Select!vars

----------------------------------------------------------------------------
(* The strategies that count.  Numbers that go round: the quotient and the *)
(* remainder are the only ones there are.                                  *)
LEMMA DivMod ==
    ASSUME NEW c \in Nat, NEW W \in Nat \ {0}
    PROVE  c \div W \in Nat /\ c % W \in 0..(W-1) /\ c = W * (c \div W) + (c % W)
<1>1. c % W \in 0..(W-1) /\ c \div W \in Int
  OBVIOUS
<1>2. c = W * (c \div W) + (c % W)
  OBVIOUS
<1>3. c \div W \in Nat
  OBVIOUS
<1>4. QED
  BY <1>1, <1>2, <1>3

LEMMA DivModIs ==
    ASSUME NEW c \in Nat, NEW W \in Nat \ {0}, NEW q \in Nat, NEW r \in 0..(W-1), c = W * q + r
    PROVE  c \div W = q /\ c % W = r
<1> DEFINE a == c \div W
           b == c % W
<1>1. a \in Nat /\ b \in 0..(W-1) /\ c = W * a + b
  BY DivMod
<1> HIDE DEF a, b
<1>2. W * a + b = W * q + r
  BY <1>1
<1>3. ~(a < q)
  <2>1. SUFFICES ASSUME a < q PROVE FALSE
    OBVIOUS
  <2>2. PICK d \in Nat : q = a + 1 + d
    <3>1. q - a - 1 \in Nat /\ q = a + 1 + (q - a - 1)
      BY <1>1, <2>1
    <3>2. QED
      BY <3>1
  <2>3. W * q = W * a + W + W * d /\ W * d \in Nat /\ W * a \in Nat
    BY <1>1, <2>2
  <2>4. QED
    BY <1>1, <1>2, <2>3
<1>4. ~(q < a)
  <2>1. SUFFICES ASSUME q < a PROVE FALSE
    OBVIOUS
  <2>2. PICK d \in Nat : a = q + 1 + d
    <3>1. a - q - 1 \in Nat /\ a = q + 1 + (a - q - 1)
      BY <1>1, <2>1
    <3>2. QED
      BY <3>1
  <2>3. W * a = W * q + W + W * d /\ W * d \in Nat /\ W * q \in Nat
    BY <1>1, <2>2
  <2>4. QED
    BY <1>1, <1>2, <2>3
<1>5. a = q
  BY <1>1, <1>3, <1>4
<1>6. b = r
  BY <1>1, <1>2, <1>5
<1>7. QED
  BY <1>5, <1>6 DEF a, b

(* Of the first c numbers, how many fall on w places from lo on when they  *)
(* go round W places.                                                      *)
Within(x, w) == IF x <= 0 THEN 0 ELSE IF x >= w THEN w ELSE x
Falls(c, lo, w, W) == (c \div W) * w + Within((c % W) - lo, w)

LEMMA WithinBounds ==
    ASSUME NEW w \in Nat
    PROVE  /\ \A x \in Int : Within(x, w) \in 0..w
           /\ \A x, y \in Int : x <= y => Within(x, w) <= Within(y, w)
BY DEF Within

LEMMA FallsType ==
    ASSUME NEW c \in Nat, NEW lo \in Nat, NEW w \in Nat, NEW W \in Nat \ {0}
    PROVE  Falls(c, lo, w, W) \in Nat
<1>1. c \div W \in Nat /\ c % W \in 0..(W-1)
  BY DivMod
<1>2. Within((c % W) - lo, w) \in Nat
  <2>1. (c % W) - lo \in Int
    BY <1>1
  <2>2. QED
    BY <2>1, WithinBounds
<1>3. (c \div W) * w \in Nat
  BY <1>1
<1>4. QED
  BY <1>2, <1>3 DEF Falls

(* c is r in the round after q rounds of W.                                *)
Splits(c, W, q, r) == q \in Nat /\ r \in 0..(W-1) /\ c = W * q + r

LEMMA FallsIs ==
    ASSUME NEW W \in Nat \ {0}, NEW lo, NEW w, NEW c, NEW q, NEW r, Splits(c, W, q, r)
    PROVE  Falls(c, lo, w, W) = q * w + Within(r - lo, w)
<1>1. c \in Nat
  BY DEF Splits
<1>2. c \div W = q /\ c % W = r
  BY <1>1, DivModIs DEF Splits
<1>3. QED
  BY <1>2 DEF Falls

LEMMA FallsStep ==
    ASSUME NEW c \in Nat, NEW lo \in Nat, NEW w \in Nat, NEW W \in Nat \ {0}, lo + w <= W,
           NEW q, NEW r, Splits(c, W, q, r)
    PROVE  Falls(c + 1, lo, w, W) =
             Falls(c, lo, w, W) + IF lo <= r /\ r < lo + w THEN 1 ELSE 0
<1>1. q \in Nat /\ r \in 0..(W-1) /\ c = W * q + r
  BY DEF Splits
<1>2. Falls(c, lo, w, W) = q * w + Within(r - lo, w)
  BY FallsIs
<1>3. q * w \in Nat
  BY <1>1
<1>4. CASE r < W - 1
  <2>1. r + 1 \in 0..(W-1) /\ c + 1 = W * q + (r + 1)
    BY <1>1, <1>4
  <2>2. Falls(c + 1, lo, w, W) = q * w + Within(r + 1 - lo, w)
    <3> DEFINE d == c + 1
               s == r + 1
    <3>1. Splits(d, W, q, s)
      BY <1>1, <2>1 DEF Splits
    <3> HIDE DEF d, s
    <3>2. Falls(d, lo, w, W) = q * w + Within(s - lo, w)
      BY <3>1, FallsIs
    <3>3. s - lo = r + 1 - lo
      BY <1>1 DEF s
    <3>4. QED
      BY <3>2, <3>3, Zenon DEF d
  <2>3. Within(r + 1 - lo, w) = Within(r - lo, w) + IF lo <= r /\ r < lo + w THEN 1 ELSE 0
    BY <1>1 DEF Within
  <2>4. Within(r - lo, w) \in Nat
    BY <1>1 DEF Within
  <2>5. QED
    BY <1>2, <1>3, <2>2, <2>3, <2>4
<1>5. CASE r = W - 1
  <2>1. 0 \in 0..(W-1) /\ q + 1 \in Nat /\ c + 1 = W * (q + 1) + 0
    BY <1>1, <1>5
  <2>2. Falls(c + 1, lo, w, W) = (q + 1) * w + Within(0 - lo, w)
    <3> DEFINE d == c + 1
               p == q + 1
               z == 0
    <3>1. Splits(d, W, p, z)
      BY <1>1, <2>1 DEF Splits
    <3> HIDE DEF d, p, z
    <3>2. Falls(d, lo, w, W) = p * w + Within(z - lo, w)
      BY <3>1, FallsIs
    <3>3. QED
      BY <3>2 DEF d, p, z
  <2>3. (q + 1) * w = q * w + w
    BY <1>1
  <2>4. Within(0 - lo, w) = 0
    BY DEF Within
  <2>5. w = Within(r - lo, w) + IF lo <= r /\ r < lo + w THEN 1 ELSE 0
    BY <1>1, <1>5 DEF Within
  <2>6. Within(r - lo, w) \in Nat
    BY <1>1 DEF Within
  <2>7. QED
    BY <1>2, <1>3, <2>2, <2>3, <2>4, <2>5, <2>6
<1>6. QED
  BY <1>1, <1>4, <1>5

LEMMA FallsMonotonic ==
    ASSUME NEW c \in Nat, NEW d \in Nat, c <= d,
           NEW lo \in Nat, NEW w \in Nat, NEW W \in Nat \ {0}
    PROVE  Falls(c, lo, w, W) <= Falls(d, lo, w, W)
<1> DEFINE q == c \div W
           r == c % W
           a == d \div W
           b == d % W
           x == Within(r - lo, w)
           y == Within(b - lo, w)
<1>1. q \in Nat /\ r \in 0..(W-1) /\ c = W * q + r
  BY DivMod
<1>2. a \in Nat /\ b \in 0..(W-1) /\ d = W * a + b
  BY DivMod
<1>3. Falls(c, lo, w, W) = q * w + x /\ Falls(d, lo, w, W) = a * w + y
  BY DEF Falls
<1> HIDE DEF q, r, a, b
<1>4. x \in 0..w /\ y \in 0..w /\ (r <= b => x <= y)
  <2>1. r - lo \in Int /\ b - lo \in Int /\ (r <= b => r - lo <= b - lo)
    BY <1>1, <1>2
  <2>2. QED
    BY <2>1, WithinBounds
<1> HIDE DEF x, y
<1>5. CASE q = a
  <2>1. r <= b
    BY <1>1, <1>2, <1>5
  <2>2. a * w \in Nat
    BY <1>2
  <2>3. QED
    BY <1>3, <1>4, <1>5, <2>1, <2>2
<1>6. CASE q < a
  <2>1. PICK e \in Nat : a = q + 1 + e
    <3>1. a - q - 1 \in Nat /\ a = q + 1 + (a - q - 1)
      BY <1>1, <1>2, <1>6
    <3>2. QED
      BY <3>1
  <2>2. a * w = q * w + w + e * w /\ e * w \in Nat /\ q * w \in Nat
    BY <1>1, <2>1
  <2>3. QED
    BY <1>3, <1>4, <2>2
<1>7. ~(a < q)
  <2>1. SUFFICES ASSUME a < q PROVE FALSE
    OBVIOUS
  <2>2. PICK e \in Nat : q = a + 1 + e
    <3>1. q - a - 1 \in Nat /\ q = a + 1 + (q - a - 1)
      BY <1>1, <1>2, <2>1
    <3>2. QED
      BY <3>1
  <2>3. W * q = W * a + W + W * e /\ W * e \in Nat /\ W * a \in Nat
    BY <1>2, <2>2
  <2>4. QED
    BY <1>1, <1>2, <2>3
<1>8. QED
  BY <1>1, <1>2, <1>5, <1>6, <1>7

LEMMA FallsRound ==
    ASSUME NEW c \in Nat, NEW m \in Nat, NEW lo \in Nat, NEW w \in Nat, NEW W \in Nat \ {0}
    PROVE  Falls(c + W * m, lo, w, W) = Falls(c, lo, w, W) + m * w
<1> DEFINE q == c \div W
           r == c % W
<1>1. q \in Nat /\ r \in 0..(W-1) /\ c = W * q + r
  BY DivMod
<1>2. Falls(c, lo, w, W) = q * w + Within(r - lo, w)
  BY DEF Falls
<1> HIDE DEF q, r
<1>3. q + m \in Nat /\ c + W * m = W * (q + m) + r
  BY <1>1
<1>4. Falls(c + W * m, lo, w, W) = (q + m) * w + Within(r - lo, w)
  <2> DEFINE d == c + W * m
             p == q + m
  <2>1. Splits(d, W, p, r)
    BY <1>1, <1>3 DEF Splits
  <2> HIDE DEF d, p
  <2>2. Falls(d, lo, w, W) = p * w + Within(r - lo, w)
    BY <2>1, FallsIs
  <2>3. QED
    BY <2>2 DEF d, p
<1>5. (q + m) * w = q * w + m * w /\ q * w \in Nat /\ m * w \in Nat
  BY <1>1
<1>6. Within(r - lo, w) \in Nat
  <2> DEFINE x == r - lo
  <2>1. x \in Int
    BY <1>1
  <2> HIDE DEF x
  <2>2. Within(x, w) \in 0..w
    BY <2>1, WithinBounds
  <2>3. QED
    BY <2>2 DEF x
<1>7. QED
  BY <1>2, <1>4, <1>5, <1>6

(* Of t numbers in a row, every w places get their share of the rounds.    *)
LEMMA SharesOfRounds ==
    ASSUME NEW c \in Nat, NEW t \in Nat, NEW lo \in Nat, NEW w \in Nat, NEW W \in Nat \ {0}
    PROVE  /\ (t \div W) * w <= Falls(c + t, lo, w, W) - Falls(c, lo, w, W)
           /\ Falls(c + t, lo, w, W) - Falls(c, lo, w, W) <= (t \div W + 1) * w
<1> DEFINE m == t \div W
           r == t % W
<1>1. m \in Nat /\ r \in 0..(W-1) /\ t = W * m + r
  BY DivMod
<1> HIDE DEF m, r
<1> DEFINE a == Falls(c, lo, w, W)
           b == Falls(c + W * m, lo, w, W)
           d == Falls(c + t, lo, w, W)
           e == Falls(c + W * (m + 1), lo, w, W)
<1>2. m + 1 \in Nat /\ W * m \in Nat /\ W * (m + 1) = W * m + W
  BY <1>1
<1>3. c + W * m \in Nat /\ c + t \in Nat /\ c + W * (m + 1) \in Nat
  BY <1>2
<1>4. c + W * m <= c + t /\ c + t <= c + W * (m + 1)
  BY <1>1, <1>2
<1>5. b = a + m * w /\ e = a + (m + 1) * w
  <2>1. a = Falls(c, lo, w, W) /\ m \in Nat
    BY <1>1
  <2>2. b = a + m * w
    BY <2>1, FallsRound
  <2>3. e = a + (m + 1) * w
    BY <1>2, FallsRound
  <2>4. QED
    BY <2>2, <2>3
<1>6. b <= d /\ d <= e
  BY <1>3, <1>4, FallsMonotonic
<1>7. a \in Nat /\ d \in Nat
  BY <1>3, FallsType
<1>8. m * w \in Nat /\ (m + 1) * w \in Nat
  BY <1>1
<1> HIDE DEF a, b, d, e
<1>9. m * w <= d - a /\ d - a <= (m + 1) * w
  BY <1>5, <1>6, <1>7, <1>8
<1>10. QED
  BY <1>9 DEF a, d, m

(* g sums the first n of the weights w gives to s.                         *)
Sums(s, w, n, g) == g = [i \in 0..n |-> IF i = 0 THEN 0 ELSE g[i-1] + w[s[i]]]

LEMMA SumsExist ==
    ASSUME NEW s, NEW w, NEW n \in Nat
    PROVE  \E g : Sums(s, w, n, g)
<1> DEFINE Bad == {m \in Nat : ~ \E g : Sums(s, w, m, g)}
<1>1. SUFFICES ASSUME Bad # {} PROVE FALSE
  OBVIOUS
<1>2. PICK m \in Bad : \A k \in Bad : m <= k
  BY <1>1, Least
<1>3. CASE m = 0
  <2> DEFINE g == [i \in 0..0 |-> 0]
  <2>1. Sums(s, w, 0, g)
    BY DEF Sums
  <2>2. QED
    BY <1>2, <1>3, <2>1
<1>4. CASE m > 0
  <2>1. PICK g : Sums(s, w, m - 1, g)
    BY <1>2, <1>4
  <2> DEFINE h == [i \in 0..m |-> IF i = m THEN g[m-1] + w[s[m]] ELSE g[i]]
  <2>2. ASSUME NEW i \in 0..m PROVE h[i] = IF i = 0 THEN 0 ELSE h[i-1] + w[s[i]]
    <3>1. CASE i = m
      BY <1>2, <1>4, <3>1
    <3>2. CASE i # m
      <4>1. i \in 0..(m-1) /\ m \in Nat
        BY <1>2, <3>2
      <4>2. g[i] = IF i = 0 THEN 0 ELSE g[i-1] + w[s[i]]
        BY <2>1, <4>1 DEF Sums
      <4>3. h[i] = g[i] /\ (i # 0 => h[i-1] = g[i-1])
        BY <4>1, <3>2
      <4>4. QED
        BY <4>2, <4>3
    <3>3. QED
      BY <3>1, <3>2
  <2>3. Sums(s, w, m, h)
    <3>1. h = [i \in 0..m |-> h[i]]
      OBVIOUS
    <3> HIDE DEF h
    <3>2. QED
      BY <2>2, <3>1 DEF Sums
  <2>4. QED
    BY <1>2, <2>3
<1>5. QED
  BY <1>2, <1>3, <1>4

(* p stacks n weights one on another.                                      *)
Stacks(p, w, n) ==
    p \in [0..n -> Nat] /\ p[0] = 0 /\ \A i \in 1..n : p[i] = p[i-1] + w[i]

LEMMA SumsStack ==
    ASSUME NEW n \in Nat, NEW s \in [1..n -> Keys], Weight \in [Keys -> Nat],
           NEW g, Sums(s, Weight, n, g)
    PROVE  Stacks(g, [i \in 1..n |-> Weight[s[i]]], n)
<1>1. g[0] = 0 /\ \A i \in 1..n : g[i] = g[i-1] + Weight[s[i]]
  BY DEF Sums
<1>2. \A i \in 0..n : g[i] \in Nat
  <2> DEFINE Bad == {i \in 0..n : g[i] \notin Nat}
  <2>1. SUFFICES ASSUME Bad # {} PROVE FALSE
    OBVIOUS
  <2>2. PICK m \in Bad : \A k \in Bad : m <= k
    <3>1. Bad \subseteq Nat
      OBVIOUS
    <3> HIDE DEF Bad
    <3>2. QED
      BY <2>1, <3>1, Least
  <2>3. m \in 1..n /\ m - 1 \in 0..n
    BY <1>1, <2>2
  <2>4. g[m-1] \in Nat
    BY <2>2, <2>3
  <2>5. Weight[s[m]] \in Nat
    BY <2>3
  <2>6. QED
    BY <1>1, <2>2, <2>3, <2>4, <2>5
<1>3. DOMAIN g = 0..n
  BY DEF Sums
<1>4. g = [i \in 0..n |-> g[i]]
  BY DEF Sums
<1>5. QED
  BY <1>1, <1>2, <1>4 DEF Stacks

LEMMA StacksRise ==
    ASSUME NEW n \in Nat, NEW w \in [1..n -> Nat], NEW p, Stacks(p, w, n),
           NEW i \in 0..n, NEW j \in 0..n, i <= j
    PROVE  p[i] <= p[j]
<1> DEFINE Bad == {k \in 0..n : i <= k /\ ~(p[i] <= p[k])}
<1>1. SUFFICES ASSUME Bad # {} PROVE FALSE
  OBVIOUS
<1>2. PICK m \in Bad : \A k \in Bad : m <= k
  <2>1. Bad \subseteq Nat
    OBVIOUS
  <2> HIDE DEF Bad
  <2>2. QED
    BY <1>1, <2>1, Least
<1>3. p[i] \in Nat /\ p[m] \in Nat
  BY <1>2 DEF Stacks
<1>4. m # i
  BY <1>2, <1>3
<1>5. m \in 1..n /\ m - 1 \in 0..n /\ i <= m - 1 /\ m - 1 < m
  BY <1>2, <1>4
<1>6. p[i] <= p[m-1] /\ p[m-1] \in Nat
  BY <1>2, <1>5 DEF Stacks
<1>7. p[m] = p[m-1] + w[m] /\ w[m] \in Nat
  BY <1>5 DEF Stacks
<1>8. QED
  BY <1>2, <1>3, <1>6, <1>7

(* x lands on the first weight that reaches above it.                      *)
Lands(p, n, x, m) == m \in 1..n /\ x < p[m] /\ \A i \in 1..n : x < p[i] => m <= i

LEMMA LandsSomewhere ==
    ASSUME NEW n \in Nat \ {0}, NEW w \in [1..n -> Nat], NEW p, Stacks(p, w, n),
           NEW x \in Int, x < p[n]
    PROVE  \E m : Lands(p, n, x, m)
<1> DEFINE T == {i \in 1..n : x < p[i]}
<1>1. T \subseteq Nat /\ n \in T
  OBVIOUS
<1>2. PICK m \in T : \A i \in T : m <= i
  <2> HIDE DEF T
  <2>1. QED
    BY <1>1, Least
<1>3. QED
  BY <1>2 DEF Lands

LEMMA LandsOnOne ==
    ASSUME NEW n \in Nat \ {0}, NEW w \in [1..n -> Nat], NEW p, Stacks(p, w, n),
           NEW x \in Nat, NEW m, Lands(p, n, x, m), NEW i \in 1..n
    PROVE  (p[i-1] <= x /\ x < p[i-1] + w[i]) <=> i = m
<1>1. \A k \in 0..n : p[k] \in Nat
  BY DEF Stacks
<1>2. /\ m \in 1..n /\ m - 1 \in 0..n /\ i - 1 \in 0..n /\ i \in 0..n
      /\ p[i] = p[i-1] + w[i] /\ p[m] = p[m-1] + w[m]
  BY DEF Lands, Stacks
<1>3. p[m-1] <= x
  <2>1. CASE m = 1
    BY <2>1 DEF Stacks
  <2>2. CASE m # 1
    <3>1. m - 1 \in 1..n /\ ~(m <= m - 1)
      BY <1>2, <2>2
    <3>2. ~(x < p[m-1])
      BY <3>1 DEF Lands
    <3>3. QED
      BY <1>1, <1>2, <3>2
  <2>3. QED
    BY <2>1, <2>2
<1>4. x < p[m]
  BY DEF Lands
<1>5. ASSUME p[i-1] <= x, x < p[i] PROVE i = m
  <2>1. m <= i
    BY <1>5 DEF Lands
  <2>2. ~(m < i)
    <3>1. SUFFICES ASSUME m < i PROVE FALSE
      OBVIOUS
    <3>2. m <= i - 1 /\ m \in 0..n
      BY <1>2, <3>1
    <3>3. p[m] <= p[i-1]
      BY <1>2, <3>2, StacksRise
    <3>4. p[m] \in Nat /\ p[i-1] \in Nat
      BY <1>1, <1>2
    <3>5. QED
      BY <1>4, <1>5, <3>3, <3>4
  <2>3. QED
    BY <1>2, <2>1, <2>2
<1>6. QED
  BY <1>2, <1>3, <1>4, <1>5

(* Nothing that is below 0 gets past a weight that is not 0.               *)
LEMMA LandsOnFirst ==
    ASSUME NEW n \in Nat \ {0}, NEW w \in [1..n -> Nat], NEW p, Stacks(p, w, n),
           NEW x \in Int, x <= 0, NEW m, Lands(p, n, x, m), NEW i \in 1..n, i < m
    PROVE  w[i] = 0
<1>1. p[i] \in Nat /\ p[i-1] \in Nat /\ p[i] = p[i-1] + w[i] /\ w[i] \in Nat
  BY DEF Stacks
<1>2. ~(m <= i)
  BY DEF Lands
<1>3. ~(x < p[i])
  BY <1>2 DEF Lands
<1>4. QED
  BY <1>1, <1>3

(* What each key's share of a round is, and where it begins: counted by    *)
(* weight, or one by one.                                                  *)
ShareOf(k, counts) == IF counts THEN Weight[k] ELSE 1
Pile(s, counts) == IF counts THEN Select!Passed(s) ELSE [i \in 0..Len(s) |-> i]
Shares(s, counts) == [i \in 1..Len(s) |-> ShareOf(s[i], counts)]

LEMMA PassedStacks ==
    ASSUME NEW s \in Seq(Keys), Weight \in [Keys -> Nat]
    PROVE  Stacks(Select!Passed(s), [i \in 1..Len(s) |-> Weight[s[i]]], Len(s))
<1> DEFINE n == Len(s)
           g == CHOOSE h : Sums(s, Weight, n, h)
<1>1. n \in Nat /\ s \in [1..n -> Keys]
  BY LenProperties, ElementOfSeq
<1>2. Sums(s, Weight, n, g)
  BY <1>1, SumsExist
<1>3. Select!Passed(s) = g
  BY DEF Select!Passed, Sums
<1> HIDE DEF g, n
<1>4. Stacks(g, [i \in 1..n |-> Weight[s[i]]], n)
  BY <1>1, <1>2, SumsStack
<1>5. QED
  BY <1>3, <1>4 DEF n

LEMMA PilesStack ==
    ASSUME NEW s \in Seq(Keys), Weight \in [Keys -> Nat], NEW counts \in BOOLEAN
    PROVE  /\ Shares(s, counts) \in [1..Len(s) -> Nat]
           /\ Stacks(Pile(s, counts), Shares(s, counts), Len(s))
<1> DEFINE n == Len(s)
<1>1. n \in Nat /\ \A i \in 1..n : s[i] \in Keys
  BY LenProperties, ElementOfSeq
<1>2. \A i \in 1..n : ShareOf(s[i], counts) \in Nat
  BY <1>1 DEF ShareOf
<1>3. CASE counts
  <2>1. Shares(s, counts) = [i \in 1..n |-> Weight[s[i]]] /\ Pile(s, counts) = Select!Passed(s)
    BY <1>3 DEF Shares, Pile, ShareOf
  <2>2. QED
    BY <1>2, <2>1, PassedStacks DEF Shares
<1>4. CASE ~counts
  <2>1. Shares(s, counts) = [i \in 1..n |-> 1] /\ Pile(s, counts) = [i \in 0..n |-> i]
    BY <1>4 DEF Shares, Pile, ShareOf
  <2>2. Stacks([i \in 0..n |-> i], [i \in 1..n |-> 1], n)
    BY <1>1 DEF Stacks
  <2>3. QED
    BY <1>2, <2>1, <2>2 DEF Shares
<1>5. QED
  BY <1>3, <1>4

(* The walk stops where the remainder lands.                               *)
LEMMA WalkLands ==
    ASSUME NEW s \in Seq(Keys), NEW x, NEW m, Lands(Select!Passed(s), Len(s), x, m)
    PROVE  Select!Walk(s, x) = s[m]
<1> DEFINE T == {i \in DOMAIN s : x < Select!Passed(s)[i]}
<1>1. DOMAIN s = 1..Len(s) /\ Len(s) \in Nat
  BY LenProperties
<1>2. m \in T /\ \A i \in T : m <= i
  BY <1>1 DEF Lands
<1>3. T \subseteq Nat
  BY <1>1
<1>4. Select!Walk(s, x) = s[Select!Min(T)]
  BY <1>2 DEF Select!Walk
<1> HIDE DEF T
<1>5. \A y \in T : (\A i \in T : y <= i) => y = m
  <2>1. \A y \in T : y <= m /\ m <= y => y = m
    BY <1>2, <1>3
  <2>2. QED
    BY <1>2, <2>1
<1>6. Select!Min(T) = m
  BY <1>2, <1>5 DEF Select!Min
<1>7. QED
  BY <1>4, <1>6

(* A pick falls on the share that the counter has come to; a counter past  *)
(* its middle counts as not above 0.                                       *)
Falling(s, counts, c, m) ==
    LET p == Pile(s, counts)
        n == Len(s)
    IN  IF counts /\ c >= Half THEN \E x \in Int : x <= 0 /\ Lands(p, n, x, m)
        ELSE Lands(p, n, c % p[n], m)

LEMMA RoundRobinFalls ==
    ASSUME NEW s \in Seq(Keys), s # <<>>, NEW c \in Nat
    PROVE  \E m \in 1..Len(s) : Select!pickRoundRobin(s, c) = s[m] /\ Falling(s, FALSE, c, m)
<1> DEFINE n == Len(s)
           m == (c % n) + 1
<1>1. n \in Nat \ {0}
  BY LenProperties, EmptySeq
<1>2. c % n \in 0..(n-1)
  BY <1>1, DivMod
<1>3. m \in 1..n /\ Select!pickRoundRobin(s, c) = s[m]
  BY <1>1, <1>2 DEF Select!pickRoundRobin
<1>4. Pile(s, FALSE) = [i \in 0..n |-> i]
  BY DEF Pile
<1>5. Lands([i \in 0..n |-> i], n, c % n, m)
  BY <1>1, <1>2 DEF Lands
<1>6. Falling(s, FALSE, c, m)
  BY <1>1, <1>4, <1>5 DEF Falling
<1>7. QED
  BY <1>3, <1>6

LEMMA WeightedFalls ==
    ASSUME NEW s \in Seq(Keys), s # <<>>, NEW c \in 0..(2 * Half - 1),
           Weight \in [Keys -> Nat], Select!WeightOf(s) > 0
    PROVE  \E m \in 1..Len(s) : Select!pickWeighted(s, c) = s[m] /\ Falling(s, TRUE, c, m)
<1> DEFINE n == Len(s)
           p == Select!Passed(s)
           W == Select!WeightOf(s)
           x == Select!Remainder(Select!Signed(c), W)
<1>1. n \in Nat \ {0} /\ Half \in Nat \ {0} /\ c \in Nat
  BY LenProperties, EmptySeq, RequestPathAssumption
<1>2. /\ Pile(s, TRUE) = p /\ p[n] = W
      /\ Shares(s, TRUE) \in [1..n -> Nat] /\ Stacks(p, Shares(s, TRUE), n)
  BY PilesStack DEF Pile, Select!WeightOf
<1>3. W \in Nat \ {0}
  <2>1. p[n] \in Nat
    BY <1>1, <1>2 DEF Stacks
  <2>2. QED
    BY <1>2, <2>1
<1> HIDE DEF p, W
<1>4. /\ x \in Int /\ x < W
      /\ c < Half => x = c % W
      /\ c >= Half => x <= 0
  <2>1. CASE c < Half
    <3>1. x = c % W
      BY <1>1, <2>1 DEF Select!Remainder, Select!Signed
    <3>2. c % W \in 0..(W-1)
      BY <1>1, <1>3, DivMod
    <3> HIDE DEF x
    <3>3. QED
      BY <1>1, <1>3, <2>1, <3>1, <3>2
  <2>2. CASE c >= Half
    <3> DEFINE y == 2 * Half - c
    <3>1. y \in Nat \ {0} /\ Select!Signed(c) = -y /\ ~(-y >= 0) /\ -(-y) = y
      BY <1>1, <2>2 DEF Select!Signed
    <3> HIDE DEF y
    <3>2. y % W \in 0..(W-1)
      BY <1>3, <3>1, DivMod
    <3>3. x = -(y % W)
      BY <3>1 DEF Select!Remainder
    <3> HIDE DEF x
    <3>4. QED
      BY <1>1, <1>3, <2>2, <3>2, <3>3
  <2>3. QED
    BY <1>1, <2>1, <2>2
<1> HIDE DEF x
<1>5. PICK m : Lands(p, n, x, m)
  BY <1>1, <1>2, <1>3, <1>4, LandsSomewhere
<1>6. m \in 1..n
  BY <1>5 DEF Lands
<1>7. Select!pickWeighted(s, c) = s[m]
  <2>1. ~(W <= 0)
    BY <1>3
  <2>2. Select!pickWeighted(s, c) = Select!Walk(s, x)
    BY <2>1 DEF Select!pickWeighted, W, x
  <2>3. QED
    BY <1>5, <2>2, WalkLands DEF p
<1>8. Falling(s, TRUE, c, m)
  <2>1. CASE c < Half
    <3>1. Lands(p, n, c % p[n], m) /\ ~(c >= Half)
      BY <1>1, <1>2, <1>4, <1>5, <2>1
    <3>2. QED
      BY <1>2, <3>1 DEF Falling
  <2>2. CASE c >= Half
    BY <1>2, <1>4, <1>5, <2>2 DEF Falling
  <2>3. c < Half \/ c >= Half
    BY <1>1
  <2>4. QED
    BY <2>1, <2>2, <2>3
<1>9. QED
  BY <1>6, <1>7, <1>8

(* Shares are served from the counter as it was when they were begun.      *)
EachServed(s, counts, c, t, v) ==
    LET p == Pile(s, counts)
    IN  \A i \in 1..Len(s) :
          v[s[i]] = Falls(c, p[i-1], ShareOf(s[i], counts), p[Len(s)])
                    - Falls(c - t, p[i-1], ShareOf(s[i], counts), p[Len(s)])

LEMMA ServedStep ==
    ASSUME NEW s \in Seq(Keys), \A i, j \in 1..Len(s) : i # j => s[i] # s[j],
           Weight \in [Keys -> Nat], NEW counts \in BOOLEAN, Pile(s, counts)[Len(s)] > 0,
           NEW c \in Nat, NEW t \in Nat, t <= c, NEW v \in [Keys -> Nat],
           EachServed(s, counts, c, t, v),
           NEW m, Lands(Pile(s, counts), Len(s), c % Pile(s, counts)[Len(s)], m)
    PROVE  EachServed(s, counts, c + 1, t + 1, [v EXCEPT ![s[m]] = @ + 1])
<1> DEFINE n == Len(s)
           p == Pile(s, counts)
           w == Shares(s, counts)
           W == p[n]
           u == [v EXCEPT ![s[m]] = @ + 1]
<1>1. /\ n \in Nat /\ m \in 1..n /\ n \in Nat \ {0} /\ \A i \in 1..n : s[i] \in Keys
      /\ \A i, j \in 1..n : i # j => s[i] # s[j]
  BY LenProperties, ElementOfSeq DEF Lands
<1>2. w \in [1..n -> Nat] /\ Stacks(p, w, n)
  BY PilesStack
<1>3. W \in Nat \ {0} /\ W = p[n]
  <2>1. p[n] \in Nat /\ p[n] > 0
    BY <1>1, <1>2 DEF Stacks
  <2>2. QED
    BY <2>1
<1>4. c - t \in Nat /\ (c + 1) - (t + 1) = c - t
  OBVIOUS
<1>5. Lands(p, n, c % W, m)
  OBVIOUS
<1> HIDE DEF p, w, W, n
<1> DEFINE q == c \div W
           x == c % W
<1>11. W \in Nat \ {0}
  BY <1>3
<1>9. Splits(c, W, q, x) /\ x \in Nat
  <2>1. q \in Nat /\ x \in 0..(W-1) /\ c = W * q + x
    BY <1>11, DivMod
  <2>2. x \in Nat
    BY <1>11, <2>1
  <2> HIDE DEF q, x
  <2>3. QED
    BY <2>1, <2>2 DEF Splits
<1>10. Lands(p, n, x, m)
  BY <1>5
<1> HIDE DEF q, x
<1>6. ASSUME NEW i \in 1..n
      PROVE  u[s[i]] = Falls(c + 1, p[i-1], w[i], W) - Falls((c + 1) - (t + 1), p[i-1], w[i], W)
  <2> DEFINE lo == p[i-1]
             a == Falls(c, lo, w[i], W)
             b == Falls(c - t, lo, w[i], W)
             d == Falls(c + 1, lo, w[i], W)
  <2>1. lo \in Nat /\ w[i] \in Nat /\ p[i] = lo + w[i]
    BY <1>1, <1>2 DEF Stacks
  <2>2. lo + w[i] <= W
    <3>1. i \in 0..n /\ n \in 0..n /\ i <= n
      BY <1>1
    <3>2. p[i] <= p[n]
      BY <1>1, <1>2, <3>1, StacksRise
    <3>3. QED
      BY <1>3, <2>1, <3>2
  <2>3. (lo <= x /\ x < lo + w[i]) <=> i = m
    BY <1>1, <1>2, <1>9, <1>10, LandsOnOne
  <2>4. d = a + IF lo <= x /\ x < lo + w[i] THEN 1 ELSE 0
    BY <1>9, <1>11, <2>1, <2>2, FallsStep
  <2>5. v[s[i]] = a - b
    BY DEF EachServed, p, w, Shares, n, W
  <2>6. a \in Nat /\ b \in Nat
    BY <1>3, <1>4, <2>1, FallsType
  <2>7. u[s[i]] = v[s[i]] + IF i = m THEN 1 ELSE 0
    <3>1. s[i] \in Keys /\ s[m] \in Keys /\ (s[i] = s[m] <=> i = m) /\ v[s[i]] \in Nat
      BY <1>1
    <3>2. QED
      BY <3>1
  <2> HIDE DEF u, a, b, d, lo
  <2>8. d = a + IF i = m THEN 1 ELSE 0
    BY <2>3, <2>4
  <2>9. u[s[i]] = d - b
    BY <2>5, <2>6, <2>7, <2>8
  <2>10. QED
    BY <1>4, <2>9 DEF d, b, lo
<1> HIDE DEF u
<1>7. \A i \in 1..n : w[i] = ShareOf(s[i], counts)
  BY DEF w, Shares, n
<1>8. QED
  BY <1>6, <1>7 DEF EachServed, p, u, n, W

(* Of weights that are not used, only the first is.                        *)
FirstServed(s, v) == \A i, j \in 1..Len(s) : j < i /\ v[s[i]] > 0 => Weight[s[j]] = 0

Counted(S) == strategy = "weighted" /\ Select!WeightOf(Select!InOrder(S)) > 0

(* Of the picks since availability changed every key got what fell on its  *)
(* share, as long as the counter did not wrap, and counting by weight did  *)
(* not pass its middle; beyond that only the first key with a weight.      *)
Balanced ==
    /\ strategy \in {"round_robin", "weighted", "quota_aware"}
    /\ up \in SUBSET Keys /\ rrCounter \in 0..(2 * Half - 1) /\ taken \in Nat
    /\ served \in [Keys -> Nat]
    /\ taken > 0 => up # {}
    /\ taken <= rrCounter /\ (Counted(up) => rrCounter <= Half) =>
         EachServed(Select!InOrder(up), Counted(up), rrCounter, taken, served)
    /\ Counted(up) /\ rrCounter - taken >= Half => FirstServed(Select!InOrder(up), served)

LEMMA AvailableInOrder ==
    ASSUME NEW S \in SUBSET Keys
    PROVE  /\ Select!InOrder(S) \in Seq(Keys)
           /\ \A i, j \in 1..Len(Select!InOrder(S)) : i # j => Select!InOrder(S)[i] # Select!InOrder(S)[j]
           /\ \A i \in 1..Len(Select!InOrder(S)) : Select!InOrder(S)[i] \in Keys
           /\ S # {} => Select!InOrder(S) # <<>>
<1> DEFINE s == Select!InOrder(S)
<1>1. /\ s \in Seq(S) /\ \A i, j \in DOMAIN s : i < j => s[i] < s[j]
      /\ \A x \in S : \E i \in DOMAIN s : s[i] = x
  BY KeysInOrder
<1>2. s \in Seq(Keys) /\ Keys \subseteq Nat
  BY <1>1, SeqMonotonic, RequestPathAssumption
<1> HIDE DEF s
<1>3. DOMAIN s = 1..Len(s) /\ \A i \in 1..Len(s) : s[i] \in Keys /\ s[i] \in Nat
  BY <1>2, LenProperties, ElementOfSeq
<1>4. \A i, j \in 1..Len(s) : i # j => s[i] # s[j]
  <2>1. SUFFICES ASSUME NEW i \in 1..Len(s), NEW j \in 1..Len(s), i # j PROVE s[i] # s[j]
    OBVIOUS
  <2>2. i < j \/ j < i
    BY <2>1
  <2>3. QED
    BY <1>1, <1>3, <2>2
<1>5. S # {} => s # <<>>
  BY <1>1, EmptySeq
<1>6. QED
  BY <1>2, <1>3, <1>4, <1>5 DEF s

LEMMA PileTop ==
    ASSUME NEW s \in Seq(Keys), s # <<>>, Weight \in [Keys -> Nat], NEW counts \in BOOLEAN,
           counts => Select!WeightOf(s) > 0
    PROVE  Pile(s, counts)[Len(s)] > 0 /\ Len(s) \in Nat \ {0}
<1>1. Len(s) \in Nat \ {0}
  BY LenProperties, EmptySeq
<1>2. CASE counts
  BY <1>1, <1>2 DEF Pile, Select!WeightOf
<1>3. CASE ~counts
  BY <1>1, <1>3 DEF Pile
<1>4. QED
  BY <1>1, <1>2, <1>3

(* Nothing served yet is balanced, wherever the counter is.                *)
LEMMA NothingServed ==
    ASSUME NEW s \in Seq(Keys), \A i \in 1..Len(s) : s[i] \in Keys, Weight \in [Keys -> Nat],
           NEW counts \in BOOLEAN, s # <<>> /\ counts => Select!WeightOf(s) > 0, NEW c \in Nat
    PROVE  /\ EachServed(s, counts, c, 0, [k \in Keys |-> 0])
           /\ FirstServed(s, [k \in Keys |-> 0])
<1> DEFINE v == [k \in Keys |-> 0]
           n == Len(s)
           p == Pile(s, counts)
           w == Shares(s, counts)
<1>1. \A i \in 1..n : v[s[i]] = 0
  OBVIOUS
<1>2. w \in [1..n -> Nat] /\ Stacks(p, w, n)
  BY PilesStack
<1>3. ASSUME NEW i \in 1..n PROVE v[s[i]] = Falls(c, p[i-1], w[i], p[n]) - Falls(c - 0, p[i-1], w[i], p[n])
  <2>1. s # <<>>
    BY EmptySeq
  <2>2. p[n] > 0 /\ n \in Nat \ {0}
    BY <2>1, PileTop
  <2> DEFINE lo == p[i-1]
             W == p[n]
             x == w[i]
  <2>3. lo \in Nat /\ W \in Nat \ {0} /\ x \in Nat
    <3> HIDE DEF p, w
    <3>1. i - 1 \in 0..n /\ n \in 0..n
      BY <2>2
    <3>2. p[i-1] \in Nat /\ p[n] \in Nat /\ w[i] \in Nat
      BY <1>2, <2>2, <3>1 DEF Stacks
    <3>3. QED
      BY <2>2, <3>2
  <2> HIDE DEF lo, W, x
  <2>4. Falls(c, lo, x, W) \in Nat /\ c - 0 = c
    <3>1. c - 0 = c
      OBVIOUS
    <3>2. QED
      BY <2>3, <3>1, FallsType
  <2> DEFINE f == Falls(c, lo, x, W)
  <2>5. f - f = 0
    <3>1. f \in Nat
      BY <2>4
    <3> HIDE DEF f
    <3>2. QED
      BY <3>1
  <2>6. QED
    BY <1>1, <2>4, <2>5 DEF lo, W, x
<1>4. \A i \in 1..n : w[i] = ShareOf(s[i], counts)
  BY DEF Shares
<1> HIDE DEF v, w, p, n
<1>5. EachServed(s, counts, c, 0, v)
  BY <1>3, <1>4 DEF EachServed, p, n
<1>6. FirstServed(s, v)
  BY <1>1 DEF FirstServed, n
<1>7. QED
  BY <1>5, <1>6 DEF v

(* What a counting Pick takes is one of the keys that are available.       *)
LEMMA PickTakes ==
    ASSUME Balanced, Select!PickByCounter
    PROVE  \E m \in 1..Len(Select!InOrder(up)) :
             /\ served' = [served EXCEPT ![Select!InOrder(up)[m]] = @ + 1]
             /\ Falling(Select!InOrder(up), Counted(up), rrCounter, m)
<1> DEFINE s == Select!InOrder(up)
           counts == Counted(up)
           n == Len(s)
           c == rrCounter
           k == IF strategy = "weighted" THEN Select!pickWeighted(s, c) ELSE Select!pickRoundRobin(s, c)
<1>0. Weight \in [Keys -> Nat]
  BY RequestPathAssumption
<1>1. /\ up \in SUBSET Keys /\ c \in 0..(2 * Half - 1)
      /\ strategy \in {"round_robin", "weighted"} /\ up # {}
  BY DEF Balanced, Select!PickByCounter
<1>2. served' = [served EXCEPT ![k] = @ + 1]
  BY DEF Select!PickByCounter
<1>3. /\ s \in Seq(Keys) /\ s # <<>> /\ \A i, j \in 1..n : i # j => s[i] # s[j]
      /\ \A i \in 1..n : s[i] \in Keys
  BY <1>1, AvailableInOrder
<1>4. counts \in BOOLEAN /\ (counts => Select!WeightOf(s) > 0)
  BY DEF Counted
<1>5. Pile(s, counts)[n] > 0 /\ n \in Nat \ {0} /\ Half \in Nat \ {0} /\ c \in Nat
  BY <1>0, <1>1, <1>3, <1>4, PileTop, RequestPathAssumption
<1>6. \E m \in 1..n : k = s[m] /\ Falling(s, counts, c, m)
  <2>1. CASE counts
    <3>1. strategy = "weighted" /\ Select!WeightOf(s) > 0
      BY <2>1 DEF Counted
    <3>2. \E m \in 1..n : Select!pickWeighted(s, c) = s[m] /\ Falling(s, TRUE, c, m)
      BY <1>0, <1>1, <1>3, <3>1, WeightedFalls
    <3>3. k = Select!pickWeighted(s, c) /\ counts = TRUE
      BY <2>1, <3>1
    <3> HIDE DEF k, counts, s, c
    <3>4. QED
      BY <3>2, <3>3
  <2>2. CASE ~counts
    <3>1. k = Select!pickRoundRobin(s, c)
      <4>1. CASE strategy = "weighted"
        <5>1. ~(Select!WeightOf(s) > 0)
          BY <2>2, <4>1 DEF Counted
        <5>2. Select!WeightOf(s) \in Nat
          BY <1>0, <1>3, <1>5, PassedStacks DEF Select!WeightOf, Stacks
        <5>3. Select!WeightOf(s) <= 0
          BY <5>1, <5>2
        <5>4. QED
          BY <4>1, <5>3 DEF Select!pickWeighted
      <4>2. CASE strategy # "weighted"
        BY <4>2
      <4>3. QED
        BY <4>1, <4>2
    <3>2. \E m \in 1..n : Select!pickRoundRobin(s, c) = s[m] /\ Falling(s, FALSE, c, m)
      BY <1>3, <1>5, RoundRobinFalls
    <3>3. counts = FALSE
      BY <1>4, <2>2
    <3> HIDE DEF k, counts, s, c
    <3>4. QED
      BY <3>1, <3>2, <3>3
  <2>3. QED
    BY <2>1, <2>2
<1> HIDE DEF s, counts, n, c, k
<1>7. \E m \in 1..n : served' = [served EXCEPT ![s[m]] = @ + 1] /\ Falling(s, counts, c, m)
  BY <1>2, <1>6
<1>8. QED
  BY <1>7 DEF s, counts, n, c

LEMMA PickBalanced ==
    ASSUME Weight \in [Keys -> Nat], Balanced, Select!PickByCounter
    PROVE  Balanced'
<1> DEFINE s == Select!InOrder(up)
           counts == Counted(up)
           n == Len(s)
           c == rrCounter
           t == taken
           v == served
<1>1. /\ up \in SUBSET Keys /\ c \in 0..(2 * Half - 1) /\ t \in Nat /\ v \in [Keys -> Nat]
      /\ strategy \in {"round_robin", "weighted"} /\ up # {}
      /\ t <= c /\ (counts => c <= Half) => EachServed(s, counts, c, t, v)
      /\ counts /\ c - t >= Half => FirstServed(s, v)
  BY DEF Balanced, Select!PickByCounter
<1>2. /\ taken' = t + 1
      /\ rrCounter' = (c + 1) % (2 * Half) /\ UNCHANGED <<strategy, up>>
  BY DEF Select!PickByCounter
<1>3. /\ s \in Seq(Keys) /\ s # <<>> /\ \A i, j \in 1..n : i # j => s[i] # s[j]
      /\ \A i \in 1..n : s[i] \in Keys
  BY <1>1, AvailableInOrder
<1>4. counts \in BOOLEAN /\ (counts => Select!WeightOf(s) > 0)
  BY DEF Counted
<1>5. Pile(s, counts)[n] > 0 /\ n \in Nat \ {0} /\ Half \in Nat \ {0} /\ c \in Nat
  BY <1>1, <1>3, <1>4, PileTop, RequestPathAssumption
<1>6. PICK m \in 1..n : served' = [v EXCEPT ![s[m]] = @ + 1] /\ Falling(s, counts, c, m)
  BY PickTakes
<1> HIDE DEF s, counts, n, c, t, v
<1> DEFINE u == [v EXCEPT ![s[m]] = @ + 1]
<1>7. s[m] \in Keys /\ u \in [Keys -> Nat] /\ served' = u
  <2>1. s[m] \in Keys
    BY <1>3, <1>6
  <2>2. u \in [Keys -> Nat]
    BY <1>1, <2>1
  <2>3. served' = u
    BY <1>6
  <2>4. QED
    BY <2>1, <2>2, <2>3
<1>8. Counted(up)' = counts /\ Select!InOrder(up)' = s
  BY <1>2 DEF counts, s, Counted
<1>9. CASE c + 1 = 2 * Half
  <2>1. rrCounter' = 0
    BY <1>2, <1>5, <1>9
  <2>2. taken' \in Nat /\ taken' > 0 /\ ~(taken' <= rrCounter') /\ ~(rrCounter' - taken' >= Half)
    BY <1>1, <1>2, <1>5, <2>1
  <2>3. 0 \in 0..(2 * Half - 1) /\ strategy' \in {"round_robin", "weighted", "quota_aware"}
    BY <1>1, <1>2, <1>5
  <2>4. QED
    BY <1>1, <1>2, <1>7, <2>1, <2>2, <2>3 DEF Balanced
<1>10. CASE c + 1 # 2 * Half
  <2>1. c + 1 \in 0..(2 * Half - 1)
    BY <1>1, <1>5, <1>10
  <2>2. rrCounter' = c + 1
    BY <1>2, <1>5, <2>1
  <2>3. ASSUME t + 1 <= c + 1, counts => c + 1 <= Half
        PROVE  EachServed(s, counts, c + 1, t + 1, u)
    <3>1. t <= c /\ ~(counts /\ c >= Half) /\ (counts => c <= Half)
      BY <1>1, <1>5, <2>3
    <3>2. EachServed(s, counts, c, t, v)
      BY <1>1, <3>1
    <3>3. Lands(Pile(s, counts), Len(s), c % Pile(s, counts)[Len(s)], m)
      BY <1>6, <3>1 DEF Falling
    <3>4. QED
      BY <1>1, <1>3, <1>4, <1>5, <3>1, <3>2, <3>3, ServedStep DEF n
  <2>4. ASSUME counts, (c + 1) - (t + 1) >= Half PROVE FirstServed(s, u)
    <3>1. c - t >= Half /\ c >= Half
      BY <1>1, <1>5, <2>4
    <3>2. FirstServed(s, v)
      BY <1>1, <2>4, <3>1
    <3>3. PICK x \in Int : x <= 0 /\ Lands(Pile(s, TRUE), n, x, m)
      BY <1>6, <2>4, <3>1 DEF Falling, n
    <3>4. \A i \in 1..n : i < m => Weight[s[i]] = 0
      <4>1. Shares(s, TRUE) \in [1..n -> Nat] /\ Stacks(Pile(s, TRUE), Shares(s, TRUE), n)
        BY <1>3, PilesStack DEF n
      <4>2. \A i \in 1..n : i < m => Shares(s, TRUE)[i] = 0
        BY <1>5, <3>3, <4>1, LandsOnFirst
      <4>3. \A i \in 1..n : Shares(s, TRUE)[i] = Weight[s[i]]
        BY DEF Shares, ShareOf, n
      <4>4. QED
        BY <4>2, <4>3
    <3>5. ASSUME NEW i \in 1..n, NEW j \in 1..n, j < i, u[s[i]] > 0 PROVE Weight[s[j]] = 0
      <4>1. CASE i = m
        BY <3>4, <3>5, <4>1
      <4>2. CASE i # m
        <5>1. u[s[i]] = v[s[i]]
          BY <1>1, <1>3, <1>6, <4>2
        <5>2. QED
          BY <3>2, <3>5, <5>1 DEF FirstServed, n
      <4>3. QED
        BY <4>1, <4>2
    <3> HIDE DEF u
    <3>6. QED
      BY <3>5 DEF FirstServed, n
  <2>5. taken' \in Nat /\ strategy' \in {"round_robin", "weighted", "quota_aware"} /\ up' = up
    BY <1>1, <1>2
  <2> HIDE DEF u
  <2>6. QED
    BY <1>1, <1>2, <1>7, <1>8, <2>1, <2>2, <2>3, <2>4, <2>5 DEF Balanced
<1>11. QED
  BY <1>9, <1>10

LEMMA FreshlyServed ==
    ASSUME Weight \in [Keys -> Nat], NEW S \in SUBSET Keys, NEW c \in 0..(2 * Half - 1),
           NEW counts \in BOOLEAN, counts => Select!WeightOf(Select!InOrder(S)) > 0
    PROVE  /\ EachServed(Select!InOrder(S), counts, c, 0, [k \in Keys |-> 0])
           /\ FirstServed(Select!InOrder(S), [k \in Keys |-> 0])
           /\ [k \in Keys |-> 0] \in [Keys -> Nat]
<1> DEFINE s == Select!InOrder(S)
<1>1. s \in Seq(Keys) /\ \A i \in 1..Len(s) : s[i] \in Keys
  BY AvailableInOrder
<1>2. c \in Nat
  BY RequestPathAssumption
<1> HIDE DEF s
<1>3. counts => Select!WeightOf(s) > 0
  BY DEF s
<1>4. QED
  BY <1>1, <1>2, <1>3, NothingServed DEF s

LEMMA BalancedAlways ==
    ASSUME Weight \in [Keys -> Nat]
    PROVE  Spec => []Balanced
<1>1. Select!Init => Balanced
  <2>1. SUFFICES ASSUME Select!Init PROVE Balanced
    OBVIOUS
  <2>2. /\ strategy \in {"round_robin", "weighted", "quota_aware"} /\ up \in SUBSET Keys
        /\ served = [k \in Keys |-> 0] /\ taken = 0
    BY <2>1 DEF Select!Init
  <2>3. rrCounter \in 0..(2 * Half - 1)
    BY <2>1, RequestPathAssumption DEF Select!Init
  <2>4. Counted(up) \in BOOLEAN /\ (Counted(up) => Select!WeightOf(Select!InOrder(up)) > 0)
    BY DEF Counted
  <2>5. /\ EachServed(Select!InOrder(up), Counted(up), rrCounter, taken, served)
        /\ FirstServed(Select!InOrder(up), served) /\ served \in [Keys -> Nat]
    BY <2>2, <2>3, <2>4, FreshlyServed
  <2>6. QED
    BY <2>2, <2>3, <2>5 DEF Balanced
<1>2. Balanced /\ [Select!Next]_selectVars => Balanced'
  <2>1. SUFFICES ASSUME Balanced, [Select!Next]_selectVars PROVE Balanced'
    OBVIOUS
  <2>2. CASE UNCHANGED <<strategy, up, rrCounter, served, taken>>
    BY <2>1, <2>2 DEF Balanced, Counted
  <2>3. CASE Select!PickByCounter
    BY <2>1, <2>3, PickBalanced
  <2>4. CASE \E available \in SUBSET Keys : Select!ChangeAvailability(available)
    <3>1. /\ up' \in SUBSET Keys /\ served' = [k \in Keys |-> 0] /\ taken' = 0
          /\ UNCHANGED <<strategy, rrCounter>>
      BY <2>4 DEF Select!ChangeAvailability
    <3>2. /\ strategy' \in {"round_robin", "weighted", "quota_aware"}
          /\ rrCounter' \in 0..(2 * Half - 1)
      BY <2>1, <3>1 DEF Balanced
    <3>3. Counted(up)' \in BOOLEAN /\ (Counted(up)' => Select!WeightOf(Select!InOrder(up')) > 0)
      BY DEF Counted
    <3>4. /\ EachServed(Select!InOrder(up'), Counted(up)', rrCounter', taken', served')
          /\ FirstServed(Select!InOrder(up'), served') /\ served' \in [Keys -> Nat]
      BY <3>1, <3>2, <3>3, FreshlyServed
    <3>5. QED
      BY <3>1, <3>2, <3>4 DEF Balanced
  <2>5. QED
    BY <2>1, <2>2, <2>3, <2>4 DEF Select!Next, selectVars, Select!BeginPick, Select!ReadQuota,
         Select!ChooseKey, Select!RecordQuota, Select!NextSecond
<1>3. QED
  BY <1>1, <1>2, SelectRuns, PTL

(* KeySelect: of any picks in a row with the same keys available every key *)
(* gets its share, up to the edges of the counter, for any keys and any    *)
(* weights that are not below 0.                                           *)
THEOREM SharesAlwaysFair == Spec => []SharesFair
<1>0. Weight \in [Keys -> Nat]
  BY RequestPathAssumption
<1>1. Balanced => SharesFair
  <2> DEFINE s == Select!InOrder(up)
             counts == strategy = "weighted" /\ Select!WeightOf(s) > 0
             n == Len(s)
             W == IF counts THEN Select!WeightOf(s) ELSE n
             p == Pile(s, counts)
             w == Shares(s, counts)
             Share(k) == IF counts THEN Weight[k] ELSE 1
             rounds == taken \div W
  <2>1. SUFFICES
          ASSUME Balanced, taken > 0
          PROVE  /\ taken <= rrCounter /\ (counts => rrCounter <= Half) =>
                      \A k \in up : /\ served[k] >= rounds * Share(k)
                                    /\ served[k] <= (rounds + 1) * Share(k)
                 /\ counts /\ Select!Past =>
                      \A k \in up : served[k] > 0 => \A j \in up : j < k => Weight[j] = 0
    BY Zenon DEF SharesFair, Select!SharesFair
  <2>2. /\ s \in Seq(Keys) /\ s # <<>> /\ n \in Nat \ {0} /\ p[n] > 0
        /\ counts \in BOOLEAN
    <3>1. counts \in BOOLEAN /\ (counts => Select!WeightOf(s) > 0) /\ up # {} /\ up \in SUBSET Keys
      BY <2>1 DEF Balanced
    <3>2. s \in Seq(Keys) /\ s # <<>>
      BY <3>1, AvailableInOrder
    <3> HIDE DEF counts, s
    <3>3. QED
      BY <1>0, <3>1, <3>2, PileTop
  <2>3. w \in [1..n -> Nat] /\ Stacks(p, w, n)
    BY <1>0, <2>2, PilesStack
  <2>4. W = p[n]
    <3>1. counts => W = p[n]
      BY DEF Pile, Select!WeightOf
    <3>2. ~counts => W = p[n]
      BY <2>2 DEF Pile
    <3>3. QED
      BY <3>1, <3>2
  <2>5. W \in Nat \ {0}
    <3> HIDE DEF p, w, W
    <3>1. n \in 0..n
      BY <2>2
    <3>2. p[n] \in Nat
      BY <2>3, <3>1 DEF Stacks
    <3>3. QED
      BY <2>2, <2>4, <3>2
  <2>6. \A k \in up : \E i \in 1..n : s[i] = k
    BY <2>1, <2>2, KeysInOrder, LenProperties DEF Balanced
  <2>7. \A i, j \in 1..n : i < j => s[i] < s[j]
    BY <2>1, <2>2, KeysInOrder, LenProperties DEF Balanced
  <2>8. \A i \in 1..n : s[i] \in Nat
    BY <2>2, ElementOfSeq, RequestPathAssumption
  <2>9. /\ taken \in Nat /\ rrCounter \in Nat /\ Half \in Nat
        /\ taken <= rrCounter /\ (counts => rrCounter <= Half) =>
             EachServed(s, counts, rrCounter, taken, served)
        /\ counts /\ rrCounter - taken >= Half => FirstServed(s, served)
    BY <2>1, RequestPathAssumption DEF Balanced, Counted
  <2>10. \A i \in 1..n : w[i] = Share(s[i]) /\ w[i] = ShareOf(s[i], counts)
    BY DEF Shares, ShareOf
  <2> HIDE DEF s, counts, n, W, p, w, Share
  <2>11. ASSUME taken <= rrCounter, counts => rrCounter <= Half, NEW k \in up
         PROVE  /\ served[k] >= rounds * Share(k)
                /\ served[k] <= (rounds + 1) * Share(k)
    <3>1. PICK i \in 1..n : s[i] = k
      BY <2>6
    <3> DEFINE lo == p[i-1]
               x == w[i]
               c == rrCounter - taken
    <3>2. lo \in Nat /\ x \in Nat /\ c \in Nat /\ c + taken = rrCounter
      <4>1. lo \in Nat
        BY <2>2, <2>3, <3>1 DEF Stacks
      <4>2. x \in Nat
        BY <2>3, <3>1
      <4>3. c \in Nat /\ c + taken = rrCounter
        BY <2>9, <2>11
      <4>4. QED
        BY <4>1, <4>2, <4>3
    <3>3. served[k] = Falls(rrCounter, lo, x, W) - Falls(c, lo, x, W)
      BY <2>4, <2>9, <2>10, <2>11, <3>1 DEF EachServed, p, n
    <3> HIDE DEF lo, x, c
    <3>4. /\ rounds * x <= Falls(c + taken, lo, x, W) - Falls(c, lo, x, W)
          /\ Falls(c + taken, lo, x, W) - Falls(c, lo, x, W) <= (rounds + 1) * x
      BY <2>5, <2>9, <3>2, SharesOfRounds
    <3>5. x = Share(k)
      BY <2>10, <3>1 DEF x
    <3>6. Falls(c + taken, lo, x, W) = Falls(rrCounter, lo, x, W)
      BY <3>2
    <3> DEFINE a == Falls(rrCounter, lo, x, W)
               b == Falls(c, lo, x, W)
    <3>7. a \in Nat /\ b \in Nat /\ rounds \in Nat
      BY <2>5, <2>9, <3>2, FallsType, DivMod
    <3> HIDE DEF rounds
    <3>8. rounds * x <= a - b /\ a - b <= (rounds + 1) * x /\ served[k] = a - b
      BY <3>3, <3>4, <3>6
    <3>9. rounds * x \in Nat /\ (rounds + 1) * x \in Nat
      BY <3>2, <3>7
    <3> HIDE DEF a, b
    <3>10. served[k] >= rounds * x /\ served[k] <= (rounds + 1) * x
      BY <3>7, <3>8, <3>9
    <3>11. QED
      BY <3>5, <3>10
  <2>12. ASSUME counts, Select!Past, NEW k \in up, served[k] > 0, NEW j \in up, j < k
         PROVE  Weight[j] = 0
    <3>1. PICK i \in 1..n : s[i] = k
      BY <2>6
    <3>2. PICK h \in 1..n : s[h] = j
      BY <2>6
    <3>3. h < i
      <4>1. ~(i < h) /\ i # h
        BY <2>7, <2>8, <2>12, <3>1, <3>2
      <4>2. QED
        BY <2>2, <4>1
    <3>4. FirstServed(s, served)
      BY <2>9, <2>12 DEF Select!Past
    <3>5. QED
      BY <2>12, <3>1, <3>2, <3>3, <3>4 DEF FirstServed, n
  <2>13. QED
    BY <2>11, <2>12
<1>2. QED
  BY <1>0, <1>1, BalancedAlways, PTL

(* The types of key selection.  Beyond the two invariants above: a key     *)
(* that was taken since availability changed is available.                 *)
SelectTyped ==
    /\ Considered /\ Balanced
    /\ records \in 0..MaxRecords
    /\ \A k \in Keys : served[k] > 0 => k \in up

LEMMA SelectTypedAlways == Spec => []SelectTyped
<1> DEFINE Rest == records \in 0..MaxRecords /\ \A k \in Keys : served[k] > 0 => k \in up
<1>0. Weight \in [Keys -> Nat] /\ MaxRecords \in Nat
  BY RequestPathAssumption
<1>1. Select!Init => Rest
  BY <1>0 DEF Select!Init
<1>2. Balanced /\ Rest /\ [Select!Next]_selectVars => Rest'
  <2> SUFFICES ASSUME Balanced, Rest, [Select!Next]_selectVars PROVE Rest'
    OBVIOUS
  <2>1. CASE Select!PickByCounter
    <3> DEFINE s == Select!InOrder(up)
    <3>1. PICK m \in 1..Len(s) : served' = [served EXCEPT ![s[m]] = @ + 1]
      BY <2>1, PickTakes
    <3>2. s \in Seq(up)
      BY KeysInOrder DEF Balanced
    <3>3. s[m] \in up
      BY <3>2, ElementOfSeq
    <3> HIDE DEF s
    <3>4. ASSUME NEW k \in Keys, served'[k] > 0 PROVE k \in up
      BY <3>1, <3>3, <3>4 DEF Balanced
    <3>5. up' = up /\ records' = records
      BY <2>1 DEF Select!PickByCounter
    <3>6. QED
      BY <3>4, <3>5
  <2>2. CASE \E available \in SUBSET Keys : Select!ChangeAvailability(available)
    <3>1. served' = [k \in Keys |-> 0] /\ records' = records
      BY <2>2 DEF Select!ChangeAvailability
    <3>2. QED
      BY <3>1
  <2>3. CASE \E k \in Keys, remaining \in Levels \cup {0}, more \in BOOLEAN :
               Select!RecordQuota(k, remaining, more)
    <3>1. records < MaxRecords /\ records' = records + 1 /\ UNCHANGED <<up, served>>
      BY <2>3 DEF Select!RecordQuota
    <3>2. QED
      BY <1>0, <3>1
  <2>4. CASE UNCHANGED <<up, served, records>>
    BY <2>4
  <2>5. QED
    BY <2>1, <2>2, <2>3, <2>4 DEF Select!Next, selectVars, Select!BeginPick, Select!ReadQuota,
         Select!ChooseKey, Select!NextSecond
<1>3. Considered /\ Balanced /\ Rest => SelectTyped
  BY DEF SelectTyped
<1> HIDE DEF Rest
<1>4. QED
  BY <1>0, <1>1, <1>2, <1>3, ConsideredAlways, BalancedAlways, SelectRuns, PTL

(* KeySelect: every variable keeps its type, and a key that is taken is    *)
(* available.                                                              *)
THEOREM SelectAlwaysTyped == Spec => []Select!TypeOK
<1>1. SelectTyped => Select!TypeOK
  <2> SUFFICES ASSUME SelectTyped PROVE Select!TypeOK
    OBVIOUS
  <2>1. quota \in [Keys -> [rem: Levels \cup {0}, seen: 0..MaxSeconds]]
    BY DEF SelectTyped, Considered, Snapshot
  <2>2. pick.pc \in {"idle", "reading"} /\ Len(pick.scores) <= Len(pick.avail)
    BY DEF SelectTyped, Considered
  <2>3. /\ strategy \in {"round_robin", "weighted", "quota_aware"} /\ up \subseteq Keys
        /\ rrCounter \in 0 .. 2 * Half - 1
    BY DEF SelectTyped, Balanced
  <2>4. now \in 1..MaxSeconds /\ records \in 0..MaxRecords /\ touched \subseteq Keys
    BY DEF SelectTyped, Considered
  <2>5. {k \in Keys : served[k] > 0} \subseteq up
    BY DEF SelectTyped
  <2>6. QED
    BY <2>1, <2>2, <2>3, <2>4, <2>5 DEF Select!TypeOK
<1>2. QED
  BY <1>1, SelectTypedAlways, PTL

----------------------------------------------------------------------------
(* Every variable of the five parts keeps its type.                        *)
THEOREM AlwaysTyped == Spec => []TypeOK
BY ChatAlwaysTyped, StreamAlwaysTyped, HistoryAlwaysTyped, ReaderAlwaysTyped, SelectAlwaysTyped, PTL
   DEF TypeOK
==============================================================================
