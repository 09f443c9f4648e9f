------------------------ MODULE ResponseStreamProofs ------------------------
(***************************************************************************)
(* Whatever the upstream interleaves and however often: the client is told *)
(* of every item once and in order, the stream ends once, all text and all *)
(* reasoning is in the response, and a completed response holds as many    *)
(* pieces as the client was sent.  The invariant says how items, builders  *)
(* and the events written belong together while the stream is open; each   *)
(* operation of the converter keeps it.                                    *)
(***************************************************************************)
EXTENDS ResponseStream, SequenceFacts, FiniteSetTheorems

DeltaTypes == {"text_delta", "reasoning_delta", "arguments_delta"}

(* The events of w that carry a piece of item i.                           *)
PiecesSent(w, i) == {k \in DOMAIN w : w[k].item = i /\ w[k].type \in DeltaTypes}

(* AnnouncedInOrder, for n items.                                          *)
Announced(n, w) ==
    /\ \A i \in 1..n : \E k \in DOMAIN w :
         /\ w[k] = OfItem("item_added", i)
         /\ \A l \in DOMAIN w : w[l].item = i /\ w[l].type \in ItemEvents
              => /\ k <= l
                 /\ w[l].type = "item_added" => l = k
    /\ \A k, l \in DOMAIN w :
         w[k].type = "item_added" /\ w[l].type = "item_added" /\ k < l
           => w[k].item < w[l].item

(* What the client may have been sent of n items.                          *)
Sent(n, w) ==
    /\ w \in Seq(Event)
    /\ \A k \in DOMAIN w : w[k].item \in 0..n /\ w[k].index \in 0..n
    /\ Announced(n, w)

(* The stream goes on: response.created is out, no terminal event is.      *)
GoesOn(w) ==
    /\ w # <<>> /\ w[1].type = "created"
    /\ \A k \in DOMAIN w : w[k].type \notin Terminals

(* There is one message and one reasoning item at most, and every call has *)
(* its own item.                                                           *)
Belong(o, b) ==
    /\ \A i, j \in DOMAIN o :
         o[i].kind = o[j].kind /\ o[i].kind # "function_call" => i = j
    /\ \A x \in CallIndexes :
         \/ b[x] = NoCall
         \/ b[x].item \in DOMAIN o /\ o[b[x].item].kind = "function_call"
    /\ \A i \in DOMAIN o :
         o[i].kind = "function_call" => \E x \in CallIndexes : b[x].item = i
    /\ \A x, y \in CallIndexes : b[x].item = b[y].item /\ b[x].item # 0 => x = y

(* The first item, whatever it is, says whether there is a message.        *)
FirstOpen(o) ==
    o # <<>> => (o[1].open <=> \E i \in DOMAIN o : o[i].kind = "message")

(* Items and builders hold as many pieces as the client was sent.          *)
Counted(o, b, w) ==
    /\ \A i \in DOMAIN o :
         o[i].kind # "function_call" => Cardinality(PiecesSent(w, i)) = o[i].pieces
    /\ \A x \in CallIndexes :
         b[x].item # 0 => Cardinality(PiecesSent(w, b[x].item)) = b[x].pieces

Holds(o, kind, n) ==
    LET Total == {i \in DOMAIN o : o[i].kind = kind}
    IN  IF n = 0 THEN Total = {}
        ELSE \E i \in Total : Total = {i} /\ o[i].pieces = n

(* What an operation finds and leaves, but for the texts.                  *)
Core(o, b, w) ==
    /\ o \in Seq(Item) /\ b \in [CallIndexes -> Builder]
    /\ Sent(Len(o), w) /\ GoesOn(w)
    /\ Belong(o, b)
    /\ Counted(o, b, w)

(* An open stream, with the pieces of text and reasoning read.             *)
Good(o, b, w, text, reasoning) ==
    /\ Core(o, b, w)
    /\ FirstOpen(o)
    /\ Holds(o, "message", text) /\ Holds(o, "reasoning", reasoning)

(* Before the first event nothing is there; then the stream is good.       *)
Open ==
    \/ wire = <<>> /\ outputs = <<>> /\ calls = [x \in CallIndexes |-> NoCall]
         /\ got = [text |-> 0, reasoning |-> 0, arguments |-> 0, events |-> 0]
    \/ Good(outputs, calls, wire, got.text, got.reasoning)

(* A piece is added to an item; the first item is marked as open.          *)
Piece(o, i) == [o EXCEPT ![i].pieces = @ + 1]
Mark(o) == [o EXCEPT ![1].open = TRUE]

(* A call gets its builder, its id, a piece of its arguments.              *)
Opened(b, x, i, given) == [b EXCEPT ![x] = [item |-> i, given |-> given, pieces |-> 0]]
Given(b, x, given) == [b EXCEPT ![x].given = given]
Argued(b, x) == [b EXCEPT ![x].pieces = @ + 1]

----------------------------------------------------------------------------
(* What one more event, or some more, do to what the client was sent.      *)

LEMMA MoreEvents ==
    ASSUME NEW n \in Nat, NEW w, Sent(n, w), NEW ev \in Seq(Event),
           \A k \in DOMAIN ev : /\ ev[k].type # "item_added"
                                /\ ev[k].item \in 0..n /\ ev[k].index \in 0..n
    PROVE  Sent(n, w \o ev)
<1> DEFINE v == w \o ev
<1>0. w \in Seq(Event) /\ DOMAIN w = 1..Len(w) /\ DOMAIN ev = 1..Len(ev)
        /\ Len(w) \in Nat /\ Len(ev) \in Nat
  BY LenProperties DEF Sent
<1>1. /\ v \in Seq(Event) /\ Len(v) = Len(w) + Len(ev)
      /\ \A k \in 1..Len(w) : v[k] = w[k]
      /\ \A k \in Len(w) + 1 .. Len(v) : v[k] = ev[k - Len(w)]
  BY <1>0, ConcatProperties
<1>2. DOMAIN v = 1..Len(v)
  BY <1>1, LenProperties
<1> HIDE DEF v
<1>3. \A k \in DOMAIN v : \/ k \in DOMAIN w /\ v[k] = w[k]
                          \/ /\ k > Len(w) /\ v[k].type # "item_added"
                             /\ v[k].item \in 0..n /\ v[k].index \in 0..n
  <2>1. TAKE k \in DOMAIN v
  <2>2. CASE k <= Len(w)
    BY <1>0, <1>1, <1>2, <2>2
  <2>3. CASE k > Len(w)
    <3>1. k - Len(w) \in DOMAIN ev /\ v[k] = ev[k - Len(w)]
      BY <1>0, <1>1, <1>2, <2>3
    <3>2. QED
      BY <2>3, <3>1
  <2>4. QED
    BY <1>0, <1>2, <2>2, <2>3
<1>4. \A k \in DOMAIN w : k \in DOMAIN v /\ v[k] = w[k] /\ k <= Len(w) /\ k \in Nat
  BY <1>0, <1>1, <1>2
<1>5. \A k \in DOMAIN v : v[k].item \in 0..n /\ v[k].index \in 0..n
  BY <1>3 DEF Sent
<1>6. ASSUME NEW i \in 1..n
      PROVE  \E k \in DOMAIN v :
               /\ v[k] = OfItem("item_added", i)
               /\ \A l \in DOMAIN v : v[l].item = i /\ v[l].type \in ItemEvents
                    => k <= l /\ (v[l].type = "item_added" => l = k)
  <2>1. PICK k \in DOMAIN w :
          /\ w[k] = OfItem("item_added", i)
          /\ \A l \in DOMAIN w : w[l].item = i /\ w[l].type \in ItemEvents
               => k <= l /\ (w[l].type = "item_added" => l = k)
    BY DEF Sent, Announced
  <2>2. ASSUME NEW l \in DOMAIN v, v[l].item = i, v[l].type \in ItemEvents
        PROVE  k <= l /\ (v[l].type = "item_added" => l = k)
    BY <1>2, <1>0, <1>1, <1>3, <1>4, <2>1, <2>2
  <2>3. QED
    BY <1>4, <2>1, <2>2
<1>7. \A k, l \in DOMAIN v :
        v[k].type = "item_added" /\ v[l].type = "item_added" /\ k < l
          => v[k].item < v[l].item
  BY <1>3 DEF Sent, Announced
<1>8. Announced(n, v)
  BY <1>6, <1>7 DEF Announced
<1>9. QED
  BY <1>1, <1>5, <1>8 DEF Sent, v

LEMMA OneMore ==
    ASSUME NEW n \in Nat, NEW w, Sent(n, w), NEW e \in Event,
           e.type # "item_added", e.item \in 0..n, e.index \in 0..n
    PROVE  Sent(n, Append(w, e))
<1>1. <<e>> \in Seq(Event) /\ DOMAIN <<e>> = {1} /\ <<e>>[1] = e
  OBVIOUS
<1>2. Append(w, e) = w \o <<e>>
  BY AppendIsConcat DEF Sent
<1>3. Sent(n, w \o <<e>>)
  BY <1>1, MoreEvents
<1>4. QED
  BY <1>2, <1>3

LEMMA OneAnnounced ==
    ASSUME NEW n \in Nat, NEW w, Sent(n, w)
    PROVE  Sent(n + 1, Append(w, OfItem("item_added", n + 1)))
<1> DEFINE e == OfItem("item_added", n + 1)
           v == Append(w, e)
<1>0. e \in Event /\ e.type = "item_added" /\ e.item = n + 1 /\ e.index = n + 1
  BY DEF OfItem, Event, ItemEvents
<1> HIDE DEF e
<1>1. /\ v \in Seq(Event) /\ Len(w) \in Nat /\ DOMAIN v = 1 .. Len(w) + 1
      /\ DOMAIN w = 1..Len(w)
      /\ \A k \in 1..Len(w) : v[k] = w[k]
      /\ v[Len(w) + 1] = e
  BY <1>0, Appended DEF Sent
<1> HIDE DEF v
<1>2. \A k \in DOMAIN v : \/ k \in DOMAIN w /\ v[k] = w[k] /\ w[k].item <= n
                               /\ w[k].item \in 0..n /\ w[k].index \in 0..n
                          \/ k = Len(w) + 1 /\ v[k] = e
  BY <1>1 DEF Sent
<1>3. \A k \in DOMAIN v : v[k].item \in 0 .. n + 1 /\ v[k].index \in 0 .. n + 1
  BY <1>0, <1>2
<1>4. ASSUME NEW i \in 1 .. n + 1
      PROVE  \E k \in DOMAIN v :
               /\ v[k] = OfItem("item_added", i)
               /\ \A l \in DOMAIN v : v[l].item = i /\ v[l].type \in ItemEvents
                    => k <= l /\ (v[l].type = "item_added" => l = k)
  <2>1. CASE i \in 1..n
    <3>1. PICK k \in DOMAIN w :
            /\ w[k] = OfItem("item_added", i)
            /\ \A l \in DOMAIN w : w[l].item = i /\ w[l].type \in ItemEvents
                 => k <= l /\ (w[l].type = "item_added" => l = k)
      BY <2>1 DEF Sent, Announced
    <3>2. ASSUME NEW l \in DOMAIN v, v[l].item = i
          PROVE  l \in DOMAIN w /\ v[l] = w[l]
      BY <1>0, <1>2, <2>1, <3>2
    <3>3. k \in DOMAIN v /\ v[k] = w[k]
      BY <1>1
    <3>4. QED
      BY <3>1, <3>2, <3>3
  <2>2. CASE i = n + 1
    <3>1. \A l \in DOMAIN v : v[l].item = i => l = Len(w) + 1
      BY <1>2, <2>2
    <3>2. v[Len(w) + 1] = OfItem("item_added", i) /\ Len(w) + 1 \in DOMAIN v
      BY <1>1, <2>2 DEF e
    <3>3. QED
      BY <1>1, <3>1, <3>2
  <2>3. QED
    BY <2>1, <2>2
<1>5. ASSUME NEW k \in DOMAIN v, NEW l \in DOMAIN v,
             v[k].type = "item_added", v[l].type = "item_added", k < l
      PROVE  v[k].item < v[l].item
  <2>1. k \in DOMAIN w /\ v[k] = w[k] /\ w[k].item \in 0..n
    BY <1>1, <1>2, <1>5
  <2>2. CASE l \in DOMAIN w /\ v[l] = w[l]
    BY <1>5, <2>1, <2>2 DEF Sent, Announced
  <2>3. CASE v[l] = e
    BY <1>0, <2>1, <2>3
  <2>4. QED
    BY <1>2, <2>2, <2>3
<1>6. Announced(n + 1, v)
  BY <1>4, <1>5 DEF Announced
<1>7. QED
  BY <1>1, <1>3, <1>6 DEF Sent, v, e

(* A stream goes on until a terminal event is written.                     *)
LEMMA GoneOn ==
    ASSUME NEW w \in Seq(Event), GoesOn(w), NEW e \in Event, e.type \notin Terminals
    PROVE  GoesOn(Append(w, e))
<1>1. Len(w) # 0
  BY EmptySeq DEF GoesOn
<1>2. QED
  BY <1>1, Appended DEF GoesOn

(* The pieces sent of an item are finitely many; an event adds itself when *)
(* it is a delta of the item.                                              *)
LEMMA PiecesAppended ==
    ASSUME NEW w \in Seq(Event), NEW e \in Event, NEW i
    PROVE  /\ Cardinality(PiecesSent(w, i)) \in Nat
           /\ e.item # i \/ e.type \notin DeltaTypes
                => PiecesSent(Append(w, e), i) = PiecesSent(w, i)
           /\ e.item = i /\ e.type \in DeltaTypes
                => Cardinality(PiecesSent(Append(w, e), i)) = Cardinality(PiecesSent(w, i)) + 1
<1>0. /\ Len(w) \in Nat /\ DOMAIN w = 1..Len(w) /\ DOMAIN Append(w, e) = 1 .. Len(w) + 1
      /\ \A k \in 1..Len(w) : Append(w, e)[k] = w[k]
      /\ Append(w, e)[Len(w) + 1] = e
  BY Appended
<1>1. IsFiniteSet(PiecesSent(w, i))
  <2>1. IsFiniteSet(1..Len(w)) /\ PiecesSent(w, i) \subseteq 1..Len(w)
    BY <1>0, FS_Interval DEF PiecesSent
  <2>2. QED
    BY <2>1, FS_Subset
<1>2. Cardinality(PiecesSent(w, i)) \in Nat
  BY <1>1, FS_CardinalityType
<1>3. ASSUME e.item # i \/ e.type \notin DeltaTypes
      PROVE  PiecesSent(Append(w, e), i) = PiecesSent(w, i)
  BY <1>0, <1>3 DEF PiecesSent
<1>4. ASSUME e.item = i, e.type \in DeltaTypes
      PROVE  Cardinality(PiecesSent(Append(w, e), i)) = Cardinality(PiecesSent(w, i)) + 1
  <2>1. PiecesSent(Append(w, e), i) = PiecesSent(w, i) \cup {Len(w) + 1}
    BY <1>0, <1>4 DEF PiecesSent
  <2>2. Len(w) + 1 \notin PiecesSent(w, i)
    BY <1>0 DEF PiecesSent
  <2>3. QED
    BY <1>1, <2>1, <2>2, FS_AddElement
<1>5. QED
  BY <1>2, <1>3, <1>4

LEMMA PiecesKeptBy ==
    ASSUME NEW w \in Seq(Event), NEW ev \in Seq(Event),
           \A k \in DOMAIN ev : ev[k].type \notin DeltaTypes, NEW i
    PROVE  PiecesSent(w \o ev, i) = PiecesSent(w, i)
<1> DEFINE v == w \o ev
<1>1. /\ \A k \in DOMAIN w : k \in DOMAIN v /\ v[k] = w[k]
      /\ \A k \in DOMAIN v : \/ k \in DOMAIN w /\ v[k] = w[k]
                             \/ \E j \in DOMAIN ev : v[k] = ev[j]
  BY Concatenated
<1> HIDE DEF v
<1>2. PiecesSent(v, i) = PiecesSent(w, i)
  BY <1>1 DEF PiecesSent
<1>3. QED
  BY <1>2 DEF v

(* A list of events is written one by one.                                 *)
LEMMA WrittenAfter ==
    ASSUME NEW w \in Seq(Event), NEW ev \in Seq(Event), NEW more \in Seq(Event)
    PROVE  w \o (ev \o more) = (w \o ev) \o more /\ ev \o more \in Seq(Event)
<1>1. (w \o ev) \o more = w \o (ev \o more)
  BY ConcatAssociative
<1>2. QED
  BY <1>1, ConcatProperties

LEMMA WrittenOne ==
    ASSUME NEW w \in Seq(Event), NEW ev \in Seq(Event),
           NEW a \in Event
    PROVE  /\ w \o (ev \o <<a>>) = Append(w \o ev, a)
           /\ ev \o <<a>> \in Seq(Event)
<1> DEFINE v == w \o ev
           more == <<a>>
<1>1. more \in Seq(Event)
  OBVIOUS
<1>2. v \in Seq(Event)
  BY ConcatProperties
<1>3. v \o more = Append(v, a)
  <2> HIDE DEF v
  <2>1. QED
    BY <1>2
<1> HIDE DEF more
<1>4. w \o (ev \o more) = v \o more /\ ev \o more \in Seq(Event)
  BY <1>1, WrittenAfter
<1>5. QED
  BY <1>3, <1>4 DEF more

LEMMA WrittenTwo ==
    ASSUME NEW w \in Seq(Event), NEW ev \in Seq(Event),
           NEW a \in Event, NEW b \in Event
    PROVE  /\ w \o (ev \o <<a, b>>) = Append(Append(w \o ev, a), b)
           /\ ev \o <<a, b>> \in Seq(Event)
<1> DEFINE v == w \o ev
           more == <<a, b>>
<1>1. more \in Seq(Event)
  OBVIOUS
<1>2. v \in Seq(Event)
  BY ConcatProperties
<1>3. v \o more = Append(Append(v, a), b)
  <2> HIDE DEF v
  <2>1. QED
    BY <1>2
<1> HIDE DEF more
<1>4. w \o (ev \o more) = v \o more /\ ev \o more \in Seq(Event)
  BY <1>1, WrittenAfter
<1>5. QED
  BY <1>3, <1>4 DEF more

----------------------------------------------------------------------------
(* What the operations are made of.                                        *)

LEMMA CoreNeutral ==
    ASSUME NEW o, NEW b, NEW w, Core(o, b, w), NEW e \in Event,
           e.type \notin DeltaTypes \cup Terminals \cup {"item_added"},
           e.item \in 0..Len(o), e.index \in 0..Len(o)
    PROVE  Core(o, b, Append(w, e))
<1>1. w \in Seq(Event) /\ Len(o) \in Nat
  BY LenProperties DEF Core, Sent
<1>2. Sent(Len(o), Append(w, e))
  BY <1>1, OneMore DEF Core
<1>3. GoesOn(Append(w, e))
  BY <1>1, GoneOn DEF Core
<1>4. \A i : PiecesSent(Append(w, e), i) = PiecesSent(w, i)
  BY <1>1, PiecesAppended
<1>5. Counted(o, b, Append(w, e))
  BY <1>4 DEF Core, Counted
<1>6. QED
  BY <1>2, <1>3, <1>5 DEF Core

(* The core does not depend on which item is marked as open.               *)
LEMMA MarkType ==
    ASSUME NEW o \in Seq(Item), o # <<>>
    PROVE  /\ Mark(o) \in Seq(Item) /\ Len(Mark(o)) = Len(o) /\ DOMAIN Mark(o) = DOMAIN o
           /\ Mark(o)[1].open
           /\ \A i \in DOMAIN o : /\ Mark(o)[i].kind = o[i].kind
                                  /\ Mark(o)[i].pieces = o[i].pieces
           /\ o[1].open => Mark(o) = o
<1> DEFINE m == Mark(o)
<1>0. Len(o) \in Nat \ {0} /\ DOMAIN o = 1..Len(o) /\ 1 \in DOMAIN o
  <2>1. Len(o) \in Nat /\ DOMAIN o = 1..Len(o)
    BY LenProperties
  <2>2. Len(o) # 0
    BY <2>1, EmptySeq
  <2>3. QED
    BY <2>1, <2>2
<1>1. o \in [DOMAIN o -> Item] /\ o[1] \in Item
  BY <1>0
<1>2. [o[1] EXCEPT !.open = TRUE] \in Item
  BY <1>1 DEF Item
<1>3. m = [o EXCEPT ![1] = [o[1] EXCEPT !.open = TRUE]]
  BY DEF Mark
<1> HIDE DEF m
<1>4. m \in [DOMAIN o -> Item]
  BY <1>1, <1>2, <1>3
<1>5. m \in Seq(Item) /\ Len(m) = Len(o) /\ DOMAIN m = DOMAIN o
  BY <1>0, <1>4, SameLength
<1>6. \A i \in DOMAIN o : m[i].kind = o[i].kind /\ m[i].pieces = o[i].pieces
  BY <1>0, <1>1, <1>3 DEF Item
<1>7. m[1].open
  BY <1>0, <1>1, <1>3 DEF Item
<1>8. ASSUME o[1].open PROVE m = o
  <2>1. [o[1] EXCEPT !.open = TRUE] = o[1]
    BY <1>1, <1>8 DEF Item
  <2>2. QED
    BY <1>1, <1>3, <2>1
<1>9. QED
  BY <1>5, <1>6, <1>7, <1>8 DEF m

LEMMA CoreMarked ==
    ASSUME NEW o, NEW b, NEW w, Core(o, b, w), o # <<>>
    PROVE  Core(Mark(o), b, w)
<1> DEFINE m == Mark(o)
<1>1. /\ m \in Seq(Item) /\ Len(m) = Len(o) /\ DOMAIN m = DOMAIN o
      /\ \A i \in DOMAIN o : m[i].kind = o[i].kind /\ m[i].pieces = o[i].pieces
  BY MarkType DEF Core
<1> HIDE DEF m
<1>2. Belong(m, b)
  BY <1>1 DEF Core, Belong
<1>3. Counted(m, b, w)
  BY <1>1 DEF Core, Counted
<1>4. Core(m, b, w)
  BY <1>1, <1>2, <1>3 DEF Core
<1>5. QED
  BY <1>4 DEF m

(* An item that is not a call is announced.                                *)
LEMMA CoreAnnounced ==
    ASSUME NEW o, NEW b, NEW w, Core(o, b, w),
           NEW it \in Item, it.kind # "function_call", it.pieces = 0,
           \A i \in DOMAIN o : o[i].kind # it.kind
    PROVE  Core(Append(o, it), b, Append(w, OfItem("item_added", Len(o) + 1)))
<1> DEFINE n == Len(o)
           p == Append(o, it)
           v == Append(w, OfItem("item_added", n + 1))
<1>0. /\ o \in Seq(Item) /\ p \in Seq(Item) /\ n \in Nat /\ Len(p) = n + 1
      /\ DOMAIN o = 1..n /\ DOMAIN p = 1 .. n + 1
      /\ \A i \in 1..n : p[i] = o[i]
      /\ p[n + 1] = it
  BY Appended DEF Core
<1>1. w \in Seq(Event) /\ Sent(n, w) /\ OfItem("item_added", n + 1) \in Event
  BY <1>0 DEF Core, Sent, OfItem, Event, ItemEvents
<1>2. Sent(n + 1, v)
  BY <1>0, <1>1, OneAnnounced
<1>3. GoesOn(v)
  BY <1>1, GoneOn DEF Core, OfItem, Terminals
<1>4. \A i : PiecesSent(v, i) = PiecesSent(w, i)
  BY <1>1, PiecesAppended DEF OfItem, DeltaTypes
<1>5. Cardinality(PiecesSent(w, n + 1)) = 0
  <2>1. PiecesSent(w, n + 1) = {}
    BY <1>0, <1>1 DEF PiecesSent, Sent
  <2>2. QED
    BY <2>1, FS_EmptySet
<1> HIDE DEF n, p, v
<1>6. Belong(p, b)
  BY <1>0 DEF Core, Belong
<1>7. Counted(p, b, v)
  BY <1>0, <1>4, <1>5 DEF Core, Counted
<1>8. QED
  BY <1>0, <1>2, <1>3, <1>6, <1>7 DEF Core, n, p, v

(* A call is announced, and its builder is the item's.                     *)
LEMMA CoreCalled ==
    ASSUME NEW o, NEW b, NEW w, Core(o, b, w),
           NEW it \in Item, it.kind = "function_call",
           NEW x \in CallIndexes, b[x] = NoCall, NEW given \in BOOLEAN
    PROVE  Core(Append(o, it), Opened(b, x, Len(o) + 1, given),
                Append(w, OfItem("item_added", Len(o) + 1)))
<1> DEFINE n == Len(o)
           p == Append(o, it)
           v == Append(w, OfItem("item_added", n + 1))
           d == Opened(b, x, n + 1, given)
<1>0. /\ o \in Seq(Item) /\ p \in Seq(Item) /\ n \in Nat /\ Len(p) = n + 1
      /\ DOMAIN o = 1..n /\ DOMAIN p = 1 .. n + 1
      /\ \A i \in 1..n : p[i] = o[i]
      /\ p[n + 1] = it
  BY Appended DEF Core
<1>1. w \in Seq(Event) /\ Sent(n, w) /\ OfItem("item_added", n + 1) \in Event
  BY <1>0 DEF Core, Sent, OfItem, Event, ItemEvents
<1>2. Sent(n + 1, v)
  BY <1>0, <1>1, OneAnnounced
<1>3. GoesOn(v)
  BY <1>1, GoneOn DEF Core, OfItem, Terminals
<1>4. \A i : PiecesSent(v, i) = PiecesSent(w, i)
  BY <1>1, PiecesAppended DEF OfItem, DeltaTypes
<1>5. Cardinality(PiecesSent(w, n + 1)) = 0
  <2>1. PiecesSent(w, n + 1) = {}
    BY <1>0, <1>1 DEF PiecesSent, Sent
  <2>2. QED
    BY <2>1, FS_EmptySet
<1>6. /\ d \in [CallIndexes -> Builder]
      /\ d[x].item = n + 1 /\ d[x].pieces = 0
      /\ \A y \in CallIndexes : y # x => d[y] = b[y]
  BY <1>0 DEF Core, Builder, Opened
<1>7. b[x].item = 0
  BY DEF NoCall
<1> HIDE DEF n, p, v, d
<1>8. Belong(p, d)
  <2>1. \A i, j \in DOMAIN p : p[i].kind = p[j].kind /\ p[i].kind # "function_call" => i = j
    BY <1>0 DEF Core, Belong
  <2>2. \A y \in CallIndexes :
          \/ d[y] = NoCall
          \/ d[y].item \in DOMAIN p /\ p[d[y].item].kind = "function_call"
    BY <1>0, <1>6 DEF Core, Belong
  <2>3. \A i \in DOMAIN p :
          p[i].kind = "function_call" => \E y \in CallIndexes : d[y].item = i
    <3>1. TAKE i \in DOMAIN p
    <3>2. CASE i = n + 1
      BY <1>6, <3>2
    <3>3. CASE i \in DOMAIN o
      <4>1. HAVE p[i].kind = "function_call"
      <4>2. PICK y \in CallIndexes : b[y].item = i
        BY <1>0, <3>3, <4>1 DEF Core, Belong
      <4>3. y # x
        BY <1>0, <1>7, <3>3, <4>2
      <4>4. QED
        BY <1>6, <4>2, <4>3
    <3>4. QED
      BY <1>0, <3>2, <3>3
  <2>4. \A y, z \in CallIndexes : d[y].item = d[z].item /\ d[y].item # 0 => y = z
    <3>1. \A y \in CallIndexes : y # x => d[y].item # n + 1
      <4>1. TAKE y \in CallIndexes
      <4>2. HAVE y # x
      <4>3. b[y].item = 0 \/ b[y].item \in DOMAIN o
        BY DEF Core, Belong, NoCall
      <4>4. QED
        BY <1>0, <1>6, <4>2, <4>3
    <3>2. QED
      BY <1>6, <3>1 DEF Core, Belong
  <2>5. QED
    BY <2>1, <2>2, <2>3, <2>4 DEF Belong
<1>9. Counted(p, d, v)
  BY <1>0, <1>4, <1>5, <1>6 DEF Core, Counted
<1>10. QED
  BY <1>0, <1>2, <1>3, <1>6, <1>8, <1>9 DEF Core, n, p, v, d

(* A piece of text or reasoning reaches its item and the client.           *)
LEMMA OnePiece ==
    ASSUME NEW it \in Item
    PROVE  LET more == [it EXCEPT !.pieces = @ + 1]
           IN  /\ more \in Item
               /\ more.kind = it.kind /\ more.open = it.open /\ more.pieces = it.pieces + 1
               /\ more = [kind |-> it.kind, pieces |-> it.pieces + 1, open |-> it.open,
                          given |-> it.given, status |-> it.status]
BY DEF Item

LEMMA PieceType ==
    ASSUME NEW o \in Seq(Item), NEW i \in DOMAIN o
    PROVE  /\ Piece(o, i) \in Seq(Item) /\ Len(Piece(o, i)) = Len(o)
           /\ DOMAIN Piece(o, i) = DOMAIN o
           /\ Piece(o, i)[i] = [o[i] EXCEPT !.pieces = @ + 1]
           /\ Piece(o, i)[i].pieces = o[i].pieces + 1
           /\ \A j \in DOMAIN o : /\ Piece(o, i)[j].kind = o[j].kind
                                  /\ Piece(o, i)[j].open = o[j].open
                                  /\ j # i => Piece(o, i)[j] = o[j]
<1> DEFINE p == Piece(o, i)
           it == [o[i] EXCEPT !.pieces = @ + 1]
<1>1. o \in [DOMAIN o -> Item] /\ o[i] \in Item
  BY LenProperties
<1>2. /\ it \in Item /\ it.kind = o[i].kind /\ it.open = o[i].open
      /\ it.pieces = o[i].pieces + 1
  BY <1>1, OnePiece
<1>3. p = [o EXCEPT ![i] = it]
  BY DEF Piece
<1> HIDE DEF p, it
<1>4. p \in [DOMAIN o -> Item]
  BY <1>1, <1>2, <1>3
<1>5. p \in Seq(Item) /\ Len(p) = Len(o) /\ DOMAIN p = DOMAIN o
  BY <1>4, SameLength, LenProperties
<1>6. p[i] = it /\ \A j \in DOMAIN o : j # i => p[j] = o[j]
  BY <1>1, <1>3
<1>7. QED
  BY <1>2, <1>5, <1>6 DEF p, it

LEMMA CorePiece ==
    ASSUME NEW o, NEW b, NEW w, Core(o, b, w),
           NEW i \in DOMAIN o, o[i].kind # "function_call",
           NEW e \in Event, e.type \in DeltaTypes, e.item = i, e.index \in 0..Len(o)
    PROVE  Core(Piece(o, i), b, Append(w, e))
<1> DEFINE v == Append(w, e)
           p == Piece(o, i)
<1>0. o \in Seq(Item) /\ Len(o) \in Nat /\ DOMAIN o = 1..Len(o)
  BY LenProperties DEF Core
<1>1. /\ p \in Seq(Item) /\ Len(p) = Len(o) /\ DOMAIN p = DOMAIN o
      /\ p[i].pieces = o[i].pieces + 1
      /\ \A j \in DOMAIN o : p[j].kind = o[j].kind /\ (j # i => p[j] = o[j])
  BY ZenonT(30), <1>0, PieceType
<1>2. w \in Seq(Event) /\ Sent(Len(o), w)
  BY DEF Core, Sent
<1>3. Sent(Len(o), v)
  BY <1>0, <1>2, OneMore DEF DeltaTypes
<1>4. GoesOn(v)
  BY <1>2, GoneOn DEF Core, DeltaTypes, Terminals
<1>5. /\ \A j \in DOMAIN o : j # i => PiecesSent(v, j) = PiecesSent(w, j)
      /\ Cardinality(PiecesSent(v, i)) = Cardinality(PiecesSent(w, i)) + 1
  BY <1>2, PiecesAppended
<1> HIDE DEF p, v
<1>6. Belong(p, b)
  BY <1>1 DEF Core, Belong
<1>7. Counted(p, b, v)
  <2>1. \A j \in DOMAIN p :
          p[j].kind # "function_call" => Cardinality(PiecesSent(v, j)) = p[j].pieces
    BY <1>1, <1>5 DEF Core, Counted
  <2>2. ASSUME NEW x \in CallIndexes, b[x].item # 0
        PROVE  b[x].item \in DOMAIN o /\ b[x].item # i
    BY <2>2 DEF Core, Belong, NoCall
  <2>3. QED
    BY <1>5, <2>1, <2>2 DEF Core, Counted
<1>8. Core(p, b, v)
  BY <1>1, <1>3, <1>4, <1>6, <1>7 DEF Core
<1>9. QED
  BY <1>8 DEF p, v

(* An id that comes late changes the builder only.                         *)
LEMMA CoreGiven ==
    ASSUME NEW o, NEW b, NEW w, Core(o, b, w),
           NEW x \in CallIndexes, b[x] # NoCall, NEW given \in BOOLEAN
    PROVE  /\ Core(o, Given(b, x, given), w)
           /\ Given(b, x, given)[x].item = b[x].item /\ Given(b, x, given)[x] # NoCall
<1> DEFINE d == Given(b, x, given)
<1>1. b \in [CallIndexes -> Builder] /\ b[x] \in Builder
  BY DEF Core
<1>2. [b[x] EXCEPT !.given = given] \in Builder
  BY <1>1 DEF Builder
<1>3. /\ d \in [CallIndexes -> Builder]
      /\ d[x].item = b[x].item /\ d[x].pieces = b[x].pieces
      /\ \A y \in CallIndexes : y # x => d[y] = b[y]
  BY <1>1, <1>2 DEF Builder, Given
<1>4. b[x].item \in DOMAIN o /\ o[b[x].item].kind = "function_call" /\ 0 \notin DOMAIN o
  BY LenProperties DEF Core, Belong
<1> HIDE DEF d
<1>5. \A y \in CallIndexes : d[y].item = b[y].item /\ d[y].pieces = b[y].pieces
  BY <1>3
<1>6. Belong(o, d)
  BY <1>3, <1>4, <1>5 DEF Core, Belong
<1>7. Counted(o, d, w)
  BY <1>5 DEF Core, Counted
<1>8. Core(o, d, w) /\ d[x] # NoCall
  BY <1>3, <1>4, <1>6, <1>7 DEF Core, NoCall
<1>9. QED
  BY <1>3, <1>8 DEF d

(* A piece of a call's arguments reaches its builder and the client.       *)
LEMMA CoreArguments ==
    ASSUME NEW o, NEW b, NEW w, Core(o, b, w),
           NEW x \in CallIndexes, b[x] # NoCall
    PROVE  Core(o, Argued(b, x),
                Append(w, OfItem("arguments_delta", b[x].item)))
<1> DEFINE d == Argued(b, x)
           i == b[x].item
           e == OfItem("arguments_delta", i)
           v == Append(w, e)
<1>1. b \in [CallIndexes -> Builder] /\ b[x] \in Builder
  BY DEF Core
<1>2. [b[x] EXCEPT !.pieces = @ + 1] \in Builder
  BY <1>1 DEF Builder
<1>3. /\ d \in [CallIndexes -> Builder]
      /\ d[x].item = i /\ d[x].pieces = b[x].pieces + 1
      /\ \A y \in CallIndexes : y # x => d[y] = b[y]
  BY <1>1, <1>2 DEF Builder, Argued
<1>4. /\ i \in DOMAIN o /\ o[i].kind = "function_call"
      /\ o \in Seq(Item) /\ Len(o) \in Nat /\ DOMAIN o = 1..Len(o)
  BY LenProperties DEF Core, Belong
<1>5. /\ e \in Event /\ e.type = "arguments_delta" /\ e.item = i /\ e.index = i
      /\ i \in 0..Len(o) /\ i # 0
  BY <1>4 DEF OfItem, Event, ItemEvents
<1>6. w \in Seq(Event) /\ Sent(Len(o), w)
  BY DEF Core, Sent
<1> HIDE DEF e
<1>7. Sent(Len(o), v)
  BY <1>4, <1>5, <1>6, OneMore
<1>8. GoesOn(v)
  BY <1>5, <1>6, GoneOn DEF Core, Terminals
<1>9. /\ \A j : j # i => PiecesSent(v, j) = PiecesSent(w, j)
      /\ Cardinality(PiecesSent(v, i)) = Cardinality(PiecesSent(w, i)) + 1
  BY <1>5, <1>6, PiecesAppended DEF DeltaTypes
<1>10. \A y \in CallIndexes : y # x => b[y].item # i
  BY <1>5 DEF Core, Belong
<1> HIDE DEF d, v
<1>11. \A y \in CallIndexes : d[y].item = b[y].item
  BY <1>3
<1>12. Belong(o, d)
  <2>1. \A y \in CallIndexes :
          \/ d[y] = NoCall
          \/ d[y].item \in DOMAIN o /\ o[d[y].item].kind = "function_call"
    BY <1>3, <1>4 DEF Core, Belong
  <2>2. QED
    BY <1>11, <2>1 DEF Core, Belong
<1>13. Counted(o, d, v)
  <2>1. \A j \in DOMAIN o :
          o[j].kind # "function_call" => Cardinality(PiecesSent(v, j)) = o[j].pieces
    BY <1>4, <1>9 DEF Core, Counted
  <2>2. ASSUME NEW y \in CallIndexes, d[y].item # 0
        PROVE  Cardinality(PiecesSent(v, d[y].item)) = d[y].pieces
    <3>1. CASE y = x
      BY <1>3, <1>5, <1>9, <3>1 DEF Core, Counted
    <3>2. CASE y # x
      BY <1>3, <1>9, <1>10, <2>2, <3>2 DEF Core, Counted
    <3>3. QED
      BY <3>1, <3>2
  <2>3. QED
    BY <2>1, <2>2 DEF Counted
<1>14. QED
  BY <1>3, <1>7, <1>8, <1>12, <1>13 DEF Core, d, v, e

----------------------------------------------------------------------------
(* The texts.                                                              *)

(* A text is kept by what does not touch the items of its kind.            *)
LEMMA HoldsKept ==
    ASSUME NEW o, NEW p, NEW kind, NEW n, Holds(o, kind, n),
           \A i \in DOMAIN o : i \in DOMAIN p /\ p[i].kind = o[i].kind
                                 /\ (o[i].kind = kind => p[i].pieces = o[i].pieces),
           \A i \in DOMAIN p : i \in DOMAIN o \/ p[i].kind # kind
    PROVE  Holds(p, kind, n)
<1>1. {i \in DOMAIN p : p[i].kind = kind} = {i \in DOMAIN o : o[i].kind = kind}
  OBVIOUS
<1>2. QED
  BY <1>1 DEF Holds

(* One more piece.                                                         *)
LEMMA HoldsMore ==
    ASSUME NEW o, NEW p, NEW kind, NEW n \in Nat, Holds(o, kind, n),
           NEW i \in DOMAIN o, o[i].kind = kind, DOMAIN p = DOMAIN o,
           \A j \in DOMAIN o : p[j].kind = o[j].kind,
           p[i].pieces = o[i].pieces + 1
    PROVE  Holds(p, kind, n + 1)
<1>1. {j \in DOMAIN p : p[j].kind = kind} = {j \in DOMAIN o : o[j].kind = kind}
  OBVIOUS
<1>2. {j \in DOMAIN o : o[j].kind = kind} = {i} /\ o[i].pieces = n
  BY DEF Holds
<1>3. QED
  BY <1>1, <1>2 DEF Holds

(* The first piece, in the first item of the kind.                         *)
LEMMA HoldsFirst ==
    ASSUME NEW o, NEW p, NEW kind, NEW n \in Nat, Holds(o, kind, n),
           \A i \in DOMAIN o : o[i].kind # kind,
           NEW k \in DOMAIN p, p[k].kind = kind, p[k].pieces = 1,
           \A i \in DOMAIN p : i # k => i \in DOMAIN o /\ p[i].kind = o[i].kind
    PROVE  Holds(p, kind, n + 1)
<1>1. n = 0
  BY DEF Holds
<1>2. {i \in DOMAIN p : p[i].kind = kind} = {k}
  OBVIOUS
<1>3. QED
  BY <1>1, <1>2 DEF Holds

----------------------------------------------------------------------------
(* The operations of the converter, one event after the other.             *)

(* The event of an item.                                                   *)
LEMMA OfItemType ==
    ASSUME NEW type \in ItemEvents, NEW n \in Nat, NEW i \in 0..n
    PROVE  /\ OfItem(type, i) \in Event
           /\ OfItem(type, i).type = type
           /\ OfItem(type, i).item = i /\ OfItem(type, i).index = i
BY DEF OfItem, Event

(* An item that is added with its first piece.                             *)
LEMMA FirstPiece ==
    ASSUME NEW o \in Seq(Item), NEW none \in Item, NEW one \in Item,
           one = [none EXCEPT !.pieces = @ + 1]
    PROVE  Append(o, one) = Piece(Append(o, none), Len(o) + 1)
<1> DEFINE p == Append(o, one)
           q == Append(o, none)
<1>1. /\ p \in Seq(Item) /\ Len(p) = Len(o) + 1 /\ DOMAIN p = 1 .. Len(o) + 1
      /\ \A i \in 1..Len(o) : p[i] = o[i]
      /\ p[Len(o) + 1] = one /\ Len(o) \in Nat
  BY Appended
<1>2. /\ q \in Seq(Item) /\ Len(q) = Len(o) + 1 /\ DOMAIN q = 1 .. Len(o) + 1
      /\ \A i \in 1..Len(o) : q[i] = o[i]
      /\ q[Len(o) + 1] = none
  BY Appended
<1> HIDE DEF p, q
<1> DEFINE n == Len(o) + 1
           r == Piece(q, n)
<1>3. n \in DOMAIN q
  BY <1>1, <1>2
<1>4. /\ r \in Seq(Item) /\ Len(r) = Len(q)
      /\ r[n] = [q[n] EXCEPT !.pieces = @ + 1]
      /\ \A j \in DOMAIN q : j # n => r[j] = q[j]
  BY <1>2, <1>3, PieceType
<1> HIDE DEF r
<1>5. r[n] = p[n]
  BY <1>1, <1>2, <1>4
<1>6. \A j \in 1..Len(p) : p[j] = r[j]
  <2>1. TAKE j \in 1..Len(p)
  <2>2. CASE j = n
    BY <1>5, <2>2
  <2>3. CASE j # n
    BY <1>1, <1>2, <1>4, <2>3
  <2>4. QED
    BY <2>2, <2>3
<1>7. Len(p) = Len(r)
  BY <1>1, <1>2, <1>4
<1>8. p = r
  BY <1>1, <1>4, <1>6, <1>7, SeqEqual
<1>9. QED
  BY <1>8 DEF p, q, r

LEMMA ReasoningFound ==
    ASSUME NEW o, NEW b, NEW w, NEW text \in Nat, NEW reasoning \in Nat,
           Good(o, b, w, text, reasoning),
           NEW i \in DOMAIN o, o[i].kind = "reasoning"
    PROVE  Good(Piece(o, i), b, Append(w, OfItem("reasoning_delta", i)), text, reasoning + 1)
<1> DEFINE e == OfItem("reasoning_delta", i)
           p == Piece(o, i)
<1>1. /\ Core(o, b, w) /\ FirstOpen(o)
      /\ o \in Seq(Item) /\ DOMAIN o = 1..Len(o) /\ Len(o) \in Nat
      /\ Holds(o, "message", text) /\ Holds(o, "reasoning", reasoning)
      /\ o # <<>> /\ 1 \in DOMAIN o
  BY LenProperties, EmptySeq DEF Good, Core
<1>2. e \in Event /\ e.type \in DeltaTypes /\ e.item = i /\ e.index \in 0..Len(o)
  BY <1>1, OfItemType DEF ItemEvents, DeltaTypes
<1> HIDE DEF e
<1>3. Core(p, b, Append(w, e))
  BY <1>1, <1>2, CorePiece
<1>4. /\ p \in Seq(Item) /\ DOMAIN p = DOMAIN o
      /\ p[i].pieces = o[i].pieces + 1
      /\ \A j \in DOMAIN o : /\ p[j].kind = o[j].kind /\ p[j].open = o[j].open
                             /\ j # i => p[j] = o[j]
  BY ZenonT(30), <1>1, PieceType
<1> HIDE DEF p
<1>5. FirstOpen(p)
  BY <1>1, <1>4 DEF FirstOpen
<1>6. Holds(p, "reasoning", reasoning + 1)
  BY <1>1, <1>4, HoldsMore
<1>7. Holds(p, "message", text)
  BY <1>1, <1>4, HoldsKept
<1>8. QED
  BY <1>3, <1>5, <1>6, <1>7 DEF Good, e, p

LEMMA ReasoningNew ==
    ASSUME NEW o, NEW b, NEW w, NEW text \in Nat, NEW reasoning \in Nat,
           Good(o, b, w, text, reasoning),
           \A j \in DOMAIN o : o[j].kind # "reasoning",
           NEW i, i = Len(o) + 1
    PROVE  Good(Append(o, NewItem("reasoning", 1, FALSE)), b,
                Append(Append(w, OfItem("item_added", i)), OfItem("reasoning_delta", i)),
                text, reasoning + 1)
<1> DEFINE a == OfItem("item_added", i)
           e == OfItem("reasoning_delta", i)
           none == NewItem("reasoning", 0, FALSE)
           one == NewItem("reasoning", 1, FALSE)
           q == Append(o, none)
           p == Append(o, one)
<1>1. /\ Core(o, b, w) /\ FirstOpen(o) /\ o \in Seq(Item)
      /\ DOMAIN o = 1..Len(o) /\ Len(o) \in Nat
      /\ Holds(o, "message", text) /\ Holds(o, "reasoning", reasoning)
  BY LenProperties DEF Good, Core
<1>2. /\ none \in Item /\ one \in Item
      /\ none.kind = "reasoning" /\ none.pieces = 0 /\ ~none.open
      /\ one.kind = "reasoning" /\ one.pieces = 1 /\ ~one.open
  BY DEF NewItem, Item, Kinds
<1>3. one = [none EXCEPT !.pieces = @ + 1]
  <2>1. one = [kind |-> none.kind, pieces |-> none.pieces + 1, open |-> none.open,
               given |-> none.given, status |-> none.status]
    BY DEF NewItem
  <2> HIDE DEF none, one
  <2>2. QED
    BY <1>2, <2>1, OnePiece
<1> HIDE DEF none, one
<1>4. /\ Len(q) = i /\ i \in DOMAIN q /\ i \in 1..Len(q) /\ q[i] = none
  BY <1>1, <1>2, Appended
<1>5. p = Piece(q, i)
  BY <1>1, <1>2, <1>3, FirstPiece
<1>6. Core(q, b, Append(w, a))
  BY <1>1, <1>2, CoreAnnounced
<1>7. e \in Event /\ e.type \in DeltaTypes /\ e.item = i /\ e.index \in 0..Len(q)
  BY <1>1, <1>4, OfItemType DEF ItemEvents, DeltaTypes
<1>8. /\ DOMAIN p = 1 .. Len(o) + 1 /\ \A j \in 1..Len(o) : p[j] = o[j]
      /\ p[Len(o) + 1] = one
  BY <1>1, <1>2, Appended
<1> HIDE DEF a, e, q, p
<1>9. Core(p, b, Append(Append(w, a), e))
  BY <1>2, <1>4, <1>5, <1>6, <1>7, CorePiece
<1>10. /\ i \in DOMAIN p /\ p[i] = one /\ (o = <<>> => i = 1)
       /\ \A j \in DOMAIN o : j \in DOMAIN p /\ p[j] = o[j]
       /\ \A j \in DOMAIN p : j # i => j \in DOMAIN o /\ p[j] = o[j]
  BY <1>1, <1>8
<1>11. FirstOpen(p)
  <2>1. CASE o = <<>>
    BY <1>2, <1>10, <2>1 DEF FirstOpen
  <2>2. CASE o # <<>>
    <3>1. 1 \in DOMAIN o
      BY <1>1, <2>2, EmptySeq
    <3>2. QED
      BY <1>1, <1>2, <1>10, <2>2, <3>1 DEF FirstOpen
  <2>3. QED
    BY <2>1, <2>2
<1>12. Holds(p, "reasoning", reasoning + 1)
  BY <1>1, <1>2, <1>10, HoldsFirst
<1>13. Holds(p, "message", text)
  <2>1. \A j \in DOMAIN p : j \in DOMAIN o \/ p[j].kind # "message"
    BY <1>2, <1>10
  <2>2. QED
    BY <1>1, <1>10, <2>1, HoldsKept
<1>14. QED
  BY <1>9, <1>11, <1>12, <1>13 DEF Good, a, e, p, one

LEMMA TextFound ==
    ASSUME NEW o, NEW b, NEW w, NEW text \in Nat, NEW reasoning \in Nat,
           Good(o, b, w, text, reasoning),
           NEW i \in DOMAIN o, o[i].kind = "message",
           NEW e \in Event, e.type = "text_delta", e.item = i, e.index = Len(o)
    PROVE  /\ o[1].open /\ Mark(o) = o
           /\ Good(Piece(o, i), b, Append(w, e), text + 1, reasoning)
<1> DEFINE p == Piece(o, i)
<1>1. /\ Core(o, b, w) /\ FirstOpen(o)
      /\ o \in Seq(Item) /\ DOMAIN o = 1..Len(o) /\ Len(o) \in Nat
      /\ Holds(o, "message", text) /\ Holds(o, "reasoning", reasoning)
      /\ o # <<>> /\ 1 \in DOMAIN o
  BY LenProperties, EmptySeq DEF Good, Core
<1>2. o[1].open /\ Mark(o) = o
  BY <1>1, MarkType DEF FirstOpen
<1>3. e.type \in DeltaTypes /\ e.index \in 0..Len(o)
  BY <1>1 DEF DeltaTypes
<1>4. Core(p, b, Append(w, e))
  BY <1>1, <1>3, CorePiece
<1>5. /\ p \in Seq(Item) /\ DOMAIN p = DOMAIN o
      /\ p[i].pieces = o[i].pieces + 1
      /\ \A j \in DOMAIN o : /\ p[j].kind = o[j].kind /\ p[j].open = o[j].open
                             /\ j # i => p[j] = o[j]
  BY <1>1, PieceType
<1> HIDE DEF p
<1>6. FirstOpen(p)
  BY <1>1, <1>5 DEF FirstOpen
<1>7. Holds(p, "message", text + 1)
  BY <1>1, <1>5, HoldsMore
<1>8. Holds(p, "reasoning", reasoning)
  BY <1>1, <1>5, HoldsKept
<1>9. QED
  BY <1>2, <1>4, <1>6, <1>7, <1>8 DEF Good, p

(* The events of a message's first piece.                                  *)
FirstTextEvents(i) ==
    <<OfItem("item_added", i), OfItem("part_added", i)>> \o <<OfItem("text_delta", i)>>

FirstText(w, i) ==
    Append(Append(Append(w, OfItem("item_added", i)), OfItem("part_added", i)),
           OfItem("text_delta", i))

LEMMA FirstTextWritten ==
    ASSUME NEW w \in Seq(Event), NEW ev \in Seq(Event), NEW i \in Nat
    PROVE  /\ w \o (ev \o FirstTextEvents(i)) = FirstText(w \o ev, i)
           /\ ev \o FirstTextEvents(i) \in Seq(Event)
<1> DEFINE more == FirstTextEvents(i)
           a == OfItem("item_added", i)
           h == OfItem("part_added", i)
           e == OfItem("text_delta", i)
<1>1. a \in Event /\ h \in Event /\ e \in Event
  BY DEF OfItem, Event, ItemEvents
<1>2. FirstText(w \o ev, i) = Append(Append(Append(w \o ev, a), h), e)
  BY DEF FirstText
<1>3. more = <<a, h>> \o <<e>>
  BY DEF FirstTextEvents
<1> HIDE DEF a, h, e, more
<1>4. more = <<a, h, e>>
  BY <1>1, <1>3, TwoAndOne
<1>5. more \in Seq(Event)
  BY <1>1, <1>4
<1> DEFINE v == w \o ev
<1>6. v \in Seq(Event)
  BY ConcatProperties
<1> HIDE DEF v
<1>7. v \o more = Append(Append(Append(v, a), h), e)
  BY <1>1, <1>4, <1>6
<1>8. w \o (ev \o more) = v \o more /\ ev \o more \in Seq(Event)
  BY <1>5, WrittenAfter DEF v
<1>9. w \o (ev \o more) = FirstText(v, i)
  BY <1>2, <1>7, <1>8, Zenon DEF v
<1>10. QED
  BY <1>8, <1>9 DEF v, more

WithMessage(o) == Append(o, NewItem("message", 0, FALSE))

LEMMA TextNew ==
    ASSUME NEW o, NEW b, NEW w, NEW text \in Nat, NEW reasoning \in Nat,
           Good(o, b, w, text, reasoning),
           \A j \in DOMAIN o : o[j].kind # "message",
           NEW i, i = Len(o) + 1
    PROVE  /\ ~WithMessage(o)[1].open /\ Len(WithMessage(o)) = i
           /\ {j \in DOMAIN WithMessage(o) : WithMessage(o)[j].kind = "message"} = {i}
           /\ Good(Piece(Mark(WithMessage(o)), i), b, FirstText(w, i), text + 1, reasoning)
<1> DEFINE q == WithMessage(o)
           a == OfItem("item_added", i)
           d == OfItem("part_added", i)
           e == OfItem("text_delta", i)
           none == NewItem("message", 0, FALSE)
           m == Mark(q)
           p == Piece(m, i)
<1>1. /\ Core(o, b, w) /\ FirstOpen(o) /\ o \in Seq(Item)
      /\ DOMAIN o = 1..Len(o) /\ Len(o) \in Nat
      /\ Holds(o, "message", text) /\ Holds(o, "reasoning", reasoning)
  BY LenProperties DEF Good, Core
<1>2. none \in Item /\ none.kind = "message" /\ none.pieces = 0 /\ ~none.open
  BY DEF NewItem, Item, Kinds
<1>3. q = Append(o, none)
  BY DEF WithMessage, none
<1> HIDE DEF none, m, p, q
<1>4. /\ q \in Seq(Item) /\ Len(q) = i /\ DOMAIN q = 1..i /\ i \in DOMAIN q /\ i \in 0..i
      /\ \A j \in 1..Len(o) : q[j] = o[j]
      /\ q[i] = none /\ q # <<>>
  <2>1. /\ Append(o, none) \in Seq(Item) /\ Len(Append(o, none)) = Len(o) + 1
        /\ DOMAIN Append(o, none) = 1 .. Len(o) + 1
        /\ \A j \in 1..Len(o) : Append(o, none)[j] = o[j]
        /\ Append(o, none)[Len(o) + 1] = none
    BY <1>1, <1>2, Appended
  <2>2. /\ q \in Seq(Item) /\ Len(q) = i /\ DOMAIN q = 1..i
        /\ \A j \in 1..Len(o) : q[j] = o[j]
        /\ q[i] = none
    BY <1>3, <2>1, Zenon
  <2>3. i \in 1..i /\ i \in 0..i /\ i # 0
    BY <1>1
  <2>4. q # <<>>
    BY <2>2, <2>3, EmptySeq
  <2>5. QED
    BY <2>2, <2>3, <2>4
<1>5. /\ i \notin DOMAIN o /\ \A j \in DOMAIN o : j \in DOMAIN q /\ q[j] = o[j]
      /\ \A j \in DOMAIN q : j # i => j \in DOMAIN o
      /\ 1 \in DOMAIN q
  BY <1>1, <1>4
<1>6. ~q[1].open
  <2>1. CASE 1 = i
    BY <1>2, <1>4, <2>1
  <2>2. CASE 1 # i
    <3>1. 1 \in DOMAIN o /\ o # <<>>
      BY <1>1, <1>5, <2>2, EmptySeq
    <3>2. QED
      BY <1>1, <1>5, <3>1 DEF FirstOpen
  <2>3. QED
    BY <2>1, <2>2
<1>7. \A j \in DOMAIN q : q[j].kind = "message" <=> j = i
  BY <1>2, <1>4, <1>5
<1>8. Core(q, b, Append(w, a))
  BY <1>1, <1>2, <1>3, CoreAnnounced
<1>9. Core(m, b, Append(w, a))
  BY <1>4, <1>8, CoreMarked DEF m
<1>10. /\ m \in Seq(Item) /\ Len(m) = Len(q) /\ DOMAIN m = DOMAIN q /\ m[1].open
       /\ \A j \in DOMAIN q : m[j].kind = q[j].kind /\ m[j].pieces = q[j].pieces
  BY <1>4, MarkType DEF m
<1>11. /\ d \in Event /\ d.type = "part_added" /\ d.item = i /\ d.index = i
       /\ e \in Event /\ e.type = "text_delta" /\ e.item = i /\ e.index = i
  BY <1>1, <1>4, OfItemType DEF ItemEvents
<1> HIDE DEF a, d, e
<1>12. Core(m, b, Append(Append(w, a), d))
  BY <1>4, <1>9, <1>10, <1>11, CoreNeutral DEF DeltaTypes, Terminals
<1>13. m[i].kind # "function_call"
  BY <1>4, <1>7, <1>10
<1>14. Core(p, b, Append(Append(Append(w, a), d), e))
  BY <1>4, <1>10, <1>11, <1>12, <1>13, CorePiece DEF DeltaTypes, p
<1>15. /\ DOMAIN p = DOMAIN m
       /\ p[i].pieces = m[i].pieces + 1
       /\ \A j \in DOMAIN m : /\ p[j].kind = m[j].kind /\ p[j].open = m[j].open
                              /\ j # i => p[j] = m[j]
  <2>1. m \in Seq(Item) /\ i \in DOMAIN m
    BY <1>4, <1>10
  <2>2. QED
    BY ZenonT(30), <2>1, PieceType DEF p
<1>16. /\ DOMAIN p = DOMAIN q /\ p[1].open /\ p[i].pieces = 1
       /\ \A j \in DOMAIN q : p[j].kind = q[j].kind /\ (j # i => p[j].pieces = q[j].pieces)
  <2>1. m[i].pieces = 0
    BY <1>2, <1>4, <1>10
  <2>2. DOMAIN p = DOMAIN q /\ p[1].open /\ p[i].pieces = 1
    BY <1>5, <1>10, <1>15, <2>1
  <2>3. \A j \in DOMAIN q : p[j].kind = q[j].kind /\ (j # i => p[j].pieces = q[j].pieces)
    BY <1>10, <1>15
  <2>4. QED
    BY <2>2, <2>3
<1>17. FirstOpen(p)
  BY <1>4, <1>7, <1>16 DEF FirstOpen
<1>18. Holds(p, "message", text + 1)
  <2>1. p[i].kind = "message" /\ \A j \in DOMAIN p : j # i => j \in DOMAIN o /\ p[j].kind = o[j].kind
    BY <1>4, <1>5, <1>7, <1>16
  <2>2. QED
    BY SMTT(30), <1>1, <1>4, <1>16, <2>1, HoldsFirst
<1>19. Holds(p, "reasoning", reasoning)
  <2>1. /\ \A j \in DOMAIN o : j \in DOMAIN p /\ p[j].kind = o[j].kind /\ p[j].pieces = o[j].pieces
        /\ \A j \in DOMAIN p : j \in DOMAIN o \/ p[j].kind # "reasoning"
    BY <1>4, <1>5, <1>7, <1>16
  <2>2. QED
    BY <1>1, <2>1, HoldsKept
<1>20. QED
  <2>1. {j \in DOMAIN q : q[j].kind = "message"} = {i}
    BY <1>4, <1>7
  <2>2. Good(p, b, FirstText(w, i), text + 1, reasoning)
    BY <1>14, <1>17, <1>18, <1>19 DEF Good, FirstText, a, d, e
  <2>3. QED
    BY <1>4, <1>6, <2>1, <2>2 DEF m, p, q

LEMMA CallNew ==
    ASSUME NEW o, NEW b, NEW w, NEW text \in Nat, NEW reasoning \in Nat,
           Good(o, b, w, text, reasoning),
           NEW x \in CallIndexes, b[x] = NoCall, NEW given \in BOOLEAN
    PROVE  Good(Append(o, NewItem("function_call", 0, given)),
                Opened(b, x, Len(o) + 1, given), Append(w, OfItem("item_added", Len(o) + 1)), text, reasoning)
<1> DEFINE it == NewItem("function_call", 0, given)
           p == Append(o, it)
<1>1. /\ Core(o, b, w) /\ FirstOpen(o) /\ o \in Seq(Item)
      /\ DOMAIN o = 1..Len(o) /\ Len(o) \in Nat
      /\ Holds(o, "message", text) /\ Holds(o, "reasoning", reasoning)
  BY LenProperties DEF Good, Core
<1>2. it \in Item /\ it.kind = "function_call" /\ ~it.open
  BY DEF NewItem, Item, Kinds
<1> HIDE DEF it
<1>3. /\ DOMAIN p = 1 .. Len(o) + 1
      /\ \A j \in 1..Len(o) : p[j] = o[j]
      /\ p[Len(o) + 1] = it
  BY <1>1, <1>2, Appended
<1>4. Core(p, Opened(b, x, Len(o) + 1, given), Append(w, OfItem("item_added", Len(o) + 1)))
  BY <1>1, <1>2, CoreCalled
<1> HIDE DEF p
<1>5. /\ \A j \in DOMAIN o : j \in DOMAIN p /\ p[j] = o[j]
      /\ \A j \in DOMAIN p : j \in DOMAIN o \/ p[j] = it
      /\ 1 \in DOMAIN p /\ (o # <<>> => 1 \in DOMAIN o)
  BY <1>1, <1>3, EmptySeq
<1>6. FirstOpen(p)
  <2>1. CASE o = <<>>
    BY <1>2, <1>1, <1>5, <2>1 DEF FirstOpen
  <2>2. CASE o # <<>>
    BY <1>1, <1>2, <1>5, <2>2 DEF FirstOpen
  <2>3. QED
    BY <2>1, <2>2
<1>7. Holds(p, "message", text) /\ Holds(p, "reasoning", reasoning)
  <2>1. \A j \in DOMAIN p : j \in DOMAIN o \/ (p[j].kind # "message" /\ p[j].kind # "reasoning")
    BY <1>2, <1>5
  <2>2. QED
    BY <1>1, <1>5, <2>1, HoldsKept
<1>8. QED
  BY <1>4, <1>6, <1>7 DEF Good, p, it

----------------------------------------------------------------------------
(* The operations of the converter.                                        *)

State == [outputs: Seq(Item), calls: [CallIndexes -> Builder], events: Seq(Event)]

GoodAt(c, text, reasoning) ==
    c \in State /\ Good(c.outputs, c.calls, wire \o c.events, text, reasoning)

StateOf(o, b, ev) == [outputs |-> o, calls |-> b, events |-> ev]

LEMMA StateMade ==
    ASSUME NEW o, NEW b, NEW ev \in Seq(Event), NEW text, NEW reasoning,
           Good(o, b, wire \o ev, text, reasoning)
    PROVE  GoodAt(StateOf(o, b, ev), text, reasoning)
BY DEF GoodAt, State, StateOf, Good, Core

LEMMA StateTaken ==
    ASSUME NEW text, NEW reasoning, NEW c, GoodAt(c, text, reasoning)
    PROVE  \E o \in Seq(Item), b \in [CallIndexes -> Builder], ev \in Seq(Event) :
             /\ c = StateOf(o, b, ev)
             /\ Good(o, b, wire \o ev, text, reasoning)
             /\ Len(o) \in Nat /\ DOMAIN o = 1..Len(o)
<1>1. PICK o \in Seq(Item), b \in [CallIndexes -> Builder], ev \in Seq(Event) :
        c = [outputs |-> o, calls |-> b, events |-> ev]
  BY DEF GoodAt, State
<1>2. Good(o, b, wire \o ev, text, reasoning)
  BY <1>1 DEF GoodAt
<1>3. Len(o) \in Nat /\ DOMAIN o = 1..Len(o)
  BY LenProperties
<1>4. QED
  BY <1>1, <1>2, <1>3 DEF StateOf

(* What writing to a state changes.                                        *)
WithOutputs(c, p) == [c EXCEPT !.outputs = p]
Marked(c) == [c EXCEPT !.outputs[1].open = TRUE]

LEMMA StateWithOutputs ==
    ASSUME NEW o, NEW b, NEW ev, NEW p
    PROVE  WithOutputs(StateOf(o, b, ev), p) = StateOf(p, b, ev)
BY DEF WithOutputs, StateOf

LEMMA StateMarked ==
    ASSUME NEW o, NEW b, NEW ev
    PROVE  Marked(StateOf(o, b, ev)) = StateOf(Mark(o), b, ev)
<1> DEFINE c == StateOf(o, b, ev)
           m == [o EXCEPT ![1].open = TRUE]
<1>1. [c EXCEPT !.outputs = m] = StateOf(m, b, ev)
  <2> HIDE DEF m
  <2>1. QED
    BY DEF StateOf
<1>2. c.outputs = o
  BY DEF StateOf
<1> HIDE DEF c
<1>3. Marked(c) = StateOf(Mark(o), b, ev)
  BY <1>1, <1>2, Zenon DEF Mark, Marked
<1>4. QED
  BY <1>3 DEF c

LEMMA StateWithPiece ==
    ASSUME NEW o, NEW b, NEW ev, NEW i
    PROVE  AddPiece(StateOf(o, b, ev), i) = StateOf(Piece(o, i), b, ev)
BY DEF AddPiece, Piece, StateOf

LEMMA StateEmitting ==
    ASSUME NEW o, NEW b, NEW ev, NEW more
    PROVE  Emit(StateOf(o, b, ev), more) = StateOf(o, b, ev \o more)
<1> DEFINE c == StateOf(o, b, ev)
           m == ev \o more
<1>1. [c EXCEPT !.events = m] = StateOf(o, b, m)
  <2> HIDE DEF m
  <2>1. QED
    BY DEF StateOf
<1>2. c.events = ev
  BY DEF StateOf
<1> HIDE DEF c
<1>3. Emit(c, more) = StateOf(o, b, ev \o more)
  BY <1>1, <1>2, Zenon DEF Emit
<1>4. QED
  BY <1>3 DEF c

LEMMA ReasoningAppended ==
    ASSUME wire \in Seq(Event), NEW text \in Nat, NEW reasoning \in Nat,
           NEW c, GoodAt(c, text, reasoning)
    PROVE  GoodAt(AppendReasoning(c), text, reasoning + 1)
<1>0. PICK o \in Seq(Item), b \in [CallIndexes -> Builder], ev \in Seq(Event) :
        /\ c = StateOf(o, b, ev)
        /\ Good(o, b, wire \o ev, text, reasoning)
        /\ Len(o) \in Nat /\ DOMAIN o = 1..Len(o)
  BY StateTaken
<1>1. c.outputs = o /\ c.calls = b /\ c.events = ev
  BY <1>0 DEF StateOf
<1>2. Positions(c, "reasoning") = {i \in DOMAIN o : o[i].kind = "reasoning"}
  BY <1>1 DEF Positions
<1>3. CASE Positions(c, "reasoning") # {}
  <2> DEFINE i == CHOOSE i \in Positions(c, "reasoning") : TRUE
             e == OfItem("reasoning_delta", i)
  <2>1. i \in DOMAIN o /\ o[i].kind = "reasoning"
    BY <1>2, <1>3
  <2>2. AppendReasoning(c) = Emit(AddPiece(c, i), <<e>>)
    BY <1>3, Zenon DEF AppendReasoning
  <2> HIDE DEF i
  <2>3. Good(Piece(o, i), b, Append(wire \o ev, e), text, reasoning + 1)
    BY <1>0, <2>1, ReasoningFound
  <2>4. i \in 0..Len(o)
    BY <1>0, <2>1
  <2>5. e \in Event
    BY <1>0, <2>4, OfItemType DEF ItemEvents
  <2> HIDE DEF e
  <2>6. wire \o (ev \o <<e>>) = Append(wire \o ev, e) /\ ev \o <<e>> \in Seq(Event)
    BY <2>5, WrittenOne
  <2>7. AppendReasoning(c) = StateOf(Piece(o, i), b, ev \o <<e>>)
    BY <1>0, <2>2, StateWithPiece, StateEmitting
  <2>8. QED
    BY <2>3, <2>6, <2>7, StateMade
<1>4. CASE Positions(c, "reasoning") = {}
  <2> DEFINE i == Len(o) + 1
             p == Append(o, NewItem("reasoning", 1, FALSE))
             a == OfItem("item_added", i)
             e == OfItem("reasoning_delta", i)
  <2> HIDE DEF p
  <2>1. AppendReasoning(c)
          = Emit(WithOutputs(c, p), <<a, e>>)
    <3>1. AppendReasoning(c)
            = Emit(WithOutputs(c, Append(c.outputs, NewItem("reasoning", 1, FALSE))),
                   <<OfItem("item_added", Len(c.outputs) + 1),
                     OfItem("reasoning_delta", Len(c.outputs) + 1)>>)
      BY <1>4, Zenon DEF AppendReasoning, WithOutputs
    <3>2. QED
      BY <1>1, <3>1, Zenon DEF p
  <2>2. Good(p, b, Append(Append(wire \o ev, a), e), text, reasoning + 1)
    BY <1>0, <1>2, <1>4, ReasoningNew DEF p
  <2>3. a \in Event /\ e \in Event
    <3>1. i \in Nat /\ i \in 0..i
      BY <1>0
    <3> HIDE DEF i
    <3>2. QED
      BY <3>1, OfItemType DEF ItemEvents
  <2> HIDE DEF a, e
  <2>4. wire \o (ev \o <<a, e>>) = Append(Append(wire \o ev, a), e) /\ ev \o <<a, e>> \in Seq(Event)
    BY <2>3, WrittenTwo
  <2>5. AppendReasoning(c) = StateOf(p, b, ev \o <<a, e>>)
    <3>1. WithOutputs(c, p) = StateOf(p, b, ev)
      BY <1>0, StateWithOutputs
    <3>2. QED
      BY <2>1, <3>1, StateEmitting
  <2>6. QED
    BY <2>2, <2>4, <2>5, StateMade
<1>5. QED
  BY <1>3, <1>4

LEMMA TextAppended ==
    ASSUME wire \in Seq(Event), NEW text \in Nat, NEW reasoning \in Nat,
           NEW c, GoodAt(c, text, reasoning)
    PROVE  GoodAt(AppendText(c), text + 1, reasoning)
<1>0. PICK o \in Seq(Item), b \in [CallIndexes -> Builder], ev \in Seq(Event) :
        /\ c = StateOf(o, b, ev)
        /\ Good(o, b, wire \o ev, text, reasoning)
        /\ Len(o) \in Nat /\ DOMAIN o = 1..Len(o)
  BY StateTaken
<1>1. c.outputs = o /\ c.calls = b /\ c.events = ev
  BY <1>0 DEF StateOf
<1>2. Positions(c, "message") = {i \in DOMAIN o : o[i].kind = "message"}
  BY <1>1 DEF Positions
<1>3. CASE Positions(c, "message") # {}
  <2> DEFINE i == CHOOSE i \in Positions(c, "message") : TRUE
             e == [type |-> "text_delta", item |-> i, index |-> Len(o)]
  <2>1. i \in DOMAIN o /\ o[i].kind = "message"
    BY <1>2, <1>3
  <2>2. EnsureMessageItem(c) = c
    BY <1>3 DEF EnsureMessageItem
  <2>3. e \in Event /\ e.type = "text_delta" /\ e.item = i /\ e.index = Len(o)
    BY <1>0, <2>1 DEF Event, ItemEvents
  <2>4. /\ o[1].open /\ Mark(o) = o
        /\ Good(Piece(o, i), b, Append(wire \o ev, e), text + 1, reasoning)
    <3> HIDE DEF e, i
    <3>1. QED
      BY <1>0, <2>1, <2>3, TextFound
  <2>5. AppendText(c) = Emit(AddPiece(Marked(c), i), <<>> \o <<e>>)
    <3>1. c.outputs[1].open /\ Len(c.outputs) = Len(o)
      BY <1>1, <2>4
    <3>2. QED
      BY <2>2, <3>1 DEF AppendText, Marked
  <2> HIDE DEF e, i
  <2>6. AppendText(c) = StateOf(Piece(Mark(o), i), b, ev \o (<<>> \o <<e>>))
    <3>1. Marked(c) = StateOf(Mark(o), b, ev)
      BY <1>0, StateMarked
    <3>2. QED
      BY <2>5, <3>1, StateWithPiece, StateEmitting
  <2>7. wire \o (ev \o <<e>>) = Append(wire \o ev, e) /\ ev \o <<e>> \in Seq(Event)
    BY <2>3, WrittenOne
  <2>8. <<>> \o <<e>> = <<e>>
    BY <2>3
  <2>9. QED
    BY <2>4, <2>6, <2>7, <2>8, StateMade
<1>4. CASE Positions(c, "message") = {}
  <2> DEFINE i == Len(o) + 1
             q == WithMessage(o)
             d == EnsureMessageItem(c)
             more == FirstTextEvents(i)
  <2> HIDE DEF q
  <2>1. d = StateOf(q, b, ev)
    <3>1. d = WithOutputs(c, Append(c.outputs, NewItem("message", 0, FALSE)))
      BY <1>4, Zenon DEF EnsureMessageItem, WithOutputs
    <3>2. d = WithOutputs(c, q)
      BY <1>1, <3>1, Zenon DEF q, WithMessage
    <3>3. QED
      BY <1>0, <3>2, StateWithOutputs
  <2> HIDE DEF i, d
  <2>2. /\ ~q[1].open /\ Len(q) = i /\ {j \in DOMAIN q : q[j].kind = "message"} = {i}
        /\ Good(Piece(Mark(q), i), b, FirstText(wire \o ev, i), text + 1, reasoning)
    <3>1. \A j \in DOMAIN o : o[j].kind # "message"
      BY <1>2, <1>4
    <3>2. i = Len(o) + 1
      BY DEF i
    <3> HIDE DEF more
    <3>3. QED
      BY <1>0, <3>1, <3>2, TextNew DEF q
  <2>3. (CHOOSE j \in Positions(d, "message") : TRUE) = i
    <3>1. d.outputs = q
      BY <2>1 DEF StateOf
    <3>2. Positions(d, "message") = {i}
      BY <2>2, <3>1 DEF Positions
    <3>3. QED
      BY <3>2
  <2>4. AppendText(c) = Emit(AddPiece(Marked(d), i), more)
    <3>1. ~d.outputs[1].open /\ Len(d.outputs) = i
      BY <2>1, <2>2 DEF StateOf
    <3>2. QED
      BY <2>3, <3>1 DEF AppendText, OfItem, Marked, FirstTextEvents, d
  <2> HIDE DEF more
  <2>5. AppendText(c) = StateOf(Piece(Mark(q), i), b, ev \o more)
    <3>1. Marked(d) = StateOf(Mark(q), b, ev)
      BY <2>1, StateMarked
    <3>2. QED
      BY <2>4, <3>1, StateWithPiece, StateEmitting
  <2>6. wire \o (ev \o more) = FirstText(wire \o ev, i) /\ ev \o more \in Seq(Event)
    <3>1. i \in Nat
      BY <1>0 DEF i
    <3>2. QED
      BY <3>1, FirstTextWritten DEF more
  <2>7. QED
    BY <2>2, <2>5, <2>6, StateMade
<1>5. QED
  BY <1>3, <1>4

WithCall(c, p, x, d) == [c EXCEPT !.outputs = p, !.calls[x] = d]
WithGiven(c, x, given) == [c EXCEPT !.calls[x].given = given]
WithArguments(c, x) == [c EXCEPT !.calls[x].pieces = @ + 1]

LEMMA StateWithCall ==
    ASSUME NEW o, NEW b, NEW ev, NEW p, NEW x, NEW i, NEW given
    PROVE  WithCall(StateOf(o, b, ev), p, x, [item |-> i, given |-> given, pieces |-> 0])
             = StateOf(p, Opened(b, x, i, given), ev)
<1> DEFINE c == StateOf(o, b, ev)
           d == [item |-> i, given |-> given, pieces |-> 0]
           e == StateOf(p, b, ev)
           m == [b EXCEPT ![x] = d]
<1>1. WithOutputs(c, p) = e
  BY StateWithOutputs
<1>2. [e EXCEPT !.calls = m] = StateOf(p, m, ev) /\ e.calls = b
  <2> HIDE DEF m
  <2>1. QED
    BY DEF StateOf
<1>3. m = Opened(b, x, i, given)
  BY DEF Opened
<1> HIDE DEF c, d, e
<1>4. WithCall(c, p, x, d) = [WithOutputs(c, p) EXCEPT !.calls[x] = d]
  BY DEF WithCall, WithOutputs
<1>5. [e EXCEPT !.calls[x] = d] = StateOf(p, m, ev)
  BY <1>2, Zenon DEF m
<1>6. WithCall(c, p, x, d) = StateOf(p, Opened(b, x, i, given), ev)
  BY <1>1, <1>3, <1>4, <1>5, Zenon
<1>7. QED
  BY <1>6 DEF c, d

LEMMA StateWithGiven ==
    ASSUME NEW o, NEW b, NEW ev, NEW x, NEW given
    PROVE  WithGiven(StateOf(o, b, ev), x, given) = StateOf(o, Given(b, x, given), ev)
BY DEF WithGiven, StateOf, Given

LEMMA StateWithArguments ==
    ASSUME NEW o, NEW b, NEW ev, NEW x
    PROVE  WithArguments(StateOf(o, b, ev), x) = StateOf(o, Argued(b, x), ev)
BY DEF WithArguments, StateOf, Argued

LEMMA ToolCallAppended ==
    ASSUME wire \in Seq(Event), NEW text \in Nat, NEW reasoning \in Nat,
           NEW c, GoodAt(c, text, reasoning), NEW f \in Fragments
    PROVE  GoodAt(AppendToolCall(c, f), text, reasoning)
<1>0. PICK o \in Seq(Item), b \in [CallIndexes -> Builder], ev \in Seq(Event) :
        /\ c = StateOf(o, b, ev)
        /\ Good(o, b, wire \o ev, text, reasoning)
        /\ Len(o) \in Nat /\ DOMAIN o = 1..Len(o)
  BY StateTaken
<1>1. c.outputs = o /\ c.calls = b /\ c.events = ev
  BY <1>0 DEF StateOf
<1> DEFINE x == f.index
<1>2. x \in CallIndexes /\ f.given \in BOOLEAN
  BY DEF Fragments
<1>3. CASE b[x] = NoCall
  <2> DEFINE i == Len(o) + 1
             p == Append(o, NewItem("function_call", 0, f.given))
             a == OfItem("item_added", i)
  <2>1. Good(p, Opened(b, x, i, f.given), Append(wire \o ev, a), text, reasoning)
    BY <1>0, <1>2, <1>3, CallNew
  <2> HIDE DEF p
  <2>2. AppendToolCall(c, f)
          = Emit(WithCall(c, p, x, [item |-> i, given |-> f.given, pieces |-> 0]), <<a>>)
    <3>1. AppendToolCall(c, f)
            = Emit(WithCall(c, Append(c.outputs, NewItem("function_call", 0, f.given)), f.index,
                            [item |-> Len(c.outputs) + 1, given |-> f.given, pieces |-> 0]),
                   <<OfItem("item_added", Len(c.outputs) + 1)>>)
      BY <1>1, <1>3, Zenon DEF AppendToolCall, OpenCall, WithCall
    <3>2. QED
      BY <1>1, <3>1, Zenon DEF p
  <2>3. a \in Event
    <3>1. i \in Nat
      BY <1>0
    <3> HIDE DEF i
    <3>2. QED
      BY <3>1 DEF OfItem, Event, ItemEvents
  <2> HIDE DEF a, i
  <2>4. AppendToolCall(c, f) = StateOf(p, Opened(b, x, i, f.given), ev \o <<a>>)
    BY <1>0, <2>2, StateWithCall, StateEmitting
  <2>5. wire \o (ev \o <<a>>) = Append(wire \o ev, a) /\ ev \o <<a>> \in Seq(Event)
    BY <2>3, WrittenOne
  <2>6. QED
    BY <2>1, <2>4, <2>5, StateMade
<1>4. CASE b[x] # NoCall
  <2> DEFINE given == b[x].given \/ f.given
             d == Given(b, x, given)
             e == OfItem("arguments_delta", b[x].item)
             i == b[x].item
  <2>1. Core(o, b, wire \o ev) /\ given \in BOOLEAN /\ i \in Nat
    BY <1>0, <1>2 DEF Good, Builder
  <2> HIDE DEF given
  <2>2. Core(o, d, wire \o ev) /\ d[x].item = i /\ d[x] # NoCall
    BY <1>2, <1>4, <2>1, CoreGiven
  <2> HIDE DEF d
  <2>3. WithGiven(c, x, given) = StateOf(o, d, ev)
    BY <1>0, StateWithGiven DEF d
  <2>4. CASE ~f.args
    <3>1. AppendToolCall(c, f) = WithGiven(c, x, given)
      BY <1>1, <1>4, <2>4, Zenon DEF AppendToolCall, ExtendCall, WithGiven, given
    <3>2. Good(o, d, wire \o ev, text, reasoning)
      BY <1>0, <2>2 DEF Good
    <3>3. QED
      BY <2>3, <3>1, <3>2, StateMade
  <2>5. CASE f.args
    <3>1. AppendToolCall(c, f) = Emit(WithArguments(WithGiven(c, x, given), x), <<e>>)
      BY <1>1, <1>4, <2>5, Zenon DEF AppendToolCall, ExtendCall, WithGiven, WithArguments, given
    <3>2. Core(o, Argued(d, x), Append(wire \o ev, e))
      BY <1>2, <2>2, CoreArguments
    <3>3. e \in Event
      BY <2>1 DEF OfItem, Event, ItemEvents
    <3> HIDE DEF e
    <3>4. AppendToolCall(c, f) = StateOf(o, Argued(d, x), ev \o <<e>>)
      BY <2>3, <3>1, StateWithArguments, StateEmitting
    <3>5. wire \o (ev \o <<e>>) = Append(wire \o ev, e) /\ ev \o <<e>> \in Seq(Event)
      BY <3>3, WrittenOne
    <3>6. Good(o, Argued(d, x), Append(wire \o ev, e), text, reasoning)
      BY <1>0, <3>2 DEF Good
    <3>7. QED
      BY <3>4, <3>5, <3>6, StateMade
  <2>6. QED
    BY <2>4, <2>5
<1>5. QED
  BY <1>3, <1>4

----------------------------------------------------------------------------
(* One upstream event.                                                     *)

NoCalls == [x \in CallIndexes |-> NoCall]

LEMMA StartingType ==
    /\ Starting \in Seq(Event) /\ Len(Starting) = 2 /\ DOMAIN Starting = 1..2
    /\ Starting[1].type = "created"
    /\ \A k \in DOMAIN Starting :
         /\ Starting[k].type \in {"created", "in_progress"}
         /\ Starting[k].item = 0 /\ Starting[k].index = 0
<1> DEFINE a == Lifecycle("created")
           b == Lifecycle("in_progress")
<1>1. /\ a \in Event /\ a.type = "created" /\ a.item = 0 /\ a.index = 0
      /\ b \in Event /\ b.type = "in_progress" /\ b.item = 0 /\ b.index = 0
  BY DEF Lifecycle, Event
<1>2. Starting = <<a, b>>
  BY DEF Starting
<1> HIDE DEF a, b
<1>3. QED
  BY <1>1, <1>2

(* The first event of the upstream finds a converter without items.        *)
LEMMA Beginning ==
    Good(<<>>, NoCalls, Starting, 0, 0)
<1> DEFINE o == <<>>
<1>1. o \in Seq(Item) /\ Len(o) = 0 /\ DOMAIN o = {}
  OBVIOUS
<1>2. NoCalls \in [CallIndexes -> Builder] /\ \A x \in CallIndexes : NoCalls[x] = NoCall /\ NoCalls[x].item = 0
  BY DEF NoCalls, NoCall, Builder
<1> HIDE DEF o
<1>3. Sent(0, Starting) /\ GoesOn(Starting)
  <2>1. Starting # <<>>
    BY StartingType, EmptySeq
  <2>2. Announced(0, Starting)
    BY StartingType DEF Announced
  <2>3. QED
    BY StartingType, <2>1, <2>2 DEF Sent, GoesOn, Terminals
<1>4. Belong(o, NoCalls)
  BY <1>1, <1>2 DEF Belong
<1>5. Counted(o, NoCalls, Starting)
  BY <1>1, <1>2 DEF Counted
<1>6. Core(o, NoCalls, Starting)
  BY <1>1, <1>2, <1>3, <1>4, <1>5 DEF Core
<1>7. FirstOpen(o) /\ Holds(o, "message", 0) /\ Holds(o, "reasoning", 0)
  BY <1>1 DEF FirstOpen, Holds, o
<1>8. QED
  BY <1>6, <1>7 DEF Good, o

LEMMA Processed ==
    ASSUME Open, wire \in Seq(Event), got.text \in Nat, got.reasoning \in Nat,
           NEW d \in Deltas
    PROVE  GoodAt(Process(d), got.text + (IF d.text THEN 1 ELSE 0),
                  got.reasoning + (IF d.reasoning THEN 1 ELSE 0))
<1> DEFINE ev == IF wire = <<>> THEN Starting ELSE <<>>
           c0 == StateOf(outputs, calls, ev)
           c1 == IF d.reasoning THEN AppendReasoning(c0) ELSE c0
           f == CHOOSE f \in d.fragment : TRUE
           c2 == IF d.fragment = {} THEN c1 ELSE AppendToolCall(c1, f)
           text == got.text
           reasoning == got.reasoning
           more == reasoning + (IF d.reasoning THEN 1 ELSE 0)
<1>1. Process(d) = IF d.text THEN AppendText(c2) ELSE c2
  BY Zenon DEF Process, StateOf
<1>2. ev \in Seq(Event) /\ Good(outputs, calls, wire \o ev, text, reasoning)
  <2>1. CASE wire = <<>>
    <3>1. wire \o Starting = Starting
      BY <2>1, StartingType, ConcatEmptySeq
    <3>2. /\ outputs = <<>> /\ calls = NoCalls
          /\ text = 0 /\ reasoning = 0
      BY <2>1 DEF Open, Good, Core, GoesOn, NoCalls
    <3>3. Good(outputs, calls, Starting, text, reasoning)
      BY <3>2, Beginning
    <3>4. QED
      BY <2>1, <3>1, <3>3, StartingType
  <2>2. CASE wire # <<>>
    <3>1. wire \o <<>> = wire
      BY ConcatEmptySeq
    <3>2. <<>> \in Seq(Event)
      BY EmptySeq
    <3>3. QED
      BY <2>2, <3>1, <3>2 DEF Open
  <2>3. QED
    BY <2>1, <2>2
<1>3. GoodAt(c0, text, reasoning)
  <2> HIDE DEF ev, text, reasoning
  <2>1. QED
    BY <1>2, StateMade
<1>4. GoodAt(c1, text, more) /\ more \in Nat
  <2> HIDE DEF c0
  <2>1. d.reasoning \in BOOLEAN
    BY DEF Deltas
  <2>2. QED
    BY <1>3, <2>1, ReasoningAppended
<1>5. GoodAt(c2, text, more)
  <2>1. d.fragment # {} => f \in Fragments
    BY DEF Deltas
  <2> HIDE DEF c1, f, more
  <2>2. QED
    BY <1>4, <2>1, ToolCallAppended
<1>6. QED
  <2> HIDE DEF c2, more
  <2>1. d.text \in BOOLEAN
    BY DEF Deltas
  <2>2. QED
    BY <1>1, <1>4, <1>5, <2>1, TextAppended DEF more

----------------------------------------------------------------------------
(* The end of the stream.                                                  *)

(* What closing writes: no items, no pieces, no end.                       *)
Closing == {e \in Event : /\ e.type \notin DeltaTypes \cup Terminals \cup {"item_added"}
                          /\ e.item \in 0..Len(outputs) /\ e.index \in 0..Len(outputs)}

ClosingEvents == FlattenSeq([i \in DOMAIN outputs |-> CloseEvents(i)])

LEMMA ClosingType ==
    ASSUME outputs \in Seq(Item)
    PROVE  ClosingEvents \in Seq(Closing)
<1>0. Len(outputs) \in Nat /\ DOMAIN outputs = 1..Len(outputs)
  BY LenProperties
<1>1. ASSUME NEW i \in DOMAIN outputs
      PROVE  CloseEvents(i) \in Seq(Closing)
  <2> DEFINE a == OfItem("text_done", i)
             b == OfItem("part_done", i)
             c == OfItem("item_done", i)
             d == OfItem("arguments_done", i)
  <2>1. i \in Nat /\ i \in 0..Len(outputs) /\ outputs[i].kind \in Kinds
    <3>1. outputs[i] \in Item /\ i \in 1..Len(outputs)
      BY <1>0, ElementOfSeq
    <3> HIDE DEF a, b, c, d
    <3>2. QED
      BY <1>0, <3>1 DEF Item
  <2>2. a \in Closing /\ b \in Closing /\ c \in Closing /\ d \in Closing
    BY <2>1 DEF Closing, OfItem, Event, ItemEvents, DeltaTypes, Terminals
  <2>3. \/ CloseEvents(i) = <<a, b, c>>
        \/ CloseEvents(i) = <<>>
        \/ CloseEvents(i) = <<d, c>>
        \/ CloseEvents(i) = <<c>>
    BY <2>1 DEF CloseEvents, Kinds
  <2> HIDE DEF a, b, c, d
  <2> DEFINE S == Closing
  <2>4. a \in S /\ b \in S /\ c \in S /\ d \in S
    BY <2>2
  <2> HIDE DEF S
  <2>5. <<a, b, c>> \in Seq(S) /\ <<>> \in Seq(S) /\ <<d, c>> \in Seq(S) /\ <<c>> \in Seq(S)
    BY <2>4
  <2>6. CloseEvents(i) \in Seq(S)
    BY <2>3, <2>5, Zenon
  <2>7. QED
    BY <2>6 DEF S
<1>2. [i \in DOMAIN outputs |-> CloseEvents(i)] \in Seq(Seq(Closing))
  <2> DEFINE f == [i \in DOMAIN outputs |-> CloseEvents(i)]
  <2>1. f \in [DOMAIN outputs -> Seq(Closing)]
    BY <1>1
  <2> HIDE DEF f
  <2>2. f \in Seq(Seq(Closing))
    BY <2>1, SameLength
  <2>3. QED
    BY <2>2 DEF f
<1>3. QED
  BY <1>2, FlattenType DEF ClosingEvents

(* An open stream, before or after its first event.                        *)
LEMMA OpenFacts ==
    ASSUME Open
    PROVE  /\ outputs \in Seq(Item) /\ calls \in [CallIndexes -> Builder]
           /\ Sent(Len(outputs), wire) /\ Belong(outputs, calls)
           /\ Counted(outputs, calls, wire)
           /\ Holds(outputs, "message", got.text)
           /\ Holds(outputs, "reasoning", got.reasoning)
           /\ \A k \in DOMAIN wire : wire[k].type \notin Terminals
           /\ wire = <<>> => got.events = 0
           /\ wire # <<>> => wire[1].type = "created"
<1>1. CASE wire = <<>>
  <2> DEFINE e == <<>>
  <2>1. /\ outputs = e /\ calls = NoCalls /\ wire = e
        /\ got = [text |-> 0, reasoning |-> 0, arguments |-> 0, events |-> 0]
    BY <1>1 DEF Open, Good, Core, GoesOn, NoCalls
  <2>2. /\ e \in Seq(Item) /\ e \in Seq(Event) /\ Len(e) = 0 /\ DOMAIN e = {}
    OBVIOUS
  <2> HIDE DEF e
  <2>3. Belong(e, NoCalls) /\ NoCalls \in [CallIndexes -> Builder]
    BY Beginning, Zenon DEF Good, Core, e
  <2>4. Sent(0, e)
    BY <2>2 DEF Sent, Announced
  <2>5. Counted(e, NoCalls, e)
    BY <2>2 DEF Counted, NoCalls, NoCall
  <2>6. Holds(e, "message", 0) /\ Holds(e, "reasoning", 0)
    BY <2>2 DEF Holds
  <2>7. QED
    BY <2>1, <2>2, <2>3, <2>4, <2>5, <2>6, <1>1
<1>2. CASE wire # <<>>
  BY <1>2 DEF Open, Good, Core, GoesOn
<1>3. QED
  BY <1>1, <1>2

(* The items of the final response: kinds and ids stay, what is not a call *)
(* keeps its pieces, and a call holds those of its builder unless the id   *)
(* came late.                                                              *)
LEMMA Assembled ==
    ASSUME outputs \in Seq(Item), calls \in [CallIndexes -> Builder],
           Belong(outputs, calls), NEW closed, Assemble(closed)
    PROVE  /\ outputs' \in Seq(Item) /\ Len(outputs') = Len(outputs)
           /\ DOMAIN outputs' = DOMAIN outputs
           /\ \A i \in DOMAIN outputs :
                /\ outputs'[i].kind = outputs[i].kind
                /\ outputs'[i].given = outputs[i].given
                /\ outputs[i].kind # "function_call" => outputs'[i].pieces = outputs[i].pieces
           /\ \A i \in DOMAIN outputs, x \in CallIndexes :
                outputs[i].kind = "function_call" /\ calls[x].item = i
                    /\ calls[x].given = outputs[i].given
                  => outputs'[i].pieces = calls[x].pieces
<1>0. Len(outputs) \in Nat /\ DOMAIN outputs = 1..Len(outputs)
  BY LenProperties
<1>1. ASSUME NEW i \in DOMAIN outputs
      PROVE  FinalPieces(i) \in Nat
  <2> DEFINE mine == {x \in CallIndexes : calls[x].item = i /\ calls[x].given = outputs[i].given}
  <2>1. outputs[i].pieces \in Nat
    <3>1. outputs[i] \in Item
      BY <1>0, ElementOfSeq
    <3>2. QED
      BY <3>1 DEF Item
  <2>2. \A x \in CallIndexes : calls[x].pieces \in Nat
    BY DEF Builder
  <2>3. mine # {} => (CHOOSE x \in mine : TRUE) \in CallIndexes
    OBVIOUS
  <2>4. FinalPieces(i) = IF outputs[i].kind = "function_call" /\ mine # {}
                           THEN calls[CHOOSE x \in mine : TRUE].pieces ELSE outputs[i].pieces
    BY Zenon DEF FinalPieces
  <2>5. QED
    BY <2>1, <2>2, <2>3, <2>4
<1>2. ASSUME NEW i \in DOMAIN outputs, NEW x \in CallIndexes,
             outputs[i].kind = "function_call", calls[x].item = i,
             calls[x].given = outputs[i].given
      PROVE  FinalPieces(i) = calls[x].pieces
  <2> DEFINE mine == {y \in CallIndexes : calls[y].item = i /\ calls[y].given = outputs[i].given}
  <2>1. mine = {x}
    BY <1>0, <1>2 DEF Belong
  <2>2. FinalPieces(i) = calls[CHOOSE y \in mine : TRUE].pieces
    BY <1>2, <2>1 DEF FinalPieces
  <2>3. QED
    BY <2>1, <2>2
<1>3. ASSUME NEW i \in DOMAIN outputs, outputs[i].kind # "function_call"
      PROVE  FinalPieces(i) = outputs[i].pieces
  BY <1>3 DEF FinalPieces
<1> DEFINE status(i) == IF closed /\ CloseEvents(i) # <<>> THEN "completed" ELSE "in_progress"
           final(i) == [outputs[i] EXCEPT !.pieces = FinalPieces(i), !.status = status(i)]
<1>4. outputs' = [i \in DOMAIN outputs |-> final(i)]
  BY Zenon DEF Assemble
<1>5. ASSUME NEW i \in DOMAIN outputs
      PROVE  /\ final(i) \in Item
             /\ final(i).kind = outputs[i].kind
             /\ final(i).given = outputs[i].given
             /\ final(i).pieces = FinalPieces(i)
  <2> DEFINE n == FinalPieces(i)
             s == status(i)
  <2>1. n \in Nat /\ s \in {"in_progress", "completed"} /\ outputs[i] \in Item
    BY <1>1
  <2> HIDE DEF n, s
  <2>2. QED
    <3>1. /\ [outputs[i] EXCEPT !.pieces = n, !.status = s] \in Item
          /\ [outputs[i] EXCEPT !.pieces = n, !.status = s].kind = outputs[i].kind
          /\ [outputs[i] EXCEPT !.pieces = n, !.status = s].given = outputs[i].given
          /\ [outputs[i] EXCEPT !.pieces = n, !.status = s].pieces = n
      BY <2>1 DEF Item
    <3>2. QED
      BY <3>1, Zenon DEF n, s
<1> HIDE DEF final
<1>6. outputs' \in [DOMAIN outputs -> Item]
  BY <1>4, <1>5
<1>7. outputs' \in Seq(Item) /\ Len(outputs') = Len(outputs)
  <2> DEFINE f == [i \in DOMAIN outputs |-> final(i)]
  <2>1. f \in [DOMAIN outputs -> Item]
    BY <1>5
  <2> HIDE DEF f
  <2>2. f \in Seq(Item) /\ Len(f) = Len(outputs)
    BY <2>1, SameLength
  <2>3. QED
    BY <1>4, <2>2 DEF f
<1>8. DOMAIN outputs' = DOMAIN outputs
  BY <1>6
<1>9. \A i \in DOMAIN outputs : outputs'[i] = final(i)
  BY <1>4
<1>10. QED
  BY <1>2, <1>3, <1>5, <1>7, <1>8, <1>9

(* The one terminal event.                                                 *)
LEMMA Ended ==
    ASSUME NEW n \in Nat, NEW v, Sent(n, v),
           \A k \in DOMAIN v : v[k].type \notin Terminals, NEW type \in Terminals
    PROVE  LET w == Append(v, Lifecycle(type))
           IN  /\ Sent(n, w)
               /\ w # <<>> /\ w[Len(w)].type = type
               /\ \A k \in DOMAIN w : w[k].type \in Terminals => k = Len(w)
               /\ v # <<>> => w[1] = v[1]
               /\ \A i : PiecesSent(w, i) = PiecesSent(v, i)
<1> DEFINE e == Lifecycle(type)
           w == Append(v, e)
<1>1. /\ e \in Event /\ e.type = type /\ e.item \in 0..n /\ e.index \in 0..n
      /\ e.type \notin DeltaTypes /\ e.type # "item_added"
  BY DEF Lifecycle, Event, Terminals, DeltaTypes
<1> HIDE DEF e
<1>2. v \in Seq(Event)
  BY DEF Sent
<1>3. Sent(n, w)
  BY <1>1, OneMore
<1>4. /\ Len(w) = Len(v) + 1 /\ DOMAIN w = 1 .. Len(v) + 1 /\ DOMAIN v = 1..Len(v)
      /\ Len(v) \in Nat /\ w \in Seq(Event)
      /\ \A i \in 1..Len(v) : w[i] = v[i]
      /\ w[Len(v) + 1] = e
  BY <1>1, <1>2, Appended
<1>5. \A i : PiecesSent(w, i) = PiecesSent(v, i)
  BY <1>1, <1>2, PiecesAppended
<1> HIDE DEF w
<1>6. w # <<>> /\ (v # <<>> => w[1] = v[1])
  <2>1. w # <<>>
    BY <1>4, EmptySeq
  <2>2. v # <<>> => 1 \in 1..Len(v)
    BY <1>2, <1>4, EmptySeq
  <2>3. QED
    BY <1>4, <2>1, <2>2
<1>7. \A k \in DOMAIN w : w[k].type \in Terminals => k = Len(w)
  BY <1>4
<1>8. w[Len(w)].type = type
  BY <1>1, <1>4
<1>9. QED
  BY <1>3, <1>5, <1>6, <1>7, <1>8 DEF w, e

(* Events that add no item, carry no piece and do not end the stream.      *)
Neutral(n, ev) ==
    /\ ev \in Seq(Event)
    /\ \A k \in DOMAIN ev :
         /\ ev[k].type \notin DeltaTypes \cup Terminals \cup {"item_added"}
         /\ ev[k].item \in 0..n /\ ev[k].index \in 0..n

LEMMA MoreNeutral ==
    ASSUME NEW n \in Nat, NEW w, Sent(n, w), NEW ev, Neutral(n, ev),
           \A k \in DOMAIN w : w[k].type \notin Terminals
    PROVE  /\ Sent(n, w \o ev)
           /\ \A k \in DOMAIN (w \o ev) : (w \o ev)[k].type \notin Terminals
           /\ w # <<>> => w \o ev # <<>> /\ (w \o ev)[1] = w[1]
           /\ \A i : PiecesSent(w \o ev, i) = PiecesSent(w, i)
<1> DEFINE v == w \o ev
<1>1. w \in Seq(Event) /\ ev \in Seq(Event) /\ DOMAIN w = 1..Len(w) /\ Len(w) \in Nat
  BY LenProperties DEF Sent, Neutral
<1>2. Sent(n, v)
  BY MoreEvents DEF Neutral
<1>3. \A i : PiecesSent(v, i) = PiecesSent(w, i)
  BY <1>1, PiecesKeptBy DEF Neutral
<1>4. /\ \A k \in DOMAIN w : k \in DOMAIN v /\ v[k] = w[k]
      /\ \A k \in DOMAIN v : \/ k \in DOMAIN w /\ v[k] = w[k]
                             \/ \E j \in DOMAIN ev : v[k] = ev[j]
  BY <1>1, Concatenated
<1> HIDE DEF v
<1>5. \A k \in DOMAIN v : v[k].type \notin Terminals
  BY <1>4 DEF Neutral
<1>6. ASSUME w # <<>> PROVE v # <<>> /\ v[1] = w[1]
  <2>1. 1 \in DOMAIN w
    BY <1>1, <1>6, EmptySeq
  <2>2. 1 \in DOMAIN v /\ v[1] = w[1]
    BY <1>4, <2>1
  <2>3. v # <<>>
    BY <2>2
  <2>4. QED
    BY <2>2, <2>3
<1>7. QED
  BY <1>2, <1>3, <1>5, <1>6 DEF v

(* Complete writes the two first events again and closes the items.        *)
LEMMA Closed ==
    ASSUME Open
    PROVE  LET v == wire \o Starting \o ClosingEvents
           IN  /\ Sent(Len(outputs), v)
               /\ \A k \in DOMAIN v : v[k].type \notin Terminals
               /\ v # <<>> /\ v[1].type = "created"
               /\ \A i : PiecesSent(v, i) = PiecesSent(wire, i)
<1> DEFINE n == Len(outputs)
           u == wire \o Starting
           ev == ClosingEvents
           v == u \o ev
<1>1. /\ n \in Nat /\ outputs \in Seq(Item) /\ Sent(n, wire) /\ wire \in Seq(Event)
      /\ \A k \in DOMAIN wire : wire[k].type \notin Terminals
      /\ wire # <<>> => wire[1].type = "created"
  BY OpenFacts, LenProperties DEF Sent
<1>2. Neutral(n, ev)
  <2>1. ev \in Seq(Closing) /\ Closing \subseteq Event
    BY <1>1, ClosingType DEF Closing
  <2> HIDE DEF ev
  <2>2. DOMAIN ev = 1..Len(ev) /\ Len(ev) \in Nat /\ \A k \in DOMAIN ev : ev[k] \in Closing
    BY <2>1, LenProperties, ElementOfSeq
  <2>3. ev \in [1..Len(ev) -> Event]
    BY <2>1, <2>2, SeqDef
  <2>4. ev \in Seq(Event)
    BY <2>2, <2>3, SeqDef
  <2>5. QED
    BY <2>2, <2>4 DEF Neutral, Closing
<1>3. Neutral(n, Starting)
  BY <1>1, StartingType DEF Neutral, DeltaTypes, Terminals
<1> HIDE DEF ev, n
<1>4. /\ Sent(n, u)
      /\ \A k \in DOMAIN u : u[k].type \notin Terminals
      /\ wire # <<>> => u # <<>> /\ u[1] = wire[1]
      /\ \A i : PiecesSent(u, i) = PiecesSent(wire, i)
  BY <1>1, <1>3, MoreNeutral
<1>5. u # <<>> /\ u[1].type = "created"
  <2>1. CASE wire = <<>>
    <3>1. u = Starting /\ Starting # <<>>
      BY <2>1, StartingType, ConcatEmptySeq, EmptySeq
    <3>2. QED
      BY <3>1, StartingType
  <2>2. CASE wire # <<>>
    BY <1>1, <1>4, <2>2
  <2>3. QED
    BY <2>1, <2>2
<1> HIDE DEF u
<1>6. /\ Sent(n, v)
      /\ \A k \in DOMAIN v : v[k].type \notin Terminals
      /\ u # <<>> => v # <<>> /\ v[1] = u[1]
      /\ \A i : PiecesSent(v, i) = PiecesSent(u, i)
  BY <1>1, <1>2, <1>4, MoreNeutral
<1>7. QED
  BY <1>4, <1>5, <1>6 DEF u, ev, n

----------------------------------------------------------------------------
(* The inductive invariant.  Only an open stream needs to be good: what    *)
(* its end leaves is what the properties say of it.                        *)

Typed ==
    /\ outputs \in Seq(Item) /\ calls \in [CallIndexes -> Builder]
    /\ phase \in {"open", "completed", "failed", "abandoned"}
    /\ got \in [text: Nat, reasoning: Nat, arguments: Nat, events: Nat]

Told ==
    /\ Sent(Len(outputs), wire)
    /\ Holds(outputs, "message", got.text) /\ Holds(outputs, "reasoning", got.reasoning)

Inv ==
    /\ Typed
    /\ Told
    /\ EndsOnce
    /\ DeltasMakeTheResponse
    /\ phase = "open" => Open

LEMMA Begun == Init => Inv
<1>1. SUFFICES ASSUME Init PROVE Inv
  OBVIOUS
<1>2. Open /\ phase = "open"
  BY <1>1 DEF Init, Open
<1>3. Typed
  BY <1>1, <1>2, OpenFacts DEF Init, Typed
<1>4. Told
  BY <1>2, OpenFacts DEF Told
<1>5. EndsOnce /\ DeltasMakeTheResponse
  BY <1>1 DEF Init, EndsOnce, DeltasMakeTheResponse, Terminals
<1>6. QED
  BY <1>2, <1>3, <1>4, <1>5 DEF Inv

LEMMA ReadKeeps ==
    ASSUME Inv, NEW d \in Deltas, Read(d)
    PROVE  Inv'
<1> DEFINE c == Process(d)
           text == got.text + (IF d.text THEN 1 ELSE 0)
           reasoning == got.reasoning + (IF d.reasoning THEN 1 ELSE 0)
           arguments == got.arguments + (IF \E f \in d.fragment : f.args THEN 1 ELSE 0)
<1>1. /\ phase = "open" /\ phase' = "open" /\ Open /\ got.events < MaxDeltas
      /\ outputs' = c.outputs /\ calls' = c.calls /\ wire' = wire \o c.events
      /\ got' = [text |-> text, reasoning |-> reasoning, arguments |-> arguments,
                 events |-> got.events + 1]
  BY DEF Inv, Read, Count
<1>2. GoodAt(c, text, reasoning)
  <2>1. wire \in Seq(Event) /\ got.text \in Nat /\ got.reasoning \in Nat
    BY DEF Inv, Typed, Told, Sent
  <2>2. QED
    BY <1>1, <2>1, Processed
<1>3. text \in Nat /\ reasoning \in Nat /\ arguments \in Nat /\ got.events + 1 \in Nat
  BY <1>1 DEF Inv, Typed
<1> HIDE DEF c, text, reasoning, arguments
<1>4. Good(outputs', calls', wire', got'.text, got'.reasoning)
  BY <1>1, <1>2 DEF GoodAt
<1>5. Open'
  BY <1>4 DEF Open
<1>6. Typed'
  BY <1>1, <1>3, <1>4 DEF Typed, Good, Core
<1>7. Told'
  BY <1>4 DEF Told, Good, Core
<1>8. EndsOnce'
  <2>1. GoesOn(wire') /\ wire' \in Seq(Event)
    BY <1>4 DEF Good, Core, Sent
  <2>2. Len(wire') \in DOMAIN wire' /\ 1 \in DOMAIN wire'
    BY <2>1, LenProperties, EmptySeq DEF GoesOn
  <2>3. QED
    BY <1>1, <2>1, <2>2 DEF EndsOnce, GoesOn, Terminals
<1>9. DeltasMakeTheResponse'
  BY <1>1 DEF DeltasMakeTheResponse
<1>10. QED
  BY <1>5, <1>6, <1>7, <1>8, <1>9 DEF Inv

(* DeltasMakeTheResponse, by the pieces sent.                              *)
AllCounted ==
    \A i \in DOMAIN outputs :
      \/ \E x \in CallIndexes : calls[x].item = i /\ calls[x].given # outputs[i].given
      \/ Cardinality(PiecesSent(wire, i)) = outputs[i].pieces

LEMMA CountedResponse == AllCounted => DeltasMakeTheResponse
<1>1. \A i : DeltasOf(i) = PiecesSent(wire, i)
  BY DEF DeltasOf, Events, PiecesSent, DeltaTypes
<1>2. QED
  BY <1>1, Zenon DEF AllCounted, DeltasMakeTheResponse

(* Complete and Fail: the items are assembled, and one terminal event      *)
(* follows what was written.                                               *)
LEMMA EndKeeps ==
    ASSUME Inv, Open, NEW closed, Assemble(closed), UNCHANGED <<calls, got>>,
           NEW v, Sent(Len(outputs), v),
           \A k \in DOMAIN v : v[k].type \notin Terminals,
           \A i : PiecesSent(v, i) = PiecesSent(wire, i),
           phase' \in Terminals, wire' = Append(v, Lifecycle(phase')),
           \/ v # <<>> /\ v[1].type = "created"
           \/ phase' = "failed" /\ got.events = 0
    PROVE  Inv'
<1>1. /\ outputs \in Seq(Item) /\ calls \in [CallIndexes -> Builder]
      /\ Belong(outputs, calls) /\ Counted(outputs, calls, wire)
      /\ Holds(outputs, "message", got.text) /\ Holds(outputs, "reasoning", got.reasoning)
      /\ Len(outputs) \in Nat /\ DOMAIN outputs = 1..Len(outputs)
      /\ calls' = calls /\ got' = got
  BY OpenFacts, LenProperties
<1>2. /\ outputs' \in Seq(Item) /\ Len(outputs') = Len(outputs)
      /\ DOMAIN outputs' = DOMAIN outputs
      /\ \A i \in DOMAIN outputs :
           /\ outputs'[i].kind = outputs[i].kind
           /\ outputs'[i].given = outputs[i].given
           /\ outputs[i].kind # "function_call" => outputs'[i].pieces = outputs[i].pieces
      /\ \A i \in DOMAIN outputs, x \in CallIndexes :
           outputs[i].kind = "function_call" /\ calls[x].item = i
               /\ calls[x].given = outputs[i].given
             => outputs'[i].pieces = calls[x].pieces
  BY <1>1, Assembled
<1>3. /\ Sent(Len(outputs), wire')
      /\ wire' # <<>> /\ wire'[Len(wire')].type = phase'
      /\ \A k \in DOMAIN wire' : wire'[k].type \in Terminals => k = Len(wire')
      /\ v # <<>> => wire'[1] = v[1]
      /\ \A i : PiecesSent(wire', i) = PiecesSent(wire, i)
  BY <1>1, Ended
<1>4. Typed'
  BY <1>1, <1>2 DEF Inv, Typed, Terminals
<1>5. Told'
  <2>1. Holds(outputs', "message", got.text)
    BY <1>1, <1>2, HoldsKept
  <2>2. Holds(outputs', "reasoning", got.reasoning)
    BY <1>1, <1>2, HoldsKept
  <2>3. QED
    BY <1>1, <1>2, <1>3, <2>1, <2>2 DEF Told
<1>6. EndsOnce'
  BY <1>1, <1>3 DEF EndsOnce
<1>7. DeltasMakeTheResponse'
  <2>1. ASSUME NEW i \in DOMAIN outputs,
               \A x \in CallIndexes :
                 ~ (calls[x].item = i /\ calls[x].given # outputs'[i].given)
        PROVE  Cardinality(PiecesSent(wire', i)) = outputs'[i].pieces
    <3>1. CASE outputs[i].kind # "function_call"
      BY <1>1, <1>2, <1>3, <3>1 DEF Counted
    <3>2. CASE outputs[i].kind = "function_call"
      <4>1. PICK x \in CallIndexes : calls[x].item = i
        BY <1>1, <3>2 DEF Belong
      <4>2. Cardinality(PiecesSent(wire, i)) = calls[x].pieces
        BY <1>1, <4>1 DEF Counted
      <4>3. QED
        BY <1>2, <1>3, <2>1, <3>2, <4>1, <4>2
    <3>3. QED
      BY <3>1, <3>2
  <2>2. (AllCounted => DeltasMakeTheResponse)'
    BY CountedResponse, PTL
  <2>3. AllCounted'
    BY <1>1, <1>2, <2>1 DEF AllCounted
  <2>4. QED
    BY <2>2, <2>3
<1>8. QED
  BY <1>4, <1>5, <1>6, <1>7 DEF Inv, Terminals

LEMMA CompleteKeeps ==
    ASSUME Inv, Complete
    PROVE  Inv'
<1> DEFINE v == wire \o Starting \o ClosingEvents
<1>1. /\ Open /\ Assemble(TRUE) /\ UNCHANGED <<calls, got>> /\ phase' = "completed"
      /\ wire' = v \o <<Lifecycle("completed")>>
  BY DEF Inv, Complete, ClosingEvents
<1>2. /\ Sent(Len(outputs), v)
      /\ \A k \in DOMAIN v : v[k].type \notin Terminals
      /\ v # <<>> /\ v[1].type = "created"
      /\ \A i : PiecesSent(v, i) = PiecesSent(wire, i)
  BY <1>1, Closed
<1> HIDE DEF v
<1>3. wire' = Append(v, Lifecycle(phase'))
  BY <1>1, <1>2, AppendIsConcat DEF Sent, Lifecycle, Event, Terminals
<1>4. QED
  BY <1>1, <1>2, <1>3, EndKeeps DEF Terminals

LEMMA FailKeeps ==
    ASSUME Inv, Fail
    PROVE  Inv'
<1>1. /\ Open /\ Assemble(FALSE) /\ UNCHANGED <<calls, got>> /\ phase' = "failed"
      /\ wire' = Append(wire, Lifecycle(phase'))
  BY DEF Inv, Fail
<1>2. /\ Sent(Len(outputs), wire)
      /\ \A k \in DOMAIN wire : wire[k].type \notin Terminals
      /\ \/ wire # <<>> /\ wire[1].type = "created"
         \/ got.events = 0
  BY <1>1, OpenFacts
<1>3. QED
  BY <1>1, <1>2, EndKeeps DEF Terminals

LEMMA AbandonKeeps ==
    ASSUME Inv, Abandon
    PROVE  Inv'
BY DEF Inv, Abandon, Typed, Told, EndsOnce, DeltasMakeTheResponse, DeltasOf, Events, Terminals

LEMMA Invariance == Spec => []Inv
<1>1. Inv /\ UNCHANGED vars => Inv'
  BY DEF Inv, vars, Typed, Told, EndsOnce, DeltasMakeTheResponse, DeltasOf, Events, Open
<1>2. Inv /\ [Next]_vars => Inv'
  BY <1>1, ReadKeeps, CompleteKeeps, FailKeeps, AbandonKeeps DEF Next
<1>3. QED
  BY Begun, <1>2, PTL DEF Spec

----------------------------------------------------------------------------
(* Every variable has its type, and no event names an item that is not     *)
(* there, whatever the upstream sends.                                     *)
THEOREM TypeCorrect == Spec => []TypeOK
<1>1. Inv => TypeOK
  BY DEF Inv, Typed, Told, Sent, TypeOK
<1>2. QED
  BY <1>1, Invariance, PTL

(* A client that stays is told once how the stream ended, last, and of     *)
(* nothing before response.created.                                        *)
THEOREM StreamsEndOnce == Spec => []EndsOnce
<1>1. Inv => EndsOnce
  BY DEF Inv
<1>2. QED
  BY <1>1, Invariance, PTL

(* Every item is announced once, in the order of the final output, with    *)
(* its index and before all that is said about it.                         *)
THEOREM ItemsAnnouncedInOrder == Spec => []AnnouncedInOrder
<1>1. ASSUME Inv PROVE AnnouncedInOrder
  <2>1. /\ DOMAIN outputs = 1..Len(outputs) /\ Announced(Len(outputs), wire)
    BY <1>1, LenProperties DEF Inv, Typed, Told, Sent
  <2>2. ASSUME NEW i \in DOMAIN outputs
        PROVE  \E k \in Events(i, {"item_added"}) :
                 /\ wire[k].index = i
                 /\ \A l \in Events(i, ItemEvents) : k <= l
                 /\ Events(i, {"item_added"}) = {k}
    <3>1. PICK k \in DOMAIN wire :
            /\ wire[k] = OfItem("item_added", i)
            /\ \A l \in DOMAIN wire : wire[l].item = i /\ wire[l].type \in ItemEvents
                 => k <= l /\ (wire[l].type = "item_added" => l = k)
      BY <2>1 DEF Announced
    <3>2. wire[k].index = i /\ wire[k].item = i /\ wire[k].type = "item_added"
      BY <3>1 DEF OfItem
    <3>3. Events(i, {"item_added"}) = {k}
      BY <3>1, <3>2 DEF Events, ItemEvents
    <3>4. \A l \in Events(i, ItemEvents) : k <= l
      BY <3>1 DEF Events
    <3>5. QED
      BY <3>2, <3>3, <3>4
  <2>3. QED
    BY <2>1, <2>2 DEF AnnouncedInOrder, Announced
<1>2. QED
  BY <1>1, Invariance, PTL

(* All text and all reasoning that was read is in the response, in one     *)
(* message and one reasoning item, however calls come between.             *)
THEOREM NothingEverLost == Spec => []NothingLost
<1>1. Inv => NothingLost
  BY DEF Inv, Told, Holds, NothingLost
<1>2. QED
  BY <1>1, Invariance, PTL

(* A completed response holds as many pieces of every item as the client   *)
(* was sent of it, of a call whose id did not come late.                   *)
THEOREM ResponsesMatchDeltas == Spec => []DeltasMakeTheResponse
<1>1. Inv => DeltasMakeTheResponse
  BY DEF Inv
<1>2. QED
  BY <1>1, Invariance, PTL
=============================================================================
