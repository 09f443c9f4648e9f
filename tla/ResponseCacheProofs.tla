------------------------- MODULE ResponseCacheProofs -------------------------
(***************************************************************************)
(* Types, and that answers are numbered without a gap, are inductive; so   *)
(* is that a row, or a handler, holds an answer to a question with its own *)
(* key, from which AnswersItsQuestion follows.  FlushedStaysFlushed is     *)
(* inductive with the number of answers that was noted at the last flush.  *)
(***************************************************************************)
EXTENDS ResponseCache, FiniteSetTheorems, TLAPS

LastGiven == Cardinality(Given)

(* Answers are numbered from 1.                                            *)
LEMMA Numbered ==
    ASSUME TypeOK
    PROVE  /\ LastGiven \in 0..MaxAnswers
           /\ Given = 1..LastGiven
           /\ asked \in [1..LastGiven -> Questions]
<1>1. PICK n \in 0..MaxAnswers : asked \in [1..n -> Questions]
  BY DEF TypeOK
<1>2. Given = 1..n
  BY <1>1 DEF Given
<1>3. Cardinality(1..n) = n
  BY <1>1, FS_Interval, CacheAssumption
<1>4. QED
  BY <1>1, <1>2, <1>3 DEF LastGiven

LEMMA KeyForType == \A q \in Questions : KeyFor(q) \in Keys
BY DEF KeyFor, Questions, Keys

LEMMA NoRowNoRow == NoRow \notin Row
BY CacheAssumption DEF NoRow, Row, Answers

(* What handlers hold is typed.                                            *)
LEMMA HoldersTyped ==
    ASSUME TypeOK, NEW r \in Requests
    PROVE  /\ req[r] # Idle => req[r].question \in Questions
           /\ req[r].pc \in {"touch", "put"} => req[r].answer \in Given /\ req[r].answer \in Answers
           /\ req[r].pc = "put" => req[r].size \in Sizes
<1>1. req[r] \in Handlers
  BY DEF TypeOK
<1>2. req[r].pc \in {"touch", "put"} => req[r].answer \in Held
  BY DEF Held
<1>3. QED
  BY <1>1, <1>2 DEF TypeOK, Handlers, Idle

(* A step that gives no answer keeps TypeOK when the rows that are new and *)
(* the hands that are new are typed and hold given answers.                *)
LEMMA TypeKept ==
    ASSUME TypeOK, UNCHANGED asked,
           maxBytes' \in Sizes,
           flushed' \in [upto: 0..MaxAnswers, held: SUBSET Answers],
           cache' \in [Keys -> Row \cup {NoRow}],
           \A k \in Keys : cache'[k] # NoRow => cache'[k].answer \in Given,
           req' \in [Requests -> Handlers],
           \A r \in Requests : req'[r].pc \in {"touch", "put"} => req'[r].answer \in Given
    PROVE  TypeOK'
<1>1. Given' = Given
  BY DEF Given
<1>2. Held' \subseteq Given'
  BY <1>1 DEF Held
<1>3. \A k \in Keys : Exists(k)' => cache'[k].answer \in Given'
  BY <1>1 DEF Exists
<1>4. \E n \in 0..MaxAnswers : asked' \in [1..n -> Questions]
  BY DEF TypeOK
<1>5. QED
  BY <1>2, <1>3, <1>4, Zenon DEF TypeOK

LEMMA IdleHandler == Idle \in Handlers /\ Idle.pc \notin {"touch", "put", "forward"}
BY DEF Idle, Handlers

(* Steps that only let a handler go.                                       *)
LEMMA ReleaseTypeOK ==
    ASSUME TypeOK, UNCHANGED <<asked, flushed>>, maxBytes' \in Sizes,
           cache' \in [Keys -> Row \cup {NoRow}],
           \A k \in Keys : cache'[k] # NoRow => cache'[k].answer \in Given,
           req' \in [Requests -> Handlers],
           \A r \in Requests : req'[r] \in {req[r], Idle}
    PROVE  TypeOK'
<1>1. \A r \in Requests : req'[r].pc \in {"touch", "put"} => req'[r].answer \in Given
  BY HoldersTyped, IdleHandler
<1>2. flushed' \in [upto: 0..MaxAnswers, held: SUBSET Answers]
  BY DEF TypeOK
<1>3. QED
  BY <1>1, <1>2, TypeKept

LEMMA RequestTypeOK ==
    ASSUME TypeOK, NEW r \in Requests, RequestStep(r)
    PROVE  TypeOK'
<1>0. /\ cache \in [Keys -> Row \cup {NoRow}] /\ maxBytes \in Sizes
      /\ req \in [Requests -> Handlers]
      /\ flushed \in [upto: 0..MaxAnswers, held: SUBSET Answers]
      /\ \A k \in Keys : cache[k] # NoRow => cache[k].answer \in Given
  BY DEF TypeOK, Exists
<1>1. ASSUME NEW q \in Questions, Hit(r, q) PROVE TypeOK'
  <2> DEFINE h == [pc |-> "touch", question |-> q, answer |-> cache[KeyFor(q)].answer]
  <2>1. /\ cache[KeyFor(q)] \in Row
        /\ cache[KeyFor(q)].answer \in Given
    BY <1>0, <1>1, KeyForType DEF Hit, Live, Exists
  <2>2. h \in Handlers /\ h.answer \in Given
    BY <2>1 DEF Handlers, Row
  <2>3. req' = [req EXCEPT ![r] = h]
    BY <1>1, Zenon DEF Hit
  <2> HIDE DEF h
  <2>4. /\ req' \in [Requests -> Handlers]
        /\ \A s \in Requests : req'[s].pc \in {"touch", "put"} => req'[s].answer \in Given
    BY <1>0, <2>2, <2>3, HoldersTyped
  <2>5. QED
    BY <1>0, <1>1, <2>4, TypeKept DEF Hit
<1>2. ASSUME NEW q \in Questions, Miss(r, q) PROVE TypeOK'
  <2> DEFINE h == [pc |-> "forward", question |-> q]
  <2>1. h \in Handlers /\ h.pc \notin {"touch", "put"}
    BY DEF Handlers
  <2>2. req' = [req EXCEPT ![r] = h]
    BY <1>2, Zenon DEF Miss
  <2> HIDE DEF h
  <2>3. /\ req' \in [Requests -> Handlers]
        /\ \A s \in Requests : req'[s].pc \in {"touch", "put"} => req'[s].answer \in Given
    BY <1>0, <2>1, <2>2, HoldersTyped
  <2>4. QED
    BY <1>0, <1>2, <2>3, TypeKept DEF Miss
<1>3. ASSUME NEW done \in BOOLEAN, Touch(r, done) PROVE TypeOK'
  <2>1. KeyFor(req[r].question) \in Keys
    BY <1>3, HoldersTyped, KeyForType, IdleHandler DEF Touch
  <2>2. /\ cache' \in [Keys -> Row \cup {NoRow}]
        /\ \A k \in Keys : cache'[k] # NoRow => cache'[k].answer \in Given
    BY <1>0, <1>3, <2>1 DEF Touch, Exists, Row
  <2>3. QED
    BY <1>0, <1>3, <2>2, IdleHandler, ReleaseTypeOK DEF Touch
<1>4. ASSUME NEW size \in Sizes, Answer(r, size) PROVE TypeOK'
  <2> DEFINE a == LastGiven + 1
             h == [pc |-> "put", question |-> req[r].question, answer |-> a, size |-> size]
  <2>1. req[r].question \in Questions
    BY <1>4, HoldersTyped, IdleHandler DEF Answer
  <2>2. /\ LastGiven \in Nat /\ Given = 1..LastGiven /\ asked \in [1..LastGiven -> Questions]
        /\ a <= MaxAnswers /\ MaxAnswers \in Nat
    BY <1>4, Numbered, CacheAssumption DEF Answer, LastGiven
  <2>3. asked' = [b \in 1..a |-> IF b = a THEN req[r].question ELSE asked[b]]
    BY <1>4 DEF Answer, LastGiven
  <2>4. asked' \in [1..a -> Questions] /\ Given' = 1..a /\ Given \subseteq Given'
    BY <2>1, <2>2, <2>3 DEF Given
  <2>5. a \in Answers /\ h \in Handlers /\ a \in 0..MaxAnswers
    BY <2>1, <2>2 DEF Answers, Handlers
  <2>6. req' = [req EXCEPT ![r] = h]
    BY <1>4, Zenon DEF Answer, LastGiven
  <2>7. h.answer \in Given'
    BY <2>2, <2>4
  <2> HIDE DEF h, a
  <2>8. /\ req' \in [Requests -> Handlers]
        /\ \A s \in Requests : req'[s].pc \in {"touch", "put"} => req'[s].answer \in Given'
    BY <1>0, <2>4, <2>5, <2>6, <2>7, HoldersTyped
  <2>9. Held' \subseteq Given'
    BY <2>8 DEF Held
  <2>10. \E n \in 0..MaxAnswers : asked' \in [1..n -> Questions]
    BY <2>4, <2>5
  <2>11. \A k \in Keys : Exists(k)' => cache'[k].answer \in Given'
    BY <1>0, <1>4, <2>4 DEF Answer, Exists
  <2>12. /\ cache' \in [Keys -> Row \cup {NoRow}] /\ maxBytes' \in Sizes
         /\ flushed' \in [upto: 0..MaxAnswers, held: SUBSET Answers]
    BY <1>0, <1>4 DEF Answer
  <2>13. QED
    BY <2>8, <2>9, <2>10, <2>11, <2>12, Zenon DEF TypeOK
<1>5. CASE UpstreamFails(r)
  BY <1>0, <1>5, IdleHandler, ReleaseTypeOK DEF UpstreamFails
<1>6. CASE Put(r)
  <2> DEFINE k == KeyFor(req[r].question)
             row == [answer |-> req[r].answer, size |-> req[r].size, left |-> TTL,
                     hits |-> IF Exists(k) THEN cache[k].hits ELSE 0]
  <2>1. k \in Keys
    BY <1>6, HoldersTyped, KeyForType, IdleHandler DEF Put
  <2>2. /\ req[r].answer \in Given /\ req[r].answer \in Answers /\ req[r].size \in Sizes
    BY <1>6, HoldersTyped DEF Put
  <2>3. (IF Exists(k) THEN cache[k].hits ELSE 0) \in Nat
    BY <1>0, <2>1 DEF Exists, Row
  <2>4. row \in Row /\ row.answer \in Given
    BY <2>2, <2>3, CacheAssumption DEF Row
  <2>5. cache' = [cache EXCEPT ![k] = row]
    BY <1>6, Zenon DEF Put
  <2> HIDE DEF k, row
  <2>6. /\ cache' \in [Keys -> Row \cup {NoRow}]
        /\ \A j \in Keys : cache'[j] # NoRow => cache'[j].answer \in Given
    BY <1>0, <2>1, <2>4, <2>5
  <2>7. QED
    BY <1>0, <1>6, <2>6, IdleHandler, ReleaseTypeOK DEF Put
<1>7. CASE PutFails(r)
  BY <1>0, <1>7, IdleHandler, ReleaseTypeOK DEF PutFails
<1>8. QED
  BY <1>1, <1>2, <1>3, <1>4, <1>5, <1>6, <1>7 DEF RequestStep

(* Flush, collector and clock.                                             *)
LEMMA TableTypeOK ==
    ASSUME TypeOK, Flush \/ GC \/ Tick
    PROVE  TypeOK'
<1>0. /\ cache \in [Keys -> Row \cup {NoRow}] /\ maxBytes \in Sizes
      /\ req \in [Requests -> Handlers]
      /\ flushed \in [upto: 0..MaxAnswers, held: SUBSET Answers]
      /\ \A k \in Keys : cache[k] # NoRow => cache[k].answer \in Given
  BY DEF TypeOK, Exists
<1>1. /\ \A r \in Requests : req[r].pc \in {"touch", "put"} => req[r].answer \in Given
      /\ Held \subseteq Answers
  BY HoldersTyped DEF Held
<1>2. /\ cache' \in [Keys -> Row \cup {NoRow}]
      /\ \A k \in Keys : cache'[k] # NoRow => cache'[k].answer \in Given
  <2>1. CASE Flush
    BY <2>1 DEF Flush
  <2>2. CASE GC
    BY <1>0, <2>2 DEF GC, Live, Exists
  <2>3. CASE Tick
    <3>1. \A k \in Keys : Live(k) =>
             /\ [cache[k] EXCEPT !.left = @ - 1] \in Row
             /\ [cache[k] EXCEPT !.left = @ - 1].answer \in Given
      BY <1>0, CacheAssumption DEF Live, Exists, Row
    <3>2. \A k \in Keys : cache'[k] = IF Live(k) THEN [cache[k] EXCEPT !.left = @ - 1]
                                      ELSE cache[k]
      BY <2>3 DEF Tick
    <3>3. cache' = [k \in Keys |-> cache'[k]]
      BY <2>3, Zenon DEF Tick
    <3>4. QED
      BY <1>0, <3>1, <3>2, <3>3
  <2>4. QED
    BY <2>1, <2>2, <2>3
<1>3. flushed' \in [upto: 0..MaxAnswers, held: SUBSET Answers]
  BY <1>0, <1>1, Numbered DEF Flush, GC, Tick, LastGiven
<1>4. UNCHANGED <<maxBytes, req, asked>>
  BY DEF Flush, GC, Tick
<1>5. QED
  BY <1>0, <1>1, <1>2, <1>3, <1>4, TypeKept

(* Variables keep their types, answers their numbers.                      *)
THEOREM TypeCorrect == Spec => []TypeOK
<1>1. Init => TypeOK
  <2> SUFFICES ASSUME Init PROVE TypeOK
    OBVIOUS
  <2>1. asked \in [1..0 -> Questions] /\ 0 \in 0..MaxAnswers
    BY CacheAssumption DEF Init
  <2>2. Held = {}
    BY IdleHandler DEF Init, Held
  <2>3. \A k \in Keys : ~Exists(k)
    BY DEF Init, Exists
  <2>4. /\ cache \in [Keys -> Row \cup {NoRow}] /\ maxBytes \in Sizes
        /\ req \in [Requests -> Handlers]
        /\ flushed \in [upto: 0..MaxAnswers, held: SUBSET Answers]
    BY <2>1, IdleHandler DEF Init
  <2>5. QED
    BY <2>1, <2>2, <2>3, <2>4, Zenon DEF TypeOK
<1>2. TypeOK /\ [Next]_vars => TypeOK'
  <2> SUFFICES ASSUME TypeOK, [Next]_vars PROVE TypeOK'
    OBVIOUS
  <2>1. CASE UNCHANGED vars
    BY <2>1 DEF vars, TypeOK, Exists, Held, Given
  <2>2. ASSUME NEW limit \in Sizes, Restart(limit) PROVE TypeOK'
    <3>1. /\ req' \in [Requests -> Handlers] /\ \A r \in Requests : req'[r] = Idle
      BY <2>2, IdleHandler DEF Restart
    <3>2. QED
      BY <2>2, <3>1, ReleaseTypeOK DEF Restart, TypeOK, Exists
  <2>3. QED
    BY <2>1, <2>2, RequestTypeOK, TableTypeOK DEF Next
<1>3. QED
  BY <1>1, <1>2, PTL DEF Spec

----------------------------------------------------------------------------
(* Rows and handlers hold answers to questions with their own key.         *)
Keyed ==
    /\ \A k \in Keys : Exists(k) => KeyFor(asked[cache[k].answer]) = k
    /\ \A r \in Requests : req[r].pc \in {"touch", "put"} =>
         KeyFor(asked[req[r].answer]) = KeyFor(req[r].question)

LEMMA KeyedStep ==
    ASSUME TypeOK, Keyed, [Next]_vars
    PROVE  Keyed'
<1>0. /\ \A k \in Keys : Exists(k) => cache[k].answer \in Given
      /\ cache \in [Keys -> Row \cup {NoRow}] /\ req \in [Requests -> Handlers]
      /\ Idle.pc \notin {"touch", "put"}
  BY IdleHandler DEF TypeOK
<1> DEFINE RowKeyed(k) == KeyFor(asked[cache[k].answer]) = k
           HandKeyed(r) == KeyFor(asked[req[r].answer]) = KeyFor(req[r].question)
<1>1. ASSUME UNCHANGED <<cache, asked>>, NEW r \in Requests,
             \A s \in Requests : s # r => req'[s] = req[s],
             req'[r].pc \in {"touch", "put"} => HandKeyed(r)'
      PROVE  Keyed'
  BY <1>1 DEF Keyed, Exists
<1>2. ASSUME UNCHANGED asked, \A r \in Requests : req'[r] \in {req[r], Idle},
             \A k \in Keys : Exists(k)' =>
                Exists(k) /\ cache'[k].answer = cache[k].answer
      PROVE  Keyed'
  BY <1>0, <1>2 DEF Keyed
<1>3. ASSUME NEW r \in Requests, NEW q \in Questions, Hit(r, q) PROVE Keyed'
  <2>1. KeyFor(q) \in Keys /\ Exists(KeyFor(q))
    BY <1>3, KeyForType DEF Hit, Live
  <2>2. /\ req'[r].question = q /\ req'[r].answer = cache[KeyFor(q)].answer
        /\ \A s \in Requests : s # r => req'[s] = req[s]
    BY <1>0, <1>3 DEF Hit
  <2>3. HandKeyed(r)'
    BY <1>3, <2>1, <2>2 DEF Keyed, Hit
  <2>4. UNCHANGED <<cache, asked>>
    BY <1>3 DEF Hit
  <2>5. QED
    BY <1>1, <2>2, <2>3, <2>4
<1>4. ASSUME NEW r \in Requests, NEW q \in Questions, Miss(r, q) PROVE Keyed'
  <2>1. /\ req'[r].pc = "forward" /\ \A s \in Requests : s # r => req'[s] = req[s]
        /\ UNCHANGED <<cache, asked>>
    BY <1>0, <1>4 DEF Miss
  <2>2. QED
    BY <1>1, <2>1
<1>5. ASSUME NEW r \in Requests, NEW done \in BOOLEAN, Touch(r, done) PROVE Keyed'
  <2>1. KeyFor(req[r].question) \in Keys
    BY <1>5, HoldersTyped, KeyForType, IdleHandler DEF Touch
  <2>2. \A k \in Keys : Exists(k)' => Exists(k) /\ cache'[k].answer = cache[k].answer
    BY <1>0, <1>5, <2>1, NoRowNoRow DEF Touch, Exists, Row
  <2>3. UNCHANGED asked /\ \A s \in Requests : req'[s] \in {req[s], Idle}
    BY <1>0, <1>5 DEF Touch
  <2>4. QED
    BY <1>2, <2>2, <2>3
<1>6. ASSUME NEW r \in Requests, NEW size \in Sizes, Answer(r, size) PROVE Keyed'
  <2> DEFINE a == LastGiven + 1
  <2>1. LastGiven \in Nat /\ Given = 1..LastGiven
    BY Numbered, CacheAssumption
  <2>2. /\ asked' = [b \in 1..a |-> IF b = a THEN req[r].question ELSE asked[b]]
        /\ req'[r].answer = a /\ req'[r].question = req[r].question
        /\ \A s \in Requests : s # r => req'[s] = req[s]
        /\ UNCHANGED cache
    BY <1>0, <1>6 DEF Answer, LastGiven
  <2>3. asked'[a] = req[r].question /\ \A b \in Given : asked'[b] = asked[b]
    BY <2>1, <2>2
  <2> HIDE DEF a
  <2>4. ASSUME NEW k \in Keys, Exists(k)' PROVE KeyFor(asked'[cache'[k].answer]) = k
    <3>1. Exists(k) /\ cache'[k] = cache[k]
      BY <2>2, <2>4 DEF Exists
    <3>2. asked'[cache[k].answer] = asked[cache[k].answer]
      BY <1>0, <2>3, <3>1
    <3>3. KeyFor(asked[cache[k].answer]) = k
      BY <3>1 DEF Keyed
    <3>4. QED
      BY <3>1, <3>2, <3>3
  <2>5. ASSUME NEW s \in Requests, req'[s].pc \in {"touch", "put"}
        PROVE  KeyFor(asked'[req'[s].answer]) = KeyFor(req'[s].question)
    <3>1. CASE s = r
      BY <2>2, <2>3, <3>1
    <3>2. CASE s # r
      <4>1. req'[s] = req[s] /\ req[s].pc \in {"touch", "put"}
        BY <2>2, <2>5, <3>2
      <4>2. asked'[req[s].answer] = asked[req[s].answer]
        BY <2>3, <4>1, HoldersTyped
      <4>3. KeyFor(asked[req[s].answer]) = KeyFor(req[s].question)
        BY <4>1 DEF Keyed
      <4>4. QED
        BY <4>1, <4>2, <4>3
    <3>3. QED
      BY <3>1, <3>2
  <2>6. QED
    BY <2>4, <2>5 DEF Keyed
<1>7. ASSUME NEW r \in Requests, UpstreamFails(r) \/ PutFails(r) PROVE Keyed'
  BY <1>0, <1>2, <1>7 DEF UpstreamFails, PutFails, Exists
<1>8. ASSUME NEW r \in Requests, Put(r) PROVE Keyed'
  <2> DEFINE k == KeyFor(req[r].question)
  <2>1. k \in Keys
    BY <1>8, HoldersTyped, KeyForType, IdleHandler DEF Put
  <2>2. /\ cache'[k].answer = req[r].answer
        /\ \A j \in Keys : j # k => cache'[j] = cache[j]
    BY <1>0, <1>8, <2>1 DEF Put
  <2>3. KeyFor(asked[req[r].answer]) = k
    BY <1>8 DEF Keyed, Put
  <2>4. UNCHANGED asked /\ \A s \in Requests : req'[s] \in {req[s], Idle}
    BY <1>0, <1>8 DEF Put
  <2> HIDE DEF k
  <2>5. \A j \in Keys : Exists(j)' => RowKeyed(j)'
    BY <2>2, <2>3, <2>4 DEF Keyed, Exists
  <2>6. \A s \in Requests : req'[s].pc \in {"touch", "put"} => HandKeyed(s)'
    BY <1>0, <2>4 DEF Keyed
  <2>7. QED
    BY <2>5, <2>6 DEF Keyed
<1>9. CASE Flush \/ GC
  BY <1>0, <1>2, <1>9 DEF Flush, GC, Exists
<1>10. CASE Tick
  <2>1. \A k \in Keys : Live(k) => [cache[k] EXCEPT !.left = @ - 1].answer = cache[k].answer
    BY <1>0 DEF Live, Exists, Row
  <2>2. QED
    BY <1>0, <1>2, <1>10, <2>1 DEF Tick, Live, Exists
<1>11. ASSUME NEW limit \in Sizes, Restart(limit) PROVE Keyed'
  BY <1>0, <1>2, <1>11 DEF Restart, Exists
<1>12. CASE UNCHANGED vars
  BY <1>12 DEF vars, Keyed, Exists
<1>13. QED
  BY <1>3, <1>4, <1>5, <1>6, <1>7, <1>8, <1>9, <1>10, <1>11, <1>12 DEF Next, RequestStep

(* Whatever a client is served was answered to its own question on its own *)
(* route.                                                                  *)
THEOREM AnswersAlwaysFit == Spec => []AnswersItsQuestion
<1>1. Init => Keyed
  BY IdleHandler DEF Init, Keyed, Exists
<1>2. TypeOK /\ Keyed => AnswersItsQuestion
  <2> SUFFICES ASSUME TypeOK, Keyed, NEW r \in Requests, req[r].pc = "touch"
               PROVE  /\ asked[req[r].answer].route = req[r].question.route
                      /\ asked[req[r].answer].words = req[r].question.words
    BY DEF AnswersItsQuestion
  <2>1. KeyFor(asked[req[r].answer]) = KeyFor(req[r].question)
    BY DEF Keyed
  <2>2. QED
    BY <2>1 DEF KeyFor
<1>3. QED
  BY <1>1, <1>2, TypeCorrect, KeyedStep, PTL DEF Spec

----------------------------------------------------------------------------
(* The flush counted the answers there were.                               *)
FlushInv == FlushedStaysFlushed /\ flushed.upto <= LastGiven

Survives(a) == a > flushed.upto \/ a \in flushed.held

(* Steps that bring neither an answer nor a flush, and move answers only   *)
(* between the hands and the table.                                        *)
LEMMA MovedFlushInv ==
    ASSUME TypeOK, FlushInv, UNCHANGED <<asked, flushed>>,
           \A k \in Keys : Exists(k)' => Survives(cache'[k].answer),
           \A r \in Requests : req'[r].pc \in {"touch", "put"} => Survives(req'[r].answer)
    PROVE  FlushInv'
<1>1. \A a \in Held' : Survives(a)
  BY DEF Held
<1>2. FlushedStaysFlushed'
  BY <1>1 DEF FlushedStaysFlushed, Survives
<1>3. flushed'.upto <= LastGiven'
  BY DEF FlushInv, LastGiven, Given
<1>4. QED
  BY <1>2, <1>3 DEF FlushInv

LEMMA FlushStep ==
    ASSUME TypeOK, FlushInv, [Next]_vars
    PROVE  FlushInv'
<1>0. /\ \A k \in Keys : Exists(k) => cache[k].answer \in Given /\ Survives(cache[k].answer)
      /\ cache \in [Keys -> Row \cup {NoRow}] /\ req \in [Requests -> Handlers]
      /\ Idle.pc \notin {"touch", "put"}
  BY IdleHandler DEF TypeOK, FlushInv, FlushedStaysFlushed, Survives
<1>h. \A r \in Requests : req[r].pc \in {"touch", "put"} => Survives(req[r].answer)
  BY DEF FlushInv, FlushedStaysFlushed, Survives, Held
<1>n. /\ LastGiven \in Nat /\ Given = 1..LastGiven
      /\ flushed.upto \in Nat /\ flushed.upto <= LastGiven
  BY Numbered, CacheAssumption DEF TypeOK, FlushInv
<1>1. ASSUME NEW r \in Requests, NEW q \in Questions, Hit(r, q) PROVE FlushInv'
  <2>1. KeyFor(q) \in Keys /\ Exists(KeyFor(q))
    BY <1>1, KeyForType DEF Hit, Live
  <2>2. /\ req'[r].answer = cache[KeyFor(q)].answer
        /\ \A s \in Requests : s # r => req'[s] = req[s]
        /\ UNCHANGED <<cache, asked, flushed>>
    BY <1>0, <1>1 DEF Hit
  <2>3. \A s \in Requests : req'[s].pc \in {"touch", "put"} => Survives(req'[s].answer)
    BY <1>0, <1>h, <2>1, <2>2
  <2>4. QED
    BY <1>0, <2>2, <2>3, MovedFlushInv DEF Exists
<1>2. ASSUME UNCHANGED <<asked, flushed>>,
             \A s \in Requests : req'[s].pc \in {"touch", "put"} => req'[s] = req[s],
             \A k \in Keys : Exists(k)' => Exists(k) /\ cache'[k].answer = cache[k].answer
      PROVE  FlushInv'
  BY <1>0, <1>h, <1>2, MovedFlushInv
<1>3. ASSUME NEW r \in Requests, NEW q \in Questions, Miss(r, q) PROVE FlushInv'
  <2>1. /\ req'[r].pc = "forward" /\ \A s \in Requests : s # r => req'[s] = req[s]
        /\ UNCHANGED <<cache, asked, flushed>>
    BY <1>0, <1>3 DEF Miss
  <2>2. QED
    BY <1>2, <2>1 DEF Exists
<1>4. ASSUME NEW r \in Requests, NEW done \in BOOLEAN, Touch(r, done) PROVE FlushInv'
  <2>1. KeyFor(req[r].question) \in Keys
    BY <1>4, HoldersTyped, KeyForType, IdleHandler DEF Touch
  <2>2. \A k \in Keys : Exists(k)' => Exists(k) /\ cache'[k].answer = cache[k].answer
    BY <1>0, <1>4, <2>1, NoRowNoRow DEF Touch, Exists, Row
  <2>3. /\ UNCHANGED <<asked, flushed>>
        /\ \A s \in Requests : req'[s].pc \in {"touch", "put"} => req'[s] = req[s]
    BY <1>0, <1>4 DEF Touch
  <2>4. QED
    BY <1>2, <2>2, <2>3
<1>5. ASSUME NEW r \in Requests, NEW size \in Sizes, Answer(r, size) PROVE FlushInv'
  <2> DEFINE a == LastGiven + 1
  <2>1. /\ asked' = [b \in 1..a |-> IF b = a THEN req[r].question ELSE asked[b]]
        /\ req'[r].answer = a /\ \A s \in Requests : s # r => req'[s] = req[s]
        /\ UNCHANGED <<cache, flushed>>
    BY <1>0, <1>5 DEF Answer, LastGiven
  <2>2. Given' = 1..a /\ a \in Nat
    BY <1>n, <2>1 DEF Given
  <2>3. LastGiven' = a
    BY <2>2, FS_Interval DEF LastGiven
  <2>4. a > flushed.upto
    BY <1>n
  <2> HIDE DEF a
  <2>5. \A s \in Requests : req'[s].pc \in {"touch", "put"} => Survives(req'[s].answer)
    BY <1>h, <2>1, <2>4 DEF Survives
  <2>6. \A b \in Held' : Survives(b)
    BY <2>5 DEF Held
  <2>7. \A k \in Keys : Exists(k)' => Survives(cache'[k].answer)
    BY <1>0, <2>1 DEF Exists
  <2>8. FlushedStaysFlushed'
    BY <2>1, <2>6, <2>7 DEF FlushedStaysFlushed, Survives
  <2>9. flushed'.upto <= LastGiven'
    BY <1>n, <2>1, <2>2, <2>3, <2>4
  <2>10. QED
    BY <2>8, <2>9 DEF FlushInv
<1>6. ASSUME NEW r \in Requests, UpstreamFails(r) \/ PutFails(r) PROVE FlushInv'
  BY <1>0, <1>2, <1>6 DEF UpstreamFails, PutFails, Exists
<1>7. ASSUME NEW r \in Requests, Put(r) PROVE FlushInv'
  <2> DEFINE k == KeyFor(req[r].question)
  <2>1. k \in Keys
    BY <1>7, HoldersTyped, KeyForType, IdleHandler DEF Put
  <2>2. /\ cache'[k].answer = req[r].answer
        /\ \A j \in Keys : j # k => cache'[j] = cache[j]
        /\ Survives(req[r].answer)
    BY <1>0, <1>h, <1>7, <2>1 DEF Put
  <2>3. /\ UNCHANGED <<asked, flushed>>
        /\ \A s \in Requests : req'[s].pc \in {"touch", "put"} => req'[s] = req[s]
    BY <1>0, <1>7 DEF Put
  <2> HIDE DEF k
  <2>4. \A j \in Keys : Exists(j)' => Survives(cache'[j].answer)
    BY <1>0, <2>2 DEF Exists
  <2>5. QED
    BY <1>h, <2>3, <2>4, MovedFlushInv
<1>8. CASE Flush
  <2>1. /\ \A k \in Keys : ~Exists(k)'
        /\ Held' = Held /\ flushed'.held = Held
        /\ flushed'.upto = LastGiven /\ LastGiven' = LastGiven
    BY <1>8 DEF Flush, Exists, Held, LastGiven, Given
  <2>2. FlushedStaysFlushed'
    BY <2>1 DEF FlushedStaysFlushed
  <2>3. QED
    BY <1>n, <2>1, <2>2 DEF FlushInv
<1>9. CASE GC
  BY <1>0, <1>2, <1>9 DEF GC, Exists
<1>10. CASE Tick
  <2>1. \A k \in Keys : Live(k) => [cache[k] EXCEPT !.left = @ - 1].answer = cache[k].answer
    BY <1>0 DEF Live, Exists, Row
  <2>2. QED
    BY <1>0, <1>2, <1>10, <2>1 DEF Tick, Live, Exists
<1>11. ASSUME NEW limit \in Sizes, Restart(limit) PROVE FlushInv'
  BY <1>0, <1>2, <1>11 DEF Restart, Exists
<1>12. CASE UNCHANGED vars
  BY <1>2, <1>12 DEF vars, Exists
<1>13. QED
  BY <1>1, <1>3, <1>4, <1>5, <1>6, <1>7, <1>8, <1>9, <1>10, <1>11, <1>12 DEF Next, RequestStep

(* No row and no hand outlives a flush, unless a request held the answer   *)
(* at that moment.                                                         *)
THEOREM FlushesHold == Spec => []FlushedStaysFlushed
<1>1. Init => FlushInv
  <2> SUFFICES ASSUME Init PROVE FlushInv
    OBVIOUS
  <2>1. Held = {} /\ \A k \in Keys : ~Exists(k)
    BY IdleHandler DEF Init, Held, Exists
  <2>2. Given = {} /\ flushed.upto = 0
    BY DEF Init, Given
  <2>3. LastGiven = 0
    BY <2>2, FS_EmptySet DEF LastGiven
  <2>4. QED
    BY <2>1, <2>2, <2>3 DEF FlushInv, FlushedStaysFlushed
<1>2. FlushInv => FlushedStaysFlushed
  BY DEF FlushInv
<1>3. QED
  BY <1>1, <1>2, TypeCorrect, FlushStep, PTL DEF Spec

----------------------------------------------------------------------------
(* The mapping: what a step leaves of the table, and of the hands.         *)
Entry == [k \in Keys |-> IF Live(k) THEN cache[k].answer ELSE NoAnswer]
Hands == [r \in Requests |-> HandOf(req[r])]

PromiseStep == [Promise!Next]_(Promise!vars)

LEMMA MappedInit == Init => Promise!Init
<1> SUFFICES ASSUME Init PROVE Promise!Init
  OBVIOUS
<1>1. Entry = [k \in Keys |-> NoAnswer]
  BY DEF Init, Entry, Live, Exists
<1>2. HandOf(Idle) = Promise!Empty
  BY DEF HandOf, Idle, Promise!Empty
<1>3. Hands = [r \in Requests |-> Promise!Empty]
  BY <1>2 DEF Init, Hands
<1>4. QED
  BY <1>1, <1>3 DEF Promise!Init, Entry, Hands

(* Rows may go, no hand moves.                                             *)
LEMMA MappedForget ==
    ASSUME UNCHANGED req, \A k \in Keys : Entry'[k] \in {Entry[k], NoAnswer}
    PROVE  PromiseStep
<1>1. Hands' = Hands
  BY DEF Hands
<1>2. Entry' = [k \in Keys |-> Entry'[k]]
  BY DEF Entry
<1>3. Promise!Forget
  BY <1>1, <1>2, Zenon DEF Promise!Forget, Entry, Hands
<1>4. QED
  BY <1>3, Zenon DEF PromiseStep, Promise!Next

(* Hands may be emptied, the table keeps its answers.                      *)
LEMMA MappedRelease ==
    ASSUME Entry' = Entry, \A r \in Requests : req'[r] \in {req[r], Idle}
    PROVE  PromiseStep
<1>1. HandOf(Idle) = Promise!Empty
  BY DEF HandOf, Idle, Promise!Empty
<1>2. \A r \in Requests : Hands'[r] \in {Hands[r], Promise!Empty}
  BY <1>1 DEF Hands
<1>3. Hands' = [r \in Requests |-> Hands'[r]]
  BY DEF Hands
<1>4. Promise!Release
  BY <1>2, <1>3, Zenon DEF Promise!Release, Entry, Hands
<1>5. QED
  BY <1>4, Zenon DEF PromiseStep, Promise!Next

LEMMA EntryUnchanged ==
    ASSUME UNCHANGED cache
    PROVE  Entry' = Entry
BY DEF Entry, Live, Exists

LEMMA MappedRequest ==
    ASSUME TypeOK, NEW r \in Requests, RequestStep(r)
    PROVE  PromiseStep
<1>0. /\ req \in [Requests -> Handlers] /\ cache \in [Keys -> Row \cup {NoRow}]
      /\ \A k \in Keys : Exists(k) => cache[k] \in Row
  BY DEF TypeOK, Exists
<1>e. HandOf(Idle) = Promise!Empty
  BY DEF HandOf, Idle, Promise!Empty
<1>1. ASSUME NEW q \in Questions, Hit(r, q) PROVE PromiseStep
  <2> DEFINE k == KeyFor(q)
             h == [pc |-> "touch", question |-> q, answer |-> cache[k].answer]
             m == [from |-> "cache", key |-> k, answer |-> Entry[k]]
  <2>1. k \in Keys /\ Exists(k) /\ Live(k)
    BY <1>1, KeyForType DEF Hit, Live
  <2>2. Entry[k] = cache[k].answer
    BY <2>1 DEF Entry
  <2>3. Entry[k] # NoAnswer
    BY <1>0, <2>1, <2>2, CacheAssumption DEF Row, Answers
  <2>4. HandOf(h) = m
    BY <2>2 DEF HandOf
  <2>5. req' = [req EXCEPT ![r] = h]
    BY <1>1, Zenon DEF Hit
  <2> HIDE DEF h, m, k
  <2>6. Hands' = [Hands EXCEPT ![r] = m]
    BY <1>0, <2>4, <2>5 DEF Hands
  <2>7. Hands[r] = Promise!Empty
    BY <1>1, <1>e DEF Hit, Hands
  <2>8. Entry' = Entry
    BY <1>1, EntryUnchanged DEF Hit
  <2>9. Promise!Serve(r, k)
    BY <2>3, <2>6, <2>7, <2>8, Zenon DEF Promise!Serve, Entry, Hands, m
  <2>10. QED
    BY <2>1, <2>9, Zenon DEF PromiseStep, Promise!Next
<1>2. ASSUME NEW q \in Questions, Miss(r, q) PROVE PromiseStep
  <2> DEFINE h == [pc |-> "forward", question |-> q]
  <2>1. HandOf(h) = Promise!Empty
    BY DEF HandOf, Promise!Empty
  <2>2. req' = [req EXCEPT ![r] = h] /\ req[r] = Idle /\ UNCHANGED cache
    BY <1>2, Zenon DEF Miss
  <2> HIDE DEF h
  <2>3. Hands' = Hands
    BY <1>0, <1>e, <2>1, <2>2 DEF Hands
  <2>4. QED
    BY <2>2, <2>3, EntryUnchanged, Zenon DEF PromiseStep, Promise!vars, Entry, Hands
<1>3. ASSUME NEW done \in BOOLEAN, Touch(r, done) PROVE PromiseStep
  <2>1. KeyFor(req[r].question) \in Keys
    BY <1>3, HoldersTyped, KeyForType, IdleHandler DEF Touch
  <2>2. \A k \in Keys : /\ Live(k)' <=> Live(k)
                        /\ Live(k) => cache'[k].answer = cache[k].answer
    BY <1>0, <1>3, <2>1, NoRowNoRow DEF Touch, Exists, Live, Row
  <2>3. Entry' = Entry
    BY <2>2 DEF Entry
  <2>4. \A s \in Requests : req'[s] \in {req[s], Idle}
    BY <1>0, <1>3 DEF Touch
  <2>5. QED
    BY <2>3, <2>4, MappedRelease
<1>4. ASSUME NEW size \in Sizes, Answer(r, size) PROVE PromiseStep
  <2> DEFINE a == LastGiven + 1
             k == KeyFor(req[r].question)
             h == [pc |-> "put", question |-> req[r].question, answer |-> a, size |-> size]
             m == [from |-> "upstream", key |-> k, answer |-> a]
  <2>1. k \in Keys
    BY <1>4, HoldersTyped, KeyForType, IdleHandler DEF Answer
  <2>2. a \in Answers
    BY <1>4, Numbered, CacheAssumption DEF Answer, Answers, LastGiven
  <2>3. HandOf(h) = m
    BY DEF HandOf
  <2>4. req' = [req EXCEPT ![r] = h] /\ UNCHANGED cache
    BY <1>4, Zenon DEF Answer, LastGiven
  <2>5. Hands[r] = Promise!Empty
    BY <1>0, <1>4 DEF Answer, Hands, HandOf, Promise!Empty
  <2> HIDE DEF h, m, k, a
  <2>6. Hands' = [Hands EXCEPT ![r] = m]
    BY <1>0, <2>3, <2>4 DEF Hands
  <2>7. Promise!Fetch(r, k, a)
    BY <2>4, <2>5, <2>6, EntryUnchanged, Zenon DEF Promise!Fetch, Entry, Hands, m
  <2>8. QED
    BY <2>1, <2>2, <2>7, Zenon DEF PromiseStep, Promise!Next
<1>5. CASE UpstreamFails(r)
  BY <1>0, <1>5, EntryUnchanged, MappedRelease DEF UpstreamFails
<1>6. CASE Put(r)
  <2>0. KeyFor(req[r].question) \in Keys
    BY <1>6, HoldersTyped, KeyForType, IdleHandler DEF Put
  <2>1. PICK k \in Keys : k = KeyFor(req[r].question)
    BY <2>0
  <2> DEFINE a == req[r].answer
             m == [from |-> "upstream", key |-> k, answer |-> a]
  <2>2. Hands[r] = m
    BY <1>6, <2>1 DEF Put, Hands, HandOf
  <2>3. req' = [req EXCEPT ![r] = Idle]
    BY <1>6, Zenon DEF Put
  <2>4. Hands' = [Hands EXCEPT ![r] = Promise!Empty]
    BY <1>0, <1>e, <2>3 DEF Hands
  <2>5. /\ cache'[k].answer = a /\ cache'[k].left = TTL /\ cache'[k] # NoRow
        /\ \A j \in Keys : j # k => cache'[j] = cache[j]
    <3> DEFINE row == [answer |-> a, size |-> req[r].size, left |-> TTL,
                       hits |-> IF Exists(k) THEN cache[k].hits ELSE 0]
    <3>1. row # NoRow /\ row.answer = a /\ row.left = TTL
      BY DEF NoRow
    <3>2. cache' = [cache EXCEPT ![k] = row]
      BY <1>6, <2>1, Zenon DEF Put
    <3> HIDE DEF row, a
    <3>3. QED
      BY <1>0, <2>1, <3>1, <3>2
  <2>6. Live(k)' /\ \A j \in Keys : j # k => (Live(j)' <=> Live(j))
    BY <2>5, CacheAssumption DEF Live, Exists
  <2> HIDE DEF a
  <2>7. Entry' = [Entry EXCEPT ![k] = a]
    BY <2>1, <2>5, <2>6 DEF Entry
  <2>8. m.from = "upstream" /\ m.key = k /\ m.answer = a
    OBVIOUS
  <2> HIDE DEF m
  <2>9. Promise!Keep(r)
    BY <2>2, <2>4, <2>7, <2>8, Zenon DEF Promise!Keep, Entry, Hands
  <2>10. QED
    BY <2>9, Zenon DEF PromiseStep, Promise!Next
<1>7. CASE PutFails(r)
  BY <1>0, <1>7, EntryUnchanged, MappedRelease DEF PutFails
<1>8. QED
  BY <1>1, <1>2, <1>3, <1>4, <1>5, <1>6, <1>7 DEF RequestStep

(* Every step is one of the abstract cache's, or none.                     *)
LEMMA MappedStep ==
    ASSUME TypeOK, [Next]_vars
    PROVE  PromiseStep
<1>0. cache \in [Keys -> Row \cup {NoRow}]
  BY DEF TypeOK
<1>1. CASE Flush
  BY <1>1, MappedForget DEF Flush, Entry, Live, Exists
<1>2. CASE GC
  BY <1>0, <1>2, MappedForget DEF GC, Entry, Live, Exists
<1>3. CASE Tick
  <2>1. \A k \in Keys : Live(k) => [cache[k] EXCEPT !.left = @ - 1].answer = cache[k].answer
    BY <1>0 DEF Live, Exists, Row
  <2>2. \A k \in Keys : /\ Live(k) => cache'[k].answer = cache[k].answer
                        /\ ~Live(k) => cache'[k] = cache[k]
    BY <1>3, <2>1 DEF Tick
  <2>3. \A k \in Keys : Live(k)' => Live(k)
    BY <2>2 DEF Live, Exists
  <2>4. \A k \in Keys : Entry'[k] \in {Entry[k], NoAnswer}
    BY <2>2, <2>3 DEF Entry
  <2>5. QED
    BY <1>3, <2>4, MappedForget DEF Tick
<1>4. ASSUME NEW limit \in Sizes, Restart(limit) PROVE PromiseStep
  BY <1>4, EntryUnchanged, MappedRelease DEF Restart
<1>5. CASE UNCHANGED vars
  <2>1. Entry' = Entry /\ Hands' = Hands
    BY <1>5, EntryUnchanged DEF vars, Hands
  <2>2. QED
    BY <2>1, Zenon DEF PromiseStep, Promise!vars, Entry, Hands
<1>6. QED
  BY <1>1, <1>2, <1>3, <1>4, <1>5, MappedRequest DEF Next

(* The table and its handlers are a cache with atomic operations.          *)
THEOREM CacheKeepsItsPromise == Spec => ImplementsAnswerCache
<1>1. TypeOK /\ [Next]_vars => [Promise!Next]_(Promise!vars)
  BY MappedStep DEF PromiseStep
<1>2. QED
  BY <1>1, MappedInit, TypeCorrect, PTL DEF Spec, ImplementsAnswerCache, Promise!Spec
============================================================================
