---------------------------- MODULE ResponseCache ----------------------------
(***************************************************************************)
(* The response cache: internal/cache/cache.go over the cache table        *)
(* (internal/store/sqlite.go), as the native non-streaming routes          *)
(* (internal/handler/openai.go and anthropic.go), the flush of the admin   *)
(* and the collector use it.  Streaming and converted requests do not      *)
(* touch it.                                                               *)
(*                                                                         *)
(* A statement is a step.  A hit takes two, the look-up and the touch; a   *)
(* miss has the upstream's call between its look-up and its put.  Answers  *)
(* are numbered in the order in which the upstream gives them.  expires_at *)
(* is in whole seconds and so is the TTL: "left" counts the seconds that   *)
(* must begin until the row is expired.                                    *)
(***************************************************************************)
EXTENDS Naturals, FiniteSets

CONSTANTS
    Routes,      \* endpoints with the model: what joins the body in the key
    Words,       \* what a request's body says, ignored names apart
    Ignored,     \* values of the ignored names (stream, user, metadata, id, ...)
    Requests,    \* handlers
    NoAnswer,
    TTL,         \* cache.ttl_seconds; 0 is made 3600, below 0 nothing is ever live
    Sizes,       \* sizes of answers, and values of cache.max_response_bytes
    Enabled,     \* cache.enabled, which only starts the collector
    MaxAnswers,  \* bound: answers of the upstream
    MaxHits      \* bound: rows are looked up while they have fewer hits

ASSUME CacheAssumption ==
    /\ Sizes \subseteq Nat /\ Sizes # {}
    /\ TTL \in Nat \ {0} /\ MaxAnswers \in Nat /\ MaxHits \in Nat
    /\ Enabled \in BOOLEAN
    /\ NoAnswer \notin 1..MaxAnswers

VARIABLES
    cache,    \* the table
    maxBytes, \* Cache.maxBytes, from the configuration of this process
    req,      \* what every handler holds between its statements
    asked,    \* history: the question every answer was given to
    flushed   \* history: at the last flush, the last answer given and those held

vars == <<cache, maxBytes, req, asked, flushed>>

Questions == [route: Routes, words: Words, ignored: Ignored]
Answers == 1..MaxAnswers

(* Mutant: the key is made of the body alone.                              *)
KeyForBody(q) == [route |-> CHOOSE r \in Routes : TRUE, words |-> q.words]

(* KeyFor and normalize: endpoint, model and the body without the ignored  *)
(* names, wherever they are; the order of lists is kept.                   *)
KeyFor(q) == [route |-> q.route, words |-> q.words]

Keys == [route: Routes, words: Words]

NoRow == [answer |-> NoAnswer]
Row == [answer: Answers, size: Sizes, left: 0..TTL, hits: Nat]

Exists(k) == cache[k] # NoRow
Live(k) == Exists(k) /\ cache[k].left > 0

Idle == [pc |-> "idle"]
Given == DOMAIN asked

Init ==
    /\ cache = [k \in Keys |-> NoRow]
    /\ maxBytes \in Sizes
    /\ req = [r \in Requests |-> Idle]
    /\ asked = <<>>
    /\ flushed = [upto |-> 0, held |-> {}]

----------------------------------------------------------------------------
(* A request.                                                              *)

(* Get, a live row that is not too large: its answer is served whatever    *)
(* becomes of the touch.                                                   *)
Hit(r, q) ==
    LET k == KeyFor(q)
    IN  /\ req[r] = Idle
        /\ Live(k) /\ cache[k].size <= maxBytes
        /\ cache[k].hits < MaxHits
        /\ req' = [req EXCEPT ![r] = [pc |-> "touch", question |-> q,
                                      answer |-> cache[k].answer]]
        /\ UNCHANGED <<cache, maxBytes, asked, flushed>>

(* Get, everything else: no live row, a row that is too large, which stays *)
(* where it is, or any error of the statement.                             *)
Miss(r, q) ==
    /\ req[r] = Idle
    /\ req' = [req EXCEPT ![r] = [pc |-> "forward", question |-> q]]
    /\ UNCHANGED <<cache, maxBytes, asked, flushed>>

(* Mutant: the touch writes the row it has read, with one hit more.        *)
TouchWritesBack(r, done) ==
    LET k == KeyFor(req[r].question)
    IN  /\ req[r].pc = "touch"
        /\ cache' = IF done
                      THEN [cache EXCEPT ![k] = [answer |-> req[r].answer, size |-> maxBytes,
                                                 left |-> TTL, hits |-> 1]]
                      ELSE cache
        /\ req' = [req EXCEPT ![r] = Idle]
        /\ UNCHANGED <<maxBytes, asked, flushed>>

(* CacheTouch: an UPDATE, of no row if there is none by now.  A failure is *)
(* logged.                                                                 *)
Touch(r, done) ==
    LET k == KeyFor(req[r].question)
    IN  /\ req[r].pc = "touch"
        /\ cache' = IF done /\ Exists(k)
                      THEN [cache EXCEPT ![k].hits = @ + 1]
                      ELSE cache
        /\ req' = [req EXCEPT ![r] = Idle]
        /\ UNCHANGED <<maxBytes, asked, flushed>>

(* The upstream answers with success.                                      *)
Answer(r, size) ==
    LET a == Cardinality(Given) + 1
    IN  /\ req[r].pc = "forward" /\ a <= MaxAnswers
        /\ asked' = [b \in 1..a |-> IF b = a THEN req[r].question ELSE asked[b]]
        /\ req' = [req EXCEPT ![r] = [pc |-> "put", question |-> req[r].question,
                                      answer |-> a, size |-> size]]
        /\ UNCHANGED <<cache, maxBytes, flushed>>

(* Mutant: an error is put into the cache like an answer.                  *)
UpstreamFailsCached(r) ==
    /\ req[r].pc = "forward" /\ Cardinality(Given) < MaxAnswers
    /\ req' = [req EXCEPT ![r] = [pc |-> "put", question |-> req[r].question,
                                  answer |-> Cardinality(Given) + 1, size |-> maxBytes]]
    /\ UNCHANGED <<cache, maxBytes, asked, flushed>>

(* The upstream answers with an error or not at all: nothing is cached.    *)
UpstreamFails(r) ==
    /\ req[r].pc = "forward"
    /\ req' = [req EXCEPT ![r] = Idle]
    /\ UNCHANGED <<cache, maxBytes, asked, flushed>>

(* CachePut: an upsert that keeps the counter of the row it replaces.      *)
Put(r) ==
    LET k == KeyFor(req[r].question)
    IN  /\ req[r].pc = "put" /\ req[r].size <= maxBytes
        /\ cache' = [cache EXCEPT ![k] =
                       [answer |-> req[r].answer, size |-> req[r].size, left |-> TTL,
                        hits |-> IF Exists(k) THEN cache[k].hits ELSE 0]]
        /\ req' = [req EXCEPT ![r] = Idle]
        /\ UNCHANGED <<maxBytes, asked, flushed>>

(* Put refuses an answer that is too large, or the statement fails; both   *)
(* are logged, and the client has its answer.                              *)
PutFails(r) ==
    /\ req[r].pc = "put"
    /\ req' = [req EXCEPT ![r] = Idle]
    /\ UNCHANGED <<cache, maxBytes, asked, flushed>>

----------------------------------------------------------------------------
(* The admin, the collector, the clock and the process.                    *)

Held == {req[r].answer : r \in {s \in Requests : req[s].pc \in {"touch", "put"}}}

(* Mutant: a flush that leaves live rows alone.                            *)
FlushExpired ==
    /\ cache' = [k \in Keys |-> IF Live(k) THEN cache[k] ELSE NoRow]
    /\ flushed' = [upto |-> Cardinality(Given), held |-> Held]
    /\ UNCHANGED <<maxBytes, req, asked>>

(* FlushCache.                                                             *)
Flush ==
    /\ cache' = [k \in Keys |-> NoRow]
    /\ flushed' = [upto |-> Cardinality(Given), held |-> Held]
    /\ UNCHANGED <<maxBytes, req, asked>>

(* Mutant: the collector drops only rows that were never hit.              *)
GCUnused ==
    /\ Enabled
    /\ cache' = [k \in Keys |-> IF Exists(k) /\ ~Live(k) /\ cache[k].hits = 0
                                  THEN NoRow ELSE cache[k]]
    /\ UNCHANGED <<maxBytes, req, asked, flushed>>

(* The ticker of StartGC, which main starts only if the cache is enabled.  *)
GC ==
    /\ Enabled
    /\ cache' = [k \in Keys |-> IF Live(k) THEN cache[k] ELSE NoRow]
    /\ UNCHANGED <<maxBytes, req, asked, flushed>>

(* A second begins.                                                        *)
Tick ==
    /\ cache' = [k \in Keys |-> IF Live(k) THEN [cache[k] EXCEPT !.left = @ - 1]
                                ELSE cache[k]]
    /\ UNCHANGED <<maxBytes, req, asked, flushed>>

(* A restart drops what handlers hold and may bring another limit.         *)
Restart(limit) ==
    /\ maxBytes' = limit
    /\ req' = [r \in Requests |-> Idle]
    /\ UNCHANGED <<cache, asked, flushed>>

RequestStep(r) ==
    \/ \E q \in Questions : Hit(r, q) \/ Miss(r, q)
    \/ \E done \in BOOLEAN : Touch(r, done)
    \/ \E size \in Sizes : Answer(r, size)
    \/ UpstreamFails(r) \/ Put(r) \/ PutFails(r)

Next ==
    \/ \E r \in Requests : RequestStep(r)
    \/ Flush \/ GC \/ Tick
    \/ \E limit \in Sizes : Restart(limit)

(* The ticker goes on for as long as the process runs; clients, admins and *)
(* even the clock need not.                                                *)
Spec == Init /\ [][Next]_vars /\ WF_vars(GC)

----------------------------------------------------------------------------
Handlers == {Idle}
    \cup [pc: {"forward"}, question: Questions]
    \cup [pc: {"touch"}, question: Questions, answer: Answers]
    \cup [pc: {"put"}, question: Questions, answer: Answers, size: Sizes]

(* Every variable has its type, answers are numbered from 1 without a gap, *)
(* and nothing holds an answer the upstream has not given.                 *)
TypeOK ==
    /\ cache \in [Keys -> Row \cup {NoRow}]
    /\ maxBytes \in Sizes
    /\ req \in [Requests -> Handlers]
    /\ \E n \in 0..MaxAnswers : asked \in [1..n -> Questions]
    /\ flushed \in [upto: 0..MaxAnswers, held: SUBSET Answers]
    /\ \A k \in Keys : Exists(k) => cache[k].answer \in Given
    /\ Held \subseteq Given

(* A client gets from the cache only an answer to its own question on its  *)
(* own route: what the two bodies may differ in are ignored names          *)
(* (cache.go 138), although the row was written, replaced and looked up by *)
(* requests of different clients at different times.                       *)
AnswersItsQuestion ==
    \A r \in Requests :
       req[r].pc = "touch" =>
         /\ asked[req[r].answer].route = req[r].question.route
         /\ asked[req[r].answer].words = req[r].question.words

(* "Flush removes every cached row" (cache.go 107).  What is in the table  *)
(* or about to be served after a flush was answered after it, or was in    *)
(* the hands of a request at that moment; the touch of a request that read *)
(* the row before brings nothing back.                                     *)
FlushedStaysFlushed ==
    LET Survivor(a) == a > flushed.upto \/ a \in flushed.held
    IN  /\ \A k \in Keys : Exists(k) => Survivor(cache[k].answer)
        /\ \A a \in Held : Survivor(a)

(* What a handler holds, as the abstract cache sees it.                    *)
HandOf(h) ==
    CASE h.pc = "touch" -> [from |-> "cache", key |-> KeyFor(h.question), answer |-> h.answer]
      [] h.pc = "put" -> [from |-> "upstream", key |-> KeyFor(h.question), answer |-> h.answer]
      [] OTHER -> [from |-> "nobody"]

Promise == INSTANCE AnswerCache WITH
    Clients <- Requests,
    entry <- [k \in Keys |-> IF Live(k) THEN cache[k].answer ELSE NoAnswer],
    hand <- [r \in Requests |-> HandOf(req[r])]

(* Two requests that hit or fill the same row, a flush, the collector, the *)
(* clock and a restart, in any order, amount to a cache whose operations   *)
(* are atomic: a hit hands out what the row holds and changes no answer,   *)
(* and only what the upstream gave to a handler enters the table.          *)
ImplementsAnswerCache == Promise!Spec

(* "StartGC launches a background goroutine that periodically drops        *)
(* expired rows" (cache.go 112): with the cache enabled no row stays       *)
(* expired; requests that keep coming and rows too large to be served make *)
(* no difference.                                                          *)
ExpiredRowsDropped ==
    Enabled => \A k \in Keys : Exists(k) /\ ~Live(k) ~> ~Exists(k) \/ Live(k)
============================================================================
