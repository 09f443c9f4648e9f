# go2api in TLA+

go2api is a gateway in front of one upstream API.  It owns a pool of upstream
keys, retries failed calls with other keys, admits clients by bearer tokens it
manages, translates between the chat, Anthropic and Responses formats, keeps
stored responses and conversations, and caches answers.  Everything durable is
one SQLite file.

This directory holds TLA+ modules translated from the Go source, the TLC
configurations that check them on small instances, and TLAPS proofs.
Paths below are relative to the repository.

    tlc -workers 2 -config attempts.cfg MCAttempts    # check one run
    tlapm KeyPoolProofs.tla                           # check one module of proofs

`PROJECT.json` lists the runs, which lines of the source every definition
models, the hazards each property is for, and for every property a mutant of
the model that breaks it.

## 1. The system

| component | source | state | operations |
|---|---|---|---|
| key pool | `internal/keypool/pool.go`, table `api_keys` | `Pool.keys` (objects) and the rows behind them | Pick, MarkSuccess, MarkFailure, AddKey, SetDisabled, RemoveKey, reload, New |
| failover loops | `internal/proxy/proxy.go`, `internal/handler/{openai,anthropic,responses}.go` | the attempt number and the key in hand | Forward, streamConverted (and its Anthropic twin), streamWithRetries |
| managed tokens | `internal/handler/tokens.go`, `internal/server/middleware.go`, table `tokens` | one row for every token | create, validate, count, rotate, revoke, delete, reset |
| conversations | `internal/handler/responses.go`, `internal/proxy/responses/history.go`, `internal/store/responses.go` | tables `response_state`, `conversation` | resolve the history, store an answer, append it, collect expired rows |
| responses stream | `internal/proxy/responses/stream.go` | `c.outputs`, `c.itemState`, `c.toolCallsByIndex` | Process, Complete, Fail |
| history replay | `internal/proxy/responses/{history,request,openai_chat,anthropic}.go` | none | ToChatRequest, stateToHistory, MergeHistory, ensureToolCallsAnswered, the two upstream requests |
| SSE reader | `internal/proxy/responses/{sse,anthropic}.go` | a line buffer, the index and id of the current block | ReadSSE, ApplyAnthropicEvent |
| format conversion | `internal/proxy/convert.go`, the line loops of `internal/handler/{openai,anthropic}.go` | what is open while a stream lasts | requests, answers, stream events |
| response cache | `internal/cache/cache.go`, table `cache` | rows with an expiry and a hit counter | Get (read, then touch), Put, Flush, GC, KeyFor |
| key selection | `internal/keypool/pool.go` | a round-robin counter | round robin, weighted, quota aware |
| quota, usage, log, pricing | `internal/store/sqlite.go`, `internal/pricing` | rows that are appended or overwritten | record, sum |
| configuration, server, landing page, models, web UI | `internal/config`, `internal/server`, `web/server.ts` | none that changes | read once, route |

How they interact.  A handler passes the bearer middleware (two statements on
`tokens`), looks into the cache, enters a failover loop, and in each round asks
the pool for a key, calls the upstream, and reports success or failure to the
pool, which updates its object and then the row.  The responses handler also
reads the history before the call and records the answer after it.  Admin
handlers write rows and make the pool reload them.  Two collectors run on
tickers.  The components share nothing but the `Pool` (one mutex) and the
database.

**The grain of a step.**  `store.Open` sets `SetMaxOpenConns(1)`: statements,
and transactions, run one at a time.  A step of every module that touches the
database is one statement or one transaction, or the section under the pool's
lock where one encloses the other.  Whatever the code does between two of them
can be interleaved with anything else.

### What is hard, and what makes each part correct

* *Key pool.*  A key exists twice and the two copies are written at different
  moments; a reload replaces all objects while requests hold old ones; the
  failure's row is written after the lock is released; the row keeps whole
  seconds only.  Correct means: an admin's change is in force when the call has
  returned; a restart loses nothing; a benched key comes back; a request ends;
  a retry goes to another key.
* *Tokens.*  Look-up and count are two statements, so are the two halves of the
  two-stage delete.  Correct means: the races amount to operations on an atomic
  ledger, in which quotas are exact and revocation is final.
* *Conversations.*  Five statements and a call of minutes make up one request;
  the collector, another request on the same conversation, failures that are
  only logged and a crash fit between any two.  Correct means: a conversation
  lists stored responses, in order, loses none that is live, forgets what
  expired, and each one answers the one before it.
* *Stream.*  Text, reasoning and several tool calls come in any order, each
  event must name the right item at the right index, and what the last event
  contains must be what was streamed.  Arguments are not always streamed
  (section 4).
* *Cache.*  Look-up and touch are two statements; flush, collection and a put
  of an answer that was fetched before them come between.  Correct means: a
  client gets only answers to its own question, a flush is not undone, and
  expired rows go.
* *History replay.*  The stored answer is put ahead of the next request, and no
  upstream accepts a call that is not answered at once.  Correct means: the
  request tells the previous answer and then the input, every call is answered
  right behind it, and a result that was sent has no empty one beside it.  The
  last, and whatever the conversation was before that answer, the code does not
  do (section 4).
* *Format conversion.*  The proxy keeps nothing between turns, so what one
  conversion does to an answer the other must take back; a stream may end at
  any line.  Correct means: texts, calls and results survive the round trip,
  results come right behind their calls, and an end, with its reason, is told
  exactly when there was one.
* *SSE reader.*  The end of a body has several forms.  Correct means: events
  are read one by one and in order, whatever the last line is, and a fragment
  names its own call.
* *Key selection.*  A counter that wraps, a signed remainder, snapshots that
  change while they are compared.  Correct means: shares by weight, and no key
  that is known to be poorer than another.

The full list, line by line, is under `hazards` in `PROJECT.json`.

## 2. The modules

| module | models | proofs |
|---|---|---|
| `KeyPool`, `MCKeyPool` | the pool, its rows, admin calls, the four loops, restart | `KeyPoolProofs` |
| `TokenLedger` | what tokens promise (abstract) | |
| `TokenParameters`, `AuthTokens`, `MCAuthTokens` | the table and its handlers; implements `TokenLedger` | `AuthTokensProofs` |
| `ConversationChain`, `MCConversationChain` | stored responses, conversations, the requests and the collector | `ConversationChainProofs` |
| `ResponseStream`, `MCResponseStream` | one streamed answer | `ResponseStreamProofs` |
| `AnswerCache` | what a cache promises (abstract) | |
| `ResponseCache` | the cache table and the requests on it; implements `AnswerCache` | `ResponseCacheProofs` |
| `ConvertedChat` | a conversation through the conversions of whole messages | `ChatProofs` |
| `ConvertedStream` | a converted stream and its line loop | `RequestPathProofs` |
| `HistoryReplay` | the request that continues a stored response | `ChatProofs` |
| `StreamReader` | the SSE reader and the Anthropic adapter's block state | `RequestPathProofs` |
| `KeySelect` | the three strategies and the quota snapshots | `RequestPathProofs` |
| `MCRequestPath` | the five above, each by a named `INSTANCE` | `RequestPathProofs`, `ChatProofs` |
| `MCAttempts` | `KeyPool` and `ResponseStream` together | |
| `MCTables` | `ResponseCache`, `AuthTokens` and `ConversationChain` together | |
| `MCProgress` | the fair parts of `ConversationChain`, `KeyPool` and `ResponseCache` together | |
| `SequenceFacts` | nothing: lemmas about sequences and `FlattenSeq` | |

The last four put several modules into one run.  What they join shares no state
(the interleavings that matter are inside a module), so a behaviour takes the
steps of one `part` and leaves the others where they began.

### KeyPool

`db` is the table and `mem` is `Pool.keys`: both are records of the rows there
are, which of them are disabled, and the rest of each cooldown.  `req[r]` is
where handler `r` is in its loop, which attempt it is at, the key it holds,
whether the object it holds is still the pool's (`live`), and how long the
cooldown that it set itself still runs.  `adm[a]` is an admin call between its
statement and the end of `reload`, with the rows that `reload` has read.

* `Pick` hands out any available key.  Which one a strategy prefers is left
  open, so what holds here holds for each of the three strategies.
* `MarkSuccess` is one step because the row is written under the lock.
  `MarkFailure` and `PersistFailure` are two because it is written after it.
  The loop's decision whether to try again is part of the second.
* An admin call is `AddKey`, `SetDisabled` or `RemoveKey` (the statement), then
  `ListKeys` (the rows are read without the lock), then `Install`.  `ListFails`
  is the admin's context ending in between; the row has been written.
* A statement under a request's context may fail (`stored = FALSE`).
* `Restart` runs `New` over the same file; `Tick` lets time pass.  A duration
  is what remains of it, so the states are finitely many without a bound on
  the clock.  `WholeSeconds` is the round trip through `until.Unix()`.
* `MarkedSuccessful` and `TriedAgain` say what sets the loops apart: the
  responses route marks a stream that broke after HTTP 200 as a success, and
  only the converted routes retry a transport error.

### AuthTokens and TokenLedger

`tok` is the table, with `none` and `deleted` for rows that are not there.
A request holds the id and the limit between `ValidateBearer` and
`IncrementTokenUsage`; an admin holds the decision of the two-stage delete
between `FindTokenByID` and the second statement.  `served` counts admissions
since the last reset and is not in the code.  `AdmitUncounted` is the path of a
token without limit whose row is revoked or gone at the second statement.
Ids and secrets are random and taken as never drawn twice.

`TokenLedger` has one atomic action for each promise.  The refinement maps the
columns and forgets what handlers hold: `ValidateBearer` and `FindTokenByID`
stutter, the second statements are `Admit`, `Withdraw` and `Remove`.

### ConversationChain

`stored[i]` is the row of response `i`; `conv[c]` is the row of conversation
`c`, with the place of every id in `response_ids_json` (0 if it is not listed).
A request goes through the phases check, upstream, put, read, and create or
append, which are the statements of `ResolveHistory`, `persistState` and
`AppendConversationResponse`.  Each write may fail, because the code only logs
that, and a read of the conversation that fails for any reason, in either
place, takes the path of a conversation without row.  The foreign key of `last_response_id` and the primary key of
`conversation` are guards.  `ResponseStateGC` is one transaction.  The places
after a removal keep their gaps; only their order means something.

### ResponseStream

`outputs` is `c.outputs` with the part of `c.itemState` that is read,
`calls` is `c.toolCallsByIndex`, `wire` is the list of events written, with the
item they are about and the index they claim.  Texts and arguments are counted
in pieces; `got` is history, the pieces that were read.
`Process`, `AppendReasoning`, `AppendToolCall`, `AppendText`, `CloseEvents` and
`Assemble` are the functions of the same names; `Read`, `Complete`, `Fail` and
`Abandon` are the steps of the loop in `runOneStreamAttempt`.
`completeToolCall` is left out: no adapter produces the event it handles.

### ResponseCache and AnswerCache

`cache[k]` is the row of key `k`: the number of its answer, its size, the
seconds it has left and its hits.  `KeyFor` keeps the route (endpoint and model)
and the body without the ignored names; `Questions` are requests that may agree
in their key and differ in those names.  `Hit` and `Touch` are the two
statements of `Get`; `Miss`, `Answer` or `UpstreamFails`, and `Put` or
`PutFails` are a request that goes to the upstream.  `Flush`, `GC`, `Tick` and
`Restart` come at any moment.  `Enabled` guards `GC` and nothing else, as in
`main.go`.  `asked` and `flushed` are history: the question each answer was
given to, and what was given, and what was held by requests, at the last flush.

`AnswerCache` hands out what it holds in one step.  The refinement forgets
sizes, hits, times and expired rows: `Touch` and `Miss` stutter, `GC` and `Tick`
are `Forget`.

### ConvertedChat and ConvertedStream

`ConvertedChat` lets a client of one format hold a conversation with a model of
the other.  `talk` is what the client keeps and sends every time, `sent` what
the upstream got last; `Ask` converts the request, `Answer` the answer, and the
operators have the names of the functions.  A text is the turn it was said in;
of arguments only the four kinds that are told apart are kept.

In `ConvertedStream` the upstream takes its protocol's steps (`OpenAIEvents`,
`AnthropicEvents`), `buf` is the data line that waits, `st` the stream's state,
`wire` the client's events.  `Data`, `Blank`, `End`, `EndInLine` and `Break`
are the ways a line, or the body, can end.

### HistoryReplay

`Answer` stores an output that `ResponseStream` or `FromChatResponse` can leave
behind: one message and one reasoning at most, any number of calls with ids of
their own and any number without, in the order of a stream or in that of
`FromChatResponse`.  `MaxOutputs` bounds its items, in the run and not in the
theorems.  `Ask` sends a request with or without `previous_response_id` through
`ToChatRequest`, `stateToHistory`, `MergeHistory` and the family's conversion;
its input is messages of all four roles, results, and items that are not
modelled.  Whether the row is still there is `ConversationChain`'s subject.

### StreamReader

`pending` is the reader's data line, `state` the adapter's index and id,
`deltas` what `Process` is called with, which is where `ResponseStream` begins.
`End`, `EndInData`, `EndInComment` and `Break` are the ends of a body.

### KeySelect

`KeyPool` leaves open which available key is picked; `KeySelect` takes
availability as given and models the choice.  `PickByCounter` is round robin
and weighted, over a counter of `2 * Half` values, negative as an `int` from
`Half` on; `BeginPick`, `ReadQuota` and `ChooseKey` are the quota-aware Pick,
which reads a snapshot in each statement while `RecordQuota` writes others.
Keys only become available during a Pick, because it holds the pool's read lock.

## 3. The runs

| run | instance | shows |
|---|---|---|
| `attempts` | 2 requests (converted and responses), 1 admin, 2 keys, one of them configured | with one admin, the pool and the rows agree when no admin call is in progress; nobody picks a disabled or deleted key; a restart keeps rows, cooldowns and flags |
| | a stream of 3 upstream events, 2 parallel calls | events are ordered, all text and reasoning is in the response, deltas add up to it but for calls with a late id |
| `tables` | 1 token, 3 secrets, limits 0 to 2, 3 requests, 2 admins | exact quotas, final revocation, two-stage delete, refinement of the ledger |
| | 2 requests, 2 routes, 1 text with 2 values of ignored names, TTL of 1 s | a hit answers the question it was asked, a flush holds, refinement of `AnswerCache` |
| | 1 conversation, 3 responses, 2 requests | lists are sound and lose nothing live |
| `progress` | 2 requests and 1 admin on 1 key, cooldown of 1 s = 2 ticks; 1 conversation, 2 responses, 2 requests; 1 question and 1 request of the cache | requests end, keys come back, expired responses and expired rows of the cache go |
| `request_path` | 2 turns of 2 calls; 6 stream events; 2 input items; 4 output items; 8 events read; 3 keys of weights 2, 0, 3 | texts, calls and results survive the conversions, replayed calls are answered at once, events are read in order, the reason of the end is told, shares are kept |
| `keypool_retry` | 2 requests, no admin | **violation**: a retry uses the key that just failed |
| `keypool_admins` | 2 admins | **violation**: the pool keeps an old list |
| `tokens_uncounted` | 1 token without limit | **violation**: an admitted request is not counted |
| `conversation_fork` | 1 conversation, 3 responses, 2 requests | **violation**: two requests answer the same response |
| `stream_unclosed` | reasoning, then text | **violation**: the message is never closed |
| `stream_arguments` | 2 upstream events, 1 call | **violation**: a first fragment's arguments are dropped |
| `chat_results` | 1 answer, 1 call | **violation**: a text comes between a call and its result |
| `history_duplicate` | 2 calls, 2 results | **violation**: a placeholder beside a result |

### Bounds

* Two requests and two keys: a race over a key needs one request that holds it
  and one that changes it; the retry needs a second key to go to.  One
  configured and one added key are the two kinds `New` tells apart.
  `MaxRetries = 1` gives a first and a last attempt.
* Two ticks in a second make a cooldown start in the middle of one, where the
  column's rounding loses part of it (`progress`).  `attempts` has one tick,
  because there only "cooling or not" matters.
* One token, because a statement on tokens concerns one row; three requests for
  its last unit, two admins after the row.
  Limit 2 has a unit before the last.  `MaxServed` stops the counter of tokens
  without limit; it bounds the look-up, so requests that passed it may exceed
  it.  Secrets bound the number of creations and rotations.
* Three responses: one that is answered and two rival answers; also a list from
  which the collector takes the first, the middle or the last.  Conversations
  do not share anything but responses, one is enough for the races.  In `progress`
  two are enough: one that expired and one that keeps the list alive.
* `MaxDeltas = 3` upstream events, each with any of a reasoning piece, a tool
  fragment and text, so up to nine pieces: four items, each kind before and
  after each other, a call whose id comes with its second fragment and whose
  arguments go on in its third.

* The cache: two requests, so that a look-up, a put or a touch of one stands
  between two statements of the other.  Two routes with the same text are two
  keys, two values of an ignored name are one key.  Two answers: one that is in
  the table and one that replaces it, or one before and one after a flush.  Two
  sizes: a restart can lower the limit below what a row holds.  `MaxHits` bounds
  the look-up, because the counter decides nothing.
  In `progress` one request is enough to fill the table and to hit it.
* `request_path`: the steps it checks share no state, so each behaviour takes
  the steps of one `part`.  Two turns: an answer and the request that brings it
  back.  Two calls: parallel calls, of which only the last is next to its
  results.  Six stream events: a start, a block with two deltas and its stop,
  a reason, an end; 8 for the reader, because a second block needs two more.
  Two input items: a result and a message, in either order.  Four output items:
  the message, the reasoning and two calls, with or without ids, in any order.
  Weight 0 is the key
  that is never drawn, 2 and 3 have no common divisor.  A counter of 16
  values and 8 picks reaches both its edges, the sign and the wrap.  Remaining
  quotas of 0, 9 and 10 are within 90% of each other or not.  Calls are symmetric
  (no module tells one from another), keys are not: they have weights and an
  order.

The violations need less: each run's bounds are the smallest in which its case
can happen, and 0 for the parts of `MCRequestPath` that have no share in it.

Streams end, and each part of `MCRequestPath` stops at its bounds: these runs
do not look for deadlocks (in `attempts` the pool could not have one, because
its clock runs).  All the others do.

### Fairness

* `KeyPool`: `WF(Tick)`, and `WF` of each request's own steps together.
  Statements return, and the client of the upstream has a timeout
  (`proxy.New`), so a call ends one way or another; which way is not
  constrained.  Nothing is assumed of clients, admins or restarts, and no
  request is assumed to start.
* `ConversationChain`: `WF(ResponseStateGC)`: the ticker in `cmd/server/main.go`
  calls it for as long as the process runs.  Requests need not go on, and time
  need not pass.
* `ResponseCache`: `WF(GC)`, the same with the ticker that `main.go` starts if
  `cache.enabled`.  Without it `GC` is never enabled and nothing is promised.

`MCProgress` takes these together; its one condition on tickers and clock is
the conjunction of the three, because a behaviour has one `part` for good.

## 4. What the violations say

1. *A retry may use the key that failed* (`keypool_retry`).  `MarkSuccess`
   clears the cooldown no matter who set it.  A call that started before the
   failure and succeeds after it makes the key available at once.
2. *The pool may keep an old list* (`keypool_admins`).  `reload` reads the rows
   before it locks; of two admin calls the one that read first can install
   last.
3. *An admitted request may not be counted* (`tokens_uncounted`).  For a token
   without limit nobody looks at how many rows the update changed.
4. *Conversations fork* (`conversation_fork`).  The tail is compared in one
   statement and the id is appended in another, which compares nothing.
5. *A message may stay open* (`stream_unclosed`).  `appendText` keeps its
   "open" flag on item 0, whatever item 0 is.
6. *Arguments of a call's first fragment are dropped* (`stream_arguments`).
   `appendToolCall` returns with the announcement before it looks at them.
   OpenAI sends them empty there; an upstream that sends a call in one piece
   loses it.  A call whose id comes with a later fragment ends without its
   arguments as well: the builder takes the new id, the item keeps the one it
   was announced with, and the final look-up compares the two.
   `DeltasMakeTheResponse` is what does hold.
7. *A text stands between calls and results* (`chat_results`).  The converted
   user message writes its text first.  `AnswersComeBack` allows for that text,
   and says that the results are all there, once and in order.
8. *A result has a placeholder beside it* (`history_duplicate`).  Parallel calls
   are replayed as messages of their own, and `ensureToolCallsAnswered` looks no
   further than the next of them.  `LastCallNotDoubled` is what does hold: the
   last call, and so the only one of an answer that makes one, is spared.

Each is stated against a sentence of the repository's own docs or comments,
which `findings` quotes.

Disagreements that need no run, because one reading of the code decides them.
The models do what the code does, and no property claims the contrary of the
sentence; where one would follow it, it says what holds instead.

* `convert.go:359` leaves `[DONE]` to the caller, and the caller forwards an
  upstream's, which Anthropic has not: an OpenAI client of an Anthropic model
  never gets it.  `ReasonTold` is about the finish chunk and what may follow it
  of the answer.
* `history.go:26` speaks of the conversation the caller refers to.  One output
  is stored and replayed; the input it answered, and what came before, is not.
  `anthropic.go:10` expects system messages in the system prompt; only
  instructions are put there, and the conversion skips the others.
  `HistoryThenInput` is about the previous output and the rest of the input.
* `sse.go:27` promises the event that waits at the end of the body.  If the last
  line is a comment, or has no colon, `io.EOF` is returned alone and the event
  is lost.  `EventsRead` has all events at the other ends, and all but one at
  this.
* `convert.go:14` calls tool calls not covered: some directions convert them,
  the request of an OpenAI client to an Anthropic model drops them
  (`TakeTurns`); its fragments get block 1 whatever call
  they are of, and block 1 is not closed (`TextStreamsWellFormed` is about
  streams without calls).  An Anthropic system prompt in blocks is dropped
  (`TextsKept`).
* `pool.go:163`: past 2^63 picks the weighted strategy gives the first key with
  a weight.  `SharesFair` counts that in; the run reaches it because its counter
  is small.  `RecordQuota` passes over headers that only say that
  nothing remains, so an exhausted key keeps its old snapshot.
* `response.go:70`: an answer that is not streamed and has a call without an
  id ends in a panic, `FunctionCallIDs` is never filled (`HistoryReplay!Answer`).
* `handler/responses.go:147`: an error is returned also after events were written, when
  the client is gone or a write fails.

## 5. What is proved

For all values of the constants that satisfy the `ASSUME`s, for every number of
keys, requests, tokens and admins.

* **KeyPool.**  `TypeCorrect`: `TypeOK` is inductive because it contains that a
  live object's key is in the pool's list (`HeldKeyOK`), without which
  `SetCooldown` on the list could not be typed, and that an attempt number
  stays below `MaxAttempts`.
  `PoolFollowsDatabase` and `DisabledKeysUnused` assume at most one admin
  (`OneAdmin`).  `ReloadedFromDatabase` says nothing of the time in which an
  admin call is in progress, so it is not inductive; `FreshInv` adds that the
  rows an admin has read are still those of the table, which no request changes
  and no other admin exists to change.
  `RetrySwitchesKeyAlone` assumes no admin and a single request: as long as the
  cooldown it set still runs, the key is in the list and cools there for at
  least that long.  This is the exact counterpart of the first violation: it takes a second
  request.
* **AuthTokens.**  `TypeCorrect` contains that a request's limit is the limit of
  its row, and that a pending hard delete is for a row that is revoked or gone
  (no row ever becomes active again).  `QuotaAlwaysHolds` strengthens
  `QuotaHolds` by what it needs to know of rows that do not exist yet.
  `OnlyRevokedDeleted` and `RevocationAlwaysHolds` are action properties from
  these invariants.  `TokensImplementLedger`: the initial states map to initial
  states, and each of the actions is an action of the ledger or leaves it
  unchanged.
* **ConversationChain.**  `ConversationsSound`: `ListsStoredResponses` is
  inductive together with `TypeOK`, which knows that a request that records
  has an id.  That the last response has the largest place does the work: the
  place an append chooses exists because it bounds the others, and so does the
  new last response the collector looks for (`LargestPlace`, from the
  well-foundedness of the naturals; nothing is assumed finite).
  `NothingLiveLost` goes through the three writers of `conversation`.

* **ResponseCache.**  `TypeCorrect`: the numbers of the answers given are
  `1..n`, and the table and the handlers name no others, which is what makes a
  new answer's number differ from them all.  `AnswersAlwaysFit` is inductive
  when every holder is included: the answer of each row, and of each handler
  that touches or puts, was given to a question with the same key.
  `FlushesHold` extends `FlushedStaysFlushed` over the answers given after the
  flush, which are larger than its note.  `CacheKeepsItsPromise` is the
  refinement: each action is an action of `AnswerCache` or a stutter.

* **ResponseStream** (for any calls and any number of events).  None of the
  properties is inductive alone.  `Inv` says, while the stream is open, how the
  three pieces of state belong together (`Open`): there is one message and one
  reasoning item at most, and every call has an item of its own (`Belong`); the
  "open" flag of item 0 is set if there is a message, whatever item 0 is
  (`FirstOpen`, the reason why `stream_unclosed` is violated and no text is
  lost); every item was announced before anything was said about it
  (`Announced`); and items and builders hold as many pieces as deltas were
  written (`Counted`).  Each function of `Process` keeps this, as does a chain
  of them.  `ResponsesMatchDeltas` then follows `Assemble`: what flattening
  keeps of a sequence is proved in `SequenceFacts`.  It is about the calls that
  keep the id they were announced with, because `Assemble` finds a builder by
  its id (section 4, 6).

* **RequestPath** (under `RequestPathAssumption`).  The parts share no state,
  so a behaviour of the product is one of each part with stuttering
  (`ReaderRuns`, `StreamRuns`).  `AlwaysTyped` joins the types of the five.
  Only `HistoryReplay`'s are inductive by themselves.  A stream's say that no
  event is missing, which needs the numbers of the events parsed and of the one
  that waits (`StreamTyped`); key selection's say that the keys served are
  available, which needs where in the list a Pick lands (`PickTakes`); a
  conversation's need the messages' own types (`TypesHold`, on `Conversing`).
  * *The reader.*  `EventsAlwaysRead`: the deltas, followed by the event that
    waits (or that waited when a bad end dropped it), are the events, one by one
    (`EventsCounted`, `Fitting`).  `FragmentsAlwaysNamed`
    needs `InStep`: while the upstream is in a call, the adapter has its index
    and id, or will have them when the event that waits is converted; a fragment
    that waits finds them.  `ReaderEventsFollow` is all the proof uses of the
    upstream's protocol.
  * *The converted stream*, on `Streaming`: the types, where the upstream is in
    its protocol, and that the line that waits is an event it sends.
    `PiecesAlwaysKept` rests on `Kept`: what one event adds to the pieces written
    it adds to the pieces read.  `ReasonAlwaysTold` needs `Tells`: an upstream that
    has given its reason sends no other, one that is over sends nothing, so the
    reason written is the only one read and no piece comes behind it.  `TextStreamsAlwaysWellFormed` needs
    `Speaks`: the flags of the stream's state say whether the message was started
    and the text block opened in the events written, and that nothing is closed
    before the end.
  * *Key selection.*  `PicksRespectQuota`, on `Considered`: every snapshot a Pick
    has read is still the table's, or its key was touched since.  That the best
    candidate is in the tier is a fact about a total order over finitely many
    keys (`Listed`, `ListsAll`), so `Keys` is assumed finite.
    `SharesAlwaysFair`, on `Balanced`: since availability changed, each key was
    served as often as the counter fell on its places of the round (`Falls`).
    With the quotient and the remainder of the counter that number moves by one
    exactly when the key is picked (`FallsStep`, with `LandsOnOne`: the walk
    stops where the remainder lands), only grows (`FallsMonotonic`), and grows
    by the key's share in a round (`FallsRound`), which bounds it
    (`SharesOfRounds`).  `Weight` is assumed
    not below 0: `AddKey` and the configuration's defaults
    (`config.go:122`) make every weight at least 1.

* **HistoryReplay** (in the product as well), on `Replayed`: the stored
  items that have an id differ from one another, and what was sent has the three
  properties below.
  `CallsAlwaysAnswered`: flattening keeps the messages that were made of one in
  place (`FlattenedInPlace`), and behind a call they are its answers
  (`AnswersStay`).  `HistoryAlwaysFirst`: what messages tell is the flattening
  of what each one tells, so a conversion and a telling behind each other are
  one (`ToldOfChat`); the system's messages, which come first, tell nothing
  (`AllIsTold`), and neither do placeholders (`AnsweringTellsAll`); instructions
  stay in front (`LeadIsFirst`).  `LastCallNeverDoubled`: results that begin the
  input begin what stands behind the history (`ResultsBegin`), where the
  answer's last message finds them (`LastIsAnswered`); and since no call is made
  twice (`SaidApart`), no other message has a placeholder for it put in.

* **ConvertedChat** (in the product as well).  `Conversing` has the types.
  `TextsAlwaysKept`: the conversion of a sequence of messages is the flattening
  of the conversions of each (`MappedFlattened`), and a property of every prefix
  is proved by `SequenceFacts!OneByOne`.  `CallsAlwaysAnnounced` and
  `TurnsAlwaysTaken` (`TakingTurns`) compare what is sent with what the client
  keeps, message by message.  `AnswersAlwaysComeBack` is the round trip: the
  answers the upstream gave are found in what it gets next, in their order.  The
  proof names the places of the answers in `talk` (`ComingBack`), shows that
  the conversion leaves one message with a call at each (`ComesBack`) and none
  elsewhere, and that rising places enumerate a set in one way only
  (`RisingOnce`).

`RestartsKeepRows` of `KeyPool` follows from the types and the form of the
upsert.

The library's induction theorems take an operator as a parameter and cannot be
used, but sets of naturals have least elements (`SequenceFacts!Least`, from the
well-foundedness of `<`): a recursion such as the one of `FlattenSeq` is
unfolded by looking at the first place where it would go wrong, and a set of
sequences that has the empty one and with each also the longer ones has them
all (`OneByOne`).

Only model-checked: the liveness properties of `KeyPool`, `ConversationChain`
and `ResponseCache`, because the prover has no ENABLED.

## 6. What is not modelled

* The admin's snapshot of the pool and the lists of tokens: read only.
* Bodies, headers, ids, names, JSON and wording.  Of requests: tool
  definitions, sampling parameters and images, which are copied, and the
  validation of a request.  Of answers: token counts.
* Static tokens: they are compared with the configuration and have no state.
* `completeToolCall` in `stream.go`: no adapter produces the event it handles.
* The order of `response.completed` and the row's write as a client sees it
  (`responses.go:354`): no sentence of the repository says when a response may
  be continued.
* Request log, usage summaries, prices, configuration, routes, landing page,
  model list, web UI: no state that a decision depends on.

## 7. Plan

1. *(done)* `KeyPool`, `AuthTokens` over `TokenLedger`, `ConversationChain`,
   `ResponseStream`; proofs for the first three.
2. *(done)* `ResponseCache` over `AnswerCache`, run and proofs.
3. *(done)* `HistoryReplay`, `KeySelect`, the conversions (`ConvertedChat`,
   `ConvertedStream`) and `StreamReader`; run `request_path`.
4. *(done)* `RestartsKeepRows`, `ResponseStreamProofs`.
5. *(done)* `RequestPathProofs` and `ChatProofs`: the reader, the two
   conversions, the replay of an answer, quota-aware picks and shares.
6. *(done)* The types of the five parts together.
7. *(done)* Runs for the sentences that the stream, the conversion of results
   and the replay of calls do not keep; `LastCallNotDoubled`.
