# A TLA+ model of the LLM protocol gateway

The gateway (`src/README.md`) translates between the OpenAI and Anthropic wire
protocols. It keeps nothing on disk and has no database, but it is not
stateless: between requests one process holds conversations, replayable
histories and output items, and WebSocket sessions; within a request it holds
leases, queue slots, timers and half-sent streams. Node runs one callback at a
time, so a method without `await` is atomic. What interleaves is everything
else: the callbacks of different requests, timers, writes that wait for a slow
peer, disconnects, and the updater that wants to replace the process.

This directory holds TLA+ modules of those stateful parts, TLC configurations
that check them on small instances, and TLAPS proofs. `PROJECT.json` lists, for
every definition, the source lines it models, for every property a plausible
bug (a mutant) that TLC finds with it, and the hazards of the code with the
properties that cover them.

## 1. Inventory

### Conversation store (`src/src/policies/conversation-store.ts`)
State: a map from credential and conversation id to an entry (document, size,
`busy`, `expiresAt`), a running byte counter, and the closures `begin()`
returned, which callers hold through a whole generation. Operations: `create`,
`retrieve`/`items`, `update`, `append`, `deleteItem`, `delete`, `begin`, the
turn's `stage`, `commit` and `release`, `prune` (on a timer and inside every
operation), `clear` (shutdown). Used by the conversation routes, by
`POST /v1/responses` and by WebSocket sessions.
Hard: minutes pass between `begin` and `commit`, in which the sweep runs,
budgets fill up, other requests read, change or delete, and the map may be
cleared. Correct when: the counter is exact, no budget is exceeded, a leased
conversation is nobody else's, a commit appends to what is there now, nothing
fresh is forgotten and no id returns.

### Reference cache, history cache (`src/src/policies/responses-*-cache.ts`)
State: maps in insertion order with sizes, expiries and tombstones; the
reference cache also a usage record per credential. Operations: `remember`,
`resolve`, `prune`, `clear`. Called when a response completes and when a later
request refers to it. Hard: eviction by two pairs of limits within one batch,
counters kept beside the map, ids that upstreams reuse. Correct when: records
agree with the map, limits hold, the oldest go first, and an id that stood for
two things resolves to neither.

### WebSocket session (`src/src/http/responses-websocket.ts`)
State: an abort signal, a promise chain per lane, the latest completed
response of each lane, counters of what is pending. Operations: a message
arrives, a request starts, sends frames, completes, fails, times out, reports
its error; the connection closes. It takes a slot of the drain per request, a
lease of the store per request with a conversation. Hard: lanes run at once
and fork from each other, writes block, timers race with answers, requests
wait behind promises. Correct when: lanes are served in order, slots and leases
are returned exactly once on every way out, and what can be continued is
current.

### A turn of the Responses API (`src/src/protocols/openai-responses/prepare.ts`, `src/src/app.ts`)
State: a prepared request, the terminal event held back, an abort scope, the
conversation's lease. Operations: prepare (lease, expand history and
references, stage), pass events on, hold the terminal event back, and when the
stream has ended well write conversation, references and history one after the
other, then the terminal frame; fail, report, release. JSON, SSE and WebSocket
share it with differences. Hard: partial failure between those writes,
disconnects and timeouts around them, a native upstream that knows histories
the gateway does not. Correct when: what is remembered is whole and of
successes, in all places or in none, and every turn ends and frees its
conversation.

### Streamed answers (`src/src/upstream/*.ts`, `src/src/protocols/*/stream-*.ts`, `src/src/app.ts`)
Three kinds of clients (Messages, Responses, Chat) and two kinds of upstreams
(Responses, Chat). A decoder turns an upstream's frames into events, the search
loop strings the rounds of a model that searches the web into one answer and
renumbers its blocks, an encoder turns events into the client's frames, and for
Responses clients `tool-compat.ts` turns the calls of renamed functions back
into the client's own tools. State: per item and block what is open, which index
it has and what was said; the request of the current round, the end held back,
uses and usage. Operations: a frame is decoded, an event routed, a search made or
refused, the next round asked for, the Chat upstream asked instead of the Responses
one, the end sent, an error reported. Hard: several upstream streams become one
message, live, and any of them may break; a Responses upstream says everything
three times, and so must the encoder. Correct when: the client's blocks are
those of all rounds and searches, its calls are whole, the accounts add up, the
tools offered can be served, and no client that stays is left without an end.

### Tools of a request (`src/src/protocols/openai-responses/tool-compat.ts`, `request-decode.ts`)
Custom tools, tool search and namespaces become functions under an alias;
declarations come before and within the input, among calls of earlier turns.
Correct when: no two tools go upstream under one name, and a call comes back as
the tool the client declared last.

### Client connection (`src/src/http/sse.ts`, `abort.ts`, `src/src/stream/ping.ts`)
State: the socket's buffer, pending writes, heartbeat and ping timers, the
iterator's read in flight and its result, the abort scope. Operations: `send`,
`sendError`, `dispose`, `next`, `markClientWrite`, abort, close, drain. Hard:
everything races with everything, and the client may never read again. Correct
when: nothing is lost or overtaken, heartbeats do not pile up, and the handler
returns with nothing left running.

### Upstream connection (`src/src/stream/sse-parser.ts`, `output-limits.ts`, `src/src/upstream/completion-stream.ts`)
State: bytes not yet decoded, text not yet parsed, a byte count, counts per item
and answer, the reader, the round's signal and timers. Operations: a chunk
arrives, a frame is parsed, the stream ends, breaks, stalls, is aborted. Hard:
chunks cut frames, boundaries, characters and surrogate pairs anywhere, limits
are exact, and an abort looks like an end. Correct when: the events are those of
the text, limits refuse nothing that is within them, only the upstream's own
end ends an answer well, and the connection never outlives its request.

### Drain and updater (`src/src/http/request-drain.ts`, `src/src/ops/*.ts`, `src/scripts/docker-update.sh`)
State: the gateway's flag and counter, the containers, the script's globals,
control requests under way. Operations: a request enters and is released, drain,
status and resume, the script's steps, its traps, its rollback. Hard: the script
is interrupted or killed anywhere, replies are lost, requests are served after
their caller is gone, the new container may not work. Correct when: no accepted
request is cut off and the exit status tells the truth.

## 2. Modules

| Module | Models | Role |
| --- | --- | --- |
| `ConversationStore` | the store, one action per method and turn call | detailed specification |
| `Conversations` | what `docs/compatibility.md` promises of conversations | abstract specification |
| `Ledgers` | sums of sizes, and the oldest entries of a map | operators |
| `ReplayEntries` | entries and limits common to both caches; extends `Ledgers` | operators |
| `ResponsesReferenceCache`, `ResponsesHistoryCache` | the two caches | specifications |
| `WebSocketSession` | one connection with the drain and its leases | specification |
| `ResponsesTurn` | turns over JSON, SSE and WebSocket against the stores they share | specification |
| `ToolArguments` | texts, and whether they are arguments of a tool | operators |
| `ChatStreamDecoder`, `ResponsesStreamDecoder` | the decoders of both upstreams | operators on their state |
| `AnthropicStreamEncoder`, `ResponsesStreamEncoder`, `ChatStreamEncoder`, `ResponsesToolOutput` | the encoders for the clients | operators on their state |
| `ClientStream` | a handler's encoder, and a client that reads what it sends | variables and operators |
| `CompletionStream` | the rounds of an answer: decoder, search loop, fallback; extends `ClientStream` | actions |
| `StreamedAnswer` | a whole streamed answer; extends `CompletionStream` | specification |
| `RequestedAnswer` | the same from the decoding of the request; with `ToolNames` | specification |
| `ToolNames` | normalisation of tools and their way back | operators |
| `AnthropicMessage`, `ResponsesAnswer`, `ChatAnswer` | the order of events each client may rely on | abstract specifications |
| `OutputLimits` | the output limiter | operators |
| `UpstreamConnection` | bytes to events, and the generators around it | actions |
| `ClientConnection` | the sender, its timers and the iterator; extends `UpstreamConnection` | specification |
| `GatewayUpdate` | gateway containers, drain, control socket, update script | specification |
| `ConversationStoreProofs` | `ConversationStore`, also as a refinement of `Conversations` | theorems |
| `LedgersProofs` | `Ledgers` | lemmas on which the proofs of caches and session rest |
| `ResponsesReferenceCacheProofs`, `ResponsesHistoryCacheProofs` | the two caches | theorems |
| `WebSocketSessionProofs`, `ResponsesTurnProofs`, `ClientConnectionProofs`, `GatewayUpdateProofs` | the specification of that name | theorems |
| `MC*` | -- | small instances for TLC |

**Store.** `entries`, `bytes` are `#entries`, `#bytes`; `turns` are the closure
variables of `begin()`; `issued` are the UUIDs handed out, which a generator
does not repeat, so that "the map holds my entry object" is "the map holds my
key". Every management operation is `Sweep`/`Touch` (the sweep and the renewed
expiry, which happen even if the operation is then refused) and a `Write` if
`Fits`. A document is its metadata and the sequence of its item ids, and its
size a fixed overhead, a size per metadata value and one unit per item. A sum of
sizes is the number of elements of a set (`Ledger`), which keeps recursion out
of the module and lets the provers reason with cardinalities. Callers' batches
are sequences of items; what they contain beyond ids cannot matter to the store.

**Caches.** A map in insertion order is a function on the keys it holds, each of
whose entries names those that were there before it (`older`); what is removed
is removed from these too. The oldest n of it are those with fewer than n
before them (`Oldest`), and `Victims` are the fewest of the oldest that make
enough room, which is where the code's loops stop. The sizes of a set of
entries add up as the number of elements of a ledger that has one line for
each byte of each entry (`Total`), as in the store. Both keep recursion out of the
modules. `Remembered` takes the items of an output one after the other, with a
function on the number of items done. `heard` is a history variable of an entry: every content offered under its key, for `NeverMisquotes`.
Serialization is a size per content; an item of a type the cache does not
support changes nothing and has no action.

**Session.** A task is a request from its acceptance on; `prior` is the promise
it was chained to, `tail` the map of lanes. A response is named by its task,
since responses get ids of their own from the upstream; upstreams that
repeat response ids within a connection are outside the model. A step is a callback with the
microtasks it leaves. The history is a set of responses, each with the number of
responses completed before it (`at`), which is their order in the map. The upstream decides freely among a frame, a completed,
incomplete or failed response, an exception and silence; the peer reads, stalls
or goes away. `Decline` stands for every error before generation, a parent of
another model included; `Close` for the lifetime timer, a missed pong, the
server's shutdown, a socket error and a full send buffer. The error of a
refused message is written beside the lanes; its failure is another `Close`.
`generate: false` is an upstream that completes at once (its own hazard, see
`PROJECT.json`, is left). `failed` is a history variable. In this module a
conversation is its lease only: `Start` takes it as `begin` does, `Leave` gives
it back as `release` does.

**Turn.** What a turn says, its input and output items, is one token, the
request itself, so that a document or a history is a sequence of requests.
`turns` holds the locals of each handler; `Begin` is `prepareResponsesRequest`,
whose lease and whose release on an error lie in one callback, so that `Refuse`
changes nothing but the turn. Stages are the awaits: the upstream, a frame, the
last frame, the error. `Finish` is all that follows the upstream's end up to
the next await: the last look at the signal, `rememberResponse` (`Keep`) or the
refused commit (`Overflow`), and the last frame or the JSON reply. Over
WebSocket the references are written before the commit, which is part of
sending the frame, and no history is: it is the connection's own
(`WebSocketSession`). An abort during a write finds bytes buffered, upon which
both transports destroy the connection, hence `gone`. The stores are what a
turn can tell of them: they forget (`Forget`), refuse a commit, lease
exclusively. `context`, `told` and `kept` are history variables. Left out: item
references in inputs, which only replace items by what they stand for;
management requests other than deletion; sizes; `generate: false`; the
shutdown's `clear`.

**Streamed answers.** A frame of an upstream is what it says to which item, in
the order the decoder looks at it, how it finishes the generation, and a usage;
anything a decoder refuses whatever came before is an invalid frame. What is said
is a sequence of tokens, each with the number of the upstream frame that said
it, so that text under a wrong block or in a wrong order shows; a token tells
whether the arguments it ends are whole JSON, a part of it, or JSON that is no
custom tool's input. Decoders and encoders are records that operators take and
return, as the classes do their fields; their events and frames are records.
Generators are pulled: nothing is read before all that came of the last frame is
written. `Read`, `EndOfStream` and the searches therefore work out all frames at
once into `out`, with a thrown exception behind them that says whose it is
(`by`: upstream, encoder, tools or handler), and `Write` sends one at a time;
`Break` may strike between any two. `request` is the body of the round: tools
offered, `tool_choice`, `max_uses`. `upstream` is history: the blocks as they
were made, the usage of each round, how it was finished. `client` folds the
frames as a client does (external). A Responses upstream numbers its new items
in the order in which it opens them; that is assumed of it (`InSequence`). Left out: pings, which carry nothing (`ClientConnection`
shows that they do not disturb the order of frames); Claude Code's options;
citations, annotations and signatures; byte limits, which are invalid frames or
breaks; several calls under one id; the reasons of an incomplete end beyond
"stop", "length" and the like.

**Tools.** A name is a sequence of words, so that an alias, which is one made of
an identity, differs from the names a client may choose unless it chooses that
very alias, which the instance does. The hash is taken to be injective. A
namespace is its tools, each with the group; `version` tells two declarations of
one tool apart. `web_search_preview` and other built-in tools are left out: they
pass unchanged or are refused. In `RequestedAnswer` a Responses request starts
undecoded; `DecodeRequest` either refuses it or lets it become the request of
the round that decoding results in (`ResultsIn`).

**Connections.** `UpstreamConnection` holds the generators inside out: `phase`
is where `decodeRound` and `parseSseStream` stand, and they move only while a
read of the iterator is outstanding. One event of the stream is one event for
the client. Bytes are letters that the parser tells apart: `data` and `colon`
begin a line, `cr` and `lf` end it, `half` and `rest` are one character of two
bytes, `high` and `low` stand for the escaped halves of a surrogate pair, `bad` is
no UTF-8. `ParseFrame` takes what each data line says; the number of lines of an
event tells of which item it is a delta. `Parsed` is the reference: the events of a
text that is there at once. A byte order mark is left out. A frame whose boundary is cut counts with
the beginning of that boundary, as it does in the code, where `bufferedBytes`
includes it. The output limiter counts the bytes of deltas; what it adds once per
item or citation (`addUnrelated`, `addBytes`: constant overheads, identifiers, other
text) and the limiter of tool arguments are left out. In `ClientConnection` an event
is one frame. `conn.buffer` is what the socket could not get rid of;
`Drain` empties it. `Ask` takes a result that is there in the same step, as
`next()` does without awaiting. `Timeout` is the request's timer or the server's
shutdown, `StallRequest` the upstream's own timers.

**Update.** A container holds the gateway with its `draining` and `active`;
`calls` are control requests not yet served, which may be served after the
script gave up on them (`Lose`) or was interrupted. `script` holds the globals
of `docker-update.sh`, `mode` says whether the exit trap's `restore()` or the
rollback by hand runs. Docker's steps (`Create`, `Stop`, `StartNew`, `UpFails`)
are what the script's commands rely on. `sound` says whether an image works.
Left out: the checks before the build, tags, git, the deadline's length,
deployments by anyone else, the cut-off of requests by a gateway that breaks
down by itself.

## 3. Runs

| Run | Instance | Question |
| --- | --- | --- |
| `conversations` | 2 credentials, 2 ids, 2 turns, budgets of 3, 4 and 5 units | Is every budget kept and the counter exact, a lease exclusive, and every step one that the abstract `Conversations` allows? |
| `reference_cache` | 2 credentials, 3 ids, outputs of up to 2 items | Do usage records, limits, tombstones and the order of eviction hold? |
| `history_cache` | the same | The same of the cache without usage records |
| `websocket_history` | 3 requests, 2 lanes, 2 sizes of messages, histories that fit together, evict or exceed the limit, draining on and off | Is what can be continued current and taken only by its own lane's failures, are counts exact and lanes in order? |
| `websocket_termination` | 2 requests, 3 lanes of which 2 may be used, 1 conversation, fairness | Does every accepted request end and free its conversation? |
| `turn_memory` | 3 turns, 1 conversation, all transports, native upstream | Is what is remembered whole, of successes, and written in all places or none? |
| `turn_termination` | 2 turns, Chat upstream, fairness | Does every turn end, whatever upstream and client do? |
| `turn_references` | 2 turns | Expects a violation: items of a failed turn in the reference cache (below) |
| `streams` | 13 kinds of Chat frames, 21 of Responses frames, 3 to 6 in all, 3 rounds, 10 requests, and every tool request of up to 3 declarations and a choice | Is what the client receives one well-formed answer, the right one, whole if it ends, with the right accounts and its own tools? |
| `message_order` | the same without tool requests | Expects a violation: an error behind `message_stop` (below) |
| `gateway_update` | 2 requests, 4 containers, an update and a rollback by hand | Is no request cut off, and is the script's status true? |
| `client_connection` | 11 texts of an upstream in any chunks, with and without pings, fairness | Do all events pass once and in order, does nothing stay behind, does every handler return? |

*Bounds.* Two of everything that competes (credentials, conversations, turns,
lanes) is where each exclusion and each share of a budget first matters; the
limits of the caches are such that two entries fit and a third does not, in bytes and in
number. `conversations` has two ids, hence two entries at most: there only the
budgets of bytes are ever met, and the limits of number are left to the proof of
`WithinBudgets`. Three sizes of histories (`HistoryBytes`) against a limit of two are one that
fits beside another, one that evicts the rest and one that is too large. Three requests are needed to have one run, one wait behind it and one
fork from another lane. `MaxNow` exceeds the time to live, so that entries expire
at, before and after their last use; `MaxRequests` ends a connection's behaviour.
Three turns make a chain in which the middle one's history may be lost; `MaxLive`
lets two of them be under way at a time, which is enough to compete for the one
conversation. Four frames of a Chat upstream (`MaxFrames`; three for a Chat
client, which has no searches) are three rounds with a trailing frame, or one
round of several blocks; a Responses upstream needs six, since an item takes a
frame to open, to fill and to close. Three rounds (`MaxRounds`, 8 in the code)
reach the limit of the loop, 0, 1 and 3 uses the limits within a round and
between rounds. The texts of `client_connection` have up to three events, with
comments, both line ends, characters and pairs cut in two, frames one byte below,
at and above `MaxFrame`, items and answers likewise, and upstreams that stop in
the middle. Four containers (`MaxContainers`) are the first, the update, its
rollback and the rollback by hand. Nothing else is cut. Credentials, ids, items,
turns and the update's requests are interchangeable and declared symmetric where
only safety is checked. `Visible` (the VIEW of `conversations`) hides the
captured copy of turns that can never use it again, and those of `turn_memory` and
`websocket_history` whatever of a turn or a request that is over nothing reads any more. Deadlock is not checked where all requests may be over and
nothing be left to forget, or where the stream, the connection or the script has
ended.

*Refinement.* `KeepsPromise` maps the store to `Conversations`: the holder of a
conversation is the open turn on it, whatever `busy` says; its last use is its
expiry less the time to live. A step then may only create under a fresh id,
change what nobody holds, append once through the holder, or forget what is
unheld and unused for the time to live.

`KeepsOrder` maps a streamed answer to `AnthropicMessage`, `ResponsesAnswer` or
`ChatAnswer`, whichever the client speaks: every frame written is a step of it,
so that blocks are counted through from 0 over all rounds and searches, deltas
and stops belong to open blocks, a response's frames are numbered without gaps,
and only errors may come behind an error or an end.

*Fairness.* Three runs assume any, and only of what the process itself does: a
ready task runs (promises), the request's timer fires (`upstream.timeoutMs`), an
aborted signal rejects what waits for it, and the write of an error ends within
its five seconds or destroys the connection. Nothing is assumed of upstream or
peer: `Written`, `Complete`, `Drain`, `Receive` and the like carry no fairness,
and `FairSpec` of `ClientConnection` asks of the round only what follows an abort.

*Findings.* `docs/compatibility.md:123` says that the reference cache keeps output
items of successful responses only. Over HTTP a conversation's commit comes
first (`app.ts:827`), so that a refused commit (413, 429) leaves the cache
alone. Over WebSocket the items are remembered first (`app.ts:292`), then the commit
is tried (`responses-websocket.ts:360`): the client is told of an error and
the items can be referred to for their five minutes. `turn_references` shows
it; `WholeOrNothing` states what does hold: conversation and history never
keep a failed turn, and over HTTP nothing does.

`docs/compatibility.md:350` ends a message with `message_stop`. Without web
search that event is sent on the upstream's `[DONE]` (`app.ts:1098`) although
the upstream's stream goes on until it is closed; a timeout, a broken
connection or another frame in between appends an error event. `message_order` shows it.
The Chat and Responses routes hold their end back, and so does the search loop,
which `HeldEndIsLast` states. In the same way an error chunk of the
upstream does not end the reading here, so that a `[DONE]` behind it is
reported as a second error; `AnthropicMessage` allows that.

`ServiceAsTold` has two exceptions, visible in its text. A drain request that
was under way when the script was interrupted may reach the gateway after the
trap's resume; the gateway then stays drained although the status says that it
was resumed (`overtaken`). The script's comment (`docker-update.sh:55-56`)
covers the reply that is lost, not the request that is late; with Docker's
`exec` on one socket it takes an unlucky scheduler. And a rollback by hand that
is interrupted may leave no gateway at all, as it says itself.


## 4. Proofs

`ConversationStoreProofs` proves, for all constants that satisfy
`StoreAssumption`, infinitely many credentials, ids and items included:

- `Invariance`: the inductive invariant `IInv`;
- `TypeCorrect`, `CounterAlwaysExact`, `BudgetsAlwaysKept`, `LeaseAlwaysExclusive`:
  `TypeOK`, `CounterIsExact`, `WithinBudgets`, `LeaseIsExclusive` always hold.

None of them is inductive alone. The counter stays exact only if the amount a
write gives back is the size the map holds for that key, and a budget is kept
only because the check uses the exact counter: `MapOK` joins the two, as a
statement about a map and a counter, and a few lemmas about `Total` (it splits
over disjoint keys, depends on sizes only, and of one key is its size) show
that `Sweep`, `Touch`, `Write` and removal preserve it. Lease exclusivity needs
that a turn's key is an issued id (`IdsIssued`): otherwise `create` could put
a new conversation where a turn of a cleared map still points, and that turn's
commit would overwrite it. The proof goes action by action over these three
parts.

`ConversationStoreProofs` also proves `StoreKeepsPromise`: the store implements
`Conversations`, under `StoreAssumption`. The mapping forgets sizes and closures:
a key's holder is the open turn on a live entry, whatever the lease flag says,
and it was last used `Ttl` before its expiry. `Mapped` derives from `IInv` what
the mapping needs (a key has at most one holder, and one exactly while its flag
is set), `OverdueIsExpired` that the sweep removes just what the promise lets be
forgotten. Then there is one lemma for each operation, that its step is one the
promise allows: the whole sweep is the promise's `Forget` joined to the
operation's own change. A release through a turn whose conversation `clear`
dropped is the one step that maps to none.

`ResponsesTurnProofs` proves, for any number of turns, conversations and any of
the three transports under `TurnAssumption` and `NoneAssumption` (the value that
stands for `undefined` is no request, conversation, history or turn):

- `TurnInvariance`: the inductive invariant `IInv` of that module;
- `TurnTypeCorrect`, `HistoriesAlwaysWhole`, `LeasesAlwaysFollow`,
  `AlwaysWholeOrNothing`: `TypeOK`, `HistoryWhole`, `LeaseFollowsTurn` and
  `WholeOrNothing` always hold.

What a client was told and what the stores hold are written in different steps,
so `WholeOrNothing` needs two parts that neither is by itself: `Consistent` says,
stage by stage, where a turn has been written (nowhere until the upstream has
ended, then where the last frame says, and after a refused commit over WebSocket
in the references alone), and `Stored` that whatever a store holds of a turn,
that turn was written there. `HistoryWhole` needs of `Consistent` that a turn
under way with `historyComplete` has everything said before as its input, which
in turn rests on `HistoryWhole` where a turn begins with a history (`BeginKeeps`).
`LeaseFollowsTurn` makes the commit append to what the turn began with
(`KeptKeeps`). `MovesKeep` covers every step that writes nothing to a store, so
that each action is left with what becomes of its own turn.

`WebSocketSessionProofs` proves, under `SessionAssumption`, for any number of
lanes, conversations and requests:

- `SessionInvariance`: the inductive invariant `IInv` of that module;
- `LanesAlwaysInOrder`, `LeasesAlwaysFollowRequests`: `LanesInOrder` and
  `LeasesFollowRequests` always hold;
- `SlotsAlwaysCounted`: the drain's counter and the queue's count exactly the
  requests that are not over;
- `HistoryInvariance`: a second inductive invariant, `IInv /\ HInv`, of what the
  connection remembers;
- `HistoryAlwaysCurrent`, `CountersAlwaysExact`: `HistoryIsCurrent` and
  `CountersExact` always hold;
- `FailuresStayInTheirLanes`: `FailureStaysInLane`, the action property, of every
  step.

A lane has no queue: each request waits for the promise of the one before it,
and the map keeps only the last. That this orders all of them is `Chained`: what
a request waits for is the last of its lane before it, nothing is chained to
what is over, and the map is empty for a lane only when all its requests are
over. `Advances` uses it once for every step of a request whose turn it is;
then only two cases are left, a request that goes on (`GoesOnKeeps`) and one
that is over and leaves all it held (`LeavesKeeps`).

`HInv` adds what the history needs. That the last completed response of a lane
is the one remembered holds only because lanes are in order: when a request
completes, nothing behind it in its lane has started, so nothing of a lane is
completed out of turn. `Marked` says which stages may have completed or failed and that a
request continues an earlier one, `Weighed` is the sum of the queue's bytes, and
`Parents` are the types. Eviction and forgetting only take responses away, so the
counter is what remains: the lemmas about `Total` give it for every set of
victims at once, and `AllOldest` with `SmallestOf` that the loop ends within the
limit: all responses are few enough, so there is a least number that is.

`LedgersProofs` has no theorem of its own; its lemmas say how sums of sizes split
(`TotalSplit`, `TotalLess`, `TotalMore`), what `Dropped`, `Put` and an entry that
shrinks in place do to the sums of any part of a map (`DroppedSums`, `PutSums`,
`ShrunkSums`), that `Victims` make as much room as was asked for (`RoomMade`) and
that nothing stays that is older than what goes (`VictimsOldest`).

`ResponsesHistoryCacheProofs` proves, under `ReplayAssumption`, for any
credentials, ids, contents, sizes and limits:

- `HistoryCacheInvariance`: the inductive invariant `IInv` of that module;
- `HistoriesWithinBudgets`, `HistoriesNeverMisquoted`: `WithinBudgets` and
  `NeverMisquotes` always hold.

`ResponsesReferenceCacheProofs` proves, under `ReplayAssumption` and
`OutputsAssumption` (an output is a sequence of items), for outputs of any length:

- `ReferenceCacheInvariance`: the inductive invariant `IInv` of that module;
- `ReferencesWithinBudgets`, `ReferencesNeverMisquoted`: `WithinBudgets`, with the
  counter and all usage records, and `NeverMisquotes` always hold;
- `EvictionOldestFirst`: `EvictsOldestFirst`, the action property, of every step.

A limit is kept because eviction is decided by counters that agree with the map,
and the counters agree because an entry's size changes in one place only, where a
contradiction shrinks it. So the limits and the exact counters are one invariant, over a
map that is well formed (`MapOK`: the entries a key names as older are others,
and every entry is at least `Overhead`, without which a tombstone might add
bytes). A credential's share needs no second argument: its part of the map has
the sums of a map of its own. In the reference cache this holds after every
item of an output, not only at the end (`CacheOK`), since the room for an item is
made by the records the one before has left. `ItemByItem` says that the cache after n
items is defined by the cache after n - 1; it and `RememberedKeeps` argue by the
first item where something would be wrong, since induction cannot be cited.
Eviction order needs that the orders of the map and of the credentials are the
same one (`Ordered`), and follows an output through its items with `Left`: what
is still there is in its old order, and what went was the oldest of its
credential or of all.

`ClientConnectionProofs` proves, for any text of an upstream, cut into any chunks,
and any client:

- `ConnectionInvariance`: the inductive invariant `IInv` of that module;
- `EventsReachTheClient`, `HeartbeatsDoNotPileUp`, `AbortIsNoEnd`,
  `RequestIsCleared`: `NothingLost`, `HeartbeatBounded`, `EndIsTheUpstreams` and
  `NothingLeftBehind` always hold, whatever the constants are;
- `EventsAreAsSent`: `EventsAsSent` always holds, under `TextsAssumption` (texts are
  finite sequences of bytes) and `FrameAssumption`;
- `LimitsAreExact`: `LimitsExact` always holds, under `LimitsAssumption` and
  `ItemsAssumption` besides: there are finitely many items, and what the texts come
  to is about those.

`Passed` counts: what the parser has produced is what was written and at most
one event in the handler's hand and one that is ready. That needs `Reading`, that a read
under way has brought nothing yet, for otherwise a second result would replace the
first. `Buffered` gives the bound on heartbeats: a frame is written only when
the last one has left the buffer. `Ended` and `GivenUp` follow a round to its end:
an upstream read without an error has ended by itself, and what was aborted has
lost its connection at once. What the parser makes of the bytes matters to none of
that, so `IInv` only says that a round stays one (`IsRound`).

`TextOK` is what the parser's bytes need. `DecodeInTwo` says that decoding
chunk by chunk, with the half character that a chunk may end in, is decoding all
of it; `BoundaryStays` that a boundary found stays where it is whatever comes
after it. So `Follows` is kept by each step: whatever may yet be sent, the events
of all that was sent are those passed on and then those of the buffer. A
boundary cut in two is why it speaks of all continuations: `lf cr` at the end
of a chunk is text of a frame until the next byte is there. The byte count is
that of the buffer and of the half character, since the lengths of two texts add up.
`Parsed` is defined by recursion on what is left of a text, and no induction can be
cited; the lemmas about it argue by the shortest rest where two definitions would
differ.

`LimitsOK` is the limiter's part. `Utf8LengthOfTwo` says that the bytes of two texts
one after the other are those of each, but for a pair that they have between
them: exactly what `Correction` takes back. `TalliesMore` applies it to one more delta, for the item,
for the total and for the refusal: an answer is refused exactly when that delta would make
the item or the total too long, so what is refused really is too long (`LimitsShown`).

`GatewayUpdateProofs` proves, under `UpdateAssumption` (finitely many requests at
a time, any number of containers over time):

- `UpdateInvariance`: the inductive invariant `IInv` of that module;
- `AlwaysCountsOngoing`: `CountsOngoing` always holds;
- `NothingIsCut`: `NothingCut`, the action property, of every step.

`CountsOngoing` is about what runs; a container may count before it is seen
running, so `Counted` says it of created ones too. `NothingCut` needs `Careful`: while the
script drains and polls, the gateway it looks at is the only one that runs, and
from the swap to the creation whatever runs is idle. Idleness lasts
because a draining gateway takes no request, and stays draining because
`ResumesLast`: a resume is the last call of a run and there is only one.

`GatewayUpdateProofs` also proves `ServiceAlwaysAsTold`: `ServiceAsTold` always holds.
`Told` follows the service through the phases of the script: before the swap the
old gateway serves and the script remembers to resume it as soon as it may
drain (`Before`); afterwards the newest container is the one asked for, never the
one to be resumed (`After`); an update that fails in between has a rollback to do
(`Modes`); and at the end a gateway serves that accepts, or is about to be
resumed (`Leaving`). `ExitTold` is the case every failure and signal goes
through.

Model-checked only: the streams (`StreamedAnswer`, `RequestedAnswer`) with the
refinement `KeepsOrder`, which rest on operators that fold over sequences;
and liveness (`EverySlotReturns`, `EveryTurnEnds`, `HandlerReturns`), since
temporal reasoning under fairness is beyond the prover.

## 5. Not modelled, and what remains

Not modelled:

- the request and response codecs apart from tools and streams: they are
  functions of one message that keep no state (`decode.ts` and `encode.ts` of
  each protocol, `request-decode.ts` but for tools). A model would repeat
  them field by field;
- JSON completions and the search loop without a stream, which is the same loop
  over whole answers; the fallback and its limits are those of the stream;
- the providers of web search (`src/src/providers/web-search`): HTTP requests to services whose
  answers are arbitrary here;
- the prompt cache planner: its breakpoints are never encoded, for
  `policies/cache/attempt.ts` passes an empty plan, so nothing depends on them;
- the read tool's and the thinking signatures' encodings: pure string functions
  and cryptography;
- configuration, authentication, start and stop of the server: read once, or a
  composition of steps that other modules have (`Close`, `Timeout`, `Abort`);
- the conversation routes' parsing: each calls one operation of the store, which is modelled.

What remains, in the order of its use:

1. a composition of session, turn and store, with microtasks as steps of their
   own and `generate: false` among them (the hazard at
   `responses-websocket.ts:386` that no property covers);
2. theorems about the streams, first those that relate the accounts of the rounds
   (`UsageAddsUp`, `OffersWhatItServes`, `ClientCallsAreLast`) and need little of
   decoders and encoders.
