# KeylessAI in TLA+

KeylessAI puts several keyless LLM providers behind one OpenAI-compatible
endpoint.  This directory models the parts of it whose correctness depends on
the order in which things happen, checks the models with TLC and proves the most
important results with TLAPS.

Paths below are relative to the repository root: the router is
`src/core/router.js`.

## 1. Inventory

JavaScript runs one callback at a time.  A *step* of the models is therefore a
piece of code between two suspension points (an `await`, a `yield`, a return to
the event loop); what interleaves is callers, timers, network answers and
consumers.

| component | state | operations | hard behaviour | what makes it correct |
|---|---|---|---|---|
| slot gate `src/core/queue.js` | `inflight`, `waiting`, armed timers | `acquire`, `release`, timer callback | two clocks reject a waiter; a granted waiter runs later; timers are never cleared | one holder, FIFO, no lost slot, every waiter answered once, timeouts honoured |
| router `src/core/router.js` | per call: candidates, attempt, what was delivered | `streamChat`, `tryOne` | failover mid-stream, abort, a consumer that stalls or leaves, exceptions while reporting | the slot is always given back; success means an answer; failure means nothing was left to try |
| registry (same file) | `PROVIDERS`, `FAILOVER_ORDER` | register, unregister, reorder, list | calls hold snapshots of it | a tool request reaches only tool providers |
| circuit breaker `src/core/circuit.js` | `fails`, `openedAt` | `isOpen` (changes state), `succeed`, `fail` | half-open state without a state | opens exactly at the threshold, only on account of the provider |
| metrics `src/core/metrics.js` | counts, recent times to first byte | record, `score`, `rank` | lifetime counts against a recent window | bounded window, stable order by score |
| notices `src/core/notices.js` | none | `looksLikeNotice` | verdict on a growing text | no notice reaches a consumer |
| rate limiter `src/server/ratelimit.js` | a bounded map of buckets | `check` | fractions, eviction, rounding | burst plus rate over every interval; honest Retry-After |
| prompt cache `src/core/cache.js` | ordered map with expiry | `get`, `put` | concurrent identical misses | only final answers, LRU, TTL |
| local proxy `src/server/proxy.js` | requests, `active`, drain | handlers, `drain` | disconnects, shutdown during requests | one complete response each; drain waits for all |
| stream watchdog `src/core/stream.js` | timers, reader | `readWithWatchdog`, `combineSignalWithTimeout` | abort, silence and deadline race with data | every guarded wait is bounded; an abort is heard |
| tool-call helpers `src/core/proxy-helpers.js` | none | accumulate, stitch | fragmented deltas | the model's calls, in order |
| worker `worker/index.js` | shares the core modules | `fetch`, `runChat` | unawaited writes, no abort | the message is what the model meant |
| chat page `app.js`, `src/ui/storage.js` | conversation, `streaming`, `controller`, `localStorage` | send, stop, suggestion, New chat, regenerate, retry, reload | user events during a reply, several requests at once, a refused write | the button tells the truth; storage follows memory; nothing cleared returns |
| page rendering `src/ui/markdown.js` | none | `renderMarkdownHtml` | called with every prefix of a reply | it returns |
| providers `providers/*.js` | the buffer, `inThinkBlock` | `streamChat` | think tags and SSE lines cut across pieces | the same chunks whatever the cuts |

They interact as follows.  A handler of the proxy or the worker asks the rate
limiter, then the cache, then iterates `streamChat`.  `streamChat` waits for the
slot gate, ranks the registry's order with the metrics, skips candidates whose
circuit is open, iterates one provider after the other and yields its chunks to
the handler, which pulls the next one when it has written the last.  When the
iteration ends in whatever way, a `finally` block releases the slot.  The chat page
iterates the same `streamChat`, in the browser, with a gate of its own; its user may
click on while it does so.

## 2. Modules

| module | models | composes |
|---|---|---|
| `FifoLock` | the abstract promise of the gate: an owner, a line, hand-over in order | |
| `SlotGate` | `queue.js` in full | implements `FifoLock` |
| `SlotGateProofs` | proofs about `SlotGate` | |
| `ProviderIds`, `CircuitBreaker`, `ProviderMetrics` | `circuit.js`, `metrics.js`: state and operations | |
| `Router` | `router.js`: calls, upstreams, consumers, registry | `FifoLock`, `CircuitBreaker`, `ProviderMetrics` |
| `MCRouter` | constants for TLC | `Router` |
| `HalfOpen` | the breaker alone, under the router's discipline, with a history variable | `CircuitBreaker` |
| `RateLimiter`, `MCRateLimiter`, `RateLimiterProofs` | `ratelimit.js` and proofs about it | |
| `PromptCache` | `cache.js` | |
| `Proxy`, `MCProxy` | `proxy.js` and the signal handler of `bin/keylessai.js` | `PromptCache` |
| `ProxyProofs` | proofs about `Proxy`: the count, the drain, its types, what the cache holds | |
| `SequenceLemmas` | induction over sets, and facts about sequences, that the proofs share | |
| `FoldFacts` | what a fold returns, for one operator at a time | |
| `RouterProofs` | proofs about `Router` and `ProviderMetrics` | |
| `ToolCalls` | the accumulator of `proxy.js` and `worker/index.js`, the stitching of `proxy-helpers.js` | |
| `Watchdog` | `stream.js` and the stream it reads: timers, waiting pieces | |
| `Adapters` | `providers/*.js`: from pieces to lines to chunks | `ToolCalls` |
| `Completion`, `MCCompletion` | one call from the bytes of the providers to the client's message | `Adapters`, `Watchdog` |
| `CompletionProofs` | proofs about `Completion` and `Adapters` | |
| `Markdown` | the loop of `renderMarkdownHtml`, and on which lines it stays put | |
| `Page`, `MCPage` | `app.js` with its storage and the action buttons | `FifoLock`, `Markdown` |
| `PageProofs` | proofs about `Page` and `Markdown` | |

### SlotGate

`inflight` and `waiting` are the fields of the class; `timers` the pending
`setTimeout` callbacks, each with the identity of its entry; `pc` says where each
caller stands, and `handed` is a caller whose promise is resolved but whose
continuation has not run.  The loop of `release()` is split by its outcome:
`ReleaseTo(c, k)` stops at the first entry that is not late, `ReleaseFree(c)`
empties the queue.  `FireTimer` looks its entry up by identity, as `indexOf`
does, and does nothing when it is gone.

The timer of an entry that was granted stays armed, as in the code.  `Tick` does
not let a due timer wait longer than `TimerSlack`: the event loop runs callbacks
late, but not arbitrarily late.

### Router

The gate appears as `FifoLock`: `owner` is the call inside, `line` the calls
that wait.  A call that ends hands over (`HandOver`) to any place `k` of the line
and rejects those before it; the choice of `k` stands for the deadlines that
`SlotGate` models, so every behaviour of the gate is covered.

`stage` is the position of a call and `frame` its local variables:
`granted` → `choosing` (the head of the loop over the candidates) → `calling` (the
provider's generator is awaited) → `yielded` (the consumer has a chunk) and back;
`backoff` is the pause of a pinned retry.  Each iteration is one action:
`SkipOpen` or `TryNext`, where `isOpen()` may close a circuit.  What an upstream
does is `OtherChunk`, `ContentChunk`, `UpstreamEnds` or `UpstreamThrows`, in any
order.  A provider module is a black box: it may deliver reasoning, tool calls
and content, end or throw at any point.  `looksLikeNotice` says yes or no to any
text, so its verdict is chosen freely for each of the first chunks.

`Called` with an aborted signal leaves `live` false: `fetch` throws at once, so the
attempt can only throw.  An abort during an attempt leaves every outcome open,
because `stream.js` cancels the reader, which may look like a normal end.
`ReportThrows` and the second branch of `SkipOpen` are the two places where the
code reads `p.label` of a provider that was unregistered after the ranking: that
`TypeError` leaves the loop, and the call fails with candidates left.

`last` and `stale` are history: whose chunk was delivered last, and whether the
registry changed after the ranking.

### RateLimiter

Tokens are counted in units of `1/WindowMs` token: a millisecond adds `Rate`
units and a request costs `WindowMs`.  This is exact where the code computes in
floating point.  `order` is the insertion order of the `Map`; `set` on an existing
key does not move it, so eviction takes the entry made first.  `granted` and
`promised` are history.  The clock does not run backwards (`Date.now()` may, when
the system time is set; that is not modelled).

### PromptCache and Proxy

`entries` is the `Map` of the cache in its own order: `get` moves what it finds to
the young end, `set` on a key that is there leaves it in place, and the oldest entry
goes when there are too many.

A request object goes through `stage` (its handler) and `response` (its response, by
the events it emits): `open`, `ended` by `res.end()`, `finished` when all was handed
over, `closed`.  A handler runs from one `await` to the next: reading the body,
awaiting the next chunk of `streamChat`, awaiting the model list.  Looking into the
cache and answering from it are one step, and so are the end of the call, `put` and
the end of the response.  Streams and single answers differ in wording only: both
end their response once, whether the call ends or throws, and store the same text.
Endpoints that answer without awaiting the network are `simple`.

`Close` comes at any time, also while the handler goes on.  The handler's
`controller.abort()` on the request's `close` event needs no action of its own: to
the handler an aborted call is one that ends or throws early, and both are always
possible.  (Which of the two, and whether the event is still to come when the
handler subscribes, depends on the version of Node and on `stream.js`.)

`reply` is what the handler gathered, and it is what the cache stores: the key, the
providers that contributed text, whether there were tool calls, and when the call
ended.  `phase` is the process: `idle` and `draining` follow a signal, and the exits
are told apart by their reason.  The drop that brings `active` to zero resolves
`drain()`, whose caller exits in a microtask, hence in the same step.  A further
request may come over a connection that was accepted before the signal: `Signal`
chooses which of the unused request objects can no longer come.

### Completion, with Adapters, Watchdog and ToolCalls

`Router` treats a provider as a black box that may deliver, end or throw at any
time.  `Completion` opens the box for a single call: it keeps the walk over the
candidates (`Call`, `AttemptFails`, `AttemptEnds`) and follows each attempt through
its stages.  `fetching` awaits `fetch`; `refused` and `body` await `res.text()`;
`looping` is the head of the loop in `readWithWatchdog`; `reading` awaits
`reader.read()`; `holding` is a suspended `yield`.  `queue` and `socket` are the
stream behind the reader: pieces that came while the consumer was busy wait there,
an orderly close lets them be read, a failure or `cancel()` drops them.
`period`, `quiet` and `elapsed` are the armed timer, the time since it was armed and
the time since the response.  `mark` is history: what the handler had when the
attempt began.

A reply is a sequence of deltas.  On the wire each delta is an atom followed by the
atom for the end of its line (`Atoms`), and `Send(n)` cuts the wire anywhere between
atoms.  A text is a sequence of words and tags, where a tag consists of two atoms, so
that it too may be torn, within a delta or across deltas; a JSON text is a sequence
of three tokens, which is what `looksLikeOpenJson` and `isCompleteJson` tell apart.
Bytes within a line are not cut: the buffer treats half a line like no line.  Lines
that are not JSON are skipped by the code and left out here.

`Leave` is the router that recognised a notice.  Metrics, circuits and the gate are
in `Router`; the handler of `worker/index.js` that gathers text and fragments is
`Gather`, and its counterpart in `proxy.js` does the same.

### Page and Markdown

The variables are the fields of `state`, the stored conversation, and the buttons the
page shows: the suggestions (`hero`), and the replies and errors with a regenerate or
a retry button.  Each call of `requestAssistant()` is an entry of `requests`, with its
closure: `aborted`, the reply so far, whether it has returned.  Several may be live:
`Suggest` does not ask whether one is (`app.js:370`), and a call whose button is gone
is still at work.  The page has one slot gate, which appears as `FifoLock`.

`CallEnds` and `CallThrows` include what follows in the same step: the push, the save,
the `finally` block.  `SaveConversation` keeps the last `MaxStoredTurns` turns, or
nothing when `setItem` throws; `removeItem` does not throw.  `Reload` stands for
closing, crashing and opening again: all that is live is gone, and the conversation is
what was stored.

`text` is a reply as its lines look to the renderer, `NoText` for none.  A chunk makes
the page render the reply so far before anything else, so that `ContentChunk` with a
text on which the loop does not return ends in a page that is `frozen`: only
`Reload` is possible then.  `chat`, `alone`, `late` and `saved` are history.

`Markdown` has the loop itself.  A line is one of the eight kinds its regular
expressions tell apart, `Iterate` is one round of the loop, and `Renders` says that it
comes to its end.  `Scanned` is an independent scan of the lines; `MCPage` compares the
two for every text of up to four lines, and `RendersWhatScans` proves that they agree
on all.

## 3. Runs

| run | question | result |
|---|---|---|
| `slot_gate` | is the gate exclusive, fair, live, punctual, and an implementation of `FifoLock`? | passes |
| `slot_gate_default` | is the default timeout honoured? | violated |
| `router` | three concurrent calls, fixed registry: slot, breaker, success | passes |
| `router_registry` | two calls, the registry changes twice under them; every call ends | passes |
| `abort_charges` | can an aborted call open a circuit? | violated: it can |
| `notice_leak` | is a notice held back until it is recognised? | violated: no |
| `half_open` | does a cooled-off circuit let one probe through? | violated: `Threshold` attempts |
| `proxy` | count, drain, cache and answers, with a shutdown at any moment | passes |
| `proxy_pin` | does a pinned request get the answer of its provider? | violated: not from the cache |
| `rate_limiter` | bound over every interval, bounded map, honest Retry-After | passes |
| `completion` | are waits bounded, cuts harmless, messages restored; do silence and aborts end the call? | passes |
| `page` | do button, memory and storage agree under any clicks, refusals and reloads? | passes |

The properties are stated, each with the code it is about, at the end of each
module.  For every property of a passing run `PROJECT.json` names a mutant of the
model, such as a dropped guard or a wrong comparison, under which TLC finds the
property violated.

### Bounds, and why they are enough

* `slot_gate`: four callers and a queue of two, so that one holds, two wait and one
  is refused; timeouts 0 (none), and one shorter than the default, so that entries
  leave the queue from its end and from its middle; three entries in all, so that a
  caller can be granted, come back and meet the timer of its first acquire.
* `router`: three calls and a line of one (owner, waiter, refused), two providers of
  which one supports tools, threshold 2 and cool-off 1 within 2 ticks so that
  circuits open and close again, notices within the first two of three chunks,
  one sample of latency.  Calls are interchangeable, hence the symmetry.
* `router_registry`: two calls and two changes of the registry at any moment: a
  replacement by a provider without tools, a removal, or an order that names one id
  twice before another, so that a removed provider can stay in the order.  Automatic
  calls report to `onStatus` here, which is where a removed provider is an exception.
  One content chunk per attempt is enough, as these properties do not look inside an
  attempt, and time stands still (`router` lets circuits close again).  No symmetry: it
  is unsound for liveness.
* `rate_limiter`: three addresses for two buckets, so that eviction happens; two
  tokens every five milliseconds, so that levels are fractions, and seconds of two
  milliseconds, so that both roundings matter.

* `proxy`: two requests at a time, each object used again when it is done, so that
  histories are unbounded in length; two keys for a cache of one entry, so that
  entries are replaced, evicted and expire (lifetime 1 within 2 ticks).
* `proxy_pin`: two providers and one question, asked of any and of one of them.
* `completion`: one provider of each format, in three orders, so that each is
  followed by one of another kind or follows it.  The replies are chosen for the
  cases of the code: a thought within one delta and across two, a tag torn by the
  deltas, a call fragment by fragment, three parallel calls, a call whose tail has an
  index of its own, and one whose tail looks like a new call.  Heartbeat 1, deadline 2
  and lateness 1, so that a read may begin just before the deadline and both timers
  may be late.
* `page`: three requests, so that two overlap while a third is in line or past; two
  uses of New chat; two stored turns of up to six, so that storage drops turns; a
  text with every kind of block, on which the renderer returns, and two on which it
  does not.

`MaxTime`, `MaxEntries` (of `SlotGate`), `MaxChunks`, `MaxChanges` and `MaxGranted` only end the
exploration.  Deadlock is not checked: calls are finite in number, the clock
stops and a process exits, so every model may come to rest; that nothing stops too early is what the
liveness properties say.

### Fairness

* `SlotGate`: the clock and due timers (`TimersRun`) are part of `FairSpec`, as the
  event loop runs whatever holders do.  That holders release is an assumption of
  `EveryWaiterAnswered` alone; `TimedWaiterAnswered` does without.
* `Router`: its own steps are weakly fair, being ready continuations.  A consumer
  goes on pulling (weak fairness of `Pull`): the proxy and the page iterate with
  `for await`.  An upstream call ends at last (strong fairness of `Finish`, because
  chunks disable it for a while): `stream.js` bounds the streams of the providers
  that use it.  `providers/pollinations-get.js` awaits `res.text()` without a
  watchdog; for it `EveryCallSettles` rests on the upstream alone.

* `Proxy`: bodies arrive or fail, calls end (see `Router`), model lists end, and the
  timers of a shutdown fire.  No client is assumed to read or to leave.
* `Completion`: continuations run, due timers fire, time passes, and the consumer takes
  what is yielded.  Nothing is asked of the network or of the client: this is what
  `SilentUpstreamEnds` is about.  It is the justification of the strong fairness of
  `Finish` in `Router`, with the exception of the waits it names (`Unguarded`).
* `Page`: the call in the slot ends at last (`OwnerEnds`), as `EveryCallSettles` of
  `Router` and `SilentUpstreamEnds` say.  Nothing is asked of the user, and nothing of
  calls in the line.

## 4. Findings

1. The default queue timeout (`queue.js:18`) is not enforced while the slot is held:
   only an acquire that passes `timeoutMs` arms a timer, and the router never does.
2. Aborted calls are charged to providers (`router.js:383-388`): a call aborted in
   the queue keeps its place, then fails at once at every candidate, and each failure
   counts towards opening that provider's circuit.
3. The first chunks are not buffered (`notices.js:9`): what precedes the chunk that
   completes a notice has been delivered.
4. The half-open state admits `threshold` attempts, not "one probe"
   (`circuit.js:36`), since `isOpen()` clears the failure count too.
5. The cache key (`proxy.js:167`) does not name the provider: a pinned request may be
   answered with the text of another provider.

## 5. Proofs

TLC decides the runs above for small constants; TLAPS proves the following for all
values of the constants that satisfy the `ASSUME`s of the modules.

**SlotGate** (`SlotGateProofs`).  `GateInv` is inductive: the flag agrees with the
holders, there is at most one, the entries of the queue and the waiting callers
correspond one to one, and the identities of entries increase along the queue and
stay below the counter.  The last part is what the properties lack by themselves:
without it a timer might find a younger entry under its own identity.
`TypeCorrect`, `OneHolder`, `SlotNeverLost` and `QueueAlwaysMatches` are parts of
it.  `TimersInv` adds that each entry with a timeout still has its timer, due at
its deadline, and that no due timer is overdue by more than the slack;
`TimeoutsHonoured` follows, and with the uniqueness of identities
`AnswersAlwaysJustified`.  `GateImplementsLock` maps holders to `owner` and
the callers of the queue to `line`, and shows that each action is a step of
`FifoLock` or changes neither.

**RateLimiter** (`RateLimiterProofs`).  `RateBounded` relates pairs of past grants.
The inductive part is `Budget`: for each past grant, the grants since then plus the
tokens left fit in a burst plus the refill since then.  `Kept` says that the bucket
of a refused client will hold a token when it was told to come back; `CeilDivCovers`
and `RetryAfterCovers` are the rounding facts it needs.  An evicted bucket is made
anew, full, which keeps the promise as well.

**Proxy and cache** (`ProxyProofs`).  `CountInv` is inductive: a request is pending
exactly while it is in flight, `active` is the cardinality of the pending ones, and a
process that drained has none.  It needs `StagesFit`: while a handler is under way its
response is open, or closed early, so that its end cannot re-open what an event has
counted. `CountAlwaysExact` and `DrainCutsNothing` follow.  `CacheInv` is inductive: the
entries are whole answers under distinct keys and no more than the limit (`CacheFits`),
and a call that goes on gathers the answer to its own question (`CallFits`), which the
invariant about the cache lacks by itself: `put` takes the key of the request and the
text of the call.  Distinct keys are what makes the three operations of the `Map`
(`delete`, `set`, taking the oldest) act on one entry.  `OnlyWholeAnswersKept` and
`TypesKept` follow, and `AnswersAreFresh` as an action property: a hit moves an entry
and leaves its time alone.

**Router** (`RouterProofs`).  The proof has two layers.  `IInv` is inductive and has
four parts.  `GateInv`: the line holds each waiting call once, and whoever runs is the
owner.  `BreakerInv`: a closed circuit is below its threshold, an open one at it.
`CallsInv`: an automatic call that is at a provider found its circuit closed, and since
only the owner runs and only the running call touches circuits, it still is; this is
what `BreakerNeverOvershoots` lacks by itself.  `FramesInv`: a candidate that emitted a
chunk is the last that did.  `SlotAlwaysHeld`, `BreakerStaysInStep` and, as an action
property, `SuccessWasDelivered` follow, and nothing of it depends on how candidates are
ranked.  The second layer does: `RankSorts` shows that `rank()`, a `CHOOSE` over
permutations in the model, returns the same ids, each as often, by falling score, and
equal scores in the order they came in.  It rests on the type of the metrics
(`TypeInv`), because a score is a number only as long as the sum of the recent samples
is one.  `SnapshotInv` says that as long as the registry did not change under a call,
the candidates it has left are still in the order and support tools when the request has
some, and the one it is at was looked up as it is registered.  `AllInv` joins the
layers; `RouterTypes`, and as action properties `ToolRequestsKeepTools` and
`FailuresExhaust`, follow. `RouterUsesLock` shows that the router implements `FifoLock`:
each step of a call, of its upstream or its consumer is one of the lock or leaves it
alone.

**Completion** (`CompletionProofs`).  `WaitAge` is what `WaitBounded` lacks: while a read
is awaited, the age of the stream beyond its deadline is part of that wait, and the
wait is at most a heartbeat and the slack.  `AbortedNeverReads` needs `StreamOver`:
after an abort, and in `pollinations-get`, a call that goes on has no open stream left
to wait for.

That cutting a reply changes nothing (`CutsNeverMatter`) is proved in three stages.

1. *One delta after the other.*  `Read` is the handler and the parser after one whole
   delta, `Reading` its fold.  `DecodedReads`: for the formats that stream, decoding a
   piece and then pulling every chunk it yields is `Reading` the deltas the piece
   completes, though the two SSE providers put the chunks of a line in different
   orders: text and tool calls are gathered apart.  `TagsRead`: unless a tag is torn,
   reading delta by delta, with `inThinkBlock` carried along, shows what stripping the
   joined text shows (`StripConcat`).  `InlineIsWhole`: the loop of `airforce.js`
   over a text shows what `stripThinkTags` of the same file leaves of it, so that
   `Visible`, which is defined by the latter, is what the reader gets.
2. *Cuts.*  `LinesOfConcat` and `IncomingConcat`: the lines of two pieces are those of
   the first and then those of the second behind what the first left in the buffer.
   `InStep` relates a parser with its buffer, the chunks that are due and the pieces
   that wait to one that has read nothing and has the whole wire before it.
   `ArrivalKeepsStep` and `DecodingKeepsStep` are the two ways it moves.
3. *The stream.*  `SInv` is inductive together with the invariant of the waits.
   `StreamTyped` keeps whatever is buffered or waits a part of a reply; `StreamStaged`
   says what each stage implies, for instance that nothing is due or waits when a read
   does; `StreamFollowed` is `InStep` for as long as the stream is neither broken nor
   cancelled.  `SNext` has one step per action.

`CutsNeverMatter` is what is left of `InStep` when nothing is due and nothing waits. At
the end of a call the same argument gives `RepliesGathered`: after the whole reply of
its last provider the message has the visible text, and the accumulator every fragment,
once each and in order.  `RepliesRestored` proves `ReplyRestored` from a hypothesis
about replies alone: that the handler assembles the calls of each reply when it has it
in hand at once (`Assembles`).  That hypothesis is what `buildToolCallsFromAccumulator`
is written for, and the replies of `MCCompletion` satisfy it; it cannot be proved for
all replies, since what a model means by its fragments is not in the code.
`CompletionTypes` adds to `SInv` that the timer which runs is that of the stage
(`Timed`).

**Page** (`PageProofs`).  `Buttons` is inductive: a request that began alone and was not
stopped has the button and no company (`Sole`).  It needs `HeroAlone`: while
the suggestions are shown nothing of the present chat is at work or can be started
again, since a suggestion is the only click that does not look at `streaming`.
`StopWorks` follows.  `NothingClearedReturns` needs that a live request of an earlier
chat was marked when that was cleared, and `ReloadCures` that no request holds a text
on which the renderer loops.  `Stores` says that each request has at most one question
and one reply in memory, and that storage is the end of memory unless a write was
refused; it rests on `Fitting`, by which a reply is pushed only by its request's last
step.  `RepliesOnce` and `StorageKeepsUp` follow.  `Placed` relates the requests to the
gate: those at work are the owner and the line, each once; `PageTypes` follows.
`PageUsesLock` shows that the page implements `FifoLock`, a reload included; it needs
that nobody is in line when nobody owns the slot (`Idle`).

**Markdown** (also in `PageProofs`).  `StaysOnTwoKinds`: a round of the loop stays where it
is exactly on a line of the kinds `ticks` and `marks`.  `RendersWhatScans`: over a text
of any length, the loop, which skips whole blocks, returns exactly when the scan line by
line does not get stuck.  `StuckForGood`: a text it hangs on it hangs on whatever follows,
so that no later chunk could cure the page.

**Induction.**  The induction theorems of the library take an operator as a parameter and
cannot be used here.  `SequenceLemmas` proves induction for *sets* instead, of numbers
(`SetInduction`, from the least element of a set of numbers) and of sequences
(`AppendInduction`): a proof names the set of values for which its claim holds.
`FoldFacts` has an operator for a constant, and shows that a fold of it starts from its
base and takes one element after the other; a proof instantiates it for each operator it
folds.  Recursive functions are unfolded by showing first that the table they read off
exists (`TableRows`, `LinesTableRows`).

The proofs use no assumption beyond the named `ASSUME`s, which TLC evaluates on the runs:
positive sizes and rates, natural bounds and timer values, an owner name that is no
caller's; finitely many request objects and at least one cache key (`Proxy`), finitely
many provider ids (`ProviderMetrics`), requests numbered from one (`Page`); and for
`Completion` a format for each provider, nonempty orders of them, and that replies in
the formats that carry nothing but text have no tool calls.  `RepliesRestored` alone
has a hypothesis of its own.

Only model-checked:

* That the calls the fragments of a reply assemble to are those its model meant, on the
  replies of `MCCompletion`: the hypothesis of `RepliesRestored`.
* All liveness properties, whose proofs need fairness and `ENABLED`, which these
  provers do not handle.

## 6. Observations

What the models show and no document denies, so that no run is made to violate it:

* A failover in the middle of an answer splices two answers; tool-call names are
  concatenated by the accumulator in the same way (`mark` in `Completion`).
* An id that `setFailoverOrder` was given twice stays in the order when it is
  unregistered (`router.js:132`).  Every later call meets it and charges it with a
  failure; one with an `onStatus` fails there, with candidates left
  (`FailureMeansExhaustion` excepts it).
* A think tag that two deltas share is shown (`airforce.js:148`, `Torn`).
* The tail of a torn call that begins like JSON of its own stays a call
  (`proxy-helpers.js:77`, `TailLooksNew`).
* The body of an error response (`airforce.js:89` and the like) and all of
  `pollinations-get.js` are awaited without a timer; the former also without the
  caller's signal (`Unguarded`).  Meanwhile the slot is held.
* An aborted read resolves with `done` (`stream.js:36`), so that an answer that was cut
  short may end like a complete one, and the page records it as such.
* The reply of a call that was at work during New chat is pushed into the new
  conversation (`app.js:252`, `app.js:260`).
* A suggestion clicked after New chat, while the old call still runs, starts a second
  request; the first to end takes the button of both (`app.js:270`).
* Regenerate on an older reply drops the last reply of the conversation and the
  older one's element (`app.js:145-150`).
* `renderMarkdownHtml` does not return on a line such as `## ` without a title,
  `#### x`, or three backquotes followed by two words (`markdown.js:124-133`): no branch
  takes it.  The page renders with every chunk, so that a stream that is cut right
  after `## ` freezes the page for good; the conversation survives a reload.

## 7. Not modelled

* `listAllModels`, `listModels`, `healthCheck`: fetches with a fallback, for display.
* A second `drain()`, which no caller in the repository makes.
* The worker beyond its gathering loop: its cache use is that of `Proxy`, it passes no
  signal and awaits no write; how its platform buffers writes is not in the code.
* Two tabs of the page that share `localStorage`: each overwrites the other's
  conversation with its next save.
* Wording, layout, inline markup, argument parsing, the field tests of `validate.js`
  (one JSON value, sequential, unit-tested), the regular expressions of `notices.js`,
  the drawers, the examples and the automation.  Statistics getters only read.
