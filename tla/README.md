# A verification of sengkrep in TLA+

Sengkrep is a scraping toolkit for Node: one class, `Sengkrep`, that sends requests through a
stack of reliability components, and around it a scheduler, queues, sinks and a network capture.
JavaScript runs it on one thread. What makes it hard is what happens at every `await`: between two
of them any other call, timer or response runs, and what was read before is old. The modules here
model that: **one action is the code between two awaits**, and TLC tries every order.

- [The system](#the-system)
- [Modules](#modules)
- [What is checked](#what-is-checked)
- [What is proved](#what-is-proved)
- [What the checks found](#what-the-checks-found)
- [Not modelled](#not-modelled)
- [Plan](#plan)
- [How to run](#how-to-run)

## The system

A request takes this way (`src/src/Sengkrep.js`, `_fetch` and `_performRequest`):

    fetch -> security -> CircuitBreaker -> Cache -> SingleFlight -> Retry.run
                                                      each attempt: RateLimiter -> AdaptiveThrottle
                                                        -> identity, proxy, token -> Transport
                                                        -> block detection -> bookkeeping -> release

| Component | State it keeps | Operations | Hard part | Correct when |
|---|---|---|---|---|
| `CircuitBreaker` | per host: state, failures, openedAt | `assertCanRequest`, `recordSuccess`, `recordFailure` | answers of calls admitted earlier arrive in any state | state, count and cooldown fit together; admission respects the cooldown |
| `RateLimiter` | per host: active count, parked callers, interval chain | `acquire`, release | a woken caller can be overtaken | never over the limit, no lost wake-up |
| `AdaptiveThrottle` | per host: limit, active, delay, waiters | `acquire`, `onSuccess`, `onFailure`, release | the limit moves under the permits it gave out | admissions stay under the current limit, nobody is stranded |
| `Retry` | attempt number of a call | `run` | retries re-enter the stack, but not the breaker | bounded, ends |
| `Identity`, `ProxyRotator`, `AuthManager`, `BlockDetector` | assigned identities, failures of proxies, the token and its refresh | taken by each attempt, reported to at its end | attempts of several calls share them; a failure can be reported on two paths | each failure counts once; one refresh serves all who wait |
| `Fetcher`, `Http2Fetcher`, `Transport`, `redirect`, `SecurityGuard`, `DnsCache` | the hops of a call, timers, body, temporary file | `fetch`, abort, `close` | timers, abort, redirects and a fallback race for one promise | one outcome per call; redirects keep to the policy |
| `Cache` | entries by method and URL, LRU order, keys being refreshed | `lookup`, `set`, `beginRevalidate`, `endRevalidate` | stale entries are refreshed in the background | an answer belongs to its request; refreshes pair up |
| `SingleFlight` | flights by method, URL and body | `run` | many callers hang on one promise | followers end with their leader |
| `SessionPool`, `CookieJar` | sessions with their counts, buckets of cookies | `next`, `resetAll`; reading and setting cookies | a session is recycled while its user has it in hand | cookies never cross sites or sessions |
| `Scheduler`, `JobStore`, `cron` | job records on disk with an index; running map, timer | `add`, `remove`, `pause`, `resume`, `start`, `tick`, `runNow`, `stop` | long handlers, restarts, two writes per save; the calendar | one instance per job, nothing oversleeps, starves or bursts |
| `DistributedQueue` | items queued, leased, done | `enqueue`, `run` | leases that expire while the worker goes on | no item is lost |
| `CrawlQueue`, `ContentDedup`, `Discover` | URLs queued and visited, fingerprints, robots rules, state file | `start`, `pause`, `resume`, visits | a crash with URLs in flight; a resume over a batch under way | every link is followed or remembered |
| `Sink`, `FileSink`, SQL, S3, ClickHouse | buffered rows, file | `write`, `flush`, `close` | writes during a flush, flushes that overtake each other, retries, torn appends | a row that was accepted is written once |
| batch, stream, export, crawl | a sink of their own or the caller's | one call each | a sink that throws in the middle, a caller that leaves | every row extracted reaches the sink |
| `Incremental`, `DiffDetector`, `HealthMonitor`, `Observability`, `Webhook` | the last snapshot, windows of runs, counters, deliveries | by `extract()` | calls for one page overlap; answers are lost | what is said of a page is true of it |
| Capture: `CdpCapture`, `CdpRenderer`, `Browser`, `WebSocketClient`, `CaptureProxy`, `PlaywrightCapture` | pending commands, sessions, tabs, entries | `send`, `close`, `goto`, `capture`, `start`, `stop` | events, replies, timers and closing race | every command settles; nothing stays open; entries tell of their own answers |
| Extraction, inference, formatting | none | pure functions | - | data, outside a model of control |

## Modules

| Module | Models (under `src/src/`) | Kind |
|---|---|---|
| `CircuitBreaker`, `RateLimiter`, `AdaptiveThrottle` | the modules of these names | methods as functions of a host's state |
| `Retry` | `core/Retry.js`, and the classes of outcomes | retry decision |
| `RequestPipeline` | `_fetch`/`_performRequest` over the four above | state machine |
| `Redirect` | `core/redirect.js`, `modules/SecurityGuard.js` | what a hop makes of a request, and its verdicts |
| `Fetcher` | `core/Fetcher.js`, `core/ProxyTunnel.js`, `modules/DnsCache.js` | state machine of one HTTP/1.1 call |
| `Http2Fetcher` | `core/Http2Fetcher.js` | the same call over HTTP/2, extends `Fetcher` |
| `Transport` | `core/Transport.js`, the guard at the head of `_fetch` | composes the two, with fallback and abort |
| `BlockDetector` | `modules/BlockDetector.js` | verdicts as functions |
| `Attempts` | `Identity.js`, `ProxyRotator.js`, `AuthManager.js` as `_performRequest` uses them | state machine of several calls' attempts |
| `Outcome` | | abstract: what a caller is promised of what it asked |
| `RequestsMC` | | composes the three machines of a request |
| `RequestsProofs` | | theorems about `RequestPipeline`, `Attempts`, `Transport` and the composition |
| `Cache` | `modules/Cache.js` | methods as functions of the entries |
| `CachedFetch`, `CachedFetchMC` | `_fetch` with cache, `SingleFlight`, `_revalidate`, `flush()` | state machine |
| `CachedFetchProofs` | | theorems about `CachedFetch` |
| `JobStore` | `modules/JobStore.js` | methods as functions of the store |
| `Scheduler` | `modules/Scheduler.js` | state machine with crashes |
| `SchedulerProofs` | | theorems about `Scheduler` and `Cron` |
| `Cron` | `modules/cron.js` | fields, search for the next time, slots, against reference definitions |
| `SchedulerMC` | | constants, and the two side by side |
| `DistributedQueue` | `modules/DistributedQueue.js`: `MemoryAdapter` and `run()` | state machine |
| `CrawlQueue` | `modules/CrawlQueue.js`, `Sengkrep.crawl`, `ContentDedup.js`, `UrlDeduplicator` | state machine with a crash |
| `Discover` | `modules/Discover.js`: robots rules and the walk of sitemaps | functions against reference definitions |
| `Flows` | `batch`, `stream`, `export`, `crawl` and their sinks in `Sengkrep.js` | state machine |
| `FileSink` | `sinks/FileSink.js` | state machine with torn appends and restarts |
| `Snapshots` | `extract()` with `modules/Incremental.js` | state machine of overlapping calls |
| `Watch` | `HealthMonitor.js`, `DiffDetector.js`, `Observability.js` | state machine over a page's runs |
| `Webhook` | `modules/Webhook.js` | state machine |
| `Sessions` | `SessionPool.js`, `CookieJar.js` | state machine |
| `QueueMC` | | composes `DistributedQueue` to `Sessions` |
| `CrawlProofs` | | theorems about `CrawlQueue` and `Discover` |
| `QueueProofs` | | theorems about the other machines of `QueueMC`, and about the composition |
| `Sink` | `sinks/Sink.js`, and how `SqlSink` and `S3Sink` store a batch | state machine |
| `SinkProofs` | | theorems about `Sink` |
| `CaptureProofs` | | theorems about the parts of `CaptureMC`: `CdpSession`, `CdpCapture`, `Browser`, `WebSocket`, `CaptureProxy`, `NetworkCapture` |
| `CdpSession` | class `CdpSession` of `capture/CdpCapture.js` | state machine of commands |
| `CdpCapture` | `capture/CdpCapture.js`, `capture/CdpRenderer.js` | one task over a session |
| `Browser` | `capture/Browser.js` | calls that share a browser, over sessions |
| `Channel` | | abstract: messages in order |
| `WebSocket` | `capture/WebSocketClient.js` | frames to the byte |
| `CaptureProxy` | `capture/CaptureProxy.js` | state machine |
| `NetworkCapture` | `PlaywrightCapture.js`, `NetworkCapture.js`, `HarImporter.js` | state machine |
| `CaptureMC` | | composes the parts of the capture |

**Components per host.** A component that keeps its state per host is a module of functions on that
state, without variables; the state machine that calls it holds the state of one host. Nothing in
those components crosses hosts, so one host is enough. The modules an action uses are brought in with
`EXTENDS`.

**Parts.** `RequestsMC`, `QueueMC`, `CaptureMC` and `SchedulerMC` put side by side machines that share
no state. Checking their product would multiply the states without adding an interleaving that
matters, so a variable `part` chooses one of them in the first state, and the others stay as they are
at first. Every behaviour of every part is a behaviour of the composition, and every property is
checked on all of it; what the composition does not have is two parts that move in one behaviour,
which could not affect each other. Machines that do share state are not taken apart in this way:
`Transport` composes the fetchers within one state space, `Browser` and `CdpCapture` extend
`CdpSession`, and the components of `RequestPipeline` act on one state.

**Slips.** Operators whose comment begins with "The slip of" are not part of the model. Each is a
definition with a plausible mistake in it; a property that still held with the mistake in place would
say nothing, so each property has one that breaks it (`mutants` in `PROJECT.json`).

### RequestPipeline

`pc[c]` is the await a call stands at. `Fetch` is `_fetch` from `assertCanRequest` to the first
await of the first attempt; `ResumeForSlot`, `LeaveGate` and `ResumeForPermit` are the turns of the
waiting loops; `Respond` chooses how the attempt ends and `Settle` is everything from there to the
next await: the bookkeeping, both releases of the `finally` block with the callers they wake, and the
decision of `Retry.run`. `Retried` is the next attempt, which does not ask the breaker. Time is
relative: `cooling`, `spacing` and `retryIn` are ticks left until the moments the code stores as
timestamps, so the state space is finite without a bound on the clock. `failures` and `successes`
saturate at the thresholds they are compared with.

What the attempt itself does is in `Attempts`, what it sends in `Transport`; cache and single flight
are in `CachedFetch`. Left out: `reset()` of the components, the length of delays.

### Transport, Fetcher, Http2Fetcher

`request` is what a caller asks: URL, config, policy and the options that matter, out of a set chosen
so that each option occurs with and without proxy, guard, body and secret headers. In `Fetcher` `hop`
is the promise of the hop under way, with its timers and its pin; a redirect settles it with the
promise of the next, so the hops of a call are one record and the trail of what was sent. While
`prepareRedirectHop` asks the guard nobody listens to the abort signal, which is a place of its own.
Timers have no clock: one that runs may fire at any time. In `Http2Fetcher` a redirect is awaited
inside the listener of `end` while the promise of the hop stays open, so hops are stacked in `frames`;
what the listener awaits may reject, nobody handles that, and the promise is left to its timer.
`Transport` asks the guard, chooses the protocol and falls back from HTTP/2 to HTTP/1.1. `sent` and
`sent2` record every hop with the config it went out with and the address it connected to.

### Attempts

`client[c]` is the place of a call's attempt and what the attempt took: identity, proxy, token.
`Attempt`, `Request` and the ways an attempt ends (`Succeeds`, `Fails`, `BlockedAttempt`,
`BlockReported`) are the lines of `_performRequest` between its awaits; `Refresh`, `Refreshed` and
`RefreshFails` are the one refresh all calls share. `blame` is a history variable: the attempts that
failed through a proxy since one succeeded.

### CachedFetch

A call of `_performRequest` is one job in `jobs`: `ServerAnswers` fixes the version of the content
it carries back, `Complete` lands it later, `Fail` ends it with an error. `Fetch` is the synchronous
part of `_fetch`: lookup with its effect on the LRU order, then a hit (with a refresh begun if it is
stale), joining a flight, or leading a new request. `Complete` contains `cache.set`, the `finally` of
the flight and the return of all its callers; those are consecutive microtasks and a caller that
arrives between them finds the entry in the cache. `setup` is the configuration, chosen once.

### Scheduler and Cron

`store` outlives `Crash`, everything else does not. Times are relative to now, at most `MaxLate` in
the past; beyond that only their order is kept. `TickOnce` is the whole of `tick()`: the due jobs in
their order, skipping those that run, launching while there is room, then `_arm`. It happens when the
timer is due (`TimerFires`, which is fair) or whenever the program calls it. `Finish` is the `then` of
a run with `_finish`. Runs of one job are told apart by a number none of its other runs has, where the
code has the identity of a promise. A crash between the two writes of a `JobStore` method is part of `Crash`.
`since` is a history variable for `SpacedApart`. The statistics of the record and of `stats()` are
left out: nothing reads them. In `Scheduler` a cron job falls due on a fixed grid; which minutes a
cron expression means is `Cron`'s question. `Cron` has no steps: its first states are the parsed
expressions and the fields to parse, and `NextTimesRight` compares the code's search, which leaps over
months, days and hours, with the definition of the first allowed minute.

### DistributedQueue

The methods of `MemoryAdapter` await nothing, so each is one step: `HandOut` and `ComeBackEmpty` are
the two ways `dequeue` ends, each with `_expireLeases` in front and with the entries it passes over
thrown away. `worker[w].pc` is the await a worker of `run()` stands at: a visit, the sleep between
polls, or the continuation after `complete`, where the result or the dead letter is recorded
(`Settle`, `Drop`). A visit may succeed, fail, outlast its lease or hang. The array the code sorts by
priority and time is one first-in first-out line per priority; when several leases run out between
two dequeues, the order in which they come back is left open. `succeeded`, `known` and `expired` are
history variables.

### CrawlQueue and Discover

`memory` is what `CrawlQueue` has in memory, `stateFile` what is on the disk, `loops[l]` the batch that
call `l` of `start()` is visiting: two, since `resume()` starts another while the paused one waits for
its batch. A visit goes through the robots rules, the page, and the check of its links against the
rules; `RobotsAnswered`, `PageRead` and `LinksChecked` are its continuations, `BatchEnds` the code
behind `Promise.allSettled` with the head of the next turn (`GoOn`). `Crash` may tear the file that is
being written. Pages, links and near duplicates are constants. `Discover` has no steps: every
robots.txt up to a bound, and every tree of sitemaps, is a first state.

### Flows, Sink, FileSink

`Sink` is the buffer: `flights` holds one record for every `flush()` that awaits the driver or its
retry delay; nothing keeps flushes apart, so there may be several. The driver stores a batch
(`StoreAll`, SQL) or its rows one by one (`StoreNext`, S3 with a key) and then answers; `Reject` and
`Abandon` are a failed call, which may have stored all, some or nothing. `closing` is `close()` up to
its await, `closed` the flag `_closed`. Rows are numbered in the order `write()` takes them; `copies`,
`table` and the two history variables say what became of them. `close()` is called once.

`FileSink` is what a file makes of batches: appended lines, which may break off behind or inside a
line, so that the next append is glued to half a line; or all rows in memory and a rewrite by rename.
`RestartFile` opens the file again, possibly with another configuration. `Flows` is the other side:
what batch, stream, export and crawl hand to a sink, what they do when a write throws, and when they
flush and close it.

### Snapshots, Watch, Webhook, Sessions

`Snapshots` follows calls of `extract()` for one page while the page changes: conditional headers are
read before the request, the validator is recorded when the answer is there, the data later, and a 304
is answered with what is recorded by then. `meddled` marks the calls that another one came between.
`Watch` is what one run after the other leaves in the window of the health monitor, in the snapshot of
the diff and in the counters; all of a run is one step, as in the code. `Webhook` is a delivery with
its attempts; the receiver may have got what the sender takes for failed. `Sessions` is the pool with
its jars; `jarLog` is a history of what was set and emptied, against which the cookies a request bears
are compared.

### Capture

`CdpSession` has the pending commands of several sessions: `command[c]` is the promise of caller `c`.
`Dispatch`, `CommandTimesOut`, `ClientCloses` and `CloseSession` settle it. `CdpCapture` is one task,
`at` its await, with the events of the page (requests, redirects, answers, sockets, load) arriving in
any order the protocol allows; a reaction to a settled command runs later than the events of the same
chunk of data. `Browser` has several calls that meet in `_opened` and `_lastSession`; opening takes
several awaits, and `close()` or the timer of a `goto` may come between them. `WebSocket` encodes and
decodes frames to the byte, with lengths scaled so that all three forms of a length occur in frames of
a few bytes. `CaptureProxy` is one exchange or tunnel per client with `start()` and `stop()`;
`NetworkCapture` the Playwright handlers that await headers and body, and the collection and HAR file
their entries go to.

## What is checked

| Run | Question | Bounds |
|---|---|---|
| `pipeline` (`Requests.cfg`) | *Admission*: do slots, permits, wake-ups, breaker and retries survive every interleaving? *Network*: do redirects keep to the policy, is an answer whole and an abort final, does a call settle as `Outcome` says? *Attempts*: is every failure of a proxy counted once, does one refresh serve all? Does all of it end? | 3 calls (one more than the slots, two more than the first permit), 1 retry, threshold 2, cooldown 2 ticks, Retry-After none or 3; 2 hosts and a proxy, 2 addresses each, one of them private, 2 redirects, 1 hop to another host, bodies of 2 chunks; 2 clients on one site, 2 identities, 2 proxies, a bar of 1 failure, 8 kinds of answers |
| `retry_at` | Does the breaker try again at `err.retryAt`? No. | as the admission above |
| `refreshed` | Does a request that is sent again after a refresh bear the new token? No. | as above |
| `cached_fetch` | Does every caller get the answer to its own request, and does everything begun end? | 2 callers, 2 URLs, 1 cache entry, ages fresh/stale/expired, 2 versions, flight map of 2 (without stale answers) and of 1 (with them) |
| `cached_post` | The same for two bodies under one URL. No. | as above |
| `scheduler` | Policy, wake-ups, store, spacing, starvation, stop; and the next time of a cron expression or an interval. | 2 jobs of different kinds, one place, period 2, one of the jobs managed at run time, 1 `runNow` or crash; a calendar of two and a half years of 4 to 5 days with a leap day, days of 2 by 2 minutes, all expressions over it, fields of up to 2 parts |
| `overlap` | One instance of a job, with `runNow`? No. | as above |
| `removed` | Does a removed job stay removed? No. | as above |
| `queue` | *Distributed*: is no item lost, held twice or ended twice, do workers leave only when there is nothing to have? *Crawl, Discover*: is every link followed or remembered, do rules and sitemaps say what they mean? *Flows, files*: does every row get where it belongs? *Snapshots, watch, webhook*: is what is said of a page true? *Sessions*: do cookies stay where they belong? Does all of it end? | 2 workers, 2 items, 2 priorities, 3 calls of `enqueue`, lease of 1 tick, 2 empty polls, 2 attempts, 1 hang; 4 pages, three of them the seed, with links among them, one forbidden, one near two others, batches of 2, 1 pause, 1 crash; robots.txt of 4 lines, 3 sitemaps to depth 2; 3 URLs in chunks of 2; files of 3 rows, 1 retry, 1 restart; windows, histories, versions and cookies of 2 to 4 |
| `sink` | Is every accepted row in one place, does the newest written row stand, does everything end? | 3 rows, 2 keys, batches of 2, 1 retry; with and without a key and a timer, stored at once or row by row |
| `close_strands` | Does `close()` leave an empty buffer? No. | as above |
| `capture` | Do commands settle as `Outcome` says and messages come as `Channel` says? Do entries tell of their own answers, do tasks, browsers and the proxy end and let go of what they opened? | a task of each kind on a page of one request with up to 3 hops and one socket; 2 callers of a browser, 3 calls, 2 sessions; rows of frames with fragments, control frames, all three lengths and one too large, in chunks of any size; 2 clients of the proxy; 2 requests under Playwright |

Why the bounds are enough to be interesting. In `pipeline` somebody is always parked in each queue
while somebody else holds, is woken and is overtaken, and the breaker opens on the failures of two
calls while a third is still out; two hops are enough to cross an origin, come back, and lose a body,
and both clients wait for one refresh. In `cached_fetch` one entry and two URLs make every store an
eviction, and the flight map overflows in one configuration. In `scheduler` one place and two jobs
make waiting, skipping and overtaking happen; handlers last any number of ticks. In `queue` two
workers are enough for a third hand-out: a late worker takes the lease from its successor and gets the
item again itself; the second loop of a crawl needs one pause, four pages let it find what the first one holds, and the file
that is torn needs a save before;
a chunk that is not full, a buffer that fills in the middle of a chunk and one that does not all occur
with three URLs. In `sink` three rows make an old batch meet a newer row of its key, and a row that
replaces a buffered one. In `capture` a third hop overtakes a body that is asked for, a full list turns
an entry away, and two callers open a browser at once while one of them closes it.

Where a bound ends a part (no more calls, pages or rows), the part stops; `CHECK_DEADLOCK FALSE` stands
in the configurations where all parts do.

Hazards and the properties aimed at them are listed in `PROJECT.json`. Some properties are
conjunctions, one conjunct per part of a run (`ExtractsTell`, `RowsKept`, `CrawlComplete`,
`EntriesAreTrue`, `LetsGo`, `EverythingEnds`, `EveryRequestEnds`, `QueuesEnd`); each conjunct is stated
with its comment in the module of its part.

### Refinement

`Outcome` is what a caller is promised: an answer is awaited while the connection is open and comes
once; closing fails what is awaited. `Channel` is a row of messages, delivered in order, each once.

| Property | Implementation | Mapping |
|---|---|---|
| `CallSettlesOnce` | `Transport` implements `Outcome` (`Calling`) | one caller, one network that is always open; its outcome is the promise of the first hop of the protocol in use, and pending where a fallback follows |
| `CommandsSettleOnce` | `CdpSession` implements `Outcome`, under tasks and browsers | connections are sessions, what was asked is the session a command was sent on, its outcome the state of the command |
| `MessagesInOrder` | `WebSocket` implements `Channel` (`Incoming`) | what was sent are the messages the frames make, over is a socket destroyed or a frame too large |

`Outcome` and `Channel` have fairness of their own, so these properties also say that a call, a command
and a message come to their ends.

### Fairness

Weak fairness is given to what the event loop or a timeout brings about: resolved promises run, expired
timers fire, a request ends (the fetcher bounds it with timeouts), a handler's promise settles, a
driver answers, a file opens, data that was sent arrives, a delivery is answered or times out. No
fairness is given to callers: nobody has to fetch, flush, add, pause or stop, and no fairness is assumed
between the callers that compete for a slot. A handler that never returns is excluded by the fairness
of `Finish`; with one, its job is never run again, and that is the code's behaviour.

Strong fairness occurs three times, where the model has a loop whose end it does not count: a wait for a
selector polls until its deadline has passed (`SelectorMissing` in `CdpCapture`, `PollDeadline` in
`Browser`), and `open()` of a browser sends a fixed row of commands of which the model does not say how
many (`OpenReturns` against `PrepareNext`). The deadline passes and the row has an end in the code; weak
fairness would let the test come at the wrong moment for ever.

**Liveness** (`EveryRequestEnds`, `FetchesEnd`, `JobsGoOn`, `QueuesEnd`, `RowsSettle`,
`EverythingEnds`) is only model-checked.

## What is proved

TLAPS proves what follows for every value of the constants that satisfies the assumptions named in the
modules (`BreakerAssumption`, `FetcherAssumption`, ...): any number of calls, hosts, jobs, rows and
identities, any limits, any graph of redirects. An assumption says what kind of value a constant is and
keeps distinct what the code can tell apart (no address is `None`, no key is the missing one). Two also
say what comes from outside: `WebSocketAssumption` that a server's script is `Lawful` (RFC 6455) and that
nothing is sent which is larger than the other end takes, `CronAssumption` that a month of the calendar
begins with its first day and that a star allows every day. `DiscoverAssumption` says that there are
finitely many sitemaps and tells entries apart by the sitemap and the place they stand at. Bounds of the models, such as `MaxRows` or `MaxUpsets`, are any number.

| Module | Theorem | States |
|---|---|---|
| `RequestsProofs` | `TypeCorrect` | `Spec => []TypeOK` |
| | `SlotsAlwaysAccounted` | `Spec => []SlotsAccounted` |
| | `NobodyEverStranded` | `Spec => []NobodyStranded` |
| | `BreakerAlwaysConsistent` | `Spec => []BreakerConsistent` |
| | `CooldownIsRespected` | `Spec => AdmissionRespectsCooldown` |
| | `CutBackHolds` | `Spec => ThrottleCutBackHolds` |
| | `TypesAlwaysOK` | `RequestsSpec => []TypesOK` |
| | `TransportAlwaysHonest` | `RequestsSpec => []TransportHonest` |
| | `AttemptsAlwaysAccounted` | `RequestsSpec => []AttemptsAccounted` |
| | `CallsFollowOutcome` | `RequestsSpec => Calling!Init /\ [][Calling!Next]_(Calling!vars)` |
| | `SettledForGood` | `RequestsSpec => [][StaysSettled]_transportVars` |
| `CachedFetchProofs` | `FlightsAlwaysSound` | `Spec => []FlightsSound` |
| | `RefreshAlwaysExclusive` | `Spec => []RefreshExclusive` |
| | `EverybodyGetsTheirOwn` | `UrlTellsRequest` implies `Spec => []AnswersItsOwnRequest` |
| | `CacheNeverOvertaken` | `UrlTellsRequest` implies `Spec => CacheNeverGoesBack` |
| `SchedulerProofs` | `StoreSurvives` | `Spec => []StateSound` |
| | `TimerNeverLate` | `Spec => []NeverOversleeps` |
| | `StopNeverForgets` | `Spec => []StopSeesEveryRun` |
| | `OverlapPolicy` | `Spec => []TimerPolicy` |
| | `NoBursts` | `Spec => SpacedApart` |
| | `TimesAreRight` | `SchedulerSpec => []NextTimesRight` |
| `SinkProofs` | `RowsAreAccountedFor` | `Spec => []RowsSound` |
| | `NewestRowWins` | `Spec => []NewestWins` |
| `CrawlProofs` | `CrawlForgetsNothing` | `CrawlInit /\ [][CrawlNext]_crawlVars => []CrawlKeeps` |
| | `DiscoverFindsAll` | `DiscoverInit /\ [][FALSE]_discoverVars => []FindsWhatIsPublished` |
| `QueueProofs` | `TypesOfQueue` | `Spec => []TypeOK` |
| | `NoItemIsLost` | `Spec => []NothingLost` |
| | `OneHolderAndOneEnd` | `Spec => []OneHolder` |
| | `EmptyPollsAreHonest` | `Spec => EmptyMeansBusy` |
| | `SessionsStayApart` | `SessionsInit /\ [][SessionsNext]_sessionVars => []SessionsApart` |
| | `SnapshotsAlwaysVouch` | `SnapInit /\ [][SnapNext]_snapVars => []SnapshotsVouch` |
| | `WatchAlwaysTells` | `WatchInit /\ [][WatchNext]_watchVars => []WatchTells` |
| | `DeliveriesAlwaysTold` | `WebhookInit /\ [][WebhookNext]_webhookVars => []DeliveriesTold` |
| | `FlowsAlwaysKeep` | `FlowInit /\ [][FlowNext]_flowVars => []FlowKeeps` |
| | `FilesAlwaysKeep` | `FileInit /\ [][FileNext]_fileVars => []FileKeepsRows` |
| | `ExtractsAlwaysTell` | `QueueSpec => []ExtractsTell` |
| | `RowsAlwaysKept` | `QueueSpec => []RowsKept` |
| | `CrawlsAndSessionsKeep` | `QueueSpec => [](CrawlKeeps /\ SessionsApart)` |
| | `CrawlsAreComplete` | `QueueSpec => []CrawlComplete` |
| `CaptureProofs` | `EntriesAlwaysTrue` | `Spec => []EntriesAreTrue` |
| | `AlwaysLetsGo` | `Spec => []LetsGo` |
| | `AlwaysCapturedOnce` | `Spec => []CapturedOnce` |
| | `CommandsFollowOutcome` | `Spec => Commands!Init /\ [][Commands!Next]_(Commands!vars)` |
| | `AlwaysDecodes` | `Spec => []WritesDecode` |
| | `MessagesFollowChannel` | `Spec => Incoming!Init /\ [][Incoming!Deliver \/ Incoming!Stop]_(Incoming!vars)` |

Each module proves `Spec => []IInv` first (`Invariance`, in `RequestsProofs` also `RequestsInvariance`, in
`CaptureProofs` `CaptureInvariance` and `SocketInvariance`) and draws the theorems from it. The theorems are about the machine itself, `Spec` or its first
state and next step; the parts of a composed run follow it step by step (`InPipeline /\ Next`,
`Distributed /\ Next`, and so on). Those of `RequestsProofs` on attempts and transport and those of `CaptureProofs` are about the
composition, `RequestsSpec` and `Spec` of `CaptureMC`. In `CrawlProofs` and `QueueProofs` the machines come first, each with
an invariant of its own; `PartsStep` (a step of the whole is, of each part, a step of its own or none)
carries their theorems over to `QueueSpec`.

**`RequestPipeline`.** `IInv` is the conjunction of the four invariants. None of the two about waiting is
inductive alone: that a release wakes somebody who is really parked needs the queue to list exactly the
parked calls, and that no free slot is forgotten needs the counter to be the number of holders, which in
turn needs a woken call not to be in the queue any more. The proof goes bottom up: what a method of each
component does to its record (`BreakerMethods`, `LimiterMethods`, `ThrottleMethods`), what joining and
leaving a queue does to its elements (`Enqueue`, `Dequeue`), how moving one call changes the sets that
are counted (`Counting`, `OneMoves`), then one turn of each waiting loop (`SlotTurn`, `PermitTurn`) and
the end of an attempt (`AttemptEnds`), which moves up to three calls at once. The two action properties
need the invariant in the state the step leaves: that a call which is admitted found the breaker closed
or cooled down, and that a permit was handed out below the limit of that moment.

**`Attempts`.** A proxy's failure counter is the number of attempts it is blamed for. For a step to add
one to both, the attempt must not be blamed already: `BlameIsPast` says that whoever is blamed is an
earlier attempt of its call, or the last one of a call that was rejected. `BegunHasBoth` gives every call that has begun the
proxy it will report on.

**`Transport`.** `TransportIInv` keeps apart what is counted and what is there. What makes limits hold is
not that a counter is bounded but that it counts the hops: `Crossings`, taken over the whole trail of what
was sent and where the call is going next, never exceeds the counter the code keeps (`HopSound`,
`StackSound`; lemmas `ChangesCounted`, `ChangesOfUrls`). A secret header or a body that a hop bears is
traced back over all hops before it (`MayCarry` with `Home`; `Carried` for `PrepareRedirectHop`), and a
pin to the verdict of the guard for the very host (`Pinned`; `VerdictPins`). Over HTTP/2 the open hops are a
stack of which only the top can stream, redirect or wait for the guard; `Settling` shows that settling one
of them, with all that await it, touches no promise that was settled before, and `FirstKept` that the
caller's stays what it was. `FallBackSound` keeps for the fallback the URL and the pin the call began with;
`AbortSound` says that an abort leaves nobody listening, which is why no answer comes after it.

**Refinement.** `OutcomeStep` maps every step of a call to a step of `Outcome` or to none: asking, settling
once, nothing else. `CallSettlesOnce` is this with the fairness of `Outcome`, which only TLC checks.
`SettledForGood` adds what `Outcome` leaves open, as a caller of it may ask again.

**`CachedFetch`.** `IInv` says who is at work for whom: a leader has one job, a follower a leader that
asked for the same (`LeadersWork`, `FollowersFollow`), the map holds no flight that has landed
(`MapIsTrue`), marked keys and refreshes pair up (`RefreshesPaired`), and what lies under a key answers a
request of that key (`CacheIsTrue`). The last two theorems assume `UrlTellsRequest`, that a URL stands for
one request, as for GET; without it they are false, which is the finding of `cached_post`. That the cache
never goes back needs `OutIsNotCached`: without stale answers nothing is cached for a key that is being
asked for, so a landing answer has nothing newer to replace.

**`Scheduler`.** `RunningIsTrue` (without `runNow()` the entries of `_running` are the runs) gives
`TimerPolicy`, but is kept only because `tick()` takes no more due jobs than there is room for, a counting
argument about their order (`RoomSuffices`). `SpacedApart` needs to know of a job that runs how old its run
is (`AgesTell`) and of one that does not when it may come due (`NextWaits`), as the next slot is computed
from the start of a run at its end. `StoreSound` in `StateSound` is kept by each half of a save, so a crash
may come between them (`Saving`, `Writing`, `Erasing`).

**`Sink`.** What `write()` makes of the buffer is a recursion over the rows of the call; `BufferSound` is
what each push keeps (`PushSound`, `PushedSound`). `FlightSound` says what a flush has stored so far, `WaitingIsNewest` that
rows leave the buffer in the order they came, and `InOneFlight` that, under a key that was never in two
batches at once, a batch under way holds the newest row of it; with them an older row is never stored over a
newer one, whatever is retried, stored in part or given up.

**`DistributedQueue`.** `OneHolder` is not inductive: that a dequeue gives an item to nobody else's harm needs
every holder of an item whose lease never ran out to have the lease (`Leasing`), which in turn needs that
nobody else can take the lease away, that is, `OneHolder`. And a completed item is recorded once because a
leased item is never done. `HandOutFacts` and `EmptyFacts` say what a dequeue does to the lines,
`HandOutHolds`, `EndHolds` and `RecordHolds` who holds and records what after a step.

**`CrawlQueue`.** The proof found what the bounds of an earlier version of the run had hidden: with two loops
on one state a page may return fewer links than it has because a visit of the other loop has seen them, and
then they are in no saved state until that visit ends. So what a visit holds (`Held`) is its URL and the
links it returns, and `CrawlIInv` says of everything that counts as seen that it is visited, queued, held or
lost (`SeenKept`), of a page that was read that all its links are (`ReadKept`), of the file that it knows
what its results link to but for what it misses (`FileKept`), and of a paused crawl that its file is what it
has in memory (`PausedIsSaved`), which is why `resume()` over a batch under way loses nothing. What a batch and its end make of the queue are recursive
functions; `Recursion` gives their equations, `ThoseFacts`, `CollectedFacts` and `ShiftFacts` what they
keep.

**`Discover`.** The reference definitions look at the whole text and at all paths, the code goes on line by
line and sitemap by sitemap, so each half is an induction along the code's way. Of `robots.txt`,
`ReadSoFar` holds after every line: the last group is for the agents a rule on the next line would be
for, it has no rule yet exactly while none of them was followed by one (`Unruled`, `Ruled`), and the
groups that name an agent have together the rules meant for it. With one such group `selectGroup()` takes that
one, and the longest of its matches, which exists because there are finitely many, decides as the
reference does (`LongestDecides`). Of the sitemaps, `WalkHolds` says: what is ahead was come to within
its depth; what was found is a row per sitemap visited, whole while there is room, and each place
once; the root and what it lists are visited or ahead; and the steps that are left suffice
for what is ahead and for all that the sitemaps not yet visited could put there (`InTime`), so the walk ends. The last is
why a tree with cycles, where a sitemap is queued more often than visited, is walked to its end.

**`Sessions`.** A bucket of a jar must hold cookies that stand in the log, and all that stand and have not
expired (`BucketTold` for one bucket, `JarsTold`): what a request drops as expired is outlived for good,
since days only pass. For the turns, the order in which a round robin comes to the sessions next (`Before`)
orders how often they had their turn, to within one (`InTurn`, which needs how a remainder goes on:
`NextRemainder`); by least use the turns are the use counts (`ByCount`).

**`Snapshots`.** What a call may say at its end depends on what it knew on the way: `CallKnows` has, for each
place of a call, that its answer is no older than its question, that a 304 vouches for the validator the
call sent, and that this is still the validator of the entry unless the call is `meddled` with. Recording
a version, by whichever call, keeps what all others know (`RecordedKeeps`, `MovesKeep`).

**`Watch`.** From the changes told of two runs a reader can build the second from the first (`DiffTells`, with
`ObjectChangesTell` and `ArrayChangesTell`: that the changes of each type are one at most, so that what is
chosen among them is that one). The window of a field is the sequence of the last runs that looked for it
(`WindowsTold`, `WindowGrows`, `WindowGoesOn`); the alerts are computed from the window, the property speaks of the
runs, and `WindowIsLately` takes one to the other by counting. That a reported drop has a higher count before it
is an argument about a sum of naturals (`TotalBound`, `DropsAreDrops`).

**`Webhook`.** For each place of a delivery, `DeliveryTold` says how often it was posted, how often it may have
arrived and which results are kept; a step of one delivery leaves what is told of the others as it was
(`GoingKeepsOthers`).

**`Flows`.** A row is counted (`RowsCounted`): how often the sinks had it and how often it is still due are,
together, once for a row that was read, and twice when an export has handed it over again. The count is
kept by a write that is stored, given up or turned away, as moving rows from one sequence to another does
not change how often they are in both (`TimesFacts`, `Written`, `Finished`). `PhasesFit`, `SinksFit` and
`PausesFit` say in which phases something can be due, buffered, closed or rejected at all.

**`FileSink`.** A row counted as written need not stay in the file: another may stand for it (`StandsFor`),
which is the same or a newer one of its key, or an older one if batches with that key passed each other. That is
transitive, and it is what a merge and a rewrite keep (`MergedUpTo`, `MergedRows`): for it, a batch that waits
must know that every newer row of its keys which is not of the batch has passed it (`Given`). Appending
keeps lines, but for the one an earlier append broke off in, so the row that stands for another must be in a
line that nothing can be joined to (`Firm`): a first version of the invariant without that was not inductive.
`AppendedShape` says what an append makes of the file, `InMemory` that the rows in memory lack nothing of it.

**The capture.** `CaptureIInv` is one invariant for each part, which a step of another part leaves alone
(`TaskStays`, `BrowserStays` and the like). For the recording proxy, `Matches` says at each phase how an
exchange, what its client has got and its entry go together. For Playwright, `Tracked` says of each request
which of waiting, being read and recorded it is; that a pull adds no entry twice is an argument about the
recursive function in `Add` (`AddFacts`). For a task, `EntriesSound` says of the list of entries and the map
by request id: the last entry of a request is of the hop the page is in, and every entry that is not the
last was redirected, unless a hop found the list full. That is why a late status or body falls on the entry
of its own hop, and it is kept by every event through `Alike`: a handler makes of an entry one of the same
request and hop. `TaskPlace` knows that a command is awaited only where one was asked for and that only a
task that never connected, or was abandoned, has no session to close. For a browser, `SessionsKnown` says
whose each open session is: in use, being made by a call, or lost. The methods of a session are steps of
`Outcome` (`SendAsks`, `ReplySettles`, `AbortCloses`, `ConnectedOpens`, `CloseEnds`), so
`CommandsFollowOutcome` follows from the same invariant, for tasks and browsers at once.

**`WebSocket`.** `SocketIInv` says where in its script the client stands: after some `k` of the frames, the
bytes it holds and those under way, put together, are the encoding of the rest (`Stands`), and the
fragments and messages are what the first `k` come to (`Follows`). Three chains of lemmas carry it. *Bytes*:
what `encodeFrame` writes (`EncodeSpells`) is what `FirstFrame` reads back, with each of the three forms of
a length, masked or not (`FirstFrameReads`), and a buffer that holds less of it is found to be `partial`,
never something else. *Buffers*: `DecodeFrames` of any beginning of an encoding gives the whole frames in
it and keeps the bytes of the next (`DecodeReads`), so it does not matter how the bytes are cut into chunks;
that a frame which was too large stays so whatever comes after it is `OversizeStays`. *Messages*: the loop over the
frames does to the fragments what the definition of `Messages` says (`FollowsOn`, `LoopFollows`), which
needs that a script is `Lawful`: no continuation comes behind the last fragment of a message and nothing
behind a CLOSE, the two rules of the protocol (RFC 6455) that the client relies on without checking.
`WrittenDecodes` is `DecodeReads` for what the client wrote itself.

**`Cron`.** `Cron` has no steps, so the work is one lemma: the search, which leaps over months, days and
hours, finds the first minute that is allowed (`SearchFinds`). It is an induction on the distance to the
limit, as a recursive function is what it is only once some function is known to satisfy its equation
(here the one that gives the first allowed minute, `First`). Its step is `LeapsAreSafe`: what a leap passes
over has the month, the day or the hour that was not allowed. For the month that is where the calendar comes in
(`MonthStays`), for day and hour it is division with remainder (`SameBlock`, `HourIs`), of which the provers
know less than one would think: `Divided` and `DividedOnce` state it. `FieldIs` says what parts mean, `SlotIs`
that an interval goes on at the first slot after now, for any base, period and time.

**What stays with TLC.** Liveness (`EveryRequestEnds`, `FetchesEnd`, `JobsGoOn`, `QueuesEnd`, `RowsSettle`,
`EverythingEnds`), and with it the fairness of the refinements. Induction is possible in one form: a set
of numbers that holds 0 and with each number the next holds them all (`AllNumbers`, from the least
element of a set). It suffices for recursive functions such as the search of `Cron`, the walks of `Discover` and the
ones in `PushedAll`, `Collected`, `Merged` and `Add`. `SelectSeq` of the standard module cannot
be expanded by the provers; `Those` in `CrawlQueue` and `InOrder` in `Flows` do the same.

## What the checks found

| Run | Finding |
|---|---|
| `retry_at` | A caller that returns at `err.retryAt` is refused again if a call admitted earlier has failed meanwhile: a failure restarts the cooldown of a breaker that is already open, and retries do not ask it. README: "`err.retryAt` says when it will try again". |
| `refreshed` | A request refused with a 401 is sent again, after the token was refreshed, with the headers built before, and so with the old token. README: "on 401: AuthManager.refresh(), then retry once". |
| `cached_post` | The cache key ignores the body: a POST is answered with the cached response to another body at the same URL. |
| `overlap` | `runNow()` starts a second instance of a running job. README: "one instance of a job at a time". |
| `removed` | A job removed while it runs is written back to the store when it finishes. README: "Drop the record and its handler". |
| `close_strands` | A row written while `close()` waits for its flush is accepted and never flushed. README: "`close()` flushes what is left". |

Some of what the code does is said in a property as an exception rather than in a finding, since no
document says otherwise. The properties hold with these exceptions and fail without them:

- A crawl forgets what visits held when the state was saved which it later loads (`lost` in `CrawlKeeps`):
  the URLs of the batch, and links on their way back from it, those too that a page whose result is in the
  file did not return because a visit under way had seen them before.
- The sink a crawl made for itself is closed at its first end; rows of the resumed crawl are turned
  away (`turnedAway` in `FlowKeeps`). An export of URLs hands its rows to two sinks, or to one twice.
- An append that breaks off in a line makes the rows of the next batch unreadable, although they count
  as written (`Glued` in `FileKeepsRows`); batches with one key that pass each other leave the older row.
- A 304 to a validator whose data were not recorded is answered with what an empty body gives (`Blank`
  in `SnapshotsVouch`).
- `open()` of a `CdpCapture` that fails after it connected leaves its session and its target; of two
  openings of a `Browser` at once one session is lost (`lost` in `ClosedBrowserLetsGo`).
- A hop of a request that finds the list of entries full lets later events fall on the entry of the hop
  before; the body of a redirected entry may be that of a later hop (`EntryBearsItsOwnAnswer`).
- `stop()` of the recording proxy waits for its connections to be gone before it destroys them.
- A cookie that is deleted with the first date there is, is kept for good (`CookieJar.js:31`); with
  `least-used` and `recycleAfter` the recycled session is handed out again and again while others
  starve (`SessionPool.js:31`).
- `0-7` as a weekday is Sunday alone; ranges and steps from `7` start over on Sunday (`cron.js:18`).

## Not modelled

| Part | Why |
|---|---|
| Storage backends (`storage.js`, `SqliteStorage.js`) | One file per key, replaced by a rename, which `JobStore` and `Cache` use as an atomic map. What keys share a file name is a matter of text. The disk cache differs from the memory cache in nothing but where the map is. |
| Extraction, inference, forms, pagination; JSON path; content utilities | Pure functions over text and trees; no state and no order of events. |
| Capture analysis and code generation | Text made of recorded entries. |
| GraphQL client | A POST by `fetch`; what the cache does to its requests is in `CachedFetch`. |
| Interceptors and plugins | Callbacks awaited one after the other; one that throws is a failed attempt or extraction in `Attempts` and `Snapshots`. |
| Doctor, HAR recorder, progress bar, logger, exporter, `bin/`, `scripts/`, `docs/` | Reporting and output. |

Left out of components that are modelled:

- `reset()` and `clear()` of components that have waiters. Three things were seen in reading that no
  property is about: `AdaptiveThrottle.reset(hostname)` strands the callers in its list
  (`AdaptiveThrottle.js:97`); `SingleFlight.clear()` during a flight lets the old flight delete the key
  of a newer one (`SingleFlight.js:53`); and in the half-open state of the breaker any number of
  concurrent probes is admitted, since attempts are only counted when they fail
  (`CircuitBreaker.js:43`), which `RequestPipeline` does model and nothing forbids.
- The statistics of the scheduler. A run that was served late counts as skipped (`Scheduler.js:159`),
  and a one-shot job that was missed without `catchUp` runs all the same (`Scheduler.js:125`).
- The session map of HTTP/2: in `Http2Fetcher` a session may be missing or fail at any time.
- The opening handshake of the WebSocket client, screenshots, PDF and the `/json` endpoints of a
  browser, filters of a capture: one request, or a function of a list.
- Queue adapters the program brings along, several queues on one adapter, `size()`.
- Formats other than JSON Lines in `FileSink`; `MemorySink`, which is an array.

## Plan

Done: all of the machines above, and proofs about each of them. Every property of a run that is not about
liveness is a theorem. What would come next is more of the code: the storage backends behind `JobStore`
and `FileSink`, and the pages and formats that `Flows` leaves out.

## How to run

    tlc -workers 2 -config Requests.cfg RequestsMC.tla
    tlc -workers 2 -config CachedFetch.cfg CachedFetchMC.tla
    tlc -workers 2 -config Scheduler.cfg SchedulerMC.tla
    tlc -workers 2 -config Queue.cfg QueueMC.tla
    tlc -workers 2 -config Sink.cfg Sink.tla
    tlc -workers 2 -config Capture.cfg CaptureMC.tla
    tlapm RequestsProofs.tla
    tlapm CachedFetchProofs.tla
    tlapm SchedulerProofs.tla
    tlapm SinkProofs.tla
    tlapm CrawlProofs.tla
    tlapm QueueProofs.tla
    tlapm CaptureProofs.tla

Each takes between one and three minutes, `QueueProofs` and `CaptureProofs` up to ten. The runs `retry_at` (`RetryAt.cfg`, `RequestPipeline.tla`),
`refreshed` (`Refreshed.cfg`, `RequestsMC.tla`), `cached_post` (`CachedPost.cfg`, `CachedFetchMC.tla`),
`overlap` and `removed` (`Overlap.cfg` and `Removed.cfg`, `SchedulerMC.tla`) and `close_strands`
(`CloseStrands.cfg`, `Sink.tla`) end with a counterexample, which is their result.
