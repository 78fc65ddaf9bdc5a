# TLA+ models and proofs of entropy-service

Two Go programs: `entropy-server` serves random bytes over HTTP, WebSocket and
browser pages from one reseeded generator; `entropy-client` pulls or streams
them and watches their statistics. This directory holds models of their
concurrent core, TLC configurations for small instances, and TLAPS proofs for
all instances.

Paths are relative to `src/`; `ES` is `cmd/entropy-server`, `EC` is
`cmd/entropy-client`. `PROJECT.json` maps every definition to its lines.

## 1. The system

| Component | State | Operations | Interacts with |
|---|---|---|---|
| Generator, `ES/internal/drbg/drbg.go` | key, cipher position (`generated`), `closed`, reseed times, last error, `reseedEpoch` (atomic) | construct, Read, Reseed, RecordReseedFailure, Close, GetMetadata | everything that serves bytes; one root, one child per connection or request |
| Connection reader, `ES/internal/drbg/connection.go` | private child, epoch of its seed, `closed` | Read (refreshing the child), Close | takes seeds from the root under the root's mutex |
| Instance counters, `drbg.go:83` | `activeDRBG`, `peakDRBG` (atomics) | constructor, Close | metrics export reads them without a lock |
| Admission, `ES/http_budget.go`, `ES/ws_budget.go` | active, reserved, peaks, rejections (one mutex each) | admit, release | every generating handler |
| Reseed loop, `entropy-server.go:292` | one goroutine, a ticker, one buffer | tick, read, reseed or record failure | source device, root, main's context |
| Readiness, `ES/observability.go` | none (a snapshot of the root) | probe | operators, load balancers |
| Lifecycle, `ES/lifecycle.go`, `main` | `stopping`, WaitGroup, contexts | Shutdown, handler entry and exit, `websocketContext` | net/http, gorilla/websocket, all handlers |
| Handlers, `entropy-server.go`, `http_stream.go` | a child or a reader, a ticker, the connection | stream chunks, send frames | admission, lifecycle, generators |
| Upload analysis, `ES/upload.go` | result under construction, read deadline | read, count, interrupt | admission, context |
| Sounds and pictures, `ES/sound.go`, image and QR handlers | two slots for sounds | render | root, admission |
| Preferences and parameters, `entropy-server.go:98-257` | a cookie in the browser | parse, fall back to a default, remember | byte and word routes |
| Request log, `ES/request_logging.go` | status of one response | header, write, flush, hijack | every handler |
| Activity peaks, `ES/activity_peaks.go` | previous counters, peaks | sample, snapshot | counters, budgets |
| Source selection, CPU mixing, `ES/entropy_source.go`, `ES/internal/rdrand` | the opened source, one seed buffer | open with fallback, mix, read a seed | root, reseed loop |
| Client stream, `EC/internal/client/websockets.go`, `websocket_dial.go`, `stream_buffer.go` | `out` (one frame), `pool` (three buffers), leases, who watches the context | dial, read message, queue, release | server, monitor, sampler |
| Client monitor and pulls, `EC/monitor.go`, `EC/entropy-client.go` | frames, one buffered failure | sample, diagnose, pull, observe | client stream, HTTP, signals |
| Meters and statistics, `EC/internal/diag`, `stats` | counters, histograms | update, reset, render | monitor |
| Byte and colour pages, `ES/web/entropy-display*.js` | worker: socket, pending frame, paint credit; page: notice, animation frame | messages, animation frames, page events | `/bytes`, `/colors` |
| Stream page, `ES/web/stream-analysis.js` | queued, posted and pending frame, counters, notice | messages, analysis, animation frames | `/stream`, analysis worker |
| Status page, `ES/web/status-*.js` | timer, running cycle, history of samples | poll, update, change interval | `/live`, `/ready`, `/metrics-2` |
| Gallery, `ES/web/gallery.js` | timer, batch, object URLs | refresh, page events | image and word routes |

What is hard in it:

- *Keystream ownership.* Clients' private streams, /random and the reseed loop
  share one root. No byte may serve twice, and a connection must not go on
  with a stream seeded before the last reseed.
- *Lock-free counters* beside mutex-protected ones.
- *Shutdown.* net/http does not know hijacked connections; their handlers block
  in reads, writes and joins, while a deadline runs.
- *A source that fails or blocks*, seen only through readiness.
- *Budgets* whose inputs are as large as an `int`.
- *Buffer reuse* between two goroutines of the client, with idempotent release.
- *Pages*: sockets, workers, timers, animation frames and the visitor report in
  any order, and a page may be left and restored while all of them are busy.
- *What outlives a server*: a cookie with choices another server allowed.
- *Numbers shown to operators* (meters, peaks, logged statuses), taken from
  calls and counters that come in any order.
- *Partial reads* of seeds and uploads, where an error may come with data.

Each component's correctness conditions are the properties listed in section 3;
`PROJECT.json` lists each hazard at its line, the one no run covers included.

## 2. Modules

| Module | Models | Composes / refines |
|---|---|---|
| `HighWaterMark` | abstract: a count and its high-water mark | |
| `InstanceCount` | the atomics of `drbg.go`, constructors, Close | implements `HighWaterMark` |
| `InstanceScrape` | one metrics request beside `InstanceCount` | extends it |
| `Drbg` | one generator as a value: budget, reseed, close | |
| `FreshStreams` | abstract: freshness of what a connection is served | |
| `ConnectionStreams` | root, connection readers, per-request children, raw reads, reseeds, closing | uses `Drbg` and `HighWaterMark`, implements `FreshStreams` |
| `MemoryPool` | abstract: clients and the memory they really cost | |
| `Budget` | both admission budgets with wrapping integers | implements `MemoryPool` |
| `Reseeding` | `reseedLoop`, its ticker, the source, readiness | |
| `ReseedTiming` | the same loop in time, on a machine that keeps up | extends `Reseeding` |
| `Shutdown` | main, `managedServer`, HTTP and WebSocket handlers, their reader and AfterFunc goroutines | |
| `RequestLog` | `statusWriter` and the line the log gets of a response | |
| `Rendering` | sounds and their slots, pictures | |
| `ActivityPeaks` | the sampler of counters and the peaks it keeps | |
| `Preferences` | parameters, defaults and the cookie, over restarts | |
| `Serving` | what an HTTP request meets on its way | composes `Budget` and the four modules above |
| `ClientStream` | `dialWebSocket`, `StreamEntropy` and its consumers | |
| `Meter` | the client's rate meter and the monitor's own counts | |
| `Statistics` | `StreamTester` with its callers, sums of `RunDiagnostics` | |
| `PullClient` | the client in pull mode, from main to exit | |
| `Upload` | file analysis and the function that interrupts its reads | |
| `SeedSource` | source selection, CPU mixing, reading of seeds | |
| `Display` | byte and colour pages with their workers and sockets | |
| `StreamPage` | the live stream page with its worker and socket | |
| `StatusPage` | polling and the history rates are computed from | |
| `Gallery` | batches of images and their object URLs | |
| `Client` | the client program in either mode | composes `PullClient`, `ClientStream`, `Meter` and `Statistics` |
| `Web` | the parts of the web interface, one at a time | composes `Display`, `StatusPage`, `Gallery` and `Upload` |
| `*Proofs` | theorems and proofs about the module they name, and about the parts of a composition; `ReseedingProofs` also about `ReseedTiming`, `GeneratorProofs` about `InstanceCount` and `SeedSource` | |
| `MC*` | instances for TLC | |

Conventions. A step is one critical section, one atomic or one channel
operation; everything the code does without giving up exclusive access is in
the same step. Variables keep the source's names where they exist. Variables marked *history* exist
for properties only. Definitions commented *Mutant* are wrong versions of the
definition after them: a run that checks a property fails when they take its
place, which shows that the property is sensitive to that code.

**ConnectionStreams.** A root key is the number of reseeds before it; a
stretch of keystream (`Draw`) is that number, a position and a length; a
private key *is* the stretch it was seeded from. `pc` follows a reader through
`Read`: `seed` (has decided to refresh, has not got the root's mutex), `build`
and `settle` (the constructor between its atomics) or `rekey`, then `emit`.
Between any two of them the root may be reseeded or closed. `Close` needs the
reader's own mutex, so it only happens at `idle`. Chunks of a request hold its
child's mutex only, so they are single steps. SHA-512 and the ciphers are
taken as injective, `newCipherStream` as never failing on valid key sizes.

Its counters are the abstract ones: `live` is a set, so `EveryGeneratorIsCounted`
finds a generator that is never released, while releasing one twice is a
question to `InstanceCount`, where the count is the integer of the code.

**Budget.** The two budgets run the same critical section over their own
fields; one module covers both, `Factors` containing the byte, JSON and word
factors. Arithmetic wraps at `MaxInt` (four bits in the run, any width in the
proofs). `cost` keeps the true cost. `Clients` are handlers running at a time.

**RequestLog.** One response, whose handler calls the writer's methods in any
order. `sent` is what net/http tells the client (external); `broken` marks
clients that may have been told nothing, of whom the property says nothing.

**Rendering.** `doing` follows a handler; a pass over the samples is a step
per block of 1024, each preceded by a look at the request's context. What is
drawn and played is left out.

**ActivityPeaks.** Counters are read one by one while handlers increase them;
rates are fractions, compared by cross-multiplication. The clock may stand
still: two readings within its resolution are what `seconds <= 0` is for.

**Preferences.** Every query is a choice of no, one or two values for each of
three names; 0 is any text the parser refuses. Routes differ in what they make
of several values or a bad one: most refuse, two of them take the first refresh
if it will do (`LenientRefresh`). `chosen` remembers what the
visitor asked for as long as every server since could serve it. A server that
could not forgets it when it sets the cookie, and so does the visitor's day.

**Reseeding.** `N` generators although main passes one: the loop is written
for several, and `Failed` marks those whose turn had not come. `epoch` keeps
its parity, enough to see every change. The source may change its behaviour at
any moment. A read that blocks is not interrupted, as the code says.
`RecordReseedFailure` for several generators is one step, and so is the
check of the context before it.

**Shutdown.** A `Download` stands for an HTTP handler that streams, a `Socket`
for a WebSocket handler; each is a slot that serves any number of requests in
turn. net/http is modelled from its use: `Arrive`, `Tracked` and the effect of
`Close` are external. A write to a client may block for ever. Budgets are left
to their own module: here admission succeeds or refuses. Server timeouts are part of `ChunkLost` and
`FrameLost`, to which no fairness is given.

**ClientStream.** A buffer's content is the number of the message in it,
0 while it is half filled. `copy` is a copy of a released frame that somebody
still holds and releases again. Buffers nobody refers to are garbage and may
be allocated again under the same name. The consumer stands for `runMonitor`
and `sampleEntropy`, which share their shutdown; endpoints without a byte
count use no pool and are left out: `run` puts one into every address.
`watch` tells who closes the connection when the context is done: first
`dialWebSocket`, then nobody for a moment, then `StreamEntropy`. What happens
in that moment is why `StreamEnds` needs both the check before each read and
an `AfterFunc` that runs at once when the context is done already.

**Meter.** `run` reads a stream for its sample and another one for the
monitor; the producers of both report to one meter, which is reset in between.
`hand` is a frame that was reported and not yet queued. Whether a second has
passed since the last window, and whether a frame is due for analysis, are
choices.

**Statistics.** The testers' `float64` sums of integers are integers: they are
exact below 2^53, that is for any stream of less than 128 GiB. The mean of
`RunDiagnostics` is a fraction, so both sides of the comparison are taken as
many times as its denominator says. `LiveAgreesWithDiagnostics` states what
the one-pass formula leaves out instead of calling it close.

**PullClient.** `main` follows the main goroutine through `run` and
`runMonitor`, `puller` is where `pullFrames` is. A `select` with several ready
cases takes any of them. A frame is its number.

**Upload.** One connection, so that what one request leaves behind (the read
deadline) meets the next. A file is its size and a byte its position; reads
are of every length up to the buffer, and the last bytes may come with the end
of the file, with the size limit or with an error.

**SeedSource.** A byte is known by the source byte and the CPU bytes in it, so
that replacing, dropping and mixing twice can be told apart. `pc` goes through
selection, `io.ReadFull` with `Mixer.Read` inside, and the reseed loop.
Whether a CPU instruction succeeds within its retries is a choice. What a path
leads to may change between any two looks, so the nature of an opened file is
chosen at `Open` and kept (`devices`): a check of the path instead of the file
(the mutant `InspectPath`) accepts what it never saw.

**Pages.** A step is one task of an event loop, up to an `await`. Sockets,
servers and visitors do what they like. In `Display`, messages between page and worker keep their order and
outlive the worker's termination; `OneFrameInFlight` is the token its
back-pressure must neither lose nor double. In `StreamPage`, browsers close the socket on `close(1002)` or
refuse the code with an exception (scripts may use 1000 and 3000 to 4999), so
both outcomes are there; frames skipped by the sampler are a choice. In
`StatusPage`, `timeouts` counts what the browser will fire, `timer` what the
page knows of. In `Gallery`, `stalled` tells a timer that
gave up on an invalid interval from one that was lost: an edit that goes
through an invalid value and back fires no change event, and then only a
click or a return to the page resumes polling.

**Compositions.** `Serving`, `Client` and `Web` put parts side by side that
share no state of the models: a request has its own response and its own
slot, the client's configuration chooses its mode once, its meter counts
frames whatever their buffers, and each part of the web interface is a page,
or a connection, of its own. In a behaviour of one of them only one part runs
(`part`), which is all there is to see when nothing is shared, and keeps the
runs small. Parts that do share state are in one module, or extend each other.

**Type invariants.** Every module with variables of its own states one, which documents them.
Those of `ConnectionStreams`, `Reseeding`, `StreamPage`, `PullClient`,
`Rendering` and `ClientStream` are proved; the inductive invariants of the
other proofs contain the types they need. The others are no question of a run.

## 3. Runs

| Run | Bounds | What it shows |
|---|---|---|
| `instance_count` | root and three slots | `CountAndPeakAreExact`: no lost update, no generator releases its count twice. `ImplementsHighWaterMark`. |
| `instance_scrape` (violation) | root and two slots | An exported peak can be below the count exported with it, see section 6. |
| `connection_streams` | two readers, a request, a raw user, one reseed, key budget 5, seeds and reads of 2 | `KeystreamNeverReused` across all kinds of users, `OwnBudgetSuffices` (a connection fails only because the root cannot seed it), `EveryGeneratorIsCounted`, `ImplementsFreshStreams` (a read is served under a key at least as new as when it began) |
| `serving` | three clients, two slots, memory 6, four-bit integers; codes of every class; three listeners for two slots; two counters, four seconds; numbers below, at and above two limits, given once and twice | `ImplementsMemoryPool` (real costs never exceed the budget, overflow included), `RefusalsAreJustified` (413 and 503 for true reasons); `LoggedAsSent`; `BusyIsJustified` (no slot is lost); `PeakCoversAverage`; `ServedAsAsked` (limits of the server that runs now, choices of the visitor) |
| `shutdown` | two servers, a download and a WebSocket on one, a download on the other; the deadline may or may not strike | `CleanShutdown` (success leaves no goroutine behind, and without a deadline the root is closed behind the last handler), `NoAddAfterWait`, `SocketsInterrupted` (cancellation alone frees a handler blocked in a read or a write), `ShutdownEnds` (once the deadline has struck) |
| `reseeding` | two generators, interval 1, age limit 2 | `NobodyLeftOut`, `OnlyFreshSeeds`, `StaysDegraded`, `Recovers`, `LoopEnds` |
| `reseed_timing` | interval 2, a second of 2, limit 8, reads up to 6 | `HealthyStaysReady`; with reads up to 7 it fails, so the default limit tolerates three intervals and no more |
| `client` | four fetches; four buffers, five messages; streams of four frames of one or two bytes; six bytes of three values in chunks of up to two, or messages of any size, an interval of three | pulling: `FramesBeforeFailure`, `PullerJoined`, `ClientEnds`; streaming: `FramesIntact` (no queued or used frame is overwritten), `ThreeBuffersSuffice`, `StreamEnds` (from the dialling on); `MeterCountsMonitor` (nothing of the sample in the monitor's numbers); `LiveAgreesWithDiagnostics` (chunks do not matter, and what the one-pass correlation neglects), `ReportsKeepPace` |
| `stream_page` | five frames | `OneFrameWithWorker`, `EndRemainsVisible`, `QueuedIsDrawn` |
| `stream_page_notice` (violation) | two frames | a failed worker's notice is replaced and the stream's end not shown, section 6 |
| `web` | two workers one after the other, three frames each; two counters, window 2, clock 4; two images, four URLs; files of up to six bytes, limit 5, analysed prefix 4, preview 3, reads of up to 3 | `OneFrameInFlight`; `StatusPageSound` (one polling loop, no rate across a restart); `GallerySound` (no object URL leaks or is revoked while shown, and polling goes on); `AnalysesPrefix`, `DeadlineIsOwn` (the interruption of one upload never hits the next request) |
| `seed_source` | seeds of three bytes, words of two, seven source bytes | `SeedsAreSourceBytes` (strict mode never falls back; a key comes from `crypto/rand` or the one file that is open and was a device itself, whatever else its path led to; the key's bytes are those of the source in their places, each mixed with at most one sample of its own) |

Why the bounds are enough: a race in these modules needs two of the competing
parties and one event between two of their steps; every run has those and one
more turn to reuse a slot. Key budgets are a few reads long, so exhaustion,
refresh and failure all occur; the four-bit integer puts every overflow of the
product in reach; five messages make every buffer of the pool be reused. The
counter bounds (`MaxReseeds`, `MaxRejected`, `MaxMessages`, `MaxFrames`,
`MaxFetches`, `MaxDrawn`, `MaxCount`, `MaxTime`, `MaxBytes`) only end exploration: each of them disables one input, never a step of the code. `connection_streams` and `web` use symmetry, over
the readers and over the workers; they check no liveness. A key budget of 5
with reads and seeds of 2 leaves a rest that serves neither; more reseeds and
other sizes are left to the proofs. `stream_page`'s five
frames are one drawn, one with the worker, one queued, one that replaces it and
one skipped; the sizes of uploads put the end of the file before, on and after
every limit. In `serving` one listener more than slots, numbers around both
limits, and clocks that stand still or jump reach every branch; in
`Statistics` six bytes of zero, one and all bits end a chunk, a report and the
stream in every order.

Deadlock is checked except where the program stops: `shutdown` (the process
exits), `serving` (a response is over, and bounds end the others), `client`
(the goroutines return), `seed_source` (no root without a
seed), and the pages of `stream_page` and `web`, which rest when nothing
happens.

Fairness. Runnable goroutines run (`WF` on their own steps); time passes where
a clock is needed (`Pass`); the shutdown deadline need not come. Nothing is assumed of clients, visitors, servers at
the other end, the entropy device, signals, write deadlines or the choice
`select` makes: with a cancelled context and a full ticker channel,
`LoopEnds` follows because the context is looked at before each read, not
because `select` is fair.

## 4. Proofs

Checked by `tlapm` for every value of the constants that meets the modules'
named assumptions.

- `GeneratorProofs`, two specifications. `InstanceCount`: the inductive
  invariant (`Exact`) adds to the types that every
  constructor's `mine` is at most `highest`, that a recorded `highest` is in
  the peak or still carried by some constructor under way, and that the count
  is the cardinality of `Counted`. The second part is what makes
  `PeakIsExact` inductive: the maximum cannot be dropped by a failed swap,
  because the swap fails only if the peak has risen.
  `SeedsAreSourceBytes`: the buffer holds the last bytes drawn, in the order
  they were drawn, and is clear behind them (`AsDrawn`); what the mixer has not
  come to has no sample, and no sample is in two bytes or newer than the last
  one taken (`AsMixed`). Before a source is accepted no byte is drawn, and a
  file that was refused is closed before the next attempt (`Checked`). A read that ends early, a sample that fails and a word
  cut short by the end of the buffer keep all of this, so a full buffer is a
  good seed.
- `ConnectionStreamsProofs`. All draws under one root key end before the root's
  position (`generated`), and draws held by different users are disjoint;
  `LabelNamesSeedKey` needs that the fetched epoch is the key of the seed on
  its way; `OwnBudgetSuffices` that a reader between its decision and `emit`
  has a new or sufficient key. The refinement of `FreshStreams` needs that a
  reader that did not refresh had the root's epoch when it began.
- `ReseedingProofs`. A round's invariant: between a tick and the next wait all
  generators before `i` were served or show an error. `HealthyStaysReady` for
  any number of generators: a generator is no older than the interval waited
  between two rounds, if there was one since its turn, the reads that ended
  since, and what is spent of the present one together (`Young`); while the
  loop waits, age and remaining time of the ticker stay within that bound, and
  a tick that came during a round is waiting already. The default age limit therefore
  tolerates rounds whose reads take three intervals together,
  `N * ReadTime <= 3 * Interval`; for the one generator of `main` these are
  the reads of up to 6 that the run has, and with 7 the run fails.
- `StreamPageProofs`. `SamplesInOrder` is strengthened to `Ordered`: drawn,
  pending, posted or answered, and queued frames are in this order and none is
  newer than the last received. `OneFrameWithWorker` needs `Handover` (`busy`
  exactly while a frame or an answer is under way, and no answer from a worker
  that is not running). `Noticed` ties the notice to `fatalError` and
  `streamClosed` while the worker is well.
- `ServingProofs`, five specifications. `Budget`: no admitted reservation
  saturates, so reservation and cost agree for admitted clients; the sum of the
  costs is the cardinality of a set of cells, which turns sums into
  cardinalities of disjoint unions. From there the counters are exact, nothing
  wraps, and the step of every action is a step or a stutter of `MemoryPool`.
  `LoggedAsSent`: the recorded status is what was sent, but for the 200
  net/http adds behind a handler that sent nothing, unless the client is
  `broken`. `BusyIsJustified`: `slots` is the number of handlers that hold one.
  `PeakCoversAverage`: a lemma on mediants (the average of two intervals is
  never above the larger of their averages), for the step that uses a reading;
  a reading that is not used changes neither side. `ServedAsAsked`: what is
  remembered in `chosen` is in the jar, and every default fits the limits.
- `ShutdownProofs`. A server's `count` is the number of its handlers behind
  `Add` (`Counted`); every step of a connection keeps it outside or inside, or
  moves it across (`Moves`). `Drained`: behind the drain of `net/http` only
  hijacked connections have a handler, so a return at `count = 0` finds none;
  nobody enters then, because `stopping` is set first (`AdmissionStopped`) and
  tested in the critical section of `Add`. This gives `NoAddAfterWait` and,
  with `FailedLate` (errors need the deadline) and `MainLast`, `CleanShutdown`.
- `ClientProofs`, four specifications. `PullClient`: while the monitor serves,
  fetched frames are the observed ones, the one in the channel and the one
  about to be delivered (`InOrder`); a failure is in its channel only behind
  the last of them, and `pullFrames` gives up silently only when the program
  was told to stop (`Reported`). `ClientStream`: every action is one of seven
  moves of a buffer
  (`Moves`); pool, queue, producer and consumer hold different buffers, which
  makes an overwritten frame impossible (`FramesIntact`), and these places
  together never hold more than three, because a new buffer is taken only
  while the pool is empty (`ThreeBuffersSuffice`). `MeterCountsMonitor` needs `StreamsInTurn`:
  the producer of the sample has ended, with nothing in its channel, before
  the meter is reset. `Statistics`: `Describes(t, s, n)` says what a tester
  has counted behind the first `n` bytes of `s`; a byte takes it from `n` to
  `n + 1` (`ByteDescribed`), a chunk from the end of the old data to the end of
  the new (`ChunkDescribed`), wherever the cut is. The sums of
  `RunDiagnostics` are then multiplied out, prefix by prefix
  (`DeviationsMultipliedOut`, `CodeviationsMultipliedOut`), until both sides of
  `LiveAgreesWithDiagnostics` are the same polynomial in the three sums and the
  two ends. `ReportsKeepPace`: over HTTP `nextCallback` is ahead of the data
  and at most an interval ahead of the last report (`Pace`), which a chunk of
  at most an interval keeps.
- `WebProofs`, four pages and handlers, all of the one specification the run
  checks. `Upload`: `TotalBytes` never passes the file or the limit
  (`Progress`), so analysis and preview are beginnings of the right length; the
  function of `AfterFunc` is armed, running or done, never two of these, and
  the handler does not return before it is sure which (`Interrupting`), so no
  deadline is left for the next request. `Gallery`: no URL belongs to two
  images, shown or on its way (`OneHolder`), and an image has one from its
  answer to the end of its batch (`Promises`); with that, whatever leaves the
  screen or the batch is known to be revoked. `StatusPage`: the history stays
  in order (`Ordered`) when a sample joins, a restart empties it or old samples
  leave, so no counter falls within it (`HistoryIsMonotone`), and the page has
  either a timeout or a request under way. `Display`: a worker that waits has
  one thing under way, a message, an animation frame or an answer, and one that
  does not has nothing (`Good`); workers that were told to stop may do as they
  like.

`ServingIsSafe` and `ClientIsSafe` say the same of the compositions the runs
check: a step of one part is a step or a stutter of every part.

Induction over data. The library's induction theorems take the property to
prove as an operator, which the provers do not instantiate. Here it is a set
instead: that a set which has 0, and with `k` has `k + 1`, has all numbers up
to `n` (`UpTo`), and that a set of numbers has a least element or a greatest
one (`LeastOf`, `HasGreatest`), follow from `WFMin` and
`NatLessThanWellFounded`. A recursive function then
exists (`SumExists`, `RunExists`) and does what its equation says. This is why
`Statistics` writes its loops as recursive functions.

Every safety property of a passing run is proved, action properties and refinements
included. Model-checked only: the liveness properties (`Recovers`, `LoopEnds`,
`SocketsInterrupted`, `ShutdownEnds`, `StreamEnds`, `ClientEnds`,
`QueuedIsDrawn`), as TLAPS does not prove liveness under fairness.
Proved only, because the runs check something stronger or more telling:
`LabelNamesSeedKey`, `CountersAreExact`, `SamplesInOrder`,
`ReasonGiven`.

## 5. What is left

Of the plan this development began with one thing remains: the second violation
of the notice (section 6) as a run of `Display`.

Not modelled, and why:

- `readStreamFrame` without a requested size: `run` puts `bytes=` into every
  address, so the program never goes there.
- `newWordFrame`, and the choice of a generator's algorithm by name: no state.
- Export of metrics other than the pair of instance gauges: each value is read
  once and printed.
- Configuration, listeners and TLS but for the readiness default: flags are
  checked one by one, and the operating system is called once.
- Rendering (PNG, QR, WAV, HTML, CSS), plots and terminal graphs; statistics
  in floating point behind the sums (entropy, p-values, `EC/internal/stats`
  outside `stream.go`).
- The upload form and the alert of the stream page, which show one answer or
  compare one number; build and deployment files.

## 6. Disagreements with the documentation

`docs/browser-ui.md` and the gauge's help text call `drbg_instances_peak` an
exact high-water mark, and a test asserts that it covers the active count. A
constructor raises the count first and the peak afterwards, and a scrape reads
the two without a lock between them, so one response can show more active
instances than its peak (`instance_scrape`). What does hold, and is proved, is
`PeakIsExact` (in `CountAndPeakAreExact`): the peak is exact whenever no
constructor is under way.

`docs/api.md:98` says of the pages' notices that "connection
failures/disconnects remain visible". On the byte and colour pages the
animation frame of a sample hides the notice without a look at what it says
(`entropy-display.js:47`), so a sample on its way covers a failure that came
meanwhile, and nothing shows it again: in `Display`, `PageHandles` sets the
notice and a `Paint` scheduled before hides it. On the stream page,
which does look, a worker whose script fails to load is reported, the notice
is replaced when the socket opens (`stream-analysis.js:222`), and the end of
the stream is not shown, because `onclose` says nothing once `fatalError` is set
(`stream_page_notice`). What does hold, and is proved, is `EndRemainsVisible`:
with a running worker, the end of the stream stays on display.

## 7. Running

    tlc -config Shutdown.cfg MCShutdown.tla
    tlapm ShutdownProofs.tla
