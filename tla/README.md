# A TLA+ verification of hargo

hargo reads HAR (HTTP archive) documents and replays, downloads, converts, checks or
load-tests what is in them. This directory holds TLA+ models of the parts of hargo where
the order of events matters, configurations that check them with TLC, and theorems that
TLAPS checks. Line numbers refer to the Go files of the repository.

## 1. Inventory

| Component | Source | State | Operations | Module |
|---|---|---|---|---|
| Streaming reader | `read.go` | position in the document, counters of the pass, the `entries` channel | `ReadStream`, `scanToEntries` | `ReadStream`, `ScanEntries` |
| Load test | `load.go` | main goroutine, reader, *n* workers, consumer; channels `entries`, `results`, `opts.Results`; accumulator; context | `LoadTest`, `processEntries`, `send` | `LoadTest`, `LoadContract` |
| InfluxDB writer | `influxdb.go` | client, attempt, deadlines; the points InfluxDB has | `newInfluxWriter`, `writeOne`, `close` | `InfluxSetup`, `Recorder` |
| Load summary | `summary.go` | latencies, status counts, failures | `add`, `summary`, `percentile` | `Summary`, `Recorder` |
| Fetch | `fetch.go` | the output directory, the name allocator, the failure tally | `Fetch`, `downloadFile`, `nameAllocator.create` | `Fetch`; its request in `Requests` |
| Run | `run.go` | the base of the next delay, the cookie jar, the failure tally | `Run`, `delayBefore` | `Replay` |
| Decoding, request building | `utils.go` | none | `Decode`, `ParseEntryTime`, `EntryToRequest`, `postBody` | `Decode` in `Replay`, the rest in `Requests` |
| Entry filter | `filter.go` | compiled expression | `compile`, `EntryFilter.Match` | `Requests`, `Commands`; an input of `ReadStream` and `Replay` |
| Validation | `validate.go` | none | `Validate`, `validateEntry` | `Requests`, `Commands` |
| curl conversion, dump | `curl.go`, `dump.go` | the first write error | `ToCurlTo`, `DumpTo`, `fromEntry` | `Requests`, `Commands` |
| Command line | `cmd/hargo/hargo.go` | the output file, the exit status | `openHAR`, `writeOutput`, the commands | `Commands`, for validate, curl and dump |
| Types, build tools | `types.go`, `tools/` | none | declarations | not modelled |

How they interact:

* `LoadTest` starts `ReadStream` in a goroutine. They share the buffered channel
  `entries`; the reader closes it when it returns, and `readErr` is read by the main
  goroutine after the reader has ended.
* Workers receive from `entries`, perform a request and send the result first on the
  unbuffered `results` channel to the consumer, then a copy on the channel the caller
  supplied. Each wait is a `select` that the context can interrupt.
* The consumer adds each result to the accumulator and writes it to InfluxDB, one after
  the other. The main goroutine waits for the workers, closes `results`, waits for the
  consumer, then for the reader, and only then publishes the summary, returns, and with that
  closes the client of InfluxDB.
* `newInfluxWriter` runs before all of that, under a deadline derived from the one the
  test itself runs under.
* Calls of `Fetch` share nothing but the directory they write to.
* `Run` relies on the order `Decode` leaves, for the gaps between requests, and shares one
  cookie jar among them.
* `Run`, `LoadTest`, `Fetch` and `curl` each make a request of an entry, by rules written
  three times; `Validate` promises that this will work.
* `hargo curl` and `hargo dump` render into a buffer first and touch the output file only
  when the rendering is complete.

The behaviours that are hard to test are the interleavings of the four kinds of goroutine
with a context that can end between any two steps; the order of closing and joining; a
reader that repeats a document without end; names colliding in a directory written by
several calls; delays computed from timestamps some of which cannot be read; and a scanner
that has to tell keys from values in arbitrarily nested JSON. `PROJECT.json` lists them one
by one under `hazards`, each with the properties that would catch it.

What makes each component correct:

* **Reader**: it sends the selected entries in recorded order, over and over; what it
  returns is true of the document; it ends when the context ends or when there is nothing
  to send, and it closes the channel exactly once.
* **Load test**: no send on a closed channel, no goroutine outlives the call, every entry
  sent is accounted for, the summary is complete, copies match the summary up to what the
  end of the context cuts off, and nil is returned only for a good reason.
* **InfluxDB**: the client is released whenever setup fails and when the test is over,
  nothing is started after the context has ended, a slow server delays the return by a
  bounded time, and results stay distinct points.
* **Summary**: its tallies agree with each other and with the points in InfluxDB, and the
  percentiles are nearest-rank.
* **Fetch**: no file is ever overwritten, and the verdict is true of the directory.
* **Run**: chronological order, the recorded gaps and no more than those, prompt
  cancellation, a true tally, and the cookies that belong to the entry and its directory.
* **Scanner**: it stops at the entries array of a log, and nowhere else.
* **Requests**: what is sent is what was recorded, by whichever command; what validates can
  be sent.
* **Commands**: an output file is untouched until the rendering is complete, holds a beginning
  of it from then on, and all of it when the exit status is 0.

## 2. Modules

Modules are listed in the order they were planned: the load test is the only part of hargo
in which goroutines interact, so it and the reader inside it come first.

### ReadStream

`rpc` is where the goroutine is: `compile` the filter, start a `pass`, ask for `more`
entries, `send` one, `rewind`, `done`. A document is what the reader can distinguish: does
the JSON lead to an entries array, what kind each entry is, how the text ends, whether it
can be rewound. Decoding an entry and applying `Match` is one action, since nothing else
can be observed in between; the send is a separate one with its two `select` cases
(`SendEntry`, `SendCancelled`). `ReturnRead` is every `return` together with
`defer close(entries)`. The context is looked at where the code looks: at the top of a
pass and in the send. `pass` and `nSent` are history. The module can be run alone
(`StreamSpec`), with an environment that may receive and may cancel, or inside `LoadTest`.

### LoadTest and LoadContract

`LoadTest` extends `ReadStream` with the main goroutine (`mpc`), the workers (`wpc`) and
the consumer (`cpc`). One action is one step of one goroutine between two points at which
another can intervene. The send on the unbuffered `results` channel is a joint step of a
worker and the consumer (`Deliver`). A request is two steps, `Issue` and its end
(`Respond` or `Fail`), so that the context can end in between. `skipped`, `dropped`,
`forwarded`, `missed` and `late` are history variables for the accounting.

`LoadContract` is what the caller is promised, without goroutines: results are recorded
until the context ends, then at most one more for each worker; the call returns once and
nothing is recorded afterwards; nil means that the context ended or there was nothing to
replay; once the context has ended, the call returns. The refinement mapping is
`Contract` in `LoadTest`: a result counts as recorded from the moment the consumer has
received it.

### InfluxSetup

`newInfluxWriter` with time in whole units (10 s each in the MC module). A ping or query
takes any time up to the HTTP timeout; the context is looked at only in the backoff.
`SetupDeadline` combines the setup timeout, the caller's cancellation and the duration of
the test, because the setup context is derived from one that carries all of them. Its `phase`
goes on in `Recorder`, which uses `SetupStep` for the setup; `SetupSpec` is the setup alone.

### Summary

`add` and `summary`, with `percentile` as the operator `Percentile`. The latencies are
sorted with `Sorting`: which of two equal ones comes first cannot be told, so a stable sort does
for `sort.Slice`. The status map is a partial function, as a Go map is. `Outcome` is the classification that the tags of a point
use too. The module has no next-state relation of its own: `Recorder` says who adds results.

### Recorder

The composition of the two, and with them the whole way of a result: `LoadTest` connects,
the consumer receives a result (`Receive`), adds it, and is in `writeOne` (`writing`) until
InfluxDB has answered or `influxHTTPTimeout` is over; then the figures are computed (`Sum`)
and the deferred `close` runs (`Return`). The workers are the environment here. What they may
do is what `LoadTest` proves of them: no result begins after the context has ended, and each
of the `Late` workers may deliver one that began before (`LateResultsBounded`). InfluxDB
(external) keeps `series`, one point for each set of tags and timestamp; a write that gets no
answer may have been taken or not.

### Fetch

Several calls on one directory. `dir` maps a name to the entry whose body is in the file
and whether it is all there. `nameAllocator.create` is a search (`TryNext`, `Create`) whose
steps are the `OpenFile` calls with `O_EXCL`, which are atomic. The context may end between
any two of them. `DownloadFails` is what the loop in `Fetch` does with an error of
`downloadFile`: return the context's error if it ended, otherwise count and continue.

### Replay

`Run`, with the part of `Decode` it relies on. `queue` has the positions in the document of
the entries to attempt, in order; `Prepare` computes it: the WebSocket entries and those the
filter does not select are left out, the others sorted by time, and by position where the
times are equal. The code sorts before it filters, which makes no difference to a stable
sort. `Reach` is the wait before an entry with the bookkeeping that
follows it, `WaitCancelled` the other case of the `select`. `reached`, `waited`, `results`
and `sent` are history.

Durations are integers up to `MaxDuration`; the code's conversion through floating point is
the division that rounds towards zero. Where the quotient does not fit, Go leaves the result
open, and `saturates` is the platform's choice, made once: the greatest duration (arm64) or
the least (amd64). `MaxDuration` itself does not fit (`Fits`): as a `float64` it is 2^63, and so
the gap `Sub` has cut off overflows at the recorded speed already.

The cookie jar (external, `net/http/cookiejar`) keeps for each host the cookies set for it, and
a cookie replaces the one of its name and path (`SetCookies`). A path is the sequence of what
its slashes separate. A cookie that hargo puts there from a recording has no path, so the jar
takes the `Directory` of its URL, as it does for a server that names none; `PathMatch` says
which cookies of the jar go with a request. `client.Do` sends the cookies of the request and
those of the jar. A recorded cookie is a name and a value as `AddCookie` has written them; what
that makes of them is in `Requests`.

### Sorting

A stable sort, for `Decode` and for the latencies of the summary: `Sorted` has at place *k* the
position that *k - 1* others go before, so that it can be reasoned about without recursion.

### ScanEntries

The scanner next to the JSON grammar. `stack` is what the grammar says is open; every
action reads one token that the grammar permits there and lets the scanner, which sees the
token only, move its own variables. Keys and string values are one token, as in
`encoding/json`, which is modelled from its use (external).

### Requests

Operators, with an entry reduced to what they tell apart: `Match` of a filter, `PostBody`,
the header rules, `Request` (`EntryToRequest`), `FetchRequest`, `Curl` (the arguments
`fromEntry` puts together) and `ValidEntry`. Header names that `EqualFold` takes for equal are
one value; `bad` is whatever is not legal in its place. `CanSend` is what `http.Client`
refuses, modelled from its use (external). `Run` and `Fetch` hand each recorded cookie to
`http.Request.AddCookie` (`AddCookies`, with the external `Sanitised`), which replaces line
breaks in the name, drops bytes of the value and puts double quotes around a value with a space
or a comma and around no other; `Curl` keeps the cookies as they were recorded. A cookie is
reduced to what that depends on.

### Commands

`hargo validate`, `curl` and `dump`, and `ToCurlTo` and `DumpTo` with a writer that may fail.
One action is one call that can fail; the output is a sequence of chunks, and a failed write
may leave a part of one. Killing the process between any two steps is an action. The document
is an input, chosen at the start with a filter and with what the output file held before.

### Composition

| Module | extends or instantiates | proofs in |
|---|---|---|
| `LoadTest` | `ReadStream`, `LoadContract` (refinement) | `LoadTestProofs` |
| `ReadStream` | | `ReadStreamProofs` |
| `Sorting` | | `SortingProofs` |
| `Recorder` | `InfluxSetup`, `Summary` (`Sorting`); refines `ConnectInflux`, `Add` and `WriteOne` of `LoadTest` informally | `RecorderProofs` |
| `ScanEntries` | | `ScanEntriesProofs` |
| `Fetch` | stands alone | `FetchProofs` |
| `Replay` | `Sorting` | `ReplayProofs` |
| `Commands` | `Requests` | `CommandsProofs`, on `SortingProofs` for the inductions |

## 3. What the runs check

`tlc -config X.cfg M` for the runs below. Each property is preceded by a comment that says
what it means and which lines it is about, and each property of a passing run has a mutant
(an operator marked *Mutant* in the module) that makes TLC find it violated.

| Run | Module, cfg | Bounds | What it shows |
|---|---|---|---|
| `stream` | `MCReadStream` | all documents of up to 3 entries with every ending, 3 passes, channel of 2 | order of the stream, truth of the verdict, cancellation and empty documents end the reader |
| `load` | `MCLoadTest` | 2 workers, 9 documents, all 8 options, 2 passes | the eight safety properties of the load test; `LoadTest` implements `LoadContract`, liveness included; nothing moves after the return; a reader that ends lets the call end |
| `recorder` | `MCRecorder` | 3 attempts of at most 30 s, 10 s pauses, 90 s, several durations and cancellations, 5 results of which 3 are written | the client is released, setup outlasts its context by two requests at the most, the return is delayed by two writes at the most, tallies agree with each other and with the points, percentiles are nearest-rank, results stay distinct |
| `fetch` | `MCFetch` | 2 calls, 2 entries each, names that are each other's suffixes, empty or used directory | no file is overwritten, names are dense and not probed twice, the verdict is true, cancellation ends the call |
| `replay` | `MCReplay` | all recordings of up to 3 entries of 7 sorts, or of 3 with cookies in two directories or for two hosts, 7 options, 4 cancellation times | order, gaps, no extra delay, prompt cancellation, tally, cookies |
| `scan` | `MCScanEntries` | depth 4, any length, 3 strings | the scanner follows the grammar and stops at a log's entries only |
| `commands` | `MCCommands` | every list of up to 2 headers with every body, every list of up to 2 cookies, every method, URL and timestamp; up to 3 entries with 5 filters; documents that do not open, decode or validate | an output file is untouched until the rendering is complete and whole when the status is 0, a failing writer sees a beginning, requests are faithful, Run, Fetch and curl agree, a validated entry can be sent |
| `stream_cut`, `influx_budget`, `fetch_leftover`, `scan_nested`, `validate_promise` | | | five disagreements between comments and code, see section 6 |

Why the bounds are enough:

* **Two workers** exhibit every interaction of one worker with another; the parts of the
  load test that depend on their number are proved for any number (section 5).
* **Three entries** before and after each other are of every kind, and **two or three passes**
  let the reader have sent something in an earlier pass, rewind, and end in a later one. The
  channel of two is filled by a document of three. `MaxPasses` limits `Rewind` only while
  the context is live, so cancelling always gets the reader to its end; a run that reaches
  the bound waits there, which is why the liveness properties are those that hold for a
  reader that never gets further.
* **Fetch** needs two entries that want one name, a recorded name that looks like a suffix
  of another, and a file that is already there; each is in the recordings.
* **Replay** has times on either side of the zero time an unreadable timestamp sorts as,
  gaps that divide evenly and gaps that do not, gaps that saturate `Sub` or overflow when
  scaled, and a cancellation before, within and after the waits. The negative time stands for
  a date before the year 1. For the cookies, three entries are one that sets, one that sets
  otherwise or not at all, in the same directory or another, and one to tell what is left, of a
  path that either directory matches or only one.
* **ScanEntries** bounds only the depth. The scanner looks at its two innermost levels, so
  four levels include one beneath and one above those.
* **Recorder** takes the code's own constants for the setup, in units of ten seconds.
  `RecordBy` and `Horizon` cut off runs that differ from others only in starting later. Five
  results have ranks that round up for each percentile; three written ones let one replace
  another while a third stays. The results differ in one of method, status and start, with
  starts within one millisecond and two equal.
* **Commands**: no rule looks at more than two headers at once, the first and last of a kind;
  `Match` and the order of the output are tried on three entries. The header lists of two
  leave out a second legal value except where the order of two values matters.

## 4. Fairness

Every goroutine runs when it can: weak fairness of the reader, the consumer, the main
goroutine and of each worker. A `select` is one action per case and fairness is only asked
of their disjunction, so no case is favoured. A request is bound to end once the context
is done, because it was made with it, and not before: nothing in the client bounds reading
a body (`load.go:269-273`). A caller need not receive from `opts.Results`, need not
cancel, and may stop receiving at any time. `ContractSpec` therefore says only that the
call returns once the context has ended. `DrainEndsCall` adds `Cooperative` as an
assumption of its own: requests end, and the caller receives while it has not stopped,
which is what the comment on `LoadTestOptions.Results` asks of it. In `Fetch` the local
steps of a call are weakly fair, and those that wait for a server only once the context is
done.

`Recorder`, `Replay`, `ScanEntries` and `Commands` state no fairness and no liveness: in the
first two time is part of the model, and what must happen soon enough is an invariant on it
(`EndsInTime`, `ReturnsInTime`, `NothingAfterCancel`).

## 5. What is proved

The theorems hold for every set of workers, every capacity, document, option and number of
passes, for every set of calls, for recordings of any length, and for all timeouts, delays
and moments of cancellation. Their assumptions are those of the modules: `Workers` finite
and not empty, inputs and options of their types, the capacity of the channel equal to the
number of workers, times that are natural numbers, `MaxDelay` a `time.Duration`, and for `Fetch`
a finite set of calls and finitely many files in the directory before.

**ReadStreamProofs.** `ReaderInv` is inductive. `VerdictSound` alone is not: that the
reader returns nil only for an empty document depends on what its two counters say about
the entries it has passed. `PassInv` relates the counters of the pass to the prefix already
decoded, `RunInv` relates `nSent` to the document and to the place of the goroutine,
`ClosedInv` says that the channel is closed by the step that ends the reader and by no
other. The step lemma `ReaderStepInv` is about the reader's actions alone, so that the load
test can cite it. `StreamIsOrdered` counts: `SentInv` says that `nSent` is the whole selection for
every pass that is over and the selected entries before `pos` for the present one, and
`SelectionFacts` that this number grows with the selected entries and with no others.

Two theorems say why a reader ends. `ReaderCannotLinger`: `StreamRank`, a number made of what is
left of the pass, what the channel holds and whether the context has ended, goes down with every
step of the reader and of its environment; the one exception is `BeginPass`, the top of a pass,
which needs a context that has not ended. `NothingToSendIsReadOnce`: a document whose entries
are all rejected is read once, and no second pass begins.

**LoadTestProofs.** `ReaderIsStream` says that a load test moves the reader's variables as
`ReadStream` does, which carries the reader's invariants over; `WorkersShareOrder` is the order of
the stream for any number of workers. `LoadInv` is the conjunction of `ReaderInv`, types, `ControlInv` (where
the goroutines can be, given where the main goroutine is), `DataInv` (what they hold),
`LossInv` (without a cancellation a worker exits only on a channel that is closed and
drained), `LateInv` (a worker that has delivered late has no further entry) and the two
accounting equations. None of the safety properties is inductive without `ControlInv`: that no
worker sends on a closed channel rests on the order of the main goroutine's joins. The
equations count sets of workers; `WorkersCounted` says how these change when a worker
moves, and one lemma for each group of actions then uses it. From `LoadInv` follow
`TypeCorrect`, `SendsAreSafe`, `NothingOutlivesCall`, `EntriesAreAccounted`,
`NothingIsLost`, `ResultsAreCopied`, `LateResultsBounded`, `SummaryComplete` and
`NilIsHonest`; the action property `QuietOnceReturned`; and `ImplementsContract`: under the
refinement mapping every step of `LoadTest` is a step of `LoadContract` or a stutter.

Liveness is out of the prover's reach, but what it rests on is not. `NeverStuck`: until the call
has returned, some goroutine can move, or a worker waits for the outside (a response, or the
caller's receive) under a context that has not ended, or the run is at the bound `MaxPasses`; so no
wait of one goroutine for another can be for ever. `ReaderCan`, `WorkerCan`, `ConsumerCan` and `MainCan` are the guards, written out because
the prover does not reason about `ENABLED`; TLC confirms on the instance of the run `load` that
they are when the actions are enabled. `CallCannotLinger`: `Rank` goes down with every step of
anybody, except when the reader begins another pass, and it cannot once the context has ended.
From then on the number of steps is bounded, by what is left for the reader to decode and for each
worker, the consumer and the main goroutine to do. `Burden` is the sum over the workers, a sum
because any number of them may move between two steps of another.

**ScanEntriesProofs.** For every set of strings and every depth of nesting the scanner
agrees with the grammar (`GrammarFollowed`), which also keeps the index `depth-1` inside
the slice, and stops at the entries of a log and nowhere else (`EntriesFound`).
`FollowsGrammar` and `StopsAtLogEntries` are inductive together with the types and one fact
about the document, that only an object wants a key; without it an array could be where a
key is read. `ValueCompleted` is the common part of every step that completes a value, be
it a string, a scalar or a container that closes.

**FetchProofs.** For any number of calls in one directory, any recordings and whatever the
directory held before: `FetchTypeCorrect`, `NamesStayDense`, `FilesStay`, `SearchIsLinear`
and `VerdictHolds`.
`FetchInv` strengthens the types and `NamesAreDense` with `OpenInv` (a call has a file open
exactly while it writes one, and the file is its own and of the entry it is at) and
`SearchInv` (the names the search has passed are taken). Density needs `SearchInv`, and both
need that no name ever leaves the directory; that a call cannot spoil another's file needs
`OpenInv` of the two. `StepPreserves` therefore proves, with the invariant, `KeptBy`: what a step
of one call leaves of the others' state and files. For the verdict, `TallyInv` adds
that of the entries a call has left behind, no more are missing than it has counted as
failed. `SavedStays` shows that a saved entry stays saved, and `Progress` that a call leaves
an entry behind only saved or counted; `EndInv` relates what was returned to the tally. That
a search never meets the call's own names rests on `OwnNamesInv`, that the file of an entry
has a suffix below the next one for its base name, and on the suffix being legible in the
name (`NameIsInjective`).

Why a call ends takes a bound on the search, which other calls can prolong by taking the names
it tries. `FileInv` says that a file belongs to an entry its call has come to, and that the call
is through with the entry once the file is closed; so no entry gets two files (`OneFilePerEntry`), and there are never more
files than the directory had at first and one for each entry of each call (`MostFiles`). A search has passed
only suffixes whose names are taken, and different suffixes give different names, so it has
passed no more of them than there are files (`SearchIsBounded`). Hence `CallIsBounded`:
`CallRank`, made of the entries ahead and the stage the call is at, with room in the search
for every file there will be, goes down with each step of the call and with no other. Neither
the other calls nor a cancellation can raise it, so a call has a bounded number of steps
whatever the others do.

**RecorderProofs.** For every timeout, backoff, number of attempts and duration, every number
of late results and every set of results. `TimeInv` gives `ClientIsReleased`,
`SetupEndsInTime` and `TestReturnsInTime`. The bounds are not inductive: `SetupTimeInv`
measures the setup twice, from its start (each attempt so far has cost a ping and a pause at
the most) and from its latest ping, which began before the deadline; `TestTimeInv` lets every
late result move the return by one more write, and so needs `lateCount`. Both need `ClientInv`,
since only a test with a client writes. `WrittenResultsStay` rests on `KeptInv`: a result that
was written without an error has its point, unless a later one has the same tags and start;
`StoreKeeps` is the step that puts a point in its place. `RecorderTypeCorrect` comes last: that
the tallies and the report are of their types is known of the results they count (`TalliesTyped`),
and `BoundsInv` adds that every point is of a result.

The figures: `FiguresInv` says what the three tallies count (`CountInv`) and, once there is a
report, that it was computed from the latencies as they came (`ReportInv`). From it follows
`TalliesHold`, because sorting keeps the number of each value (`InOrderCounts`), and
`PercentilesHold`: of the value at place *m* of the sorted latencies, at least *m* do not exceed
it and at most *m - 1* are below (`Beneath`), and the rank the code computes is the right *m*
(`NearestRank`). For `SeriesTellsTheSame` the results and the points correspond one to one
(`PointsInv`), and a bijection keeps the counts.

**SortingProofs.** `Sorted`, and the inductions the other proofs need. The library's induction
theorems take an operator, which none of the installed provers can instantiate;
`IntervalInduction` takes the set of numbers at which a fact holds in its place, `RecursionExists`
shows by it that a recursive function on an interval is what its definition says, and
`AppendInduction` is the same for sequences that grow at their end. `RankGrows` says that of two positions the earlier has the smaller rank,
`RankIsTaken` that each rank below their number is that of one position (ranks differ and there
are only so many), and with them `SortedIsOrdered`: the result has each position once and in
order.

**ReplayProofs.** For recordings of any length, all options and either behaviour of the
platform: the types, and all properties of the run.

* `SelectedIsOrdered` applies the lemma on sorting to the start times. `EntriesInOrder` follows
  from it, and the gaps rely on it.
* `RunInv` is the types, `ControlInv` (which entry each place of the code is at, and how many
  have been reached and have a result) and `NothingAfterCancel`, which is inductive with them.
* `TallyInv` counts the failures among the results, for `VerdictIsTrue`.
* `GapsHonoured` relates two entries, the code only remembers one: `PrevInv` says that `prev` is
  the time of the last entry that could be paced, and when it was reached. `NoExtraDelay` is a
  bound on a sum of roundings: by `SpanInv` the waits so far are at most the scaled span up to
  `prev`, and `ExactOfSum` says that two scaled gaps, each rounded towards zero, are together
  no more than the scaled sum.
* `CookiesAreCurrent` needs `JarInv`: whatever is in the jar is what a server has set, or what
  the last entry of that host and directory with a cookie of that name has recorded
  (`LastRecorded`). That a recorded name leaves no older value of its own directory behind
  rests on `NameHasLast`: of several cookies of one name one is the last.

**CommandsProofs.** For documents of any length, every filter and every writer. `CommandsInv`
says how far the rendering is (`RenderInv`): before entry *k* it lists the chunks below *k*, in
order and once each (`ListsOneMore`). Once a write has failed it is frozen at a beginning, with at
most a part of the next chunk (`BrokenInv`, kept by `EmitAddsOne`). The destination is untouched
until the rendering is complete (`OutputInv`), and `StatusInv` ties the exit status to both. From
these follow `OutputStaysWhole` and `WriterStaysPrefix`, with the types (`CommandsTyped`).

The properties of one entry hold for header lists of any length, and are shown of the builders and
then of the states. What the builders do to a list of headers is a fold: the laws of `Keep` (it keeps
the order, what it keeps passes the test, and it drops nothing else) and of `RecordedHost` (the
last legal one wins) are proved by `AppendInduction` and `IntervalInduction`, and `HostIsRight` goes
through a list one header at a time. `EntryIsFaithful` and `CurlAgrees` say of an entry what
`RequestStaysFaithful` and `ConversionsStayAgreed` say of the state, with `SanitisedIsWritten` for
what `AddCookie` leaves of a cookie. `ValidatedStaysSendable` needs `ValidInv`: when `validate`
ends with status 0, every entry was found valid.

**Model-checked only.** Liveness, and so the liveness half of the refinement: the prover has no
rule for fairness and `ENABLED`. The facts such a proof would start from are theorems:
`ReaderCannotLinger` for the reader, `NeverStuck` and `CallCannotLinger` for the load test, and
`CallIsBounded` for `Fetch`. Every safety property of a passing run has a theorem. The properties
of the violation runs do not hold.

## 6. Where comments and code disagree

Found while modelling, each with a run that shows it:

* `stream_cut`: `decoder.More` reports false at the end of the text as it does at the end
  of the array, so a document cut off between two entries is replayed again and again, or
  taken for an empty one, where `read.go:25-28` promises a descriptive error.
* `influx_budget`: the setup context is derived from the one whose duration is already
  running (`load.go:113-130`), although the comment says that setup does not eat the test
  budget (`load.go:82-83`).
* `fetch_leftover`: a download whose body breaks off leaves the incomplete file behind
  (`fetch.go:321-325`), against `CHANGELOG.md:236`.
* `scan_nested`: the entries of any object under a `log` key match, at whatever depth,
  where `read.go:118-119` says only the log's own do.
* `validate_promise`: `validate` compares the method with the empty string and asks of a URL
  only that it parses and has a scheme (`validate.go:85-99`). A method that is no token, a URL
  without a host or of another scheme, or a WebSocket entry passes, as does a cookie whose name
  has a control character, and `Run` skips, fails or silently drops it, against `validate.go:20` and `validate_strict_test.go:188`.
  `ValidatedCanBeSent` says what the promise comes to.

And some that have no run of their own:

* The context may end between a worker's two sends, so a result the summary counts need not
  reach `opts.Results`, which "receives a copy of every result" (`load.go:44`). `missed`
  counts these, and `ResultsCopied` bounds the difference.
* If the duration of the test ends during the backoff, the setup failure is the test's own
  deadline (`BackoffCancelled` with `testDeadline`), against `load.go:83`.
* Pings and the query do not look at the context, so setup may take longer than
  `influxSetupTimeout`; `EndsInTime` states the bound that does hold.
* An entry whose timestamp cannot be read sorts as the zero time and is replayed first,
  where `README.md:169-170` says the recorded order.
* At a speed so small that the scaled gap exceeds an `int64` of nanoseconds, amd64 makes the
  delay negative: the wait is left out, and `MaxDelay` with it (`run.go:69-73`). So it does at
  the recorded speed for a gap of 292 years or more, which `Sub` cuts off at the greatest
  `int64`. `GapsHonoured` excepts these cases.
* `Run` puts the recorded cookies in the jar and on the request, so they are sent twice; a
  cookie a server has set for its whole site goes out next to a recorded one of the same name
  (`run.go:160-162`). So does a stale value that an earlier entry recorded, if that entry was of
  another directory of the host: the jar has one cookie for each directory.
  `CookiesAreCurrent` states what does hold: within a directory no stale value is sent.
* The three request builders agree except where `ConversionsAgree` says: curl does not read
  `:authority`, keeps the `Cookie` header of an entry without cookies, and takes a recorded
  `Content-Type` that is empty or illegal for one that is there. And it writes cookies as they
  were recorded, which `curl.go:76-78` says is on purpose, while `Run` and `Fetch` send what
  `AddCookie` makes of them (`utils.go:226-229`, `fetch.go:147-150`): the two are the same cookie
  only where it is `WellWritten`.
* `validate`, `curl` and `dump` never look at the context that a signal cancels
  (`hargo.go:146`), and installing that context takes away the signal's default effect, so an
  interrupt does not stop them.
* Two requests that begin in the same nanosecond with equal tags are one point to InfluxDB
  (`influxdb.go:137-172`); `ResultsStayDistinct` says that nothing else is.

## 7. Not modelled

* Transports, TLS options, redirects, progress lines and log messages.
* The cookie jars of the load test, where each worker keeps one for all of its requests
  (`load.go:212`), and of `Fetch`, where one lives for a single download (`fetch.go:266-273`). In
  `Replay`, a cookie's sanitising (a name that is no token is not put in the jar), expiry and
  domain, and the cookies of redirects.
* The rates of the summary, which are floating point, and its rendering; the fields of a
  point.
* `safeBaseName`, which is a text conversion, and the content decodings: their results are
  inputs of `Fetch`.
* The layouts `ParseEntryTime` accepts, the byte order mark, shell quoting, and regular
  expressions, of which only the set of URLs they match is kept.
* `fetch`, `run` and `load` of the command line, which pass their flags to the library, and
  flag parsing itself.
* The types (`types.go`), which are declarations, and the build tools.

## 8. Plan

Done: all modules of section 2 with their runs, and the proofs of section 5.

Nothing of the plan is open.
What is left out, and why, is in section 7; what the prover cannot reach is at the end of section 5.
