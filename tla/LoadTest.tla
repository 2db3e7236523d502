------------------------------- MODULE LoadTest -------------------------------
(***************************************************************************)
(* LoadTest (load.go): the main goroutine starts a reader (ReadStream), a  *)
(* consumer and a set of workers, waits for them in that order of          *)
(* dependency, and returns a verdict.                                      *)
(*                                                                         *)
(*   reader --entries (buffered)--> workers --results (unbuffered)-->      *)
(*   consumer;  workers --opts.Results--> the caller                       *)
(*                                                                         *)
(* One action is one step of one goroutine between two points where        *)
(* another can intervene.  A send on an unbuffered channel is one joint    *)
(* step of the two ends.  A select is one action per case, so that either  *)
(* is possible when both are ready.                                        *)
(***************************************************************************)
EXTENDS ReadStream, FiniteSets

CONSTANTS
    Workers,    \* the worker goroutines
    Options     \* the options LoadTest may be called with

\* `valid': neither Workers nor Duration is negative; `influx': InfluxDBURL is set;
\* `results': the caller supplied a Results channel.
OptionType == [valid : BOOLEAN, influx : BOOLEAN, results : BOOLEAN]

ASSUME WorkersAssumption == IsFiniteSet(Workers) /\ Workers # {}
ASSUME OptionsAssumption == Options \subseteq OptionType
\* entries := make(chan Entry, workers)
ASSUME LoadCapacity == Capacity = Cardinality(Workers)

VARIABLES
    opts,           \* the options of this run; never changes
    mpc,            \* where the main goroutine is
    verdict,        \* what LoadTest returned
    summary,        \* what the caller's Summary points at
    wpc,            \* where each worker is
    held,           \* the entry each worker holds, 0 for none
    outcome,        \* how the request of each worker ended
    resultsClosed,
    cpc,            \* where the consumer is
    inHand,         \* the outcome the consumer has received and not yet added
    acc,            \* the summaryAccumulator
    callerReads     \* the caller still receives from opts.Results

\* History: what became of the entries taken from the channel and of the results.
VARIABLES
    skipped,        \* entries no request could be made of
    dropped,        \* entries whose result was never delivered
    forwarded,      \* results sent on opts.Results
    missed,         \* results delivered but not sent on opts.Results
    late            \* results each worker delivered after the context ended

mainVars     == <<opts, mpc, verdict, summary>>
workerVars   == <<wpc, held, outcome>>
consumerVars == <<cpc, inHand, acc>>
historyVars  == <<skipped, dropped, forwarded, missed, late>>
loadVars     == <<mainVars, workerVars, resultsClosed, consumerVars, callerReads,
                  historyVars>>
vars         == <<streamVars, loadVars>>

\* "cut": the response arrived but reading its body failed, which the code ignores.
Outcomes == {"ok", "cut", "failed"}

MainStates   == {"validate", "connect", "launch", "wait", "close", "joinConsumer",
                 "joinReader", "report", "returned", "refused"}
WorkerStates == {"idle", "select", "issue", "inflight", "send", "forward", "exited"}

NewAccumulator == [requests |-> 0, failures |-> 0]

Init ==
    /\ ReaderInit
    /\ opts \in Options
    /\ mpc = "validate"
    /\ verdict = "none" /\ summary = NewAccumulator
    /\ wpc = [w \in Workers |-> "idle"]
    /\ held = [w \in Workers |-> 0]
    /\ outcome = [w \in Workers |-> "none"]
    /\ resultsClosed = FALSE
    /\ cpc = "idle" /\ inHand = "none" /\ acc = NewAccumulator
    /\ callerReads = TRUE
    /\ skipped = 0 /\ dropped = 0 /\ forwarded = 0 /\ missed = 0
    /\ late = [w \in Workers |-> 0]

-------------------------------------------------------------------------------
(***************************************************************************)
(* The main goroutine, up to the `go' statements.                          *)
(***************************************************************************)
Refuse(err) ==
    /\ mpc' = "refused"
    /\ verdict' = err

ValidateOptions ==
    /\ mpc = "validate"
    /\ IF opts.valid
       THEN mpc' = (IF opts.influx THEN "connect" ELSE "launch") /\ UNCHANGED verdict
       ELSE Refuse("options")
    /\ UNCHANGED <<streamVars, opts, summary, workerVars, resultsClosed, consumerVars,
                   callerReads, historyVars>>

\* newInfluxWriter, which InfluxSetup models in detail; here it succeeds or fails.
ConnectInflux ==
    /\ mpc = "connect"
    /\ \/ mpc' = "launch" /\ UNCHANGED verdict
       \/ Refuse("influx")
    /\ UNCHANGED <<streamVars, opts, summary, workerVars, resultsClosed, consumerVars,
                   callerReads, historyVars>>

Launch ==
    /\ mpc = "launch"
    /\ mpc' = "wait"
    /\ StartReader
    /\ cpc' = "recv"
    /\ wpc' = [w \in Workers |-> "select"]
    /\ UNCHANGED <<ctxVars, opts, verdict, summary, held, outcome, resultsClosed,
                   inHand, acc, callerReads, historyVars>>

-------------------------------------------------------------------------------
(***************************************************************************)
(* A worker: processEntries and send.                                      *)
(***************************************************************************)
Goto(w, from, to) ==
    /\ wpc[w] = from
    /\ wpc' = [wpc EXCEPT ![w] = to]

\* Mutant: an entry that cannot be made a request ends the worker.
SkipEnds == "exited"
\* Where the worker goes after `continue'.
AfterSkip == "select"

\* The receive case of the select, then EntryToRequest.
TakeEntry(w) ==
    /\ ReceiveEntry
    /\ IF input.items[Head(entries)] = "unbuildable"
       THEN /\ Goto(w, "select", AfterSkip)
            /\ skipped' = skipped + 1
            /\ UNCHANGED held
       ELSE /\ Goto(w, "select", "issue")
            /\ held' = [held EXCEPT ![w] = Head(entries)]
            /\ UNCHANGED skipped
    /\ UNCHANGED <<ctxVars, mainVars, outcome, resultsClosed, consumerVars, callerReads,
                   dropped, forwarded, missed, late>>

SeeClosed(w) ==
    /\ entries = <<>> /\ entriesClosed
    /\ Goto(w, "select", "exited")
    /\ UNCHANGED <<streamVars, mainVars, held, outcome, resultsClosed, consumerVars,
                   callerReads, historyVars>>

SeeDone(w) ==
    /\ ctxDone
    /\ Goto(w, "select", "exited")
    /\ UNCHANGED <<streamVars, mainVars, held, outcome, resultsClosed, consumerVars,
                   callerReads, historyVars>>

Exit(w, from) ==
    /\ Goto(w, from, "exited")
    /\ held' = [held EXCEPT ![w] = 0]

\* Mutant: a failed request is recorded whatever the state of the context.
NeverEnding == FALSE
\* `if ctx.Err() != nil': the failure is the end of the run, not a failed request.
RunEnded == ctxDone

\* Do returned an error.
RequestFails(w, from) ==
    /\ IF RunEnded
       THEN /\ Exit(w, from)
            /\ dropped' = dropped + 1
            /\ UNCHANGED outcome
       ELSE /\ Goto(w, from, "send")
            /\ outcome' = [outcome EXCEPT ![w] = "failed"]
            /\ UNCHANGED <<held, dropped>>
    /\ UNCHANGED <<streamVars, mainVars, resultsClosed, consumerVars, callerReads,
                   skipped, forwarded, missed, late>>

\* httpClient.Do: a request made with a context that is already done fails at once.
Issue(w) ==
    IF ctxDone
    THEN RequestFails(w, "issue")
    ELSE /\ Goto(w, "issue", "inflight")
         /\ UNCHANGED <<streamVars, mainVars, held, outcome, resultsClosed, consumerVars,
                        callerReads, historyVars>>

\* The response headers arrive and the body is drained.  A body that breaks off,
\* because of the server or of the context, leaves the result as it is.
Respond(w) ==
    /\ Goto(w, "inflight", "send")
    /\ input.items[held[w]] # "ws"
    /\ \E o \in {"ok", "cut"} : outcome' = [outcome EXCEPT ![w] = o]
    /\ UNCHANGED <<streamVars, mainVars, held, resultsClosed, consumerVars, callerReads,
                   historyVars>>

\* The request fails, because of the network, of the URL scheme or of the context.
Fail(w) == wpc[w] = "inflight" /\ RequestFails(w, "inflight")

\* Mutant: only completed requests are passed on to opts.Results.
ForwardCompleted(w) ==
    IF opts.results /\ outcome[w] # "failed" THEN "forward" ELSE "select"
\* Where the worker goes once the consumer has its result.
AfterDeliver(w) == IF opts.results THEN "forward" ELSE "select"

\* send(ctx, results, result): the consumer receives at the same instant.
Deliver(w) ==
    /\ cpc = "recv"
    /\ Goto(w, "send", AfterDeliver(w))
    /\ cpc' = "add"
    /\ inHand' = outcome[w]
    /\ held' = [held EXCEPT ![w] = 0]
    /\ outcome' = [outcome EXCEPT ![w] = "none"]
    /\ late' = [late EXCEPT ![w] = @ + (IF ctxDone THEN 1 ELSE 0)]
    /\ UNCHANGED <<streamVars, mainVars, resultsClosed, acc, callerReads,
                   skipped, dropped, forwarded, missed>>

DeliverCancelled(w) ==
    /\ ctxDone
    /\ Exit(w, "send")
    /\ outcome' = [outcome EXCEPT ![w] = "none"]
    /\ dropped' = dropped + 1
    /\ UNCHANGED <<streamVars, mainVars, resultsClosed, consumerVars, callerReads,
                   skipped, forwarded, missed, late>>

\* send(ctx, opts.Results, result)
Forward(w) ==
    /\ callerReads
    /\ Goto(w, "forward", "select")
    /\ forwarded' = forwarded + 1
    /\ UNCHANGED <<streamVars, mainVars, held, outcome, resultsClosed, consumerVars,
                   callerReads, skipped, dropped, missed, late>>

ForwardCancelled(w) ==
    /\ ctxDone
    /\ Goto(w, "forward", "exited")
    /\ missed' = missed + 1
    /\ UNCHANGED <<streamVars, mainVars, held, outcome, resultsClosed, consumerVars,
                   callerReads, skipped, dropped, forwarded, late>>

-------------------------------------------------------------------------------
(***************************************************************************)
(* The consumer.                                                           *)
(***************************************************************************)
\* outcome(status) # "ok": a cut response keeps the status it came with.
IsFailure(o) == o = "failed"

\* Mutant: a request that never completed is not counted at all.
AddCompleted(a, o) ==
    IF IsFailure(o) THEN [a EXCEPT !.failures = @ + 1] ELSE [a EXCEPT !.requests = @ + 1]
\* summaryAccumulator.add
Add(a, o) == [ requests |-> a.requests + 1,
               failures |-> a.failures + (IF IsFailure(o) THEN 1 ELSE 0) ]

AddResult ==
    /\ cpc = "add"
    /\ acc' = Add(acc, inHand)
    /\ inHand' = "none"
    /\ cpc' = (IF opts.influx THEN "write" ELSE "recv")
    /\ UNCHANGED <<streamVars, mainVars, workerVars, resultsClosed, callerReads,
                   historyVars>>

\* writer.writeOne: an error is logged and the result is not retried.
WriteOne ==
    /\ cpc = "write"
    /\ cpc' = "recv"
    /\ UNCHANGED <<streamVars, mainVars, workerVars, resultsClosed, inHand, acc,
                   callerReads, historyVars>>

ConsumerEnds ==
    /\ cpc = "recv" /\ resultsClosed
    /\ cpc' = "done"
    /\ UNCHANGED <<streamVars, mainVars, workerVars, resultsClosed, inHand, acc,
                   callerReads, historyVars>>

-------------------------------------------------------------------------------
(***************************************************************************)
(* The main goroutine, from wg.Wait on.                                    *)
(***************************************************************************)
\* Mutant: the wait group counts one worker only.
SomeWorkerExited == \E w \in Workers : wpc[w] = "exited"
WorkersExited    == \A w \in Workers : wpc[w] = "exited"

MainStep(from, to) ==
    /\ mpc = from
    /\ mpc' = to
    /\ UNCHANGED <<streamVars, opts, workerVars, consumerVars, callerReads, historyVars>>

WaitWorkers ==
    /\ WorkersExited
    /\ MainStep("wait", "close")
    /\ UNCHANGED <<verdict, summary, resultsClosed>>

CloseResults ==
    /\ MainStep("close", "joinConsumer")
    /\ resultsClosed' = TRUE
    /\ UNCHANGED <<verdict, summary>>

\* Mutant: the summary is taken without waiting for the consumer, or the reader.
NotJoined == TRUE
ConsumerJoined == cpc = "done"
ReaderJoined   == rpc = "done"

JoinConsumer ==
    /\ ConsumerJoined
    /\ MainStep("joinConsumer", "joinReader")
    /\ UNCHANGED <<verdict, summary, resultsClosed>>

JoinReader ==
    /\ ReaderJoined
    /\ MainStep("joinReader", "report")
    /\ UNCHANGED <<verdict, summary, resultsClosed>>

\* Mutant: every error of the reader is taken for the end of the run.
AnyErrorIsDone(err) == err # "nil"
IsDone(err) == err = "ctx"

Report ==
    /\ MainStep("report", "returned")
    /\ summary' = acc
    /\ verdict' = (IF readErr # "nil" /\ ~IsDone(readErr) THEN readErr ELSE "nil")
    /\ UNCHANGED resultsClosed

-------------------------------------------------------------------------------
Reader == ReaderStep /\ UNCHANGED <<ctxVars, loadVars>>

\* The steps of a worker that depend on nothing outside the program.
WorkerStep(w) ==
    \/ TakeEntry(w) \/ SeeClosed(w) \/ SeeDone(w) \/ Issue(w)
    \/ Deliver(w) \/ DeliverCancelled(w) \/ ForwardCancelled(w)

\* The server's answer, or the failure of the request.
RequestEnds(w) == Respond(w) \/ Fail(w)

Consumer == AddResult \/ WriteOne \/ ConsumerEnds

Main ==
    \/ ValidateOptions \/ ConnectInflux \/ Launch
    \/ WaitWorkers \/ CloseResults \/ JoinConsumer \/ JoinReader \/ Report

\* The caller cancels the context, or opts.Duration elapses.
ContextEnds == Cancel /\ UNCHANGED loadVars

\* The caller stops receiving from the channel it supplied.
CallerStops ==
    /\ opts.results /\ callerReads
    /\ callerReads' = FALSE
    /\ UNCHANGED <<streamVars, mainVars, workerVars, resultsClosed, consumerVars,
                   historyVars>>

Returned == mpc \in {"returned", "refused"}

\* The one state in which the program has nothing left to do.
Terminated == Returned /\ UNCHANGED vars

Next ==
    \/ Reader
    \/ \E w \in Workers : WorkerStep(w) \/ RequestEnds(w) \/ Forward(w)
    \/ Consumer
    \/ Main
    \/ ContextEnds
    \/ CallerStops
    \/ Terminated

(***************************************************************************)
(* Every goroutine runs when it can.  A request is bound to end only once  *)
(* the context is done: nothing in the client bounds reading a body.  The  *)
(* consumer's write and the main goroutine's connection attempt end        *)
(* because of influxHTTPTimeout.                                           *)
(***************************************************************************)
Fairness ==
    /\ WF_vars(Reader)
    /\ WF_vars(Consumer)
    /\ WF_vars(Main)
    /\ \A w \in Workers :
        /\ WF_vars(WorkerStep(w))
        /\ WF_vars(ctxDone /\ RequestEnds(w))

Spec     == Init /\ [][Next]_vars
FairSpec == Spec /\ Fairness

\* Every request is answered or fails, and the caller takes every result it is sent
\* for as long as it receives, as the documentation of opts.Results requires of it.
Cooperative ==
    \A w \in Workers : WF_vars(RequestEnds(w)) /\ WF_vars(Forward(w))

-------------------------------------------------------------------------------
LoadTypeOK ==
    /\ opts \in Options
    /\ mpc \in MainStates
    /\ verdict \in ReadErrors \cup {"none", "options", "influx"}
    /\ summary \in [requests : Nat, failures : Nat]
    /\ wpc \in [Workers -> WorkerStates]
    /\ held \in [Workers -> Nat]
    /\ outcome \in [Workers -> Outcomes \cup {"none"}]
    /\ resultsClosed \in BOOLEAN
    /\ cpc \in {"idle", "recv", "add", "write", "done"}
    /\ inHand \in Outcomes \cup {"none"}
    /\ acc \in [requests : Nat, failures : Nat]
    /\ callerReads \in BOOLEAN
    /\ skipped \in Nat /\ dropped \in Nat /\ forwarded \in Nat /\ missed \in Nat
    /\ late \in [Workers -> Nat]

TypeOK == StreamTypeOK /\ LoadTypeOK

\* No goroutine is about to send on a channel that is closed, nor is a channel closed
\* twice, either of which panics (load.go 181-184, read.go 34).
NoSendOnClosed ==
    /\ resultsClosed => mpc # "close" /\ \A w \in Workers : wpc[w] = "exited"
    /\ entriesClosed => rpc = "done"

\* LoadTest returns only when every goroutine it started has ended, so none outlives
\* the call, touches the caller's reader or writes to its Results (load.go 183-186).
NoGoroutineOutlivesCall ==
    mpc = "returned" =>
        /\ \A w \in Workers : wpc[w] = "exited"
        /\ cpc = "done" /\ rpc = "done"

\* The workers that hold an entry whose result is still to be delivered.
Holding == {w \in Workers : wpc[w] \in {"issue", "inflight", "send"}}

\* Every entry the reader sent is in the channel, or was skipped, or is with a worker,
\* or its result is with the consumer or in the summary, or was given up (load.go
\* 242-309): none is replayed twice and none vanishes.
EntriesAccounted ==
    nSent = Len(entries) + skipped + dropped + Cardinality(Holding)
            + (IF cpc = "add" THEN 1 ELSE 0) + acc.requests

\* Nothing is given up unless the context ended; a test that ends by itself has
\* drained the channel and its summary has one result for every entry a request
\* could be made of (load.go 94-95).
NothingLostUnlessEnded ==
    ~ctxDone =>
        /\ dropped = 0 /\ missed = 0
        /\ mpc = "returned" => entries = <<>> /\ summary.requests = nSent - skipped

Forwarding == {w \in Workers : wpc[w] = "forward"}

\* The caller's channel never gets ahead of the summary and lags behind it by no more
\* than what is in flight or was cut off by the end of the context (load.go 303-308).
ResultsCopied ==
    opts.results =>
        acc.requests + (IF cpc = "add" THEN 1 ELSE 0)
            = forwarded + missed + Cardinality(Forwarding)

\* Once the context is done a worker delivers at most the result it was busy with:
\* the requests the end of the run cuts short are not recorded (load.go 289-294).
AtMostOneLateResult == \A w \in Workers : late[w] <= 1

\* What LoadTest hands to the caller is all the consumer accumulated (load.go 183-191).
SummaryIsComplete == mpc = "returned" => summary = acc /\ inHand = "none"

\* LoadTest returns nil only when the context ended, or when the document holds
\* nothing to replay; anything else that stopped it is returned (load.go 193-202).
NilMeansEndedOrEmpty ==
    mpc = "returned" /\ verdict = "nil" =>
        \/ ctxDone
        \/ IsEmpty(input.items) /\ nSent = 0

\* LoadTest keeps the promise made to its caller, with the results the consumer has
\* received as those recorded (load.go 94-203).
Contract == INSTANCE LoadContract WITH
    phase    <- IF Returned THEN "returned" ELSE "open",
    ended    <- ctxDone,
    recorded <- acc.requests + (IF cpc = "add" THEN 1 ELSE 0),
    spent    <- {w \in Workers : late[w] > 0},
    Errors   <- ReadErrors \cup {"options", "influx"}
ContractSafety == Contract!Safety
ContractSpec   == Contract!Spec

\* After LoadTest has returned nothing it started changes anything any more.
QuietAfterReturn ==
    [][mpc = "returned" =>
        UNCHANGED <<readerVars, mainVars, workerVars, consumerVars, historyVars>>]_vars

\* When the reader ends by itself the workers drain the channel and the call returns,
\* provided that the requests end and the caller keeps receiving.
DrainEndsCall == Cooperative => (rpc = "done" ~> Returned \/ ~callerReads)
===============================================================================
