-------------------------------- MODULE Recorder --------------------------------
(***************************************************************************)
(* What becomes of the results of a load test: LoadTest connects to        *)
(* InfluxDB if it was asked to (InfluxSetup), its consumer adds each       *)
(* result to the summary (Summary) and writes it to InfluxDB (influxdb.go  *)
(* 134-188), and when the workers have gone the summary is computed and    *)
(* the client closed.  Here the workers are the environment: LoadTest says *)
(* which results they deliver, and how many once the context has ended.    *)
(*                                                                         *)
(* InfluxDB keeps one point for each measurement, tag set and timestamp; a *)
(* write to a point that exists replaces it.                               *)
(***************************************************************************)
EXTENDS InfluxSetup, Summary

CONSTANTS
    Late,       \* how many results may arrive after the context ended: one a worker
    MaxWritten, \* bound of the model: how many results are written to InfluxDB
    RecordBy,   \* bound of the model: a later start of the recording is not followed
    Horizon     \* bound of the model: when results stop arriving at the latest

ASSUME LateAssumption == Late \in Nat
ASSUME BoundsAssumption == MaxWritten \in Nat /\ RecordBy \in Nat /\ Horizon \in Nat

VARIABLES
    useInflux,  \* opts.InfluxDBURL is set; never changes
    started,    \* when the recording began
    writing,    \* the consumer is in writeOne with the latest result
    lateCount,  \* how many results arrived after the context ended
    series,     \* the points InfluxDB has: a function from what identifies a point
    lost        \* history: the positions in `added' of the writes that failed

recorderVars == <<useInflux, started, writing, lateCount, series, lost>>
vars         == <<setupVars, summaryVars, recorderVars>>

\* When the context of the test ends.
TestEnd == Least({cancelAt} \cup TestDeadlines)

Init ==
    /\ SetupInit /\ SummaryInit
    /\ useInflux \in BOOLEAN
    /\ started = 0 /\ writing = FALSE /\ lateCount = 0
    /\ series = [id \in {} |-> 0]
    /\ lost = {}

Connect ==
    /\ useInflux
    /\ SetupStep
    /\ UNCHANGED <<summaryVars, recorderVars>>

\* The reader, the workers and the consumer are started.
Begin ==
    /\ phase = (IF useInflux THEN "connected" ELSE "new")
    /\ now <= RecordBy
    /\ phase' = "recording"
    /\ started' = now
    /\ UNCHANGED <<setupInputs, now, attempt, client, err, pingAt, summaryVars, useInflux,
                   writing, lateCount, series, lost>>

Receiving == phase = "recording" /\ ~writing

\* No result is there yet.
AwaitResult ==
    /\ Receiving
    /\ now < TestEnd /\ now < Horizon
    /\ now' = now + 1
    /\ UNCHANGED <<setupInputs, phase, attempt, client, err, pingAt, summaryVars,
                   recorderVars>>

\* A request begun before the context ended may be answered, and delivered, after that.
Receive(result) ==
    /\ Receiving
    /\ \/ now < TestEnd /\ UNCHANGED lateCount
       \/ started < TestEnd /\ TestEnd <= now /\ lateCount < Late
          /\ lateCount' = lateCount + 1
    /\ useInflux => Len(added) < MaxWritten
    /\ Add(result)
    /\ writing' = useInflux
    /\ UNCHANGED <<setupVars, useInflux, started, series, lost>>

-------------------------------------------------------------------------------
(***************************************************************************)
(* writeOne                                                                *)
(***************************************************************************)
\* Mutant: the timestamp of a point is in milliseconds.
InMilliseconds(result) == result.start \div 1000000
\* Precision: "ns"
Timestamp(result) == result.start

\* The tags, but for the name of the HAR file, which is the same for all results.
Tags(result) == [method |-> result.method, status |-> result.status,
                 outcome |-> Outcome(result.status)]

Identity(result) == [tags |-> Tags(result), time |-> Timestamp(result)]

Store(result) ==
    series' = [id \in DOMAIN series \cup {Identity(result)} |->
                 IF id = Identity(result) THEN result ELSE series[id]]

\* Mutant: the client has no timeout, and the server takes its time.
Unbounded == 0..(4 * HTTPTimeout)
\* How long client.Write may take: influxHTTPTimeout bounds it.
WriteTimes == 0..HTTPTimeout

\* Nothing interrupts a write, and a failed one is logged and not repeated.  When it
\* fails for want of an answer InfluxDB may have the point all the same.
WriteOne(d) ==
    /\ phase = "recording" /\ writing
    /\ now' = now + d
    /\ \/ d < HTTPTimeout /\ Store(added[Len(added)]) /\ UNCHANGED lost
       \/ /\ Store(added[Len(added)]) \/ UNCHANGED series
          /\ lost' = lost \cup {Len(added)}
    /\ writing' = FALSE
    /\ UNCHANGED <<setupInputs, phase, attempt, client, err, pingAt, summaryVars,
                   useInflux, started, lateCount>>

-------------------------------------------------------------------------------
\* The workers have exited, because the context ended or there is nothing to replay, and
\* the consumer has seen the end of the results.
Sum ==
    /\ Receiving
    /\ Summarise
    /\ phase' = "summing"
    /\ UNCHANGED <<setupInputs, now, attempt, client, err, pingAt, recorderVars>>

\* Mutant: LoadTest returns without closing the client.
NobodyCloses == UNCHANGED client
\* defer w.close(), which is there only if there is a writer.
CloseWriter == client' = (IF useInflux THEN "closed" ELSE client)

Return ==
    /\ phase = "summing"
    /\ phase' = "returned"
    /\ CloseWriter
    /\ UNCHANGED <<setupInputs, now, attempt, err, pingAt, summaryVars, recorderVars>>

\* Over, or beyond RecordBy.
Ended ==
    \/ phase \in {"failed", "returned"}
    \/ phase = "connected" /\ now > RecordBy

Next ==
    \/ Connect \/ Begin \/ AwaitResult
    \/ \E result \in TestResults : Receive(result)
    \/ \E d \in WriteTimes : WriteOne(d)
    \/ Sum \/ Return
    \/ Ended /\ UNCHANGED vars

Spec == Init /\ [][Next]_vars

-------------------------------------------------------------------------------
TypeOK ==
    /\ SetupTypeOK /\ SummaryTypeOK
    /\ useInflux \in BOOLEAN /\ writing \in BOOLEAN
    /\ started \in Nat /\ lateCount \in 0..Late
    /\ \A id \in DOMAIN series : series[id] \in TestResults
    /\ lost \subseteq DOMAIN added

\* The client is released whenever the setup fails, however far it had got; it is open
\* for as long as anything may be written through it; and it is closed when LoadTest
\* returns (influxdb.go 75-104, load.go 136).
ClientReleased ==
    /\ phase = "failed" => client = (IF err = "client" THEN "none" ELSE "closed")
    /\ phase \in {"ping", "backoff", "create", "connected", "recording"} =>
          client = (IF useInflux THEN "open" ELSE "none")
    /\ phase = "returned" => client # "open"

\* A slow InfluxDB keeps LoadTest from returning for no longer than one write after the
\* end of the context, and one more for each late result (influxdb.go 20-25).
ReturnsInTime ==
    phase = "returned" =>
        LET last == IF started < TestEnd THEN TestEnd ELSE started
        IN  now <= last + (IF useInflux THEN (1 + Late) * HTTPTimeout ELSE 0)

Written == IF useInflux /\ ~writing /\ phase \in {"recording", "summing", "returned"}
           THEN DOMAIN added \ lost ELSE {}

\* Results that differ in status or method, or began at different instants, are never
\* one point: each written result is in the series, unless a later one was made with
\* the same method and status at the very same nanosecond (influxdb.go 137-172).
ResultsStayDistinct ==
    \A i \in Written :
        \/ \E id \in DOMAIN series : series[id] = added[i]
        \/ \E j \in DOMAIN added : /\ j > i
                                   /\ added[j].start = added[i].start
                                   /\ added[j].status = added[i].status
                                   /\ added[j].method = added[i].method

\* "the summary and the recorded series always agree on what counts as a failure"
\* (summary.go 64): if every write succeeded and no two requests began in the same
\* nanosecond, counting the points gives the figures of the summary.
SeriesAgreesWithSummary ==
    phase = "returned" /\ useInflux /\ lost = {}
        /\ (\A i, j \in DOMAIN added : added[i].start = added[j].start => i = j) =>
      /\ report[1].requests = Cardinality(DOMAIN series)
      /\ report[1].failures =
            Cardinality({id \in DOMAIN series : id.tags.outcome # "ok"})
      /\ \A s \in DOMAIN report[1].statusCounts :
            report[1].statusCounts[s] =
                Cardinality({id \in DOMAIN series : id.tags.status = s})
===============================================================================
