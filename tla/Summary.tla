-------------------------------- MODULE Summary --------------------------------
(***************************************************************************)
(* The figures of a load test (summary.go): one result after another is    *)
(* added, then summary() computes the nearest-rank percentiles of the      *)
(* latencies.  Recorder says who adds results and when.                    *)
(***************************************************************************)
EXTENDS Sorting, Integers, Sequences, FiniteSets

CONSTANTS
    TestResults,    \* the results the workers may deliver
    MaxResults      \* bound of the model: how many results are added

\* TestResult: `status' is 0 when there was no response, `start' is in nanoseconds.
ResultType == [method : STRING, status : Nat, start : Nat, latency : Nat]

ASSUME ResultsAssumption == TestResults \subseteq ResultType
ASSUME MaxAssumption == MaxResults \in Nat

VARIABLES
    latencies,      \* summaryAccumulator.latencies, sorted in place by summary()
    statusCounts,   \* a Go map: a status that never came is absent
    failures,
    report,         \* <<what summary() returned>>, or <<>>
    added           \* history: the results, in the order they were added

summaryVars == <<latencies, statusCounts, failures, report, added>>

SummaryInit ==
    /\ latencies = <<>>
    /\ statusCounts = [s \in {} |-> 0]
    /\ failures = 0
    /\ report = <<>>
    /\ added = <<>>

\* outcome, which the tags of an InfluxDB point use too.
Outcome(status) == IF status = 0 THEN "error" ELSE IF status < 400 THEN "ok" ELSE "failed"

\* Mutant: a request that got no response is not a failure.
OnlyFailed(status) == Outcome(status) = "failed"
IsFailure(status) == Outcome(status) # "ok"

\* Mutant: the first result of a status is not counted.
StartAtZero(counts, status) ==
    [s \in DOMAIN counts \cup {status} |->
        IF s \notin DOMAIN counts THEN 0 ELSE counts[s] + (IF s = status THEN 1 ELSE 0)]
\* a.statusCounts[status]++ on a map that may not have the key yet.
Count(counts, status) ==
    [s \in DOMAIN counts \cup {status} |->
        (IF s \in DOMAIN counts THEN counts[s] ELSE 0) + (IF s = status THEN 1 ELSE 0)]

Add(result) ==
    /\ report = <<>>
    /\ Len(added) < MaxResults
    /\ latencies' = Append(latencies, result.latency)
    /\ statusCounts' = Count(statusCounts, result.status)
    /\ failures' = failures + (IF IsFailure(result.status) THEN 1 ELSE 0)
    /\ added' = Append(added, result)
    /\ UNCHANGED report

(***************************************************************************)
(* percentile: the rank is ceil(p/100 * N) in integer arithmetic, and what *)
(* is returned is one of the latencies.                                    *)
(***************************************************************************)
\* Mutant: the rank is rounded down.
FloorRank(p, n) == (p * n) \div 100
Rank(p, n) == (p * n + 99) \div 100

Clamp(rank, n) == IF rank < 1 THEN 1 ELSE IF rank > n THEN n ELSE rank

Percentile(sorted, p) ==
    LET n == Len(sorted) IN IF n = 0 THEN 0 ELSE sorted[Clamp(Rank(p, n), n)]

Percentiles == {50, 95, 99}

InOrder(seq) ==
    LET order == Sorted(seq, DOMAIN seq) IN [k \in DOMAIN seq |-> seq[order[k]]]

Summarise ==
    /\ report = <<>>
    /\ latencies' = InOrder(latencies)
    /\ report' = <<[ requests |-> Len(latencies),
                     failures |-> failures,
                     min |-> IF latencies = <<>> THEN 0 ELSE latencies'[1],
                     max |-> IF latencies = <<>> THEN 0 ELSE latencies'[Len(latencies)],
                     percentile |-> [q \in Percentiles |-> Percentile(latencies', q)],
                     statusCounts |-> statusCounts]>>
    /\ UNCHANGED <<statusCounts, failures, added>>

-------------------------------------------------------------------------------
SummaryTypeOK ==
    /\ latencies \in Seq(Nat) /\ Len(latencies) <= MaxResults
    /\ DOMAIN statusCounts \subseteq {r.status : r \in TestResults}
    /\ \A s \in DOMAIN statusCounts : statusCounts[s] \in 1..MaxResults
    /\ failures \in 0..Len(latencies)
    /\ added \in Seq(TestResults) /\ Len(added) = Len(latencies)

Results(P(_)) == Cardinality({i \in DOMAIN added : P(added[i])})

\* The three tallies tell one story at every moment, whatever came in which order: the
\* failures are the results that the status counts have under 0 or under 400 and above,
\* and there is one latency for each result (summary.go 59-68).
TalliesAgree ==
    /\ \A s \in DOMAIN statusCounts :
            statusCounts[s] = Results(LAMBDA r : r.status = s)
    /\ \A i \in DOMAIN added : added[i].status \in DOMAIN statusCounts
    /\ failures = Results(LAMBDA r : r.status = 0 \/ r.status >= 400)
    /\ \A l \in {r.latency : r \in TestResults} :
            Results(LAMBDA r : r.latency = l) =
                Cardinality({i \in DOMAIN latencies : latencies[i] = l})

\* The p-th percentile is a latency that was observed, that at least p per cent of the
\* results do not exceed, and that no smaller observed one does as well (summary.go
\* 102-116).
PercentilesAreNearestRank ==
    report # <<>> /\ added # <<>> =>
        \A p \in Percentiles :
            LET v == report[1].percentile[p] IN
              /\ \E i \in DOMAIN added : added[i].latency = v
              /\ 100 * Results(LAMBDA r : r.latency <= v) >= p * Len(added)
              /\ 100 * Results(LAMBDA r : r.latency < v) < p * Len(added)
===============================================================================
