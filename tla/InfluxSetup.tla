------------------------------ MODULE InfluxSetup ------------------------------
(***************************************************************************)
(* Connecting to InfluxDB before a load test: the deadline LoadTest gives  *)
(* the setup (load.go 113-138) and newInfluxWriter's pings, backoff and    *)
(* CREATE DATABASE (influxdb.go 38-107), with the time they take.          *)
(*                                                                         *)
(* Time advances in whole units (the MC module takes ten seconds for one). *)
(* A request to the server takes any time up to the HTTP client's timeout. *)
(* The context is looked at only while backing off.                        *)
(***************************************************************************)
EXTENDS Integers

CONSTANTS
    Attempts,       \* influxPingAttempts
    HTTPTimeout,    \* influxHTTPTimeout
    Backoff,        \* the pause between two pings
    SetupTimeout,   \* influxSetupTimeout
    Durations,      \* values of opts.Duration, 0 for none
    CancelTimes     \* when the caller may cancel; later than any run for never

ASSUME AttemptsAssumption == Attempts \in Nat \ {0}
ASSUME TimesAssumption ==
    /\ HTTPTimeout \in Nat \ {0} /\ Backoff \in Nat \ {0} /\ SetupTimeout \in Nat \ {0}
    /\ Durations \subseteq Nat /\ CancelTimes \subseteq Nat

VARIABLES
    duration,   \* opts.Duration
    cancelAt,   \* when the caller cancels its context
    nameOK,     \* the path of the URL is a database identifier
    now,
    phase,      \* where newInfluxWriter is, then what LoadTest does with the client
    attempt,
    client,     \* "none", "open" or "closed"
    err,        \* what newInfluxWriter returned
    pingAt      \* history: when the latest ping began

SetupPhases == {"new", "ping", "backoff", "create", "connected", "failed"}
\* Once the setup is over, or was not asked for: see Recorder.
LaterPhases == {"recording", "summing", "returned"}

setupInputs == <<duration, cancelAt, nameOK>>
setupVars   == <<setupInputs, now, phase, attempt, client, err, pingAt>>

Least(S) == CHOOSE t \in S : \A u \in S : t <= u

\* context.WithTimeout(ctx, opts.Duration), started before the setup.
TestDeadlines == IF duration > 0 THEN {duration} ELSE {}

\* When the context given to newInfluxWriter ends: its own timeout, and whatever ends
\* the context it is derived from.
SetupDeadline == Least({SetupTimeout, cancelAt} \cup TestDeadlines)

SetupInit ==
    /\ duration \in Durations /\ cancelAt \in CancelTimes /\ nameOK \in BOOLEAN
    /\ now = 0
    /\ phase = "new" /\ attempt = 1 /\ pingAt = 0
    /\ client = "none"
    /\ err = "none"

\* Mutant: an error return that leaves the client open.
LeaveOpen == UNCHANGED client
CloseClient == client' = "closed"

Fails(e) ==
    /\ phase' = "failed"
    /\ err' = e
    /\ CloseClient

\* client.NewHTTPClient rejects a URL it cannot use; there is no client to close then.
NewClient ==
    /\ phase = "new"
    /\ \/ phase' = "ping" /\ client' = "open" /\ UNCHANGED err
       \/ phase' = "failed" /\ err' = "client" /\ UNCHANGED client
    /\ UNCHANGED <<setupInputs, now, attempt, pingAt>>

PingSucceeds(d) ==
    /\ phase = "ping"
    /\ d < HTTPTimeout
    /\ now' = now + d
    /\ IF nameOK
       THEN phase' = "create" /\ UNCHANGED <<err, client>>
       ELSE Fails("name")
    /\ UNCHANGED <<setupInputs, attempt, pingAt>>

LastAttempt == attempt = Attempts

PingFails(d) ==
    /\ phase = "ping"
    /\ now' = now + d
    /\ IF LastAttempt
       THEN Fails("ping")
       ELSE phase' = "backoff" /\ UNCHANGED <<err, client>>
    /\ UNCHANGED <<setupInputs, attempt, pingAt>>

\* Mutant: the pause is a sleep that no context interrupts.
SleepThrough ==
    /\ phase = "backoff"
    /\ now' = now + Backoff
    /\ phase' = "ping" /\ attempt' = attempt + 1 /\ pingAt' = now + Backoff
    /\ UNCHANGED <<setupInputs, client, err>>

\* time.After wins the select: the context does not end before the pause is over.
BackoffElapses ==
    /\ phase = "backoff"
    /\ SetupDeadline >= now + Backoff
    /\ now' = now + Backoff
    /\ phase' = "ping" /\ attempt' = attempt + 1 /\ pingAt' = now + Backoff
    /\ UNCHANGED <<setupInputs, client, err>>

\* ctx.Done wins: at once if the context is done already.
BackoffCancelled ==
    /\ phase = "backoff"
    /\ SetupDeadline <= now + Backoff
    /\ now' = (IF SetupDeadline > now THEN SetupDeadline ELSE now)
    /\ Fails(IF SetupDeadline \in TestDeadlines THEN "testDeadline"
             ELSE IF SetupDeadline = cancelAt THEN "cancelled" ELSE "setupTimeout")
    /\ UNCHANGED <<setupInputs, attempt, pingAt>>

CreateDatabase(d) ==
    /\ phase = "create"
    /\ now' = now + d
    /\ \/ d < HTTPTimeout /\ phase' = "connected" /\ UNCHANGED <<err, client>>
       \/ Fails("create")
    /\ UNCHANGED <<setupInputs, attempt, pingAt>>

SetupStep ==
    \/ NewClient
    \/ \E d \in 0..HTTPTimeout : PingSucceeds(d) \/ PingFails(d) \/ CreateDatabase(d)
    \/ BackoffElapses \/ BackoffCancelled

\* newInfluxWriter by itself.
SetupEnded == phase \in {"connected", "failed"}
SetupNext  == SetupStep \/ (SetupEnded /\ UNCHANGED setupVars)
SetupSpec  == SetupInit /\ [][SetupNext]_setupVars

-------------------------------------------------------------------------------
SetupTypeOK ==
    /\ duration \in Durations /\ cancelAt \in CancelTimes /\ nameOK \in BOOLEAN
    /\ now \in Nat /\ pingAt \in Nat
    /\ phase \in SetupPhases \cup LaterPhases
    /\ attempt \in 1..Attempts
    /\ client \in {"none", "open", "closed"}
    /\ err \in {"none", "client", "name", "ping", "create", "cancelled", "testDeadline",
                "setupTimeout"}

\* The setup outlasts its context by two requests at the most, because no further ping
\* begins once it has ended: a ping begun just before that, and the query after it.  And
\* whatever the context allows, the setup is over after the slowest run of pings, pauses
\* and one query (influxdb.go 57-104).
EndsInTime ==
    /\ attempt > 1 => pingAt <= SetupDeadline
    /\ phase \in SetupPhases =>
         /\ now <= SetupDeadline + 2 * HTTPTimeout
         /\ now <= Attempts * HTTPTimeout + (Attempts - 1) * Backoff + HTTPTimeout

\* "setup neither eats the test budget" (load.go 83): a test that got connected has the
\* whole of its duration before it.
BudgetUntouched ==
    phase = "connected" /\ duration > 0 => TestDeadlines = {now + duration}
===============================================================================
