----------------------------- MODULE RecorderProofs -----------------------------
(***************************************************************************)
(* Proofs about Recorder, for every timeout, number of pings and of        *)
(* workers, and every set of results.                                      *)
(***************************************************************************)
EXTENDS Recorder, SortingProofs, SequenceTheorems, FiniteSetTheorems, TLAPS

\* The pings and pauses before the attempt at hand, at their longest.
SlowestBefore == (attempt - 1) * (HTTPTimeout + Backoff)

\* When results stop being received, but for the late ones.
LastArrival == IF started < TestEnd THEN TestEnd ELSE started

TimeTypes ==
    /\ SetupTypeOK
    /\ useInflux \in BOOLEAN /\ writing \in BOOLEAN
    /\ started \in Nat /\ lateCount \in 0..Late

\* Whether there is a client, at each place of the code.
ClientInv ==
    /\ phase = "new" => client = "none"
    /\ phase \in {"ping", "backoff", "create", "connected"} => useInflux /\ client = "open"
    /\ phase \in {"recording", "summing"} => client = (IF useInflux THEN "open" ELSE "none")
    /\ phase = "failed" => client = (IF err = "client" THEN "none" ELSE "closed")
    /\ phase = "returned" => client # "open"
    /\ phase \in SetupPhases \ {"failed"} => err = "none"
    /\ writing => phase = "recording" /\ useInflux

\* How long the setup has taken: counted from its start, and from the latest ping.
SetupTimeInv ==
    /\ attempt = 1 => pingAt = 0
    /\ attempt > 1 => pingAt <= SetupDeadline
    /\ phase = "new" => now = 0 /\ attempt = 1
    /\ phase = "ping" => now <= SlowestBefore /\ now = pingAt
    /\ phase = "backoff" => attempt < Attempts
    /\ phase \in {"backoff", "create"} =>
          now <= SlowestBefore + HTTPTimeout /\ now <= pingAt + HTTPTimeout
    /\ phase = "connected" =>
          now <= SlowestBefore + 2 * HTTPTimeout /\ now <= pingAt + 2 * HTTPTimeout
    /\ phase = "failed" =>
          /\ now <= (Attempts - 1) * (HTTPTimeout + Backoff) + 2 * HTTPTimeout
          /\ now <= SetupDeadline + 2 * HTTPTimeout

\* How long the test has taken: each late result leaves room for one more write.
TestTimeInv ==
    phase \in {"recording", "summing", "returned"} =>
        /\ started <= now
        /\ ~useInflux => now <= LastArrival
        /\ writing => now <= LastArrival + lateCount * HTTPTimeout
        /\ ~writing => now <= LastArrival + (1 + lateCount) * HTTPTimeout

\* The inductive invariant for what concerns the client and the time.
TimeInv == TimeTypes /\ ClientInv /\ SetupTimeInv /\ TestTimeInv

-------------------------------------------------------------------------------
(***************************************************************************)
(* Arithmetic and deadlines.                                               *)
(***************************************************************************)
LEMMA ProductGrows ==
  ASSUME NEW a \in Nat, NEW b \in Nat, NEW k \in Nat, a <= b
  PROVE  a * k \in Nat /\ a * k <= b * k
  <1>1. PICK c \in Nat : b = a + c
    <2>1. b - a \in Nat /\ b = a + (b - a)
      OBVIOUS
    <2> QED
      BY <2>1
  <1>2. c * k \in Nat /\ a * k \in Nat
    OBVIOUS
  <1>3. b * k = a * k + c * k
    BY <1>1
  <1> QED
    BY <1>2, <1>3

LEMMA LeastIsIn ==
  ASSUME NEW a \in Nat, NEW b \in Nat, NEW T \in SUBSET Nat,
         T = {} \/ \E c \in Nat : T = {c}
  PROVE  Least({a, b} \cup T) \in Nat
  <1>1. \E t \in {a, b} \cup T : \A u \in {a, b} \cup T : t <= u
    <2>1. CASE T = {}
      <3>1. (\A u \in {a, b} \cup T : a <= u) \/ (\A u \in {a, b} \cup T : b <= u)
        BY <2>1
      <3> QED
        BY <3>1
    <2>2. ASSUME NEW c \in Nat, T = {c}
          PROVE  \E t \in {a, b} \cup T : \A u \in {a, b} \cup T : t <= u
      <3>1. \/ \A u \in {a, b} \cup T : a <= u
            \/ \A u \in {a, b} \cup T : b <= u
            \/ \A u \in {a, b} \cup T : c <= u
        BY <2>2
      <3> QED
        BY <2>2, <3>1
    <2> QED
      BY <2>1, <2>2
  <1>2. Least({a, b} \cup T) \in {a, b} \cup T
    BY <1>1 DEF Least
  <1> QED
    BY <1>2

LEMMA DeadlinesAreTimes ==
  ASSUME duration \in Nat, cancelAt \in Nat
  PROVE  SetupDeadline \in Nat /\ TestEnd \in Nat
  <1>1. TestDeadlines \in SUBSET Nat
        /\ (TestDeadlines = {} \/ \E c \in Nat : TestDeadlines = {c})
    BY DEF TestDeadlines
  <1>2. SetupDeadline \in Nat
    BY <1>1, LeastIsIn, TimesAssumption DEF SetupDeadline
  <1>3. {cancelAt} \cup TestDeadlines = {cancelAt, cancelAt} \cup TestDeadlines
    OBVIOUS
  <1>4. TestEnd \in Nat
    BY <1>1, <1>3, LeastIsIn DEF TestEnd
  <1> QED
    BY <1>2, <1>4

\* Nothing moves the deadlines, or changes whether InfluxDB is used.
LEMMA DeadlinesStay ==
  ASSUME UNCHANGED setupInputs
  PROVE  SetupDeadline' = SetupDeadline /\ TestEnd' = TestEnd
  <1>1. duration' = duration /\ cancelAt' = cancelAt
    BY DEF setupInputs
  <1>2. TestDeadlines' = TestDeadlines
    BY <1>1 DEF TestDeadlines
  <1> QED
    BY <1>1, <1>2 DEF SetupDeadline, TestEnd

LEMMA InitialTimes ==
  ASSUME Init
  PROVE  TimeInv
  <1>1. TimeTypes
    <2>1. attempt \in 1..Attempts /\ lateCount \in 0..Late
      BY AttemptsAssumption, LateAssumption DEF Init, SetupInit
    <2>2. now \in Nat /\ pingAt \in Nat /\ started \in Nat
      BY DEF Init, SetupInit
    <2>3. useInflux \in BOOLEAN /\ writing \in BOOLEAN /\ nameOK \in BOOLEAN
      BY Zenon DEF Init, SetupInit
    <2>4. duration \in Durations /\ cancelAt \in CancelTimes
      BY DEF Init, SetupInit
    <2> QED
      BY <2>1, <2>2, <2>3, <2>4
         DEF Init, SetupInit, TimeTypes, SetupTypeOK, SetupPhases
  <1>2. ClientInv
    BY DEF Init, SetupInit, ClientInv, SetupPhases
  <1>3. SetupTimeInv
    BY DEF Init, SetupInit, SetupTimeInv
  <1>4. TestTimeInv
    BY DEF Init, SetupInit, TestTimeInv
  <1> QED
    BY <1>1, <1>2, <1>3, <1>4 DEF TimeInv

-------------------------------------------------------------------------------
(***************************************************************************)
(* The setup, one lemma for each step of newInfluxWriter.                  *)
(***************************************************************************)
LEMMA SetupFacts ==
  ASSUME TimeInv, UNCHANGED setupInputs
  PROVE  /\ SetupDeadline' = SetupDeadline /\ SetupDeadline \in Nat
         /\ now \in Nat /\ pingAt \in Nat /\ attempt \in 1..Attempts
         /\ HTTPTimeout \in Nat /\ Backoff \in Nat /\ Attempts \in Nat
         /\ SlowestBefore \in Nat
         /\ (Attempts - 1) * (HTTPTimeout + Backoff) \in Nat
         /\ SlowestBefore <= (Attempts - 1) * (HTTPTimeout + Backoff)
  <1>1. /\ duration \in Nat /\ cancelAt \in Nat
        /\ now \in Nat /\ pingAt \in Nat /\ attempt \in 1..Attempts
    BY TimesAssumption DEF TimeInv, TimeTypes, SetupTypeOK
  <1>2. /\ HTTPTimeout \in Nat /\ Backoff \in Nat /\ HTTPTimeout + Backoff \in Nat
        /\ Attempts - 1 \in Nat /\ Attempts \in Nat /\ attempt - 1 \in Nat
        /\ attempt - 1 <= Attempts - 1
    BY <1>1, AttemptsAssumption, TimesAssumption
  <1>3. SlowestBefore \in Nat
        /\ SlowestBefore <= (Attempts - 1) * (HTTPTimeout + Backoff)
    BY <1>2, ProductGrows DEF SlowestBefore
  <1>4. (Attempts - 1) * (HTTPTimeout + Backoff) \in Nat
    BY <1>2, ProductGrows
  <1> QED
    BY <1>1, <1>2, <1>3, <1>4, DeadlinesStay, DeadlinesAreTimes

LEMMA NewClientKeeps ==
  ASSUME TimeInv, useInflux, NewClient, UNCHANGED recorderVars
  PROVE  TimeInv'
  <1> USE DEF TimeInv, NewClient, setupInputs, recorderVars
  <1>1. TimeTypes'
    BY DEF TimeTypes, SetupTypeOK, SetupPhases
  <1>2. ClientInv'
    BY DEF ClientInv, SetupPhases
  <1>3. SetupTimeInv'
    <2>1. SlowestBefore' = 0 /\ now' = 0 /\ attempt' = 1 /\ pingAt' = 0
      BY TimesAssumption DEF SetupTimeInv, SlowestBefore
    <2> QED
      BY <2>1, SetupFacts DEF SetupTimeInv
  <1>4. TestTimeInv'
    BY DEF TestTimeInv
  <1> QED
    BY <1>1, <1>2, <1>3, <1>4

LEMMA PingSucceedsKeeps ==
  ASSUME TimeInv, useInflux, NEW d \in 0..HTTPTimeout, PingSucceeds(d),
         UNCHANGED recorderVars
  PROVE  TimeInv'
  <1> USE DEF TimeInv, PingSucceeds, Fails, CloseClient, setupInputs, recorderVars
  <1>1. TimeTypes'
    BY TimesAssumption DEF TimeTypes, SetupTypeOK, SetupPhases
  <1>2. ClientInv'
    BY DEF ClientInv, SetupPhases
  <1>3. SetupTimeInv'
    <2>1. SlowestBefore' = SlowestBefore /\ now' = now + d
      BY DEF SlowestBefore
    <2> QED
      BY <2>1, SetupFacts DEF SetupTimeInv
  <1>4. TestTimeInv'
    BY DEF TestTimeInv
  <1> QED
    BY <1>1, <1>2, <1>3, <1>4

LEMMA PingFailsKeeps ==
  ASSUME TimeInv, useInflux, NEW d \in 0..HTTPTimeout, PingFails(d),
         UNCHANGED recorderVars
  PROVE  TimeInv'
  <1> USE DEF TimeInv, PingFails, LastAttempt, Fails, CloseClient, setupInputs, recorderVars
  <1>1. TimeTypes'
    BY TimesAssumption DEF TimeTypes, SetupTypeOK, SetupPhases
  <1>2. ClientInv'
    BY DEF ClientInv, SetupPhases
  <1>3. SetupTimeInv'
    <2>1. SlowestBefore' = SlowestBefore /\ now' = now + d
      BY DEF SlowestBefore
    <2> QED
      BY <2>1, SetupFacts DEF SetupTimeInv
  <1>4. TestTimeInv'
    BY DEF TestTimeInv
  <1> QED
    BY <1>1, <1>2, <1>3, <1>4

LEMMA BackoffElapsesKeeps ==
  ASSUME TimeInv, useInflux, BackoffElapses, UNCHANGED recorderVars
  PROVE  TimeInv'
  <1> USE DEF TimeInv, BackoffElapses, setupInputs, recorderVars
  <1>1. TimeTypes'
    BY AttemptsAssumption, TimesAssumption
       DEF TimeTypes, SetupTypeOK, SetupPhases, SetupTimeInv
  <1>2. ClientInv'
    BY DEF ClientInv, SetupPhases
  <1>3. SetupTimeInv'
    <2>1. now' = now + Backoff /\ now + Backoff <= SetupDeadline
      BY SetupFacts
    <2>2. SlowestBefore' = SlowestBefore + HTTPTimeout + Backoff
      BY SetupFacts DEF SlowestBefore
    <2> QED
      BY <2>1, <2>2, SetupFacts DEF SetupTimeInv
  <1>4. TestTimeInv'
    BY DEF TestTimeInv
  <1> QED
    BY <1>1, <1>2, <1>3, <1>4

LEMMA BackoffCancelledKeeps ==
  ASSUME TimeInv, useInflux, BackoffCancelled, UNCHANGED recorderVars
  PROVE  TimeInv'
  <1> USE DEF TimeInv, BackoffCancelled, Fails, CloseClient, setupInputs, recorderVars
  <1>1. TimeTypes'
    BY SetupFacts DEF TimeTypes, SetupTypeOK, SetupPhases
  <1>2. ClientInv'
    BY DEF ClientInv, SetupPhases
  <1>3. SetupTimeInv'
    <2>1. SlowestBefore + HTTPTimeout + Backoff
            <= (Attempts - 1) * (HTTPTimeout + Backoff)
      <3>1. attempt <= Attempts - 1 /\ attempt \in Nat /\ Attempts - 1 \in Nat
            /\ HTTPTimeout + Backoff \in Nat
        BY SetupFacts DEF SetupTimeInv
      <3>2. attempt * (HTTPTimeout + Backoff) <= (Attempts - 1) * (HTTPTimeout + Backoff)
        BY <3>1, ProductGrows
      <3> QED
        BY <3>2, SetupFacts DEF SlowestBefore
    <2>2. now <= SlowestBefore + HTTPTimeout /\ now <= pingAt + HTTPTimeout
      BY DEF SetupTimeInv
    <2>3. now' <= now + Backoff /\ (now' <= SetupDeadline \/ now' = now)
      BY SetupFacts
    <2>4. pingAt <= SetupDeadline /\ pingAt' = pingAt /\ attempt' = attempt
          /\ phase' = "failed" /\ now' \in Nat
      BY SetupFacts DEF SetupTimeInv
    <2> QED
      BY <2>1, <2>2, <2>3, <2>4, SetupFacts DEF SetupTimeInv
  <1>4. TestTimeInv'
    BY DEF TestTimeInv
  <1> QED
    BY <1>1, <1>2, <1>3, <1>4

LEMMA CreateDatabaseKeeps ==
  ASSUME TimeInv, useInflux, NEW d \in 0..HTTPTimeout, CreateDatabase(d),
         UNCHANGED recorderVars
  PROVE  TimeInv'
  <1> USE DEF TimeInv, CreateDatabase, Fails, CloseClient, setupInputs, recorderVars
  <1>1. TimeTypes'
    BY TimesAssumption DEF TimeTypes, SetupTypeOK, SetupPhases
  <1>2. ClientInv'
    BY DEF ClientInv, SetupPhases
  <1>3. SetupTimeInv'
    <2>1. SlowestBefore' = SlowestBefore /\ now' = now + d
      BY DEF SlowestBefore
    <2> QED
      BY <2>1, SetupFacts DEF SetupTimeInv
  <1>4. TestTimeInv'
    BY DEF TestTimeInv
  <1> QED
    BY <1>1, <1>2, <1>3, <1>4

-------------------------------------------------------------------------------
(***************************************************************************)
(* The recording.                                                          *)
(***************************************************************************)
LEMMA TestFacts ==
  ASSUME TimeInv, UNCHANGED setupInputs
  PROVE  /\ SetupDeadline' = SetupDeadline /\ TestEnd' = TestEnd /\ TestEnd \in Nat
         /\ now \in Nat /\ started \in Nat /\ LastArrival \in Nat
         /\ lateCount \in 0..Late /\ Late \in Nat /\ HTTPTimeout \in Nat
         /\ lateCount * HTTPTimeout \in Nat
         /\ (lateCount + 1) * HTTPTimeout = lateCount * HTTPTimeout + HTTPTimeout
  <1>1. /\ duration \in Nat /\ cancelAt \in Nat /\ now \in Nat /\ started \in Nat
        /\ lateCount \in 0..Late /\ Late \in Nat /\ HTTPTimeout \in Nat
    BY TimesAssumption, LateAssumption DEF TimeInv, TimeTypes, SetupTypeOK
  <1>2. TestEnd \in Nat /\ TestEnd' = TestEnd /\ SetupDeadline' = SetupDeadline
    BY <1>1, DeadlinesAreTimes, DeadlinesStay
  <1>3. lateCount * HTTPTimeout \in Nat
        /\ (lateCount + 1) * HTTPTimeout = lateCount * HTTPTimeout + HTTPTimeout
    <2>1. lateCount \in Nat
      BY <1>1
    <2> QED
      BY <1>1, <2>1, ProductGrows
  <1> QED
    BY <1>1, <1>2, <1>3 DEF LastArrival

LEMMA BeginKeeps ==
  ASSUME TimeInv, Begin
  PROVE  TimeInv'
  <1> USE DEF Begin
  <1>0. UNCHANGED setupInputs
    OBVIOUS
  <1>1. TimeTypes'
    BY DEF TimeInv, TimeTypes, SetupTypeOK, LaterPhases, setupInputs
  <1>2. ClientInv'
    BY DEF TimeInv, TimeTypes, ClientInv, SetupPhases
  <1>3. SetupTimeInv'
    BY <1>0, TestFacts DEF TimeInv, SetupTimeInv
  <1>4. TestTimeInv'
    <2>1. ~writing'
      BY DEF TimeInv, ClientInv
    <2>2. started' = now /\ now' = now /\ LastArrival' >= now /\ LastArrival' \in Nat
      BY <1>0, TestFacts DEF LastArrival
    <2>3. HTTPTimeout \in Nat /\ lateCount' = lateCount
          /\ (1 + lateCount') * HTTPTimeout \in Nat
      BY <1>0, TestFacts
    <2> QED
      BY <2>1, <2>2, <2>3, TestFacts, <1>0 DEF TestTimeInv
  <1> QED
    BY <1>1, <1>2, <1>3, <1>4 DEF TimeInv

LEMMA AwaitResultKeeps ==
  ASSUME TimeInv, AwaitResult
  PROVE  TimeInv'
  <1> USE DEF AwaitResult, Receiving
  <1>0. UNCHANGED setupInputs /\ UNCHANGED recorderVars
    OBVIOUS
  <1>1. TimeTypes'
    BY TestFacts, <1>0 DEF TimeInv, TimeTypes, SetupTypeOK, setupInputs, recorderVars
  <1>2. ClientInv'
    BY <1>0 DEF TimeInv, ClientInv, SetupPhases, recorderVars
  <1>3. SetupTimeInv'
    BY <1>0, TestFacts DEF TimeInv, SetupTimeInv
  <1>4. TestTimeInv'
    <2>1. started <= now /\ now < TestEnd /\ now' = now + 1 /\ now \in Nat
          /\ started' = started /\ writing' = writing /\ ~writing
          /\ lateCount' = lateCount
      BY <1>0, TestFacts DEF TimeInv, TestTimeInv, recorderVars
    <2>2. now' <= LastArrival' /\ LastArrival' \in Nat
      BY <1>0, <2>1, TestFacts DEF LastArrival
    <2> QED
      BY <1>0, <2>1, <2>2, TestFacts DEF TestTimeInv
  <1> QED
    BY <1>1, <1>2, <1>3, <1>4 DEF TimeInv

LEMMA ReceiveKeeps ==
  ASSUME TimeInv, NEW result \in TestResults, Receive(result)
  PROVE  TimeInv'
  <1> USE DEF Receive, Receiving
  <1>0. UNCHANGED setupVars /\ UNCHANGED setupInputs
    BY DEF setupVars
  <1>1. TimeTypes'
    <2>1. lateCount' \in 0..Late
      BY <1>0, TestFacts
    <2>2. SetupTypeOK'
      BY <1>0 DEF TimeInv, TimeTypes, SetupTypeOK, setupVars, setupInputs
    <2>3. useInflux' \in BOOLEAN /\ writing' \in BOOLEAN /\ started' \in Nat
      BY DEF TimeInv, TimeTypes
    <2> QED
      BY <2>1, <2>2, <2>3 DEF TimeTypes
  <1>2. ClientInv'
    BY <1>0 DEF TimeInv, ClientInv, SetupPhases, setupVars
  <1>3. SetupTimeInv'
    <2>1. SlowestBefore' = SlowestBefore
      BY <1>0 DEF SlowestBefore, setupVars
    <2> QED
      BY <1>0, <2>1, TestFacts DEF TimeInv, SetupTimeInv, setupVars
  <1>4. TestTimeInv'
    <2>1. /\ phase = "recording" /\ phase' = phase /\ now' = now /\ started' = started
          /\ writing' = useInflux /\ useInflux' = useInflux
          /\ ~writing /\ started <= now
      BY <1>0 DEF TimeInv, TestTimeInv, setupVars
    <2>2. LastArrival' = LastArrival
      BY <1>0, <2>1, TestFacts DEF LastArrival
    <2>3. CASE now < TestEnd /\ UNCHANGED lateCount
      <3>1. now <= LastArrival
        BY <1>0, <2>1, <2>3, TestFacts DEF LastArrival
      <3> QED
        BY <1>0, <2>1, <2>2, <2>3, <3>1, TestFacts DEF TestTimeInv
    <2>4. CASE lateCount' = lateCount + 1
      <3>1. now <= LastArrival + (1 + lateCount) * HTTPTimeout
            /\ (~useInflux => now <= LastArrival)
        BY <2>1 DEF TimeInv, TestTimeInv
      <3>2. /\ lateCount' * HTTPTimeout = (1 + lateCount) * HTTPTimeout
            /\ (1 + lateCount') * HTTPTimeout = (1 + lateCount) * HTTPTimeout + HTTPTimeout
            /\ (1 + lateCount) * HTTPTimeout \in Nat
            /\ HTTPTimeout \in Nat /\ LastArrival \in Nat /\ now \in Nat
        BY <1>0, <2>4, TestFacts
      <3>3. now <= LastArrival' + lateCount' * HTTPTimeout
            /\ now <= LastArrival' + (1 + lateCount') * HTTPTimeout
        <4> HIDE DEF LastArrival
        <4> QED
          BY <2>2, <3>1, <3>2
      <3>4. ~useInflux' => now <= LastArrival'
        BY <2>1, <2>2, <3>1
      <3> QED
        BY <2>1, <3>3, <3>4 DEF TestTimeInv
    <2> QED
      BY <2>3, <2>4
  <1> QED
    BY <1>1, <1>2, <1>3, <1>4 DEF TimeInv

LEMMA WriteOneKeeps ==
  ASSUME TimeInv, NEW d \in WriteTimes, WriteOne(d)
  PROVE  TimeInv'
  <1> USE DEF WriteOne
  <1>0. UNCHANGED setupInputs /\ d \in 0..HTTPTimeout
    BY DEF WriteTimes
  <1>1. TimeTypes'
    <2>1. now' \in Nat
      BY <1>0, TestFacts
    <2> QED
      BY <2>1, <1>0 DEF TimeInv, TimeTypes, SetupTypeOK, setupInputs
  <1>2. ClientInv'
    BY DEF TimeInv, ClientInv, SetupPhases
  <1>3. SetupTimeInv'
    BY <1>0, TestFacts DEF TimeInv, SetupTimeInv
  <1>4. TestTimeInv'
    <2>1. /\ phase = "recording" /\ phase' = phase /\ now' = now + d /\ started' = started
          /\ writing /\ ~writing' /\ started <= now /\ useInflux /\ useInflux' = useInflux
          /\ lateCount' = lateCount /\ now <= LastArrival + lateCount * HTTPTimeout
      BY DEF TimeInv, ClientInv, TestTimeInv
    <2>2. LastArrival' = LastArrival
      BY <1>0, <2>1, TestFacts DEF LastArrival
    <2>3. /\ (1 + lateCount') * HTTPTimeout = lateCount * HTTPTimeout + HTTPTimeout
          /\ lateCount * HTTPTimeout \in Nat
          /\ HTTPTimeout \in Nat /\ LastArrival \in Nat /\ now \in Nat
      <3>1. (1 + lateCount') * HTTPTimeout = (lateCount + 1) * HTTPTimeout
        BY <1>0, <2>1, TestFacts
      <3> QED
        BY <1>0, <3>1, TestFacts
    <2>4. started' <= now' /\ now' <= LastArrival' + (1 + lateCount') * HTTPTimeout
      <3>1. started \in Nat /\ d \in Nat /\ d <= HTTPTimeout
        BY <1>0, <2>3, TestFacts
      <3> HIDE DEF LastArrival, WriteOne
      <3> QED
        BY <2>1, <2>2, <2>3, <3>1
    <2> QED
      BY <2>1, <2>4 DEF TestTimeInv
  <1> QED
    BY <1>1, <1>2, <1>3, <1>4 DEF TimeInv

LEMMA SumKeeps ==
  ASSUME TimeInv, Sum
  PROVE  TimeInv'
  <1> USE DEF Sum, Receiving
  <1>0. UNCHANGED setupInputs /\ UNCHANGED recorderVars
    OBVIOUS
  <1>1. TimeTypes'
    BY <1>0 DEF TimeInv, TimeTypes, SetupTypeOK, LaterPhases, setupInputs, recorderVars
  <1>2. ClientInv'
    BY <1>0 DEF TimeInv, ClientInv, SetupPhases, recorderVars
  <1>3. SetupTimeInv'
    BY <1>0, TestFacts DEF TimeInv, SetupTimeInv
  <1>4. TestTimeInv'
    <2>1. LastArrival' = LastArrival
      BY <1>0, TestFacts DEF LastArrival, recorderVars
    <2> QED
      BY <1>0, <2>1 DEF TimeInv, TestTimeInv, recorderVars
  <1> QED
    BY <1>1, <1>2, <1>3, <1>4 DEF TimeInv

LEMMA ReturnKeeps ==
  ASSUME TimeInv, Return
  PROVE  TimeInv'
  <1> USE DEF Return, CloseWriter
  <1>0. UNCHANGED setupInputs /\ UNCHANGED recorderVars
    OBVIOUS
  <1>1. TimeTypes'
    BY <1>0 DEF TimeInv, TimeTypes, SetupTypeOK, LaterPhases, setupInputs, recorderVars
  <1>2. ClientInv'
    BY <1>0 DEF TimeInv, ClientInv, SetupPhases, recorderVars
  <1>3. SetupTimeInv'
    BY <1>0, TestFacts DEF TimeInv, SetupTimeInv
  <1>4. TestTimeInv'
    <2>1. LastArrival' = LastArrival
      BY <1>0, TestFacts DEF LastArrival, recorderVars
    <2> QED
      BY <1>0, <2>1 DEF TimeInv, TestTimeInv, recorderVars
  <1> QED
    BY <1>1, <1>2, <1>3, <1>4 DEF TimeInv

LEMMA StutterKeeps ==
  ASSUME TimeInv, UNCHANGED vars
  PROVE  TimeInv'
  <1>0. UNCHANGED setupInputs /\ UNCHANGED recorderVars /\ UNCHANGED setupVars
    BY DEF vars, setupVars
  <1>1. TimeTypes'
    BY <1>0 DEF TimeInv, TimeTypes, SetupTypeOK, setupInputs, setupVars, recorderVars
  <1>2. ClientInv'
    BY <1>0 DEF TimeInv, ClientInv, setupVars, recorderVars
  <1>3. SlowestBefore' = SlowestBefore /\ LastArrival' = LastArrival
    BY <1>0, TestFacts DEF SlowestBefore, LastArrival, setupVars, recorderVars
  <1>4. SetupTimeInv'
    BY <1>0, <1>3, TestFacts DEF TimeInv, SetupTimeInv, setupVars
  <1>5. TestTimeInv'
    BY <1>0, <1>3 DEF TimeInv, TestTimeInv, setupVars, recorderVars
  <1> QED
    BY <1>1, <1>2, <1>4, <1>5 DEF TimeInv

LEMMA StepKeeps ==
  ASSUME TimeInv, [Next]_vars
  PROVE  TimeInv'
  <1>1. CASE Connect
    <2>1. useInflux /\ SetupStep /\ UNCHANGED recorderVars
      BY <1>1 DEF Connect
    <2>2. CASE NewClient
      BY <2>1, <2>2, NewClientKeeps
    <2>3. ASSUME NEW d \in 0..HTTPTimeout,
                 PingSucceeds(d) \/ PingFails(d) \/ CreateDatabase(d)
          PROVE  TimeInv'
      BY <2>1, <2>3, PingSucceedsKeeps, PingFailsKeeps, CreateDatabaseKeeps
    <2>4. CASE BackoffElapses \/ BackoffCancelled
      BY <2>1, <2>4, BackoffElapsesKeeps, BackoffCancelledKeeps
    <2> QED
      BY <2>1, <2>2, <2>3, <2>4 DEF SetupStep
  <1>2. CASE Begin \/ AwaitResult \/ Sum \/ Return
    BY <1>2, BeginKeeps, AwaitResultKeeps, SumKeeps, ReturnKeeps
  <1>3. ASSUME NEW result \in TestResults, Receive(result)
        PROVE  TimeInv'
    BY <1>3, ReceiveKeeps
  <1>4. ASSUME NEW d \in WriteTimes, WriteOne(d)
        PROVE  TimeInv'
    BY <1>4, WriteOneKeeps
  <1>5. CASE UNCHANGED vars
    BY <1>5, StutterKeeps
  <1> QED
    BY <1>1, <1>2, <1>3, <1>4, <1>5 DEF Next

LEMMA TimeHolds == Spec => []TimeInv
  <1>1. Init => TimeInv
    BY InitialTimes
  <1>2. TimeInv /\ [Next]_vars => TimeInv'
    BY StepKeeps
  <1> QED
    BY <1>1, <1>2, PTL DEF Spec

\* The client of InfluxDB is there exactly where the code may use it, whatever the pings
\* and the query did: closed after a failed setup, open while results are written, and
\* closed when LoadTest returns (influxdb.go 75-104, load.go 136).
THEOREM ClientIsReleased == Spec => []ClientReleased
  <1>1. TimeInv => ClientReleased
    <2> SUFFICES ASSUME TimeInv PROVE ClientReleased
      OBVIOUS
    <2> USE DEF TimeInv, ClientInv
    <2>1. phase = "failed" => client = (IF err = "client" THEN "none" ELSE "closed")
      OBVIOUS
    <2>2. phase \in {"ping", "backoff", "create", "connected", "recording"} =>
             client = (IF useInflux THEN "open" ELSE "none")
      OBVIOUS
    <2>3. phase = "returned" => client # "open"
      OBVIOUS
    <2> QED
      BY <2>1, <2>2, <2>3 DEF ClientReleased
  <1> QED
    BY <1>1, TimeHolds, PTL

\* For every timeout, pause and number of pings: no ping begins after the context of the
\* setup has ended, and the setup is over two requests after that, and after the slowest
\* run of pings, pauses and one query (influxdb.go 57-104).
THEOREM SetupEndsInTime == Spec => []EndsInTime
  <1>1. TimeInv => EndsInTime
    <2> SUFFICES ASSUME TimeInv PROVE EndsInTime
      OBVIOUS
    <2>1. /\ duration \in Nat /\ cancelAt \in Nat /\ now \in Nat /\ pingAt \in Nat
          /\ attempt \in 1..Attempts /\ Attempts \in Nat /\ Attempts - 1 \in Nat
          /\ HTTPTimeout \in Nat /\ Backoff \in Nat
      BY TimesAssumption, AttemptsAssumption DEF TimeInv, TimeTypes, SetupTypeOK
    <2>2. SetupDeadline \in Nat
      BY <2>1, DeadlinesAreTimes
    <2>3. SlowestBefore \in Nat
          /\ SlowestBefore <= (Attempts - 1) * (HTTPTimeout + Backoff)
      <3>1. attempt - 1 \in Nat /\ attempt - 1 <= Attempts - 1
            /\ HTTPTimeout + Backoff \in Nat
        BY <2>1
      <3> QED
        BY <2>1, <3>1, ProductGrows DEF SlowestBefore
    <2>4. pingAt <= SetupDeadline
      BY <2>1, <2>2 DEF TimeInv, SetupTimeInv
    <2>5. Attempts * HTTPTimeout + (Attempts - 1) * Backoff + HTTPTimeout
            = (Attempts - 1) * (HTTPTimeout + Backoff) + 2 * HTTPTimeout
      BY <2>1
    <2>6. (Attempts - 1) * (HTTPTimeout + Backoff) \in Nat
      BY <2>1, ProductGrows
    <2>7. ASSUME phase \in SetupPhases
          PROVE  /\ now <= SetupDeadline + 2 * HTTPTimeout
                 /\ now <= (Attempts - 1) * (HTTPTimeout + Backoff) + 2 * HTTPTimeout
      <3>1. CASE phase = "new" \/ phase = "ping"
        BY <2>1, <2>2, <2>3, <2>4, <2>6, <3>1 DEF TimeInv, SetupTimeInv
      <3>2. CASE phase \in {"backoff", "create", "connected"}
        BY <2>1, <2>2, <2>3, <2>4, <2>6, <3>2 DEF TimeInv, SetupTimeInv
      <3>3. CASE phase = "failed"
        BY <3>3 DEF TimeInv, SetupTimeInv
      <3> QED
        BY <2>7, <3>1, <3>2, <3>3 DEF SetupPhases
    <2> QED
      BY <2>4, <2>5, <2>7 DEF EndsInTime
  <1> QED
    BY <1>1, TimeHolds, PTL

\* For every number of workers and every timeout: when LoadTest returns, no more than one
\* write, and one for each late result, has passed since the context of the test ended,
\* or since the recording began if that was later; with no InfluxDB, no time at all
\* (influxdb.go 20-25, load.go 118-138).
THEOREM TestReturnsInTime == Spec => []ReturnsInTime
  <1>1. TimeInv => ReturnsInTime
    <2> SUFFICES ASSUME TimeInv, phase = "returned"
                 PROVE  now <= LastArrival
                                 + (IF useInflux THEN (1 + Late) * HTTPTimeout ELSE 0)
      BY DEF ReturnsInTime, LastArrival
    <2>1. /\ duration \in Nat /\ cancelAt \in Nat /\ now \in Nat /\ started \in Nat
          /\ lateCount \in Nat /\ lateCount <= Late /\ Late \in Nat /\ HTTPTimeout \in Nat
      BY TimesAssumption, LateAssumption DEF TimeInv, TimeTypes, SetupTypeOK
    <2>2. LastArrival \in Nat
      BY <2>1, DeadlinesAreTimes DEF LastArrival
    <2>3. ~writing
      BY DEF TimeInv, ClientInv
    <2>4. now <= LastArrival + (1 + lateCount) * HTTPTimeout /\ (~useInflux => now <= LastArrival)
      BY <2>3 DEF TimeInv, TestTimeInv
    <2>5. (1 + lateCount) * HTTPTimeout \in Nat
          /\ (1 + lateCount) * HTTPTimeout <= (1 + Late) * HTTPTimeout
          /\ (1 + Late) * HTTPTimeout \in Nat
      <3>1. 1 + lateCount \in Nat /\ 1 + Late \in Nat /\ 1 + lateCount <= 1 + Late
        BY <2>1
      <3> QED
        BY <2>1, <3>1, ProductGrows
    <2>6. CASE useInflux
      <3> HIDE DEF LastArrival
      <3>1. now <= LastArrival + (1 + Late) * HTTPTimeout
        BY <2>1, <2>2, <2>4, <2>5
      <3> QED
        BY <2>6, <3>1
    <2>7. CASE ~useInflux
      BY <2>2, <2>4, <2>7
    <2> QED
      BY <2>6, <2>7
  <1> QED
    BY <1>1, TimeHolds, PTL

-------------------------------------------------------------------------------
(***************************************************************************)
(* What InfluxDB has of the results.                                       *)
(***************************************************************************)
\* The point that result i made is there, or a later result took its place.
Kept(i) ==
    \/ /\ Identity(added[i]) \in DOMAIN series
       /\ series[Identity(added[i])] = added[i]
    \/ \E j \in DOMAIN added : /\ j > i
                               /\ added[j].start = added[i].start
                               /\ added[j].status = added[i].status
                               /\ added[j].method = added[i].method

SeriesTypes == added \in Seq(TestResults) /\ lost \subseteq DOMAIN added

\* The one result that may be missing is the one being written.
KeptInv ==
    useInflux => \A i \in DOMAIN added \ lost : Kept(i) \/ (writing /\ i = Len(added))

\* A phase in which a write is under way has a result to write.
WritingInv == writing => Len(added) > 0

SeriesInv == SeriesTypes /\ KeptInv /\ WritingInv

LEMMA InitialSeries ==
  ASSUME Init
  PROVE  SeriesInv
  BY DEF Init, SummaryInit, SeriesInv, SeriesTypes, KeptInv, WritingInv

LEMMA ReceiveKeepsSeries ==
  ASSUME SeriesInv, NEW result \in TestResults, Receive(result)
  PROVE  SeriesInv'
  <1> USE DEF Receive, Receiving, Add
  <1>1. /\ added' = Append(added, result) /\ added \in Seq(TestResults)
        /\ lost' = lost /\ lost \subseteq DOMAIN added /\ series' = series
        /\ writing' = useInflux /\ useInflux' = useInflux /\ ~writing
    BY DEF SeriesInv, SeriesTypes
  <1>2. /\ added' \in Seq(TestResults) /\ Len(added') = Len(added) + 1
        /\ \A i \in DOMAIN added : added'[i] = added[i]
        /\ DOMAIN added' = DOMAIN added \cup {Len(added')}
        /\ Len(added) \in Nat
    BY <1>1
  <1>3. SeriesTypes'
    BY <1>1, <1>2 DEF SeriesTypes
  <1>4. KeptInv'
    <2> SUFFICES ASSUME useInflux, NEW i \in DOMAIN added' \ lost'
                 PROVE  (Kept(i) \/ (writing /\ i = Len(added)))'
      BY <1>1 DEF KeptInv
    <2>1. CASE i = Len(added')
      BY <1>1, <2>1
    <2>2. CASE i \in DOMAIN added
      <3>1. Kept(i)
        BY <1>1, <2>2 DEF SeriesInv, KeptInv
      <3>2. CASE /\ Identity(added[i]) \in DOMAIN series
                 /\ series[Identity(added[i])] = added[i]
        <4>1. Identity(added'[i]) = Identity(added[i])
          BY <1>2, <2>2
        <4> QED
          BY <1>1, <1>2, <2>2, <3>2, <4>1 DEF Kept, Identity, Tags, Timestamp
      <3>3. ASSUME NEW j \in DOMAIN added, j > i,
                   added[j].start = added[i].start, added[j].status = added[i].status,
                   added[j].method = added[i].method
            PROVE  Kept(i)'
        BY <1>2, <2>2, <3>3 DEF Kept
      <3> QED
        BY <3>1, <3>2, <3>3 DEF Kept
    <2> QED
      BY <1>2, <2>1, <2>2
  <1>5. WritingInv'
    BY <1>2 DEF WritingInv
  <1> QED
    BY <1>3, <1>4, <1>5 DEF SeriesInv

\* A point replaces no other but one of the same method, status and start.
LEMMA StoreKeeps ==
  ASSUME SeriesInv, writing, Store(added[Len(added)]), UNCHANGED added,
         NEW i \in DOMAIN added, Kept(i) \/ i = Len(added)
  PROVE  Kept(i)'
  <1> DEFINE last == added[Len(added)]
  <1>1. /\ series' = [id \in DOMAIN series \cup {Identity(last)} |->
                        IF id = Identity(last) THEN last ELSE series[id]]
        /\ added' = added /\ Len(added) \in DOMAIN added
    BY DEF Store, SeriesInv, SeriesTypes, WritingInv
  <1>2. Identity(added'[i]) = Identity(added[i])
    BY <1>1
  <1>3. CASE i = Len(added)
    BY <1>1, <1>2, <1>3 DEF Kept, Identity, Tags, Timestamp
  <1>4. CASE i # Len(added) /\ Identity(added[i]) = Identity(last)
    <2>1. /\ last.start = added[i].start /\ last.status = added[i].status
          /\ last.method = added[i].method
      BY <1>4 DEF Identity, Tags, Timestamp
    <2>2. Len(added) > i
      BY <1>1, <1>4 DEF SeriesInv, SeriesTypes
    <2> QED
      BY <1>1, <2>1, <2>2 DEF Kept
  <1>5. CASE /\ Identity(added[i]) # Identity(last)
             /\ Identity(added[i]) \in DOMAIN series
             /\ series[Identity(added[i])] = added[i]
    BY <1>1, <1>2, <1>5 DEF Kept, Identity, Tags, Timestamp
  <1>6. ASSUME NEW j \in DOMAIN added, j > i,
               added[j].start = added[i].start, added[j].status = added[i].status,
               added[j].method = added[i].method
        PROVE  Kept(i)'
    BY <1>1, <1>6 DEF Kept
  <1> QED
    BY <1>3, <1>4, <1>5, <1>6 DEF Kept

LEMMA WriteOneKeepsSeries ==
  ASSUME SeriesInv, NEW d \in WriteTimes, WriteOne(d)
  PROVE  SeriesInv'
  <1> USE DEF WriteOne, summaryVars
  <1>1. /\ added' = added /\ useInflux' = useInflux /\ writing /\ ~writing'
        /\ Len(added) \in DOMAIN added
    BY DEF SeriesInv, SeriesTypes, WritingInv
  <1>2. /\ Store(added[Len(added)]) \/ (UNCHANGED series /\ lost' = lost \cup {Len(added)})
        /\ lost' = lost \/ lost' = lost \cup {Len(added)}
    OBVIOUS
  <1>3. SeriesTypes'
    BY <1>1, <1>2 DEF SeriesInv, SeriesTypes
  <1>4. KeptInv'
    <2> SUFFICES ASSUME useInflux, NEW i \in DOMAIN added \ lost'
                 PROVE  Kept(i)'
      BY <1>1 DEF KeptInv
    <2>1. i \in DOMAIN added \ lost /\ (Kept(i) \/ i = Len(added))
      BY <1>2 DEF SeriesInv, KeptInv
    <2>2. CASE Store(added[Len(added)])
      BY <1>1, <2>1, <2>2, StoreKeeps
    <2>3. CASE UNCHANGED series /\ lost' = lost \cup {Len(added)}
      <3>1. Kept(i)
        BY <2>1, <2>3
      <3> QED
        BY <1>1, <2>3, <3>1 DEF Kept, Identity, Tags, Timestamp
    <2> QED
      BY <1>2, <2>2, <2>3
  <1>5. WritingInv'
    BY <1>1 DEF WritingInv
  <1> QED
    BY <1>3, <1>4, <1>5 DEF SeriesInv

LEMMA OtherStepsKeepSeries ==
  ASSUME SeriesInv, UNCHANGED <<added, useInflux, writing, series, lost>>
  PROVE  SeriesInv'
  BY DEF SeriesInv, SeriesTypes, KeptInv, WritingInv, Kept, Identity, Tags, Timestamp

LEMMA SeriesHolds == Spec => []SeriesInv
  <1>1. Init => SeriesInv
    BY InitialSeries
  <1>2. SeriesInv /\ [Next]_vars => SeriesInv'
    <2> SUFFICES ASSUME SeriesInv, [Next]_vars PROVE SeriesInv'
      OBVIOUS
    <2>1. CASE Connect \/ Begin \/ AwaitResult \/ Sum \/ Return \/ UNCHANGED vars
      <3>1. UNCHANGED <<added, useInflux, writing, series, lost>>
        BY <2>1 DEF Connect, Begin, AwaitResult, Sum, Summarise, Return, vars,
                    summaryVars, recorderVars
      <3> QED
        BY <3>1, OtherStepsKeepSeries
    <2>2. ASSUME NEW result \in TestResults, Receive(result)
          PROVE  SeriesInv'
      BY <2>2, ReceiveKeepsSeries
    <2>3. ASSUME NEW d \in WriteTimes, WriteOne(d)
          PROVE  SeriesInv'
      BY <2>3, WriteOneKeepsSeries
    <2> QED
      BY <2>1, <2>2, <2>3 DEF Next
  <1> QED
    BY <1>1, <1>2, PTL DEF Spec

\* For every set of results and every order of them: a result whose write did not fail is
\* a point of the series, unless a later one has its method, its status and the very
\* nanosecond of its start (influxdb.go 137-172).
THEOREM WrittenResultsStay == Spec => []ResultsStayDistinct
  <1>1. SeriesInv => ResultsStayDistinct
    <2> SUFFICES ASSUME SeriesInv, NEW i \in Written
                 PROVE  \/ \E id \in DOMAIN series : series[id] = added[i]
                        \/ \E j \in DOMAIN added : /\ j > i
                                                   /\ added[j].start = added[i].start
                                                   /\ added[j].status = added[i].status
                                                   /\ added[j].method = added[i].method
      BY DEF ResultsStayDistinct
    <2>1. i \in DOMAIN added \ lost /\ useInflux /\ ~writing
      BY DEF Written
    <2>2. Kept(i)
      BY <2>1 DEF SeriesInv, KeptInv
    <2> QED
      BY <2>2 DEF Kept
  <1> QED
    BY <1>1, SeriesHolds, PTL

-------------------------------------------------------------------------------
(***************************************************************************)
(* The percentiles: what a sorted sequence of latencies says about the one *)
(* it came from.                                                           *)
(***************************************************************************)
LEMMA InOrderFacts ==
  ASSUME NEW seq \in Seq(Nat)
  PROVE  LET order == Sorted(seq, DOMAIN seq) IN
         /\ DOMAIN order = DOMAIN seq /\ DOMAIN seq = 1..Len(seq) /\ Len(seq) \in Nat
         /\ InOrder(seq) \in Seq(Nat) /\ Len(InOrder(seq)) = Len(seq)
         /\ \A k \in DOMAIN seq : /\ order[k] \in DOMAIN seq /\ InOrder(seq)[k] \in Nat
                                 /\ InOrder(seq)[k] = seq[order[k]]
         /\ \A i \in DOMAIN seq : \E k \in DOMAIN seq : order[k] = i
         /\ \A j, k \in DOMAIN seq : j < k => /\ order[j] # order[k]
                                              /\ InOrder(seq)[j] <= InOrder(seq)[k]
  <1> DEFINE order == Sorted(seq, DOMAIN seq)
  <1>1. seq \in Seq(Int) /\ DOMAIN seq = 1..Len(seq) /\ Len(seq) \in Nat
    OBVIOUS
  <1>2. /\ order \in Seq(DOMAIN seq)
        /\ {order[k] : k \in DOMAIN order} = DOMAIN seq
        /\ \A j, k \in DOMAIN order : j < k => GoesBefore(seq, order[j], order[k])
    BY <1>1, SortedIsOrdered
  <1>3. DOMAIN order = DOMAIN seq
    <2>1. Cardinality(1..Len(seq)) = Len(seq)
      BY <1>1, FS_Interval
    <2> QED
      BY <1>1, <2>1 DEF Sorted
  <1>4. InOrder(seq) = [k \in DOMAIN seq |-> seq[order[k]]]
    BY DEF InOrder
  <1> HIDE DEF order
  <1>5. ASSUME NEW k \in DOMAIN seq
        PROVE  order[k] \in DOMAIN seq /\ seq[order[k]] \in Nat
    <2>1. order[k] \in DOMAIN seq
      BY <1>2, <1>3, ElementOfSeq
    <2> QED
      BY <1>1, <2>1
  <1>6. InOrder(seq) \in Seq(Nat) /\ Len(InOrder(seq)) = Len(seq)
    BY <1>1, <1>4, <1>5
  <1>7. ASSUME NEW j \in DOMAIN seq, NEW k \in DOMAIN seq, j < k
        PROVE  order[j] # order[k] /\ InOrder(seq)[j] <= InOrder(seq)[k]
    <2>1. GoesBefore(seq, order[j], order[k])
      BY <1>2, <1>3, <1>7
    <2>2. order[j] \in Nat /\ seq[order[j]] \in Nat /\ seq[order[k]] \in Nat
      BY <1>1, <1>5
    <2> QED
      BY <1>4, <2>1, <2>2 DEF GoesBefore
  <1> QED
    BY <1>1, <1>2, <1>3, <1>4, <1>5, <1>6, <1>7 DEF order

\* Each value is there as often as before.
LEMMA InOrderCounts ==
  ASSUME NEW seq \in Seq(Nat), NEW l
  PROVE  Cardinality({k \in DOMAIN seq : InOrder(seq)[k] = l})
           = Cardinality({i \in DOMAIN seq : seq[i] = l})
  <1> DEFINE order == Sorted(seq, DOMAIN seq)
             A == {k \in DOMAIN seq : InOrder(seq)[k] = l}
             B == {i \in DOMAIN seq : seq[i] = l}
             f == [k \in A |-> order[k]]
  <1>1. /\ \A k \in DOMAIN seq : order[k] \in DOMAIN seq /\ InOrder(seq)[k] = seq[order[k]]
        /\ \A i \in DOMAIN seq : \E k \in DOMAIN seq : order[k] = i
        /\ \A j, k \in DOMAIN seq : j < k => order[j] # order[k]
        /\ DOMAIN seq = 1..Len(seq) /\ Len(seq) \in Nat
    BY InOrderFacts
  <1> HIDE DEF order
  <1>2. IsFiniteSet(DOMAIN seq)
    BY <1>1, FS_Interval
  <1>3. IsFiniteSet(A)
    BY <1>2, FS_Subset
  <1>4. f \in [A -> B]
    BY <1>1
  <1>5. \A j, k \in A : f[j] = f[k] => j = k
    <2> SUFFICES ASSUME NEW j \in A, NEW k \in A, j # k PROVE f[j] # f[k]
      OBVIOUS
    <2>1. j \in Int /\ k \in Int
      BY <1>1
    <2>2. j < k \/ k < j
      BY <2>1
    <2> QED
      BY <1>1, <2>2
  <1>6. \A i \in B : \E k \in A : f[k] = i
    BY <1>1
  <1>7. f \in Bijection(A, B)
    BY <1>4, <1>5, <1>6 DEF Bijection, Injection, Surjection, IsInjective
  <1> QED
    BY <1>3, <1>7, FS_Bijection DEF ExistsBijection

\* The value at a place of the sorted sequence, and how many lie below it.
LEMMA Beneath ==
  ASSUME NEW seq \in Seq(Nat), NEW m \in DOMAIN seq
  PROVE  LET v == InOrder(seq)[m] IN
         /\ v \in Nat /\ \E i \in DOMAIN seq : seq[i] = v
         /\ Cardinality({i \in DOMAIN seq : seq[i] <= v}) \in Nat
         /\ Cardinality({i \in DOMAIN seq : seq[i] <= v}) >= m
         /\ Cardinality({i \in DOMAIN seq : seq[i] < v}) \in Nat
         /\ Cardinality({i \in DOMAIN seq : seq[i] < v}) <= m - 1
  <1> DEFINE order == Sorted(seq, DOMAIN seq)
             v == InOrder(seq)[m]
             U == {i \in DOMAIN seq : seq[i] <= v}
             L == {i \in DOMAIN seq : seq[i] < v}
  <1>1. /\ \A k \in DOMAIN seq : /\ order[k] \in DOMAIN seq /\ InOrder(seq)[k] \in Nat
                                /\ InOrder(seq)[k] = seq[order[k]]
        /\ \A i \in DOMAIN seq : \E k \in DOMAIN seq : order[k] = i
        /\ \A j, k \in DOMAIN seq : j < k => /\ order[j] # order[k]
                                             /\ InOrder(seq)[j] <= InOrder(seq)[k]
        /\ DOMAIN seq = 1..Len(seq) /\ Len(seq) \in Nat
    BY InOrderFacts
  <1> HIDE DEF order
  <1>0. /\ \A j, k \in DOMAIN seq : j < k => InOrder(seq)[j] <= InOrder(seq)[k]
        /\ Len(seq) \in Nat
    BY <1>1
  <1>2. IsFiniteSet(DOMAIN seq) /\ m \in Nat /\ m >= 1 /\ m <= Len(seq)
    BY <1>1, FS_Interval
  <1>3. IsFiniteSet(U) /\ IsFiniteSet(L)
    BY <1>2, FS_Subset
  <1>4. Cardinality(U) \in Nat /\ Cardinality(L) \in Nat
    BY <1>3, FS_CardinalityType
  <1>5. v \in Nat /\ v = InOrder(seq)[m] /\ seq[order[m]] = v
    BY <1>1
  <1> HIDE DEF v
  <1>6. IsFiniteSet(1..m) /\ Cardinality(1..m) = m
    BY <1>2, FS_Interval
  <1>7. IsFiniteSet(1..(m - 1)) /\ Cardinality(1..(m - 1)) = m - 1
    <2>1. 1 \in Int /\ m - 1 \in Int /\ (IF 1 > m - 1 THEN 0 ELSE m - 1 - 1 + 1) = m - 1
      BY <1>2
    <2> QED
      BY <2>1, FS_Interval
  <1>8. Cardinality(U) >= m
    <2> DEFINE f == [k \in 1..m |-> order[k]]
    <2>1. ASSUME NEW k \in 1..m PROVE k \in DOMAIN seq /\ order[k] \in U
      <3>1. k \in DOMAIN seq /\ k \in Nat /\ (k < m \/ k = m)
        BY <1>1, <1>2, SMTT(30)
      <3>2. InOrder(seq)[k] <= v
        <4>1. CASE k < m
          BY <1>0, <1>5, <3>1, <4>1
        <4>2. CASE k = m
          BY <1>5, <4>2
        <4> QED
          BY <3>1, <4>1, <4>2
      <3> QED
        BY <1>1, <3>1, <3>2
    <2>2. \A j, k \in 1..m : f[j] = f[k] => j = k
      <3> SUFFICES ASSUME NEW j \in 1..m, NEW k \in 1..m, j # k PROVE f[j] # f[k]
        OBVIOUS
      <3>1. j < k \/ k < j
        BY <1>2
      <3> QED
        BY <1>1, <2>1, <3>1
    <2>3. f \in Injection(1..m, U)
      BY <2>1, <2>2 DEF Injection, IsInjective
    <2>4. Cardinality(1..m) <= Cardinality(U)
      BY <1>3, <2>3, FS_Injection
    <2> QED
      BY <1>2, <1>4, <1>6, <2>4
  <1>9. Cardinality(L) <= m - 1
    <2> DEFINE g == [i \in L |-> CHOOSE k \in DOMAIN seq : order[k] = i]
    <2>1. ASSUME NEW i \in L PROVE g[i] \in 1..(m - 1) /\ order[g[i]] = i
      <3>1. g[i] \in DOMAIN seq /\ order[g[i]] = i
        BY <1>1
      <3> HIDE DEF g
      <3>2. InOrder(seq)[g[i]] = seq[i] /\ seq[i] \in Nat /\ seq[i] < v /\ g[i] \in Nat
            /\ g[i] >= 1
        <4>1. seq[i] < v
          OBVIOUS
        <4>2. InOrder(seq)[g[i]] \in Nat /\ InOrder(seq)[g[i]] = seq[order[g[i]]]
          BY <1>1, <3>1
        <4>3. g[i] \in Nat /\ g[i] >= 1
          <5>1. g[i] \in 1..Len(seq)
            BY <1>1, <3>1
          <5>2. \A k \in 1..Len(seq) : k \in Nat /\ k >= 1
            BY <1>0
          <5> QED
            BY <5>1, <5>2
        <4> QED
          BY <3>1, <4>1, <4>2, <4>3
      <3>3. ~(m <= g[i])
        <4> SUFFICES ASSUME m <= g[i] PROVE FALSE
          OBVIOUS
        <4>1. m < g[i] \/ m = g[i]
          BY <1>2, <3>2
        <4>2. v <= InOrder(seq)[g[i]]
          <5>1. CASE m < g[i]
            BY <1>0, <1>5, <3>1, <5>1
          <5>2. CASE m = g[i]
            BY <1>5, <5>2
          <5> QED
            BY <4>1, <5>1, <5>2
        <4> QED
          BY <1>5, <3>2, <4>2
      <3> QED
        BY <1>2, <3>1, <3>2, <3>3
    <2>2. g \in Injection(L, 1..(m - 1))
      <3>1. g \in [L -> 1..(m - 1)]
        BY <2>1
      <3>2. \A i, j \in L : g[i] = g[j] => i = j
        <4> HIDE DEF g
        <4> QED
          BY <2>1
      <3> QED
        BY <3>1, <3>2 DEF Injection, IsInjective
    <2>3. Cardinality(L) <= Cardinality(1..(m - 1))
      BY <1>7, <2>2, FS_Injection
    <2> QED
      BY <1>7, <2>3
  <1> QED
    BY <1>1, <1>4, <1>5, <1>8, <1>9 DEF v

LEMMA NearestRank ==
  ASSUME NEW seq \in Seq(Nat), Len(seq) > 0, NEW p \in Percentiles
  PROVE  LET v == Percentile(InOrder(seq), p) IN
         /\ \E i \in DOMAIN seq : seq[i] = v
         /\ 100 * Cardinality({i \in DOMAIN seq : seq[i] <= v}) >= p * Len(seq)
         /\ 100 * Cardinality({i \in DOMAIN seq : seq[i] < v}) < p * Len(seq)
  <1> DEFINE n == Len(seq)
             m == Rank(p, n)
  <1>1. n \in Nat /\ DOMAIN seq = 1..n /\ Len(InOrder(seq)) = n
    BY InOrderFacts
  <1>2. p \in {50, 95, 99}
    BY DEF Percentiles
  <1> HIDE DEF n
  <1>3. m \in 1..n /\ 100 * m >= p * n /\ 100 * (m - 1) < p * n
    <2>1. CASE p = 50
      BY <1>1, <2>1 DEF Rank, n
    <2>2. CASE p = 95
      BY <1>1, <2>2 DEF Rank, n
    <2>3. CASE p = 99
      BY <1>1, <2>3 DEF Rank, n
    <2> QED
      BY <1>2, <2>1, <2>2, <2>3
  <1> HIDE DEF m
  <1>4. Percentile(InOrder(seq), p) = InOrder(seq)[m]
    BY <1>1, <1>3 DEF Percentile, Clamp, m, n
  <1> DEFINE v == InOrder(seq)[m]
             u == Cardinality({i \in DOMAIN seq : seq[i] <= v})
             l == Cardinality({i \in DOMAIN seq : seq[i] < v})
  <1>5. u \in Nat /\ l \in Nat /\ u >= m /\ l <= m - 1 /\ \E i \in DOMAIN seq : seq[i] = v
    BY <1>1, <1>3, Beneath
  <1>6. p * n \in Nat
    BY <1>1, <1>2
  <1>7. 100 * u >= p * n /\ 100 * l < p * n
    <2> HIDE DEF u, l
    <2> QED
      BY <1>1, <1>3, <1>5, <1>6
  <1> QED
    BY <1>4, <1>5, <1>7 DEF n

-------------------------------------------------------------------------------
(***************************************************************************)
(* The tallies.                                                            *)
(***************************************************************************)
Observed == [i \in DOMAIN added |-> added[i].latency]

WithStatus(s) == {i \in DOMAIN added : added[i].status = s}
Failing       == {i \in DOMAIN added : added[i].status = 0 \/ added[i].status >= 400}

CountInv ==
    /\ added \in Seq(TestResults)
    /\ DOMAIN statusCounts = {added[i].status : i \in DOMAIN added}
    /\ \A s \in DOMAIN statusCounts : statusCounts[s] = Cardinality(WithStatus(s))
    /\ failures = Cardinality(Failing)

\* What the summary was computed from, and that nothing is added to it afterwards.
ReportInv ==
    /\ report = <<>> => latencies = Observed
    /\ report # <<>> =>
          /\ latencies = InOrder(Observed)
          /\ report[1].percentile = [q \in Percentiles |-> Percentile(latencies, q)]
          /\ report[1].requests = Len(added) /\ report[1].failures = failures
          /\ report[1].statusCounts = statusCounts

FiguresInv == CountInv /\ ReportInv

LEMMA ObservedTyped ==
  ASSUME added \in Seq(TestResults)
  PROVE  /\ Observed \in Seq(Nat) /\ Len(Observed) = Len(added) /\ Len(added) \in Nat
         /\ DOMAIN added = 1..Len(added) /\ DOMAIN Observed = DOMAIN added
         /\ \A i \in DOMAIN added : /\ added[i] \in TestResults
                                    /\ added[i].status \in Nat /\ added[i].latency \in Nat
                                    /\ Observed[i] = added[i].latency
  <1>1. \A i \in DOMAIN added : added[i] \in TestResults
    BY ElementOfSeq
  <1>2. \A i \in DOMAIN added : added[i].status \in Nat /\ added[i].latency \in Nat
    BY <1>1, ResultsAssumption DEF ResultType
  <1>3. DOMAIN added = 1..Len(added) /\ Len(added) \in Nat
    OBVIOUS
  <1>4. Observed \in Seq(Nat) /\ Len(Observed) = Len(added)
    BY <1>2, <1>3 DEF Observed
  <1> QED
    BY <1>1, <1>2, <1>3, <1>4 DEF Observed

LEMMA CountsOneMore ==
  ASSUME NEW n \in Nat, NEW S \in SUBSET (1..n), NEW T,
         T = S \/ T = S \cup {n + 1}
  PROVE  /\ Cardinality(S) \in Nat
         /\ Cardinality(T) = Cardinality(S) + (IF n + 1 \in T THEN 1 ELSE 0)
  <1>1. IsFiniteSet(S)
    <2>1. IsFiniteSet(1..n)
      BY FS_Interval
    <2> QED
      BY <2>1, FS_Subset
  <1>2. n + 1 \notin S
    OBVIOUS
  <1>3. Cardinality(S) \in Nat
    BY <1>1, FS_CardinalityType
  <1> QED
    BY <1>1, <1>2, <1>3, FS_AddElement

LEMMA AddKeepsFigures ==
  ASSUME FiguresInv, NEW result \in TestResults, Add(result)
  PROVE  FiguresInv'
  <1> DEFINE n == Len(added)
  <1>1. /\ added \in Seq(TestResults) /\ n \in Nat /\ DOMAIN added = 1..n
        /\ \A i \in DOMAIN added : added[i].status \in Nat /\ added[i].latency \in Nat
    BY ObservedTyped DEF FiguresInv, CountInv
  <1>2. /\ added' = Append(added, result) /\ report = <<>> /\ report' = <<>>
        /\ latencies' = Append(latencies, result.latency)
        /\ statusCounts' = Count(statusCounts, result.status)
        /\ failures' = failures + (IF IsFailure(result.status) THEN 1 ELSE 0)
    BY DEF Add
  <1>3. result.status \in Nat /\ result.latency \in Nat
    BY ResultsAssumption DEF ResultType
  <1>4. /\ added' \in Seq(TestResults) /\ DOMAIN added' = 1..(n + 1)
        /\ \A i \in 1..n : added'[i] = added[i]
        /\ added'[n + 1] = result
    BY <1>1, <1>2
  <1>5. \A i \in 1..(n + 1) : i \in 1..n \/ i = n + 1
    BY <1>1
  <1>6. DOMAIN statusCounts' = {added'[i].status : i \in DOMAIN added'}
    <2>1. DOMAIN statusCounts' = DOMAIN statusCounts \cup {result.status}
      BY <1>2 DEF Count
    <2>2. {added'[i].status : i \in DOMAIN added'}
            = {added[i].status : i \in DOMAIN added} \cup {result.status}
      <3>1. n + 1 \in 1..(n + 1) /\ \A i \in 1..n : i \in 1..(n + 1)
        BY <1>1
      <3> QED
        BY <1>1, <1>4, <1>5, <3>1
    <2> QED
      BY <2>1, <2>2 DEF FiguresInv, CountInv
  <1>7. ASSUME NEW s \in DOMAIN statusCounts'
        PROVE  statusCounts'[s] = Cardinality(WithStatus(s))'
    <2>1. WithStatus(s)' = IF result.status = s THEN WithStatus(s) \cup {n + 1}
                                                ELSE WithStatus(s)
      BY <1>1, <1>4, <1>5 DEF WithStatus
    <2>2. WithStatus(s) \in SUBSET (1..n)
      BY <1>1 DEF WithStatus
    <2>3. n + 1 \notin 1..n
      BY <1>1
    <2>4. /\ Cardinality(WithStatus(s)) \in Nat
          /\ Cardinality(WithStatus(s)')
               = Cardinality(WithStatus(s)) + (IF s = result.status THEN 1 ELSE 0)
      BY <1>1, <2>1, <2>2, <2>3, CountsOneMore, SMTT(30)
    <2>5. CASE s \in DOMAIN statusCounts
      <3>1. statusCounts'[s] = statusCounts[s] + (IF s = result.status THEN 1 ELSE 0)
        BY <1>2, <2>5 DEF Count
      <3> QED
        BY <2>4, <2>5, <3>1 DEF FiguresInv, CountInv
    <2>6. CASE s \notin DOMAIN statusCounts
      <3>1. WithStatus(s) = {}
        BY <2>6 DEF WithStatus, FiguresInv, CountInv
      <3>2. Cardinality(WithStatus(s)) = 0
        BY <3>1, FS_EmptySet
      <3>3. statusCounts'[s] = 0 + (IF s = result.status THEN 1 ELSE 0)
        BY <1>2, <2>6 DEF Count
      <3> QED
        BY <2>4, <3>2, <3>3
    <2> QED
      BY <2>5, <2>6
  <1>8. failures' = Cardinality(Failing)'
    <2>1. Failing' = IF IsFailure(result.status) THEN Failing \cup {n + 1} ELSE Failing
      <3>1. IsFailure(result.status) <=> result.status = 0 \/ result.status >= 400
        BY <1>3 DEF IsFailure, Outcome
      <3> QED
        BY <1>1, <1>4, <1>5, <3>1 DEF Failing
    <2>2. Failing \in SUBSET (1..n)
      BY <1>1 DEF Failing
    <2>3. n + 1 \notin 1..n
      BY <1>1
    <2>4. Cardinality(Failing')
            = Cardinality(Failing) + (IF IsFailure(result.status) THEN 1 ELSE 0)
      BY <1>1, <2>1, <2>2, <2>3, CountsOneMore
    <2> QED
      BY <1>2, <2>4 DEF FiguresInv, CountInv
  <1>9. latencies' = Observed'
    <2>1. latencies = Observed
      BY <1>2 DEF FiguresInv, ReportInv
    <2>2. Observed \in Seq(Nat) /\ Len(Observed) = n
      BY <1>1, ObservedTyped
    <2>3. latencies' = [i \in 1..(n + 1) |-> IF i = n + 1 THEN result.latency
                                                        ELSE added[i].latency]
      BY <1>1, <1>2, <2>1, <2>2 DEF Observed
    <2> QED
      BY <1>4, <1>5, <2>3 DEF Observed
  <1> QED
    BY <1>2, <1>4, <1>6, <1>7, <1>8, <1>9 DEF FiguresInv, CountInv, ReportInv

LEMMA SummariseKeepsFigures ==
  ASSUME FiguresInv, Summarise
  PROVE  FiguresInv'
  <1>1. /\ added' = added /\ statusCounts' = statusCounts /\ failures' = failures
        /\ report = <<>> /\ latencies' = InOrder(latencies)
        /\ report' = <<[ requests |-> Len(latencies),
                     failures |-> failures,
                     min |-> IF latencies = <<>> THEN 0 ELSE latencies'[1],
                     max |-> IF latencies = <<>> THEN 0 ELSE latencies'[Len(latencies)],
                     percentile |-> [q \in Percentiles |-> Percentile(latencies', q)],
                     statusCounts |-> statusCounts]>>
    BY Zenon DEF Summarise
  <1>2. Observed' = Observed /\ latencies = Observed
    BY <1>1 DEF FiguresInv, ReportInv, Observed
  <1>3. Len(Observed) = Len(added)
    BY ObservedTyped DEF FiguresInv, CountInv
  <1>4. CountInv'
    BY <1>1 DEF FiguresInv, CountInv, WithStatus, Failing
  <1>5. ReportInv'
    BY <1>1, <1>2, <1>3 DEF ReportInv
  <1> QED
    BY <1>4, <1>5 DEF FiguresInv

LEMMA FiguresHold == Spec => []FiguresInv
  <1>1. Init => FiguresInv
    <2> SUFFICES ASSUME Init PROVE FiguresInv
      OBVIOUS
    <2>1. /\ latencies = <<>> /\ statusCounts = [s \in {} |-> 0] /\ failures = 0
          /\ report = <<>> /\ added = <<>>
      BY DEF Init, SummaryInit
    <2>2. Failing = {} /\ Observed = <<>> /\ DOMAIN statusCounts = {}
      BY <2>1 DEF Failing, Observed
    <2>3. Cardinality({}) = 0
      BY FS_EmptySet
    <2> QED
      BY <2>1, <2>2, <2>3 DEF FiguresInv, CountInv, ReportInv
  <1>2. FiguresInv /\ [Next]_vars => FiguresInv'
    <2> SUFFICES ASSUME FiguresInv, [Next]_vars PROVE FiguresInv'
      OBVIOUS
    <2>1. CASE UNCHANGED summaryVars
      BY <2>1 DEF summaryVars, FiguresInv, CountInv, ReportInv, WithStatus, Failing,
                  Observed
    <2>2. ASSUME NEW result \in TestResults, Receive(result)
          PROVE  FiguresInv'
      BY <2>2, AddKeepsFigures DEF Receive
    <2>3. CASE Sum
      BY <2>3, SummariseKeepsFigures DEF Sum
    <2>4. CASE ~Sum /\ ~\E result \in TestResults : Receive(result)
      <3>1. UNCHANGED summaryVars
        BY <2>4 DEF Next, Connect, Begin, AwaitResult, WriteOne, Return, vars
      <3> QED
        BY <2>1, <3>1
    <2> QED
      BY <2>2, <2>3, <2>4
  <1> QED
    BY <1>1, <1>2, PTL DEF Spec

\* For every set of results and every order of them the status counts, the failures and
\* the latencies are those of the results, before the summary is computed and after
\* (summary.go 59-68, 70-98).
THEOREM TalliesHold == Spec => []TalliesAgree
  <1>1. FiguresInv => TalliesAgree
    <2> SUFFICES ASSUME FiguresInv PROVE TalliesAgree
      OBVIOUS
    <2>1. /\ \A s \in DOMAIN statusCounts : statusCounts[s] = Cardinality(WithStatus(s))
          /\ \A i \in DOMAIN added : added[i].status \in DOMAIN statusCounts
          /\ failures = Cardinality(Failing)
      BY DEF FiguresInv, CountInv
    <2>2. ASSUME NEW l
          PROVE  Cardinality({i \in DOMAIN added : added[i].latency = l})
                   = Cardinality({k \in DOMAIN latencies : latencies[k] = l})
      <3>1. /\ Observed \in Seq(Nat) /\ DOMAIN Observed = DOMAIN added
            /\ \A i \in DOMAIN added : Observed[i] = added[i].latency
        BY ObservedTyped DEF FiguresInv, CountInv
      <3>2. {i \in DOMAIN added : added[i].latency = l} = {i \in DOMAIN Observed : Observed[i] = l}
        BY <3>1
      <3>3. CASE report = <<>>
        BY <3>2, <3>3 DEF FiguresInv, ReportInv
      <3>4. CASE report # <<>>
        <4>1. latencies = InOrder(Observed) /\ DOMAIN latencies = DOMAIN Observed
          BY <3>4 DEF FiguresInv, ReportInv, InOrder
        <4>2. Cardinality({k \in DOMAIN Observed : InOrder(Observed)[k] = l})
                = Cardinality({i \in DOMAIN Observed : Observed[i] = l})
          BY <3>1, InOrderCounts
        <4>3. {k \in DOMAIN latencies : latencies[k] = l}
                = {k \in DOMAIN Observed : InOrder(Observed)[k] = l}
          BY <4>1
        <4> QED
          BY <3>2, <4>2, <4>3
      <3> QED
        BY <3>3, <3>4
    <2> QED
      BY <2>1, <2>2 DEF TalliesAgree, Results, WithStatus, Failing
  <1> QED
    BY <1>1, FiguresHold, PTL

\* For every number of results the percentiles are nearest-rank: the integer arithmetic
\* of the rank neither misses the share asked for nor goes beyond the least value that
\* reaches it (summary.go 102-116).
THEOREM PercentilesHold == Spec => []PercentilesAreNearestRank
  <1>1. FiguresInv => PercentilesAreNearestRank
    <2> SUFFICES ASSUME FiguresInv, report # <<>>, added # <<>>, NEW p \in Percentiles
                 PROVE  LET v == report[1].percentile[p] IN
                          /\ \E i \in DOMAIN added : added[i].latency = v
                          /\ 100 * Results(LAMBDA r : r.latency <= v) >= p * Len(added)
                          /\ 100 * Results(LAMBDA r : r.latency < v) < p * Len(added)
      BY DEF PercentilesAreNearestRank
    <2>1. /\ Observed \in Seq(Nat) /\ DOMAIN Observed = DOMAIN added
          /\ Len(Observed) = Len(added) /\ Len(added) > 0
          /\ \A i \in DOMAIN added : Observed[i] = added[i].latency
      BY ObservedTyped DEF FiguresInv, CountInv
    <2> DEFINE v == Percentile(InOrder(Observed), p)
    <2>2. report[1].percentile[p] = v
      BY DEF FiguresInv, ReportInv
    <2>3. /\ \E i \in DOMAIN Observed : Observed[i] = v
          /\ 100 * Cardinality({i \in DOMAIN Observed : Observed[i] <= v}) >= p * Len(added)
          /\ 100 * Cardinality({i \in DOMAIN Observed : Observed[i] < v}) < p * Len(added)
      BY <2>1, NearestRank
    <2> HIDE DEF v
    <2>4. /\ {i \in DOMAIN added : added[i].latency <= v} = {i \in DOMAIN Observed : Observed[i] <= v}
          /\ {i \in DOMAIN added : added[i].latency < v} = {i \in DOMAIN Observed : Observed[i] < v}
      BY <2>1
    <2> QED
      BY <2>1, <2>2, <2>3, <2>4 DEF Results
  <1> QED
    BY <1>1, FiguresHold, PTL

-------------------------------------------------------------------------------
(***************************************************************************)
(* The series and the figures.                                             *)
(***************************************************************************)
PointsInv ==
    /\ useInflux =>
          /\ DOMAIN series \subseteq {Identity(added[i]) : i \in DOMAIN added}
          /\ \A i \in DOMAIN added \ lost :
                Identity(added[i]) \in DOMAIN series \/ (writing /\ i = Len(added))
    /\ phase \in {"summing", "returned"} => report # <<>>

LEMMA ReceiveKeepsPoints ==
  ASSUME SeriesInv, PointsInv, NEW result \in TestResults, Receive(result)
  PROVE  PointsInv'
  <1>1. /\ added' = Append(added, result) /\ added \in Seq(TestResults)
        /\ series' = series /\ lost' = lost /\ useInflux' = useInflux
        /\ writing' = useInflux /\ ~writing /\ phase' = phase /\ phase = "recording"
    BY DEF Receive, Receiving, Add, setupVars, SeriesInv, SeriesTypes
  <1>2. /\ DOMAIN added' = DOMAIN added \cup {Len(added')}
        /\ \A i \in DOMAIN added : added'[i] = added[i]
    BY <1>1
  <1>3. \A i \in DOMAIN added : Identity(added'[i]) = Identity(added[i])
    BY <1>2
  <1>4. ASSUME useInflux
        PROVE  /\ DOMAIN series' \subseteq {Identity(added'[i]) : i \in DOMAIN added'}
               /\ \A i \in DOMAIN added' \ lost' :
                     Identity(added'[i]) \in DOMAIN series' \/ (writing' /\ i = Len(added'))
    BY <1>1, <1>2, <1>3, <1>4 DEF PointsInv
  <1> QED
    BY <1>1, <1>4 DEF PointsInv, Identity, Tags, Timestamp

LEMMA WriteOneKeepsPoints ==
  ASSUME SeriesInv, PointsInv, NEW d \in WriteTimes, WriteOne(d)
  PROVE  PointsInv'
  <1>1. /\ added' = added /\ useInflux' = useInflux /\ phase' = phase /\ phase = "recording"
        /\ Len(added) \in DOMAIN added
        /\ Store(added[Len(added)]) \/ (UNCHANGED series /\ lost' = lost \cup {Len(added)})
        /\ lost \subseteq lost'
    BY DEF WriteOne, summaryVars, SeriesInv, SeriesTypes, WritingInv
  <1>2. \A i \in DOMAIN added : Identity(added[i])' = Identity(added[i])
    BY <1>1
  <1>3. ASSUME useInflux
        PROVE  /\ DOMAIN series' \subseteq {Identity(added[i]) : i \in DOMAIN added}
               /\ \A i \in DOMAIN added \ lost' : Identity(added[i]) \in DOMAIN series'
    <2>1. CASE Store(added[Len(added)])
      <3>1. DOMAIN series' = DOMAIN series \cup {Identity(added[Len(added)])}
        BY <2>1 DEF Store
      <3> QED
        BY <1>1, <1>3, <3>1 DEF PointsInv
    <2>2. CASE UNCHANGED series /\ lost' = lost \cup {Len(added)}
      BY <1>1, <1>3, <2>2 DEF PointsInv
    <2> QED
      BY <1>1, <2>1, <2>2
  <1> QED
    BY <1>1, <1>3 DEF PointsInv, Identity, Tags, Timestamp

LEMMA PointsHold == Spec => []PointsInv
  <1>1. Init => PointsInv
    BY DEF Init, SetupInit, SummaryInit, PointsInv
  <1>2. SeriesInv /\ PointsInv /\ [Next]_vars => PointsInv'
    <2> SUFFICES ASSUME SeriesInv, PointsInv, [Next]_vars PROVE PointsInv'
      OBVIOUS
    <2>1. ASSUME UNCHANGED <<useInflux, series, added, lost, writing>>,
                 phase' \in {"summing", "returned"} => report' # <<>>
          PROVE  PointsInv'
      BY <2>1 DEF PointsInv, Identity, Tags, Timestamp
    <2>2. CASE Connect
      <3>1. phase' \notin {"summing", "returned"}
        BY <2>2 DEF Connect, SetupStep, NewClient, PingSucceeds, PingFails, BackoffElapses,
                    BackoffCancelled, CreateDatabase, Fails
      <3> QED
        BY <2>1, <2>2, <3>1 DEF Connect, summaryVars, recorderVars
    <2>3. CASE Begin \/ AwaitResult
      BY <2>1, <2>3 DEF Begin, AwaitResult, Receiving, summaryVars, recorderVars
    <2>4. ASSUME NEW result \in TestResults, Receive(result) PROVE PointsInv'
      BY <2>4, ReceiveKeepsPoints
    <2>5. ASSUME NEW d \in WriteTimes, WriteOne(d) PROVE PointsInv'
      BY <2>5, WriteOneKeepsPoints
    <2>6. CASE Sum
      <3>1. report' # <<>>
        BY <2>6 DEF Sum, Summarise
      <3> QED
        BY <2>1, <2>6, <3>1 DEF Sum, Summarise, recorderVars
    <2>7. CASE Return
      <3>1. report' # <<>>
        BY <2>7 DEF Return, summaryVars, PointsInv
      <3> QED
        BY <2>1, <2>7, <3>1 DEF Return, summaryVars, recorderVars
    <2>8. CASE UNCHANGED vars
      BY <2>1, <2>8 DEF vars, setupVars, summaryVars, recorderVars, PointsInv
    <2> QED
      BY <2>2, <2>3, <2>4, <2>5, <2>6, <2>7, <2>8 DEF Next
  <1> QED
    BY <1>1, <1>2, SeriesHolds, PTL DEF Spec

LEMMA ImageCount ==
  ASSUME NEW A, NEW B, NEW f \in Bijection(A, B), NEW S \in SUBSET A, IsFiniteSet(S)
  PROVE  Cardinality({f[i] : i \in S}) = Cardinality(S)
  <1> DEFINE T == {f[i] : i \in S}
             g == [i \in S |-> f[i]]
  <1>1. \A i, j \in A : f[i] = f[j] => i = j
    BY DEF Bijection, Injection, IsInjective
  <1>2. g \in Bijection(S, T)
    BY <1>1 DEF Bijection, Injection, Surjection, IsInjective
  <1> QED
    BY <1>2, FS_Bijection DEF ExistsBijection

\* For every set of results: if no write failed and no two requests began in the same
\* nanosecond, the points of the series, counted by outcome and by status, give the
\* figures of the summary (summary.go 64).
THEOREM SeriesTellsTheSame == Spec => []SeriesAgreesWithSummary
  <1>1. TimeInv /\ FiguresInv /\ PointsInv => SeriesAgreesWithSummary
    <2> SUFFICES ASSUME TimeInv, FiguresInv, PointsInv, phase = "returned", useInflux,
                        lost = {}, \A i, j \in DOMAIN added :
                                       added[i].start = added[j].start => i = j
                 PROVE  /\ report[1].requests = Cardinality(DOMAIN series)
                        /\ report[1].failures =
                              Cardinality({id \in DOMAIN series : id.tags.outcome # "ok"})
                        /\ \A s \in DOMAIN report[1].statusCounts :
                              report[1].statusCounts[s] =
                                  Cardinality({id \in DOMAIN series : id.tags.status = s})
      BY DEF SeriesAgreesWithSummary
    <2> DEFINE f == [i \in DOMAIN added |-> Identity(added[i])]
    <2>1. ~writing
      BY DEF TimeInv, ClientInv
    <2>2. /\ report[1].requests = Len(added)
          /\ report[1].failures = Cardinality(Failing)
          /\ DOMAIN report[1].statusCounts = DOMAIN statusCounts
          /\ \A s \in DOMAIN statusCounts :
                report[1].statusCounts[s] = Cardinality(WithStatus(s))
      BY DEF FiguresInv, ReportInv, CountInv, PointsInv
    <2>3. /\ DOMAIN added = 1..Len(added) /\ Len(added) \in Nat
          /\ \A i \in DOMAIN added : added[i].status \in Nat
      BY ObservedTyped DEF FiguresInv, CountInv
    <2>4. IsFiniteSet(DOMAIN added) /\ Cardinality(DOMAIN added) = Len(added)
      BY <2>3, FS_Interval
    <2>5. /\ DOMAIN series \subseteq {f[i] : i \in DOMAIN added}
          /\ \A i \in DOMAIN added : f[i] \in DOMAIN series
      BY <2>1 DEF PointsInv
    <2>6. \A i, j \in DOMAIN added : f[i] = f[j] => i = j
      BY DEF Identity, Timestamp
    <2>7. f \in Bijection(DOMAIN added, DOMAIN series)
      BY <2>5, <2>6 DEF Bijection, Injection, Surjection, IsInjective
    <2>8. Cardinality(DOMAIN series) = Len(added)
      BY <2>4, <2>7, FS_Bijection DEF ExistsBijection
    <2>9. \A i \in DOMAIN added : /\ f[i].tags.status = added[i].status
                                  /\ f[i].tags.outcome = Outcome(added[i].status)
      BY DEF Identity, Tags
    <2> HIDE DEF f
    <2>10. {id \in DOMAIN series : id.tags.outcome # "ok"} = {f[i] : i \in Failing}
      <3>1. \A i \in DOMAIN added : Outcome(added[i].status) # "ok" <=> i \in Failing
        BY <2>3 DEF Outcome, Failing
      <3>2. Failing \subseteq DOMAIN added
        BY DEF Failing
      <3> QED
        BY <2>5, <2>9, <3>1, <3>2
    <2>11. ASSUME NEW s
           PROVE  {id \in DOMAIN series : id.tags.status = s} = {f[i] : i \in WithStatus(s)}
      BY <2>5, <2>9 DEF WithStatus
    <2>12. /\ Failing \in SUBSET DOMAIN added
           /\ \A s : WithStatus(s) \in SUBSET DOMAIN added
      BY DEF Failing, WithStatus
    <2>13. Cardinality({f[i] : i \in Failing}) = Cardinality(Failing)
      BY <2>4, <2>7, <2>12, FS_Subset, ImageCount
    <2>14. ASSUME NEW s
           PROVE  Cardinality({f[i] : i \in WithStatus(s)}) = Cardinality(WithStatus(s))
      BY <2>4, <2>7, <2>12, FS_Subset, ImageCount
    <2>15. Cardinality({id \in DOMAIN series : id.tags.outcome # "ok"})
              = Cardinality(Failing)
      BY <2>10, <2>13, Zenon
    <2>16. \A s : Cardinality({id \in DOMAIN series : id.tags.status = s})
                     = Cardinality(WithStatus(s))
      BY <2>11, <2>14, Zenon
    <2> QED
      BY <2>2, <2>8, <2>15, <2>16, Zenon
  <1> QED
    BY <1>1, TimeHolds, FiguresHold, PointsHold, PTL

-------------------------------------------------------------------------------
(***************************************************************************)
(* The types.                                                              *)
(***************************************************************************)
BoundsInv ==
    /\ Len(added) <= MaxResults
    /\ \A id \in DOMAIN series : series[id] \in TestResults

LEMMA StoreTyped ==
  ASSUME \A id \in DOMAIN series : series[id] \in TestResults, NEW result \in TestResults,
         Store(result)
  PROVE  \A id \in DOMAIN series' : series'[id] \in TestResults
  BY DEF Store

LEMMA BoundsHold == Spec => []BoundsInv
  <1>1. Init => BoundsInv
    BY MaxAssumption DEF Init, SummaryInit, BoundsInv
  <1>2. SeriesInv /\ BoundsInv /\ [Next]_vars => BoundsInv'
    <2> SUFFICES ASSUME SeriesInv, BoundsInv, [Next]_vars PROVE BoundsInv'
      OBVIOUS
    <2>1. CASE Connect \/ Begin \/ AwaitResult \/ Sum \/ Return \/ UNCHANGED vars
      BY <2>1 DEF Connect, Begin, AwaitResult, Sum, Summarise, Return, vars, summaryVars,
                  recorderVars, BoundsInv
    <2>2. ASSUME NEW result \in TestResults, Receive(result)
          PROVE  BoundsInv'
      <3>1. /\ added \in Seq(TestResults) /\ added' = Append(added, result)
            /\ Len(added) < MaxResults /\ series' = series
        BY <2>2 DEF Receive, Add, SeriesInv, SeriesTypes
      <3>2. Len(added') = Len(added) + 1 /\ Len(added) \in Nat
        BY <3>1, AppendProperties, LenProperties
      <3> QED
        BY <3>1, <3>2, MaxAssumption DEF BoundsInv
    <2>3. ASSUME NEW d \in WriteTimes, WriteOne(d)
          PROVE  BoundsInv'
      <3>1. /\ added' = added
            /\ Store(added[Len(added)]) \/ UNCHANGED series
        BY <2>3 DEF WriteOne, summaryVars
      <3>2. added[Len(added)] \in TestResults
        BY <2>3 DEF WriteOne, SeriesInv, SeriesTypes, WritingInv
      <3> QED
        BY <3>1, <3>2, StoreTyped DEF BoundsInv
    <2> QED
      BY <2>1, <2>2, <2>3 DEF Next
  <1> QED
    BY <1>1, <1>2, SeriesHolds, PTL DEF Spec

\* What the tallies count is among the results.
LEMMA TalliesTyped ==
  ASSUME FiguresInv, BoundsInv PROVE SummaryTypeOK
  <1>1. /\ Observed \in Seq(Nat) /\ Len(Observed) = Len(added) /\ Len(added) \in Nat
        /\ DOMAIN added = 1..Len(added)
        /\ \A i \in DOMAIN added : added[i] \in TestResults
        /\ added \in Seq(TestResults) /\ Len(added) <= MaxResults
    BY ObservedTyped DEF FiguresInv, CountInv, BoundsInv
  <1>2. latencies \in Seq(Nat) /\ Len(latencies) = Len(added)
    <2>1. InOrder(Observed) \in Seq(Nat) /\ Len(InOrder(Observed)) = Len(Observed)
      BY <1>1, InOrderFacts
    <2> QED
      BY <1>1, <2>1 DEF FiguresInv, ReportInv
  <1>3. IsFiniteSet(DOMAIN added) /\ Cardinality(DOMAIN added) = Len(added)
    <2>1. 1 \in Int /\ Len(added) \in Int
      BY <1>1
    <2>2. IsFiniteSet(1..Len(added))
          /\ Cardinality(1..Len(added)) = IF 1 > Len(added) THEN 0 ELSE Len(added) - 1 + 1
      BY <2>1, FS_Interval
    <2> QED
      BY <1>1, <2>2
  <1>4. ASSUME NEW S \in SUBSET DOMAIN added
        PROVE  /\ Cardinality(S) \in 0..Len(added)
               /\ S # {} => Cardinality(S) # 0
    <2>1. IsFiniteSet(S) /\ Cardinality(S) <= Len(added)
      BY <1>3, FS_Subset
    <2>2. Cardinality(S) \in Nat
      BY <2>1, FS_CardinalityType
    <2>3. S # {} => Cardinality(S) # 0
      BY <2>1, FS_EmptySet
    <2> QED
      BY <1>1, <2>1, <2>2, <2>3
  <1>5. DOMAIN statusCounts \subseteq {r.status : r \in TestResults}
    BY <1>1 DEF FiguresInv, CountInv
  <1>6. ASSUME NEW s \in DOMAIN statusCounts PROVE statusCounts[s] \in 1..MaxResults
    <2>1. WithStatus(s) \in SUBSET DOMAIN added /\ WithStatus(s) # {}
      BY DEF FiguresInv, CountInv, WithStatus
    <2>2. statusCounts[s] = Cardinality(WithStatus(s))
      BY DEF FiguresInv, CountInv
    <2>3. Cardinality(WithStatus(s)) \in 0..Len(added) /\ Cardinality(WithStatus(s)) # 0
      BY <1>4, <2>1
    <2> QED
      BY <1>1, <2>2, <2>3, MaxAssumption
  <1>7. failures \in 0..Len(latencies)
    <2>1. Failing \in SUBSET DOMAIN added
      BY DEF Failing
    <2> QED
      BY <1>2, <1>4, <2>1 DEF FiguresInv, CountInv
  <1> QED
    BY <1>1, <1>2, <1>5, <1>6, <1>7 DEF SummaryTypeOK

\* The types hold for every timeout, every duration and every set of results.
THEOREM RecorderTypeCorrect == Spec => []TypeOK
  <1>1. TimeInv /\ SeriesInv /\ FiguresInv /\ BoundsInv => TypeOK
    BY TalliesTyped DEF TypeOK, TimeInv, TimeTypes, SeriesInv, SeriesTypes, BoundsInv
  <1> QED
    BY <1>1, TimeHolds, SeriesHolds, FiguresHold, BoundsHold, PTL
===============================================================================
