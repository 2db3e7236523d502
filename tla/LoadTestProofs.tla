---------------------------- MODULE LoadTestProofs ----------------------------
(***************************************************************************)
(* Proofs about LoadTest, for every set of workers, documents and options. *)
(* LoadInv is the inductive invariant; the step lemmas establish its parts *)
(* one by one, and the theorems at the end follow from it.                 *)
(***************************************************************************)
EXTENDS LoadTest, ReadStreamProofs, FiniteSetTheorems

NotStarted == mpc \in {"validate", "connect", "launch", "refused"}
Closing    == mpc \in {"close", "joinConsumer", "joinReader", "report", "returned"}

\* Where the goroutines can be, given where the main goroutine is.
ControlInv ==
    /\ NotStarted => /\ \A w \in Workers : wpc[w] = "idle"
                     /\ cpc = "idle" /\ rpc = "idle"
    /\ ~NotStarted => /\ \A w \in Workers : wpc[w] # "idle"
                      /\ cpc # "idle" /\ rpc # "idle"
    /\ Closing => \A w \in Workers : wpc[w] = "exited"
    /\ resultsClosed <=> mpc \in {"joinConsumer", "joinReader", "report", "returned"}
    /\ cpc = "done" => resultsClosed
    /\ mpc \in {"joinReader", "report", "returned"} => cpc = "done"
    /\ mpc \in {"report", "returned"} => rpc = "done"

\* What the goroutines hold, and what the main goroutine has published.
DataInv ==
    /\ \A w \in Workers : wpc[w] = "send" => outcome[w] # "none"
    /\ inHand # "none" <=> cpc = "add"
    /\ mpc = "returned" =>
           /\ summary = acc
           /\ verdict = (IF readErr # "nil" /\ ~IsDone(readErr) THEN readErr ELSE "nil")

\* While the context is live a worker exits only on a channel that is closed and drained.
LossInv ==
    ~ctxDone => /\ dropped = 0 /\ missed = 0
                /\ \A w \in Workers : wpc[w] = "exited" =>
                       entries = <<>> /\ entriesClosed

\* A worker that delivered a result late cannot get another one.
LateInv ==
    \A w \in Workers :
        /\ late[w] <= 1
        /\ late[w] > 0 => ctxDone /\ wpc[w] \in {"forward", "select", "issue", "exited"}

\* The inductive invariant.
LoadInv ==
    /\ ReaderInv /\ LoadTypeOK
    /\ ControlInv /\ DataInv /\ LossInv /\ LateInv
    /\ EntriesAccounted /\ ResultsCopied

-------------------------------------------------------------------------------
(***************************************************************************)
(* A load test moves the reader's variables only by the reader's actions.  *)
(***************************************************************************)
LEMMA StreamMoves ==
    ASSUME [Next]_vars
    PROVE  [StreamNext]_streamVars
  <1>1. CASE Reader
    BY <1>1 DEF Reader, StreamNext
  <1>2. CASE \E w \in Workers : TakeEntry(w)
    BY <1>2 DEF TakeEntry, StreamNext
  <1>3. CASE Launch
    BY <1>3 DEF Launch, StreamNext
  <1>4. CASE ContextEnds
    BY <1>4 DEF ContextEnds, StreamNext
  <1>5. ASSUME NEW w \in Workers, WorkerStep(w) \/ RequestEnds(w) \/ Forward(w)
        PROVE  TakeEntry(w) \/ UNCHANGED streamVars
    BY <1>5 DEF WorkerStep, RequestEnds, SeeClosed, SeeDone, Issue, Deliver,
       DeliverCancelled, ForwardCancelled, Respond, Fail, RequestFails, Forward
  <1>6. Consumer => UNCHANGED streamVars
    BY DEF Consumer, AddResult, WriteOne, ConsumerEnds
  <1>7. Main => Launch \/ UNCHANGED streamVars
    BY DEF Main, ValidateOptions, ConnectInflux, WaitWorkers, CloseResults, JoinConsumer,
       JoinReader, Report, MainStep
  <1>8. CallerStops \/ Terminated \/ UNCHANGED vars => UNCHANGED streamVars
    BY DEF CallerStops, Terminated, vars
  <1> QED
    BY <1>1, <1>2, <1>3, <1>4, <1>5, <1>6, <1>7, <1>8 DEF Next

LEMMA StreamPart ==
    ASSUME ReaderInv, [Next]_vars
    PROVE  ReaderInv'
  BY StreamMoves, ReaderStepInv, CancelInv, StutterInv DEF StreamNext, StreamTerminated

\* The reader inside a load test is a reader: whatever the workers take, and whenever,
\* is a behaviour of ReadStream as far as its variables go (load.go 141-180).
THEOREM ReaderIsStream == Spec => ReaderInit /\ [][StreamNext]_streamVars
  <1>1. Init => ReaderInit
    BY DEF Init
  <1>2. [Next]_vars => [StreamNext]_streamVars
    BY StreamMoves
  <1> QED
    BY <1>1, <1>2, PTL DEF Spec

\* However many workers take from it, what the channel holds for them continues the
\* selection in recorded order, over and over (read.go 62-107, load.go 141-180).
THEOREM WorkersShareOrder == Spec => []StreamOrder
  <1>1. ReaderInit => ReaderInv /\ OrderInv
    BY ReaderInitInv, OrderInitInv
  <1>2. ReaderInv /\ OrderInv /\ [StreamNext]_streamVars => ReaderInv' /\ OrderInv'
    BY ReaderStepInv, CancelInv, StutterInv, OrderStepInv, OrderStays
    DEF StreamNext, StreamTerminated
  <1> QED
    BY <1>1, <1>2, ReaderIsStream, PTL DEF OrderInv

-------------------------------------------------------------------------------
(***************************************************************************)
(* Counting a set of workers before and after one joins or leaves it.      *)
(***************************************************************************)
LEMMA CountChanged ==
    ASSUME NEW F \in SUBSET Workers, NEW G \in SUBSET Workers, NEW w \in Workers
    PROVE  /\ Cardinality(F) \in Nat /\ Cardinality(G) \in Nat
           /\ w \notin F /\ G = F \cup {w} => Cardinality(G) = Cardinality(F) + 1
           /\ w \in F /\ G = F \ {w} => Cardinality(G) = Cardinality(F) - 1
  <1>1. IsFiniteSet(F) /\ IsFiniteSet(G)
    BY WorkersAssumption, FS_Subset
  <1>2. Cardinality(F) \in Nat /\ Cardinality(G) \in Nat
    BY <1>1, FS_CardinalityType
  <1>3. w \notin F /\ G = F \cup {w} => Cardinality(G) = Cardinality(F) + 1
    BY <1>1, FS_AddElement
  <1>4. w \in F /\ G = F \ {w} => Cardinality(G) = Cardinality(F) - 1
    BY <1>1, FS_RemoveElement
  <1> QED
    BY <1>2, <1>3, <1>4

HoldingStates == {"issue", "inflight", "send"}

(***************************************************************************)
(* How the two counted sets change when a worker moves.                    *)
(***************************************************************************)
LEMMA WorkersCounted ==
    ASSUME LoadTypeOK, NEW w \in Workers, NEW from, NEW to, Goto(w, from, to)
    PROVE  /\ Cardinality(Holding) \in Nat /\ Cardinality(Holding') \in Nat
           /\ (from \in HoldingStates <=> to \in HoldingStates) =>
                  Cardinality(Holding') = Cardinality(Holding)
           /\ from \notin HoldingStates /\ to \in HoldingStates =>
                  Cardinality(Holding') = Cardinality(Holding) + 1
           /\ from \in HoldingStates /\ to \notin HoldingStates =>
                  Cardinality(Holding') = Cardinality(Holding) - 1
           /\ Cardinality(Forwarding) \in Nat /\ Cardinality(Forwarding') \in Nat
           /\ (from = "forward" <=> to = "forward") =>
                  Cardinality(Forwarding') = Cardinality(Forwarding)
           /\ from # "forward" /\ to = "forward" =>
                  Cardinality(Forwarding') = Cardinality(Forwarding) + 1
           /\ from = "forward" /\ to # "forward" =>
                  Cardinality(Forwarding') = Cardinality(Forwarding) - 1
  <1>0. wpc \in [Workers -> WorkerStates]
    BY Zenon DEF LoadTypeOK
  <1>1. /\ wpc[w] = from /\ wpc'[w] = to
        /\ \A v \in Workers : v # w => wpc'[v] = wpc[v]
    BY <1>0 DEF Goto
  <1>2. /\ Holding \in SUBSET Workers /\ Holding' \in SUBSET Workers
        /\ Forwarding \in SUBSET Workers /\ Forwarding' \in SUBSET Workers
    BY DEF Holding, Forwarding
  <1>3. /\ (from \in HoldingStates <=> to \in HoldingStates) => Holding' = Holding
        /\ from \notin HoldingStates /\ to \in HoldingStates =>
               w \notin Holding /\ Holding' = Holding \cup {w}
        /\ from \in HoldingStates /\ to \notin HoldingStates =>
               w \in Holding /\ Holding' = Holding \ {w}
    BY <1>1 DEF Holding, HoldingStates
  <1>4. /\ (from = "forward" <=> to = "forward") => Forwarding' = Forwarding
        /\ from # "forward" /\ to = "forward" =>
               w \notin Forwarding /\ Forwarding' = Forwarding \cup {w}
        /\ from = "forward" /\ to # "forward" =>
               w \in Forwarding /\ Forwarding' = Forwarding \ {w}
    BY <1>1 DEF Forwarding
  <1>5. /\ Cardinality(Holding) \in Nat /\ Cardinality(Holding') \in Nat
        /\ w \notin Holding /\ Holding' = Holding \cup {w} =>
               Cardinality(Holding') = Cardinality(Holding) + 1
        /\ w \in Holding /\ Holding' = Holding \ {w} =>
               Cardinality(Holding') = Cardinality(Holding) - 1
    BY <1>2, CountChanged
  <1>6. /\ Cardinality(Forwarding) \in Nat /\ Cardinality(Forwarding') \in Nat
        /\ w \notin Forwarding /\ Forwarding' = Forwarding \cup {w} =>
               Cardinality(Forwarding') = Cardinality(Forwarding) + 1
        /\ w \in Forwarding /\ Forwarding' = Forwarding \ {w} =>
               Cardinality(Forwarding') = Cardinality(Forwarding) - 1
    BY <1>2, CountChanged
  <1> QED
    BY <1>3, <1>4, <1>5, <1>6

-------------------------------------------------------------------------------
(***************************************************************************)
(* The initial states.                                                     *)
(***************************************************************************)
LEMMA InitInv == Init => LoadInv
  <1> SUFFICES ASSUME Init PROVE LoadInv
    OBVIOUS
  <1>1. ReaderInv
    BY ReaderInitInv DEF Init
  <1>2. LoadTypeOK
    <2>1. /\ opts \in Options /\ resultsClosed \in BOOLEAN /\ callerReads \in BOOLEAN
      BY Zenon DEF Init
    <2> QED
      BY <2>1 DEF Init, LoadTypeOK, MainStates, WorkerStates, NewAccumulator, Outcomes
  <1>3. ControlInv /\ DataInv /\ LossInv /\ LateInv
    BY DEF Init, ReaderInit, ControlInv, NotStarted, Closing, DataInv, LossInv, LateInv
  <1>4. Holding = {} /\ Forwarding = {}
    BY DEF Init, Holding, Forwarding
  <1>5. Cardinality(Holding) = 0 /\ Cardinality(Forwarding) = 0 /\ Len(<<>>) = 0
    BY <1>4, FS_EmptySet, EmptySeq
  <1>6. EntriesAccounted /\ ResultsCopied
    BY <1>5 DEF Init, ReaderInit, EntriesAccounted, ResultsCopied, NewAccumulator
  <1> QED
    BY <1>1, <1>2, <1>3, <1>6 DEF LoadInv

(***************************************************************************)
(* What a step of the reader means to the others: it is neither idle nor   *)
(* done, it does not become idle, and it counts what it adds.              *)
(***************************************************************************)
LEMMA ReaderMoves ==
    ASSUME ReaderInv, ReaderStep
    PROVE  /\ rpc \notin {"idle", "done"} /\ rpc' # "idle"
           /\ \/ entries' = entries /\ nSent' = nSent
              \/ Len(entries') = Len(entries) + 1 /\ nSent' = nSent + 1
  <1>1. SendEntry => Len(entries') = Len(entries) + 1 /\ nSent' = nSent + 1
    BY AppendProperties DEF SendEntry, ReaderInv, StreamTypeOK
  <1>2. SendEntry => rpc \notin {"idle", "done"} /\ rpc' # "idle"
    BY DEF SendEntry
  <1>3. ReaderStep /\ ~SendEntry =>
            /\ rpc \notin {"idle", "done"} /\ rpc' # "idle"
            /\ entries' = entries /\ nSent' = nSent
    BY DEF ReaderStep, CompileFilter, StopPass, ScanFails, BeginPass, DecodeEntry,
       DecodeFails, SendCancelled, EndPass, Rewind, ReturnRead, chanVars
  <1> QED
    BY <1>1, <1>2, <1>3

(***************************************************************************)
(* The reader preserves the invariant.                                     *)
(***************************************************************************)
LEMMA ReaderPreserves == LoadInv /\ Reader => LoadInv'
  <1> SUFFICES ASSUME LoadInv, Reader PROVE LoadInv'
    OBVIOUS
  <1>1. ReaderInv'
    BY StreamPart DEF LoadInv, Next
  <1>2. /\ UNCHANGED ctxVars /\ UNCHANGED loadVars
        /\ rpc \notin {"idle", "done"} /\ rpc' # "idle"
        /\ \/ entries' = entries /\ nSent' = nSent
           \/ Len(entries') = Len(entries) + 1 /\ nSent' = nSent + 1
    BY ReaderMoves DEF Reader, LoadInv
  <1> USE DEF loadVars, mainVars, workerVars, consumerVars, historyVars, ctxVars
  <1>3. LoadTypeOK' /\ LateInv'
    BY <1>2 DEF LoadInv, LoadTypeOK, LateInv
  <1>4. ControlInv' /\ DataInv'
    BY <1>2 DEF LoadInv, ControlInv, NotStarted, Closing, DataInv
  <1>5. LossInv'
    BY <1>2 DEF LoadInv, LossInv, ReaderInv, ClosedInv
  <1>6. Holding' = Holding /\ Forwarding' = Forwarding
    BY <1>2 DEF Holding, Forwarding
  <1>7. EntriesAccounted'
    <2>1. Len(entries) \in Nat /\ Len(entries') \in Nat /\ nSent \in Nat
      BY <1>1, LenProperties DEF LoadInv, ReaderInv, StreamTypeOK
    <2>2. /\ skipped \in Nat /\ dropped \in Nat /\ acc.requests \in Nat
      BY DEF LoadInv, LoadTypeOK
    <2>3. Cardinality(Holding) \in Nat
      BY WorkersAssumption, FS_Subset, FS_CardinalityType DEF Holding
    <2> QED
      BY <1>2, <1>6, <2>1, <2>2, <2>3, SMTT(30) DEF LoadInv, EntriesAccounted
  <1>8. ResultsCopied'
    BY <1>2, <1>6 DEF LoadInv, ResultsCopied
  <1> QED
    BY <1>1, <1>3, <1>4, <1>5, <1>7, <1>8 DEF LoadInv

-------------------------------------------------------------------------------
(***************************************************************************)
(* The arithmetic the counting invariants rest on.                         *)
(***************************************************************************)
LEMMA CountTypes ==
    ASSUME LoadInv
    PROVE  /\ entries \in Seq(Nat \ {0}) /\ Len(entries) \in Nat /\ nSent \in Nat
           /\ skipped \in Nat /\ dropped \in Nat /\ forwarded \in Nat /\ missed \in Nat
           /\ acc.requests \in Nat /\ acc.failures \in Nat
           /\ acc = [requests |-> acc.requests, failures |-> acc.failures]
           /\ Cardinality(Holding) \in Nat /\ Cardinality(Forwarding) \in Nat
  <1>1. entries \in Seq(Nat \ {0}) /\ Len(entries) \in Nat /\ nSent \in Nat
    BY LenProperties DEF LoadInv, ReaderInv, StreamTypeOK
  <1>2. /\ skipped \in Nat /\ dropped \in Nat /\ forwarded \in Nat /\ missed \in Nat
        /\ acc \in [requests : Nat, failures : Nat]
    BY DEF LoadInv, LoadTypeOK
  <1>3. Cardinality(Holding) \in Nat /\ Cardinality(Forwarding) \in Nat
    BY WorkersAssumption, FS_Subset, FS_CardinalityType DEF Holding, Forwarding
  <1> QED
    BY <1>1, <1>2, <1>3

(***************************************************************************)
(* A worker takes an entry: it is counted as skipped, or the worker holds  *)
(* it.                                                                     *)
(***************************************************************************)
LEMMA TakePreserves ==
    ASSUME LoadInv, NEW w \in Workers, TakeEntry(w)
    PROVE  LoadInv'
  <1> USE DEF mainVars, consumerVars, ctxVars, localVars
  <1>1. ReaderInv'
    BY StreamPart DEF LoadInv, Next, WorkerStep
  <1>2. /\ entries # <<>> /\ UNCHANGED <<entriesClosed, localVars, nSent>>
        /\ Len(entries') = Len(entries) - 1
    BY CountTypes, HeadTailProperties DEF TakeEntry, ReceiveEntry
  <1>3. Head(entries) \in Nat
    BY <1>2, CountTypes, HeadTailProperties
  <1>4. PICK to \in {"select", "issue"} : Goto(w, "select", to) /\ (to = "select" <=> skipped' = skipped + 1)
                     /\ (to = "issue" <=> skipped' = skipped)
    BY CountTypes DEF TakeEntry, AfterSkip
  <1>5. LoadTypeOK'
    BY <1>3 DEF TakeEntry, AfterSkip, Goto, LoadInv, LoadTypeOK, WorkerStates
  <1>6. ControlInv' /\ DataInv'
    BY <1>2, <1>4 DEF LoadInv, ControlInv, DataInv, TakeEntry, Goto, NotStarted, Closing, LoadTypeOK
  <1>7. LossInv' /\ LateInv'
    BY <1>2, <1>4 DEF LoadInv, LossInv, LateInv, TakeEntry, Goto, LoadTypeOK
  <1>8. EntriesAccounted'
    <2>1. /\ to = "select" => Cardinality(Holding') = Cardinality(Holding)
          /\ to = "issue"  => Cardinality(Holding') = Cardinality(Holding) + 1
      BY <1>4, WorkersCounted DEF HoldingStates, LoadInv
    <2>2. /\ dropped' = dropped /\ acc' = acc /\ cpc' = cpc /\ nSent' = nSent
          /\ skipped' = (IF to = "select" THEN skipped + 1 ELSE skipped)
      BY <1>2, <1>4 DEF TakeEntry
    <2>3. EntriesAccounted
      BY DEF LoadInv
    <2>4. /\ Len(entries) \in Nat /\ skipped \in Nat /\ dropped \in Nat
          /\ acc.requests \in Nat /\ Cardinality(Holding) \in Nat
      BY CountTypes
    <2>5. Len(entries') = Len(entries) - 1 /\ to \in {"select", "issue"}
      BY <1>2, <1>4
    <2> QED
      BY <2>1, <2>2, <2>3, <2>4, <2>5 DEF EntriesAccounted
  <1>9. ResultsCopied'
    BY <1>4, CountTypes, WorkersCounted DEF LoadInv, ResultsCopied, TakeEntry
  <1> QED
    BY <1>1, <1>5, <1>6, <1>7, <1>8, <1>9 DEF LoadInv

(***************************************************************************)
(* A worker leaves because the channel is closed or the context done.      *)
(***************************************************************************)
LEMMA LeavePreserves ==
    ASSUME LoadInv, NEW w \in Workers, SeeClosed(w) \/ SeeDone(w)
    PROVE  LoadInv'
  <1> USE DEF mainVars, consumerVars, historyVars, streamVars, ctxVars, readerVars, chanVars,
          localVars
  <1>1. ReaderInv'
    BY StreamPart DEF LoadInv, Next, WorkerStep
  <1>2. /\ Goto(w, "select", "exited")
        /\ UNCHANGED <<streamVars, mainVars, held, outcome, resultsClosed, consumerVars,
                       callerReads, historyVars>>
        /\ ctxDone \/ (entries = <<>> /\ entriesClosed)
    BY DEF SeeClosed, SeeDone
  <1>3. LoadTypeOK'
    BY <1>2 DEF Goto, LoadInv, LoadTypeOK, WorkerStates
  <1>4. ControlInv' /\ DataInv'
    BY <1>2 DEF LoadInv, ControlInv, DataInv, Goto, NotStarted, Closing, LoadTypeOK
  <1>5. LossInv' /\ LateInv'
    BY <1>2 DEF LoadInv, LossInv, LateInv, Goto, LoadTypeOK
  <1>6. /\ Cardinality(Holding') = Cardinality(Holding)
        /\ Cardinality(Forwarding') = Cardinality(Forwarding)
    BY <1>2, WorkersCounted DEF HoldingStates, LoadInv
  <1>7. EntriesAccounted' /\ ResultsCopied'
    BY <1>2, <1>6 DEF LoadInv, EntriesAccounted, ResultsCopied
  <1> QED
    BY <1>1, <1>3, <1>4, <1>5, <1>7 DEF LoadInv

(***************************************************************************)
(* A request is issued, is answered or fails.                              *)
(***************************************************************************)
LEMMA RequestFailsPreserves ==
    ASSUME LoadInv, NEW w \in Workers, NEW from \in {"issue", "inflight"},
           from = "issue" => ctxDone, RequestFails(w, from), ReaderInv'
    PROVE  LoadInv'
  <1> USE DEF mainVars, consumerVars, streamVars, ctxVars, readerVars, chanVars, localVars
  <1>1. PICK to \in {"send", "exited"} :
            /\ Goto(w, from, to)
            /\ to = "exited" => /\ ctxDone /\ dropped' = dropped + 1 /\ outcome' = outcome
                                /\ held' = [held EXCEPT ![w] = 0]
            /\ to = "send"   => /\ ~ctxDone /\ dropped' = dropped /\ held' = held
                                /\ outcome' = [outcome EXCEPT ![w] = "failed"]
    BY DEF RequestFails, RunEnded, Exit
  <1>2. UNCHANGED <<streamVars, mainVars, resultsClosed, consumerVars, callerReads,
                    skipped, forwarded, missed, late>>
    BY DEF RequestFails
  <1>3. LoadTypeOK'
    BY <1>1, <1>2 DEF Goto, LoadInv, LoadTypeOK, WorkerStates, Outcomes
  <1>4. ControlInv'
    BY <1>1, <1>2 DEF LoadInv, ControlInv, Goto, NotStarted, Closing, LoadTypeOK
  <1>5. DataInv' /\ LossInv' /\ LateInv'
    BY <1>1, <1>2 DEF LoadInv, DataInv, LossInv, LateInv, Goto, LoadTypeOK
  <1>6. /\ to = "send"   => Cardinality(Holding') = Cardinality(Holding)
        /\ to = "exited" => Cardinality(Holding') = Cardinality(Holding) - 1
        /\ Cardinality(Forwarding') = Cardinality(Forwarding)
    BY <1>1, WorkersCounted DEF HoldingStates, LoadInv
  <1>7. EntriesAccounted'
    <2>1. EntriesAccounted
      BY DEF LoadInv
    <2>2. /\ Len(entries) \in Nat /\ skipped \in Nat /\ dropped \in Nat
          /\ acc.requests \in Nat /\ Cardinality(Holding) \in Nat
      BY CountTypes
    <2>3. dropped' = (IF to = "exited" THEN dropped + 1 ELSE dropped)
      BY <1>1
    <2> QED
      BY <1>2, <1>6, <2>1, <2>2, <2>3 DEF EntriesAccounted
  <1>8. ResultsCopied'
    BY <1>2, <1>6 DEF LoadInv, ResultsCopied
  <1> QED
    BY <1>3, <1>4, <1>5, <1>7, <1>8 DEF LoadInv

LEMMA RequestPreserves ==
    ASSUME LoadInv, NEW w \in Workers, Issue(w) \/ RequestEnds(w)
    PROVE  LoadInv'
  <1>1. ReaderInv'
    BY StreamPart DEF LoadInv, Next, WorkerStep
  <1>2. CASE ctxDone /\ RequestFails(w, "issue")
    BY <1>1, <1>2, RequestFailsPreserves
  <1>3. CASE RequestFails(w, "inflight")
    BY <1>1, <1>3, RequestFailsPreserves
  <1>4. ASSUME NEW from \in {"issue", "inflight"}, NEW to \in {"inflight", "send"},
               Goto(w, from, to),
               to = "inflight" => ~ctxDone /\ outcome' = outcome,
               to = "send" => /\ from = "inflight"
                              /\ \E o \in {"ok", "cut"} : outcome' = [outcome EXCEPT ![w] = o],
               UNCHANGED <<streamVars, mainVars, held, resultsClosed, consumerVars,
                           callerReads, historyVars>>
        PROVE  LoadInv'
    <2> USE DEF mainVars, consumerVars, streamVars, ctxVars, readerVars, chanVars, localVars,
                historyVars
    <2>3. LoadTypeOK'
      BY <1>4 DEF Goto, LoadInv, LoadTypeOK, WorkerStates, Outcomes
    <2>4. ControlInv'
      BY <1>4 DEF LoadInv, ControlInv, Goto, NotStarted, Closing, LoadTypeOK
    <2>5. DataInv' /\ LossInv'
      BY <1>4 DEF LoadInv, DataInv, LossInv, Goto, LoadTypeOK
    <2>6. LateInv'
      BY <1>4 DEF LoadInv, LateInv, Goto, LoadTypeOK
    <2>7. /\ Cardinality(Holding') = Cardinality(Holding)
          /\ Cardinality(Forwarding') = Cardinality(Forwarding)
      BY <1>4, WorkersCounted DEF HoldingStates, LoadInv
    <2>8. EntriesAccounted' /\ ResultsCopied'
      BY <1>4, <2>7 DEF LoadInv, EntriesAccounted, ResultsCopied
    <2> QED
      BY <1>1, <2>3, <2>4, <2>5, <2>6, <2>8 DEF LoadInv
  <1>5. CASE ~ctxDone /\ Issue(w)
    BY <1>4, <1>5 DEF Issue, workerVars
  <1>6. CASE Respond(w)
    BY <1>4, <1>6 DEF Respond
  <1> QED
    BY <1>2, <1>3, <1>5, <1>6 DEF Issue, RequestEnds, Fail

(***************************************************************************)
(* A result reaches the consumer: it leaves the worker's hands for the     *)
(* consumer's.                                                             *)
(***************************************************************************)
LEMMA DeliverPreserves ==
    ASSUME LoadInv, NEW w \in Workers, Deliver(w)
    PROVE  LoadInv'
  <1> USE DEF mainVars, streamVars, ctxVars, readerVars, chanVars, localVars
  <1>1. ReaderInv'
    BY StreamPart DEF LoadInv, Next, WorkerStep
  <1>2. PICK to \in {"forward", "select"} :
            /\ Goto(w, "send", to)
            /\ opts.results <=> to = "forward"
    BY DEF Deliver, AfterDeliver
  <1>3. /\ cpc = "recv" /\ cpc' = "add" /\ inHand' = outcome[w]
        /\ held' = [held EXCEPT ![w] = 0]
        /\ outcome' = [outcome EXCEPT ![w] = "none"]
        /\ late' = [late EXCEPT ![w] = @ + (IF ctxDone THEN 1 ELSE 0)]
        /\ UNCHANGED <<streamVars, mainVars, resultsClosed, acc, callerReads,
                       skipped, dropped, forwarded, missed>>
    BY DEF Deliver
  <1>4. LoadTypeOK'
    BY <1>2, <1>3 DEF Goto, LoadInv, LoadTypeOK, WorkerStates, Outcomes
  <1>5. ControlInv'
    BY <1>2, <1>3 DEF LoadInv, ControlInv, Goto, NotStarted, Closing, LoadTypeOK
  <1>6. DataInv'
    BY <1>2, <1>3 DEF LoadInv, DataInv, Goto, LoadTypeOK
  <1>7. LossInv'
    BY <1>2, <1>3 DEF LoadInv, LossInv, Goto, LoadTypeOK
  <1>8. LateInv'
    BY <1>2, <1>3 DEF LoadInv, LateInv, Goto, LoadTypeOK
  <1>9. /\ Cardinality(Holding') = Cardinality(Holding) - 1
        /\ to = "forward" => Cardinality(Forwarding') = Cardinality(Forwarding) + 1
    BY <1>2, WorkersCounted DEF HoldingStates, LoadInv
  <1>10. /\ Len(entries) \in Nat /\ skipped \in Nat /\ dropped \in Nat
         /\ acc.requests \in Nat /\ forwarded \in Nat /\ missed \in Nat
         /\ Cardinality(Holding) \in Nat /\ Cardinality(Forwarding) \in Nat
    BY CountTypes
  <1>11. EntriesAccounted /\ ResultsCopied
    BY DEF LoadInv
  <1>12. EntriesAccounted'
    BY <1>3, <1>9, <1>10, <1>11 DEF EntriesAccounted
  <1>13. ResultsCopied'
    BY <1>2, <1>3, <1>9, <1>10, <1>11 DEF ResultsCopied
  <1> QED
    BY <1>1, <1>4, <1>5, <1>6, <1>7, <1>8, <1>12, <1>13 DEF LoadInv

(***************************************************************************)
(* The other ways a worker leaves its sends.                               *)
(***************************************************************************)
LEMMA SendPreserves ==
    ASSUME LoadInv, NEW w \in Workers,
           DeliverCancelled(w) \/ Forward(w) \/ ForwardCancelled(w)
    PROVE  LoadInv'
  <1> USE DEF mainVars, consumerVars, streamVars, ctxVars, readerVars, chanVars, localVars
  <1>1. ReaderInv'
    BY StreamPart DEF LoadInv, Next, WorkerStep
  <1>2. PICK from \in {"send", "forward"}, to \in {"select", "exited"} :
            /\ Goto(w, from, to)
            /\ to = "exited" => ctxDone
            /\ to = "select" => from = "forward"
            /\ dropped' = (IF from = "send" THEN dropped + 1 ELSE dropped)
            /\ forwarded' = (IF to = "select" THEN forwarded + 1 ELSE forwarded)
            /\ missed' = (IF from = "forward" /\ to = "exited" THEN missed + 1 ELSE missed)
    BY DEF DeliverCancelled, Forward, ForwardCancelled, Exit
  <1>3. /\ held' \in [Workers -> Nat]
        /\ \/ outcome' = outcome
           \/ outcome' = [outcome EXCEPT ![w] = "none"]
        /\ UNCHANGED <<streamVars, mainVars, resultsClosed, consumerVars, callerReads,
                       skipped, late>>
    BY DEF DeliverCancelled, Forward, ForwardCancelled, Exit, LoadInv, LoadTypeOK
  <1>4. LoadTypeOK'
    <2>1. LoadTypeOK
      BY DEF LoadInv
    <2>2. dropped' \in Nat /\ forwarded' \in Nat /\ missed' \in Nat
      BY <1>2, <2>1 DEF LoadTypeOK
    <2>3. wpc' \in [Workers -> WorkerStates]
      BY <1>2, <2>1 DEF LoadTypeOK, Goto, WorkerStates
    <2>4. outcome' \in [Workers -> Outcomes \cup {"none"}]
      BY <1>3, <2>1 DEF LoadTypeOK
    <2> QED
      BY <1>3, <2>1, <2>2, <2>3, <2>4 DEF LoadTypeOK
  <1>5. ControlInv'
    BY <1>2, <1>3 DEF LoadInv, ControlInv, Goto, NotStarted, Closing, LoadTypeOK
  <1>6. DataInv'
    BY <1>2, <1>3 DEF LoadInv, DataInv, Goto, LoadTypeOK
  <1>7. LossInv' /\ LateInv'
    BY <1>2, <1>3 DEF LoadInv, LossInv, LateInv, Goto, LoadTypeOK
  <1>8. /\ from = "send" => /\ Cardinality(Holding') = Cardinality(Holding) - 1
                            /\ Cardinality(Forwarding') = Cardinality(Forwarding)
        /\ from = "forward" => /\ Cardinality(Holding') = Cardinality(Holding)
                               /\ Cardinality(Forwarding') = Cardinality(Forwarding) - 1
    BY <1>2, WorkersCounted DEF HoldingStates, LoadInv
  <1>9. /\ Len(entries) \in Nat /\ skipped \in Nat /\ dropped \in Nat
        /\ acc.requests \in Nat /\ forwarded \in Nat /\ missed \in Nat
        /\ Cardinality(Holding) \in Nat /\ Cardinality(Forwarding) \in Nat
    BY CountTypes
  <1>10. EntriesAccounted /\ ResultsCopied
    BY DEF LoadInv
  <1>11. EntriesAccounted'
    BY <1>2, <1>3, <1>8, <1>9, <1>10, SMTT(30) DEF EntriesAccounted
  <1>12. ResultsCopied'
    BY <1>2, <1>3, <1>8, <1>9, <1>10 DEF ResultsCopied
  <1> QED
    BY <1>1, <1>4, <1>5, <1>6, <1>7, <1>11, <1>12 DEF LoadInv

-------------------------------------------------------------------------------
(***************************************************************************)
(* The consumer.                                                           *)
(***************************************************************************)
LEMMA ConsumerPreserves ==
    ASSUME LoadInv, Consumer
    PROVE  LoadInv'
  <1> USE DEF mainVars, workerVars, historyVars, streamVars, ctxVars, readerVars, chanVars,
              localVars
  <1>1. ReaderInv'
    BY StreamPart DEF LoadInv, Next
  <1>2. UNCHANGED <<streamVars, mainVars, workerVars, resultsClosed, callerReads, historyVars>>
    BY DEF Consumer, AddResult, WriteOne, ConsumerEnds
  <1>3. \/ /\ cpc = "add" /\ cpc' \in {"write", "recv"} /\ inHand' = "none"
           /\ acc' \in [requests : Nat, failures : Nat]
           /\ acc'.requests = acc.requests + 1
        \/ /\ cpc \in {"write", "recv"} /\ cpc' \in {"recv", "done"}
           /\ cpc' = "done" => resultsClosed
           /\ inHand' = inHand /\ acc' = acc
    BY CountTypes DEF Consumer, AddResult, Add, WriteOne, ConsumerEnds
  <1>4. LoadTypeOK'
    BY <1>2, <1>3 DEF LoadInv, LoadTypeOK, Outcomes
  <1>5. ControlInv'
    BY <1>2, <1>3 DEF LoadInv, ControlInv, NotStarted, Closing
  <1>6. mpc # "returned"
    BY <1>3 DEF LoadInv, ControlInv
  <1>7. DataInv' /\ LossInv' /\ LateInv'
    BY <1>2, <1>3, <1>6 DEF LoadInv, DataInv, LossInv, LateInv
  <1>8. Holding' = Holding /\ Forwarding' = Forwarding
    BY <1>2 DEF Holding, Forwarding
  <1>9. /\ Len(entries) \in Nat /\ skipped \in Nat /\ dropped \in Nat
        /\ acc.requests \in Nat /\ forwarded \in Nat /\ missed \in Nat
        /\ Cardinality(Holding) \in Nat /\ Cardinality(Forwarding) \in Nat
    BY CountTypes
  <1>10. EntriesAccounted /\ ResultsCopied
    BY DEF LoadInv
  <1>11. EntriesAccounted'
    BY <1>2, <1>3, <1>8, <1>9, <1>10, SMTT(30) DEF EntriesAccounted
  <1>12. ResultsCopied'
    BY <1>2, <1>3, <1>8, <1>9, <1>10 DEF ResultsCopied
  <1> QED
    BY <1>1, <1>4, <1>5, <1>7, <1>11, <1>12 DEF LoadInv

(***************************************************************************)
(* The main goroutine starts the others.                                   *)
(***************************************************************************)
LEMMA LaunchPreserves ==
    ASSUME LoadInv, Launch
    PROVE  LoadInv'
  <1> USE DEF historyVars, ctxVars, chanVars
  <1>1. ReaderInv'
    BY StreamPart DEF LoadInv, Next, Main
  <1>2. /\ mpc = "launch" /\ mpc' = "wait" /\ cpc' = "recv" /\ rpc' = "compile"
        /\ wpc' = [w \in Workers |-> "select"]
        /\ UNCHANGED <<opts, verdict, summary, held, outcome, resultsClosed, inHand, acc,
                       callerReads, historyVars, ctxVars, chanVars, readErr, nSent>>
    BY DEF Launch, StartReader
  <1>3. LoadTypeOK'
    BY <1>2 DEF LoadInv, LoadTypeOK, MainStates, WorkerStates
  <1>4. ControlInv'
    BY <1>2 DEF LoadInv, ControlInv, NotStarted, Closing
  <1>5. cpc = "idle" /\ \A w \in Workers : wpc[w] = "idle"
    BY <1>2 DEF LoadInv, ControlInv, NotStarted
  <1>6. DataInv' /\ LossInv' /\ LateInv'
    BY <1>2, <1>5 DEF LoadInv, DataInv, LossInv, LateInv
  <1>7. Holding = {} /\ Holding' = {} /\ Forwarding = {} /\ Forwarding' = {}
    BY <1>2, <1>5 DEF Holding, Forwarding
  <1>8. EntriesAccounted' /\ ResultsCopied'
    BY <1>2, <1>5, <1>7 DEF LoadInv, EntriesAccounted, ResultsCopied
  <1> QED
    BY <1>1, <1>3, <1>4, <1>6, <1>8 DEF LoadInv

(***************************************************************************)
(* The other steps of the main goroutine.                                  *)
(***************************************************************************)
LEMMA MainPreserves ==
    ASSUME LoadInv, Main
    PROVE  LoadInv'
  <1> USE DEF mainVars, workerVars, consumerVars, historyVars, streamVars, ctxVars, readerVars,
              chanVars, localVars
  <1>1. ReaderInv'
    BY StreamPart DEF LoadInv, Next
  <1>2. ~Launch => UNCHANGED <<streamVars, opts, workerVars, consumerVars, callerReads,
                               historyVars>>
    BY DEF Main, ValidateOptions, ConnectInflux, WaitWorkers, CloseResults, JoinConsumer,
       JoinReader, Report, MainStep
  <1>3. ASSUME ~Launch PROVE LoadTypeOK'
    <2>1. /\ LoadTypeOK /\ readErr \in ReadErrors
      BY DEF LoadInv, ReaderInv, StreamTypeOK
    <2>2. /\ mpc' \in MainStates
          /\ verdict' \in {verdict, readErr, "nil", "options", "influx"}
      BY <1>3 DEF Main, ValidateOptions, ConnectInflux, Refuse, WaitWorkers, CloseResults,
         JoinConsumer, JoinReader, Report, MainStep, MainStates
    <2>3. /\ summary' \in {summary, acc}
          /\ resultsClosed' = resultsClosed \/ resultsClosed' = TRUE
      BY <1>3 DEF Main, ValidateOptions, ConnectInflux, WaitWorkers, CloseResults,
         JoinConsumer, JoinReader, Report, MainStep
    <2>4. /\ verdict' \in ReadErrors \cup {"none", "options", "influx"}
          /\ summary' \in [requests : Nat, failures : Nat]
      BY <2>1, <2>2, <2>3 DEF LoadTypeOK, ReadErrors
    <2>5. resultsClosed' \in BOOLEAN
      BY Zenon, <2>1, <2>3 DEF LoadTypeOK
    <2> QED
      BY <1>2, <1>3, <2>1, <2>2, <2>4, <2>5 DEF LoadTypeOK
  <1>4. ASSUME ~Launch PROVE ControlInv'
    BY <1>2, <1>4 DEF Main, ValidateOptions, ConnectInflux, Refuse, WaitWorkers, CloseResults,
       WorkersExited, ConsumerJoined, ReaderJoined, JoinConsumer, JoinReader, Report, MainStep,
       LoadInv, ControlInv, NotStarted, Closing
  <1>5. ASSUME ~Launch PROVE DataInv' /\ LossInv' /\ LateInv'
    BY <1>2, <1>5 DEF Main, ValidateOptions, ConnectInflux, Refuse, WaitWorkers, CloseResults,
       JoinConsumer, JoinReader, Report, MainStep, LoadInv, DataInv, LossInv, LateInv
  <1>6. ~Launch => Holding' = Holding /\ Forwarding' = Forwarding
    BY <1>2 DEF Holding, Forwarding
  <1>7. ~Launch => EntriesAccounted' /\ ResultsCopied'
    BY <1>2, <1>6 DEF LoadInv, EntriesAccounted, ResultsCopied
  <1> QED
    BY <1>1, <1>3, <1>4, <1>5, <1>7, LaunchPreserves DEF LoadInv

(***************************************************************************)
(* The end of the context, and a caller that stops receiving.              *)
(***************************************************************************)
LEMMA EnvironmentPreserves ==
    ASSUME LoadInv, ContextEnds \/ CallerStops \/ UNCHANGED vars
    PROVE  LoadInv'
  <1> USE DEF loadVars, mainVars, workerVars, consumerVars, historyVars, streamVars,
              ctxVars, readerVars, chanVars, localVars
  <1>1. ReaderInv'
    BY StreamPart DEF LoadInv, Next
  <1>0. LoadTypeOK
    BY DEF LoadInv
  <1>2. /\ UNCHANGED <<readerVars, mainVars, workerVars, resultsClosed, consumerVars,
                       historyVars, input>>
        /\ callerReads' = callerReads \/ callerReads' = FALSE
        /\ ctxDone' = ctxDone \/ ctxDone' = TRUE
    BY DEF ContextEnds, Cancel, CallerStops, vars
  <1>7. callerReads' \in BOOLEAN
    <2>1. callerReads \in BOOLEAN
      BY <1>0 DEF LoadTypeOK
    <2> QED
      BY <1>2, <2>1
  <1>8. ctxDone => ctxDone'
    BY <1>2
  <1>3. LoadTypeOK'
    BY <1>0, <1>2, <1>7 DEF LoadTypeOK
  <1>4. ControlInv' /\ DataInv' /\ LossInv' /\ LateInv'
    BY <1>2, <1>8 DEF LoadInv, ControlInv, NotStarted, Closing, DataInv, LossInv, LateInv
  <1>5. Holding' = Holding /\ Forwarding' = Forwarding
    BY <1>2 DEF Holding, Forwarding
  <1>6. EntriesAccounted' /\ ResultsCopied'
    BY <1>2, <1>5 DEF LoadInv, EntriesAccounted, ResultsCopied
  <1> QED
    BY <1>1, <1>3, <1>4, <1>6 DEF LoadInv

-------------------------------------------------------------------------------
(***************************************************************************)
(* Every step preserves the invariant.                                     *)
(***************************************************************************)
LEMMA NextPreserves == LoadInv /\ [Next]_vars => LoadInv'
  <1>1. ASSUME LoadInv, NEW w \in Workers, WorkerStep(w) \/ RequestEnds(w) \/ Forward(w)
        PROVE  LoadInv'
    BY <1>1, TakePreserves, LeavePreserves, RequestPreserves, DeliverPreserves, SendPreserves
    DEF WorkerStep
  <1> QED
    BY <1>1, ReaderPreserves, ConsumerPreserves, MainPreserves, EnvironmentPreserves
    DEF Next, Terminated

LEMMA LoadInvariant == Spec => []LoadInv
  BY InitInv, NextPreserves, PTL DEF Spec

(***************************************************************************)
(* Every variable of the load test keeps its type; in particular the       *)
(* entries channel never exceeds the number of workers (load.go 141).      *)
(***************************************************************************)
THEOREM TypeCorrect == Spec => []TypeOK
  <1>1. LoadInv => TypeOK
    BY DEF LoadInv, TypeOK, ReaderInv
  <1> QED
    BY <1>1, LoadInvariant, PTL

(***************************************************************************)
(* Nothing is ever sent on a closed channel and none is closed twice: the  *)
(* main goroutine closes results only once every worker has exited, and    *)
(* the reader closes entries only as it ends (load.go 181-184).            *)
(***************************************************************************)
THEOREM SendsAreSafe == Spec => []NoSendOnClosed
  <1>1. LoadInv => NoSendOnClosed
    BY DEF LoadInv, ControlInv, Closing, ReaderInv, ClosedInv, NoSendOnClosed
  <1> QED
    BY <1>1, LoadInvariant, PTL

(***************************************************************************)
(* When LoadTest returns, every goroutine it started has ended (load.go    *)
(* 183-186).                                                               *)
(***************************************************************************)
THEOREM NothingOutlivesCall == Spec => []NoGoroutineOutlivesCall
  <1>1. LoadInv => NoGoroutineOutlivesCall
    BY DEF LoadInv, ControlInv, Closing, NoGoroutineOutlivesCall
  <1> QED
    BY <1>1, LoadInvariant, PTL

(***************************************************************************)
(* Every entry the reader sent is in exactly one place: the channel, a     *)
(* worker, the consumer, the summary, or one of the two ways of giving up  *)
(* (load.go 242-309).                                                      *)
(***************************************************************************)
THEOREM EntriesAreAccounted == Spec => []EntriesAccounted
  <1>1. LoadInv => EntriesAccounted
    BY DEF LoadInv
  <1> QED
    BY <1>1, LoadInvariant, PTL

(***************************************************************************)
(* A test whose context never ended has replayed and recorded every entry  *)
(* it read, except those no request could be made of (load.go 94-95).      *)
(***************************************************************************)
THEOREM NothingIsLost == Spec => []NothingLostUnlessEnded
  <1>1. ASSUME LoadInv PROVE NothingLostUnlessEnded
    <2>1. SUFFICES ASSUME ~ctxDone, mpc = "returned"
                   PROVE  entries = <<>> /\ summary.requests = nSent - skipped
      BY <1>1 DEF NothingLostUnlessEnded, LoadInv, LossInv
    <2>2. (\A w \in Workers : wpc[w] = "exited") /\ cpc = "done"
      BY <1>1, <2>1 DEF LoadInv, ControlInv, Closing
    <2>3. entries = <<>> /\ dropped = 0
      BY <1>1, <2>1, <2>2, WorkersAssumption DEF LoadInv, LossInv
    <2>4. Holding = {}
      BY <2>2 DEF Holding
    <2>5. Cardinality(Holding) = 0 /\ Len(entries) = 0
      BY <2>3, <2>4, FS_EmptySet, EmptySeq
    <2>6. summary = acc /\ EntriesAccounted
      BY <1>1, <2>1 DEF LoadInv, DataInv
    <2>7. skipped \in Nat /\ acc.requests \in Nat /\ nSent \in Nat
      BY <1>1, CountTypes
    <2> QED
      BY <2>2, <2>3, <2>5, <2>6, <2>7 DEF EntriesAccounted
  <1> QED
    BY <1>1, LoadInvariant, PTL

(***************************************************************************)
(* The caller's Results channel and the summary differ only by what is in  *)
(* flight and by what the end of the context cut off (load.go 303-308).    *)
(***************************************************************************)
THEOREM ResultsAreCopied == Spec => []ResultsCopied
  <1>1. LoadInv => ResultsCopied
    BY DEF LoadInv
  <1> QED
    BY <1>1, LoadInvariant, PTL

(***************************************************************************)
(* A worker delivers at most one result after the context has ended        *)
(* (load.go 289-294).                                                      *)
(***************************************************************************)
THEOREM LateResultsBounded == Spec => []AtMostOneLateResult
  <1>1. LoadInv => AtMostOneLateResult
    BY DEF LoadInv, LateInv, AtMostOneLateResult
  <1> QED
    BY <1>1, LoadInvariant, PTL

(***************************************************************************)
(* The summary handed to the caller holds all that was accumulated         *)
(* (load.go 183-191).                                                      *)
(***************************************************************************)
THEOREM SummaryComplete == Spec => []SummaryIsComplete
  <1>1. LoadInv => SummaryIsComplete
    BY DEF LoadInv, DataInv, ControlInv, Closing, SummaryIsComplete
  <1> QED
    BY <1>1, LoadInvariant, PTL

(***************************************************************************)
(* A nil error means that the context ended or that there was nothing to   *)
(* replay (load.go 193-202).                                               *)
(***************************************************************************)
LEMMA VerdictFacts ==
    ASSUME LoadInv, rpc = "done", readErr \in {"nil", "ctx"}
    PROVE  ctxDone \/ (IsEmpty(input.items) /\ nSent = 0)
  <1>1. VerdictSound
    BY DEF LoadInv, ReaderInv
  <1>2. CASE readErr = "nil"
    <2>1. IsEmpty(input.items) /\ nSent = 0
      BY <1>1, <1>2 DEF VerdictSound
    <2> QED
      BY Zenon, <2>1
  <1>3. CASE readErr = "ctx"
    BY Zenon, <1>1, <1>3 DEF VerdictSound
  <1> QED
    BY Zenon, <1>2, <1>3

LEMMA NilFromInv == ASSUME LoadInv PROVE NilMeansEndedOrEmpty
  <1>1. ASSUME mpc = "returned", verdict = "nil"
        PROVE  rpc = "done" /\ readErr \in {"nil", "ctx"}
    BY <1>1 DEF LoadInv, ControlInv, DataInv, IsDone
  <1> QED
    BY Zenon, <1>1, VerdictFacts DEF NilMeansEndedOrEmpty

THEOREM NilIsHonest == Spec => []NilMeansEndedOrEmpty
  BY NilFromInv, LoadInvariant, PTL

-------------------------------------------------------------------------------
(***************************************************************************)
(* After LoadTest has returned, no step changes anything the call owned.   *)
(***************************************************************************)
THEOREM QuietOnceReturned == Spec => QuietAfterReturn
  <1> DEFINE Quiet == mpc = "returned" =>
                 UNCHANGED <<readerVars, mainVars, workerVars, consumerVars, historyVars>>
  <1>1. ASSUME LoadInv, [Next]_vars PROVE Quiet
    <2>1. SUFFICES ASSUME mpc = "returned"
                   PROVE  UNCHANGED <<readerVars, mainVars, workerVars, consumerVars,
                                      historyVars>>
      OBVIOUS
    <2>2. /\ \A w \in Workers : wpc[w] = "exited"
          /\ cpc = "done" /\ rpc = "done"
      BY <1>1, <2>1 DEF LoadInv, ControlInv, Closing
    <2>3. ~Reader
      BY <1>1, <2>2, ReaderMoves DEF Reader, LoadInv
    <2>4. ASSUME NEW w \in Workers PROVE ~(WorkerStep(w) \/ RequestEnds(w) \/ Forward(w))
      BY <2>2 DEF WorkerStep, RequestEnds, TakeEntry, SeeClosed, SeeDone, Issue, Deliver,
         DeliverCancelled, ForwardCancelled, Respond, Fail, RequestFails, Exit, Forward, Goto,
         AfterSkip
    <2>5. ~Consumer /\ ~Main
      BY <2>1, <2>2 DEF Consumer, AddResult, WriteOne, ConsumerEnds, Main, ValidateOptions,
         ConnectInflux, Launch, WaitWorkers, CloseResults, JoinConsumer, JoinReader, Report,
         MainStep
    <2>6. ContextEnds \/ CallerStops \/ UNCHANGED vars
      BY <1>1, <2>3, <2>4, <2>5 DEF Next, Terminated
    <2> QED
      BY <2>6 DEF ContextEnds, Cancel, CallerStops, vars, streamVars, loadVars
  <1>2. LoadInv /\ [Next]_vars => [Quiet]_vars
    BY <1>1
  <1> QED
    BY <1>2, LoadInvariant, PTL DEF Spec, QuietAfterReturn

-------------------------------------------------------------------------------
(***************************************************************************)
(* LoadTest implements its contract: the state of the contract is a        *)
(* function of the state of the load test, and each step of the load test  *)
(* is a step of the contract or leaves the contract's state alone.         *)
(***************************************************************************)
recordedBar == acc.requests + (IF cpc = "add" THEN 1 ELSE 0)
spentBar    == {w \in Workers : late[w] > 0}

LEMMA ContractInit == Init => Contract!Init
  <1> SUFFICES ASSUME Init PROVE Contract!Init
    OBVIOUS
  <1>1. ~Returned /\ ctxDone = FALSE /\ verdict = "none"
    BY DEF Init, ReaderInit, Returned
  <1>2. recordedBar = 0 /\ spentBar = {}
    BY DEF Init, NewAccumulator, recordedBar, spentBar
  <1> QED
    BY <1>1, <1>2 DEF Contract!Init, recordedBar, spentBar

\* The steps in which the contract's state changes, and how.
LEMMA ContractStep ==
    ASSUME LoadInv, [Next]_vars
    PROVE  [Contract!Next]_Contract!contractVars
  <1> USE DEF mainVars, workerVars, consumerVars, historyVars
  <1>1. LoadTypeOK /\ acc.requests \in Nat
    BY CountTypes DEF LoadInv
  <1>2. CASE Reader
    BY <1>2 DEF Reader, loadVars, ctxVars, Contract!contractVars, Returned
  <1>3. ASSUME NEW w \in Workers, Deliver(w)
        PROVE  Contract!Next
    <2>1. /\ mpc' = mpc /\ ctxDone' = ctxDone /\ verdict' = verdict
          /\ acc' = acc /\ cpc = "recv" /\ cpc' = "add"
          /\ late' = [late EXCEPT ![w] = @ + (IF ctxDone THEN 1 ELSE 0)]
          /\ wpc[w] = "send"
      BY <1>3 DEF Deliver, Goto, streamVars, ctxVars
    <2>2. ~Returned
      BY <2>1 DEF LoadInv, ControlInv, NotStarted, Closing, Returned
    <2>3. recordedBar' = recordedBar + 1
      BY <1>1, <2>1 DEF recordedBar
    <2>4. late \in [Workers -> Nat] /\ late[w] = 0
      BY <1>1, <2>1 DEF LoadInv, LateInv, LoadTypeOK
    <2>5. CASE ctxDone = FALSE
      <3>1. late' = late
        BY <2>1, <2>4, <2>5
      <3> QED
        BY <2>1, <2>2, <2>3, <2>5, <3>1 DEF Contract!Next, Contract!Record, recordedBar,
           Returned
    <2>6. CASE ctxDone = TRUE
      <3>1. spentBar' = spentBar \cup {w} /\ w \notin spentBar
        BY <2>1, <2>4, <2>6 DEF spentBar
      <3>2. Contract!RecordLate(w)
        BY <2>1, <2>2, <2>3, <2>6, <3>1 DEF Contract!RecordLate, recordedBar, spentBar,
           Returned
      <3> QED
        BY <3>2 DEF Contract!Next
    <2>7. ctxDone \in BOOLEAN
      BY DEF LoadInv, ReaderInv, StreamTypeOK
    <2> QED
      BY <2>5, <2>6, <2>7
  <1>4. ASSUME NEW w \in Workers, ~Deliver(w), WorkerStep(w) \/ RequestEnds(w) \/ Forward(w)
        PROVE  UNCHANGED Contract!contractVars
    <2>1. UNCHANGED <<ctxDone, mpc, verdict, acc, cpc, late>>
      BY <1>4 DEF WorkerStep, RequestEnds, TakeEntry, SeeClosed, SeeDone, Issue, RequestFails,
         Respond, Fail, DeliverCancelled, Forward, ForwardCancelled, streamVars, ctxVars
    <2> QED
      BY <2>1 DEF Contract!contractVars, Returned
  <1>5. CASE Consumer
    <2>1. UNCHANGED <<ctxDone, mpc, verdict, late>> /\ recordedBar' = recordedBar
      BY <1>1, <1>5 DEF Consumer, AddResult, Add, WriteOne, ConsumerEnds, streamVars, ctxVars,
         recordedBar
    <2> QED
      BY <2>1 DEF Contract!contractVars, Returned, recordedBar
  <1>6. CASE Main
    <2>1. UNCHANGED <<ctxDone, acc, late>>
      BY <1>6 DEF Main, ValidateOptions, ConnectInflux, Launch, WaitWorkers, CloseResults,
         JoinConsumer, JoinReader, Report, MainStep, streamVars, ctxVars
    <2>2. recordedBar' = recordedBar /\ spentBar' = spentBar
      <3>1. CASE Launch
        BY <2>1, <3>1 DEF Launch, LoadInv, ControlInv, NotStarted, recordedBar, spentBar
      <3>2. CASE ~Launch
        BY <1>6, <2>1, <3>2 DEF Main, ValidateOptions, ConnectInflux, WaitWorkers,
           CloseResults, JoinConsumer, JoinReader, Report, MainStep, recordedBar, spentBar
      <3> QED
        BY <3>1, <3>2
    <2>3. CASE Returned'
      <3>1. /\ ~Returned
            /\ verdict' \in ReadErrors \cup {"options", "influx"}
        BY <1>6, <2>3 DEF Main, ValidateOptions, ConnectInflux, Refuse, Launch, WaitWorkers,
           CloseResults, JoinConsumer, JoinReader, Report, MainStep, Returned, LoadInv,
           ReaderInv, StreamTypeOK, ReadErrors
      <3>2. verdict' = "nil" => ctxDone = TRUE \/ recordedBar = 0
        <4>1. SUFFICES ASSUME verdict' = "nil" PROVE ctxDone = TRUE \/ recordedBar = 0
          OBVIOUS
        <4>2. Report
          BY <1>6, <2>3, <3>1, <4>1 DEF Main, ValidateOptions, ConnectInflux, Refuse, Launch,
             WaitWorkers, CloseResults, JoinConsumer, JoinReader, Report, MainStep, Returned
        <4>3. rpc = "done" /\ cpc = "done" /\ readErr \in {"nil", "ctx"}
          BY <4>1, <4>2 DEF Report, MainStep, IsDone, LoadInv, ControlInv
        <4>4. ctxDone \/ nSent = 0
          BY Zenon, <4>3, VerdictFacts
        <4>5. CASE nSent = 0
          <5>1. acc.requests = 0
            BY <4>5, CountTypes DEF LoadInv, EntriesAccounted
          <5> QED
            BY <4>3, <5>1 DEF recordedBar
        <4>6. CASE ctxDone
          <5>1. ctxDone \in BOOLEAN
            BY DEF LoadInv, ReaderInv, StreamTypeOK
          <5> QED
            BY Zenon, <4>6, <5>1
        <4> QED
          BY Zenon, <4>4, <4>5, <4>6
      <3> QED
        BY <2>1, <2>2, <2>3, <3>1, <3>2 DEF Contract!Next, Contract!Return, recordedBar,
           spentBar, Returned
    <2>4. CASE ~Returned'
      BY <1>6, <2>1, <2>2, <2>4 DEF Main, ValidateOptions, ConnectInflux, Refuse, Launch,
         WaitWorkers, CloseResults, JoinConsumer, JoinReader, Report, MainStep, Returned,
         Contract!contractVars, recordedBar, spentBar
    <2> QED
      BY <2>3, <2>4
  <1>7. CASE ContextEnds
    BY <1>7 DEF ContextEnds, Cancel, loadVars, Contract!Next, Contract!End, Returned
  <1>8. CASE CallerStops \/ UNCHANGED vars
    BY <1>8 DEF CallerStops, vars, streamVars, ctxVars, loadVars, Contract!contractVars,
       Returned
  <1> QED
    BY <1>2, <1>3, <1>4, <1>5, <1>6, <1>7, <1>8 DEF Next, Terminated

(***************************************************************************)
(* LoadTest implements the safety part of its contract (load.go 94-203);   *)
(* that it also returns once the context has ended is left to TLC.         *)
(***************************************************************************)
THEOREM ImplementsContract == Spec => ContractSafety
  <1>1. Init => Contract!Init
    BY ContractInit
  <1>2. LoadInv /\ [Next]_vars => [Contract!Next]_Contract!contractVars
    BY ContractStep
  <1> QED
    BY <1>1, <1>2, LoadInvariant, PTL DEF Spec, ContractSafety, Contract!Safety
-------------------------------------------------------------------------------
(***************************************************************************)
(* Why the call returns, but for fairness: somebody can always move, and   *)
(* every move counts a number down that only a further pass counts up.     *)
(***************************************************************************)
\* What each goroutine can do, from the guards of its actions.
ReaderCan ==
    \/ rpc \in {"compile", "pass", "more"}
    \/ rpc = "send" /\ (Len(entries) < Capacity \/ ctxDone)
    \/ rpc = "rewind" /\ (~input.rewinds \/ pass < MaxPasses \/ ctxDone)

WorkerCan(w) ==
    \/ wpc[w] = "select" /\ (entries # <<>> \/ entriesClosed \/ ctxDone)
    \/ wpc[w] = "issue"
    \/ wpc[w] = "send" /\ (cpc = "recv" \/ ctxDone)
    \/ wpc[w] \in {"inflight", "forward"} /\ ctxDone

ConsumerCan == cpc \in {"add", "write"} \/ (cpc = "recv" /\ resultsClosed)

MainCan ==
    \/ mpc \in {"validate", "connect", "launch", "close", "report"}
    \/ mpc = "wait" /\ WorkersExited
    \/ mpc = "joinConsumer" /\ ConsumerJoined
    \/ mpc = "joinReader" /\ ReaderJoined

\* What the call may wait for while the context is live: a server, the caller, and, in
\* the model, a pass that is beyond its bound.
Outside ==
    /\ ~ctxDone
    /\ \/ \E w \in Workers : wpc[w] \in {"inflight", "forward"}
       \/ rpc = "rewind" /\ pass >= MaxPasses

SomebodyCan == ReaderCan \/ ConsumerCan \/ MainCan \/ \E w \in Workers : WorkerCan(w)

LEMMA WorkerNotStuck ==
    ASSUME LoadInv, mpc = "wait", NEW w \in Workers, wpc[w] # "exited"
    PROVE  SomebodyCan \/ Outside
  <1>1. wpc[w] \in {"select", "issue", "inflight", "send", "forward"}
    <2>1. wpc[w] \in WorkerStates
      BY DEF LoadInv, LoadTypeOK
    <2> QED
      BY <2>1 DEF LoadInv, ControlInv, NotStarted, WorkerStates
  <1>2. CASE wpc[w] \in {"issue", "inflight", "forward"}
    BY <1>2 DEF SomebodyCan, WorkerCan, Outside
  <1>3. CASE wpc[w] = "send"
    <2>1. cpc \in {"recv", "add", "write"}
      BY DEF LoadInv, LoadTypeOK, ControlInv, NotStarted
    <2> QED
      BY <1>3, <2>1 DEF SomebodyCan, WorkerCan, ConsumerCan
  <1>4. CASE wpc[w] = "select"
    <2>1. CASE entries # <<>> \/ entriesClosed \/ ctxDone
      BY <1>4, <2>1 DEF SomebodyCan, WorkerCan
    <2>2. CASE entries = <<>> /\ ~entriesClosed /\ ~ctxDone
      <3>1. rpc \in {"compile", "pass", "more", "send", "rewind"}
        BY <2>2 DEF LoadInv, ControlInv, NotStarted, ReaderInv, ClosedInv, StreamTypeOK
      <3>2. rpc = "send" => ReaderCan
        <4>1. Len(entries) = 0
          BY <2>2, EmptySeq
        <4> QED
          BY <4>1, CapacityAssumption DEF ReaderCan
      <3>3. rpc = "rewind" => ReaderCan \/ Outside
        BY <2>2, PassesAssumption DEF ReaderCan, Outside, LoadInv, ReaderInv, StreamTypeOK
      <3> QED
        BY <3>1, <3>2, <3>3 DEF ReaderCan, SomebodyCan
    <2> QED
      BY <2>1, <2>2
  <1> QED
    BY <1>1, <1>2, <1>3, <1>4

\* LoadTest cannot deadlock, with any number of workers: until it has returned one of its
\* goroutines can move, or else the context is live and a server or the caller is awaited
\* (load.go 147-186, 247-253, 312-319).  Neither the end of the context nor the caller's
\* giving up is counted as a move.
THEOREM NeverStuck == Spec => [](Returned \/ SomebodyCan \/ Outside)
  <1>1. LoadInv => Returned \/ SomebodyCan \/ Outside
    <2> SUFFICES ASSUME LoadInv, ~Returned
                 PROVE  SomebodyCan \/ Outside
      OBVIOUS
    <2>1. mpc \in {"validate", "connect", "launch", "wait", "close", "joinConsumer",
                   "joinReader", "report"}
      BY DEF LoadInv, LoadTypeOK, MainStates, Returned
    <2>2. CASE mpc \in {"validate", "connect", "launch", "close", "report"}
      BY <2>2 DEF SomebodyCan, MainCan
    <2>3. CASE mpc = "wait"
      BY <2>3, WorkerNotStuck DEF SomebodyCan, MainCan, WorkersExited
    <2>4. CASE mpc = "joinConsumer"
      <3>1. cpc \in {"recv", "add", "write", "done"} /\ resultsClosed
        BY <2>4 DEF LoadInv, LoadTypeOK, ControlInv, NotStarted
      <3> QED
        BY <2>4, <3>1 DEF SomebodyCan, MainCan, ConsumerCan, ConsumerJoined
    <2>5. CASE mpc = "joinReader"
      <3>1. rpc \in {"compile", "pass", "more", "send", "rewind", "done"}
        BY <2>5 DEF LoadInv, ControlInv, NotStarted, ReaderInv, StreamTypeOK
      <3>2. CASE rpc = "done"
        BY <2>5, <3>2 DEF SomebodyCan, MainCan, ReaderJoined
      <3>3. CASE rpc # "done" /\ ctxDone
        BY <3>1, <3>3 DEF SomebodyCan, ReaderCan
      <3>4. CASE ~ctxDone
        <4>1. PICK w \in Workers : TRUE
          BY WorkersAssumption
        <4>2. wpc[w] = "exited"
          BY <2>5 DEF LoadInv, ControlInv, Closing
        <4>3. entriesClosed
          BY <3>4, <4>2 DEF LoadInv, LossInv
        <4>4. rpc = "done"
          BY <4>3 DEF LoadInv, ReaderInv, ClosedInv
        <4> QED
          BY <3>2, <4>4
      <3> QED
        BY <3>2, <3>3, <3>4
    <2> QED
      BY <2>1, <2>2, <2>3, <2>4, <2>5
  <1> QED
    BY <1>1, LoadInvariant, PTL

-------------------------------------------------------------------------------
\* The steps each goroutine can still make with what it holds.
WorkerWeight ==
    [idle |-> 1, select |-> 1, issue |-> 5, inflight |-> 4, send |-> 3, forward |-> 2,
     exited |-> 0]
ConsumerWeight == [idle |-> 1, recv |-> 1, add |-> 3, write |-> 2, done |-> 0]
MainWeight ==
    [validate |-> 8, connect |-> 7, launch |-> 6, wait |-> 5, close |-> 4,
     joinConsumer |-> 3, joinReader |-> 2, report |-> 1, returned |-> 0, refused |-> 0]

\* The weights of all the workers as one set.
Burden == {b \in Workers \X (1..5) : b[2] <= WorkerWeight[wpc[b[1]]]}

\* A worker's step counts for more than the two that the consumer has with its result.
Rank == StreamRank + 3 * Cardinality(Burden) + ConsumerWeight[cpc] + MainWeight[mpc]
          + (IF callerReads THEN 1 ELSE 0)

LEMMA BurdenFinite ==
    /\ IsFiniteSet(Burden) /\ Cardinality(Burden) \in Nat
    /\ IsFiniteSet(Burden') /\ Cardinality(Burden') \in Nat
  <1>1. IsFiniteSet(1..5)
    <2>1. 1 \in Int /\ 5 \in Int
      OBVIOUS
    <2> QED
      BY <2>1, FS_Interval
  <1>2. IsFiniteSet(Workers \X (1..5))
    BY <1>1, WorkersAssumption, FS_Product
  <1>3. Burden \subseteq Workers \X (1..5) /\ Burden' \subseteq Workers \X (1..5)
    BY DEF Burden
  <1> QED
    BY <1>2, <1>3, FS_Subset, FS_CardinalityType

\* A worker that moves on has less to do; one that takes an entry has four steps more.
LEMMA BurdenMoves ==
    ASSUME LoadTypeOK, NEW w \in Workers, NEW from, NEW to \in WorkerStates, Goto(w, from, to)
    PROVE  /\ WorkerWeight[to] < WorkerWeight[from] =>
                  Cardinality(Burden') <= Cardinality(Burden) - 1
           /\ to = from => Cardinality(Burden') = Cardinality(Burden)
           /\ from = "select" /\ to = "issue" =>
                  Cardinality(Burden') <= Cardinality(Burden) + 4
  <1> DEFINE before == WorkerWeight[from]
             after  == WorkerWeight[to]
  <1>1. /\ wpc \in [Workers -> WorkerStates] /\ wpc[w] = from /\ wpc'[w] = to
        /\ \A v \in Workers : v # w => wpc'[v] = wpc[v]
    BY Zenon DEF LoadTypeOK, Goto
  <1>2. from \in WorkerStates
    BY <1>1
  <1>3. before \in 0..5 /\ after \in 0..5
    BY <1>2 DEF WorkerStates, WorkerWeight
  <1>4. \A v \in Workers, n \in 1..5 :
            /\ <<v, n>> \in Burden <=> n <= WorkerWeight[wpc[v]]
            /\ <<v, n>> \in Burden' <=> n <= WorkerWeight[wpc'[v]]
    BY DEF Burden
  <1>5. \A n \in 1..5 : /\ <<w, n>> \in Burden <=> n <= before
                        /\ <<w, n>> \in Burden' <=> n <= after
    BY <1>1, <1>4
  <1>6. \A v \in Workers, n \in 1..5 : v # w => (<<v, n>> \in Burden <=> <<v, n>> \in Burden')
    BY <1>1, <1>4
  <1>7. ASSUME NEW S, \A v \in Workers, n \in 1..5 : <<v, n>> \in Burden' => <<v, n>> \in S
        PROVE  Burden' \subseteq S
    <2> SUFFICES ASSUME NEW b \in Burden'
                 PROVE  b \in S
      OBVIOUS
    <2>1. PICK v \in Workers, n \in 1..5 : b = <<v, n>>
      BY DEF Burden
    <2> QED
      BY <1>7, <2>1
  <1>8. ASSUME after < before
        PROVE  Cardinality(Burden') <= Cardinality(Burden) - 1
    <2> HIDE DEF before, after
    <2>1. \A n \in 1..5 : <<w, n>> \in Burden' => <<w, n>> \in Burden
      BY <1>3, <1>5, <1>8
    <2>2. Burden' \subseteq Burden
      BY <1>6, <1>7, <2>1
    <2>3. before \in 1..5
      BY <1>3, <1>8
    <2>4. <<w, before>> \in Burden /\ <<w, before>> \notin Burden'
      BY <1>3, <1>5, <1>8, <2>3
    <2>5. Cardinality(Burden') <= Cardinality(Burden) /\ Cardinality(Burden') # Cardinality(Burden)
      BY <2>2, <2>4, BurdenFinite, FS_Subset
    <2> QED
      BY <2>5, BurdenFinite
  <1>9. ASSUME to = from
        PROVE  Cardinality(Burden') = Cardinality(Burden)
    <2>1. \A v \in Workers : wpc'[v] = wpc[v]
      BY <1>1, <1>9
    <2>2. Burden' = Burden
      BY <2>1 DEF Burden
    <2> QED
      BY <2>2
  <1>10. ASSUME from = "select", to = "issue"
         PROVE  Cardinality(Burden') <= Cardinality(Burden) + 4
    <2> DEFINE more == {w} \X (2..5)
    <2>1. IsFiniteSet(more) /\ Cardinality(more) = 4
      <3>1. IsFiniteSet({w}) /\ Cardinality({w}) = 1
        BY FS_Singleton
      <3>2. 2 \in Int /\ 5 \in Int /\ ~(2 > 5) /\ 5 - 2 + 1 = 4
        OBVIOUS
      <3>3. IsFiniteSet(2..5) /\ Cardinality(2..5) = 4
        BY <3>2, FS_Interval
      <3>4. IsFiniteSet(more) /\ Cardinality(more) = 1 * 4
        BY <3>1, <3>3, FS_Product
      <3> QED
        BY <3>4
    <2>2. before = 1
      BY <1>10 DEF WorkerWeight
    <2>3. \A n \in 1..5 : <<w, n>> \in Burden \cup more
      <3> HIDE DEF before, after
      <3> SUFFICES ASSUME NEW n \in 1..5
                   PROVE  <<w, n>> \in Burden \cup more
        OBVIOUS
      <3>1. n = 1 => <<w, n>> \in Burden
        BY <1>5, <2>2
      <3>2. n # 1 => n \in 2..5
        OBVIOUS
      <3> QED
        BY <3>1, <3>2
    <2> HIDE DEF more, before, after
    <2>4. Burden' \subseteq Burden \cup more
      BY <1>6, <1>7, <2>3
    <2>5. IsFiniteSet(Burden \cup more)
          /\ Cardinality(Burden \cup more) = Cardinality(Burden) + 4 - Cardinality(Burden \cap more)
      BY <2>1, BurdenFinite, FS_Union
    <2>6. Cardinality(Burden \cap more) \in Nat
      BY <2>1, FS_Subset, FS_CardinalityType
    <2>7. Cardinality(Burden') <= Cardinality(Burden \cup more)
      BY <2>4, <2>5, FS_Subset
    <2> QED
      BY <2>5, <2>6, <2>7, BurdenFinite
  <1> QED
    BY <1>8, <1>9, <1>10

\* The parts of Rank are numbers, and what leaves them alone.
LEMMA RankParts ==
    ASSUME LoadInv
    PROVE  /\ StreamRank \in Nat /\ Cardinality(Burden) \in Nat
           /\ ConsumerWeight[cpc] \in Nat /\ MainWeight[mpc] \in Nat
           /\ (IF callerReads THEN 1 ELSE 0) \in Nat
           /\ UNCHANGED streamVars => StreamRank' = StreamRank
           /\ wpc' = wpc => Cardinality(Burden') = Cardinality(Burden)
  <1>1. StreamRank \in Nat
    BY StreamRankType DEF LoadInv
  <1>2. ConsumerWeight[cpc] \in Nat
    BY DEF LoadInv, LoadTypeOK, ConsumerWeight
  <1>3. MainWeight[mpc] \in Nat
    BY DEF LoadInv, LoadTypeOK, MainStates, MainWeight
  <1>4. UNCHANGED streamVars => StreamRank' = StreamRank
    BY DEF StreamRank, ReaderRank, Left, streamVars, ctxVars, readerVars, chanVars, localVars
  <1>5. wpc' = wpc => Burden' = Burden
    BY DEF Burden
  <1> QED
    BY <1>1, <1>2, <1>3, <1>4, <1>5, BurdenFinite

LEMMA WorkerCountsDown ==
    ASSUME LoadInv, NEW w \in Workers, WorkerStep(w) \/ RequestEnds(w) \/ Forward(w)
    PROVE  Rank' < Rank
  <1> DEFINE caller == IF callerReads THEN 1 ELSE 0
  <1>1. /\ StreamRank \in Nat /\ Cardinality(Burden) \in Nat /\ Cardinality(Burden') \in Nat
        /\ ConsumerWeight[cpc] \in Nat /\ MainWeight[mpc] \in Nat /\ caller \in Nat
    BY RankParts, BurdenFinite
  <1>2. /\ Rank = StreamRank + 3 * Cardinality(Burden) + ConsumerWeight[cpc]
                    + MainWeight[mpc] + caller
        /\ Rank' = StreamRank' + 3 * Cardinality(Burden') + ConsumerWeight[cpc']
                    + MainWeight[mpc'] + caller'
    BY DEF Rank, ConsumerWeight, MainWeight
  <1>3. MainWeight[mpc'] = MainWeight[mpc] /\ caller' = caller
    BY DEF WorkerStep, RequestEnds, TakeEntry, SeeClosed, SeeDone, Issue, Deliver,
       DeliverCancelled, ForwardCancelled, Respond, Fail, RequestFails, Forward, mainVars
  <1>4. CASE TakeEntry(w)
    <2>1. StreamRank' = StreamRank - 13
      BY <1>4, ReceiptCountsDown DEF TakeEntry, LoadInv
    <2>2. PICK to \in {"select", "issue"} : Goto(w, "select", to)
      BY <1>4 DEF TakeEntry, AfterSkip
    <2>3. Cardinality(Burden') <= Cardinality(Burden) + 4
      BY <1>1, <2>2, BurdenMoves DEF LoadInv, WorkerStates
    <2>4. cpc' = cpc
      BY <1>4 DEF TakeEntry, consumerVars
    <2> HIDE DEF caller
    <2> QED
      BY <1>1, <1>2, <1>3, <2>1, <2>3, <2>4
  <1>5. ASSUME NEW from, NEW to \in WorkerStates, Goto(w, from, to),
               WorkerWeight[to] < WorkerWeight[from], UNCHANGED streamVars,
               cpc' = cpc \/ (cpc = "recv" /\ cpc' = "add")
        PROVE  Rank' < Rank
    <2>1. StreamRank' = StreamRank
      BY <1>5, RankParts
    <2>2. Cardinality(Burden') <= Cardinality(Burden) - 1
      BY <1>5, BurdenMoves DEF LoadInv
    <2>3. /\ ConsumerWeight[cpc'] \in Nat
          /\ ConsumerWeight[cpc'] <= ConsumerWeight[cpc] + 2
      BY <1>1, <1>5 DEF ConsumerWeight
    <2> HIDE DEF caller
    <2> QED
      BY <1>1, <1>2, <1>3, <2>1, <2>2, <2>3
  <1>6. CASE SeeClosed(w) \/ SeeDone(w)
    <2>1. Goto(w, "select", "exited") /\ UNCHANGED streamVars /\ cpc' = cpc
      BY <1>6 DEF SeeClosed, SeeDone, consumerVars
    <2> QED
      BY <1>5, <2>1 DEF WorkerStates, WorkerWeight
  <1>7. ASSUME NEW from \in {"issue", "inflight"}, RequestFails(w, from),
               from = "issue" => ctxDone
        PROVE  Rank' < Rank
    <2>1. PICK to \in {"send", "exited"} : /\ Goto(w, from, to)
                                           /\ from = "issue" => to = "exited"
      BY <1>7 DEF RequestFails, RunEnded, Exit
    <2>2. UNCHANGED streamVars /\ cpc' = cpc
      BY <1>7 DEF RequestFails, consumerVars
    <2>3. to \in WorkerStates /\ WorkerWeight[to] < WorkerWeight[from]
      BY <2>1 DEF WorkerStates, WorkerWeight
    <2> QED
      BY <1>5, <2>1, <2>2, <2>3
  <1>8. CASE Issue(w)
    <2>1. CASE ctxDone
      BY <1>7, <1>8, <2>1 DEF Issue
    <2>2. CASE ~ctxDone
      <3>1. Goto(w, "issue", "inflight") /\ UNCHANGED streamVars /\ cpc' = cpc
        BY <1>8, <2>2 DEF Issue, consumerVars
      <3> QED
        BY <1>5, <3>1 DEF WorkerStates, WorkerWeight
    <2> QED
      BY <2>1, <2>2
  <1>9. CASE RequestEnds(w)
    <2>1. CASE Fail(w)
      BY <1>7, <2>1 DEF Fail
    <2>2. CASE Respond(w)
      <3>1. Goto(w, "inflight", "send") /\ UNCHANGED streamVars /\ cpc' = cpc
        BY <2>2 DEF Respond, consumerVars
      <3> QED
        BY <1>5, <3>1 DEF WorkerStates, WorkerWeight
    <2> QED
      BY <1>9, <2>1, <2>2 DEF RequestEnds
  <1>10. CASE Deliver(w)
    <2>1. PICK to \in {"forward", "select"} : Goto(w, "send", to)
      BY <1>10 DEF Deliver, AfterDeliver
    <2>2. UNCHANGED streamVars /\ cpc = "recv" /\ cpc' = "add"
      BY <1>10 DEF Deliver
    <2>3. to \in WorkerStates /\ WorkerWeight[to] < WorkerWeight["send"]
      BY <2>1 DEF WorkerStates, WorkerWeight
    <2> QED
      BY <1>5, <2>1, <2>2, <2>3
  <1>11. CASE DeliverCancelled(w)
    <2>1. Goto(w, "send", "exited") /\ UNCHANGED streamVars /\ cpc' = cpc
      BY <1>11 DEF DeliverCancelled, Exit, consumerVars
    <2> QED
      BY <1>5, <2>1 DEF WorkerStates, WorkerWeight
  <1>12. CASE Forward(w) \/ ForwardCancelled(w)
    <2>1. PICK to \in {"select", "exited"} : Goto(w, "forward", to)
      BY <1>12 DEF Forward, ForwardCancelled
    <2>2. UNCHANGED streamVars /\ cpc' = cpc
      BY <1>12 DEF Forward, ForwardCancelled, consumerVars
    <2>3. to \in WorkerStates /\ WorkerWeight[to] < WorkerWeight["forward"]
      BY <2>1 DEF WorkerStates, WorkerWeight
    <2> QED
      BY <1>5, <2>1, <2>2, <2>3
  <1> QED
    BY <1>4, <1>6, <1>8, <1>9, <1>10, <1>11, <1>12 DEF WorkerStep

LEMMA SumIsSmaller ==
    ASSUME NEW i \in Nat, NEW j \in Nat, NEW k \in Nat, NEW x \in Nat, NEW y \in Nat,
           \/ x < i /\ y = j
           \/ x = i /\ y < j
           \/ x < i /\ y < j
    PROVE  x + y + k < i + j + k
  OBVIOUS

LEMMA LoadCountsDown ==
    ASSUME LoadInv, LoadInv', Next, ~BeginPass, ~UNCHANGED vars
    PROVE  Rank' < Rank
  <1> DEFINE caller == IF callerReads THEN 1 ELSE 0
             others == 3 * Cardinality(Burden) + ConsumerWeight[cpc] + MainWeight[mpc]
  <1>1. /\ StreamRank \in Nat /\ Cardinality(Burden) \in Nat /\ Cardinality(Burden') \in Nat
        /\ ConsumerWeight[cpc] \in Nat /\ MainWeight[mpc] \in Nat /\ caller \in Nat
    BY RankParts, BurdenFinite
  <1>2. others \in Nat
    BY <1>1
  <1>3. /\ Rank = StreamRank + others + caller
        /\ Rank' = StreamRank' + others' + caller'
    <2>1. /\ Cardinality(Burden)' \in Nat /\ ConsumerWeight[cpc]' \in Nat
          /\ MainWeight[mpc]' \in Nat /\ caller' \in Nat /\ StreamRank' \in Nat
      <3>1. StreamRank' \in Nat
        BY StreamMoves, RankParts, StreamCountsDown DEF LoadInv
      <3>2. ConsumerWeight[cpc]' \in Nat /\ MainWeight[mpc]' \in Nat
        BY DEF LoadInv, LoadTypeOK, MainStates, ConsumerWeight, MainWeight
      <3> QED
        BY <1>1, <3>1, <3>2
    <2> HIDE DEF caller
    <2> QED
      BY <1>1, <2>1 DEF Rank, caller
  <1>4. wpc' = wpc /\ cpc' = cpc /\ mpc' = mpc => others' = others
    BY RankParts
  <1>5. ASSUME ~UNCHANGED streamVars, [StreamNext]_streamVars
        PROVE  StreamRank' < StreamRank /\ StreamRank' \in Nat
    BY <1>5, StreamCountsDown DEF LoadInv
  <1>6. CASE Reader
    <2>1. others' = others /\ caller' = caller
      BY <1>4, <1>6 DEF Reader, loadVars, mainVars, workerVars, consumerVars
    <2>2. ~UNCHANGED streamVars
      BY <1>6 DEF Reader, vars
    <2>3. StreamRank' < StreamRank /\ StreamRank' \in Nat
      BY <1>5, <2>2, StreamMoves
    <2> HIDE DEF caller, others
    <2> QED
      BY <1>1, <1>2, <1>3, <2>1, <2>3, SumIsSmaller, Zenon
  <1>7. CASE \E w \in Workers : WorkerStep(w) \/ RequestEnds(w) \/ Forward(w)
    BY <1>7, WorkerCountsDown
  <1>8. CASE ContextEnds
    <2>1. others' = others /\ caller' = caller
      BY <1>4, <1>8 DEF ContextEnds, loadVars, mainVars, workerVars, consumerVars
    <2>2. ~UNCHANGED streamVars
      BY <1>8 DEF ContextEnds, vars
    <2>3. StreamRank' < StreamRank /\ StreamRank' \in Nat
      BY <1>5, <2>2, StreamMoves
    <2> HIDE DEF caller, others
    <2> QED
      BY <1>1, <1>2, <1>3, <2>1, <2>3, SumIsSmaller, Zenon
  <1>9. CASE CallerStops
    <2>1. UNCHANGED streamVars /\ wpc' = wpc /\ cpc' = cpc /\ mpc' = mpc
      BY <1>9 DEF CallerStops, mainVars, workerVars, consumerVars
    <2>2. StreamRank' = StreamRank /\ others' = others
      BY <1>4, <2>1, RankParts
    <2>3. caller = 1 /\ caller' = 0
      BY <1>9 DEF CallerStops
    <2> HIDE DEF caller, others
    <2> QED
      BY <1>1, <1>2, <1>3, <2>2, <2>3
  <1>10. CASE Consumer
    <2>1. /\ UNCHANGED streamVars /\ wpc' = wpc /\ mpc' = mpc /\ caller' = caller
          /\ ConsumerWeight[cpc'] < ConsumerWeight[cpc] /\ ConsumerWeight[cpc'] \in Nat
      BY <1>10 DEF Consumer, AddResult, WriteOne, ConsumerEnds, mainVars, workerVars,
         ConsumerWeight
    <2>2. StreamRank' = StreamRank /\ Cardinality(Burden') = Cardinality(Burden)
      BY <2>1, RankParts
    <2>3. others' < others /\ others' \in Nat
      BY <1>1, <2>1, <2>2
    <2> HIDE DEF caller, others
    <2> QED
      BY <1>1, <1>2, <1>3, <2>1, <2>2, <2>3, SumIsSmaller, Zenon
  <1>11. CASE Launch
    <2>1. StreamRank' < StreamRank /\ StreamRank' \in Nat
      <3>1. ~UNCHANGED streamVars
        BY <1>11 DEF Launch, StartReader, streamVars, readerVars, localVars
      <3> QED
        BY <1>5, <3>1, StreamMoves
    <2>2. \A w \in Workers : WorkerWeight[wpc'[w]] = WorkerWeight[wpc[w]]
      <3>1. \A w \in Workers : wpc[w] = "idle"
        BY <1>11 DEF Launch, LoadInv, ControlInv, NotStarted
      <3>2. \A w \in Workers : wpc'[w] = "select"
        BY <1>11 DEF Launch
      <3> QED
        BY <3>1, <3>2 DEF WorkerWeight
    <2>3. Burden' = Burden
      BY <2>2 DEF Burden
    <2>4. /\ ConsumerWeight[cpc] = 1 /\ ConsumerWeight[cpc'] = 1
          /\ MainWeight[mpc] = 6 /\ MainWeight[mpc'] = 5 /\ caller' = caller
      BY <1>11 DEF Launch, LoadInv, ControlInv, NotStarted, ConsumerWeight, MainWeight
    <2>5. others' < others /\ others' \in Nat
      BY <1>1, <2>3, <2>4
    <2> HIDE DEF caller, others
    <2> QED
      BY <1>1, <1>2, <1>3, <2>1, <2>4, <2>5, SumIsSmaller, Zenon
  <1>12. CASE Main /\ ~Launch
    <2>1. /\ UNCHANGED streamVars /\ wpc' = wpc /\ cpc' = cpc /\ caller' = caller
          /\ MainWeight[mpc'] < MainWeight[mpc] /\ MainWeight[mpc'] \in Nat
      BY <1>12 DEF Main, ValidateOptions, ConnectInflux, Refuse, WaitWorkers, CloseResults,
         JoinConsumer, JoinReader, Report, MainStep, workerVars, consumerVars, MainWeight
    <2>2. StreamRank' = StreamRank /\ Cardinality(Burden') = Cardinality(Burden)
      BY <2>1, RankParts
    <2>3. others' < others /\ others' \in Nat
      BY <1>1, <2>1, <2>2
    <2> HIDE DEF caller, others
    <2> QED
      BY <1>1, <1>2, <1>3, <2>1, <2>2, <2>3, SumIsSmaller, Zenon
  <1>13. CASE Terminated
    BY <1>13 DEF Terminated
  <1> QED
    BY <1>6, <1>7, <1>8, <1>9, <1>10, <1>11, <1>12, <1>13 DEF Next

\* Every step of any goroutine, of the servers and of the caller counts a natural number
\* down, but for the reader beginning a further pass, which needs a live context: from its
\* end on a load test has no more than Rank steps left, whoever takes them and in whatever
\* order (load.go 138-203).  With NeverStuck this is the safety half of the promise that
\* the call returns.
THEOREM CallCannotLinger ==
    Spec => [][ /\ Rank \in Nat
                /\ BeginPass => ~ctxDone
                /\ ~BeginPass => Rank' < Rank ]_vars
  <1>1. LoadInv /\ LoadInv' /\ [Next]_vars =>
            [ /\ Rank \in Nat
              /\ BeginPass => ~ctxDone
              /\ ~BeginPass => Rank' < Rank ]_vars
    <2> SUFFICES ASSUME LoadInv, LoadInv', Next, ~UNCHANGED vars
                 PROVE  /\ Rank \in Nat
                        /\ BeginPass => ~ctxDone
                        /\ ~BeginPass => Rank' < Rank
      OBVIOUS
    <2>1. BeginPass => ~ctxDone
      BY DEF BeginPass, PassCancelled
    <2>2. Rank \in Nat
      BY RankParts DEF Rank
    <2> QED
      BY <2>1, <2>2, LoadCountsDown
  <1> QED
    BY <1>1, LoadInvariant, PTL DEF Spec
===============================================================================
