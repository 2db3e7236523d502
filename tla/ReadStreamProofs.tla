--------------------------- MODULE ReadStreamProofs ---------------------------
(***************************************************************************)
(* Proofs about the reader, for every set of documents, every capacity of  *)
(* the channel and every number of passes.  The step lemma is stated for   *)
(* the reader's actions alone, so that LoadTestProofs can use it for the   *)
(* reader inside a load test.                                              *)
(***************************************************************************)
EXTENDS ReadStream, SequenceTheorems, FiniteSetTheorems, TLAPS

Scanning == rpc \in {"more", "send"}

\* The counters of a pass against the entries the decoder has already yielded.
PassInv ==
    /\ Scanning => pos <= Len(input.items) + 1
    /\ Scanning /\ usable = 0 => \A i \in 1..(pos - 1) : input.items[i] = "nourl"
    /\ Scanning /\ usable > 0 => ~IsEmpty(input.items)
    /\ Scanning /\ sent = 0 =>
           \A i \in 1..(pos - 1) : input.items[i] \in {"nourl", "filtered"}
    /\ rpc = "send" => /\ pos <= Len(input.items)
                       /\ input.items[pos] \notin {"nourl", "filtered"}
                       /\ usable > 0

\* The counters against the whole run: something was sent only if there is something
\* to send, and the reader rewinds only after it sent something.
RunInv ==
    /\ rpc \in {"idle", "compile"} => nSent = 0
    /\ nSent > 0 => ~AllReject(input.items)
    /\ Scanning /\ sent > 0 => nSent > 0
    /\ rpc = "rewind" => nSent > 0

\* The channel is closed by the step that ends the reader, and by no other.
ClosedInv == entriesClosed <=> rpc = "done"

\* The inductive invariant.
ReaderInv == StreamTypeOK /\ PassInv /\ RunInv /\ ClosedInv /\ VerdictSound

-------------------------------------------------------------------------------
(***************************************************************************)
(* A document accepted as input has a sequence of kinds as its items.      *)
(***************************************************************************)
LEMMA InputFacts ==
    ASSUME input \in Inputs
    PROVE  /\ input.items \in Seq(Kinds)
           /\ Len(input.items) \in Nat
           /\ DOMAIN input.items = 1..Len(input.items)
           /\ \A i \in 1..Len(input.items) : input.items[i] \in Kinds
  BY InputsAssumption DEF InputType

(***************************************************************************)
(* The initial states satisfy the invariant.                               *)
(***************************************************************************)
LEMMA ReaderInitInv == ReaderInit => ReaderInv
  <1> SUFFICES ASSUME ReaderInit PROVE ReaderInv
    OBVIOUS
  <1>1. Len(entries) <= Capacity /\ entries \in Seq(Nat \ {0})
    BY EmptySeq, CapacityAssumption DEF ReaderInit
  <1>2. StreamTypeOK
    <2>0. /\ input \in Inputs /\ ctxDone \in BOOLEAN /\ entriesClosed \in BOOLEAN
          /\ rpc = "idle" /\ readErr = "nil"
      BY Zenon DEF ReaderInit
    <2>1. /\ pos \in Nat \ {0} /\ usable \in Nat /\ sent \in Nat
          /\ pass \in Nat /\ nSent \in Nat
      BY DEF ReaderInit
    <2> QED
      BY <1>1, <2>0, <2>1 DEF StreamTypeOK, ReadErrors
  <1>3. PassInv /\ RunInv /\ ClosedInv /\ VerdictSound
    BY InputFacts DEF ReaderInit, PassInv, RunInv, ClosedInv, VerdictSound, Scanning
  <1> QED
    BY <1>2, <1>3 DEF ReaderInv

(***************************************************************************)
(* Every step of the reader, its start, and the receipt of an entry by     *)
(* whoever holds the other end preserve the invariant.                     *)
(***************************************************************************)
LEMMA ReaderStepInv ==
    ASSUME ReaderInv, StartReader \/ ReaderStep \/ ReceiveEntry, UNCHANGED ctxVars
    PROVE  ReaderInv'
  <1> USE DEF ReaderInv, ctxVars, chanVars
  <1>0. /\ input' = input /\ ctxDone' = ctxDone
        /\ input.items \in Seq(Kinds)
        /\ Len(input.items) \in Nat
        /\ DOMAIN input.items = 1..Len(input.items)
        /\ \A i \in 1..Len(input.items) : input.items[i] \in Kinds
    BY InputFacts DEF StreamTypeOK
  <1>1. CASE StartReader
    BY <1>0, <1>1 DEF StartReader, StreamTypeOK, PassInv, RunInv, ClosedInv, VerdictSound, Scanning
  <1>2. CASE CompileFilter
    BY <1>0, <1>2 DEF CompileFilter, ReturnRead, StreamTypeOK, PassInv, RunInv, ClosedInv,
       VerdictSound, Scanning, ReadErrors
  <1>3. CASE StopPass
    BY <1>0, <1>3 DEF StopPass, PassCancelled, ReturnRead, StreamTypeOK, PassInv, RunInv, ClosedInv,
       VerdictSound, Scanning, ReadErrors
  <1>4. CASE ScanFails
    BY <1>0, <1>4 DEF ScanFails, ReturnRead, StreamTypeOK, PassInv, RunInv, ClosedInv,
       VerdictSound, Scanning, ReadErrors
  <1>5. CASE BeginPass
    BY <1>0, <1>5 DEF BeginPass, StreamTypeOK, PassInv, RunInv, ClosedInv, VerdictSound, Scanning
  <1>6. CASE DecodeEntry
    BY <1>0, <1>6 DEF DecodeEntry, IsUsable, Matches, Selected, StreamTypeOK, PassInv,
       RunInv, ClosedInv, VerdictSound, Scanning, IsEmpty
  <1>7. CASE DecodeFails
    BY <1>0, <1>7 DEF DecodeFails, ReturnRead, StreamTypeOK, PassInv, RunInv, ClosedInv,
       VerdictSound, Scanning, ReadErrors
  <1>8. CASE SendEntry
    <2>1. /\ entries' \in Seq(Nat \ {0})
          /\ Len(entries') <= Capacity
      BY <1>8, CapacityAssumption, AppendProperties DEF SendEntry, StreamTypeOK
    <2>2. StreamTypeOK'
      BY <1>0, <1>8, <2>1 DEF SendEntry, StreamTypeOK
    <2>3. ~AllReject(input.items)
      BY <1>0, <1>8 DEF SendEntry, StreamTypeOK, PassInv, AllReject
    <2>4. PassInv' /\ RunInv' /\ ClosedInv' /\ VerdictSound'
      BY <1>0, <1>8, <2>3 DEF SendEntry, StreamTypeOK, PassInv, RunInv, ClosedInv,
         VerdictSound, Scanning
    <2> QED
      BY <2>2, <2>4
  <1>9. CASE SendCancelled
    BY <1>0, <1>9 DEF SendCancelled, ReturnRead, StreamTypeOK, PassInv, RunInv, ClosedInv,
       VerdictSound, Scanning, ReadErrors
  <1>10. CASE EndPass
    <2>1. pos - 1 = Len(input.items)
      BY <1>0, <1>10 DEF EndPass, PassInv, Scanning, StreamTypeOK
    <2>2. CASE PassIsEmpty
      <3>1. AllReject(input.items)
        BY <1>0, <1>10, <2>1, <2>2 DEF EndPass, PassIsEmpty, PassInv, Scanning, AllReject
      <3>2. usable = 0 => IsEmpty(input.items)
        BY <1>0, <1>10, <2>1 DEF EndPass, PassInv, Scanning, IsEmpty
      <3>3. nSent = 0
        BY <3>1 DEF RunInv, StreamTypeOK
      <3> QED
        BY <1>0, <1>10, <2>2, <3>1, <3>2, <3>3 DEF EndPass, EmptyPassError, ReturnRead,
           StreamTypeOK, PassInv, RunInv, ClosedInv, VerdictSound, Scanning, ReadErrors
    <2>3. CASE ~PassIsEmpty
      BY <1>0, <1>10, <2>3 DEF EndPass, PassIsEmpty, StreamTypeOK, PassInv, RunInv, ClosedInv,
         VerdictSound, Scanning
    <2> QED
      BY <2>2, <2>3
  <1>11. CASE Rewind
    BY <1>0, <1>11 DEF Rewind, ReturnRead, StreamTypeOK, PassInv, RunInv, ClosedInv,
       VerdictSound, Scanning, ReadErrors
  <1>12. CASE ReceiveEntry
    <2>1. /\ entries' \in Seq(Nat \ {0})
          /\ Len(entries') <= Capacity
      BY <1>12, CapacityAssumption, HeadTailProperties DEF ReceiveEntry, StreamTypeOK
    <2>2. StreamTypeOK'
      BY <1>0, <1>12, <2>1 DEF ReceiveEntry, localVars, StreamTypeOK
    <2>3. PassInv' /\ RunInv' /\ ClosedInv' /\ VerdictSound'
      BY <1>0, <1>12 DEF ReceiveEntry, localVars, PassInv, RunInv, ClosedInv, VerdictSound,
         Scanning
    <2> QED
      BY <2>2, <2>3
  <1> QED
    BY <1>1, <1>2, <1>3, <1>4, <1>5, <1>6, <1>7, <1>8, <1>9, <1>10, <1>11, <1>12
    DEF ReaderStep

(***************************************************************************)
(* The end of the context only sets its flag.                              *)
(***************************************************************************)
LEMMA CancelInv == ReaderInv /\ Cancel => ReaderInv'
  BY DEF ReaderInv, Cancel, readerVars, chanVars, localVars, StreamTypeOK, PassInv,
         RunInv, ClosedInv, VerdictSound, Scanning

(***************************************************************************)
(* A step that leaves the reader's variables alone preserves it too.       *)
(***************************************************************************)
LEMMA StutterInv == ReaderInv /\ UNCHANGED streamVars => ReaderInv'
  BY DEF ReaderInv, streamVars, ctxVars, readerVars, chanVars, localVars, StreamTypeOK,
         PassInv, RunInv, ClosedInv, VerdictSound, Scanning

-------------------------------------------------------------------------------
(***************************************************************************)
(* The invariant holds in every reachable state of the reader.             *)
(***************************************************************************)
LEMMA ReaderInvariant == StreamSpec => []ReaderInv
  <1>1. ReaderInit => ReaderInv
    BY ReaderInitInv
  <1>2. ReaderInv /\ [StreamNext]_streamVars => ReaderInv'
    BY ReaderStepInv, CancelInv, StutterInv DEF StreamNext, StreamTerminated
  <1> QED
    BY <1>1, <1>2, PTL DEF StreamSpec

(***************************************************************************)
(* The reader's variables keep their types, and the channel never holds    *)
(* more than its capacity (read.go 83-88).                                 *)
(***************************************************************************)
THEOREM StreamTypeCorrect == StreamSpec => []StreamTypeOK
  BY ReaderInvariant, PTL DEF ReaderInv

(***************************************************************************)
(* What ReadStream returns is true of the document it was given: nil only  *)
(* for a document without a usable entry, a filter error only when the     *)
(* filter rejected every usable entry, and so on (read.go 25-28).          *)
(***************************************************************************)
THEOREM VerdictIsSound == StreamSpec => []VerdictSound
  BY ReaderInvariant, PTL DEF ReaderInv

-------------------------------------------------------------------------------
(***************************************************************************)
(* The order of the stream.                                                *)
(***************************************************************************)
\* What has been sent since the start: the whole selection in every pass that is over,
\* and in the present one the selected entries that the decoder has left behind.
SentInv ==
    /\ rpc \in {"idle", "compile", "pass", "rewind"} =>
           nSent = pass * Cardinality(SelectedPositions)
    /\ Scanning =>
           /\ pass >= 1
           /\ nSent = (pass - 1) * Cardinality(SelectedPositions)
                        + Cardinality(SelectedBelow(pos))

OrderInv == SentInv /\ StreamOrder

\* How many selected entries there are before a position.
LEMMA SelectionFacts ==
    ASSUME input \in Inputs
    PROVE  /\ Cardinality(SelectedPositions) \in Nat
           /\ \A i \in Nat : Cardinality(SelectedBelow(i)) \in Nat
           /\ Cardinality(SelectedBelow(1)) = 0
           /\ SelectedBelow(Len(input.items) + 1) = SelectedPositions
           /\ \A i \in SelectedPositions :
                 Cardinality(SelectedBelow(i + 1)) = Cardinality(SelectedBelow(i)) + 1
           /\ \A i \in 1..Len(input.items) :
                 i \notin SelectedPositions => SelectedBelow(i + 1) = SelectedBelow(i)
  <1>1. Len(input.items) \in Nat
    BY InputFacts
  <1>2. IsFiniteSet(SelectedPositions) /\ SelectedPositions \subseteq 1..Len(input.items)
    <2>1. IsFiniteSet(1..Len(input.items))
      BY <1>1, FS_Interval
    <2>2. SelectedPositions \subseteq 1..Len(input.items)
      BY DEF SelectedPositions
    <2> QED
      BY <2>1, <2>2, FS_Subset
  <1>3. \A i : IsFiniteSet(SelectedBelow(i))
    <2>1. \A i : SelectedBelow(i) \subseteq SelectedPositions
      BY DEF SelectedBelow
    <2> QED
      BY <1>2, <2>1, FS_Subset
  <1>4. /\ Cardinality(SelectedPositions) \in Nat
        /\ \A i \in Nat : Cardinality(SelectedBelow(i)) \in Nat
    BY <1>2, <1>3, FS_CardinalityType
  <1>5. Cardinality(SelectedBelow(1)) = 0
    <2>1. \A i \in SelectedPositions : ~(i < 1)
      BY <1>1, <1>2
    <2>2. SelectedBelow(1) = {}
      BY <2>1 DEF SelectedBelow
    <2> QED
      BY <2>2, FS_EmptySet
  <1>6. SelectedBelow(Len(input.items) + 1) = SelectedPositions
    <2>1. \A i \in SelectedPositions : i < Len(input.items) + 1
      BY <1>1, <1>2
    <2> QED
      BY <2>1 DEF SelectedBelow
  <1>7. ASSUME NEW i \in SelectedPositions
        PROVE  Cardinality(SelectedBelow(i + 1)) = Cardinality(SelectedBelow(i)) + 1
    <2>1. \A j \in SelectedPositions : j < i + 1 <=> j < i \/ j = i
      BY <1>1, <1>2
    <2>2. SelectedBelow(i + 1) = SelectedBelow(i) \cup {i}
      BY <1>7, <2>1 DEF SelectedBelow
    <2>3. i \notin SelectedBelow(i)
      BY <1>1, <1>2 DEF SelectedBelow
    <2> QED
      BY <1>3, <2>2, <2>3, FS_AddElement
  <1>8. ASSUME NEW i \in 1..Len(input.items), i \notin SelectedPositions
        PROVE  SelectedBelow(i + 1) = SelectedBelow(i)
    <2>1. \A j \in SelectedPositions : j < i + 1 <=> j < i
      BY <1>1, <1>2, <1>8
    <2> QED
      BY <2>1 DEF SelectedBelow
  <1> QED
    BY <1>4, <1>5, <1>6, <1>7, <1>8

\* A step that neither sends nor receives leaves the channel in order.
LEMMA ChannelStays ==
    ASSUME ReaderInv, StreamOrder, input' = input, entries' = entries, nSent' = nSent,
           pass' \in Nat, pass <= pass'
    PROVE  StreamOrder'
  <1>1. SelectedPositions' = SelectedPositions
    BY DEF SelectedPositions
  <1>2. \A i : SelectedBelow(entries[i])' = SelectedBelow(entries[i])
    BY <1>1 DEF SelectedBelow
  <1>3. \A whole \in 0..pass : whole \in 0..pass'
    BY DEF ReaderInv, StreamTypeOK
  <1> QED
    BY <1>1, <1>2, <1>3 DEF StreamOrder

LEMMA OrderInitInv == ReaderInit => OrderInv
  <1> SUFFICES ASSUME ReaderInit
               PROVE  OrderInv
    OBVIOUS
  <1>1. Cardinality(SelectedPositions) \in Nat
    BY SelectionFacts DEF ReaderInit
  <1>2. SentInv
    BY <1>1 DEF ReaderInit, SentInv, Scanning
  <1>3. 1..Len(entries) = {}
    BY EmptySeq DEF ReaderInit
  <1> QED
    BY <1>2, <1>3 DEF OrderInv, StreamOrder

LEMMA OrderStepInv ==
    ASSUME ReaderInv, ReaderInv', OrderInv,
           StartReader \/ ReaderStep \/ ReceiveEntry, UNCHANGED ctxVars
    PROVE  OrderInv'
  <1> DEFINE count == Cardinality(SelectedPositions)
             below(i) == Cardinality(SelectedBelow(i))
  <1>1. /\ input' = input /\ input \in Inputs /\ Len(input.items) \in Nat
        /\ pos \in Nat \ {0} /\ pass \in Nat /\ nSent \in Nat
        /\ pass' \in Nat /\ entries \in Seq(Nat \ {0})
    BY InputFacts DEF ctxVars, ReaderInv, StreamTypeOK
  <1>2. SelectedPositions' = SelectedPositions /\ count' = count
    BY <1>1 DEF SelectedPositions
  <1>3. SelectedBelow(pos)' = {s \in SelectedPositions : s < pos'}
    BY <1>2 DEF SelectedBelow
  <1>4. count \in Nat /\ \A i \in Nat : below(i) \in Nat
    BY <1>1, SelectionFacts
  <1>5. SentInv /\ StreamOrder
    BY DEF OrderInv
  <1>6. CASE StartReader \/ CompileFilter
    <2>1. /\ entries' = entries /\ nSent' = nSent /\ pass' = pass
          /\ rpc' \in {"compile", "pass", "done"} /\ rpc \in {"idle", "compile"}
      BY <1>6 DEF StartReader, CompileFilter, ReturnRead, chanVars
    <2>2. SentInv'
      BY <1>2, <1>5, <2>1 DEF SentInv, Scanning
    <2> QED
      BY <1>1, <1>5, <2>1, <2>2, ChannelStays DEF OrderInv
  <1>7. CASE StopPass \/ ScanFails \/ DecodeFails \/ SendCancelled
    <2>1. entries' = entries /\ nSent' = nSent /\ pass' = pass /\ rpc' = "done"
      BY <1>7 DEF StopPass, ScanFails, DecodeFails, SendCancelled, ReturnRead
    <2>2. SentInv'
      BY <2>1 DEF SentInv, Scanning
    <2> QED
      BY <1>1, <1>5, <2>1, <2>2, ChannelStays DEF OrderInv
  <1>8. CASE BeginPass
    <2>1. /\ entries' = entries /\ nSent' = nSent /\ pass' = pass + 1
          /\ rpc = "pass" /\ rpc' = "more" /\ pos' = 1
      BY <1>8 DEF BeginPass, chanVars
    <2>2. Cardinality(SelectedBelow(pos))' = 0
      <3>1. SelectedBelow(pos)' = SelectedBelow(1)
        BY <1>3, <2>1 DEF SelectedBelow
      <3> QED
        BY <1>1, <3>1, SelectionFacts
    <2>3. nSent' = (pass' - 1) * count + 0
      BY <1>1, <1>4, <1>5, <2>1 DEF SentInv
    <2>4. SentInv'
      BY <1>1, <1>2, <2>1, <2>2, <2>3 DEF SentInv, Scanning
    <2> QED
      BY <1>1, <1>5, <2>1, <2>4, ChannelStays DEF OrderInv
  <1>9. CASE DecodeEntry
    <2>1. /\ entries' = entries /\ nSent' = nSent /\ pass' = pass
          /\ rpc = "more" /\ rpc' \in {"more", "send"} /\ pos \in 1..Len(input.items)
      BY <1>1, <1>9 DEF DecodeEntry, chanVars
    <2>2. pos' = pos \/ (pos \notin SelectedPositions /\ pos' = pos + 1)
      BY <1>9, <2>1 DEF DecodeEntry, Selected, IsUsable, Matches, SelectedPositions
    <2>3. SelectedBelow(pos)' = SelectedBelow(pos)
      <3>1. CASE pos' = pos
        BY <1>3, <3>1 DEF SelectedBelow
      <3>2. CASE pos \notin SelectedPositions /\ pos' = pos + 1
        <4>1. SelectedBelow(pos)' = SelectedBelow(pos + 1)
          BY <1>3, <3>2 DEF SelectedBelow
        <4> QED
          BY <1>1, <2>1, <3>2, <4>1, SelectionFacts
      <3> QED
        BY <2>2, <3>1, <3>2
    <2>4. SentInv'
      BY <1>2, <1>5, <2>1, <2>3 DEF SentInv, Scanning
    <2> QED
      BY <1>1, <1>5, <2>1, <2>4, ChannelStays DEF OrderInv
  <1>10. CASE SendEntry
    <2>1. /\ entries' = Append(entries, pos) /\ nSent' = nSent + 1 /\ pass' = pass
          /\ rpc = "send" /\ rpc' = "more" /\ pos' = pos + 1
      BY <1>10 DEF SendEntry
    <2>2. pos \in SelectedPositions
      BY <1>1, <2>1 DEF ReaderInv, PassInv, SelectedPositions
    <2>3. pass >= 1 /\ nSent = (pass - 1) * count + below(pos)
      BY <1>5, <2>1 DEF SentInv, Scanning
    <2>4. SentInv'
      <3>1. SelectedBelow(pos)' = SelectedBelow(pos + 1)
        BY <1>3, <2>1 DEF SelectedBelow
      <3>2. Cardinality(SelectedBelow(pos))' = below(pos) + 1
        BY <1>1, <2>2, <3>1, SelectionFacts
      <3>3. below(pos) \in Nat
        BY <1>1, <1>4
      <3>4. pass \in Int /\ count \in Int
        BY <1>1, <1>4
      <3>5. nSent' = (pass - 1) * count + (below(pos) + 1)
        <4> HIDE DEF count, below
        <4> QED
          BY <2>1, <2>3, <3>3, <3>4
      <3> QED
        BY <1>2, <2>1, <2>3, <3>2, <3>5 DEF SentInv, Scanning
    <2>5. StreamOrder'
      <3>1. /\ Len(entries) \in Nat /\ Len(entries') = Len(entries) + 1
            /\ \A i \in 1..Len(entries) : entries'[i] = entries[i]
            /\ entries'[Len(entries) + 1] = pos
        BY <1>1, <2>1, AppendProperties, LenProperties
      <3> SUFFICES ASSUME NEW i \in 1..Len(entries')
                   PROVE  /\ entries'[i] \in SelectedPositions
                          /\ \E whole \in 0..pass :
                                nSent' - Len(entries') + i - 1 =
                                    whole * count + below(entries'[i])
        BY <1>2, <2>1 DEF StreamOrder, SelectedBelow
      <3>2. nSent' - Len(entries') + i - 1 = nSent - Len(entries) + i - 1
        BY <1>1, <2>1, <3>1
      <3>3. CASE i \in 1..Len(entries)
        BY <1>5, <3>1, <3>2, <3>3 DEF StreamOrder
      <3>4. CASE i = Len(entries) + 1
        <4>1. nSent' - Len(entries') + i - 1 = (pass - 1) * count + below(pos)
          BY <1>1, <2>3, <3>1, <3>2, <3>4
        <4>2. pass - 1 \in 0..pass
          BY <1>1, <2>3
        <4> QED
          BY <2>2, <3>1, <3>4, <4>1, <4>2
      <3> QED
        BY <3>1, <3>3, <3>4
    <2> QED
      BY <2>4, <2>5 DEF OrderInv
  <1>11. CASE EndPass
    <2>1. /\ entries' = entries /\ nSent' = nSent /\ pass' = pass
          /\ rpc = "more" /\ rpc' \in {"rewind", "done"} /\ pos > Len(input.items)
      BY <1>11 DEF EndPass, ReturnRead, chanVars
    <2>2. pos = Len(input.items) + 1
      BY <1>1, <2>1 DEF ReaderInv, PassInv, Scanning
    <2>3. below(pos) = count
      BY <1>1, <2>2, SelectionFacts
    <2>4. nSent = pass * count
      <3>1. pass >= 1 /\ nSent = (pass - 1) * count + count
        BY <1>5, <2>1, <2>3 DEF SentInv, Scanning
      <3>2. (pass - 1) * count + count = pass * count
        BY <1>1, <1>4
      <3> QED
        BY <3>1, <3>2
    <2>5. SentInv'
      BY <1>2, <2>1, <2>4 DEF SentInv, Scanning
    <2> QED
      BY <1>1, <1>5, <2>1, <2>5, ChannelStays DEF OrderInv
  <1>12. CASE Rewind
    <2>1. /\ entries' = entries /\ nSent' = nSent /\ pass' = pass
          /\ rpc = "rewind" /\ rpc' \in {"pass", "done"}
      BY <1>12 DEF Rewind, ReturnRead, chanVars
    <2>2. SentInv'
      BY <1>2, <1>5, <2>1 DEF SentInv, Scanning
    <2> QED
      BY <1>1, <1>5, <2>1, <2>2, ChannelStays DEF OrderInv
  <1>13. CASE ReceiveEntry
    <2>1. /\ entries # <<>> /\ entries' = Tail(entries)
          /\ nSent' = nSent /\ pass' = pass /\ rpc' = rpc /\ pos' = pos
      BY <1>13 DEF ReceiveEntry, localVars
    <2>2. SentInv'
      <3>1. SelectedBelow(pos)' = SelectedBelow(pos)
        BY <1>3, <2>1 DEF SelectedBelow
      <3> QED
        BY <1>2, <1>5, <2>1, <3>1 DEF SentInv, Scanning
    <2>3. StreamOrder'
      <3>1. /\ Len(entries) \in Nat \ {0} /\ Len(entries') = Len(entries) - 1
            /\ \A i \in 1..Len(entries') : entries'[i] = entries[i + 1]
        BY <1>1, <2>1, HeadTailProperties, EmptySeq
      <3> SUFFICES ASSUME NEW i \in 1..Len(entries')
                   PROVE  /\ entries'[i] \in SelectedPositions
                          /\ \E whole \in 0..pass :
                                nSent' - Len(entries') + i - 1 =
                                    whole * count + below(entries'[i])
        BY <1>2, <2>1 DEF StreamOrder, SelectedBelow
      <3>2. /\ i + 1 \in 1..Len(entries) /\ entries'[i] = entries[i + 1]
            /\ nSent' - Len(entries') + i - 1 = nSent - Len(entries) + (i + 1) - 1
        BY <1>1, <2>1, <3>1
      <3> QED
        BY <1>5, <3>2 DEF StreamOrder
    <2> QED
      BY <2>2, <2>3 DEF OrderInv
  <1> QED
    BY <1>6, <1>7, <1>8, <1>9, <1>10, <1>11, <1>12, <1>13 DEF ReaderStep

LEMMA OrderStays ==
    ASSUME ReaderInv, OrderInv, Cancel \/ UNCHANGED streamVars
    PROVE  OrderInv'
  <1>1. /\ input' = input /\ entries' = entries /\ nSent' = nSent /\ pass' = pass
        /\ rpc' = rpc /\ pos' = pos
    BY DEF Cancel, streamVars, ctxVars, readerVars, chanVars, localVars
  <1>2. SelectedPositions' = SelectedPositions /\ SelectedBelow(pos)' = SelectedBelow(pos)
    BY <1>1 DEF SelectedPositions, SelectedBelow
  <1>3. SentInv'
    BY <1>1, <1>2 DEF OrderInv, SentInv, Scanning
  <1>4. pass' \in Nat /\ pass <= pass'
    BY <1>1 DEF ReaderInv, StreamTypeOK
  <1> QED
    BY <1>1, <1>3, <1>4, ChannelStays DEF OrderInv

(***************************************************************************)
(* For every document, filter and capacity, however often it is read: what *)
(* comes out of the channel is the selection over and over, in recorded    *)
(* order, with nothing lost or repeated (read.go 62-107).                  *)
(***************************************************************************)
THEOREM StreamIsOrdered == StreamSpec => []StreamOrder
  <1>1. ReaderInit => OrderInv
    BY OrderInitInv
  <1>2. ReaderInv /\ ReaderInv' /\ OrderInv /\ [StreamNext]_streamVars => OrderInv'
    BY OrderStepInv, OrderStays DEF StreamNext, StreamTerminated
  <1> QED
    BY <1>1, <1>2, ReaderInvariant, PTL DEF StreamSpec, OrderInv
-------------------------------------------------------------------------------
(***************************************************************************)
(* Why the reader ends.  Every step of it, every receipt and the end of    *)
(* the context count a number down; only the beginning of a pass counts    *)
(* it up, and that needs a live context.                                   *)
(***************************************************************************)
\* The entries the decoder has yet to yield in this pass.
Left == Len(input.items) + 1 - pos

\* The steps the reader can still make before it begins a pass or ends.  An entry it
\* has yet to send weighs more than one in the channel, and that one more than all a
\* worker of LoadTest can do with it.
ReaderRank ==
    CASE rpc = "idle"    -> 4
      [] rpc = "compile" -> 3
      [] rpc = "pass"    -> 1
      [] rpc = "more"    -> 15 * Left + 3
      [] rpc = "send"    -> 15 * Left + 2
      [] rpc = "rewind"  -> 2
      [] rpc = "done"    -> 0

StreamRank == ReaderRank + 13 * Len(entries) + (IF ctxDone THEN 0 ELSE 1)

LEMMA StreamRankType ==
    ASSUME ReaderInv
    PROVE  /\ ReaderRank \in Nat /\ StreamRank \in Nat
           /\ Scanning => Left \in Nat
           /\ Len(entries) \in Nat
  <1>1. Len(input.items) \in Nat /\ pos \in Nat /\ Len(entries) \in Nat
    BY InputFacts DEF ReaderInv, StreamTypeOK
  <1>2. Scanning => Left \in Nat
    BY <1>1 DEF ReaderInv, PassInv, Left
  <1>3. ReaderRank \in Nat
    BY <1>2 DEF ReaderInv, StreamTypeOK, ReaderRank, Scanning
  <1>4. (IF ctxDone THEN 0 ELSE 1) \in Nat
    OBVIOUS
  <1> QED
    BY <1>1, <1>2, <1>3, <1>4 DEF StreamRank

\* What a step of the reader makes of its own rank and of the channel.
LEMMA ReaderCountsDown ==
    ASSUME ReaderInv, ReaderInv', ReaderStep, ~BeginPass, UNCHANGED ctxVars
    PROVE  ReaderRank' + 13 * Len(entries') < ReaderRank + 13 * Len(entries)
  <1>1. /\ Len(input.items) \in Nat /\ pos \in Nat /\ Len(entries) \in Nat
        /\ input' = input /\ entries \in Seq(Nat \ {0})
    BY InputFacts DEF ReaderInv, StreamTypeOK, ctxVars
  <1>2. /\ Scanning => Left \in Nat
        /\ pos' = pos + 1 => Left' = Left - 1
    <2>1. Len(input.items)' = Len(input.items)
      BY <1>1
    <2>2. ASSUME pos' = pos + 1
          PROVE  Left' = Left - 1
      <3> DEFINE n == Len(input.items)
      <3>1. n \in Nat /\ n' = n /\ pos \in Nat
        BY <1>1, <2>1
      <3>2. Left = n + 1 - pos /\ Left' = n' + 1 - pos'
        BY DEF Left
      <3> HIDE DEF n
      <3> QED
        BY <2>2, <3>1, <3>2
    <2> QED
      BY <2>2, StreamRankType
  <1>3. ASSUME rpc \in {"compile", "pass", "more", "send", "rewind"}, rpc' = "done",
               entries' = entries
        PROVE  ReaderRank' + 13 * Len(entries') < ReaderRank + 13 * Len(entries)
    BY <1>1, <1>2, <1>3 DEF ReaderRank, Scanning
  <1>4. CASE CompileFilter
    BY <1>1, <1>3, <1>4 DEF CompileFilter, ReturnRead, ReaderRank, chanVars
  <1>5. CASE StopPass \/ ScanFails \/ DecodeFails \/ SendCancelled
    BY <1>3, <1>5 DEF StopPass, ScanFails, DecodeFails, SendCancelled, ReturnRead
  <1>6. CASE DecodeEntry
    <2>1. /\ rpc = "more" /\ entries' = entries
          /\ (rpc' = "send" /\ pos' = pos) \/ (rpc' = "more" /\ pos' = pos + 1)
      BY <1>6 DEF DecodeEntry, chanVars
    <2>2. Left \in Nat
      BY <1>2, <2>1 DEF Scanning
    <2>3. ReaderRank = 15 * Left + 3
      BY <2>1 DEF ReaderRank
    <2>4. \/ ReaderRank' = 15 * Left' + 2 /\ Left' = Left
          \/ ReaderRank' = 15 * Left' + 3 /\ Left' = Left - 1
      <3>1. CASE rpc' = "send" /\ pos' = pos
        BY <1>1, <3>1 DEF ReaderRank, Left
      <3>2. CASE rpc' = "more" /\ pos' = pos + 1
        <4>1. Left' = Left - 1
          BY <1>2, <3>2
        <4> QED
          BY <3>2, <4>1 DEF ReaderRank
      <3> QED
        BY <2>1, <3>1, <3>2
    <2> QED
      BY <1>1, <2>1, <2>2, <2>3, <2>4
  <1>7. CASE SendEntry
    <2>1. /\ rpc = "send" /\ rpc' = "more" /\ pos' = pos + 1
          /\ Len(entries') = Len(entries) + 1
      BY <1>1, <1>7, AppendProperties DEF SendEntry
    <2>2. Left \in Nat
      BY <1>2, <2>1 DEF Scanning
    <2>3. Left' = Left - 1
      BY <1>2, <2>1
    <2>4. ReaderRank = 15 * Left + 2 /\ ReaderRank' = 15 * Left' + 3
      BY <2>1 DEF ReaderRank
    <2> QED
      BY <1>1, <2>1, <2>2, <2>3, <2>4
  <1>8. CASE EndPass
    <2>1. rpc = "more" /\ entries' = entries /\ rpc' \in {"done", "rewind"}
      BY <1>8 DEF EndPass, ReturnRead, chanVars
    <2> QED
      BY <1>1, <1>2, <1>3, <2>1 DEF ReaderRank, Scanning
  <1>9. CASE Rewind
    <2>1. rpc = "rewind" /\ entries' = entries /\ rpc' \in {"done", "pass"}
      BY <1>9 DEF Rewind, ReturnRead, chanVars
    <2> QED
      BY <1>1, <1>3, <2>1 DEF ReaderRank
  <1> QED
    BY <1>4, <1>5, <1>6, <1>7, <1>8, <1>9 DEF ReaderStep

LEMMA StreamCountsDown ==
    ASSUME ReaderInv, ReaderInv', StreamNext, ~BeginPass
    PROVE  /\ StreamRank' \in Nat
           /\ StreamRank' < StreamRank \/ UNCHANGED streamVars
  <1> DEFINE live == IF ctxDone THEN 0 ELSE 1
  <1>1. /\ ReaderRank \in Nat /\ ReaderRank' \in Nat
        /\ Len(entries) \in Nat /\ Len(entries') \in Nat
        /\ live \in Nat /\ live' \in Nat
    <2>1. Len(input.items)' \in Nat /\ pos' \in Nat /\ Len(entries') \in Nat
      <3>1. input' \in Inputs /\ pos' \in Nat /\ entries' \in Seq(Nat \ {0})
        BY DEF ReaderInv, StreamTypeOK
      <3> QED
        BY <3>1, InputsAssumption DEF InputType
    <2>2. Scanning' => Left' \in Nat
      BY <2>1 DEF ReaderInv, PassInv, Left
    <2>3. ReaderRank' \in Nat
      BY <2>2, SMTT(30) DEF ReaderInv, StreamTypeOK, ReaderRank, Scanning
    <2> QED
      BY <2>1, <2>3, StreamRankType
  <1>0. StreamRank' \in Nat
    <2>1. StreamRank' = ReaderRank' + 13 * Len(entries') + live'
      BY DEF StreamRank
    <2> HIDE DEF live
    <2> QED
      BY <1>1, <2>1
  <1>2. CASE StartReader /\ UNCHANGED ctxVars
    <2>1. ReaderRank = 4 /\ ReaderRank' = 3 /\ entries' = entries
      BY <1>2 DEF StartReader, ReaderRank, chanVars
    <2>2. live' = live
      BY <1>2 DEF ctxVars
    <2> HIDE DEF live
    <2> QED
      BY <1>1, <2>1, <2>2 DEF StreamRank, live
  <1>3. CASE ReaderStep /\ UNCHANGED ctxVars
    <2>1. live' = live
      BY <1>3 DEF ctxVars
    <2>2. ReaderRank' + 13 * Len(entries') < ReaderRank + 13 * Len(entries)
      BY <1>3, ReaderCountsDown
    <2>3. StreamRank = ReaderRank + 13 * Len(entries) + live
          /\ StreamRank' = ReaderRank' + 13 * Len(entries') + live'
      BY DEF StreamRank
    <2> HIDE DEF live
    <2> QED
      BY <1>1, <2>1, <2>2, <2>3
  <1>4. CASE ReceiveEntry /\ UNCHANGED ctxVars
    <2>1. /\ ReaderRank' = ReaderRank
      BY <1>4 DEF ReceiveEntry, localVars, ctxVars, ReaderRank, Left
    <2>2. Len(entries') = Len(entries) - 1
      BY <1>4, HeadTailProperties DEF ReceiveEntry, ReaderInv, StreamTypeOK
    <2>3. live' = live
      BY <1>4 DEF ctxVars
    <2>4. StreamRank = ReaderRank + 13 * Len(entries) + live
          /\ StreamRank' = ReaderRank' + 13 * Len(entries') + live'
      BY DEF StreamRank
    <2> HIDE DEF live
    <2> QED
      BY <1>1, <2>1, <2>2, <2>3, <2>4
  <1>5. CASE Cancel
    <2>1. ReaderRank' = ReaderRank /\ entries' = entries
      BY <1>5 DEF Cancel, readerVars, chanVars, localVars, ReaderRank, Left
    <2>2. live = 1 /\ live' = 0
      BY <1>5 DEF Cancel
    <2>3. StreamRank = ReaderRank + 13 * Len(entries) + live
          /\ StreamRank' = ReaderRank' + 13 * Len(entries') + live'
      BY DEF StreamRank
    <2> HIDE DEF live
    <2> QED
      BY <1>1, <2>1, <2>2, <2>3
  <1>6. CASE StreamTerminated
    BY <1>0, <1>6 DEF StreamTerminated
  <1> QED
    BY <1>0, <1>2, <1>3, <1>4, <1>5, <1>6 DEF StreamNext

LEMMA ReceiptCountsDown ==
    ASSUME ReaderInv, ReceiveEntry, UNCHANGED ctxVars
    PROVE  StreamRank' = StreamRank - 13
  <1> DEFINE live == IF ctxDone THEN 0 ELSE 1
  <1>1. ReaderRank' = ReaderRank /\ live' = live
    BY DEF ReceiveEntry, localVars, ctxVars, ReaderRank, Left
  <1>2. Len(entries') = Len(entries) - 1
    BY HeadTailProperties DEF ReceiveEntry, ReaderInv, StreamTypeOK
  <1>3. ReaderRank \in Nat /\ Len(entries) \in Nat /\ live \in Nat
    BY StreamRankType
  <1>4. /\ StreamRank = ReaderRank + 13 * Len(entries) + live
        /\ StreamRank' = ReaderRank' + 13 * Len(entries') + live'
    BY DEF StreamRank
  <1> HIDE DEF live
  <1> QED
    BY <1>1, <1>2, <1>3, <1>4

\* After the context has ended no step of the reader, and no receipt, but counts a
\* natural number down, and before that only the beginning of a further pass does not:
\* the reader cannot go round in a pass, and cannot begin one once cancelled (read.go
\* 40-116).  This is what CancelEndsReader rests on, without the fairness.
THEOREM ReaderCannotLinger ==
    StreamSpec => [][ /\ StreamRank \in Nat
                      /\ BeginPass => ~ctxDone
                      /\ ~BeginPass => StreamRank' < StreamRank ]_streamVars
  <1>1. ReaderInv /\ ReaderInv' /\ [StreamNext]_streamVars =>
            [ /\ StreamRank \in Nat
              /\ BeginPass => ~ctxDone
              /\ ~BeginPass => StreamRank' < StreamRank ]_streamVars
    <2> SUFFICES ASSUME ReaderInv, ReaderInv', StreamNext, ~UNCHANGED streamVars
                 PROVE  /\ StreamRank \in Nat
                        /\ BeginPass => ~ctxDone
                        /\ ~BeginPass => StreamRank' < StreamRank
      OBVIOUS
    <2>1. BeginPass => ~ctxDone
      BY DEF BeginPass, PassCancelled
    <2> QED
      BY <2>1, StreamRankType, StreamCountsDown
  <1> QED
    BY <1>1, ReaderInvariant, PTL DEF StreamSpec

\* A document with nothing to send is read at most once, and never rewound.
OnceInv ==
    AllReject(input.items) =>
        /\ pass <= 1 /\ rpc # "rewind"
        /\ rpc \in {"idle", "compile", "pass"} => pass = 0

\* A document none of whose entries can be sent is read once: with nothing in it for a
\* load test the reader does not read it over and over (read.go 91-100).  With the
\* theorem above this is what NothingToSendEnds rests on.
THEOREM NothingToSendIsReadOnce ==
    StreamSpec => [](AllReject(input.items) => pass <= 1)
  <1>1. ReaderInit => OnceInv
    BY DEF ReaderInit, OnceInv
  <1>2. ReaderInv /\ ReaderInv' /\ OnceInv /\ [StreamNext]_streamVars => OnceInv'
    <2> SUFFICES ASSUME ReaderInv, ReaderInv', OnceInv, [StreamNext]_streamVars,
                        AllReject(input.items)'
                 PROVE  /\ pass' <= 1 /\ rpc' # "rewind"
                        /\ rpc' \in {"idle", "compile", "pass"} => pass' = 0
      BY DEF OnceInv
    <2>1. input' = input
      BY DEF StreamNext, ctxVars, Cancel, StreamTerminated, streamVars
    <2>2. AllReject(input.items)
      BY <2>1
    <2>3. /\ pass <= 1 /\ rpc # "rewind" /\ rpc' # "rewind"
          /\ rpc \in {"idle", "compile", "pass"} => pass = 0
      BY <2>2 DEF OnceInv, ReaderInv, RunInv, StreamTypeOK
    <2>4. CASE UNCHANGED streamVars \/ Cancel \/ StreamTerminated \/ ReceiveEntry
      BY <2>3, <2>4 DEF streamVars, readerVars, localVars, Cancel, StreamTerminated,
         ReceiveEntry
    <2>5. CASE StartReader
      BY <2>3, <2>5 DEF StartReader
    <2>6. CASE ReaderStep
      BY <2>3, <2>6 DEF ReaderStep, CompileFilter, StopPass, ScanFails, BeginPass,
         DecodeEntry, DecodeFails, SendEntry, SendCancelled, EndPass, Rewind, ReturnRead
    <2> QED
      BY <2>4, <2>5, <2>6 DEF StreamNext
  <1>3. OnceInv => (AllReject(input.items) => pass <= 1)
    BY DEF OnceInv
  <1> QED
    BY <1>1, <1>2, <1>3, ReaderInvariant, PTL DEF StreamSpec
===============================================================================
