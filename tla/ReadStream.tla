------------------------------ MODULE ReadStream ------------------------------
(***************************************************************************)
(* ReadStream (read.go): the goroutine that decodes the entries of a HAR   *)
(* document, sends the selected ones on the bounded channel `entries', and *)
(* starts again from the top each time it reaches the end.                 *)
(*                                                                         *)
(* A document is abstracted to what the reader can tell apart: whether the *)
(* JSON leads to an entries array (head), what each entry is (items), how  *)
(* the text ends (tail) and whether the io.ReadSeeker can be rewound.  The *)
(* entry sent on the channel is its position in the document.              *)
(***************************************************************************)
EXTENDS Naturals, Sequences, FiniteSets

CONSTANTS
    Inputs,     \* the documents and filters the reader may be started with
    Capacity,   \* the capacity of the entries channel
    MaxPasses   \* bound of the model: how often the document is read

\* What an entry can be.  "good" and "ws" differ only for the worker that replays
\* them, and so does "unbuildable", from which no http.Request can be made.
Kinds == {"good", "ws", "unbuildable", "filtered", "nourl"}

\* "closed": a complete document; "cut": the text ends right after an entry;
\* "garbage": what follows the last whole entry is not an Entry.
Tails == {"closed", "cut", "garbage"}

InputType == [ regexpOK : BOOLEAN,  head  : {"ok", "bad"}, items : Seq(Kinds),
               tail     : Tails,    rewinds : BOOLEAN ]

ASSUME InputsAssumption == Inputs \subseteq InputType
ASSUME CapacityAssumption == Capacity \in Nat \ {0}
ASSUME PassesAssumption == MaxPasses \in Nat \ {0}

VARIABLES
    input,          \* the document and filter of this run; never changes
    ctxDone,        \* the context is cancelled or its deadline has passed
    entries,        \* the contents of the entries channel
    entriesClosed,
    rpc,            \* where the reader goroutine is
    pos,            \* the next entry the decoder yields in this pass
    usable, sent,   \* the two counters of the pass
    readErr,        \* what ReadStream returned
    pass,           \* history: number of passes begun
    nSent           \* history: entries sent since the start

ctxVars    == <<input, ctxDone>>
chanVars   == <<entries, entriesClosed>>
localVars  == <<rpc, pos, usable, sent, readErr, pass>>
readerVars == <<chanVars, localVars, nSent>>
streamVars == <<ctxVars, readerVars>>

ReadErrors == {"nil", "regexp", "undecodable", "unselected", "rewind", "ctx"}

IsUsable(kind) == kind # "nourl"

\* Mutant: the filter is left to the consumer.
MatchesAll(kind) == TRUE
Matches(kind) == kind # "filtered"
Selected(kind) == IsUsable(kind) /\ Matches(kind)

ReaderInit ==
    /\ input \in Inputs
    /\ ctxDone = FALSE
    /\ entries = <<>> /\ entriesClosed = FALSE
    /\ rpc = "idle"
    /\ pos = 1 /\ usable = 0 /\ sent = 0
    /\ readErr = "nil"
    /\ pass = 0 /\ nSent = 0

(***************************************************************************)
(* Returning always closes the channel: `defer close(entries)'.            *)
(***************************************************************************)
\* Mutant: the channel is left open.
ReturnUnclosed(err) ==
    /\ readErr' = err
    /\ rpc' = "done"
    /\ UNCHANGED <<chanVars, pos, usable, sent, pass, nSent>>
ReturnRead(err) ==
    /\ readErr' = err
    /\ rpc' = "done"
    /\ entriesClosed' = TRUE
    /\ UNCHANGED <<entries, pos, usable, sent, pass, nSent>>

\* The `go' statement, or the caller's call of ReadStream.
StartReader ==
    /\ rpc = "idle"
    /\ rpc' = "compile"
    /\ UNCHANGED <<chanVars, pos, usable, sent, readErr, pass, nSent>>

CompileFilter ==
    /\ rpc = "compile"
    /\ IF input.regexpOK
       THEN /\ rpc' = "pass"
            /\ UNCHANGED <<chanVars, pos, usable, sent, readErr, pass, nSent>>
       ELSE ReturnRead("regexp")

\* What the per-pass check of the context decides.
PassCancelled == ctxDone

(***************************************************************************)
(* The top of the outer loop: the context is checked once per pass, then   *)
(* the decoder is taken to the opening bracket of the entries array.       *)
(***************************************************************************)
StopPass ==
    /\ rpc = "pass"
    /\ PassCancelled
    /\ ReturnRead("ctx")

ScanFails ==
    /\ rpc = "pass"
    /\ ~PassCancelled
    /\ input.head = "bad"
    /\ ReturnRead("undecodable")

BeginPass ==
    /\ rpc = "pass"
    /\ ~PassCancelled
    /\ input.head = "ok"
    /\ pos' = 1 /\ usable' = 0 /\ sent' = 0
    /\ pass' = pass + 1
    /\ rpc' = "more"
    /\ UNCHANGED <<chanVars, readErr, nSent>>

(***************************************************************************)
(* One turn of `for decoder.More()' up to the send: an entry without a URL *)
(* is skipped, one the filter rejects is counted and skipped.              *)
(***************************************************************************)
DecodeEntry ==
    /\ rpc = "more"
    /\ pos <= Len(input.items)
    /\ LET kind == input.items[pos] IN
         /\ usable' = usable + (IF IsUsable(kind) THEN 1 ELSE 0)
         /\ IF Selected(kind)
            THEN rpc' = "send" /\ pos' = pos
            ELSE rpc' = "more" /\ pos' = pos + 1
    /\ UNCHANGED <<chanVars, sent, readErr, pass, nSent>>

DecodeFails ==
    /\ rpc = "more"
    /\ pos > Len(input.items)
    /\ input.tail = "garbage"
    /\ ReturnRead("undecodable")

\* The send case of the select: it is ready while the channel has room.
SendEntry ==
    /\ rpc = "send"
    /\ Len(entries) < Capacity
    /\ entries' = Append(entries, pos)
    /\ nSent' = nSent + 1
    /\ sent' = sent + 1
    /\ pos' = pos + 1
    /\ rpc' = "more"
    /\ UNCHANGED <<entriesClosed, usable, readErr, pass>>

\* Mutant: a plain send, which nothing interrupts.
PlainSend == FALSE /\ UNCHANGED readerVars

\* The other case of the same select; Go picks either when both are ready.
SendCancelled ==
    /\ rpc = "send"
    /\ ctxDone
    /\ ReturnRead("ctx")

\* Mutant: a pass counts as empty only when it found no entry with a URL.
PassFoundNothing == usable = 0

\* A pass is worth repeating only if it sent something.
PassIsEmpty == sent = 0

\* Mutant: a filter that selects nothing looks like a HAR with nothing in it.
EmptyPassIsNil == "nil"

\* What a pass that sent nothing returns.
EmptyPassError == IF usable > 0 THEN "unselected" ELSE "nil"

\* The end of the array, or of the text: More reports false for either.
EndPass ==
    /\ rpc = "more"
    /\ pos > Len(input.items)
    /\ input.tail # "garbage"
    /\ IF PassIsEmpty
       THEN ReturnRead(EmptyPassError)
       ELSE /\ rpc' = "rewind"
            /\ UNCHANGED <<chanVars, pos, usable, sent, readErr, pass, nSent>>

\* r.Seek.  The guard on the number of passes is the model's bound; once the
\* context is done the reader goes on to the check that ends it.
Rewind ==
    /\ rpc = "rewind"
    /\ IF input.rewinds
       THEN /\ pass < MaxPasses \/ ctxDone
            /\ rpc' = "pass"
            /\ UNCHANGED <<chanVars, pos, usable, sent, readErr, pass, nSent>>
       ELSE ReturnRead("rewind")

ReaderStep ==
    \/ CompileFilter
    \/ StopPass \/ ScanFails \/ BeginPass
    \/ DecodeEntry \/ DecodeFails
    \/ SendEntry \/ SendCancelled
    \/ EndPass \/ Rewind

(***************************************************************************)
(* The environment: the context ends at any time, and whoever holds the    *)
(* other end of the channel may or may not receive.                        *)
(***************************************************************************)
Cancel ==
    /\ ~ctxDone
    /\ ctxDone' = TRUE
    /\ UNCHANGED <<input, readerVars>>

ReceiveEntry ==
    /\ entries # <<>>
    /\ entries' = Tail(entries)
    /\ UNCHANGED <<entriesClosed, localVars, nSent>>

\* The goroutine has returned; nothing more need happen.
StreamTerminated == rpc = "done" /\ UNCHANGED streamVars

StreamNext ==
    \/ (StartReader \/ ReaderStep \/ ReceiveEntry) /\ UNCHANGED ctxVars
    \/ Cancel
    \/ StreamTerminated

\* The goroutine runs whenever it can; nobody has to receive, nobody has to cancel.
StreamSpec ==
    /\ ReaderInit /\ [][StreamNext]_streamVars
    /\ WF_streamVars(StartReader /\ UNCHANGED ctxVars)
    /\ WF_streamVars(ReaderStep /\ UNCHANGED ctxVars)

-------------------------------------------------------------------------------
StreamTypeOK ==
    /\ input \in Inputs
    /\ ctxDone \in BOOLEAN
    /\ entries \in Seq(Nat \ {0}) /\ Len(entries) <= Capacity
    /\ entriesClosed \in BOOLEAN
    /\ rpc \in {"idle", "compile", "pass", "more", "send", "rewind", "done"}
    /\ pos \in Nat \ {0} /\ usable \in Nat /\ sent \in Nat
    /\ readErr \in ReadErrors
    /\ pass \in Nat /\ nSent \in Nat

\* The positions of the entries that ought to be replayed: those with a URL that the
\* filter does not reject.
SelectedPositions ==
    {i \in 1..Len(input.items) : input.items[i] \notin {"nourl", "filtered"}}

SelectedBelow(i) == {s \in SelectedPositions : s < i}

\* The stream is the recording's selected entries over and over, in recorded
\* order: whatever was dropped, skipped or rewound in between, every entry in the
\* channel was sent after some number of whole selections and the selected entries
\* before it, no more and no fewer (read.go 62-107).
StreamOrder ==
    \A i \in 1..Len(entries) :
        /\ entries[i] \in SelectedPositions
        /\ \E whole \in 0..pass :
              nSent - Len(entries) + i - 1 =
                  whole * Cardinality(SelectedPositions)
                    + Cardinality(SelectedBelow(entries[i]))

IsEmpty(items)   == \A i \in DOMAIN items : items[i] = "nourl"
AllReject(items) == \A i \in DOMAIN items : items[i] \in {"nourl", "filtered"}

\* The verdict says what happened: nil only for a document with nothing in it, a
\* filter error only when the filter rejected everything there was, a decode error
\* only for a document that is broken, and the context's error only when it ended
\* (read.go 25-28).
VerdictSound ==
    rpc = "done" =>
        /\ readErr = "nil"         => IsEmpty(input.items) /\ nSent = 0
        /\ readErr = "unselected"  => AllReject(input.items) /\ ~IsEmpty(input.items)
        /\ readErr = "undecodable" => input.head = "bad" \/ input.tail = "garbage"
        /\ readErr = "regexp"      => ~input.regexpOK /\ nSent = 0
        /\ readErr = "rewind"      => ~input.rewinds /\ nSent > 0
        /\ readErr = "ctx"         => ctxDone

\* Cancelling ends the reader although nobody receives any more: the send is a
\* select, and the outer loop looks at the context (read.go 41-46, 81-88).
CancelEndsReader == ctxDone /\ rpc # "idle" ~> rpc = "done"

\* A document with nothing to send ends by itself, with nobody cancelling, rather
\* than being read over and over (read.go 91-100).
NothingToSendEnds ==
    (rpc # "idle" /\ AllReject(input.items)) ~> rpc = "done"

\* A document that ends in the middle is reported as one that cannot be decoded
\* (read.go 25-27); the code takes the end of the text for the end of the array.
CutDocumentReported ==
    input.tail = "cut" => (pass <= 1 /\ (rpc = "done" => readErr # "nil"))
===============================================================================
