---------------------------- MODULE CommandsProofs ----------------------------
(***************************************************************************)
(* Proofs about Commands, for documents of any length with any filter.     *)
(***************************************************************************)
EXTENDS Commands, SortingProofs, SequenceTheorems, TLAPS

(***************************************************************************)
(* The document and the chunks of its rendering.                           *)
(***************************************************************************)
InputInv ==
    /\ doc \in DocumentType /\ filter \in FilterType
    /\ command \in {"validate"} \cup Conversions
    /\ sink \in {"caller", "stdout", "file"}
    /\ command = "validate" => sink = "stdout"
    /\ sink # "file" => before = <<>>

\* Where the rendering is, and what it has rendered so far.
RenderInv ==
    /\ pc \in {"open", "validate", "compile", "decode", "heading", "entry", "create",
               "copy", "ended", "killed"}
    /\ cur \in 1..(Len(Entries) + 1)
    /\ rendered \in Seq(Int) /\ ewErr \in BOOLEAN
    /\ ewErr => sink = "caller"
    /\ pc \in {"open", "validate", "create", "copy"} => sink # "caller"
    /\ pc \in {"create", "copy"} => Lists(rendered, Chunks) /\ command \in Conversions
    /\ pc = "create" => sink = "file"
    /\ pc \in {"open", "validate", "compile", "decode", "heading"} =>
          cur = 1 /\ rendered = <<>> /\ ~ewErr
    /\ pc = "heading" => command = "dump"
    /\ pc = "entry" /\ ~ewErr => Lists(rendered, Before(cur))
    /\ pc = "validate" => command = "validate"
    /\ pc \in {"compile", "decode", "entry"} => command \in Conversions

\* A writer that has failed got a beginning, with the last chunk missing or in part.
BrokenInv ==
    ewErr => \E chunk \in Chunks :
                \/ Lists(rendered, Before(chunk))
                \/ /\ rendered # <<>> /\ Lists(Front(rendered), Before(chunk))
                   /\ Last(rendered) = Part(chunk)

\* The file is left alone until the rendering is complete.
OutputInv ==
    /\ pc \notin {"copy", "ended", "killed"} => output = before
    /\ pc = "copy" => IsPrefix(output, rendered) /\ output \in Seq(Int)
    /\ sink # "caller" =>
          output = before \/ (Lists(rendered, Chunks) /\ IsPrefix(output, rendered))

StatusInv ==
    /\ status \in {-1, 0, 1, 254}
    /\ pc # "ended" => status = -1
    /\ sink # "caller" /\ command \in Conversions /\ status = 0 => Lists(output, Chunks)
    /\ sink = "caller" /\ pc = "ended" /\ ~ewErr =>
          \/ status = 0 /\ Lists(rendered, Chunks)
          \/ status = 1 /\ rendered = <<>>
    /\ sink = "caller" => pc # "killed" /\ (status = 0 => ~ewErr)

CommandsInv == InputInv /\ RenderInv /\ BrokenInv /\ OutputInv /\ StatusInv

LEMMA EntriesTyped ==
  ASSUME InputInv
  PROVE  /\ Entries \in Seq(EntryType) /\ Len(Entries) \in Nat
         /\ DOMAIN Entries = 1..Len(Entries)
         /\ Chunks \subseteq 0..Len(Entries)
  <1>1. Entries \in Seq(EntryType)
    <2>1. CASE doc.log /\ doc.entries # <<>>
      <3>1. doc.entries \in Seq(Seq(EntryType))
        BY DEF InputInv, DocumentType
      <3>2. doc.entries[1] \in Seq(EntryType)
        BY <2>1, <3>1
      <3> QED
        BY <2>1, <3>2 DEF Entries
    <2>2. CASE ~(doc.log /\ doc.entries # <<>>)
      BY <2>2 DEF Entries
    <2> QED
      BY <2>1, <2>2
  <1>2. Len(Entries) \in Nat /\ DOMAIN Entries = 1..Len(Entries)
    BY <1>1, LenProperties
  <1>3. Chunks \subseteq 0..Len(Entries)
    BY <1>2 DEF Chunks
  <1> QED
    BY <1>1, <1>2, <1>3

\* What Match decides is what the options ask for.
LEMMA MatchIsWanted ==
  ASSUME InputInv, NEW entry \in EntryType
  PROVE  Match(filter, entry) <=> Wanted(entry)
  BY DEF InputInv, FilterType, EntryType, Methods, Match, Wanted, MatchesAnyMethod, Fold, Empty

LEMMA ListsOneMore ==
  ASSUME NEW seq \in Seq(Int), NEW S, NEW c \in Int, Lists(seq, S), \A d \in S : d < c
  PROVE  Lists(Append(seq, c), S \cup {c})
  <1>1. /\ Append(seq, c) \in Seq(Int) /\ Len(Append(seq, c)) = Len(seq) + 1
        /\ DOMAIN seq = 1..Len(seq) /\ Len(seq) \in Nat
        /\ DOMAIN Append(seq, c) = 1..(Len(seq) + 1)
        /\ \A i \in 1..Len(seq) : Append(seq, c)[i] = seq[i]
        /\ Append(seq, c)[Len(seq) + 1] = c
    BY AppendProperties, LenProperties
  <1>2. \A i \in 1..(Len(seq) + 1) : i \in 1..Len(seq) \/ i = Len(seq) + 1
    BY <1>1
  <1>3. \A i \in DOMAIN seq : seq[i] \in S
    BY DEF Lists, Range
  <1>4. Range(Append(seq, c)) = S \cup {c}
    <2>1. Range(Append(seq, c)) \subseteq S \cup {c}
      BY <1>1, <1>2, <1>3 DEF Range
    <2>2. S \subseteq Range(Append(seq, c))
      <3> SUFFICES ASSUME NEW d \in S PROVE d \in Range(Append(seq, c))
        OBVIOUS
      <3>1. PICK i \in DOMAIN seq : seq[i] = d
        BY DEF Lists, Range
      <3>2. i \in 1..(Len(seq) + 1)
        BY <1>1
      <3> QED
        BY <1>1, <3>1, <3>2 DEF Range
    <2>3. c \in Range(Append(seq, c))
      <3>1. Len(seq) + 1 \in 1..(Len(seq) + 1)
        BY <1>1
      <3> QED
        BY <1>1, <3>1 DEF Range
    <2> QED
      BY <2>1, <2>2, <2>3
  <1>5. ASSUME NEW i \in 1..(Len(seq) + 1), NEW j \in 1..(Len(seq) + 1), i < j
        PROVE  Append(seq, c)[i] < Append(seq, c)[j]
    <2>1. i \in 1..Len(seq)
      BY <1>1, <1>5
    <2>2. CASE j \in 1..Len(seq)
      BY <1>1, <1>5, <2>1, <2>2 DEF Lists
    <2>3. CASE j = Len(seq) + 1
      BY <1>1, <1>3, <2>1, <2>3
    <2> QED
      BY <1>2, <2>2, <2>3
  <1> QED
    BY <1>1, <1>4, <1>5 DEF Lists

\* The sets of chunks the rendering goes through.
LEMMA BeforeFacts ==
  ASSUME InputInv
  PROVE  /\ command # "dump" => Before(1) = {}
         /\ command = "dump" => 0 \in Chunks /\ Before(1) = {0} /\ Before(0) = {}
         /\ Before(Len(Entries) + 1) = Chunks
         /\ \A k \in DOMAIN Entries :
               Before(k + 1) = IF k \in Chunks THEN Before(k) \cup {k} ELSE Before(k)
         /\ \A k \in DOMAIN Entries : k \in Chunks <=> Match(filter, Entries[k])
  <1>1. /\ Entries \in Seq(EntryType) /\ Len(Entries) \in Nat
        /\ DOMAIN Entries = 1..Len(Entries) /\ Chunks \subseteq 0..Len(Entries)
    BY EntriesTyped
  <1>2. command # "dump" => Before(1) = {}
    BY <1>1 DEF Before, Chunks
  <1>3. command = "dump" => 0 \in Chunks /\ Before(1) = {0} /\ Before(0) = {}
    BY <1>1 DEF Before, Chunks
  <1>c. \A chunk \in Chunks : chunk \in Int /\ chunk < Len(Entries) + 1
    BY <1>1
  <1>4. Before(Len(Entries) + 1) = Chunks
    BY <1>c DEF Before
  <1>5. ASSUME NEW k \in DOMAIN Entries
        PROVE  Before(k + 1) = IF k \in Chunks THEN Before(k) \cup {k} ELSE Before(k)
    <2>1. k \in Int
      BY <1>1
    <2>2. \A chunk \in Chunks : chunk < k + 1 <=> chunk < k \/ chunk = k
      BY <1>c, <2>1
    <2>3. ~(k < k)
      BY <2>1
    <2> QED
      BY <2>2, <2>3 DEF Before
  <1>6. ASSUME NEW k \in DOMAIN Entries
        PROVE  k \in Chunks <=> Match(filter, Entries[k])
    <2>1. Entries[k] \in EntryType /\ k # 0
      BY <1>1, ElementOfSeq
    <2>2. Match(filter, Entries[k]) <=> Wanted(Entries[k])
      BY <2>1, MatchIsWanted
    <2> QED
      BY <2>1, <2>2 DEF Chunks
  <1> QED
    BY <1>2, <1>3, <1>4, <1>5, <1>6

LEMMA FrontOfAppend ==
  ASSUME NEW seq \in Seq(Int), NEW c \in Int
  PROVE  /\ Append(seq, c) # <<>>
         /\ Front(Append(seq, c)) = seq
         /\ Last(Append(seq, c)) = c
  <1>1. /\ Append(seq, c) \in Seq(Int) /\ Append(seq, c) # <<>>
        /\ Len(Append(seq, c)) = Len(seq) + 1 /\ Len(seq) \in Nat
        /\ \A i \in 1..Len(seq) : Append(seq, c)[i] = seq[i]
        /\ Append(seq, c)[Len(seq) + 1] = c
    BY AppendProperties, LenProperties
  <1> DEFINE front == SubSeq(Append(seq, c), 1, Len(seq))
  <1>2. \A i \in 1..Len(seq) : Append(seq, c)[i] \in Int
    BY <1>1, ElementOfSeq
  <1>3. /\ front \in Seq(Int)
        /\ Len(front) = IF 1 <= Len(seq) THEN Len(seq) - 1 + 1 ELSE 0
        /\ \A i \in 1..(Len(seq) - 1 + 1) : front[i] = Append(seq, c)[1 + i - 1]
    BY <1>1, <1>2, SubSeqProperties
  <1>4. front = seq
    BY <1>1, <1>3, SeqEqual
  <1> QED
    BY <1>1, <1>4 DEF Front, Last

LEMMA PrefixByPlace ==
  ASSUME NEW s \in Seq(Int), NEW t \in Seq(Int)
  PROVE  IsPrefix(s, t) <=> Len(s) <= Len(t) /\ \A i \in 1..Len(s) : s[i] = t[i]
  <1>1. Len(s) \in Nat /\ Len(t) \in Nat
    BY LenProperties
  <1>2. SubSeq(s, 1, Len(s)) = s
    BY SubSeqFull
  <1> QED
    BY <1>1, <1>2, SMTT(30) DEF IsPrefix

LEMMA PrefixFacts ==
  ASSUME NEW s \in Seq(Int), NEW t \in Seq(Int)
  PROVE  /\ IsPrefix(<<>>, t)
         /\ IsPrefix(s, t) /\ Len(s) = Len(t) => s = t
         /\ IsPrefix(s, t) /\ Len(s) < Len(t) =>
               /\ Append(s, t[Len(s) + 1]) \in Seq(Int)
               /\ IsPrefix(Append(s, t[Len(s) + 1]), t)
  <1>1. Len(s) \in Nat /\ Len(t) \in Nat /\ <<>> \in Seq(Int) /\ Len(<<>>) = 0
    BY LenProperties, EmptySeq
  <1>2. IsPrefix(<<>>, t)
    <2>1. SubSeq(<<>>, 1, 0) = <<>> /\ SubSeq(t, 1, 0) = <<>>
      BY SubSeqEmpty
    <2> QED
      BY <1>1, <2>1 DEF IsPrefix
  <1>3. ASSUME IsPrefix(s, t), Len(s) = Len(t)
        PROVE  s = t
    BY <1>1, <1>3, PrefixByPlace, SeqEqual
  <1>4. ASSUME IsPrefix(s, t), Len(s) < Len(t)
        PROVE  /\ Append(s, t[Len(s) + 1]) \in Seq(Int)
               /\ IsPrefix(Append(s, t[Len(s) + 1]), t)
    <2> DEFINE c == t[Len(s) + 1]
    <2>1. c \in Int
      BY <1>1, <1>4, ElementOfSeq
    <2>2. /\ Append(s, c) \in Seq(Int) /\ Len(Append(s, c)) = Len(s) + 1
          /\ \A i \in 1..Len(s) : Append(s, c)[i] = s[i]
          /\ Append(s, c)[Len(s) + 1] = c
      BY <2>1, AppendProperties
    <2>3. \A i \in 1..(Len(s) + 1) : Append(s, c)[i] = t[i]
      BY <1>1, <1>4, <2>2, PrefixByPlace
    <2>4. IsPrefix(Append(s, c), t) <=>
            /\ Len(Append(s, c)) <= Len(t)
            /\ \A i \in 1..Len(Append(s, c)) : Append(s, c)[i] = t[i]
      BY <2>2, PrefixByPlace
    <2>5. Len(s) + 1 <= Len(t)
      BY <1>1, <1>4
    <2> QED
      BY <2>2, <2>3, <2>4, <2>5
  <1> QED
    BY <1>2, <1>3, <1>4

\* No step changes the document, the filter or the destination.
LEMMA InputsKept ==
  ASSUME InputInv, UNCHANGED inputs
  PROVE  /\ InputInv' /\ Entries' = Entries /\ Chunks' = Chunks
         /\ \A n \in Int : Before(n)' = Before(n)
  <1>1. InputInv' /\ Entries' = Entries
    BY DEF inputs, InputInv, Entries
  <1>2. Chunks' = Chunks
    BY <1>1 DEF inputs, Chunks, Wanted
  <1>3. \A n \in Int : Before(n)' = Before(n)
    BY <1>2 DEF Before
  <1> QED
    BY <1>1, <1>2, <1>3

\* The empty rendering lists nothing.
LEMMA NothingListed == <<>> \in Seq(Int) /\ Lists(<<>>, {})
  <1>1. <<>> \in Seq(Int) /\ DOMAIN <<>> = {}
    BY EmptySeq
  <1> QED
    BY <1>1 DEF Lists, Range

LEMMA InitHolds ==
  ASSUME Init
  PROVE  CommandsInv
  <1>1. InputInv
    <2>1. PICK call \in Calls : doc = call.doc /\ filter = call.filter
      BY DEF Init
    <2>2. doc \in DocumentType /\ filter \in FilterType
      BY <2>1, CallsAssumption DEF CallType
    <2> QED
      BY <2>2 DEF Init, InputInv
  <1>2. Len(Entries) \in Nat
    BY <1>1, EntriesTyped
  <1>3. /\ pc = (IF sink = "caller" THEN "compile" ELSE "open") /\ cur = 1
        /\ rendered = <<>> /\ ewErr = FALSE
        /\ sink = "caller" => command \in Conversions
    BY DEF Init, Conversions
  <1>4. RenderInv
    <2>1. cur \in 1..(Len(Entries) + 1)
      BY <1>2, <1>3
    <2>2. rendered \in Seq(Int) /\ ewErr \in BOOLEAN
      BY <1>3, NothingListed
    <2> QED
      BY <1>3, <2>1, <2>2 DEF RenderInv
  <1>5. BrokenInv /\ OutputInv /\ StatusInv
    BY DEF Init, BrokenInv, OutputInv, StatusInv
  <1> QED
    BY <1>1, <1>4, <1>5 DEF CommandsInv

\* Writing the next chunk: it arrives, or the writer fails for good.
LEMMA EmitAddsOne ==
  ASSUME InputInv, BrokenInv, rendered \in Seq(Int), ewErr \in BOOLEAN,
         UNCHANGED inputs, ewErr => sink = "caller",
         NEW c \in Chunks, ~ewErr => Lists(rendered, Before(c)), Emit(c)
  PROVE  /\ rendered' \in Seq(Int) /\ ewErr' \in BOOLEAN
         /\ ewErr' => sink = "caller"
         /\ ~ewErr' => Lists(rendered', Before(c) \cup {c})
         /\ BrokenInv'
  <1>1. /\ Chunks' = Chunks /\ \A n \in Int : Before(n)' = Before(n)
        /\ Chunks \subseteq Int
    BY InputsKept, EntriesTyped
  <1>2. c \in Int /\ Part(c) \in Int
    BY <1>1 DEF Part
  <1>3. CASE ewErr
    <2>1. rendered' = rendered /\ ewErr' = ewErr
      BY <1>3 DEF Emit
    <2> QED
      BY <1>1, <1>3, <2>1 DEF BrokenInv
  <1>4. CASE ~ewErr /\ rendered' = Append(rendered, c) /\ ewErr' = FALSE
    <2>1. \A d \in Before(c) : d < c
      BY DEF Before
    <2>2. Lists(Append(rendered, c), Before(c) \cup {c})
      BY <1>2, <1>4, <2>1, ListsOneMore
    <2> QED
      BY <1>2, <1>4, <2>2, AppendProperties DEF BrokenInv
  <1>5. CASE ~ewErr /\ sink = "caller" /\ ewErr' = TRUE /\ rendered' = Append(rendered, Part(c))
    <2>1. rendered' # <<>> /\ Front(rendered') = rendered /\ Last(rendered') = Part(c)
      BY <1>2, <1>5, FrontOfAppend
    <2>2. BrokenInv'
      BY <1>1, <1>2, <1>5, <2>1 DEF BrokenInv
    <2> QED
      BY <1>2, <1>5, <2>2, AppendProperties
  <1>6. CASE ~ewErr /\ sink = "caller" /\ ewErr' = TRUE /\ rendered' = rendered
    <2>1. BrokenInv'
      BY <1>1, <1>2, <1>6 DEF BrokenInv
    <2> QED
      BY <1>6, <2>1
  <1> QED
    BY <1>3, <1>4, <1>5, <1>6 DEF Emit, Put

(***************************************************************************)
(* The steps that leave the rendering and the destination alone.           *)
(***************************************************************************)
LEMMA OpenHolds ==
  ASSUME CommandsInv, Open \/ RunValidate
  PROVE  CommandsInv'
  <1>1. /\ UNCHANGED inputs /\ UNCHANGED <<cur, rendered, ewErr, output>>
        /\ ~ewErr /\ cur = 1 /\ rendered = <<>> /\ output = before /\ sink # "caller"
    BY DEF Open, RunValidate, CommandsInv, RenderInv, OutputInv
  <1>2. /\ InputInv' /\ Entries' = Entries /\ Chunks' = Chunks
    BY <1>1, InputsKept DEF CommandsInv
  <1>3. \/ pc' \in {"validate", "compile"} /\ status' = status /\ pc = "open"
           /\ (pc' = "validate" <=> command = "validate")
        \/ pc' = "ended" /\ status' = 1
        \/ pc' = "ended" /\ command = "validate" /\ status' \in {0, 254}
    BY DEF Open, RunValidate, Check, End, ExitStatus, CommandsInv, RenderInv
  <1>4. RenderInv'
    BY <1>1, <1>2, <1>3 DEF CommandsInv, InputInv, RenderInv, inputs
  <1>5. BrokenInv'
    BY <1>1 DEF BrokenInv
  <1>6. OutputInv'
    BY <1>1, <1>3 DEF OutputInv, inputs
  <1>7. StatusInv'
    <2>1. /\ sink' = sink /\ command' = command
          /\ command = "validate" => command \notin Conversions
      BY <1>1 DEF inputs, Conversions
    <2>2. status \in {-1, 0, 1, 254} /\ (pc # "ended" => status = -1)
      BY DEF CommandsInv, StatusInv
    <2>3. /\ status' \in {-1, 0, 1, 254} /\ (pc' # "ended" => status' = -1)
          /\ status' = 0 => command = "validate"
      BY <1>3, <2>2
    <2> QED
      BY <1>1, <2>1, <2>3 DEF StatusInv
  <1> QED
    BY <1>2, <1>4, <1>5, <1>6, <1>7 DEF CommandsInv

LEMMA CompileHolds ==
  ASSUME CommandsInv, Compile
  PROVE  CommandsInv'
  <1>1. /\ UNCHANGED inputs /\ UNCHANGED <<cur, rendered, ewErr, output>>
        /\ ~ewErr /\ cur = 1 /\ rendered = <<>> /\ output = before
        /\ command \in Conversions
    BY DEF Compile, LeaveOutput, CommandsInv, RenderInv, OutputInv
  <1>2. /\ InputInv' /\ Entries' = Entries /\ Chunks' = Chunks
    BY <1>1, InputsKept DEF CommandsInv
  <1>3. \/ pc' = "decode" /\ status' = status /\ pc = "compile"
        \/ pc' = "ended" /\ status' = 1
    BY DEF Compile, Check, End, ExitStatus
  <1>4. RenderInv'
    BY <1>1, <1>2, <1>3 DEF CommandsInv, RenderInv, inputs
  <1>5. BrokenInv'
    BY <1>1 DEF BrokenInv
  <1>6. OutputInv'
    BY <1>1, <1>3 DEF OutputInv, inputs
  <1>7. StatusInv'
    BY <1>1, <1>2, <1>3 DEF CommandsInv, StatusInv, inputs
  <1> QED
    BY <1>2, <1>4, <1>5, <1>6, <1>7 DEF CommandsInv

LEMMA DecodeHolds ==
  ASSUME CommandsInv, DecodeDocument
  PROVE  CommandsInv'
  <1>1. /\ UNCHANGED inputs /\ UNCHANGED <<cur, rendered, ewErr, output>>
        /\ ~ewErr /\ cur = 1 /\ rendered = <<>> /\ output = before
        /\ command \in Conversions
    BY DEF DecodeDocument, CommandsInv, RenderInv, OutputInv
  <1>2. /\ InputInv' /\ Entries' = Entries /\ Chunks' = Chunks /\ Before(1)' = Before(1)
    BY <1>1, InputsKept DEF CommandsInv
  <1>3. \/ /\ pc' = (IF command = "dump" THEN "heading" ELSE "entry")
           /\ status' = status /\ pc = "decode"
        \/ pc' = "ended" /\ status' = 1
    BY DEF DecodeDocument, Check, End, ExitStatus
  <1>4. RenderInv'
    <2>1. pc' = "entry" => Lists(rendered', Before(cur)')
      <3>1. pc' = "entry" => Before(1) = {}
        BY <1>3, BeforeFacts DEF CommandsInv
      <3> QED
        BY <1>1, <1>2, <3>1, NothingListed
    <2> QED
      BY <1>1, <1>2, <1>3, <2>1 DEF CommandsInv, RenderInv, inputs
  <1>5. BrokenInv'
    BY <1>1 DEF BrokenInv
  <1>6. OutputInv'
    BY <1>1, <1>3 DEF OutputInv, inputs
  <1>7. StatusInv'
    BY <1>1, <1>2, <1>3 DEF CommandsInv, StatusInv, inputs
  <1> QED
    BY <1>2, <1>4, <1>5, <1>6, <1>7 DEF CommandsInv

(***************************************************************************)
(* The steps that write a chunk, or none for an entry not asked for.       *)
(***************************************************************************)
LEMMA HeadingHolds ==
  ASSUME CommandsInv, PrintHeading
  PROVE  CommandsInv'
  <1>1. /\ UNCHANGED inputs /\ UNCHANGED <<cur, output, status>>
        /\ pc = "heading" /\ pc' = "entry" /\ cur = 1 /\ rendered = <<>> /\ ~ewErr
        /\ command = "dump" /\ output = before /\ Emit(0)
    BY DEF PrintHeading, CommandsInv, RenderInv, OutputInv
  <1>2. /\ InputInv' /\ Entries' = Entries /\ Before(1)' = Before(1)
    BY <1>1, InputsKept DEF CommandsInv
  <1>3. 0 \in Chunks /\ Before(1) = {0} /\ Before(0) = {}
    BY <1>1, BeforeFacts DEF CommandsInv
  <1>4. /\ rendered' \in Seq(Int) /\ ewErr' \in BOOLEAN /\ (ewErr' => sink = "caller")
        /\ ~ewErr' => Lists(rendered', Before(0) \cup {0})
        /\ BrokenInv'
    <2>1. rendered \in Seq(Int) /\ ewErr \in BOOLEAN /\ Lists(rendered, Before(0))
      BY <1>1, <1>3, NothingListed DEF CommandsInv, RenderInv
    <2> QED
      BY <1>1, <1>3, <2>1, EmitAddsOne DEF CommandsInv
  <1>5. (~ewErr' => Lists(rendered', Before(cur)')) /\ Len(Entries) \in Nat
    BY <1>1, <1>2, <1>3, <1>4, EntriesTyped DEF Before, CommandsInv
  <1>6. RenderInv'
    BY <1>1, <1>2, <1>4, <1>5 DEF CommandsInv, RenderInv, inputs, Conversions
  <1>7. OutputInv'
    BY <1>1 DEF OutputInv, inputs
  <1>8. StatusInv'
    BY <1>1 DEF CommandsInv, StatusInv, inputs
  <1> QED
    BY <1>2, <1>4, <1>6, <1>7, <1>8 DEF CommandsInv

LEMMA EntryHolds ==
  ASSUME CommandsInv, PrintEntry
  PROVE  CommandsInv'
  <1>1. /\ UNCHANGED inputs /\ UNCHANGED <<pc, output, status>>
        /\ pc = "entry" /\ cur \in DOMAIN Entries /\ cur' = cur + 1
        /\ output = before
    BY DEF PrintEntry, CommandsInv, OutputInv
  <1>2. /\ InputInv' /\ Entries' = Entries /\ Chunks' = Chunks
        /\ \A n \in Int : Before(n)' = Before(n)
    BY <1>1, InputsKept DEF CommandsInv
  <1>3. /\ cur \in 1..Len(Entries) /\ Len(Entries) \in Nat
        /\ Before(cur + 1) = IF cur \in Chunks THEN Before(cur) \cup {cur} ELSE Before(cur)
        /\ cur \in Chunks <=> Match(filter, Entries[cur])
    BY <1>1, BeforeFacts, EntriesTyped DEF CommandsInv
  <1>4. /\ rendered' \in Seq(Int) /\ ewErr' \in BOOLEAN /\ (ewErr' => sink = "caller")
        /\ ~ewErr' => Lists(rendered', Before(cur + 1))
        /\ BrokenInv'
    <2>1. CASE cur \in Chunks
      <3>1. Emit(cur)
        BY <1>3, <2>1 DEF PrintEntry
      <3>2. ~ewErr => Lists(rendered, Before(cur))
        BY <1>1 DEF CommandsInv, RenderInv
      <3>3. rendered \in Seq(Int) /\ ewErr \in BOOLEAN /\ (ewErr => sink = "caller")
        BY DEF CommandsInv, RenderInv
      <3>4. ~ewErr' => Lists(rendered', Before(cur) \cup {cur})
        BY <1>1, <2>1, <3>1, <3>2, <3>3, EmitAddsOne DEF CommandsInv
      <3>5. rendered' \in Seq(Int) /\ ewErr' \in BOOLEAN /\ (ewErr' => sink = "caller") /\ BrokenInv'
        BY <1>1, <2>1, <3>1, <3>2, <3>3, EmitAddsOne DEF CommandsInv
      <3> QED
        BY <1>3, <2>1, <3>4, <3>5
    <2>2. CASE cur \notin Chunks
      <3>1. rendered' = rendered /\ ewErr' = ewErr
        BY <1>3, <2>2 DEF PrintEntry
      <3>2. BrokenInv'
        <4> SUFFICES ASSUME ewErr'
                     PROVE  BrokenInv'
          BY DEF BrokenInv
        <4>1. PICK chunk \in Chunks :
                 \/ Lists(rendered, Before(chunk))
                 \/ /\ rendered # <<>> /\ Lists(Front(rendered), Before(chunk))
                    /\ Last(rendered) = Part(chunk)
          BY <3>1 DEF CommandsInv, BrokenInv
        <4>2. chunk \in Int
          BY EntriesTyped DEF CommandsInv
        <4> QED
          BY <1>2, <3>1, <4>1, <4>2 DEF BrokenInv
      <3> QED
        BY <1>1, <1>3, <2>2, <3>1, <3>2 DEF CommandsInv, RenderInv
    <2> QED
      BY <2>1, <2>2
  <1>5. ~ewErr' => Lists(rendered', Before(cur)')
    BY <1>1, <1>2, <1>4 DEF Before
  <1>6. RenderInv'
    BY <1>1, <1>2, <1>3, <1>4, <1>5 DEF CommandsInv, RenderInv, inputs
  <1>7. OutputInv'
    BY <1>1 DEF OutputInv, inputs
  <1>8. StatusInv'
    BY <1>1 DEF CommandsInv, StatusInv, inputs
  <1> QED
    BY <1>2, <1>4, <1>6, <1>7, <1>8 DEF CommandsInv

\* The rendering is complete: it is returned, or goes to its destination.
LEMMA ReturnHolds ==
  ASSUME CommandsInv, ReturnRendered
  PROVE  CommandsInv'
  <1>1. /\ UNCHANGED inputs /\ UNCHANGED <<cur, rendered, ewErr, output>>
        /\ pc = "entry" /\ cur \notin DOMAIN Entries /\ output = before
        /\ command \in Conversions /\ rendered \in Seq(Int) /\ (ewErr => sink = "caller")
    BY DEF ReturnRendered, CommandsInv, RenderInv, OutputInv
  <1>2. /\ InputInv' /\ Entries' = Entries /\ Chunks' = Chunks
        /\ \A n \in Int : Before(n)' = Before(n)
    BY <1>1, InputsKept DEF CommandsInv
  <1>3. cur = Len(Entries) + 1 /\ Len(Entries) \in Nat /\ Before(cur) = Chunks
    <2>1. /\ Len(Entries) \in Nat /\ DOMAIN Entries = 1..Len(Entries)
          /\ Before(Len(Entries) + 1) = Chunks
      BY EntriesTyped, BeforeFacts DEF CommandsInv
    <2>2. cur \in 1..(Len(Entries) + 1)
      BY DEF CommandsInv, RenderInv
    <2> QED
      BY <1>1, <2>1, <2>2
  <1>4. ~ewErr => Lists(rendered, Chunks)
    BY <1>1, <1>3 DEF CommandsInv, RenderInv
  <1>5. \/ /\ sink = "caller" /\ pc' = "ended"
           /\ status' = IF ewErr THEN 1 ELSE 0
        \/ /\ sink = "file" /\ pc' = "create" /\ status' = status /\ ~ewErr
        \/ /\ sink = "stdout" /\ pc' = "copy" /\ status' = status /\ ~ewErr
    BY <1>1 DEF ReturnRendered, End, ExitStatus, CommandsInv, InputInv
  <1>6. RenderInv'
    BY <1>1, <1>2, <1>3, <1>4, <1>5 DEF CommandsInv, RenderInv, inputs
  <1>7. BrokenInv'
    <2> SUFFICES ASSUME ewErr'
                 PROVE  BrokenInv'
      BY DEF BrokenInv
    <2>1. PICK chunk \in Chunks :
             \/ Lists(rendered, Before(chunk))
             \/ /\ rendered # <<>> /\ Lists(Front(rendered), Before(chunk))
                /\ Last(rendered) = Part(chunk)
      BY <1>1 DEF CommandsInv, BrokenInv
    <2>2. chunk \in Int
      BY EntriesTyped DEF CommandsInv
    <2> QED
      BY <1>1, <1>2, <2>1, <2>2 DEF BrokenInv
  <1>8. OutputInv'
    <2>1. sink = "stdout" => output = <<>>
      BY <1>1 DEF CommandsInv, InputInv
    <2>2. pc' = "copy" => IsPrefix(output, rendered) /\ output \in Seq(Int)
      BY <1>1, <1>5, <2>1, PrefixFacts, NothingListed
    <2> QED
      BY <1>1, <1>2, <1>5, <2>2 DEF CommandsInv, OutputInv, inputs
  <1>9. StatusInv'
    BY <1>1, <1>2, <1>4, <1>5 DEF CommandsInv, StatusInv, inputs
  <1> QED
    BY <1>2, <1>6, <1>7, <1>8, <1>9 DEF CommandsInv

(***************************************************************************)
(* The steps of writeOutput.                                               *)
(***************************************************************************)
\* Whatever they do, the rendering is complete and stays as it is.
LEMMA RenderingStays ==
  ASSUME CommandsInv, pc \in {"create", "copy"}, UNCHANGED inputs,
         UNCHANGED <<cur, rendered, ewErr>>, pc' \in {"copy", "ended"}
  PROVE  /\ InputInv' /\ RenderInv' /\ BrokenInv' /\ Chunks' = Chunks
         /\ sink # "caller" /\ ~ewErr
         /\ Lists(rendered, Chunks) /\ rendered \in Seq(Int)
  <1>1. /\ InputInv' /\ Entries' = Entries /\ Chunks' = Chunks
    BY InputsKept DEF CommandsInv
  <1>2. /\ sink # "caller" /\ ~ewErr /\ Lists(rendered, Chunks) /\ rendered \in Seq(Int)
        /\ command \in Conversions
    BY DEF CommandsInv, RenderInv
  <1>3. RenderInv'
    BY <1>1, <1>2 DEF CommandsInv, RenderInv, inputs
  <1>4. BrokenInv'
    BY <1>2 DEF BrokenInv
  <1> QED
    BY <1>1, <1>2, <1>3, <1>4

LEMMA CreateHolds ==
  ASSUME CommandsInv, CreateFile
  PROVE  CommandsInv'
  <1>1. /\ UNCHANGED inputs /\ UNCHANGED <<cur, rendered, ewErr>>
        /\ pc = "create" /\ output = before
        /\ \/ pc' = "copy" /\ output' = <<>> /\ status' = status
           \/ pc' = "ended" /\ status' = 1 /\ output' = output
    BY DEF CreateFile, End, ExitStatus, CommandsInv, OutputInv
  <1>2. /\ InputInv' /\ RenderInv' /\ BrokenInv' /\ Chunks' = Chunks
        /\ sink # "caller" /\ ~ewErr
        /\ Lists(rendered, Chunks) /\ rendered \in Seq(Int)
    BY <1>1, RenderingStays
  <1>3. OutputInv'
    <2>1. <<>> \in Seq(Int) /\ IsPrefix(<<>>, rendered)
      BY <1>2, PrefixFacts, NothingListed
    <2> QED
      BY <1>1, <1>2, <2>1 DEF OutputInv, inputs
  <1>4. StatusInv'
    BY <1>1, <1>2 DEF CommandsInv, StatusInv, inputs
  <1> QED
    BY <1>2, <1>3, <1>4 DEF CommandsInv

LEMMA CopyHolds ==
  ASSUME CommandsInv, CopyChunk \/ CopyDone
  PROVE  CommandsInv'
  <1>1. /\ UNCHANGED inputs /\ UNCHANGED <<cur, rendered, ewErr>>
        /\ pc = "copy" /\ IsPrefix(output, rendered) /\ output \in Seq(Int)
        /\ \/ /\ pc' = "copy" /\ status' = status /\ Len(output) < Len(rendered)
              /\ output' = Append(output, rendered[Len(output) + 1])
           \/ pc' = "ended" /\ status' = 1 /\ output' = output
           \/ /\ pc' = "ended" /\ status' = 0 /\ output' = output
              /\ Len(output) = Len(rendered)
    BY DEF CopyChunk, CopyDone, End, ExitStatus, CommandsInv, OutputInv
  <1>2. /\ InputInv' /\ RenderInv' /\ BrokenInv' /\ Chunks' = Chunks
        /\ sink # "caller" /\ ~ewErr
        /\ Lists(rendered, Chunks) /\ rendered \in Seq(Int)
    BY <1>1, RenderingStays
  <1>3. IsPrefix(output', rendered) /\ output' \in Seq(Int)
    <2>1. Len(output) < Len(rendered) =>
             /\ Append(output, rendered[Len(output) + 1]) \in Seq(Int)
             /\ IsPrefix(Append(output, rendered[Len(output) + 1]), rendered)
      BY <1>1, <1>2, PrefixFacts
    <2> QED
      BY <1>1, <2>1
  <1>4. OutputInv'
    BY <1>1, <1>2, <1>3 DEF OutputInv, inputs
  <1>5. StatusInv'
    <2>1. status' = 0 => output' = rendered \/ pc' = "copy"
      BY <1>1, <1>2, PrefixFacts
    <2> QED
      BY <1>1, <1>2, <2>1 DEF CommandsInv, StatusInv, inputs
  <1> QED
    BY <1>2, <1>4, <1>5 DEF CommandsInv

LEMMA KilledHolds ==
  ASSUME CommandsInv, Killed
  PROVE  CommandsInv'
  <1>1. /\ UNCHANGED inputs /\ UNCHANGED <<cur, rendered, ewErr, output, status>>
        /\ sink # "caller" /\ ~ewErr /\ pc' = "killed" /\ status = -1
    BY DEF Killed, CommandsInv, RenderInv, StatusInv
  <1>2. /\ InputInv' /\ Entries' = Entries /\ Chunks' = Chunks
    BY <1>1, InputsKept DEF CommandsInv
  <1>3. RenderInv'
    BY <1>1, <1>2 DEF CommandsInv, RenderInv, inputs
  <1>4. BrokenInv'
    BY <1>1 DEF BrokenInv
  <1>5. OutputInv'
    BY <1>1, <1>2 DEF CommandsInv, OutputInv, inputs
  <1>6. StatusInv'
    BY <1>1, <1>2 DEF CommandsInv, StatusInv, inputs
  <1> QED
    BY <1>2, <1>3, <1>4, <1>5, <1>6 DEF CommandsInv

LEMMA StutterHolds ==
  ASSUME CommandsInv, UNCHANGED vars
  PROVE  CommandsInv'
  <1>1. UNCHANGED inputs /\ UNCHANGED <<pc, cur, rendered, ewErr, output, status>>
    BY DEF vars
  <1>2. /\ InputInv' /\ Entries' = Entries /\ Chunks' = Chunks
        /\ \A n \in Int : Before(n)' = Before(n)
    BY <1>1, InputsKept DEF CommandsInv
  <1>3. RenderInv' /\ BrokenInv'
    <2>1. Len(Entries) \in Nat /\ Chunks \subseteq Int
      BY EntriesTyped DEF CommandsInv
    <2>2. Before(cur)' = Before(cur)
      BY <1>1, <1>2 DEF Before
    <2>3. RenderInv'
      BY <1>1, <1>2, <2>2 DEF CommandsInv, RenderInv, inputs
    <2>4. BrokenInv'
      BY <1>1, <1>2, <2>1 DEF CommandsInv, BrokenInv
    <2> QED
      BY <2>3, <2>4
  <1>4. OutputInv' /\ StatusInv'
    BY <1>1, <1>2 DEF CommandsInv, OutputInv, StatusInv, inputs
  <1> QED
    BY <1>2, <1>3, <1>4 DEF CommandsInv

THEOREM CommandsInvariant == Spec => []CommandsInv
  <1>1. Init => CommandsInv
    BY InitHolds
  <1>2. CommandsInv /\ [Next]_vars => CommandsInv'
    BY OpenHolds, CompileHolds, DecodeHolds, HeadingHolds, EntryHolds, ReturnHolds,
       CreateHolds, CopyHolds, KilledHolds, StutterHolds DEF Next
  <1> QED
    BY <1>1, <1>2, PTL DEF Spec

\* For documents of any length: the rendering never runs past the entries, and no other
\* exit status than these comes out (hargo.go 50-116).
THEOREM CommandsTyped == Spec => []TypeOK
  <1>1. CommandsInv => TypeOK
    BY DEF CommandsInv, InputInv, RenderInv, StatusInv, TypeOK
  <1> QED
    BY <1>1, CommandsInvariant, PTL

(***************************************************************************)
(* What the destination and a caller's writer end up with.                 *)
(***************************************************************************)
\* Killed or failing at any point, curl and dump leave the destination as it was, or with
\* a beginning of a complete rendering of the entries asked for, and with all of it when
\* they exit with 0 (hargo.go 94-115).
THEOREM OutputStaysWhole == Spec => []OutputIsWhole
  <1>1. CommandsInv => OutputIsWhole
    BY DEF CommandsInv, OutputInv, StatusInv, OutputIsWhole
  <1> QED
    BY <1>1, CommandsInvariant, PTL

\* Whichever writes of a caller's writer fail, it holds the chunks before the first failure
\* in recorded order, at most a part of the next, and no more; nil is returned only
\* when everything arrived (dump.go 22-41, curl.go 43-60).
THEOREM WriterStaysPrefix == Spec => []WriterSeesPrefix
  <1>1. CommandsInv => WriterSeesPrefix
    <2> SUFFICES ASSUME CommandsInv, sink = "caller"
                 PROVE  /\ \/ \E n \in 0..(Len(Entries) + 1) : Lists(rendered, Before(n))
                           \/ /\ rendered # <<>>
                              /\ \E chunk \in Chunks :
                                    /\ Lists(Front(rendered), Before(chunk))
                                    /\ Last(rendered) = Part(chunk)
                        /\ status = 0 => Lists(rendered, Chunks)
                        /\ status = 1 => rendered = <<>> \/ ewErr
      BY DEF WriterSeesPrefix
    <2>1. /\ Len(Entries) \in Nat /\ Chunks \subseteq 0..Len(Entries)
          /\ Before(Len(Entries) + 1) = Chunks
      BY EntriesTyped, BeforeFacts DEF CommandsInv
    <2>2. Before(0) = {}
      <3>1. \A chunk \in Chunks : ~(chunk < 0)
        BY <2>1
      <3> QED
        BY <3>1 DEF Before
    <2>3. 0 \in 0..(Len(Entries) + 1) /\ Len(Entries) + 1 \in 0..(Len(Entries) + 1)
      BY <2>1
    <2>4. (status = 0 => Lists(rendered, Chunks)) /\ (status = 1 => rendered = <<>> \/ ewErr)
      BY DEF CommandsInv, StatusInv
    <2>5. CASE ewErr
      <3>1. PICK chunk \in Chunks :
               \/ Lists(rendered, Before(chunk))
               \/ /\ rendered # <<>> /\ Lists(Front(rendered), Before(chunk))
                  /\ Last(rendered) = Part(chunk)
        BY <2>5 DEF CommandsInv, BrokenInv
      <3>2. chunk \in 0..(Len(Entries) + 1)
        BY <2>1
      <3> QED
        BY <2>4, <3>1, <3>2
    <2>6. CASE ~ewErr
      <3>1. \/ rendered = <<>>
            \/ Lists(rendered, Chunks)
            \/ pc = "entry" /\ Lists(rendered, Before(cur))
        BY <2>6 DEF CommandsInv, RenderInv, StatusInv
      <3>2. rendered = <<>> => Lists(rendered, Before(0))
        BY <2>2, NothingListed
      <3>3. cur \in 0..(Len(Entries) + 1)
        BY <2>1 DEF CommandsInv, RenderInv
      <3> QED
        BY <2>1, <2>3, <2>4, <3>1, <3>2, <3>3
    <2> QED
      BY <2>5, <2>6
  <1> QED
    BY <1>1, CommandsInvariant, PTL

(***************************************************************************)
(* Lists of headers of any length.                                         *)
(***************************************************************************)
\* The recursion in Keep, for each beginning of the sequence.
IsKeeping(f, T, seq, S) ==
    /\ f \in [0..Len(seq) -> Seq(T)]
    /\ Keep(seq, S) = f[Len(seq)]
    /\ f[0] = <<>>
    /\ \A k \in 1..Len(seq) :
          f[k] = IF seq[k] \in S THEN Append(f[k - 1], seq[k]) ELSE f[k - 1]

LEMMA KeepRecursion ==
  ASSUME NEW T, NEW seq \in Seq(T), NEW S
  PROVE  \E f : IsKeeping(f, T, seq, S)
  <1> DEFINE n == Len(seq)
             step == [p \in Seq(T) \X (1..n) |->
                        IF seq[p[2]] \in S THEN Append(p[1], seq[p[2]]) ELSE p[1]]
             body(g) == [k \in 0..n |-> IF k = 0 THEN <<>>
                           ELSE IF seq[k] \in S THEN Append(g[k - 1], seq[k]) ELSE g[k - 1]]
             kept == CHOOSE g : g = body(g)
  <1>1. n \in Nat /\ \A k \in 1..n : seq[k] \in T
    BY LenProperties, ElementOfSeq
  <1>2. step \in [Seq(T) \X (1..n) -> Seq(T)]
    BY <1>1, AppendProperties
  <1>3. PICK f \in [0..n -> Seq(T)] :
           f[0] = <<>> /\ \A k \in 1..n : f[k] = step[<<f[k - 1], k>>]
    <2> DEFINE base == <<>>
               V == Seq(T)
    <2>1. base \in V /\ step \in [V \X (1..n) -> V]
      BY <1>2, EmptySeq
    <2>2. \E f : IsRecursion(f, n, V, base, step)
      <3>1. n \in Nat
        BY <1>1
      <3> HIDE DEF step, n, base, V
      <3> QED
        BY <2>1, <3>1, RecursionExists
    <2> QED
      BY <2>2 DEF IsRecursion
  <1>4. ASSUME NEW k \in 1..n
        PROVE  f[k] = IF seq[k] \in S THEN Append(f[k - 1], seq[k]) ELSE f[k - 1]
    <2>1. f[k - 1] \in Seq(T)
      BY <1>1, <1>3
    <2>2. <<f[k - 1], k>> \in Seq(T) \X (1..n)
      BY <2>1
    <2> QED
      BY <1>3, <2>2
  <1>5. f = body(f)
    <2>1. ASSUME NEW k \in 0..n
          PROVE  f[k] = body(f)[k]
      <3>1. k = 0 \/ k \in 1..n
        BY <1>1
      <3> QED
        BY <1>1, <1>3, <1>4, <3>1
    <2>2. DOMAIN body(f) = 0..n /\ DOMAIN f = 0..n
      BY <1>3
    <2>3. body(f) = [k \in 0..n |-> body(f)[k]] /\ f = [k \in 0..n |-> f[k]]
      BY <1>3
    <2> HIDE DEF n, body
    <2> QED
      BY <2>1, <2>3
  <1>6. kept = body(kept)
    <2> HIDE DEF body
    <2> QED
      BY <1>5
  <1>7. Keep(seq, S) = kept[n]
    BY DEF Keep
  <1>a. ASSUME NEW k \in 0..n
        PROVE  kept[k] = IF k = 0 THEN <<>>
                  ELSE IF seq[k] \in S THEN Append(kept[k - 1], seq[k]) ELSE kept[k - 1]
    <2>1. kept[k] = body(kept)[k]
      BY <1>6
    <2> HIDE DEF kept
    <2> QED
      BY <2>1
  <1> HIDE DEF kept
  <1>8. kept[0] = f[0]
    BY <1>1, <1>3, <1>a
  <1>9. ASSUME NEW k \in 0..(n - 1), kept[k] = f[k]
        PROVE  kept[k + 1] = f[k + 1]
    <2>1. kept[k + 1] = IF seq[k + 1] \in S THEN Append(kept[k], seq[k + 1]) ELSE kept[k]
      BY <1>1, <1>a
    <2>2. f[k + 1] = IF seq[k + 1] \in S THEN Append(f[k], seq[k + 1]) ELSE f[k]
      BY <1>1, <1>4
    <2> QED
      BY <1>1, <1>9, <2>1, <2>2
  <1>10. kept[n] = f[n]
    <2>1. n \in Nat
      BY <1>1
    <2> HIDE DEF n
    <2> QED
      BY <1>8, <1>9, <2>1, SameAtEnd
  <1> QED
    BY <1>3, <1>4, <1>7, <1>10 DEF IsKeeping

LEMMA KeepEmpty == ASSUME NEW S PROVE Keep(<<>>, S) = <<>>
  <1>1. <<>> \in Seq(Int) /\ Len(<<>>) = 0
    BY EmptySeq
  <1> DEFINE seq == <<>>
             f0 == Keep(seq, S)
  <1>2. \E f : f0 = f[Len(seq)] /\ f[0] = <<>>
    <2>1. seq \in Seq(Int)
      BY <1>1
    <2> HIDE DEF seq
    <2> QED
      BY <2>1, KeepRecursion DEF IsKeeping
  <1> QED
    BY <1>1, <1>2

LEMMA KeepType == 
  ASSUME NEW T, NEW seq \in Seq(T), NEW S
  PROVE  Keep(seq, S) \in Seq(T)
  <1>1. Len(seq) \in Nat
    BY LenProperties
  <1>2. Len(seq) \in 0..Len(seq)
    BY <1>1
  <1> QED
    BY <1>2, KeepRecursion DEF IsKeeping

LEMMA KeepAppend ==
  ASSUME NEW T, NEW seq \in Seq(T), NEW e \in T, NEW S
  PROVE  Keep(Append(seq, e), S) = IF e \in S THEN Append(Keep(seq, S), e) ELSE Keep(seq, S)
  <1> DEFINE n == Len(seq)
             more == Append(seq, e)
  <1>1. /\ n \in Nat /\ more \in Seq(T) /\ Len(more) = n + 1
        /\ \A k \in 1..n : more[k] = seq[k]
        /\ more[n + 1] = e
    BY LenProperties, AppendProperties
  <1>2. PICK f : IsKeeping(f, T, seq, S)
    BY KeepRecursion
  <1>3. PICK g : IsKeeping(g, T, more, S)
    BY <1>1, KeepRecursion
  <1> HIDE DEF more
  <1>f. /\ Keep(seq, S) = f[n] /\ f[0] = <<>>
        /\ \A k \in 1..n : f[k] = IF seq[k] \in S THEN Append(f[k - 1], seq[k]) ELSE f[k - 1]
    BY <1>2 DEF IsKeeping
  <1>g. /\ Keep(more, S) = g[n + 1] /\ g[0] = <<>>
        /\ \A k \in 1..(n + 1) :
              g[k] = IF more[k] \in S THEN Append(g[k - 1], more[k]) ELSE g[k - 1]
    BY <1>1, <1>3 DEF IsKeeping
  <1> HIDE DEF n
  <1>4. f[0] = g[0]
    BY <1>1, <1>f, <1>g
  <1>5. ASSUME NEW k \in 0..(n - 1), f[k] = g[k]
        PROVE  f[k + 1] = g[k + 1]
    <2>1. k + 1 \in 1..n /\ k + 1 \in 1..(n + 1) /\ (k + 1) - 1 = k
      BY <1>1
    <2>2. f[k + 1] = IF seq[k + 1] \in S THEN Append(f[k], seq[k + 1]) ELSE f[k]
      BY <1>f, <2>1
    <2>3. g[k + 1] = IF more[k + 1] \in S THEN Append(g[k], more[k + 1]) ELSE g[k]
      BY <1>g, <2>1
    <2>4. f[k] = g[k] /\ more[k + 1] = seq[k + 1]
      BY <1>1, <1>5, <2>1
    <2> QED
      BY <1>1, <2>1, <2>2, <2>3, <2>4
  <1>6. f[n] = g[n]
    BY <1>1, <1>4, <1>5, SameAtEnd
  <1>7. n + 1 \in 1..(n + 1) /\ (n + 1) - 1 = n
    BY <1>1
  <1>8. g[n + 1] = IF e \in S THEN Append(g[n], e) ELSE g[n]
    BY <1>1, <1>g, <1>7
  <1> QED
    BY <1>f, <1>g, <1>6, <1>8 DEF more

LEMMA RangeOfAppend ==
  ASSUME NEW T, NEW seq \in Seq(T), NEW e \in T
  PROVE  Range(Append(seq, e)) = Range(seq) \cup {e}
  <1>1. /\ Append(seq, e) \in Seq(T) /\ Len(Append(seq, e)) = Len(seq) + 1
        /\ DOMAIN seq = 1..Len(seq) /\ Len(seq) \in Nat
        /\ DOMAIN Append(seq, e) = 1..(Len(seq) + 1)
        /\ \A i \in 1..Len(seq) : Append(seq, e)[i] = seq[i]
        /\ Append(seq, e)[Len(seq) + 1] = e
    BY AppendProperties, LenProperties
  <1>2. 1..(Len(seq) + 1) = 1..Len(seq) \cup {Len(seq) + 1}
    BY <1>1
  <1> QED
    BY <1>1, <1>2, ZenonT(60) DEF Range

LEMMA EmptyRange ==
  ASSUME NEW T, NEW seq \in Seq(T)
  PROVE  /\ seq = <<>> => Range(seq) = {}
         /\ Range(seq) = {} => seq = <<>>
  <1>1. Len(seq) \in Nat /\ DOMAIN seq = 1..Len(seq)
    BY LenProperties
  <1>2. ASSUME Range(seq) = {}
        PROVE  seq = <<>>
    <2>1. \A i \in 1..Len(seq) : seq[i] \in Range(seq)
      BY <1>1 DEF Range
    <2>2. Len(seq) = 0
      BY <1>1, <1>2, <2>1
    <2> QED
      BY <2>2, EmptySeq
  <1>3. ASSUME seq = <<>>
        PROVE  Range(seq) = {}
    BY <1>3, EmptySeq DEF Range
  <1> QED
    BY <1>2, <1>3

LEMMA KeepRange ==
  ASSUME NEW T, NEW seq \in Seq(T), NEW S
  PROVE  Range(Keep(seq, S)) = Range(seq) \cap S
  <1> DEFINE P == {s \in Seq(T) : Range(Keep(s, S)) = Range(s) \cap S}
  <1>1. <<>> \in P
    <2>1. Range(<<>>) = {} /\ <<>> \in Seq(T)
      BY EmptySeq DEF Range
    <2> QED
      BY <2>1, KeepEmpty
  <1>2. ASSUME NEW s \in Seq(T), NEW e \in T, s \in P
        PROVE  Append(s, e) \in P
    <2>1. Keep(Append(s, e), S) = IF e \in S THEN Append(Keep(s, S), e) ELSE Keep(s, S)
      BY KeepAppend
    <2>2. Range(Append(s, e)) = Range(s) \cup {e}
      BY RangeOfAppend
    <2>3. Keep(s, S) \in Seq(T)
      BY KeepType
    <2>4. Range(Append(Keep(s, S), e)) = Range(Keep(s, S)) \cup {e}
      BY <2>3, RangeOfAppend
    <2>5. Append(s, e) \in Seq(T)
      BY AppendProperties
    <2> QED
      BY <1>2, <2>1, <2>2, <2>4, <2>5
  <1>3. seq \in P
    <2> HIDE DEF P
    <2> QED
      BY <1>1, <1>2, AppendInduction
  <1> QED
    BY <1>3

LEMMA KeepNone ==
  ASSUME NEW T, NEW seq \in Seq(T), NEW S
  PROVE  Keep(seq, S) = <<>> <=> Range(seq) \cap S = {}
  <1>1. Keep(seq, S) \in Seq(T) /\ Range(Keep(seq, S)) = Range(seq) \cap S
    BY KeepType, KeepRange
  <1> DEFINE kept == Keep(seq, S)
  <1>2. (kept = <<>> => Range(kept) = {}) /\ (Range(kept) = {} => kept = <<>>)
    <2>1. kept \in Seq(T)
      BY <1>1
    <2> HIDE DEF kept
    <2> QED
      BY <2>1, EmptyRange
  <1> QED
    BY <1>1, <1>2

\* Two loops one after the other are one loop.
LEMMA KeepKeep ==
  ASSUME NEW T, NEW seq \in Seq(T), NEW S, NEW R
  PROVE  Keep(Keep(seq, S), R) = Keep(seq, S \cap R)
  <1> DEFINE P == {s \in Seq(T) : Keep(Keep(s, S), R) = Keep(s, S \cap R)}
  <1>1. <<>> \in P
    BY KeepEmpty, EmptySeq
  <1>2. ASSUME NEW s \in Seq(T), NEW e \in T, s \in P
        PROVE  Append(s, e) \in P
    <2>1. Keep(Append(s, e), S) = IF e \in S THEN Append(Keep(s, S), e) ELSE Keep(s, S)
      BY KeepAppend
    <2>2. Keep(Append(s, e), S \cap R)
             = IF e \in S \cap R THEN Append(Keep(s, S \cap R), e) ELSE Keep(s, S \cap R)
      BY KeepAppend
    <2>3. Keep(s, S) \in Seq(T)
      BY KeepType
    <2>4. Keep(Append(Keep(s, S), e), R)
             = IF e \in R THEN Append(Keep(Keep(s, S), R), e) ELSE Keep(Keep(s, S), R)
      BY <2>3, KeepAppend
    <2>5. Append(s, e) \in Seq(T) /\ Keep(Keep(s, S), R) = Keep(s, S \cap R)
      BY <1>2, AppendProperties
    <2>6. Keep(Keep(Append(s, e), S), R) = Keep(Append(s, e), S \cap R)
      <3>1. CASE e \in S
        <4>1. Keep(Append(s, e), S) = Append(Keep(s, S), e)
          BY <2>1, <3>1
        <4>2. (e \in S \cap R) <=> (e \in R)
          BY <3>1
        <4> QED
          BY <2>2, <2>4, <2>5, <4>1, <4>2
      <3>2. CASE e \notin S
        BY <2>1, <2>2, <2>5, <3>2, Zenon
      <3> QED
        BY <3>1, <3>2
    <2> QED
      BY <2>5, <2>6
  <1>3. seq \in P
    <2> HIDE DEF P
    <2> QED
      BY <1>1, <1>2, AppendInduction
  <1> QED
    BY <1>3

\* Only what is in the sequence decides what is kept of it.
LEMMA KeepSame ==
  ASSUME NEW T, NEW seq \in Seq(T), NEW S, NEW R, Range(seq) \cap S = Range(seq) \cap R
  PROVE  Keep(seq, S) = Keep(seq, R)
  <1> DEFINE U == Range(seq)
             P == {s \in Seq(U) : Keep(s, S) = Keep(s, R)}
  <1>1. <<>> \in P
    BY KeepEmpty, EmptySeq
  <1>2. ASSUME NEW s \in Seq(U), NEW e \in U, s \in P
        PROVE  Append(s, e) \in P
    <2>1. Keep(Append(s, e), S) = IF e \in S THEN Append(Keep(s, S), e) ELSE Keep(s, S)
      BY KeepAppend
    <2>2. Keep(Append(s, e), R) = IF e \in R THEN Append(Keep(s, R), e) ELSE Keep(s, R)
      BY KeepAppend
    <2>3. e \in S <=> e \in R
      OBVIOUS
    <2>4. Append(s, e) \in Seq(U) /\ Keep(s, S) = Keep(s, R)
      BY <1>2, AppendProperties
    <2> QED
      BY <2>1, <2>2, <2>3, <2>4
  <1>3. Seq(U) \subseteq P
    <2> HIDE DEF P, U
    <2> QED
      BY <1>1, <1>2, AppendInduction
  <1> QED
    BY <1>3, SeqOfRange

(***************************************************************************)
(* The recorded host, header by header.                                    *)
(***************************************************************************)
IsHosting(f, headers) ==
    /\ f \in [0..Len(headers) -> Values]
    /\ RecordedHost(headers) = f[Len(headers)]
    /\ f[0] = Empty
    /\ \A k \in 1..Len(headers) : f[k] = TakeHost(f[k - 1], headers[k])

LEMMA TakeHostType ==
  ASSUME NEW host \in Values, NEW h \in HeaderType
  PROVE  TakeHost(host, h) \in Values
  BY DEF TakeHost, HeaderType

LEMMA HostRecursion ==
  ASSUME NEW headers \in Seq(HeaderType)
  PROVE  \E f : IsHosting(f, headers)
  <1> DEFINE n == Len(headers)
             step == [p \in Values \X (1..n) |-> TakeHost(p[1], headers[p[2]])]
             body(g) == [k \in 0..n |-> IF k = 0 THEN Empty ELSE TakeHost(g[k - 1], headers[k])]
             host == CHOOSE g : g = body(g)
  <1>1. n \in Nat /\ \A k \in 1..n : headers[k] \in HeaderType
    BY LenProperties, ElementOfSeq
  <1>2. step \in [Values \X (1..n) -> Values]
    BY <1>1, TakeHostType
  <1>3. PICK f : IsRecursion(f, n, Values, Empty, step)
    <2>1. n \in Nat /\ Empty \in Values
      BY <1>1 DEF Values
    <2> HIDE DEF step, n
    <2> QED
      BY <1>2, <2>1, RecursionExists
  <1>4. /\ f \in [0..n -> Values] /\ f[0] = Empty
        /\ \A k \in 1..n : f[k] = TakeHost(f[k - 1], headers[k])
    <2>1. /\ f \in [0..n -> Values] /\ f[0] = Empty
          /\ \A k \in 1..n : f[k] = step[<<f[k - 1], k>>]
      <3> HIDE DEF step, n
      <3> QED
        BY <1>3 DEF IsRecursion
    <2>2. ASSUME NEW k \in 1..n
          PROVE  f[k] = TakeHost(f[k - 1], headers[k])
      <3>1. <<f[k - 1], k>> \in Values \X (1..n)
        BY <1>1, <2>1
      <3> QED
        BY <2>1, <3>1
    <2> QED
      BY <2>1, <2>2
  <1>5. f = body(f)
    <2>1. ASSUME NEW k \in 0..n
          PROVE  f[k] = body(f)[k]
      <3>1. k = 0 \/ k \in 1..n
        BY <1>1
      <3> QED
        BY <1>1, <1>4, <3>1
    <2>2. body(f) = [k \in 0..n |-> body(f)[k]] /\ f = [k \in 0..n |-> f[k]]
      BY <1>4
    <2> HIDE DEF n, body
    <2> QED
      BY <2>1, <2>2
  <1>6. host = body(host) /\ RecordedHost(headers) = host[n]
    <2>1. RecordedHost(headers) = host[n]
      BY DEF RecordedHost
    <2>2. host = body(host)
      <3> HIDE DEF body
      <3> QED
        BY <1>5
    <2> QED
      BY <2>1, <2>2
  <1>7. ASSUME NEW k \in 0..n
        PROVE  host[k] = IF k = 0 THEN Empty ELSE TakeHost(host[k - 1], headers[k])
    <2>1. host[k] = body(host)[k]
      BY <1>6
    <2> HIDE DEF host
    <2> QED
      BY <2>1
  <1> HIDE DEF host
  <1>8. host[0] = f[0]
    BY <1>1, <1>4, <1>7
  <1>9. ASSUME NEW k \in 0..(n - 1), host[k] = f[k]
        PROVE  host[k + 1] = f[k + 1]
    <2>1. k + 1 \in 0..n /\ k + 1 \in 1..n /\ k + 1 # 0 /\ (k + 1) - 1 = k
      BY <1>1
    <2>2. host[k + 1] = TakeHost(host[k], headers[k + 1])
      BY <1>7, <2>1
    <2>3. f[k + 1] = TakeHost(f[k], headers[k + 1])
      BY <1>4, <2>1
    <2> QED
      BY <1>9, <2>2, <2>3
  <1>10. host[n] = f[n]
    <2>1. n \in Nat
      BY <1>1
    <2> HIDE DEF n
    <2> QED
      BY <1>8, <1>9, <2>1, SameAtEnd
  <1> QED
    BY <1>4, <1>6, <1>10 DEF IsHosting

LEMMA HostEmpty == RecordedHost(<<>>) = Empty
  <1> DEFINE headers == <<>>
             host == RecordedHost(headers)
  <1>1. headers \in Seq(HeaderType) /\ Len(headers) = 0
    BY EmptySeq
  <1>2. \E f : host = f[Len(headers)] /\ f[0] = Empty
    <2> HIDE DEF headers
    <2> QED
      BY <1>1, HostRecursion DEF IsHosting
  <1> QED
    BY <1>1, <1>2

LEMMA HostAppend ==
  ASSUME NEW headers \in Seq(HeaderType), NEW h \in HeaderType
  PROVE  /\ RecordedHost(Append(headers, h)) = TakeHost(RecordedHost(headers), h)
         /\ RecordedHost(headers) \in Values
  <1> DEFINE n == Len(headers)
             more == Append(headers, h)
  <1>1. /\ n \in Nat /\ more \in Seq(HeaderType) /\ Len(more) = n + 1
        /\ \A k \in 1..n : more[k] = headers[k]
        /\ more[n + 1] = h
    BY LenProperties, AppendProperties
  <1>2. PICK f : IsHosting(f, headers)
    BY HostRecursion
  <1>3. PICK g : IsHosting(g, more)
    BY <1>1, HostRecursion
  <1> HIDE DEF more
  <1>4. /\ RecordedHost(headers) = f[n] /\ f[0] = Empty /\ f[n] \in Values
        /\ \A k \in 1..n : f[k] = TakeHost(f[k - 1], headers[k])
    BY <1>1, <1>2 DEF IsHosting
  <1>5. /\ RecordedHost(more) = g[n + 1] /\ g[0] = Empty
        /\ \A k \in 1..(n + 1) : g[k] = TakeHost(g[k - 1], more[k])
    BY <1>1, <1>3 DEF IsHosting
  <1> HIDE DEF n
  <1>6. ASSUME NEW k \in 0..(n - 1), f[k] = g[k]
        PROVE  f[k + 1] = g[k + 1]
    <2>1. k + 1 \in 1..n /\ k + 1 \in 1..(n + 1) /\ (k + 1) - 1 = k
      BY <1>1
    <2>2. f[k + 1] = TakeHost(f[k], headers[k + 1])
      BY <1>4, <2>1
    <2>3. g[k + 1] = TakeHost(g[k], more[k + 1])
      BY <1>5, <2>1
    <2> QED
      BY <1>1, <1>6, <2>1, <2>2, <2>3
  <1>7. f[n] = g[n]
    BY <1>1, <1>4, <1>5, <1>6, SameAtEnd
  <1>8. n + 1 \in 1..(n + 1) /\ (n + 1) - 1 = n
    BY <1>1
  <1>9. g[n + 1] = TakeHost(g[n], h)
    BY <1>1, <1>5, <1>8
  <1> QED
    BY <1>4, <1>5, <1>7, <1>9 DEF more

LEMMA EndsOfAppend ==
  ASSUME NEW T, NEW seq \in Seq(T), NEW e \in T
  PROVE  /\ Append(seq, e) # <<>> /\ Last(Append(seq, e)) = e
         /\ Append(seq, e)[1] = IF seq = <<>> THEN e ELSE seq[1]
  <1>1. /\ Append(seq, e) # <<>> /\ Len(Append(seq, e)) = Len(seq) + 1 /\ Len(seq) \in Nat
        /\ \A i \in 1..Len(seq) : Append(seq, e)[i] = seq[i]
        /\ Append(seq, e)[Len(seq) + 1] = e
    BY AppendProperties, LenProperties
  <1>2. seq = <<>> => Len(seq) = 0
    BY EmptySeq
  <1>3. seq # <<>> => 1 \in 1..Len(seq)
    BY <1>1, EmptySeq
  <1> QED
    BY <1>1, <1>2, <1>3 DEF Last

LEMMA KeptIsMember ==
  ASSUME NEW T, NEW seq \in Seq(T), NEW S, Keep(seq, S) # <<>>
  PROVE  Keep(seq, S)[1] \in S /\ Last(Keep(seq, S)) \in S
  <1> DEFINE kept == Keep(seq, S)
  <1>1. kept \in Seq(T) /\ kept # <<>> /\ Range(kept) \subseteq S
    BY KeepType, KeepRange
  <1> HIDE DEF kept
  <1>2. Len(kept) \in Nat /\ DOMAIN kept = 1..Len(kept) /\ Len(kept) # 0
    BY <1>1, LenProperties, EmptySeq
  <1>3. kept[1] \in Range(kept) /\ kept[Len(kept)] \in Range(kept)
    BY <1>2 DEF Range
  <1>4. kept[1] \in S /\ Last(kept) \in S
    BY <1>1, <1>3 DEF Last
  <1> QED
    BY <1>4 DEF kept

\* The Host headers that are sent, and the :authority ones.
HostLines == {h \in Lines({"Host"}) : IsReplayableHeader(h)}
AuthorityLines == {h \in Lines({":authority"}) : h.value # Empty}

\* The host found so far, in terms of the headers passed so far.
HostIsRight(headers, host) ==
    LET hosts == Keep(headers, HostLines)
        auths == Keep(headers, AuthorityLines)
    IN  /\ hosts # <<>> /\ Last(hosts).value # Empty => host = Last(hosts).value
        /\ hosts = <<>> => host = IF auths = <<>> THEN Empty ELSE auths[1].value
        /\ hosts # <<>> /\ Keep(headers, Lines({":authority"})) = <<>> =>
              host = Last(hosts).value

LEMMA HostStaysRight ==
  ASSUME NEW headers \in Seq(HeaderType), NEW h \in HeaderType, NEW host \in Values,
         HostIsRight(headers, host)
  PROVE  HostIsRight(Append(headers, h), TakeHost(host, h))
  <1> DEFINE hosts == Keep(headers, HostLines)
             auths == Keep(headers, AuthorityLines)
             every == Keep(headers, Lines({":authority"}))
             host2 == TakeHost(host, h)
             hosts2 == Keep(Append(headers, h), HostLines)
             auths2 == Keep(Append(headers, h), AuthorityLines)
             every2 == Keep(Append(headers, h), Lines({":authority"}))
  <1>1. /\ hosts2 = IF h \in HostLines THEN Append(hosts, h) ELSE hosts
        /\ auths2 = IF h \in AuthorityLines THEN Append(auths, h) ELSE auths
        /\ every2 = IF h \in Lines({":authority"}) THEN Append(every, h) ELSE every
    BY KeepAppend
  <1>2. /\ hosts \in Seq(HeaderType) /\ auths \in Seq(HeaderType) /\ every \in Seq(HeaderType)
        /\ auths # <<>> => auths[1].value # Empty
    <2>1. auths # <<>> => auths[1] \in AuthorityLines
      BY KeptIsMember
    <2> QED
      BY <2>1, KeepType DEF AuthorityLines
  <1>3. /\ Append(hosts, h) # <<>> /\ Last(Append(hosts, h)) = h
        /\ Append(auths, h) # <<>> /\ Append(every, h) # <<>>
        /\ Append(auths, h)[1] = IF auths = <<>> THEN h ELSE auths[1]
    BY <1>2, EndsOfAppend
  <1>4. /\ hosts # <<>> /\ Last(hosts).value # Empty => host = Last(hosts).value
        /\ hosts = <<>> => host = IF auths = <<>> THEN Empty ELSE auths[1].value
        /\ hosts # <<>> /\ every = <<>> => host = Last(hosts).value
    BY DEF HostIsRight
  <1>5. /\ h \in HostLines <=> h.name = "Host" /\ IsReplayableHeader(h)
        /\ h \in AuthorityLines <=> h.name = ":authority" /\ h.value # Empty
        /\ h \in Lines({":authority"}) <=> h.name = ":authority"
    BY DEF HostLines, AuthorityLines, Lines, HeaderType, LineType
  <1> HIDE DEF hosts, auths, every, hosts2, auths2, every2
  <1>6. /\ hosts2 # <<>> /\ Last(hosts2).value # Empty => host2 = Last(hosts2).value
        /\ hosts2 = <<>> => host2 = IF auths2 = <<>> THEN Empty ELSE auths2[1].value
        /\ hosts2 # <<>> /\ every2 = <<>> => host2 = Last(hosts2).value
    <2>1. CASE h \in HostLines
      <3>1. host2 = h.value /\ h \notin AuthorityLines /\ h \notin Lines({":authority"})
        BY <1>5, <2>1 DEF TakeHost
      <3> QED
        BY <1>1, <1>3, <2>1, <3>1
    <2>2. CASE h.name = ":authority"
      <3>1. h \notin HostLines /\ h \in Lines({":authority"})
        BY <1>5, <2>2
      <3>2. host2 = IF host = Empty THEN h.value ELSE host
        BY <2>2 DEF TakeHost
      <3> QED
        BY <1>1, <1>2, <1>3, <1>4, <1>5, <2>2, <3>1, <3>2
    <2>3. CASE h \notin HostLines /\ h.name # ":authority"
      <3>1. host2 = host /\ h \notin AuthorityLines /\ h \notin Lines({":authority"})
        BY <1>5, <2>3 DEF TakeHost
      <3> QED
        BY <1>1, <1>4, <2>3, <3>1
    <2> QED
      BY <2>1, <2>2, <2>3
  <1> QED
    BY <1>6 DEF HostIsRight, hosts2, auths2, every2

LEMMA RecordedHostIsRight ==
  ASSUME NEW headers \in Seq(HeaderType)
  PROVE  HostIsRight(headers, RecordedHost(headers))
  <1> DEFINE P == {s \in Seq(HeaderType) : HostIsRight(s, RecordedHost(s))}
  <1>1. <<>> \in P
    <2>1. HostIsRight(<<>>, Empty)
      BY KeepEmpty DEF HostIsRight
    <2> QED
      BY <2>1, HostEmpty, EmptySeq
  <1>2. ASSUME NEW s \in Seq(HeaderType), NEW h \in HeaderType, s \in P
        PROVE  Append(s, h) \in P
    <2>1. /\ RecordedHost(Append(s, h)) = TakeHost(RecordedHost(s), h)
          /\ RecordedHost(s) \in Values /\ HostIsRight(s, RecordedHost(s))
      BY <1>2, HostAppend
    <2>2. Append(s, h) \in Seq(HeaderType)
      BY AppendProperties
    <2> QED
      BY <2>1, <2>2, HostStaysRight
  <1>3. Seq(HeaderType) \subseteq P
    <2> HIDE DEF P
    <2> QED
      BY <1>1, <1>2, AppendInduction
  <1> QED
    BY <1>3

(***************************************************************************)
(* The headers of a name, in what the three builders make of an entry.     *)
(***************************************************************************)
LEMMA HeadersAreLines ==
  ASSUME NEW entry \in EntryType
  PROVE  entry.headers \in Seq(HeaderType) /\ entry.headers \in Seq(LineType)
  <1>1. entry.headers \in Seq(HeaderType)
    BY DEF EntryType
  <1>2. HeaderType \subseteq LineType
    BY DEF HeaderType, LineType
  <1> QED
    BY <1>1, <1>2, SeqMonotonic

LEMMA HasIsNamed ==
  ASSUME NEW headers \in Seq(LineType), NEW name
  PROVE  (\E k \in DOMAIN headers : headers[k].name = name) <=> Named(headers, name) # <<>>
  <1>1. Named(headers, name) = <<>> <=> Range(headers) \cap Lines({name}) = {}
    BY KeepNone DEF Named
  <1>2. \A k \in DOMAIN headers : headers[k] \in LineType
    BY LenProperties, ElementOfSeq
  <1>3. \A k \in DOMAIN headers : headers[k] \in Lines({name}) <=> headers[k].name = name
    BY <1>2 DEF Lines
  <1> QED
    BY <1>1, <1>3 DEF Range

SentLines(name) == {h \in Lines({name}) : IsReplayableHeader(h)}

LEMMA NamedCarried ==
  ASSUME NEW headers \in Seq(LineType), NEW apart, NEW name \in HeaderNames
  PROVE  /\ Carried(headers, apart) \in Seq(LineType)
         /\ name \notin apart => Named(Carried(headers, apart), name) = Keep(headers, SentLines(name))
         /\ name \in apart => Named(Carried(headers, apart), name) = <<>>
  <1> DEFINE S == {h \in Lines(HeaderNames \ apart) : IsReplayableHeader(h)}
             R == Lines({name})
  <1>1. Keep(headers, S) \in Seq(LineType) /\ Keep(Keep(headers, S), R) = Keep(headers, S \cap R)
    <2> HIDE DEF S, R
    <2> QED
      BY KeepType, KeepKeep
  <1>2. ASSUME name \notin apart
        PROVE  S \cap R = SentLines(name)
    BY <1>2 DEF SentLines, Lines, LineType
  <1>3. ASSUME name \in apart
        PROVE  Keep(headers, S \cap R) = <<>>
    <2>1. S \cap R = {}
      BY <1>3 DEF Lines
    <2> QED
      BY <2>1, KeepNone
  <1> QED
    BY <1>1, <1>2, <1>3 DEF Carried, Named

LEMMA NamedWithType ==
  ASSUME NEW headers \in Seq(LineType), NEW entry \in EntryType
  PROVE  /\ WithContentType(headers, entry) \in Seq(LineType)
         /\ \A name \in HeaderNames \ {"Content-Type"} :
               Named(WithContentType(headers, entry), name) = Named(headers, name)
         /\ Named(WithContentType(headers, entry), "Content-Type") =
               IF /\ PostBody(entry) # Empty /\ Get(headers, "Content-Type") = Empty
                  /\ entry.mime # Empty
               THEN <<[name |-> "Content-Type", value |-> entry.mime]>>
               ELSE Named(headers, "Content-Type")
  <1> DEFINE type == [name |-> "Content-Type", value |-> entry.mime]
             rest == Lines(HeaderNames \ {"Content-Type"})
             adds == /\ PostBody(entry) # Empty /\ Get(headers, "Content-Type") = Empty
                     /\ entry.mime # Empty
  <1>1. type \in LineType
    BY DEF EntryType, LineType, HeaderNames
  <1>2. Keep(headers, rest) \in Seq(LineType)
    BY KeepType
  <1>3. Append(Keep(headers, rest), type) \in Seq(LineType)
    BY <1>1, <1>2, AppendProperties
  <1>4. WithContentType(headers, entry) =
           IF adds THEN Append(Keep(headers, rest), type) ELSE headers
    BY DEF WithContentType
  <1>5. ASSUME NEW name \in HeaderNames
        PROVE  Named(Append(Keep(headers, rest), type), name) =
                  IF name = "Content-Type" THEN <<type>> ELSE Named(headers, name)
    <2> DEFINE R == Lines({name})
    <2>1. Keep(Append(Keep(headers, rest), type), R) =
             IF type \in R THEN Append(Keep(Keep(headers, rest), R), type)
             ELSE Keep(Keep(headers, rest), R)
      BY <1>1, <1>2, KeepAppend
    <2>2. Keep(Keep(headers, rest), R) = Keep(headers, rest \cap R)
      <3> HIDE DEF rest, R
      <3> QED
        BY KeepKeep
    <2>3. type \in R <=> name = "Content-Type"
      BY <1>1 DEF Lines
    <2>4. CASE name = "Content-Type"
      <3>1. rest \cap R = {}
        BY <2>4 DEF Lines
      <3>2. Keep(headers, rest \cap R) = <<>>
        BY <3>1, KeepNone
      <3>3. Append(<<>>, type) = <<type>>
        BY <1>1
      <3> HIDE DEF type, rest, R
      <3> QED
        BY <2>1, <2>2, <2>3, <2>4, <3>2, <3>3 DEF Named, R
    <2>5. CASE name # "Content-Type"
      <3>1. rest \cap R = R
        BY <2>5 DEF Lines
      <3> HIDE DEF type, rest
      <3> QED
        BY <2>1, <2>2, <2>3, <2>5, <3>1 DEF Named
    <2> QED
      BY <2>4, <2>5
  <1>6. "Content-Type" \in HeaderNames
    BY DEF HeaderNames
  <1> HIDE DEF rest
  <1> QED
    BY <1>3, <1>4, <1>5, <1>6

(***************************************************************************)
(* What is true of each entry.                                             *)
(***************************************************************************)
\* The hosts and authorities of the properties are those of HostIsRight.
LEMMA HostsAreLines ==
  ASSUME NEW entry \in EntryType
  PROVE  /\ Sendable(entry, "Host") = Keep(entry.headers, HostLines)
         /\ HostRecorded(entry) =
               LET hosts == Keep(entry.headers, HostLines)
                   auths == Keep(entry.headers, AuthorityLines)
               IN  IF hosts # <<>> THEN Last(hosts).value
                   ELSE IF auths # <<>> THEN auths[1].value ELSE Empty
         /\ HostIsRight(entry.headers, RecordedHost(entry.headers))
  <1>1. entry.headers \in Seq(HeaderType) /\ entry.headers \in Seq(LineType)
    BY HeadersAreLines
  <1>2. "Host" \in HeaderNames
    BY DEF HeaderNames
  <1>3. Sendable(entry, "Host") = Keep(entry.headers, HostLines)
    BY <1>1, <1>2, NamedCarried DEF Sendable, SentLines, HostLines
  <1> QED
    BY <1>1, <1>3, RecordedHostIsRight DEF HostRecorded, AuthorityLines

\* What AddCookie makes of a cookie is well written, and is the cookie where that was.
LEMMA SanitisedIsWritten ==
  ASSUME NEW c \in CookieType
  PROVE  /\ WellWritten(Sanitised(c)) /\ (c = Sanitised(c) <=> WellWritten(c))
         /\ c.name # "bad" => Sanitised(c).name # "bad"
  <1>1. /\ Sanitised(c).name = (IF c.name = "broken" THEN "mended" ELSE c.name)
        /\ Sanitised(c).marks = FALSE /\ Sanitised(c).spaces = c.spaces
        /\ Sanitised(c).quotes = c.spaces /\ Sanitised(c) \in CookieType
    BY DEF CookieType, Sanitised
  <1>2. WellWritten(Sanitised(c)) /\ (c.name # "bad" => Sanitised(c).name # "bad")
    BY <1>1 DEF WellWritten
  <1>3. c = Sanitised(c) => WellWritten(c)
    BY <1>2
  <1>4. WellWritten(c) => c = Sanitised(c)
    BY <1>1 DEF WellWritten, CookieType
  <1> QED
    BY <1>2, <1>3, <1>4

LEMMA CookiesAreWritten ==
  ASSUME NEW entry \in EntryType
  PROVE  /\ DOMAIN AddCookies(entry.cookies) = DOMAIN entry.cookies
         /\ \A j \in DOMAIN entry.cookies :
              LET c == entry.cookies[j]
                  d == AddCookies(entry.cookies)[j]
              IN  /\ WellWritten(d) /\ (c = d <=> WellWritten(c))
                  /\ c.name # "bad" => d.name # "bad"
  <1>1. \A j \in DOMAIN entry.cookies : entry.cookies[j] \in CookieType
    BY ElementOfSeq DEF EntryType
  <1> QED
    BY <1>1, SanitisedIsWritten DEF AddCookies

LEMMA EntryIsFaithful ==
  ASSUME NEW entry \in EntryType, NEW ignore \in BOOLEAN
  PROVE  /\ \A name \in {"Accept", "Accept-Encoding"} :
               Named(Request(entry, ignore).headers, name) = Sendable(entry, name)
         /\ \A name \in {"Cookie", "Host", ":authority", "bad"} :
               ~HasHeader(Request(entry, ignore), name)
         /\ HostRecorded(entry) # Empty =>
               Request(entry, ignore).host = HostRecorded(entry)
         /\ Request(entry, ignore).body # Empty /\ entry.mime # Empty =>
               Get(Request(entry, ignore).headers, "Content-Type") # Empty
  <1> DEFINE hs == entry.headers
             carried == Carried(hs, {"Cookie", "Host"})
             lines == WithContentType(carried, entry)
  <1>1. /\ Request(entry, ignore).headers = lines
        /\ Request(entry, ignore).host = RecordedHost(hs)
        /\ Request(entry, ignore).body = PostBody(entry)
    BY DEF Request, RequestHost
  <1>2. hs \in Seq(LineType)
    BY HeadersAreLines
  <1>3. carried \in Seq(LineType)
    BY <1>2, NamedCarried DEF HeaderNames
  <1>4. /\ lines \in Seq(LineType)
        /\ \A name \in HeaderNames \ {"Content-Type"} : Named(lines, name) = Named(carried, name)
        /\ Named(lines, "Content-Type") =
              IF /\ PostBody(entry) # Empty /\ Get(carried, "Content-Type") = Empty
                 /\ entry.mime # Empty
              THEN <<[name |-> "Content-Type", value |-> entry.mime]>>
              ELSE Named(carried, "Content-Type")
    <2> HIDE DEF carried
    <2> QED
      BY <1>3, NamedWithType
  <1> HIDE DEF lines
  <1>5. ASSUME NEW name \in {"Accept", "Accept-Encoding"}
        PROVE  Named(lines, name) = Sendable(entry, name)
    <2>1. name \in HeaderNames \ {"Content-Type"}
      BY DEF HeaderNames
    <2>2. Named(carried, name) = Keep(hs, SentLines(name))
      BY <1>2, <2>1, NamedCarried
    <2>3. Sendable(entry, name) = Keep(hs, SentLines(name))
      BY <1>2, <2>1, NamedCarried DEF Sendable
    <2> QED
      BY <1>4, <2>1, <2>2, <2>3
  <1>6. ASSUME NEW name \in {"Cookie", "Host", ":authority", "bad"}
        PROVE  ~HasHeader(Request(entry, ignore), name)
    <2>1. name \in HeaderNames \ {"Content-Type"}
      BY DEF HeaderNames
    <2>2. Named(carried, name) = <<>>
      <3>1. CASE name \in {"Cookie", "Host"}
        BY <1>2, <2>1, <3>1, NamedCarried
      <3>2. CASE name \in {":authority", "bad"}
        <4>1. SentLines(name) = {}
          BY <3>2 DEF SentLines, Lines, IsReplayableHeader, IsPseudoHeader
        <4>2. Named(carried, name) = Keep(hs, SentLines(name))
          BY <1>2, <2>1, <3>2, NamedCarried
        <4>3. Keep(hs, {}) = <<>>
          BY <1>2, KeepNone
        <4> QED
          BY <4>1, <4>2, <4>3
      <3> QED
        BY <3>1, <3>2
    <2>3. Named(lines, name) = <<>>
      BY <1>4, <2>1, <2>2
    <2> QED
      BY <1>1, <1>4, <2>3, HasIsNamed DEF HasHeader
  <1>7. HostRecorded(entry) # Empty => RecordedHost(hs) = HostRecorded(entry)
    BY HostsAreLines DEF HostIsRight
  <1>8. PostBody(entry) # Empty /\ entry.mime # Empty => Get(lines, "Content-Type") # Empty
    <2> HIDE DEF carried
    <2> SUFFICES ASSUME PostBody(entry) # Empty, entry.mime # Empty
                 PROVE  Get(lines, "Content-Type") # Empty
      OBVIOUS
    <2>1. CASE Get(carried, "Content-Type") = Empty
      <3>1. Named(lines, "Content-Type") = <<[name |-> "Content-Type", value |-> entry.mime]>>
        BY <1>4, <2>1
      <3> QED
        BY <3>1 DEF Get
    <2>2. CASE Get(carried, "Content-Type") # Empty
      <3>1. Named(lines, "Content-Type") = Named(carried, "Content-Type")
        BY <1>4, <2>2
      <3> QED
        BY <2>2, <3>1 DEF Get
    <2> QED
      BY <2>1, <2>2
  <1> QED
    BY <1>1, <1>5, <1>6, <1>7, <1>8

\* Leaving a header out and adding the type can be done in either order.
LEMMA FetchLeavesOut ==
  ASSUME NEW entry \in EntryType
  PROVE  FetchRequest(entry) = [Request(entry, FALSE) EXCEPT !.headers =
                                   Keep(@, Lines(HeaderNames \ {"Accept-Encoding"}))]
  <1> DEFINE hs == entry.headers
             other == Lines(HeaderNames \ {"Accept-Encoding"})
             rest == Lines(HeaderNames \ {"Content-Type"})
             run == Carried(hs, {"Cookie", "Host"})
             fetch == Carried(hs, {"Cookie", "Host", "Accept-Encoding"})
             type == [name |-> "Content-Type", value |-> entry.mime]
             adds == PostBody(entry) # Empty /\ entry.mime # Empty
                       /\ Get(run, "Content-Type") = Empty
  <1>1. hs \in Seq(LineType) /\ "Content-Type" \in HeaderNames
    BY HeadersAreLines DEF HeaderNames
  <1>2. run \in Seq(LineType) /\ fetch \in Seq(LineType)
    BY <1>1, NamedCarried
  <1>3. fetch = Keep(run, other)
    <2> DEFINE S == {h \in Lines(HeaderNames \ {"Cookie", "Host"}) : IsReplayableHeader(h)}
               R == {h \in Lines(HeaderNames \ {"Cookie", "Host", "Accept-Encoding"}) :
                        IsReplayableHeader(h)}
    <2>1. S \cap other = R
      BY DEF Lines
    <2>2. Keep(Keep(hs, S), other) = Keep(hs, S \cap other)
      <3> HIDE DEF S, other
      <3> QED
        BY <1>1, KeepKeep
    <2> QED
      BY <2>1, <2>2 DEF Carried
  <1>4. Named(run, "Content-Type") = Named(fetch, "Content-Type")
    BY <1>1, NamedCarried
  <1>5. Get(run, "Content-Type") = Get(fetch, "Content-Type")
    BY <1>4 DEF Get
  <1>6. type \in LineType
    BY DEF EntryType, LineType, HeaderNames
  <1>7. Keep(Append(Keep(run, rest), type), other) = Append(Keep(fetch, rest), type)
    <2>1. type \in other
      <3>1. "Content-Type" \in HeaderNames \ {"Accept-Encoding"}
        BY DEF HeaderNames
      <3> QED
        BY <1>6, <3>1 DEF Lines
    <2>2. rest \cap other = other \cap rest
      OBVIOUS
    <2> HIDE DEF type, other, rest, run
    <2>3. Keep(run, rest) \in Seq(LineType)
      BY <1>2, KeepType
    <2>4. Keep(Append(Keep(run, rest), type), other) = Append(Keep(Keep(run, rest), other), type)
      BY <1>6, <2>1, <2>3, KeepAppend
    <2>5. /\ Keep(Keep(run, rest), other) = Keep(run, rest \cap other)
          /\ Keep(Keep(run, other), rest) = Keep(run, other \cap rest)
      BY <1>2, KeepKeep
    <2> QED
      BY <1>3, <2>2, <2>4, <2>5
  <1>8. WithContentType(fetch, entry) = Keep(WithContentType(run, entry), other)
    <2>1. WithContentType(fetch, entry) = IF adds THEN Append(Keep(fetch, rest), type) ELSE fetch
      BY <1>5 DEF WithContentType
    <2>2. WithContentType(run, entry) = IF adds THEN Append(Keep(run, rest), type) ELSE run
      BY DEF WithContentType
    <2> HIDE DEF adds, type, other, rest, run, fetch
    <2>3. CASE adds
      BY <1>7, <2>1, <2>2, <2>3
    <2>4. CASE ~adds
      BY <1>3, <2>1, <2>2, <2>4
    <2> QED
      BY <2>3, <2>4
  <1>9. /\ FetchRequest(entry) = [Request(entry, FALSE) EXCEPT !.headers =
                                    WithContentType(fetch, entry)]
        /\ Request(entry, FALSE).headers = WithContentType(run, entry)
    BY DEF FetchRequest, Request
  <1> QED
    BY <1>8, <1>9

\* curl adds the type at the end, if it adds it.
LEMMA NamedCurl ==
  ASSUME NEW entry \in EntryType
  PROVE  /\ Curl(entry).headers \in Seq(LineType)
         /\ \A name \in HeaderNames \ {"Content-Type"} :
               Named(Curl(entry).headers, name) = Named(CurlHeaders(entry), name)
         /\ Named(Curl(entry).headers, "Content-Type") =
               IF /\ PostBody(entry) # Empty /\ entry.mime # Empty
                  /\ ~HasHeader(entry, "Content-Type")
               THEN Append(Named(CurlHeaders(entry), "Content-Type"),
                           [name |-> "Content-Type", value |-> entry.mime])
               ELSE Named(CurlHeaders(entry), "Content-Type")
  <1> DEFINE carried == CurlHeaders(entry)
             type == [name |-> "Content-Type", value |-> entry.mime]
             adds == /\ PostBody(entry) # Empty /\ entry.mime # Empty
                     /\ ~HasHeader(entry, "Content-Type")
  <1>1. type \in LineType
    BY DEF EntryType, LineType, HeaderNames
  <1>2. carried \in Seq(LineType)
    BY HeadersAreLines, NamedCarried DEF CurlHeaders, HeaderNames
  <1>3. Curl(entry).headers = IF adds THEN Append(carried, type) ELSE carried
    BY DEF Curl
  <1>4. type \in Lines({"Content-Type"}) /\ \A name : type \in Lines({name}) => name = "Content-Type"
    BY <1>1 DEF Lines
  <1> HIDE DEF carried, type, adds
  <1>5. Append(carried, type) \in Seq(LineType)
    BY <1>1, <1>2, AppendProperties
  <1>6. ASSUME NEW name
        PROVE  Named(Append(carried, type), name) =
                  IF type \in Lines({name}) THEN Append(Named(carried, name), type)
                  ELSE Named(carried, name)
    BY <1>1, <1>2, KeepAppend DEF Named
  <1>7. CASE adds
    <2>1. Curl(entry).headers = Append(carried, type)
      BY <1>3, <1>7
    <2> QED
      BY <1>4, <1>5, <1>6, <1>7, <2>1 DEF carried, type, adds
  <1>8. CASE ~adds
    <2>1. Curl(entry).headers = carried
      BY <1>3, <1>8
    <2> QED
      BY <1>2, <1>8, <2>1 DEF carried, type, adds
  <1> QED
    BY <1>7, <1>8

LEMMA CurlAgrees ==
  ASSUME NEW entry \in EntryType
  PROVE  /\ \A name \in {"Accept", "Accept-Encoding", ":authority", "bad"} :
               Named(Curl(entry).headers, name) = Named(Request(entry, FALSE).headers, name)
         /\ ~HasHeader(entry, ":authority") =>
               LET hosts == Named(Curl(entry).headers, "Host")
               IN  Request(entry, FALSE).host
                      = (IF hosts = <<>> THEN Empty ELSE Last(hosts).value)
         /\ entry.cookies # <<>> => ~HasHeader(Curl(entry), "Cookie")
         /\ (\A h \in Range(Named(entry.headers, "Content-Type")) :
                h.value \notin {Empty, "bad"}) =>
               Named(Curl(entry).headers, "Content-Type")
                  = Named(Request(entry, FALSE).headers, "Content-Type")
  <1> DEFINE hs == entry.headers
             apart == IF entry.cookies # <<>> THEN {"Cookie"} ELSE {}
             carried == Carried(hs, apart)
             run == Carried(hs, {"Cookie", "Host"})
             lines == WithContentType(run, entry)
             sent == Curl(entry).headers
             type == [name |-> "Content-Type", value |-> entry.mime]
  <1>1. /\ hs \in Seq(LineType) /\ "Content-Type" \in HeaderNames
        /\ run \in Seq(LineType)
        /\ Request(entry, FALSE).headers = lines
        /\ Request(entry, FALSE).host = RecordedHost(hs)
        /\ CurlHeaders(entry) = carried
    BY HeadersAreLines, NamedCarried DEF HeaderNames, Request, RequestHost, CurlHeaders
  <1>2. /\ sent \in Seq(LineType)
        /\ \A name \in HeaderNames \ {"Content-Type"} : Named(sent, name) = Named(carried, name)
        /\ Named(sent, "Content-Type") =
              IF /\ PostBody(entry) # Empty /\ entry.mime # Empty
                 /\ ~HasHeader(entry, "Content-Type")
              THEN Append(Named(carried, "Content-Type"), type)
              ELSE Named(carried, "Content-Type")
    BY <1>1, NamedCurl
  <1>3. /\ \A name \in HeaderNames \ {"Content-Type"} : Named(lines, name) = Named(run, name)
        /\ Named(lines, "Content-Type") =
              IF /\ PostBody(entry) # Empty /\ Get(run, "Content-Type") = Empty
                 /\ entry.mime # Empty
              THEN <<type>> ELSE Named(run, "Content-Type")
    <2> HIDE DEF run
    <2> QED
      BY <1>1, NamedWithType
  <1>4. /\ \A name \in HeaderNames \ {"Cookie"} : Named(carried, name) = Keep(hs, SentLines(name))
        /\ \A name \in HeaderNames \ {"Cookie", "Host"} : Named(run, name) = Keep(hs, SentLines(name))
        /\ entry.cookies # <<>> => Named(carried, "Cookie") = <<>>
    BY <1>1, NamedCarried DEF HeaderNames
  <1> HIDE DEF carried, run, lines, sent
  <1>5. ASSUME NEW name \in {"Accept", "Accept-Encoding", ":authority", "bad"}
        PROVE  Named(sent, name) = Named(lines, name)
    <2>1. name \in HeaderNames \ {"Content-Type"} /\ name \in HeaderNames \ {"Cookie", "Host"}
      BY DEF HeaderNames
    <2> QED
      BY <1>2, <1>3, <1>4, <2>1
  <1>6. ASSUME ~HasHeader(entry, ":authority")
        PROVE  LET hosts == Named(sent, "Host")
               IN  RecordedHost(hs) = (IF hosts = <<>> THEN Empty ELSE Last(hosts).value)
    <2>1. Named(sent, "Host") = Keep(hs, HostLines)
      <3>1. "Host" \in HeaderNames \ {"Content-Type"} /\ "Host" \in HeaderNames \ {"Cookie"}
        BY DEF HeaderNames
      <3> QED
        BY <1>2, <1>4, <3>1 DEF SentLines, HostLines
    <2>2. Keep(hs, Lines({":authority"})) = <<>>
      BY <1>1, <1>6, HasIsNamed DEF HasHeader, Named
    <2>3. Keep(hs, AuthorityLines) = <<>>
      <3>1. Range(hs) \cap Lines({":authority"}) = {}
        BY <1>1, <2>2, KeepNone
      <3>2. Range(hs) \cap AuthorityLines = {}
        BY <3>1 DEF AuthorityLines
      <3> QED
        BY <1>1, <3>2, KeepNone
    <2> QED
      BY <2>1, <2>2, <2>3, HostsAreLines DEF HostIsRight
  <1>7. ASSUME entry.cookies # <<>>
        PROVE  ~HasHeader(Curl(entry), "Cookie")
    <2>1. Named(sent, "Cookie") = <<>>
      <3>1. "Cookie" \in HeaderNames \ {"Content-Type"}
        BY DEF HeaderNames
      <3> QED
        BY <1>2, <1>4, <1>7, <3>1
    <2> QED
      BY <1>2, <2>1, HasIsNamed DEF HasHeader, sent
  <1>8. ASSUME \A h \in Range(Named(hs, "Content-Type")) : h.value \notin {Empty, "bad"}
        PROVE  Named(sent, "Content-Type") = Named(lines, "Content-Type")
    <2> DEFINE types == Named(hs, "Content-Type")
    <2>1. Keep(hs, SentLines("Content-Type")) = types
      <3>1. Range(types) = Range(hs) \cap Lines({"Content-Type"})
        BY <1>1, KeepRange DEF Named
      <3>2. Range(hs) \cap SentLines("Content-Type") = Range(hs) \cap Lines({"Content-Type"})
        BY <1>8, <3>1 DEF SentLines, Lines, IsReplayableHeader, IsPseudoHeader
      <3> QED
        BY <1>1, <3>2, KeepSame DEF Named
    <2>2. Named(carried, "Content-Type") = types /\ Named(run, "Content-Type") = types
      BY <1>1, <1>4, <2>1
    <2>3. HasHeader(entry, "Content-Type") <=> types # <<>>
      BY <1>1, HasIsNamed DEF HasHeader
    <2>4. types \in Seq(LineType)
      BY <1>1, KeepType DEF Named
    <2> HIDE DEF types
    <2>5. CASE types = <<>>
      <3>1. Get(run, "Content-Type") = Empty
        BY <2>2, <2>5 DEF Get
      <3>2. Append(types, type) = <<type>>
        BY <2>5
      <3> QED
        BY <1>2, <1>3, <2>2, <2>3, <2>5, <3>1, <3>2
    <2>6. CASE types # <<>>
      <3>1. types[1] \in Range(types)
        <4>1. Len(types) \in Nat /\ Len(types) # 0 /\ DOMAIN types = 1..Len(types)
          BY <2>4, <2>6, LenProperties, EmptySeq
        <4> QED
          BY <4>1 DEF Range
      <3>2. Get(run, "Content-Type") # Empty
        BY <1>8, <2>2, <2>6, <3>1 DEF Get, types
      <3> QED
        BY <1>2, <1>3, <2>2, <2>3, <2>6, <3>2
    <2> QED
      BY <2>5, <2>6
  <1> QED
    BY <1>1, <1>5, <1>6, <1>7, <1>8 DEF sent

\* Every header, the type of the body and every cookie can be sent.
LEMMA ValidCanBeSent ==
  ASSUME NEW entry \in EntryType, ValidEntry(entry),
         entry.method # "bad", entry.url.scheme = "web", entry.url.host,
         RequestHost(entry) # "bad", entry.mime # "bad",
         \A k \in DOMAIN entry.cookies : entry.cookies[k].name # "bad"
  PROVE  /\ entry.stamp = "good" /\ CanBuild(entry)
         /\ CanSend(entry.url, Request(entry, FALSE))
  <1> DEFINE run == Carried(entry.headers, {"Cookie", "Host"})
             rest == Lines(HeaderNames \ {"Content-Type"})
             type == [name |-> "Content-Type", value |-> entry.mime]
             lines == WithContentType(run, entry)
  <1>1. entry.headers \in Seq(LineType) /\ type \in LineType
    BY HeadersAreLines DEF EntryType, LineType, HeaderNames
  <1>2. run \in Seq(LineType) /\ \A h \in Range(run) : h.value # "bad"
    <2>1. run \in Seq(LineType)
      BY <1>1, NamedCarried DEF HeaderNames
    <2> DEFINE S == {h \in Lines(HeaderNames \ {"Cookie", "Host"}) : IsReplayableHeader(h)}
    <2>2. Range(Keep(entry.headers, S)) = Range(entry.headers) \cap S
      <3> HIDE DEF S
      <3> QED
        BY <1>1, KeepRange
    <2>3. run = Keep(entry.headers, S)
      BY DEF Carried
    <2>4. \A h \in S : h.value # "bad"
      BY DEF IsReplayableHeader
    <2> QED
      BY <2>1, <2>2, <2>3, <2>4
  <1>3. type.value # "bad"
    OBVIOUS
  <1> HIDE DEF run, type, rest
  <1>4. \A h \in Range(Append(Keep(run, rest), type)) : h.value # "bad"
    <2>1. Keep(run, rest) \in Seq(LineType) /\ Range(Keep(run, rest)) \subseteq Range(run)
      BY <1>2, KeepType, KeepRange
    <2>2. Range(Append(Keep(run, rest), type)) = Range(Keep(run, rest)) \cup {type}
      BY <1>1, <2>1, RangeOfAppend
    <2> QED
      BY <1>2, <1>3, <2>1, <2>2
  <1>5. lines \in {run, Append(Keep(run, rest), type)}
    BY DEF WithContentType, rest, type
  <1>6. \A k \in DOMAIN lines : lines[k].value # "bad"
    BY <1>2, <1>4, <1>5 DEF Range
  <1>7. /\ Request(entry, FALSE).headers = lines
        /\ Request(entry, FALSE).host = RequestHost(entry)
    BY DEF Request, run
  <1>8. \A k \in DOMAIN Request(entry, FALSE).cookies :
           Request(entry, FALSE).cookies[k].name # "bad"
    BY CookiesAreWritten DEF Request
  <1> QED
    BY <1>6, <1>7, <1>8 DEF ValidEntry, CanBuild, CanSend

(***************************************************************************)
(* The properties of the entries of a document.                            *)
(***************************************************************************)
\* Of a recording with any number of headers in any order, Run sends every legal header it
\* should, none that it should not, the recorded host, a body with its type, and each
\* cookie in its place, as it was recorded where it was well written (utils.go 178-233).
THEOREM RequestStaysFaithful == Spec => []RequestIsFaithful
  <1>1. CommandsInv => RequestIsFaithful
    <2> SUFFICES ASSUME CommandsInv, NEW k \in DOMAIN Entries, NEW ignore \in BOOLEAN
                 PROVE  LET entry   == Entries[k]
                            request == Request(entry, ignore)
                        IN  CanBuild(entry) =>
                              /\ \A name \in {"Accept", "Accept-Encoding"} :
                                    Named(request.headers, name) = Sendable(entry, name)
                              /\ \A name \in {"Cookie", "Host", ":authority", "bad"} :
                                    ~HasHeader(request, name)
                              /\ HostRecorded(entry) # Empty => request.host = HostRecorded(entry)
                              /\ request.body # Empty /\ entry.mime # Empty =>
                                    Get(request.headers, "Content-Type") # Empty
                              /\ ignore => request.cookies = <<>>
                              /\ ~ignore =>
                                    /\ DOMAIN request.cookies = DOMAIN entry.cookies
                                    /\ \A j \in DOMAIN entry.cookies :
                                         /\ WellWritten(request.cookies[j])
                                         /\ WellWritten(entry.cookies[j]) =>
                                               request.cookies[j] = entry.cookies[j]
      BY DEF RequestIsFaithful
    <2>1. Entries[k] \in EntryType
      BY EntriesTyped, ElementOfSeq DEF CommandsInv
    <2>2. Request(Entries[k], ignore).cookies
             = (IF ignore THEN <<>> ELSE AddCookies(Entries[k].cookies))
      BY DEF Request
    <2>3. ~ignore =>
            /\ DOMAIN Request(Entries[k], ignore).cookies = DOMAIN Entries[k].cookies
            /\ \A j \in DOMAIN Entries[k].cookies :
                 /\ WellWritten(Request(Entries[k], ignore).cookies[j])
                 /\ WellWritten(Entries[k].cookies[j]) =>
                       Request(Entries[k], ignore).cookies[j] = Entries[k].cookies[j]
      BY <2>1, <2>2, CookiesAreWritten
    <2> QED
      BY <2>1, <2>2, <2>3, EntryIsFaithful
  <1> QED
    BY <1>1, CommandsInvariant, PTL

\* Whatever the headers and cookies, Run, Fetch and curl make of an entry the same request,
\* but for what each of them leaves out, and for the cookies that are not well written,
\* each of which curl writes otherwise than Run (utils.go 178-233, fetch.go 103-150,
\* curl.go 63-114).
THEOREM ConversionsStayAgreed == Spec => []ConversionsAgree
  <1>1. CommandsInv => ConversionsAgree
    <2> SUFFICES ASSUME CommandsInv, NEW k \in DOMAIN Entries
                 PROVE  LET entry == Entries[k]
                            run   == Request(entry, FALSE)
                            curl  == Curl(entry)
                        IN  CanBuild(entry) =>
                              /\ FetchRequest(entry) = [run EXCEPT !.headers =
                                     Keep(@, Lines(HeaderNames \ {"Accept-Encoding"}))]
                              /\ curl.body = run.body
                              /\ curl.cookies = entry.cookies
                              /\ DOMAIN run.cookies = DOMAIN entry.cookies
                              /\ \A j \in DOMAIN entry.cookies :
                                    curl.cookies[j] = run.cookies[j]
                                       <=> WellWritten(entry.cookies[j])
                              /\ \A name \in {"Accept", "Accept-Encoding", ":authority", "bad"} :
                                    Named(curl.headers, name) = Named(run.headers, name)
                              /\ ~HasHeader(entry, ":authority") =>
                                    LET hosts == Named(curl.headers, "Host")
                                    IN  run.host = (IF hosts = <<>> THEN Empty
                                                    ELSE Last(hosts).value)
                              /\ entry.cookies # <<>> => ~HasHeader(curl, "Cookie")
                              /\ (\A h \in Range(Named(entry.headers, "Content-Type")) :
                                      h.value \notin {Empty, "bad"}) =>
                                    Named(curl.headers, "Content-Type")
                                       = Named(run.headers, "Content-Type")
      BY DEF ConversionsAgree
    <2>1. Entries[k] \in EntryType
      BY EntriesTyped, ElementOfSeq DEF CommandsInv
    <2>2. /\ Curl(Entries[k]).body = Request(Entries[k], FALSE).body
          /\ Curl(Entries[k]).cookies = Entries[k].cookies
          /\ Request(Entries[k], FALSE).cookies = AddCookies(Entries[k].cookies)
      BY DEF Curl, Request
    <2>3. /\ DOMAIN Request(Entries[k], FALSE).cookies = DOMAIN Entries[k].cookies
          /\ \A j \in DOMAIN Entries[k].cookies :
               Curl(Entries[k]).cookies[j] = Request(Entries[k], FALSE).cookies[j]
                  <=> WellWritten(Entries[k].cookies[j])
      BY <2>1, <2>2, CookiesAreWritten
    <2> QED
      BY <2>1, <2>2, <2>3, FetchLeavesOut, CurlAgrees
  <1> QED
    BY <1>1, CommandsInvariant, PTL

\* The status 0 of `hargo validate' is true of the document.
ValidInv == command = "validate" /\ status = 0 => Validate

LEMMA ValidHolds ==
  ASSUME CommandsInv, ValidInv, [Next]_vars
  PROVE  ValidInv'
  <1> SUFFICES ASSUME command' = "validate", status' = 0
               PROVE  Validate'
    BY DEF ValidInv
  <1>1. UNCHANGED inputs
    BY DEF Next, vars, Open, RunValidate, Compile, DecodeDocument, PrintHeading, PrintEntry,
           ReturnRendered, CreateFile, CopyChunk, CopyDone, Killed
  <1>2. command = "validate" /\ Validate' = Validate
    <2>1. Entries' = Entries /\ doc' = doc /\ command' = command
      BY <1>1 DEF inputs, Entries
    <2> QED
      BY <2>1 DEF Validate
  <1>3. CASE status' = status
    BY <1>2, <1>3 DEF ValidInv
  <1>4. CASE status' # status
    <2>1. pc \notin {"compile", "decode", "heading", "entry", "create", "copy"}
      BY <1>2 DEF CommandsInv, RenderInv, Conversions
    <2>2. Open \/ RunValidate
      BY <1>4, <2>1 DEF Next, vars, Compile, DecodeDocument, PrintHeading, PrintEntry,
                        ReturnRendered, CreateFile, CopyChunk, CopyDone, Killed
    <2>3. Validate
      BY <1>4, <2>2 DEF Open, RunValidate, Check, End, ExitStatus
    <2> QED
      BY <1>2, <2>3
  <1> QED
    BY <1>3, <1>4

THEOREM ValidInvariant == Spec => []ValidInv
  <1>1. Init => ValidInv
    BY DEF Init, ValidInv
  <1>2. CommandsInv /\ ValidInv /\ [Next]_vars => ValidInv'
    BY ValidHolds
  <1> QED
    BY <1>1, <1>2, CommandsInvariant, PTL DEF Spec

\* Of documents of any length and entries with any headers: what `hargo validate' accepts
\* can be built, sent and placed in time, but for the exceptions named
\* (validate.go 22-102).
THEOREM ValidatedStaysSendable == Spec => []ValidatedCanBeSent
  <1>1. CommandsInv /\ ValidInv => ValidatedCanBeSent
    <2> SUFFICES ASSUME CommandsInv, ValidInv, NEW entry \in Range(Entries), Accepted(entry),
                        entry.method # "bad", entry.url.scheme = "web", entry.url.host,
                        RequestHost(entry) # "bad", entry.mime # "bad",
                        \A j \in DOMAIN entry.cookies : entry.cookies[j].name # "bad"
                 PROVE  entry.stamp = "good" /\ CanBuild(entry)
                          /\ CanSend(entry.url, Request(entry, FALSE))
      BY DEF ValidatedCanBeSent
    <2>1. PICK k \in DOMAIN Entries : entry = Entries[k]
      BY DEF Range
    <2>2. entry \in EntryType
      BY <2>1, EntriesTyped, ElementOfSeq DEF CommandsInv
    <2>3. ValidEntry(entry)
      BY <2>1 DEF Accepted, ValidInv, Validate
    <2> QED
      BY <2>2, <2>3, ValidCanBeSent
  <1> QED
    BY <1>1, CommandsInvariant, ValidInvariant, PTL
===============================================================================
