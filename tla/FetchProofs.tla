------------------------------ MODULE FetchProofs ------------------------------
(***************************************************************************)
(* Proofs about Fetch, for any number of calls that share the directory,   *)
(* any recordings and whatever the directory held before.                  *)
(***************************************************************************)
EXTENDS Fetch, SequenceTheorems, FiniteSetTheorems, TLAPS

\* The directory is a function from the names in use.
DirIsFunction == dir = [n \in DOMAIN dir |-> dir[n]]

\* A call is past the head of the loop only with an entry in hand.
EntryInv ==
    \A r \in Runs : pc[r] \in {"issue", "inflight", "probe", "copy", "close"} => HasEntry(r)

\* A call has a file open exactly while it writes one, and that file is its own.
OpenInv ==
    \A r \in Runs :
        /\ open[r] # <<>> <=> pc[r] \in {"copy", "close"}
        /\ \A n \in DOMAIN dir : open[r] = <<n>> => dir[n].run = r /\ dir[n].entry = cur[r]

\* All the names the search has passed are taken.
SearchInv ==
    \A r \in Runs : pc[r] = "probe" =>
        \A i \in 0..(probe[r] - 1) : Name(Base(r), i) \in DOMAIN dir

\* The inductive invariant.
FetchInv ==
    TypeOK /\ DirIsFunction /\ EntryInv /\ OpenInv /\ SearchInv /\ NamesAreDense

-------------------------------------------------------------------------------
(***************************************************************************)
(* The names a call can ask for are file names, with any suffix added.     *)
(***************************************************************************)
LEMMA NameType ==
  ASSUME NEW b \in FileName, NEW i \in Nat
  PROVE  Name(b, i) \in FileName
  <1>1. CASE i = 0
    BY <1>1 DEF Name
  <1>2. CASE i # 0
    <2>1. b.suffixes \in Seq(Nat)
      BY DEF FileName
    <2>2. Append(b.suffixes, i) \in Seq(Nat)
      BY <2>1, AppendProperties
    <2>3. Name(b, i) = [b EXCEPT !.suffixes = Append(b.suffixes, i)]
      BY <1>2 DEF Name
    <2> QED
      BY <2>2, <2>3 DEF FileName
  <1> QED
    BY <1>1, <1>2

LEMMA BaseType ==
  ASSUME TypeOK, NEW r \in Runs, HasEntry(r)
  PROVE  Base(r) \in Bases /\ Base(r) \in FileName
  <1>1. har[r] \in Recordings /\ har[r] \in Seq(EntryType)
    BY RecordingsAssumption DEF TypeOK
  <1>2. cur[r] \in Nat \ {0}
    BY DEF TypeOK
  <1>3. cur[r] \in 1..Len(har[r]) /\ DOMAIN har[r] = 1..Len(har[r])
    BY <1>1, <1>2, LenProperties DEF HasEntry
  <1>4. Base(r) \in {har[r][i].base : i \in DOMAIN har[r]}
    BY <1>3 DEF Base
  <1>5. Base(r) \in Bases
    BY <1>1, <1>4, Zenon DEF Bases
  <1>6. har[r][cur[r]] \in EntryType
    BY <1>1, <1>3, ElementOfSeq
  <1> QED
    BY <1>5, <1>6 DEF Base, EntryType

(***************************************************************************)
(* The initial states satisfy the invariant.                               *)
(***************************************************************************)
LEMMA InitInv == Init => FetchInv
  <1> SUFFICES ASSUME Init PROVE FetchInv
    OBVIOUS
  <1>1. PICK names \in Leftovers : dir = [n \in names |-> Older]
    BY DEF Init
  <1>2. DOMAIN dir = names /\ names \subseteq FileName
    BY <1>1, LeftoversAssumption
  <1>3. Older \in FileType
    BY DEF Older, FileType
  <1>4. TypeOK
    <2>1. \A n \in DOMAIN dir : dir[n] \in FileType
      BY <1>1, <1>3
    <2>2. open \in [Runs -> {<<>>} \cup {<<n>> : n \in DOMAIN dir}]
      BY Zenon DEF Init
    <2> QED
      BY <1>2, <2>1, <2>2 DEF Init, TypeOK
  <1>5. DirIsFunction
    BY <1>1 DEF DirIsFunction
  <1>6. EntryInv /\ OpenInv /\ SearchInv
    BY DEF Init, EntryInv, OpenInv, SearchInv
  <1>7. NamesAreDense
    BY DEF Init, NamesAreDense
  <1> QED
    BY <1>4, <1>5, <1>6, <1>7 DEF FetchInv

-------------------------------------------------------------------------------
(***************************************************************************)
(* The steps that leave the directory and the allocator alone, but for the *)
(* two that move the search for a name.                                    *)
(***************************************************************************)
Quiet(r) ==
    \/ Prepare(r) \/ Refuse(r) \/ StopCancelled(r) \/ BuildRequest(r) \/ SkipEntry(r)
    \/ Issue(r) \/ NoBody(r) \/ CreateFails(r) \/ CopyFails(r) \/ Close(r) \/ Finish(r)
    \/ Cancel(r)

(***************************************************************************)
(* What a failed download does to the variables of its call.               *)
(***************************************************************************)
LEMMA FailureFacts ==
  ASSUME TypeOK, NEW r \in Runs, NEW from, DownloadFails(r, from)
  PROVE  /\ pc[r] = from /\ pc'[r] \in {"entry", "done"}
         /\ \A q \in Runs \ {r} : pc'[q] = pc[q] /\ cur'[q] = cur[q]
         /\ pc' \in [Runs -> {"start", "entry", "issue", "inflight", "probe", "copy",
                              "close", "done"}]
         /\ cur' \in [Runs -> Nat \ {0}]
         /\ failed' \in [Runs -> Nat]
         /\ verdict' \in [Runs -> {"none", "refused", "ctx", "failed", "nil"}]
  <1> USE DEF TypeOK, DownloadFails, Return, Goto, CountFailure
  <1>1. CASE ctxDone[r]
    BY <1>1
  <1>2. CASE ~ctxDone[r]
    <2>1. /\ pc[r] = from /\ pc' = [pc EXCEPT ![r] = "entry"]
          /\ failed' = [failed EXCEPT ![r] = @ + 1]
          /\ cur' = [cur EXCEPT ![r] = @ + 1]
          /\ verdict' = verdict
      BY <1>2, Zenon
    <2>2. cur \in [Runs -> Nat \ {0}] /\ failed \in [Runs -> Nat]
      BY Zenon
    <2>3. cur' \in [Runs -> Nat \ {0}] /\ failed' \in [Runs -> Nat]
      BY <2>1, <2>2
    <2>4. \A q \in Runs \ {r} : cur'[q] = cur[q]
      BY <2>1, <2>2
    <2> QED
      BY <2>1, <2>3, <2>4
  <1> QED
    BY <1>1, <1>2

LEMMA QuietTypes ==
  ASSUME TypeOK, NEW r \in Runs, Quiet(r) PROVE TypeOK'
  <1> USE DEF TypeOK, Goto, Return, CountFailure
  <1>1. CASE Prepare(r)
    BY <1>1 DEF Prepare
  <1>2. CASE Refuse(r)
    BY <1>2 DEF Refuse
  <1>3. CASE StopCancelled(r)
    BY <1>3 DEF StopCancelled
  <1>4. CASE BuildRequest(r)
    BY <1>4 DEF BuildRequest
  <1>5. CASE SkipEntry(r)
    BY <1>5 DEF SkipEntry
  <1>6. CASE Issue(r)
    BY <1>6, FailureFacts DEF Issue
  <1>7. CASE NoBody(r)
    BY <1>7, FailureFacts DEF NoBody
  <1>8. CASE CreateFails(r)
    BY <1>8, FailureFacts DEF CreateFails
  <1>9. CASE CopyFails(r)
    BY <1>9, FailureFacts DEF CopyFails
  <1>10. CASE Close(r)
    BY <1>10 DEF Close
  <1>11. CASE Finish(r)
    BY <1>11 DEF Finish
  <1>12. CASE Cancel(r)
    BY <1>12 DEF Cancel
  <1> QED
    BY <1>1, <1>2, <1>3, <1>4, <1>5, <1>6, <1>7, <1>8, <1>9, <1>10, <1>11, <1>12 DEF Quiet

LEMMA QuietMoves ==
  ASSUME TypeOK, EntryInv, OpenInv, NEW r \in Runs, Quiet(r)
  PROVE  /\ dir' = dir /\ har' = har /\ next' = next /\ probe' = probe
         /\ \A q \in Runs \ {r} : pc'[q] = pc[q] /\ cur'[q] = cur[q] /\ open'[q] = open[q]
         /\ \/ /\ pc'[r] \in {"entry", "done"}
               /\ open'[r] = <<>>
            \/ /\ pc'[r] \in {"issue", "inflight"} /\ HasEntry(r) /\ cur'[r] = cur[r]
               /\ open'[r] = <<>>
            \/ /\ pc'[r] = pc[r] /\ cur'[r] = cur[r] /\ open'[r] = open[r]
  <1>0. /\ pc \in [Runs -> {"start", "entry", "issue", "inflight", "probe", "copy", "close",
                            "done"}]
        /\ pc[r] \notin {"copy", "close"} => open[r] = <<>>
    BY Zenon DEF TypeOK, OpenInv
  <1>1. CASE Prepare(r) \/ Refuse(r) \/ StopCancelled(r) \/ Finish(r)
    BY <1>0, <1>1 DEF Prepare, Refuse, StopCancelled, Finish, Return, Goto
  <1>2. CASE BuildRequest(r)
    BY <1>0, <1>2 DEF BuildRequest, HasEntry, Goto
  <1> USE DEF TypeOK, OpenInv, CountFailure
  <1>3. CASE SkipEntry(r)
    BY <1>3 DEF SkipEntry
  <1>4. CASE Issue(r)
    <2>1. CASE ctxDone[r]
      BY <1>4, <2>1, FailureFacts DEF Issue
    <2>2. CASE ~ctxDone[r]
      <3>1. pc[r] = "issue" /\ pc'[r] = "inflight"
        BY <1>0, <1>4, <2>2 DEF Issue, Goto
      <3>2. UNCHANGED <<dir, har, next, probe, cur, open>>
        BY <1>4, <2>2 DEF Issue
      <3>3. \A q \in Runs \ {r} : pc'[q] = pc[q]
        BY <1>0, <1>4, <2>2 DEF Issue, Goto
      <3> QED
        BY <1>0, <3>1, <3>2, <3>3 DEF EntryInv, HasEntry
    <2> QED
      BY <2>1, <2>2
  <1> USE DEF Goto, Return
  <1>5. CASE NoBody(r)
    <2>1. DownloadFails(r, "inflight") /\ dir' = dir /\ har' = har /\ next' = next
          /\ probe' = probe /\ open' = open
      BY <1>5 DEF NoBody
    <2>2. pc[r] = "inflight"
      BY <2>1, FailureFacts
    <2>3. open[r] = <<>>
      BY <2>2
    <2> QED
      BY <2>1, <2>3, FailureFacts
  <1>6. CASE CreateFails(r)
    <2>1. DownloadFails(r, "probe") /\ dir' = dir /\ har' = har /\ next' = next
          /\ probe' = probe /\ open' = open
      BY <1>6 DEF CreateFails
    <2>2. pc[r] = "probe"
      BY <2>1, FailureFacts
    <2>3. open[r] = <<>>
      BY <2>2
    <2> QED
      BY <2>1, <2>3, FailureFacts
  <1>7. CASE CopyFails(r)
    BY <1>7, FailureFacts DEF CopyFails
  <1>8. CASE Close(r)
    BY <1>8 DEF Close
  <1>9. CASE Cancel(r)
    BY <1>9 DEF Cancel
  <1> QED
    BY <1>1, <1>2, <1>3, <1>4, <1>5, <1>6, <1>7, <1>8, <1>9 DEF Quiet

LEMMA QuietPreserves ==
  ASSUME FetchInv, NEW r \in Runs, Quiet(r) PROVE FetchInv'
  <1>1. TypeOK /\ DirIsFunction /\ EntryInv /\ OpenInv /\ SearchInv /\ NamesAreDense
    BY DEF FetchInv
  <1>2. /\ dir' = dir /\ har' = har /\ next' = next /\ probe' = probe
        /\ \A q \in Runs \ {r} : pc'[q] = pc[q] /\ cur'[q] = cur[q] /\ open'[q] = open[q]
        /\ \/ /\ pc'[r] \in {"entry", "done"}
              /\ open'[r] = <<>>
           \/ /\ pc'[r] \in {"issue", "inflight"} /\ HasEntry(r) /\ cur'[r] = cur[r]
              /\ open'[r] = <<>>
           \/ /\ pc'[r] = pc[r] /\ cur'[r] = cur[r] /\ open'[r] = open[r]
    BY <1>1, QuietMoves
  <1>3. TypeOK'
    BY <1>1, QuietTypes
  <1>4. DirIsFunction' /\ NamesAreDense'
    BY <1>1, <1>2 DEF DirIsFunction, NamesAreDense
  <1>5. EntryInv'
    BY <1>1, <1>2 DEF EntryInv, HasEntry
  <1>6. OpenInv'
    BY <1>1, <1>2 DEF OpenInv
  <1>7. SearchInv'
    <2>1. \A q \in Runs : pc'[q] = "probe" => pc[q] = "probe" /\ cur'[q] = cur[q]
      BY <1>2
    <2> QED
      BY <1>1, <1>2, <2>1 DEF SearchInv, Base
  <1> QED
    BY <1>3, <1>4, <1>5, <1>6, <1>7 DEF FetchInv

-------------------------------------------------------------------------------
(***************************************************************************)
(* The search for a name begins where the allocator left off.              *)
(***************************************************************************)
LEMMA RespondPreserves ==
  ASSUME FetchInv, NEW r \in Runs, Respond(r) PROVE FetchInv'
  <1>1. TypeOK /\ DirIsFunction /\ EntryInv /\ OpenInv /\ SearchInv /\ NamesAreDense
    BY DEF FetchInv
  <1>2. /\ pc[r] = "inflight" /\ pc' = [pc EXCEPT ![r] = "probe"]
        /\ probe' = [probe EXCEPT ![r] = next[r][Base(r)]]
        /\ UNCHANGED <<dir, har, ctxDone, cur, next, open, failed, verdict>>
    BY Zenon DEF Respond, Goto, FirstProbe
  <1>3. HasEntry(r) /\ Base(r) \in Bases
    BY <1>1, <1>2, BaseType DEF EntryInv
  <1>4. next[r][Base(r)] \in Nat
    BY <1>1, <1>3 DEF TypeOK
  <1>5. TypeOK'
    BY <1>1, <1>2, <1>4 DEF TypeOK
  <1>6. DirIsFunction' /\ NamesAreDense'
    BY <1>1, <1>2 DEF DirIsFunction, NamesAreDense
  <1>7. /\ pc'[r] = "probe" /\ probe'[r] = next[r][Base(r)]
        /\ \A q \in Runs \ {r} : pc'[q] = pc[q] /\ probe'[q] = probe[q]
    BY <1>1, <1>2 DEF TypeOK
  <1>8. EntryInv'
    BY <1>1, <1>2, <1>3, <1>7 DEF EntryInv, HasEntry
  <1>9. OpenInv'
    BY <1>1, <1>2, <1>7 DEF OpenInv
  <1>10. SearchInv'
    <2>1. \A i \in 0..(probe'[r] - 1) : Name(Base(r), i) \in DOMAIN dir
      BY <1>1, <1>3, <1>7 DEF NamesAreDense
    <2>2. \A q \in Runs : Base(q)' = Base(q)
      BY <1>2 DEF Base
    <2> QED
      BY <1>1, <1>2, <1>7, <2>1, <2>2 DEF SearchInv
  <1> QED
    BY <1>5, <1>6, <1>8, <1>9, <1>10 DEF FetchInv

LEMMA TryNextPreserves ==
  ASSUME FetchInv, NEW r \in Runs, TryNext(r) PROVE FetchInv'
  <1>1. TypeOK /\ DirIsFunction /\ EntryInv /\ OpenInv /\ SearchInv /\ NamesAreDense
    BY DEF FetchInv
  <1>2. /\ pc[r] = "probe" /\ probe' = [probe EXCEPT ![r] = probe[r] + 1]
        /\ Name(Base(r), probe[r]) \in DOMAIN dir
        /\ UNCHANGED <<dir, har, ctxDone, pc, cur, next, open, failed, verdict>>
    BY Zenon DEF TryNext, Taken, NextProbe
  <1>3. probe[r] \in Nat /\ probe'[r] = probe[r] + 1
        /\ \A q \in Runs \ {r} : probe'[q] = probe[q]
    BY <1>1, <1>2 DEF TypeOK
  <1>4. TypeOK'
    BY <1>1, <1>2, <1>3 DEF TypeOK
  <1>5. DirIsFunction' /\ NamesAreDense' /\ EntryInv' /\ OpenInv'
    BY <1>1, <1>2 DEF DirIsFunction, NamesAreDense, EntryInv, HasEntry, OpenInv
  <1>6. SearchInv'
    <2>1. \A i \in 0..(probe'[r] - 1) : i \in 0..(probe[r] - 1) \/ i = probe[r]
      BY <1>3
    <2>2. \A i \in 0..(probe'[r] - 1) : Name(Base(r), i) \in DOMAIN dir
      BY <1>1, <1>2, <2>1 DEF SearchInv
    <2>3. \A q \in Runs : Base(q)' = Base(q)
      BY <1>2 DEF Base
    <2> QED
      BY <1>1, <1>2, <1>3, <2>2, <2>3 DEF SearchInv
  <1> QED
    BY <1>4, <1>5, <1>6 DEF FetchInv

-------------------------------------------------------------------------------
(***************************************************************************)
(* A new file: the name was free, so no other call has it open.            *)
(***************************************************************************)
LEMMA CreatePreserves ==
  ASSUME FetchInv, NEW r \in Runs, Create(r)
  PROVE  FetchInv' /\ \A n \in DOMAIN dir : n \in DOMAIN dir' /\ dir'[n] = dir[n]
  <1> DEFINE b == Base(r)
             name == Name(b, probe[r])
             file == [run |-> r, entry |-> cur[r], whole |-> FALSE]
  <1>1. TypeOK /\ DirIsFunction /\ EntryInv /\ OpenInv /\ SearchInv /\ NamesAreDense
    BY DEF FetchInv
  <1>2. /\ pc[r] = "probe" /\ pc' = [pc EXCEPT ![r] = "copy"] /\ name \notin DOMAIN dir
        /\ dir' = [m \in DOMAIN dir \cup {name} |-> IF m = name THEN file ELSE dir[m]]
        /\ open' = [open EXCEPT ![r] = <<name>>]
        /\ next' = [next EXCEPT ![r][b] = probe[r] + 1]
        /\ UNCHANGED <<har, ctxDone, cur, probe, failed, verdict>>
    BY Zenon DEF Create, Goto, Taken, Put
  <1>3. HasEntry(r) /\ b \in Bases /\ b \in FileName
    BY <1>1, <1>2, BaseType DEF EntryInv
  <1>4. probe[r] \in Nat /\ cur[r] \in Nat \ {0} /\ next[r] \in [Bases -> Nat]
    BY <1>1 DEF TypeOK
  <1>5. name \in FileName
    BY <1>3, <1>4, NameType
  <1>6. file \in FileType /\ file.run = r /\ file.entry = cur[r]
    BY <1>4 DEF FileType
  <1> HIDE DEF name, file
  <1>7. /\ DOMAIN dir' = DOMAIN dir \cup {name} /\ dir'[name] = file
        /\ \A n \in DOMAIN dir : n \in DOMAIN dir' /\ n # name /\ dir'[n] = dir[n]
    BY <1>2
  <1>8. /\ open'[r] = <<name>> /\ pc'[r] = "copy"
        /\ \A q \in Runs \ {r} : pc'[q] = pc[q] /\ open'[q] = open[q] /\ next'[q] = next[q]
    BY <1>1, <1>2 DEF TypeOK
  <1>9. next'[r] = [next[r] EXCEPT ![b] = probe[r] + 1]
    BY <1>1, <1>2 DEF TypeOK
  <1>10. TypeOK'
    <2>1. DOMAIN dir' \subseteq FileName /\ \A n \in DOMAIN dir' : dir'[n] \in FileType
      BY <1>1, <1>5, <1>6, <1>7 DEF TypeOK
    <2>2. open' \in [Runs -> {<<>>} \cup {<<n>> : n \in DOMAIN dir'}]
      BY <1>1, <1>2, <1>7 DEF TypeOK
    <2>3. next' \in [Runs -> [Bases -> Nat]]
      <3>1. [next[r] EXCEPT ![b] = probe[r] + 1] \in [Bases -> Nat]
        BY <1>3, <1>4
      <3> QED
        BY <1>1, <1>2, <3>1 DEF TypeOK
    <2> QED
      BY <1>1, <1>2, <2>1, <2>2, <2>3 DEF TypeOK
  <1>11. DirIsFunction'
    BY <1>2 DEF DirIsFunction
  <1>12. EntryInv'
    BY <1>1, <1>2, <1>3, <1>8 DEF EntryInv, HasEntry
  <1>13. OpenInv'
    <2> SUFFICES ASSUME NEW q \in Runs
                 PROVE  /\ open'[q] # <<>> <=> pc'[q] \in {"copy", "close"}
                        /\ \A n \in DOMAIN dir' : open'[q] = <<n>> =>
                              dir'[n].run = q /\ dir'[n].entry = cur'[q]
      BY DEF OpenInv
    <2>1. CASE q = r
      BY <1>2, <1>6, <1>7, <1>8, <2>1
    <2>2. CASE q # r
      <3>1. open[q] # <<name>>
        <4>1. open[q] \in {<<>>} \cup {<<n>> : n \in DOMAIN dir}
          BY <1>1 DEF TypeOK
        <4> QED
          BY <1>2, <4>1
      <3> QED
        BY <1>1, <1>2, <1>7, <1>8, <2>2, <3>1 DEF OpenInv
    <2> QED
      BY <2>1, <2>2
  <1>14. SearchInv'
    <2>1. \A q \in Runs : Base(q)' = Base(q)
      BY <1>2 DEF Base
    <2> QED
      BY <1>1, <1>2, <1>7, <1>8, <2>1 DEF SearchInv
  <1>15. NamesAreDense'
    <2> SUFFICES ASSUME NEW q \in Runs, NEW c \in Bases, NEW i \in 0..(next'[q][c] - 1)
                 PROVE  Name(c, i) \in DOMAIN dir'
      BY DEF NamesAreDense
    <2>1. CASE q = r /\ c = b
      <3>1. next'[q][c] = probe[r] + 1
        BY <1>3, <1>4, <1>9, <2>1
      <3>2. i \in 0..(probe[r] - 1) \/ i = probe[r]
        BY <1>4, <3>1
      <3> QED
        BY <1>1, <1>2, <1>7, <2>1, <3>2 DEF SearchInv, name
    <2>2. CASE ~(q = r /\ c = b)
      <3>1. next'[q][c] = next[q][c]
        BY <1>3, <1>4, <1>8, <1>9, <2>2
      <3> QED
        BY <1>1, <1>7, <3>1 DEF NamesAreDense
    <2> QED
      BY <2>1, <2>2
  <1> QED
    BY <1>7, <1>10, <1>11, <1>12, <1>13, <1>14, <1>15 DEF FetchInv

(***************************************************************************)
(* What a call writes, it writes to the file it has open.                  *)
(***************************************************************************)
Writes(r) == CopyBody(r) \/ CloseFails(r)

LEMMA WriteFacts ==
  ASSUME FetchInv, NEW r \in Runs, Writes(r)
  PROVE  \E n \in DOMAIN dir, whole \in BOOLEAN :
            /\ open[r] = <<n>> /\ dir[n].run = r /\ dir[n].entry = cur[r]
            /\ dir' = [dir EXCEPT ![n] = [run |-> r, entry |-> cur[r], whole |-> whole]]
  <1>1. TypeOK /\ OpenInv
    BY DEF FetchInv
  <1>2. pc[r] \in {"copy", "close"}
    BY DEF Writes, CopyBody, CloseFails, DownloadFails, Goto, Return
  <1>3. open[r] # <<>>
    BY <1>1, <1>2 DEF OpenInv
  <1>4. open[r] \in {<<>>} \cup {<<n>> : n \in DOMAIN dir}
    BY <1>1 DEF TypeOK
  <1>5. PICK n \in DOMAIN dir : open[r] = <<n>>
    BY <1>3, <1>4
  <1>6. PICK whole \in BOOLEAN : Write(r, whole)
    BY DEF Writes, CopyBody, CloseFails
  <1>7. open[r][1] = n
    BY <1>5
  <1>8. dir' = [dir EXCEPT ![n] = [run |-> r, entry |-> cur[r], whole |-> whole]]
    BY <1>6, <1>7 DEF Write
  <1>9. dir[n].run = r /\ dir[n].entry = cur[r]
    BY <1>1, <1>5 DEF OpenInv
  <1> QED
    BY <1>5, <1>8, <1>9

LEMMA WritePreserves ==
  ASSUME FetchInv, NEW r \in Runs, Writes(r)
  PROVE  /\ FetchInv'
         /\ \A n \in DOMAIN dir :
              /\ n \in DOMAIN dir'
              /\ dir'[n] # dir[n] => /\ open[r] = <<n>>
                                     /\ dir[n].run = r /\ dir'[n].run = r
                                     /\ dir'[n].entry = dir[n].entry
  <1>1. TypeOK /\ DirIsFunction /\ EntryInv /\ OpenInv /\ SearchInv /\ NamesAreDense
    BY DEF FetchInv
  <1>2. PICK m \in DOMAIN dir, whole \in BOOLEAN :
            /\ open[r] = <<m>> /\ dir[m].run = r /\ dir[m].entry = cur[r]
            /\ dir' = [dir EXCEPT ![m] = [run |-> r, entry |-> cur[r], whole |-> whole]]
    BY WriteFacts
  <1> DEFINE file == [run |-> r, entry |-> cur[r], whole |-> whole]
  <1>3. cur[r] \in Nat \ {0}
    BY <1>1 DEF TypeOK
  <1>4. file \in FileType /\ file.run = r /\ file.entry = cur[r]
    BY <1>3 DEF FileType
  <1>5. dir' = [dir EXCEPT ![m] = file]
    BY <1>2
  <1> HIDE DEF file
  <1>6. /\ DOMAIN dir' = DOMAIN dir /\ dir'[m] = file
        /\ \A n \in DOMAIN dir : n # m => dir'[n] = dir[n]
    BY <1>1, <1>5 DEF DirIsFunction
  <1>7. /\ UNCHANGED <<har, ctxDone, next, probe>>
        /\ \/ /\ pc' = [pc EXCEPT ![r] = "close"] /\ UNCHANGED <<cur, open, failed, verdict>>
              /\ pc[r] = "copy"
           \/ DownloadFails(r, "close") /\ open' = [open EXCEPT ![r] = <<>>]
    BY DEF Writes, CopyBody, CloseFails, Goto
  <1>8. /\ pc[r] \in {"copy", "close"} /\ pc'[r] \in {"entry", "done", "close"}
        /\ \A q \in Runs \ {r} : pc'[q] = pc[q] /\ cur'[q] = cur[q] /\ open'[q] = open[q]
        /\ pc'[r] = "close" => cur'[r] = cur[r] /\ open'[r] = open[r]
        /\ pc'[r] # "close" => open'[r] = <<>>
    BY <1>1, <1>7, FailureFacts DEF TypeOK
  <1>9. TypeOK'
    <2>1. DOMAIN dir' \subseteq FileName /\ \A n \in DOMAIN dir' : dir'[n] \in FileType
      BY <1>1, <1>4, <1>6 DEF TypeOK
    <2>2. open' \in [Runs -> {<<>>} \cup {<<n>> : n \in DOMAIN dir'}]
      BY <1>1, <1>6, <1>7 DEF TypeOK
    <2>3. /\ pc' \in [Runs -> {"start", "entry", "issue", "inflight", "probe", "copy",
                               "close", "done"}]
          /\ cur' \in [Runs -> Nat \ {0}] /\ failed' \in [Runs -> Nat]
          /\ verdict' \in [Runs -> {"none", "refused", "ctx", "failed", "nil"}]
      BY <1>1, <1>7, FailureFacts DEF TypeOK
    <2> QED
      BY <1>1, <1>7, <2>1, <2>2, <2>3 DEF TypeOK
  <1>10. DirIsFunction'
    BY <1>1, <1>5 DEF DirIsFunction
  <1>11. EntryInv'
    BY <1>1, <1>7, <1>8 DEF EntryInv, HasEntry
  <1>12. OpenInv'
    <2> SUFFICES ASSUME NEW q \in Runs
                 PROVE  /\ open'[q] # <<>> <=> pc'[q] \in {"copy", "close"}
                        /\ \A n \in DOMAIN dir' : open'[q] = <<n>> =>
                              dir'[n].run = q /\ dir'[n].entry = cur'[q]
      BY DEF OpenInv
    <2>1. CASE q = r
      BY <1>2, <1>4, <1>6, <1>8, <2>1
    <2>2. CASE q # r
      BY <1>1, <1>2, <1>6, <1>8, <2>2 DEF OpenInv
    <2> QED
      BY <2>1, <2>2
  <1>13. SearchInv'
    <2>1. \A q \in Runs : pc'[q] = "probe" => pc[q] = "probe" /\ cur'[q] = cur[q]
      BY <1>8
    <2> QED
      BY <1>1, <1>6, <1>7, <2>1 DEF SearchInv, Base
  <1>14. NamesAreDense'
    BY <1>1, <1>6, <1>7 DEF NamesAreDense
  <1> QED
    BY <1>2, <1>4, <1>6, <1>9, <1>10, <1>11, <1>12, <1>13, <1>14 DEF FetchInv

-------------------------------------------------------------------------------
Step(r) == Quiet(r) \/ Respond(r) \/ TryNext(r) \/ Create(r) \/ Writes(r)

(***************************************************************************)
(* Every step is one of one call, and a file changes only under the call   *)
(* that has it open.                                                       *)
(***************************************************************************)
LEMMA NextIsStep == Next => UNCHANGED vars \/ \E r \in Runs : Step(r)
  BY DEF Next, Local, Mishap, Remote, Terminated, Step, Quiet, Writes

KeptBy(r) ==
    \A n \in DOMAIN dir :
        /\ n \in DOMAIN dir'
        /\ dir'[n] # dir[n] => /\ open[r] = <<n>>
                               /\ dir[n].run = r /\ dir'[n].run = r
                               /\ dir'[n].entry = dir[n].entry

LEMMA StepPreserves ==
  ASSUME FetchInv, NEW r \in Runs, Step(r) PROVE FetchInv' /\ KeptBy(r)
  <1>1. CASE Quiet(r)
    <2>1. dir' = dir
      BY <1>1, QuietMoves DEF FetchInv
    <2> QED
      BY <1>1, <2>1, QuietPreserves DEF KeptBy
  <1>2. CASE Respond(r)
    BY <1>2, RespondPreserves DEF KeptBy, Respond
  <1>3. CASE TryNext(r)
    BY <1>3, TryNextPreserves DEF KeptBy, TryNext
  <1>4. CASE Create(r)
    BY <1>4, CreatePreserves DEF KeptBy
  <1>5. CASE Writes(r)
    BY <1>5, WritePreserves DEF KeptBy
  <1> QED
    BY <1>1, <1>2, <1>3, <1>4, <1>5 DEF Step

LEMMA StutterPreserves == FetchInv /\ UNCHANGED vars => FetchInv'
  BY DEF FetchInv, vars, TypeOK, DirIsFunction, EntryInv, HasEntry, OpenInv, SearchInv, Base,
         NamesAreDense

LEMMA FetchInvariant == Spec => []FetchInv
  <1>1. FetchInv /\ [Next]_vars => FetchInv'
    BY NextIsStep, StepPreserves, StutterPreserves
  <1> QED
    BY InitInv, <1>1, PTL DEF Spec

-------------------------------------------------------------------------------
\* The types hold for any number of calls and any recordings.
THEOREM FetchTypeCorrect == Spec => []TypeOK
  <1>1. FetchInv => TypeOK
    BY DEF FetchInv
  <1> QED
    BY FetchInvariant, <1>1, PTL

\* However many calls write to the directory, the suffixes below the next one to be
\* tried are taken (fetch.go 201-216).
THEOREM NamesStayDense == Spec => []NamesAreDense
  <1>1. FetchInv => NamesAreDense
    BY DEF FetchInv
  <1> QED
    BY FetchInvariant, <1>1, PTL

\* However many calls write to the directory, a file that is there is kept and only the
\* call that made it writes to it (fetch.go 200-211).
THEOREM FilesStay == Spec => FilesAreKept
  <1> DEFINE Kept == \A n \in DOMAIN dir :
                        /\ n \in DOMAIN dir'
                        /\ dir'[n] # dir[n] =>
                             \E r \in Runs : /\ open[r] = <<n>>
                                             /\ dir[n].run = r /\ dir'[n].run = r
                                             /\ dir'[n].entry = dir[n].entry
  <1>1. ASSUME FetchInv, [Next]_vars PROVE [Kept]_vars
    <2>1. CASE UNCHANGED vars
      BY <2>1
    <2>2. ASSUME NEW r \in Runs, Step(r) PROVE Kept
      BY <1>1, <2>2, StepPreserves DEF KeptBy
    <2> QED
      BY <1>1, <2>1, <2>2, NextIsStep
  <1> QED
    BY FetchInvariant, <1>1, PTL DEF Spec, FilesAreKept

-------------------------------------------------------------------------------
(***************************************************************************)
(* The search.  A file of this call has one of the names the allocator has *)
(* handed out for the base name of its entry; the search starts behind     *)
(* them.                                                                   *)
(***************************************************************************)
Wanted(file) == har[file.run][file.entry].base

HandedOut(n, file) ==
    \E i \in 0..(next[file.run][Wanted(file)] - 1) : n = Name(Wanted(file), i)

OwnNamesInv ==
    /\ \A n \in DOMAIN dir : dir[n].run \in Runs =>
          Wanted(dir[n]) \in Bases /\ HandedOut(n, dir[n])
    /\ \A r \in Runs : pc[r] = "probe" => next[r][Base(r)] <= probe[r]

\* The suffix can be told from the name.
LEMMA NameIsInjective ==
  ASSUME NEW b \in FileName, NEW i \in Nat, NEW j \in Nat, Name(b, i) = Name(b, j)
  PROVE  i = j
  <1> DEFINE Suffixes(k) == IF k = 0 THEN b.suffixes ELSE Append(b.suffixes, k)
  <1>1. b.suffixes \in Seq(Nat)
    BY DEF FileName
  <1>2. ASSUME NEW k \in Nat PROVE Name(b, k).suffixes = Suffixes(k)
    BY DEF Name, FileName
  <1>3. Suffixes(i) = Suffixes(j)
    BY <1>2
  <1>4. ASSUME NEW k \in Nat \ {0}
        PROVE  /\ Len(Suffixes(k)) = Len(b.suffixes) + 1
               /\ Suffixes(k)[Len(b.suffixes) + 1] = k
    BY <1>1, <1>4, AppendProperties
  <1>5. Len(b.suffixes) \in Nat
    BY <1>1, LenProperties
  <1>6. Suffixes(0) = b.suffixes
    OBVIOUS
  <1> HIDE DEF Suffixes
  <1>7. CASE i = 0 \/ j = 0
    BY <1>3, <1>4, <1>5, <1>6, <1>7
  <1>8. CASE i # 0 /\ j # 0
    BY <1>3, <1>4, <1>8
  <1> QED
    BY <1>7, <1>8

\* A step that leaves the allocator alone: the files keep their owner and their entry.
LEMMA OwnNamesStay ==
  ASSUME FetchInv, OwnNamesInv, NEW r \in Runs, KeptBy(r), DOMAIN dir' = DOMAIN dir,
         har' = har, next' = next, probe' = probe,
         \A q \in Runs : pc'[q] = "probe" => pc[q] = "probe" /\ cur'[q] = cur[q]
  PROVE  OwnNamesInv'
  <1>1. \A n \in DOMAIN dir : dir'[n].run = dir[n].run /\ dir'[n].entry = dir[n].entry
    BY DEF KeptBy
  <1>2. \A n \in DOMAIN dir : Wanted(dir[n])' = Wanted(dir[n])
    BY <1>1 DEF Wanted
  <1>3. ASSUME NEW n \in DOMAIN dir', dir'[n].run \in Runs
        PROVE  Wanted(dir[n])' \in Bases /\ HandedOut(n, dir[n])'
    BY <1>1, <1>2, <1>3 DEF OwnNamesInv, HandedOut
  <1>4. \A q \in Runs : pc'[q] = "probe" => next'[q][Base(q)'] <= probe'[q]
    BY DEF OwnNamesInv, Base
  <1> QED
    BY <1>3, <1>4 DEF OwnNamesInv

LEMMA SearchMoves ==
  ASSUME FetchInv, OwnNamesInv, NEW r \in Runs, Respond(r) \/ TryNext(r)
  PROVE  OwnNamesInv'
  <1>1. TypeOK /\ EntryInv
    BY DEF FetchInv
  <1>2. /\ dir' = dir /\ har' = har /\ next' = next /\ cur' = cur
        /\ \A q \in Runs \ {r} : pc'[q] = pc[q] /\ probe'[q] = probe[q]
    BY <1>1 DEF Respond, TryNext, Goto, TypeOK
  <1>3. ASSUME NEW n \in DOMAIN dir', dir'[n].run \in Runs
        PROVE  Wanted(dir[n])' \in Bases /\ HandedOut(n, dir[n])'
    BY <1>2, <1>3 DEF OwnNamesInv, HandedOut, Wanted
  <1>4. HasEntry(r) /\ pc[r] \in {"inflight", "probe"}
    BY <1>1 DEF EntryInv, Respond, TryNext, Goto
  <1>5. next[r][Base(r)] \in Nat /\ probe[r] \in Nat
    BY <1>1, <1>4, BaseType DEF TypeOK
  <1>6. next[r][Base(r)] <= probe'[r]
    <2>1. CASE Respond(r)
      <3>1. probe'[r] = next[r][Base(r)]
        BY <1>1, <2>1 DEF Respond, FirstProbe, TypeOK
      <3> QED
        BY <1>5, <3>1
    <2>2. CASE TryNext(r)
      <3>1. pc[r] = "probe" /\ probe'[r] = probe[r] + 1
        BY <1>1, <2>2 DEF TryNext, NextProbe, TypeOK
      <3> QED
        BY <1>5, <3>1 DEF OwnNamesInv
    <2> QED
      BY <2>1, <2>2
  <1>7. \A q \in Runs : pc'[q] = "probe" => next'[q][Base(q)'] <= probe'[q]
    BY <1>2, <1>6 DEF OwnNamesInv, Base
  <1> QED
    BY <1>3, <1>7 DEF OwnNamesInv

\* The new file has the name that has just been found free.
LEMMA CreateHandsOut ==
  ASSUME FetchInv, OwnNamesInv, NEW r \in Runs, Create(r)
  PROVE  OwnNamesInv'
  <1> DEFINE b == Base(r)
             name == Name(b, probe[r])
             file == [run |-> r, entry |-> cur[r], whole |-> FALSE]
  <1>1. TypeOK /\ EntryInv
    BY DEF FetchInv
  <1>2. /\ pc[r] = "probe" /\ pc' = [pc EXCEPT ![r] = "copy"]
        /\ dir' = [m \in DOMAIN dir \cup {name} |-> IF m = name THEN file ELSE dir[m]]
        /\ next' = [next EXCEPT ![r][b] = probe[r] + 1]
        /\ har' = har /\ cur' = cur /\ probe' = probe /\ name \notin DOMAIN dir
    BY Zenon DEF Create, Goto, Taken, Put
  <1>3. HasEntry(r) /\ b \in Bases /\ b \in FileName
    BY <1>1, <1>2, BaseType DEF EntryInv
  <1>4. probe[r] \in Nat /\ next[r] \in [Bases -> Nat] /\ next[r][b] <= probe[r]
    BY <1>1, <1>2 DEF TypeOK, OwnNamesInv
  <1>5. next'[r] = [next[r] EXCEPT ![b] = probe[r] + 1]
        /\ \A q \in Runs \ {r} : next'[q] = next[q]
    BY <1>1, <1>2 DEF TypeOK
  <1>6. \A q \in Runs, c \in Bases : next[q][c] \in Int /\ next'[q][c] \in Int
                                     /\ next[q][c] <= next'[q][c]
    <2> SUFFICES ASSUME NEW q \in Runs, NEW c \in Bases
                 PROVE  next[q][c] \in Int /\ next'[q][c] \in Int /\ next[q][c] <= next'[q][c]
      OBVIOUS
    <2>1. next[q][c] \in Nat
      BY <1>1 DEF TypeOK
    <2>2. CASE q = r /\ c = b
      BY <1>3, <1>4, <1>5, <2>1, <2>2
    <2>3. CASE q = r /\ c # b
      BY <1>3, <1>4, <1>5, <2>1, <2>3
    <2>4. CASE q # r
      BY <1>5, <2>1, <2>4
    <2> QED
      BY <2>2, <2>3, <2>4
  <1>7. next'[r][b] = probe[r] + 1
    BY <1>3, <1>4, <1>5
  <1>8. ASSUME NEW n \in DOMAIN dir', dir'[n].run \in Runs
        PROVE  Wanted(dir[n])' \in Bases /\ HandedOut(n, dir[n])'
    <2>1. CASE n = name
      <3>1. dir'[n] = file
        BY <1>2, <2>1
      <3>2. dir'[n].run = r /\ Wanted(dir[n])' = b
        <4>1. dir'[n].run = r /\ dir'[n].entry = cur[r]
          BY <3>1
        <4> QED
          BY <1>2, <4>1 DEF Wanted, Base
      <3>3. probe[r] \in 0..(next'[r][b] - 1)
        BY <1>4, <1>7
      <3> QED
        BY <1>3, <2>1, <3>2, <3>3 DEF HandedOut
    <2>2. CASE n # name
      <3>1. n \in DOMAIN dir /\ dir'[n] = dir[n]
        BY <1>2, <2>2
      <3>2. Wanted(dir[n])' = Wanted(dir[n]) /\ Wanted(dir[n]) \in Bases
            /\ HandedOut(n, dir[n])
        BY <1>2, <1>8, <3>1 DEF OwnNamesInv, Wanted
      <3>3. PICK i \in 0..(next[dir[n].run][Wanted(dir[n])] - 1) :
                n = Name(Wanted(dir[n]), i)
        BY <3>2 DEF HandedOut
      <3>4. i \in 0..(next'[dir[n].run][Wanted(dir[n])] - 1)
        BY <1>6, <1>8, <3>1, <3>2, <3>3
      <3> QED
        BY <3>1, <3>2, <3>3, <3>4 DEF HandedOut
    <2> QED
      BY <2>1, <2>2
  <1>9. \A q \in Runs : pc'[q] = "probe" => next'[q][Base(q)'] <= probe'[q]
    <2> SUFFICES ASSUME NEW q \in Runs, pc'[q] = "probe"
                 PROVE  next'[q][Base(q)'] <= probe'[q]
      OBVIOUS
    <2>1. q # r /\ pc[q] = "probe"
      BY <1>1, <1>2 DEF TypeOK
    <2> QED
      BY <1>2, <1>5, <2>1 DEF OwnNamesInv, Base
  <1> QED
    BY <1>8, <1>9 DEF OwnNamesInv

LEMMA OwnNamesPreserved ==
  ASSUME FetchInv, OwnNamesInv, NEW r \in Runs, Step(r) PROVE OwnNamesInv'
  <1>1. KeptBy(r) /\ TypeOK /\ DirIsFunction /\ EntryInv /\ OpenInv
    BY StepPreserves DEF FetchInv
  <1>2. CASE Quiet(r)
    <2>1. /\ dir' = dir /\ har' = har /\ next' = next /\ probe' = probe
          /\ \A q \in Runs : pc'[q] = "probe" => pc[q] = "probe" /\ cur'[q] = cur[q]
      BY <1>1, <1>2, QuietMoves
    <2> QED
      BY <1>1, <2>1, OwnNamesStay
  <1>3. CASE Respond(r) \/ TryNext(r)
    BY <1>3, SearchMoves
  <1>4. CASE Create(r)
    BY <1>4, CreateHandsOut
  <1>5. CASE Writes(r)
    <2>1. DOMAIN dir' = DOMAIN dir
      BY <1>1, <1>5, WriteFacts DEF DirIsFunction
    <2>2. har' = har /\ next' = next /\ probe' = probe
      BY <1>5 DEF Writes, CopyBody, CloseFails
    <2>3. pc'[r] # "probe" /\ \A q \in Runs \ {r} : pc'[q] = pc[q] /\ cur'[q] = cur[q]
      BY <1>1, <1>5, FailureFacts DEF Writes, CopyBody, CloseFails, Goto, TypeOK
    <2> QED
      BY <1>1, <2>1, <2>2, <2>3, OwnNamesStay
  <1> QED
    BY <1>2, <1>3, <1>4, <1>5 DEF Step

\* The search never stops at a name the call has handed out before for the same base
\* name, however many calls and whatever else is in the directory (fetch.go 173-175).
THEOREM SearchIsLinear == Spec => []NeverProbesOwnName
  <1>1. Init => OwnNamesInv
    BY RunsAssumption DEF Init, Older, OwnNamesInv
  <1>2. FetchInv /\ OwnNamesInv /\ [Next]_vars => OwnNamesInv'
    <2>1. OwnNamesInv /\ UNCHANGED vars => OwnNamesInv'
      BY DEF OwnNamesInv, HandedOut, Wanted, Base, vars
    <2> QED
      BY <2>1, NextIsStep, OwnNamesPreserved
  <1>3. FetchInv /\ OwnNamesInv => NeverProbesOwnName
    <2> SUFFICES ASSUME FetchInv, OwnNamesInv, NEW r \in Runs, pc[r] = "probe", Taken(r),
                        dir[Name(Base(r), probe[r])].run = r
                 PROVE  Wanted(dir[Name(Base(r), probe[r])]) # Base(r)
      BY DEF NeverProbesOwnName, Wanted
    <2> DEFINE n == Name(Base(r), probe[r])
    <2>1. HasEntry(r) /\ TypeOK
      BY DEF FetchInv, EntryInv
    <2>2. Base(r) \in Bases /\ Base(r) \in FileName
      BY <2>1, BaseType
    <2>3. probe[r] \in Nat /\ next[r][Base(r)] \in Nat /\ next[r][Base(r)] <= probe[r]
      BY <2>1, <2>2 DEF TypeOK, OwnNamesInv
    <2>4. n \in DOMAIN dir /\ HandedOut(n, dir[n])
      BY DEF Taken, OwnNamesInv
    <2>5. ASSUME Wanted(dir[n]) = Base(r) PROVE FALSE
      <3>1. PICK i \in 0..(next[r][Base(r)] - 1) : n = Name(Base(r), i)
        BY <2>4, <2>5 DEF HandedOut
      <3>2. i = probe[r]
        BY <2>2, <2>3, <3>1, NameIsInjective
      <3> QED
        BY <2>3, <3>1, <3>2
    <2> QED
      BY <2>5
  <1> QED
    BY FetchInvariant, <1>1, <1>2, <1>3, PTL DEF Spec

-------------------------------------------------------------------------------
(***************************************************************************)
(* The verdict.  The entries a call has left behind are saved or counted.  *)
(***************************************************************************)
Missing(r) == { i \in 1..(cur[r] - 1) : ~Saved(r, i) }

TallyInv ==
    \A r \in Runs :
        /\ cur[r] <= Len(har[r]) + 1
        /\ failed[r] <= cur[r] - 1
        /\ Cardinality(Missing(r)) <= failed[r]
        /\ pc[r] = "close" => Saved(r, cur[r])

EndInv ==
    \A r \in Runs :
        /\ verdict[r] # "none" => pc[r] = "done"
        /\ verdict[r] \in {"nil", "failed"} =>
              /\ cur[r] = Len(har[r]) + 1
              /\ verdict[r] = "nil" <=> failed[r] = 0
        /\ verdict[r] = "ctx" => ctxDone[r]

LEMMA SmallerSet ==
  ASSUME NEW n \in Nat, NEW S \in SUBSET (1..n), NEW T \in SUBSET S
  PROVE  /\ Cardinality(T) \in Nat /\ Cardinality(S) \in Nat
         /\ Cardinality(T) <= Cardinality(S)
  <1>1. IsFiniteSet(1..n)
    BY FS_Interval
  <1>2. IsFiniteSet(S)
    BY <1>1, FS_Subset
  <1>3. IsFiniteSet(T) /\ Cardinality(T) <= Cardinality(S)
    BY <1>2, FS_Subset
  <1> QED
    BY <1>2, <1>3, FS_CardinalityType

LEMMA OneMore ==
  ASSUME NEW n \in Nat, NEW S \in SUBSET (1..n), NEW x, NEW T \in SUBSET (S \cup {x})
  PROVE  /\ Cardinality(T) \in Nat /\ Cardinality(S) \in Nat
         /\ Cardinality(T) <= Cardinality(S) + 1
  <1>1. IsFiniteSet(1..n)
    BY FS_Interval
  <1>2. IsFiniteSet(S)
    BY <1>1, FS_Subset
  <1>6. Cardinality(S) \in Nat
    BY <1>2, FS_CardinalityType
  <1>7. IsFiniteSet(S \cup {x})
        /\ (Cardinality(S \cup {x}) = Cardinality(S) + 1
              \/ Cardinality(S \cup {x}) = Cardinality(S))
    <2>1. CASE x \in S
      <3>1. S \cup {x} = S
        BY <2>1
      <3> QED
        BY <1>2, <3>1
    <2>2. CASE x \notin S
      BY <1>2, <2>2, FS_AddElement
    <2> QED
      BY <2>1, <2>2
  <1>3. IsFiniteSet(S \cup {x}) /\ Cardinality(S \cup {x}) <= Cardinality(S) + 1
    BY <1>6, <1>7
  <1>4. IsFiniteSet(T) /\ Cardinality(T) <= Cardinality(S \cup {x})
    BY <1>3, FS_Subset
  <1>5. Cardinality(T) \in Nat /\ Cardinality(S \cup {x}) \in Nat
    BY <1>3, <1>4, FS_CardinalityType
  <1> QED
    BY <1>3, <1>4, <1>5, <1>6

(***************************************************************************)
(* A saved entry stays saved, unless it is the one its call is at.         *)
(***************************************************************************)
LEMMA SavedStays ==
  ASSUME FetchInv, NEW r \in Runs, KeptBy(r), NEW q \in Runs, NEW i,
         Saved(q, i), q # r \/ i # cur[r]
  PROVE  Saved(q, i)'
  <1>1. PICK n \in DOMAIN dir : dir[n] = [run |-> q, entry |-> i, whole |-> TRUE]
    BY DEF Saved
  <1>2. dir[n].run = q /\ dir[n].entry = i
    BY <1>1
  <1>3. n \in DOMAIN dir' /\ (dir'[n] # dir[n] => open[r] = <<n>> /\ dir[n].run = r)
    BY DEF KeptBy
  <1>4. open[r] = <<n>> => dir[n].entry = cur[r]
    BY DEF FetchInv, OpenInv
  <1>5. dir'[n] = dir[n]
    BY <1>2, <1>3, <1>4
  <1> QED
    BY <1>1, <1>3, <1>5 DEF Saved

(***************************************************************************)
(* How far a step takes its call, and what it adds to the tally.           *)
(***************************************************************************)
LEMMA FailureTally ==
  ASSUME TypeOK, NEW r \in Runs, NEW from, DownloadFails(r, from)
  PROVE  \/ ctxDone[r] /\ cur' = cur /\ failed' = failed /\ pc'[r] = "done"
            /\ verdict' = [verdict EXCEPT ![r] = "ctx"]
         \/ ~ctxDone[r] /\ cur' = [cur EXCEPT ![r] = cur[r] + 1] /\ pc'[r] = "entry"
            /\ failed' = [failed EXCEPT ![r] = failed[r] + 1] /\ verdict' = verdict
  <1>1. pc' \in [Runs -> {"start", "entry", "issue", "inflight", "probe", "copy", "close",
                          "done"}]
    BY FailureFacts
  <1>2. CASE ctxDone[r]
    BY <1>2 DEF DownloadFails, Return, Goto, TypeOK
  <1>3. CASE ~ctxDone[r]
    BY <1>3 DEF DownloadFails, Return, Goto, TypeOK, CountFailure
  <1> QED
    BY <1>2, <1>3

Stays(r)   == cur' = cur /\ failed' = failed
Counted(r) == /\ HasEntry(r) /\ cur' = [cur EXCEPT ![r] = cur[r] + 1]
              /\ failed' = [failed EXCEPT ![r] = failed[r] + 1]
Passed(r)  == /\ HasEntry(r) /\ cur' = [cur EXCEPT ![r] = cur[r] + 1]
              /\ failed' = failed /\ pc[r] = "close" /\ dir' = dir

LEMMA Progress ==
  ASSUME FetchInv, NEW r \in Runs, Step(r)
  PROVE  /\ har' = har
         /\ Stays(r) \/ ((Counted(r) \/ Passed(r)) /\ pc'[r] = "entry")
         /\ pc'[r] = "close" => \/ pc[r] = "close" /\ dir' = dir /\ Stays(r)
                                \/ Saved(r, cur[r])' /\ Stays(r)
  <1>1. TypeOK /\ EntryInv /\ OpenInv
    BY DEF FetchInv
  <1>2. pc \in [Runs -> {"start", "entry", "issue", "inflight", "probe", "copy", "close",
                         "done"}]
    BY <1>1 DEF TypeOK
  <1>3. ASSUME NEW from \in {"issue", "inflight", "probe", "copy", "close"},
               DownloadFails(r, from)
        PROVE  (Stays(r) /\ pc'[r] = "done") \/ (Counted(r) /\ pc'[r] = "entry")
    <2>1. HasEntry(r)
      BY <1>1, <1>3, FailureFacts DEF EntryInv
    <2>2. \/ cur' = cur /\ failed' = failed /\ pc'[r] = "done"
          \/ /\ cur' = [cur EXCEPT ![r] = cur[r] + 1] /\ pc'[r] = "entry"
             /\ failed' = [failed EXCEPT ![r] = failed[r] + 1]
      BY <1>1, <1>3, FailureTally
    <2>3. CASE cur' = cur /\ failed' = failed /\ pc'[r] = "done"
      BY <2>3 DEF Stays
    <2>4. CASE /\ cur' = [cur EXCEPT ![r] = cur[r] + 1] /\ pc'[r] = "entry"
               /\ failed' = [failed EXCEPT ![r] = failed[r] + 1]
      BY <2>1, <2>4 DEF Counted
    <2> QED
      BY <2>2, <2>3, <2>4
  <1>4. CASE Prepare(r) \/ Refuse(r) \/ StopCancelled(r) \/ BuildRequest(r) \/ Finish(r)
    BY <1>2, <1>4 DEF Prepare, Refuse, StopCancelled, BuildRequest, Finish, Return, Goto,
                      Stays
  <1>5. CASE SkipEntry(r)
    BY <1>5 DEF SkipEntry, CountFailure, Counted
  <1>6. CASE Issue(r)
    <2>1. CASE ctxDone[r]
      BY <1>3, <1>6, <2>1 DEF Issue
    <2>2. CASE ~ctxDone[r]
      BY <1>2, <1>6, <2>2 DEF Issue, Goto, Stays
    <2> QED
      BY <2>1, <2>2
  <1>7. CASE NoBody(r)
    BY <1>3, <1>7 DEF NoBody
  <1>8. CASE CreateFails(r)
    BY <1>3, <1>8 DEF CreateFails
  <1>9. CASE CopyFails(r)
    BY <1>3, <1>9 DEF CopyFails
  <1>10. CASE Close(r)
    <2>1. HasEntry(r)
      BY <1>1, <1>10 DEF Close, Goto, EntryInv
    <2> QED
      BY <1>2, <1>10, <2>1 DEF Close, Goto, Passed
  <1>11. CASE Cancel(r)
    BY <1>11 DEF Cancel, Stays
  <1>12. CASE Respond(r)
    BY <1>2, <1>12 DEF Respond, Goto, Stays
  <1>13. CASE TryNext(r)
    BY <1>13 DEF TryNext, Stays
  <1>14. CASE Create(r)
    BY <1>2, <1>14 DEF Create, Goto, Stays
  <1>15. CASE CopyBody(r)
    <2>1. PICK n \in DOMAIN dir, whole \in BOOLEAN :
             /\ open[r] = <<n>>
             /\ dir' = [dir EXCEPT ![n] = [run |-> r, entry |-> cur[r], whole |-> whole]]
      BY <1>15, WriteFacts DEF Writes
    <2>2. open[r][1] = n
      BY <2>1
    <2>3. dir' = [dir EXCEPT ![n] = [run |-> r, entry |-> cur[r], whole |-> TRUE]]
      BY <1>15, <2>2 DEF CopyBody, Write
    <2>4. n \in DOMAIN dir' /\ dir'[n] = [run |-> r, entry |-> cur[r], whole |-> TRUE]
      BY <2>1, <2>3
    <2>5. cur' = cur /\ failed' = failed /\ har' = har
      BY <1>15 DEF CopyBody
    <2> QED
      BY <2>4, <2>5 DEF Saved, Stays
  <1>16. CASE CloseFails(r)
    BY <1>3, <1>16 DEF CloseFails
  <1> QED
    BY <1>4, <1>5, <1>6, <1>7, <1>8, <1>9, <1>10, <1>11, <1>12, <1>13, <1>14, <1>15, <1>16
       DEF Step, Quiet, Writes

LEMMA OtherWaits ==
  ASSUME FetchInv, NEW r \in Runs, Step(r), NEW q \in Runs \ {r}
  PROVE  pc'[q] = pc[q] /\ verdict'[q] = verdict[q] /\ ctxDone'[q] = ctxDone[q]
  <1>1. TypeOK
    BY DEF FetchInv
  <1>2. pc' = pc \/ \E to : pc' = [pc EXCEPT ![r] = to]
    BY DEF Step, Quiet, Writes, Prepare, Refuse, StopCancelled, BuildRequest, SkipEntry,
           Issue, NoBody, CreateFails, CopyFails, Close, Finish, Cancel, Respond, TryNext,
           Create, CopyBody, CloseFails, DownloadFails, Return, Goto
  <1>3. verdict' = verdict \/ \E v : verdict' = [verdict EXCEPT ![r] = v]
    BY DEF Step, Quiet, Writes, Prepare, Refuse, StopCancelled, BuildRequest, SkipEntry,
           Issue, NoBody, CreateFails, CopyFails, Close, Finish, Cancel, Respond, TryNext,
           Create, CopyBody, CloseFails, DownloadFails, Return, Goto
  <1>4. ctxDone' = ctxDone \/ ctxDone' = [ctxDone EXCEPT ![r] = TRUE]
    BY DEF Step, Quiet, Writes, Prepare, Refuse, StopCancelled, BuildRequest, SkipEntry,
           Issue, NoBody, CreateFails, CopyFails, Close, Finish, Cancel, Respond, TryNext,
           Create, CopyBody, CloseFails
  <1> QED
    BY <1>1, <1>2, <1>3, <1>4 DEF TypeOK

LEMMA TallyPreserves ==
  ASSUME FetchInv, TallyInv, NEW r \in Runs, Step(r) PROVE TallyInv'
  <1>1. TypeOK /\ TypeOK' /\ KeptBy(r)
    BY StepPreserves DEF FetchInv
  <1>2. /\ har' = har
        /\ Stays(r) \/ ((Counted(r) \/ Passed(r)) /\ pc'[r] = "entry")
        /\ pc'[r] = "close" => \/ pc[r] = "close" /\ dir' = dir /\ Stays(r)
                               \/ Saved(r, cur[r])' /\ Stays(r)
    BY Progress
  <1>3. \A q \in Runs : /\ cur[q] \in Nat \ {0} /\ failed[q] \in Nat
                        /\ har[q] \in Seq(EntryType) /\ Len(har[q]) \in Nat
    BY <1>1, RecordingsAssumption, LenProperties DEF TypeOK
  <1>4. cur \in [Runs -> Nat \ {0}] /\ failed \in [Runs -> Nat]
    BY <1>1 DEF TypeOK
  <1> SUFFICES ASSUME NEW q \in Runs
               PROVE  /\ cur'[q] <= Len(har'[q]) + 1
                      /\ failed'[q] <= cur'[q] - 1
                      /\ Cardinality(Missing(q)') <= failed'[q]
                      /\ pc'[q] = "close" => Saved(q, cur[q])'
    BY DEF TallyInv
  <1>5. /\ cur[q] <= Len(har[q]) + 1 /\ failed[q] <= cur[q] - 1
        /\ Cardinality(Missing(q)) <= failed[q]
        /\ pc[q] = "close" => Saved(q, cur[q])
    BY DEF TallyInv
  <1>6. Missing(q) \in SUBSET (1..(cur[q] - 1)) /\ cur[q] - 1 \in Nat
    BY <1>3 DEF Missing
  <1>7. \A i \in 1..(cur[q] - 1) : Saved(q, i) => Saved(q, i)'
    <2>1. \A i \in 1..(cur[q] - 1) : i # cur[q]
      BY <1>3
    <2> QED
      BY <1>1, <2>1, SavedStays
  <1>8. CASE cur'[q] = cur[q] /\ failed'[q] = failed[q]
    <2>1. Missing(q)' \in SUBSET Missing(q)
      BY <1>7, <1>8 DEF Missing
    <2>4. Cardinality(Missing(q)') \in Nat /\ Cardinality(Missing(q)) \in Nat
          /\ Cardinality(Missing(q)') <= Cardinality(Missing(q))
      BY <1>6, <2>1, SmallerSet
    <2>2. Cardinality(Missing(q)') <= failed'[q]
      BY <1>3, <1>5, <1>8, <2>4
    <2>3. pc'[q] = "close" => Saved(q, cur[q])'
      <3>1. CASE q = r
        <4>1. CASE pc[r] = "close" /\ dir' = dir /\ Stays(r)
          BY <1>5, <3>1, <4>1 DEF Stays, Saved
        <4>2. CASE Saved(r, cur[r])'
          BY <3>1, <4>2
        <4>3. CASE pc'[r] # "close"
          BY <3>1, <4>3
        <4> QED
          BY <1>2, <4>1, <4>2, <4>3
      <3>2. CASE q # r
        <4>1. pc'[q] = pc[q]
          BY <3>2, OtherWaits
        <4>2. Saved(q, cur[q]) => Saved(q, cur[q])'
          BY <1>1, <1>8, <3>2, SavedStays DEF Saved
        <4> QED
          BY <1>5, <4>1, <4>2
      <3> QED
        BY <3>1, <3>2
    <2> QED
      BY <1>2, <1>5, <1>8, <2>2, <2>3
  <1>9. CASE q = r /\ Counted(r) /\ pc'[r] = "entry"
    <2>1. cur'[q] = cur[q] + 1 /\ failed'[q] = failed[q] + 1 /\ cur[q] <= Len(har[q])
      BY <1>4, <1>9 DEF Counted, HasEntry
    <2>2. \A i \in 1..(cur'[q] - 1) : i \in 1..(cur[q] - 1) \/ i = cur[q]
      BY <1>3, <2>1
    <2>3. Missing(q)' \in SUBSET (Missing(q) \cup {cur[q]})
      BY <1>7, <2>2 DEF Missing
    <2>5. Cardinality(Missing(q)') \in Nat /\ Cardinality(Missing(q)) \in Nat
          /\ Cardinality(Missing(q)') <= Cardinality(Missing(q)) + 1
      BY <1>6, <2>3, OneMore
    <2>4. Cardinality(Missing(q)') <= failed'[q]
      BY <1>3, <1>5, <2>1, <2>5
    <2> QED
      BY <1>2, <1>3, <1>5, <1>9, <2>1, <2>4
  <1>10. CASE q = r /\ Passed(r) /\ pc'[r] = "entry"
    <2>1. /\ cur'[q] = cur[q] + 1 /\ failed'[q] = failed[q] /\ cur[q] <= Len(har[q])
          /\ Saved(q, cur[q]) /\ dir' = dir
      BY <1>4, <1>5, <1>10 DEF Passed, HasEntry
    <2>2. \A i \in 1..(cur'[q] - 1) : i \in 1..(cur[q] - 1) \/ i = cur[q]
      BY <1>3, <2>1
    <2>3. \A i : Saved(q, i)' <=> Saved(q, i)
      BY <2>1 DEF Saved
    <2>4. Missing(q)' \in SUBSET Missing(q)
      BY <2>1, <2>2, <2>3 DEF Missing
    <2>6. Cardinality(Missing(q)') \in Nat /\ Cardinality(Missing(q)) \in Nat
          /\ Cardinality(Missing(q)') <= Cardinality(Missing(q))
      BY <1>6, <2>4, SmallerSet
    <2>5. Cardinality(Missing(q)') <= failed'[q]
      BY <1>3, <1>5, <2>1, <2>6
    <2> QED
      BY <1>2, <1>3, <1>5, <1>10, <2>1, <2>5
  <1>11. q # r => cur'[q] = cur[q] /\ failed'[q] = failed[q]
    BY <1>2, <1>4 DEF Stays, Counted, Passed
  <1>12. Stays(r) => cur'[q] = cur[q] /\ failed'[q] = failed[q]
    BY DEF Stays
  <1> QED
    BY <1>2, <1>8, <1>9, <1>10, <1>11, <1>12

LEMMA EndPreserves ==
  ASSUME FetchInv, TallyInv, EndInv, NEW r \in Runs, Step(r) PROVE EndInv'
  <1>1. TypeOK
    BY DEF FetchInv
  <1>2. pc \in [Runs -> {"start", "entry", "issue", "inflight", "probe", "copy", "close",
                         "done"}]
    BY <1>1 DEF TypeOK
  <1>3. /\ cur \in [Runs -> Nat \ {0}] /\ failed \in [Runs -> Nat]
        /\ verdict \in [Runs -> {"none", "refused", "ctx", "failed", "nil"}]
        /\ ctxDone \in [Runs -> BOOLEAN]
        /\ Len(har[r]) \in Nat
    BY <1>1, RecordingsAssumption, LenProperties DEF TypeOK
  <1>4. har' = har
    BY Progress
  <1> DEFINE Ended(q) ==
               /\ verdict[q] # "none" => pc[q] = "done"
               /\ verdict[q] \in {"nil", "failed"} =>
                     /\ cur[q] = Len(har[q]) + 1
                     /\ verdict[q] = "nil" <=> failed[q] = 0
               /\ verdict[q] = "ctx" => ctxDone[q]
  <1>5. \A q \in Runs : Ended(q)
    BY DEF EndInv
  <1> SUFFICES ASSUME NEW q \in Runs PROVE Ended(q)'
    BY DEF EndInv
  <1>6. CASE q # r
    <2>1. cur'[q] = cur[q] /\ failed'[q] = failed[q]
      BY <1>3, <1>6, Progress DEF Stays, Counted, Passed
    <2> QED
      BY <1>4, <1>5, <1>6, <2>1, OtherWaits
  <1>7. CASE q = r
    <2>1. ASSUME NEW from \in {"issue", "inflight", "probe", "copy", "close"},
                 DownloadFails(r, from), ctxDone' = ctxDone
          PROVE  Ended(q)'
      <3>1. verdict[r] = "none"
        BY <1>5, <2>1, FailureFacts, <1>1 DEF DownloadFails, Return, Goto
      <3>2. CASE ctxDone[r]
        BY <1>1, <1>3, <1>7, <2>1, <3>2, FailureTally
      <3>3. CASE ~ctxDone[r]
        BY <1>1, <1>3, <1>7, <2>1, <3>1, <3>3, FailureTally
      <3> QED
        BY <3>2, <3>3
    <2>2. CASE /\ pc[r] # "done" /\ verdict' = verdict
      BY <1>5, <1>7, <2>2
    <2>3. CASE Prepare(r) \/ BuildRequest(r) \/ SkipEntry(r) \/ Close(r) \/ Respond(r)
               \/ TryNext(r) \/ Create(r) \/ CopyBody(r)
      BY <2>2, <2>3 DEF Prepare, BuildRequest, SkipEntry, Close, Respond, TryNext, Create,
                        CopyBody, Goto
    <2>4. CASE Refuse(r) \/ StopCancelled(r)
      BY <1>2, <1>3, <1>7, <2>4 DEF Refuse, StopCancelled, Return, Goto
    <2>5. CASE Issue(r)
      <3>1. CASE ctxDone[r]
        BY <2>1, <2>5, <3>1 DEF Issue
      <3>2. CASE ~ctxDone[r]
        BY <2>2, <2>5, <3>2 DEF Issue, Goto
      <3> QED
        BY <3>1, <3>2
    <2>6. CASE NoBody(r)
      BY <2>1, <2>6 DEF NoBody
    <2>7. CASE CreateFails(r)
      BY <2>1, <2>7 DEF CreateFails
    <2>8. CASE CopyFails(r)
      BY <2>1, <2>8 DEF CopyFails
    <2>9. CASE CloseFails(r)
      BY <2>1, <2>9 DEF CloseFails
    <2>10. CASE Finish(r)
      <3>1. cur[r] > Len(har[r]) /\ cur[r] <= Len(har[r]) + 1
        BY <1>3, <2>10 DEF Finish, HasEntry, TallyInv
      <3>2. cur[r] = Len(har[r]) + 1
        BY <1>3, <3>1
      <3>3. /\ pc'[r] = "done"
            /\ verdict'[r] = IF failed[r] > 0 THEN "failed" ELSE "nil"
            /\ cur' = cur /\ failed' = failed
        BY <1>2, <1>3, <2>10 DEF Finish, Return, Goto
      <3>4. failed[r] \in Nat
        BY <1>3
      <3> QED
        BY <1>4, <1>7, <3>2, <3>3, <3>4
    <2>11. CASE Cancel(r)
      BY <1>3, <1>4, <1>5, <1>7, <2>11 DEF Cancel
    <2> QED
      BY <2>3, <2>4, <2>5, <2>6, <2>7, <2>8, <2>9, <2>10, <2>11 DEF Step, Quiet, Writes
  <1> QED
    BY <1>6, <1>7

VerdictInv == FetchInv /\ TallyInv /\ EndInv

LEMMA VerdictInit == Init => VerdictInv
  <1> SUFFICES ASSUME Init PROVE TallyInv /\ EndInv
    BY InitInv DEF VerdictInv
  <1>1. \A r \in Runs : Len(har[r]) \in Nat
    BY RecordingsAssumption, LenProperties DEF Init
  <1>2. ASSUME NEW r \in Runs PROVE Missing(r) = {}
    <2>1. cur[r] = 1
      BY DEF Init
    <2>2. 1..(cur[r] - 1) = {}
      BY <2>1
    <2> QED
      BY <2>2 DEF Missing
  <1>3. \A r \in Runs : Cardinality(Missing(r)) = 0
    BY <1>2, FS_EmptySet
  <1>4. TallyInv
    BY <1>1, <1>3 DEF Init, TallyInv
  <1>5. EndInv
    BY DEF Init, EndInv
  <1> QED
    BY <1>4, <1>5

LEMMA VerdictStays ==
  ASSUME VerdictInv, UNCHANGED vars PROVE VerdictInv'
  <1>1. FetchInv'
    BY StutterPreserves DEF VerdictInv
  <1>2. TallyInv' /\ EndInv'
    BY DEF VerdictInv, TallyInv, EndInv, Missing, Saved, vars
  <1> QED
    BY <1>1, <1>2 DEF VerdictInv

LEMMA VerdictInvariant == Spec => []VerdictInv
  <1>1. ASSUME VerdictInv, NEW r \in Runs, Step(r) PROVE VerdictInv'
    BY <1>1, StepPreserves, TallyPreserves, EndPreserves DEF VerdictInv
  <1>2. VerdictInv /\ [Next]_vars => VerdictInv'
    BY <1>1, NextIsStep, VerdictStays DEF VerdictInv
  <1> QED
    BY <1>2, VerdictInit, PTL DEF Spec

\* What a call returns is true of the directory it leaves: nil means that every selected
\* entry is there whole, and the number reported as failed is no lower than the number
\* of those that are not (fetch.go 153-166).
THEOREM VerdictHolds == Spec => []VerdictMatchesDirectory
  <1>1. VerdictInv => VerdictMatchesDirectory
    <2> SUFFICES ASSUME VerdictInv, NEW r \in Runs
                 PROVE  /\ verdict[r] = "nil" => Unsaved(r) = {}
                        /\ verdict[r] = "failed" =>
                              /\ Cardinality(Unsaved(r)) <= failed[r]
                              /\ failed[r] \in 1..Len(har[r])
                        /\ verdict[r] = "ctx" => ctxDone[r]
      BY DEF VerdictMatchesDirectory
    <2>1. cur[r] \in Nat \ {0} /\ failed[r] \in Nat /\ Len(har[r]) \in Nat
      BY RecordingsAssumption, LenProperties DEF VerdictInv, FetchInv, TypeOK
    <2>2. failed[r] <= cur[r] - 1 /\ Cardinality(Missing(r)) <= failed[r]
      BY DEF VerdictInv, TallyInv
    <2>3. verdict[r] = "ctx" => ctxDone[r]
      BY DEF VerdictInv, EndInv
    <2>4. CASE verdict[r] \in {"nil", "failed"}
      <3>1. cur[r] = Len(har[r]) + 1 /\ (verdict[r] = "nil" <=> failed[r] = 0)
        BY <2>4 DEF VerdictInv, EndInv
      <3>2. cur[r] - 1 = Len(har[r])
        BY <2>1, <3>1
      <3>3. Missing(r) = Unsaved(r)
        BY <3>2 DEF Missing, Unsaved
      <3>4. verdict[r] = "failed" => failed[r] \in 1..Len(har[r])
        BY <2>1, <2>2, <3>1, <3>2
      <3>5. ASSUME verdict[r] = "nil" PROVE Unsaved(r) = {}
        <4>1. IsFiniteSet(1..Len(har[r]))
          BY <2>1, FS_Interval
        <4>2. IsFiniteSet(Unsaved(r))
          BY <4>1, FS_Subset DEF Unsaved
        <4>3. Cardinality(Unsaved(r)) \in Nat
          BY <4>2, FS_CardinalityType
        <4>4. Cardinality(Unsaved(r)) = 0
          BY <2>1, <2>2, <3>1, <3>3, <3>5, <4>3
        <4> QED
          BY <4>2, <4>4, FS_EmptySet
      <3> QED
        BY <2>2, <2>3, <3>3, <3>4, <3>5
    <2> QED
      BY <2>3, <2>4
  <1> QED
    BY VerdictInvariant, <1>1, PTL

-------------------------------------------------------------------------------
(***************************************************************************)
(* Why a call ends.  Where a step takes its call: past an entry, out of    *)
(* the loop, or on to the next thing to be done with the entry.            *)
(***************************************************************************)
Leaves(r) == pc[r] # "done" /\ pc'[r] = "done" /\ cur'[r] = cur[r]

NextEntry(r) ==
    /\ HasEntry(r) /\ pc[r] \notin {"start", "done"}
    /\ pc'[r] = "entry" /\ cur'[r] = cur[r] + 1

Proceeds(r) ==
    /\ cur'[r] = cur[r]
    /\ \/ pc[r] = "start" /\ pc'[r] = "entry"
       \/ pc[r] = "entry" /\ pc'[r] = "issue"
       \/ pc[r] = "issue" /\ pc'[r] = "inflight"
       \/ pc[r] = "inflight" /\ pc'[r] = "probe"
       \/ pc[r] = "probe" /\ pc'[r] = "probe" /\ probe'[r] = probe[r] + 1
       \/ pc[r] = "probe" /\ pc'[r] = "copy"
       \/ pc[r] = "copy" /\ pc'[r] = "close" /\ open'[r] = open[r]

LEMMA FailureLeads ==
  ASSUME FetchInv, NEW r \in Runs, NEW from \in {"issue", "inflight", "probe", "copy", "close"},
         DownloadFails(r, from)
  PROVE  Leaves(r) \/ NextEntry(r)
  <1>1. TypeOK /\ pc[r] = from /\ HasEntry(r)
    BY FailureFacts DEF FetchInv, EntryInv
  <1>2. \/ cur' = cur /\ pc'[r] = "done"
        \/ cur' = [cur EXCEPT ![r] = cur[r] + 1] /\ pc'[r] = "entry"
    BY <1>1, FailureTally
  <1>3. cur \in [Runs -> Nat \ {0}]
    BY <1>1 DEF TypeOK
  <1>4. CASE cur' = cur /\ pc'[r] = "done"
    BY <1>1, <1>4 DEF Leaves
  <1>5. CASE cur' = [cur EXCEPT ![r] = cur[r] + 1] /\ pc'[r] = "entry"
    BY <1>1, <1>3, <1>5 DEF NextEntry
  <1> QED
    BY <1>2, <1>4, <1>5

Works(r) == Local(r) \/ Mishap(r) \/ Remote(r)

LEMMA StepIsWork ==
  ASSUME NEW r PROVE Step(r) <=> Works(r) \/ Cancel(r)
  BY DEF Works, Local, Mishap, Remote, Step, Quiet, Writes

LEMMA CallMoves ==
  ASSUME FetchInv, NEW r \in Runs, Works(r)
  PROVE  Leaves(r) \/ NextEntry(r) \/ Proceeds(r)
  <1>1. /\ pc \in [Runs -> {"start", "entry", "issue", "inflight", "probe", "copy", "close",
                            "done"}]
        /\ cur \in [Runs -> Nat \ {0}] /\ probe \in [Runs -> Nat]
    BY DEF FetchInv, TypeOK
  <1>2. CASE Refuse(r) \/ StopCancelled(r) \/ Finish(r)
    BY <1>1, <1>2 DEF Refuse, StopCancelled, Finish, Return, Goto, Leaves
  <1>3. CASE Prepare(r) \/ BuildRequest(r) \/ Respond(r) \/ Create(r) \/ CopyBody(r)
    BY <1>1, <1>3 DEF Prepare, BuildRequest, Respond, Create, CopyBody, Goto, Proceeds
  <1>4. CASE SkipEntry(r)
    BY <1>1, <1>4 DEF SkipEntry, NextEntry
  <1>5. CASE Close(r)
    <2>1. HasEntry(r)
      BY <1>5 DEF Close, Goto, FetchInv, EntryInv
    <2> QED
      BY <1>1, <1>5, <2>1 DEF Close, Goto, NextEntry
  <1>6. CASE TryNext(r)
    BY <1>1, <1>6 DEF TryNext, NextProbe, Proceeds
  <1>7. CASE Issue(r)
    <2>1. CASE ctxDone[r]
      BY <1>7, <2>1, FailureLeads DEF Issue
    <2>2. CASE ~ctxDone[r]
      BY <1>1, <1>7, <2>2 DEF Issue, Goto, Proceeds
    <2> QED
      BY <2>1, <2>2
  <1>8. CASE NoBody(r) \/ CreateFails(r) \/ CopyFails(r) \/ CloseFails(r)
    BY <1>8, FailureLeads DEF NoBody, CreateFails, CopyFails, CloseFails
  <1> QED
    BY <1>2, <1>3, <1>4, <1>5, <1>6, <1>7, <1>8
       DEF Works, Local, Mishap, Remote

\* A call sees nothing of the others' progress.
LEMMA OthersStay ==
  ASSUME FetchInv, NEW r \in Runs, Step(r), NEW q \in Runs \ {r}
  PROVE  pc'[q] = pc[q] /\ cur'[q] = cur[q] /\ probe'[q] = probe[q] /\ open'[q] = open[q]
  <1>1. TypeOK
    BY DEF FetchInv
  <1>2. pc'[q] = pc[q]
    BY OtherWaits
  <1>3. cur'[q] = cur[q]
    <2>1. cur' = cur \/ cur' = [cur EXCEPT ![r] = cur[r] + 1]
      BY Progress DEF Stays, Counted, Passed
    <2>2. cur \in [Runs -> Nat \ {0}]
      BY <1>1 DEF TypeOK
    <2> QED
      BY <2>1, <2>2
  <1>4. probe' = probe \/ \E i : probe' = [probe EXCEPT ![r] = i]
    BY DEF Step, Quiet, Writes, Prepare, Refuse, StopCancelled, BuildRequest, SkipEntry,
           Issue, NoBody, CreateFails, CopyFails, Close, Finish, Cancel, Respond, TryNext,
           Create, CopyBody, CloseFails
  <1>5. open' = open \/ \E o : open' = [open EXCEPT ![r] = o]
    BY DEF Step, Quiet, Writes, Prepare, Refuse, StopCancelled, BuildRequest, SkipEntry,
           Issue, NoBody, CreateFails, CopyFails, Close, Finish, Cancel, Respond, TryNext,
           Create, CopyBody, CloseFails
  <1> QED
    BY <1>1, <1>2, <1>3, <1>4, <1>5 DEF TypeOK

\* Nothing but the search for a name makes a file.
LEMMA OnlyCreateAdds ==
  ASSUME FetchInv, NEW r \in Runs, Step(r), ~Create(r)
  PROVE  DOMAIN dir' = DOMAIN dir
  <1>1. CASE Quiet(r)
    BY <1>1, QuietMoves DEF FetchInv
  <1>2. CASE Respond(r) \/ TryNext(r)
    BY <1>2 DEF Respond, TryNext
  <1>3. CASE Writes(r)
    <2>1. PICK n \in DOMAIN dir, whole \in BOOLEAN :
            dir' = [dir EXCEPT ![n] = [run |-> r, entry |-> cur[r], whole |-> whole]]
      BY <1>3, WriteFacts
    <2> QED
      BY <2>1
  <1> QED
    BY <1>1, <1>2, <1>3 DEF Step

LEMMA CreateAddsOne ==
  ASSUME FetchInv, NEW r \in Runs, Create(r)
  PROVE  \E name : /\ name \notin DOMAIN dir /\ DOMAIN dir' = DOMAIN dir \cup {name}
                   /\ dir'[name].run = r /\ dir'[name].entry = cur[r]
                   /\ open'[r] = <<name>>
  <1> DEFINE name == Name(Base(r), probe[r])
             file == [run |-> r, entry |-> cur[r], whole |-> FALSE]
  <1>1. /\ name \notin DOMAIN dir
        /\ dir' = [m \in DOMAIN dir \cup {name} |-> IF m = name THEN file ELSE dir[m]]
        /\ open' = [open EXCEPT ![r] = <<name>>]
    BY Zenon DEF Create, Taken, Put
  <1>2. file.run = r /\ file.entry = cur[r]
    OBVIOUS
  <1>3. open'[r] = <<name>>
    BY <1>1 DEF FetchInv, TypeOK
  <1> HIDE DEF name, file
  <1>4. DOMAIN dir' = DOMAIN dir \cup {name} /\ dir'[name] = file
    BY <1>1
  <1> QED
    BY <1>1, <1>2, <1>3, <1>4

-------------------------------------------------------------------------------
(***************************************************************************)
(* The files of an entry.                                                  *)
(***************************************************************************)
\* A file is of an entry its call has come to, and the one of the entry it is at is the
\* one it has open.
OwnEntry(n) ==
    LET q == dir[n].run
        k == dir[n].entry
    IN  /\ k \in 1..Len(har[q]) /\ k <= cur[q]
        /\ k = cur[q] => open[q] = <<n>> \/ pc[q] = "done"

FileInv == \A n \in DOMAIN dir : dir[n].run \in Runs => OwnEntry(n)

SameEntry(n, m) == dir[n].run = dir[m].run /\ dir[n].entry = dir[m].entry

\* No entry is ever downloaded into two files.
OneFileEach ==
    \A n, m \in DOMAIN dir : dir[n].run \in Runs /\ SameEntry(n, m) => n = m

CallInv == VerdictInv /\ IsFiniteSet(DOMAIN dir) /\ FileInv /\ OneFileEach

LEMMA CallInit == Init => CallInv
  <1> SUFFICES ASSUME Init PROVE CallInv
    OBVIOUS
  <1>1. VerdictInv
    BY VerdictInit
  <1>2. PICK names \in Leftovers : dir = [n \in names |-> Older]
    BY DEF Init
  <1>3. DOMAIN dir = names /\ IsFiniteSet(names)
    BY <1>2, LeftoversAssumption
  <1>4. \A n \in DOMAIN dir : dir[n].run \notin Runs
    BY <1>2, RunsAssumption DEF Older
  <1> QED
    BY <1>1, <1>3, <1>4 DEF CallInv, FileInv, OneFileEach

\* A file that stays is still of an entry its call has come to.
LEMMA OwnEntryStays ==
  ASSUME CallInv, NEW r \in Runs, Step(r), NEW n \in DOMAIN dir, dir[n].run \in Runs
  PROVE  OwnEntry(n)'
  <1> DEFINE q == dir[n].run
             k == dir[n].entry
  <1>1. FetchInv /\ FetchInv' /\ KeptBy(r) /\ har' = har
    BY StepPreserves, Progress DEF CallInv, VerdictInv
  <1>2. n \in DOMAIN dir' /\ dir'[n].run = q /\ dir'[n].entry = k
    BY <1>1 DEF KeptBy
  <1>3. /\ k \in 1..Len(har[q]) /\ k <= cur[q] /\ q \in Runs
        /\ k = cur[q] => open[q] = <<n>> \/ pc[q] = "done"
    BY DEF CallInv, FileInv, OwnEntry
  <1>4. cur[q] \in Nat /\ k \in Nat
    BY <1>1, <1>3 DEF FetchInv, TypeOK
  <1> HIDE DEF q, k
  <1>5. k <= cur'[q] /\ (k = cur'[q] => open'[q] = <<n>> \/ pc'[q] = "done")
    <2>1. CASE q # r
      BY <1>1, <1>3, <2>1, OthersStay
    <2>2. CASE q = r /\ Leaves(r)
      BY <1>3, <2>2 DEF Leaves
    <2>3. CASE q = r /\ NextEntry(r)
      BY <1>3, <1>4, <2>3 DEF NextEntry
    <2>4. CASE q = r /\ Proceeds(r)
      <3>1. pc[q] # "done" /\ cur'[q] = cur[q]
        BY <2>4 DEF Proceeds
      <3>2. open[q] = <<n>> => pc[q] \in {"copy", "close"}
        BY <1>1, <1>3 DEF FetchInv, OpenInv
      <3>3. open[q] = <<n>> => open'[q] = <<n>>
        BY <2>4, <3>2 DEF Proceeds
      <3> QED
        BY <1>3, <3>1, <3>3
    <2>5. CASE q = r /\ Cancel(r)
      BY <1>3, <2>5 DEF Cancel
    <2> QED
      BY <1>1, <2>1, <2>2, <2>3, <2>4, <2>5, CallMoves, StepIsWork
  <1> QED
    BY <1>1, <1>2, <1>3, <1>5 DEF OwnEntry

LEMMA CallPreserves ==
  ASSUME CallInv, NEW r \in Runs, Step(r) PROVE CallInv'
  <1>1. FetchInv /\ VerdictInv /\ FetchInv' /\ KeptBy(r) /\ har' = har
    BY StepPreserves, Progress DEF CallInv, VerdictInv
  <1>2. VerdictInv'
    BY <1>1, TallyPreserves, EndPreserves DEF VerdictInv
  <1>3. \A n \in DOMAIN dir : /\ n \in DOMAIN dir' /\ dir'[n].run = dir[n].run
                              /\ dir'[n].entry = dir[n].entry
    BY <1>1 DEF KeptBy
  <1>4. IsFiniteSet(DOMAIN dir) /\ FileInv /\ OneFileEach
    BY DEF CallInv
  <1>5. CASE ~Create(r)
    <2>1. DOMAIN dir' = DOMAIN dir
      BY <1>1, <1>5, OnlyCreateAdds
    <2>2. FileInv'
      BY <1>3, <2>1, OwnEntryStays DEF FileInv
    <2>3. OneFileEach'
      BY <1>3, <1>4, <2>1 DEF OneFileEach, SameEntry
    <2> QED
      BY <1>2, <1>4, <2>1, <2>2, <2>3 DEF CallInv
  <1>6. CASE Create(r)
    <2>1. PICK name : /\ name \notin DOMAIN dir /\ DOMAIN dir' = DOMAIN dir \cup {name}
                      /\ dir'[name].run = r /\ dir'[name].entry = cur[r]
                      /\ open'[r] = <<name>>
      BY <1>1, <1>6, CreateAddsOne
    <2>2. /\ pc[r] = "probe" /\ cur' = cur /\ HasEntry(r)
          /\ cur[r] \in Nat \ {0} /\ har[r] \in Seq(EntryType)
      BY <1>1, <1>6, RecordingsAssumption DEF Create, Goto, FetchInv, TypeOK, EntryInv
    <2>3. open[r] = <<>>
      BY <1>1, <2>2 DEF FetchInv, OpenInv
    <2>4. Len(har[r]) \in Nat
      BY <2>2, LenProperties
    <2>5. IsFiniteSet(DOMAIN dir')
      BY <1>4, <2>1, FS_AddElement
    <2>6. OwnEntry(name)'
      BY <1>1, <2>1, <2>2, <2>4 DEF OwnEntry, HasEntry
    <2>7. FileInv'
      BY <1>3, <2>1, <2>6, OwnEntryStays DEF FileInv
    <2>8. \A n \in DOMAIN dir : ~(dir'[n].run = r /\ dir'[n].entry = cur[r])
      <3> SUFFICES ASSUME NEW n \in DOMAIN dir, dir[n].run = r, dir[n].entry = cur[r]
                   PROVE  FALSE
        BY <1>3
      <3>1. OwnEntry(n)
        BY <1>4 DEF FileInv
      <3>2. open[r] = <<n>> \/ pc[r] = "done"
        BY <3>1 DEF OwnEntry
      <3> QED
        BY <2>2, <2>3, <3>2
    <2>9. OneFileEach'
      <3> SUFFICES ASSUME NEW n \in DOMAIN dir', NEW m \in DOMAIN dir', dir'[n].run \in Runs,
                          dir'[n].run = dir'[m].run, dir'[n].entry = dir'[m].entry
                   PROVE  n = m
        BY DEF OneFileEach, SameEntry
      <3>1. CASE n \in DOMAIN dir /\ m \in DOMAIN dir
        BY <1>3, <1>4, <3>1 DEF OneFileEach, SameEntry
      <3>2. CASE n = name \/ m = name
        BY <2>1, <2>8, <3>2
      <3> QED
        BY <2>1, <3>1, <3>2
    <2> QED
      BY <1>2, <2>5, <2>7, <2>9 DEF CallInv
  <1> QED
    BY <1>5, <1>6

LEMMA CallInvariant == Spec => []CallInv
  <1>1. CallInv /\ UNCHANGED vars => CallInv'
    BY VerdictStays DEF vars, CallInv, FileInv, OneFileEach, OwnEntry, SameEntry
  <1>2. CallInv /\ [Next]_vars => CallInv'
    BY <1>1, NextIsStep, CallPreserves
  <1> QED
    BY <1>2, CallInit, PTL DEF Spec

\* However many calls write to the directory and however their downloads end, no entry is
\* ever downloaded into two files (fetch.go 86-151).
THEOREM OneFilePerEntry == Spec => []OneFileEach
  <1>1. CallInv => OneFileEach
    BY DEF CallInv
  <1> QED
    BY CallInvariant, <1>1, PTL

-------------------------------------------------------------------------------
(***************************************************************************)
(* The most files there will ever be: those that were found, and one for   *)
(* each entry of each call.                                                *)
(***************************************************************************)
Attempts  == UNION {{r} \X (1..Len(har[r])) : r \in Runs}
Found     == {n \in DOMAIN dir : dir[n].run = Nobody}
MostFiles == Cardinality(Found) + Cardinality(Attempts)

LEMMA AttemptsFinite ==
  ASSUME TypeOK PROVE IsFiniteSet(Attempts)
  <1> DEFINE of == [r \in Runs |-> {r} \X (1..Len(har[r]))]
             All == {{r} \X (1..Len(har[r])) : r \in Runs}
  <1>1. of \in Surjection(Runs, All)
    BY DEF Surjection
  <1>2. IsFiniteSet(All)
    BY <1>1, RunsAssumption, FS_Surjection
  <1>3. ASSUME NEW T \in All PROVE IsFiniteSet(T)
    <2>1. PICK r \in Runs : T = {r} \X (1..Len(har[r]))
      OBVIOUS
    <2>2. har[r] \in Seq(EntryType)
      BY RecordingsAssumption DEF TypeOK
    <2>3. 1 \in Int /\ Len(har[r]) \in Int
      BY <2>2, LenProperties
    <2>4. IsFiniteSet(1..Len(har[r]))
      BY <2>3, FS_Interval
    <2> QED
      BY <2>1, <2>4, FS_Singleton, FS_Product
  <1> QED
    BY <1>2, <1>3, FS_UNION DEF Attempts

LEMMA FilesAreFew ==
  ASSUME CallInv
  PROVE  /\ MostFiles \in Nat /\ Cardinality(DOMAIN dir) \in Nat
         /\ Cardinality(DOMAIN dir) <= MostFiles
  <1> DEFINE Made == DOMAIN dir \ Found
             of   == [n \in Made |-> <<dir[n].run, dir[n].entry>>]
  <1>1. TypeOK /\ IsFiniteSet(DOMAIN dir) /\ FileInv /\ OneFileEach
    BY DEF CallInv, VerdictInv, FetchInv
  <1>2. IsFiniteSet(Found) /\ IsFiniteSet(Made)
    BY <1>1, FS_Subset DEF Found
  <1>3. \A n \in Made : dir[n].run \in Runs
    BY <1>1 DEF Found, TypeOK, FileType
  <1>4. \A n \in Made : of[n] \in Attempts
    <2> SUFFICES ASSUME NEW n \in Made PROVE <<dir[n].run, dir[n].entry>> \in Attempts
      OBVIOUS
    <2>1. dir[n].run \in Runs /\ dir[n].entry \in 1..Len(har[dir[n].run])
      BY <1>1, <1>3 DEF FileInv, OwnEntry
    <2> QED
      BY <2>1 DEF Attempts
  <1>5. of \in Injection(Made, Attempts)
    <2>1. \A n, m \in Made : of[n] = of[m] => n = m
      BY <1>1, <1>3 DEF OneFileEach, SameEntry
    <2>2. of \in [Made -> Attempts]
      BY <1>4
    <2> QED
      BY <2>1, <2>2 DEF Injection, IsInjective
  <1>6. Cardinality(Made) <= Cardinality(Attempts)
    BY <1>1, <1>5, AttemptsFinite, FS_Injection
  <1>7. Cardinality(Made) \in Nat /\ Cardinality(Attempts) \in Nat /\ Cardinality(Found) \in Nat
        /\ Cardinality(DOMAIN dir) \in Nat
    BY <1>1, <1>2, AttemptsFinite, FS_CardinalityType
  <1>8. Cardinality(DOMAIN dir) = Cardinality(Found) + Cardinality(Made)
    <2>1. DOMAIN dir = Found \cup Made /\ Found \cap Made = {}
      BY DEF Found
    <2> HIDE DEF Made
    <2>2. Cardinality(Found \cap Made) = 0
      BY <2>1, FS_EmptySet
    <2>3. Cardinality(Found \cup Made)
            = Cardinality(Found) + Cardinality(Made) - Cardinality(Found \cap Made)
      BY <1>2, FS_Union
    <2> QED
      BY <1>7, <2>1, <2>2, <2>3
  <1> HIDE DEF Made
  <1> QED
    BY <1>6, <1>7, <1>8 DEF MostFiles

\* What was found stays, and nothing is ever added to it.
LEMMA MostFilesStays ==
  ASSUME CallInv, NEW r \in Runs, Step(r) PROVE MostFiles' = MostFiles
  <1>1. FetchInv /\ KeptBy(r) /\ har' = har
    BY StepPreserves, Progress DEF CallInv, VerdictInv
  <1>2. \A n \in DOMAIN dir : n \in DOMAIN dir' /\ dir'[n].run = dir[n].run
    BY <1>1 DEF KeptBy
  <1>3. \A n \in DOMAIN dir' : n \in DOMAIN dir \/ dir'[n].run = r
    <2>1. CASE Create(r)
      BY <1>1, <2>1, CreateAddsOne
    <2>2. CASE ~Create(r)
      BY <1>1, <2>2, OnlyCreateAdds
    <2> QED
      BY <2>1, <2>2
  <1>4. Found' = Found
    BY <1>2, <1>3, RunsAssumption DEF Found
  <1>5. Attempts' = Attempts
    BY <1>1 DEF Attempts
  <1> QED
    BY <1>4, <1>5 DEF MostFiles

\* The search has found no more names taken than there are.
LEMMA SearchRoom ==
  ASSUME CallInv, NEW r \in Runs, pc[r] = "probe"
  PROVE  probe[r] <= Cardinality(DOMAIN dir)
  <1> DEFINE b == Base(r)
             k == probe[r]
             seen == [i \in 1..k |-> Name(b, i - 1)]
  <1>1. TypeOK /\ IsFiniteSet(DOMAIN dir) /\ SearchInv /\ HasEntry(r)
    BY DEF CallInv, VerdictInv, FetchInv, EntryInv
  <1>2. b \in FileName /\ k \in Nat
    BY <1>1, BaseType DEF TypeOK
  <1>3. \A i \in 0..(k - 1) : Name(b, i) \in DOMAIN dir
    BY <1>1 DEF SearchInv
  <1> HIDE DEF b, k
  <1>4. \A i \in 1..k : i - 1 \in 0..(k - 1) /\ i - 1 \in Nat
    BY <1>2
  <1>5. \A i \in 1..k : seen[i] \in DOMAIN dir
    BY <1>3, <1>4
  <1>6. \A i, j \in 1..k : seen[i] = seen[j] => i = j
    <2> SUFFICES ASSUME NEW i \in 1..k, NEW j \in 1..k, Name(b, i - 1) = Name(b, j - 1)
                 PROVE  i = j
      OBVIOUS
    <2>1. i - 1 = j - 1
      BY <1>2, <1>4, NameIsInjective
    <2> QED
      BY <1>2, <2>1
  <1>7. seen \in Injection(1..k, DOMAIN dir)
    BY <1>5, <1>6 DEF Injection, IsInjective
  <1>8. Cardinality(1..k) <= Cardinality(DOMAIN dir)
    BY <1>1, <1>7, FS_Injection
  <1>9. Cardinality(1..k) = k
    <2>1. 1 \in Int /\ k \in Int
      BY <1>2
    <2>2. Cardinality(1..k) = IF 1 > k THEN 0 ELSE k - 1 + 1
      BY <2>1, FS_Interval
    <2> QED
      BY <1>2, <2>2
  <1> QED
    BY <1>8, <1>9 DEF k

\* There are no more files than entries and found files, and no more of the names a
\* search has passed than files.
SearchIsShort ==
    /\ Cardinality(DOMAIN dir) <= MostFiles
    /\ \A r \in Runs : pc[r] = "probe" => probe[r] <= Cardinality(DOMAIN dir)

\* However many calls share the directory and whatever it held before, a search for a
\* free name opens no more files than there are, and there are never more than were found
\* and one for each entry (fetch.go 201-216).
THEOREM SearchIsBounded == Spec => []SearchIsShort
  <1>1. CallInv => SearchIsShort
    BY FilesAreFew, SearchRoom DEF SearchIsShort
  <1> QED
    BY CallInvariant, <1>1, PTL

-------------------------------------------------------------------------------
\* The entries a call has yet to leave behind, the one it is at included.
Ahead(r) == Len(har[r]) + 1 - cur[r]

\* The steps it can still make with that one.
Stage(r) ==
    CASE pc[r] = "start"    -> MostFiles + 7
      [] pc[r] = "entry"    -> MostFiles + 6
      [] pc[r] = "issue"    -> MostFiles + 5
      [] pc[r] = "inflight" -> MostFiles + 4
      [] pc[r] = "probe"    -> MostFiles + 3 - probe[r]
      [] pc[r] = "copy"     -> 2
      [] pc[r] = "close"    -> 1

CallRank(r) == IF pc[r] = "done" THEN 0 ELSE (MostFiles + 7) * Ahead(r) + Stage(r)

LEMMA RankParts ==
  ASSUME CallInv, NEW r \in Runs
  PROVE  /\ Ahead(r) \in Nat
         /\ pc[r] # "done" => Stage(r) \in Nat \ {0}
  <1>1. TypeOK /\ TallyInv
    BY DEF CallInv, VerdictInv, FetchInv
  <1>2. har[r] \in Seq(EntryType) /\ cur[r] \in Nat /\ probe[r] \in Nat
    BY <1>1, RecordingsAssumption DEF TypeOK
  <1>3. Len(har[r]) \in Nat /\ cur[r] <= Len(har[r]) + 1
    BY <1>1, <1>2, LenProperties DEF TallyInv
  <1>4. MostFiles \in Nat /\ (pc[r] = "probe" => probe[r] <= MostFiles)
    BY <1>2, FilesAreFew, SearchRoom
  <1>5. pc[r] \in {"start", "entry", "issue", "inflight", "probe", "copy", "close", "done"}
    BY <1>1 DEF TypeOK
  <1>6. Ahead(r) \in Nat
    BY <1>2, <1>3 DEF Ahead
  <1>7. pc[r] # "done" => Stage(r) \in Nat \ {0}
    BY <1>2, <1>4, <1>5 DEF Stage
  <1> QED
    BY <1>6, <1>7

LEMMA OneEntryLess ==
  ASSUME NEW w \in Nat \ {0}, NEW a \in Nat, NEW s \in Nat \ {0}
  PROVE  /\ w * a + s \in Nat \ {0}
         /\ w * (a - 1) + (w - 1) < w * a + s
  <1>1. w * a \in Nat /\ w * (a - 1) = w * a - w
    OBVIOUS
  <1> QED
    BY <1>1

LEMMA RankIsNatural ==
  ASSUME CallInv, NEW r \in Runs
  PROVE  CallRank(r) \in Nat /\ (pc[r] # "done" => CallRank(r) > 0)
  <1>1. CASE pc[r] = "done"
    BY <1>1 DEF CallRank
  <1>2. CASE pc[r] # "done"
    <2>1. Ahead(r) \in Nat /\ Stage(r) \in Nat \ {0} /\ MostFiles + 7 \in Nat \ {0}
      BY <1>2, RankParts, FilesAreFew
    <2>2. (MostFiles + 7) * Ahead(r) + Stage(r) \in Nat \ {0}
      BY <2>1, OneEntryLess
    <2> QED
      BY <1>2, <2>2 DEF CallRank
  <1> QED
    BY <1>1, <1>2

LEMMA CallCountsDown ==
  ASSUME CallInv, CallInv', SearchIsShort', NEW r \in Runs, Works(r)
  PROVE  CallRank(r)' < CallRank(r)
  <1> DEFINE w == MostFiles + 7
             a == Ahead(r)
             s == Stage(r)
  <1>1. FetchInv /\ Step(r) /\ har' = har /\ MostFiles' = MostFiles
    BY StepIsWork, Progress, MostFilesStays DEF CallInv, VerdictInv
  <1>2. /\ w \in Nat \ {0} /\ a \in Nat /\ MostFiles \in Nat
        /\ pc[r] # "done" => s \in Nat \ {0}
    BY FilesAreFew, RankParts
  <1>3. Len(har[r]) \in Nat /\ cur[r] \in Nat /\ probe[r] \in Nat /\ probe'[r] \in Nat
    BY <1>1, RecordingsAssumption, LenProperties DEF CallInv, VerdictInv, FetchInv, TypeOK
  <1>4. CASE Leaves(r)
    <2>1. CallRank(r)' = 0
      BY <1>4 DEF Leaves, CallRank
    <2>2. CallRank(r) \in Nat /\ CallRank(r) > 0
      BY <1>4, RankIsNatural DEF Leaves
    <2> QED
      BY <2>1, <2>2
  <1>5. CASE NextEntry(r)
    <2>1. a' = a - 1
      <3>1. cur'[r] = cur[r] + 1
        BY <1>5 DEF NextEntry
      <3>2. a' = Len(har[r]) + 1 - cur'[r] /\ a = Len(har[r]) + 1 - cur[r]
        BY <1>1 DEF Ahead
      <3> HIDE DEF a
      <3> QED
        BY <1>3, <3>1, <3>2
    <2>2. s' = w - 1
      BY <1>1, <1>2, <1>5 DEF NextEntry, Stage
    <2>3. CallRank(r) = w * a + s /\ CallRank(r)' = w * (a - 1) + (w - 1)
      BY <1>1, <1>5, <2>1, <2>2 DEF NextEntry, CallRank
    <2>4. s \in Nat \ {0}
      BY <1>2, <1>5 DEF NextEntry
    <2> HIDE DEF w, a, s
    <2>5. w * (a - 1) + (w - 1) < w * a + s
      BY <1>2, <2>4, OneEntryLess
    <2> QED
      BY <2>3, <2>5
  <1>6. CASE Proceeds(r)
    <2>1. a' = a
      BY <1>1, <1>6 DEF Proceeds, Ahead
    <2>2. pc[r] # "done" /\ pc'[r] # "done"
      BY <1>6 DEF Proceeds
    <2>3. pc'[r] = "probe" => probe'[r] <= MostFiles
      <3>1. pc'[r] = "probe" => probe'[r] <= Cardinality(DOMAIN dir')
            /\ Cardinality(DOMAIN dir') <= MostFiles'
        BY DEF SearchIsShort
      <3>2. IsFiniteSet(DOMAIN dir')
        BY DEF CallInv
      <3>3. Cardinality(DOMAIN dir') \in Nat
        BY <3>2, FS_CardinalityType
      <3> QED
        BY <1>1, <1>2, <1>3, <3>1, <3>3
    <2>4. s' < s /\ s' \in Int
      <3>1. CASE pc[r] = "start" /\ pc'[r] = "entry"
        BY <1>1, <1>2, <3>1 DEF Stage
      <3>2. CASE pc[r] = "entry" /\ pc'[r] = "issue"
        BY <1>1, <1>2, <3>2 DEF Stage
      <3>3. CASE pc[r] = "issue" /\ pc'[r] = "inflight"
        BY <1>1, <1>2, <3>3 DEF Stage
      <3>4. CASE pc[r] = "inflight" /\ pc'[r] = "probe"
        BY <1>1, <1>2, <1>3, <3>4 DEF Stage
      <3>5. CASE pc[r] = "probe" /\ pc'[r] = "probe" /\ probe'[r] = probe[r] + 1
        BY <1>1, <1>2, <1>3, <3>5 DEF Stage
      <3>6. CASE pc[r] = "probe" /\ pc'[r] = "copy"
        <4>1. probe[r] <= MostFiles
          BY <1>2, <1>3, <3>6, FilesAreFew, SearchRoom
        <4> QED
          BY <1>1, <1>2, <1>3, <3>6, <4>1 DEF Stage
      <3>7. CASE pc[r] = "copy" /\ pc'[r] = "close"
        BY <1>1, <1>2, <3>7 DEF Stage
      <3> QED
        BY <1>6, <3>1, <3>2, <3>3, <3>4, <3>5, <3>6, <3>7 DEF Proceeds
    <2>5. CallRank(r) = w * a + s /\ CallRank(r)' = w * a + s'
      BY <1>1, <2>1, <2>2 DEF CallRank
    <2>6. s \in Nat /\ w * a \in Nat
      BY <1>2, <2>2
    <2> HIDE DEF w, a, s
    <2> QED
      BY <2>4, <2>5, <2>6
  <1> QED
    BY <1>1, <1>4, <1>5, <1>6, CallMoves

LEMMA RankStays ==
  ASSUME CallInv, NEW r \in Runs, NEW q \in Runs, Step(q), q # r \/ Cancel(r)
  PROVE  CallRank(r)' = CallRank(r)
  <1>1. FetchInv /\ har' = har /\ MostFiles' = MostFiles
    BY Progress, MostFilesStays DEF CallInv, VerdictInv
  <1>2. pc'[r] = pc[r] /\ cur'[r] = cur[r] /\ probe'[r] = probe[r]
    BY <1>1, OthersStay DEF Cancel
  <1> QED
    BY <1>1, <1>2 DEF CallRank, Ahead, Stage

\* Every call ends by itself once the server lets it: each step it makes lowers a number
\* that no other call can raise, so that the others cannot keep it looking for a name,
\* however many files they make meanwhile (fetch.go 86-151, 201-216).  This is what
\* CancelEnds rests on, without the fairness.
THEOREM CallIsBounded ==
    Spec => [][\A r \in Runs : /\ CallRank(r) \in Nat
                               /\ Works(r) => CallRank(r)' < CallRank(r)
                               /\ ~Works(r) => CallRank(r)' = CallRank(r)]_vars
  <1>1. ASSUME CallInv, CallInv', SearchIsShort', [Next]_vars, ~UNCHANGED vars, NEW r \in Runs
        PROVE  /\ CallRank(r) \in Nat
               /\ Works(r) => CallRank(r)' < CallRank(r)
               /\ ~Works(r) => CallRank(r)' = CallRank(r)
    <2>1. PICK q \in Runs : Step(q)
      BY <1>1, NextIsStep
    <2>2. Works(r) => CallRank(r)' < CallRank(r)
      BY <1>1, CallCountsDown
    <2>3. ASSUME ~Works(r) PROVE CallRank(r)' = CallRank(r)
      BY <1>1, <2>1, <2>3, StepIsWork, RankStays
    <2> QED
      BY <1>1, <2>2, <2>3, RankIsNatural
  <1>2. CallInv /\ CallInv' /\ SearchIsShort' /\ [Next]_vars =>
            [\A r \in Runs : /\ CallRank(r) \in Nat
                             /\ Works(r) => CallRank(r)' < CallRank(r)
                             /\ ~Works(r) => CallRank(r)' = CallRank(r)]_vars
    BY <1>1
  <1> QED
    BY <1>2, CallInvariant, SearchIsBounded, PTL DEF Spec

===============================================================================
