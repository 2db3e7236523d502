--------------------------------- MODULE Fetch ---------------------------------
(***************************************************************************)
(* Fetch (fetch.go): one call downloads the selected entries of a document *)
(* one after the other, each into a new file of the output directory.      *)
(*                                                                         *)
(* Several calls may share a directory: the default one is named after the *)
(* second the call starts in, and OutDir may be anything that is already   *)
(* there.  The calls know nothing of each other, the only state they share *)
(* is the directory, so one action is one step between two system calls.   *)
(***************************************************************************)
EXTENDS Integers, Sequences, FiniteSets

CONSTANTS
    Runs,       \* the calls of Fetch that share the directory
    Nobody,     \* who wrote the files that were there before
    Words,      \* the file names without numeric suffixes, extension included
    Recordings, \* the sequences of selected entries a call may be given
    Leftovers   \* what the directory may hold at the start: sets of names

\* "app-1-2.js" is the word "app.js" with the suffixes <<1, 2>>.  A recording may
\* itself contain a name with a suffix.
FileName == [word : Words, suffixes : Seq(Nat)]

\* `base' is safeBaseName of the entry's path; `builds' is false when no http.Request
\* can be made of the entry.
EntryType == [base : FileName, builds : BOOLEAN]

ASSUME RunsAssumption == Nobody \notin Runs /\ IsFiniteSet(Runs)
ASSUME RecordingsAssumption == Recordings \subseteq Seq(EntryType)
ASSUME LeftoversAssumption ==
    \A names \in Leftovers : names \subseteq FileName /\ IsFiniteSet(names)

VARIABLES
    dir,        \* the directory: a file for each name in use
    har,        \* the selected entries of each call; never changes
    ctxDone,    \* the context of each call is done
    pc,         \* where each call is
    cur,        \* the entry each call is at
    next,       \* nameAllocator.next: the next suffix to try, by base name
    probe,      \* the suffix the allocator is trying
    open,       \* the name of the file being written
    failed,     \* the failure tally
    verdict     \* what each call returned

vars == <<dir, har, ctxDone, pc, cur, next, probe, open, failed, verdict>>

\* `whole': the file holds the complete body of that entry.
FileType == [run : Runs \cup {Nobody}, entry : Nat, whole : BOOLEAN]

Older == [run |-> Nobody, entry |-> 0, whole |-> TRUE]

\* The names a recording can ask for; next is a Go map, so an absent base counts 0.
Bases == UNION { {rec[i].base : i \in DOMAIN rec} : rec \in Recordings }

Init ==
    /\ \E names \in Leftovers : dir = [n \in names |-> Older]
    /\ har \in [Runs -> Recordings]
    /\ ctxDone = [r \in Runs |-> FALSE]
    /\ pc = [r \in Runs |-> "start"]
    /\ cur = [r \in Runs |-> 1]
    /\ next = [r \in Runs |-> [b \in Bases |-> 0]]
    /\ probe = [r \in Runs |-> 0]
    /\ open = [r \in Runs |-> <<>>]
    /\ failed = [r \in Runs |-> 0]
    /\ verdict = [r \in Runs |-> "none"]

Base(r) == har[r][cur[r]].base

\* The name with suffix i; 0 stands for the bare base name.
Name(base, i) ==
    IF i = 0 THEN base ELSE [base EXCEPT !.suffixes = Append(@, i)]

Goto(r, from, to) == pc[r] = from /\ pc' = [pc EXCEPT ![r] = to]

Return(r, from, v) ==
    /\ Goto(r, from, "done")
    /\ verdict' = [verdict EXCEPT ![r] = v]

(***************************************************************************)
(* Before the loop: the filter is compiled, the document decoded and       *)
(* filtered, the directory made if it is not there.                        *)
(***************************************************************************)
Prepare(r) ==
    /\ Goto(r, "start", "entry")
    /\ UNCHANGED <<dir, har, ctxDone, cur, next, probe, open, failed, verdict>>

Refuse(r) ==
    /\ Return(r, "start", "refused")
    /\ UNCHANGED <<dir, har, ctxDone, cur, next, probe, open, failed>>

(***************************************************************************)
(* One turn of the loop, up to the request.                                *)
(***************************************************************************)
HasEntry(r) == cur[r] <= Len(har[r])

\* Mutant: a failed download is logged and not counted.
NotCounted(r) == failed' = failed
CountFailure(r) == failed' = [failed EXCEPT ![r] = @ + 1]

StopCancelled(r) ==
    /\ HasEntry(r)
    /\ ctxDone[r]
    /\ Return(r, "entry", "ctx")
    /\ UNCHANGED <<dir, har, ctxDone, cur, next, probe, open, failed>>

BuildRequest(r) ==
    /\ HasEntry(r)
    /\ ~ctxDone[r]
    /\ har[r][cur[r]].builds
    /\ Goto(r, "entry", "issue")
    /\ UNCHANGED <<dir, har, ctxDone, cur, next, probe, open, failed, verdict>>

SkipEntry(r) ==
    /\ HasEntry(r)
    /\ ~ctxDone[r]
    /\ ~har[r][cur[r]].builds
    /\ pc[r] = "entry"
    /\ CountFailure(r)
    /\ cur' = [cur EXCEPT ![r] = @ + 1]
    /\ UNCHANGED <<dir, har, ctxDone, pc, next, probe, open, verdict>>

(***************************************************************************)
(* downloadFile returned an error: the call ends if its context did,       *)
(* otherwise the failure is counted and the loop goes on.                  *)
(***************************************************************************)
DownloadFails(r, from) ==
    IF ctxDone[r]
    THEN /\ Return(r, from, "ctx")
         /\ UNCHANGED <<cur, failed>>
    ELSE /\ Goto(r, from, "entry")
         /\ CountFailure(r)
         /\ cur' = [cur EXCEPT ![r] = @ + 1]
         /\ UNCHANGED verdict

\* client.Do: with a context that is already done it fails at once.
Issue(r) ==
    /\ IF ctxDone[r]
       THEN DownloadFails(r, "issue")
       ELSE Goto(r, "issue", "inflight") /\ UNCHANGED <<cur, failed, verdict>>
    /\ UNCHANGED <<dir, har, ctxDone, next, probe, open>>

\* The request fails, the status is 400 or above and not accepted, or the header of
\* the encoded body cannot be read.
NoBody(r) ==
    /\ DownloadFails(r, "inflight")
    /\ UNCHANGED <<dir, har, ctxDone, next, probe, open>>

\* Mutant: every name is looked for from the bare one on.
FromScratch(r) == 0
\* Where the search for a free name starts.
FirstProbe(r) == next[r][Base(r)]

\* A response that is to be saved is in hand; only now is a name looked for.
Respond(r) ==
    /\ Goto(r, "inflight", "probe")
    /\ probe' = [probe EXCEPT ![r] = FirstProbe(r)]
    /\ UNCHANGED <<dir, har, ctxDone, cur, next, open, failed, verdict>>

(***************************************************************************)
(* nameAllocator.create: OpenFile with O_CREATE and O_EXCL either makes    *)
(* the file or finds that the name is taken, in one system call.           *)
(***************************************************************************)
\* Mutant: the file is opened without O_EXCL.
NotExclusive(r) == FALSE
Taken(r) == Name(Base(r), probe[r]) \in DOMAIN dir

\* Mutant: every other suffix is tried; the search stands still.
EveryOther(i) == i + 2
StandStill(i) == i
NextProbe(i)  == i + 1

Put(d, n, file) == [m \in DOMAIN d \cup {n} |-> IF m = n THEN file ELSE d[m]]

Create(r) ==
    /\ Goto(r, "probe", "copy")
    /\ ~Taken(r)
    /\ LET name == Name(Base(r), probe[r]) IN
         /\ dir' = Put(dir, name, [run |-> r, entry |-> cur[r], whole |-> FALSE])
         /\ open' = [open EXCEPT ![r] = <<name>>]
    /\ next' = [next EXCEPT ![r][Base(r)] = probe[r] + 1]
    /\ UNCHANGED <<har, ctxDone, cur, probe, failed, verdict>>

TryNext(r) ==
    /\ pc[r] = "probe"
    /\ Taken(r)
    /\ probe' = [probe EXCEPT ![r] = NextProbe(@)]
    /\ UNCHANGED <<dir, har, ctxDone, pc, cur, next, open, failed, verdict>>

\* Any other error of OpenFile.
CreateFails(r) ==
    /\ DownloadFails(r, "probe")
    /\ UNCHANGED <<dir, har, ctxDone, next, probe, open>>

(***************************************************************************)
(* Copying the body and closing the file.  What was written of a body that *)
(* breaks off stays in the directory.                                      *)
(***************************************************************************)
Write(r, whole) ==
    dir' = [dir EXCEPT ![open[r][1]] = [run |-> r, entry |-> cur[r], whole |-> whole]]

CopyBody(r) ==
    /\ Goto(r, "copy", "close")
    /\ Write(r, TRUE)
    /\ UNCHANGED <<har, ctxDone, cur, next, probe, open, failed, verdict>>

CopyFails(r) ==
    /\ DownloadFails(r, "copy")
    /\ open' = [open EXCEPT ![r] = <<>>]
    /\ UNCHANGED <<dir, har, ctxDone, next, probe>>

Close(r) ==
    /\ Goto(r, "close", "entry")
    /\ open' = [open EXCEPT ![r] = <<>>]
    /\ cur' = [cur EXCEPT ![r] = @ + 1]
    /\ UNCHANGED <<dir, har, ctxDone, next, probe, failed, verdict>>

CloseFails(r) ==
    /\ DownloadFails(r, "close")
    /\ \E whole \in BOOLEAN : Write(r, whole)
    /\ open' = [open EXCEPT ![r] = <<>>]
    /\ UNCHANGED <<har, ctxDone, next, probe>>

Finish(r) ==
    /\ ~HasEntry(r)
    /\ Return(r, "entry", IF failed[r] > 0 THEN "failed" ELSE "nil")
    /\ UNCHANGED <<dir, har, ctxDone, cur, next, probe, open, failed>>

Cancel(r) ==
    /\ ~ctxDone[r]
    /\ ctxDone' = [ctxDone EXCEPT ![r] = TRUE]
    /\ UNCHANGED <<dir, har, pc, cur, next, probe, open, failed, verdict>>

-------------------------------------------------------------------------------
\* The steps that only need the program and a file system that works.
Local(r) ==
    \/ Prepare(r)
    \/ StopCancelled(r) \/ BuildRequest(r) \/ SkipEntry(r) \/ Issue(r)
    \/ Create(r) \/ TryNext(r)
    \/ Close(r) \/ Finish(r)

\* What may go wrong instead, and need not.
Mishap(r) == Refuse(r) \/ CreateFails(r) \/ CloseFails(r)

\* The steps that wait for a server.
Remote(r) == NoBody(r) \/ Respond(r) \/ CopyBody(r) \/ CopyFails(r)

Terminated == (\A r \in Runs : pc[r] = "done") /\ UNCHANGED vars

Next ==
    \/ \E r \in Runs : Local(r) \/ Mishap(r) \/ Remote(r) \/ Cancel(r)
    \/ Terminated

\* A server is only bound to answer, or to be given up, once the context is done.
Fairness ==
    \A r \in Runs : WF_vars(Local(r)) /\ WF_vars(ctxDone[r] /\ Remote(r))

Spec     == Init /\ [][Next]_vars
FairSpec == Spec /\ Fairness

-------------------------------------------------------------------------------
TypeOK ==
    /\ DOMAIN dir \subseteq FileName
    /\ \A n \in DOMAIN dir : dir[n] \in FileType
    /\ har \in [Runs -> Recordings]
    /\ ctxDone \in [Runs -> BOOLEAN]
    /\ pc \in [Runs -> {"start", "entry", "issue", "inflight", "probe", "copy", "close",
                        "done"}]
    /\ cur \in [Runs -> Nat \ {0}]
    /\ next \in [Runs -> [Bases -> Nat]]
    /\ probe \in [Runs -> Nat]
    /\ open \in [Runs -> {<<>>} \cup {<<n>> : n \in DOMAIN dir}]
    /\ failed \in [Runs -> Nat]
    /\ verdict \in [Runs -> {"none", "refused", "ctx", "failed", "nil"}]

\* No call ever touches a file it does not have open, its own earlier ones included,
\* and one that is open belongs to the call that opened it: two entries, or two calls,
\* that want the same name get different files (fetch.go 200-211).
FilesAreKept ==
    [][\A n \in DOMAIN dir :
         /\ n \in DOMAIN dir'
         /\ dir'[n] # dir[n] =>
              \E r \in Runs : /\ open[r] = <<n>>
                              /\ dir[n].run = r /\ dir'[n].run = r
                              /\ dir'[n].entry = dir[n].entry]_vars

Saved(r, i) == \E n \in DOMAIN dir : dir[n] = [run |-> r, entry |-> i, whole |-> TRUE]
Unsaved(r)  == { i \in 1..Len(har[r]) : ~Saved(r, i) }

\* What a call returns is true of the directory it leaves: nil means that every
\* selected entry is there whole, and the number reported as failed is no lower than
\* the number of those that are not (fetch.go 153-166).
VerdictMatchesDirectory ==
    \A r \in Runs :
        /\ verdict[r] = "nil" => Unsaved(r) = {}
        /\ verdict[r] = "failed" =>
              /\ Cardinality(Unsaved(r)) <= failed[r]
              /\ failed[r] \in 1..Len(har[r])
        /\ verdict[r] = "ctx" => ctxDone[r]

\* A suffix is only ever used when the bare name and all the lower suffixes are taken,
\* whoever took them (fetch.go 201-216).
NamesAreDense ==
    \A r \in Runs, b \in Bases : \A i \in 0..(next[r][b] - 1) :
        Name(b, i) \in DOMAIN dir

\* The allocator never tries a name it has already handed out for the same base name,
\* which is what keeps the number of probes linear (fetch.go 173-175).
NeverProbesOwnName ==
    \A r \in Runs :
        pc[r] = "probe" /\ Taken(r) =>
            LET file == dir[Name(Base(r), probe[r])]
            IN  file.run = r => har[r][file.entry].base # Base(r)

\* Cancelling ends the call: nothing in the loop, the search for a name included,
\* goes on for ever (fetch.go 86-88, 201-216).
CancelEnds == \A r \in Runs : ctxDone[r] ~> pc[r] = "done"

\* "no longer leaves a zero-byte file behind when a download fails" (CHANGELOG.md 236):
\* a file that is not being written is complete.
NoFileOfFailedDownload ==
    \A n \in DOMAIN dir : dir[n].whole \/ \E r \in Runs : open[r] = <<n>>
===============================================================================
