------------------------------ MODULE ReplayProofs ------------------------------
(***************************************************************************)
(* Proofs about Replay, for all recordings, options and cookies, and       *)
(* however long requests take.                                             *)
(***************************************************************************)
EXTENDS Replay, SortingProofs, SequenceTheorems, FiniteSetTheorems, TLAPS

(***************************************************************************)
(* The order of the entries.                                               *)
(***************************************************************************)
LEMMA SelectedIsOrdered ==
  ASSUME NEW rec \in Seq(EntryType)
  PROVE  /\ Selected(rec) \in Seq(DOMAIN rec)
         /\ {Selected(rec)[k] : k \in DOMAIN Selected(rec)} = Attempted(rec)
         /\ \A j, k \in DOMAIN Selected(rec) : j < k =>
               LET d == Selected(rec)[j]
                   e == Selected(rec)[k]
               IN  rec[d].time < rec[e].time \/ (rec[d].time = rec[e].time /\ d < e)
  <1>1. StartTimes(rec) \in Seq(Int) /\ DOMAIN StartTimes(rec) = DOMAIN rec
    <2>1. \A i \in DOMAIN rec : rec[i].time \in Int
      BY DEF EntryType
    <2> QED
      BY <2>1 DEF StartTimes
  <1>2. Attempted(rec) \in SUBSET DOMAIN StartTimes(rec)
    BY <1>1 DEF Attempted
  <1>3. Selected(rec) \in Seq(Attempted(rec))
    BY <1>1, <1>2, SortedIsOrdered DEF Selected
  <1>4. Selected(rec) \in Seq(DOMAIN rec)
    BY <1>1, <1>2, <1>3
  <1>5. ASSUME NEW j \in DOMAIN Selected(rec), NEW k \in DOMAIN Selected(rec), j < k
        PROVE  GoesBefore(StartTimes(rec), Selected(rec)[j], Selected(rec)[k])
    BY <1>1, <1>2, <1>5, SortedIsOrdered DEF Selected
  <1>6. \A k \in DOMAIN Selected(rec) :
            /\ Selected(rec)[k] \in DOMAIN rec
            /\ StartTimes(rec)[Selected(rec)[k]] = rec[Selected(rec)[k]].time
    BY <1>4 DEF StartTimes
  <1>7. {Selected(rec)[k] : k \in DOMAIN Selected(rec)} = Attempted(rec)
    BY <1>1, <1>2, SortedIsOrdered DEF Selected
  <1>8. ASSUME NEW j \in DOMAIN Selected(rec), NEW k \in DOMAIN Selected(rec), j < k
        PROVE  LET d == Selected(rec)[j]
                   e == Selected(rec)[k]
               IN  rec[d].time < rec[e].time \/ (rec[d].time = rec[e].time /\ d < e)
    BY <1>5, <1>6, <1>8 DEF GoesBefore
  <1> QED
    BY <1>4, <1>7, <1>8

-------------------------------------------------------------------------------
(***************************************************************************)
(* Where Run is, and what it has by then.                                  *)
(***************************************************************************)
ControlInv ==
    /\ queue # <<>> => queue = Selected(recording) /\ opts.times >= 0
    /\ pc = "start" => /\ queue = <<>> /\ cur = 1 /\ ~havePrev /\ failed = 0 /\ waited = 0
                       /\ reached = <<>> /\ results = <<>> /\ sent = <<>>
    /\ pc \in {"entry", "check"} => queue # <<>> /\ Len(results) = cur - 1
                                     /\ failed < cur /\ Len(sent) < cur
    /\ pc = "entry" => Len(reached) = cur - 1
    /\ pc = "check" => cur <= Len(queue) /\ Len(reached) = cur

RunInv == TypeOK /\ ControlInv /\ NothingAfterCancel

LEMMA InputTypes ==
  ASSUME TypeOK
  PROVE  /\ recording \in Seq(EntryType) /\ opts \in OptionType
         /\ cancelAt \in Nat /\ MaxDuration \in Nat
  BY RecordingsAssumption, OptionsAssumption, TimesAssumption DEF TypeOK

LEMMA EntryTyped ==
  ASSUME TypeOK, NEW k \in DOMAIN queue
  PROVE  EntryAt(k) \in EntryType /\ EntryAt(k).time \in Int
         /\ EntryAt(k).host \in Hosts /\ EntryAt(k).cookies \in Seq(CookieType)
         /\ EntryAt(k).path \in Paths /\ EntryAt(k).path # <<>>
  <1>1. queue[k] \in DOMAIN recording
    BY DEF TypeOK
  <1>2. EntryAt(k) \in EntryType
    BY <1>1, InputTypes DEF EntryAt
  <1> QED
    BY <1>2 DEF EntryType

LEMMA Division ==
  ASSUME NEW x \in Int, NEW t \in Nat \ {0}
  PROVE  /\ x \div t \in Int
         /\ t * (x \div t) <= x /\ x < t * (x \div t) + t
         /\ x <= 0 => x \div t <= 0
         /\ x >= 0 => x \div t >= 0
  <1>1. x \div t \in Int /\ t * (x \div t) <= x /\ x < t * (x \div t) + t
    OBVIOUS
  <1> QED
    BY <1>1

\* The scaled gap, for a speed that is not refused.
LEMMA ExactTyped ==
  ASSUME opts \in OptionType, NEW d \in Int
  PROVE  /\ Exact(d) \in Int
         /\ d <= 0 => Exact(d) <= 0
         /\ d >= 0 => Exact(d) >= 0
  <1>1. opts.times \in Int /\ opts.by \in Nat \ {0}
    BY DEF OptionType
  <1>2. CASE opts.times <= 0
    BY <1>2 DEF Exact
  <1>3. CASE opts.times > 0
    <2>1. opts.times \in Nat \ {0} /\ d * opts.by \in Int
      BY <1>1, <1>3
    <2>2. (d <= 0 => d * opts.by <= 0) /\ (d >= 0 => d * opts.by >= 0)
      BY <1>1
    <2> QED
      BY <1>3, <1>1, <2>1, <2>2, Division DEF Exact
  <1> QED
    BY <1>1, <1>2, <1>3

LEMMA DelayTyped ==
  ASSUME TypeOK, cur \in DOMAIN queue
  PROVE  Delay \in Nat
  <1>1. Entry.time \in Int /\ prev \in Int
    BY EntryTyped DEF Entry, TypeOK
  <1>2. /\ opts.maxDelay \in Nat /\ MaxDuration \in Nat /\ opts \in OptionType
    BY InputTypes DEF OptionType
  <1>3. Sub(Entry.time, prev) \in Int
    BY <1>1, <1>2 DEF Sub
  <1>4. ASSUME NEW d \in Int
        PROVE  DelayBefore(d) \in Int
    <2>1. Exact(d) \in Int
      BY <1>2, ExactTyped
    <2> QED
      BY <1>2, <2>1 DEF DelayBefore, Scaled
  <1> QED
    BY <1>3, <1>4 DEF Delay

LEMMA InitialRun ==
  ASSUME Init
  PROVE  RunInv
  <1> USE DEF Init
  <1>1. cancelAt \in Nat
    BY TimesAssumption
  <1>2. TypeOK
    <2>1. jar \in [Hosts -> SUBSET JarCookies]
      OBVIOUS
    <2>2. queue \in Seq(DOMAIN recording) /\ Len(queue) = 0 /\ prev \in Int
          /\ Len(reached) = 0 /\ Len(sent) = 0 /\ reached \in Seq(Nat)
          /\ results \in Seq({"ok", "error", "unsent", "unbuildable"})
          /\ sent \in Seq([at : DOMAIN queue, cookies : SUBSET CookieType])
      BY DEF ZeroTime
    <2>3. havePrev \in BOOLEAN
      OBVIOUS
    <2> QED
      BY <2>1, <2>2, <2>3 DEF TypeOK
  <1>3. ControlInv
    BY DEF ControlInv
  <1> QED
    BY <1>1, <1>2, <1>3 DEF RunInv, NothingAfterCancel

\* Any step that ends the run and only moves the time on.
LEMMA EndKeepsRun ==
  ASSUME RunInv, pc' = "done", now' \in Nat, now' <= cancelAt,
         verdict' \in {"options", "refused", "ctx", "failed", "nil"},
         UNCHANGED <<inputs, queue, cur, prev, havePrev, failed, reached, waited, results,
                     cookieVars>>
  PROVE  RunInv'
  <1>1. TypeOK'
    BY DEF RunInv, TypeOK, inputs, cookieVars
  <1>2. ControlInv'
    BY DEF RunInv, ControlInv, inputs
  <1> QED
    BY <1>1, <1>2 DEF RunInv, NothingAfterCancel, inputs

LEMMA PrepareKeepsRun ==
  ASSUME RunInv, Prepare
  PROVE  RunInv'
  <1> USE DEF Prepare, Return, inputs, cookieVars
  <1>1. recording \in Seq(EntryType)
    BY InputTypes DEF RunInv
  <1>2. Selected(recording) \in Seq(DOMAIN recording)
    BY <1>1, SelectedIsOrdered
  <1>3. TypeOK'
    <2>1. queue' \in Seq(DOMAIN recording') /\ Len(queue') \in Nat
      BY <1>2
    <2>2. cur' = 1 /\ failed' = 0 /\ reached' = <<>> /\ results' = <<>> /\ sent' = <<>>
          /\ waited' = 0
      BY DEF RunInv, ControlInv
    <2>3. pc' \in {"entry", "done"} /\ verdict' \in {"none", "nil", verdict}
      OBVIOUS
    <2>4. jar' \in [Hosts -> SUBSET JarCookies]
      BY DEF RunInv, TypeOK
    <2> QED
      BY <2>1, <2>2, <2>3, <2>4 DEF RunInv, TypeOK
  <1>4. ControlInv'
    BY InputTypes DEF RunInv, ControlInv
  <1> QED
    BY <1>3, <1>4 DEF RunInv, NothingAfterCancel

LEMMA ReachKeepsRun ==
  ASSUME RunInv, Reach
  PROVE  RunInv'
  <1> USE DEF Reach, HasEntry, inputs, cookieVars
  <1>1. cur \in DOMAIN queue /\ cur \in Nat /\ Len(queue) \in Nat
    BY DEF RunInv, TypeOK
  <1>2. Delay \in Nat /\ now' \in Nat /\ waited' \in Nat
    <2>1. TypeOK
      BY DEF RunInv
    <2>2. Delay \in Nat
      BY <1>1, <2>1, DelayTyped
    <2>3. now \in Nat /\ waited \in Nat
      BY <2>1 DEF TypeOK
    <2> QED
      BY <2>2, <2>3
  <1>3. Entry.time \in Int /\ Entry.parsed \in BOOLEAN
    BY <1>1, EntryTyped DEF RunInv, Entry, EntryType
  <1>4. reached' \in Seq(Nat) /\ Len(reached') = cur
    BY <1>1, <1>2 DEF RunInv, ControlInv, TypeOK
  <1>5. TypeOK'
    <2>1. prev' \in Int
      BY <1>3 DEF RunInv, TypeOK
    <2>2. havePrev' \in BOOLEAN
      BY Zenon, <1>3 DEF RunInv, TypeOK
    <2>3. jar' \in [Hosts -> SUBSET JarCookies]
      BY DEF RunInv, TypeOK
    <2> QED
      BY <1>1, <1>2, <1>4, <2>1, <2>2, <2>3 DEF RunInv, TypeOK
  <1>6. ControlInv'
    BY <1>1, <1>4 DEF RunInv, ControlInv
  <1>7. now' <= cancelAt
    BY <1>2 DEF RunInv, NothingAfterCancel, WaitOver, TypeOK
  <1> QED
    BY <1>5, <1>6, <1>7 DEF RunInv, NothingAfterCancel

\* What the end of an entry, with whatever result, does to types and counters.
LEMMA NextEntryKeepsRun ==
  ASSUME RunInv, pc = "check", NEW result \in {"ok", "error", "unsent", "unbuildable"},
         NextEntry(result), now' \in Nat, now' <= cancelAt,
         jar' \in [Hosts -> SUBSET JarCookies],
         sent' \in Seq([at : DOMAIN queue, cookies : SUBSET CookieType]), Len(sent') <= cur,
         UNCHANGED <<inputs, queue, prev, havePrev, verdict, reached, waited>>
  PROVE  RunInv'
  <1> USE DEF NextEntry, inputs
  <1>1. cur \in Nat /\ cur <= Len(queue) /\ Len(queue) \in Nat /\ cur' = cur + 1
        /\ failed \in Nat /\ failed < cur
    BY DEF RunInv, TypeOK, ControlInv
  <1>2. failed' \in Nat /\ failed' < cur'
    BY <1>1
  <1>3. results' \in Seq({"ok", "error", "unsent", "unbuildable"}) /\ Len(results') = cur
    BY <1>1 DEF RunInv, TypeOK, ControlInv
  <1>4. TypeOK'
    BY <1>1, <1>2, <1>3 DEF RunInv, TypeOK
  <1>5. Len(sent') \in Nat
    OBVIOUS
  <1>6. ControlInv'
    BY <1>1, <1>2, <1>3, <1>5 DEF RunInv, ControlInv
  <1> QED
    BY <1>4, <1>6 DEF RunInv, NothingAfterCancel

LEMMA SetCookiesTyped ==
  ASSUME NEW j \in [Hosts -> SUBSET JarCookies], NEW host \in Hosts,
         NEW cookies \in SUBSET JarCookies
  PROVE  SetCookies(j, host, cookies) \in [Hosts -> SUBSET JarCookies]
  BY DEF SetCookies

LEMMA DirectoryTyped ==
  ASSUME NEW path \in Paths, path # <<>>
  PROVE  Directory(path) \in Paths
  BY DEF Directory, Front, Paths

LEMMA LocatedTyped ==
  ASSUME TypeOK, cur \in DOMAIN queue, NEW new \in SUBSET ServerCookie
  PROVE  Located(new) \in SUBSET JarCookies
  <1>1. Directory(Entry.path) \in Paths
    BY EntryTyped, DirectoryTyped DEF Entry
  <1>2. ASSUME NEW c \in new, c.path # <<>>
        PROVE  c.path[1] \in Paths
    BY <1>2 DEF ServerCookie
  <1> QED
    BY <1>1, <1>2 DEF Located, InJar, JarCookies, ServerCookie

LEMMA LastAreRecorded ==
  ASSUME NEW cookies \in Seq(CookieType)
  PROVE  /\ Range(cookies) \in SUBSET CookieType
         /\ LastOfEachName(cookies) \in SUBSET Range(cookies)
  BY DEF LastOfEachName, Range

LEMMA SendTyped ==
  ASSUME TypeOK, cur \in DOMAIN queue
  PROVE  /\ Recorded \in Seq(CookieType)
         /\ LoadedJar \in [Hosts -> SUBSET JarCookies]
         /\ Send => /\ sent' \in Seq([at : DOMAIN queue, cookies : SUBSET CookieType])
                    /\ Len(sent') = Len(sent) + 1
  <1>1. Recorded \in Seq(CookieType) /\ Entry.host \in Hosts /\ Entry.path \in Paths
        /\ Entry.path # <<>>
    BY EntryTyped DEF Recorded, Entry
  <1>2. {InJar(c, Directory(Entry.path)) : c \in LastOfEachName(Recorded)}
          \in SUBSET JarCookies
    <2>1. LastOfEachName(Recorded) \in SUBSET CookieType
      BY <1>1, LastAreRecorded
    <2> QED
      BY <1>1, <2>1, DirectoryTyped DEF InJar, JarCookies, CookieType
  <1>3. LoadedJar \in [Hosts -> SUBSET JarCookies]
    BY <1>1, <1>2, SetCookiesTyped DEF LoadedJar, Loaded, TypeOK
  <1>4. ASSUME Send
        PROVE  /\ sent' \in Seq([at : DOMAIN queue, cookies : SUBSET CookieType])
               /\ Len(sent') = Len(sent) + 1
    <2> DEFINE ofJar == {[name |-> c.name, value |-> c.value] :
                           c \in {d \in LoadedJar[Entry.host] :
                                     PathMatch(d.path, Entry.path)}}
               both  == Range(Recorded) \cup ofJar
    <2>1. ofJar \in SUBSET CookieType
      <3>1. LoadedJar[Entry.host] \in SUBSET JarCookies
        BY <1>1, <1>3
      <3> QED
        BY <3>1 DEF CookieType, JarCookies
    <2>2. both \in SUBSET CookieType
      BY <1>1, <2>1, LastAreRecorded
    <2>3. sent' = Append(sent, [at |-> cur, cookies |-> both])
      BY <1>4 DEF Send
    <2>4. sent \in Seq([at : DOMAIN queue, cookies : SUBSET CookieType])
      BY DEF TypeOK
    <2> HIDE DEF both
    <2> QED
      BY <2>2, <2>3, <2>4
  <1> QED
    BY <1>1, <1>3, <1>4

LEMMA SkipEntryKeepsRun ==
  ASSUME RunInv, SkipEntry
  PROVE  RunInv'
  <1>1. /\ jar' \in [Hosts -> SUBSET JarCookies] /\ now' \in Nat /\ now' <= cancelAt
        /\ sent' \in Seq([at : DOMAIN queue, cookies : SUBSET CookieType])
    BY DEF SkipEntry, RunInv, TypeOK, NothingAfterCancel, cookieVars
  <1>2. Len(sent') <= cur /\ pc = "check"
    BY DEF SkipEntry, RunInv, ControlInv, TypeOK, cookieVars
  <1> QED
    BY <1>1, <1>2, NextEntryKeepsRun DEF SkipEntry

\* The end of the context during a request: what was sent stays in the history.
LEMMA CancelledKeepsRun ==
  ASSUME RunInv, pc = "check", pc' = "done", verdict' = "ctx", Send, jar' = LoadedJar,
         now' \in Nat, now' <= cancelAt,
         UNCHANGED <<inputs, queue, cur, prev, havePrev, failed, reached, waited, results>>
  PROVE  RunInv'
  <1>1. TypeOK /\ cur \in DOMAIN queue /\ Len(sent) < cur /\ cur <= Len(queue)
    BY DEF RunInv, ControlInv, TypeOK
  <1>2. /\ jar' \in [Hosts -> SUBSET JarCookies]
        /\ sent' \in Seq([at : DOMAIN queue, cookies : SUBSET CookieType])
        /\ Len(sent') = Len(sent) + 1
    BY <1>1, SendTyped
  <1>3. TypeOK'
    <2>1. Len(sent') <= Len(queue)
      BY <1>1, <1>2 DEF TypeOK
    <2> QED
      BY <1>2, <2>1 DEF RunInv, TypeOK, inputs
  <1>4. ControlInv'
    BY DEF RunInv, ControlInv, inputs
  <1> QED
    BY <1>3, <1>4 DEF RunInv, NothingAfterCancel, inputs

LEMMA RequestKeepsRun ==
  ASSUME RunInv, NEW d \in RequestTimes, Request(d)
  PROVE  RunInv'
  <1>1. TypeOK /\ cur \in DOMAIN queue /\ Len(sent) < cur /\ pc = "check"
    BY DEF Request, RunInv, ControlInv, TypeOK
  <1>2. now' \in Nat /\ now' <= cancelAt
    BY <1>1, TimesAssumption DEF Request, TypeOK
  <1>3. /\ LoadedJar \in [Hosts -> SUBSET JarCookies]
        /\ sent' \in Seq([at : DOMAIN queue, cookies : SUBSET CookieType])
        /\ Len(sent') <= cur
    BY <1>1, SendTyped DEF Request, TypeOK
  <1>4. ASSUME NEW result \in {"ok", "error"}, NEW new \in ServerCookies[Entry.host],
               NextEntry(result), UNCHANGED verdict,
               jar' = SetCookies(LoadedJar, Entry.host, Located(new))
        PROVE  RunInv'
    <2>1. Entry.host \in Hosts
      BY <1>1, EntryTyped DEF Entry
    <2>2. Located(new) \in SUBSET JarCookies
      BY <1>1, <2>1, CookiesAssumption, LocatedTyped
    <2>3. jar' \in [Hosts -> SUBSET JarCookies]
      BY <1>3, <1>4, <2>1, <2>2, SetCookiesTyped
    <2> QED
      BY <1>1, <1>2, <1>3, <1>4, <2>3, NextEntryKeepsRun DEF Request
  <1>5. CASE Return("ctx") /\ UNCHANGED <<cur, failed, results>> /\ jar' = LoadedJar
    BY <1>1, <1>2, <1>5, CancelledKeepsRun DEF Request, Return
  <1>6. CASE NextEntry("unsent") /\ UNCHANGED verdict /\ jar' = LoadedJar
    BY <1>1, <1>2, <1>3, <1>6, NextEntryKeepsRun DEF Request
  <1> QED
    BY <1>4, <1>5, <1>6 DEF Request

LEMMA RequestCancelledKeepsRun ==
  ASSUME RunInv, NEW d \in RequestTimes, RequestCancelled(d)
  PROVE  RunInv'
  <1>1. now' \in Nat /\ now' <= cancelAt
    BY InputTypes DEF RequestCancelled, RunInv
  <1> QED
    BY <1>1, CancelledKeepsRun DEF RequestCancelled, Return

LEMMA RunStep ==
  ASSUME RunInv, [Next]_vars
  PROVE  RunInv'
  <1>0. now \in Nat /\ cancelAt \in Nat /\ now <= cancelAt
    BY InputTypes DEF RunInv, TypeOK, NothingAfterCancel
  <1>1. CASE RejectSpeed \/ Refuse \/ StopCancelled \/ Finish
    BY <1>0, <1>1, EndKeepsRun DEF RejectSpeed, Refuse, StopCancelled, Finish, Return
  <1>2. CASE WaitCancelled
    <2>1. now' \in Nat /\ now' <= cancelAt
      BY <1>0, <1>2 DEF WaitCancelled
    <2> QED
      BY <1>2, <2>1, EndKeepsRun DEF WaitCancelled, Return
  <1>3. CASE Prepare \/ Reach \/ SkipEntry
    BY <1>3, PrepareKeepsRun, ReachKeepsRun, SkipEntryKeepsRun
  <1>4. ASSUME NEW d \in RequestTimes, Request(d) \/ RequestCancelled(d)
        PROVE  RunInv'
    BY <1>4, RequestKeepsRun, RequestCancelledKeepsRun
  <1>5. CASE UNCHANGED vars
    <2>1. TypeOK'
      BY <1>5 DEF RunInv, TypeOK, vars, inputs, cookieVars
    <2>2. ControlInv'
      BY <1>5 DEF RunInv, ControlInv, vars, inputs, cookieVars
    <2> QED
      BY <1>5, <2>1, <2>2 DEF RunInv, NothingAfterCancel, vars, inputs
  <1> QED
    BY <1>1, <1>2, <1>3, <1>4, <1>5 DEF Next

LEMMA RunHolds == Spec => []RunInv
  BY InitialRun, RunStep, PTL DEF Spec

\* The types and ranges of all variables.
THEOREM ReplayTypeCorrect == Spec => []TypeOK
  BY RunHolds, PTL DEF RunInv

\* Ending the context ends the replay at that moment, be it in a wait or in a request,
\* and however long either would have gone on (run.go 137-150).
THEOREM StopsWithTheContext == Spec => []NothingAfterCancel
  BY RunHolds, PTL DEF RunInv

\* For every recording: exactly its replayable entries are attempted, in the order of
\* their timestamps, and those of one instant as they were recorded (utils.go 38-87).
THEOREM EntriesInOrder == Spec => []ChronologicalOrder
  <1>1. RunInv => ChronologicalOrder
    <2> SUFFICES ASSUME RunInv, pc \in {"entry", "check"} PROVE ChronologicalOrder
      BY DEF ChronologicalOrder
    <2>1. queue = Selected(recording) /\ recording \in Seq(EntryType)
      BY InputTypes DEF RunInv, ControlInv
    <2>2. Attempted(recording)
            = {i \in DOMAIN recording : recording[i].kind \in {"good", "unbuildable"}}
      BY <2>1 DEF Attempted, EntryType, Kinds
    <2> QED
      BY <2>1, <2>2, SelectedIsOrdered DEF ChronologicalOrder, EntryAt
  <1> QED
    BY <1>1, RunHolds, PTL

-------------------------------------------------------------------------------
(***************************************************************************)
(* The tally.                                                              *)
(***************************************************************************)
Failing == {k \in DOMAIN results : IsFailure(results[k])}

TallyInv ==
    /\ failed = Cardinality(Failing)
    /\ verdict \in {"nil", "failed"} => /\ pc = "done" /\ Len(results) = Len(queue)
                                        /\ verdict = "failed" <=> failed > 0

LEMMA TallyStep ==
  ASSUME RunInv, TallyInv, [Next]_vars
  PROVE  TallyInv'
  <1>1. /\ results \in Seq({"ok", "error", "unsent", "unbuildable"})
        /\ Len(queue) \in Nat /\ cur \in Nat /\ failed \in Nat /\ Len(results) \in Nat
    BY DEF RunInv, TypeOK
  <1>2. ASSUME UNCHANGED <<opts, failed, results>>,
               \/ verdict' \notin {"nil", "failed"}
               \/ UNCHANGED <<pc, verdict, queue>>
        PROVE  TallyInv'
    BY <1>2 DEF TallyInv, Failing, IsFailure
  <1>3. ASSUME NEW result \in {"ok", "error", "unsent", "unbuildable"}, NextEntry(result),
               pc = "check", UNCHANGED <<opts, verdict>>
        PROVE  TallyInv'
    <2>1. /\ Len(results') = Len(results) + 1 /\ DOMAIN results' = 1..(Len(results) + 1)
          /\ results'[Len(results) + 1] = result
          /\ \A k \in DOMAIN results : results'[k] = results[k]
          /\ DOMAIN results = 1..Len(results)
      BY <1>1, <1>3 DEF NextEntry
    <2>2. \A r : IsFailure(r)' <=> IsFailure(r)
      BY <1>3 DEF IsFailure
    <2>3. Failing' = Failing \cup (IF IsFailure(result) THEN {Len(results) + 1} ELSE {})
      BY <1>1, <2>1, <2>2 DEF Failing
    <2>4. IsFiniteSet(Failing) /\ Len(results) + 1 \notin Failing
      <3>1. IsFiniteSet(1..Len(results)) /\ Failing \in SUBSET (1..Len(results))
        BY <1>1, <2>1, FS_Interval DEF Failing
      <3>2. Len(results) + 1 \notin 1..Len(results)
        BY <1>1
      <3> QED
        BY <3>1, <3>2, FS_Subset
    <2>5. Cardinality(Failing') = failed + (IF IsFailure(result) THEN 1 ELSE 0)
      <3>1. CASE IsFailure(result)
        BY <2>3, <2>4, <3>1, FS_AddElement DEF TallyInv
      <3>2. CASE ~IsFailure(result)
        BY <1>1, <2>3, <3>2 DEF TallyInv
      <3> QED
        BY <3>1, <3>2
    <2>6. verdict' \notin {"nil", "failed"}
      BY <1>3 DEF TallyInv
    <2> QED
      BY <1>3, <2>5, <2>6 DEF TallyInv, NextEntry
  <1>4. CASE RejectSpeed \/ Refuse \/ Reach \/ WaitCancelled \/ StopCancelled
    <2>1. UNCHANGED <<opts, failed, results>>
      BY <1>4 DEF RejectSpeed, Refuse, Reach, WaitCancelled, StopCancelled, inputs
    <2>2. verdict' \notin {"nil", "failed"}
      BY <1>4 DEF RejectSpeed, Refuse, Reach, WaitCancelled, StopCancelled, Return, TallyInv,
                  HasEntry
    <2> QED
      BY <1>2, <2>1, <2>2
  <1>5. CASE Prepare
    <2>1. UNCHANGED <<opts, failed, results>> /\ results = <<>> /\ failed = 0
      BY <1>5 DEF Prepare, inputs, RunInv, ControlInv
    <2>2. CASE verdict' = "nil" /\ pc' = "done" /\ queue' = <<>>
      BY <2>1, <2>2 DEF TallyInv, Failing, IsFailure
    <2>3. CASE verdict' = verdict
      BY <1>2, <1>5, <2>1, <2>3 DEF TallyInv, Prepare
    <2> QED
      BY <1>5, <2>2, <2>3 DEF Prepare, Return
  <1>6. CASE SkipEntry
    BY <1>3, <1>6 DEF SkipEntry, inputs
  <1>7. ASSUME NEW d \in RequestTimes, Request(d)
        PROVE  TallyInv'
    <2>1. pc = "check" /\ UNCHANGED opts
      BY <1>7 DEF Request, inputs
    <2>2. ASSUME NEW result \in {"ok", "error", "unsent"}, NextEntry(result),
                 UNCHANGED verdict
          PROVE  TallyInv'
      BY <1>3, <2>1, <2>2
    <2>3. CASE Return("ctx") /\ UNCHANGED <<cur, failed, results>>
      BY <1>2, <2>1, <2>3 DEF Return
    <2> QED
      BY <1>7, <2>2, <2>3 DEF Request
  <1>8. ASSUME NEW d \in RequestTimes, RequestCancelled(d)
        PROVE  TallyInv'
    BY <1>2, <1>8 DEF RequestCancelled, Return, inputs
  <1>9. CASE Finish
    <2>1. UNCHANGED <<opts, failed, results, queue>> /\ pc' = "done"
          /\ verdict' = (IF failed > 0 THEN "failed" ELSE "nil")
          /\ cur > Len(queue) /\ pc = "entry"
      BY <1>9 DEF Finish, Return, inputs
    <2>2. Len(results) = Len(queue)
      BY <1>1, <2>1 DEF RunInv, ControlInv, TypeOK
    <2> QED
      BY <2>1, <2>2 DEF TallyInv, Failing, IsFailure
  <1>10. CASE UNCHANGED vars
    BY <1>2, <1>10 DEF vars, inputs
  <1> QED
    BY <1>4, <1>5, <1>6, <1>7, <1>8, <1>9, <1>10 DEF Next

\* What Run returns is true of its entries: each was attempted, nil means that none
\* failed, and an error counts exactly those that did (run.go 183-191).
THEOREM VerdictIsTrue == Spec => []VerdictMatchesResults
  <1>1. Init => TallyInv
    <2>1. ASSUME Init PROVE Failing = {} /\ failed = 0 /\ verdict = "none"
      BY <2>1 DEF Init, Failing
    <2> QED
      BY <2>1, FS_EmptySet DEF TallyInv
  <1>2. RunInv /\ TallyInv => VerdictMatchesResults
    <2> SUFFICES ASSUME RunInv, TallyInv, verdict \in {"nil", "failed"}
                 PROVE  VerdictMatchesResults
      BY DEF VerdictMatchesResults
    <2>1. IsFiniteSet(Failing)
      <3>1. IsFiniteSet(DOMAIN results)
        BY FS_Interval DEF RunInv, TypeOK
      <3> QED
        BY <3>1, FS_Subset DEF Failing
    <2>2. failed > 0 <=> Failing # {}
      BY <2>1, FS_EmptySet, FS_CardinalityType DEF TallyInv
    <2> QED
      BY <2>2 DEF VerdictMatchesResults, TallyInv, Failing, IsFailure
  <1> QED
    BY <1>1, <1>2, RunHolds, TallyStep, PTL DEF Spec

-------------------------------------------------------------------------------
(***************************************************************************)
(* The pacing.                                                             *)
(***************************************************************************)
IsLast(j)  == j \in Paced /\ \A k \in Paced : k <= j
IsFirst(j) == j \in Paced /\ \A k \in Paced : j <= k

\* `prev' is the time of the last entry with a readable timestamp.
PrevInv ==
    /\ havePrev <=> Paced # {}
    /\ havePrev => \E j \in Paced : IsLast(j) /\ prev = EntryAt(j).time
    /\ havePrev => \E j \in Paced : IsFirst(j)
    /\ \A k \in DOMAIN reached : reached[k] <= now

\* The waits so far against the span of the recording so far.
SpanInv ==
    IF ~havePrev
    THEN waited = 0
    ELSE /\ \A j \in Paced : IsFirst(j) => waited <= Exact(prev - EntryAt(j).time)
         /\ opts.maxDelay > 0 => waited <= opts.maxDelay * (Cardinality(Paced) - 1)

PacingInv == PrevInv /\ GapsHonoured /\ SpanInv

\* A wait is what is wanted, where the scaled gap can be expressed at all.
LEMMA WaitsLongEnough ==
  ASSUME opts \in OptionType, opts.times >= 0, MaxDuration \in Nat, NEW gap \in Int,
         gap <= MaxDuration, saturates \/ Fits(gap)
  PROVE  LET d == DelayBefore(gap) IN (IF d > 0 THEN d ELSE 0) >= Wanted(gap)
  <1>1. /\ opts.times \in Nat /\ opts.maxDelay \in Nat /\ opts.maxDelay <= MaxDuration
        /\ opts.noWait \in BOOLEAN
    BY DEF OptionType
  <1>2. /\ Exact(gap) \in Int
        /\ gap <= 0 => Exact(gap) <= 0
        /\ gap >= 0 => Exact(gap) >= 0
    BY ExactTyped
  <1>3. Exact(gap) = IF opts.times = 0 THEN gap ELSE (gap * opts.by) \div opts.times
    BY <1>1 DEF Exact
  <1>4. DEFINE e == Exact(gap)
               longest == IF opts.maxDelay = 0 THEN MaxDuration ELSE opts.maxDelay
  <1>5. Wanted(gap) = IF opts.noWait THEN 0 ELSE IF e <= longest THEN e ELSE longest
    BY <1>3 DEF Wanted
  <1>6. DelayBefore(gap)
          = LET s == IF e < MaxDuration THEN e
                     ELSE IF saturates THEN MaxDuration ELSE -MaxDuration - 1
            IN  IF opts.noWait \/ gap <= 0 THEN 0
                ELSE IF opts.maxDelay > 0 /\ s > opts.maxDelay THEN opts.maxDelay ELSE s
    BY DEF DelayBefore, OverCap, Scaled, Fits
  <1>7. saturates \/ e < MaxDuration
    BY DEF Fits
  <1>8. e \in Int /\ (gap <= 0 => e <= 0) /\ (gap >= 0 => e >= 0)
    BY <1>2
  <1> HIDE DEF e
  <1>9. CASE opts.noWait
    BY <1>5, <1>6, <1>9
  <1>10. CASE ~opts.noWait /\ gap <= 0
    BY <1>1, <1>5, <1>6, <1>8, <1>10
  <1>11. CASE ~opts.noWait /\ gap > 0
    BY <1>1, <1>5, <1>6, <1>7, <1>8, <1>11
  <1> QED
    BY <1>9, <1>10, <1>11

\* A wait is never longer than the exact quotient, nor than the cap.
LEMMA WaitsNoLonger ==
  ASSUME opts \in OptionType, opts.times >= 0, MaxDuration \in Nat, NEW gap \in Int
  PROVE  LET d == DelayBefore(gap)
             wait == IF d > 0 THEN d ELSE 0
         IN  /\ gap >= 0 => wait <= Exact(gap)
             /\ opts.maxDelay > 0 => wait <= opts.maxDelay
  <1>1. opts.maxDelay \in Nat
    BY DEF OptionType
  <1>2. /\ Exact(gap) \in Int
        /\ gap >= 0 => Exact(gap) >= 0
    BY ExactTyped
  <1>3. Scaled(gap) <= Exact(gap) \/ Scaled(gap) < 0
    BY <1>2 DEF Scaled, Fits
  <1>4. Scaled(gap) \in Int
    BY <1>2 DEF Scaled
  <1> QED
    BY <1>1, <1>2, <1>3, <1>4 DEF DelayBefore, OverCap

\* Rounding each of two gaps towards zero gives no more than rounding their sum.
LEMMA ExactOfSum ==
  ASSUME opts \in OptionType, NEW a \in Nat, NEW b \in Nat
  PROVE  Exact(a) + Exact(b) <= Exact(a + b)
  <1>1. opts.times \in Int /\ opts.by \in Nat \ {0}
    BY DEF OptionType
  <1>2. CASE opts.times <= 0
    BY <1>2 DEF Exact
  <1>3. CASE opts.times > 0
    <2> DEFINE t == opts.times
               x == a * opts.by
               y == b * opts.by
    <2>1. t \in Nat \ {0} /\ x \in Int /\ y \in Int /\ (a + b) * opts.by = x + y
      BY <1>1, <1>3
    <2>2. Exact(a) = x \div t /\ Exact(b) = y \div t /\ Exact(a + b) = (x + y) \div t
      BY <1>1, <1>3, <2>1 DEF Exact
    <2> HIDE DEF t, x, y
    <2>3. PICK p \in Int : p = x \div t /\ t * p <= x
      BY <2>1, Division
    <2>4. PICK q \in Int : q = y \div t /\ t * q <= y
      BY <2>1, Division
    <2>5. PICK r \in Int : r = (x + y) \div t /\ x + y < t * r + t
      BY <2>1, Division
    <2>6. t * (p + q) < t * (r + 1)
      BY <2>1, <2>3, <2>4, <2>5
    <2>7. p + q < r + 1
      <3>1. SUFFICES ASSUME p + q >= r + 1 PROVE FALSE
        OBVIOUS
      <3>2. PICK m \in Nat : p + q = r + 1 + m
        <4>1. p + q - (r + 1) \in Nat /\ p + q = r + 1 + (p + q - (r + 1))
          BY <3>1
        <4> QED
          BY <4>1
      <3>3. t * m \in Nat /\ t * (p + q) = t * (r + 1) + t * m
        BY <2>1, <3>2
      <3>4. t * (r + 1) \in Int
        BY <2>1
      <3> QED
        BY <2>6, <3>3, <3>4
    <2> QED
      BY <2>2, <2>3, <2>4, <2>5, <2>7
  <1> QED
    BY <1>1, <1>2, <1>3

\* A longer gap is not scaled to less.
LEMMA ExactGrows ==
  ASSUME opts \in OptionType, NEW a \in Nat, NEW b \in Nat, a <= b
  PROVE  Exact(a) <= Exact(b)
  <1>1. PICK c \in Nat : b = a + c
    <2>1. b - a \in Nat /\ b = a + (b - a)
      OBVIOUS
    <2> QED
      BY <2>1
  <1>2. Exact(a) + Exact(c) <= Exact(b)
    BY <1>1, ExactOfSum
  <1> QED
    BY <1>2, ExactTyped

LEMMA OtherStepsKeepPacing ==
  ASSUME RunInv, PacingInv, now' \in Nat, now' >= now,
         UNCHANGED <<inputs, prev, havePrev, reached, waited>>,
         queue' = queue \/ reached = <<>>
  PROVE  PacingInv'
  <1>1. Paced' = Paced /\ \A k \in DOMAIN reached : queue' = queue
    BY DEF Paced, EntryAt, inputs
  <1>2. \A k \in Paced : EntryAt(k)' = EntryAt(k) /\ k \in DOMAIN reached
    BY <1>1 DEF Paced, EntryAt, inputs
  <1>3. \A d : /\ Exact(d)' = Exact(d) /\ Wanted(d)' = Wanted(d)
               /\ Fits(d)' <=> Fits(d)
    BY DEF Exact, Wanted, Fits, inputs
  <1>4. GapsHonoured'
    BY <1>1, <1>2, <1>3 DEF PacingInv, GapsHonoured, inputs
  <1>5. \A j : /\ IsFirst(j)' <=> IsFirst(j)
               /\ IsLast(j)' <=> IsLast(j)
    BY <1>1 DEF IsFirst, IsLast
  <1>6. PrevInv'
    <2>1. \A k \in DOMAIN reached : reached[k] <= now'
      <3>1. now \in Nat /\ reached \in Seq(Nat)
        BY DEF RunInv, TypeOK
      <3> QED
        BY <3>1 DEF PacingInv, PrevInv
    <2>2. havePrev => \E j \in Paced : IsLast(j)' /\ prev = EntryAt(j)'.time
      BY <1>2, <1>5 DEF PacingInv, PrevInv
    <2>3. havePrev => \E j \in Paced : IsFirst(j)'
      BY <1>5 DEF PacingInv, PrevInv
    <2>4. havePrev <=> Paced # {}
      BY DEF PacingInv, PrevInv
    <2> QED
      BY <1>1, <2>1, <2>2, <2>3, <2>4 DEF PrevInv
  <1>7. SpanInv'
    BY <1>1, <1>2, <1>3, <1>5 DEF PacingInv, SpanInv, inputs
  <1> QED
    BY <1>4, <1>6, <1>7 DEF PacingInv

\* Of two entries of the queue, the earlier one was not recorded later.
LEMMA TimesGrow ==
  ASSUME RunInv, NEW j \in DOMAIN queue, NEW k \in DOMAIN queue, j <= k
  PROVE  EntryAt(j).time <= EntryAt(k).time
  <1>1. /\ recording \in Seq(EntryType) /\ queue = Selected(recording)
        /\ j \in Nat /\ k \in Nat
    <2>1. queue \in Seq(DOMAIN recording) /\ TypeOK
      BY DEF RunInv, TypeOK
    <2>2. j \in Nat /\ k \in Nat /\ queue # <<>>
      BY <2>1
    <2> QED
      BY <2>1, <2>2, InputTypes DEF RunInv, ControlInv
  <1>2. EntryAt(j).time \in Int /\ EntryAt(k).time \in Int
    BY EntryTyped DEF RunInv
  <1>3. CASE j < k
    BY <1>1, <1>2, <1>3, SelectedIsOrdered DEF EntryAt
  <1>4. CASE j = k
    BY <1>2, <1>4
  <1> QED
    BY <1>1, <1>3, <1>4

\* What Reach does to the history, at the place it adds.
LEMMA ReachFacts ==
  ASSUME RunInv, PacingInv, Reach
  PROVE  /\ cur \in DOMAIN queue /\ cur \in Nat /\ cur \notin DOMAIN reached
         /\ DOMAIN reached' = DOMAIN reached \cup {cur}
         /\ \A k \in DOMAIN reached : reached'[k] = reached[k] /\ k < cur /\ k \in Nat
         /\ \A k \in DOMAIN reached : k \in DOMAIN queue /\ reached[k] \in Nat
         /\ reached'[cur] = now + Delay
         /\ now \in Nat /\ Delay \in Nat /\ now' = now + Delay
         /\ Paced' = Paced \cup (IF Entry.parsed THEN {cur} ELSE {})
         /\ \A k : EntryAt(k)' = EntryAt(k)
         /\ \A d : /\ Exact(d)' = Exact(d) /\ Wanted(d)' = Wanted(d)
                   /\ Fits(d)' <=> Fits(d)
  <1>1. /\ TypeOK /\ cur \in DOMAIN queue /\ cur \in Nat /\ Len(reached) = cur - 1
        /\ now \in Nat /\ reached \in Seq(Nat) /\ cur <= Len(queue) /\ Len(queue) \in Nat
    BY DEF RunInv, ControlInv, TypeOK, Reach, HasEntry
  <1>2. Delay \in Nat
    BY <1>1, DelayTyped
  <1>3. reached' = Append(reached, now + Delay) /\ now' = now + Delay
        /\ UNCHANGED <<inputs, queue>>
    BY DEF Reach
  <1>4. /\ DOMAIN reached = 1..(cur - 1) /\ DOMAIN reached' = 1..cur
        /\ reached'[cur] = now + Delay
        /\ \A k \in DOMAIN reached : reached'[k] = reached[k]
    <2> HIDE DEF Delay
    <2> QED
      BY <1>1, <1>2, <1>3
  <1>5. \A k : EntryAt(k)' = EntryAt(k)
    BY <1>3 DEF EntryAt, inputs
  <1>6. \A d : /\ Exact(d)' = Exact(d) /\ Wanted(d)' = Wanted(d)
               /\ Fits(d)' <=> Fits(d)
    BY <1>3 DEF Exact, Wanted, Fits, inputs
  <1>7. DOMAIN reached' = DOMAIN reached \cup {cur}
    BY <1>1, <1>4
  <1>8. Paced' = Paced \cup (IF Entry.parsed THEN {cur} ELSE {})
    <2>1. Paced' = {k \in DOMAIN reached \cup {cur} : EntryAt(k).parsed}
      BY <1>5, <1>7 DEF Paced
    <2> QED
      BY <2>1 DEF Paced, Entry
  <1>9. \A k \in DOMAIN reached : k \in DOMAIN queue /\ reached[k] \in Nat
                                  /\ k < cur /\ k \in Nat
    BY <1>1, <1>4
  <1>10. cur \notin DOMAIN reached
    BY <1>1, <1>4
  <1> QED
    BY <1>1, <1>2, <1>3, <1>4, <1>5, <1>6, <1>7, <1>8, <1>9, <1>10

\* An entry without a readable timestamp waits for nothing.
LEMMA ReachUnreadable ==
  ASSUME RunInv, PacingInv, Reach, ~Entry.parsed
  PROVE  PacingInv'
  <1>1. Delay = 0
    BY DEF Delay
  <1>2. /\ now' = now /\ now \in Nat /\ waited' = waited /\ prev' = prev /\ waited \in Nat
        /\ havePrev' = havePrev /\ Paced' = Paced /\ UNCHANGED inputs
    BY <1>1, ReachFacts DEF Reach, Remembers, RunInv, TypeOK
  <1>3. \A j : /\ IsFirst(j)' <=> IsFirst(j)
               /\ IsLast(j)' <=> IsLast(j)
    BY <1>2 DEF IsFirst, IsLast
  <1>4. \A k \in Paced : reached'[k] = reached[k]
    BY ReachFacts DEF Paced
  <1>5. GapsHonoured'
    BY <1>2, <1>4, ReachFacts DEF PacingInv, GapsHonoured, inputs
  <1>6. PrevInv'
    <2>1. \A k \in DOMAIN reached' : reached'[k] <= now'
      BY <1>1, <1>2, ReachFacts DEF PacingInv, PrevInv
    <2> QED
      BY <1>2, <1>3, <2>1, ReachFacts DEF PacingInv, PrevInv
  <1>7. SpanInv'
    BY <1>2, <1>3, ReachFacts DEF PacingInv, SpanInv, inputs
  <1> QED
    BY <1>5, <1>6, <1>7 DEF PacingInv

\* The first readable timestamp.
LEMMA ReachFirst ==
  ASSUME RunInv, PacingInv, Reach, Entry.parsed, ~havePrev
  PROVE  PacingInv'
  <1>1. Delay = 0 /\ Paced = {}
    BY DEF Delay, PacingInv, PrevInv
  <1>2. /\ now' = now /\ now \in Nat /\ waited' = 0 /\ prev' = EntryAt(cur).time
        /\ havePrev' /\ Paced' = {cur} /\ cur \in Nat /\ cur' = cur
    <2>1. now' = now /\ now \in Nat /\ Paced' = {cur} /\ cur \in Nat
      BY <1>1, ReachFacts
    <2>2. waited' = 0
      BY <1>1 DEF Reach, PacingInv, SpanInv
    <2>3. prev' = EntryAt(cur).time /\ havePrev' /\ cur' = cur
      BY DEF Reach, Remembers, Entry
    <2> QED
      BY <2>1, <2>2, <2>3
  <1>3. IsFirst(cur)' /\ IsLast(cur)'
    BY <1>2 DEF IsFirst, IsLast
  <1>4. GapsHonoured'
    BY <1>2 DEF GapsHonoured
  <1>5. PrevInv'
    <2>1. \A k \in DOMAIN reached' : reached'[k] <= now'
      BY <1>1, <1>2, ReachFacts DEF PacingInv, PrevInv
    <2>2. prev' = EntryAt(cur)'.time
      BY <1>2, ReachFacts
    <2> QED
      BY <1>2, <1>3, <2>1, <2>2 DEF PrevInv
  <1>6. SpanInv'
    <2>1. EntryAt(cur).time \in Int /\ opts \in OptionType
      BY ReachFacts, EntryTyped, InputTypes DEF RunInv
    <2>2. prev' - EntryAt(cur)'.time = 0 /\ Exact(0)' >= 0
      BY <1>2, <2>1, ExactTyped, ReachFacts
    <2>3. Cardinality(Paced') = 1
      BY <1>2, FS_Singleton
    <2>4. \A j \in Paced' : waited' <= Exact(prev - EntryAt(j).time)'
      BY <1>2, <2>2
    <2>5. opts'.maxDelay \in Nat /\ opts'.maxDelay * (Cardinality(Paced') - 1) = 0
      BY <2>1, <2>3 DEF Reach, inputs, OptionType
    <2> QED
      BY <1>2, <2>4, <2>5 DEF SpanInv
  <1> QED
    BY <1>4, <1>5, <1>6 DEF PacingInv

\* Any later one.
LEMMA ReachNext ==
  ASSUME RunInv, PacingInv, Reach, Entry.parsed, havePrev
  PROVE  PacingInv'
  <1> DEFINE gap == Sub(Entry.time, prev)
  <1>1. /\ opts \in OptionType /\ opts.times >= 0 /\ MaxDuration \in Nat
        /\ prev \in Int /\ Entry.time \in Int /\ waited \in Nat /\ UNCHANGED inputs
        /\ opts.maxDelay \in Nat /\ UNCHANGED <<opts, saturates>>
    <2>1. TypeOK /\ cur \in DOMAIN queue /\ queue # <<>>
      BY ReachFacts DEF RunInv
    <2>2. Entry.time \in Int /\ opts \in OptionType /\ MaxDuration \in Nat
      BY <2>1, EntryTyped, InputTypes DEF Entry
    <2>3. opts.times >= 0
      BY <2>1 DEF RunInv, ControlInv
    <2> QED
      BY <2>1, <2>2, <2>3 DEF TypeOK, Reach, inputs, OptionType
  <1>2. gap \in Int /\ gap <= MaxDuration /\ gap <= Entry.time - prev
    BY <1>1 DEF Sub
  <1>3. Delay = LET d == DelayBefore(gap) IN IF d > 0 THEN d ELSE 0
    BY DEF Delay
  <1>4. PICK last \in Paced : IsLast(last) /\ prev = EntryAt(last).time
    BY DEF PacingInv, PrevInv
  <1>5. PICK first \in Paced : IsFirst(first)
    BY DEF PacingInv, PrevInv
  <1>6. /\ prev' = Entry.time /\ havePrev' /\ waited' = waited + Delay /\ cur' = cur
        /\ Paced' = Paced \cup {cur} /\ Entry = EntryAt(cur)
    BY ReachFacts DEF Reach, Remembers, Entry
  <1>7. /\ Paced \subseteq DOMAIN reached /\ \A k \in Paced : k < cur /\ k \in Nat
        /\ Paced \subseteq DOMAIN queue /\ cur \in DOMAIN queue /\ cur \in Nat
        /\ cur \notin Paced
    BY ReachFacts DEF Paced
  <1>8. IsLast(cur)' /\ IsFirst(first)'
    BY <1>5, <1>6, <1>7 DEF IsLast, IsFirst
  <1>9. PrevInv'
    <2>1. \A k \in DOMAIN reached' : reached'[k] <= now'
      <3>1. now \in Nat /\ Delay \in Nat /\ now' = now + Delay /\ reached'[cur] = now'
        BY ReachFacts
      <3> HIDE DEF Delay
      <3>2. \A k \in DOMAIN reached : reached[k] <= now /\ reached[k] \in Nat
        BY ReachFacts DEF PacingInv, PrevInv
      <3> QED
        BY <3>1, <3>2, ReachFacts
    <2>2. prev' = EntryAt(cur)'.time
      BY <1>6, ReachFacts
    <2> QED
      BY <1>6, <1>8, <2>1, <2>2 DEF PrevInv
  <1>10. GapsHonoured'
    <2> SUFFICES ASSUME NEW j \in Paced', NEW k \in Paced', j < k,
                        \A i \in Paced' : ~(j < i /\ i < k),
                        saturates \/ Fits(Sub(EntryAt(k).time, EntryAt(j).time))
                 PROVE  reached'[k] - reached'[j]
                          >= Wanted(Sub(EntryAt(k).time, EntryAt(j).time))
      BY <1>1, ReachFacts DEF GapsHonoured
    <2>1. CASE k \in Paced
      <3>1. j \in Paced
        BY <1>6, <1>7, <2>1
      <3>2. reached'[k] = reached[k] /\ reached'[j] = reached[j]
        BY <1>7, <2>1, <3>1, ReachFacts
      <3>3. \A i \in Paced : ~(j < i /\ i < k)
        BY <1>6
      <3> QED
        BY <2>1, <3>1, <3>2, <3>3 DEF PacingInv, GapsHonoured
    <2>2. CASE k = cur
      <3>1. j \in Paced /\ j = last
        BY <1>4, <1>6, <1>7, <2>2 DEF IsLast
      <3>2. Sub(EntryAt(k).time, EntryAt(j).time) = gap
        BY <1>4, <1>6, <2>2, <3>1
      <3>3. Delay >= Wanted(gap)
        BY <1>1, <1>2, <1>3, <3>2, WaitsLongEnough
      <3>4. /\ reached'[j] = reached[j] /\ reached[j] \in Nat /\ reached[j] <= now
            /\ reached'[k] = now + Delay /\ now \in Nat /\ Delay \in Nat
        BY <1>7, <2>2, <3>1, ReachFacts DEF PacingInv, PrevInv
      <3>5. Wanted(gap) \in Int
        <4>1. Exact(gap) \in Int
          BY <1>1, <1>2, ExactTyped
        <4>2. Exact(gap)
                = IF opts.times = 0 THEN gap ELSE (gap * opts.by) \div opts.times
          BY <1>1 DEF Exact, OptionType
        <4> HIDE DEF gap
        <4> QED
          BY <1>1, <4>1, <4>2 DEF Wanted
      <3> HIDE DEF gap, Delay
      <3> QED
        BY <3>2, <3>3, <3>4, <3>5
    <2> QED
      BY <1>6, <2>1, <2>2
  <1>11. SpanInv'
    <2>1. gap >= 0 /\ Entry.time - prev \in Nat
      <3>1. prev <= Entry.time
        BY <1>4, <1>6, <1>7, TimesGrow
      <3> QED
        BY <1>1, <3>1 DEF Sub
    <2>2. /\ Delay \in Nat /\ Delay <= Exact(gap)
          /\ opts.maxDelay > 0 => Delay <= opts.maxDelay
      BY <1>1, <1>2, <1>3, <2>1, WaitsNoLonger, ReachFacts
    <2>3. Exact(gap) <= Exact(Entry.time - prev)
      BY <1>1, <1>2, <2>1, ExactGrows
    <2>4. ASSUME NEW j \in Paced', IsFirst(j)'
          PROVE  waited' <= Exact(prev - EntryAt(j).time)'
      <3>1. j \in Paced /\ IsFirst(j)
        BY <1>5, <1>6, <1>7, <2>4 DEF IsFirst
      <3>2. waited <= Exact(prev - EntryAt(j).time)
        BY <3>1 DEF PacingInv, SpanInv
      <3>3. EntryAt(j).time \in Int /\ prev - EntryAt(j).time \in Nat
        <4>1. j <= last
          BY <1>4, <3>1 DEF IsLast
        <4>2. EntryAt(j).time <= prev
          BY <1>4, <1>7, <3>1, <4>1, TimesGrow
        <4>3. EntryAt(j).time \in Int
          BY <1>7, <3>1, EntryTyped DEF RunInv
        <4> QED
          BY <1>1, <4>2, <4>3
      <3>4. Exact(prev - EntryAt(j).time) + Exact(Entry.time - prev)
              <= Exact((prev - EntryAt(j).time) + (Entry.time - prev))
        BY <1>1, <2>1, <3>3, ExactOfSum
      <3>5. (prev - EntryAt(j).time) + (Entry.time - prev) = Entry.time - EntryAt(j).time
        BY <1>1, <3>3
      <3>6. waited + Delay <= Exact(Entry.time - EntryAt(j).time)
        <4>1. /\ Exact(prev - EntryAt(j).time) \in Int /\ Exact(Entry.time - prev) \in Int
              /\ Exact(gap) \in Int /\ Exact(Entry.time - EntryAt(j).time) \in Int
          BY <1>1, <1>2, <3>3, ExactTyped
        <4> HIDE DEF gap
        <4> QED
          BY <1>1, <2>2, <2>3, <3>2, <3>4, <3>5, <4>1
      <3>7. Exact(prev - EntryAt(j).time)' = Exact(Entry.time - EntryAt(j).time)
        BY <1>6, ReachFacts
      <3> QED
        BY <1>6, <3>6, <3>7
    <2>5. opts.maxDelay > 0 => waited' <= opts.maxDelay * (Cardinality(Paced') - 1)
      <3>1. IsFiniteSet(Paced)
        <4>1. IsFiniteSet(DOMAIN reached)
          BY FS_Interval DEF RunInv, TypeOK
        <4> QED
          BY <1>7, <4>1, FS_Subset
      <3>2. Cardinality(Paced) \in Nat /\ Cardinality(Paced') = Cardinality(Paced) + 1
        BY <1>6, <1>7, <3>1, FS_AddElement, FS_CardinalityType
      <3>3. opts.maxDelay > 0 => waited <= opts.maxDelay * (Cardinality(Paced) - 1)
        BY DEF PacingInv, SpanInv
      <3>4. opts.maxDelay * Cardinality(Paced)
              = opts.maxDelay * (Cardinality(Paced) - 1) + opts.maxDelay
            /\ opts.maxDelay * (Cardinality(Paced) - 1) \in Int
        BY <1>1, <3>2
      <3>5. opts.maxDelay * (Cardinality(Paced') - 1) = opts.maxDelay * Cardinality(Paced)
        BY <1>1, <3>2
      <3> QED
        BY <1>1, <1>6, <2>2, <3>3, <3>4, <3>5
    <2> QED
      BY <1>1, <1>6, <2>4, <2>5 DEF SpanInv
  <1> QED
    BY <1>9, <1>10, <1>11 DEF PacingInv

LEMMA PacingStep ==
  ASSUME RunInv, PacingInv, [Next]_vars
  PROVE  PacingInv'
  <1>0. now \in Nat /\ now <= cancelAt /\ cancelAt \in Nat
    BY InputTypes DEF RunInv, TypeOK, NothingAfterCancel
  <1>1. CASE Reach
    BY <1>1, ReachUnreadable, ReachFirst, ReachNext
  <1>2. CASE RejectSpeed \/ Refuse \/ Prepare \/ StopCancelled \/ SkipEntry \/ Finish
             \/ UNCHANGED vars
    <2>1. UNCHANGED <<inputs, now, prev, havePrev, reached, waited>>
      BY <1>2 DEF RejectSpeed, Refuse, Prepare, StopCancelled, SkipEntry, Finish, vars, inputs
    <2>2. queue' = queue \/ reached = <<>>
      BY <1>2 DEF RejectSpeed, Refuse, Prepare, StopCancelled, SkipEntry, Finish, vars, RunInv,
                  ControlInv
    <2> QED
      BY <1>0, <2>1, <2>2, OtherStepsKeepPacing
  <1>3. CASE WaitCancelled
    BY <1>0, <1>3, OtherStepsKeepPacing DEF WaitCancelled
  <1>4. ASSUME NEW d \in RequestTimes, Request(d) \/ RequestCancelled(d)
        PROVE  PacingInv'
    <2>1. d \in Nat /\ now' \in Nat /\ now' >= now
      BY <1>0, <1>4, TimesAssumption DEF Request, RequestCancelled
    <2> QED
      BY <1>4, <2>1, OtherStepsKeepPacing DEF Request, RequestCancelled
  <1> QED
    BY <1>1, <1>2, <1>3, <1>4 DEF Next

LEMMA PacingHolds == Spec => []PacingInv
  <1>1. Init => PacingInv
    <2> SUFFICES ASSUME Init PROVE PacingInv
      OBVIOUS
    <2>1. Paced = {} /\ ~havePrev /\ waited = 0 /\ DOMAIN reached = {}
      BY DEF Init, Paced
    <2> QED
      BY <2>1 DEF PacingInv, PrevInv, SpanInv, GapsHonoured
  <1> QED
    BY <1>1, RunHolds, PacingStep, PTL DEF Spec

\* For every recording, speed and cap, and whatever fails or takes its time: between two
\* entries at least the recorded gap passes, scaled and capped, except where the scaled
\* gap is no time.Duration on a build that does not saturate (run.go 58-74, 118-146).
THEOREM GapsAreHonoured == Spec => []GapsHonoured
  BY PacingHolds, PTL DEF PacingInv

\* For every recording, speed and cap: the waits add up to no more than the span of the
\* recording at that speed, nor than the cap for each gap (run.go 58-74, 118-146).
THEOREM WaitsAddUp == Spec => []NoExtraDelay
  <1>1. RunInv /\ PacingInv => NoExtraDelay
    <2> SUFFICES ASSUME RunInv, PacingInv, Paced # {} PROVE NoExtraDelay
      BY DEF NoExtraDelay
    <2> DEFINE first == CHOOSE j \in Paced : \A k \in Paced : j <= k
               last  == CHOOSE j \in Paced : \A k \in Paced : k <= j
    <2>1. IsFirst(first) /\ first \in Paced
      BY DEF PacingInv, PrevInv, IsFirst
    <2>2. IsLast(last)
      BY DEF PacingInv, PrevInv, IsLast
    <2>3. PICK j \in Paced : IsLast(j) /\ prev = EntryAt(j).time
      BY DEF PacingInv, PrevInv
    <2>4. j = last
      <3>1. j \in Int /\ last \in Int
        BY <2>2, <2>3 DEF Paced, IsLast, RunInv, TypeOK
      <3> QED
        BY <2>2, <2>3, <3>1 DEF IsLast
    <2> QED
      BY <2>1, <2>3, <2>4 DEF PacingInv, PrevInv, SpanInv, NoExtraDelay
  <1> QED
    BY <1>1, RunHolds, PacingHolds, PTL

-------------------------------------------------------------------------------
(***************************************************************************)
(* The cookies.                                                            *)
(***************************************************************************)
SentEntry(j) == EntryAt(sent[j].at)

FromServer(h, c) == \E d \in UNION ServerCookies[h] : d.name = c.name /\ d.value = c.value

\* Entry e goes to host h, and what it records is put at this path.
GoesTo(e, h, path) == e.host = h /\ Directory(e.path) = path

\* c was the last of its name in a request to h and c's path, and no later request to
\* these recorded the name.
LastRecorded(h, c) ==
    /\ ~opts.ignoreCookies
    /\ \E j \in DOMAIN sent :
         /\ GoesTo(SentEntry(j), h, c.path)
         /\ [name |-> c.name, value |-> c.value] \in LastOfEachName(SentEntry(j).cookies)
         /\ \A i \in DOMAIN sent : i > j /\ GoesTo(SentEntry(i), h, c.path) =>
                \A d \in Range(SentEntry(i).cookies) : d.name # c.name

Known(h, c) == FromServer(h, c) \/ LastRecorded(h, c)

JarInv == \A h \in Hosts : \A c \in jar[h] : Known(h, c)

CookieInv == JarInv /\ CookiesAreCurrent

\* What of two cookies of one name stays in the jar is the later one, so every name stays.
LEMMA NameHasLast ==
  ASSUME NEW cookies \in Seq(CookieType), NEW d \in Range(cookies)
  PROVE  \E e \in LastOfEachName(cookies) : e.name = d.name
  <1> DEFINE n == Len(cookies)
             HasLast(k) == \E i \in 1..k :
                             /\ cookies[i].name = d.name
                             /\ \A l \in 1..k : l > i => cookies[l].name # d.name
             P == {k \in 0..n : (\E i \in 1..k : cookies[i].name = d.name) => HasLast(k)}
  <1>1. n \in Nat /\ DOMAIN cookies = 1..n
    OBVIOUS
  <1>2. 0 \in P
    BY <1>1
  <1>3. ASSUME NEW k \in 0..(n - 1), k \in P PROVE k + 1 \in P
    <2>1. k \in Nat /\ k + 1 \in 0..n
      BY <1>1
    <2> SUFFICES ASSUME \E i \in 1..(k + 1) : cookies[i].name = d.name PROVE HasLast(k + 1)
      BY <2>1
    <2>2. CASE cookies[k + 1].name = d.name
      <3>1. k + 1 \in 1..(k + 1) /\ \A l \in 1..(k + 1) : ~(l > k + 1)
        BY <2>1
      <3> QED
        BY <2>2, <3>1
    <2>3. CASE cookies[k + 1].name # d.name
      <3>1. PICK i \in 1..k : /\ cookies[i].name = d.name
                              /\ \A l \in 1..k : l > i => cookies[l].name # d.name
        <4>1. \E i \in 1..k : cookies[i].name = d.name
          <5>1. \A i \in 1..(k + 1) : i = k + 1 \/ i \in 1..k
            BY <2>1
          <5> QED
            BY <2>3, <5>1
        <4> QED
          BY <1>3, <4>1
      <3>2. i \in 1..(k + 1) /\ \A l \in 1..(k + 1) : l = k + 1 \/ l \in 1..k
        BY <2>1
      <3> QED
        BY <2>3, <3>1, <3>2
    <2> QED
      BY <2>2, <2>3
  <1>4. n \in P
    <2>1. 0..n \subseteq P
      <3> HIDE DEF P
      <3> QED
        BY <1>1, <1>2, <1>3, IntervalInduction
    <2>2. n \in 0..n
      BY <1>1
    <2> QED
      BY <2>1, <2>2
  <1>5. \E i \in 1..n : cookies[i].name = d.name
    BY <1>1 DEF Range
  <1>6. PICK i \in 1..n : /\ cookies[i].name = d.name
                          /\ \A l \in 1..n : l > i => cookies[l].name # d.name
    BY <1>4, <1>5
  <1>7. cookies[i] \in LastOfEachName(cookies)
    BY <1>1, <1>6 DEF LastOfEachName
  <1> QED
    BY <1>6, <1>7

LEMMA SendFacts ==
  ASSUME RunInv, pc = "check", Send, UNCHANGED <<inputs, queue>>
  PROVE  /\ TypeOK /\ cur \in DOMAIN queue /\ Len(sent) \in Nat
         /\ Entry.host \in Hosts /\ Entry.cookies \in Seq(CookieType)
         /\ opts.ignoreCookies \in BOOLEAN /\ opts' = opts
         /\ DOMAIN sent = 1..Len(sent) /\ DOMAIN sent' = 1..(Len(sent) + 1)
         /\ \A j \in DOMAIN sent : sent'[j] = sent[j] /\ SentEntry(j)' = SentEntry(j)
         /\ \A j \in DOMAIN sent' : SentEntry(j)' = IF j \in DOMAIN sent THEN SentEntry(j)
                                                   ELSE Entry
         /\ sent'[Len(sent) + 1].cookies
              = Range(Recorded) \cup
                  {[name |-> c.name, value |-> c.value] :
                     c \in {d \in LoadedJar[Entry.host] : PathMatch(d.path, Entry.path)}}
  <1>1. TypeOK /\ cur \in DOMAIN queue /\ opts \in OptionType
    BY InputTypes DEF RunInv, ControlInv, TypeOK
  <1>2. Entry.host \in Hosts /\ Entry.cookies \in Seq(CookieType)
    BY <1>1, EntryTyped DEF Entry
  <1> DEFINE both == Range(Recorded) \cup
                       {[name |-> c.name, value |-> c.value] :
                          c \in {d \in LoadedJar[Entry.host] : PathMatch(d.path, Entry.path)}}
  <1>3. sent' = Append(sent, [at |-> cur, cookies |-> both])
    BY DEF Send
  <1>4. sent \in Seq([at : DOMAIN queue, cookies : SUBSET CookieType]) /\ Len(sent) \in Nat
    BY <1>1 DEF TypeOK
  <1>5. /\ DOMAIN sent = 1..Len(sent) /\ DOMAIN sent' = 1..(Len(sent) + 1)
        /\ \A j \in DOMAIN sent : sent'[j] = sent[j]
        /\ sent'[Len(sent) + 1] = [at |-> cur, cookies |-> both]
    <2> HIDE DEF both
    <2> QED
      BY <1>3, <1>4
  <1>6. \A k : EntryAt(k)' = EntryAt(k)
    BY DEF EntryAt, inputs
  <1>7. \A j \in DOMAIN sent : SentEntry(j)' = SentEntry(j)
    BY <1>5, <1>6 DEF SentEntry
  <1>8. \A j \in DOMAIN sent' : SentEntry(j)' = IF j \in DOMAIN sent THEN SentEntry(j)
                                              ELSE Entry
    <2> SUFFICES ASSUME NEW j \in DOMAIN sent', j \notin DOMAIN sent
                 PROVE  SentEntry(j)' = Entry
      BY <1>7
    <2>1. j = Len(sent) + 1
      BY <1>4, <1>5
    <2> QED
      BY <1>5, <1>6, <2>1 DEF SentEntry, Entry
  <1> QED
    BY <1>1, <1>2, <1>4, <1>5, <1>7, <1>8 DEF inputs, OptionType

\* A cookie that was in the jar before stays known, unless the request records its name at
\* its host and path.
LEMMA KnownStays ==
  ASSUME RunInv, CookieInv, pc = "check", Send, UNCHANGED <<inputs, queue>>,
         NEW h \in Hosts, NEW c \in jar[h],
         \/ ~GoesTo(Entry, h, c.path) \/ opts.ignoreCookies
         \/ \A d \in Range(Entry.cookies) : d.name # c.name
  PROVE  Known(h, c)'
  <1>1. Known(h, c)
    BY DEF CookieInv, JarInv
  <1>2. CASE FromServer(h, c)
    BY <1>2 DEF Known, FromServer
  <1>3. CASE LastRecorded(h, c)
    <2>1. ~opts.ignoreCookies
      BY <1>3 DEF LastRecorded
    <2>2. PICK j \in DOMAIN sent :
            /\ GoesTo(SentEntry(j), h, c.path)
            /\ [name |-> c.name, value |-> c.value] \in LastOfEachName(SentEntry(j).cookies)
            /\ \A i \in DOMAIN sent : i > j /\ GoesTo(SentEntry(i), h, c.path) =>
                   \A d \in Range(SentEntry(i).cookies) : d.name # c.name
      BY <1>3 DEF LastRecorded
    <2>3. j \in DOMAIN sent' /\ SentEntry(j)' = SentEntry(j)
      BY SendFacts
    <2>4. ASSUME NEW i \in DOMAIN sent', i > j, GoesTo(SentEntry(i)', h, c.path)
          PROVE  \A d \in Range(SentEntry(i)'.cookies) : d.name # c.name
      <3>1. CASE i \in DOMAIN sent
        BY <2>2, <2>4, <3>1, SendFacts
      <3>2. CASE i \notin DOMAIN sent
        <4>1. SentEntry(i)' = Entry
          BY <3>2, SendFacts
        <4> QED
          BY <2>1, <2>4, <4>1
      <3> QED
        BY <3>1, <3>2
    <2>5. ~opts'.ignoreCookies
      BY <2>1, SendFacts
    <2>6. LastRecorded(h, c)'
      BY <2>2, <2>3, <2>4, <2>5 DEF LastRecorded, GoesTo
    <2> QED
      BY <2>6 DEF Known
  <1> QED
    BY <1>1, <1>2, <1>3 DEF Known

\* What the request records last under each name is known from then on.
LEMMA RecordedIsKnown ==
  ASSUME RunInv, pc = "check", Send, UNCHANGED <<inputs, queue>>,
         NEW d \in LastOfEachName(Recorded), NEW host, host = Entry.host,
         NEW e, e = InJar(d, Directory(Entry.path))
  PROVE  Known(host, e)'
  <1>1. ~opts.ignoreCookies /\ Recorded = Entry.cookies
    <2>1. Recorded # <<>>
      BY DEF LastOfEachName
    <2> QED
      BY <2>1 DEF Recorded
  <1>2. d \in CookieType
    BY <1>1, SendFacts, LastAreRecorded
  <1>3. e.path = Directory(Entry.path) /\ [name |-> e.name, value |-> e.value] = d
    BY <1>2 DEF InJar, CookieType
  <1>4. PICK j \in DOMAIN sent' : j = Len(sent) + 1 /\ j \notin DOMAIN sent
    BY SendFacts
  <1>5. SentEntry(j)' = Entry
    BY <1>4, SendFacts
  <1>6. \A i \in DOMAIN sent' : ~(i > j)
    BY <1>4, SendFacts
  <1>7. ~opts'.ignoreCookies
    BY <1>1, SendFacts
  <1>8. GoesTo(SentEntry(j)', host, e.path)
    BY <1>3, <1>5 DEF GoesTo
  <1>9. [name |-> e.name, value |-> e.value] \in LastOfEachName(SentEntry(j)'.cookies)
    BY <1>1, <1>3, <1>5
  <1>10. LastRecorded(host, e)'
    BY <1>6, <1>7, <1>8, <1>9 DEF LastRecorded, GoesTo
  <1> QED
    BY <1>10 DEF Known

\* The request loads its recorded cookies into the jar.
LEMMA LoadedIsKnown ==
  ASSUME RunInv, CookieInv, pc = "check", Send, UNCHANGED <<inputs, queue>>,
         NEW h \in Hosts, NEW c \in LoadedJar[h]
  PROVE  Known(h, c)'
  <1> DEFINE put == {InJar(d, Directory(Entry.path)) : d \in LastOfEachName(Recorded)}
  <1>1. jar \in [Hosts -> SUBSET JarCookies] /\ Entry.host \in Hosts
    BY SendFacts DEF TypeOK
  <1>2. LoadedJar = SetCookies(jar, Entry.host, put)
    BY DEF LoadedJar, Loaded
  <1>3. \/ h = Entry.host /\ c \in put
        \/ /\ c \in jar[h]
           /\ h = Entry.host => \A d \in put : d.name # c.name \/ d.path # c.path
    <2> HIDE DEF put
    <2> QED
      BY <1>1, <1>2 DEF SetCookies
  <1>4. CASE h = Entry.host /\ c \in put
    BY <1>4, RecordedIsKnown
  <1>5. CASE /\ c \in jar[h]
             /\ h = Entry.host => \A d \in put : d.name # c.name \/ d.path # c.path
    <2>1. ASSUME GoesTo(Entry, h, c.path), ~opts.ignoreCookies, NEW d \in Range(Entry.cookies)
          PROVE  d.name # c.name
      <3>1. Recorded = Entry.cookies /\ Entry.cookies \in Seq(CookieType)
        BY <2>1, SendFacts DEF Recorded
      <3>2. PICK e \in LastOfEachName(Recorded) : e.name = d.name
        BY <2>1, <3>1, NameHasLast
      <3>3. InJar(e, c.path) \in put
        BY <2>1, <3>2 DEF GoesTo
      <3>4. InJar(e, c.path).name = e.name /\ InJar(e, c.path).path = c.path
        BY DEF InJar
      <3>5. InJar(e, c.path).name # c.name \/ InJar(e, c.path).path # c.path
        <4> HIDE DEF put
        <4> QED
          BY <1>5, <2>1, <3>3 DEF GoesTo
      <3> QED
        BY <3>2, <3>4, <3>5
    <2> QED
      BY <1>5, <2>1, KnownStays
  <1> QED
    BY <1>3, <1>4, <1>5

\* What CookiesAreCurrent says of request k, for a cookie it was not recorded with.
FromEarlier(k, c) ==
    /\ ~opts.ignoreCookies
    /\ \E j \in 1..(k - 1) :
         /\ SentEntry(j).host = SentEntry(k).host
         /\ PathMatch(Directory(SentEntry(j).path), SentEntry(k).path)
         /\ c \in LastOfEachName(SentEntry(j).cookies)
         /\ \A i \in (j + 1)..k :
              /\ SentEntry(i).host = SentEntry(j).host
              /\ Directory(SentEntry(i).path) = Directory(SentEntry(j).path)
              => \A d \in Range(SentEntry(i).cookies) : d.name # c.name

Own(k) == IF opts.ignoreCookies THEN {} ELSE Range(SentEntry(k).cookies)

CurrentAt(k) ==
    /\ Own(k) \subseteq sent[k].cookies
    /\ \A c \in sent[k].cookies \ Own(k) :
          FromServer(SentEntry(k).host, c) \/ FromEarlier(k, c)

LEMMA CurrentEverywhere == CookiesAreCurrent <=> \A k \in DOMAIN sent : CurrentAt(k)
  BY DEF CookiesAreCurrent, CurrentAt, Own, FromServer, FromEarlier, SentEntry

\* What was sent before stays as it was.
LEMMA CurrentStays ==
  ASSUME RunInv, pc = "check", Send, UNCHANGED <<inputs, queue>>,
         NEW k \in DOMAIN sent, CurrentAt(k)
  PROVE  CurrentAt(k)'
  <1>1. \A j \in 1..k : SentEntry(j)' = SentEntry(j)
    <2>1. \A j \in 1..k : j \in DOMAIN sent
      BY SendFacts
    <2> QED
      BY <2>1, SendFacts
  <1>2. /\ k \in Nat /\ k \in 1..k /\ 1..(k - 1) \subseteq 1..k
        /\ \A j \in 1..(k - 1) : (j + 1)..k \subseteq 1..k
    BY SendFacts
  <1>3. opts' = opts /\ sent'[k] = sent[k] /\ SentEntry(k)' = SentEntry(k)
    BY <1>1, <1>2, SendFacts
  <1>4. \A c : FromEarlier(k, c)' <=> FromEarlier(k, c)
    BY <1>1, <1>2, <1>3 DEF FromEarlier
  <1>5. Own(k)' = Own(k)
    BY <1>3 DEF Own
  <1>6. \A c : FromServer(SentEntry(k).host, c)' <=> FromServer(SentEntry(k).host, c)
    BY <1>3 DEF FromServer
  <1> QED
    BY <1>3, <1>4, <1>5, <1>6 DEF CurrentAt, FromServer

\* What is sent is the entry's own or known of a jar that matches its path.
LEMMA CurrentNow ==
  ASSUME RunInv, CookieInv, pc = "check", Send, UNCHANGED <<inputs, queue>>,
         NEW k, k = Len(sent) + 1
  PROVE  CurrentAt(k)'
  <1> DEFINE matching == {d \in LoadedJar[Entry.host] : PathMatch(d.path, Entry.path)}
             ofJar == {[name |-> x.name, value |-> x.value] : x \in matching}
  <1>1. /\ SentEntry(k)' = Entry /\ sent'[k].cookies = Range(Recorded) \cup ofJar
        /\ opts' = opts /\ DOMAIN sent' = 1..k /\ k \in Nat
    BY SendFacts
  <1>2. Own(k)' = Range(Recorded)
    BY <1>1 DEF Own, Recorded, Range
  <1>3. ASSUME NEW c \in ofJar, c \notin Range(Recorded)
        PROVE  FromServer(Entry.host, c) \/ FromEarlier(k, c)'
    <2>1. PICK x \in matching : c = [name |-> x.name, value |-> x.value]
      BY <1>3
    <2>2. PICK host \in Hosts : host = Entry.host
      BY SendFacts
    <2>3. Known(host, x)'
      BY <2>1, <2>2, LoadedIsKnown
    <2>4. CASE FromServer(host, x)'
      BY <2>1, <2>2, <2>4 DEF FromServer
    <2>5. CASE LastRecorded(host, x)'
      <3>1. ~opts'.ignoreCookies
        BY <2>5 DEF LastRecorded
      <3>2. PICK j \in DOMAIN sent' :
              /\ GoesTo(SentEntry(j)', host, x.path)
              /\ c \in LastOfEachName(SentEntry(j)'.cookies)
              /\ \A i \in DOMAIN sent' : i > j /\ GoesTo(SentEntry(i)', host, x.path) =>
                     \A d \in Range(SentEntry(i)'.cookies) : d.name # c.name
        BY <2>1, <2>5 DEF LastRecorded, GoesTo
      <3>3. j # k
        <4>1. ASSUME j = k PROVE c \in Range(Recorded)
          <5>1. SentEntry(j)' = Entry /\ Recorded = Entry.cookies
            BY <1>1, <3>1, <4>1 DEF Recorded
          <5> QED
            BY <3>2, <5>1, SendFacts, LastAreRecorded
        <4> QED
          BY <1>3, <4>1
      <3>4. j \in 1..(k - 1) /\ \A i \in (j + 1)..k : i \in DOMAIN sent' /\ i > j
        BY <1>1, <3>3
      <3>5. /\ SentEntry(j)'.host = SentEntry(k)'.host
            /\ PathMatch(Directory(SentEntry(j)'.path), SentEntry(k)'.path)
        BY <1>1, <2>1, <2>2, <3>2 DEF GoesTo
      <3>6. \A i \in (j + 1)..k :
              /\ SentEntry(i)'.host = SentEntry(j)'.host
              /\ Directory(SentEntry(i)'.path) = Directory(SentEntry(j)'.path)
              => \A d \in Range(SentEntry(i)'.cookies) : d.name # c.name
        BY <3>2, <3>4 DEF GoesTo
      <3>7. FromEarlier(k, c)'
        BY <3>1, <3>2, <3>4, <3>5, <3>6 DEF FromEarlier
      <3> QED
        BY <3>7
    <2> QED
      BY <2>3, <2>4, <2>5 DEF Known
  <1>4. \A c : FromServer(Entry.host, c) => FromServer(SentEntry(k).host, c)'
    BY <1>1 DEF FromServer
  <1> QED
    BY <1>1, <1>2, <1>3, <1>4 DEF CurrentAt

LEMMA SendKeepsCookies ==
  ASSUME RunInv, CookieInv, pc = "check", Send, UNCHANGED <<inputs, queue>>
  PROVE  /\ \A h \in Hosts : \A c \in LoadedJar[h] : Known(h, c)'
         /\ CookiesAreCurrent'
  <1>1. \A k \in DOMAIN sent' : k \in DOMAIN sent \/ k = Len(sent) + 1
    BY SendFacts
  <1>2. \A k \in DOMAIN sent : CurrentAt(k)
    BY CurrentEverywhere DEF CookieInv
  <1>3. \A k \in DOMAIN sent' : CurrentAt(k)'
    BY <1>1, <1>2, CurrentStays, CurrentNow
  <1>4. (\A k \in DOMAIN sent : CurrentAt(k))' => CookiesAreCurrent'
    BY CurrentEverywhere, PTL
  <1> QED
    BY <1>3, <1>4, LoadedIsKnown

LEMMA CookieStep ==
  ASSUME RunInv, CookieInv, [Next]_vars
  PROVE  CookieInv'
  <1>1. ASSUME UNCHANGED <<inputs, queue, jar, sent>>
        PROVE  CookieInv'
    BY <1>1 DEF CookieInv, JarInv, Known, FromServer, LastRecorded, GoesTo, SentEntry, EntryAt,
                CookiesAreCurrent, inputs
  <1>2. CASE RejectSpeed \/ Refuse \/ Reach \/ WaitCancelled \/ StopCancelled \/ SkipEntry
             \/ Finish \/ UNCHANGED vars
    <2>1. UNCHANGED <<inputs, queue, jar, sent>>
      BY <1>2 DEF RejectSpeed, Refuse, Reach, WaitCancelled, StopCancelled, SkipEntry, Finish,
                  vars, inputs, cookieVars
    <2> QED
      BY <1>1, <2>1
  <1>3. CASE Prepare
    <2>1. sent = <<>> /\ sent' = <<>> /\ jar' = jar
      BY <1>3 DEF Prepare, cookieVars, RunInv, ControlInv
    <2>2. \A h \in Hosts : \A c \in jar[h] : FromServer(h, c)
      BY <2>1 DEF CookieInv, JarInv, Known, LastRecorded
    <2>3. JarInv'
      BY <2>1, <2>2 DEF JarInv, Known, FromServer
    <2> QED
      BY <2>1, <2>3 DEF CookieInv, CookiesAreCurrent
  <1>4. ASSUME NEW d \in RequestTimes, Request(d) \/ RequestCancelled(d)
        PROVE  CookieInv'
    <2>1. pc = "check" /\ Send /\ UNCHANGED <<inputs, queue>>
      BY <1>4 DEF Request, RequestCancelled, inputs
    <2>2. /\ \A h \in Hosts : \A c \in LoadedJar[h] : Known(h, c)'
          /\ CookiesAreCurrent'
      BY <2>1, SendKeepsCookies
    <2>3. CASE jar' = LoadedJar
      BY <2>2, <2>3 DEF CookieInv, JarInv
    <2>4. ASSUME NEW new \in ServerCookies[Entry.host],
                 jar' = SetCookies(LoadedJar, Entry.host, Located(new))
          PROVE  CookieInv'
      <3>1. LoadedJar \in [Hosts -> SUBSET JarCookies]
        BY <2>1, SendFacts, SendTyped
      <3>2. ASSUME NEW h \in Hosts, NEW c \in jar'[h]
            PROVE  Known(h, c)'
        <4>1. c \in LoadedJar[h] \/ (h = Entry.host /\ c \in Located(new))
          BY <2>4, <3>1, <3>2 DEF SetCookies
        <4>2. CASE c \in LoadedJar[h]
          BY <2>2, <4>2
        <4>3. CASE h = Entry.host /\ c \in Located(new)
          <5>1. PICK e \in new : e.name = c.name /\ e.value = c.value
            BY <4>3 DEF Located, InJar
          <5> QED
            BY <2>4, <4>3, <5>1 DEF Known, FromServer
        <4> QED
          BY <4>1, <4>2, <4>3
      <3> QED
        BY <2>2, <3>2 DEF CookieInv, JarInv
    <2> QED
      BY <1>4, <2>3, <2>4 DEF Request, RequestCancelled
  <1> QED
    BY <1>2, <1>3, <1>4 DEF Next

\* For all recordings, and all cookies servers may set: a request has the cookies it was
\* recorded with; any other is one its host has set, or the last one recorded under that
\* name for that host and the directory it was recorded in, which matches the path; with
\* IgnoreHARCookies no recorded one is sent (run.go 152-162).
THEOREM CookiesStayCurrent == Spec => []CookiesAreCurrent
  <1>1. Init => CookieInv
    <2> SUFFICES ASSUME Init PROVE CookieInv
      OBVIOUS
    <2>1. (\A h \in Hosts : jar[h] = {}) /\ DOMAIN sent = {}
      BY DEF Init
    <2> QED
      BY <2>1 DEF CookieInv, JarInv, CookiesAreCurrent
  <1>2. CookieInv => CookiesAreCurrent
    BY DEF CookieInv
  <1> QED
    BY <1>1, <1>2, RunHolds, CookieStep, PTL DEF Spec
===============================================================================
