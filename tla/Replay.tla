--------------------------------- MODULE Replay ---------------------------------
(***************************************************************************)
(* Run (run.go): the entries of a document replayed one at a time in       *)
(* chronological order, each after the delay it was recorded with, scaled  *)
(* and capped as the options say.  Decode (utils.go), which drops the      *)
(* WebSocket entries and sorts the rest, is part of the model, because the *)
(* pacing relies on the order it leaves.                                   *)
(*                                                                         *)
(* Time is a natural number of units that only waits and requests consume. *)
(* The context ends at a moment chosen at the start, and the select that   *)
(* waits reacts to it at once.                                             *)
(***************************************************************************)
EXTENDS Sorting, Integers, Sequences, SequencesExt, FiniteSets

CONSTANTS
    Recordings,     \* the documents to replay: sequences of entries
    Options,        \* the options Run may be called with
    CancelTimes,    \* when the context may end; later than any run for never
    RequestTimes,   \* how long a request may take
    ServerCookies,  \* for each host, what cookies a response from it may set
    MaxDuration     \* the longest time.Duration

\* "ws" is dropped by Decode, "unmatched" by the filter, no request can be made of
\* "unbuildable".
Kinds == {"good", "ws", "unmatched", "unbuildable"}

\* The path of a URL is the sequence of what its slashes separate: <<"">> is "/",
\* <<"api", "x">> is "/api/x".  The path of a cookie may be <<>>, which is "/".  A server
\* may leave it out; a recorded cookie, as AddCookie has written it, is a name and a value.
Hosts         == DOMAIN ServerCookies
Paths         == Seq(STRING)
CookieType    == [name : STRING, value : Nat]
JarCookies    == [name : STRING, value : Nat, path : Paths]
ServerCookie  == [name : STRING, value : Nat, path : Seq(Paths)]

\* The zero time is what ParseEntryTime returns next to its error.
ZeroTime  == 0
EntryType == { e \in [kind : Kinds, parsed : BOOLEAN, time : Int, host : Hosts,
                      path : Paths, cookies : Seq(CookieType)] :
                 e.path # <<>> /\ (e.parsed \/ e.time = ZeroTime) }

\* Speed is times / by; 0 / 1 is the zero value of the option.
OptionType == [ times : Int, by : Nat \ {0}, noWait : BOOLEAN, maxDelay : 0..MaxDuration,
                failOnStatus : BOOLEAN, ignoreCookies : BOOLEAN ]

ASSUME RecordingsAssumption == Recordings \subseteq Seq(EntryType)
ASSUME OptionsAssumption == Options \subseteq OptionType
ASSUME CookiesAssumption == \A h \in Hosts :
                                ServerCookies[h] \subseteq SUBSET ServerCookie
ASSUME TimesAssumption == CancelTimes \subseteq Nat /\ RequestTimes \subseteq Nat
                            /\ MaxDuration \in Nat

VARIABLES
    recording, opts, cancelAt,  \* never change
    saturates,  \* what the build makes of a float64 too large for an int64; never changes
    now,
    pc,
    queue,      \* the positions of the entries to attempt, in the order of the attempts
    cur,
    prev,       \* recorded time of the last entry whose timestamp parsed
    havePrev,
    jar,        \* for each host the cookies the jar has for it
    failed,
    verdict,
    reached,    \* history: when the wait for each entry was over
    waited,     \* history: how long was waited in all
    results,    \* history: what became of each entry
    sent        \* history: the place in `queue' and the cookies of each request

inputs == <<recording, opts, cancelAt, saturates>>
cookieVars == <<jar, sent>>
vars   == <<inputs, now, pc, queue, cur, prev, havePrev, failed, verdict, reached,
            waited, results, cookieVars>>

Init ==
    /\ recording \in Recordings /\ opts \in Options /\ cancelAt \in CancelTimes
    /\ saturates \in BOOLEAN
    /\ now = 0
    /\ pc = "start"
    /\ queue = <<>> /\ cur = 1
    /\ prev = ZeroTime /\ havePrev = FALSE
    /\ failed = 0 /\ verdict = "none"
    /\ reached = <<>> /\ waited = 0 /\ results = <<>>
    /\ jar = [h \in Hosts |-> {}] /\ sent = <<>>

ContextDone == now >= cancelAt

Return(v) == pc' = "done" /\ verdict' = v

(***************************************************************************)
(* Decode and filterEntries.  SliceStable: of two entries with the same    *)
(* start time the one recorded first goes first.                           *)
(***************************************************************************)
StartTimes(rec) == [i \in DOMAIN rec |-> rec[i].time]

\* What Decode drops, and what the filter does not select.
Attempted(rec) == { i \in DOMAIN rec : rec[i].kind \notin {"ws", "unmatched"} }

\* Decode sorts before filterEntries selects; the selection keeps the order.
Selected(rec) == Sorted(StartTimes(rec), Attempted(rec))

\* A negative speed is refused before the document is looked at.
RejectSpeed ==
    /\ pc = "start"
    /\ opts.times < 0
    /\ Return("options")
    /\ UNCHANGED <<inputs, now, queue, cur, prev, havePrev, failed, reached, waited,
                   results, cookieVars>>

\* A filter that does not compile, or a document that does not decode.
Refuse ==
    /\ pc = "start"
    /\ opts.times >= 0
    /\ Return("refused")
    /\ UNCHANGED <<inputs, now, queue, cur, prev, havePrev, failed, reached, waited,
                   results, cookieVars>>

Prepare ==
    /\ pc = "start"
    /\ opts.times >= 0
    /\ queue' = Selected(recording)
    /\ IF queue' = <<>> THEN Return("nil") ELSE pc' = "entry" /\ UNCHANGED verdict
    /\ UNCHANGED <<inputs, now, cur, prev, havePrev, failed, reached, waited,
                   results, cookieVars>>

(***************************************************************************)
(* delayBefore.  The conversion to whole nanoseconds is the division that  *)
(* rounds towards zero.  Go leaves open what it makes of a value that does *)
(* not fit: amd64 yields the least int64, arm64 the greatest.  The greatest *)
(* int64 is 2^63 as a float64, and so does not fit either.                 *)
(***************************************************************************)
\* time.Time.Sub saturates.
Sub(t, u) == IF t - u > MaxDuration THEN MaxDuration ELSE t - u

\* A speed of 0 is 1.
Exact(d) == IF opts.times <= 0 THEN d ELSE (d * opts.by) \div opts.times

Fits(d) == Exact(d) < MaxDuration

Scaled(d) ==
    IF Fits(d) THEN Exact(d) ELSE IF saturates THEN MaxDuration ELSE -MaxDuration - 1

\* Mutant: the recorded gap is compared, not the scaled one.
RecordedOverCap(d) == opts.maxDelay > 0 /\ d > opts.maxDelay
OverCap(d) == opts.maxDelay > 0 /\ Scaled(d) > opts.maxDelay

DelayBefore(d) ==
    IF opts.noWait \/ d <= 0 THEN 0 ELSE IF OverCap(d) THEN opts.maxDelay ELSE Scaled(d)

EntryAt(k) == recording[queue[k]]
Entry    == EntryAt(cur)
HasEntry == pc = "entry" /\ cur <= Len(queue)

\* The wait before the entry the loop is at: nothing is waited for a negative delay.
Delay ==
    LET d == IF Entry.parsed /\ havePrev THEN DelayBefore(Sub(Entry.time, prev)) ELSE 0
    IN  IF d > 0 THEN d ELSE 0

\* Mutant: an entry without a timestamp counts as the zero time.
RemembersAny == TRUE
\* Only an entry whose timestamp parsed replaces prev.
Remembers == Entry.parsed

\* Mutant: the wait is a sleep.
SleepsOn == TRUE
\* Whether time.After can win the select.
WaitOver == now + Delay <= cancelAt

\* time.After wins the select, or there is nothing to wait for.
Reach ==
    /\ HasEntry
    /\ Delay = 0 \/ WaitOver
    /\ now' = now + Delay
    /\ prev' = (IF Remembers THEN Entry.time ELSE prev)
    /\ havePrev' = (havePrev \/ Entry.parsed)
    /\ reached' = Append(reached, now')
    /\ waited' = waited + Delay
    /\ pc' = "check"
    /\ UNCHANGED <<inputs, queue, cur, failed, verdict, results,
                   cookieVars>>

\* ctx.Done wins.
WaitCancelled ==
    /\ HasEntry
    /\ Delay > 0
    /\ now + Delay >= cancelAt
    /\ now' = (IF cancelAt > now THEN cancelAt ELSE now)
    /\ Return("ctx")
    /\ UNCHANGED <<inputs, queue, cur, prev, havePrev, failed, reached, waited,
                   results, cookieVars>>

(***************************************************************************)
(* The entry itself.                                                       *)
(***************************************************************************)
StopCancelled ==
    /\ pc = "check"
    /\ ContextDone
    /\ Return("ctx")
    /\ UNCHANGED <<inputs, now, queue, cur, prev, havePrev, failed, reached, waited,
                   results, cookieVars>>

\* Mutant: an error status always fails the entry.
FailsAnyway(result) == result # "ok"
\* An error status counts as a failure only with FailOnStatus.
IsFailure(result) == result \in {"unbuildable", "unsent"} \/
                     (result = "error" /\ opts.failOnStatus)

NextEntry(result) ==
    /\ pc' = "entry"
    /\ cur' = cur + 1
    /\ failed' = failed + (IF IsFailure(result) THEN 1 ELSE 0)
    /\ results' = Append(results, result)

SkipEntry ==
    /\ pc = "check"
    /\ ~ContextDone
    /\ Entry.kind = "unbuildable"
    /\ NextEntry("unbuildable")
    /\ UNCHANGED <<inputs, now, queue, prev, havePrev, verdict, reached, waited,
                   cookieVars>>

\* req.Cookies(): what EntryToRequest has added.
Recorded == IF opts.ignoreCookies THEN <<>> ELSE Entry.cookies

\* The path of a cookie that says none: that of its URL up to the last slash.
Directory(path) == Front(path)

\* Whether a cookie of path p goes with a request for path: p is path, or ends, with or
\* without its slash, where another slash of path is.
PathMatch(p, path) ==
    \/ IsPrefix(p, path)
    \/ p # <<>> /\ Last(p) = "" /\ Len(p) <= Len(path) /\ IsPrefix(Front(p), path)

\* Jar.SetCookies: a cookie replaces the one of the same host, path and name.
SetCookies(j, host, cookies) ==
    [j EXCEPT ![host] = cookies \cup
        {c \in @ : \A d \in cookies : d.name # c.name \/ d.path # c.path}]

InJar(c, path) == [name |-> c.name, value |-> c.value, path |-> path]

\* Of several cookies of one name the jar is left with the last.
LastOfEachName(cookies) ==
    {cookies[i] : i \in {j \in DOMAIN cookies :
        \A k \in DOMAIN cookies : k > j => cookies[k].name # cookies[j].name}}

\* The jar with these cookies of a request, which have no path.
Loaded(cookies) ==
    SetCookies(jar, Entry.host,
               {InJar(c, Directory(Entry.path)) : c \in LastOfEachName(cookies)})

\* Mutant: the jar is given what the entry records, not what the request has.
JarOfEntry == Loaded(Entry.cookies)
\* jar.SetCookies(req.URL, req.Cookies())
LoadedJar == Loaded(Recorded)

\* The cookies of a response, each with its path.
Located(new) ==
    {InJar(c, IF c.path = <<>> THEN Directory(Entry.path) ELSE c.path[1]) : c \in new}

\* client.Do sends the request's own cookies and, next to them, those of the jar.
Send ==
    LET ofJar == {[name |-> c.name, value |-> c.value] :
                     c \in {d \in LoadedJar[Entry.host] : PathMatch(d.path, Entry.path)}}
    IN  sent' = Append(sent, [at |-> cur, cookies |-> Range(Recorded) \cup ofJar])

\* The request ends by itself, before the context does.
Request(d) ==
    /\ pc = "check"
    /\ ~ContextDone
    /\ Entry.kind # "unbuildable"
    /\ now + d <= cancelAt
    /\ now' = now + d
    /\ Send
    /\ \/ \E result \in {"ok", "error"}, new \in ServerCookies[Entry.host] :
            /\ NextEntry(result) /\ UNCHANGED verdict
            /\ jar' = SetCookies(LoadedJar, Entry.host, Located(new))
       \/ /\ IF now' >= cancelAt
             THEN Return("ctx") /\ UNCHANGED <<cur, failed, results>>
             ELSE NextEntry("unsent") /\ UNCHANGED verdict
          /\ jar' = LoadedJar
    /\ UNCHANGED <<inputs, queue, prev, havePrev, reached, waited>>

\* The end of the context surfaces as an error of client.Do.
RequestCancelled(d) ==
    /\ pc = "check"
    /\ ~ContextDone
    /\ Entry.kind # "unbuildable"
    /\ now + d > cancelAt
    /\ now' = cancelAt
    /\ Send /\ jar' = LoadedJar
    /\ Return("ctx")
    /\ UNCHANGED <<inputs, queue, cur, prev, havePrev, failed, reached, waited,
                   results>>

Finish ==
    /\ pc = "entry" /\ cur > Len(queue)
    /\ Return(IF failed > 0 THEN "failed" ELSE "nil")
    /\ UNCHANGED <<inputs, now, queue, cur, prev, havePrev, failed, reached, waited,
                   results, cookieVars>>

Next ==
    \/ RejectSpeed \/ Refuse \/ Prepare
    \/ Reach \/ WaitCancelled \/ StopCancelled \/ SkipEntry
    \/ \E d \in RequestTimes : Request(d) \/ RequestCancelled(d)
    \/ Finish
    \/ pc = "done" /\ UNCHANGED vars

Spec == Init /\ [][Next]_vars

-------------------------------------------------------------------------------
TypeOK ==
    /\ recording \in Recordings /\ opts \in Options /\ cancelAt \in CancelTimes
    /\ saturates \in BOOLEAN /\ now \in Nat
    /\ pc \in {"start", "entry", "check", "done"}
    /\ queue \in Seq(DOMAIN recording) /\ cur \in 1..(Len(queue) + 1)
    /\ prev \in Int /\ havePrev \in BOOLEAN
    /\ failed \in 0..Len(queue)
    /\ verdict \in {"none", "options", "refused", "ctx", "failed", "nil"}
    /\ reached \in Seq(Nat) /\ Len(reached) <= Len(queue) /\ waited \in Nat
    /\ results \in Seq({"ok", "error", "unsent", "unbuildable"})
    /\ jar \in [Hosts -> SUBSET JarCookies]
    /\ sent \in Seq([at : DOMAIN queue, cookies : SUBSET CookieType]) /\ Len(sent) <= Len(queue)

\* The attempted entries are the recording's replayable ones, in the order they
\* happened, and those of the same instant in recorded order (utils.go 38-87).
ChronologicalOrder ==
    pc \in {"entry", "check"} =>
        /\ {queue[k] : k \in DOMAIN queue}
             = {i \in DOMAIN recording : recording[i].kind \in {"good", "unbuildable"}}
        /\ \A j, k \in DOMAIN queue : j < k =>
             \/ EntryAt(j).time < EntryAt(k).time
             \/ EntryAt(j).time = EntryAt(k).time /\ queue[j] < queue[k]

Paced == {k \in DOMAIN reached : EntryAt(k).parsed}

\* What the recording says lies between two entries: its gap, scaled, then capped.
Wanted(gap) ==
    LET exact == IF opts.times = 0 THEN gap ELSE (gap * opts.by) \div opts.times
        longest == IF opts.maxDelay = 0 THEN MaxDuration ELSE opts.maxDelay
    IN  IF opts.noWait THEN 0 ELSE IF exact <= longest THEN exact ELSE longest

\* No entry is reached sooner after the one before it than it was recorded, however
\* long requests take and whatever fails in between (run.go 118-146).  The exception is
\* a gap so long, or a speed so small, that the scaled gap fits no time.Duration, on a
\* build that does not saturate; a gap that Sub has cut off, at the recorded speed, is
\* one of these (run.go 69).
GapsHonoured ==
    \A j, k \in Paced :
        LET gap == Sub(EntryAt(k).time, EntryAt(j).time)
        IN  (/\ j < k /\ \A i \in Paced : ~(j < i /\ i < k)
             /\ saturates \/ Fits(gap))
            => reached[k] - reached[j] >= Wanted(gap)

\* The waits add up to no more than the recording's own span at that speed: no delay
\* is counted twice, whatever cannot be read or built in between.  And no wait exceeds
\* the cap, even where the scaled gap is no time.Duration (run.go 69-73, 118-146).
NoExtraDelay ==
    Paced # {} =>
        LET first == CHOOSE j \in Paced : \A k \in Paced : j <= k
            last  == CHOOSE j \in Paced : \A k \in Paced : k <= j
        IN  /\ waited <= Exact(EntryAt(last).time - EntryAt(first).time)
            /\ opts.maxDelay > 0 => waited <= opts.maxDelay * (Cardinality(Paced) - 1)

\* Ending the context ends the replay there and then: neither a wait nor a request
\* carries it past that moment (run.go 137-150).
NothingAfterCancel == now <= cancelAt

\* The verdict is true of what happened to the entries: all were attempted and the
\* number of failures is the tally (run.go 183-191).
VerdictMatchesResults ==
    /\ verdict \in {"nil", "failed"} =>
          /\ Len(results) = Len(queue)
          /\ verdict = "failed" <=> \E k \in DOMAIN results :
                                        \/ results[k] \in {"unsent", "unbuildable"}
                                        \/ results[k] = "error" /\ opts.failOnStatus
    /\ verdict = "failed" =>
          failed = Cardinality({k \in DOMAIN results : IsFailure(results[k])})

\* The recorded cookies go with their entry whatever a server has set in between.  Any
\* other cookie was set by that server, or it is from an earlier entry of that host, in
\* whose directory no later one has recorded its name: a value goes stale only next to one
\* of another directory.  And ignored cookies reach nobody (run.go 152-162).
CookiesAreCurrent ==
    \A k \in DOMAIN sent :
        LET EntryOf(j) == EntryAt(sent[j].at)
            own == IF opts.ignoreCookies THEN {} ELSE Range(EntryOf(k).cookies)
        IN  /\ own \subseteq sent[k].cookies
            /\ \A c \in sent[k].cookies \ own :
                 \/ \E d \in UNION ServerCookies[EntryOf(k).host] :
                        d.name = c.name /\ d.value = c.value
                 \/ /\ ~opts.ignoreCookies
                    /\ \E j \in 1..(k - 1) :
                         /\ EntryOf(j).host = EntryOf(k).host
                         /\ PathMatch(Directory(EntryOf(j).path), EntryOf(k).path)
                         /\ c \in LastOfEachName(EntryOf(j).cookies)
                         /\ \A i \in (j + 1)..k :
                              /\ EntryOf(i).host = EntryOf(j).host
                              /\ Directory(EntryOf(i).path) = Directory(EntryOf(j).path)
                              => \A d \in Range(EntryOf(i).cookies) : d.name # c.name
===============================================================================
