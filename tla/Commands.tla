-------------------------------- MODULE Commands --------------------------------
(***************************************************************************)
(* The commands that only read a document: `hargo validate', `hargo curl'  *)
(* and `hargo dump' (hargo.go), and the functions ToCurlTo (curl.go) and   *)
(* DumpTo (dump.go) called with a writer of the caller's.                  *)
(*                                                                         *)
(* One action is one call that can fail.  Output is a sequence of chunks,  *)
(* 0 for the heading of a dump and k for entry k; Part(k) is a chunk k of  *)
(* which only a part arrived.  The process may be killed between any two   *)
(* steps.  An interrupt changes nothing: it cancels a context that these   *)
(* commands never look at (hargo.go 146).                                  *)
(***************************************************************************)
EXTENDS Requests

CONSTANT
    Calls       \* the files the commands are called on, with the filters

\* `entries' is <<>> if the log has no entries array; `known' says the version is 1.2.
DocumentType == [ opens : BOOLEAN, wellFormed : BOOLEAN, trailing : BOOLEAN,
                  log : BOOLEAN, known : BOOLEAN,
                  entries : {es \in Seq(Seq(EntryType)) : Len(es) <= 1} ]

CallType == [doc : DocumentType, filter : FilterType]

ASSUME CallsAssumption == Calls \subseteq CallType

Conversions == {"curl", "dump"}

\* No file, and one that holds something else: chunks that no rendering has.
Absent == <<-100>>
Old    == <<-200>>

VARIABLES
    command,    \* "validate", "curl" or "dump"
    sink,       \* where the output goes: "caller", "stdout" or "file"
    doc, filter,
    before,     \* what the file held before
    pc,
    cur,        \* the entry the rendering is at
    rendered,   \* what the io.Writer given to the rendering has received
    ewErr,      \* errWriter.err is set
    output,     \* what standard output or the file holds
    status      \* exit status, or what the function returned: 0 nil, 1 an error

inputs == <<command, sink, doc, filter, before>>
vars   == <<inputs, pc, cur, rendered, ewErr, output, status>>

Entries == IF doc.log /\ doc.entries # <<>> THEN doc.entries[1] ELSE <<>>

Init ==
    /\ command \in {"validate"} \cup Conversions
    /\ sink \in {"caller", "stdout", "file"}
    /\ command = "validate" => sink = "stdout"
    /\ \E call \in Calls : doc = call.doc /\ filter = call.filter
    /\ before \in (IF sink = "file" THEN {Absent, Old} ELSE {<<>>})
    /\ pc = (IF sink = "caller" THEN "compile" ELSE "open")
    /\ cur = 1 /\ rendered = <<>> /\ ewErr = FALSE
    /\ output = before
    /\ status = -1

\* The low eight bits of what os.Exit is given.
ExitStatus(code) == code % 256

End(code) == pc' = "ended" /\ status' = ExitStatus(code)

\* A call that either ends the command with this code or lets it go on.
Check(ok, code, next) ==
    IF ok THEN pc' = next /\ UNCHANGED status ELSE End(code)

\* openHAR
Open ==
    /\ pc = "open"
    /\ Check(doc.opens, 1, IF command = "validate" THEN "validate" ELSE "compile")
    /\ UNCHANGED <<inputs, cur, rendered, ewErr, output>>

(***************************************************************************)
(* validate                                                                *)
(***************************************************************************)
Validate ==
    /\ doc.wellFormed
    /\ ~doc.trailing
    /\ doc.log
    /\ doc.known
    /\ doc.entries # <<>>
    /\ \A k \in DOMAIN Entries : ValidEntry(Entries[k])

\* The status -2 surfaces as 254.
RunValidate ==
    /\ pc = "validate"
    /\ End(IF Validate THEN 0 ELSE -2)
    /\ UNCHANGED <<inputs, cur, rendered, ewErr, output>>

(***************************************************************************)
(* curl and dump                                                           *)
(***************************************************************************)
\* Mutant: the file is created before the document is rendered into it.
TruncateFirst == output' = (IF sink = "file" THEN <<>> ELSE output)
\* writeOutput calls render before it touches the file.
LeaveOutput == UNCHANGED output

Compile ==
    /\ pc = "compile"
    /\ Check(filter.compiles, 1, "decode")
    /\ LeaveOutput
    /\ UNCHANGED <<inputs, cur, rendered, ewErr>>

\* Data after the document is not looked at.
DecodeDocument ==
    /\ pc = "decode"
    /\ Check(doc.wellFormed, 1, IF command = "dump" THEN "heading" ELSE "entry")
    /\ UNCHANGED <<inputs, cur, rendered, ewErr, output>>

Part(chunk) == -(chunk + 1)

\* Only a caller's writer can fail: the commands render into a buffer.
Put(chunk) ==
    \/ rendered' = Append(rendered, chunk) /\ ewErr' = FALSE
    \/ /\ sink = "caller"
       /\ ewErr' = TRUE
       /\ \/ rendered' = Append(rendered, Part(chunk))
          \/ UNCHANGED rendered

\* Mutant: every write is tried, and the error is that of the last.
PutAnyway(chunk) == Put(chunk)
\* errWriter: nothing is written after the first error.
Emit(chunk) ==
    \/ ewErr /\ UNCHANGED <<rendered, ewErr>>
    \/ ~ewErr /\ Put(chunk)

PrintHeading ==
    /\ pc = "heading"
    /\ Emit(0)
    /\ pc' = "entry"
    /\ UNCHANGED <<inputs, cur, output, status>>

PrintEntry ==
    /\ pc = "entry" /\ cur \in DOMAIN Entries
    /\ IF Match(filter, Entries[cur]) THEN Emit(cur) ELSE UNCHANGED <<rendered, ewErr>>
    /\ cur' = cur + 1
    /\ UNCHANGED <<inputs, pc, output, status>>

\* `return ew.err': to the caller, or to writeOutput, whose buffer never fails.
ReturnRendered ==
    /\ pc = "entry" /\ cur \notin DOMAIN Entries
    /\ IF sink = "caller" THEN End(IF ewErr THEN 1 ELSE 0)
       ELSE pc' = (IF sink = "file" THEN "create" ELSE "copy") /\ UNCHANGED status
    /\ UNCHANGED <<inputs, cur, rendered, ewErr, output>>

(***************************************************************************)
(* writeOutput and os.WriteFile: the file is opened with O_TRUNC, written  *)
(* from the buffer, and closed.                                            *)
(***************************************************************************)
CreateFile ==
    /\ pc = "create"
    /\ \/ pc' = "copy" /\ output' = <<>> /\ UNCHANGED status
       \/ End(1) /\ UNCHANGED output
    /\ UNCHANGED <<inputs, cur, rendered, ewErr>>

CopyChunk ==
    /\ pc = "copy" /\ Len(output) < Len(rendered)
    /\ \/ output' = Append(output, rendered[Len(output) + 1]) /\ UNCHANGED <<pc, status>>
       \/ End(1) /\ UNCHANGED output
    /\ UNCHANGED <<inputs, cur, rendered, ewErr>>

\* Standard output is not closed; closing a file may fail.
CopyDone ==
    /\ pc = "copy" /\ Len(output) = Len(rendered)
    /\ End(0) \/ (sink = "file" /\ End(1))
    /\ UNCHANGED <<inputs, cur, rendered, ewErr, output>>

\* SIGKILL, or a broken pipe.
Killed ==
    /\ sink # "caller" /\ pc # "ended" /\ pc # "killed"
    /\ pc' = "killed"
    /\ UNCHANGED <<inputs, cur, rendered, ewErr, output, status>>

Next ==
    \/ Open \/ RunValidate
    \/ Compile \/ DecodeDocument \/ PrintHeading \/ PrintEntry \/ ReturnRendered
    \/ CreateFile \/ CopyChunk \/ CopyDone
    \/ Killed
    \/ pc \in {"ended", "killed"} /\ UNCHANGED vars

Spec == Init /\ [][Next]_vars

-------------------------------------------------------------------------------
TypeOK ==
    /\ command \in {"validate"} \cup Conversions /\ sink \in {"caller", "stdout", "file"}
    /\ pc \in {"open", "validate", "compile", "decode", "heading", "entry", "create",
               "copy", "ended", "killed"}
    /\ cur \in 1..(Len(Entries) + 1)
    /\ rendered \in Seq(Int) /\ ewErr \in BOOLEAN
    /\ status \in {-1, 0, 1, 254}

\* What the options ask for: the recorded entries that meet every criterion, in recorded
\* order, "GET" and "get" being one method.
Wanted(entry) ==
    /\ filter.url = <<>> \/ \E S \in {filter.url[1]} : entry.url.path \in S
    /\ filter.methods = {} \/ entry.method \in filter.methods
          \/ (entry.method \in {"GET", "get"} /\ filter.methods \cap {"GET", "get"} # {})
    /\ filter.codes = {} \/ entry.status \in filter.codes

\* The chunks of the output: the heading of a dump, and the entries that are wanted.
Chunks ==
    (IF command = "dump" THEN {0} ELSE {})
      \cup {k \in DOMAIN Entries : Wanted(Entries[k])}

\* These chunks in recorded order, each of them once.
Lists(seq, chunks) ==
    /\ Range(seq) = chunks
    /\ \A i, j \in DOMAIN seq : i < j => seq[i] < seq[j]

Before(n) == {chunk \in Chunks : chunk < n}

\* "a malformed HAR leaves no truncated file behind and does not clobber an existing
\* one" (CHANGELOG.md 83-84): the destination changes only once there is a complete
\* rendering of the selected entries, it holds a beginning of that from then on, and
\* all of it when the exit status is 0 (hargo.go 94-115).
OutputIsWhole ==
    sink # "caller" /\ command \in Conversions =>
        /\ output = before \/ (Lists(rendered, Chunks) /\ IsPrefix(output, rendered))
        /\ status = 0 => Lists(output, Chunks)

\* A writer that fails receives a beginning of the output and nothing after the failed
\* write, and the error is returned unless all of the output arrived (dump.go 22-41).
WriterSeesPrefix ==
    sink = "caller" =>
        /\ \/ \E n \in 0..(Len(Entries) + 1) : Lists(rendered, Before(n))
           \/ /\ rendered # <<>>
              /\ \E chunk \in Chunks : /\ Lists(Front(rendered), Before(chunk))
                                       /\ Last(rendered) = Part(chunk)
        /\ status = 0 => Lists(rendered, Chunks)
        /\ status = 1 => rendered = <<>> \/ ewErr

\* The sendable headers of that name.
Sendable(entry, name) == Named(Carried(entry.headers, {}), name)

\* The host an entry was recorded with: "an explicit Host header wins over :authority"
\* (utils.go 206-207); Empty if it names none.
HostRecorded(entry) ==
    LET hosts == Sendable(entry, "Host")
        auths == Keep(entry.headers, {h \in Lines({":authority"}) : h.value # Empty})
    IN  IF hosts # <<>> THEN Last(hosts).value
        ELSE IF auths # <<>> THEN auths[1].value ELSE Empty

\* Cookies that AddCookie has no reason to change: no line break in the name, no byte that
\* no cookie value has, and double quotes around what has a space or comma, and only there.
WellWritten(c) == c.name # "broken" /\ ~c.marks /\ (c.spaces <=> c.quotes)

\* What Run sends is the recorded request and nothing that cannot be sent: every other
\* legal header as often as recorded, the recorded host, no body without the type that
\* was recorded for it, no cookies where they are ignored, and otherwise each one in
\* its place, as it was recorded where it was well written (utils.go 178-233).
RequestIsFaithful ==
    \A k \in DOMAIN Entries : \A ignore \in BOOLEAN :
        LET entry   == Entries[k]
            request == Request(entry, ignore)
        IN  CanBuild(entry) =>
              /\ \A name \in {"Accept", "Accept-Encoding"} :
                    Named(request.headers, name) = Sendable(entry, name)
              /\ \A name \in {"Cookie", "Host", ":authority", "bad"} :
                    ~HasHeader(request, name)
              /\ HostRecorded(entry) # Empty => request.host = HostRecorded(entry)
              /\ request.body # Empty /\ entry.mime # Empty =>
                    Get(request.headers, "Content-Type") # Empty
              /\ ignore => request.cookies = <<>>
              /\ ~ignore =>
                    /\ DOMAIN request.cookies = DOMAIN entry.cookies
                    /\ \A j \in DOMAIN entry.cookies :
                         /\ WellWritten(request.cookies[j])
                         /\ WellWritten(entry.cookies[j]) =>
                               request.cookies[j] = entry.cookies[j]

\* Run, Fetch and curl stand for one request.  Fetch leaves out Accept-Encoding.  curl
\* does not read :authority, keeps the Cookie header of an entry without cookies, and
\* takes a Content-Type that Run would not send for one that is there; it writes the
\* cookies as they were recorded, which are those Run sends exactly where these are well
\* written; apart from that it names the host, headers, type and body that Run sends
\* (utils.go 178-233, fetch.go 103-150, curl.go 63-114).
ConversionsAgree ==
    \A k \in DOMAIN Entries :
        LET entry == Entries[k]
            run   == Request(entry, FALSE)
            curl  == Curl(entry)
        IN  CanBuild(entry) =>
              /\ FetchRequest(entry) = [run EXCEPT !.headers =
                     Keep(@, Lines(HeaderNames \ {"Accept-Encoding"}))]
              /\ curl.body = run.body
              /\ curl.cookies = entry.cookies /\ DOMAIN run.cookies = DOMAIN entry.cookies
              /\ \A j \in DOMAIN entry.cookies :
                    curl.cookies[j] = run.cookies[j] <=> WellWritten(entry.cookies[j])
              /\ \A name \in {"Accept", "Accept-Encoding", ":authority", "bad"} :
                    Named(curl.headers, name) = Named(run.headers, name)
              /\ ~HasHeader(entry, ":authority") =>
                    LET hosts == Named(curl.headers, "Host")
                    IN  run.host = (IF hosts = <<>> THEN Empty ELSE Last(hosts).value)
              /\ entry.cookies # <<>> => ~HasHeader(curl, "Cookie")
              /\ (\A h \in Range(Named(entry.headers, "Content-Type")) :
                      h.value \notin {Empty, "bad"}) =>
                    Named(curl.headers, "Content-Type") = Named(run.headers, "Content-Type")

Accepted(entry) == command = "validate" /\ status = 0 /\ entry \in Range(Entries)

\* Of a document that `hargo validate' accepts, Run can build and send every entry, and
\* place it in time, but for a method that is no token, a URL that is not of the web, and
\* a host, media type or cookie name that is no legal value (validate.go 22-102).
ValidatedCanBeSent ==
    \A entry \in Range(Entries) :
        /\ Accepted(entry)
        /\ entry.method # "bad" /\ entry.url.scheme = "web" /\ entry.url.host
        /\ RequestHost(entry) # "bad" /\ entry.mime # "bad"
        /\ \A k \in DOMAIN entry.cookies : entry.cookies[k].name # "bad"
        => entry.stamp = "good" /\ CanBuild(entry)
             /\ CanSend(entry.url, Request(entry, FALSE))

\* "Anything Validate accepts must be replayable" (validate_strict_test.go 188), "without
\* surprises" (validate.go 20): no accepted entry is dropped, skipped or refused by Run.
ValidatedIsReplayable ==
    \A entry \in Range(Entries) :
        Accepted(entry) =>
            /\ ~IsWebSocket(entry.url) /\ CanBuild(entry)
            /\ CanSend(entry.url, Request(entry, FALSE))
===============================================================================
