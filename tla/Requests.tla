-------------------------------- MODULE Requests --------------------------------
(***************************************************************************)
(* What hargo makes of one recorded entry: whether a filter selects it     *)
(* (filter.go), the http.Request that Run and LoadTest send (utils.go),    *)
(* the one that Fetch builds for itself (fetch.go), the curl command       *)
(* (curl.go), and what Validate has to say of it (validate.go).  These are *)
(* operators; Commands says when they are used.                            *)
(*                                                                         *)
(* An entry is reduced to what these functions tell apart.  Names compared *)
(* with EqualFold are one value however they are spelled, "form" is the    *)
(* media type of a form with or without parameters, and "bad" is a value   *)
(* that is not legal where it stands.                                      *)
(***************************************************************************)
EXTENDS Integers, Sequences, SequencesExt

Empty == "empty"    \* the empty string

Methods     == {Empty, "GET", "get", "POST", "bad"}
Stamps      == {Empty, "good", "bad"}
HeaderNames == {":authority", "Host", "Cookie", "Content-Type", "Accept-Encoding",
                "Accept", "bad"}
Values      == {Empty, "v", "w", "bad"}
HeaderType  == [name : HeaderNames, value : Values]

\* `parses' is url.Parse; `scheme' is what the text begins with, "web" for http and
\* https; `path' is what the patterns of a filter tell apart.
UrlType == [parses : BOOLEAN, scheme : {Empty, "web", "ws", "other"}, host : BOOLEAN,
            path : {"a", "b"}]

\* The types of a form, of something else, and one that is no legal header value.
MimeTypes == {Empty, "form", "multipart", "bad"}

\* A name "broken" has line breaks, which AddCookie turns into those of "mended"; "bad" is
\* one that no header may hold.  A value may have `marks', bytes that AddCookie drops, and
\* `spaces', spaces or commas, and stand in double quotes.
CookieType == [ name : {"c", "broken", "mended", "bad"}, marks : BOOLEAN, spaces : BOOLEAN,
                quotes : BOOLEAN ]

\* The lines of a request: recorded headers, and the type of the body.
LineType == [name : HeaderNames, value : Values \cup MimeTypes]

EntryType == [ stamp : Stamps, method : Methods, url : UrlType,
               headers : Seq(HeaderType), cookies : Seq(CookieType),
               text : {Empty, "text"}, params : BOOLEAN, mime : MimeTypes, status : Nat ]

\* What a loop over seq leaves that passes over what is not in S.
Keep(seq, S) ==
    LET kept[k \in 0..Len(seq)] ==
          IF k = 0 THEN <<>>
          ELSE IF seq[k] \in S THEN Append(kept[k - 1], seq[k]) ELSE kept[k - 1]
    IN  kept[Len(seq)]

-------------------------------------------------------------------------------
(***************************************************************************)
(* filter.go.  A pattern is the set of paths it matches, <<>> for none; an *)
(* empty set of methods or of codes selects any.                           *)
(***************************************************************************)
FilterType == [ url : {<<>>} \cup {<<S>> : S \in SUBSET {"a", "b"}}, compiles : BOOLEAN,
                methods : SUBSET Methods, codes : SUBSET Nat ]

\* EqualFold
Fold(method) == IF method = "get" THEN "GET" ELSE method

MatchesAnyMethod(method, want) == \E w \in want : Fold(w) = Fold(method)

Match(filter, entry) ==
    /\ filter.url # <<>> => entry.url.path \in filter.url[1]
    /\ filter.methods # {} => MatchesAnyMethod(entry.method, filter.methods)
    /\ filter.codes # {} => entry.status \in filter.codes

-------------------------------------------------------------------------------
(***************************************************************************)
(* utils.go                                                                *)
(***************************************************************************)
IsWebSocket(url) == url.scheme = "ws"

IsFormEncoded(mime) == mime \in {Empty, "form"}

PostBody(entry) ==
    IF entry.text # Empty THEN entry.text
    ELSE IF entry.params /\ IsFormEncoded(entry.mime) THEN "params"
    ELSE Empty

IsPseudoHeader(name) == name = ":authority"

IsReplayableHeader(h) == ~IsPseudoHeader(h.name) /\ h.name # "bad" /\ h.value # "bad"

\* http.NewRequestWithContext: an empty method is GET, any other has to be a token.
CanBuild(entry) == entry.method # "bad" /\ entry.url.parses

\* Mutant: an :authority after the Host header replaces it.
LastWins(host, h) ==
    IF h.name = ":authority" THEN h.value
    ELSE IF h.name = "Host" /\ IsReplayableHeader(h) THEN h.value ELSE host
\* One round of the loop, as far as recordedHost is concerned.
TakeHost(host, h) ==
    IF h.name = ":authority" /\ host = Empty THEN h.value
    ELSE IF h.name = "Host" /\ IsReplayableHeader(h) THEN h.value ELSE host

RecordedHost(headers) ==
    LET host[k \in 0..Len(headers)] ==
          IF k = 0 THEN Empty ELSE TakeHost(host[k - 1], headers[k])
    IN  host[Len(headers)]

\* req.Host: Empty stands for the host of the URL.
RequestHost(entry) == RecordedHost(entry.headers)

Lines(names) == {h \in LineType : h.name \in names}

Named(headers, name) == Keep(headers, Lines({name}))

\* Header.Get
Get(headers, name) ==
    LET hs == Named(headers, name) IN IF hs = <<>> THEN Empty ELSE hs[1].value

\* Header.Set of the type of the body, where the headers have none.
WithContentType(headers, entry) ==
    IF PostBody(entry) # Empty /\ Get(headers, "Content-Type") = Empty /\ entry.mime # Empty
    THEN Append(Keep(headers, Lines(HeaderNames \ {"Content-Type"})),
                [name |-> "Content-Type", value |-> entry.mime])
    ELSE headers

\* The headers a request takes over, apart from those treated on their own.
Carried(headers, apart) ==
    Keep(headers, {h \in Lines(HeaderNames \ apart) : IsReplayableHeader(h)})

\* http.Request.AddCookie: quotes are bytes that it drops, and puts where they are needed.
Sanitised(c) ==
    [c EXCEPT !.name = IF @ = "broken" THEN "mended" ELSE @,
              !.marks = FALSE, !.quotes = c.spaces]

AddCookies(cookies) == [k \in DOMAIN cookies |-> Sanitised(cookies[k])]

\* EntryToRequest, where CanBuild.
Request(entry, ignoreCookies) ==
    [ method  |-> IF entry.method = Empty THEN "GET" ELSE entry.method,
      host    |-> RequestHost(entry),
      headers |-> WithContentType(Carried(entry.headers, {"Cookie", "Host"}), entry),
      body    |-> PostBody(entry),
      cookies |-> IF ignoreCookies THEN <<>> ELSE AddCookies(entry.cookies) ]

\* The request Fetch makes: net/http is left to ask for an encoding it can undo.
FetchRequest(entry) ==
    [ method  |-> IF entry.method = Empty THEN "GET" ELSE entry.method,
      host    |-> RequestHost(entry),
      headers |-> WithContentType(
                    Carried(entry.headers, {"Cookie", "Host", "Accept-Encoding"}), entry),
      body    |-> PostBody(entry),
      cookies |-> AddCookies(entry.cookies) ]

\* What client.Do refuses to send: a scheme it does not know, no host, or a host, header
\* value or cookie that is not legal.
CanSend(url, request) ==
    /\ url.scheme = "web" /\ url.host
    /\ request.host # "bad"
    /\ \A k \in DOMAIN request.headers : request.headers[k].value # "bad"
    /\ \A k \in DOMAIN request.cookies : request.cookies[k].name # "bad"

-------------------------------------------------------------------------------
(***************************************************************************)
(* fromEntry: the arguments of a curl command.  The cookies are written as *)
(* they were recorded.                                                     *)
(***************************************************************************)
HasHeader(entry, name) == \E k \in DOMAIN entry.headers : entry.headers[k].name = name

\* Mutant: the recorded headers are passed on as they are.
AllHeaders(entry) == entry.headers
CurlHeaders(entry) ==
    Carried(entry.headers, IF entry.cookies # <<>> THEN {"Cookie"} ELSE {})

Curl(entry) ==
    [ method  |-> entry.method,
      headers |-> IF /\ PostBody(entry) # Empty /\ entry.mime # Empty
                     /\ ~HasHeader(entry, "Content-Type")
                  THEN Append(CurlHeaders(entry),
                              [name |-> "Content-Type", value |-> entry.mime])
                  ELSE CurlHeaders(entry),
      body    |-> PostBody(entry),
      cookies |-> entry.cookies ]

-------------------------------------------------------------------------------
(***************************************************************************)
(* validate.go                                                             *)
(***************************************************************************)
\* Mutant: the URL is only looked at for its scheme.
UnparsedUrl(entry) ==
    entry.stamp = "good" /\ entry.method # Empty /\ entry.url.scheme # Empty
ValidEntry(entry) ==
    /\ entry.stamp = "good"
    /\ entry.method # Empty
    /\ entry.url.parses /\ entry.url.scheme # Empty
===============================================================================
