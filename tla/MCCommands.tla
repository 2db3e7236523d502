------------------------------ MODULE MCCommands ------------------------------
(***************************************************************************)
(* Documents of one entry that vary one aspect at a time, in full: every   *)
(* list of up to two headers with every body, every list of up to two      *)
(* cookies, and every method, URL and timestamp.  Documents of up to three *)
(* entries for the order and the filters.  Files that do not open, decode  *)
(* or validate.                                                            *)
(***************************************************************************)
EXTENDS Commands

Web == [parses |-> TRUE, scheme |-> "web", host |-> TRUE, path |-> "a"]

Plain == [ stamp |-> "good", method |-> "GET", url |-> Web, headers |-> <<>>,
           cookies |-> <<>>, text |-> Empty, params |-> FALSE, mime |-> Empty,
           status |-> 200 ]

Cookie == [name |-> "c", marks |-> FALSE, spaces |-> FALSE, quotes |-> FALSE]

HeaderLists == { <<>> } \cup { <<h>> : h \in HeaderType }
                 \cup { <<h, i>> : h, i \in { g \in HeaderType : g.value # "w" \/
                                                g.name \in {":authority", "Host"} } }

HeaderEntries ==
    { [Plain EXCEPT !.headers = hs, !.cookies = c, !.text = t, !.mime = m] :
        hs \in HeaderLists, c \in {<<>>, <<Cookie>>}, t \in {Empty, "text"},
        m \in {Empty, "form"} }

BodyEntries ==
    { [Plain EXCEPT !.method = "POST", !.headers = hs, !.text = t, !.params = p, !.mime = m] :
        hs \in { <<>> } \cup { <<h>> : h \in HeaderType }, t \in {Empty, "text"},
        p \in BOOLEAN, m \in MimeTypes }

Urls == [parses : BOOLEAN, scheme : {Empty, "web", "ws", "other"}, host : BOOLEAN,
         path : {"a"}]

CookieLists == { <<c>> : c \in CookieType } \cup { <<c, d>> : c, d \in CookieType }

CookieEntries == { [Plain EXCEPT !.cookies = cs] : cs \in CookieLists }

TargetEntries == { [Plain EXCEPT !.stamp = s, !.method = m, !.url = u] :
                     s \in Stamps, m \in Methods, u \in Urls }

Some == { Plain, [Plain EXCEPT !.method = "get", !.status = 404],
          [Plain EXCEPT !.method = "POST", !.url.path = "b"] }

File(es) == [opens |-> TRUE, wellFormed |-> TRUE, trailing |-> FALSE, log |-> TRUE,
             known |-> TRUE, entries |-> <<es>>]

Single == { File(<<e>>) : e \in HeaderEntries \cup BodyEntries \cup CookieEntries
                                \cup TargetEntries }

Several == { File(es) : es \in UNION { [1..n -> Some] : n \in {0, 2, 3} } }
             \cup { [File(<<Plain, Plain>>) EXCEPT !.opens = FALSE],
                    [File(<<Plain, Plain>>) EXCEPT !.wellFormed = FALSE],
                    [File(<<Plain, Plain>>) EXCEPT !.trailing = TRUE],
                    [File(<<Plain, Plain>>) EXCEPT !.known = FALSE],
                    [File(<<Plain, Plain>>) EXCEPT !.log = FALSE],
                    [File(<<Plain, Plain>>) EXCEPT !.entries = <<>>] }

NoFilter == [url |-> <<>>, compiles |-> TRUE, methods |-> {}, codes |-> {}]

SomeFilters == { NoFilter, [NoFilter EXCEPT !.url = <<{"b"}>>],
                 [NoFilter EXCEPT !.methods = {"GET", "POST"}, !.codes = {200}],
                 [NoFilter EXCEPT !.methods = {"GET"}],
                 [NoFilter EXCEPT !.url = <<{}>>, !.compiles = FALSE] }

Call(docs, filters) == { [doc |-> d, filter |-> f] : d \in docs, f \in filters }

AllCalls == Call(Single, {NoFilter}) \cup Call(Several, SomeFilters)
===============================================================================
