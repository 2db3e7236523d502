------------------------------- MODULE MCReplay -------------------------------
(***************************************************************************)
(* Recordings of up to three entries with times from -1 (a date before the *)
(* year 1, the only one that sorts before an unreadable timestamp) to 4.   *)
(* MaxDuration is less than the longest gap, and than twice the next one.  *)
(***************************************************************************)
EXTENDS Replay

\* The server at "b" may set a cookie.
Set(path) == {[name |-> "id", value |-> 9, path |-> path]}
AllServerCookies ==
    [h \in {"a", "b"} |-> IF h = "a" THEN {{}} ELSE {{}, Set(<<>>), Set(<< <<>> >>)}]

\* "/" and "/api/x"; the directory of the second matches "/api" too.
Root == <<"">>
Deep == <<"api", "x">>
Api  == <<"api">>

E(k, t) == [kind |-> k, parsed |-> TRUE, time |-> t, host |-> "a",
           path |-> Root, cookies |-> <<>>]
Unreadable(k) == [E(k, ZeroTime) EXCEPT !.parsed = FALSE]

SomeEntries == { E("good", -1), E("good", 1), E("good", 4), E("unbuildable", 1),
                 E("ws", 2), E("unmatched", 2), Unreadable("good") }

Id(v) == <<[name |-> "id", value |-> v]>>

\* Entries of one instant.  Of three, the first sets what the second may replace, next to
\* it or out of its way, and the third shows what is left.
At(path, cookies) == [E("good", 1) EXCEPT !.host = "b", !.path = path, !.cookies = cookies]

First  == { At(Root, <<>>), At(Root, Id(2) \o Id(1)), At(Deep, Id(1)) }
Second == { At(p, c) : p \in {Root, Deep}, c \in {<<>>, Id(1), Id(2)} }
Third  == { At(Api, <<>>), At(Root, <<>>), At(Deep, Id(1)) }
Other  == [E("good", 1) EXCEPT !.cookies = Id(1)]

CookieRecordings ==
    { <<d, e, f>> : d \in First, e \in Second, f \in Third }
      \cup { <<d, Other>> : d \in First } \cup { <<Other, f>> : f \in Third }

AllRecordings == UNION { [1..n -> SomeEntries] : n \in 0..3 } \cup CookieRecordings

Opt(times, by, noWait, cap, fos, ignore) ==
    [times |-> times, by |-> by, noWait |-> noWait, maxDelay |-> cap,
     failOnStatus |-> fos, ignoreCookies |-> ignore]

\* The zero value, twice as fast, half as fast and capped, so slow that gaps overflow,
\* capped after scaling, not waiting, and a bad one.
SomeOptions == { Opt(0, 1, FALSE, 0, FALSE, FALSE), Opt(2, 1, FALSE, 0, TRUE, TRUE),
                 Opt(1, 2, FALSE, 3, FALSE, FALSE), Opt(1, 4, FALSE, 0, TRUE, FALSE),
                 Opt(2, 1, FALSE, 1, TRUE, FALSE), Opt(1, 1, TRUE, 0, FALSE, FALSE),
                 Opt(-1, 1, FALSE, 0, FALSE, FALSE) }

AllCancelTimes == {0, 2, 5, 99}
SlowServer     == {0, 3}
===============================================================================
