----------------------------- MODULE MCReadStream -----------------------------
(***************************************************************************)
(* ReadStream on every document of up to three entries, with every ending  *)
(* and every way of failing.  The kinds a worker tells apart but the       *)
(* reader does not ("ws", "unbuildable") are left to the LoadTest runs.    *)
(***************************************************************************)
EXTENDS ReadStream

Items(n) == UNION { [1..k -> {"good", "filtered", "nourl"}] : k \in 0..n }

\* Documents that lead to an entries array, and the two that do not get there.
AllInputs ==
    { [regexpOK |-> TRUE, head |-> "ok", items |-> s, tail |-> t, rewinds |-> b] :
        s \in Items(3), t \in Tails, b \in BOOLEAN }
    \cup
    { [regexpOK |-> r, head |-> "bad", items |-> <<>>, tail |-> "closed",
       rewinds |-> TRUE] : r \in BOOLEAN }

\* The documents that end in the middle.
CutInputs == { i \in AllInputs : i.tail = "cut" }
===============================================================================
