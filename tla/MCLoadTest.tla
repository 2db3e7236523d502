------------------------------ MODULE MCLoadTest ------------------------------
(***************************************************************************)
(* Small instances of LoadTest: two workers, documents of up to three      *)
(* entries, at most two passes over the document.                          *)
(***************************************************************************)
EXTENDS LoadTest

CONSTANTS w1, w2

TwoWorkers == {w1, w2}

Doc(s, t) == [regexpOK |-> TRUE, head |-> "ok", items |-> s, tail |-> t, rewinds |-> TRUE]

\* Each kind of entry next to another, and each way a document can end the reader.
MixedInputs ==
    { Doc(<<"good", "unbuildable">>, "closed"),
      Doc(<<"ws", "nourl", "good">>, "garbage") }

EndingInputs ==
    { Doc(<<"filtered", "nourl">>, "closed"), Doc(<<"nourl">>, "closed"),
      Doc(<<"good", "filtered">>, "garbage"), Doc(<<"good">>, "cut"),
      [Doc(<<"unbuildable", "unbuildable", "good">>, "closed") EXCEPT !.rewinds = FALSE],
      [Doc(<<>>, "closed") EXCEPT !.regexpOK = FALSE],
      [Doc(<<>>, "closed") EXCEPT !.head = "bad"] }

AllInputs == MixedInputs \cup EndingInputs
===============================================================================
