-------------------------------- MODULE MCFetch --------------------------------
(***************************************************************************)
(* Two calls of Fetch in one directory.  "app.js" and "app-1.js" are both  *)
(* recorded names, so a suffix made up for the first can be the second.    *)
(***************************************************************************)
EXTENDS Fetch

CONSTANTS r1, r2

TwoRuns == {r1, r2}
OneRun  == {r1}

App    == [word |-> "app.js", suffixes |-> <<>>]
App1   == [word |-> "app.js", suffixes |-> <<1>>]
AllWords == {"app.js"}

Get(n) == [base |-> n, builds |-> TRUE]
Bad    == [base |-> App, builds |-> FALSE]

\* The name of a suffix recorded before and after the name it is made from, and an
\* entry of which no request can be made.
ShortRecordings == { <<Get(App), Get(App)>>, <<Get(App1), Get(App)>>, <<Bad, Get(App)>> }
LongRecordings  == { <<Get(App), Get(App), Get(App1), Get(App)>>,
                     <<Get(App1), Get(App), Get(App), Get(App)>>,
                     <<Get(App), Bad, Get(App)>>, <<>> }

\* An empty directory, and one an earlier call has written to.
Leftover == { {}, {App1} }

===============================================================================
