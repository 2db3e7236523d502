----------------------------- MODULE LoadContract -----------------------------
(***************************************************************************)
(* What LoadTest promises its caller, without goroutines or channels: it   *)
(* records results until the context ends, then at most one more for each  *)
(* worker, and returns once, after which no result is recorded any more.   *)
(* A nil error means that the context ended or that there was nothing to   *)
(* replay.  Once the context has ended the call does return.               *)
(***************************************************************************)
EXTENDS Naturals

CONSTANTS Workers, Errors

VARIABLES
    phase,      \* "open" until the call returns, then "returned"
    ended,      \* the context is done
    recorded,   \* results recorded so far
    spent,      \* the workers that recorded a result after the context ended
    verdict     \* the error returned

contractVars == <<phase, ended, recorded, spent, verdict>>

Init ==
    /\ phase = "open" /\ ended = FALSE
    /\ recorded = 0 /\ spent = {}
    /\ verdict = "none"

Record ==
    /\ phase = "open" /\ ended = FALSE
    /\ recorded' = recorded + 1
    /\ UNCHANGED <<phase, ended, spent, verdict>>

RecordLate(w) ==
    /\ phase = "open" /\ ended = TRUE
    /\ w \notin spent
    /\ recorded' = recorded + 1
    /\ spent' = spent \cup {w}
    /\ UNCHANGED <<phase, ended, verdict>>

End ==
    /\ ended = FALSE
    /\ ended' = TRUE
    /\ UNCHANGED <<phase, recorded, spent, verdict>>

Return(err) ==
    /\ phase = "open"
    /\ err = "nil" => ended = TRUE \/ recorded = 0
    /\ phase' = "returned"
    /\ verdict' = err
    /\ UNCHANGED <<ended, recorded, spent>>

Next ==
    \/ Record
    \/ \E w \in Workers : RecordLate(w)
    \/ End
    \/ \E err \in Errors : Return(err)

Safety == Init /\ [][Next]_contractVars
Spec   == Safety /\ WF_contractVars(ended = TRUE /\ \E err \in Errors : Return(err))
===============================================================================
