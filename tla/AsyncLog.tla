------------------------------ MODULE AsyncLog ------------------------------
(***************************************************************************)
(* What the asynchronous wrapper promises the program that logs through    *)
(* it, without queue, workers, gates or once-guards: a record is taken in  *)
(* or refused; one that is taken in is delivered to the inner handler or   *)
(* dropped, once; none is taken in after closing has begun; and the inner  *)
(* handler is closed only when nothing that was taken in is pending, after *)
(* which nothing is delivered.                                             *)
(***************************************************************************)
CONSTANT Records

VARIABLES
    status,  \* what has become of each record
    phase    \* how far the wrapper is with closing

logVars == <<status, phase>>

Become(r, from, to) ==
    /\ status[r] = from
    /\ status' = [status EXCEPT ![r] = to]

Init ==
    /\ status = [r \in Records |-> "new"]
    /\ phase = "open"

Accept(r) == phase = "open" /\ Become(r, "new", "accepted") /\ UNCHANGED phase

Refuse(r) == phase # "open" /\ Become(r, "new", "dropped") /\ UNCHANGED phase

Deliver(r) ==
    phase # "closed" /\ Become(r, "accepted", "handled") /\ UNCHANGED phase

Drop(r) ==
    phase # "closed" /\ Become(r, "accepted", "dropped") /\ UNCHANGED phase

Close == phase = "open" /\ phase' = "closing" /\ UNCHANGED status

CloseInner ==
    /\ phase = "closing"
    /\ \A r \in Records : status[r] # "accepted"
    /\ phase' = "closed"
    /\ UNCHANGED status

Next ==
    \/ \E r \in Records : Accept(r) \/ Refuse(r) \/ Deliver(r) \/ Drop(r)
    \/ Close
    \/ CloseInner

Spec == Init /\ [][Next]_logVars
=============================================================================
