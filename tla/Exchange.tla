------------------------------ MODULE Exchange ------------------------------
(***************************************************************************)
(* What a connection promises its client.  A response is given only to a   *)
(* request that was received in full, and never to one more than once; the *)
(* next request is answered only when the response before it was written   *)
(* from its first unit to its last; and nothing is received, answered or   *)
(* written once the exchange is over, which it may be at any time.         *)
(***************************************************************************)
EXTENDS Naturals

CONSTANT RespUnits   \* the length of a response

VARIABLES
    requests,   \* requests received in full
    responses,  \* responses given
    written,    \* units of them that were written
    over        \* the connection has gone

vars == <<requests, responses, written, over>>

Init == requests = 0 /\ responses = 0 /\ written = 0 /\ over = FALSE

\* Nothing is left of the responses given.
AllWritten == written = RespUnits * responses

\* More requests may have come with the one that is answered; they are never.
Receive == requests' \in Nat /\ requests' >= requests

Answer ==
    /\ ~over /\ AllWritten
    /\ Receive
    /\ responses' = responses + 1 /\ responses' <= requests'
    /\ UNCHANGED <<written, over>>

Write ==
    /\ ~over
    /\ written' \in Nat /\ written < written' /\ written' <= RespUnits * responses
    /\ UNCHANGED <<requests, responses, over>>

End ==
    /\ ~over /\ over' = TRUE
    /\ Receive
    /\ UNCHANGED <<responses, written>>

Next == Answer \/ Write \/ End

Spec == Init /\ [][Next]_vars
=============================================================================
