---------------------------- MODULE MCWebServer -----------------------------
(* WebServer with signals handled where they can be, and where they deadlock. *)
EXTENDS WebServer, TLC

\* Everywhere on the loop's thread but in HandleNewConnection.
OutsideAccept == LoopPhases \ Accepting

\* Where the loop's thread holds a mutex that Stop() locks.
HoldingAMutex == {"adding", "buffer"}

\* Nothing tells the clients apart: they connect in one order.
Arrival ==
    CHOOSE order \in [1 .. Cardinality(Conns) -> Conns] :
        \A i, j \in DOMAIN order : order[i] = order[j] => i = j

ArriveInOrder ==
    \A i, j \in DOMAIN Arrival :
        i < j /\ Arrival[i] \in fresh' => Arrival[j] \in fresh'
=============================================================================
