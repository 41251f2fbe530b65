---------------------------- MODULE TimerService ----------------------------
(***************************************************************************)
(* What EventLoop promises about RunAfter, RunEvery and CancelTimer.  A    *)
(* callback starts once its timer has expired and never before, the one    *)
(* that expired first before the others, one at a time; a repeated timer   *)
(* is due again after at least one interval; and a timer that waits is     *)
(* given up only by a CancelTimer, which may come too late for one that    *)
(* has expired and does for one whose callback runs.  The heap, the batch  *)
(* of expired timers and epoll_wait are details of EventLoop, which        *)
(* implements this module.                                                 *)
(***************************************************************************)
EXTENDS Naturals

CONSTANTS
    Delays,   \* given to RunAfter and RunEvery
    None      \* no timer

VARIABLES
    clock,
    waiting,   \* the timers whose callback is to be called
    calling,   \* the timer whose callback runs, or None
    nextId     \* the next timer's

vars == <<clock, waiting, calling, nextId>>

Init == clock = 0 /\ waiting = {} /\ calling = None /\ nextId = 1

Add(delay, repeated) ==
    /\ waiting' = waiting \cup
           {[id |-> nextId, expiration |-> clock + delay,
             interval |-> IF repeated THEN delay ELSE 0, repeated |-> repeated]}
    /\ nextId' = nextId + 1
    /\ UNCHANGED <<clock, calling>>

Cancel(id) ==
    /\ \E given \in SUBSET {timer \in waiting : timer.id = id} :
          /\ waiting' = waiting \ given
          /\ \A timer \in waiting' : timer.id = id => timer.expiration <= clock
    /\ UNCHANGED <<clock, calling, nextId>>

Start(timer) ==
    /\ calling = None
    /\ timer.expiration <= clock
    /\ \A other \in waiting : timer.expiration <= other.expiration
    /\ waiting' = waiting \ {timer} /\ calling' = timer
    /\ UNCHANGED <<clock, nextId>>

\* The callback returns.
End ==
    /\ calling # None /\ calling' = None
    /\ \/ ~calling.repeated /\ UNCHANGED waiting
       \/ /\ calling.repeated
          /\ \E due \in calling.expiration + calling.interval .. clock + calling.interval :
                waiting' = waiting \cup {[calling EXCEPT !.expiration = due]}
    /\ UNCHANGED <<clock, nextId>>

Tick == clock' = clock + 1 /\ UNCHANGED <<waiting, calling, nextId>>

Next ==
    \/ \E delay \in Delays, repeated \in BOOLEAN : Add(delay, repeated)
    \/ \E id \in 1 .. nextId - 1 : Cancel(id)
    \/ \E timer \in waiting : Start(timer)
    \/ End
    \/ Tick

Spec == Init /\ [][Next]_vars
=============================================================================
