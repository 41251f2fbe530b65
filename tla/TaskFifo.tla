------------------------------ MODULE TaskFifo ------------------------------
(***************************************************************************)
(* What EventLoop promises about the tasks handed to QueueInLoop, and to   *)
(* RunInLoop from a thread other than the loop's: every accepted task is   *)
(* executed exactly once, one at a time, in the order of acceptance.  The  *)
(* queue holds the accepted tasks that have not finished; its head is the  *)
(* one that runs next or is running.  Batches, locks, the eventfd and the  *)
(* loop's phases are details of EventLoop, which implements this module.   *)
(***************************************************************************)
EXTENDS Sequences

CONSTANT Tasks   \* what can be submitted

VARIABLE queue   \* accepted and not finished, oldest first

TypeOK == queue \in Seq(Tasks)

Init == queue = <<>>

\* A submission is accepted at the end of the queue.
Accept(k) == queue' = Append(queue, k)

\* The oldest task finishes.
Finish ==
    /\ queue # <<>>
    /\ queue' = Tail(queue)

Next ==
    \/ \E k \in Tasks : Accept(k)
    \/ Finish

Spec == Init /\ [][Next]_queue
=============================================================================
