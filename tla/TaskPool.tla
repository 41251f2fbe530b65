------------------------------ MODULE TaskPool ------------------------------
(***************************************************************************)
(* What ThreadPool promises.  Tasks are started in the order in which they *)
(* were accepted, each once, several at a time; none is accepted once the  *)
(* pool is closed; a closed pool still executes what it accepted, and      *)
(* Shutdown(true) reports completion when nothing is queued or running,    *)
(* after which nothing runs any more.                                      *)
(***************************************************************************)
EXTENDS Sequences

CONSTANTS Workers, Tasks, None

VARIABLES
    queue,      \* accepted and not started, oldest first
    executing,  \* the task each worker executes, or None
    closed,     \* no more tasks are accepted
    complete    \* completion was reported

vars == <<queue, executing, closed, complete>>

Init ==
    /\ queue = <<>>
    /\ executing = [w \in Workers |-> None]
    /\ closed = FALSE
    /\ complete = FALSE

Accept(k) ==
    /\ ~closed
    /\ queue' = Append(queue, k)
    /\ UNCHANGED <<executing, closed, complete>>

Start(w) ==
    /\ queue # <<>> /\ executing[w] = None
    /\ executing' = [executing EXCEPT ![w] = Head(queue)]
    /\ queue' = Tail(queue)
    /\ UNCHANGED <<closed, complete>>

Finish(w) ==
    /\ executing[w] # None
    /\ executing' = [executing EXCEPT ![w] = None]
    /\ UNCHANGED <<queue, closed, complete>>

Close ==
    /\ closed' = TRUE
    /\ UNCHANGED <<queue, executing, complete>>

ReportCompletion ==
    /\ closed /\ queue = <<>> /\ \A w \in Workers : executing[w] = None
    /\ complete' = TRUE
    /\ UNCHANGED <<queue, executing, closed>>

Next ==
    \/ \E k \in Tasks : Accept(k)
    \/ \E w \in Workers : Start(w) \/ Finish(w)
    \/ Close
    \/ ReportCompletion

Spec == Init /\ [][Next]_vars
=============================================================================
