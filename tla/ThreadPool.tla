---------------------------- MODULE ThreadPool ------------------------------
(***************************************************************************)
(* ppserver::ThreadPool: workers that wait on a condition variable for a   *)
(* FIFO of tasks, threads and tasks that call Submit and Shutdown, and the *)
(* destructor.  One step of a thread is one critical section of            *)
(* queue_mutex_, one notification, one join or the end of a task.  The     *)
(* notifications are sent after the unlock, as in the code.                *)
(***************************************************************************)
EXTENDS Integers, Sequences, FiniteSets

CONSTANTS
    Workers,   \* the threads the constructor managed to create
    Clients,   \* the threads that use the pool
    Tasks,     \* what they submit
    None       \* no task

ASSUME FiniteThreads == IsFiniteSet(Workers) /\ IsFiniteSet(Clients)
ASSUME DisjointThreads == Workers \cap Clients = {}
ASSUME NoneIsNoTask == None \notin Tasks

VARIABLES
    tasks,      \* tasks_
    shutdown,   \* shutdown_
    wpc,        \* where each worker is in its loop
    current,    \* the task each worker executes, or None
    notifying,  \* threads between Submit's unlock and its notify_one
    phase,      \* where each thread is in Shutdown, or how it left it
    life        \* the pool as an object

vars == <<tasks, shutdown, wpc, current, notifying, phase, life>>

Threads == Workers \cup Clients

Phases ==
    {"none",          \* has not called Shutdown
     "notify",        \* Shutdown(false), before notify_all
     "notify_join",   \* Shutdown(true), before notify_all
     "join",          \* Shutdown(true), joining the workers
     "completed",     \* Shutdown(true) joined the workers and returned
     "threw",         \* Shutdown(true) of a task threw: it came to join itself
     "left",          \* Shutdown(false) returned
     "early"}         \* Shutdown returned because shutdown_ was set

TypeOK ==
    /\ tasks \in Seq(Tasks)
    /\ shutdown \in BOOLEAN
    /\ wpc \in [Workers -> {"ready", "waiting", "running", "exited"}]
    /\ current \in [Workers -> Tasks \cup {None}]
    /\ notifying \subseteq Threads
    /\ phase \in [Threads -> Phases]
    /\ life \in {"alive", "destroying", "destroyed", "terminated"}
    /\ \A w \in Workers : wpc[w] = "running" <=> current[w] # None

Init ==
    /\ tasks = <<>>
    /\ shutdown = FALSE
    /\ wpc = [w \in Workers |-> "ready"]
    /\ current = [w \in Workers |-> None]
    /\ notifying = {}
    /\ phase = [t \in Threads |-> "none"]
    /\ life = "alive"

Waiting == {w \in Workers : wpc[w] = "waiting"}
Ready   == {w \in Workers : wpc[w] = "ready"}

\* The process is there.
Alive == life # "terminated"

-----------------------------------------------------------------------------
(* Clients, and tasks that use the pool they run on. *)

\* Outside Submit and Shutdown.
Idle(t) ==
    /\ t \notin notifying
    /\ phase[t] \notin {"notify", "notify_join", "join"}

\* A client uses the pool until it is destroyed, a task until it returns.
MayCall(t) ==
    /\ Idle(t)
    /\ \/ t \in Clients /\ life = "alive"
       \/ t \in Workers /\ wpc[t] = "running" /\ life \in {"alive", "destroying"}

InFlight(k) ==
    \/ \E i \in DOMAIN tasks : tasks[i] = k
    \/ \E w \in Workers : current[w] = k

\* Whether a push is announced.
NotifyIfEmpty(t) ==
    notifying' = IF tasks = <<>> THEN notifying \cup {t} ELSE notifying

NotifyAlways(t) == notifying' = notifying \cup {t}

\* Submit throws once shutdown_ is set and leaves everything as it is, so only
\* an accepted task is a step.  max_tasks is not looked at.  Bound: a task in
\* flight is not submitted again.
Submit(t, k) ==
    /\ MayCall(t) /\ ~shutdown /\ ~InFlight(k)
    /\ tasks' = Append(tasks, k)
    /\ NotifyAlways(t)
    /\ UNCHANGED <<shutdown, wpc, current, phase, life>>

\* condition_.notify_one() releases one waiting worker, if there is one.
ReleaseOne ==
    \/ Waiting = {} /\ UNCHANGED wpc
    \/ \E w \in Waiting : wpc' = [wpc EXCEPT ![w] = "ready"]

NotifyOne(t) ==
    /\ Alive /\ t \in notifying
    /\ notifying' = notifying \ {t}
    /\ ReleaseOne
    /\ UNCHANGED <<tasks, shutdown, current, phase, life>>

\* What the first call goes on to, and how the others end.
Stops(wait) == IF wait THEN "notify_join" ELSE "notify"

StopsOrReturns(wait) == IF shutdown THEN "early" ELSE Stops(wait)

\* The critical section of Shutdown.  Bound: a thread calls it once, apart
\* from the destructor's call.
Shutdown(t, wait) ==
    /\ MayCall(t) /\ phase[t] = "none"
    /\ shutdown' = TRUE
    /\ phase' = [phase EXCEPT ![t] = StopsOrReturns(wait)]
    /\ UNCHANGED <<tasks, wpc, current, notifying, life>>

ReleaseAll == wpc' = [w \in Workers |-> IF w \in Waiting THEN "ready" ELSE wpc[w]]

\* condition_.notify_all()
NotifyAll(t) ==
    /\ Alive /\ phase[t] \in {"notify", "notify_join"}
    /\ ReleaseAll
    /\ phase' = [phase EXCEPT ![t] = IF @ = "notify" THEN "left" ELSE "join"]
    /\ UNCHANGED <<tasks, shutdown, current, notifying, life>>

\* The joins return once every worker has left its loop.
JoinAll(c) ==
    /\ c \in Clients /\ phase[c] = "join"
    /\ \A w \in Workers : wpc[w] = "exited"
    /\ phase' = [phase EXCEPT ![c] = "completed"]
    /\ UNCHANGED <<tasks, shutdown, wpc, current, notifying, life>>

\* A task joins the workers that were created before its own, which may be
\* none, and then its own thread: join() throws, out of Shutdown, and the rest
\* is not joined.
JoinItself(w) ==
    /\ Alive /\ w \in Workers /\ phase[w] = "join"
    /\ phase' = [phase EXCEPT ![w] = "threw"]
    /\ UNCHANGED <<tasks, shutdown, wpc, current, notifying, life>>

Joined == \E c \in Clients : phase[c] = "completed"

\* The destructor's own Shutdown(true), which returns early if the flag was set.
DestructorStops(c) ==
    /\ shutdown' = TRUE
    /\ phase' = [phase EXCEPT ![c] = IF shutdown THEN @ ELSE Stops(TRUE)]

\* The destructor begins, when no client is inside a call.
Destroy(c) ==
    /\ life = "alive"
    /\ \A d \in Clients : Idle(d)
    /\ life' = "destroying"
    /\ DestructorStops(c)
    /\ UNCHANGED <<tasks, wpc, current, notifying>>

\* It destroys the members: a std::thread that was not joined calls
\* std::terminate.
DestroyMembers ==
    /\ life = "destroying"
    /\ \A d \in Clients : Idle(d)
    /\ life' = IF Joined \/ Workers = {} THEN "destroyed" ELSE "terminated"
    /\ UNCHANGED <<tasks, shutdown, wpc, current, notifying, phase>>

-----------------------------------------------------------------------------
(* The worker's loop. *)

StopsAtOnce == shutdown

StopsWhenDrained == shutdown /\ tasks = <<>>

\* With queue_mutex_ held: the predicate of the wait, the test for the exit
\* and the pop.
Poll(w) ==
    /\ Alive /\ wpc[w] = "ready"
    /\ \/ /\ ~shutdown /\ tasks = <<>>
          /\ wpc' = [wpc EXCEPT ![w] = "waiting"]
          /\ UNCHANGED <<tasks, current>>
       \/ /\ StopsWhenDrained
          /\ wpc' = [wpc EXCEPT ![w] = "exited"]
          /\ UNCHANGED <<tasks, current>>
       \/ /\ tasks # <<>> /\ ~StopsWhenDrained
          /\ current' = [current EXCEPT ![w] = Head(tasks)]
          /\ tasks' = Tail(tasks)
          /\ wpc' = [wpc EXCEPT ![w] = "running"]
    /\ UNCHANGED <<shutdown, notifying, phase, life>>

\* A wait may also end without a notification.
SpuriousWakeup(w) ==
    /\ Alive /\ wpc[w] = "waiting"
    /\ wpc' = [wpc EXCEPT ![w] = "ready"]
    /\ UNCHANGED <<tasks, shutdown, current, notifying, phase, life>>

KeepTask(w) == UNCHANGED current

DropTask(w) == current' = [current EXCEPT ![w] = None]

\* The task returns; its exception, if any, goes to its future.
FinishTask(w) ==
    /\ Alive /\ wpc[w] = "running" /\ Idle(w)
    /\ wpc' = [wpc EXCEPT ![w] = "ready"]
    /\ DropTask(w)
    /\ UNCHANGED <<tasks, shutdown, notifying, phase, life>>

-----------------------------------------------------------------------------

Next ==
    \/ \E t \in Threads :
          \/ NotifyOne(t) \/ \E k \in Tasks : Submit(t, k)
          \/ \E wait \in BOOLEAN : Shutdown(t, wait)
          \/ NotifyAll(t)
    \/ \E c \in Clients : JoinAll(c) \/ Destroy(c)
    \/ \E w \in Workers :
          JoinItself(w) \/ Poll(w) \/ SpuriousWakeup(w) \/ FinishTask(w)
    \/ DestroyMembers

Spec == Init /\ [][Next]_vars

\* Threads are scheduled and tasks return; nobody has to submit a task, shut
\* the pool down or destroy it, and no wait ends by itself.
Fairness ==
    /\ \A t \in Threads : WF_vars(NotifyOne(t)) /\ WF_vars(NotifyAll(t))
    /\ \A c \in Clients : WF_vars(JoinAll(c))
    /\ \A w \in Workers : WF_vars(JoinItself(w)) /\ WF_vars(Poll(w)) /\ SF_vars(FinishTask(w))

FairSpec == Spec /\ Fairness

-----------------------------------------------------------------------------
(* Properties. *)

\* No worker sleeps on a backlog: while one waits, every queued task has a
\* notification under way or an awake worker that will look at the queue,
\* although notifications come after the unlock and may find another worker
\* than the one that takes the task.
NoIdleWorker ==
    Waiting # {} => Len(tasks) <= Cardinality(notifying) + Cardinality(Ready)

\* No worker sleeps through a shutdown: while one waits after the flag was set,
\* the notify_all is still to come.
ShutdownWakesAll ==
    shutdown /\ Waiting # {} =>
        \E t \in Threads : phase[t] \in {"notify", "notify_join"}

\* The threads whose call of Shutdown did not return at once.
Owners == {t \in Threads : phase[t] \notin {"none", "early"}}

\* The pool is shut down by a call that does not join every worker: one of
\* Shutdown(false), or a task's.
NotJoining ==
    \E t \in Owners : t \in Workers \/ phase[t] \in {"notify", "left"}

\* The pool is shut down by exactly one call, whichever threads make one and
\* whenever the destructor does: every call that returned at once, perhaps with
\* tasks still to come, left them to that one, no worker sleeps through it, and
\* none is joined by two threads.  Destroying the pool ends the process only if
\* that call does not join: the destructor's own never leaves a thread to join.
OneShutdown ==
    /\ \A t, u \in Owners : t = u
    /\ shutdown => Owners # {}
    /\ ShutdownWakesAll
    /\ life = "terminated" => NotJoining

\* Every accepted task is executed, before or after a shutdown.  Destroying the
\* pool ends the process instead only after a shutdown that does not join.
AcceptedTaskRuns ==
    \A k \in Tasks :
        (\E i \in DOMAIN tasks : tasks[i] = k)
            ~> (~InFlight(k) \/ (life = "terminated" /\ NotJoining))

\* A Shutdown(true) that joins returns, and a task's throws, unless somebody
\* destroys the pool the task runs on.
ShutdownReturns ==
    /\ \A c \in Clients : phase[c] = "notify_join" ~> phase[c] = "completed"
    /\ \A w \in Workers :
           phase[w] = "notify_join" ~> (phase[w] = "threw" \/ life = "terminated")

-----------------------------------------------------------------------------

Pool == INSTANCE TaskPool WITH
    queue <- tasks, executing <- current, closed <- shutdown, complete <- Joined

\* With a worker, the pool implements TaskPool: order, no duplicates, no task
\* lost by a shutdown, and completion reported only when it holds.
PoolSpec == Pool!Spec
=============================================================================
