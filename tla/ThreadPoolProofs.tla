------------------------- MODULE ThreadPoolProofs ---------------------------
(* Theorems about ThreadPool, for any workers, clients and tasks. *)
EXTENDS ThreadPool, FiniteSetTheorems, SequenceTheorems, TLAPS

\* What the proofs add to TypeOK.  A worker leaves its loop only when the flag
\* is set and the queue is empty, which lasts; a thread is past "none" only
\* when the flag is set; a waiting worker after the flag was set will be
\* notified.
ExitInv == \A w \in Workers : wpc[w] = "exited" => shutdown /\ tasks = <<>>

PhaseInv == \A t \in Threads : phase[t] # "none" => shutdown

Inv == TypeOK /\ ExitInv /\ PhaseInv /\ ShutdownWakesAll

LEMMA InitInv == Init => Inv
<1> SUFFICES ASSUME Init PROVE Inv
  OBVIOUS
<1>1. <<>> \in Seq(Tasks)
  BY EmptySeq
<1>2. TypeOK
  BY <1>1, NoneIsNoTask DEF Init, TypeOK, Phases
<1>3. ExitInv /\ PhaseInv /\ ShutdownWakesAll
  BY DEF Init, ExitInv, PhaseInv, ShutdownWakesAll
<1>. QED
  BY <1>2, <1>3 DEF Inv

LEMMA NextInv == Inv /\ [Next]_vars => Inv'
<1> SUFFICES ASSUME Inv, [Next]_vars PROVE Inv'
  OBVIOUS
<1> USE DisjointThreads, NoneIsNoTask
<1> USE DEF Inv, TypeOK, ExitInv, PhaseInv, ShutdownWakesAll, Phases, Threads, Waiting
<1>1. ASSUME NEW t \in Threads, NEW k \in Tasks, Submit(t, k) PROVE Inv'
  BY <1>1 DEF Submit, NotifyAlways
<1>2. ASSUME NEW t \in Threads, NotifyOne(t) PROVE Inv'
  BY <1>2 DEF NotifyOne, ReleaseOne
<1>3. ASSUME NEW t \in Threads, NEW wait \in BOOLEAN, Shutdown(t, wait) PROVE Inv'
  <2>1. CASE shutdown
    BY <1>3, <2>1 DEF Shutdown, StopsOrReturns, Stops
  <2>2. CASE ~shutdown
    BY <1>3, <2>2 DEF Shutdown, StopsOrReturns, Stops
  <2>. QED
    BY <2>1, <2>2
<1>4. ASSUME NEW t \in Threads, NotifyAll(t) PROVE Inv'
  BY <1>4 DEF NotifyAll, ReleaseAll
<1>5. ASSUME NEW t \in Threads, JoinAll(t) \/ JoinItself(t) PROVE Inv'
  BY <1>5 DEF JoinAll, JoinItself
<1>6. ASSUME NEW c \in Clients, Destroy(c) PROVE Inv'
  BY <1>6 DEF Destroy, DestructorStops, Stops, Idle
<1>7. CASE DestroyMembers
  BY <1>7 DEF DestroyMembers
<1>8. ASSUME NEW w \in Workers, Poll(w) PROVE Inv'
  <2>1. tasks # <<>> => Head(tasks) \in Tasks /\ Tail(tasks) \in Seq(Tasks)
    BY HeadTailProperties
  <2>. QED
    BY <1>8, <2>1 DEF Poll, StopsWhenDrained
<1>9. ASSUME NEW w \in Workers, SpuriousWakeup(w) PROVE Inv'
  BY <1>9 DEF SpuriousWakeup
<1>10. ASSUME NEW w \in Workers, FinishTask(w) PROVE Inv'
  BY <1>10 DEF FinishTask, DropTask
<1>11. CASE UNCHANGED vars
  BY <1>11 DEF vars
<1>. HIDE DEF Inv
<1>. QED
  BY <1>1, <1>2, <1>3, <1>4, <1>5, <1>6, <1>7, <1>8, <1>9, <1>10, <1>11 DEF Next, Threads

THEOREM InvTheorem == Spec => []Inv
<1>. QED
  BY InitInv, NextInv, PTL DEF Spec

\* Every variable keeps its type, and a worker holds a task exactly while it
\* executes it.
THEOREM TypeCorrect == Spec => []TypeOK
<1>1. Inv => TypeOK
  BY DEF Inv
<1>. QED
  BY InvTheorem, <1>1, PTL

-----------------------------------------------------------------------------
(* No worker sleeps on a backlog. *)

LEMMA FiniteSets ==
    ASSUME Inv
    PROVE  /\ IsFiniteSet(notifying) /\ Cardinality(notifying) \in Nat
           /\ IsFiniteSet(Ready) /\ Cardinality(Ready) \in Nat
           /\ tasks \in Seq(Tasks) /\ Len(tasks) \in Nat
<1>1. IsFiniteSet(Threads)
  BY FiniteThreads, FS_Union DEF Threads
<1>2. notifying \subseteq Threads /\ tasks \in Seq(Tasks)
  BY DEF Inv, TypeOK
<1>3. IsFiniteSet(notifying)
  BY <1>1, <1>2, FS_Subset
<1>4. Ready \subseteq Workers
  BY DEF Ready
<1>5. IsFiniteSet(Ready)
  BY <1>4, FiniteThreads, FS_Subset
<1>6. Len(tasks) \in Nat
  BY <1>2, LenProperties
<1>. QED
  BY <1>2, <1>3, <1>5, <1>6, FS_CardinalityType

LEMMA NoIdleWorkerStep ==
    ASSUME Inv, NoIdleWorker, [Next]_vars
    PROVE  NoIdleWorker'
<1> USE FiniteSets
<1>0. wpc \in [Workers -> {"ready", "waiting", "running", "exited"}]
  BY DEF Inv, TypeOK
\* A worker that joins the awake ones pays for a task, or one that leaves them
\* takes it.
<1>1. ASSUME NEW w \in Workers, wpc[w] # "ready", wpc' = [wpc EXCEPT ![w] = "ready"]
      PROVE  /\ Ready' = Ready \cup {w} /\ Waiting' \subseteq Waiting
             /\ Cardinality(Ready') = Cardinality(Ready) + 1
  <2>1. Ready' = Ready \cup {w} /\ w \notin Ready /\ Waiting' \subseteq Waiting
    BY <1>0, <1>1 DEF Ready, Waiting
  <2>. QED
    BY <2>1, FS_AddElement
<1>2. ASSUME UNCHANGED <<tasks, wpc, notifying>> PROVE NoIdleWorker'
  BY <1>2 DEF NoIdleWorker, Waiting, Ready
<1>3. ASSUME NEW t \in Threads, NEW k \in Tasks, Submit(t, k) PROVE NoIdleWorker'
  <2>1. t \notin notifying /\ notifying' = notifying \cup {t}
    BY <1>3 DEF Submit, NotifyAlways, MayCall, Idle
  <2>2. Cardinality(notifying') = Cardinality(notifying) + 1
    BY <2>1, FS_AddElement
  <2>3. Len(tasks') = Len(tasks) + 1
    BY <1>3, AppendProperties DEF Submit
  <2>4. Waiting' = Waiting /\ Ready' = Ready
    BY <1>3 DEF Submit, Waiting, Ready
  <2>. QED
    BY <2>2, <2>3, <2>4 DEF NoIdleWorker
<1>4. ASSUME NEW t \in Threads, NotifyOne(t) PROVE NoIdleWorker'
  <2>1. CASE Waiting = {} /\ UNCHANGED wpc
    BY <2>1 DEF NoIdleWorker, Waiting
  <2>2. ASSUME NEW w \in Waiting, wpc' = [wpc EXCEPT ![w] = "ready"]
        PROVE  NoIdleWorker'
    <3>1. w \in Workers /\ wpc[w] # "ready"
      BY <2>2 DEF Waiting
    <3>2. Cardinality(Ready') = Cardinality(Ready) + 1
      BY <1>1, <2>2, <3>1
    <3>3. Cardinality(notifying') = Cardinality(notifying) - 1
      BY <1>4, FS_RemoveElement DEF NotifyOne
    <3>4. Len(tasks) <= Cardinality(notifying) + Cardinality(Ready)
      BY <2>2 DEF NoIdleWorker
    <3>5. tasks' = tasks
      BY <1>4 DEF NotifyOne
    <3>. QED
      BY <3>2, <3>3, <3>4, <3>5 DEF NoIdleWorker
  <2>. QED
    BY <1>4, <2>1, <2>2 DEF NotifyOne, ReleaseOne
<1>5. ASSUME NEW t \in Threads, NotifyAll(t) PROVE NoIdleWorker'
  <2>1. Waiting' = {}
    BY <1>0, <1>5 DEF NotifyAll, ReleaseAll, Waiting
  <2>. QED
    BY <2>1 DEF NoIdleWorker
<1>6. ASSUME NEW w \in Workers, Poll(w) PROVE NoIdleWorker'
  <2>1. CASE UNCHANGED tasks
    <3>1. tasks = <<>> \/ (tasks # <<>> /\ tasks' = Tail(tasks))
      BY <1>6 DEF Poll, StopsWhenDrained
    <3>2. tasks = <<>>
      <4>1. tasks # <<>> => Len(Tail(tasks)) = Len(tasks) - 1
        BY HeadTailProperties
      <4>. QED
        BY <2>1, <3>1, <4>1
    <3>3. Len(tasks') = 0
      BY <2>1, <3>2, EmptySeq
    <3>4. Inv'
      BY NextInv
    <3>5. Cardinality(notifying') \in Nat /\ Cardinality(Ready') \in Nat
      <4>1. notifying' = notifying
        BY <1>6 DEF Poll
      <4>2. Ready' \subseteq Workers
        BY DEF Ready
      <4>3. IsFiniteSet(Ready')
        BY <4>2, FiniteThreads, FS_Subset
      <4>. QED
        BY <4>1, <4>3, FS_CardinalityType
    <3>. QED
      BY <3>3, <3>5 DEF NoIdleWorker
  <2>2. CASE ~UNCHANGED tasks
    <3>1. /\ wpc[w] = "ready" /\ wpc' = [wpc EXCEPT ![w] = "running"]
          /\ tasks # <<>> /\ tasks' = Tail(tasks) /\ notifying' = notifying
      BY <1>6, <2>2 DEF Poll
    <3>2. Ready' = Ready \ {w} /\ w \in Ready /\ Waiting' = Waiting
      BY <1>0, <3>1 DEF Ready, Waiting
    <3>3. Cardinality(Ready') = Cardinality(Ready) - 1
      BY <3>2, FS_RemoveElement
    <3>4. Len(tasks') = Len(tasks) - 1
      BY <3>1, HeadTailProperties
    <3>. QED
      BY <3>1, <3>2, <3>3, <3>4 DEF NoIdleWorker
  <2>. QED
    BY <2>1, <2>2
<1>7. ASSUME NEW w \in Workers, SpuriousWakeup(w) \/ FinishTask(w)
      PROVE  NoIdleWorker'
  <2>1. /\ wpc[w] # "ready" /\ wpc' = [wpc EXCEPT ![w] = "ready"]
        /\ UNCHANGED <<tasks, notifying>>
    BY <1>7 DEF SpuriousWakeup, FinishTask
  <2>2. Waiting' \subseteq Waiting /\ Cardinality(Ready') = Cardinality(Ready) + 1
    BY <1>1, <2>1
  <2>. QED
    BY <2>1, <2>2 DEF NoIdleWorker
<1>8. ASSUME NEW t \in Threads,
             \/ JoinAll(t) \/ JoinItself(t) \/ Destroy(t)
             \/ \E wait \in BOOLEAN : Shutdown(t, wait)
      PROVE  NoIdleWorker'
  BY <1>2, <1>8 DEF JoinAll, JoinItself, Destroy, Shutdown
<1>9. DestroyMembers \/ UNCHANGED vars => NoIdleWorker'
  BY <1>2 DEF DestroyMembers, vars
<1>. QED
  BY <1>3, <1>4, <1>5, <1>6, <1>7, <1>8, <1>9 DEF Next, Threads

\* However many threads submit, a waiting worker is never left with more
\* queued tasks than there are notifications and awake workers to take them.
THEOREM NoIdleWorkerTheorem == Spec => []NoIdleWorker
<1>1. Init => NoIdleWorker
  BY DEF Init, NoIdleWorker, Waiting
<1>2. Inv /\ NoIdleWorker /\ [Next]_vars => NoIdleWorker'
  BY NoIdleWorkerStep
<1>. QED
  BY InvTheorem, <1>1, <1>2, PTL DEF Spec

-----------------------------------------------------------------------------
(* The pool is shut down once. *)

OneOwner == (\A t, u \in Owners : t = u) /\ (shutdown => Owners # {})

TerminatedOnlyUnjoined == life = "terminated" => NotJoining

\* What OneShutdown needs besides Inv: a pool that is being destroyed was shut
\* down, and join() throws in a task only.
EndInv ==
    /\ OneOwner /\ TerminatedOnlyUnjoined
    /\ life # "alive" => shutdown
    /\ \A c \in Clients : phase[c] # "threw"

\* A call that goes on changes its own phase only and stays the one that does.
LEMMA OwnerStays ==
    ASSUME Inv, EndInv, NEW t \in Owners, NEW p \in Phases \ {"none", "early"},
           phase' = [phase EXCEPT ![t] = p], shutdown' = shutdown
    PROVE  OneOwner'
<1>1. t \in Threads /\ phase \in [Threads -> Phases]
  BY DEF Inv, TypeOK, Owners
<1>2. Owners' = Owners
  BY <1>1 DEF Owners
<1>. QED
  BY <1>2 DEF OneOwner, EndInv

LEMMA OwnerBegins ==
    ASSUME Inv, EndInv, NEW t \in Threads, NEW p \in Phases \ {"none", "early"},
           ~shutdown, phase' = [phase EXCEPT ![t] = p]
    PROVE  OneOwner'
<1>1. \A u \in Threads : phase[u] = "none"
  BY DEF Inv, PhaseInv
<1>2. phase \in [Threads -> Phases]
  BY DEF Inv, TypeOK
<1>3. Owners' = {t}
  BY <1>1, <1>2 DEF Owners
<1>. QED
  BY <1>3 DEF OneOwner

LEMMA EndStep == Inv /\ EndInv /\ [Next]_vars => EndInv'
<1>. SUFFICES ASSUME Inv, EndInv, [Next]_vars PROVE EndInv'
  OBVIOUS
<1>0. /\ phase \in [Threads -> Phases] /\ Clients \subseteq Threads
      /\ Workers \subseteq Threads /\ shutdown \in BOOLEAN
      /\ life \in {"alive", "destroying", "destroyed", "terminated"}
  BY DEF Inv, TypeOK, Threads
<1>1. ASSUME UNCHANGED <<phase, shutdown, life>> PROVE EndInv'
  BY <1>1 DEF EndInv, OneOwner, TerminatedOnlyUnjoined, NotJoining, Owners
<1>2. ASSUME NEW t \in Threads, NEW wait \in BOOLEAN, Shutdown(t, wait) PROVE EndInv'
  <2>1. /\ phase[t] = "none" /\ shutdown' = TRUE /\ life' = life /\ life # "terminated"
        /\ phase' = [phase EXCEPT ![t] = StopsOrReturns(wait)]
    BY <1>2 DEF Shutdown, MayCall
  <2>2. CASE shutdown
    <3>1. phase' = [phase EXCEPT ![t] = "early"]
      BY <2>1, <2>2 DEF StopsOrReturns
    <3>2. Owners' = Owners
      BY <1>0, <2>1, <3>1 DEF Owners
    <3>. QED
      BY <1>0, <2>1, <2>2, <3>1, <3>2 DEF EndInv, OneOwner, TerminatedOnlyUnjoined
  <2>3. CASE ~shutdown
    <3>1. StopsOrReturns(wait) \in {"notify", "notify_join"}
      BY <2>3 DEF StopsOrReturns, Stops
    <3>2. OneOwner'
      BY <2>1, <2>3, <3>1, OwnerBegins DEF Phases
    <3>. QED
      BY <1>0, <2>1, <3>1, <3>2 DEF EndInv, TerminatedOnlyUnjoined
  <2>. QED
    BY <2>2, <2>3
<1>3. ASSUME NEW t \in Threads, NotifyAll(t) PROVE EndInv'
  <2>1. t \in Owners /\ UNCHANGED <<shutdown, life>> /\ life # "terminated"
    BY <1>3 DEF NotifyAll, Alive, Owners
  <2>2. PICK p \in {"left", "join"} : phase' = [phase EXCEPT ![t] = p]
    BY <1>0, <1>3 DEF NotifyAll
  <2>3. OneOwner'
    BY <2>1, <2>2, OwnerStays DEF Phases
  <2>. QED
    BY <1>0, <2>1, <2>2, <2>3 DEF EndInv, TerminatedOnlyUnjoined
<1>4. ASSUME NEW c \in Clients, JoinAll(c) PROVE EndInv'
  <2>1. /\ c \in Owners /\ phase[c] = "join" /\ UNCHANGED <<shutdown, life>>
        /\ phase' = [phase EXCEPT ![c] = "completed"]
    BY <1>0, <1>4 DEF JoinAll, Owners
  <2>2. OneOwner'
    BY <2>1, OwnerStays DEF Phases
  <2>3. TerminatedOnlyUnjoined'
    <3>1. NotJoining => NotJoining'
      BY <1>0, <2>1, DisjointThreads DEF NotJoining, Owners
    <3>. QED
      BY <2>1, <3>1 DEF EndInv, TerminatedOnlyUnjoined
  <2>. QED
    BY <1>0, <2>1, <2>2, <2>3 DEF EndInv
<1>5. ASSUME NEW w \in Workers, JoinItself(w) PROVE EndInv'
  <2>1. /\ w \in Owners /\ UNCHANGED <<shutdown, life>> /\ life # "terminated"
        /\ phase' = [phase EXCEPT ![w] = "threw"]
    BY <1>0, <1>5 DEF JoinItself, Alive, Owners
  <2>2. OneOwner'
    BY <2>1, OwnerStays DEF Phases
  <2>. QED
    BY <1>0, <2>1, <2>2, DisjointThreads DEF EndInv, TerminatedOnlyUnjoined
<1>6. ASSUME NEW c \in Clients, Destroy(c) PROVE EndInv'
  <2>1. /\ life' = "destroying" /\ shutdown' = TRUE /\ c \in Threads
        /\ phase' = [phase EXCEPT ![c] = IF shutdown THEN @ ELSE "notify_join"]
    BY <1>0, <1>6 DEF Destroy, DestructorStops, Stops
  <2>2. CASE shutdown
    <3>1. phase' = phase
      BY <1>0, <2>1, <2>2
    <3>. QED
      BY <2>1, <2>2, <3>1 DEF EndInv, OneOwner, Owners, TerminatedOnlyUnjoined
  <2>3. CASE ~shutdown
    <3>1. phase' = [phase EXCEPT ![c] = "notify_join"]
      BY <1>0, <2>1, <2>3
    <3>2. OneOwner'
      BY <2>1, <2>3, <3>1, OwnerBegins DEF Phases
    <3>. QED
      BY <1>0, <2>1, <3>1, <3>2 DEF EndInv, TerminatedOnlyUnjoined
  <2>. QED
    BY <2>2, <2>3
<1>7. CASE DestroyMembers
  <2>1. /\ UNCHANGED <<shutdown, phase>> /\ life = "destroying"
        /\ \A d \in Clients : Idle(d)
        /\ life' = "terminated" => ~Joined
    BY <1>7 DEF DestroyMembers
  <2>2. PICK t \in Owners : TRUE
    BY <2>1 DEF EndInv, OneOwner
  \* A client that is back from its Shutdown joined, or did not mean to.
  <2>3. ASSUME ~Joined PROVE NotJoining
    <3>1. t \in Clients => phase[t] = "left"
      BY <1>0, <2>1, <2>2, <2>3 DEF Owners, Idle, Joined, EndInv, Phases
    <3>. QED
      BY <2>2, <3>1 DEF NotJoining, Owners, Threads
  <2>4. NotJoining' = NotJoining /\ OneOwner' = OneOwner
    BY <2>1 DEF NotJoining, OneOwner, Owners
  <2>. QED
    BY <2>1, <2>3, <2>4 DEF EndInv, TerminatedOnlyUnjoined
<1>8. ASSUME NEW t \in Threads, NotifyOne(t) \/ \E k \in Tasks : Submit(t, k) PROVE EndInv'
  BY <1>1, <1>8 DEF NotifyOne, Submit
<1>9. ASSUME NEW w \in Workers, Poll(w) \/ SpuriousWakeup(w) \/ FinishTask(w) PROVE EndInv'
  BY <1>1, <1>9 DEF Poll, SpuriousWakeup, FinishTask
<1>10. CASE UNCHANGED vars
  BY <1>1, <1>10 DEF vars
<1>. QED
  BY <1>2, <1>3, <1>4, <1>5, <1>6, <1>7, <1>8, <1>9, <1>10 DEF Next

LEMMA EndInvariant == Spec => []EndInv
<1>1. Init => EndInv
  BY DEF Init, EndInv, OneOwner, TerminatedOnlyUnjoined, Owners, Threads
<1>. QED
  BY <1>1, InvTheorem, EndStep, PTL DEF Spec

\* Whichever threads shut the pool down and whenever it is destroyed, exactly one
\* call does the work, wakes every worker and leaves none to join but where it says
\* it does not wait, or is a task's.
THEOREM OneShutdownTheorem == Spec => []OneShutdown
<1>1. Inv /\ EndInv => OneShutdown
  BY DEF Inv, EndInv, OneOwner, OneShutdown, TerminatedOnlyUnjoined
<1>. QED
  BY InvTheorem, EndInvariant, <1>1, PTL

-----------------------------------------------------------------------------
(* The pool implements TaskPool. *)

LEMMA PoolStep ==
    ASSUME Workers # {}, Inv, [Next]_vars
    PROVE  [Pool!Next]_<<tasks, current, shutdown, Joined>>
<1> USE DEF Pool!Next, Pool!Accept, Pool!Start, Pool!Finish, Pool!Close,
            Pool!ReportCompletion, Joined
<1>0. /\ wpc \in [Workers -> {"ready", "waiting", "running", "exited"}]
      /\ \A w \in Workers : wpc[w] = "running" <=> current[w] # None
      /\ phase \in [Threads -> Phases] /\ Clients \subseteq Threads
      /\ ExitInv /\ PhaseInv
  BY DEF Inv, TypeOK, Threads
<1>1. ASSUME NEW t \in Threads, NEW k \in Tasks, Submit(t, k)
      PROVE  Pool!Accept(k)
  BY <1>1 DEF Submit
<1>2. ASSUME NEW t \in Threads, NotifyOne(t)
      PROVE  UNCHANGED <<tasks, current, shutdown, Joined>>
  BY <1>2 DEF NotifyOne
<1>3. ASSUME NEW t \in Threads, NEW wait \in BOOLEAN, Shutdown(t, wait)
      PROVE  Pool!Close
  <2>1. /\ shutdown' = TRUE /\ UNCHANGED <<tasks, current>>
        /\ phase[t] = "none" /\ phase'[t] # "completed"
        /\ \A d \in Clients \ {t} : phase'[d] = phase[d]
    BY <1>0, <1>3 DEF Shutdown, StopsOrReturns, Stops
  <2>2. Joined' = Joined
    BY <2>1
  <2>. QED
    BY <2>1, <2>2
<1>4. ASSUME NEW t \in Threads, NotifyAll(t) \/ JoinItself(t)
      PROVE  UNCHANGED <<tasks, current, shutdown, Joined>>
  <2>1. /\ UNCHANGED <<tasks, current, shutdown>>
        /\ phase[t] # "completed" /\ phase'[t] # "completed"
        /\ \A d \in Clients \ {t} : phase'[d] = phase[d]
    BY <1>0, <1>4 DEF NotifyAll, JoinItself
  <2>. QED
    BY <2>1
<1>5. ASSUME NEW c \in Clients, JoinAll(c) PROVE Pool!ReportCompletion
  \* Some worker left its loop, so the flag is set and the queue empty; all
  \* did, so none holds a task.
  <2>1. shutdown /\ tasks = <<>>
    BY <1>0, <1>5 DEF JoinAll, ExitInv
  <2>2. \A w \in Workers : current[w] = None
    BY <1>0, <1>5 DEF JoinAll
  <2>3. Joined' = TRUE /\ UNCHANGED <<tasks, current, shutdown>>
    BY <1>0, <1>5 DEF JoinAll
  <2>. QED
    BY <2>1, <2>2, <2>3
<1>6. ASSUME NEW c \in Clients, Destroy(c) PROVE Pool!Close
  <2>1. shutdown' = TRUE /\ UNCHANGED <<tasks, current>>
    BY <1>6 DEF Destroy, DestructorStops, Stops
  <2>2. Joined' = Joined
    <3>1. CASE shutdown
      BY <1>6, <3>1 DEF Destroy, DestructorStops, Stops
    <3>2. CASE ~shutdown
      <4>1. \A d \in Clients : phase[d] # "completed"
        BY <1>0, <3>2 DEF PhaseInv
      <4>2. \A d \in Clients : phase'[d] # "completed"
        BY <1>0, <1>6, <3>2, <4>1 DEF Destroy, DestructorStops, Stops
      <4>. QED
        BY <4>1, <4>2
    <3>. QED
      BY <3>1, <3>2
  <2>. QED
    BY <2>1, <2>2
<1>7. DestroyMembers \/ UNCHANGED vars
          => UNCHANGED <<tasks, current, shutdown, Joined>>
  BY DEF DestroyMembers, vars
<1>8. ASSUME NEW w \in Workers, Poll(w)
      PROVE  Pool!Start(w) \/ UNCHANGED <<tasks, current, shutdown, Joined>>
  BY <1>0, <1>8 DEF Poll
<1>9. ASSUME NEW w \in Workers, SpuriousWakeup(w)
      PROVE  UNCHANGED <<tasks, current, shutdown, Joined>>
  BY <1>9 DEF SpuriousWakeup
<1>10. ASSUME NEW w \in Workers, FinishTask(w) PROVE Pool!Finish(w)
  BY <1>0, <1>10 DEF FinishTask, DropTask
<1>. QED
  BY <1>1, <1>2, <1>3, <1>4, <1>5, <1>6, <1>7, <1>8, <1>9, <1>10 DEF Next, Threads

\* A pool with a worker starts tasks in order and once each, accepts none after
\* a shutdown, and a Shutdown(true) that joins reports completion only when
\* nothing is queued or running.
THEOREM PoolRefinement ==
    ASSUME Workers # {}
    PROVE  Spec => PoolSpec
<1>1. Init => Pool!Init
  BY DEF Init, Pool!Init, Joined, Threads
<1>2. Inv /\ [Next]_vars => [Pool!Next]_<<tasks, current, shutdown, Joined>>
  BY PoolStep
<1>. QED
  BY InvTheorem, <1>1, <1>2, PTL DEF Spec, PoolSpec, Pool!Spec, Pool!vars
=============================================================================
