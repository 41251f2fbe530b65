----------------------------- MODULE EventLoop ------------------------------
(***************************************************************************)
(* ppserver::EventLoop: the thread that calls Run(), the threads that call *)
(* Stop, QueueInLoop, RunInLoop, RunAfter, RunEvery and CancelTimer, the   *)
(* eventfd that wakes epoll_wait, the timer heap and the task queue.       *)
(*                                                                         *)
(* One step of a thread is one critical section, one atomic access or one  *)
(* system call of the code.  A task, a timer callback and an I/O callback  *)
(* may make any of the calls while they run.  An I/O event is only seen as *)
(* a reason for epoll_wait to return and a callback that runs.             *)
(***************************************************************************)
EXTENDS Integers, Sequences

CONSTANTS
    Threads,    \* every thread that uses the loop
    Runners,    \* those that call Run()
    Tasks,      \* closures given to QueueInLoop and RunInLoop
    Delays,     \* delays and intervals given to RunAfter and RunEvery, in ms
    IntMax,     \* INT_MAX of the int that carries epoll_wait's timeout
    MaxTimers,  \* bound: how many timers are ever created
    MaxTime,    \* bound: where the modelled clock stops
    None        \* no thread, no task, no timer

ASSUME RunnersAreThreads == Runners \subseteq Threads
ASSUME DelaysAreNat == Delays \subseteq Nat
ASSUME BoundsAreNat == IntMax \in Nat /\ MaxTimers \in Nat /\ MaxTime \in Nat
Timer == [id : Nat, expiration : Nat, interval : Nat, repeated : BOOLEAN]

ASSUME NoneIsNothing == None \notin Threads \cup Tasks /\ None \notin Timer

VARIABLES
    running,      \* running_
    owner,        \* owner_thread_id_
    eventfd,      \* the counter of event_fd_ is above 0
    pending,      \* pending_tasks_
    timers,       \* timers_, a heap in the code
    nextTimerId,  \* next_timer_id_
    now,          \* the steady clock, in ms
    pc,           \* where each thread is in Run()
    waking,       \* threads between a change they announce and its WakeUp()
    inline,       \* the task each thread executes inside RunInLoop, or None
    deadline,     \* when each runner's epoll_wait times out
    events,       \* what is left of the batch epoll_wait returned
    cutoff,       \* the `now` of ProcessExpiredTimers
    expired,      \* its expired_timers that have not started
    firing,       \* the timer whose callback runs, or None
    batch,        \* the `tasks` of ProcessPendingTasks, the running one first
    retired,      \* history: timers that are done, by cancellation or firing
    cancelled,    \* history: timers CancelTimer was called for
    stopping      \* history: runners inside Run() when Stop() was called

loopVars   == <<running, owner, eventfd>>
timerVars  == <<timers, nextTimerId, retired, cancelled>>
expiryVars == <<cutoff, expired, firing>>
vars == <<loopVars, pending, timerVars, now, pc, waking, inline, deadline,
          events, expiryVars, batch, stopping>>

Phases == {"idle", "entered", "check", "timeout", "wait", "dispatch", "io",
           "timers", "fire", "callback", "swap", "task"}

\* Where code outside the loop runs: a thread that is not in Run(), or one of
\* the callbacks that Run() makes.
OutsideLoop == {"idle", "io", "callback", "task"}

Forever == -1    \* the timeout that never passes

\* One batch of epoll_wait: the eventfd and other descriptors in either order.
Batches == {<<>>, <<"eventfd">>, <<"io">>, <<"eventfd", "io">>, <<"io", "eventfd">>}

TypeOK ==
    /\ running \in BOOLEAN
    /\ owner \in Runners \cup {None}
    /\ eventfd \in BOOLEAN
    /\ pending \in Seq(Tasks)
    /\ timers \subseteq Timer
    /\ nextTimerId \in Nat
    /\ now \in Nat
    /\ pc \in [Threads -> Phases]
    /\ waking \subseteq Threads
    /\ inline \in [Threads -> Tasks \cup {None}]
    /\ deadline \in [Runners -> Nat \cup {Forever}]
    /\ events \in [Runners -> Seq({"eventfd", "io"})]
    /\ cutoff \in [Runners -> Nat]
    /\ expired \in [Runners -> SUBSET Timer]
    /\ firing \in [Runners -> Timer \cup {None}]
    /\ batch \in [Runners -> Seq(Tasks)]
    /\ retired \subseteq Nat
    /\ cancelled \subseteq Nat
    /\ stopping \subseteq Runners

Init ==
    /\ running = FALSE
    /\ owner = None
    /\ eventfd = FALSE
    /\ pending = <<>>
    /\ timers = {}
    /\ nextTimerId = 1
    /\ now = 0
    /\ pc = [t \in Threads |-> "idle"]
    /\ waking = {}
    /\ inline = [t \in Threads |-> None]
    /\ deadline = [r \in Runners |-> Forever]
    /\ events = [r \in Runners |-> <<>>]
    /\ cutoff = [r \in Runners |-> 0]
    /\ expired = [r \in Runners |-> {}]
    /\ firing = [r \in Runners |-> None]
    /\ batch = [r \in Runners |-> <<>>]
    /\ retired = {}
    /\ cancelled = {}
    /\ stopping = {}

-----------------------------------------------------------------------------
(* The calls other code makes. *)

\* A thread executes its own code: it is outside the loop's, and has no
\* WakeUp() to make before the call it is in returns.
MayCall(t) == pc[t] \in OutsideLoop /\ t \notin waking

\* A runner executes the loop's code.
InPhase(r, phase) == pc[r] = phase /\ r \notin waking /\ inline[r] = None

Goto(r, phase) == pc' = [pc EXCEPT ![r] = phase]

InFlight(k) ==
    \/ \E i \in DOMAIN pending : pending[i] = k
    \/ \E r \in Runners : \E i \in DOMAIN batch[r] : batch[r][i] = k
    \/ \E t \in Threads : inline[t] = k

\* The write to the eventfd.
NotifyNothing == UNCHANGED eventfd

Notify == eventfd' = TRUE

\* A call that changed something has its WakeUp() still to make, outside locks.
AnnounceNothing(t) == UNCHANGED waking

Announce(t) == waking' = waking \cup {t}

\* QueueInLoop pushes under task_mutex_ and calls WakeUp() after the unlock.
\* Bound: a task in flight is not submitted again.
QueueInLoop(t, k) ==
    /\ MayCall(t) /\ ~InFlight(k)
    /\ pending' = Append(pending, k)
    /\ Announce(t)
    /\ UNCHANGED <<loopVars, timerVars, now, pc, inline, deadline, events,
                   expiryVars, batch, stopping>>

\* RunInLoop runs the task on the spot when the caller is owner_thread_id_,
\* even after its Run() returned, and queues it otherwise.  Bound: an inline
\* task runs no other task inline.
RunInLoop(t, k) ==
    \/ owner # t /\ QueueInLoop(t, k)
    \/ /\ owner = t
       /\ MayCall(t) /\ ~InFlight(k) /\ inline[t] = None
       /\ inline' = [inline EXCEPT ![t] = k]
       /\ UNCHANGED <<loopVars, pending, timerVars, now, pc, waking, deadline,
                      events, expiryVars, batch, stopping>>

\* The inline task returns.
EndInline(t) ==
    /\ MayCall(t) /\ inline[t] # None
    /\ inline' = [inline EXCEPT ![t] = None]
    /\ UNCHANGED <<loopVars, pending, timerVars, now, pc, waking, deadline,
                   events, expiryVars, batch, stopping>>

\* Stop clears the flag; its WakeUp() is a later step.
Stop(t) ==
    /\ MayCall(t)
    /\ running' = FALSE
    /\ Announce(t)
    /\ stopping' = stopping \cup {r \in Runners : pc[r] # "idle"}
    /\ UNCHANGED <<owner, eventfd, pending, timerVars, now, pc, inline,
                   deadline, events, expiryVars, batch>>

WakeUp(t) ==
    /\ t \in waking
    /\ Notify
    /\ waking' = waking \ {t}
    /\ UNCHANGED <<running, owner, pending, timerVars, now, pc, inline,
                   deadline, events, expiryVars, batch, stopping>>

\* RunAfter and RunEvery push and call WakeUp() while they hold timer_mutex_.
ExpirationBeforeNow(delay) == now - delay

Expiration(delay) == now + delay

AddTimer(t, delay, repeat) ==
    /\ MayCall(t) /\ nextTimerId <= MaxTimers
    /\ timers' = timers \cup
           {[id |-> nextTimerId, expiration |-> Expiration(delay),
             interval |-> IF repeat THEN delay ELSE 0, repeated |-> repeat]}
    /\ nextTimerId' = nextTimerId + 1
    /\ Notify
    /\ UNCHANGED <<running, owner, pending, now, pc, waking, inline, deadline,
                   events, expiryVars, batch, retired, cancelled, stopping>>

RunAfter(t, delay) == AddTimer(t, delay, FALSE)

RunEvery(t, interval) == AddTimer(t, interval, TRUE)

\* CancelTimer erases the timer from the heap if it is there.
CancelTimer(t, id) ==
    /\ MayCall(t)
    /\ timers' = {tm \in timers : tm.id # id}
    /\ retired' = retired \cup {tm.id : tm \in timers \ timers'}
    /\ cancelled' = cancelled \cup {id}
    /\ UNCHANGED <<loopVars, nextTimerId, pending, now, pc, waking, inline,
                   deadline, events, expiryVars, batch, stopping>>

-----------------------------------------------------------------------------
(* Run(), phase by phase. *)

\* `if (running_) return 0` leaves everything as it is, so only a Run() that
\* passes the test is a step.
Enter(r) ==
    /\ InPhase(r, "idle") /\ ~running
    /\ Goto(r, "entered")
    /\ UNCHANGED <<loopVars, pending, timerVars, now, waking, inline, deadline,
                   events, expiryVars, batch, stopping>>

\* running_ and owner_thread_id_ are set in one step: only RunInLoop reads the
\* owner, and it does not read running_.
BeginLoop(r) ==
    /\ InPhase(r, "entered")
    /\ running' = TRUE
    /\ owner' = r
    /\ Goto(r, "check")
    /\ UNCHANGED <<eventfd, pending, timerVars, now, waking, inline, deadline,
                   events, expiryVars, batch, stopping>>

\* while (running_)
GoOnForEver == TRUE

GoOn == running

CheckRunning(r) ==
    /\ InPhase(r, "check")
    /\ \/ GoOn /\ Goto(r, "timeout") /\ UNCHANGED stopping
       \/ ~GoOn /\ Goto(r, "idle") /\ stopping' = stopping \ {r}
    /\ UNCHANGED <<loopVars, pending, timerVars, now, waking, inline, deadline,
                   events, expiryVars, batch>>

\* static_cast<int> of a uint64_t: two's complement, modulo 2 * (IntMax + 1).
ToInt(n) ==
    LET m == n % (2 * (IntMax + 1))
    IN  IF m <= IntMax THEN m ELSE m - 2 * (IntMax + 1)

\* The timer at the front of a heap that holds the given set.
LatestOf(tm, set) == \A other \in set : tm.expiration >= other.expiration

EarliestOf(tm, set) == \A other \in set : tm.expiration <= other.expiration

\* The int CalculateNextTimeout returns, given the front of the heap.
Timeout(tm) ==
    IF tm.expiration <= now THEN 0 ELSE ToInt(tm.expiration - now)

\* CalculateNextTimeout and the call of epoll_wait.  The wait is counted from
\* the calculation, and a negative timeout waits for ever.
WaitUntil(r, timeout) ==
    deadline' = [deadline EXCEPT
        ![r] = IF timeout < 0 THEN Forever ELSE now + timeout]

CalculateNextTimeout(r) ==
    /\ InPhase(r, "timeout")
    /\ \/ timers = {} /\ WaitUntil(r, -1)
       \/ \E tm \in timers : EarliestOf(tm, timers) /\ WaitUntil(r, Timeout(tm))
    /\ Goto(r, "wait")
    /\ UNCHANGED <<loopVars, pending, timerVars, now, waking, inline, events,
                   expiryVars, batch, stopping>>

TimedOut(r) == deadline[r] # Forever /\ deadline[r] <= now

\* epoll_wait returns: with the eventfd in the batch exactly if it is readable
\* (it is registered level-triggered), with or without other descriptors, or
\* with an empty batch after a timeout or a signal.
EpollWaitReturns(r) ==
    /\ InPhase(r, "wait")
    /\ \E evs \in Batches :
          /\ eventfd <=> \E i \in DOMAIN evs : evs[i] = "eventfd"
          /\ events' = [events EXCEPT ![r] = evs]
    /\ deadline' = [deadline EXCEPT ![r] = Forever]
    /\ Goto(r, "dispatch")
    /\ UNCHANGED <<loopVars, pending, timerVars, now, waking, inline,
                   expiryVars, batch, stopping>>

\* The next event of the batch: HandleTaskNotification drains the eventfd,
\* HandleIoEvent runs a callback.
DispatchEvent(r) ==
    /\ InPhase(r, "dispatch") /\ events[r] # <<>>
    /\ events' = [events EXCEPT ![r] = Tail(@)]
    /\ \/ Head(events[r]) = "eventfd" /\ eventfd' = FALSE /\ UNCHANGED pc
       \/ Head(events[r]) = "io" /\ Goto(r, "io") /\ UNCHANGED eventfd
    /\ UNCHANGED <<running, owner, pending, timerVars, now, waking, inline,
                   deadline, expiryVars, batch, stopping>>

\* The I/O callback returns.
EndIo(r) ==
    /\ InPhase(r, "io")
    /\ Goto(r, "dispatch")
    /\ UNCHANGED <<loopVars, pending, timerVars, now, waking, inline, deadline,
                   events, expiryVars, batch, stopping>>

\* After the batch ProcessExpiredTimers reads the clock, before it locks.
ReadClock(r) ==
    /\ InPhase(r, "dispatch") /\ events[r] = <<>>
    /\ cutoff' = [cutoff EXCEPT ![r] = now]
    /\ Goto(r, "timers")
    /\ UNCHANGED <<loopVars, pending, timerVars, now, waking, inline, deadline,
                   events, expired, firing, batch, stopping>>

\* ... and takes the timers that were due then off the heap.
ExtractExpired(r) ==
    /\ InPhase(r, "timers")
    /\ LET due == {tm \in timers : tm.expiration <= cutoff[r]}
       IN  /\ expired' = [expired EXCEPT ![r] = due]
           /\ timers' = timers \ due
    /\ Goto(r, "fire")
    /\ UNCHANGED <<loopVars, pending, nextTimerId, retired, cancelled, now,
                   waking, inline, deadline, events, cutoff, firing, batch,
                   stopping>>

\* The next callback starts, without a lock.  The heap hands out timers with
\* the same expiration in an order that depends on its shape.
Fire(r) ==
    /\ InPhase(r, "fire")
    /\ \E tm \in expired[r] :
          /\ EarliestOf(tm, expired[r])
          /\ firing' = [firing EXCEPT ![r] = tm]
          /\ expired' = [expired EXCEPT ![r] = @ \ {tm}]
    /\ Goto(r, "callback")
    /\ UNCHANGED <<loopVars, pending, timerVars, now, waking, inline, deadline,
                   events, cutoff, batch, stopping>>

\* The callback returns, and a repeated timer goes back on the heap, due one
\* interval after the cutoff.  No WakeUp(): the loop itself does this.
ForgetTimer(r) == UNCHANGED timers

RepeatTimer(r) ==
    timers' = timers \cup
        {[firing[r] EXCEPT !.expiration = cutoff[r] + firing[r].interval]}

EndCallback(r) ==
    /\ InPhase(r, "callback")
    /\ \/ firing[r].repeated /\ RepeatTimer(r) /\ UNCHANGED retired
       \/ /\ ~firing[r].repeated
          /\ retired' = retired \cup {firing[r].id}
          /\ UNCHANGED timers
    /\ firing' = [firing EXCEPT ![r] = None]
    /\ Goto(r, "fire")
    /\ UNCHANGED <<loopVars, pending, nextTimerId, cancelled, now, waking,
                   inline, deadline, events, cutoff, expired, batch, stopping>>

EndTimers(r) ==
    /\ InPhase(r, "fire") /\ expired[r] = {}
    /\ cutoff' = [cutoff EXCEPT ![r] = 0]
    /\ Goto(r, "swap")
    /\ UNCHANGED <<loopVars, pending, timerVars, now, waking, inline, deadline,
                   events, expired, firing, batch, stopping>>

\* ProcessPendingTasks swaps the queue out under task_mutex_.
CopyQueue(r) ==
    /\ batch' = [batch EXCEPT ![r] = pending]
    /\ UNCHANGED pending

TakeQueueNewestFirst(r) ==
    /\ batch' = [batch EXCEPT ![r] =
           [i \in DOMAIN pending |-> pending[Len(pending) + 1 - i]]]
    /\ pending' = <<>>

TakeQueue(r) ==
    /\ batch' = [batch EXCEPT ![r] = pending]
    /\ pending' = <<>>

SwapTasks(r) ==
    /\ InPhase(r, "swap")
    /\ TakeQueue(r)
    /\ Goto(r, IF pending = <<>> THEN "check" ELSE "task")
    /\ UNCHANGED <<loopVars, timerVars, now, waking, inline, deadline, events,
                   expiryVars, stopping>>

\* A task of the batch returns, or throws what the loop catches.
EndTask(r) ==
    /\ InPhase(r, "task")
    /\ batch' = [batch EXCEPT ![r] = Tail(@)]
    /\ Goto(r, IF Len(batch[r]) = 1 THEN "check" ELSE "task")
    /\ UNCHANGED <<loopVars, pending, timerVars, now, waking, inline, deadline,
                   events, expiryVars, stopping>>

\* The clock.
Tick ==
    /\ now < MaxTime
    /\ now' = now + 1
    /\ UNCHANGED <<loopVars, pending, timerVars, pc, waking, inline, deadline,
                   events, expiryVars, batch, stopping>>

-----------------------------------------------------------------------------

Call(t) ==
    \/ Stop(t)
    \/ \E k \in Tasks : QueueInLoop(t, k) \/ RunInLoop(t, k)
    \/ \E d \in Delays : RunAfter(t, d) \/ RunEvery(t, d)
    \/ \E id \in 1 .. nextTimerId - 1 : CancelTimer(t, id)

LoopStep(r) ==
    \/ BeginLoop(r)
    \/ CheckRunning(r)
    \/ CalculateNextTimeout(r)
    \/ DispatchEvent(r)
    \/ ReadClock(r)
    \/ ExtractExpired(r)
    \/ Fire(r)
    \/ EndTimers(r)
    \/ SwapTasks(r)

Next ==
    \/ \E t \in Threads : Call(t) \/ WakeUp(t) \/ EndInline(t)
    \/ \E r \in Runners :
          \/ Enter(r) \/ LoopStep(r) \/ EpollWaitReturns(r)
          \/ EndIo(r) \/ EndCallback(r) \/ EndTask(r)
    \/ Tick

Spec == Init /\ [][Next]_vars

\* The loop is scheduled; epoll_wait returns once the eventfd is readable or
\* its timeout has passed, but no signal or descriptor is due; callbacks and
\* tasks return, whatever they call first; a call that has begun makes its
\* WakeUp(); time passes.  Nobody has to call Run, Stop or anything else.
Fairness ==
    /\ \A r \in Runners :
          /\ WF_vars(LoopStep(r))
          /\ WF_vars(EpollWaitReturns(r) /\ (eventfd \/ TimedOut(r)))
          /\ SF_vars(EndIo(r)) /\ SF_vars(EndCallback(r)) /\ SF_vars(EndTask(r))
    /\ \A t \in Threads : WF_vars(WakeUp(t)) /\ SF_vars(EndInline(t))
    /\ WF_vars(Tick)

FairSpec == Spec /\ Fairness
-----------------------------------------------------------------------------
(* Properties. *)

\* Phases from which a runner swaps the queue before it can block again.
BeforeSwap == {"dispatch", "io", "timers", "fire", "callback", "swap"}

\* A queued task is never stranded by the gap between QueueInLoop's unlock and
\* its WakeUp(), nor by HandleTaskNotification draining several notifications
\* at once: while tasks are queued the eventfd is readable, or a thread is
\* about to write it, or a runner has yet to swap the queue.
NoLostWakeup ==
    pending # <<>> =>
        eventfd \/ waking # {} \/ \E r \in Runners : pc[r] \in BeforeSwap

\* Stop() never misses the loop: a runner that blocks, or is about to, after
\* the flag was cleared finds the eventfd readable or about to be.
NoLostStop ==
    \A r \in Runners :
        pc[r] \in {"timeout", "wait"} /\ ~running => eventfd \/ waking # {}

\* epoll_wait never sleeps past a timer: with a timer on the heap a blocked
\* runner has a wake-up under way or a timeout no later than the expiration.
NoLateTimer ==
    \A r \in Runners : \A tm \in timers :
        pc[r] = "wait" => \/ eventfd
                          \/ deadline[r] # Forever /\ deadline[r] <= tm.expiration
                          \/ TimedOut(r)

Located(r) == {tm.id : tm \in expired[r]} \cup
              (IF firing[r] = None THEN {} ELSE {firing[r].id})

\* No timer is lost or duplicated while it moves between the heap, the local
\* expired_timers and its callback: each id handed out is in exactly one place,
\* or retired, and no two timers of the heap share an id.
TimerConservation ==
    /\ 1 .. nextTimerId - 1 =
          retired \cup {tm.id : tm \in timers} \cup UNION {Located(r) : r \in Runners}
    /\ retired \cap {tm.id : tm \in timers} = {}
    /\ \A a, b \in timers : a.id = b.id => a = b
    /\ \A r \in Runners :
          /\ Located(r) \cap (retired \cup {tm.id : tm \in timers}) = {}
          /\ firing[r] # None => firing[r].id \notin {tm.id : tm \in expired[r]}

\* A timer CancelTimer was called for is not on the heap any more.
CancelledLeavesHeap == \A tm \in timers : tm.id \notin cancelled

\* A task in the queue of a running loop is executed, unless the loop is
\* stopped first.
QueuedTaskRuns ==
    \A k \in Tasks :
        (running /\ \E i \in DOMAIN pending : pending[i] = k)
            ~> (~running \/ ~InFlight(k))

\* A one-shot timer within the modelled time fires or is cancelled, unless the
\* loop is stopped first.
TimerFires ==
    \A id \in 1 .. MaxTimers :
        (running /\ \E tm \in timers : tm.id = id /\ tm.expiration <= MaxTime
                                              /\ ~tm.repeated)
            ~> (~running \/ id \in retired)

\* Once the flag is cleared while a runner loops, its Run() returns.
StopEndsLoop ==
    \A r \in Runners :
        (~running /\ pc[r] \notin {"idle", "entered"}) ~> pc[r] = "idle"

\* A runner that was inside Run() when Stop() was called returns from it.
StopEndsRun == \A r \in Runners : r \in stopping ~> r \notin stopping

-----------------------------------------------------------------------------
(* What the proofs add to the properties to make them inductive. *)

\* The locals of Run() are in use exactly in the phases that use them.
PhaseInv ==
    \A r \in Runners :
        /\ pc[r] = "callback" => firing[r] \in Timer
        /\ pc[r] = "task" <=> batch[r] # <<>>

\* A timer on the heap is due within one delay, and the clock of the last
\* ProcessExpiredTimers is not ahead.
DelayInv ==
    /\ \A tm \in timers :
          /\ tm.expiration - now <= IntMax
          /\ tm.interval <= IntMax
    /\ \A r \in Runners :
          /\ cutoff[r] <= now
          /\ \A tm \in expired[r] : tm.interval <= IntMax
          /\ firing[r] # None => firing[r].interval <= IntMax

-----------------------------------------------------------------------------
(* With one runner the queue and the batch are the FIFO of TaskFifo, and the heap *)
(* and the expired timers those of TimerService that wait.                        *)

LoopThread == CHOOSE r \in Runners : TRUE

Fifo == INSTANCE TaskFifo WITH queue <- batch[LoopThread] \o pending

\* Tasks are executed once each, in the order QueueInLoop accepted them, across
\* swaps, Stop() and restarts of Run().
FifoSpec == Fifo!Spec

Timers == INSTANCE TimerService WITH
    clock <- now, waiting <- timers \cup expired[LoopThread],
    calling <- firing[LoopThread], nextId <- nextTimerId

\* Timers expire before they fire, in order and each as often as it was asked to,
\* although the loop takes them off the heap in batches while callbacks and other
\* threads add and cancel them.
TimerSpec == Timers!Spec
=============================================================================
