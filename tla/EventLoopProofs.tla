-------------------------- MODULE EventLoopProofs ---------------------------
(* Theorems about EventLoop, for any threads, tasks, delays and bounds. *)
EXTENDS EventLoop, SequenceTheorems, TLAPS

(* Helper actions and the groups of variables, for BY ... DEF. *)
USE DEF Phases, OutsideLoop, Forever, Batches

\* The actions a step may be, one per case of the proofs below.
LEMMA StepCases ==
    ASSUME nextTimerId \in Nat, [Next]_vars
    PROVE  \/ \E t \in Threads :
                \/ Stop(t) \/ WakeUp(t) \/ EndInline(t)
                \/ \E k \in Tasks : QueueInLoop(t, k) \/ RunInLoop(t, k)
                \/ \E d \in Delays, repeat \in BOOLEAN : AddTimer(t, d, repeat)
                \/ \E id \in Nat : CancelTimer(t, id)
           \/ \E r \in Runners :
                \/ Enter(r) \/ BeginLoop(r) \/ CheckRunning(r)
                \/ CalculateNextTimeout(r) \/ EpollWaitReturns(r)
                \/ DispatchEvent(r) \/ EndIo(r) \/ ReadClock(r)
                \/ ExtractExpired(r) \/ Fire(r) \/ EndCallback(r)
                \/ EndTimers(r) \/ SwapTasks(r) \/ EndTask(r)
           \/ Tick
           \/ UNCHANGED vars
<1>1. \A id \in 1 .. nextTimerId - 1 : id \in Nat
  BY SMT
<1>. QED
  BY <1>1 DEF Next, Call, LoopStep, RunAfter, RunEvery

\* The timeout fits an int, whatever was cast to it.
LEMMA ToIntType == ASSUME NEW n \in Nat PROVE ToInt(n) \in Int
<1>1. n % (2 * (IntMax + 1)) \in Int
  BY BoundsAreNat
<1>. QED
  BY <1>1, BoundsAreNat DEF ToInt

\* A timer that goes back on the heap is still a timer.
LEMMA RescheduleType ==
    ASSUME NEW tm \in Timer, NEW e \in Nat
    PROVE  [tm EXCEPT !.expiration = e] \in Timer
BY DEF Timer

\* A batch of epoll_wait is a sequence of events.
LEMMA BatchesType == \A evs \in Batches : evs \in Seq({"eventfd", "io"})
<1> DEFINE E == {"eventfd", "io"}
<1>1. \A a, b \in E : <<>> \in Seq(E) /\ <<a>> \in Seq(E) /\ <<a, b>> \in Seq(E)
  OBVIOUS
<1>. QED
  BY <1>1

\* What is left of a batch is empty exactly after its last element.
LEMMA TailEmpty ==
    ASSUME NEW S, NEW s \in Seq(S), s # <<>>
    PROVE  Tail(s) = <<>> <=> Len(s) = 1
<1>1. Tail(s) \in Seq(S) /\ Len(Tail(s)) = Len(s) - 1 /\ Len(s) \in Nat
  BY HeadTailProperties, LenProperties
<1>2. Len(Tail(s)) = 0 => Tail(s) = <<>>
  BY <1>1, EmptySeq
<1>3. Tail(s) = <<>> => Len(Tail(s)) = 0
  BY EmptySeq
<1>. QED
  BY <1>1, <1>2, <1>3

Inv == TypeOK /\ PhaseInv

LEMMA InitInv == Init => Inv
<1> SUFFICES ASSUME Init PROVE Inv
  OBVIOUS
<1>1. /\ \A S : <<>> \in Seq(S)
      /\ 1 \in Nat /\ 0 \in Nat
  BY SMT
<1>2. TypeOK
  BY <1>1, Zenon DEF Init, TypeOK
<1>3. PhaseInv
  BY RunnersAreThreads DEF Init, PhaseInv
<1>. QED
  BY <1>2, <1>3 DEF Inv

LEMMA NextInv == Inv /\ [Next]_vars => Inv'
<1> SUFFICES ASSUME Inv, [Next]_vars PROVE Inv'
  OBVIOUS
<1> USE RunnersAreThreads, DelaysAreNat, BoundsAreNat, NoneIsNothing
<1> USE DEF Inv, TypeOK, PhaseInv, vars, loopVars, timerVars, expiryVars
<1>1. ASSUME NEW t \in Threads, Stop(t) PROVE Inv'
  BY <1>1 DEF Stop, Announce, MayCall
<1>2. ASSUME NEW t \in Threads, NEW k \in Tasks, QueueInLoop(t, k) PROVE Inv'
  BY <1>2 DEF QueueInLoop, Announce, MayCall
<1>3. ASSUME NEW t \in Threads, NEW k \in Tasks, RunInLoop(t, k) PROVE Inv'
  <2>1. CASE QueueInLoop(t, k)
    BY <2>1, <1>2
  <2>2. CASE ~QueueInLoop(t, k)
    <3>1. /\ inline' = [inline EXCEPT ![t] = k]
          /\ UNCHANGED <<loopVars, pending, timerVars, now, pc, waking,
                         deadline, events, expiryVars, batch, stopping>>
      BY <2>2, <1>3, Zenon DEF RunInLoop
    <3>. QED
      BY <3>1
  <2>. QED
    BY <2>1, <2>2
<1>4. ASSUME NEW t \in Threads, NEW d \in Delays, NEW repeat \in BOOLEAN,
             AddTimer(t, d, repeat)
      PROVE  Inv'
  BY <1>4, SMTT(30) DEF AddTimer, Notify, Expiration, Timer, MayCall
<1>5. ASSUME NEW t \in Threads, NEW id \in Nat, CancelTimer(t, id) PROVE Inv'
  BY <1>5 DEF CancelTimer, Timer, MayCall
<1>6. ASSUME NEW t \in Threads, WakeUp(t) PROVE Inv'
  BY <1>6 DEF WakeUp, Notify
<1>7. ASSUME NEW t \in Threads, EndInline(t) PROVE Inv'
  BY <1>7 DEF EndInline, MayCall
<1>8. ASSUME NEW r \in Runners, Enter(r) PROVE Inv'
  BY <1>8 DEF Enter, InPhase, Goto
<1>9. ASSUME NEW r \in Runners, BeginLoop(r) PROVE Inv'
  BY <1>9 DEF BeginLoop, InPhase, Goto
<1>10. ASSUME NEW r \in Runners, CheckRunning(r) PROVE Inv'
  BY <1>10, ZenonT(30) DEF CheckRunning, InPhase, Goto, GoOn
<1>11. ASSUME NEW r \in Runners, CalculateNextTimeout(r) PROVE Inv'
  <2>1. ASSUME NEW timeout \in Int, WaitUntil(r, timeout)
        PROVE  deadline' \in [Runners -> Nat \cup {Forever}]
    BY <2>1 DEF WaitUntil
  <2>2. \A tm \in timers : Timeout(tm) \in Int
    <3> SUFFICES ASSUME NEW tm \in timers PROVE Timeout(tm) \in Int
      OBVIOUS
    <3>1. tm.expiration \in Nat
      BY DEF Timer
    <3>2. CASE tm.expiration <= now
      BY <3>2 DEF Timeout
    <3>3. CASE ~(tm.expiration <= now)
      <4>1. tm.expiration - now \in Nat
        BY <3>1, <3>3
      <4>. QED
        BY <3>3, <4>1, ToIntType DEF Timeout
    <3>. QED
      BY <3>2, <3>3
  <2>3. deadline' \in [Runners -> Nat \cup {Forever}]
    BY <1>11, <2>1, <2>2 DEF CalculateNextTimeout
  <2>. QED
    BY <1>11, <2>3 DEF CalculateNextTimeout, InPhase, Goto
<1>12. ASSUME NEW r \in Runners, EpollWaitReturns(r) PROVE Inv'
  <2>2. PICK evs \in Batches : events' = [events EXCEPT ![r] = evs]
    BY <1>12, Zenon DEF EpollWaitReturns
  <2>3. events' \in [Runners -> Seq({"eventfd", "io"})]
    <3> HIDE DEF Batches
    <3>. QED
      BY BatchesType, <2>2
  <2>. QED
    BY <1>12, <2>3 DEF EpollWaitReturns, InPhase, Goto
<1>13. ASSUME NEW r \in Runners, DispatchEvent(r) PROVE Inv'
  <2>1. Tail(events[r]) \in Seq({"eventfd", "io"})
    BY <1>13, HeadTailProperties DEF DispatchEvent
  <2>. QED
    BY <1>13, <2>1 DEF DispatchEvent, InPhase, Goto
<1>14. ASSUME NEW r \in Runners, EndIo(r) PROVE Inv'
  BY <1>14 DEF EndIo, InPhase, Goto
<1>15. ASSUME NEW r \in Runners, ReadClock(r) PROVE Inv'
  BY <1>15 DEF ReadClock, InPhase, Goto
<1>16. ASSUME NEW r \in Runners, ExtractExpired(r) PROVE Inv'
  BY <1>16 DEF ExtractExpired, InPhase, Goto
<1>17. ASSUME NEW r \in Runners, Fire(r) PROVE Inv'
  BY <1>17 DEF Fire, InPhase, Goto
<1>18. ASSUME NEW r \in Runners, EndCallback(r) PROVE Inv'
  <2>1. firing[r] \in Timer
    BY <1>18 DEF EndCallback, InPhase
  <2>2. [firing[r] EXCEPT !.expiration = cutoff[r] + firing[r].interval] \in Timer
    <3>1. firing[r].interval \in Nat /\ cutoff[r] \in Nat
      BY <2>1 DEF Timer
    <3>2. cutoff[r] + firing[r].interval \in Nat
      BY <3>1
    <3>. QED
      BY <3>2, <2>1, RescheduleType
  <2>3. firing[r].id \in Nat
    BY <2>1 DEF Timer
  <2>4. timers' \subseteq Timer /\ retired' \subseteq Nat
    BY <1>18, <2>2, <2>3 DEF EndCallback, RepeatTimer
  <2>. QED
    BY <1>18, <2>4 DEF EndCallback, InPhase, Goto
<1>19. ASSUME NEW r \in Runners, EndTimers(r) PROVE Inv'
  BY <1>19 DEF EndTimers, InPhase, Goto
<1>20. ASSUME NEW r \in Runners, SwapTasks(r) PROVE Inv'
  BY <1>20 DEF SwapTasks, TakeQueue, InPhase, Goto
<1>21. ASSUME NEW r \in Runners, EndTask(r) PROVE Inv'
  <2>1. batch[r] \in Seq(Tasks) /\ batch[r] # <<>>
    BY <1>21 DEF EndTask, InPhase
  <2>2. /\ Tail(batch[r]) \in Seq(Tasks)
        /\ Tail(batch[r]) = <<>> <=> Len(batch[r]) = 1
    BY <2>1, HeadTailProperties, TailEmpty
  <2>. QED
    BY <1>21, <2>2 DEF EndTask, InPhase, Goto
<1>22. CASE Tick
  BY <1>22 DEF Tick
<1>23. CASE UNCHANGED vars
  BY <1>23
<1>. HIDE DEF Inv, vars
<1>. QED
  <2>1. nextTimerId \in Nat
    BY DEF Inv, TypeOK
  <2>. QED
    BY <1>1, <1>2, <1>3, <1>4, <1>5, <1>6, <1>7, <1>8, <1>9, <1>10, <1>11,
       <1>12, <1>13, <1>14, <1>15, <1>16, <1>17, <1>18, <1>19, <1>20, <1>21,
       <1>22, <1>23, <2>1, StepCases

THEOREM InvTheorem == Spec => []Inv
<1>. QED
  BY InitInv, NextInv, PTL DEF Spec

\* Every variable keeps its type: in particular the locals of Run() are only
\* used while they hold a value.
THEOREM TypeCorrect == Spec => []TypeOK
<1>1. Inv => TypeOK
  BY DEF Inv
<1>. QED
  BY InvTheorem, <1>1, PTL

-----------------------------------------------------------------------------

LEMMA NoLostWakeupStep ==
    ASSUME Inv, NoLostWakeup, [Next]_vars
    PROVE  NoLostWakeup'
<1> USE RunnersAreThreads
<1> USE DEF NoLostWakeup, BeforeSwap, vars, loopVars, timerVars, expiryVars
<1>0. pc \in [Threads -> Phases] /\ nextTimerId \in Nat
  BY DEF Inv, TypeOK
<1>1. ASSUME NEW t \in Threads, Stop(t) PROVE NoLostWakeup'
  BY <1>1 DEF Stop, Announce
<1>2. ASSUME NEW t \in Threads, NEW k \in Tasks, QueueInLoop(t, k)
      PROVE  NoLostWakeup'
  BY <1>2 DEF QueueInLoop, Announce
<1>3. ASSUME NEW t \in Threads, NEW k \in Tasks, RunInLoop(t, k)
      PROVE  NoLostWakeup'
  BY <1>2, <1>3 DEF RunInLoop
<1>4. ASSUME NEW t \in Threads, NEW d \in Delays, NEW repeat \in BOOLEAN,
             AddTimer(t, d, repeat)
      PROVE  NoLostWakeup'
  BY <1>4 DEF AddTimer, Notify
<1>5. ASSUME NEW t \in Threads, NEW id \in Nat, CancelTimer(t, id)
      PROVE  NoLostWakeup'
  BY <1>5 DEF CancelTimer
<1>6. ASSUME NEW t \in Threads, WakeUp(t) \/ EndInline(t) PROVE NoLostWakeup'
  BY <1>6 DEF WakeUp, Notify, EndInline
<1>7. ASSUME NEW r \in Runners,
             \/ Enter(r) \/ BeginLoop(r) \/ CheckRunning(r)
             \/ CalculateNextTimeout(r)
      PROVE  NoLostWakeup'
  BY <1>0, <1>7 DEF Enter, BeginLoop, CheckRunning, CalculateNextTimeout,
                    InPhase, Goto
<1>8. ASSUME NEW r \in Runners,
             EpollWaitReturns(r) \/ EndIo(r) \/ ReadClock(r) \/ ExtractExpired(r)
      PROVE  NoLostWakeup'
  BY <1>0, <1>8 DEF EpollWaitReturns, EndIo, ReadClock, ExtractExpired,
                    InPhase, Goto
<1>9. ASSUME NEW r \in Runners, DispatchEvent(r) PROVE NoLostWakeup'
  <2>1. pc'[r] \in BeforeSwap
    BY <1>0, <1>9 DEF DispatchEvent, InPhase, Goto
  <2>. QED
    BY <2>1
<1>10. ASSUME NEW r \in Runners, Fire(r) \/ EndCallback(r) \/ EndTimers(r)
       PROVE  NoLostWakeup'
  <2>1. pc'[r] \in BeforeSwap
    BY <1>0, <1>10 DEF Fire, EndCallback, EndTimers, InPhase, Goto
  <2>. QED
    BY <2>1
<1>11. ASSUME NEW r \in Runners, SwapTasks(r) PROVE NoLostWakeup'
  BY <1>11 DEF SwapTasks, TakeQueue
<1>12. ASSUME NEW r \in Runners, EndTask(r) PROVE NoLostWakeup'
  BY <1>0, <1>12 DEF EndTask, InPhase, Goto
<1>13. CASE Tick
  BY <1>13 DEF Tick
<1>14. CASE UNCHANGED vars
  BY <1>14
<1>. HIDE DEF NoLostWakeup, vars
<1>. QED
  BY <1>0, <1>1, <1>2, <1>3, <1>4, <1>5, <1>6, <1>7, <1>8, <1>9, <1>10, <1>11,
     <1>12, <1>13, <1>14, StepCases

\* No queued task is stranded, whatever the number of threads that queue tasks,
\* stop the loop or run it: QueueInLoop may call WakeUp() after it unlocked.
THEOREM NoLostWakeupTheorem == Spec => []NoLostWakeup
<1>1. Init => NoLostWakeup
  BY DEF Init, NoLostWakeup
<1>2. Inv /\ NoLostWakeup /\ [Next]_vars => NoLostWakeup'
  BY NoLostWakeupStep
<1>. QED
  BY InvTheorem, <1>1, <1>2, PTL DEF Spec

-----------------------------------------------------------------------------

LEMMA NoLostStopStep ==
    ASSUME Inv, NoLostStop, [Next]_vars, \A r, q \in Runners : r = q
    PROVE  NoLostStop'
<1> USE RunnersAreThreads
<1> USE DEF NoLostStop, vars, loopVars, timerVars, expiryVars
<1>0. pc \in [Threads -> Phases] /\ nextTimerId \in Nat
  BY DEF Inv, TypeOK
<1>1. ASSUME NEW t \in Threads, Stop(t) PROVE NoLostStop'
  BY <1>1 DEF Stop, Announce
<1>2. ASSUME NEW t \in Threads, NEW k \in Tasks, QueueInLoop(t, k)
      PROVE  NoLostStop'
  BY <1>2 DEF QueueInLoop, Announce
<1>3. ASSUME NEW t \in Threads, NEW k \in Tasks, RunInLoop(t, k)
      PROVE  NoLostStop'
  BY <1>2, <1>3 DEF RunInLoop
<1>4. ASSUME NEW t \in Threads, NEW d \in Delays, NEW repeat \in BOOLEAN,
             AddTimer(t, d, repeat)
      PROVE  NoLostStop'
  BY <1>4 DEF AddTimer, Notify
<1>5. ASSUME NEW t \in Threads, NEW id \in Nat, CancelTimer(t, id)
      PROVE  NoLostStop'
  BY <1>5 DEF CancelTimer
<1>6. ASSUME NEW t \in Threads, WakeUp(t) \/ EndInline(t) PROVE NoLostStop'
  BY <1>6 DEF WakeUp, Notify, EndInline
<1>7. ASSUME NEW r \in Runners,
             \/ Enter(r) \/ BeginLoop(r) \/ CheckRunning(r)
             \/ CalculateNextTimeout(r)
      PROVE  NoLostStop'
  BY <1>0, <1>7 DEF Enter, BeginLoop, CheckRunning, CalculateNextTimeout, GoOn,
                    InPhase, Goto
<1>8. ASSUME NEW r \in Runners,
             EpollWaitReturns(r) \/ EndIo(r) \/ ReadClock(r) \/ ExtractExpired(r)
      PROVE  NoLostStop'
  BY <1>0, <1>8 DEF EpollWaitReturns, EndIo, ReadClock, ExtractExpired,
                    InPhase, Goto
<1>9. ASSUME NEW r \in Runners, DispatchEvent(r) PROVE NoLostStop'
  \* The only step that drains the eventfd: its runner, the only one, is not
  \* about to block.
  <2>1. pc'[r] \in {"dispatch", "io"}
    BY <1>0, <1>9 DEF DispatchEvent, InPhase, Goto
  <2>. QED
    BY <2>1
<1>10. ASSUME NEW r \in Runners,
              Fire(r) \/ EndCallback(r) \/ EndTimers(r) \/ SwapTasks(r) \/ EndTask(r)
       PROVE  NoLostStop'
  <2>1. pc'[r] \in {"fire", "callback", "swap", "task", "check"}
    BY <1>0, <1>10 DEF Fire, EndCallback, EndTimers, SwapTasks, EndTask, InPhase, Goto
  <2>. QED
    BY <2>1
<1>11. CASE Tick
  BY <1>11 DEF Tick
<1>12. CASE UNCHANGED vars
  BY <1>12
<1>. HIDE DEF NoLostStop, vars
<1>. QED
  BY <1>0, <1>1, <1>2, <1>3, <1>4, <1>5, <1>6, <1>7, <1>8, <1>9, <1>10, <1>11,
     <1>12, StepCases

\* With one thread that runs the loop, no Stop() leaves it blocked.
THEOREM NoLostStopTheorem ==
    ASSUME \A r, q \in Runners : r = q
    PROVE  Spec => []NoLostStop
<1>1. Init => NoLostStop
  BY RunnersAreThreads DEF Init, NoLostStop
<1>2. Inv /\ NoLostStop /\ [Next]_vars => NoLostStop'
  BY NoLostStopStep
<1>. QED
  BY InvTheorem, <1>1, <1>2, PTL DEF Spec

-----------------------------------------------------------------------------
(* The queue and the batch are a FIFO. *)

\* Appending to the second part of a concatenation appends to the whole.
LEMMA ConcatAppend ==
    ASSUME NEW S, NEW s \in Seq(S), NEW t \in Seq(S), NEW e \in S
    PROVE  s \o Append(t, e) = Append(s \o t, e)
<1>1. <<e>> \in Seq(S)
  OBVIOUS
<1>2. s \o t \in Seq(S)
  BY ConcatProperties
<1>3. Append(t, e) = t \o <<e>> /\ Append(s \o t, e) = (s \o t) \o <<e>>
  BY <1>2, AppendIsConcat
<1>4. (s \o t) \o <<e>> = s \o (t \o <<e>>)
  BY <1>1, ConcatAssociative
<1>. QED
  BY <1>3, <1>4

\* The tail of a concatenation whose first part is not empty.
LEMMA ConcatTail ==
    ASSUME NEW S, NEW s \in Seq(S), NEW t \in Seq(S), s # <<>>
    PROVE  Tail(s) \o t = Tail(s \o t) /\ s \o t # <<>>
<1>1. /\ s \o t \in Seq(S) /\ Len(s \o t) = Len(s) + Len(t)
      /\ Len(s) \in Nat \ {0} /\ Len(t) \in Nat
  BY ConcatProperties, LenProperties, EmptySeq
<1>2. s \o t # <<>>
  BY <1>1, EmptySeq
<1>3. /\ Tail(s) \in Seq(S) /\ Len(Tail(s)) = Len(s) - 1
      /\ \A i \in 1 .. Len(Tail(s)) : Tail(s)[i] = s[i+1]
  BY HeadTailProperties
<1>4. /\ Tail(s \o t) \in Seq(S) /\ Len(Tail(s \o t)) = Len(s \o t) - 1
      /\ \A i \in 1 .. Len(Tail(s \o t)) : Tail(s \o t)[i] = (s \o t)[i+1]
  BY <1>1, <1>2, HeadTailProperties
<1>5. /\ Tail(s) \o t \in Seq(S) /\ Len(Tail(s) \o t) = Len(Tail(s)) + Len(t)
      /\ \A i \in 1 .. Len(Tail(s) \o t) :
            (Tail(s) \o t)[i] = IF i <= Len(Tail(s)) THEN Tail(s)[i]
                                ELSE t[i - Len(Tail(s))]
  BY <1>3, ConcatProperties
<1>6. \A i \in 1 .. Len(s \o t) :
          (s \o t)[i] = IF i <= Len(s) THEN s[i] ELSE t[i - Len(s)]
  BY ConcatProperties
<1>7. Len(Tail(s) \o t) = Len(Tail(s \o t))
  BY <1>1, <1>3, <1>4, <1>5
<1>8. ASSUME NEW i \in 1 .. Len(Tail(s) \o t)
      PROVE  (Tail(s) \o t)[i] = Tail(s \o t)[i]
  <2>1. Tail(s \o t)[i] = (s \o t)[i+1]
    BY <1>4, <1>7
  <2>2. i + 1 \in 1 .. Len(s \o t)
    BY <1>1, <1>3, <1>5
  <2>3. CASE i <= Len(Tail(s))
    BY <2>1, <2>2, <2>3, <1>1, <1>3, <1>5, <1>6
  <2>4. CASE ~(i <= Len(Tail(s)))
    <3>1. (Tail(s) \o t)[i] = t[i - Len(Tail(s))]
      BY <2>4, <1>5
    <3>2. (s \o t)[i+1] = t[i + 1 - Len(s)]
      BY <2>2, <2>4, <1>1, <1>3, <1>6
    <3>3. i + 1 - Len(s) = i - Len(Tail(s))
      BY <1>1, <1>3
    <3>. QED
      BY <2>1, <3>1, <3>2, <3>3
  <2>. QED
    BY <2>3, <2>4
<1>. QED
  BY <1>2, <1>4, <1>5, <1>7, <1>8, SeqEqual

LEMMA FifoStep ==
    ASSUME NEW r, Runners = {r}, Inv, [Next]_vars
    PROVE  [Fifo!Next]_(batch[LoopThread] \o pending)
<1> DEFINE queue == batch[r] \o pending
<1>1. LoopThread = r
  BY DEF LoopThread
<1>2. batch[r] \in Seq(Tasks) /\ pending \in Seq(Tasks) /\ nextTimerId \in Nat
  BY DEF Inv, TypeOK
<1>3. batch \in [Runners -> Seq(Tasks)] /\ (pc[r] = "task" <=> batch[r] # <<>>)
  BY DEF Inv, TypeOK, PhaseInv
<1> USE DEF Fifo!Next, Fifo!Accept, Fifo!Finish
<1>4. ASSUME UNCHANGED <<batch, pending>> PROVE UNCHANGED queue
  BY <1>4
<1>5. ASSUME NEW t \in Threads, NEW k \in Tasks, QueueInLoop(t, k)
      PROVE  Fifo!Accept(k)
  <2>1. pending' = Append(pending, k) /\ batch' = batch
    BY <1>5 DEF QueueInLoop
  <2>. QED
    <3> DEFINE b == batch[r]
    <3>1. b \in Seq(Tasks)
      BY <1>2
    <3> HIDE DEF b
    <3>2. b \o Append(pending, k) = Append(b \o pending, k)
      BY <1>2, <3>1, ConcatAppend
    <3>3. queue' = Append(queue, k)
      BY <2>1, <3>2 DEF b
    <3>. QED
      BY <1>1, <3>3
<1>6. CASE SwapTasks(r)
  <2>1. batch[r] = <<>>
    BY <1>3, <1>6 DEF SwapTasks, InPhase
  <2>2. batch'[r] = pending /\ pending' = <<>>
    BY <1>3, <1>6 DEF SwapTasks, TakeQueue
  <2>3. queue = pending /\ queue' = pending
    BY <1>2, <2>1, <2>2, ConcatEmptySeq
  <2>. QED
    BY <1>1, <2>3
<1>7. CASE EndTask(r)
  <2>1. batch[r] # <<>>
    BY <1>3, <1>7 DEF EndTask, InPhase
  <2>2. batch'[r] = Tail(batch[r]) /\ pending' = pending
    BY <1>3, <1>7 DEF EndTask
  <2>3. queue # <<>> /\ queue' = Tail(queue)
    BY <1>2, <2>1, <2>2, ConcatTail
  <2>. QED
    BY <1>1, <2>3
<1>8. CASE UNCHANGED <<batch, pending>>
  BY <1>1, <1>4, <1>8
<1>9. ASSUME NEW t \in Threads,
             \/ Stop(t) \/ WakeUp(t) \/ EndInline(t)
             \/ \E d \in Delays, repeat \in BOOLEAN : AddTimer(t, d, repeat)
             \/ \E id \in Nat : CancelTimer(t, id)
      PROVE  UNCHANGED <<batch, pending>>
  BY <1>9 DEF Stop, WakeUp, EndInline, AddTimer, CancelTimer
<1>10. ASSUME NEW t \in Threads, NEW k \in Tasks, RunInLoop(t, k),
              ~QueueInLoop(t, k)
       PROVE  UNCHANGED <<batch, pending>>
  BY <1>10 DEF RunInLoop
<1>11. ASSUME \/ Enter(r) \/ BeginLoop(r) \/ CheckRunning(r)
              \/ CalculateNextTimeout(r) \/ EpollWaitReturns(r)
              \/ DispatchEvent(r) \/ EndIo(r) \/ ReadClock(r)
              \/ ExtractExpired(r) \/ Fire(r) \/ EndCallback(r) \/ EndTimers(r)
       PROVE  UNCHANGED <<batch, pending>>
  BY <1>11 DEF Enter, BeginLoop, CheckRunning, CalculateNextTimeout,
               EpollWaitReturns, DispatchEvent, EndIo, ReadClock,
               ExtractExpired, Fire, EndCallback, EndTimers
<1>12. Tick \/ UNCHANGED vars => UNCHANGED <<batch, pending>>
  BY DEF Tick, vars
<1>. QED
  BY <1>2, <1>5, <1>6, <1>7, <1>8, <1>9, <1>10, <1>11, <1>12, StepCases

\* With one thread that runs the loop, the batch followed by the queue behaves
\* as the abstract FIFO: QueueInLoop's tasks run once each, in order.
THEOREM FifoRefinement ==
    ASSUME NEW r, Runners = {r}
    PROVE  Spec => FifoSpec
<1>1. Init => batch[LoopThread] \o pending = <<>>
  <2> SUFFICES ASSUME Init PROVE batch[LoopThread] \o pending = <<>>
    OBVIOUS
  <2>1. LoopThread = r
    BY DEF LoopThread
  <2>2. batch[LoopThread] = <<>> /\ pending = <<>>
    BY <2>1 DEF Init
  <2>3. <<>> \in Seq(Tasks)
    BY EmptySeq
  <2>. QED
    BY <2>2, <2>3, ConcatEmptySeq
<1>2. Inv /\ [Next]_vars => [Fifo!Next]_(batch[LoopThread] \o pending)
  BY FifoStep
<1>. QED
  BY InvTheorem, <1>1, <1>2, PTL DEF Spec, FifoSpec, Fifo!Spec, Fifo!Init

-----------------------------------------------------------------------------
(* epoll_wait never sleeps past a timer. *)

\* The cast to int keeps what an int can hold.
LEMMA ToIntIdentity == ASSUME NEW n \in 0 .. IntMax PROVE ToInt(n) = n
<1>1. n % (2 * (IntMax + 1)) = n
  <2> DEFINE w == 2 * (IntMax + 1)
  <2>1. w \in Nat /\ n \in Nat /\ n < w /\ w > 0
    BY BoundsAreNat
  <2> HIDE DEF w
  <2>2. n % w = n
    BY <2>1
  <2>. QED
    BY <2>2 DEF w
<1>. QED
  BY <1>1 DEF ToInt

LEMMA DelayInvStep ==
    ASSUME Inv, DelayInv, [Next]_vars, \A d \in Delays : d <= IntMax
    PROVE  DelayInv'
<1> USE RunnersAreThreads, DelaysAreNat, BoundsAreNat
<1> USE DEF DelayInv, Timer, vars, loopVars, timerVars, expiryVars
<1>0. /\ nextTimerId \in Nat /\ now \in Nat /\ timers \subseteq Timer
      /\ cutoff \in [Runners -> Nat] /\ expired \in [Runners -> SUBSET Timer]
      /\ firing \in [Runners -> Timer \cup {None}]
      /\ \A r \in Runners : pc[r] = "callback" => firing[r] \in Timer
  BY DEF Inv, TypeOK, PhaseInv
<1>1. ASSUME UNCHANGED <<timers, now, cutoff, expired, firing>> PROVE DelayInv'
  BY <1>1
<1>2. ASSUME NEW t \in Threads, NEW d \in Delays, NEW repeat \in BOOLEAN,
             AddTimer(t, d, repeat)
      PROVE  DelayInv'
  <2> DEFINE new == [id |-> nextTimerId, expiration |-> now + d,
                     interval |-> IF repeat THEN d ELSE 0, repeated |-> repeat]
  <2>1. /\ timers' = timers \cup {new}
        /\ UNCHANGED <<now, cutoff, expired, firing>>
    BY <1>2 DEF AddTimer, Expiration
  <2>2. new.expiration - now <= IntMax /\ new.interval <= IntMax
    BY <1>0
  <2> HIDE DEF new
  <2>. QED
    BY <1>0, <2>1, <2>2
<1>3. ASSUME NEW t \in Threads, NEW id \in Nat, CancelTimer(t, id)
      PROVE  DelayInv'
  BY <1>3 DEF CancelTimer
<1>4. ASSUME NEW r \in Runners, ReadClock(r) PROVE DelayInv'
  BY <1>0, <1>4 DEF ReadClock
<1>5. ASSUME NEW r \in Runners, ExtractExpired(r) PROVE DelayInv'
  BY <1>0, <1>5 DEF ExtractExpired
<1>6. ASSUME NEW r \in Runners, Fire(r) PROVE DelayInv'
  BY <1>0, <1>6 DEF Fire
<1>7. ASSUME NEW r \in Runners, EndCallback(r) PROVE DelayInv'
  <2>1. firing[r] \in Timer
    BY <1>0, <1>7 DEF EndCallback, InPhase
  <2> DEFINE again == [firing[r] EXCEPT !.expiration = cutoff[r] + firing[r].interval]
  <2>2. again.expiration - now <= IntMax /\ again.interval <= IntMax
    <3>1. firing[r].interval <= IntMax /\ cutoff[r] <= now
      BY <2>1, NoneIsNothing
    <3>. QED
      BY <1>0, <2>1, <3>1
  <2>3. /\ timers' \subseteq timers \cup {again}
        /\ firing' = [firing EXCEPT ![r] = None]
        /\ UNCHANGED <<now, cutoff, expired>>
    BY <1>7 DEF EndCallback, RepeatTimer
  <2> HIDE DEF again
  <2>. QED
    BY <1>0, <2>2, <2>3
<1>8. ASSUME NEW r \in Runners, EndTimers(r) PROVE DelayInv'
  BY <1>0, <1>8 DEF EndTimers
<1>9. CASE Tick
  <2>1. now' = now + 1 /\ UNCHANGED <<timers, cutoff, expired, firing>>
    BY <1>9 DEF Tick
  <2>. QED
    BY <1>0, <2>1
<1>10. ASSUME NEW t \in Threads,
             \/ Stop(t) \/ WakeUp(t) \/ EndInline(t)
             \/ \E k \in Tasks : QueueInLoop(t, k) \/ RunInLoop(t, k)
       PROVE  DelayInv'
  <2>1. UNCHANGED <<timers, now, cutoff, expired, firing>>
    BY <1>10 DEF Stop, WakeUp, EndInline, QueueInLoop, RunInLoop
  <2>. QED
    BY <1>1, <2>1
<1>11. ASSUME NEW r \in Runners,
              \/ Enter(r) \/ BeginLoop(r) \/ CheckRunning(r)
              \/ CalculateNextTimeout(r) \/ EpollWaitReturns(r)
              \/ DispatchEvent(r) \/ EndIo(r) \/ SwapTasks(r) \/ EndTask(r)
       PROVE  DelayInv'
  <2>1. UNCHANGED <<timers, now, cutoff, expired, firing>>
    BY <1>11 DEF Enter, BeginLoop, CheckRunning, CalculateNextTimeout,
                 EpollWaitReturns, DispatchEvent, EndIo, SwapTasks, EndTask
  <2>. QED
    BY <1>1, <2>1
<1>12. CASE UNCHANGED vars
  BY <1>1, <1>12
<1>. HIDE DEF DelayInv, vars
<1>. QED
  BY <1>0, <1>2, <1>3, <1>4, <1>5, <1>6, <1>7, <1>8, <1>9, <1>10, <1>11, <1>12,
     StepCases

LEMMA NoLateTimerStep ==
    ASSUME Inv, DelayInv, NoLateTimer, [Next]_vars,
           \A r, q \in Runners : r = q
    PROVE  NoLateTimer'
<1> USE RunnersAreThreads, DelaysAreNat, BoundsAreNat
<1> USE DEF NoLateTimer, TimedOut, vars, loopVars, timerVars, expiryVars
<1>0. /\ nextTimerId \in Nat /\ now \in Nat /\ timers \subseteq Timer
      /\ deadline \in [Runners -> Nat \cup {Forever}]
      /\ pc \in [Threads -> Phases]
  BY DEF Inv, TypeOK
\* Nothing on the heap is new, the eventfd is not drained, and a blocked runner
\* keeps its timeout.
<1>1. ASSUME timers' \subseteq timers, eventfd => eventfd',
             UNCHANGED <<now, deadline>>,
             \A r \in Runners : pc'[r] = "wait" => pc[r] = "wait"
      PROVE  NoLateTimer'
  BY <1>1
<1>2. ASSUME NEW t \in Threads, NEW d \in Delays, NEW repeat \in BOOLEAN,
             AddTimer(t, d, repeat)
      PROVE  NoLateTimer'
  BY <1>2 DEF AddTimer, Notify
<1>3. ASSUME NEW t \in Threads,
             \/ Stop(t) \/ WakeUp(t) \/ EndInline(t)
             \/ \E k \in Tasks : QueueInLoop(t, k) \/ RunInLoop(t, k)
             \/ \E id \in Nat : CancelTimer(t, id)
      PROVE  NoLateTimer'
  <2>1. timers' \subseteq timers /\ UNCHANGED <<now, deadline, pc>>
    BY <1>3 DEF Stop, WakeUp, EndInline, QueueInLoop, RunInLoop, CancelTimer
  <2>2. eventfd => eventfd'
    BY <1>3 DEF Stop, WakeUp, Notify, EndInline, QueueInLoop, RunInLoop, CancelTimer
  <2>. QED
    BY <1>1, <2>1, <2>2
<1>4. ASSUME NEW r \in Runners,
             \/ Enter(r) \/ BeginLoop(r) \/ CheckRunning(r)
             \/ EpollWaitReturns(r) \/ DispatchEvent(r) \/ EndIo(r)
             \/ ReadClock(r) \/ ExtractExpired(r) \/ Fire(r) \/ EndCallback(r)
             \/ EndTimers(r) \/ SwapTasks(r) \/ EndTask(r)
      PROVE  NoLateTimer'
  \* The only runner is not blocked after any of its other steps.
  <2>1. pc'[r] # "wait"
    <3>1. CASE Enter(r) \/ BeginLoop(r) \/ CheckRunning(r) \/ EpollWaitReturns(r)
      BY <1>0, <3>1 DEF Enter, BeginLoop, CheckRunning, EpollWaitReturns, Goto, InPhase
    <3>2. CASE DispatchEvent(r) \/ EndIo(r) \/ ReadClock(r) \/ ExtractExpired(r)
      BY <1>0, <3>2 DEF DispatchEvent, EndIo, ReadClock, ExtractExpired, Goto, InPhase
    <3>3. CASE \/ Fire(r) \/ EndCallback(r) \/ EndTimers(r) \/ SwapTasks(r)
               \/ EndTask(r)
      BY <1>0, <3>3 DEF Fire, EndCallback, EndTimers, SwapTasks, EndTask, Goto, InPhase
    <3>. QED
      BY <1>4, <3>1, <3>2, <3>3
  <2>. QED
    BY <2>1
<1>5. ASSUME NEW r \in Runners, CalculateNextTimeout(r) PROVE NoLateTimer'
  <2>1. UNCHANGED <<timers, now>>
    BY <1>5 DEF CalculateNextTimeout
  <2>2. ASSUME NEW tm \in timers, EarliestOf(tm, timers), WaitUntil(r, Timeout(tm)),
               NEW other \in timers
        PROVE  /\ deadline'[r] # Forever
               /\ deadline'[r] <= other.expiration \/ deadline'[r] <= now
    <3>1. tm.expiration \in Nat /\ tm.expiration <= other.expiration
      BY <1>0, <2>2 DEF EarliestOf, Timer
    <3>2. tm.expiration - now <= IntMax
      BY DEF DelayInv
    <3>3. CASE tm.expiration <= now
      <4>1. Timeout(tm) = 0
        BY <3>3 DEF Timeout
      <4>2. deadline'[r] = now + 0
        BY <1>0, <2>2, <4>1 DEF WaitUntil
      <4>. QED
        BY <1>0, <4>2
    <3>4. CASE ~(tm.expiration <= now)
      <4>1. tm.expiration - now \in 0 .. IntMax
        BY <1>0, <3>1, <3>2, <3>4
      <4>2. Timeout(tm) = tm.expiration - now
        BY <3>4, <4>1, ToIntIdentity DEF Timeout
      <4>3. deadline'[r] = now + (tm.expiration - now)
        BY <1>0, <2>2, <4>1, <4>2 DEF WaitUntil
      <4>. QED
        BY <1>0, <3>1, <4>3
    <3>. QED
      BY <3>3, <3>4
  <2>. QED
    BY <1>5, <2>1, <2>2 DEF CalculateNextTimeout
<1>6. CASE Tick
  <2>1. now' = now + 1 /\ UNCHANGED <<timers, deadline, eventfd, pc>>
    BY <1>6 DEF Tick
  <2>2. \A r \in Runners : TimedOut(r) => TimedOut(r)'
    BY <1>0, <2>1
  <2>. QED
    BY <2>1, <2>2
<1>7. CASE UNCHANGED vars
  BY <1>7
<1>. HIDE DEF NoLateTimer, vars
<1>. QED
  BY <1>0, <1>2, <1>3, <1>4, <1>5, <1>6, <1>7, StepCases

\* With one thread that runs the loop and delays an int can hold, the loop
\* never blocks past the expiration of a timer on the heap, whoever adds it
\* and whenever.
THEOREM NoLateTimerTheorem ==
    ASSUME \A r, q \in Runners : r = q, \A d \in Delays : d <= IntMax
    PROVE  Spec => []NoLateTimer
<1>1. Init => DelayInv /\ NoLateTimer
  BY RunnersAreThreads DEF Init, DelayInv, NoLateTimer
<1>2. Inv /\ DelayInv /\ [Next]_vars => DelayInv'
  BY DelayInvStep
<1>3. Inv /\ DelayInv /\ NoLateTimer /\ [Next]_vars => NoLateTimer'
  BY NoLateTimerStep
<1>. QED
  BY InvTheorem, <1>1, <1>2, <1>3, PTL DEF Spec

-----------------------------------------------------------------------------
(* Timers are neither lost nor duplicated. *)

\* The timers that are off the heap for a while, in the hands of a runner.
Held(r) == (expired[r] \cup {firing[r]}) \ {None}

Ids == 1 .. nextTimerId - 1

\* A runner has timers in its hands only between taking them and the end of the
\* last callback, and the one that fires is not one of those still to fire.
HandsInv ==
    \A r \in Runners :
        /\ pc[r] \notin {"fire", "callback"} => expired[r] = {}
        /\ pc[r] # "callback" => firing[r] = None
        /\ firing[r] \notin expired[r]

\* Each id is in one place, for any number of runners.
Everywhere ==
    \A id \in Ids : \/ id \in retired
                    \/ \E tm \in timers : tm.id = id
                    \/ \E r \in Runners : \E tm \in Held(r) : tm.id = id

RetiredInv == nextTimerId >= 1 /\ retired \subseteq Ids

HeapInv ==
    /\ \A tm \in timers : tm.id \in Ids /\ tm.id \notin retired
    /\ \A a, b \in timers : a.id = b.id => a = b

HeldInv ==
    /\ \A r \in Runners : \A tm \in Held(r) :
           /\ tm.id \in Ids /\ tm.id \notin retired
           /\ \A other \in timers : other.id # tm.id
    /\ \A r, q \in Runners : \A a \in Held(r), b \in Held(q) :
           a.id = b.id => a = b /\ r = q

PlaceInv == Everywhere /\ RetiredInv /\ HeapInv /\ HeldInv

LEMMA InitHands == Init => HandsInv /\ PlaceInv
<1>. SUFFICES ASSUME Init PROVE HandsInv /\ PlaceInv
  OBVIOUS
<1>1. HandsInv
  BY RunnersAreThreads DEF Init, HandsInv
<1>2. Ids = {} /\ timers = {} /\ retired = {} /\ nextTimerId >= 1
  BY DEF Init, Ids
<1>3. \A r \in Runners : Held(r) = {}
  BY DEF Init, Held
<1>. QED
  BY <1>1, <1>2, <1>3 DEF Everywhere, RetiredInv, HeapInv, HeldInv, PlaceInv

LEMMA HandsInvStep ==
    ASSUME Inv, HandsInv, [Next]_vars
    PROVE  HandsInv'
<1> USE RunnersAreThreads, NoneIsNothing
<1> USE DEF HandsInv, vars, loopVars, timerVars, expiryVars
<1>0. /\ pc \in [Threads -> Phases] /\ nextTimerId \in Nat
      /\ expired \in [Runners -> SUBSET Timer] /\ firing \in [Runners -> Timer \cup {None}]
      /\ timers \subseteq Timer
  BY DEF Inv, TypeOK
<1>1. ASSUME NEW t \in Threads, Stop(t) PROVE HandsInv'
  BY <1>1 DEF Stop
<1>2. ASSUME NEW t \in Threads, NEW k \in Tasks, QueueInLoop(t, k) \/ RunInLoop(t, k)
      PROVE  HandsInv'
  BY <1>2 DEF QueueInLoop, RunInLoop
<1>3. ASSUME NEW t \in Threads, NEW d \in Delays, NEW repeat \in BOOLEAN,
             AddTimer(t, d, repeat)
      PROVE  HandsInv'
  BY <1>3 DEF AddTimer
<1>4. ASSUME NEW t \in Threads, NEW id \in Nat, CancelTimer(t, id) PROVE HandsInv'
  BY <1>4 DEF CancelTimer
<1>5. ASSUME NEW t \in Threads, WakeUp(t) \/ EndInline(t) PROVE HandsInv'
  BY <1>5 DEF WakeUp, EndInline
<1>6. ASSUME NEW r \in Runners,
             \/ Enter(r) \/ BeginLoop(r) \/ CheckRunning(r)
             \/ CalculateNextTimeout(r) \/ EpollWaitReturns(r)
      PROVE  HandsInv'
  BY <1>0, <1>6 DEF Enter, BeginLoop, CheckRunning, CalculateNextTimeout,
                    EpollWaitReturns, InPhase, Goto
<1>7. ASSUME NEW r \in Runners,
             \/ DispatchEvent(r) \/ EndIo(r) \/ ReadClock(r)
             \/ EndTimers(r) \/ SwapTasks(r) \/ EndTask(r)
      PROVE  HandsInv'
  BY <1>0, <1>7 DEF DispatchEvent, EndIo, ReadClock, EndTimers, SwapTasks, EndTask,
                    InPhase, Goto
<1>8. ASSUME NEW r \in Runners, ExtractExpired(r) PROVE HandsInv'
  BY <1>0, <1>8 DEF ExtractExpired, InPhase, Goto
<1>9. ASSUME NEW r \in Runners, Fire(r) PROVE HandsInv'
  BY <1>0, <1>9 DEF Fire, InPhase, Goto
<1>10. ASSUME NEW r \in Runners, EndCallback(r) PROVE HandsInv'
  BY <1>0, <1>10 DEF EndCallback, InPhase, Goto
<1>11. CASE Tick \/ UNCHANGED vars
  BY <1>11 DEF Tick
<1>. HIDE DEF HandsInv, vars
<1>. QED
  BY <1>0, <1>1, <1>2, <1>3, <1>4, <1>5, <1>6, <1>7, <1>8, <1>9, <1>10, <1>11, StepCases

LEMMA PlaceInvStep ==
    ASSUME Inv, HandsInv, PlaceInv, [Next]_vars
    PROVE  PlaceInv'
<1> USE RunnersAreThreads, NoneIsNothing
<1>0. /\ pc \in [Threads -> Phases] /\ nextTimerId \in Nat
      /\ expired \in [Runners -> SUBSET Timer] /\ firing \in [Runners -> Timer \cup {None}]
      /\ timers \subseteq Timer
      /\ \A r \in Runners : pc[r] = "callback" => firing[r] \in Timer
  BY DEF Inv, TypeOK, PhaseInv
<1>1. ASSUME UNCHANGED <<timers, nextTimerId, retired>>,
             \A r \in Runners : Held(r)' = Held(r)
      PROVE  PlaceInv'
  BY <1>1 DEF Everywhere, RetiredInv, HeapInv, HeldInv, PlaceInv, Ids
<1>2. ASSUME UNCHANGED <<timerVars, expired, firing>> PROVE PlaceInv'
  BY <1>1, <1>2 DEF timerVars, Held
<1>3. ASSUME NEW t \in Threads, NEW d \in Delays, NEW repeat \in BOOLEAN,
             AddTimer(t, d, repeat)
      PROVE  PlaceInv'
  <2>1. PICK tm : /\ tm.id = nextTimerId /\ timers' = timers \cup {tm}
                  /\ nextTimerId' = nextTimerId + 1
                  /\ UNCHANGED <<expired, firing, retired>>
    BY <1>3 DEF AddTimer, expiryVars
  <2>2. \A r \in Runners : Held(r)' = Held(r)
    BY <2>1 DEF Held
  <2>3. nextTimerId \notin Ids /\ Ids' = Ids \cup {nextTimerId}
    BY <1>0, <2>1 DEF Ids, PlaceInv, RetiredInv
  <2>4. nextTimerId' >= 1
    BY <1>0, <2>1 DEF PlaceInv, RetiredInv
  <2>. QED
    BY <2>1, <2>2, <2>3, <2>4 DEF Everywhere, RetiredInv, HeapInv, HeldInv, PlaceInv
<1>4. ASSUME NEW t \in Threads, NEW id \in Nat, CancelTimer(t, id) PROVE PlaceInv'
  <2>1. /\ timers' = {tm \in timers : tm.id # id}
        /\ retired' = retired \cup {tm.id : tm \in timers \ timers'}
        /\ UNCHANGED <<nextTimerId, expired, firing>>
    BY <1>4 DEF CancelTimer, expiryVars
  <2>2. \A r \in Runners : Held(r)' = Held(r)
    BY <2>1 DEF Held
  <2>3. Ids' = Ids
    BY <2>1 DEF Ids
  <2>4. \A i \in retired' : \/ i \in retired
                          \/ \E tm \in timers : tm.id = i /\ tm \notin timers' /\ i = id
    BY <2>1
  <2>5. \A tm \in timers : tm \in timers' \/ tm.id \in retired'
    BY <2>1
  <2>6. Everywhere'
    BY <2>1, <2>2, <2>3, <2>5 DEF PlaceInv, Everywhere
  <2>7. RetiredInv'
    BY <2>1, <2>3, <2>4 DEF PlaceInv, RetiredInv, HeapInv
  <2>8. HeapInv'
    BY <2>1, <2>3, <2>4 DEF PlaceInv, HeapInv
  <2>9. HeldInv'
    BY <2>1, <2>2, <2>3, <2>4 DEF PlaceInv, HeapInv, HeldInv
  <2>. QED
    BY <2>6, <2>7, <2>8, <2>9 DEF PlaceInv
<1>5. ASSUME NEW r \in Runners, ExtractExpired(r) PROVE PlaceInv'
  <2>1. PICK due \in SUBSET timers : /\ expired' = [expired EXCEPT ![r] = due]
                                    /\ timers' = timers \ due
    BY <1>5 DEF ExtractExpired
  <2>2. /\ UNCHANGED <<nextTimerId, retired, firing>>
        /\ expired[r] = {} /\ firing[r] = None
    BY <1>5 DEF ExtractExpired, InPhase, HandsInv
  <2>3. /\ Held(r)' = due /\ Held(r) = {}
        /\ \A q \in Runners : q # r => Held(q)' = Held(q)
    BY <1>0, <2>1, <2>2 DEF Held
  <2>4. Ids' = Ids
    BY <2>2 DEF Ids
  <2>5. Everywhere'
    BY <2>1, <2>2, <2>3, <2>4 DEF PlaceInv, Everywhere
  <2>6. RetiredInv' /\ HeapInv'
    BY <2>1, <2>2, <2>4 DEF PlaceInv, RetiredInv, HeapInv
  <2>7. HeldInv'
    BY <2>1, <2>2, <2>3, <2>4 DEF PlaceInv, HeapInv, HeldInv
  <2>. QED
    BY <2>5, <2>6, <2>7 DEF PlaceInv
<1>6. ASSUME NEW r \in Runners, Fire(r) PROVE PlaceInv'
  <2>1. PICK tm \in expired[r] : /\ firing' = [firing EXCEPT ![r] = tm]
                                 /\ expired' = [expired EXCEPT ![r] = @ \ {tm}]
    BY <1>6 DEF Fire
  <2>2. firing[r] = None /\ UNCHANGED <<timers, nextTimerId, retired>>
    BY <1>6 DEF Fire, InPhase, HandsInv, timerVars
  <2>3. \A q \in Runners : Held(q)' = Held(q)
    BY <1>0, <2>1, <2>2 DEF Held
  <2>. QED
    BY <1>1, <2>2, <2>3
<1>7. ASSUME NEW r \in Runners, EndCallback(r) PROVE PlaceInv'
  <2>. DEFINE done == firing[r]
  <2>1. done \in Timer /\ firing' = [firing EXCEPT ![r] = None]
        /\ UNCHANGED <<nextTimerId, expired>> /\ done \notin expired[r]
    BY <1>0, <1>7 DEF EndCallback, InPhase, HandsInv
  <2>2. /\ done \in Held(r) /\ Held(r)' = Held(r) \ {done}
        /\ \A q \in Runners : q # r => Held(q)' = Held(q)
    BY <1>0, <2>1 DEF Held
  <2>3. Ids' = Ids
    BY <2>1 DEF Ids
  <2>4. CASE done.repeated
    <3>1. PICK again : again.id = done.id /\ timers' = timers \cup {again}
      BY <1>7, <2>1, <2>4 DEF EndCallback, RepeatTimer, Timer
    <3>2. retired' = retired
      BY <1>7, <2>4 DEF EndCallback
    <3>. HIDE DEF done
    <3>3. Everywhere'
      BY <2>2, <2>3, <3>1, <3>2 DEF PlaceInv, Everywhere
    <3>4. RetiredInv' /\ HeapInv'
      BY <2>1, <2>2, <2>3, <3>1, <3>2 DEF PlaceInv, RetiredInv, HeapInv, HeldInv
    <3>5. HeldInv'
      BY <2>2, <2>3, <3>1, <3>2 DEF PlaceInv, HeldInv
    <3>. QED
      BY <3>3, <3>4, <3>5 DEF PlaceInv
  <2>5. CASE ~done.repeated
    <3>1. retired' = retired \cup {done.id} /\ timers' = timers
      BY <1>7, <2>5 DEF EndCallback
    <3>. HIDE DEF done
    <3>2. Everywhere'
      BY <2>2, <2>3, <3>1 DEF PlaceInv, Everywhere
    <3>3. RetiredInv' /\ HeapInv'
      BY <2>1, <2>2, <2>3, <3>1 DEF PlaceInv, RetiredInv, HeapInv, HeldInv
    <3>4. HeldInv'
      BY <2>2, <2>3, <3>1 DEF PlaceInv, HeldInv
    <3>. QED
      BY <3>2, <3>3, <3>4 DEF PlaceInv
  <2>. QED
    BY <2>4, <2>5
<1>8. ASSUME NEW t \in Threads, NEW k \in Tasks, QueueInLoop(t, k) \/ RunInLoop(t, k)
      PROVE  PlaceInv'
  BY <1>2, <1>8 DEF QueueInLoop, RunInLoop, expiryVars
<1>9. ASSUME NEW t \in Threads, Stop(t) \/ WakeUp(t) \/ EndInline(t) PROVE PlaceInv'
  BY <1>2, <1>9 DEF Stop, WakeUp, EndInline, expiryVars
<1>10. ASSUME NEW r \in Runners,
              \/ Enter(r) \/ BeginLoop(r) \/ CheckRunning(r)
              \/ CalculateNextTimeout(r) \/ EpollWaitReturns(r) \/ DispatchEvent(r)
              \/ EndIo(r) \/ ReadClock(r) \/ EndTimers(r) \/ SwapTasks(r) \/ EndTask(r)
       PROVE  PlaceInv'
  BY <1>2, <1>10 DEF Enter, BeginLoop, CheckRunning, CalculateNextTimeout,
                     EpollWaitReturns, DispatchEvent, EndIo, ReadClock, EndTimers,
                     SwapTasks, EndTask, expiryVars
<1>11. CASE Tick \/ UNCHANGED vars
  BY <1>2, <1>11 DEF Tick, vars, expiryVars
<1>. QED
  BY <1>0, <1>3, <1>4, <1>5, <1>6, <1>7, <1>8, <1>9, <1>10, <1>11, StepCases

\* No timer is lost or duplicated, whatever is created, cancelled and fired, and
\* even if several threads run the loop.
THEOREM TimerConservationTheorem == Spec => []TimerConservation
<1>1. Init => HandsInv /\ PlaceInv
  BY InitHands
<1>2. Inv /\ HandsInv /\ PlaceInv => TimerConservation
  <2>. SUFFICES ASSUME Inv, HandsInv, PlaceInv PROVE TimerConservation
    OBVIOUS
  <2>1. /\ expired \in [Runners -> SUBSET Timer] /\ firing \in [Runners -> Timer \cup {None}]
        /\ None \notin Timer
    BY NoneIsNothing DEF Inv, TypeOK
  <2>2. \A r \in Runners : Located(r) = {tm.id : tm \in Held(r)}
    BY <2>1 DEF Located, Held
  <2>3. \A r \in Runners : firing[r] # None => firing[r].id \notin {tm.id : tm \in expired[r]}
    <3>. SUFFICES ASSUME NEW r \in Runners, firing[r] # None,
                         NEW tm \in expired[r], tm.id = firing[r].id
                  PROVE  FALSE
      OBVIOUS
    <3>1. firing[r] \in Held(r) /\ tm \in Held(r)
      BY <2>1 DEF Held
    <3>. QED
      BY <3>1 DEF PlaceInv, HeldInv, HandsInv
  <2>4. Ids = retired \cup {tm.id : tm \in timers} \cup UNION {Located(r) : r \in Runners}
    BY <2>2 DEF Everywhere, RetiredInv, HeapInv, HeldInv, PlaceInv
  <2>5. \A r \in Runners : Located(r) \cap (retired \cup {tm.id : tm \in timers}) = {}
    BY <2>2 DEF Everywhere, RetiredInv, HeapInv, HeldInv, PlaceInv
  <2>. QED
    BY <2>3, <2>4, <2>5 DEF TimerConservation, PlaceInv, HeapInv, Ids
<1>3. Inv /\ HandsInv /\ [Next]_vars => HandsInv'
  BY HandsInvStep
<1>4. Inv /\ HandsInv /\ PlaceInv /\ [Next]_vars => PlaceInv'
  BY PlaceInvStep
<1>. QED
  BY InvTheorem, <1>1, <1>2, <1>3, <1>4, PTL DEF Spec

-----------------------------------------------------------------------------
(* The heap and the expired timers implement TimerService. *)

\* The clock ProcessExpiredTimers read separates the timers it took, which were
\* due then, from those on the heap: AddTimer, and the repetition of a timer whose
\* callback returned, put a timer on the heap that is due later, or at once.
OrderInv ==
    \A r \in Runners :
        /\ cutoff[r] <= now
        /\ pc[r] \in {"fire", "callback"} =>
              /\ \A tm \in Held(r) : tm.expiration <= cutoff[r]
              /\ \A tm \in timers : cutoff[r] <= tm.expiration

LEMMA OrderInvStep ==
    ASSUME NEW r, Runners = {r}, Inv, HandsInv, OrderInv, [Next]_vars
    PROVE  OrderInv'
<1> USE RunnersAreThreads, NoneIsNothing
<1>0. /\ pc \in [Threads -> Phases] /\ nextTimerId \in Nat /\ now \in Nat
      /\ r \in Runners /\ r \in Threads /\ cutoff \in [Runners -> Nat]
      /\ expired \in [Runners -> SUBSET Timer] /\ firing \in [Runners -> Timer \cup {None}]
      /\ timers \subseteq Timer
      /\ \A tm \in Timer : tm.expiration \in Nat /\ tm.interval \in Nat
  BY DEF Inv, TypeOK, Timer
<1>1. ASSUME UNCHANGED <<cutoff, now, pc>>, Held(r)' = Held(r),
             \A tm \in timers' \ timers : cutoff[r] <= tm.expiration
      PROVE  OrderInv'
  BY <1>0, <1>1 DEF OrderInv
<1>2. ASSUME NEW t \in Threads, NEW d \in Delays, NEW repeat \in BOOLEAN,
             AddTimer(t, d, repeat)
      PROVE  OrderInv'
  <2>1. PICK tm : tm.expiration = now + d /\ timers' = timers \cup {tm}
    BY <1>2 DEF AddTimer, Expiration
  <2>2. UNCHANGED <<cutoff, now, pc, expired, firing>>
    BY <1>2 DEF AddTimer, expiryVars
  <2>3. d \in Nat /\ cutoff[r] <= now /\ cutoff[r] \in Nat
    BY <1>0, DelaysAreNat DEF OrderInv
  <2>4. cutoff[r] <= now + d
    BY <1>0, <2>3
  <2>5. Held(r)' = Held(r)
    BY <2>2 DEF Held
  <2>. QED
    BY <1>1, <2>1, <2>2, <2>4, <2>5
<1>3. ASSUME NEW t \in Threads, NEW id \in Nat, CancelTimer(t, id)
      PROVE  OrderInv'
  BY <1>1, <1>3 DEF CancelTimer, expiryVars, Held
<1>4. ASSUME NEW t \in Threads,
             \/ Stop(t) \/ WakeUp(t) \/ EndInline(t)
             \/ \E k \in Tasks : QueueInLoop(t, k) \/ RunInLoop(t, k)
      PROVE  OrderInv'
  <2>1. UNCHANGED <<timers, now, pc, cutoff, expired, firing>>
    BY <1>4 DEF Stop, WakeUp, EndInline, QueueInLoop, RunInLoop, expiryVars, timerVars
  <2>. QED
    BY <1>1, <2>1 DEF Held
<1>5. ASSUME \/ Enter(r) \/ BeginLoop(r) \/ CheckRunning(r)
             \/ CalculateNextTimeout(r) \/ EpollWaitReturns(r)
             \/ DispatchEvent(r) \/ EndIo(r) \/ SwapTasks(r) \/ EndTask(r)
      PROVE  OrderInv'
  <2>1. UNCHANGED <<now, cutoff>>
    BY <1>5 DEF Enter, BeginLoop, CheckRunning, CalculateNextTimeout,
                EpollWaitReturns, DispatchEvent, EndIo, SwapTasks, EndTask, expiryVars
  <2>2. pc'[r] \notin {"fire", "callback"}
    BY <1>0, <1>5 DEF Enter, BeginLoop, CheckRunning, CalculateNextTimeout,
                EpollWaitReturns, DispatchEvent, EndIo, SwapTasks, EndTask, InPhase, Goto
  <2>. QED
    BY <1>0, <2>1, <2>2 DEF OrderInv
<1>6. ASSUME ReadClock(r) \/ EndTimers(r) PROVE OrderInv'
  <2>1. now' = now /\ cutoff'[r] \in {0, now}
    BY <1>0, <1>6 DEF ReadClock, EndTimers
  <2>2. pc'[r] \notin {"fire", "callback"}
    BY <1>0, <1>6 DEF ReadClock, EndTimers, Goto
  <2>3. cutoff'[r] <= now'
    BY <1>0, <2>1
  <2>. QED
    BY <2>2, <2>3 DEF OrderInv
<1>7. ASSUME ExtractExpired(r) PROVE OrderInv'
  <2>1. /\ expired'[r] = {tm \in timers : tm.expiration <= cutoff[r]}
        /\ timers' = timers \ {tm \in timers : tm.expiration <= cutoff[r]}
        /\ UNCHANGED <<now, cutoff, firing>> /\ firing[r] = None
    BY <1>0, <1>7 DEF ExtractExpired, InPhase, HandsInv
  <2>2. \A tm \in Held(r)' : tm \in timers /\ tm.expiration <= cutoff[r]
    BY <2>1 DEF Held
  <2>3. \A tm \in timers' : cutoff[r] <= tm.expiration
    BY <1>0, <2>1
  <2>. QED
    BY <2>1, <2>2, <2>3 DEF OrderInv
<1>8. ASSUME Fire(r) PROVE OrderInv'
  <2>1. PICK tm \in expired[r] : /\ firing' = [firing EXCEPT ![r] = tm]
                                 /\ expired' = [expired EXCEPT ![r] = @ \ {tm}]
    BY <1>8 DEF Fire
  <2>2. UNCHANGED <<timers, now, cutoff>> /\ pc[r] = "fire" /\ firing[r] = None
    BY <1>8 DEF Fire, InPhase, HandsInv, timerVars
  <2>3. Held(r)' = Held(r)
    BY <1>0, <2>1, <2>2 DEF Held
  <2>. QED
    BY <2>2, <2>3 DEF OrderInv
<1>9. ASSUME EndCallback(r) PROVE OrderInv'
  <2>1. firing[r] \in Timer /\ pc[r] = "callback"
    BY <1>0, <1>9 DEF EndCallback, InPhase, Inv, PhaseInv
  <2>2. /\ firing' = [firing EXCEPT ![r] = None]
        /\ UNCHANGED <<now, cutoff, expired>>
    BY <1>9 DEF EndCallback
  <2>3. Held(r)' \subseteq Held(r)
    BY <1>0, <2>2 DEF Held
  <2>4. \A tm \in timers' \ timers : cutoff[r] <= tm.expiration
    <3>1. cutoff[r] <= cutoff[r] + firing[r].interval
      BY <1>0, <2>1
    <3>2. [firing[r] EXCEPT !.expiration = cutoff[r] + firing[r].interval].expiration
              = cutoff[r] + firing[r].interval
      BY <2>1 DEF Timer
    <3>. QED
      BY <1>9, <3>1, <3>2 DEF EndCallback, RepeatTimer
  <2>5. \A tm \in timers' : cutoff[r] <= tm.expiration
    BY <1>0, <2>1, <2>4 DEF OrderInv
  <2>6. \A tm \in Held(r)' : tm.expiration <= cutoff[r]
    BY <1>0, <2>1, <2>3 DEF OrderInv
  <2>. QED
    BY <2>2, <2>5, <2>6 DEF OrderInv
<1>10. CASE Tick
  <2>1. now' = now + 1 /\ UNCHANGED <<timers, pc, cutoff, expired, firing>>
    BY <1>10 DEF Tick, timerVars, expiryVars
  <2>2. cutoff[r] \in Nat /\ cutoff[r] <= now
    BY <1>0 DEF OrderInv
  <2>3. cutoff[r] <= now + 1
    BY <1>0, <2>2
  <2>. QED
    BY <2>1, <2>3 DEF OrderInv, Held
<1>11. CASE UNCHANGED vars
  BY <1>1, <1>11 DEF vars, expiryVars, timerVars, Held
<1>. QED
  BY <1>0, <1>2, <1>3, <1>4, <1>5, <1>6, <1>7, <1>8, <1>9, <1>10, <1>11, StepCases

\* What TimerService sees of the state, with the runner r.
TimerView(r) == <<now, timers \cup expired[r], firing[r], nextTimerId>>

\* A cancelled timer was on the heap: of the same id only a timer that expired can
\* be left, which the runner holds already.
LEMMA CancelImplementsCancel ==
    ASSUME NEW r, Runners = {r}, Inv, HandsInv, PlaceInv, OrderInv,
           NEW t \in Threads, NEW id \in Nat, CancelTimer(t, id)
    PROVE  \/ \E i \in 1 .. nextTimerId - 1 : Timers!Cancel(i)
           \/ UNCHANGED TimerView(r)
<1>0. /\ r \in Runners /\ LoopThread = r
      /\ expired \in [Runners -> SUBSET Timer] /\ firing \in [Runners -> Timer \cup {None}]
      /\ timers \subseteq Timer /\ None \notin Timer
      /\ now \in Nat /\ cutoff[r] \in Nat
      /\ \A tm \in Timer : tm.expiration \in Nat
  BY NoneIsNothing DEF LoopThread, Inv, TypeOK, Timer
<1>1. /\ timers' = {tm \in timers : tm.id # id}
      /\ UNCHANGED <<now, nextTimerId, expired, firing>>
  BY DEF CancelTimer, expiryVars
<1>2. \A tm \in expired[r] : /\ tm \in Held(r) /\ tm \in Timer
                             /\ tm.id \in Ids /\ tm.expiration <= now
  <2>1. \A tm \in expired[r] : tm \in Held(r) /\ tm \in Timer
    BY <1>0 DEF Held
  <2>2. \A tm \in expired[r] : tm.expiration <= cutoff[r] /\ cutoff[r] <= now
    BY <1>0, <2>1 DEF HandsInv, OrderInv
  <2>3. \A tm \in expired[r] : tm.expiration <= now
    BY <1>0, <2>1, <2>2
  <2>. QED
    BY <1>0, <2>1, <2>3 DEF PlaceInv, HeldInv
<1>3. CASE \A tm \in timers : tm.id # id
  BY <1>0, <1>1, <1>3 DEF TimerView
<1>4. CASE \E tm \in timers : tm.id = id
  <2>. DEFINE waiting == timers \cup expired[r]
              given == {tm \in timers : tm.id = id}
  <2>1. id \in 1 .. nextTimerId - 1
    BY <1>4 DEF PlaceInv, HeapInv, Ids
  <2>2. given \in SUBSET {tm \in waiting : tm.id = id}
    OBVIOUS
  <2>3. given \cap expired[r] = {}
    BY <1>0, <1>2 DEF PlaceInv, HeldInv
  <2>4. timers' \cup expired'[r] = waiting \ given
    BY <1>1, <2>3
  <2>5. \A tm \in timers' \cup expired'[r] : tm.id = id => tm.expiration <= now
    BY <1>1, <1>2
  <2>6. Timers!Cancel(id)
    BY <1>0, <1>1, <2>2, <2>4, <2>5 DEF Timers!Cancel
  <2>. QED
    BY <2>1, <2>6
<1>. QED
  BY <1>3, <1>4

\* The timer that fires is the first to expire of all that wait.
LEMMA FireImplementsStart ==
    ASSUME NEW r, Runners = {r}, Inv, HandsInv, PlaceInv, OrderInv, Fire(r)
    PROVE  \E tm \in timers \cup expired[r] : Timers!Start(tm)
<1>0. /\ r \in Runners /\ LoopThread = r
      /\ expired \in [Runners -> SUBSET Timer] /\ firing \in [Runners -> Timer \cup {None}]
      /\ timers \subseteq Timer /\ None \notin Timer
      /\ now \in Nat /\ cutoff[r] \in Nat
      /\ \A tm \in Timer : tm.expiration \in Nat
  BY NoneIsNothing DEF LoopThread, Inv, TypeOK, Timer
<1>1. PICK tm \in expired[r] : /\ EarliestOf(tm, expired[r])
                               /\ firing' = [firing EXCEPT ![r] = tm]
                               /\ expired' = [expired EXCEPT ![r] = @ \ {tm}]
  BY DEF Fire
<1>2. /\ UNCHANGED <<timers, now, nextTimerId>>
      /\ pc[r] = "fire" /\ firing[r] = None
  BY <1>0 DEF Fire, InPhase, HandsInv, timerVars
<1>3. tm \in Held(r) /\ tm \in Timer
  BY <1>0, <1>1 DEF Held
<1>4. tm.expiration <= cutoff[r] /\ cutoff[r] <= now
  BY <1>0, <1>2, <1>3 DEF OrderInv
<1>5. \A other \in timers \cup expired[r] : tm.expiration <= other.expiration
  <2>1. \A other \in timers : cutoff[r] <= other.expiration /\ other.expiration \in Nat
    BY <1>0, <1>2 DEF OrderInv
  <2>2. \A other \in timers : tm.expiration <= other.expiration
    BY <1>0, <1>3, <1>4, <2>1
  <2>. QED
    BY <1>1, <2>2 DEF EarliestOf
<1>6. tm.expiration <= now
  BY <1>0, <1>3, <1>4
<1>7. tm \notin timers
  BY <1>0, <1>3 DEF PlaceInv, HeldInv
<1>8. timers' \cup expired'[r] = (timers \cup expired[r]) \ {tm}
  BY <1>0, <1>1, <1>2, <1>7
<1>9. firing'[r] = tm
  BY <1>0, <1>1
<1>10. Timers!Start(tm)
  BY <1>0, <1>2, <1>5, <1>6, <1>8, <1>9 DEF Timers!Start
<1>. QED
  BY <1>1, <1>10

\* A repeated timer is due again one interval after the clock that
\* ProcessExpiredTimers read, which is not ahead and not before the timer expired.
LEMMA EndCallbackImplementsEnd ==
    ASSUME NEW r, Runners = {r}, Inv, HandsInv, OrderInv, EndCallback(r)
    PROVE  Timers!End
<1>. DEFINE done == firing[r]
            due == cutoff[r] + done.interval
<1>0. /\ r \in Runners /\ LoopThread = r
      /\ firing \in [Runners -> Timer \cup {None}]
      /\ None \notin Timer /\ now \in Nat /\ cutoff[r] \in Nat
      /\ done \in Timer /\ pc[r] = "callback"
  BY NoneIsNothing DEF LoopThread, Inv, TypeOK, PhaseInv, EndCallback, InPhase
<1>1. done.expiration \in Nat /\ done.interval \in Nat /\ done.repeated \in BOOLEAN
  BY <1>0 DEF Timer
<1>2. done.expiration <= cutoff[r] /\ cutoff[r] <= now
  BY <1>0 DEF OrderInv, Held
<1>3. due \in done.expiration + done.interval .. now + done.interval
  BY <1>0, <1>1, <1>2
<1>4. firing'[r] = None /\ UNCHANGED <<now, nextTimerId, expired>>
  BY <1>0 DEF EndCallback
<1>5. \/ ~done.repeated /\ timers' = timers
      \/ done.repeated /\ timers' = timers \cup {[done EXCEPT !.expiration = due]}
  BY <1>0 DEF EndCallback, RepeatTimer
<1>. HIDE DEF due
<1>6. CASE ~done.repeated
  BY <1>0, <1>4, <1>5, <1>6 DEF Timers!End
<1>7. CASE done.repeated
  <2>1. timers' \cup expired'[r]
            = (timers \cup expired[r]) \cup {[done EXCEPT !.expiration = due]}
    BY <1>4, <1>5, <1>7
  <2>. QED
    BY <1>0, <1>3, <1>4, <1>7, <2>1 DEF Timers!End
<1>. QED
  BY <1>6, <1>7

LEMMA TimerStep ==
    ASSUME NEW r, Runners = {r}, Inv, HandsInv, PlaceInv, OrderInv, [Next]_vars
    PROVE  [Timers!Next]_(TimerView(r))
<1>0. r \in Runners /\ LoopThread = r /\ nextTimerId \in Nat
  BY DEF LoopThread, Inv, TypeOK
<1>1. ASSUME NEW t \in Threads, NEW d \in Delays, NEW repeat \in BOOLEAN,
             AddTimer(t, d, repeat)
      PROVE  Timers!Next
  <2>. DEFINE new == [id |-> nextTimerId, expiration |-> now + d,
                      interval |-> IF repeat THEN d ELSE 0, repeated |-> repeat]
  <2>1. /\ timers' = timers \cup {new} /\ nextTimerId' = nextTimerId + 1
        /\ UNCHANGED <<now, expired, firing>>
    BY <1>1 DEF AddTimer, Expiration, expiryVars
  <2>2. timers' \cup expired'[r] = (timers \cup expired[r]) \cup {new}
    BY <2>1
  <2>3. Timers!Add(d, repeat)
    BY <1>0, <2>1, <2>2 DEF Timers!Add
  <2>. QED
    BY <2>3 DEF Timers!Next
<1>2. ASSUME NEW t \in Threads, NEW id \in Nat, CancelTimer(t, id)
      PROVE  Timers!Next \/ UNCHANGED TimerView(r)
  BY <1>2, CancelImplementsCancel DEF Timers!Next
<1>3. ASSUME Fire(r) PROVE Timers!Next
  BY <1>0, <1>3, FireImplementsStart DEF Timers!Next
<1>4. ASSUME EndCallback(r) PROVE Timers!Next
  BY <1>4, EndCallbackImplementsEnd DEF Timers!Next
<1>5. CASE Tick
  BY <1>5 DEF Tick, timerVars, expiryVars, Timers!Next, Timers!Tick
<1>6. ASSUME ExtractExpired(r) PROVE UNCHANGED TimerView(r)
  \* The timers that are due move from one part of `waiting` to the other.
  <2>1. /\ expired[r] = {} /\ expired \in [Runners -> SUBSET Timer]
        /\ expired'[r] = {tm \in timers : tm.expiration <= cutoff[r]}
        /\ timers' = timers \ {tm \in timers : tm.expiration <= cutoff[r]}
        /\ UNCHANGED <<now, nextTimerId, firing>>
    BY <1>0, <1>6 DEF ExtractExpired, InPhase, HandsInv, Inv, TypeOK
  <2>. QED
    BY <2>1 DEF TimerView
<1>7. ASSUME NEW t \in Threads,
             \/ Stop(t) \/ WakeUp(t) \/ EndInline(t)
             \/ \E k \in Tasks : QueueInLoop(t, k) \/ RunInLoop(t, k)
      PROVE  UNCHANGED TimerView(r)
  BY <1>7 DEF Stop, WakeUp, EndInline, QueueInLoop, RunInLoop, timerVars, expiryVars,
              TimerView
<1>8. ASSUME \/ Enter(r) \/ BeginLoop(r) \/ CheckRunning(r)
             \/ CalculateNextTimeout(r) \/ EpollWaitReturns(r)
             \/ DispatchEvent(r) \/ EndIo(r) \/ ReadClock(r)
             \/ EndTimers(r) \/ SwapTasks(r) \/ EndTask(r)
      PROVE  UNCHANGED TimerView(r)
  BY <1>8 DEF Enter, BeginLoop, CheckRunning, CalculateNextTimeout, EpollWaitReturns,
              DispatchEvent, EndIo, ReadClock, EndTimers, SwapTasks, EndTask,
              timerVars, expiryVars, TimerView
<1>9. CASE UNCHANGED vars
  BY <1>9 DEF vars, timerVars, expiryVars, TimerView
<1>. QED
  BY <1>0, <1>1, <1>2, <1>3, <1>4, <1>5, <1>6, <1>7, <1>8, <1>9, StepCases

\* With one thread that runs the loop, whatever the other threads and the callbacks
\* add and cancel meanwhile: no callback starts before its timer expired or before
\* one that expired earlier, and no timer that waits is lost.
THEOREM TimerRefinement ==
    ASSUME NEW r, Runners = {r}
    PROVE  Spec => TimerSpec
<1>1. Init => HandsInv /\ PlaceInv
  BY InitHands
<1>2. Init => OrderInv
  BY DEF Init, OrderInv, Held
<1>3. Init => Timers!Init
  BY DEF Init, Timers!Init, LoopThread
<1>4. Inv /\ HandsInv /\ [Next]_vars => HandsInv'
  BY HandsInvStep
<1>5. Inv /\ HandsInv /\ PlaceInv /\ [Next]_vars => PlaceInv'
  BY PlaceInvStep
<1>6. Inv /\ HandsInv /\ OrderInv /\ [Next]_vars => OrderInv'
  BY OrderInvStep
<1>7. Inv /\ HandsInv /\ PlaceInv /\ OrderInv /\ [Next]_vars => [Timers!Next]_(Timers!vars)
  <2>1. TimerView(r) = Timers!vars /\ TimerView(r)' = Timers!vars'
    BY DEF TimerView, Timers!vars, LoopThread
  <2>2. Inv /\ HandsInv /\ PlaceInv /\ OrderInv /\ [Next]_vars
            => Timers!Next \/ UNCHANGED TimerView(r)
    BY TimerStep
  <2>. QED
    BY <2>1, <2>2
<1>. QED
  BY InvTheorem, <1>1, <1>2, <1>3, <1>4, <1>5, <1>6, <1>7, PTL DEF Spec, TimerSpec, Timers!Spec
=============================================================================
