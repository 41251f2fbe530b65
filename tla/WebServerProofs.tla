-------------------------- MODULE WebServerProofs ---------------------------
(* Theorems about WebServer, for any clients, descriptors and limit, and for *)
(* signals handled anywhere but in HandleNewConnection.                      *)
EXTENDS WebServer, FiniteSetTheorems, TLAPS

USE NoneIsNothing, LimitIsNat
USE DEF Threads, Closing, Accepting, InCallback, LoopPhases, StopPhases

SignalsOutsideAccept == Interruptible \subseteq LoopPhases \ Accepting

\* The actions a step may be, one per case of the proofs below.
LEMMA StepCases ==
    ASSUME [Next]_vars
    PROVE  \/ \E c \in Conns : ClientConnects(c)
           \/ \E t \in Threads :
                \/ CloseReturnsEarly(t) \/ CloseBegins(t) \/ CloseMarks(t)
                \/ CloseUnregisters(t) \/ CloseShuts(t) \/ CloseEnds(t)
           \/ EpollWait \/ NextIteration
           \/ \E event \in batch : HandleIoEvent(event)
           \/ LockBuffer \/ UnlockBuffer \/ CallbackCloses \/ CallbackEnds \/ AcceptFails
           \/ \E fd \in Fds : AcceptClient(fd)
           \/ AddFd \/ AddFdThrows
           \/ AddConnectionLocks \/ AddConnection \/ StartConnection
           \/ \E signal \in BOOLEAN : StopBegins(signal)
           \/ StopListening \/ CloseAllBegins
           \/ \E fd \in Fds : CloseAllVisits(fd)
           \/ CloseAllEnds \/ StopLoop \/ SignalAgain
           \/ UNCHANGED vars
BY DEF Next, LoopStep, ConnectionCallback, StopStep, Close

\* The order of Stop()'s steps.
LEMMA StopOrderIs ==
    /\ StopOrder[1] = "listener"
    /\ After("listener") = "lock" /\ After("lock") = "stop" /\ After("stop") = "done"
<1>1. /\ DOMAIN StopOrder = 1 .. 4
      /\ StopOrder[1] = "listener" /\ StopOrder[2] = "lock"
      /\ StopOrder[3] = "stop" /\ StopOrder[4] = "done"
  BY DEF StopOrder
<1>2. (CHOOSE i \in DOMAIN StopOrder : StopOrder[i] = "listener") = 1
  BY <1>1
<1>3. (CHOOSE i \in DOMAIN StopOrder : StopOrder[i] = "lock") = 2
  BY <1>1
<1>4. (CHOOSE i \in DOMAIN StopOrder : StopOrder[i] = "stop") = 3
  BY <1>1
<1>. QED
  BY <1>1, <1>2, <1>3, <1>4 DEF After

-----------------------------------------------------------------------------
(* Types, and the limit of the manager. *)

LimitInv == IsFiniteSet(Entries) /\ Cardinality(Entries) <= MaxConnections

\* TypeOK without the limit, the events by what they are for, and what the
\* threads have in hand.
Types ==
    /\ running \in BOOLEAN /\ looping \in BOOLEAN /\ listening \in BOOLEAN
    /\ backlog \in Seq(Conns) /\ fresh \subseteq Conns /\ edge \in BOOLEAN
    /\ alive \subseteq Conns
    /\ socketFd \in [Conns -> Fds \cup {None}]
    /\ holder \in [Fds -> Conns \cup {None}]
    /\ callbacks \in [Fds -> Conns \cup {None}]
    /\ tracked \in [Fds -> Conns \cup {None}]
    /\ manager \in Threads \cup {None}
    /\ buffer \in Conns \cup {None}
    /\ pc \in [Threads -> LoopPhases \cup StopPhases]
    /\ pc["loop"] \in LoopPhases /\ pc["stopper"] \in StopPhases
    /\ conn \in [Threads -> Conns \cup {None}]
    /\ arg \in [Threads -> Fds \cup {None}]
    /\ batch \subseteq Event
    /\ \A event \in batch : event # NewClient => event.fd \in Fds
    /\ unvisited \subseteq Fds
    /\ onLoop \in BOOLEAN
    /\ unmanaged \subseteq Conns

Serving == {"conn", "buffer", "register", "add", "adding", "start"} \cup Closing

InHand ==
    /\ pc["loop"] \in Serving => conn["loop"] \in Conns
    /\ pc["stopper"] \in Closing => conn["stopper"] \in Conns

\* CloseAllConnections comes to entries only: nothing erases one while it runs.
VisitInv ==
    pc["stopper"] \in {"next"} \cup Closing => \A fd \in unvisited : tracked[fd] # None

BaseInv == Types /\ InHand /\ VisitInv

LEMMA BaseInit == Init => BaseInv /\ LimitInv
<1>. SUFFICES ASSUME Init PROVE BaseInv /\ LimitInv
  OBVIOUS
<1>1. Types
  <2>1. backlog \in Seq(Conns)
    BY DEF Init
  <2>2. running \in BOOLEAN /\ looping \in BOOLEAN /\ listening \in BOOLEAN
        /\ edge \in BOOLEAN /\ onLoop \in BOOLEAN
    BY DEF Init
  <2>3. /\ pc \in [Threads -> LoopPhases \cup StopPhases]
        /\ pc["loop"] \in LoopPhases /\ pc["stopper"] \in StopPhases
    BY DEF Init
  <2>. QED
    BY <2>1, <2>2, <2>3 DEF Init, Types
<1>2. InHand /\ VisitInv
  BY DEF Init, InHand, VisitInv, Serving
<1>3. Entries = {}
  BY DEF Init, Entries
<1>. QED
  BY <1>1, <1>2, <1>3, FS_EmptySet DEF LimitInv, BaseInv

LEMMA BaseStep == BaseInv /\ [Next]_vars => BaseInv'
<1>. SUFFICES ASSUME BaseInv, [Next]_vars PROVE BaseInv'
  OBVIOUS
<1>. USE DEF BaseInv, Types, InHand, VisitInv, Serving, At, Goto, fdVars, netVars
<1>1. ASSUME NEW c \in Conns, ClientConnects(c) PROVE BaseInv'
  BY <1>1 DEF ClientConnects
<1>2. ASSUME NEW t \in Threads, CloseReturnsEarly(t) PROVE BaseInv'
  BY <1>2 DEF CloseReturnsEarly
<1>3. ASSUME NEW t \in Threads, CloseBegins(t) \/ CloseMarks(t) PROVE BaseInv'
  BY <1>3 DEF CloseBegins, CloseMarks, ReadFd
<1>4. ASSUME NEW t \in Threads, CloseUnregisters(t) PROVE BaseInv'
  BY <1>4 DEF CloseUnregisters, RemoveFd, ReadFd, FdRead
<1>5. ASSUME NEW t \in Threads, CloseShuts(t) PROVE BaseInv'
  BY <1>5 DEF CloseShuts, CloseFd, FdRead
<1>6. CASE EpollWait
  BY <1>6 DEF EpollWait, Ready, Event, NewClient
<1>7. CASE NextIteration
  BY <1>7 DEF NextIteration
<1>8. ASSUME NEW event \in batch, HandleIoEvent(event) PROVE BaseInv'
  BY <1>8 DEF HandleIoEvent
<1>9. CASE LockBuffer \/ UnlockBuffer
  BY <1>9 DEF LockBuffer, UnlockBuffer
<1>10. CASE CallbackCloses \/ CallbackEnds
  BY <1>10 DEF CallbackCloses, CallbackEnds
<1>11. ASSUME NEW t \in Threads, CloseEnds(t) PROVE BaseInv'
  BY <1>11 DEF CloseEnds
<1>12. CASE AddFdThrows
  BY <1>12 DEF AddFdThrows
<1>13. CASE AcceptFails
  BY <1>13 DEF AcceptFails
<1>14. ASSUME NEW fd \in Fds, AcceptClient(fd) PROVE BaseInv'
  <2>1. Head(backlog) \in Conns /\ Tail(backlog) \in Seq(Conns)
    BY <1>14 DEF AcceptClient
  <2>2. Types'
    <3>1. backlog' \in Seq(Conns)
      BY <1>14, <2>1 DEF AcceptClient
    <3>2. holder' \in [Fds -> Conns \cup {None}]
      BY <1>14, <2>1 DEF AcceptClient
    <3>3. socketFd' \in [Conns -> Fds \cup {None}]
      BY <1>14, <2>1 DEF AcceptClient
    <3>4. conn' \in [Threads -> Conns \cup {None}]
      <4>1. conn' = conn \/ conn' = [conn EXCEPT !["loop"] = Head(backlog)]
        BY <1>14 DEF AcceptClient
      <4>2. conn \in [Threads -> Conns \cup {None}]
        OBVIOUS
      <4>. QED
        BY ONLY <2>1, <4>1, <4>2
    <3>5. pc' = [pc EXCEPT !["loop"] = pc'["loop"]] /\ pc'["loop"] \in {"register", "events"}
      BY <1>14 DEF AcceptClient
    <3>6. /\ pc' \in [Threads -> LoopPhases \cup StopPhases]
          /\ pc'["loop"] \in LoopPhases /\ pc'["stopper"] \in StopPhases
      BY <3>5 DEF Threads, LoopPhases, InCallback, Accepting
    <3>7. alive' \subseteq Conns /\ unmanaged' \subseteq Conns
      BY <1>14, <2>1 DEF AcceptClient
    <3>8. UNCHANGED <<running, looping, listening, fresh, edge, callbacks, tracked, manager,
                      buffer, arg, batch, unvisited, onLoop>>
      BY <1>14 DEF AcceptClient
    <3>. QED
      BY <3>1, <3>2, <3>3, <3>4, <3>6, <3>7, <3>8
  <2>3. InHand'
    <3>1. \/ /\ conn' = [conn EXCEPT !["loop"] = Head(backlog)]
             /\ pc' = [pc EXCEPT !["loop"] = "register"]
          \/ conn' = conn /\ pc' = [pc EXCEPT !["loop"] = "events"]
      BY <1>14 DEF AcceptClient
    <3>2. /\ conn \in [Threads -> Conns \cup {None}]
          /\ pc \in [Threads -> LoopPhases \cup StopPhases]
      OBVIOUS
    <3>3. conn'["loop"] \in Conns \/ pc'["loop"] = "events"
      BY ONLY <2>1, <3>1, <3>2
    <3>4. pc["stopper"] \in Closing => conn["stopper"] \in Conns
      OBVIOUS
    <3>5. conn'["stopper"] = conn["stopper"] /\ pc'["stopper"] = pc["stopper"]
      BY ONLY <3>1, <3>2
    <3>. QED
      BY ONLY <3>3, <3>4, <3>5 DEF InHand, Serving
  <2>4. VisitInv'
    BY <1>14 DEF AcceptClient
  <2>. QED
    BY <2>2, <2>3, <2>4
<1>15. CASE AddFd
  BY <1>15, ZenonT(30) DEF AddFd
<1>16. CASE AddConnectionLocks
  BY <1>16 DEF AddConnectionLocks
<1>17. CASE AddConnection
  BY <1>17, ZenonT(30) DEF AddConnection, Insert
<1>18. CASE StartConnection
  BY <1>18 DEF StartConnection
<1>19. ASSUME NEW signal \in BOOLEAN, StopBegins(signal) PROVE BaseInv'
  BY <1>19, StopOrderIs DEF StopBegins
<1>20. CASE StopListening
  <2>1. backlog' \in Seq(Conns)
    BY <1>20 DEF StopListening
  <2>. QED
    BY <1>20, <2>1, StopOrderIs DEF StopListening
<1>21. CASE CloseAllBegins
  BY <1>21 DEF CloseAllBegins, Entries
<1>22. ASSUME NEW fd \in Fds, CloseAllVisits(fd) PROVE BaseInv'
  BY <1>22 DEF CloseAllVisits
<1>23. CASE CloseAllEnds
  BY <1>23, StopOrderIs DEF CloseAllEnds
<1>24. CASE StopLoop
  BY <1>24, StopOrderIs DEF StopLoop
<1>25. CASE SignalAgain
  <2>1. running' \in BOOLEAN /\ looping' \in BOOLEAN
    BY <1>25 DEF SignalAgain
  <2>. QED
    BY <1>25, <2>1 DEF SignalAgain
<1>26. CASE UNCHANGED vars
  BY <1>26 DEF vars
<1>. HIDE DEF BaseInv
<1>. QED
  BY <1>1, <1>2, <1>3, <1>4, <1>5, <1>6, <1>7, <1>8, <1>9, <1>10, <1>11, <1>12, <1>13,
     <1>14, <1>15, <1>16, <1>17, <1>18, <1>19, <1>20, <1>21, <1>22, <1>23, <1>24, <1>25,
     <1>26, StepCases

\* A full manager takes no entry, and one that is not full at most one more.
LEMMA LimitStep == BaseInv /\ LimitInv /\ [Next]_vars => LimitInv'
<1>. SUFFICES ASSUME BaseInv, LimitInv, [Next]_vars PROVE LimitInv'
  OBVIOUS
<1>1. CASE AddConnection
  <2>. DEFINE x == socketFd[conn["loop"]]
  <2>1. CASE Full
    <3>1. Entries' = Entries
      BY <1>1, <2>1 DEF AddConnection, Entries
    <3>. QED
      BY <3>1 DEF LimitInv
  <2>2. CASE ~Full
    <3>1. Entries' \subseteq Entries \cup {x}
      BY <1>1, <2>2 DEF AddConnection, Insert, Entries, BaseInv, Types
    <3>2. /\ IsFiniteSet(Entries \cup {x})
          /\ \/ Cardinality(Entries \cup {x}) = Cardinality(Entries)
             \/ Cardinality(Entries \cup {x}) = Cardinality(Entries) + 1
      BY FS_AddElement DEF LimitInv
    <3>3. /\ IsFiniteSet(Entries')
          /\ Cardinality(Entries') <= Cardinality(Entries \cup {x})
      BY <3>1, <3>2, FS_Subset
    <3>4. /\ Cardinality(Entries) \in Nat /\ Cardinality(Entries') \in Nat
          /\ Cardinality(Entries \cup {x}) \in Nat
      BY <3>2, <3>3, FS_CardinalityType DEF LimitInv
    <3>5. Cardinality(Entries) < MaxConnections
      BY <2>2, <3>4 DEF Full
    <3>6. Cardinality(Entries') <= MaxConnections
      BY <3>2, <3>3, <3>4, <3>5
    <3>. QED
      BY <3>3, <3>6 DEF LimitInv
  <2>. QED
    BY <2>1, <2>2
<1>2. CASE CloseAllEnds
  <2>1. Entries' = {}
    BY <1>2 DEF CloseAllEnds, Entries
  <2>. QED
    BY <2>1, FS_EmptySet DEF LimitInv
<1>3. CASE UNCHANGED tracked
  BY <1>3 DEF LimitInv, Entries
<1>4. AddConnection \/ CloseAllEnds \/ UNCHANGED tracked
  BY StepCases DEF ClientConnects, CloseReturnsEarly, CloseBegins, CloseMarks,
     CloseUnregisters, CloseShuts, CloseEnds, EpollWait, NextIteration, HandleIoEvent,
     LockBuffer, UnlockBuffer, CallbackCloses, CallbackEnds, AddFdThrows,
     AcceptFails, AcceptClient, AddFd, AddConnectionLocks, StartConnection, StopBegins,
     StopListening, CloseAllBegins, CloseAllVisits, StopLoop, SignalAgain, vars
<1>. QED
  BY <1>1, <1>2, <1>3, <1>4

THEOREM BaseTheorem == Spec => [](BaseInv /\ LimitInv)
BY BaseInit, BaseStep, LimitStep, PTL DEF Spec

\* Every variable keeps its type, and the manager never has more entries than
\* max_connections.
THEOREM TypeCorrect == Spec => []TypeOK
<1>1. BaseInv /\ LimitInv => TypeOK
  BY DEF BaseInv, Types, LimitInv, TypeOK
<1>. QED
  BY BaseTheorem, <1>1, PTL

-----------------------------------------------------------------------------
(* The two threads: who is where when Stop() is past the listener. *)

Stopping == {"lock", "next", "stop", "done"} \cup Closing

\* Nobody is accepted any more once Stop() has closed the listener: it waited
\* for fd_mutex_, or had interrupted the loop's thread elsewhere.
ExclusionInv ==
    /\ pc["stopper"] \in Stopping => ~listening /\ pc["loop"] \notin Accepting
    /\ onLoop /\ pc["stopper"] \notin {"idle", "done"} => pc["loop"] \in Interruptible

\* Between two callbacks the loop's thread works on no connection.
IdleInv ==
    pc["loop"] \in {"wait", "events", "accept", "returned"} => conn["loop"] = None

ThreadInv == ExclusionInv /\ IdleInv

LEMMA ThreadStep ==
    ASSUME SignalsOutsideAccept, BaseInv, ThreadInv, [Next]_vars
    PROVE  ThreadInv'
<1>. USE DEF BaseInv, Types, ThreadInv, ExclusionInv, IdleInv, Stopping,
             At, Goto, fdVars, netVars
<1>1. ASSUME NEW c \in Conns, ClientConnects(c) PROVE ThreadInv'
  BY <1>1 DEF ClientConnects
<1>2. ASSUME NEW t \in Threads, CloseReturnsEarly(t) PROVE ThreadInv'
  BY <1>2 DEF CloseReturnsEarly
<1>3. ASSUME NEW t \in Threads, CloseBegins(t) \/ CloseMarks(t) PROVE ThreadInv'
  BY <1>3 DEF CloseBegins, CloseMarks, ReadFd
<1>4. ASSUME NEW t \in Threads, CloseUnregisters(t) PROVE ThreadInv'
  BY <1>4 DEF CloseUnregisters, ReadFd, FdRead
<1>5. ASSUME NEW t \in Threads, CloseShuts(t) PROVE ThreadInv'
  BY <1>5 DEF CloseShuts, CloseFd, FdRead
<1>6. CASE EpollWait \/ NextIteration \/ AcceptFails
  BY <1>6 DEF EpollWait, NextIteration, AcceptFails
<1>7. ASSUME NEW event \in batch, HandleIoEvent(event) PROVE ThreadInv'
  BY <1>7 DEF HandleIoEvent
<1>8. CASE LockBuffer \/ UnlockBuffer
  BY <1>8 DEF LockBuffer, UnlockBuffer
<1>9. CASE CallbackCloses \/ CallbackEnds
  BY <1>9 DEF CallbackCloses, CallbackEnds
<1>10. ASSUME NEW t \in Threads, CloseEnds(t) PROVE ThreadInv'
  BY <1>10 DEF CloseEnds
<1>11. CASE AddFdThrows
  BY <1>11 DEF AddFdThrows
<1>12. ASSUME NEW fd \in Fds, AcceptClient(fd) PROVE ThreadInv'
  BY <1>12 DEF AcceptClient
<1>13. CASE AddFd \/ AddConnectionLocks \/ AddConnection
  BY <1>13 DEF AddFd, AddConnectionLocks, AddConnection
<1>14. CASE StartConnection
  BY <1>14 DEF StartConnection
<1>15. ASSUME NEW signal \in BOOLEAN, StopBegins(signal) PROVE ThreadInv'
  BY <1>15, StopOrderIs DEF StopBegins
<1>16. CASE StopListening
  BY <1>16, StopOrderIs DEF StopListening, CanLockFds, SignalsOutsideAccept
<1>17. CASE CloseAllBegins \/ CloseAllEnds \/ StopLoop
  BY <1>17, StopOrderIs DEF CloseAllBegins, CloseAllEnds, StopLoop
<1>18. ASSUME NEW fd \in Fds, CloseAllVisits(fd) PROVE ThreadInv'
  BY <1>18 DEF CloseAllVisits
<1>19. CASE SignalAgain \/ UNCHANGED vars
  BY <1>19 DEF SignalAgain, vars
<1>. HIDE DEF ThreadInv
<1>. QED
  BY <1>1, <1>2, <1>3, <1>4, <1>5, <1>6, <1>7, <1>8, <1>9, <1>10, <1>11, <1>12, <1>13,
     <1>14, <1>15, <1>16, <1>17, <1>18, <1>19, StepCases

-----------------------------------------------------------------------------
(* Descriptors. *)

\* A connection that is being accepted has a descriptor, and when AddConnection
\* has returned an entry too, unless it was refused.
AcceptInv ==
    /\ pc["loop"] \in {"register", "add", "adding", "start"}
           => socketFd[conn["loop"]] \in Fds
    /\ pc["loop"] = "start"
           => \/ conn["loop"] \in unmanaged
              \/ tracked[socketFd[conn["loop"]]] = conn["loop"]

\* close() comes after state_ = CLOSING and after RemoveFd.
ShutInv ==
    \A t \in Threads : pc[t] = "shut" =>
        \A fd \in Fds :
            socketFd[conn[t]] = fd \/ arg[t] = fd => callbacks[fd] = None

\* What a thread has in hand after CLOSING is the descriptor, also when the other
\* thread has closed it by now; elsewhere it has none, and past close() the
\* connection has none either.
HandInv ==
    \A t \in Threads :
        IF pc[t] \in {"remove", "shut"}
          THEN socketFd[conn[t]] \in {arg[t], None}
          ELSE /\ arg[t] = None
               /\ pc[t] = "clean" => socketFd[conn[t]] = None

FdInv == AcceptInv /\ ShutInv /\ HandInv /\ FdOwned

LEMMA FdStep ==
    ASSUME BaseInv, ThreadInv, FdInv, [Next]_vars
    PROVE  FdInv'
<1>. USE DEF BaseInv, Types, InHand, Serving, ThreadInv, ExclusionInv, Stopping, FdInv, AcceptInv,
             ShutInv, HandInv, FdOwned, At, Goto, fdVars, netVars
<1>1. ASSUME NEW c \in Conns, ClientConnects(c) PROVE FdInv'
  BY <1>1 DEF ClientConnects
<1>2. ASSUME NEW t \in Threads, CloseReturnsEarly(t) PROVE FdInv'
  BY <1>2 DEF CloseReturnsEarly
<1>3. ASSUME NEW t \in Threads, CloseBegins(t) \/ CloseMarks(t) PROVE FdInv'
  BY <1>3 DEF CloseBegins, CloseMarks, ReadFd
<1>4. ASSUME NEW t \in Threads, CloseUnregisters(t) PROVE FdInv'
  BY <1>4 DEF CloseUnregisters, RemoveFd, ReadFd, FdRead
<1>5. ASSUME NEW t \in Threads, CloseShuts(t) PROVE FdInv'
  BY <1>5 DEF CloseShuts, CloseFd, FdRead
<1>6. CASE EpollWait \/ NextIteration \/ AcceptFails
  BY <1>6 DEF EpollWait, NextIteration, AcceptFails
<1>7. ASSUME NEW event \in batch, HandleIoEvent(event) PROVE FdInv'
  BY <1>7 DEF HandleIoEvent
<1>8. CASE LockBuffer \/ UnlockBuffer
  BY <1>8 DEF LockBuffer, UnlockBuffer
<1>9. CASE CallbackCloses \/ CallbackEnds
  BY <1>9 DEF CallbackCloses, CallbackEnds
<1>10. ASSUME NEW t \in Threads, CloseEnds(t) PROVE FdInv'
  BY <1>10 DEF CloseEnds
<1>11. CASE AddFdThrows
  BY <1>11 DEF AddFdThrows
<1>12. ASSUME NEW fd \in Fds, AcceptClient(fd) PROVE FdInv'
  BY <1>12 DEF AcceptClient
<1>13. CASE AddFd
  BY <1>13 DEF AddFd
<1>14. CASE AddConnectionLocks
  BY <1>14 DEF AddConnectionLocks
<1>15. CASE AddConnection
  BY <1>15 DEF AddConnection, Insert
<1>16. CASE StartConnection
  BY <1>16 DEF StartConnection
<1>17. ASSUME NEW signal \in BOOLEAN, StopBegins(signal) PROVE FdInv'
  BY <1>17, StopOrderIs DEF StopBegins
<1>18. CASE StopListening
  BY <1>18, StopOrderIs DEF StopListening
<1>19. CASE CloseAllBegins
  BY <1>19 DEF CloseAllBegins
<1>20. ASSUME NEW fd \in Fds, CloseAllVisits(fd) PROVE FdInv'
  BY <1>20 DEF CloseAllVisits
<1>21. CASE CloseAllEnds
  BY <1>21, StopOrderIs DEF CloseAllEnds
<1>22. CASE StopLoop
  BY <1>22, StopOrderIs DEF StopLoop
<1>23. CASE SignalAgain \/ UNCHANGED vars
  BY <1>23 DEF SignalAgain, vars
<1>. HIDE DEF FdInv
<1>. QED
  BY <1>1, <1>2, <1>3, <1>4, <1>5, <1>6, <1>7, <1>8, <1>9, <1>10, <1>11, <1>12, <1>13,
     <1>14, <1>15, <1>16, <1>17, <1>18, <1>19, <1>20, <1>21, <1>22, <1>23, StepCases

-----------------------------------------------------------------------------
(* CloseAllConnections finds every connection that was not refused. *)

\* A descriptor that is open while state_ says otherwise is about to be closed.
OpenInv == \A c \in Conns : socketFd[c] # None => c \in alive \/ BeingClosed(c)

\* While it runs, what is open is still to be visited or in hand, or in a Close()
\* of the loop's; after it, only the last.
VisitsAll ==
    /\ pc["stopper"] \in {"next"} \cup Closing =>
           \A c \in Conns \ unmanaged : socketFd[c] # None =>
               \/ conn["stopper"] = c /\ pc["stopper"] \in {"close", "mark"}
               \/ socketFd[c] \in unvisited /\ tracked[socketFd[c]] = c
               \/ BeingClosed(c)
    /\ pc["stopper"] \in {"stop", "done"} =>
           \A c \in Conns \ unmanaged : socketFd[c] # None => BeingClosed(c)

TrackInv == OpenInv /\ OpenIsTracked /\ VisitsAll

LEMMA TrackStep ==
    ASSUME BaseInv, ThreadInv, FdInv, TrackInv, [Next]_vars
    PROVE  TrackInv'
<1>. USE DEF BaseInv, Types, InHand, Serving, ThreadInv, ExclusionInv, Stopping, IdleInv,
             TrackInv, OpenInv, OpenIsTracked, VisitsAll, BeingClosed,
             At, Goto, fdVars, netVars
<1>1. ASSUME NEW c \in Conns, ClientConnects(c) PROVE TrackInv'
  BY <1>1 DEF ClientConnects
<1>2. ASSUME NEW t \in Threads, CloseReturnsEarly(t) PROVE TrackInv'
  BY <1>2 DEF CloseReturnsEarly
<1>3. ASSUME NEW t \in Threads, CloseBegins(t) \/ CloseMarks(t) PROVE TrackInv'
  BY <1>3 DEF CloseBegins, CloseMarks, ReadFd
<1>4. ASSUME NEW t \in Threads, CloseUnregisters(t) PROVE TrackInv'
  BY <1>4 DEF CloseUnregisters, ReadFd, FdRead
<1>5. ASSUME NEW t \in Threads, CloseShuts(t) PROVE TrackInv'
  BY <1>5 DEF CloseShuts, CloseFd, FdRead, FdInv, ShutInv
<1>6. CASE EpollWait \/ NextIteration \/ AcceptFails
  BY <1>6 DEF EpollWait, NextIteration, AcceptFails
<1>7. ASSUME NEW event \in batch, HandleIoEvent(event) PROVE TrackInv'
  BY <1>7 DEF HandleIoEvent
<1>8. CASE LockBuffer \/ UnlockBuffer
  BY <1>8 DEF LockBuffer, UnlockBuffer
<1>9. CASE CallbackCloses \/ CallbackEnds
  BY <1>9 DEF CallbackCloses, CallbackEnds
<1>10. ASSUME NEW t \in Threads, CloseEnds(t) PROVE TrackInv'
  <2>1. socketFd[conn[t]] = None
    BY <1>10 DEF CloseEnds, FdInv, HandInv
  <2>2. \A c \in Conns : BeingClosed(c) => BeingClosed(c)'
    BY <1>10 DEF CloseEnds
  <2>. QED
    BY <1>10, <2>1, <2>2 DEF CloseEnds
<1>11. CASE AddFdThrows
  BY <1>11 DEF AddFdThrows
<1>12. ASSUME NEW fd \in Fds, AcceptClient(fd) PROVE TrackInv'
  <2>1. \A c \in Conns : BeingClosed(c) => BeingClosed(c)'
    BY <1>12 DEF AcceptClient
  <2>2. Head(backlog) \in Conns
    BY <1>12 DEF AcceptClient
  <2>3. OpenInv'
    BY <1>12, <2>1, <2>2 DEF AcceptClient
  <2>4. OpenIsTracked'
    BY <1>12, <2>1, <2>2 DEF AcceptClient
  <2>5. VisitsAll'
    BY <1>12, <2>1, <2>2 DEF AcceptClient
  <2>. QED
    BY <2>3, <2>4, <2>5
<1>13. CASE AddFd \/ AddConnectionLocks
  BY <1>13 DEF AddFd, AddConnectionLocks
<1>14. CASE AddConnection
  <2>1. conn["loop"] \in Conns /\ socketFd[conn["loop"]] \in Fds
    BY <1>14 DEF AddConnection, FdInv, AcceptInv
  <2>2. \A c \in Conns, fd \in Fds :
            socketFd[c] = fd /\ c # conn["loop"] => fd # socketFd[conn["loop"]]
    BY <2>1 DEF FdInv, FdOwned
  <2>. QED
    BY <1>14, <2>1, <2>2 DEF AddConnection, Insert
<1>15. CASE StartConnection
  BY <1>15 DEF StartConnection, FdInv, AcceptInv
<1>16. ASSUME NEW signal \in BOOLEAN, StopBegins(signal) PROVE TrackInv'
  BY <1>16, StopOrderIs DEF StopBegins
<1>17. CASE StopListening
  BY <1>17, StopOrderIs DEF StopListening
<1>18. CASE CloseAllBegins
  BY <1>18 DEF CloseAllBegins, Entries
<1>19. ASSUME NEW fd \in Fds, CloseAllVisits(fd) PROVE TrackInv'
  BY <1>19 DEF CloseAllVisits
<1>20. CASE CloseAllEnds
  BY <1>20, StopOrderIs DEF CloseAllEnds
<1>21. CASE StopLoop
  BY <1>21, StopOrderIs DEF StopLoop
<1>22. CASE SignalAgain \/ UNCHANGED vars
  BY <1>22 DEF SignalAgain, vars
<1>. HIDE DEF TrackInv
<1>. QED
  BY <1>1, <1>2, <1>3, <1>4, <1>5, <1>6, <1>7, <1>8, <1>9, <1>10, <1>11, <1>12, <1>13,
     <1>14, <1>15, <1>16, <1>17, <1>18, <1>19, <1>20, <1>21, <1>22, StepCases

-----------------------------------------------------------------------------
(* Events outlive descriptors only after Stop() has closed the listener. *)

\* Each client connects once: one that waits has no descriptor.
WaitingInv ==
    /\ \A c \in fresh : socketFd[c] = None
    /\ \A i \in 1 .. Len(backlog) :
           /\ backlog[i] \notin fresh /\ socketFd[backlog[i]] = None
           /\ \A j \in 1 .. Len(backlog) : backlog[i] = backlog[j] => i = j

\* A callback is registered under the descriptor of its own connection.
CallbackInv == \A fd \in Fds : callbacks[fd] # None => socketFd[callbacks[fd]] = fd

\* As long as somebody may be accepted, an event's descriptor is still the one
\* it was reported for, and not the one the loop's thread is closing.
EventInv ==
    pc["stopper"] \in {"idle", "listener"} =>
        \A event \in batch : event # NewClient =>
            /\ event.of # None /\ holder[event.fd] = event.of
            /\ pc["loop"] \in Serving => socketFd[conn["loop"]] # event.fd
            /\ arg["loop"] # event.fd

LateInv == WaitingInv /\ CallbackInv /\ EventInv /\ StaleEventDropped

\* What EpollWait reports is a descriptor's own.
LEMMA ReadyIs ==
    ASSUME BaseInv, FdOwned, NEW event \in Ready, event # NewClient
    PROVE  /\ event.fd \in Fds /\ event.of # None /\ holder[event.fd] = event.of
           /\ callbacks[event.fd] = event.of
BY DEF Ready, BaseInv, Types, FdOwned, NewClient

LEMMA LateStep ==
    ASSUME BaseInv, ThreadInv, FdInv, LateInv, [Next]_vars
    PROVE  LateInv'
<1>. USE DEF BaseInv, Types, InHand, Serving, ThreadInv, ExclusionInv, Stopping, FdInv, FdOwned,
             LateInv, WaitingInv, CallbackInv, EventInv, StaleEventDropped,
             Serving, At, Goto, fdVars, netVars
<1>1. ASSUME NEW c \in Conns, ClientConnects(c) PROVE LateInv'
  <2>1. /\ Len(backlog') = Len(backlog) + 1 /\ backlog'[Len(backlog) + 1] = c
        /\ \A i \in 1 .. Len(backlog) : backlog'[i] = backlog[i] /\ backlog'[i] # c
        /\ Len(backlog) \in Nat
    BY <1>1 DEF ClientConnects
  <2>2. WaitingInv'
    BY <1>1, <2>1 DEF ClientConnects
  <2>. QED
    BY <1>1, <2>2 DEF ClientConnects
<1>2. ASSUME NEW t \in Threads, CloseReturnsEarly(t) PROVE LateInv'
  BY <1>2 DEF CloseReturnsEarly
<1>3. ASSUME NEW t \in Threads, CloseBegins(t) \/ CloseMarks(t) PROVE LateInv'
  BY <1>3 DEF CloseBegins, CloseMarks, ReadFd
<1>4. ASSUME NEW t \in Threads, CloseUnregisters(t) PROVE LateInv'
  BY <1>4 DEF CloseUnregisters, RemoveFd, ReadFd, FdRead
<1>5. ASSUME NEW t \in Threads, CloseShuts(t) PROVE LateInv'
  <2>1. CallbackInv'
    BY <1>5 DEF CloseShuts, ShutInv
  <2>2. EventInv'
    BY <1>5 DEF CloseShuts, CloseFd, FdRead
  <2>3. WaitingInv'
    BY <1>5 DEF CloseShuts
  <2>. QED
    BY <1>5, <2>1, <2>2, <2>3 DEF CloseShuts
<1>6. CASE EpollWait
  <2>1. WaitingInv' /\ CallbackInv'
    BY <1>6 DEF EpollWait
  <2>2. EventInv'
    BY <1>6, ReadyIs DEF EpollWait, HandInv
  <2>3. StaleEventDropped'
    BY <1>6, ReadyIs DEF EpollWait
  <2>. QED
    BY <2>1, <2>2, <2>3
<1>7. CASE NextIteration \/ AcceptFails
  <2>1. WaitingInv' /\ CallbackInv' /\ StaleEventDropped'
    BY <1>7 DEF NextIteration, AcceptFails
  <2>2. EventInv'
    BY <1>7 DEF NextIteration, AcceptFails
  <2>. QED
    BY <2>1, <2>2
<1>8. ASSUME NEW event \in batch, HandleIoEvent(event) PROVE LateInv'
  <2>1. EventInv'
    BY <1>8 DEF HandleIoEvent, Event
  <2>. QED
    BY <1>8, <2>1 DEF HandleIoEvent
<1>9. CASE LockBuffer \/ UnlockBuffer
  BY <1>9 DEF LockBuffer, UnlockBuffer
<1>10. CASE CallbackCloses \/ CallbackEnds
  BY <1>10 DEF CallbackCloses, CallbackEnds
<1>11. ASSUME NEW t \in Threads, CloseEnds(t) PROVE LateInv'
  BY <1>11 DEF CloseEnds
<1>12. CASE AddFdThrows
  BY <1>12 DEF AddFdThrows
<1>13. ASSUME NEW fd \in Fds, AcceptClient(fd) PROVE LateInv'
  <2>1. /\ Len(backlog) \in Nat \ {0} /\ Len(backlog') = Len(backlog) - 1
        /\ Head(backlog) = backlog[1] /\ Head(backlog) \in Conns
        /\ \A i \in 1 .. Len(backlog') : backlog'[i] = backlog[i + 1]
    BY <1>13 DEF AcceptClient
  <2>2. /\ Head(backlog) \notin fresh /\ socketFd[Head(backlog)] = None
        /\ \A i \in 1 .. Len(backlog') : backlog'[i] # Head(backlog)
    <3>1. WaitingInv
      OBVIOUS
    <3>2. /\ 1 \in 1 .. Len(backlog)
          /\ \A i \in 1 .. Len(backlog') : i + 1 \in 1 .. Len(backlog) /\ i + 1 # 1
      BY ONLY <2>1
    <3>. QED
      BY ONLY <2>1, <3>1, <3>2 DEF WaitingInv
  <2>3. WaitingInv'
    <3>1. /\ fresh' = fresh
          /\ \A c \in Conns : c # Head(backlog) => socketFd'[c] = socketFd[c]
          /\ fresh \subseteq Conns /\ \A i \in 1 .. Len(backlog) : backlog[i] \in Conns
      BY <1>13 DEF AcceptClient
    <3>2. WaitingInv
      OBVIOUS
    <3>3. \A i \in 1 .. Len(backlog') : i + 1 \in 1 .. Len(backlog)
      BY ONLY <2>1
    <3>4. \A c \in fresh' : socketFd'[c] = None
      BY ONLY <2>2, <3>1, <3>2 DEF WaitingInv
    <3>5. \A i \in 1 .. Len(backlog') : backlog'[i] \notin fresh' /\ socketFd'[backlog'[i]] = None
      BY ONLY <2>1, <2>2, <3>1, <3>2, <3>3 DEF WaitingInv
    <3>6. \A i, j \in 1 .. Len(backlog') : backlog'[i] = backlog'[j] => i = j
      BY ONLY <2>1, <3>2, <3>3 DEF WaitingInv
    <3>. QED
      BY ONLY <3>4, <3>5, <3>6 DEF WaitingInv
  <2>4. CallbackInv'
    BY <1>13, <2>1, <2>2 DEF AcceptClient
  <2>5. EventInv'
    BY <1>13, <2>1 DEF AcceptClient
  <2>. QED
    BY <1>13, <2>3, <2>4, <2>5 DEF AcceptClient
<1>14. CASE AddFd
  BY <1>14 DEF AddFd, AcceptInv
<1>15. CASE AddConnectionLocks \/ AddConnection \/ StartConnection
  BY <1>15 DEF AddConnectionLocks, AddConnection, StartConnection
<1>16. ASSUME NEW signal \in BOOLEAN, StopBegins(signal) PROVE LateInv'
  <2>1. WaitingInv' /\ CallbackInv' /\ StaleEventDropped'
    BY <1>16 DEF StopBegins
  <2>2. EventInv'
    BY <1>16 DEF StopBegins
  <2>. QED
    BY <2>1, <2>2
<1>17. CASE StopListening
  BY <1>17, StopOrderIs DEF StopListening
<1>18. CASE CloseAllBegins \/ CloseAllEnds \/ StopLoop
  BY <1>18, StopOrderIs DEF CloseAllBegins, CloseAllEnds, StopLoop
<1>19. ASSUME NEW fd \in Fds, CloseAllVisits(fd) PROVE LateInv'
  BY <1>19 DEF CloseAllVisits
<1>20. CASE SignalAgain \/ UNCHANGED vars
  BY <1>20 DEF SignalAgain, vars
<1>. HIDE DEF LateInv
<1>. QED
  BY <1>1, <1>2, <1>3, <1>4, <1>5, <1>6, <1>7, <1>8, <1>9, <1>10, <1>11, <1>12, <1>13,
     <1>14, <1>15, <1>16, <1>17, <1>18, <1>19, <1>20, StepCases

-----------------------------------------------------------------------------
(* Who closes a descriptor, and what keeps a connection. *)

\* An open descriptor is the one its connection knows, unless the connection was
\* never constructed; its client waits no more.
HeldInv ==
    \A fd \in Fds : holder[fd] # None =>
        \/ socketFd[holder[fd]] = fd
        \/ holder[fd] \in unmanaged /\ socketFd[holder[fd]] = None

AcceptedInv ==
    \A fd \in Fds : holder[fd] # None =>
        holder[fd] \notin fresh /\ \A i \in 1 .. Len(backlog) : backlog[i] # holder[fd]

LeakInv == HeldInv /\ AcceptedInv

LEMMA LeakStep ==
    ASSUME BaseInv, FdInv, LateInv, LeakInv, [Next]_vars
    PROVE  LeakInv'
<1>. USE DEF BaseInv, Types, InHand, Serving, LeakInv, HeldInv, AcceptedInv,
             At, Goto, fdVars, netVars
<1>1. ASSUME NEW c \in Conns, ClientConnects(c) PROVE LeakInv'
  <2>1. /\ Len(backlog') = Len(backlog) + 1 /\ backlog'[Len(backlog) + 1] = c
        /\ \A i \in 1 .. Len(backlog) : backlog'[i] = backlog[i]
        /\ Len(backlog) \in Nat
    BY <1>1 DEF ClientConnects
  <2>. QED
    BY <1>1, <2>1 DEF ClientConnects
<1>2. ASSUME NEW t \in Threads, CloseReturnsEarly(t) PROVE LeakInv'
  BY <1>2 DEF CloseReturnsEarly
<1>3. ASSUME NEW t \in Threads, CloseBegins(t) \/ CloseMarks(t) PROVE LeakInv'
  BY <1>3 DEF CloseBegins, CloseMarks, ReadFd
<1>4. ASSUME NEW t \in Threads, CloseUnregisters(t) PROVE LeakInv'
  BY <1>4 DEF CloseUnregisters, ReadFd
<1>5. ASSUME NEW t \in Threads, CloseShuts(t) PROVE LeakInv'
  <2>1. socketFd[conn[t]] \in {arg[t], None} /\ conn[t] \in Conns
    BY <1>5 DEF CloseShuts, FdInv, HandInv
  <2>. QED
    BY <1>5, <2>1 DEF CloseShuts, CloseFd, FdRead, FdInv, FdOwned
<1>6. CASE EpollWait \/ NextIteration \/ AcceptFails
  BY <1>6 DEF EpollWait, NextIteration, AcceptFails
<1>7. ASSUME NEW event \in batch, HandleIoEvent(event) PROVE LeakInv'
  BY <1>7 DEF HandleIoEvent
<1>8. CASE LockBuffer \/ UnlockBuffer
  BY <1>8 DEF LockBuffer, UnlockBuffer
<1>9. CASE CallbackCloses \/ CallbackEnds
  BY <1>9 DEF CallbackCloses, CallbackEnds
<1>10. ASSUME NEW t \in Threads, CloseEnds(t) PROVE LeakInv'
  BY <1>10 DEF CloseEnds
<1>11. CASE AddFdThrows
  BY <1>11 DEF AddFdThrows
<1>12. ASSUME NEW fd \in Fds, AcceptClient(fd) PROVE LeakInv'
  <2>1. /\ Len(backlog) \in Nat \ {0} /\ Len(backlog') = Len(backlog) - 1
        /\ Head(backlog) = backlog[1] /\ Head(backlog) \in Conns
        /\ \A i \in 1 .. Len(backlog') : backlog'[i] = backlog[i + 1]
    BY <1>12 DEF AcceptClient
  <2>2. /\ 1 \in 1 .. Len(backlog)
        /\ \A i \in 1 .. Len(backlog') : i + 1 \in 1 .. Len(backlog) /\ i + 1 # 1
    BY ONLY <2>1
  <2>3. /\ socketFd[Head(backlog)] = None /\ Head(backlog) \notin fresh
        /\ \A i \in 1 .. Len(backlog') : backlog'[i] # Head(backlog)
    BY <2>1, <2>2 DEF LateInv, WaitingInv
  <2>4. \A f \in Fds : holder[f] # None => holder[f] # Head(backlog)
    BY <2>1, <2>2
  <2>5. HeldInv'
    BY <1>12, <2>1, <2>3, <2>4 DEF AcceptClient
  <2>6. AcceptedInv'
    <3>1. /\ fresh' = fresh /\ holder' = [holder EXCEPT ![fd] = Head(backlog)]
          /\ holder \in [Fds -> Conns \cup {None}]
      BY <1>12 DEF AcceptClient
    <3>2. AcceptedInv
      OBVIOUS
    <3>. QED
      BY ONLY <2>1, <2>2, <2>3, <3>1, <3>2 DEF AcceptedInv
  <2>. QED
    BY <2>5, <2>6
<1>13. CASE AddFd \/ AddConnectionLocks
  BY <1>13 DEF AddFd, AddConnectionLocks
<1>14. CASE AddConnection
  BY <1>14 DEF AddConnection
<1>15. CASE StartConnection
  BY <1>15 DEF StartConnection
<1>16. ASSUME NEW signal \in BOOLEAN, StopBegins(signal) PROVE LeakInv'
  BY <1>16, StopOrderIs DEF StopBegins
<1>17. CASE StopListening
  BY <1>17, StopOrderIs DEF StopListening
<1>18. CASE CloseAllBegins \/ CloseAllEnds \/ StopLoop
  BY <1>18, StopOrderIs DEF CloseAllBegins, CloseAllEnds, StopLoop
<1>19. ASSUME NEW fd \in Fds, CloseAllVisits(fd) PROVE LeakInv'
  BY <1>19 DEF CloseAllVisits
<1>20. CASE SignalAgain \/ UNCHANGED vars
  BY <1>20 DEF SignalAgain, vars
<1>. HIDE DEF LeakInv
<1>. QED
  BY <1>1, <1>2, <1>3, <1>4, <1>5, <1>6, <1>7, <1>8, <1>9, <1>10, <1>11, <1>12, <1>13,
     <1>14, <1>15, <1>16, <1>17, <1>18, <1>19, <1>20, StepCases

\* Stop() begins once: until then no signal has interrupted the loop's thread.
LifeInv == NotFreed /\ (pc["stopper"] = "idle" => ~onLoop)

LEMMA LifeStep ==
    ASSUME BaseInv, ThreadInv, LifeInv, [Next]_vars
    PROVE  LifeInv'
<1>. USE DEF BaseInv, Types, ThreadInv, ExclusionInv, Stopping, LifeInv, NotFreed, Tracked,
             At, Goto, fdVars, netVars
<1>1. ASSUME NEW c \in Conns, ClientConnects(c) PROVE LifeInv'
  BY <1>1 DEF ClientConnects
<1>2. ASSUME NEW t \in Threads, CloseReturnsEarly(t) PROVE LifeInv'
  BY <1>2 DEF CloseReturnsEarly
<1>3. ASSUME NEW t \in Threads, CloseBegins(t) \/ CloseMarks(t) PROVE LifeInv'
  BY <1>3 DEF CloseBegins, CloseMarks
<1>4. ASSUME NEW t \in Threads, CloseUnregisters(t) PROVE LifeInv'
  BY <1>4 DEF CloseUnregisters, RemoveFd, CanLockFds
<1>5. ASSUME NEW t \in Threads, CloseShuts(t) PROVE LifeInv'
  BY <1>5 DEF CloseShuts
<1>6. CASE EpollWait \/ NextIteration \/ AcceptFails
  BY <1>6 DEF EpollWait, NextIteration, AcceptFails
<1>7. ASSUME NEW event \in batch, HandleIoEvent(event) PROVE LifeInv'
  <2>1. event # NewClient => event.fd \in Fds
    OBVIOUS
  <2>. QED
    BY <1>7, <2>1 DEF HandleIoEvent
<1>8. CASE LockBuffer \/ UnlockBuffer
  BY <1>8 DEF LockBuffer, UnlockBuffer
<1>9. CASE CallbackCloses \/ CallbackEnds
  BY <1>9 DEF CallbackCloses, CallbackEnds
<1>10. ASSUME NEW t \in Threads, CloseEnds(t) PROVE LifeInv'
  BY <1>10 DEF CloseEnds
<1>11. CASE AddFdThrows
  BY <1>11 DEF AddFdThrows
<1>12. ASSUME NEW fd \in Fds, AcceptClient(fd) PROVE LifeInv'
  BY <1>12 DEF AcceptClient
<1>13. CASE AddFd \/ AddConnectionLocks
  BY <1>13 DEF AddFd, AddConnectionLocks
<1>14. CASE AddConnection \/ StartConnection
  BY <1>14 DEF AddConnection, StartConnection
<1>15. ASSUME NEW signal \in BOOLEAN, StopBegins(signal) PROVE LifeInv'
  BY <1>15, StopOrderIs DEF StopBegins
<1>16. CASE StopListening
  BY <1>16, StopOrderIs DEF StopListening
<1>17. CASE CloseAllBegins \/ CloseAllEnds \/ StopLoop
  BY <1>17, StopOrderIs DEF CloseAllBegins, CloseAllEnds, StopLoop
<1>18. ASSUME NEW fd \in Fds, CloseAllVisits(fd) PROVE LifeInv'
  BY <1>18 DEF CloseAllVisits, VisitInv
<1>19. CASE SignalAgain \/ UNCHANGED vars
  BY <1>19 DEF SignalAgain, vars
<1>. HIDE DEF LifeInv
<1>. QED
  BY <1>1, <1>2, <1>3, <1>4, <1>5, <1>6, <1>7, <1>8, <1>9, <1>10, <1>11, <1>12, <1>13,
     <1>14, <1>15, <1>16, <1>17, <1>18, <1>19, StepCases

-----------------------------------------------------------------------------
(* The theorems. *)

Inv == BaseInv /\ ThreadInv /\ FdInv /\ TrackInv /\ LateInv /\ LeakInv /\ LifeInv

THEOREM InvTheorem == SignalsOutsideAccept => (Spec => []Inv)
<1>. SUFFICES ASSUME SignalsOutsideAccept PROVE Spec => []Inv
  OBVIOUS
<1>1. ASSUME Init PROVE Inv
  <2>1. BaseInv
    BY <1>1, BaseInit
  <2>2. ThreadInv
    BY <1>1 DEF Init, ThreadInv, ExclusionInv, IdleInv, Stopping
  <2>3. FdInv
    BY <1>1 DEF Init, FdInv, AcceptInv, ShutInv, HandInv, FdOwned
  <2>4. TrackInv
    BY <1>1 DEF Init, TrackInv, OpenInv, OpenIsTracked, VisitsAll
  <2>5. LateInv
    BY <1>1 DEF Init, LateInv, WaitingInv, CallbackInv, EventInv, StaleEventDropped
  <2>6. LeakInv /\ LifeInv
    BY <1>1 DEF Init, LeakInv, HeldInv, AcceptedInv, LifeInv, NotFreed
  <2>. QED
    BY <2>1, <2>2, <2>3, <2>4, <2>5, <2>6 DEF Inv
<1>2. Inv /\ [Next]_vars => Inv'
  BY BaseStep, ThreadStep, FdStep, TrackStep, LateStep, LeakStep, LifeStep DEF Inv
<1>. QED
  BY <1>1, <1>2, PTL DEF Spec

\* For any clients and descriptors: a descriptor that is registered or held by
\* a connection is open and its own, whichever threads close it and whoever
\* reuses it.
THEOREM FdOwnedTheorem == SignalsOutsideAccept => (Spec => []FdOwned)
<1>1. Inv => FdOwned
  BY DEF Inv, FdInv
<1>. QED
  BY InvTheorem, <1>1, PTL

\* Whatever the callbacks a signal interrupts write to state_: a connection with
\* an open descriptor that the manager did not refuse is found under that
\* descriptor, or a thread is closing it, for any limit.
THEOREM OpenIsTrackedTheorem == SignalsOutsideAccept => (Spec => []OpenIsTracked)
<1>1. Inv => OpenIsTracked
  BY DEF Inv, TrackInv
<1>. QED
  BY InvTheorem, <1>1, PTL

\* An event that outlived its connection is never given to the one that reused
\* the descriptor.
THEOREM StaleEventDroppedTheorem == SignalsOutsideAccept => (Spec => []StaleEventDropped)
<1>1. Inv => StaleEventDropped
  BY DEF Inv, LateInv
<1>. QED
  BY InvTheorem, <1>1, PTL

\* When Stop() has returned, on another thread or in a signal handler outside
\* HandleNewConnection, the open descriptors belong to connections the manager
\* refused or that the loop's own Close() has still to close.
THEOREM ClosedByStopTheorem == SignalsOutsideAccept => (Spec => []ClosedByStop)
<1>1. Inv => ClosedByStop
  BY DEF Inv, TrackInv, VisitsAll, ClosedByStop
<1>. QED
  BY InvTheorem, <1>1, PTL

\* For any clients and descriptors, and two threads anywhere in Close() of one
\* connection: an open descriptor has an open connection, or a thread on its way
\* to close it, or was accepted for a Connection whose constructor threw.
THEOREM NoFdLeakedTheorem == SignalsOutsideAccept => (Spec => []NoFdLeaked)
<1>1. Inv => NoFdLeaked
  BY NoneIsNothing DEF Inv, BaseInv, Types, TrackInv, OpenInv, LeakInv, HeldInv, NoFdLeaked
<1>. QED
  BY InvTheorem, <1>1, PTL

\* fd_callbacks_ holds the closure that runs until its own Close() erases it, but
\* for a signal, and connections_ the connection CloseAllConnections closes for as
\* long as it does.
THEOREM NotFreedTheorem == SignalsOutsideAccept => (Spec => []NotFreed)
<1>1. Inv => NotFreed
  BY DEF Inv, LifeInv
<1>. QED
  BY InvTheorem, <1>1, PTL

=============================================================================
