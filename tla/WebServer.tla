----------------------------- MODULE WebServer ------------------------------
(***************************************************************************)
(* ppserver::WebServer with its ConnectionManager and the descriptors of   *)
(* its EventLoop: the loop's thread accepts, serves and closes connections *)
(* while Stop() runs on another thread or, in a signal handler, on the     *)
(* loop's own.  HandleIoEvent holds fd_mutex_ around every callback.       *)
(*                                                                         *)
(* What a connection does with an event is the subject of Connection: here *)
(* it locks its buffers, writes state_, and stays open or is closed.       *)
(***************************************************************************)
EXTENDS Integers, Sequences, FiniteSets

CONSTANTS
    Conns,           \* clients, each of which connects once
    Fds,             \* the descriptors accept4 can return
    MaxConnections,  \* config_.max_connections of the ConnectionManager
    Interruptible,   \* where in the loop's thread a signal is handled
    None             \* no connection, no descriptor, no thread

ASSUME NoneIsNothing == None \notin Conns \cup Fds
ASSUME LimitIsNat == MaxConnections \in Nat \ {0}

VARIABLES
    running,     \* running_ of the server
    looping,     \* running_ of the event loop
    listening,   \* listen_fd_ is open and registered
    backlog,     \* external: connections that were not accepted
    fresh,       \* external: clients that have not connected yet
    edge,        \* external: listen_fd_ is on epoll's ready list
    alive,       \* connections whose state_ is not CLOSING or DISCONNECTED
    socketFd,    \* socket_fd_ of each connection, None for -1
    holder,      \* external: the connection each open descriptor belongs to
    callbacks,   \* fd_callbacks_
    tracked,     \* connections_
    manager,     \* the thread that holds the ConnectionManager's mutex_
    buffer,      \* the connection whose buffer_mutex_ the loop's thread holds
    pc,          \* where the two threads are
    conn,        \* the connection each thread works on
    arg,         \* the descriptor it read from socket_fd_, to act on
    batch,       \* what is left of the events of epoll_wait
    unvisited,   \* the entries CloseAllConnections has not come to
    onLoop,      \* Stop() runs in a signal handler on the loop's thread
    unmanaged    \* history: connections no entry was ever made for

Threads == {"loop", "stopper"}

fdVars   == <<socketFd, holder, callbacks>>
netVars  == <<listening, backlog, fresh, edge>>
vars == <<running, looping, listening, backlog, fresh, edge, alive, socketFd, holder,
          callbacks, tracked, manager, buffer, pc, conn, arg, batch, unvisited, onLoop,
          unmanaged>>

Closing == {"close", "mark", "remove", "shut", "clean"}

Accepting == {"accept", "register", "add", "adding", "start"}

\* Within HandleIoEvent the loop's thread holds fd_mutex_.
InCallback == {"conn", "buffer"} \cup Closing \cup Accepting

LoopPhases == {"wait", "events", "returned"} \cup InCallback

StopPhases == {"idle", "listener", "lock", "next", "stop", "done"} \cup Closing

\* An event is for a descriptor, or for the listener; `of` is a history of
\* whose event it is.
Event == [fd : Fds \cup {None}, of : Conns \cup {None}]

NewClient == [fd |-> None, of |-> None]

Tracked == {tracked[fd] : fd \in Fds} \ {None}

Entries == {fd \in Fds : tracked[fd] # None}

TypeOK ==
    /\ running \in BOOLEAN /\ looping \in BOOLEAN /\ listening \in BOOLEAN
    /\ backlog \in Seq(Conns) /\ fresh \subseteq Conns /\ edge \in BOOLEAN
    /\ alive \subseteq Conns
    /\ socketFd \in [Conns -> Fds \cup {None}]
    /\ holder \in [Fds -> Conns \cup {None}]
    /\ callbacks \in [Fds -> Conns \cup {None}]
    /\ tracked \in [Fds -> Conns \cup {None}]
    /\ Cardinality(Entries) <= MaxConnections
    /\ manager \in Threads \cup {None}
    /\ buffer \in Conns \cup {None}
    /\ pc \in [Threads -> LoopPhases \cup StopPhases]
    /\ pc["loop"] \in LoopPhases /\ pc["stopper"] \in StopPhases
    /\ conn \in [Threads -> Conns \cup {None}]
    /\ arg \in [Threads -> Fds \cup {None}]
    /\ batch \subseteq Event
    /\ unvisited \subseteq Fds
    /\ onLoop \in BOOLEAN
    /\ unmanaged \subseteq Conns

\* Start() has returned true and the loop is in Run().
Init ==
    /\ running = TRUE /\ looping = TRUE
    /\ listening = TRUE /\ backlog = <<>> /\ fresh = Conns /\ edge = FALSE
    /\ alive = {}
    /\ socketFd = [c \in Conns |-> None]
    /\ holder = [fd \in Fds |-> None]
    /\ callbacks = [fd \in Fds |-> None]
    /\ tracked = [fd \in Fds |-> None]
    /\ manager = None /\ buffer = None
    /\ pc = [t \in Threads |-> IF t = "loop" THEN "wait" ELSE "idle"]
    /\ conn = [t \in Threads |-> None] /\ arg = [t \in Threads |-> None]
    /\ batch = {} /\ unvisited = {} /\ onLoop = FALSE /\ unmanaged = {}

-----------------------------------------------------------------------------
(* Threads and locks. *)

\* The loop's own code does not run while a signal handler does.
At(t, phase) ==
    /\ pc[t] = phase
    /\ t = "loop" /\ onLoop => pc["stopper"] \in {"idle", "done"}

Goto(t, phase) == pc' = [pc EXCEPT ![t] = phase]

\* fd_mutex_ is recursive: the loop's thread takes it again in a callback.
Unlocked(t) == TRUE

NotRecursive(t) == pc["loop"] \notin InCallback

CanLockFds(t) == t = "loop" \/ onLoop \/ pc["loop"] \notin InCallback

\* The ConnectionManager's mutex_ is not.
CanLockManager == manager = None

\* buffer_mutex_ is not either, and held across steps by the loop's thread only.
CanLockBuffer(c) == buffer # c

-----------------------------------------------------------------------------
(* Connection::Close(), on either thread. *)

\* Neither the test of state_, nor its writes, nor socket_fd_ are protected: the
\* two threads may be anywhere in Close() of one connection.  The callback that
\* called Close() goes on, and releases buffer_mutex_ if it held it.
CloseReturnsEarly(t) ==
    /\ At(t, "close") /\ conn[t] \notin alive
    /\ IF t = "loop"
          THEN Goto(t, "conn") /\ buffer' = None /\ UNCHANGED conn
          ELSE Goto(t, "next") /\ conn' = [conn EXCEPT ![t] = None] /\ UNCHANGED buffer
    /\ UNCHANGED <<running, looping, netVars, alive, fdVars, tracked, manager, arg, batch,
                   unvisited, onLoop, unmanaged>>

CloseBegins(t) ==
    /\ At(t, "close") /\ conn[t] \in alive
    /\ Goto(t, "mark")
    /\ UNCHANGED <<running, looping, netVars, alive, fdVars, tracked, manager, buffer, conn,
                   arg, batch, unvisited, onLoop, unmanaged>>

\* What a thread reads of socket_fd_, here or when it comes to use it.
ReadFd(t) == arg' = [arg EXCEPT ![t] = socketFd[conn[t]]]

FdRead(t) == {arg[t], socketFd[conn[t]]}

\* state_ = CLOSING, and the argument of RemoveFd.
CloseMarks(t) ==
    /\ At(t, "mark")
    /\ alive' = alive \ {conn[t]}
    /\ ReadFd(t)
    /\ Goto(t, "remove")
    /\ UNCHANGED <<running, looping, netVars, fdVars, tracked, manager, buffer, conn, batch,
                   unvisited, onLoop, unmanaged>>

\* RemoveFd, under fd_mutex_, for which the thread may have waited; then the
\* test of socket_fd_.
RemoveNothing(fd) == UNCHANGED callbacks

RemoveFd(fd) ==
    callbacks' = [f \in Fds |-> IF f = fd THEN None ELSE callbacks[f]]

CloseUnregisters(t) ==
    /\ At(t, "remove")
    /\ CanLockFds(t)
    /\ \E fd \in FdRead(t) : RemoveFd(fd)
    /\ ReadFd(t)
    /\ Goto(t, "shut")
    /\ UNCHANGED <<running, looping, netVars, alive, socketFd, holder, tracked, manager,
                   buffer, conn, batch, unvisited, onLoop, unmanaged>>

\* shutdown() and close(), unless the descriptor is -1.
ShutdownOnly(fd) == UNCHANGED holder

CloseFd(fd) == holder' = [f \in Fds |-> IF f = fd THEN None ELSE holder[f]]

\* close() and socket_fd_ = -1: who reads socket_fd_ between the two has in hand
\* what it would have, had it read before.
CloseShuts(t) ==
    /\ At(t, "shut")
    /\ \E fd \in FdRead(t) : CloseFd(fd)
    /\ socketFd' = [socketFd EXCEPT ![conn[t]] = None]
    /\ Goto(t, "clean")
    /\ arg' = [arg EXCEPT ![t] = None]
    /\ UNCHANGED <<running, looping, netVars, alive, callbacks, tracked, manager, buffer,
                   conn, batch, unvisited, onLoop, unmanaged>>

\* CleanupResources, for which buffer_mutex_ is locked, and state_ = DISCONNECTED.
\* The closure of a callback is gone by now: what it would still do is left out.
CloseEnds(t) ==
    /\ At(t, "clean") /\ CanLockBuffer(conn[t])
    /\ alive' = alive \ {conn[t]}
    /\ Goto(t, IF t = "loop" THEN "events" ELSE "next")
    /\ conn' = [conn EXCEPT ![t] = None]
    /\ UNCHANGED <<running, looping, netVars, fdVars, tracked, manager, buffer, arg, batch,
                   unvisited, onLoop, unmanaged>>

Close(t) ==
    \/ CloseReturnsEarly(t) \/ CloseBegins(t) \/ CloseMarks(t)
    \/ CloseUnregisters(t) \/ CloseShuts(t) \/ CloseEnds(t)

-----------------------------------------------------------------------------
(* The loop's thread: Run(), HandleIoEvent and the callbacks. *)

\* A client connects: every arrival is an edge of the listening socket.
ClientConnects(c) ==
    /\ listening /\ c \in fresh
    /\ fresh' = fresh \ {c}
    /\ backlog' = Append(backlog, c)
    /\ edge' = TRUE
    /\ UNCHANGED <<running, looping, listening, alive, fdVars, tracked, manager, buffer, pc,
                   conn, arg, batch, unvisited, onLoop, unmanaged>>

\* What epoll can report.
Ready == {[fd |-> fd, of |-> holder[fd]] : fd \in {f \in Fds : callbacks[f] # None}}
             \cup IF edge THEN {NewClient} ELSE {}

\* epoll_wait returns; an edge is reported once.
EpollWait ==
    /\ At("loop", "wait")
    /\ batch' \in SUBSET Ready
    /\ edge' = (edge /\ NewClient \notin batch')
    /\ Goto("loop", "events")
    /\ UNCHANGED <<running, looping, listening, backlog, fresh, alive, fdVars, tracked,
                   manager, buffer, conn, arg, unvisited, onLoop, unmanaged>>

\* The batch is done, timers and tasks too: `while (running_)`.
NextIteration ==
    /\ At("loop", "events") /\ batch = {}
    /\ Goto("loop", IF looping THEN "wait" ELSE "returned")
    /\ UNCHANGED <<running, looping, netVars, alive, fdVars, tracked, manager, buffer, conn,
                   arg, batch, unvisited, onLoop, unmanaged>>

\* HandleIoEvent: an event whose descriptor has no callback is dropped.
HandleIoEvent(event) ==
    /\ At("loop", "events") /\ event \in batch
    /\ batch' = batch \ {event}
    /\ IF event = NewClient
          THEN /\ Goto("loop", IF listening THEN "accept" ELSE "events")
               /\ UNCHANGED conn
          ELSE /\ conn' = [conn EXCEPT !["loop"] = callbacks[event.fd]]
               /\ Goto("loop", IF callbacks[event.fd] = None THEN "events" ELSE "conn")
    /\ UNCHANGED <<running, looping, netVars, alive, fdVars, tracked, manager, buffer, arg,
                   unvisited, onLoop, unmanaged>>

\* ReadData, WriteData, DefaultHandleWrite and two accessors of the read buffer
\* lock buffer_mutex_.
LockBuffer ==
    /\ At("loop", "conn")
    /\ buffer' = conn["loop"]
    /\ Goto("loop", "buffer")
    /\ UNCHANGED <<running, looping, netVars, alive, fdVars, tracked, manager, conn, arg,
                   batch, unvisited, onLoop, unmanaged>>

\* state_ is set to READING, WRITING or CONNECTED, or left: whoever closed the
\* connection since the callback began is not noticed.
UnlockBuffer ==
    /\ At("loop", "buffer")
    /\ alive' \in {alive, alive \cup {conn["loop"]}}
    /\ buffer' = None
    /\ Goto("loop", "conn")
    /\ UNCHANGED <<running, looping, netVars, fdVars, tracked, manager, conn, arg, batch,
                   unvisited, onLoop, unmanaged>>

\* Close() is called without buffer_mutex_, or with it: when a buffer overflows or
\* a write fails.
CallbackCloses ==
    /\ At("loop", "conn") \/ At("loop", "buffer")
    /\ Goto("loop", "close")
    /\ UNCHANGED <<running, looping, netVars, alive, fdVars, tracked, manager, buffer, conn,
                   arg, batch, unvisited, onLoop, unmanaged>>

CallbackEnds ==
    /\ At("loop", "conn")
    /\ Goto("loop", "events")
    /\ conn' = [conn EXCEPT !["loop"] = None]
    /\ UNCHANGED <<running, looping, netVars, alive, fdVars, tracked, manager, buffer, arg,
                   batch, unvisited, onLoop, unmanaged>>

ConnectionCallback == LockBuffer \/ UnlockBuffer \/ CallbackCloses \/ CallbackEnds

\* accept4 fails: nobody is waiting, or the process, all of it, has as many
\* descriptors as it may have.
AcceptFails ==
    /\ At("loop", "accept")
    /\ Goto("loop", "events")
    /\ UNCHANGED <<running, looping, netVars, alive, fdVars, tracked, manager, buffer, conn,
                   arg, batch, unvisited, onLoop, unmanaged>>

\* The client is accepted; the Connection's constructor throws, which leaves
\* the descriptor open, when the client has gone already.
AcceptClient(fd) ==
    /\ At("loop", "accept")
    /\ backlog # <<>> /\ holder[fd] = None
    /\ holder' = [holder EXCEPT ![fd] = Head(backlog)]
    /\ backlog' = Tail(backlog)
    /\ \/ /\ socketFd' = [socketFd EXCEPT ![Head(backlog)] = fd]
          /\ alive' = alive \cup {Head(backlog)}
          /\ conn' = [conn EXCEPT !["loop"] = Head(backlog)]
          /\ Goto("loop", "register")
          /\ UNCHANGED unmanaged
       \/ /\ unmanaged' = unmanaged \cup {Head(backlog)}
          /\ Goto("loop", "events")
          /\ UNCHANGED <<socketFd, alive, conn>>
    /\ UNCHANGED <<running, looping, listening, fresh, edge, callbacks, tracked, manager,
                   buffer, arg, batch, unvisited, onLoop>>

AddFd ==
    /\ At("loop", "register")
    /\ callbacks' = [callbacks EXCEPT ![socketFd[conn["loop"]]] = conn["loop"]]
    /\ Goto("loop", "add")
    /\ UNCHANGED <<running, looping, netVars, alive, socketFd, holder, tracked, manager,
                   buffer, conn, arg, batch, unvisited, onLoop, unmanaged>>

\* EPOLL_CTL_ADD fails and AddFd throws: the connection is destroyed on the way
\* to HandleIoEvent, which catches the exception.  ~Connection calls Close(), where
\* state_ is CONNECTING, and which gets no further than OnDisconnection.
AddFdThrows ==
    /\ At("loop", "register")
    /\ unmanaged' = unmanaged \cup {conn["loop"]}
    /\ Goto("loop", "mark")
    /\ UNCHANGED <<running, looping, netVars, alive, fdVars, tracked, manager, buffer, conn,
                   arg, batch, unvisited, onLoop>>

\* AddConnection: mutex_ is taken ...
AddConnectionLocks ==
    /\ At("loop", "add") /\ CanLockManager
    /\ manager' = "loop"
    /\ Goto("loop", "adding")
    /\ UNCHANGED <<buffer, running, looping, netVars, alive, fdVars, tracked, conn, arg,
                   batch, unvisited, onLoop, unmanaged>>

\* connections_[fd] = conn replaces the entry of a connection that is closed.
InsertNew(fd, c) == [tracked EXCEPT ![fd] = IF @ = None THEN c ELSE @]

Insert(fd, c) == [tracked EXCEPT ![fd] = c]

\* The limit counts entries: those of closed connections, and the one replaced.
OnePastFull == Cardinality(Entries) > MaxConnections

Full == Cardinality(Entries) >= MaxConnections

\* ... the entry is made unless there are too many, and mutex_ is released.  The
\* caller ignores the result.
AddConnection ==
    /\ At("loop", "adding")
    /\ IF Full
          THEN unmanaged' = unmanaged \cup {conn["loop"]} /\ UNCHANGED tracked
          ELSE /\ tracked' = Insert(socketFd[conn["loop"]], conn["loop"])
               /\ UNCHANGED unmanaged
    /\ manager' = None
    /\ Goto("loop", "start")
    /\ UNCHANGED <<buffer, running, looping, netVars, alive, fdVars, conn, arg, batch,
                   unvisited, onLoop>>

\* Connection::Start() sets state_ whatever it was.
StartConnection ==
    /\ At("loop", "start")
    /\ alive' = alive \cup {conn["loop"]}
    /\ Goto("loop", "events")
    /\ conn' = [conn EXCEPT !["loop"] = None]
    /\ UNCHANGED <<running, looping, netVars, fdVars, tracked, manager, buffer, arg, batch,
                   unvisited, onLoop, unmanaged>>

LoopStep ==
    \/ EpollWait \/ NextIteration
    \/ \E event \in batch : HandleIoEvent(event)
    \/ ConnectionCallback \/ Close("loop")
    \/ AcceptFails \/ \E fd \in Fds : AcceptClient(fd)
    \/ AddFd \/ AddFdThrows \/ AddConnectionLocks \/ AddConnection \/ StartConnection

-----------------------------------------------------------------------------
(* Stop(). *)

\* The order of its steps.
ConnectionsFirst == <<"lock", "listener", "stop", "done">>

StopOrder == <<"listener", "lock", "stop", "done">>

After(phase) ==
    StopOrder[(CHOOSE i \in DOMAIN StopOrder : StopOrder[i] = phase) + 1]

\* Stop() is called by another thread, or by a signal's handler on the loop's.
StopBegins(signal) ==
    /\ pc["stopper"] = "idle" /\ running
    /\ signal => pc["loop"] \in Interruptible
    /\ running' = FALSE
    /\ onLoop' = signal
    /\ Goto("stopper", StopOrder[1])
    /\ UNCHANGED <<looping, netVars, alive, fdVars, tracked, manager, buffer, conn, arg,
                   batch, unvisited, unmanaged>>

\* RemoveFd(listen_fd_) and close; clients nobody accepted are reset.
StopListening ==
    /\ pc["stopper"] = "listener"
    /\ CanLockFds("stopper")
    /\ listening' = FALSE /\ backlog' = <<>> /\ edge' = FALSE
    /\ Goto("stopper", After("listener"))
    /\ UNCHANGED <<running, looping, fresh, alive, fdVars, tracked, manager, buffer, conn,
                   arg, batch, unvisited, onLoop, unmanaged>>

\* CloseAllConnections takes mutex_ and begins its loop.
CloseAllBegins ==
    /\ pc["stopper"] = "lock" /\ CanLockManager
    /\ manager' = "stopper"
    /\ unvisited' = Entries
    /\ Goto("stopper", "next")
    /\ UNCHANGED <<running, looping, netVars, alive, fdVars, tracked, buffer, conn, arg,
                   batch, onLoop, unmanaged>>

CloseAllVisits(fd) ==
    /\ pc["stopper"] = "next" /\ fd \in unvisited
    /\ unvisited' = unvisited \ {fd}
    /\ conn' = [conn EXCEPT !["stopper"] = tracked[fd]]
    /\ Goto("stopper", "close")
    /\ UNCHANGED <<running, looping, netVars, alive, fdVars, tracked, manager, buffer, arg,
                   batch, onLoop, unmanaged>>

\* clear(), and mutex_ is released.
CloseAllEnds ==
    /\ pc["stopper"] = "next" /\ unvisited = {}
    /\ tracked' = [fd \in Fds |-> None]
    /\ manager' = None
    /\ Goto("stopper", After("lock"))
    /\ UNCHANGED <<buffer, running, looping, netVars, alive, fdVars, conn, arg, batch,
                   unvisited, onLoop, unmanaged>>

StopLoop ==
    /\ pc["stopper"] = "stop"
    /\ looping' = FALSE
    /\ Goto("stopper", After("stop"))
    /\ UNCHANGED <<running, netVars, alive, fdVars, tracked, manager, buffer, conn, arg,
                   batch, unvisited, onLoop, unmanaged>>

\* HandleSignal of a later signal: Stop() returns at once, the loop is stopped.
SignalAgain ==
    /\ ~running /\ looping
    /\ looping' = FALSE
    /\ UNCHANGED <<running, netVars, alive, fdVars, tracked, manager, buffer, pc, conn, arg,
                   batch, unvisited, onLoop, unmanaged>>

StopStep ==
    \/ StopListening \/ CloseAllBegins \/ \E fd \in Fds : CloseAllVisits(fd)
    \/ Close("stopper") \/ CloseAllEnds \/ StopLoop

Next ==
    \/ \E c \in Conns : ClientConnects(c)
    \/ LoopStep \/ StopStep
    \/ \E signal \in BOOLEAN : StopBegins(signal)
    \/ SignalAgain

Spec == Init /\ [][Next]_vars

\* The threads run and epoll_wait returns once WakeUp() has been called.  A
\* callback that waits for no mutex ends: it makes a handful of calls.  A mutex
\* that is free again and again is had in the end.
FairSpec ==
    /\ Spec
    /\ WF_vars(LoopStep /\ (pc["loop"] = "wait" => ~looping))
    /\ SF_vars(CallbackEnds)
    /\ SF_vars(StopStep)

-----------------------------------------------------------------------------
(* Properties. *)

\* A descriptor that is registered, or that a Connection would read or write, is
\* open and belongs to that Connection's client; one that a thread has in hand,
\* however long ago it was read, is its connection's or nobody's.  So RemoveFd
\* and close(), called twice or late, never reach a client that came after.
FdOwned ==
    /\ \A c \in Conns, fd \in Fds :
           callbacks[fd] = c \/ socketFd[c] = fd => holder[fd] = c
    /\ \A t \in Threads :
           arg[t] # None => holder[arg[t]] \in {conn[t], None}

\* A thread is in Close() of the connection, with the descriptor still open.
BeingClosed(c) == \E t \in Threads : conn[t] = c /\ pc[t] \in {"remove", "shut"}

\* Every connection with an open descriptor that the manager did not refuse is
\* found under it, past the stale entries that nothing ever erases, or is being
\* closed: CloseAllConnections misses none, whatever state_ says.
OpenIsTracked ==
    \A c \in Conns \ unmanaged : socketFd[c] # None =>
        \/ conn["loop"] = c /\ pc["loop"] \in Accepting
        \/ tracked[socketFd[c]] = c
        \/ BeingClosed(c)

\* Every open descriptor has somebody to close it: its connection is open, or a
\* thread is on its way to close(), also when two close one connection and each
\* finds a part of it done, or AddFd throws.  Only a client whose Connection could
\* not be constructed is never closed.
NoFdLeaked ==
    \A fd \in Fds : holder[fd] # None =>
        \/ holder[fd] \in alive \/ BeingClosed(holder[fd])
        \/ holder[fd] \in unmanaged /\ socketFd[holder[fd]] = None

\* What a thread works on is not freed under it.  The closure that runs is still
\* in fd_callbacks_ until the callback itself closes, whatever Stop() does on
\* another thread: only a signal on the loop's own erases it before.  The entry
\* CloseAllConnections is at still owns the connection, though its descriptor may
\* have been closed and accepted anew.
NotFreed ==
    /\ pc["loop"] \in {"conn", "buffer", "close"} /\ ~onLoop =>
           \E fd \in Fds : callbacks[fd] = conn["loop"]
    /\ pc["stopper"] \in Closing => conn["stopper"] \in Tracked

\* An event is never handled by the connection that reused the descriptor of the
\* one it was reported for.
StaleEventDropped ==
    \A event \in batch :
        event # NewClient => callbacks[event.fd] \in {None, event.of}

\* Stop() accepts nobody behind its back: when it has returned, an open descriptor
\* is one of a connection the manager had refused, or in a Close() of the loop's
\* that Stop() came across.
ClosedByStop ==
    pc["stopper"] = "done" =>
        \A c \in Conns : socketFd[c] # None => c \in unmanaged \/ BeingClosed(c)

\* The loop's thread waits for a buffer_mutex_ it holds: in a Close() that its
\* callback called under it, or in the handler of a signal that interrupted the
\* callback.
WaitsForItself ==
    \E t \in Threads :
        /\ pc[t] = "clean" /\ ~CanLockBuffer(conn[t])
        /\ t = "loop" \/ onLoop

\* A shutdown that has begun ends, and so does the loop, but for a buffer_mutex_
\* its thread has locked before.
ShutdownEnds ==
    ~running ~> \/ pc["stopper"] = "done" /\ pc["loop"] = "returned"
                \/ WaitsForItself

\* Stop() returns from a signal handler.
SignalHandled == onLoop ~> pc["stopper"] = "done"
=============================================================================
