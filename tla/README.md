# A TLA+ model of ppy_webserver

The repository is a small HTTP server in C++: an epoll event loop, a thread
pool, connections with a handler, an HTTP parser and the server object that
ties them together (`src/src/core/`, about 2900 lines). This directory holds
TLA+ modules for the parts that keep state and run concurrently, TLC
configurations that check them, and TLAPS proofs of their main invariants.

Paths below are relative to the directory that holds `src/` and `tla/`; a file
name without a directory is in `src/src/core/`.

## 1. The system

| Component | State | Operations | Modelled in |
|---|---|---|---|
| `EventLoop` | `running_`, `owner_thread_id_`, `event_fd_`, `pending_tasks_`, `timers_`, `next_timer_id_`, `fd_callbacks_` | `Run`, `Stop`, `QueueInLoop`, `RunInLoop`, `RunAfter`, `RunEvery`, `CancelTimer`, `AddFd`, `UpdateFd`, `RemoveFd` | `TaskFifo`, `TimerService`, `EventLoop` (descriptors: `WebServer`, `Connection`) |
| `ThreadPool` | `tasks_`, `shutdown_`, the workers | `Submit`, `Shutdown`, the worker loop, the destructor | `TaskPool`, `ThreadPool` |
| `Connection` + `Handler` | `state_`, `socket_fd_`, `read_buffer_`, `write_buffer_`, the registered interest | `HandleReadable`, `HandleWritable`, `HandleError`, `WriteData`, `Close` | `Exchange`, `Connection` |
| `HttpParser` | `state_`, `request_`, `content_length_`, `current_chunk_size_`, `chunk_size_parsed_`, `buffer_` | `Parse`, `Reset`, `GetRequest` | `Reception`, `HttpMessage`, `HttpParser` |
| `HttpRequest` | the request line, `headers_` and `headers_lowercase_`, `body_`, `query_params_` and `query_parsed_` | setters, look-ups, `ParseQueryParameters`, the parts of the path | `HttpRequest`, as steps in `HttpParser` |
| `WebServer` | `running_`, `listen_fd_` | `Start`, `HandleNewConnection`, `Stop`, the signal handlers | `WebServer` |
| `ConnectionManager` | `connections_` | `AddConnection`, `CloseAllConnections` and four that are not called | `WebServer` |
| `HttpResponse` | fields of a message | accessors | not modelled |
| `main.cpp` | none | construction, port probe, `Run` | not modelled |
| `loger.*` | empty files | | |
| `src/tests/`, `src/examples/` | | written against other interfaces, or examples | not modelled |

**How they interact.** One thread calls `EventLoop::Run()`. It blocks in
`epoll_wait`, then handles the reported descriptors (with `fd_mutex_` held
around each callback), then expired timers, then the queued tasks. Everything
about connections happens in such callbacks: `WebServer` registers the listening
socket, `HandleNewConnection` accepts a client, makes a `Connection` and a
`Handler`, registers the descriptor with a closure that owns the connection, and
gives the connection to the `ConnectionManager`. The `Handler` answers in the
loop's thread with `WriteData`. Other threads reach the loop only through tasks,
timers and `Stop()`, all of which end in a write to the eventfd. `Stop()` of the
server closes connections from whatever thread calls it, or from a signal
handler that interrupted any thread. The thread pool is handed to each handler,
which does not submit to it.

**What is hard.** The wake-up protocol of the loop (work is published under a
lock, the eventfd is written after it, and one read drains several
notifications); the tests of `running_` that are apart from its writes; timers
that are in neither the heap nor a callback; a condition variable notified after
the unlock; edge-triggered readiness with partial writes; a message cut at any
place; two indexes of one set of headers and a cache of the query; descriptors
that are closed by two threads and reused at once; two mutexes taken in both
orders; signal handlers that run in the middle of anything; a `state_` that several
places write without looking.
`PROJECT.json` lists these hazards at their lines, with the properties that
answer to each.

## 2. Modules

### `TaskFifo`, `TimerService`, `EventLoop`, `MCEventLoop`, `EventLoopProofs`

`TaskFifo` is what `QueueInLoop` promises: accepted tasks are executed once, one
at a time, in order. `TimerService` is what `RunAfter`, `RunEvery` and `CancelTimer`
promise: a callback starts once its timer has expired, the one that expired first
before the others, a repeated timer is due again after at least an interval, and a timer
that waits is given up only by a `CancelTimer`. The cancellation may come too late for a
timer that has expired, and does for one whose callback runs: that is what the code does,
and the run `eventloop_cancel_in_callback` holds it against the comment of
`CancelTimer`. `EventLoop` is the implementation of both, with any number of threads. A step is one critical section, one atomic access or one system call:

- `Enter` / `BeginLoop`: the test of `running_` (`event_loop.cpp:55`) and the
  stores at lines 59-60 are two steps, so a `Stop()` can fall in between. The two
  stores are one step, because the only reader of `owner_thread_id_` does not read
  `running_`.
- `CheckRunning`, `CalculateNextTimeout`, `EpollWaitReturns`, `DispatchEvent`,
  `ReadClock`, `ExtractExpired`, `Fire`/`EndCallback`, `SwapTasks`/`EndTask`: the
  body of the loop in its order. The preemption between the calculation of the
  timeout and the call of `epoll_wait` is not a step; a delay there is a delay of the
  scheduler.
- `QueueInLoop` and `Stop` leave the caller in `waking`, and `WakeUp` is a step of
  its own. `RunAfter` and `RunEvery` write the eventfd while they hold `timer_mutex_`,
  so push and write are one step.
- The eventfd is registered level-triggered and only ever drained, so a boolean
  stands for its counter exactly.
- `ToInt` is the `static_cast<int>` of a 64-bit distance, with `IntMax` for
  `INT_MAX`.

A callback or task may make every call while it runs. Bounds: a task in flight
is not submitted again, an inline task runs no other inline, `MaxTimers`
timers are created, the clock stops at `MaxTime`. Errors of `epoll_wait` other
than `EINTR` (logged, loop repeated), the destructor and `GetStatistics` are left out.

### `TaskPool`, `ThreadPool`, `MCThreadPool`, `ThreadPoolProofs`

`TaskPool` is what a pool promises: tasks start in the order of acceptance,
once each, none is accepted after it was closed, and completion is reported only
when nothing is queued or running. `ThreadPool` has the critical sections of
`queue_mutex_`, the notifications that follow the unlock, the joins and the
destructor. `Workers` are the threads that were really created (the constructor
ignores a failed creation). Spurious wake-ups happen but are never relied on. A
thread calls `Shutdown` once besides the destructor's call. A task may shut down the
pool it runs on: with `true` it joins the workers created before its own and then
itself, where `join()` throws (`JoinItself`), and the others stay joinable.
`life = "terminated"` is `std::terminate` in the destructor, which is how a pool ends
that `Shutdown(false)` or a task shut down; `AcceptedTaskRuns` excepts exactly that
(`NotJoining`). A call that finds the flag set ends in `early`, with tasks perhaps still
to run; `OneShutdown` says that there is then always exactly one other call that went
on, that it wakes every worker, and that the process ends only where that call does not
join.

### `Exchange`, `Connection`, `MCConnection`, `ConnectionProofs`

`Exchange` is what a client is promised: a response only to a request received in
full and never two to one, the next only when the one before was written from its
first unit to its last, and nothing after the end. It promises no answer: requests
that arrive behind another in one read are counted and dropped.

One connection in the loop's thread, with the kernel's buffers, the
edge-triggered ready list and the client as an environment that acts between
any two handlers. Bytes are counted in units; a request is any number of `part`
units and an `end` unit (the one that brings the blank line `Handler` looks
for). `Modify` is `EPOLL_CTL_MOD`, which polls anew. `ev` is what the closure of
`HandleNewConnection` still has to look at of one call: read, then write, then
error. What the code does wrong is in the model as it does it: `CloseWhileLocked` (a
close that waits for a mutex its thread holds), `UseErasedClosure` (the closure that is
running was erased; what follows is a nondeterministic choice), `WriteFails` with
SIGPIPE, reading once per edge, and no close after a response. The properties say how
far each of them reaches: `LostOnlyToHaste` which clients can cost the loop its thread
(a reset may, by a mutex or by SIGPIPE: `connection_write_error` is about every
error), `ClosedUnansweredOnlyByClient` on which clients the server closes before they
have a whole response (it says nothing of those who have one: these should be closed,
which is the run `connection_close`), `InputStrandedByFullReadOnly` which input nobody
comes for, and `SmallRequestServed` that a client which sends no more than one read can
hold, and waits, has its response.

Left out: the default reading without a `Handler`, `WriteData`'s overflow (a
response that does not fit, excluded by `ResponseFits`), the connection's own
timeout, which nothing calls, and what a TCP close does with data in flight.

### `HttpRequest`, `HttpMessage`, `Reception`, `HttpParser`, `MCHttpParser`, `HttpParserProofs`, `HttpMessageProofs`

`HttpRequest` has each member function of the request as an operator on a record.
A name is a field with a spelling, so that `ToLower` is a projection; the value of a
header is a number, or one of the values `std::stoul` throws for or that are empty;
queries and paths are sequences of the characters that matter. `SetHeaders` returns
every result the order of an `unordered_map` allows. `ParseQueryString` and the parts
of the path are compared with definitions of what they mean on all strings of up to
six characters (the ASSUMEs of `MCHttpParser`).

`HttpMessage` is what a client sends, and what it means, apart from any parser: a
sequence of tokens (CR, LF, the text of a line, bytes of a body) with where its parts
are. `IsMessage` says that the headers and chunks a message names are those of its
wire, `WellFormed` that the wire begins with a whole request, `SizeOf` how long that
is, `Fields` which value each header has. Nothing is assumed of a message but
`IsMessage`, and every wire has one: `EveryWireIsAMessage` compares it with a reading
of the wire, which needs recursion, on all wires up to a small length and on the
messages of the run. Two liberties of the parser are part of what a chunk is here: the
CRLF behind its data may be missing, and the one behind the chunk of size 0 is not
part of the request.

`Reception` is what the parser promises, in terms of how much of a message was given:
a verdict that is final until the next message, "complete" only for a well-formed one
that was given to its end, and then with its fields and its body, "refused" only for a
malformed one or one that was cut at a brittle place. `ReceptionSpec` maps it: what was
given is what is no longer unsent, a brittle place is the end of the data of a chunk
that has its CRLF (`ChunkEnds`).

`HttpParser` is the parser as it is called: the wire is cut into calls at every possible place, also between
CR and LF. A step is the beginning of a call, one line or one run of body
bytes, or the return, so a call that loops for ever is visible. The text of a header
line is one token, a line of more tokens than one is malformed. The query of a
request line stays in the path, as in the code: the parser never calls
`SetQueryString`. After `GetRequest` the request is its caller's, who makes the calls
of `EditHeaders`, `EditQuery` and `EditBody` in any order, until the parser is reset.
The numbers of `ParseResult`, a `Parse()` without data, and calls on a parser whose
request was taken (which find a null pointer) are left out; so are the request's
metadata, plain accessors, `IsKeepAlive`, `IsChunked`, the content type and the
conversions to strings.

### `WebServer`, `MCWebServer`, `WebServerProofs`

The server from a successful `Start()` on, with the connection manager and the
descriptors of the loop, on two threads: the loop's and one for `Stop()`, which
either is a thread of its own or (`onLoop`) a signal handler that has
interrupted the loop's. Locks are modelled by where the threads are: the loop holds
`fd_mutex_`, a recursive mutex, in every callback, `manager` is the holder of the
ConnectionManager's mutex and `buffer` the connection whose `buffer_mutex_` the loop
holds, neither of which is recursive. A callback locks and unlocks `buffer_mutex_` any
number of times (`LockBuffer`, `UnlockBuffer`), writes `state_` under it without looking
at what it was, and may call `Close()` inside or outside. `Close()` is five steps (test,
`state_ = CLOSING`, `RemoveFd`, `close`, `CleanupResources`), so both threads may pass
the test and be anywhere in it; the fifth waits for `buffer_mutex_`. `alive` is what
`state_` says, and after a signal it may say so of a connection that was closed: the
properties are about descriptors instead. `AddFdThrows` is `EPOLL_CTL_ADD` failing: the
connection is destroyed, and its destructor closes the descriptor in a `Close()` that an
exception ends behind `close()`. `arg` is the `socket_fd_` a thread has read: `RemoveFd` and `close`
use that value or the one there is when they run, whichever the build reads.
Descriptors are reused: `holder` says whose client a descriptor belongs to, and
an event remembers whose it was. `Interruptible` says where in the loop's thread a
signal may be handled.

The server's flag is read and set in one step: two `Stop()` calls that begin at
the same moment are not modelled, later ones are (`SignalAgain`). Not
modelled: what a callback does with a connection that a signal has closed under it,
beyond its locks and writes of `state_` (`UpdateFd` of the descriptor -1 throws, which
`HandleIoEvent` catches, and the closure is erased), `RemoveConnection`, `CleanupTimeoutConnections`, `GetConnection` (no
caller), a `Start()` that fails and one after `Stop()`, the destructors at the end of
`main`, mutexes of the allocator and of
iostreams that a signal handler may also find locked.

## 3. Runs

| Run | Shows | Result |
|---|---|---|
| `eventloop_tasks` | three threads queue and inline tasks, stop and restart the loop: no wake-up is lost, a task runs, the queue refines `TaskFifo` | pass |
| `eventloop_timers` | timers of delay 0, 1, 2, one-shot and repeated, added and cancelled by the loop's callbacks and another thread: none is late, the heap and the batch of expired timers refine `TimerService` | pass |
| `eventloop_lost_stop` | a `Stop()` inside `Run()`'s first two steps is overwritten | violation |
| `eventloop_cancel_in_callback` | a repeated timer that is cancelled while it is off the heap comes back | violation |
| `threadpool` | two workers, two clients, three tasks, each of which may submit and shut down: no worker sleeps on a backlog or through a shutdown, one call shuts down, the pool refines `TaskPool` | pass |
| `connection` | partial reads and writes, resets, shutdowns: output and input are not stranded, small requests are served, only what the client does ends the exchange before its response or costs the thread, the connection refines `Exchange` | pass |
| `connection_close` | a connection is not closed when its response was written: input closes it before that, or nothing does | violation |
| `connection_write_error` | a write error leaves the loop's thread waiting for itself | violation |
| `http_parser` | fifteen messages, cut in every way, on a parser that is reset and used again; the request of each edited in every order; the parser refines `Reception` | pass |
| `http_parser_hangs` | data that end inside a line | violation |
| `server` | three clients, three descriptors, a limit of two, a shutdown at any time, by a thread or by a signal outside `HandleNewConnection`: no descriptor is confused or leaked, `CloseAllConnections` misses none, a closure is freed under the loop only by a signal or its own `Close()`, and a connection under `Stop()` never; the shutdown ends, with the loop, unless the loop's thread waits for a `buffer_mutex_` it holds | pass |
| `server_signal_deadlock` | a signal while the loop's thread holds the manager's mutex or a `buffer_mutex_` (either alone is enough) | violation |

**Why the bounds are enough.** Two client threads besides the loop's let one
announce a wake-up while the other's is drained. Three tasks let one be
executing, one be in the batch and one be queued. Two timers are enough for one to be
fired while the other is extracted, added or cancelled, and delays of 0, 1 and 2 for
ties and for a later timer with an earlier expiration. `IntMax = 7` is beyond every
delay, as `NoLateTimer` requires and `NoLateTimerTheorem` assumes: of a delay an `int`
cannot hold it is not true, and no run checks it there. Two workers are needed for a
notification that releases the other worker than the one that takes the task. A
response of three units against a send buffer of two forces partial writes; reads of
two units into a buffer of four allow a read that fills its buffer, one that
continues and one that overflows; six sent units allow three requests, or two and
input behind them. The parser's messages have each kind of body, a body that contains
CRLF, data behind the message, chunks with and without their CRLF, a header in two spellings, a Content-Length that is
empty, and each kind of error; two values and two spellings tell an overwritten header
from a removed one, and the queries have an empty key, an empty value and two keys.
Three clients on
three descriptors reach the manager's limit with a stale entry, and two of them
the reuse of a descriptor. Nothing tells the clients of `WebServer` apart, so they
connect in one order (the action constraint `ArriveInOrder`; symmetry would not be sound
for its liveness property).

`CHECK_DEADLOCK FALSE` stands where a system really ends: a destroyed pool, a closed
connection, a stopped server. The event loop and the parser are checked for deadlock.

**Fairness.** Threads are scheduled (weak fairness of the steps of each); callbacks
and tasks return, whatever they call before (strong fairness, since the calls they
make disable their end for a while); `epoll_wait` returns if the eventfd is
readable or the timeout has passed, never because some signal or descriptor is
bound to come; a call that has published its work makes its `WakeUp()`; time
passes. Nobody has to submit, stop, close or send anything. `Connection`
assumes a client that takes what it is sent, for `OutputDrains`,
`SmallRequestServed` and `ClosedOnceWritten`.
In `WebServer` a callback that waits for no mutex ends (strong fairness of `CallbackEnds`,
since it locks and unlocks in between); one that waits for the `buffer_mutex_` its own
thread holds, as after a write error, never does, and no fairness makes it:
`ShutdownEnds` names that outcome (`WaitsForItself`), and `connection_write_error` and
`server_signal_deadlock` are the two ways to it.
`WebServer` also assumes that a mutex which is free again and again is had in the
end (strong fairness of `StopStep`): pthread mutexes do not promise it, but the loop releases `fd_mutex_` for every
`epoll_wait`, and without it no statement about `Stop()` on a busy loop is true.

### What the violations say

Each of the six is a disagreement between the code and a sentence of the
repository, quoted in `PROJECT.json`:

1. `Run()` sets `running_` after testing it; a `Stop()` in between has no effect.
2. `CancelTimer` does not see timers that `ProcessExpiredTimers` has in hand.
3. A connection is not "closed after the write" (`handler.cpp:60`), although its response
   says `Connection: close`. Any input event in `WRITING`, an end of file included, closes
   it before that and drops the response; without one, nothing closes it.
4. A write error is not handled. `DefaultHandleWrite` calls `Close()` with
   `buffer_mutex_` held, which `Close()` locks again (as in the overflow checks), and
   after a shutdown and a reset SIGPIPE ends the process before that.
5. `HttpParser::Parse` does not return when the data end inside a line.
6. `SignalHandler` runs `Stop()`, which locks the manager's mutex, which
   `AddConnection` may hold on the interrupted thread, and the `buffer_mutex_` of every
   open connection, which a callback may hold there.

Seen while modelling, without a run of their own. Five more contradict a sentence of
the repository, and the properties that come near them say so by their premises and
exceptions:

- A delay beyond `INT_MAX` milliseconds is no "exact time to wait" (`event_loop.cpp:296`):
  the cast makes it negative, for ever, or too short.
- Names of headers are case-insensitive (`http_request.hpp:124`), but `RemoveHeader`
  compares the spelling and hides every other one from `GetHeader`.
- `Stop()` waits until the present customers are served (`src/README.md:130`), but it
  closes every tracked connection at once, whatever the loop is doing for it;
  `ClosedByStop` says only that it leaves none open. There is no `ForceStop()` to tell it
  from.
- `max_connections` (`connection_manager.hpp:16`) limits what the manager keeps, not what
  the server serves: `HandleNewConnection` ignores that a connection was refused.
- `Shutdown(true)` lets the workers finish (`src/README.md:170`), but the second caller
  returns at once.

Beside these: two threads can both enter
`Run()`; `Shutdown(false)`, or a shutdown by a task, and the
destructor end the process;
`max_tasks` is not enforced; one `read` of 4096 bytes per edge; requests behind another in
one read are dropped, which a response with `Connection: close` may do and no property
forbids; one `accept4` per edge of the listening socket; the manager's limit counts the
entries of closed connections; the descriptor of a client that has gone before its `Connection` is
constructed is never closed; a callback that a signal interrupted writes `state_` of a
connection that `Stop()` has closed, which then counts as open; `SetQueryString("")` leaves the parameters of the query before it,
and parsing a query discards those that were added by hand; the parser takes the
encoding for chunked only if it is exactly `chunked`, `IsChunked()` if it contains the
word; an empty `Content-Length` counts as none; the data of a chunk need not be
followed by a CRLF, and the one that ends a chunked message stays in the buffer, in front
of whatever comes next; `main` never calls
`WebServer::Start()`.

## 4. Proofs

The theorems of `EventLoopProofs`, `ThreadPoolProofs`, `ConnectionProofs`,
`HttpParserProofs`, `HttpMessageProofs` and `WebServerProofs` hold for all values of the constants: any
threads, tasks, delays, buffer sizes, messages, clients, descriptors and limits. No assumption is made beyond those of
the modules and the ones a theorem states.

- **Event loop.** `Inv == TypeOK /\ PhaseInv` is inductive: `PhaseInv` says
  that a runner in `callback` has a timer in hand and one in `task` has a batch,
  without which the locals lose their types. `NoLostWakeup` is then
  inductive relative to `Inv`: whoever empties the eventfd is in a phase
  before the swap. `NoLostStop` needs one more premise, that at most one thread runs the
  loop, for a second runner could drain the eventfd the first one needs.
  `NoLateTimerTheorem` adds `DelayInv` (no timer on the heap is farther away than
  an `int` can say) for the premise that every delay fits, and the lemma
  `ToIntIdentity` about the cast. `FifoRefinement` maps the batch followed by
  the queue to `TaskFifo`'s queue; its lemmas say how `Append` and `Tail` act on a
  concatenation. `TimerConservation` needs `PlaceInv`, which says it of pairs of places:
  the ids of the heap, of each runner's hands and of the retired timers are disjoint and
  make up everything handed out; `HandsInv` says that only a runner that fires what
  it took off the heap, or is in a callback, has timers in hand. It is no property of a
  run: `TimerRefinement` says more of a loop with one runner. The heap and the timers
  taken off it are together the timers that wait, so that `ExtractExpired` is a stutter;
  `OrderInv` says that the clock `ProcessExpiredTimers` read lies between the timers in
  hand and those on the heap, whatever is added and repeated meanwhile, which is why the
  timer that fires is the first of all. `PlaceInv` is needed too: two timers with one id
  could be cancelled for each other.
- **Thread pool.** `Inv` adds to the types that a worker exits only when the flag is
  set and the queue is empty, that a thread which called `Shutdown` finds the flag set, and
  `ShutdownWakesAll`. `NoIdleWorker` compares cardinalities and uses the library's
  theorems on finite sets; it is inductive with `Inv`. `EndInv` holds the
  parts of `OneShutdown` together, that one call shuts down and that `std::terminate` is
  left to one that does not join, with two facts more: a pool that is being destroyed was
  shut down, and `join()` throws in tasks only. `PoolRefinement` assumes a
  worker: with none, `JoinAll` returns over a queue that was never drained.
- **Connection.** `Inv` is the types, `OutputRegistered`, `ByteConservation` and
  `ClosedIsClean`, each of which needs the others, with `ReadFirst`: a closure that has
  yet to read has not closed its connection. `NoStrandedOutput` is not inductive:
  a reset takes the edge that a full send buffer promises. `EdgeInv` adds that a reset
  which was not seen is still on the ready list, or being handled with the read first.
  `NoUnrequestedResponse` adds `AnswerInv`: between two reads the read buffer holds no
  end of a request, so no read answers one twice. `InputStrandedByFullReadOnly` needs
  only `EdgeInv`, by which an open connection stays registered for input.
  `ClosedUnansweredOnlyByClient` and `LostOnlyToHaste` are proved together (`HasteInv`,
  with the reason for which each pending event was reported); the invariant says more
  than the property, `ClosedByClient`, since as it is no connection is closed for having
  been answered. `ExchangeRefinement` counts: `ByteConservation` is why a
  new answer finds nothing left of the last one. The assumption that a response
  fits in the write buffer is the module's.
- **Parser and request.** `Types` is `TypeOK` with what a sequence of calls keeps: `pos`
  is 0 between calls, the request keeps the type of its fields, and the body is empty
  before `BODY` and no longer than its length there. `NothingLost` becomes inductive as
  `InOrder`, where a refused line may be gone past; its lemmas say how `SubSeq` cuts a
  sequence. `HeaderLostOnlyBySpelling` needs `Indexed`: what the index has is stored.
  `ParamsOfQuery` is inductive: nothing need be known of `ParseQueryString`, a recursive
  function no proof could unfold.
- **What the parser makes of a message** (`HttpMessageProofs`). The only assumption is
  `IsMessage` of every message. `Types` and `InOrder` make the buffer a window on the
  wire (`WindowIs`), so that a line of the buffer is the line of the wire at the place the
  parser is (`LineIs`) and a run of body bytes is a run of the wire (`RunIs`). `Progress`
  says for each state where in the message the parser is and what it has made of what is
  behind it: after the k-th header the index holds `FieldsUpTo(message, k)`, inside a body
  the request has the bytes in front of that place. Chunks need three places more: inside
  a chunk (`InChunk`), past the data of one whose CRLF had not come (`PastData`, where
  some call has ended or is about to, the only way to `RefusedOnlyAtChunkEnd`'s
  exception), and in a chunk that announces more than the client sends (`InShortChunk`). One
  lemma for each handler shows that it keeps `Progress`. `CompleteIsRight` and
  `RefusedOnlyAtChunkEnd` (an invariant that `ReceptionSpec` implies and no run repeats)
  follow from it, and so does every step of
  `ReceptionRefinement`: a step that leaves the parser undecided is a stutter of
  `Reception`, one that decides does it by `Progress` after the step.
- **Server.** The theorems but `TypeCorrect` assume `SignalsOutsideAccept`; the run
  `server_signal_deadlock` is what happens without it. `TypeOK` has the manager's
  limit, which `LimitStep` proves with the library's facts on cardinalities. The key
  to the rest is `ExclusionInv`: once `Stop()` is past the listener the loop
  accepts nobody, since `Stop()` either waited for `fd_mutex_` or had interrupted
  the loop elsewhere. From it follow, in this order, `FdInv` (`FdOwned`, with
  `ShutInv`: `close()` comes after `CLOSING` and `RemoveFd`, and `HandInv`: past it the
  connection has no descriptor) and `TrackInv`. Nothing in it rests on what `state_` says
  of a closed connection, for a callback that a signal interrupted may write anything
  there: `OpenInv` says that an open descriptor has a `state_` that is open or a thread in
  `Close()`, not the converse; `OpenIsTracked` and `VisitsAll` are about open descriptors
  (what is open is among the entries still to be visited, in the hands of `Stop()`, or
  being closed by the loop), and `ClosedByStop` is immediate from the latter. Then `LateInv`
  (`StaleEventDropped`, with `EventInv`: as long as somebody may be accepted, the
  descriptor of a pending event is still the one it was reported for). `NoFdLeaked`
  is `OpenInv` with `HeldInv`, by which an open descriptor is the one its connection knows
  unless the constructor threw, for which `AcceptedInv` is needed: nobody is accepted
  twice. `NotFreed` is inductive as `LifeInv`, which adds that no signal has interrupted
  the loop before `Stop()` begins.

Only model-checked: all liveness (`QueuedTaskRuns`, `StopEndsLoop`, `TimerFires`,
`AcceptedTaskRuns`, `ShutdownReturns`, `OutputDrains`, `SmallRequestServed`,
`OneCallSuffices`, `ShutdownEnds`), the meaning of queries and paths and that every wire
is a message (recursion over data), and the violations. Every invariant and every
action property of a passing run is stated by a theorem, and so is every refinement
(`FifoSpec` and `TimerSpec` for a loop with one runner, `PoolSpec` for a pool with a
worker).

## 5. Plan

Done: the seven state-keeping components, in the order of the table above, with five
refinements and the proofs of section 4. In the order of their worth, what is next:

1. `CleanupTimeoutConnections` as a timer of the loop, which nothing in `src/` is yet.
2. `Start()` with its error returns, and a server that is started again after `Stop()`.
3. The manager's limit, and `Stop()` beside what is being served, as properties of their own.
4. The content type, `IsKeepAlive` and `IsChunked` of `HttpRequest`, and its conversions.

A composition of the loop with the thread pool is not planned: a handler is given the
pool and never submits to it, so there is no interaction in the code to model.
