----------------------------- MODULE Connection -----------------------------
(***************************************************************************)
(* One ppserver::Connection with its Handler, served by the loop's thread: *)
(* epoll_wait reports events, the closure registered by                    *)
(* HandleNewConnection calls HandleReadable, HandleWritable and            *)
(* HandleError in this order, and the client and the kernel act between    *)
(* any two of these steps.  A handler makes one read or write and is one   *)
(* step.                                                                   *)
(*                                                                         *)
(* Bytes are counted in units.  A request is any number of "part" units    *)
(* and an "end" unit, the one that brings "\r\n\r\n".  The socket and its  *)
(* entry in the edge-triggered epoll set are external.                     *)
(***************************************************************************)
EXTENDS Integers, Sequences, FiniteSets

CONSTANTS
    ReadUnits,   \* what the 4096 bytes of ReadData's buffer hold
    MaxBuffer,   \* max_buffer_size_
    RespUnits,   \* the length of the response
    SendBuffer,  \* capacity of the socket's send buffer
    MaxSend      \* bound: what the client sends in all

ASSUME UnitsArePositive ==
    /\ ReadUnits \in Nat \ {0} /\ MaxBuffer \in Nat \ {0}
    /\ RespUnits \in Nat \ {0} /\ SendBuffer \in Nat \ {0}
    /\ MaxSend \in Nat
ASSUME ResponseFits == RespUnits <= MaxBuffer

VARIABLES
    state,     \* state_
    open,      \* socket_fd_ is open and registered with its closure
    readBuf,   \* read_buffer_
    writeBuf,  \* the length of write_buffer_
    ev,        \* events of the closure's call that it has not looked at yet
    fate,      \* what became of the loop's thread
    interest,  \* external: the events the descriptor is registered for
    rdy,       \* external: it is on epoll's ready list
    rx,        \* external: received by the kernel, not read
    unread,    \* external: written, and not taken by the client
    fin,       \* the client has shut down its side
    rst,       \* the client has reset the connection
    arrived,   \* history: units the client sent
    ends,      \* history: requests completed by what was read
    answered,  \* history: calls of WriteData
    sent       \* history: units written to the socket

bufVars    == <<state, open, readBuf, writeBuf>>
kernelVars == <<interest, rdy, rx, unread>>
clientVars == <<fin, rst, arrived>>
counters   == <<ends, answered, sent>>
vars == <<bufVars, ev, fate, kernelVars, clientVars, counters>>

Unit == {"part", "end"}

Events == {"IN", "OUT", "ERR"}

TypeOK ==
    /\ state \in {"CONNECTED", "READING", "WRITING", "CLOSING", "DISCONNECTED"}
    /\ open \in BOOLEAN
    /\ readBuf \in Seq(Unit)
    /\ writeBuf \in 0 .. RespUnits
    /\ ev \subseteq Events
    /\ fate \in {"alive", "stuck", "dead"}
    /\ interest \subseteq {"IN", "OUT"}
    /\ rdy \in BOOLEAN
    /\ rx \in Seq(Unit)
    /\ unread \in 0 .. SendBuffer
    /\ fin \in BOOLEAN /\ rst \in BOOLEAN
    /\ arrived \in Nat /\ ends \in Nat /\ answered \in Nat /\ sent \in Nat

\* HandleNewConnection has registered the closure and called Start().
Init ==
    /\ state = "CONNECTED" /\ open = TRUE
    /\ readBuf = <<>> /\ writeBuf = 0
    /\ ev = {} /\ fate = "alive"
    /\ interest = {"IN"} /\ rdy = FALSE
    /\ rx = <<>> /\ unread = 0
    /\ fin = FALSE /\ rst = FALSE /\ arrived = 0
    /\ ends = 0 /\ answered = 0 /\ sent = 0

Least(a, b) == IF a <= b THEN a ELSE b

Ends(units) == Cardinality({i \in DOMAIN units : units[i] = "end"})

-----------------------------------------------------------------------------
(* External: the socket and epoll. *)

Ready(input) ==
    {e \in Events :
        CASE e = "IN"  -> input # <<>> \/ fin \/ rst
          [] e = "OUT" -> unread < SendBuffer \/ rst
          [] e = "ERR" -> rst}

\* What epoll_wait would report of the descriptor, with this input unread.
Reported(mask, input) == Ready(input) \cap (mask \cup {"ERR"})

ModifyNothing(mask, input) == interest' = mask /\ UNCHANGED rdy

\* EPOLL_CTL_MOD polls the descriptor anew, even for an edge already reported.
Modify(mask, input) ==
    /\ interest' = mask
    /\ rdy' = (rdy \/ Reported(mask, input) # {})

\* epoll_wait takes the descriptor off the ready list and reports its events.
EpollWait ==
    /\ fate = "alive" /\ ev = {} /\ open /\ rdy
    /\ rdy' = FALSE
    /\ ev' = Reported(interest, rx)
    /\ UNCHANGED <<bufVars, fate, interest, rx, unread, clientVars, counters>>

\* The client sends, while neither side has closed.  Bound: MaxSend.
ClientSends(u) ==
    /\ open /\ ~fin /\ ~rst /\ arrived < MaxSend
    /\ rx' = Append(rx, u)
    /\ arrived' = arrived + 1
    /\ rdy' = TRUE
    /\ UNCHANGED <<bufVars, ev, fate, interest, unread, fin, rst, counters>>

\* The client takes a unit; a full send buffer becomes writable again.
ClientReceives ==
    /\ unread > 0 /\ ~rst
    /\ unread' = unread - 1
    /\ rdy' = (rdy \/ (open /\ unread = SendBuffer /\ "OUT" \in interest))
    /\ UNCHANGED <<bufVars, ev, fate, interest, rx, clientVars, counters>>

\* The client shuts down its side: end of file after what it sent.
ClientShutsDown ==
    /\ open /\ ~fin /\ ~rst
    /\ fin' = TRUE
    /\ rdy' = TRUE
    /\ UNCHANGED <<bufVars, ev, fate, interest, rx, unread, rst, arrived, counters>>

\* The client resets the connection; what it did not take is gone.
ClientResets ==
    /\ open /\ ~rst
    /\ rst' = TRUE
    /\ rdy' = TRUE
    /\ unread' = 0
    /\ UNCHANGED <<bufVars, ev, fate, interest, rx, fin, arrived, counters>>

-----------------------------------------------------------------------------
(* Close(). *)

Unregister ==
    /\ open' = FALSE
    /\ interest' = {}
    /\ rdy' = FALSE

\* CleanupResources
KeepBuffers == UNCHANGED <<readBuf, writeBuf>>

CleanupResources == readBuf' = <<>> /\ writeBuf' = 0

\* On an open connection, without buffer_mutex_.  Called again it returns.
Close ==
    /\ Unregister
    /\ CleanupResources
    /\ state' = "DISCONNECTED"
    /\ UNCHANGED fate

\* With buffer_mutex_ held: CleanupResources locks the same std::mutex.
CloseWhileLocked ==
    /\ Unregister
    /\ UNCHANGED <<readBuf, writeBuf>>
    /\ state' = "CLOSING"
    /\ fate' = "stuck"

\* RemoveFd has erased the closure that is running: its captured pointer is
\* read after the end of its lifetime, which may work or not.  The handler it
\* reaches finds empty buffers or a closed connection.
UseErasedClosure ==
    /\ ~open
    /\ fate' \in {"alive", "dead"}
    /\ UNCHANGED <<bufVars, kernelVars, clientVars, counters>>

-----------------------------------------------------------------------------
(* The handlers. *)

\* The events that are looked at before the given one have been.
Handles(e) ==
    /\ fate = "alive" /\ e \in ev
    /\ e = "OUT" => "IN" \notin ev
    /\ e = "ERR" => ev = {"ERR"}
    /\ ev' = ev \ {e}

CanReadOnce == state = "CONNECTED"

CanAlwaysRead == state # "DISCONNECTED"

CanRead == state \in {"CONNECTED", "READING"}

\* ReadData's one read(), and Handler::HandleRead with what it returned.
Taken == SubSeq(rx, 1, Least(ReadUnits, Len(rx)))

Rest == SubSeq(rx, Len(Taken) + 1, Len(rx))

Received == readBuf \o Taken

TakeInput ==
    /\ rx' = Rest
    /\ ends' = ends + Ends(Taken)

\* ReadData refuses in any other state, finds the end of the input or an
\* error: Handler closes the connection.
ReadFails ==
    /\ ~CanRead \/ rx = <<>>
    /\ Close
    /\ UNCHANGED <<rx, unread, clientVars, counters>>

\* More than max_buffer_size_: ReadData closes while it holds buffer_mutex_.
ReadOverflows ==
    /\ CanRead /\ rx # <<>> /\ Len(Received) > MaxBuffer
    /\ TakeInput
    /\ CloseWhileLocked
    /\ UNCHANGED <<unread, clientVars, answered, sent>>

ReadIncomplete ==
    /\ CanRead /\ rx # <<>> /\ Len(Received) <= MaxBuffer /\ Ends(Received) = 0
    /\ TakeInput
    /\ readBuf' = Received
    /\ state' = "READING"
    /\ UNCHANGED <<open, writeBuf, fate, interest, rdy, unread, clientVars,
                   answered, sent>>

\* What stays in read_buffer_ once the response was queued.
ClearReadBuffer == readBuf' = <<>>

\* The interest WriteData registers: UpdateFd polls for what is readable, too.
InputOnly == {"IN"}

InputAndOutput == {"IN", "OUT"}

\* A request is complete: WriteData appends the response and registers for
\* output, and the read buffer is cleared, whatever follows the request.
ReadRequest ==
    /\ CanRead /\ rx # <<>> /\ Len(Received) <= MaxBuffer /\ Ends(Received) > 0
    /\ TakeInput
    /\ writeBuf' = writeBuf + RespUnits
    /\ Modify(InputAndOutput, Rest)
    /\ state' = "WRITING"
    /\ answered' = answered + 1
    /\ ClearReadBuffer
    /\ UNCHANGED <<open, fate, unread, clientVars, sent>>

HandleReadable ==
    /\ Handles("IN")
    /\ ReadFails \/ ReadOverflows \/ ReadIncomplete \/ ReadRequest

\* DefaultHandleWrite's one write().
WrittenInFull == writeBuf

Written == Least(writeBuf, SendBuffer - unread)

Left == writeBuf - Written

\* Nothing to write, or no room: EAGAIN.
WriteNothing ==
    /\ writeBuf = 0 \/ (~rst /\ Written = 0)
    /\ UNCHANGED <<bufVars, fate, kernelVars, clientVars, counters>>

WriteSome ==
    /\ writeBuf > 0 /\ ~rst /\ Written > 0
    /\ writeBuf' = Left
    /\ unread' = unread + Written
    /\ sent' = sent + Written
    /\ UNCHANGED <<open, readBuf, fate, rx, clientVars, ends, answered>>

StayRegistered ==
    /\ UNCHANGED <<interest, rdy>>
    /\ state' = "CONNECTED"

\* The interest and the state after a write that empties the buffer.
BackToInput ==
    /\ Modify(InputOnly, rx)
    /\ state' = "CONNECTED"

WritePart ==
    /\ WriteSome /\ Left > 0
    /\ UNCHANGED <<state, interest, rdy>>

WriteAll ==
    /\ WriteSome /\ Left = 0
    /\ BackToInput

\* The connection was reset after epoll_wait returned: DefaultHandleWrite
\* closes while it holds buffer_mutex_, or SIGPIPE ends the process if the
\* client had shut down before it reset.
WriteFails ==
    /\ writeBuf > 0 /\ rst
    /\ \/ fin /\ fate' = "dead" /\ UNCHANGED <<bufVars, interest, rdy>>
       \/ ~fin /\ CloseWhileLocked
    /\ UNCHANGED <<rx, unread, clientVars, counters>>

HandleWritable ==
    /\ Handles("OUT")
    /\ \/ UseErasedClosure
       \/ open /\ (WriteNothing \/ WritePart \/ WriteAll \/ WriteFails)

\* DefaultHandleError
HandleError ==
    /\ Handles("ERR")
    /\ \/ UseErasedClosure
       \/ open /\ Close /\ UNCHANGED <<rx, unread, clientVars, counters>>

-----------------------------------------------------------------------------

Client ==
    \/ \E u \in Unit : ClientSends(u)
    \/ ClientReceives \/ ClientShutsDown \/ ClientResets

Server == EpollWait \/ HandleReadable \/ HandleWritable \/ HandleError

Next == Client \/ Server

Spec == Init /\ [][Next]_vars

\* The loop's thread runs while it can, and the client takes what was sent to
\* it; it need not send anything, nor close.
Fairness == WF_vars(Server) /\ WF_vars(ClientReceives)

FairSpec == Spec /\ Fairness
-----------------------------------------------------------------------------
(* Properties. *)

\* Between two handlers the connection is in WRITING exactly when something is
\* unsent, and only then registered for output: no handler forgets to register
\* for output, or to give it up, and no other state hides a full buffer.
OutputRegistered ==
    open => /\ state = "WRITING" <=> writeBuf > 0
            /\ "OUT" \in interest <=> writeBuf > 0

\* Edge-triggered output is never stranded: while something is unsent the
\* descriptor is ready, its output event is being handled, or the send buffer
\* is full and will raise an edge.
NoStrandedOutput ==
    open /\ writeBuf > 0 => rdy \/ "OUT" \in ev \/ unread = SendBuffer

\* Partial writes neither lose nor repeat a unit of a response.
ByteConservation == open => sent + writeBuf = RespUnits * answered

\* A response is written only for a request that was read.
NoUnrequestedResponse == answered <= ends

\* A closed connection keeps neither buffers nor a registration, unless its
\* thread never got that far.
ClosedIsClean ==
    ~open => /\ interest = {} /\ ~rdy
             /\ \/ state = "DISCONNECTED" /\ readBuf = <<>> /\ writeBuf = 0
                \/ fate = "stuck" /\ state = "CLOSING"

\* Edge-triggered input is stranded in one case only: the last read filled its
\* buffer and found no end of a request.  What a read leaves behind an answered
\* request, and what comes while a response is written, is always looked at.
InputStrandedByFullReadOnly ==
    open /\ rx # <<>> /\ ~rdy /\ "IN" \notin ev =>
        state = "READING" /\ Len(readBuf) >= ReadUnits

ResponsePending == sent < RespUnits * answered

\* A request that was not answered in full was cut off by its client: it had
\* shut down its side or sent more before the response was written.
CutOff == ResponsePending /\ (fin \/ rx # <<>>)

\* Nobody is turned away without a whole response but a client that resets, shuts
\* down, is cut off or sends more than max_buffer_size_: however its request is cut
\* into reads and the response into writes, ReadData and the errors of read() close
\* on no other.
ClosedUnansweredOnlyByClient ==
    ~open /\ fate = "alive" /\ (answered = 0 \/ ResponsePending) =>
        rst \/ fin \/ CutOff \/ arrived > MaxBuffer

\* The loop's thread is lost, to a mutex it holds, a closure that was erased or
\* a signal, only to a client that resets, one that is cut off, or one that
\* sends more than max_buffer_size_: no client that waits for its response, and
\* none that merely shuts down, takes the thread away.
LostOnlyToHaste ==
    fate # "alive" => rst \/ CutOff \/ (fate = "stuck" /\ arrived > MaxBuffer)

\* What was queued is written, or the connection goes away.
OutputDrains == writeBuf > 0 ~> (writeBuf = 0 \/ fate # "alive")

\* A request that one read can hold, from a client that then waits, is answered
\* from the first unit to the last, however its units are cut.
ClientWaits ==
    /\ ~fin /\ ~rst /\ arrived <= ReadUnits
    /\ ResponsePending => rx = <<>>

SmallRequestServed ==
    ends + Ends(rx) > 0 ~> (sent >= RespUnits \/ ~ClientWaits)

\* An error on an open connection is handled: it costs the loop its thread neither
\* by a mutex the thread holds nor by a signal.
ErrorsSurvived == [][open => fate' = "alive"]_vars

\* An answered connection is closed when its response has been written, and not
\* before, unless its client resets it.
ClosedOnceWritten ==
    answered > 0 ~> \/ ~open /\ ~ResponsePending
                    \/ rst \/ fate # "alive"

-----------------------------------------------------------------------------

Promise == INSTANCE Exchange WITH
    requests <- ends, responses <- answered, written <- sent,
    over <- ~open \/ fate # "alive"

\* The connection implements Exchange: one response at a time, whole, for a
\* request that was read, and nothing after the end.
ExchangeSpec == Promise!Spec
=============================================================================
