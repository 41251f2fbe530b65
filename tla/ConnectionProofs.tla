-------------------------- MODULE ConnectionProofs --------------------------
(* Theorems about Connection, for buffers and responses of any size. *)
EXTENDS Connection, FiniteSetTheorems, SequenceTheorems, TLAPS

USE UnitsArePositive, ResponseFits

\* The actions a step may be, one per case of the proofs below.
LEMMA StepCases ==
    ASSUME [Next]_vars
    PROVE  \/ \E u \in Unit : ClientSends(u)
           \/ ClientReceives \/ ClientShutsDown \/ ClientResets
           \/ EpollWait
           \/ Handles("IN") /\ ReadFails
           \/ Handles("IN") /\ ReadOverflows
           \/ Handles("IN") /\ ReadIncomplete
           \/ Handles("IN") /\ ReadRequest
           \/ Handles("OUT") /\ UseErasedClosure
           \/ Handles("OUT") /\ open /\ WriteNothing
           \/ Handles("OUT") /\ open /\ WritePart
           \/ Handles("OUT") /\ open /\ WriteAll
           \/ Handles("OUT") /\ open /\ WriteFails
           \/ Handles("ERR") /\ UseErasedClosure
           \/ Handles("ERR") /\ open /\ Close
                /\ UNCHANGED <<rx, unread, clientVars, counters>>
           \/ UNCHANGED vars
BY DEF Next, Client, Server, HandleReadable, HandleWritable, HandleError

-----------------------------------------------------------------------------
(* Requests in a sequence of units. *)

NoEnd(units) == \A i \in DOMAIN units : units[i] # "end"

\* Ends counts, and is 0 when there is nothing to count.
LEMMA EndsCounts ==
    ASSUME NEW units \in Seq(Unit)
    PROVE  Ends(units) \in Nat /\ (Ends(units) = 0 <=> NoEnd(units))
<1>. DEFINE E == {i \in DOMAIN units : units[i] = "end"}
<1>1. DOMAIN units = 1 .. Len(units) /\ Len(units) \in Nat
  OBVIOUS
<1>2. IsFiniteSet(1 .. Len(units))
  BY <1>1, FS_Interval
<1>3. IsFiniteSet(E)
  BY <1>1, <1>2, FS_Subset
<1>4. Cardinality(E) \in Nat /\ (Cardinality(E) = 0 <=> E = {})
  BY <1>3, FS_CardinalityType, FS_EmptySet
<1>. QED
  BY <1>4 DEF Ends, NoEnd

\* Two parts without an end have none together.
LEMMA ConcatNoEnd ==
    ASSUME NEW s \in Seq(Unit), NEW t \in Seq(Unit), NoEnd(s), NoEnd(t)
    PROVE  NoEnd(s \o t)
BY DEF NoEnd

\* What one read() takes and leaves are sequences of units.
LEMMA ReadTypes ==
    ASSUME TypeOK
    PROVE  Taken \in Seq(Unit) /\ Rest \in Seq(Unit) /\ Received \in Seq(Unit)
<1>1. Least(ReadUnits, Len(rx)) \in 0 .. Len(rx)
  BY DEF TypeOK, Least
<1>2. Taken \in Seq(Unit)
  BY <1>1, SubSeqProperties DEF TypeOK, Taken
<1>3. Rest \in Seq(Unit)
  <2>1. Len(Taken) \in 0 .. Len(rx)
    BY <1>1, SubSeqProperties DEF TypeOK, Taken
  <2>. QED
    BY <2>1, SubSeqProperties DEF TypeOK, Rest
<1>. QED
  BY <1>2, <1>3 DEF Received, TypeOK

-----------------------------------------------------------------------------
(* Types, registration, conservation and Close(). *)

\* An input event is looked at first, so its connection is still open, as is
\* one that can be read.
ReadFirst == ("IN" \in ev => open) /\ (CanRead => open)

Inv == TypeOK /\ ReadFirst /\ OutputRegistered /\ ByteConservation /\ ClosedIsClean

LEMMA InitInv == Init => Inv
<1>. SUFFICES ASSUME Init PROVE Inv
  OBVIOUS
<1>. USE DEF Init
<1>1. TypeOK
  <2>1. readBuf \in Seq(Unit) /\ rx \in Seq(Unit)
    BY EmptySeq
  <2>2. /\ state \in {"CONNECTED", "READING", "WRITING", "CLOSING", "DISCONNECTED"}
        /\ open \in BOOLEAN /\ rdy \in BOOLEAN /\ fin \in BOOLEAN /\ rst \in BOOLEAN
    OBVIOUS
  <2>3. writeBuf \in 0 .. RespUnits /\ unread \in 0 .. SendBuffer
    OBVIOUS
  <2>4. arrived \in Nat /\ ends \in Nat /\ answered \in Nat /\ sent \in Nat
    OBVIOUS
  <2>5. ev \subseteq Events /\ interest \subseteq {"IN", "OUT"}
    BY DEF Events
  <2>. QED
    BY <2>1, <2>2, <2>3, <2>4, <2>5 DEF TypeOK
<1>2. sent + writeBuf = RespUnits * answered
  <2>1. RespUnits * 0 = 0
    OBVIOUS
  <2>. QED
    BY <2>1
<1>3. ReadFirst /\ OutputRegistered /\ ClosedIsClean
  BY DEF ReadFirst, OutputRegistered, ClosedIsClean, CanRead
<1>. QED
  BY <1>1, <1>2, <1>3 DEF Inv, ByteConservation

\* Close() on a connection that no one will read.
LEMMA CloseInv ==
    ASSUME Inv, Close, ev' \subseteq Events, "IN" \notin ev',
           UNCHANGED <<rx, unread, clientVars, counters>>
    PROVE  Inv'
<1>1. /\ open' = FALSE /\ interest' = {} /\ rdy' = FALSE
      /\ readBuf' = <<>> /\ writeBuf' = 0
      /\ state' = "DISCONNECTED" /\ fate' = fate
  BY DEF Close, Unregister, CleanupResources
<1>2. TypeOK'
  <2>1. readBuf' \in Seq(Unit) /\ writeBuf' \in 0 .. RespUnits
    BY <1>1, EmptySeq
  <2>. QED
    BY <1>1, <2>1 DEF Inv, TypeOK, clientVars, counters
<1>3. ReadFirst' /\ OutputRegistered' /\ ByteConservation' /\ ClosedIsClean'
  BY <1>1 DEF ReadFirst, OutputRegistered, ByteConservation, ClosedIsClean, CanRead
<1>. QED
  BY <1>2, <1>3 DEF Inv

LEMMA NextInv == Inv /\ [Next]_vars => Inv'
<1>. SUFFICES ASSUME Inv, [Next]_vars PROVE Inv'
  OBVIOUS
<1>. USE DEF Inv, TypeOK, ReadFirst, OutputRegistered, ByteConservation, ClosedIsClean,
             CanRead, Events, bufVars, kernelVars, clientVars, counters
<1>1. ASSUME NEW u \in Unit, ClientSends(u) PROVE Inv'
  BY <1>1 DEF ClientSends
<1>2. CASE ClientReceives
  BY <1>2 DEF ClientReceives
<1>3. CASE ClientShutsDown
  BY <1>3 DEF ClientShutsDown
<1>4. CASE ClientResets
  BY <1>4 DEF ClientResets
<1>5. CASE EpollWait
  BY <1>5 DEF EpollWait, Reported, Ready
<1>6. CASE Handles("IN") /\ ReadFails
  BY <1>6, CloseInv DEF Handles, ReadFails
<1>7. ASSUME Handles("IN"), CanRead, TakeInput
      PROVE  rx' \in Seq(Unit) /\ ends' \in Nat /\ Received \in Seq(Unit)
  BY <1>7, ReadTypes, EndsCounts DEF TakeInput
<1>8. CASE Handles("IN") /\ ReadOverflows
  BY <1>7, <1>8 DEF Handles, ReadOverflows, CloseWhileLocked, Unregister
<1>9. CASE Handles("IN") /\ ReadIncomplete
  BY <1>7, <1>9 DEF Handles, ReadIncomplete
<1>10. CASE Handles("IN") /\ ReadRequest
  <2>1. writeBuf = 0 /\ state' = "WRITING" /\ writeBuf' = RespUnits /\ open'
    BY <1>10 DEF ReadRequest, Handles
  <2>2. interest' = {"IN", "OUT"} /\ rdy' \in BOOLEAN
    BY <1>10 DEF ReadRequest, Modify, InputAndOutput
  <2>3. readBuf' = <<>> /\ rx' \in Seq(Unit) /\ ends' \in Nat
    BY <1>7, <1>10 DEF ReadRequest, ClearReadBuffer
  <2>4. answered' = answered + 1 /\ sent' = sent /\ ev' \subseteq Events
    BY <1>10 DEF ReadRequest, Handles
  <2>5. sent' + writeBuf' = RespUnits * answered'
    <3>1. sent = RespUnits * answered
      BY <1>10, <2>1 DEF ReadRequest, Handles
    <3>2. RespUnits * (answered + 1) = RespUnits * answered + RespUnits
      OBVIOUS
    <3>. QED
      BY <2>1, <2>4, <3>1, <3>2
  <2>. QED
    BY <1>10, <2>1, <2>2, <2>3, <2>4, <2>5 DEF ReadRequest, Handles
<1>11. CASE Handles("OUT") /\ UseErasedClosure
  BY <1>11 DEF Handles, UseErasedClosure
<1>12. CASE Handles("OUT") /\ open /\ WriteNothing
  BY <1>12 DEF Handles, WriteNothing
<1>13. ASSUME Handles("OUT"), WriteSome
       PROVE  /\ writeBuf' = Left /\ Left \in 0 .. RespUnits
              /\ unread' \in 0 .. SendBuffer
              /\ sent' \in Nat /\ sent' + Left = RespUnits * answered
  BY <1>13 DEF Handles, WriteSome, Written, Left, Least
<1>14. CASE Handles("OUT") /\ open /\ WritePart
  BY <1>13, <1>14 DEF Handles, WritePart, WriteSome
<1>15. CASE Handles("OUT") /\ open /\ WriteAll
  BY <1>13, <1>15 DEF Handles, WriteAll, WriteSome, BackToInput, Modify, InputOnly
<1>16. CASE Handles("OUT") /\ open /\ WriteFails
  BY <1>16 DEF Handles, WriteFails, CloseWhileLocked, Unregister
<1>17. CASE Handles("ERR") /\ UseErasedClosure
  BY <1>17 DEF Handles, UseErasedClosure
<1>18. CASE Handles("ERR") /\ open /\ Close
            /\ UNCHANGED <<rx, unread, clientVars, counters>>
  BY <1>18, CloseInv DEF Handles
<1>19. CASE UNCHANGED vars
  BY <1>19 DEF vars
<1>. HIDE DEF Inv
<1>. QED
  BY <1>1, <1>2, <1>3, <1>4, <1>5, <1>6, <1>8, <1>9, <1>10, <1>11, <1>12, <1>14,
     <1>15, <1>16, <1>17, <1>18, <1>19, StepCases

THEOREM InvTheorem == Spec => []Inv
<1>. QED
  BY InitInv, NextInv, PTL DEF Spec

\* Every variable keeps its type; a queued response is never longer than one.
THEOREM TypeCorrect == Spec => []TypeOK
<1>1. Inv => TypeOK
  BY DEF Inv
<1>. QED
  BY InvTheorem, <1>1, PTL

\* No sequence of partial reads, writes and updates leaves the connection
\* registered for output with nothing to write, or with a response that no
\* output event would continue.
THEOREM OutputRegisteredTheorem == Spec => []OutputRegistered
<1>1. Inv => OutputRegistered
  BY DEF Inv
<1>. QED
  BY InvTheorem, <1>1, PTL

\* However writes are cut, an open connection has written and still holds the
\* responses it owes, exactly.
THEOREM ByteConservationTheorem == Spec => []ByteConservation
<1>1. Inv => ByteConservation
  BY DEF Inv
<1>. QED
  BY InvTheorem, <1>1, PTL

\* Close() cleans up, from wherever it was called, unless its thread is stuck.
THEOREM ClosedIsCleanTheorem == Spec => []ClosedIsClean
<1>1. Inv => ClosedIsClean
  BY DEF Inv
<1>. QED
  BY InvTheorem, <1>1, PTL

-----------------------------------------------------------------------------
(* Edge-triggered output is never stranded. *)

\* A reset the connection has not seen is still to be reported, or will be
\* looked at before the output is: a write never meets it unannounced.
ResetInv ==
    open => "IN" \in interest /\ (rst /\ writeBuf > 0 => rdy \/ "IN" \in ev)

EdgeInv == NoStrandedOutput /\ ResetInv

LEMMA EdgeStep == Inv /\ EdgeInv /\ [Next]_vars => EdgeInv'
<1>. SUFFICES ASSUME Inv, EdgeInv, [Next]_vars PROVE EdgeInv'
  OBVIOUS
<1>. USE DEF EdgeInv, ResetInv, NoStrandedOutput, bufVars, kernelVars, clientVars, counters
<1>1. ASSUME NEW u \in Unit, ClientSends(u) PROVE EdgeInv'
  BY <1>1 DEF ClientSends
<1>2. CASE ClientReceives
  <2>1. open /\ writeBuf > 0 /\ unread = SendBuffer => rdy'
    BY <1>2 DEF ClientReceives, Inv, OutputRegistered
  <2>2. rdy => rdy'
    BY <1>2 DEF ClientReceives
  <2>. QED
    BY <1>2, <2>1, <2>2 DEF ClientReceives
<1>3. CASE ClientShutsDown
  BY <1>3 DEF ClientShutsDown
<1>4. CASE ClientResets
  BY <1>4 DEF ClientResets
<1>5. CASE EpollWait
  <2>1. unread # SendBuffer => unread < SendBuffer
    BY DEF Inv, TypeOK
  <2>2. writeBuf > 0 => "OUT" \in interest
    BY <1>5 DEF EpollWait, Inv, OutputRegistered
  <2>3. unread < SendBuffer => "OUT" \in Ready(rx)
    BY DEF Ready, Events
  <2>4. rst => "IN" \in Ready(rx)
    BY DEF Ready, Events
  <2>. QED
    BY <1>5, <2>1, <2>2, <2>3, <2>4 DEF EpollWait, Reported
<1>6. CASE Handles("IN") /\ ReadFails
  BY <1>6 DEF ReadFails, Close, Unregister
<1>7. CASE Handles("IN") /\ ReadOverflows
  BY <1>7 DEF ReadOverflows, CloseWhileLocked, Unregister
<1>8. CASE Handles("IN") /\ ReadIncomplete
  <2>1. writeBuf = 0
    BY <1>8 DEF ReadIncomplete, CanRead, Inv, ReadFirst, OutputRegistered, TypeOK
  <2>. QED
    BY <1>8, <2>1 DEF Handles, ReadIncomplete
<1>9. CASE Handles("IN") /\ ReadRequest
  <2>1. unread # SendBuffer => unread < SendBuffer
    BY DEF Inv, TypeOK
  <2>2. unread < SendBuffer => "OUT" \in Reported(InputAndOutput, Rest)
    BY DEF Reported, Ready, Events, InputAndOutput
  <2>3. rst => "ERR" \in Reported(InputAndOutput, Rest)
    BY DEF Reported, Ready, Events
  <2>4. unread < SendBuffer \/ rst => rdy'
    BY <1>9, <2>2, <2>3 DEF ReadRequest, Modify
  <2>. QED
    BY <1>9, <2>1, <2>4 DEF ReadRequest, Modify, InputAndOutput
<1>10. CASE (Handles("OUT") \/ Handles("ERR")) /\ UseErasedClosure
  BY <1>10 DEF UseErasedClosure
<1>11. CASE Handles("OUT") /\ open /\ WriteNothing
  <2>1. writeBuf > 0 => unread = SendBuffer \/ rst
    BY <1>11 DEF WriteNothing, Written, Least, Inv, TypeOK
  <2>. QED
    BY <1>11, <2>1 DEF Handles, WriteNothing
<1>12. CASE Handles("OUT") /\ open /\ WritePart
  <2>1. unread' = SendBuffer
    BY <1>12 DEF WritePart, WriteSome, Left, Written, Least, Inv, TypeOK
  <2>. QED
    BY <1>12, <2>1 DEF WritePart, WriteSome
<1>13. CASE Handles("OUT") /\ open /\ WriteAll
  BY <1>13 DEF WriteAll, WriteSome, BackToInput, Modify, InputOnly
<1>14. CASE Handles("OUT") /\ open /\ WriteFails
  <2>1. rst /\ writeBuf > 0 /\ rdy
    BY <1>14 DEF Handles, WriteFails
  <2>2. \/ open' /\ UNCHANGED <<interest, rdy>>
       \/ ~open'
    BY <1>14 DEF WriteFails, CloseWhileLocked, Unregister
  <2>. QED
    BY <1>14, <2>1, <2>2
<1>15. CASE Handles("ERR") /\ open /\ Close
            /\ UNCHANGED <<rx, unread, clientVars, counters>>
  BY <1>15 DEF Close, Unregister
<1>16. CASE UNCHANGED vars
  BY <1>16 DEF vars
<1>. HIDE DEF EdgeInv, ResetInv, NoStrandedOutput, bufVars, kernelVars, clientVars, counters
<1>. QED
  BY <1>1, <1>2, <1>3, <1>4, <1>5, <1>6, <1>7, <1>8, <1>9, <1>10, <1>11, <1>12,
     <1>13, <1>14, <1>15, <1>16, StepCases

\* While a response is unsent the next edge is certain: for every size of
\* response and send buffer, and whatever the client does in between.
THEOREM NoStrandedOutputTheorem == Spec => []NoStrandedOutput
<1>1. Init => EdgeInv
  BY DEF Init, EdgeInv, ResetInv, NoStrandedOutput
<1>2. EdgeInv => NoStrandedOutput
  BY DEF EdgeInv
<1>. QED
  BY <1>1, <1>2, InvTheorem, EdgeStep, PTL DEF Spec

-----------------------------------------------------------------------------
(* Responses are requested. *)

\* The buffer holds no complete request, so every response is for one that was
\* completed by the read before it.
AnswerInv == NoEnd(readBuf) /\ NoUnrequestedResponse

LEMMA AnswerStep == Inv /\ AnswerInv /\ [Next]_vars => AnswerInv'
<1>. SUFFICES ASSUME Inv, AnswerInv, [Next]_vars PROVE AnswerInv'
  OBVIOUS
<1>. USE DEF AnswerInv, NoUnrequestedResponse, bufVars, kernelVars, clientVars, counters
<1>1. NoEnd(<<>>)
  BY DEF NoEnd
<1>2. /\ Taken \in Seq(Unit) /\ Received \in Seq(Unit) /\ readBuf \in Seq(Unit)
      /\ ends \in Nat /\ answered \in Nat
  BY ReadTypes DEF Inv, TypeOK
<1>3. Ends(Taken) \in Nat
  BY <1>2, EndsCounts
<1>4. CASE Handles("IN") /\ ReadFails
  BY <1>1, <1>4 DEF ReadFails, Close, CleanupResources
<1>5. CASE Handles("IN") /\ ReadOverflows
  BY <1>2, <1>3, <1>5 DEF ReadOverflows, CloseWhileLocked, TakeInput
<1>6. CASE Handles("IN") /\ ReadIncomplete
  <2>1. NoEnd(Received)
    BY <1>2, <1>6, EndsCounts DEF ReadIncomplete
  <2>. QED
    BY <1>2, <1>3, <1>6, <2>1 DEF ReadIncomplete, TakeInput, NoEnd
<1>7. CASE Handles("IN") /\ ReadRequest
  <2>1. ~NoEnd(Received)
    BY <1>2, <1>7, EndsCounts DEF ReadRequest
  <2>2. ~NoEnd(Taken)
    BY <1>2, <2>1, ConcatNoEnd DEF Received
  <2>3. Ends(Taken) > 0
    BY <1>2, <1>3, <2>2, EndsCounts
  <2>. QED
    BY <1>1, <1>2, <1>3, <1>7, <2>3 DEF ReadRequest, TakeInput, ClearReadBuffer
<1>8. CASE Handles("ERR") /\ open /\ Close
            /\ UNCHANGED <<rx, unread, clientVars, counters>>
  BY <1>1, <1>8 DEF Close, CleanupResources
<1>9. ASSUME UNCHANGED <<readBuf, ends, answered>> PROVE AnswerInv'
  BY <1>9 DEF NoEnd
<1>10. CASE (Handles("OUT") \/ Handles("ERR")) /\ UseErasedClosure
  BY <1>9, <1>10 DEF UseErasedClosure
<1>11. CASE Handles("OUT") /\ open /\ (WriteNothing \/ WritePart \/ WriteAll)
  BY <1>9, <1>11 DEF WriteNothing, WritePart, WriteAll, WriteSome
<1>12. CASE Handles("OUT") /\ open /\ WriteFails
  BY <1>9, <1>12 DEF WriteFails, CloseWhileLocked
<1>13. ASSUME NEW u \in Unit, ClientSends(u) PROVE AnswerInv'
  BY <1>9, <1>13 DEF ClientSends
<1>14. CASE ClientReceives \/ ClientShutsDown \/ ClientResets \/ EpollWait
            \/ UNCHANGED vars
  BY <1>9, <1>14 DEF ClientReceives, ClientShutsDown, ClientResets, EpollWait, vars
<1>. HIDE DEF AnswerInv, bufVars, kernelVars, clientVars, counters
<1>. QED
  BY <1>4, <1>5, <1>6, <1>7, <1>8, <1>10, <1>11, <1>12, <1>13, <1>14, StepCases

\* No read answers a request that an earlier read answered, however requests are
\* cut into reads.
THEOREM NoUnrequestedResponseTheorem == Spec => []NoUnrequestedResponse
<1>1. Init => AnswerInv
  BY DEF Init, AnswerInv, NoEnd, NoUnrequestedResponse
<1>2. AnswerInv => NoUnrequestedResponse
  BY DEF AnswerInv
<1>. QED
  BY <1>1, <1>2, InvTheorem, AnswerStep, PTL DEF Spec
-----------------------------------------------------------------------------
(* Input, and what becomes of it. *)

\* Input that stays behind is announced, but for what a full read without an end
\* leaves.
LEMMA InputStep ==
    Inv /\ EdgeInv /\ InputStrandedByFullReadOnly /\ [Next]_vars
        => InputStrandedByFullReadOnly'
<1>. SUFFICES ASSUME Inv, EdgeInv, InputStrandedByFullReadOnly, [Next]_vars
              PROVE  InputStrandedByFullReadOnly'
  OBVIOUS
<1>. USE DEF InputStrandedByFullReadOnly, bufVars, kernelVars, clientVars, counters
<1>1. ASSUME NEW u \in Unit, ClientSends(u) PROVE InputStrandedByFullReadOnly'
  BY <1>1 DEF ClientSends
<1>2. CASE ClientReceives
  BY <1>2 DEF ClientReceives
<1>3. CASE ClientShutsDown \/ ClientResets
  BY <1>3 DEF ClientShutsDown, ClientResets
<1>4. CASE EpollWait
  <2>1. "IN" \in interest
    BY <1>4 DEF EpollWait, EdgeInv, ResetInv
  <2>2. rx # <<>> => "IN" \in Ready(rx)
    BY DEF Ready, Events
  <2>. QED
    BY <1>4, <2>1, <2>2 DEF EpollWait, Reported
<1>5. CASE Handles("IN") /\ ReadFails
  BY <1>5 DEF ReadFails, Close, Unregister
<1>6. CASE Handles("IN") /\ ReadOverflows
  BY <1>6 DEF ReadOverflows, CloseWhileLocked, Unregister
<1>7. CASE Handles("IN") /\ ReadIncomplete
  <2>1. rx \in Seq(Unit) /\ readBuf \in Seq(Unit)
    BY DEF Inv, TypeOK
  <2>2. CASE Len(rx) <= ReadUnits
    <3>1. Taken = rx
      BY <2>1, <2>2 DEF Taken, Least
    <3>2. Rest = <<>>
      BY <2>1, <3>1 DEF Rest
    <3>. QED
      BY <1>7, <3>2 DEF ReadIncomplete, TakeInput
  <2>3. CASE Len(rx) > ReadUnits
    <3>1. Len(Taken) = ReadUnits
      BY <2>1, <2>3 DEF Taken, Least
    <3>2. Taken \in Seq(Unit)
      BY ReadTypes DEF Inv
    <3>3. Len(Received) = Len(readBuf) + Len(Taken)
      BY <2>1, <3>2 DEF Received
    <3>4. Len(readBuf) \in Nat
      BY <2>1
    <3>. QED
      BY <1>7, <3>1, <3>3, <3>4 DEF ReadIncomplete
  <2>. QED
    BY <2>1, <2>2, <2>3
<1>8. CASE Handles("IN") /\ ReadRequest
  <2>1. Rest # <<>> => "IN" \in Reported(InputAndOutput, Rest)
    BY DEF Reported, Ready, Events, InputAndOutput
  <2>. QED
    BY <1>8, <2>1 DEF ReadRequest, TakeInput, Modify
<1>9. CASE (Handles("OUT") \/ Handles("ERR")) /\ UseErasedClosure
  BY <1>9 DEF UseErasedClosure
<1>10. CASE Handles("OUT") /\ open /\ (WriteNothing \/ WritePart)
  BY <1>10 DEF Handles, WriteNothing, WritePart, WriteSome
<1>11. CASE Handles("OUT") /\ open /\ WriteAll
  <2>1. rx # <<>> => "IN" \in Reported(InputOnly, rx)
    BY DEF Reported, Ready, Events, InputOnly
  <2>. QED
    BY <1>11, <2>1 DEF WriteAll, WriteSome, BackToInput, Modify
<1>12. CASE Handles("OUT") /\ open /\ WriteFails
  BY <1>12 DEF Handles, WriteFails, CloseWhileLocked, Unregister
<1>13. CASE Handles("ERR") /\ open /\ Close
            /\ UNCHANGED <<rx, unread, clientVars, counters>>
  BY <1>13 DEF Close, Unregister
<1>14. CASE UNCHANGED vars
  BY <1>14 DEF vars
<1>. HIDE DEF InputStrandedByFullReadOnly, bufVars, kernelVars, clientVars, counters
<1>. QED
  BY <1>1, <1>2, <1>3, <1>4, <1>5, <1>6, <1>7, <1>8, <1>9, <1>10, <1>11, <1>12,
     <1>13, <1>14, StepCases

\* For every size of read, buffer and response, input is left without an edge
\* only behind a read that was full and brought no end of a request.
THEOREM InputStrandedTheorem == Spec => []InputStrandedByFullReadOnly
<1>1. Init => EdgeInv /\ InputStrandedByFullReadOnly
  BY DEF Init, EdgeInv, ResetInv, NoStrandedOutput, InputStrandedByFullReadOnly
<1>. QED
  BY <1>1, InvTheorem, EdgeStep, InputStep, PTL DEF Spec

-----------------------------------------------------------------------------
(* Closing, and losing the thread. *)

\* Why an event is being looked at, and what a closed connection was closed for.
ReasonInv ==
    /\ open => state \in {"CONNECTED", "READING", "WRITING"}
    /\ "IN" \in ev => rx # <<>> \/ fin \/ rst
    /\ "OUT" \in ev => (open /\ writeBuf > 0) \/ rst \/ CutOff
    /\ "ERR" \in ev => rst
    /\ Len(readBuf) + Len(rx) <= arrived

\* As it is, no connection is closed for having been answered, either.
ClosedByClient == ~open /\ fate = "alive" => rst \/ fin \/ CutOff

HasteInv == ReasonInv /\ ClosedByClient /\ LostOnlyToHaste

LEMMA HasteStep == Inv /\ HasteInv /\ [Next]_vars => HasteInv'
<1>. SUFFICES ASSUME Inv, HasteInv, [Next]_vars PROVE HasteInv'
  OBVIOUS
<1>. USE DEF HasteInv, ReasonInv, ClosedByClient, LostOnlyToHaste, CutOff,
             ResponsePending, bufVars, kernelVars, clientVars, counters
<1>1. /\ rx \in Seq(Unit) /\ readBuf \in Seq(Unit) /\ Taken \in Seq(Unit)
      /\ Rest \in Seq(Unit) /\ Received \in Seq(Unit) /\ arrived \in Nat
      /\ sent \in Nat /\ writeBuf \in Nat /\ RespUnits * answered \in Nat
  BY ReadTypes DEF Inv, TypeOK
<1>2. /\ Len(Received) = Len(readBuf) + Len(Taken) /\ Len(Taken) + Len(Rest) = Len(rx)
      /\ Len(Rest) \in Nat
  <2>1. Least(ReadUnits, Len(rx)) \in 0 .. Len(rx)
    BY <1>1 DEF Least
  <2>2. Len(Taken) \in 0 .. Len(rx)
    BY <1>1, <2>1 DEF Taken
  <2>3. Len(Rest) = Len(rx) - Len(Taken)
    BY <1>1, <2>2 DEF Rest
  <2>4. Len(Received) = Len(readBuf) + Len(Taken)
    BY <1>1 DEF Received
  <2>. QED
    BY <1>1, <2>2, <2>3, <2>4
<1>3. open /\ writeBuf > 0 => sent < RespUnits * answered
  BY <1>1 DEF Inv, ByteConservation
<1>4. open => (state = "WRITING" <=> writeBuf > 0)
  BY DEF Inv, OutputRegistered
<1>5. Len(<<>>) = 0
  OBVIOUS
<1>6. ASSUME NEW u \in Unit, ClientSends(u) PROVE HasteInv'
  <2>1. rx' # <<>> /\ Len(rx') = Len(rx) + 1
    BY <1>1, <1>6, SMTT(30) DEF ClientSends
  <2>. QED
    BY <1>1, <1>6, <2>1 DEF ClientSends
<1>7. CASE ClientReceives \/ ClientShutsDown \/ ClientResets
  BY <1>7 DEF ClientReceives, ClientShutsDown, ClientResets
<1>8. CASE EpollWait
  <2>1. "IN" \in ev' => rx # <<>> \/ fin \/ rst
    BY <1>8 DEF EpollWait, Reported, Ready
  <2>2. "OUT" \in ev' => writeBuf > 0
    BY <1>8 DEF EpollWait, Reported, Inv, OutputRegistered
  <2>3. "ERR" \in ev' => rst
    BY <1>8 DEF EpollWait, Reported, Ready
  <2>. QED
    BY <1>8, <2>1, <2>2, <2>3 DEF EpollWait
<1>9. CASE Handles("IN") /\ ReadFails
  <2>1. open /\ "IN" \in ev /\ fate = "alive"
    BY <1>9 DEF Handles, Inv, ReadFirst
  <2>2. rst \/ fin \/ (ResponsePending /\ rx # <<>>)
    BY <1>3, <1>4, <1>9, <2>1 DEF ReadFails, CanRead
  <2>3. "OUT" \in ev => rst \/ CutOff
    BY <1>3, <1>4, <1>9, <2>1 DEF ReadFails, CanRead
  <2>4. /\ ~open' /\ readBuf' = <<>> /\ fate' = fate
        /\ UNCHANGED <<rx, fin, rst, sent, answered, arrived>>
    BY <1>9 DEF ReadFails, Close, Unregister, CleanupResources
  <2>5. Len(readBuf') + Len(rx') <= arrived'
    BY <1>1, <1>5, <2>4
  <2>. QED
    BY <1>9, <2>1, <2>2, <2>3, <2>4, <2>5 DEF Handles
<1>10. CASE Handles("IN") /\ ReadOverflows
  <2>1. arrived > MaxBuffer
    BY <1>1, <1>2, <1>10 DEF ReadOverflows
  <2>2. /\ ~open' /\ readBuf' = readBuf /\ rx' = Rest /\ fate' = "stuck"
        /\ UNCHANGED <<fin, rst, sent, answered, arrived>>
    BY <1>10 DEF ReadOverflows, TakeInput, CloseWhileLocked, Unregister
  <2>3. "OUT" \notin ev \/ rst
    BY <1>1, <1>4, <1>10 DEF Handles, ReadOverflows, CanRead, Inv, ReadFirst,
       ByteConservation
  <2>4. Len(readBuf') + Len(rx') <= arrived'
    BY <1>1, <1>2, <2>2
  <2>. QED
    BY <1>10, <2>1, <2>2, <2>3, <2>4 DEF Handles
<1>11. CASE Handles("IN") /\ ReadIncomplete
  <2>1. open /\ writeBuf = 0
    BY <1>1, <1>4, <1>11 DEF Handles, ReadIncomplete, CanRead, Inv, ReadFirst
  <2>2. /\ readBuf' = Received /\ rx' = Rest /\ state' = "READING"
        /\ UNCHANGED <<open, writeBuf, fate, fin, rst, sent, answered, arrived>>
    BY <1>11 DEF ReadIncomplete, TakeInput
  <2>3. Len(readBuf') + Len(rx') <= arrived'
    BY <1>1, <1>2, <2>2
  <2>4. "OUT" \in ev => rst
    BY <1>1, <2>1 DEF Inv, ByteConservation
  <2>. QED
    BY <1>11, <2>1, <2>2, <2>3, <2>4 DEF Handles
<1>12. CASE Handles("IN") /\ ReadRequest
  <2>1. open /\ writeBuf = 0
    BY <1>1, <1>4, <1>12 DEF Handles, ReadRequest, CanRead, Inv, ReadFirst
  <2>2. /\ readBuf' = <<>> /\ rx' = Rest /\ state' = "WRITING"
        /\ UNCHANGED <<open, fate, fin, rst, sent, arrived>>
    BY <1>12 DEF ReadRequest, TakeInput, ClearReadBuffer
  <2>3. Len(readBuf') + Len(rx') <= arrived'
    BY <1>1, <1>2, <1>5, <2>2
  <2>4. "OUT" \in ev => rst
    BY <1>1, <2>1 DEF Inv, ByteConservation
  <2>. QED
    BY <1>12, <2>1, <2>2, <2>3, <2>4 DEF Handles
<1>13. CASE (Handles("OUT") \/ Handles("ERR")) /\ UseErasedClosure
  BY <1>13 DEF Handles, UseErasedClosure
<1>14. CASE Handles("OUT") /\ open /\ WriteNothing
  BY <1>14 DEF Handles, WriteNothing
<1>15. CASE Handles("OUT") /\ open /\ WritePart
  BY <1>15 DEF Handles, WritePart, WriteSome
<1>16. CASE Handles("OUT") /\ open /\ WriteAll
  BY <1>16 DEF Handles, WriteAll, WriteSome, BackToInput
<1>17. CASE Handles("OUT") /\ open /\ WriteFails
  BY <1>17 DEF Handles, WriteFails, CloseWhileLocked, Unregister
<1>18. CASE Handles("ERR") /\ open /\ Close
            /\ UNCHANGED <<rx, unread, clientVars, counters>>
  <2>1. Len(readBuf') + Len(rx') <= arrived'
    BY <1>1, <1>5, <1>18 DEF Close, CleanupResources
  <2>. QED
    BY <1>18, <2>1 DEF Handles, Close, Unregister, CleanupResources
<1>19. CASE UNCHANGED vars
  BY <1>19 DEF vars
<1>. HIDE DEF HasteInv, ReasonInv, ClosedByClient, LostOnlyToHaste, CutOff,
              ResponsePending, bufVars, kernelVars, clientVars, counters
<1>. QED
  BY <1>6, <1>7, <1>8, <1>9, <1>10, <1>11, <1>12, <1>13, <1>14, <1>15, <1>16,
     <1>17, <1>18, <1>19, StepCases

LEMMA HasteTheorem == Spec => []HasteInv
<1>1. Init => HasteInv
  BY DEF Init, HasteInv, ReasonInv, ClosedByClient, LostOnlyToHaste
<1>. QED
  BY <1>1, InvTheorem, HasteStep, PTL DEF Spec

\* However requests are cut into reads and responses into writes, the server closes
\* on no client before a whole response but one that resets, shuts down, is cut off
\* or overflows the buffer.
THEOREM ClosedUnansweredTheorem == Spec => []ClosedUnansweredOnlyByClient
<1>1. HasteInv => ClosedUnansweredOnlyByClient
  BY DEF HasteInv, ClosedByClient, ClosedUnansweredOnlyByClient
<1>. QED
  BY HasteTheorem, <1>1, PTL

\* The loop's thread is lost only to a reset, a client that is cut off, or input
\* beyond the size of the buffer.
THEOREM LostOnlyToHasteTheorem == Spec => []LostOnlyToHaste
<1>1. HasteInv => LostOnlyToHaste
  BY DEF HasteInv
<1>. QED
  BY HasteTheorem, <1>1, PTL

-----------------------------------------------------------------------------
(* The connection implements Exchange. *)

\* What was written is at most what it adds up to with the rest.
LEMMA PartIsLess ==
    ASSUME NEW part \in Nat, NEW rest \in Nat, NEW whole \in Nat,
           part + rest = whole
    PROVE  part <= whole
OBVIOUS

\* A step of the connection is a step of the exchange, or none.
LEMMA ExchangeStep ==
    Inv /\ Inv' /\ AnswerInv /\ AnswerInv' /\ [Next]_vars
        => [Promise!Next]_<<ends, answered, sent, ~open \/ fate # "alive">>
<1>. SUFFICES ASSUME Inv, Inv', AnswerInv, AnswerInv', [Next]_vars
              PROVE  [Promise!Next]_<<ends, answered, sent, ~open \/ fate # "alive">>
  OBVIOUS
<1>. USE DEF bufVars, kernelVars, clientVars, counters
<1>1. /\ ends \in Nat /\ ends' \in Nat /\ sent \in Nat /\ sent' \in Nat
      /\ answered \in Nat /\ writeBuf \in Nat /\ writeBuf' \in Nat
      /\ RespUnits * answered \in Nat
  BY DEF Inv, TypeOK
<1>2. Taken \in Seq(Unit) /\ readBuf \in Seq(Unit) /\ Received \in Seq(Unit)
  BY ReadTypes DEF Inv, TypeOK
<1>3. ends' = ends + Ends(Taken) => ends' >= ends
  BY <1>1, <1>2, EndsCounts
<1>4. "IN" \in ev => open
  BY DEF Inv, ReadFirst
<1>5. CASE Handles("IN") /\ ReadFails
  BY <1>1, <1>4, <1>5 DEF Handles, ReadFails, Close, Unregister, Promise!Next,
     Promise!End, Promise!Receive
<1>6. CASE Handles("IN") /\ ReadOverflows
  BY <1>1, <1>3, <1>4, <1>6 DEF Handles, ReadOverflows, CloseWhileLocked, Unregister,
     TakeInput, Promise!Next, Promise!End, Promise!Receive
<1>7. CASE Handles("IN") /\ ReadIncomplete
  <2>1. NoEnd(Received)
    BY <1>2, <1>7, EndsCounts DEF ReadIncomplete
  <2>2. NoEnd(Taken)
    <3>1. ASSUME NEW i \in DOMAIN Taken PROVE Taken[i] # "end"
      <4>1. /\ Len(readBuf) + i \in DOMAIN Received
            /\ Received[Len(readBuf) + i] = Taken[i]
        BY <1>2 DEF Received
      <4>. QED
        BY <2>1, <4>1 DEF NoEnd
    <3>. QED
      BY <3>1 DEF NoEnd
  <2>3. Ends(Taken) = 0
    BY <1>2, <2>2, EndsCounts
  <2>. QED
    BY <1>1, <1>7, <2>3 DEF ReadIncomplete, TakeInput
<1>8. CASE Handles("IN") /\ ReadRequest
  <2>1. open /\ fate = "alive" /\ UNCHANGED <<open, fate, sent>>
    BY <1>4, <1>8 DEF Handles, ReadRequest
  <2>2. writeBuf = 0
    BY <1>1, <1>8, <2>1 DEF ReadRequest, CanRead, Inv, OutputRegistered
  <2>3. sent = RespUnits * answered
    BY <1>1, <2>1, <2>2 DEF Inv, ByteConservation
  <2>4. ends' >= ends /\ answered' = answered + 1
    BY <1>3, <1>8 DEF ReadRequest, TakeInput
  <2>5. answered' <= ends'
    BY DEF AnswerInv, NoUnrequestedResponse
  <2>. QED
    BY <1>1, <2>1, <2>3, <2>4, <2>5 DEF Promise!Next, Promise!Answer,
       Promise!AllWritten, Promise!Receive
<1>9. CASE (Handles("OUT") \/ Handles("ERR")) /\ UseErasedClosure
  BY <1>9 DEF UseErasedClosure
<1>10. CASE Handles("OUT") /\ open /\ WriteNothing
  BY <1>10 DEF WriteNothing
<1>11. ASSUME Handles("OUT"), open, WriteSome
       PROVE  Promise!Write
  <2>1. Written \in Nat \ {0} /\ open' /\ fate = "alive" /\ fate' = fate
    BY <1>11 DEF Handles, WriteSome, Written, Least, Inv, TypeOK
  <2>2. sent' = sent + Written /\ UNCHANGED <<ends, answered>>
    BY <1>11 DEF WriteSome
  <2>3. sent' + writeBuf' = RespUnits * answered
    BY <2>1, <2>2 DEF Inv, ByteConservation
  <2>4. sent < sent'
    BY <1>1, <2>1, <2>2
  <2>5. sent' <= RespUnits * answered
    BY <1>1, <2>3, PartIsLess
  <2>. QED
    BY <1>1, <1>11, <2>1, <2>2, <2>4, <2>5 DEF Promise!Write
<1>12. CASE Handles("OUT") /\ open /\ (WritePart \/ WriteAll)
  BY <1>11, <1>12 DEF WritePart, WriteAll, Promise!Next
<1>13. CASE Handles("OUT") /\ open /\ WriteFails
  BY <1>1, <1>13 DEF Handles, WriteFails, CloseWhileLocked, Unregister, Promise!Next,
     Promise!End, Promise!Receive
<1>14. CASE Handles("ERR") /\ open /\ Close
            /\ UNCHANGED <<rx, unread, clientVars, counters>>
  BY <1>1, <1>14 DEF Handles, Close, Unregister, Promise!Next, Promise!End,
     Promise!Receive
<1>15. ASSUME NEW u \in Unit, ClientSends(u)
       PROVE  UNCHANGED <<ends, answered, sent, ~open \/ fate # "alive">>
  BY <1>15 DEF ClientSends
<1>16. CASE ClientReceives \/ ClientShutsDown \/ ClientResets \/ EpollWait
            \/ UNCHANGED vars
  BY <1>16 DEF ClientReceives, ClientShutsDown, ClientResets, EpollWait, vars
<1>. HIDE DEF bufVars, kernelVars, clientVars, counters
<1>. QED
  BY <1>5, <1>6, <1>7, <1>8, <1>9, <1>10, <1>12, <1>13, <1>14, <1>15, <1>16, StepCases

\* For every size of buffer, read, write and response, what a connection does is
\* an Exchange: responses come one at a time, whole, and none after the end.
THEOREM ExchangeRefinement == Spec => ExchangeSpec
<1>1. Init => Promise!Init
  BY DEF Init, Promise!Init
<1>2. Init => AnswerInv
  BY DEF Init, AnswerInv, NoEnd, NoUnrequestedResponse
<1>3. Inv /\ Inv' /\ AnswerInv /\ AnswerInv' /\ [Next]_vars
          => [Promise!Next]_<<ends, answered, sent, ~open \/ fate # "alive">>
  BY ExchangeStep
<1>. QED
  BY <1>1, <1>2, <1>3, InvTheorem, AnswerStep, PTL
     DEF Spec, ExchangeSpec, Promise!Spec, Promise!vars
=============================================================================
