------------------------- MODULE HttpMessageProofs -------------------------
(* What the parser makes of a message, for messages of any length and shape. *)
EXTENDS HttpParserProofs

-----------------------------------------------------------------------------
(* The wire, as the parser's variables show it. *)

At == Len(consumed)

Reading == Types /\ InOrder /\ state # "ERROR" /\ ~moved

LEMMA MessageIs == ASSUME Types PROVE IsMessage(message)
BY MessagesAreMessages DEF Types, TypeOK

\* The n tokens behind the first a.
LEMMA CutOutIs ==
    ASSUME NEW T, NEW s \in Seq(T), NEW a \in 0 .. Len(s), NEW n \in 0 .. Len(s) - a
    PROVE  /\ SubSeq(s, a + 1, a + n) \in Seq(T) /\ Len(SubSeq(s, a + 1, a + n)) = n
           /\ \A i \in 1 .. n : SubSeq(s, a + 1, a + n)[i] = s[a + i]
<1>. DEFINE first == a + 1
            last == a + n
            t == SubSeq(s, first, last)
<1>1. /\ first \in Int /\ last \in Int /\ last - first + 1 = n /\ n \in Nat
      /\ first <= last <=> n # 0
      /\ \A i \in 1 .. n : first + i - 1 = a + i
  OBVIOUS
<1>2. \A i \in first .. last : s[i] \in T
  OBVIOUS
<1>. HIDE DEF first, last
<1>3. /\ t \in Seq(T) /\ Len(t) = IF first <= last THEN last - first + 1 ELSE 0
      /\ \A i \in 1 .. last - first + 1 : t[i] = s[first + i - 1]
  BY <1>1, <1>2, SubSeqProperties
<1>. HIDE DEF t
<1>4. t \in Seq(T) /\ Len(t) = n /\ \A i \in 1 .. n : t[i] = s[a + i]
  BY <1>1, <1>3
<1>. QED
  BY <1>4 DEF t, first, last

\* What is left in the buffer is what is next on the wire.
LEMMA WindowIs ==
    ASSUME Reading
    PROVE  /\ message.wire \in Seq(Token) /\ Len(message.wire) \in Nat
           /\ At \in Nat /\ Remaining \in Nat /\ At + Remaining <= Len(message.wire)
           /\ Given = At + Remaining
           /\ \A j \in 1 .. Remaining : message.wire[At + j] = buffer[pos + j]
<1>. DEFINE rest == SubSeq(buffer, pos + 1, Len(buffer))
<1>1. /\ buffer \in Seq(Token) /\ pos \in 0 .. Len(buffer) /\ Len(buffer) \in Nat
      /\ consumed \in Seq(Token) /\ unsent \in Seq(Token) /\ Len(unsent) \in Nat
      /\ message.wire \in Seq(Token) /\ Len(message.wire) \in Nat
  BY MessageIs DEF Reading, Types, TypeOK, IsMessage
<1>2. /\ rest \in Seq(Token) /\ Len(rest) = Remaining
      /\ \A j \in 1 .. Remaining : rest[j] = buffer[pos + j]
  <2>1. Remaining \in 0 .. Len(buffer) - pos /\ pos + Remaining = Len(buffer)
    BY <1>1 DEF Remaining
  <2>. DEFINE t == SubSeq(buffer, pos + 1, pos + Remaining)
  <2>2. /\ t \in Seq(Token) /\ Len(t) = Remaining
        /\ \A j \in 1 .. Remaining : t[j] = buffer[pos + j]
    BY <1>1, <2>1, CutOutIs
  <2>3. rest = t
    BY <2>1
  <2>. HIDE DEF rest, t
  <2>. QED
    BY <2>2, <2>3
<1>3. (consumed \o rest) \o unsent = message.wire
  BY DEF Reading, InOrder, WithRest
<1>. HIDE DEF rest
<1>. DEFINE front == consumed \o rest
<1>4. /\ front \in Seq(Token) /\ Len(front) = At + Remaining
      /\ \A j \in 1 .. Remaining : front[At + j] = rest[j]
  <2>1. /\ front \in Seq(Token) /\ Len(front) = Len(consumed) + Len(rest)
        /\ \A i \in 1 .. Len(consumed) + Len(rest) :
               front[i] = IF i <= Len(consumed) THEN consumed[i] ELSE rest[i - Len(consumed)]
    BY <1>1, <1>2, ConcatProperties
  <2>2. Len(consumed) \in Nat /\ Len(rest) \in Nat
    BY <1>1, <1>2
  <2>. HIDE DEF front
  <2>. QED
    BY <1>2, <2>1, <2>2 DEF At
<1>. HIDE DEF front
<1>5. /\ Len(message.wire) = Len(front) + Len(unsent)
      /\ \A i \in 1 .. Len(front) : message.wire[i] = front[i]
  <2>1. /\ Len(front \o unsent) = Len(front) + Len(unsent)
        /\ \A i \in 1 .. Len(front) + Len(unsent) :
               (front \o unsent)[i] = IF i <= Len(front) THEN front[i]
                                      ELSE unsent[i - Len(front)]
    BY <1>1, <1>4, ConcatProperties
  <2>2. front \o unsent = message.wire
    BY <1>3 DEF front
  <2>3. Len(front) \in Nat
    BY <1>4
  <2>. QED
    BY <1>1, <2>1, <2>2, <2>3
<1>6. At \in Nat /\ Remaining \in Nat
  BY <1>1 DEF At, Remaining
<1>8. At + Remaining <= Len(message.wire)
  BY <1>1, <1>4, <1>5, <1>6
<1>9. ASSUME NEW j \in 1 .. Remaining PROVE message.wire[At + j] = buffer[pos + j]
  <2>1. At + j \in 1 .. Len(front)
    BY <1>4, <1>6
  <2>. QED
    BY <1>2, <1>4, <1>5, <2>1
<1>7. Given = At + Remaining
  BY <1>1, <1>4, <1>5, <1>6 DEF Given
<1>. QED
  BY <1>1, <1>6, <1>7, <1>8, <1>9

\* What a step goes past.
LEMMA PastIs ==
    ASSUME Reading, NEW n \in 0 .. Remaining, Advance(n)
    PROVE  At' = At + n /\ Given' = Given /\ UNCHANGED <<parsing, message, cuts>>
<1>1. /\ n \in 0 .. Len(buffer) - pos /\ buffer \in Seq(Token) /\ Len(buffer) \in Nat
      /\ pos \in 0 .. Len(buffer) /\ consumed \in Seq(Token) /\ Len(consumed) \in Nat
  BY DEF Remaining, Reading, Types, TypeOK
<1>2. /\ SubSeq(buffer, pos + 1, pos + n) \in Seq(Token)
      /\ Len(SubSeq(buffer, pos + 1, pos + n)) = n
      /\ UNCHANGED <<buffer, parsing, message, unsent, cuts>>
  BY <1>1, AdvanceIs DEF Reading
<1>3. Len(consumed') = Len(consumed) + n
  <2>. DEFINE taken == SubSeq(buffer, pos + 1, pos + n)
  <2>1. Len(consumed \o taken) = Len(consumed) + Len(taken)
    BY <1>1, <1>2, ConcatProperties
  <2>. QED
    BY <1>2, <2>1 DEF Advance
<1>. QED
  BY <1>1, <1>2, <1>3 DEF At, Given

\* The tokens of a run are those of the wire.
LEMMA RunIs ==
    ASSUME Reading, NEW n \in 0 .. Remaining
    PROVE  /\ SubSeq(buffer, pos + 1, pos + n) = SubSeq(message.wire, At + 1, At + n)
           /\ SubSeq(buffer, pos + 1, pos + n) \in Seq(Token)
<1>1. /\ buffer \in Seq(Token) /\ Len(buffer) \in Nat /\ pos \in 0 .. Len(buffer)
      /\ Remaining = Len(buffer) - pos
  BY DEF Reading, Types, TypeOK, Remaining
<1>2. /\ message.wire \in Seq(Token) /\ Len(message.wire) \in Nat
      /\ At \in Nat /\ At + Remaining <= Len(message.wire)
      /\ \A j \in 1 .. Remaining : message.wire[At + j] = buffer[pos + j]
  BY WindowIs
<1>. DEFINE s == SubSeq(buffer, pos + 1, pos + n)
            t == SubSeq(message.wire, At + 1, At + n)
<1>3. /\ s \in Seq(Token) /\ Len(s) = n
      /\ \A i \in 1 .. n : s[i] = buffer[pos + i]
  <2>1. n \in 0 .. Len(buffer) - pos
    BY <1>1
  <2>. QED
    BY <1>1, <2>1, CutOutIs
<1>4. /\ t \in Seq(Token) /\ Len(t) = n
      /\ \A i \in 1 .. n : t[i] = message.wire[At + i]
  <2>1. At \in 0 .. Len(message.wire) /\ n \in 0 .. Len(message.wire) - At
    BY <1>1, <1>2
  <2>. QED
    BY <1>2, <2>1, CutOutIs
<1>. HIDE DEF s, t
<1>5. ASSUME NEW i \in 1 .. n PROVE s[i] = t[i]
  <2>1. i \in 1 .. Remaining
    BY <1>1
  <2>2. s[i] = buffer[pos + i] /\ t[i] = message.wire[At + i]
    BY <1>3, <1>4
  <2>. QED
    BY <1>2, <2>1, <2>2
<1>6. s = t
  BY <1>3, <1>4, <1>5, SeqEqual
<1>. QED
  BY <1>3, <1>6 DEF s, t

LineKinds == {"request", "junk", "size"} \cup HeaderKinds

\* The line that is taken is the next one on the wire: a token, none, or neither.
LEMMA LineIs ==
    ASSUME Reading, TakeLine
    PROVE  /\ LineLength \in Nat /\ Len(Line) = LineLength
           /\ LineLength + 2 \in 0 .. Remaining /\ Advance(LineLength + 2)
           /\ LineLength = 0 <=> HasCRLF(message.wire, At)
           /\ LineLength = 1 => /\ Line[1] = message.wire[At + 1]
                                /\ At < Len(message.wire)
                                /\ HasCRLF(message.wire, At + 1)
           /\ \A kinds \in SUBSET LineKinds :
                  HasLine(message.wire, At, kinds) => LineLength = 1
<1>1. /\ LineLength \in Nat /\ LineLength + 2 \in 0 .. Remaining
      /\ Advance(LineLength + 2)
  BY TakeLineIs DEF Reading, Remaining
<1>2. /\ buffer \in Seq(Token) /\ Len(buffer) \in Nat /\ pos \in 0 .. Len(buffer)
      /\ Remaining = Len(buffer) - pos
  BY DEF Reading, Types, TypeOK, Remaining
<1>3. /\ message.wire \in Seq(Token) /\ Len(message.wire) \in Nat
      /\ At \in Nat /\ At + Remaining <= Len(message.wire)
      /\ \A j \in 1 .. Remaining : message.wire[At + j] = buffer[pos + j]
  BY WindowIs
<1>. DEFINE i == pos + LineLength + 1
<1>4. i \in LineEnds /\ \A j \in LineEnds : i <= j
  <2>1. LineEnds \in SUBSET Nat /\ LineEnds # {}
    BY <1>2 DEF TakeLine, LineEnds
  <2>2. PICK x \in LineEnds : \A y \in LineEnds : x <= y
    BY <2>1, LeastExists
  <2>. DEFINE c == CHOOSE l \in LineEnds : \A j \in LineEnds : l <= j
  <2>3. c \in LineEnds /\ \A j \in LineEnds : c <= j
    BY <2>2
  <2>4. LineLength = c - pos - 1
    BY DEF LineLength
  <2>. HIDE DEF c
  <2>5. c \in Nat
    BY <2>1, <2>3
  <2>6. i = c
    BY <1>2, <2>4, <2>5
  <2>. QED
    BY <2>3, <2>6
<1>. HIDE DEF i
<1>5. i \in pos + 1 .. Len(buffer) - 1 /\ buffer[i] = CR /\ buffer[i + 1] = LF
  BY <1>4 DEF LineEnds
<1>6. /\ message.wire[At + LineLength + 1] = CR
      /\ message.wire[At + LineLength + 2] = LF
      /\ At + LineLength + 2 <= Len(message.wire)
  <2>1. LineLength + 1 \in 1 .. Remaining /\ LineLength + 2 \in 1 .. Remaining
    BY <1>1, <1>2
  <2>2. /\ message.wire[At + (LineLength + 1)] = buffer[pos + (LineLength + 1)]
        /\ message.wire[At + (LineLength + 2)] = buffer[pos + (LineLength + 2)]
    BY <1>3, <2>1
  <2>3. /\ pos + (LineLength + 1) = i /\ pos + (LineLength + 2) = i + 1
        /\ At + (LineLength + 1) = At + LineLength + 1
        /\ At + (LineLength + 2) = At + LineLength + 2
    BY <1>1, <1>2, <1>3 DEF i
  <2>4. message.wire[At + (LineLength + 1)] = CR /\ message.wire[At + (LineLength + 2)] = LF
    BY <1>5, <2>2, <2>3
  <2>5. At + LineLength + 2 <= Len(message.wire)
    BY <1>1, <1>2, <1>3
  <2>. QED
    BY <2>3, <2>4, <2>5
<1>7. Len(Line) = LineLength /\ (LineLength = 1 => Line[1] = message.wire[At + 1])
  <2>1. LineLength \in 0 .. Remaining
    BY <1>1, <1>2
  <2>2. Line = SubSeq(message.wire, At + 1, At + LineLength) /\ Line \in Seq(Token)
    BY <2>1, RunIs DEF Line
  <2>3. At \in 0 .. Len(message.wire) /\ LineLength \in 0 .. Len(message.wire) - At
    BY <1>1, <1>2, <1>3
  <2>. DEFINE t == SubSeq(message.wire, At + 1, At + LineLength)
  <2>4. Len(t) = LineLength /\ \A x \in 1 .. LineLength : t[x] = message.wire[At + x]
    <3>. DEFINE wire == message.wire
                a == At
    <3>1. wire \in Seq(Token) /\ a \in 0 .. Len(wire) /\ LineLength \in 0 .. Len(wire) - a
      BY <1>3, <2>3
    <3>. HIDE DEF wire, a
    <3>2. /\ Len(SubSeq(wire, a + 1, a + LineLength)) = LineLength
          /\ \A x \in 1 .. LineLength :
                 SubSeq(wire, a + 1, a + LineLength)[x] = wire[a + x]
      BY <3>1, CutOutIs
    <3>. QED
      BY <3>2 DEF wire, a
  <2>. HIDE DEF t
  <2>. QED
    BY <2>2, <2>4 DEF t
<1>8. LineLength = 0 <=> HasCRLF(message.wire, At)
  <2>1. ASSUME LineLength = 0 PROVE HasCRLF(message.wire, At)
    BY <1>3, <1>6, <2>1 DEF HasCRLF
  <2>2. ASSUME HasCRLF(message.wire, At) PROVE LineLength = 0
    <3>1. buffer[pos + 1] = CR /\ buffer[pos + 2] = LF /\ 2 <= Remaining
      <4>1. 2 <= Remaining /\ 1 \in 1 .. Remaining /\ 2 \in 1 .. Remaining
        BY <1>1, <1>2
      <4>2. message.wire[At + 1] = buffer[pos + 1] /\ message.wire[At + 2] = buffer[pos + 2]
        BY <1>3, <4>1
      <4>. QED
        BY <2>2, <4>1, <4>2 DEF HasCRLF
    <3>2. pos + 1 \in LineEnds
      BY <1>2, <3>1 DEF LineEnds
    <3>. QED
      BY <1>1, <1>2, <1>4, <3>2 DEF i
  <2>. QED
    BY <2>1, <2>2
<1>9. ASSUME LineLength = 1
      PROVE  At < Len(message.wire) /\ HasCRLF(message.wire, At + 1)
  BY <1>3, <1>6, <1>9 DEF HasCRLF
<1>10. ASSUME NEW kinds \in SUBSET LineKinds, HasLine(message.wire, At, kinds)
       PROVE  LineLength = 1
  <2>1. message.wire[At + 1].kind # "CR" /\ CR.kind = "CR"
    BY <1>10 DEF HasLine, LineKinds, HeaderKinds, CR
  <2>2. message.wire[At + 1] # CR
    BY <2>1
  <2>3. /\ message.wire[At + 2] = CR /\ message.wire[At + 3] = LF
    BY <1>3, <1>10 DEF HasLine, HasCRLF
  <2>4. LineLength # 0
    BY <1>3, <1>6, <2>2
  <2>5. ASSUME LineLength >= 2 PROVE pos + 2 \in LineEnds
    <3>1. 2 \in 1 .. Remaining /\ 3 \in 1 .. Remaining
      BY <1>1, <1>2, <2>5
    <3>2. buffer[pos + 2] = CR /\ buffer[pos + 3] = LF
      BY <1>3, <2>3, <3>1
    <3>. QED
      BY <1>1, <1>2, <3>1, <3>2 DEF LineEnds
  <2>. QED
    BY <1>1, <1>2, <1>4, <2>4, <2>5 DEF i
<1>. QED
  BY <1>1, <1>7, <1>8, <1>9, <1>10
-----------------------------------------------------------------------------
(* The parts of a message. *)

\* A step that takes a line goes past the line and its CRLF.
LEMMA LineTaken ==
    ASSUME Reading, TakeLine
    PROVE  /\ At' = At + LineLength + 2 /\ Given' = Given
           /\ parsing' = parsing /\ message' = message /\ cuts' = cuts
<1>. DEFINE n == LineLength + 2
<1>1. LineLength \in Nat /\ n \in 0 .. Remaining /\ Advance(n)
  BY LineIs
<1>2. At \in Nat
  BY WindowIs
<1>. HIDE DEF n
<1>3. At' = At + n /\ Given' = Given /\ UNCHANGED <<parsing, message, cuts>>
  BY <1>1, PastIs
<1>4. At + n = At + LineLength + 2
  BY <1>1, <1>2 DEF n
<1>. QED
  BY <1>3, <1>4

\* One more header: its field has its value, whatever was given it before.
LEMMA NextField ==
    ASSUME NEW m, NEW k \in Nat \ {0}
    PROVE  FieldsUpTo(m, k)
             = Put(FieldsUpTo(m, k - 1), m.wire[3 * k + 1].kind, m.wire[3 * k + 1].n)
<1>. DEFINE Kind(i) == m.wire[3 * i + 1].kind
            Of(j, field) == {i \in 1 .. j : Kind(i) = field}
            Latest(j, field) == m.wire[3 * Max(Of(j, field)) + 1].n
            Named(j) == {Kind(i) : i \in 1 .. j}
<1>1. 1 .. k = (1 .. k - 1) \cup {k}
  OBVIOUS
<1>2. Named(k) = Named(k - 1) \cup {Kind(k)}
  BY <1>1
<1>3. ASSUME NEW field, field # Kind(k)
      PROVE  Of(k, field) = Of(k - 1, field)
  BY <1>1, <1>3
<1>4. Max(Of(k, Kind(k))) = k
  <2>1. k \in Of(k, Kind(k)) /\ \A i \in Of(k, Kind(k)) : i \in Nat /\ k >= i
    OBVIOUS
  <2>. HIDE DEF Of
  <2>2. \A x \in Of(k, Kind(k)) :
            (\A y \in Of(k, Kind(k)) : x >= y) <=> x = k
    BY <2>1
  <2>. QED
    BY <2>1, <2>2 DEF Max
<1>5. /\ FieldsUpTo(m, k) = [field \in Named(k) |-> Latest(k, field)]
      /\ FieldsUpTo(m, k - 1) = [field \in Named(k - 1) |-> Latest(k - 1, field)]
  BY DEF FieldsUpTo
<1>6. \A field \in Named(k) : Latest(k, field) = IF field = Kind(k) THEN m.wire[3 * k + 1].n
                                                 ELSE Latest(k - 1, field)
  BY <1>3, <1>4
<1>. HIDE DEF Named, Latest, Kind
<1>7. [field \in Named(k) |-> Latest(k, field)]
        = [field \in Named(k - 1) \cup {Kind(k)} |->
             IF field = Kind(k) THEN m.wire[3 * k + 1].n
             ELSE [f \in Named(k - 1) |-> Latest(k - 1, f)][field]]
  BY <1>2, <1>6
<1>. QED
  BY <1>5, <1>7 DEF Put, Kind

LEMMA NoFields == ASSUME NEW m PROVE FieldsUpTo(m, 0) = <<>>
<1>1. 1 .. 0 = {}
  OBVIOUS
<1>. QED
  BY <1>1 DEF FieldsUpTo

\* Positions are numbers.
LEMMA PositionsAre ==
    ASSUME NEW m, IsMessage(m), NEW i \in 1 .. Len(m.chunks) + 1
    PROVE  /\ Len(m.chunks) \in Nat /\ DOMAIN m.chunks = 1 .. Len(m.chunks)
           /\ \A j \in DOMAIN m.chunks :
                  /\ m.chunks[j].at \in Nat /\ m.chunks[j].size \in Nat
                  /\ m.chunks[j].before \in Nat /\ ChunkEnd(m.chunks[j]) \in Nat
           /\ BodyAt(m) \in Nat /\ ChunkAt(m, i) \in Nat /\ Before(m, i) \in Nat
<1>1. m.chunks \in Seq([at : Nat, size : Nat, before : Nat]) /\ m.headers \in Nat
  BY DEF IsMessage
<1>2. Len(m.chunks) \in Nat /\ DOMAIN m.chunks = 1 .. Len(m.chunks)
  BY <1>1
<1>3. ASSUME NEW j \in DOMAIN m.chunks
      PROVE  /\ m.chunks[j].at \in Nat /\ m.chunks[j].size \in Nat
             /\ m.chunks[j].before \in Nat /\ ChunkEnd(m.chunks[j]) \in Nat
  <2>1. m.chunks[j] \in [at : Nat, size : Nat, before : Nat]
    BY <1>1, <1>2, ElementOfSeq
  <2>. QED
    BY <2>1 DEF ChunkEnd
<1>4. BodyAt(m) \in Nat
  BY <1>1 DEF BodyAt, EmptyLineAt
<1>5. i # 1 => i - 1 \in DOMAIN m.chunks
  BY <1>2
<1>6. ChunkAt(m, i) \in Nat /\ Before(m, i) \in Nat
  <2>1. CASE i = 1
    BY <1>4, <2>1 DEF ChunkAt, Before
  <2>2. CASE i # 1
    <3>. DEFINE c == m.chunks[i - 1]
    <3>1. c.before \in Nat /\ c.size \in Nat /\ ChunkEnd(c) \in Nat
      BY <1>3, <1>5, <2>2
    <3>. HIDE DEF c
    <3>2. Behind(m, c) \in Nat /\ c.before + c.size \in Nat
      BY <3>1 DEF Behind
    <3>. QED
      BY <2>2, <3>2 DEF c, ChunkAt, Before
  <2>. QED
    BY <2>1, <2>2
<1>. QED
  BY <1>2, <1>3, <1>4, <1>6

\* A chunk, and what is behind it.
LEMMA ChunkIs ==
    ASSUME NEW m, IsMessage(m), InChunks(m), NEW i \in DOMAIN m.chunks
    PROVE  LET chunk == m.chunks[i]
           IN  /\ chunk.at = ChunkAt(m, i) /\ chunk.before = Before(m, i)
               /\ HasLine(m.wire, chunk.at, {"size"}) /\ m.wire[chunk.at + 1].n = chunk.size
               /\ chunk.size \in Nat \ {0}
               /\ ChunkEnd(chunk) = chunk.at + 3 + chunk.size
               /\ ChunkEnd(chunk) <= Len(m.wire)
               /\ i + 1 \in 1 .. Len(m.chunks) + 1
               /\ ChunkAt(m, i + 1) = Behind(m, chunk)
               /\ Before(m, i + 1) = chunk.before + chunk.size
               /\ Before(m, i + 1) <= Len(m.body)
               /\ \A j \in 1 .. chunk.size : m.body[chunk.before + j] = m.wire[chunk.at + 3 + j]
<1>. DEFINE chunk == m.chunks[i]
<1>1. /\ Len(m.chunks) \in Nat /\ DOMAIN m.chunks = 1 .. Len(m.chunks)
      /\ chunk.at \in Nat /\ chunk.size \in Nat /\ chunk.before \in Nat
  <2>1. 1 \in 1 .. Len(m.chunks) + 1
    BY DEF IsMessage
  <2>. QED
    BY <2>1, PositionsAre
<1>2. ChunksAreThere(m) /\ m.wire \in Seq(Token) /\ m.body \in Seq(Token)
  BY DEF IsMessage
<1>3. /\ chunk.at = ChunkAt(m, i) /\ chunk.before = Before(m, i)
      /\ BeginsWholeChunk(m, chunk.at) /\ chunk.size = m.wire[chunk.at + 1].n
      /\ chunk.before + chunk.size <= Len(m.body)
      /\ SubSeq(m.body, chunk.before + 1, chunk.before + chunk.size)
           = SubSeq(m.wire, chunk.at + 4, ChunkEnd(chunk))
  BY <1>2 DEF ChunksAreThere
<1>4. i + 1 \in 1 .. Len(m.chunks) + 1 /\ i + 1 # 1 /\ i + 1 - 1 = i
  BY <1>1
<1>5. ChunkAt(m, i + 1) = Behind(m, chunk) /\ Before(m, i + 1) = chunk.before + chunk.size
  <2>. DEFINE k == i + 1
  <2>1. k # 1 /\ k - 1 = i
    BY <1>1
  <2>. HIDE DEF k
  <2>2. ChunkAt(m, k) = Behind(m, chunk) /\ Before(m, k) = chunk.before + chunk.size
    BY <2>1 DEF ChunkAt, Before
  <2>. QED
    BY <2>2 DEF k
<1>. HIDE DEF chunk
<1>6. ChunkEnd(chunk) = chunk.at + 3 + chunk.size /\ ChunkEnd(chunk) <= Len(m.wire)
  BY <1>3 DEF ChunkEnd, BeginsWholeChunk
<1>7. ASSUME NEW j \in 1 .. chunk.size
      PROVE  m.body[chunk.before + j] = m.wire[chunk.at + 3 + j]
  <2>. DEFINE b == chunk.before
              n == chunk.size
              a == chunk.at + 3
              body == m.body
              wire == m.wire
  <2>1. /\ body \in Seq(Token) /\ b \in 0 .. Len(body) /\ n \in 0 .. Len(body) - b
        /\ wire \in Seq(Token) /\ a \in 0 .. Len(wire) /\ n \in 0 .. Len(wire) - a
        /\ Len(body) \in Nat /\ Len(wire) \in Nat
    <3>1. Len(body) \in Nat /\ Len(wire) \in Nat
      BY <1>2
    <3>2. b + n <= Len(body) /\ a + n <= Len(wire)
      BY <1>3, <1>6
    <3>3. b \in Nat /\ a \in Nat /\ n \in Nat
      BY <1>1
    <3>4. body \in Seq(Token) /\ wire \in Seq(Token)
      BY <1>2
    <3>. HIDE DEF b, n, a, body, wire
    <3>. QED
      BY <3>1, <3>2, <3>3, <3>4
  <2>2. SubSeq(body, b + 1, b + n) = SubSeq(wire, a + 1, a + n)
    <3>1. a + 1 = chunk.at + 4 /\ a + n = ChunkEnd(chunk)
      BY <1>1, <1>6
    <3>. HIDE DEF a
    <3>. QED
      BY <1>3, <3>1
  <2>. HIDE DEF b, n, a, body, wire
  <2>3. \A l \in 1 .. n : SubSeq(body, b + 1, b + n)[l] = body[b + l]
    BY <2>1, CutOutIs
  <2>4. \A l \in 1 .. n : SubSeq(wire, a + 1, a + n)[l] = wire[a + l]
    BY <2>1, CutOutIs
  <2>5. j \in 1 .. n
    BY DEF n
  <2>6. body[b + j] = wire[a + j]
    BY <2>2, <2>3, <2>4, <2>5
  <2>. QED
    BY <2>6 DEF b, a, body, wire
<1>8. HasLine(m.wire, chunk.at, {"size"}) /\ chunk.size # 0
  BY <1>3 DEF BeginsWholeChunk, BeginsChunk
<1>. QED
  BY <1>1, <1>3, <1>4, <1>5, <1>6, <1>7, <1>8 DEF chunk

-----------------------------------------------------------------------------
(* How far the parser is, and what it has made of it. *)

\* The lines of the head are behind the parser, and what it made of them.
HeadRead ==
    /\ HasLine(message.wire, 0, {"request"})
    /\ HasCRLF(message.wire, EmptyLineAt(message))
    /\ ValueOf(message, "length") \in Nat \cup {Invalid, Empty}
    /\ request.lowercase = Fields(message)

InHeaders ==
    \E k \in 1 .. message.headers + 1 :
        /\ At = 3 * k
        /\ HasLine(message.wire, 0, {"request"})
        /\ request.lowercase = FieldsUpTo(message, k - 1)

InBody ==
    /\ HeadRead
    /\ HasLength(message) /\ contentLength = ValueOf(message, "length")
    /\ At = BodyAt(message) + Len(request.body)
    /\ request.body = SubSeq(message.wire, BodyAt(message) + 1, At)

Chunks == DOMAIN message.chunks

BodyUpTo(n) == request.body = SubSeq(message.body, 1, n)

AtChunk(i) ==
    ~chunkSizeParsed /\ At = ChunkAt(message, i) /\ BodyUpTo(Before(message, i))

InChunk(chunk) ==
    /\ chunkSizeParsed /\ chunkSize \in 1 .. chunk.size
    /\ At = ChunkEnd(chunk) - chunkSize
    /\ BodyUpTo(chunk.before + chunk.size - chunkSize)

\* The data are there and a call ended before their CRLF did: the next line is
\* going to be empty, or there is none.
PastData(chunk) ==
    /\ ~chunkSizeParsed /\ At = ChunkEnd(chunk)
    /\ HasCRLF(message.wire, ChunkEnd(chunk))
    /\ \/ ChunkEnd(chunk) \in cuts
       \/ parsing /\ Given = ChunkEnd(chunk) + 1

\* More data were announced than the client sends.
InShortChunk ==
    /\ chunkSizeParsed /\ ~EndsChunks(message)
    /\ At + chunkSize > Len(message.wire)

InChunkedBody ==
    /\ HeadRead /\ InChunks(message)
    /\ \/ \E i \in 1 .. Len(message.chunks) + 1 : AtChunk(i)
       \/ \E i \in Chunks : InChunk(message.chunks[i]) \/ PastData(message.chunks[i])
       \/ InShortChunk

Complete ==
    /\ WellFormed(message) /\ HeadRead
    /\ request.body = message.body
    /\ At = SizeOf(message) /\ At <= Given

Refused == WellFormed(message) => cuts \cap ChunkEnds(message) # {}

Progress ==
    ~moved =>
        /\ parsing => Given \in cuts
        /\ state # "START_LINE" /\ state # "ERROR" => IsValid(request)
        /\ state \in {"START_LINE", "HEADERS"} => ~chunkSizeParsed
        /\ state = "START_LINE" => At = 0 /\ request.lowercase = <<>>
        /\ state = "HEADERS" => InHeaders
        /\ state = "BODY" => InBody
        /\ state = "CHUNKED_BODY" => InChunkedBody
        /\ state = "COMPLETE" => Complete
        /\ state = "ERROR" => Refused

\* The line of the request, those of the headers and the body leave it valid.
LEMMA StartIsValid ==
    ASSUME Types, ParseStartLine, state' # "ERROR"
    PROVE  IsValid(request') /\ request'.lowercase = request.lowercase
<1>1. request' = SetVersion(SetPath(SetMethod(request, "GET"), Target), "HTTP_1_1")
  BY DEF ParseStartLine
<1>2. DOMAIN request = DOMAIN NewRequest
  BY DEF Types, IsRequest
<1>3. Target # <<>>
  BY DEF Target
<1>. QED
  BY <1>1, <1>2, <1>3 DEF NewRequest, SetVersion, SetPath, SetMethod, IsValid

LEMMA HeaderIsValid ==
    ASSUME Types, IsValid(request), NEW name, NEW value
    PROVE  LET s == AddHeader(request, name, value)
           IN  IsValid(s) /\ s.lowercase = Put(request.lowercase, ToLower(name), value)
BY DEF Types, IsRequest, NewRequest, AddHeader, IsValid

LEMMA BodyIsValid ==
    ASSUME Types, IsValid(request), NEW data
    PROVE  LET s == AppendBody(request, data)
           IN  /\ IsValid(s) /\ s.lowercase = request.lowercase
               /\ s.body = request.body \o data
BY DEF Types, IsRequest, NewRequest, AppendBody, IsValid

LEMMA StartLineProgress ==
    ASSUME Reading, Progress, ParseStartLine
    PROVE  Progress'
<1>1. /\ state = "START_LINE" /\ TakeLine /\ moved' = moved /\ ~moved
      /\ At = 0 /\ request.lowercase = <<>> /\ (parsing => Given \in cuts)
      /\ state' \in {"HEADERS", "ERROR"} /\ ~chunkSizeParsed'
  BY DEF Reading, Progress, ParseStartLine, In
<1>2. /\ LineLength \in Nat /\ Len(Line) = LineLength
      /\ LineLength + 2 \in 0 .. Remaining /\ Advance(LineLength + 2)
      /\ LineLength = 1 => /\ Line[1] = message.wire[At + 1] /\ At < Len(message.wire)
                           /\ HasCRLF(message.wire, At + 1)
      /\ HasLine(message.wire, At, {"request"}) => LineLength = 1
  <2>1. {"request"} \in SUBSET LineKinds
    BY DEF LineKinds
  <2>. QED
    BY <1>1, <2>1, LineIs
<1>3. /\ At' = At + LineLength + 2 /\ Given' = Given
      /\ parsing' = parsing /\ message' = message /\ cuts' = cuts
  BY <1>1, LineTaken
<1>4. CASE state' = "HEADERS"
  <2>1. LineLength = 1 /\ Line[1].kind = "request"
    BY <1>2, <1>4 DEF ParseStartLine
  <2>2. HasLine(message.wire, 0, {"request"}) /\ At' = 3
    BY <1>1, <1>2, <1>3, <2>1 DEF HasLine
  <2>3. IsValid(request') /\ request'.lowercase = FieldsUpTo(message, 0)
    BY <1>1, <1>4, StartIsValid, NoFields DEF Reading
  <2>4. 1 \in 1 .. message.headers + 1
    BY MessageIs DEF IsMessage, Reading
  <2>5. InHeaders'
    <3>1. /\ At' = 3 * 1 /\ HasLine(message'.wire, 0, {"request"})
          /\ request'.lowercase = FieldsUpTo(message', 1 - 1)
          /\ 1 \in 1 .. message'.headers + 1
      BY <1>3, <2>2, <2>3, <2>4
    <3>. QED
      BY <3>1, Zenon DEF InHeaders
  <2>. QED
    BY <1>1, <1>3, <1>4, <2>3, <2>5 DEF Progress
<1>5. CASE state' = "ERROR"
  <2>1. ~(LineLength = 1 /\ Line[1].kind = "request")
    BY <1>2, <1>5 DEF ParseStartLine
  <2>2. ~HasLine(message.wire, 0, {"request"})
    BY <1>1, <1>2, <2>1 DEF HasLine
  <2>3. Refused'
    BY <1>3, <2>2 DEF Refused, WellFormed
  <2>. QED
    BY <1>1, <1>3, <1>5, <2>3 DEF Progress
<1>. QED
  BY <1>1, <1>4, <1>5

LEMMA HeaderProgress ==
    ASSUME Reading, Progress, ParseHeader
    PROVE  Progress'
<1>1. /\ state = "HEADERS" /\ TakeLine /\ moved' = moved /\ ~moved /\ LineLength > 0
      /\ InHeaders /\ IsValid(request) /\ (parsing => Given \in cuts)
      /\ state' \in {"HEADERS", "ERROR"} /\ ~chunkSizeParsed'
  BY DEF Reading, Progress, ParseHeader, In
<1>2. PICK k \in 1 .. message.headers + 1 :
        /\ At = 3 * k /\ HasLine(message.wire, 0, {"request"})
        /\ request.lowercase = FieldsUpTo(message, k - 1)
  BY <1>1 DEF InHeaders
<1>3. /\ LineLength \in Nat /\ Len(Line) = LineLength
      /\ LineLength + 2 \in 0 .. Remaining /\ Advance(LineLength + 2)
      /\ LineLength = 0 <=> HasCRLF(message.wire, At)
      /\ LineLength = 1 => /\ Line[1] = message.wire[At + 1] /\ At < Len(message.wire)
                           /\ HasCRLF(message.wire, At + 1)
      /\ HasLine(message.wire, At, HeaderKinds) => LineLength = 1
  <2>1. HeaderKinds \in SUBSET LineKinds
    BY DEF LineKinds
  <2>. QED
    BY <1>1, <2>1, LineIs
<1>4. /\ At' = At + LineLength + 2 /\ Given' = Given
      /\ parsing' = parsing /\ message' = message /\ cuts' = cuts
  BY <1>1, LineTaken
<1>5. /\ message.headers \in Nat /\ ~HasLine(message.wire, EmptyLineAt(message), HeaderKinds)
      /\ \A i \in 1 .. message.headers : HasLine(message.wire, 3 * i, HeaderKinds)
  BY MessageIs DEF IsMessage, Reading
<1>6. IsHeader <=> HasLine(message.wire, At, HeaderKinds)
  BY <1>3 DEF IsHeader, HasLine
<1>7. k # message.headers + 1 <=> HasLine(message.wire, At, HeaderKinds)
  <2>1. ASSUME k # message.headers + 1 PROVE HasLine(message.wire, At, HeaderKinds)
    BY <1>2, <1>5, <2>1
  <2>2. ASSUME k = message.headers + 1 PROVE ~HasLine(message.wire, At, HeaderKinds)
    BY <1>2, <1>5, <2>2 DEF EmptyLineAt
  <2>. QED
    BY <2>1, <2>2
<1>8. CASE IsHeader
  <2>1. LineLength = 1 /\ Line[1] = message.wire[3 * k + 1]
    BY <1>2, <1>3, <1>8 DEF IsHeader
  <2>2. request' = AddHeader(request, NameOf(Line[1]), Line[1].n) /\ state' = "HEADERS"
    BY <1>1, <1>8 DEF ParseHeader
  <2>3. /\ IsValid(request')
        /\ request'.lowercase = Put(request.lowercase, ToLower(NameOf(Line[1])), Line[1].n)
    BY <1>1, <2>2, HeaderIsValid DEF Reading
  <2>4. ToLower(NameOf(Line[1])) = message.wire[3 * k + 1].kind
    BY <2>1 DEF ToLower, NameOf
  <2>5. request'.lowercase = FieldsUpTo(message, k)
    <3>1. k \in Nat \ {0}
      OBVIOUS
    <3>. QED
      BY <1>2, <2>1, <2>3, <2>4, <3>1, NextField
  <2>6. k + 1 \in 1 .. message.headers + 1 /\ At' = 3 * (k + 1) /\ k + 1 - 1 = k
    <3>1. k # message.headers + 1
      BY <1>6, <1>7, <1>8
    <3>2. k + 1 \in 1 .. message.headers + 1 /\ k + 1 - 1 = k
      BY <1>5, <3>1
    <3>3. At = 3 * k /\ At' = At + 1 + 2
      BY <1>2, <1>4, <2>1
    <3>4. At' = 3 * (k + 1)
      BY <3>3
    <3>. QED
      BY <3>2, <3>4
  <2>7. InHeaders'
    <3>. DEFINE j == k + 1
    <3>1. /\ j \in 1 .. message'.headers + 1 /\ At' = 3 * j
          /\ HasLine(message'.wire, 0, {"request"})
          /\ request'.lowercase = FieldsUpTo(message', j - 1)
      BY <1>2, <1>4, <2>5, <2>6
    <3>. HIDE DEF j
    <3>. QED
      BY <3>1, Zenon DEF InHeaders
  <2>. QED
    BY <1>1, <1>4, <2>2, <2>3, <2>7 DEF Progress
<1>9. CASE ~IsHeader
  <2>1. k = message.headers + 1 /\ state' = "ERROR"
    BY <1>6, <1>7, <1>9 DEF ParseHeader
  <2>2. ~HasCRLF(message.wire, EmptyLineAt(message))
    BY <1>1, <1>2, <1>3, <2>1 DEF EmptyLineAt
  <2>3. Refused'
    BY <1>4, <2>2 DEF Refused, WellFormed
  <2>. QED
    BY <1>1, <1>4, <2>1, <2>3 DEF Progress
<1>. QED
  BY <1>8, <1>9

\* Behind the headers: their fields are those of the message.
LEMMA EmptyRun ==
    ASSUME NEW T, NEW s \in Seq(T), NEW a \in 0 .. Len(s)
    PROVE  SubSeq(s, a + 1, a) = <<>>
<1>. DEFINE t == SubSeq(s, a + 1, a)
<1>1. 0 \in 0 .. Len(s) - a /\ a + 0 = a
  OBVIOUS
<1>2. SubSeq(s, a + 1, a + 0) \in Seq(T) /\ Len(SubSeq(s, a + 1, a + 0)) = 0
  BY <1>1, CutOutIs
<1>3. t \in Seq(T) /\ Len(t) = 0
  BY <1>1, <1>2
<1>. HIDE DEF t
<1>4. t = <<>>
  BY <1>3
<1>. QED
  BY <1>4 DEF t

LEMMA HeaderValuesAre ==
    ASSUME request.lowercase = Fields(message)
    PROVE  /\ GetHeader(request, ContentLength) = ValueOf(message, "length")
           /\ GetHeader(request, TransferEncoding) = ValueOf(message, "encoding")
BY DEF GetHeader, HasHeader, ValueOf, ToLower, ContentLength, TransferEncoding

LEMMA EndHeadersProgress ==
    ASSUME Reading, Progress, EndHeaders
    PROVE  Progress'
<1>1. /\ state = "HEADERS" /\ TakeLine /\ moved' = moved /\ ~moved /\ LineLength = 0
      /\ InHeaders /\ IsValid(request) /\ (parsing => Given \in cuts)
      /\ request' = request /\ request.body = <<>>
      /\ ~chunkSizeParsed /\ chunkSizeParsed' = chunkSizeParsed
  BY DEF Reading, Types, Progress, EndHeaders, In
<1>2. PICK k \in 1 .. message.headers + 1 :
        /\ At = 3 * k /\ HasLine(message.wire, 0, {"request"})
        /\ request.lowercase = FieldsUpTo(message, k - 1)
  BY <1>1 DEF InHeaders
<1>3. /\ HasCRLF(message.wire, At) /\ 2 \in 0 .. Remaining /\ Advance(2)
      /\ ~HasLine(message.wire, At, HeaderKinds)
  <2>1. HeaderKinds \in SUBSET LineKinds
    BY DEF LineKinds
  <2>. QED
    BY <1>1, <2>1, LineIs
<1>4. /\ At' = At + 2 /\ Given' = Given /\ At + 2 <= Len(message.wire)
      /\ parsing' = parsing /\ message' = message /\ cuts' = cuts
  <2>1. At \in Nat /\ At' = At + LineLength + 2
    BY <1>1, LineTaken, WindowIs
  <2>2. At' = At + 2
    BY <1>1, <2>1
  <2>3. At + 2 <= Len(message.wire)
    BY <1>3 DEF HasCRLF
  <2>. QED
    BY <1>1, <2>2, <2>3, LineTaken
<1>5. /\ IsMessage(message) /\ message.headers \in Nat
      /\ message.wire \in Seq(Token) /\ message.body \in Seq(Token)
      /\ \A i \in 1 .. message.headers : HasLine(message.wire, 3 * i, HeaderKinds)
  BY MessageIs DEF IsMessage, Reading
<1>6. k = message.headers + 1
  BY <1>2, <1>3, <1>5
<1>7. At = EmptyLineAt(message) /\ At' = BodyAt(message) /\ BodyAt(message) \in Nat
  BY <1>2, <1>4, <1>5, <1>6 DEF EmptyLineAt, BodyAt
<1>8. request.lowercase = Fields(message)
  <2>1. k - 1 = message.headers
    BY <1>5, <1>6
  <2>. QED
    BY <1>2, <2>1 DEF Fields
<1>. DEFINE length == ValueOf(message, "length")
            chunked == ValueOf(message, "encoding") = Chunked
<1>10. \/ length \in Nat /\ contentLength' = length /\ state' = "BODY"
       \/ length = Invalid /\ state' = "ERROR"
       \/ length = Empty /\ state' = IF chunked THEN "CHUNKED_BODY" ELSE "COMPLETE"
  BY <1>8, HeaderValuesAre DEF EndHeaders
<1>9. HeadRead /\ HeadRead'
  BY <1>1, <1>2, <1>3, <1>4, <1>7, <1>8, <1>10 DEF HeadRead
<1>11. BodyAt(message) \in 0 .. Len(message.wire) /\ Len(message.wire) \in Nat
  BY <1>4, <1>5, <1>7
<1>12. CASE length \in Nat /\ contentLength' = length /\ state' = "BODY"
  <2>1. HasLength(message)
    BY <1>12 DEF HasLength
  <2>2. Len(request.body) = 0
    BY <1>1
  <2>3. At' = BodyAt(message) + Len(request.body)
    BY <1>7, <2>2
  <2>4. request.body = SubSeq(message.wire, BodyAt(message) + 1, At')
    <3>. DEFINE wire == message.wire
                a == BodyAt(message)
    <3>1. wire \in Seq(Token) /\ a \in 0 .. Len(wire)
      BY <1>5, <1>11
    <3>. HIDE DEF wire, a
    <3>2. SubSeq(wire, a + 1, a) = <<>>
      BY <3>1, EmptyRun
    <3>. QED
      BY <1>1, <1>7, <3>2 DEF wire, a
  <2>5. InBody'
    BY <1>1, <1>4, <1>9, <1>12, <2>1, <2>3, <2>4 DEF InBody
  <2>. QED
    BY <1>1, <1>4, <1>12, <2>5 DEF Progress
<1>13. CASE length = Invalid /\ state' = "ERROR"
  <2>1. Refused'
    BY <1>4, <1>13 DEF Refused, WellFormed
  <2>. QED
    BY <1>1, <1>4, <1>13, <2>1 DEF Progress
<1>14. CASE length = Empty /\ chunked /\ state' = "CHUNKED_BODY"
  <2>1. InChunks(message)
    BY <1>14 DEF InChunks
  <2>2. ChunkAt(message, 1) = BodyAt(message) /\ Before(message, 1) = 0
    BY DEF ChunkAt, Before
  <2>3. SubSeq(message.body, 1, 0) = <<>>
    BY <1>5
  <2>4. 1 \in 1 .. Len(message.chunks) + 1
    BY <1>5 DEF IsMessage
  <2>5. AtChunk(1)'
    BY <1>1, <1>4, <1>7, <2>2, <2>3 DEF AtChunk, BodyUpTo
  <2>6. InChunkedBody'
    BY <1>4, <1>9, <2>1, <2>4, <2>5 DEF InChunkedBody
  <2>. QED
    BY <1>1, <1>4, <1>14, <2>6 DEF Progress
<1>15. CASE length = Empty /\ ~chunked /\ state' = "COMPLETE"
  <2>1. ~HasLength(message) /\ ~InChunks(message) /\ length # Invalid
    BY <1>15 DEF HasLength, InChunks, Empty, Invalid
  <2>2. message.body = <<>>
    BY <1>5, <2>1 DEF IsMessage
  <2>3. WellFormed(message)
    BY <1>9, <2>1 DEF WellFormed, HeadRead
  <2>4. SizeOf(message) = At'
    BY <1>7, <2>1 DEF SizeOf
  <2>5. At' <= Given'
    BY <1>3, <1>4, WindowIs
  <2>6. Complete'
    BY <1>1, <1>4, <1>9, <2>2, <2>3, <2>4, <2>5 DEF Complete
  <2>. QED
    BY <1>1, <1>4, <1>15, <2>6 DEF Progress
<1>. QED
  BY <1>10, <1>12, <1>13, <1>14, <1>15

\* Two runs of tokens, one behind the other.
LEMMA JoinIs ==
    ASSUME NEW T, NEW s \in Seq(T), NEW a \in 0 .. Len(s),
           NEW b \in a .. Len(s), NEW c \in b .. Len(s)
    PROVE  SubSeq(s, a + 1, b) \o SubSeq(s, b + 1, c) = SubSeq(s, a + 1, c)
<1>. DEFINE first == a + 1
<1>1. first \in 1 .. Len(s) + 1 /\ b \in first - 1 .. Len(s) /\ c \in b .. Len(s)
  OBVIOUS
<1>. HIDE DEF first
<1>2. SubSeq(s, first, b) \o SubSeq(s, b + 1, c) = SubSeq(s, first, c)
  BY <1>1, ConcatAdjacentSubSeq, Zenon
<1>. QED
  BY <1>2 DEF first

\* What a handler appends to the body is what is next on the wire.
LEMMA TakenIs ==
    ASSUME Reading, IsValid(request), NEW n \in 0 .. Remaining, TakeBody(n)
    PROVE  /\ IsValid(request') /\ request'.lowercase = request.lowercase
           /\ request'.body = request.body \o SubSeq(message.wire, At + 1, At + n)
<1>. DEFINE data == SubSeq(buffer, pos + 1, pos + n)
<1>1. request' = AppendBody(request, data)
  BY DEF TakeBody
<1>2. data = SubSeq(message.wire, At + 1, At + n)
  BY RunIs
<1>. HIDE DEF data
<1>3. /\ IsValid(request') /\ request'.lowercase = request.lowercase
      /\ request'.body = request.body \o data
  BY <1>1, BodyIsValid DEF Reading
<1>. QED
  BY <1>2, <1>3

LEMMA BodyProgress ==
    ASSUME Reading, Progress, ParseBody
    PROVE  Progress'
<1>. DEFINE n == Least(Needed, Remaining)
            a == BodyAt(message)
            length == ValueOf(message, "length")
<1>1. /\ state = "BODY" /\ moved' = moved /\ ~moved /\ InBody /\ IsValid(request)
      /\ (parsing => Given \in cuts) /\ Advance(n) /\ TakeBody(n)
      /\ state' = IF Enough THEN "COMPLETE" ELSE "BODY"
      /\ contentLength' = contentLength
  BY DEF Reading, Progress, ParseBody, In
<1>2. /\ HeadRead /\ HasLength(message) /\ contentLength = length
      /\ At = a + Len(request.body) /\ request.body = SubSeq(message.wire, a + 1, At)
  BY <1>1 DEF InBody
<1>3. /\ IsMessage(message) /\ message.wire \in Seq(Token) /\ Len(message.wire) \in Nat
      /\ a \in Nat /\ length \in Nat
  <2>1. IsMessage(message)
    BY MessageIs DEF Reading
  <2>2. message.wire \in Seq(Token) /\ message.headers \in Nat
    BY <2>1 DEF IsMessage
  <2>3. BodyAt(message) \in Nat
    BY <2>2 DEF BodyAt, EmptyLineAt
  <2>4. Len(message.wire) \in Nat
    BY <2>2
  <2>5. length \in Nat
    BY <1>2 DEF HasLength
  <2>. QED
    BY <2>1, <2>2, <2>3, <2>4, <2>5
<1>4. /\ At \in Nat /\ Remaining \in Nat /\ At + Remaining <= Len(message.wire)
      /\ Len(request.body) \in Nat /\ Len(request.body) <= contentLength
      /\ Needed = contentLength - Len(request.body) /\ Needed \in Nat
  <2>1. /\ request.body \in Seq(Token) /\ contentLength \in Nat
        /\ Len(request.body) <= contentLength
    BY <1>1 DEF Reading, Types, TypeOK, IsRequest
  <2>2. Len(request.body) \in Nat
    BY <2>1
  <2>. QED
    BY <2>1, <2>2, WindowIs DEF Needed
<1>5. /\ n \in 0 .. Remaining /\ n <= Needed
      /\ Enough => n = Needed
  BY <1>4 DEF Least, Enough
<1>. HIDE DEF n
<1>6. /\ At' = At + n /\ Given' = Given
      /\ parsing' = parsing /\ message' = message /\ cuts' = cuts
  BY <1>1, <1>5, PastIs
<1>7. /\ IsValid(request') /\ request'.lowercase = request.lowercase
      /\ request'.body = request.body \o SubSeq(message.wire, At + 1, At + n)
  BY <1>1, <1>5, TakenIs
<1>8. Len(request'.body) = Len(request.body) + n
  <2>1. n \in 0 .. Len(buffer) - pos
    BY <1>5 DEF Remaining
  <2>. QED
    BY <1>1, <2>1, TakeBodyIs DEF Reading
<1>. HIDE DEF a, length
<1>9. request'.body = SubSeq(message.wire, a + 1, At + n)
  <2>1. /\ a \in 0 .. Len(message.wire) /\ At \in a .. Len(message.wire)
        /\ At + n \in At .. Len(message.wire)
    <3>. DEFINE l == Len(request.body)
                w == Len(message.wire)
    <3>. HIDE DEF l, w
    <3>1. At = a + l /\ l \in Nat /\ a \in Nat
      BY <1>2, <1>3, <1>4 DEF l
    <3>2. At + Remaining <= w /\ w \in Nat /\ At \in Nat /\ Remaining \in Nat
      BY <1>3, <1>4 DEF w
    <3>3. a \in 0 .. w /\ At \in a .. w /\ At + n \in At .. w
      BY <1>5, <3>1, <3>2
    <3>. QED
      BY <3>3 DEF w
  <2>. DEFINE wire == message.wire
              b == At
              c == At + n
  <2>2. wire \in Seq(Token) /\ a \in 0 .. Len(wire) /\ b \in a .. Len(wire) /\ c \in b .. Len(wire)
    BY <1>3, <2>1
  <2>. HIDE DEF wire, b, c
  <2>3. SubSeq(wire, a + 1, b) \o SubSeq(wire, b + 1, c) = SubSeq(wire, a + 1, c)
    BY <2>2, JoinIs
  <2>. QED
    BY <1>2, <1>7, <2>3 DEF wire, b, c
<1>10. HeadRead'
  BY <1>2, <1>6, <1>7 DEF HeadRead
<1>11. CASE ~Enough
  <2>1. At' = a + Len(request'.body)
    BY <1>2, <1>3, <1>4, <1>5, <1>6, <1>8
  <2>2. InBody'
    BY <1>1, <1>2, <1>6, <1>9, <1>10, <2>1 DEF InBody, a, length
  <2>. QED
    BY <1>1, <1>6, <1>7, <1>11, <2>2 DEF Progress
<1>12. CASE Enough
  <2>1. At + n = a + length
    <3>1. At = a + Len(request.body) /\ n = length - Len(request.body)
      BY <1>2, <1>4, <1>5, <1>12
    <3>2. a \in Nat /\ length \in Nat /\ Len(request.body) \in Nat
      BY <1>3, <1>4
    <3>. DEFINE l == Len(request.body)
    <3>. HIDE DEF l
    <3>3. At = a + l /\ n = length - l /\ l \in Nat
      BY <3>1, <3>2 DEF l
    <3>. QED
      BY <3>2, <3>3
  <2>2. LengthFits(message)
    BY <1>4, <1>5, <2>1 DEF LengthFits, a, length
  <2>3. request'.body = message.body
    BY <1>2, <1>3, <1>9, <2>1, <2>2 DEF IsMessage, a, length
  <2>4. ~InChunks(message) /\ length # Invalid
    BY <1>3 DEF InChunks, Empty, Invalid, length
  <2>5. WellFormed(message)
    BY <1>2, <2>2, <2>4 DEF WellFormed, HeadRead, length
  <2>6. SizeOf(message) = At'
    BY <1>2, <1>6, <2>1 DEF SizeOf, a, length
  <2>7. At' <= Given'
    BY <1>4, <1>5, <1>6, WindowIs
  <2>8. Complete'
    BY <1>6, <1>10, <2>3, <2>5, <2>6, <2>7 DEF Complete
  <2>. QED
    BY <1>1, <1>6, <1>7, <1>12, <2>8 DEF Progress
<1>. QED
  BY <1>11, <1>12

\* The chunk behind the last whole one is what ends the body, if anything does.
LEMMA LastIs ==
    ASSUME NEW m, IsMessage(m), InChunks(m), NEW i \in 1 .. Len(m.chunks) + 1,
           i \notin DOMAIN m.chunks
    PROVE  /\ ChunkAt(m, i) = LastAt(m) /\ LastAt(m) \in Nat
           /\ ~BeginsWholeChunk(m, LastAt(m))
           /\ SubSeq(m.body, 1, Before(m, i)) = m.body
<1>1. Len(m.chunks) \in Nat /\ DOMAIN m.chunks = 1 .. Len(m.chunks) /\ ChunkAt(m, i) \in Nat
  BY PositionsAre
<1>2. i = Len(m.chunks) + 1
  BY <1>1
<1>3. ChunksAreThere(m) /\ m.body \in Seq(Token)
  BY DEF IsMessage
<1>4. ~BeginsWholeChunk(m, LastAt(m)) /\ Len(m.body) = Before(m, i)
  BY <1>2, <1>3 DEF ChunksAreThere
<1>5. SubSeq(m.body, 1, Len(m.body)) = m.body
  BY <1>3, SubSeqFull
<1>. QED
  BY <1>1, <1>2, <1>4, <1>5 DEF LastAt

\* A whole chunk is accepted and its data are next.
LEMMA WholeChunkProgress ==
    ASSUME Reading, Progress, ParseChunkSize, HeadRead, InChunks(message),
           NEW i \in Chunks, AtChunk(i)
    PROVE  /\ chunkSizeParsed' /\ state' = "CHUNKED_BODY" /\ UNCHANGED request
           /\ InChunk(message.chunks[i])'
<1>. DEFINE chunk == message.chunks[i]
<1>1. TakeLine /\ state = "CHUNKED_BODY" /\ request' = request
  BY DEF ParseChunkSize, In
<1>2. IsMessage(message)
  BY MessageIs DEF Reading
<1>3. /\ chunk.at = At /\ chunk.before = Before(message, i)
      /\ HasLine(message.wire, At, {"size"}) /\ message.wire[At + 1].n = chunk.size
      /\ chunk.size \in Nat \ {0} /\ ChunkEnd(chunk) = At + 3 + chunk.size
  BY <1>2, ChunkIs DEF AtChunk, Chunks
<1>4. chunk.before \in Nat
  <2>1. 1 \in 1 .. Len(message.chunks) + 1
    BY <1>2 DEF IsMessage
  <2>. QED
    BY <1>2, <2>1, PositionsAre DEF Chunks
<1>. HIDE DEF chunk
<1>5. /\ LineLength = 1 /\ Len(Line) = 1 /\ 3 \in 0 .. Remaining /\ Advance(3)
      /\ Line[1] = message.wire[At + 1]
  <2>1. {"size"} \in SUBSET LineKinds
    BY DEF LineKinds
  <2>. QED
    BY <1>1, <1>3, <2>1, LineIs
<1>6. At' = At + 3 /\ message' = message /\ At \in Nat
  <2>1. At \in Nat /\ At' = At + LineLength + 2 /\ message' = message
    BY <1>1, LineTaken, WindowIs
  <2>. QED
    BY <1>5, <2>1
<1>7. Line[1].kind = "size" /\ Line[1].n = chunk.size
  BY <1>3, <1>5 DEF HasLine
<1>8. chunkSize' = chunk.size /\ chunkSizeParsed' = TRUE /\ state' = "CHUNKED_BODY"
  BY <1>1, <1>3, <1>5, <1>7 DEF ParseChunkSize
<1>9. InChunk(chunk)'
  <2>1. chunkSize' \in 1 .. chunk.size
    BY <1>3, <1>8
  <2>2. At' = ChunkEnd(chunk) - chunkSize' /\ chunk.before + chunk.size - chunkSize' = chunk.before
    BY <1>3, <1>4, <1>6, <1>8
  <2>3. request.body = SubSeq(message.body, 1, chunk.before)
    BY <1>3 DEF AtChunk, BodyUpTo
  <2>4. chunk' = chunk
    BY <1>6 DEF chunk
  <2>. QED
    BY <1>1, <1>6, <1>8, <2>1, <2>2, <2>3, <2>4 DEF InChunk, BodyUpTo
<1>. QED
  BY <1>1, <1>8, <1>9 DEF chunk

LEMMA ChunkSizeProgress ==
    ASSUME Reading, Progress, ParseChunkSize
    PROVE  Progress'
<1>1. /\ state = "CHUNKED_BODY" /\ TakeLine /\ moved' = moved /\ ~moved
      /\ InChunkedBody /\ IsValid(request) /\ (parsing => Given \in cuts)
      /\ request' = request /\ ~chunkSizeParsed
  BY DEF Reading, Progress, ParseChunkSize, In
<1>. DEFINE Accepted == Len(Line) = 1 /\ Line[1].kind = "size" /\ Line[1].n \in Nat
<1>2. \/ /\ Accepted /\ chunkSize' = Line[1].n /\ chunkSizeParsed' = TRUE
         /\ state' = IF Line[1].n = 0 THEN "COMPLETE" ELSE "CHUNKED_BODY"
      \/ ~Accepted /\ state' = "ERROR"
  BY <1>1 DEF ParseChunkSize
<1>3. /\ LineLength \in Nat /\ Len(Line) = LineLength
      /\ LineLength + 2 \in 0 .. Remaining /\ Advance(LineLength + 2)
      /\ LineLength = 0 <=> HasCRLF(message.wire, At)
      /\ LineLength = 1 => /\ Line[1] = message.wire[At + 1] /\ At < Len(message.wire)
                           /\ HasCRLF(message.wire, At + 1)
      /\ HasLine(message.wire, At, {"size"}) => LineLength = 1
  <2>1. {"size"} \in SUBSET LineKinds
    BY DEF LineKinds
  <2>. QED
    BY <1>1, <2>1, LineIs
<1>4. /\ At' = At + LineLength + 2 /\ Given' = Given
      /\ parsing' = parsing /\ message' = message /\ cuts' = cuts
  BY <1>1, LineTaken
<1>5. At \in Nat /\ Remaining \in Nat /\ Given = At + Remaining /\ Len(message.wire) \in Nat
  BY WindowIs
<1>6. IsMessage(message)
  BY MessageIs DEF Reading
<1>7. HeadRead /\ InChunks(message) /\ HeadRead'
  BY <1>1, <1>4 DEF InChunkedBody, HeadRead
<1>. HIDE DEF Accepted
<1>8. Accepted <=> /\ HasLine(message.wire, At, {"size"}) /\ message.wire[At + 1].n \in Nat
  BY <1>3 DEF Accepted, HasLine
<1>9. ASSUME NEW i \in 1 .. Len(message.chunks) + 1, AtChunk(i) PROVE Progress'
  <2>1. CASE i \in Chunks
    <3>1. chunkSizeParsed' /\ state' = "CHUNKED_BODY" /\ InChunk(message.chunks[i])'
      BY <1>7, <1>9, <2>1, WholeChunkProgress
    <3>2. InChunkedBody'
      BY <1>4, <1>7, <2>1, <3>1 DEF InChunkedBody, Chunks
    <3>. QED
      BY <1>1, <1>4, <3>1, <3>2 DEF Progress
  <2>2. CASE i \notin Chunks
    <3>1. /\ At = LastAt(message) /\ ~BeginsWholeChunk(message, At)
          /\ request.body = message.body
      <4>1. /\ ChunkAt(message, i) = LastAt(message)
            /\ ~BeginsWholeChunk(message, LastAt(message))
            /\ SubSeq(message.body, 1, Before(message, i)) = message.body
        BY <1>6, <1>7, <2>2, LastIs DEF Chunks
      <4>. QED
        BY <1>9, <4>1 DEF AtChunk, BodyUpTo
    <3>2. CASE Accepted /\ state' = "COMPLETE"
      <4>1. Line[1].n = 0 /\ LineLength = 1
        BY <1>2, <1>3, <3>2 DEF Accepted
      <4>2. EndsChunks(message)
        BY <1>3, <1>8, <3>1, <3>2, <4>1 DEF EndsChunks
      <4>3. ~HasLength(message) /\ ValueOf(message, "length") # Invalid
        BY <1>7 DEF InChunks, HasLength, Empty, Invalid
      <4>4. WellFormed(message)
        BY <1>7, <4>2, <4>3 DEF WellFormed, HeadRead
      <4>5. At' = At + 3 /\ At' <= Given'
        BY <1>3, <1>4, <1>5, <4>1
      <4>6. SizeOf(message) = At'
        BY <1>7, <3>1, <4>3, <4>5 DEF SizeOf
      <4>7. Complete'
        BY <1>1, <1>4, <1>7, <3>1, <4>4, <4>5, <4>6 DEF Complete
      <4>. QED
        BY <1>1, <1>4, <3>2, <4>7 DEF Progress
    <3>3. CASE Accepted /\ state' = "CHUNKED_BODY"
      <4>1. /\ Line[1].n \in Nat \ {0} /\ LineLength = 1 /\ Line[1] = message.wire[At + 1]
            /\ chunkSize' = Line[1].n /\ chunkSizeParsed'
        BY <1>2, <1>3, <3>3 DEF Accepted
      <4>2. ~EndsChunks(message)
        BY <3>1, <4>1 DEF EndsChunks
      <4>3. At + 3 + chunkSize' > Len(message.wire)
        BY <1>5, <1>8, <3>1, <3>3, <4>1 DEF BeginsWholeChunk, BeginsChunk
      <4>4. At' = At + 3
        BY <1>4, <1>5, <4>1
      <4>5. InShortChunk'
        BY <1>4, <4>1, <4>2, <4>3, <4>4 DEF InShortChunk
      <4>6. InChunkedBody'
        BY <1>4, <1>7, <4>5 DEF InChunkedBody
      <4>. QED
        BY <1>1, <1>4, <3>3, <4>6 DEF Progress
    <3>4. CASE ~Accepted /\ state' = "ERROR"
      <4>1. ~EndsChunks(message)
        BY <1>8, <3>1, <3>4 DEF EndsChunks
      <4>2. Refused'
        BY <1>4, <1>7, <4>1 DEF Refused, WellFormed
      <4>. QED
        BY <1>1, <1>4, <3>4, <4>2 DEF Progress
    <3>. QED
      BY <1>2, <3>2, <3>3, <3>4
  <2>. QED
    BY <2>1, <2>2
<1>10. ASSUME NEW i \in Chunks, PastData(message.chunks[i]) PROVE Progress'
  <2>. DEFINE end == ChunkEnd(message.chunks[i])
  <2>1. At = end /\ HasCRLF(message.wire, end) /\ (end \in cuts \/ Given = end + 1)
    BY <1>10 DEF PastData
  <2>2. end \in ChunkEnds(message)
    BY <1>10, <2>1 DEF ChunkEnds, Chunks
  <2>. HIDE DEF end
  <2>3. LineLength = 0 /\ Given # end + 1
    BY <1>3, <1>5, <2>1
  <2>4. state' = "ERROR"
    BY <1>2, <1>3, <2>3 DEF Accepted
  <2>5. Refused'
    BY <1>4, <2>1, <2>2, <2>3 DEF Refused
  <2>. QED
    BY <1>1, <1>4, <2>4, <2>5 DEF Progress
<1>. QED
  BY <1>1, <1>9, <1>10 DEF InChunkedBody, InChunk, InShortChunk

\* The n tokens behind the first d of a chunk's data continue the body.
LEMMA DataIs ==
    ASSUME NEW m, IsMessage(m), InChunks(m), NEW i \in DOMAIN m.chunks,
           NEW d \in Nat, NEW n \in Nat, d + n <= m.chunks[i].size
    PROVE  LET b == m.chunks[i].before + d
               a == m.chunks[i].at + 3 + d
           IN  SubSeq(m.body, 1, b) \o SubSeq(m.wire, a + 1, a + n) = SubSeq(m.body, 1, b + n)
<1>. DEFINE chunk == m.chunks[i]
            body == m.body
            wire == m.wire
            b == chunk.before + d
            a == chunk.at + 3 + d
            s == SubSeq(body, b + 1, b + n)
            t == SubSeq(wire, a + 1, a + n)
<1>1. chunk.at \in Nat /\ chunk.before \in Nat /\ chunk.size \in Nat
  <2>1. 1 \in 1 .. Len(m.chunks) + 1
    BY DEF IsMessage
  <2>. QED
    BY <2>1, PositionsAre
<1>2. /\ chunk.at + 3 + chunk.size <= Len(wire)
      /\ chunk.before + chunk.size <= Len(body)
      /\ \A j \in 1 .. chunk.size : body[chunk.before + j] = wire[chunk.at + 3 + j]
  BY ChunkIs
<1>3. body \in Seq(Token) /\ wire \in Seq(Token) /\ Len(body) \in Nat /\ Len(wire) \in Nat
  <2>1. m.body \in Seq(Token) /\ m.wire \in Seq(Token)
    BY DEF IsMessage
  <2>. QED
    BY <2>1
<1>0. d + n <= chunk.size
  OBVIOUS
<1>. HIDE DEF chunk, body, wire
<1>4. /\ b \in 0 .. Len(body) /\ n \in 0 .. Len(body) - b /\ b + n \in b .. Len(body)
      /\ a \in 0 .. Len(wire) /\ n \in 0 .. Len(wire) - a
      /\ b = chunk.before + d /\ a = chunk.at + 3 + d /\ a \in Nat /\ b \in Nat
  <2>. DEFINE lb == Len(body)
              lw == Len(wire)
              before == chunk.before
              at == chunk.at
              size == chunk.size
  <2>. HIDE DEF lb, lw, before, at, size
  <2>1. /\ lb \in Nat /\ lw \in Nat /\ before \in Nat /\ at \in Nat /\ size \in Nat
        /\ at + 3 + size <= lw /\ before + size <= lb /\ d + n <= size
    BY <1>0, <1>1, <1>2, <1>3 DEF lb, lw, before, at, size
  <2>2. b = before + d /\ a = at + 3 + d
    BY DEF before, at
  <2>. HIDE DEF a, b
  <2>3. /\ b \in 0 .. lb /\ n \in 0 .. lb - b /\ b + n \in b .. lb
        /\ a \in 0 .. lw /\ n \in 0 .. lw - a /\ a \in Nat /\ b \in Nat
    BY <2>1, <2>2
  <2>. QED
    BY <2>2, <2>3 DEF lb, lw, before, at
<1>. HIDE DEF a, b
<1>5. s \in Seq(Token) /\ Len(s) = n /\ \A j \in 1 .. n : s[j] = body[b + j]
  BY <1>3, <1>4, CutOutIs
<1>6. t \in Seq(Token) /\ Len(t) = n /\ \A j \in 1 .. n : t[j] = wire[a + j]
  BY <1>3, <1>4, CutOutIs
<1>. HIDE DEF s, t
<1>7. ASSUME NEW j \in 1 .. n PROVE s[j] = t[j]
  <2>1. d + j \in 1 .. chunk.size
    BY <1>0, <1>1
  <2>2. body[chunk.before + (d + j)] = wire[chunk.at + 3 + (d + j)]
    BY <1>2, <2>1
  <2>3. chunk.before + (d + j) = b + j /\ chunk.at + 3 + (d + j) = a + j
    <3>1. /\ j \in Nat /\ b = chunk.before + d /\ a = chunk.at + 3 + d
          /\ chunk.at \in Nat /\ chunk.before \in Nat
      BY <1>1, <1>4
    <3>. QED
      BY <3>1
  <2>. QED
    BY <1>5, <1>6, <2>2, <2>3
<1>8. s = t
  BY <1>5, <1>6, <1>7, SeqEqual
<1>9. SubSeq(body, 1, b) \o SubSeq(body, b + 1, b + n) = SubSeq(body, 1, b + n)
  <2>. DEFINE o == 0
              c == b + n
  <2>1. o \in 0 .. Len(body) /\ b \in o .. Len(body) /\ c \in b .. Len(body) /\ o + 1 = 1
    BY <1>3, <1>4
  <2>. HIDE DEF o, c
  <2>2. SubSeq(body, o + 1, b) \o SubSeq(body, b + 1, c) = SubSeq(body, o + 1, c)
    BY <1>3, <2>1, JoinIs
  <2>. QED
    BY <2>1, <2>2 DEF c
<1>10. SubSeq(body, 1, b) \o t = SubSeq(body, 1, b + n)
  BY <1>8, <1>9 DEF s
<1>. QED
  BY <1>10 DEF t, a, b, body, wire, chunk

\* What of the chunk is there, and whether its CRLF is.
LEMMA ChunkDataIs ==
    ASSUME Reading, ParseChunkData
    PROVE  /\ At \in Nat /\ Remaining \in Nat \ {0} /\ Given = At + Remaining
           /\ Len(message.wire) \in Nat /\ Given <= Len(message.wire)
           /\ ChunkTaken \in 0 .. Remaining /\ chunkSize \in Nat
           /\ ChunkTaken = chunkSize \/ (ChunkTaken = Remaining /\ Remaining < chunkSize)
           /\ Given' = Given /\ UNCHANGED <<parsing, message, cuts>>
           /\ \/ /\ chunkSize' = 0 /\ HasCRLF(message.wire, At + ChunkTaken)
                 /\ At' = At + ChunkTaken + 2
              \/ /\ At' = At + ChunkTaken
                 /\ \/ chunkSize' # 0
                    \/ ~HasCRLF(message.wire, At + ChunkTaken)
                    \/ Remaining < ChunkTaken + 2
<1>. DEFINE n == ChunkTaken
<1>1. /\ buffer \in Seq(Token) /\ Len(buffer) \in Nat /\ pos \in 0 .. Len(buffer)
      /\ pos < Len(buffer) /\ Remaining = Len(buffer) - pos /\ chunkSize \in Nat
  BY DEF Reading, Types, TypeOK, Remaining, ParseChunkData, In
<1>2. /\ At \in Nat /\ Remaining \in Nat /\ Given = At + Remaining
      /\ Len(message.wire) \in Nat /\ At + Remaining <= Len(message.wire)
      /\ \A j \in 1 .. Remaining : message.wire[At + j] = buffer[pos + j]
  BY WindowIs
<1>3. /\ n \in 0 .. Remaining /\ n \in Nat
      /\ n = chunkSize \/ (n = Remaining /\ Remaining < chunkSize)
  <2>1. Remaining \in Nat /\ chunkSize \in Nat
    BY <1>1, <1>2
  <2>2. n = IF chunkSize <= Remaining THEN chunkSize ELSE Remaining
    BY DEF ChunkTaken, Least
  <2>. HIDE DEF n
  <2>. QED
    BY <2>1, <2>2
<1>. HIDE DEF n
<1>4. SkipsCRLF(pos + n) <=> n + 2 <= Remaining /\ HasCRLF(message.wire, At + n)
  <2>1. pos + n + 2 <= Len(buffer) <=> n + 2 <= Remaining
    BY <1>1, <1>3
  <2>2. ASSUME n + 2 <= Remaining
        PROVE  /\ message.wire[At + n + 1] = buffer[pos + n + 1]
               /\ message.wire[At + n + 2] = buffer[pos + n + 2]
               /\ At + n + 2 <= Len(message.wire)
    <3>1. n + 1 \in 1 .. Remaining /\ n + 2 \in 1 .. Remaining
      BY <1>2, <1>3, <2>2
    <3>2. /\ message.wire[At + (n + 1)] = buffer[pos + (n + 1)]
          /\ message.wire[At + (n + 2)] = buffer[pos + (n + 2)]
      BY <1>2, <3>1
    <3>3. /\ At + (n + 1) = At + n + 1 /\ At + (n + 2) = At + n + 2
          /\ pos + (n + 1) = pos + n + 1 /\ pos + (n + 2) = pos + n + 2
      BY <1>1, <1>2, <1>3
    <3>4. At + n + 2 <= Len(message.wire)
      BY <1>2, <1>3, <2>2
    <3>. QED
      BY <3>2, <3>3, <3>4
  <2>. QED
    BY <2>1, <2>2 DEF SkipsCRLF, HasCRLF
<1>5. \/ chunkSize' = 0 /\ SkipsCRLF(pos + n) /\ Advance(n + 2)
      \/ ~(chunkSize' = 0 /\ SkipsCRLF(pos + n)) /\ Advance(n)
  BY DEF ParseChunkData, n
<1>6. CASE chunkSize' = 0 /\ SkipsCRLF(pos + n) /\ Advance(n + 2)
  <2>1. n + 2 \in 0 .. Remaining
    BY <1>2, <1>3, <1>4, <1>6
  <2>. DEFINE l == n + 2
  <2>. HIDE DEF l
  <2>2. /\ At' = At + l /\ Given' = Given /\ UNCHANGED <<parsing, message, cuts>>
    <3>1. l \in 0 .. Remaining /\ Advance(l)
      BY <1>6, <2>1 DEF l
    <3>. QED
      BY <3>1, PastIs
  <2>3. At' = At + n + 2
    BY <1>2, <1>3, <2>2 DEF l
  <2>. QED
    BY <1>1, <1>2, <1>3, <1>4, <1>6, <2>2, <2>3 DEF n
<1>7. CASE ~(chunkSize' = 0 /\ SkipsCRLF(pos + n)) /\ Advance(n)
  <2>1. /\ At' = At + n /\ Given' = Given /\ UNCHANGED <<parsing, message, cuts>>
    BY <1>3, <1>7, PastIs
  <2>2. chunkSize' # 0 \/ ~HasCRLF(message.wire, At + n) \/ Remaining < n + 2
    BY <1>2, <1>3, <1>4, <1>7
  <2>. QED
    BY <1>1, <1>2, <1>3, <2>1, <2>2 DEF n
<1>. QED
  BY <1>5, <1>6, <1>7

LEMMA ChunkDataProgress ==
    ASSUME Reading, Progress, ParseChunkData
    PROVE  Progress'
<1>. DEFINE n == ChunkTaken
<1>1. /\ state = "CHUNKED_BODY" /\ state' = state /\ moved' = moved /\ ~moved
      /\ InChunkedBody /\ IsValid(request) /\ Given \in cuts
      /\ chunkSizeParsed /\ TakeBody(n) /\ chunkSize' = chunkSize - n
      /\ chunkSizeParsed' = (chunkSize' # 0)
  BY DEF Reading, Progress, ParseChunkData, In
<1>2. /\ At \in Nat /\ Remaining \in Nat \ {0} /\ Given = At + Remaining
      /\ Len(message.wire) \in Nat /\ Given <= Len(message.wire)
      /\ n \in 0 .. Remaining /\ chunkSize \in Nat /\ n \in Nat
      /\ n = chunkSize \/ (n = Remaining /\ Remaining < chunkSize)
      /\ Given' = Given /\ parsing' = parsing /\ message' = message /\ cuts' = cuts
      /\ \/ /\ chunkSize' = 0 /\ HasCRLF(message.wire, At + n)
            /\ At' = At + n + 2
         \/ /\ At' = At + n
            /\ \/ chunkSize' # 0
               \/ ~HasCRLF(message.wire, At + n)
               \/ Remaining < n + 2
  BY ChunkDataIs, Zenon
<1>3. /\ IsValid(request') /\ request'.lowercase = request.lowercase
      /\ request'.body = request.body \o SubSeq(message.wire, At + 1, At + n)
  BY <1>1, <1>2, TakenIs
<1>4. HeadRead /\ InChunks(message) /\ HeadRead'
  BY <1>1, <1>2, <1>3 DEF InChunkedBody, HeadRead
<1>5. IsMessage(message)
  BY MessageIs DEF Reading
<1>. HIDE DEF n
<1>9. /\ At \in Nat /\ n \in Nat /\ chunkSize \in Nat /\ n <= chunkSize
      /\ chunkSize' = chunkSize - n /\ chunkSize' \in Nat
      /\ n # chunkSize <=> chunkSize' # 0
  <2>1. At \in Nat /\ n \in Nat /\ chunkSize \in Nat /\ n <= chunkSize
    BY <1>2
  <2>. QED
    BY <1>1, <2>1
<1>10. ASSUME chunkSize' # 0 PROVE At' = At + n
  BY <1>2, <1>10
<1>6. ASSUME InChunkedBody' PROVE Progress'
  BY <1>1, <1>2, <1>3, <1>6 DEF Progress
<1>7. ASSUME NEW i \in Chunks, InChunk(message.chunks[i]) PROVE InChunkedBody'
  <2>. DEFINE chunk == message.chunks[i]
              d == chunk.size - chunkSize
              end == ChunkEnd(chunk)
  <2>1. /\ chunkSize \in 1 .. chunk.size /\ At = end - chunkSize
        /\ request.body = SubSeq(message.body, 1, chunk.before + chunk.size - chunkSize)
    BY <1>7 DEF InChunk, BodyUpTo
  <2>2. /\ chunk.at \in Nat /\ chunk.before \in Nat /\ chunk.size \in Nat
        /\ end = chunk.at + 3 + chunk.size /\ end \in Nat
    <3>1. 1 \in 1 .. Len(message.chunks) + 1
      BY <1>5 DEF IsMessage
    <3>. QED
      BY <1>5, <3>1, PositionsAre DEF Chunks, ChunkEnd
  <2>3. /\ i + 1 \in 1 .. Len(message.chunks) + 1
        /\ ChunkAt(message, i + 1) = Behind(message, chunk)
        /\ Before(message, i + 1) = chunk.before + chunk.size
    BY <1>4, <1>5, ChunkIs DEF Chunks
  <2>4. chunk' = chunk /\ end' = end
    BY <1>2
  <2>. HIDE DEF chunk, end
  <2>5. /\ d \in Nat /\ d + n <= chunk.size
        /\ chunk.before + chunk.size - chunkSize = chunk.before + d
        /\ At = chunk.at + 3 + d /\ n <= chunkSize
        /\ chunk.before + d + n = chunk.before + chunk.size - (chunkSize - n)
    <3>. DEFINE before == chunk.before
                at == chunk.at
                size == chunk.size
    <3>. HIDE DEF before, at, size
    <3>1. /\ before \in Nat /\ at \in Nat /\ size \in Nat /\ chunkSize \in 1 .. size
          /\ At = at + 3 + size - chunkSize /\ n <= chunkSize
      <4>1. /\ before \in Nat /\ at \in Nat /\ size \in Nat /\ chunkSize \in 1 .. size
            /\ At = end - chunkSize /\ end = at + 3 + size
        BY <2>1, <2>2 DEF before, at, size
      <4>. QED
        BY <1>9, <4>1
    <3>2. d = size - chunkSize
      BY DEF size
    <3>. HIDE DEF d
    <3>3. /\ d \in Nat /\ d + n <= size
          /\ before + size - chunkSize = before + d
          /\ At = at + 3 + d /\ n <= chunkSize
          /\ before + d + n = before + size - (chunkSize - n)
      BY <1>9, <3>1, <3>2
    <3>. QED
      BY <3>3 DEF before, at, size
  <2>. HIDE DEF d
  <2>6. request'.body = SubSeq(message.body, 1, chunk.before + d + n)
    <3>1. SubSeq(message.body, 1, chunk.before + d) \o SubSeq(message.wire, At + 1, At + n)
            = SubSeq(message.body, 1, chunk.before + d + n)
      <4>1. LET b == chunk.before + d
                a == chunk.at + 3 + d
            IN  SubSeq(message.body, 1, b) \o SubSeq(message.wire, a + 1, a + n)
                  = SubSeq(message.body, 1, b + n)
        <5>1. d \in Nat /\ n \in Nat /\ d + n <= message.chunks[i].size
          BY <1>9, <2>5 DEF chunk
        <5>2. i \in DOMAIN message.chunks
          BY DEF Chunks
        <5>. QED
          BY <1>4, <1>5, <5>1, <5>2, DataIs DEF chunk
      <4>. QED
        BY <2>5, <4>1
    <3>. QED
      BY <1>3, <2>1, <2>5, <3>1
  <2>7. BodyUpTo(chunk.before + chunk.size - chunkSize)'
    <3>1. chunk.before + d + n = chunk.before + chunk.size - chunkSize'
      BY <1>9, <2>5
    <3>2. message' = message
      BY <1>2
    <3>. QED
      BY <2>4, <2>6, <3>1, <3>2 DEF BodyUpTo
  <2>8. CASE n # chunkSize
    <3>1. /\ chunkSize' \in 1 .. chunk.size /\ chunkSizeParsed' /\ chunkSize' # 0
      <4>1. chunkSize' # 0 /\ chunkSizeParsed' = TRUE
        BY <1>1, <1>9, <2>8
      <4>2. chunk.size \in Nat /\ chunkSize <= chunk.size
        BY <2>1, <2>2
      <4>. QED
        BY <1>9, <4>1, <4>2
    <3>2. At' = end - chunkSize'
      BY <1>9, <1>10, <2>1, <2>2, <3>1
    <3>3. InChunk(chunk)'
      BY <2>4, <2>7, <3>1, <3>2 DEF InChunk, end
    <3>. QED
      BY <1>2, <1>4, <1>7, <3>3 DEF InChunkedBody, Chunks, chunk
  <2>9. CASE n = chunkSize
    <3>1. chunkSize' = 0 /\ ~chunkSizeParsed' /\ At + n = end
      <4>1. chunkSize' = 0 /\ ~chunkSizeParsed'
        BY <1>1, <1>9, <2>9
      <4>2. At = end - chunkSize /\ end \in Nat
        BY <2>1, <2>2
      <4>. QED
        BY <1>9, <2>9, <4>1, <4>2
    <3>2. BodyUpTo(Before(message, i + 1))'
      <4>1. chunk.before + chunk.size - chunkSize' = chunk.before + chunk.size
        BY <2>2, <3>1
      <4>2. message' = message /\ request'.body = SubSeq(message.body, 1, chunk.before + chunk.size)
        BY <1>2, <2>4, <2>7, <4>1 DEF BodyUpTo
      <4>. QED
        BY <2>3, <4>2 DEF BodyUpTo
    <3>3. ASSUME At' = ChunkAt(message, i + 1) PROVE InChunkedBody'
      <4>. DEFINE k == i + 1
      <4>. HIDE DEF k
      <4>1. k \in 1 .. Len(message.chunks) + 1
        BY <2>3 DEF k
      <4>2. AtChunk(k)'
        BY <1>2, <3>1, <3>2, <3>3 DEF AtChunk, k
      <4>. QED
        BY <1>2, <1>4, <4>1, <4>2 DEF InChunkedBody
    <3>4. CASE HasCRLF(message.wire, end) /\ At' = end + 2
      BY <2>3, <3>3, <3>4 DEF Behind, end
    <3>5. CASE ~HasCRLF(message.wire, end) /\ At' = end
      BY <2>3, <3>3, <3>5 DEF Behind, end
    <3>6. CASE HasCRLF(message.wire, end) /\ At' = end /\ Remaining < n + 2
      <4>1. Given = end \/ Given = end + 1
        BY <1>2, <2>2, <3>1, <3>6
      <4>2. end \in cuts \/ (parsing /\ Given = end + 1)
        BY <1>1, <4>1 DEF ParseChunkData, In
      <4>3. PastData(chunk)'
        BY <1>2, <2>4, <3>1, <3>6, <4>2 DEF PastData, end
      <4>. QED
        BY <1>2, <1>4, <1>7, <4>3 DEF InChunkedBody, Chunks, chunk
    <3>. QED
      BY <1>2, <3>1, <3>4, <3>5, <3>6
  <2>. QED
    BY <2>8, <2>9
<1>8. ASSUME InShortChunk PROVE InChunkedBody'
  <2>1. ~EndsChunks(message) /\ At + chunkSize > Len(message.wire)
    BY <1>8 DEF InShortChunk
  <2>2. n = Remaining /\ Remaining < chunkSize
    BY <1>2, <2>1
  <2>3. chunkSize' # 0 /\ chunkSize' = chunkSize - n
    BY <1>1, <1>2, <2>2
  <2>4. At' = At + n
    BY <1>2, <2>3
  <2>5. At' + chunkSize' > Len(message.wire)
    BY <1>2, <2>1, <2>3, <2>4
  <2>6. InShortChunk'
    BY <1>1, <1>2, <2>1, <2>3, <2>5 DEF InShortChunk
  <2>. QED
    BY <1>2, <1>4, <2>6 DEF InChunkedBody
<1>. QED
  BY <1>1, <1>6, <1>7, <1>8 DEF InChunkedBody, AtChunk, PastData

\* A call begins or returns between two lines or runs of the body.
LEMMA BetweenCalls ==
    ASSUME Progress, UNCHANGED <<parserVars, consumed, message>>,
           cuts \subseteq cuts', parsing' => Given' \in cuts',
           Given \in Int, Given' \in Int, Given <= Given', At \in Nat,
           \A i \in Chunks :
               PastData(message.chunks[i]) /\ state = "CHUNKED_BODY" /\ ~moved =>
                   \/ ChunkEnd(message.chunks[i]) \in cuts
                   \/ parsing' /\ Given' = ChunkEnd(message.chunks[i]) + 1
    PROVE  Progress'
<1>1. /\ state' = state /\ request' = request /\ moved' = moved /\ message' = message
      /\ contentLength' = contentLength /\ chunkSize' = chunkSize
      /\ chunkSizeParsed' = chunkSizeParsed /\ consumed' = consumed /\ At' = At
  BY DEF parserVars, At
<1>2. InHeaders' = InHeaders /\ InBody' = InBody /\ HeadRead' = HeadRead
  BY <1>1 DEF InHeaders, InBody, HeadRead
<1>3. Complete => Complete'
  BY <1>1, <1>2 DEF Complete
<1>4. Refused => Refused'
  BY <1>1 DEF Refused
<1>5. ASSUME InChunkedBody, state = "CHUNKED_BODY", ~moved PROVE InChunkedBody'
  <2>1. HeadRead' /\ InChunks(message)
    BY <1>2, <1>5 DEF InChunkedBody
  <2>2. ASSUME NEW i \in 1 .. Len(message.chunks) + 1, AtChunk(i) PROVE InChunkedBody'
    <3>1. AtChunk(i)'
      BY <1>1, <2>2 DEF AtChunk, BodyUpTo
    <3>. QED
      BY <1>1, <2>1, <3>1 DEF InChunkedBody
  <2>3. ASSUME NEW i \in Chunks, InChunk(message.chunks[i]) PROVE InChunkedBody'
    <3>1. InChunk(message.chunks[i])'
      BY <1>1, <2>3 DEF InChunk, BodyUpTo
    <3>. QED
      BY <1>1, <2>1, <3>1 DEF InChunkedBody, Chunks
  <2>4. ASSUME NEW i \in Chunks, PastData(message.chunks[i]) PROVE InChunkedBody'
    <3>1. \/ ChunkEnd(message.chunks[i]) \in cuts
          \/ parsing' /\ Given' = ChunkEnd(message.chunks[i]) + 1
      BY <1>5, <2>4
    <3>2. PastData(message.chunks[i])'
      BY <1>1, <2>4, <3>1 DEF PastData
    <3>. QED
      BY <1>1, <2>1, <3>2 DEF InChunkedBody, Chunks
  <2>5. CASE InShortChunk
    <3>1. InShortChunk'
      BY <1>1, <2>5 DEF InShortChunk
    <3>. QED
      BY <1>1, <2>1, <3>1 DEF InChunkedBody
  <2>. QED
    BY <1>5, <2>2, <2>3, <2>4, <2>5 DEF InChunkedBody
<1>. QED
  BY <1>1, <1>2, <1>3, <1>4, <1>5 DEF Progress

LEMMA PlacesAre ==
    ASSUME Types
    PROVE  Given \in Nat /\ At \in Nat /\ Len(unsent) \in Nat /\ Len(message.wire) \in Nat
<1>1. message.wire \in Seq(Token) /\ unsent \in Seq(Token) /\ consumed \in Seq(Token)
  BY MessageIs DEF IsMessage, Types, TypeOK
<1>2. Len(message.wire) \in Nat /\ Len(unsent) \in Nat /\ At \in Nat
  BY <1>1 DEF At
<1>. QED
  BY <1>2 DEF Types, Given

LEMMA CallProgress ==
    ASSUME Types, Progress, NEW n \in 1 .. Len(unsent), Parse(n)
    PROVE  Progress'
<1>1. /\ ~parsing /\ buffer' = buffer \o SubSeq(unsent, 1, n) /\ pos' = pos
      /\ cuts' = cuts \cup {Given + n} /\ consumed' = consumed
      /\ UNCHANGED <<parserVars, consumed, message>>
  BY DEF Parse
<1>2. /\ Given \in Nat /\ At \in Nat /\ Len(unsent) \in Nat /\ Len(message.wire) \in Nat
      /\ unsent \in Seq(Token)
  BY PlacesAre DEF Types, TypeOK
<1>3. Len(unsent') = Len(unsent) - n /\ message' = message
  <2>1. Len(SubSeq(unsent, n + 1, Len(unsent))) = Len(unsent) - n
    BY <1>2, SubSeqProperties
  <2>. QED
    BY <2>1 DEF Parse
<1>4. Given' = Given + n
  BY <1>2, <1>3 DEF Given
<1>5. ASSUME NEW i \in Chunks, PastData(message.chunks[i]), state = "CHUNKED_BODY", ~moved
      PROVE  \/ ChunkEnd(message.chunks[i]) \in cuts
             \/ parsing' /\ Given' = ChunkEnd(message.chunks[i]) + 1
  BY <1>1, <1>5 DEF PastData
<1>6. /\ cuts \subseteq cuts' /\ (parsing' => Given' \in cuts')
      /\ Given \in Int /\ Given' \in Int /\ Given <= Given'
  BY <1>1, <1>2, <1>4
<1>. QED
  BY <1>1, <1>2, <1>5, <1>6, BetweenCalls

LEMMA ReturnProgress ==
    ASSUME Types, InOrder, Progress, Return
    PROVE  Progress'
<1>1. /\ pos = Len(buffer) \/ state \in {"COMPLETE", "ERROR"}
      /\ ~parsing' /\ cuts' = cuts /\ UNCHANGED <<parserVars, consumed, message>>
      /\ Given' = Given
  BY DEF Return, Given
<1>2. ASSUME NEW i \in Chunks, PastData(message.chunks[i]), state = "CHUNKED_BODY", ~moved
      PROVE  \/ ChunkEnd(message.chunks[i]) \in cuts
             \/ parsing' /\ Given' = ChunkEnd(message.chunks[i]) + 1
  <2>1. Len(buffer) \in Nat /\ At \in Nat
    BY PlacesAre DEF Types, TypeOK
  <2>2. Remaining = 0
    BY <1>1, <1>2, <2>1 DEF Remaining
  <2>3. Given = At
    BY <1>2, <2>1, <2>2, WindowIs DEF Reading
  <2>4. Given # ChunkEnd(message.chunks[i]) + 1
    BY <1>2, <2>1, <2>3 DEF PastData
  <2>. QED
    BY <1>2, <2>4 DEF PastData
<1>3. Given \in Nat /\ At \in Nat
  BY PlacesAre
<1>. QED
  BY <1>1, <1>2, <1>3, BetweenCalls

LEMMA ProgressInit == Init => Progress
<1>. SUFFICES ASSUME Init PROVE Progress
  OBVIOUS
<1>1. At = 0 /\ request.lowercase = <<>>
  BY NewRequestIs DEF Init, At
<1>. QED
  BY <1>1 DEF Init, Progress

LEMMA ProgressStep == Types /\ InOrder /\ Progress /\ [Next]_vars => Progress'
<1>. SUFFICES ASSUME Types, InOrder, Progress, [Next]_vars
              PROVE  Progress'
  OBVIOUS
<1>1. ASSUME NEW n \in 1 .. Len(unsent), Parse(n) PROVE Progress'
  BY <1>1, CallProgress
<1>2. CASE Reset
  <2>1. /\ ~parsing' /\ state' = "START_LINE" /\ request' = NewRequest
        /\ chunkSizeParsed' = FALSE /\ consumed' = <<>>
    BY <1>2 DEF Reset, ForgetChunk
  <2>2. At' = 0 /\ request'.lowercase = <<>>
    BY <2>1, NewRequestIs DEF At
  <2>. QED
    BY <2>1, <2>2 DEF Progress
<1>3. CASE GetRequest
  BY <1>3 DEF GetRequest, Progress
<1>4. CASE EditHeaders \/ EditQuery \/ EditBody
  <2>1. moved'
    BY <1>4 DEF EditHeaders, EditQuery, EditBody, Becomes
  <2>. QED
    BY <2>1 DEF Progress
<1>5. CASE NeedMoreData \/ UNCHANGED vars
  <2>1. UNCHANGED <<parserVars, consumed, message>> /\ cuts' = cuts /\ parsing' = parsing
    BY <1>5 DEF NeedMoreData, vars, parserVars
  <2>2. Given' = Given
    BY <1>5 DEF NeedMoreData, vars, Given
  <2>3. moved => Progress'
    BY <2>1 DEF Progress, parserVars
  <2>4. CASE ~moved
    <3>1. cuts \subseteq cuts' /\ (parsing' => Given' \in cuts')
      BY <2>1, <2>2, <2>4 DEF Progress
    <3>2. ASSUME NEW i \in Chunks, PastData(message.chunks[i]),
                 state = "CHUNKED_BODY", ~moved
          PROVE  \/ ChunkEnd(message.chunks[i]) \in cuts
                 \/ parsing' /\ Given' = ChunkEnd(message.chunks[i]) + 1
      BY <2>1, <2>2, <3>2 DEF PastData
    <3>3. Given \in Nat /\ At \in Nat
      BY PlacesAre
    <3>. QED
      BY <2>1, <2>2, <3>1, <3>2, <3>3, BetweenCalls
  <2>. QED
    BY <2>3, <2>4
<1>6. CASE Return
  BY <1>6, ReturnProgress
<1>7. ASSUME ParseStartLine \/ ParseHeader \/ EndHeaders \/ ParseBody
               \/ ParseChunkSize \/ ParseChunkData
      PROVE  Progress'
  <2>1. state # "ERROR" /\ state # "COMPLETE"
    BY <1>7 DEF ParseStartLine, ParseHeader, EndHeaders, ParseBody, ParseChunkSize,
                ParseChunkData, In
  <2>2. Reading
    BY <2>1 DEF Reading, Types, TypeOK
  <2>. QED
    BY <1>7, <2>2, StartLineProgress, HeaderProgress, EndHeadersProgress, BodyProgress,
       ChunkSizeProgress, ChunkDataProgress
<1>8. CASE LoopStep
  BY <1>5, <1>6, <1>7, <1>8, Zenon DEF LoopStep
<1>9. CASE Next
  BY <1>1, <1>2, <1>3, <1>4, <1>8, <1>9 DEF Next
<1>. QED
  BY <1>5, <1>9

\* However a message of any shape is cut into calls, a request that is complete is
\* the one that was sent.
THEOREM CompleteIsRightTheorem == Spec => []CompleteIsRight
<1>1. Types /\ Progress => CompleteIsRight
  <2>. SUFFICES ASSUME Types, Progress, state = "COMPLETE", ~moved
                PROVE  /\ WellFormed(message) /\ IsValid(request)
                       /\ request.lowercase = Fields(message) /\ request.body = message.body
                       /\ GetContentLength(request) = Len(message.body)
                       /\ At = SizeOf(message)
    BY DEF CompleteIsRight, At
  <2>. DEFINE length == ValueOf(message, "length")
  <2>1. /\ WellFormed(message) /\ IsValid(request) /\ request.body = message.body
        /\ request.lowercase = Fields(message) /\ length \in Nat \cup {Invalid, Empty}
        /\ At = SizeOf(message)
    BY DEF Progress, Complete, HeadRead
  <2>2. GetContentLength(request) = IF length = Empty THEN Len(message.body)
                                    ELSE IF length = Invalid THEN 0 ELSE length
    BY <2>1, HeaderValuesAre DEF GetContentLength
  <2>3. length # Invalid
    BY <2>1 DEF WellFormed
  <2>4. ASSUME length \in Nat PROVE Len(message.body) = length
    <3>1. IsMessage(message) /\ HasLength(message) /\ LengthFits(message)
      BY <2>1, <2>4, MessageIs DEF HasLength, WellFormed
    <3>. DEFINE wire == message.wire
                a == BodyAt(message)
    <3>2. wire \in Seq(Token) /\ a \in Nat /\ a + length <= Len(wire) /\ Len(wire) \in Nat
      <4>1. message.wire \in Seq(Token) /\ message.headers \in Nat
        BY <3>1 DEF IsMessage
      <4>2. a \in Nat /\ Len(wire) \in Nat
        BY <4>1 DEF BodyAt, EmptyLineAt
      <4>. QED
        BY <3>1, <4>1, <4>2 DEF LengthFits
    <3>3. message.body = SubSeq(wire, a + 1, a + length)
      BY <3>1 DEF IsMessage
    <3>. HIDE DEF length, wire, a
    <3>4. a \in 0 .. Len(wire) /\ length \in 0 .. Len(wire) - a
      BY <2>4, <3>2
    <3>5. Len(SubSeq(wire, a + 1, a + length)) = length
      BY <3>2, <3>4, CutOutIs
    <3>. QED
      BY <3>3, <3>5
  <2>. HIDE DEF length
  <2>5. GetContentLength(request) = Len(message.body)
    BY <2>1, <2>2, <2>3, <2>4 DEF Empty, Invalid
  <2>. QED
    BY <2>1, <2>5
<1>. QED
  BY <1>1, InOrderInit, TypesInit, TypesStep, InOrderStep, ProgressInit, ProgressStep, PTL DEF Spec

\* Of all the ways to cut a well-formed message of any shape, the parser refuses
\* those in which a call ends between the data of a chunk and its CRLF, and no other.
THEOREM RefusedTheorem == Spec => []RefusedOnlyAtChunkEnd
<1>1. Types /\ Progress => RefusedOnlyAtChunkEnd
  <2>1. Types /\ state = "ERROR" => ~moved
    BY DEF Types, TypeOK
  <2>. QED
    BY <2>1 DEF Progress, Refused, RefusedOnlyAtChunkEnd
<1>. QED
  BY <1>1, InOrderInit, TypesInit, TypesStep, InOrderStep, ProgressInit, ProgressStep, PTL DEF Spec

-----------------------------------------------------------------------------
(* The parser implements Reception. *)

\* A request that was taken leaves nothing to give to Parse().
Taken == moved => unsent = <<>> /\ cuts = {}

LEMMA TakenStep == Types /\ Taken /\ [Next]_vars => Taken'
<1>. SUFFICES ASSUME Types, Taken, [Next]_vars PROVE Taken'
  OBVIOUS
<1>1. ASSUME NEW n \in 1 .. Len(unsent), Parse(n) PROVE Taken'
  <2>1. moved => Len(unsent) = 0
    BY DEF Taken
  <2>2. ~moved
    BY <1>1, <2>1
  <2>. QED
    BY <1>1, <2>2 DEF Parse, parserVars, Taken
<1>2. CASE Reset \/ GetRequest
  BY <1>2 DEF Reset, GetRequest, Taken
<1>3. CASE EditHeaders \/ EditQuery \/ EditBody \/ NeedMoreData \/ Return \/ UNCHANGED vars
  <2>. UNCHANGED <<moved, unsent, cuts>>
    BY <1>3 DEF EditHeaders, EditQuery, EditBody, Becomes, NeedMoreData, Return, vars,
                parserVars
  <2>. QED
    BY DEF Taken
<1>4. CASE ParseStartLine \/ ParseHeader \/ EndHeaders \/ ParseBody \/ ParseChunkSize
             \/ ParseChunkData
  <2>. UNCHANGED <<moved, unsent, cuts>>
    BY <1>4 DEF ParseStartLine, ParseHeader, EndHeaders, ParseBody, ParseChunkSize,
                ParseChunkData, TakeLine, Advance
  <2>. QED
    BY DEF Taken
<1>. QED
  BY <1>1, <1>2, <1>3, <1>4 DEF Next, LoopStep

\* The calls of Parse() give the message piece by piece, whatever the verdict.
LEMMA ParseGives ==
    ASSUME Types, Taken, NEW n \in 1 .. Len(unsent), Parse(n)
    PROVE  Receiver!Give
<1>1. ~moved
  <2>1. moved => Len(unsent) = 0
    BY DEF Taken
  <2>. QED
    BY <2>1
<1>2. /\ Given \in Nat /\ Len(unsent) \in Nat /\ Len(message.wire) \in Nat
      /\ unsent \in Seq(Token)
  BY PlacesAre DEF Types, TypeOK
<1>3. UNCHANGED <<parserVars, message>> /\ cuts' = cuts \cup {Given + n}
  BY DEF Parse
<1>4. Len(SubSeq(unsent, n + 1, Len(unsent))) = Len(unsent) - n
  BY <1>2, SubSeqProperties
<1>5. Given' = Given + n
  <2>1. message' = message /\ Len(unsent') = Len(unsent) - n
    BY <1>3, <1>4 DEF Parse
  <2>. QED
    BY <1>2, <2>1 DEF Given
<1>6. Verdict # "taken" /\ UNCHANGED <<Verdict, Received, moved>>
  BY <1>1, <1>3 DEF Verdict, Received, parserVars
<1>. QED
  BY <1>1, <1>2, <1>3, <1>5, <1>6 DEF Receiver!Give

\* A line or a run of the body that decides the request completes or refuses it;
\* the others change nothing that Reception speaks of.
LEMMA StepDecides ==
    ASSUME Types, Reading, Progress, Progress', TypeOK',
           state \notin {"COMPLETE", "ERROR"},
           UNCHANGED <<moved, message, unsent, cuts>>
    PROVE  [Receiver!Next]_(Receiver!vars)
<1>1. ~moved /\ ~moved' /\ Given' = Given
  BY DEF Reading, Given
<1>2. Verdict = "pending" /\ Received = <<>>
  BY <1>1 DEF Verdict, Received
<1>3. CASE state' = "COMPLETE"
  <2>1. Verdict' = "complete"
    BY <1>1, <1>3 DEF Verdict
  <2>2. Received' = [fields |-> request'.lowercase, body |-> request'.body]
    BY <2>1 DEF Received
  <2>3. /\ WellFormed(message) /\ SizeOf(message) <= Given
        /\ request'.lowercase = Fields(message) /\ request'.body = message.body
    BY <1>1, <1>3 DEF Progress, Complete, HeadRead
  <2>4. Received' = Contents(message)
    BY <2>2, <2>3 DEF Contents
  <2>5. Receiver!Complete
    BY <1>1, <1>2, <2>1, <2>3, <2>4 DEF Receiver!Complete
  <2>. QED
    BY <2>5 DEF Receiver!Next
<1>4. CASE state' = "ERROR"
  <2>1. Verdict' = "refused"
    BY <1>1, <1>4 DEF Verdict
  <2>2. Received' = Received
    BY <1>2, <2>1 DEF Received
  <2>3. ~WellFormed(message) \/ cuts \cap ChunkEnds(message) # {}
    BY <1>1, <1>4 DEF Progress, Refused
  <2>4. Receiver!Refuse
    BY <1>1, <1>2, <2>1, <2>2, <2>3 DEF Receiver!Refuse
  <2>. QED
    BY <2>4 DEF Receiver!Next
<1>5. CASE state' \notin {"COMPLETE", "ERROR"}
  <2>1. Verdict' = "pending"
    BY <1>1, <1>5 DEF Verdict
  <2>2. Received' = Received
    BY <1>2, <2>1 DEF Received
  <2>. QED
    BY <1>1, <1>2, <2>1, <2>2 DEF Receiver!vars
<1>. QED
  BY <1>3, <1>4, <1>5

LEMMA ReceptionStep ==
    Types /\ InOrder /\ Progress /\ Taken /\ [Next]_vars /\ Progress' /\ TypeOK'
        => [Receiver!Next]_(Receiver!vars)
<1>. SUFFICES ASSUME Types, InOrder, Progress, Taken, [Next]_vars, Progress', TypeOK'
              PROVE  [Receiver!Next]_(Receiver!vars)
  OBVIOUS
<1>1. ASSUME NEW n \in 1 .. Len(unsent), Parse(n)
      PROVE  [Receiver!Next]_(Receiver!vars)
  BY <1>1, ParseGives DEF Receiver!Next
<1>2. CASE Reset
  <2>1. /\ state' = "START_LINE" /\ moved' = FALSE /\ cuts' = {}
        /\ message' \in Messages /\ unsent' = message'.wire
    BY <1>2 DEF Reset
  <2>2. Verdict' = "pending"
    BY <2>1 DEF Verdict
  <2>3. Received' = <<>>
    BY <2>2 DEF Received
  <2>4. message'.wire \in Seq(Token)
    BY <2>1, MessagesAreMessages DEF IsMessage
  <2>5. Given' = 0
    BY <2>1, <2>4 DEF Given
  <2>6. Receiver!NextMessage
    BY <2>1, <2>2, <2>3, <2>5 DEF Receiver!NextMessage, Receiver!Begin
  <2>. QED
    BY <2>6 DEF Receiver!Next
<1>3. CASE GetRequest
  <2>1. /\ state = "COMPLETE" /\ ~moved /\ moved' /\ cuts' = {} /\ message' = message
    BY <1>3 DEF GetRequest
  <2>2. Verdict = "complete" /\ Verdict' = "taken"
    <3>1. Verdict = "complete"
      BY <2>1 DEF Verdict
    <3>2. moved' = TRUE
      BY <1>3 DEF GetRequest
    <3>3. Verdict' = "taken"
      BY <3>2 DEF Verdict
    <3>. QED
      BY <3>1, <3>3
  <2>3. Received' = <<>>
    BY <2>2 DEF Received
  <2>4. Receiver!Take
    BY <2>1, <2>2, <2>3 DEF Receiver!Take
  <2>. QED
    BY <2>4 DEF Receiver!Next
<1>4. CASE EditHeaders \/ EditQuery \/ EditBody
  <2>1. moved /\ UNCHANGED <<moved, message, cuts>>
    BY <1>4 DEF EditHeaders, EditQuery, EditBody, Becomes
  <2>2. Verdict = "taken" /\ Verdict' = "taken"
    <3>1. Verdict = "taken"
      BY <2>1 DEF Verdict
    <3>2. Verdict' = "taken"
      BY <2>1 DEF Verdict
    <3>. QED
      BY <3>1, <3>2
  <2>3. Received' = Received
    BY <2>2 DEF Received
  <2>. QED
    BY <2>1, <2>2, <2>3 DEF Receiver!vars
<1>5. CASE NeedMoreData \/ Return \/ UNCHANGED vars
  <2>1. UNCHANGED <<state, request, moved, message, unsent, cuts>>
    BY <1>5 DEF NeedMoreData, Return, vars, parserVars
  <2>2. UNCHANGED <<Verdict, Received, Given>>
    BY <2>1 DEF Verdict, Received, Given
  <2>. QED
    BY <2>1, <2>2 DEF Receiver!vars
<1>6. CASE ParseStartLine \/ ParseHeader \/ EndHeaders \/ ParseBody \/ ParseChunkSize
             \/ ParseChunkData
  <2>1. state \notin {"COMPLETE", "ERROR"}
    BY <1>6 DEF ParseStartLine, ParseHeader, EndHeaders, ParseBody, ParseChunkSize,
                ParseChunkData, In
  <2>2. UNCHANGED <<moved, message, unsent, cuts>>
    BY <1>6 DEF ParseStartLine, ParseHeader, EndHeaders, ParseBody, ParseChunkSize,
                ParseChunkData, TakeLine, Advance
  <2>3. Reading
    BY <2>1 DEF Reading, Types, TypeOK
  <2>. QED
    BY <2>1, <2>2, <2>3, StepDecides
<1>7. CASE LoopStep
  BY <1>5, <1>6, <1>7, Zenon DEF LoopStep
<1>8. CASE Next
  BY <1>1, <1>2, <1>3, <1>4, <1>7, <1>8 DEF Next
<1>. QED
  BY <1>5, <1>8

\* However a message is cut into calls, and whatever message it is, the parser
\* does what Reception promises: its verdict is final, it completes a request only
\* when all of it has come and with what it says, and refuses none but for the cut.
THEOREM ReceptionRefinement == Spec => ReceptionSpec
<1>1. Init => Receiver!Init
  <2>. SUFFICES ASSUME Init PROVE Receiver!Init
    OBVIOUS
  <2>1. /\ state = "START_LINE" /\ moved = FALSE /\ cuts = {}
        /\ message \in Messages /\ unsent = message.wire
    BY DEF Init
  <2>2. Verdict = "pending"
    BY <2>1 DEF Verdict
  <2>3. Received = <<>>
    BY <2>2 DEF Received
  <2>4. message.wire \in Seq(Token)
    BY <2>1, MessagesAreMessages DEF IsMessage
  <2>5. Given = 0
    BY <2>1, <2>4 DEF Given
  <2>. QED
    BY <2>1, <2>2, <2>3, <2>5 DEF Receiver!Init, Receiver!Begin
<1>2. Init => Taken
  BY DEF Init, Taken
<1>3. Types => TypeOK
  BY DEF Types
<1>. QED
  BY <1>1, <1>2, <1>3, TypesInit, TypesStep, InOrderInit, InOrderStep, ProgressInit,
     ProgressStep, TakenStep, ReceptionStep, PTL DEF Spec, ReceptionSpec, Receiver!Spec

=============================================================================
