---------------------------- MODULE HttpMessage ----------------------------
(***************************************************************************)
(* What a client sends to the parser, and what it means: any sequence of   *)
(* tokens, with where its parts are.  A message says how many of its lines *)
(* are headers and which chunks its body comes in; IsMessage says that     *)
(* this is what the wire holds, WellFormed that the request is whole.      *)
(*                                                                         *)
(* Every wire has such a reading: as many header lines as there are, and   *)
(* as many whole chunks.  Positions count the tokens in front of a part.   *)
(***************************************************************************)
EXTENDS HttpRequest

\* CR and LF, the text of a line, and the bytes of a body.  The text of a header
\* line is its field, spelled in some way, and its value.
Token == [kind : {"CR", "LF", "request", "junk", "header", "length", "encoding",
                  "size", "byte"},
          n    : Nat \cup {Invalid, Empty},
          spelling : {"as sent", "another"}]

CR == [kind |-> "CR", n |-> 0, spelling |-> "as sent"]
LF == [kind |-> "LF", n |-> 0, spelling |-> "as sent"]

HeaderKinds == {"header", "length", "encoding"}

HasCRLF(wire, at) == at + 2 <= Len(wire) /\ wire[at + 1] = CR /\ wire[at + 2] = LF

\* A line that is one token.
HasLine(wire, at, kinds) ==
    at < Len(wire) /\ wire[at + 1].kind \in kinds /\ HasCRLF(wire, at + 1)

-----------------------------------------------------------------------------
(* The head. *)

EmptyLineAt(m) == 3 * (m.headers + 1)

BodyAt(m) == EmptyLineAt(m) + 2

\* The fields the first k headers give a value, each the value it is given last.
FieldsUpTo(m, k) ==
    LET Of(field) == {i \in 1 .. k : m.wire[3 * i + 1].kind = field}
    IN  [field \in {m.wire[3 * i + 1].kind : i \in 1 .. k} |->
             m.wire[3 * Max(Of(field)) + 1].n]

Fields(m) == FieldsUpTo(m, m.headers)

ValueOf(m, field) == IF field \in DOMAIN Fields(m) THEN Fields(m)[field] ELSE Empty

-----------------------------------------------------------------------------
(* The body. *)

Chunked == 0        \* the value "chunked", and not one that contains it

HasLength(m) == ValueOf(m, "length") \in Nat

InChunks(m) == ValueOf(m, "length") = Empty /\ ValueOf(m, "encoding") = Chunked

ChunkEnd(chunk) == chunk.at + 3 + chunk.size

\* The line behind a chunk: the CRLF that ends its data may be missing.
Behind(m, chunk) ==
    IF HasCRLF(m.wire, ChunkEnd(chunk)) THEN ChunkEnd(chunk) + 2 ELSE ChunkEnd(chunk)

\* Where the i-th chunk begins, and how much of the body is in front of it.
ChunkAt(m, i) == IF i = 1 THEN BodyAt(m) ELSE Behind(m, m.chunks[i - 1])

Before(m, i) == IF i = 1 THEN 0 ELSE m.chunks[i - 1].before + m.chunks[i - 1].size

LastAt(m) == ChunkAt(m, Len(m.chunks) + 1)

\* The line of a size and as much data: a chunk of the body.
BeginsChunk(m, at) ==
    /\ HasLine(m.wire, at, {"size"})
    /\ m.wire[at + 1].n \in Nat \ {0}

BeginsWholeChunk(m, at) ==
    BeginsChunk(m, at) /\ at + 3 + m.wire[at + 1].n <= Len(m.wire)

ChunksAreThere(m) ==
    /\ \A i \in DOMAIN m.chunks :
           LET chunk == m.chunks[i]
           IN  /\ chunk.at = ChunkAt(m, i) /\ chunk.before = Before(m, i)
               /\ BeginsWholeChunk(m, chunk.at) /\ chunk.size = m.wire[chunk.at + 1].n
               /\ chunk.before + chunk.size <= Len(m.body)
               /\ SubSeq(m.body, chunk.before + 1, chunk.before + chunk.size)
                    = SubSeq(m.wire, chunk.at + 4, ChunkEnd(chunk))
    /\ ~BeginsWholeChunk(m, LastAt(m))
    /\ Len(m.body) = Before(m, Len(m.chunks) + 1)

\* The chunk of size 0.
EndsChunks(m) == HasLine(m.wire, LastAt(m), {"size"}) /\ m.wire[LastAt(m) + 1].n = 0

\* Behind the data of a chunk, where its CRLF is.
ChunkEnds(m) ==
    {ChunkEnd(m.chunks[i]) : i \in {j \in DOMAIN m.chunks :
                                        HasCRLF(m.wire, ChunkEnd(m.chunks[j]))}}

-----------------------------------------------------------------------------

LengthFits(m) == BodyAt(m) + ValueOf(m, "length") <= Len(m.wire)

\* The request that the wire begins with is a whole one.
WellFormed(m) ==
    /\ HasLine(m.wire, 0, {"request"})
    /\ HasCRLF(m.wire, EmptyLineAt(m))
    /\ ValueOf(m, "length") # Invalid
    /\ HasLength(m) => LengthFits(m)
    /\ InChunks(m) => EndsChunks(m)

\* The length of that request; the wire may go on after it.
SizeOf(m) ==
    IF HasLength(m) THEN BodyAt(m) + ValueOf(m, "length")
    ELSE IF InChunks(m) THEN LastAt(m) + 3
    ELSE BodyAt(m)

IsMessage(m) ==
    /\ m.wire \in Seq(Token) /\ m.headers \in Nat /\ m.body \in Seq(Token)
    /\ m.chunks \in Seq([at : Nat, size : Nat, before : Nat])
    /\ \A i \in 1 .. m.headers : HasLine(m.wire, 3 * i, HeaderKinds)
    /\ ~HasLine(m.wire, EmptyLineAt(m), HeaderKinds)
    /\ HasLength(m) /\ LengthFits(m) =>
           m.body = SubSeq(m.wire, BodyAt(m) + 1, BodyAt(m) + ValueOf(m, "length"))
    /\ InChunks(m) => ChunksAreThere(m)
    /\ ~HasLength(m) /\ ~InChunks(m) => m.body = <<>>
=============================================================================
