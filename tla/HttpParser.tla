----------------------------- MODULE HttpParser -----------------------------
(***************************************************************************)
(* ppserver::HttpParser: a caller gives it the bytes of a request in any   *)
(* number of Parse() calls.  A step is a call that begins, one line or one *)
(* run of body bytes inside the call's loop, or the call's return, so that *)
(* a call that never returns is a behaviour of the model.  Whoever takes   *)
(* the request that is complete may edit it (HttpRequest).                 *)
(***************************************************************************)
EXTENDS HttpMessage

CONSTANTS
    Messages,   \* what clients send (HttpMessage)
    Names,      \* of headers that are edited
    Values,     \* and what they are set to
    Queries     \* query strings

\* The name in a header line.
NameOf(token) == [field |-> token.kind, spelling |-> token.spelling]

ASSUME MessagesAreMessages == \A message \in Messages : IsMessage(message)

ASSUME NamesAreFieldsSpelled ==
    Names \subseteq [field : STRING, spelling : STRING]

ASSUME QueriesAreStrings == Queries \subseteq Seq(Char)

VARIABLES
    state,            \* state_
    request,          \* *request_, as far as it is parsed, or the caller's
    moved,            \* request_ is null: the caller has taken the request
    contentLength,    \* content_length_
    chunkSize,        \* current_chunk_size_
    chunkSizeParsed,  \* chunk_size_parsed_
    buffer,           \* buffer_
    pos,              \* pos, local to Parse()
    parsing,          \* a call of Parse() is under way
    message,          \* what the client is sending
    unsent,           \* the part of it that was not given to Parse()
    consumed,         \* history: the part the parser has gone past
    cuts              \* history: where calls of Parse() ended within it

parserVars == <<state, request, moved, contentLength, chunkSize, chunkSizeParsed>>
vars == <<parserVars, buffer, pos, parsing, message, unsent, consumed, cuts>>

TypeOK ==
    /\ state \in {"START_LINE", "HEADERS", "BODY", "CHUNKED_BODY", "COMPLETE", "ERROR"}
    /\ request.method \in Methods /\ request.version \in Versions
    /\ request.path \in Seq(Char) /\ request.query \in Seq(Char)
    /\ request.body \in Seq(Token) /\ request.parsed \in BOOLEAN
    /\ moved \in BOOLEAN
    /\ moved => state = "COMPLETE"
    /\ contentLength \in Nat
    /\ chunkSize \in Nat
    /\ chunkSizeParsed \in BOOLEAN
    /\ buffer \in Seq(Token)
    /\ pos \in 0 .. Len(buffer)
    /\ parsing \in BOOLEAN
    /\ message \in Messages
    /\ unsent \in Seq(Token)
    /\ consumed \in Seq(Token)
    /\ cuts \subseteq Nat

Init ==
    /\ state = "START_LINE" /\ request = NewRequest /\ moved = FALSE
    /\ contentLength = 0 /\ chunkSize = 0 /\ chunkSizeParsed = FALSE
    /\ buffer = <<>> /\ pos = 0 /\ parsing = FALSE
    /\ message \in Messages /\ unsent = message.wire
    /\ consumed = <<>> /\ cuts = {}

Least(a, b) == IF a <= b THEN a ELSE b

\* Distinct calls end at distinct places: the end of what Parse() was given.
Given == Len(message.wire) - Len(unsent)

-----------------------------------------------------------------------------
(* Calls. *)

\* A call begins: the new data go behind what earlier calls left.
Parse(n) ==
    /\ ~parsing /\ n <= Len(unsent)
    /\ buffer' = buffer \o SubSeq(unsent, 1, n)
    /\ unsent' = SubSeq(unsent, n + 1, Len(unsent))
    /\ cuts' = cuts \cup {Given + n}
    /\ parsing' = TRUE
    /\ UNCHANGED <<parserVars, pos, message, consumed>>

\* What Reset() forgets about chunks.
KeepChunk == UNCHANGED <<chunkSize, chunkSizeParsed>>

ForgetChunk == chunkSize' = 0 /\ chunkSizeParsed' = FALSE

\* Reset(), before the next message of some client.
Reset ==
    /\ ~parsing
    /\ state' = "START_LINE" /\ request' = NewRequest /\ moved' = FALSE
    /\ contentLength' = 0
    /\ ForgetChunk
    /\ buffer' = <<>>
    /\ message' \in Messages /\ unsent' = message'.wire
    /\ consumed' = <<>> /\ cuts' = {}
    /\ UNCHANGED <<pos, parsing>>

\* GetRequest(): nobody calls it, but only of a complete request is there one to
\* take.  The histories of the message end here.
GetRequest ==
    /\ ~parsing /\ state = "COMPLETE" /\ ~moved
    /\ moved' = TRUE
    /\ unsent' = <<>> /\ consumed' = <<>> /\ cuts' = {}
    /\ UNCHANGED <<state, request, contentLength, chunkSize, chunkSizeParsed, buffer,
                   pos, parsing, message>>

\* What the call goes past.
Advance(n) ==
    /\ pos' = pos + n
    /\ consumed' = consumed \o SubSeq(buffer, pos + 1, pos + n)
    /\ UNCHANGED <<buffer, parsing, message, unsent, cuts>>

\* The loop of Parse() is over: what it went past is erased, unless a line was
\* refused, which returns at once.
EraseNothing == buffer

EraseParsed == SubSeq(buffer, pos + 1, Len(buffer))

Return ==
    /\ parsing
    /\ pos = Len(buffer) \/ state \in {"COMPLETE", "ERROR"}
    /\ buffer' = IF state = "ERROR" THEN buffer ELSE EraseParsed
    /\ pos' = 0
    /\ parsing' = FALSE
    /\ UNCHANGED <<parserVars, message, unsent, consumed, cuts>>

-----------------------------------------------------------------------------
(* The loop. *)

In(s) == parsing /\ state = s /\ pos < Len(buffer)

\* FindCRLF: the ends of the lines that begin at pos or later.
LineEnds ==
    {i \in pos + 1 .. Len(buffer) - 1 : buffer[i] = CR /\ buffer[i + 1] = LF}

LineLength == (CHOOSE i \in LineEnds : \A j \in LineEnds : i <= j) - pos - 1

Line == SubSeq(buffer, pos + 1, pos + LineLength)

\* The line and its CRLF.
TakeLine == LineEnds # {} /\ Advance(LineLength + 2)

\* What the second word of the line is: a query stays a part of the path, and
\* SetQueryString is not called.
Target == <<"/", "a", "?", "a", "=", "a">>

ParseStartLine ==
    /\ In("START_LINE")
    /\ TakeLine
    /\ \/ /\ Len(Line) = 1 /\ Line[1].kind = "request"
          /\ request' = SetVersion(SetPath(SetMethod(request, "GET"), Target), "HTTP_1_1")
          /\ state' = "HEADERS"
       \/ /\ ~(Len(Line) = 1 /\ Line[1].kind = "request")
          /\ state' = "ERROR"
          /\ UNCHANGED request
    /\ UNCHANGED <<moved, contentLength, chunkSize, chunkSizeParsed>>

IsHeader == Len(Line) = 1 /\ Line[1].kind \in HeaderKinds

ParseHeader ==
    /\ In("HEADERS")
    /\ TakeLine
    /\ LineLength > 0
    /\ \/ /\ IsHeader
          /\ request' = AddHeader(request, NameOf(Line[1]), Line[1].n)
          /\ UNCHANGED state
       \/ /\ ~IsHeader
          /\ state' = "ERROR"
          /\ UNCHANGED request
    /\ UNCHANGED <<moved, contentLength, chunkSize, chunkSizeParsed>>

TransferEncoding == [field |-> "encoding", spelling |-> "as sent"]

\* The empty line: Content-Length is looked at first, and one that is empty is
\* none.
EndHeaders ==
    /\ In("HEADERS")
    /\ TakeLine
    /\ LineLength = 0
    /\ LET length == GetHeader(request, ContentLength)
           chunked == GetHeader(request, TransferEncoding) = Chunked
       IN  \/ length \in Nat /\ contentLength' = length /\ state' = "BODY"
           \/ length = Invalid /\ state' = "ERROR" /\ UNCHANGED contentLength
           \/ /\ length = Empty
              /\ state' = IF chunked THEN "CHUNKED_BODY" ELSE "COMPLETE"
              /\ UNCHANGED contentLength
    /\ UNCHANGED <<request, moved, chunkSize, chunkSizeParsed>>

TakeBody(n) == request' = AppendBody(request, SubSeq(buffer, pos + 1, pos + n))

Remaining == Len(buffer) - pos

\* How much of the body is still to come.
WholeLength == contentLength

Needed == contentLength - Len(request.body)

MoreThanEnough == Remaining > Needed

Enough == Remaining >= Needed

ParseBody ==
    /\ In("BODY")
    /\ Advance(Least(Needed, Remaining))
    /\ TakeBody(Least(Needed, Remaining))
    /\ state' = IF Enough THEN "COMPLETE" ELSE "BODY"
    /\ UNCHANGED <<moved, contentLength, chunkSize, chunkSizeParsed>>

\* The size of a chunk; a chunk of size 0 ends the body, and the CRLF behind
\* it is not read.
ParseChunkSize ==
    /\ In("CHUNKED_BODY") /\ ~chunkSizeParsed
    /\ TakeLine
    /\ \/ /\ Len(Line) = 1 /\ Line[1].kind = "size" /\ Line[1].n \in Nat
          /\ chunkSize' = Line[1].n
          /\ chunkSizeParsed' = TRUE
          /\ state' = IF Line[1].n = 0 THEN "COMPLETE" ELSE state
       \/ /\ ~(Len(Line) = 1 /\ Line[1].kind = "size" /\ Line[1].n \in Nat)
          /\ state' = "ERROR"
          /\ UNCHANGED <<chunkSize, chunkSizeParsed>>
    /\ UNCHANGED <<request, moved, contentLength>>

\* The data of a chunk, as far as they are there, and the CRLF behind them if
\* it is there, too.
AllThere == Remaining

ChunkTaken == Least(chunkSize, Remaining)

SkipsCRLF(i) == i + 2 <= Len(buffer) /\ buffer[i + 1] = CR /\ buffer[i + 2] = LF

ParseChunkData ==
    /\ In("CHUNKED_BODY") /\ chunkSizeParsed
    /\ TakeBody(ChunkTaken)
    /\ chunkSize' = chunkSize - ChunkTaken
    /\ chunkSizeParsed' = (chunkSize' # 0)
    /\ \/ chunkSize' = 0 /\ SkipsCRLF(pos + ChunkTaken) /\ Advance(ChunkTaken + 2)
       \/ ~(chunkSize' = 0 /\ SkipsCRLF(pos + ChunkTaken)) /\ Advance(ChunkTaken)
    /\ UNCHANGED <<state, moved, contentLength>>

\* No CRLF in what there is: the handler asks for more data by returning, and
\* Parse() calls it again with the same data.
NeedMoreData ==
    /\ \/ In("START_LINE") \/ In("HEADERS")
       \/ In("CHUNKED_BODY") /\ ~chunkSizeParsed
    /\ LineEnds = {}
    /\ UNCHANGED vars

-----------------------------------------------------------------------------
(* The request, when it is the caller's. *)

Becomes(r) ==
    /\ moved
    /\ request' = r
    /\ UNCHANGED <<state, moved, contentLength, chunkSize, chunkSizeParsed, buffer, pos,
                   parsing, message, unsent, consumed, cuts>>

\* A value no query has, to tell an added parameter from a parsed one.
Added == <<"added">>

EditHeaders ==
    \/ \E name \in Names, value \in Values : Becomes(AddHeader(request, name, value))
    \/ \E name \in Names : Becomes(RemoveHeader(request, name))
    \/ \E value \in [Names -> Values] : \E r \in SetHeaders(request, value) : Becomes(r)
    \/ Becomes(ClearHeaders(request))

EditQuery ==
    \/ \E query \in Queries : Becomes(SetQueryString(request, query))
    \/ Becomes(ParseQueryParameters(request))
    \/ \E key \in {<<>>, <<"a">>} : Becomes(AddQueryParameter(request, key, Added))
    \/ Becomes(SetPath(request, <<"/">>))

EditBody ==
    \/ Becomes(SetBody(request, <<LF>>))
    \/ Becomes(ClearBody(request))

-----------------------------------------------------------------------------

LoopStep ==
    \/ ParseStartLine \/ ParseHeader \/ EndHeaders
    \/ ParseBody \/ ParseChunkSize \/ ParseChunkData
    \/ NeedMoreData \/ Return

Next ==
    \/ \E n \in 1 .. Len(unsent) : Parse(n)
    \/ Reset \/ GetRequest
    \/ EditHeaders \/ EditQuery \/ EditBody
    \/ LoopStep

Spec == Init /\ [][Next]_vars

\* A call of Parse() goes on; nobody has to make one.
FairSpec == Spec /\ WF_vars(LoopStep)

-----------------------------------------------------------------------------
(* Properties. *)

\* However the message is cut into calls, every token is gone past once or is
\* still there, in order: what a call leaves for the next one is what it did
\* not parse.
NothingLost ==
    state # "ERROR" /\ ~moved =>
        consumed \o SubSeq(buffer, pos + 1, Len(buffer)) \o unsent = message.wire

\* A request that is complete is the one that was sent, however it was cut, and
\* whatever the parser was used for before or finds behind the message: each
\* field has the value it was given last, however it was spelled,
\* GetContentLength() is the length of the body, and the parser has gone past that
\* request and not a byte further.
CompleteIsRight ==
    state = "COMPLETE" /\ ~moved =>
        /\ WellFormed(message) /\ IsValid(request)
        /\ request.lowercase = Fields(message) /\ request.body = message.body
        /\ GetContentLength(request) = Len(message.body)
        /\ Len(consumed) = SizeOf(message)

\* A well-formed message is refused only after a call that ended between the
\* data of a chunk and its CRLF: no other cut, and no body with a length, is.
RefusedOnlyAtChunkEnd ==
    state = "ERROR" /\ WellFormed(message) => cuts \cap ChunkEnds(message) # {}

\* A well-formed message given to one call is complete when the call returns,
\* but for a Content-Length of 0 with nothing behind it.
OneCallSuffices ==
    (parsing /\ WellFormed(message) /\ ValueOf(message, "length") # 0
             /\ cuts # {} /\ \A c \in cuts : c >= SizeOf(message))
        ~> (~parsing /\ state = "COMPLETE")

Stored(r, field) ==
    {r.headers[name] : name \in {n \in DOMAIN r.headers : ToLower(n) = field}}

\* The headers of r become those of s: what GetHeader() finds is the value of a
\* header that is there, and it finds every header in some spelling of its field,
\* but one of which another spelling is removed, and one it did not find before.
Follows(r, s) ==
    /\ \A field \in DOMAIN s.lowercase : s.lowercase[field] \in Stored(s, field)
    /\ \A name \in DOMAIN s.headers :
           \/ HasHeader(s, name)
           \/ name \in DOMAIN r.headers /\ ~HasHeader(r, name)
           \/ \E other \in DOMAIN r.headers \ DOMAIN s.headers : ToLower(other) = ToLower(name)

\* The two maps of the headers drift apart in one way only: RemoveHeader of one
\* spelling hides the others, which the request still has and sends.
HeaderLostOnlyBySpelling == [][Follows(request, request')]_vars

\* Once the query has been parsed, the parameters are those of the query there is
\* now, but for the ones that were added since: a query or a path that is set
\* later leaves none of its predecessor's behind.  An empty query is never parsed,
\* and does leave them.
ParamsOfQuery ==
    request.parsed =>
        LET sent == ParseQueryString(request.query)
        IN  \A key \in DOMAIN sent \cup DOMAIN request.params :
                /\ key \in DOMAIN request.params
                /\ \/ request.params[key] = Added
                   \/ key \in DOMAIN sent /\ request.params[key] = sent[key]

\* Every call of Parse() returns.
ParseReturns == parsing ~> ~parsing

-----------------------------------------------------------------------------

Verdict ==
    CASE moved -> "taken"
      [] ~moved /\ state = "COMPLETE" -> "complete"
      [] ~moved /\ state = "ERROR" -> "refused"
      [] OTHER -> "pending"

Contents(m) == [fields |-> Fields(m), body |-> m.body]

Received ==
    IF Verdict = "complete" THEN [fields |-> request.lowercase, body |-> request.body]
    ELSE <<>>

Receiver == INSTANCE Reception WITH
    given <- IF moved THEN 0 ELSE Given, ends <- cuts,
    verdict <- Verdict, received <- Received,
    Brittle <- ChunkEnds, Nothing <- <<>>

\* The parser implements Reception: its verdict is final, never given before the
\* end of the request has come, and right, but for a message that was cut where
\* the CRLF of a chunk begins.
ReceptionSpec == Receiver!Spec
=============================================================================
