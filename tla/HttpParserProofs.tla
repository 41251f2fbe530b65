-------------------------- MODULE HttpParserProofs --------------------------
(* Theorems about HttpParser and the request it builds, for any messages,    *)
(* header names and values, and queries.                                     *)
EXTENDS HttpParser, SequenceTheorems, WellFoundedInduction, TLAPS

-----------------------------------------------------------------------------
(* The operators of HttpRequest. *)

LEMMA PutIs ==
    ASSUME NEW f, NEW k, NEW v
    PROVE  /\ DOMAIN Put(f, k, v) = DOMAIN f \cup {k}
           /\ Put(f, k, v)[k] = v
           /\ \A x \in DOMAIN f : x # k => Put(f, k, v)[x] = f[x]
BY DEF Put

\* A request has the nine fields, and the ones that TypeOK speaks of are typed.
IsRequest(r) ==
    /\ DOMAIN r = DOMAIN NewRequest
    /\ r.method \in Methods /\ r.version \in Versions
    /\ r.path \in Seq(Char) /\ r.query \in Seq(Char)
    /\ r.body \in Seq(Token) /\ r.parsed \in BOOLEAN

SameQuery(r, s) == r.query = s.query /\ r.params = s.params /\ r.parsed = s.parsed

SameHeaders(r, s) == r.headers = s.headers /\ r.lowercase = s.lowercase

LEMMA NewRequestIs ==
    /\ IsRequest(NewRequest) /\ NewRequest.headers = <<>> /\ NewRequest.lowercase = <<>>
    /\ NewRequest.body = <<>> /\ NewRequest.parsed = FALSE
BY DEF NewRequest, IsRequest, Methods, Versions

\* What each operation changes.
LEMMA RequestLineIs ==
    ASSUME NEW r, IsRequest(r), NEW path \in Seq(Char),
           NEW method \in Methods, NEW version \in Versions
    PROVE  LET s == SetVersion(SetPath(SetMethod(r, method), path), version)
           IN  IsRequest(s) /\ SameHeaders(s, r) /\ s.body = r.body /\ s.parsed = FALSE
BY DEF IsRequest, NewRequest, SetVersion, SetPath, SetMethod, SameHeaders

LEMMA SetPathIs ==
    ASSUME NEW r, IsRequest(r), NEW path \in Seq(Char)
    PROVE  LET s == SetPath(r, path)
           IN  IsRequest(s) /\ SameHeaders(s, r) /\ s.body = r.body /\ s.parsed = FALSE
BY DEF IsRequest, NewRequest, SetPath, SameHeaders

LEMMA AddHeaderIs ==
    ASSUME NEW r, IsRequest(r), NEW name, NEW value
    PROVE  LET s == AddHeader(r, name, value)
           IN  /\ IsRequest(s) /\ SameQuery(s, r) /\ s.body = r.body
               /\ s.headers = Put(r.headers, name, value)
               /\ s.lowercase = Put(r.lowercase, ToLower(name), value)
BY DEF IsRequest, NewRequest, AddHeader, SameQuery

LEMMA RemoveHeaderIs ==
    ASSUME NEW r, IsRequest(r), NEW name \in DOMAIN r.headers
    PROVE  LET s == RemoveHeader(r, name)
           IN  /\ IsRequest(s) /\ SameQuery(s, r) /\ s.body = r.body
               /\ s.headers = Erase(r.headers, name)
               /\ s.lowercase = Erase(r.lowercase, ToLower(name))
BY DEF IsRequest, NewRequest, RemoveHeader, SameQuery

LEMMA SetHeadersIs ==
    ASSUME NEW r, IsRequest(r), NEW headers, NEW s \in SetHeaders(r, headers)
    PROVE  /\ IsRequest(s) /\ SameQuery(s, r) /\ s.body = r.body
           /\ s.headers = headers
           /\ DOMAIN s.lowercase = {ToLower(name) : name \in DOMAIN headers}
           /\ \A field \in DOMAIN s.lowercase : \E name \in DOMAIN headers :
                  ToLower(name) = field /\ s.lowercase[field] = headers[name]
<1>. DEFINE Kept == {ToLower(name) : name \in DOMAIN headers}
<1>1. PICK last \in [Kept -> DOMAIN headers] :
         /\ \A field \in Kept : ToLower(last[field]) = field
         /\ s = [r EXCEPT !.headers = headers,
                          !.lowercase = [field \in Kept |-> headers[last[field]]]]
  BY DEF SetHeaders
<1>2. /\ IsRequest(s) /\ SameQuery(s, r) /\ s.body = r.body /\ s.headers = headers
      /\ s.lowercase = [field \in Kept |-> headers[last[field]]]
  BY <1>1 DEF IsRequest, NewRequest, SameQuery
<1>3. ASSUME NEW field \in Kept
      PROVE  last[field] \in DOMAIN headers /\ s.lowercase[field] = headers[last[field]]
  BY <1>1, <1>2, <1>3
<1>. QED
  BY <1>1, <1>2, <1>3

LEMMA ClearHeadersIs ==
    ASSUME NEW r, IsRequest(r)
    PROVE  LET s == ClearHeaders(r)
           IN  /\ IsRequest(s) /\ SameQuery(s, r) /\ s.body = r.body
               /\ s.headers = <<>> /\ s.lowercase = <<>>
BY DEF IsRequest, NewRequest, ClearHeaders, SameQuery

LEMMA SetQueryStringIs ==
    ASSUME NEW r, IsRequest(r), NEW query \in Seq(Char)
    PROVE  LET s == SetQueryString(r, query)
           IN  IsRequest(s) /\ SameHeaders(s, r) /\ s.body = r.body /\ s.parsed = FALSE
BY DEF IsRequest, NewRequest, SetQueryString, SameHeaders

LEMMA ParseQueryParametersIs ==
    ASSUME NEW r, IsRequest(r)
    PROVE  LET s == ParseQueryParameters(r)
           IN  /\ IsRequest(s) /\ SameHeaders(s, r) /\ s.body = r.body /\ s.query = r.query
               /\ s = r \/ s.params = ParseQueryString(r.query)
<1>1. CASE r.parsed \/ r.query = <<>>
  BY <1>1 DEF ParseQueryParameters, SameHeaders
<1>2. CASE ~(r.parsed \/ r.query = <<>>)
  BY <1>2 DEF IsRequest, NewRequest, ParseQueryParameters, SameHeaders
<1>. QED
  BY <1>1, <1>2

LEMMA AddQueryParameterIs ==
    ASSUME NEW r, IsRequest(r), NEW key, NEW value
    PROVE  LET s == AddQueryParameter(r, key, value)
           IN  /\ IsRequest(s) /\ SameHeaders(s, r) /\ s.body = r.body /\ s.query = r.query
               /\ s.parsed = r.parsed /\ s.params = Put(r.params, key, value)
BY DEF IsRequest, NewRequest, AddQueryParameter, SameHeaders

LEMMA BodyIs ==
    ASSUME NEW r, IsRequest(r), NEW data \in Seq(Token)
    PROVE  /\ LET s == SetBody(r, data)
              IN  IsRequest(s) /\ SameHeaders(s, r) /\ SameQuery(s, r) /\ s.body = data
           /\ LET s == ClearBody(r)
              IN  IsRequest(s) /\ SameHeaders(s, r) /\ SameQuery(s, r) /\ s.body = <<>>
           /\ LET s == AppendBody(r, data)
              IN  /\ IsRequest(s) /\ SameHeaders(s, r) /\ SameQuery(s, r)
                  /\ s.body = r.body \o data
<1>1. r.body \o data \in Seq(Token)
  BY ConcatProperties DEF IsRequest
<1>. QED
  BY <1>1 DEF IsRequest, NewRequest, SetBody, ClearBody, AppendBody, SameHeaders, SameQuery

-----------------------------------------------------------------------------
(* The loop. *)

LEMMA LeastExists ==
    ASSUME NEW T \in SUBSET Nat, T # {}
    PROVE  \E x \in T : \A y \in T : x <= y
<1>. DEFINE R == OpToRel(<, Nat)
<1>1. IsWellFoundedOn(R, Nat)
  BY NatLessThanWellFounded
<1>2. \A x, y \in Nat : x < y => <<x, y>> \in R
  BY DEF OpToRel
<1>. HIDE DEF R
<1>3. PICK x \in T : \A y \in T : <<y, x>> \notin R
  BY <1>1, WFMin
<1>4. ASSUME NEW y \in T PROVE x <= y
  <2>1. x \in Nat /\ y \in Nat
    OBVIOUS
  <2>2. ~ (y < x)
    BY <1>2, <1>3, <2>1, Zenon
  <2>. QED
    BY <2>1, <2>2
<1>. QED
  BY <1>4

\* What was given to the parser and not taken, c gone past and s from a on left.
WithRest(c, s, a) == c \o SubSeq(s, a + 1, Len(s))

LEMMA LeastIs ==
    ASSUME NEW a \in Nat, NEW b \in Nat
    PROVE  Least(a, b) \in Nat /\ Least(a, b) <= a /\ Least(a, b) <= b
BY DEF Least

\* A sequence cut in two.
LEMMA CutIs ==
    ASSUME NEW T, NEW c \in Seq(T), NEW s \in Seq(T),
           NEW a \in 0 .. Len(s), NEW b \in a .. Len(s)
    PROVE  /\ SubSeq(s, a + 1, b) \in Seq(T) /\ Len(SubSeq(s, a + 1, b)) = b - a
           /\ c \o SubSeq(s, a + 1, b) \in Seq(T)
           /\ WithRest(c \o SubSeq(s, a + 1, b), s, b) = WithRest(c, s, a)
<1>. DEFINE m == a + 1
            t == SubSeq(s, a + 1, b)
            u == SubSeq(s, b + 1, Len(s))
<1>1. /\ Len(s) \in Nat /\ m \in 1 .. Len(s) + 1
      /\ b \in m - 1 .. Len(s) /\ Len(s) \in b .. Len(s)
  OBVIOUS
<1>2. t \in Seq(T) /\ Len(t) = b - a /\ u \in Seq(T)
  BY SubSeqProperties
<1>. HIDE DEF m
<1>3. SubSeq(s, m, b) \o SubSeq(s, b + 1, Len(s)) = SubSeq(s, m, Len(s))
  BY <1>1, ConcatAdjacentSubSeq, Zenon
<1>4. t \o u = SubSeq(s, a + 1, Len(s))
  BY <1>3 DEF m
<1>. HIDE DEF t, u
<1>5. c \o t \in Seq(T)
  BY <1>2, ConcatProperties
<1>6. (c \o t) \o u = c \o (t \o u)
  BY <1>2
<1>. QED
  BY <1>2, <1>4, <1>5, <1>6 DEF t, u, WithRest

\* The inductive invariant: what is left of a body is never negative, between two
\* calls nothing is gone past, and no more is unsent than the client has.
Types ==
    /\ TypeOK
    /\ IsRequest(request)
    /\ ~parsing => pos = 0
    /\ state \in {"START_LINE", "HEADERS"} => request.body = <<>>
    /\ state = "BODY" => Len(request.body) <= contentLength
    /\ Len(unsent) <= Len(message.wire)

LEMMA AdvanceIs ==
    ASSUME Types, NEW n \in 0 .. Len(buffer) - pos, Advance(n)
    PROVE  /\ pos' \in 0 .. Len(buffer') /\ consumed' \in Seq(Token)
           /\ SubSeq(buffer, pos + 1, pos + n) \in Seq(Token)
           /\ Len(SubSeq(buffer, pos + 1, pos + n)) = n
           /\ WithRest(consumed', buffer', pos') = WithRest(consumed, buffer, pos)
           /\ UNCHANGED <<buffer, parsing, message, unsent, cuts>>
<1>1. /\ buffer \in Seq(Token) /\ pos \in 0 .. Len(buffer)
      /\ consumed \in Seq(Token) /\ Len(buffer) \in Nat
  BY DEF Types, TypeOK
<1>. DEFINE b == pos + n
<1>2. b \in pos .. Len(buffer) /\ b - pos = n
  BY <1>1
<1>3. /\ pos' = b /\ consumed' = consumed \o SubSeq(buffer, pos + 1, b)
      /\ UNCHANGED <<buffer, parsing, message, unsent, cuts>>
  BY DEF Advance
<1>. HIDE DEF b
<1>4. /\ SubSeq(buffer, pos + 1, b) \in Seq(Token)
      /\ Len(SubSeq(buffer, pos + 1, b)) = b - pos
      /\ consumed \o SubSeq(buffer, pos + 1, b) \in Seq(Token)
  BY <1>1, <1>2, CutIs
<1>5. WithRest(consumed', buffer', pos') = WithRest(consumed, buffer, pos)
  <2>1. WithRest(consumed \o SubSeq(buffer, pos + 1, b), buffer, b)
          = WithRest(consumed, buffer, pos)
    BY <1>1, <1>2, CutIs
  <2>. QED
    BY <1>3, <2>1, Zenon
<1>6. pos' \in 0 .. Len(buffer')
  BY <1>1, <1>2, <1>3
<1>. QED
  BY <1>2, <1>3, <1>4, <1>5, <1>6 DEF b

\* A line that is there ends within the buffer.
LEMMA TakeLineIs ==
    ASSUME Types, TakeLine
    PROVE  LineLength \in Nat /\ LineLength + 2 \in 0 .. Len(buffer) - pos
           /\ Advance(LineLength + 2)
<1>1. buffer \in Seq(Token) /\ Len(buffer) \in Nat /\ pos \in Nat
  BY DEF Types, TypeOK
<1>2. LineEnds \in SUBSET Nat /\ LineEnds # {}
  BY <1>1 DEF TakeLine, LineEnds
<1>3. PICK x \in LineEnds : \A y \in LineEnds : x <= y
  BY <1>2, LeastExists
<1>. DEFINE i == CHOOSE i \in LineEnds : \A j \in LineEnds : i <= j
<1>4. i \in LineEnds
  BY <1>3
<1>5. i \in pos + 1 .. Len(buffer) - 1
  BY <1>4 DEF LineEnds
<1>6. LineLength = i - pos - 1
  BY DEF LineLength
<1>. HIDE DEF i
<1>7. LineLength \in Nat /\ LineLength + 2 \in 0 .. Len(buffer) - pos
  BY <1>1, <1>5, <1>6
<1>. QED
  BY <1>7 DEF TakeLine

-----------------------------------------------------------------------------
(* Type correctness. *)

\* What the requests of Next are.
LEMMA StartLineRequest ==
    ASSUME Types, ParseStartLine
    PROVE  /\ IsRequest(request') /\ request'.body = request.body
           /\ SameHeaders(request', request)
           /\ request' = request \/ request'.parsed = FALSE
<1>1. IsRequest(request) /\ "GET" \in Methods /\ "HTTP_1_1" \in Versions
  BY DEF Types, Methods, Versions
<1>2. Target \in Seq(Char)
  BY DEF Target, Char
<1>3. LET s == SetVersion(SetPath(SetMethod(request, "GET"), Target), "HTTP_1_1")
      IN  IsRequest(s) /\ SameHeaders(s, request) /\ s.body = request.body /\ s.parsed = FALSE
  BY <1>1, <1>2, RequestLineIs
<1>4. SameHeaders(request, request)
  BY DEF SameHeaders
<1>. QED
  BY <1>1, <1>3, <1>4 DEF ParseStartLine

LEMMA TakeBodyIs ==
    ASSUME Types, NEW n \in 0 .. Len(buffer) - pos, Advance(n), TakeBody(n)
    PROVE  /\ IsRequest(request') /\ SameHeaders(request', request)
           /\ SameQuery(request', request)
           /\ Len(request'.body) = Len(request.body) + n
<1>1. /\ SubSeq(buffer, pos + 1, pos + n) \in Seq(Token)
      /\ Len(SubSeq(buffer, pos + 1, pos + n)) = n
      /\ IsRequest(request)
  BY AdvanceIs DEF Types
<1>. DEFINE data == SubSeq(buffer, pos + 1, pos + n)
<1>. HIDE DEF data
<1>2. data \in Seq(Token) /\ Len(data) = n /\ request' = AppendBody(request, data)
  BY <1>1 DEF data, TakeBody
<1>3. /\ IsRequest(request') /\ SameHeaders(request', request)
      /\ SameQuery(request', request) /\ request'.body = request.body \o data
  BY <1>1, <1>2, BodyIs
<1>4. request.body \in Seq(Token)
  BY <1>1 DEF IsRequest
<1>5. Len(request.body \o data) = Len(request.body) + Len(data)
  BY <1>2, <1>4, ConcatProperties
<1>. QED
  BY <1>2, <1>3, <1>5

\* Whatever the owner does to the request, it stays one.
LEMMA EditedRequest ==
    ASSUME Types, EditHeaders \/ EditQuery \/ EditBody
    PROVE  IsRequest(request') /\ moved
<1>1. IsRequest(request)
  BY DEF Types
<1>2. CASE EditHeaders
  <2>1. ASSUME NEW name \in Names, NEW value \in Values,
               Becomes(AddHeader(request, name, value))
        PROVE  IsRequest(request') /\ moved
    BY <1>1, <2>1, AddHeaderIs DEF Becomes
  <2>2. ASSUME NEW name \in Names, Becomes(RemoveHeader(request, name))
        PROVE  IsRequest(request') /\ moved
    <3>1. CASE name \in DOMAIN request.headers
      BY <1>1, <2>2, <3>1, RemoveHeaderIs DEF Becomes
    <3>2. CASE name \notin DOMAIN request.headers
      BY <1>1, <2>2, <3>2 DEF Becomes, RemoveHeader
    <3>. QED
      BY <3>1, <3>2
  <2>3. ASSUME NEW value \in [Names -> Values],
               NEW r \in SetHeaders(request, value), Becomes(r)
        PROVE  IsRequest(request') /\ moved
    BY <1>1, <2>3, SetHeadersIs DEF Becomes
  <2>4. ASSUME Becomes(ClearHeaders(request))
        PROVE  IsRequest(request') /\ moved
    BY <1>1, <2>4, ClearHeadersIs DEF Becomes
  <2>. QED
    BY <1>2, <2>1, <2>2, <2>3, <2>4 DEF EditHeaders
<1>3. CASE EditQuery
  <2>1. ASSUME NEW query \in Queries, Becomes(SetQueryString(request, query))
        PROVE  IsRequest(request') /\ moved
    <3>1. query \in Seq(Char)
      BY QueriesAreStrings
    <3>. QED
      BY <1>1, <2>1, <3>1, SetQueryStringIs DEF Becomes
  <2>2. ASSUME Becomes(ParseQueryParameters(request))
        PROVE  IsRequest(request') /\ moved
    BY <1>1, <2>2, ParseQueryParametersIs DEF Becomes
  <2>3. ASSUME NEW key, Becomes(AddQueryParameter(request, key, Added))
        PROVE  IsRequest(request') /\ moved
    BY <1>1, <2>3, AddQueryParameterIs DEF Becomes
  <2>4. ASSUME Becomes(SetPath(request, <<"/">>))
        PROVE  IsRequest(request') /\ moved
    <3>1. <<"/">> \in Seq(Char)
      BY DEF Char
    <3>. QED
      BY <1>1, <2>4, <3>1, SetPathIs DEF Becomes
  <2>. QED
    BY <1>3, <2>1, <2>2, <2>3, <2>4 DEF EditQuery
<1>4. CASE EditBody
  <2>1. <<LF>> \in Seq(Token)
    BY DEF LF, Token
  <2>. QED
    BY <1>1, <1>4, <2>1, BodyIs DEF EditBody, Becomes
<1>. QED
  BY <1>2, <1>3, <1>4

LEMMA TypesInit == Init => Types
<1>. SUFFICES ASSUME Init PROVE Types
  OBVIOUS
<1>1. IsRequest(NewRequest) /\ NewRequest.body = <<>>
  BY NewRequestIs
<1>2. message.wire \in Seq(Token) /\ <<>> \in Seq(Token)
  BY MessagesAreMessages DEF Init, IsMessage
<1>3. pos \in 0 .. Len(buffer) /\ cuts \subseteq Nat
  BY DEF Init
<1>4. TypeOK
  BY <1>1, <1>2, <1>3 DEF Init, TypeOK, IsRequest
<1>5. Len(unsent) <= Len(message.wire)
  BY <1>2 DEF Init
<1>. QED
  BY <1>1, <1>4, <1>5 DEF Init, Types

LEMMA TypesStep == Types /\ [Next]_vars => Types'
<1>. SUFFICES ASSUME Types, [Next]_vars PROVE Types'
  OBVIOUS
<1>0. /\ IsRequest(request) /\ buffer \in Seq(Token) /\ Len(buffer) \in Nat
      /\ pos \in 0 .. Len(buffer) /\ consumed \in Seq(Token) /\ unsent \in Seq(Token)
      /\ Len(request.body) \in Nat /\ contentLength \in Nat /\ chunkSize \in Nat
      /\ cuts \subseteq Nat
      /\ Len(unsent) \in Nat /\ Len(message.wire) \in Nat
      /\ Len(unsent) <= Len(message.wire)
  <2>1. message.wire \in Seq(Token)
    BY MessagesAreMessages DEF Types, TypeOK, IsMessage
  <2>. QED
    BY <2>1 DEF Types, TypeOK
<1>1. ASSUME NEW n \in 1 .. Len(unsent), Parse(n)
      PROVE  Types'
  <2>1. /\ SubSeq(unsent, 1, n) \in Seq(Token) /\ Len(SubSeq(unsent, 1, n)) = n
        /\ SubSeq(unsent, n + 1, Len(unsent)) \in Seq(Token)
        /\ Len(SubSeq(unsent, n + 1, Len(unsent))) = Len(unsent) - n
    BY <1>0, SubSeqProperties
  <2>2. /\ buffer' \in Seq(Token) /\ unsent' \in Seq(Token) /\ Len(buffer') = Len(buffer) + n
    BY <1>0, <1>1, <2>1, ConcatProperties DEF Parse
  <2>3. cuts' \subseteq Nat
    <3>1. Given + n \in Nat
      BY <1>0 DEF Given
    <3>. QED
      BY <1>0, <1>1, <3>1 DEF Parse
  <2>4. Len(unsent') <= Len(message'.wire)
    BY <1>0, <1>1, <2>1 DEF Parse
  <2>. QED
    BY <1>0, <1>1, <2>2, <2>3, <2>4 DEF Parse, Types, TypeOK, IsRequest, parserVars
<1>2. CASE Reset
  <2>1. IsRequest(NewRequest) /\ NewRequest.body = <<>>
    BY NewRequestIs
  <2>2. message'.wire \in Seq(Token) /\ <<>> \in Seq(Token)
    BY <1>2, MessagesAreMessages DEF Reset, IsMessage
  <2>3. pos' \in 0 .. Len(buffer') /\ pos' = 0 /\ cuts' \subseteq Nat
    BY <1>2 DEF Reset, Types
  <2>4. TypeOK'
    BY <1>0, <1>2, <2>1, <2>2, <2>3 DEF Reset, ForgetChunk, Types, TypeOK, IsRequest
  <2>5. Len(unsent') <= Len(message'.wire)
    BY <1>2, <2>2 DEF Reset
  <2>. QED
    BY <1>2, <2>1, <2>3, <2>4, <2>5 DEF Reset, Types
<1>3. CASE GetRequest
  BY <1>0, <1>3 DEF GetRequest, Types, TypeOK, IsRequest
<1>4. CASE EditHeaders \/ EditQuery \/ EditBody
  <2>1. IsRequest(request') /\ moved
    BY <1>4, EditedRequest
  <2>2. UNCHANGED <<state, moved, contentLength, chunkSize, chunkSizeParsed, buffer, pos,
                    parsing, message, unsent, consumed, cuts>>
    BY <1>4 DEF EditHeaders, EditQuery, EditBody, Becomes
  <2>. QED
    BY <1>0, <2>1, <2>2 DEF Types, TypeOK, IsRequest
<1>5. CASE ParseStartLine
  <2>1. LineLength + 2 \in 0 .. Len(buffer) - pos /\ Advance(LineLength + 2)
    BY <1>5, TakeLineIs DEF ParseStartLine
  <2>2. /\ pos' \in 0 .. Len(buffer') /\ consumed' \in Seq(Token)
        /\ UNCHANGED <<buffer, parsing, message, unsent, cuts>>
    BY <2>1, AdvanceIs
  <2>3. IsRequest(request') /\ request'.body = request.body
    BY <1>5, StartLineRequest
  <2>4. state = "START_LINE" /\ state' \in {"HEADERS", "ERROR"} /\ parsing
        /\ UNCHANGED <<moved, contentLength, chunkSize, chunkSizeParsed>>
    BY <1>5 DEF ParseStartLine, In
  <2>. QED
    BY <1>0, <2>2, <2>3, <2>4 DEF Types, TypeOK, IsRequest
<1>6. CASE ParseHeader
  <2>1. LineLength + 2 \in 0 .. Len(buffer) - pos /\ Advance(LineLength + 2)
    BY <1>6, TakeLineIs DEF ParseHeader
  <2>2. /\ pos' \in 0 .. Len(buffer') /\ consumed' \in Seq(Token)
        /\ UNCHANGED <<buffer, parsing, message, unsent, cuts>>
    BY <2>1, AdvanceIs
  <2>3. IsRequest(request') /\ request'.body = request.body
    BY <1>0, <1>6, AddHeaderIs DEF ParseHeader
  <2>4. state = "HEADERS" /\ state' \in {"HEADERS", "ERROR"} /\ parsing
        /\ UNCHANGED <<moved, contentLength, chunkSize, chunkSizeParsed>>
    BY <1>6 DEF ParseHeader, In
  <2>. QED
    BY <1>0, <2>2, <2>3, <2>4 DEF Types, TypeOK, IsRequest
<1>7. CASE EndHeaders
  <2>1. LineLength + 2 \in 0 .. Len(buffer) - pos /\ Advance(LineLength + 2)
    BY <1>7, TakeLineIs DEF EndHeaders
  <2>2. /\ pos' \in 0 .. Len(buffer') /\ consumed' \in Seq(Token)
        /\ UNCHANGED <<buffer, parsing, message, unsent, cuts>>
    BY <2>1, AdvanceIs
  <2>3. /\ state = "HEADERS" /\ state' \in {"BODY", "CHUNKED_BODY", "COMPLETE", "ERROR"}
        /\ contentLength' \in Nat /\ parsing
        /\ UNCHANGED <<request, moved, chunkSize, chunkSizeParsed>>
    BY <1>0, <1>7 DEF EndHeaders, In
  <2>4. request.body = <<>> /\ Len(<<>>) = 0
    BY <2>3 DEF Types
  <2>. QED
    BY <1>0, <2>2, <2>3, <2>4 DEF Types, TypeOK, IsRequest
<1>8. CASE ParseBody
  <2>. DEFINE n == Least(Needed, Remaining)
  <2>1. n \in 0 .. Len(buffer) - pos /\ n <= contentLength - Len(request.body)
    <3>1. Needed \in Nat /\ Remaining \in Nat
      BY <1>0, <1>8 DEF ParseBody, In, Types, Needed, Remaining
    <3>2. n \in Nat /\ n <= Needed /\ n <= Remaining
      BY <3>1, LeastIs
    <3>. HIDE DEF n
    <3>. QED
      BY <1>0, <3>2 DEF Needed, Remaining
  <2>2. Advance(n) /\ TakeBody(n)
    BY <1>8 DEF ParseBody
  <2>. HIDE DEF n
  <2>3. /\ pos' \in 0 .. Len(buffer') /\ consumed' \in Seq(Token)
        /\ UNCHANGED <<buffer, parsing, message, unsent, cuts>>
    BY <2>1, <2>2, AdvanceIs
  <2>4. IsRequest(request') /\ Len(request'.body) = Len(request.body) + n
    BY <2>1, <2>2, TakeBodyIs
  <2>5. state = "BODY" /\ state' \in {"BODY", "COMPLETE"} /\ parsing
        /\ UNCHANGED <<moved, contentLength, chunkSize, chunkSizeParsed>>
    BY <1>8 DEF ParseBody, In
  <2>. QED
    BY <1>0, <2>1, <2>3, <2>4, <2>5, SMTT(30) DEF Types, TypeOK, IsRequest
<1>9. CASE ParseChunkSize
  <2>1. LineLength + 2 \in 0 .. Len(buffer) - pos /\ Advance(LineLength + 2)
    BY <1>9, TakeLineIs DEF ParseChunkSize
  <2>2. /\ pos' \in 0 .. Len(buffer') /\ consumed' \in Seq(Token)
        /\ UNCHANGED <<buffer, parsing, message, unsent, cuts>>
    BY <2>1, AdvanceIs
  <2>3. /\ state = "CHUNKED_BODY" /\ state' \in {"CHUNKED_BODY", "COMPLETE", "ERROR"}
        /\ chunkSize' \in Nat /\ chunkSizeParsed' \in BOOLEAN /\ parsing
        /\ UNCHANGED <<request, moved, contentLength>>
    BY <1>0, <1>9 DEF ParseChunkSize, In, Types, TypeOK
  <2>. QED
    BY <1>0, <2>2, <2>3 DEF Types, TypeOK, IsRequest
<1>10. CASE ParseChunkData
  <2>. DEFINE n == ChunkTaken
              k == IF Advance(n + 2) THEN n + 2 ELSE n
  <2>1. n \in 0 .. Len(buffer) - pos /\ n <= chunkSize /\ n + 2 \in Nat
    BY <1>0 DEF ChunkTaken, Least, Remaining
  <2>2. \/ n + 2 <= Len(buffer) - pos /\ Advance(n + 2)
        \/ Advance(n)
    BY <1>0, <1>10, <2>1 DEF ParseChunkData, SkipsCRLF
  <2>3. TakeBody(n)
    BY <1>10 DEF ParseChunkData
  <2>4. /\ state = "CHUNKED_BODY" /\ parsing
        /\ chunkSize' = chunkSize - n /\ chunkSizeParsed' \in BOOLEAN
        /\ UNCHANGED <<state, moved, contentLength>>
    BY <1>10 DEF ParseChunkData, In
  <2>. HIDE DEF n
  <2>5. /\ pos' \in 0 .. Len(buffer') /\ consumed' \in Seq(Token)
        /\ UNCHANGED <<buffer, parsing, message, unsent, cuts>>
    <3>1. CASE n + 2 <= Len(buffer) - pos /\ Advance(n + 2)
      <4>1. n + 2 \in 0 .. Len(buffer) - pos
        BY <1>0, <2>1, <3>1
      <4>. QED
        BY <3>1, <4>1, AdvanceIs
    <3>2. CASE Advance(n)
      BY <2>1, <3>2, AdvanceIs
    <3>. QED
      BY <2>2, <3>1, <3>2
  <2>6. IsRequest(request')
    <3>1. SubSeq(buffer, pos + 1, pos + n) \in Seq(Token)
      BY <1>0, <2>1, SubSeqProperties
    <3>. DEFINE data == SubSeq(buffer, pos + 1, pos + n)
    <3>2. data \in Seq(Token) /\ request' = AppendBody(request, data)
      BY <2>3, <3>1 DEF TakeBody
    <3>. HIDE DEF data
    <3>. QED
      BY <1>0, <3>2, BodyIs
  <2>7. chunkSize' \in Nat
    BY <1>0, <2>1, <2>4
  <2>. QED
    BY <1>0, <2>4, <2>5, <2>6, <2>7 DEF Types, TypeOK, IsRequest
<1>11. CASE NeedMoreData \/ UNCHANGED vars
  <2>1. UNCHANGED <<state, request, moved, contentLength, chunkSize, chunkSizeParsed, buffer,
                    pos, parsing, message, unsent, consumed, cuts>>
    BY <1>11 DEF NeedMoreData, vars, parserVars
  <2>. QED
    BY <2>1 DEF Types, TypeOK, IsRequest
<1>12. CASE Return
  <2>1. EraseParsed \in Seq(Token)
    BY <1>0, SubSeqProperties DEF EraseParsed
  <2>2. buffer' \in Seq(Token) /\ pos' = 0 /\ pos' \in 0 .. Len(buffer')
        /\ UNCHANGED <<parserVars, message, unsent, consumed, cuts>>
        /\ parsing' = FALSE
    BY <1>0, <1>12, <2>1 DEF Return
  <2>. QED
    BY <1>0, <2>2 DEF Types, TypeOK, IsRequest, parserVars
<1>13. ASSUME LoopStep PROVE Types'
  BY <1>5, <1>6, <1>7, <1>8, <1>9, <1>10, <1>11, <1>12, <1>13, Zenon DEF LoopStep
<1>14. CASE Next
  BY <1>1, <1>2, <1>3, <1>4, <1>13, <1>14 DEF Next
<1>. QED
  BY <1>11, <1>14

\* The parser's variables have their types, whatever a client sends and however it
\* is cut into calls; pos stays in the buffer.
THEOREM TypeCorrect == Spec => []TypeOK
<1>1. Types => TypeOK
  BY DEF Types
<1>. QED
  BY <1>1, TypesInit, TypesStep, PTL DEF Spec

-----------------------------------------------------------------------------
(* Nothing is lost. *)

LEMMA WholeIs ==
    ASSUME NEW T, NEW c, NEW s \in Seq(T)
    PROVE  WithRest(c, s, 0) = c \o s
<1>1. SubSeq(s, 1, Len(s)) = s
  BY SubSeqFull
<1>. QED
  BY <1>1 DEF WithRest

\* What a call is given, and what is left for the next ones.
LEMMA GivenIs ==
    ASSUME NEW T, NEW u \in Seq(T), NEW n \in 1 .. Len(u)
    PROVE  /\ SubSeq(u, 1, n) \in Seq(T) /\ SubSeq(u, n + 1, Len(u)) \in Seq(T)
           /\ SubSeq(u, 1, n) \o SubSeq(u, n + 1, Len(u)) = u
<1>1. SubSeq(u, 1, n) \in Seq(T) /\ SubSeq(u, n + 1, Len(u)) \in Seq(T)
  BY SubSeqProperties
<1>2. 1 \in 1 .. Len(u) + 1 /\ n \in 1 - 1 .. Len(u) /\ Len(u) \in n .. Len(u)
  OBVIOUS
<1>3. SubSeq(u, 1, n) \o SubSeq(u, n + 1, Len(u)) = SubSeq(u, 1, Len(u))
  BY <1>2, ConcatAdjacentSubSeq, Zenon
<1>. QED
  BY <1>1, <1>3, SubSeqFull

InOrder ==
    state # "ERROR" /\ ~moved => WithRest(consumed, buffer, pos) \o unsent = message.wire

LEMMA InOrderStep == Types /\ InOrder /\ [Next]_vars => InOrder'
<1>. SUFFICES ASSUME Types, InOrder, [Next]_vars, (state # "ERROR" /\ ~moved)'
              PROVE  (WithRest(consumed, buffer, pos) \o unsent = message.wire)'
  BY DEF InOrder
<1>0. /\ buffer \in Seq(Token) /\ pos \in 0 .. Len(buffer) /\ consumed \in Seq(Token)
      /\ unsent \in Seq(Token)
      /\ ~parsing => pos = 0
  BY DEF Types, TypeOK
<1>. DEFINE Goal == (WithRest(consumed, buffer, pos) \o unsent = message.wire)'
<1>1. ASSUME NEW n \in 1 .. Len(unsent), Parse(n)
      PROVE  Goal
  <2>. DEFINE x == SubSeq(unsent, 1, n)
              y == SubSeq(unsent, n + 1, Len(unsent))
  <2>1. ~parsing /\ buffer' = buffer \o x /\ unsent' = y
        /\ UNCHANGED <<state, moved, pos, consumed, message>>
    BY <1>1 DEF Parse, parserVars
  <2>2. x \in Seq(Token) /\ y \in Seq(Token) /\ x \o y = unsent
    BY <1>0, GivenIs
  <2>. HIDE DEF x, y
  <2>3. (consumed \o buffer) \o unsent = message.wire
    BY <1>0, <2>1, WholeIs DEF InOrder
  <2>4. buffer \o x \in Seq(Token)
    BY <1>0, <2>2, ConcatProperties
  <2>5. WithRest(consumed', buffer', pos') = consumed \o (buffer \o x)
    BY <1>0, <2>1, <2>4, WholeIs
  <2>6. (consumed \o (buffer \o x)) \o y = (consumed \o buffer) \o (x \o y)
    <3>1. consumed \o (buffer \o x) = (consumed \o buffer) \o x
      BY <1>0, <2>2, SMTT(30)
    <3>. DEFINE whole == consumed \o buffer
    <3>2. whole \in Seq(Token) /\ x \in Seq(Token) /\ y \in Seq(Token)
      BY <1>0, <2>2, ConcatProperties
    <3>. HIDE DEF whole
    <3>3. (whole \o x) \o y = whole \o (x \o y)
      BY <3>2
    <3>. QED
      BY <3>1, <3>3 DEF whole
  <2>. QED
    BY <2>1, <2>2, <2>3, <2>5, <2>6
<1>2. CASE Reset
  <2>0. pos = 0
    BY <1>0, <1>2 DEF Reset
  <2>1. /\ pos' = 0 /\ buffer' = <<>> /\ consumed' = <<>>
        /\ unsent' = message'.wire /\ message' \in Messages
    BY <1>2, <2>0 DEF Reset
  <2>2. message'.wire \in Seq(Token) /\ <<>> \in Seq(Token)
    BY <2>1, MessagesAreMessages DEF IsMessage
  <2>3. WithRest(<<>>, <<>>, 0) = <<>>
    BY <2>2, WholeIs, ConcatEmptySeq
  <2>. QED
    BY <2>1, <2>2, <2>3, ConcatEmptySeq
<1>3. CASE GetRequest
  BY <1>3 DEF GetRequest
<1>4. CASE EditHeaders \/ EditQuery \/ EditBody
  BY <1>4 DEF EditHeaders, EditQuery, EditBody, Becomes
<1>5. ASSUME NEW n \in 0 .. Len(buffer) - pos, Advance(n), moved' = moved, state # "ERROR"
      PROVE  Goal
  <2>1. /\ WithRest(consumed', buffer', pos') = WithRest(consumed, buffer, pos)
        /\ UNCHANGED <<message, unsent>>
    BY <1>5, AdvanceIs
  <2>2. WithRest(consumed, buffer, pos) \o unsent = message.wire
    BY <1>5 DEF InOrder
  <2>. QED
    BY <2>1, <2>2
<1>6. CASE ParseStartLine \/ ParseHeader \/ EndHeaders \/ ParseChunkSize
  <2>1. LineLength + 2 \in 0 .. Len(buffer) - pos /\ Advance(LineLength + 2)
    BY <1>6, TakeLineIs DEF ParseStartLine, ParseHeader, EndHeaders, ParseChunkSize
  <2>2. moved' = moved /\ state # "ERROR"
    BY <1>6 DEF ParseStartLine, ParseHeader, EndHeaders, ParseChunkSize, In
  <2>. QED
    BY <1>5, <2>1, <2>2
<1>7. CASE ParseBody
  <2>1. Needed \in Nat /\ Remaining \in Nat
    BY <1>0, <1>7 DEF ParseBody, In, Types, TypeOK, IsRequest, Needed, Remaining
  <2>2. Least(Needed, Remaining) \in 0 .. Len(buffer) - pos
    <3>1. /\ Least(Needed, Remaining) \in Nat
          /\ Least(Needed, Remaining) <= Remaining
      BY <2>1, LeastIs
    <3>. QED
      BY <1>0, <3>1 DEF Remaining
  <2>. QED
    BY <1>5, <1>7, <2>2 DEF ParseBody, In
<1>8. CASE ParseChunkData
  <2>1. ChunkTaken \in 0 .. Len(buffer) - pos
    BY <1>0 DEF Types, TypeOK, ChunkTaken, Least, Remaining
  <2>2. moved' = moved /\ state # "ERROR"
    BY <1>8 DEF ParseChunkData, In
  <2>3. \/ ChunkTaken + 2 \in 0 .. Len(buffer) - pos /\ Advance(ChunkTaken + 2)
        \/ Advance(ChunkTaken)
    BY <1>0, <1>8, <2>1 DEF ParseChunkData, SkipsCRLF
  <2>. QED
    BY <1>5, <2>1, <2>2, <2>3
<1>9. CASE NeedMoreData \/ UNCHANGED vars
  <2>1. UNCHANGED <<state, moved, buffer, pos, message, unsent, consumed>>
    BY <1>9 DEF NeedMoreData, vars, parserVars
  <2>. QED
    BY <2>1 DEF InOrder
<1>10. CASE Return
  <2>1. /\ pos' = 0 /\ buffer' = EraseParsed /\ state # "ERROR" /\ ~moved
        /\ UNCHANGED <<message, unsent, consumed>>
    BY <1>10 DEF Return, parserVars
  <2>2. EraseParsed \in Seq(Token)
    BY <1>0, SubSeqProperties DEF EraseParsed
  <2>3. WithRest(consumed', buffer', pos') = WithRest(consumed, buffer, pos)
    BY <2>1, <2>2, WholeIs, SMTT(30) DEF EraseParsed, WithRest
  <2>. QED
    BY <2>1, <2>3 DEF InOrder
<1>11. CASE LoopStep
  BY <1>6, <1>7, <1>8, <1>9, <1>10, <1>11, Zenon DEF LoopStep
<1>12. CASE Next
  BY <1>1, <1>2, <1>3, <1>4, <1>11, <1>12 DEF Next
<1>. QED
  BY <1>9, <1>12

LEMMA InOrderInit == Init => InOrder
<1>. SUFFICES ASSUME Init PROVE WithRest(consumed, buffer, pos) \o unsent = message.wire
  BY DEF InOrder
<1>1. message.wire \in Seq(Token) /\ <<>> \in Seq(Token)
  BY MessagesAreMessages DEF Init, IsMessage
<1>2. WithRest(<<>>, <<>>, 0) = <<>>
  BY <1>1, WholeIs, ConcatEmptySeq
<1>. QED
  BY <1>1, <1>2, ConcatEmptySeq DEF Init

\* However a message is cut into calls, what the parser went past, what its buffer
\* holds and what was not sent yet make up the message.
THEOREM NothingLostTheorem == Spec => []NothingLost
<1>1. InOrder => NothingLost
  BY DEF InOrder, NothingLost, WithRest
<1>. QED
  BY <1>1, InOrderInit, TypesInit, TypesStep, InOrderStep, PTL DEF Spec

-----------------------------------------------------------------------------
(* The two maps of the headers, and the parameters of the query. *)

\* Every value that GetHeader() finds is one of a header that is there.
Indexed(r) ==
    \A field \in DOMAIN r.lowercase : \E name \in DOMAIN r.headers :
        ToLower(name) = field /\ r.headers[name] = r.lowercase[field]

LEMMA FollowsIs ==
    ASSUME NEW r, NEW s, Indexed(s),
           \A name \in DOMAIN s.headers :
               \/ HasHeader(s, name)
               \/ name \in DOMAIN r.headers /\ ~HasHeader(r, name)
               \/ \E other \in DOMAIN r.headers \ DOMAIN s.headers :
                      ToLower(other) = ToLower(name)
    PROVE  Follows(r, s)
<1>1. ASSUME NEW field \in DOMAIN s.lowercase
      PROVE  s.lowercase[field] \in Stored(s, field)
  BY <1>1 DEF Indexed, Stored
<1>. QED
  BY <1>1 DEF Follows

LEMMA SameHeadersFollow ==
    ASSUME NEW r, NEW s, Indexed(r), SameHeaders(s, r)
    PROVE  Indexed(s) /\ Follows(r, s)
<1>1. Indexed(s)
  BY DEF Indexed, SameHeaders
<1>. QED
  BY <1>1, FollowsIs DEF SameHeaders, HasHeader

LEMMA AddedFollow ==
    ASSUME NEW r, IsRequest(r), Indexed(r), NEW name, NEW value
    PROVE  LET s == AddHeader(r, name, value) IN Indexed(s) /\ Follows(r, s)
<1>. DEFINE s == AddHeader(r, name, value)
<1>1. /\ s.headers = Put(r.headers, name, value)
      /\ s.lowercase = Put(r.lowercase, ToLower(name), value)
  BY AddHeaderIs
<1>. HIDE DEF s
<1>2. /\ DOMAIN s.headers = DOMAIN r.headers \cup {name} /\ s.headers[name] = value
      /\ \A x \in DOMAIN r.headers : x # name => s.headers[x] = r.headers[x]
  BY <1>1 DEF Put
<1>3. /\ DOMAIN s.lowercase = DOMAIN r.lowercase \cup {ToLower(name)}
      /\ s.lowercase[ToLower(name)] = value
      /\ \A x \in DOMAIN r.lowercase : x # ToLower(name) => s.lowercase[x] = r.lowercase[x]
  BY <1>1 DEF Put
<1>4. ASSUME NEW field \in DOMAIN s.lowercase
      PROVE  \E n \in DOMAIN s.headers :
                 ToLower(n) = field /\ s.headers[n] = s.lowercase[field]
  <2>1. CASE field = ToLower(name)
    BY <1>2, <1>3, <2>1
  <2>2. CASE field # ToLower(name)
    <3>1. field \in DOMAIN r.lowercase
      BY <1>3, <1>4, <2>2
    <3>2. PICK n \in DOMAIN r.headers : ToLower(n) = field /\ r.headers[n] = r.lowercase[field]
      BY <3>1 DEF Indexed
    <3>3. n # name
      BY <2>2, <3>2
    <3>. QED
      BY <1>2, <1>3, <2>2, <3>1, <3>2, <3>3
  <2>. QED
    BY <2>1, <2>2
<1>5. Indexed(s)
  BY <1>4 DEF Indexed
<1>6. ASSUME NEW n \in DOMAIN s.headers
      PROVE  HasHeader(s, n) \/ (n \in DOMAIN r.headers /\ ~HasHeader(r, n))
  BY <1>2, <1>3, <1>6 DEF HasHeader
<1>7. Follows(r, s)
  BY <1>5, <1>6, FollowsIs
<1>. QED
  BY <1>5, <1>7 DEF s

LEMMA RemovedFollow ==
    ASSUME NEW r, IsRequest(r), Indexed(r), NEW name
    PROVE  LET s == RemoveHeader(r, name) IN Indexed(s) /\ Follows(r, s)
<1>1. CASE name \notin DOMAIN r.headers
  <2>1. RemoveHeader(r, name) = r /\ SameHeaders(r, r)
    BY <1>1 DEF RemoveHeader, SameHeaders
  <2>. QED
    BY <2>1, SameHeadersFollow
<1>2. CASE name \in DOMAIN r.headers
  <2>. DEFINE s == RemoveHeader(r, name)
  <2>1. /\ s.headers = Erase(r.headers, name)
        /\ s.lowercase = Erase(r.lowercase, ToLower(name))
    BY <1>2, RemoveHeaderIs
  <2>. HIDE DEF s
  <2>2. /\ DOMAIN s.headers = DOMAIN r.headers \ {name}
        /\ \A n \in DOMAIN s.headers : s.headers[n] = r.headers[n]
        /\ DOMAIN s.lowercase = DOMAIN r.lowercase \ {ToLower(name)}
        /\ \A f \in DOMAIN s.lowercase : s.lowercase[f] = r.lowercase[f]
    BY <2>1 DEF Erase
  <2>3. Indexed(s)
    <3>1. ASSUME NEW field \in DOMAIN s.lowercase
          PROVE  \E n \in DOMAIN s.headers :
                     ToLower(n) = field /\ s.headers[n] = s.lowercase[field]
      <4>1. PICK n \in DOMAIN r.headers :
              ToLower(n) = field /\ r.headers[n] = r.lowercase[field]
        BY <2>2, <3>1 DEF Indexed
      <4>2. n # name
        BY <2>2, <3>1, <4>1
      <4>. QED
        BY <2>2, <3>1, <4>1, <4>2
    <3>. QED
      BY <3>1 DEF Indexed
  <2>4. ASSUME NEW n \in DOMAIN s.headers
        PROVE  \/ HasHeader(s, n)
               \/ n \in DOMAIN r.headers /\ ~HasHeader(r, n)
               \/ \E other \in DOMAIN r.headers \ DOMAIN s.headers :
                      ToLower(other) = ToLower(n)
    BY <1>2, <2>2, <2>4 DEF HasHeader
  <2>5. Follows(r, s)
    BY <2>3, <2>4, FollowsIs
  <2>. QED
    BY <2>3, <2>5 DEF s
<1>. QED
  BY <1>1, <1>2

LEMMA ReplacedFollow ==
    ASSUME NEW r, IsRequest(r), NEW headers, NEW s \in SetHeaders(r, headers)
    PROVE  Indexed(s) /\ Follows(r, s)
<1>1. /\ s.headers = headers
      /\ DOMAIN s.lowercase = {ToLower(name) : name \in DOMAIN headers}
      /\ \A field \in DOMAIN s.lowercase : \E name \in DOMAIN headers :
             ToLower(name) = field /\ s.lowercase[field] = headers[name]
  BY SetHeadersIs
<1>2. Indexed(s)
  <2>1. ASSUME NEW field \in DOMAIN s.lowercase
        PROVE  \E name \in DOMAIN s.headers :
                   ToLower(name) = field /\ s.headers[name] = s.lowercase[field]
    BY <1>1, <2>1
  <2>. QED
    BY <2>1 DEF Indexed
<1>3. \A name \in DOMAIN s.headers : HasHeader(s, name)
  BY <1>1 DEF HasHeader
<1>. QED
  BY <1>2, <1>3, FollowsIs

LEMMA ClearedFollow ==
    ASSUME NEW r, NEW s, s.headers = <<>>, s.lowercase = <<>>
    PROVE  Indexed(s) /\ Follows(r, s)
<1>1. DOMAIN s.headers = {} /\ DOMAIN s.lowercase = {}
  OBVIOUS
<1>2. Indexed(s)
  BY <1>1 DEF Indexed
<1>. QED
  BY <1>1, <1>2, FollowsIs

\* A step leaves the headers as they were, or is one of the functions that change
\* them.
LEMMA RequestStep ==
    ASSUME Types, [Next]_vars
    PROVE  \/ SameHeaders(request', request)
           \/ request'.headers = <<>> /\ request'.lowercase = <<>>
           \/ \E name, value : request' = AddHeader(request, name, value)
           \/ \E name : request' = RemoveHeader(request, name)
           \/ \E headers : request' \in SetHeaders(request, headers)
<1>0. IsRequest(request)
  BY DEF Types
<1>. DEFINE Goal == \/ SameHeaders(request', request)
                    \/ request'.headers = <<>> /\ request'.lowercase = <<>>
                    \/ \E name, value : request' = AddHeader(request, name, value)
                    \/ \E name : request' = RemoveHeader(request, name)
                    \/ \E headers : request' \in SetHeaders(request, headers)
<1>1. ASSUME request' = request PROVE Goal
  BY <1>1 DEF SameHeaders
<1>2. CASE Reset
  BY <1>2, NewRequestIs DEF Reset
<1>3. CASE EditHeaders
  <2>1. ASSUME NEW name \in Names, NEW value \in Values,
               Becomes(AddHeader(request, name, value))
        PROVE  Goal
    BY <2>1 DEF Becomes
  <2>2. ASSUME NEW name \in Names, Becomes(RemoveHeader(request, name))
        PROVE  Goal
    BY <2>2 DEF Becomes
  <2>3. ASSUME NEW value \in [Names -> Values],
               NEW r \in SetHeaders(request, value), Becomes(r)
        PROVE  Goal
    BY <2>3 DEF Becomes
  <2>4. ASSUME Becomes(ClearHeaders(request)) PROVE Goal
    BY <1>0, <2>4, ClearHeadersIs DEF Becomes
  <2>. HIDE DEF Goal
  <2>. QED
    BY <1>3, <2>1, <2>2, <2>3, <2>4 DEF EditHeaders, Goal
<1>4. CASE EditQuery
  <2>1. ASSUME NEW query \in Queries, Becomes(SetQueryString(request, query))
        PROVE  SameHeaders(request', request)
    <3>1. query \in Seq(Char)
      BY QueriesAreStrings
    <3>. QED
      BY <1>0, <2>1, <3>1, SetQueryStringIs DEF Becomes
  <2>2. ASSUME Becomes(ParseQueryParameters(request))
        PROVE  SameHeaders(request', request)
    BY <1>0, <2>2, ParseQueryParametersIs DEF Becomes
  <2>3. ASSUME NEW key, Becomes(AddQueryParameter(request, key, Added))
        PROVE  SameHeaders(request', request)
    BY <1>0, <2>3, AddQueryParameterIs DEF Becomes
  <2>4. ASSUME Becomes(SetPath(request, <<"/">>))
        PROVE  SameHeaders(request', request)
    <3>1. <<"/">> \in Seq(Char)
      BY DEF Char
    <3>. QED
      BY <1>0, <2>4, <3>1, SetPathIs DEF Becomes
  <2>. QED
    BY <1>4, <2>1, <2>2, <2>3, <2>4 DEF EditQuery
<1>5. CASE EditBody
  <2>1. <<LF>> \in Seq(Token)
    BY DEF LF, Token
  <2>. QED
    BY <1>0, <1>5, <2>1, BodyIs DEF EditBody, Becomes
<1>6. CASE ParseStartLine
  BY <1>6, StartLineRequest
<1>7. CASE ParseHeader
  BY <1>1, <1>7 DEF ParseHeader
<1>8. ASSUME NEW data, request' = AppendBody(request, data)
      PROVE  SameHeaders(request', request)
  BY <1>0, <1>8 DEF AppendBody, SameHeaders, IsRequest, NewRequest
<1>9. CASE ParseBody \/ ParseChunkData
  BY <1>8, <1>9 DEF ParseBody, ParseChunkData, TakeBody
<1>10. CASE GetRequest \/ EndHeaders \/ ParseChunkSize \/ NeedMoreData \/ Return
            \/ UNCHANGED vars
  <2>1. request' = request
    BY <1>10 DEF GetRequest, EndHeaders, ParseChunkSize, NeedMoreData, Return, vars, parserVars
  <2>. QED
    BY <1>1, <2>1
<1>11. ASSUME NEW n \in 1 .. Len(unsent), Parse(n)
       PROVE  Goal
  BY <1>1, <1>11 DEF Parse, parserVars
<1>. HIDE DEF Goal
<1>12. CASE LoopStep
  BY <1>6, <1>7, <1>9, <1>10, <1>12, Zenon DEF LoopStep, Goal
<1>13. CASE Next
  BY <1>2, <1>3, <1>4, <1>5, <1>10, <1>11, <1>12, <1>13 DEF Next, Goal
<1>. QED
  BY <1>10, <1>13 DEF Goal

\* Whatever is added, replaced, removed or parsed, GetHeader() returns the value of
\* a header of the request, and only RemoveHeader hides a header from it, one of
\* the same field in another spelling.
THEOREM HeaderTheorem == Spec => HeaderLostOnlyBySpelling
<1>1. Init => Indexed(request)
  BY NewRequestIs DEF Init, Indexed
<1>2. Types /\ Indexed(request) /\ [Next]_vars
        => Indexed(request') /\ Follows(request, request')
  <2>. SUFFICES ASSUME Types, Indexed(request), [Next]_vars
                PROVE  Indexed(request') /\ Follows(request, request')
    OBVIOUS
  <2>1. IsRequest(request)
    BY DEF Types
  <2>2. CASE SameHeaders(request', request)
    BY <2>2, SameHeadersFollow
  <2>3. CASE request'.headers = <<>> /\ request'.lowercase = <<>>
    BY <2>3, ClearedFollow
  <2>4. ASSUME NEW name, NEW value, request' = AddHeader(request, name, value)
        PROVE  Indexed(request') /\ Follows(request, request')
    BY <2>1, <2>4, AddedFollow
  <2>5. ASSUME NEW name, request' = RemoveHeader(request, name)
        PROVE  Indexed(request') /\ Follows(request, request')
    BY <2>1, <2>5, RemovedFollow
  <2>6. ASSUME NEW headers, request' \in SetHeaders(request, headers)
        PROVE  Indexed(request') /\ Follows(request, request')
    BY <2>1, <2>6, ReplacedFollow
  <2>. QED
    BY <2>2, <2>3, <2>4, <2>5, <2>6, RequestStep
<1>. DEFINE I == Types /\ Indexed(request)
<1>3. Init => I
  BY <1>1, TypesInit
<1>4. I /\ [Next]_vars => I' /\ Follows(request, request')
  <2>. SUFFICES ASSUME I, [Next]_vars PROVE I' /\ Follows(request, request')
    OBVIOUS
  <2>1. Types'
    BY TypesStep
  <2>2. Indexed(request') /\ Follows(request, request')
    BY <1>2
  <2>. QED
    BY <2>1, <2>2
<1>. HIDE DEF I
<1>. QED
  BY <1>3, <1>4, PTL DEF Spec, HeaderLostOnlyBySpelling

\* What a step does to the query.
LEMMA QueryStep ==
    ASSUME Types, [Next]_vars
    PROVE  \/ SameQuery(request', request)
           \/ request'.parsed = FALSE
           \/ request'.query = request.query /\ request'.params = ParseQueryString(request.query)
           \/ \E key : /\ request'.query = request.query /\ request'.parsed = request.parsed
                        /\ request'.params = Put(request.params, key, Added)
<1>0. IsRequest(request)
  BY DEF Types
<1>. DEFINE Goal == \/ SameQuery(request', request)
                    \/ request'.parsed = FALSE
                    \/ /\ request'.query = request.query
                       /\ request'.params = ParseQueryString(request.query)
                    \/ \E key : /\ request'.query = request.query
                                 /\ request'.parsed = request.parsed
                                 /\ request'.params = Put(request.params, key, Added)
<1>1. ASSUME request' = request PROVE Goal
  BY <1>1 DEF SameQuery
<1>2. CASE Reset
  BY <1>2, NewRequestIs DEF Reset
<1>3. CASE EditHeaders
  <2>1. ASSUME NEW name \in Names, NEW value \in Values,
               Becomes(AddHeader(request, name, value))
        PROVE  SameQuery(request', request)
    BY <1>0, <2>1, AddHeaderIs DEF Becomes
  <2>2. ASSUME NEW name \in Names, Becomes(RemoveHeader(request, name))
        PROVE  SameQuery(request', request)
    <3>1. CASE name \in DOMAIN request.headers
      BY <1>0, <2>2, <3>1, RemoveHeaderIs DEF Becomes
    <3>2. CASE name \notin DOMAIN request.headers
      BY <2>2, <3>2 DEF Becomes, RemoveHeader, SameQuery
    <3>. QED
      BY <3>1, <3>2
  <2>3. ASSUME NEW value \in [Names -> Values],
               NEW r \in SetHeaders(request, value), Becomes(r)
        PROVE  SameQuery(request', request)
    BY <1>0, <2>3, SetHeadersIs DEF Becomes
  <2>4. ASSUME Becomes(ClearHeaders(request)) PROVE SameQuery(request', request)
    BY <1>0, <2>4, ClearHeadersIs DEF Becomes
  <2>. QED
    BY <1>3, <2>1, <2>2, <2>3, <2>4 DEF EditHeaders
<1>4. CASE EditQuery
  <2>1. ASSUME NEW query \in Queries, Becomes(SetQueryString(request, query))
        PROVE  Goal
    <3>1. query \in Seq(Char)
      BY QueriesAreStrings
    <3>. QED
      BY <1>0, <2>1, <3>1, SetQueryStringIs DEF Becomes
  <2>2. ASSUME Becomes(ParseQueryParameters(request))
        PROVE  Goal
    <3>1. CASE ParseQueryParameters(request) = request
      BY <1>1, <2>2, <3>1 DEF Becomes
    <3>2. CASE ParseQueryParameters(request).params = ParseQueryString(request.query)
      BY <1>0, <2>2, <3>2, ParseQueryParametersIs DEF Becomes
    <3>. QED
      BY <1>0, <3>1, <3>2, ParseQueryParametersIs
  <2>3. ASSUME NEW key, Becomes(AddQueryParameter(request, key, Added))
        PROVE  Goal
    BY <1>0, <2>3, AddQueryParameterIs DEF Becomes
  <2>4. ASSUME Becomes(SetPath(request, <<"/">>))
        PROVE  Goal
    <3>1. <<"/">> \in Seq(Char)
      BY DEF Char
    <3>. QED
      BY <1>0, <2>4, <3>1, SetPathIs DEF Becomes
  <2>. HIDE DEF Goal
  <2>. QED
    BY <1>4, <2>1, <2>2, <2>3, <2>4 DEF EditQuery, Goal
<1>5. CASE EditBody
  <2>1. <<LF>> \in Seq(Token)
    BY DEF LF, Token
  <2>. QED
    BY <1>0, <1>5, <2>1, BodyIs DEF EditBody, Becomes
<1>6. CASE ParseStartLine
  BY <1>1, <1>6, StartLineRequest
<1>7. CASE ParseHeader
  <2>1. SameQuery(AddHeader(request, NameOf(Line[1]), Line[1].n), request)
    BY <1>0, AddHeaderIs
  <2>. QED
    BY <1>1, <1>7, <2>1 DEF ParseHeader
<1>8. ASSUME NEW data, request' = AppendBody(request, data)
      PROVE  SameQuery(request', request)
  BY <1>0, <1>8 DEF AppendBody, SameQuery, IsRequest, NewRequest
<1>9. CASE ParseBody \/ ParseChunkData
  BY <1>8, <1>9 DEF ParseBody, ParseChunkData, TakeBody
<1>10. CASE GetRequest \/ EndHeaders \/ ParseChunkSize \/ NeedMoreData \/ Return
            \/ UNCHANGED vars
  <2>1. request' = request
    BY <1>10 DEF GetRequest, EndHeaders, ParseChunkSize, NeedMoreData, Return, vars, parserVars
  <2>. QED
    BY <1>1, <2>1
<1>11. ASSUME NEW n \in 1 .. Len(unsent), Parse(n)
       PROVE  Goal
  BY <1>1, <1>11 DEF Parse, parserVars
<1>. HIDE DEF Goal
<1>12. CASE LoopStep
  BY <1>6, <1>7, <1>9, <1>10, <1>12, Zenon DEF LoopStep, Goal
<1>13. CASE Next
  BY <1>2, <1>3, <1>4, <1>5, <1>10, <1>11, <1>12, <1>13 DEF Next, Goal
<1>. QED
  BY <1>10, <1>13 DEF Goal

\* Parameters that are parsed are those of the query the request has now, but for
\* the ones added since.
THEOREM ParamsTheorem == Spec => []ParamsOfQuery
<1>1. Init => ParamsOfQuery
  BY NewRequestIs DEF Init, ParamsOfQuery
<1>2. Types /\ ParamsOfQuery /\ [Next]_vars => ParamsOfQuery'
  <2>. SUFFICES ASSUME Types, ParamsOfQuery, [Next]_vars, request'.parsed
                PROVE  ParamsOfQuery'
    BY DEF ParamsOfQuery
  <2>. DEFINE sent == ParseQueryString(request.query)
  <2>1. CASE SameQuery(request', request)
    BY <2>1 DEF ParamsOfQuery, SameQuery
  <2>2. CASE request'.query = request.query /\ request'.params = sent
    BY <2>2 DEF ParamsOfQuery
  <2>3. ASSUME NEW key, request'.query = request.query, request'.parsed = request.parsed,
               request'.params = Put(request.params, key, Added)
        PROVE  ParamsOfQuery'
    <3>1. /\ DOMAIN request'.params = DOMAIN request.params \cup {key}
          /\ request'.params[key] = Added
          /\ \A x \in DOMAIN request.params : x # key => request'.params[x] = request.params[x]
      BY <2>3 DEF Put
    <3>2. \A x \in DOMAIN sent \cup DOMAIN request.params :
             /\ x \in DOMAIN request.params
             /\ \/ request.params[x] = Added
                \/ x \in DOMAIN sent /\ request.params[x] = sent[x]
      BY <2>3 DEF ParamsOfQuery
    <3>. HIDE DEF sent
    <3>3. \A x \in DOMAIN sent \cup DOMAIN request'.params :
             /\ x \in DOMAIN request'.params
             /\ \/ request'.params[x] = Added
                \/ x \in DOMAIN sent /\ request'.params[x] = sent[x]
      BY <3>1, <3>2
    <3>. QED
      BY <2>3, <3>3 DEF ParamsOfQuery, sent
  <2>. QED
    BY <2>1, <2>2, <2>3, QueryStep
<1>. QED
  BY <1>1, <1>2, TypesInit, TypesStep, PTL DEF Spec
=============================================================================
