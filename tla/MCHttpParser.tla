---------------------------- MODULE MCHttpParser ----------------------------
(***************************************************************************)
(* HttpParser on short messages: no body, a body with a length, a body in  *)
(* chunks, one that holds a CRLF, and messages that are malformed or cut   *)
(* short; a header in two spellings, and a few queries.  HttpRequest's     *)
(* parsing of queries and paths is compared with what it means, on all     *)
(* short strings.                                                          *)
(***************************************************************************)
EXTENDS HttpParser, SequencesExt

T(kind, n) == [kind |-> kind, n |-> n, spelling |-> "as sent"]

Respelled(token) == [token EXCEPT !.spelling = "another"]

LineOf(token) == <<token, CR, LF>>

\* The lines up to the empty one.
Head1(headers) ==
    LineOf(T("request", 0)) \o FlattenSeq([i \in DOMAIN headers |-> LineOf(headers[i])])
        \o <<CR, LF>>

Bytes(n) == [i \in 1 .. n |-> T("byte", i)]

\* A message without a body or with a Content-Length, and the next one's start.
Plain(headers, body, behind) ==
    [wire |-> Head1(headers) \o body \o behind,
     headers |-> Len(headers), chunks |-> <<>>, body |-> body]

\* A message in chunks, each its data and whether a CRLF follows them.
Size(data) == LineOf(T("size", Len(data)))

InSuchChunks(chunks, behind) ==
    LET headers == <<T("encoding", Chunked)>>
        line(chunk) == Size(chunk[1]) \o chunk[1] \o IF chunk[2] THEN <<CR, LF>> ELSE <<>>
        lines(i) == FlattenSeq([j \in 1 .. i |-> line(chunks[j])])
        data(i) == FlattenSeq([j \in 1 .. i |-> chunks[j][1]])
    IN  [wire |-> Head1(headers) \o lines(Len(chunks)) \o behind,
         headers |-> 1,
         chunks |-> [i \in DOMAIN chunks |->
                        [at |-> Len(Head1(headers) \o lines(i - 1)),
                         size |-> Len(chunks[i][1]), before |-> Len(data(i - 1))]],
         body |-> data(Len(chunks))]

Good(data) == <<data, TRUE>>

Bare(data) == <<data, FALSE>>

Intact ==
    {Plain(<<>>, <<>>, <<T("request", 0)>>),
     Plain(<<T("header", 1), Respelled(T("header", 2))>>, <<>>, <<>>),
     Plain(<<T("length", 0)>>, <<>>, <<>>),
     Plain(<<T("length", Empty), T("encoding", 1)>>, <<>>, Bytes(1)),
     Plain(<<T("header", 0), T("length", 3)>>, Bytes(3), LineOf(T("request", 0))),
     Plain(<<T("length", 2)>>, <<CR, LF>>, <<>>),
     InSuchChunks(<<Good(Bytes(2))>>, Size(<<>>) \o <<CR, LF>>),
     InSuchChunks(<<Bare(Bytes(1)), Good(<<CR, LF>>)>>, Size(<<>>))}

\* No request, no header, no length, no body, no size, no data, and no more chunks.
Malformed ==
    {[Plain(<<>>, <<>>, <<>>) EXCEPT !.wire = LineOf(T("junk", 0))],
     [Plain(<<>>, <<>>, <<>>) EXCEPT !.wire = LineOf(T("request", 0)) \o LineOf(T("junk", 0))],
     Plain(<<T("length", Invalid)>>, <<>>, <<>>),
     Plain(<<T("length", 2)>>, <<>>, Bytes(1)),
     InSuchChunks(<<>>, LineOf(T("size", Invalid))),
     InSuchChunks(<<>>, Size(Bytes(2)) \o Bytes(1)),
     InSuchChunks(<<Good(Bytes(1))>>, <<CR, LF>>)}

Few == Intact \cup Malformed

\* How any wire reads.
MessageOf(wire) ==
    LET headers == Max({k \in 0 .. Len(wire) :
                           \A i \in 1 .. k : HasLine(wire, 3 * i, HeaderKinds)})
        head == [wire |-> wire, headers |-> headers, chunks |-> <<>>, body |-> <<>>]
        chunk(at, before) == [at |-> at, size |-> wire[at + 1].n, before |-> before]
        Data(c) == SubSeq(wire, c.at + 4, ChunkEnd(c))
        ChunksFrom[at \in 0 .. Len(wire) + 2, before \in 0 .. Len(wire)] ==
            IF ~BeginsWholeChunk(head, at) THEN <<>>
            ELSE LET c == chunk(at, before)
                 IN  <<c>> \o ChunksFrom[Behind(head, c), before + c.size]
        chunks == ChunksFrom[BodyAt(head), 0]
    IN  IF HasLength(head) /\ LengthFits(head)
          THEN [head EXCEPT !.body = SubSeq(wire, BodyAt(head) + 1,
                                            BodyAt(head) + ValueOf(head, "length"))]
        ELSE IF InChunks(head)
          THEN [head EXCEPT !.chunks = chunks,
                            !.body = FlattenSeq([i \in DOMAIN chunks |-> Data(chunks[i])])]
        ELSE head

Strings(chars, n) == UNION {[1 .. i -> chars] : i \in 0 .. n}

Parts ==
    {LineOf(T("request", 0)), LineOf(T("header", 1)), LineOf(T("length", 1)),
     LineOf(T("encoding", Chunked)), <<CR, LF>>, <<CR>>, Bytes(1)}

\* No wire is left out: whatever a client sends reads as a message.
ASSUME EveryWireIsAMessage ==
    /\ \A m \in Few : MessageOf(m.wire) = m
    /\ \A pieces \in Strings(Parts, 4) : IsMessage(MessageOf(FlattenSeq(pieces)))
    /\ \A tail \in Strings({CR, LF, T("size", 0), T("size", 1)}, 7) :
           IsMessage(MessageOf(Head1(<<T("encoding", Chunked)>>) \o tail))

ASSUME WellFormedMeansIntact ==
    /\ \A m \in Few : WellFormed(m) <=> m \in Intact
    /\ \A m \in Intact : HasLength(m) => SizeOf(m) = BodyAt(m) + Len(m.body)

BothSpellings ==
    {[field |-> "header", spelling |-> s] : s \in {"as sent", "another"}}

FewValues == {1, 2}

FewQueries == {<<>>, <<"a", "=">>, <<"=", "a">>, <<"a", "=", "a", "&", "=">>}

\* A query is cut at every "&"; of the pieces with a "=" the last one of a key
\* has its value.
Means(query) ==
    LET Bounds == {0, Len(query) + 1} \cup {i \in DOMAIN query : query[i] = "&"}
        Equals(i, j) == {k \in i + 1 .. j - 1 : query[k] = "="}
        Pieces == {ij \in Bounds \X Bounds :
                      /\ ij[1] < ij[2] /\ \A k \in Bounds : k <= ij[1] \/ k >= ij[2]
                      /\ Equals(ij[1], ij[2]) # {}}
        First(ij) == Min(Equals(ij[1], ij[2]))
        Key(ij) == SubSeq(query, ij[1] + 1, First(ij) - 1)
        Value(ij) == SubSeq(query, First(ij) + 1, ij[2] - 1)
        LastOf(key) == CHOOSE ij \in Pieces : /\ Key(ij) = key
                         /\ \A other \in Pieces : Key(other) = key => other[1] <= ij[1]
    IN  [key \in {Key(ij) : ij \in Pieces} |-> Value(LastOf(key))]

ASSUME QueryParsing ==
    \A query \in Strings({"a", "=", "&"}, 6) : ParseQueryString(query) = Means(query)

\* A path with a slash is its base and its file's name, which has no slash; the
\* extension is what follows the name's last dot.
ASSUME PathParts ==
    \A path \in Strings({"a", ".", "/"}, 6) :
        LET r == SetPath(NewRequest, path)
            name == GetFilename(r)
        IN  /\ ~Contains(name, "/")
            /\ IF Contains(path, "/") THEN GetBasePath(r) \o name = path ELSE name = path
            /\ ~Contains(GetExtension(r), ".")
            /\ IF Contains(name, ".")
                 THEN IsSuffix(<<".">> \o GetExtension(r), name)
                 ELSE GetExtension(r) = <<>>
=============================================================================
