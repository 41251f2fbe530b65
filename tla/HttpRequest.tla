---------------------------- MODULE HttpRequest -----------------------------
(***************************************************************************)
(* ppserver::HttpRequest: a record, and each member function as an         *)
(* operator on it.  The headers are kept twice, by the name that was given *)
(* and by the name in lower case; the parameters of the query are parsed   *)
(* when somebody asks for it.                                              *)
(*                                                                         *)
(* A name is a field and the spelling of it; paths and queries are         *)
(* sequences of characters; the value of a header is a number, what        *)
(* std::stoul makes of it, or one of the two values without one.           *)
(***************************************************************************)
EXTENDS Integers, Sequences, FiniteSetsExt

Invalid == -1       \* a value std::stoul throws for
Empty   == -2       \* the empty string, and EMPTY_STRING

\* The characters of a path or a query that matter, and one that does not.
Char == {"/", ".", "?", "&", "=", "a"}

\* Of the enumerators, enough to tell UNKNOWN from the others.
Methods  == {"GET", "POST", "UNKNOWN"}
Versions == {"HTTP_1_0", "HTTP_1_1", "UNKNOWN"}

NewRequest ==
    [method |-> "UNKNOWN", path |-> <<>>, version |-> "UNKNOWN", query |-> <<>>,
     headers |-> <<>>, lowercase |-> <<>>, body |-> <<>>, params |-> <<>>,
     parsed |-> FALSE]

\* f[k] = v of an unordered_map, and erase(k).
Put(f, k, v) == [x \in DOMAIN f \cup {k} |-> IF x = k THEN v ELSE f[x]]

Erase(f, k) == [x \in DOMAIN f \ {k} |-> f[x]]

-----------------------------------------------------------------------------
(* The request line. *)

SetMethod(r, method) == [r EXCEPT !.method = method]

SetPath(r, path) == [r EXCEPT !.path = path, !.parsed = FALSE]

SetVersion(r, version) == [r EXCEPT !.version = version]

\* The parameters have to be parsed again.
KeepParsed(r, query) == [r EXCEPT !.query = query]

SetQueryString(r, query) == [r EXCEPT !.query = query, !.parsed = FALSE]

IsValid(r) == r.method # "UNKNOWN" /\ r.version # "UNKNOWN" /\ r.path # <<>>

-----------------------------------------------------------------------------
(* Headers. *)

ToLower(name) == name.field

AddHeader(r, name, value) ==
    [r EXCEPT !.headers = Put(@, name, value),
              !.lowercase = Put(@, ToLower(name), value)]

\* Of two spellings of a field the one that the map yields last counts.
SetHeaders(r, headers) ==
    LET Fields == {ToLower(name) : name \in DOMAIN headers}
        Spelled(field) == {name \in DOMAIN headers : ToLower(name) = field}
        Lasts == {last \in [Fields -> DOMAIN headers] :
                      \A field \in Fields : last[field] \in Spelled(field)}
    IN  {[r EXCEPT !.headers = headers,
                   !.lowercase = [field \in Fields |-> headers[last[field]]]] :
             last \in Lasts}

\* The name must be spelled as it was; what is erased of headers_lowercase_
\* stands for every spelling.
RemoveSpelling(r, name) == [r EXCEPT !.headers = Erase(@, name)]

RemoveHeader(r, name) ==
    IF name \in DOMAIN r.headers
      THEN [r EXCEPT !.headers = Erase(@, name), !.lowercase = Erase(@, ToLower(name))]
      ELSE r

ClearHeaders(r) == [r EXCEPT !.headers = <<>>, !.lowercase = <<>>]

HasHeader(r, name) == ToLower(name) \in DOMAIN r.lowercase

GetHeader(r, name) == IF HasHeader(r, name) THEN r.lowercase[ToLower(name)] ELSE Empty

-----------------------------------------------------------------------------
(* The body. *)

SetBody(r, body) == [r EXCEPT !.body = body]

AppendBody(r, data) == [r EXCEPT !.body = @ \o data]

ClearBody(r) == [r EXCEPT !.body = <<>>]

ContentLength == [field |-> "length", spelling |-> "as sent"]

GetContentLength(r) ==
    LET length == GetHeader(r, ContentLength)
    IN  IF length = Empty THEN Len(r.body) ELSE IF length = Invalid THEN 0 ELSE length

-----------------------------------------------------------------------------
(* The query. *)

\* std::string::find, or the length of the string when there is none.
Find(s, c, from) == Min({i \in from .. Len(s) : s[i] = c} \cup {Len(s) + 1})

\* The pairs that begin at `from` or later, of which the later replace the
\* earlier; a piece without "=" is none.
ParseQueryString(query) ==
    LET Pairs[from \in 1 .. Len(query) + 2] ==
            LET end   == Find(query, "&", from)
                equal == Find(query, "=", from)
                key   == SubSeq(query, from, equal - 1)
                value == SubSeq(query, equal + 1, end - 1)
                later == Pairs[end + 1]
            IN  IF from > Len(query) THEN <<>>
                ELSE IF equal < end /\ key \notin DOMAIN later
                  THEN Put(later, key, value)
                  ELSE later
    IN  Pairs[1]

\* Nothing is done for an empty query: the parameters of the one before stay.
ParseQueryParameters(r) ==
    IF r.parsed \/ r.query = <<>> THEN r
    ELSE [r EXCEPT !.params = ParseQueryString(r.query), !.parsed = TRUE]

AddQueryParameter(r, key, value) == [r EXCEPT !.params = Put(@, key, value)]

-----------------------------------------------------------------------------
(* The parts of the path. *)

\* find_last_of, 0 for npos.
FindLast(s, c) == Max({i \in DOMAIN s : s[i] = c} \cup {0})

GetBasePath(r) ==
    IF FindLast(r.path, "/") = 0 THEN <<"/">>
    ELSE SubSeq(r.path, 1, FindLast(r.path, "/"))

GetFilename(r) == SubSeq(r.path, FindLast(r.path, "/") + 1, Len(r.path))

GetExtension(r) ==
    IF FindLast(r.path, ".") > FindLast(r.path, "/")
      THEN SubSeq(r.path, FindLast(r.path, ".") + 1, Len(r.path))
      ELSE <<>>
=============================================================================
