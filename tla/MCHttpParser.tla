--------------------------- MODULE MCHttpParser ---------------------------
(* Streams for HttpParser: requests and responses with up to three header   *)
(* fields, two messages on a connection, urls of all parts, of a few        *)
(* arbitrary units and longer than their offsets, blanks before and in      *)
(* values, NULs in bodies, and streams damaged in one place.                *)
EXTENDS HttpRequest

Field(name, lines) == [name |-> name, lines |-> lines]

Ordinary == {Field(<<"x">>, << <<"x", "x">> >>), Field(<<"x", "d0">>, << <<>> >>),
             Field(<<"x">>, << <<"x">>, <<"d0">> >>), Field(<<"x">>, << <<>>, <<"x">> >>)}
LengthFields ==
    {Field(<<"content_length">>, l) :
        l \in {<< <<"d0">> >>, << <<"d2">> >>, << <<"d1", "d0", "SP">> >>, << <<>>, <<"d1">> >>,
               << <<"d1">>, <<"d1">> >>, << <<"d1", "x">> >>, << <<>> >>,
               << <<"d1", "d2", "d1">> >>, << <<"d1", "SP", "d1">> >>}}
CodingFields ==
    {Field(<<"transfer_encoding">>, l) :
        l \in {<< <<"chunked">> >>, << <<"x", ",", "SP", "chunked">> >>,
               << <<"chunked", ",", "x">> >>, << <<"x", ",">>, <<"chunked">> >>}}
Coding(w) == Field(<<"transfer_encoding">>, << <<w>> >>)
ConnectionFields ==
    {Field(<<"connection">>, l) :
        l \in {<< <<"close">> >>, << <<"keep_alive", ",", "close", "SP">> >>,
               << <<"keep_alive">> >>, << <<"x", ",", "SP", "upgrade">> >>,
               << <<"close", "x">> >>}}
UpgradeField == Field(<<"upgrade">>, << <<"x">> >>)

\* TABs where a value may have them and the parser takes them as blanks, and
\* after commas, where it does not.
TabbedFields ==
    {Field(<<n>>, <<l>>) :
        n \in {"x", "transfer_encoding"}, l \in {<<"TAB", "chunked">>, <<"x", "TAB", ",", "chunked">>}}
    \cup {Field(<<"x">>, << <<"TAB">>, <<"x", "TAB">> >>),
          Field(<<"connection">>, << <<"TAB", "close">> >>),
          Field(<<"connection">>, << <<"x", "TAB", ",", "SP", "upgrade">> >>),
          Field(<<"connection">>, << <<"x", ",", "SP", "TAB", "upgrade", ",", "close">> >>),
          Field(<<"connection">>, << <<"keep_alive", ",", "TAB", "close">> >>),
          Field(<<"connection">>, << <<"close", ",", "TAB", "x">> >>),
          Field(<<"transfer_encoding">>, << <<"x", ",", "TAB", "chunked">> >>),
          Field(<<"transfer_encoding">>, << <<"x", ",", "TAB", "x", ",", "chunked">> >>),
          Field(<<"transfer_encoding">>, << <<"chunked", ",", "TAB", "x">> >>),
          Field(<<"content_length">>, << <<"TAB", "d2">> >>)}

Fields == Ordinary \cup LengthFields \cup CodingFields \cup ConnectionFields \cup {UpgradeField}
FieldSeqs ==
    UNION {{<<>>}, {<<f>> : f \in Fields \cup TabbedFields},
           {<<f, g>> : f \in LengthFields, g \in LengthFields \cup CodingFields},
           {<<f, g>> : f \in CodingFields, g \in LengthFields},
           {<<Coding("x"), Coding(w)>> : w \in {"x", "chunked"}},
           {<<f, g>> : f \in ConnectionFields,
                g \in {UpgradeField, Field(<<"content_length">>, << <<"d2">> >>),
                       Field(<<"transfer_encoding">>, << <<"chunked">> >>)}},
           {<<Field(<<"x">>, << <<"x">> >>), Field(<<"x">>, << <<"d0">> >>)>>,
            <<Field(<<"connection">>, << <<"upgrade">> >>), UpgradeField,
              Field(<<"content_length">>, << <<"d2">> >>)>>}}

Payload == <<"CR", "LF", "x">>
AnyMessage ==
    [method |-> "", url |-> NoUrl, version |-> "HTTP/1.1", eol |-> CRLF, status |-> "",
     reason |-> <<>>, answer |-> 0, fields |-> <<>>, body |-> <<>>, chunks |-> <<>>,
     chunkext |-> <<>>, trailers |-> <<>>]

\* A message with a body as its fields announce it (unless it has one), so
\* that one that must be refused would be accepted by a parser that misses why.
WithBody(m) ==
        IF m.answer # 0 \/ m.body # <<>> \/ m.chunks # <<>> THEN m
        ELSE IF IsChunked(m)
        THEN [m EXCEPT !.chunks = <<Payload, <<"x">> >>, !.chunkext = <<";", "x">>,
                       !.trailers = <<Field(<<"x">>, << <<"x">> >>)>>]
        ELSE IF ~Acceptable(m) \/ UntilEof(m) THEN [m EXCEPT !.body = <<"x">>]
        ELSE [m EXCEPT !.body = SubSeq(Payload, 1, Length(m))]

\* Urls by their parts, those of them that are a path and a query first.
Path(path, query) == [NoUrl EXCEPT !.path = path, !.query = query]
Root == Path(<<"/", "x">>, <<>>)

Message(method, version, eol, fields) ==
    [AnyMessage EXCEPT !.method = method, !.url = Root, !.version = version, !.eol = eol,
                       !.fields = fields]
Reply(version, status, fields, answer) ==
    [AnyMessage EXCEPT !.status = status, !.version = version, !.answer = answer,
                       !.fields = fields,
                       !.reason = IF status = "204" THEN <<>> ELSE <<"x", "SP">>]

WithUrl(url, method) == [Message(method, "HTTP/1.1", CRLF, <<>>) EXCEPT !.url = url]
Simple == Message("GET", "HTTP/1.1", CRLF, <<>>)

\* Bodies with a NUL.
Nuls ==
    {[Message("POST", "HTTP/1.1", CRLF, <<Field(<<"content_length">>, << <<"d2">> >>)>>)
        EXCEPT !.body = b] : b \in {<<"x", "NUL">>, <<"NUL", "x">>}}
    \cup {[Message("POST", "HTTP/1.1", CRLF, <<Coding("chunked")>>)
            EXCEPT !.chunks = << <<"x", "NUL", "x">> >>]}

\* All the header fields in all their combinations.
Posts == {Message("POST", "HTTP/1.1", CRLF, fs) : fs \in FieldSeqs}

\* Those of a coding before a body in chunks: where it is not seen behind its
\* TAB, a parser that does see it would accept them.
Tabbed ==
    {[Message("POST", "HTTP/1.1", CRLF, <<f>>) EXCEPT !.chunks = <<Payload>>] :
        f \in {g \in TabbedFields : g.name = <<"transfer_encoding">>}}

\* Methods, versions and ends of lines.
Others ==
    {Message(m, v, e, fs) :
        m \in {"GET", "CONNECT"}, v \in {"HTTP/0.9", "HTTP/1.0", "HTTP/1.1"},
        e \in {CRLF, <<"LF">>},
        fs \in {<<>>, <<Field(<<"connection">>, << <<"keep_alive">> >>)>>,
                <<Field(<<"x">>, << <<"x">> >>), Field(<<"content_length">>, << <<"d2">> >>)>>}}

Pages == {Path(path, q) : path \in {<<"/">>, <<"*">>, <<"/", ".", "cgi">>, <<"/", "x", ".", "cgi">>,
                                <<"/", "x", ".", "x", "/", "cgi">>},
                         q \in {<<>>, <<"x">>, <<"?", "cgi">>, <<"x", ".", "cgi">>}}
Absolute ==
    {[schema |-> <<"x", "x">>, userinfo |-> u, host |-> h, v6 |-> ":" \in Range(h), port |-> n,
      path |-> path, query |-> q, fragment |-> f] :
        u \in {<<>>, <<"x", ":", "d1">>}, h \in {<<>>, <<"x", ".", "d1">>, <<":", "d1">>,
                                                <<":", ".", "%", "x", "%">>},
        n \in {<<>>, <<"d2">>, <<"d2", "d1">>, <<"d2", "d2">>}, path \in {<<>>, <<"/", "@">>},
        q \in {<<>>, <<"?">>}, f \in {<<>>, <<"/", "#">>}}
Authorities == {[u EXCEPT !.schema = <<>>, !.query = <<>>, !.fragment = <<>>] : u \in Absolute}

\* Responses: to GET, HEAD (1) and to a CONNECT or an upgrade (2).
Replies ==
    {Reply("HTTP/1.1", "200", fs, 0) : fs \in FieldSeqs}
        \cup {Reply("HTTP/1.1", "200", <<f>>, 1) : f \in Fields}
        \cup {Reply(v, s, fs, 0) :
                v \in Versions, s \in {"100", "101", "200", "204", "304"},
                fs \in {<<>>, <<Coding("chunked")>>, <<UpgradeField>>,
                        <<Field(<<"connection">>, << <<"upgrade">> >>), UpgradeField>>,
                        <<Field(<<"connection">>, << <<"keep_alive">> >>)>>}}
        \cup {Reply("HTTP/1.1", "304", <<Field(<<"content_length">>, << <<"d2">> >>)>>, a) :
                a \in {1, 2}}

Ok == Reply("HTTP/1.1", "200", <<Field(<<"content_length">>, << <<"d0">> >>)>>, 0)
Then(m) == IF UntilEof(m) THEN <<m>> ELSE <<m, [Ok EXCEPT !.answer = m.answer]>>

\* One part of the head longer than max_header_size, alone.
Xs == [i \in 1..(MaxHeaderSize + 1) |-> "x"]
Long ==
    {WithUrl(Path(<<"/">> \o Xs, <<>>), "GET")}
        \cup {Message("GET", "HTTP/1.1", e, <<f>>) :
                e \in {CRLF, <<"LF">>},
                f \in {Field(<<"x">>, <<Xs>>), Field(Xs, << <<"x">> >>)}}

\* Urls that are too long for 16 bits (here four): of a path its length wraps,
\* of an authority the offset of its port.
Many(n) == [i \in 1..n |-> "x"]
Lengthy ==
    {[Message("GET", "HTTP/0.9", <<"LF">>, <<>>) EXCEPT !.url = u] :
        u \in {Path(<<"/">> \o Many(n), <<>>) : n \in {UINT16_MAX, UINT16_MAX + 1}} \cup
              {[NoUrl EXCEPT !.schema = <<"x">>, !.userinfo = Many(n), !.host = <<"x">>,
                             !.port = <<"d1">>] : n \in {UINT16_MAX - 6, UINT16_MAX - 5}}}

\* Of a request line http_parser_execute takes a fragment only after a path or
\* a query, and no schema alone.
Taken(u) ==
    /\ UrlWire(u) # <<>>
    /\ u.userinfo # <<>> \/ u.port # <<>> => u.host # <<>>
    /\ u.fragment # <<>> \/ u.host = <<>> => u.path # <<>> \/ u.query # <<>>
Urls == {WithUrl(u, "GET") : u \in {v \in Pages \cup Absolute : Taken(v)}}
            \cup {WithUrl(u, "CONNECT") : u \in {v \in Authorities : Taken(v)}}

Pairs == {<<m, Simple>> : m \in Posts}

-----------------------------------------------------------------------------
(* Streams.                                                                *)

\* Messages for a parser of some type, cut into pieces, for an embedder that
\* may pause it; and whether they are sent with one unit damaged too.
Plan(lists, type, pieces, pauses, spoilt) ==
    [messages : lists, type : {type}, pieces : {pieces}, pauses : {pauses}, spoilt : {spoilt}]

Plans ==
    UNION {Plan({<<m, Simple>> : m \in Others \cup Long}, "HTTP_REQUEST", {1, 5}, FALSE, FALSE),
           Plan(Pairs, "HTTP_REQUEST", {1, 5}, FALSE, FALSE),
           Plan({<<m>> : m \in Posts}, "HTTP_REQUEST", {5}, FALSE, FALSE),
           Plan(Pairs, "HTTP_REQUEST", {5}, TRUE, FALSE),
           Plan({Then(m) : m \in Replies}, "HTTP_RESPONSE", {1, 5}, FALSE, FALSE),
           Plan({Then(m) : m \in Replies}, "HTTP_RESPONSE", {5}, TRUE, FALSE),
           Plan({<<m>> : m \in Urls \cup Lengthy \cup Nuls \cup Tabbed}, "HTTP_REQUEST", {}, FALSE, FALSE),
           \* Embedders that wait for the first message to know what they read.
           Plan({<<Simple, Simple>>, <<Message("HEAD", "HTTP/1.1", CRLF, <<>>), Simple>>,
                 <<Ok, Ok>>, <<Reply("HTTP/1.0", "200", <<>>, 0)>>},
                "HTTP_BOTH", {1}, FALSE, FALSE),
           Plan({<<Message("POST", "HTTP/1.1", CRLF,
                           <<Field(<<"x">>, << <<"x">>, <<"x">> >>),
                             Field(<<"content_length">>, << <<"d2">> >>)>>), Simple>>,
                 <<Message("POST", "HTTP/1.1", CRLF, <<Coding("chunked")>>)>>},
                "HTTP_REQUEST", {7}, FALSE, TRUE),
           Plan({<<Reply("HTTP/1.1", "200", <<Coding("chunked")>>, 0), Ok>>},
                "HTTP_RESPONSE", {7}, FALSE, TRUE)}

\* The heads that pausing embedders get are short: a parser that is paused
\* forgets what it has counted, so that it refuses no head that is too long.
Short(messages) ==
    \A i \in DOMAIN messages :
        LET before == IF i = 1 THEN 0 ELSE Carried(messages[i - 1])
        IN  Len(HeadWire(messages[i])) + before + Carried(messages[i]) < MaxHeaderSize
Sound ==
    {plan \in {[r EXCEPT !.messages = Map(@, WithBody)] : r \in Plans} :
        plan.pauses => Short(plan.messages)}

\* As it is, and with one unit replaced or dropped.
Variants(s, spoilt) ==
    {s} \cup {Damaged(s, i, by) :
                i \in IF spoilt THEN DOMAIN s.wire ELSE {},
                by \in {<<>>} \cup {<<u>> : u \in {"CR", "LF", "SP", "TAB", ":", "x", "NUL", "d2"}}}

\* A stream of which nothing in particular is expected.
Unforeseen(wire, type, pauses) ==
    [wire |-> wire, told |-> <<>>, fine |-> FALSE, whole |-> FALSE, url |-> NoUrl,
     type |-> type, pieces |-> {}, answer |-> 0, pauses |-> pauses]

\* Requests for urls of up to three arbitrary units, wherever one may begin.
Strings(S, n) == UNION {[1..k -> S] : k \in 1..n}
UrlUnits == {"x", "d2", ":", "/", "?", "#", "@", "[", "]", "%"}
StrangeUrls ==
    {Unforeseen(<<start[1], "SP">> \o Tail(start) \o u \o <<"SP", "HTTP/1.1", "LF", "LF">>,
                "HTTP_REQUEST", FALSE) :
        start \in {<<"GET", "/">>, <<"GET", "x", ":", "/", "/">>, <<"CONNECT">>},
        u \in Strings(UrlUnits, 3)}

\* Statuses that come digit by digit, and messages for a parser that waits for
\* those of the other type.
StrangeReplies ==
    {Unforeseen(<<"HTTP/1.1", "SP">> \o code \o <<"LF", "LF">>, "HTTP_RESPONSE", FALSE) :
        code \in Strings({"d0", "d2", "204"}, 3)}
    \cup {Unforeseen(<<start, "SP", "204", "LF", "LF">>, type, pauses) :
            start \in {"HTTP/1.1", "HEAD"}, type \in {"HTTP_REQUEST", "HTTP_RESPONSE"},
            pauses \in BOOLEAN}

MCStreams ==
    StrangeUrls \cup StrangeReplies \cup
    UNION {Variants(x.s, x.spoilt) :
        x \in {[s |-> Stream(r.messages, r.type, r.pieces, r.pauses), spoilt |-> r.spoilt] :
                    r \in Sound}}

FoldedStreams ==
    {Stream(<<Message("GET", "HTTP/1.1", CRLF, <<Field(<<"x">>, << <<"x">>, <<"d0">> >>)>>)>>,
            "HTTP_REQUEST", {}, FALSE)}

CodingStreams ==
    {Stream(<<[Message("POST", "HTTP/1.1", CRLF, <<Coding("chunked"), Coding("x")>>)
                EXCEPT !.chunks = <<Payload>>]>>, "HTTP_REQUEST", {}, FALSE)}
=============================================================================
