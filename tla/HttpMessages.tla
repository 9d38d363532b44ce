--------------------------- MODULE HttpMessages ---------------------------
(***************************************************************************)
(* What a message is, without a parser: a method and a url (or a status    *)
(* and a reason), a version, header fields (a name and the lines of its    *)
(* value, more than one if folded) and a payload, one piece or the chunks  *)
(* of a chunked body.  Wire gives what a peer sends for it, Expected what  *)
(* a listener should be told, both from the rules the comments of          *)
(* http_parser.c quote (RFC 7230, section 3.3).  answer is what the        *)
(* listener says to the headers: 1, there is no body; 2, nor another       *)
(* message.  A url is made of its parts.                                   *)
(***************************************************************************)
EXTENDS HttpTokens, FiniteSets, SequencesExt

CRLF == <<"CR", "LF">>
Without(s, S) == SelectSeq(s, LAMBDA v : v \notin S)
Map(s, Op(_)) == [i \in DOMAIN s |-> Op(s[i])]

-----------------------------------------------------------------------------
(* Values.                                                                 *)

\* A value without the blanks it begins with.
Stripped(v) ==
    LET begin == SelectInSeq(v, LAMBDA u : u \notin Blank)
    IN  IF begin = 0 THEN <<>> ELSE SubSeq(v, begin, Len(v))

\* The lines of a value unfolded: blank first lines are no part of it.
Unfolded(lines) ==
    Stripped(lines[1] \o FlattenSeq(Map(Tail(lines), LAMBDA l : <<"SP">> \o l)))

Value(f) == Unfolded(f.lines)

\* The number that digits stand for, without any bound on it.
Number(digits, base) ==
    LET n[i \in 0..Len(digits)] ==
            IF i = 0 THEN 0 ELSE n[i - 1] * base + Digit[digits[i]]
    IN  n[Len(digits)]

\* The elements of a list, one per comma and one more, without their blanks.
\* From an element on that begins with a TAB nobody looks at them: the code does
\* not skip it, although the rules and its own comment ("Skip lws") would.
Elements(v) ==
    LET commas == {i \in DOMAIN v : v[i] = ","}
        begins == {0} \cup commas
        ends(b) == {i \in commas \cup {Len(v) + 1} : b < i}
        end(b) == CHOOSE e \in ends(b) : \A i \in ends(b) : e <= i
        element(b) == SubSeq(v, b + 1, end(b) - 1)
        unseen(b) == \E c \in commas : c <= b /\ IsPrefix(<<"TAB">>, Without(element(c), {"SP"}))
    IN  {[at |-> b, word |-> IF unseen(b) THEN <<>> ELSE Without(element(b), Blank)] :
            b \in begins}

Lists(v, word) == \E e \in Elements(v) : e.word = <<word>>
EndsWith(v, word) ==
    \E e \in Elements(v) : e.word = <<word>> /\ \A o \in Elements(v) : o.at <= e.at

-----------------------------------------------------------------------------
(* Rules.                                                                  *)

Named(m, name) == {i \in DOMAIN m.fields : m.fields[i].name = <<name>>}
Lengths(m) == Named(m, "content_length")
Codings(m) == Named(m, "transfer_encoding")

\* A length is digits and blanks after them, and fits 64 bits.
Digits(v) == Without(v, {"SP"})
IsLength(v) == /\ v # <<>> /\ IsNum(v[1])
               /\ \A i \in DOMAIN v : IsNum(v[i]) \/ \A j \in i..Len(v) : v[j] = "SP"
               /\ Number(Digits(v), Base) < ULLONG_MAX

\* A field that must be refused on the spot.
Refused(m, i) ==
    /\ i \in Lengths(m)
    /\ ~IsLength(Value(m.fields[i])) \/ \E j \in Lengths(m) : j < i

Length(m) ==
    IF Lengths(m) = {} THEN 0
    ELSE Number(Digits(Value(m.fields[CHOOSE i \in Lengths(m) : TRUE])), Base)

\* The codings of all fields are one list; chunked must be its last.
IsChunked(m) ==
    \E i \in Codings(m) : /\ \A j \in Codings(m) : j <= i
                          /\ EndsWith(Value(m.fields[i]), "chunked")

IsResponse(m) == m.status # ""

\* Both framings, or, in a request, a coding that does not say where the body
\* ends.
Ambiguous(m) ==
    Codings(m) # {} /\ (Lengths(m) # {} \/ (~IsChunked(m) /\ ~IsResponse(m)))

\* The body of a response without a framing ends with the stream.
UntilEof(m) ==
    /\ IsResponse(m) /\ m.answer = 0 /\ m.status \notin {"100", "101", "204", "304"}
    /\ ~IsChunked(m) /\ (Codings(m) # {} \/ Lengths(m) = {})

Says(m, word) == \E i \in Named(m, "connection") : Lists(Value(m.fields[i]), word)

KeepsAlive(m) ==
    IF m.version = "HTTP/1.1" THEN ~Says(m, "close") ELSE Says(m, "keep_alive")

Exits(m) ==
    \/ m.method = "CONNECT" \/ m.answer = 2
    \/ /\ Named(m, "upgrade") # {} /\ Says(m, "upgrade")
       /\ IsResponse(m) => m.status = "101"

-----------------------------------------------------------------------------
(* The wire.                                                               *)

FieldWire(f, eol) ==
    f.name \o <<":", "SP">> \o f.lines[1] \o eol
        \o FlattenSeq(Map(Tail(f.lines), LAMBDA l : <<"SP">> \o l \o eol))

NoUrl == [schema |-> <<>>, userinfo |-> <<>>, host |-> <<>>, v6 |-> FALSE, port |-> <<>>,
          path |-> <<>>, query |-> <<>>, fragment |-> <<>>]

\* A url; a part that is absent has no delimiter.
UrlWire(u) ==
    LET after(delimiter, part) == IF part = <<>> THEN <<>> ELSE delimiter \o part
    IN  (IF u.schema = <<>> THEN <<>> ELSE u.schema \o <<":", "/", "/">>)
        \o (IF u.userinfo = <<>> THEN <<>> ELSE u.userinfo \o <<"@">>)
        \o (IF u.v6 THEN <<"[">> \o u.host \o <<"]">> ELSE u.host)
        \o after(<<":">>, u.port) \o u.path \o after(<<"?">>, u.query)
        \o after(<<"#">>, u.fragment)

StartLine(m) ==
    IF IsResponse(m)
    THEN <<m.version, "SP", m.status>> \o (IF m.reason = <<>> THEN <<>> ELSE <<"SP">> \o m.reason)
    ELSE <<m.method, "SP">> \o UrlWire(m.url)
            \o (IF m.version = "HTTP/0.9" THEN <<>> ELSE <<"SP", m.version>>)

HeadWire(m) ==
    StartLine(m) \o m.eol \o FlattenSeq(Map(m.fields, LAMBDA f : FieldWire(f, m.eol))) \o m.eol

\* Sizes of chunks of up to three units are one digit; m.chunkext may follow.
ChunkWire(data, m) ==
    <<(<<"d0", "d1", "d2", "d3">>)[Len(data) + 1]>> \o m.chunkext \o CRLF
        \o (IF data = <<>> THEN <<>> ELSE data \o CRLF)

TrailerWire(m) == FlattenSeq(Map(m.trailers, LAMBDA f : FieldWire(f, CRLF))) \o CRLF

BodyWire(m) ==
    IF m.chunks = <<>> THEN m.body
    ELSE FlattenSeq(Map(Append(m.chunks, <<>>), LAMBDA c : ChunkWire(c, m))) \o TrailerWire(m)

Wire(messages) == FlattenSeq(Map(messages, LAMBDA m : HeadWire(m) \o BodyWire(m)))

-----------------------------------------------------------------------------
(* What the listener should be told.                                       *)

Told(cb, data) == [cb |-> cb, data |-> data]
Tell(cb) == <<Told(cb, <<>>)>>

TellField(f) == <<Told("header_field", f.name), Told("header_value", Value(f))>>
TellFields(fs) == FlattenSeq(Map(fs, TellField))

BodyTold(m) ==
    IF m.chunks # <<>>
    THEN FlattenSeq(Map(m.chunks, LAMBDA c :
            Tell("chunk_header") \o <<Told("body", c)>> \o Tell("chunk_complete")))
         \o Tell("chunk_header") \o TellFields(m.trailers) \o Tell("chunk_complete")
    ELSE IF UntilEof(m) /\ m.body # <<>> THEN <<Told("body", m.body)>>
    ELSE IF Length(m) = 0 THEN <<>> ELSE <<Told("body", m.body)>>

\* The first field that is refused, or 0.
FirstRefused(m) == SelectInSeq([i \in DOMAIN m.fields |-> i], LAMBDA i : Refused(m, i))

Acceptable(m) == FirstRefused(m) = 0 /\ ~Ambiguous(m)

\* A head that is not acceptable is told up to what is wrong with it: the
\* name of a length that is refused (and, being a value, its digits if it is
\* only found to be wrong after a line of it), or the headers.
MessageTold(m) ==
    LET begin == Tell("message_begin")
                    \o <<IF IsResponse(m) THEN Told("status", m.reason)
                         ELSE Told("url", UrlWire(m.url))>>
        bad == FirstRefused(m)
    IN  IF bad # 0
        THEN begin \o TellFields(SubSeq(m.fields, 1, bad))
        ELSE begin \o TellFields(m.fields) \o
             (IF Ambiguous(m)
              THEN (IF Lengths(m) = {} THEN Tell("headers_complete") ELSE <<>>)
              ELSE Tell("headers_complete")
                   \o (IF m.method = "CONNECT" \/ m.answer # 0 THEN <<>> ELSE BodyTold(m))
                   \o Tell("message_complete"))

\* A connection ends with the first message that is wrong, closes or exits.
Stops(m) == ~Acceptable(m) \/ ~KeepsAlive(m) \/ Exits(m) \/ UntilEof(m)

Heeded(messages) ==
    LET stop == SelectInSeq(messages, Stops)
    IN  IF stop = 0 THEN messages ELSE SubSeq(messages, 1, stop)

Expected(messages) == FlattenSeq(Map(Heeded(messages), MessageTold))

\* Nothing in the stream is wrong: no head is too long and none follows a
\* message that closes.  The trailers of a message count with the next head,
\* as in the code.
Carried(m) == IF m.chunks = <<>> THEN 0 ELSE Len(TrailerWire(m))

Fine(messages) ==
    LET heard == Heeded(messages)
    IN  /\ \A i \in DOMAIN heard :
            /\ Acceptable(heard[i])
            /\ Len(HeadWire(heard[i])) + (IF i = 1 THEN 0 ELSE Carried(heard[i - 1]))
                    <= MaxHeaderSize
            /\ Carried(heard[i]) <= MaxHeaderSize
        /\ heard = messages \/ Exits(heard[Len(heard)])

\* A stream of these messages, with embedders of each type that can read it.
Stream(messages, type, pieces, pauses) ==
    [wire |-> Wire(messages), told |-> Expected(messages), fine |-> Fine(messages),
     whole |-> TRUE, url |-> messages[1].url, type |-> type, pieces |-> pieces,
     answer |-> messages[1].answer, pauses |-> pauses]

\* A stream with one unit replaced or dropped: nothing is expected.
Damaged(s, i, by) ==
    [s EXCEPT !.wire = SubSeq(@, 1, i - 1) \o by \o SubSeq(@, i + 1, Len(@)),
              !.told = <<>>, !.fine = FALSE, !.whole = FALSE, !.url = NoUrl]
=============================================================================
