--------------------------- MODULE HttpRequest ---------------------------
(***************************************************************************)
(* The callbacks and parse_request of http_request.c: what struct          *)
(* http_request holds after the calls of one http_parser_execute.  The     *)
(* callbacks do not change the parser and always return 0, so the request  *)
(* is a function of the calls.  parse_request makes one call, with all the *)
(* bytes parse_request_data has read: its properties are about a call that *)
(* was given a whole stream.                                               *)
(***************************************************************************)
EXTENDS HttpParser, HttpUrl, HttpMessages

\* What sprintf "%.*s" writes of data: it stops at a NUL.
CString(data) ==
    LET nuls == {i \in DOMAIN data : data[i] = "NUL"}
    IN  IF nuls = {} THEN data ELSE SubSeq(data, 1, Min(nuls) - 1)

\* request_new: everything zeroed; -1 is a null body.
Blanked == [url |-> <<>>, headers |-> <<>>, body |-> <<-1>>,
            header_field |-> <<>>, last_call_was_on_header_field |-> FALSE]

\* on_message_begin and on_headers_complete.
Forget(r) == [r EXCEPT !.header_field = <<>>, !.last_call_was_on_header_field = FALSE]

\* (No url and no name has a NUL.)
on_url(r, data) == [r EXCEPT !.url = data]

on_header_field(r, data) ==
    [r EXCEPT !.header_field = data, !.last_call_was_on_header_field = TRUE]

\* Mutant: the first value of a field stays.
KeepFirstValue(r, data) ==
    [r EXCEPT
        !.headers = IF r.last_call_was_on_header_field
                    THEN @ @@ (r.header_field :> CString(data)) ELSE @,
        !.last_call_was_on_header_field = FALSE]

\* hashmap_set replaces the value of a field that is there already.
set_or_append_header(headers, field, value) ==
    [f \in DOMAIN headers \cup {field} |-> IF f = field THEN value ELSE headers[f]]

on_header_value(r, data) ==
    [r EXCEPT
        !.headers = IF r.last_call_was_on_header_field
                    THEN set_or_append_header(@, r.header_field, CString(data)) ELSE @,
        !.last_call_was_on_header_field = FALSE]

\* A new body each time.
on_body(r, data) == [r EXCEPT !.body = CString(data)]

OnCallback(r, c) ==
    CASE c.cb \in {"message_begin", "headers_complete"} -> Forget(r)
      [] c.cb = "url" -> on_url(r, c.data)
      [] c.cb = "header_field" -> on_header_field(r, c.data)
      [] c.cb = "header_value" -> on_header_value(r, c.data)
      [] c.cb = "body" -> on_body(r, c.data)
      [] c.cb \in {"status", "chunk_header", "chunk_complete", "message_complete"} -> r

\* What the three sscanf find in the url: all of it before the first "?", what
\* follows that, and whether three letters after the first "." are those of a
\* script.  A set of characters that is skipped has at least one.
Split(r) ==
    LET dot == SelectInSeq(r.url, LAMBDA u : u = ".")
        mark == SelectInSeq(r.url, LAMBDA u : u = "?")
    IN  [url |-> r.url, headers |-> r.headers, body |-> r.body,
         path |-> IF mark = 0 THEN r.url ELSE SubSeq(r.url, 1, mark - 1),
         query_string |-> IF mark > 1 THEN SubSeq(r.url, mark + 1, Len(r.url)) ELSE <<>>,
         is_cgi |-> dot > 1 /\ dot < Len(r.url) /\ r.url[dot + 1] = "cgi"]

\* The request after parse_request.
Request ==
    LET after[i \in 0..Len(calls)] ==
            IF i = 0 THEN Blanked ELSE OnCallback(after[i - 1], calls[i])
    IN  Split(after[Len(calls)])

\* parse_request has returned 0 for all of the stream.
Parsed == Ended /\ first = 1 /\ fed > 0 /\ whole /\ ~over

-----------------------------------------------------------------------------
(* Properties.                                                             *)

Count(cb) == Cardinality({i \in DOMAIN calls : calls[i].cb = cb})

\* OncePerField: on_header_value is called as often as there are fields, as
\* the comment in http_request.h has it.
OncePerField == Parsed => Count("header_value") = Count("header_field")

\* The fields that were sent: the last value of each name.
SentFields ==
    LET names == {i \in DOMAIN stream.told : stream.told[i].cb = "header_field"}
        last(n) == CHOOSE i \in names : /\ stream.told[i].data = n
                                        /\ \A j \in names : stream.told[j].data = n => j <= i
    IN  [n \in {stream.told[i].data : i \in names} |-> stream.told[last(n) + 1].data]

Sent(cb) == SelectSeq(stream.told, LAMBDA c : c.cb = cb)

\* A script is named by the end of its path, if nothing else has a dot.
Dots(s) == {i \in DOMAIN s : s[i] = "."}
IsScript(path) == \E n \in 2..(Len(path) - 1) : SubSeq(path, n, Len(path)) = <<".", "cgi">>

\* StoresTheRequest: after parse_request the map holds every field of the
\* request with the (last) value that was sent, the url is the one that was
\* sent, and so is the body up to the first NUL in it: if there was one
\* request, no field of it is folded and the body is in one piece.  Of a url
\* that is a path, with or without a query, the path and the query are told
\* apart as http_parser_parse_url does, and a script is known by its extension.
StoresTheRequest ==
    Parsed /\ stream.fine /\ stream.type = "HTTP_REQUEST" /\ OncePerField =>
        /\ Request.headers = SentFields
        /\ Len(Sent("url")) = 1 =>
              /\ Request.url = Sent("url")[1].data
              /\ LET url == stream.url IN
                 url.schema \o url.host \o url.fragment = <<>> =>
                    /\ Request.path = url.path /\ Request.query_string = url.query
                    /\ IsScript(url.path) /\ Cardinality(Dots(url.path)) = 1 => Request.is_cgi
                    /\ Dots(url.path) = {} /\ Dots(url.query) = {} => ~Request.is_cgi
        /\ Len(Sent("body")) = 0 => Request.body = <<-1>>
        /\ Len(Sent("body")) = 1 => Request.body = CString(Sent("body")[1].data)

\* FieldsStored: whatever parse_request was given, a whole request, several, a
\* part of one or nonsense, the map has every field of which a value was told,
\* under its own name, with the first line of the last value told for that name
\* (as far as its first NUL), and nothing else; the url is the last that was
\* told, and the body the last as far as its first NUL.
FieldsStored ==
    p = 0 /\ first = 1 =>
        LET told(cb) == {i \in DOMAIN calls : calls[i].cb = cb}
            named == told("header_field") \ {Len(calls)}
            latest(n) == Max({i \in named : calls[i].data = n})
        IN  /\ \A i \in named : calls[i + 1].cb = "header_value"
            /\ Request.headers =
                  [n \in {calls[i].data : i \in named} |->
                        CString(calls[latest(n) + 1].data)]
            /\ told("url") # {} => Request.url = calls[Max(told("url"))].data
            /\ told("body") # {} => Request.body = CString(calls[Max(told("body"))].data)

\* The url of the first message, when all of it has been told; whether offsets
\* in it, and lengths, fit their 16 bits.
UrlTold == Len(heard) > 2 /\ heard[2].cb = "url"
IsConnect == stream.wire[1] = "CONNECT"
OffsetsFit(buf) == Len(buf) <= UINT16_MAX
ParsedUrl == http_parser_parse_url(heard[2].data, IsConnect)

\* The field of a part, and the parts of a url that may be put together.
Parts(url) ==
    [UF_SCHEMA |-> url.schema, UF_USERINFO |-> url.userinfo, UF_HOST |-> url.host,
     UF_PORT |-> url.port, UF_PATH |-> url.path, UF_QUERY |-> url.query,
     UF_FRAGMENT |-> url.fragment]
Present(url) == {f \in UrlFields : Parts(url)[f] # <<>>}

WellFormed(url) ==
    /\ Present(url) \cap {"UF_SCHEMA", "UF_USERINFO", "UF_PORT"} # {} => url.host # <<>>
    /\ Number(url.port, Base) <= MaxPort
    /\ IsConnect => Present(url) = {"UF_HOST", "UF_PORT"}

Offset(url, f) == url.field_data[f].off
Units(url, f) == Offset(url, f)..(Offset(url, f) + url.field_data[f].len - 1)
FieldOrder == <<"UF_SCHEMA", "UF_USERINFO", "UF_HOST", "UF_PORT", "UF_PATH", "UF_QUERY",
                "UF_FRAGMENT">>

\* The fields are parts of the url in this order, none is empty, none touches
\* another but the path, and between them are delimiters.
Placed(buf, url) ==
    LET units == UNION {Units(url, f) : f \in url.field_set}
    IN  /\ units \subseteq DOMAIN buf
        /\ \A f \in url.field_set : Units(url, f) # {}
        /\ \A i \in DOMAIN buf \ units : buf[i] \in {":", "/", "@", "[", "]", "?", "#"}
        /\ \A i, j \in DOMAIN FieldOrder :
              i < j /\ {FieldOrder[i], FieldOrder[j]} \subseteq url.field_set =>
                \A m \in Units(url, FieldOrder[i]), n \in Units(url, FieldOrder[j]) :
                    IF FieldOrder[j] = "UF_PATH" THEN m < n ELSE m + 1 < n
        /\ "UF_PATH" \in url.field_set => buf[Offset(url, "UF_PATH")] \in {"/", "*"}
        /\ "UF_PORT" \in url.field_set => buf[Offset(url, "UF_PORT") - 1] = ":"
        /\ "UF_QUERY" \in url.field_set => buf[Offset(url, "UF_QUERY") - 1] = "?"
        /\ "UF_FRAGMENT" \in url.field_set => buf[Offset(url, "UF_FRAGMENT") - 1] = "#"

\* The parts that are told of buf are those it was made of.
PartsFound(buf, url) ==
    /\ ~WellFormed(stream.url) => url = Refusal
    /\ WellFormed(stream.url) =>
          /\ url # Refusal /\ url.field_set = Present(stream.url)
          /\ url.port = Number(stream.url.port, Base)
          /\ \A f \in Present(stream.url) :
                SubSeq(buf, Offset(url, f), Offset(url, f) + url.field_data[f].len - 1)
                    = Parts(stream.url)[f]

\* UrlParts: of a url that http_parser_execute has told, and whose offsets fit
\* their 16 bits, http_parser_parse_url finds the parts it was made of, and
\* refuses it if the port is too large, or if a CONNECT has more or less than
\* a host and a port.
UrlParts ==
    Ended /\ UrlTold /\ stream.url # NoUrl /\ OffsetsFit(heard[2].data) =>
        PartsFound(heard[2].data, ParsedUrl)

\* FieldsPlaced: whatever url (shorter than 65536 bytes) http_parser_parse_url
\* does not refuse, the fields it finds lie in the url (as its assertion has it
\* of the port), in order, and leave out nothing but delimiters.
FieldsPlaced ==
    Ended /\ UrlTold /\ ParsedUrl # Refusal /\ OffsetsFit(heard[2].data) =>
        Placed(heard[2].data, ParsedUrl)

\* The units a field may not hold: its delimiters, and what no url has.
Foreign ==
    [UF_SCHEMA |-> {":", "/"}, UF_USERINFO |-> {"@", "/", "?", "#"},
     UF_HOST |-> {"@", "/", "?", "#", "[", "]"}, UF_PORT |-> {":", "/", "?", "#"},
     UF_PATH |-> {"?", "#"}, UF_QUERY |-> {"#"}, UF_FRAGMENT |-> {}]
NoUrlUnits == {"SP", "TAB", "CR", "LF", "NUL"}

\* No field holds a unit that ends it or that no url has, and the port is the
\* number that its digits stand for.
ReadRight(buf, url) ==
    LET port == url.field_data["UF_PORT"]
    IN  /\ \A f \in url.field_set : \A i \in Units(url, f) :
              buf[i] \notin Foreign[f] \cup NoUrlUnits
        /\ url.port <= MaxPort
        /\ IF "UF_PORT" \in url.field_set
           THEN /\ \A i \in Units(url, "UF_PORT") : IsNum(buf[i])
                /\ url.port = Number(SubSeq(buf, port.off, port.off + port.len - 1), Base)
           ELSE url.port = 0

\* FieldsRead: of whatever url (shorter than 65536 bytes) is not refused, no
\* field holds a delimiter that ends it, the port has only digits (which the
\* loop over it takes as given), and the number told is the one they stand for,
\* which 16 bits can hold.
FieldsRead ==
    Ended /\ UrlTold /\ ParsedUrl # Refusal /\ OffsetsFit(heard[2].data) =>
        ReadRight(heard[2].data, ParsedUrl)

\* What is told of a url that is not refused is in its place and right.
Understood(buf, url) == url # Refusal => Placed(buf, url) /\ ReadRight(buf, url)

\* UrlRead: of a url of any bytes, as long as its offsets fit 16 bits, that is
\* not refused, the fields found are the url without its delimiters, cut where
\* the delimiters say: FieldsPlaced and FieldsRead.
UrlRead == Ended /\ UrlTold /\ OffsetsFit(heard[2].data) => Understood(heard[2].data, ParsedUrl)
=============================================================================
