---------------------------- MODULE HttpParser ----------------------------
(***************************************************************************)
(* http_parser_execute of http_parser.c in strict mode, as server.c builds *)
(* it, for requests (which is what server.c uses it for) and responses.  A *)
(* stream of units is given to the parser in pieces, one call of           *)
(* http_parser_execute for each.  An action is one pass through the        *)
(* switch: p is the index of the unit it looks at, redo says that it came  *)
(* by REEXECUTE (the unit was counted already).  parser is struct          *)
(* http_parser; its state stands for CURRENT_STATE() and its nread for the *)
(* local copy, whose original is stored.                                   *)
(*                                                                         *)
(* calls are the callbacks made by the current (or last) call, heard those *)
(* of all calls with consecutive pieces of the same element joined.  The   *)
(* callbacks of http_request.c return 0; other embedders may answer        *)
(* on_headers_complete with 1 or 2, or pause the parser in each callback.  *)
(***************************************************************************)
EXTENDS HttpTokens, FiniteSets, SequencesExt

\* What a peer sends (wire) and how the embedder treats it: the type it gave
\* http_parser_init, the sizes of its pieces (beside all that is left), its
\* answer to on_headers_complete and whether it pauses.
CONSTANT Streams

ASSUME StreamsAssumption ==
    \A s \in Streams : /\ s.type \in {"HTTP_REQUEST", "HTTP_RESPONSE", "HTTP_BOTH"}
                       /\ s.wire \in Seq(STRING) /\ s.pieces \subseteq Nat \ {0}
                       /\ s.answer \in 0..2 /\ s.pauses \in BOOLEAN

VARIABLES
    stream,         \* the stream being parsed
    first, fed,     \* the current (or last) piece is first..fed
    p, redo,        \* where the parser is; p is 0 between calls
    marks,          \* the local pointers url_mark, ..., 0 for NULL
    parser,         \* struct http_parser
    whole,          \* the last call returned the length of its piece
    over,           \* the parser was told that the stream is over
    calls, heard    \* see above

vars == <<stream, first, fed, p, redo, marks, parser, whole, over, calls, heard>>

-----------------------------------------------------------------------------
(* Types.                                                                  *)

UrlStates ==
    {"s_req_schema", "s_req_schema_slash", "s_req_schema_slash_slash",
     "s_req_server_start", "s_req_server", "s_req_server_with_at", "s_req_path",
     "s_req_query_string_start", "s_req_query_string",
     "s_req_fragment_start", "s_req_fragment"}

\* States of a url that a space or the end of the line may follow.
UrlEndStates == UrlStates \ {"s_req_schema", "s_req_schema_slash",
                             "s_req_schema_slash_slash", "s_req_server_start"}

BodyStates ==
    {"s_chunk_data", "s_chunk_data_almost_done", "s_chunk_data_done",
     "s_body_identity", "s_body_identity_eof", "s_message_done"}

HeaderLineStates ==
    {"s_dead", "s_start_req_or_res", "s_start_res", "s_res_http_end",
     "s_res_H", "s_res_first_status_code", "s_res_status_code", "s_res_status_start",
     "s_res_status", "s_res_line_almost_done", "s_start_req", "s_req_method",
     "s_req_spaces_before_url", "s_req_http_start", "s_req_http_end", "s_req_line_almost_done",
     "s_header_field_start", "s_header_field", "s_header_value_discard_ws",
     "s_header_value_discard_ws_almost_done", "s_header_value_discard_lws",
     "s_header_value_start", "s_header_value", "s_header_value_lws",
     "s_header_almost_done", "s_chunk_size_start", "s_chunk_size",
     "s_chunk_parameters", "s_chunk_size_almost_done",
     "s_headers_almost_done", "s_headers_done"}

HeaderStates ==
    {"h_general", "h_content_length", "h_content_length_num", "h_content_length_ws",
     "h_connection", "h_transfer_encoding", "h_upgrade",
     "h_matching_transfer_encoding_token_start", "h_matching_transfer_encoding_token",
     "h_matching_connection_token_start", "h_matching_connection_token",
     "h_transfer_encoding_chunked", "h_connection_keep_alive",
     "h_connection_close", "h_connection_upgrade"}

Flags == {"F_CHUNKED", "F_CONNECTION_KEEP_ALIVE", "F_CONNECTION_CLOSE",
          "F_CONNECTION_UPGRADE", "F_TRAILING", "F_UPGRADE", "F_SKIPBODY",
          "F_CONTENTLENGTH"}

Codes == 0..999

Marked == {"url", "status", "header_field", "header_value", "body"}
NoMarks == [m \in Marked |-> 0]

Parsers ==
    [type : {"HTTP_REQUEST", "HTTP_RESPONSE", "HTTP_BOTH"}, status_code : Codes,
     state : UrlStates \cup BodyStates \cup HeaderLineStates,
     header_state : HeaderStates, flags : SUBSET Flags,
     uses_transfer_encoding : BOOLEAN, content_length : 0..ULLONG_MAX,
     nread : Nat, stored : Nat, version : Versions \cup {"HTTP/0.9"}, method : Methods,
     upgrade : BOOLEAN,
     errno : {"OK", "PAUSED", "INVALID_EOF_STATE", "INVALID_STATUS", "HEADER_OVERFLOW",
              "CLOSED_CONNECTION", "INVALID_VERSION", "INVALID_METHOD", "INVALID_URL", "LF_EXPECTED",
              "INVALID_HEADER_TOKEN", "INVALID_CONTENT_LENGTH", "STRICT",
              "UNEXPECTED_CONTENT_LENGTH", "INVALID_CHUNK_SIZE",
              "INVALID_CONSTANT", "INVALID_TRANSFER_ENCODING"}]

-----------------------------------------------------------------------------
(* The macros.                                                             *)

Unit == stream.wire[p]
PARSING_HEADER == parser.state \notin BodyStates

\* COUNT_HEADER_SIZE(1) of the loop.
Counted == IF PARSING_HEADER /\ ~redo THEN parser.nread + 1 ELSE parser.nread
Now == [parser EXCEPT !.nread = Counted]

\* Mutant: the units of an inner loop are not counted.
CountOne(n) == Counted

\* Counted, and COUNT_HEADER_SIZE(p - start) after an inner loop over n more.
CountMore(n) == Counted + n

Reading == p # 0 /\ p <= fed
At(s) == Reading /\ parser.state = s /\ Counted <= MaxHeaderSize

\* CALLBACK_NOTIFY and CALLBACK_DATA: the calls they make, p being at `to`.
Notify(cb) == <<[cb |-> cb, data |-> <<>>]>>
Data(m, to) ==
    IF marks[m] = 0 THEN <<>>
    ELSE <<[cb |-> m, data |-> SubSeq(stream.wire, marks[m], to - 1)]>>
MARK(m) == IF marks[m] = 0 THEN [marks EXCEPT ![m] = p] ELSE marks
Unmark(m) == [marks EXCEPT ![m] = 0]

\* Consecutive pieces of one element are one element to the listener.
Hear(h, c) ==
    IF h # <<>> /\ c.cb \in Marked /\ h[Len(h)].cb = c.cb
    THEN [h EXCEPT ![Len(h)].data = @ \o c.data]
    ELSE Append(h, c)

Call(cs) ==
    LET joined[i \in 0..Len(cs)] ==
            IF i = 0 THEN heard ELSE Hear(joined[i - 1], cs[i])
    IN  calls' = calls \o cs /\ heard' = joined[Len(cs)]

\* A callback has paused the parser: the call returns what is consumed, and
\* what it has counted is lost (http_parser_pause sets nread to the original).
Paused(par, to, cs) ==
    /\ parser' = [par EXCEPT !.errno = "PAUSED", !.nread = par.stored]
    /\ fed' = to - 1
    /\ p' = 0 /\ redo' = FALSE /\ marks' = NoMarks /\ whole' = FALSE
    /\ Call(cs)
    /\ UNCHANGED <<stream, first, over>>

Pauses(cs) == stream.pauses /\ cs # <<>>

\* The end of a pass, with the loop going on at `to`.
Pass(par, to, again, cs, mk) ==
    \/ Pauses(cs) /\ Paused(par, to, cs)
    \/ /\ ~Pauses(cs)
       /\ parser' = par /\ p' = to /\ redo' = again /\ marks' = mk
       /\ Call(cs)
       /\ UNCHANGED <<stream, first, fed, whole, over>>

Break(par) == Pass(par, p + 1, FALSE, <<>>, marks)
Reexecute(par) == Pass(par, p, TRUE, <<>>, marks)
Goto(s) == Break([Now EXCEPT !.state = s])

\* RETURN.
Return(par, all, cs) ==
    /\ parser' = [par EXCEPT !.stored = par.nread] /\ whole' = all
    /\ p' = 0 /\ redo' = FALSE /\ marks' = NoMarks
    /\ Call(cs)
    /\ UNCHANGED <<stream, first, fed, over>>

Error(e) == Return([Now EXCEPT !.errno = e], FALSE, <<>>)

\* Whether the end of the stream is the end of the message.
http_message_needs_eof(par) ==
    /\ par.type # "HTTP_REQUEST"
    /\ par.status_code \div 100 # 1 /\ par.status_code \notin {204, 304}
    /\ "F_SKIPBODY" \notin par.flags
    /\ "F_CHUNKED" \notin par.flags
    /\ par.uses_transfer_encoding \/ par.content_length = ULLONG_MAX

http_should_keep_alive(par) ==
    /\ IF par.version = "HTTP/1.1" THEN "F_CONNECTION_CLOSE" \notin par.flags
       ELSE "F_CONNECTION_KEEP_ALIVE" \in par.flags
    /\ ~http_message_needs_eof(par)

start_state(par) == IF par.type = "HTTP_REQUEST" THEN "s_start_req" ELSE "s_start_res"
NEW_MESSAGE(par) == IF http_should_keep_alive(par) THEN start_state(par) ELSE "s_dead"

-----------------------------------------------------------------------------
(* A call and its end.                                                     *)

Init ==
    /\ stream \in Streams
    /\ first = 1 /\ fed = 0 /\ p = 0 /\ redo = FALSE /\ marks = NoMarks
    /\ parser = [type |-> stream.type, status_code |-> 0,
                 state |-> CASE stream.type = "HTTP_REQUEST" -> "s_start_req"
                             [] stream.type = "HTTP_RESPONSE" -> "s_start_res"
                             [] OTHER -> "s_start_req_or_res",
                 header_state |-> "h_general", flags |-> {},
                 uses_transfer_encoding |-> FALSE, content_length |-> 0, nread |-> 0,
                 stored |-> 0,
                 version |-> "HTTP/0.9", method |-> "GET", upgrade |-> FALSE,
                 errno |-> "OK"]
    /\ whole = TRUE /\ over = FALSE /\ calls = <<>> /\ heard = <<>>

\* The caller stops at an error, at an upgrade (http_parser.h, upgrade) and
\* when it has told the parser that the stream is over.
Upgraded == parser.upgrade /\ parser.state \in {"s_start_req", "s_start_res", "s_dead"}
Callable == p = 0 /\ parser.errno = "OK" /\ ~Upgraded /\ ~over
Left == Len(stream.wire) - fed

\* Mutant: a value that is cut is not taken up again.
ForgetsValue(s, start) ==
    [m \in Marked |->
        IF \/ m = "header_field" /\ s = "s_header_field"
           \/ m = "url" /\ s \in UrlStates
           \/ m = "status" /\ s = "s_res_status"
        THEN start ELSE 0]

\* What each mark is when a call begins in the middle of an element.
MarksAt(s, start) ==
    [m \in Marked |->
        IF \/ m = "header_field" /\ s = "s_header_field"
           \/ m = "header_value" /\ s = "s_header_value"
           \/ m = "url" /\ s \in UrlStates
           \/ m = "status" /\ s = "s_res_status"
        THEN start ELSE 0]

http_parser_execute(n) ==
    /\ Callable /\ n \in 1..Left
    /\ first' = fed + 1 /\ fed' = fed + n /\ p' = fed + 1
    /\ marks' = MarksAt(parser.state, fed + 1)
    /\ calls' = <<>>
    /\ UNCHANGED <<stream, redo, parser, whole, heard, over>>

\* http_parser_pause(parser, 0): the caller goes on with what is not consumed.
Resume ==
    /\ parser.errno = "PAUSED"
    /\ parser' = [parser EXCEPT !.errno = "OK"]
    /\ UNCHANGED <<stream, first, fed, p, redo, marks, whole, calls, heard, over>>

\* A call with nothing to read tells the parser that the stream is over.  A
\* body that ends with the stream is sent to its end.
AtEof ==
    /\ Callable
    /\ over' = TRUE
    /\ \/ /\ parser.state = "s_body_identity_eof" /\ Left = 0
          /\ calls' = Notify("message_complete") /\ heard' = heard \o calls'
          /\ parser' = [parser EXCEPT !.errno = IF stream.pauses THEN "PAUSED" ELSE @]
          /\ UNCHANGED whole
       \/ /\ parser.state \in {"s_dead", "s_start_req_or_res", "s_start_res", "s_start_req"}
          /\ calls' = <<>>
          /\ UNCHANGED <<parser, whole, heard>>
       \/ /\ parser.state \notin {"s_body_identity_eof", "s_dead", "s_start_req_or_res",
                                  "s_start_res", "s_start_req"}
          /\ calls' = <<>> /\ whole' = FALSE
          /\ parser' = [parser EXCEPT !.errno = "INVALID_EOF_STATE"]
          /\ UNCHANGED heard
    /\ UNCHANGED <<stream, first, fed, p, redo, marks>>

\* The end of the piece: callbacks for the marks that are left.
EndOfPiece ==
    /\ p = fed + 1
    /\ LET cs == Data("header_field", p) \o Data("header_value", p)
                    \o Data("url", p) \o Data("body", p) \o Data("status", p)
       IN  \/ Pauses(cs) /\ Paused(parser, p, cs)
           \/ ~Pauses(cs) /\ Return(parser, TRUE, cs)

HeaderOverflow ==
    /\ Reading /\ Counted > MaxHeaderSize
    /\ Error("HEADER_OVERFLOW")

-----------------------------------------------------------------------------
(* Between messages.                                                       *)

Dead ==
    /\ At("s_dead")
    /\ \/ Unit \in {"CR", "LF"} /\ Break(Now)
       \/ Unit \notin {"CR", "LF"} /\ Error("CLOSED_CONNECTION")

\* A message begins, with no framing known.
Fresh == [Now EXCEPT !.flags = {}, !.uses_transfer_encoding = FALSE,
                     !.content_length = ULLONG_MAX]
MessageBegin(par) == Pass(par, p + 1, FALSE, Notify("message_begin"), marks)

\* The first message decides what the parser is for.  (Those that begin with
\* H are HTTP/ and HEAD.)
StartReqOrRes ==
    /\ At("s_start_req_or_res")
    /\ \/ Unit \in {"CR", "LF"} /\ Break(Now)
       \/ /\ Unit \in Versions
          /\ MessageBegin([Fresh EXCEPT !.type = "HTTP_RESPONSE", !.version = Unit,
                                        !.state = "s_res_http_end"])
       \/ /\ Unit = "HEAD"
          /\ MessageBegin([Fresh EXCEPT !.type = "HTTP_REQUEST", !.method = "HEAD",
                                        !.state = "s_req_method"])
       \/ /\ Unit \notin Versions \cup {"HEAD", "CR", "LF"}
          /\ Reexecute([Fresh EXCEPT !.type = "HTTP_REQUEST", !.state = "s_start_req"])

\* The first letters of a method; the rest is matched in s_req_method, which
\* refuses what is left of HTTP/ after its H.
StartReq ==
    /\ At("s_start_req")
    /\ \/ Unit \in {"CR", "LF"} /\ Break(Now)
       \/ /\ Unit \in Methods
          /\ MessageBegin([Fresh EXCEPT !.state = "s_req_method", !.method = Unit])
       \/ /\ Unit \in Versions
          /\ Pass([Fresh EXCEPT !.state = "s_req_method", !.method = "HEAD"], p, TRUE,
                  Notify("message_begin"), marks)
       \/ /\ Unit \notin Methods \cup Versions \cup {"CR", "LF"}
          /\ Return([Fresh EXCEPT !.errno = "INVALID_METHOD"], FALSE, <<>>)

-----------------------------------------------------------------------------
(* The status line.                                                        *)

\* (HEAD begins as HTTP/ does.)
StartRes ==
    /\ At("s_start_res")
    /\ \/ Unit \in {"CR", "LF"} /\ Break(Now)
       \/ /\ Unit \in Versions
          /\ MessageBegin([Fresh EXCEPT !.state = "s_res_http_end", !.version = Unit])
       \/ /\ Unit = "HEAD"
          /\ Pass([Fresh EXCEPT !.state = "s_res_H"], p, TRUE, Notify("message_begin"), marks)
       \/ /\ Unit \notin Versions \cup {"HEAD", "CR", "LF"}
          /\ Return([Fresh EXCEPT !.errno = "INVALID_CONSTANT"], FALSE, <<>>)

ResH ==
    /\ At("s_res_H")
    /\ Error("STRICT")

ResHttpEnd ==
    /\ At("s_res_http_end")
    /\ \/ Unit = "SP" /\ Goto("s_res_first_status_code")
       \/ Unit # "SP" /\ Error("INVALID_VERSION")

\* The code after one digit more, or three.
IsCode(u) == IsNum(u) \/ u \in Statuses
WithCode(n, u) == IF IsNum(u) THEN n * 10 + Digit[u] ELSE n * 1000 + StatusNumber(u)

FirstStatusCode ==
    /\ At("s_res_first_status_code")
    /\ \/ Unit = "SP" /\ Break(Now)
       \/ /\ IsCode(Unit)
          /\ Break([Now EXCEPT !.status_code = WithCode(0, Unit), !.state = "s_res_status_code"])
       \/ Unit # "SP" /\ ~IsCode(Unit) /\ Error("INVALID_STATUS")

\* Digits go on until the code is too large.
StatusCode ==
    /\ At("s_res_status_code")
    /\ LET code == WithCode(parser.status_code, Unit)
       IN  \/ Unit = "SP" /\ Goto("s_res_status_start")
           \/ Unit \in {"CR", "LF"} /\ Reexecute([Now EXCEPT !.state = "s_res_status_start"])
           \/ IsCode(Unit) /\ code <= 999 /\ Break([Now EXCEPT !.status_code = code])
           \/ /\ IsCode(Unit) => code > 999
              /\ Unit \notin {"SP", "CR", "LF"} /\ Error("INVALID_STATUS")

\* Mutant: the state is set after the unit that ends the line is left.
StatusStartStays ==
    /\ At("s_res_status_start")
    /\ LET again == Unit \in {"CR", "LF"}
       IN  Pass([Now EXCEPT !.state = IF again THEN @ ELSE "s_res_status"],
                IF again THEN p ELSE p + 1, again, <<>>, MARK("status"))

StatusStart ==
    /\ At("s_res_status_start")
    /\ LET again == Unit \in {"CR", "LF"}
       IN  Pass([Now EXCEPT !.state = "s_res_status"], IF again THEN p ELSE p + 1, again,
                <<>>, MARK("status"))

Status ==
    /\ At("s_res_status")
    /\ \/ Unit \notin {"CR", "LF"} /\ Break(Now)
       \/ /\ Unit \in {"CR", "LF"}
          /\ Pass([Now EXCEPT !.state = IF Unit = "CR" THEN "s_res_line_almost_done"
                                        ELSE "s_header_field_start"],
                  p + 1, FALSE, Data("status", p), Unmark("status"))

ResLineAlmostDone ==
    /\ At("s_res_line_almost_done")
    /\ \/ Unit = "LF" /\ Goto("s_header_field_start")
       \/ Unit # "LF" /\ Error("STRICT")

-----------------------------------------------------------------------------
(* The request line.                                                       *)

ReqMethod ==
    /\ At("s_req_method")
    /\ \/ Unit = "SP" /\ Goto("s_req_spaces_before_url")
       \/ Unit # "SP" /\ Error("INVALID_METHOD")

UrlStart ==
    /\ At("s_req_spaces_before_url")
    /\ \/ Unit = "SP" /\ Break(Now)
       \/ /\ Unit # "SP"
          /\ LET from == IF parser.method = "CONNECT" THEN "s_req_server_start"
                         ELSE "s_req_spaces_before_url"
                 to == parse_url_char(from, Unit)
             IN  IF to = "s_dead" THEN Error("INVALID_URL")
                 ELSE Pass([Now EXCEPT !.state = to], p + 1, FALSE, <<>>, MARK("url"))

UrlChar ==
    /\ \E s \in UrlStates : At(s)
    /\ ~(parser.state \in UrlEndStates /\ Unit \in {"SP", "CR", "LF"})
    /\ LET to == parse_url_char(parser.state, Unit)
       IN  IF to = "s_dead" THEN Error("INVALID_URL") ELSE Goto(to)

\* A url without a version is HTTP/0.9.
UrlEnd ==
    /\ \E s \in UrlEndStates : At(s)
    /\ LET to(par) == Pass(par, p + 1, FALSE, Data("url", p), Unmark("url"))
       IN  \/ Unit = "SP" /\ to([Now EXCEPT !.state = "s_req_http_start"])
           \/ Unit = "CR" /\ to([Now EXCEPT !.state = "s_req_line_almost_done",
                                            !.version = "HTTP/0.9"])
           \/ Unit = "LF" /\ to([Now EXCEPT !.state = "s_header_field_start",
                                            !.version = "HTTP/0.9"])

HttpVersion ==
    /\ At("s_req_http_start")
    /\ \/ Unit = "SP" /\ Break(Now)
       \/ /\ Unit \in Versions
          /\ Break([Now EXCEPT !.state = "s_req_http_end", !.version = Unit])
       \/ Unit \notin Versions \cup {"SP"} /\ Error("INVALID_CONSTANT")

HttpEnd ==
    /\ At("s_req_http_end")
    /\ \/ Unit = "CR" /\ Goto("s_req_line_almost_done")
       \/ Unit = "LF" /\ Goto("s_header_field_start")
       \/ Unit \notin {"CR", "LF"} /\ Error("INVALID_VERSION")

ReqLineAlmostDone ==
    /\ At("s_req_line_almost_done")
    /\ \/ Unit = "LF" /\ Goto("s_header_field_start")
       \/ Unit # "LF" /\ Error("LF_EXPECTED")

-----------------------------------------------------------------------------
(* Header names.                                                           *)

HeaderFieldStart ==
    /\ At("s_header_field_start")
    /\ \/ Unit = "CR" /\ Goto("s_headers_almost_done")
       \/ Unit = "LF" /\ Reexecute([Now EXCEPT !.state = "s_headers_almost_done"])
       \/ /\ IsToken(Unit)
          /\ Pass([Now EXCEPT !.state = "s_header_field",
                              !.header_state = IF Unit \in DOMAIN KeywordStates
                                               THEN KeywordStates[Unit] ELSE "h_general",
                              !.uses_transfer_encoding = @ \/ Unit = "transfer_encoding"],
                  p + 1, FALSE, <<>>, MARK("header_field"))
       \/ Unit \notin {"CR", "LF"} /\ ~IsToken(Unit) /\ Error("INVALID_HEADER_TOKEN")

\* The inner loop runs over the letters that are left of a name.  A letter
\* after a whole keyword makes it an ordinary name.
HeaderField ==
    /\ At("s_header_field")
    /\ LET stop == SelectInSubSeq(stream.wire, p, fed, LAMBDA u : ~IsToken(u))
           last == IF stop = 0 THEN fed ELSE stop
           name == IF stop = p THEN parser.header_state ELSE "h_general"
           par == [Now EXCEPT !.nread = CountMore(last - p), !.header_state = name]
       IN  \/ /\ par.nread > MaxHeaderSize
              /\ Return([par EXCEPT !.errno = "HEADER_OVERFLOW"], FALSE, <<>>)
           \/ /\ par.nread <= MaxHeaderSize /\ stop = 0
              /\ Pass(par, fed + 1, FALSE, <<>>, marks)
           \/ /\ par.nread <= MaxHeaderSize /\ stop # 0 /\ stream.wire[stop] = ":"
              /\ Pass([par EXCEPT !.state = "s_header_value_discard_ws"], stop + 1, FALSE,
                      Data("header_field", stop), Unmark("header_field"))
           \/ /\ par.nread <= MaxHeaderSize /\ stop # 0 /\ stream.wire[stop] # ":"
              /\ Return([par EXCEPT !.errno = "INVALID_HEADER_TOKEN"], FALSE, <<>>)

-----------------------------------------------------------------------------
(* Header values.                                                          *)

\* What a comma does to a list, and what a word of it does.
Listed(states, u) ==
    IF u \in DOMAIN states THEN states[u]
    ELSE IF states = CodingStates THEN "h_matching_transfer_encoding_token"
    ELSE "h_matching_connection_token"

\* The first unit of a value.
ValueStart(par) ==
    LET hs == par.header_state
        to(h) == [par EXCEPT !.state = "s_header_value", !.header_state = h]
    IN  CASE hs = "h_upgrade" ->
                [to("h_general") EXCEPT !.flags = @ \cup {"F_UPGRADE"}]
          [] hs = "h_transfer_encoding" -> to(Listed(CodingStates, Unit))
          [] hs = "h_connection" -> to(Listed(ConnectionStates, Unit))
          [] hs = "h_content_length" ->
                IF ~IsNum(Unit)
                THEN [to(hs) EXCEPT !.errno = "INVALID_CONTENT_LENGTH"]
                ELSE IF "F_CONTENTLENGTH" \in par.flags
                THEN [to(hs) EXCEPT !.errno = "UNEXPECTED_CONTENT_LENGTH"]
                ELSE [to("h_content_length_num") EXCEPT
                        !.flags = @ \cup {"F_CONTENTLENGTH"},
                        !.content_length = Digit[Unit]]
          [] hs \in {"h_content_length_ws", "h_matching_connection_token_start",
                     "h_matching_transfer_encoding_token_start"} -> to(hs)
          [] OTHER -> to("h_general")

HeaderValueStart ==
    LET par == ValueStart(Now)
    IN  IF par.errno = "OK"
        THEN Pass(par, p + 1, FALSE, <<>>, MARK("header_value"))
        ELSE Return(par, FALSE, <<>>)

DiscardWs ==
    /\ At("s_header_value_discard_ws")
    /\ \/ Unit \in Blank /\ Break(Now)
       \/ Unit = "CR" /\ Goto("s_header_value_discard_ws_almost_done")
       \/ Unit = "LF" /\ Goto("s_header_value_discard_lws")
       \/ Unit \notin Blank \cup {"CR", "LF"} /\ HeaderValueStart

\* The first unit of a folded line, after REEXECUTE.
FoldedStart ==
    /\ At("s_header_value_start")
    /\ HeaderValueStart

\* What the flag of a list element that is over is.
ElementFlag(hs) ==
    CASE hs = "h_connection_keep_alive" -> {"F_CONNECTION_KEEP_ALIVE"}
      [] hs = "h_connection_close" -> {"F_CONNECTION_CLOSE"}
      [] hs = "h_connection_upgrade" -> {"F_CONNECTION_UPGRADE"}
      [] OTHER -> {}

\* Another unit of a value.  (The test for a TAB after a comma is made on
\* LOWER(ch), which no TAB passes: the rest of the list is not looked at.)
ValueUnit(par, u) ==
    LET hs == par.header_state
        to(h) == [par EXCEPT !.header_state = h]
        wrong == [par EXCEPT !.errno = "INVALID_CONTENT_LENGTH"]
    IN  CASE par.errno # "OK" -> par
          [] par.errno = "OK" /\ ~IsHeaderChar(u) ->
                [par EXCEPT !.errno = "INVALID_HEADER_TOKEN"]
          [] OTHER ->
        CASE hs = "h_content_length_num" ->
                IF u = "SP" THEN to("h_content_length_ws")
                ELSE IF ~IsNum(u) \/ Overflows(par.content_length, Base) THEN wrong
                ELSE [par EXCEPT !.content_length = TimesPlus(@, Base, Digit[u])]
          [] hs = "h_content_length_ws" -> IF u = "SP" THEN par ELSE wrong
          [] hs = "h_matching_transfer_encoding_token_start" ->
                IF u = "SP" THEN par
                ELSE IF IsLowerToken(u) THEN to(Listed(CodingStates, u))
                ELSE to("h_general")
          [] hs = "h_matching_connection_token_start" ->
                IF u = "SP" THEN par
                ELSE IF IsLowerToken(u) THEN to(Listed(ConnectionStates, u))
                ELSE to("h_general")
          [] hs = "h_matching_transfer_encoding_token" /\ u = "," ->
                to("h_matching_transfer_encoding_token_start")
          [] hs = "h_transfer_encoding_chunked" /\ u # "SP" ->
                to("h_matching_transfer_encoding_token")
          [] hs = "h_matching_connection_token" /\ u = "," ->
                to("h_matching_connection_token_start")
          [] ElementFlag(hs) # {} /\ u = "," ->
                [to("h_matching_connection_token_start") EXCEPT
                    !.flags = @ \cup ElementFlag(hs)]
          [] ElementFlag(hs) # {} /\ u \notin {",", "SP"} ->
                to("h_matching_connection_token")
          [] OTHER -> par

\* The inner loop runs to the end of the line or of the piece.  At CR the
\* callback comes before the count, at LF after it.  (That the loop skips a
\* unit every max_header_size units matters only to a head that overflows.)
HeaderValue ==
    /\ At("s_header_value")
    /\ LET stop == SelectInSubSeq(stream.wire, p, fed, LAMBDA u : u \in {"CR", "LF"})
           last == IF stop = 0 THEN fed ELSE stop
           end == IF stop = 0 THEN fed + 1 ELSE stop
           value[i \in p..end] ==
               IF i = p THEN Now ELSE ValueUnit(value[i - 1], stream.wire[i - 1])
           par == [value[end] EXCEPT !.nread = CountMore(last - p)]
           line == [par EXCEPT !.state = "s_header_almost_done"]
           full == par.nread > MaxHeaderSize
           tooLong == [par EXCEPT !.errno = "HEADER_OVERFLOW"]
           data == Data("header_value", stop)
           atCR == stop # 0 /\ stream.wire[stop] = "CR"
       IN  \/ value[end].errno # "OK" /\ Return(value[end], FALSE, <<>>)
           \/ /\ value[end].errno = "OK" /\ full /\ ~(atCR /\ Pauses(data))
              /\ Return(tooLong, FALSE, IF atCR THEN data ELSE <<>>)
           \/ /\ value[end].errno = "OK" /\ ~full /\ stop = 0
              /\ Pass(par, fed + 1, FALSE, <<>>, marks)
           \/ /\ value[end].errno = "OK" /\ stop # 0 /\ (full => atCR /\ Pauses(data))
              /\ IF atCR
                 THEN Pass(line, stop + 1, FALSE, data, Unmark("header_value"))
                 ELSE Pass(line, stop, TRUE, data, Unmark("header_value"))

HeaderAlmostDone ==
    /\ At("s_header_almost_done")
    /\ \/ Unit = "LF" /\ Goto("s_header_value_lws")
       \/ Unit # "LF" /\ Error("LF_EXPECTED")

\* The flags of a header that is over.
HeaderFlags(hs) ==
    ElementFlag(hs) \cup (IF hs = "h_transfer_encoding_chunked" THEN {"F_CHUNKED"} ELSE {})

\* After a line of a value: a folded line, or the end of the header.
ValueLws ==
    /\ At("s_header_value_lws")
    /\ \/ /\ Unit \in Blank
          /\ Reexecute([Now EXCEPT !.state = "s_header_value_start",
                !.header_state = IF @ = "h_content_length_num"
                                 THEN "h_content_length_ws" ELSE @])
       \/ /\ Unit \notin Blank
          /\ Reexecute([Now EXCEPT !.state = "s_header_field_start",
                                   !.flags = @ \cup HeaderFlags(parser.header_state)])

DiscardWsAlmostDone ==
    /\ At("s_header_value_discard_ws_almost_done")
    /\ \/ Unit = "LF" /\ Goto("s_header_value_discard_lws")
       \/ Unit # "LF" /\ Error("STRICT")

\* Mutant: an empty value is not called back.
SkipsEmptyValue ==
    /\ At("s_header_value_discard_lws")
    /\ \/ Unit \in Blank /\ Goto("s_header_value_discard_ws")
       \/ /\ Unit \notin Blank /\ parser.header_state = "h_content_length"
          /\ Error("INVALID_CONTENT_LENGTH")
       \/ /\ Unit \notin Blank /\ parser.header_state # "h_content_length"
          /\ Reexecute([Now EXCEPT !.state = "s_header_field_start"])

\* After a first line without a value: a folded line, or an empty value.
DiscardLws ==
    /\ At("s_header_value_discard_lws")
    /\ \/ Unit \in Blank /\ Goto("s_header_value_discard_ws")
       \/ /\ Unit \notin Blank /\ parser.header_state = "h_content_length"
          /\ Error("INVALID_CONTENT_LENGTH")
       \/ /\ Unit \notin Blank /\ parser.header_state # "h_content_length"
          /\ Pass([Now EXCEPT !.state = "s_header_field_start",
                              !.flags = @ \cup HeaderFlags(parser.header_state)],
                  p, TRUE, <<[cb |-> "header_value", data |-> <<>>]>>, marks)

-----------------------------------------------------------------------------
(* The end of the headers, and bodies with a length.                       *)

\* Mutant: a length beside a chunked body is let through.
IgnoresLength == /\ parser.uses_transfer_encoding /\ "F_CONTENTLENGTH" \in parser.flags
                 /\ "F_CHUNKED" \notin parser.flags

\* Which messages must not have both framings (lenient is off).
TwoFramings == parser.uses_transfer_encoding /\ "F_CONTENTLENGTH" \in parser.flags

\* parser->upgrade as on_headers_complete finds it.
Upgrading ==
    IF {"F_UPGRADE", "F_CONNECTION_UPGRADE"} \subseteq parser.flags
    THEN parser.type = "HTTP_REQUEST" \/ parser.status_code = 101
    ELSE parser.method = "CONNECT"

\* (A parser paused by on_headers_complete has stored its count.)
HeadersAlmostDone ==
    /\ At("s_headers_almost_done")
    /\ \/ Unit # "LF" /\ Error("STRICT")
       \/ /\ Unit = "LF" /\ "F_TRAILING" \in parser.flags
          /\ Pass([Now EXCEPT !.state = "s_message_done"], p, TRUE,
                  Notify("chunk_complete"), marks)
       \/ /\ Unit = "LF" /\ "F_TRAILING" \notin parser.flags /\ TwoFramings
          /\ Error("UNEXPECTED_CONTENT_LENGTH")
       \/ /\ Unit = "LF" /\ "F_TRAILING" \notin parser.flags /\ ~TwoFramings
          /\ Pass([Now EXCEPT !.state = "s_headers_done", !.stored = Counted,
                    !.flags = IF stream.answer = 0 THEN @ ELSE @ \cup {"F_SKIPBODY"},
                    !.upgrade = \/ Upgrading
                                \/ stream.answer = 2],
                  p, TRUE, Notify("headers_complete"), marks)

\* on_message_complete, and on to the next message unless upgraded.
MessageComplete(par, exits) ==
    LET next == [par EXCEPT !.state = NEW_MESSAGE(par)]
    IN  IF exits THEN Return(next, p = fed, Notify("message_complete"))
        ELSE Pass(next, p + 1, FALSE, Notify("message_complete"), marks)

\* Mutant: the count goes on.
NotRestarted == Now

\* The count of header bytes starts again.
Restarted == [Now EXCEPT !.nread = 0, !.stored = 0]

\* After the headers: which way the message ends.
HeadersDone ==
    /\ At("s_headers_done")
    /\ LET par == Restarted
           chunked == "F_CHUNKED" \in par.flags
           skips == "F_SKIPBODY" \in par.flags
           hasBody == chunked \/ par.content_length \notin {0, ULLONG_MAX}
           exits == par.upgrade /\ (par.method = "CONNECT" \/ skips \/ ~hasBody)
           bodied == ~exits /\ ~skips
       IN  \/ exits /\ MessageComplete(par, TRUE)
           \/ ~exits /\ skips /\ MessageComplete(par, FALSE)
           \/ bodied /\ chunked /\ Break([par EXCEPT !.state = "s_chunk_size_start"])
           \/ /\ bodied /\ ~chunked /\ par.uses_transfer_encoding
              /\ IF par.type = "HTTP_REQUEST"
                 THEN Return([par EXCEPT !.errno = "INVALID_TRANSFER_ENCODING"], FALSE, <<>>)
                 ELSE Break([par EXCEPT !.state = "s_body_identity_eof"])
           \/ /\ bodied /\ ~chunked /\ ~par.uses_transfer_encoding
              /\ IF hasBody THEN Break([par EXCEPT !.state = "s_body_identity"])
                 ELSE IF par.content_length = ULLONG_MAX /\ http_message_needs_eof(par)
                 THEN Break([par EXCEPT !.state = "s_body_identity_eof"])
                 ELSE MessageComplete(par, FALSE)

\* Mutant: all that the piece has.
ReadsAll == fed - p + 1

\* As much of the body as the piece has.
ToRead == IF parser.content_length < fed - p + 1 THEN parser.content_length ELSE fed - p + 1

\* The last byte is seen again by s_message_done.
BodyIdentity ==
    /\ At("s_body_identity")
    /\ LET mark == MARK("body")["body"]
           par == [Now EXCEPT !.content_length = @ - ToRead]
       IN  \/ /\ par.content_length = 0
              /\ Pass([par EXCEPT !.state = "s_message_done"], p + ToRead - 1, TRUE,
                      <<[cb |-> "body",
                         data |-> SubSeq(stream.wire, mark, p + ToRead - 1)]>>,
                      Unmark("body"))
           \/ par.content_length # 0 /\ Pass(par, p + ToRead, FALSE, <<>>, MARK("body"))

\* The body is all that comes.
BodyIdentityEof ==
    /\ At("s_body_identity_eof")
    /\ Pass(Now, fed + 1, FALSE, <<>>, MARK("body"))

MessageDone ==
    /\ At("s_message_done")
    /\ MessageComplete(Now, parser.upgrade)

-----------------------------------------------------------------------------
(* Chunked bodies.                                                         *)

ChunkSizeStart ==
    /\ At("s_chunk_size_start")
    /\ \/ IsHex(Unit) /\ Break([Now EXCEPT !.state = "s_chunk_size",
                                           !.content_length = Digit[Unit]])
       \/ ~IsHex(Unit) /\ Error("INVALID_CHUNK_SIZE")

ChunkSize ==
    /\ At("s_chunk_size")
    /\ \/ Unit = "CR" /\ Goto("s_chunk_size_almost_done")
       \/ Unit \in {";", "SP"} /\ Goto("s_chunk_parameters")
       \/ /\ Unit \notin {"CR", ";", "SP"} /\ ~IsHex(Unit)
          /\ Error("INVALID_CHUNK_SIZE")
       \/ /\ IsHex(Unit) /\ Overflows(parser.content_length, HexBase)
          /\ Error("INVALID_CONTENT_LENGTH")
       \/ /\ IsHex(Unit) /\ ~Overflows(parser.content_length, HexBase)
          /\ Break([Now EXCEPT !.content_length = TimesPlus(@, HexBase, Digit[Unit])])

ChunkParameters ==
    /\ At("s_chunk_parameters")
    /\ \/ Unit = "CR" /\ Goto("s_chunk_size_almost_done")
       \/ Unit # "CR" /\ Break(Now)

ChunkSizeAlmostDone ==
    /\ At("s_chunk_size_almost_done")
    /\ \/ Unit # "LF" /\ Error("STRICT")
       \/ /\ Unit = "LF"
          /\ LET par == Restarted
             IN  Pass(IF par.content_length = 0
                      THEN [par EXCEPT !.flags = @ \cup {"F_TRAILING"},
                                       !.state = "s_header_field_start"]
                      ELSE [par EXCEPT !.state = "s_chunk_data"],
                      p + 1, FALSE, Notify("chunk_header"), marks)

\* Mutant: what a piece holds of a chunk is taken off only if it ends the chunk.
ChunkDataUncounted ==
    /\ At("s_chunk_data")
    /\ LET ends == Now.content_length = ToRead
       IN  Pass(IF ends
                THEN [Now EXCEPT !.state = "s_chunk_data_almost_done", !.content_length = 0]
                ELSE Now,
                p + ToRead, FALSE, <<>>, MARK("body"))

ChunkData ==
    /\ At("s_chunk_data")
    /\ LET par == [Now EXCEPT !.content_length = @ - ToRead]
       IN  Pass(IF par.content_length = 0
                THEN [par EXCEPT !.state = "s_chunk_data_almost_done"] ELSE par,
                p + ToRead, FALSE, <<>>, MARK("body"))

ChunkDataAlmostDone ==
    /\ At("s_chunk_data_almost_done")
    /\ \/ Unit # "CR" /\ Error("STRICT")
       \/ /\ Unit = "CR"
          /\ Pass([Now EXCEPT !.state = "s_chunk_data_done"], p + 1, FALSE,
                  Data("body", p), Unmark("body"))

\* Mutant: the count of header bytes goes on after a chunk.
ChunkDataDoneCounting ==
    /\ At("s_chunk_data_done")
    /\ \/ Unit # "LF" /\ Error("STRICT")
       \/ /\ Unit = "LF"
          /\ Pass([parser EXCEPT !.state = "s_chunk_size_start", !.nread = 1, !.stored = 1],
                  p + 1, FALSE, Notify("chunk_complete"), marks)

ChunkDataDone ==
    /\ At("s_chunk_data_done")
    /\ \/ Unit # "LF" /\ Error("STRICT")
       \/ /\ Unit = "LF"
          /\ Pass([Restarted EXCEPT !.state = "s_chunk_size_start"],
                  p + 1, FALSE, Notify("chunk_complete"), marks)

-----------------------------------------------------------------------------

StatusLine == \/ StartRes \/ ResH \/ ResHttpEnd \/ FirstStatusCode \/ StatusCode
              \/ StatusStart \/ Status \/ ResLineAlmostDone

RequestLine == \/ Dead \/ StartReqOrRes \/ StartReq \/ ReqMethod \/ UrlStart \/ UrlChar \/ UrlEnd
               \/ HttpVersion \/ HttpEnd \/ ReqLineAlmostDone

Headers == \/ HeaderFieldStart \/ HeaderField \/ DiscardWs \/ FoldedStart
           \/ HeaderValue \/ HeaderAlmostDone \/ ValueLws
           \/ DiscardWsAlmostDone \/ DiscardLws \/ HeadersAlmostDone

Bodies == \/ HeadersDone \/ BodyIdentity \/ BodyIdentityEof \/ MessageDone

Chunks == \/ ChunkSizeStart \/ ChunkSize \/ ChunkParameters \/ ChunkSizeAlmostDone
          \/ ChunkData \/ ChunkDataAlmostDone \/ ChunkDataDone

Next == \/ \E n \in stream.pieces \cup {Left} : http_parser_execute(n)
        \/ Resume \/ AtEof \/ EndOfPiece \/ HeaderOverflow
        \/ StatusLine \/ RequestLine \/ Headers \/ Bodies \/ Chunks

Spec == Init /\ [][Next]_vars

-----------------------------------------------------------------------------
(* Properties.  Of a stream, wire is what is sent, told what a listener     *)
(* should hear of it, and fine says that nothing is wrong with it; whole is *)
(* false for damaged streams, of which nothing in particular is expected.   *)

\* TypeOK: the fields of struct http_parser and the locals of
\* http_parser_execute keep to their ranges.
TypeOK ==
    /\ fed \in 0..Len(stream.wire) /\ first \in 1..(fed + 1)
    /\ p \in 0..(fed + 1) /\ (p # 0 => p >= first) /\ redo \in BOOLEAN
    /\ marks \in [Marked -> 0..fed]
    /\ parser \in Parsers /\ parser.nread <= 2 * (MaxHeaderSize + Len(stream.wire))
    /\ whole \in BOOLEAN /\ over \in BOOLEAN

\* What has been heard is the beginning of what should be.
Begins(h, t) ==
    \/ h = <<>>
    \/ LET n == Len(h)
       IN  /\ n <= Len(t)
           /\ SubSeq(h, 1, n - 1) = SubSeq(t, 1, n - 1)
           /\ h[n].cb = t[n].cb /\ IsPrefix(h[n].data, t[n].data)

\* TellsTheMessage: wherever the pieces are cut, the callbacks tell the url,
\* the fields and the body of each message and nothing else: no byte is lost,
\* told twice or told as something else, and nothing follows an error, a
\* message that closes, or an upgrade.
TellsTheMessage == stream.whole => Begins(heard, stream.told)

Ended == p = 0 /\ fed = Len(stream.wire) /\ parser.errno # "PAUSED"

\* Accepts: a stream with nothing wrong is never refused, and all of it has
\* been told by its end (unless the sender stopped in the middle); if the
\* last body ends with the stream, when the parser is told so.
Accepts ==
    stream.fine =>
        /\ parser.errno \in {"OK", "PAUSED", "INVALID_EOF_STATE"}
        /\ Ended /\ (parser.state = "s_body_identity_eof" => over) =>
                parser.errno = "OK" /\ heard = stream.told

\* Refuses: two framings, a coding other than chunked at the end of the
\* list, a length that is not a number or does not fit, a head longer than
\* max_header_size, bytes after a message that closes: all are errors.
Refuses == stream.whole /\ ~stream.fine /\ Ended => parser.errno # "OK"

\* How many more passes may look at the same unit, by REEXECUTE.
Looks(s) ==
    CASE s \in {"s_header_value_lws", "s_header_value_discard_lws"} -> 3
      [] s \in {"s_header_field_start", "s_res_status_code", "s_start_req_or_res"} -> 2
      [] s \in {"s_headers_almost_done", "s_res_status_start", "s_start_req", "s_start_res",
                "s_header_value", "s_body_identity"} -> 1
      [] OTHER -> 0

\* The unit that is next: within a call, or when it returns what it consumed.
Position == IF p = 0 THEN fed + 1 ELSE p

Forward ==
    \/ Position' > Position
    \/ /\ Position' = Position
       /\ p \in {0, fed + 1} \/ Looks(parser'.state) < Looks(parser.state)

\* GoesForward: however the passes go on without taking a unit (REEXECUTE, the
\* byte that s_body_identity gives back, a callback that pauses), no unit is
\* looked at more than four times and none is gone back to, so that a call
\* ends, and so does a caller that goes on after each pause.
GoesForward == [][Forward]_vars

\* The states in which a chunked body is read, before its trailer.
ChunkStates == {"s_chunk_size_start", "s_chunk_size", "s_chunk_parameters",
                "s_chunk_size_almost_done", "s_chunk_data", "s_chunk_data_almost_done",
                "s_chunk_data_done"}

\* OneFraming: whatever fields a message has, in whatever order, its body is
\* read in one way only: as long as the one length says, if there is no coding;
\* in chunks, if there is no length; or to the end of the stream, if it is no
\* request (the rules quoted at the end of the headers).
OneFraming ==
    LET coded == parser.uses_transfer_encoding
        Has(f) == f \in parser.flags
    IN  /\ parser.state = "s_body_identity" =>
                Has("F_CONTENTLENGTH") /\ ~coded /\ ~Has("F_CHUNKED")
        /\ parser.state \in ChunkStates => ~Has("F_CONTENTLENGTH") /\ coded
        /\ parser.state = "s_body_identity_eof" =>
                parser.type # "HTTP_REQUEST" /\ ~Has("F_CHUNKED")

\* The units of a body with a length, or of a chunk, told or marked so far.
LengthStates == {"s_body_identity", "s_chunk_data", "s_chunk_data_almost_done"}
BodySoFar ==
    (IF heard # <<>> /\ heard[Len(heard)].cb = "body" THEN Len(heard[Len(heard)].data) ELSE 0)
        + (IF marks["body"] = 0 THEN 0 ELSE p - marks["body"])

\* BodyAsDeclared: from the step that begins a body or a chunk to the one that
\* ends it, what is told and what is left add up to the length that was read,
\* wherever pieces end and whoever pauses; it ends with nothing left.
BodyAsDeclared ==
    [][/\ parser.state \notin LengthStates /\ parser'.state \in LengthStates => BodySoFar' = 0
       /\ parser.state \in LengthStates /\ parser'.errno \in {"OK", "PAUSED"} =>
            /\ BodySoFar' + parser'.content_length = BodySoFar + parser.content_length
            /\ parser'.state \notin LengthStates => parser'.content_length = 0]_vars

Follows ==
    [message_begin |-> {"url", "status"}, url |-> {"header_field", "headers_complete"},
     status |-> {"header_field", "headers_complete"},
     header_field |-> {"header_value"},
     header_value |-> {"header_field", "headers_complete", "chunk_complete"},
     headers_complete |-> {"body", "chunk_header", "message_complete"},
     body |-> {"message_complete", "chunk_complete"},
     chunk_header |-> {"body", "header_field", "chunk_complete"},
     chunk_complete |-> {"chunk_header", "message_complete"},
     message_complete |-> {"message_begin"}]

\* CallbackOrder: whatever the bytes are, callbacks come in the order that
\* http_request.c relies on: a value after its name, headers before a body.
CallbackOrder ==
    \A i \in 2..Len(heard) : heard[i].cb \in Follows[heard[i - 1].cb]

\* Assertions: the assert()s of http_parser_execute hold for any bytes.
Assertions ==
    /\ p = fed + 1 => Cardinality({m \in Marked : marks[m] # 0}) <= 1
    /\ At("s_chunk_size_start") => Counted = 1
    /\ \A s \in {"s_body_identity", "s_chunk_data"} :
            At(s) => parser.content_length \notin {0, ULLONG_MAX}
    /\ At("s_chunk_data_almost_done") => parser.content_length = 0
    /\ \A s \in {"s_chunk_size", "s_chunk_parameters", "s_chunk_data", "s_chunk_data_done"} :
            At(s) => "F_CHUNKED" \in parser.flags

\* The units told of the head, or of the trailer, that was read last.
HeadElements == {"url", "status", "header_field", "header_value"}
HeadSize(h) ==
    LET told[i \in 0..Len(h)] ==
            IF i = 0 THEN 0
            ELSE IF h[i].cb \in {"message_begin", "chunk_header"} THEN 0
            ELSE IF h[i].cb \in HeadElements THEN told[i - 1] + Len(h[i].data)
            ELSE told[i - 1]
    IN  told[Len(h)]
HeadTold == HeadSize(heard)

\* HeadBounded: an embedder that keeps the head of a message, or its trailer,
\* and does not pause, never keeps more than max_header_size bytes of it, in
\* however many pieces it comes (the comment at COUNT_HEADER_SIZE).
HeadBounded == ~stream.pauses /\ parser.errno = "OK" => HeadTold <= MaxHeaderSize
=============================================================================
