-------------------------- MODULE HttpParserProofs --------------------------
(***************************************************************************)
(* Proofs about HttpParser, for any streams, cut in any way, and numbers   *)
(* of any width: its type invariant, that the assertions of                *)
(* http_parser_execute hold, that callbacks come in order, that no more of *)
(* a head is told than max_header_size, that every call ends, that a body  *)
(* is framed in one way, and that it is as long as was read for it.        *)
(***************************************************************************)
EXTENDS HttpParser, Positions, SequenceTheorems, FiniteSetTheorems, TLAPS

-----------------------------------------------------------------------------
(* The inductive invariant. *)

Events == [cb : DOMAIN Follows, data : Seq(STRING)]

\* The callback that was made last.
ToldLast(h) == IF h = <<>> THEN "none" ELSE h[Len(h)].cb

LastTold == ToldLast(heard)

\* A parser that can go on has counted no more than it may.
Counts(par) == par.nread <= MaxHeaderSize /\ par.stored <= MaxHeaderSize

\* What is known of a message while its body is read: there is something left
\* of a body or a chunk, and the end of a chunk is the end of its length.
Framed(par) ==
    /\ par.state \in {"s_body_identity", "s_chunk_data"} =>
            par.content_length \notin {0, ULLONG_MAX}
    /\ par.state \in {"s_chunk_size", "s_chunk_parameters", "s_chunk_size_almost_done"} =>
            par.content_length # ULLONG_MAX
    /\ par.state = "s_chunk_data_almost_done" => par.content_length = 0
    /\ par.state = "s_chunk_size_start" => par.nread = 0 /\ par.stored = 0
    /\ par.state \in {"s_chunk_size_start", "s_chunk_size", "s_chunk_parameters",
                      "s_chunk_size_almost_done", "s_chunk_data",
                      "s_chunk_data_almost_done", "s_chunk_data_done"} =>
            "F_CHUNKED" \in par.flags

\* The states in which the beginning of an element may be, or must be, marked.
MayMark == [url |-> UrlStates, status |-> {"s_res_status"},
            header_field |-> {"s_header_field"}, header_value |-> {"s_header_value"},
            body |-> {"s_body_identity", "s_body_identity_eof", "s_chunk_data",
                      "s_chunk_data_almost_done"}]
MarkedIn(s, mk) ==
    \A m \in Marked : /\ mk[m] # 0 => s \in MayMark[m]
                      /\ s \in MayMark[m] /\ m # "body" => mk[m] # 0

\* What the listener has been told last in each state.
BetweenStates == {"s_dead", "s_start_req_or_res", "s_start_res", "s_start_req"}
FieldStates == {"s_header_field_start", "s_header_field", "s_headers_almost_done"}

Telling(par, last) ==
    LET In(S) == par.state \in S
    IN  /\ In(BetweenStates) => last \in {"none", "message_complete"}
        /\ In({"s_res_H", "s_res_http_end", "s_res_first_status_code", "s_res_status_code",
               "s_res_status_start", "s_req_method", "s_req_spaces_before_url"}) =>
                last = "message_begin"
        /\ In({"s_res_status"}) => last \in {"message_begin", "status"}
        /\ In(UrlStates) => last \in {"message_begin", "url"}
        /\ In({"s_res_line_almost_done"}) => last = "status"
        /\ In({"s_req_http_start", "s_req_http_end", "s_req_line_almost_done"}) => last = "url"
        /\ In({"s_header_field_start", "s_headers_almost_done"}) =>
                last \in {"url", "status", "header_value", "chunk_header"}
        /\ In({"s_header_field"}) =>
                last \in {"url", "status", "header_value", "chunk_header", "header_field"}
        /\ In({"s_header_value_discard_ws", "s_header_value_discard_ws_almost_done",
               "s_header_value_discard_lws"}) => last = "header_field"
        /\ In({"s_header_value_start", "s_header_value"}) =>
                last \in {"header_field", "header_value"}
        /\ In({"s_header_almost_done", "s_header_value_lws"}) => last = "header_value"
        /\ In({"s_headers_done"}) => last = "headers_complete"
        /\ In({"s_body_identity", "s_body_identity_eof"}) => last \in {"headers_complete", "body"}
        /\ In({"s_message_done"}) => last \in {"body", "chunk_complete"}
        /\ In({"s_chunk_size_start", "s_chunk_size", "s_chunk_parameters",
               "s_chunk_size_almost_done"}) => last \in {"headers_complete", "chunk_complete"}
        /\ In({"s_chunk_data", "s_chunk_data_almost_done", "s_chunk_data_done"}) =>
                last \in {"chunk_header", "body"}
        \* The trailer comes after a chunk, the first line before all chunks.
        /\ last \in {"message_begin", "url", "status"} => "F_TRAILING" \notin par.flags
        /\ In(FieldStates) /\ last = "chunk_header" => "F_TRAILING" \in par.flags

\* A parser with no error fits what it has told, and what it has marked if it
\* is called.
Fits(par, last) == Counts(par) /\ Framed(par) /\ Telling(par, last)

CallOK ==
    /\ p = 0 => ~redo /\ marks = NoMarks
    /\ p # 0 => parser.errno = "OK" /\ ~over /\ MarkedIn(parser.state, marks)
    /\ redo => parser.state # "s_chunk_size_start"

ParserInv ==
    /\ stream \in Streams /\ TypeOK
    /\ heard \in Seq(Events) /\ CallbackOrder
    /\ CallOK
    /\ parser.errno \in {"OK", "PAUSED"} /\ ~over => Fits(parser, LastTold)
-----------------------------------------------------------------------------
(* What is heard. *)

MayFollow(last, cb) ==
    last = "none" \/ cb \in Follows[last] \/ (last = cb /\ cb \in Marked)

LEMMA Streamed ==
    ASSUME stream \in Streams
    PROVE  /\ stream.wire \in Seq(STRING) /\ Len(stream.wire) \in Nat
           /\ stream.pieces \subseteq Nat \ {0} /\ stream.answer \in 0..2
           /\ stream.pauses \in BOOLEAN
           /\ stream.type \in {"HTTP_REQUEST", "HTTP_RESPONSE", "HTTP_BOTH"}
BY StreamsAssumption

LEMMA Numbers ==
    /\ ULLONG_MAX \in Nat /\ Base \in Nat /\ HexBase \in Nat /\ MaxHeaderSize \in Nat
    /\ 1 < Base /\ Base <= HexBase /\ HexBase < ULLONG_MAX
BY NumbersAssumption

\* A call that calls nobody back is not heard.
LEMMA CallNobody ==
    ASSUME Call(<<>>)
    PROVE  heard' = heard
<1> DEFINE J == [i \in 0..0 |-> heard]
           joined[i \in 0..0] == IF i = 0 THEN heard ELSE Hear(joined[i - 1], <<>>[i])
<1>1. J = [i \in 0..0 |-> IF i = 0 THEN heard ELSE Hear(J[i - 1], <<>>[i])]
  OBVIOUS
<1>2. joined = [i \in 0..0 |-> IF i = 0 THEN heard ELSE Hear(joined[i - 1], <<>>[i])]
  BY <1>1
<1>. QED
  BY <1>2 DEF Call
LEMMA CallOnce ==
    ASSUME NEW c, Call(<<c>>)
    PROVE  heard' = Hear(heard, c)
<1> DEFINE J == [i \in 0..1 |-> IF i = 0 THEN heard ELSE Hear(heard, c)]
           joined[i \in 0..1] == IF i = 0 THEN heard ELSE Hear(joined[i - 1], <<c>>[i])
<1>1. J = [i \in 0..1 |-> IF i = 0 THEN heard ELSE Hear(J[i - 1], <<c>>[i])]
  <2>1. ASSUME NEW i \in 0..1
        PROVE  J[i] = (IF i = 0 THEN heard ELSE Hear(J[i - 1], <<c>>[i]))
    <3>1. CASE i = 0
      BY <3>1
    <3>2. CASE i = 1
      <4>1. J[0] = heard /\ J[1] = Hear(heard, c) /\ <<c>>[1] = c
        OBVIOUS
      <4> HIDE DEF J
      <4>. QED
        BY <3>2, <4>1
    <3>. QED
      BY <3>1, <3>2
  <2>. QED
    BY <2>1
<1>2. joined = [i \in 0..1 |-> IF i = 0 THEN heard ELSE Hear(joined[i - 1], <<c>>[i])]
  BY <1>1
<1>3. joined[0] = heard /\ joined[1] = Hear(joined[0], <<c>>[1])
  <2> HIDE DEF joined
  <2>. QED
    BY <1>2
<1>4. heard' = joined[Len(<<c>>)]
  BY DEF Call
<1>. QED
  <2> HIDE DEF joined
  <2>. QED
    BY <1>3, <1>4

\* An element that goes on is joined; anything else is added, in order.
LEMMA HearsInOrder ==
    ASSUME heard \in Seq(Events), CallbackOrder, NEW c \in Events, MayFollow(LastTold, c.cb),
           heard' = Hear(heard, c)
    PROVE  heard' \in Seq(Events) /\ CallbackOrder' /\ LastTold' = c.cb
<1> DEFINE n == Len(heard)
<1>1. CASE heard # <<>> /\ c.cb \in Marked /\ heard[n].cb = c.cb
  <2>1. n \in Nat \ {0} /\ heard[n] \in Events /\ DOMAIN heard = 1..n
    BY <1>1
  <2> DEFINE e == [heard[n] EXCEPT !.data = @ \o c.data]
  <2>2. e \in Events /\ e.cb = c.cb
    <3>1. heard[n].data \o c.data \in Seq(STRING)
      BY <2>1, ConcatProperties DEF Events
    <3>. QED
      BY <2>1, <3>1, <1>1 DEF Events
  <2>3. heard' = [heard EXCEPT ![n] = e]
    BY <1>1 DEF Hear
  <2> HIDE DEF e
  <2>4. /\ heard' \in Seq(Events) /\ Len(heard') = n
        /\ \A i \in 1..n : heard'[i].cb = heard[i].cb
    <3>1. heard' \in Seq(Events) /\ Len(heard') = n
      BY <2>1, <2>2, <2>3, ExceptSeq
    <3>2. ASSUME NEW i \in 1..n PROVE heard'[i].cb = heard[i].cb
      BY <2>1, <2>2, <2>3, <1>1
    <3>. QED
      BY <3>1, <3>2
  <2>5. CallbackOrder'
    BY <2>4, <2>1 DEF CallbackOrder
  <2>6. LastTold' = c.cb
    BY <2>1, <2>4, <1>1 DEF LastTold, ToldLast
  <2>. QED
    BY <2>4, <2>5, <2>6
<1>2. CASE ~(heard # <<>> /\ c.cb \in Marked /\ heard[n].cb = c.cb)
  <2>1. heard' = Append(heard, c) /\ n \in Nat
    <3>1. n \in Nat
      OBVIOUS
    <3>2. Hear(heard, c) = Append(heard, c)
      BY <1>2, Zenon DEF Hear
    <3>. QED
      BY <3>1, <3>2
  <2>2. /\ heard' \in Seq(Events) /\ Len(heard') = n + 1 /\ heard'[n + 1] = c
        /\ \A i \in 1..n : heard'[i] = heard[i]
    BY <2>1
  <2>3. n > 0 => c.cb \in Follows[heard[n].cb]
    <3>1. n > 0 => heard # <<>> /\ LastTold = heard[n].cb /\ heard[n] \in Events
      BY <2>1 DEF LastTold, ToldLast
    <3>2. n > 0 => LastTold # "none"
      BY <3>1 DEF Events, Follows
    <3>. QED
      BY <3>1, <3>2, <1>2 DEF MayFollow
  <2>4. CallbackOrder'
    <3>1. ASSUME NEW i \in 2..(n + 1) PROVE heard'[i].cb \in Follows[heard'[i - 1].cb]
      <4>1. CASE i = n + 1
        <5>1. n \in 1..n /\ i - 1 = n /\ n > 0
          BY <4>1, <2>1
        <5>. QED
          BY <5>1, <4>1, <2>2, <2>3
      <4>2. CASE i # n + 1
        <5>1. i \in 2..n /\ i \in 1..n /\ i - 1 \in 1..n
          BY <4>2, <2>1
        <5>. QED
          BY <5>1, <2>2 DEF CallbackOrder
      <4>. QED
        BY <4>1, <4>2
    <3>. QED
      BY <3>1, <2>2 DEF CallbackOrder
  <2>5. LastTold' = c.cb
    BY <2>1, <2>2 DEF LastTold, ToldLast
  <2>. QED
    BY <2>2, <2>4, <2>5
<1>. QED
  BY <1>1, <1>2
-----------------------------------------------------------------------------
(* The ways a pass ends. *)

\* A parser that goes on, and what it has marked.
GoesOn(par, to, again, mk, last) ==
    /\ par \in Parsers /\ par.errno = "OK" /\ Fits(par, last)
    /\ to \in p..(fed + 1) /\ again \in BOOLEAN
    /\ again => par.state # "s_chunk_size_start"
    /\ mk \in [Marked -> 0..fed] /\ MarkedIn(par.state, mk)

\* A parser that stops at an error.
Halts(par) == /\ par \in Parsers /\ par.nread <= 2 * (MaxHeaderSize + Len(stream.wire))
              /\ par.errno \notin {"OK", "PAUSED"}

Hearing(h, last) == h \in Seq(Events) /\ CallbackOrder' /\ LastTold' = last

LEMMA SamePlaces ==
    ASSUME ParserInv
    PROVE  /\ Len(stream.wire) \in Nat /\ fed \in Nat /\ first \in Nat /\ p \in Nat
           /\ fed <= Len(stream.wire) /\ 1 <= first /\ first <= fed + 1
           /\ p <= fed + 1 /\ (p # 0 => p >= first)
BY Streamed DEF ParserInv, TypeOK

LEMMA GoingOn ==
    ASSUME ParserInv, p # 0, NEW par, NEW to, NEW again, NEW mk, NEW last,
           GoesOn(par, to, again, mk, last),
           parser' = par, p' = to, redo' = again, marks' = mk, Hearing(heard', last),
           UNCHANGED <<stream, first, fed, whole, over>>
    PROVE  ParserInv'
<1>1. stream' \in Streams /\ heard' \in Seq(Events) /\ CallbackOrder'
  BY DEF ParserInv, Hearing
<1>2. /\ fed' \in 0..Len(stream'.wire) /\ first' \in 1..(fed' + 1)
      /\ p' \in 0..(fed' + 1) /\ p' # 0 /\ p' >= first' /\ redo' \in BOOLEAN
  BY SamePlaces DEF GoesOn
<1>3. marks' \in [Marked -> 0..fed'] /\ whole' \in BOOLEAN /\ over' \in BOOLEAN
  BY DEF GoesOn, ParserInv, TypeOK
<1>4. parser' \in Parsers /\ parser'.errno = "OK" /\ Fits(parser', LastTold')
  BY DEF GoesOn, Hearing
<1>5. parser'.nread <= 2 * (MaxHeaderSize + Len(stream'.wire))
  <2>1. parser'.nread \in Nat /\ parser'.nread <= MaxHeaderSize
    BY <1>4 DEF Fits, Counts, Parsers
  <2>. QED
    BY <2>1, SamePlaces, Numbers
<1>6. CallOK'
  <2>1. ~over
    BY DEF ParserInv, CallOK
  <2>. QED
    BY <1>2, <1>4, <2>1 DEF CallOK, GoesOn
<1>7. TypeOK'
  BY <1>2, <1>3, <1>4, <1>5 DEF TypeOK
<1>. QED
  BY <1>1, <1>4, <1>6, <1>7 DEF ParserInv

LEMMA Pausing ==
    ASSUME ParserInv, p # 0, NEW par, NEW to, NEW again, NEW mk, NEW last, NEW cs,
           GoesOn(par, to, again, mk, last),
           Paused(par, to, cs), Hearing(heard', last)
    PROVE  ParserInv'
<1>1. stream' \in Streams /\ heard' \in Seq(Events) /\ CallbackOrder'
  BY DEF ParserInv, Hearing, Paused
<1>2. /\ fed' \in 0..Len(stream'.wire) /\ first' \in 1..(fed' + 1)
      /\ p' = 0 /\ p' \in 0..(fed' + 1) /\ redo' = FALSE
  BY SamePlaces DEF GoesOn, Paused
<1>3. marks' = NoMarks /\ marks' \in [Marked -> 0..fed'] /\ whole' = FALSE /\ over' \in BOOLEAN
  BY <1>2, SamePlaces DEF Paused, ParserInv, TypeOK, NoMarks
<1>4. /\ par \in Parsers /\ parser' = [par EXCEPT !.errno = "PAUSED", !.nread = par.stored]
      /\ Fits(par, last) /\ LastTold' = last
  BY DEF Paused, GoesOn, Hearing
<1>5. /\ parser' \in Parsers /\ parser'.errno = "PAUSED" /\ parser'.nread = par.stored
      /\ parser'.stored = par.stored /\ parser'.state = par.state /\ parser'.flags = par.flags
      /\ parser'.content_length = par.content_length
  BY <1>4 DEF Parsers
<1>6. Fits(parser', LastTold')
  <2>1. Counts(parser')
    BY <1>4, <1>5 DEF Fits, Counts
  <2>2. Framed(parser')
    BY <1>4, <1>5 DEF Fits, Framed
  <2>3. Telling(parser', LastTold')
    BY <1>4, <1>5 DEF Fits, Telling
  <2>. QED
    BY <2>1, <2>2, <2>3 DEF Fits
<1>7. parser'.nread <= 2 * (MaxHeaderSize + Len(stream'.wire))
  <2>1. parser'.nread \in Nat /\ parser'.nread <= MaxHeaderSize
    BY <1>5, <1>6 DEF Fits, Counts, Parsers
  <2>. QED
    BY SMTT(30), <2>1, SamePlaces, Numbers DEF Paused
<1>8. CallOK'
  BY <1>2, <1>3 DEF CallOK
<1>9. TypeOK'
  BY <1>2, <1>3, <1>5, <1>7 DEF TypeOK
<1>. QED
  BY <1>1, <1>6, <1>8, <1>9 DEF ParserInv

LEMMA Stopping ==
    ASSUME ParserInv, p # 0, NEW par, NEW all \in BOOLEAN, NEW cs, NEW last,
           Return(par, all, cs), Halts(par) \/ (\E to, again, mk : GoesOn(par, to, again, mk, last)),
           Hearing(heard', last)
    PROVE  ParserInv'
<1>1. stream' \in Streams /\ heard' \in Seq(Events) /\ CallbackOrder'
  BY DEF ParserInv, Hearing, Return
<1>2. /\ fed' \in 0..Len(stream'.wire) /\ first' \in 1..(fed' + 1)
      /\ p' = 0 /\ p' \in 0..(fed' + 1) /\ redo' = FALSE
  BY SamePlaces DEF Return
<1>3. /\ marks' = NoMarks /\ marks' \in [Marked -> 0..fed']
      /\ whole' \in BOOLEAN /\ over' \in BOOLEAN
  BY <1>2, SamePlaces DEF Return, ParserInv, TypeOK, NoMarks
<1>4. CallOK'
  BY <1>2, <1>3 DEF CallOK
<1>5. par \in Parsers /\ parser' = [par EXCEPT !.stored = par.nread]
  BY DEF Return, Halts, GoesOn
<1>6. /\ parser' \in Parsers /\ parser'.errno = par.errno /\ parser'.nread = par.nread
      /\ parser'.nread \in Nat
      /\ parser'.stored = par.nread /\ parser'.state = par.state /\ parser'.flags = par.flags
      /\ parser'.content_length = par.content_length
  BY <1>5 DEF Parsers
<1>7. CASE Halts(par)
  <2>1. parser'.nread <= 2 * (MaxHeaderSize + Len(stream'.wire))
    BY <1>6, <1>7 DEF Halts, Return
  <2>2. TypeOK'
    BY <1>2, <1>3, <1>6, <2>1 DEF TypeOK
  <2>. QED
    BY <1>1, <1>4, <1>6, <1>7, <2>2 DEF ParserInv, Halts
<1>8. CASE \E to, again, mk : GoesOn(par, to, again, mk, last)
  <2>1. Fits(par, last) /\ LastTold' = last
    BY <1>8 DEF GoesOn, Hearing
  <2>2. Fits(parser', LastTold')
    <3>1. Counts(parser')
      BY <1>6, <2>1 DEF Fits, Counts
    <3>2. Framed(parser')
      BY <1>6, <2>1 DEF Fits, Framed
    <3>3. Telling(parser', LastTold')
      BY <1>6, <2>1 DEF Fits, Telling
    <3>. QED
      BY <3>1, <3>2, <3>3 DEF Fits
  <2>3. parser'.nread <= 2 * (MaxHeaderSize + Len(stream'.wire))
    BY SMTT(30), <1>6, <2>2, SamePlaces, Numbers DEF Fits, Counts, Return
  <2>4. TypeOK'
    BY <1>2, <1>3, <1>6, <2>3 DEF TypeOK
  <2>. QED
    BY <1>1, <1>4, <2>2, <2>4 DEF ParserInv
<1>. QED
  BY <1>7, <1>8
LEMMA Passes ==
    ASSUME ParserInv, p # 0, NEW par, NEW to, NEW again, NEW mk,
           Pass(par, to, again, <<>>, mk), GoesOn(par, to, again, mk, LastTold)
    PROVE  ParserInv'
<1>1. Call(<<>>)
  BY DEF Pass, Paused
<1>2. Hearing(heard', LastTold)
  BY <1>1, CallNobody DEF Hearing, ParserInv, CallbackOrder, LastTold
<1>3. CASE Paused(par, to, <<>>)
  BY <1>2, <1>3, Pausing
<1>4. CASE ~Paused(par, to, <<>>)
  BY <1>2, <1>4, GoingOn DEF Pass
<1>. QED
  BY <1>3, <1>4

LEMMA HearsOne ==
    ASSUME ParserInv, NEW c \in Events, Call(<<c>>), MayFollow(LastTold, c.cb)
    PROVE  Hearing(heard', c.cb)
<1>1. heard' = Hear(heard, c)
  BY CallOnce
<1>. QED
  BY <1>1, HearsInOrder DEF Hearing, ParserInv

LEMMA PassesTelling ==
    ASSUME ParserInv, p # 0, NEW par, NEW to, NEW again, NEW mk, NEW c \in Events,
           NEW cs, cs = <<c>>, Pass(par, to, again, cs, mk), GoesOn(par, to, again, mk, c.cb),
           MayFollow(LastTold, c.cb)
    PROVE  ParserInv'
<1>1. Call(<<c>>)
  BY DEF Pass, Paused
<1>2. Hearing(heard', c.cb)
  BY <1>1, HearsOne
<1>3. CASE Paused(par, to, cs)
  BY <1>2, <1>3, Pausing
<1>4. CASE ~Paused(par, to, cs)
  BY <1>2, <1>4, GoingOn DEF Pass
<1>. QED
  BY <1>3, <1>4

\* What the parser looks at.
LEMMA Looking ==
    ASSUME ParserInv, Reading
    PROVE  /\ p # 0 /\ p \in 1..fed /\ fed \in 1..Len(stream.wire) /\ fed \in Nat
           /\ Len(stream.wire) \in Nat /\ Unit \in STRING
           /\ parser \in Parsers /\ parser.errno = "OK" /\ Fits(parser, LastTold)
           /\ Counted \in Nat /\ Counted <= MaxHeaderSize + 1 /\ Counted >= parser.nread
           /\ Now \in Parsers /\ Now.nread = Counted
           /\ Now = [parser EXCEPT !.nread = Counted]
           /\ marks \in [Marked -> 0..fed] /\ MarkedIn(parser.state, marks)
<1>1. /\ p # 0 /\ p \in 1..fed /\ fed \in 1..Len(stream.wire) /\ fed \in Nat
      /\ Len(stream.wire) \in Nat
  BY SamePlaces DEF Reading
<1>2. Unit \in STRING
  BY <1>1, Streamed DEF ParserInv, Unit
<1>3. /\ parser \in Parsers /\ parser.errno = "OK" /\ Fits(parser, LastTold)
      /\ marks \in [Marked -> 0..fed] /\ MarkedIn(parser.state, marks)
  BY <1>1 DEF ParserInv, CallOK, TypeOK
<1>4. Counted \in Nat /\ Counted <= MaxHeaderSize + 1 /\ Counted >= parser.nread
  <2>1. parser.nread \in Nat /\ parser.nread <= MaxHeaderSize
    BY <1>3 DEF Fits, Counts, Parsers
  <2>2. Counted = parser.nread + 1 \/ Counted = parser.nread
    BY Zenon DEF Counted
  <2>. QED
    BY <2>1, <2>2, Numbers
<1>5. Now \in Parsers /\ Now.nread = Counted
  BY <1>3, <1>4 DEF Now, Parsers
<1>. QED
  BY <1>1, <1>2, <1>3, <1>4, <1>5 DEF Now

LEMMA Returns ==
    ASSUME ParserInv, p # 0, NEW par, Return(par, FALSE, <<>>), Halts(par)
    PROVE  ParserInv'
<1>1. Call(<<>>)
  BY DEF Return
<1>2. Hearing(heard', LastTold)
  BY <1>1, CallNobody DEF Hearing, ParserInv, CallbackOrder, LastTold
<1>. QED
  BY <1>2, Stopping

Errors == {"INVALID_EOF_STATE", "INVALID_STATUS", "HEADER_OVERFLOW", "CLOSED_CONNECTION",
           "INVALID_VERSION", "INVALID_METHOD", "INVALID_URL", "LF_EXPECTED",
           "INVALID_HEADER_TOKEN", "INVALID_CONTENT_LENGTH", "STRICT",
           "UNEXPECTED_CONTENT_LENGTH", "INVALID_CHUNK_SIZE", "INVALID_CONSTANT",
           "INVALID_TRANSFER_ENCODING"}

LEMMA Fails ==
    ASSUME ParserInv, Reading, NEW e \in Errors, Error(e)
    PROVE  ParserInv'
<1> DEFINE par == [Now EXCEPT !.errno = e]
<1>1. Return(par, FALSE, <<>>)
  BY DEF Error
<1>2. Now \in Parsers /\ Now.nread \in Nat /\ Now.nread <= MaxHeaderSize + 1
      /\ Len(stream.wire) \in Nat /\ Len(stream.wire) >= 1
  BY Looking
<1>3. par \in Parsers /\ par.nread = Now.nread /\ par.errno = e
  BY ZenonT(30), <1>2 DEF Parsers, Errors
<1>4. Halts(par)
  <2>1. Now.nread <= 2 * (MaxHeaderSize + Len(stream.wire))
    BY <1>2, Numbers
  <2>. QED
    BY <1>3, <2>1 DEF Halts, Errors
<1>5. p # 0
  BY DEF Reading
<1> HIDE DEF par
<1>. QED
  BY <1>1, <1>4, <1>5, Returns
\* States in which nothing is marked, and those where no length is known either.
UnmarkedStates == BetweenStates \cup
    {"s_res_H", "s_res_http_end", "s_res_first_status_code", "s_res_status_code", "s_res_status_start",
     "s_res_line_almost_done", "s_req_method", "s_req_spaces_before_url",
     "s_req_http_start", "s_req_http_end", "s_req_line_almost_done", "s_header_field_start",
     "s_header_value_discard_ws", "s_header_value_discard_ws_almost_done",
     "s_header_value_discard_lws", "s_header_value_start", "s_header_value_lws",
     "s_header_almost_done", "s_headers_almost_done", "s_headers_done",
     "s_chunk_size_start", "s_chunk_size", "s_chunk_parameters", "s_chunk_size_almost_done",
     "s_chunk_data_done", "s_message_done"}

FramedStates == {"s_body_identity", "s_chunk_data", "s_chunk_size_start", "s_chunk_size",
                 "s_chunk_parameters", "s_chunk_size_almost_done", "s_chunk_data_almost_done",
                 "s_chunk_data_done"}
PlainStates == UnmarkedStates \ FramedStates

LEMMA Unmarked ==
    ASSUME NEW s \in UnmarkedStates, NEW m \in Marked
    PROVE  s \notin MayMark[m]
<1>1. m \in {"url", "status", "header_field", "header_value", "body"}
  BY DEF Marked
<1>. QED
  BY <1>1 DEF UnmarkedStates, BetweenStates, MayMark, UrlStates

\* Marks do not matter in those states.
LEMMA NothingMarked ==
    ASSUME NEW mk, NEW s \in UnmarkedStates, NEW s1 \in UnmarkedStates, MarkedIn(s, mk)
    PROVE  MarkedIn(s1, mk) /\ \A m \in Marked : mk[m] = 0
BY Unmarked DEF MarkedIn

\* From a state to another one without a mark, and without a callback.
LEMMA Plainly ==
    ASSUME ParserInv, Reading, NEW par \in Parsers, par.errno = "OK", Counts(par),
           parser.state \in UnmarkedStates, par.state \in UnmarkedStates, Framed(par),
           Telling(par, LastTold),
           Break(par) \/ (Reexecute(par) /\ par.state # "s_chunk_size_start")
    PROVE  ParserInv'
<1>1. MarkedIn(par.state, marks)
  BY Looking, NothingMarked
<1>2. GoesOn(par, p + 1, FALSE, marks, LastTold)
  BY <1>1, Looking DEF GoesOn, Fits
<1>3. par.state # "s_chunk_size_start" => GoesOn(par, p, TRUE, marks, LastTold)
  BY <1>1, Looking DEF GoesOn, Fits
<1>. QED
  BY <1>2, <1>3, Passes, Looking DEF Break, Reexecute

LEMMA Goes ==
    ASSUME ParserInv, Reading, Counted <= MaxHeaderSize, NEW s \in PlainStates,
           parser.state \in UnmarkedStates, Goto(s),
           Telling(parser, LastTold) => Telling([Now EXCEPT !.state = s], LastTold)
    PROVE  ParserInv'
<1> DEFINE par == [Now EXCEPT !.state = s]
<1>1. s \in UnmarkedStates /\ s \notin FramedStates /\ s \in UrlStates \cup BodyStates \cup HeaderLineStates
  BY DEF PlainStates, FramedStates, UnmarkedStates, BetweenStates, BodyStates, HeaderLineStates
<1>2. par \in Parsers /\ par.errno = "OK" /\ par.nread = Counted /\ par.stored = parser.stored
      /\ par.state = s
  BY ZenonT(30), <1>1, Looking DEF Parsers
<1>3. Framed(par) /\ Counts(par) /\ Telling(par, LastTold)
  <2>1. Framed(par)
    BY <1>1, <1>2 DEF Framed, FramedStates
  <2>2. Counts(par)
    BY <1>2, Looking DEF Counts, Fits
  <2>. QED
    BY <2>1, <2>2, Looking DEF Fits
<1>4. Break(par)
  BY DEF Goto
<1> HIDE DEF par
<1>. QED
  BY <1>1, <1>2, <1>3, <1>4, Plainly

\* A unit that is skipped.
LEMMA Skips ==
    ASSUME ParserInv, Reading, Counted <= MaxHeaderSize, parser.state # "s_chunk_size_start", Break(Now)
    PROVE  ParserInv'
<1>1. /\ Now \in Parsers /\ Now.errno = "OK" /\ Now.stored = parser.stored /\ Now.state = parser.state
      /\ Now.flags = parser.flags /\ Now.content_length = parser.content_length
  BY Looking DEF Parsers
<1>2. Fits(Now, LastTold)
  <2>1. Framed(Now)
    BY <1>1, Looking DEF Framed, Fits
  <2>2. Counts(Now)
    BY <1>1, Looking DEF Counts, Fits
  <2>3. Telling(Now, LastTold)
    BY <1>1, Looking DEF Telling, Fits
  <2>. QED
    BY <2>1, <2>2, <2>3 DEF Fits
<1>3. GoesOn(Now, p + 1, FALSE, marks, LastTold)
  BY <1>1, <1>2, Looking DEF GoesOn
<1>. QED
  BY <1>3, Passes, Looking DEF Break

-----------------------------------------------------------------------------
(* The status line. *)

LEMMA ResHttpEndKeeps == ASSUME ParserInv, ResHttpEnd PROVE ParserInv'
<1>1. Reading /\ parser.state = "s_res_http_end" /\ Counted <= MaxHeaderSize
  BY DEF ResHttpEnd, At
<1>2. CASE Goto("s_res_first_status_code")
  <2>1. Telling(parser, LastTold) => Telling([Now EXCEPT !.state = "s_res_first_status_code"], LastTold)
    BY ZenonT(30), <1>1, Looking DEF Telling, Parsers, BetweenStates, UrlStates, FieldStates
  <2>. QED
    BY <1>1, <1>2, <2>1, Goes DEF UnmarkedStates, PlainStates, FramedStates
<1>3. CASE Error("INVALID_VERSION")
  BY <1>1, <1>3, Fails DEF Errors
<1>. QED
  BY <1>2, <1>3 DEF ResHttpEnd
LEMMA NotifyType ==
    ASSUME NEW cb \in DOMAIN Follows
    PROVE  [cb |-> cb, data |-> <<>>] \in Events
BY DEF Events

\* A callback between two states without a mark.
LEMMA Notifies ==
    ASSUME ParserInv, Reading, NEW par \in Parsers, par.errno = "OK", Counts(par),
           parser.state \in UnmarkedStates, par.state \in UnmarkedStates, Framed(par),
           NEW cb \in DOMAIN Follows, Telling(par, cb), MayFollow(LastTold, cb),
           \/ Pass(par, p + 1, FALSE, Notify(cb), marks)
           \/ Pass(par, p, TRUE, Notify(cb), marks) /\ par.state # "s_chunk_size_start"
    PROVE  ParserInv'
<1> DEFINE c == [cb |-> cb, data |-> <<>>]
<1>1. c \in Events /\ c.cb = cb /\ Notify(cb) = <<c>>
  BY NotifyType DEF Notify
<1>2. MarkedIn(par.state, marks)
  BY Looking, NothingMarked
<1>3. GoesOn(par, p + 1, FALSE, marks, cb)
  BY <1>2, Looking DEF GoesOn, Fits
<1>4. par.state # "s_chunk_size_start" => GoesOn(par, p, TRUE, marks, cb)
  BY <1>2, Looking DEF GoesOn, Fits
<1> HIDE DEF c
<1>5. p # 0 /\ MayFollow(LastTold, c.cb)
  BY <1>1 DEF Reading
<1>6. CASE Pass(par, p + 1, FALSE, Notify(cb), marks)
  BY <1>1, <1>3, <1>5, <1>6, PassesTelling
<1>7. CASE Pass(par, p, TRUE, Notify(cb), marks) /\ par.state # "s_chunk_size_start"
  BY <1>1, <1>4, <1>5, <1>7, PassesTelling
<1>. QED
  BY <1>6, <1>7

LEMMA FreshType ==
    ASSUME ParserInv, Reading, Counted <= MaxHeaderSize
    PROVE  /\ Fresh \in Parsers /\ Fresh.errno = "OK" /\ Fresh.flags = {}
           /\ Fresh.nread = Counted /\ Fresh.stored = parser.stored
           /\ Fresh.state = parser.state
           /\ Counts(Fresh)
<1> DEFINE n == Now
<1>1. /\ n \in Parsers /\ n.errno = "OK" /\ n.nread = Counted /\ n.stored = parser.stored
      /\ n.state = parser.state
  BY Looking DEF Parsers
<1>2. Fresh = [n EXCEPT !.flags = {}, !.uses_transfer_encoding = FALSE,
                        !.content_length = ULLONG_MAX]
  BY DEF Fresh
<1> HIDE DEF n
<1>3. /\ Fresh \in Parsers /\ Fresh.errno = "OK" /\ Fresh.flags = {}
      /\ Fresh.nread = Counted /\ Fresh.stored = parser.stored /\ Fresh.state = parser.state
  <2>1. ULLONG_MAX \in 0..ULLONG_MAX /\ {} \in SUBSET Flags
    BY Numbers
  <2>. QED
    BY <1>1, <1>2, <2>1 DEF Parsers
<1>. QED
  BY <1>3, Looking DEF Counts, Fits

LEMMA BeginsMessage ==
    ASSUME ParserInv, Reading, parser.state \in BetweenStates, NEW par \in Parsers,
           par.errno = "OK", Counts(par),
           par.state \in {"s_req_method", "s_res_H", "s_res_http_end"}, par.flags = {},
           MessageBegin(par) \/ Pass(par, p, TRUE, Notify("message_begin"), marks)
    PROVE  ParserInv'
<1>1. par.state \in UnmarkedStates /\ parser.state \in UnmarkedStates
  BY DEF UnmarkedStates
<1>2. Framed(par)
  BY DEF Framed
<1>3. Telling(par, "message_begin")
  BY DEF Telling, BetweenStates, UrlStates, FieldStates
<1>4. LastTold \in {"none", "message_complete"}
  BY Looking DEF Fits, Telling
<1>5. "message_begin" \in DOMAIN Follows /\ MayFollow(LastTold, "message_begin")
  BY <1>4 DEF Follows, MayFollow
<1>. QED
  BY <1>1, <1>2, <1>3, <1>5, Notifies DEF MessageBegin

\* The parser as it is when a message begins.
LEMMA BegunType ==
    ASSUME ParserInv, Reading, Counted <= MaxHeaderSize, NEW s \in HeaderLineStates
    PROVE  /\ [Fresh EXCEPT !.state = s] \in Parsers
           /\ [Fresh EXCEPT !.state = s].errno = "OK"
           /\ [Fresh EXCEPT !.state = s].flags = {}
           /\ [Fresh EXCEPT !.state = s].state = s
           /\ [Fresh EXCEPT !.state = s].nread = Counted
           /\ Counts([Fresh EXCEPT !.state = s])
<1> DEFINE par == [Fresh EXCEPT !.state = s]
<1>1. /\ par \in Parsers /\ par.errno = "OK" /\ par.flags = {} /\ par.state = s
      /\ par.nread = Fresh.nread /\ par.stored = Fresh.stored
  BY ZenonT(30), FreshType DEF Parsers
<1> HIDE DEF par
<1>2. Counts(par)
  BY <1>1, FreshType DEF Counts
<1>. QED
  BY <1>1, <1>2, FreshType DEF par

\* A message that is refused before it begins.
LEMMA FreshFails ==
    ASSUME ParserInv, Reading, Counted <= MaxHeaderSize, NEW e \in Errors,
           Return([Fresh EXCEPT !.errno = e], FALSE, <<>>)
    PROVE  ParserInv'
<1> DEFINE par == [Fresh EXCEPT !.errno = e]
<1>1. par \in Parsers /\ par.errno = e /\ par.nread = Counted
  BY ZenonT(30), FreshType DEF Parsers, Errors
<1>2. par.nread <= 2 * (MaxHeaderSize + Len(stream.wire))
  BY <1>1, Looking, Numbers
<1>3. Halts(par)
  BY <1>1, <1>2 DEF Halts, Errors
<1> HIDE DEF par
<1>. QED
  BY <1>3, Returns, Looking DEF par

LEMMA StartResKeeps == ASSUME ParserInv, StartRes PROVE ParserInv'
<1>1. Reading /\ parser.state = "s_start_res" /\ Counted <= MaxHeaderSize
  BY DEF StartRes, At
<1>2. CASE Break(Now)
  BY <1>1, <1>2, Skips
<1>3. CASE Unit \in Versions /\ MessageBegin([Fresh EXCEPT !.state = "s_res_http_end", !.version = Unit])
  <2> DEFINE par == [Fresh EXCEPT !.state = "s_res_http_end", !.version = Unit]
  <2>1. /\ par \in Parsers /\ par.errno = "OK" /\ par.flags = {} /\ par.state = "s_res_http_end"
        /\ par.nread = Fresh.nread /\ par.stored = Fresh.stored
    BY <1>1, <1>3, FreshType DEF Parsers, HeaderLineStates
  <2>2. Counts(par)
    BY <1>1, <2>1, FreshType DEF Counts
  <2> HIDE DEF par
  <2>. QED
    BY <1>1, <1>3, <2>1, <2>2, BeginsMessage DEF par, BetweenStates
<1>4. CASE Return([Fresh EXCEPT !.errno = "INVALID_CONSTANT"], FALSE, <<>>)
  BY <1>1, <1>4, FreshFails DEF Errors
<1>5. CASE Pass([Fresh EXCEPT !.state = "s_res_H"], p, TRUE, Notify("message_begin"), marks)
  <2> DEFINE par == [Fresh EXCEPT !.state = "s_res_H"]
  <2>1. /\ par \in Parsers /\ par.errno = "OK" /\ par.flags = {} /\ par.state = "s_res_H"
        /\ Counts(par)
    BY <1>1, BegunType DEF HeaderLineStates
  <2> HIDE DEF par
  <2>. QED
    BY <1>1, <1>5, <2>1, BeginsMessage DEF par, BetweenStates
<1>. QED
  BY <1>2, <1>3, <1>4, <1>5 DEF StartRes

LEMMA ResHKeeps == ASSUME ParserInv, ResH PROVE ParserInv'
BY Fails DEF ResH, At, Errors

\* A digit more is a number, and the first one is a code.
LEMMA CodeTypes ==
    ASSUME NEW n \in Nat, NEW u, IsCode(u)
    PROVE  WithCode(n, u) \in Nat /\ WithCode(0, u) \in Codes
<1>1. CASE IsNum(u)
  <2>1. u \in {"d0", "d1", "d2", "d3"} /\ Digit[u] \in 0..3
    BY <1>1 DEF IsNum, Digit
  <2>. QED
    BY <1>1, <2>1 DEF WithCode, Codes
<1>2. CASE ~IsNum(u)
  <2>1. u \in {"100", "101", "200", "204", "304"}
    BY <1>2 DEF IsCode, Statuses
  <2>2. StatusNumber(u) \in 0..999
    BY <2>1 DEF StatusNumber
  <2>. QED
    BY <1>2, <2>2 DEF WithCode, Codes
<1>. QED
  BY <1>1, <1>2

\* The code is all that changes.
LEMMA NewCode ==
    ASSUME ParserInv, Reading, Counted <= MaxHeaderSize, NEW n \in Codes
    PROVE  /\ [Now EXCEPT !.status_code = n] \in Parsers
           /\ [Now EXCEPT !.status_code = n].errno = "OK"
           /\ [Now EXCEPT !.status_code = n].flags = parser.flags
           /\ [Now EXCEPT !.status_code = n].state = parser.state
           /\ [Now EXCEPT !.status_code = n].nread = Counted
           /\ [Now EXCEPT !.status_code = n].stored = parser.stored
BY ZenonT(30), Looking DEF Parsers

LEMMA FirstStatusCodeKeeps == ASSUME ParserInv, FirstStatusCode PROVE ParserInv'
<1>1. Reading /\ parser.state = "s_res_first_status_code" /\ Counted <= MaxHeaderSize
  BY DEF FirstStatusCode, At
<1>2. CASE Break(Now)
  BY <1>1, <1>2, Skips
<1> DEFINE par == [Now EXCEPT !.status_code = WithCode(0, Unit), !.state = "s_res_status_code"]
<1>3. CASE IsCode(Unit) /\ Break(par)
  <2>1. PICK n \in Codes : n = WithCode(0, Unit)
    BY <1>3, CodeTypes
  <2>2. /\ par \in Parsers /\ par.errno = "OK" /\ par.flags = parser.flags
        /\ par.state = "s_res_status_code"
        /\ par.nread = Counted /\ par.stored = parser.stored
    <3>1. par = [[Now EXCEPT !.status_code = n] EXCEPT !.state = "s_res_status_code"]
      BY <2>1
    <3>2. \E q \in Parsers : q = [Now EXCEPT !.status_code = n]
      BY <1>1, NewCode
    <3> HIDE DEF par
    <3>3. PICK q \in Parsers : q = [Now EXCEPT !.status_code = n]
      BY <3>2
    <3>4. /\ q.errno = "OK" /\ q.flags = parser.flags /\ q.nread = Counted
          /\ q.stored = parser.stored
      BY <1>1, <3>3, NewCode
    <3>. QED
      BY ZenonT(30), <3>1, <3>3, <3>4 DEF Parsers, HeaderLineStates
  <2> HIDE DEF par
  <2>3. Counts(par) /\ Framed(par)
    BY <1>1, <2>2, Looking DEF Counts, Framed, Fits
  <2>4. Telling(par, LastTold)
    BY <1>1, <2>2, Looking DEF Telling, Fits, BetweenStates, UrlStates, FieldStates
  <2>. QED
    BY <1>1, <1>3, <2>2, <2>3, <2>4, Plainly DEF UnmarkedStates
<1>4. CASE Error("INVALID_STATUS")
  BY <1>1, <1>4, Fails DEF Errors
<1>. QED
  BY <1>2, <1>3, <1>4 DEF FirstStatusCode
-----------------------------------------------------------------------------
(* Elements. *)

\* A state belongs to one element at most.
LEMMA OneElement ==
    ASSUME NEW m \in Marked, NEW m1 \in Marked, m1 # m, NEW s \in MayMark[m]
    PROVE  s \notin MayMark[m1]
<1>1. /\ m \in {"url", "status", "header_field", "header_value", "body"}
      /\ m1 \in {"url", "status", "header_field", "header_value", "body"}
  BY DEF Marked
<1>2. s \in MayMark[m1] => FALSE
  BY <1>1 DEF MayMark, UrlStates
<1>. QED
  BY <1>2

\* The callback for an element with a mark.
LEMMA DataTold ==
    ASSUME ParserInv, NEW m \in Marked, NEW to \in Nat, to <= Len(stream.wire) + 1
    PROVE  /\ marks[m] = 0 => Data(m, to) = <<>>
           /\ marks[m] # 0 => \E c \in Events : Data(m, to) = <<c>> /\ c.cb = m
<1>1. marks[m] = 0 => Data(m, to) = <<>>
  BY DEF Data
<1>2. ASSUME marks[m] # 0 PROVE \E c \in Events : Data(m, to) = <<c>> /\ c.cb = m
  <2> DEFINE c == [cb |-> m, data |-> SubSeq(stream.wire, marks[m], to - 1)]
  <2>1. marks[m] \in Nat /\ marks[m] >= 1
    BY <1>2, SamePlaces DEF ParserInv, TypeOK
  <2>2. \A i \in marks[m]..(to - 1) : stream.wire[i] \in STRING
    BY <2>1, Streamed DEF ParserInv
  <2>3. SubSeq(stream.wire, marks[m], to - 1) \in Seq(STRING)
    BY <2>1, <2>2, SubSeqProperties
  <2>4. c \in Events /\ c.cb = m
    BY <2>3 DEF Events, Follows, Marked
  <2>5. Data(m, to) = <<c>>
    BY <1>2 DEF Data
  <2>. QED
    BY <2>4, <2>5
<1>. QED
  BY <1>1, <1>2

LEMMA ElementStarts ==
    ASSUME ParserInv, Reading, NEW m \in Marked, NEW par \in Parsers, par.errno = "OK",
           Counts(par), Framed(par), Telling(par, LastTold),
           parser.state \in UnmarkedStates, par.state \in MayMark[m], m # "body",
           \/ Pass(par, p + 1, FALSE, <<>>, MARK(m))
           \/ Pass(par, p, TRUE, <<>>, MARK(m))
    PROVE  ParserInv'
<1>1. \A k \in Marked : marks[k] = 0
  BY Looking, NothingMarked
<1>2. MARK(m) = [marks EXCEPT ![m] = p]
  BY <1>1 DEF MARK
<1> DEFINE mk == MARK(m)
<1>3. mk \in [Marked -> 0..fed] /\ mk[m] # 0 /\ \A k \in Marked : k # m => mk[k] = 0
  BY <1>1, <1>2, Looking
<1>4. MarkedIn(par.state, mk)
  <2>1. ASSUME NEW k \in Marked
        PROVE  /\ mk[k] # 0 => par.state \in MayMark[k]
               /\ par.state \in MayMark[k] /\ k # "body" => mk[k] # 0
    <3>1. CASE k = m
      BY <1>3, <3>1
    <3>2. CASE k # m
      BY <1>3, <3>2, OneElement
    <3>. QED
      BY <3>1, <3>2
  <2>. QED
    BY <2>1 DEF MarkedIn
<1>5. par.state # "s_chunk_size_start"
  BY DEF MayMark, Marked, UrlStates
<1> HIDE DEF mk
<1>6. GoesOn(par, p + 1, FALSE, mk, LastTold) /\ GoesOn(par, p, TRUE, mk, LastTold)
  BY <1>3, <1>4, <1>5, Looking DEF GoesOn, Fits
<1>. QED
  BY <1>6, Passes, Looking DEF mk

LEMMA ElementEnds ==
    ASSUME ParserInv, Reading, NEW m \in Marked, NEW par \in Parsers, par.errno = "OK",
           Counts(par), Framed(par), Telling(par, m), MayFollow(LastTold, m),
           parser.state \in MayMark[m], m # "body",
           par.state \in UnmarkedStates, par.state # "s_chunk_size_start",
           NEW at \in p..fed, NEW to \in p..(fed + 1), NEW again \in BOOLEAN,
           Pass(par, to, again, Data(m, at), Unmark(m))
    PROVE  ParserInv'
<1>1. marks[m] # 0 /\ \A k \in Marked : k # m => marks[k] = 0
  BY Looking, OneElement DEF MarkedIn
<1>2. PICK c \in Events : Data(m, at) = <<c>> /\ c.cb = m
  BY <1>1, DataTold, Looking
<1> DEFINE mk == Unmark(m)
<1>3. mk \in [Marked -> 0..fed] /\ \A k \in Marked : mk[k] = 0
  BY <1>1, Looking DEF Unmark
<1>4. MarkedIn(par.state, mk)
  BY <1>3, Unmarked DEF MarkedIn
<1> HIDE DEF mk
<1>5. GoesOn(par, to, again, mk, m)
  BY <1>3, <1>4, Looking DEF GoesOn, Fits
<1>. QED
  BY <1>2, <1>5, PassesTelling, Looking DEF mk

\* The state changes, and nothing is told.
LEMMA NewState ==
    ASSUME ParserInv, Reading, Counted <= MaxHeaderSize,
           NEW s \in UrlStates \cup BodyStates \cup HeaderLineStates
    PROVE  /\ [Now EXCEPT !.state = s] \in Parsers
           /\ [Now EXCEPT !.state = s].state = s
           /\ [Now EXCEPT !.state = s].errno = "OK"
           /\ [Now EXCEPT !.state = s].flags = parser.flags
           /\ [Now EXCEPT !.state = s].content_length = parser.content_length
           /\ Counts([Now EXCEPT !.state = s])
           /\ s \notin FramedStates => Framed([Now EXCEPT !.state = s])
<1> DEFINE par == [Now EXCEPT !.state = s]
<1>1. /\ par \in Parsers /\ par.errno = "OK" /\ par.nread = Counted /\ par.stored = parser.stored
      /\ par.state = s /\ par.flags = parser.flags /\ par.content_length = parser.content_length
  BY ZenonT(30), Looking DEF Parsers
<1> HIDE DEF par
<1>2. Counts(par)
  BY <1>1, Looking DEF Counts, Fits
<1>3. s \notin FramedStates => Framed(par)
  BY <1>1 DEF Framed, FramedStates
<1>. QED
  BY <1>1, <1>2, <1>3 DEF par
LEMMA StatusCodeKeeps == ASSUME ParserInv, StatusCode PROVE ParserInv'
<1>1. Reading /\ parser.state = "s_res_status_code" /\ Counted <= MaxHeaderSize
  BY DEF StatusCode, At
<1>2. CASE Goto("s_res_status_start")
  <2>1. Telling(parser, LastTold) => Telling([Now EXCEPT !.state = "s_res_status_start"], LastTold)
    BY ZenonT(30), <1>1, Looking DEF Parsers, Telling, BetweenStates, UrlStates, FieldStates
  <2>. QED
    BY <1>1, <1>2, <2>1, Goes DEF UnmarkedStates, PlainStates, FramedStates, BetweenStates
<1>3. CASE Reexecute([Now EXCEPT !.state = "s_res_status_start"])
  <2> DEFINE par == [Now EXCEPT !.state = "s_res_status_start"]
  <2>1. /\ par \in Parsers /\ par.errno = "OK" /\ Counts(par) /\ Framed(par)
        /\ par.state = "s_res_status_start" /\ par.flags = parser.flags
    BY <1>1, NewState DEF HeaderLineStates, FramedStates
  <2> HIDE DEF par
  <2>2. Telling(par, LastTold)
    BY <1>1, <2>1, Looking DEF Fits, Telling, BetweenStates, UrlStates, FieldStates
  <2>. QED
    BY <1>1, <1>3, <2>1, <2>2, Plainly DEF par, UnmarkedStates, BetweenStates
<1>4. CASE Error("INVALID_STATUS")
  BY <1>1, <1>4, Fails DEF Errors
<1>5. CASE /\ IsCode(Unit) /\ WithCode(parser.status_code, Unit) <= 999
           /\ Break([Now EXCEPT !.status_code = WithCode(parser.status_code, Unit)])
  <2>1. parser.status_code \in Nat
    <3>1. parser.status_code \in Codes
      BY <1>1, Looking DEF Parsers
    <3>. QED
      BY <3>1 DEF Codes
  <2>2. PICK n \in Codes : n = WithCode(parser.status_code, Unit)
    BY <1>5, <2>1, CodeTypes DEF Codes
  <2> DEFINE par == [Now EXCEPT !.status_code = n]
  <2>3. /\ par \in Parsers /\ par.errno = "OK" /\ par.flags = parser.flags
        /\ par.state = parser.state /\ par.nread = Counted /\ par.stored = parser.stored
    BY <1>1, NewCode
  <2>4. Break(par)
    BY <1>5, <2>2
  <2> HIDE DEF par
  <2>5. Counts(par) /\ Framed(par)
    BY <1>1, <2>3, Looking DEF Counts, Framed, Fits
  <2>6. Telling(par, LastTold)
    BY <1>1, <2>3, Looking DEF Telling, Fits, BetweenStates, UrlStates, FieldStates
  <2>. QED
    BY <1>1, <2>3, <2>4, <2>5, <2>6, Plainly DEF UnmarkedStates
<1>. QED
  BY <1>2, <1>3, <1>4, <1>5 DEF StatusCode

LEMMA StatusStartKeeps == ASSUME ParserInv, StatusStart PROVE ParserInv'
<1>1. Reading /\ parser.state = "s_res_status_start" /\ Counted <= MaxHeaderSize
  BY DEF StatusStart, At
<1> DEFINE par == [Now EXCEPT !.state = "s_res_status"]
<1>2. \/ Pass(par, p + 1, FALSE, <<>>, MARK("status"))
      \/ Pass(par, p, TRUE, <<>>, MARK("status"))
  <2>1. CASE Unit \in {"CR", "LF"}
    <3>1. (Unit \in {"CR", "LF"}) = TRUE
      BY <2>1
    <3>. QED
      BY <3>1 DEF StatusStart
  <2>2. CASE Unit \notin {"CR", "LF"}
    <3>1. (Unit \in {"CR", "LF"}) = FALSE
      BY <2>2
    <3>. QED
      BY <3>1 DEF StatusStart
  <2>. QED
    BY <2>1, <2>2
<1>3. /\ par \in Parsers /\ par.errno = "OK" /\ Counts(par) /\ Framed(par)
      /\ par.state = "s_res_status" /\ par.flags = parser.flags
  BY <1>1, NewState DEF HeaderLineStates, FramedStates
<1> HIDE DEF par
<1>4. Telling(par, LastTold)
  BY <1>1, <1>3, Looking DEF Fits, Telling, BetweenStates, UrlStates, FieldStates
<1>5. PICK m \in Marked : m = "status"
  BY DEF Marked
<1>6. parser.state \in UnmarkedStates /\ par.state \in MayMark[m] /\ m # "body"
  BY <1>1, <1>3, <1>5 DEF UnmarkedStates, MayMark
<1>. QED
  BY <1>1, <1>2, <1>3, <1>4, <1>5, <1>6, ElementStarts

LEMMA StatusKeeps == ASSUME ParserInv, Status PROVE ParserInv'
<1>1. Reading /\ parser.state = "s_res_status" /\ Counted <= MaxHeaderSize
  BY DEF Status, At
<1>2. CASE Break(Now)
  BY <1>1, <1>2, Skips
<1>3. ASSUME NEW s \in {"s_res_line_almost_done", "s_header_field_start"},
             Pass([Now EXCEPT !.state = s], p + 1, FALSE, Data("status", p), Unmark("status"))
      PROVE  ParserInv'
  <2> DEFINE par == [Now EXCEPT !.state = s]
  <2>1. /\ par \in Parsers /\ par.errno = "OK" /\ Counts(par) /\ Framed(par)
        /\ par.state = s /\ par.flags = parser.flags
    BY <1>1, NewState DEF HeaderLineStates, FramedStates
  <2> HIDE DEF par
  <2>2. LastTold \in {"message_begin", "status"} /\ "F_TRAILING" \notin parser.flags
    BY <1>1, Looking DEF Fits, Telling
  <2>3. Telling(par, "status")
    BY <2>1, <2>2 DEF Telling, BetweenStates, UrlStates, FieldStates
  <2>4. PICK m \in Marked : m = "status"
    BY DEF Marked
  <2>5. /\ parser.state \in MayMark[m] /\ m # "body" /\ MayFollow(LastTold, m)
        /\ par.state \in UnmarkedStates /\ par.state # "s_chunk_size_start"
    BY <1>1, <2>1, <2>2, <2>4 DEF UnmarkedStates, MayMark, MayFollow, Follows, Marked
  <2>6. p \in p..fed /\ p + 1 \in p..(fed + 1) /\ FALSE \in BOOLEAN
    BY <1>1, Looking
  <2>7. Pass(par, p + 1, FALSE, Data(m, p), Unmark(m))
    BY <1>3, <2>4 DEF par
  <2>. QED
    BY <1>1, <2>1, <2>3, <2>4, <2>5, <2>6, <2>7, ElementEnds
<1>. QED
  BY <1>2, <1>3 DEF Status

LEMMA ResLineAlmostDoneKeeps == ASSUME ParserInv, ResLineAlmostDone PROVE ParserInv'
<1>1. Reading /\ parser.state = "s_res_line_almost_done" /\ Counted <= MaxHeaderSize
  BY DEF ResLineAlmostDone, At
<1>2. CASE Goto("s_header_field_start")
  <2>1. Telling(parser, LastTold) => Telling([Now EXCEPT !.state = "s_header_field_start"], LastTold)
    BY ZenonT(30), <1>1, Looking DEF Parsers, Telling, BetweenStates, UrlStates, FieldStates
  <2>. QED
    BY <1>1, <1>2, <2>1, Goes DEF UnmarkedStates, PlainStates, FramedStates, BetweenStates
<1>3. CASE Error("STRICT")
  BY <1>1, <1>3, Fails DEF Errors
<1>. QED
  BY <1>2, <1>3 DEF ResLineAlmostDone
-----------------------------------------------------------------------------
(* The request line. *)

LEMMA UrlCharType ==
    ASSUME NEW s \in UrlStates \cup {"s_req_spaces_before_url"}, NEW u
    PROVE  parse_url_char(s, u) \in UrlStates \cup {"s_dead"}
BY DEF parse_url_char, UrlStates

\* In the middle of an element.
LEMMA ElementStays ==
    ASSUME ParserInv, Reading, NEW m \in Marked, NEW par \in Parsers, par.errno = "OK",
           Counts(par), Framed(par), Telling(par, LastTold),
           parser.state \in MayMark[m], par.state \in MayMark[m], NEW to \in p..(fed + 1),
           Pass(par, to, FALSE, <<>>, marks)
    PROVE  ParserInv'
<1>1. MarkedIn(par.state, marks)
  <2>1. MarkedIn(parser.state, marks)
    BY Looking
  <2>2. ASSUME NEW k \in Marked
        PROVE  /\ marks[k] # 0 => par.state \in MayMark[k]
               /\ par.state \in MayMark[k] /\ k # "body" => marks[k] # 0
    BY <2>1, OneElement DEF MarkedIn
  <2>. QED
    BY <2>2 DEF MarkedIn
<1>2. GoesOn(par, to, FALSE, marks, LastTold)
  BY <1>1, Looking DEF GoesOn, Fits
<1>. QED
  BY <1>2, Passes, Looking

LEMMA DeadKeeps == ASSUME ParserInv, Dead PROVE ParserInv'
<1>1. Reading /\ parser.state = "s_dead" /\ Counted <= MaxHeaderSize
  BY DEF Dead, At
<1>2. CASE Break(Now)
  BY <1>1, <1>2, Skips
<1>3. CASE Error("CLOSED_CONNECTION")
  BY <1>1, <1>3, Fails DEF Errors
<1>. QED
  BY <1>2, <1>3 DEF Dead

LEMMA StartReqOrResKeeps == ASSUME ParserInv, StartReqOrRes PROVE ParserInv'
<1>1. Reading /\ parser.state = "s_start_req_or_res" /\ Counted <= MaxHeaderSize
  BY DEF StartReqOrRes, At
<1>2. CASE Break(Now)
  BY <1>1, <1>2, Skips
<1>3. CASE Unit \in Versions /\ MessageBegin([Fresh EXCEPT !.type = "HTTP_RESPONSE", !.version = Unit,
                                   !.state = "s_res_http_end"])
  <2> DEFINE par == [Fresh EXCEPT !.type = "HTTP_RESPONSE", !.version = Unit,
                                   !.state = "s_res_http_end"]
  <2>1. /\ par \in Parsers /\ par.errno = "OK" /\ par.flags = {}
        /\ par.state \in {"s_req_method", "s_res_http_end"}
        /\ par.nread = Fresh.nread /\ par.stored = Fresh.stored
    BY <1>1, <1>3, FreshType DEF Parsers, HeaderLineStates, Methods
  <2>2. Counts(par)
    BY <1>1, <2>1, FreshType DEF Counts
  <2> HIDE DEF par
  <2>. QED
    BY <1>1, <1>3, <2>1, <2>2, BeginsMessage DEF par, BetweenStates
<1>4. CASE Unit = "HEAD" /\ MessageBegin([Fresh EXCEPT !.type = "HTTP_REQUEST", !.method = "HEAD",
                                   !.state = "s_req_method"])
  <2> DEFINE par == [Fresh EXCEPT !.type = "HTTP_REQUEST", !.method = "HEAD",
                                   !.state = "s_req_method"]
  <2>1. /\ par \in Parsers /\ par.errno = "OK" /\ par.flags = {}
        /\ par.state \in {"s_req_method", "s_res_http_end"}
        /\ par.nread = Fresh.nread /\ par.stored = Fresh.stored
    BY ZenonT(30), <1>1, <1>4, FreshType DEF Parsers, HeaderLineStates, Methods
  <2>2. Counts(par)
    BY <1>1, <2>1, FreshType DEF Counts
  <2> HIDE DEF par
  <2>. QED
    BY <1>1, <1>4, <2>1, <2>2, BeginsMessage DEF par, BetweenStates
<1>5. CASE Reexecute([Fresh EXCEPT !.type = "HTTP_REQUEST", !.state = "s_start_req"])
  <2> DEFINE par == [Fresh EXCEPT !.type = "HTTP_REQUEST", !.state = "s_start_req"]
  <2>1. /\ par \in Parsers /\ par.errno = "OK" /\ par.flags = {} /\ par.state = "s_start_req"
        /\ par.nread = Fresh.nread /\ par.stored = Fresh.stored
    BY <1>1, FreshType DEF Parsers, HeaderLineStates
  <2> HIDE DEF par
  <2>2. Counts(par) /\ Framed(par)
    BY <1>1, <2>1, FreshType DEF Counts, Framed
  <2>3. Telling(par, LastTold)
    BY <1>1, <2>1, Looking DEF Fits, Telling, BetweenStates, UrlStates, FieldStates
  <2>. QED
    BY <1>1, <1>5, <2>1, <2>2, <2>3, Plainly DEF par, UnmarkedStates, BetweenStates
<1>. QED
  BY <1>2, <1>3, <1>4, <1>5 DEF StartReqOrRes

LEMMA StartReqKeeps == ASSUME ParserInv, StartReq PROVE ParserInv'
<1>1. Reading /\ parser.state = "s_start_req" /\ Counted <= MaxHeaderSize
  BY DEF StartReq, At
<1>2. CASE Break(Now)
  BY <1>1, <1>2, Skips
<1>3. CASE Unit \in Methods /\ MessageBegin([Fresh EXCEPT !.state = "s_req_method", !.method = Unit])
  <2> DEFINE par == [Fresh EXCEPT !.state = "s_req_method", !.method = Unit]
  <2>1. /\ par \in Parsers /\ par.errno = "OK" /\ par.flags = {}
        /\ par.state \in {"s_req_method", "s_res_http_end"}
        /\ par.nread = Fresh.nread /\ par.stored = Fresh.stored
    BY ZenonT(30), <1>1, <1>3, FreshType DEF Parsers, HeaderLineStates, Methods
  <2>2. Counts(par)
    BY <1>1, <2>1, FreshType DEF Counts
  <2> HIDE DEF par
  <2>. QED
    BY <1>1, <1>3, <2>1, <2>2, BeginsMessage DEF par, BetweenStates
<1>4. CASE Return([Fresh EXCEPT !.errno = "INVALID_METHOD"], FALSE, <<>>)
  BY <1>1, <1>4, FreshFails DEF Errors
<1>5. CASE Pass([Fresh EXCEPT !.state = "s_req_method", !.method = "HEAD"], p, TRUE,
                Notify("message_begin"), marks)
  <2> DEFINE par == [Fresh EXCEPT !.state = "s_req_method", !.method = "HEAD"]
  <2>1. /\ par \in Parsers /\ par.errno = "OK" /\ par.flags = {}
        /\ par.state = "s_req_method"
        /\ par.nread = Fresh.nread /\ par.stored = Fresh.stored
    BY ZenonT(30), <1>1, FreshType DEF Parsers, HeaderLineStates, Methods
  <2>2. Counts(par)
    BY <1>1, <2>1, FreshType DEF Counts
  <2> HIDE DEF par
  <2>. QED
    BY <1>1, <1>5, <2>1, <2>2, BeginsMessage DEF par, BetweenStates
<1>. QED
  BY <1>2, <1>3, <1>4, <1>5 DEF StartReq

LEMMA ReqMethodKeeps == ASSUME ParserInv, ReqMethod PROVE ParserInv'
<1>1. Reading /\ parser.state = "s_req_method" /\ Counted <= MaxHeaderSize
  BY DEF ReqMethod, At
<1>2. CASE Goto("s_req_spaces_before_url")
  <2>1. Telling(parser, LastTold) => Telling([Now EXCEPT !.state = "s_req_spaces_before_url"], LastTold)
    BY ZenonT(30), <1>1, Looking DEF Parsers, Telling, BetweenStates, UrlStates, FieldStates
  <2>. QED
    BY <1>1, <1>2, <2>1, Goes DEF UnmarkedStates, PlainStates, FramedStates, BetweenStates
<1>3. CASE Error("INVALID_METHOD")
  BY <1>1, <1>3, Fails DEF Errors
<1>. QED
  BY <1>2, <1>3 DEF ReqMethod

LEMMA UrlStartKeeps == ASSUME ParserInv, UrlStart PROVE ParserInv'
<1>1. Reading /\ parser.state = "s_req_spaces_before_url" /\ Counted <= MaxHeaderSize
  BY DEF UrlStart, At
<1> DEFINE from == IF parser.method = "CONNECT" THEN "s_req_server_start"
                   ELSE "s_req_spaces_before_url"
           to == parse_url_char(from, Unit)
<1>2. CASE Break(Now)
  BY <1>1, <1>2, Skips
<1>3. CASE Error("INVALID_URL")
  BY <1>1, <1>3, Fails DEF Errors
<1>4. to \in UrlStates \cup {"s_dead"}
  <2>1. from \in UrlStates \cup {"s_req_spaces_before_url"}
    BY DEF UrlStates
  <2> HIDE DEF from
  <2>. QED
    BY <2>1, UrlCharType
<1> HIDE DEF to
<1>5. CASE to # "s_dead" /\ Pass([Now EXCEPT !.state = to], p + 1, FALSE, <<>>, MARK("url"))
  <2> DEFINE par == [Now EXCEPT !.state = to]
  <2>1. to \in UrlStates /\ to \notin FramedStates
    BY <1>4, <1>5 DEF UrlStates, FramedStates
  <2>2. /\ par \in Parsers /\ par.errno = "OK" /\ Counts(par) /\ Framed(par)
        /\ par.state = to /\ par.flags = parser.flags
    BY <1>1, <2>1, NewState
  <2> HIDE DEF par
  <2>3. Telling(par, LastTold)
    BY <1>1, <2>1, <2>2, Looking DEF Fits, Telling, BetweenStates, UrlStates, FieldStates
  <2>4. PICK m \in Marked : m = "url"
    BY DEF Marked
  <2>5. parser.state \in UnmarkedStates /\ par.state \in MayMark[m] /\ m # "body"
    BY <1>1, <2>1, <2>2, <2>4 DEF UnmarkedStates, MayMark
  <2>. QED
    BY <1>1, <1>5, <2>2, <2>3, <2>4, <2>5, ElementStarts DEF par
<1>. QED
  BY <1>2, <1>3, <1>5 DEF UrlStart, to

LEMMA UrlCharKeeps == ASSUME ParserInv, UrlChar PROVE ParserInv'
<1>1. Reading /\ parser.state \in UrlStates /\ Counted <= MaxHeaderSize
  BY DEF UrlChar, At
<1> DEFINE to == parse_url_char(parser.state, Unit)
<1>2. to \in UrlStates \cup {"s_dead"}
  BY <1>1, UrlCharType
<1> HIDE DEF to
<1>3. CASE Error("INVALID_URL")
  BY <1>1, <1>3, Fails DEF Errors
<1>4. CASE to # "s_dead" /\ Goto(to)
  <2> DEFINE par == [Now EXCEPT !.state = to]
  <2>1. to \in UrlStates /\ to \notin FramedStates
    BY <1>2, <1>4 DEF UrlStates, FramedStates
  <2>2. /\ par \in Parsers /\ par.errno = "OK" /\ Counts(par) /\ Framed(par)
        /\ par.state = to /\ par.flags = parser.flags
    BY <1>1, <2>1, NewState
  <2>3. Pass(par, p + 1, FALSE, <<>>, marks)
    BY <1>4 DEF Goto, Break
  <2> HIDE DEF par
  <2>4. Telling(par, LastTold)
    BY <1>1, <2>1, <2>2, Looking DEF Fits, Telling, BetweenStates, UrlStates, FieldStates
  <2>5. PICK m \in Marked : m = "url"
    BY DEF Marked
  <2>6. parser.state \in MayMark[m] /\ par.state \in MayMark[m] /\ p + 1 \in p..(fed + 1)
    BY <1>1, <2>1, <2>2, <2>5, Looking DEF MayMark
  <2>. QED
    BY <1>1, <2>2, <2>3, <2>4, <2>6, ElementStays
<1>. QED
  BY <1>3, <1>4 DEF UrlChar, to

LEMMA UrlEndKeeps == ASSUME ParserInv, UrlEnd PROVE ParserInv'
<1>1. Reading /\ parser.state \in UrlEndStates /\ Counted <= MaxHeaderSize
  BY DEF UrlEnd, At
<1>2. parser.state \in UrlStates
  BY <1>1 DEF UrlEndStates
<1>3. LastTold \in {"message_begin", "url"} /\ "F_TRAILING" \notin parser.flags
  BY <1>1, <1>2, Looking DEF Fits, Telling
<1>4. ASSUME NEW par \in Parsers, par.errno = "OK", Counts(par), par.flags = parser.flags,
             par.state \in {"s_req_http_start", "s_req_line_almost_done", "s_header_field_start"},
             Pass(par, p + 1, FALSE, Data("url", p), Unmark("url"))
      PROVE  ParserInv'
  <2>1. Framed(par)
    BY <1>4 DEF Framed
  <2>2. Telling(par, "url")
    BY <1>3, <1>4 DEF Telling, BetweenStates, UrlStates, FieldStates
  <2>3. PICK m \in Marked : m = "url"
    BY DEF Marked
  <2>4. /\ parser.state \in MayMark[m] /\ m # "body" /\ MayFollow(LastTold, m)
        /\ par.state \in UnmarkedStates /\ par.state # "s_chunk_size_start"
    BY <1>2, <1>3, <1>4, <2>3 DEF UnmarkedStates, MayMark, MayFollow, Follows, Marked
  <2>5. p \in p..fed /\ p + 1 \in p..(fed + 1) /\ FALSE \in BOOLEAN
    BY <1>1, Looking
  <2>6. Pass(par, p + 1, FALSE, Data(m, p), Unmark(m))
    BY <1>4, <2>3
  <2>. QED
    BY <1>1, <1>4, <2>1, <2>2, <2>3, <2>4, <2>5, <2>6, ElementEnds
<1>5. ASSUME NEW s \in {"s_req_http_start", "s_req_line_almost_done", "s_header_field_start"}
      PROVE  LET par == [Now EXCEPT !.state = s]
             IN  /\ par \in Parsers /\ par.errno = "OK" /\ Counts(par)
                 /\ par.flags = parser.flags /\ par.state = s
  BY <1>1, NewState DEF HeaderLineStates
<1>6. ASSUME NEW s \in {"s_req_http_start", "s_req_line_almost_done", "s_header_field_start"}
      PROVE  LET par == [Now EXCEPT !.state = s, !.version = "HTTP/0.9"]
             IN  /\ par \in Parsers /\ par.errno = "OK" /\ Counts(par)
                 /\ par.flags = parser.flags /\ par.state = s
  <2> DEFINE q == [Now EXCEPT !.state = s]
  <2>1. q \in Parsers /\ q.errno = "OK" /\ Counts(q) /\ q.flags = parser.flags /\ q.state = s
    BY <1>5
  <2>2. [Now EXCEPT !.state = s, !.version = "HTTP/0.9"] = [q EXCEPT !.version = "HTTP/0.9"]
    OBVIOUS
  <2> HIDE DEF q
  <2>. QED
    BY <2>1, <2>2 DEF Parsers, Counts
<1>7. CASE Pass([Now EXCEPT !.state = "s_req_http_start"], p + 1, FALSE, Data("url", p), Unmark("url"))
  BY <1>4, <1>5, <1>7
<1>8. CASE Pass([Now EXCEPT !.state = "s_req_line_almost_done", !.version = "HTTP/0.9"],
                p + 1, FALSE, Data("url", p), Unmark("url"))
  BY <1>4, <1>6, <1>8
<1>9. CASE Pass([Now EXCEPT !.state = "s_header_field_start", !.version = "HTTP/0.9"],
                p + 1, FALSE, Data("url", p), Unmark("url"))
  BY <1>4, <1>6, <1>9
<1>. QED
  BY <1>7, <1>8, <1>9 DEF UrlEnd

LEMMA HttpVersionKeeps == ASSUME ParserInv, HttpVersion PROVE ParserInv'
<1>1. Reading /\ parser.state = "s_req_http_start" /\ Counted <= MaxHeaderSize
  BY DEF HttpVersion, At
<1>2. CASE Break(Now)
  BY <1>1, <1>2, Skips
<1> DEFINE par == [Now EXCEPT !.state = "s_req_http_end", !.version = Unit]
<1>3. CASE Unit \in Versions /\ Break(par)
  <2>1. /\ par \in Parsers /\ par.errno = "OK" /\ par.flags = parser.flags
        /\ par.state = "s_req_http_end" /\ par.nread = Counted /\ par.stored = parser.stored
    BY ZenonT(30), <1>1, <1>3, Looking DEF Parsers, HeaderLineStates
  <2> HIDE DEF par
  <2>2. Counts(par) /\ Framed(par)
    BY <1>1, <2>1, Looking DEF Counts, Framed, Fits
  <2>3. Telling(par, LastTold)
    BY <1>1, <2>1, Looking DEF Fits, Telling, BetweenStates, UrlStates, FieldStates
  <2>. QED
    BY <1>1, <1>3, <2>1, <2>2, <2>3, Plainly DEF UnmarkedStates
<1>4. CASE Error("INVALID_CONSTANT")
  BY <1>1, <1>4, Fails DEF Errors
<1>. QED
  BY <1>2, <1>3, <1>4 DEF HttpVersion

LEMMA HttpEndKeeps == ASSUME ParserInv, HttpEnd PROVE ParserInv'
<1>1. Reading /\ parser.state = "s_req_http_end" /\ Counted <= MaxHeaderSize
  BY DEF HttpEnd, At
<1>2. CASE Goto("s_req_line_almost_done")
  <2>1. Telling(parser, LastTold) => Telling([Now EXCEPT !.state = "s_req_line_almost_done"], LastTold)
    BY ZenonT(30), <1>1, Looking DEF Parsers, Telling, BetweenStates, UrlStates, FieldStates
  <2>. QED
    BY <1>1, <1>2, <2>1, Goes DEF UnmarkedStates, PlainStates, FramedStates, BetweenStates
<1>3. CASE Goto("s_header_field_start")
  <2>1. Telling(parser, LastTold) => Telling([Now EXCEPT !.state = "s_header_field_start"], LastTold)
    BY ZenonT(30), <1>1, Looking DEF Parsers, Telling, BetweenStates, UrlStates, FieldStates
  <2>. QED
    BY <1>1, <1>3, <2>1, Goes DEF UnmarkedStates, PlainStates, FramedStates, BetweenStates
<1>4. CASE Error("INVALID_VERSION")
  BY <1>1, <1>4, Fails DEF Errors
<1>. QED
  BY <1>2, <1>3, <1>4 DEF HttpEnd

LEMMA ReqLineAlmostDoneKeeps == ASSUME ParserInv, ReqLineAlmostDone PROVE ParserInv'
<1>1. Reading /\ parser.state = "s_req_line_almost_done" /\ Counted <= MaxHeaderSize
  BY DEF ReqLineAlmostDone, At
<1>2. CASE Goto("s_header_field_start")
  <2>1. Telling(parser, LastTold) => Telling([Now EXCEPT !.state = "s_header_field_start"], LastTold)
    BY ZenonT(30), <1>1, Looking DEF Parsers, Telling, BetweenStates, UrlStates, FieldStates
  <2>. QED
    BY <1>1, <1>2, <2>1, Goes DEF UnmarkedStates, PlainStates, FramedStates, BetweenStates
<1>3. CASE Error("LF_EXPECTED")
  BY <1>1, <1>3, Fails DEF Errors
<1>. QED
  BY <1>2, <1>3 DEF ReqLineAlmostDone
-----------------------------------------------------------------------------
(* Header names. *)

LEMMA HeaderFieldStartKeeps == ASSUME ParserInv, HeaderFieldStart PROVE ParserInv'
<1>1. Reading /\ parser.state = "s_header_field_start" /\ Counted <= MaxHeaderSize
  BY DEF HeaderFieldStart, At
<1>2. CASE Goto("s_headers_almost_done")
  <2>1. Telling(parser, LastTold) => Telling([Now EXCEPT !.state = "s_headers_almost_done"], LastTold)
    BY ZenonT(30), <1>1, Looking DEF Parsers, Telling, BetweenStates, UrlStates, FieldStates
  <2>. QED
    BY <1>1, <1>2, <2>1, Goes DEF UnmarkedStates, PlainStates, FramedStates, BetweenStates
<1>3. CASE Reexecute([Now EXCEPT !.state = "s_headers_almost_done"])
  <2> DEFINE par == [Now EXCEPT !.state = "s_headers_almost_done"]
  <2>1. /\ par \in Parsers /\ par.errno = "OK" /\ Counts(par) /\ Framed(par)
        /\ par.state = "s_headers_almost_done" /\ par.flags = parser.flags
    BY <1>1, NewState DEF HeaderLineStates, FramedStates
  <2> HIDE DEF par
  <2>2. Telling(par, LastTold)
    BY <1>1, <2>1, Looking DEF Fits, Telling, BetweenStates, UrlStates, FieldStates
  <2>. QED
    BY <1>1, <1>3, <2>1, <2>2, Plainly DEF par, UnmarkedStates, BetweenStates
<1>4. CASE Error("INVALID_HEADER_TOKEN")
  BY <1>1, <1>4, Fails DEF Errors
<1> DEFINE hs == IF Unit \in DOMAIN KeywordStates THEN KeywordStates[Unit] ELSE "h_general"
           te == Now.uses_transfer_encoding \/ Unit = "transfer_encoding"
           par == [Now EXCEPT !.state = "s_header_field", !.header_state = hs,
                              !.uses_transfer_encoding = te]
<1>5. CASE Pass(par, p + 1, FALSE, <<>>, MARK("header_field"))
  <2>1. hs \in HeaderStates /\ te \in BOOLEAN
    BY DEF KeywordStates, HeaderStates
  <2> HIDE DEF hs, te
  <2>2. /\ par \in Parsers /\ par.errno = "OK" /\ par.state = "s_header_field"
        /\ par.flags = parser.flags /\ par.nread = Counted /\ par.stored = parser.stored
    <3> DEFINE q == [Now EXCEPT !.state = "s_header_field"]
    <3>1. /\ q \in Parsers /\ q.errno = "OK" /\ q.state = "s_header_field"
          /\ q.flags = parser.flags /\ q.nread = Counted /\ q.stored = parser.stored
      BY ZenonT(30), <1>1, Looking DEF Parsers, HeaderLineStates
    <3>2. par = [q EXCEPT !.header_state = hs, !.uses_transfer_encoding = te]
      OBVIOUS
    <3> HIDE DEF q, par
    <3>. QED
      BY <2>1, <3>1, <3>2 DEF Parsers
  <2> HIDE DEF par
  <2>3. Counts(par) /\ Framed(par)
    BY <1>1, <2>2, Looking DEF Counts, Framed, Fits
  <2>4. Telling(par, LastTold)
    BY <1>1, <2>2, Looking DEF Fits, Telling, BetweenStates, UrlStates, FieldStates
  <2>5. PICK m \in Marked : m = "header_field"
    BY DEF Marked
  <2>6. parser.state \in UnmarkedStates /\ par.state \in MayMark[m] /\ m # "body"
    BY <1>1, <2>2, <2>5 DEF UnmarkedStates, MayMark
  <2>. QED
    BY <1>1, <1>5, <2>2, <2>3, <2>4, <2>5, <2>6, ElementStarts
<1>. QED
  BY <1>2, <1>3, <1>4, <1>5, Zenon DEF HeaderFieldStart

\* Where an inner loop stops.
LEMMA LeastStop ==
    ASSUME ParserInv, Reading, NEW I \in SUBSET (p..fed), NEW stop,
           stop = IF I # {} THEN Min(I) ELSE 0
    PROVE  stop = 0 \/ stop \in I
<1>1. I \in SUBSET Nat
  BY Looking
<1>2. I # {} => Min(I) \in I
  BY <1>1, MinOfPositions
<1>. QED
  BY <1>2

LEMMA NameEnd ==
    ASSUME ParserInv, Reading
    PROVE  LET stop == SelectInSubSeq(stream.wire, p, fed, LAMBDA u : ~IsToken(u))
           IN  stop = 0 \/ stop \in p..fed
<1> DEFINE I == {i \in p..fed : ~IsToken(stream.wire[i])}
           stop == SelectInSubSeq(stream.wire, p, fed, LAMBDA u : ~IsToken(u))
<1>1. stop = IF I # {} THEN Min(I) ELSE 0
  BY DEF SelectInSubSeq
<1>2. I \in SUBSET (p..fed)
  OBVIOUS
<1> HIDE DEF I, stop
<1>3. stop = 0 \/ stop \in I
  BY <1>1, <1>2, LeastStop
<1>. QED
  BY <1>2, <1>3 DEF stop

LEMMA LineEnd ==
    ASSUME ParserInv, Reading
    PROVE  LET stop == SelectInSubSeq(stream.wire, p, fed, LAMBDA u : u \in {"CR", "LF"})
           IN  stop = 0 \/ stop \in p..fed
<1> DEFINE I == {i \in p..fed : stream.wire[i] \in {"CR", "LF"}}
           stop == SelectInSubSeq(stream.wire, p, fed, LAMBDA u : u \in {"CR", "LF"})
<1>1. stop = IF I # {} THEN Min(I) ELSE 0
  BY DEF SelectInSubSeq
<1>2. I \in SUBSET (p..fed)
  OBVIOUS
<1> HIDE DEF I, stop
<1>3. stop = 0 \/ stop \in I
  BY <1>1, <1>2, LeastStop
<1>. QED
  BY <1>2, <1>3 DEF stop

LEMMA HeaderFieldKeeps == ASSUME ParserInv, HeaderField PROVE ParserInv'
<1>1. Reading /\ parser.state = "s_header_field" /\ Counted <= MaxHeaderSize
  BY DEF HeaderField, At
<1> DEFINE stop == SelectInSubSeq(stream.wire, p, fed, LAMBDA u : ~IsToken(u))
           last == IF stop = 0 THEN fed ELSE stop
           name == IF stop = p THEN parser.header_state ELSE "h_general"
           par == [Now EXCEPT !.nread = CountMore(last - p), !.header_state = name]
<1>2. stop = 0 \/ stop \in p..fed
  BY <1>1, NameEnd
<1>3. \/ /\ par.nread > MaxHeaderSize
         /\ Return([par EXCEPT !.errno = "HEADER_OVERFLOW"], FALSE, <<>>)
      \/ /\ par.nread <= MaxHeaderSize /\ stop = 0
         /\ Pass(par, fed + 1, FALSE, <<>>, marks)
      \/ /\ par.nread <= MaxHeaderSize /\ stop # 0
         /\ Pass([par EXCEPT !.state = "s_header_value_discard_ws"], stop + 1, FALSE,
                 Data("header_field", stop), Unmark("header_field"))
      \/ Return([par EXCEPT !.errno = "INVALID_HEADER_TOKEN"], FALSE, <<>>)
  BY Zenon DEF HeaderField
<1> HIDE DEF stop
<1>4. last \in p..fed
  BY <1>1, <1>2, Looking
<1>5. name \in HeaderStates
  <2>1. parser.header_state \in HeaderStates
    BY <1>1, Looking DEF Parsers
  <2>. QED
    BY <2>1 DEF HeaderStates
<1> HIDE DEF last, name
<1>6. /\ par \in Parsers /\ par.errno = "OK" /\ par.state = "s_header_field"
      /\ par.flags = parser.flags /\ par.nread = Counted + (last - p) /\ par.nread \in Nat
      /\ par.stored = parser.stored
  <2>1. CountMore(last - p) \in Nat /\ CountMore(last - p) = Counted + (last - p)
    BY <1>1, <1>4, Looking DEF CountMore
  <2>. QED
    BY ZenonT(30), <1>1, <1>5, <2>1, Looking DEF Parsers
<1>7. par.nread <= 2 * (MaxHeaderSize + Len(stream.wire))
  BY SMTT(30), <1>1, <1>4, <1>6, Looking, Numbers
<1> HIDE DEF par
<1>8. ASSUME NEW e \in Errors PROVE Halts([par EXCEPT !.errno = e])
  BY ZenonT(30), <1>6, <1>7 DEF Halts, Parsers, Errors
<1>9. par.nread <= MaxHeaderSize => Counts(par)
  BY <1>1, <1>6, Looking DEF Counts, Fits
<1>10. PICK m \in Marked : m = "header_field"
  BY DEF Marked
<1>11. parser.state \in MayMark[m] /\ m # "body"
  BY <1>1, <1>10 DEF MayMark
<1>12. CASE Return([par EXCEPT !.errno = "HEADER_OVERFLOW"], FALSE, <<>>)
  BY <1>1, <1>8, <1>12, Returns, Looking DEF Errors
<1>13. CASE Return([par EXCEPT !.errno = "INVALID_HEADER_TOKEN"], FALSE, <<>>)
  BY <1>1, <1>8, <1>13, Returns, Looking DEF Errors
<1>14. CASE par.nread <= MaxHeaderSize /\ Pass(par, fed + 1, FALSE, <<>>, marks)
  <2>1. Framed(par) /\ par.state \in MayMark[m]
    BY <1>1, <1>6, <1>11 DEF Framed
  <2>2. Telling(par, LastTold)
    BY <1>1, <1>6, Looking DEF Fits, Telling, BetweenStates, UrlStates, FieldStates
  <2>3. fed + 1 \in p..(fed + 1)
    BY <1>1, Looking
  <2>. QED
    BY <1>1, <1>6, <1>9, <1>11, <1>14, <2>1, <2>2, <2>3, ElementStays
<1>15. CASE /\ par.nread <= MaxHeaderSize /\ stop # 0
            /\ Pass([par EXCEPT !.state = "s_header_value_discard_ws"], stop + 1, FALSE,
                    Data("header_field", stop), Unmark("header_field"))
  <2> DEFINE q == [par EXCEPT !.state = "s_header_value_discard_ws"]
  <2>1. /\ q \in Parsers /\ q.errno = "OK" /\ q.state = "s_header_value_discard_ws"
        /\ q.flags = parser.flags /\ q.nread = par.nread /\ q.stored = par.stored
    BY <1>6 DEF Parsers, HeaderLineStates
  <2> HIDE DEF q
  <2>2. Counts(q) /\ Framed(q)
    BY <1>9, <1>15, <2>1 DEF Counts, Framed
  <2>3. LastTold \in {"url", "status", "header_value", "chunk_header", "header_field"}
    BY <1>1, Looking DEF Fits, Telling
  <2>4. Telling(q, "header_field")
    BY <2>1 DEF Telling, BetweenStates, UrlStates, FieldStates
  <2>5. /\ MayFollow(LastTold, m) /\ q.state \in UnmarkedStates
        /\ q.state # "s_chunk_size_start"
    BY <1>10, <2>1, <2>3 DEF MayFollow, Follows, Marked, UnmarkedStates
  <2>6. stop \in p..fed /\ stop + 1 \in p..(fed + 1) /\ FALSE \in BOOLEAN
    BY <1>1, <1>2, <1>15, Looking
  <2>7. Pass(q, stop + 1, FALSE, Data(m, stop), Unmark(m)) /\ Telling(q, m)
    BY <1>10, <1>15, <2>4 DEF q
  <2>. QED
    BY <1>1, <1>11, <2>1, <2>2, <2>5, <2>6, <2>7, ElementEnds
<1>. QED
  BY <1>3, <1>12, <1>13, <1>14, <1>15
-----------------------------------------------------------------------------
(* Header values. *)

LEMMA DigitType ==
    ASSUME NEW u, u \in DOMAIN Digit
    PROVE  Digit[u] \in Nat
BY DEF Digit

LEMMA NumType ==
    ASSUME NEW u, IsNum(u) \/ IsHex(u)
    PROVE  Digit[u] \in Nat /\ Digit[u] \in 0..ULLONG_MAX /\ Digit[u] < ULLONG_MAX
<1>1. Digit[u] \in Nat
  BY DigitType DEF IsNum, IsHex
<1>2. Digit[u] < Base \/ Digit[u] < HexBase
  BY DEF IsNum, IsHex
<1>. QED
  BY <1>1, <1>2, Numbers

LEMMA TimesPlusType ==
    ASSUME NEW n \in Nat, NEW base \in Nat, NEW d \in Nat
    PROVE  TimesPlus(n, base, d) \in 0..ULLONG_MAX
<1>1. n * base + d \in Nat /\ ULLONG_MAX + 1 \in Nat \ {0}
  BY Numbers
<1> DEFINE k == n * base + d  m == ULLONG_MAX + 1
<1>2. TimesPlus(n, base, d) = k % m
  BY DEF TimesPlus
<1>3. m - 1 = ULLONG_MAX /\ k \in Nat /\ m \in Nat \ {0}
  BY <1>1, Numbers
<1> HIDE DEF k, m
<1>4. k % m \in 0..(m - 1)
  BY <1>3
<1>. QED
  BY <1>2, <1>3, <1>4

\* What the units of a value make of a parser: the flag of the trailer, the
\* counts and the state are left alone.
Values(q) ==
    {par \in Parsers : /\ par.state = "s_header_value"
                       /\ par.nread = q.nread /\ par.stored = q.stored
                       /\ "F_TRAILING" \in par.flags <=> "F_TRAILING" \in q.flags
                       /\ par.errno \in {"OK", "INVALID_CONTENT_LENGTH",
                                         "UNEXPECTED_CONTENT_LENGTH", "INVALID_HEADER_TOKEN"}}

LEMMA ListedType ==
    ASSUME NEW u
    PROVE  Listed(CodingStates, u) \in HeaderStates /\ Listed(ConnectionStates, u) \in HeaderStates
<1>1. Listed(CodingStates, u) \in HeaderStates
  BY DEF Listed, CodingStates, HeaderStates
<1>2. Listed(ConnectionStates, u) \in HeaderStates
  <2>1. u \in DOMAIN ConnectionStates => ConnectionStates[u] \in HeaderStates
    BY DEF ConnectionStates, HeaderStates
  <2>. QED
    BY <2>1 DEF Listed, HeaderStates
<1>. QED
  BY <1>1, <1>2

\* One field of such a parser changes.
Turned(par, h) == [par EXCEPT !.header_state = h]
Measured(par, n) == [par EXCEPT !.content_length = n]
Flagged(par, S) == [par EXCEPT !.flags = @ \cup S]
Wrong(par, e) == [par EXCEPT !.errno = e]
WrongValues == {"INVALID_CONTENT_LENGTH", "UNEXPECTED_CONTENT_LENGTH", "INVALID_HEADER_TOKEN"}

LEMMA TurnedIs ==
    ASSUME NEW q, NEW par \in Values(q), NEW h \in HeaderStates
    PROVE  Turned(par, h) \in Values(q)
BY DEF Turned, Values, Parsers

LEMMA MeasuredIs ==
    ASSUME NEW q, NEW par \in Values(q), NEW n \in 0..ULLONG_MAX
    PROVE  Measured(par, n) \in Values(q)
BY DEF Measured, Values, Parsers

LEMMA FlaggedIs ==
    ASSUME NEW q, NEW par \in Values(q), NEW S \in SUBSET (Flags \ {"F_TRAILING"})
    PROVE  Flagged(par, S) \in Values(q)
<1>1. par.flags \cup S \in SUBSET Flags
  BY DEF Values, Parsers
<1>2. "F_TRAILING" \in par.flags \cup S <=> "F_TRAILING" \in par.flags
  OBVIOUS
<1>. QED
  BY <1>1, <1>2 DEF Flagged, Values, Parsers

LEMMA WrongIs ==
    ASSUME NEW q, NEW par \in Values(q), NEW e \in WrongValues
    PROVE  Wrong(par, e) \in Values(q)
BY DEF Wrong, WrongValues, Values, Parsers

LEMMA ValueStartIs ==
    ASSUME NEW q \in Parsers, q.errno = "OK"
    PROVE  ValueStart(q) \in Values(q)
<1> DEFINE hs == q.header_state
           to(h) == [q EXCEPT !.state = "s_header_value", !.header_state = h]
<1>1. hs \in HeaderStates
  BY DEF Parsers
<1>2. ASSUME NEW h \in HeaderStates PROVE to(h) \in Values(q)
  <2> DEFINE r == [q EXCEPT !.state = "s_header_value"]
  <2>1. r \in Values(q)
    BY DEF Values, Parsers, HeaderLineStates
  <2>2. to(h) = Turned(r, h)
    BY DEF Turned
  <2> HIDE DEF r, to
  <2>. QED
    BY <2>1, <2>2, TurnedIs
<1>3. CASE hs = "h_upgrade"
  <2> DEFINE r == to("h_general")
  <2>1. ValueStart(q) = Flagged(r, {"F_UPGRADE"})
    BY <1>3 DEF ValueStart, Flagged
  <2>2. r \in Values(q)
    BY <1>2 DEF HeaderStates
  <2>3. {"F_UPGRADE"} \in SUBSET (Flags \ {"F_TRAILING"})
    BY DEF Flags
  <2> HIDE DEF r
  <2>. QED
    BY <2>1, <2>2, <2>3, FlaggedIs
<1>4. CASE hs = "h_transfer_encoding"
  <2>1. ValueStart(q) = to(Listed(CodingStates, Unit))
    BY <1>4 DEF ValueStart
  <2> HIDE DEF to
  <2>. QED
    BY <1>2, <2>1, ListedType
<1>5. CASE hs = "h_connection"
  <2>1. ValueStart(q) = to(Listed(ConnectionStates, Unit))
    BY <1>5 DEF ValueStart
  <2> HIDE DEF to
  <2>. QED
    BY <1>2, <2>1, ListedType
<1>6. CASE hs = "h_content_length"
  <2> DEFINE r == to(hs)
             wrong == Wrong(r, "INVALID_CONTENT_LENGTH")
             twice == Wrong(r, "UNEXPECTED_CONTENT_LENGTH")
             s == to("h_content_length_num")
             f == Flagged(s, {"F_CONTENTLENGTH"})
             num == Measured(f, Digit[Unit])
  <2>1. \/ ValueStart(q) = wrong \/ ValueStart(q) = twice
        \/ IsNum(Unit) /\ ValueStart(q) = num
    BY <1>6 DEF ValueStart, Wrong, Flagged, Measured
  <2>2. r \in Values(q) /\ s \in Values(q)
    BY <1>1, <1>2 DEF HeaderStates
  <2>3. {"F_CONTENTLENGTH"} \in SUBSET (Flags \ {"F_TRAILING"})
    BY DEF Flags
  <2>4. f \in Values(q)
    <3> HIDE DEF s
    <3>. QED
      BY <2>2, <2>3, FlaggedIs
  <2>5. IsNum(Unit) => num \in Values(q)
    <3> HIDE DEF f
    <3>. QED
      BY <2>4, NumType, MeasuredIs
  <2>6. wrong \in Values(q) /\ twice \in Values(q)
    <3> HIDE DEF r
    <3>. QED
      BY <2>2, WrongIs DEF WrongValues
  <2> HIDE DEF wrong, twice, num
  <2>. QED
    BY <2>1, <2>5, <2>6
<1>7. CASE hs \in {"h_content_length_ws", "h_matching_connection_token_start",
                   "h_matching_transfer_encoding_token_start"}
  <2>1. ValueStart(q) = to(hs)
    BY <1>7 DEF ValueStart
  <2> HIDE DEF to
  <2>. QED
    BY <1>1, <1>2, <2>1
<1>8. CASE hs \notin {"h_upgrade", "h_transfer_encoding", "h_connection", "h_content_length",
                      "h_content_length_ws", "h_matching_connection_token_start",
                      "h_matching_transfer_encoding_token_start"}
  <2>1. ValueStart(q) = to("h_general")
    BY <1>8 DEF ValueStart
  <2> HIDE DEF to
  <2>. QED
    BY <1>2, <2>1 DEF HeaderStates
<1>. QED
  BY <1>3, <1>4, <1>5, <1>6, <1>7, <1>8

LEMMA ElementFlagType ==
    ASSUME NEW hs
    PROVE  ElementFlag(hs) \in SUBSET (Flags \ {"F_TRAILING"})
BY DEF ElementFlag, Flags
LEMMA ValueUnitIs ==
    ASSUME NEW q, NEW par \in Values(q), NEW u
    PROVE  ValueUnit(par, u) \in Values(q)
<1> DEFINE hs == par.header_state
           v == ValueUnit(par, u)
           flagged == Flagged(Turned(par, "h_matching_connection_token_start"), ElementFlag(hs))
           longer == Measured(par, TimesPlus(par.content_length, Base, Digit[u]))
<1>1. \/ v = par
      \/ \E h \in HeaderStates : v = Turned(par, h)
      \/ \E e \in WrongValues : v = Wrong(par, e)
      \/ v = flagged
      \/ IsNum(u) /\ v = longer
  <2>1. CASE par.errno # "OK"
    BY <2>1 DEF ValueUnit
  <2>2. CASE par.errno = "OK" /\ ~IsHeaderChar(u)
    BY <2>2 DEF ValueUnit, Wrong, WrongValues
  <2> SUFFICES ASSUME par.errno = "OK", IsHeaderChar(u) PROVE <1>1!:
    BY <2>1, <2>2
  <2> DEFINE wrong == Wrong(par, "INVALID_CONTENT_LENGTH")
  <2>3. CASE hs = "h_content_length_num"
    <3>1. v = Turned(par, "h_content_length_ws") \/ v = wrong \/ (IsNum(u) /\ v = longer)
      BY <2>3 DEF ValueUnit, ElementFlag, Turned, Wrong, Measured
    <3>2. "h_content_length_ws" \in HeaderStates /\ "INVALID_CONTENT_LENGTH" \in WrongValues
      BY DEF HeaderStates, WrongValues
    <3> HIDE DEF v, longer
    <3>. QED
      BY <3>1, <3>2
  <2>4. CASE hs = "h_content_length_ws"
    <3>1. v = par \/ v = wrong
      BY <2>4 DEF ValueUnit, ElementFlag, Wrong
    <3>. QED
      BY <3>1 DEF WrongValues
  <2>5. CASE hs = "h_matching_transfer_encoding_token_start"
    <3>1. \/ v = par \/ v = Turned(par, Listed(CodingStates, u))
          \/ v = Turned(par, "h_general")
      BY <2>5 DEF ValueUnit, ElementFlag, Turned
    <3>2. "h_general" \in HeaderStates /\ Listed(CodingStates, u) \in HeaderStates
      BY ListedType DEF HeaderStates
    <3> HIDE DEF v
    <3>. QED
      BY <3>1, <3>2
  <2>6. CASE hs = "h_matching_connection_token_start"
    <3>1. \/ v = par \/ v = Turned(par, Listed(ConnectionStates, u))
          \/ v = Turned(par, "h_general")
      BY <2>6 DEF ValueUnit, ElementFlag, Turned
    <3>2. "h_general" \in HeaderStates /\ Listed(ConnectionStates, u) \in HeaderStates
      BY ListedType DEF HeaderStates
    <3> HIDE DEF v
    <3>. QED
      BY <3>1, <3>2
  <2>7. CASE hs \notin {"h_content_length_num", "h_content_length_ws",
                        "h_matching_transfer_encoding_token_start",
                        "h_matching_connection_token_start"}
    <3>1. \/ v = par \/ v = flagged
          \/ v = Turned(par, "h_matching_transfer_encoding_token_start")
          \/ v = Turned(par, "h_matching_transfer_encoding_token")
          \/ v = Turned(par, "h_matching_connection_token_start")
          \/ v = Turned(par, "h_matching_connection_token")
      BY <2>7 DEF ValueUnit, ElementFlag, Turned, Flagged
    <3>2. {"h_matching_transfer_encoding_token_start", "h_matching_transfer_encoding_token",
           "h_matching_connection_token_start", "h_matching_connection_token"}
                \subseteq HeaderStates
      BY DEF HeaderStates
    <3> HIDE DEF v, flagged
    <3>. QED
      BY SMTT(30), <3>1, <3>2
  <2>. QED
    BY <2>3, <2>4, <2>5, <2>6, <2>7
<1>2. flagged \in Values(q)
  <2>1. Turned(par, "h_matching_connection_token_start") \in Values(q)
    BY TurnedIs DEF HeaderStates
  <2>. QED
    BY <2>1, ElementFlagType, FlaggedIs
<1>3. IsNum(u) => longer \in Values(q)
  <2>1. par.content_length \in Nat
    <3>1. par.content_length \in 0..ULLONG_MAX
      BY DEF Values, Parsers
    <3>. QED
      BY <3>1, Numbers
  <2>2. IsNum(u) => TimesPlus(par.content_length, Base, Digit[u]) \in 0..ULLONG_MAX
    BY <2>1, NumType, Numbers, TimesPlusType
  <2>. QED
    BY <2>2, MeasuredIs
<1> HIDE DEF v, flagged, longer
<1>4. ASSUME NEW h \in HeaderStates PROVE Turned(par, h) \in Values(q)
  BY TurnedIs
<1>5. ASSUME NEW e \in WrongValues PROVE Wrong(par, e) \in Values(q)
  BY WrongIs
<1>6. v \in Values(q)
  BY <1>1, <1>2, <1>3, <1>4, <1>5
<1>. QED
  BY <1>6 DEF v
LEMMA HeaderValueStartKeeps ==
    ASSUME ParserInv, Reading, Counted <= MaxHeaderSize,
           parser.state \in {"s_header_value_discard_ws", "s_header_value_start"},
           HeaderValueStart
    PROVE  ParserInv'
<1> DEFINE par == ValueStart(Now)
<1>1. par \in Values(Now)
  <2>1. Now \in Parsers /\ Now.errno = "OK"
    BY Looking DEF Parsers
  <2>. QED
    BY <2>1, ValueStartIs
<1>2. \/ par.errno = "OK" /\ Pass(par, p + 1, FALSE, <<>>, MARK("header_value"))
      \/ par.errno # "OK" /\ Return(par, FALSE, <<>>)
  BY DEF HeaderValueStart
<1> HIDE DEF par
<1>3. Now.nread = Counted /\ Now.stored = parser.stored
  BY Looking DEF Parsers
<1>4. /\ par \in Parsers /\ par.nread = Counted /\ par.stored = parser.stored
      /\ par.state = "s_header_value"
      /\ par.errno \in {"OK", "INVALID_CONTENT_LENGTH", "UNEXPECTED_CONTENT_LENGTH",
                        "INVALID_HEADER_TOKEN"}
  BY <1>1, <1>3 DEF Values
<1>5. CASE par.errno # "OK" /\ Return(par, FALSE, <<>>)
  <2>1. par.nread <= 2 * (MaxHeaderSize + Len(stream.wire))
    BY <1>4, Looking, Numbers
  <2>2. Halts(par)
    BY <1>4, <1>5, <2>1 DEF Halts
  <2>. QED
    BY <1>5, <2>2, Returns, Looking
<1>6. CASE par.errno = "OK" /\ Pass(par, p + 1, FALSE, <<>>, MARK("header_value"))
  <2>1. Counts(par) /\ Framed(par)
    BY <1>4, Looking DEF Counts, Framed, Fits
  <2>2. LastTold \in {"header_field", "header_value"}
    BY Looking DEF Fits, Telling
  <2>3. Telling(par, LastTold)
    BY <1>4, <2>2 DEF Telling, BetweenStates, UrlStates, FieldStates
  <2>4. PICK m \in Marked : m = "header_value"
    BY DEF Marked
  <2>5. parser.state \in UnmarkedStates /\ par.state \in MayMark[m] /\ m # "body"
    BY <1>4, <2>4 DEF UnmarkedStates, MayMark
  <2>. QED
    BY <1>4, <1>6, <2>1, <2>3, <2>4, <2>5, ElementStarts
<1>. QED
  BY <1>2, <1>5, <1>6

LEMMA DiscardWsKeeps == ASSUME ParserInv, DiscardWs PROVE ParserInv'
<1>1. Reading /\ parser.state = "s_header_value_discard_ws" /\ Counted <= MaxHeaderSize
  BY DEF DiscardWs, At
<1>2. CASE Break(Now)
  BY <1>1, <1>2, Skips
<1>3. CASE Goto("s_header_value_discard_ws_almost_done")
  <2>1. Telling(parser, LastTold) => Telling([Now EXCEPT !.state = "s_header_value_discard_ws_almost_done"], LastTold)
    BY ZenonT(30), <1>1, Looking DEF Parsers, Telling, BetweenStates, UrlStates, FieldStates
  <2>. QED
    BY <1>1, <1>3, <2>1, Goes DEF UnmarkedStates, PlainStates, FramedStates, BetweenStates
<1>4. CASE Goto("s_header_value_discard_lws")
  <2>1. Telling(parser, LastTold) => Telling([Now EXCEPT !.state = "s_header_value_discard_lws"], LastTold)
    BY ZenonT(30), <1>1, Looking DEF Parsers, Telling, BetweenStates, UrlStates, FieldStates
  <2>. QED
    BY <1>1, <1>4, <2>1, Goes DEF UnmarkedStates, PlainStates, FramedStates, BetweenStates
<1>5. CASE HeaderValueStart
  BY <1>1, <1>5, HeaderValueStartKeeps
<1>. QED
  BY <1>2, <1>3, <1>4, <1>5 DEF DiscardWs

LEMMA FoldedStartKeeps == ASSUME ParserInv, FoldedStart PROVE ParserInv'
BY HeaderValueStartKeeps DEF FoldedStart, At

LEMMA HeaderAlmostDoneKeeps == ASSUME ParserInv, HeaderAlmostDone PROVE ParserInv'
<1>1. Reading /\ parser.state = "s_header_almost_done" /\ Counted <= MaxHeaderSize
  BY DEF HeaderAlmostDone, At
<1>2. CASE Goto("s_header_value_lws")
  <2>1. Telling(parser, LastTold) => Telling([Now EXCEPT !.state = "s_header_value_lws"], LastTold)
    BY ZenonT(30), <1>1, Looking DEF Parsers, Telling, BetweenStates, UrlStates, FieldStates
  <2>. QED
    BY <1>1, <1>2, <2>1, Goes DEF UnmarkedStates, PlainStates, FramedStates, BetweenStates
<1>3. CASE Error("LF_EXPECTED")
  BY <1>1, <1>3, Fails DEF Errors
<1>. QED
  BY <1>2, <1>3 DEF HeaderAlmostDone

LEMMA DiscardWsAlmostDoneKeeps == ASSUME ParserInv, DiscardWsAlmostDone PROVE ParserInv'
<1>1. Reading /\ parser.state = "s_header_value_discard_ws_almost_done" /\ Counted <= MaxHeaderSize
  BY DEF DiscardWsAlmostDone, At
<1>2. CASE Goto("s_header_value_discard_lws")
  <2>1. Telling(parser, LastTold) => Telling([Now EXCEPT !.state = "s_header_value_discard_lws"], LastTold)
    BY ZenonT(30), <1>1, Looking DEF Parsers, Telling, BetweenStates, UrlStates, FieldStates
  <2>. QED
    BY <1>1, <1>2, <2>1, Goes DEF UnmarkedStates, PlainStates, FramedStates, BetweenStates
<1>3. CASE Error("STRICT")
  BY <1>1, <1>3, Fails DEF Errors
<1>. QED
  BY <1>2, <1>3 DEF DiscardWsAlmostDone

LEMMA HeaderFlagsType ==
    ASSUME NEW hs
    PROVE  HeaderFlags(hs) \in SUBSET (Flags \ {"F_TRAILING"})
BY DEF HeaderFlags, ElementFlag, Flags

LEMMA ValueLwsKeeps == ASSUME ParserInv, ValueLws PROVE ParserInv'
<1>1. Reading /\ parser.state = "s_header_value_lws" /\ Counted <= MaxHeaderSize
  BY DEF ValueLws, At
<1> DEFINE folded == [Now EXCEPT !.state = "s_header_value_start",
                        !.header_state = IF @ = "h_content_length_num"
                                         THEN "h_content_length_ws" ELSE @]
           ended == [Now EXCEPT !.state = "s_header_field_start",
                        !.flags = @ \cup HeaderFlags(parser.header_state)]
<1>2. Reexecute(folded) \/ Reexecute(ended)
  BY DEF ValueLws
<1>3. LastTold = "header_value"
  BY <1>1, Looking DEF Fits, Telling
<1>4. /\ Now \in Parsers /\ Now.errno = "OK" /\ Now.nread = Counted
      /\ Now.stored = parser.stored
  BY <1>1, Looking DEF Parsers
<1>5. ASSUME NEW par \in Parsers, par.errno = "OK", par.nread = Now.nread,
             par.stored = Now.stored, Reexecute(par),
             par.state \in {"s_header_value_start", "s_header_field_start"}
      PROVE  ParserInv'
  <2>1. Counts(par) /\ Framed(par)
    BY <1>1, <1>4, <1>5, Looking DEF Counts, Framed, Fits
  <2>2. Telling(par, LastTold)
    BY <1>3, <1>5 DEF Telling, BetweenStates, UrlStates, FieldStates
  <2>. QED
    BY <1>1, <1>5, <2>1, <2>2, Plainly DEF UnmarkedStates
<1>6. CASE Reexecute(folded)
  <2> DEFINE hs == IF Now.header_state = "h_content_length_num"
                   THEN "h_content_length_ws" ELSE Now.header_state
  <2>1. hs \in HeaderStates
    BY <1>4 DEF Parsers, HeaderStates
  <2>2. folded = [Now EXCEPT !.state = "s_header_value_start", !.header_state = hs]
    OBVIOUS
  <2> HIDE DEF hs, folded
  <2>3. /\ folded \in Parsers /\ folded.errno = "OK" /\ folded.nread = Now.nread
        /\ folded.stored = Now.stored /\ folded.state = "s_header_value_start"
    BY <1>4, <2>1, <2>2 DEF Parsers, HeaderLineStates
  <2>. QED
    BY <1>5, <1>6, <2>3
<1>7. CASE Reexecute(ended)
  <2>1. Now.flags \cup HeaderFlags(parser.header_state) \in SUBSET Flags
    BY <1>4, HeaderFlagsType DEF Parsers
  <2>2. /\ ended \in Parsers /\ ended.errno = "OK" /\ ended.nread = Now.nread
        /\ ended.stored = Now.stored /\ ended.state = "s_header_field_start"
    BY <1>4, <2>1 DEF Parsers, HeaderLineStates
  <2> HIDE DEF ended
  <2>. QED
    BY <1>5, <1>7, <2>2
<1>. QED
  BY <1>2, <1>6, <1>7

LEMMA DiscardLwsKeeps == ASSUME ParserInv, DiscardLws PROVE ParserInv'
<1>1. Reading /\ parser.state = "s_header_value_discard_lws" /\ Counted <= MaxHeaderSize
  BY DEF DiscardLws, At
<1>2. CASE Goto("s_header_value_discard_ws")
  <2>1. Telling(parser, LastTold) => Telling([Now EXCEPT !.state = "s_header_value_discard_ws"], LastTold)
    BY ZenonT(30), <1>1, Looking DEF Parsers, Telling, BetweenStates, UrlStates, FieldStates
  <2>. QED
    BY <1>1, <1>2, <2>1, Goes DEF UnmarkedStates, PlainStates, FramedStates, BetweenStates
<1>3. CASE Error("INVALID_CONTENT_LENGTH")
  BY <1>1, <1>3, Fails DEF Errors
<1> DEFINE par == [Now EXCEPT !.state = "s_header_field_start",
                              !.flags = @ \cup HeaderFlags(parser.header_state)]
<1>4. CASE Pass(par, p, TRUE, <<[cb |-> "header_value", data |-> <<>>]>>, marks)
  <2>1. LastTold = "header_field"
    BY <1>1, Looking DEF Fits, Telling
  <2>2. /\ Now \in Parsers /\ Now.errno = "OK" /\ Now.nread = Counted
        /\ Now.stored = parser.stored
    BY <1>1, Looking DEF Parsers
  <2>3. Now.flags \cup HeaderFlags(parser.header_state) \in SUBSET Flags
    BY <2>2, HeaderFlagsType DEF Parsers
  <2>4. /\ par \in Parsers /\ par.errno = "OK" /\ par.nread = Now.nread
        /\ par.stored = Now.stored /\ par.state = "s_header_field_start"
    BY <2>2, <2>3 DEF Parsers, HeaderLineStates
  <2> HIDE DEF par
  <2>5. Counts(par) /\ Framed(par)
    BY <1>1, <2>2, <2>4, Looking DEF Counts, Framed, Fits
  <2>6. PICK cb \in DOMAIN Follows : cb = "header_value"
    BY DEF Follows
  <2>7. Telling(par, cb)
    BY <2>4, <2>6 DEF Telling, BetweenStates, UrlStates, FieldStates
  <2>8. MayFollow(LastTold, cb)
    BY <2>1, <2>6 DEF MayFollow, Follows
  <2>9. Pass(par, p, TRUE, Notify(cb), marks)
    BY <1>4, <2>6 DEF Notify
  <2>. QED
    BY <1>1, <2>4, <2>5, <2>7, <2>8, <2>9, Notifies DEF UnmarkedStates
<1>. QED
  BY <1>2, <1>3, <1>4 DEF DiscardLws
\* The inner loop of a value, as far as it runs, stays where each unit leaves it.
LEMMA UnitRuns ==
    ASSUME ParserInv, Reading, parser.state = "s_header_value", NEW end \in p..(fed + 1),
           NEW S, Now \in S, \A q \in S : \A u : ValueUnit(q, u) \in S
    PROVE  LET value[i \in p..end] ==
                   IF i = p THEN Now ELSE ValueUnit(value[i - 1], stream.wire[i - 1])
           IN  value[end] \in S
<1> DEFINE F == [n \in Nat |-> [q \in S |-> ValueUnit(q, stream.wire[p + n])]]
           value[i \in p..end] ==
               IF i = p THEN Now ELSE ValueUnit(value[i - 1], stream.wire[i - 1])
<1>1. p \in Nat /\ end \in Nat /\ p <= end
  BY Looking
<1>2. Now \in S
  OBVIOUS
<1>3. F \in [Nat -> [S -> S]]
  OBVIOUS
<1>4. PICK g \in [Nat -> S] : IsIteration(g, Now, F)
  <2> HIDE DEF F
  <2>. QED
    BY <1>2, <1>3, Iteration
<1>5. g[0] = Now /\ \A n \in Nat : g[n + 1] = F[n][g[n]]
  <2> HIDE DEF F
  <2>. QED
    BY <1>4 DEF IsIteration
<1> DEFINE J == [i \in p..end |-> g[i - p]]
<1>6. J = [i \in p..end |-> IF i = p THEN Now ELSE ValueUnit(J[i - 1], stream.wire[i - 1])]
  <2>1. ASSUME NEW i \in p..end
        PROVE  J[i] = (IF i = p THEN Now ELSE ValueUnit(J[i - 1], stream.wire[i - 1]))
    <3>1. CASE i = p
      BY <1>1, <1>5, <3>1
    <3>2. CASE i # p
      <4> DEFINE n == i - 1 - p
      <4>1. n \in Nat /\ n + 1 = i - p /\ p + n = i - 1 /\ i - 1 \in p..end
        BY <1>1, <3>2
      <4> HIDE DEF n
      <4>2. J[i] = g[n + 1] /\ J[i - 1] = g[n] /\ g[n] \in S
        <5>1. J[i - 1] = g[(i - 1) - p] /\ (i - 1) - p = n
          BY <1>1, <4>1 DEF n
        <5>. QED
          BY <4>1, <5>1
      <4> HIDE DEF J
      <4>3. g[n + 1] = F[n][g[n]]
        BY <1>5, <4>1
      <4>4. F[n][g[n]] = ValueUnit(g[n], stream.wire[p + n])
        BY <4>1, <4>2
      <4>. QED
        BY <3>2, <4>1, <4>2, <4>3, <4>4
    <3>. QED
      BY <3>1, <3>2
  <2>. QED
    BY <2>1
<1>7. value = [i \in p..end |-> IF i = p THEN Now ELSE ValueUnit(value[i - 1], stream.wire[i - 1])]
  <2> HIDE DEF J
  <2>. QED
    BY <1>6
<1> HIDE DEF value
<1> DEFINE I == {k \in 0..(end - p) : value[p + k] \in S}
<1>8. 0 \in I
  BY <1>1, <1>2, <1>7
<1>9. ASSUME NEW k \in 0..(end - p - 1), k \in I
      PROVE  k + 1 \in I
  <2>1. /\ p + (k + 1) \in p..end /\ p + (k + 1) # p /\ p + (k + 1) - 1 = p + k
        /\ k + 1 \in 0..(end - p) /\ value[p + k] \in S
    BY <1>1, <1>9
  <2>2. value[p + (k + 1)] = ValueUnit(value[p + k], stream.wire[p + k])
    <3>1. ASSUME NEW i \in p..end, i # p
          PROVE  value[i] = ValueUnit(value[i - 1], stream.wire[i - 1])
      BY <1>7, <3>1
    <3>2. PICK j \in p..end : j = p + (k + 1) /\ j # p /\ j - 1 = p + k
      BY <1>1, <2>1
    <3>3. value[j] = ValueUnit(value[j - 1], stream.wire[j - 1])
      BY <3>1, <3>2
    <3>. QED
      BY <3>2, <3>3
  <2>3. value[p + (k + 1)] \in S
    BY <2>1, <2>2
  <2>. QED
    BY <2>1, <2>3
<1>10. end - p \in Nat /\ end - p \in 0..(end - p) /\ p + (end - p) = end
  BY <1>1
<1>11. end - p \in I
  <2> HIDE DEF I
  <2> DEFINE n == end - p
  <2>1. n \in Nat /\ n \in 0..n /\ \A k \in 0..(n - 1) : k \in I => k + 1 \in I
    BY <1>9, <1>10
  <2> HIDE DEF n
  <2>2. \A k \in 0..n : k \in I
    BY <1>8, <2>1, Counting
  <2>. QED
    BY <2>1, <2>2 DEF n
<1>12. value[end] \in S
  BY <1>10, <1>11
<1>. QED
  BY <1>12 DEF value

LEMMA ValueRuns ==
    ASSUME ParserInv, Reading, parser.state = "s_header_value", NEW end \in p..(fed + 1)
    PROVE  LET value[i \in p..end] ==
                   IF i = p THEN Now ELSE ValueUnit(value[i - 1], stream.wire[i - 1])
           IN  value[end] \in Values(Now)
<1>1. Now \in Values(Now)
  BY Looking DEF Values, Parsers
<1>2. \A q \in Values(Now) : \A u : ValueUnit(q, u) \in Values(Now)
  BY ValueUnitIs
<1>. QED
  BY <1>1, <1>2, UnitRuns

LEMMA HeaderValueKeeps == ASSUME ParserInv, HeaderValue PROVE ParserInv'
<1>1. Reading /\ parser.state = "s_header_value" /\ Counted <= MaxHeaderSize
  BY Zenon DEF HeaderValue, At
<1> DEFINE stop == SelectInSubSeq(stream.wire, p, fed, LAMBDA u : u \in {"CR", "LF"})
           last == IF stop = 0 THEN fed ELSE stop
           end == IF stop = 0 THEN fed + 1 ELSE stop
           value[i \in p..end] ==
               IF i = p THEN Now ELSE ValueUnit(value[i - 1], stream.wire[i - 1])
           v == value[end]
           par == [v EXCEPT !.nread = CountMore(last - p)]
           line == [par EXCEPT !.state = "s_header_almost_done"]
           full == par.nread > MaxHeaderSize
           tooLong == [par EXCEPT !.errno = "HEADER_OVERFLOW"]
           data == Data("header_value", stop)
           atCR == stop # 0 /\ stream.wire[stop] = "CR"
<1>2. stop = 0 \/ stop \in p..fed
  BY <1>1, LineEnd
<1>3. \/ v.errno # "OK" /\ Return(v, FALSE, <<>>)
      \/ v.errno = "OK" /\ full /\ Return(tooLong, FALSE, IF atCR THEN data ELSE <<>>)
      \/ v.errno = "OK" /\ ~full /\ stop = 0 /\ Pass(par, fed + 1, FALSE, <<>>, marks)
      \/ /\ v.errno = "OK" /\ stop # 0 /\ (full => atCR /\ Pauses(data))
         /\ IF atCR
            THEN Pass(line, stop + 1, FALSE, data, Unmark("header_value"))
            ELSE Pass(line, stop, TRUE, data, Unmark("header_value"))
  BY Zenon DEF HeaderValue
<1> HIDE DEF stop
<1>4. last \in p..fed /\ end \in p..(fed + 1)
  BY <1>1, <1>2, Looking
<1>5. v \in Values(Now)
  <2> HIDE DEF end
  <2>. QED
    BY <1>1, <1>4, ValueRuns
<1> HIDE DEF last, v
<1>6. /\ v \in Parsers /\ v.state = "s_header_value" /\ v.nread = Counted /\ v.nread \in Nat
      /\ v.stored = parser.stored /\ v.stored \in Nat
      /\ ("F_TRAILING" \in v.flags <=> "F_TRAILING" \in parser.flags)
      /\ v.errno \in {"OK"} \cup WrongValues
  <2>1. /\ Now.nread = Counted /\ Now.stored = parser.stored /\ Now.flags = parser.flags
        /\ Counted \in Nat /\ parser.stored \in Nat
    BY <1>1, Looking DEF Parsers
  <2>. QED
    BY <1>5, <2>1 DEF Values, WrongValues
<1>7. CountMore(last - p) = Counted + (last - p) /\ CountMore(last - p) \in Nat
  BY <1>1, <1>4, Looking DEF CountMore
<1>8. /\ par \in Parsers /\ par.state = "s_header_value" /\ par.nread = Counted + (last - p)
      /\ par.nread \in Nat /\ par.stored = parser.stored /\ par.flags = v.flags
      /\ par.errno = v.errno
  BY <1>6, <1>7 DEF Parsers
<1>9. par.nread <= 2 * (MaxHeaderSize + Len(stream.wire))
  BY SMTT(30), <1>1, <1>4, <1>8, Looking, Numbers
<1> HIDE DEF par
<1>10. LastTold \in {"header_field", "header_value"}
  BY <1>1, Looking DEF Fits, Telling
<1>11. PICK m \in Marked : m = "header_value"
  BY DEF Marked
<1>12. /\ parser.state \in MayMark[m] /\ m # "body" /\ MayFollow(LastTold, m)
       /\ marks[m] # 0
  <2>1. parser.state \in MayMark[m] /\ m # "body" /\ MayFollow(LastTold, m)
    BY <1>1, <1>10, <1>11 DEF MayMark, MayFollow, Follows, Marked
  <2>. QED
    BY <1>1, <2>1, Looking DEF MarkedIn
<1>13. CASE v.errno # "OK" /\ Return(v, FALSE, <<>>)
  <2>1. v.nread <= 2 * (MaxHeaderSize + Len(stream.wire))
    BY <1>1, <1>6, Looking, Numbers
  <2>2. Halts(v)
    BY <1>6, <1>13, <2>1 DEF Halts, WrongValues
  <2>. QED
    BY <1>1, <1>13, <2>2, Returns, Looking
<1>14. CASE v.errno = "OK" /\ full /\ Return(tooLong, FALSE, IF atCR THEN data ELSE <<>>)
  <2>1. Halts(tooLong)
    BY ZenonT(30), <1>8, <1>9 DEF Halts, Parsers
  <2> HIDE DEF tooLong
  <2>2. CASE ~atCR
    <3>1. Return(tooLong, FALSE, <<>>)
      BY <1>14, <2>2
    <3>. QED
      BY <1>1, <2>1, <3>1, Returns, Looking
  <2>3. CASE atCR
    <3>1. Return(tooLong, FALSE, Data(m, stop)) /\ stop \in p..fed
      BY <1>2, <1>11, <1>14, <2>3
    <3>2. PICK c \in Events : Data(m, stop) = <<c>> /\ c.cb = m
      BY <1>1, <1>12, <3>1, DataTold, Looking
    <3>3. Call(<<c>>)
      BY <3>1, <3>2 DEF Return
    <3>4. Hearing(heard', m)
      BY <1>12, <3>2, <3>3, HearsOne
    <3>5. FALSE \in BOOLEAN /\ p # 0
      BY <1>1 DEF Reading
    <3>. QED
      BY <2>1, <3>1, <3>4, <3>5, Stopping
  <2>. QED
    BY <2>2, <2>3
<1>15. CASE v.errno = "OK" /\ ~full /\ stop = 0 /\ Pass(par, fed + 1, FALSE, <<>>, marks)
  <2>1. Framed(par) /\ par.state \in MayMark[m]
    BY <1>1, <1>8, <1>12 DEF Framed
  <2>2. Telling(par, LastTold)
    BY <1>8, <1>10 DEF Telling, BetweenStates, UrlStates, FieldStates
  <2>3. fed + 1 \in p..(fed + 1) /\ par.errno = "OK"
    BY <1>1, <1>8, <1>15, Looking
  <2>4. Counts(par)
    <3>1. parser.stored <= MaxHeaderSize /\ parser.stored \in Nat
      BY <1>1, Looking DEF Counts, Fits, Parsers
    <3>. QED
      BY <1>8, <1>15, <3>1, Numbers DEF Counts
  <2>. QED
    BY <1>1, <1>8, <1>12, <1>15, <2>1, <2>2, <2>3, <2>4, ElementStays
<1>16. CASE /\ v.errno = "OK" /\ stop # 0 /\ (full => atCR /\ Pauses(data))
            /\ IF atCR
               THEN Pass(line, stop + 1, FALSE, data, Unmark("header_value"))
               ELSE Pass(line, stop, TRUE, data, Unmark("header_value"))
  <2>1. /\ line \in Parsers /\ line.errno = "OK" /\ line.state = "s_header_almost_done"
        /\ line.nread = par.nread /\ line.stored = parser.stored
    BY <1>8, <1>16 DEF Parsers, HeaderLineStates
  \* When the parser is paused, what it has counted does not matter.
  <2> DEFINE short == [line EXCEPT !.nread = line.stored]
             told == IF full THEN short ELSE line
             to == IF atCR THEN stop + 1 ELSE stop
             again == ~atCR
  <2> HIDE DEF line
  <2>2. Pass(line, to, again, Data(m, stop), Unmark(m))
    <3>1. CASE atCR
      <4>1. (~atCR) = FALSE
        BY <3>1
      <4>. QED
        BY <1>11, <1>16, <3>1, <4>1
    <3>2. CASE ~atCR
      <4>1. (~atCR) = TRUE
        BY <3>2
      <4>. QED
        BY <1>11, <1>16, <3>2, <4>1
    <3>. QED
      BY <3>1, <3>2
  <2>3. full => Pauses(Data(m, stop))
    BY <1>11, <1>16
  <2>4. /\ short \in Parsers /\ short.errno = "OK" /\ short.state = "s_header_almost_done"
        /\ short.nread = line.stored /\ short.stored = line.stored
        /\ [short EXCEPT !.errno = "PAUSED", !.nread = short.stored]
            = [line EXCEPT !.errno = "PAUSED", !.nread = line.stored]
    BY <2>1 DEF Parsers
  <2>5. /\ told \in Parsers /\ told.errno = "OK" /\ told.state = "s_header_almost_done"
        /\ Counts(told)
    <3> HIDE DEF short
    <3>1. parser.stored <= MaxHeaderSize /\ parser.stored \in Nat
      BY <1>1, Looking DEF Counts, Fits, Parsers
    <3>. QED
      BY <1>8, <2>1, <2>4, <3>1, Numbers DEF Counts
  <2>6. Pass(told, to, again, Data(m, stop), Unmark(m))
    <3> HIDE DEF short, to, again
    <3>1. CASE full
      BY <2>2, <2>3, <2>4, <3>1 DEF Pass, Paused
    <3>2. CASE ~full
      BY <2>2, <3>2
    <3>. QED
      BY <3>1, <3>2
  <2> HIDE DEF told
  <2>7. stop \in p..fed /\ to \in p..(fed + 1) /\ again \in BOOLEAN
    BY <1>1, <1>2, <1>16, Looking
  <2> HIDE DEF to, again
  <2>8. Framed(told) /\ told.state \in UnmarkedStates /\ told.state # "s_chunk_size_start"
    BY <2>5 DEF Framed, UnmarkedStates
  <2>9. Telling(told, m)
    BY <1>11, <2>5 DEF Telling, BetweenStates, UrlStates, FieldStates
  <2>. QED
    BY <1>1, <1>12, <2>5, <2>6, <2>7, <2>8, <2>9, ElementEnds
<1>. QED
  BY Zenon, <1>3, <1>13, <1>14, <1>15, <1>16
LEMMA HeadersAlmostDoneKeeps == ASSUME ParserInv, HeadersAlmostDone PROVE ParserInv'
<1>1. Reading /\ parser.state = "s_headers_almost_done" /\ Counted <= MaxHeaderSize
  BY DEF HeadersAlmostDone, At
<1> DEFINE up == Upgrading \/ stream.answer = 2
           flags == IF stream.answer = 0 THEN Now.flags ELSE Now.flags \cup {"F_SKIPBODY"}
           par == [Now EXCEPT !.state = "s_headers_done", !.stored = Counted,
                              !.flags = flags, !.upgrade = up]
<1>2. \/ Error("STRICT") \/ Error("UNEXPECTED_CONTENT_LENGTH")
      \/ /\ "F_TRAILING" \in parser.flags
         /\ Pass([Now EXCEPT !.state = "s_message_done"], p, TRUE,
                 Notify("chunk_complete"), marks)
      \/ /\ "F_TRAILING" \notin parser.flags
         /\ Pass(par, p, TRUE, Notify("headers_complete"), marks)
  BY Zenon DEF HeadersAlmostDone
<1>3. LastTold \in {"url", "status", "header_value", "chunk_header"}
  BY <1>1, Looking DEF Fits, Telling
<1>4. /\ "F_TRAILING" \in parser.flags => LastTold \in {"header_value", "chunk_header"}
      /\ "F_TRAILING" \notin parser.flags => LastTold \in {"url", "status", "header_value"}
  BY <1>1, <1>3, Looking DEF Fits, Telling, FieldStates
<1>5. CASE Error("STRICT")
  BY <1>1, <1>5, Fails DEF Errors
<1>6. CASE Error("UNEXPECTED_CONTENT_LENGTH")
  BY <1>1, <1>6, Fails DEF Errors
<1>7. CASE /\ "F_TRAILING" \in parser.flags
           /\ Pass([Now EXCEPT !.state = "s_message_done"], p, TRUE,
                   Notify("chunk_complete"), marks)
  <2> DEFINE q == [Now EXCEPT !.state = "s_message_done"]
  <2>1. /\ q \in Parsers /\ q.errno = "OK" /\ Counts(q) /\ Framed(q)
        /\ q.state = "s_message_done" /\ q.flags = parser.flags
    BY <1>1, NewState DEF BodyStates, FramedStates
  <2> HIDE DEF q
  <2>2. PICK cb \in DOMAIN Follows : cb = "chunk_complete"
    BY DEF Follows
  <2>3. Telling(q, cb)
    BY <2>1, <2>2 DEF Telling, BetweenStates, UrlStates, FieldStates
  <2>4. MayFollow(LastTold, cb)
    BY <1>4, <1>7, <2>2 DEF MayFollow, Follows
  <2>5. Pass(q, p, TRUE, Notify(cb), marks)
    BY <1>7, <2>2 DEF q
  <2>. QED
    BY <1>1, <2>1, <2>3, <2>4, <2>5, Notifies DEF UnmarkedStates
<1>8. CASE /\ "F_TRAILING" \notin parser.flags
           /\ Pass(par, p, TRUE, Notify("headers_complete"), marks)
  <2>1. up \in BOOLEAN
    OBVIOUS
  <2>2. Now \in Parsers /\ Now.errno = "OK" /\ Now.nread = Counted /\ Counted \in Nat
    BY <1>1, Looking DEF Parsers
  <2>3. flags \in SUBSET Flags
    BY <2>2 DEF Parsers, Flags
  <2> HIDE DEF up, flags
  <2>4. /\ par \in Parsers /\ par.errno = "OK" /\ par.nread = Counted /\ par.stored = Counted
        /\ par.state = "s_headers_done"
    <3> DEFINE q == [Now EXCEPT !.state = "s_headers_done", !.stored = Counted]
    <3>1. /\ q \in Parsers /\ q.errno = "OK" /\ q.nread = Counted /\ q.stored = Counted
          /\ q.state = "s_headers_done"
      BY ZenonT(30), <2>2 DEF Parsers, HeaderLineStates
    <3>2. par = [q EXCEPT !.flags = flags, !.upgrade = up]
      OBVIOUS
    <3> HIDE DEF q, par
    <3>. QED
      BY <2>1, <2>3, <3>1, <3>2 DEF Parsers
  <2> HIDE DEF par
  <2>5. Counts(par) /\ Framed(par)
    BY <1>1, <2>4 DEF Counts, Framed
  <2>6. PICK cb \in DOMAIN Follows : cb = "headers_complete"
    BY DEF Follows
  <2>7. Telling(par, cb)
    BY <2>4, <2>6 DEF Telling, BetweenStates, UrlStates, FieldStates
  <2>8. MayFollow(LastTold, cb)
    BY <1>4, <1>8, <2>6 DEF MayFollow, Follows
  <2>9. Pass(par, p, TRUE, Notify(cb), marks)
    BY <1>8, <2>6
  <2>. QED
    BY <1>1, <2>4, <2>5, <2>7, <2>8, <2>9, Notifies DEF UnmarkedStates
<1>. QED
  BY <1>2, <1>5, <1>6, <1>7, <1>8
-----------------------------------------------------------------------------
(* The end of the headers, and bodies. *)

LEMMA RestartedType ==
    ASSUME ParserInv, Reading
    PROVE  /\ Restarted \in Parsers /\ Restarted.errno = "OK"
           /\ Restarted.nread = 0 /\ Restarted.stored = 0
           /\ Restarted.state = parser.state /\ Restarted.flags = parser.flags
           /\ Restarted.content_length = parser.content_length
BY ZenonT(30), Looking DEF Restarted, Parsers

\* The end of a message.
LEMMA Completes ==
    ASSUME ParserInv, Reading, parser.state \in UnmarkedStates,
           NEW par \in Parsers, par.errno = "OK", Counts(par),
           MayFollow(LastTold, "message_complete"), NEW exits, MessageComplete(par, exits)
    PROVE  ParserInv'
<1> DEFINE next == [par EXCEPT !.state = NEW_MESSAGE(par)]
<1>1. \/ Return(next, p = fed, Notify("message_complete"))
      \/ Pass(next, p + 1, FALSE, Notify("message_complete"), marks)
  BY DEF MessageComplete
<1>2. NEW_MESSAGE(par) \in BetweenStates
  BY DEF NEW_MESSAGE, start_state, BetweenStates
<1>3. /\ next \in Parsers /\ next.errno = "OK" /\ next.nread = par.nread
      /\ next.stored = par.stored /\ next.state \in BetweenStates
  <2>1. NEW_MESSAGE(par) \in UrlStates \cup BodyStates \cup HeaderLineStates
    BY <1>2 DEF BetweenStates, HeaderLineStates
  <2>. QED
    BY <1>2, <2>1 DEF Parsers
<1> HIDE DEF next
<1>4. PICK cb \in DOMAIN Follows : cb = "message_complete"
  BY DEF Follows
<1>5. /\ Counts(next) /\ Framed(next) /\ Telling(next, cb)
      /\ next.state \in UnmarkedStates /\ next.state # "s_chunk_size_start"
  <2>1. Counts(next)
    BY <1>3 DEF Counts
  <2>2. Framed(next)
    BY <1>3 DEF Framed, BetweenStates
  <2>3. Telling(next, cb)
    BY <1>3, <1>4 DEF Telling, BetweenStates, UrlStates, FieldStates
  <2>4. next.state \in UnmarkedStates /\ next.state # "s_chunk_size_start"
    BY <1>3 DEF BetweenStates, UnmarkedStates
  <2>. QED
    BY <2>1, <2>2, <2>3, <2>4
<1>6. CASE Pass(next, p + 1, FALSE, Notify("message_complete"), marks)
  BY <1>3, <1>4, <1>5, <1>6, Notifies
<1>7. CASE Return(next, p = fed, Notify("message_complete"))
  <2> DEFINE c == [cb |-> cb, data |-> <<>>]
  <2>1. c \in Events /\ c.cb = cb /\ Notify("message_complete") = <<c>>
    BY <1>4, NotifyType DEF Notify
  <2> HIDE DEF c
  <2>2. Call(<<c>>)
    BY <1>7, <2>1 DEF Return
  <2>3. Hearing(heard', cb)
    BY <1>4, <2>1, <2>2, HearsOne
  <2>4. MarkedIn(next.state, marks)
    BY <1>5, Looking, NothingMarked
  <2>5. GoesOn(next, p + 1, FALSE, marks, cb)
    BY <1>3, <1>5, <2>4, Looking DEF GoesOn, Fits
  <2>6. PICK all \in BOOLEAN : all = (p = fed)
    OBVIOUS
  <2>7. Return(next, all, Notify("message_complete")) /\ p # 0
    BY <1>7, <2>6 DEF Reading
  <2>. QED
    BY <2>3, <2>5, <2>7, Stopping
<1>. QED
  BY <1>1, <1>6, <1>7
\* The pieces of a body are marked where they begin; there may be none yet.
LEMMA BodyStatesMarked ==
    ASSUME NEW s \in MayMark["body"], NEW m \in Marked, m # "body"
    PROVE  s \notin MayMark[m]
<1>1. PICK b \in Marked : b = "body"
  BY DEF Marked
<1>. QED
  BY <1>1, OneElement

LEMMA BodyMarks ==
    ASSUME ParserInv, Reading, NEW s \in MayMark["body"]
    PROVE  /\ parser.state \in UnmarkedStates => MarkedIn(s, marks)
           /\ parser.state \in MayMark["body"] =>
                /\ MarkedIn(s, marks)
                /\ MARK("body") \in [Marked -> 0..fed] /\ MarkedIn(s, MARK("body"))
                /\ MARK("body")["body"] \in 1..fed
<1>1. marks \in [Marked -> 0..fed] /\ MarkedIn(parser.state, marks) /\ p \in 1..fed
  BY Looking
<1>2. "body" \in Marked
  BY DEF Marked
<1>3. ASSUME NEW mk, \A m \in Marked : m # "body" => mk[m] = 0
      PROVE  MarkedIn(s, mk)
  BY <1>3, BodyStatesMarked DEF MarkedIn
<1>4. ASSUME parser.state \in UnmarkedStates PROVE MarkedIn(s, marks)
  <2>1. \A m \in Marked : marks[m] = 0
    BY <1>1, <1>4, NothingMarked
  <2>. QED
    BY <1>3, <2>1
<1>5. ASSUME parser.state \in MayMark["body"]
      PROVE  /\ MarkedIn(s, marks)
             /\ MARK("body") \in [Marked -> 0..fed] /\ MarkedIn(s, MARK("body"))
             /\ MARK("body")["body"] \in 1..fed
  <2>1. \A m \in Marked : m # "body" => marks[m] = 0
    BY <1>1, <1>5, BodyStatesMarked DEF MarkedIn
  <2> DEFINE mk == MARK("body")
  <2>2. /\ mk \in [Marked -> 0..fed] /\ mk["body"] \in 1..fed
        /\ \A m \in Marked : m # "body" => mk[m] = 0
    BY <1>1, <1>2, <2>1 DEF MARK
  <2> HIDE DEF mk
  <2>. QED
    BY <1>3, <2>1, <2>2 DEF mk
<1>. QED
  BY <1>4, <1>5

LEMMA BodyUnmarked ==
    ASSUME ParserInv, Reading, parser.state \in MayMark["body"], NEW s \in UnmarkedStates
    PROVE  Unmark("body") \in [Marked -> 0..fed] /\ MarkedIn(s, Unmark("body"))
<1>1. /\ marks \in [Marked -> 0..fed] /\ MarkedIn(parser.state, marks)
      /\ "body" \in Marked
      /\ fed \in Nat
  BY Looking DEF Marked
<1>2. \A m \in Marked : m # "body" => marks[m] = 0
  BY <1>1, BodyStatesMarked DEF MarkedIn
<1> DEFINE mk == Unmark("body")
<1>3. mk \in [Marked -> 0..fed] /\ \A m \in Marked : mk[m] = 0
  BY <1>1, <1>2 DEF Unmark
<1> HIDE DEF mk
<1>4. MarkedIn(s, mk)
  BY <1>3, Unmarked DEF MarkedIn
<1>. QED
  BY <1>3, <1>4 DEF mk

\* A body begins, with or without a callback.
LEMMA BodyBegins ==
    ASSUME ParserInv, Reading, parser.state \in UnmarkedStates, NEW par \in Parsers,
           par.errno = "OK", Counts(par), Framed(par), Telling(par, LastTold),
           par.state \in MayMark["body"], Break(par)
    PROVE  ParserInv'
<1>1. MarkedIn(par.state, marks)
  BY BodyMarks
<1>2. GoesOn(par, p + 1, FALSE, marks, LastTold)
  BY <1>1, Looking DEF GoesOn, Fits
<1>. QED
  BY <1>2, Passes, Looking DEF Break

LEMMA BodyBeginsTelling ==
    ASSUME ParserInv, Reading, parser.state \in UnmarkedStates, NEW par \in Parsers,
           par.errno = "OK", Counts(par), Framed(par), NEW cb \in DOMAIN Follows,
           Telling(par, cb), MayFollow(LastTold, cb), par.state \in MayMark["body"],
           Pass(par, p + 1, FALSE, Notify(cb), marks)
    PROVE  ParserInv'
<1> DEFINE c == [cb |-> cb, data |-> <<>>]
<1>1. c \in Events /\ c.cb = cb /\ Notify(cb) = <<c>>
  BY NotifyType DEF Notify
<1> HIDE DEF c
<1>2. MarkedIn(par.state, marks)
  BY BodyMarks
<1>3. GoesOn(par, p + 1, FALSE, marks, c.cb)
  BY <1>1, <1>2, Looking DEF GoesOn, Fits
<1>. QED
  BY <1>1, <1>3, PassesTelling, Looking

\* A body goes on.
LEMMA BodyGoesOn ==
    ASSUME ParserInv, Reading, parser.state \in MayMark["body"], NEW par \in Parsers,
           par.errno = "OK", Counts(par), Framed(par), Telling(par, LastTold),
           par.state \in MayMark["body"], NEW to \in p..(fed + 1),
           Pass(par, to, FALSE, <<>>, MARK("body"))
    PROVE  ParserInv'
<1> DEFINE mk == MARK("body")
<1>1. mk \in [Marked -> 0..fed] /\ MarkedIn(par.state, mk)
  BY BodyMarks
<1> HIDE DEF mk
<1>2. GoesOn(par, to, FALSE, mk, LastTold)
  BY <1>1, Looking DEF GoesOn, Fits
<1>. QED
  BY <1>2, Passes, Looking DEF mk

\* A piece of a body is called back, and the body is over.
LEMMA BodyEnds ==
    ASSUME ParserInv, Reading, parser.state \in MayMark["body"], NEW par \in Parsers,
           par.errno = "OK", Counts(par), Framed(par), Telling(par, "body"),
           MayFollow(LastTold, "body"), par.state \in UnmarkedStates,
           par.state # "s_chunk_size_start", NEW to \in p..(fed + 1), NEW again \in BOOLEAN,
           NEW start \in 1..fed, NEW at \in 0..fed, NEW cs,
           cs = <<[cb |-> "body", data |-> SubSeq(stream.wire, start, at)]>>,
           Pass(par, to, again, cs, Unmark("body"))
    PROVE  ParserInv'
<1> DEFINE c == [cb |-> "body", data |-> SubSeq(stream.wire, start, at)]
           mk == Unmark("body")
<1>1. c \in Events /\ c.cb = "body" /\ cs = <<c>>
  <2>1. start \in Nat /\ at \in Nat /\ start >= 1 /\ at <= Len(stream.wire)
    BY Looking
  <2>2. \A i \in start..at : stream.wire[i] \in STRING
    BY <2>1, Streamed DEF ParserInv
  <2>3. SubSeq(stream.wire, start, at) \in Seq(STRING)
    BY <2>1, <2>2, SubSeqProperties
  <2>. QED
    BY <2>3 DEF Events, Follows
<1>2. mk \in [Marked -> 0..fed] /\ MarkedIn(par.state, mk)
  BY BodyUnmarked
<1> HIDE DEF c, mk
<1>3. GoesOn(par, to, again, mk, c.cb)
  BY <1>1, <1>2, Looking DEF GoesOn, Fits
<1>. QED
  BY <1>1, <1>3, PassesTelling, Looking DEF mk
LEMMA HeadersDoneKeeps == ASSUME ParserInv, HeadersDone PROVE ParserInv'
<1>1. Reading /\ parser.state = "s_headers_done" /\ Counted <= MaxHeaderSize
  BY DEF HeadersDone, At
<1> DEFINE par == Restarted
           chunked == "F_CHUNKED" \in par.flags
           skips == "F_SKIPBODY" \in par.flags
           hasBody == chunked \/ par.content_length \notin {0, ULLONG_MAX}
           exits == par.upgrade /\ (par.method = "CONNECT" \/ skips \/ ~hasBody)
<1>2. \/ MessageComplete(par, TRUE) \/ MessageComplete(par, FALSE)
      \/ chunked /\ Break([par EXCEPT !.state = "s_chunk_size_start"])
      \/ Return([par EXCEPT !.errno = "INVALID_TRANSFER_ENCODING"], FALSE, <<>>)
      \/ Break([par EXCEPT !.state = "s_body_identity_eof"])
      \/ /\ par.content_length \notin {0, ULLONG_MAX}
         /\ Break([par EXCEPT !.state = "s_body_identity"])
  BY Zenon DEF HeadersDone
<1>3. LastTold = "headers_complete"
  BY <1>1, Looking DEF Fits, Telling
<1>4. /\ par \in Parsers /\ par.errno = "OK" /\ par.nread = 0 /\ par.stored = 0
      /\ Counts(par)
  BY <1>1, RestartedType, Numbers DEF Counts
<1>5. parser.state \in UnmarkedStates /\ MayFollow(LastTold, "message_complete")
  BY <1>1, <1>3 DEF UnmarkedStates, MayFollow, Follows
<1> HIDE DEF par
<1>6. CASE MessageComplete(par, TRUE) \/ MessageComplete(par, FALSE)
  BY <1>1, <1>4, <1>5, <1>6, Completes
<1>7. CASE Return([par EXCEPT !.errno = "INVALID_TRANSFER_ENCODING"], FALSE, <<>>)
  <2> DEFINE q == [par EXCEPT !.errno = "INVALID_TRANSFER_ENCODING"]
  <2>1. q \in Parsers /\ q.nread = 0 /\ q.errno = "INVALID_TRANSFER_ENCODING"
    BY <1>4 DEF Parsers
  <2>2. 0 <= 2 * (MaxHeaderSize + Len(stream.wire))
    BY <1>1, Looking, Numbers
  <2> HIDE DEF q
  <2>3. Halts(q)
    BY <2>1, <2>2 DEF Halts
  <2>. QED
    BY <1>1, <1>7, <2>3, Returns, Looking DEF q
<1>8. ASSUME NEW s \in {"s_chunk_size_start", "s_body_identity_eof", "s_body_identity"},
             s = "s_chunk_size_start" => chunked,
             s = "s_body_identity" => par.content_length \notin {0, ULLONG_MAX},
             Break([par EXCEPT !.state = s])
      PROVE  ParserInv'
  <2> DEFINE q == [par EXCEPT !.state = s]
  <2>1. s \in UrlStates \cup BodyStates \cup HeaderLineStates
    BY DEF BodyStates, HeaderLineStates
  <2>2. /\ q \in Parsers /\ q.errno = "OK" /\ q.state = s /\ q.flags = par.flags
        /\ q.nread = 0 /\ q.stored = 0 /\ q.content_length = par.content_length
    BY <1>4, <2>1 DEF Parsers
  <2> HIDE DEF q
  <2>3. Counts(q)
    BY <2>2, Numbers DEF Counts
  <2>4. Framed(q)
    BY <1>8, <2>2 DEF Framed
  <2>5. Telling(q, LastTold)
    BY <1>3, <2>2 DEF Telling, BetweenStates, UrlStates, FieldStates
  <2>6. CASE s = "s_chunk_size_start"
    BY <1>1, <1>5, <1>8, <2>2, <2>3, <2>4, <2>5, <2>6, Plainly DEF q, UnmarkedStates
  <2>7. CASE s # "s_chunk_size_start"
    <3>1. q.state \in MayMark["body"]
      BY <2>2, <2>7 DEF MayMark
    <3>. QED
      BY <1>1, <1>5, <1>8, <2>2, <2>3, <2>4, <2>5, <3>1, BodyBegins DEF q
  <2>. QED
    BY <2>6, <2>7
<1>. QED
  BY <1>2, <1>6, <1>7, <1>8

LEMMA ToReadIs ==
    ASSUME ParserInv, Reading, parser.content_length \notin {0, ULLONG_MAX}
    PROVE  /\ ToRead \in Nat /\ ToRead >= 1 /\ p + ToRead - 1 \in p..fed
           /\ p + ToRead \in p..(fed + 1) /\ p + ToRead - 1 \in p..(fed + 1)
           /\ p + ToRead - 1 \in 0..fed
           /\ Now.content_length - ToRead \in 0..ULLONG_MAX
           /\ Now.content_length - ToRead # ULLONG_MAX
<1>1. /\ parser.content_length \in 0..ULLONG_MAX /\ ULLONG_MAX \in Nat
      /\ Now.content_length = parser.content_length
  BY Looking, Numbers DEF Parsers
<1>2. p \in 1..fed /\ fed \in Nat
  BY Looking
<1> DEFINE c == parser.content_length
<1>3. c \in Nat /\ c >= 1 /\ c < ULLONG_MAX
  BY <1>1
<1>4. ToRead = (IF c < fed - p + 1 THEN c ELSE fed - p + 1)
  BY DEF ToRead
<1> HIDE DEF c
<1>. QED
  BY <1>1, <1>2, <1>3, <1>4 DEF c

LEMMA BodyIdentityKeeps == ASSUME ParserInv, BodyIdentity PROVE ParserInv'
<1>1. Reading /\ parser.state = "s_body_identity" /\ Counted <= MaxHeaderSize
  BY DEF BodyIdentity, At
<1> DEFINE mark == MARK("body")["body"]
           par == [Now EXCEPT !.content_length = @ - ToRead]
           cs == <<[cb |-> "body", data |-> SubSeq(stream.wire, mark, p + ToRead - 1)]>>
<1>2. \/ Pass([par EXCEPT !.state = "s_message_done"], p + ToRead - 1, TRUE, cs, Unmark("body"))
      \/ par.content_length # 0 /\ Pass(par, p + ToRead, FALSE, <<>>, MARK("body"))
  BY DEF BodyIdentity
<1>3. parser.content_length \notin {0, ULLONG_MAX}
  BY <1>1, Looking DEF Fits, Framed
<1>4. LastTold \in {"headers_complete", "body"}
  BY <1>1, Looking DEF Fits, Telling
<1>5. parser.state \in MayMark["body"]
  BY <1>1 DEF MayMark
<1>6. mark \in 1..fed
  BY <1>1, <1>5, BodyMarks
<1> HIDE DEF mark
<1>7. /\ par \in Parsers /\ par.errno = "OK" /\ par.state = parser.state
      /\ par.flags = parser.flags /\ par.nread = Counted /\ par.stored = parser.stored
      /\ par.content_length # ULLONG_MAX
  <2> DEFINE n == Now.content_length - ToRead
  <2>1. n \in 0..ULLONG_MAX /\ n # ULLONG_MAX
    BY <1>1, <1>3, ToReadIs
  <2> HIDE DEF n
  <2>2. par = [Now EXCEPT !.content_length = n]
    BY DEF n
  <2> HIDE DEF par
  <2>. QED
    BY <1>1, <2>1, <2>2, Looking DEF Parsers
<1> HIDE DEF par
<1>8. Counts(par)
  <2>1. parser.stored <= MaxHeaderSize
    BY <1>1, Looking DEF Counts, Fits
  <2>. QED
    BY <1>1, <1>7, <2>1 DEF Counts
<1>9. CASE Pass([par EXCEPT !.state = "s_message_done"], p + ToRead - 1, TRUE, cs, Unmark("body"))
  <2> DEFINE q == [par EXCEPT !.state = "s_message_done"]
  <2>1. /\ q \in Parsers /\ q.errno = "OK" /\ q.state = "s_message_done"
        /\ q.nread = par.nread /\ q.stored = par.stored
    BY <1>7 DEF Parsers, BodyStates
  <2> HIDE DEF q
  <2>2. Counts(q) /\ Framed(q)
    BY <1>8, <2>1 DEF Counts, Framed
  <2>3. Telling(q, "body")
    BY <2>1 DEF Telling, BetweenStates, UrlStates, FieldStates
  <2>4. MayFollow(LastTold, "body") /\ q.state \in UnmarkedStates /\ q.state # "s_chunk_size_start"
    BY <1>4, <2>1 DEF MayFollow, Follows, Marked, UnmarkedStates
  <2>5. /\ p + ToRead - 1 \in p..(fed + 1) /\ p + ToRead - 1 \in 0..fed /\ TRUE \in BOOLEAN
    BY <1>1, <1>3, ToReadIs
  <2>6. PICK at \in 0..fed : at = p + ToRead - 1
    BY <2>5
  <2>7. PICK ds : ds = cs
    OBVIOUS
  <2>8. /\ ds = <<[cb |-> "body", data |-> SubSeq(stream.wire, mark, at)]>>
        /\ Pass(q, at, TRUE, ds, Unmark("body")) /\ at \in p..(fed + 1)
    BY <1>9, <2>5, <2>6, <2>7 DEF q
  <2> HIDE DEF cs
  <2>. QED
    BY <1>1, <1>5, <1>6, <2>1, <2>2, <2>3, <2>4, <2>5, <2>8, BodyEnds
<1>10. CASE par.content_length # 0 /\ Pass(par, p + ToRead, FALSE, <<>>, MARK("body"))
  <2>1. Framed(par)
    BY <1>1, <1>7, <1>10 DEF Framed
  <2>2. Telling(par, LastTold)
    BY <1>1, <1>4, <1>7 DEF Telling, BetweenStates, UrlStates, FieldStates
  <2>3. p + ToRead \in p..(fed + 1) /\ par.state \in MayMark["body"]
    BY <1>1, <1>3, <1>5, <1>7, ToReadIs
  <2>. QED
    BY <1>1, <1>5, <1>7, <1>8, <1>10, <2>1, <2>2, <2>3, BodyGoesOn
<1>. QED
  BY <1>2, <1>9, <1>10
LEMMA BodyIdentityEofKeeps == ASSUME ParserInv, BodyIdentityEof PROVE ParserInv'
<1>1. Reading /\ parser.state = "s_body_identity_eof" /\ Counted <= MaxHeaderSize
  BY DEF BodyIdentityEof, At
<1>2. Pass(Now, fed + 1, FALSE, <<>>, MARK("body"))
  BY DEF BodyIdentityEof
<1>3. /\ Now \in Parsers /\ Now.errno = "OK" /\ Now.state = parser.state
      /\ Now.flags = parser.flags /\ Now.nread = Counted /\ Now.stored = parser.stored
  BY <1>1, Looking DEF Parsers
<1>4. Counts(Now)
  <2>1. parser.stored <= MaxHeaderSize
    BY <1>1, Looking DEF Counts, Fits
  <2>. QED
    BY <1>1, <1>3, <2>1 DEF Counts
<1>5. Framed(Now)
  BY <1>1, <1>3 DEF Framed
<1>6. LastTold \in {"headers_complete", "body"}
  BY <1>1, Looking DEF Fits, Telling
<1>7. Telling(Now, LastTold)
  BY <1>1, <1>3, <1>6 DEF Telling, BetweenStates, UrlStates, FieldStates
<1>8. parser.state \in MayMark["body"] /\ fed + 1 \in p..(fed + 1)
  BY <1>1, Looking DEF MayMark
<1>. QED
  BY <1>1, <1>2, <1>3, <1>4, <1>5, <1>7, <1>8, BodyGoesOn

LEMMA MessageDoneKeeps == ASSUME ParserInv, MessageDone PROVE ParserInv'
<1>1. Reading /\ parser.state = "s_message_done" /\ Counted <= MaxHeaderSize
  BY DEF MessageDone, At
<1>2. MessageComplete(Now, parser.upgrade)
  BY DEF MessageDone
<1>3. LastTold \in {"body", "chunk_complete"}
  BY <1>1, Looking DEF Fits, Telling
<1>4. MayFollow(LastTold, "message_complete") /\ parser.state \in UnmarkedStates
  BY <1>1, <1>3 DEF MayFollow, Follows, UnmarkedStates
<1>5. /\ Now \in Parsers /\ Now.errno = "OK" /\ Now.nread = Counted
      /\ Now.stored = parser.stored
  BY <1>1, Looking DEF Parsers
<1>6. Counts(Now)
  <2>1. parser.stored <= MaxHeaderSize
    BY <1>1, Looking DEF Counts, Fits
  <2>. QED
    BY <1>1, <1>5, <2>1 DEF Counts
<1>. QED
  BY <1>1, <1>2, <1>4, <1>5, <1>6, Completes
-----------------------------------------------------------------------------
(* Chunked bodies. *)

LEMMA ChunkSizeStartKeeps == ASSUME ParserInv, ChunkSizeStart PROVE ParserInv'
<1>1. Reading /\ parser.state = "s_chunk_size_start" /\ Counted <= MaxHeaderSize
  BY DEF ChunkSizeStart, At
<1>2. CASE Error("INVALID_CHUNK_SIZE")
  BY <1>1, <1>2, Fails DEF Errors
<1> DEFINE n == Digit[Unit]
           par == [Now EXCEPT !.state = "s_chunk_size", !.content_length = n]
<1>3. CASE IsHex(Unit) /\ Break(par)
  <2>1. n \in 0..ULLONG_MAX /\ n # ULLONG_MAX
    <3>1. n \in Nat /\ n \in 0..ULLONG_MAX /\ n < ULLONG_MAX
      BY <1>3, NumType
    <3>. QED
      BY <3>1, Numbers
  <2> HIDE DEF n
  <2>2. /\ par \in Parsers /\ par.errno = "OK" /\ par.state = "s_chunk_size"
        /\ par.flags = parser.flags /\ par.nread = Counted /\ par.stored = parser.stored
        /\ par.content_length # ULLONG_MAX
    BY ZenonT(30), <1>1, <2>1, Looking DEF Parsers, HeaderLineStates
  <2> HIDE DEF par
  <2>3. Counts(par)
    <3>1. parser.stored <= MaxHeaderSize
      BY <1>1, Looking DEF Counts, Fits
    <3>. QED
      BY <1>1, <2>2, <3>1 DEF Counts
  <2>4. Framed(par)
    <3>1. "F_CHUNKED" \in parser.flags
      BY <1>1, Looking DEF Fits, Framed
    <3>. QED
      BY <2>2, <3>1 DEF Framed
  <2>5. Telling(par, LastTold)
    <3>1. LastTold \in {"headers_complete", "chunk_complete"}
      BY <1>1, Looking DEF Fits, Telling
    <3>. QED
      BY <2>2, <3>1 DEF Telling, BetweenStates, UrlStates, FieldStates
  <2>. QED
    BY <1>1, <1>3, <2>2, <2>3, <2>4, <2>5, Plainly DEF UnmarkedStates
<1>. QED
  BY <1>2, <1>3 DEF ChunkSizeStart

\* The check made before a digit is enough: the number with it fits, and is
\* not the mark of no length.
LEMMA NoOverflow ==
    ASSUME NEW n \in Nat, NEW base \in Nat \ {0}, base <= ULLONG_MAX, NEW d \in 0..(base - 1),
           ~Overflows(n, base)
    PROVE  /\ TimesPlus(n, base, d) = n * base + d
           /\ n * base + d < ULLONG_MAX
<1> DEFINE M == ULLONG_MAX
           q == (M - base) \div base
<1>1. M \in Nat /\ base <= M /\ n <= q
  <2>1. ~(q < n) /\ M \in Nat /\ M - base \in Nat
    BY Numbers DEF Overflows
  <2>2. q \in Int
    BY <2>1
  <2> HIDE DEF q
  <2>. QED
    BY <2>1, <2>2
<1>2. q \in Nat /\ q * base <= M - base
  BY <1>1
<1> HIDE DEF M, q
<1>3. n * base <= q * base
  BY <1>1, <1>2
<1>4. n * base \in Nat /\ n * base <= M - base
  BY <1>1, <1>2, <1>3
<1> DEFINE k == n * base
<1> HIDE DEF k
<1>5. k \in Nat /\ k <= M - base
  BY <1>4 DEF k
<1>6. k + d < M /\ k + d \in 0..M
  BY <1>1, <1>5
<1>7. (k + d) % (M + 1) = k + d
  BY <1>1, <1>6
<1>. QED
  BY <1>6, <1>7 DEF k, M, TimesPlus

LEMMA ChunkSizeKeeps == ASSUME ParserInv, ChunkSize PROVE ParserInv'
<1>1. Reading /\ parser.state = "s_chunk_size" /\ Counted <= MaxHeaderSize
  BY DEF ChunkSize, At
<1> DEFINE c == parser.content_length
           n == TimesPlus(Now.content_length, HexBase, Digit[Unit])
           par == [Now EXCEPT !.content_length = n]
<1>2. \/ Goto("s_chunk_size_almost_done") \/ Goto("s_chunk_parameters")
      \/ Error("INVALID_CHUNK_SIZE") \/ Error("INVALID_CONTENT_LENGTH")
      \/ IsHex(Unit) /\ ~Overflows(c, HexBase) /\ Break(par)
  BY DEF ChunkSize
<1>3. /\ LastTold \in {"headers_complete", "chunk_complete"}
      /\ "F_CHUNKED" \in parser.flags /\ parser.content_length # ULLONG_MAX
  BY <1>1, Looking DEF Fits, Telling, Framed
<1>4. parser.state \in UnmarkedStates
  BY <1>1 DEF UnmarkedStates
<1>5. CASE Error("INVALID_CHUNK_SIZE") \/ Error("INVALID_CONTENT_LENGTH")
  BY <1>1, <1>5, Fails DEF Errors
<1>6. ASSUME NEW q \in Parsers, q.errno = "OK", Counts(q), Break(q), q.flags = parser.flags,
             q.content_length # ULLONG_MAX,
             q.state \in {"s_chunk_size", "s_chunk_parameters", "s_chunk_size_almost_done"}
      PROVE  ParserInv'
  <2>1. Framed(q)
    BY <1>3, <1>6 DEF Framed
  <2>2. Telling(q, LastTold)
    BY <1>3, <1>6 DEF Telling, BetweenStates, UrlStates, FieldStates
  <2>3. q.state \in UnmarkedStates
    BY <1>6 DEF UnmarkedStates
  <2>. QED
    BY <1>1, <1>4, <1>6, <2>1, <2>2, <2>3, Plainly
<1>7. ASSUME NEW s \in {"s_chunk_parameters", "s_chunk_size_almost_done"}, Goto(s)
      PROVE  ParserInv'
  <2> DEFINE q == [Now EXCEPT !.state = s]
  <2>1. /\ q \in Parsers /\ q.errno = "OK" /\ Counts(q) /\ q.state = s
        /\ q.flags = parser.flags /\ q.content_length = parser.content_length
    BY <1>1, NewState DEF HeaderLineStates
  <2>2. Break(q)
    BY <1>7 DEF Goto
  <2> HIDE DEF q
  <2>. QED
    BY <1>3, <1>6, <2>1, <2>2
<1>8. CASE IsHex(Unit) /\ ~Overflows(c, HexBase) /\ Break(par)
  <2>1. /\ Now \in Parsers /\ Now.errno = "OK" /\ Now.state = parser.state
        /\ Now.flags = parser.flags /\ Now.nread = Counted /\ Now.stored = parser.stored
        /\ Now.content_length = c /\ c \in 0..ULLONG_MAX
    BY <1>1, Looking DEF Parsers
  <2>2. c \in Nat /\ Digit[Unit] \in 0..(HexBase - 1) /\ HexBase \in Nat \ {0}
        /\ HexBase <= ULLONG_MAX
    <3>1. Digit[Unit] \in Nat /\ Digit[Unit] < HexBase
      BY <1>8, NumType DEF IsHex
    <3>. QED
      BY <2>1, <3>1, Numbers
  <2>3. n \in 0..ULLONG_MAX /\ n # ULLONG_MAX
    <3>1. n = c * HexBase + Digit[Unit] /\ n < ULLONG_MAX /\ n \in 0..ULLONG_MAX
      <4>1. n = TimesPlus(c, HexBase, Digit[Unit])
        BY <2>1
      <4>2. Digit[Unit] \in Nat
        BY <2>2
      <4> HIDE DEF n, c
      <4>. QED
        BY <1>8, <2>2, <4>1, <4>2, NoOverflow, TimesPlusType
    <3> HIDE DEF n
    <3>. QED
      BY <3>1, Numbers
  <2> HIDE DEF n
  <2>4. /\ par \in Parsers /\ par.errno = "OK" /\ par.state = parser.state
        /\ par.flags = parser.flags /\ par.nread = Counted /\ par.stored = parser.stored
        /\ par.content_length # ULLONG_MAX
    BY <2>1, <2>3 DEF Parsers
  <2> HIDE DEF par
  <2>5. Counts(par)
    <3>1. parser.stored <= MaxHeaderSize
      BY <1>1, Looking DEF Counts, Fits
    <3>. QED
      BY <1>1, <2>4, <3>1 DEF Counts
  <2>. QED
    BY <1>1, <1>6, <1>8, <2>4, <2>5
<1>. QED
  BY <1>2, <1>5, <1>7, <1>8

LEMMA ChunkParametersKeeps == ASSUME ParserInv, ChunkParameters PROVE ParserInv'
<1>1. Reading /\ parser.state = "s_chunk_parameters" /\ Counted <= MaxHeaderSize
  BY DEF ChunkParameters, At
<1>2. CASE Break(Now)
  BY <1>1, <1>2, Skips
<1>3. CASE Goto("s_chunk_size_almost_done")
  <2> DEFINE par == [Now EXCEPT !.state = "s_chunk_size_almost_done"]
  <2>1. /\ par \in Parsers /\ par.errno = "OK" /\ Counts(par)
        /\ par.state = "s_chunk_size_almost_done"
        /\ par.flags = parser.flags /\ par.content_length = parser.content_length
    BY <1>1, NewState DEF HeaderLineStates
  <2>2. Break(par)
    BY <1>3 DEF Goto
  <2> HIDE DEF par
  <2>3. Framed(par)
    BY <1>1, <2>1, Looking DEF Framed, Fits
  <2>4. Telling(par, LastTold)
    BY <1>1, <2>1, Looking DEF Fits, Telling, BetweenStates, UrlStates, FieldStates
  <2>. QED
    BY <1>1, <2>1, <2>2, <2>3, <2>4, Plainly DEF UnmarkedStates
<1>. QED
  BY <1>2, <1>3 DEF ChunkParameters
LEMMA ChunkSizeAlmostDoneKeeps == ASSUME ParserInv, ChunkSizeAlmostDone PROVE ParserInv'
<1>1. Reading /\ parser.state = "s_chunk_size_almost_done" /\ Counted <= MaxHeaderSize
  BY DEF ChunkSizeAlmostDone, At
<1> DEFINE par == Restarted
           trailer == [par EXCEPT !.flags = @ \cup {"F_TRAILING"},
                                  !.state = "s_header_field_start"]
           data == [par EXCEPT !.state = "s_chunk_data"]
<1>2. \/ Error("STRICT")
      \/ par.content_length = 0 /\ Pass(trailer, p + 1, FALSE, Notify("chunk_header"), marks)
      \/ par.content_length # 0 /\ Pass(data, p + 1, FALSE, Notify("chunk_header"), marks)
  BY DEF ChunkSizeAlmostDone
<1>3. /\ LastTold \in {"headers_complete", "chunk_complete"}
      /\ "F_CHUNKED" \in parser.flags /\ parser.content_length # ULLONG_MAX
  BY <1>1, Looking DEF Fits, Telling, Framed
<1>4. PICK cb \in DOMAIN Follows : cb = "chunk_header"
  BY DEF Follows
<1>5. MayFollow(LastTold, cb) /\ parser.state \in UnmarkedStates
  BY <1>1, <1>3, <1>4 DEF MayFollow, Follows, UnmarkedStates
<1>6. /\ par \in Parsers /\ par.errno = "OK" /\ par.nread = 0 /\ par.stored = 0
      /\ par.flags = parser.flags /\ par.content_length = parser.content_length
  BY <1>1, RestartedType
<1> HIDE DEF par
<1>7. CASE Error("STRICT")
  BY <1>1, <1>7, Fails DEF Errors
<1>8. CASE Pass(trailer, p + 1, FALSE, Notify("chunk_header"), marks)
  <2>1. par.flags \cup {"F_TRAILING"} \in SUBSET Flags
    BY <1>6 DEF Parsers, Flags
  <2>2. /\ trailer \in Parsers /\ trailer.errno = "OK" /\ trailer.state = "s_header_field_start"
        /\ trailer.nread = 0 /\ trailer.stored = 0 /\ "F_TRAILING" \in trailer.flags
    BY <1>6, <2>1 DEF Parsers, HeaderLineStates
  <2> HIDE DEF trailer
  <2>3. Counts(trailer) /\ Framed(trailer)
    BY <2>2, Numbers DEF Counts, Framed
  <2>4. Telling(trailer, cb)
    BY <1>4, <2>2 DEF Telling, BetweenStates, UrlStates, FieldStates
  <2>5. Pass(trailer, p + 1, FALSE, Notify(cb), marks)
    BY <1>4, <1>8
  <2>6. trailer.state \in UnmarkedStates
    BY <2>2 DEF UnmarkedStates
  <2>. QED
    BY <1>1, <1>5, <2>2, <2>3, <2>4, <2>5, <2>6, Notifies
<1>9. CASE par.content_length # 0 /\ Pass(data, p + 1, FALSE, Notify("chunk_header"), marks)
  <2>1. /\ data \in Parsers /\ data.errno = "OK" /\ data.state = "s_chunk_data"
        /\ data.nread = 0 /\ data.stored = 0 /\ data.flags = parser.flags
        /\ data.content_length = par.content_length
    BY <1>6 DEF Parsers, BodyStates
  <2> HIDE DEF data
  <2>2. Counts(data) /\ Framed(data)
    BY <1>3, <1>6, <1>9, <2>1, Numbers DEF Counts, Framed
  <2>3. Telling(data, cb)
    BY <1>4, <2>1 DEF Telling, BetweenStates, UrlStates, FieldStates
  <2>4. Pass(data, p + 1, FALSE, Notify(cb), marks)
    BY <1>4, <1>9
  <2>5. data.state \in MayMark["body"]
    BY <2>1 DEF MayMark
  <2>. QED
    BY <1>1, <1>5, <2>1, <2>2, <2>3, <2>4, <2>5, BodyBeginsTelling
<1>. QED
  BY <1>2, <1>7, <1>8, <1>9

LEMMA ChunkDataKeeps == ASSUME ParserInv, ChunkData PROVE ParserInv'
<1>1. Reading /\ parser.state = "s_chunk_data" /\ Counted <= MaxHeaderSize
  BY DEF ChunkData, At
<1> DEFINE par == [Now EXCEPT !.content_length = @ - ToRead]
           read == IF par.content_length = 0
                   THEN [par EXCEPT !.state = "s_chunk_data_almost_done"] ELSE par
<1>2. Pass(read, p + ToRead, FALSE, <<>>, MARK("body"))
  BY DEF ChunkData
<1>3. /\ parser.content_length \notin {0, ULLONG_MAX} /\ "F_CHUNKED" \in parser.flags
      /\ LastTold \in {"chunk_header", "body"}
  BY <1>1, Looking DEF Fits, Framed, Telling
<1>4. /\ par \in Parsers /\ par.errno = "OK" /\ par.state = parser.state
      /\ par.flags = parser.flags /\ par.nread = Counted /\ par.stored = parser.stored
      /\ par.content_length # ULLONG_MAX
  <2> DEFINE n == Now.content_length - ToRead
  <2>1. n \in 0..ULLONG_MAX /\ n # ULLONG_MAX
    BY <1>1, <1>3, ToReadIs
  <2> HIDE DEF n
  <2>2. par = [Now EXCEPT !.content_length = n]
    BY DEF n
  <2> HIDE DEF par
  <2>. QED
    BY <1>1, <2>1, <2>2, Looking DEF Parsers
<1> HIDE DEF par
<1>5. /\ read \in Parsers /\ read.errno = "OK" /\ read.flags = parser.flags
      /\ read.nread = Counted /\ read.stored = parser.stored
      /\ read.content_length # ULLONG_MAX
      /\ \/ read.state = "s_chunk_data_almost_done" /\ read.content_length = 0
         \/ read.state = "s_chunk_data" /\ read.content_length # 0
  <2>1. CASE par.content_length = 0
    BY <1>1, <1>4, <2>1 DEF Parsers, BodyStates
  <2>2. CASE par.content_length # 0
    BY <1>1, <1>4, <2>2
  <2>. QED
    BY <2>1, <2>2
<1> HIDE DEF read
<1>6. Counts(read)
  <2>1. parser.stored <= MaxHeaderSize
    BY <1>1, Looking DEF Counts, Fits
  <2>. QED
    BY <1>1, <1>5, <2>1 DEF Counts
<1>7. Framed(read)
  BY <1>3, <1>5 DEF Framed
<1>8. Telling(read, LastTold)
  BY <1>3, <1>5 DEF Telling, BetweenStates, UrlStates, FieldStates
<1>9. /\ parser.state \in MayMark["body"] /\ read.state \in MayMark["body"]
      /\ p + ToRead \in p..(fed + 1)
  BY <1>1, <1>3, <1>5, ToReadIs DEF MayMark
<1>10. PICK to \in p..(fed + 1) : to = p + ToRead
  BY <1>9
<1>. QED
  BY <1>1, <1>2, <1>5, <1>6, <1>7, <1>8, <1>9, <1>10, BodyGoesOn

LEMMA ChunkDataAlmostDoneKeeps == ASSUME ParserInv, ChunkDataAlmostDone PROVE ParserInv'
<1>1. Reading /\ parser.state = "s_chunk_data_almost_done" /\ Counted <= MaxHeaderSize
  BY DEF ChunkDataAlmostDone, At
<1> DEFINE par == [Now EXCEPT !.state = "s_chunk_data_done"]
<1>2. Error("STRICT") \/ Pass(par, p + 1, FALSE, Data("body", p), Unmark("body"))
  BY DEF ChunkDataAlmostDone
<1>3. CASE Error("STRICT")
  BY <1>1, <1>3, Fails DEF Errors
<1>4. /\ "F_CHUNKED" \in parser.flags /\ LastTold \in {"chunk_header", "body"}
  BY <1>1, Looking DEF Fits, Framed, Telling
<1>5. /\ par \in Parsers /\ par.errno = "OK" /\ Counts(par)
      /\ par.state = "s_chunk_data_done" /\ par.flags = parser.flags
  BY <1>1, NewState DEF BodyStates
<1> HIDE DEF par
<1>6. Framed(par)
  BY <1>4, <1>5 DEF Framed
<1>7. Telling(par, LastTold) /\ Telling(par, "body")
  BY <1>4, <1>5 DEF Telling, BetweenStates, UrlStates, FieldStates
<1>8. /\ parser.state \in MayMark["body"] /\ par.state \in UnmarkedStates
      /\ par.state # "s_chunk_size_start" /\ MayFollow(LastTold, "body")
  BY <1>1, <1>4, <1>5 DEF MayMark, UnmarkedStates, MayFollow, Follows, Marked
<1>9. /\ p + 1 \in p..(fed + 1) /\ FALSE \in BOOLEAN
      /\ p # 0 /\ p \in 1..fed /\ fed \in Nat
  BY <1>1, Looking
<1>10. CASE Pass(par, p + 1, FALSE, Data("body", p), Unmark("body")) /\ marks["body"] = 0
  <2> DEFINE mk == Unmark("body")
  <2>1. Pass(par, p + 1, FALSE, <<>>, mk)
    BY <1>10 DEF Data
  <2>2. mk \in [Marked -> 0..fed] /\ MarkedIn(par.state, mk)
    BY <1>1, <1>8, BodyUnmarked
  <2> HIDE DEF mk
  <2>3. GoesOn(par, p + 1, FALSE, mk, LastTold)
    BY <1>5, <1>6, <1>7, <1>8, <1>9, <2>2 DEF GoesOn, Fits
  <2>. QED
    BY <1>9, <2>1, <2>3, Passes
<1>11. CASE Pass(par, p + 1, FALSE, Data("body", p), Unmark("body")) /\ marks["body"] # 0
  <2>1. marks["body"] \in 1..fed
    BY <1>1, <1>9, <1>11, Looking DEF Marked
  <2>2. PICK start \in 1..fed : start = marks["body"]
    BY <2>1
  <2>3. PICK at \in 0..fed : at = p - 1
    BY <1>9
  <2>4. PICK cs : cs = <<[cb |-> "body", data |-> SubSeq(stream.wire, start, at)]>>
    OBVIOUS
  <2>5. Pass(par, p + 1, FALSE, cs, Unmark("body"))
    BY <1>11, <2>2, <2>3, <2>4 DEF Data
  <2>. QED
    BY <1>1, <1>5, <1>6, <1>7, <1>8, <1>9, <2>4, <2>5, BodyEnds
<1>. QED
  BY <1>2, <1>3, <1>10, <1>11

LEMMA ChunkDataDoneKeeps == ASSUME ParserInv, ChunkDataDone PROVE ParserInv'
<1>1. Reading /\ parser.state = "s_chunk_data_done" /\ Counted <= MaxHeaderSize
  BY DEF ChunkDataDone, At
<1> DEFINE par == [Restarted EXCEPT !.state = "s_chunk_size_start"]
<1>2. Error("STRICT") \/ Pass(par, p + 1, FALSE, Notify("chunk_complete"), marks)
  BY DEF ChunkDataDone
<1>3. CASE Error("STRICT")
  BY <1>1, <1>3, Fails DEF Errors
<1>4. CASE Pass(par, p + 1, FALSE, Notify("chunk_complete"), marks)
  <2>1. /\ "F_CHUNKED" \in parser.flags /\ LastTold \in {"chunk_header", "body"}
    BY <1>1, Looking DEF Fits, Framed, Telling
  <2>2. /\ par \in Parsers /\ par.errno = "OK" /\ par.state = "s_chunk_size_start"
        /\ par.nread = 0 /\ par.stored = 0 /\ par.flags = parser.flags
    BY <1>1, RestartedType DEF Parsers, HeaderLineStates
  <2> HIDE DEF par
  <2>3. Counts(par) /\ Framed(par)
    BY <2>1, <2>2, Numbers DEF Counts, Framed
  <2>4. PICK cb \in DOMAIN Follows : cb = "chunk_complete"
    BY DEF Follows
  <2>5. Telling(par, cb)
    BY <2>2, <2>4 DEF Telling, BetweenStates, UrlStates, FieldStates
  <2>6. /\ MayFollow(LastTold, cb) /\ par.state \in UnmarkedStates
        /\ parser.state \in UnmarkedStates
    BY <1>1, <2>1, <2>2, <2>4 DEF MayFollow, Follows, UnmarkedStates
  <2>7. Pass(par, p + 1, FALSE, Notify(cb), marks)
    BY <1>4, <2>4
  <2>. QED
    BY <1>1, <2>2, <2>3, <2>5, <2>6, <2>7, Notifies
<1>. QED
  BY <1>2, <1>3, <1>4
-----------------------------------------------------------------------------
(* Calls and their ends. *)

LEMMA HeaderOverflowKeeps == ASSUME ParserInv, HeaderOverflow PROVE ParserInv'
BY Fails DEF HeaderOverflow, Errors

\* What the pointers are when a call begins.
LEMMA MarksAtType ==
    ASSUME NEW start \in Nat \ {0}, NEW n \in Nat, start <= n, NEW s
    PROVE  MarksAt(s, start) \in [Marked -> 0..n] /\ MarkedIn(s, MarksAt(s, start))
<1> DEFINE mk == MarksAt(s, start)
<1>1. mk \in [Marked -> 0..n]
  BY DEF MarksAt
<1>2. ASSUME NEW m \in Marked
      PROVE  /\ mk[m] # 0 => s \in MayMark[m]
             /\ s \in MayMark[m] /\ m # "body" => mk[m] # 0
  <2>1. mk[m] = (IF \/ m = "header_field" /\ s = "s_header_field"
                    \/ m = "header_value" /\ s = "s_header_value"
                    \/ m = "url" /\ s \in UrlStates
                    \/ m = "status" /\ s = "s_res_status"
                 THEN start ELSE 0)
    BY DEF MarksAt
  <2>2. m \in {"url", "status", "header_field", "header_value", "body"}
    BY DEF Marked
  <2> HIDE DEF mk
  <2>3. CASE m = "url"
    BY <2>1, <2>3 DEF MayMark
  <2>4. CASE m = "status"
    BY <2>1, <2>4 DEF MayMark
  <2>5. CASE m = "header_field"
    BY <2>1, <2>5 DEF MayMark
  <2>6. CASE m = "header_value"
    BY <2>1, <2>6 DEF MayMark
  <2>7. CASE m = "body"
    BY <2>1, <2>7
  <2>. QED
    BY <2>2, <2>3, <2>4, <2>5, <2>6, <2>7
<1>. QED
  BY <1>1, <1>2 DEF MarkedIn

LEMMA ExecuteKeeps ==
    ASSUME ParserInv, NEW n, http_parser_execute(n)
    PROVE  ParserInv'
<1>1. p = 0 /\ parser.errno = "OK" /\ ~over /\ n \in 1..Left
  BY DEF http_parser_execute, Callable
<1>2. /\ first' = fed + 1 /\ fed' = fed + n /\ p' = fed + 1
      /\ marks' = MarksAt(parser.state, fed + 1)
      /\ UNCHANGED <<stream, redo, parser, whole, heard, over>>
  BY DEF http_parser_execute
<1>3. Len(stream.wire) \in Nat /\ fed \in Nat /\ fed <= Len(stream.wire)
  BY SamePlaces
<1>4. n \in Nat \ {0} /\ fed + n <= Len(stream.wire)
  BY <1>1, <1>3 DEF Left
<1>5. ~redo
  BY <1>1 DEF ParserInv, CallOK
<1>6. marks' \in [Marked -> 0..fed'] /\ MarkedIn(parser.state, marks')
  <2>1. fed + 1 \in Nat \ {0} /\ fed + n \in Nat /\ fed + 1 <= fed + n
    BY <1>3, <1>4
  <2>. QED
    BY <1>2, <2>1, MarksAtType
<1>7. /\ fed' \in 0..Len(stream'.wire) /\ first' \in 1..(fed' + 1) /\ p' \in 0..(fed' + 1)
      /\ p' >= first' /\ p' # 0
  BY <1>2, <1>3, <1>4
<1>8. TypeOK'
  BY <1>2, <1>6, <1>7 DEF TypeOK, ParserInv
<1>9. CallOK'
  BY <1>1, <1>2, <1>5, <1>6, <1>7 DEF CallOK
<1>10. Fits(parser', LastTold')
  BY <1>1, <1>2 DEF ParserInv, LastTold
<1>. QED
  BY <1>2, <1>8, <1>9, <1>10 DEF ParserInv, CallbackOrder

LEMMA ResumeKeeps == ASSUME ParserInv, Resume PROVE ParserInv'
<1>1. /\ parser.errno = "PAUSED" /\ parser' = [parser EXCEPT !.errno = "OK"]
      /\ UNCHANGED <<stream, first, fed, p, redo, marks, whole, heard, over>>
  BY DEF Resume
<1>2. parser \in Parsers /\ p = 0
  BY <1>1 DEF ParserInv, TypeOK, CallOK
<1>3. /\ parser' \in Parsers /\ parser'.nread = parser.nread
      /\ parser'.stored = parser.stored /\ parser'.state = parser.state
      /\ parser'.flags = parser.flags /\ parser'.content_length = parser.content_length
  BY <1>1, <1>2 DEF Parsers
<1>4. TypeOK'
  BY <1>1, <1>3 DEF TypeOK, ParserInv
<1>5. CallOK'
  BY <1>1, <1>2 DEF CallOK, ParserInv
<1>6. ~over => Fits(parser', LastTold')
  <2>1. LastTold' = LastTold
    BY <1>1 DEF LastTold
  <2>2. ASSUME Fits(parser, LastTold) PROVE Fits(parser', LastTold)
    <3>1. Counts(parser')
      BY <1>3, <2>2 DEF Fits, Counts
    <3>2. Framed(parser')
      BY <1>3, <2>2 DEF Fits, Framed
    <3>3. Telling(parser', LastTold)
      BY <1>3, <2>2 DEF Fits, Telling
    <3>. QED
      BY <3>1, <3>2, <3>3 DEF Fits
  <2>. QED
    BY <1>1, <2>1, <2>2 DEF ParserInv
<1>. QED
  BY <1>1, <1>4, <1>5, <1>6 DEF ParserInv, CallbackOrder

LEMMA AtEofKeeps == ASSUME ParserInv, AtEof PROVE ParserInv'
<1>1. /\ p = 0 /\ parser.errno = "OK" /\ ~over /\ over' = TRUE
      /\ UNCHANGED <<stream, first, fed, p, redo, marks>>
  BY DEF AtEof, Callable
<1>2. parser \in Parsers /\ heard \in Seq(Events) /\ CallbackOrder /\ whole \in BOOLEAN
  BY DEF ParserInv, TypeOK
<1>3. /\ parser' \in Parsers /\ parser'.nread = parser.nread /\ whole' \in BOOLEAN
  <2>1. \/ parser' = parser
        \/ \E e \in {"OK", "PAUSED", "INVALID_EOF_STATE"} : parser' = [parser EXCEPT !.errno = e]
    BY <1>1 DEF AtEof
  <2>2. ASSUME NEW e \in {"OK", "PAUSED", "INVALID_EOF_STATE"},
               parser' = [parser EXCEPT !.errno = e]
        PROVE  parser' \in Parsers /\ parser'.nread = parser.nread
    BY <1>2, <2>2 DEF Parsers
  <2>3. whole' \in BOOLEAN
    BY <1>2 DEF AtEof
  <2>. QED
    BY <1>2, <2>1, <2>2, <2>3
<1>4. heard' \in Seq(Events) /\ CallbackOrder'
  <2>1. CASE UNCHANGED heard
    BY <1>2, <2>1 DEF CallbackOrder
  <2>2. CASE parser.state = "s_body_identity_eof" /\ heard' = heard \o Notify("message_complete")
    <3> DEFINE c == [cb |-> "message_complete", data |-> <<>>]
    <3>1. PICK cb \in DOMAIN Follows : cb = "message_complete"
      BY DEF Follows
    <3>2. c \in Events /\ c.cb = "message_complete"
      BY <3>1, NotifyType
    <3>3. heard' = Append(heard, c)
      <4>1. heard' = heard \o <<c>>
        BY <2>2 DEF Notify
      <4> HIDE DEF c
      <4>. QED
        BY <1>2, <3>2, <4>1
    <3>4. heard' = Hear(heard, c)
      BY <3>3 DEF Hear, Marked
    <3>5. LastTold \in {"headers_complete", "body"}
      BY <1>1, <2>2 DEF ParserInv, Fits, Telling
    <3>6. MayFollow(LastTold, c.cb)
      BY <3>5 DEF MayFollow, Follows
    <3> HIDE DEF c
    <3>. QED
      BY <1>2, <3>2, <3>4, <3>6, HearsInOrder
  <2>. QED
    BY <2>1, <2>2 DEF AtEof
<1>5. TypeOK'
  BY <1>1, <1>3 DEF TypeOK, ParserInv
<1>6. CallOK'
  BY <1>1 DEF CallOK, ParserInv
<1>. QED
  BY <1>1, <1>4, <1>5, <1>6 DEF ParserInv
\* An element that is cut goes on.
LEMMA ElementGoesOn ==
    ASSUME NEW m \in Marked, NEW par, par.state \in MayMark[m], NEW last, Telling(par, last)
    PROVE  Telling(par, m) /\ MayFollow(last, m)
<1>1. m \in {"url", "status", "header_field", "header_value", "body"}
  BY DEF Marked
<1>2. CASE m = "url"
  <2>1. par.state \in UrlStates
    BY <1>2 DEF MayMark
  <2>2. last \in {"message_begin", "url"} /\ "F_TRAILING" \notin par.flags
    BY <2>1 DEF Telling
  <2>. QED
    BY <1>2, <2>1, <2>2
       DEF Telling, MayFollow, Follows, Marked, BetweenStates, UrlStates, FieldStates
<1>3. CASE m = "status"
  <2>1. par.state = "s_res_status"
    BY <1>3 DEF MayMark
  <2>2. last \in {"message_begin", "status"} /\ "F_TRAILING" \notin par.flags
    BY <2>1 DEF Telling
  <2>. QED
    BY <1>3, <2>1, <2>2
       DEF Telling, MayFollow, Follows, Marked, BetweenStates, UrlStates, FieldStates
<1>4. CASE m = "header_field"
  <2>1. par.state = "s_header_field"
    BY <1>4 DEF MayMark
  <2>2. last \in {"url", "status", "header_value", "chunk_header", "header_field"}
    BY <2>1 DEF Telling
  <2>. QED
    BY <1>4, <2>1, <2>2
       DEF Telling, MayFollow, Follows, Marked, BetweenStates, UrlStates, FieldStates
<1>5. CASE m = "header_value"
  <2>1. par.state = "s_header_value"
    BY <1>5 DEF MayMark
  <2>2. last \in {"header_field", "header_value"}
    BY <2>1 DEF Telling
  <2>. QED
    BY <1>5, <2>1, <2>2
       DEF Telling, MayFollow, Follows, Marked, BetweenStates, UrlStates, FieldStates
<1>6. CASE m = "body"
  <2>1. par.state \in {"s_body_identity", "s_body_identity_eof", "s_chunk_data",
                       "s_chunk_data_almost_done"}
    BY <1>6 DEF MayMark
  <2>2. last \in {"headers_complete", "chunk_header", "body"}
    BY <2>1 DEF Telling
  <2>. QED
    BY <1>6, <2>1, <2>2
       DEF Telling, MayFollow, Follows, Marked, BetweenStates, UrlStates, FieldStates
<1>. QED
  BY <1>1, <1>2, <1>3, <1>4, <1>5, <1>6

\* What is called back at the end of a piece: one element at most.
LEMMA LeftAtEnd ==
    ASSUME ParserInv, p = fed + 1
    PROVE  LET cs == Data("header_field", p) \o Data("header_value", p)
                        \o Data("url", p) \o Data("body", p) \o Data("status", p)
           IN  \/ cs = <<>> /\ \A m \in Marked : marks[m] = 0
               \/ \E m \in Marked, c \in Events :
                      /\ parser.state \in MayMark[m] /\ marks[m] # 0 /\ c.cb = m
                      /\ Data(m, p) = <<c>> /\ cs = <<c>>
<1> DEFINE hf == Data("header_field", p)
           hv == Data("header_value", p)
           u == Data("url", p)
           b == Data("body", p)
           st == Data("status", p)
           cs == hf \o hv \o u \o b \o st
<1>1. /\ p \in Nat /\ p # 0 /\ p <= Len(stream.wire) + 1
      /\ MarkedIn(parser.state, marks)
  BY SamePlaces DEF ParserInv, CallOK
<1>2. CASE \A m \in Marked : marks[m] = 0
  <2>1. hf = <<>> /\ hv = <<>> /\ u = <<>> /\ b = <<>> /\ st = <<>>
    BY <1>2 DEF Data, Marked
  <2> HIDE DEF hf, hv, u, b, st
  <2>2. cs = <<>>
    BY <2>1
  <2>. QED
    BY <1>2, <2>2 DEF hf, hv, u, b, st
<1>3. ASSUME NEW m \in Marked, marks[m] # 0
      PROVE  \E c \in Events : /\ parser.state \in MayMark[m] /\ marks[m] # 0 /\ c.cb = m
                             /\ Data(m, p) = <<c>> /\ cs = <<c>>
  <2>1. parser.state \in MayMark[m]
    BY <1>1, <1>3 DEF MarkedIn
  <2>2. \A k \in Marked : k # m => marks[k] = 0
    BY <1>1, <2>1, OneElement DEF MarkedIn
  <2>3. PICK c \in Events : Data(m, p) = <<c>> /\ c.cb = m
    BY <1>1, <1>3, DataTold
  <2>4. /\ m = "header_field" \/ hf = <<>>
        /\ m = "header_value" \/ hv = <<>>
        /\ m = "url" \/ u = <<>>
        /\ m = "body" \/ b = <<>>
        /\ m = "status" \/ st = <<>>
    BY <2>2 DEF Data, Marked
  <2>5. /\ m = "header_field" => hf = <<c>>
        /\ m = "header_value" => hv = <<c>>
        /\ m = "url" => u = <<c>>
        /\ m = "body" => b = <<c>>
        /\ m = "status" => st = <<c>>
    BY <2>3
  <2>6. m \in {"url", "status", "header_field", "header_value", "body"}
    BY DEF Marked
  <2> HIDE DEF hf, hv, u, b, st
  <2>7. cs = <<c>>
    <3>1. /\ <<>> \in Seq(Events) /\ <<c>> \in Seq(Events)
          /\ \A s \in Seq(Events) : s \o <<>> = s /\ <<>> \o s = s
      OBVIOUS
    <3>2. CASE m = "header_field"
      BY ZenonT(30), <2>4, <2>5, <3>1, <3>2
    <3>3. CASE m = "header_value"
      BY ZenonT(30), <2>4, <2>5, <3>1, <3>3
    <3>4. CASE m = "url"
      BY ZenonT(30), <2>4, <2>5, <3>1, <3>4
    <3>5. CASE m = "body"
      BY <2>4, <2>5, <3>1, <3>5
    <3>6. CASE m = "status"
      BY <2>4, <2>5, <3>1, <3>6
    <3>. QED
      BY <2>6, <3>2, <3>3, <3>4, <3>5, <3>6
  <2>. QED
    BY <1>3, <2>1, <2>3, <2>7
<1> HIDE DEF cs
<1>. QED
  BY <1>2, <1>3 DEF cs

LEMMA EndOfPieceKeeps == ASSUME ParserInv, EndOfPiece PROVE ParserInv'
<1> DEFINE cs == Data("header_field", p) \o Data("header_value", p)
                    \o Data("url", p) \o Data("body", p) \o Data("status", p)
<1>1. /\ p = fed + 1
      /\ \/ Pauses(cs) /\ Paused(parser, p, cs)
         \/ ~Pauses(cs) /\ Return(parser, TRUE, cs)
  BY DEF EndOfPiece
<1>2. \/ cs = <<>>
      \/ \E m \in Marked, c \in Events :
             /\ parser.state \in MayMark[m] /\ marks[m] # 0 /\ c.cb = m
             /\ Data(m, p) = <<c>> /\ cs = <<c>>
  BY <1>1, LeftAtEnd
<1> HIDE DEF cs
<1>3. /\ p # 0 /\ p \in p..(fed + 1) /\ FALSE \in BOOLEAN /\ TRUE \in BOOLEAN
      /\ parser \in Parsers /\ parser.errno = "OK" /\ Counts(parser) /\ Framed(parser)
      /\ Telling(parser, LastTold)
      /\ marks \in [Marked -> 0..fed] /\ MarkedIn(parser.state, marks)
  <2>1. p # 0 /\ p \in p..(fed + 1)
    BY <1>1, SamePlaces
  <2>. QED
    BY <2>1 DEF ParserInv, CallOK, TypeOK, Fits
<1>4. CASE cs = <<>>
  <2>1. Return(parser, TRUE, cs) /\ Call(<<>>)
    BY <1>1, <1>4 DEF Pauses, Return
  <2>2. Hearing(heard', LastTold)
    BY <2>1, CallNobody DEF Hearing, ParserInv, CallbackOrder, LastTold
  <2>3. GoesOn(parser, p, FALSE, marks, LastTold)
    BY <1>3 DEF GoesOn, Fits
  <2>. QED
    BY <1>3, <2>1, <2>2, <2>3, Stopping
<1>5. ASSUME NEW m \in Marked, NEW c \in Events, parser.state \in MayMark[m], c.cb = m,
             cs = <<c>>
      PROVE  ParserInv'
  <2>1. Telling(parser, m) /\ MayFollow(LastTold, c.cb)
    BY <1>3, <1>5, ElementGoesOn
  <2>2. Call(<<c>>)
    BY <1>1, <1>5 DEF Paused, Return
  <2>3. Hearing(heard', m)
    BY <1>5, <2>1, <2>2, HearsOne
  <2>4. GoesOn(parser, p, FALSE, marks, m)
    BY <1>3, <2>1 DEF GoesOn, Fits
  <2>5. CASE Paused(parser, p, cs)
    BY <1>3, <2>3, <2>4, <2>5, Pausing
  <2>6. CASE Return(parser, TRUE, cs)
    BY <1>3, <2>3, <2>4, <2>6, Stopping
  <2>. QED
    BY <1>1, <2>5, <2>6
<1>. QED
  BY <1>2, <1>4, <1>5

-----------------------------------------------------------------------------
(* The theorems. *)

LEMMA InitInv == Init => ParserInv
<1> SUFFICES ASSUME Init PROVE ParserInv
  OBVIOUS
<1>1. /\ stream \in Streams /\ first = 1 /\ fed = 0 /\ p = 0 /\ redo = FALSE
      /\ marks = NoMarks /\ whole = TRUE /\ over = FALSE /\ heard = <<>>
  BY DEF Init
<1>2. /\ Len(stream.wire) \in Nat
      /\ stream.type \in {"HTTP_REQUEST", "HTTP_RESPONSE", "HTTP_BOTH"}
  BY <1>1, Streamed
<1> DEFINE s == CASE stream.type = "HTTP_REQUEST" -> "s_start_req"
                  [] stream.type = "HTTP_RESPONSE" -> "s_start_res"
                  [] OTHER -> "s_start_req_or_res"
<1>3. s \in {"s_start_req", "s_start_res", "s_start_req_or_res"}
  OBVIOUS
<1>4. /\ parser \in Parsers /\ parser.nread = 0 /\ parser.stored = 0
      /\ parser.state \in {"s_start_req", "s_start_res", "s_start_req_or_res"}
      /\ parser.flags = {}
  <2>1. parser = [type |-> stream.type, status_code |-> 0, state |-> s,
                  header_state |-> "h_general", flags |-> {},
                  uses_transfer_encoding |-> FALSE, content_length |-> 0, nread |-> 0,
                  stored |-> 0, version |-> "HTTP/0.9", method |-> "GET",
                  upgrade |-> FALSE, errno |-> "OK"]
    BY DEF Init
  <2>2. /\ s \in UrlStates \cup BodyStates \cup HeaderLineStates
        /\ 0 \in 0..ULLONG_MAX /\ 0 \in Codes
    BY <1>3, Numbers DEF HeaderLineStates, Codes
  <2> HIDE DEF s
  <2>. QED
    BY <1>2, <1>3, <2>1, <2>2 DEF Parsers, HeaderStates, Methods
<1> HIDE DEF s
<1>5. TypeOK
  <2>1. marks \in [Marked -> 0..fed]
    BY <1>1 DEF NoMarks
  <2>2. parser.nread <= 2 * (MaxHeaderSize + Len(stream.wire))
    BY <1>2, <1>4, Numbers
  <2>3. /\ fed \in 0..Len(stream.wire) /\ first \in 1..(fed + 1)
        /\ p \in 0..(fed + 1) /\ (p # 0 => p >= first)
    BY <1>1, <1>2
  <2>4. redo \in BOOLEAN /\ whole \in BOOLEAN /\ over \in BOOLEAN
    BY <1>1
  <2>. QED
    BY <1>4, <2>1, <2>2, <2>3, <2>4 DEF TypeOK
<1>6. heard \in Seq(Events) /\ CallbackOrder
  BY <1>1 DEF CallbackOrder
<1>7. CallOK
  BY <1>1 DEF CallOK
<1>8. Fits(parser, LastTold)
  <2>1. LastTold = "none"
    BY <1>1 DEF LastTold, ToldLast
  <2>2. Counts(parser) /\ Framed(parser)
    BY <1>4, Numbers DEF Counts, Framed
  <2>3. Telling(parser, LastTold)
    BY <1>4, <2>1 DEF Telling, BetweenStates, UrlStates, FieldStates
  <2>. QED
    BY <2>2, <2>3 DEF Fits
<1>. QED
  BY <1>1, <1>5, <1>6, <1>7, <1>8 DEF ParserInv

LEMMA StepInv == ParserInv /\ [Next]_vars => ParserInv'
<1> SUFFICES ASSUME ParserInv, [Next]_vars PROVE ParserInv'
  OBVIOUS
<1>1. CASE \E n \in stream.pieces \cup {Left} : http_parser_execute(n)
  BY <1>1, ExecuteKeeps
<1>2. CASE Resume \/ AtEof \/ EndOfPiece \/ HeaderOverflow
  BY <1>2, ResumeKeeps, AtEofKeeps, EndOfPieceKeeps, HeaderOverflowKeeps
<1>3. CASE StatusLine
  BY <1>3, StartResKeeps, ResHKeeps, ResHttpEndKeeps, FirstStatusCodeKeeps, StatusCodeKeeps,
     StatusStartKeeps, StatusKeeps, ResLineAlmostDoneKeeps DEF StatusLine
<1>4. CASE RequestLine
  BY <1>4, DeadKeeps, StartReqOrResKeeps, StartReqKeeps, ReqMethodKeeps, UrlStartKeeps,
     UrlCharKeeps, UrlEndKeeps, HttpVersionKeeps, HttpEndKeeps, ReqLineAlmostDoneKeeps
     DEF RequestLine
<1>5. CASE Headers
  BY <1>5, HeaderFieldStartKeeps, HeaderFieldKeeps, DiscardWsKeeps, FoldedStartKeeps,
     HeaderValueKeeps, HeaderAlmostDoneKeeps, ValueLwsKeeps, DiscardWsAlmostDoneKeeps,
     DiscardLwsKeeps, HeadersAlmostDoneKeeps DEF Headers
<1>6. CASE Bodies
  BY <1>6, HeadersDoneKeeps, BodyIdentityKeeps, BodyIdentityEofKeeps, MessageDoneKeeps
     DEF Bodies
<1>7. CASE Chunks
  BY <1>7, ChunkSizeStartKeeps, ChunkSizeKeeps, ChunkParametersKeeps,
     ChunkSizeAlmostDoneKeeps, ChunkDataKeeps, ChunkDataAlmostDoneKeeps, ChunkDataDoneKeeps
     DEF Chunks
<1>8. CASE UNCHANGED vars
  BY <1>8 DEF vars, ParserInv, TypeOK, CallbackOrder, CallOK, LastTold
<1>. QED
  BY <1>1, <1>2, <1>3, <1>4, <1>5, <1>6, <1>7, <1>8 DEF Next

LEMMA AlwaysParserInv == Spec => []ParserInv
BY InitInv, StepInv, PTL DEF Spec

\* The fields of struct http_parser and the locals of http_parser_execute keep
\* to their ranges: the pointers stay in the piece, and the count of header
\* bytes is bounded by the limit and the stream.
THEOREM TypeCorrect == Spec => []TypeOK
<1>1. ParserInv => TypeOK
  BY DEF ParserInv
<1>. QED
  BY <1>1, AlwaysParserInv, PTL

\* Whatever the bytes are and wherever the pieces are cut, callbacks come in the
\* order that http_request.c relies on: a value after its name, the headers
\* before a body, the end of a message before the next one.
THEOREM CallbacksInOrder == Spec => []CallbackOrder
<1>1. ParserInv => CallbackOrder
  BY DEF ParserInv
<1>. QED
  BY <1>1, AlwaysParserInv, PTL

LEMMA InvAssertions == ASSUME ParserInv PROVE Assertions
<1>1. ASSUME p = fed + 1 PROVE Cardinality({m \in Marked : marks[m] # 0}) <= 1
  <2>1. MarkedIn(parser.state, marks)
    BY <1>1, SamePlaces DEF ParserInv, CallOK
  <2>2. CASE \A m \in Marked : marks[m] = 0
    <3>1. {m \in Marked : marks[m] # 0} = {}
      BY <2>2
    <3>. QED
      BY <3>1, FS_EmptySet
  <2>3. CASE \E m \in Marked : marks[m] # 0
    <3>1. PICK m \in Marked : marks[m] # 0
      BY <2>3
    <3>2. \A k \in Marked : k # m => marks[k] = 0
      BY <2>1, <3>1, OneElement DEF MarkedIn
    <3>3. {k \in Marked : marks[k] # 0} = {m}
      BY <3>1, <3>2
    <3>. QED
      BY <3>3, FS_Singleton
  <2>. QED
    BY <2>2, <2>3
<1>2. ASSUME NEW s, At(s)
      PROVE  Reading /\ parser.state = s /\ Fits(parser, LastTold)
  BY <1>2, Looking DEF At
<1>3. At("s_chunk_size_start") => Counted = 1
  <2>1. ASSUME At("s_chunk_size_start") PROVE Counted = 1
    <3>1. parser.state = "s_chunk_size_start" /\ parser.nread = 0
      BY <1>2, <2>1 DEF Fits, Framed
    <3>2. ~redo
      BY <3>1 DEF ParserInv, CallOK
    <3>3. PARSING_HEADER
      BY <3>1 DEF PARSING_HEADER, BodyStates
    <3>. QED
      BY <3>1, <3>2, <3>3 DEF Counted
  <2>. QED
    BY <2>1
<1>4. /\ \A s \in {"s_body_identity", "s_chunk_data"} :
             At(s) => parser.content_length \notin {0, ULLONG_MAX}
      /\ At("s_chunk_data_almost_done") => parser.content_length = 0
      /\ \A s \in {"s_chunk_size", "s_chunk_parameters", "s_chunk_data", "s_chunk_data_done"} :
             At(s) => "F_CHUNKED" \in parser.flags
  <2>1. ASSUME NEW s \in {"s_body_identity", "s_chunk_data", "s_chunk_data_almost_done",
                          "s_chunk_size", "s_chunk_parameters", "s_chunk_data_done"}, At(s)
        PROVE  parser.state = s /\ Framed(parser)
    BY <1>2, <2>1 DEF Fits
  <2>. QED
    BY <2>1 DEF Framed
<1>. QED
  BY <1>1, <1>3, <1>4 DEF Assertions

\* The assert()s of http_parser_execute hold for any bytes, in any pieces: one
\* element at most is open when a piece ends, a chunk's size is read with the
\* count just started, and a body or a chunk that is read has something left.
THEOREM AssertionsHold == Spec => []Assertions
<1>1. ParserInv => Assertions
  BY InvAssertions
<1>. QED
  BY <1>1, AlwaysParserInv, PTL
-----------------------------------------------------------------------------
(* The size of a head. *)

\* The states in which a head or a trailer is read, once its message or its
\* chunk has begun.
HeadStates == UrlStates \cup
    {"s_res_http_end", "s_res_first_status_code", "s_res_status_code", "s_res_status_start",
     "s_res_status", "s_res_line_almost_done", "s_req_method", "s_req_spaces_before_url",
     "s_req_http_start", "s_req_http_end", "s_req_line_almost_done",
     "s_header_field_start", "s_header_field", "s_header_value_discard_ws",
     "s_header_value_discard_ws_almost_done", "s_header_value_discard_lws",
     "s_header_value_start", "s_header_value", "s_header_value_lws",
     "s_header_almost_done", "s_headers_almost_done"}

\* A unit that is looked at again was counted before it is part of anything.
One(again) == IF again THEN 1 ELSE 0

\* What was told of the head, and what is marked of it up to `at`, was counted.
HeadCounted(par, told, at, again, mk) ==
    /\ par.state \in BetweenStates /\ again => 1 <= par.nread
    /\ par.state \in HeadStates =>
        /\ told + One(again) <= par.nread
        /\ \A m \in HeadElements : mk[m] # 0 => told + (at - mk[m]) + One(again) <= par.nread

HeadInv ==
    ~stream.pauses =>
        /\ parser.errno # "PAUSED"
        /\ parser.errno = "OK" => /\ HeadTold <= MaxHeaderSize
                                  /\ HeadCounted(parser, HeadTold, p, redo, marks)

\* What a callback adds to the size of the head.
TellMore(n, c) ==
    IF c.cb \in {"message_begin", "chunk_header"} THEN 0
    ELSE IF c.cb \in HeadElements THEN n + Len(c.data)
    ELSE n

LEMMA TellMoreType ==
    ASSUME NEW n \in Nat, NEW c \in Events
    PROVE  TellMore(n, c) \in Nat
<1>1. Len(c.data) \in Nat
  BY DEF Events
<1>. QED
  BY <1>1 DEF TellMore

\* The sizes after each of the callbacks.
Sizes(f, h) ==
    /\ f \in [0..Len(h) -> Nat] /\ f[0] = 0
    /\ \A i \in 1..Len(h) : f[i] = TellMore(f[i - 1], h[i])

LEMMA SizesExist ==
    ASSUME NEW h \in Seq(Events)
    PROVE  \E f : Sizes(f, h)
<1> DEFINE F == [k \in Nat |-> [n \in Nat |-> IF k < Len(h) THEN TellMore(n, h[k + 1]) ELSE n]]
<1>1. Len(h) \in Nat /\ \A i \in 1..Len(h) : h[i] \in Events
  OBVIOUS
<1>2. F \in [Nat -> [Nat -> Nat]]
  <2>1. ASSUME NEW k \in Nat, NEW n \in Nat
        PROVE  (IF k < Len(h) THEN TellMore(n, h[k + 1]) ELSE n) \in Nat
    <3>1. k < Len(h) => k + 1 \in 1..Len(h)
      BY <1>1
    <3>. QED
      BY <1>1, <3>1, TellMoreType
  <2>. QED
    BY <2>1
<1> HIDE DEF F
<1>3. PICK g \in [Nat -> Nat] : IsIteration(g, 0, F)
  BY <1>2, Iteration
<1> DEFINE f == [i \in 0..Len(h) |-> g[i]]
<1>4. g[0] = 0 /\ \A k \in Nat : g[k + 1] = F[k][g[k]]
  BY <1>3 DEF IsIteration
<1>5. f \in [0..Len(h) -> Nat] /\ f[0] = 0
  BY <1>1, <1>4
<1>6. ASSUME NEW i \in 1..Len(h) PROVE f[i] = TellMore(f[i - 1], h[i])
  <2>1. PICK k \in Nat : i = k + 1 /\ k = i - 1 /\ k < Len(h) /\ k \in 0..Len(h)
    <3>1. i - 1 \in Nat /\ i = (i - 1) + 1 /\ i - 1 < Len(h) /\ i - 1 \in 0..Len(h)
      BY SMTT(30), <1>1
    <3>. QED
      BY <3>1
  <2>2. g[k + 1] = F[k][g[k]] /\ g[k] \in Nat
    BY <1>4, <2>1
  <2>3. F[k][g[k]] = TellMore(g[k], h[k + 1])
    BY <2>1, <2>2 DEF F
  <2>. QED
    BY <2>1, <2>2, <2>3
<1> HIDE DEF f
<1>. QED
  BY <1>5, <1>6 DEF Sizes

LEMMA HeadSizeIs ==
    ASSUME NEW h \in Seq(Events), NEW f, Sizes(f, h)
    PROVE  HeadSize(h) = f[Len(h)] /\ HeadSize(h) \in Nat
<1> DEFINE told[i \in 0..Len(h)] ==
               IF i = 0 THEN 0
               ELSE IF h[i].cb \in {"message_begin", "chunk_header"} THEN 0
               ELSE IF h[i].cb \in HeadElements THEN told[i - 1] + Len(h[i].data)
               ELSE told[i - 1]
<1>1. /\ Len(h) \in Nat /\ f \in [0..Len(h) -> Nat] /\ f[0] = 0
      /\ \A i \in 1..Len(h) : f[i] = TellMore(f[i - 1], h[i])
  BY DEF Sizes
<1>2. f = [i \in 0..Len(h) |->
               IF i = 0 THEN 0
               ELSE IF h[i].cb \in {"message_begin", "chunk_header"} THEN 0
               ELSE IF h[i].cb \in HeadElements THEN f[i - 1] + Len(h[i].data)
               ELSE f[i - 1]]
  <2>1. ASSUME NEW i \in 0..Len(h)
        PROVE  f[i] = IF i = 0 THEN 0
                      ELSE IF h[i].cb \in {"message_begin", "chunk_header"} THEN 0
                      ELSE IF h[i].cb \in HeadElements THEN f[i - 1] + Len(h[i].data)
                      ELSE f[i - 1]
    <3>1. CASE i = 0
      BY <1>1, <3>1
    <3>2. CASE i # 0
      <4>1. i \in 1..Len(h)
        BY <1>1, <3>2
      <4>2. f[i] = TellMore(f[i - 1], h[i])
        BY <1>1, <4>1
      <4>. QED
        BY <3>2, <4>2, Zenon DEF TellMore
    <3>. QED
      BY <3>1, <3>2
  <2>. QED
    BY <1>1, <2>1
<1>3. told = [i \in 0..Len(h) |->
               IF i = 0 THEN 0
               ELSE IF h[i].cb \in {"message_begin", "chunk_header"} THEN 0
               ELSE IF h[i].cb \in HeadElements THEN told[i - 1] + Len(h[i].data)
               ELSE told[i - 1]]
  BY <1>2
<1> HIDE DEF told
<1>4. told[0] = 0 /\ \A i \in 1..Len(h) : told[i] = TellMore(told[i - 1], h[i])
  <2>1. ASSUME NEW i \in 1..Len(h) PROVE told[i] = TellMore(told[i - 1], h[i])
    <3>1. i \in 0..Len(h) /\ i # 0
      BY <1>1
    <3>2. told[i] = IF i = 0 THEN 0
                    ELSE IF h[i].cb \in {"message_begin", "chunk_header"} THEN 0
                    ELSE IF h[i].cb \in HeadElements THEN told[i - 1] + Len(h[i].data)
                    ELSE told[i - 1]
      BY <1>3, <3>1
    <3>. QED
      BY <3>1, <3>2, Zenon DEF TellMore
  <2>2. told[0] = 0
    BY <1>1, <1>3
  <2>. QED
    BY <2>1, <2>2
<1> DEFINE I == {k \in 0..Len(h) : told[k] = f[k]}
<1>5. 0 \in I
  BY <1>1, <1>4
<1>6. ASSUME NEW k \in 0..(Len(h) - 1), k \in I PROVE k + 1 \in I
  <2>1. PICK i \in 1..Len(h) : i = k + 1 /\ i - 1 = k
    <3>1. k + 1 \in 1..Len(h) /\ (k + 1) - 1 = k
      BY <1>1
    <3>. QED
      BY <3>1
  <2>2. told[i] = TellMore(told[i - 1], h[i]) /\ f[i] = TellMore(f[i - 1], h[i])
    BY <1>1, <1>4
  <2>3. told[i] = f[i] /\ i \in 0..Len(h)
    BY <1>1, <1>6, <2>1, <2>2
  <2>. QED
    BY <2>1, <2>3
<1>7. told[Len(h)] = f[Len(h)]
  <2>1. \A k \in 0..Len(h) : k \in I
    <3> HIDE DEF I
    <3>. QED
      BY <1>1, <1>5, <1>6, Counting
  <2>. QED
    BY <1>1, <2>1
<1>8. HeadSize(h) = told[Len(h)]
  BY DEF HeadSize, told
<1>. QED
  BY <1>1, <1>7, <1>8
\* Two pieces of an element that are joined.
LEMMA JoinedIs ==
    ASSUME NEW d \in Events, NEW c \in Events
    PROVE  /\ [d EXCEPT !.data = @ \o c.data] \in Events
           /\ [d EXCEPT !.data = @ \o c.data].cb = d.cb
           /\ Len([d EXCEPT !.data = @ \o c.data].data) = Len(d.data) + Len(c.data)
           /\ Len(d.data) \in Nat /\ Len(c.data) \in Nat
<1>1. d.data \in Seq(STRING) /\ c.data \in Seq(STRING)
  BY DEF Events
<1>2. /\ d.data \o c.data \in Seq(STRING)
      /\ Len(d.data \o c.data) = Len(d.data) + Len(c.data)
  BY <1>1, ConcatProperties
<1>3. PICK x \in Seq(STRING) : x = d.data \o c.data /\ Len(x) = Len(d.data) + Len(c.data)
  BY <1>2
<1>4. /\ [d EXCEPT !.data = x] \in Events /\ [d EXCEPT !.data = x].cb = d.cb
      /\ [d EXCEPT !.data = x].data = x
  BY DEF Events
<1>5. Len(d.data) \in Nat /\ Len(c.data) \in Nat
  BY <1>1
<1>. QED
  BY <1>3, <1>4, <1>5

Joins(d, c, e) ==
    /\ c.cb \in Marked /\ d.cb = c.cb /\ e.cb = c.cb
    /\ Len(e.data) = Len(d.data) + Len(c.data)

LEMMA TellsJoined ==
    ASSUME NEW m \in Nat, NEW d \in Events, NEW c \in Events, NEW e \in Events, Joins(d, c, e)
    PROVE  TellMore(TellMore(m, d), c) = TellMore(m, e)
<1>0. /\ c.cb \in Marked /\ d.cb = c.cb /\ e.cb = c.cb
      /\ Len(e.data) = Len(d.data) + Len(c.data)
  BY DEF Joins
<1>1. Len(d.data) \in Nat /\ Len(c.data) \in Nat
  BY JoinedIs
<1>2. c.cb \notin {"message_begin", "chunk_header"}
  BY <1>0 DEF Marked
<1>3. CASE c.cb \in HeadElements
  <2>1. /\ TellMore(m, d) = m + Len(d.data) /\ TellMore(m, e) = m + Len(e.data)
        /\ TellMore(TellMore(m, d), c) = TellMore(m, d) + Len(c.data)
    BY <1>0, <1>2, <1>3, Zenon DEF TellMore
  <2>2. PICK x \in Nat, y \in Nat : x = Len(d.data) /\ y = Len(c.data)
    BY <1>1
  <2>3. (m + x) + y = m + (x + y)
    OBVIOUS
  <2>4. TellMore(m, e) = m + (x + y) /\ TellMore(TellMore(m, d), c) = (m + x) + y
    BY <1>0, <2>1, <2>2
  <2>. QED
    BY <2>3, <2>4
<1>4. CASE c.cb \notin HeadElements
  BY <1>0, <1>2, <1>4, Zenon DEF TellMore
<1>. QED
  BY <1>3, <1>4

\* A callback adds what it tells, joined to what came before it or not.
LEMMA HeadGrows ==
    ASSUME NEW h \in Seq(Events), NEW c \in Events
    PROVE  HeadSize(Hear(h, c)) = TellMore(HeadSize(h), c) /\ HeadSize(h) \in Nat
<1>1. PICK f : Sizes(f, h)
  BY SizesExist
<1> DEFINE n == Len(h)
<1>2. /\ n \in Nat /\ f \in [0..n -> Nat] /\ f[0] = 0
      /\ \A i \in 1..n : f[i] = TellMore(f[i - 1], h[i]) /\ h[i] \in Events
  BY <1>1 DEF Sizes
<1>3. HeadSize(h) = f[n] /\ HeadSize(h) \in Nat
  BY <1>1, HeadSizeIs
<1>4. CASE h # <<>> /\ c.cb \in Marked /\ h[n].cb = c.cb
  <2>1. n \in 1..n /\ n - 1 \in 0..n /\ h[n] \in Events /\ n > 0
    BY <1>2, <1>4
  <2> DEFINE e == [h[n] EXCEPT !.data = @ \o c.data]
             k == [h EXCEPT ![n] = e]
             g == [f EXCEPT ![n] = TellMore(f[n], c)]
  <2>2. /\ e \in Events /\ e.cb = c.cb /\ Len(e.data) = Len(h[n].data) + Len(c.data)
        /\ Len(h[n].data) \in Nat /\ Len(c.data) \in Nat
    <3>1. PICK d \in Events : d = h[n]
      BY <2>1
    <3>. QED
      BY Zenon, <1>4, <3>1, JoinedIs
  <2> HIDE DEF e
  <2>3. k = Hear(h, c)
    BY <1>4, Zenon DEF Hear, e
  <2>4. /\ k \in Seq(Events) /\ Len(k) = n /\ k[n] = e
        /\ \A i \in 1..n : i # n => k[i] = h[i]
    <3>1. k \in Seq(Events) /\ Len(k) = n
      BY <2>1, <2>2, ExceptSeq
    <3>2. h \in [1..n -> Events]
      BY <1>2
    <3>. QED
      BY Zenon, <2>1, <3>1, <3>2
  <2> HIDE DEF k
  <2>5. f[n] = TellMore(f[n - 1], h[n]) /\ f[n] \in Nat /\ f[n - 1] \in Nat
    BY <1>2, <2>1
  <2>6. TellMore(f[n], c) = TellMore(f[n - 1], e)
    <3>1. PICK d \in Events : d = h[n]
      BY <2>1
    <3>2. PICK m \in Nat : m = f[n - 1]
      BY <2>5
    <3>3. PICK d1 \in Events : d1 = e
      BY <2>2
    <3>4. Joins(d, c, d1)
      BY <1>4, <2>2, <3>1, <3>3 DEF Joins
    <3>5. TellMore(TellMore(m, d), c) = TellMore(m, d1)
      BY <3>4, TellsJoined
    <3>. QED
      BY <2>5, <3>1, <3>2, <3>3, <3>5
  <2>7. TellMore(f[n], c) \in Nat
    BY <2>5, TellMoreType
  <2>8. /\ g \in [0..n -> Nat] /\ g[n] = TellMore(f[n], c)
        /\ \A i \in 0..n : i # n => g[i] = f[i]
    BY <1>2, <2>7
  <2> HIDE DEF g
  <2>9. Sizes(g, k)
    <3>1. ASSUME NEW i \in 1..n PROVE g[i] = TellMore(g[i - 1], k[i])
      <4>1. i \in 0..n /\ i - 1 \in 0..n /\ i - 1 # n /\ g[i - 1] = f[i - 1]
        BY <1>2, <2>8
      <4>2. CASE i = n
        BY <2>4, <2>6, <2>8, <4>1, <4>2
      <4>3. CASE i # n
        BY <1>2, <2>4, <2>8, <4>1, <4>3
      <4>. QED
        BY <4>2, <4>3
    <3>2. g[0] = 0
      BY <1>2, <2>1, <2>8
    <3>. QED
      BY <2>4, <2>8, <3>1, <3>2 DEF Sizes
  <2>10. HeadSize(k) = g[n]
    BY <2>4, <2>9, HeadSizeIs
  <2>. QED
    BY <1>3, <2>3, <2>8, <2>10
<1>5. CASE ~(h # <<>> /\ c.cb \in Marked /\ h[n].cb = c.cb)
  <2> DEFINE k == Append(h, c)
             g == [i \in 0..(n + 1) |-> IF i = n + 1 THEN TellMore(f[n], c) ELSE f[i]]
  <2>1. k = Hear(h, c)
    BY <1>5, Zenon DEF Hear
  <2>2. /\ k \in Seq(Events) /\ Len(k) = n + 1 /\ k[n + 1] = c
        /\ \A i \in 1..n : k[i] = h[i]
    OBVIOUS
  <2> HIDE DEF k
  <2>3. TellMore(f[n], c) \in Nat
    <3>1. f[n] \in Nat
      BY <1>2
    <3>. QED
      BY <3>1, TellMoreType
  <2>4. /\ g \in [0..(n + 1) -> Nat] /\ g[n + 1] = TellMore(f[n], c)
        /\ \A i \in 0..n : g[i] = f[i]
    BY <1>2, <2>3
  <2> HIDE DEF g
  <2>5. Sizes(g, k)
    <3>1. ASSUME NEW i \in 1..(n + 1) PROVE g[i] = TellMore(g[i - 1], k[i])
      <4>1. i - 1 \in 0..n /\ g[i - 1] = f[i - 1]
        BY <1>2, <2>4
      <4>2. CASE i = n + 1
        <5>1. i - 1 = n
          BY <1>2, <4>2
        <5>. QED
          BY <2>2, <2>4, <4>1, <4>2, <5>1
      <4>3. CASE i # n + 1
        <5>1. i \in 1..n /\ i \in 0..n
          BY <1>2, <4>3
        <5>. QED
          BY <1>2, <2>2, <2>4, <4>1, <5>1
      <4>. QED
        BY <4>2, <4>3
    <3>2. g[0] = 0
      BY <1>2, <2>4
    <3>. QED
      BY <2>2, <2>4, <3>1, <3>2 DEF Sizes
  <2>6. HeadSize(k) = g[n + 1]
    BY <2>2, <2>5, HeadSizeIs
  <2>. QED
    BY <1>3, <2>1, <2>4, <2>6
<1>. QED
  BY <1>3, <1>4, <1>5
LEMMA HeadToldType == ASSUME ParserInv PROVE HeadTold \in Nat
<1>1. heard \in Seq(Events)
  BY DEF ParserInv
<1>2. \E f : Sizes(f, heard)
  BY <1>1, SizesExist
<1>. QED
  BY <1>1, <1>2, HeadSizeIs DEF HeadTold

\* Calls of which the head takes no notice, that add to it, and that begin one.
LEMMA HeadQuiet ==
    ASSUME ParserInv, Call(<<>>)
    PROVE  HeadTold' = HeadTold
BY CallNobody DEF HeadTold

LEMMA HeadHears ==
    ASSUME ParserInv, NEW c \in Events, Call(<<c>>)
    PROVE  /\ HeadTold' = TellMore(HeadTold, c)
           /\ c.cb \in HeadElements => HeadTold' = HeadTold + Len(c.data)
           /\ c.cb \in {"message_begin", "chunk_header"} => HeadTold' = 0
           /\ c.cb \notin HeadElements \cup {"message_begin", "chunk_header"} =>
                    HeadTold' = HeadTold
<1>1. heard' = Hear(heard, c) /\ heard \in Seq(Events)
  BY CallOnce DEF ParserInv
<1>2. HeadTold' = TellMore(HeadTold, c)
  BY <1>1, HeadGrows DEF HeadTold
<1>3. c.cb \in HeadElements => c.cb \notin {"message_begin", "chunk_header"}
  BY DEF HeadElements
<1>4. /\ c.cb \in HeadElements => TellMore(HeadTold, c) = HeadTold + Len(c.data)
      /\ c.cb \in {"message_begin", "chunk_header"} => TellMore(HeadTold, c) = 0
      /\ c.cb \notin HeadElements \cup {"message_begin", "chunk_header"} =>
                    TellMore(HeadTold, c) = HeadTold
  BY <1>3, Zenon DEF TellMore
<1>. QED
  BY <1>2, <1>4

LEMMA HeadNotified ==
    ASSUME ParserInv, NEW cb \in DOMAIN Follows, NEW cs, cs = Notify(cb), Call(cs)
    PROVE  /\ cb \in {"message_begin", "chunk_header"} => HeadTold' = 0
           /\ cb \in {"headers_complete", "chunk_complete", "message_complete"} =>
                    HeadTold' = HeadTold
<1>1. PICK c \in Events : c.cb = cb /\ cs = <<c>>
  BY NotifyType DEF Notify
<1>2. Call(<<c>>)
  BY <1>1
<1>. QED
  BY <1>1, <1>2, HeadHears DEF HeadElements

\* What has been counted when a unit of a head is looked at.
LEMMA HeadLooking ==
    ASSUME ParserInv, HeadInv, Reading, ~stream.pauses, parser.state \in HeadStates
    PROVE  /\ HeadTold \in Nat /\ HeadTold + 1 <= Counted
           /\ \A m \in HeadElements :
                marks[m] \in Nat /\ (marks[m] # 0 => HeadTold + (p - marks[m]) + 1 <= Counted)
<1>1. HeadTold \in Nat /\ parser.nread \in Nat /\ p \in Nat
  <2>1. HeadTold \in Nat
    BY HeadToldType
  <2>2. parser \in Parsers /\ p \in 1..fed /\ fed \in Nat
    BY Looking
  <2>3. parser.nread \in Nat
    BY <2>2 DEF Parsers
  <2>. QED
    BY <2>1, <2>2, <2>3
<1>2. HeadCounted(parser, HeadTold, p, redo, marks)
  BY Looking DEF HeadInv
<1>3. PARSING_HEADER
  BY DEF PARSING_HEADER, HeadStates, BodyStates, UrlStates
<1>4. parser.nread + 1 = Counted + One(redo)
  <2>1. CASE redo
    BY <1>1, <2>1 DEF Counted, One
  <2>2. CASE ~redo
    BY <1>1, <1>3, <2>2 DEF Counted, One
  <2>. QED
    BY <2>1, <2>2
<1>5. One(redo) \in {0, 1} /\ Counted \in Nat
  BY Looking DEF One
<1>6. \A m \in HeadElements : marks[m] \in Nat
  BY Looking DEF HeadElements, Marked
<1>7. HeadTold + 1 <= Counted
  BY <1>1, <1>2, <1>4, <1>5 DEF HeadCounted
<1>8. ASSUME NEW m \in HeadElements, marks[m] # 0
      PROVE  HeadTold + (p - marks[m]) + 1 <= Counted
  <2>1. HeadTold + (p - marks[m]) + One(redo) <= parser.nread
    BY <1>2, <1>8 DEF HeadCounted
  <2>. QED
    BY <1>1, <1>4, <1>5, <1>6, <2>1
<1>. QED
  BY <1>1, <1>6, <1>7, <1>8

\* An embedder that pauses is not promised anything.
LEMMA HeadOfPausing ==
    ASSUME stream.pauses, stream' = stream
    PROVE  HeadInv'
BY DEF HeadInv

\* A pass that goes on.
LEMMA HeadPasses ==
    ASSUME ParserInv, ParserInv', HeadInv, p # 0, NEW par, NEW to, NEW again, NEW cs, NEW mk,
           Pass(par, to, again, cs, mk), par.errno = "OK", HeadTold' \in Nat,
           ~stream.pauses =>
                /\ par.state \notin HeadStates => HeadTold' <= MaxHeaderSize
                /\ HeadCounted(par, HeadTold', to, again, mk)
    PROVE  HeadInv'
<1>1. stream' = stream
  BY DEF Pass, Paused
<1>2. CASE stream.pauses
  BY <1>1, <1>2 DEF HeadInv
<1>3. CASE ~stream.pauses
  <2>1. /\ parser' = par /\ p' = to /\ redo' = again /\ marks' = mk /\ over' = over
        /\ par.state \notin HeadStates => HeadTold' <= MaxHeaderSize
        /\ HeadCounted(par, HeadTold', to, again, mk)
    BY <1>3 DEF Pass, Pauses
  <2>2. ~over
    BY DEF ParserInv, CallOK
  <2>3. par \in Parsers /\ par.nread <= MaxHeaderSize
    BY <2>1, <2>2 DEF ParserInv, TypeOK, Fits, Counts
  <2>4. CASE par.state \in HeadStates
    <3>1. HeadTold' + One(again) <= par.nread /\ One(again) \in {0, 1} /\ par.nread \in Nat
      BY <2>1, <2>3, <2>4 DEF HeadCounted, One, Parsers
    <3>2. HeadTold' <= MaxHeaderSize
      BY <2>3, <3>1, Numbers
    <3>. QED
      BY <1>1, <2>1, <3>2 DEF HeadInv
  <2>5. CASE par.state \notin HeadStates
    BY <1>1, <2>1, <2>5 DEF HeadInv
  <2>. QED
    BY <2>4, <2>5
<1>. QED
  BY <1>2, <1>3
\* What an inner loop has read from p to `to` was counted.
Measures(par, to, again) == par.nread >= Counted + (to + One(again)) - (p + 1)

\* A head goes on, or ends, with nothing told.
LEMMA HeadGoesOn ==
    ASSUME ParserInv, ParserInv', HeadInv, Reading, parser.state \in HeadStates,
           NEW par, NEW to \in p..(fed + 1), NEW again \in BOOLEAN, NEW cs, NEW mk,
           to = p => again, par.errno = "OK", par.nread \in Nat,
           Pass(par, to, again, cs, mk), HeadTold' = HeadTold, Measures(par, to, again),
           \A m \in HeadElements : mk[m] \in {0, p, marks[m]}
    PROVE  HeadInv'
<1>1. p # 0 /\ p \in Nat /\ to \in Nat /\ to >= p /\ Counted \in Nat /\ One(again) \in {0, 1}
  BY Looking DEF One
<1>2. HeadTold \in Nat
  BY HeadToldType
<1>3. ASSUME ~stream.pauses
      PROVE  /\ par.state \notin HeadStates => HeadTold' <= MaxHeaderSize
             /\ HeadCounted(par, HeadTold', to, again, mk)
  <2>1. /\ HeadTold + 1 <= Counted
        /\ \A m \in HeadElements :
               marks[m] \in Nat /\ (marks[m] # 0 => HeadTold + (p - marks[m]) + 1 <= Counted)
    BY <1>3, HeadLooking
  <2>2. HeadTold <= MaxHeaderSize
    BY <1>3, Looking DEF HeadInv
  <2>3. par.nread >= Counted + (to + One(again)) - (p + 1)
    BY DEF Measures
  <2>4. to + One(again) >= p + 1
    BY <1>1 DEF One
  <2>5. HeadTold + One(again) <= par.nread
    BY <1>1, <1>2, <2>1, <2>3, <2>4
  <2>6. ASSUME NEW m \in HeadElements, mk[m] # 0
        PROVE  HeadTold + (to - mk[m]) + One(again) <= par.nread
    <3>1. PICK k \in Nat : k = mk[m] /\ HeadTold + (p - k) + 1 <= Counted
      BY <1>1, <1>2, <2>1, <2>6
    <3>2. HeadTold + (to - k) + One(again) <= par.nread
      BY <1>1, <1>2, <2>3, <3>1
    <3>. QED
      BY <3>1, <3>2
  <2>. QED
    BY <1>1, <1>2, <2>1, <2>2, <2>3, <2>4, <2>5, <2>6 DEF HeadCounted
<1>. QED
  BY <1>1, <1>2, <1>3, HeadPasses

\* How much of an element is told at `to`.
LEMMA DataLength ==
    ASSUME ParserInv, NEW m \in Marked, marks[m] # 0, NEW to \in Nat,
           to <= Len(stream.wire) + 1, NEW c, Data(m, to) = <<c>>
    PROVE  /\ marks[m] \in Nat
           /\ Len(c.data) = IF marks[m] <= to - 1 THEN to - marks[m] ELSE 0
<1>1. /\ marks[m] \in Nat /\ marks[m] # 0 /\ stream.wire \in Seq(STRING)
      /\ Len(stream.wire) \in Nat
  BY SamePlaces, Streamed DEF ParserInv, TypeOK
<1>2. PICK k \in Nat : k = marks[m]
  BY <1>1
<1>3. k # 0 /\ k \in Int /\ to - 1 \in Int /\ to - 1 <= Len(stream.wire)
      /\ (to - 1) - k + 1 = to - k
  BY <1>1, <1>2
<1>4. Data(m, to) = <<[cb |-> m, data |-> SubSeq(stream.wire, k, to - 1)]>>
  BY <1>2 DEF Data
<1>5. c.data = SubSeq(stream.wire, k, to - 1)
  BY <1>4
<1>6. \A i \in k..(to - 1) : stream.wire[i] \in STRING
  BY <1>1, <1>3
<1>7. Len(SubSeq(stream.wire, k, to - 1)) = IF k <= to - 1 THEN (to - 1) - k + 1 ELSE 0
  BY <1>3, <1>6, SubSeqProperties
<1>. QED
  BY <1>1, <1>2, <1>3, <1>5, <1>7

\* A head goes on after an element of it has been told: what was marked up to
\* `at` is told.
LEMMA HeadTells ==
    ASSUME ParserInv, ParserInv', HeadInv, Reading, parser.state \in HeadStates,
           NEW m \in HeadElements, marks[m] # 0,
           NEW par, NEW at \in p..fed, NEW to \in p..(fed + 1), NEW again \in BOOLEAN,
           par.errno = "OK", par.nread \in Nat, par.state \in HeadStates,
           at + 1 = to + One(again), Measures(par, to, again),
           Pass(par, to, again, Data(m, at), Unmark(m))
    PROVE  HeadInv'
<1>1. /\ p # 0 /\ p \in Nat /\ at \in Nat /\ at >= p /\ Counted \in Nat
      /\ One(again) \in {0, 1} /\ at <= Len(stream.wire) + 1 /\ m \in Marked
      /\ marks[m] \in Nat /\ stream.wire \in Seq(STRING)
  <2>1. m \in Marked
    BY DEF HeadElements, Marked
  <2>2. stream.wire \in Seq(STRING)
    BY Streamed DEF ParserInv
  <2>3. One(again) \in {0, 1}
    BY DEF One
  <2>4. marks[m] \in Nat
    BY <2>1, Looking
  <2>5. p # 0 /\ p \in Nat /\ at \in Nat /\ at >= p /\ Counted \in Nat /\ at <= Len(stream.wire) + 1
    BY Looking
  <2>. QED
    BY <2>1, <2>2, <2>3, <2>4, <2>5
<1> DEFINE k == marks[m]
           c == [cb |-> m, data |-> SubSeq(stream.wire, k, at - 1)]
<1>2. Data(m, at) = <<c>>
  BY DEF Data
<1>3. c \in Events
  <2>1. PICK d \in Events : Data(m, at) = <<d>>
    BY <1>1, DataTold
  <2>2. c = d
    BY <1>2, <2>1
  <2>. QED
    BY <2>1, <2>2
<1>4. c.cb \in HeadElements
  OBVIOUS
<1>5. Len(c.data) = IF k <= at - 1 THEN at - k ELSE 0
  <2> HIDE DEF c
  <2>. QED
    BY <1>1, <1>2, DataLength, Looking
<1>6. Call(<<c>>)
  BY <1>2 DEF Pass, Paused
<1> HIDE DEF c
<1>7. HeadTold' = HeadTold + Len(c.data) /\ HeadTold \in Nat
  BY <1>3, <1>4, <1>6, HeadHears, HeadToldType
<1>8. \A n \in HeadElements : Unmark(m)[n] = 0
  <2>1. parser.state \in MayMark[m] /\ marks \in [Marked -> 0..fed]
    BY <1>1, Looking DEF MarkedIn
  <2>2. ASSUME NEW n \in HeadElements PROVE Unmark(m)[n] = 0
    <3>1. n \in Marked
      BY DEF HeadElements, Marked
    <3>2. CASE n = m
      BY <2>1, <3>1, <3>2 DEF Unmark
    <3>3. CASE n # m
      <4>1. marks[n] = 0
        BY <1>1, <2>1, <3>1, <3>3, OneElement, Looking DEF MarkedIn
      <4>. QED
        BY <2>1, <3>1, <3>3, <4>1 DEF Unmark
    <3>. QED
      BY <3>2, <3>3
  <2>. QED
    BY <2>2
<1>9. ASSUME ~stream.pauses
      PROVE  HeadCounted(par, HeadTold', to, again, Unmark(m))
  <2>1. HeadTold + 1 <= Counted /\ HeadTold + (p - k) + 1 <= Counted
    BY <1>9, HeadLooking
  <2>2. par.nread >= Counted + (at + 1) - (p + 1)
    BY DEF Measures
  <2>3. k \in Nat
    BY <1>1
  <2> HIDE DEF k
  <2>4. HeadTold + Len(c.data) + One(again) <= par.nread
    <3>1. CASE k <= at - 1
      BY <1>1, <1>5, <1>7, <2>1, <2>2, <2>3, <3>1
    <3>2. CASE ~(k <= at - 1)
      BY <1>1, <1>5, <1>7, <2>1, <2>2, <2>3, <3>2
    <3>. QED
      BY <3>1, <3>2
  <2>5. 1 <= par.nread
    BY <1>1, <1>7, <2>1, <2>2, Looking
  <2>. QED
    BY <1>7, <1>8, <2>4, <2>5 DEF HeadCounted
<1>10. HeadTold' \in Nat
  BY SMTT(30), <1>1, <1>5, <1>7
<1>. QED
  BY <1>1, <1>9, <1>10, HeadPasses

\* A head or a trailer begins.
LEMMA HeadBegins ==
    ASSUME ParserInv, ParserInv', HeadInv, Reading, NEW cb \in {"message_begin", "chunk_header"},
           NEW par, par.errno = "OK", par.nread \in Nat, NEW to, parser.state \in UnmarkedStates,
           NEW again \in BOOLEAN, par.state \notin BetweenStates,
           par.state \in HeadStates => One(again) <= par.nread,
           Pass(par, to, again, Notify(cb), marks)
    PROVE  HeadInv'
<1>1. p # 0 /\ MaxHeaderSize \in Nat
  BY Numbers DEF Reading
<1>2. cb \in DOMAIN Follows /\ Call(Notify(cb))
  BY DEF Pass, Paused, Follows
<1>3. HeadTold' = 0
  BY <1>2, HeadNotified
<1>4. \A m \in HeadElements : marks[m] = 0
  <2>1. \A m \in Marked : marks[m] = 0
    BY Looking, NothingMarked
  <2>. QED
    BY <2>1 DEF HeadElements, Marked
<1>5. HeadCounted(par, HeadTold', to, again, marks)
  BY <1>3, <1>4 DEF HeadCounted, One
<1>6. HeadTold' \in Nat /\ HeadTold' <= MaxHeaderSize
  BY <1>1, <1>3
<1>. QED
  BY <1>1, <1>5, <1>6, HeadPasses

\* ... with a unit that is left behind, as all but the first of them are.
LEMMA HeadBeginsHere ==
    ASSUME ParserInv, ParserInv', HeadInv, Reading, NEW cb \in {"message_begin", "chunk_header"},
           NEW par, par.errno = "OK", par.nread \in Nat, NEW to, parser.state \in UnmarkedStates,
           par.state \notin BetweenStates, Pass(par, to, FALSE, Notify(cb), marks)
    PROVE  HeadInv'
<1>1. PICK again \in BOOLEAN : again = FALSE
  OBVIOUS
<1>2. Pass(par, to, again, Notify(cb), marks)
  BY <1>1
<1>3. One(again) <= par.nread
  BY <1>1 DEF One
<1>. QED
  BY <1>2, <1>3, HeadBegins

\* Outside of a head nothing is told of it.
LEMMA HeadStays ==
    ASSUME ParserInv, ParserInv', HeadInv, Reading,
           NEW par, NEW to, NEW again, NEW cs, NEW mk, par.errno = "OK",
           par.state \notin HeadStates, Pass(par, to, again, cs, mk), HeadTold' = HeadTold,
           par.state \in BetweenStates /\ again => 1 <= par.nread
    PROVE  HeadInv'
<1>1. p # 0 /\ parser.errno = "OK"
  BY Looking
<1>2. HeadTold' \in Nat
  BY HeadToldType
<1>3. ~stream.pauses => HeadTold' <= MaxHeaderSize
  BY <1>1 DEF HeadInv
<1>4. HeadCounted(par, HeadTold', to, again, mk)
  BY DEF HeadCounted
<1>. QED
  BY <1>1, <1>2, <1>3, <1>4, HeadPasses

\* A call that returns: at an error, or after a message.
LEMMA HeadReturns ==
    ASSUME ParserInv, ParserInv', HeadInv, Reading, NEW par \in Parsers, NEW all, NEW cs,
           Return(par, all, cs), par.errno # "PAUSED",
           par.errno = "OK" => par.state \notin HeadStates /\ HeadTold' = HeadTold
    PROVE  HeadInv'
<1>1. parser.errno = "OK"
  BY Looking
<1>2. /\ stream' = stream /\ parser'.errno = par.errno /\ parser'.state = par.state
  BY DEF Return, Parsers
<1>. QED
  BY <1>1, <1>2 DEF HeadInv, HeadCounted, Return

LEMMA HeadFails ==
    ASSUME ParserInv, ParserInv', HeadInv, Reading, NEW e \in Errors, Error(e)
    PROVE  HeadInv'
<1> DEFINE par == [Now EXCEPT !.errno = e]
<1>1. par \in Parsers /\ par.errno = e /\ e \notin {"OK", "PAUSED"}
  <2>1. PICK n \in Parsers : n = Now
    BY Looking
  <2>2. [n EXCEPT !.errno = e] \in Parsers /\ [n EXCEPT !.errno = e].errno = e
    BY ZenonT(30) DEF Parsers, Errors
  <2>. QED
    BY <2>1, <2>2 DEF Errors
<1>2. Return(par, FALSE, <<>>)
  BY DEF Error
<1> HIDE DEF par
<1>. QED
  BY <1>1, <1>2, HeadReturns
\* What was counted is kept when the pass ends at p, and when it goes on.
LEMMA HeadBreaks ==
    ASSUME ParserInv, ParserInv', HeadInv, Reading, parser.state \in HeadStates,
           NEW par, par.errno = "OK", par.nread = Counted, NEW mk,
           \A m \in HeadElements : mk[m] \in {0, p, marks[m]},
           NEW cs, HeadTold' = HeadTold,
           Pass(par, p + 1, FALSE, cs, mk) \/ Pass(par, p, TRUE, cs, mk)
    PROVE  HeadInv'
<1>1. p \in Nat /\ Counted \in Nat /\ p \in p..(fed + 1) /\ p + 1 \in p..(fed + 1) /\ p + 1 # p
  BY Looking
<1>2. PICK no \in BOOLEAN, yes \in BOOLEAN : no = FALSE /\ yes = TRUE
  OBVIOUS
<1>3. Measures(par, p + 1, no) /\ Measures(par, p, yes) /\ par.nread \in Nat
  BY <1>1, <1>2 DEF Measures, One
<1>4. CASE Pass(par, p + 1, FALSE, cs, mk)
  <2>1. Pass(par, p + 1, no, cs, mk)
    BY <1>2, <1>4
  <2>. QED
    BY <1>1, <1>3, <2>1, HeadGoesOn
<1>5. CASE Pass(par, p, TRUE, cs, mk)
  <2>1. Pass(par, p, yes, cs, mk) /\ (p = p => yes)
    BY <1>2, <1>5
  <2>. QED
    BY <1>1, <1>3, <2>1, HeadGoesOn
<1>. QED
  BY <1>4, <1>5

LEMMA HeadBreaksQuietly ==
    ASSUME ParserInv, ParserInv', HeadInv, Reading, parser.state \in HeadStates,
           NEW par, par.errno = "OK", par.nread = Counted, Break(par) \/ Reexecute(par)
    PROVE  HeadInv'
<1>1. Pass(par, p + 1, FALSE, <<>>, marks) \/ Pass(par, p, TRUE, <<>>, marks)
  BY DEF Break, Reexecute
<1>2. Call(<<>>)
  BY <1>1 DEF Pass, Paused
<1>3. HeadTold' = HeadTold
  BY <1>2, HeadQuiet
<1>4. \A m \in HeadElements : marks[m] \in {0, p, marks[m]}
  OBVIOUS
<1>. QED
  BY <1>1, <1>3, <1>4, HeadBreaks

LEMMA HeadMarks ==
    ASSUME ParserInv, ParserInv', HeadInv, Reading, parser.state \in HeadStates,
           NEW par, par.errno = "OK", par.nread = Counted, NEW m \in Marked,
           Pass(par, p + 1, FALSE, <<>>, MARK(m)) \/ Pass(par, p, TRUE, <<>>, MARK(m))
    PROVE  HeadInv'
<1>1. Call(<<>>)
  BY DEF Pass, Paused
<1>2. HeadTold' = HeadTold
  BY <1>1, HeadQuiet
<1>3. \A k \in HeadElements : MARK(m)[k] \in {0, p, marks[k]}
  <2>1. HeadElements \subseteq Marked /\ marks \in [Marked -> 0..fed]
    BY Looking DEF HeadElements, Marked
  <2>. QED
    BY <2>1 DEF MARK
<1>. QED
  BY <1>2, <1>3, HeadBreaks

\* The passes that only change the state, or nothing.
LEMMA HeadGoes ==
    ASSUME ParserInv, ParserInv', HeadInv, Reading, parser.state \in HeadStates, NEW s,
           Break(Now) \/ Goto(s) \/ Reexecute([Now EXCEPT !.state = s])
    PROVE  HeadInv'
<1>1. Now \in Parsers /\ Now.errno = "OK" /\ Now.nread = Counted
  BY Looking DEF Parsers
<1>2. CASE Break(Now)
  BY <1>1, <1>2, HeadBreaksQuietly
<1>3. CASE Goto(s) \/ Reexecute([Now EXCEPT !.state = s])
  <2> DEFINE par == [Now EXCEPT !.state = s]
  <2>1. par.errno = "OK" /\ par.nread = Counted
    BY <1>1 DEF Parsers
  <2>2. Break(par) \/ Reexecute(par)
    BY <1>3 DEF Goto
  <2> HIDE DEF par
  <2>. QED
    BY <2>1, <2>2, HeadBreaksQuietly
<1>. QED
  BY <1>2, <1>3

LEMMA HeadOutside ==
    ASSUME ParserInv, ParserInv', HeadInv, Reading, NEW par, par.errno = "OK",
           par.state \notin HeadStates, NEW to, NEW again, NEW mk, Pass(par, to, again, <<>>, mk),
           par.state \in BetweenStates /\ again => 1 <= par.nread
    PROVE  HeadInv'
<1>1. Call(<<>>)
  BY DEF Pass, Paused
<1>2. HeadTold' = HeadTold
  BY <1>1, HeadQuiet
<1>. QED
  BY <1>2, HeadStays

LEMMA SimpleHeads ==
    ASSUME ParserInv, ParserInv', HeadInv,
           \/ ResHttpEnd \/ StatusCode \/ ResLineAlmostDone \/ ReqMethod \/ HttpEnd
           \/ ReqLineAlmostDone \/ HeaderAlmostDone \/ DiscardWsAlmostDone
    PROVE  HeadInv'
<1>1. CASE ResHttpEnd
  <2>1. Reading /\ parser.state \in HeadStates
    BY <1>1 DEF ResHttpEnd, At, HeadStates
  <2>. QED
    BY <1>1, <2>1, HeadGoes, HeadFails DEF ResHttpEnd, Errors
<1>2. CASE StatusCode
  <2>1. Reading /\ parser.state \in HeadStates
    BY <1>2 DEF StatusCode, At, HeadStates
  <2>2. CASE Break([Now EXCEPT !.status_code = WithCode(parser.status_code, Unit)])
    <3> DEFINE par == [Now EXCEPT !.status_code = WithCode(parser.status_code, Unit)]
    <3>1. par.errno = "OK" /\ par.nread = Counted
      BY <2>1, Looking DEF Parsers
    <3> HIDE DEF par
    <3>. QED
      BY <2>1, <2>2, <3>1, HeadBreaksQuietly DEF par
  <2>. QED
    BY <1>2, <2>1, <2>2, HeadGoes, HeadFails DEF StatusCode, Errors
<1>3. CASE ResLineAlmostDone
  <2>1. Reading /\ parser.state \in HeadStates
    BY <1>3 DEF ResLineAlmostDone, At, HeadStates
  <2>. QED
    BY <1>3, <2>1, HeadGoes, HeadFails DEF ResLineAlmostDone, Errors
<1>4. CASE ReqMethod
  <2>1. Reading /\ parser.state \in HeadStates
    BY <1>4 DEF ReqMethod, At, HeadStates
  <2>. QED
    BY <1>4, <2>1, HeadGoes, HeadFails DEF ReqMethod, Errors
<1>5. CASE HttpEnd
  <2>1. Reading /\ parser.state \in HeadStates
    BY <1>5 DEF HttpEnd, At, HeadStates
  <2>. QED
    BY <1>5, <2>1, HeadGoes, HeadFails DEF HttpEnd, Errors
<1>6. CASE ReqLineAlmostDone
  <2>1. Reading /\ parser.state \in HeadStates
    BY <1>6 DEF ReqLineAlmostDone, At, HeadStates
  <2>. QED
    BY <1>6, <2>1, HeadGoes, HeadFails DEF ReqLineAlmostDone, Errors
<1>7. CASE HeaderAlmostDone
  <2>1. Reading /\ parser.state \in HeadStates
    BY <1>7 DEF HeaderAlmostDone, At, HeadStates
  <2>. QED
    BY <1>7, <2>1, HeadGoes, HeadFails DEF HeaderAlmostDone, Errors
<1>8. CASE DiscardWsAlmostDone
  <2>1. Reading /\ parser.state \in HeadStates
    BY <1>8 DEF DiscardWsAlmostDone, At, HeadStates
  <2>. QED
    BY <1>8, <2>1, HeadGoes, HeadFails DEF DiscardWsAlmostDone, Errors
<1>. QED
  BY <1>1, <1>2, <1>3, <1>4, <1>5, <1>6, <1>7, <1>8

LEMMA DeadHead == ASSUME ParserInv, ParserInv', HeadInv, Dead PROVE HeadInv'
<1>1. Reading /\ parser.state = "s_dead"
  BY DEF Dead, At
<1>2. Now.errno = "OK" /\ Now.state \notin HeadStates
  BY <1>1, Looking DEF Parsers, HeadStates, UrlStates
<1>3. CASE Break(Now)
  BY <1>1, <1>2, <1>3, HeadOutside DEF Break
<1>4. CASE Error("CLOSED_CONNECTION")
  BY <1>1, <1>4, HeadFails DEF Errors
<1>. QED
  BY <1>3, <1>4 DEF Dead

\* Between messages too a unit that is looked at was counted.
LEMMA BetweenCounted ==
    ASSUME ParserInv, HeadInv, Reading, ~stream.pauses, parser.state \in BetweenStates
    PROVE  1 <= Counted
<1>1. parser.nread \in Nat /\ parser.errno = "OK"
  BY Looking DEF Parsers
<1>2. PARSING_HEADER
  BY DEF PARSING_HEADER, BetweenStates, BodyStates
<1>3. redo => 1 <= parser.nread
  BY <1>1 DEF HeadInv, HeadCounted
<1>. QED
  BY <1>1, <1>2, <1>3 DEF Counted

LEMMA StartResHead == ASSUME ParserInv, ParserInv', HeadInv, StartRes PROVE HeadInv'
<1>1. Reading /\ parser.state = "s_start_res" /\ Counted <= MaxHeaderSize
  BY DEF StartRes, At
<1>2. /\ Now.errno = "OK" /\ Now.state \notin HeadStates /\ parser.state \in UnmarkedStates
      /\ Fresh \in Parsers /\ Fresh.errno = "OK"
  BY <1>1, Looking, FreshType DEF Parsers, HeadStates, UrlStates, UnmarkedStates, BetweenStates
<1>3. CASE Break(Now)
  BY <1>1, <1>2, <1>3, HeadOutside DEF Break
<1>4. CASE MessageBegin([Fresh EXCEPT !.state = "s_res_http_end", !.version = Unit])
  <2> DEFINE par == [Fresh EXCEPT !.state = "s_res_http_end", !.version = Unit]
  <2>1. par.errno = "OK" /\ par.nread \in Nat /\ par.state \notin BetweenStates
    BY <1>2 DEF Parsers, BetweenStates
  <2> HIDE DEF par
  <2>. QED
    BY <1>1, <1>2, <1>4, <2>1, HeadBeginsHere DEF MessageBegin, par
<1>5. CASE Return([Fresh EXCEPT !.errno = "INVALID_CONSTANT"], FALSE, <<>>)
  <2> DEFINE par == [Fresh EXCEPT !.errno = "INVALID_CONSTANT"]
  <2>1. par \in Parsers /\ par.errno = "INVALID_CONSTANT"
    BY <1>2 DEF Parsers
  <2> HIDE DEF par
  <2>. QED
    BY <1>1, <1>5, <2>1, HeadReturns DEF par
<1>6. CASE Pass([Fresh EXCEPT !.state = "s_res_H"], p, TRUE, Notify("message_begin"), marks)
  <2> DEFINE par == [Fresh EXCEPT !.state = "s_res_H"]
  <2>1. par.errno = "OK" /\ par.nread \in Nat /\ par.state = "s_res_H"
    BY <1>2 DEF Parsers
  <2> HIDE DEF par
  <2>2. par.state \notin HeadStates /\ par.state \notin BetweenStates
    BY <2>1 DEF HeadStates, UrlStates, BetweenStates
  <2>3. PICK again \in BOOLEAN : again = TRUE
    OBVIOUS
  <2>4. Pass(par, p, again, Notify("message_begin"), marks)
    BY <1>6, <2>3 DEF par
  <2>. QED
    BY <1>1, <1>2, <2>1, <2>2, <2>4, HeadBegins
<1>. QED
  BY <1>3, <1>4, <1>5, <1>6 DEF StartRes

LEMMA ResHHead == ASSUME ParserInv, ParserInv', HeadInv, ResH PROVE HeadInv'
BY HeadFails DEF ResH, At, Errors

LEMMA FirstStatusCodeHead ==
    ASSUME ParserInv, ParserInv', HeadInv, FirstStatusCode PROVE HeadInv'
<1>1. Reading /\ parser.state \in HeadStates
  BY DEF FirstStatusCode, At, HeadStates
<1>2. CASE Break(Now) \/ Error("INVALID_STATUS")
  BY <1>1, <1>2, HeadGoes, HeadFails DEF Errors
<1>3. CASE Break([Now EXCEPT !.status_code = WithCode(0, Unit), !.state = "s_res_status_code"])
  <2> DEFINE par == [Now EXCEPT !.status_code = WithCode(0, Unit), !.state = "s_res_status_code"]
  <2>1. par.errno = "OK" /\ par.nread = Counted
    BY <1>1, Looking DEF Parsers
  <2> HIDE DEF par
  <2>. QED
    BY <1>1, <1>3, <2>1, HeadBreaksQuietly DEF par
<1>. QED
  BY <1>2, <1>3 DEF FirstStatusCode

LEMMA StatusStartHead ==
    ASSUME ParserInv, ParserInv', HeadInv, StatusStart PROVE HeadInv'
<1>1. Reading /\ parser.state \in HeadStates
  BY DEF StatusStart, At, HeadStates
<1> DEFINE par == [Now EXCEPT !.state = "s_res_status"]
<1>2. par.errno = "OK" /\ par.nread = Counted
  BY <1>1, Looking DEF Parsers
<1>3. \/ Pass(par, p + 1, FALSE, <<>>, MARK("status"))
      \/ Pass(par, p, TRUE, <<>>, MARK("status"))
  <2>1. CASE Unit \in {"CR", "LF"}
    <3>1. (Unit \in {"CR", "LF"}) = TRUE
      BY <2>1
    <3>. QED
      BY <3>1 DEF StatusStart
  <2>2. CASE Unit \notin {"CR", "LF"}
    <3>1. (Unit \in {"CR", "LF"}) = FALSE
      BY <2>2
    <3>. QED
      BY <3>1 DEF StatusStart
  <2>. QED
    BY <2>1, <2>2
<1>4. "status" \in Marked
  BY DEF Marked
<1> HIDE DEF par
<1>. QED
  BY <1>1, <1>2, <1>3, <1>4, HeadMarks
\* An element that ends at p.
LEMMA HeadTellsHere ==
    ASSUME ParserInv, ParserInv', HeadInv, Reading, parser.state \in HeadStates,
           NEW m \in HeadElements, parser.state \in MayMark[m],
           NEW par, par.errno = "OK", par.nread = Counted, par.state \in HeadStates,
           Pass(par, p + 1, FALSE, Data(m, p), Unmark(m))
    PROVE  HeadInv'
<1>1. /\ p \in Nat /\ Counted \in Nat /\ p \in p..fed /\ p + 1 \in p..(fed + 1)
      /\ MarkedIn(parser.state, marks)
  BY Looking
<1>2. PICK no \in BOOLEAN : no = FALSE
  OBVIOUS
<1>3. Measures(par, p + 1, no) /\ par.nread \in Nat /\ p + 1 = (p + 1) + One(no)
  BY <1>1, <1>2 DEF Measures, One
<1>4. Pass(par, p + 1, no, Data(m, p), Unmark(m))
  BY <1>2
<1>5. m \in Marked /\ m # "body"
  BY DEF HeadElements, Marked
<1>6. marks[m] # 0
  BY <1>1, <1>5 DEF MarkedIn
<1>. QED
  BY <1>1, <1>3, <1>4, <1>6, HeadTells

LEMMA StatusHead == ASSUME ParserInv, ParserInv', HeadInv, Status PROVE HeadInv'
<1>1. Reading /\ parser.state = "s_res_status" /\ parser.state \in HeadStates
  BY DEF Status, At, HeadStates
<1>2. CASE Break(Now)
  BY <1>1, <1>2, HeadGoes
<1>3. ASSUME NEW s \in {"s_res_line_almost_done", "s_header_field_start"},
             Pass([Now EXCEPT !.state = s], p + 1, FALSE, Data("status", p), Unmark("status"))
      PROVE  HeadInv'
  <2> DEFINE par == [Now EXCEPT !.state = s]
  <2>1. par.errno = "OK" /\ par.nread = Counted /\ par.state \in HeadStates
    BY <1>1, Looking DEF Parsers, HeadStates
  <2> HIDE DEF par
  <2>2. PICK m \in HeadElements : m = "status"
    BY DEF HeadElements
  <2>3. parser.state \in MayMark[m]
    BY <1>1, <2>2 DEF MayMark
  <2>4. Pass(par, p + 1, FALSE, Data(m, p), Unmark(m))
    BY <1>3, <2>2 DEF par
  <2>. QED
    BY <1>1, <2>1, <2>3, <2>4, HeadTellsHere
<1>. QED
  BY <1>2, <1>3 DEF Status

LEMMA StartReqOrResHead ==
    ASSUME ParserInv, ParserInv', HeadInv, StartReqOrRes PROVE HeadInv'
<1>1. Reading /\ parser.state = "s_start_req_or_res"
  BY DEF StartReqOrRes, At
<1>2. /\ Now.errno = "OK" /\ Now.state \notin HeadStates /\ parser.state \in UnmarkedStates
      /\ Fresh \in Parsers /\ Fresh.errno = "OK"
  BY <1>1, Looking, FreshType DEF StartReqOrRes, At, Parsers, HeadStates, UrlStates,
     UnmarkedStates, BetweenStates
<1>3. CASE Break(Now)
  BY <1>1, <1>2, <1>3, HeadOutside DEF Break
<1>4. CASE MessageBegin([Fresh EXCEPT !.type = "HTTP_RESPONSE", !.version = Unit,
                                      !.state = "s_res_http_end"])
  <2> DEFINE par == [Fresh EXCEPT !.type = "HTTP_RESPONSE", !.version = Unit,
                                  !.state = "s_res_http_end"]
  <2>1. par.errno = "OK" /\ par.nread \in Nat /\ par.state \notin BetweenStates
    BY <1>2 DEF Parsers, BetweenStates
  <2> HIDE DEF par
  <2>. QED
    BY <1>1, <1>2, <1>4, <2>1, HeadBeginsHere DEF MessageBegin, par
<1>5. CASE MessageBegin([Fresh EXCEPT !.type = "HTTP_REQUEST", !.method = "HEAD",
                                      !.state = "s_req_method"])
  <2> DEFINE par == [Fresh EXCEPT !.type = "HTTP_REQUEST", !.method = "HEAD",
                                  !.state = "s_req_method"]
  <2>1. par.errno = "OK" /\ par.nread \in Nat /\ par.state \notin BetweenStates
    BY <1>2 DEF Parsers, BetweenStates
  <2> HIDE DEF par
  <2>. QED
    BY <1>1, <1>2, <1>5, <2>1, HeadBeginsHere DEF MessageBegin, par
<1>6. CASE Reexecute([Fresh EXCEPT !.type = "HTTP_REQUEST", !.state = "s_start_req"])
  <2> DEFINE par == [Fresh EXCEPT !.type = "HTTP_REQUEST", !.state = "s_start_req"]
  <2>1. par.errno = "OK" /\ par.state \notin HeadStates /\ par.nread = Fresh.nread
    BY <1>2 DEF Parsers, HeadStates, UrlStates
  <2> HIDE DEF par
  <2>2. Fresh.nread = Counted
    BY <1>1, FreshType DEF StartReqOrRes, At
  <2>3. CASE ~stream.pauses
    <3>1. 1 <= par.nread
      BY <1>1, <2>1, <2>2, <2>3, BetweenCounted DEF BetweenStates
    <3>. QED
      BY <1>1, <1>6, <2>1, <3>1, HeadOutside DEF Reexecute, par
  <2>4. CASE stream.pauses
    BY <1>6, <2>4, HeadOfPausing DEF Reexecute, Pass, Paused
  <2>. QED
    BY <2>3, <2>4
<1>. QED
  BY <1>3, <1>4, <1>5, <1>6 DEF StartReqOrRes

LEMMA StartReqHead == ASSUME ParserInv, ParserInv', HeadInv, StartReq PROVE HeadInv'
<1>1. Reading /\ parser.state = "s_start_req"
  BY DEF StartReq, At
<1>2. /\ Now.errno = "OK" /\ Now.state \notin HeadStates /\ parser.state \in UnmarkedStates
      /\ Fresh \in Parsers /\ Fresh.errno = "OK"
  BY <1>1, Looking, FreshType DEF StartReq, At, Parsers, HeadStates, UrlStates,
     UnmarkedStates, BetweenStates
<1>3. CASE Break(Now)
  BY <1>1, <1>2, <1>3, HeadOutside DEF Break
<1>4. CASE MessageBegin([Fresh EXCEPT !.state = "s_req_method", !.method = Unit])
  <2> DEFINE par == [Fresh EXCEPT !.state = "s_req_method", !.method = Unit]
  <2>1. par.errno = "OK" /\ par.nread \in Nat /\ par.state \notin BetweenStates
    BY <1>2 DEF Parsers, BetweenStates
  <2> HIDE DEF par
  <2>. QED
    BY <1>1, <1>2, <1>4, <2>1, HeadBeginsHere DEF MessageBegin, par
<1>5. CASE Return([Fresh EXCEPT !.errno = "INVALID_METHOD"], FALSE, <<>>)
  <2> DEFINE par == [Fresh EXCEPT !.errno = "INVALID_METHOD"]
  <2>1. par \in Parsers /\ par.errno = "INVALID_METHOD"
    BY <1>2 DEF Parsers
  <2> HIDE DEF par
  <2>. QED
    BY <1>1, <1>5, <2>1, HeadReturns DEF par
<1>6. CASE Pass([Fresh EXCEPT !.state = "s_req_method", !.method = "HEAD"], p, TRUE,
                Notify("message_begin"), marks)
  <2> DEFINE par == [Fresh EXCEPT !.state = "s_req_method", !.method = "HEAD"]
  <2>1. /\ par.errno = "OK" /\ par.nread \in Nat /\ par.state = "s_req_method"
        /\ par.nread = Fresh.nread
    BY <1>2 DEF Parsers
  <2> HIDE DEF par
  <2>2. Fresh.nread = Counted
    BY <1>1, FreshType DEF StartReq, At
  <2>3. PICK again \in BOOLEAN : again = TRUE
    OBVIOUS
  <2>4. Pass(par, p, again, Notify("message_begin"), marks)
    BY <1>6, <2>3 DEF par
  <2>5. CASE ~stream.pauses
    <3>1. One(again) <= par.nread
      BY <1>1, <2>1, <2>2, <2>3, <2>5, BetweenCounted DEF BetweenStates, One
    <3>2. par.state \notin BetweenStates
      BY <2>1 DEF BetweenStates
    <3>. QED
      BY <1>1, <1>2, <2>1, <2>4, <3>1, <3>2, HeadBegins
  <2>6. CASE stream.pauses
    BY <2>4, <2>6, HeadOfPausing DEF Pass, Paused
  <2>. QED
    BY <2>5, <2>6
<1>. QED
  BY <1>3, <1>4, <1>5, <1>6 DEF StartReq

LEMMA UrlStartHead == ASSUME ParserInv, ParserInv', HeadInv, UrlStart PROVE HeadInv'
<1>1. Reading /\ parser.state \in HeadStates
  BY DEF UrlStart, At, HeadStates
<1> DEFINE from == IF parser.method = "CONNECT" THEN "s_req_server_start"
                   ELSE "s_req_spaces_before_url"
           to == parse_url_char(from, Unit)
<1> HIDE DEF from, to
<1>2. CASE Break(Now) \/ Error("INVALID_URL")
  BY <1>1, <1>2, HeadGoes, HeadFails DEF Errors
<1>3. CASE Pass([Now EXCEPT !.state = to], p + 1, FALSE, <<>>, MARK("url"))
  <2> DEFINE par == [Now EXCEPT !.state = to]
  <2>1. par.errno = "OK" /\ par.nread = Counted /\ "url" \in Marked
    BY <1>1, Looking DEF Parsers, Marked
  <2> HIDE DEF par
  <2>. QED
    BY <1>1, <1>3, <2>1, HeadMarks DEF par
<1>. QED
  BY <1>2, <1>3 DEF UrlStart, from, to

LEMMA UrlCharHead == ASSUME ParserInv, ParserInv', HeadInv, UrlChar PROVE HeadInv'
<1>1. Reading /\ parser.state \in HeadStates
  BY DEF UrlChar, At, HeadStates
<1>. QED
  BY <1>1, HeadGoes, HeadFails DEF UrlChar, Errors

LEMMA UrlEndHead == ASSUME ParserInv, ParserInv', HeadInv, UrlEnd PROVE HeadInv'
<1>1. Reading /\ parser.state \in UrlStates /\ parser.state \in HeadStates
  BY DEF UrlEnd, At, HeadStates, UrlEndStates
<1>2. ASSUME NEW par, par.errno = "OK", par.nread = Counted, par.state \in HeadStates,
             Pass(par, p + 1, FALSE, Data("url", p), Unmark("url"))
      PROVE  HeadInv'
  <2>1. PICK m \in HeadElements : m = "url"
    BY DEF HeadElements
  <2>2. parser.state \in MayMark[m]
    BY <1>1, <2>1 DEF MayMark
  <2>3. Pass(par, p + 1, FALSE, Data(m, p), Unmark(m))
    BY <1>2, <2>1
  <2>. QED
    BY <1>1, <1>2, <2>2, <2>3, HeadTellsHere
<1>3. CASE Pass([Now EXCEPT !.state = "s_req_http_start"],
                p + 1, FALSE, Data("url", p), Unmark("url"))
  <2> DEFINE par == [Now EXCEPT !.state = "s_req_http_start"]
  <2>1. par.errno = "OK" /\ par.nread = Counted /\ par.state \in HeadStates
    BY <1>1, Looking DEF Parsers, HeadStates
  <2> HIDE DEF par
  <2>. QED
    BY <1>2, <1>3, <2>1 DEF par
<1>4. ASSUME NEW s \in {"s_req_line_almost_done", "s_header_field_start"},
             Pass([Now EXCEPT !.state = s, !.version = "HTTP/0.9"],
                  p + 1, FALSE, Data("url", p), Unmark("url"))
      PROVE  HeadInv'
  <2> DEFINE par == [Now EXCEPT !.state = s, !.version = "HTTP/0.9"]
  <2>1. par.errno = "OK" /\ par.nread = Counted /\ par.state \in HeadStates
    BY <1>1, Looking DEF Parsers, HeadStates
  <2> HIDE DEF par
  <2>. QED
    BY <1>2, <1>4, <2>1 DEF par
<1>. QED
  BY <1>3, <1>4 DEF UrlEnd

LEMMA HttpVersionHead == ASSUME ParserInv, ParserInv', HeadInv, HttpVersion PROVE HeadInv'
<1>1. Reading /\ parser.state \in HeadStates
  BY DEF HttpVersion, At, HeadStates
<1>2. CASE Break(Now) \/ Error("INVALID_CONSTANT")
  BY <1>1, <1>2, HeadGoes, HeadFails DEF Errors
<1>3. CASE Break([Now EXCEPT !.state = "s_req_http_end", !.version = Unit])
  <2> DEFINE par == [Now EXCEPT !.state = "s_req_http_end", !.version = Unit]
  <2>1. par.errno = "OK" /\ par.nread = Counted
    BY <1>1, Looking DEF Parsers
  <2> HIDE DEF par
  <2>. QED
    BY <1>1, <1>3, <2>1, HeadBreaksQuietly DEF par
<1>. QED
  BY <1>2, <1>3 DEF HttpVersion

LEMMA HeaderFieldStartHead ==
    ASSUME ParserInv, ParserInv', HeadInv, HeaderFieldStart PROVE HeadInv'
<1>1. Reading /\ parser.state \in HeadStates
  BY DEF HeaderFieldStart, At, HeadStates
<1>2. CASE \/ Goto("s_headers_almost_done") \/ Error("INVALID_HEADER_TOKEN")
           \/ Reexecute([Now EXCEPT !.state = "s_headers_almost_done"])
  BY <1>1, <1>2, HeadGoes, HeadFails DEF Errors
<1> DEFINE hs == IF Unit \in DOMAIN KeywordStates THEN KeywordStates[Unit] ELSE "h_general"
           te == Now.uses_transfer_encoding \/ Unit = "transfer_encoding"
           par == [Now EXCEPT !.state = "s_header_field", !.header_state = hs,
                              !.uses_transfer_encoding = te]
<1>3. CASE Pass(par, p + 1, FALSE, <<>>, MARK("header_field"))
  <2> HIDE DEF hs, te
  <2>1. par.errno = "OK" /\ par.nread = Counted /\ "header_field" \in Marked
    BY <1>1, Looking DEF Parsers, Marked
  <2> HIDE DEF par
  <2>. QED
    BY <1>1, <1>3, <2>1, HeadMarks
<1>. QED
  BY <1>2, <1>3, Zenon DEF HeaderFieldStart
LEMMA HeaderFieldHead ==
    ASSUME ParserInv, ParserInv', HeadInv, HeaderField PROVE HeadInv'
<1>1. Reading /\ parser.state = "s_header_field" /\ parser.state \in HeadStates
  BY DEF HeaderField, At, HeadStates
<1> DEFINE stop == SelectInSubSeq(stream.wire, p, fed, LAMBDA u : ~IsToken(u))
           last == IF stop = 0 THEN fed ELSE stop
           name == IF stop = p THEN parser.header_state ELSE "h_general"
           par == [Now EXCEPT !.nread = CountMore(last - p), !.header_state = name]
<1>2. stop = 0 \/ stop \in p..fed
  BY <1>1, NameEnd
<1>3. \/ Return([par EXCEPT !.errno = "HEADER_OVERFLOW"], FALSE, <<>>)
      \/ stop = 0 /\ Pass(par, fed + 1, FALSE, <<>>, marks)
      \/ /\ stop # 0
         /\ Pass([par EXCEPT !.state = "s_header_value_discard_ws"], stop + 1, FALSE,
                 Data("header_field", stop), Unmark("header_field"))
      \/ Return([par EXCEPT !.errno = "INVALID_HEADER_TOKEN"], FALSE, <<>>)
  BY Zenon DEF HeaderField
<1> HIDE DEF stop
<1>4. last \in p..fed /\ last = IF stop = 0 THEN fed ELSE stop
  BY <1>1, <1>2, Looking
<1>5. name \in HeaderStates
  <2>1. parser.header_state \in HeaderStates
    BY <1>1, Looking DEF Parsers
  <2>. QED
    BY <2>1 DEF HeaderStates
<1> HIDE DEF last, name
<1>6. /\ par \in Parsers /\ par.errno = "OK" /\ par.nread = Counted + (last - p)
      /\ par.nread \in Nat
  <2>1. CountMore(last - p) \in Nat /\ CountMore(last - p) = Counted + (last - p)
    BY <1>1, <1>4, Looking DEF CountMore
  <2>. QED
    BY ZenonT(30), <1>1, <1>5, <2>1, Looking DEF Parsers
<1> HIDE DEF par
<1>7. /\ p \in Nat /\ fed \in Nat /\ Counted \in Nat /\ p \in p..fed /\ p # 0
      /\ MarkedIn(parser.state, marks)
  BY <1>1, Looking
<1>8. ASSUME NEW e \in Errors, Return([par EXCEPT !.errno = e], FALSE, <<>>)
      PROVE  HeadInv'
  <2> DEFINE q == [par EXCEPT !.errno = e]
  <2>1. q \in Parsers /\ q.errno \notin {"OK", "PAUSED"}
    BY ZenonT(30), <1>6 DEF Parsers, Errors
  <2> HIDE DEF q
  <2>. QED
    BY <1>1, <1>8, <2>1, HeadReturns DEF q
<1>9. PICK no \in BOOLEAN : no = FALSE
  OBVIOUS
<1>10. CASE stop = 0 /\ Pass(par, fed + 1, FALSE, <<>>, marks)
  <2>1. fed + 1 \in p..(fed + 1) /\ fed + 1 # p
    BY <1>7
  <2>2. Measures(par, fed + 1, no)
    BY <1>4, <1>6, <1>7, <1>9, <1>10 DEF Measures, One
  <2>3. Call(<<>>)
    BY <1>10 DEF Pass, Paused
  <2>4. HeadTold' = HeadTold
    BY <2>3, HeadQuiet
  <2>5. \A m \in HeadElements : marks[m] \in {0, p, marks[m]}
    OBVIOUS
  <2>6. Pass(par, fed + 1, no, <<>>, marks)
    BY <1>9, <1>10
  <2>. QED
    BY <1>1, <1>6, <2>1, <2>2, <2>4, <2>5, <2>6, HeadGoesOn
<1>11. CASE /\ stop # 0
            /\ Pass([par EXCEPT !.state = "s_header_value_discard_ws"], stop + 1, FALSE,
                    Data("header_field", stop), Unmark("header_field"))
  <2> DEFINE q == [par EXCEPT !.state = "s_header_value_discard_ws"]
  <2>1. q.errno = "OK" /\ q.nread = Counted + (last - p) /\ q.nread \in Nat /\ q.state \in HeadStates
    BY <1>6 DEF Parsers, HeadStates
  <2> HIDE DEF q
  <2>2. PICK m \in HeadElements : m = "header_field"
    BY DEF HeadElements
  <2>3. marks[m] # 0
    <3>1. m \in Marked /\ m # "body" /\ parser.state \in MayMark[m]
      BY <1>1, <2>2 DEF MayMark, Marked
    <3>. QED
      BY <1>7, <3>1 DEF MarkedIn
  <2>4. stop \in p..fed /\ stop + 1 \in p..(fed + 1) /\ stop + 1 = (stop + 1) + One(no)
    BY <1>2, <1>7, <1>9, <1>11 DEF One
  <2>5. Measures(q, stop + 1, no)
    BY <1>4, <1>7, <1>9, <1>11, <2>1, <2>4 DEF Measures, One
  <2>6. Pass(q, stop + 1, no, Data(m, stop), Unmark(m))
    BY <1>9, <1>11, <2>2 DEF q
  <2>. QED
    BY <1>1, <2>1, <2>3, <2>4, <2>5, <2>6, HeadTells
<1>. QED
  BY <1>3, <1>8, <1>10, <1>11 DEF Errors

LEMMA HeaderValueStartHead ==
    ASSUME ParserInv, ParserInv', HeadInv, Reading, parser.state \in HeadStates,
           HeaderValueStart
    PROVE  HeadInv'
<1> DEFINE par == ValueStart(Now)
<1>1. par \in Values(Now) /\ Now.nread = Counted
  <2>1. Now \in Parsers /\ Now.errno = "OK" /\ Now.nread = Counted
    BY Looking DEF Parsers
  <2>. QED
    BY <2>1, ValueStartIs
<1>2. \/ par.errno = "OK" /\ Pass(par, p + 1, FALSE, <<>>, MARK("header_value"))
      \/ par.errno # "OK" /\ Return(par, FALSE, <<>>)
  BY DEF HeaderValueStart
<1> HIDE DEF par
<1>3. par \in Parsers /\ par.nread = Counted /\ par.errno # "PAUSED" /\ "header_value" \in Marked
  BY <1>1 DEF Values, Marked
<1>4. CASE par.errno # "OK" /\ Return(par, FALSE, <<>>)
  BY <1>3, <1>4, HeadReturns
<1>5. CASE par.errno = "OK" /\ Pass(par, p + 1, FALSE, <<>>, MARK("header_value"))
  BY <1>3, <1>5, HeadMarks
<1>. QED
  BY <1>2, <1>4, <1>5

LEMMA DiscardWsHead ==
    ASSUME ParserInv, ParserInv', HeadInv, DiscardWs \/ FoldedStart PROVE HeadInv'
<1>1. Reading /\ parser.state \in HeadStates
  BY DEF DiscardWs, FoldedStart, At, HeadStates
<1>2. CASE HeaderValueStart
  BY <1>1, <1>2, HeaderValueStartHead
<1>3. CASE DiscardWs /\ ~HeaderValueStart
  BY <1>1, <1>3, HeadGoes DEF DiscardWs
<1>. QED
  BY <1>2, <1>3 DEF FoldedStart

LEMMA ValueLwsHead ==
    ASSUME ParserInv, ParserInv', HeadInv, ValueLws PROVE HeadInv'
<1>1. Reading /\ parser.state \in HeadStates
  BY DEF ValueLws, At, HeadStates
<1> DEFINE hs == IF Now.header_state = "h_content_length_num"
                 THEN "h_content_length_ws" ELSE Now.header_state
           fs == Now.flags \cup HeaderFlags(parser.header_state)
           folded == [Now EXCEPT !.state = "s_header_value_start", !.header_state = hs]
           ended == [Now EXCEPT !.state = "s_header_field_start", !.flags = fs]
<1>2. Reexecute(folded) \/ Reexecute(ended)
  BY DEF ValueLws
<1> HIDE DEF hs, fs
<1>3. /\ folded.errno = "OK" /\ folded.nread = Counted
      /\ ended.errno = "OK" /\ ended.nread = Counted
  BY <1>1, Looking DEF Parsers
<1> HIDE DEF folded, ended
<1>. QED
  BY <1>1, <1>2, <1>3, HeadBreaksQuietly

LEMMA DiscardLwsHead ==
    ASSUME ParserInv, ParserInv', HeadInv, DiscardLws PROVE HeadInv'
<1>1. Reading /\ parser.state \in HeadStates
  BY DEF DiscardLws, At, HeadStates
<1>2. CASE Goto("s_header_value_discard_ws") \/ Error("INVALID_CONTENT_LENGTH")
  BY <1>1, <1>2, HeadGoes, HeadFails DEF Errors
<1> DEFINE fs == Now.flags \cup HeaderFlags(parser.header_state)
           par == [Now EXCEPT !.state = "s_header_field_start", !.flags = fs]
           c == [cb |-> "header_value", data |-> <<>>]
<1> HIDE DEF fs
<1>3. par.errno = "OK" /\ par.nread = Counted
  BY <1>1, Looking DEF Parsers
<1> HIDE DEF par
<1>4. CASE Pass(par, p, TRUE, <<c>>, marks)
  <2>1. c \in Events /\ c.cb \in HeadElements /\ Len(c.data) = 0
    BY DEF Events, Follows, HeadElements
  <2> HIDE DEF c
  <2>2. Call(<<c>>)
    BY <1>4 DEF Pass, Paused
  <2>3. HeadTold' = HeadTold
    BY <2>1, <2>2, HeadHears, HeadToldType
  <2>4. \A m \in HeadElements : marks[m] \in {0, p, marks[m]}
    OBVIOUS
  <2>. QED
    BY <1>1, <1>3, <1>4, <2>3, <2>4, HeadBreaks
<1>. QED
  BY <1>2, <1>4 DEF DiscardLws, par, fs
LEMMA HeaderValueHead ==
    ASSUME ParserInv, ParserInv', HeadInv, HeaderValue PROVE HeadInv'
<1>1. Reading /\ parser.state = "s_header_value" /\ parser.state \in HeadStates
  BY Zenon DEF HeaderValue, At, HeadStates
<1> DEFINE stop == SelectInSubSeq(stream.wire, p, fed, LAMBDA u : u \in {"CR", "LF"})
           last == IF stop = 0 THEN fed ELSE stop
           end == IF stop = 0 THEN fed + 1 ELSE stop
           value[i \in p..end] ==
               IF i = p THEN Now ELSE ValueUnit(value[i - 1], stream.wire[i - 1])
           v == value[end]
           par == [v EXCEPT !.nread = CountMore(last - p)]
           line == [par EXCEPT !.state = "s_header_almost_done"]
           full == par.nread > MaxHeaderSize
           tooLong == [par EXCEPT !.errno = "HEADER_OVERFLOW"]
           data == Data("header_value", stop)
           atCR == stop # 0 /\ stream.wire[stop] = "CR"
<1>2. stop = 0 \/ stop \in p..fed
  BY <1>1, LineEnd
<1>3. \/ v.errno # "OK" /\ Return(v, FALSE, <<>>)
      \/ Return(tooLong, FALSE, IF atCR THEN data ELSE <<>>)
      \/ v.errno = "OK" /\ stop = 0 /\ Pass(par, fed + 1, FALSE, <<>>, marks)
      \/ /\ v.errno = "OK" /\ stop # 0
         /\ IF atCR
            THEN Pass(line, stop + 1, FALSE, data, Unmark("header_value"))
            ELSE Pass(line, stop, TRUE, data, Unmark("header_value"))
  BY Zenon DEF HeaderValue
<1> HIDE DEF stop
<1>4. last \in p..fed /\ end \in p..(fed + 1) /\ last = IF stop = 0 THEN fed ELSE stop
  BY <1>1, <1>2, Looking
<1>5. v \in Values(Now)
  <2> HIDE DEF end
  <2>. QED
    BY <1>1, <1>4, ValueRuns
<1> HIDE DEF last, v
<1>6. v \in Parsers /\ v.errno \in {"OK"} \cup WrongValues
  BY <1>5 DEF Values, WrongValues
<1>7. CountMore(last - p) = Counted + (last - p) /\ CountMore(last - p) \in Nat
  BY <1>1, <1>4, Looking DEF CountMore
<1>8. /\ par \in Parsers /\ par.nread = Counted + (last - p) /\ par.nread \in Nat
      /\ par.errno = v.errno
  BY <1>6, <1>7 DEF Parsers
<1> HIDE DEF par
<1>9. /\ p \in Nat /\ fed \in Nat /\ Counted \in Nat /\ p \in p..fed /\ p # 0
      /\ MarkedIn(parser.state, marks)
  BY <1>1, Looking
<1>10. PICK no \in BOOLEAN, yes \in BOOLEAN : no = FALSE /\ yes = TRUE
  OBVIOUS
<1>11. CASE v.errno # "OK" /\ Return(v, FALSE, <<>>)
  BY <1>1, <1>6, <1>11, HeadReturns DEF WrongValues
<1>12. CASE Return(tooLong, FALSE, IF atCR THEN data ELSE <<>>)
  <2>1. tooLong \in Parsers /\ tooLong.errno \notin {"OK", "PAUSED"}
    BY ZenonT(30), <1>8 DEF Parsers
  <2> HIDE DEF tooLong, data, atCR
  <2>. QED
    BY <1>1, <1>12, <2>1, HeadReturns
<1>13. CASE v.errno = "OK" /\ stop = 0 /\ Pass(par, fed + 1, FALSE, <<>>, marks)
  <2>1. fed + 1 \in p..(fed + 1) /\ fed + 1 # p
    BY <1>9
  <2>2. Measures(par, fed + 1, no)
    BY <1>4, <1>8, <1>9, <1>10, <1>13 DEF Measures, One
  <2>3. Call(<<>>)
    BY <1>13 DEF Pass, Paused
  <2>4. HeadTold' = HeadTold
    BY <2>3, HeadQuiet
  <2>5. \A m \in HeadElements : marks[m] \in {0, p, marks[m]}
    OBVIOUS
  <2>6. Pass(par, fed + 1, no, <<>>, marks) /\ par.errno = "OK"
    BY <1>8, <1>10, <1>13
  <2>. QED
    BY <1>1, <1>8, <2>1, <2>2, <2>4, <2>5, <2>6, HeadGoesOn
<1>14. CASE /\ v.errno = "OK" /\ stop # 0
            /\ IF atCR
               THEN Pass(line, stop + 1, FALSE, data, Unmark("header_value"))
               ELSE Pass(line, stop, TRUE, data, Unmark("header_value"))
  <2>1. /\ line.errno = "OK" /\ line.nread = Counted + (stop - p) /\ line.nread \in Nat
        /\ line.state \in HeadStates
    BY <1>4, <1>8, <1>14 DEF Parsers, HeadStates
  <2> HIDE DEF line
  <2>2. PICK m \in HeadElements : m = "header_value"
    BY DEF HeadElements
  <2>3. marks[m] # 0
    <3>1. m \in Marked /\ m # "body" /\ parser.state \in MayMark[m]
      BY <1>1, <2>2 DEF MayMark, Marked
    <3>. QED
      BY <1>9, <3>1 DEF MarkedIn
  <2>4. /\ stop \in p..fed /\ stop \in p..(fed + 1) /\ stop + 1 \in p..(fed + 1)
        /\ stop + 1 = (stop + 1) + One(no) /\ stop + 1 = stop + One(yes)
    BY <1>2, <1>9, <1>10, <1>14 DEF One
  <2>5. Measures(line, stop + 1, no) /\ Measures(line, stop, yes)
    BY <1>9, <1>10, <2>1, <2>4 DEF Measures, One
  <2>6. CASE Pass(line, stop + 1, FALSE, data, Unmark("header_value"))
    <3>1. Pass(line, stop + 1, no, Data(m, stop), Unmark(m))
      BY <1>10, <2>2, <2>6
    <3>. QED
      BY <1>1, <2>1, <2>3, <2>4, <2>5, <3>1, HeadTells
  <2>7. CASE Pass(line, stop, TRUE, data, Unmark("header_value"))
    <3>1. Pass(line, stop, yes, Data(m, stop), Unmark(m))
      BY <1>10, <2>2, <2>7
    <3>. QED
      BY <1>1, <2>1, <2>3, <2>4, <2>5, <3>1, HeadTells
  <2> HIDE DEF data
  <2>. QED
    BY <1>14, <2>6, <2>7
<1>. QED
  BY Zenon, <1>3, <1>11, <1>12, <1>13, <1>14
\* The callbacks after a head or a trailer.
LEMMA HeadNotifies ==
    ASSUME ParserInv, ParserInv', HeadInv, Reading, NEW par, par.errno = "OK",
           par.state \notin HeadStates, NEW to, NEW again, NEW mk,
           NEW cb \in {"headers_complete", "chunk_complete", "message_complete"},
           Pass(par, to, again, Notify(cb), mk), par.state \in BetweenStates => ~again
    PROVE  HeadInv'
<1>1. cb \in DOMAIN Follows /\ Call(Notify(cb))
  BY DEF Follows, Pass, Paused
<1>2. PICK cs : cs = Notify(cb)
  OBVIOUS
<1>3. Call(cs) /\ Pass(par, to, again, cs, mk)
  BY <1>1, <1>2
<1>4. HeadTold' = HeadTold
  BY <1>1, <1>2, <1>3, HeadNotified
<1>. QED
  BY <1>3, <1>4, HeadStays

LEMMA HeadersAlmostDoneHead ==
    ASSUME ParserInv, ParserInv', HeadInv, HeadersAlmostDone PROVE HeadInv'
<1>1. Reading
  BY DEF HeadersAlmostDone, At
<1> DEFINE up == Upgrading \/ stream.answer = 2
           flags == IF stream.answer = 0 THEN Now.flags ELSE Now.flags \cup {"F_SKIPBODY"}
           done == [Now EXCEPT !.state = "s_message_done"]
           par == [Now EXCEPT !.state = "s_headers_done", !.stored = Counted,
                              !.flags = flags, !.upgrade = up]
<1>2. \/ Error("STRICT") \/ Error("UNEXPECTED_CONTENT_LENGTH")
      \/ Pass(done, p, TRUE, Notify("chunk_complete"), marks)
      \/ Pass(par, p, TRUE, Notify("headers_complete"), marks)
  BY Zenon DEF HeadersAlmostDone
<1> HIDE DEF up, flags
<1>3. /\ done.errno = "OK" /\ done.state = "s_message_done"
      /\ par.errno = "OK" /\ par.state = "s_headers_done"
  BY <1>1, Looking DEF Parsers
<1> HIDE DEF done, par
<1>4. /\ done.state \notin HeadStates /\ par.state \notin HeadStates
      /\ done.state \notin BetweenStates /\ par.state \notin BetweenStates
  BY <1>3 DEF HeadStates, UrlStates, BetweenStates
<1>5. CASE Error("STRICT") \/ Error("UNEXPECTED_CONTENT_LENGTH")
  BY <1>1, <1>5, HeadFails DEF Errors
<1>6. CASE Pass(done, p, TRUE, Notify("chunk_complete"), marks)
  BY <1>1, <1>3, <1>4, <1>6, HeadNotifies
<1>7. CASE Pass(par, p, TRUE, Notify("headers_complete"), marks)
  BY <1>1, <1>3, <1>4, <1>7, HeadNotifies
<1>. QED
  BY <1>2, <1>5, <1>6, <1>7

\* The end of a message.
LEMMA HeadCompletes ==
    ASSUME ParserInv, ParserInv', HeadInv, Reading, NEW par \in Parsers, par.errno = "OK",
           NEW exits, MessageComplete(par, exits)
    PROVE  HeadInv'
<1> DEFINE next == [par EXCEPT !.state = NEW_MESSAGE(par)]
<1>1. \/ Return(next, p = fed, Notify("message_complete"))
      \/ Pass(next, p + 1, FALSE, Notify("message_complete"), marks)
  BY DEF MessageComplete
<1>2. NEW_MESSAGE(par) \in BetweenStates
  BY DEF NEW_MESSAGE, start_state, BetweenStates
<1>3. /\ next \in Parsers /\ next.errno = "OK" /\ next.state \in BetweenStates
  <2>1. NEW_MESSAGE(par) \in UrlStates \cup BodyStates \cup HeaderLineStates
    BY <1>2 DEF BetweenStates, HeaderLineStates
  <2>. QED
    BY <1>2, <2>1 DEF Parsers
<1>4. next.state \notin HeadStates
  BY <1>3 DEF BetweenStates, HeadStates, UrlStates
<1> HIDE DEF next
<1>5. CASE Pass(next, p + 1, FALSE, Notify("message_complete"), marks)
  BY <1>3, <1>4, <1>5, HeadNotifies
<1>6. CASE Return(next, p = fed, Notify("message_complete"))
  <2>1. PICK cb \in DOMAIN Follows : cb = "message_complete"
    BY DEF Follows
  <2>2. PICK cs : cs = Notify(cb)
    OBVIOUS
  <2>3. PICK all : all = (p = fed)
    OBVIOUS
  <2>4. Return(next, all, cs)
    BY <1>6, <2>1, <2>2, <2>3
  <2>5. Call(cs)
    BY <2>4 DEF Return
  <2>6. HeadTold' = HeadTold
    BY <2>1, <2>2, <2>5, HeadNotified
  <2>. QED
    BY <1>3, <1>4, <2>4, <2>6, HeadReturns
<1>. QED
  BY <1>1, <1>5, <1>6

LEMMA HeadersDoneHead ==
    ASSUME ParserInv, ParserInv', HeadInv, HeadersDone PROVE HeadInv'
<1>1. Reading
  BY DEF HeadersDone, At
<1> DEFINE par == Restarted
           chunked == "F_CHUNKED" \in par.flags
           skips == "F_SKIPBODY" \in par.flags
           hasBody == chunked \/ par.content_length \notin {0, ULLONG_MAX}
           exits == par.upgrade /\ (par.method = "CONNECT" \/ skips \/ ~hasBody)
<1>2. \/ MessageComplete(par, TRUE) \/ MessageComplete(par, FALSE)
      \/ Return([par EXCEPT !.errno = "INVALID_TRANSFER_ENCODING"], FALSE, <<>>)
      \/ Break([par EXCEPT !.state = "s_chunk_size_start"])
      \/ Break([par EXCEPT !.state = "s_body_identity_eof"])
      \/ Break([par EXCEPT !.state = "s_body_identity"])
  BY Zenon DEF HeadersDone
<1>3. par \in Parsers /\ par.errno = "OK"
  BY <1>1, RestartedType
<1> HIDE DEF par
<1>4. CASE MessageComplete(par, TRUE) \/ MessageComplete(par, FALSE)
  BY <1>1, <1>3, <1>4, HeadCompletes
<1>5. CASE Return([par EXCEPT !.errno = "INVALID_TRANSFER_ENCODING"], FALSE, <<>>)
  <2> DEFINE q == [par EXCEPT !.errno = "INVALID_TRANSFER_ENCODING"]
  <2>1. q \in Parsers /\ q.errno = "INVALID_TRANSFER_ENCODING"
    BY <1>3 DEF Parsers
  <2> HIDE DEF q
  <2>. QED
    BY <1>1, <1>5, <2>1, HeadReturns DEF q
<1>6. ASSUME NEW s \in {"s_chunk_size_start", "s_body_identity_eof", "s_body_identity"},
             Break([par EXCEPT !.state = s])
      PROVE  HeadInv'
  <2> DEFINE q == [par EXCEPT !.state = s]
  <2>1. q.errno = "OK" /\ q.state = s
    BY <1>3 DEF Parsers
  <2> HIDE DEF q
  <2>2. q.state \notin HeadStates
    BY <2>1 DEF HeadStates, UrlStates
  <2>3. Pass(q, p + 1, FALSE, <<>>, marks)
    BY <1>6 DEF Break, q
  <2>. QED
    BY <1>1, <2>1, <2>2, <2>3, HeadOutside
<1>. QED
  BY <1>2, <1>4, <1>5, <1>6

LEMMA MessageDoneHead ==
    ASSUME ParserInv, ParserInv', HeadInv, MessageDone PROVE HeadInv'
<1>1. Reading /\ MessageComplete(Now, parser.upgrade)
  BY DEF MessageDone, At
<1>2. Now \in Parsers /\ Now.errno = "OK"
  BY <1>1, Looking DEF Parsers
<1>. QED
  BY <1>1, <1>2, HeadCompletes
\* The body is not a part of the head.
LEMMA HeadOfBody ==
    ASSUME ParserInv, ParserInv', HeadInv, Reading, NEW par, par.errno = "OK",
           par.state \notin HeadStates, NEW to, NEW again, NEW mk,
           NEW start \in 1..fed, NEW at \in 0..fed, NEW cs,
           cs = <<[cb |-> "body", data |-> SubSeq(stream.wire, start, at)]>>,
           Pass(par, to, again, cs, mk), par.state \notin BetweenStates
    PROVE  HeadInv'
<1> DEFINE c == [cb |-> "body", data |-> SubSeq(stream.wire, start, at)]
<1>1. c \in Events /\ c.cb = "body" /\ cs = <<c>>
  <2>1. start \in Nat /\ at \in Nat /\ start >= 1 /\ at <= Len(stream.wire)
    BY Looking
  <2>2. \A i \in start..at : stream.wire[i] \in STRING
    BY <2>1, Streamed DEF ParserInv
  <2>3. SubSeq(stream.wire, start, at) \in Seq(STRING)
    BY <2>1, <2>2, SubSeqProperties
  <2>. QED
    BY <2>3 DEF Events, Follows
<1> HIDE DEF c
<1>2. Call(<<c>>)
  BY <1>1 DEF Pass, Paused
<1>3. HeadTold' = HeadTold
  BY <1>1, <1>2, HeadHears DEF HeadElements
<1>. QED
  BY <1>3, HeadStays

LEMMA BodyIdentityHead ==
    ASSUME ParserInv, ParserInv', HeadInv, BodyIdentity PROVE HeadInv'
<1>1. Reading /\ parser.state = "s_body_identity"
  BY DEF BodyIdentity, At
<1> DEFINE mark == MARK("body")["body"]
           par == [Now EXCEPT !.content_length = @ - ToRead]
           q == [par EXCEPT !.state = "s_message_done"]
           cs == <<[cb |-> "body", data |-> SubSeq(stream.wire, mark, p + ToRead - 1)]>>
<1>2. \/ Pass(q, p + ToRead - 1, TRUE, cs, Unmark("body"))
      \/ Pass(par, p + ToRead, FALSE, <<>>, MARK("body"))
  BY DEF BodyIdentity
<1>3. parser.content_length \notin {0, ULLONG_MAX}
  BY <1>1, Looking DEF Fits, Framed
<1>4. mark \in 1..fed
  BY <1>1, BodyMarks DEF MayMark
<1> HIDE DEF mark
<1>5. par.errno = "OK" /\ par.state = "s_body_identity"
  BY <1>1, Looking DEF Parsers
<1>6. q.errno = "OK" /\ q.state = "s_message_done"
  BY <1>1, Looking DEF Parsers
<1> HIDE DEF par, q
<1>7. /\ par.state \notin HeadStates /\ q.state \notin HeadStates
      /\ q.state \notin BetweenStates
  BY <1>5, <1>6 DEF HeadStates, UrlStates, BetweenStates
<1>8. CASE Pass(q, p + ToRead - 1, TRUE, cs, Unmark("body"))
  <2>1. p + ToRead - 1 \in 0..fed
    BY <1>1, <1>3, ToReadIs
  <2>2. PICK at \in 0..fed : at = p + ToRead - 1
    BY <2>1
  <2>3. PICK ds : ds = cs
    OBVIOUS
  <2>4. /\ ds = <<[cb |-> "body", data |-> SubSeq(stream.wire, mark, at)]>>
        /\ Pass(q, at, TRUE, ds, Unmark("body"))
    BY <1>8, <2>2, <2>3
  <2> HIDE DEF cs
  <2>. QED
    BY <1>1, <1>4, <1>6, <1>7, <2>4, HeadOfBody
<1>9. CASE Pass(par, p + ToRead, FALSE, <<>>, MARK("body"))
  BY <1>1, <1>5, <1>7, <1>9, HeadOutside
<1>. QED
  BY <1>2, <1>8, <1>9

LEMMA BodyIdentityEofHead ==
    ASSUME ParserInv, ParserInv', HeadInv, BodyIdentityEof PROVE HeadInv'
<1>1. /\ Reading /\ parser.state = "s_body_identity_eof"
      /\ Pass(Now, fed + 1, FALSE, <<>>, MARK("body"))
  BY DEF BodyIdentityEof, At
<1>2. Now.errno = "OK" /\ Now.state \notin HeadStates
  BY <1>1, Looking DEF Parsers, HeadStates, UrlStates
<1>. QED
  BY <1>1, <1>2, HeadOutside

\* The line before a chunk.
LEMMA ChunkLineHead ==
    ASSUME ParserInv, ParserInv', HeadInv, Reading,
           parser.state \in {"s_chunk_size_start", "s_chunk_size", "s_chunk_parameters"},
           NEW q, q.errno = "OK",
           q.state \in {"s_chunk_size", "s_chunk_parameters", "s_chunk_size_almost_done"},
           Break(q)
    PROVE  HeadInv'
<1>1. q.state \notin HeadStates
  BY DEF HeadStates, UrlStates
<1>. QED
  BY <1>1, HeadOutside DEF Break

LEMMA ChunkSizeStartHead ==
    ASSUME ParserInv, ParserInv', HeadInv, ChunkSizeStart PROVE HeadInv'
<1>1. Reading /\ parser.state = "s_chunk_size_start"
  BY DEF ChunkSizeStart, At
<1> DEFINE q == [Now EXCEPT !.state = "s_chunk_size", !.content_length = Digit[Unit]]
<1>2. q.errno = "OK" /\ q.state = "s_chunk_size"
  BY <1>1, Looking DEF Parsers
<1>3. Break(q) \/ Error("INVALID_CHUNK_SIZE")
  BY DEF ChunkSizeStart
<1> HIDE DEF q
<1>. QED
  BY <1>1, <1>2, <1>3, ChunkLineHead, HeadFails DEF Errors

LEMMA ChunkSizeHead ==
    ASSUME ParserInv, ParserInv', HeadInv, ChunkSize PROVE HeadInv'
<1>1. Reading /\ parser.state = "s_chunk_size"
  BY DEF ChunkSize, At
<1> DEFINE n == TimesPlus(Now.content_length, HexBase, Digit[Unit])
           par == [Now EXCEPT !.content_length = n]
<1>2. \/ Goto("s_chunk_size_almost_done") \/ Goto("s_chunk_parameters")
      \/ Error("INVALID_CHUNK_SIZE") \/ Error("INVALID_CONTENT_LENGTH") \/ Break(par)
  BY DEF ChunkSize
<1>3. CASE Error("INVALID_CHUNK_SIZE") \/ Error("INVALID_CONTENT_LENGTH")
  BY <1>1, <1>3, HeadFails DEF Errors
<1>4. ASSUME NEW s \in {"s_chunk_parameters", "s_chunk_size_almost_done"}, Goto(s)
      PROVE  HeadInv'
  <2> DEFINE q == [Now EXCEPT !.state = s]
  <2>1. q.errno = "OK" /\ q.state = s
    BY <1>1, Looking DEF Parsers
  <2>2. Break(q)
    BY <1>4 DEF Goto
  <2> HIDE DEF q
  <2>. QED
    BY <1>1, <2>1, <2>2, ChunkLineHead
<1>5. CASE Break(par)
  <2>1. par.errno = "OK" /\ par.state = "s_chunk_size"
    BY <1>1, Looking DEF Parsers
  <2> HIDE DEF par
  <2>. QED
    BY <1>1, <1>5, <2>1, ChunkLineHead
<1>. QED
  BY <1>2, <1>3, <1>4, <1>5

LEMMA ChunkParametersHead ==
    ASSUME ParserInv, ParserInv', HeadInv, ChunkParameters PROVE HeadInv'
<1>1. Reading /\ parser.state = "s_chunk_parameters"
  BY DEF ChunkParameters, At
<1> DEFINE q == [Now EXCEPT !.state = "s_chunk_size_almost_done"]
<1>2. Break(Now) \/ Break(q)
  BY DEF ChunkParameters, Goto
<1>3. /\ Now.errno = "OK" /\ Now.state = "s_chunk_parameters"
      /\ q.errno = "OK" /\ q.state = "s_chunk_size_almost_done"
  BY <1>1, Looking DEF Parsers
<1> HIDE DEF q
<1>. QED
  BY <1>1, <1>2, <1>3, ChunkLineHead

LEMMA ChunkSizeAlmostDoneHead ==
    ASSUME ParserInv, ParserInv', HeadInv, ChunkSizeAlmostDone PROVE HeadInv'
<1>1. Reading /\ parser.state \in UnmarkedStates
  BY DEF ChunkSizeAlmostDone, At, UnmarkedStates
<1> DEFINE par == Restarted
           trailer == [par EXCEPT !.flags = @ \cup {"F_TRAILING"},
                                  !.state = "s_header_field_start"]
           data == [par EXCEPT !.state = "s_chunk_data"]
<1>2. \/ Error("STRICT")
      \/ Pass(trailer, p + 1, FALSE, Notify("chunk_header"), marks)
      \/ Pass(data, p + 1, FALSE, Notify("chunk_header"), marks)
  BY DEF ChunkSizeAlmostDone
<1>3. par \in Parsers /\ par.errno = "OK" /\ par.nread = 0
  BY <1>1, RestartedType
<1> HIDE DEF par
<1>4. /\ trailer.errno = "OK" /\ trailer.nread \in Nat /\ trailer.state \notin BetweenStates
      /\ data.errno = "OK" /\ data.nread \in Nat /\ data.state \notin BetweenStates
  BY <1>3 DEF Parsers, BetweenStates
<1> HIDE DEF trailer, data
<1>5. CASE Error("STRICT")
  BY <1>1, <1>5, HeadFails DEF Errors
<1>6. PICK cb \in {"message_begin", "chunk_header"} : cb = "chunk_header"
  OBVIOUS
<1>7. CASE \/ Pass(trailer, p + 1, FALSE, Notify("chunk_header"), marks)
           \/ Pass(data, p + 1, FALSE, Notify("chunk_header"), marks)
  <2>1. \/ Pass(trailer, p + 1, FALSE, Notify(cb), marks)
        \/ Pass(data, p + 1, FALSE, Notify(cb), marks)
    BY <1>6, <1>7
  <2>. QED
    BY <1>1, <1>4, <2>1, HeadBeginsHere
<1>. QED
  BY <1>2, <1>5, <1>7

LEMMA ChunkDataHead ==
    ASSUME ParserInv, ParserInv', HeadInv, ChunkData PROVE HeadInv'
<1>1. Reading /\ parser.state = "s_chunk_data"
  BY DEF ChunkData, At
<1> DEFINE n == Now.content_length - ToRead
           par == [Now EXCEPT !.content_length = n]
           q == [par EXCEPT !.state = "s_chunk_data_almost_done"]
<1>2. \/ Pass(q, p + ToRead, FALSE, <<>>, MARK("body"))
      \/ Pass(par, p + ToRead, FALSE, <<>>, MARK("body"))
  BY DEF ChunkData
<1> HIDE DEF n
<1>3. /\ par.errno = "OK" /\ par.state = "s_chunk_data"
      /\ q.errno = "OK" /\ q.state = "s_chunk_data_almost_done"
  BY <1>1, Looking DEF Parsers
<1> HIDE DEF par, q
<1>4. par.state \notin HeadStates /\ q.state \notin HeadStates
  BY <1>3 DEF HeadStates, UrlStates
<1>. QED
  BY <1>1, <1>2, <1>3, <1>4, HeadOutside

LEMMA ChunkDataAlmostDoneHead ==
    ASSUME ParserInv, ParserInv', HeadInv, ChunkDataAlmostDone PROVE HeadInv'
<1>1. Reading /\ parser.state = "s_chunk_data_almost_done"
  BY DEF ChunkDataAlmostDone, At
<1> DEFINE par == [Now EXCEPT !.state = "s_chunk_data_done"]
<1>2. Error("STRICT") \/ Pass(par, p + 1, FALSE, Data("body", p), Unmark("body"))
  BY DEF ChunkDataAlmostDone
<1>3. par.errno = "OK" /\ par.state = "s_chunk_data_done"
  BY <1>1, Looking DEF Parsers
<1> HIDE DEF par
<1>4. par.state \notin HeadStates /\ par.state \notin BetweenStates
  BY <1>3 DEF HeadStates, UrlStates, BetweenStates
<1>5. CASE Error("STRICT")
  BY <1>1, <1>5, HeadFails DEF Errors
<1>6. CASE Pass(par, p + 1, FALSE, Data("body", p), Unmark("body")) /\ marks["body"] = 0
  <2>1. Pass(par, p + 1, FALSE, <<>>, Unmark("body"))
    BY <1>6 DEF Data
  <2>. QED
    BY <1>1, <1>3, <1>4, <2>1, HeadOutside
<1>7. CASE Pass(par, p + 1, FALSE, Data("body", p), Unmark("body")) /\ marks["body"] # 0
  <2>1. marks["body"] \in 1..fed /\ p - 1 \in 0..fed
    BY <1>1, <1>7, Looking DEF Marked
  <2>2. PICK start \in 1..fed : start = marks["body"]
    BY <2>1
  <2>3. PICK at \in 0..fed : at = p - 1
    BY <2>1
  <2>4. PICK cs : cs = <<[cb |-> "body", data |-> SubSeq(stream.wire, start, at)]>>
    OBVIOUS
  <2>5. Pass(par, p + 1, FALSE, cs, Unmark("body"))
    BY <1>7, <2>2, <2>3, <2>4 DEF Data
  <2>. QED
    BY <1>1, <1>3, <1>4, <2>4, <2>5, HeadOfBody
<1>. QED
  BY <1>2, <1>5, <1>6, <1>7

LEMMA ChunkDataDoneHead ==
    ASSUME ParserInv, ParserInv', HeadInv, ChunkDataDone PROVE HeadInv'
<1>1. Reading /\ parser.state = "s_chunk_data_done"
  BY DEF ChunkDataDone, At
<1> DEFINE par == [Restarted EXCEPT !.state = "s_chunk_size_start"]
<1>2. Error("STRICT") \/ Pass(par, p + 1, FALSE, Notify("chunk_complete"), marks)
  BY DEF ChunkDataDone
<1>3. par.errno = "OK" /\ par.state = "s_chunk_size_start"
  BY <1>1, RestartedType DEF Parsers
<1> HIDE DEF par
<1>4. par.state \notin HeadStates
  BY <1>3 DEF HeadStates, UrlStates
<1>. QED
  BY <1>1, <1>2, <1>3, <1>4, HeadNotifies, HeadFails DEF Errors
\* Calls and their ends.
LEMMA HeaderOverflowHead ==
    ASSUME ParserInv, ParserInv', HeadInv, HeaderOverflow PROVE HeadInv'
BY HeadFails DEF HeaderOverflow, Errors

\* A call that finds the head as it was left: nothing of what it is given has
\* been read yet.
LEMMA ExecuteHead ==
    ASSUME ParserInv, ParserInv', HeadInv, NEW n, http_parser_execute(n)
    PROVE  HeadInv'
<1>1. /\ p = 0 /\ p' = fed + 1 /\ marks' = MarksAt(parser.state, fed + 1)
      /\ UNCHANGED <<stream, redo, parser, heard>>
  BY DEF http_parser_execute, Callable
<1>2. HeadTold' = HeadTold /\ HeadTold \in Nat /\ fed \in Nat
  BY <1>1, HeadToldType, SamePlaces DEF HeadTold
<1>3. One(redo) = 0 /\ parser.nread \in Nat
  <2>1. ~redo /\ parser \in Parsers
    BY <1>1 DEF ParserInv, CallOK, TypeOK
  <2>2. parser.nread \in Nat
    BY <2>1 DEF Parsers
  <2>. QED
    BY <2>1, <2>2 DEF One
<1>4. \A m \in HeadElements : marks'[m] \in {0, p'}
  <2>1. HeadElements \subseteq Marked
    BY DEF HeadElements, Marked
  <2>. QED
    BY <1>1, <2>1, Zenon DEF MarksAt
<1>5. ASSUME HeadCounted(parser, HeadTold, p, redo, marks)
      PROVE  HeadCounted(parser', HeadTold', p', redo', marks')
  <2>1. ASSUME parser.state \in HeadStates
        PROVE  HeadTold + One(redo) <= parser.nread
    BY <1>5, <2>1 DEF HeadCounted
  <2>2. p' \in Nat
    BY <1>1, <1>2
  <2>3. ASSUME NEW m \in HeadElements, marks'[m] # 0
        PROVE  HeadTold + (p' - marks'[m]) + One(redo) = HeadTold + One(redo)
    BY <1>2, <1>3, <1>4, <2>2, <2>3
  <2>4. ~redo'
    BY <1>1 DEF ParserInv, CallOK
  <2>. QED
    BY <1>1, <1>2, <2>1, <2>3, <2>4 DEF HeadCounted
<1>. QED
  BY <1>1, <1>2, <1>5 DEF HeadInv

LEMMA ResumeHead == ASSUME ParserInv, HeadInv, Resume PROVE HeadInv'
<1>1. parser.errno = "PAUSED" /\ stream' = stream
  BY DEF Resume
<1>2. stream.pauses
  BY <1>1 DEF HeadInv
<1>. QED
  BY <1>1, <1>2, HeadOfPausing

LEMMA AtEofHead == ASSUME ParserInv, ParserInv', HeadInv, AtEof PROVE HeadInv'
<1>1. /\ p = 0 /\ parser.errno = "OK"
      /\ UNCHANGED <<stream, p, redo, marks>>
  BY DEF AtEof, Callable
<1>2. CASE stream.pauses
  BY <1>1, <1>2, HeadOfPausing
<1>3. CASE /\ ~stream.pauses /\ parser.state = "s_body_identity_eof"
           /\ heard' = heard \o Notify("message_complete")
           /\ parser' = [parser EXCEPT !.errno = IF stream.pauses THEN "PAUSED" ELSE @]
  <2>1. parser \in Parsers /\ heard \in Seq(Events)
    BY DEF ParserInv, TypeOK
  <2>2. parser'.errno = "OK" /\ parser'.state = "s_body_identity_eof"
    BY <1>1, <1>3, <2>1 DEF Parsers
  <2>3. PICK c \in Events : c.cb = "message_complete" /\ Notify("message_complete") = <<c>>
    <3>1. PICK cb \in DOMAIN Follows : cb = "message_complete"
      BY DEF Follows
    <3>. QED
      BY <3>1, NotifyType DEF Notify
  <2>4. heard' = Hear(heard, c)
    <3>1. heard' = heard \o <<c>>
      BY <1>3, <2>3
    <3>2. heard' = Append(heard, c)
      BY <2>1, <3>1
    <3>3. c.cb \notin Marked
      BY <2>3 DEF Marked
    <3>. QED
      BY <3>2, <3>3, Zenon DEF Hear
  <2>5. HeadTold' = TellMore(HeadTold, c)
    BY <2>1, <2>4, HeadGrows DEF HeadTold
  <2>6. HeadTold' = HeadTold
    BY <2>3, <2>5 DEF TellMore, HeadElements
  <2>7. parser'.state \notin HeadStates
    BY <2>2 DEF HeadStates, UrlStates
  <2>. QED
    BY <1>1, <1>3, <2>2, <2>6, <2>7 DEF HeadInv, HeadCounted
<1>4. CASE UNCHANGED <<parser, heard>>
  BY <1>1, <1>4 DEF HeadInv, HeadTold
<1>5. CASE ~stream.pauses /\ parser' = [parser EXCEPT !.errno = "INVALID_EOF_STATE"]
  <2>1. parser'.errno = "INVALID_EOF_STATE"
    BY <1>5 DEF ParserInv, TypeOK, Parsers
  <2>. QED
    BY <1>1, <2>1 DEF HeadInv
<1>. QED
  BY <1>2, <1>3, <1>4, <1>5, Zenon DEF AtEof

LEMMA EndOfPieceHead == ASSUME ParserInv, ParserInv', HeadInv, EndOfPiece PROVE HeadInv'
<1> DEFINE cs == Data("header_field", p) \o Data("header_value", p)
                    \o Data("url", p) \o Data("body", p) \o Data("status", p)
<1>1. /\ p = fed + 1
      /\ \/ Pauses(cs) /\ Paused(parser, p, cs)
         \/ ~Pauses(cs) /\ Return(parser, TRUE, cs)
  BY DEF EndOfPiece
<1>2. \/ cs = <<>>
      \/ \E m \in Marked, c \in Events :
             /\ parser.state \in MayMark[m] /\ marks[m] # 0 /\ c.cb = m
             /\ Data(m, p) = <<c>> /\ cs = <<c>>
  BY <1>1, LeftAtEnd
<1> HIDE DEF cs
<1>3. stream' = stream /\ Call(cs)
  BY <1>1 DEF Paused, Return
<1>4. CASE stream.pauses
  BY <1>3, <1>4, HeadOfPausing
<1>5. ASSUME ~stream.pauses, HeadTold' \in Nat,
             parser.state \in HeadStates => HeadTold' <= parser.nread,
             parser.state \notin HeadStates => HeadTold' <= MaxHeaderSize
      PROVE  HeadInv'
  <2>1. /\ parser' = [parser EXCEPT !.stored = parser.nread] /\ redo' = FALSE
        /\ marks' = NoMarks /\ over' = over
    BY <1>1, <1>5 DEF Pauses, Return
  <2>2. parser \in Parsers /\ parser.errno = "OK" /\ parser.nread <= MaxHeaderSize
    <3>1. p # 0
      BY <1>1, SamePlaces
    <3>. QED
      BY <3>1 DEF ParserInv, CallOK, TypeOK, Fits, Counts
  <2>3. /\ parser'.errno = "OK" /\ parser'.state = parser.state
        /\ parser'.nread = parser.nread /\ parser.nread \in Nat
    BY <2>1, <2>2 DEF Parsers
  <2>4. One(redo') = 0
    BY <2>1 DEF One
  <2>5. \A m \in HeadElements : marks'[m] = 0
    BY <2>1 DEF NoMarks, HeadElements, Marked
  <2>6. HeadTold' <= MaxHeaderSize
    BY <1>5, <2>2, <2>3, Numbers
  <2>7. HeadCounted(parser', HeadTold', p', redo', marks')
    BY <1>5, <2>1, <2>3, <2>4, <2>5 DEF HeadCounted
  <2>. QED
    BY <2>3, <2>6, <2>7 DEF HeadInv
<1>6. HeadTold \in Nat /\ p \in Nat /\ p # 0 /\ p <= Len(stream.wire) + 1
  BY <1>1, HeadToldType, SamePlaces
<1>7. /\ One(redo) \in {0, 1} /\ parser.errno = "OK" /\ parser.nread \in Nat
  <2>1. parser.errno = "OK" /\ parser \in Parsers
    BY <1>6 DEF ParserInv, CallOK, TypeOK
  <2>. QED
    BY <2>1 DEF One, Parsers
<1>8. ASSUME ~stream.pauses
      PROVE  HeadTold <= MaxHeaderSize /\ HeadCounted(parser, HeadTold, p, redo, marks)
  BY <1>7, <1>8 DEF HeadInv
<1>9. CASE cs = <<>> /\ ~stream.pauses
  <2>1. HeadTold' = HeadTold
    BY <1>3, <1>9, HeadQuiet
  <2>2. parser.state \in HeadStates => HeadTold + One(redo) <= parser.nread
    BY <1>8, <1>9 DEF HeadCounted
  <2>3. parser.state \in HeadStates => HeadTold <= parser.nread
    BY <1>6, <1>7, <2>2
  <2>. QED
    BY <1>5, <1>6, <1>8, <1>9, <2>1, <2>3
<1>10. ASSUME ~stream.pauses, NEW m \in Marked, NEW c \in Events, parser.state \in MayMark[m],
              marks[m] # 0, c.cb = m, Data(m, p) = <<c>>, cs = <<c>>
       PROVE  HeadInv'
  <2>1. Call(<<c>>)
    BY <1>3, <1>10
  <2>2. /\ c.cb \in HeadElements => HeadTold' = HeadTold + Len(c.data)
        /\ c.cb \notin HeadElements \cup {"message_begin", "chunk_header"} =>
                HeadTold' = HeadTold
    BY <2>1, HeadHears
  <2>3. marks[m] \in Nat /\ Len(c.data) = IF marks[m] <= p - 1 THEN p - marks[m] ELSE 0
    BY <1>6, <1>10, DataLength
  <2>4. CASE m \in HeadElements
    <3>1. PICK k \in Nat : k = marks[m]
      BY <2>3
    <3>2. HeadTold' = HeadTold + Len(c.data) /\ Len(c.data) = IF k <= p - 1 THEN p - k ELSE 0
      BY <1>10, <2>2, <2>3, <2>4, <3>1
    <3>3. HeadTold' \in Nat
      BY <1>6, <3>2
    <3>4. parser.state \in HeadStates
      BY <1>10, <2>4 DEF HeadElements, MayMark, HeadStates
    <3>5. /\ HeadTold + One(redo) <= parser.nread
          /\ HeadTold + (p - k) + One(redo) <= parser.nread
      BY <1>8, <1>10, <2>4, <3>1, <3>4 DEF HeadCounted
    <3>6. HeadTold' <= parser.nread
      BY <1>6, <1>7, <3>2, <3>5
    <3>. QED
      BY <1>5, <1>10, <3>3, <3>4, <3>6
  <2>5. CASE m = "body"
    <3>1. HeadTold' = HeadTold
      BY <1>10, <2>2, <2>5 DEF HeadElements
    <3>2. parser.state \notin HeadStates
      BY <1>10, <2>5 DEF MayMark, HeadStates, UrlStates
    <3>. QED
      BY <1>5, <1>6, <1>8, <1>10, <3>1, <3>2
  <2>. QED
    BY <2>4, <2>5 DEF Marked, HeadElements
<1>. QED
  BY <1>2, <1>4, <1>9, <1>10
LEMMA InitHead == Init => HeadInv
<1> SUFFICES ASSUME Init PROVE HeadInv
  OBVIOUS
<1>1. heard = <<>> /\ parser.errno = "OK" /\ parser.state \in BetweenStates /\ ~redo
  BY DEF Init, BetweenStates
<1>2. parser.state \notin HeadStates
  BY <1>1 DEF BetweenStates, HeadStates, UrlStates
<1>3. HeadTold = 0
  <2>1. heard \in Seq(Events) /\ Len(heard) = 0
    BY <1>1
  <2>2. \E f : Sizes(f, heard)
    BY <2>1, SizesExist
  <2>3. PICK f : Sizes(f, heard)
    BY <2>2
  <2>4. HeadSize(heard) = f[0] /\ f[0] = 0
    BY <2>1, <2>3, HeadSizeIs DEF Sizes
  <2>. QED
    BY <2>4 DEF HeadTold
<1>. QED
  BY <1>1, <1>2, <1>3, Numbers DEF HeadInv, HeadCounted

LEMMA HeadStepInv == ParserInv /\ HeadInv /\ [Next]_vars => HeadInv'
<1> SUFFICES ASSUME ParserInv, HeadInv, [Next]_vars PROVE HeadInv'
  OBVIOUS
<1>1. ParserInv'
  BY StepInv
<1>2. CASE \E n \in stream.pieces \cup {Left} : http_parser_execute(n)
  BY <1>1, <1>2, ExecuteHead
<1>3. CASE Resume \/ AtEof \/ EndOfPiece \/ HeaderOverflow
  BY <1>1, <1>3, ResumeHead, AtEofHead, EndOfPieceHead, HeaderOverflowHead
<1>4. CASE StatusLine
  BY <1>1, <1>4, StartResHead, ResHHead, SimpleHeads, FirstStatusCodeHead, StatusStartHead, StatusHead
     DEF StatusLine
<1>5. CASE RequestLine
  BY <1>1, <1>5, DeadHead, StartReqOrResHead, StartReqHead, SimpleHeads, UrlStartHead,
     UrlCharHead, UrlEndHead, HttpVersionHead DEF RequestLine
<1>6. CASE Headers
  BY <1>1, <1>6, HeaderFieldStartHead, HeaderFieldHead, DiscardWsHead, HeaderValueHead,
     SimpleHeads, ValueLwsHead, DiscardLwsHead, HeadersAlmostDoneHead DEF Headers
<1>7. CASE Bodies
  BY <1>1, <1>7, HeadersDoneHead, BodyIdentityHead, BodyIdentityEofHead, MessageDoneHead
     DEF Bodies
<1>8. CASE Chunks
  BY <1>1, <1>8, ChunkSizeStartHead, ChunkSizeHead, ChunkParametersHead,
     ChunkSizeAlmostDoneHead, ChunkDataHead, ChunkDataAlmostDoneHead, ChunkDataDoneHead
     DEF Chunks
<1>9. CASE UNCHANGED vars
  BY <1>9 DEF vars, HeadInv, HeadTold
<1>. QED
  BY <1>2, <1>3, <1>4, <1>5, <1>6, <1>7, <1>8, <1>9 DEF Next

LEMMA AlwaysHeadInv == Spec => []HeadInv
BY InitInv, StepInv, InitHead, HeadStepInv, PTL DEF Spec

\* However the bytes come, an embedder that does not pause and keeps the url,
\* the status and the fields of a head, or the fields of a trailer, never keeps
\* more of them than max_header_size: what a callback tells was counted.
THEOREM HeadsBounded == Spec => []HeadBounded
<1>1. HeadInv => HeadBounded
  BY DEF HeadInv, HeadBounded
<1>. QED
  BY <1>1, AlwaysHeadInv, PTL
-----------------------------------------------------------------------------
(* A call goes forward. *)

LEMMA PassesOn ==
    ASSUME ParserInv, Reading, NEW par, NEW to \in Nat, to > p, NEW again, NEW cs, NEW mk,
           Pass(par, to, again, cs, mk)
    PROVE  Forward
<1>1. p # 0 /\ p \in Nat /\ Position = p
  BY Looking DEF Position
<1>2. (p' = 0 /\ fed' = to - 1) \/ p' = to
  BY DEF Pass, Paused
<1>3. Position' = to
  BY <1>1, <1>2 DEF Position
<1>. QED
  BY <1>1, <1>3 DEF Forward

LEMMA ReturnsOn ==
    ASSUME ParserInv, Reading, NEW par, NEW all, NEW cs, Return(par, all, cs)
    PROVE  Forward
<1>1. p # 0 /\ p \in 1..fed /\ fed \in Nat /\ Position = p
  BY Looking DEF Position
<1>2. p' = 0 /\ fed' = fed
  BY DEF Return
<1>. QED
  BY <1>1, <1>2 DEF Forward, Position

LEMMA LooksAgain ==
    ASSUME ParserInv, Reading, NEW par, NEW to, to = p, NEW again, NEW cs, NEW mk,
           Pass(par, to, again, cs, mk),
           "state" \in DOMAIN par, Looks(par.state) < Looks(parser.state)
    PROVE  Forward
<1>1. p # 0 /\ p \in Nat /\ Position = p
  BY Looking DEF Position
<1>2. (p' = 0 /\ fed' = p - 1) \/ p' = p
  BY DEF Pass, Paused
<1>3. Position' = p
  BY <1>1, <1>2 DEF Position
<1>4. parser'.state = par.state
  BY DEF Pass, Paused
<1>. QED
  BY <1>1, <1>3, <1>4 DEF Forward

LEMMA BreaksOn == ASSUME ParserInv, Reading, NEW par, Break(par) PROVE Forward
<1>1. p + 1 \in Nat /\ p + 1 > p
  BY Looking
<1>. QED
  BY <1>1, PassesOn DEF Break

LEMMA GotoOn == ASSUME ParserInv, Reading, NEW s, Goto(s) PROVE Forward
BY BreaksOn DEF Goto

LEMMA FailsOn == ASSUME ParserInv, Reading, NEW e, Error(e) PROVE Forward
BY ReturnsOn DEF Error

LEMMA BeginsOn == ASSUME ParserInv, Reading, NEW par, MessageBegin(par) PROVE Forward
<1>1. p + 1 \in Nat /\ p + 1 > p
  BY Looking
<1>. QED
  BY <1>1, PassesOn DEF MessageBegin

LEMMA ReexecutesOn ==
    ASSUME ParserInv, Reading, NEW par, Reexecute(par), "state" \in DOMAIN par,
           Looks(par.state) < Looks(parser.state)
    PROVE  Forward
BY LooksAgain DEF Reexecute

\* What Now and its updates have.
LEMMA NowHasState == ASSUME ParserInv, Reading PROVE "state" \in DOMAIN Now
BY Looking DEF Parsers
\* A message begins with a unit that is looked at again.
LEMMA BeginsAgainOn ==
    ASSUME ParserInv, Reading, parser.state \in {"s_start_req", "s_start_res"}, NEW par,
           "state" \in DOMAIN par, par.state \in {"s_req_method", "s_res_H"},
           Pass(par, p, TRUE, Notify("message_begin"), marks)
    PROVE  Forward
<1>1. Looks(par.state) < Looks(parser.state)
  BY DEF Looks
<1>. QED
  BY <1>1, LooksAgain

LEMMA StatusLineForward == ASSUME ParserInv, StatusLine PROVE Forward
<1>0. Reading
  BY DEF StatusLine, StartRes, ResH, ResHttpEnd, FirstStatusCode, StatusCode, StatusStart, Status,
     ResLineAlmostDone, At
<1>1. p + 1 \in Nat /\ p + 1 > p /\ "state" \in DOMAIN Now
  BY <1>0, Looking, NowHasState
<1>2. CASE StartRes
  <2> DEFINE par == [Fresh EXCEPT !.state = "s_res_H"]
  <2>1. CASE Pass(par, p, TRUE, Notify("message_begin"), marks)
    <3>1. par.state = "s_res_H" /\ "state" \in DOMAIN par /\ parser.state = "s_start_res"
      BY <1>1, <1>2 DEF StartRes, At, Fresh
    <3> HIDE DEF par
    <3>. QED
      BY <1>0, <2>1, <3>1, BeginsAgainOn
  <2>2. CASE ~Pass(par, p, TRUE, Notify("message_begin"), marks)
    BY <1>0, <1>2, <2>2, BreaksOn, BeginsOn, ReturnsOn DEF StartRes
  <2>. QED
    BY <2>1, <2>2
<1>9. CASE ResH
  BY <1>0, <1>9, FailsOn DEF ResH
<1>3. CASE ResHttpEnd
  BY <1>0, <1>3, GotoOn, FailsOn DEF ResHttpEnd
<1>4. CASE FirstStatusCode
  BY <1>0, <1>4, BreaksOn, FailsOn DEF FirstStatusCode
<1>5. CASE StatusCode
  <2>1. CASE Reexecute([Now EXCEPT !.state = "s_res_status_start"])
    <3> DEFINE par == [Now EXCEPT !.state = "s_res_status_start"]
    <3>1. /\ par.state = "s_res_status_start" /\ "state" \in DOMAIN par
          /\ parser.state = "s_res_status_code"
      BY <1>1, <1>5 DEF StatusCode, At
    <3> HIDE DEF par
    <3>2. Looks(par.state) < Looks(parser.state)
      BY <3>1 DEF Looks
    <3>. QED
      BY <1>0, <2>1, <3>1, <3>2, ReexecutesOn DEF par
  <2>2. CASE ~Reexecute([Now EXCEPT !.state = "s_res_status_start"])
    BY <1>0, <1>5, <2>2, BreaksOn, GotoOn, FailsOn DEF StatusCode
  <2>. QED
    BY <2>1, <2>2
<1>6. CASE StatusStart
  <2> DEFINE par == [Now EXCEPT !.state = "s_res_status"]
             again == Unit \in {"CR", "LF"}
             to == IF again THEN p ELSE p + 1
  <2>1. Pass(par, to, again, <<>>, MARK("status")) /\ parser.state = "s_res_status_start"
    BY <1>6 DEF StatusStart, At
  <2>2. par.state = "s_res_status" /\ "state" \in DOMAIN par
    BY <1>1
  <2> HIDE DEF par
  <2>3. Looks(par.state) < Looks(parser.state)
    BY <2>1, <2>2 DEF Looks
  <2>4. CASE again
    BY <1>0, <2>1, <2>2, <2>3, <2>4, LooksAgain
  <2>5. CASE ~again
    BY <1>0, <1>1, <2>1, <2>5, PassesOn
  <2>. QED
    BY <2>4, <2>5
<1>7. CASE Status
  BY <1>0, <1>1, <1>7, BreaksOn, PassesOn DEF Status
<1>8. CASE ResLineAlmostDone
  BY <1>0, <1>8, GotoOn, FailsOn DEF ResLineAlmostDone
<1>. QED
  BY <1>2, <1>3, <1>4, <1>5, <1>6, <1>7, <1>8, <1>9 DEF StatusLine

LEMMA RequestLineForward == ASSUME ParserInv, RequestLine PROVE Forward
<1>0. Reading
  BY DEF RequestLine, Dead, StartReqOrRes, StartReq, ReqMethod, UrlStart, UrlChar, UrlEnd,
     HttpVersion, HttpEnd, ReqLineAlmostDone, At
<1>1. p + 1 \in Nat /\ p + 1 > p /\ "state" \in DOMAIN Now
  BY <1>0, Looking, NowHasState
<1>2. CASE Dead
  BY <1>0, <1>2, BreaksOn, FailsOn DEF Dead
<1>3. CASE StartReqOrRes
  <2> DEFINE par == [Fresh EXCEPT !.type = "HTTP_REQUEST", !.state = "s_start_req"]
  <2>1. CASE Reexecute(par)
    <3>1. /\ par.state = "s_start_req" /\ "state" \in DOMAIN par
          /\ parser.state = "s_start_req_or_res"
      BY <1>1, <1>3 DEF StartReqOrRes, At, Fresh
    <3> HIDE DEF par
    <3>2. Looks(par.state) < Looks(parser.state)
      BY <3>1 DEF Looks
    <3>. QED
      BY <1>0, <2>1, <3>1, <3>2, ReexecutesOn
  <2>2. CASE ~Reexecute(par)
    BY <1>0, <1>3, <2>2, BreaksOn, BeginsOn DEF StartReqOrRes
  <2>. QED
    BY <2>1, <2>2
<1>4. CASE StartReq
  <2> DEFINE par == [Fresh EXCEPT !.state = "s_req_method", !.method = "HEAD"]
  <2>1. CASE Pass(par, p, TRUE, Notify("message_begin"), marks)
    <3>1. par.state = "s_req_method" /\ "state" \in DOMAIN par /\ parser.state = "s_start_req"
      BY <1>1, <1>4 DEF StartReq, At, Fresh
    <3> HIDE DEF par
    <3>. QED
      BY <1>0, <2>1, <3>1, BeginsAgainOn
  <2>2. CASE ~Pass(par, p, TRUE, Notify("message_begin"), marks)
    BY <1>0, <1>4, <2>2, BreaksOn, BeginsOn, ReturnsOn DEF StartReq
  <2>. QED
    BY <2>1, <2>2
<1>5. CASE ReqMethod
  BY <1>0, <1>5, GotoOn, FailsOn DEF ReqMethod
<1>6. CASE UrlStart
  BY <1>0, <1>1, <1>6, BreaksOn, FailsOn, PassesOn DEF UrlStart
<1>7. CASE UrlChar
  BY <1>0, <1>7, GotoOn, FailsOn DEF UrlChar
<1>8. CASE UrlEnd
  BY <1>0, <1>1, <1>8, PassesOn DEF UrlEnd
<1>9. CASE HttpVersion
  BY <1>0, <1>9, BreaksOn, FailsOn DEF HttpVersion
<1>10. CASE HttpEnd
  BY <1>0, <1>10, GotoOn, FailsOn DEF HttpEnd
<1>11. CASE ReqLineAlmostDone
  BY <1>0, <1>11, GotoOn, FailsOn DEF ReqLineAlmostDone
<1>. QED
  BY <1>2, <1>3, <1>4, <1>5, <1>6, <1>7, <1>8, <1>9, <1>10, <1>11 DEF RequestLine
LEMMA HeaderValueForward == ASSUME ParserInv, HeaderValue PROVE Forward
<1>0. Reading /\ parser.state = "s_header_value"
  BY Zenon DEF HeaderValue, At
<1> DEFINE stop == SelectInSubSeq(stream.wire, p, fed, LAMBDA u : u \in {"CR", "LF"})
           last == IF stop = 0 THEN fed ELSE stop
           end == IF stop = 0 THEN fed + 1 ELSE stop
           value[i \in p..end] ==
               IF i = p THEN Now ELSE ValueUnit(value[i - 1], stream.wire[i - 1])
           v == value[end]
           par == [v EXCEPT !.nread = CountMore(last - p)]
           line == [par EXCEPT !.state = "s_header_almost_done"]
           full == par.nread > MaxHeaderSize
           tooLong == [par EXCEPT !.errno = "HEADER_OVERFLOW"]
           data == Data("header_value", stop)
           atCR == stop # 0 /\ stream.wire[stop] = "CR"
<1>1. stop = 0 \/ stop \in p..fed
  BY <1>0, LineEnd
<1>2. \/ Return(v, FALSE, <<>>)
      \/ Return(tooLong, FALSE, IF atCR THEN data ELSE <<>>)
      \/ Pass(par, fed + 1, FALSE, <<>>, marks)
      \/ stop # 0 /\ Pass(line, stop + 1, FALSE, data, Unmark("header_value"))
      \/ /\ v.errno = "OK" /\ stop # 0
         /\ Pass(line, stop, TRUE, data, Unmark("header_value"))
  BY Zenon DEF HeaderValue
<1> HIDE DEF stop
<1>3. last \in p..fed /\ end \in p..(fed + 1)
  BY <1>0, <1>1, Looking
<1>4. v \in Values(Now)
  <2> HIDE DEF end
  <2>. QED
    BY <1>0, <1>3, ValueRuns
<1> HIDE DEF last, v
<1>5. "state" \in DOMAIN v
  BY <1>4 DEF Values, Parsers
<1>6. line.state = "s_header_almost_done" /\ "state" \in DOMAIN line
  BY <1>5
<1> HIDE DEF line, par, tooLong, data, atCR
<1>7. Looks(line.state) < Looks(parser.state)
  BY <1>0, <1>6 DEF Looks
<1>8. fed + 1 \in Nat /\ fed + 1 > p
  BY <1>0, Looking
<1>9. CASE stop # 0 /\ Pass(line, stop + 1, FALSE, data, Unmark("header_value"))
  <2>1. stop + 1 \in Nat /\ stop + 1 > p
    BY <1>0, <1>1, <1>9, Looking
  <2>. QED
    BY <1>0, <1>9, <2>1, PassesOn
<1>10. CASE stop # 0 /\ Pass(line, stop, TRUE, data, Unmark("header_value"))
  <2>1. CASE stop = p
    BY <1>0, <1>6, <1>7, <1>10, <2>1, LooksAgain
  <2>2. CASE stop # p
    <3>1. stop \in Nat /\ stop > p
      BY <1>0, <1>1, <1>10, <2>2, Looking
    <3>. QED
      BY <1>0, <1>10, <3>1, PassesOn
  <2>. QED
    BY <2>1, <2>2
<1>11. CASE \/ Return(v, FALSE, <<>>)
            \/ Return(tooLong, FALSE, IF atCR THEN data ELSE <<>>)
  BY <1>0, <1>11, ReturnsOn
<1>12. CASE Pass(par, fed + 1, FALSE, <<>>, marks)
  BY <1>0, <1>8, <1>12, PassesOn
<1>. QED
  BY <1>2, <1>9, <1>10, <1>11, <1>12

LEMMA HeaderFieldForward == ASSUME ParserInv, HeaderField PROVE Forward
<1>0. Reading
  BY DEF HeaderField, At
<1> DEFINE stop == SelectInSubSeq(stream.wire, p, fed, LAMBDA u : ~IsToken(u))
           last == IF stop = 0 THEN fed ELSE stop
           name == IF stop = p THEN parser.header_state ELSE "h_general"
           par == [Now EXCEPT !.nread = CountMore(last - p), !.header_state = name]
<1>1. stop = 0 \/ stop \in p..fed
  BY <1>0, NameEnd
<1>2. \/ Return([par EXCEPT !.errno = "HEADER_OVERFLOW"], FALSE, <<>>)
      \/ Return([par EXCEPT !.errno = "INVALID_HEADER_TOKEN"], FALSE, <<>>)
      \/ Pass(par, fed + 1, FALSE, <<>>, marks)
      \/ /\ stop # 0
         /\ Pass([par EXCEPT !.state = "s_header_value_discard_ws"], stop + 1, FALSE,
                 Data("header_field", stop), Unmark("header_field"))
  BY Zenon DEF HeaderField
<1> HIDE DEF stop, par
<1>3. fed + 1 \in Nat /\ fed + 1 > p
  BY <1>0, Looking
<1>4. stop # 0 => stop + 1 \in Nat /\ stop + 1 > p
  BY <1>0, <1>1, Looking
<1>. QED
  BY <1>0, <1>2, <1>3, <1>4, ReturnsOn, PassesOn

LEMMA ValueStartForward == ASSUME ParserInv, Reading, HeaderValueStart PROVE Forward
<1>1. p + 1 \in Nat /\ p + 1 > p
  BY Looking
<1>. QED
  BY <1>1, PassesOn, ReturnsOn DEF HeaderValueStart

LEMMA HeadersForward == ASSUME ParserInv, Headers PROVE Forward
<1>0. CASE HeaderField \/ HeaderValue
  BY <1>0, HeaderFieldForward, HeaderValueForward
<1>1. CASE HeaderFieldStart
  <2>0. Reading /\ parser.state = "s_header_field_start"
    BY <1>1 DEF HeaderFieldStart, At
  <2> DEFINE par == [Now EXCEPT !.state = "s_headers_almost_done"]
  <2>1. CASE Reexecute(par)
    <3>1. par.state = "s_headers_almost_done" /\ "state" \in DOMAIN par
      BY <2>0, NowHasState
    <3> HIDE DEF par
    <3>2. Looks(par.state) < Looks(parser.state)
      BY <2>0, <3>1 DEF Looks
    <3>. QED
      BY <2>0, <2>1, <3>1, <3>2, ReexecutesOn
  <2>2. CASE ~Reexecute(par)
    <3>1. p + 1 \in Nat /\ p + 1 > p
      BY <2>0, Looking
    <3>. QED
      BY <1>1, <2>0, <2>2, <3>1, GotoOn, FailsOn, PassesOn DEF HeaderFieldStart
  <2>. QED
    BY <2>1, <2>2
<1>2. CASE DiscardWs
  <2>0. Reading
    BY <1>2 DEF DiscardWs, At
  <2>. QED
    BY <1>2, <2>0, BreaksOn, GotoOn, ValueStartForward DEF DiscardWs
<1>3. CASE FoldedStart
  BY <1>3, ValueStartForward DEF FoldedStart, At
<1>4. CASE HeaderAlmostDone
  BY <1>4, GotoOn, FailsOn DEF HeaderAlmostDone, At
<1>5. CASE DiscardWsAlmostDone
  BY <1>5, GotoOn, FailsOn DEF DiscardWsAlmostDone, At
<1>6. CASE ValueLws
  <2>0. Reading /\ parser.state = "s_header_value_lws"
    BY <1>6 DEF ValueLws, At
  <2> DEFINE again == [Now EXCEPT !.state = "s_header_value_start",
                         !.header_state = IF @ = "h_content_length_num"
                                          THEN "h_content_length_ws" ELSE @]
             field == [Now EXCEPT !.state = "s_header_field_start",
                                  !.flags = @ \cup HeaderFlags(parser.header_state)]
  <2>1. Reexecute(again) \/ Reexecute(field)
    BY <1>6 DEF ValueLws
  <2>2. /\ again.state = "s_header_value_start" /\ "state" \in DOMAIN again
        /\ field.state = "s_header_field_start" /\ "state" \in DOMAIN field
    BY <2>0, NowHasState
  <2> HIDE DEF again, field
  <2>3. Looks(again.state) < Looks(parser.state) /\ Looks(field.state) < Looks(parser.state)
    BY <2>0, <2>2 DEF Looks
  <2>. QED
    BY <2>0, <2>1, <2>2, <2>3, ReexecutesOn
<1>7. CASE DiscardLws
  <2>0. Reading /\ parser.state = "s_header_value_discard_lws"
    BY <1>7 DEF DiscardLws, At
  <2> DEFINE par == [Now EXCEPT !.state = "s_header_field_start",
                                !.flags = @ \cup HeaderFlags(parser.header_state)]
             cs == <<[cb |-> "header_value", data |-> <<>>]>>
  <2>1. CASE Pass(par, p, TRUE, cs, marks)
    <3>1. par.state = "s_header_field_start" /\ "state" \in DOMAIN par
      BY <2>0, NowHasState
    <3> HIDE DEF par, cs
    <3>2. Looks(par.state) < Looks(parser.state)
      BY <2>0, <3>1 DEF Looks
    <3>. QED
      BY <2>0, <2>1, <3>1, <3>2, LooksAgain
  <2>2. CASE ~Pass(par, p, TRUE, cs, marks)
    BY <1>7, <2>0, <2>2, GotoOn, FailsOn DEF DiscardLws
  <2>. QED
    BY <2>1, <2>2
<1>8. CASE HeadersAlmostDone
  <2>0. Reading /\ parser.state = "s_headers_almost_done"
    BY <1>8 DEF HeadersAlmostDone, At
  <2> DEFINE done == [Now EXCEPT !.state = "s_message_done"]
             head == [Now EXCEPT !.state = "s_headers_done", !.stored = Counted,
                        !.flags = IF stream.answer = 0 THEN @ ELSE @ \cup {"F_SKIPBODY"},
                        !.upgrade = Upgrading \/ stream.answer = 2]
  <2>1. \/ Error("STRICT") \/ Error("UNEXPECTED_CONTENT_LENGTH")
        \/ Pass(done, p, TRUE, Notify("chunk_complete"), marks)
        \/ Pass(head, p, TRUE, Notify("headers_complete"), marks)
    BY <1>8 DEF HeadersAlmostDone
  <2>2. /\ done.state = "s_message_done" /\ "state" \in DOMAIN done
        /\ head.state = "s_headers_done" /\ "state" \in DOMAIN head
    BY <2>0, NowHasState
  <2> HIDE DEF done, head
  <2>3. Looks(done.state) < Looks(parser.state) /\ Looks(head.state) < Looks(parser.state)
    BY <2>0, <2>2 DEF Looks
  <2>. QED
    BY <2>0, <2>1, <2>2, <2>3, LooksAgain, FailsOn
<1>. QED
  BY <1>0, <1>1, <1>2, <1>3, <1>4, <1>5, <1>6, <1>7, <1>8 DEF Headers
LEMMA CompletesOn ==
    ASSUME ParserInv, Reading, NEW par, NEW exits, MessageComplete(par, exits)
    PROVE  Forward
<1>1. p + 1 \in Nat /\ p + 1 > p
  BY Looking
<1>. QED
  BY <1>1, PassesOn, ReturnsOn DEF MessageComplete

LEMMA BodiesForward == ASSUME ParserInv, Bodies PROVE Forward
<1>0. Reading
  BY DEF Bodies, HeadersDone, BodyIdentity, BodyIdentityEof, MessageDone, At
<1>1. CASE HeadersDone
  BY <1>0, <1>1, CompletesOn, BreaksOn, ReturnsOn DEF HeadersDone
<1>2. CASE BodyIdentity
  <2>0. parser.state = "s_body_identity" /\ parser.content_length \notin {0, ULLONG_MAX}
    <3>1. parser.state = "s_body_identity"
      BY <1>2 DEF BodyIdentity, At
    <3>. QED
      BY <1>0, <3>1, Looking DEF Fits, Framed
  <2>1. /\ ToRead \in Nat /\ ToRead >= 1 /\ p \in Nat
    BY <1>0, <2>0, ToReadIs, Looking
  <2> DEFINE mark == MARK("body")["body"]
             par == [Now EXCEPT !.content_length = @ - ToRead]
             done == [par EXCEPT !.state = "s_message_done"]
             cs == <<[cb |-> "body", data |-> SubSeq(stream.wire, mark, p + ToRead - 1)]>>
  <2>2. \/ Pass(done, p + ToRead - 1, TRUE, cs, Unmark("body"))
        \/ Pass(par, p + ToRead, FALSE, <<>>, MARK("body"))
    BY <1>2 DEF BodyIdentity
  <2>3. done.state = "s_message_done" /\ "state" \in DOMAIN done
    BY <1>0, NowHasState
  <2> HIDE DEF done, par, cs
  <2>4. Looks(done.state) < Looks(parser.state)
    BY <2>0, <2>3 DEF Looks
  <2>5. CASE Pass(done, p + ToRead - 1, TRUE, cs, Unmark("body"))
    <3>1. CASE ToRead = 1
      <4>1. p + ToRead - 1 = p
        BY <2>1, <3>1
      <4>. QED
        BY <1>0, <2>3, <2>4, <2>5, <4>1, LooksAgain
    <3>2. CASE ToRead # 1
      <4>1. p + ToRead - 1 \in Nat /\ p + ToRead - 1 > p
        BY <2>1, <3>2
      <4>. QED
        BY <1>0, <2>5, <4>1, PassesOn
    <3>. QED
      BY <3>1, <3>2
  <2>6. CASE Pass(par, p + ToRead, FALSE, <<>>, MARK("body"))
    <3>1. p + ToRead \in Nat /\ p + ToRead > p
      BY <2>1
    <3>. QED
      BY <1>0, <2>6, <3>1, PassesOn
  <2>. QED
    BY <2>2, <2>5, <2>6
<1>3. CASE BodyIdentityEof
  <2>1. fed + 1 \in Nat /\ fed + 1 > p
    BY <1>0, Looking
  <2>. QED
    BY <1>0, <1>3, <2>1, PassesOn DEF BodyIdentityEof
<1>4. CASE MessageDone
  BY <1>0, <1>4, CompletesOn DEF MessageDone
<1>. QED
  BY <1>1, <1>2, <1>3, <1>4 DEF Bodies

LEMMA ChunksForward == ASSUME ParserInv, Chunks PROVE Forward
<1>0. Reading
  BY DEF Chunks, ChunkSizeStart, ChunkSize, ChunkParameters, ChunkSizeAlmostDone, ChunkData,
     ChunkDataAlmostDone, ChunkDataDone, At
<1>1. p + 1 \in Nat /\ p + 1 > p
  BY <1>0, Looking
<1>2. CASE ChunkSizeStart
  BY <1>0, <1>2, BreaksOn, FailsOn DEF ChunkSizeStart
<1>3. CASE ChunkSize
  BY <1>0, <1>3, BreaksOn, GotoOn, FailsOn DEF ChunkSize
<1>4. CASE ChunkParameters
  BY <1>0, <1>4, BreaksOn, GotoOn DEF ChunkParameters
<1>5. CASE ChunkSizeAlmostDone
  BY <1>0, <1>1, <1>5, PassesOn, FailsOn DEF ChunkSizeAlmostDone
<1>6. CASE ChunkData
  <2>1. parser.state = "s_chunk_data"
    BY <1>6 DEF ChunkData, At
  <2>2. parser.content_length \notin {0, ULLONG_MAX}
    BY <1>0, <2>1, Looking DEF Fits, Framed
  <2>3. p + ToRead \in Nat /\ p + ToRead > p
    BY <1>0, <2>2, ToReadIs, Looking
  <2>. QED
    BY <1>0, <1>6, <2>3, PassesOn DEF ChunkData
<1>7. CASE ChunkDataAlmostDone
  BY <1>0, <1>1, <1>7, PassesOn, FailsOn DEF ChunkDataAlmostDone
<1>8. CASE ChunkDataDone
  BY <1>0, <1>1, <1>8, PassesOn, FailsOn DEF ChunkDataDone
<1>. QED
  BY <1>2, <1>3, <1>4, <1>5, <1>6, <1>7, <1>8 DEF Chunks

LEMMA EndForward == ASSUME ParserInv, EndOfPiece PROVE Forward
<1>1. p = fed + 1 /\ fed \in Nat /\ p # 0
  BY SamePlaces DEF EndOfPiece
<1>2. p' = 0 /\ (fed' = fed \/ fed' = p - 1)
  BY DEF EndOfPiece, Paused, Return
<1>. QED
  BY <1>1, <1>2 DEF Forward, Position

LEMMA BetweenForward ==
    ASSUME ParserInv,
           (\E n \in stream.pieces \cup {Left} : http_parser_execute(n)) \/ Resume \/ AtEof
    PROVE  Forward
<1>1. p = 0 /\ fed \in Nat
  BY SamePlaces DEF http_parser_execute, Callable, Resume, AtEof, ParserInv, CallOK
<1>2. Position' = fed + 1
  BY <1>1 DEF http_parser_execute, Resume, AtEof, Position
<1>. QED
  BY <1>1, <1>2 DEF Forward, Position

\* However the passes go on without taking a unit (REEXECUTE, the byte that
\* s_body_identity gives back, a callback that pauses), no unit is looked at more
\* than four times and none is gone back to: each call of http_parser_execute
\* ends, and a caller that goes on after each pause gets through the stream.
THEOREM CallsGoForward == Spec => GoesForward
<1>1. ParserInv /\ [Next]_vars => [Forward]_vars
  <2> SUFFICES ASSUME ParserInv, Next PROVE Forward
    OBVIOUS
  <2>1. CASE HeaderOverflow
    BY <2>1, FailsOn DEF HeaderOverflow
  <2>. QED
    BY <2>1, BetweenForward, EndForward, StatusLineForward, RequestLineForward,
       HeadersForward, BodiesForward, ChunksForward DEF Next
<1>. QED
  BY <1>1, AlwaysParserInv, PTL DEF Spec, GoesForward
-----------------------------------------------------------------------------
(* One framing. *)

\* The lines of the head, and those of them that are a field's.
HeadLines == (HeaderLineStates \cup UrlStates) \ (BetweenStates \cup ChunkStates)
FieldLines == {"s_header_field", "s_header_value_discard_ws",
               "s_header_value_discard_ws_almost_done", "s_header_value_discard_lws",
               "s_header_value_start", "s_header_value", "s_header_almost_done",
               "s_header_value_lws"}
CodingHeaders == {"h_transfer_encoding", "h_matching_transfer_encoding_token_start",
                  "h_matching_transfer_encoding_token", "h_transfer_encoding_chunked"}

\* What the fields read so far say of the framing.
FramingOK(par) ==
    LET coded == par.uses_transfer_encoding = TRUE
        Has(f) == f \in par.flags
    IN  /\ Has("F_CHUNKED") => coded
        /\ par.state \in FieldLines =>
                /\ par.header_state \in CodingHeaders => coded
                /\ par.header_state = "h_content_length_num" => Has("F_CONTENTLENGTH")
        /\ par.state \in HeadLines /\ ~Has("F_TRAILING") /\ par.content_length # ULLONG_MAX =>
                Has("F_CONTENTLENGTH")
        /\ par.state = "s_headers_done" =>
                ~Has("F_TRAILING") /\ ~(coded /\ Has("F_CONTENTLENGTH"))
        /\ par.state = "s_body_identity" => Has("F_CONTENTLENGTH") /\ ~coded
        /\ par.state \in ChunkStates => ~Has("F_CONTENTLENGTH") /\ coded
        /\ par.state = "s_body_identity_eof" =>
                par.type # "HTTP_REQUEST" /\ ~Has("F_CHUNKED")

\* The same, outside of what is measured.
Plain(par) == FramingOK(par) /\ par.state \notin LengthStates

\* What these are about.
FramingFields == {"type", "state", "header_state", "flags", "uses_transfer_encoding",
                  "content_length"}
Framing(par) == FramingFields \subseteq DOMAIN par

LEMMA NowFrames ==
    ASSUME ParserInv, Reading
    PROVE  /\ Framing(Now) /\ Now.type = parser.type /\ Now.state = parser.state
           /\ Now.header_state = parser.header_state /\ Now.flags = parser.flags
           /\ Now.uses_transfer_encoding = parser.uses_transfer_encoding
           /\ Now.content_length = parser.content_length
BY Looking DEF Parsers, Framing, FramingFields

\* How a pass ends does not change them.
LEMMA PassFrames ==
    ASSUME NEW par, Framing(par), NEW to, NEW again, NEW cs, NEW mk, Pass(par, to, again, cs, mk)
    PROVE  /\ FramingOK(par) => FramingOK(parser')
           /\ Plain(par) => Plain(parser')
           /\ parser'.state = par.state /\ parser'.content_length = par.content_length
<1>1. parser' = par \/ parser' = [par EXCEPT !.errno = "PAUSED", !.nread = par.stored]
  BY DEF Pass, Paused
<1>2. /\ parser'.type = par.type /\ parser'.state = par.state
      /\ parser'.header_state = par.header_state /\ parser'.flags = par.flags
      /\ parser'.uses_transfer_encoding = par.uses_transfer_encoding
      /\ parser'.content_length = par.content_length
  BY <1>1 DEF Framing, FramingFields
<1>. QED
  BY <1>2 DEF FramingOK, Plain

LEMMA ReturnFrames ==
    ASSUME NEW par, Framing(par), NEW all, NEW cs, Return(par, all, cs)
    PROVE  /\ FramingOK(par) => FramingOK(parser')
           /\ Plain(par) => Plain(parser')
           /\ parser'.state = par.state /\ parser'.errno = par.errno
<1>1. parser' = [par EXCEPT !.stored = par.nread]
  BY DEF Return
<1>2. /\ parser'.type = par.type /\ parser'.state = par.state
      /\ parser'.header_state = par.header_state /\ parser'.flags = par.flags
      /\ parser'.uses_transfer_encoding = par.uses_transfer_encoding
      /\ parser'.content_length = par.content_length
  BY <1>1 DEF Framing, FramingFields
<1>3. parser'.errno = par.errno
  BY <1>1
<1>. QED
  BY <1>2, <1>3 DEF FramingOK, Plain

\* From one line to another.
LineTo(s) ==
    /\ s \notin LengthStates \cup ChunkStates \cup {"s_body_identity_eof", "s_headers_done"}
    /\ s \in FieldLines => parser.state \in FieldLines
    /\ s \in HeadLines => parser.state \in HeadLines

LEMMA LineFrames ==
    ASSUME ParserInv, Reading, FramingOK(parser), NEW s, LineTo(s)
    PROVE  Framing([Now EXCEPT !.state = s]) /\ Plain([Now EXCEPT !.state = s])
<1> DEFINE par == [Now EXCEPT !.state = s]
<1>1. /\ Framing(par) /\ par.type = parser.type /\ par.state = s
      /\ par.header_state = parser.header_state /\ par.flags = parser.flags
      /\ par.uses_transfer_encoding = parser.uses_transfer_encoding
      /\ par.content_length = parser.content_length
  BY NowFrames DEF Framing, FramingFields
<1> HIDE DEF par
<1>2. Plain(par)
  BY <1>1 DEF FramingOK, Plain, LineTo, LengthStates
<1>. QED
  BY <1>1, <1>2 DEF par

LEMMA GotoFrames ==
    ASSUME ParserInv, Reading, FramingOK(parser), NEW s, LineTo(s),
           \/ Goto(s) \/ Reexecute([Now EXCEPT !.state = s])
           \/ \E to, again, cs, mk : Pass([Now EXCEPT !.state = s], to, again, cs, mk)
    PROVE  Plain(parser')
<1> DEFINE par == [Now EXCEPT !.state = s]
<1>1. PICK to, again, cs, mk : Pass(par, to, again, cs, mk)
  BY DEF Goto, Break, Reexecute
<1>2. Framing(par) /\ Plain(par)
  BY LineFrames
<1> HIDE DEF par
<1>. QED
  BY <1>1, <1>2, PassFrames

LEMMA SkipFrames ==
    ASSUME ParserInv, Reading, FramingOK(parser), parser.state \notin LengthStates, Break(Now)
    PROVE  Plain(parser')
<1>1. Framing(Now) /\ Plain(Now)
  BY NowFrames DEF FramingOK, Plain
<1>. QED
  BY <1>1, PassFrames DEF Break

\* An error changes none of it.
LEMMA FailFrames ==
    ASSUME ParserInv, Reading, FramingOK(parser), NEW e, Error(e)
    PROVE  /\ FramingOK(parser') /\ parser'.errno = e /\ parser'.state = parser.state
           /\ parser.state \notin LengthStates => Plain(parser')
<1> DEFINE par == [Now EXCEPT !.errno = e]
<1>1. /\ Framing(par) /\ par.type = parser.type /\ par.state = parser.state
      /\ par.header_state = parser.header_state /\ par.flags = parser.flags
      /\ par.uses_transfer_encoding = parser.uses_transfer_encoding
      /\ par.content_length = parser.content_length
  BY NowFrames DEF Framing, FramingFields
<1>2. FramingOK(par)
  <2> HIDE DEF par
  <2>. QED
    BY <1>1 DEF FramingOK
<1>3. par.errno = e
  BY Looking DEF Parsers
<1>4. Return(par, FALSE, <<>>)
  BY DEF Error
<1> HIDE DEF par
<1>. QED
  BY <1>1, <1>2, <1>3, <1>4, ReturnFrames DEF Plain

LEMMA FreshFrames ==
    ASSUME ParserInv, Reading
    PROVE  /\ Framing(Fresh) /\ Fresh.flags = {} /\ Fresh.content_length = ULLONG_MAX
           /\ Fresh.state = parser.state
BY NowFrames DEF Fresh, Framing, FramingFields

LEMMA BeginFrames ==
    ASSUME NEW par, Framing(par), par.flags = {}, par.content_length = ULLONG_MAX,
           par.state \in BetweenStates \cup {"s_req_method", "s_res_H", "s_res_http_end"}
    PROVE  Plain(par)
BY DEF FramingOK, Plain, LengthStates, BetweenStates, ChunkStates, FieldLines

\* A message that is refused before it begins.
LEMMA RefusedFrames ==
    ASSUME ParserInv, Reading, parser.state \in BetweenStates, NEW e,
           Return([Fresh EXCEPT !.errno = e], FALSE, <<>>)
    PROVE  Plain(parser')
<1> DEFINE wrong == [Fresh EXCEPT !.errno = e]
<1>1. /\ Framing(wrong) /\ wrong.flags = {} /\ wrong.content_length = ULLONG_MAX
      /\ wrong.state \in BetweenStates
  BY FreshFrames DEF Framing, FramingFields
<1> HIDE DEF wrong
<1>2. Plain(wrong)
  BY <1>1, BeginFrames
<1>. QED
  BY <1>1, <1>2, ReturnFrames DEF wrong

\* Fields that say nothing of the framing.
LEMMA OtherFrames ==
    ASSUME NEW par, Framing(par), NEW v,
           NEW q, q \in {[par EXCEPT !.version = v], [par EXCEPT !.method = v],
                         [par EXCEPT !.status_code = v]}
    PROVE  /\ Framing(q) /\ q.state = par.state /\ q.flags = par.flags
           /\ q.content_length = par.content_length
           /\ Plain(par) => Plain(q)
<1>1. /\ Framing(q) /\ q.type = par.type /\ q.state = par.state
      /\ q.header_state = par.header_state /\ q.flags = par.flags
      /\ q.uses_transfer_encoding = par.uses_transfer_encoding
      /\ q.content_length = par.content_length
  BY DEF Framing, FramingFields
<1>. QED
  BY <1>1 DEF FramingOK, Plain

LEMMA StatusLineFrames ==
    ASSUME ParserInv, FramingOK(parser), StatusLine
    PROVE  Plain(parser')
<1>0. Reading
  BY DEF StatusLine, StartRes, ResH, ResHttpEnd, FirstStatusCode, StatusCode, StatusStart, Status,
     ResLineAlmostDone, At
<1>1. parser.state \in {"s_start_res", "s_res_H", "s_res_http_end", "s_res_first_status_code",
          "s_res_status_code", "s_res_status_start", "s_res_status", "s_res_line_almost_done"}
  BY DEF StatusLine, StartRes, ResH, ResHttpEnd, FirstStatusCode, StatusCode, StatusStart, Status,
     ResLineAlmostDone, At
<1>2. parser.state \notin LengthStates
  BY <1>1 DEF LengthStates
<1>3. CASE StartRes
  <2>1. CASE Break(Now)
    BY <1>0, <1>2, <2>1, SkipFrames
  <2> DEFINE mid == [Fresh EXCEPT !.state = "s_res_http_end"]
             begun == [mid EXCEPT !.version = Unit]
             head == [Fresh EXCEPT !.state = "s_res_H"]
  <2>2. /\ Framing(mid) /\ mid.flags = {} /\ mid.content_length = ULLONG_MAX
        /\ mid.state = "s_res_http_end"
    BY <1>0, FreshFrames DEF Framing, FramingFields
  <2>3. /\ Framing(head) /\ head.flags = {} /\ head.content_length = ULLONG_MAX
        /\ head.state = "s_res_H"
    BY <1>0, FreshFrames DEF Framing, FramingFields
  <2>4. [Fresh EXCEPT !.state = "s_res_http_end", !.version = Unit] = begun
    OBVIOUS
  <2> HIDE DEF mid
  <2>5. /\ Framing(begun) /\ begun.flags = {} /\ begun.content_length = ULLONG_MAX
        /\ begun.state = "s_res_http_end"
    BY <2>2 DEF Framing, FramingFields
  <2>6. \/ Break(Now)
        \/ Pass(begun, p + 1, FALSE, Notify("message_begin"), marks)
        \/ Pass(head, p, TRUE, Notify("message_begin"), marks)
        \/ Return([Fresh EXCEPT !.errno = "INVALID_CONSTANT"], FALSE, <<>>)
    BY <1>3, <2>4 DEF StartRes, MessageBegin
  <2> HIDE DEF begun, head
  <2>7. Plain(begun) /\ Plain(head)
    BY <2>3, <2>5, BeginFrames
  <2>8. parser.state \in BetweenStates
    BY <1>3 DEF StartRes, At, BetweenStates
  <2>. QED
    BY <1>0, <2>1, <2>3, <2>5, <2>6, <2>7, <2>8, PassFrames, RefusedFrames
<1>12. CASE ResH
  BY <1>0, <1>2, <1>12, FailFrames DEF ResH
<1>4. parser.state # "s_start_res" => parser.state \in HeadLines
  BY <1>1 DEF HeadLines, HeaderLineStates, BetweenStates, ChunkStates
<1>5. ASSUME parser.state # "s_start_res",
             NEW s \in {"s_res_first_status_code", "s_res_status_start", "s_res_status",
                        "s_res_line_almost_done", "s_header_field_start"}
      PROVE  LineTo(s)
  BY <1>4, <1>5 DEF LineTo, LengthStates, ChunkStates, FieldLines
<1>6. CASE ResHttpEnd
  <2>1. LineTo("s_res_first_status_code")
    BY <1>5, <1>6 DEF ResHttpEnd, At
  <2>. QED
    BY <1>0, <1>2, <1>6, <2>1, GotoFrames, FailFrames DEF ResHttpEnd
<1>7. CASE FirstStatusCode
  <2> DEFINE q == [Now EXCEPT !.status_code = WithCode(0, Unit)]
             par == [q EXCEPT !.state = "s_res_status_code"]
  <2>1. [Now EXCEPT !.status_code = WithCode(0, Unit), !.state = "s_res_status_code"] = par
    OBVIOUS
  <2>2. /\ Framing(q) /\ q.type = parser.type /\ q.state = parser.state
        /\ q.header_state = parser.header_state /\ q.flags = parser.flags
        /\ q.uses_transfer_encoding = parser.uses_transfer_encoding
        /\ q.content_length = parser.content_length
    BY <1>0, NowFrames DEF Framing, FramingFields
  <2> HIDE DEF q
  <2>3. /\ Framing(par) /\ par.type = parser.type /\ par.state = "s_res_status_code"
        /\ par.header_state = parser.header_state /\ par.flags = parser.flags
        /\ par.uses_transfer_encoding = parser.uses_transfer_encoding
        /\ par.content_length = parser.content_length
    BY <2>2 DEF Framing, FramingFields
  <2>4. Break(Now) \/ Pass(par, p + 1, FALSE, <<>>, marks) \/ Error("INVALID_STATUS")
    BY <1>7, <2>1 DEF FirstStatusCode, Break
  <2> HIDE DEF par
  <2>5. Plain(par)
    BY <1>4, <1>7, <2>3 DEF FramingOK, Plain, LengthStates, ChunkStates, FieldLines, FirstStatusCode, At
  <2>. QED
    BY <1>0, <1>2, <2>3, <2>4, <2>5, PassFrames, FailFrames, SkipFrames
<1>8. CASE StatusCode
  <2>1. LineTo("s_res_status_start")
    BY <1>5, <1>8 DEF StatusCode, At
  <2>2. CASE Break([Now EXCEPT !.status_code = WithCode(parser.status_code, Unit)])
    <3>1. PICK v : v = WithCode(parser.status_code, Unit)
      OBVIOUS
    <3> DEFINE q == [Now EXCEPT !.status_code = v]
    <3>2. Break(q) /\ Framing(Now) /\ Plain(Now)
      BY <1>0, <1>2, <2>2, <3>1, NowFrames DEF FramingOK, Plain
    <3>3. Framing(q) /\ Plain(q)
      BY <3>2, OtherFrames
    <3> HIDE DEF q
    <3>. QED
      BY <3>2, <3>3, PassFrames DEF Break
  <2>. QED
    BY <1>0, <1>2, <1>8, <2>1, <2>2, GotoFrames, FailFrames DEF StatusCode
<1>9. CASE StatusStart
  <2>1. LineTo("s_res_status")
    BY <1>5, <1>9 DEF StatusStart, At
  <2>. QED
    BY <1>0, <1>2, <1>9, <2>1, GotoFrames DEF StatusStart
<1>10. CASE Status
  <2>1. LineTo("s_res_line_almost_done") /\ LineTo("s_header_field_start")
    BY <1>5, <1>10 DEF Status, At
  <2> DEFINE s == IF Unit = "CR" THEN "s_res_line_almost_done" ELSE "s_header_field_start"
  <2>2. LineTo(s)
    BY <2>1
  <2>3. \/ Break(Now)
        \/ Pass([Now EXCEPT !.state = s], p + 1, FALSE, Data("status", p), Unmark("status"))
    BY <1>10 DEF Status
  <2> HIDE DEF s
  <2>. QED
    BY <1>0, <1>2, <2>2, <2>3, GotoFrames, SkipFrames
<1>11. CASE ResLineAlmostDone
  <2>1. LineTo("s_header_field_start")
    BY <1>5, <1>11 DEF ResLineAlmostDone, At
  <2>. QED
    BY <1>0, <1>2, <1>11, <2>1, GotoFrames, FailFrames DEF ResLineAlmostDone
<1>. QED
  BY <1>3, <1>6, <1>7, <1>8, <1>9, <1>10, <1>11, <1>12 DEF StatusLine

LEMMA RequestLineFrames ==
    ASSUME ParserInv, FramingOK(parser), RequestLine
    PROVE  Plain(parser')
<1>0. Reading
  BY DEF RequestLine, Dead, StartReqOrRes, StartReq, ReqMethod, UrlStart, UrlChar, UrlEnd,
     HttpVersion, HttpEnd, ReqLineAlmostDone, At
<1>1. parser.state \in BetweenStates \cup UrlStates \cup {"s_req_method",
          "s_req_spaces_before_url", "s_req_http_start", "s_req_http_end", "s_req_line_almost_done"}
  BY DEF RequestLine, Dead, StartReqOrRes, StartReq, ReqMethod, UrlStart, UrlChar, UrlEnd,
     HttpVersion, HttpEnd, ReqLineAlmostDone, At, BetweenStates, UrlEndStates
<1>2. parser.state \notin LengthStates
  BY <1>1 DEF LengthStates, BetweenStates, UrlStates
<1>3. parser.state \notin BetweenStates => parser.state \in HeadLines
  BY <1>1 DEF HeadLines, HeaderLineStates, BetweenStates, ChunkStates, UrlStates
<1>4. ASSUME parser.state \notin BetweenStates,
             NEW s \in UrlStates \cup {"s_req_spaces_before_url", "s_req_http_start",
                 "s_req_http_end", "s_req_line_almost_done", "s_header_field_start"}
      PROVE  LineTo(s)
  BY <1>3, <1>4 DEF LineTo, LengthStates, ChunkStates, FieldLines, UrlStates
<1>5. CASE Dead
  BY <1>0, <1>2, <1>5, SkipFrames, FailFrames DEF Dead
<1>6. CASE StartReqOrRes
  <2>1. ASSUME NEW t, NEW v, NEW w, NEW s \in {"s_req_method", "s_res_http_end", "s_start_req"},
               NEW q, q \in {[Fresh EXCEPT !.type = t, !.version = v, !.state = s],
                             [Fresh EXCEPT !.type = t, !.method = w, !.state = s],
                             [Fresh EXCEPT !.type = t, !.state = s]}
        PROVE  Framing(q) /\ Plain(q)
    <3>1. /\ Framing(q) /\ q.flags = {} /\ q.content_length = ULLONG_MAX /\ q.state = s
      <4> DEFINE a == [Fresh EXCEPT !.type = t]
                 b == [a EXCEPT !.version = v]
                 c == [a EXCEPT !.method = w]
      <4>1. Framing(a) /\ a.flags = {} /\ a.content_length = ULLONG_MAX
        BY <1>0, FreshFrames DEF Framing, FramingFields
      <4>2. q \in {[b EXCEPT !.state = s], [c EXCEPT !.state = s], [a EXCEPT !.state = s]}
        BY <2>1
      <4> HIDE DEF a
      <4>3. /\ Framing(b) /\ b.flags = {} /\ b.content_length = ULLONG_MAX
            /\ Framing(c) /\ c.flags = {} /\ c.content_length = ULLONG_MAX
        BY <4>1 DEF Framing, FramingFields
      <4> HIDE DEF b, c
      <4>. QED
        BY <4>1, <4>2, <4>3 DEF Framing, FramingFields
    <3>2. q.state \in BetweenStates \cup {"s_req_method", "s_res_http_end"}
      BY SMTT(30), <3>1 DEF BetweenStates
    <3>. QED
      BY <3>1, <3>2, BeginFrames
  <2>2. CASE Break(Now)
    BY <1>0, <1>2, <2>2, SkipFrames
  <2> DEFINE res == [Fresh EXCEPT !.type = "HTTP_RESPONSE", !.version = Unit,
                                  !.state = "s_res_http_end"]
             head == [Fresh EXCEPT !.type = "HTTP_REQUEST", !.method = "HEAD",
                                   !.state = "s_req_method"]
             req == [Fresh EXCEPT !.type = "HTTP_REQUEST", !.state = "s_start_req"]
  <2>3. /\ Framing(res) /\ Plain(res) /\ Framing(head) /\ Plain(head)
        /\ Framing(req) /\ Plain(req)
    BY Zenon, <2>1
  <2>4. \/ Break(Now) \/ MessageBegin(res) \/ MessageBegin(head) \/ Reexecute(req)
    BY <1>6 DEF StartReqOrRes
  <2> HIDE DEF res, head, req
  <2>. QED
    BY <2>2, <2>3, <2>4, PassFrames DEF MessageBegin, Reexecute
<1>7. CASE StartReq
  <2> DEFINE mid == [Fresh EXCEPT !.state = "s_req_method"]
             par == [mid EXCEPT !.method = Unit]
             head == [mid EXCEPT !.method = "HEAD"]
  <2>1. /\ [Fresh EXCEPT !.state = "s_req_method", !.method = Unit] = par
        /\ [Fresh EXCEPT !.state = "s_req_method", !.method = "HEAD"] = head
    OBVIOUS
  <2>2. /\ Framing(mid) /\ mid.flags = {} /\ mid.content_length = ULLONG_MAX
        /\ mid.state = "s_req_method"
    BY <1>0, FreshFrames DEF Framing, FramingFields
  <2>3. \/ Break(Now) \/ MessageBegin(par)
        \/ Pass(head, p, TRUE, Notify("message_begin"), marks)
        \/ Return([Fresh EXCEPT !.errno = "INVALID_METHOD"], FALSE, <<>>)
    BY <1>7, <2>1 DEF StartReq
  <2> HIDE DEF mid
  <2>4. /\ Plain(mid) /\ Framing(par) /\ par \in {[mid EXCEPT !.method = Unit]}
        /\ Framing(head) /\ head \in {[mid EXCEPT !.method = "HEAD"]}
    BY <2>2, BeginFrames DEF Framing, FramingFields
  <2> HIDE DEF par, head
  <2>5. Plain(par) /\ Plain(head)
    BY <2>2, <2>4, OtherFrames
  <2>6. parser.state \in BetweenStates
    BY <1>7 DEF StartReq, At, BetweenStates
  <2>. QED
    BY <1>0, <1>2, <2>3, <2>4, <2>5, <2>6, PassFrames, SkipFrames, RefusedFrames DEF MessageBegin
<1>8. CASE ReqMethod
  <2>1. LineTo("s_req_spaces_before_url")
    BY <1>4, <1>8 DEF ReqMethod, At, BetweenStates
  <2>. QED
    BY <1>0, <1>2, <1>8, <2>1, GotoFrames, FailFrames DEF ReqMethod
<1>9. CASE UrlStart
  <2> DEFINE from == IF parser.method = "CONNECT" THEN "s_req_server_start"
                     ELSE "s_req_spaces_before_url"
             to == parse_url_char(from, Unit)
  <2>1. to \in UrlStates \cup {"s_dead"}
    <3>1. from \in UrlStates \cup {"s_req_spaces_before_url"}
      BY DEF UrlStates
    <3> HIDE DEF from
    <3>. QED
      BY <3>1, UrlCharType
  <2>2. \/ Break(Now) \/ Error("INVALID_URL")
        \/ to # "s_dead" /\ Pass([Now EXCEPT !.state = to], p + 1, FALSE, <<>>, MARK("url"))
    BY <1>9 DEF UrlStart
  <2> HIDE DEF to
  <2>3. to # "s_dead" => LineTo(to)
    BY <1>4, <1>9, <2>1 DEF UrlStart, At, BetweenStates
  <2>. QED
    BY <1>0, <1>2, <2>2, <2>3, GotoFrames, FailFrames, SkipFrames
<1>10. CASE UrlChar
  <2> DEFINE to == parse_url_char(parser.state, Unit)
  <2>1. to \in UrlStates \cup {"s_dead"}
    <3>1. parser.state \in UrlStates
      BY <1>10 DEF UrlChar, At
    <3>. QED
      BY <3>1, UrlCharType
  <2>2. Error("INVALID_URL") \/ (to # "s_dead" /\ Goto(to))
    BY <1>10 DEF UrlChar
  <2> HIDE DEF to
  <2>3. parser.state \notin BetweenStates
    BY <1>10 DEF UrlChar, At, BetweenStates, UrlStates
  <2>4. to # "s_dead" => LineTo(to)
    BY <1>4, <2>1, <2>3
  <2>. QED
    BY <1>0, <1>2, <2>2, <2>4, GotoFrames, FailFrames
<1>11. CASE UrlEnd
  <2>1. parser.state \notin BetweenStates
    BY <1>11 DEF UrlEnd, At, BetweenStates, UrlStates, UrlEndStates
  <2>2. LineTo("s_req_http_start") /\ LineTo("s_req_line_almost_done") /\ LineTo("s_header_field_start")
    BY <1>4, <2>1
  <2> DEFINE line == [Now EXCEPT !.state = "s_req_line_almost_done"]
             field == [Now EXCEPT !.state = "s_header_field_start"]
             old == [line EXCEPT !.version = "HTTP/0.9"]
             older == [field EXCEPT !.version = "HTTP/0.9"]
  <2>3. /\ [Now EXCEPT !.state = "s_req_line_almost_done", !.version = "HTTP/0.9"] = old
        /\ [Now EXCEPT !.state = "s_header_field_start", !.version = "HTTP/0.9"] = older
    OBVIOUS
  <2>4. \/ Pass([Now EXCEPT !.state = "s_req_http_start"], p + 1, FALSE, Data("url", p), Unmark("url"))
        \/ Pass(old, p + 1, FALSE, Data("url", p), Unmark("url"))
        \/ Pass(older, p + 1, FALSE, Data("url", p), Unmark("url"))
    BY <1>11, <2>3 DEF UrlEnd
  <2>5. Framing(line) /\ Plain(line) /\ Framing(field) /\ Plain(field)
    BY <1>0, <2>2, LineFrames
  <2> HIDE DEF line, field
  <2>6. old \in {[line EXCEPT !.version = "HTTP/0.9"]} /\ older \in {[field EXCEPT !.version = "HTTP/0.9"]}
    OBVIOUS
  <2> HIDE DEF old, older
  <2>7. Framing(old) /\ Plain(old) /\ Framing(older) /\ Plain(older)
    BY <2>5, <2>6, OtherFrames
  <2>. QED
    BY <1>0, <2>2, <2>4, <2>7, GotoFrames, PassFrames
<1>12. CASE HttpVersion
  <2> DEFINE mid == [Now EXCEPT !.state = "s_req_http_end"]
             par == [mid EXCEPT !.version = Unit]
  <2>1. [Now EXCEPT !.state = "s_req_http_end", !.version = Unit] = par
    OBVIOUS
  <2>2. LineTo("s_req_http_end")
    BY <1>4, <1>12 DEF HttpVersion, At, BetweenStates
  <2>3. Framing(mid) /\ Plain(mid)
    BY <1>0, <2>2, LineFrames
  <2>4. Break(Now) \/ Break(par) \/ Error("INVALID_CONSTANT")
    BY <1>12, <2>1 DEF HttpVersion
  <2> HIDE DEF mid
  <2>5. par \in {[mid EXCEPT !.version = Unit]}
    OBVIOUS
  <2> HIDE DEF par
  <2>6. Framing(par) /\ Plain(par)
    BY <2>3, <2>5, OtherFrames
  <2>7. CASE Break(par)
    BY <2>6, <2>7, PassFrames DEF Break
  <2>. QED
    BY <1>0, <1>2, <2>4, <2>7, SkipFrames, FailFrames
<1>13. CASE HttpEnd
  <2>1. LineTo("s_req_line_almost_done") /\ LineTo("s_header_field_start")
    BY <1>4, <1>13 DEF HttpEnd, At, BetweenStates
  <2>. QED
    BY <1>0, <1>2, <1>13, <2>1, GotoFrames, FailFrames DEF HttpEnd
<1>14. CASE ReqLineAlmostDone
  <2>1. LineTo("s_header_field_start")
    BY <1>4, <1>14 DEF ReqLineAlmostDone, At, BetweenStates
  <2>. QED
    BY <1>0, <1>2, <1>14, <2>1, GotoFrames, FailFrames DEF ReqLineAlmostDone
<1>. QED
  BY <1>5, <1>6, <1>7, <1>8, <1>9, <1>10, <1>11, <1>12, <1>13, <1>14 DEF RequestLine

\* A value, unit by unit: a coding is only matched in a field that is one, and
\* a length only read into a field that says so.
Valued == {q \in Values(Now) : q.state = "s_header_value" /\ Plain(q)}

LEMMA TurnedFrames ==
    ASSUME NEW par \in Valued, NEW h \in HeaderStates,
           h \in CodingHeaders => par.header_state \in CodingHeaders,
           h = "h_content_length_num" => "F_CONTENTLENGTH" \in par.flags
    PROVE  Turned(par, h) \in Valued
<1>1. Turned(par, h) \in Values(Now)
  BY TurnedIs DEF Valued
<1> DEFINE q == Turned(par, h)
<1>2. /\ q.type = par.type /\ q.state = par.state
      /\ q.header_state = h /\ q.flags = par.flags
      /\ q.uses_transfer_encoding = par.uses_transfer_encoding
      /\ q.content_length = par.content_length
  BY DEF Turned, Valued, Values, Parsers
<1>3. Plain(par) /\ par.state = "s_header_value"
  BY DEF Valued
<1> HIDE DEF q
<1>4. Plain(q)
  BY <1>2, <1>3 DEF FramingOK, Plain, FieldLines
<1>. QED
  BY <1>1, <1>2, <1>3, <1>4 DEF Valued, q

LEMMA MeasuredFrames ==
    ASSUME NEW par \in Valued, NEW n \in 0..ULLONG_MAX, "F_CONTENTLENGTH" \in par.flags
    PROVE  Measured(par, n) \in Valued
<1>1. Measured(par, n) \in Values(Now)
  BY MeasuredIs DEF Valued
<1> DEFINE q == Measured(par, n)
<1>2. /\ q.type = par.type /\ q.state = par.state
      /\ q.header_state = par.header_state /\ q.flags = par.flags
      /\ q.uses_transfer_encoding = par.uses_transfer_encoding
  BY DEF Measured, Valued, Values, Parsers
<1>3. Plain(par) /\ par.state = "s_header_value"
  BY DEF Valued
<1> HIDE DEF q
<1>4. Plain(q)
  BY <1>2, <1>3 DEF FramingOK, Plain, ChunkStates
<1>. QED
  BY <1>1, <1>2, <1>3, <1>4 DEF Valued, q

LEMMA FlaggedFrames ==
    ASSUME NEW par \in Valued, NEW S \in SUBSET (Flags \ {"F_TRAILING", "F_CHUNKED"})
    PROVE  Flagged(par, S) \in Valued /\ Flagged(par, S).flags = par.flags \cup S
<1>1. Flagged(par, S) \in Values(Now)
  <2>1. S \in SUBSET (Flags \ {"F_TRAILING"})
    OBVIOUS
  <2>. QED
    BY <2>1, FlaggedIs DEF Valued
<1> DEFINE q == Flagged(par, S)
<1>2. /\ q.type = par.type /\ q.state = par.state
      /\ q.header_state = par.header_state /\ q.flags = par.flags \cup S
      /\ q.uses_transfer_encoding = par.uses_transfer_encoding
      /\ q.content_length = par.content_length
  BY DEF Flagged, Valued, Values, Parsers
<1>3. Plain(par) /\ par.state = "s_header_value"
  BY DEF Valued
<1>4. \A f \in {"F_TRAILING", "F_CHUNKED"} : f \in par.flags \cup S <=> f \in par.flags
  OBVIOUS
<1> HIDE DEF q
<1>5. Plain(q)
  BY <1>2, <1>3, <1>4 DEF FramingOK, Plain, ChunkStates
<1>. QED
  BY <1>1, <1>2, <1>3, <1>5 DEF Valued, q

LEMMA WrongFrames ==
    ASSUME NEW par \in Valued, NEW e \in WrongValues
    PROVE  Wrong(par, e) \in Valued
<1>1. Wrong(par, e) \in Values(Now)
  BY WrongIs DEF Valued
<1> DEFINE q == Wrong(par, e)
<1>2. /\ q.type = par.type /\ q.state = par.state
      /\ q.header_state = par.header_state /\ q.flags = par.flags
      /\ q.uses_transfer_encoding = par.uses_transfer_encoding
      /\ q.content_length = par.content_length
  BY DEF Wrong, Valued, Values, Parsers
<1>3. Plain(par) /\ par.state = "s_header_value"
  BY DEF Valued
<1> HIDE DEF q
<1>4. Plain(q)
  BY <1>2, <1>3 DEF FramingOK, Plain
<1>. QED
  BY <1>1, <1>2, <1>3, <1>4 DEF Valued, q

LEMMA ListedFrames ==
    ASSUME NEW u
    PROVE  Listed(ConnectionStates, u)
              \in HeaderStates \ (CodingHeaders \cup {"h_content_length_num"})
<1>1. u \in DOMAIN ConnectionStates =>
          ConnectionStates[u] \in HeaderStates \ (CodingHeaders \cup {"h_content_length_num"})
  BY DEF ConnectionStates, HeaderStates, CodingHeaders
<1>2. "close" \in DOMAIN ConnectionStates /\ "close" \notin DOMAIN CodingStates
  BY DEF ConnectionStates, CodingStates
<1>3. ConnectionStates # CodingStates
  BY <1>2
<1>4. Listed(ConnectionStates, u) = IF u \in DOMAIN ConnectionStates THEN ConnectionStates[u]
                                    ELSE "h_matching_connection_token"
  BY <1>3 DEF Listed
<1>. QED
  BY <1>1, <1>4 DEF HeaderStates, CodingHeaders

LEMMA ValueUnitFrames ==
    ASSUME NEW par \in Valued, NEW u
    PROVE  ValueUnit(par, u) \in Valued
<1> DEFINE hs == par.header_state
           v == ValueUnit(par, u)
           flagged == Flagged(Turned(par, "h_matching_connection_token_start"), ElementFlag(hs))
           longer == Measured(par, TimesPlus(par.content_length, Base, Digit[u]))
           wrong == Wrong(par, "INVALID_CONTENT_LENGTH")
           token == Wrong(par, "INVALID_HEADER_TOKEN")
           Uncoded == HeaderStates \ (CodingHeaders \cup {"h_content_length_num"})
           Coded == {"h_matching_transfer_encoding_token_start", "h_transfer_encoding_chunked",
                     "h_matching_transfer_encoding_token"}
<1>1. \/ v = par \/ v = wrong \/ v = token \/ v = flagged
      \/ IsNum(u) /\ hs = "h_content_length_num" /\ v = longer
      \/ hs \in CodingHeaders /\ \E h \in Coded : v = Turned(par, h)
      \/ \E h \in Uncoded : v = Turned(par, h)
  <2>1. CASE par.errno # "OK"
    BY <2>1 DEF ValueUnit
  <2>2. CASE par.errno = "OK" /\ ~IsHeaderChar(u)
    BY <2>2 DEF ValueUnit, Wrong
  <2> SUFFICES ASSUME par.errno = "OK", IsHeaderChar(u) PROVE <1>1!:
    BY <2>1, <2>2
  <2>3. CASE hs = "h_content_length_num"
    <3>1. v = Turned(par, "h_content_length_ws") \/ v = wrong \/ (IsNum(u) /\ v = longer)
      BY <2>3 DEF ValueUnit, ElementFlag, Turned, Wrong, Measured
    <3>2. "h_content_length_ws" \in Uncoded
      BY DEF HeaderStates, CodingHeaders
    <3> HIDE DEF v, longer
    <3>. QED
      BY <2>3, <3>1, <3>2
  <2>4. CASE hs = "h_content_length_ws"
    BY <2>4 DEF ValueUnit, ElementFlag, Wrong
  <2>5. CASE hs = "h_matching_transfer_encoding_token_start"
    <3>1. \/ v = par \/ v = Turned(par, Listed(CodingStates, u))
          \/ v = Turned(par, "h_general")
      BY <2>5 DEF ValueUnit, ElementFlag, Turned
    <3>2. /\ "h_general" \in Uncoded /\ hs \in CodingHeaders
          /\ Listed(CodingStates, u) \in Coded
      BY <2>5 DEF HeaderStates, Listed, CodingStates, CodingHeaders
    <3> HIDE DEF v
    <3>. QED
      BY <3>1, <3>2
  <2>6. CASE hs = "h_matching_connection_token_start"
    <3>1. \/ v = par \/ v = Turned(par, Listed(ConnectionStates, u))
          \/ v = Turned(par, "h_general")
      BY <2>6 DEF ValueUnit, ElementFlag, Turned
    <3>2. "h_general" \in Uncoded
      BY DEF HeaderStates, CodingHeaders
    <3>3. Listed(ConnectionStates, u) \in Uncoded
      BY ListedFrames
    <3> HIDE DEF v
    <3>. QED
      BY <3>1, <3>2, <3>3
  <2>7. CASE hs \notin {"h_content_length_num", "h_content_length_ws",
                        "h_matching_transfer_encoding_token_start",
                        "h_matching_connection_token_start"}
    <3>1. \/ v = par \/ v = flagged
          \/ /\ hs = "h_matching_transfer_encoding_token"
             /\ v = Turned(par, "h_matching_transfer_encoding_token_start")
          \/ /\ hs = "h_transfer_encoding_chunked"
             /\ v = Turned(par, "h_matching_transfer_encoding_token")
          \/ v = Turned(par, "h_matching_connection_token_start")
          \/ v = Turned(par, "h_matching_connection_token")
      BY <2>7 DEF ValueUnit, ElementFlag, Turned, Flagged
    <3>2. {"h_matching_connection_token_start", "h_matching_connection_token"} \subseteq Uncoded
      BY DEF HeaderStates, CodingHeaders
    <3>3. {"h_matching_transfer_encoding_token", "h_transfer_encoding_chunked"}
              \subseteq CodingHeaders
      BY DEF CodingHeaders
    <3> HIDE DEF v, flagged, Uncoded
    <3>. QED
      BY SMTT(30), <3>1, <3>2, <3>3
  <2>. QED
    BY <2>3, <2>4, <2>5, <2>6, <2>7
<1>2. flagged \in Valued
  <2>1. Turned(par, "h_matching_connection_token_start") \in Valued
    BY TurnedFrames DEF HeaderStates, CodingHeaders
  <2>2. ElementFlag(hs) \in SUBSET (Flags \ {"F_TRAILING", "F_CHUNKED"})
    BY DEF ElementFlag, Flags
  <2>. QED
    BY <2>1, <2>2, FlaggedFrames
<1>3. IsNum(u) /\ hs = "h_content_length_num" => longer \in Valued
  <2>1. par.content_length \in Nat
    <3>1. par.content_length \in 0..ULLONG_MAX
      BY DEF Valued, Values, Parsers
    <3>. QED
      BY <3>1, Numbers
  <2>2. IsNum(u) => TimesPlus(par.content_length, Base, Digit[u]) \in 0..ULLONG_MAX
    BY <2>1, NumType, Numbers, TimesPlusType
  <2>3. hs = "h_content_length_num" => "F_CONTENTLENGTH" \in par.flags
    BY DEF Valued, Plain, FramingOK, FieldLines
  <2>. QED
    BY <2>2, <2>3, MeasuredFrames
<1>4. ASSUME NEW h \in Coded, hs \in CodingHeaders PROVE Turned(par, h) \in Valued
  <2>1. h \in HeaderStates /\ h # "h_content_length_num"
    BY DEF HeaderStates
  <2>. QED
    BY <1>4, <2>1, TurnedFrames
<1>5. ASSUME NEW h \in Uncoded PROVE Turned(par, h) \in Valued
  BY TurnedFrames
<1>6. wrong \in Valued /\ token \in Valued
  BY WrongFrames DEF WrongValues
<1> HIDE DEF v, flagged, longer, wrong, token, Coded, Uncoded
<1>7. v \in Valued
  BY <1>1, <1>2, <1>3, <1>4, <1>5, <1>6
<1>. QED
  BY <1>7 DEF v

LEMMA ValueStartFrames ==
    ASSUME ParserInv, Reading, FramingOK(parser),
           parser.state \in {"s_header_value_discard_ws", "s_header_value_start"}
    PROVE  ValueStart(Now) \in Valued
<1> DEFINE hs == Now.header_state
           r == [Now EXCEPT !.state = "s_header_value"]
           to(h) == [Now EXCEPT !.state = "s_header_value", !.header_state = h]
<1>1. /\ Now \in Parsers /\ Now.errno = "OK" /\ hs \in HeaderStates
      /\ Now.state = parser.state /\ Now.flags = parser.flags
  BY Looking DEF Parsers
<1>2. LineTo("s_header_value")
  BY DEF LineTo, LengthStates, ChunkStates, FieldLines, HeadLines, HeaderLineStates, BetweenStates,
     UrlStates
<1>3. r \in Valued
  <2>1. r \in Values(Now) /\ r.state = "s_header_value"
    BY <1>1 DEF Values, Parsers, HeaderLineStates
  <2>2. Plain(r)
    BY <1>2, LineFrames
  <2>. QED
    BY <2>1, <2>2 DEF Valued
<1>4. \A h : to(h) = Turned(r, h)
  BY DEF Turned
<1>5. r.header_state = hs /\ r.flags = Now.flags
  BY <1>1 DEF Parsers
<1>6. hs = "h_content_length_num" => "F_CONTENTLENGTH" \in r.flags
  <2>1. hs = parser.header_state /\ parser.state \in FieldLines
    BY NowFrames DEF FieldLines
  <2>2. hs = "h_content_length_num" => "F_CONTENTLENGTH" \in parser.flags
    BY <2>1 DEF FramingOK
  <2> HIDE DEF r, hs
  <2>. QED
    BY <1>1, <1>5, <2>2
<1> HIDE DEF r
<1>7. ASSUME NEW h \in HeaderStates, h \in CodingHeaders => hs \in CodingHeaders,
             h = "h_content_length_num" => "F_CONTENTLENGTH" \in r.flags
      PROVE  to(h) \in Valued
  BY <1>3, <1>4, <1>5, <1>7, TurnedFrames
<1>8. CASE hs = "h_upgrade"
  <2> DEFINE g == to("h_general")
  <2>1. ValueStart(Now) = Flagged(g, {"F_UPGRADE"})
    BY <1>8 DEF ValueStart, Flagged
  <2>2. g \in Valued
    BY <1>7 DEF HeaderStates, CodingHeaders
  <2>3. {"F_UPGRADE"} \in SUBSET (Flags \ {"F_TRAILING", "F_CHUNKED"})
    BY DEF Flags
  <2> HIDE DEF g
  <2>. QED
    BY <2>1, <2>2, <2>3, FlaggedFrames
<1>9. CASE hs = "h_transfer_encoding"
  <2>1. ValueStart(Now) = to(Listed(CodingStates, Unit))
    BY <1>9 DEF ValueStart
  <2>2. hs \in CodingHeaders /\ Listed(CodingStates, Unit) # "h_content_length_num"
    BY <1>9 DEF CodingHeaders, Listed, CodingStates
  <2> HIDE DEF to
  <2>. QED
    BY <1>7, <2>1, <2>2, ListedType
<1>10. CASE hs = "h_connection"
  <2>1. ValueStart(Now) = to(Listed(ConnectionStates, Unit))
    BY <1>10 DEF ValueStart
  <2> HIDE DEF to
  <2>2. PICK h : h = Listed(ConnectionStates, Unit)
    OBVIOUS
  <2>. QED
    BY <1>7, <2>1, <2>2, ListedFrames
<1>11. CASE hs = "h_content_length"
  <2> DEFINE c == to("h_content_length")
             g == to("h_general")
             f == Flagged(r, {"F_CONTENTLENGTH"})
             s == Turned(f, "h_content_length_num")
             num == Measured(s, Digit[Unit])
  <2>1. \/ ValueStart(Now) = Wrong(c, "INVALID_CONTENT_LENGTH")
        \/ ValueStart(Now) = Wrong(c, "UNEXPECTED_CONTENT_LENGTH")
        \/ IsNum(Unit) /\ ValueStart(Now) = Measured(Flagged(to("h_content_length_num"), {"F_CONTENTLENGTH"}), Digit[Unit])
    BY <1>11 DEF ValueStart, Wrong, Flagged, Measured
  <2>2. c \in Valued
    BY <1>7 DEF HeaderStates, CodingHeaders
  <2>3. {"F_CONTENTLENGTH"} \in SUBSET (Flags \ {"F_TRAILING", "F_CHUNKED"})
    BY DEF Flags
  <2>4. f \in Valued /\ f.flags = r.flags \cup {"F_CONTENTLENGTH"}
    BY <1>3, <2>3, FlaggedFrames
  <2>5. s = Flagged(to("h_content_length_num"), {"F_CONTENTLENGTH"})
    BY <1>3, <1>4 DEF Turned, Flagged, Valued, Values, Parsers
  <2> HIDE DEF f, c, to
  <2>6. s \in Valued
    <3>1. "h_content_length_num" \in HeaderStates \ CodingHeaders /\ "F_CONTENTLENGTH" \in f.flags
      BY <2>4 DEF HeaderStates, CodingHeaders
    <3>. QED
      BY <2>4, <3>1, TurnedFrames
  <2>7. s.flags = f.flags
    BY <2>4 DEF Turned, Valued, Values, Parsers
  <2> HIDE DEF s
  <2>8. IsNum(Unit) => num \in Valued
    BY <2>4, <2>6, <2>7, NumType, MeasuredFrames
  <2>9. Wrong(c, "INVALID_CONTENT_LENGTH") \in Valued /\ Wrong(c, "UNEXPECTED_CONTENT_LENGTH") \in Valued
    BY <2>2, WrongFrames DEF WrongValues
  <2>. QED
    BY <2>1, <2>5, <2>8, <2>9
<1>12. CASE hs \in {"h_content_length_ws", "h_matching_connection_token_start",
                    "h_matching_transfer_encoding_token_start"}
  <2>1. ValueStart(Now) = to(hs)
    BY <1>12 DEF ValueStart
  <2> HIDE DEF to
  <2>. QED
    BY <1>1, <1>6, <1>7, <2>1
<1>13. CASE hs \notin {"h_upgrade", "h_transfer_encoding", "h_connection", "h_content_length",
                       "h_content_length_ws", "h_matching_connection_token_start",
                       "h_matching_transfer_encoding_token_start"}
  <2>1. ValueStart(Now) = to("h_general")
    BY <1>13 DEF ValueStart
  <2> HIDE DEF to
  <2>. QED
    BY <1>7, <2>1 DEF HeaderStates, CodingHeaders
<1>. QED
  BY <1>8, <1>9, <1>10, <1>11, <1>12, <1>13

\* However a handler ends, it leaves such a parser as it built it.
LEMMA EndFrames ==
    ASSUME NEW par, Framing(par), Plain(par),
           \/ \E to, again, cs, mk : Pass(par, to, again, cs, mk)
           \/ \E all, cs : Return(par, all, cs)
    PROVE  Plain(parser')
<1>1. CASE \E to, again, cs, mk : Pass(par, to, again, cs, mk)
  BY <1>1, PassFrames
<1>2. CASE \E all, cs : Return(par, all, cs)
  BY <1>2, ReturnFrames
<1>. QED
  BY <1>1, <1>2

LEMMA HeaderFieldStartFrames ==
    ASSUME ParserInv, FramingOK(parser), HeaderFieldStart
    PROVE  Plain(parser')
<1>1. Reading /\ parser.state = "s_header_field_start" /\ parser.state \notin LengthStates
  BY DEF HeaderFieldStart, At, LengthStates
<1>2. LineTo("s_headers_almost_done")
  BY <1>1 DEF LineTo, LengthStates, ChunkStates, FieldLines, HeadLines, HeaderLineStates,
     BetweenStates
<1>3. parser.state \in HeadLines
  BY <1>1 DEF HeadLines, HeaderLineStates, BetweenStates, ChunkStates
<1> DEFINE hs == IF Unit \in DOMAIN KeywordStates THEN KeywordStates[Unit] ELSE "h_general"
           te == Now.uses_transfer_encoding \/ Unit = "transfer_encoding"
           a == [Now EXCEPT !.state = "s_header_field"]
           b == [a EXCEPT !.header_state = hs]
           par == [b EXCEPT !.uses_transfer_encoding = te]
<1>4. CASE Pass([Now EXCEPT !.state = "s_header_field", !.header_state = hs,
                            !.uses_transfer_encoding = te], p + 1, FALSE, <<>>, MARK("header_field"))
  <2>1. hs # "h_content_length_num" /\ (hs \in CodingHeaders => Unit = "transfer_encoding")
    BY DEF KeywordStates, CodingHeaders
  <2>2. te \in BOOLEAN
    OBVIOUS
  <2>3. Unit = "transfer_encoding" => te = TRUE
    OBVIOUS
  <2>4. parser.uses_transfer_encoding = TRUE => te = TRUE
    <3>1. Now.uses_transfer_encoding = parser.uses_transfer_encoding
      BY <1>1, NowFrames
    <3>. QED
      BY <3>1
  <2>5. /\ Framing(a) /\ a.type = parser.type /\ a.state = "s_header_field"
        /\ a.flags = parser.flags /\ a.content_length = parser.content_length
    BY <1>1, NowFrames DEF Framing, FramingFields
  <2>6. [Now EXCEPT !.state = "s_header_field", !.header_state = hs,
                    !.uses_transfer_encoding = te] = par
    OBVIOUS
  <2> HIDE DEF hs, te, a
  <2>7. /\ Framing(b) /\ b.type = parser.type /\ b.state = "s_header_field" /\ b.header_state = hs
        /\ b.flags = parser.flags /\ b.content_length = parser.content_length
    BY <2>5 DEF Framing, FramingFields
  <2> HIDE DEF b
  <2>8. /\ Framing(par) /\ par.type = parser.type /\ par.state = "s_header_field"
        /\ par.header_state = hs /\ par.flags = parser.flags
        /\ par.content_length = parser.content_length /\ par.uses_transfer_encoding = te
    BY <2>7 DEF Framing, FramingFields
  <2> HIDE DEF par
  <2>9. Plain(par)
    BY <1>3, <2>1, <2>3, <2>4, <2>8 DEF FramingOK, Plain, LengthStates, ChunkStates
  <2>. QED
    BY <1>4, <2>6, <2>8, <2>9, EndFrames
<1>. QED
  BY <1>1, <1>2, <1>4, GotoFrames, FailFrames, Zenon DEF HeaderFieldStart

LEMMA HeaderFieldFrames ==
    ASSUME ParserInv, FramingOK(parser), HeaderField
    PROVE  Plain(parser')
<1>1. Reading /\ parser.state = "s_header_field"
  BY DEF HeaderField, At
<1> DEFINE stop == SelectInSubSeq(stream.wire, p, fed, LAMBDA u : ~IsToken(u))
           last == IF stop = 0 THEN fed ELSE stop
           name == IF stop = p THEN parser.header_state ELSE "h_general"
           n == CountMore(last - p)
           a == [Now EXCEPT !.nread = n]
           par == [a EXCEPT !.header_state = name]
           next == [par EXCEPT !.state = "s_header_value_discard_ws"]
           long == [par EXCEPT !.errno = "HEADER_OVERFLOW"]
           bad == [par EXCEPT !.errno = "INVALID_HEADER_TOKEN"]
<1>2. [Now EXCEPT !.nread = n, !.header_state = name] = par
  OBVIOUS
<1>3. \/ Return(long, FALSE, <<>>)
      \/ Pass(par, fed + 1, FALSE, <<>>, marks)
      \/ Pass(next, stop + 1, FALSE, Data("header_field", stop), Unmark("header_field"))
      \/ Return(bad, FALSE, <<>>)
  BY <1>2, Zenon DEF HeaderField
<1>4. name \in {parser.header_state, "h_general"}
  OBVIOUS
<1>5. /\ Framing(a) /\ a.type = parser.type /\ a.state = parser.state /\ a.flags = parser.flags
      /\ a.content_length = parser.content_length
      /\ a.uses_transfer_encoding = parser.uses_transfer_encoding
  <2> HIDE DEF n
  <2>. QED
    BY <1>1, NowFrames DEF Framing, FramingFields
<1> HIDE DEF stop, name, a
<1>6. /\ Framing(par) /\ par.type = parser.type /\ par.state = parser.state
      /\ par.flags = parser.flags /\ par.header_state = name
      /\ par.content_length = parser.content_length
      /\ par.uses_transfer_encoding = parser.uses_transfer_encoding
  BY <1>5 DEF Framing, FramingFields
<1> HIDE DEF par
<1>7. ASSUME NEW q, q \in {par, next, long, bad}
      PROVE  Framing(q) /\ Plain(q)
  <2>1. /\ Framing(q) /\ q.type = parser.type
        /\ q.state \in {"s_header_field", "s_header_value_discard_ws"}
        /\ q.flags = parser.flags /\ q.header_state \in {parser.header_state, "h_general"}
        /\ q.content_length = parser.content_length
        /\ q.uses_transfer_encoding = parser.uses_transfer_encoding
    BY <1>1, <1>4, <1>6, <1>7 DEF Framing, FramingFields
  <2>2. /\ parser.state \in HeadLines \cap FieldLines
    BY <1>1 DEF HeadLines, HeaderLineStates, BetweenStates, ChunkStates, FieldLines
  <2>. QED
    BY <2>1, <2>2 DEF FramingOK, Plain, LengthStates, ChunkStates, CodingHeaders
<1> HIDE DEF next, long, bad
<1>. QED
  BY <1>3, <1>7, EndFrames

LEMMA HeaderValueStartFrames ==
    ASSUME ParserInv, FramingOK(parser), Reading, HeaderValueStart,
           parser.state \in {"s_header_value_discard_ws", "s_header_value_start"}
    PROVE  Plain(parser')
<1> DEFINE par == ValueStart(Now)
<1>1. par \in Valued
  BY ValueStartFrames
<1>2. Pass(par, p + 1, FALSE, <<>>, MARK("header_value")) \/ Return(par, FALSE, <<>>)
  BY DEF HeaderValueStart
<1> HIDE DEF par
<1>3. Plain(par) /\ Framing(par)
  BY <1>1 DEF Valued, Values, Parsers, Framing, FramingFields
<1>. QED
  BY <1>2, <1>3, EndFrames

LEMMA HeaderValueFrames ==
    ASSUME ParserInv, FramingOK(parser), HeaderValue
    PROVE  Plain(parser')
<1>1. Reading /\ parser.state = "s_header_value"
  BY Zenon DEF HeaderValue, At
<1> DEFINE stop == SelectInSubSeq(stream.wire, p, fed, LAMBDA u : u \in {"CR", "LF"})
           last == IF stop = 0 THEN fed ELSE stop
           end == IF stop = 0 THEN fed + 1 ELSE stop
           value[i \in p..end] ==
               IF i = p THEN Now ELSE ValueUnit(value[i - 1], stream.wire[i - 1])
           v == value[end]
           n == CountMore(last - p)
           par == [v EXCEPT !.nread = n]
           line == [par EXCEPT !.state = "s_header_almost_done"]
           tooLong == [par EXCEPT !.errno = "HEADER_OVERFLOW"]
           data == Data("header_value", stop)
<1>2. stop = 0 \/ stop \in p..fed
  BY <1>1, LineEnd
<1>3. \/ \E all, cs : Return(v, all, cs) \/ Return(tooLong, all, cs)
      \/ \E to, again, cs, mk : Pass(par, to, again, cs, mk) \/ Pass(line, to, again, cs, mk)
  BY Zenon DEF HeaderValue
<1> HIDE DEF stop
<1>4. end \in p..(fed + 1)
  BY <1>1, <1>2, Looking
<1>5. v \in Valued
  <2>1. Now \in Valued
    <3>1. Now \in Values(Now) /\ Now.state = "s_header_value"
      BY <1>1, Looking DEF Values, Parsers
    <3>2. Plain(Now)
      BY <1>1, NowFrames DEF FramingOK, Plain, LengthStates
    <3>. QED
      BY <3>1, <3>2 DEF Valued
  <2>2. \A q \in Valued : \A u : ValueUnit(q, u) \in Valued
    BY ValueUnitFrames
  <2> HIDE DEF end
  <2>. QED
    BY <1>1, <1>4, <2>1, <2>2, UnitRuns
<1> HIDE DEF v, n
<1>6. Framing(v) /\ Plain(v) /\ v.state = "s_header_value"
  BY <1>5 DEF Valued, Values, Parsers, Framing, FramingFields
<1>7. ASSUME NEW q, q \in {par, tooLong}
      PROVE  Framing(q) /\ Plain(q) /\ q.state = "s_header_value"
  <2>1. /\ Framing(q) /\ q.type = v.type /\ q.state = v.state
        /\ q.header_state = v.header_state /\ q.flags = v.flags
        /\ q.uses_transfer_encoding = v.uses_transfer_encoding
        /\ q.content_length = v.content_length
    BY <1>6, <1>7 DEF Framing, FramingFields
  <2>. QED
    BY <1>6, <2>1 DEF FramingOK, Plain
<1>8. Framing(par) /\ Plain(par) /\ par.state = "s_header_value"
  BY <1>7
<1> HIDE DEF par
<1>9. Framing(line) /\ Plain(line)
  <2>1. /\ Framing(line) /\ line.type = par.type /\ line.state = "s_header_almost_done"
        /\ line.header_state = par.header_state /\ line.flags = par.flags
        /\ line.uses_transfer_encoding = par.uses_transfer_encoding
        /\ line.content_length = par.content_length
    BY <1>8 DEF Framing, FramingFields
  <2>2. par.state \in HeadLines \cap FieldLines
    BY <1>8 DEF HeadLines, HeaderLineStates, BetweenStates, ChunkStates, FieldLines
  <2> HIDE DEF line
  <2>. QED
    BY <1>8, <2>1, <2>2 DEF FramingOK, Plain, LengthStates, ChunkStates
<1>10. Framing(tooLong) /\ Plain(tooLong)
  BY <1>7
<1> HIDE DEF line, tooLong
<1>. QED
  BY <1>3, <1>6, <1>8, <1>9, <1>10, EndFrames

\* A field that is over may have been the last coding, which only the field of
\* codings may say.
LEMMA FieldEnds ==
    ASSUME ParserInv, Reading, FramingOK(parser),
           parser.state \in {"s_header_value_lws", "s_header_value_discard_lws"},
           NEW par, par = [Now EXCEPT !.state = "s_header_field_start",
                                      !.flags = @ \cup HeaderFlags(parser.header_state)]
    PROVE  Framing(par) /\ Plain(par)
<1> DEFINE S == HeaderFlags(parser.header_state)
           mid == [Now EXCEPT !.state = "s_header_field_start"]
           q == [mid EXCEPT !.flags = @ \cup S]
<1>1. par = q
  OBVIOUS
<1>2. parser.state \in HeadLines \cap FieldLines
  BY DEF HeadLines, HeaderLineStates, BetweenStates, ChunkStates, FieldLines
<1>3. "F_CHUNKED" \in S => parser.uses_transfer_encoding = TRUE
  <2>1. "F_CHUNKED" \in S => parser.header_state \in CodingHeaders
    BY DEF HeaderFlags, ElementFlag, CodingHeaders
  <2>. QED
    BY <1>2, <2>1 DEF FramingOK
<1>4. "F_TRAILING" \notin S /\ "F_CONTENTLENGTH" \notin S
  BY DEF HeaderFlags, ElementFlag
<1>5. LineTo("s_header_field_start")
  BY <1>2 DEF LineTo, LengthStates, ChunkStates, FieldLines
<1>6. Framing(mid) /\ Plain(mid) /\ mid.state = "s_header_field_start" /\ mid.flags = parser.flags
      /\ mid.uses_transfer_encoding = parser.uses_transfer_encoding
  BY <1>5, LineFrames, NowFrames DEF Framing, FramingFields
<1> HIDE DEF mid, S
<1>7. /\ Framing(q) /\ q.type = mid.type /\ q.state = "s_header_field_start"
      /\ q.header_state = mid.header_state /\ q.flags = mid.flags \cup S
      /\ q.uses_transfer_encoding = mid.uses_transfer_encoding
      /\ q.content_length = mid.content_length
  BY <1>6 DEF Framing, FramingFields
<1> HIDE DEF q
<1>8. Plain(q)
  BY <1>3, <1>4, <1>6, <1>7 DEF FramingOK, Plain, LengthStates, ChunkStates, FieldLines
<1>. QED
  BY <1>1, <1>7, <1>8

LEMMA ValueLwsFrames ==
    ASSUME ParserInv, FramingOK(parser), ValueLws
    PROVE  Plain(parser')
<1>1. Reading /\ parser.state = "s_header_value_lws"
  BY DEF ValueLws, At
<1> DEFINE hs == IF Now.header_state = "h_content_length_num" THEN "h_content_length_ws"
                 ELSE Now.header_state
           mid == [Now EXCEPT !.state = "s_header_value_start"]
           folded == [mid EXCEPT !.header_state = hs]
           ended == [Now EXCEPT !.state = "s_header_field_start",
                                !.flags = @ \cup HeaderFlags(parser.header_state)]
<1>2. Reexecute(folded) \/ Reexecute(ended)
  BY DEF ValueLws
<1>3. Framing(ended) /\ Plain(ended)
  BY <1>1, FieldEnds
<1>4. LineTo("s_header_value_start")
  BY <1>1 DEF LineTo, LengthStates, ChunkStates, FieldLines, HeadLines, HeaderLineStates,
     BetweenStates
<1>5. /\ Framing(mid) /\ Plain(mid) /\ mid.state = "s_header_value_start"
      /\ mid.header_state = Now.header_state
  BY <1>1, <1>4, LineFrames, NowFrames DEF Framing, FramingFields
<1>6. hs \in {mid.header_state, "h_content_length_ws"}
  BY <1>5
<1> HIDE DEF mid, ended, hs
<1>7. /\ Framing(folded) /\ folded.type = mid.type /\ folded.state = mid.state
      /\ folded.header_state = hs /\ folded.flags = mid.flags
      /\ folded.uses_transfer_encoding = mid.uses_transfer_encoding
      /\ folded.content_length = mid.content_length
  BY <1>5 DEF Framing, FramingFields
<1> HIDE DEF folded
<1>8. Plain(folded)
  BY <1>5, <1>6, <1>7 DEF FramingOK, Plain, CodingHeaders
<1>. QED
  BY <1>2, <1>3, <1>7, <1>8, EndFrames DEF Reexecute

LEMMA DiscardLwsFrames ==
    ASSUME ParserInv, FramingOK(parser), DiscardLws
    PROVE  Plain(parser')
<1>1. Reading /\ parser.state = "s_header_value_discard_lws" /\ parser.state \notin LengthStates
  BY DEF DiscardLws, At, LengthStates
<1> DEFINE ended == [Now EXCEPT !.state = "s_header_field_start",
                                !.flags = @ \cup HeaderFlags(parser.header_state)]
<1>2. Framing(ended) /\ Plain(ended)
  BY <1>1, FieldEnds
<1>3. LineTo("s_header_value_discard_ws")
  BY <1>1 DEF LineTo, LengthStates, ChunkStates, FieldLines, HeadLines, HeaderLineStates,
     BetweenStates
<1>4. \/ Goto("s_header_value_discard_ws") \/ Error("INVALID_CONTENT_LENGTH")
      \/ Pass(ended, p, TRUE, <<[cb |-> "header_value", data |-> <<>>]>>, marks)
  BY DEF DiscardLws
<1> HIDE DEF ended
<1>. QED
  BY <1>1, <1>2, <1>3, <1>4, EndFrames, GotoFrames, FailFrames

\* What the parser goes on with after the headers is what they say.
LEMMA HeadersAlmostDoneFrames ==
    ASSUME ParserInv, FramingOK(parser), HeadersAlmostDone
    PROVE  Plain(parser')
<1>1. Reading /\ parser.state = "s_headers_almost_done" /\ parser.state \notin LengthStates
  BY DEF HeadersAlmostDone, At, LengthStates
<1>2. LineTo("s_message_done")
  BY <1>1 DEF LineTo, LengthStates, ChunkStates, FieldLines, HeadLines, HeaderLineStates, UrlStates
<1> DEFINE trailer == [Now EXCEPT !.state = "s_message_done"]
           S == IF stream.answer = 0 THEN {} ELSE {"F_SKIPBODY"}
           up == Upgrading \/ stream.answer = 2
           a == [Now EXCEPT !.state = "s_headers_done"]
           b == [a EXCEPT !.stored = Counted]
           c == [b EXCEPT !.flags = @ \cup S]
           done == [c EXCEPT !.upgrade = up]
<1>3. [Now EXCEPT !.state = "s_headers_done", !.stored = Counted,
                  !.flags = IF stream.answer = 0 THEN @ ELSE @ \cup {"F_SKIPBODY"},
                  !.upgrade = Upgrading \/ stream.answer = 2] = done
  <2>1. (IF stream.answer = 0 THEN Now.flags ELSE Now.flags \cup {"F_SKIPBODY"}) = Now.flags \cup S
    OBVIOUS
  <2> HIDE DEF S
  <2>. QED
    BY <2>1
<1>4. \/ Error("STRICT") \/ Error("UNEXPECTED_CONTENT_LENGTH")
      \/ Pass(trailer, p, TRUE, Notify("chunk_complete"), marks)
      \/ /\ "F_TRAILING" \notin parser.flags /\ ~TwoFramings
         /\ Pass(done, p, TRUE, Notify("headers_complete"), marks)
  BY <1>3 DEF HeadersAlmostDone
<1>5. Framing(trailer) /\ Plain(trailer)
  BY <1>1, <1>2, LineFrames
<1>6. /\ Framing(a) /\ a.type = parser.type /\ a.state = "s_headers_done" /\ a.flags = parser.flags
      /\ a.content_length = parser.content_length
      /\ a.uses_transfer_encoding = parser.uses_transfer_encoding
  BY <1>1, NowFrames DEF Framing, FramingFields
<1>7. S \in SUBSET {"F_SKIPBODY"}
  OBVIOUS
<1> HIDE DEF a, S, up, trailer
<1>8. /\ Framing(b) /\ b.type = parser.type /\ b.state = "s_headers_done" /\ b.flags = parser.flags
      /\ b.content_length = parser.content_length
      /\ b.uses_transfer_encoding = parser.uses_transfer_encoding
  BY <1>6 DEF Framing, FramingFields
<1> HIDE DEF b
<1>9. /\ Framing(c) /\ c.type = parser.type /\ c.state = "s_headers_done"
      /\ c.flags = parser.flags \cup S
      /\ c.content_length = parser.content_length
      /\ c.uses_transfer_encoding = parser.uses_transfer_encoding
  BY <1>8 DEF Framing, FramingFields
<1> HIDE DEF c
<1>10. /\ Framing(done) /\ done.type = parser.type /\ done.state = "s_headers_done"
       /\ done.flags = parser.flags \cup S
       /\ done.content_length = parser.content_length
       /\ done.uses_transfer_encoding = parser.uses_transfer_encoding
  BY <1>9 DEF Framing, FramingFields
<1> HIDE DEF done
<1>11. ASSUME "F_TRAILING" \notin parser.flags, ~TwoFramings
       PROVE  Plain(done)
  <2>1. ~(parser.uses_transfer_encoding = TRUE /\ "F_CONTENTLENGTH" \in parser.flags)
    BY <1>11 DEF TwoFramings
  <2>2. \A f \in {"F_CHUNKED", "F_TRAILING", "F_CONTENTLENGTH"} :
            f \in done.flags <=> f \in parser.flags
    BY <1>7, <1>10
  <2>3. parser.state \in HeadLines
    BY <1>1 DEF HeadLines, HeaderLineStates, BetweenStates, ChunkStates
  <2>. QED
    BY <1>10, <1>11, <2>1, <2>2, <2>3 DEF FramingOK, Plain, LengthStates, ChunkStates, FieldLines
<1>. QED
  BY <1>1, <1>4, <1>5, <1>10, <1>11, EndFrames, FailFrames

LEMMA HeadersFrames ==
    ASSUME ParserInv, FramingOK(parser), Headers
    PROVE  Plain(parser')
<1>1. CASE DiscardWs
  <2>1. Reading /\ parser.state = "s_header_value_discard_ws" /\ parser.state \notin LengthStates
    BY <1>1 DEF DiscardWs, At, LengthStates
  <2>2. LineTo("s_header_value_discard_ws_almost_done") /\ LineTo("s_header_value_discard_lws")
    BY <2>1 DEF LineTo, LengthStates, ChunkStates, FieldLines, HeadLines, HeaderLineStates,
       BetweenStates
  <2>. QED
    BY <1>1, <2>1, <2>2, SkipFrames, GotoFrames, HeaderValueStartFrames DEF DiscardWs
<1>2. CASE FoldedStart
  BY <1>2, HeaderValueStartFrames DEF FoldedStart, At
<1>3. CASE HeaderAlmostDone
  <2>1. Reading /\ parser.state = "s_header_almost_done" /\ parser.state \notin LengthStates
    BY <1>3 DEF HeaderAlmostDone, At, LengthStates
  <2>2. LineTo("s_header_value_lws")
    BY <2>1 DEF LineTo, LengthStates, ChunkStates, FieldLines, HeadLines, HeaderLineStates,
       BetweenStates
  <2>. QED
    BY <1>3, <2>1, <2>2, GotoFrames, FailFrames DEF HeaderAlmostDone
<1>4. CASE DiscardWsAlmostDone
  <2>1. /\ Reading /\ parser.state = "s_header_value_discard_ws_almost_done"
        /\ parser.state \notin LengthStates
    BY <1>4 DEF DiscardWsAlmostDone, At, LengthStates
  <2>2. LineTo("s_header_value_discard_lws")
    BY <2>1 DEF LineTo, LengthStates, ChunkStates, FieldLines, HeadLines, HeaderLineStates,
       BetweenStates
  <2>. QED
    BY <1>4, <2>1, <2>2, GotoFrames, FailFrames DEF DiscardWsAlmostDone
<1>. QED
  BY <1>1, <1>2, <1>3, <1>4, HeaderFieldStartFrames, HeaderFieldFrames, HeaderValueFrames,
     ValueLwsFrames, DiscardLwsFrames, HeadersAlmostDoneFrames DEF Headers

\* Between two messages nothing of a framing is left but what the fields said.
LEMMA CompleteFrames ==
    ASSUME NEW par, Framing(par), FramingOK(par), NEW exits, MessageComplete(par, exits)
    PROVE  Plain(parser')
<1> DEFINE next == [par EXCEPT !.state = NEW_MESSAGE(par)]
<1>1. \/ Return(next, p = fed, Notify("message_complete"))
      \/ Pass(next, p + 1, FALSE, Notify("message_complete"), marks)
  BY DEF MessageComplete
<1>2. NEW_MESSAGE(par) \in BetweenStates
  BY DEF NEW_MESSAGE, start_state, BetweenStates
<1>3. /\ Framing(next) /\ next.type = par.type /\ next.state \in BetweenStates
      /\ next.header_state = par.header_state /\ next.flags = par.flags
      /\ next.uses_transfer_encoding = par.uses_transfer_encoding
      /\ next.content_length = par.content_length
  BY <1>2 DEF Framing, FramingFields
<1> HIDE DEF next
<1>4. next.state \notin HeadLines /\ next.state \notin FieldLines
  BY <1>3 DEF BetweenStates, HeadLines, FieldLines
<1>5. Plain(next)
  BY <1>3, <1>4 DEF FramingOK, Plain, LengthStates, ChunkStates, BetweenStates
<1>. QED
  BY <1>1, <1>3, <1>5, EndFrames

LEMMA RestartedFrames ==
    ASSUME ParserInv, Reading, FramingOK(parser)
    PROVE  /\ Framing(Restarted) /\ FramingOK(Restarted)
           /\ Restarted.type = parser.type /\ Restarted.state = parser.state
           /\ Restarted.header_state = parser.header_state /\ Restarted.flags = parser.flags
           /\ Restarted.uses_transfer_encoding = parser.uses_transfer_encoding
           /\ Restarted.content_length = parser.content_length
           /\ Restarted.uses_transfer_encoding \in BOOLEAN
<1>1. /\ Framing(Restarted)
      /\ Restarted.type = parser.type /\ Restarted.state = parser.state
      /\ Restarted.header_state = parser.header_state /\ Restarted.flags = parser.flags
      /\ Restarted.uses_transfer_encoding = parser.uses_transfer_encoding
      /\ Restarted.content_length = parser.content_length
  BY NowFrames DEF Restarted, Framing, FramingFields
<1>2. parser.uses_transfer_encoding \in BOOLEAN
  BY Looking DEF Parsers
<1>. QED
  BY <1>1, <1>2 DEF FramingOK

\* The one way the headers lead to.
LEMMA HeadersDoneFrames ==
    ASSUME ParserInv, FramingOK(parser), HeadersDone
    PROVE  /\ FramingOK(parser')
           /\ Plain(parser') \/ (heard' = heard /\ marks' = marks)
<1>1. Reading /\ parser.state = "s_headers_done"
  BY DEF HeadersDone, At
<1> DEFINE par == Restarted
           chunked == "F_CHUNKED" \in par.flags
           hasBody == chunked \/ par.content_length \notin {0, ULLONG_MAX}
           bad == [par EXCEPT !.errno = "INVALID_TRANSFER_ENCODING"]
           chunks == [par EXCEPT !.state = "s_chunk_size_start"]
           rest == [par EXCEPT !.state = "s_body_identity_eof"]
           sized == [par EXCEPT !.state = "s_body_identity"]
<1>2. \/ \E exits : MessageComplete(par, exits)
      \/ chunked /\ Break(chunks)
      \/ Return(bad, FALSE, <<>>)
      \/ ~chunked /\ par.type # "HTTP_REQUEST" /\ Break(rest)
      \/ ~chunked /\ ~par.uses_transfer_encoding /\ hasBody /\ Break(sized)
  BY Zenon DEF HeadersDone, http_message_needs_eof
<1> HIDE DEF par
<1>3. /\ Framing(par) /\ FramingOK(par) /\ par.state = "s_headers_done"
      /\ par.uses_transfer_encoding \in BOOLEAN
  BY <1>1, RestartedFrames DEF par
<1>4. /\ "F_TRAILING" \notin par.flags
      /\ ~(par.uses_transfer_encoding = TRUE /\ "F_CONTENTLENGTH" \in par.flags)
      /\ "F_CHUNKED" \in par.flags => par.uses_transfer_encoding = TRUE
  BY <1>3 DEF FramingOK
<1>5. par.content_length # ULLONG_MAX => "F_CONTENTLENGTH" \in par.flags
  <2>1. "s_headers_done" \in HeadLines
    BY DEF HeadLines, HeaderLineStates, BetweenStates, ChunkStates
  <2>. QED
    BY <1>3, <1>4, <2>1 DEF FramingOK
<1>6. ASSUME NEW s, NEW q, q = [par EXCEPT !.state = s]
      PROVE  /\ Framing(q) /\ q.type = par.type /\ q.state = s
             /\ q.header_state = par.header_state /\ q.flags = par.flags
             /\ q.uses_transfer_encoding = par.uses_transfer_encoding
             /\ q.content_length = par.content_length
  BY <1>3, <1>6 DEF Framing, FramingFields
<1>7. CASE \E exits : MessageComplete(par, exits)
  <2>1. Plain(parser')
    BY <1>3, <1>7, CompleteFrames
  <2>. QED
    BY <2>1 DEF Plain
<1>8. CASE chunked /\ Break(chunks)
  <2>1. Framing(chunks) /\ Plain(chunks)
    <3>1. /\ Framing(chunks) /\ chunks.type = par.type /\ chunks.state = "s_chunk_size_start"
          /\ chunks.header_state = par.header_state /\ chunks.flags = par.flags
          /\ chunks.uses_transfer_encoding = par.uses_transfer_encoding
          /\ chunks.content_length = par.content_length
      BY <1>6
    <3> HIDE DEF chunks
    <3>. QED
      BY <1>4, <1>8, <3>1 DEF FramingOK, Plain, LengthStates, ChunkStates, FieldLines, HeadLines
  <2> HIDE DEF chunks
  <2>2. Plain(parser')
    BY <1>8, <2>1, EndFrames DEF Break
  <2>. QED
    BY <2>2 DEF Plain
<1>9. CASE Return(bad, FALSE, <<>>)
  <2>1. /\ Framing(bad) /\ bad.type = par.type /\ bad.state = "s_headers_done"
        /\ bad.header_state = par.header_state /\ bad.flags = par.flags
        /\ bad.uses_transfer_encoding = par.uses_transfer_encoding
        /\ bad.content_length = par.content_length
    BY <1>3 DEF Framing, FramingFields
  <2> HIDE DEF bad
  <2>2. Plain(bad)
    BY <1>3, <2>1 DEF FramingOK, Plain, LengthStates
  <2>3. Plain(parser')
    BY <1>9, <2>1, <2>2, EndFrames
  <2>. QED
    BY <2>3 DEF Plain
<1>10. CASE ~chunked /\ par.type # "HTTP_REQUEST" /\ Break(rest)
  <2>1. Framing(rest) /\ Plain(rest)
    <3>1. /\ Framing(rest) /\ rest.type = par.type /\ rest.state = "s_body_identity_eof"
          /\ rest.header_state = par.header_state /\ rest.flags = par.flags
          /\ rest.uses_transfer_encoding = par.uses_transfer_encoding
          /\ rest.content_length = par.content_length
      BY <1>6
    <3> HIDE DEF rest
    <3>. QED
      BY <1>4, <1>10, <3>1
         DEF FramingOK, Plain, LengthStates, ChunkStates, FieldLines, HeadLines, HeaderLineStates,
             UrlStates
  <2> HIDE DEF rest
  <2>2. Plain(parser')
    BY <1>10, <2>1, EndFrames DEF Break
  <2>. QED
    BY <2>2 DEF Plain
<1>11. CASE ~chunked /\ ~par.uses_transfer_encoding /\ hasBody /\ Break(sized)
  <2>1. Framing(sized) /\ FramingOK(sized)
    <3>1. /\ Framing(sized) /\ sized.type = par.type /\ sized.state = "s_body_identity"
          /\ sized.header_state = par.header_state /\ sized.flags = par.flags
          /\ sized.uses_transfer_encoding = par.uses_transfer_encoding
          /\ sized.content_length = par.content_length
      BY <1>6
    <3>2. "F_CONTENTLENGTH" \in par.flags /\ par.uses_transfer_encoding = FALSE
      BY <1>3, <1>5, <1>11
    <3> HIDE DEF sized
    <3>. QED
      BY <1>11, <3>1, <3>2
         DEF FramingOK, ChunkStates, FieldLines, HeadLines, HeaderLineStates, UrlStates
  <2>2. Pass(sized, p + 1, FALSE, <<>>, marks)
    BY <1>11 DEF Break
  <2> HIDE DEF sized
  <2>3. FramingOK(parser')
    BY <2>1, <2>2, PassFrames
  <2>4. ~Pauses(<<>>)
    BY DEF Pauses
  <2>5. Call(<<>>) /\ marks' = marks
    BY <2>2, <2>4 DEF Pass
  <2>. QED
    BY <2>3, <2>5, CallNobody
<1>. QED
  BY <1>2, <1>7, <1>8, <1>9, <1>10, <1>11

\* What is left of a length says nothing of the framing once the head is over.
BodyTo(from, s) ==
    /\ from \notin HeadLines /\ s \notin HeadLines \cup FieldLines \cup {"s_headers_done"}
    /\ s \in {"s_body_identity", "s_body_identity_eof"} => s = from
    /\ s \in ChunkStates => from \in ChunkStates
Leaves(par, s, n) == [par EXCEPT !.state = s, !.content_length = n]

LEMMA LeftFrames ==
    ASSUME NEW par, Framing(par), FramingOK(par), NEW s, BodyTo(par.state, s), NEW n
    PROVE  /\ Framing(Leaves(par, s, n)) /\ FramingOK(Leaves(par, s, n))
           /\ Leaves(par, s, n).state = s /\ Leaves(par, s, n).content_length = n
<1> DEFINE a == [par EXCEPT !.state = s]
           q == Leaves(par, s, n)
<1>1. q = [a EXCEPT !.content_length = n]
  BY DEF Leaves
<1>2. /\ Framing(a) /\ a.type = par.type /\ a.state = s
      /\ a.header_state = par.header_state /\ a.flags = par.flags
      /\ a.uses_transfer_encoding = par.uses_transfer_encoding
  BY DEF Framing, FramingFields
<1> HIDE DEF a
<1>3. /\ Framing(q) /\ q.type = par.type /\ q.state = s
      /\ q.header_state = par.header_state /\ q.flags = par.flags
      /\ q.uses_transfer_encoding = par.uses_transfer_encoding
      /\ q.content_length = n
  BY <1>1, <1>2 DEF Framing, FramingFields
<1> HIDE DEF q
<1>4. FramingOK(q)
  BY <1>3 DEF FramingOK, BodyTo
<1>. QED
  BY <1>3, <1>4 DEF q

LEMMA BodiesFrames ==
    ASSUME ParserInv, FramingOK(parser), Bodies
    PROVE  FramingOK(parser')
<1>1. CASE HeadersDone
  BY <1>1, HeadersDoneFrames
<1>2. CASE BodyIdentity
  <2>1. Reading /\ parser.state = "s_body_identity"
    BY <1>2 DEF BodyIdentity, At
  <2> DEFINE n == Now.content_length - ToRead
             par == [Now EXCEPT !.content_length = n]
             done == [par EXCEPT !.state = "s_message_done"]
  <2>2. \/ \E to, again, cs, mk : Pass(done, to, again, cs, mk)
        \/ \E to, again, cs, mk : Pass(par, to, again, cs, mk)
    BY <1>2 DEF BodyIdentity
  <2>3. /\ Framing(Now) /\ Now.state = "s_body_identity" /\ FramingOK(Now)
    BY <2>1, NowFrames DEF FramingOK
  <2>4. BodyTo(Now.state, "s_body_identity") /\ BodyTo(Now.state, "s_message_done")
    BY <2>3 DEF BodyTo, HeadLines, HeaderLineStates, UrlStates, FieldLines, ChunkStates
  <2> HIDE DEF n
  <2>5. par = Leaves(Now, "s_body_identity", n)
    <3> DEFINE k == [Now EXCEPT !.state = "s_body_identity"]
    <3>1. k = Now
      BY <2>1, <2>3, Looking DEF Parsers
    <3>. QED
      BY <3>1 DEF Leaves
  <2>6. done = Leaves(Now, "s_message_done", n)
    BY <2>1, Looking DEF Parsers, Leaves
  <2> HIDE DEF done, par
  <2>7. Framing(par) /\ FramingOK(par)
    BY <2>3, <2>4, <2>5, LeftFrames
  <2>8. Framing(done) /\ FramingOK(done)
    BY <2>3, <2>4, <2>6, LeftFrames
  <2>. QED
    BY <2>2, <2>7, <2>8, PassFrames
<1>3. CASE BodyIdentityEof
  <2>1. Reading
    BY <1>3 DEF BodyIdentityEof, At
  <2>2. Framing(Now) /\ FramingOK(Now)
    BY <2>1, NowFrames DEF FramingOK
  <2>. QED
    BY <1>3, <2>2, PassFrames DEF BodyIdentityEof
<1>4. CASE MessageDone
  <2>1. Reading
    BY <1>4 DEF MessageDone, At
  <2>2. Framing(Now) /\ FramingOK(Now)
    BY <2>1, NowFrames DEF FramingOK
  <2>3. Plain(parser')
    BY <1>4, <2>2, CompleteFrames DEF MessageDone
  <2>. QED
    BY <2>3 DEF Plain
<1>. QED
  BY <1>1, <1>2, <1>3, <1>4 DEF Bodies

LEMMA LeavesIs ==
    ASSUME NEW par \in Parsers, NEW s, NEW n
    PROVE  /\ [par EXCEPT !.state = s] = Leaves(par, s, par.content_length)
           /\ [par EXCEPT !.content_length = n] = Leaves(par, par.state, n)
           /\ par = Leaves(par, par.state, par.content_length)
BY DEF Parsers, Leaves

\* From one line of a chunk to another.
LEMMA ChunkFrames ==
    ASSUME ParserInv, Reading, FramingOK(parser), parser.state \in ChunkStates,
           NEW s \in ChunkStates, NEW n, NEW from \in {Now, Restarted},
           NEW to, NEW again, NEW cs, NEW mk, Pass(Leaves(from, s, n), to, again, cs, mk)
    PROVE  FramingOK(parser') /\ parser'.state = s
<1>1. /\ Framing(from) /\ FramingOK(from) /\ from.state = parser.state
  BY NowFrames, RestartedFrames DEF FramingOK
<1>2. BodyTo(from.state, s)
  BY <1>1 DEF BodyTo, HeadLines, ChunkStates, FieldLines
<1>. QED
  BY <1>1, <1>2, LeftFrames, PassFrames

LEMMA ChunkGotoFrames ==
    ASSUME ParserInv, Reading, FramingOK(parser), parser.state \in ChunkStates,
           NEW s \in ChunkStates, Goto(s)
    PROVE  FramingOK(parser') /\ parser'.state = s
<1>1. [Now EXCEPT !.state = s] = Leaves(Now, s, Now.content_length)
  BY Looking, LeavesIs
<1>2. PICK n : n = Now.content_length
  OBVIOUS
<1>3. Pass(Leaves(Now, s, n), p + 1, FALSE, <<>>, marks)
  BY <1>1, <1>2 DEF Goto, Break
<1>. QED
  BY <1>3, ChunkFrames

\* The headers of the trailer are not those of a body any more.
LEMMA TrailerFrames ==
    ASSUME ParserInv, Reading, FramingOK(parser), NEW par,
           par = [Restarted EXCEPT !.flags = @ \cup {"F_TRAILING"},
                                   !.state = "s_header_field_start"]
    PROVE  Framing(par) /\ Plain(par)
<1> DEFINE a == [Restarted EXCEPT !.flags = @ \cup {"F_TRAILING"}]
           q == [a EXCEPT !.state = "s_header_field_start"]
<1>1. par = q
  OBVIOUS
<1>2. /\ Framing(a) /\ a.type = parser.type /\ a.flags = parser.flags \cup {"F_TRAILING"}
      /\ a.uses_transfer_encoding = parser.uses_transfer_encoding
  BY RestartedFrames DEF Framing, FramingFields
<1> HIDE DEF a
<1>3. /\ Framing(q) /\ q.type = parser.type /\ q.flags = parser.flags \cup {"F_TRAILING"}
      /\ q.uses_transfer_encoding = parser.uses_transfer_encoding
      /\ q.state = "s_header_field_start"
  BY <1>2 DEF Framing, FramingFields
<1> HIDE DEF q
<1>4. Plain(q)
  BY <1>3 DEF FramingOK, Plain, LengthStates, ChunkStates, FieldLines
<1>. QED
  BY <1>1, <1>3, <1>4

\* The lines around a chunk.
ChunkLines == ChunkSizeStart \/ ChunkSize \/ ChunkParameters \/ ChunkDataDone

LEMMA ChunkLinesFrames ==
    ASSUME ParserInv, FramingOK(parser), ChunkLines
    PROVE  /\ FramingOK(parser') /\ parser.state \notin LengthStates
           /\ parser'.state \notin LengthStates
<1>0. Reading /\ parser.state \in {"s_chunk_size_start", "s_chunk_size", "s_chunk_parameters",
                                   "s_chunk_data_done"}
  BY DEF ChunkLines, ChunkSizeStart, ChunkSize, ChunkParameters, ChunkDataDone, At
<1>1. Reading /\ parser.state \in ChunkStates /\ parser.state \notin LengthStates
  BY <1>0 DEF ChunkStates, LengthStates
<1>2. /\ Now \in Parsers /\ Restarted \in Parsers
      /\ Now.state = parser.state /\ Restarted.state = parser.state
  BY <1>1, Looking, RestartedType, NowFrames
<1>3. CASE ChunkSizeStart
  <2>1. [Now EXCEPT !.state = "s_chunk_size", !.content_length = Digit[Unit]]
            = Leaves(Now, "s_chunk_size", Digit[Unit])
    BY DEF Leaves
  <2>2. "s_chunk_size" \in ChunkStates \ LengthStates
    BY DEF ChunkStates, LengthStates
  <2>3. PICK n : n = Digit[Unit]
    OBVIOUS
  <2>4. Pass(Leaves(Now, "s_chunk_size", n), p + 1, FALSE, <<>>, marks) \/ Error("INVALID_CHUNK_SIZE")
    BY <1>3, <2>1, <2>3 DEF ChunkSizeStart, Break
  <2>. QED
    BY <1>1, <2>2, <2>4, ChunkFrames, FailFrames
<1>4. CASE ChunkSize
  <2> DEFINE n == TimesPlus(Now.content_length, HexBase, Digit[Unit])
  <2>1. \A k : [Now EXCEPT !.content_length = k] = Leaves(Now, parser.state, k)
    BY <1>2 DEF Parsers, Leaves
  <2>2. {"s_chunk_size_almost_done", "s_chunk_parameters"} \subseteq ChunkStates \ LengthStates
    BY DEF ChunkStates, LengthStates
  <2>3. \/ Goto("s_chunk_size_almost_done") \/ Goto("s_chunk_parameters")
        \/ Error("INVALID_CHUNK_SIZE") \/ Error("INVALID_CONTENT_LENGTH")
        \/ Pass([Now EXCEPT !.content_length = n], p + 1, FALSE, <<>>, marks)
    BY <1>4 DEF ChunkSize, Break
  <2> HIDE DEF n
  <2>4. PICK k : k = n
    OBVIOUS
  <2>5. CASE Pass([Now EXCEPT !.content_length = n], p + 1, FALSE, <<>>, marks)
    <3>1. Pass(Leaves(Now, parser.state, k), p + 1, FALSE, <<>>, marks)
      BY <2>1, <2>4, <2>5
    <3>. QED
      BY <1>1, <3>1, ChunkFrames
  <2>. QED
    BY <1>1, <2>2, <2>3, <2>5, ChunkGotoFrames, FailFrames
<1>5. CASE ChunkParameters
  <2>1. Now = Leaves(Now, parser.state, Now.content_length)
    BY <1>2, LeavesIs
  <2>2. "s_chunk_size_almost_done" \in ChunkStates \ LengthStates
    BY DEF ChunkStates, LengthStates
  <2>3. Break(Leaves(Now, parser.state, Now.content_length)) \/ Goto("s_chunk_size_almost_done")
    BY <1>5, <2>1 DEF ChunkParameters
  <2>. QED
    BY <1>1, <2>2, <2>3, ChunkFrames, ChunkGotoFrames DEF Break
<1>6. CASE ChunkDataDone
  <2>1. [Restarted EXCEPT !.state = "s_chunk_size_start"]
            = Leaves(Restarted, "s_chunk_size_start", Restarted.content_length)
    BY <1>2, LeavesIs
  <2>2. "s_chunk_size_start" \in ChunkStates \ LengthStates
    BY DEF ChunkStates, LengthStates
  <2>3. \/ Error("STRICT")
        \/ Pass(Leaves(Restarted, "s_chunk_size_start", Restarted.content_length), p + 1, FALSE,
                Notify("chunk_complete"), marks)
    BY <1>6, <2>1 DEF ChunkDataDone
  <2>. QED
    BY <1>1, <2>2, <2>3, ChunkFrames, FailFrames
<1>. QED
  BY <1>1, <1>3, <1>4, <1>5, <1>6 DEF ChunkLines

LEMMA ChunksFrames ==
    ASSUME ParserInv, FramingOK(parser), Chunks
    PROVE  FramingOK(parser')
<1>1. Reading /\ parser.state \in ChunkStates
  BY DEF Chunks, ChunkSizeStart, ChunkSize, ChunkParameters, ChunkSizeAlmostDone, ChunkData,
     ChunkDataAlmostDone, ChunkDataDone, At, ChunkStates
<1>2. /\ Now \in Parsers /\ Restarted \in Parsers
      /\ Now.state = parser.state /\ Restarted.state = parser.state
  BY <1>1, Looking, RestartedType, NowFrames
<1>3. CASE ChunkLines
  BY <1>3, ChunkLinesFrames
<1>4. CASE ChunkSizeAlmostDone
  <2> DEFINE trailer == [Restarted EXCEPT !.flags = @ \cup {"F_TRAILING"},
                                          !.state = "s_header_field_start"]
             chunk == [Restarted EXCEPT !.state = "s_chunk_data"]
  <2>1. chunk = Leaves(Restarted, "s_chunk_data", Restarted.content_length)
    BY <1>2, LeavesIs
  <2>2. "s_chunk_data" \in ChunkStates
    BY DEF ChunkStates
  <2>3. Framing(trailer) /\ Plain(trailer)
    BY <1>1, TrailerFrames
  <2>4. \/ Error("STRICT")
        \/ Pass(trailer, p + 1, FALSE, Notify("chunk_header"), marks)
        \/ Pass(chunk, p + 1, FALSE, Notify("chunk_header"), marks)
    BY <1>4 DEF ChunkSizeAlmostDone
  <2> HIDE DEF trailer, chunk
  <2>5. CASE Pass(trailer, p + 1, FALSE, Notify("chunk_header"), marks)
    <3>1. Plain(parser')
      BY <2>3, <2>5, EndFrames
    <3>. QED
      BY <3>1 DEF Plain
  <2>. QED
    BY <1>1, <2>1, <2>2, <2>4, <2>5, ChunkFrames, FailFrames
<1>5. CASE ChunkData
  <2> DEFINE n == Now.content_length - ToRead
             par == [Now EXCEPT !.content_length = n]
             done == [par EXCEPT !.state = "s_chunk_data_almost_done"]
  <2>1. par = Leaves(Now, parser.state, n)
    <3>1. \A k : [Now EXCEPT !.content_length = k] = Leaves(Now, parser.state, k)
      BY <1>2 DEF Parsers, Leaves
    <3> HIDE DEF n
    <3>. QED
      BY <3>1
  <2>2. done = Leaves(Now, "s_chunk_data_almost_done", n)
    BY <1>2 DEF Parsers, Leaves
  <2>3. \/ Pass(par, p + ToRead, FALSE, <<>>, MARK("body"))
        \/ Pass(done, p + ToRead, FALSE, <<>>, MARK("body"))
    BY <1>5 DEF ChunkData
  <2>4. "s_chunk_data_almost_done" \in ChunkStates
    BY DEF ChunkStates
  <2> HIDE DEF par, done, n
  <2>. QED
    BY <1>1, <2>1, <2>2, <2>3, <2>4, ChunkFrames
<1>6. CASE ChunkDataAlmostDone
  <2>1. [Now EXCEPT !.state = "s_chunk_data_done"]
            = Leaves(Now, "s_chunk_data_done", Now.content_length)
    BY <1>2, LeavesIs
  <2>2. "s_chunk_data_done" \in ChunkStates
    BY DEF ChunkStates
  <2>3. \/ Error("STRICT")
        \/ Pass(Leaves(Now, "s_chunk_data_done", Now.content_length), p + 1, FALSE,
                Data("body", p), Unmark("body"))
    BY <1>6, <2>1 DEF ChunkDataAlmostDone
  <2>. QED
    BY <1>1, <2>2, <2>3, ChunkFrames, FailFrames
<1>. QED
  BY <1>3, <1>4, <1>5, <1>6 DEF Chunks, ChunkLines

\* Calls and their ends leave the framing alone.
LEMMA CallsFrame ==
    ASSUME ParserInv,
           \/ \E n \in stream.pieces \cup {Left} : http_parser_execute(n)
           \/ Resume \/ AtEof \/ EndOfPiece
    PROVE  /\ \A f \in FramingFields : parser'[f] = parser[f]
           /\ FramingOK(parser) => FramingOK(parser')
           /\ parser'.state = parser.state /\ parser'.content_length = parser.content_length
<1>1. parser \in Parsers
  BY DEF ParserInv, TypeOK
<1>2. \/ parser' = parser
      \/ \E e : parser' = [parser EXCEPT !.errno = e]
      \/ \E e, n : parser' = [parser EXCEPT !.errno = e, !.nread = n]
      \/ \E n : parser' = [parser EXCEPT !.stored = n]
  BY Zenon DEF http_parser_execute, Resume, AtEof, EndOfPiece, Return, Paused
<1>3. \A f \in FramingFields : parser'[f] = parser[f]
  BY <1>1, <1>2 DEF Parsers, FramingFields
<1>4. /\ parser'.type = parser.type /\ parser'.state = parser.state
      /\ parser'.header_state = parser.header_state /\ parser'.flags = parser.flags
      /\ parser'.uses_transfer_encoding = parser.uses_transfer_encoding
      /\ parser'.content_length = parser.content_length
  BY <1>3 DEF FramingFields
<1>. QED
  BY <1>3, <1>4 DEF FramingOK

LEMMA InitFrames == Init => FramingOK(parser)
<1> SUFFICES ASSUME Init PROVE FramingOK(parser)
  OBVIOUS
<1>1. parser.flags = {} /\ parser.state \in BetweenStates
  BY DEF Init, BetweenStates
<1>. QED
  BY <1>1 DEF FramingOK, BetweenStates, FieldLines, HeadLines, ChunkStates

LEMMA FramingStep == ParserInv /\ FramingOK(parser) /\ [Next]_vars => FramingOK(parser')
<1> SUFFICES ASSUME ParserInv, FramingOK(parser), [Next]_vars PROVE FramingOK(parser')
  OBVIOUS
<1>1. CASE \/ \E n \in stream.pieces \cup {Left} : http_parser_execute(n)
           \/ Resume \/ AtEof \/ EndOfPiece
  BY <1>1, CallsFrame
<1>2. CASE HeaderOverflow
  BY <1>2, FailFrames DEF HeaderOverflow
<1>3. CASE StatusLine \/ RequestLine \/ Headers
  <2>1. Plain(parser')
    BY <1>3, StatusLineFrames, RequestLineFrames, HeadersFrames
  <2>. QED
    BY <2>1 DEF Plain
<1>4. CASE Bodies \/ Chunks
  BY <1>4, BodiesFrames, ChunksFrames
<1>5. CASE UNCHANGED vars
  BY <1>5 DEF vars
<1>. QED
  BY <1>1, <1>2, <1>3, <1>4, <1>5 DEF Next

LEMMA AlwaysFraming == Spec => [](ParserInv /\ FramingOK(parser))
<1>1. ParserInv /\ FramingOK(parser) /\ [Next]_vars => FramingOK(parser)'
  BY FramingStep
<1>. QED
  BY <1>1, InitInv, StepInv, InitFrames, PTL DEF Spec

\* Whatever fields a message has, in whatever order and however many pieces
\* they come in, its body is read by its one length, or in chunks if it is no
\* length's, or, if it is no request, to the end of the stream.
THEOREM FramedOneWay == Spec => []OneFraming
<1>1. ParserInv /\ FramingOK(parser) => OneFraming
  <2> SUFFICES ASSUME ParserInv, FramingOK(parser) PROVE OneFraming
    OBVIOUS
  <2>1. parser.uses_transfer_encoding \in BOOLEAN
    BY DEF ParserInv, TypeOK, Parsers
  <2>2. CASE parser.uses_transfer_encoding = TRUE
    BY <2>2 DEF FramingOK, OneFraming
  <2>3. CASE parser.uses_transfer_encoding = FALSE
    BY <2>3 DEF FramingOK, OneFraming
  <2>. QED
    BY <2>1, <2>2, <2>3
<1>. QED
  BY <1>1, AlwaysFraming, PTL

-----------------------------------------------------------------------------
(* Bodies as long as they say. *)

\* The last body heard, and what is marked of it.
LastBody(h) == IF h # <<>> /\ h[Len(h)].cb = "body" THEN Len(h[Len(h)].data) ELSE 0
Unsent(mk, at) == IF mk["body"] = 0 THEN 0 ELSE at - mk["body"]

\* A mark is not ahead of what is read.
BodyBehind(par, mk, at) == par.state \in LengthStates /\ at # 0 => mk["body"] <= at
BodyInv == ParserInv /\ FramingOK(parser) /\ BodyBehind(parser, marks, p)

\* What a step does of BodyAsDeclared.
Accounts ==
    /\ parser.state \notin LengthStates /\ parser'.state \in LengthStates => BodySoFar' = 0
    /\ parser.state \in LengthStates /\ parser'.errno \in {"OK", "PAUSED"} =>
         /\ BodySoFar' + parser'.content_length = BodySoFar + parser.content_length
         /\ parser'.state \notin LengthStates => parser'.content_length = 0

LEMMA SoFarIs ==
    /\ BodySoFar = LastBody(heard) + Unsent(marks, p)
    /\ BodySoFar' = LastBody(heard') + Unsent(marks', p')
BY DEF BodySoFar, LastBody, Unsent

LEMMA LastBodyType ==
    ASSUME ParserInv
    PROVE  LastBody(heard) \in Nat /\ (LastTold # "body" => LastBody(heard) = 0)
<1>1. heard \in Seq(Events)
  BY DEF ParserInv
<1>2. CASE heard # <<>>
  <2>1. heard[Len(heard)] \in Events
    BY <1>1, <1>2
  <2>2. Len(heard[Len(heard)].data) \in Nat
    BY <2>1 DEF Events
  <2>. QED
    BY <1>2, <2>2 DEF LastBody, LastTold, ToldLast
<1>3. CASE heard = <<>>
  BY <1>3 DEF LastBody
<1>. QED
  BY <1>2, <1>3

\* What is told of a body adds to what was told of it; anything else begins
\* what is not a body.
LEMMA BodyHeard ==
    ASSUME ParserInv, NEW c \in Events, Call(<<c>>)
    PROVE  /\ c.cb = "body" => LastBody(heard') = LastBody(heard) + Len(c.data)
           /\ c.cb # "body" => LastBody(heard') = 0
<1>1. heard \in Seq(Events) /\ heard' = Hear(heard, c) /\ c.data \in Seq(STRING)
      /\ Len(c.data) \in Nat
  BY CallOnce DEF ParserInv, Events
<1> DEFINE n == Len(heard)
           joins == heard # <<>> /\ c.cb \in Marked /\ heard[n].cb = c.cb
<1>2. CASE joins
  <2>1. n \in Nat \ {0} /\ heard[n] \in Events
    BY <1>1, <1>2
  <2>2. heard[n].data \in Seq(STRING)
    BY <2>1 DEF Events
  <2> DEFINE e == [heard[n] EXCEPT !.data = @ \o c.data]
  <2>3. heard' = [heard EXCEPT ![n] = e]
    BY <1>1, <1>2 DEF Hear
  <2>4. e.cb = c.cb /\ e.data = heard[n].data \o c.data
    BY <1>2, <2>1 DEF Events
  <2>5. Len(e.data) = Len(heard[n].data) + Len(c.data)
    BY <1>1, <2>2, <2>4, ConcatProperties
  <2> HIDE DEF e
  <2>6. heard' # <<>> /\ Len(heard') = n /\ heard'[n] = e
    BY <1>1, <2>1, <2>3
  <2>. QED
    BY <1>2, <2>4, <2>5, <2>6 DEF LastBody
<1>3. CASE ~joins
  <2>1. heard' = Append(heard, c)
    BY <1>1, <1>3, Zenon DEF Hear
  <2>2. heard' # <<>> /\ Len(heard') = n + 1 /\ heard'[n + 1] = c /\ n \in Nat
    BY <1>1, <2>1
  <2>3. c.cb = "body" => LastBody(heard) = 0
    BY <1>3 DEF LastBody, Marked
  <2>4. LastBody(heard') = IF c.cb = "body" THEN Len(c.data) ELSE 0
    BY <2>2 DEF LastBody
  <2>. QED
    BY <1>1, <2>3, <2>4
<1>. QED
  BY <1>2, <1>3

\* Where a pass ends.
LEMMA PassesThere ==
    ASSUME NEW par, NEW to, NEW again, NEW cs, NEW mk, Pass(par, to, again, cs, mk)
    PROVE  /\ Call(cs)
           /\ \/ p' = to /\ marks' = mk
              \/ cs # <<>> /\ p' = 0 /\ marks' = NoMarks
BY DEF Pass, Paused, Pauses

LEMMA NoneUnsent ==
    ASSUME NEW mk, mk["body"] = 0, NEW at
    PROVE  Unsent(mk, at) = 0
BY DEF Unsent

LEMMA NothingAtAll == NoMarks["body"] = 0
BY DEF NoMarks, Marked

\* Outside of a body or a chunk there is nothing to account for.
LEMMA OutsideAccounts ==
    ASSUME parser.state \notin LengthStates, parser'.state \notin LengthStates
    PROVE  Accounts /\ BodyBehind(parser', marks', p')
BY DEF Accounts, BodyBehind

\* Inside of one, an error may leave it as it is.
LEMMA ErrorAccounts ==
    ASSUME ParserInv, FramingOK(parser), Reading, NEW e, Error(e), e \notin {"OK", "PAUSED"}
    PROVE  Accounts /\ BodyBehind(parser', marks', p')
<1>1. parser'.state = parser.state /\ parser'.errno = e
  BY FailFrames
<1>2. p' = 0
  BY DEF Error, Return
<1>. QED
  BY <1>1, <1>2 DEF Accounts, BodyBehind

LEMMA BodyUnmarkedThere ==
    ASSUME ParserInv, Reading, parser.state \in UnmarkedStates
    PROVE  marks["body"] = 0
BY Looking, NothingMarked DEF Marked

\* A body or a chunk begins with nothing of it told or marked.
LEMMA BodiesAccount ==
    ASSUME ParserInv, FramingOK(parser), HeadersDone \/ BodyIdentityEof \/ MessageDone
    PROVE  Accounts /\ BodyBehind(parser', marks', p')
<1>1. Reading /\ parser.state \in {"s_headers_done", "s_body_identity_eof", "s_message_done"}
  BY DEF HeadersDone, BodyIdentityEof, MessageDone, At
<1>2. parser.state \notin LengthStates
  BY <1>1 DEF LengthStates
<1>3. CASE Plain(parser')
  BY <1>2, <1>3, OutsideAccounts DEF Plain
<1>4. CASE HeadersDone /\ heard' = heard /\ marks' = marks
  <2>1. parser.state = "s_headers_done"
    BY <1>4 DEF HeadersDone, At
  <2>2. LastTold = "headers_complete" /\ parser.state \in UnmarkedStates
    BY <1>1, <2>1, Looking DEF Fits, Telling, UnmarkedStates
  <2>3. marks["body"] = 0 /\ LastBody(heard) = 0
    BY <1>1, <2>2, BodyUnmarkedThere, LastBodyType
  <2>4. BodySoFar' = 0
    BY <1>4, <2>3, SoFarIs DEF Unsent
  <2>5. p' \in Nat
    BY <1>4, StepInv, SamePlaces, BodiesFrames DEF Next, Bodies, ParserInv, TypeOK
  <2>. QED
    BY <1>2, <1>4, <2>3, <2>4, <2>5 DEF Accounts, BodyBehind
<1>5. CASE BodyIdentityEof
  <2>1. Framing(Now) /\ Plain(Now)
    BY <1>1, <1>2, NowFrames DEF FramingOK, Plain
  <2>2. Plain(parser')
    BY <1>5, <2>1, EndFrames DEF BodyIdentityEof
  <2>. QED
    BY <1>3, <2>2
<1>6. CASE MessageDone
  <2>1. Framing(Now) /\ FramingOK(Now)
    BY <1>1, NowFrames DEF FramingOK
  <2>2. Plain(parser')
    BY <1>6, <2>1, CompleteFrames DEF MessageDone
  <2>. QED
    BY <1>3, <2>2
<1>. QED
  BY <1>3, <1>4, <1>5, <1>6, HeadersDoneFrames

LEMMA ChunkBeginAccounts ==
    ASSUME ParserInv, FramingOK(parser), ChunkSizeAlmostDone
    PROVE  Accounts /\ BodyBehind(parser', marks', p')
<1>1. Reading /\ parser.state = "s_chunk_size_almost_done" /\ parser.state \notin LengthStates
  BY DEF ChunkSizeAlmostDone, At, LengthStates
<1>2. marks["body"] = 0
  BY <1>1, BodyUnmarkedThere DEF UnmarkedStates
<1>3. CASE Error("STRICT")
  BY <1>1, <1>3, ErrorAccounts
<1>4. CASE \E par : Pass(par, p + 1, FALSE, Notify("chunk_header"), marks)
  <2>1. PICK cb \in DOMAIN Follows : cb = "chunk_header"
    BY DEF Follows
  <2>2. PICK c \in Events : c.cb = cb /\ Notify(cb) = <<c>>
    BY NotifyType DEF Notify
  <2>3. Call(<<c>>) /\ marks' \in {marks, NoMarks} /\ p' \in {0, p + 1}
    BY <1>4, <2>1, <2>2, PassesThere
  <2>4. LastBody(heard') = 0
    BY <2>1, <2>2, <2>3, BodyHeard
  <2>5. marks'["body"] = 0
    BY <1>2, <2>3, NothingAtAll
  <2>6. BodySoFar' = 0
    BY <2>4, <2>5, SoFarIs DEF Unsent
  <2>7. p' \in Nat
    BY <1>1, <2>3, Looking
  <2>. QED
    BY <1>1, <2>5, <2>6, <2>7 DEF Accounts, BodyBehind
<1>. QED
  BY <1>3, <1>4 DEF ChunkSizeAlmostDone

\* A piece of a body is marked where it begins, and not yet told.
LEMMA MarksHere ==
    ASSUME ParserInv, Reading, marks["body"] <= p, NEW at \in Nat, at >= p
    PROVE  /\ MARK("body")["body"] \in 1..p
           /\ Unsent(MARK("body"), at) = Unsent(marks, p) + (at - p)
           /\ at - MARK("body")["body"] = Unsent(marks, p) + (at - p)
           /\ Unsent(marks, p) \in Nat
<1>1. marks \in [Marked -> 0..fed] /\ p \in 1..fed /\ fed \in Nat /\ "body" \in Marked
  BY Looking DEF Marked
<1>2. PICK b \in 0..fed : b = marks["body"]
  BY <1>1
<1>3. MARK("body")["body"] = IF b = 0 THEN p ELSE b
  BY <1>1, <1>2 DEF MARK
<1>4. Unsent(marks, p) = IF b = 0 THEN 0 ELSE p - b
  BY <1>2 DEF Unsent
<1>5. Unsent(MARK("body"), at) = at - MARK("body")["body"]
  BY <1>1, <1>2, <1>3 DEF Unsent
<1>. QED
  BY <1>1, <1>2, <1>3, <1>4, <1>5

LEMMA LengthType == ASSUME ParserInv PROVE parser.content_length \in Nat
<1>1. parser.content_length \in 0..ULLONG_MAX
  BY DEF ParserInv, TypeOK, Parsers
<1>. QED
  BY <1>1, Numbers

\* As much is read as is left less.
LEMMA ReadsOn ==
    ASSUME BodyInv, Reading, parser.state \in LengthStates, NEW par, Framing(par),
           parser.content_length \notin {0, ULLONG_MAX},
           par.content_length = Now.content_length - ToRead,
           par.state \in LengthStates \/ par.content_length = 0,
           Pass(par, p + ToRead, FALSE, <<>>, MARK("body"))
    PROVE  Accounts /\ BodyBehind(parser', marks', p')
<1>1. /\ ToRead \in Nat /\ ToRead >= 1 /\ p + ToRead \in p..(fed + 1) /\ p \in Nat /\ fed \in Nat
      /\ p # 0
  BY ToReadIs, Looking DEF BodyInv
<1>2. /\ parser' = par \/ parser'.content_length = par.content_length
      /\ parser'.state = par.state /\ parser'.content_length = par.content_length
  BY PassFrames
<1>3. p' = p + ToRead /\ marks' = MARK("body") /\ heard' = heard
  <2>1. Call(<<>>) /\ p' = p + ToRead /\ marks' = MARK("body")
    BY PassesThere
  <2>. QED
    BY <2>1, CallNobody
<1>4. marks["body"] <= p /\ ParserInv
  BY <1>1 DEF BodyInv, BodyBehind
<1>5. PICK at \in Nat : at = p + ToRead
  BY <1>1
<1>6. /\ MARK("body")["body"] \in 1..p
      /\ Unsent(MARK("body"), at) = Unsent(marks, p) + (at - p)
      /\ Unsent(marks, p) \in Nat
  BY <1>1, <1>4, <1>5, MarksHere
<1>7. BodySoFar' = BodySoFar + ToRead /\ BodySoFar \in Nat
  <2>1. LastBody(heard) \in Nat
    BY <1>4, LastBodyType
  <2>2. BodySoFar = LastBody(heard) + Unsent(marks, p)
        /\ BodySoFar' = LastBody(heard) + Unsent(MARK("body"), at)
    BY <1>3, <1>5, SoFarIs
  <2>. QED
    BY <1>1, <1>5, <1>6, <2>1, <2>2
<1>8. parser'.content_length = parser.content_length - ToRead /\ parser.content_length \in Nat
  <2>1. parser.content_length \in Nat
    BY <1>4, LengthType
  <2>2. Now.content_length = parser.content_length
    BY <1>4, NowFrames
  <2>. QED
    BY <1>2, <2>1, <2>2
<1>9. BodyBehind(parser', marks', p')
  BY <1>1, <1>3, <1>6 DEF BodyBehind
<1>10. BodySoFar' + parser'.content_length = BodySoFar + parser.content_length
  BY <1>1, <1>7, <1>8
<1>. QED
  BY <1>2, <1>9, <1>10 DEF Accounts

\* What was read is told, with nothing left.
LEMMA TellsBody ==
    ASSUME BodyInv, Reading, parser.state \in LengthStates, NEW c \in Events, c.cb = "body",
           NEW cs, cs = <<c>>, NEW at \in Nat, at >= p, NEW read \in Nat, read = at - p,
           Len(c.data) = at - MARK("body")["body"], parser.content_length = read,
           NEW par, Framing(par), par.content_length = 0, par.state \notin LengthStates,
           NEW to, NEW again, Pass(par, to, again, cs, Unmark("body"))
    PROVE  Accounts /\ BodyBehind(parser', marks', p')
<1>1. parser'.state = par.state /\ parser'.content_length = 0
  BY PassFrames
<1>2. Call(<<c>>) /\ marks' \in {Unmark("body"), NoMarks}
  BY PassesThere
<1>3. ParserInv /\ marks["body"] <= p /\ p # 0
  BY DEF BodyInv, BodyBehind, Reading
<1>4. marks'["body"] = 0
  <2>1. marks \in [Marked -> 0..fed] /\ "body" \in Marked
    BY <1>3, Looking DEF Marked
  <2>2. Unmark("body")["body"] = 0
    BY <2>1 DEF Unmark
  <2>. QED
    BY <1>2, <2>2, NothingAtAll
<1>5. LastBody(heard') = LastBody(heard) + Len(c.data)
  BY <1>2, <1>3, BodyHeard
<1>6. /\ at - MARK("body")["body"] = Unsent(marks, p) + (at - p)
      /\ Unsent(marks, p) \in Nat
  BY <1>3, MarksHere
<1>7. LastBody(heard) \in Nat
  BY <1>3, LastBodyType
<1>8. BodySoFar' = LastBody(heard') /\ BodySoFar = LastBody(heard) + Unsent(marks, p)
  <2>1. LastBody(heard') \in Nat
    <3>1. Len(c.data) \in Nat
      BY DEF Events
    <3>. QED
      BY <1>5, <1>7, <3>1
  <2>. QED
    BY <1>4, <2>1, NoneUnsent, SoFarIs
<1>9. BodySoFar' + parser'.content_length = BodySoFar + parser.content_length
  BY <1>1, <1>5, <1>6, <1>7, <1>8
<1>. QED
  BY <1>1, <1>9 DEF Accounts, BodyBehind

LEMMA BodyIdentityAccounts ==
    ASSUME BodyInv, BodyIdentity
    PROVE  Accounts /\ BodyBehind(parser', marks', p')
<1>1. /\ ParserInv /\ Reading /\ parser.state = "s_body_identity"
      /\ parser.state \in LengthStates
  BY DEF BodyInv, BodyIdentity, At, LengthStates
<1>2. parser.content_length \notin {0, ULLONG_MAX}
  BY <1>1, Looking DEF Fits, Framed
<1> DEFINE mark == MARK("body")["body"]
           n == Now.content_length - ToRead
           par == [Now EXCEPT !.content_length = n]
           done == [par EXCEPT !.state = "s_message_done"]
           c == [cb |-> "body", data |-> SubSeq(stream.wire, mark, p + ToRead - 1)]
<1>3. \/ par.content_length = 0 /\ Pass(done, p + ToRead - 1, TRUE, <<c>>, Unmark("body"))
      \/ Pass(par, p + ToRead, FALSE, <<>>, MARK("body"))
  BY DEF BodyIdentity
<1>4. Framing(Now) /\ Now.state = "s_body_identity" /\ Now.content_length = parser.content_length
  BY <1>1, NowFrames
<1>5. Framing(par) /\ par.content_length = n /\ par.state = "s_body_identity"
  BY <1>4 DEF Framing, FramingFields
<1> HIDE DEF par
<1>6. Framing(done) /\ done.content_length = n /\ done.state = "s_message_done"
  BY <1>5 DEF Framing, FramingFields
<1> HIDE DEF done, mark
<1>7. CASE Pass(par, p + ToRead, FALSE, <<>>, MARK("body"))
  BY <1>1, <1>2, <1>5, <1>7, ReadsOn DEF LengthStates
<1>8. CASE par.content_length = 0 /\ Pass(done, p + ToRead - 1, TRUE, <<c>>, Unmark("body"))
  <2>1. /\ ToRead \in Nat /\ ToRead >= 1 /\ p + ToRead - 1 \in p..fed /\ p \in Nat
        /\ p # 0 /\ fed <= Len(stream.wire) /\ fed \in Nat /\ Len(stream.wire) \in Nat
    BY <1>1, <1>2, ToReadIs, Looking
  <2>2. PICK at \in Nat : at = p + ToRead
    BY <2>1
  <2>3. parser.content_length = ToRead
    <3>1. parser.content_length \in Nat /\ n = 0 /\ n = parser.content_length - ToRead
      BY <1>1, <1>4, <1>5, <1>8, LengthType
    <3> HIDE DEF n
    <3>. QED
      BY <2>1, <3>1
  <2>4. mark \in 1..p
    BY <1>1, <2>1, <2>2, MarksHere DEF mark, BodyInv, BodyBehind
  <2>5. SubSeq(stream.wire, mark, at - 1) \in Seq(STRING)
        /\ Len(SubSeq(stream.wire, mark, at - 1)) = at - mark
    <3>1. /\ mark \in Int /\ at - 1 \in Int /\ mark <= at - 1 /\ at - 1 <= Len(stream.wire)
          /\ mark >= 1 /\ (at - 1) - mark + 1 = at - mark
      BY <2>1, <2>2, <2>4
    <3>2. \A i \in mark..(at - 1) : stream.wire[i] \in STRING
      BY <1>1, <2>1, <3>1, Streamed DEF ParserInv
    <3>. QED
      BY <3>1, <3>2, SubSeqProperties
  <2>6. c.data = SubSeq(stream.wire, mark, at - 1) /\ c.cb = "body"
    <3>1. p + ToRead - 1 = at - 1
      BY <2>1, <2>2
    <3>. QED
      BY <3>1
  <2>7. c \in Events /\ Len(c.data) = at - mark
    BY <2>5, <2>6 DEF Events, Follows
  <2> HIDE DEF c
  <2>8. PICK read \in Nat : read = ToRead
    BY <2>1
  <2>9. read = at - p /\ at >= p /\ parser.content_length = read
    BY <2>1, <2>2, <2>3, <2>8
  <2>10. Len(c.data) = at - MARK("body")["body"]
    BY <2>7 DEF mark
  <2>11. done.content_length = 0 /\ done.state \notin LengthStates
    BY <1>5, <1>6, <1>8 DEF LengthStates
  <2>12. PICK cs : cs = <<c>>
    OBVIOUS
  <2>13. Pass(done, p + ToRead - 1, TRUE, cs, Unmark("body"))
    BY <1>8, <2>12
  <2>. QED
    BY <1>1, <1>6, <2>6, <2>7, <2>9, <2>10, <2>11, <2>12, <2>13, TellsBody
<1>. QED
  BY <1>3, <1>7, <1>8

LEMMA ChunkDataAccounts ==
    ASSUME BodyInv, ChunkData
    PROVE  Accounts /\ BodyBehind(parser', marks', p')
<1>1. /\ ParserInv /\ Reading /\ parser.state = "s_chunk_data" /\ parser.state \in LengthStates
  BY DEF BodyInv, ChunkData, At, LengthStates
<1>2. parser.content_length \notin {0, ULLONG_MAX}
  BY <1>1, Looking DEF Fits, Framed
<1> DEFINE n == Now.content_length - ToRead
           par == [Now EXCEPT !.content_length = n]
           done == [par EXCEPT !.state = "s_chunk_data_almost_done"]
<1>3. \/ Pass(done, p + ToRead, FALSE, <<>>, MARK("body"))
      \/ Pass(par, p + ToRead, FALSE, <<>>, MARK("body"))
  BY DEF ChunkData
<1>4. Framing(Now) /\ Now.state = "s_chunk_data"
  BY <1>1, NowFrames
<1>5. Framing(par) /\ par.content_length = n /\ par.state = "s_chunk_data"
  BY <1>4 DEF Framing, FramingFields
<1> HIDE DEF par
<1>6. Framing(done) /\ done.content_length = n /\ done.state = "s_chunk_data_almost_done"
  BY <1>5 DEF Framing, FramingFields
<1> HIDE DEF done
<1>. QED
  BY <1>1, <1>2, <1>3, <1>5, <1>6, ReadsOn DEF LengthStates

LEMMA ChunkEndAccounts ==
    ASSUME BodyInv, ChunkDataAlmostDone
    PROVE  Accounts /\ BodyBehind(parser', marks', p')
<1>1. /\ ParserInv /\ Reading /\ parser.state = "s_chunk_data_almost_done"
      /\ parser.state \in LengthStates /\ FramingOK(parser)
  BY DEF BodyInv, ChunkDataAlmostDone, At, LengthStates
<1>2. parser.content_length = 0
  BY <1>1, Looking DEF Fits, Framed
<1> DEFINE par == [Now EXCEPT !.state = "s_chunk_data_done"]
<1>3. Error("STRICT") \/ Pass(par, p + 1, FALSE, Data("body", p), Unmark("body"))
  BY DEF ChunkDataAlmostDone
<1>4. Framing(Now) /\ Now.content_length = 0
  BY <1>1, <1>2, NowFrames
<1>5. Framing(par) /\ par.content_length = 0 /\ par.state = "s_chunk_data_done"
  BY <1>4 DEF Framing, FramingFields
<1> HIDE DEF par
<1>6. /\ p \in Nat /\ p # 0 /\ p <= Len(stream.wire) + 1 /\ "body" \in Marked
      /\ marks["body"] <= p /\ par.state \notin LengthStates /\ marks \in [Marked -> 0..fed]
  BY <1>1, <1>5, Looking DEF Marked, BodyInv, BodyBehind, LengthStates
<1>7. CASE Error("STRICT")
  BY <1>1, <1>7, ErrorAccounts
<1>8. CASE marks["body"] # 0 /\ Pass(par, p + 1, FALSE, Data("body", p), Unmark("body"))
  <2>1. PICK c \in Events : Data("body", p) = <<c>> /\ c.cb = "body"
    BY <1>1, <1>6, <1>8, DataTold
  <2>2. Len(c.data) = p - MARK("body")["body"]
    <3>1. marks["body"] \in Nat
          /\ Len(c.data) = IF marks["body"] <= p - 1 THEN p - marks["body"] ELSE 0
      BY <1>1, <1>6, <1>8, <2>1, DataLength
    <3>2. MARK("body")["body"] = marks["body"]
      BY <1>8 DEF MARK
    <3>. QED
      BY <1>6, <3>1, <3>2
  <2>3. PICK cs : cs = Data("body", p)
    OBVIOUS
  <2>4. cs = <<c>> /\ Pass(par, p + 1, FALSE, cs, Unmark("body"))
    BY <1>8, <2>1, <2>3
  <2>5. 0 \in Nat /\ 0 = p - p /\ p >= p
    BY <1>6
  <2>. QED
    BY <1>1, <1>2, <1>5, <1>6, <2>1, <2>2, <2>4, <2>5, TellsBody
<1>9. CASE marks["body"] = 0 /\ Pass(par, p + 1, FALSE, Data("body", p), Unmark("body"))
  <2>1. Pass(par, p + 1, FALSE, <<>>, Unmark("body"))
    BY <1>9 DEF Data
  <2>2. Call(<<>>) /\ marks' = Unmark("body")
    BY <2>1, PassesThere
  <2>3. marks'["body"] = 0 /\ heard' = heard
    BY <1>6, <2>2, CallNobody DEF Unmark
  <2>4. BodySoFar' = BodySoFar
    BY <1>9, <2>3, SoFarIs DEF Unsent
  <2>5. parser'.state = par.state /\ parser'.content_length = 0
    BY <1>5, <1>9, PassFrames
  <2>. QED
    BY <1>2, <1>6, <2>4, <2>5 DEF Accounts, BodyBehind
<1>. QED
  BY <1>3, <1>7, <1>8, <1>9

\* Calls and their ends: what is marked in a piece is told at its end.
LEMMA CallsAccount ==
    ASSUME BodyInv,
           \/ \E n \in stream.pieces \cup {Left} : http_parser_execute(n)
           \/ Resume \/ AtEof \/ EndOfPiece
    PROVE  Accounts /\ BodyBehind(parser', marks', p')
<1>1. ParserInv /\ parser'.state = parser.state /\ parser'.content_length = parser.content_length
  BY CallsFrame DEF BodyInv
<1>2. CASE parser.state \notin LengthStates
  BY <1>1, <1>2, OutsideAccounts
<1> SUFFICES ASSUME parser.state \in LengthStates
             PROVE  Accounts /\ BodyBehind(parser', marks', p')
  BY <1>2
<1>3. ASSUME BodySoFar' = BodySoFar, p' = 0 \/ marks'["body"] <= p'
      PROVE  Accounts /\ BodyBehind(parser', marks', p')
  BY <1>1, <1>3 DEF Accounts, BodyBehind
<1>4. /\ p = 0 => marks["body"] = 0 /\ Unsent(marks, p) = 0
      /\ LastBody(heard) \in Nat /\ p \in Nat /\ fed \in Nat
  BY <1>1, NothingAtAll, LastBodyType, SamePlaces DEF ParserInv, CallOK, Unsent
<1>5. CASE \E n \in stream.pieces \cup {Left} : http_parser_execute(n)
  <2>1. /\ p = 0 /\ heard' = heard /\ p' = fed + 1 /\ marks' = MarksAt(parser.state, fed + 1)
    BY <1>5 DEF http_parser_execute, Callable
  <2>2. marks'["body"] = 0
    BY <2>1 DEF MarksAt, Marked
  <2>3. BodySoFar' = BodySoFar
    BY <1>4, <2>1, <2>2, SoFarIs DEF Unsent
  <2>. QED
    BY <1>3, <1>4, <2>1, <2>2, <2>3
<1>6. CASE Resume
  <2>1. parser.errno = "PAUSED" /\ heard' = heard /\ marks' = marks /\ p' = p
    BY <1>6 DEF Resume
  <2>2. p = 0
    BY <1>1, <2>1 DEF ParserInv, CallOK
  <2>3. BodySoFar' = BodySoFar
    BY <2>1, SoFarIs
  <2>. QED
    BY <1>3, <2>1, <2>2, <2>3
<1>7. CASE AtEof
  <2>1. p = 0 /\ p' = p /\ parser' = [parser EXCEPT !.errno = "INVALID_EOF_STATE"]
    BY <1>7 DEF AtEof, Callable, LengthStates
  <2>2. parser'.errno = "INVALID_EOF_STATE"
    BY <1>1, <2>1 DEF ParserInv, TypeOK, Parsers
  <2>. QED
    BY <1>1, <2>1, <2>2 DEF Accounts, BodyBehind
<1>8. CASE EndOfPiece
  <2> DEFINE cs == Data("header_field", p) \o Data("header_value", p)
                      \o Data("url", p) \o Data("body", p) \o Data("status", p)
  <2>1. p = fed + 1 /\ p # 0 /\ p <= Len(stream.wire) + 1
    BY <1>1, <1>8, SamePlaces DEF EndOfPiece
  <2>2. \/ cs = <<>> /\ \A m \in Marked : marks[m] = 0
        \/ \E m \in Marked, c \in Events :
               /\ parser.state \in MayMark[m] /\ marks[m] # 0 /\ c.cb = m
               /\ Data(m, p) = <<c>> /\ cs = <<c>>
    BY <1>1, <2>1, LeftAtEnd
  <2>3. Call(cs) /\ p' = 0 /\ marks' = NoMarks
    BY <1>8 DEF EndOfPiece, Paused, Return
  <2> HIDE DEF cs
  <2>4. BodySoFar' = LastBody(heard') + 0
    BY <2>3, NothingAtAll, SoFarIs DEF Unsent
  <2>5. CASE cs = <<>> /\ \A m \in Marked : marks[m] = 0
    <3>1. heard' = heard
      BY <2>3, <2>5, CallNobody
    <3>2. marks["body"] = 0
      BY <2>5 DEF Marked
    <3>3. BodySoFar' = BodySoFar
      BY <2>4, <3>1, <3>2, SoFarIs DEF Unsent
    <3>. QED
      BY <1>3, <2>3, <3>3
  <2>6. ASSUME NEW m \in Marked, NEW c \in Events, parser.state \in MayMark[m], marks[m] # 0,
               c.cb = m, Data(m, p) = <<c>>, cs = <<c>>
        PROVE  Accounts /\ BodyBehind(parser', marks', p')
    <3>1. m = "body"
      <4>1. "body" \in Marked /\ parser.state \in MayMark["body"]
        BY DEF Marked, MayMark, LengthStates
      <4>. QED
        BY <2>6, <4>1, OneElement
    <3>2. LastBody(heard') = LastBody(heard) + Len(c.data)
      <4>1. Call(<<c>>)
        BY <2>3, <2>6
      <4>. QED
        BY <1>1, <2>6, <3>1, <4>1, BodyHeard
    <3>3. marks[m] \in Nat /\ Len(c.data) = IF marks[m] <= p - 1 THEN p - marks[m] ELSE 0
      BY <1>1, <1>4, <2>1, <2>6, DataLength
    <3>4. marks["body"] <= p
      BY <2>1 DEF BodyInv, BodyBehind
    <3>5. Len(c.data) = Unsent(marks, p)
      BY <1>4, <2>1, <2>6, <3>1, <3>3, <3>4 DEF Unsent
    <3>6. LastBody(heard') \in Nat
      <4>1. Len(c.data) \in Nat
        BY DEF Events
      <4>. QED
        BY <1>4, <3>2, <4>1
    <3>7. BodySoFar' = BodySoFar
      BY <2>4, <3>2, <3>5, <3>6, SoFarIs
    <3>. QED
      BY <1>3, <2>3, <3>7
  <2>. QED
    BY <2>2, <2>5, <2>6
<1>. QED
  BY <1>5, <1>6, <1>7, <1>8

LEMMA BodyStep ==
    ASSUME BodyInv, Next
    PROVE  Accounts /\ BodyBehind(parser', marks', p')
<1>1. ParserInv /\ FramingOK(parser)
  BY DEF BodyInv
<1>2. CASE HeaderOverflow
  BY <1>1, <1>2, ErrorAccounts DEF HeaderOverflow
<1>3. CASE StatusLine \/ RequestLine \/ Headers
  <2>1. Plain(parser')
    BY SMTT(30), <1>1, <1>3, StatusLineFrames, RequestLineFrames, HeadersFrames
  <2>2. parser.state \notin LengthStates
    BY Zenon, <1>3 DEF StatusLine, RequestLine, Headers, StartRes, ResH, ResHttpEnd, FirstStatusCode, StatusCode,
       StatusStart, Status, ResLineAlmostDone, Dead, StartReqOrRes, StartReq, ReqMethod, UrlStart,
       UrlChar, UrlEnd, HttpVersion, HttpEnd, ReqLineAlmostDone, HeaderFieldStart, HeaderField,
       DiscardWs, FoldedStart, HeaderValue, HeaderAlmostDone, ValueLws, DiscardWsAlmostDone,
       DiscardLws, HeadersAlmostDone, At, LengthStates, UrlStates, UrlEndStates
  <2>. QED
    BY <2>1, <2>2, OutsideAccounts DEF Plain
<1>4. CASE ChunkLines
  BY <1>1, <1>4, ChunkLinesFrames, OutsideAccounts
<1>. QED
  BY <1>1, <1>2, <1>3, <1>4, CallsAccount, BodiesAccount, BodyIdentityAccounts, ChunkBeginAccounts,
     ChunkDataAccounts, ChunkEndAccounts DEF Next, Bodies, Chunks, ChunkLines

\* However a body is cut into pieces and whoever pauses, what is told of it, or
\* of a chunk, and what is left of its length add up to the length that was read.
THEOREM BodiesAsLong == Spec => BodyAsDeclared
<1>1. Init => BodyInv
  <2> SUFFICES ASSUME Init PROVE BodyInv
    OBVIOUS
  <2>1. p = 0
    BY DEF Init
  <2>. QED
    BY <2>1, InitInv, InitFrames DEF BodyInv, BodyBehind
<1>2. BodyInv /\ [Next]_vars => BodyInv'
  <2> SUFFICES ASSUME BodyInv, [Next]_vars PROVE BodyInv'
    OBVIOUS
  <2>1. ParserInv' /\ FramingOK(parser)'
    BY StepInv, FramingStep DEF BodyInv
  <2>2. CASE Next
    BY <2>1, <2>2, BodyStep DEF BodyInv
  <2>3. CASE UNCHANGED vars
    BY <2>1, <2>3 DEF vars, BodyInv, BodyBehind
  <2>. QED
    BY <2>2, <2>3
<1>3. BodyInv /\ [Next]_vars => [Accounts]_vars
  BY BodyStep
<1>4. Spec => []BodyInv
  BY <1>1, <1>2, PTL DEF Spec
<1>5. Spec => [][Accounts]_vars
  BY <1>3, <1>4, PTL DEF Spec
<1>. QED
  BY <1>5 DEF BodyAsDeclared, Accounts
=============================================================================
