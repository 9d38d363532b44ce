---------------------------- MODULE HttpTokens ----------------------------
(***************************************************************************)
(* The bytes that http_parser.c reads, as units.  A unit is a character    *)
(* the parser tells apart, or a whole word it recognises letter by letter  *)
(* without calling anybody back ("GET", "HTTP/1.1", "200", "chunked", ...). *)
(* Header words are in lower case, "x" is any other letter (one that       *)
(* begins no method), "NUL" a control character, "d0", "d1", ... are digits, *)
(* of which those below Base are decimal and those below HexBase are       *)
(* hexadecimal.                                                            *)
(***************************************************************************)
EXTENDS Integers, Sequences

CONSTANTS
    ULLONG_MAX,     \* the largest uint64_t, and the mark of "no Content-Length"
    Base, HexBase,  \* 10 and 16
    MaxHeaderSize,  \* max_header_size, 80 * 1024
    MaxPort,        \* the largest port, 0xffff
    UINT16_MAX      \* the largest uint16_t, in which offsets in a url are kept

ASSUME NumbersAssumption ==
    /\ {ULLONG_MAX, Base, HexBase, MaxHeaderSize, MaxPort, UINT16_MAX} \subseteq Nat
    /\ 1 < Base /\ Base <= HexBase /\ HexBase < ULLONG_MAX

Methods  == {"GET", "POST", "CONNECT", "HEAD"}
Versions == {"HTTP/1.0", "HTTP/1.1"}
Statuses == {"100", "101", "200", "204", "304"}
Digit    == [d0 |-> 0, d1 |-> 1, d2 |-> 2, d3 |-> 3]
Blank    == {"SP", "TAB"}

\* The number that a word of three digits stands for.
StatusNumber(u) ==
    CASE u = "100" -> 100 [] u = "101" -> 101 [] u = "200" -> 200 [] u = "204" -> 204
      [] u = "304" -> 304

IsNum(u) == u \in DOMAIN Digit /\ Digit[u] < Base
IsHex(u) == u \in DOMAIN Digit /\ Digit[u] < HexBase
IsAlpha(u) == u \in {"x", "cgi"}
IsAlphanum(u) == IsAlpha(u) \/ IsNum(u)

\* The header names the parser acts on, and the state each leads to.
KeywordStates ==
    [content_length |-> "h_content_length", connection |-> "h_connection",
     transfer_encoding |-> "h_transfer_encoding", upgrade |-> "h_upgrade"]

\* The words it looks for in Transfer-Encoding and in Connection.
CodingStates == [chunked |-> "h_transfer_encoding_chunked"]
ConnectionStates ==
    [close |-> "h_connection_close", keep_alive |-> "h_connection_keep_alive",
     upgrade |-> "h_connection_upgrade"]

Words == Methods \cup DOMAIN KeywordStates \cup DOMAIN CodingStates
            \cup DOMAIN ConnectionStates \cup {"x", "cgi"} \cup DOMAIN Digit
            \cup Statuses

IsToken(u) == u \in Words \cup {"*", ".", "#", "%"}     \* TOKEN of strict mode

\* LOWER(ch) is a token: it sets a bit, which makes of "@" a quotation mark (a
\* token) and of a TAB a parenthesis (none).
IsLowerToken(u) == IsToken(u) \/ u \in Versions \cup {"@"}
IsHeaderChar(u) == u # "NUL"

\* (The units of a version are all of them characters of a path; no authority
\* has one whole.)
IsUrlChar(u) ==
    u \in Words \cup Versions \cup {"/", "*", ":", ",", ";", "@", ".", "%", "[", "]"}
IsUserinfoChar(u) == u \in Words \cup {"*", ":", ",", ";", ".", "%"}
IsHostChar(u) == IsAlphanum(u) \/ u = "."

\* One character of a url: the next state, or s_dead.
parse_url_char(s, u) ==
    CASE u \in {"SP", "CR", "LF", "TAB"} -> "s_dead"
      [] s = "s_req_spaces_before_url" /\ u \in {"/", "*"} -> "s_req_path"
      [] s \in {"s_req_spaces_before_url", "s_req_schema"} /\ IsAlpha(u) -> "s_req_schema"
      [] s = "s_req_schema" /\ u = ":" -> "s_req_schema_slash"
      [] s = "s_req_schema_slash" /\ u = "/" -> "s_req_schema_slash_slash"
      [] s = "s_req_schema_slash_slash" /\ u = "/" -> "s_req_server_start"
      [] s \in {"s_req_server_start", "s_req_server", "s_req_server_with_at"} ->
            CASE u = "/" -> "s_req_path"
              [] u = "?" -> "s_req_query_string_start"
              [] u = "@" /\ s # "s_req_server_with_at" -> "s_req_server_with_at"
              [] IsUserinfoChar(u) \/ u \in {"[", "]"} -> "s_req_server"
              [] OTHER -> "s_dead"
      [] s = "s_req_path" /\ IsUrlChar(u) -> s
      [] s = "s_req_path" /\ u = "?" -> "s_req_query_string_start"
      [] s \in {"s_req_path", "s_req_query_string_start", "s_req_query_string"}
            /\ u = "#" -> "s_req_fragment_start"
      [] s \in {"s_req_query_string_start", "s_req_query_string"}
            /\ (IsUrlChar(u) \/ u = "?") -> "s_req_query_string"
      [] s = "s_req_fragment_start" /\ u = "#" -> s
      [] s \in {"s_req_fragment_start", "s_req_fragment"}
            /\ (IsUrlChar(u) \/ u \in {"?", "#"}) -> "s_req_fragment"
      [] OTHER -> "s_dead"

\* A digit more, in 64 bits.
TimesPlus(n, base, d) == (n * base + d) % (ULLONG_MAX + 1)

\* The parser's test, made on the number before the digit.
Overflows(n, base) == (ULLONG_MAX - base) \div base < n
=============================================================================
