------------------------------ MODULE HttpUrl ------------------------------
(***************************************************************************)
(* http_parser_parse_url and http_parse_host of http_parser.c: where the   *)
(* fields of a url begin and how long they are.  Both are loops over the   *)
(* url, here functions of how much of it has been read.  Offsets count     *)
(* from 1.  Offsets and lengths are uint16_t: those of a longer url wrap.  *)
(***************************************************************************)
EXTENDS HttpTokens

UrlFields == {"UF_SCHEMA", "UF_HOST", "UF_PORT", "UF_PATH", "UF_QUERY",
              "UF_FRAGMENT", "UF_USERINFO"}

\* http_parser_url_init.
NoFields == [field_set |-> {}, port |-> 0,
             field_data |-> [f \in UrlFields |-> [off |-> 1, len |-> 0]]]

U16(n) == n % (UINT16_MAX + 1)
Offset16(i) == U16(i - 1) + 1

\* Mutant: a field that was found before, a host with userinfo, is not moved.
BeginOnce(url, f, i) ==
    [url EXCEPT !.field_set = @ \cup {f},
                !.field_data[f] = [off |-> IF f \in url.field_set THEN @.off ELSE Offset16(i),
                                    len |-> 1]]

\* A field begins at i with one unit; the field goes on.
Begin(url, f, i) ==
    [url EXCEPT !.field_set = @ \cup {f}, !.field_data[f] = [off |-> Offset16(i), len |-> 1]]
Extend(url, f) == [url EXCEPT !.field_data[f].len = U16(@ + 1)]

-----------------------------------------------------------------------------
(* http_parse_host: userinfo, host and port.                               *)

http_parse_host_char(s, u) ==
    CASE s \in {"s_http_userinfo_start", "s_http_userinfo"} /\ u = "@" -> "s_http_host_start"
      [] s \in {"s_http_userinfo_start", "s_http_userinfo"} /\ IsUserinfoChar(u) ->
            "s_http_userinfo"
      [] s = "s_http_host_start" /\ u = "[" -> "s_http_host_v6_start"
      [] s \in {"s_http_host_start", "s_http_host"} /\ IsHostChar(u) -> "s_http_host"
      [] s \in {"s_http_host", "s_http_host_v6_end"} /\ u = ":" -> "s_http_host_port_start"
      [] s \in {"s_http_host_v6", "s_http_host_v6_zone"} /\ u = "]" -> "s_http_host_v6_end"
      [] s \in {"s_http_host_v6_start", "s_http_host_v6"} /\ (IsHex(u) \/ u \in {":", "."}) ->
            "s_http_host_v6"
      [] s = "s_http_host_v6" /\ u = "%" -> "s_http_host_v6_zone_start"
      [] s \in {"s_http_host_v6_zone_start", "s_http_host_v6_zone"}
            /\ (IsAlphanum(u) \/ u \in {"%", "."}) -> "s_http_host_v6_zone"
      [] s \in {"s_http_host_port_start", "s_http_host_port"} /\ IsNum(u) -> "s_http_host_port"
      [] OTHER -> "s_http_host_dead"

\* The states in which the host may end.
HostEnds == {"s_http_host", "s_http_host_v6_end", "s_http_host_port"}

\* What the i-th unit of the url does, coming from state s to state `to`.
HostUnit(url, s, to, i) ==
    CASE to \in {"s_http_host", "s_http_host_v6"} ->
            IF s = to THEN Extend(url, "UF_HOST") ELSE Begin(url, "UF_HOST", i)
      [] to \in {"s_http_host_v6_zone_start", "s_http_host_v6_zone"} -> Extend(url, "UF_HOST")
      [] to = "s_http_host_port" ->
            IF s = to THEN Extend(url, "UF_PORT") ELSE Begin(url, "UF_PORT", i)
      [] to = "s_http_userinfo" ->
            IF s = to THEN Extend(url, "UF_USERINFO") ELSE Begin(url, "UF_USERINFO", i)
      [] OTHER -> url

\* The state and the url after each unit of the host.
HostWalk(buf, url, found_at) ==
    LET host == url.field_data["UF_HOST"]
        walk[i \in (host.off - 1)..(host.off + host.len - 1)] ==
            IF i = host.off - 1
            THEN [s |-> IF found_at THEN "s_http_userinfo_start" ELSE "s_http_host_start",
                  url |-> [url EXCEPT !.field_data["UF_HOST"].len = 0]]
            ELSE LET to == http_parse_host_char(walk[i - 1].s, buf[i])
                 IN  [s |-> to, url |-> HostUnit(walk[i - 1].url, walk[i - 1].s, to, i)]
    IN  walk

\* The url with its host taken apart, and the state at its end.
http_parse_host(buf, url, found_at) ==
    LET host == url.field_data["UF_HOST"]
    IN  HostWalk(buf, url, found_at)[host.off + host.len - 1]

-----------------------------------------------------------------------------
(* http_parser_parse_url.                                                  *)

\* The field that a unit belongs to; delimiters belong to none.
FieldOf(s) ==
    CASE s = "s_req_schema" -> "UF_SCHEMA"
      [] s \in {"s_req_server", "s_req_server_with_at"} -> "UF_HOST"
      [] s = "s_req_path" -> "UF_PATH"
      [] s = "s_req_query_string" -> "UF_QUERY"
      [] s = "s_req_fragment" -> "UF_FRAGMENT"
      [] OTHER -> "UF_MAX"

UrlUnit(before, buf, i) ==
    LET s == parse_url_char(before.s, buf[i])
        uf == FieldOf(s)
    IN  [s |-> s,
         uf |-> IF uf = "UF_MAX" THEN before.uf ELSE uf,
         found_at |-> before.found_at \/ s = "s_req_server_with_at",
         url |-> CASE uf = "UF_MAX" -> before.url
                   [] uf # "UF_MAX" /\ uf = before.uf -> Extend(before.url, uf)
                   [] OTHER -> Begin(before.url, uf, i)]

\* *p - '0' of a unit of a url, kept small.  (All units of a port are digits
\* unless its offset has wrapped.)
Worth(u) == IF IsNum(u) THEN Digit[u] ELSE IF u \in {"#", "%", "*", ",", ".", "/"} THEN -1
            ELSE Base

\* Mutant: a port that is too large loses its high bits.
PortWraps(buf, field) ==
    LET v[i \in 0..field.len] ==
            IF i = 0 THEN 0
            ELSE (v[i - 1] * Base + Worth(buf[field.off + i - 1])) % (MaxPort + 1)
    IN  v[field.len]

\* The number that the digits of the port stand for; more than a port can
\* hold is refused at the digit that makes it so.  (v is unsigned: less than
\* nothing is more than a port can hold.)
Port(buf, field) ==
    LET v[i \in 0..field.len] ==
            IF i = 0 THEN 0
            ELSE IF v[i - 1] \notin 0..MaxPort THEN v[i - 1]
            ELSE v[i - 1] * Base + Worth(buf[field.off + i - 1])
    IN  v[field.len]

\* A return value other than 0.
Refusal == [NoFields EXCEPT !.port = -1]

\* What is known of the url after each unit of it.
UrlWalk(buf, is_connect) ==
    LET walk[i \in 0..Len(buf)] ==
            IF i = 0
            THEN [s |-> IF is_connect THEN "s_req_server_start" ELSE "s_req_spaces_before_url",
                  uf |-> "UF_MAX", found_at |-> FALSE, url |-> NoFields]
            ELSE UrlUnit(walk[i - 1], buf, i)
    IN  walk

http_parser_parse_url(buf, is_connect) ==
    LET whole == UrlWalk(buf, is_connect)[Len(buf)]
        set == whole.url.field_set
        parsed == http_parse_host(buf, whole.url, whole.found_at)
        url == IF "UF_HOST" \in set THEN parsed.url ELSE whole.url
        port == IF "UF_PORT" \in url.field_set THEN Port(buf, url.field_data["UF_PORT"]) ELSE 0
    IN  IF \/ buf = <<>> \/ whole.s = "s_dead"
           \/ "UF_SCHEMA" \in set /\ "UF_HOST" \notin set
           \/ "UF_HOST" \in set /\ parsed.s \notin HostEnds
           \/ is_connect /\ url.field_set # {"UF_HOST", "UF_PORT"}
           \/ port \notin 0..MaxPort
        THEN Refusal
        ELSE [url EXCEPT !.port = port]
=============================================================================
