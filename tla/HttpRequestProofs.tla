------------------------- MODULE HttpRequestProofs -------------------------
(***************************************************************************)
(* Proofs about HttpUrl: whatever sequence of bytes                        *)
(* http_parser_parse_url accepts, the fields it finds lie in it, in order, *)
(* with nothing but delimiters between them, and none inside; and the port *)
(* told is the number its digits stand for, as long as the offsets fit     *)
(* their 16 bits.  About HttpRequest: the request stored is what the       *)
(* callbacks told.                                                         *)
(***************************************************************************)
EXTENDS HttpRequest, HttpParserProofs

-----------------------------------------------------------------------------
(* Fields laid out in a url. *)

Urls == [field_set : SUBSET UrlFields, port : Int,
         field_data : [UrlFields -> [off : Nat \ {0}, len : Nat]]]

End(url, f) == Offset(url, f) + url.field_data[f].len - 1

Delimiters == {":", "/", "@", "[", "]", "?", "#"}

RankOf(f) ==
    CASE f = "UF_SCHEMA" -> 1 [] f = "UF_USERINFO" -> 2 [] f = "UF_HOST" -> 3
      [] f = "UF_PORT" -> 4 [] f = "UF_PATH" -> 5 [] f = "UF_QUERY" -> 6
      [] f = "UF_FRAGMENT" -> 7

\* Only a path follows another field at once.
Gap(f) == IF f = "UF_PATH" THEN 0 ELSE 1

\* What tells that f begins at i.
Opened(buf, f, i) ==
    /\ f = "UF_PATH" => buf[i] \in {"/", "*"}
    /\ f = "UF_PORT" => buf[i - 1] = ":"
    /\ f = "UF_QUERY" => buf[i - 1] = "?"
    /\ f = "UF_FRAGMENT" => buf[i - 1] = "#"

\* The fields F of the url have their places in the first i units of buf, in
\* order, and the other units are delimiters.
Laid(buf, F, url, i) ==
    /\ \A f \in F : /\ 1 <= Offset(url, f) /\ Offset(url, f) <= End(url, f)
                    /\ End(url, f) <= i
    /\ \A j \in 1..i : \/ buf[j] \in Delimiters
                       \/ \E f \in F : Offset(url, f) <= j /\ j <= End(url, f)
    /\ \A f, g \in F : RankOf(f) < RankOf(g) => End(url, f) + Gap(g) < Offset(url, g)
    /\ \A f \in F : Opened(buf, f, Offset(url, f))

\* Offsets and lengths are numbers.
LEMMA PlacesAreNumbers ==
    ASSUME NEW url \in Urls, NEW f \in UrlFields
    PROVE  Offset(url, f) \in Nat \ {0} /\ End(url, f) \in Int /\ url.field_data[f].len \in Nat
           /\ Gap(f) \in {0, 1} /\ RankOf(f) \in 1..7
<1>1. url.field_data \in [UrlFields -> [off : Nat \ {0}, len : Nat]]
  BY DEF Urls
<1>2. url.field_data[f] \in [off : Nat \ {0}, len : Nat]
  BY <1>1
<1>3. url.field_data[f].off \in Nat \ {0} /\ url.field_data[f].len \in Nat
  BY <1>2
<1>4. RankOf(f) \in 1..7
  BY DEF RankOf, UrlFields
<1>. QED
  BY <1>3, <1>4 DEF Offset, End, Gap

\* A number that fits in 16 bits is not cut.
LEMMA Fits16 ==
    ASSUME NEW n \in Nat, n <= UINT16_MAX
    PROVE  U16(n) = n /\ UINT16_MAX \in Nat
<1>1. UINT16_MAX \in Nat
  BY NumbersAssumption
<1>. QED
  BY <1>1 DEF U16

LEMMA NextFits ==
    ASSUME NEW i \in Nat, i < UINT16_MAX
    PROVE  i + 1 \in Nat \ {0} /\ i + 1 <= UINT16_MAX
BY NumbersAssumption

\* What Begin and Extend change where offsets fit.
LEMMA BeginDoes ==
    ASSUME NEW url \in Urls, NEW f \in UrlFields, NEW i \in Nat \ {0}, i <= UINT16_MAX
    PROVE  /\ Begin(url, f, i) \in Urls
           /\ Begin(url, f, i).field_set = url.field_set \cup {f}
           /\ \A g \in UrlFields :
                 /\ Offset(Begin(url, f, i), g) = IF g = f THEN i ELSE Offset(url, g)
                 /\ End(Begin(url, f, i), g) = IF g = f THEN i ELSE End(url, g)
<1>8. Offset16(i) = i
  <2>1. i - 1 \in Nat /\ i - 1 <= UINT16_MAX
    BY Fits16
  <2>. QED
    BY <2>1, Fits16 DEF Offset16
<1>1. /\ url.field_data \in [UrlFields -> [off : Nat \ {0}, len : Nat]]
      /\ url.field_set \in SUBSET UrlFields /\ url.port \in Int
  BY DEF Urls
<1> DEFINE fd == [url.field_data EXCEPT ![f] = [off |-> i, len |-> 1]]
<1>2. fd \in [UrlFields -> [off : Nat \ {0}, len : Nat]]
  BY <1>1
<1>3. Begin(url, f, i) = [field_set |-> url.field_set \cup {f}, port |-> url.port,
                          field_data |-> fd]
  <2> DEFINE mid == [url EXCEPT !.field_set = url.field_set \cup {f}]
  <2>1. mid = [field_set |-> url.field_set \cup {f}, port |-> url.port,
               field_data |-> url.field_data]
    BY DEF Urls
  <2>2. Begin(url, f, i)
            = [mid EXCEPT !.field_data = [mid.field_data EXCEPT ![f] = [off |-> i, len |-> 1]]]
    BY <1>8 DEF Begin
  <2> HIDE DEF mid
  <2>. QED
    BY <2>1, <2>2
<1>4. ASSUME NEW g \in UrlFields
      PROVE  fd[g].off = (IF g = f THEN i ELSE url.field_data[g].off)
             /\ fd[g].len = (IF g = f THEN 1 ELSE url.field_data[g].len)
  BY <1>1
<1>5. Begin(url, f, i).field_data = fd
      /\ Begin(url, f, i).field_set = url.field_set \cup {f}
  BY <1>3
<1>6. Begin(url, f, i) \in Urls
  <2> HIDE DEF fd
  <2>. QED
    BY <1>1, <1>2, <1>3 DEF Urls
<1>7. ASSUME NEW g \in UrlFields
      PROVE  /\ Offset(Begin(url, f, i), g) = IF g = f THEN i ELSE Offset(url, g)
             /\ End(Begin(url, f, i), g) = IF g = f THEN i ELSE End(url, g)
  <2> HIDE DEF fd
  <2>. QED
    BY <1>4, <1>5 DEF Offset, End
<1>. QED
  BY <1>5, <1>6, <1>7

LEMMA ExtendDoes ==
    ASSUME NEW url \in Urls, NEW f \in UrlFields, End(url, f) < UINT16_MAX
    PROVE  /\ Extend(url, f) \in Urls /\ Extend(url, f).field_set = url.field_set
           /\ \A g \in UrlFields :
                 /\ Offset(Extend(url, f), g) = Offset(url, g)
                 /\ End(Extend(url, f), g) = IF g = f THEN End(url, g) + 1 ELSE End(url, g)
<1>1. /\ url.field_data \in [UrlFields -> [off : Nat \ {0}, len : Nat]]
      /\ url.field_set \in SUBSET UrlFields /\ url.port \in Int
  BY DEF Urls
<1> DEFINE one == [url.field_data[f] EXCEPT !.len = url.field_data[f].len + 1]
           fd == [url.field_data EXCEPT ![f] = one]
<1>2. url.field_data[f] \in [off : Nat \ {0}, len : Nat]
  BY <1>1
<1>3. one = [off |-> url.field_data[f].off, len |-> url.field_data[f].len + 1]
  BY <1>2
<1>4. fd \in [UrlFields -> [off : Nat \ {0}, len : Nat]]
  BY <1>1, <1>2, <1>3
<1>5. Extend(url, f) = [field_set |-> url.field_set, port |-> url.port, field_data |-> fd]
  <2>1. /\ url.field_data[f].off \in Nat \ {0} /\ url.field_data[f].len \in Nat
        /\ UINT16_MAX \in Nat
    BY <1>2, NumbersAssumption
  <2>2. url.field_data[f].len + 1 <= UINT16_MAX /\ url.field_data[f].len + 1 \in Nat
    BY <2>1 DEF End, Offset
  <2>3. U16(url.field_data[f].len + 1) = url.field_data[f].len + 1
    BY <2>2, Fits16
  <2>. QED
    BY SMTT(30), <2>3 DEF Extend, Urls
<1>6. ASSUME NEW g \in UrlFields
      PROVE  fd[g].off = url.field_data[g].off
             /\ fd[g].len = (IF g = f THEN url.field_data[g].len + 1 ELSE url.field_data[g].len)
  BY <1>1, <1>3
<1>7. Extend(url, f).field_data = fd /\ Extend(url, f).field_set = url.field_set
  BY <1>5
<1> HIDE DEF fd
<1>8. Extend(url, f) \in Urls
  BY <1>1, <1>4, <1>5 DEF Urls
<1>9. ASSUME NEW g \in UrlFields
      PROVE  /\ Offset(Extend(url, f), g) = Offset(url, g)
             /\ End(Extend(url, f), g) = IF g = f THEN End(url, g) + 1 ELSE End(url, g)
  <2>1. url.field_data[g].off \in Nat /\ url.field_data[g].len \in Nat
    BY <1>1
  <2>. QED
    BY <1>6, <1>7, <2>1 DEF Offset, End
<1>. QED
  BY <1>7, <1>8, <1>9

-----------------------------------------------------------------------------
(* One unit more. *)

\* The unit is a delimiter.
LEMMA LaidDelimiter ==
    ASSUME NEW buf, NEW url \in Urls, NEW F \in SUBSET UrlFields, NEW i \in Nat,
           Laid(buf, F, url, i), buf[i + 1] \in Delimiters
    PROVE  Laid(buf, F, url, i + 1)
<1>1. \A f \in F : End(url, f) \in Int /\ Offset(url, f) \in Nat
  BY PlacesAreNumbers
<1>2. \A f \in F : End(url, f) <= i => End(url, f) <= i + 1
  BY <1>1
<1>3. \A j \in 1..(i + 1) : j \in 1..i \/ j = i + 1
  OBVIOUS
<1>. QED
  BY <1>2, <1>3 DEF Laid

\* The unit belongs to the last field.
LEMMA LaidExtend ==
    ASSUME NEW buf, NEW url \in Urls, NEW F \in SUBSET UrlFields, NEW i \in Nat,
           NEW f \in F, End(url, f) = i, \A g \in F : RankOf(g) <= RankOf(f),
           Laid(buf, F, url, i), i < UINT16_MAX
    PROVE  Laid(buf, F, Extend(url, f), i + 1)
<1>1. PICK new : new = Extend(url, f)
  OBVIOUS
<1>2. \A g \in F : /\ Offset(new, g) = Offset(url, g)
                   /\ End(new, g) = IF g = f THEN End(url, g) + 1 ELSE End(url, g)
  BY <1>1, ExtendDoes
<1>3. \A g \in F : /\ End(url, g) \in Int /\ Offset(url, g) \in Nat
                   /\ RankOf(g) \in 1..7 /\ Gap(g) \in {0, 1}
  BY PlacesAreNumbers
<1>4. \A g \in F : 1 <= Offset(new, g) /\ Offset(new, g) <= End(new, g) /\ End(new, g) <= i + 1
  BY <1>2, <1>3 DEF Laid
<1>5. ASSUME NEW j \in 1..(i + 1)
      PROVE  buf[j] \in Delimiters \/ \E g \in F : Offset(new, g) <= j /\ j <= End(new, g)
  <2>1. CASE j = i + 1
    BY <1>2, <1>4, <2>1
  <2>2. CASE j \in 1..i
    BY <1>2, <1>3, <2>2 DEF Laid
  <2>. QED
    BY <2>1, <2>2
<1>6. ASSUME NEW g \in F, NEW h \in F, RankOf(g) < RankOf(h)
      PROVE  End(new, g) + Gap(h) < Offset(new, h)
  <2>1. g # f
    BY <1>3, <1>6
  <2>2. End(url, g) + Gap(h) < Offset(url, h)
    BY <1>6 DEF Laid
  <2>. QED
    BY <1>2, <2>1, <2>2
<1>7. \A g \in F : Opened(buf, g, Offset(new, g))
  BY <1>2 DEF Laid
<1>8. Laid(buf, F, new, i + 1)
  BY <1>4, <1>5, <1>6, <1>7 DEF Laid
<1>. QED
  BY <1>1, <1>8

\* A field that comes after all others begins with the unit.
LEMMA LaidBegin ==
    ASSUME NEW buf, NEW url \in Urls, NEW F \in SUBSET UrlFields, NEW i \in Nat,
           NEW f \in UrlFields, \A g \in F : RankOf(g) < RankOf(f),
           \A g \in F : End(url, g) + Gap(f) <= i, Opened(buf, f, i + 1),
           Laid(buf, F, url, i), i < UINT16_MAX
    PROVE  Laid(buf, F \cup {f}, Begin(url, f, i + 1), i + 1)
<1>1. PICK new : new = Begin(url, f, i + 1)
  OBVIOUS
<1>2. \A g \in UrlFields : /\ Offset(new, g) = IF g = f THEN i + 1 ELSE Offset(url, g)
                           /\ End(new, g) = IF g = f THEN i + 1 ELSE End(url, g)
  BY <1>1, NextFits, BeginDoes
<1>3. \A g \in UrlFields : /\ End(url, g) \in Int /\ Offset(url, g) \in Nat
                           /\ RankOf(g) \in 1..7 /\ Gap(g) \in {0, 1}
  BY PlacesAreNumbers
<1>4. f \notin F
  BY <1>3
<1>5. ASSUME NEW g \in F
      PROVE  g # f /\ Offset(new, g) = Offset(url, g) /\ End(new, g) = End(url, g)
  BY <1>2, <1>4
<1>6. Offset(new, f) = i + 1 /\ End(new, f) = i + 1
  BY <1>2
<1>7. \A g \in F \cup {f} :
         1 <= Offset(new, g) /\ Offset(new, g) <= End(new, g) /\ End(new, g) <= i + 1
  BY <1>3, <1>5, <1>6 DEF Laid
<1>8. ASSUME NEW j \in 1..(i + 1)
      PROVE  \/ buf[j] \in Delimiters
             \/ \E g \in F \cup {f} : Offset(new, g) <= j /\ j <= End(new, g)
  <2>1. CASE j = i + 1
    BY <1>6, <2>1
  <2>2. CASE j \in 1..i
    BY <1>5, <2>2 DEF Laid
  <2>. QED
    BY <2>1, <2>2
<1>9. ASSUME NEW g \in F \cup {f}, NEW h \in F \cup {f}, RankOf(g) < RankOf(h)
      PROVE  End(new, g) + Gap(h) < Offset(new, h)
  <2>1. g \in F
    BY <1>3, <1>9
  <2>2. CASE h = f
    BY <1>3, <1>5, <1>6, <2>1, <2>2
  <2>3. CASE h \in F
    BY <1>5, <1>9, <2>1, <2>3 DEF Laid
  <2>. QED
    BY <2>2, <2>3
<1>10. \A g \in F \cup {f} : Opened(buf, g, Offset(new, g))
  BY <1>5, <1>6 DEF Laid
<1>11. Laid(buf, F \cup {f}, new, i + 1)
  BY <1>7, <1>8, <1>9, <1>10 DEF Laid
<1>. QED
  BY <1>1, <1>11

-----------------------------------------------------------------------------
(* What fields hold. *)

Proper(f, u) == u \notin Foreign[f] \cup NoUrlUnits /\ (f = "UF_PORT" => IsNum(u))

\* The fields F hold nothing that does not belong to them.
Clean(buf, F, url) ==
    \A f \in F, j \in Nat :
        Offset(url, f) <= j /\ j <= End(url, f) => Proper(f, buf[j])

LEMMA CleanSame ==
    ASSUME NEW buf, NEW u, NEW url, NEW F, NEW G \in SUBSET F, Clean(buf, F, u),
           \A f \in G : Offset(url, f) = Offset(u, f) /\ End(url, f) = End(u, f)
    PROVE  Clean(buf, G, url)
BY DEF Clean

LEMMA CleanExtend ==
    ASSUME NEW buf, NEW url \in Urls, NEW F \in SUBSET UrlFields, NEW i \in Nat,
           NEW f \in UrlFields, End(url, f) = i, Clean(buf, F, url),
           f \in F => Proper(f, buf[i + 1]), i < UINT16_MAX
    PROVE  Clean(buf, F, Extend(url, f))
<1>1. PICK new : new = Extend(url, f)
  OBVIOUS
<1>2. \A g \in F : /\ Offset(new, g) = Offset(url, g)
                   /\ End(new, g) = IF g = f THEN i + 1 ELSE End(url, g)
  BY <1>1, ExtendDoes
<1>3. ASSUME NEW g \in F, NEW j \in Nat, Offset(new, g) <= j, j <= End(new, g)
      PROVE  Proper(g, buf[j])
  <2>1. CASE g = f /\ j = i + 1
    BY <2>1
  <2>2. CASE ~(g = f /\ j = i + 1)
    <3>1. Offset(url, g) <= j /\ j <= End(url, g)
      BY <1>2, <1>3, <2>2
    <3>. QED
      BY <3>1 DEF Clean
  <2>. QED
    BY <2>1, <2>2
<1>4. Clean(buf, F, new)
  BY <1>3 DEF Clean
<1>. QED
  BY <1>1, <1>4

LEMMA CleanBegin ==
    ASSUME NEW buf, NEW url \in Urls, NEW F \in SUBSET UrlFields, NEW i \in Nat,
           NEW f \in UrlFields, Clean(buf, F, url), NEW G \in SUBSET (F \cup {f}),
           f \in G => Proper(f, buf[i + 1]), i < UINT16_MAX
    PROVE  Clean(buf, G, Begin(url, f, i + 1))
<1>1. PICK new : new = Begin(url, f, i + 1)
  OBVIOUS
<1>2. \A g \in G : /\ Offset(new, g) = IF g = f THEN i + 1 ELSE Offset(url, g)
                   /\ End(new, g) = IF g = f THEN i + 1 ELSE End(url, g)
  BY <1>1, NextFits, BeginDoes
<1>3. ASSUME NEW g \in G, NEW j \in Nat, Offset(new, g) <= j, j <= End(new, g)
      PROVE  Proper(g, buf[j])
  <2>1. CASE g = f
    <3>1. j = i + 1
      BY <1>2, <1>3, <2>1
    <3>. QED
      BY <2>1, <3>1
  <2>2. CASE g # f
    <3>1. Offset(url, g) <= j /\ j <= End(url, g) /\ g \in F
      BY <1>2, <1>3, <2>2
    <3>. QED
      BY <3>1 DEF Clean
  <2>. QED
    BY <2>1, <2>2
<1>4. Clean(buf, G, new)
  BY <1>3 DEF Clean
<1>. QED
  BY <1>1, <1>4

-----------------------------------------------------------------------------
(* The walk of http_parser_parse_url. *)

Servers == {"s_req_server_start", "s_req_server", "s_req_server_with_at"}

\* The steps that parse_url_char makes.
UrlSteps(s, u, to) ==
    \/ s = "s_req_spaces_before_url" /\ to = "s_req_path" /\ u \in {"/", "*"}
    \/ s \in {"s_req_spaces_before_url", "s_req_schema"} /\ to = "s_req_schema"
    \/ s = "s_req_schema" /\ to = "s_req_schema_slash" /\ u = ":"
    \/ s = "s_req_schema_slash" /\ to = "s_req_schema_slash_slash" /\ u = "/"
    \/ s = "s_req_schema_slash_slash" /\ to = "s_req_server_start" /\ u = "/"
    \/ s \in Servers /\ to \in {"s_req_server", "s_req_server_with_at"}
    \/ s \in Servers /\ to = "s_req_path" /\ u = "/"
    \/ s \in Servers \cup {"s_req_path"} /\ to = "s_req_query_string_start" /\ u = "?"
    \/ s = "s_req_path" /\ to = "s_req_path"
    \/ s \in {"s_req_path", "s_req_query_string_start", "s_req_query_string"}
          /\ to = "s_req_fragment_start" /\ u = "#"
    \/ s \in {"s_req_query_string_start", "s_req_query_string"} /\ to = "s_req_query_string"
    \/ s = "s_req_fragment_start" /\ to = "s_req_fragment_start" /\ u = "#"
    \/ s \in {"s_req_fragment_start", "s_req_fragment"} /\ to = "s_req_fragment"

LEMMA UrlCharSteps ==
    ASSUME NEW s, NEW u, parse_url_char(s, u) # "s_dead"
    PROVE  UrlSteps(s, u, parse_url_char(s, u))
BY DEF parse_url_char, UrlSteps, Servers

\* The fields there may be in each state.
UpTo(s) ==
    CASE s = "s_req_spaces_before_url" -> {}
      [] s \in {"s_req_schema", "s_req_schema_slash", "s_req_schema_slash_slash",
                "s_req_server_start"} -> {"UF_SCHEMA"}
      [] s \in {"s_req_server", "s_req_server_with_at"} -> {"UF_SCHEMA", "UF_HOST"}
      [] s \in {"s_req_path", "s_req_query_string_start"} ->
            {"UF_SCHEMA", "UF_HOST", "UF_PATH"}
      [] s \in {"s_req_query_string", "s_req_fragment_start"} ->
            {"UF_SCHEMA", "UF_HOST", "UF_PATH", "UF_QUERY"}
      [] OTHER -> {"UF_SCHEMA", "UF_HOST", "UF_PATH", "UF_QUERY", "UF_FRAGMENT"}

\* What is known after i units of the url.
Walked(buf, w, i) ==
    /\ w.url \in Urls /\ w.url.field_set \subseteq UpTo(w.s)
    /\ Laid(buf, w.url.field_set, w.url, i)
    /\ w.uf \in w.url.field_set \cup {"UF_MAX"}
    /\ FieldOf(w.s) # "UF_MAX" => w.uf = FieldOf(w.s) /\ End(w.url, w.uf) = i
    /\ FieldOf(w.s) = "UF_MAX" => \A f \in w.url.field_set : End(w.url, f) < i
    /\ w.s = "s_req_query_string_start" => buf[i] = "?"
    /\ w.s = "s_req_fragment_start" => buf[i] = "#"
    /\ Clean(buf, w.url.field_set \ {"UF_HOST"}, w.url)

\* The host, which is still to be taken apart, may hold delimiters.
LEMMA UrlCharProper ==
    ASSUME NEW s, NEW u, NEW to, to = parse_url_char(s, u), to # "s_dead",
           FieldOf(to) \notin {"UF_MAX", "UF_HOST"}
    PROVE  Proper(FieldOf(to), u)
<1>1. UrlSteps(s, u, to)
  BY UrlCharSteps
<1>2. CASE to = "s_req_schema"
  <2>1. IsAlpha(u)
    BY <1>1, <1>2 DEF UrlSteps, parse_url_char, Servers
  <2>. QED
    BY <1>2, <2>1 DEF IsAlpha, FieldOf, Proper, Foreign, NoUrlUnits
<1>3. CASE to = "s_req_path"
  <2>1. u \in {"/", "*"} \/ IsUrlChar(u)
    BY <1>1, <1>3 DEF UrlSteps, parse_url_char, Servers
  <2>. QED
    BY <1>3, <2>1 DEF IsUrlChar, Words, Versions, Methods, KeywordStates, CodingStates, ConnectionStates,
       Statuses, Digit, FieldOf, Proper, Foreign, NoUrlUnits
<1>4. CASE to = "s_req_query_string"
  <2>1. u = "?" \/ IsUrlChar(u)
    BY <1>1, <1>4 DEF UrlSteps, parse_url_char, Servers
  <2>. QED
    BY <1>4, <2>1 DEF IsUrlChar, Words, Versions, Methods, KeywordStates, CodingStates, ConnectionStates,
       Statuses, Digit, FieldOf, Proper, Foreign, NoUrlUnits
<1>5. CASE to = "s_req_fragment"
  <2>1. u \in {"?", "#"} \/ IsUrlChar(u)
    BY <1>1, <1>5 DEF UrlSteps, parse_url_char, Servers
  <2>. QED
    BY <1>5, <2>1 DEF IsUrlChar, Words, Versions, Methods, KeywordStates, CodingStates, ConnectionStates,
       Statuses, Digit, FieldOf, Proper, Foreign, NoUrlUnits
<1>. QED
  BY <1>1, <1>2, <1>3, <1>4, <1>5 DEF FieldOf, UrlSteps

\* What a step means for the fields: it reads a delimiter, or a unit of a field
\* that is the one before or comes after all that there were.
LEMMA UrlStepFields ==
    ASSUME NEW s, NEW u, NEW to, UrlSteps(s, u, to)
    PROVE  /\ UpTo(s) \subseteq UpTo(to) /\ UpTo(to) \subseteq UrlFields
           /\ FieldOf(to) = "UF_MAX" => u \in Delimiters
           /\ FieldOf(to) # "UF_MAX" =>
                 /\ FieldOf(to) \in UpTo(to) \cap {"UF_SCHEMA", "UF_HOST", "UF_PATH",
                                                  "UF_QUERY", "UF_FRAGMENT"}
                 /\ \A g \in UpTo(to) : g = FieldOf(to) \/ RankOf(g) < RankOf(FieldOf(to))
                 /\ FieldOf(s) = FieldOf(to) \/ FieldOf(to) \notin UpTo(s)
<1>1. /\ UpTo(s) \subseteq UpTo(to) /\ UpTo(to) \subseteq UrlFields
      /\ FieldOf(to) = "UF_MAX" => u \in Delimiters
  BY DEF UrlSteps, Servers, UpTo, FieldOf, UrlFields, Delimiters
<1>2. ASSUME FieldOf(to) # "UF_MAX"
      PROVE  /\ FieldOf(to) \in UpTo(to) \cap {"UF_SCHEMA", "UF_HOST", "UF_PATH",
                                              "UF_QUERY", "UF_FRAGMENT"}
             /\ FieldOf(s) = FieldOf(to) \/ FieldOf(to) \notin UpTo(s)
  BY <1>2 DEF UrlSteps, Servers, UpTo, FieldOf
<1>3. ASSUME FieldOf(to) # "UF_MAX", NEW g \in UpTo(to)
      PROVE  g = FieldOf(to) \/ RankOf(g) < RankOf(FieldOf(to))
  BY <1>3 DEF UrlSteps, Servers, UpTo, FieldOf, RankOf
<1>. QED
  BY <1>1, <1>2, <1>3

\* Where a field may begin.
LEMMA UrlStepBegins ==
    ASSUME NEW buf, NEW s, NEW to, NEW i \in Nat, UrlSteps(s, buf[i + 1], to),
           FieldOf(to) # "UF_MAX", FieldOf(s) # FieldOf(to),
           s = "s_req_query_string_start" => buf[i] = "?",
           s = "s_req_fragment_start" => buf[i] = "#"
    PROVE  Opened(buf, FieldOf(to), i + 1) /\ (FieldOf(s) = "UF_MAX" \/ Gap(FieldOf(to)) = 0)
<1>1. i + 1 - 1 = i
  OBVIOUS
<1>. QED
  BY <1>1 DEF UrlSteps, Servers, FieldOf, Opened, Gap

\* What a step does to the url.
LEMMA UrlUnitDoes ==
    ASSUME NEW buf, NEW w, NEW i \in Nat, NEW to, to = parse_url_char(w.s, buf[i])
    PROVE  /\ UrlUnit(w, buf, i).s = to
           /\ FieldOf(to) = "UF_MAX" =>
                 UrlUnit(w, buf, i).url = w.url /\ UrlUnit(w, buf, i).uf = w.uf
           /\ FieldOf(to) # "UF_MAX" => UrlUnit(w, buf, i).uf = FieldOf(to)
           /\ FieldOf(to) # "UF_MAX" /\ FieldOf(to) = w.uf =>
                 UrlUnit(w, buf, i).url = Extend(w.url, FieldOf(to))
           /\ FieldOf(to) # "UF_MAX" /\ FieldOf(to) # w.uf =>
                 UrlUnit(w, buf, i).url = Begin(w.url, FieldOf(to), i)
BY DEF UrlUnit

LEMMA WalkStep ==
    ASSUME NEW buf, NEW w, NEW i \in Nat, Walked(buf, w, i), i < UINT16_MAX,
           UrlUnit(w, buf, i + 1).s # "s_dead"
    PROVE  Walked(buf, UrlUnit(w, buf, i + 1), i + 1)
<1>1. PICK to : to = parse_url_char(w.s, buf[i + 1])
  OBVIOUS
<1>2. PICK v : v = UrlUnit(w, buf, i + 1)
  OBVIOUS
<1>3. PICK url : url = w.url
  OBVIOUS
<1>4. PICK F : F = url.field_set
  OBVIOUS
<1>5. v.s = to
  BY <1>1, <1>2, UrlUnitDoes
<1>6. UrlSteps(w.s, buf[i + 1], to)
  BY <1>1, <1>2, <1>5, UrlCharSteps
<1>7. /\ url \in Urls /\ F \subseteq UpTo(w.s) /\ Laid(buf, F, url, i)
      /\ w.uf \in F \cup {"UF_MAX"}
      /\ FieldOf(w.s) # "UF_MAX" => w.uf = FieldOf(w.s) /\ End(url, w.uf) = i
      /\ FieldOf(w.s) = "UF_MAX" => \A f \in F : End(url, f) < i
      /\ w.s = "s_req_query_string_start" => buf[i] = "?"
      /\ w.s = "s_req_fragment_start" => buf[i] = "#"
      /\ Clean(buf, F \ {"UF_HOST"}, url)
  BY <1>3, <1>4 DEF Walked
<1>8. UpTo(w.s) \subseteq UpTo(to) /\ UpTo(to) \subseteq UrlFields
  BY <1>6, UrlStepFields
<1>9. F \subseteq UpTo(to) /\ F \in SUBSET UrlFields
  BY <1>7, <1>8
<1>10. /\ to = "s_req_query_string_start" => buf[i + 1] = "?"
       /\ to = "s_req_fragment_start" => buf[i + 1] = "#"
  BY <1>6 DEF UrlSteps
<1>11. \A f \in F : End(url, f) <= i /\ End(url, f) \in Int
  BY <1>7, <1>9, PlacesAreNumbers DEF Laid
<1>12. ASSUME FieldOf(to) = "UF_MAX" PROVE Walked(buf, v, i + 1)
  <2>1. v.url = url /\ v.uf = w.uf
    BY <1>1, <1>2, <1>3, <1>12, UrlUnitDoes
  <2>2. Laid(buf, F, url, i + 1)
    BY <1>6, <1>7, <1>9, <1>12, LaidDelimiter, UrlStepFields
  <2>3. \A f \in F : End(url, f) < i + 1
    BY <1>11
  <2>. QED
    BY <1>4, <1>5, <1>7, <1>9, <1>10, <1>12, <2>1, <2>2, <2>3 DEF Walked
<1>13. ASSUME FieldOf(to) # "UF_MAX" PROVE Walked(buf, v, i + 1)
  <2>1. PICK f : f = FieldOf(to)
    OBVIOUS
  <2>2. /\ f \in UrlFields /\ f \in UpTo(to)
        /\ \A g \in UpTo(to) : g = f \/ RankOf(g) < RankOf(f)
        /\ FieldOf(w.s) = f \/ f \notin UpTo(w.s)
    BY <1>6, <1>8, <1>13, <2>1, UrlStepFields
  <2>3. v.uf = f
    BY <1>1, <1>2, <1>13, <2>1, UrlUnitDoes
  <2>4. f # "UF_MAX"
    BY <1>13, <2>1
  <2>5. RankOf(f) \in 1..7
    BY <1>7, <2>2, PlacesAreNumbers
  <2>8. f # "UF_HOST" => Proper(f, buf[i + 1])
    <3>1. parse_url_char(w.s, buf[i + 1]) # "s_dead"
      BY <1>2, UrlUnitDoes
    <3>. QED
      BY <1>1, <2>1, <2>4, <3>1, UrlCharProper
  <2>6. CASE FieldOf(w.s) = f
    <3>1. w.uf = f /\ f \in F /\ End(url, f) = i
      BY <1>7, <2>4, <2>6
    <3>2. v.url = Extend(url, f)
      BY <1>1, <1>2, <1>3, <1>13, <2>1, <3>1, UrlUnitDoes
    <3>3. \A g \in F : RankOf(g) <= RankOf(f)
      BY <1>7, <1>9, <2>2, <2>5, PlacesAreNumbers
    <3>4. Laid(buf, F, v.url, i + 1)
      BY <1>7, <1>9, <3>1, <3>2, <3>3, LaidExtend
    <3>5. v.url \in Urls /\ v.url.field_set = F /\ End(v.url, f) = i + 1
      BY <1>4, <1>7, <2>2, <3>1, <3>2, ExtendDoes
    <3>6. PICK G \in SUBSET UrlFields : G = F \ {"UF_HOST"}
      BY <1>9
    <3>7. f \in G => Proper(f, buf[i + 1])
      BY <2>8, <3>6
    <3>8. Clean(buf, G, v.url)
      BY <1>7, <2>2, <3>1, <3>2, <3>6, <3>7, CleanExtend
    <3>. QED
      BY <1>5, <1>9, <1>10, <2>1, <2>3, <2>4, <3>1, <3>4, <3>5, <3>6, <3>8 DEF Walked
  <2>7. CASE FieldOf(w.s) # f
    <3>1. f \notin F /\ w.uf # f
      BY <1>7, <2>2, <2>4, <2>7
    <3>2. v.url = Begin(url, f, i + 1)
      BY <1>1, <1>2, <1>3, <1>13, <2>1, <3>1, UrlUnitDoes
    <3>3. \A g \in F : RankOf(g) < RankOf(f)
      BY <1>9, <2>2, <3>1
    <3>4. Opened(buf, f, i + 1) /\ (FieldOf(w.s) = "UF_MAX" \/ Gap(f) = 0)
      BY <1>6, <1>7, <1>13, <2>1, <2>7, UrlStepBegins
    <3>5. \A g \in F : End(url, g) + Gap(f) <= i
      BY <1>7, <1>11, <3>4 DEF Gap
    <3>6. Laid(buf, F \cup {f}, v.url, i + 1)
      BY <1>7, <1>9, <2>2, <3>2, <3>3, <3>4, <3>5, LaidBegin
    <3>7. v.url \in Urls /\ v.url.field_set = F \cup {f} /\ End(v.url, f) = i + 1
      BY <1>4, <1>7, <2>2, <3>2, NextFits, BeginDoes
    <3>8. PICK G \in SUBSET UrlFields : G = F \ {"UF_HOST"}
      BY <1>9
    <3>9. PICK H : H = (F \cup {f}) \ {"UF_HOST"}
      OBVIOUS
    <3>10. H \in SUBSET (G \cup {f}) /\ (f \in H => Proper(f, buf[i + 1]))
      BY <2>8, <3>8, <3>9
    <3>11. Clean(buf, H, v.url)
      BY <1>7, <2>2, <3>2, <3>8, <3>10, CleanBegin
    <3>. QED
      BY <1>5, <1>9, <1>10, <2>1, <2>2, <2>3, <2>4, <3>6, <3>7, <3>9, <3>11 DEF Walked
  <2>. QED
    BY <2>6, <2>7
<1>. QED
  BY <1>2, <1>12, <1>13

-----------------------------------------------------------------------------
(* The walk of http_parse_host. *)

\* The steps that http_parse_host_char makes.
HostSteps(s, u, to) ==
    \/ s \in {"s_http_userinfo_start", "s_http_userinfo"} /\ to = "s_http_host_start" /\ u = "@"
    \/ s \in {"s_http_userinfo_start", "s_http_userinfo"} /\ to = "s_http_userinfo"
    \/ s = "s_http_host_start" /\ to = "s_http_host_v6_start" /\ u = "["
    \/ s \in {"s_http_host_start", "s_http_host"} /\ to = "s_http_host"
    \/ s \in {"s_http_host", "s_http_host_v6_end"} /\ to = "s_http_host_port_start" /\ u = ":"
    \/ s \in {"s_http_host_v6", "s_http_host_v6_zone"} /\ to = "s_http_host_v6_end" /\ u = "]"
    \/ s \in {"s_http_host_v6_start", "s_http_host_v6"} /\ to = "s_http_host_v6"
    \/ s = "s_http_host_v6" /\ to = "s_http_host_v6_zone_start"
    \/ s \in {"s_http_host_v6_zone_start", "s_http_host_v6_zone"} /\ to = "s_http_host_v6_zone"
    \/ s \in {"s_http_host_port_start", "s_http_host_port"} /\ to = "s_http_host_port"

LEMMA HostCharSteps ==
    ASSUME NEW s, NEW u, http_parse_host_char(s, u) # "s_http_host_dead"
    PROVE  HostSteps(s, u, http_parse_host_char(s, u))
BY DEF http_parse_host_char, HostSteps

\* The part of the host that a unit belongs to.
PartOf(s) ==
    CASE s = "s_http_userinfo" -> "UF_USERINFO"
      [] s \in {"s_http_host", "s_http_host_v6", "s_http_host_v6_zone_start",
                "s_http_host_v6_zone"} -> "UF_HOST"
      [] s = "s_http_host_port" -> "UF_PORT"
      [] OTHER -> "UF_MAX"

\* The parts there may be in each state.
PartsUpTo(s) ==
    CASE s = "s_http_userinfo_start" -> {}
      [] s \in {"s_http_userinfo", "s_http_host_start", "s_http_host_v6_start"} ->
            {"UF_USERINFO"}
      [] s \in {"s_http_host", "s_http_host_v6", "s_http_host_v6_zone_start",
                "s_http_host_v6_zone", "s_http_host_v6_end", "s_http_host_port_start"} ->
            {"UF_USERINFO", "UF_HOST"}
      [] s = "s_http_host_port" -> {"UF_USERINFO", "UF_HOST", "UF_PORT"}

\* The host has begun.
Hosted == {"s_http_host", "s_http_host_v6", "s_http_host_v6_zone_start",
           "s_http_host_v6_zone", "s_http_host_v6_end", "s_http_host_port_start",
           "s_http_host_port"}

LEMMA HostStepParts ==
    ASSUME NEW s, NEW u, NEW to, HostSteps(s, u, to)
    PROVE  /\ PartsUpTo(s) \subseteq PartsUpTo(to) /\ PartsUpTo(to) \subseteq UrlFields
           /\ "UF_SCHEMA" \notin PartsUpTo(to)
           /\ PartOf(to) = "UF_MAX" => u \in Delimiters /\ (to \in Hosted <=> s \in Hosted)
           /\ PartOf(to) # "UF_MAX" =>
                 /\ PartOf(to) \in PartsUpTo(to) \cap {"UF_USERINFO", "UF_HOST", "UF_PORT"}
                 /\ \A g \in PartsUpTo(to) : g = PartOf(to) \/ RankOf(g) < RankOf(PartOf(to))
                 /\ PartOf(s) = PartOf(to) \/ PartOf(to) \notin PartsUpTo(s)
                 /\ PartOf(s) # PartOf(to) => PartOf(s) = "UF_MAX"
                 /\ PartOf(to) = "UF_PORT" /\ PartOf(s) # "UF_PORT" =>
                        s = "s_http_host_port_start"
                 /\ to \in Hosted <=> s \in Hosted \/ PartOf(to) = "UF_HOST"
           /\ to = "s_http_host_port_start" => u = ":"
<1>1. /\ PartsUpTo(s) \subseteq PartsUpTo(to) /\ PartsUpTo(to) \subseteq UrlFields
      /\ "UF_SCHEMA" \notin PartsUpTo(to)
      /\ to = "s_http_host_port_start" => u = ":"
  BY DEF HostSteps, PartsUpTo, UrlFields
<1>2. PartOf(to) = "UF_MAX" => u \in Delimiters /\ (to \in Hosted <=> s \in Hosted)
  BY DEF HostSteps, PartOf, Delimiters, Hosted
<1>3. ASSUME PartOf(to) # "UF_MAX"
      PROVE  /\ PartOf(to) \in PartsUpTo(to) \cap {"UF_USERINFO", "UF_HOST", "UF_PORT"}
             /\ PartOf(s) = PartOf(to) \/ PartOf(to) \notin PartsUpTo(s)
             /\ PartOf(s) # PartOf(to) => PartOf(s) = "UF_MAX"
             /\ PartOf(to) = "UF_PORT" /\ PartOf(s) # "UF_PORT" => s = "s_http_host_port_start"
  BY <1>3 DEF HostSteps, PartOf, PartsUpTo
<1>4. ASSUME PartOf(to) # "UF_MAX"
      PROVE  to \in Hosted <=> s \in Hosted \/ PartOf(to) = "UF_HOST"
  BY <1>4 DEF HostSteps, PartOf, Hosted
<1>5. ASSUME PartOf(to) # "UF_MAX", NEW g \in PartsUpTo(to)
      PROVE  g = PartOf(to) \/ RankOf(g) < RankOf(PartOf(to))
  BY <1>5 DEF HostSteps, PartOf, PartsUpTo, RankOf
<1>. QED
  BY <1>1, <1>2, <1>3, <1>4, <1>5

\* What a step does to the url.
LEMMA HostUnitDoes ==
    ASSUME NEW url, NEW s, NEW u, NEW to, NEW i, HostSteps(s, u, to)
    PROVE  /\ PartOf(to) = "UF_MAX" => HostUnit(url, s, to, i) = url
           /\ PartOf(to) # "UF_MAX" /\ PartOf(s) = PartOf(to) =>
                 HostUnit(url, s, to, i) = Extend(url, PartOf(to))
           /\ PartOf(to) # "UF_MAX" /\ PartOf(s) # PartOf(to) =>
                 HostUnit(url, s, to, i) = Begin(url, PartOf(to), i)
BY DEF HostSteps, PartOf, HostUnit

\* The fields up to the host that have been found.
Found(fs, s) ==
    (fs \cap {"UF_SCHEMA", "UF_USERINFO", "UF_PORT"}) \cup (IF s \in Hosted THEN {"UF_HOST"} ELSE {})

\* The fields that http_parse_host leaves alone.
Others == {"UF_SCHEMA", "UF_PATH", "UF_QUERY", "UF_FRAGMENT"}

Kept(u, url) ==
    /\ u.field_set \subseteq url.field_set
    /\ url.field_set \subseteq u.field_set \cup {"UF_USERINFO", "UF_PORT"}
    /\ \A f \in Others : Offset(url, f) = Offset(u, f) /\ End(url, f) = End(u, f)

\* What is known of the url, which was u, when its host is read up to i.
HostWalked(buf, u, v, i) ==
    LET F == Found(v.url.field_set, v.s)
    IN  /\ v.url \in Urls /\ Kept(u, v.url)
        /\ Laid(buf, F, v.url, i) /\ F \subseteq {"UF_SCHEMA"} \cup PartsUpTo(v.s)
        /\ PartOf(v.s) # "UF_MAX" => PartOf(v.s) \in F /\ End(v.url, PartOf(v.s)) = i
        /\ PartOf(v.s) = "UF_MAX" => \A f \in F : End(v.url, f) < i
        /\ v.s = "s_http_host_port_start" => buf[i] = ":"
        /\ Clean(buf, F, v.url)

LEMMA HostCharProper ==
    ASSUME NEW s, NEW u, NEW to, to = http_parse_host_char(s, u), to # "s_http_host_dead",
           PartOf(to) # "UF_MAX"
    PROVE  Proper(PartOf(to), u)
<1>1. HostSteps(s, u, to)
  BY HostCharSteps
<1>2. CASE to = "s_http_userinfo"
  <2>1. IsUserinfoChar(u)
    BY <1>1, <1>2 DEF HostSteps, http_parse_host_char
  <2>. QED
    BY <1>2, <2>1 DEF IsUserinfoChar, Words, Methods, KeywordStates, CodingStates,
       ConnectionStates, Statuses, Digit, PartOf, Proper, Foreign, NoUrlUnits
<1>3. CASE to \in {"s_http_host", "s_http_host_v6", "s_http_host_v6_zone_start",
                  "s_http_host_v6_zone"}
  <2>1. IsHostChar(u) \/ IsHex(u) \/ u \in {":", ".", "%"}
    BY <1>1, <1>3 DEF HostSteps, http_parse_host_char, IsHostChar
  <2>2. u \in {"x", "cgi", ":", ".", "%"} \cup DOMAIN Digit
    BY <2>1 DEF IsHostChar, IsAlphanum, IsAlpha, IsNum, IsHex
  <2>. QED
    BY <1>3, <2>2 DEF Digit, PartOf, Proper, Foreign, NoUrlUnits
<1>4. CASE to = "s_http_host_port"
  <2>1. IsNum(u)
    BY <1>1, <1>4 DEF HostSteps, http_parse_host_char
  <2>2. u \in DOMAIN Digit
    BY <2>1 DEF IsNum
  <2>. QED
    BY <1>4, <2>1, <2>2 DEF Digit, PartOf, Proper, Foreign, NoUrlUnits
<1>. QED
  BY <1>1, <1>2, <1>3, <1>4 DEF PartOf

LEMMA KeptByExtend ==
    ASSUME NEW u, NEW url \in Urls, NEW f \in {"UF_USERINFO", "UF_HOST", "UF_PORT"},
           Kept(u, url), End(url, f) < UINT16_MAX
    PROVE  Kept(u, Extend(url, f))
<1>1. PICK new : new = Extend(url, f)
  OBVIOUS
<1> f \in UrlFields
  BY DEF UrlFields
<1>2. new.field_set = url.field_set
      /\ \A g \in UrlFields : /\ Offset(new, g) = Offset(url, g)
                              /\ End(new, g) = IF g = f THEN End(url, g) + 1 ELSE End(url, g)
  BY <1>1, ExtendDoes
<1>3. \A g \in Others : g \in UrlFields /\ g # f
  BY DEF Others, UrlFields
<1>4. Kept(u, new)
  BY <1>2, <1>3 DEF Kept
<1>. QED
  BY <1>1, <1>4

LEMMA KeptByBegin ==
    ASSUME NEW u, NEW url \in Urls, NEW f \in {"UF_USERINFO", "UF_HOST", "UF_PORT"},
           NEW i \in Nat \ {0}, i <= UINT16_MAX, Kept(u, url), "UF_HOST" \in u.field_set
    PROVE  Kept(u, Begin(url, f, i))
<1>1. PICK new : new = Begin(url, f, i)
  OBVIOUS
<1> f \in UrlFields
  BY DEF UrlFields
<1>2. new.field_set = url.field_set \cup {f}
      /\ \A g \in UrlFields : /\ Offset(new, g) = IF g = f THEN i ELSE Offset(url, g)
                              /\ End(new, g) = IF g = f THEN i ELSE End(url, g)
  BY <1>1, BeginDoes
<1>3. \A g \in Others : g \in UrlFields /\ g # f
  BY DEF Others, UrlFields
<1>4. Kept(u, new)
  BY <1>2, <1>3 DEF Kept
<1>. QED
  BY <1>1, <1>4

LEMMA HostStep ==
    ASSUME NEW buf, NEW u, NEW v, NEW i \in Nat, HostWalked(buf, u, v, i), i < UINT16_MAX,
           "UF_HOST" \in u.field_set, NEW to, NEW w,
           to = http_parse_host_char(v.s, buf[i + 1]), to # "s_http_host_dead",
           w = [s |-> to, url |-> HostUnit(v.url, v.s, to, i + 1)]
    PROVE  HostWalked(buf, u, w, i + 1)
<1>1. PICK url : url = v.url
  OBVIOUS
<1>2. PICK s : s = v.s
  OBVIOUS
<1>3. PICK F : F = Found(url.field_set, s)
  OBVIOUS
<1>4. HostSteps(s, buf[i + 1], to)
  BY <1>2, HostCharSteps
<1>5. /\ url \in Urls /\ Kept(u, url)
      /\ Laid(buf, F, url, i) /\ F \subseteq {"UF_SCHEMA"} \cup PartsUpTo(s)
      /\ PartOf(s) # "UF_MAX" => PartOf(s) \in F /\ End(url, PartOf(s)) = i
      /\ PartOf(s) = "UF_MAX" => \A f \in F : End(url, f) < i
      /\ s = "s_http_host_port_start" => buf[i] = ":"
      /\ Clean(buf, F, url)
  BY <1>1, <1>2, <1>3 DEF HostWalked
<1>6. w.s = to /\ w.url = HostUnit(url, s, to, i + 1)
  BY <1>1, <1>2
<1>7. /\ PartsUpTo(s) \subseteq PartsUpTo(to) /\ PartsUpTo(to) \subseteq UrlFields
      /\ "UF_SCHEMA" \notin PartsUpTo(to)
      /\ to = "s_http_host_port_start" => buf[i + 1] = ":"
  BY <1>4, HostStepParts
<1>8. F \in SUBSET UrlFields /\ F \subseteq {"UF_SCHEMA"} \cup PartsUpTo(to)
  BY <1>5, <1>7 DEF UrlFields
<1>9. \A f \in F : End(url, f) <= i /\ End(url, f) \in Int
  BY <1>5, <1>8, PlacesAreNumbers DEF Laid
<1>10. ASSUME PartOf(to) = "UF_MAX" PROVE HostWalked(buf, u, w, i + 1)
  <2>1. w.url = url
    BY <1>4, <1>6, <1>10, HostUnitDoes
  <2>2. buf[i + 1] \in Delimiters /\ (to \in Hosted <=> s \in Hosted)
    BY <1>4, <1>10, HostStepParts
  <2>3. Found(url.field_set, to) = F
    BY <1>3, <2>2 DEF Found
  <2>4. Laid(buf, F, url, i + 1)
    BY <1>5, <1>8, <2>2, LaidDelimiter
  <2>5. \A f \in F : End(url, f) < i + 1
    BY <1>9
  <2>. QED
    BY <1>5, <1>6, <1>7, <1>8, <1>10, <2>1, <2>3, <2>4, <2>5 DEF HostWalked
<1>11. ASSUME PartOf(to) # "UF_MAX" PROVE HostWalked(buf, u, w, i + 1)
  <2>1. PICK f : f = PartOf(to)
    OBVIOUS
  <2>2. /\ f \in PartsUpTo(to) \cap {"UF_USERINFO", "UF_HOST", "UF_PORT"}
        /\ \A g \in PartsUpTo(to) : g = f \/ RankOf(g) < RankOf(f)
        /\ PartOf(s) = f \/ f \notin PartsUpTo(s)
        /\ PartOf(s) # f => PartOf(s) = "UF_MAX"
        /\ f = "UF_PORT" /\ PartOf(s) # "UF_PORT" => s = "s_http_host_port_start"
        /\ to \in Hosted <=> s \in Hosted \/ f = "UF_HOST"
    BY <1>4, <1>11, <2>1, HostStepParts
  <2>3. RankOf("UF_SCHEMA") < RankOf(f)
    BY <2>2 DEF RankOf
  <2>4. f \in UrlFields /\ f # "UF_MAX" /\ RankOf(f) \in 1..7
    BY <1>5, <1>7, <1>11, <2>1, <2>2, PlacesAreNumbers
  <2>5. \A g \in F : g = f \/ RankOf(g) < RankOf(f)
    BY <1>8, <2>2, <2>3
  <2>8. Proper(f, buf[i + 1])
    BY <1>2, <1>11, <2>1, HostCharProper
  <2>6. CASE PartOf(s) = f
    <3>1. f \in F /\ End(url, f) = i
      BY <1>5, <2>4, <2>6
    <3>2. w.url = Extend(url, f)
      BY <1>4, <1>6, <1>11, <2>1, <2>6, HostUnitDoes
    <3>3. \A g \in F : RankOf(g) <= RankOf(f)
      BY <1>5, <1>8, <2>4, <2>5, PlacesAreNumbers
    <3>4. Laid(buf, F, w.url, i + 1)
      BY <1>5, <1>8, <3>1, <3>2, <3>3, LaidExtend
    <3>5. w.url \in Urls /\ w.url.field_set = url.field_set /\ End(w.url, f) = i + 1
      BY <1>5, <2>4, <3>1, <3>2, ExtendDoes
    <3>6. Kept(u, w.url)
      BY <1>5, <2>2, <3>1, <3>2, KeptByExtend
    <3>7. Found(w.url.field_set, to) = F
      BY <1>3, <2>2, <3>1, <3>5 DEF Found
    <3>8. Clean(buf, F, w.url)
      BY <1>5, <1>8, <2>4, <2>8, <3>1, <3>2, CleanExtend
    <3>. QED
      BY <1>6, <1>7, <1>8, <2>1, <2>4, <3>1, <3>4, <3>5, <3>6, <3>7, <3>8 DEF HostWalked
  <2>7. CASE PartOf(s) # f
    <3>1. f \notin F /\ PartOf(s) = "UF_MAX"
      BY <1>5, <2>2, <2>7
    <3>2. w.url = Begin(url, f, i + 1)
      BY <1>4, <1>6, <1>11, <2>1, <2>7, HostUnitDoes
    <3>3. \A g \in F : RankOf(g) < RankOf(f)
      BY <2>5, <3>1
    <3>4. Opened(buf, f, i + 1)
      <4>1. i + 1 - 1 = i
        OBVIOUS
      <4>. QED
        BY <1>5, <2>2, <2>7, <4>1 DEF Opened
    <3>5. \A g \in F : End(url, g) + Gap(f) <= i
      BY <1>5, <1>9, <3>1 DEF Gap
    <3>6. Laid(buf, F \cup {f}, w.url, i + 1)
      BY <1>5, <1>8, <2>4, <3>2, <3>3, <3>4, <3>5, LaidBegin
    <3>7. w.url \in Urls /\ w.url.field_set = url.field_set \cup {f} /\ End(w.url, f) = i + 1
      BY <1>5, <2>4, <3>2, NextFits, BeginDoes
    <3>8. Kept(u, w.url)
      BY <1>5, <2>2, <3>2, NextFits, KeptByBegin
    <3>9. Found(w.url.field_set, to) = F \cup {f}
      BY <1>3, <2>2, <3>7 DEF Found
    <3>10. Clean(buf, F \cup {f}, w.url)
      BY <1>5, <1>8, <2>4, <2>8, <3>2, CleanBegin
    <3>. QED
      BY <1>6, <1>7, <1>8, <2>1, <2>2, <2>4, <3>6, <3>7, <3>8, <3>9, <3>10 DEF HostWalked
  <2>. QED
    BY <2>6, <2>7
<1>. QED
  BY <1>10, <1>11

-----------------------------------------------------------------------------
(* The walks are what their equations say.  A walk for k units, and one more *)
(* unit, is a walk for k + 1.                                                *)

WalkStart(is_connect) ==
    [s |-> IF is_connect THEN "s_req_server_start" ELSE "s_req_spaces_before_url",
     uf |-> "UF_MAX", found_at |-> FALSE, url |-> NoFields]

\* f is a walk over n units.
IsUrlWalk(f, buf, is_connect, n) ==
    f = [i \in 0..n |-> IF i = 0 THEN WalkStart(is_connect) ELSE UrlUnit(f[i - 1], buf, i)]

LEMMA UrlWalkExists ==
    ASSUME NEW buf, NEW c, NEW n \in Nat
    PROVE  \E f : IsUrlWalk(f, buf, c, n)
<1> DEFINE I == {k \in Nat : \E f : IsUrlWalk(f, buf, c, k)}
<1>1. 0 \in I
  <2> DEFINE f == [i \in 0..0 |-> WalkStart(c)]
  <2>1. IsUrlWalk(f, buf, c, 0)
    BY DEF IsUrlWalk
  <2>. QED
    BY <2>1
<1>2. ASSUME NEW k \in Nat, k \in I PROVE k + 1 \in I
  <2>1. PICK f : IsUrlWalk(f, buf, c, k)
    BY <1>2
  <2> DEFINE g == [i \in 0..(k + 1) |-> IF i = k + 1 THEN UrlUnit(f[k], buf, k + 1) ELSE f[i]]
  <2>2. ASSUME NEW i \in 0..(k + 1)
        PROVE  g[i] = IF i = 0 THEN WalkStart(c) ELSE UrlUnit(g[i - 1], buf, i)
    <3>1. CASE i = k + 1
      <4>1. k \in 0..(k + 1) /\ i - 1 = k /\ i # 0 /\ k # k + 1
        BY <3>1
      <4>2. g[k] = f[k] /\ g[i] = UrlUnit(f[k], buf, k + 1)
        BY <3>1, <4>1
      <4>. QED
        BY <3>1, <4>1, <4>2
    <3>2. CASE i = 0
      BY <2>1, <3>2 DEF IsUrlWalk
    <3>3. CASE i \in 1..k
      <4>1. i \in 0..k /\ i - 1 \in 0..(k + 1) /\ i - 1 # k + 1 /\ i # 0 /\ i # k + 1
        BY <3>3
      <4>2. g[i] = f[i] /\ g[i - 1] = f[i - 1]
        BY <4>1
      <4>3. f[i] = UrlUnit(f[i - 1], buf, i)
        BY <2>1, <4>1 DEF IsUrlWalk
      <4> HIDE DEF g
      <4>. QED
        BY <4>1, <4>2, <4>3
    <3>. QED
      BY <3>1, <3>2, <3>3
  <2>3. IsUrlWalk(g, buf, c, k + 1)
    <3>1. DOMAIN g = 0..(k + 1) /\ g = [i \in 0..(k + 1) |-> g[i]]
      OBVIOUS
    <3> HIDE DEF g
    <3>. QED
      BY <2>2, <3>1 DEF IsUrlWalk
  <2> HIDE DEF g
  <2>. QED
    BY <2>3
<1> HIDE DEF I
<1>3. \A k \in 0..n : k \in I
  BY <1>1, <1>2, Counting
<1>. QED
  BY <1>3 DEF I

LEMMA UrlWalkIs ==
    ASSUME NEW buf \in Seq(STRING), NEW c, NEW w, w = UrlWalk(buf, c)
    PROVE  w[0] = WalkStart(c) /\ \A i \in 1..Len(buf) : w[i] = UrlUnit(w[i - 1], buf, i)
<1>1. Len(buf) \in Nat
  OBVIOUS
<1>2. \E f : IsUrlWalk(f, buf, c, Len(buf))
  BY <1>1, UrlWalkExists
<1>3. IsUrlWalk(w, buf, c, Len(buf))
  BY <1>2 DEF UrlWalk, WalkStart, IsUrlWalk
<1>. QED
  BY <1>1, <1>3 DEF IsUrlWalk

HostStart(u, found_at) ==
    [s |-> IF found_at THEN "s_http_userinfo_start" ELSE "s_http_host_start",
     url |-> [u EXCEPT !.field_data["UF_HOST"].len = 0]]

HostNext(before, buf, i) ==
    [s |-> http_parse_host_char(before.s, buf[i]),
     url |-> HostUnit(before.url, before.s, http_parse_host_char(before.s, buf[i]), i)]

\* f is a walk from the unit after m to n.
IsHostWalk(f, buf, u, found_at, m, n) ==
    f = [i \in m..n |-> IF i = m THEN HostStart(u, found_at) ELSE HostNext(f[i - 1], buf, i)]

LEMMA HostWalkExists ==
    ASSUME NEW buf, NEW u, NEW c, NEW m \in Nat, NEW n \in Nat
    PROVE  \E f : IsHostWalk(f, buf, u, c, m, m + n)
<1> DEFINE I == {k \in Nat : \E f : IsHostWalk(f, buf, u, c, m, m + k)}
<1>1. 0 \in I
  <2> DEFINE f == [i \in m..(m + 0) |-> HostStart(u, c)]
  <2>1. IsHostWalk(f, buf, u, c, m, m + 0)
    BY DEF IsHostWalk
  <2> HIDE DEF f
  <2>. QED
    BY <2>1
<1>2. ASSUME NEW k \in Nat, k \in I PROVE k + 1 \in I
  <2>1. PICK f : IsHostWalk(f, buf, u, c, m, m + k)
    BY <1>2
  <2>2. PICK n1 \in Nat : n1 = m + k
    OBVIOUS
  <2> DEFINE g == [i \in m..(n1 + 1) |-> IF i = n1 + 1 THEN HostNext(f[n1], buf, n1 + 1) ELSE f[i]]
  <2>3. ASSUME NEW i \in m..(n1 + 1)
        PROVE  g[i] = IF i = m THEN HostStart(u, c) ELSE HostNext(g[i - 1], buf, i)
    <3>1. CASE i = n1 + 1
      <4>1. n1 \in m..(n1 + 1) /\ i - 1 = n1 /\ i # m /\ n1 # n1 + 1
        BY <2>2, <3>1
      <4>2. g[n1] = f[n1] /\ g[i] = HostNext(f[n1], buf, n1 + 1)
        BY <3>1, <4>1
      <4> HIDE DEF g
      <4>. QED
        BY <3>1, <4>1, <4>2
    <3>2. CASE i = m
      <4>1. i \in m..n1 /\ i # n1 + 1
        BY <2>2, <3>2
      <4>2. g[i] = f[i]
        BY <4>1
      <4> HIDE DEF g
      <4>. QED
        BY <2>1, <2>2, <3>2, <4>1, <4>2 DEF IsHostWalk
    <3>3. CASE i \in (m + 1)..n1
      <4>1. i \in m..n1 /\ i - 1 \in m..(n1 + 1) /\ i - 1 # n1 + 1 /\ i # m /\ i # n1 + 1
        BY <3>3
      <4>2. g[i] = f[i] /\ g[i - 1] = f[i - 1]
        BY <4>1
      <4>3. f[i] = HostNext(f[i - 1], buf, i)
        BY <2>1, <2>2, <4>1 DEF IsHostWalk
      <4> HIDE DEF g
      <4>. QED
        BY <4>1, <4>2, <4>3
    <3>. QED
      BY <3>1, <3>2, <3>3
  <2>4. IsHostWalk(g, buf, u, c, m, m + (k + 1))
    <3>1. g = [i \in m..(n1 + 1) |-> g[i]]
      OBVIOUS
    <3>2. n1 + 1 = m + (k + 1)
      BY <2>2
    <3> HIDE DEF g
    <3>. QED
      BY <2>3, <3>1, <3>2 DEF IsHostWalk
  <2> HIDE DEF g
  <2>. QED
    BY <2>4
<1> HIDE DEF I
<1>3. \A k \in 0..n : k \in I
  BY <1>1, <1>2, Counting
<1>. QED
  BY <1>3 DEF I

LEMMA HostWalkIs ==
    ASSUME NEW buf, NEW u, NEW c, NEW v, v = HostWalk(buf, u, c), NEW a \in Nat \ {0}, NEW b \in Nat,
           a <= b, Offset(u, "UF_HOST") = a, End(u, "UF_HOST") = b
    PROVE  v[a - 1] = HostStart(u, c) /\ \A i \in a..b : v[i] = HostNext(v[i - 1], buf, i)
<1>1. /\ u.field_data["UF_HOST"].off = a
      /\ u.field_data["UF_HOST"].off + u.field_data["UF_HOST"].len - 1 = b
  BY DEF Offset, End
<1>2. \E f : IsHostWalk(f, buf, u, c, a - 1, b)
  <2>1. PICK m \in Nat, n \in Nat : m = a - 1 /\ m + n = b
    <3>1. a - 1 \in Nat /\ b - (a - 1) \in Nat /\ (a - 1) + (b - (a - 1)) = b
      OBVIOUS
    <3>. QED
      BY <3>1
  <2>2. \E f : IsHostWalk(f, buf, u, c, m, m + n)
    BY HostWalkExists
  <2>. QED
    BY <2>1, <2>2
<1>3. IsHostWalk(v, buf, u, c, a - 1, b)
  <2> DEFINE host == u.field_data["UF_HOST"]
  <2>1. v = CHOOSE f : IsHostWalk(f, buf, u, c, host.off - 1, host.off + host.len - 1)
    BY Zenon DEF HostWalk, HostStart, HostNext, IsHostWalk
  <2>2. \E f : IsHostWalk(f, buf, u, c, host.off - 1, host.off + host.len - 1)
    BY <1>1, <1>2
  <2>3. IsHostWalk(v, buf, u, c, host.off - 1, host.off + host.len - 1)
    BY <2>1, <2>2
  <2>. QED
    BY <1>1, <2>3
<1>. QED
  BY <1>3 DEF IsHostWalk

-----------------------------------------------------------------------------
(* The walks from beginning to end. *)

LEMMA NoFieldsTyped ==
    /\ NoFields \in Urls /\ NoFields.field_set = {}
    /\ \A f \in UrlFields : Offset(NoFields, f) = 1 /\ End(NoFields, f) = 0
<1>1. [f \in UrlFields |-> [off |-> 1, len |-> 0]] \in [UrlFields -> [off : Nat \ {0}, len : Nat]]
  OBVIOUS
<1>2. NoFields \in Urls
  BY <1>1 DEF NoFields, Urls
<1>. QED
  BY <1>2 DEF NoFields, Offset, End

LEMMA WalkStarts ==
    ASSUME NEW buf, NEW c
    PROVE  Walked(buf, WalkStart(c), 0)
<1>1. WalkStart(c).url = NoFields /\ WalkStart(c).uf = "UF_MAX"
      /\ WalkStart(c).s \in {"s_req_server_start", "s_req_spaces_before_url"}
  BY DEF WalkStart
<1>2. FieldOf(WalkStart(c).s) = "UF_MAX"
  BY <1>1 DEF FieldOf
<1>3. Laid(buf, {}, NoFields, 0)
  BY DEF Laid
<1>. QED
  BY <1>1, <1>2, <1>3, NoFieldsTyped DEF Walked, Clean

\* The parser is not dead at the end only if it never was.
LEMMA UrlWalked ==
    ASSUME NEW buf \in Seq(STRING), NEW c, NEW w, w = UrlWalk(buf, c),
           w[Len(buf)].s # "s_dead", OffsetsFit(buf)
    PROVE  Walked(buf, w[Len(buf)], Len(buf))
<1> DEFINE n == Len(buf)
           I == {k \in 0..n : w[k].s = "s_dead" \/ Walked(buf, w[k], k)}
<1>1. n \in Nat /\ n <= UINT16_MAX /\ UINT16_MAX \in Nat
  BY NumbersAssumption DEF OffsetsFit
<1>2. w[0] = WalkStart(c) /\ \A i \in 1..n : w[i] = UrlUnit(w[i - 1], buf, i)
  BY UrlWalkIs
<1>3. 0 \in I
  BY <1>1, <1>2, WalkStarts
<1>4. ASSUME NEW k \in 0..(n - 1), k \in I PROVE k + 1 \in I
  <2>1. k \in Nat /\ k + 1 \in 1..n /\ k + 1 \in 0..n /\ k + 1 - 1 = k /\ k < UINT16_MAX
    BY <1>1
  <2>2. w[k + 1] = UrlUnit(w[k], buf, k + 1)
    BY <1>2, <2>1
  <2>3. CASE w[k].s = "s_dead"
    <3>1. parse_url_char("s_dead", buf[k + 1]) = "s_dead"
      BY DEF parse_url_char
    <3>2. w[k + 1].s = "s_dead"
      BY <2>1, <2>2, <2>3, <3>1, UrlUnitDoes
    <3>. QED
      BY <2>1, <3>2
  <2>4. CASE Walked(buf, w[k], k)
    BY <2>1, <2>2, <2>4, WalkStep
  <2>. QED
    BY <1>4, <2>3, <2>4
<1> HIDE DEF I
<1>5. \A k \in 0..n : k \in I
  BY <1>1, <1>3, <1>4, Counting
<1>6. n \in I
  BY <1>1, <1>5
<1>. QED
  BY <1>6 DEF I

\* The fields before the host, and the units they leave out.
LEMMA LaidBeforeHost ==
    ASSUME NEW buf, NEW u \in Urls, NEW n \in Nat, Laid(buf, u.field_set, u, n),
           "UF_HOST" \in u.field_set, u.field_set \cap {"UF_USERINFO", "UF_PORT"} = {},
           NEW a \in Nat \ {0}, a = Offset(u, "UF_HOST")
    PROVE  /\ Laid(buf, u.field_set \cap {"UF_SCHEMA"}, u, a - 1)
           /\ \A f \in u.field_set \cap {"UF_SCHEMA"} : End(u, f) < a - 1
<1>1. u.field_set \subseteq UrlFields
  BY DEF Urls
<1>2. \A f \in u.field_set : End(u, f) \in Int /\ Offset(u, f) \in Nat /\ Gap(f) \in {0, 1}
  BY <1>1, PlacesAreNumbers
<1> DEFINE F == u.field_set \cap {"UF_SCHEMA"}
<1>3. RankOf("UF_SCHEMA") < RankOf("UF_HOST") /\ Gap("UF_HOST") = 1
  BY DEF RankOf, Gap
<1>4. \A f \in F : End(u, f) < a - 1
  BY <1>2, <1>3 DEF Laid
<1>5. \A f \in F : 1 <= Offset(u, f) /\ Offset(u, f) <= End(u, f) /\ End(u, f) <= a - 1
  BY <1>2, <1>4 DEF Laid
<1>6. a <= End(u, "UF_HOST") /\ End(u, "UF_HOST") <= n
  BY DEF Laid
<1>7. ASSUME NEW f \in u.field_set, f \notin F, f # "UF_HOST"
      PROVE  a < Offset(u, f)
  <2>1. f \in {"UF_PATH", "UF_QUERY", "UF_FRAGMENT"}
    BY <1>1, <1>7 DEF UrlFields
  <2>2. RankOf("UF_HOST") < RankOf(f)
    BY <2>1 DEF RankOf
  <2>. QED
    BY <1>2, <1>6, <2>2 DEF Laid
<1>8. ASSUME NEW j \in 1..(a - 1), buf[j] \notin Delimiters
      PROVE  \E f \in F : Offset(u, f) <= j /\ j <= End(u, f)
  <2>1. j \in 1..n
    BY <1>2, <1>6
  <2>2. PICK f \in u.field_set : Offset(u, f) <= j /\ j <= End(u, f)
    BY <1>8, <2>1 DEF Laid
  <2>3. f \in F
    BY <1>2, <1>7, <2>2
  <2>. QED
    BY <2>2, <2>3
<1>9. \A f, g \in F : RankOf(f) < RankOf(g) => End(u, f) + Gap(g) < Offset(u, g)
  BY DEF Laid
<1>10. \A f \in F : Opened(buf, f, Offset(u, f))
  BY DEF Laid
<1> HIDE DEF F
<1>11. Laid(buf, F, u, a - 1)
  BY <1>5, <1>8, <1>9, <1>10 DEF Laid
<1>. QED
  BY <1>4, <1>11 DEF F

\* Laid depends only on where its fields are.
LEMMA LaidSame ==
    ASSUME NEW buf, NEW u, NEW url, NEW F, NEW i, Laid(buf, F, u, i),
           \A f \in F : Offset(url, f) = Offset(u, f) /\ End(url, f) = End(u, f)
    PROVE  Laid(buf, F, url, i)
BY DEF Laid

LEMMA HostStartDoes ==
    ASSUME NEW u \in Urls, NEW c, NEW url, url = HostStart(u, c).url
    PROVE  /\ url \in Urls /\ url.field_set = u.field_set
           /\ \A f \in UrlFields :
                 Offset(url, f) = Offset(u, f) /\ (f # "UF_HOST" => End(url, f) = End(u, f))
<1>1. /\ u.field_data \in [UrlFields -> [off : Nat \ {0}, len : Nat]] /\ "UF_HOST" \in UrlFields
      /\ u.field_set \in SUBSET UrlFields /\ u.port \in Int
  BY DEF Urls, UrlFields
<1> DEFINE one == [u.field_data["UF_HOST"] EXCEPT !.len = 0]
           fd == [u.field_data EXCEPT !["UF_HOST"] = one]
<1>2. u.field_data["UF_HOST"] \in [off : Nat \ {0}, len : Nat]
  BY <1>1
<1>3. one = [off |-> u.field_data["UF_HOST"].off, len |-> 0]
  BY <1>2
<1>4. fd \in [UrlFields -> [off : Nat \ {0}, len : Nat]]
  BY <1>1, <1>2, <1>3
<1>5. url = [field_set |-> u.field_set, port |-> u.port, field_data |-> fd]
  BY DEF HostStart, Urls
<1>6. ASSUME NEW f \in UrlFields
      PROVE  fd[f].off = u.field_data[f].off
             /\ (f # "UF_HOST" => fd[f].len = u.field_data[f].len)
  BY <1>1, <1>3
<1>7. url.field_data = fd /\ url.field_set = u.field_set
  BY <1>5
<1> HIDE DEF fd
<1>8. url \in Urls
  BY <1>1, <1>4, <1>5 DEF Urls
<1>. QED
  BY <1>6, <1>7, <1>8 DEF Offset, End

LEMMA HostWalkStarts ==
    ASSUME NEW buf, NEW u \in Urls, NEW n \in Nat, NEW c, Laid(buf, u.field_set, u, n),
           "UF_HOST" \in u.field_set, u.field_set \cap {"UF_USERINFO", "UF_PORT"} = {},
           Clean(buf, u.field_set \ {"UF_HOST"}, u),
           NEW a \in Nat \ {0}, a = Offset(u, "UF_HOST")
    PROVE  HostWalked(buf, u, HostStart(u, c), a - 1)
<1>1. PICK v : v = HostStart(u, c)
  OBVIOUS
<1>2. /\ v.url \in Urls /\ v.url.field_set = u.field_set
      /\ \A f \in UrlFields : /\ Offset(v.url, f) = Offset(u, f)
                              /\ f # "UF_HOST" => End(v.url, f) = End(u, f)
  BY <1>1, HostStartDoes
<1>3. v.s \in {"s_http_userinfo_start", "s_http_host_start"}
  BY <1>1 DEF HostStart
<1> DEFINE F == u.field_set \cap {"UF_SCHEMA"}
<1>4. Found(v.url.field_set, v.s) = F
  BY <1>2, <1>3 DEF Found, Hosted
<1>5. \A f \in F : Offset(v.url, f) = Offset(u, f) /\ End(v.url, f) = End(u, f)
  BY <1>2 DEF UrlFields
<1>6. Laid(buf, F, u, a - 1) /\ \A f \in F : End(u, f) < a - 1
  BY LaidBeforeHost
<1>7. Laid(buf, F, v.url, a - 1)
  <2> HIDE DEF F
  <2>. QED
    BY <1>5, <1>6, LaidSame
<1>8. Kept(u, v.url)
  BY <1>2 DEF Kept, Others, UrlFields
<1>9. PartOf(v.s) = "UF_MAX" /\ F \subseteq {"UF_SCHEMA"} /\ v.s # "s_http_host_port_start"
  BY <1>3 DEF PartOf
<1>10. \A f \in F : End(v.url, f) < a - 1
  BY <1>5, <1>6
<1>12. F \in SUBSET (u.field_set \ {"UF_HOST"})
  OBVIOUS
<1> HIDE DEF F
<1>13. Clean(buf, F, v.url)
  BY <1>5, <1>12, CleanSame
<1>11. HostWalked(buf, u, v, a - 1)
  BY <1>2, <1>4, <1>7, <1>8, <1>9, <1>10, <1>13 DEF HostWalked
<1>. QED
  BY <1>1, <1>11

LEMMA HostIsWalked ==
    ASSUME NEW buf, NEW u \in Urls, NEW n \in Nat, NEW c, Laid(buf, u.field_set, u, n),
           "UF_HOST" \in u.field_set, u.field_set \cap {"UF_USERINFO", "UF_PORT"} = {},
           Clean(buf, u.field_set \ {"UF_HOST"}, u), n <= UINT16_MAX,
           NEW a \in Nat \ {0}, a = Offset(u, "UF_HOST"),
           NEW b \in Nat, b = End(u, "UF_HOST"),
           NEW v, v = HostWalk(buf, u, c), v[b].s \in HostEnds
    PROVE  HostWalked(buf, u, v[b], b)
<1>1. a <= b /\ b <= UINT16_MAX
  <2>1. a <= b /\ b <= n
    BY DEF Laid
  <2>. QED
    BY <2>1, NumbersAssumption
<1>2. v[a - 1] = HostStart(u, c) /\ \A i \in a..b : v[i] = HostNext(v[i - 1], buf, i)
  BY <1>1, HostWalkIs
<1> DEFINE m == b - (a - 1)
           Stopped(k) == v[k].s = "s_http_host_dead"
           I == {k \in 0..m : Stopped((a - 1) + k) \/ HostWalked(buf, u, v[(a - 1) + k], (a - 1) + k)}
<1>3. m \in Nat /\ (a - 1) + 0 = a - 1 /\ (a - 1) + m = b /\ a - 1 \in Nat
  BY <1>1
<1>4. 0 \in I
  <2>1. HostWalked(buf, u, v[a - 1], a - 1)
    BY <1>2, HostWalkStarts
  <2>. QED
    BY <1>3, <2>1
<1>5. ASSUME NEW k \in 0..(m - 1), k \in I PROVE k + 1 \in I
  <2>1. PICK j \in Nat : j = (a - 1) + k
    BY <1>3
  <2>2. /\ j + 1 \in a..b /\ j + 1 - 1 = j /\ (a - 1) + (k + 1) = j + 1 /\ k + 1 \in 0..m
        /\ j < UINT16_MAX
    BY <1>1, <1>3, <2>1, NumbersAssumption
  <2>3. v[j + 1] = HostNext(v[j], buf, j + 1)
    BY <1>2, <2>2
  <2>4. PICK to : to = http_parse_host_char(v[j].s, buf[j + 1])
    OBVIOUS
  <2>5. v[j + 1] = [s |-> to, url |-> HostUnit(v[j].url, v[j].s, to, j + 1)]
    BY <2>3, <2>4 DEF HostNext
  <2>6. CASE to = "s_http_host_dead"
    <3>1. Stopped(j + 1)
      BY <2>5, <2>6
    <3>. QED
      BY <2>2, <3>1
  <2>7. CASE to # "s_http_host_dead"
    <3>1. ~Stopped(j)
      BY <2>4, <2>7 DEF http_parse_host_char
    <3>2. HostWalked(buf, u, v[j], j)
      BY <1>5, <2>1, <3>1
    <3>3. HostWalked(buf, u, v[j + 1], j + 1)
      BY <2>2, <2>4, <2>5, <2>7, <3>2, HostStep
    <3>. QED
      BY <2>2, <3>3
  <2>. QED
    BY <2>6, <2>7
<1> HIDE DEF I
<1>6. \A k \in 0..m : k \in I
  BY <1>3, <1>4, <1>5, Counting
<1>7. m \in I
  BY <1>3, <1>6
<1>8. ~Stopped(b)
  BY DEF HostEnds
<1>9. Stopped((a - 1) + m) \/ HostWalked(buf, u, v[(a - 1) + m], (a - 1) + m)
  BY <1>7 DEF I
<1>. QED
  BY <1>3, <1>8, <1>9

\* With its host taken apart, the whole url is laid out as before.
LEMMA LaidTogether ==
    ASSUME NEW buf, NEW u \in Urls, NEW n \in Nat, Laid(buf, u.field_set, u, n),
           "UF_HOST" \in u.field_set, u.field_set \cap {"UF_USERINFO", "UF_PORT"} = {},
           NEW b \in Nat, b = End(u, "UF_HOST"),
           NEW v, HostWalked(buf, u, v, b), v.s \in HostEnds
    PROVE  Laid(buf, v.url.field_set, v.url, n)
<1>1. PICK url : url = v.url
  OBVIOUS
<1>2. PICK F : F = Found(url.field_set, v.s)
  OBVIOUS
<1> DEFINE R == u.field_set \cap {"UF_PATH", "UF_QUERY", "UF_FRAGMENT"}
<1>3. url \in Urls /\ Kept(u, url) /\ Laid(buf, F, url, b)
  BY <1>1, <1>2 DEF HostWalked
<1>4. u.field_set \subseteq UrlFields /\ url.field_set \subseteq UrlFields
  BY <1>3 DEF Urls
<1>5. /\ u.field_set \subseteq url.field_set
      /\ url.field_set \subseteq u.field_set \cup {"UF_USERINFO", "UF_PORT"}
      /\ \A f \in Others : Offset(url, f) = Offset(u, f) /\ End(url, f) = End(u, f)
  BY <1>3 DEF Kept
<1>6. v.s \in Hosted
  BY DEF HostEnds, Hosted
<1>7. F = url.field_set \cap {"UF_SCHEMA", "UF_USERINFO", "UF_PORT", "UF_HOST"}
  BY <1>2, <1>5, <1>6 DEF Found
<1>8. url.field_set = F \cup R
  BY <1>4, <1>5, <1>7 DEF UrlFields
<1>9. \A f \in R : /\ f \in u.field_set /\ Offset(url, f) = Offset(u, f)
                   /\ End(url, f) = End(u, f)
  BY <1>5 DEF Others
<1>10. \A f \in UrlFields : /\ End(u, f) \in Int /\ Offset(u, f) \in Nat /\ Gap(f) \in {0, 1}
                            /\ End(url, f) \in Int /\ Offset(url, f) \in Nat
                            /\ RankOf(f) \in 1..7
  BY <1>3, PlacesAreNumbers
<1>11. \A f \in F, g \in R : RankOf(f) < RankOf(g)
  BY <1>7 DEF RankOf
<1>12. \A g \in R : RankOf("UF_HOST") < RankOf(g)
  BY DEF RankOf
<1>13. \A f \in F : 1 <= Offset(url, f) /\ Offset(url, f) <= End(url, f) /\ End(url, f) <= b
  BY <1>3 DEF Laid
<1>14. \A g \in R : b + Gap(g) < Offset(url, g)
  BY <1>9, <1>12 DEF Laid
<1>15. b <= n
  BY DEF Laid
<1>16. F \subseteq UrlFields /\ R \subseteq UrlFields
  BY <1>4, <1>8
<1>17. \A f \in F \cup R :
          1 <= Offset(url, f) /\ Offset(url, f) <= End(url, f) /\ End(url, f) <= n
  <2>1. ASSUME NEW f \in F
        PROVE  1 <= Offset(url, f) /\ Offset(url, f) <= End(url, f) /\ End(url, f) <= n
    BY <1>10, <1>13, <1>15, <1>16
  <2>2. ASSUME NEW f \in R
        PROVE  1 <= Offset(url, f) /\ Offset(url, f) <= End(url, f) /\ End(url, f) <= n
    BY <1>9 DEF Laid
  <2>. QED
    BY <2>1, <2>2
<1>18. ASSUME NEW j \in 1..n, buf[j] \notin Delimiters
       PROVE  \E f \in F \cup R : Offset(url, f) <= j /\ j <= End(url, f)
  <2>1. CASE j <= b
    <3>1. j \in 1..b
      BY <2>1
    <3>2. \E f \in F : Offset(url, f) <= j /\ j <= End(url, f)
      BY <1>3, <1>18, <3>1 DEF Laid
    <3>. QED
      BY <3>2
  <2>2. CASE b < j
    <3>1. PICK f \in u.field_set : Offset(u, f) <= j /\ j <= End(u, f)
      BY <1>18 DEF Laid
    <3>2. f # "UF_HOST"
      BY <2>2, <3>1
    <3>3. f # "UF_SCHEMA"
      <4>1. RankOf("UF_SCHEMA") < RankOf("UF_HOST")
        BY DEF RankOf
      <4>2. "UF_SCHEMA" \in u.field_set => End(u, "UF_SCHEMA") < Offset(u, "UF_HOST")
        BY <1>4, <1>10, <4>1 DEF Laid
      <4>3. Offset(u, "UF_HOST") <= b
        BY DEF Laid
      <4>. QED
        BY <1>4, <1>10, <2>2, <3>1, <4>2, <4>3
    <3>4. f \in R
      BY <1>4, <3>2, <3>3 DEF UrlFields
    <3>. QED
      BY <1>9, <3>1, <3>4
  <2>. QED
    BY <2>1, <2>2
<1>19. ASSUME NEW f \in F \cup R, NEW g \in F \cup R, RankOf(f) < RankOf(g)
       PROVE  End(url, f) + Gap(g) < Offset(url, g)
  <2>1. CASE f \in F /\ g \in F
    BY <1>3, <1>19, <2>1 DEF Laid
  <2>2. CASE f \in F /\ g \in R
    BY <1>10, <1>13, <1>14, <1>16, <2>2
  <2>3. CASE f \in R /\ g \in F
    BY <1>10, <1>11, <1>16, <1>19, <2>3
  <2>4. CASE f \in R /\ g \in R
    BY <1>9, <1>19, <2>4 DEF Laid
  <2>. QED
    BY <2>1, <2>2, <2>3, <2>4
<1>20. \A f \in F \cup R : Opened(buf, f, Offset(url, f))
  <2>1. \A f \in F : Opened(buf, f, Offset(url, f))
    BY <1>3 DEF Laid
  <2>2. \A f \in R : Opened(buf, f, Offset(url, f))
    BY <1>9 DEF Laid
  <2>. QED
    BY <2>1, <2>2
<1> HIDE DEF R
<1>21. Laid(buf, F \cup R, url, n)
  BY <1>17, <1>18, <1>19, <1>20 DEF Laid
<1>. QED
  BY <1>1, <1>8, <1>21

\* So do all its fields hold what belongs to them.
LEMMA CleanTogether ==
    ASSUME NEW buf, NEW u \in Urls, Clean(buf, u.field_set \ {"UF_HOST"}, u),
           "UF_HOST" \in u.field_set, NEW b, NEW v, HostWalked(buf, u, v, b), v.s \in HostEnds
    PROVE  Clean(buf, v.url.field_set, v.url)
<1>1. PICK url : url = v.url
  OBVIOUS
<1>2. PICK F : F = Found(url.field_set, v.s)
  OBVIOUS
<1>3. url \in Urls /\ Kept(u, url) /\ Clean(buf, F, url)
  BY <1>1, <1>2 DEF HostWalked
<1>4. url.field_set \subseteq UrlFields
  BY <1>3 DEF Urls
<1>5. v.s \in Hosted
  BY DEF HostEnds, Hosted
<1>6. ASSUME NEW f \in url.field_set, f \notin F
      PROVE  /\ f \in u.field_set \ {"UF_HOST"}
             /\ Offset(url, f) = Offset(u, f) /\ End(url, f) = End(u, f)
  <2>1. f \in {"UF_PATH", "UF_QUERY", "UF_FRAGMENT"}
    BY <1>2, <1>4, <1>5, <1>6 DEF Found, UrlFields
  <2>. QED
    BY <1>3, <2>1 DEF Kept, Others
<1>7. ASSUME NEW f \in url.field_set, NEW j \in Nat, Offset(url, f) <= j, j <= End(url, f)
      PROVE  Proper(f, buf[j])
  <2>1. CASE f \in F
    BY <1>3, <1>7, <2>1 DEF Clean
  <2>2. CASE f \notin F
    BY <1>6, <1>7, <2>2 DEF Clean
  <2>. QED
    BY <2>1, <2>2
<1>8. Clean(buf, url.field_set, url)
  BY <1>7 DEF Clean
<1>. QED
  BY <1>1, <1>8

\* Fields that are laid out in all of the url are placed in it.
LEMMA LaidIsPlaced ==
    ASSUME NEW buf \in Seq(STRING), NEW url \in Urls, Laid(buf, url.field_set, url, Len(buf))
    PROVE  Placed(buf, url)
<1> DEFINE fs == url.field_set
           units == UNION {Units(url, f) : f \in fs}
<1>1. Len(buf) \in Nat /\ DOMAIN buf = 1..Len(buf)
  OBVIOUS
<1>2. fs \subseteq UrlFields
  BY DEF Urls
<1>3. \A f \in fs : /\ End(url, f) \in Int /\ Offset(url, f) \in Nat
                    /\ Units(url, f) = Offset(url, f)..End(url, f)
  BY <1>2, PlacesAreNumbers DEF Units, End
<1>4. \A f \in fs : /\ 1 <= Offset(url, f) /\ Offset(url, f) <= End(url, f)
                    /\ End(url, f) <= Len(buf)
  BY DEF Laid
<1>5. ASSUME NEW f \in fs PROVE Units(url, f) \subseteq DOMAIN buf /\ Units(url, f) # {}
  <2>1. PICK a \in Nat, b \in Int : a = Offset(url, f) /\ b = End(url, f)
    BY <1>3
  <2>2. 1 <= a /\ a <= b /\ b <= Len(buf) /\ Units(url, f) = a..b
    BY <1>3, <1>4, <2>1
  <2>3. a \in a..b /\ a..b \subseteq 1..Len(buf)
    BY <1>1, <2>2
  <2>. QED
    BY <1>1, <2>2, <2>3
<1>6. ASSUME NEW i \in DOMAIN buf \ units
      PROVE  buf[i] \in {":", "/", "@", "[", "]", "?", "#"}
  <2>1. i \in 1..Len(buf) /\ \A f \in fs : i \notin Units(url, f)
    BY <1>1
  <2>2. \A f \in fs : ~(Offset(url, f) <= i /\ i <= End(url, f))
    BY <1>3, <2>1
  <2>3. buf[i] \in Delimiters
    BY <2>1, <2>2 DEF Laid
  <2>. QED
    BY <2>3 DEF Delimiters
<1>7. ASSUME NEW i \in DOMAIN FieldOrder, NEW j \in DOMAIN FieldOrder, i < j,
             FieldOrder[i] \in fs, FieldOrder[j] \in fs,
             NEW m \in Units(url, FieldOrder[i]), NEW n \in Units(url, FieldOrder[j])
      PROVE  IF FieldOrder[j] = "UF_PATH" THEN m < n ELSE m + 1 < n
  <2>1. PICK f \in fs : f = FieldOrder[i]
    BY <1>7
  <2>2. PICK g \in fs : g = FieldOrder[j]
    BY <1>7
  <2>3. RankOf(f) < RankOf(g)
    <3>1. i \in 1..7 /\ j \in 1..7
      BY DEF FieldOrder
    <3>2. \A k \in 1..7 : RankOf(FieldOrder[k]) = k
      BY DEF RankOf, FieldOrder
    <3>. QED
      BY <1>7, <2>1, <2>2, <3>1, <3>2
  <2>4. End(url, f) + Gap(g) < Offset(url, g)
    BY <2>3 DEF Laid
  <2>5. m \in Int /\ n \in Int /\ m <= End(url, f) /\ Offset(url, g) <= n
    BY <1>3, <2>1, <2>2
  <2>. QED
    BY <1>3, <2>2, <2>4, <2>5 DEF Gap
<1>8. \A f \in fs : Opened(buf, f, Offset(url, f))
  BY DEF Laid
<1>9. /\ "UF_PATH" \in fs => buf[Offset(url, "UF_PATH")] \in {"/", "*"}
      /\ "UF_PORT" \in fs => buf[Offset(url, "UF_PORT") - 1] = ":"
      /\ "UF_QUERY" \in fs => buf[Offset(url, "UF_QUERY") - 1] = "?"
      /\ "UF_FRAGMENT" \in fs => buf[Offset(url, "UF_FRAGMENT") - 1] = "#"
  BY <1>8 DEF Opened
<1>. QED
  BY <1>5, <1>6, <1>7, <1>9 DEF Placed

\* Whatever is not refused is placed in the url: the walk over the url lays out
\* its fields, and that over the host the parts of the host.
LEMMA UrlIsPlaced ==
    ASSUME NEW buf \in Seq(STRING), OffsetsFit(buf), NEW c,
           NEW r, r = http_parser_parse_url(buf, c), r # Refusal
    PROVE  /\ Placed(buf, r) /\ Clean(buf, r.field_set, r)
           /\ \E url \in Urls : r.field_set = url.field_set /\ r.field_data = url.field_data
           /\ r.port \in 0..MaxPort
           /\ r.port = (IF "UF_PORT" \in r.field_set THEN Port(buf, r.field_data["UF_PORT"])
                        ELSE 0)
<1>1. PICK walked : walked = UrlWalk(buf, c)[Len(buf)]
  OBVIOUS
<1>2. PICK parsed : parsed = http_parse_host(buf, walked.url, walked.found_at)
  OBVIOUS
<1>3. PICK url : url = IF "UF_HOST" \in walked.url.field_set THEN parsed.url ELSE walked.url
  BY SMTT(30)
<1>4. /\ walked.s # "s_dead"
      /\ "UF_HOST" \in walked.url.field_set => parsed.s \in HostEnds
      /\ \E port : /\ r = [url EXCEPT !.port = port] /\ port \in 0..MaxPort
                   /\ port = (IF "UF_PORT" \in url.field_set
                              THEN Port(buf, url.field_data["UF_PORT"]) ELSE 0)
  BY Zenon, <1>1, <1>2, <1>3 DEF http_parser_parse_url
<1>5. PICK n \in Nat : n = Len(buf) /\ n <= UINT16_MAX
  BY DEF OffsetsFit
<1>6. Walked(buf, walked, n)
  BY <1>1, <1>4, <1>5, UrlWalked
<1>7. PICK u : u = walked.url
  OBVIOUS
<1>8. u \in Urls /\ Laid(buf, u.field_set, u, n)
      /\ u.field_set \cap {"UF_USERINFO", "UF_PORT"} = {}
      /\ Clean(buf, u.field_set \ {"UF_HOST"}, u)
  <2>1. walked.url.field_set \subseteq UpTo(walked.s)
    BY <1>6 DEF Walked
  <2>2. UpTo(walked.s) \cap {"UF_USERINFO", "UF_PORT"} = {}
    BY DEF UpTo
  <2>. QED
    BY <1>6, <1>7, <2>1, <2>2 DEF Walked
<1>9. url \in Urls /\ Laid(buf, url.field_set, url, n) /\ Clean(buf, url.field_set, url)
  <2>1. CASE "UF_HOST" \notin u.field_set
    <3>1. url = u /\ u.field_set \ {"UF_HOST"} = u.field_set
      BY <1>3, <1>7, <2>1
    <3>. QED
      BY <1>8, <3>1
  <2>2. CASE "UF_HOST" \in u.field_set
    <3>1. PICK a \in Nat \ {0}, b \in Nat : a = Offset(u, "UF_HOST") /\ b = End(u, "UF_HOST")
      <4>1. "UF_HOST" \in UrlFields
        BY DEF UrlFields
      <4>2. Offset(u, "UF_HOST") \in Nat /\ End(u, "UF_HOST") \in Int
        BY <1>8, <4>1, PlacesAreNumbers
      <4>3. 1 <= Offset(u, "UF_HOST") /\ Offset(u, "UF_HOST") <= End(u, "UF_HOST")
        BY <1>8, <2>2 DEF Laid
      <4>. QED
        BY <4>2, <4>3
    <3>2. PICK v : v = HostWalk(buf, u, walked.found_at)
      OBVIOUS
    <3>3. parsed = v[b]
      BY <1>2, <1>7, <3>1, <3>2 DEF http_parse_host, Offset, End
    <3>4. v[b].s \in HostEnds
      BY <1>4, <1>7, <2>2, <3>3
    <3>5. HostWalked(buf, u, v[b], b)
      BY <1>5, <1>8, <2>2, <3>1, <3>2, <3>4, HostIsWalked
    <3>6. Laid(buf, v[b].url.field_set, v[b].url, n)
      BY <1>8, <2>2, <3>1, <3>4, <3>5, LaidTogether
    <3>7. url = v[b].url
      BY <1>3, <1>7, <2>2, <3>3
    <3>8. url \in Urls
      BY <3>5, <3>7 DEF HostWalked
    <3>9. Clean(buf, v[b].url.field_set, v[b].url)
      BY <1>8, <2>2, <3>4, <3>5, CleanTogether
    <3>. QED
      BY <3>6, <3>7, <3>8, <3>9
  <2>. QED
    BY <2>1, <2>2
<1>10. Placed(buf, url)
  BY <1>5, <1>9, LaidIsPlaced
<1>11. r.field_set = url.field_set /\ r.field_data = url.field_data
  BY <1>4, <1>9 DEF Urls
<1>12. \A f : Offset(r, f) = Offset(url, f) /\ Units(r, f) = Units(url, f)
  BY <1>11 DEF Offset, Units
<1>13. \A f : End(r, f) = End(url, f)
  BY <1>11 DEF End, Offset
<1>14. PICK port : /\ r = [url EXCEPT !.port = port] /\ port \in 0..MaxPort
                   /\ port = (IF "UF_PORT" \in url.field_set
                              THEN Port(buf, url.field_data["UF_PORT"]) ELSE 0)
  BY <1>4
<1>17. r.port = port
  BY <1>9, <1>14 DEF Urls
<1>15. Clean(buf, r.field_set, r)
  BY <1>9, <1>11, <1>12, <1>13 DEF Clean
<1>16. Placed(buf, r)
  BY <1>10, <1>11, <1>12 DEF Placed
<1>. QED
  BY <1>9, <1>11, <1>14, <1>15, <1>16, <1>17

-----------------------------------------------------------------------------
(* The port. *)

\* f is the loop over the first n digits of the port at off.
IsPort(f, buf, off, n) ==
    f = [i \in 0..n |-> IF i = 0 THEN 0
                        ELSE IF f[i - 1] \notin 0..MaxPort THEN f[i - 1]
                        ELSE f[i - 1] * Base + Worth(buf[off + i - 1])]

LEMMA PortExists ==
    ASSUME NEW buf, NEW off, NEW n \in Nat
    PROVE  \E f : IsPort(f, buf, off, n)
<1> DEFINE I == {k \in Nat : \E f : IsPort(f, buf, off, k)}
<1>1. 0 \in I
  <2> DEFINE f == [i \in 0..0 |-> 0]
  <2>1. IsPort(f, buf, off, 0)
    BY DEF IsPort
  <2>. QED
    BY <2>1
<1>2. ASSUME NEW k \in Nat, k \in I PROVE k + 1 \in I
  <2>1. PICK f : IsPort(f, buf, off, k)
    BY <1>2
  <2> DEFINE next == IF f[k] \notin 0..MaxPort THEN f[k]
                     ELSE f[k] * Base + Worth(buf[off + (k + 1) - 1])
             g == [i \in 0..(k + 1) |-> IF i = k + 1 THEN next ELSE f[i]]
  <2>2. ASSUME NEW i \in 0..(k + 1)
        PROVE  g[i] = IF i = 0 THEN 0
                      ELSE IF g[i - 1] \notin 0..MaxPort THEN g[i - 1]
                      ELSE g[i - 1] * Base + Worth(buf[off + i - 1])
    <3>1. CASE i = k + 1
      <4>1. k \in 0..(k + 1) /\ i - 1 = k /\ i # 0 /\ k # k + 1
        BY <3>1
      <4>2. g[k] = f[k] /\ g[i] = next
        BY <3>1, <4>1
      <4> HIDE DEF g
      <4>. QED
        BY <3>1, <4>1, <4>2
    <3>2. CASE i = 0
      <4>1. g[i] = f[i] /\ i \in 0..k
        BY <3>2
      <4> HIDE DEF g
      <4>. QED
        BY <2>1, <3>2, <4>1 DEF IsPort
    <3>3. CASE i \in 1..k
      <4>1. i \in 0..k /\ i - 1 \in 0..(k + 1) /\ i - 1 # k + 1 /\ i # 0 /\ i # k + 1
        BY <3>3
      <4>2. g[i] = f[i] /\ g[i - 1] = f[i - 1]
        BY <4>1
      <4>3. f[i] = IF f[i - 1] \notin 0..MaxPort THEN f[i - 1]
                   ELSE f[i - 1] * Base + Worth(buf[off + i - 1])
        BY <2>1, <4>1 DEF IsPort
      <4> HIDE DEF g
      <4>. QED
        BY <4>1, <4>2, <4>3
    <3>. QED
      BY <3>1, <3>2, <3>3
  <2>3. g = [i \in 0..(k + 1) |-> g[i]]
    OBVIOUS
  <2> HIDE DEF g
  <2>4. IsPort(g, buf, off, k + 1)
    BY <2>2, <2>3 DEF IsPort
  <2>. QED
    BY <2>4
<1> HIDE DEF I
<1>3. \A k \in 0..n : k \in I
  BY <1>1, <1>2, Counting
<1>. QED
  BY <1>3 DEF I

\* f is the number of the first n of the digits.
IsNumber(f, digits, base, n) ==
    f = [i \in 0..n |-> IF i = 0 THEN 0 ELSE f[i - 1] * base + Digit[digits[i]]]

LEMMA NumberExists ==
    ASSUME NEW digits, NEW base, NEW n \in Nat
    PROVE  \E f : IsNumber(f, digits, base, n)
<1> DEFINE I == {k \in Nat : \E f : IsNumber(f, digits, base, k)}
<1>1. 0 \in I
  <2> DEFINE f == [i \in 0..0 |-> 0]
  <2>1. IsNumber(f, digits, base, 0)
    BY DEF IsNumber
  <2>. QED
    BY <2>1
<1>2. ASSUME NEW k \in Nat, k \in I PROVE k + 1 \in I
  <2>1. PICK f : IsNumber(f, digits, base, k)
    BY <1>2
  <2> DEFINE next == f[k] * base + Digit[digits[k + 1]]
             g == [i \in 0..(k + 1) |-> IF i = k + 1 THEN next ELSE f[i]]
  <2>2. ASSUME NEW i \in 0..(k + 1)
        PROVE  g[i] = IF i = 0 THEN 0 ELSE g[i - 1] * base + Digit[digits[i]]
    <3>1. CASE i = k + 1
      <4>1. k \in 0..(k + 1) /\ i - 1 = k /\ i # 0 /\ k # k + 1
        BY <3>1
      <4>2. g[k] = f[k] /\ g[i] = next
        BY <3>1, <4>1
      <4> HIDE DEF g
      <4>. QED
        BY <3>1, <4>1, <4>2
    <3>2. CASE i = 0
      <4>1. g[i] = f[i] /\ i \in 0..k
        BY <3>2
      <4> HIDE DEF g
      <4>. QED
        BY <2>1, <3>2, <4>1 DEF IsNumber
    <3>3. CASE i \in 1..k
      <4>1. i \in 0..k /\ i - 1 \in 0..(k + 1) /\ i - 1 # k + 1 /\ i # 0 /\ i # k + 1
        BY <3>3
      <4>2. g[i] = f[i] /\ g[i - 1] = f[i - 1]
        BY <4>1
      <4>3. f[i] = f[i - 1] * base + Digit[digits[i]]
        BY <2>1, <4>1 DEF IsNumber
      <4> HIDE DEF g
      <4>. QED
        BY <4>1, <4>2, <4>3
    <3>. QED
      BY <3>1, <3>2, <3>3
  <2>3. g = [i \in 0..(k + 1) |-> g[i]]
    OBVIOUS
  <2> HIDE DEF g
  <2>4. IsNumber(g, digits, base, k + 1)
    BY <2>2, <2>3 DEF IsNumber
  <2>. QED
    BY <2>4
<1> HIDE DEF I
<1>3. \A k \in 0..n : k \in I
  BY <1>1, <1>2, Counting
<1>. QED
  BY <1>3 DEF I

\* The field says where these digits of the url are.
DigitsAt(buf, field, off, len, digits) ==
    /\ field.off = off /\ field.len = len /\ off + len - 1 <= Len(buf)
    /\ \A j \in off..(off + len - 1) : IsNum(buf[j])
    /\ digits = SubSeq(buf, off, off + len - 1)

\* What the loop does not refuse is the number of the digits.
LEMMA PortIsNumber ==
    ASSUME NEW buf \in Seq(STRING), NEW off \in Nat \ {0}, NEW len \in Nat,
           NEW field, NEW digits, DigitsAt(buf, field, off, len, digits)
    PROVE  Port(buf, field) \in Nat /\ (Port(buf, field) <= MaxPort => Port(buf, field) = Number(digits, Base))
<1>0. /\ field.off = off /\ field.len = len /\ off + len - 1 <= Len(buf)
      /\ \A j \in off..(off + len - 1) : IsNum(buf[j])
      /\ digits = SubSeq(buf, off, off + len - 1)
  BY DEF DigitsAt
<1>1. /\ Len(digits) = len /\ \A i \in 1..len : digits[i] = buf[off + i - 1]
  BY <1>0
<1>2. PICK v : v = CHOOSE f : IsPort(f, buf, off, len)
  OBVIOUS
<1>3. Port(buf, field) = v[len]
  BY Zenon, <1>0, <1>2 DEF Port, IsPort
<1>4. IsPort(v, buf, off, len)
  BY <1>2, PortExists
<1>5. PICK n : n = CHOOSE f : IsNumber(f, digits, Base, len)
  OBVIOUS
<1>6. Number(digits, Base) = n[len]
  BY Zenon, <1>1, <1>5 DEF Number, IsNumber
<1>7. IsNumber(n, digits, Base, len)
  BY <1>5, NumberExists
<1>8. v[0] = 0 /\ n[0] = 0
  BY <1>4, <1>7 DEF IsPort, IsNumber
<1>9. ASSUME NEW i \in 1..len
      PROVE  /\ v[i] = IF v[i - 1] \notin 0..MaxPort THEN v[i - 1]
                       ELSE v[i - 1] * Base + Digit[digits[i]]
             /\ n[i] = n[i - 1] * Base + Digit[digits[i]]
             /\ Digit[digits[i]] \in Nat
  <2>1. i \in 0..len /\ i # 0 /\ digits[i] = buf[off + i - 1] /\ off + i - 1 \in off..(off + len - 1)
    BY <1>1
  <2>2. Digit[digits[i]] \in Nat
    BY <1>0, <2>1 DEF IsNum, Digit
  <2>3. v[i] = IF v[i - 1] \notin 0..MaxPort THEN v[i - 1]
               ELSE v[i - 1] * Base + Worth(buf[off + i - 1])
    BY <1>4, <2>1 DEF IsPort
  <2>4. n[i] = n[i - 1] * Base + Digit[digits[i]]
    BY <1>7, <2>1 DEF IsNumber
  <2>5. Worth(buf[off + i - 1]) = Digit[digits[i]]
    <3>1. buf[off + i - 1] = digits[i] /\ IsNum(digits[i])
      BY <1>0, <2>1
    <3>. QED
      BY <3>1 DEF Worth
  <2>. QED
    BY <2>2, <2>3, <2>4, <2>5
<1> DEFINE I == {k \in 0..len : v[k] \in Nat /\ (v[k] > MaxPort \/ v[k] = n[k])}
<1>10. 0 \in I
  BY <1>8
<1>11. ASSUME NEW k \in 0..(len - 1), k \in I PROVE k + 1 \in I
  <2>1. k + 1 \in 1..len /\ k + 1 \in 0..len /\ k + 1 - 1 = k
    OBVIOUS
  <2>2. PICK d \in Nat : d = Digit[digits[k + 1]]
    BY <1>9, <2>1
  <2>3. /\ v[k + 1] = IF v[k] \notin 0..MaxPort THEN v[k] ELSE v[k] * Base + d
        /\ n[k + 1] = n[k] * Base + d
    BY <1>9, <2>1, <2>2
  <2>4. v[k] * Base + d \in Nat
    <3>1. PICK a \in Nat, b \in Nat : a = v[k] /\ b = Base
      BY <1>11, Numbers
    <3>2. PICK ab \in Nat : ab = a * b
      OBVIOUS
    <3>. QED
      BY SMTT(30), <3>1, <3>2
  <2>5. v[k] \in Nat /\ MaxPort \in Nat /\ (v[k] \in 0..MaxPort <=> ~(v[k] > MaxPort))
    BY <1>11, NumbersAssumption
  <2>. QED
    BY <1>11, <2>1, <2>3, <2>4, <2>5
<1> HIDE DEF I
<1>12. \A k \in 0..len : k \in I
  BY <1>10, <1>11, Counting
<1>13. len \in I
  BY <1>12
<1>14. v[len] \in Nat /\ (v[len] > MaxPort \/ v[len] = n[len])
  BY <1>13 DEF I
<1>15. MaxPort \in Nat
  BY NumbersAssumption
<1>. QED
  BY <1>3, <1>6, <1>14, <1>15

\* Whatever is not refused holds what it may, and tells the port that is there.
LEMMA UrlIsRead ==
    ASSUME NEW buf \in Seq(STRING), OffsetsFit(buf), NEW c,
           NEW r, r = http_parser_parse_url(buf, c), r # Refusal
    PROVE  /\ \A f \in r.field_set : \A i \in Units(r, f) : Proper(f, buf[i])
           /\ r.port <= MaxPort
           /\ "UF_PORT" \notin r.field_set => r.port = 0
           /\ "UF_PORT" \in r.field_set =>
                r.port = Number(SubSeq(buf, Offset(r, "UF_PORT"), End(r, "UF_PORT")), Base)
<1>1. /\ Placed(buf, r) /\ Clean(buf, r.field_set, r) /\ r.port \in 0..MaxPort
      /\ r.port = (IF "UF_PORT" \in r.field_set THEN Port(buf, r.field_data["UF_PORT"]) ELSE 0)
  BY UrlIsPlaced
<1>2. PICK url \in Urls : r.field_set = url.field_set /\ r.field_data = url.field_data
  BY UrlIsPlaced
<1>0. /\ \A f \in r.field_set : Units(r, f) # {}
      /\ UNION {Units(r, f) : f \in r.field_set} \subseteq 1..Len(buf)
  <2>1. Placed(buf, r)
    BY <1>1
  <2>2. DOMAIN buf = 1..Len(buf)
    OBVIOUS
  <2>. QED
    BY Zenon, <2>1, <2>2 DEF Placed
<1>3. ASSUME NEW f \in r.field_set
      PROVE  /\ Offset(r, f) \in Nat /\ End(r, f) \in Int /\ r.field_data[f].len \in Nat
             /\ Units(r, f) = Offset(r, f)..End(r, f)
             /\ 1 <= Offset(r, f) /\ End(r, f) <= Len(buf)
  <2>1. f \in UrlFields
    BY <1>2, <1>3 DEF Urls
  <2>2. Offset(r, f) = Offset(url, f) /\ End(r, f) = End(url, f)
    BY <1>2 DEF Offset, End
  <2>3. Offset(url, f) \in Nat /\ End(url, f) \in Int /\ url.field_data[f].len \in Nat
    BY <2>1, PlacesAreNumbers
  <2>4. Units(r, f) = Offset(r, f)..End(r, f)
    BY DEF Units, End
  <2>5. Units(r, f) \subseteq 1..Len(buf) /\ Units(r, f) # {}
    BY Zenon, <1>0, <1>3
  <2>6. PICK a \in Nat, b \in Int : a = Offset(r, f) /\ b = End(r, f)
    BY <2>2, <2>3
  <2>7. a..b \subseteq 1..Len(buf) /\ a..b # {}
    BY <2>4, <2>5, <2>6
  <2>8. a \in a..b /\ b \in a..b
    BY <2>7
  <2>. QED
    BY <1>2, <2>2, <2>3, <2>4, <2>6, <2>7, <2>8
<1>4. ASSUME NEW f \in r.field_set, NEW i \in Units(r, f) PROVE Proper(f, buf[i])
  <2>1. i \in Nat /\ Offset(r, f) <= i /\ i <= End(r, f)
    BY <1>3, <1>4
  <2>. QED
    BY <1>1, <2>1 DEF Clean
<1>5. ASSUME "UF_PORT" \in r.field_set
      PROVE  /\ r.port \in Nat
             /\ r.port = Number(SubSeq(buf, Offset(r, "UF_PORT"), End(r, "UF_PORT")), Base)
  <2> DEFINE field == r.field_data["UF_PORT"]
  <2>1. PICK off \in Nat \ {0}, len \in Nat :
            /\ off = field.off /\ len = field.len /\ off = Offset(r, "UF_PORT")
            /\ off + len - 1 = End(r, "UF_PORT") /\ off + len - 1 <= Len(buf)
            /\ Units(r, "UF_PORT") = off..(off + len - 1)
    BY <1>3, <1>5 DEF Offset, End
  <2>2. \A j \in off..(off + len - 1) : IsNum(buf[j])
    BY <1>4, <1>5, <2>1 DEF Proper
  <2>3. r.port = Port(buf, field)
    BY <1>1, <1>5
  <2>4. PICK fd : fd = field
    OBVIOUS
  <2>5. PICK digits : digits = SubSeq(buf, off, off + len - 1)
    OBVIOUS
  <2>8. DigitsAt(buf, fd, off, len, digits)
    BY <2>1, <2>2, <2>4, <2>5 DEF DigitsAt
  <2>6. /\ Port(buf, fd) \in Nat
        /\ Port(buf, fd) <= MaxPort => Port(buf, fd) = Number(digits, Base)
    BY <2>8, PortIsNumber
  <2>7. MaxPort \in Nat
    BY NumbersAssumption
  <2>. QED
    BY <1>1, <2>1, <2>3, <2>4, <2>5, <2>6, <2>7
<1>6. "UF_PORT" \notin r.field_set => r.port = 0
  BY <1>1
<1>7. MaxPort \in Nat
  BY NumbersAssumption
<1>8. r.port <= MaxPort
  BY <1>1, <1>5, <1>6, <1>7
<1>. QED
  BY <1>4, <1>5, <1>6, <1>8

-----------------------------------------------------------------------------

\* Whatever url http_parser_execute tells, in however many pieces, and whatever
\* http_parser_parse_url makes of it: if the url is not too long for 16-bit
\* offsets, and is not refused, every field lies in it, none is empty, they come
\* in order, and what they leave out are the delimiters that belong between
\* them.  So the assertion that the port does not run over the end of the buffer
\* holds.
THEOREM FieldsOfUrl == Spec => []FieldsPlaced
<1>1. ParserInv => FieldsPlaced
  <2>1. SUFFICES ASSUME ParserInv, UrlTold, ParsedUrl # Refusal, OffsetsFit(heard[2].data)
                 PROVE  Placed(heard[2].data, ParsedUrl)
    BY DEF FieldsPlaced
  <2>2. heard \in Seq(Events)
    BY <2>1 DEF ParserInv
  <2>3. heard[2] \in Events
    BY <2>1, <2>2 DEF UrlTold
  <2>4. heard[2].data \in Seq(STRING)
    BY <2>3 DEF Events
  <2>. QED
    BY <2>1, <2>4, UrlIsPlaced DEF ParsedUrl
<1>. QED
  BY <1>1, AlwaysParserInv, PTL

\* Of whatever url that is not too long for 16-bit offsets, and is not refused,
\* no field holds a delimiter that ends it or a byte no url has, all of the port
\* are digits, as the loop over it assumes, and the port told is the number they
\* stand for, however many they are, which 16 bits hold.
THEOREM FieldsAreRead == Spec => []FieldsRead
<1>1. ParserInv => FieldsRead
  <2>1. SUFFICES ASSUME ParserInv, Ended, UrlTold, ParsedUrl # Refusal, OffsetsFit(heard[2].data)
                 PROVE  FieldsRead
    BY DEF FieldsRead
  <2>2. heard \in Seq(Events)
    BY <2>1 DEF ParserInv
  <2>3. heard[2] \in Events
    BY <2>1, <2>2 DEF UrlTold
  <2>4. heard[2].data \in Seq(STRING)
    BY <2>3 DEF Events
  <2>5. PICK buf \in Seq(STRING) : buf = heard[2].data
    BY <2>4
  <2>6. PICK r : r = ParsedUrl
    OBVIOUS
  <2>7. r = http_parser_parse_url(buf, IsConnect) /\ OffsetsFit(buf) /\ r # Refusal
    BY <2>1, <2>5, <2>6 DEF ParsedUrl
  <2>8. /\ \A f \in r.field_set : \A i \in Units(r, f) : Proper(f, buf[i])
        /\ r.port <= MaxPort
        /\ "UF_PORT" \notin r.field_set => r.port = 0
        /\ "UF_PORT" \in r.field_set =>
             r.port = Number(SubSeq(buf, Offset(r, "UF_PORT"), End(r, "UF_PORT")), Base)
    <3>1. PICK c : c = IsConnect
      OBVIOUS
    <3>. QED
      BY <2>7, <3>1, UrlIsRead
  <2>9. /\ Offset(r, "UF_PORT") = r.field_data["UF_PORT"].off
        /\ End(r, "UF_PORT")
              = r.field_data["UF_PORT"].off + r.field_data["UF_PORT"].len - 1
    BY DEF Offset, End
  <2>10. \A f \in r.field_set : \A i \in Units(r, f) : buf[i] \notin Foreign[f] \cup NoUrlUnits
    BY <2>8 DEF Proper
  <2>11. "UF_PORT" \in r.field_set => \A i \in Units(r, "UF_PORT") : IsNum(buf[i])
    BY <2>8 DEF Proper
  <2>12. ReadRight(buf, r)
    BY <2>8, <2>9, <2>10, <2>11 DEF ReadRight
  <2>. QED
    BY <2>5, <2>6, <2>12 DEF FieldsRead
<1>. QED
  BY <1>1, AlwaysParserInv, PTL

\* For any url that is not too long for 16-bit offsets, and is not refused, the
\* fields are in their places, between their delimiters, and the port is the
\* number its digits stand for.
THEOREM UrlsAreRead == Spec => []UrlRead
<1>1. FieldsPlaced /\ FieldsRead => UrlRead
  BY DEF UrlRead, Understood, FieldsPlaced, FieldsRead
<1>. QED
  BY <1>1, FieldsOfUrl, FieldsAreRead, PTL
-----------------------------------------------------------------------------
(* The callbacks of a call. *)

\* What the callbacks made so far are worth: of a call each name is told once,
\* and its value next.
CallsInv ==
    /\ ParserInv
    /\ calls \in Seq(Events)
    /\ calls # <<>> => calls[Len(calls)].cb = LastTold
    /\ p # 0 /\ parser.state = "s_header_field" /\ calls # <<>> => LastTold # "header_field"
    /\ \A i \in 1..(Len(calls) - 1) :
            calls[i].cb = "header_field" => calls[i + 1].cb = "header_value"

\* A pass calls back once at most, a name only at its end.
Spoken(cs) ==
    \/ cs = <<>>
    \/ \E c \in Events : cs = <<c>> /\ (c.cb = "header_field" => parser.state = "s_header_field")

\* What a pass does to the calls, and to the mark of a name.
Speaks ==
    \E cs : /\ Spoken(cs) /\ Call(cs)
            /\ p' # 0 /\ marks'["header_field"] # 0 =>
                    cs = <<>> /\ parser.state \in {"s_header_field_start", "s_header_field"}

LEMMA NameMarked ==
    ASSUME ParserInv, Reading, marks["header_field"] # 0
    PROVE  parser.state = "s_header_field"
<1>1. MarkedIn(parser.state, marks)
  BY Looking
<1>. QED
  BY <1>1 DEF MarkedIn, Marked, MayMark

LEMMA QuietPass ==
    ASSUME ParserInv, Reading, NEW par, NEW to, NEW again, NEW mk,
           Pass(par, to, again, <<>>, mk),
           mk["header_field"] # 0 =>
               marks["header_field"] # 0 \/ parser.state = "s_header_field_start"
    PROVE  Speaks
<1>1. Call(<<>>) /\ (p' = 0 \/ marks' = mk)
  BY DEF Pass, Paused
<1>2. Spoken(<<>>)
  BY DEF Spoken
<1>. QED
  BY <1>1, <1>2, NameMarked DEF Speaks

LEMMA OtherMark ==
    ASSUME ParserInv, Reading, NEW m \in Marked \ {"header_field"}
    PROVE  MARK(m)["header_field"] = marks["header_field"]
BY Looking DEF MARK, Marked

LEMMA MarkingPass ==
    ASSUME ParserInv, Reading, NEW m \in Marked \ {"header_field"}, NEW par, NEW to, NEW again,
           Pass(par, to, again, <<>>, MARK(m))
    PROVE  Speaks
<1>1. MARK(m)["header_field"] = marks["header_field"]
  BY OtherMark
<1>. QED
  BY <1>1, QuietPass

LEMMA BreakSpeaks == ASSUME ParserInv, Reading, NEW par, Break(par) PROVE Speaks
BY QuietPass DEF Break

LEMMA GotoSpeaks == ASSUME ParserInv, Reading, NEW s, Goto(s) PROVE Speaks
BY BreakSpeaks DEF Goto

LEMMA ReexecuteSpeaks == ASSUME ParserInv, Reading, NEW par, Reexecute(par) PROVE Speaks
BY QuietPass DEF Reexecute

LEMMA ReturnSpeaks ==
    ASSUME NEW par, NEW all, NEW cs, Return(par, all, cs), Spoken(cs)
    PROVE  Speaks
BY DEF Return, Speaks

LEMMA ErrorSpeaks == ASSUME NEW e, Error(e) PROVE Speaks
<1>1. Spoken(<<>>)
  BY DEF Spoken
<1>. QED
  BY <1>1, ReturnSpeaks DEF Error

LEMMA QuietReturn == ASSUME NEW par, NEW all, Return(par, all, <<>>) PROVE Speaks
<1>1. Spoken(<<>>)
  BY DEF Spoken
<1>. QED
  BY <1>1, ReturnSpeaks

LEMMA DataSpoken ==
    ASSUME ParserInv, Reading, NEW m \in Marked, NEW to \in 0..(fed + 1)
    PROVE  /\ Spoken(Data(m, to))
           /\ m # "header_field" /\ marks["header_field"] # 0 => Data(m, to) = <<>>
<1>1. to \in Nat /\ to <= Len(stream.wire) + 1 /\ MarkedIn(parser.state, marks)
  BY Looking
<1>2. CASE marks[m] = 0
  BY <1>1, <1>2, DataTold DEF Spoken
<1>3. CASE marks[m] # 0
  <2>1. PICK c \in Events : Data(m, to) = <<c>> /\ c.cb = m
    BY <1>1, <1>3, DataTold
  <2>2. parser.state \in MayMark[m]
    BY <1>1, <1>3 DEF MarkedIn
  <2>3. m = "header_field" => parser.state = "s_header_field"
    BY <2>2 DEF MayMark
  <2>4. m # "header_field" => marks["header_field"] = 0
    <3>1. "header_field" \in Marked
      BY DEF Marked
    <3>. QED
      BY <1>1, <2>2, <3>1, OneElement DEF MarkedIn
  <2>. QED
    BY <2>1, <2>3, <2>4 DEF Spoken
<1>. QED
  BY <1>2, <1>3

LEMMA DataPass ==
    ASSUME ParserInv, Reading, NEW m \in Marked, NEW at \in 0..(fed + 1), NEW par, NEW to, NEW again,
           Pass(par, to, again, Data(m, at), Unmark(m))
    PROVE  Speaks
<1> DEFINE cs == Data(m, at)
<1>1. /\ Spoken(cs)
      /\ m # "header_field" /\ marks["header_field"] # 0 => cs = <<>>
  BY DataSpoken
<1>2. Unmark(m)["header_field"] = IF m = "header_field" THEN 0 ELSE marks["header_field"]
  BY Looking DEF Unmark, Marked
<1>3. Call(cs) /\ (p' = 0 \/ marks' = Unmark(m))
  BY DEF Pass, Paused
<1> HIDE DEF cs
<1>. QED
  BY <1>1, <1>2, <1>3, NameMarked DEF Speaks

LEMMA NotifySpoken ==
    ASSUME NEW cb \in DOMAIN Follows, cb # "header_field"
    PROVE  Spoken(Notify(cb))
<1> DEFINE c == [cb |-> cb, data |-> <<>>]
<1>1. c \in Events /\ c.cb = cb /\ Notify(cb) = <<c>>
  BY NotifyType DEF Notify
<1> HIDE DEF c
<1>. QED
  BY <1>1 DEF Spoken

LEMMA NotifyPass ==
    ASSUME ParserInv, Reading, parser.state # "s_header_field",
           NEW cb \in DOMAIN Follows, cb # "header_field", NEW par, NEW to, NEW again,
           Pass(par, to, again, Notify(cb), marks)
    PROVE  Speaks
<1>1. Spoken(Notify(cb))
  BY NotifySpoken
<1>2. Call(Notify(cb)) /\ (p' = 0 \/ marks' = marks)
  BY DEF Pass, Paused
<1>. QED
  BY <1>1, <1>2, NameMarked DEF Speaks

LEMMA StatusLineSpeaks == ASSUME ParserInv, StatusLine PROVE Speaks
<1>0. Reading /\ p \in 0..(fed + 1) /\ "status" \in Marked \ {"header_field"}
  <2>1. Reading
    BY DEF StatusLine, StartRes, ResH, ResHttpEnd, FirstStatusCode, StatusCode, StatusStart, Status,
       ResLineAlmostDone, At
  <2>. QED
    BY <2>1, Looking DEF Marked
<1>1. CASE StartRes
  <2>1. parser.state # "s_header_field" /\ "message_begin" \in DOMAIN Follows
    BY <1>1 DEF StartRes, At, Follows
  <2>. QED
    BY <1>0, <1>1, <2>1, BreakSpeaks, NotifyPass, QuietReturn DEF StartRes, MessageBegin
<1>8. CASE ResH
  BY <1>8, ErrorSpeaks DEF ResH
<1>2. CASE ResHttpEnd
  BY <1>0, <1>2, GotoSpeaks, ErrorSpeaks DEF ResHttpEnd
<1>3. CASE FirstStatusCode
  BY <1>0, <1>3, BreakSpeaks, ErrorSpeaks DEF FirstStatusCode
<1>4. CASE StatusCode
  BY <1>0, <1>4, BreakSpeaks, GotoSpeaks, ReexecuteSpeaks, ErrorSpeaks DEF StatusCode
<1>5. CASE StatusStart
  BY <1>0, <1>5, MarkingPass DEF StatusStart
<1>6. CASE Status
  BY <1>0, <1>6, BreakSpeaks, DataPass DEF Status
<1>7. CASE ResLineAlmostDone
  BY <1>0, <1>7, GotoSpeaks, ErrorSpeaks DEF ResLineAlmostDone
<1>. QED
  BY <1>1, <1>2, <1>3, <1>4, <1>5, <1>6, <1>7, <1>8 DEF StatusLine

LEMMA RequestLineSpeaks == ASSUME ParserInv, RequestLine PROVE Speaks
<1>0. Reading /\ p \in 0..(fed + 1) /\ "url" \in Marked \ {"header_field"}
  <2>1. Reading
    BY DEF RequestLine, Dead, StartReqOrRes, StartReq, ReqMethod, UrlStart, UrlChar, UrlEnd,
       HttpVersion, HttpEnd, ReqLineAlmostDone, At
  <2>. QED
    BY <2>1, Looking DEF Marked
<1>1. "message_begin" \in DOMAIN Follows
  BY DEF Follows
<1>2. CASE Dead
  BY <1>0, <1>2, BreakSpeaks, ErrorSpeaks DEF Dead
<1>3. CASE StartReqOrRes
  <2>1. parser.state # "s_header_field"
    BY <1>3 DEF StartReqOrRes, At
  <2>. QED
    BY <1>0, <1>1, <1>3, <2>1, BreakSpeaks, ReexecuteSpeaks, NotifyPass
       DEF StartReqOrRes, MessageBegin
<1>4. CASE StartReq
  <2>1. parser.state # "s_header_field"
    BY <1>4 DEF StartReq, At
  <2>. QED
    BY <1>0, <1>1, <1>4, <2>1, BreakSpeaks, QuietReturn, NotifyPass DEF StartReq, MessageBegin
<1>5. CASE ReqMethod
  BY <1>0, <1>5, GotoSpeaks, ErrorSpeaks DEF ReqMethod
<1>6. CASE UrlStart
  BY <1>0, <1>6, BreakSpeaks, ErrorSpeaks, MarkingPass DEF UrlStart
<1>7. CASE UrlChar
  BY <1>0, <1>7, GotoSpeaks, ErrorSpeaks DEF UrlChar
<1>8. CASE UrlEnd
  BY <1>0, <1>8, DataPass DEF UrlEnd
<1>9. CASE HttpVersion
  BY <1>0, <1>9, BreakSpeaks, ErrorSpeaks DEF HttpVersion
<1>10. CASE HttpEnd
  BY <1>0, <1>10, GotoSpeaks, ErrorSpeaks DEF HttpEnd
<1>11. CASE ReqLineAlmostDone
  BY <1>0, <1>11, GotoSpeaks, ErrorSpeaks DEF ReqLineAlmostDone
<1>. QED
  BY <1>2, <1>3, <1>4, <1>5, <1>6, <1>7, <1>8, <1>9, <1>10, <1>11 DEF RequestLine

LEMMA HeaderFieldSpeaks == ASSUME ParserInv, HeaderField PROVE Speaks
<1>0. Reading /\ "header_field" \in Marked
  BY DEF HeaderField, At, Marked
<1> DEFINE stop == SelectInSubSeq(stream.wire, p, fed, LAMBDA u : ~IsToken(u))
           last == IF stop = 0 THEN fed ELSE stop
           name == IF stop = p THEN parser.header_state ELSE "h_general"
           par == [Now EXCEPT !.nread = CountMore(last - p), !.header_state = name]
<1>1. stop = 0 \/ stop \in p..fed
  BY <1>0, NameEnd
<1>2. \/ Return([par EXCEPT !.errno = "HEADER_OVERFLOW"], FALSE, <<>>)
      \/ Return([par EXCEPT !.errno = "INVALID_HEADER_TOKEN"], FALSE, <<>>)
      \/ Pass(par, fed + 1, FALSE, <<>>, marks)
      \/ Pass([par EXCEPT !.state = "s_header_value_discard_ws"], stop + 1, FALSE,
              Data("header_field", stop), Unmark("header_field"))
  BY Zenon DEF HeaderField
<1> HIDE DEF stop, par
<1>3. stop \in 0..(fed + 1)
  BY <1>0, <1>1, Looking
<1>. QED
  BY <1>0, <1>2, <1>3, QuietReturn, QuietPass, DataPass

LEMMA HeaderValueSpeaks == ASSUME ParserInv, HeaderValue PROVE Speaks
<1>0. Reading /\ "header_value" \in Marked
  BY Zenon DEF HeaderValue, At, Marked
<1> DEFINE stop == SelectInSubSeq(stream.wire, p, fed, LAMBDA u : u \in {"CR", "LF"})
           last == IF stop = 0 THEN fed ELSE stop
           end == IF stop = 0 THEN fed + 1 ELSE stop
           value[i \in p..end] ==
               IF i = p THEN Now ELSE ValueUnit(value[i - 1], stream.wire[i - 1])
           v == value[end]
           par == [v EXCEPT !.nread = CountMore(last - p)]
           line == [par EXCEPT !.state = "s_header_almost_done"]
           tooLong == [par EXCEPT !.errno = "HEADER_OVERFLOW"]
           data == Data("header_value", stop)
           atCR == stop # 0 /\ stream.wire[stop] = "CR"
<1>1. stop = 0 \/ stop \in p..fed
  BY <1>0, LineEnd
<1>2. \/ Return(v, FALSE, <<>>)
      \/ Return(tooLong, FALSE, <<>>)
      \/ Return(tooLong, FALSE, data)
      \/ Pass(par, fed + 1, FALSE, <<>>, marks)
      \/ Pass(line, stop + 1, FALSE, data, Unmark("header_value"))
      \/ Pass(line, stop, TRUE, data, Unmark("header_value"))
  BY Zenon DEF HeaderValue
<1> HIDE DEF stop, v, par, line, tooLong
<1>3. stop \in 0..(fed + 1)
  BY <1>0, <1>1, Looking
<1>4. Spoken(data)
  BY <1>0, <1>3, DataSpoken
<1>. QED
  BY <1>0, <1>2, <1>3, <1>4, QuietReturn, ReturnSpeaks, QuietPass, DataPass

LEMMA ValueStartSpeaks == ASSUME ParserInv, Reading, HeaderValueStart PROVE Speaks
<1>1. "header_value" \in Marked \ {"header_field"}
  BY DEF Marked
<1>. QED
  BY <1>1, QuietReturn, MarkingPass DEF HeaderValueStart

LEMMA HeadersSpeak == ASSUME ParserInv, Headers PROVE Speaks
<1>0. CASE HeaderField \/ HeaderValue
  BY <1>0, HeaderFieldSpeaks, HeaderValueSpeaks
<1>1. CASE HeaderFieldStart
  <2>1. Reading /\ parser.state = "s_header_field_start"
    BY <1>1 DEF HeaderFieldStart, At
  <2>. QED
    BY <1>1, <2>1, GotoSpeaks, ReexecuteSpeaks, ErrorSpeaks, QuietPass DEF HeaderFieldStart
<1>2. CASE DiscardWs
  <2>1. Reading
    BY <1>2 DEF DiscardWs, At
  <2>. QED
    BY <1>2, <2>1, BreakSpeaks, GotoSpeaks, ValueStartSpeaks DEF DiscardWs
<1>3. CASE FoldedStart
  BY <1>3, ValueStartSpeaks DEF FoldedStart, At
<1>4. CASE HeaderAlmostDone
  BY <1>4, GotoSpeaks, ErrorSpeaks DEF HeaderAlmostDone, At
<1>5. CASE DiscardWsAlmostDone
  BY <1>5, GotoSpeaks, ErrorSpeaks DEF DiscardWsAlmostDone, At
<1>6. CASE ValueLws
  BY <1>6, ReexecuteSpeaks DEF ValueLws, At
<1>7. CASE DiscardLws
  <2>1. /\ Reading /\ parser.state # "s_header_field"
        /\ "header_value" \in DOMAIN Follows
    BY <1>7 DEF DiscardLws, At, Follows
  <2>. QED
    BY <1>7, <2>1, GotoSpeaks, ErrorSpeaks, NotifyPass DEF DiscardLws, Notify
<1>8. CASE HeadersAlmostDone
  <2>1. /\ Reading /\ parser.state # "s_header_field"
        /\ "chunk_complete" \in DOMAIN Follows /\ "headers_complete" \in DOMAIN Follows
    BY <1>8 DEF HeadersAlmostDone, At, Follows
  <2>. QED
    BY <1>8, <2>1, ErrorSpeaks, NotifyPass DEF HeadersAlmostDone
<1>. QED
  BY <1>0, <1>1, <1>2, <1>3, <1>4, <1>5, <1>6, <1>7, <1>8 DEF Headers

LEMMA CompleteSpeaks ==
    ASSUME ParserInv, Reading, parser.state # "s_header_field", NEW par, NEW exits,
           MessageComplete(par, exits)
    PROVE  Speaks
<1>1. "message_complete" \in DOMAIN Follows
  BY DEF Follows
<1>2. Spoken(Notify("message_complete"))
  BY <1>1, NotifySpoken
<1>. QED
  BY <1>1, <1>2, ReturnSpeaks, NotifyPass DEF MessageComplete

LEMMA BodiesSpeak == ASSUME ParserInv, Bodies PROVE Speaks
<1>0. Reading /\ parser.state # "s_header_field" /\ "body" \in Marked \ {"header_field"}
  BY DEF Bodies, HeadersDone, BodyIdentity, BodyIdentityEof, MessageDone, At, Marked
<1>1. CASE HeadersDone
  BY <1>0, <1>1, CompleteSpeaks, BreakSpeaks, QuietReturn DEF HeadersDone
<1>2. CASE BodyIdentity
  <2> DEFINE mark == MARK("body")["body"]
             par == [Now EXCEPT !.content_length = @ - ToRead]
             done == [par EXCEPT !.state = "s_message_done"]
             data == SubSeq(stream.wire, mark, p + ToRead - 1)
             c == [cb |-> "body", data |-> data]
  <2>1. \/ Pass(done, p + ToRead - 1, TRUE, <<c>>, Unmark("body"))
        \/ Pass(par, p + ToRead, FALSE, <<>>, MARK("body"))
    BY <1>2 DEF BodyIdentity
  <2>2. parser.state = "s_body_identity"
    BY <1>2 DEF BodyIdentity, At
  <2>3. c \in Events /\ c.cb = "body"
    <3>1. data \in Seq(STRING)
      <4>1. mark \in Nat /\ mark >= 1
        BY <1>0, Looking DEF MARK, Marked
      <4>2. parser.content_length \notin {0, ULLONG_MAX}
        BY <1>0, <2>2, Looking DEF Fits, Framed
      <4>3. ToRead \in Nat /\ p \in Nat /\ p + ToRead - 1 <= fed
        BY <1>0, <4>2, ToReadIs, Looking
      <4>4. p + ToRead - 1 <= Len(stream.wire) /\ p + ToRead - 1 \in Int
        BY <1>0, <4>3, Looking
      <4>5. stream.wire \in Seq(STRING)
        BY Streamed DEF ParserInv
      <4> DEFINE to == p + ToRead - 1
      <4> HIDE DEF mark, to
      <4>6. \A i \in mark..to : stream.wire[i] \in STRING
        BY <4>1, <4>4, <4>5 DEF to
      <4>. QED
        BY <4>1, <4>4, <4>6, SubSeqProperties DEF to
    <3>. QED
      BY <3>1 DEF Events, Follows
  <2> HIDE DEF c, done, par
  <2>4. CASE Pass(done, p + ToRead - 1, TRUE, <<c>>, Unmark("body"))
    <3>1. Spoken(<<c>>)
      BY <2>3 DEF Spoken
    <3>2. Call(<<c>>) /\ (p' = 0 \/ marks' = Unmark("body"))
      BY <2>4 DEF Pass, Paused
    <3>3. Unmark("body")["header_field"] = marks["header_field"]
      BY <1>0, Looking DEF Unmark, Marked
    <3>4. marks["header_field"] = 0
      BY <1>0, NameMarked
    <3>. QED
      BY <3>1, <3>2, <3>3, <3>4 DEF Speaks
  <2>5. CASE Pass(par, p + ToRead, FALSE, <<>>, MARK("body"))
    BY <1>0, <2>5, MarkingPass
  <2>. QED
    BY <2>1, <2>4, <2>5
<1>3. CASE BodyIdentityEof
  BY <1>0, <1>3, MarkingPass DEF BodyIdentityEof
<1>4. CASE MessageDone
  BY <1>0, <1>4, CompleteSpeaks DEF MessageDone
<1>. QED
  BY <1>1, <1>2, <1>3, <1>4 DEF Bodies

LEMMA ChunksSpeak == ASSUME ParserInv, Chunks PROVE Speaks
<1>0. /\ Reading /\ parser.state # "s_header_field" /\ "body" \in Marked \ {"header_field"}
      /\ "chunk_header" \in DOMAIN Follows /\ "chunk_complete" \in DOMAIN Follows
  BY DEF Chunks, ChunkSizeStart, ChunkSize, ChunkParameters, ChunkSizeAlmostDone, ChunkData,
     ChunkDataAlmostDone, ChunkDataDone, At, Marked, Follows
<1>1. p \in 0..(fed + 1)
  BY <1>0, Looking
<1>2. CASE ChunkSizeStart
  BY <1>0, <1>2, BreakSpeaks, ErrorSpeaks DEF ChunkSizeStart
<1>3. CASE ChunkSize
  BY <1>0, <1>3, BreakSpeaks, GotoSpeaks, ErrorSpeaks DEF ChunkSize
<1>4. CASE ChunkParameters
  BY <1>0, <1>4, BreakSpeaks, GotoSpeaks DEF ChunkParameters
<1>5. CASE ChunkSizeAlmostDone
  BY <1>0, <1>5, NotifyPass, ErrorSpeaks DEF ChunkSizeAlmostDone
<1>6. CASE ChunkData
  BY <1>0, <1>6, MarkingPass DEF ChunkData
<1>7. CASE ChunkDataAlmostDone
  BY <1>0, <1>1, <1>7, DataPass, ErrorSpeaks DEF ChunkDataAlmostDone
<1>8. CASE ChunkDataDone
  BY <1>0, <1>8, NotifyPass, ErrorSpeaks DEF ChunkDataDone
<1>. QED
  BY <1>2, <1>3, <1>4, <1>5, <1>6, <1>7, <1>8 DEF Chunks

LEMMA EndSpeaks == ASSUME ParserInv, EndOfPiece PROVE Speaks
<1> DEFINE cs == Data("header_field", p) \o Data("header_value", p)
                    \o Data("url", p) \o Data("body", p) \o Data("status", p)
<1>1. p = fed + 1 /\ p' = 0 /\ Call(cs)
  BY DEF EndOfPiece, Paused, Return
<1>2. \/ cs = <<>> /\ \A m \in Marked : marks[m] = 0
      \/ \E m \in Marked, c \in Events :
             /\ parser.state \in MayMark[m] /\ marks[m] # 0 /\ c.cb = m
             /\ Data(m, p) = <<c>> /\ cs = <<c>>
  BY <1>1, LeftAtEnd
<1> HIDE DEF cs
<1>3. Spoken(cs)
  BY <1>2 DEF Spoken, MayMark
<1>. QED
  BY <1>1, <1>3 DEF Speaks

\* A callback is added to the calls, and to what is heard unless it goes on
\* with an element.
LEMMA SpokenKeeps ==
    ASSUME CallsInv, ParserInv', p # 0, Speaks
    PROVE  CallsInv'
<1>1. PICK cs : /\ Spoken(cs) /\ Call(cs)
                /\ p' # 0 /\ marks'["header_field"] # 0 =>
                        cs = <<>> /\ parser.state \in {"s_header_field_start", "s_header_field"}
  BY DEF Speaks
<1>2. /\ ParserInv /\ calls \in Seq(Events) /\ calls' = calls \o cs
      /\ heard \in Seq(Events) /\ parser.errno = "OK" /\ ~over
  BY <1>1 DEF CallsInv, ParserInv, CallOK, Call
<1>3. Telling(parser, LastTold)
  BY <1>2 DEF ParserInv, Fits
<1>4. p' # 0 /\ parser'.state = "s_header_field" => marks'["header_field"] # 0
  BY DEF ParserInv, CallOK, MarkedIn, MayMark, Marked
<1>5. CASE cs = <<>>
  <2>1. calls' = calls /\ heard' = heard /\ LastTold' = LastTold
    BY <1>1, <1>2, <1>5, CallNobody DEF LastTold
  <2>2. p' # 0 /\ parser'.state = "s_header_field" /\ calls' # <<>> => LastTold' # "header_field"
    BY <1>1, <1>3, <1>4, <2>1 DEF CallsInv, Telling
  <2>. QED
    BY <2>1, <2>2 DEF CallsInv
<1>6. ASSUME NEW c \in Events, cs = <<c>>, c.cb = "header_field" => parser.state = "s_header_field"
      PROVE  CallsInv'
  <2> DEFINE n == Len(calls)
  <2>1. /\ calls' \in Seq(Events) /\ n \in Nat /\ Len(calls') = n + 1 /\ calls'[n + 1] = c
        /\ \A i \in 1..n : calls'[i] = calls[i]
    BY <1>2, <1>6
  <2>2. heard' = Hear(heard, c)
    BY <1>1, <1>6, CallOnce
  <2>3. LastTold' = c.cb
    <3> DEFINE m == Len(heard)
    <3>1. CASE heard # <<>> /\ c.cb \in Marked /\ heard[m].cb = c.cb
      <4>1. m \in 1..m /\ DOMAIN heard = 1..m /\ heard[m] \in Events
        BY <1>2, <3>1
      <4> DEFINE e == [heard[m] EXCEPT !.data = @ \o c.data]
      <4>2. e.cb = c.cb
        BY <3>1, <4>1 DEF Events
      <4>3. heard' = [heard EXCEPT ![m] = e]
        BY <2>2, <3>1 DEF Hear
      <4> HIDE DEF e
      <4>4. Len(heard') = m /\ heard'[m] = e /\ heard' # <<>>
        BY <1>2, <3>1, <4>1, <4>3
      <4>. QED
        BY <4>2, <4>4 DEF LastTold, ToldLast
    <3>2. CASE ~(heard # <<>> /\ c.cb \in Marked /\ heard[m].cb = c.cb)
      <4>1. heard' = Append(heard, c)
        BY <2>2, <3>2, Zenon DEF Hear
      <4>2. m \in Nat /\ Len(heard') = m + 1 /\ heard'[m + 1] = c
        BY <1>2, <4>1
      <4>3. heard' # <<>>
        BY <4>2
      <4>. QED
        BY <4>2, <4>3 DEF LastTold, ToldLast
    <3>. QED
      BY <3>1, <3>2
  <2>4. ASSUME n > 0, calls[n].cb = "header_field" PROVE c.cb = "header_value"
    <3>1. LastTold = "header_field"
      BY <2>4 DEF CallsInv
    <3>2. c.cb # "header_field"
      BY <1>6, <2>4, <3>1 DEF CallsInv
    <3>3. heard # <<>> /\ heard[Len(heard)].cb = "header_field"
      BY <3>1 DEF LastTold, ToldLast
    <3>4. heard' = Append(heard, c)
      BY <2>2, <3>2, <3>3, Zenon DEF Hear
    <3>5. /\ Len(heard) \in Nat /\ Len(heard) >= 1 /\ Len(heard') = Len(heard) + 1
          /\ heard'[Len(heard) + 1] = c /\ heard'[Len(heard)] = heard[Len(heard)]
      BY <1>2, <3>3, <3>4
    <3>6. heard'[Len(heard) + 1].cb \in Follows[heard'[Len(heard)].cb]
      <4>1. \A i \in 2..Len(heard') : heard'[i].cb \in Follows[heard'[i - 1].cb]
        BY DEF ParserInv, CallbackOrder
      <4>2. Len(heard) + 1 \in 2..Len(heard') /\ Len(heard) + 1 - 1 = Len(heard)
        BY <3>5
      <4>. QED
        BY <4>1, <4>2
    <3>. QED
      BY <3>3, <3>5, <3>6 DEF Follows
  <2>5. ASSUME NEW i \in 1..(Len(calls') - 1), calls'[i].cb = "header_field"
        PROVE  calls'[i + 1].cb = "header_value"
    <3>1. CASE i = n
      <4>1. n > 0 /\ calls[n].cb = "header_field" /\ calls'[i + 1] = c
        BY <2>1, <2>5, <3>1
      <4>. QED
        BY <2>4, <4>1
    <3>2. CASE i # n
      <4>1. i \in 1..(n - 1) /\ i \in 1..n /\ i + 1 \in 1..n
        BY <2>1, <3>2
      <4>2. calls'[i] = calls[i] /\ calls'[i + 1] = calls[i + 1]
        BY <2>1, <4>1
      <4>. QED
        BY <2>5, <4>1, <4>2 DEF CallsInv
    <3>. QED
      BY <3>1, <3>2
  <2>6. calls' # <<>> => calls'[Len(calls')].cb = LastTold'
    BY <2>1, <2>3
  <2>7. ~(p' # 0 /\ parser'.state = "s_header_field")
    <3>1. cs # <<>>
      BY <1>6
    <3>. QED
      BY <1>1, <1>4, <3>1
  <2>. QED
    BY <2>1, <2>5, <2>6, <2>7 DEF CallsInv
<1>. QED
  BY <1>1, <1>5, <1>6 DEF Spoken

LEMMA CallsKept == ASSUME CallsInv, Next PROVE CallsInv'
<1>1. ParserInv /\ ParserInv'
  BY StepInv DEF CallsInv
<1>2. CASE StatusLine \/ RequestLine \/ Headers \/ Bodies \/ Chunks \/ EndOfPiece
  <2>1. Speaks
    BY <1>1, <1>2, StatusLineSpeaks, RequestLineSpeaks, HeadersSpeak, BodiesSpeak, ChunksSpeak,
       EndSpeaks
  <2>2. p # 0
    <3>1. CASE EndOfPiece
      BY SMTT(30), <1>1, <3>1, SamePlaces DEF EndOfPiece
    <3>2. CASE ~EndOfPiece
      BY Zenon, <1>2, <3>2 DEF StatusLine, StartRes, ResH, ResHttpEnd, FirstStatusCode,
         StatusCode, StatusStart, Status, ResLineAlmostDone, RequestLine, Dead, StartReqOrRes, StartReq,
         ReqMethod, UrlStart, UrlChar, UrlEnd, HttpVersion, HttpEnd, ReqLineAlmostDone, Headers,
         HeaderFieldStart, HeaderField, DiscardWs, FoldedStart, HeaderValue, HeaderAlmostDone,
         ValueLws, DiscardWsAlmostDone, DiscardLws, HeadersAlmostDone, Bodies, HeadersDone,
         BodyIdentity, BodyIdentityEof, MessageDone, Chunks, ChunkSizeStart, ChunkSize,
         ChunkParameters, ChunkSizeAlmostDone, ChunkData, ChunkDataAlmostDone, ChunkDataDone,
         At, Reading
    <3>. QED
      BY <3>1, <3>2
  <2>. QED
    BY <1>1, <2>1, <2>2, SpokenKeeps
<1>3. CASE HeaderOverflow
  <2>1. Speaks /\ p # 0
    BY <1>3, ErrorSpeaks DEF HeaderOverflow, Reading
  <2>. QED
    BY <1>1, <2>1, SpokenKeeps
<1>4. CASE \E n \in stream.pieces \cup {Left} : http_parser_execute(n)
  <2>1. calls' = <<>>
    BY <1>4 DEF http_parser_execute
  <2>. QED
    BY <1>1, <2>1 DEF CallsInv
<1>5. CASE Resume
  <2>1. p = 0 /\ p' = p /\ calls' = calls /\ heard' = heard
    BY <1>1, <1>5 DEF Resume, ParserInv, CallOK
  <2>. QED
    BY <1>1, <2>1 DEF CallsInv, LastTold
<1>6. CASE AtEof
  <2>1. p' = 0 /\ heard \in Seq(Events)
    BY <1>1, <1>6 DEF AtEof, Callable, ParserInv
  <2>2. CASE calls' = <<>>
    BY <1>1, <2>1, <2>2 DEF CallsInv
  <2>3. CASE calls' = Notify("message_complete") /\ heard' = heard \o calls'
    <3> DEFINE c == [cb |-> "message_complete", data |-> <<>>]
    <3>1. c \in Events /\ calls' = <<c>> /\ c.cb = "message_complete"
      <4>1. "message_complete" \in DOMAIN Follows
        BY DEF Follows
      <4>. QED
        BY <2>3, <4>1, NotifyType DEF Notify
    <3> HIDE DEF c
    <3>2. heard' = Append(heard, c)
      BY <2>1, <2>3, <3>1
    <3>3. LastTold' = c.cb
      BY <2>1, <3>1, <3>2 DEF LastTold, ToldLast
    <3>. QED
      BY <1>1, <2>1, <3>1, <3>3 DEF CallsInv
  <2>. QED
    BY <1>6, <2>2, <2>3 DEF AtEof
<1>. QED
  BY <1>2, <1>3, <1>4, <1>5, <1>6 DEF Next

LEMMA AlwaysCallsInv == Spec => []CallsInv
<1>1. Init => CallsInv
  <2> SUFFICES ASSUME Init PROVE CallsInv
    OBVIOUS
  <2>1. p = 0 /\ calls = <<>>
    BY DEF Init
  <2>. QED
    BY <2>1, InitInv DEF CallsInv
<1>2. CallsInv /\ [Next]_vars => CallsInv'
  <2> SUFFICES ASSUME CallsInv, UNCHANGED vars PROVE CallsInv'
    BY CallsKept
  <2>1. ParserInv'
    BY StepInv DEF CallsInv
  <2>. QED
    BY <2>1 DEF vars, CallsInv, LastTold
<1>. QED
  BY <1>1, <1>2, PTL DEF Spec
-----------------------------------------------------------------------------
(* The request after the callbacks. *)

\* The greatest of some positions.
LEMMA MaxOfPositions ==
    ASSUME NEW n \in Nat, NEW I \in SUBSET (1..n), I # {}
    PROVE  Max(I) \in I /\ \A j \in I : j <= Max(I)
<1> DEFINE R == {n - i : i \in I}
<1>1. R \in SUBSET Nat /\ R # {}
  <2>1. ASSUME NEW r \in R PROVE r \in Nat
    <3>1. PICK i \in I : r = n - i
      OBVIOUS
    <3>. QED
      BY <3>1
  <2>2. PICK i \in I : TRUE
    OBVIOUS
  <2>3. n - i \in R
    BY <2>2
  <2>. QED
    BY <2>1, <2>3
<1>2. PICK r \in R : \A q \in R : r <= q
  BY <1>1, MinOfPositions
<1>3. PICK m \in I : r = n - m
  OBVIOUS
<1>4. ASSUME NEW j \in I PROVE m >= j
  <2>1. n - j \in R /\ m \in Int /\ j \in Int
    OBVIOUS
  <2>. QED
    BY <1>2, <1>3, <2>1
<1>5. \E x \in I : \A y \in I : x >= y
  BY <1>4
<1>6. Max(I) \in I /\ \A y \in I : Max(I) >= y
  BY <1>5 DEF Max
<1>. QED
  BY <1>6

\* It is what is at least all of them.
LEMMA MaxIs ==
    ASSUME NEW n \in Nat, NEW I \in SUBSET (1..n), NEW m \in I, \A j \in I : j <= m
    PROVE  Max(I) = m
<1>1. Max(I) \in I /\ m <= Max(I)
  BY MaxOfPositions
<1>2. PICK x \in I : x = Max(I)
  BY <1>1
<1>3. x <= m /\ m <= x /\ x \in Int /\ m \in Int
  BY <1>1, <1>2
<1>. QED
  BY <1>2, <1>3

\* A request after some callbacks.
Shaped(r) ==
    r = [url |-> r.url, headers |-> r.headers, body |-> r.body, header_field |-> r.header_field,
         last_call_was_on_header_field |-> r.last_call_was_on_header_field]

Expects(r) == r.last_call_was_on_header_field

\* What a callback does to a request.
TurnsTo(r, c, q) ==
    /\ Shaped(q)
    /\ q.headers = IF c.cb = "header_value" /\ Expects(r)
                   THEN set_or_append_header(r.headers, r.header_field, CString(c.data)) ELSE r.headers
    /\ c.cb = "header_field" => Expects(q) /\ q.header_field = c.data
    /\ c.cb = "header_value" => ~Expects(q)
    /\ c.cb # "header_field" /\ ~Expects(r) => ~Expects(q)
    /\ q.url = IF c.cb = "url" THEN c.data ELSE r.url
    /\ q.body = IF c.cb = "body" THEN CString(c.data) ELSE r.body

LEMMA CallbackTurns ==
    ASSUME NEW r, Shaped(r), NEW c \in Events
    PROVE  TurnsTo(r, c, OnCallback(r, c))
<1> DEFINE q == OnCallback(r, c)
<1>1. c.cb \in {"message_begin", "url", "status", "header_field", "header_value",
                "headers_complete", "body", "message_complete", "chunk_header",
                "chunk_complete"}
  BY DEF Events, Follows
<1>2. CASE c.cb \in {"message_begin", "headers_complete"}
  <2>1. q = [r EXCEPT !.header_field = <<>>, !.last_call_was_on_header_field = FALSE]
    BY <1>2 DEF OnCallback, Forget
  <2> HIDE DEF q
  <2>2. /\ q.url = r.url /\ q.headers = r.headers /\ q.body = r.body
        /\ ~q.last_call_was_on_header_field /\ Shaped(q)
    BY <2>1 DEF Shaped
  <2>. QED
    BY <1>2, <2>2 DEF TurnsTo, Expects, q
<1>3. CASE c.cb = "url"
  <2>1. q = [r EXCEPT !.url = c.data]
    BY <1>3 DEF OnCallback, on_url
  <2> HIDE DEF q
  <2>2. /\ q.url = c.data /\ q.headers = r.headers /\ q.body = r.body
        /\ q.last_call_was_on_header_field = r.last_call_was_on_header_field /\ Shaped(q)
    BY <2>1 DEF Shaped
  <2>. QED
    BY <1>3, <2>2 DEF TurnsTo, Expects, q
<1>4. CASE c.cb = "header_field"
  <2>1. q = [r EXCEPT !.header_field = c.data, !.last_call_was_on_header_field = TRUE]
    BY <1>4 DEF OnCallback, on_header_field
  <2> HIDE DEF q
  <2>2. /\ q.url = r.url /\ q.headers = r.headers /\ q.body = r.body
        /\ q.last_call_was_on_header_field /\ q.header_field = c.data /\ Shaped(q)
    BY <2>1 DEF Shaped
  <2>. QED
    BY <1>4, <2>2 DEF TurnsTo, Expects, q
<1>5. CASE c.cb = "header_value"
  <2> DEFINE h == IF r.last_call_was_on_header_field
                  THEN set_or_append_header(r.headers, r.header_field, CString(c.data)) ELSE r.headers
  <2>1. q = [r EXCEPT !.headers = h, !.last_call_was_on_header_field = FALSE]
    BY <1>5 DEF OnCallback, on_header_value
  <2> HIDE DEF q, h
  <2>2. /\ q.url = r.url /\ q.headers = h /\ q.body = r.body
        /\ ~q.last_call_was_on_header_field /\ Shaped(q)
    BY <2>1 DEF Shaped
  <2>. QED
    BY <1>5, <2>2 DEF TurnsTo, Expects, q, h
<1>6. CASE c.cb = "body"
  <2>1. q = [r EXCEPT !.body = CString(c.data)]
    BY <1>6 DEF OnCallback, on_body
  <2> HIDE DEF q
  <2>2. /\ q.url = r.url /\ q.headers = r.headers /\ q.body = CString(c.data)
        /\ q.last_call_was_on_header_field = r.last_call_was_on_header_field /\ Shaped(q)
    BY <2>1 DEF Shaped
  <2>. QED
    BY <1>6, <2>2 DEF TurnsTo, Expects, q
<1>7. CASE c.cb \in {"status", "message_complete", "chunk_header", "chunk_complete"}
  <2>1. q = r
    BY <1>7 DEF OnCallback
  <2> HIDE DEF q
  <2>. QED
    BY <1>7, <2>1 DEF TurnsTo, Expects, q
<1>. QED
  BY <1>1, <1>2, <1>3, <1>4, <1>5, <1>6, <1>7

\* The names, among the first i callbacks, that a value has followed, and what
\* is kept for each.
ToldFields(cs, i) == {j \in 1..(i - 1) : cs[j].cb = "header_field"}
ToldAs(cs, i, n) == {j \in ToldFields(cs, i) : cs[j].data = n}
KeptFields(cs, i) ==
    [n \in {cs[j].data : j \in ToldFields(cs, i)} |->
        CString(cs[Max(ToldAs(cs, i, n)) + 1].data)]

\* The calls of a kind among the first i.
OfKind(cs, i, cb) == {j \in 1..i : cs[j].cb = cb}

\* d is what is kept of the last of them.
Written(cb, data) == IF cb = "body" THEN CString(data) ELSE data
IsLatest(cs, i, cb, d) ==
    OfKind(cs, i, cb) # {} => d = Written(cb, cs[Max(OfKind(cs, i, cb))].data)

\* What the request is after i callbacks.
Stored(cs, i, r) ==
    /\ Shaped(r)
    /\ r.headers = KeptFields(cs, i)
    /\ i # 0 /\ cs[i].cb = "header_field" => Expects(r) /\ r.header_field = cs[i].data
    /\ i = 0 \/ cs[i].cb # "header_field" => ~Expects(r)
    /\ IsLatest(cs, i, "url", r.url)
    /\ IsLatest(cs, i, "body", r.body)

LEMMA NothingStored == ASSUME NEW cs PROVE Stored(cs, 0, Blanked)
<1>1. ToldFields(cs, 0) = {}
  BY DEF ToldFields
<1>2. KeptFields(cs, 0) = <<>>
  <2>1. {cs[j].data : j \in ToldFields(cs, 0)} = {}
    BY <1>1
  <2>2. KeptFields(cs, 0) = [n \in {} |-> CString(cs[Max(ToldAs(cs, 0, n)) + 1].data)]
    BY <2>1 DEF KeptFields
  <2>. QED
    BY <2>2
<1>3. 1..0 = {}
  OBVIOUS
<1>. QED
  BY <1>2, <1>3 DEF Stored, Shaped, Blanked, Expects, IsLatest, OfKind

\* The last of a kind is the one that came just now, or the last before.
LEMMA LatestIs ==
    ASSUME NEW cs, NEW i \in Nat \ {0}, NEW cb, NEW x, NEW y, IsLatest(cs, i - 1, cb, x),
           y = IF cs[i].cb = cb THEN Written(cb, cs[i].data) ELSE x
    PROVE  IsLatest(cs, i, cb, y)
<1>1. CASE cs[i].cb = cb
  <2>1. PICK J \in SUBSET (1..i) : J = OfKind(cs, i, cb)
    BY DEF OfKind
  <2>2. i \in J /\ \A j \in J : j <= i
    BY <1>1, <2>1 DEF OfKind
  <2>3. Max(J) = i
    BY <2>2, MaxIs
  <2>. QED
    BY <1>1, <2>1, <2>3 DEF IsLatest
<1>2. CASE cs[i].cb # cb
  <2>1. OfKind(cs, i, cb) = OfKind(cs, i - 1, cb)
    BY <1>2 DEF OfKind
  <2>. QED
    BY <1>2, <2>1 DEF IsLatest
<1>. QED
  BY <1>1, <1>2

LEMMA ValueKept ==
    ASSUME NEW cs, NEW i \in Nat \ {0, 1}, cs[i - 1].cb = "header_field"
    PROVE  KeptFields(cs, i) =
               set_or_append_header(KeptFields(cs, i - 1), cs[i - 1].data, CString(cs[i].data))
<1> DEFINE A == ToldFields(cs, i - 1)
           B == ToldFields(cs, i)
           name == cs[i - 1].data
           names(S) == {cs[j].data : j \in S}
<1>1. /\ i - 1 \in Nat /\ i - 1 \in 1..(i - 1) /\ B = A \cup {i - 1} /\ i - 1 \notin A
      /\ A \in SUBSET (1..(i - 1)) /\ B \in SUBSET (1..(i - 1)) /\ (i - 1) + 1 = i
  <2>1. /\ i - 1 \in Nat /\ i - 1 \in 1..(i - 1) /\ i - 1 \notin 1..((i - 1) - 1)
        /\ 1..(i - 1) = 1..((i - 1) - 1) \cup {i - 1} /\ (i - 1) + 1 = i
    OBVIOUS
  <2>. QED
    BY <2>1 DEF ToldFields
<1>2. names(B) = names(A) \cup {name}
  BY <1>1
<1>3. Max(ToldAs(cs, i, name)) = i - 1
  <2>1. ToldAs(cs, i, name) \in SUBSET (1..(i - 1)) /\ i - 1 \in ToldAs(cs, i, name)
    BY <1>1 DEF ToldAs
  <2>2. \A j \in ToldAs(cs, i, name) : j <= i - 1
    BY <1>1, <2>1
  <2>3. PICK S \in SUBSET (1..(i - 1)) : S = ToldAs(cs, i, name)
    BY <2>1
  <2>4. PICK k \in Nat : k = i - 1
    BY <1>1
  <2>5. S \in SUBSET (1..k) /\ k \in S /\ \A j \in S : j <= k
    BY <2>1, <2>2, <2>3, <2>4
  <2>6. Max(S) = k
    BY <2>5, MaxIs
  <2>. QED
    BY <2>3, <2>4, <2>6
<1>4. ASSUME NEW n, n # name PROVE ToldAs(cs, i, n) = ToldAs(cs, i - 1, n)
  BY <1>1, <1>4 DEF ToldAs
<1> HIDE DEF A, B, name
<1>5. KeptFields(cs, i) = [n \in names(B) |-> CString(cs[Max(ToldAs(cs, i, n)) + 1].data)]
  BY DEF KeptFields, B
<1>6. KeptFields(cs, i - 1) = [n \in names(A) |-> CString(cs[Max(ToldAs(cs, i - 1, n)) + 1].data)]
  BY DEF KeptFields, A
<1> DEFINE old == KeptFields(cs, i - 1)
           new == KeptFields(cs, i)
<1> HIDE DEF names
<1>7. DOMAIN old = names(A) /\ DOMAIN new = names(A) \cup {name}
  BY <1>2, <1>5, <1>6
<1>8. ASSUME NEW n \in names(A) \cup {name}
      PROVE  new[n] = IF n = name THEN CString(cs[i].data) ELSE old[n]
  <2>1. CASE n = name
    <3>1. new[n] = CString(cs[Max(ToldAs(cs, i, name)) + 1].data)
      BY <1>2, <1>5, <2>1
    <3>. QED
      BY <1>1, <1>3, <2>1, <3>1
  <2>2. CASE n # name
    <3>1. new[n] = CString(cs[Max(ToldAs(cs, i, n)) + 1].data)
      BY <1>2, <1>5
    <3>2. old[n] = CString(cs[Max(ToldAs(cs, i - 1, n)) + 1].data)
      BY <1>6, <2>2
    <3>. QED
      BY <1>4, <2>2, <3>1, <3>2
  <2>. QED
    BY <2>1, <2>2
<1>9. new = [n \in DOMAIN old \cup {name} |-> IF n = name THEN CString(cs[i].data) ELSE old[n]]
  <2>1. new = [n \in DOMAIN new |-> new[n]]
    BY <1>5
  <2> HIDE DEF new, old
  <2>. QED
    BY <1>7, <1>8, <2>1
<1>. QED
  BY <1>9 DEF set_or_append_header, name

LEMMA NothingKept ==
    ASSUME NEW cs, NEW i \in Nat \ {0}, i = 1 \/ cs[i - 1].cb # "header_field"
    PROVE  KeptFields(cs, i) = KeptFields(cs, i - 1)
<1>1. ToldFields(cs, i) = ToldFields(cs, i - 1)
  BY DEF ToldFields
<1>2. \A n : ToldAs(cs, i, n) = ToldAs(cs, i - 1, n)
  BY <1>1 DEF ToldAs
<1>. QED
  BY <1>1, <1>2 DEF KeptFields

\* The value of a name comes next.
ValuesFollow(cs) ==
    \A j \in 1..(Len(cs) - 1) : cs[j].cb = "header_field" => cs[j + 1].cb = "header_value"

LEMMA FlagsKept ==
    ASSUME NEW cs, NEW i \in Nat \ {0}, NEW r, NEW q, Stored(cs, i - 1, r), TurnsTo(r, cs[i], q),
           i # 1 /\ cs[i - 1].cb = "header_field" => cs[i].cb = "header_value"
    PROVE  /\ cs[i].cb = "header_field" => Expects(q) /\ q.header_field = cs[i].data
           /\ cs[i].cb # "header_field" => ~Expects(q)
<1>1. i - 1 = 0 \/ cs[i - 1].cb # "header_field" => ~Expects(r)
  BY DEF Stored
<1>2. i - 1 = 0 <=> i = 1
  OBVIOUS
<1>3. /\ cs[i].cb = "header_field" => Expects(q) /\ q.header_field = cs[i].data
      /\ cs[i].cb = "header_value" => ~Expects(q)
      /\ cs[i].cb # "header_field" /\ ~Expects(r) => ~Expects(q)
  BY Zenon DEF TurnsTo
<1>. QED
  BY <1>1, <1>2, <1>3, Zenon

LEMMA HeadersKept ==
    ASSUME NEW cs, NEW i \in Nat \ {0}, NEW r, NEW q, Stored(cs, i - 1, r), TurnsTo(r, cs[i], q),
           i # 1 /\ cs[i - 1].cb = "header_field" => cs[i].cb = "header_value"
    PROVE  q.headers = KeptFields(cs, i)
<1>1. r.headers = KeptFields(cs, i - 1)
  BY DEF Stored
<1>2. q.headers = IF cs[i].cb = "header_value" /\ Expects(r)
                  THEN set_or_append_header(r.headers, r.header_field, CString(cs[i].data)) ELSE r.headers
  BY Zenon DEF TurnsTo
<1>3. CASE i # 1 /\ cs[i - 1].cb = "header_field"
  <2>1. i - 1 # 0 /\ i \in Nat \ {0, 1}
    BY <1>3
  <2>2. Expects(r) /\ r.header_field = cs[i - 1].data
    BY <1>3, <2>1, Zenon DEF Stored
  <2>3. KeptFields(cs, i)
            = set_or_append_header(KeptFields(cs, i - 1), cs[i - 1].data, CString(cs[i].data))
    BY <1>3, <2>1, ValueKept
  <2>4. q.headers = set_or_append_header(r.headers, r.header_field, CString(cs[i].data))
    BY <1>2, <1>3, <2>2, Zenon
  <2>. QED
    BY <1>1, <2>2, <2>3, <2>4, Zenon
<1>4. CASE i = 1 \/ cs[i - 1].cb # "header_field"
  <2>1. i - 1 = 0 \/ cs[i - 1].cb # "header_field"
    BY <1>4
  <2>2. ~Expects(r)
    BY <2>1, Zenon DEF Stored
  <2>3. KeptFields(cs, i) = KeptFields(cs, i - 1)
    BY <1>4, NothingKept
  <2>4. q.headers = r.headers
    BY <1>2, <2>2, Zenon
  <2>. QED
    BY <1>1, <2>3, <2>4
<1>. QED
  BY <1>3, <1>4

LEMMA StepStored ==
    ASSUME NEW cs, NEW i \in Nat \ {0}, NEW r, NEW q, Stored(cs, i - 1, r), TurnsTo(r, cs[i], q),
           i # 1 /\ cs[i - 1].cb = "header_field" => cs[i].cb = "header_value"
    PROVE  Stored(cs, i, q)
<1>1. Shaped(q)
  BY Zenon DEF TurnsTo
<1>2. q.headers = KeptFields(cs, i)
  BY HeadersKept
<1>3. /\ cs[i].cb = "header_field" => Expects(q) /\ q.header_field = cs[i].data
      /\ cs[i].cb # "header_field" => ~Expects(q)
  BY FlagsKept, Zenon
<1>4. IsLatest(cs, i, "url", q.url)
  <2>1. IsLatest(cs, i - 1, "url", r.url)
    BY Zenon DEF Stored
  <2>2. q.url = IF cs[i].cb = "url" THEN Written("url", cs[i].data) ELSE r.url
    BY Zenon DEF TurnsTo, Written
  <2>3. PICK x : x = r.url
    OBVIOUS
  <2>4. PICK y : y = q.url
    OBVIOUS
  <2>5. IsLatest(cs, i - 1, "url", x) /\ y = IF cs[i].cb = "url" THEN Written("url", cs[i].data) ELSE x
    BY <2>1, <2>2, <2>3, <2>4, Zenon
  <2>6. IsLatest(cs, i, "url", y)
    BY <2>5, LatestIs
  <2>. QED
    BY <2>4, <2>6, Zenon
<1>5. IsLatest(cs, i, "body", q.body)
  <2>1. IsLatest(cs, i - 1, "body", r.body)
    BY Zenon DEF Stored
  <2>2. q.body = IF cs[i].cb = "body" THEN Written("body", cs[i].data) ELSE r.body
    BY Zenon DEF TurnsTo, Written
  <2>3. PICK x : x = r.body
    OBVIOUS
  <2>4. PICK y : y = q.body
    OBVIOUS
  <2>5. IsLatest(cs, i - 1, "body", x) /\ y = IF cs[i].cb = "body" THEN Written("body", cs[i].data) ELSE x
    BY <2>1, <2>2, <2>3, <2>4, Zenon
  <2>6. IsLatest(cs, i, "body", y)
    BY <2>5, LatestIs
  <2>. QED
    BY <2>4, <2>6, Zenon
<1>6. i # 0
  OBVIOUS
<1>. QED
  BY <1>1, <1>2, <1>3, <1>4, <1>5, <1>6, Zenon DEF Stored

\* f takes a request through the first n callbacks.
IsAfter(f, cs, n) ==
    f = [i \in 0..n |-> IF i = 0 THEN Blanked ELSE OnCallback(f[i - 1], cs[i])]

LEMMA AfterExists ==
    ASSUME NEW cs, NEW n \in Nat
    PROVE  \E f : IsAfter(f, cs, n)
<1> DEFINE I == {k \in Nat : \E f : IsAfter(f, cs, k)}
<1>1. 0 \in I
  <2> DEFINE f == [i \in 0..0 |-> Blanked]
  <2>1. IsAfter(f, cs, 0)
    BY DEF IsAfter
  <2>. QED
    BY <2>1
<1>2. ASSUME NEW k \in Nat, k \in I PROVE k + 1 \in I
  <2>1. PICK f : IsAfter(f, cs, k)
    BY <1>2
  <2> DEFINE g == [i \in 0..(k + 1) |-> IF i = k + 1 THEN OnCallback(f[k], cs[k + 1]) ELSE f[i]]
  <2>2. ASSUME NEW i \in 0..(k + 1)
        PROVE  g[i] = IF i = 0 THEN Blanked ELSE OnCallback(g[i - 1], cs[i])
    <3>1. CASE i = k + 1
      <4>1. k \in 0..(k + 1) /\ i - 1 = k /\ i # 0 /\ k # k + 1
        BY <3>1
      <4>2. g[k] = f[k] /\ g[i] = OnCallback(f[k], cs[k + 1])
        BY <3>1, <4>1
      <4> HIDE DEF g
      <4>. QED
        BY <3>1, <4>1, <4>2
    <3>2. CASE i = 0
      BY <2>1, <3>2 DEF IsAfter
    <3>3. CASE i \in 1..k
      <4>1. i \in 0..k /\ i - 1 \in 0..(k + 1) /\ i - 1 # k + 1 /\ i # 0 /\ i # k + 1
        BY <3>3
      <4>2. g[i] = f[i] /\ g[i - 1] = f[i - 1]
        BY <4>1
      <4>3. f[i] = OnCallback(f[i - 1], cs[i])
        BY <2>1, <4>1 DEF IsAfter
      <4> HIDE DEF g
      <4>. QED
        BY <4>1, <4>2, <4>3
    <3>. QED
      BY <3>1, <3>2, <3>3
  <2>3. IsAfter(g, cs, k + 1)
    <3>1. DOMAIN g = 0..(k + 1) /\ g = [i \in 0..(k + 1) |-> g[i]]
      OBVIOUS
    <3> HIDE DEF g
    <3>. QED
      BY <2>2, <3>1 DEF IsAfter
  <2> HIDE DEF g
  <2>. QED
    BY <2>3
<1> HIDE DEF I
<1>3. \A k \in 0..n : k \in I
  BY <1>1, <1>2, Counting
<1>. QED
  BY <1>3 DEF I

LEMMA AfterStored ==
    ASSUME NEW cs \in Seq(Events), ValuesFollow(cs), NEW f, IsAfter(f, cs, Len(cs))
    PROVE  Stored(cs, Len(cs), f[Len(cs)])
<1> DEFINE n == Len(cs)
           I == {k \in Nat : k <= n => Stored(cs, k, f[k])}
<1>1. n \in Nat
  OBVIOUS
<1>2. 0 \in I
  <2>1. f[0] = Blanked
    BY <1>1 DEF IsAfter
  <2>2. Stored(cs, 0, f[0])
    BY <2>1, NothingStored
  <2>. QED
    BY <2>2
<1>3. ASSUME NEW k \in Nat, k \in I PROVE k + 1 \in I
  <2> SUFFICES ASSUME k + 1 <= n PROVE Stored(cs, k + 1, f[k + 1])
    OBVIOUS
  <2>1. PICK i \in Nat \ {0} : i = k + 1
    OBVIOUS
  <2>2. i \in 1..n /\ i \in 0..n /\ i - 1 = k /\ k <= n
    BY <1>1, <2>1
  <2>3. Stored(cs, i - 1, f[i - 1])
    BY <1>3, <2>2
  <2>4. f[i] = OnCallback(f[i - 1], cs[i])
    BY <2>1, <2>2 DEF IsAfter
  <2>5. cs[i] \in Events
    BY <2>2
  <2>6. TurnsTo(f[i - 1], cs[i], f[i])
    <3>1. Shaped(f[i - 1])
      BY <2>3, Zenon DEF Stored
    <3>. QED
      BY <2>4, <2>5, <3>1, CallbackTurns
  <2>7. i # 1 /\ cs[i - 1].cb = "header_field" => cs[i].cb = "header_value"
    <3>1. i # 1 => i - 1 \in 1..(Len(cs) - 1) /\ (i - 1) + 1 = i
      BY <1>1, <2>2
    <3>. QED
      BY <3>1 DEF ValuesFollow
  <2>8. PICK r : r = f[i - 1]
    OBVIOUS
  <2>9. PICK q : q = f[i]
    OBVIOUS
  <2>10. Stored(cs, i, q)
    BY <2>3, <2>6, <2>7, <2>8, <2>9, StepStored
  <2>. QED
    BY <2>1, <2>9, <2>10
<1> HIDE DEF I, n
<1>4. \A k \in 0..n : k \in I
  BY <1>1, <1>2, <1>3, Counting
<1>. QED
  BY <1>1, <1>4 DEF I, n

LEMMA RequestStored ==
    ASSUME CallsInv
    PROVE  \E r : Request = Split(r) /\ Stored(calls, Len(calls), r)
<1>1. Len(calls) \in Nat /\ calls \in Seq(Events) /\ ValuesFollow(calls)
  BY DEF CallsInv, ValuesFollow
<1> DEFINE f == CHOOSE f : IsAfter(f, calls, Len(calls))
<1>2. IsAfter(f, calls, Len(calls))
  BY <1>1, AfterExists
<1>3. Request = Split(f[Len(calls)])
  BY DEF Request, IsAfter
<1> HIDE DEF f
<1>4. Stored(calls, Len(calls), f[Len(calls)])
  BY <1>1, <1>2, AfterStored
<1>. QED
  BY <1>3, <1>4

\* FieldsStored: of whatever the parser tells, the map has the fields under
\* their names and the last value told of each, and the url and the body are the
\* last that were told, as parse_request leaves them: a value and a body only as
\* far as their first NUL.
THEOREM FieldsAreStored == Spec => []FieldsStored
<1>1. CallsInv => FieldsStored
  <2> SUFFICES ASSUME CallsInv PROVE FieldsStored
    OBVIOUS
  <2> DEFINE told(cb) == {i \in DOMAIN calls : calls[i].cb = cb}
             named == told("header_field") \ {Len(calls)}
             latest(n) == Max({i \in named : calls[i].data = n})
  <2>1. PICK r : Request = Split(r) /\ Stored(calls, Len(calls), r)
    BY RequestStored
  <2>2. Request.headers = r.headers /\ Request.url = r.url /\ Request.body = r.body
    BY <2>1 DEF Split
  <2>3. DOMAIN calls = 1..Len(calls) /\ Len(calls) \in Nat
    BY DEF CallsInv
  <2>4. named = ToldFields(calls, Len(calls))
    BY <2>3 DEF ToldFields
  <2>5. \A i \in named : calls[i + 1].cb = "header_value"
    <3>1. \A i \in 1..(Len(calls) - 1) :
              calls[i].cb = "header_field" => calls[i + 1].cb = "header_value"
      BY DEF CallsInv
    <3>. QED
      BY <2>4, <3>1 DEF ToldFields
  <2> HIDE DEF named
  <2>6. [n \in {calls[i].data : i \in named} |-> CString(calls[latest(n) + 1].data)]
            = KeptFields(calls, Len(calls))
    BY <2>4 DEF KeptFields, ToldAs
  <2>7. r.headers = KeptFields(calls, Len(calls))
    BY <2>1, Zenon DEF Stored
  <2>8. told("url") # {} => r.url = calls[Max(told("url"))].data
    BY <2>1, <2>3, Zenon DEF Stored, IsLatest, OfKind, Written
  <2>9. told("body") # {} => r.body = CString(calls[Max(told("body"))].data)
    BY <2>1, <2>3, Zenon DEF Stored, IsLatest, OfKind, Written
  <2>. QED
    BY <2>2, <2>5, <2>6, <2>7, <2>8, <2>9, Zenon DEF FieldsStored, named
<1>. QED
  BY <1>1, AlwaysCallsInv, PTL
=============================================================================
