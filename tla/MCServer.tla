------------------------------ MODULE MCServer ------------------------------
(* Small clients and requests for Server. *)
EXTENDS Server, TLC

\* Clients differ only in what they send, which is chosen for each.
Clients == Permutations(Conns)

Msg(method, target, url, head, size, bad, length) ==
    [method |-> method, target |-> target, url |-> url, bad |-> bad,
     head |-> head, size |-> size, length |-> length]

\* Requests that arrive in one piece, of every kind that is answered.
Get(target) == Msg("GET", target, 1, 1, 1, 0, FALSE)
Post(target) == Msg("POST", target, 1, 1, 2, 0, TRUE)

\* A request that spans two reads, one that is cut before its url and body,
\* one the parser rejects, and a POST without a usable Content-Length.
LongGet == Msg("GET", "missing", 1, 3, 3, 0, FALSE)
CutPost == Msg("POST", "cgi", 2, 2, 3, 0, TRUE)
Junk == Msg("GET", "page", 1, 1, 1, 1, FALSE)
Bare == Msg("POST", "cgi", 1, 1, 3, 0, FALSE)
Put == Msg("PUT", "cgi", 1, 1, 1, 0, FALSE)

MCMessages ==
    {Get("page"), Get("cgi"), Get("cgi_missing"), Post("cgi_broken"),
     LongGet, CutPost, Junk, Bare, Put}

\* No body can be cut off and no read comes back exactly full.
MCWholeMessages ==
    {Get(t) : t \in Targets} \cup {LongGet, Junk, Put}

\* A GET of exactly BUFFER_SIZE units.
MCFullBuffer == {Msg("GET", "page", 1, 2, 2, 0, FALSE)}
=============================================================================
