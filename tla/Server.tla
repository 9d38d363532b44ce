------------------------------- MODULE Server -------------------------------
(***************************************************************************)
(* The event loop of server.c: accept_request, parse_request_data and      *)
(* response are the callbacks one libev thread invokes one at a time, and  *)
(* execute_cgi is a call of response during which a forked child runs      *)
(* concurrently with the parent.  Clients are the environment.             *)
(*                                                                         *)
(* Data is abstract: a request is a number of units, of which the first    *)
(* `url' carry the request line and the first `head' the headers, among    *)
(* them, if `length', one spelled "Content-Length"; the rest is the body.  *)
(* The parser rejects unit `bad' (0: none).  Parsing is a function of how  *)
(* many units had been read, because that is all parse_request is given.   *)
(***************************************************************************)
EXTENDS Integers, Sequences, FiniteSets

CONSTANTS
    Conns,          \* client connections (each is opened at most once)
    NoConn,         \* "no connection"
    Messages,       \* the requests clients may send
    BUFFER_SIZE,    \* units one read() returns at most
    Backlog,        \* DEFAULT_BACKLOG
    Limits,         \* how many descriptors an idle server may still open
    PeerResets,     \* clients may reset their connection
    ForkFails,      \* fork() may fail
    PagesVanish,    \* a page may be removed after access() has seen it
    LargePages      \* a page may be larger than a socket's send buffer

Targets == {"page", "missing", "cgi", "cgi_missing", "cgi_broken"}
IsCgi(t) == t \in {"cgi", "cgi_missing", "cgi_broken"}

MessageType ==
    [method : {"GET", "POST", "PUT"}, target : Targets, url : Nat \ {0},
     bad : Nat, head : Nat \ {0}, size : Nat \ {0}, length : BOOLEAN]

ASSUME NoConnAssumption == NoConn \notin Conns
ASSUME MessagesAssumption == Messages \subseteq MessageType
ASSUME BoundsAssumption ==
    /\ BUFFER_SIZE \in Nat \ {0}
    /\ Backlog \in Nat
    /\ Limits \subseteq Nat
    /\ PeerResets \in BOOLEAN
    /\ {ForkFails, PagesVanish, LargePages} \subseteq BOOLEAN
ASSUME FiniteAssumption == IsFiniteSet(Conns)

-----------------------------------------------------------------------------
(* What parse_request leaves in the http_request. *)

Requests ==
    [bad : BOOLEAN, method : {"", "GET", "POST", "PUT", "DELETE"},
     target : Targets, body : BOOLEAN, length : BOOLEAN]

\* request_new: everything zero; the empty path names the document root.
Blank == [bad |-> FALSE, method |-> "", target |-> "page",
          body |-> FALSE, length |-> FALSE]

\* The requests parse_request may make of the first n units of m.  A prefix is
\* not an error: without all of the url any target can come out of it, without
\* all of the headers their Content-Length may be missing.  No data at all
\* leaves method number 0, which is DELETE.
Parsed(m, n) ==
    IF n = 0 THEN {[Blank EXCEPT !.method = "DELETE"]}
    ELSE IF m.bad \in 1..n THEN {[Blank EXCEPT !.bad = TRUE]}
    ELSE [bad : {FALSE}, method : {m.method},
          target : IF n >= m.url THEN {m.target} ELSE Targets,
          body : {n > m.head},
          length : IF n >= m.head THEN {m.length} ELSE {m.length, FALSE}]

-----------------------------------------------------------------------------
VARIABLES
    limit,      \* descriptors the process may open (RLIMIT_NOFILE)
    msg,        \* msg[c]: the request the client behind c sends
    conn,       \* conn[c]: "unused", "backlog", "open" or "closed"
    backlog,    \* connections waiting in the listen queue
    rx,         \* rx[c]: units that arrived and were not read
    got,        \* got[c]: units read (data_len)
    eof,        \* connections whose client shut its side down
    reset,      \* connections whose client reset them
    req,        \* req[c]: the http_request of c
    rwatch,     \* connections whose read_watcher is started
    wwatch,     \* connections whose write_watcher is started
    pc,         \* what the one server thread does between two steps
    cur,        \* the connection it does it for
    child,      \* the forked child
    fds,        \* descriptors in use beyond those of an idle server
    leaked,     \* descriptors no one will ever close
    out         \* out[c]: the status lines written to c

netvars == <<msg, limit, backlog, rx, got, eof, reset>>
vars == <<msg, limit, conn, backlog, rx, got, eof, reset, req, rwatch, wwatch,
          pc, cur, child, fds, leaked, out>>

Open == {c \in Conns : conn[c] = "open"}

Init ==
    /\ msg \in [Conns -> Messages]
    /\ limit \in Limits
    /\ conn = [c \in Conns |-> "unused"]
    /\ backlog = <<>>
    /\ rx = [c \in Conns |-> 0]
    /\ got = [c \in Conns |-> 0]
    /\ eof = {}
    /\ reset = {}
    /\ req = [c \in Conns |-> Blank]
    /\ rwatch = {}
    /\ wwatch = {}
    /\ pc = "poll"
    /\ cur = NoConn
    /\ child = "none"
    /\ fds = 0
    /\ leaked = 0
    /\ out = [c \in Conns |-> <<>>]

-----------------------------------------------------------------------------
(* Clients and the kernel's side of a connection. *)

UNCHANGEDServer ==
    UNCHANGED <<req, rwatch, wwatch, pc, cur, child, fds, leaked, out>>

Connected(c) == conn[c] \in {"backlog", "open"} /\ c \notin reset

Connect(c) ==
    /\ conn[c] = "unused"
    /\ Len(backlog) < Backlog
    /\ conn' = [conn EXCEPT ![c] = "backlog"]
    /\ backlog' = Append(backlog, c)
    /\ UNCHANGED <<msg, limit, rx, got, eof, reset>>
    /\ UNCHANGEDServer

\* One more unit of the request arrives.
Send(c) ==
    /\ Connected(c)
    /\ c \notin eof
    /\ rx[c] + got[c] < msg[c].size
    /\ rx' = [rx EXCEPT ![c] = @ + 1]
    /\ UNCHANGED <<msg, limit, conn, backlog, got, eof, reset>>
    /\ UNCHANGEDServer

Shutdown(c) ==
    /\ Connected(c)
    /\ c \notin eof
    /\ eof' = eof \cup {c}
    /\ UNCHANGED <<msg, limit, conn, backlog, rx, got, reset>>
    /\ UNCHANGEDServer

Reset(c) ==
    /\ PeerResets
    /\ Connected(c)
    /\ reset' = reset \cup {c}
    /\ UNCHANGED <<msg, limit, conn, backlog, rx, got, eof>>
    /\ UNCHANGEDServer

-----------------------------------------------------------------------------
(* accept_request: with no free descriptor accept() fails, the callback     *)
(* returns and the connection stays in the listen queue.                    *)

\* Mutants of AcceptRequest: the connection stays in the queue it was taken
\* from; it is accepted in the middle of another callback; the youngest
\* connection is accepted first.
AcceptWithoutDequeue ==
    /\ pc = "poll"
    /\ backlog # <<>>
    /\ fds < limit
    /\ conn' = [conn EXCEPT ![Head(backlog)] = "open"]
    /\ rwatch' = rwatch \cup {Head(backlog)}
    /\ fds' = fds + 1
    /\ UNCHANGED <<msg, limit, backlog, rx, got, eof, reset, req, wwatch, pc, cur,
                   child, leaked, out>>

AcceptAnyTime ==
    /\ pc # "crashed"
    /\ backlog # <<>>
    /\ fds < limit
    /\ conn' = [conn EXCEPT ![Head(backlog)] = "open"]
    /\ rwatch' = rwatch \cup {Head(backlog)}
    /\ backlog' = Tail(backlog)
    /\ fds' = fds + 1
    /\ UNCHANGED <<msg, limit, rx, got, eof, reset, req, wwatch, pc, cur, child,
                   leaked, out>>

AcceptYoungest ==
    /\ pc = "poll"
    /\ backlog # <<>>
    /\ fds < limit
    /\ conn' = [conn EXCEPT ![backlog[Len(backlog)]] = "open"]
    /\ rwatch' = rwatch \cup {backlog[Len(backlog)]}
    /\ backlog' = SubSeq(backlog, 1, Len(backlog) - 1)
    /\ fds' = fds + 1
    /\ UNCHANGED <<msg, limit, rx, got, eof, reset, req, wwatch, pc, cur, child,
                   leaked, out>>

AcceptRequest ==
    /\ pc = "poll"
    /\ backlog # <<>>
    /\ fds < limit
    /\ LET c == Head(backlog) IN
          /\ conn' = [conn EXCEPT ![c] = "open"]
          /\ rwatch' = rwatch \cup {c}
    /\ backlog' = Tail(backlog)
    /\ fds' = fds + 1
    /\ UNCHANGED <<msg, limit, rx, got, eof, reset, req, wwatch, pc, cur, child,
                   leaked, out>>

-----------------------------------------------------------------------------
(* parse_request_data.  The socket blocks, so the do-while loop is left     *)
(* only by a read that returns less than BUFFER_SIZE.                       *)

Readable(c) == rx[c] > 0 \/ c \in eof \cup reset

\* The thread is in c's read(), and the read returns.
Reads(c) ==
    /\ \/ pc = "poll" /\ c \in rwatch
       \/ pc = "read" /\ cur = c
    /\ Readable(c)

\* Mutant of ReadFull: a short read counts as a full buffer.
ReadFullOrLess(c) ==
    /\ Reads(c)
    /\ rx[c] > 0
    /\ rx' = [rx EXCEPT ![c] = @ - BUFFER_SIZE]
    /\ got' = [got EXCEPT ![c] = @ + BUFFER_SIZE]
    /\ pc' = "read"
    /\ cur' = c
    /\ UNCHANGED <<msg, limit, conn, backlog, eof, reset, req, rwatch, wwatch, child,
                   fds, leaked, out>>

\* A full buffer: go round the loop and read again.
ReadFull(c) ==
    /\ Reads(c)
    /\ rx[c] >= BUFFER_SIZE
    /\ rx' = [rx EXCEPT ![c] = @ - BUFFER_SIZE]
    /\ got' = [got EXCEPT ![c] = @ + BUFFER_SIZE]
    /\ pc' = "read"
    /\ cur' = c
    /\ UNCHANGED <<msg, limit, conn, backlog, eof, reset, req, rwatch, wwatch, child,
                   fds, leaked, out>>

\* Mutants of ReadLast: the read watcher is not stopped; the write watcher is
\* not started.
ReadLastKeepsReading(c) ==
    /\ Reads(c)
    /\ rx[c] < BUFFER_SIZE
    /\ rx[c] > 0 \/ c \notin reset
    /\ rx' = [rx EXCEPT ![c] = 0]
    /\ got' = [got EXCEPT ![c] = @ + rx[c]]
    /\ \E r \in Parsed(msg[c], got[c] + rx[c]) : req' = [req EXCEPT ![c] = r]
    /\ wwatch' = wwatch \cup {c}
    /\ pc' = "poll"
    /\ cur' = NoConn
    /\ UNCHANGED <<msg, limit, conn, backlog, eof, reset, rwatch, child, fds, leaked,
                   out>>

ReadLastForgets(c) ==
    /\ Reads(c)
    /\ rx[c] < BUFFER_SIZE
    /\ rx[c] > 0 \/ c \notin reset
    /\ rx' = [rx EXCEPT ![c] = 0]
    /\ got' = [got EXCEPT ![c] = @ + rx[c]]
    /\ \E r \in Parsed(msg[c], got[c] + rx[c]) : req' = [req EXCEPT ![c] = r]
    /\ rwatch' = rwatch \ {c}
    /\ pc' = "poll"
    /\ cur' = NoConn
    /\ UNCHANGED <<msg, limit, conn, backlog, eof, reset, wwatch, child, fds, leaked,
                   out>>

\* The last read (of no unit, at end of file); parse what there is and answer
\* as soon as the socket is writable.
ReadLast(c) ==
    /\ Reads(c)
    /\ rx[c] < BUFFER_SIZE
    /\ rx[c] > 0 \/ c \notin reset
    /\ rx' = [rx EXCEPT ![c] = 0]
    /\ got' = [got EXCEPT ![c] = @ + rx[c]]
    /\ \E r \in Parsed(msg[c], got[c] + rx[c]) : req' = [req EXCEPT ![c] = r]
    /\ rwatch' = rwatch \ {c}
    /\ wwatch' = wwatch \cup {c}
    /\ pc' = "poll"
    /\ cur' = NoConn
    /\ UNCHANGED <<msg, limit, conn, backlog, eof, reset, child, fds, leaked, out>>

\* read() returns -1, which the loop uses as a length.
ReadFails(c) ==
    /\ Reads(c)
    /\ rx[c] = 0
    /\ c \in reset
    /\ pc' = "crashed"
    /\ cur' = c
    /\ UNCHANGED <<msg, limit, conn, backlog, rx, got, eof, reset, req, rwatch,
                   wwatch, child, fds, leaked, out>>

-----------------------------------------------------------------------------
(* response and what it calls. *)

\* Mutants of Finish: the write watcher is not stopped; the socket is not
\* closed.
FinishKeepsWatcher(c, held) ==
    /\ conn' = [conn EXCEPT ![c] = "closed"]
    /\ fds' = held - 1
    /\ pc' = "poll"
    /\ cur' = NoConn
    /\ UNCHANGED <<rwatch, wwatch>>

FinishKeepsSocket(c, held) ==
    /\ wwatch' = wwatch \ {c}
    /\ conn' = [conn EXCEPT ![c] = "closed"]
    /\ fds' = held
    /\ pc' = "poll"
    /\ cur' = NoConn
    /\ UNCHANGED rwatch

\* goto finish, with `held' descriptors open so far.
Finish(c, held) ==
    /\ wwatch' = wwatch \ {c}
    /\ conn' = [conn EXCEPT ![c] = "closed"]
    /\ fds' = held - 1
    /\ pc' = "poll"
    /\ cur' = NoConn
    /\ UNCHANGED rwatch

Crash(c, held) ==
    /\ pc' = "crashed"
    /\ cur' = c
    /\ fds' = held
    /\ UNCHANGED <<conn, rwatch, wwatch>>

\* Mutant of SendFileAndFinish: no `goto finish' after the answer.
SendFileAndStay(c, said, status, held) ==
    /\ held < limit
    /\ out' = [out EXCEPT ![c] = @ \o said \o <<status>>]
    /\ fds' = held
    /\ UNCHANGED <<conn, rwatch, wwatch, pc, cur>>

\* After the status lines `said', send_file answers with one more and the
\* callback finishes; without a free descriptor, or without the page that was
\* there a moment ago, its fopen() returns NULL.
SendFileAndFinish(c, said, status, held) ==
    \/ /\ held < limit
       /\ out' = [out EXCEPT ![c] = @ \o said \o <<status>>]
       /\ Finish(c, held)
    \/ /\ held >= limit \/ (PagesVanish /\ status = 200)
       /\ out' = [out EXCEPT ![c] = @ \o said]
       /\ Crash(c, held)

StaticStatus(r) ==
    IF r.bad THEN 400
    ELSE IF r.method \notin {"GET", "POST"} THEN 501
    ELSE IF r.target = "page" THEN 200 ELSE 404

RunsCgi(r) == ~r.bad /\ r.method \in {"GET", "POST"} /\ IsCgi(r.target)

RespondStatic(c) ==
    /\ pc = "poll"
    /\ c \in wwatch
    /\ ~RunsCgi(req[c])
    /\ SendFileAndFinish(c, <<>>, StaticStatus(req[c]), fds)
    /\ UNCHANGED netvars
    /\ UNCHANGED <<req, child, leaked>>

\* A page that the socket does not take at once: the thread is in send(), and
\* has the file open, until the client has read enough or is gone.
RespondLarge(c) ==
    /\ LargePages
    /\ pc = "poll"
    /\ c \in wwatch
    /\ ~RunsCgi(req[c]) /\ StaticStatus(req[c]) = 200
    /\ fds < limit
    /\ out' = [out EXCEPT ![c] = Append(@, 200)]
    /\ fds' = fds + 1
    /\ pc' = "send"
    /\ cur' = c
    /\ UNCHANGED netvars
    /\ UNCHANGED <<conn, req, rwatch, wwatch, child, leaked>>

SendRest ==
    /\ pc = "send"
    /\ Finish(cur, fds - 1)
    /\ UNCHANGED netvars
    /\ UNCHANGED <<req, child, leaked, out>>

\* There is no `goto finish' after the 404 of a script that cannot be run.
NotFound(r) == IF r.target = "cgi_missing" THEN <<404>> ELSE <<>>

CallsCgi(c) ==
    /\ pc = "poll"
    /\ c \in wwatch
    /\ RunsCgi(req[c])
    /\ UNCHANGED netvars
    /\ UNCHANGED req

\* The 404 itself needs a descriptor for its page.
NotFoundFails(c) ==
    /\ CallsCgi(c)
    /\ NotFound(req[c]) # <<>>
    /\ fds >= limit
    /\ Crash(c, fds)
    /\ UNCHANGED <<child, leaked, out>>

\* A pipe() or the fork() fails with `lost' descriptors open: execute_cgi
\* returns -1 without closing them and response answers 500.
ExecuteCgiFails(c) ==
    /\ CallsCgi(c)
    /\ NotFound(req[c]) # <<>> => fds < limit
    /\ \E lost \in {0, 2, 4} :
          /\ fds + lost <= limit
          /\ lost = 4 => ForkFails
          /\ lost < 4 => fds + lost + 2 > limit
          /\ leaked' = leaked + lost
          /\ SendFileAndFinish(c, NotFound(req[c]), 500, fds + lost)
    /\ UNCHANGED child

\* Both pipes and the fork succeed; the parent closes the child's two ends.
ExecuteCgi(c) ==
    /\ CallsCgi(c)
    /\ fds + 4 <= limit
    /\ out' = [out EXCEPT ![c] = @ \o NotFound(req[c])]
    /\ fds' = fds + 2
    /\ child' = "forked"
    /\ pc' = "relay"
    /\ cur' = c
    /\ UNCHANGED <<conn, rwatch, wwatch, leaked>>

\* The parent writes the body and then its 200; strlen(NULL) if there is none.
RelayCgi ==
    /\ pc = "relay"
    /\ LET r == req[cur] IN
          \/ /\ r.method = "POST" => r.body
             /\ out' = [out EXCEPT ![cur] = Append(@, 200)]
             /\ pc' = "wait"
          \/ /\ r.method = "POST" /\ ~r.body
             /\ pc' = "crashed"
             /\ UNCHANGED out
    /\ UNCHANGED netvars
    /\ UNCHANGED <<conn, req, rwatch, wwatch, cur, child, fds, leaked>>

\* Mutant of ReapCgi: the parent does not wait for the child.
LeaveCgi ==
    /\ pc = "wait"
    /\ Finish(cur, fds - 2)
    /\ UNCHANGED netvars
    /\ UNCHANGED <<req, child, leaked, out>>

\* End of file on the pipe, waitpid: the child is gone.
ReapCgi ==
    /\ pc = "wait"
    /\ child \in {"done", "failed"}
    /\ child' = "none"
    /\ Finish(cur, fds - 2)
    /\ UNCHANGED netvars
    /\ UNCHANGED <<req, leaked, out>>

-----------------------------------------------------------------------------
(* The child, concurrent with RelayCgi and with every client.               *)

\* POST without a "Content-Length" header spelled like that.
NoLength(r) == r.method = "POST" /\ ~r.length

\* Mutant of ChildExec: nothing is said after execl failed.
ChildExecSilent ==
    /\ child = "forked"
    /\ child' = IF NoLength(req[cur]) \/ req[cur].target # "cgi"
                THEN "failed" ELSE "script"
    /\ UNCHANGED netvars
    /\ UNCHANGED <<conn, req, rwatch, wwatch, pc, cur, fds, leaked, out>>

\* get_header_value dereferences NULL if there is no such header.  Otherwise
\* execl, and a 500 of the child's own if that fails.
ChildExec ==
    /\ child = "forked"
    /\ LET r == req[cur] IN
          \/ /\ NoLength(r)
             /\ child' = "failed"
             /\ UNCHANGED out
          \/ /\ ~NoLength(r)
             /\ r.target = "cgi"
             /\ child' = "script"
             /\ UNCHANGED out
          \/ /\ ~NoLength(r)
             /\ r.target # "cgi"
             /\ child' = "failed"
             /\ out' = [out EXCEPT ![cur] = Append(@, 500)]
    /\ UNCHANGED netvars
    /\ UNCHANGED <<conn, req, rwatch, wwatch, pc, cur, fds, leaked>>

\* The script itself (external code) ends.
ScriptExits ==
    /\ child = "script"
    /\ child' = "done"
    /\ UNCHANGED netvars
    /\ UNCHANGED <<conn, req, rwatch, wwatch, pc, cur, fds, leaked, out>>

-----------------------------------------------------------------------------
ParseRequestData(c) == ReadFull(c) \/ ReadLast(c) \/ ReadFails(c)
Response(c) == RespondStatic(c) \/ RespondLarge(c) \/ NotFoundFails(c)
               \/ ExecuteCgiFails(c) \/ ExecuteCgi(c)
Parent == RelayCgi \/ ReapCgi
Child == ChildExec \/ ScriptExits
Client(c) == Connect(c) \/ Send(c) \/ Shutdown(c) \/ Reset(c)

Next ==
    \/ AcceptRequest
    \/ \E c \in Conns : ParseRequestData(c) \/ Response(c)
    \/ SendRest
    \/ Parent
    \/ Child
    \/ \E c \in Conns : Client(c)

Spec == Init /\ [][Next]_vars

\* libev polls level-triggered and invokes every pending watcher of an
\* iteration, the kernel schedules both processes, a client sends its request
\* and reads its answer.
Fairness ==
    /\ WF_vars(AcceptRequest)
    /\ \A c \in Conns : /\ WF_vars(ParseRequestData(c))
                        /\ WF_vars(Response(c))
                        /\ WF_vars(Send(c))
    /\ WF_vars(SendRest)
    /\ WF_vars(Parent)
    /\ WF_vars(Child)

FairSpec == Spec /\ Fairness

-----------------------------------------------------------------------------
(* Properties. *)

\* Every variable has its type.
TypeOK ==
    /\ msg \in [Conns -> Messages]
    /\ limit \in Limits
    /\ conn \in [Conns -> {"unused", "backlog", "open", "closed"}]
    /\ backlog \in Seq(Conns)
    /\ rx \in [Conns -> Nat]
    /\ got \in [Conns -> Nat]
    /\ eof \subseteq Conns
    /\ reset \subseteq Conns
    /\ req \in [Conns -> Requests]
    /\ rwatch \subseteq Conns
    /\ wwatch \subseteq Conns
    /\ pc \in {"poll", "read", "send", "relay", "wait", "crashed"}
    /\ cur \in Conns \cup {NoConn}
    /\ child \in {"none", "forked", "script", "done", "failed"}
    /\ fds \in Int
    /\ leaked \in Nat
    /\ out \in [Conns -> Seq({200, 400, 404, 500, 501})]

\* The listen queue holds exactly the connections that wait to be accepted, each
\* once, and never more than listen was told.
QueueOK ==
    /\ Len(backlog) <= Backlog
    /\ \A i \in 1..Len(backlog) : conn[backlog[i]] = "backlog"
    /\ \A c \in Conns : conn[c] = "backlog" => \E i \in 1..Len(backlog) : backlog[i] = c
    /\ \A i, j \in 1..Len(backlog) : backlog[i] = backlog[j] => i = j

\* The watchers of the loop are exactly those of allocated requests: each open
\* connection has one of its two started, no freed request has any, and the
\* handler that is under way owns the watcher that called it.
OneWatcher ==
    /\ rwatch \cap wwatch = {}
    /\ rwatch \cup wwatch = Open
    /\ pc = "read" => cur \in rwatch
    /\ pc \in {"send", "relay", "wait"} => cur \in wwatch

\* A child process exists exactly while the handler that forked it runs, or is
\* left behind by it when the server dies there.
ChildOwned ==
    /\ pc \in {"relay", "wait"} => child # "none"
    /\ child # "none" => pc \in {"relay", "wait", "crashed"} /\ cur \in Open

\* Owned: whatever is to be done for a connection, exactly one party is to do it:
\* the listen queue, one of its two watchers, or the handler under way with its
\* child.
Owned == QueueOK /\ OneWatcher /\ ChildOwned

\* Every open descriptor is accounted for: one per open connection, the page
\* that is being sent, two pipe ends while a script runs, and those an
\* execute_cgi that failed forgot.
FdConservation ==
    fds = Cardinality(Open) + (IF pc = "send" THEN 1 ELSE 0)
            + (IF child = "none" THEN 0 ELSE 2) + leaked

\* What a connection has heard when it is closed, given what parse_request
\* made of it: one status line that fits the request, except that a script
\* which cannot be run is answered by response (404), by the parent of the
\* fork (200) and by the child (500), the last two in either order.
Answers(r) ==
    IF ~RunsCgi(r) THEN {<<StaticStatus(r)>>}
    ELSE {NotFound(r) \o <<500>>} \cup
         (IF r.target = "cgi" \/ NoLength(r)
          THEN {NotFound(r) \o <<200>>}
          ELSE {NotFound(r) \o <<200, 500>>, NotFound(r) \o <<500, 200>>})

AnswerConforms ==
    \A c \in Conns : conn[c] = "closed" => out[c] \in Answers(req[c])

\* How much of its answer each connection has heard: nothing before its
\* response starts; then, while a script runs, the 404, the parent's 200 once
\* it was sent and the child's 500 once execl failed, in the order sent.
ChildSaid ==
    IF child = "failed" /\ ~NoLength(req[cur]) THEN <<500>> ELSE <<>>

AnswerSoFar ==
    /\ \A c \in Conns :
          \/ conn[c] = "closed"
          \/ /\ conn[c] = "open" /\ c = cur
             /\ pc \in {"send", "relay", "wait", "crashed"}
          \/ out[c] = <<>>
    /\ pc = "send" => ~RunsCgi(req[cur]) /\ out[cur] = <<StaticStatus(req[cur])>>
    /\ pc \in {"relay", "wait"} =>
          /\ RunsCgi(req[cur])
          /\ child \in {"script", "done"} =>
                req[cur].target = "cgi" /\ ~NoLength(req[cur])
          /\ child = "failed" =>
                req[cur].target # "cgi" \/ NoLength(req[cur])
    /\ pc = "relay" => out[cur] = NotFound(req[cur]) \o ChildSaid
    /\ pc = "wait" => out[cur] \in {NotFound(req[cur]) \o <<200>> \o ChildSaid,
                                    NotFound(req[cur]) \o ChildSaid \o <<200>>}
    /\ pc = "crashed" =>
          Len(out[cur]) <= (IF child = "failed" THEN 2 ELSE 1)

\* AnswersFit: from the accept to the close a connection hears the status lines of
\* its answer, in the order in which the parent and the child may send them, and
\* no others.
AnswersFit == AnswerSoFar /\ AnswerConforms

\* Nothing is written to a connection after it was closed: the child never
\* outlives the handler that forked it, and no callback runs on a freed
\* request.
SilentAfterClose ==
    [][\A c \in Conns : conn[c] = "closed" => out'[c] = out[c]]_vars

\* While a request is read to the end, a page is sent or a script runs, the one
\* thread does nothing else: no other connection is read, answered, admitted or
\* closed.
OneAtATime ==
    [][(pc \in {"read", "send", "relay", "wait"}) =>
          /\ Open' \ {cur} = Open \ {cur}
          /\ \A c \in Conns \ {cur} :
                <<got'[c], out'[c], req'[c]>> = <<got[c], out[c], req[c]>>
      ]_vars

\* Everyone who connects is answered and let go.
EventuallyClosed ==
    \A c \in Conns : conn[c] = "backlog" ~> conn[c] = "closed"

\* README: "Parse HTTP request".  The request a response is made for is the one
\* its client sends, whole, as long as the client has not gone away.
ParsedWhole ==
    \A c \in wwatch :
        ~req[c].bad /\ c \notin eof \cup reset => got[c] = msg[c].size

\* The promise of SerialService, which this server keeps.
Service == INSTANCE SerialService WITH
    MaxLines <- 3,
    phase <- conn,
    queue <- backlog,
    said <- out,
    busy <- IF pc \in {"send", "relay", "wait", "crashed"} THEN cur ELSE NoConn,
    up <- pc # "crashed"

ServiceSpec == Service!Spec

\* What response waits for while execute_cgi runs, as ScriptRun has it.
Script == INSTANCE ScriptRun WITH
    handler <- CASE pc = "relay" -> "feeding"
                 [] pc = "wait" -> "relaying"
                 [] pc = "crashed" -> "dead"
                 [] OTHER -> "elsewhere",
    script <- CASE child = "none" -> "none"
                [] child \in {"forked", "script"} -> "running"
                [] OTHER -> "gone"

ScriptSpec == Script!Spec
=============================================================================
