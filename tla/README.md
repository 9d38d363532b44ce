# A TLA+ verification of cgi-http-server

The program is a small HTTP server: one libev event loop in one thread, a
request object per connection, static pages, and CGI scripts run by `fork` and
`execl`. The repository's README asks its reader to focus on `server.c` and
`http_request.*`; the other files (`http_parser.*`, `hashmap.*`, `log.*`) are
third-party libraries it ships in its own tree. Paths below are relative to
`src/src/`.

## Inventory

| component | state | operations | what makes it correct |
| --- | --- | --- | --- |
| event loop (`server.c`) | listen queue, one `http_request` per connection with a read and a write watcher, open descriptors | `accept_request`, `parse_request_data`, `response` (libev callbacks) | each connection has exactly one started watcher until it is freed; descriptors are accounted for; connections are admitted in order and answered one at a time; everyone is answered; nothing is written after a close |
| CGI execution (`server.c` `execute_cgi`) | two pipes, a child process, the relay buffer | `pipe`, `fork`, body to the script, status line, relay loop, `waitpid`; in the child `execl` or a 500 | the child is gone before the handler returns; parent and script do not wait for each other; the client gets the script's output |
| static pages (`server.c` `send_file`) | file position, end-of-file indicator, line buffer | headers, `fgets`/`send` until `feof` | what follows the headers is the file (as far as a C string can hold its lines) |
| request (`http_request.c`) | method, url, path, query, body, header map, the field a header value belongs to | `request_new`, `parse_request`, the parser's callbacks, `get_header_value`, `request_free` | every header and the whole body are stored (up to a NUL) |
| HTTP parser (`http_parser.c`) | state, header state, flags, content length, byte counts | `http_parser_execute`, `http_parser_pause`, `http_parser_parse_url` | accepts what the grammar allows however it is cut or paused, frames bodies, rejects overflow; splits a url into its parts |
| header map (`hashmap.c`) | buckets, count, capacity, out-of-memory flag | new, set, get, delete, scan, iter, probe, clear, free | a map: what was set is found, whatever grows, shrinks or fails |
| logger (`log.c`) | level, quiet flag, callback table, the user's lock | `log_log`, `log_add_callback`, `log_set_level`, ... | a record is written whole, once, in order, to exactly the sinks whose level it has |
| sample pages and scripts | | | data the program serves; not modelled |

How they interact: `main` starts one watcher on the listening socket. libev
calls `accept_request`, which makes a request with a started read watcher; then
`parse_request_data`, which reads the (blocking) socket until a read comes back
short, lets the parser fill in the request through its callbacks, stops the
read watcher and starts the write watcher; then `response`, which answers from
a file or through `execute_cgi`, stops the write watcher, closes the socket and
frees the request. Callbacks run to completion: whatever blocks in one of them
blocks everybody. The only concurrency with the thread is the forked child,
which shares the client's socket with its parent, and the clients themselves.
The logger is called once per answer and reads nothing of the rest; the server
sets no lock and has one thread, but `log.c` is written for several.

What is hard here: reads that block (a request of exactly 2048 bytes), writes
that block (a client that does not read), requests cut into segments, resets,
descriptors running out in the middle of a handler, the child and the parent
writing to one socket, two pipes that can fill up, a buffer used as a string
and never terminated, bytes sent and stored as C strings that a NUL ends,
an end-of-file loop that ignores its result, a hash table
whose growth test is an equality, and a parser of which every byte may be the
last of a call, with two ways to frame a body, header values continued on the
next line, counters that must not wrap, offsets of 16 bits that do, and a log whose settings change while
records are written. `PROJECT.json` lists these, each at its line.

## Modules

| module | what it is | code |
| --- | --- | --- |
| `SerialService` | abstract: arrivals admitted in order, one answer at a time, at least one status line before a close, silence after it; the server may die | promise of the whole server |
| `ScriptRun` | abstract: what the event loop and a script keep to while the script runs; `Server` and `CgiExec` both implement it | the contract between `response` and `execute_cgi` |
| `Server` | the event loop, its clients, descriptors, and `execute_cgi` and `send_file` seen from the loop | `server.c` 45-276, `http_request.c` 44-119 |
| `CgiExec` | `execute_cgi` after the fork, system call by system call, with bounded pipes and the relay buffer | `server.c` 211-276 |
| `SendFile` | `send_file`, one `fgets` at a time, while the file may grow | `server.c` 177-202 |
| `KeyedMap` | abstract map with an out-of-memory outcome and iteration | `hashmap.h` |
| `HashMap` | Robin Hood hashing with resizing | `hashmap.c` 60-445 |
| `HttpTokens` | the bytes the parser reads, as units; numbers of bounded width; the states of a url | `http_parser.c` 164-450, 493-638 |
| `HttpParser` | `http_parser_execute` for requests and responses, called for one piece of a stream after the other, paused and resumed | `http_parser.c` 641-2204, 2545-2558 |
| `HttpUrl` | `http_parser_parse_url` and the host part of it, over the same units | `http_parser.c` 2253-2544 |
| `HttpMessages` | reference: what a client sends for a request and what a listener should be told, without a parser | rules quoted in the comments of `http_parser.c` |
| `HttpRequest` | the callbacks and `parse_request`, composed with the parser; the url's path and query | `http_request.c` 31-97, 140-208 |
| `Log` | `log_log` in several threads, its lock, callbacks and settings | `log.c` 27-168 |
| `ServerProofs`, `CgiProofs`, `SendFileProofs`, `LogProofs`, `HashMapProofs`, `HttpParserProofs`, `HttpRequestProofs` | theorems about `Server`, `CgiExec`, `SendFile`, `Log`, `HashMap`, `HttpParser` and, the last, `HttpUrl` and `HttpRequest` | |
| `Positions` | lemmas most of them use: least and next positions with a property, distances on a ring, and functions that a step makes from their last value (iteration, counting) | |
| `MC...` | small constants for TLC | |

`Server`. A request is abstract: `size` units of which the first `url` hold the
request line and the first `head` the headers; `Parsed(m, n)` is what
`parse_request` may make of the first `n` units (a prefix is not an error: an
unfinished url names any file, a header not yet there is missing). `rwatch` and
`wwatch` are the started watchers, `pc` and `cur` what the thread is in the
middle of (`"poll"`: back in `ev_run`; `"read"`: in the read loop after a full
buffer; `"send"`: in `send_file`, its client's socket full; `"relay"`,
`"wait"`: in `execute_cgi`; `"crashed"`: the process died), `fds` counts
descriptors beyond those of an idle server and `leaked` those no variable of
the program refers to any more. A callback that neither blocks nor runs beside
a child is one action (`AcceptRequest`, `ReadLast`, `RespondStatic`); one that
can block is cut where it does (`ReadFull` loops, `RespondLarge` sends the
headers and `SendRest` finishes when the client reads,
`ExecuteCgi`/`RelayCgi`/`ReapCgi` interleave with `ChildExec` and
`ScriptExits`). A null pointer the code dereferences, a page that is gone when
it is opened (`PagesVanish`), and a read error used as a length, are modelled
as the death of the process. That is what the usual build does with them.

`CgiExec` refines the picture inside `"relay"` and `"wait"`: a script is any
sequence of reads and writes, `input` and `output` are the pipes, `buf` is the
relay buffer cell by cell. Both send
C strings: `CString(buf)` is what `strlen` leaves of the relay buffer
(`server.c` 261-264), which has no terminator of its own, so it ends at the
script's own first NUL, at one left from before, or beyond the buffer; `Told` is
what it leaves of a line of a page (185, 188). Units of the script's output and
of a file may be NULs; `pieces` and `starts`, history variables, say where a
`read` and an `fgets` began, which decides what a NUL hides (`Hidden`).
`SendFile` does so for `SendFileAndFinish`. `Server`
and `CgiExec` have no variable in common; what ties them is `ScriptRun`, which
each implements under a mapping of its own.

`HashMap` is separate: the server reaches it only through `hashmap_set` and
`hashmap_get` of header fields. `Put` and `Resized` are recursive functions of
the number of steps the probe or the copy has made, so the module has no
recursive operator. `Scan(n)` is `hashmap_scan`
with a callback that stops at the `n`-th item, `Iter` one call of
`hashmap_iter`, whose cursor is state. That a caller begins again at 0 after it
has changed the map is what the comment of `hashmap_iter` asks of it; the model
has only callers that do, so it says nothing of those that do not (nothing in the
repository iterates).

`HttpParser`. A unit is a character the parser tells apart, or a word it
matches letter by letter without calling anybody back (`"GET"`,
`"content_length"`, `"chunked"`): cuts fall between units, and what follows a
word may spoil it. An action is one pass through the switch of
`http_parser_execute`, for the unit at index `p`; an inner loop (over a name, a
value, a body) belongs to its pass. `redo` stands for `REEXECUTE`, `marks` for
the local pointers, `parser` for the structure. `http_parser_execute(n)` is a
call with the next `n` units, taking up the mark that the state calls for;
`EndOfPiece`, `Return` and `Error` end a call. `calls` are the callbacks of the
call, `heard` all of them with pieces of one element joined. `HttpMessages`
says what should be heard from the message, not from the machine, so the
comparison is between two descriptions. `HttpRequest` folds the callbacks of
`http_request.c` over `calls`: they do not touch the parser and return 0, so
there is nothing to interleave. For a response, a `Stream` carries what the
listener's `on_headers_complete` answers (0, 1: no body, 2: upgrade), and
whether it pauses the parser in every callback. `HttpUrl` is a fold over the
units of a url, started wherever a request line or a `CONNECT` may start one;
its offsets and lengths are cut to 16 bits as the code's are, by the constant
`UINT16_MAX`. `HttpRequest` asks it for the parts; its `CString` is what
`sprintf "%.*s"` keeps of a value and of a body (`http_request.c` 194, 206), all
of it before the first NUL (names and urls have none, the parser refuses them).

Three details of `http_parser.c` that are easy to smooth over are in the model.
In a list of codings or of connection options the byte is compared as
`LOWER(ch)` (1508), so a TAB is taken for a blank before the list, and inside an
element of it, but not after a comma, where it makes the parser give the list up
(`ValueUnit`). A status is any digits until it passes 999, in one word or digit by
digit (`FirstStatusCode`, `StatusCode`). And a request line that begins with the
first letter of a method, but is none, is told of as a message before it is
refused (`StartReq`, with `"HTTP/1.1"` for `"HEAD"`; `StartRes` and `ResH` the
other way round).

`Log`. A record is two writes to a sink, its head and its text, so that records
of two threads can mix if anything lets them. `Step(t)` is one step of `t` in
`log_log`; the settings change at any time, except that callbacks are
registered while nobody logs (the table is not protected: `log_add_callback`
takes no lock). `log_log` reads `L.quiet` and `L.level` once per call, some
time after it began: `seen[t]` collects the values they had since, a history
variable that only `Delivered` uses.

Names of mutants (definitions whose comment starts "Mutant") are plausible bugs
used to see that each property can fail; the specifications do not use them.

## Runs

| run | shows |
| --- | --- |
| `server` | all safety properties of `Server`, and that it implements `SerialService` and `ScriptRun` |
| `server_live` | everyone who connects is answered and closed, if clients read their answers |
| `server_full_buffer` | violation: a request of exactly `BUFFER_SIZE` bytes stops the server |
| `server_parsed` | violation: a request in two segments is answered after the first |
| `cgi_exec` | which scripts let `execute_cgi` return (exactly the conforming ones) and that parent and such a script never both wait, that of the output only a NUL and what one `read` returned behind it is lost, and that it implements `ScriptRun` |
| `cgi_stale` | violation: remains of the status line are relayed |
| `send_file` | what is sent is the file, each line up to its first NUL, and, exactly when the end of the file is met by an empty `fgets`, its last line again; and it ends |
| `hashmap` | the table's probing invariants, its load, its allocation, and that it implements `KeyedMap` |
| `http_parser` | however a stream is cut, the listener is told exactly its messages; wrong framing, wrong lengths and long heads are refused; whatever the streams are, callbacks come in order, assertions hold, every pass goes forward, a body is framed in one way and as long as was read for it; the request stored is what was told, which is the one sent, values and bodies up to their first NUL; the parts of a url whose offsets fit 16 bits are the url, in their places, and read right |
| `http_folded` | violation: a folded header field is one field and two `on_header_value`, of which the second is dropped |
| `http_codings` | violation: two Transfer-Encoding fields, `chunked` then another coding, are accepted as chunked |
| `log` | whatever settings change and threads interleave, records are whole and in order, each sink has exactly those it should have, and every call returns |

A property that is a conjunction of named parts is checked as one and proved part
by part: `Owned`, `AnswersFit`, `PageSent`, `WellSized`, `Serialized` and
`UrlRead` (theorems `ConnectionsOwned`, `AnswersAlwaysFit`, `PageIsSent`,
`AlwaysSized`, `RecordsSerialized`, `UrlsAreRead`).

The violation runs are the `findings` of `PROJECT.json`, each with the line of
the repository it contradicts. That a page may be sent with more bytes than its
Content-Length is no run of its own: `EndsTwice` says for which pages. Four
other disagreements between a comment and the code are recorded only here:
`execute_cgi` reports success for a script that could not be started
(`server.c` 275; nobody reads it); `hashmap_oom` forgets a failed
`hashmap_set` at the next `hashmap_delete` (`hashmap.c` 337; nobody asks); a TAB
after a comma is not the blank that "Skip lws" says is skipped (`http_parser.c`
1591 and 1626, see above), so that "Transfer-Encoding: x,<TAB>chunked" is
refused and the "close" of "Connection: keep-alive,<TAB>close" not seen; and the
loop over a port, whose characters "are already validated" (2526), reads others
in a url that is longer than 65535 bytes, because its offset has wrapped (2377).
The last two are in the model as the code has them: what `HttpMessages` expects
of such a TAB is stated there as the exception to the rules that it is
(`Elements`), and the properties of urls are about those whose offsets fit.

**Bounds.** Two clients are enough for every interaction of the event loop: the
thread holds one connection at a time, so a third can only wait as the second
does; nine kinds of request cover every branch of `response`, both sides of the
buffer size and every way to be cut. `Limits = {2, 5}`: with five descriptors
two clients can be open and one `execute_cgi` fail at the first pipe, the
second pipe or the fork, with two a page or the 404 cannot be opened. Clients
differ only in the request each draws, so the two are symmetric; a page may be
larger than what a socket takes, and may vanish, in `server`.
`CgiExec` runs all 364 scripts of up to five calls against four body lengths
with pipes of one and three units, so both pipes fill. `SendFile` runs all
files of up to five units (line feeds, NULs and others) with lines shorter than,
equal to and longer than the buffer, growing by two. In `CgiExec` each unit of
the output may be a NUL. `HashMap` runs four keys with three hash functions (all
in one bucket at the end of the table, two adjacent buckets, collisions at some
sizes), with two interchangeable values, through tables of two to eight
buckets; the capacity 16 and the percentages 75 and 10 of the code are the
constants `MinCap`, `GrowPercent` and `ShrinkPercent`, scaled down so that a
few items make the table grow and shrink.

`HttpParser` runs some 5700 streams in pieces of a few sizes (one, two, five
units, or the rest) in any mixture; for most of them every unit is the last of a
piece in some behaviour, and every element is cut in two and more. Requests have
every pair of framing fields (right and wrong lengths, folded, repeated, beside
a coding), lists of connection options and codings with the word first, last,
continued or spoilt, every version, method and end of line, before a second
request or alone. Responses have the same fields, every version, the status
codes that frame differently, each answer of `on_headers_complete`, and bodies
that end with the stream. Some of both are also read by a listener that pauses
in every callback and is resumed, some by a parser that has to find out from the
first line what it reads, and three streams have each unit in turn dropped or
replaced by each of eight others. Urls, in one piece: all combinations of
present, absent and odd parts, and every string of up to three of ten units at
each of the three places where a url may begin. Pausing listeners get only heads
that are short enough: a paused parser forgets how much of a head it has
counted, so it refuses none that is too long (`http_parser.c` 2551).

TABs stand at the start of values, at their end, alone, and before and after
commas of lists, also where the body is in chunks although its coding is hidden
behind one; NULs in bodies, and, by damage, anywhere. A
path is as long as its 16-bit length can say, and longer by one; an authority so
long that the offset of its port is the last that fits, or wraps (what is stated
of urls is about those that fit). Statuses come
in any one to three parts of digits.

Numbers have four bits (`ULLONG_MAX =
15`, `UINT16_MAX = 15`), decimal digits are three and hexadecimal ones four, so a length of three
digits overflows. The parser's test is conservative: it refuses some lengths
just below its maximum (in the code, those above 18446744073709551609). These
constants are chosen, like the streams, so that no length lies in that gap, and
`Accepts` is not about it. `MaxHeaderSize = 22` is passed by one long name,
value or url, and by some heads with two fields. `MaxPort = 7` is passed by a
port of two digits.

`Log` runs two threads that make two calls in all, so both log at once or one
after the other, at the two sides of one level; a table of two callbacks is
filled, overfilled, and given the same file twice; every setting may change
between any two steps.

**Fairness.** `Server`: libev polls level-triggered and calls every pending
watcher of an iteration, so no ready callback is put off for ever; the kernel
schedules parent and child; a client sends the request it began (`WF(Send)`)
and reads the answer it asked for (`WF(SendRest)`; one that does not keeps the
only thread in `send`, and everybody waits), scripts end (`CgiExec` says which
do). No client needs to shut down or reset, so nothing is assumed of these.
`CgiExec` and `SendFile` only assume that the processes are scheduled. `Log`:
threads run, and the lock is fair in the weak sense that a thread gets it if it
is free again and again (`SF(Lock)`); whoever holds it lets go of it.
`HttpParser` has no fairness and no liveness property: that a call returns is
the action property `GoesForward` (no pass goes back, and a rank of the states
falls with each pass that takes no unit), and `Accepts` says what must have been
told by then.
`server_live` excludes, by its constants, what the violation runs show to be
fatal (reads that come back exactly full, bodies cut off, resets, exhausted
descriptors); liveness does not hold with them.

Deadlock checking is off in every run: each of these systems may legitimately
stop (all clients served, the script done, the map freed) or is shown to die.

## Proofs

Every theorem holds for every value of the constants that the named assumptions
admit, and these ask for no more than the code does: that the null values are
none of the others, that sizes are natural numbers, that pipes hold something,
that buffers have room for a unit and its terminator (`MessagesAssumption`,
`BoundsAssumption`, `NoConnAssumption` and `FiniteAssumption` of `Server`,
`CgiExecAssumption`, `SendFileAssumption`, `LogAssumption`). `HashMapAssumption`
also asks that a table of twice the least capacity has room for an item before
it grows (in the code, 2 * 16 buckets and 75 per cent): a map that may grow
before its first item would probe a full table. `StreamsAssumption` says that a
stream is a sequence of units and a piece is not empty, `NumbersAssumption`
that a number holds more than one digit.

About `Server`, for any set of clients, requests, and any limits:

- `TypeCorrect`: `Spec => []TypeOK`.
- `Queueing`, `WatcherDiscipline`, `ChildrenReaped`, `Descriptors` (the
  invariants `QueueOK`, `OneWatcher`, `ChildOwned`, which a run checks together
  as `Owned`, and `FdConservation`), from the inductive invariant `IInv` of
  `ServerProofs`, which is all of them with `TypeOK`. None is inductive without
  the others: that a watcher belongs to an open connection needs that the queue
  holds waiting connections, each once;
  that the count of descriptors is right needs to know when there is a child
  and that the connection being handled is open, because closing one subtracts
  exactly one from the cardinality of the open ones.
- `Silence` and `OneHandler`: the action properties `SilentAfterClose` and
  `OneAtATime`. Every action that writes holds a watcher or a child of an open
  connection; while a handler is blocked every other action belongs to the
  clients.
- `AnswersGrow` and `Answered` (`AnswerSoFar`, `AnswerConforms`), from `AInv`
  in `ServerProofs`: what a connection has heard when it is closed depends on
  what it had heard at each point of `execute_cgi`, in both orders of parent
  and child.
- `ServerImplementsService`: `Spec => ServiceSpec`, a refinement with a mapping
  that reads `busy` off `pc` and `cur` and `up` off `pc`; one lemma per action
  shows it to be an action of `SerialService` or a stutter.
- `ServerImplementsScriptRun`: `Spec => ScriptSpec`.

About `CgiExec`, for any scripts, bodies, pipe capacities and buffer size:

- `TypeCorrect`, from `TypeInv`: with the types, what was written was first
  produced by the script (`written < next`), and `execute_cgi` is done only
  after the script is. The step that needs work is `Relay`: whatever string the
  unterminated buffer is taken for, and wherever a NUL ends it, it consists of
  units that were there.
- `OutputReachesClient`: `NothingLost`, which says which units are lost (those that
  are NUL or came in one `read` behind one) and that all others were sent, in
  order. It follows from `LostInv`: the units in
  the pipe are the next ones the script wrote, in order, and nothing later than
  what was read is in the buffer or was sent; so a unit is sent for the first
  time after all earlier ones.
- `ExecuteCgiImplementsScriptRun`: `RunSpec`.
- `ReturnsOnlyForConforming` and `NeverDeadlocks` (`ReturnsOnlyIfConforming`,
  `NoDeadlock`): the safety halves of "`execute_cgi` returns exactly from a
  conforming script". Both follow from `CallsInv`: the calls a script has made
  account for what is in the two pipes, and a script that has written more than
  its pipe holds had, at that point, no more of the body unread than the other
  pipe holds, because the parent does not read before it has written all of it.
  `ENABLED` is out of the prover's reach, so `NoDeadlock` spells out when the
  parent and when the script can move (`ParentCanMove`, `ScriptCanMove`). The
  half that needs fairness, `ReturnsIfConforming`, is TLC's.

About `SendFile`, for any file, NULs included, growing by any amount: `TypeCorrect`,
`SendsTheFile` (`SentIsFile`) and `EndSentTwice` (`EndsTwice`), from `LoopInv`,
which says where the position stands before the loop, inside it and when the
end was met. What was sent is compared with the lines read, each cut at its first
NUL (`Told`): a line shows exactly its units that are not `Hidden`, so that a
line sent shows them, and one sent again shows them again.

About `Log`, for any threads, files, levels, table size and number of calls:

- `TypeCorrect`: a thread that is writing is at a used slot of the table
  (`IndexOK`) and holds the lock (`MutexOK`).
- `RecordsWhole` (`WholeRecords`), from `RecordInv`: all sinks have whole pairs
  of writes except the one its lock holder is writing to, whose last write is
  that thread's head.
- `RecordsInOrder` (`InOrder`), from `OrderInv`: the calls of a thread are
  numbered, no sink knows a call that has not begun, and what two sinks have
  both heard they have heard in one order. The part that is not in `InOrder` is
  about the lock: the holder's record is the last of every sink that has it, so
  appending it to one more sink cannot put it before anything else.
- `RecordsDelivered` (`Delivered`), from `DeliveryInv`, which says for a call
  at each point of `log_log` which slots of the table are behind it and what
  each of their sinks got from it, in terms of the settings it has or may have
  read (`seen`).

About `HashMap`, for any keys and values, any hash functions, and any
capacities and percentages:

- `TypeCorrect`, `AlwaysRobinHood`, `AlwaysLoad`, `AlwaysWithinAllocation` (the
  invariants `TypeOK`, `RobinHood`, `Load`, `WithinAllocation`), from the
  inductive invariant `MapInv`: the table has the size the capacity says and as
  many items as are counted; there is always an empty bucket; each item's
  distance is how far it is from where its hash points; keys differ; and
  distances rise by at most one from a bucket to the next. The last is what
  makes the early end of an unsuccessful probe right, and the empty bucket what
  makes every probe end.
- `ImplementsMap`: `Spec => MapSpec`. One lemma per operation shows it to be
  the operation of `KeyedMap` or, without memory, the outcome the abstract map
  allows then: a probe finds an item exactly when the table has it, an insertion
  that swaps its way along the table loses nobody, a deletion that shifts
  buckets back removes one, and a rehashing keeps what there was.
  A loop of the C code is a bounded iteration; "it holds before every pass"
  is argued with the least pass at which it does not (`Counting` and
  `Iteration` of `Positions`), because the library's induction theorems cannot
  be instantiated here.

About `HttpParser`, for any streams of any length, cut and paused in any way,
any sizes of numbers and any limit on heads:

- `TypeCorrect`, `CallbacksInOrder`, `AssertionsHold` (the invariants `TypeOK`,
  `CallbackOrder`, `Assertions`), from the inductive invariant `ParserInv`.
  The guard of an action only sees the state of the parser; the invariant says
  what each state implies: what the listener was told last (`Telling`), which
  element is marked (`MarkedIn`), what is left of a body or chunk (`Framed`)
  and that no more was counted than is allowed (`Counts`). There is one lemma
  per action, with those for a callback, a return and a pause under them. The
  lemma `NoOverflow` says that the test before a digit is added is enough for
  every number that is wide enough for one digit.

- `HeadsBounded` (`HeadBounded`), from `HeadInv`: in every state in which a head
  or a trailer is read, what has been told of it, with what is marked of it up
  to `p`, is never more than `nread`. None of it can be left out: an element
  that is cut between two pieces was counted before it is told, an inner loop
  counts a whole run of units and tells them later, and a unit looked at again
  (`redo`) was counted the first time, before it is part of anything (`One`).
  `ParserInv` bounds the count. The sum of what was told is a recursive function
  of `heard`; its values are handled through `Sizes`, whose functions exist by
  `Iteration`, and a callback appends one value or changes the last.
- `CallsGoForward` (`GoesForward`), from `ParserInv`: one lemma per action says
  that the position rises or, at the same unit, the rank `Looks` of the state
  falls. It is not clear from the code: a byte is looked at again after
  `REEXECUTE`, when `s_body_identity` gives the last byte of a body back to
  `s_message_done`, and when a callback pauses and the caller resumes at the
  byte that was not consumed. `Position` is therefore counted over calls.
- `FramedOneWay` (`OneFraming`), from `ParserInv` and `FramingOK`, which says
  what the fields read so far imply: `F_CHUNKED` and the header states of a
  coding only with `uses_transfer_encoding`; a length other than `ULLONG_MAX`,
  and the state in which its digits are read, only with `F_CONTENTLENGTH`; and
  no head is finished with both. The decision at `s_headers_done` is sound only
  with all of these, since the fields that it looks at were set one at a time.
- `BodiesAsLong` (`BodyAsDeclared`), from `BodyInv`: with those two, that the
  mark of a body is not ahead of `p`. What was told of a body is split between
  `heard` and what is marked in this piece (`BodySoFar`), and `content_length`
  counts down what is left; `Accounts` says that no step changes their sum and
  that the state is left only with nothing left, in a pause as well.

About `HttpUrl`, for any url whose offsets fit 16 bits (in the code, one of up to
65535 bytes; the fields of a longer one are where its wrapped offsets say):

- `FieldsOfUrl` (`FieldsPlaced`), from the lemma `UrlIsPlaced`, which says of any
  sequence of units that, if `http_parser_parse_url` does not refuse it, its
  fields lie in it, none empty, in order, and nothing but delimiters is left
  out. `Walked` says what is known after each unit of the url and `HostWalked`
  after each unit of the host; both are made of `Laid`, the fields found so far
  and where they are. A unit is a delimiter, continues the last field or begins
  a later one (`LaidDelimiter`, `LaidExtend`, `LaidBegin`), whichever of the two
  machines reads it. The host is read twice, so `LaidTogether` puts the parts
  found the second time in the place the host had. That the recursive functions
  have values at all is proved from their beginnings (`UrlWalkExists`,
  `HostWalkExists`), with `Counting`. That the url told is a sequence comes from
  `ParserInv`. `NextFits` and `Fits16` show that no offset and no length wraps
  while the walk is inside such a url.
- `FieldsAreRead` (`FieldsRead`): no field holds a unit that would have ended it
  (`Clean`, carried in `Walked` and `HostWalked`), and the port that is told is
  the number its digits stand for, or the url is refused. The loop over the port
  does not test that it reads digits: `Clean` is why it does.

About `HttpRequest`, for any streams and pieces:

- `FieldsAreStored` (`FieldsStored`): what `struct http_request` holds after the
  callbacks of a call is what they told, the last value of each name and nothing
  besides, values and bodies cut at their first NUL (`Written`). `CallsInv` says of the parser that each name is told once in a call
  and its value comes next: only a pass in `s_header_field` tells a name, it
  leaves that state when the name is whole, and when the piece ends in the name
  it is the last callback of the call. Given that, the
  fold over the callbacks is followed one by one (`StepStored`), with `Counting`
  over their number; `AfterExists` shows that the recursive function is one.
  `last_call_was_on_header_field` and the name kept with it are the part of the
  invariant that is not in the property.

TLC checks each inductive invariant of a specification, with the quantifiers
over `Nat` cut off, on the states of a run: `IInv` and `AInv` on the 1491282 that
`server` has without its symmetry, `LostInv` and `CallsInv` on the 52123 of
`cgi_exec`, `LoopInv` on the 30751 of `send_file`, `MapInv` on the 77691 of
`hashmap`, `ParserInv`, `HeadInv`, `BodyInv` and the other `CallsInv` on the
611833 of `http_parser`, `RecordInv`, `OrderInv` and `DeliveryInv` on the 171980
of `log`. Of the walks over a url it checks the results, `FieldsPlaced` and
`FieldsRead`.

Model-checked only: liveness (`EventuallyClosed`, `Ends`,
`ReturnsIfConforming`, `EveryCallReturns`), which is out of the prover's
reach; and `TellsTheMessage`, `Accepts`, `Refuses`, `StoresTheRequest` and
`UrlParts`, which compare the parser with what `HttpMessages` and the run's
streams say of each message. The streams are a constant, and what is told of
one is a recursive function of how it was made, so a proof would be an
induction over their data.

## Not modelled

`run_serve` and the first lines of `main` (start-up, before any event); memory
exhaustion outside the hash map; the text of pages, headers and log records;
hash values (`hashmap_sip`, `hashmap_murmur`: any function will do); the sample
pages and scripts.

Of `http_parser.c`: callbacks that fail (none of the server's does), the
lenient switches (never set), `http_parser_settings_init`, the tables of names,
and further calls after the one that told the parser of the end of the stream.
Inside a word the letters are not told apart, so a cut in the middle of a
keyword is not explored; nor is the detail that the inner loop over a value
stops counting exactly at a multiple of `max_header_size`. Two behaviours are
in the model but not in the streams of the passing runs, because the rules they
are compared with say otherwise: a field whose name merely begins with
Transfer-Encoding counts as one (a hazard), and a later Transfer-Encoding field
does not take back an earlier `chunked` (the run `http_codings`).

Of `http_request.c`: the fixed sizes of the fields, and memory. `Server` keeps
its own abstract `Parsed`: it needs when a request is complete, not how.

Of `log.c`: registration of callbacks while somebody logs. Nothing in the file
protects the table, so it is for the embedder to do first.

## Plan

1. Done: `SerialService`, `Server`, `ScriptRun`, `CgiExec`, `SendFile`, `Log`
   and their theorems.
2. Done: `KeyedMap`, `HashMap`, `HttpTokens`, `HttpParser`, `HttpMessages`,
   `HttpUrl`, `HttpRequest`.
3. Done: `HashMapProofs`, `HttpParserProofs`, `HttpRequestProofs`, and the rest
   of `LogProofs`; of `CgiProofs`, what a script and its parent wait for; of the
   parser, that it goes forward, frames in one way and to the length, and that
   the request stored is what it told.
4. Keywords letter by letter, in a small run of `HttpParser` of their own, so
   that cuts inside them are explored.
