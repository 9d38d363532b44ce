------------------------------ MODULE CgiExec ------------------------------
(***************************************************************************)
(* execute_cgi of server.c once the fork succeeded: the parent and the     *)
(* script it started, joined by two bounded pipes.  The parent writes the  *)
(* whole body, sends its status line, relays the script's output until end *)
(* of file and only then closes the pipe the script reads from.  A script  *)
(* is a sequence of system calls; its k-th write produces unit k, which    *)
(* may be a NUL.                                                           *)
(*                                                                         *)
(* Units are bytes.  The relay buffer is sent as a C string: a cell is a   *)
(* unit of the script's output, NUL, or a byte of the status line.         *)
(***************************************************************************)
EXTENDS Integers, Sequences, FiniteSets, SequencesExt

CONSTANTS
    Scripts,        \* the scripts that may be run
    Bodies,         \* lengths of request bodies
    InCapacity,     \* capacity of the pipe to the script
    OutCapacity,    \* capacity of the pipe from the script
    BUFFER_SIZE,    \* size of the relay buffer
    StatusLength    \* length of the parent's "HTTP/1.0 200 OK" line

Calls == {"read", "read_to_eof", "write"}

ASSUME CgiExecAssumption ==
    /\ Scripts \subseteq Seq(Calls)
    /\ Bodies \subseteq Nat
    /\ {InCapacity, OutCapacity, BUFFER_SIZE} \subseteq Nat \ {0}
    /\ StatusLength \in 0..(BUFFER_SIZE - 1)

NUL == 0
STATUS == -1        \* a byte of the status line
JUNK == -2          \* a byte from beyond the buffer

VARIABLES
    script,         \* the script that runs
    body,           \* the length of the request body
    parent,         \* what the parent does next
    fed,            \* body units the parent wrote
    next,           \* index of the script's next call
    alive,          \* the script has not exited
    input,          \* units in the pipe to the script
    output,         \* the units in the pipe from the script
    written,        \* units the script wrote
    nuls,           \* those of them that are NUL
    buf,            \* the relay buffer
    pieces,         \* the units with which what a read() returned began
    sent            \* the units the client was sent after the status line

scriptvars == <<script, body, next, alive, written, nuls>>
vars == <<script, body, parent, fed, next, alive, input, output, written, nuls, buf,
          pieces, sent>>

Init ==
    /\ script \in Scripts
    /\ body \in Bodies
    /\ parent = "body"
    /\ fed = 0
    /\ next = 1
    /\ alive = TRUE
    /\ input = 0
    /\ output = <<>>
    /\ written = 0
    /\ nuls = {}
    /\ buf = [i \in 1..BUFFER_SIZE |-> NUL]
    /\ pieces = {}
    /\ sent = <<>>

-----------------------------------------------------------------------------
(* The parent. *)

\* Mutant of WriteBody: the pipe is never full.
WriteBodyUnbounded ==
    /\ parent = "body"
    /\ \/ /\ fed < body /\ alive
          /\ fed' = fed + 1
          /\ input' = input + 1
          /\ UNCHANGED parent
       \/ /\ fed = body \/ ~alive
          /\ parent' = "status"
          /\ UNCHANGED <<fed, input>>
    /\ UNCHANGED scriptvars
    /\ UNCHANGED <<output, buf, pieces, sent>>

\* Mutant of WriteBody: write() does not block, and what does not fit is dropped.
WriteBodyDrops ==
    /\ parent = "body"
    /\ \/ /\ fed < body /\ alive
          /\ fed' = fed + 1
          /\ input' = IF input < InCapacity THEN input + 1 ELSE input
          /\ UNCHANGED parent
       \/ /\ fed = body \/ ~alive
          /\ parent' = "status"
          /\ UNCHANGED <<fed, input>>
    /\ UNCHANGED scriptvars
    /\ UNCHANGED <<output, buf, pieces, sent>>

\* write() blocks while the pipe is full; with no reader left it fails and the
\* parent, which ignores SIGPIPE and the result, goes on.
WriteBody ==
    /\ parent = "body"
    /\ \/ /\ fed < body /\ alive /\ input < InCapacity
          /\ fed' = fed + 1
          /\ input' = input + 1
          /\ UNCHANGED parent
       \/ /\ fed = body \/ ~alive
          /\ parent' = "status"
          /\ UNCHANGED <<fed, input>>
    /\ UNCHANGED scriptvars
    /\ UNCHANGED <<output, buf, pieces, sent>>

\* The status line is put together in the relay buffer.
SendStatus ==
    /\ parent = "status"
    /\ buf' = [i \in 1..BUFFER_SIZE |-> IF i <= StatusLength THEN STATUS ELSE NUL]
    /\ parent' = "relay"
    /\ UNCHANGED scriptvars
    /\ UNCHANGED <<fed, input, output, pieces, sent>>

\* How many units of the output the parent has read.
Read == written - Len(output)

\* The position of the first x in s, 0 if there is none.
First(s, x) == SelectInSeq(s, LAMBDA y : y = x)

\* What send(buf, strlen(buf)) sends: up to the first NUL, or, with none in the
\* buffer, whatever follows it.
CString(b) ==
    LET end == First(b, NUL)
    IN  IF end > 0 THEN {SubSeq(b, 1, end - 1)} ELSE {b, Append(b, JUNK)}

\* Mutant of Relay: what does not fit in the buffer is dropped.
RelayDropsRest ==
    /\ parent = "relay"
    /\ output # <<>>
    /\ LET n == IF Len(output) < BUFFER_SIZE THEN Len(output) ELSE BUFFER_SIZE
       IN  buf' = [i \in 1..BUFFER_SIZE |-> IF i <= n THEN output[i] ELSE buf[i]]
    /\ output' = <<>>
    /\ pieces' = pieces \cup {Read + 1}
    /\ \E s \in CString(buf') : sent' = sent \o s
    /\ UNCHANGED scriptvars
    /\ UNCHANGED <<parent, fed, input>>

\* read() returns what there is, up to a full buffer, and adds no NUL; what is
\* sent ends before the first NUL of the script's own.
Relay ==
    /\ parent = "relay"
    /\ output # <<>>
    /\ LET n == IF Len(output) < BUFFER_SIZE THEN Len(output) ELSE BUFFER_SIZE
       IN  /\ buf' = [i \in 1..BUFFER_SIZE |-> IF i <= n THEN output[i] ELSE buf[i]]
           /\ output' = SubSeq(output, n + 1, Len(output))
    /\ pieces' = pieces \cup {Read + 1}
    /\ \E s \in CString(buf') : sent' = sent \o s
    /\ UNCHANGED scriptvars
    /\ UNCHANGED <<parent, fed, input>>

\* Mutant of Close: an empty pipe is taken for the end of file.
CloseOnEmpty ==
    /\ parent = "relay"
    /\ output = <<>>
    /\ parent' = "done"
    /\ UNCHANGED scriptvars
    /\ UNCHANGED <<fed, input, output, buf, pieces, sent>>

\* End of file: close both pipes, then waitpid.
Close ==
    /\ parent = "relay"
    /\ output = <<>>
    /\ ~alive
    /\ parent' = "done"
    /\ UNCHANGED scriptvars
    /\ UNCHANGED <<fed, input, output, buf, pieces, sent>>

-----------------------------------------------------------------------------
(* The script (external code, any sequence of calls). *)

Calling(call) == alive /\ next <= Len(script) /\ script[next] = call

ScriptUnchanged == UNCHANGED <<script, body, parent, fed, buf, pieces, sent>>

\* read() of one unit.  It blocks on an empty pipe as long as the parent holds
\* the other end, and the parent does until the script is gone: no script ever
\* reads an end of file.
ScriptReads ==
    /\ Calling("read") \/ Calling("read_to_eof")
    /\ input > 0
    /\ input' = input - 1
    /\ next' = IF Calling("read") THEN next + 1 ELSE next
    /\ ScriptUnchanged
    /\ UNCHANGED <<alive, output, written, nuls>>

\* write() of one unit, which blocks on a full pipe.
ScriptWrites ==
    /\ Calling("write")
    /\ Len(output) < OutCapacity
    /\ written' = written + 1
    /\ \/ output' = Append(output, written + 1) /\ UNCHANGED nuls
       \/ output' = Append(output, NUL) /\ nuls' = nuls \cup {written + 1}
    /\ next' = next + 1
    /\ ScriptUnchanged
    /\ UNCHANGED <<alive, input>>

ScriptExits ==
    /\ alive
    /\ next > Len(script)
    /\ alive' = FALSE
    /\ ScriptUnchanged
    /\ UNCHANGED <<next, input, output, written, nuls>>

-----------------------------------------------------------------------------
Parent == WriteBody \/ SendStatus \/ Relay \/ Close
Script == ScriptReads \/ ScriptWrites \/ ScriptExits

Next == Parent \/ Script

\* The kernel schedules both processes.
Spec == Init /\ [][Next]_vars /\ WF_vars(Parent) /\ WF_vars(Script)

-----------------------------------------------------------------------------
(* Properties. *)

\* Every variable has its type and the pipes keep within their capacity.
TypeOK ==
    /\ script \in Scripts
    /\ body \in Bodies
    /\ parent \in {"body", "status", "relay", "done"}
    /\ fed \in 0..body
    /\ next \in 1..(Len(script) + 1)
    /\ alive \in BOOLEAN
    /\ input \in 0..InCapacity
    /\ output \in Seq({NUL} \cup 1..Len(script)) /\ Len(output) <= OutCapacity
    /\ written \in 0..Len(script) /\ nuls \subseteq 1..written
    /\ pieces \subseteq 1..written
    /\ buf \in [1..BUFFER_SIZE -> {NUL, STATUS} \cup 1..Len(script)]
    /\ sent \in Seq({STATUS, JUNK} \cup 1..Len(script))

CallsUpTo(s, i, call) == Cardinality({j \in 1..i : s[j] = call})

\* A script gets along with execute_cgi if it never waits for the end of its
\* input, reads no more than there is, and, before it writes more than the
\* pipe holds, has read enough for the rest of the body to fit in the other.
Conforming(s, n) ==
    LET Reads(i) == CallsUpTo(s, i, "read")
        Writes(i) == CallsUpTo(s, i, "write")
    IN  /\ CallsUpTo(s, Len(s), "read_to_eof") = 0
        /\ Reads(Len(s)) <= n
        /\ \A i \in 1..Len(s) :
              Writes(i) > OutCapacity => n - Reads(i) <= InCapacity

\* ReturnsIfConforming, ReturnsOnlyIfConforming: execute_cgi returns for exactly
\* the scripts that get along with it; with any other, parent and script wait for
\* each other for ever, and with the parent the whole event loop.
ReturnsIfConforming == Conforming(script, body) => <>(parent = "done")
ReturnsOnlyIfConforming == parent = "done" => Conforming(script, body)

ParentCanMove ==
    \/ parent = "body" /\ (fed = body \/ ~alive \/ input < InCapacity)
    \/ parent = "status"
    \/ parent = "relay" /\ (output # <<>> \/ ~alive)
ScriptCanMove ==
    /\ alive
    /\ \/ next > Len(script)
       \/ Calling("write") /\ Len(output) < OutCapacity
       \/ ~Calling("write") /\ input > 0

\* NoDeadlock: parent and script never both wait for the other, one to put into
\* a full pipe or both to take from an empty one, if the script gets along with
\* execute_cgi.
NoDeadlock ==
    Conforming(script, body) /\ parent # "done" => ParentCanMove \/ ScriptCanMove

\* A unit is hidden by a NUL that read() returned with it, if not before it.
Hidden(u) == \E n \in nuls : n <= u /\ pieces \cap (n + 1)..u = {}

\* NothingLost: a unit that the parent has read is lost only if it is a NUL or
\* came in one piece with a NUL before it.  All others were sent to the client,
\* in order, though the relay buffer is never terminated after a read.
NothingLost ==
    /\ \A u \in 1..Read : Hidden(u) \/ First(sent, u) > 0
    /\ \A u, v \in 1..Read :
          u < v /\ ~Hidden(u) /\ ~Hidden(v) => First(sent, u) < First(sent, v)

\* Whatever the script does with its pipes, execute_cgi keeps to ScriptRun: it
\* returns only when the script is gone.
Run == INSTANCE ScriptRun WITH
    handler <- CASE parent \in {"body", "status"} -> "feeding"
                 [] parent = "relay" -> "relaying"
                 [] OTHER -> "elsewhere",
    script <- IF parent = "done" THEN "none" ELSE IF alive THEN "running" ELSE "gone"

RunSpec == Run!Spec

\* README: "Support CGI".  The client gets the script's output and nothing
\* else, if it is text.
FaithfulRelay == nuls = {} => sent = [u \in 1..Read |-> u]
=============================================================================
