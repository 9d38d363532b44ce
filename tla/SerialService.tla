--------------------------- MODULE SerialService ---------------------------
(***************************************************************************)
(* What the HTTP server promises its clients, without sockets, buffers,    *)
(* watchers or child processes: connections are admitted in the order in   *)
(* which they arrived, one connection at a time is being answered, a       *)
(* connection is closed only after at least one status line was written    *)
(* to it, and nothing is written to it afterwards.  The server may die;    *)
(* then it admits and closes nothing any more, and only the connection     *)
(* that was being answered can still hear something (from the child        *)
(* process the server left behind).                                        *)
(***************************************************************************)
EXTENDS Integers, Sequences

CONSTANTS
    Conns,      \* client connections
    NoConn,     \* "no connection"
    MaxLines    \* the most status lines one connection ever receives

Statuses == {200, 400, 404, 500, 501}

\* What one step may write: at most two status lines.
Says == UNION {[1..n -> Statuses] : n \in 0..2}

VARIABLES
    phase,      \* phase[c]: "unused", "backlog", "open" or "closed"
    queue,      \* connections that arrived and were not admitted yet
    said,       \* said[c]: the status lines written to c so far
    busy,       \* the connection being answered across several steps
    up          \* the server process is alive

vars == <<phase, queue, said, busy, up>>

\* c hears at most two more status lines, and has heard `least' by now.
Hears(c, least) ==
    \E s \in Says :
        /\ Len(said[c] \o s) \in least..MaxLines
        /\ said' = [said EXCEPT ![c] = @ \o s]

Init ==
    /\ phase = [c \in Conns |-> "unused"]
    /\ queue = <<>>
    /\ said = [c \in Conns |-> <<>>]
    /\ busy = NoConn
    /\ up = TRUE

Arrive(c) ==
    /\ phase[c] = "unused"
    /\ phase' = [phase EXCEPT ![c] = "backlog"]
    /\ queue' = Append(queue, c)
    /\ UNCHANGED <<said, busy, up>>

\* First come, first admitted, and only between two answers.
Admit ==
    /\ up
    /\ busy = NoConn
    /\ queue # <<>>
    /\ phase' = [phase EXCEPT ![Head(queue)] = "open"]
    /\ queue' = Tail(queue)
    /\ UNCHANGED <<said, busy, up>>

\* Write to c; c is then the connection being answered.
Speak(c) ==
    /\ phase[c] = "open"
    /\ busy \in {c, NoConn}
    /\ busy = NoConn => up
    /\ Hears(c, 0)
    /\ busy' = c
    /\ UNCHANGED <<phase, queue, up>>

\* Write to c and close it; it has heard something by then.
Leave(c) ==
    /\ up
    /\ phase[c] = "open"
    /\ busy \in {c, NoConn}
    /\ Hears(c, 1)
    /\ phase' = [phase EXCEPT ![c] = "closed"]
    /\ busy' = NoConn
    /\ UNCHANGED <<queue, up>>

\* The server dies while it handles c, or while it answers nobody.
Die(c) ==
    /\ up
    /\ phase[c] = "open"
    /\ busy \in {c, NoConn}
    /\ up' = FALSE
    /\ busy' = c
    /\ Hears(c, 0)
    /\ UNCHANGED <<phase, queue>>

Next ==
    \/ Admit
    \/ \E c \in Conns : Arrive(c) \/ Speak(c) \/ Leave(c) \/ Die(c)

Spec == Init /\ [][Next]_vars
=============================================================================
