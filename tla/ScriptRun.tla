----------------------------- MODULE ScriptRun -----------------------------
(***************************************************************************)
(* What the event loop relies on when it calls execute_cgi, and what the   *)
(* two processes that meet there keep to: while a script runs, its handler *)
(* first feeds it and then relays what it says, and it returns to the loop *)
(* only when the script is gone.  Server, where the script is two steps    *)
(* and the event loop goes on, and CgiExec, where there are pipes and no   *)
(* loop, both implement it.                                                *)
(***************************************************************************)

VARIABLES
    handler,    \* "elsewhere", "feeding", "relaying" or "dead"
    script      \* "none", "running" or "gone", a child nobody has waited for

vars == <<handler, script>>

\* The loop is elsewhere, or has just forked.
Init ==
    /\ handler \in {"elsewhere", "feeding"}
    /\ script = IF handler = "feeding" THEN "running" ELSE "none"

Fork ==
    /\ handler = "elsewhere" /\ script = "none"
    /\ handler' = "feeding" /\ script' = "running"

\* The body is written and the status line sent.
Fed ==
    /\ handler = "feeding"
    /\ handler' = "relaying"
    /\ UNCHANGED script

Exit ==
    /\ script = "running"
    /\ script' = "gone"
    /\ UNCHANGED handler

\* The script's output has ended and waitpid has returned.
Return ==
    /\ handler = "relaying" /\ script = "gone"
    /\ handler' = "elsewhere" /\ script' = "none"

\* The server dies, and leaves the script behind.
Die ==
    /\ handler \in {"elsewhere", "feeding"}
    /\ handler' = "dead"
    /\ UNCHANGED script

Next == Fork \/ Fed \/ Exit \/ Return \/ Die

Spec == Init /\ [][Next]_vars
=============================================================================
