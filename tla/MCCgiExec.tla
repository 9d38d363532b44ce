----------------------------- MODULE MCCgiExec -----------------------------
(* Small scripts, bodies and pipes for CgiExec. *)
EXTENDS CgiExec

\* Every script of at most five calls.
MCScripts == UNION {[1..n -> Calls] : n \in 0..5}

\* A script that prints two lines.
MCPrinter == {<<"write", "write">>}
=============================================================================
