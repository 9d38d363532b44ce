----------------------------- MODULE MCSendFile -----------------------------
(* Small files for SendFile. *)
EXTENDS SendFile

\* Every file of up to four units.
MCFiles == UNION {[1..n -> Units] : n \in 0..4}
=============================================================================
