----------------------------- MODULE MCHashMap -----------------------------
(* Few keys and small buckets for HashMap. *)
EXTENDS HashMap, TLC

\* All keys in one home bucket (the last, so that probes wrap around), in two
\* adjacent ones, and in ones that collide at some sizes only.
MCHashes ==
    {[k \in Keys |-> 7], [k \in Keys |-> IF k < 3 THEN 7 ELSE 6],
     [k \in Keys |-> 8 - 2 * (k \div 2)]}

\* What an item holds beside its key is never looked at.
ValSymmetry == Permutations(Vals)
=============================================================================
