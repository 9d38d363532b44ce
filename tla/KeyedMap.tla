------------------------------ MODULE KeyedMap ------------------------------
(***************************************************************************)
(* What hashmap.h promises: a map from keys to items, whatever the buckets *)
(* behind it do.  Every call answers with a set of items: the one it found *)
(* or displaced (none: NULL), or the ones it passed to elfree.             *)
(***************************************************************************)
EXTENDS Integers, FiniteSets

CONSTANTS
    Keys,       \* keys of items
    Vals,       \* what an item holds beside its key
    Room        \* a map of fewer items never needs memory

Items == [key : Keys, val : Vals]

VARIABLES
    items,      \* the items in the map
    answer,     \* what the last call answered
    oom,        \* the last call ran out of memory
    seen,       \* what the iteration under way has yielded
    live        \* the map was not freed

vars == <<items, answer, oom, seen, live>>

At(k) == {x \in items : x.key = k}

Init ==
    /\ items = {}
    /\ answer = {}
    /\ oom = FALSE
    /\ seen = {}
    /\ live = TRUE

\* Insert or replace; the item replaced is the answer.
Set(x) ==
    /\ items' = (items \ At(x.key)) \cup {x}
    /\ answer' = At(x.key)
    /\ oom' = FALSE
    /\ seen' = {}
    /\ UNCHANGED live

\* Out of memory: nothing changes, not even if x.key is in the map.
SetFails(x) ==
    /\ Cardinality(items) >= Room
    /\ answer' = {}
    /\ oom' = TRUE
    /\ UNCHANGED <<items, seen, live>>

Get(k) ==
    /\ answer' = At(k)
    /\ UNCHANGED <<items, oom, seen, live>>

Delete(k) ==
    /\ items' = items \ At(k)
    /\ answer' = At(k)
    /\ oom' = FALSE
    /\ seen' = {}
    /\ UNCHANGED live

\* One more item, each once, until there is none left.
Iter ==
    /\ \/ \E x \in items \ seen : answer' = {x} /\ seen' = seen \cup {x}
       \/ seen = items /\ answer' = {} /\ UNCHANGED seen
    /\ UNCHANGED <<items, oom, live>>

\* All items, or as many as were asked for; one of them, or none, by its place.
Scan(n) ==
    /\ \E some \in SUBSET items :
          /\ Cardinality(some) = n \/ (some = items /\ Cardinality(items) < n)
          /\ answer' = some
    /\ UNCHANGED <<items, oom, seen, live>>

Probe ==
    /\ answer' \in {{}} \cup {{x} : x \in items}
    /\ UNCHANGED <<items, oom, seen, live>>

\* Every item is passed to elfree.
Empty ==
    /\ items' = {}
    /\ answer' = items
    /\ seen' = {}
    /\ UNCHANGED oom

Clear == Empty /\ UNCHANGED live
Free == Empty /\ live' = FALSE

Next ==
    /\ live
    /\ \/ \E x \in Items : Set(x) \/ SetFails(x)
       \/ \E k \in Keys : Get(k) \/ Delete(k)
       \/ Iter
       \/ (\E n \in 1..Cardinality(Keys) : Scan(n)) \/ Probe
       \/ Clear
       \/ Free

Spec == Init /\ [][Next]_vars
=============================================================================
