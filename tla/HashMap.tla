------------------------------ MODULE HashMap ------------------------------
(***************************************************************************)
(* hashmap.c: open addressing with Robin Hood hashing, doubling when the   *)
(* load reaches growat and halving when it falls to shrinkat.  One action  *)
(* per call of its interface; the map is used by one thread.               *)
(*                                                                         *)
(* A bucket is a dib (distance to its home bucket plus one, 0: empty) and  *)
(* the item it holds, as a set of at most one.  Two items have equal keys  *)
(* if `compare' says so; `hash' is any function of the keys.               *)
(***************************************************************************)
EXTENDS Integers, FiniteSets, FiniteSetsExt

CONSTANTS
    Keys,           \* keys of items
    Vals,           \* what an item holds beside its key
    Hashes,         \* the hash functions considered
    Capacities,     \* the `cap' hashmap_new is called with
    MinCap,         \* the least number of buckets (16)
    GrowPercent,    \* load at which the map doubles (75)
    ShrinkPercent,  \* load at which it halves (10)
    AllocFails      \* malloc() may fail

ASSUME HashMapAssumption ==
    /\ Hashes \subseteq [Keys -> Nat]
    /\ Capacities \subseteq Nat
    /\ MinCap \in Nat \ {0}
    /\ GrowPercent \in 1..99
    /\ ShrinkPercent \in 0..(GrowPercent \div 2)
    /\ 2 * MinCap * GrowPercent >= 100      \* a map that has grown has room
    /\ AllocFails \in BOOLEAN

Items == [key : Keys, val : Vals]

VARIABLES
    hash,       \* the hash function
    cap,        \* the map never shrinks below this
    nbuckets,   \* the number of buckets in use
    alloc,      \* the number of buckets allocated
    buckets,    \* buckets[i], 0 <= i < nbuckets
    count,      \* the number of items
    oom,        \* the last call ran out of memory
    cursor,     \* the position of the iteration under way
    answer,     \* what the last call answered
    live        \* the map was not freed

vars == <<hash, cap, nbuckets, alloc, buckets, count, oom, cursor, answer, live>>

-----------------------------------------------------------------------------
(* Buckets. *)

Vacant == [dib |-> 0, held |-> {}]
Zeroed(n) == [i \in 0..(n - 1) |-> Vacant]

Home(k, n) == hash[k] % n
Has(b, k) == \E x \in b.held : x.key = k

GrowAt(n) == (n * GrowPercent) \div 100
ShrinkAt(n) == (n * ShrinkPercent) \div 100

\* The capacity hashmap_new_with_allocator makes of the one it is asked for:
\* the first of 16, 32, 64, ... that is not less.
Doubled[j \in Nat] == IF j = 0 THEN MinCap ELSE 2 * Doubled[j - 1]
RoundUp(c) == Doubled[Min({j \in 0..c : Doubled[j] >= c})]

\* Carry an entry from bucket to bucket: a vacant one takes it, the one with an
\* equal key is replaced, a richer one is robbed and its entry carried on.  s.at
\* is the bucket looked at next; a probe that visits all n finds no end.
Carry(s, n) ==
    LET b == s.buckets[s.at]
        robs == b.dib < s.entry.dib
        carried == IF robs THEN b ELSE s.entry
    IN  IF s.done THEN s
        ELSE IF b.dib = 0 THEN
            [s EXCEPT !.buckets[s.at] = s.entry, !.done = TRUE]
        ELSE IF \E x \in s.entry.held : Has(b, x.key) THEN
            [s EXCEPT !.buckets[s.at].held = s.entry.held,
                      !.displaced = b.held, !.done = TRUE]
        ELSE
            [s EXCEPT !.buckets[s.at] = IF robs THEN s.entry ELSE b,
                      !.entry = [carried EXCEPT !.dib = @ + 1],
                      !.at = (s.at + 1) % n]

\* The probe that puts x into the n buckets t, after each of its steps, and what
\* comes of it: the buckets and the item displaced.
Carried(t, n, x) ==
    LET s[step \in 0..n] ==
            IF step = 0
            THEN [buckets |-> t, entry |-> [dib |-> 1, held |-> {x}],
                  at |-> Home(x.key, n), displaced |-> {}, done |-> FALSE]
            ELSE Carry(s[step - 1], n)
    IN  s

Put(t, n, x) == Carried(t, n, x)[n]

\* resize: every item of the m buckets t, in bucket order, into n fresh ones.
Rehashed(t, m, n) ==
    LET fresh[i \in 0..m] ==
            IF i = 0 THEN Zeroed(n)
            ELSE IF t[i - 1].dib = 0 THEN fresh[i - 1]
            ELSE Put(fresh[i - 1], n, CHOOSE x \in t[i - 1].held : TRUE).buckets
    IN  fresh

Resized(t, m, n) == Rehashed(t, m, n)[m]

\* Where a probe for k ends: at its bucket or at the first vacant one.
ProbeEnd(k) ==
    LET at(d) == (Home(k, nbuckets) + d) % nbuckets
    IN  at(Min({d \in 0..(nbuckets - 1) :
                  buckets[at(d)].dib = 0 \/ Has(buckets[at(d)], k)}))

\* Mutants of ShiftBack: nothing is moved; what is moved keeps its dib.
NoShift(p) == [buckets EXCEPT ![p] = Vacant]

ShiftBackSameDib(p) ==
    LET after(j) == (p + j) % nbuckets
        m == Min({j \in 1..nbuckets : j = nbuckets \/ buckets[after(j)].dib <= 1})
    IN  [i \in DOMAIN buckets |->
            IF i \in {after(j) : j \in 0..(m - 2)} THEN buckets[(i + 1) % nbuckets]
            ELSE IF i = after(m - 1) THEN Vacant ELSE buckets[i]]

\* Vacate bucket p: the entries behind it, up to the first one that is vacant or
\* at home, move one bucket back.
ShiftBack(p) ==
    LET after(j) == (p + j) % nbuckets
        m == Min({j \in 1..nbuckets : j = nbuckets \/ buckets[after(j)].dib <= 1})
        moved == [i \in {after(j) : j \in 0..(m - 2)} |->
                    LET b == buckets[(i + 1) % nbuckets]
                    IN  [b EXCEPT !.dib = @ - 1]]
    IN  [i \in DOMAIN buckets |->
            IF i \in DOMAIN moved THEN moved[i]
            ELSE IF i = after(m - 1) THEN Vacant ELSE buckets[i]]

-----------------------------------------------------------------------------
Init ==
    /\ hash \in Hashes
    /\ \E c \in Capacities : cap = RoundUp(c)
    /\ nbuckets = cap
    /\ alloc = cap
    /\ buckets = Zeroed(cap)
    /\ count = 0
    /\ oom = FALSE
    /\ cursor = 0
    /\ answer = {}
    /\ live = TRUE

\* Mutant of SetInto: an item that replaces another one is counted, too.
SetIntoCounts(t, n, x) ==
    LET s == Put(t, n, x)
    IN  /\ buckets' = s.buckets
        /\ nbuckets' = n
        /\ count' = count + 1
        /\ answer' = s.displaced
        /\ oom' = FALSE
        /\ cursor' = 0
        /\ UNCHANGED <<hash, cap, live>>

\* hashmap_set, once there are n buckets t to put x into.
SetInto(t, n, x) ==
    LET s == Put(t, n, x)
    IN  /\ buckets' = s.buckets
        /\ nbuckets' = n
        /\ count' = IF s.displaced = {} THEN count + 1 ELSE count
        /\ answer' = s.displaced
        /\ oom' = FALSE
        /\ cursor' = 0
        /\ UNCHANGED <<hash, cap, live>>

Set(x) ==
    /\ live
    /\ \/ /\ count # GrowAt(nbuckets)
          /\ SetInto(buckets, nbuckets, x)
          /\ UNCHANGED alloc
       \/ /\ count = GrowAt(nbuckets)
          /\ SetInto(Resized(buckets, nbuckets, 2 * nbuckets), 2 * nbuckets, x)
          /\ alloc' = 2 * nbuckets

\* The buckets cannot be doubled: give up, even if the key is in the map.
SetFails(x) ==
    /\ live
    /\ AllocFails
    /\ count = GrowAt(nbuckets)
    /\ answer' = {}
    /\ oom' = TRUE
    /\ UNCHANGED <<hash, cap, nbuckets, alloc, buckets, count, cursor, live>>

Get(k) ==
    /\ live
    /\ answer' = buckets[ProbeEnd(k)].held
    /\ UNCHANGED <<hash, cap, nbuckets, alloc, buckets, count, oom, cursor, live>>

\* Mutant of Delete: the map shrinks below the capacity asked for.
DeleteBelowCap(k) ==
    LET p == ProbeEnd(k)
        shifted == ShiftBack(p)
    IN  /\ live
        /\ oom' = FALSE
        /\ answer' = buckets[p].held
        /\ cursor' = 0
        /\ IF buckets[p].dib = 0 THEN UNCHANGED <<buckets, count, nbuckets, alloc>>
           ELSE /\ count' = count - 1
                /\ IF count' <= ShrinkAt(nbuckets) /\ nbuckets > MinCap
                   THEN /\ buckets' = Resized(shifted, nbuckets, nbuckets \div 2)
                        /\ nbuckets' = nbuckets \div 2
                        /\ alloc' = nbuckets'
                   ELSE buckets' = shifted /\ UNCHANGED <<nbuckets, alloc>>
        /\ UNCHANGED <<hash, cap, live>>

\* hashmap_delete; halving the buckets may fail, which does not matter.
Delete(k) ==
    LET p == ProbeEnd(k)
        shifted == ShiftBack(p)
    IN  /\ live
        /\ oom' = FALSE
        /\ answer' = buckets[p].held
        /\ cursor' = 0
        /\ IF buckets[p].dib = 0 THEN UNCHANGED <<buckets, count, nbuckets, alloc>>
           ELSE /\ count' = count - 1
                /\ \/ /\ nbuckets > cap /\ count' <= ShrinkAt(nbuckets)
                      /\ buckets' = Resized(shifted, nbuckets, nbuckets \div 2)
                      /\ nbuckets' = nbuckets \div 2
                      /\ alloc' = nbuckets'
                   \/ /\ nbuckets > cap /\ count' <= ShrinkAt(nbuckets) => AllocFails
                      /\ buckets' = shifted
                      /\ UNCHANGED <<nbuckets, alloc>>
        /\ UNCHANGED <<hash, cap, live>>

\* hashmap_iter from `cursor' on.  Its comment asks a caller that has changed the
\* map to begin again at 0: every action that changes the map sets the cursor so.
Iter ==
    /\ live
    /\ LET rest == {i \in cursor..(nbuckets - 1) : buckets[i].dib # 0}
       IN  IF rest = {} THEN answer' = {} /\ cursor' = nbuckets
           ELSE answer' = buckets[Min(rest)].held /\ cursor' = Min(rest) + 1
    /\ UNCHANGED <<hash, cap, nbuckets, alloc, buckets, count, oom, live>>

\* hashmap_scan with a callback that stops at the n-th item, or never.
Scan(n) ==
    /\ live
    /\ LET full == {i \in DOMAIN buckets : buckets[i].dib # 0}
       IN  answer' = UNION {buckets[i].held :
                        i \in {j \in full : Cardinality({h \in full : h < j}) < n}}
    /\ UNCHANGED <<hash, cap, nbuckets, alloc, buckets, count, oom, cursor, live>>

\* hashmap_probe.
Probe(position) ==
    /\ live
    /\ answer' = buckets[position % nbuckets].held
    /\ UNCHANGED <<hash, cap, nbuckets, alloc, buckets, count, oom, cursor, live>>

Stored == UNION {buckets[i].held : i \in DOMAIN buckets}

\* Mutant of Clear: the number of buckets is not updated with them.
ClearKeepsSize(update_cap) ==
    /\ live
    /\ count' = 0
    /\ answer' = Stored
    /\ IF update_cap THEN cap' = nbuckets /\ UNCHANGED alloc
       ELSE alloc' = cap /\ UNCHANGED cap
    /\ buckets' = Zeroed(IF update_cap THEN nbuckets ELSE cap)
    /\ cursor' = 0
    /\ UNCHANGED <<hash, nbuckets, oom, live>>

\* hashmap_clear.  If the smaller buckets cannot be allocated the larger ones
\* are used as if they were.
Clear(update_cap) ==
    /\ live
    /\ count' = 0
    /\ answer' = Stored
    /\ IF update_cap
       THEN cap' = nbuckets /\ UNCHANGED <<nbuckets, alloc>>
       ELSE /\ nbuckets' = cap
            /\ \/ nbuckets # cap /\ alloc' = cap
               \/ (nbuckets # cap => AllocFails) /\ UNCHANGED alloc
            /\ UNCHANGED cap
    /\ buckets' = Zeroed(nbuckets')
    /\ cursor' = 0
    /\ UNCHANGED <<hash, oom, live>>

\* hashmap_free.
Free ==
    /\ live
    /\ answer' = Stored
    /\ buckets' = Zeroed(0)
    /\ nbuckets' = 0
    /\ alloc' = 0
    /\ count' = 0
    /\ cursor' = 0
    /\ live' = FALSE
    /\ UNCHANGED <<hash, cap, oom>>

Next ==
    \/ \E x \in Items : Set(x) \/ SetFails(x)
    \/ \E k \in Keys : Get(k) \/ Delete(k)
    \/ Iter
    \/ \E n \in 1..Cardinality(Keys) : Scan(n)
    \/ \E position \in 0..nbuckets : Probe(position)
    \/ \E update_cap \in BOOLEAN : Clear(update_cap)
    \/ Free

Spec == Init /\ [][Next]_vars

-----------------------------------------------------------------------------
(* Properties. *)

\* Every variable has its type.
TypeOK ==
    /\ hash \in Hashes
    /\ {cap, nbuckets, alloc, count, cursor} \subseteq Nat
    /\ DOMAIN buckets = 0..(nbuckets - 1)
    /\ \A i \in DOMAIN buckets :
          \E d \in 0..nbuckets : \E held \in SUBSET Items :
              /\ buckets[i] = [dib |-> d, held |-> held]
              /\ Cardinality(held) = IF d = 0 THEN 0 ELSE 1
    /\ oom \in BOOLEAN
    /\ answer \subseteq Items
    /\ live \in BOOLEAN

\* Every entry is as far from its home bucket as its dib says, and the bucket
\* before one that is not at home is at most one step poorer: no probe for a
\* key meets a vacant bucket first, and deletion stops where a run of entries
\* ends.
RobinHood ==
    \A i \in DOMAIN buckets :
        LET b == buckets[i]
            before == buckets[(i + nbuckets - 1) % nbuckets]
        IN  /\ \A x \in b.held : i = (Home(x.key, nbuckets) + b.dib - 1) % nbuckets
            /\ b.dib > 1 => before.dib >= b.dib - 1

\* The load test is an equality, so the count must never get past growat; and
\* at every load there is a vacant bucket to end a probe.
Load ==
    live => /\ count = Cardinality({i \in DOMAIN buckets : buckets[i].dib # 0})
            /\ count <= GrowAt(nbuckets)
            /\ count < nbuckets

\* hashmap_clear without memory and delete's halving never leave more buckets
\* in use than are allocated, nor fewer than the capacity asked for.
WithinAllocation == live => cap <= nbuckets /\ nbuckets <= alloc

\* WellSized: however the table grows, shrinks, is cleared or runs out of memory,
\* its items fit into its buckets and its buckets into what was allocated.
WellSized == Load /\ WithinAllocation

\* The map of hashmap.h, which these buckets implement: what is stored, found,
\* displaced, iterated over and freed.
Map == INSTANCE KeyedMap WITH
    Room <- GrowAt(MinCap),
    items <- Stored,
    seen <- UNION {buckets[i].held : i \in 0..(cursor - 1)}

MapSpec == Map!Spec
=============================================================================
