--------------------------- MODULE HashMapProofs ---------------------------
(***************************************************************************)
(* Proofs about HashMap, for any keys, hash functions, capacities and      *)
(* loads: that the buckets always form a Robin Hood table whose count is   *)
(* right and which has a vacant bucket, within the memory allocated; and   *)
(* that the table is the map KeyedMap describes.                           *)
(***************************************************************************)
EXTENDS HashMap, Positions, FiniteSetTheorems, TLAPS

-----------------------------------------------------------------------------
(* Sizes. *)

LEMMA DoubledDef ==
    /\ Doubled \in [Nat -> Nat]
    /\ Doubled[0] = MinCap
    /\ \A j \in Nat : Doubled[j + 1] = 2 * Doubled[j]
<1> DEFINE twice == [k \in Nat |-> [m \in Nat |-> 2 * m]]
<1>1. MinCap \in Nat /\ twice \in [Nat -> [Nat -> Nat]]
  BY HashMapAssumption
<1>2. PICK g \in [Nat -> Nat] : IsIteration(g, MinCap, twice)
  <2> HIDE DEF twice
  <2>. QED
    BY <1>1, Iteration
<1>3. g[0] = MinCap /\ \A k \in Nat : g[k + 1] = 2 * g[k]
  BY <1>2 DEF IsIteration
<1>4. g = [j \in Nat |-> IF j = 0 THEN MinCap ELSE 2 * g[j - 1]]
  <2>1. ASSUME NEW j \in Nat, j # 0 PROVE g[j] = 2 * g[j - 1]
    <3>1. j - 1 \in Nat /\ (j - 1) + 1 = j
      BY <2>1
    <3>. QED
      BY <1>3, <3>1
  <2>. QED
    BY <1>2, <1>3, <2>1
<1>5. Doubled = [j \in Nat |-> IF j = 0 THEN MinCap ELSE 2 * Doubled[j - 1]]
  BY <1>4 DEF Doubled
<1>6. Doubled[0] = MinCap /\ \A j \in Nat : Doubled[j + 1] = 2 * Doubled[j]
  <2>1. ASSUME NEW j \in Nat PROVE Doubled[j + 1] = 2 * Doubled[j]
    <3>1. j + 1 \in Nat /\ j + 1 # 0 /\ (j + 1) - 1 = j
      OBVIOUS
    <3>. QED
      BY <1>5, <3>1
  <2>2. Doubled[0] = MinCap
    BY <1>5
  <2>. QED
    BY <2>1, <2>2
<1> DEFINE I == {j \in Nat : Doubled[j] \in Nat}
<1>7. 0 \in I /\ \A k \in Nat : k \in I => k + 1 \in I
  BY <1>1, <1>6
<1> HIDE DEF I
<1>8. ASSUME NEW j \in Nat PROVE Doubled[j] \in Nat
  <2>1. \A k \in 0..j : k \in I
    BY <1>7, Counting
  <2>. QED
    BY <2>1 DEF I
<1>9. DOMAIN Doubled = Nat /\ Doubled = [j \in Nat |-> Doubled[j]]
  BY <1>5
<1>. QED
  BY <1>6, <1>8, <1>9

\* The sizes grow, and beyond any capacity.
LEMMA DoubledGrows ==
    /\ \A i, j \in Nat : i <= j => MinCap <= Doubled[i] /\ Doubled[i] <= Doubled[j]
    /\ \A c \in Nat : c <= Doubled[c]
<1>1. MinCap \in Nat /\ MinCap >= 1
  BY HashMapAssumption
<1>2. ASSUME NEW i \in Nat, NEW j \in Nat, i <= j PROVE Doubled[i] <= Doubled[j]
  <2> DEFINE I == {k \in Nat : Doubled[i] <= Doubled[i + k]}
  <2>1. 0 \in I
    BY DoubledDef
  <2>2. ASSUME NEW k \in Nat, k \in I PROVE k + 1 \in I
    <3>1. i + k \in Nat /\ (i + k) + 1 = i + (k + 1)
      OBVIOUS
    <3>2. Doubled[i + (k + 1)] = 2 * Doubled[i + k] /\ Doubled[i + k] \in Nat
      BY <3>1, DoubledDef
    <3>3. Doubled[i] \in Nat
      BY DoubledDef
    <3>. QED
      BY <2>2, <3>2, <3>3
  <2> HIDE DEF I
  <2>3. \A k \in 0..(j - i) : k \in I
    BY <1>2, <2>1, <2>2, Counting
  <2>4. j - i \in 0..(j - i) /\ i + (j - i) = j
    BY <1>2
  <2>. QED
    BY <2>3, <2>4 DEF I
<1>3. ASSUME NEW c \in Nat PROVE c <= Doubled[c] /\ MinCap <= Doubled[c]
  <2> DEFINE I == {k \in Nat : k + 1 <= Doubled[k] /\ MinCap <= Doubled[k]}
  <2>1. 0 \in I
    BY <1>1, DoubledDef
  <2>2. ASSUME NEW k \in Nat, k \in I PROVE k + 1 \in I
    <3>1. Doubled[k + 1] = 2 * Doubled[k] /\ Doubled[k] \in Nat
      BY DoubledDef
    <3>. QED
      BY <1>1, <2>2, <3>1
  <2> HIDE DEF I
  <2>3. \A k \in 0..c : k \in I
    BY <2>1, <2>2, Counting
  <2>4. c + 1 <= Doubled[c] /\ MinCap <= Doubled[c] /\ Doubled[c] \in Nat
    BY <2>3, DoubledDef DEF I
  <2>. QED
    BY <2>4
<1>. QED
  BY <1>2, <1>3

\* A new map has one of these sizes.
LEMMA RoundUpIsDoubled ==
    ASSUME NEW c \in Nat
    PROVE  \E j \in Nat : RoundUp(c) = Doubled[j]
<1> DEFINE J == {j \in 0..c : Doubled[j] >= c}
<1>1. J \in SUBSET Nat /\ c \in J
  BY SMTT(30), DoubledGrows, DoubledDef
<1> HIDE DEF J
<1>2. Min(J) \in Nat
  BY <1>1, MinOfPositions
<1>. QED
  BY <1>2 DEF RoundUp, J

\* What the loads at which the map doubles and halves leave room for.
LEMMA Loads ==
    ASSUME NEW j \in Nat, NEW n, n = Doubled[j]
    PROVE  /\ n \in Nat \ {0}
           /\ GrowAt(n) \in Nat /\ ShrinkAt(n) \in Nat
           /\ GrowAt(n) < n
           /\ GrowAt(n) < GrowAt(2 * n)
           /\ ShrinkAt(2 * n) <= GrowAt(n)
           /\ GrowAt(MinCap) <= GrowAt(n)
<1>1. /\ MinCap \in Nat /\ MinCap >= 1 /\ GrowPercent \in 1..99
      /\ 2 * MinCap * GrowPercent >= 100 /\ ShrinkPercent \in 0..(GrowPercent \div 2)
  BY HashMapAssumption
<1>2. n \in Nat /\ n >= MinCap
  BY DoubledDef, DoubledGrows
<1>3. n \in Nat \ {0} /\ GrowAt(n) \in Nat /\ ShrinkAt(n) \in Nat
  BY <1>1, <1>2 DEF GrowAt, ShrinkAt
<1>4. GrowAt(n) < n
  <2>1. n * GrowPercent <= n * 99
    BY <1>1, <1>2
  <2>. QED
    BY <1>1, <1>3, <2>1 DEF GrowAt
<1>5. GrowAt(n) < GrowAt(2 * n)
  <2>1. 2 * n * GrowPercent >= 2 * MinCap * GrowPercent
    BY <1>1, <1>2
  <2>. QED
    BY <1>1, <1>2, <2>1 DEF GrowAt
<1>6. ShrinkAt(2 * n) <= GrowAt(n)
  <2>1. 2 * ShrinkPercent <= GrowPercent
    BY <1>1
  <2>2. (2 * n) * ShrinkPercent <= n * GrowPercent
    BY <1>1, <1>2, <2>1
  <2>. QED
    BY <1>1, <1>2, <2>2 DEF GrowAt, ShrinkAt
<1>7. GrowAt(MinCap) <= GrowAt(n)
  <2>1. MinCap * GrowPercent <= n * GrowPercent
    BY <1>1, <1>2
  <2>. QED
    BY <1>1, <1>2, <2>1 DEF GrowAt
<1>. QED
  BY <1>3, <1>4, <1>5, <1>6, <1>7

-----------------------------------------------------------------------------
(* One step of a probe. *)

Entries == [dib : Nat, held : SUBSET Items]
Tables(n) == [0..(n - 1) -> Entries]
Probes(n) == [buckets : Tables(n), entry : Entries, at : 0..(n - 1),
              displaced : SUBSET Items, done : BOOLEAN]

\* An item with the key of one that is carried is in bucket b.
Meets(s, b) == \E x \in s.entry.held : Has(b, x.key)

\* The entry of dib d with these items, and table t with entry e in bucket i.
Entry(d, items) == [dib |-> d, held |-> items]
With(t, i, e) == [t EXCEPT ![i] = e]

LEMMA WithFacts ==
    ASSUME NEW n \in Nat \ {0}, NEW t \in Tables(n), NEW i \in 0..(n - 1),
           NEW e \in Entries
    PROVE  /\ With(t, i, e) \in Tables(n) /\ With(t, i, e)[i] = e
           /\ \A j \in 0..(n - 1) : j # i => With(t, i, e)[j] = t[j]
BY DEF With, Tables

LEMMA EntryFacts ==
    ASSUME NEW d \in Nat, NEW items \in SUBSET Items
    PROVE  Entry(d, items) \in Entries /\ Entry(d, items).dib = d /\ Entry(d, items).held = items
BY DEF Entry, Entries

LEMMA EntryIs ==
    ASSUME NEW e \in Entries
    PROVE  e = Entry(e.dib, e.held) /\ e.dib \in Nat /\ e.held \in SUBSET Items
BY DEF Entry, Entries

LEMMA ProbeParts ==
    ASSUME NEW n \in Nat \ {0}, NEW s \in Probes(n)
    PROVE  /\ s.buckets \in Tables(n) /\ s.entry \in Entries /\ s.at \in 0..(n - 1)
           /\ s.displaced \in SUBSET Items /\ s.done \in BOOLEAN
           /\ s.buckets[s.at] \in Entries
           /\ s = [buckets |-> s.buckets, entry |-> s.entry, at |-> s.at,
                   displaced |-> s.displaced, done |-> s.done]
BY DEF Probes, Tables

LEMMA CarryDone ==
    ASSUME NEW n, NEW s, s.done
    PROVE  Carry(s, n) = s
BY DEF Carry

LEMMA CarryVacant ==
    ASSUME NEW n \in Nat \ {0}, NEW s \in Probes(n), ~s.done,
           s.buckets[s.at].dib = 0, NEW c, c = Carry(s, n)
    PROVE  /\ c \in Probes(n) /\ c.buckets = With(s.buckets, s.at, s.entry)
           /\ c.displaced = s.displaced /\ c.done
<1>1. c = [s EXCEPT !.buckets = With(s.buckets, s.at, s.entry), !.done = TRUE]
  BY DEF Carry, With
<1>2. With(s.buckets, s.at, s.entry) \in Tables(n)
  BY ProbeParts, WithFacts
<1>. QED
  BY <1>1, <1>2, ProbeParts DEF Probes

LEMMA CarryMeets ==
    ASSUME NEW n \in Nat \ {0}, NEW s \in Probes(n), ~s.done,
           NEW b, b = s.buckets[s.at], b.dib # 0, Meets(s, b), NEW c, c = Carry(s, n)
    PROVE  /\ c \in Probes(n)
           /\ c.buckets = With(s.buckets, s.at, Entry(b.dib, s.entry.held))
           /\ c.displaced = b.held /\ c.done
<1>1. b \in Entries /\ s.entry \in Entries
  BY ProbeParts
<1>2. [s.buckets[s.at] EXCEPT !.held = s.entry.held] = Entry(b.dib, s.entry.held)
  BY <1>1 DEF Entry, Entries
<1>3. c = [s EXCEPT !.buckets = With(s.buckets, s.at, Entry(b.dib, s.entry.held)),
                    !.displaced = b.held, !.done = TRUE]
  BY <1>2 DEF Carry, Meets, With
<1>4. Entry(b.dib, s.entry.held) \in Entries /\ b.held \in SUBSET Items
  BY <1>1 DEF Entry, Entries
<1>5. With(s.buckets, s.at, Entry(b.dib, s.entry.held)) \in Tables(n)
  BY <1>4, ProbeParts, WithFacts
<1>6. c = [buckets |-> With(s.buckets, s.at, Entry(b.dib, s.entry.held)),
           entry |-> s.entry, at |-> s.at, displaced |-> b.held, done |-> TRUE]
  <2>1. s = [buckets |-> s.buckets, entry |-> s.entry, at |-> s.at,
             displaced |-> s.displaced, done |-> s.done]
    BY ProbeParts
  <2>. QED
    BY <1>3, <2>1
<1>. QED
  BY <1>4, <1>5, <1>6, ProbeParts DEF Probes

LEMMA CarryRobs ==
    ASSUME NEW n \in Nat \ {0}, NEW s \in Probes(n), ~s.done,
           NEW b, b = s.buckets[s.at], b.dib # 0, ~Meets(s, b), b.dib < s.entry.dib,
           NEW c, c = Carry(s, n)
    PROVE  /\ c \in Probes(n)
           /\ c.at = After(s.at, n) /\ c.displaced = s.displaced /\ ~c.done
           /\ c.buckets = With(s.buckets, s.at, s.entry)
           /\ c.entry = Entry(b.dib + 1, b.held)
<1>1. b \in Entries /\ s.entry \in Entries
  BY ProbeParts
<1>2. [b EXCEPT !.dib = @ + 1] = Entry(b.dib + 1, b.held) /\ Entry(b.dib + 1, b.held) \in Entries
  BY <1>1 DEF Entry, Entries
<1>3. c = [s EXCEPT !.buckets = With(s.buckets, s.at, s.entry),
                    !.entry = [b EXCEPT !.dib = @ + 1], !.at = After(s.at, n)]
  BY DEF Carry, Meets, With, After
<1>4. After(s.at, n) \in 0..(n - 1) /\ With(s.buckets, s.at, s.entry) \in Tables(n)
  BY ProbeParts, WithFacts, RingNeighbours
<1>5. c = [buckets |-> With(s.buckets, s.at, s.entry), entry |-> Entry(b.dib + 1, b.held),
           at |-> After(s.at, n), displaced |-> s.displaced, done |-> s.done]
  BY <1>2, <1>3, ProbeParts
<1>. QED
  BY <1>2, <1>4, <1>5, ProbeParts DEF Probes

LEMMA CarryPasses ==
    ASSUME NEW n \in Nat \ {0}, NEW s \in Probes(n), ~s.done,
           NEW b, b = s.buckets[s.at], b.dib # 0, ~Meets(s, b), ~(b.dib < s.entry.dib),
           NEW c, c = Carry(s, n)
    PROVE  /\ c \in Probes(n)
           /\ c.at = After(s.at, n) /\ c.displaced = s.displaced /\ ~c.done
           /\ c.buckets = s.buckets
           /\ c.entry = Entry(s.entry.dib + 1, s.entry.held)
<1>1. s.entry \in Entries /\ s.buckets \in Tables(n)
  BY ProbeParts
<1>2. /\ [s.entry EXCEPT !.dib = @ + 1] = Entry(s.entry.dib + 1, s.entry.held)
      /\ Entry(s.entry.dib + 1, s.entry.held) \in Entries
  BY <1>1 DEF Entry, Entries
<1>3. c = [s EXCEPT !.buckets = [s.buckets EXCEPT ![s.at] = b],
                    !.entry = [s.entry EXCEPT !.dib = @ + 1], !.at = After(s.at, n)]
  BY DEF Carry, Meets, After
<1>4. After(s.at, n) \in 0..(n - 1) /\ [s.buckets EXCEPT ![s.at] = b] = s.buckets
  BY <1>1, ProbeParts, RingNeighbours DEF Tables
<1>5. c = [buckets |-> s.buckets, entry |-> Entry(s.entry.dib + 1, s.entry.held),
           at |-> After(s.at, n), displaced |-> s.displaced, done |-> s.done]
  BY <1>2, <1>3, <1>4, ProbeParts
<1>. QED
  BY <1>1, <1>2, <1>4, <1>5, ProbeParts DEF Probes

LEMMA CarryType ==
    ASSUME NEW n \in Nat \ {0}, NEW s \in Probes(n)
    PROVE  Carry(s, n) \in Probes(n)
<1> DEFINE b == s.buckets[s.at]
<1>1. CASE s.done
  BY <1>1, CarryDone
<1>2. CASE ~s.done /\ b.dib = 0
  BY <1>2, CarryVacant
<1>3. CASE ~s.done /\ b.dib # 0 /\ Meets(s, b)
  BY <1>3, CarryMeets
<1>4. CASE ~s.done /\ b.dib # 0 /\ ~Meets(s, b) /\ b.dib < s.entry.dib
  BY <1>4, CarryRobs
<1>5. CASE ~s.done /\ b.dib # 0 /\ ~Meets(s, b) /\ ~(b.dib < s.entry.dib)
  BY <1>5, CarryPasses
<1>. QED
  BY <1>1, <1>2, <1>3, <1>4, <1>5

\* A probe is its first state and then one step after the other.
Start(t, n, x) ==
    [buckets |-> t, entry |-> [dib |-> 1, held |-> {x}], at |-> Home(x.key, n),
     displaced |-> {}, done |-> FALSE]

LEMMA HomeType ==
    ASSUME hash \in Hashes, NEW n \in Nat \ {0}, NEW x \in Items
    PROVE  hash[x.key] \in Nat /\ Home(x.key, n) \in 0..(n - 1)
<1>1. hash \in [Keys -> Nat] /\ x.key \in Keys
  BY HashMapAssumption DEF Items
<1>2. hash[x.key] \in Nat
  BY <1>1
<1>. QED
  BY <1>2, RingStep DEF Home

LEMMA StartType ==
    ASSUME hash \in Hashes, NEW n \in Nat \ {0}, NEW x \in Items, NEW t \in Tables(n)
    PROVE  Start(t, n, x) \in Probes(n)
<1>1. [dib |-> 1, held |-> {x}] \in Entries
  BY DEF Entries
<1>. QED
  BY <1>1, HomeType DEF Start, Probes

LEMMA CarriedDef ==
    ASSUME hash \in Hashes, NEW n \in Nat \ {0}, NEW x \in Items, NEW t \in Tables(n),
           NEW s, s = Carried(t, n, x)
    PROVE  /\ s[0] = Start(t, n, x)
           /\ \A k \in 0..(n - 1) : s[k + 1] = Carry(s[k], n)
           /\ \A k \in 0..n : s[k] \in Probes(n)
<1> DEFINE step == [k \in Nat |-> [p \in Probes(n) |-> Carry(p, n)]]
<1>1. Start(t, n, x) \in Probes(n) /\ \A p \in Probes(n) : Carry(p, n) \in Probes(n)
  BY StartType, CarryType
<1>2. step \in [Nat -> [Probes(n) -> Probes(n)]]
  BY <1>1
<1>3. PICK g \in [Nat -> Probes(n)] : IsIteration(g, Start(t, n, x), step)
  <2> HIDE DEF step
  <2>. QED
    BY <1>1, <1>2, Iteration
<1>4. g[0] = Start(t, n, x) /\ \A k \in Nat : g[k + 1] = Carry(g[k], n)
  BY <1>3 DEF IsIteration
<1> DEFINE f == [k \in 0..n |-> g[k]]
<1>5. f = [k \in 0..n |-> IF k = 0 THEN Start(t, n, x) ELSE Carry(f[k - 1], n)]
  <2>1. ASSUME NEW k \in 0..n, k # 0 PROVE f[k] = Carry(f[k - 1], n)
    <3>1. k - 1 \in 0..n /\ k - 1 \in Nat /\ (k - 1) + 1 = k
      BY <2>1
    <3>. QED
      BY <1>4, <3>1
  <2>. QED
    BY <1>4, <2>1
<1>6. s = [k \in 0..n |-> IF k = 0 THEN Start(t, n, x) ELSE Carry(s[k - 1], n)]
  <2> HIDE DEF f
  <2>. QED
    BY <1>5 DEF Carried, Start
<1>7. s[0] = Start(t, n, x)
  BY <1>6
<1>8. ASSUME NEW k \in 0..(n - 1) PROVE s[k + 1] = Carry(s[k], n)
  <2>1. k + 1 \in 0..n /\ k + 1 # 0 /\ (k + 1) - 1 = k
    OBVIOUS
  <2>. QED
    BY <1>6, <2>1
<1> DEFINE I == {k \in 0..n : s[k] \in Probes(n)}
<1>9. 0 \in I /\ \A k \in 0..(n - 1) : k \in I => k + 1 \in I
  BY <1>1, <1>7, <1>8
<1> HIDE DEF I
<1>10. \A k \in 0..n : k \in I
  BY <1>9, Counting
<1>. QED
  BY <1>7, <1>8, <1>10 DEF I

-----------------------------------------------------------------------------
(* Robin Hood tables. *)

\* A bucket is vacant or holds one item.
WellFilled(b, n) ==
    /\ b.dib <= n
    /\ b.dib = 0 => b.held = {}
    /\ b.dib # 0 => \E x \in Items : b.held = {x}

\* The bucket for an entry of dib d and key k, with hash function h.
Spot(h, k, d, n) == (h[k] + d - 1) % n

Placed(h, t, n) ==
    \A i \in 0..(n - 1) : \A x \in t[i].held : i = Spot(h, x.key, t[i].dib, n)

\* Who is not at home has a neighbour at most one step poorer before him.
Chained(t, n) ==
    \A i \in 0..(n - 1) : t[i].dib > 1 => t[Before(i, n)].dib >= t[i].dib - 1

Distinct(t, n) ==
    \A i, j \in 0..(n - 1) : \A x \in t[i].held, y \in t[j].held :
        x.key = y.key => i = j

IsTable(h, t, n) ==
    /\ t \in Tables(n)
    /\ \A i \in 0..(n - 1) : WellFilled(t[i], n)
    /\ Placed(h, t, n)
    /\ Chained(t, n)
    /\ Distinct(t, n)

Full(t, n) == {i \in 0..(n - 1) : t[i].dib # 0}
Contents(t, n) == {x \in Items : \E i \in 0..(n - 1) : x \in t[i].held}

LEMMA TableTypes ==
    ASSUME NEW h \in Hashes, NEW n \in Nat \ {0}, NEW t, IsTable(h, t, n),
           NEW i \in 0..(n - 1)
    PROVE  /\ t[i] \in Entries /\ t[i].dib \in 0..n /\ t[i].held \in SUBSET Items
           /\ \A x \in t[i].held :
                 /\ t[i].dib # 0 /\ t[i].held = {x} /\ x \in Items
                 /\ h[x.key] \in Nat
<1>1. t[i] \in Entries /\ t[i].dib \in 0..n /\ t[i].held \in SUBSET Items
  BY DEF IsTable, Tables, Entries, WellFilled
<1>2. ASSUME NEW x \in t[i].held
      PROVE  t[i].dib # 0 /\ t[i].held = {x} /\ x \in Items /\ h[x.key] \in Nat
  <2>1. x \in Items /\ x.key \in Keys /\ h \in [Keys -> Nat]
    BY <1>1, HashMapAssumption DEF Items
  <2>2. t[i].dib # 0 /\ t[i].held = {x}
    BY DEF IsTable, WellFilled
  <2>. QED
    BY <2>1, <2>2
<1>. QED
  BY <1>1, <1>2

\* Spots one after the other.
LEMMA Spots ==
    ASSUME NEW h \in Hashes, NEW n \in Nat \ {0}, NEW k \in Keys
    PROVE  /\ h[k] \in Nat
           /\ Spot(h, k, 1, n) = h[k] % n
           /\ \A d \in Nat \ {0} :
                 /\ Spot(h, k, d, n) \in 0..(n - 1)
                 /\ Spot(h, k, d + 1, n) = After(Spot(h, k, d, n), n)
                 /\ Before(Spot(h, k, d + 1, n), n) = Spot(h, k, d, n)
           /\ \A d, e \in 1..n : Spot(h, k, d, n) = Spot(h, k, e, n) => d = e
           /\ \A i \in 0..(n - 1) : \E d \in 1..n : Spot(h, k, d, n) = i
<1>1. h[k] \in Nat
  BY HashMapAssumption
<1>2. Spot(h, k, 1, n) = h[k] % n
  BY <1>1 DEF Spot
<1>3. ASSUME NEW d \in Nat \ {0}
      PROVE  /\ Spot(h, k, d, n) \in 0..(n - 1)
             /\ Spot(h, k, d + 1, n) = After(Spot(h, k, d, n), n)
             /\ Before(Spot(h, k, d + 1, n), n) = Spot(h, k, d, n)
  <2> DEFINE a == h[k] + d - 1
  <2>1. a \in Nat /\ h[k] + (d + 1) - 1 = a + 1
    BY <1>1
  <2>2. a % n \in 0..(n - 1) /\ After(a % n, n) = (a + 1) % n /\ Before((a + 1) % n, n) = a % n
    <3> HIDE DEF a
    <3>. QED
      BY <2>1, RingStep
  <2>. QED
    BY <2>1, <2>2 DEF Spot
<1>4. ASSUME NEW d \in 1..n, NEW e \in 1..n, Spot(h, k, d, n) = Spot(h, k, e, n)
      PROVE  d = e
  <2>1. d - 1 \in 0..(n - 1) /\ e - 1 \in 0..(n - 1)
    OBVIOUS
  <2>2. h[k] + d - 1 = h[k] + (d - 1) /\ h[k] + e - 1 = h[k] + (e - 1)
    BY <1>1
  <2>3. (h[k] + (d - 1)) % n = (h[k] + (e - 1)) % n
    BY <1>4, <2>2 DEF Spot
  <2>4. d - 1 = e - 1
    BY <1>1, <2>1, <2>3, RingDistances
  <2>. QED
    BY <2>4
<1>5. ASSUME NEW i \in 0..(n - 1) PROVE \E d \in 1..n : Spot(h, k, d, n) = i
  <2>1. PICK e \in 0..(n - 1) : (h[k] + e) % n = i
    BY <1>1, RingDistances
  <2>2. e + 1 \in 1..n /\ h[k] + (e + 1) - 1 = h[k] + e
    BY <1>1
  <2>. QED
    BY <2>1, <2>2 DEF Spot
<1>. QED
  BY <1>1, <1>2, <1>3, <1>4, <1>5

LEMMA SpotNext ==
    ASSUME NEW h \in Hashes, NEW n \in Nat \ {0}, NEW k \in Keys, NEW d \in Nat \ {0}
    PROVE  /\ Spot(h, k, d, n) \in 0..(n - 1)
           /\ Spot(h, k, d + 1, n) \in 0..(n - 1)
           /\ Spot(h, k, d + 1, n) = After(Spot(h, k, d, n), n)
           /\ Before(Spot(h, k, d + 1, n), n) = Spot(h, k, d, n)
<1>1. d + 1 \in Nat \ {0}
  OBVIOUS
<1>. QED
  BY <1>1, Spots

LEMMA SpotOnce ==
    ASSUME NEW h \in Hashes, NEW n \in Nat \ {0}, NEW k \in Keys,
           NEW d \in 1..n, NEW e \in 1..n, Spot(h, k, d, n) = Spot(h, k, e, n)
    PROVE  d = e
BY Spots

\* On the way from its home to an entry there is no vacant bucket, and nobody
\* the entry could have robbed.
LEMMA Path ==
    ASSUME NEW h \in Hashes, NEW n \in Nat \ {0}, NEW t, IsTable(h, t, n),
           NEW p \in 0..(n - 1), NEW x \in t[p].held
    PROVE  /\ t[p].dib \in 1..n /\ Spot(h, x.key, t[p].dib, n) = p
           /\ \A j \in 1..t[p].dib : t[Spot(h, x.key, j, n)].dib >= j
<1> DEFINE d == t[p].dib
           I == {c \in 0..(d - 1) : t[Spot(h, x.key, d - c, n)].dib >= d - c}
<1>1. d \in 1..n /\ Spot(h, x.key, d, n) = p /\ x.key \in Keys
  BY TableTypes DEF IsTable, Placed, Items
<1>2. 0 \in I
  <2>1. d - 0 = d /\ 0 \in 0..(d - 1) /\ d >= d
    BY <1>1
  <2>. QED
    BY <1>1, <2>1
<1>3. ASSUME NEW c \in 0..((d - 1) - 1), c \in I PROVE c + 1 \in I
  <2> DEFINE e == d - (c + 1)
  <2>1. e \in Nat \ {0} /\ e + 1 = d - c /\ c + 1 \in 0..(d - 1)
    BY <1>1
  <2> DEFINE q == Spot(h, x.key, e + 1, n)
  <2>2. q \in 0..(n - 1) /\ Before(q, n) = Spot(h, x.key, e, n) /\ Spot(h, x.key, e, n) \in 0..(n - 1)
    <3>1. x.key \in Keys /\ e \in Nat \ {0}
      BY <1>1, <2>1
    <3> HIDE DEF e, d
    <3>. QED
      BY <3>1, SpotNext
  <2>3. t[q].dib >= e + 1
    BY <1>3, <2>1
  <2>4. t[q].dib \in Nat /\ t[Before(q, n)].dib \in Nat
    BY <2>2, TableTypes
  <2>5. t[Before(q, n)].dib >= t[q].dib - 1
    BY <2>1, <2>2, <2>3, <2>4 DEF IsTable, Chained
  <2>6. t[Spot(h, x.key, e, n)].dib >= e
    <3> HIDE DEF q, e
    <3>. QED
      BY <2>1, <2>2, <2>3, <2>4, <2>5
  <2>. QED
    BY <2>1, <2>6
<1> HIDE DEF I
<1>4. \A c \in 0..(d - 1) : c \in I
  BY <1>1, <1>2, <1>3, Counting
<1>5. ASSUME NEW j \in 1..d PROVE t[Spot(h, x.key, j, n)].dib >= j
  <2>1. d - j \in 0..(d - 1) /\ d - (d - j) = j
    BY <1>1
  <2>2. d - j \in I
    BY <1>4, <2>1
  <2>. QED
    BY <2>1, <2>2 DEF I
<1>. QED
  BY <1>1, <1>5

-----------------------------------------------------------------------------
(* hashmap_set of a key that is there: its item is replaced. *)

Replaced(t, p, x) == With(t, p, Entry(t[p].dib, {x}))

LEMMA ReplacedIsTable ==
    ASSUME NEW h \in Hashes, NEW n \in Nat \ {0}, NEW t, IsTable(h, t, n), NEW x \in Items,
           NEW p \in 0..(n - 1), NEW z \in t[p].held, z.key = x.key,
           NEW u, u = Replaced(t, p, x)
    PROVE  /\ IsTable(h, u, n)
           /\ Full(u, n) = Full(t, n)
           /\ Contents(u, n) = (Contents(t, n) \ {z}) \cup {x}
<1>1. /\ t[p].dib \in 1..n /\ t[p].held = {z} /\ z \in Items
      /\ p = Spot(h, z.key, t[p].dib, n) /\ t \in Tables(n)
  BY TableTypes DEF IsTable, Placed
<1>2. /\ u \in Tables(n) /\ u[p].dib = t[p].dib /\ u[p].held = {x}
      /\ \A i \in 0..(n - 1) : i # p => u[i] = t[i]
  <2> DEFINE e == Entry(t[p].dib, {x})
  <2>1. e \in Entries /\ e.dib = t[p].dib /\ e.held = {x}
    BY <1>1, EntryFacts
  <2>2. u = With(t, p, e)
    BY DEF Replaced
  <2> HIDE DEF e
  <2>3. /\ u \in Tables(n) /\ u[p] = e
        /\ \A i \in 0..(n - 1) : i # p => u[i] = t[i]
    BY <1>1, <2>1, <2>2, WithFacts
  <2>. QED
    BY <2>1, <2>3
<1>3. /\ \A i \in 0..(n - 1) : u[i].dib = t[i].dib
      /\ \A i \in 0..(n - 1) : i # p => u[i].held = t[i].held
      /\ u[p].held = {x}
  BY <1>2
<1>4. \A i \in 0..(n - 1) : WellFilled(u[i], n)
  BY <1>1, <1>2 DEF IsTable, WellFilled
<1>5. Placed(h, u, n)
  BY <1>1, <1>3 DEF IsTable, Placed
<1>6. Chained(u, n)
  <2>1. \A i \in 0..(n - 1) : Before(i, n) \in 0..(n - 1)
    BY RingNeighbours
  <2>. QED
    BY <1>3, <2>1 DEF IsTable, Chained
<1>7. Distinct(u, n)
  BY <1>1, <1>3 DEF IsTable, Distinct
<1>8. Full(u, n) = Full(t, n)
  BY <1>3 DEF Full
<1>9. Contents(u, n) = (Contents(t, n) \ {z}) \cup {x}
  <2>1. ASSUME NEW i \in 0..(n - 1), i # p PROVE z \notin t[i].held
    BY <2>1 DEF IsTable, Distinct
  <2>. QED
    BY <1>1, <1>3, <2>1 DEF Contents
<1>. QED
  BY <1>2, <1>4, <1>5, <1>6, <1>7, <1>8, <1>9 DEF IsTable

\* A probe that carries x, at distance d, and one that has ended.
OnTheWay(s, t, n, x, d) ==
    /\ s.buckets = t /\ s.entry = Entry(d, {x})
    /\ s.at = Spot(hash, x.key, d, n) /\ s.displaced = {} /\ ~s.done

Ended(s, u, gone) == s.buckets = u /\ s.displaced = gone /\ s.done

LEMMA StartOnTheWay ==
    ASSUME hash \in Hashes, NEW n \in Nat \ {0}, NEW t, NEW x \in Items
    PROVE  OnTheWay(Start(t, n, x), t, n, x, 1)
<1>1. x.key \in Keys
  BY DEF Items
<1>2. Spot(hash, x.key, 1, n) = Home(x.key, n)
  BY <1>1, Spots DEF Home
<1>. QED
  BY <1>2 DEF OnTheWay, Start, Entry

LEMMA ReplaceStep ==
    ASSUME hash \in Hashes, NEW n \in Nat \ {0}, NEW t, IsTable(hash, t, n),
           NEW x \in Items, NEW p \in 0..(n - 1), NEW z \in t[p].held, z.key = x.key,
           NEW d, d = t[p].dib, NEW j \in 1..d,
           NEW s \in Probes(n), OnTheWay(s, t, n, x, j), NEW c, c = Carry(s, n)
    PROVE  /\ j = d => Ended(c, Replaced(t, p, x), {z})
           /\ j # d => OnTheWay(c, t, n, x, j + 1)
<1>1. /\ d \in 1..n /\ Spot(hash, x.key, d, n) = p
      /\ t[Spot(hash, x.key, j, n)].dib >= j
      /\ x.key \in Keys /\ t[p].held = {z} /\ t \in Tables(n)
  BY Path, TableTypes DEF IsTable, Items
<1>2. /\ j \in 1..n /\ j \in Nat \ {0}
      /\ Spot(hash, x.key, j, n) \in 0..(n - 1)
      /\ Spot(hash, x.key, j + 1, n) = After(Spot(hash, x.key, j, n), n)
  <2>1. j \in 1..n /\ j \in Nat \ {0}
    BY <1>1
  <2>. QED
    BY <1>1, <2>1, SpotNext
<1> DEFINE b == t[Spot(hash, x.key, j, n)]
<1>3. b.dib >= j /\ b.dib \in Nat /\ b.dib # 0
  BY <1>1, <1>2, TableTypes
<1>4. /\ b = s.buckets[s.at] /\ s.buckets = t /\ s.entry.dib = j /\ s.entry.held = {x}
      /\ s.at = Spot(hash, x.key, j, n) /\ s.displaced = {} /\ ~s.done
  BY <1>2, EntryFacts DEF OnTheWay
<1> HIDE DEF b
<1>5. ASSUME Meets(s, b)
      PROVE  c.buckets = With(t, s.at, Entry(b.dib, {x})) /\ c.displaced = b.held /\ c.done
  <2>1. ~s.done /\ b = s.buckets[s.at] /\ b.dib # 0
    BY <1>3, <1>4
  <2>2. c.buckets = With(s.buckets, s.at, Entry(b.dib, s.entry.held))
    BY <1>5, <2>1, CarryMeets
  <2>3. c.displaced = b.held /\ c.done
    BY <1>5, <2>1, CarryMeets
  <2>. QED
    BY <1>4, <2>2, <2>3
<1>8. ASSUME ~Meets(s, b)
      PROVE  /\ c.at = After(s.at, n) /\ c.displaced = {} /\ ~c.done
             /\ c.buckets = t /\ c.entry = Entry(j + 1, {x})
  <2>1. ~(b.dib < s.entry.dib)
    BY <1>3, <1>4
  <2>2. c.at = After(s.at, n) /\ c.displaced = s.displaced
    BY <1>3, <1>4, <1>8, <2>1, CarryPasses
  <2>3. c.buckets = s.buckets /\ c.entry = Entry(s.entry.dib + 1, s.entry.held)
    BY <1>3, <1>4, <1>8, <2>1, CarryPasses
  <2>4. ~c.done
    BY <1>3, <1>4, <1>8, <2>1, CarryPasses
  <2>. QED
    BY <1>4, <2>2, <2>3, <2>4
<1>6. ASSUME j = d PROVE Ended(c, Replaced(t, p, x), {z})
  <2>1. b = t[p] /\ s.at = p
    BY <1>1, <1>4, <1>6
  <2>2. Meets(s, b)
    BY <1>1, <1>4, <2>1 DEF Meets, Has
  <2>3. b.dib = t[p].dib /\ b.held = {z}
    BY <1>1, <2>1
  <2>. QED
    BY <1>5, <2>1, <2>2, <2>3 DEF Ended, Replaced
<1>7. ASSUME j # d PROVE OnTheWay(c, t, n, x, j + 1)
  <2>1. ~Meets(s, b)
    <3>1. SUFFICES ASSUME NEW y \in b.held, y.key = x.key PROVE FALSE
      BY <1>4 DEF Meets, Has
    <3>2. Spot(hash, x.key, j, n) = p
      BY <1>2, <3>1 DEF IsTable, Distinct, b
    <3>3. j = d
      BY <1>1, <1>2, <3>2, SpotOnce
    <3>. QED
      BY <1>7, <3>3
  <2>. QED
    BY <1>2, <1>4, <1>8, <2>1 DEF OnTheWay
<1>. QED
  BY <1>6, <1>7

LEMMA PutReplaces ==
    ASSUME hash \in Hashes, NEW n \in Nat \ {0}, NEW t, IsTable(hash, t, n),
           NEW x \in Items, NEW p \in 0..(n - 1), NEW z \in t[p].held, z.key = x.key
    PROVE  /\ Put(t, n, x).buckets = Replaced(t, p, x)
           /\ Put(t, n, x).displaced = {z}
<1> DEFINE s == Carried(t, n, x)
           d == t[p].dib
           I == {k \in 0..n : /\ k < d => OnTheWay(s[k], t, n, x, k + 1)
                              /\ k >= d => Ended(s[k], Replaced(t, p, x), {z})}
<1>1. d \in 1..n /\ t \in Tables(n)
  BY Path DEF IsTable
<1>2. /\ s[0] = Start(t, n, x)
      /\ \A k \in 0..(n - 1) : s[k + 1] = Carry(s[k], n)
      /\ \A k \in 0..n : s[k] \in Probes(n)
  BY <1>1, CarriedDef
<1> HIDE DEF s, d
<1>3. 0 \in I
  <2>1. 0 \in 0..n /\ 0 < d /\ ~(0 >= d) /\ 0 + 1 = 1
    BY <1>1
  <2>. QED
    BY <1>2, <2>1, StartOnTheWay
<1>4. ASSUME NEW k \in 0..(n - 1), k \in I PROVE k + 1 \in I
  <2>1. k \in 0..n /\ k + 1 \in 0..n /\ s[k] \in Probes(n) /\ s[k + 1] = Carry(s[k], n)
    BY <1>2
  <2>2. CASE k >= d
    <3>1. Ended(s[k], Replaced(t, p, x), {z})
      BY <1>4, <2>2
    <3>2. s[k + 1] = s[k]
      BY <2>1, <3>1 DEF Ended, Carry
    <3>. QED
      BY <1>1, <2>1, <2>2, <3>1, <3>2
  <2>3. CASE k < d
    <3>1. k + 1 \in 1..d /\ OnTheWay(s[k], t, n, x, k + 1)
      BY <1>1, <1>4, <2>3
    <3>2. /\ k + 1 = d => Ended(s[k + 1], Replaced(t, p, x), {z})
          /\ k + 1 # d => OnTheWay(s[k + 1], t, n, x, (k + 1) + 1)
      BY SMTT(30), <2>1, <3>1, ReplaceStep DEF d
    <3>. QED
      BY <1>1, <2>1, <3>1, <3>2
  <2>. QED
    BY <1>1, <2>2, <2>3
<1> HIDE DEF I
<1>5. n \in I
  BY <1>3, <1>4, Counting
<1>. QED
  BY <1>1, <1>5 DEF I, s, Put, Ended

-----------------------------------------------------------------------------
(* hashmap_set of a key that is not there: the table gets one more entry. *)

Absent(k, t, n) == \A i \in 0..(n - 1) : \A z \in t[i].held : z.key # k

\* u is t but for the entry of dib d and item y in bucket i.
Takes(u, t, i, d, y, n) ==
    /\ u \in Tables(n) /\ u[i].dib = d /\ u[i].held = {y}
    /\ \A j \in 0..(n - 1) : j # i => u[j] = t[j]

LEMMA WithTakes ==
    ASSUME NEW n \in Nat \ {0}, NEW t \in Tables(n), NEW i \in 0..(n - 1),
           NEW d \in Nat, NEW y \in Items
    PROVE  Takes(With(t, i, Entry(d, {y})), t, i, d, y, n)
<1> DEFINE e == Entry(d, {y})
<1>1. e \in Entries /\ e.dib = d /\ e.held = {y}
  BY EntryFacts
<1> HIDE DEF e
<1>2. With(t, i, e) \in Tables(n)
  BY <1>1, WithFacts
<1>3. With(t, i, e)[i] = e
  BY <1>1, WithFacts
<1>4. \A j \in 0..(n - 1) : j # i => With(t, i, e)[j] = t[j]
  BY <1>1, WithFacts
<1>5. Takes(With(t, i, e), t, i, d, y, n)
  BY <1>1, <1>2, <1>3, <1>4 DEF Takes
<1>. QED
  BY <1>5 DEF e

\* An entry goes into its bucket, which is vacant or held by a richer one.
LEMMA TakesIsTable ==
    ASSUME NEW h \in Hashes, NEW n \in Nat \ {0}, NEW t, IsTable(h, t, n),
           NEW y \in Items, Absent(y.key, t, n), NEW d \in 1..n,
           NEW i \in 0..(n - 1), i = Spot(h, y.key, d, n), t[i].dib < d,
           d > 1 => t[Before(i, n)].dib >= d - 1,
           NEW u, Takes(u, t, i, d, y, n)
    PROVE  /\ IsTable(h, u, n)
           /\ Full(u, n) = Full(t, n) \cup {i}
           /\ Contents(u, n) = (Contents(t, n) \ t[i].held) \cup {y}
<1>1. t \in Tables(n) /\ d \in Nat /\ d # 0
  BY DEF IsTable
<1>2. /\ u \in Tables(n) /\ u[i].dib = d /\ u[i].held = {y}
      /\ \A j \in 0..(n - 1) : j # i => u[j] = t[j]
  BY DEF Takes
<1>3. \A j \in 0..(n - 1) : WellFilled(u[j], n)
  <2>1. ASSUME NEW j \in 0..(n - 1), j # i PROVE WellFilled(u[j], n)
    <3>1. WellFilled(t[j], n) /\ u[j] = t[j]
      BY <1>2, <2>1 DEF IsTable
    <3>. QED
      BY <3>1
  <2>2. WellFilled(u[i], n)
    BY <1>1, <1>2 DEF WellFilled
  <2>. QED
    BY <2>1, <2>2
<1>4. Placed(h, u, n)
  <2>1. ASSUME NEW j \in 0..(n - 1), j # i, NEW z \in u[j].held
        PROVE  j = Spot(h, z.key, u[j].dib, n)
    BY <1>2, <2>1 DEF IsTable, Placed
  <2>2. ASSUME NEW z \in u[i].held PROVE i = Spot(h, z.key, u[i].dib, n)
    BY <1>2, <2>2
  <2>. QED
    BY <2>1, <2>2 DEF Placed
<1>5. Chained(u, n)
  <2> SUFFICES ASSUME NEW j \in 0..(n - 1), u[j].dib > 1
               PROVE  u[Before(j, n)].dib >= u[j].dib - 1
    BY DEF Chained
  <2>1. Before(j, n) \in 0..(n - 1) /\ t[Before(j, n)].dib \in Nat /\ t[j].dib \in Nat
    BY RingNeighbours, TableTypes
  <2>2. CASE j = i
    <3>1. CASE Before(j, n) = i
      <4>1. u[Before(j, n)].dib = d /\ u[j].dib = d
        BY <1>2, <2>2, <3>1
      <4>. QED
        BY <1>1, <4>1
    <3>2. CASE Before(j, n) # i
      <4>1. u[Before(j, n)] = t[Before(j, n)] /\ u[j].dib = d
        BY <1>2, <2>1, <2>2, <3>2
      <4>2. t[Before(j, n)].dib >= d - 1
        BY <2>2, <4>1
      <4>. QED
        BY <4>1, <4>2
    <3>. QED
      BY <3>1, <3>2
  <2>3. CASE j # i
    <3>1. u[j] = t[j]
      BY <1>2, <2>3
    <3>2. t[Before(j, n)].dib >= t[j].dib - 1
      BY <3>1 DEF IsTable, Chained
    <3>3. CASE Before(j, n) = i
      <4>1. u[Before(j, n)].dib = d /\ t[Before(j, n)].dib < d
        BY <1>2, <3>3
      <4>. QED
        BY <1>1, <2>1, <3>1, <3>2, <4>1
    <3>4. CASE Before(j, n) # i
      <4>1. u[Before(j, n)] = t[Before(j, n)]
        BY <1>2, <2>1, <3>4
      <4>. QED
        BY <3>1, <3>2, <4>1
    <3>. QED
      BY <3>3, <3>4
  <2>. QED
    BY <2>2, <2>3
<1>6. Distinct(u, n)
  <2> SUFFICES ASSUME NEW j \in 0..(n - 1), NEW k \in 0..(n - 1),
                      NEW v \in u[j].held, NEW z \in u[k].held, v.key = z.key, j # k
               PROVE  FALSE
    BY DEF Distinct
  <2>1. CASE j = i
    <3>1. v = y /\ z \in t[k].held
      BY <1>2, <2>1
    <3>. QED
      BY <3>1 DEF Absent
  <2>2. CASE k = i
    <3>1. z = y /\ v \in t[j].held
      BY <1>2, <2>2
    <3>. QED
      BY <3>1 DEF Absent
  <2>3. CASE j # i /\ k # i
    <3>1. v \in t[j].held /\ z \in t[k].held
      BY <1>2, <2>3
    <3>. QED
      BY <3>1 DEF IsTable, Distinct
  <2>. QED
    BY <2>1, <2>2, <2>3
<1>7. Full(u, n) = Full(t, n) \cup {i}
  BY <1>1, <1>2 DEF Full
<1>8. Contents(u, n) = (Contents(t, n) \ t[i].held) \cup {y}
  <2>1. \A j \in 0..(n - 1) : j # i => \A z \in t[j].held : z \notin t[i].held
    BY DEF IsTable, Distinct
  <2>2. ASSUME NEW z \in Items, z \in Contents(u, n)
        PROVE  z \in (Contents(t, n) \ t[i].held) \cup {y}
    <3>1. PICK j \in 0..(n - 1) : z \in u[j].held
      BY <2>2 DEF Contents
    <3>2. j = i \/ (j # i /\ z \in t[j].held)
      BY <1>2, <3>1
    <3>. QED
      BY <1>2, <2>1, <3>1, <3>2 DEF Contents
  <2>3. ASSUME NEW z \in Contents(t, n), z \notin t[i].held PROVE z \in Contents(u, n)
    <3>1. PICK j \in 0..(n - 1) : z \in t[j].held
      BY <2>3 DEF Contents
    <3>2. z \in u[j].held /\ z \in Items
      BY <1>2, <2>3, <3>1 DEF Contents
    <3>. QED
      BY <3>2 DEF Contents
  <2>4. y \in Contents(u, n)
    BY <1>2 DEF Contents
  <2>5. \A z \in Contents(u, n) : z \in Items
    BY DEF Contents
  <2>. QED
    BY <2>2, <2>3, <2>4, <2>5
<1>. QED
  BY <1>2, <1>3, <1>4, <1>5, <1>6, <1>7, <1>8 DEF IsTable

\* A probe that carries an entry, x or one that was robbed, after k steps; and
\* the table that comes of it.
CanTake(t, i, n, y, d) ==
    /\ i = Spot(hash, y.key, d, n) /\ Absent(y.key, t, n)
    /\ d > 1 => t[Before(i, n)].dib >= d - 1

Settling(s, t, n, x, k) ==
    /\ ~s.done /\ s.displaced = {}
    /\ s.at = Spot(hash, x.key, k + 1, n)
    /\ IsTable(hash, s.buckets, n)
    /\ Full(s.buckets, n) = Full(t, n)
    /\ \A j \in 1..k : Spot(hash, x.key, j, n) \in Full(t, n)
    /\ s.entry.dib \in 1..(k + 1)
    /\ \E y \in Items :
          /\ s.entry.held = {y}
          /\ CanTake(s.buckets, s.at, n, y, s.entry.dib)
          /\ Contents(s.buckets, n) \cup {y} = Contents(t, n) \cup {x}

OneMore(u, t, n, x) ==
    /\ IsTable(hash, u, n)
    /\ Contents(u, n) = Contents(t, n) \cup {x}
    /\ \E p \in (0..(n - 1)) \ Full(t, n) : Full(u, n) = Full(t, n) \cup {p}

Settled(s, t, n, x) == s.done /\ s.displaced = {} /\ OneMore(s.buckets, t, n, x)

\* The entry carried robs a bucket and that of the robbed one is carried on.
LEMMA Robbing ==
    ASSUME hash \in Hashes, NEW n \in Nat \ {0}, NEW u, IsTable(hash, u, n),
           NEW i \in 0..(n - 1), NEW y \in Items, NEW d \in 1..n, CanTake(u, i, n, y, d),
           NEW z \in Items, NEW e \in Nat, u[i].held = {z}, u[i].dib = e, e # 0, e < d,
           NEW w, Takes(w, u, i, d, y, n)
    PROVE  /\ IsTable(hash, w, n) /\ Full(w, n) = Full(u, n)
           /\ Contents(w, n) \cup {z} = Contents(u, n) \cup {y}
           /\ CanTake(w, After(i, n), n, z, e + 1)
<1>1. /\ i = Spot(hash, y.key, d, n) /\ Absent(y.key, u, n)
      /\ d > 1 => u[Before(i, n)].dib >= d - 1
  BY DEF CanTake
<1>2. /\ IsTable(hash, w, n) /\ Full(w, n) = Full(u, n) \cup {i}
      /\ Contents(w, n) = (Contents(u, n) \ u[i].held) \cup {y}
  BY <1>1, TakesIsTable
<1>3. i \in Full(u, n)
  BY DEF Full
<1>4. z \in Contents(u, n)
  BY DEF Contents
<1>5. After(i, n) = Spot(hash, z.key, e + 1, n)
  <2>1. i = Spot(hash, z.key, e, n) /\ z.key \in Keys
    BY DEF IsTable, Placed, Items
  <2>. QED
    BY ZenonT(30), <2>1, SpotNext
<1>6. Absent(z.key, w, n)
  <2> SUFFICES ASSUME NEW j \in 0..(n - 1), NEW v \in w[j].held, v.key = z.key PROVE FALSE
    BY DEF Absent
  <2>1. CASE j = i
    <3>1. v = y
      BY <2>1 DEF Takes
    <3>. QED
      BY <1>1, <3>1 DEF Absent
  <2>2. CASE j # i
    <3>1. v \in u[j].held
      BY <2>2 DEF Takes
    <3>. QED
      BY <2>2, <3>1 DEF IsTable, Distinct
  <2>. QED
    BY <2>1, <2>2
<1>7. w[Before(After(i, n), n)].dib >= (e + 1) - 1
  <2>1. Before(After(i, n), n) = i
    BY RingNeighbours
  <2>2. w[i].dib = d
    BY DEF Takes
  <2>. QED
    BY <2>1, <2>2
<1>8. CanTake(w, After(i, n), n, z, e + 1)
  BY <1>5, <1>6, <1>7 DEF CanTake
<1>9. Full(w, n) = Full(u, n)
  BY <1>2, <1>3
<1>10. Contents(w, n) \cup {z} = Contents(u, n) \cup {y}
  BY <1>2, <1>4
<1>. QED
  BY <1>2, <1>8, <1>9, <1>10

LEMMA SettleStep ==
    ASSUME hash \in Hashes, NEW n \in Nat \ {0}, NEW t, NEW x \in Items,
           NEW k \in 0..(n - 1), NEW s \in Probes(n), Settling(s, t, n, x, k),
           NEW c, c = Carry(s, n)
    PROVE  Settled(c, t, n, x) \/ Settling(c, t, n, x, k + 1)
<1>0. PICK u, i, d, b : u = s.buckets /\ i = s.at /\ d = s.entry.dib /\ b = u[i]
  OBVIOUS
<1>1. PICK y \in Items :
         /\ s.entry.held = {y} /\ CanTake(u, i, n, y, d)
         /\ Contents(u, n) \cup {y} = Contents(t, n) \cup {x}
  BY <1>0 DEF Settling
<1>2. /\ ~s.done /\ s.displaced = {} /\ i = Spot(hash, x.key, k + 1, n)
      /\ IsTable(hash, u, n) /\ Full(u, n) = Full(t, n)
      /\ \A j \in 1..k : Spot(hash, x.key, j, n) \in Full(t, n)
      /\ d \in 1..(k + 1)
  BY <1>0 DEF Settling
<1>3. /\ u \in Tables(n) /\ i \in 0..(n - 1) /\ s.entry = Entry(d, {y})
      /\ d \in 1..n /\ d \in Nat \ {0} /\ x.key \in Keys /\ y.key \in Keys
  <2>1. s.entry \in Entries /\ u \in Tables(n) /\ i \in 0..(n - 1)
    BY <1>0, ProbeParts
  <2>2. s.entry = Entry(d, s.entry.held)
    BY <1>0, <2>1, EntryIs
  <2>. QED
    BY <1>1, <1>2, <2>1, <2>2 DEF Items
<1>4. b \in Entries /\ b.dib \in 0..n /\ b.dib \in Nat /\ b.held \in SUBSET Items
  BY <1>0, <1>2, <1>3, TableTypes
<1>5. ~Meets(s, b)
  <2>1. Absent(y.key, u, n)
    BY <1>1 DEF CanTake
  <2>. QED
    BY <1>0, <1>1, <1>3, <2>1 DEF Meets, Has, Absent
<1>6. PICK w : w = With(u, i, s.entry) /\ Takes(w, u, i, d, y, n)
  BY <1>3, WithTakes
<1>7. CASE b.dib = 0
  <2>1. c.buckets = w /\ c.displaced = {} /\ c.done
    <3>1. ~s.done /\ s.buckets[s.at].dib = 0
      BY <1>0, <1>2, <1>7
    <3>2. c.buckets = With(s.buckets, s.at, s.entry) /\ c.displaced = s.displaced
      BY <3>1, CarryVacant
    <3>3. c.done
      BY <3>1, CarryVacant
    <3>. QED
      BY <1>0, <1>2, <1>6, <3>2, <3>3
  <2>2. u[i].held = {} /\ u[i].dib = 0 /\ u[i].dib < d
    BY <1>0, <1>2, <1>3, <1>7 DEF IsTable, WellFilled
  <2>3. /\ i = Spot(hash, y.key, d, n) /\ Absent(y.key, u, n)
        /\ d > 1 => u[Before(i, n)].dib >= d - 1
    BY <1>1 DEF CanTake
  <2>4. /\ IsTable(hash, w, n) /\ Full(w, n) = Full(u, n) \cup {i}
        /\ Contents(w, n) = (Contents(u, n) \ u[i].held) \cup {y}
    <3>1. IsTable(hash, u, n) /\ i \in 0..(n - 1) /\ d \in 1..n /\ Takes(w, u, i, d, y, n)
      BY <1>2, <1>3, <1>6
    <3>2. u[i].dib < d
      BY <2>2
    <3>. QED
      BY <2>3, <3>1, <3>2, TakesIsTable
  <2>5. Contents(w, n) = Contents(t, n) \cup {x}
    BY <1>1, <2>2, <2>4
  <2>6. i \in (0..(n - 1)) \ Full(t, n) /\ Full(w, n) = Full(t, n) \cup {i}
    <3>1. i \notin Full(u, n)
      BY <2>2 DEF Full
    <3>. QED
      BY <1>2, <1>3, <2>4, <3>1
  <2>7. OneMore(w, t, n, x)
    BY <2>4, <2>5, <2>6 DEF OneMore
  <2>. QED
    BY <2>1, <2>7 DEF Settled
<1>8. CASE b.dib # 0
  <2>1. \A j \in 1..(k + 1) : Spot(hash, x.key, j, n) \in Full(t, n)
    <3>1. i \in Full(t, n)
      BY <1>0, <1>2, <1>3, <1>8 DEF Full
    <3>2. ASSUME NEW j \in 1..(k + 1) PROVE Spot(hash, x.key, j, n) \in Full(t, n)
      <4>1. CASE j = k + 1
        BY <1>2, <3>1, <4>1
      <4>2. CASE j # k + 1
        <5>1. j \in 1..k
          BY <4>2
        <5>. QED
          BY <1>2, <5>1
      <4>. QED
        BY <4>1, <4>2
    <3>. QED
      BY <3>2
  <2>2. /\ After(i, n) \in 0..(n - 1) /\ Before(After(i, n), n) = i
        /\ After(i, n) = Spot(hash, x.key, (k + 1) + 1, n)
    <3>1. k + 1 \in Nat \ {0}
      OBVIOUS
    <3>2. After(Spot(hash, x.key, k + 1, n), n) = Spot(hash, x.key, (k + 1) + 1, n)
      BY <1>3, <3>1, SpotNext
    <3>. QED
      BY <1>2, <1>3, <3>2, RingNeighbours
  <2>3. CASE b.dib < d
    <3>0. /\ ~s.done /\ b = s.buckets[s.at] /\ b.dib # 0 /\ ~Meets(s, b)
          /\ b.dib < s.entry.dib
      BY <1>0, <1>2, <1>5, <1>8, <2>3
    <3>1. c.at = After(i, n) /\ c.displaced = {}
      <4>1. c.at = After(s.at, n) /\ c.displaced = s.displaced
        BY <3>0, CarryRobs
      <4>. QED
        BY <1>0, <1>2, <4>1
    <3>2. ~c.done
      BY <3>0, CarryRobs
    <3>3. c.buckets = w
      <4>1. c.buckets = With(s.buckets, s.at, s.entry)
        BY <3>0, CarryRobs
      <4>. QED
        BY <1>0, <1>6, <4>1
    <3>4. c.entry = Entry(b.dib + 1, b.held)
      BY <3>0, CarryRobs
    <3>5. PICK z \in Items : b.held = {z}
      BY <1>0, <1>2, <1>3, <1>8 DEF IsTable, WellFilled
    <3>6. c.entry.dib = b.dib + 1 /\ c.entry.held = {z}
      <4>1. b.dib + 1 \in Nat
        BY <1>4
      <4>. QED
        BY <1>4, <3>4, <3>5, <4>1, EntryFacts
    <3>7. b.dib + 1 \in 1..((k + 1) + 1)
      BY <1>2, <1>4, <2>3
    <3>8. /\ IsTable(hash, w, n) /\ Full(w, n) = Full(u, n)
          /\ Contents(w, n) \cup {z} = Contents(u, n) \cup {y}
          /\ CanTake(w, After(i, n), n, z, b.dib + 1)
      <4>1. PICK e \in Nat : e = b.dib
        BY <1>4
      <4>2. u[i].held = {z} /\ u[i].dib = e /\ e # 0 /\ e < d
        BY <1>0, <1>8, <2>3, <3>5, <4>1
      <4>3. IsTable(hash, u, n) /\ CanTake(u, i, n, y, d) /\ Takes(w, u, i, d, y, n)
        BY <1>1, <1>2, <1>6
      <4>4. /\ IsTable(hash, w, n) /\ Full(w, n) = Full(u, n)
            /\ Contents(w, n) \cup {z} = Contents(u, n) \cup {y}
            /\ CanTake(w, After(i, n), n, z, e + 1)
        BY <1>3, <4>2, <4>3, Robbing
      <4>. QED
        BY <4>1, <4>4
    <3>9. Full(w, n) = Full(t, n) /\ Contents(w, n) \cup {z} = Contents(t, n) \cup {x}
      BY <1>1, <1>2, <3>8
    <3>. QED
      BY <2>1, <2>2, <3>1, <3>2, <3>3, <3>5, <3>6, <3>7, <3>8, <3>9 DEF Settling
  <2>4. CASE ~(b.dib < d)
    <3>0. /\ ~s.done /\ b = s.buckets[s.at] /\ b.dib # 0 /\ ~Meets(s, b)
          /\ ~(b.dib < s.entry.dib)
      BY <1>0, <1>2, <1>5, <1>8, <2>4
    <3>1. c.at = After(i, n) /\ c.displaced = {}
      <4>1. c.at = After(s.at, n) /\ c.displaced = s.displaced
        BY <3>0, CarryPasses
      <4>. QED
        BY <1>0, <1>2, <4>1
    <3>2. ~c.done
      BY <3>0, CarryPasses
    <3>3. c.buckets = u
      BY <1>0, <3>0, CarryPasses
    <3>4. c.entry = Entry(d + 1, {y})
      <4>1. c.entry = Entry(s.entry.dib + 1, s.entry.held)
        BY <3>0, CarryPasses
      <4>. QED
        BY <1>0, <1>1, <4>1
    <3>5. c.entry.dib = d + 1 /\ c.entry.held = {y}
      <4>1. d + 1 \in Nat /\ {y} \in SUBSET Items
        BY <1>3
      <4>. QED
        BY <3>4, <4>1, EntryFacts
    <3>6. d + 1 \in 1..((k + 1) + 1)
      BY <1>2
    <3>7. CanTake(u, After(i, n), n, y, d + 1)
      <4>1. After(i, n) = Spot(hash, y.key, d + 1, n)
        <5>1. i = Spot(hash, y.key, d, n)
          BY <1>1 DEF CanTake
        <5>. QED
          BY <1>3, <5>1, SpotNext
      <4>2. u[Before(After(i, n), n)].dib >= (d + 1) - 1
        BY <1>0, <1>3, <1>4, <2>2, <2>4
      <4>3. Absent(y.key, u, n)
        BY <1>1 DEF CanTake
      <4>. QED
        BY <4>1, <4>2, <4>3 DEF CanTake
    <3>. QED
      BY <1>1, <1>2, <2>1, <2>2, <3>1, <3>2, <3>3, <3>5, <3>6, <3>7 DEF Settling
  <2>. QED
    BY <2>3, <2>4
<1>. QED
  BY <1>4, <1>7, <1>8
LEMMA SettlingStart ==
    ASSUME hash \in Hashes, NEW n \in Nat \ {0}, NEW t, IsTable(hash, t, n),
           NEW x \in Items, Absent(x.key, t, n)
    PROVE  Settling(Start(t, n, x), t, n, x, 0)
<1>. PICK s : s = Start(t, n, x)
  OBVIOUS
<1>1. OnTheWay(s, t, n, x, 1)
  BY StartOnTheWay
<1>2. s.buckets = t /\ s.entry = Entry(1, {x}) /\ s.at = Spot(hash, x.key, 1, n)
  BY <1>1 DEF OnTheWay
<1>3. s.displaced = {} /\ ~s.done
  BY <1>1 DEF OnTheWay
<1>4. s.entry.dib = 1 /\ s.entry.held = {x}
  <2>1. {x} \in SUBSET Items /\ 1 \in Nat
    OBVIOUS
  <2>. QED
    BY <1>2, <2>1, EntryFacts
<1>5. CanTake(t, s.at, n, x, 1)
  BY <1>2 DEF CanTake
<1>6. 0 + 1 = 1 /\ 1 \in 1..1 /\ 1..0 = {}
  OBVIOUS
<1>. QED
  BY <1>2, <1>3, <1>4, <1>5, <1>6 DEF Settling

LEMMA PutInserts ==
    ASSUME hash \in Hashes, NEW n \in Nat \ {0}, NEW t, IsTable(hash, t, n),
           NEW x \in Items, Absent(x.key, t, n), NEW v \in 0..(n - 1), v \notin Full(t, n)
    PROVE  /\ Put(t, n, x).displaced = {}
           /\ OneMore(Put(t, n, x).buckets, t, n, x)
<1>. PICK s : s = Carried(t, n, x)
  OBVIOUS
<1> DEFINE I == {k \in 0..n : Settled(s[k], t, n, x) \/ Settling(s[k], t, n, x, k)}
<1>1. /\ s[0] = Start(t, n, x)
      /\ \A k \in 0..(n - 1) : s[k + 1] = Carry(s[k], n)
      /\ \A k \in 0..n : s[k] \in Probes(n)
  BY CarriedDef DEF IsTable
<1>2. 0 \in I
  BY <1>1, SettlingStart
<1>3. ASSUME NEW k \in 0..(n - 1), k \in I PROVE k + 1 \in I
  <2>1. k \in 0..n /\ k + 1 \in 0..n
    OBVIOUS
  <2>2. s[k] \in Probes(n) /\ s[k + 1] = Carry(s[k], n)
    BY <1>1, <2>1
  <2>3. CASE Settled(s[k], t, n, x)
    <3>1. s[k + 1] = s[k]
      BY <2>2, <2>3, CarryDone DEF Settled
    <3>. QED
      BY <2>1, <2>3, <3>1
  <2>4. CASE Settling(s[k], t, n, x, k)
    <3>1. Settled(s[k + 1], t, n, x) \/ Settling(s[k + 1], t, n, x, k + 1)
      BY <2>2, <2>4, SettleStep
    <3>. QED
      BY <2>1, <3>1
  <2>. QED
    BY <1>3, <2>3, <2>4
<1> HIDE DEF I
<1>4. n \in I
  BY <1>2, <1>3, Counting
<1>5. ~Settling(s[n], t, n, x, n)
  <2>1. x.key \in Keys
    BY DEF Items
  <2>2. PICK d \in 1..n : Spot(hash, x.key, d, n) = v
    BY <2>1, Spots
  <2>. QED
    BY <2>2 DEF Settling
<1>6. Settled(s[n], t, n, x)
  BY <1>4, <1>5 DEF I
<1>. QED
  BY <1>6 DEF Settled, Put

-----------------------------------------------------------------------------
(* Tables and their sizes. *)

LEMMA ZeroedIsTable ==
    ASSUME NEW h \in Hashes, NEW n \in Nat
    PROVE  /\ IsTable(h, Zeroed(n), n) /\ Full(Zeroed(n), n) = {}
           /\ Contents(Zeroed(n), n) = {}
<1>1. Vacant \in Entries /\ Vacant.dib = 0 /\ Vacant.held = {}
  BY DEF Vacant, Entries
<1>. PICK t : t = Zeroed(n)
  OBVIOUS
<1>2. t \in Tables(n) /\ \A i \in 0..(n - 1) : t[i].dib = 0 /\ t[i].held = {}
  BY <1>1 DEF Zeroed, Tables
<1>3. \A i \in 0..(n - 1) : WellFilled(t[i], n)
  BY <1>2 DEF WellFilled
<1>4. Placed(h, t, n) /\ Distinct(t, n)
  BY <1>2 DEF Placed, Distinct
<1>5. Chained(t, n)
  BY <1>2 DEF Chained
<1>6. Full(t, n) = {} /\ Contents(t, n) = {}
  BY <1>2 DEF Full, Contents
<1>. QED
  BY <1>2, <1>3, <1>4, <1>5, <1>6 DEF IsTable

\* A table with fewer entries than buckets has a vacant bucket.
LEMMA RoomLeft ==
    ASSUME NEW n \in Nat, NEW t
    PROVE  /\ IsFiniteSet(Full(t, n)) /\ Cardinality(Full(t, n)) \in Nat
           /\ Cardinality(Full(t, n)) < n => \E v \in 0..(n - 1) : v \notin Full(t, n)
<1>1. IsFiniteSet(0..(n - 1)) /\ Cardinality(0..(n - 1)) = n
  BY FS_Interval
<1>2. Full(t, n) \subseteq 0..(n - 1)
  BY DEF Full
<1>3. IsFiniteSet(Full(t, n)) /\ Cardinality(Full(t, n)) \in Nat
  BY <1>1, <1>2, FS_Subset, FS_CardinalityType
<1>4. Cardinality(Full(t, n)) < n => \E v \in 0..(n - 1) : v \notin Full(t, n)
  <2>1. CASE Full(t, n) = 0..(n - 1)
    BY <1>1, <2>1
  <2>2. CASE Full(t, n) # 0..(n - 1)
    BY <1>2, <2>2
  <2>. QED
    BY <2>1, <2>2
<1>. QED
  BY <1>3, <1>4

LEMMA OneMoreCounts ==
    ASSUME NEW n \in Nat \ {0}, NEW t, NEW u, NEW x, OneMore(u, t, n, x)
    PROVE  Cardinality(Full(u, n)) = Cardinality(Full(t, n)) + 1
<1>1. PICK p \in (0..(n - 1)) \ Full(t, n) : Full(u, n) = Full(t, n) \cup {p}
  BY DEF OneMore
<1>2. IsFiniteSet(Full(t, n))
  BY RoomLeft
<1>. QED
  BY <1>1, <1>2, FS_AddElement
-----------------------------------------------------------------------------
(* resize. *)

\* The first i of the buckets t.
FullBelow(t, i) == {j \in 0..(i - 1) : t[j].dib # 0}
ContentsBelow(t, i) == {x \in Items : \E j \in 0..(i - 1) : x \in t[j].held}

\* The item of bucket i, as resize picks it.
Only(t, i) == CHOOSE x \in t[i].held : TRUE

\* One step of resize.
Moved(f, t, i, n) ==
    IF t[i].dib = 0 THEN f ELSE Put(f, n, Only(t, i)).buckets

\* u is the table of the first i buckets of t, whose items have distinct keys.
Moves(u, t, i, n) ==
    /\ IsTable(hash, u, n)
    /\ Cardinality(Full(u, n)) = Cardinality(FullBelow(t, i))
    /\ Contents(u, n) = ContentsBelow(t, i)

LEMMA PutType ==
    ASSUME hash \in Hashes, NEW n \in Nat \ {0}, NEW x \in Items, NEW t \in Tables(n)
    PROVE  Put(t, n, x).buckets \in Tables(n)
<1>. PICK s : s = Carried(t, n, x)
  OBVIOUS
<1>1. n \in 0..n /\ s[n] \in Probes(n)
  BY CarriedDef
<1>. QED
  BY <1>1, ProbeParts DEF Put

\* resize is its first table and then one step after the other.
LEMMA RehashedDef ==
    ASSUME hash \in Hashes, NEW m \in Nat \ {0}, NEW n \in Nat \ {0}, NEW t,
           IsTable(hash, t, m), NEW f, f = Rehashed(t, m, n)
    PROVE  /\ f[0] = Zeroed(n)
           /\ \A i \in 0..(m - 1) : f[i + 1] = Moved(f[i], t, i, n)
<1> DEFINE step == [i \in Nat |-> [u \in Tables(n) |->
                       IF i \in 0..(m - 1) THEN Moved(u, t, i, n) ELSE u]]
<1>1. Zeroed(n) \in Tables(n)
  BY ZeroedIsTable DEF IsTable
<1>2. ASSUME NEW i \in 0..(m - 1), NEW u \in Tables(n) PROVE Moved(u, t, i, n) \in Tables(n)
  <2>1. CASE t[i].dib = 0
    BY <2>1 DEF Moved
  <2>2. CASE t[i].dib # 0
    <3>1. PICK x \in Items : t[i].held = {x}
      BY <2>2 DEF IsTable, WellFilled
    <3>2. Only(t, i) \in Items
      BY <3>1 DEF Only
    <3>. QED
      BY <2>2, <3>2, PutType DEF Moved
  <2>. QED
    BY <2>1, <2>2
<1>3. step \in [Nat -> [Tables(n) -> Tables(n)]]
  BY <1>2
<1>4. PICK g \in [Nat -> Tables(n)] : IsIteration(g, Zeroed(n), step)
  <2> HIDE DEF step
  <2>. QED
    BY <1>1, <1>3, Iteration
<1>5. g[0] = Zeroed(n) /\ \A i \in 0..(m - 1) : g[i + 1] = Moved(g[i], t, i, n)
  <2>1. \A i \in 0..(m - 1), u \in Tables(n) : step[i][u] = Moved(u, t, i, n)
    OBVIOUS
  <2> HIDE DEF step
  <2>2. g[0] = Zeroed(n) /\ \A i \in Nat : g[i + 1] = step[i][g[i]]
    BY <1>4 DEF IsIteration
  <2>. QED
    BY <2>1, <2>2
<1> DEFINE fresh == [i \in 0..m |-> g[i]]
<1>6. fresh = [i \in 0..m |-> IF i = 0 THEN Zeroed(n) ELSE Moved(fresh[i - 1], t, i - 1, n)]
  <2>1. ASSUME NEW i \in 0..m, i # 0 PROVE fresh[i] = Moved(fresh[i - 1], t, i - 1, n)
    <3>1. i - 1 \in 0..m /\ i - 1 \in 0..(m - 1) /\ (i - 1) + 1 = i
      BY SMTT(30), <2>1
    <3>. QED
      BY <1>5, <3>1
  <2>. QED
    BY <1>5, <2>1
<1>7. f = [i \in 0..m |-> IF i = 0 THEN Zeroed(n) ELSE Moved(f[i - 1], t, i - 1, n)]
  <2> HIDE DEF fresh
  <2>. QED
    BY ZenonT(30), <1>6 DEF Rehashed, Moved, Only
<1>8. f[0] = Zeroed(n)
  BY <1>7
<1>9. ASSUME NEW i \in 0..(m - 1) PROVE f[i + 1] = Moved(f[i], t, i, n)
  <2>1. i + 1 \in 0..m /\ i + 1 # 0 /\ (i + 1) - 1 = i
    OBVIOUS
  <2>. QED
    BY <1>7, <2>1
<1>. QED
  BY <1>8, <1>9

LEMMA MoveStep ==
    ASSUME hash \in Hashes, NEW m \in Nat \ {0}, NEW n \in Nat \ {0}, NEW t,
           IsTable(hash, t, m), Cardinality(Full(t, m)) <= n,
           NEW i \in 0..(m - 1), NEW u, Moves(u, t, i, n)
    PROVE  Moves(Moved(u, t, i, n), t, i + 1, n)
<1>1. /\ IsTable(hash, u, n) /\ Contents(u, n) = ContentsBelow(t, i)
      /\ Cardinality(Full(u, n)) = Cardinality(FullBelow(t, i))
  BY DEF Moves
<1>2. /\ i + 1 \in Nat
      /\ \A j \in 0..((i + 1) - 1) : j = i \/ j \in 0..(i - 1)
      /\ \A j \in 0..(i - 1) : j \in 0..((i + 1) - 1) /\ j # i /\ j \in 0..(m - 1)
      /\ i \in 0..((i + 1) - 1)
  OBVIOUS
<1>3. IsFiniteSet(FullBelow(t, i)) /\ Cardinality(FullBelow(t, i)) \in Nat
  <2>1. FullBelow(t, i) \subseteq Full(t, m) /\ IsFiniteSet(Full(t, m))
    BY <1>2, RoomLeft DEF FullBelow, Full
  <2>. QED
    BY <2>1, FS_Subset, FS_CardinalityType
<1>4. CASE t[i].dib = 0
  <2>1. t[i].held = {}
    BY <1>4 DEF IsTable, WellFilled
  <2>2. FullBelow(t, i + 1) = FullBelow(t, i)
    BY <1>2, <1>4 DEF FullBelow
  <2>3. ContentsBelow(t, i + 1) = ContentsBelow(t, i)
    BY <1>2, <2>1 DEF ContentsBelow
  <2>. QED
    BY <1>1, <1>4, <2>2, <2>3 DEF Moves, Moved
<1>5. CASE t[i].dib # 0
  <2>1. PICK x \in Items : t[i].held = {x}
    BY <1>5 DEF IsTable, WellFilled
  <2>2. Moved(u, t, i, n) = Put(u, n, x).buckets
    BY <1>5, <2>1 DEF Moved, Only
  <2>3. FullBelow(t, i + 1) = FullBelow(t, i) \cup {i} /\ i \notin FullBelow(t, i)
    BY <1>2, <1>5 DEF FullBelow
  <2>4. ContentsBelow(t, i + 1) = ContentsBelow(t, i) \cup {x}
    BY <1>2, <2>1 DEF ContentsBelow
  <2>5. Cardinality(FullBelow(t, i + 1)) = Cardinality(FullBelow(t, i)) + 1
    BY <1>3, <2>3, FS_AddElement
  <2>6. Absent(x.key, u, n)
    <3> SUFFICES ASSUME NEW j \in 0..(n - 1), NEW z \in u[j].held, z.key = x.key PROVE FALSE
      BY DEF Absent
    <3>1. z \in Contents(u, n)
      BY <1>1, TableTypes DEF Contents
    <3>2. PICK l \in 0..(i - 1) : z \in t[l].held
      BY <1>1, <3>1 DEF ContentsBelow
    <3>. QED
      BY <1>2, <2>1, <3>2 DEF IsTable, Distinct
  <2>7. PICK v \in 0..(n - 1) : v \notin Full(u, n)
    <3>1. FullBelow(t, i + 1) \subseteq Full(t, m)
      BY <1>2, <1>5 DEF FullBelow, Full
    <3>2. Cardinality(FullBelow(t, i + 1)) <= Cardinality(Full(t, m))
      BY <3>1, RoomLeft, FS_Subset
    <3>3. Cardinality(Full(u, n)) < n
      BY <1>1, <1>3, <2>5, <3>2, RoomLeft
    <3>. QED
      BY <3>3, RoomLeft
  <2>8. OneMore(Put(u, n, x).buckets, u, n, x)
    BY <1>1, <2>6, <2>7, PutInserts
  <2>9. PICK w : w = Put(u, n, x).buckets /\ OneMore(w, u, n, x)
    BY <2>8
  <2>10. Cardinality(Full(w, n)) = Cardinality(Full(u, n)) + 1
    BY <2>9, OneMoreCounts
  <2>11. IsTable(hash, w, n) /\ Contents(w, n) = Contents(u, n) \cup {x}
    BY <2>9 DEF OneMore
  <2>. QED
    BY <1>1, <2>2, <2>4, <2>5, <2>9, <2>10, <2>11 DEF Moves
<1>. QED
  BY <1>4, <1>5

LEMMA ResizedIsTable ==
    ASSUME hash \in Hashes, NEW m \in Nat \ {0}, NEW n \in Nat \ {0}, NEW t,
           IsTable(hash, t, m), Cardinality(Full(t, m)) <= n
    PROVE  /\ IsTable(hash, Resized(t, m, n), n)
           /\ Cardinality(Full(Resized(t, m, n), n)) = Cardinality(Full(t, m))
           /\ Contents(Resized(t, m, n), n) = Contents(t, m)
<1>. PICK f : f = Rehashed(t, m, n)
  OBVIOUS
<1> DEFINE I == {i \in 0..m : Moves(f[i], t, i, n)}
<1>1. f[0] = Zeroed(n) /\ \A i \in 0..(m - 1) : f[i + 1] = Moved(f[i], t, i, n)
  BY RehashedDef
<1>2. 0 \in I
  <2>1. FullBelow(t, 0) = {} /\ ContentsBelow(t, 0) = {}
    BY DEF FullBelow, ContentsBelow
  <2>2. Moves(Zeroed(n), t, 0, n)
    BY <2>1, ZeroedIsTable, FS_EmptySet DEF Moves
  <2>. QED
    BY <1>1, <2>2
<1>3. ASSUME NEW i \in 0..(m - 1), i \in I PROVE i + 1 \in I
  <2>1. Moves(Moved(f[i], t, i, n), t, i + 1, n)
    BY <1>3, MoveStep
  <2>2. i + 1 \in 0..m
    OBVIOUS
  <2>. QED
    BY <1>1, <2>1, <2>2
<1> HIDE DEF I
<1>4. m \in I
  BY <1>2, <1>3, Counting
<1>5. Moves(f[m], t, m, n)
  BY <1>4 DEF I
<1>6. FullBelow(t, m) = Full(t, m) /\ ContentsBelow(t, m) = Contents(t, m)
  BY DEF FullBelow, Full, ContentsBelow, Contents
<1>. QED
  BY <1>5, <1>6 DEF Moves, Resized
-----------------------------------------------------------------------------
(* Where the probe of hashmap_get and hashmap_delete ends. *)

\* j buckets behind bucket p.
Behind(p, j, n) == (p + j) % n

LEMMA BehindFacts ==
    ASSUME NEW n \in Nat \ {0}, NEW p \in 0..(n - 1)
    PROVE  /\ Behind(p, 0, n) = p
           /\ \A j \in Nat : /\ Behind(p, j, n) \in 0..(n - 1)
                             /\ Behind(p, j + 1, n) = After(Behind(p, j, n), n)
                             /\ Before(Behind(p, j + 1, n), n) = Behind(p, j, n)
           /\ \A i, j \in 0..(n - 1) : Behind(p, i, n) = Behind(p, j, n) => i = j
           /\ \A i \in 0..(n - 1) : \E j \in 0..(n - 1) : i = Behind(p, j, n)
<1>1. Behind(p, 0, n) = p
  <2>1. (0 * n + p) % n = p
    BY RingUnique
  <2>2. 0 * n + p = p + 0
    OBVIOUS
  <2>. QED
    BY <2>1, <2>2 DEF Behind
<1>2. ASSUME NEW j \in Nat
      PROVE  /\ Behind(p, j, n) \in 0..(n - 1)
             /\ Behind(p, j + 1, n) = After(Behind(p, j, n), n)
             /\ Before(Behind(p, j + 1, n), n) = Behind(p, j, n)
  <2>1. PICK a \in Nat : a = p + j
    OBVIOUS
  <2>2. Behind(p, j, n) = a % n /\ Behind(p, j + 1, n) = (a + 1) % n
    <3>1. p + (j + 1) = a + 1
      BY <2>1
    <3>. QED
      BY <2>1, <3>1 DEF Behind
  <2>. QED
    BY <2>2, RingStep
<1>3. \A i, j \in 0..(n - 1) : Behind(p, i, n) = Behind(p, j, n) => i = j
  BY RingDistances DEF Behind
<1>4. ASSUME NEW i \in 0..(n - 1) PROVE \E j \in 0..(n - 1) : i = Behind(p, j, n)
  <2>1. p \in Nat
    OBVIOUS
  <2>2. \A l \in 0..(n - 1) : \E d \in 0..(n - 1) : (p + d) % n = l
    BY <2>1, RingDistances
  <2>3. PICK j \in 0..(n - 1) : (p + j) % n = i
    BY <2>2
  <2>. QED
    BY <2>3 DEF Behind
<1>. QED
  BY <1>1, <1>2, <1>3, <1>4

LEMMA BehindNext ==
    ASSUME NEW n \in Nat \ {0}, NEW p \in 0..(n - 1), NEW j \in Nat
    PROVE  /\ Behind(p, j, n) \in 0..(n - 1) /\ Behind(p, j + 1, n) \in 0..(n - 1)
           /\ Behind(p, j + 1, n) = After(Behind(p, j, n), n)
           /\ Before(Behind(p, j + 1, n), n) = Behind(p, j, n)
<1>1. j + 1 \in Nat
  OBVIOUS
<1>. QED
  BY <1>1, BehindFacts

LEMMA BehindOnce ==
    ASSUME NEW n \in Nat \ {0}, NEW p \in 0..(n - 1), NEW i \in 0..(n - 1),
           NEW j \in 0..(n - 1), Behind(p, i, n) = Behind(p, j, n)
    PROVE  i = j
BY BehindFacts

LEMMA BehindSome ==
    ASSUME NEW n \in Nat \ {0}, NEW p \in 0..(n - 1), NEW i \in 0..(n - 1)
    PROVE  \E j \in 0..(n - 1) : i = Behind(p, j, n)
BY BehindFacts

LEMMA BehindHome ==
    ASSUME NEW h \in Hashes, NEW n \in Nat \ {0}, NEW k \in Keys, NEW d \in Nat
    PROVE  Behind(h[k] % n, d, n) = Spot(h, k, d + 1, n)
<1>1. h[k] % n \in 0..(n - 1) /\ Spot(h, k, 1, n) = h[k] % n
  <2>1. 1 \in Nat \ {0}
    OBVIOUS
  <2>. QED
    BY <2>1, Spots
<1>. PICK p \in 0..(n - 1) : p = h[k] % n
  BY <1>1
<1> DEFINE I == {c \in Nat : Behind(p, c, n) = Spot(h, k, c + 1, n)}
<1>2. 0 \in I
  <2>1. 0 + 1 = 1
    OBVIOUS
  <2>. QED
    BY <1>1, <2>1, BehindFacts
<1>3. ASSUME NEW c \in Nat, c \in I PROVE c + 1 \in I
  <2>1. c + 1 \in Nat \ {0}
    OBVIOUS
  <2>2. Spot(h, k, (c + 1) + 1, n) = After(Spot(h, k, c + 1, n), n)
    BY <2>1, SpotNext
  <2>. QED
    BY <1>3, <2>1, <2>2, BehindFacts
<1> HIDE DEF I
<1>4. \A c \in 0..d : c \in I
  BY <1>2, <1>3, Counting
<1>. QED
  BY <1>4 DEF I

\* It finds the key's bucket; if there is none, it ends at a vacant bucket.
LEMMA ProbeFinds ==
    ASSUME hash \in Hashes, nbuckets \in Nat \ {0}, IsTable(hash, buckets, nbuckets),
           NEW k \in Keys, NEW v \in 0..(nbuckets - 1), v \notin Full(buckets, nbuckets)
    PROVE  /\ ProbeEnd(k) \in 0..(nbuckets - 1)
           /\ buckets[ProbeEnd(k)].dib = 0 => Absent(k, buckets, nbuckets)
           /\ buckets[ProbeEnd(k)].dib # 0 => \E z \in buckets[ProbeEnd(k)].held : z.key = k
<1> DEFINE at(d) == Spot(hash, k, d + 1, nbuckets)
           D == {d \in 0..(nbuckets - 1) : buckets[at(d)].dib = 0 \/ Has(buckets[at(d)], k)}
<1>1. ASSUME NEW d \in 0..(nbuckets - 1)
      PROVE  (Home(k, nbuckets) + d) % nbuckets = at(d)
  BY BehindHome DEF Home, Behind
<1>2. D # {} /\ D \in SUBSET Nat
  <2>1. PICK e \in 1..nbuckets : Spot(hash, k, e, nbuckets) = v
    BY Spots
  <2>2. PICK d \in 0..(nbuckets - 1) : d + 1 = e
    <3>1. e - 1 \in 0..(nbuckets - 1) /\ (e - 1) + 1 = e
      OBVIOUS
    <3>. QED
      BY <3>1
  <2>3. at(d) = v /\ buckets[v].dib = 0
    BY <2>1, <2>2 DEF Full
  <2>4. d \in D
    <3> HIDE DEF at
    <3>. QED
      BY <2>3
  <2>5. D \in SUBSET Nat
    BY DEF D
  <2>. QED
    <3> HIDE DEF D
    <3>. QED
      BY <2>4, <2>5
<1>3. ProbeEnd(k) = at(Min(D))
  <2> HIDE DEF at
  <2>1. D = {d \in 0..(nbuckets - 1) :
               \/ buckets[(Home(k, nbuckets) + d) % nbuckets].dib = 0
               \/ Has(buckets[(Home(k, nbuckets) + d) % nbuckets], k)}
    BY <1>1
  <2>2. ProbeEnd(k) = (Home(k, nbuckets) + Min(D)) % nbuckets
    <3> HIDE DEF D
    <3>. QED
      BY <2>1 DEF ProbeEnd
  <2>3. Min(D) \in D
    BY <1>2, MinOfPositions
  <2>. QED
    BY <1>1, <2>2, <2>3
<1>4. PICK m \in D : m = Min(D) /\ \A j \in D : m <= j
  BY <1>2, MinOfPositions
<1>5. PICK p \in 0..(nbuckets - 1) : p = at(m) /\ p = ProbeEnd(k)
  <2>1. m + 1 \in Nat \ {0}
    OBVIOUS
  <2>. QED
    BY <1>3, <1>4, <2>1, Spots
<1>6. buckets[p].dib = 0 \/ Has(buckets[p], k)
  BY <1>5
<1>7. ASSUME buckets[p].dib = 0 PROVE Absent(k, buckets, nbuckets)
  <2> SUFFICES ASSUME NEW q \in 0..(nbuckets - 1), NEW z \in buckets[q].held, z.key = k
               PROVE  FALSE
    BY DEF Absent
  <2>1. PICK e \in 1..nbuckets :
          /\ e = buckets[q].dib /\ Spot(hash, k, e, nbuckets) = q
          /\ \A j \in 1..e : buckets[Spot(hash, k, j, nbuckets)].dib >= j
    BY Path
  <2>2. PICK d \in 0..(nbuckets - 1) : d + 1 = e
    <3>1. e - 1 \in 0..(nbuckets - 1) /\ (e - 1) + 1 = e
      OBVIOUS
    <3>. QED
      BY <3>1
  <2>3. at(d) = q /\ Has(buckets[q], k)
    BY <2>1, <2>2 DEF Has
  <2>4. m <= d
    BY <1>4, <2>3
  <2>5. m + 1 \in 1..e /\ m \in Nat
    BY <2>2, <2>4
  <2>6. buckets[p].dib >= m + 1
    BY <1>5, <2>1, <2>5
  <2>. QED
    BY <1>7, <2>5, <2>6
<1>8. ASSUME buckets[p].dib # 0 PROVE \E z \in buckets[p].held : z.key = k
  BY <1>6, <1>8 DEF Has
<1>. QED
  BY <1>5, <1>7, <1>8
-----------------------------------------------------------------------------
(* hashmap_delete: what is behind the deleted entry moves one bucket back. *)

\* u is t without the entry of bucket p, the m - 1 entries behind it moved.
Shifted(u, t, p, m, n) ==
    /\ \A j \in 0..(m - 2) :
          u[Behind(p, j, n)] =
              Entry(t[Behind(p, j + 1, n)].dib - 1, t[Behind(p, j + 1, n)].held)
    /\ u[Behind(p, m - 1, n)] = Vacant
    /\ \A j \in m..(n - 1) : u[Behind(p, j, n)] = t[Behind(p, j, n)]

\* The entries behind p move up to the first that is vacant or at home.
Movable(t, p, m, n) ==
    /\ m \in 1..(n - 1)
    /\ \A j \in 1..(m - 1) : t[Behind(p, j, n)].dib > 1
    /\ t[Behind(p, m, n)].dib <= 1

HasBuckets(u, n) == u = [i \in 0..(n - 1) |-> u[i]]

LEMMA ShiftBackIs ==
    ASSUME NEW n \in Nat \ {0}, n = nbuckets, buckets \in Tables(n),
           NEW p \in 0..(n - 1), buckets[p].dib # 0,
           NEW v \in 0..(n - 1), v \notin Full(buckets, n)
    PROVE  \E m \in 1..(n - 1) : /\ Movable(buckets, p, m, n)
                                 /\ Shifted(ShiftBack(p), buckets, p, m, n)
                                 /\ HasBuckets(ShiftBack(p), n)
<1> DEFINE J == {j \in 1..n : j = n \/ buckets[Behind(p, j, n)].dib <= 1}
<1>1. PICK l \in J : l <= n - 1
  <2>1. PICK j \in 0..(n - 1) : v = Behind(p, j, n)
    BY BehindSome
  <2>2. buckets[v].dib = 0 /\ j # 0
    <3>1. Behind(p, 0, n) = p
      BY BehindFacts
    <3>. QED
      BY <2>1, <3>1 DEF Full
  <2>. QED
    BY <2>1, <2>2
<1>2. PICK m \in J : m = Min(J) /\ \A j \in J : m <= j
  <2>1. J \in SUBSET Nat /\ J # {}
    BY <1>1
  <2> HIDE DEF J
  <2>. QED
    BY <2>1, MinOfPositions
<1>3. m \in 1..(n - 1)
  <2>1. m \in 1..n /\ l \in 1..n
    BY DEF J
  <2>2. m <= l
    BY <1>1, <1>2
  <2> HIDE DEF J
  <2>. QED
    BY <1>1, <2>1, <2>2
<1>4. Movable(buckets, p, m, n)
  <2>1. buckets[Behind(p, m, n)].dib <= 1
    BY <1>3
  <2>2. ASSUME NEW j \in 1..(m - 1) PROVE buckets[Behind(p, j, n)].dib > 1
    <3>1. j \in 1..n /\ j \notin J /\ j \in Nat
      BY <1>2, <1>3
    <3>2. Behind(p, j, n) \in 0..(n - 1)
      BY <3>1, BehindNext
    <3>3. buckets[Behind(p, j, n)].dib \in Nat
      BY SMTT(30), <3>2 DEF Tables, Entries
    <3>. QED
      BY <3>1, <3>3
  <2>. QED
    BY <1>3, <2>1, <2>2 DEF Movable
<1> DEFINE moved == [i \in {Behind(p, j, n) : j \in 0..(m - 2)} |->
                       [buckets[After(i, n)] EXCEPT !.dib = @ - 1]]
<1>5. ShiftBack(p) = [i \in DOMAIN buckets |->
            IF i \in DOMAIN moved THEN moved[i]
            ELSE IF i = Behind(p, m - 1, n) THEN Vacant ELSE buckets[i]]
  <2>1. J = {j \in 1..nbuckets : j = nbuckets \/ buckets[(p + j) % nbuckets].dib <= 1}
    BY DEF Behind
  <2> HIDE DEF J
  <2>. QED
    BY <1>2, <2>1 DEF ShiftBack, Behind, After
<1>6. DOMAIN buckets = 0..(n - 1) /\ DOMAIN moved = {Behind(p, j, n) : j \in 0..(m - 2)}
  BY DEF Tables
<1>. PICK u : u = ShiftBack(p)
  OBVIOUS
<1>7. ASSUME NEW j \in 0..(m - 2)
      PROVE  u[Behind(p, j, n)] =
              Entry(buckets[Behind(p, j + 1, n)].dib - 1, buckets[Behind(p, j + 1, n)].held)
  <2>1. /\ Behind(p, j, n) \in 0..(n - 1) /\ Behind(p, j + 1, n) = After(Behind(p, j, n), n)
        /\ Behind(p, j + 1, n) \in 0..(n - 1)
    <3>1. j \in Nat
      OBVIOUS
    <3>. QED
      BY <3>1, BehindNext
  <2>2. PICK i \in 0..(n - 1) : i = Behind(p, j, n)
    BY <2>1
  <2>3. u[i] = [buckets[After(i, n)] EXCEPT !.dib = @ - 1]
    <3>1. i \in DOMAIN moved /\ moved[i] = [buckets[After(i, n)] EXCEPT !.dib = @ - 1]
      BY <2>2
    <3> HIDE DEF moved
    <3>. QED
      BY <1>5, <1>6, <3>1
  <2>4. PICK b \in Entries : b = buckets[After(i, n)]
    BY <2>1, <2>2 DEF Tables
  <2>5. [b EXCEPT !.dib = @ - 1] = Entry(b.dib - 1, b.held)
    BY DEF Entry, Entries
  <2>. QED
    BY <2>1, <2>2, <2>3, <2>4, <2>5
<1>8. ASSUME NEW j \in (m - 1)..(n - 1)
      PROVE  /\ Behind(p, j, n) \in (0..(n - 1)) \ DOMAIN moved
             /\ Behind(p, j, n) = Behind(p, m - 1, n) <=> j = m - 1
  <2>1. j \in 0..(n - 1) /\ m - 1 \in 0..(n - 1) /\ j \in Nat
    BY <1>3
  <2>2. \A e \in 0..(m - 2) : e \in 0..(n - 1) /\ e # j
    BY <1>3
  <2>3. Behind(p, j, n) \in 0..(n - 1)
    BY <2>1, BehindNext
  <2>4. \A e \in 0..(m - 2) : Behind(p, e, n) # Behind(p, j, n)
    BY <2>1, <2>2, BehindOnce
  <2>5. Behind(p, j, n) = Behind(p, m - 1, n) <=> j = m - 1
    BY <2>1, BehindOnce
  <2>. QED
    BY <1>6, <2>3, <2>4, <2>5
<1> HIDE DEF moved
<1>9. u[Behind(p, m - 1, n)] = Vacant
  <2>1. m - 1 \in (m - 1)..(n - 1)
    BY <1>3
  <2>. QED
    BY <1>5, <1>6, <1>8, <2>1
<1>10. ASSUME NEW j \in m..(n - 1) PROVE u[Behind(p, j, n)] = buckets[Behind(p, j, n)]
  <2>1. j \in (m - 1)..(n - 1) /\ j # m - 1
    BY <1>3
  <2>. QED
    BY <1>5, <1>6, <1>8, <2>1
<1>11. Shifted(u, buckets, p, m, n)
  BY <1>7, <1>9, <1>10 DEF Shifted
<1>. QED
  BY <1>3, <1>4, <1>5, <1>6, <1>11 DEF HasBuckets
\* The buckets of u, and which of t they come from.
LEMMA ShiftedBuckets ==
    ASSUME NEW h \in Hashes, NEW n \in Nat \ {0}, NEW t, IsTable(h, t, n),
           NEW p \in 0..(n - 1), t[p].dib # 0, NEW m \in 1..(n - 1), Movable(t, p, m, n),
           NEW u, Shifted(u, t, p, m, n)
    PROVE  /\ \A j \in 0..(m - 1) : t[Behind(p, j, n)].dib # 0
           /\ \A j \in 1..(m - 1) : t[Behind(p, j, n)].dib > 1
           /\ \A j \in 0..(m - 2) :
                 /\ u[Behind(p, j, n)] \in Entries
                 /\ u[Behind(p, j, n)].dib = t[Behind(p, j + 1, n)].dib - 1
                 /\ u[Behind(p, j, n)].held = t[Behind(p, j + 1, n)].held
           /\ u[Behind(p, m - 1, n)] \in Entries
           /\ u[Behind(p, m - 1, n)].dib = 0 /\ u[Behind(p, m - 1, n)].held = {}
           /\ \A j \in m..(n - 1) : u[Behind(p, j, n)] = t[Behind(p, j, n)]
<1>1. \A j \in 1..(m - 1) : t[Behind(p, j, n)].dib > 1
  BY DEF Movable
<1>2. Behind(p, 0, n) = p
  BY BehindFacts
<1>3. ASSUME NEW j \in 0..(m - 1) PROVE t[Behind(p, j, n)].dib # 0
  <2>1. j = 0 \/ j \in 1..(m - 1)
    OBVIOUS
  <2>. QED
    BY <1>1, <1>2, <2>1
<1>4. ASSUME NEW j \in 0..(m - 2)
      PROVE  /\ u[Behind(p, j, n)] \in Entries
             /\ u[Behind(p, j, n)].dib = t[Behind(p, j + 1, n)].dib - 1
             /\ u[Behind(p, j, n)].held = t[Behind(p, j + 1, n)].held
  <2>1. j \in Nat /\ j + 1 \in 1..(m - 1)
    OBVIOUS
  <2>2. PICK q \in 0..(n - 1) : q = Behind(p, j + 1, n) /\ t[q].dib > 1
    BY <1>1, <2>1, BehindNext
  <2>3. t[q].dib - 1 \in Nat /\ t[q].held \in SUBSET Items
    <3>1. t[q].dib \in 0..n /\ t[q].held \in SUBSET Items
      BY TableTypes
    <3>. QED
      BY <2>2, <3>1
  <2>4. u[Behind(p, j, n)] = Entry(t[q].dib - 1, t[q].held)
    BY <2>2 DEF Shifted
  <2>. QED
    BY <2>2, <2>3, <2>4, EntryFacts
<1>5. u[Behind(p, m - 1, n)] = Vacant /\ \A j \in m..(n - 1) : u[Behind(p, j, n)] = t[Behind(p, j, n)]
  BY DEF Shifted
<1>6. Vacant \in Entries /\ Vacant.dib = 0 /\ Vacant.held = {}
  BY DEF Vacant, Entries
<1>. QED
  BY <1>1, <1>3, <1>4, <1>5, <1>6

LEMMA ShiftedIsTable ==
    ASSUME NEW h \in Hashes, NEW n \in Nat \ {0}, NEW t, IsTable(h, t, n),
           NEW p \in 0..(n - 1), t[p].dib # 0, NEW m \in 1..(n - 1), Movable(t, p, m, n),
           NEW u, Shifted(u, t, p, m, n), HasBuckets(u, n)
    PROVE  IsTable(h, u, n)
<1>1. /\ \A j \in 1..(m - 1) : t[Behind(p, j, n)].dib > 1
      /\ \A j \in 0..(m - 2) :
            /\ u[Behind(p, j, n)] \in Entries
            /\ u[Behind(p, j, n)].dib = t[Behind(p, j + 1, n)].dib - 1
            /\ u[Behind(p, j, n)].held = t[Behind(p, j + 1, n)].held
      /\ u[Behind(p, m - 1, n)] \in Entries
      /\ u[Behind(p, m - 1, n)].dib = 0 /\ u[Behind(p, m - 1, n)].held = {}
      /\ \A j \in m..(n - 1) : u[Behind(p, j, n)] = t[Behind(p, j, n)]
  BY ShiftedBuckets
<1>2. \A j \in 0..(n - 1) : j \in 0..(m - 2) \/ j = m - 1 \/ j \in m..(n - 1)
  OBVIOUS
<1>3. ASSUME NEW j \in 0..(n - 1)
      PROVE  /\ Behind(p, j, n) \in 0..(n - 1) /\ Behind(p, j + 1, n) \in 0..(n - 1)
             /\ Before(Behind(p, j + 1, n), n) = Behind(p, j, n)
  <2>1. j \in Nat
    OBVIOUS
  <2>. QED
    BY <2>1, BehindNext
<1>4. \A i \in 0..(n - 1) : t[i] \in Entries /\ WellFilled(t[i], n)
  BY TableTypes DEF IsTable
<1>5. ASSUME NEW i \in 0..(n - 1) PROVE u[i] \in Entries /\ WellFilled(u[i], n)
  <2>1. PICK j \in 0..(n - 1) : i = Behind(p, j, n)
    BY BehindSome
  <2>2. CASE j \in 0..(m - 2)
    <3>1. PICK q \in 0..(n - 1) : q = Behind(p, j + 1, n)
      BY <1>3
    <3>2. u[i] \in Entries /\ u[i].dib = t[q].dib - 1 /\ u[i].held = t[q].held
      BY <1>1, <2>1, <2>2, <3>1
    <3>3. t[q].dib > 1 /\ t[q].dib \in Nat
      <4>1. j + 1 \in 1..(m - 1)
        BY <2>2
      <4>2. t[q].dib \in 0..n
        BY TableTypes
      <4>. QED
        BY <1>1, <3>1, <4>1, <4>2
    <3>4. t[q].dib <= n /\ \E x \in Items : t[q].held = {x}
      BY <1>4, <3>3 DEF WellFilled
    <3>5. u[i].dib <= n /\ u[i].dib # 0
      BY <3>2, <3>3, <3>4
    <3>. QED
      BY <3>2, <3>4, <3>5 DEF WellFilled
  <2>3. CASE j = m - 1
    BY <1>1, <2>1, <2>3 DEF WellFilled
  <2>4. CASE j \in m..(n - 1)
    <3>1. u[i] = t[i]
      BY <1>1, <2>1, <2>4
    <3>. QED
      BY <1>4, <3>1
  <2>. QED
    BY <1>2, <2>2, <2>3, <2>4
<1>6. u \in Tables(n)
  BY <1>5 DEF Tables, HasBuckets
<1>7. Placed(h, u, n)
  <2> SUFFICES ASSUME NEW i \in 0..(n - 1), NEW x \in u[i].held
               PROVE  i = Spot(h, x.key, u[i].dib, n)
    BY DEF Placed
  <2>1. PICK j \in 0..(n - 1) : i = Behind(p, j, n)
    BY BehindSome
  <2>2. CASE j \in 0..(m - 2)
    <3>1. PICK q \in 0..(n - 1) : q = Behind(p, j + 1, n) /\ Before(q, n) = i
      BY <1>3, <2>1
    <3>2. u[i].dib = t[q].dib - 1 /\ x \in t[q].held
      BY <1>1, <2>1, <2>2, <3>1
    <3>3. t[q].dib > 1
      <4>1. j + 1 \in 1..(m - 1)
        BY <2>2
      <4>. QED
        BY <1>1, <3>1, <4>1
    <3>4. q = Spot(h, x.key, t[q].dib, n) /\ x.key \in Keys /\ t[q].dib \in Nat
      <4>1. x \in Items /\ t[q].dib \in 0..n
        BY <3>2, TableTypes
      <4>. QED
        BY <3>2, <4>1 DEF IsTable, Placed, Items
    <3>5. PICK d \in Nat \ {0} : d = u[i].dib /\ t[q].dib = d + 1
      <4>1. t[q].dib - 1 \in Nat \ {0} /\ t[q].dib = (t[q].dib - 1) + 1
        BY <3>3, <3>4
      <4>. QED
        BY <3>2, <4>1
    <3>6. Before(q, n) = Spot(h, x.key, d, n)
      BY <3>4, <3>5, SpotNext
    <3>. QED
      BY <3>1, <3>5, <3>6
  <2>3. CASE j = m - 1
    BY <1>1, <2>1, <2>3
  <2>4. CASE j \in m..(n - 1)
    <3>1. u[i] = t[i]
      BY <1>1, <2>1, <2>4
    <3>. QED
      BY <3>1 DEF IsTable, Placed
  <2>. QED
    BY <1>2, <2>2, <2>3, <2>4
<1>8. Chained(u, n)
  <2> SUFFICES ASSUME NEW i \in 0..(n - 1), u[i].dib > 1
               PROVE  u[Before(i, n)].dib >= u[i].dib - 1
    BY DEF Chained
  <2>1. PICK j \in 0..(n - 1) : i = Behind(p, j, n)
    BY BehindSome
  <2>2. PICK l \in 0..(n - 1) : Before(i, n) = Behind(p, l, n)
    <3>1. Before(i, n) \in 0..(n - 1)
      BY RingNeighbours
    <3>. QED
      BY <3>1, BehindSome
  <2>3. j = 0 => l = n - 1
    <3>1. SUFFICES ASSUME j = 0 PROVE Behind(p, n - 1, n) = Behind(p, l, n)
      BY BehindOnce
    <3>2. n - 1 \in 0..(n - 1) /\ (n - 1) + 1 = n
      OBVIOUS
    <3>3. Before(Behind(p, n, n), n) = Behind(p, n - 1, n)
      BY <1>3, <3>2
    <3>4. Behind(p, n, n) = p
      <4>1. (1 * n + p) % n = p
        BY RingUnique
      <4>2. 1 * n + p = p + n
        OBVIOUS
      <4>. QED
        BY <4>1, <4>2 DEF Behind
    <3>5. i = p
      BY <2>1, <3>1, BehindFacts
    <3>. QED
      BY <2>2, <3>3, <3>4, <3>5
  <2>4. j # 0 => l = j - 1
    <3>1. SUFFICES ASSUME j # 0 PROVE Behind(p, j - 1, n) = Behind(p, l, n)
      <4>1. j # 0 => j - 1 \in 0..(n - 1)
        OBVIOUS
      <4>. QED
        BY <4>1, BehindOnce
    <3>2. j - 1 \in 0..(n - 1) /\ (j - 1) + 1 = j
      BY <3>1
    <3>. QED
      BY <1>3, <2>1, <2>2, <3>2
  <2>5. t[i].dib \in Nat /\ t[Before(i, n)].dib \in Nat
    <3>1. Before(i, n) \in 0..(n - 1)
      BY RingNeighbours
    <3>. QED
      BY <3>1, TableTypes
  <2>6. CASE j \in 0..(m - 2)
    <3>1. PICK q \in 0..(n - 1) : q = Behind(p, j + 1, n) /\ Before(q, n) = i
      BY <1>3, <2>1
    <3>2. u[i].dib = t[q].dib - 1 /\ t[q].dib \in Nat
      <4>1. t[q].dib \in 0..n
        BY TableTypes
      <4>. QED
        BY <1>1, <2>1, <2>6, <3>1, <4>1
    <3>3. t[i].dib >= t[q].dib - 1
      <4>1. t[q].dib > 1
        BY <3>2
      <4>. QED
        BY <3>1, <4>1 DEF IsTable, Chained
    <3>4. CASE j = 0
      <4>1. u[Before(i, n)] = t[Before(i, n)]
        <5>1. n - 1 \in m..(n - 1)
          OBVIOUS
        <5>. QED
          BY <1>1, <2>2, <2>3, <3>4, <5>1
      <4>2. t[Before(i, n)].dib >= t[i].dib - 1
        <5>1. t[i].dib > 1
          BY <2>5, <3>2, <3>3
        <5>. QED
          BY <5>1 DEF IsTable, Chained
      <4>. QED
        BY <2>5, <3>2, <3>3, <4>1, <4>2
    <3>5. CASE j # 0
      <4>1. l \in 0..(m - 2) /\ l + 1 = j
        BY <2>4, <2>6, <3>5
      <4>2. u[Before(i, n)].dib = t[i].dib - 1
        BY <1>1, <2>1, <2>2, <4>1
      <4>. QED
        BY <2>5, <3>2, <3>3, <4>2
    <3>. QED
      BY <3>4, <3>5
  <2>7. CASE j = m - 1
    BY <1>1, <2>1, <2>7
  <2>8. CASE j \in m..(n - 1)
    <3>1. u[i] = t[i]
      BY <1>1, <2>1, <2>8
    <3>2. j # m
      <4>1. t[Behind(p, m, n)].dib <= 1 /\ t[i].dib > 1
        BY <3>1 DEF Movable
      <4>. QED
        BY <2>1, <2>5, <4>1
    <3>3. l \in m..(n - 1)
      BY <2>4, <2>8, <3>2
    <3>4. u[Before(i, n)] = t[Before(i, n)]
      BY <1>1, <2>2, <3>3
    <3>. QED
      BY <3>1, <3>4 DEF IsTable, Chained
  <2>. QED
    BY <1>2, <2>6, <2>7, <2>8
<1>9. Distinct(u, n)
  <2>1. ASSUME NEW i \in 0..(n - 1), NEW x \in u[i].held
        PROVE  \E j, k \in 0..(n - 1) :
                  /\ i = Behind(p, j, n) /\ x \in t[Behind(p, k, n)].held
                  /\ (j < m - 1 /\ k = j + 1) \/ (j >= m /\ k = j)
    <3>1. PICK j \in 0..(n - 1) : i = Behind(p, j, n)
      BY BehindSome
    <3>2. CASE j \in 0..(m - 2)
      <4>1. x \in t[Behind(p, j + 1, n)].held /\ j + 1 \in 0..(n - 1) /\ j < m - 1
        BY <1>1, <2>1, <3>1, <3>2
      <4>. QED
        BY <3>1, <4>1
    <3>3. CASE j = m - 1
      BY <1>1, <2>1, <3>1, <3>3
    <3>4. CASE j \in m..(n - 1)
      <4>1. x \in t[Behind(p, j, n)].held /\ j >= m
        BY <1>1, <2>1, <3>1, <3>4
      <4>. QED
        BY <3>1, <4>1
    <3>. QED
      BY <1>2, <3>2, <3>3, <3>4
  <2> SUFFICES ASSUME NEW i \in 0..(n - 1), NEW l \in 0..(n - 1),
                      NEW x \in u[i].held, NEW y \in u[l].held, x.key = y.key
               PROVE  i = l
    BY DEF Distinct
  <2>2. PICK j, k \in 0..(n - 1) :
           /\ i = Behind(p, j, n) /\ x \in t[Behind(p, k, n)].held
           /\ (j < m - 1 /\ k = j + 1) \/ (j >= m /\ k = j)
    BY <2>1
  <2>3. PICK e, f \in 0..(n - 1) :
           /\ l = Behind(p, e, n) /\ y \in t[Behind(p, f, n)].held
           /\ (e < m - 1 /\ f = e + 1) \/ (e >= m /\ f = e)
    BY <2>1
  <2>4. Behind(p, k, n) \in 0..(n - 1) /\ Behind(p, f, n) \in 0..(n - 1)
    BY <1>3
  <2>5. Behind(p, k, n) = Behind(p, f, n)
    BY <2>2, <2>3, <2>4 DEF IsTable, Distinct
  <2>6. k = f
    BY <2>5, BehindOnce
  <2>7. j = e
    BY <2>2, <2>3, <2>6
  <2>. QED
    BY <2>2, <2>3, <2>7
<1>. QED
  BY <1>5, <1>6, <1>7, <1>8, <1>9 DEF IsTable

LEMMA ShiftedHolds ==
    ASSUME NEW h \in Hashes, NEW n \in Nat \ {0}, NEW t, IsTable(h, t, n),
           NEW p \in 0..(n - 1), t[p].dib # 0, NEW m \in 1..(n - 1), Movable(t, p, m, n),
           NEW u, Shifted(u, t, p, m, n), IsTable(h, u, n)
    PROVE  /\ Behind(p, m - 1, n) \in Full(t, n)
           /\ Full(u, n) = Full(t, n) \ {Behind(p, m - 1, n)}
           /\ Contents(u, n) = Contents(t, n) \ t[p].held
<1>1. /\ \A j \in 0..(m - 1) : t[Behind(p, j, n)].dib # 0
      /\ \A j \in 1..(m - 1) : t[Behind(p, j, n)].dib > 1
      /\ \A j \in 0..(m - 2) :
            /\ u[Behind(p, j, n)].dib = t[Behind(p, j + 1, n)].dib - 1
            /\ u[Behind(p, j, n)].held = t[Behind(p, j + 1, n)].held
      /\ u[Behind(p, m - 1, n)].dib = 0 /\ u[Behind(p, m - 1, n)].held = {}
      /\ \A j \in m..(n - 1) : u[Behind(p, j, n)] = t[Behind(p, j, n)]
  BY ShiftedBuckets
<1>2. \A j \in 0..(n - 1) : j \in 0..(m - 2) \/ j = m - 1 \/ j \in m..(n - 1)
  OBVIOUS
<1>3. m - 1 \in 0..(m - 1) /\ m - 1 \in 0..(n - 1) /\ m - 1 \in Nat
  OBVIOUS
<1>4. Behind(p, m - 1, n) \in 0..(n - 1)
  BY <1>3, BehindNext
<1>5. Behind(p, m - 1, n) \in Full(t, n)
  BY <1>1, <1>3, <1>4 DEF Full
<1>6. ASSUME NEW i \in 0..(n - 1)
      PROVE  i \in Full(u, n) <=> i \in Full(t, n) /\ i # Behind(p, m - 1, n)
  <2>1. PICK j \in 0..(n - 1) : i = Behind(p, j, n)
    BY BehindSome
  <2>2. i = Behind(p, m - 1, n) <=> j = m - 1
    BY <1>3, <2>1, BehindOnce
  <2>3. CASE j \in 0..(m - 2)
    <3>1. j \in 0..(m - 1) /\ j # m - 1 /\ j + 1 \in 1..(m - 1)
      BY <2>3
    <3>2. t[i].dib # 0 /\ t[Behind(p, j + 1, n)].dib > 1
      BY <1>1, <2>1, <3>1
    <3>3. t[Behind(p, j + 1, n)].dib \in 0..n
      <4>1. j \in Nat
        OBVIOUS
      <4>. QED
        BY <4>1, BehindNext, TableTypes
    <3>4. u[i].dib # 0
      BY <1>1, <2>1, <2>3, <3>2, <3>3
    <3>. QED
      BY <2>2, <3>1, <3>2, <3>4 DEF Full
  <2>4. CASE j = m - 1
    BY <1>1, <2>1, <2>4 DEF Full
  <2>5. CASE j \in m..(n - 1)
    <3>1. u[i] = t[i] /\ j # m - 1
      BY <1>1, <2>1, <2>5
    <3>. QED
      BY <2>2, <3>1 DEF Full
  <2>. QED
    BY <1>2, <2>3, <2>4, <2>5
<1>7. Full(u, n) = Full(t, n) \ {Behind(p, m - 1, n)}
  <2>1. Full(u, n) \subseteq 0..(n - 1) /\ Full(t, n) \subseteq 0..(n - 1)
    BY DEF Full
  <2>. QED
    BY <1>6, <2>1
<1>8. ASSUME NEW x \in Contents(u, n) PROVE x \in Contents(t, n) \ t[p].held
  <2>1. PICK i \in 0..(n - 1) : x \in u[i].held /\ x \in Items
    BY DEF Contents
  <2>2. PICK j \in 0..(n - 1) : i = Behind(p, j, n)
    BY BehindSome
  <2>3. PICK k \in 1..(n - 1) : x \in t[Behind(p, k, n)].held
    <3>1. CASE j \in 0..(m - 2)
      <4>1. x \in t[Behind(p, j + 1, n)].held /\ j + 1 \in 1..(n - 1)
        BY <1>1, <2>1, <2>2, <3>1
      <4>. QED
        BY <4>1
    <3>2. CASE j = m - 1
      BY <1>1, <2>1, <2>2, <3>2
    <3>3. CASE j \in m..(n - 1)
      <4>1. x \in t[Behind(p, j, n)].held /\ j \in 1..(n - 1)
        BY <1>1, <2>1, <2>2, <3>3
      <4>. QED
        BY <4>1
    <3>. QED
      BY <1>2, <3>1, <3>2, <3>3
  <2>4. k \in 0..(n - 1) /\ 0 \in 0..(n - 1) /\ k # 0 /\ k \in Nat
    OBVIOUS
  <2>5. Behind(p, k, n) # p /\ Behind(p, k, n) \in 0..(n - 1)
    <3>1. Behind(p, 0, n) = p
      BY BehindFacts
    <3>2. Behind(p, k, n) # Behind(p, 0, n)
      BY <2>4, BehindOnce
    <3>3. Behind(p, k, n) \in 0..(n - 1)
      BY <2>4, BehindNext
    <3>. QED
      BY <3>1, <3>2, <3>3
  <2>. QED
    BY <2>1, <2>3, <2>5 DEF Contents, IsTable, Distinct
<1>9. ASSUME NEW x \in Contents(t, n), x \notin t[p].held PROVE x \in Contents(u, n)
  <2>1. PICK i \in 0..(n - 1) : x \in t[i].held /\ x \in Items
    BY DEF Contents
  <2>2. PICK k \in 0..(n - 1) : i = Behind(p, k, n)
    BY BehindSome
  <2>3. k # 0
    <3>1. Behind(p, 0, n) = p
      BY BehindFacts
    <3>. QED
      BY <1>9, <2>1, <2>2, <3>1
  <2>4. PICK j \in 0..(n - 1) : x \in u[Behind(p, j, n)].held
    <3>1. CASE k \in 1..(m - 1)
      <4>1. k - 1 \in 0..(m - 2) /\ (k - 1) + 1 = k /\ k - 1 \in 0..(n - 1)
        BY <3>1
      <4>2. x \in u[Behind(p, k - 1, n)].held
        BY <1>1, <2>1, <2>2, <4>1
      <4>. QED
        BY <4>1, <4>2
    <3>2. CASE k \in m..(n - 1)
      BY <1>1, <2>1, <2>2, <3>2
    <3>3. k \in 1..(m - 1) \/ k \in m..(n - 1)
      BY <2>3
    <3>. QED
      BY <3>1, <3>2, <3>3
  <2>5. Behind(p, j, n) \in 0..(n - 1)
    <3>1. j \in Nat
      OBVIOUS
    <3>. QED
      BY <3>1, BehindNext
  <2>. QED
    BY <2>1, <2>4, <2>5 DEF Contents
<1>10. Contents(u, n) = Contents(t, n) \ t[p].held
  BY <1>8, <1>9
<1>. QED
  BY <1>5, <1>7, <1>10
-----------------------------------------------------------------------------
(* The invariant. *)

\* The sizes: some doublings of the least one, and no fewer than the capacity.
Sized ==
    /\ \E i \in Nat : cap = Doubled[i]
    /\ \E j \in Nat : nbuckets = Doubled[j]
    /\ cap <= nbuckets /\ nbuckets <= alloc /\ alloc \in Nat

\* What the buckets of a live map are.
Filled(t, n, c) ==
    /\ IsTable(hash, t, n)
    /\ c = Cardinality(Full(t, n))
    /\ c <= GrowAt(n)

MapInv ==
    /\ hash \in Hashes
    /\ {cap, cursor} \subseteq Nat
    /\ cursor <= nbuckets
    /\ oom \in BOOLEAN /\ answer \subseteq Items /\ live \in BOOLEAN
    /\ live => Sized /\ Filled(buckets, nbuckets, count)
    /\ ~live => nbuckets = 0 /\ alloc = 0 /\ count = 0 /\ buckets = Zeroed(0)

\* The facts the steps start from.
LEMMA Known ==
    ASSUME MapInv, live
    PROVE  /\ hash \in Hashes /\ nbuckets \in Nat \ {0} /\ cap \in Nat \ {0} /\ alloc \in Nat
           /\ IsTable(hash, buckets, nbuckets) /\ buckets \in Tables(nbuckets)
           /\ IsFiniteSet(Full(buckets, nbuckets))
           /\ count \in Nat /\ count = Cardinality(Full(buckets, nbuckets))
           /\ GrowAt(nbuckets) \in Nat /\ count <= GrowAt(nbuckets) /\ count < nbuckets
           /\ GrowAt(MinCap) <= GrowAt(nbuckets)
           /\ \E v \in 0..(nbuckets - 1) : v \notin Full(buckets, nbuckets)
<1>1. PICK i \in Nat, j \in Nat : cap = Doubled[i] /\ nbuckets = Doubled[j]
  BY DEF MapInv, Sized
<1>2. /\ nbuckets \in Nat \ {0} /\ GrowAt(nbuckets) \in Nat /\ GrowAt(nbuckets) < nbuckets
      /\ GrowAt(MinCap) <= GrowAt(nbuckets)
  BY <1>1, Loads
<1>3. cap \in Nat \ {0}
  BY <1>1, Loads
<1>4. /\ hash \in Hashes /\ alloc \in Nat /\ IsTable(hash, buckets, nbuckets)
      /\ count = Cardinality(Full(buckets, nbuckets)) /\ count <= GrowAt(nbuckets)
  BY DEF MapInv, Sized, Filled
<1>5. IsFiniteSet(Full(buckets, nbuckets)) /\ count \in Nat
  BY <1>2, <1>4, RoomLeft
<1>6. count < nbuckets
  BY <1>2, <1>4, <1>5
<1>7. \E v \in 0..(nbuckets - 1) : v \notin Full(buckets, nbuckets)
  BY <1>2, <1>4, <1>6, RoomLeft
<1>8. buckets \in Tables(nbuckets)
  BY <1>4 DEF IsTable
<1>. QED
  BY <1>2, <1>3, <1>4, <1>5, <1>6, <1>7, <1>8

\* What is stored is what the table contains.
LEMMA StoredIs ==
    ASSUME MapInv
    PROVE  Stored = Contents(buckets, nbuckets) /\ Stored \subseteq Items
<1>1. CASE live
  <2>1. DOMAIN buckets = 0..(nbuckets - 1)
    BY <1>1, Known DEF Tables
  <2>2. \A i \in 0..(nbuckets - 1) : buckets[i].held \subseteq Items
    BY <1>1, Known, TableTypes
  <2>. QED
    BY <2>1, <2>2 DEF Stored, Contents
<1>2. CASE ~live
  <2>1. DOMAIN buckets = {} /\ nbuckets = 0
    BY <1>2 DEF MapInv, Zeroed
  <2>2. Stored = {}
    BY <2>1 DEF Stored
  <2>3. Contents(buckets, nbuckets) = {}
    BY <2>1 DEF Contents
  <2>. QED
    BY <2>2, <2>3
<1>. QED
  BY <1>1, <1>2 DEF MapInv

\* What hashmap_set makes of a table with room: the item replaced, or one more.
WithKey(items, k) == {z \in items : z.key = k}

LEMMA PutFills ==
    ASSUME hash \in Hashes, NEW n \in Nat \ {0}, GrowAt(n) \in Nat, GrowAt(n) < n,
           NEW t, NEW c, NEW x \in Items, Filled(t, n, c), c < GrowAt(n),
           NEW s, s = Put(t, n, x),
           NEW gone, gone = WithKey(Contents(t, n), x.key)
    PROVE  /\ s.displaced = gone
           /\ Filled(s.buckets, n, IF gone = {} THEN c + 1 ELSE c)
           /\ Contents(s.buckets, n) = (Contents(t, n) \ gone) \cup {x}
<1>1. n \in Nat \ {0}
  OBVIOUS
<1>2. /\ IsTable(hash, t, n) /\ c = Cardinality(Full(t, n)) /\ c <= GrowAt(n) /\ c \in Nat
  BY <1>1, RoomLeft DEF Filled
<1>3. CASE \E z \in Contents(t, n) : z.key = x.key
  <2>1. PICK p \in 0..(n - 1) : \E z \in t[p].held : z.key = x.key
    BY <1>3 DEF Contents
  <2>0. PICK z \in t[p].held : z.key = x.key
    BY <2>1
  <2>2. gone = {z}
    <3>1. z \in Contents(t, n)
      BY <1>1, <1>2, <2>0, TableTypes DEF Contents
    <3>2. ASSUME NEW y \in Contents(t, n), y.key = x.key PROVE y = z
      <4>1. PICK q \in 0..(n - 1) : y \in t[q].held
        BY DEF Contents
      <4>2. q = p
        BY <1>2, <2>0, <3>2, <4>1 DEF IsTable, Distinct
      <4>3. t[p].held = {z}
        BY <1>1, <1>2, <2>0, TableTypes
      <4>. QED
        BY <4>1, <4>2, <4>3
    <3>. QED
      BY <2>0, <3>1, <3>2 DEF WithKey
  <2>3. s.buckets = Replaced(t, p, x) /\ s.displaced = {z}
    BY <1>1, <1>2, <2>0, PutReplaces
  <2>4. PICK u : u = Replaced(t, p, x)
    OBVIOUS
  <2>5. /\ IsTable(hash, u, n) /\ Full(u, n) = Full(t, n)
        /\ Contents(u, n) = (Contents(t, n) \ {z}) \cup {x}
    BY <1>1, <1>2, <2>0, <2>4, ReplacedIsTable
  <2>6. Filled(u, n, c)
    BY <1>2, <2>5 DEF Filled
  <2>. QED
    BY <2>2, <2>3, <2>4, <2>5, <2>6
<1>4. CASE ~ \E z \in Contents(t, n) : z.key = x.key
  <2>1. gone = {}
    BY <1>4 DEF WithKey
  <2>2. Absent(x.key, t, n)
    BY <1>1, <1>2, <1>4, TableTypes DEF Absent, Contents
  <2>3. PICK v \in 0..(n - 1) : v \notin Full(t, n)
    BY <1>1, <1>2, RoomLeft
  <2>4. PICK u : u = s.buckets
    OBVIOUS
  <2>5. s.displaced = {} /\ OneMore(u, t, n, x)
    BY <1>1, <1>2, <2>2, <2>3, <2>4, PutInserts
  <2>6. IsTable(hash, u, n) /\ Contents(u, n) = Contents(t, n) \cup {x}
    BY <2>5 DEF OneMore
  <2>7. Cardinality(Full(u, n)) = c + 1
    BY <1>1, <1>2, <2>5, OneMoreCounts
  <2>8. Filled(u, n, c + 1)
    BY <1>1, <1>2, <2>1, <2>6, <2>7 DEF Filled
  <2>. QED
    BY <2>1, <2>4, <2>5, <2>6, <2>8
<1>. QED
  BY <1>3, <1>4
\* What hashmap_delete makes of the buckets when it has found the item.
LEMMA ShiftFills ==
    ASSUME MapInv, live, NEW p \in 0..(nbuckets - 1), buckets[p].dib # 0,
           NEW u, u = ShiftBack(p)
    PROVE  /\ IsTable(hash, u, nbuckets) /\ Cardinality(Full(u, nbuckets)) = count - 1
           /\ count - 1 \in Nat
           /\ Contents(u, nbuckets) = Contents(buckets, nbuckets) \ buckets[p].held
<1>. PICK n : n = nbuckets
  OBVIOUS
<1>1. /\ hash \in Hashes /\ n \in Nat \ {0} /\ IsTable(hash, buckets, n)
      /\ buckets \in Tables(n) /\ count \in Nat
      /\ IsFiniteSet(Full(buckets, n)) /\ count = Cardinality(Full(buckets, n))
  BY Known
<1>2. PICK v \in 0..(n - 1) : v \notin Full(buckets, n)
  BY Known
<1>3. PICK m \in 1..(n - 1) :
         Movable(buckets, p, m, n) /\ Shifted(u, buckets, p, m, n) /\ HasBuckets(u, n)
  BY <1>1, <1>2, ShiftBackIs
<1>4. IsTable(hash, u, n)
  BY <1>1, <1>3, ShiftedIsTable
<1>5. /\ Behind(p, m - 1, n) \in Full(buckets, n)
      /\ Full(u, n) = Full(buckets, n) \ {Behind(p, m - 1, n)}
      /\ Contents(u, n) = Contents(buckets, n) \ buckets[p].held
  BY <1>1, <1>3, <1>4, ShiftedHolds
<1>6. Cardinality(Full(u, n)) = count - 1
  <2>1. ASSUME NEW S, IsFiniteSet(S), NEW q \in S
        PROVE  Cardinality(S \ {q}) = Cardinality(S) - 1
    BY <2>1, FS_RemoveElement
  <2>. QED
    BY <1>1, <1>5, <2>1
<1>7. Cardinality(Full(u, n)) \in Nat
  BY <1>1, RoomLeft
<1>. QED
  BY <1>4, <1>5, <1>6, <1>7

\* Each call that changes the buckets: what the new ones hold.
LEMMA SetEffect ==
    ASSUME MapInv, NEW x \in Items, Set(x)
    PROVE  /\ live /\ UNCHANGED <<hash, cap, live>> /\ oom' = FALSE /\ cursor' = 0
           /\ Sized' /\ Filled(buckets', nbuckets', count')
           /\ answer' = WithKey(Stored, x.key)
           /\ Contents(buckets', nbuckets') = (Stored \ answer') \cup {x}
<1> DEFINE gone == WithKey(Stored, x.key)
<1>1. /\ live /\ hash \in Hashes /\ nbuckets \in Nat \ {0} /\ count \in Nat
      /\ IsTable(hash, buckets, nbuckets) /\ count = Cardinality(Full(buckets, nbuckets))
      /\ GrowAt(nbuckets) \in Nat /\ count <= GrowAt(nbuckets) /\ count < nbuckets
  <2>1. live
    BY DEF Set
  <2>. QED
    BY <2>1, Known
<1>2. /\ Stored = Contents(buckets, nbuckets) /\ Filled(buckets, nbuckets, count)
      /\ cap <= nbuckets /\ nbuckets <= alloc /\ alloc \in Nat /\ cap \in Nat
      /\ \E i \in Nat : cap = Doubled[i]
  BY <1>1, StoredIs, Known DEF MapInv, Sized
<1>3. PICK j \in Nat : nbuckets = Doubled[j]
  BY <1>1 DEF MapInv, Sized
<1>4. ASSUME NEW t, NEW n, SetInto(t, n, x), NEW i \in Nat, n = Doubled[i],
             Filled(t, n, count), count < GrowAt(n), Contents(t, n) = Stored
      PROVE  /\ UNCHANGED <<hash, cap, live>> /\ oom' = FALSE /\ cursor' = 0
             /\ nbuckets' = n /\ Filled(buckets', n, count')
             /\ answer' = gone /\ Contents(buckets', n) = (Stored \ gone) \cup {x}
  <2>. PICK s : s = Put(t, n, x)
    OBVIOUS
  <2>1. /\ buckets' = s.buckets /\ nbuckets' = n /\ answer' = s.displaced
        /\ count' = IF s.displaced = {} THEN count + 1 ELSE count
        /\ UNCHANGED <<hash, cap, live>> /\ oom' = FALSE /\ cursor' = 0
    BY <1>4 DEF SetInto
  <2>2. gone = WithKey(Contents(t, n), x.key)
    BY <1>4
  <2> HIDE DEF gone
  <2>0. n \in Nat \ {0} /\ GrowAt(n) \in Nat /\ GrowAt(n) < n /\ Filled(t, n, count)
    BY <1>4, Loads
  <2>3. /\ s.displaced = gone
        /\ Filled(s.buckets, n, IF gone = {} THEN count + 1 ELSE count)
        /\ Contents(s.buckets, n) = (Contents(t, n) \ gone) \cup {x}
    BY <1>1, <1>4, <2>0, <2>2, PutFills
  <2>. QED
    BY <1>4, <2>1, <2>3
<1> HIDE DEF gone
<1>5. CASE count # GrowAt(nbuckets) /\ SetInto(buckets, nbuckets, x) /\ UNCHANGED alloc
  <2>1. count < GrowAt(nbuckets)
    BY <1>1, <1>5
  <2>2. /\ UNCHANGED <<hash, cap, live>> /\ oom' = FALSE /\ cursor' = 0
        /\ nbuckets' = nbuckets /\ Filled(buckets', nbuckets, count')
        /\ answer' = gone /\ Contents(buckets', nbuckets) = (Stored \ gone) \cup {x}
    BY <1>2, <1>3, <1>4, <1>5, <2>1
  <2>3. Sized'
    BY <1>2, <1>3, <1>5, <2>2 DEF Sized
  <2>. QED
    BY <1>1, <2>2, <2>3 DEF gone
<1>6. CASE /\ count = GrowAt(nbuckets) /\ alloc' = 2 * nbuckets
           /\ SetInto(Resized(buckets, nbuckets, 2 * nbuckets), 2 * nbuckets, x)
  <2>. PICK n, t : n = 2 * nbuckets /\ t = Resized(buckets, nbuckets, n)
    OBVIOUS
  <2>1. j + 1 \in Nat /\ n = Doubled[j + 1] /\ n \in Nat \ {0} /\ count <= n
    BY <1>1, <1>3, DoubledDef
  <2>2. GrowAt(nbuckets) < GrowAt(n) /\ GrowAt(n) \in Nat
    BY <1>3, <2>1, Loads
  <2>3. /\ IsTable(hash, t, n) /\ Cardinality(Full(t, n)) = count
        /\ Contents(t, n) = Stored
    BY <1>1, <1>2, <2>1, ResizedIsTable
  <2>4. count < GrowAt(n) /\ count <= GrowAt(n)
    BY <1>1, <1>6, <2>2
  <2>5. Filled(t, n, count)
    BY <2>3, <2>4 DEF Filled
  <2>6. SetInto(t, n, x)
    BY <1>6
  <2>7. /\ UNCHANGED <<hash, cap, live>> /\ oom' = FALSE /\ cursor' = 0
        /\ nbuckets' = n /\ Filled(buckets', n, count')
        /\ answer' = gone /\ Contents(buckets', n) = (Stored \ gone) \cup {x}
    BY <1>4, <2>1, <2>3, <2>4, <2>5, <2>6
  <2>8. Sized'
    <3>1. alloc' = n /\ cap <= n
      BY <1>1, <1>2, <1>6
    <3>. QED
      BY <1>2, <2>1, <2>7, <3>1 DEF Sized
  <2>. QED
    BY <1>1, <2>7, <2>8 DEF gone
<1>. QED
  BY <1>5, <1>6 DEF Set
\* The probe for a key answers with what is stored under it.
LEMMA ProbeAnswers ==
    ASSUME MapInv, live, NEW k \in Keys, NEW p, p = ProbeEnd(k)
    PROVE  /\ p \in 0..(nbuckets - 1)
           /\ buckets[p].held = WithKey(Stored, k)
           /\ buckets[p].dib = 0 => buckets[p].held = {}
           /\ buckets[p].dib # 0 => \E z \in Items : buckets[p].held = {z}
<1>1. /\ hash \in Hashes /\ nbuckets \in Nat \ {0} /\ IsTable(hash, buckets, nbuckets)
      /\ Stored = Contents(buckets, nbuckets)
  BY Known, StoredIs
<1>2. PICK v \in 0..(nbuckets - 1) : v \notin Full(buckets, nbuckets)
  BY Known
<1>3. /\ p \in 0..(nbuckets - 1)
      /\ buckets[p].dib = 0 => Absent(k, buckets, nbuckets)
      /\ buckets[p].dib # 0 => \E z \in buckets[p].held : z.key = k
  BY <1>1, <1>2, ProbeFinds
<1>4. CASE buckets[p].dib = 0
  <2>1. buckets[p].held = {}
    BY <1>1, <1>3, <1>4 DEF IsTable, WellFilled
  <2>2. WithKey(Stored, k) = {}
    BY <1>1, <1>3, <1>4 DEF WithKey, Contents, Absent
  <2>. QED
    BY <1>3, <1>4, <2>1, <2>2
<1>5. CASE buckets[p].dib # 0
  <2>1. PICK z \in Items : buckets[p].held = {z} /\ z.key = k
    BY <1>1, <1>3, <1>5 DEF IsTable, WellFilled
  <2>2. z \in Stored
    BY <1>1, <1>3, <2>1 DEF Contents
  <2>3. ASSUME NEW y \in Stored, y.key = k PROVE y = z
    <3>1. PICK q \in 0..(nbuckets - 1) : y \in buckets[q].held
      BY <1>1 DEF Contents
    <3>2. q = p
      BY <1>1, <1>3, <2>1, <2>3, <3>1 DEF IsTable, Distinct
    <3>. QED
      BY <2>1, <3>1, <3>2
  <2>4. WithKey(Stored, k) = {z}
    BY <2>1, <2>2, <2>3 DEF WithKey
  <2>. QED
    BY <1>3, <1>5, <2>1, <2>4
<1>. QED
  BY <1>4, <1>5

LEMMA DeleteEffect ==
    ASSUME MapInv, NEW k \in Keys, Delete(k)
    PROVE  /\ live /\ UNCHANGED <<hash, cap, live>> /\ oom' = FALSE /\ cursor' = 0
           /\ Sized' /\ Filled(buckets', nbuckets', count')
           /\ answer' = WithKey(Stored, k)
           /\ Contents(buckets', nbuckets') = Stored \ answer'
<1>1. /\ live /\ hash \in Hashes /\ nbuckets \in Nat \ {0} /\ count \in Nat
      /\ IsTable(hash, buckets, nbuckets) /\ count = Cardinality(Full(buckets, nbuckets))
      /\ GrowAt(nbuckets) \in Nat /\ count <= GrowAt(nbuckets) /\ count < nbuckets
  <2>1. live
    BY DEF Delete
  <2>. QED
    BY <2>1, Known
<1>2. /\ Stored = Contents(buckets, nbuckets) /\ Filled(buckets, nbuckets, count)
      /\ cap <= nbuckets /\ nbuckets <= alloc /\ alloc \in Nat /\ cap \in Nat
  BY <1>1, StoredIs, Known DEF MapInv, Sized
<1>3. PICK i \in Nat, j \in Nat : cap = Doubled[i] /\ nbuckets = Doubled[j]
  BY <1>1 DEF MapInv, Sized
<1>4. PICK p : p = ProbeEnd(k)
  OBVIOUS
<1>5. /\ p \in 0..(nbuckets - 1) /\ buckets[p].held = WithKey(Stored, k)
      /\ buckets[p].dib = 0 => buckets[p].held = {}
      /\ buckets[p].dib # 0 => \E z \in Items : buckets[p].held = {z}
  BY <1>1, <1>4, ProbeAnswers
<1>6. /\ UNCHANGED <<hash, cap, live>> /\ oom' = FALSE /\ cursor' = 0
      /\ answer' = buckets[p].held
  BY <1>4 DEF Delete
<1>7. CASE buckets[p].dib = 0
  <2>1. UNCHANGED <<buckets, count, nbuckets, alloc>>
    BY <1>4, <1>7 DEF Delete
  <2>2. answer' = {} /\ WithKey(Stored, k) = {}
    BY <1>5, <1>6, <1>7
  <2>3. Sized'
    BY <1>1, <1>6, <2>1 DEF MapInv, Sized
  <2>. QED
    BY <1>1, <1>2, <1>6, <2>1, <2>2, <2>3
<1>8. CASE buckets[p].dib # 0
  <2>1. PICK z \in Items : buckets[p].held = {z}
    BY <1>5, <1>8
  <2>2. WithKey(Stored, k) = {z}
    BY <1>5, <2>1
  <2>3. PICK u : u = ShiftBack(p)
    OBVIOUS
  <2>4. /\ IsTable(hash, u, nbuckets) /\ Cardinality(Full(u, nbuckets)) = count - 1
        /\ count - 1 \in Nat /\ Contents(u, nbuckets) = Stored \ {z}
    BY <1>1, <1>2, <1>5, <1>8, <2>1, <2>3, ShiftFills
  <2>5. count' = count - 1
    BY <1>4, <1>8 DEF Delete
  <2>6. CASE buckets' = u /\ UNCHANGED <<nbuckets, alloc>>
    <3>1. count - 1 <= GrowAt(nbuckets)
      BY <1>1
    <3>2. Filled(u, nbuckets, count - 1)
      BY <2>4, <3>1 DEF Filled
    <3>3. Sized'
      BY <1>1, <1>6, <2>6 DEF MapInv, Sized
    <3>. QED
      BY <1>1, <1>6, <2>1, <2>2, <2>4, <2>5, <2>6, <3>2, <3>3
  <2>7. CASE /\ nbuckets > cap /\ count' <= ShrinkAt(nbuckets)
             /\ buckets' = Resized(u, nbuckets, nbuckets \div 2)
             /\ nbuckets' = nbuckets \div 2 /\ alloc' = nbuckets'
    <3>1. i < j
      BY <1>1, <1>2, <1>3, <2>7, DoubledGrows, DoubledDef
    <3>2. PICK l \in Nat : j = l + 1 /\ i <= l
      <4>1. j - 1 \in Nat /\ j = (j - 1) + 1 /\ i <= j - 1
        BY <3>1
      <4>. QED
        BY <4>1
    <3>3. PICK n : n = Doubled[l]
      OBVIOUS
    <3>4. nbuckets = 2 * n /\ n \in Nat \ {0} /\ cap <= n
      <4>1. nbuckets = 2 * n
        BY <1>3, <3>2, <3>3, DoubledDef
      <4>2. n \in Nat \ {0}
        BY <3>3, Loads
      <4>3. cap <= n
        BY <1>3, <3>2, <3>3, DoubledGrows
      <4>. QED
        BY <4>1, <4>2, <4>3
    <3>5. nbuckets \div 2 = n
      BY <3>4
    <3>6. /\ ShrinkAt(nbuckets) <= GrowAt(n) /\ ShrinkAt(nbuckets) \in Nat
          /\ GrowAt(n) \in Nat /\ GrowAt(n) < n
      <4>1. ShrinkAt(2 * n) <= GrowAt(n) /\ GrowAt(n) \in Nat /\ GrowAt(n) < n
        BY <3>3, Loads
      <4>2. ShrinkAt(nbuckets) \in Nat
        BY <1>3, Loads
      <4>. QED
        BY <3>4, <4>1, <4>2
    <3>7. count - 1 <= GrowAt(n) /\ count - 1 <= n
      BY <2>4, <2>5, <2>7, <3>4, <3>6
    <3>8. PICK r : r = Resized(u, nbuckets, n)
      OBVIOUS
    <3>9. /\ IsTable(hash, r, n) /\ Cardinality(Full(r, n)) = count - 1
          /\ Contents(r, n) = Stored \ {z}
      BY <1>1, <2>4, <3>4, <3>7, <3>8, ResizedIsTable
    <3>10. Filled(r, n, count - 1)
      BY <3>7, <3>9 DEF Filled
    <3>11. buckets' = r /\ nbuckets' = n /\ alloc' = n
      BY <2>7, <3>5, <3>8
    <3>12. Sized'
      BY <1>3, <1>6, <3>3, <3>4, <3>11 DEF Sized
    <3>. QED
      BY <1>1, <1>6, <2>1, <2>2, <2>5, <3>9, <3>10, <3>11, <3>12
  <2>8. \/ buckets' = u /\ UNCHANGED <<nbuckets, alloc>>
        \/ /\ nbuckets > cap /\ count' <= ShrinkAt(nbuckets)
           /\ buckets' = Resized(u, nbuckets, nbuckets \div 2)
           /\ nbuckets' = nbuckets \div 2 /\ alloc' = nbuckets'
    BY <1>4, <1>8, <2>3 DEF Delete
  <2>. QED
    BY <2>6, <2>7, <2>8
<1>. QED
  BY <1>7, <1>8

LEMMA ClearEffect ==
    ASSUME MapInv, NEW update_cap \in BOOLEAN, Clear(update_cap)
    PROVE  /\ live /\ UNCHANGED <<hash, oom, live>> /\ cursor' = 0
           /\ Sized' /\ Filled(buckets', nbuckets', count')
           /\ answer' = Stored
           /\ Contents(buckets', nbuckets') = {}
<1>1. /\ live /\ UNCHANGED <<hash, oom, live>> /\ cursor' = 0 /\ answer' = Stored
      /\ buckets' = Zeroed(nbuckets') /\ count' = 0
  BY DEF Clear
<1>2. PICK i \in Nat, j \in Nat : cap = Doubled[i] /\ nbuckets = Doubled[j]
  BY <1>1 DEF MapInv, Sized
<1>3. /\ cap \in Nat \ {0} /\ nbuckets \in Nat \ {0} /\ alloc \in Nat /\ hash \in Hashes
      /\ cap <= nbuckets /\ nbuckets <= alloc
  BY <1>1, Known DEF MapInv, Sized
<1>4. Sized'
  <2>1. CASE update_cap
    <3>1. cap' = nbuckets /\ UNCHANGED <<nbuckets, alloc>>
      BY <2>1 DEF Clear
    <3>. QED
      BY <1>2, <1>3, <3>1 DEF Sized
  <2>2. CASE ~update_cap
    <3>1. nbuckets' = cap /\ UNCHANGED cap /\ (alloc' = cap \/ UNCHANGED alloc)
      BY <2>2 DEF Clear
    <3>2. alloc' \in Nat /\ cap <= alloc'
      BY <1>3, <3>1
    <3>. QED
      BY <1>2, <1>3, <3>1, <3>2 DEF Sized
  <2>. QED
    BY <2>1, <2>2
<1>5. PICK l \in Nat : nbuckets' = Doubled[l]
  BY <1>4 DEF Sized
<1>6. PICK n \in Nat : n = nbuckets' /\ GrowAt(n) \in Nat
  BY <1>5, Loads
<1>7. /\ IsTable(hash, Zeroed(n), n) /\ Full(Zeroed(n), n) = {}
      /\ Contents(Zeroed(n), n) = {}
  BY <1>3, ZeroedIsTable
<1>8. Filled(Zeroed(n), n, 0)
  BY <1>6, <1>7, FS_EmptySet DEF Filled
<1>. QED
  BY <1>1, <1>4, <1>6, <1>7, <1>8
\* The calls that leave the buckets alone.
Looks ==
    \/ \E x \in Items : SetFails(x)
    \/ \E k \in Keys : Get(k)
    \/ Iter
    \/ \E n \in 1..Cardinality(Keys) : Scan(n)
    \/ \E position \in 0..nbuckets : Probe(position)

\* The buckets iteration has not reached and that are not vacant.
Rest == {i \in cursor..(nbuckets - 1) : buckets[i].dib # 0}

LEMMA IterMoves ==
    ASSUME MapInv, Iter
    PROVE  /\ Rest = {} => answer' = {} /\ cursor' = nbuckets
           /\ Rest # {} => \E m \in Rest : /\ \A i \in Rest : m <= i
                                           /\ answer' = buckets[m].held /\ cursor' = m + 1
           /\ cursor' \in Nat /\ cursor' <= nbuckets
           /\ answer' \subseteq Items
<1>1. live /\ cursor \in Nat /\ nbuckets \in Nat
  <2>1. live
    BY DEF Iter
  <2>. QED
    BY <2>1, Known DEF MapInv
<1>2. IF Rest = {} THEN answer' = {} /\ cursor' = nbuckets
      ELSE answer' = buckets[Min(Rest)].held /\ cursor' = Min(Rest) + 1
  BY DEF Iter, Rest
<1>3. CASE Rest = {}
  BY <1>1, <1>2, <1>3
<1>4. CASE Rest # {}
  <2>1. Rest \in SUBSET Nat
    BY <1>1 DEF Rest
  <2>2. PICK m \in Rest : m = Min(Rest) /\ \A i \in Rest : m <= i
    BY <1>4, <2>1, MinOfPositions
  <2>3. m \in 0..(nbuckets - 1)
    BY <1>1 DEF Rest
  <2>4. buckets[m].held \subseteq Items
    BY <1>1, <2>3, Known, TableTypes
  <2>. QED
    BY <1>1, <1>2, <1>4, <2>2, <2>3, <2>4
<1>. QED
  BY <1>3, <1>4

LEMMA LookEffect ==
    ASSUME MapInv, Looks
    PROVE  /\ live /\ UNCHANGED <<hash, cap, nbuckets, alloc, buckets, count, live>>
           /\ oom' \in BOOLEAN /\ cursor' \in Nat /\ cursor' <= nbuckets
           /\ answer' \subseteq Items
<1>1. live /\ UNCHANGED <<hash, cap, nbuckets, alloc, buckets, count, live>>
  BY DEF Looks, SetFails, Get, Iter, Scan, Probe
<1>2. /\ nbuckets \in Nat \ {0} /\ oom \in BOOLEAN /\ cursor \in Nat /\ cursor <= nbuckets
      /\ hash \in Hashes /\ IsTable(hash, buckets, nbuckets)
  BY <1>1, Known DEF MapInv
<1>3. \A i \in 0..(nbuckets - 1) : buckets[i].held \subseteq Items
  BY <1>2, TableTypes
<1>4. CASE \E x \in Items : SetFails(x)
  BY <1>2, <1>4 DEF SetFails
<1>5. CASE \E k \in Keys : Get(k)
  <2>1. PICK k \in Keys : Get(k)
    BY <1>5
  <2>2. PICK v \in 0..(nbuckets - 1) : v \notin Full(buckets, nbuckets)
    BY <1>1, Known
  <2>3. ProbeEnd(k) \in 0..(nbuckets - 1)
    BY <1>2, <2>2, ProbeFinds
  <2>. QED
    BY <1>2, <1>3, <2>1, <2>3 DEF Get
<1>6. CASE Iter
  <2>1. oom' = oom
    BY <1>6 DEF Iter
  <2>2. cursor' \in Nat /\ cursor' <= nbuckets /\ answer' \subseteq Items
    BY <1>6, IterMoves
  <2>. QED
    BY <1>1, <1>2, <2>1, <2>2
<1>7. CASE \E n \in 1..Cardinality(Keys) : Scan(n)
  <2>1. PICK n \in 1..Cardinality(Keys) : Scan(n)
    BY <1>7
  <2>2. DOMAIN buckets = 0..(nbuckets - 1)
    BY <1>1, Known DEF Tables
  <2>3. answer' \subseteq Items
    BY <1>3, <2>1, <2>2 DEF Scan
  <2>. QED
    BY <1>1, <1>2, <2>1, <2>3 DEF Scan
<1>8. CASE \E position \in 0..nbuckets : Probe(position)
  <2>1. PICK position \in 0..nbuckets : Probe(position)
    BY <1>8
  <2>2. position % nbuckets \in 0..(nbuckets - 1)
    BY <1>2
  <2>. QED
    BY <1>1, <1>2, <1>3, <2>1, <2>2 DEF Probe
<1>. QED
  BY <1>1, <1>4, <1>5, <1>6, <1>7, <1>8 DEF Looks

LEMMA MapInit == Init => MapInv
<1> SUFFICES ASSUME Init PROVE MapInv
  OBVIOUS
<1>1. PICK c \in Capacities : cap = RoundUp(c)
  BY DEF Init
<1>2. c \in Nat
  BY HashMapAssumption
<1>3. PICK j \in Nat : cap = Doubled[j]
  BY <1>1, <1>2, RoundUpIsDoubled
<1>4. PICK n \in Nat : n = cap /\ GrowAt(n) \in Nat
  BY <1>3, Loads
<1>5. /\ hash \in Hashes /\ nbuckets = n /\ alloc = n /\ buckets = Zeroed(n) /\ count = 0
      /\ oom = FALSE /\ cursor = 0 /\ answer = {} /\ live = TRUE
  BY <1>4 DEF Init
<1>6. IsTable(hash, Zeroed(n), n) /\ Full(Zeroed(n), n) = {}
  BY <1>5, ZeroedIsTable
<1>7. Filled(buckets, nbuckets, count)
  BY <1>4, <1>5, <1>6, FS_EmptySet DEF Filled
<1>8. Sized
  BY <1>3, <1>4, <1>5 DEF Sized
<1>9. oom \in BOOLEAN /\ live \in BOOLEAN /\ live
  BY <1>5
<1>10. {cap, cursor} \subseteq Nat /\ cursor <= nbuckets /\ answer \subseteq Items
  BY <1>4, <1>5
<1>. QED
  BY <1>5, <1>7, <1>8, <1>9, <1>10 DEF MapInv

LEMMA MapNext == MapInv /\ [Next]_vars => MapInv'
<1> SUFFICES ASSUME MapInv, [Next]_vars PROVE MapInv'
  OBVIOUS
<1>1. ASSUME live', hash' \in Hashes, Sized', Filled(buckets', nbuckets', count'),
             UNCHANGED hash, cursor' \in Nat, cursor' <= nbuckets', oom' \in BOOLEAN,
             answer' \subseteq Items, live' \in BOOLEAN
      PROVE  MapInv'
  <2>1. (Filled(buckets, nbuckets, count))'
    BY <1>1 DEF Filled
  <2>2. cap' \in Nat
    BY <1>1, DoubledDef DEF Sized
  <2>. QED
    BY <1>1, <2>1, <2>2 DEF MapInv
<1>2. ASSUME Sized', cursor' = 0
      PROVE  cursor' \in Nat /\ cursor' <= nbuckets'
  <2>1. PICK j \in Nat : nbuckets' = Doubled[j]
    BY <1>2 DEF Sized
  <2>. QED
    BY <1>2, <2>1, DoubledDef
<1>3. hash \in Hashes /\ Stored \subseteq Items /\ live \in BOOLEAN /\ oom \in BOOLEAN
  BY StoredIs DEF MapInv
<1>4. ASSUME NEW x \in Items, Set(x) PROVE MapInv'
  <2>1. /\ live /\ UNCHANGED <<hash, cap, live>> /\ oom' = FALSE /\ cursor' = 0
        /\ Sized' /\ Filled(buckets', nbuckets', count') /\ answer' = WithKey(Stored, x.key)
    BY <1>4, SetEffect
  <2>2. answer' \subseteq Items
    BY <1>3, <2>1 DEF WithKey
  <2>. QED
    BY <1>1, <1>2, <1>3, <2>1, <2>2
<1>5. ASSUME NEW k \in Keys, Delete(k) PROVE MapInv'
  <2>1. /\ live /\ UNCHANGED <<hash, cap, live>> /\ oom' = FALSE /\ cursor' = 0
        /\ Sized' /\ Filled(buckets', nbuckets', count') /\ answer' = WithKey(Stored, k)
    BY <1>5, DeleteEffect
  <2>2. answer' \subseteq Items
    BY <1>3, <2>1 DEF WithKey
  <2>. QED
    BY <1>1, <1>2, <1>3, <2>1, <2>2
<1>6. ASSUME NEW update_cap \in BOOLEAN, Clear(update_cap) PROVE MapInv'
  <2>1. /\ live /\ UNCHANGED <<hash, oom, live>> /\ cursor' = 0
        /\ Sized' /\ Filled(buckets', nbuckets', count') /\ answer' = Stored
    BY <1>6, ClearEffect
  <2>. QED
    BY <1>1, <1>2, <1>3, <2>1
<1>7. CASE Looks
  <2>1. /\ live /\ UNCHANGED <<hash, cap, nbuckets, alloc, buckets, count, live>>
        /\ oom' \in BOOLEAN /\ cursor' \in Nat /\ cursor' <= nbuckets /\ answer' \subseteq Items
    BY <1>7, LookEffect
  <2>2. Sized /\ Filled(buckets, nbuckets, count)
    BY <2>1 DEF MapInv
  <2>3. Sized' /\ Filled(buckets', nbuckets', count')
    BY <2>1, <2>2 DEF Sized
  <2>. QED
    BY <1>1, <1>3, <2>1, <2>3
<1>8. CASE Free
  <2>1. /\ live' = FALSE /\ nbuckets' = 0 /\ alloc' = 0 /\ count' = 0 /\ buckets' = Zeroed(0)
        /\ answer' = Stored /\ cursor' = 0 /\ UNCHANGED <<hash, cap, oom>>
    BY <1>8 DEF Free
  <2>2. {cap', cursor'} \subseteq Nat /\ cursor' <= nbuckets'
    BY <2>1 DEF MapInv
  <2>3. oom' \in BOOLEAN /\ live' \in BOOLEAN /\ ~live'
    BY <1>3, <2>1
  <2>4. hash' \in Hashes /\ answer' \subseteq Items
    BY <1>3, <2>1
  <2>5. (nbuckets = 0 /\ alloc = 0 /\ count = 0 /\ buckets = Zeroed(0))'
    BY <2>1 DEF Zeroed
  <2>. QED
    BY <2>2, <2>3, <2>4, <2>5 DEF MapInv
<1>9. CASE UNCHANGED vars
  BY <1>9 DEF vars, MapInv, Sized, Filled
<1>. QED
  BY <1>4, <1>5, <1>6, <1>7, <1>8, <1>9 DEF Next, Looks
LEMMA MapInvHolds == Spec => []MapInv
BY MapInit, MapNext, PTL DEF Spec

\* Every variable of the header map has its type in every state.
THEOREM TypeCorrect == Spec => []TypeOK
<1>1. MapInv => TypeOK
  <2> SUFFICES ASSUME MapInv PROVE TypeOK
    OBVIOUS
  <2>1. /\ hash \in Hashes /\ oom \in BOOLEAN /\ answer \subseteq Items /\ live \in BOOLEAN
        /\ cap \in Nat /\ cursor \in Nat
    BY DEF MapInv
  <2>2. CASE live
    <3>1. /\ nbuckets \in Nat \ {0} /\ alloc \in Nat /\ count \in Nat
          /\ IsTable(hash, buckets, nbuckets) /\ buckets \in Tables(nbuckets)
      BY <2>2, Known
    <3>2. DOMAIN buckets = 0..(nbuckets - 1)
      BY <3>1 DEF Tables
    <3>3. ASSUME NEW i \in 0..(nbuckets - 1)
          PROVE  \E d \in 0..nbuckets : \E held \in SUBSET Items :
                    /\ buckets[i] = [dib |-> d, held |-> held]
                    /\ Cardinality(held) = IF d = 0 THEN 0 ELSE 1
      <4>1. PICK b \in Entries : b = buckets[i] /\ b.dib \in 0..nbuckets
        BY <2>1, <3>1, TableTypes
      <4>2. b = [dib |-> b.dib, held |-> b.held] /\ b.held \in SUBSET Items
        BY DEF Entries
      <4>3. Cardinality(b.held) = IF b.dib = 0 THEN 0 ELSE 1
        <5>1. CASE b.dib = 0
          <6>1. b.held = {}
            BY <3>1, <4>1, <5>1 DEF IsTable, WellFilled
          <6>. QED
            BY <5>1, <6>1, FS_EmptySet
        <5>2. CASE b.dib # 0
          <6>1. PICK x : b.held = {x}
            BY <3>1, <4>1, <5>2 DEF IsTable, WellFilled
          <6>. QED
            BY <5>2, <6>1, FS_Singleton
        <5>. QED
          BY <5>1, <5>2
      <4>. QED
        BY <4>1, <4>2, <4>3
    <3>. QED
      BY <2>1, <3>1, <3>2, <3>3 DEF TypeOK
  <2>3. CASE ~live
    <3>1. nbuckets = 0 /\ alloc = 0 /\ count = 0 /\ buckets = Zeroed(0)
      BY <2>3 DEF MapInv
    <3>2. DOMAIN buckets = 0..(nbuckets - 1) /\ DOMAIN buckets = {}
      BY <3>1 DEF Zeroed
    <3>3. {cap, nbuckets, alloc, count, cursor} \subseteq Nat
      BY <2>1, <3>1
    <3>. QED
      BY <2>1, <3>2, <3>3 DEF TypeOK
  <2>. QED
    BY <2>2, <2>3
<1>. QED
  BY <1>1, MapInvHolds, PTL

\* Every entry is where its dib says, and no run of entries has a gap: probes
\* and deletion find what is there.
THEOREM AlwaysRobinHood == Spec => []RobinHood
<1>1. MapInv => RobinHood
  <2> SUFFICES ASSUME MapInv PROVE RobinHood
    OBVIOUS
  <2>1. CASE live
    <3>1. /\ hash \in Hashes /\ nbuckets \in Nat \ {0}
          /\ IsTable(hash, buckets, nbuckets) /\ buckets \in Tables(nbuckets)
      BY <2>1, Known
    <3>2. DOMAIN buckets = 0..(nbuckets - 1)
      BY <3>1 DEF Tables
    <3>3. ASSUME NEW i \in 0..(nbuckets - 1), NEW x \in buckets[i].held
          PROVE  i = (Home(x.key, nbuckets) + buckets[i].dib - 1) % nbuckets
      <4>1. /\ buckets[i].dib \in 0..nbuckets /\ buckets[i].dib # 0 /\ x.key \in Keys
            /\ hash[x.key] \in Nat /\ i = Spot(hash, x.key, buckets[i].dib, nbuckets)
        BY <3>1, TableTypes DEF IsTable, Placed, Items
      <4>2. PICK d \in Nat : buckets[i].dib = d + 1
        <5>1. buckets[i].dib - 1 \in Nat /\ buckets[i].dib = (buckets[i].dib - 1) + 1
          BY <4>1
        <5>. QED
          BY <5>1
      <4>3. i = (Home(x.key, nbuckets) + d) % nbuckets
        BY <3>1, <4>1, <4>2, BehindHome DEF Home, Behind
      <4>4. Home(x.key, nbuckets) \in Int
        BY <3>1, <4>1 DEF Home
      <4>5. Home(x.key, nbuckets) + buckets[i].dib - 1 = Home(x.key, nbuckets) + d
        BY <4>2, <4>4
      <4>. QED
        BY <4>3, <4>5
    <3>4. \A i \in 0..(nbuckets - 1) :
             buckets[i].dib > 1 =>
                buckets[(i + nbuckets - 1) % nbuckets].dib >= buckets[i].dib - 1
      BY <3>1 DEF IsTable, Chained, Before
    <3>. QED
      BY <3>2, <3>3, <3>4 DEF RobinHood
  <2>2. CASE ~live
    <3>1. DOMAIN buckets = {}
      BY <2>2 DEF MapInv, Zeroed
    <3>. QED
      BY <3>1 DEF RobinHood
  <2>. QED
    BY <2>1, <2>2
<1>. QED
  BY <1>1, MapInvHolds, PTL

\* The count is right and never passes the load at which the map doubles, so
\* that a vacant bucket ends every probe.
THEOREM AlwaysLoad == Spec => []Load
<1>1. MapInv => Load
  <2> SUFFICES ASSUME MapInv, live
               PROVE  /\ count = Cardinality({i \in DOMAIN buckets : buckets[i].dib # 0})
                      /\ count <= GrowAt(nbuckets) /\ count < nbuckets
    BY DEF Load
  <2>1. /\ count = Cardinality(Full(buckets, nbuckets)) /\ buckets \in Tables(nbuckets)
        /\ count <= GrowAt(nbuckets) /\ count < nbuckets
    BY Known
  <2>2. Full(buckets, nbuckets) = {i \in DOMAIN buckets : buckets[i].dib # 0}
    BY <2>1 DEF Full, Tables
  <2>. QED
    BY <2>1, <2>2
<1>. QED
  BY <1>1, MapInvHolds, PTL

\* No more buckets are used than allocated, and no fewer than asked for.
THEOREM AlwaysWithinAllocation == Spec => []WithinAllocation
<1>1. MapInv => WithinAllocation
  BY DEF MapInv, Sized, WithinAllocation
<1>. QED
  BY <1>1, MapInvHolds, PTL

\* For any keys, hash functions and failing allocations, the items fit into the
\* table with a bucket to spare, and the table into its memory.
THEOREM AlwaysSized == Spec => []WellSized
<1>1. Load /\ WithinAllocation => WellSized
  BY DEF WellSized
<1>. QED
  BY <1>1, AlwaysLoad, AlwaysWithinAllocation, PTL
-----------------------------------------------------------------------------
(* The table as a map: hashmap.h's promises. *)

\* What buckets P of t hold.
HeldIn(t, P) == UNION {t[i].held : i \in P}

\* A full bucket holds one item, and no two hold the same.
LEMMA HeldCount ==
    ASSUME NEW h \in Hashes, NEW n \in Nat \ {0}, NEW t, IsTable(h, t, n),
           NEW P \in SUBSET Full(t, n)
    PROVE  /\ Cardinality(HeldIn(t, P)) = Cardinality(P)
           /\ IsFiniteSet(P) /\ IsFiniteSet(HeldIn(t, P))
<1> DEFINE f == [i \in P |-> CHOOSE x \in t[i].held : TRUE]
<1>1. \A i \in P : i \in 0..(n - 1) /\ t[i].dib # 0
  BY DEF Full
<1>2. ASSUME NEW i \in P PROVE t[i].held = {f[i]}
  <2>1. PICK x : t[i].held = {x}
    BY <1>1 DEF IsTable, WellFilled
  <2>. QED
    BY <2>1
<1>3. \A i, j \in P : f[i] = f[j] => i = j
  <2> SUFFICES ASSUME NEW i \in P, NEW j \in P, f[i] = f[j] PROVE i = j
    OBVIOUS
  <2> HIDE DEF f
  <2>1. f[i] \in t[i].held /\ f[i] \in t[j].held
    BY <1>2
  <2>. QED
    BY <1>1, <2>1 DEF IsTable, Distinct
<1>4. f \in [P -> HeldIn(t, P)] /\ \A x \in HeldIn(t, P) : \E i \in P : f[i] = x
  <2>1. f = [i \in P |-> f[i]]
    OBVIOUS
  <2> HIDE DEF f
  <2>. QED
    BY <1>2, <2>1 DEF HeldIn
<1>5. ExistsBijection(P, HeldIn(t, P))
  <2> HIDE DEF f
  <2>. QED
    BY <1>3, <1>4 DEF ExistsBijection, Bijection, Injection, Surjection, IsInjective
<1>6. IsFiniteSet(P)
  BY RoomLeft, FS_Subset
<1>. QED
  BY <1>5, <1>6, FS_Bijection

\* The members of F with fewer than k smaller ones, as hashmap_scan counts.
FirstOf(F, k) == {j \in F : Cardinality({i \in F : i < j}) < k}

LEMMA FirstOfCount ==
    ASSUME NEW F \in SUBSET Nat, IsFiniteSet(F), NEW n \in Nat
    PROVE  \/ Cardinality(FirstOf(F, n)) = n
           \/ FirstOf(F, n) = F /\ Cardinality(F) < n
<1> DEFINE Below(j) == {i \in F : i < j}
           I == {k \in Nat : \/ Cardinality(FirstOf(F, k)) = k
                             \/ FirstOf(F, k) = F /\ Cardinality(F) < k}
<1>1. ASSUME NEW S \in SUBSET F
      PROVE  IsFiniteSet(S) /\ Cardinality(S) \in Nat /\ Cardinality(S) <= Cardinality(F)
  BY FS_Subset, FS_CardinalityType
<1>2. \A j : Below(j) \in SUBSET F
  OBVIOUS
<1>3. ASSUME NEW k \in Nat PROVE FirstOf(F, k) = {j \in F : Cardinality(Below(j)) < k}
  BY DEF FirstOf
<1>4. ASSUME NEW j, NEW k \in Nat
      PROVE  Cardinality(Below(j)) \in Nat
  BY <1>1, <1>2
<1>5. 0 \in I
  <2>1. FirstOf(F, 0) = {}
    <3> HIDE DEF Below
    <3>. QED
      BY <1>3, <1>4
  <2>. QED
    BY <2>1, FS_EmptySet
<1>6. ASSUME NEW k \in Nat, k \in I PROVE k + 1 \in I
  <2>1. FirstOf(F, k) \subseteq FirstOf(F, k + 1) /\ FirstOf(F, k + 1) \subseteq F
    <3> HIDE DEF Below
    <3>. QED
      BY <1>3, <1>4
  <2>2. CASE FirstOf(F, k) = F
    <3>1. FirstOf(F, k + 1) = F
      BY <2>1, <2>2
    <3>2. Cardinality(F) <= k /\ Cardinality(F) \in Nat
      BY <1>1, <1>6, <2>2
    <3>. QED
      BY <3>1, <3>2
  <2>3. CASE FirstOf(F, k) # F
    <3>. PICK G : G = FirstOf(F, k)
      OBVIOUS
    <3>1. G \subseteq F /\ Cardinality(G) = k
      BY <1>6, <2>1, <2>3
    <3>2. PICK j \in F \ G : \A i \in F \ G : j <= i
      <4>1. F \ G # {} /\ F \ G \in SUBSET Nat
        BY <2>1, <2>3
      <4>. QED
        BY <4>1, MinOfPositions
    <3>3. Below(j) = G
      <4>1. ASSUME NEW i \in Below(j) PROVE i \in G
        BY <3>2
      <4>2. ASSUME NEW i \in G PROVE i \in Below(j)
        <5>1. i # j /\ i \in F
          BY <3>1, <3>2
        <5>2. ASSUME j < i PROVE FALSE
          <6>1. Below(j) \subseteq Below(i)
            <7>1. ASSUME NEW e \in F, e < j PROVE e < i
              <8>1. e \in Nat /\ j \in Nat /\ i \in Nat
                BY <5>1
              <8>. QED
                BY <5>2, <7>1, <8>1
            <7>. QED
              BY <7>1
          <6>2. Cardinality(Below(j)) <= Cardinality(Below(i))
            <7> HIDE DEF Below
            <7>. QED
              BY <1>1, <1>2, <6>1, FS_Subset
          <6>3. Cardinality(Below(i)) < k
            BY <1>3
          <6>4. Cardinality(Below(j)) < k
            <7> HIDE DEF Below
            <7>. QED
              BY <1>4, <6>2, <6>3
          <6>5. j \in G
            <7> HIDE DEF Below
            <7>. QED
              BY <1>3, <3>2, <6>4
          <6>. QED
            BY <3>2, <6>5
        <5>. QED
          BY <5>1, <5>2
      <4>. QED
        BY <4>1, <4>2
    <3>4. FirstOf(F, k + 1) = G \cup {j}
      <4>1. j \in FirstOf(F, k + 1)
        <5> HIDE DEF Below
        <5>. QED
          BY <1>3, <3>1, <3>2, <3>3
      <4>2. ASSUME NEW i \in FirstOf(F, k + 1), i \notin G, i # j PROVE FALSE
        <5>1. i \in F /\ Cardinality(Below(i)) < k + 1 /\ j < i
          <6>1. i \in F /\ Cardinality(Below(i)) < k + 1
            BY <1>3
          <6>2. j <= i
            BY <3>2, <4>2, <6>1
          <6>. QED
            BY <4>2, <6>1, <6>2
        <5>2. G \cup {j} \subseteq Below(i)
          <6>1. ASSUME NEW e \in F, e < j PROVE e < i
            <7>1. e \in Nat /\ j \in Nat /\ i \in Nat
              BY <5>1
            <7>. QED
              BY <5>1, <6>1, <7>1
          <6>2. \A e \in G : e \in F /\ e < j
            BY <3>3
          <6>. QED
            BY <3>2, <5>1, <6>1, <6>2
        <5>3. Cardinality(G \cup {j}) = k + 1
          BY <1>1, <3>1, <3>2, FS_AddElement
        <5>4. Cardinality(G \cup {j}) <= Cardinality(Below(i))
          <6> HIDE DEF Below
          <6>. QED
            BY <1>1, <1>2, <5>2, FS_Subset
        <5>5. Cardinality(Below(i)) \in Nat
          BY <1>4
        <5> HIDE DEF Below
        <5>. QED
          BY <5>1, <5>3, <5>4, <5>5
      <4>. QED
        BY <2>1, <4>1, <4>2
    <3>5. Cardinality(FirstOf(F, k + 1)) = k + 1
      <4>1. IsFiniteSet(G)
        BY <1>1, <3>1
      <4>2. Cardinality(G \cup {j}) = Cardinality(G) + 1
        BY <3>2, <4>1, FS_AddElement
      <4>. QED
        BY <3>1, <3>4, <4>2
    <3>. QED
      BY <3>5
  <2>. QED
    BY <2>2, <2>3
<1> HIDE DEF I
<1>7. \A k \in 0..n : k \in I
  BY <1>5, <1>6, Counting
<1>. QED
  BY <1>7 DEF I
\* What the iteration under way has yielded.
Seen == UNION {buckets[i].held : i \in 0..(cursor - 1)}

LEMMA HeldIsContents ==
    ASSUME NEW h \in Hashes, NEW n \in Nat \ {0}, NEW t, IsTable(h, t, n)
    PROVE  /\ UNION {t[i].held : i \in DOMAIN t} = Contents(t, n)
           /\ HeldIn(t, Full(t, n)) = Contents(t, n)
<1>1. DOMAIN t = 0..(n - 1)
  BY DEF IsTable, Tables
<1>2. \A i \in 0..(n - 1) : t[i].held \subseteq Items
  BY TableTypes
<1>3. \A i \in 0..(n - 1) : i \notin Full(t, n) => t[i].held = {}
  BY DEF Full, IsTable, WellFilled
<1>4. Full(t, n) \subseteq 0..(n - 1)
  BY DEF Full
<1>5. UNION {t[i].held : i \in DOMAIN t} = Contents(t, n)
  BY <1>1, <1>2 DEF Contents
<1>6. HeldIn(t, Full(t, n)) = Contents(t, n)
  BY <1>2, <1>3, <1>4 DEF HeldIn, Contents
<1>. QED
  BY <1>5, <1>6

LEMMA NextStored ==
    ASSUME hash \in Hashes, Sized', Filled(buckets', nbuckets', count')
    PROVE  Stored' = Contents(buckets', nbuckets')
<1>1. PICK j \in Nat : nbuckets' = Doubled[j]
  BY DEF Sized
<1>2. PICK n \in Nat \ {0} : n = nbuckets'
  BY <1>1, Loads
<1>3. IsTable(hash, buckets', n)
  BY <1>2 DEF Filled
<1>4. UNION {buckets'[i].held : i \in DOMAIN buckets'} = Contents(buckets', n)
  BY <1>3, HeldIsContents
<1>. QED
  BY <1>2, <1>4 DEF Stored

LEMMA SeenNext == cursor' = 0 => Seen' = {}
BY DEF Seen

\* hashmap_set inserts or replaces.
LEMMA SetMaps ==
    ASSUME MapInv, NEW x \in Items, Set(x)
    PROVE  Map!Set(x)
<1>1. /\ live /\ UNCHANGED live /\ oom' = FALSE /\ cursor' = 0
      /\ Sized' /\ Filled(buckets', nbuckets', count')
      /\ answer' = WithKey(Stored, x.key)
      /\ Contents(buckets', nbuckets') = (Stored \ answer') \cup {x}
  BY SetEffect
<1>2. Stored' = (Stored \ answer') \cup {x}
  BY <1>1, NextStored DEF MapInv
<1>3. Seen' = {}
  BY <1>1, SeenNext
<1>. QED
  BY <1>1, <1>2, <1>3 DEF Map!Set, Map!At, WithKey, Seen

\* hashmap_delete removes what is stored under the key.
LEMMA DeleteMaps ==
    ASSUME MapInv, NEW k \in Keys, Delete(k)
    PROVE  Map!Delete(k)
<1>1. /\ live /\ UNCHANGED live /\ oom' = FALSE /\ cursor' = 0
      /\ Sized' /\ Filled(buckets', nbuckets', count')
      /\ answer' = WithKey(Stored, k)
      /\ Contents(buckets', nbuckets') = Stored \ answer'
  BY DeleteEffect
<1>2. Stored' = Stored \ answer'
  BY <1>1, NextStored DEF MapInv
<1>3. Seen' = {}
  BY <1>1, SeenNext
<1>. QED
  BY <1>1, <1>2, <1>3 DEF Map!Delete, Map!At, WithKey, Seen

LEMMA ClearMaps ==
    ASSUME MapInv, NEW update_cap \in BOOLEAN, Clear(update_cap)
    PROVE  Map!Clear
<1>1. /\ live /\ UNCHANGED <<live, oom>> /\ cursor' = 0
      /\ Sized' /\ Filled(buckets', nbuckets', count')
      /\ answer' = Stored /\ Contents(buckets', nbuckets') = {}
  BY ClearEffect
<1>2. Stored' = {}
  BY <1>1, NextStored DEF MapInv
<1>3. Seen' = {}
  BY <1>1, SeenNext
<1>. QED
  BY <1>1, <1>2, <1>3 DEF Map!Clear, Map!Empty, Seen

LEMMA FreeMaps ==
    ASSUME Free
    PROVE  Map!Free
<1>1. buckets' = Zeroed(0) /\ answer' = Stored /\ cursor' = 0 /\ live' = FALSE /\ UNCHANGED oom
  BY DEF Free
<1>2. Stored' = {}
  BY <1>1 DEF Stored, Zeroed
<1>3. Seen' = {}
  BY <1>1, SeenNext
<1>. QED
  BY <1>1, <1>2, <1>3 DEF Map!Free, Map!Empty, Seen

LEMMA MapCardinality == \A S : Map!Cardinality(S) = Cardinality(S)
BY DEF Map!Cardinality, Cardinality

\* hashmap_set gives up only if there are as many items as make it double.
LEMMA SetFailsMaps ==
    ASSUME MapInv, NEW x \in Items, SetFails(x)
    PROVE  Map!SetFails(x)
<1>1. /\ live /\ count = GrowAt(nbuckets) /\ answer' = {} /\ oom' = TRUE
      /\ UNCHANGED <<buckets, cursor, live>>
  BY DEF SetFails
<1>2. /\ hash \in Hashes /\ nbuckets \in Nat \ {0} /\ IsTable(hash, buckets, nbuckets)
      /\ count = Cardinality(Full(buckets, nbuckets)) /\ GrowAt(MinCap) <= GrowAt(nbuckets)
  BY <1>1, Known
<1>3. HeldIn(buckets, Full(buckets, nbuckets)) = Stored
  BY <1>2, HeldIsContents, StoredIs
<1>4. Cardinality(Stored) = count
  <2>1. Cardinality(HeldIn(buckets, Full(buckets, nbuckets))) = Cardinality(Full(buckets, nbuckets))
    BY <1>2, HeldCount
  <2>. QED
    BY <1>2, <1>3, <2>1
<1>5. Cardinality(Stored) >= GrowAt(MinCap)
  BY <1>1, <1>2, <1>4
<1>6. UNCHANGED <<Stored, Seen, live>>
  BY <1>1 DEF Stored, Seen
<1>. QED
  BY <1>1, <1>5, <1>6, MapCardinality DEF Map!SetFails, Seen

LEMMA GetMaps ==
    ASSUME MapInv, NEW k \in Keys, Get(k)
    PROVE  Map!Get(k)
<1>1. live /\ answer' = buckets[ProbeEnd(k)].held /\ UNCHANGED <<buckets, oom, cursor, live>>
  BY DEF Get
<1>2. answer' = WithKey(Stored, k)
  BY <1>1, ProbeAnswers
<1>3. UNCHANGED <<Stored, oom, Seen, live>>
  BY <1>1 DEF Stored, Seen
<1>. QED
  BY <1>2, <1>3 DEF Map!Get, Map!At, WithKey, Seen

\* hashmap_iter yields every item once.
LEMMA IterMaps ==
    ASSUME MapInv, Iter
    PROVE  Map!Iter
<1>1. live /\ UNCHANGED <<nbuckets, buckets, oom, live>>
  BY DEF Iter
<1>2. /\ hash \in Hashes /\ nbuckets \in Nat \ {0} /\ IsTable(hash, buckets, nbuckets)
      /\ Stored = Contents(buckets, nbuckets) /\ cursor \in Nat /\ cursor <= nbuckets
  BY <1>1, Known, StoredIs DEF MapInv
<1>3. UNCHANGED <<Stored, oom, live>>
  BY <1>1 DEF Stored
<1>4. \A i \in cursor..(nbuckets - 1) : i \notin Rest => buckets[i].held = {}
  BY <1>2 DEF Rest, IsTable, WellFilled
<1>5. \A i \in 0..(nbuckets - 1) : buckets[i].held \subseteq Items
  BY <1>2, TableTypes
<1>6. CASE Rest = {}
  <2>1. answer' = {} /\ cursor' = nbuckets
    BY <1>6, IterMoves
  <2>2. Stored \subseteq Seen
    <3> SUFFICES ASSUME NEW x \in Stored PROVE x \in Seen
      OBVIOUS
    <3>1. PICK i \in 0..(nbuckets - 1) : x \in buckets[i].held
      BY <1>2 DEF Contents
    <3>2. i \notin cursor..(nbuckets - 1)
      BY <1>4, <1>6, <3>1
    <3>3. i \in 0..(cursor - 1)
      BY <1>2, <3>2
    <3>. QED
      BY <3>1, <3>3 DEF Seen
  <2>3. Seen \subseteq Stored
    <3>1. \A i \in 0..(cursor - 1) : i \in 0..(nbuckets - 1)
      BY <1>2
    <3>. QED
      BY <1>2, <1>5, <3>1 DEF Seen, Contents
  <2>4. Seen' = Stored
    <3>1. Seen' = UNION {buckets[i].held : i \in 0..(nbuckets - 1)}
      BY <1>1, <2>1 DEF Seen
    <3>. QED
      BY <1>2, <1>5, <3>1 DEF Contents
  <2>. QED
    BY <1>3, <2>1, <2>2, <2>3, <2>4 DEF Map!Iter, Seen
<1>7. CASE Rest # {}
  <2>1. PICK m \in Rest : /\ \A i \in Rest : m <= i
                          /\ answer' = buckets[m].held /\ cursor' = m + 1
    BY <1>7, IterMoves
  <2>2. m \in 0..(nbuckets - 1) /\ cursor <= m /\ buckets[m].dib # 0
    BY <1>2 DEF Rest
  <2>3. PICK x \in Items : buckets[m].held = {x}
    BY <1>2, <2>2 DEF IsTable, WellFilled
  <2>4. x \in Stored
    BY <1>2, <2>2, <2>3 DEF Contents
  <2>5. x \notin Seen
    <3>1. ASSUME NEW i \in 0..(cursor - 1), x \in buckets[i].held PROVE FALSE
      <4>1. i \in 0..(nbuckets - 1) /\ i # m
        BY <1>2, <2>2
      <4>. QED
        BY <1>2, <2>2, <2>3, <3>1, <4>1 DEF IsTable, Distinct
    <3>. QED
      BY <3>1 DEF Seen
  <2>6. Seen' = Seen \cup {x}
    <3>1. Seen' = UNION {buckets[i].held : i \in 0..((m + 1) - 1)}
      BY <1>1, <2>1 DEF Seen
    <3>2. \A i \in 0..((m + 1) - 1) : i \in 0..(cursor - 1) \/ i = m \/ i \in cursor..(m - 1)
      BY <1>2, <2>2
    <3>3. ASSUME NEW i \in cursor..(m - 1) PROVE buckets[i].held = {}
      <4>1. i \in cursor..(nbuckets - 1) /\ ~(m <= i)
        BY <1>2, <2>2
      <4>. QED
        BY <1>4, <2>1, <4>1
    <3>4. ASSUME NEW y \in Seen' PROVE y \in Seen \/ y = x
      <4>1. PICK i \in 0..((m + 1) - 1) : y \in buckets[i].held
        BY <3>1
      <4>2. i \in 0..(cursor - 1) => y \in Seen
        BY <4>1 DEF Seen
      <4>3. i = m => y = x
        BY <2>3, <4>1
      <4>4. i \notin cursor..(m - 1)
        BY <3>3, <4>1
      <4>. QED
        BY <3>2, <4>1, <4>2, <4>3, <4>4
    <3>5. ASSUME NEW y \in Seen PROVE y \in Seen'
      <4>1. PICK i \in 0..(cursor - 1) : y \in buckets[i].held
        BY DEF Seen
      <4>2. i \in 0..((m + 1) - 1)
        BY <1>2, <2>2
      <4>. QED
        BY <3>1, <4>1, <4>2
    <3>6. x \in Seen'
      <4>1. m \in 0..((m + 1) - 1)
        BY <1>2, <2>2
      <4>. QED
        BY <2>3, <3>1, <4>1
    <3>. QED
      BY <3>4, <3>5, <3>6
  <2>7. answer' = {x}
    BY <2>1, <2>3
  <2>. QED
    BY <1>3, <2>4, <2>5, <2>6, <2>7 DEF Map!Iter, Seen
<1>. QED
  BY <1>6, <1>7

\* hashmap_scan passes n items, or all of them.
LEMMA ScanMaps ==
    ASSUME MapInv, NEW n \in 1..Cardinality(Keys), n \in Nat, Scan(n)
    PROVE  Map!Scan(n)
<1>1. live /\ UNCHANGED <<buckets, oom, cursor, live>>
  BY DEF Scan
<1>2. PICK F : F = Full(buckets, nbuckets)
  OBVIOUS
<1>3. /\ hash \in Hashes /\ nbuckets \in Nat \ {0} /\ IsTable(hash, buckets, nbuckets)
      /\ IsFiniteSet(F) /\ F \in SUBSET Nat /\ buckets \in Tables(nbuckets)
  <2>1. Full(buckets, nbuckets) \in SUBSET Nat
    BY DEF Full
  <2>. QED
    BY <1>1, <1>2, <2>1, Known
<1>4. answer' = HeldIn(buckets, FirstOf(F, n))
  <2>1. F = {i \in DOMAIN buckets : buckets[i].dib # 0}
    BY <1>2, <1>3 DEF Full, Tables
  <2>. QED
    BY <2>1 DEF Scan, HeldIn, FirstOf
<1>5. FirstOf(F, n) \in SUBSET F
  BY DEF FirstOf
<1>6. /\ Cardinality(HeldIn(buckets, FirstOf(F, n))) = Cardinality(FirstOf(F, n))
      /\ Cardinality(HeldIn(buckets, F)) = Cardinality(F)
  BY <1>2, <1>3, <1>5, HeldCount
<1>7. HeldIn(buckets, F) = Stored
  BY <1>2, <1>3, HeldIsContents, StoredIs
<1>8. answer' \in SUBSET Stored
  BY <1>4, <1>5, <1>7 DEF HeldIn
<1>9. \/ Cardinality(FirstOf(F, n)) = n
      \/ FirstOf(F, n) = F /\ Cardinality(F) < n
  BY <1>3, FirstOfCount
<1>10. Cardinality(answer') = n \/ (answer' = Stored /\ Cardinality(Stored) < n)
  BY <1>4, <1>6, <1>7, <1>9
<1>11. UNCHANGED <<Stored, oom, Seen, live>>
  BY <1>1 DEF Stored, Seen
<1>. QED
  BY <1>8, <1>10, <1>11, MapCardinality DEF Map!Scan, Seen

LEMMA ProbeMaps ==
    ASSUME MapInv, NEW position \in 0..nbuckets, Probe(position)
    PROVE  Map!Probe
<1>1. live /\ UNCHANGED <<buckets, oom, cursor, live>>
      /\ answer' = buckets[position % nbuckets].held
  BY DEF Probe
<1>2. /\ hash \in Hashes /\ nbuckets \in Nat \ {0} /\ IsTable(hash, buckets, nbuckets)
      /\ Stored = Contents(buckets, nbuckets)
  BY <1>1, Known, StoredIs
<1>3. PICK i \in 0..(nbuckets - 1) : i = position % nbuckets
  <2>1. position % nbuckets \in 0..(nbuckets - 1)
    BY <1>2
  <2>. QED
    BY <2>1
<1>4. buckets[i].held = {} \/ \E x \in Stored : buckets[i].held = {x}
  BY <1>2 DEF IsTable, WellFilled, Contents
<1>5. UNCHANGED <<Stored, oom, Seen, live>>
  BY <1>1 DEF Stored, Seen
<1>. QED
  BY <1>1, <1>3, <1>4, <1>5 DEF Map!Probe, Seen

\* The buckets implement the map of hashmap.h: every call changes and answers
\* what KeyedMap says, however they are hashed, resized and moved.
THEOREM ImplementsMap == Spec => MapSpec
<1>1. Init => Map!Init
  <2> SUFFICES ASSUME Init PROVE Map!Init
    OBVIOUS
  <2>1. MapInv /\ buckets = Zeroed(nbuckets) /\ nbuckets = cap /\ hash \in Hashes
    BY MapInit DEF Init
  <2>2. Contents(buckets, nbuckets) = {}
    <3>1. nbuckets \in Nat
      BY <2>1 DEF MapInv
    <3>. QED
      BY <2>1, <3>1, ZeroedIsTable
  <2>3. Stored = {}
    BY <2>1, <2>2, StoredIs
  <2>4. Seen = {}
    BY DEF Seen, Init
  <2>. QED
    BY <2>3, <2>4 DEF Map!Init, Init, Seen
<1>2. MapInv /\ [Next]_vars => [Map!Next]_(Map!vars)
  <2> SUFFICES ASSUME MapInv, [Next]_vars PROVE [Map!Next]_(Map!vars)
    OBVIOUS
  <2>0. Map!Items = Items
    BY DEF Map!Items, Items
  <2>1. ASSUME NEW x \in Items, Set(x) PROVE Map!Next
    <3>1. live
      BY <2>1 DEF Set
    <3>. QED
      BY <2>0, <2>1, <3>1, SetMaps DEF Map!Next
  <2>2. ASSUME NEW x \in Items, SetFails(x) PROVE Map!Next
    <3>1. live
      BY <2>2 DEF SetFails
    <3>. QED
      BY <2>0, <2>2, <3>1, SetFailsMaps DEF Map!Next
  <2>3. ASSUME NEW k \in Keys, Get(k) PROVE Map!Next
    <3>1. live
      BY <2>3 DEF Get
    <3>. QED
      BY <2>3, <3>1, GetMaps DEF Map!Next
  <2>4. ASSUME NEW k \in Keys, Delete(k) PROVE Map!Next
    <3>1. live
      BY <2>4 DEF Delete
    <3>. QED
      BY <2>4, <3>1, DeleteMaps DEF Map!Next
  <2>5. CASE Iter
    <3>1. live
      BY <2>5 DEF Iter
    <3>. QED
      BY <2>5, <3>1, IterMaps DEF Map!Next
  <2>6. ASSUME NEW n \in 1..Cardinality(Keys), Scan(n) PROVE Map!Next
    <3>1. live /\ n \in Nat
      BY <2>6 DEF Scan
    <3>. QED
      BY <2>6, <3>1, ScanMaps, MapCardinality DEF Map!Next
  <2>7. ASSUME NEW position \in 0..nbuckets, Probe(position) PROVE Map!Next
    <3>1. live
      BY <2>7 DEF Probe
    <3>. QED
      BY <2>7, <3>1, ProbeMaps DEF Map!Next
  <2>8. ASSUME NEW update_cap \in BOOLEAN, Clear(update_cap) PROVE Map!Next
    <3>1. live
      BY <2>8 DEF Clear
    <3>. QED
      BY <2>8, <3>1, ClearMaps DEF Map!Next
  <2>9. CASE Free
    <3>1. live
      BY <2>9 DEF Free
    <3>. QED
      BY <2>9, <3>1, FreeMaps DEF Map!Next
  <2>10. CASE UNCHANGED vars
    BY <2>10 DEF vars, Map!vars, Stored
  <2>. QED
    BY <2>1, <2>2, <2>3, <2>4, <2>5, <2>6, <2>7, <2>8, <2>9, <2>10 DEF Next
<1>. QED
  BY <1>1, <1>2, MapInvHolds, PTL DEF Spec, MapSpec, Map!Spec
=============================================================================
