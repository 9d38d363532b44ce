----------------------------- MODULE Positions -----------------------------
(***************************************************************************)
(* What several proofs need to know of positions: the least one of a set,  *)
(* positions on a ring, and the results of doing a step again and again.   *)
(***************************************************************************)
EXTENDS Integers, FiniteSetsExt, WellFoundedInduction, TLAPS

\* A set of positions has a smallest one, and Min is it.
LEMMA MinOfPositions ==
    ASSUME NEW I \in SUBSET Nat, I # {}
    PROVE  Min(I) \in I /\ \A j \in I : Min(I) <= j
<1> DEFINE R == {ss \in Nat \X Nat : ss[1] < ss[2]}
<1>1. IsWellFoundedOn(R, Nat)
  BY NatLessThanWellFounded DEF OpToRel
<1> HIDE DEF R
<1>2. PICK x \in I : \A y \in I : <<y, x>> \notin R
  BY <1>1, WFMin
<1>3. ASSUME NEW y \in I PROVE x <= y
  <2>1. x \in Nat /\ y \in Nat
    OBVIOUS
  <2>2. <<y, x>> \notin R
    BY <1>2
  <2>. QED
    BY <2>1, <2>2 DEF R
<1>. QED
  BY <1>3 DEF Min

\* A set that holds 0 and, with every number below n, the next one, holds all
\* numbers up to n.
LEMMA Counting ==
    ASSUME NEW n \in Nat, NEW I, 0 \in I, \A k \in 0..(n - 1) : k \in I => k + 1 \in I
    PROVE  \A k \in 0..n : k \in I
<1> DEFINE missing == (0..n) \ I
<1> SUFFICES ASSUME missing # {} PROVE FALSE
  OBVIOUS
<1>1. missing \in SUBSET Nat
  OBVIOUS
<1>2. PICK m \in missing : \A j \in missing : m <= j
  BY <1>1, MinOfPositions
<1>3. m # 0 /\ m - 1 \in 0..(n - 1) /\ m \in 0..n /\ m \notin I
  BY <1>2
<1>4. m - 1 \in I
  BY <1>2, <1>3
<1>. QED
  BY <1>3, <1>4

-----------------------------------------------------------------------------
(* Doing a step again and again: the functions defined by recursion on a     *)
(* number are the results.                                                   *)

\* The first m results of the steps F from s on.
Results(S, s, F, m) ==
    {g \in [0..m -> S] : g[0] = s /\ \A k \in 0..(m - 1) : g[k + 1] = F[k][g[k]]}

LEMMA ResultsExist ==
    ASSUME NEW S, NEW s \in S, NEW F \in [Nat -> [S -> S]], NEW m \in Nat
    PROVE  Results(S, s, F, m) # {}
<1> DEFINE I == {k \in Nat : Results(S, s, F, k) # {}}
<1>1. 0 \in I
  <2>1. [k \in 0..0 |-> s] \in Results(S, s, F, 0)
    BY DEF Results
  <2>. QED
    BY <2>1
<1>2. ASSUME NEW k \in Nat, k \in I PROVE k + 1 \in I
  <2>1. PICK g \in Results(S, s, F, k) : TRUE
    BY <1>2
  <2> DEFINE h == [j \in 0..(k + 1) |-> IF j = k + 1 THEN F[k][g[k]] ELSE g[j]]
  <2>2. /\ g \in [0..k -> S] /\ g[0] = s
        /\ \A j \in 0..(k - 1) : g[j + 1] = F[j][g[j]]
    BY <2>1 DEF Results
  <2>3. F[k][g[k]] \in S
    BY <2>2
  <2>4. h \in [0..(k + 1) -> S] /\ h[0] = s
    BY <2>2, <2>3
  <2>5. ASSUME NEW j \in 0..k PROVE h[j + 1] = F[j][h[j]]
    <3>1. h[j] = g[j]
      OBVIOUS
    <3>2. CASE j = k
      BY <3>1, <3>2
    <3>3. CASE j \in 0..(k - 1)
      BY <2>2, <3>1, <3>3
    <3>. QED
      BY <3>2, <3>3
  <2>6. h \in Results(S, s, F, k + 1)
    <3> HIDE DEF h
    <3>. QED
      BY <2>4, <2>5 DEF Results
  <2>. QED
    BY <2>6
<1> HIDE DEF I
<1>3. \A k \in 0..m : k \in I
  BY <1>1, <1>2, Counting
<1>. QED
  BY <1>3 DEF I

LEMMA ResultsAgree ==
    ASSUME NEW S, NEW s \in S, NEW F \in [Nat -> [S -> S]], NEW m \in Nat, NEW n \in Nat,
           m <= n, NEW g \in Results(S, s, F, m), NEW h \in Results(S, s, F, n)
    PROVE  g[m] = h[m]
<1> DEFINE I == {k \in 0..m : g[k] = h[k]}
<1>1. 0 \in I
  BY DEF Results
<1>2. ASSUME NEW k \in 0..(m - 1), k \in I PROVE k + 1 \in I
  <2>1. g[k + 1] = F[k][g[k]] /\ h[k + 1] = F[k][h[k]]
    BY DEF Results
  <2>. QED
    BY <1>2, <2>1
<1> HIDE DEF I
<1>3. \A k \in 0..m : k \in I
  BY <1>1, <1>2, Counting
<1>. QED
  BY <1>3 DEF I

IsIteration(g, s, F) == g[0] = s /\ \A k \in Nat : g[k + 1] = F[k][g[k]]

LEMMA Iteration ==
    ASSUME NEW S, NEW s \in S, NEW F \in [Nat -> [S -> S]]
    PROVE  \E g \in [Nat -> S] : IsIteration(g, s, F)
<1> DEFINE first(m) == CHOOSE g \in Results(S, s, F, m) : TRUE
           g == [m \in Nat |-> first(m)[m]]
<1>1. ASSUME NEW m \in Nat PROVE first(m) \in Results(S, s, F, m)
  BY ResultsExist
<1> HIDE DEF first
<1>2. ASSUME NEW m \in Nat PROVE g[m] \in S
  <2>1. first(m) \in [0..m -> S]
    BY <1>1 DEF Results
  <2>. QED
    BY <2>1
<1>3. g[0] = s
  <2>1. first(0)[0] = s
    BY <1>1 DEF Results
  <2>. QED
    BY <2>1
<1>4. ASSUME NEW k \in Nat PROVE g[k + 1] = F[k][g[k]]
  <2>1. first(k + 1)[k + 1] = F[k][first(k + 1)[k]]
    BY <1>1 DEF Results
  <2>2. first(k)[k] = first(k + 1)[k]
    BY <1>1, ResultsAgree
  <2>. QED
    BY <2>1, <2>2
<1>5. g \in [Nat -> S]
  BY <1>2
<1> HIDE DEF g
<1>. QED
  BY <1>3, <1>4, <1>5 DEF IsIteration

-----------------------------------------------------------------------------
(* A ring of n positions, 0 .. n-1. *)

Before(i, n) == (i + n - 1) % n
After(i, n) == (i + 1) % n

\* The remainder is the only one.
LEMMA RingUnique ==
    ASSUME NEW n \in Nat \ {0}, NEW q \in Nat, NEW r \in 0..(n - 1)
    PROVE  (q * n + r) % n = r
OBVIOUS

\* Wrapping around may be put off.
LEMMA RingStep ==
    ASSUME NEW n \in Nat \ {0}, NEW a \in Nat
    PROVE  /\ a % n \in 0..(n - 1)
           /\ After(a % n, n) = (a + 1) % n
           /\ Before((a + 1) % n, n) = a % n
<1>1. /\ a = (a \div n) * n + (a % n) /\ a % n \in 0..(n - 1) /\ a \div n \in Nat
  OBVIOUS
<1> DEFINE q == a \div n  r == a % n
<1>2. a + 1 = q * n + (r + 1)
  BY <1>1
<1>3. CASE r + 1 < n
  <2>1. (a + 1) % n = r + 1
    BY <1>1, <1>2, <1>3
  <2>2. (r + 1) % n = r + 1 /\ ((r + 1) + n - 1) % n = r
    BY <1>1, <1>3
  <2>. QED
    BY <1>1, <2>1, <2>2 DEF After, Before
<1>4. CASE r + 1 = n
  <2>1. a + 1 = (q + 1) * n + 0
    BY <1>1, <1>2, <1>4
  <2>2. (a + 1) % n = 0
    <3>1. q + 1 \in Nat /\ 0 \in 0..(n - 1)
      BY <1>1
    <3> HIDE DEF q, r
    <3>. QED
      BY <2>1, <3>1, RingUnique
  <2>3. (r + 1) % n = 0 /\ (0 + n - 1) % n = r
    BY <1>1, <1>4
  <2>. QED
    BY <1>1, <2>2, <2>3 DEF After, Before
<1>. QED
  BY <1>1, <1>3, <1>4

\* One step back and one forward.
LEMMA RingNeighbours ==
    ASSUME NEW n \in Nat \ {0}, NEW i \in 0..(n - 1)
    PROVE  /\ Before(i, n) = (IF i = 0 THEN n - 1 ELSE i - 1)
           /\ After(i, n) = (IF i = n - 1 THEN 0 ELSE i + 1)
           /\ Before(i, n) \in 0..(n - 1) /\ After(i, n) \in 0..(n - 1)
           /\ After(Before(i, n), n) = i /\ Before(After(i, n), n) = i
<1>1. Before(i, n) = (IF i = 0 THEN n - 1 ELSE i - 1)
  <2>1. CASE i = 0
    BY <2>1 DEF Before
  <2>2. CASE i # 0
    <3>1. i + n - 1 = n + (i - 1) /\ i - 1 \in 0..(n - 1)
      BY <2>2
    <3>. QED
      BY <2>2, <3>1 DEF Before
  <2>. QED
    BY <2>1, <2>2
<1>2. ASSUME NEW j \in 0..(n - 1)
      PROVE  After(j, n) = (IF j = n - 1 THEN 0 ELSE j + 1)
  BY DEF After
<1>3. Before(i, n) \in 0..(n - 1) /\ After(i, n) \in 0..(n - 1)
  BY <1>1, <1>2
<1>4. After(Before(i, n), n) = i
  BY <1>1, <1>2, <1>3
<1>5. Before(After(i, n), n) = i
  <2>1. CASE i = n - 1
    BY <1>2, <2>1 DEF Before
  <2>2. CASE i # n - 1
    <3>1. After(i, n) = i + 1 /\ (i + 1) + n - 1 = n + i
      BY <1>2, <2>2
    <3>. QED
      BY <3>1 DEF Before
  <2>. QED
    BY <2>1, <2>2
<1>. QED
  BY <1>1, <1>2, <1>3, <1>4, <1>5

\* Fewer than n steps from a end at different positions, and every position is
\* the end of some of them.
LEMMA RingDistances ==
    ASSUME NEW n \in Nat \ {0}, NEW a \in Nat
    PROVE  /\ \A d, e \in 0..(n - 1) : (a + d) % n = (a + e) % n => d = e
           /\ \A i \in 0..(n - 1) : \E d \in 0..(n - 1) : (a + d) % n = i
<1>1. /\ a = (a \div n) * n + (a % n) /\ a % n \in 0..(n - 1) /\ a \div n \in Nat
  OBVIOUS
<1> DEFINE q == a \div n  r == a % n
<1>2. ASSUME NEW d \in 0..(n - 1)
      PROVE  (a + d) % n = (IF r + d < n THEN r + d ELSE r + d - n)
  <2>1. a + d = q * n + (r + d) /\ a + d = (q + 1) * n + (r + d - n)
    BY <1>1
  <2>2. CASE r + d < n
    <3>1. r + d \in 0..(n - 1) /\ q \in Nat
      BY <1>1, <2>2
    <3> HIDE DEF q, r
    <3>. QED
      BY <2>1, <2>2, <3>1, RingUnique
  <2>3. CASE ~(r + d < n)
    <3>1. r + d - n \in 0..(n - 1) /\ q + 1 \in Nat
      BY <1>1, <2>3
    <3> HIDE DEF q, r
    <3>. QED
      BY <2>1, <2>3, <3>1, RingUnique
  <2>. QED
    BY <2>2, <2>3
<1>3. ASSUME NEW d \in 0..(n - 1), NEW e \in 0..(n - 1), (a + d) % n = (a + e) % n
      PROVE  d = e
  <2>1. (IF r + d < n THEN r + d ELSE r + d - n) = (IF r + e < n THEN r + e ELSE r + e - n)
    BY <1>2, <1>3
  <2> HIDE DEF r
  <2>. QED
    BY <1>1, <2>1 DEF r
<1>4. ASSUME NEW i \in 0..(n - 1)
      PROVE  \E d \in 0..(n - 1) : (a + d) % n = i
  <2>1. r \in 0..(n - 1)
    BY <1>1
  <2> HIDE DEF r
  <2>2. CASE i >= r
    <3>1. i - r \in 0..(n - 1) /\ r + (i - r) = i /\ r + (i - r) < n
      BY <2>1, <2>2
    <3>2. (a + (i - r)) % n = i
      BY <1>2, <3>1
    <3>. QED
      BY <3>1, <3>2
  <2>3. CASE i < r
    <3>1. i + n - r \in 0..(n - 1) /\ r + (i + n - r) - n = i /\ ~(r + (i + n - r) < n)
      BY <2>1, <2>3
    <3>2. (a + (i + n - r)) % n = i
      BY <1>2, <3>1
    <3>. QED
      BY <3>1, <3>2
  <2>. QED
    BY <2>1, <2>2, <2>3
<1>. QED
  BY <1>3, <1>4
=============================================================================
