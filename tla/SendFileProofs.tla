--------------------------- MODULE SendFileProofs ---------------------------
(***************************************************************************)
(* Proofs about SendFile, for any files, any buffer of two bytes or more   *)
(* and any number of appends: what the fgets/feof loop sends, where a NUL  *)
(* cuts a line, and when the loop sends its last chunk twice.              *)
(***************************************************************************)
EXTENDS SendFile, Positions

-----------------------------------------------------------------------------
(* What one fgets() returns. *)

LEMMA Constants ==
    BUFFER_SIZE \in Nat /\ BUFFER_SIZE >= 2 /\ MaxAppends \in Nat
BY SendFileAssumption

\* The n positions behind p.
Line(p, n) == [j \in 1..n |-> p + j]

LEMMA LineIs ==
    ASSUME NEW p \in Nat, NEW n \in Nat
    PROVE  /\ Line(p, n) \in Seq(Nat) /\ Len(Line(p, n)) = n
           /\ \A j \in 1..n : Line(p, n)[j] = p + j
BY DEF Line

\* It returns n units from p on, none only at the end of the file, and stops
\* short of a full buffer only behind a line feed or at the end of the file.
LEMMA LineFromIs ==
    ASSUME file \in Seq(Units), NEW p \in 0..Len(file)
    PROVE  \E n \in 0..(BUFFER_SIZE - 1) :
              /\ LineFrom(p) = Line(p, n)
              /\ p + n <= Len(file)
              /\ n = 0 => p = Len(file)
              /\ n < BUFFER_SIZE - 1 /\ (n > 0 => file[p + n] # LF) => p + n = Len(file)
<1> DEFINE most == IF Len(file) - p < BUFFER_SIZE - 1 THEN Len(file) - p
                                                     ELSE BUFFER_SIZE - 1
           t == SubSeq(file, p + 1, p + most)
           I == {j \in 1..Len(t) : t[j] = LF}
           lf == IF I # {} THEN Min(I) ELSE 0
           n == IF lf > 0 THEN lf ELSE most
<1>1. LineFrom(p) = Line(p, n)
  BY DEF LineFrom, SelectInSeq, Line
<1>2. /\ Len(file) \in Nat /\ p \in Nat /\ p <= Len(file)
      /\ most \in 0..(BUFFER_SIZE - 1) /\ p + most <= Len(file)
      /\ most < BUFFER_SIZE - 1 => p + most = Len(file)
      /\ most = 0 => p = Len(file)
  BY Constants
<1> HIDE DEF most
<1>3. Len(t) = most /\ \A j \in 1..most : t[j] = file[p + j]
  BY <1>2
<1>4. lf \in 0..most /\ (lf > 0 => file[p + lf] = LF)
  <2>1. CASE I = {}
    BY <1>2, <2>1
  <2>2. CASE I # {}
    <3>1. I \in SUBSET Nat
      BY <1>2, <1>3
    <3>2. Min(I) \in I
      <4> HIDE DEF I
      <4>. QED
        BY <2>2, <3>1, MinOfPositions
    <3>3. lf = Min(I)
      BY <2>2
    <3>4. Min(I) \in 1..most /\ t[Min(I)] = LF
      BY <1>3, <3>2
    <3> HIDE DEF lf, I, t
    <3>. QED
      BY <1>2, <1>3, <3>3, <3>4
  <2>. QED
    BY <2>1, <2>2
<1> HIDE DEF lf
<1>5. /\ n \in 0..(BUFFER_SIZE - 1) /\ p + n <= Len(file)
      /\ n = 0 => p = Len(file)
      /\ n < BUFFER_SIZE - 1 /\ (n > 0 => file[p + n] # LF) => p + n = Len(file)
  <2>1. CASE lf > 0
    BY <1>2, <1>4, <2>1, Constants
  <2>2. CASE lf = 0
    BY <1>2, <1>4, <2>2, Constants
  <2>. QED
    BY <1>2, <1>4, <2>1, <2>2
<1> HIDE DEF n
<1>. QED
  BY <1>1, <1>5

\* The first NUL among the n units behind p, if there is one, comes after m of them.
CutAt(f, p, n, m) ==
    /\ Told(f, Line(p, n)) = Line(p, m)
    /\ \A j \in 1..m : f[p + j] # NUL
    /\ m < n => f[p + (m + 1)] = NUL

\* What is sent of n units behind p: those before the first NUL among them.
LEMMA ToldIs ==
    ASSUME NEW f, NEW p \in Nat, NEW n \in Nat
    PROVE  \E m \in 0..n : CutAt(f, p, n, m)
<1> DEFINE I == {j \in 1..Len(Line(p, n)) : f[Line(p, n)[j]] = NUL}
           nul == IF I # {} THEN Min(I) ELSE 0
<1>1. Told(f, Line(p, n)) = IF nul > 0 THEN SubSeq(Line(p, n), 1, nul - 1) ELSE Line(p, n)
  BY DEF Told, SelectInSeq
<1>2. Line(p, n) \in Seq(Nat) /\ Len(Line(p, n)) = n
      /\ \A j \in 1..n : Line(p, n)[j] = p + j
  BY LineIs
<1>3. I = {j \in 1..n : f[p + j] = NUL}
  BY <1>2
<1>4. CASE I = {}
  <2>1. nul = 0
    BY <1>4
  <2> HIDE DEF nul
  <2>2. Told(f, Line(p, n)) = Line(p, n)
    BY <1>1, <2>1
  <2>3. \A j \in 1..n : f[p + j] # NUL
    BY <1>3, <1>4
  <2>4. n \in 0..n /\ ~(n < n)
    OBVIOUS
  <2>. QED
    BY <2>2, <2>3, <2>4 DEF CutAt
<1>5. CASE I # {}
  <2>1. I \in SUBSET Nat
    BY <1>3
  <2>2. Min(I) \in I /\ \A j \in I : Min(I) <= j
    <3> HIDE DEF I
    <3>. QED
      BY <1>5, <2>1, MinOfPositions
  <2>3. PICK k \in 1..n : nul = k /\ f[p + k] = NUL /\ \A j \in I : k <= j
    BY <1>3, <1>5, <2>2
  <2>4. k - 1 \in 0..n /\ k - 1 < n /\ (k - 1) + 1 = k /\ k > 0
    BY <2>3
  <2>5. \A j \in 1..(k - 1) : f[p + j] # NUL
    <3>1. \A j \in I : k <= j
      BY <2>3
    <3> HIDE DEF nul, I
    <3>2. \A j \in 1..(k - 1) : j \in 1..n /\ ~(k <= j)
      OBVIOUS
    <3>. QED
      BY <1>3, <3>1, <3>2
  <2> HIDE DEF nul
  <2>6. Told(f, Line(p, n)) = SubSeq(Line(p, n), 1, k - 1)
    BY <1>1, <2>3, <2>4
  <2>7. SubSeq(Line(p, n), 1, k - 1) = Line(p, k - 1)
    BY <2>4 DEF Line
  <2>8. PICK m \in 0..n : m = k - 1
    BY <2>4
  <2>. QED
    BY <2>3, <2>4, <2>5, <2>6, <2>7, <2>8 DEF CutAt
<1>. QED
  BY <1>4, <1>5

-----------------------------------------------------------------------------
(* The inductive invariant. *)

Complete == chunk # HEADERS /\ (file[Last(chunk)] = LF \/ Len(chunk) = BUFFER_SIZE - 1)

\* s was sent before what is in the buffer was sent again.
SentAgain(s) == s \in Seq(Nat) /\ Shows(s) /\ sent = s \o Told(file, chunk)

\* Without a NUL nothing of the n units read so far was left out.
Whole(n) == [j \in 1..n |-> j]
Text == \A u \in 1..pos : file[u] # NUL

Repeated == \E s \in Seq(Nat) : SentAgain(s) /\ (Text => s = Whole(pos))

\* Until the end of the file is met what was sent is what was read, and the
\* chunk in the buffer is a line, or fills it; once it is met, the chunk was sent
\* twice if it is.  Without appends the file is as long as was announced, and
\* where the end is met it ends.
BeforeLoop ==
    pc \in {"open", "first"} =>
        /\ ~feof /\ pos = 0 /\ chunk = HEADERS /\ sent = <<>>
        /\ headers = IF pc = "open" THEN 0 ELSE 1

InLoop ==
    pc \in {"loop", "done"} =>
        /\ headers = IF chunk = HEADERS THEN 2 ELSE 1
        /\ chunk = HEADERS => pos = 0
        /\ ~feof => Complete
        /\ feof /\ Complete => Repeated

SentOnce == ~(feof /\ Complete) => Shows(sent) /\ (Text => sent = Whole(pos))

AtEnd ==
    /\ pc = "done" => feof
    /\ appends = 0 => /\ pc # "open" => length = Len(file)
                      /\ feof => pos = Len(file)

LoopInv == TypeOK /\ BeforeLoop /\ InLoop /\ SentOnce /\ AtEnd

\* What is not a line of the file is sent as nothing.
LEMMA NothingToTell == ASSUME NEW f PROVE Told(f, HEADERS) = <<>>
BY DEF Told, SelectInSeq, HEADERS

\* It depends on no unit outside the line.
LEMMA ToldSame ==
    ASSUME NEW f, NEW g, NEW s, \A j \in 1..Len(s) : f[s[j]] = g[s[j]]
    PROVE  Told(f, s) = Told(g, s)
<1>1. {j \in 1..Len(s) : f[s[j]] = NUL} = {j \in 1..Len(s) : g[s[j]] = NUL}
  OBVIOUS
<1>. QED
  BY <1>1 DEF Told, SelectInSeq

LEMMA ToldOfSeq == ASSUME NEW f, NEW S, NEW s \in Seq(S) PROVE Told(f, s) \in Seq(S)
<1> DEFINE nul == SelectInSeq(s, LAMBDA p : f[p] = NUL)
           I == {j \in 1..Len(s) : f[s[j]] = NUL}
<1>1. nul = IF I # {} THEN Min(I) ELSE 0
  BY DEF SelectInSeq
<1>2. nul \in 0..Len(s)
  <2>1. I \in SUBSET Nat /\ Len(s) \in Nat
    OBVIOUS
  <2>2. CASE I = {}
    BY <1>1, <2>1, <2>2
  <2>3. CASE I # {}
    <3>1. Min(I) \in I
      <4> HIDE DEF I
      <4>. QED
        BY <2>1, <2>3, MinOfPositions
    <3>. QED
      BY <1>1, <2>3, <3>1
  <2>. QED
    BY <2>2, <2>3
<1> HIDE DEF nul
<1>3. Told(f, s) = IF nul > 0 THEN SubSeq(s, 1, nul - 1) ELSE s
  BY DEF Told, nul
<1>. QED
  BY <1>2, <1>3

\* There is no NUL in it ...
LEMMA ToldNoNul ==
    ASSUME NEW f, NEW S, NEW s \in Seq(S)
    PROVE  \A i \in 1..Len(Told(f, s)) : f[Told(f, s)[i]] # NUL
<1> DEFINE nul == SelectInSeq(s, LAMBDA p : f[p] = NUL)
           I == {j \in 1..Len(s) : f[s[j]] = NUL}
<1>1. nul = IF I # {} THEN Min(I) ELSE 0
  BY DEF SelectInSeq
<1>2. I \in SUBSET Nat /\ Len(s) \in Nat
  OBVIOUS
<1>3. Told(f, s) = IF nul > 0 THEN SubSeq(s, 1, nul - 1) ELSE s
  BY DEF Told
<1>4. CASE I = {}
  BY <1>1, <1>3, <1>4
<1>5. CASE I # {}
  <2>1. Min(I) \in I /\ \A j \in I : Min(I) <= j
    <3> HIDE DEF I
    <3>. QED
      BY <1>2, <1>5, MinOfPositions
  <2>2. nul = Min(I)
    BY <1>1, <1>5
  <2> HIDE DEF nul
  <2>3. nul \in 1..Len(s) /\ \A j \in I : nul <= j
    BY <2>1, <2>2
  <2>4. \A j \in 1..(nul - 1) : f[s[j]] # NUL
    BY <1>2, <2>3
  <2>5. Told(f, s) = SubSeq(s, 1, nul - 1)
    BY <1>3, <2>3
  <2>6. Len(Told(f, s)) = nul - 1 /\ \A j \in 1..(nul - 1) : Told(f, s)[j] = s[j]
    BY <1>2, <2>3, <2>5
  <2>. QED
    BY <2>4, <2>6
<1>. QED
  BY <1>4, <1>5

\* ... and all of it is sent if there was none.
LEMMA ToldText ==
    ASSUME TypeOK, Complete, \A u \in 1..Len(file) : file[u] # NUL
    PROVE  Len(Told(file, chunk)) > 0
<1>1. chunk \in Seq(1..Len(file)) /\ chunk # <<>>
  BY DEF TypeOK, Complete, HEADERS
<1>2. {j \in 1..Len(chunk) : file[chunk[j]] = NUL} = {}
  BY <1>1
<1>3. Told(file, chunk) = chunk
  BY <1>2 DEF Told, SelectInSeq
<1>. QED
  BY <1>1, <1>3

LEMMA NothingShown == pos = 0 => Shows(<<>>) /\ <<>> = Whole(pos)
BY DEF Shows, Whole

LEMMA InitLoopInv == Init => LoopInv
<1> SUFFICES ASSUME Init PROVE LoopInv
  OBVIOUS
<1>1. file \in Seq(Units) /\ Len(file) \in Nat
  BY SendFileAssumption DEF Init
<1>2. /\ length \in Nat /\ pos \in 0..Len(file) /\ appends \in 0..MaxAppends
      /\ headers \in 0..2
  BY <1>1, Constants DEF Init
<1>3. chunk \in Seq(1..Len(file)) /\ sent \in Seq(1..Len(file))
  BY <1>1 DEF Init, HEADERS
<1>4. TypeOK
  BY <1>1, <1>2, <1>3 DEF Init, TypeOK
<1>5. SentOnce
  BY NothingShown DEF Init, SentOnce
<1>. QED
  BY <1>4, <1>5 DEF Init, LoopInv, BeforeLoop, InLoop, AtEnd

\* An fgets() that reads on from pos hides nothing that was read before ...
LEMMA HiddenStays ==
    ASSUME TypeOK, file' = file, starts' = starts \cup {pos + 1}, NEW u \in 1..pos
    PROVE  Hidden(u)' <=> Hidden(u)
<1>1. pos \in Nat /\ starts \subseteq Nat /\ u \in Nat
  BY DEF TypeOK
<1>2. \A n \in 1..u : starts' \cap ((n + 1)..u) = starts \cap ((n + 1)..u)
  BY <1>1
<1>. QED
  BY <1>2 DEF Hidden

\* ... and of what it reads that which has a NUL before it.
LEMMA HiddenInLine ==
    ASSUME TypeOK, file' = file, starts' = starts \cup {pos + 1},
           NEW j \in Nat \ {0}, NEW u, u = pos + j
    PROVE  Hidden(u)' <=> \E i \in 1..j : file[pos + i] = NUL
<1>1. pos \in Nat /\ starts \subseteq 1..(pos + 1) /\ u \in Nat
  BY DEF TypeOK
<1>2. ASSUME NEW i \in 1..j, file[pos + i] = NUL PROVE Hidden(u)'
  <2>1. PICK n \in 1..u : n = pos + i
    BY <1>1
  <2>2. starts' \cap ((n + 1)..u) = {}
    BY <1>1, <2>1
  <2>3. file'[n] = NUL
    BY <1>2, <2>1
  <2>. QED
    BY <2>2, <2>3 DEF Hidden
<1>3. ASSUME NEW n \in 1..u, file[n] = NUL, starts' \cap ((n + 1)..u) = {}
      PROVE  \E i \in 1..j : file[pos + i] = NUL
  <2>1. ~(pos + 1 \in (n + 1)..u)
    BY <1>3
  <2>2. n > pos
    BY <1>1, <2>1
  <2>3. n - pos \in 1..j /\ pos + (n - pos) = n
    BY <1>1, <2>2
  <2>. QED
    BY <1>3, <2>3
<1>4. ASSUME Hidden(u)' PROVE \E i \in 1..j : file[pos + i] = NUL
  <2>1. PICK n \in 1..u : file'[n] = NUL /\ starts' \cap ((n + 1)..u) = {}
    BY <1>4 DEF Hidden
  <2>. QED
    BY <1>3, <2>1
<1>. QED
  BY <1>2, <1>4

\* One that reads nothing changes nothing of what is shown.
LEMMA ShowsStays ==
    ASSUME TypeOK, file' = file, starts' = starts \cup {pos + 1}, pos' = pos, NEW s
    PROVE  Shows(s)' <=> Shows(s)
<1>1. {u \in 1..pos' : ~Hidden(u)'} = {u \in 1..pos : ~Hidden(u)}
  BY HiddenStays
<1>. QED
  BY <1>1 DEF Shows

\* After what was sent, send() shows the units it reads before the first NUL.
LEMMA ShowsMore ==
    ASSUME TypeOK, file' = file, starts' = starts \cup {pos + 1},
           NEW n \in Nat, pos' = pos + n, NEW m \in 0..n,
           \A j \in 1..m : file[pos + j] # NUL, m < n => file[pos + (m + 1)] = NUL,
           NEW s \in Seq(Nat), Shows(s), NEW t, t = s \o Line(pos, m)
    PROVE  Shows(t)'
<1>1. pos \in Nat /\ Line(pos, m) \in Seq(Nat) /\ Len(Line(pos, m)) = m
      /\ \A j \in 1..m : Line(pos, m)[j] = pos + j
  BY LineIs DEF TypeOK
<1>2. /\ Len(t) = Len(s) + m /\ Len(s) \in Nat /\ t \in Seq(Nat)
      /\ \A j \in 1..Len(s) : t[j] = s[j]
      /\ \A j \in 1..m : t[Len(s) + j] = pos + j
  <2>1. Len(t) = Len(s) + m /\ Len(s) \in Nat /\ t \in Seq(Nat)
    <3>1. \A a, b \in Seq(Nat) :
             a \o b \in Seq(Nat) /\ Len(a \o b) = Len(a) + Len(b) /\ Len(a) \in Nat
      OBVIOUS
    <3>. QED
      BY <1>1, <3>1, ZenonT(30)
  <2>2. \A j \in 1..Len(s) : t[j] = s[j]
    BY <1>1
  <2>3. \A j \in 1..m : t[Len(s) + j] = Line(pos, m)[j]
    BY <1>1
  <2>. QED
    BY <1>1, <2>1, <2>2, <2>3
<1>3. \A j \in 1..Len(s) : s[j] \in 1..pos /\ ~Hidden(s[j])
  BY DEF Shows
<1>4. \A j \in 1..Len(t) :
         \/ j \in 1..Len(s) /\ t[j] = s[j]
         \/ j - Len(s) \in 1..m /\ t[j] = pos + (j - Len(s)) /\ j > Len(s)
  <2>. TAKE j \in 1..Len(t)
  <2>1. CASE j <= Len(s)
    BY <1>2, <2>1
  <2>2. CASE j > Len(s)
    <3>1. j - Len(s) \in 1..m /\ Len(s) + (j - Len(s)) = j
      BY <1>2, <2>2
    <3>. QED
      BY <1>2, <2>2, <3>1
  <2>. QED
    BY <1>2, <2>1, <2>2
<1>5. ASSUME NEW i \in 1..Len(t), NEW j \in 1..Len(t), i < j PROVE t[i] < t[j]
  <2>1. CASE j \in 1..Len(s) /\ t[j] = s[j]
    <3>1. i \in 1..Len(s) /\ t[i] = s[i]
      BY <1>2, <1>5, <2>1
    <3>. QED
      BY <1>5, <2>1, <3>1 DEF Shows
  <2>2. CASE j - Len(s) \in 1..m /\ t[j] = pos + (j - Len(s)) /\ j > Len(s)
    <3>1. CASE i \in 1..Len(s) /\ t[i] = s[i]
      <4>1. t[i] \in 1..pos
        BY <1>3, <3>1
      <4>. QED
        BY SMTT(30), <1>1, <2>2, <4>1
    <3>2. CASE t[i] = pos + (i - Len(s))
      BY <1>1, <1>2, <1>5, <2>2, <3>2
    <3>. QED
      BY <1>4, <3>1, <3>2
  <2>. QED
    BY <1>4, <2>1, <2>2
<1>6. ASSUME NEW i \in 1..Len(t), NEW u, u = t[i] PROVE u \in 1..pos' /\ ~Hidden(u)'
  <2>1. u \in Nat /\ u = t[i]
    BY SMTT(30), <1>2, <1>6
  <2>2. CASE i \in 1..Len(s) /\ t[i] = s[i]
    <3>1. u \in 1..pos /\ ~Hidden(u)
      BY <1>3, <2>1, <2>2
    <3>2. ~Hidden(u)' /\ u \in 1..pos'
      BY <1>1, <3>1, HiddenStays
    <3>. QED
      BY <2>1, <3>2
  <2>3. CASE i - Len(s) \in 1..m /\ t[i] = pos + (i - Len(s))
    <3>1. PICK j \in 1..m : j = i - Len(s)
      BY <2>3
    <3>2. j \in Nat \ {0} /\ u = pos + j /\ \A k \in 1..j : file[pos + k] # NUL
      BY <2>1, <2>3, <3>1
    <3>3. ~Hidden(u)'
      BY <3>2, HiddenInLine
    <3>4. u \in 1..pos'
      BY <1>1, <3>2
    <3>. QED
      BY <2>1, <3>3, <3>4
  <2>. QED
    BY <1>4, <2>2, <2>3
<1>7. ASSUME NEW u \in 1..pos', ~Hidden(u)' PROVE \E i \in 1..Len(t) : t[i] = u
  <2>1. CASE u \in 1..pos
    <3>1. ~Hidden(u)
      BY <1>7, <2>1, HiddenStays
    <3>2. PICK i \in 1..Len(s) : s[i] = u
      BY <2>1, <3>1 DEF Shows
    <3>3. i \in 1..Len(t)
      BY <1>2
    <3>. QED
      BY <1>2, <3>2, <3>3
  <2>2. CASE u > pos
    <3>1. PICK j \in Nat \ {0} : u = pos + j /\ j <= n
      <4>1. u - pos \in Nat \ {0} /\ u = pos + (u - pos) /\ u - pos <= n
        BY <1>1, <2>2
      <4>. QED
        BY <4>1
    <3>2. \A i \in 1..j : file[pos + i] # NUL
      BY <1>7, <3>1, HiddenInLine
    <3>3. j <= m
      BY <3>1, <3>2
    <3>4. Len(s) + j \in 1..Len(t) /\ t[Len(s) + j] = u
      <4>1. j \in 1..m
        BY <3>3
      <4>. QED
        BY <1>2, <3>1, <4>1
    <3>. QED
      BY <3>4
  <2>. QED
    BY <1>1, <2>1, <2>2
<1>8. {t[i] : i \in 1..Len(t)} = {u \in 1..pos' : ~Hidden(u)'}
  <2> DEFINE U == {u \in 1..pos' : ~Hidden(u)'}
  <2>1. \A u : u \in U <=> u \in 1..pos' /\ ~Hidden(u)'
    OBVIOUS
  <2>2. \A u \in U : \E i \in 1..Len(t) : t[i] = u
    BY <1>7
  <2>3. \A i \in 1..Len(t) : t[i] \in U
    <3>. TAKE i \in 1..Len(t)
    <3>1. PICK u : u = t[i]
      OBVIOUS
    <3>2. u \in 1..pos' /\ ~Hidden(u)'
      BY <1>6, <3>1
    <3>. QED
      BY <2>1, <3>1, <3>2
  <2> HIDE DEF U
  <2>4. {t[i] : i \in 1..Len(t)} = U
    BY <2>2, <2>3
  <2>. QED
    BY <2>4 DEF U
<1>. QED
  BY <1>5, <1>8 DEF Shows

\* What does not read, and leaves the file or appends to it, changes nothing of
\* what was sent.
LEMMA SentStays ==
    ASSUME TypeOK, UNCHANGED <<pos, starts, chunk, sent, feof>>, Len(file') >= Len(file),
           \A u \in 1..Len(file) : file'[u] = file[u]
    PROVE  /\ Complete' = Complete /\ Text' = Text
           /\ Repeated => Repeated'
           /\ SentOnce => SentOnce'
<1>1. /\ pos \in 0..Len(file) /\ Len(file) \in Nat /\ pos' = pos /\ starts' = starts
      /\ chunk \in Seq(1..Len(file)) /\ chunk' = chunk /\ sent' = sent /\ feof' = feof
  BY DEF TypeOK
<1>2. Complete' = Complete
  <2>1. CASE chunk = HEADERS
    BY <1>1, <2>1 DEF Complete
  <2>2. CASE chunk # HEADERS
    <3>1. Last(chunk) \in 1..Len(file)
      BY <1>1, <2>2 DEF Last, HEADERS
    <3>. QED
      BY <1>1, <3>1 DEF Complete
  <2>. QED
    BY <2>1, <2>2
<1>3. \A u \in 1..pos : u \in 1..Len(file) /\ file'[u] = file[u]
  <2>1. \A u \in 1..pos : u \in 1..Len(file)
    BY <1>1
  <2>. QED
    BY <2>1, Zenon
<1>4. Text' = Text
  BY <1>1, <1>3 DEF Text
<1>5. ASSUME NEW u \in 1..pos PROVE Hidden(u)' <=> Hidden(u)
  <2>1. \A n \in 1..u : n \in 1..pos /\ file'[n] = file[n]
    BY <1>1, <1>3
  <2>. QED
    BY <1>1, <2>1 DEF Hidden
<1>6. {u \in 1..pos' : ~Hidden(u)'} = {u \in 1..pos : ~Hidden(u)}
  BY <1>1, <1>5
<1>7. ASSUME NEW s, Shows(s) PROVE Shows(s)'
  BY <1>6, <1>7 DEF Shows
<1>8. Told(file, chunk)' = Told(file, chunk)
  <2>1. \A j \in 1..Len(chunk) : file'[chunk[j]] = file[chunk[j]]
    BY <1>1
  <2>2. Told(file', chunk) = Told(file, chunk)
    BY <2>1, ToldSame
  <2>. QED
    BY <1>1, <2>2
<1>9. ASSUME Repeated PROVE Repeated'
  <2>1. PICK s \in Seq(Nat) : SentAgain(s) /\ (Text => s = Whole(pos))
    BY <1>9 DEF Repeated
  <2>2. SentAgain(s)'
    BY <1>1, <1>7, <1>8, <2>1 DEF SentAgain
  <2>. QED
    BY <1>1, <1>4, <2>1, <2>2 DEF Repeated
<1>10. ASSUME SentOnce PROVE SentOnce'
  <2>1. PICK s : s = sent
    OBVIOUS
  <2>2. ~(feof /\ Complete) => Shows(s)' /\ (Text => s = Whole(pos))
    BY <1>7, <1>10, <2>1 DEF SentOnce
  <2>3. Shows(sent)' = Shows(s)'
    BY <1>1, <2>1
  <2>. QED
    BY <1>1, <1>2, <1>4, <2>1, <2>2, <2>3 DEF SentOnce
<1>. QED
  BY <1>2, <1>4, <1>9, <1>10

\* One fgets() and send(), and what they leave.
LEMMA GetsLoopInv ==
    ASSUME LoopInv, ~feof, pc \in {"first", "loop"}, GetsAndSends,
           UNCHANGED <<file, length, appends>>, pc' = "loop"
    PROVE  LoopInv'
<1>1. /\ file \in Seq(Units) /\ Len(file) \in Nat /\ pos \in 0..Len(file) /\ pos \in Nat
      /\ appends \in 0..MaxAppends /\ length \in Nat /\ starts \subseteq 1..(pos + 1)
      /\ chunk \in Seq(1..Len(file)) /\ sent \in Seq(1..Len(file))
      /\ appends = 0 => length = Len(file)
      /\ TypeOK /\ file' = file
  BY DEF LoopInv, TypeOK, AtEnd
<1>2. /\ Shows(sent) /\ (Text => sent = Whole(pos))
      /\ pc = "first" => chunk = HEADERS /\ pos = 0
      /\ chunk = HEADERS => pc = "first" /\ headers = 1
      /\ chunk # HEADERS => Complete /\ headers = 1
  <2>1. Shows(sent) /\ (Text => sent = Whole(pos))
    BY DEF LoopInv, SentOnce
  <2>2. CASE pc = "first"
    BY <2>1, <2>2 DEF LoopInv, BeforeLoop
  <2>3. CASE pc = "loop"
    <3>1. Complete /\ headers = IF chunk = HEADERS THEN 2 ELSE 1
      BY <2>3 DEF LoopInv, InLoop
    <3>2. chunk # HEADERS
      BY <3>1 DEF Complete
    <3>. QED
      BY <2>1, <2>3, <3>1, <3>2
  <2>. QED
    BY <2>2, <2>3
<1>3. PICK n \in 0..(BUFFER_SIZE - 1) :
              /\ LineFrom(pos) = Line(pos, n)
              /\ pos + n <= Len(file)
              /\ n = 0 => pos = Len(file)
              /\ n < BUFFER_SIZE - 1 /\ (n > 0 => file[pos + n] # LF)
                    => pos + n = Len(file)
  BY <1>1, LineFromIs
<1> DEFINE line == LineFrom(pos)
<1>4. /\ line \in Seq(1..Len(file)) /\ Len(line) = n /\ n \in Nat
      /\ \A j \in 1..n : line[j] = pos + j
  BY <1>1, <1>3, Constants DEF Line
<1>5. /\ line = <<>> <=> n = 0
      /\ n > 0 => Last(line) = pos + n
  BY <1>4 DEF Last
<1> DEFINE new == IF line = <<>> THEN chunk ELSE line
<1>6. /\ chunk' = new
      /\ pos' = pos + n
      /\ feof' \in BOOLEAN
      /\ feof' <=> n < BUFFER_SIZE - 1 /\ (n > 0 => file[pos + n] # LF)
      /\ starts' = starts \cup {pos + 1}
      /\ sent' = sent \o Told(file, new)
      /\ headers' = IF new = HEADERS THEN headers + 1 ELSE headers
  <2>1. /\ chunk' = new /\ pos' = pos + n /\ sent' = sent \o Told(file, new)
        /\ starts' = starts \cup {pos + 1}
        /\ headers' = IF new = HEADERS THEN headers + 1 ELSE headers
    BY <1>4 DEF GetsAndSends
  <2>2. feof' = (Len(line) < BUFFER_SIZE - 1 /\ (line # <<>> => file[Last(line)] # LF))
    BY DEF GetsAndSends
  <2> HIDE DEF line
  <2>3. feof' = (n < BUFFER_SIZE - 1 /\ (n > 0 => file[pos + n] # LF))
    <3>1. CASE n = 0
      BY <1>4, <1>5, <2>2, <3>1
    <3>2. CASE n > 0
      BY <1>4, <1>5, <2>2, <3>2
    <3>. QED
      BY <1>4, <3>1, <3>2
  <2>. QED
    BY <2>1, <2>3
<1> HIDE DEF line
<1>7. /\ new \in Seq(1..Len(file)) /\ Told(file, new) \in Seq(1..Len(file))
      /\ sent' \in Seq(1..Len(file)) /\ pos' \in 0..Len(file)
  <2>1. new \in Seq(1..Len(file))
    BY <1>1, <1>4
  <2> HIDE DEF new
  <2>2. Told(file, new) \in Seq(1..Len(file))
    BY <2>1, ToldOfSeq
  <2>. QED
    BY <1>1, <1>3, <1>6, <2>1, <2>2
<1>8. headers' = IF chunk' = HEADERS THEN 2 ELSE 1
  BY <1>2, <1>6
<1>9. TypeOK'
  <2>1. starts' \subseteq 1..(pos' + 1)
    BY SMTT(30), <1>1, <1>4, <1>6
  <2>. QED
    BY <1>1, <1>6, <1>7, <1>8, <2>1 DEF TypeOK
<1>10. AtEnd'
  BY <1>1, <1>3, <1>6 DEF AtEnd
<1>11. CASE n = 0
  <2>1. chunk' = chunk /\ pos' = pos /\ feof' /\ sent' = sent \o Told(file, chunk)
    BY <1>1, <1>5, <1>6, <1>11, Constants
  <2>2. Complete' = Complete /\ Text' = Text
    BY <1>1, <2>1 DEF Complete, Text
  <2>3. PICK s \in Seq(Nat) : s = sent
    BY <1>1
  <2>4. Shows(s)' /\ (Text => s = Whole(pos))
    BY <1>1, <1>2, <1>6, <2>1, <2>3, ShowsStays
  <2>5. sent' = s \o Told(file, chunk)'
    BY <1>1, <2>1, <2>3
  <2>6. InLoop'
    <3>1. chunk' = HEADERS => pos' = 0
      BY <1>2, <2>1
    <3>2. SentAgain(s)' /\ (Text' => s = Whole(pos'))
      BY <2>1, <2>2, <2>4, <2>5 DEF SentAgain
    <3>3. Repeated'
      BY <3>2 DEF Repeated
    <3>. QED
      BY <1>8, <2>1, <3>1, <3>3 DEF InLoop
  <2>7. SentOnce'
    <3>1. CASE chunk = HEADERS
      <4>1. sent' = s
        BY <1>1, <2>1, <2>3, <3>1, NothingToTell
      <4>. QED
        BY <2>1, <2>2, <2>4, <4>1 DEF SentOnce
    <3>2. CASE chunk # HEADERS
      BY <1>2, <2>1, <2>2, <3>2 DEF SentOnce
    <3>. QED
      BY <3>1, <3>2
  <2>. QED
    BY <1>9, <1>10, <2>6, <2>7 DEF LoopInv, BeforeLoop
<1>12. CASE n > 0
  <2>1. chunk' = line /\ chunk' # HEADERS /\ Last(chunk') = pos + n /\ Len(chunk') = n
    BY <1>4, <1>5, <1>6, <1>12 DEF HEADERS
  <2>2. Complete' <=> file[pos + n] = LF \/ n = BUFFER_SIZE - 1
    BY <1>1, <2>1 DEF Complete
  <2>3. feof' <=> ~Complete'
    BY <1>3, <1>6, <1>12, <2>2, Constants
  <2>4. PICK m \in 0..n :
              /\ Told(file, Line(pos, n)) = Line(pos, m)
              /\ \A j \in 1..m : file[pos + j] # NUL
              /\ m < n => file[pos + (m + 1)] = NUL
    <3>1. PICK m \in 0..n : CutAt(file, pos, n, m)
      BY <1>1, <1>4, ToldIs
    <3>. QED
      BY <3>1 DEF CutAt
  <2>5. PICK s \in Seq(Nat) : s = sent
    BY <1>1
  <2>6. PICK t : t = s \o Line(pos, m) /\ t = sent'
    BY <1>3, <1>6, <2>1, <2>4, <2>5 DEF line
  <2>7. Shows(t)'
    BY <1>1, <1>2, <1>4, <1>6, <2>4, <2>5, <2>6, ShowsMore
  <2>8. ASSUME Text' PROVE t = Whole(pos')
    <3>1. \A u \in 1..(pos + n) : file[u] # NUL
      BY <1>1, <1>6, <2>8 DEF Text
    <3>2. m = n
      <4>1. m < n => pos + (m + 1) \in 1..(pos + n)
        BY <1>1, <1>4
      <4>. QED
        BY <1>4, <2>4, <3>1, <4>1
    <3>3. s = Whole(pos)
      <4>1. \A u \in 1..pos : file[u] # NUL
        BY <1>1, <1>4, <3>1
      <4>. QED
        BY <1>2, <2>5, <4>1 DEF Text
    <3>4. Whole(pos) \o Line(pos, n) = Whole(pos + n)
      BY <1>1, <1>4 DEF Whole, Line
    <3>. QED
      BY <1>6, <2>6, <3>2, <3>3, <3>4
  <2>9. SentOnce'
    BY <2>6, <2>7, <2>8 DEF SentOnce
  <2>10. InLoop'
    BY <1>8, <2>1, <2>3 DEF InLoop
  <2>. QED
    BY <1>9, <1>10, <2>9, <2>10 DEF LoopInv, BeforeLoop
<1>. QED
  BY <1>4, <1>11, <1>12

LEMMA OpenLoopInv == LoopInv /\ Open => LoopInv'
<1> SUFFICES ASSUME LoopInv, Open PROVE LoopInv'
  OBVIOUS
<1>1. /\ pc = "open" /\ pc' = "first" /\ length' = Len(file) /\ headers' = headers + 1
      /\ UNCHANGED <<file, pos, feof, chunk, starts, sent, appends>>
  BY DEF Open
<1>2. ~feof /\ pos = 0 /\ chunk = HEADERS /\ sent = <<>> /\ headers = 0
  BY <1>1 DEF LoopInv, BeforeLoop
<1>3. TypeOK'
  BY <1>1, <1>2 DEF LoopInv, TypeOK
<1>4. SentOnce'
  BY <1>1, SentStays DEF LoopInv, TypeOK
<1>. QED
  BY <1>1, <1>2, <1>3, <1>4 DEF LoopInv, BeforeLoop, InLoop, AtEnd

\* Nothing that was read changes when the file grows.
LEMMA AppendLoopInv == LoopInv /\ AppendToFile => LoopInv'
<1> SUFFICES ASSUME LoopInv, AppendToFile PROVE LoopInv'
  OBVIOUS
<1>1. PICK x \in Units : file' = Append(file, x)
  BY DEF AppendToFile
<1>2. /\ file \in Seq(Units) /\ Len(file) \in Nat
      /\ chunk \in Seq(1..Len(file)) /\ Len(chunk) \in Nat
      /\ sent \in Seq(1..Len(file)) /\ appends \in Nat /\ appends < MaxAppends
  BY DEF LoopInv, TypeOK, AppendToFile
<1>3. /\ file' \in Seq(Units) /\ Len(file') = Len(file) + 1
      /\ \A j \in 1..Len(file) : file'[j] = file[j]
  BY <1>1, <1>2
<1>4. UNCHANGED <<pc, length, pos, feof, chunk, starts, headers, sent>> /\ appends' = appends + 1
  BY DEF AppendToFile
<1>5. Complete' = Complete /\ (Repeated => Repeated') /\ SentOnce'
  <2>1. UNCHANGED <<pos, starts, chunk, sent, feof>> /\ Len(file') >= Len(file)
    BY <1>2, <1>3, <1>4
  <2>. QED
    BY <1>3, <2>1, SentStays DEF LoopInv
<1>6. TypeOK'
  <2>1. 1..Len(file) \subseteq 1..Len(file')
    BY <1>2, <1>3
  <2>2. chunk' \in Seq(1..Len(file')) /\ sent' \in Seq(1..Len(file'))
    <3>1. chunk \in Seq(1..Len(file')) /\ sent \in Seq(1..Len(file'))
      <4> DEFINE A == 1..Len(file)
                  B == 1..Len(file')
      <4>1. chunk \in Seq(A) /\ sent \in Seq(A) /\ A \subseteq B
        BY <1>2, <2>1
      <4> HIDE DEF A, B
      <4>2. chunk \in Seq(B) /\ sent \in Seq(B)
        BY <4>1
      <4>. QED
        BY <4>2 DEF B
    <3>. QED
      BY <1>4, <3>1
  <2>3. appends' \in 0..MaxAppends
    BY <1>2, <1>4, Constants
  <2>4. pos' \in 0..Len(file')
    BY <1>2, <1>3, <1>4 DEF LoopInv, TypeOK
  <2>. QED
    BY <1>3, <1>4, <2>2, <2>3, <2>4 DEF LoopInv, TypeOK
<1>7. BeforeLoop' /\ InLoop'
  BY <1>4, <1>5 DEF LoopInv, BeforeLoop, InLoop
<1>8. AtEnd'
  BY <1>2, <1>4 DEF LoopInv, AtEnd
<1>. QED
  BY <1>5, <1>6, <1>7, <1>8 DEF LoopInv

LEMMA NextLoopInv == LoopInv /\ [Next]_vars => LoopInv'
<1> SUFFICES ASSUME LoopInv, [Next]_vars PROVE LoopInv'
  OBVIOUS
<1>1. CASE Open
  BY <1>1, OpenLoopInv
<1>2. CASE FirstLine
  <2>1. ~feof
    BY <1>2 DEF FirstLine, LoopInv, BeforeLoop
  <2>. QED
    BY <1>2, <2>1, GetsLoopInv DEF FirstLine
<1>3. CASE NextLine
  BY <1>3, GetsLoopInv DEF NextLine
<1>4. CASE Done
  <2>1. /\ pc = "loop" /\ pc' = "done" /\ feof
        /\ UNCHANGED <<file, length, pos, feof, chunk, starts, headers, sent, appends>>
    BY <1>4 DEF Done
  <2>2. Complete' = Complete /\ (Repeated => Repeated') /\ SentOnce'
    BY <2>1, SentStays DEF LoopInv, TypeOK
  <2>3. TypeOK'
    BY <2>1 DEF LoopInv, TypeOK
  <2>. QED
    BY <2>1, <2>2, <2>3 DEF LoopInv, BeforeLoop, InLoop, AtEnd
<1>5. CASE AppendToFile
  BY <1>5, AppendLoopInv
<1>6. CASE UNCHANGED vars
  <2>1. Complete' = Complete /\ (Repeated => Repeated') /\ SentOnce'
    BY <1>6, SentStays DEF vars, LoopInv, TypeOK
  <2>2. TypeOK'
    BY <1>6 DEF vars, LoopInv, TypeOK
  <2>. QED
    BY <1>6, <2>1, <2>2 DEF vars, LoopInv, BeforeLoop, InLoop, AtEnd
<1>. QED
  BY <1>1, <1>2, <1>3, <1>4, <1>5, <1>6 DEF Next, Server

THEOREM Invariance == Spec => []LoopInv
BY InitLoopInv, NextLoopInv, PTL DEF Spec

-----------------------------------------------------------------------------
(* What follows from it. *)

\* Every variable of send_file keeps its type; above all the headers are sent
\* at most twice.
THEOREM TypeCorrect == Spec => []TypeOK
<1>1. LoopInv => TypeOK
  BY DEF LoopInv
<1>. QED
  BY <1>1, Invariance, PTL

\* What was sent before the repetition is what is left of it without.
LEMMA AgainIsTwice ==
    ASSUME TypeOK, NEW s \in Seq(Nat), SentAgain(s)
    PROVE  ShowsTwice(sent) /\ Len(sent) = Len(s) + Len(Told(file, chunk))
<1> DEFINE t == Told(file, chunk)
<1>1. chunk \in Seq(1..Len(file)) /\ t \in Seq(1..Len(file))
  BY ToldOfSeq DEF TypeOK
<1>2. t \in Seq(Nat) /\ Shows(s) /\ sent = s \o t
  BY <1>1 DEF SentAgain
<1> HIDE DEF t
<1>3. /\ Len(s) \in Nat /\ Len(t) \in Nat /\ Len(sent) = Len(s) + Len(t)
      /\ SubSeq(s \o t, 1, Len(s)) = s
  BY <1>2
<1>4. Len(sent) - Len(t) = Len(s)
  BY <1>3
<1>5. SubSeq(sent, 1, Len(sent) - Len(t)) = s
  BY <1>2, <1>3, <1>4
<1>. QED
  BY <1>2, <1>3, <1>5 DEF ShowsTwice, t

\* What was sent is what was read, each line up to its first NUL, but for a last
\* line sent twice, however the file grows meanwhile.
THEOREM SendsTheFile == Spec => []SentIsFile
<1>1. LoopInv => SentIsFile
  <2> SUFFICES ASSUME LoopInv PROVE SentIsFile
    OBVIOUS
  <2>1. CASE ~(feof /\ Complete)
    BY <2>1 DEF LoopInv, SentOnce, SentIsFile
  <2>2. CASE feof /\ Complete
    <3>1. pc \in {"loop", "done"}
      BY <2>2 DEF LoopInv, TypeOK, BeforeLoop
    <3>2. PICK s \in Seq(Nat) : SentAgain(s)
      BY <2>2, <3>1 DEF LoopInv, InLoop, Repeated
    <3>. QED
      BY <2>2, <3>2, AgainIsTwice DEF LoopInv, SentIsFile
  <2>. QED
    BY <2>1, <2>2
<1>. QED
  BY <1>1, Invariance, PTL

\* Nor is it in a line that is sent again.
LEMMA NulNotSent ==
    ASSUME TypeOK, NEW u \in 1..pos, file[u] = NUL, NEW s \in Seq(Nat), SentAgain(s)
    PROVE  sent # Whole(pos)
<1> DEFINE t == Told(file, chunk)
<1>1. t \in Seq(Nat) /\ s \in Seq(Nat) /\ Shows(s) /\ sent = s \o t
  <2>1. t \in Seq(1..Len(file))
    BY ToldOfSeq DEF TypeOK
  <2>. QED
    BY <2>1 DEF SentAgain
<1>2. pos \in Nat /\ u \in Nat /\ Len(s) \in Nat
  BY DEF TypeOK
<1>3. \A i \in 1..Len(s) : s[i] # u
  <2>1. (u + 1)..u = {} /\ u \in 1..u
    BY <1>2
  <2>2. Hidden(u)
    BY <2>1 DEF Hidden
  <2>. QED
    BY <1>1, <2>2 DEF Shows
<1>4. \A i \in 1..Len(t) : file[t[i]] # NUL
  BY ToldNoNul DEF TypeOK
<1> HIDE DEF t
<1>5. ASSUME sent = Whole(pos) PROVE FALSE
  <2>1. u \in 1..Len(sent) /\ sent[u] = u
    BY <1>2, <1>5 DEF Whole
  <2>2. CASE u <= Len(s)
    BY <1>1, <1>2, <1>3, <2>1, <2>2
  <2>3. CASE ~(u <= Len(s))
    <3>1. u - Len(s) \in 1..Len(t) /\ sent[u] = t[u - Len(s)]
      BY <1>1, <1>2, <2>1, <2>3
    <3>. QED
      BY <1>4, <2>1, <3>1
  <2>. QED
    BY <2>2, <2>3
<1>. QED
  BY <1>5

\* A NUL is never sent, so that with one what is shown is not the file.
LEMMA NulNotShown ==
    ASSUME TypeOK, NEW u \in 1..pos, file[u] = NUL, NEW s, Shows(s)
    PROVE  s # Whole(pos)
<1>1. pos \in Nat /\ u \in Nat
  BY DEF TypeOK
<1>2. Hidden(u)
  <2>1. (u + 1)..u = {} /\ u \in 1..u
    BY <1>1
  <2>. QED
    BY <2>1 DEF Hidden
<1>3. \A i \in 1..Len(s) : s[i] # u
  BY <1>2 DEF Shows
<1>4. u \in 1..Len(Whole(pos)) /\ Whole(pos)[u] = u
  BY <1>1 DEF Whole
<1>. QED
  BY <1>3, <1>4

\* The last chunk goes out twice for exactly the pages that end with a line feed
\* or fill the buffer, the headers for exactly the empty ones, and exactly the
\* others, if they hold no NUL, are sent as announced, for any buffer size.
THEOREM EndSentTwice == Spec => []EndsTwice
<1>1. LoopInv => EndsTwice
  <2> SUFFICES ASSUME LoopInv, pc = "done" PROVE EndsTwice
    BY DEF EndsTwice
  <2>1. /\ headers = IF chunk = HEADERS THEN 2 ELSE 1
        /\ chunk = HEADERS => pos = 0
        /\ feof
        /\ Complete => Repeated
        /\ ~Complete => Shows(sent) /\ (Text => sent = Whole(pos))
        /\ appends = 0 => length = Len(file) /\ pos = Len(file)
    BY DEF LoopInv, InLoop, SentOnce, AtEnd
  <2>2. /\ file \in Seq(Units) /\ Len(file) \in Nat /\ pos \in 0..Len(file)
        /\ chunk \in Seq(1..Len(file)) /\ Len(chunk) \in Nat /\ TypeOK
    BY DEF LoopInv, TypeOK
  <2>3. Complete => ShowsTwice(sent)
    BY <2>1, <2>2, AgainIsTwice DEF Repeated
  <2>4. ASSUME appends = 0
        PROVE  headers = 1 /\ sent = Whole(length) <=> file # <<>> /\ ~Complete /\ Text
    <3>1. length = Len(file) /\ pos = Len(file)
      BY <2>1, <2>4
    <3>2. CASE Complete
      <4>1. PICK s \in Seq(Nat) : SentAgain(s) /\ (Text => s = Whole(pos))
        BY <2>1, <3>2 DEF Repeated
      <4>2. ASSUME sent = Whole(length) PROVE FALSE
        <5>1. CASE Text
          <6>1. Len(s) = pos /\ Len(sent) = pos
            BY <2>2, <3>1, <4>1, <4>2, <5>1 DEF Whole
          <6>2. Len(Told(file, chunk)) > 0
            BY <2>2, <3>1, <3>2, <5>1, ToldText DEF Text
          <6>3. Len(sent) = Len(s) + Len(Told(file, chunk))
            BY <2>2, <4>1, AgainIsTwice
          <6>. QED
            BY <2>2, <6>1, <6>2, <6>3
        <5>2. CASE ~Text
          <6>1. PICK u \in 1..pos : file[u] = NUL
            BY <5>2 DEF Text
          <6>. QED
            BY <2>2, <3>1, <4>1, <4>2, <6>1, NulNotSent
        <5>. QED
          BY <5>1, <5>2
      <4>. QED
        BY <3>2, <4>2
    <3>3. CASE ~Complete
      <4>1. sent = Whole(pos) <=> Text
        BY <2>1, <2>2, <3>3, NulNotShown DEF Text
      <4>2. chunk = HEADERS <=> file = <<>>
        <5>1. CASE chunk = HEADERS
          BY <2>1, <2>2, <3>1, <5>1
        <5>2. CASE chunk # HEADERS
          BY <2>2, <5>2 DEF HEADERS
        <5>. QED
          BY <5>1, <5>2
      <4>. QED
        BY <2>1, <3>1, <3>3, <4>1, <4>2
    <3>. QED
      BY <3>2, <3>3
  <2>5. appends = 0 => (Text <=> \A u \in 1..Len(file) : file[u] # NUL)
    BY <2>1 DEF Text
  <2>. QED
    BY <2>1, <2>3, <2>4, <2>5 DEF EndsTwice, Complete, Whole
<1>. QED
  BY <1>1, Invariance, PTL

\* For any file and buffer, all that is sent is the file, and the repetitions at
\* its end are those that EndsTwice lists.
THEOREM PageIsSent == Spec => []PageSent
<1>1. SentIsFile /\ EndsTwice => PageSent
  BY DEF PageSent
<1>. QED
  BY <1>1, SendsTheFile, EndSentTwice, PTL
=============================================================================
