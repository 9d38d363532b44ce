----------------------------- MODULE CgiProofs -----------------------------
(***************************************************************************)
(* Proofs about CgiExec, for any scripts, bodies, pipes and relay buffer:  *)
(* its type invariant, that only a NUL loses output the parent has read,   *)
(* that execute_cgi keeps to ScriptRun, that it returns only from a script *)
(* that conforms, and that parent and such a script never both wait.       *)
(***************************************************************************)
EXTENDS CgiExec, Positions, FiniteSetTheorems

-----------------------------------------------------------------------------
(* What First finds. *)

\* First(s, u) is the position of the first u in s, or 0.
LEMMA FirstIs ==
    ASSUME NEW s, Len(s) \in Nat, NEW u
    PROVE  \/ First(s, u) = 0 /\ \A j \in 1..Len(s) : s[j] # u
           \/ /\ First(s, u) \in 1..Len(s) /\ s[First(s, u)] = u
              /\ \A j \in 1..(First(s, u) - 1) : s[j] # u
<1> DEFINE I == {j \in 1..Len(s) : s[j] = u}
<1>1. First(s, u) = IF I # {} THEN Min(I) ELSE 0
  BY DEF First, SelectInSeq
<1>2. I \in SUBSET Nat
  OBVIOUS
<1>3. CASE I = {}
  BY <1>1, <1>3
<1>4. CASE I # {}
  <2>1. First(s, u) \in I /\ \A j \in I : First(s, u) <= j
    <3> HIDE DEF I
    <3>. QED
      BY <1>1, <1>2, <1>4, MinOfPositions
  <2>2. First(s, u) \in 1..Len(s) /\ s[First(s, u)] = u
    BY <2>1
  <2>3. ASSUME NEW j \in 1..(First(s, u) - 1) PROVE s[j] # u
    <3>1. j \in 1..Len(s) /\ ~(First(s, u) <= j)
      BY <2>2
    <3>. QED
      BY <2>1, <3>1
  <2>. QED
    BY <2>2, <2>3
<1>. QED
  BY <1>3, <1>4

-----------------------------------------------------------------------------
(* The type invariant. *)

\* The script has made as many calls as it wrote units, or more, and the pipe
\* holds some of these; when the parent is done the script is gone.
TypeInv ==
    /\ TypeOK
    /\ written < next
    /\ Len(output) <= written
    /\ parent = "done" => ~alive

Units == {NUL} \cup 1..Len(script)
Cells == {NUL, STATUS} \cup 1..Len(script)

LEMMA ConstantTypes ==
    /\ BUFFER_SIZE \in Nat \ {0} /\ StatusLength \in 0..(BUFFER_SIZE - 1)
    /\ InCapacity \in Nat \ {0} /\ OutCapacity \in Nat \ {0}
    /\ Bodies \subseteq Nat
BY CgiExecAssumption

\* A script is a sequence, and stays the one it was.
LEMMA ScriptType == script \in Scripts => script \in Seq(Calls) /\ Len(script) \in Nat
BY CgiExecAssumption

LEMMA InitTypeInv == Init => TypeInv
BY ConstantTypes, ScriptType DEF Init, TypeInv, TypeOK, NUL, STATUS

\* What send() is given: a beginning of the buffer, of which no cell is NUL, and
\* perhaps one byte of what follows it.
LEMMA CStringIs ==
    ASSUME NEW S, NEW b \in [1..BUFFER_SIZE -> S], NEW s \in CString(b)
    PROVE  \E n \in 0..BUFFER_SIZE :
             /\ \/ s = SubSeq(b, 1, n)
                \/ n = BUFFER_SIZE /\ s = Append(b, JUNK)
             /\ \A j \in 1..n : b[j] # NUL
             /\ n < BUFFER_SIZE => b[n + 1] = NUL
<1> DEFINE end == First(b, NUL)
<1>1. CString(b) = IF end > 0 THEN {SubSeq(b, 1, end - 1)} ELSE {b, Append(b, JUNK)}
  BY DEF CString
<1>2. b \in Seq(S) /\ Len(b) = BUFFER_SIZE
  BY ConstantTypes
<1>3. \/ end = 0 /\ \A j \in 1..Len(b) : b[j] # NUL
      \/ /\ end \in 1..Len(b) /\ b[end] = NUL
         /\ \A j \in 1..(end - 1) : b[j] # NUL
  BY <1>2, FirstIs
<1> HIDE DEF end
<1>4. CASE end = 0
  <2>1. SubSeq(b, 1, BUFFER_SIZE) = b
    BY <1>2, ConstantTypes
  <2>. QED
    BY <1>1, <1>2, <1>3, <1>4, <2>1, ConstantTypes
<1>5. CASE end \in 1..Len(b)
  <2>1. s = SubSeq(b, 1, end - 1)
    BY <1>1, <1>5
  <2>2. end - 1 \in 0..BUFFER_SIZE /\ end - 1 < BUFFER_SIZE
    BY <1>2, <1>5, ConstantTypes
  <2>. QED
    BY <1>2, <1>3, <1>5, <2>1, <2>2
<1>. QED
  BY <1>3, <1>4, <1>5

-----------------------------------------------------------------------------
(* One step of the parent or the script keeps the type invariant. *)

\* What a relay step leaves in the buffer.
LEMMA RelayedBuffer ==
    ASSUME TypeInv, Relay
    PROVE  LET n == IF Len(output) < BUFFER_SIZE THEN Len(output) ELSE BUFFER_SIZE
           IN  /\ n \in 1..Len(output) /\ n <= BUFFER_SIZE
               /\ buf' \in [1..BUFFER_SIZE -> Cells]
               /\ \A j \in 1..BUFFER_SIZE : buf'[j] = IF j <= n THEN output[j] ELSE buf[j]
               /\ output' \in Seq(Units)
               /\ Len(output') = Len(output) - n
               /\ \A j \in 1..Len(output') : output'[j] = output[n + j]
<1> DEFINE n == IF Len(output) < BUFFER_SIZE THEN Len(output) ELSE BUFFER_SIZE
<1>1. output \in Seq(Units) /\ output # <<>> /\ Len(output) \in Nat
      /\ buf \in [1..BUFFER_SIZE -> Cells]
  BY SMTT(30) DEF TypeInv, TypeOK, Relay, Cells, Units
<1>2. Len(output) > 0
  BY <1>1
<1>3. n \in 1..Len(output) /\ n <= BUFFER_SIZE
  BY <1>1, <1>2, ConstantTypes
<1>4. /\ buf' = [j \in 1..BUFFER_SIZE |-> IF j <= n THEN output[j] ELSE buf[j]]
      /\ output' = SubSeq(output, n + 1, Len(output))
  BY DEF Relay
<1> HIDE DEF n
<1>5. buf' \in [1..BUFFER_SIZE -> Cells]
  <2>1. \A j \in 1..BUFFER_SIZE : j <= n => output[j] \in Cells
    BY <1>1, <1>3 DEF Cells, Units
  <2>. QED
    BY <1>1, <1>4, <2>1
<1>6. /\ output' \in Seq(Units) /\ Len(output') = Len(output) - n
      /\ \A j \in 1..Len(output') : output'[j] = output[n + j]
  BY SMTT(30), <1>1, <1>3, <1>4
<1>. QED
  BY <1>3, <1>4, <1>5, <1>6 DEF n

\* What a relay step sends.
LEMMA RelayedText ==
    ASSUME TypeInv, Relay
    PROVE  \E s \in Seq(Cells \cup {JUNK}) :
             /\ sent' = sent \o s
             /\ \A j \in 1..Len(s) : s[j] = JUNK \/ (j <= BUFFER_SIZE /\ s[j] = buf'[j])
             /\ \A k \in 1..BUFFER_SIZE :
                   (\A j \in 1..k : buf'[j] # NUL) => k <= Len(s) /\ s[k] = buf'[k]
             /\ \A j \in 1..Len(s) : s[j] # NUL
<1>1. PICK s \in CString(buf') : sent' = sent \o s
  BY DEF Relay
<1>2. buf' \in [1..BUFFER_SIZE -> Cells]
  BY RelayedBuffer
<1>3. PICK n \in 0..BUFFER_SIZE :
             /\ \/ s = SubSeq(buf', 1, n)
                \/ n = BUFFER_SIZE /\ s = Append(buf', JUNK)
             /\ \A j \in 1..n : buf'[j] # NUL
             /\ n < BUFFER_SIZE => buf'[n + 1] = NUL
  BY <1>1, <1>2, CStringIs
<1>4. buf' \in Seq(Cells) /\ Len(buf') = BUFFER_SIZE
  BY <1>2, ConstantTypes
<1>5. /\ s \in Seq(Cells \cup {JUNK}) /\ Len(s) >= n
      /\ \A j \in 1..n : s[j] = buf'[j]
      /\ \A j \in 1..Len(s) : j <= n \/ s[j] = JUNK
  <2>1. CASE s = SubSeq(buf', 1, n)
    BY <1>3, <1>4, <2>1, ConstantTypes
  <2>2. CASE n = BUFFER_SIZE /\ s = Append(buf', JUNK)
    BY <1>3, <1>4, <2>2, ConstantTypes
  <2>. QED
    BY <1>3, <2>1, <2>2
<1>6. ASSUME NEW k \in 1..BUFFER_SIZE, \A j \in 1..k : buf'[j] # NUL
      PROVE  k <= n
  BY <1>3, <1>6, ConstantTypes
<1>7. \A j \in 1..Len(s) : s[j] # NUL
  BY <1>3, <1>5 DEF NUL, JUNK
<1>8. ASSUME NEW j \in 1..Len(s)
      PROVE  s[j] = JUNK \/ (j <= BUFFER_SIZE /\ s[j] = buf'[j])
  BY <1>3, <1>5, ConstantTypes
<1>9. ASSUME NEW k \in 1..BUFFER_SIZE, \A j \in 1..k : buf'[j] # NUL
      PROVE  k <= Len(s) /\ s[k] = buf'[k]
  BY <1>3, <1>5, <1>6, <1>9, ConstantTypes
<1>. QED
  BY <1>1, <1>5, <1>7, <1>8, <1>9

LEMMA NextTypeInv == TypeInv /\ [Next]_vars => TypeInv'
<1> SUFFICES ASSUME TypeInv, [Next]_vars PROVE TypeInv'
  OBVIOUS
<1> USE ConstantTypes, ScriptType
<1>1. CASE WriteBody
  <2>1. CASE fed < body /\ alive /\ input < InCapacity /\ fed' = fed + 1
             /\ input' = input + 1 /\ UNCHANGED parent
    BY <1>1, <2>1 DEF WriteBody, scriptvars, TypeInv, TypeOK
  <2>2. CASE parent' = "status" /\ UNCHANGED <<fed, input>>
    BY <1>1, <2>2 DEF WriteBody, scriptvars, TypeInv, TypeOK
  <2>. QED
    BY <1>1, <2>1, <2>2 DEF WriteBody
<1>2. CASE SendStatus
  BY <1>2 DEF SendStatus, scriptvars, TypeInv, TypeOK
<1>3. CASE Relay
  <2>1. /\ script' = script /\ body' = body /\ next' = next /\ alive' = alive
        /\ written' = written /\ parent' = parent /\ fed' = fed /\ input' = input
        /\ parent = "relay"
    BY <1>3 DEF Relay, scriptvars
  <2>2. buf' \in [1..BUFFER_SIZE -> Cells] /\ output' \in Seq(Units)
    BY <1>3, RelayedBuffer
  <2>3. Len(output') <= Len(output)
    <3>1. PICK n \in 1..Len(output) : Len(output') = Len(output) - n
      BY <1>3, RelayedBuffer
    <3>2. Len(output) \in Nat
      BY DEF TypeInv, TypeOK
    <3>. QED
      BY <3>1, <3>2
  <2>4. sent' \in Seq({STATUS, JUNK} \cup 1..Len(script))
    <3>1. PICK s \in Seq(Cells \cup {JUNK}) :
             sent' = sent \o s /\ \A j \in 1..Len(s) : s[j] # NUL
      BY <1>3, RelayedText
    <3>2. \A j \in 1..Len(s) : s[j] \in {STATUS, JUNK} \cup 1..Len(script)
      BY <3>1 DEF Cells
    <3>3. s \in Seq({STATUS, JUNK} \cup 1..Len(script))
      BY <3>1, <3>2
    <3>4. sent \in Seq({STATUS, JUNK} \cup 1..Len(script))
      BY DEF TypeInv, TypeOK
    <3>. QED
      BY <3>1, <3>3, <3>4
  <2>5. Len(output') \in Nat /\ Len(output) \in Nat /\ written \in Nat /\ nuls' = nuls
    BY <1>3, <2>2 DEF TypeInv, TypeOK, Relay, scriptvars
  <2>6. pieces' \subseteq 1..written
    <3>1. pieces' = pieces \cup {Read + 1} /\ pieces \subseteq 1..written
      BY <1>3 DEF Relay, TypeInv, TypeOK
    <3>2. Len(output) > 0 /\ Len(output) <= written
      <4>1. output \in Seq(Units) /\ output # <<>>
        BY <1>3 DEF Relay, TypeInv, TypeOK, Units
      <4>. QED
        BY <4>1 DEF TypeInv
    <3>3. Read + 1 \in 1..written
      BY <2>5, <3>2 DEF Read
    <3>. QED
      BY <3>1, <3>3
  <2>. QED
    BY SMTT(30), <2>1, <2>2, <2>3, <2>4, <2>5, <2>6 DEF TypeInv, TypeOK, Cells, Units
<1>4. CASE Close
  BY <1>4 DEF Close, scriptvars, TypeInv, TypeOK
<1>5. CASE ScriptReads
  BY <1>5 DEF ScriptReads, Calling, ScriptUnchanged, TypeInv, TypeOK
<1>6. CASE ScriptWrites
  <2>1. /\ UNCHANGED <<script, body, parent, fed, buf, pieces, sent, alive, input>>
        /\ next <= Len(script) /\ next' = next + 1 /\ written' = written + 1
        /\ Len(output) < OutCapacity
    BY <1>6 DEF ScriptWrites, Calling, ScriptUnchanged
  <2>2. output \in Seq(Units) /\ written \in Nat /\ Len(script) \in Nat
        /\ next \in Nat /\ written < next /\ Len(output) <= written
        /\ nuls \subseteq 1..written /\ pieces \subseteq 1..written
    BY DEF TypeInv, TypeOK, Units
  <2>3. PICK u \in Units : output' = Append(output, u)
    BY <1>6, <2>1, <2>2 DEF ScriptWrites, Units
  <2>4. output' \in Seq(Units) /\ Len(output') = Len(output) + 1 /\ Len(output) \in Nat
    BY <2>2, <2>3
  <2>5. nuls' \subseteq 1..written'
    <3>1. nuls' = nuls \/ nuls' = nuls \cup {written + 1}
      BY <1>6 DEF ScriptWrites
    <3>2. nuls \subseteq 1..(written + 1) /\ written + 1 \in 1..(written + 1)
      BY <2>2
    <3>3. written' = written + 1
      BY <2>1
    <3>. QED
      BY <3>1, <3>2, <3>3
  <2>6. pieces' \subseteq 1..written'
    BY <2>1, <2>2
  <2>7. written' \in 0..Len(script') /\ next' \in 1..(Len(script') + 1)
        /\ written' < next' /\ Len(output') <= written' /\ Len(output') <= OutCapacity
    BY <2>1, <2>2, <2>4
  <2>8. output' \in Seq({NUL} \cup 1..Len(script'))
    BY <2>1, <2>4 DEF Units
  <2>. QED
    BY <2>1, <2>5, <2>6, <2>7, <2>8 DEF TypeInv, TypeOK
<1>7. CASE ScriptExits
  BY <1>7 DEF ScriptExits, ScriptUnchanged, TypeInv, TypeOK
<1>8. CASE UNCHANGED vars
  BY <1>8 DEF vars, TypeInv, TypeOK
<1>. QED
  BY <1>1, <1>2, <1>3, <1>4, <1>5, <1>6, <1>7, <1>8 DEF Next, Parent, Script

\* Every variable of execute_cgi keeps its type, and the pipes their capacity,
\* for any script, body and buffer.
THEOREM TypeCorrect == Spec => []TypeOK
<1>1. Spec => []TypeInv
  BY InitTypeInv, NextTypeInv, PTL DEF Spec
<1>2. TypeInv => TypeOK
  BY DEF TypeInv
<1>. QED
  BY <1>1, <1>2, PTL

-----------------------------------------------------------------------------
(* execute_cgi and its script keep to ScriptRun. *)

LEMMA InitRun == Init => Run!Init
BY DEF Init, Run!Init

LEMMA NextRun == TypeInv /\ [Next]_vars => [Run!Next]_(Run!vars)
<1> SUFFICES ASSUME TypeInv, [Next]_vars PROVE [Run!Next]_(Run!vars)
  OBVIOUS
<1> USE DEF TypeInv, TypeOK, Run!vars, scriptvars
<1>1. CASE WriteBody
  BY <1>1 DEF WriteBody
<1>2. CASE SendStatus
  BY <1>2 DEF SendStatus, Run!Next, Run!Fed
<1>3. CASE Relay
  BY <1>3 DEF Relay
<1>4. CASE Close
  BY <1>4 DEF Close, Run!Next, Run!Return
<1>5. CASE ScriptReads
  BY <1>5 DEF ScriptReads, ScriptUnchanged
<1>6. CASE ScriptWrites
  BY <1>6 DEF ScriptWrites, ScriptUnchanged
<1>7. CASE ScriptExits
  BY <1>7 DEF ScriptExits, ScriptUnchanged, Run!Next, Run!Exit
<1>8. CASE UNCHANGED vars
  BY <1>8 DEF vars
<1>. QED
  BY <1>1, <1>2, <1>3, <1>4, <1>5, <1>6, <1>7, <1>8 DEF Next, Parent, Script

\* Whatever the script does with its pipes, the parent relays until it is gone
\* and only then returns: the contract Server's execute_cgi implements too.
THEOREM ExecuteCgiImplementsScriptRun == Spec => RunSpec
<1>1. Spec => []TypeInv
  BY InitTypeInv, NextTypeInv, PTL DEF Spec
<1>. QED
  BY <1>1, InitRun, NextRun, PTL DEF Spec, RunSpec, Run!Spec

-----------------------------------------------------------------------------
(* Of the output that the parent has read, only what a NUL hides is lost.  *)

\* The pipe holds the units written and not read, in order; neither the buffer
\* nor the client has seen a later one, and no piece began with a later one.
LostInv ==
    /\ TypeInv
    /\ \A k \in 1..Len(output) :
          output[k] = IF Read + k \in nuls THEN NUL ELSE Read + k
    /\ \A j \in 1..BUFFER_SIZE : buf[j] <= Read
    /\ \A j \in 1..Len(sent) : sent[j] <= Read
    /\ pieces \subseteq 1..Read
    /\ NothingLost

\* The first occurrence is where it was found.
LEMMA FirstUnique ==
    ASSUME NEW s, Len(s) \in Nat, NEW u, NEW k \in 1..Len(s), s[k] = u,
           \A j \in 1..(k - 1) : s[j] # u
    PROVE  First(s, u) = k
<1>1. CASE First(s, u) = 0 /\ \A j \in 1..Len(s) : s[j] # u
  BY <1>1
<1>2. CASE /\ First(s, u) \in 1..Len(s) /\ s[First(s, u)] = u
           /\ \A j \in 1..(First(s, u) - 1) : s[j] # u
  <2>1. ~(First(s, u) < k)
    BY <1>2
  <2>2. ~(k < First(s, u))
    BY <1>2
  <2>. QED
    BY <1>2, <2>1, <2>2
<1>. QED
  BY <1>1, <1>2, FirstIs

\* What is appended does not move what was there.
LEMMA FirstStays ==
    ASSUME NEW S, NEW s \in Seq(S), NEW t \in Seq(S), NEW u, First(s, u) > 0
    PROVE  First(s \o t, u) = First(s, u)
<1> DEFINE k == First(s, u)
<1>1. /\ k \in 1..Len(s) /\ s[k] = u
      /\ \A j \in 1..(k - 1) : s[j] # u
  BY FirstIs
<1> HIDE DEF k
<1>2. /\ s \o t \in Seq(S) /\ Len(s \o t) \in Nat /\ Len(s \o t) >= Len(s)
      /\ \A j \in 1..Len(s) : (s \o t)[j] = s[j]
  OBVIOUS
<1>3. k \in 1..Len(s \o t) /\ (s \o t)[k] = u
      /\ \A j \in 1..(k - 1) : (s \o t)[j] # u
  BY <1>1, <1>2
<1>4. First(s \o t, u) = k
  BY <1>2, <1>3, FirstUnique
<1>. QED
  BY <1>4 DEF k

LEMMA InitLostInv == Init => LostInv
BY InitTypeInv, ConstantTypes DEF Init, LostInv, NothingLost, Read, NUL

\* What is read later hides nothing that was read before.
LEMMA HiddenStays ==
    ASSUME LostInv, nuls' = nuls, pieces' = pieces \cup {Read + 1}, NEW u \in 1..Read
    PROVE  Hidden(u)' <=> Hidden(u)
<1>1. Read \in Nat /\ nuls \subseteq Nat /\ u \in Nat
  BY DEF LostInv, TypeInv, TypeOK, Read
<1>2. \A n \in nuls : pieces' \cap ((n + 1)..u) = pieces \cap ((n + 1)..u)
  BY <1>1
<1>. QED
  BY <1>2 DEF Hidden

\* A unit of a new piece that is not hidden has no NUL before it in the piece.
LEMMA NotHidden ==
    ASSUME LostInv, nuls' = nuls, pieces' = pieces \cup {Read + 1},
           NEW k \in Nat \ {0}, NEW u, u = Read + k, ~Hidden(u)'
    PROVE  \A i \in 1..k : Read + i \notin nuls
<1>1. Read \in Nat /\ pieces \subseteq 1..Read
  BY DEF LostInv, TypeInv, TypeOK, Read
<1>2. ASSUME NEW i \in 1..k, Read + i \in nuls PROVE FALSE
  <2>1. PICK m \in nuls : m = Read + i
    BY <1>2
  <2>2. pieces' \cap ((m + 1)..u) = {} /\ m <= u
    BY <1>1, <2>1
  <2>. QED
    BY <2>1, <2>2 DEF Hidden
<1>. QED
  BY <1>2

\* A relay step sends the units it reads that no NUL hides, each for the first
\* time.
LEMMA RelayLostInv ==
    ASSUME LostInv, Relay, TypeInv'
    PROVE  LostInv'
<1> DEFINE n == IF Len(output) < BUFFER_SIZE THEN Len(output) ELSE BUFFER_SIZE
           T == Cells \cup {JUNK}
<1>1. /\ n \in 1..Len(output) /\ n <= BUFFER_SIZE
      /\ buf' \in [1..BUFFER_SIZE -> Cells]
      /\ \A j \in 1..BUFFER_SIZE : buf'[j] = IF j <= n THEN output[j] ELSE buf[j]
      /\ Len(output') = Len(output) - n
      /\ \A j \in 1..Len(output') : output'[j] = output[n + j]
  BY RelayedBuffer DEF LostInv
<1> HIDE DEF n
<1>2. /\ Len(output) \in Nat /\ written \in Nat /\ Read \in Nat
      /\ sent \in Seq(T) /\ Len(sent) \in Nat
      /\ \A j \in 1..BUFFER_SIZE : buf[j] \in Int
      /\ \A j \in 1..Len(sent) : sent[j] \in Int
      /\ BUFFER_SIZE \in Nat
  <2>1. output \in Seq(Units) /\ written \in 0..Len(script) /\ Len(output) <= written
        /\ sent \in Seq({STATUS, JUNK} \cup 1..Len(script))
        /\ buf \in [1..BUFFER_SIZE -> Cells] /\ Len(script) \in Nat
    BY ScriptType DEF LostInv, TypeInv, TypeOK, Cells, Units
  <2>3. Len(output) \in Nat /\ written \in Nat /\ Read \in Nat
    BY <2>1 DEF Read
  <2>4. sent \in Seq(T)
    BY <2>1 DEF Cells
  <2>5. Len(sent) \in Nat /\ \A j \in 1..Len(sent) : sent[j] \in Int
    BY <2>1 DEF STATUS, JUNK
  <2>6. \A j \in 1..BUFFER_SIZE : buf[j] \in Int
    BY <2>1 DEF Cells, NUL, STATUS
  <2>. QED
    BY <2>3, <2>4, <2>5, <2>6, ConstantTypes
<1>3. Read' = Read + n
  <2>1. written' = written
    BY DEF Relay, scriptvars
  <2>. QED
    BY <1>1, <1>2, <2>1 DEF Read
<1>4. PICK s \in Seq(T) :
         /\ sent' = sent \o s
         /\ \A j \in 1..Len(s) : s[j] = JUNK \/ (j <= BUFFER_SIZE /\ s[j] = buf'[j])
         /\ \A k \in 1..BUFFER_SIZE :
               (\A j \in 1..k : buf'[j] # NUL) => k <= Len(s) /\ s[k] = buf'[k]
  BY RelayedText DEF LostInv
<1>5. \A j \in 1..n : buf'[j] = IF Read + j \in nuls THEN NUL ELSE Read + j
  <2>. TAKE j \in 1..n
  <2>1. j \in 1..Len(output) /\ j \in 1..BUFFER_SIZE /\ j <= n
    BY <1>1, <1>2
  <2>. QED
    BY <1>1, <2>1 DEF LostInv
<1>6. ASSUME NEW k \in 1..n, \A i \in 1..k : Read + i \notin nuls
      PROVE  k <= Len(s) /\ \A i \in 1..k : s[i] = Read + i
  <2>0. n \in Nat /\ k \in Nat
    BY <1>1, <1>2
  <2>1. ASSUME NEW i \in 1..k PROVE i <= Len(s) /\ s[i] = Read + i
    <3>1. \A j \in 1..i : j \in 1..n /\ j \in 1..k
      BY <2>0
    <3>2. \A j \in 1..i : buf'[j] = Read + j
      BY <1>5, <1>6, <3>1
    <3>3. \A j \in 1..i : buf'[j] # NUL
      BY <1>2, <3>2 DEF NUL
    <3>4. i \in 1..BUFFER_SIZE /\ i \in 1..i
      BY <1>1, <1>2, <2>0
    <3>. QED
      BY <1>4, <3>2, <3>3, <3>4
  <2>2. k \in 1..k
    BY <2>0
  <2>. QED
    BY <2>1, <2>2
<1>7. \A j \in 1..BUFFER_SIZE : buf'[j] <= Read'
  <2>. TAKE j \in 1..BUFFER_SIZE
  <2>1. CASE j <= n
    <3>1. buf'[j] = NUL \/ buf'[j] = Read + j
      BY <1>1, <1>2, <1>5, <2>1
    <3>. QED
      BY <1>1, <1>2, <1>3, <2>1, <3>1 DEF NUL
  <2>2. CASE ~(j <= n)
    <3>1. buf'[j] = buf[j] /\ buf[j] <= Read
      BY <1>1, <2>2 DEF LostInv
    <3>. QED
      BY <1>1, <1>2, <1>3, <3>1
  <2>. QED
    BY <2>1, <2>2
<1>8. /\ Len(sent') = Len(sent) + Len(s)
      /\ \A j \in 1..Len(sent) : sent'[j] = sent[j]
      /\ \A j \in 1..Len(s) : sent'[Len(sent) + j] = s[j]
      /\ Len(s) \in Nat
  BY <1>2, <1>4
<1>9. \A j \in 1..Len(sent') : sent'[j] <= Read'
  <2>. TAKE j \in 1..Len(sent')
  <2>1. CASE j <= Len(sent)
    <3>1. j \in 1..Len(sent)
      BY <1>2, <1>8, <2>1
    <3>2. sent'[j] = sent[j] /\ sent[j] <= Read
      BY <1>8, <3>1 DEF LostInv
    <3>. QED
      BY <1>1, <1>2, <1>3, <3>1, <3>2
  <2>2. CASE ~(j <= Len(sent))
    <3>1. j - Len(sent) \in 1..Len(s) /\ sent'[j] = s[j - Len(sent)]
      <4>1. j - Len(sent) \in 1..Len(s)
        BY <1>2, <1>8, <2>2
      <4>. QED
        BY <1>2, <1>8, <4>1
    <3>2. CASE sent'[j] = JUNK
      BY <1>1, <1>2, <1>3, <3>2 DEF JUNK
    <3>3. CASE /\ j - Len(sent) <= BUFFER_SIZE
               /\ s[j - Len(sent)] = buf'[j - Len(sent)]
      <4>1. j - Len(sent) \in 1..BUFFER_SIZE
        BY <1>2, <1>8, <3>1, <3>3
      <4>. QED
        BY <1>7, <3>1, <3>3, <4>1
    <3>. QED
      BY <1>4, <3>1, <3>2, <3>3
  <2>. QED
    BY <2>1, <2>2
<1>10. nuls' = nuls /\ pieces' = pieces \cup {Read + 1}
  BY DEF Relay, scriptvars
<1>11. ASSUME NEW u \in 1..Read, ~Hidden(u)'
       PROVE  First(sent', u) = First(sent, u) /\ First(sent, u) \in 1..Len(sent)
  <2>1. First(sent, u) > 0
    BY <1>10, <1>11, HiddenStays DEF LostInv, NothingLost
  <2>2. First(sent, u) \in 1..Len(sent)
    BY <1>2, <2>1, FirstIs
  <2>. QED
    BY <1>2, <1>4, <2>1, <2>2, FirstStays
<1>12. ASSUME NEW u, NEW k \in 1..n, u = Read + k, ~Hidden(u)'
       PROVE  First(sent', u) = Len(sent) + k
  <2>0. k <= Len(s) /\ (\A i \in 1..k : s[i] = Read + i) /\ k \in Nat \ {0}
    <3>1. k \in Nat \ {0}
      BY <1>1, <1>2
    <3>2. \A i \in 1..k : Read + i \notin nuls
      BY <1>10, <1>12, <3>1, NotHidden
    <3>. QED
      BY <1>6, <3>1, <3>2
  <2>1. Len(sent) + k \in 1..Len(sent') /\ sent'[Len(sent) + k] = u
        /\ Len(sent') \in Nat
    BY <1>2, <1>8, <1>12, <2>0
  <2>2. ASSUME NEW j \in 1..(Len(sent) + k - 1) PROVE sent'[j] # u
    <3>1. CASE j <= Len(sent)
      <4>1. j \in 1..Len(sent) /\ u > Read
        BY <1>2, <1>12, <2>0, <3>1
      <4>2. sent'[j] = sent[j] /\ sent[j] <= Read
        BY <1>8, <4>1 DEF LostInv
      <4>. QED
        BY <1>2, <4>1, <4>2
    <3>2. CASE ~(j <= Len(sent))
      <4>1. j - Len(sent) \in 1..k /\ j - Len(sent) # k
        BY <1>2, <2>0, <3>2
      <4>2. sent'[j] = s[j - Len(sent)]
        <5>1. j - Len(sent) \in 1..Len(s) /\ Len(sent) + (j - Len(sent)) = j
          BY <1>2, <1>8, <2>0, <4>1
        <5>. QED
          BY <1>8, <5>1
      <4>3. s[j - Len(sent)] = Read + (j - Len(sent))
        BY <2>0, <4>1
      <4>. QED
        BY <1>2, <1>12, <2>0, <4>1, <4>2, <4>3
    <3>. QED
      BY <3>1, <3>2
  <2>. QED
    BY <2>1, <2>2, FirstUnique
<1>14. ASSUME NEW u \in 1..Read'
       PROVE  u \in 1..Read \/ (u - Read \in 1..n /\ Read + (u - Read) = u)
  BY <1>1, <1>2, <1>3
<1>15. NothingLost'
  <2>1. ASSUME NEW u \in 1..Read' PROVE Hidden(u)' \/ First(sent', u) > 0
    <3> SUFFICES ASSUME ~Hidden(u)' PROVE First(sent', u) > 0
      OBVIOUS
    <3>1. CASE u \in 1..Read
      BY <1>2, <1>11, <3>1
    <3>2. CASE u - Read \in 1..n /\ Read + (u - Read) = u
      <4>1. First(sent', u) = Len(sent) + (u - Read)
        BY <1>12, <3>2
      <4>. QED
        BY <1>2, <3>2, <4>1
    <3>. QED
      BY <1>14, <3>1, <3>2
  <2>2. ASSUME NEW u \in 1..Read', NEW v \in 1..Read', u < v, ~Hidden(u)', ~Hidden(v)'
        PROVE  First(sent', u) < First(sent', v)
    <3>1. CASE v \in 1..Read
      <4>1. u \in 1..Read
        BY <1>2, <2>2, <3>1
      <4>2. ~Hidden(u) /\ ~Hidden(v)
        BY <1>10, <2>2, <3>1, <4>1, HiddenStays
      <4>3. First(sent, u) < First(sent, v)
        BY <2>2, <3>1, <4>1, <4>2 DEF LostInv, NothingLost
      <4>4. First(sent', u) = First(sent, u)
        BY <1>11, <2>2, <4>1
      <4>5. First(sent', v) = First(sent, v)
        BY <1>11, <2>2, <3>1
      <4>. QED
        BY <4>3, <4>4, <4>5
    <3>2. CASE v - Read \in 1..n /\ Read + (v - Read) = v
      <4>1. First(sent', v) = Len(sent) + (v - Read)
        BY <1>12, <2>2, <3>2
      <4>2. CASE u \in 1..Read
        <5>1. First(sent', u) \in 1..Len(sent)
          BY <1>11, <2>2, <4>2
        <5>. QED
          BY <1>2, <3>2, <4>1, <5>1
      <4>3. CASE u - Read \in 1..n /\ Read + (u - Read) = u
        <5>1. First(sent', u) = Len(sent) + (u - Read)
          BY <1>12, <2>2, <4>3
        <5>. QED
          BY <1>2, <2>2, <4>1, <5>1
      <4>. QED
        BY <1>14, <4>2, <4>3
    <3>. QED
      BY <1>14, <3>1, <3>2
  <2>. QED
    BY <2>1, <2>2 DEF NothingLost
<1>16. \A k \in 1..Len(output') :
          output'[k] = IF Read' + k \in nuls' THEN NUL ELSE Read' + k
  <2>. TAKE k \in 1..Len(output')
  <2>1. n + k \in 1..Len(output) /\ output'[k] = output[n + k]
    BY <1>1, <1>2
  <2>2. Read' + k = Read + (n + k)
    BY <1>1, <1>2, <1>3
  <2>. QED
    BY <1>10, <2>1, <2>2 DEF LostInv
<1>17. pieces' \subseteq 1..Read'
  BY <1>1, <1>2, <1>3, <1>10 DEF LostInv
<1>. QED
  BY <1>7, <1>9, <1>15, <1>16, <1>17 DEF LostInv

LEMMA NextLostInv == LostInv /\ [Next]_vars => LostInv'
<1> SUFFICES ASSUME LostInv, [Next]_vars PROVE LostInv'
  OBVIOUS
<1>1. TypeInv'
  BY NextTypeInv DEF LostInv
<1>2. CASE Relay
  BY <1>1, <1>2, RelayLostInv
<1>3. CASE SendStatus
  <2>1. UNCHANGED <<output, written, nuls, pieces, sent>>
    BY <1>3 DEF SendStatus, scriptvars
  <2>2. \A j \in 1..BUFFER_SIZE : buf'[j] <= 0
    BY <1>3 DEF SendStatus, NUL, STATUS
  <2>3. Read' = Read /\ Read \in Int /\ \A j \in 1..BUFFER_SIZE : buf'[j] \in Int
    BY <1>1, <1>3, <2>1 DEF Read, LostInv, TypeInv, TypeOK, SendStatus, NUL, STATUS
  <2>4. NothingLost'
    BY <2>1, <2>3 DEF LostInv, NothingLost, Hidden
  <2>5. Read >= 0
    BY DEF LostInv, TypeInv, TypeOK, Read
  <2>. QED
    BY <1>1, <2>1, <2>2, <2>3, <2>4, <2>5 DEF LostInv
<1>4. CASE ScriptWrites
  <2>1. /\ UNCHANGED <<buf, pieces, sent>> /\ written' = written + 1
        /\ \/ output' = Append(output, written + 1) /\ nuls' = nuls
           \/ output' = Append(output, NUL) /\ nuls' = nuls \cup {written + 1}
    BY <1>4 DEF ScriptWrites, ScriptUnchanged
  <2>2. /\ output \in Seq(Units) /\ written \in Nat /\ Len(output) \in Nat
        /\ Len(output) <= written /\ nuls \subseteq 1..written
    BY DEF LostInv, TypeInv, TypeOK, Units
  <2>3. PICK u : output' = Append(output, u) /\ u = IF written + 1 \in nuls' THEN NUL ELSE written + 1
    BY <2>1, <2>2
  <2>4. /\ Len(output') = Len(output) + 1
        /\ \A k \in 1..Len(output) : output'[k] = output[k]
        /\ output'[Len(output) + 1] = u
    BY <2>2, <2>3
  <2>5. Read' = Read /\ Read + Len(output) = written /\ Read \in Nat
    <3>1. Len(output') = Len(output) + 1 /\ written' = written + 1
      BY <2>1, <2>4
    <3>. QED
      BY <2>2, <3>1 DEF Read
  <2>6. \A v \in 1..written : v \in nuls' <=> v \in nuls
    BY <2>1, <2>2
  <2>7. \A k \in 1..Len(output') :
           output'[k] = IF Read' + k \in nuls' THEN NUL ELSE Read' + k
    <3>. TAKE k \in 1..Len(output')
    <3>1. CASE k \in 1..Len(output)
      <4>1. Read + k \in 1..written
        BY <2>2, <2>5, <3>1
      <4>. QED
        BY <2>4, <2>5, <2>6, <3>1, <4>1 DEF LostInv
    <3>2. CASE k = Len(output) + 1
      <4>1. Read' + k = written + 1
        BY <2>2, <2>5, <3>2
      <4>. QED
        BY <2>3, <2>4, <3>2, <4>1
    <3>. QED
      BY <2>2, <2>4, <3>1, <3>2
  <2>8. \A v \in 1..Read : Hidden(v)' <=> Hidden(v)
    <3>. TAKE v \in 1..Read
    <3>1. \A n \in Int : n <= v => n <= written
      BY <2>2, <2>5
    <3>2. \A n : (n \in nuls' /\ n <= v) <=> (n \in nuls /\ n <= v)
      BY <2>1, <2>2, <2>5
    <3>3. pieces' = pieces
      BY <2>1
    <3>. QED
      BY <3>2, <3>3 DEF Hidden
  <2>9. NothingLost'
    BY <2>1, <2>5, <2>8 DEF LostInv, NothingLost
  <2>. QED
    BY <1>1, <2>1, <2>5, <2>7, <2>9 DEF LostInv
<1>5. CASE UNCHANGED <<buf, sent, output, written, nuls, pieces>>
  BY <1>1, <1>5 DEF LostInv, NothingLost, Read, Hidden
<1>6. WriteBody \/ Close \/ ScriptReads \/ ScriptExits \/ UNCHANGED vars
      => UNCHANGED <<buf, sent, output, written, nuls, pieces>>
  BY DEF WriteBody, Close, ScriptReads, ScriptExits, ScriptUnchanged, scriptvars, vars
<1>. QED
  BY <1>2, <1>3, <1>4, <1>5, <1>6 DEF Next, Parent, Script

\* Of the output that the parent has read, whatever the script and the sizes of
\* the pipes and of the buffer, only a NUL and what one read() returned behind it
\* is lost: all else was sent, in order, although the buffer is never terminated
\* and old text goes out with the new.
THEOREM OutputReachesClient == Spec => []NothingLost
<1>1. Spec => []LostInv
  BY InitLostInv, NextLostInv, PTL DEF Spec
<1>2. LostInv => NothingLost
  BY DEF LostInv
<1>. QED
  BY <1>1, <1>2, PTL

-----------------------------------------------------------------------------
(* The calls of a script, counted.                                         *)

\* The first i calls of a script are finitely many.
LEMMA CallsFinite ==
    ASSUME NEW s, NEW i \in Nat, NEW call
    PROVE  /\ IsFiniteSet({j \in 1..i : s[j] = call})
           /\ CallsUpTo(s, i, call) \in Nat
<1>1. IsFiniteSet(1..i)
  BY FS_Interval
<1>2. IsFiniteSet({j \in 1..i : s[j] = call})
  BY <1>1, FS_Subset
<1>. QED
  BY <1>2, FS_CardinalityType DEF CallsUpTo

LEMMA CallsAtFirst ==
    ASSUME NEW s, NEW call
    PROVE  CallsUpTo(s, 0, call) = 0
<1>1. {j \in 1..0 : s[j] = call} = {}
  OBVIOUS
<1>. QED
  BY <1>1, FS_EmptySet DEF CallsUpTo

\* One call more counts if it is the one that is counted.
LEMMA CallsOneMore ==
    ASSUME NEW s, NEW i \in Nat, NEW call
    PROVE  CallsUpTo(s, i + 1, call)
              = CallsUpTo(s, i, call) + (IF s[i + 1] = call THEN 1 ELSE 0)
<1> DEFINE C(k) == {j \in 1..k : s[j] = call}
<1>1. IsFiniteSet(C(i)) /\ Cardinality(C(i)) \in Nat
  BY CallsFinite DEF CallsUpTo
<1>2. CASE s[i + 1] = call
  <2>1. C(i + 1) = C(i) \cup {i + 1} /\ i + 1 \notin C(i)
    BY <1>2
  <2>. QED
    BY <1>1, <1>2, <2>1, FS_AddElement DEF CallsUpTo
<1>3. CASE s[i + 1] # call
  <2>1. C(i + 1) = C(i)
    BY <1>3
  <2>. QED
    BY <1>1, <1>3, <2>1 DEF CallsUpTo
<1>. QED
  BY <1>2, <1>3

\* The more calls, the more of each.
LEMMA CallsGrow ==
    ASSUME NEW s, NEW i \in Nat, NEW j \in Nat, i <= j, NEW call
    PROVE  CallsUpTo(s, i, call) <= CallsUpTo(s, j, call)
<1>1. {k \in 1..i : s[k] = call} \subseteq {k \in 1..j : s[k] = call}
  OBVIOUS
<1>2. IsFiniteSet({k \in 1..j : s[k] = call})
  BY CallsFinite
<1>. QED
  BY <1>1, <1>2, FS_Subset DEF CallsUpTo

\* A call that is not among the first i was made none of these times.
LEMMA NoSuchCall ==
    ASSUME NEW s, NEW i \in Nat, NEW call
    PROVE  CallsUpTo(s, i, call) = 0 <=> \A j \in 1..i : s[j] # call
<1>1. {j \in 1..i : s[j] = call} = {} <=> \A j \in 1..i : s[j] # call
  OBVIOUS
<1>. QED
  BY <1>1, CallsFinite, FS_EmptySet DEF CallsUpTo

-----------------------------------------------------------------------------
(* Which scripts execute_cgi returns for.                                  *)

Reads(i) == CallsUpTo(script, i, "read")
Writes(i) == CallsUpTo(script, i, "write")

\* The calls that were made account for what is in the pipes: as many units as
\* calls, except that a script that reads to the end of its input stays there.
\* A script that wrote more than its pipe holds did so while the parent was
\* relaying, hence had the whole body behind it or in the other pipe.
CallsInv ==
    /\ TypeInv
    /\ written = Writes(next - 1)
    /\ \A j \in 1..(next - 1) : script[j] # "read_to_eof"
    /\ input <= fed - Reads(next - 1)
    /\ (next <= Len(script) => script[next] # "read_to_eof") => input = fed - Reads(next - 1)
    /\ ~alive => next = Len(script) + 1
    /\ parent \in {"body", "status"} => Len(output) = written
    /\ alive /\ parent \in {"status", "relay"} => fed = body
    /\ \A i \in 1..(next - 1) : Writes(i) > OutCapacity => body - Reads(i) <= InCapacity

LEMMA InitCallsInv == Init => CallsInv
<1>1. Init => Writes(next - 1) = 0 /\ Reads(next - 1) = 0
  BY CallsAtFirst DEF Init, Writes, Reads
<1>2. Init => next = 1 /\ Len(script) \in Nat
  BY ScriptType DEF Init
<1>. QED
  BY InitTypeInv, ConstantTypes, <1>1, <1>2 DEF Init, CallsInv

\* Reads and Writes with one call more.
LEMMA ReadsAndWrites ==
    ASSUME NEW i \in Nat
    PROVE  /\ Reads(i) \in Nat /\ Writes(i) \in Nat
           /\ Reads(i + 1) = Reads(i) + (IF script[i + 1] = "read" THEN 1 ELSE 0)
           /\ Writes(i + 1) = Writes(i) + (IF script[i + 1] = "write" THEN 1 ELSE 0)
BY CallsFinite, CallsOneMore DEF Reads, Writes

\* What CallsInv says about numbers.
LEMMA CallsTypes ==
    ASSUME CallsInv
    PROVE  /\ body \in Nat /\ fed \in Nat /\ input \in Nat /\ written \in Nat /\ next \in Nat
           /\ Len(script) \in Nat /\ Len(output) \in Nat
           /\ OutCapacity \in Nat \ {0} /\ InCapacity \in Nat \ {0}
           /\ next - 1 \in Nat /\ next \in 1..(Len(script) + 1)
           /\ fed <= body /\ input <= InCapacity /\ Len(output) <= OutCapacity
           /\ alive \in BOOLEAN
           /\ Reads(next - 1) \in Nat /\ Writes(next - 1) \in Nat
           /\ Reads(next) = Reads(next - 1) + (IF script[next] = "read" THEN 1 ELSE 0)
           /\ Writes(next) = Writes(next - 1) + (IF script[next] = "write" THEN 1 ELSE 0)
<1>1. /\ body \in Nat /\ fed \in Nat /\ input \in Nat /\ written \in Nat /\ next \in Nat
      /\ Len(script) \in Nat /\ Len(output) \in Nat
      /\ OutCapacity \in Nat \ {0} /\ InCapacity \in Nat \ {0}
      /\ next \in 1..(Len(script) + 1) /\ alive \in BOOLEAN
      /\ fed <= body /\ input <= InCapacity /\ Len(output) <= OutCapacity
  BY ConstantTypes, ScriptType DEF CallsInv, TypeInv, TypeOK
<1>2. next - 1 \in Nat /\ (next - 1) + 1 = next
  BY <1>1
<1>3. PICK i \in Nat : i = next - 1 /\ i + 1 = next
  BY <1>2
<1>4. /\ Reads(i) \in Nat /\ Writes(i) \in Nat
      /\ Reads(next) = Reads(i) + (IF script[next] = "read" THEN 1 ELSE 0)
      /\ Writes(next) = Writes(i) + (IF script[next] = "write" THEN 1 ELSE 0)
  BY <1>3, ReadsAndWrites
<1>. QED
  BY <1>1, <1>2, <1>3, <1>4

\* A step that makes no call of the script keeps the counts of its calls.
LEMMA CallsStay ==
    ASSUME CallsInv, TypeInv', UNCHANGED <<script, body, next, written>>,
           input' <= fed' - Reads(next - 1),
           (next <= Len(script) => script[next] # "read_to_eof")
              => input' = fed' - Reads(next - 1),
           ~alive' => next = Len(script) + 1,
           parent' \in {"body", "status"} => Len(output') = written,
           alive' /\ parent' \in {"status", "relay"} => fed' = body
    PROVE  CallsInv'
<1>1. \A i : (Reads(i))' = Reads(i) /\ (Writes(i))' = Writes(i)
  BY DEF Reads, Writes
<1>2. /\ written = Writes(next - 1)
      /\ \A j \in 1..(next - 1) : script[j] # "read_to_eof"
      /\ \A i \in 1..(next - 1) : Writes(i) > OutCapacity => body - Reads(i) <= InCapacity
  BY DEF CallsInv
<1>. QED
  BY <1>1, <1>2 DEF CallsInv

\* A call of the script that returns.
LEMMA CallMade ==
    ASSUME CallsInv, TypeInv', UNCHANGED <<script, body, parent, fed>>,
           next <= Len(script), script[next] # "read_to_eof", alive,
           next' = next + 1, alive' = alive,
           input' = fed - Reads(next),
           written' = Writes(next),
           parent \in {"body", "status"} => Len(output') = written',
           Writes(next) > OutCapacity => body - Reads(next) <= InCapacity
    PROVE  CallsInv'
<1>1. \A i : (Reads(i))' = Reads(i) /\ (Writes(i))' = Writes(i)
  BY DEF Reads, Writes
<1>2. next' - 1 = next /\ next \in 1..Len(script) /\ next - 1 \in Nat
  BY SMTT(30), CallsTypes
<1>3. \A j \in 1..next : script[j] # "read_to_eof"
  <2>. TAKE j \in 1..next
  <2>1. j \in 1..(next - 1) \/ j = next
    BY <1>2
  <2>. QED
    BY <2>1 DEF CallsInv
<1>4. \A i \in 1..next : Writes(i) > OutCapacity => body - Reads(i) <= InCapacity
  <2>. TAKE i \in 1..next
  <2>1. i \in 1..(next - 1) \/ i = next
    BY <1>2
  <2>. QED
    BY <2>1 DEF CallsInv
<1>5. alive /\ parent \in {"status", "relay"} => fed = body
  BY DEF CallsInv
<1>6. (Reads(next - 1))' = Reads(next) /\ (Writes(next - 1))' = Writes(next)
  BY <1>2 DEF Reads, Writes
<1>7. input' <= fed - Reads(next) /\ fed' = fed
  BY CallsTypes
<1>8. ~alive' => next' = Len(script') + 1
  OBVIOUS
<1>. QED
  BY <1>1, <1>2, <1>3, <1>4, <1>5, <1>6, <1>7, <1>8 DEF CallsInv

LEMMA NextCallsInv == CallsInv /\ [Next]_vars => CallsInv'
<1> SUFFICES ASSUME CallsInv, [Next]_vars PROVE CallsInv'
  OBVIOUS
<1>0. /\ body \in Nat /\ fed \in Nat /\ input \in Nat /\ written \in Nat /\ next \in Nat
      /\ Len(script) \in Nat /\ Len(output) \in Nat
      /\ OutCapacity \in Nat \ {0} /\ InCapacity \in Nat \ {0}
      /\ next - 1 \in Nat /\ next \in 1..(Len(script) + 1)
      /\ fed <= body /\ input <= InCapacity /\ Len(output) <= OutCapacity
      /\ Reads(next - 1) \in Nat /\ Writes(next - 1) \in Nat
      /\ Reads(next) = Reads(next - 1) + (IF script[next] = "read" THEN 1 ELSE 0)
      /\ Writes(next) = Writes(next - 1) + (IF script[next] = "write" THEN 1 ELSE 0)
  BY CallsTypes
<1>1. TypeInv'
  BY NextTypeInv DEF CallsInv
<1>2. /\ written = Writes(next - 1)
      /\ \A j \in 1..(next - 1) : script[j] # "read_to_eof"
      /\ input <= fed - Reads(next - 1)
      /\ (next <= Len(script) => script[next] # "read_to_eof") => input = fed - Reads(next - 1)
      /\ ~alive => next = Len(script) + 1
      /\ parent \in {"body", "status"} => Len(output) = written
      /\ alive /\ parent \in {"status", "relay"} => fed = body
  BY DEF CallsInv
<1>3. CASE WriteBody
  <2>1. UNCHANGED <<script, body, next, written, alive, output>> /\ parent = "body"
    BY <1>3 DEF WriteBody, scriptvars
  <2>2. CASE alive /\ fed' = fed + 1 /\ input' = input + 1 /\ UNCHANGED parent
    BY SMTT(30), <1>1, <1>2, <2>1, <2>2, <1>0, CallsStay
  <2>3. CASE (fed = body \/ ~alive) /\ parent' = "status" /\ UNCHANGED <<fed, input>>
    BY <1>1, <1>2, <2>1, <2>3, CallsStay
  <2>. QED
    BY <1>3, <2>2, <2>3 DEF WriteBody
<1>4. CASE SendStatus
  BY <1>1, <1>2, <1>4, CallsStay DEF SendStatus, scriptvars
<1>5. CASE Relay
  BY <1>1, <1>2, <1>5, CallsStay DEF Relay, scriptvars
<1>6. CASE Close
  BY <1>1, <1>2, <1>6, CallsStay DEF Close, scriptvars
<1>7. CASE ScriptReads
  <2>1. /\ UNCHANGED <<script, body, parent, fed, alive, output, written>>
        /\ alive /\ next <= Len(script) /\ input' = input - 1
    BY <1>7 DEF ScriptReads, Calling, ScriptUnchanged
  <2>2. CASE script[next] = "read"
    <3>1. next' = next + 1
      BY <1>7, <2>1, <2>2 DEF ScriptReads, Calling
    <3>2. Reads(next) = Reads(next - 1) + 1 /\ Writes(next) = Writes(next - 1)
      BY <2>2, <1>0
    <3>3. input' = fed - Reads(next) /\ written' = Writes(next)
      BY SMTT(30), <1>2, <2>1, <2>2, <3>2, <1>0
    <3>4. Writes(next) > OutCapacity => body - Reads(next) <= InCapacity
      <4> SUFFICES ASSUME Writes(next) > OutCapacity
                   PROVE  body - Reads(next) <= InCapacity
        OBVIOUS
      <4>1. parent \in {"body", "status", "relay"}
        BY <2>1 DEF CallsInv, TypeInv, TypeOK
      <4>2. CASE parent = "body"
        BY <1>2, <3>2, <4>2, <1>0
      <4>3. CASE parent \in {"status", "relay"}
        BY SMTT(30), <1>2, <2>1, <2>2, <3>2, <4>3, <1>0
      <4>. QED
        BY <4>1, <4>2, <4>3
    <3>. QED
      BY <1>1, <1>2, <2>1, <2>2, <3>1, <3>3, <3>4, CallMade
  <2>3. CASE script[next] = "read_to_eof"
    <3>1. next' = next
      BY <1>7, <2>1, <2>3 DEF ScriptReads, Calling
    <3>2. input' <= fed - Reads(next - 1)
      BY <1>2, <2>1, <1>0
    <3>. QED
      BY <1>1, <1>2, <2>1, <2>3, <3>1, <3>2, CallsStay
  <2>. QED
    BY <1>7, <2>2, <2>3 DEF ScriptReads, Calling
<1>8. CASE ScriptWrites
  <2>1. /\ UNCHANGED <<script, body, parent, fed, alive, input>>
        /\ alive /\ next <= Len(script) /\ script[next] = "write"
        /\ written' = written + 1 /\ next' = next + 1
        /\ Len(output) < OutCapacity
        /\ output' = Append(output, written + 1) \/ output' = Append(output, NUL)
    BY <1>8 DEF ScriptWrites, Calling, ScriptUnchanged
  <2>2. Len(output') = Len(output) + 1
    <3>1. output \in Seq(Units)
      BY DEF CallsInv, TypeInv, TypeOK, Units
    <3>2. PICK u : output' = Append(output, u)
      BY <2>1
    <3>. QED
      BY <3>1, <3>2
  <2>3. Reads(next) = Reads(next - 1) /\ Writes(next) = Writes(next - 1) + 1
    BY <2>1, <1>0
  <2>4. input' = fed - Reads(next) /\ written' = Writes(next)
    BY <1>2, <2>1, <2>3, <1>0
  <2>5. parent \in {"body", "status"} => Len(output') = written'
    BY <1>2, <2>1, <2>2
  <2>6. Writes(next) > OutCapacity => body - Reads(next) <= InCapacity
    <3>1. parent \in {"body", "status", "relay"}
      BY <2>1 DEF CallsInv, TypeInv, TypeOK
    <3>2. CASE parent \in {"body", "status"}
      BY SMTT(30), <1>2, <2>1, <2>3, <2>4, <3>2, <1>0
    <3>3. CASE parent = "relay"
      BY <1>2, <2>1, <2>3, <2>4, <3>3, <1>0
    <3>. QED
      BY <3>1, <3>2, <3>3
  <2>. QED
    BY <1>1, <2>1, <2>4, <2>5, <2>6, CallMade
<1>9. CASE ScriptExits
  <2>1. next = Len(script) + 1
    BY <1>9, <1>0 DEF ScriptExits
  <2>. QED
    BY <1>1, <1>2, <1>9, <2>1, CallsStay DEF ScriptExits, ScriptUnchanged
<1>10. CASE UNCHANGED vars
  BY <1>1, <1>2, <1>10, CallsStay DEF vars
<1>. QED
  BY <1>3, <1>4, <1>5, <1>6, <1>7, <1>8, <1>9, <1>10 DEF Next, Parent, Script

\* execute_cgi returns only if the script never waited for the end of its input
\* and read no more than the body, and if the parent could finish writing the
\* body before the script filled the other pipe.  For any other script, the
\* parent, and the event loop, never come back.
THEOREM ReturnsOnlyForConforming == Spec => []ReturnsOnlyIfConforming
<1>1. CallsInv => ReturnsOnlyIfConforming
  <2> SUFFICES ASSUME CallsInv, parent = "done" PROVE Conforming(script, body)
    BY DEF ReturnsOnlyIfConforming
  <2>0. /\ body \in Nat /\ fed \in Nat /\ input \in Nat /\ written \in Nat /\ next \in Nat
        /\ Len(script) \in Nat /\ Len(output) \in Nat
        /\ OutCapacity \in Nat \ {0} /\ InCapacity \in Nat \ {0}
        /\ next - 1 \in Nat /\ next \in 1..(Len(script) + 1)
        /\ fed <= body /\ input <= InCapacity /\ Len(output) <= OutCapacity
        /\ Reads(next - 1) \in Nat /\ Writes(next - 1) \in Nat
        /\ Reads(next) = Reads(next - 1) + (IF script[next] = "read" THEN 1 ELSE 0)
        /\ Writes(next) = Writes(next - 1) + (IF script[next] = "write" THEN 1 ELSE 0)
    BY CallsTypes
  <2>1. next = Len(script) + 1
    BY DEF CallsInv, TypeInv
  <2>2. next - 1 = Len(script) /\ Len(script) \in Nat
    BY <2>1, <2>0
  <2>3. CallsUpTo(script, Len(script), "read_to_eof") = 0
    BY <2>2, NoSuchCall DEF CallsInv
  <2>4. Reads(Len(script)) <= body
    <3>1. input <= fed - Reads(Len(script)) /\ Reads(Len(script)) \in Nat
      BY <2>2, <2>0 DEF CallsInv
    <3>. QED
      BY <3>1, <2>0
  <2>5. \A i \in 1..Len(script) : Writes(i) > OutCapacity => body - Reads(i) <= InCapacity
    BY <2>2 DEF CallsInv
  <2>. QED
    BY <2>3, <2>4, <2>5 DEF Conforming, Reads, Writes
<1>. QED
  BY InitCallsInv, NextCallsInv, <1>1, PTL DEF Spec

\* While it runs a conforming script, execute_cgi and the script never wait for
\* each other: one of them can always go on until the parent returns.
THEOREM NeverDeadlocks == Spec => []NoDeadlock
<1>1. CallsInv => NoDeadlock
  <2> SUFFICES ASSUME CallsInv, Conforming(script, body), parent # "done",
                      ~ParentCanMove, ~ScriptCanMove
               PROVE  FALSE
    BY DEF NoDeadlock
  <2>0. /\ body \in Nat /\ fed \in Nat /\ input \in Nat /\ written \in Nat /\ next \in Nat
        /\ Len(script) \in Nat /\ Len(output) \in Nat
        /\ OutCapacity \in Nat \ {0} /\ InCapacity \in Nat \ {0}
        /\ next - 1 \in Nat /\ next \in 1..(Len(script) + 1)
        /\ fed <= body /\ input <= InCapacity /\ Len(output) <= OutCapacity
        /\ Reads(next - 1) \in Nat /\ Writes(next - 1) \in Nat
        /\ Reads(next) = Reads(next - 1) + (IF script[next] = "read" THEN 1 ELSE 0)
        /\ Writes(next) = Writes(next - 1) + (IF script[next] = "write" THEN 1 ELSE 0)
    BY CallsTypes
  <2>1. /\ CallsUpTo(script, Len(script), "read_to_eof") = 0
        /\ Reads(Len(script)) <= body
        /\ \A i \in 1..Len(script) : Writes(i) > OutCapacity => body - Reads(i) <= InCapacity
    BY DEF Conforming, Reads, Writes
  <2>2. alive /\ parent \in {"body", "relay"}
    BY DEF ParentCanMove, CallsInv, TypeInv, TypeOK
  <2>3. next \in 1..Len(script)
    BY <2>2, <2>0 DEF ScriptCanMove
  <2>4. script[next] # "read_to_eof"
    BY <2>1, <2>3, <2>0, NoSuchCall
  <2>5. script[next] \in {"read", "write"}
    <3>1. script \in Seq(Calls)
      BY ScriptType DEF CallsInv, TypeInv, TypeOK
    <3>. QED
      BY <2>3, <2>4, <3>1 DEF Calls
  <2>6. input = fed - Reads(next - 1) /\ written = Writes(next - 1)
    BY <2>4 DEF CallsInv
  <2>7. CASE script[next] = "read"
    <3>1. input = 0
      BY <2>2, <2>3, <2>7, <2>0 DEF ScriptCanMove, Calling
    <3>2. parent = "relay"
      BY <2>2, <3>1, ConstantTypes DEF ParentCanMove
    <3>3. fed = body
      BY <2>2, <3>2 DEF CallsInv
    <3>4. Reads(next) = body + 1
      <4>1. Reads(next) = Reads(next - 1) + 1
        BY <2>0, <2>7
      <4>2. Reads(next - 1) = body
        BY <2>0, <2>6, <3>1, <3>3
      <4>. QED
        BY <4>1, <4>2
    <3>5. Reads(next) <= Reads(Len(script)) /\ Reads(Len(script)) \in Nat
      <4>1. next \in Nat /\ Len(script) \in Nat /\ next <= Len(script)
        BY <2>3, <2>0
      <4>. QED
        BY <4>1, CallsGrow, CallsFinite DEF Reads
    <3>. QED
      BY <2>1, <3>4, <3>5, <2>0
  <2>8. CASE script[next] = "write"
    <3>1. Len(output) = OutCapacity
      BY <2>2, <2>3, <2>8, <2>0 DEF ScriptCanMove, Calling
    <3>2. output # <<>>
      BY <3>1, ConstantTypes
    <3>3. parent = "body"
      BY <2>2, <3>2 DEF ParentCanMove
    <3>4. fed # body /\ input = InCapacity
      BY <2>2, <3>3, <2>0 DEF ParentCanMove
    <3>5. written = OutCapacity
      BY <3>1, <3>3 DEF CallsInv
    <3>6. Writes(next) > OutCapacity /\ Reads(next) = Reads(next - 1)
      BY SMTT(30), <2>6, <2>8, <3>5, <2>0
    <3>7. body - Reads(next) <= InCapacity
      BY <2>1, <2>3, <3>6
    <3>. QED
      BY <2>6, <3>4, <3>6, <3>7, <2>0
  <2>. QED
    BY <2>5, <2>7, <2>8
<1>. QED
  BY InitCallsInv, NextCallsInv, <1>1, PTL DEF Spec
=============================================================================
