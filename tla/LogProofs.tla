----------------------------- MODULE LogProofs -----------------------------
(***************************************************************************)
(* Proofs about Log, for any threads, files, levels and size of the table: *)
(* its type invariant, that the lock keeps one thread at a time in         *)
(* log_log, and that therefore records are whole in every sink.            *)
(***************************************************************************)
EXTENDS Log, Positions, FiniteSetTheorems, TLAPS

-----------------------------------------------------------------------------
(* Types. *)

\* The sink a thread writes to is there, and the table is looked into from its
\* first slot on.
IndexOK ==
    \A t \in Threads :
        /\ pc[t] = "callbacks" => i[t] >= 1
        /\ pc[t] \in {"head", "text"} =>
              i[t] <= MAX_CALLBACKS /\ (i[t] > 0 => callbacks[i[t]] # NoCallback)

\* The holder of the lock is the one thread in log_log.
MutexOK == \A t \in Threads : holder = t <=> pc[t] \notin {"idle", "lock"}

TypeInv == TypeOK /\ IndexOK /\ MutexOK

Events == [by : Threads, call : 0..MaxCalls, level : Levels]
Parts == Events \X {"head", "text"}

LEMMA Constants ==
    /\ NoThread \notin Threads
    /\ Levels \subseteq Nat /\ 0 \in Levels
    /\ MAX_CALLBACKS \in Nat /\ MaxCalls \in Nat
    /\ {0, 1} \subseteq 0..(MAX_CALLBACKS + 1)
BY LogAssumption

\* A thread that is about to write writes to one of the sinks.
LEMMA SinkType ==
    ASSUME TypeInv, NEW t \in Threads, pc[t] \in {"head", "text"}
    PROVE  Sink(t) \in Sinks
<1>1. i[t] \in 0..MAX_CALLBACKS /\ (i[t] > 0 => callbacks[i[t]] # NoCallback)
  BY Constants DEF TypeInv, TypeOK, IndexOK
<1>2. CASE i[t] = 0
  BY <1>2 DEF Sink, Sinks
<1>3. CASE i[t] > 0
  <2>1. callbacks[i[t]] \in Callbacks
    BY <1>1, <1>3, Constants DEF TypeInv, TypeOK, Slots
  <2>. QED
    BY <1>3, <2>1 DEF Sink, Sinks, Callbacks
<1>. QED
  BY <1>1, <1>2, <1>3

LEMMA InitTypeInv == Init => TypeInv
<1> SUFFICES ASSUME Init PROVE TypeInv
  OBVIOUS
<1>1. level \in Levels /\ quiet \in BOOLEAN /\ holder \in Threads \cup {NoThread}
  BY Constants DEF Init
<1>2. calls \in 0..MaxCalls
  BY Constants DEF Init
<1>3. callbacks \in [Slots -> Callbacks \cup {NoCallback}] /\ accepted \in Seq(Callbacks)
  BY DEF Init
<1>4. ev \in [Threads -> Events]
  BY Constants DEF Init, Events
<1>5. pc \in [Threads -> {"idle", "lock", "quiet", "level", "callbacks", "head",
                          "text", "unlock"}]
  BY DEF Init
<1>6. i \in [Threads -> 0..(MAX_CALLBACKS + 1)]
  BY Constants DEF Init
<1>7. seen \in [Threads -> [quiet : SUBSET BOOLEAN, level : SUBSET Levels]]
  BY DEF Init
<1>8. out \in [Sinks -> Seq(Parts)]
  BY DEF Init
<1>9. IndexOK /\ MutexOK
  BY Constants DEF Init, IndexOK, MutexOK
<1>. QED
  BY <1>1, <1>2, <1>3, <1>4, <1>5, <1>6, <1>7, <1>8, <1>9
  DEF TypeInv, TypeOK, Events, Parts

LEMMA SettingsTypeInv ==
    ASSUME TypeInv, \/ \E l \in Levels : log_set_level(l)
                    \/ \E enable \in BOOLEAN : log_set_quiet(enable)
    PROVE  TypeInv'
<1>1. CASE \E l \in Levels : log_set_level(l)
  <2>1. PICK l \in Levels : log_set_level(l)
    BY <1>1
  <2>2. /\ level' = l
        /\ UNCHANGED <<quiet, callbacks, accepted, holder, calls, pc, ev, i, out>>
    BY <2>1 DEF log_set_level
  <2>3. seen' \in [Threads -> [quiet : SUBSET BOOLEAN, level : SUBSET Levels]]
    <3>1. ASSUME NEW t \in Threads
          PROVE  [seen[t] EXCEPT !.level = @ \cup {l}]
                    \in [quiet : SUBSET BOOLEAN, level : SUBSET Levels]
      <4>1. seen[t] \in [quiet : SUBSET BOOLEAN, level : SUBSET Levels]
        BY DEF TypeInv, TypeOK
      <4>2. seen[t].level \cup {l} \in SUBSET Levels
        BY <4>1
      <4>. QED
        BY <4>1, <4>2
    <3>. QED
      BY <2>1, <3>1 DEF log_set_level, TypeInv, TypeOK
  <2>. QED
    BY <2>2, <2>3 DEF TypeInv, TypeOK, IndexOK, MutexOK
<1>2. CASE \E enable \in BOOLEAN : log_set_quiet(enable)
  <2>1. PICK enable \in BOOLEAN : log_set_quiet(enable)
    BY <1>2
  <2>2. /\ quiet' = enable
        /\ UNCHANGED <<level, callbacks, accepted, holder, calls, pc, ev, i, out>>
    BY <2>1 DEF log_set_quiet
  <2>3. seen' \in [Threads -> [quiet : SUBSET BOOLEAN, level : SUBSET Levels]]
    <3>1. ASSUME NEW t \in Threads
          PROVE  [seen[t] EXCEPT !.quiet = @ \cup {enable}]
                    \in [quiet : SUBSET BOOLEAN, level : SUBSET Levels]
      <4>1. seen[t] \in [quiet : SUBSET BOOLEAN, level : SUBSET Levels]
        BY DEF TypeInv, TypeOK
      <4>2. seen[t].quiet \cup {enable} \in SUBSET BOOLEAN
        BY <4>1
      <4>. QED
        BY <4>1, <4>2
    <3>. QED
      BY <2>1, <3>1 DEF log_set_quiet, TypeInv, TypeOK
  <2>. QED
    BY <2>2, <2>3 DEF TypeInv, TypeOK, IndexOK, MutexOK
<1>. QED
  BY <1>1, <1>2

LEMMA AddCallbackTypeInv ==
    ASSUME TypeInv, NEW cb \in Callbacks, log_add_callback(cb)
    PROVE  TypeInv'
<1>1. callbacks' \in [Slots -> Callbacks \cup {NoCallback}]
  BY DEF log_add_callback, TypeInv, TypeOK
<1>2. /\ accepted' \in Seq(Callbacks)
      /\ UNCHANGED <<level, quiet, holder, calls, pc, ev, i, seen, out>>
  BY DEF log_add_callback, TypeInv, TypeOK
<1>3. \A t \in Threads : pc[t] = "idle"
  BY DEF log_add_callback, Calling
<1>4. IndexOK' /\ MutexOK'
  BY <1>2, <1>3 DEF TypeInv, IndexOK, MutexOK
<1>. QED
  BY <1>1, <1>2, <1>4 DEF TypeInv, TypeOK

\* A step that moves t to `to', its index to n, and leaves the settings, the
\* events and the sinks alone, keeps the invariant if `to' and n fit.
LEMMA MoveTypeInv ==
    ASSUME TypeInv, NEW t \in Threads,
           NEW to \in {"idle", "lock", "quiet", "level", "callbacks", "head", "text",
                       "unlock"},
           NEW n \in 0..(MAX_CALLBACKS + 1),
           pc' = [pc EXCEPT ![t] = to], i' = [i EXCEPT ![t] = n],
           to = "callbacks" => n >= 1,
           to \in {"head", "text"} =>
              n <= MAX_CALLBACKS /\ (n > 0 => callbacks[n] # NoCallback),
           holder' = t <=> to \notin {"idle", "lock"},
           \A u \in Threads \ {t} : holder' = u <=> holder = u,
           holder' \in Threads \cup {NoThread},
           calls' \in 0..MaxCalls, ev' \in [Threads -> Events],
           seen' \in [Threads -> [quiet : SUBSET BOOLEAN, level : SUBSET Levels]],
           out' \in [Sinks -> Seq(Parts)],
           UNCHANGED <<level, quiet, callbacks, accepted>>
    PROVE  TypeInv'
<1>1. pc' \in [Threads -> {"idle", "lock", "quiet", "level", "callbacks", "head",
                           "text", "unlock"}]
      /\ i' \in [Threads -> 0..(MAX_CALLBACKS + 1)]
  BY DEF TypeInv, TypeOK
<1>2. \A u \in Threads : /\ pc'[u] = IF u = t THEN to ELSE pc[u]
                         /\ i'[u] = IF u = t THEN n ELSE i[u]
  BY DEF TypeInv, TypeOK
<1>3. TypeOK'
  BY <1>1 DEF TypeInv, TypeOK, Events, Parts
<1>4. IndexOK'
  BY <1>2 DEF TypeInv, IndexOK
<1>5. MutexOK'
  BY <1>2 DEF TypeInv, MutexOK
<1>. QED
  BY <1>3, <1>4, <1>5 DEF TypeInv

\* So does a move of the thread that holds the lock, and keeps it.
LEMMA HolderTypeInv ==
    ASSUME TypeInv, NEW t \in Threads, pc[t] \notin {"idle", "lock"},
           NEW to \in {"quiet", "level", "callbacks", "head", "text", "unlock"},
           NEW n \in 0..(MAX_CALLBACKS + 1),
           pc' = [pc EXCEPT ![t] = to], i' = [i EXCEPT ![t] = n],
           to = "callbacks" => n >= 1,
           to \in {"head", "text"} =>
              n <= MAX_CALLBACKS /\ (n > 0 => callbacks[n] # NoCallback),
           out' \in [Sinks -> Seq(Parts)],
           UNCHANGED <<level, quiet, callbacks, accepted, holder, calls, ev, seen>>
    PROVE  TypeInv'
<1>1. holder' = t /\ \A u \in Threads : holder' = u <=> holder = u
  BY DEF TypeInv, MutexOK
<1>2. /\ calls' \in 0..MaxCalls /\ ev' \in [Threads -> Events]
      /\ seen' \in [Threads -> [quiet : SUBSET BOOLEAN, level : SUBSET Levels]]
      /\ holder' \in Threads \cup {NoThread}
  BY DEF TypeInv, TypeOK, Events
<1>. QED
  BY <1>1, <1>2, MoveTypeInv

\* What log_log and what it calls do is a move of one thread.
LEMMA ThreadTypeInv ==
    ASSUME TypeInv, NEW t \in Threads,
           (\E l \in Levels : log_log(t, l)) \/ Lock(t) \/ Step(t)
    PROVE  TypeInv'
<1>1. /\ ev \in [Threads -> Events]
      /\ i \in [Threads -> 0..(MAX_CALLBACKS + 1)]
      /\ seen \in [Threads -> [quiet : SUBSET BOOLEAN, level : SUBSET Levels]]
      /\ out \in [Sinks -> Seq(Parts)]
      /\ calls \in 0..MaxCalls /\ holder \in Threads \cup {NoThread}
      /\ pc[t] = "callbacks" => i[t] >= 1
      /\ \A u \in Threads : holder = u <=> pc[u] \notin {"idle", "lock"}
  BY DEF TypeInv, TypeOK, IndexOK, MutexOK, Events, Parts
<1>2. i = [i EXCEPT ![t] = i[t]] /\ i[t] \in 0..(MAX_CALLBACKS + 1)
  BY <1>1
<1>3. CASE \E l \in Levels : log_log(t, l)
  <2>1. PICK l \in Levels : log_log(t, l)
    BY <1>3
  <2>2. calls' \in 0..MaxCalls /\ ev' \in [Threads -> Events]
    <3>1. calls < MaxCalls /\ calls' = calls + 1
      BY <2>1, Zenon DEF log_log
    <3>2. calls + 1 \in 0..MaxCalls
      BY <1>1, <3>1, Constants
    <3>3. ev' = [ev EXCEPT ![t] = [ev[t] EXCEPT !.call = calls + 1, !.level = l]]
      BY <2>1 DEF log_log
    <3>4. ev[t] \in Events
      BY <1>1
    <3>5. [ev[t] EXCEPT !.call = calls + 1, !.level = l] \in Events
      BY <3>2, <3>4 DEF Events
    <3>. QED
      BY <1>1, <3>1, <3>2, <3>3, <3>5
  <2>3. seen' \in [Threads -> [quiet : SUBSET BOOLEAN, level : SUBSET Levels]]
    BY <1>1, <2>1 DEF log_log, TypeInv, TypeOK
  <2>. QED
    BY <1>1, <1>2, <2>1, <2>2, <2>3, MoveTypeInv DEF log_log, Go
<1>4. CASE Lock(t)
  <2>1. /\ pc' = [pc EXCEPT ![t] = "quiet"] /\ i' = [i EXCEPT ![t] = i[t]]
        /\ holder = NoThread /\ holder' = t
        /\ UNCHANGED <<level, quiet, callbacks, accepted, calls, ev, seen, out>>
    BY <1>2, <1>4 DEF Lock, Go
  <2>2. \A u \in Threads \ {t} : holder' = u <=> holder = u
    BY <2>1, Constants
  <2>. QED
    BY <1>1, <1>2, <2>1, <2>2, MoveTypeInv
<1>5. CASE CheckQuiet(t)
  <2>1. /\ pc[t] = "quiet"
        /\ pc' = [pc EXCEPT ![t] = IF quiet THEN "callbacks" ELSE "level"]
        /\ i' = [i EXCEPT ![t] = IF quiet THEN 1 ELSE 0]
        /\ UNCHANGED <<level, quiet, callbacks, accepted, holder, calls, ev, seen, out>>
    BY <1>5 DEF CheckQuiet, Go
  <2>2. CASE quiet
    <3>1. pc' = [pc EXCEPT ![t] = "callbacks"] /\ i' = [i EXCEPT ![t] = 1]
      BY <2>1, <2>2
    <3>2. 1 \in 0..(MAX_CALLBACKS + 1) /\ 1 >= 1
      BY Constants
    <3>. QED
      BY <1>1, <2>1, <3>1, <3>2, HolderTypeInv
  <2>3. CASE ~quiet
    <3>1. pc' = [pc EXCEPT ![t] = "level"] /\ i' = [i EXCEPT ![t] = 0]
      BY <2>1, <2>3
    <3>2. 0 \in 0..(MAX_CALLBACKS + 1) /\ 0 <= MAX_CALLBACKS /\ ~(0 > 0)
      BY Constants
    <3>. QED
      BY <1>1, <2>1, <3>1, <3>2, HolderTypeInv
  <2>. QED
    BY <2>2, <2>3
<1>6. CASE CheckLevel(t)
  <2>1. /\ pc[t] = "level"
        /\ pc' = [pc EXCEPT ![t] = IF ev[t].level >= level THEN "head" ELSE "callbacks"]
        /\ i' = [i EXCEPT ![t] = IF ev[t].level >= level THEN 0 ELSE 1]
        /\ UNCHANGED <<level, quiet, callbacks, accepted, holder, calls, ev, seen, out>>
    BY <1>6 DEF CheckLevel, Go
  <2>2. CASE ev[t].level >= level
    <3>1. pc' = [pc EXCEPT ![t] = "head"] /\ i' = [i EXCEPT ![t] = 0]
      BY <2>1, <2>2
    <3>2. 0 \in 0..(MAX_CALLBACKS + 1) /\ 0 <= MAX_CALLBACKS /\ ~(0 > 0)
      BY Constants
    <3>. QED
      BY <1>1, <2>1, <3>1, <3>2, HolderTypeInv
  <2>3. CASE ~(ev[t].level >= level)
    <3>1. pc' = [pc EXCEPT ![t] = "callbacks"] /\ i' = [i EXCEPT ![t] = 1]
      BY <2>1, <2>3
    <3>2. 1 \in 0..(MAX_CALLBACKS + 1) /\ 1 >= 1
      BY Constants
    <3>. QED
      BY <1>1, <2>1, <3>1, <3>2, HolderTypeInv
  <2>. QED
    BY <2>2, <2>3
<1>7. CASE NextCallback(t)
  <2>1. /\ pc[t] = "callbacks"
        /\ UNCHANGED <<level, quiet, callbacks, accepted, holder, calls, ev, seen, out>>
    BY <1>7 DEF NextCallback
  <2>2. PICK to \in {"head", "callbacks", "unlock"}, n \in {i[t], i[t] + 1} :
           /\ pc' = [pc EXCEPT ![t] = to] /\ i' = [i EXCEPT ![t] = n]
           /\ to = "head" =>
                 n = i[t] /\ i[t] <= MAX_CALLBACKS /\ callbacks[i[t]] # NoCallback
           /\ n = i[t] \/ i[t] <= MAX_CALLBACKS
    BY <1>7 DEF NextCallback, Go
  <2>3. n \in 0..(MAX_CALLBACKS + 1) /\ n >= 1
    BY <1>1, <1>2, <2>1, <2>2, Constants
  <2>. QED
    BY <1>1, <2>1, <2>2, <2>3, HolderTypeInv
<1>8. CASE WriteHead(t)
  <2>1. /\ pc[t] = "head" /\ pc' = [pc EXCEPT ![t] = "text"]
        /\ i' = [i EXCEPT ![t] = i[t]]
        /\ out' = [out EXCEPT ![Sink(t)] = Append(@, <<ev[t], "head">>)]
        /\ UNCHANGED <<level, quiet, callbacks, accepted, holder, calls, ev, seen>>
    BY <1>2, <1>8 DEF WriteHead, Write, Go
  <2>2. out' \in [Sinks -> Seq(Parts)]
    BY <1>1, <2>1, SinkType DEF Parts
  <2>. QED
    BY <1>2, <2>1, <2>2, HolderTypeInv DEF TypeInv, IndexOK
<1>9. CASE WriteText(t)
  <2>1. /\ pc[t] = "text" /\ pc' = [pc EXCEPT ![t] = "callbacks"]
        /\ i' = [i EXCEPT ![t] = i[t] + 1]
        /\ out' = [out EXCEPT ![Sink(t)] = Append(@, <<ev[t], "text">>)]
        /\ UNCHANGED <<level, quiet, callbacks, accepted, holder, calls, ev, seen>>
    BY <1>9 DEF WriteText, Write, Go
  <2>2. out' \in [Sinks -> Seq(Parts)]
    BY <1>1, <2>1, SinkType DEF Parts
  <2>3. i[t] + 1 \in 0..(MAX_CALLBACKS + 1) /\ i[t] + 1 >= 1
    BY <1>2, <2>1, Constants DEF TypeInv, IndexOK
  <2>. QED
    BY <2>1, <2>2, <2>3, HolderTypeInv
<1>10. CASE Unlock(t)
  <2>1. /\ pc[t] = "unlock" /\ pc' = [pc EXCEPT ![t] = "idle"]
        /\ i' = [i EXCEPT ![t] = 0] /\ holder' = NoThread
        /\ seen' = [seen EXCEPT ![t] = [quiet |-> {}, level |-> {}]]
        /\ UNCHANGED <<level, quiet, callbacks, accepted, calls, ev, out>>
    BY <1>10 DEF Unlock, Go
  <2>2. holder = t /\ holder' \notin Threads
    BY <1>1, <2>1, Constants
  <2>3. seen' \in [Threads -> [quiet : SUBSET BOOLEAN, level : SUBSET Levels]]
    BY <1>1, <2>1
  <2>4. \A u \in Threads \ {t} : holder' = u <=> holder = u
    BY <2>2
  <2>. QED
    BY <1>1, <2>1, <2>2, <2>3, <2>4, Constants, MoveTypeInv
<1>. QED
  BY <1>3, <1>4, <1>5, <1>6, <1>7, <1>8, <1>9, <1>10 DEF Step

LEMMA NextTypeInv == TypeInv /\ [Next]_vars => TypeInv'
<1> SUFFICES ASSUME TypeInv, [Next]_vars PROVE TypeInv'
  OBVIOUS
<1>1. CASE UNCHANGED vars
  BY <1>1 DEF vars, TypeInv, TypeOK, IndexOK, MutexOK
<1>. QED
  BY <1>1, SettingsTypeInv, AddCallbackTypeInv, ThreadTypeInv DEF Next

\* The logger's static state and the locals of log_log keep their types, and i
\* stays in the table.
THEOREM TypeCorrect == Spec => []TypeOK
<1>1. Spec => []TypeInv
  BY InitTypeInv, NextTypeInv, PTL DEF Spec
<1>2. TypeInv => TypeOK
  BY DEF TypeInv
<1>. QED
  BY <1>1, <1>2, PTL

-----------------------------------------------------------------------------
(* Records are whole. *)

\* A sink holds heads, each with its text behind it; a last head without its
\* text belongs to a thread that is about to write it, and only then is there
\* one.
Whole(o) ==
    \A n \in Nat \ {0} :
        /\ 2 * n - 1 <= Len(o) => o[2 * n - 1][2] = "head"
        /\ 2 * n <= Len(o) => o[2 * n] = <<o[2 * n - 1][1], "text">>

Writing(t, s) == pc[t] = "text" /\ Sink(t) = s

PairInv ==
    \A s \in Sinks :
        /\ Whole(out[s])
        /\ \E m \in Nat :
              \/ Len(out[s]) = 2 * m /\ \A t \in Threads : ~Writing(t, s)
              \/ /\ Len(out[s]) = 2 * m + 1
                 /\ \A t \in Threads : Writing(t, s) => out[s][2 * m + 1][1] = ev[t]
                 /\ \E t \in Threads : Writing(t, s)

RecordInv == TypeInv /\ PairInv

LEMMA InitRecordInv == Init => RecordInv
<1> SUFFICES ASSUME Init PROVE PairInv
  BY InitTypeInv DEF RecordInv
<1>1. \A s \in Sinks : out[s] = <<>> /\ Len(out[s]) = 2 * 0
  BY DEF Init
<1>2. \A s \in Sinks : Whole(out[s])
  BY <1>1 DEF Whole
<1>3. \A s \in Sinks, t \in Threads : ~Writing(t, s)
  BY DEF Init, Writing
<1>. QED
  BY <1>1, <1>2, <1>3 DEF PairInv

\* Steps that write nothing and neither begin nor end a record.
LEMMA NoWritePairInv ==
    ASSUME PairInv, UNCHANGED out,
           \A t \in Threads : pc'[t] = "text" <=> pc[t] = "text",
           \A t \in Threads : pc[t] = "text" => ev'[t] = ev[t] /\ Sink(t)' = Sink(t)
    PROVE  PairInv'
<1>1. \A s \in Sinks, t \in Threads : Writing(t, s)' <=> Writing(t, s)
  BY DEF Writing
<1>. QED
  BY <1>1 DEF PairInv, Writing

\* Only the thread that holds the lock writes.
LEMMA OneWriter ==
    ASSUME TypeInv, NEW t \in Threads, NEW u \in Threads,
           pc[t] \notin {"idle", "lock"}, pc[u] \notin {"idle", "lock"}
    PROVE  t = u
BY DEF TypeInv, MutexOK

LEMMA HeadPairInv ==
    ASSUME RecordInv, NEW t \in Threads, WriteHead(t)
    PROVE  PairInv'
<1>1. /\ pc[t] = "head" /\ pc' = [pc EXCEPT ![t] = "text"]
      /\ out' = [out EXCEPT ![Sink(t)] = Append(@, <<ev[t], "head">>)]
      /\ UNCHANGED <<ev, i, callbacks>>
  BY DEF WriteHead, Write, Go
<1>2. /\ TypeInv /\ Sink(t) \in Sinks /\ Sink(t)' = Sink(t)
      /\ out \in [Sinks -> Seq(Parts)] /\ pc'[t] = "text"
      /\ \A u \in Threads : u # t => pc'[u] = pc[u]
  BY <1>1, SinkType DEF RecordInv, TypeInv, TypeOK, Sink, Parts, Events
<1>3. \A u \in Threads : pc[u] # "text"
  BY <1>1, <1>2, OneWriter
<1>4. \A u \in Threads, s \in Sinks : Writing(u, s)' <=> u = t /\ s = Sink(t)
  BY <1>1, <1>2, <1>3 DEF Writing
<1>5. ASSUME NEW s \in Sinks, s # Sink(t)
      PROVE  out'[s] = out[s]
  BY <1>1, <1>2, <1>5
<1> DEFINE r == Sink(t)
<1>6. PICK m \in Nat : Len(out[r]) = 2 * m
  BY <1>2, <1>3 DEF RecordInv, PairInv, Writing
<1>7. /\ out'[r] = Append(out[r], <<ev[t], "head">>)
      /\ out[r] \in Seq(Parts)
  BY <1>1, <1>2
<1> HIDE DEF r
<1>8. /\ Len(out'[r]) = 2 * m + 1
      /\ out'[r][2 * m + 1] = <<ev[t], "head">>
      /\ \A k \in 1..(2 * m) : out'[r][k] = out[r][k]
  BY <1>6, <1>7
<1>9. Whole(out'[r])
  <2> SUFFICES ASSUME NEW n \in Nat \ {0}
               PROVE  /\ 2 * n - 1 <= Len(out'[r]) => out'[r][2 * n - 1][2] = "head"
                      /\ 2 * n <= Len(out'[r]) =>
                            out'[r][2 * n] = <<out'[r][2 * n - 1][1], "text">>
    BY DEF Whole
  <2>1. Whole(out[r])
    BY <1>2 DEF RecordInv, PairInv, r
  <2>2. CASE n <= m
    <3>1. 2 * n - 1 \in 1..(2 * m) /\ 2 * n \in 1..(2 * m)
      BY <2>2
    <3>2. out'[r][2 * n - 1] = out[r][2 * n - 1] /\ out'[r][2 * n] = out[r][2 * n]
      BY <1>8, <3>1
    <3>3. 2 * n - 1 <= Len(out[r]) /\ 2 * n <= Len(out[r])
      BY <1>6, <2>2
    <3>4. /\ out[r][2 * n - 1][2] = "head"
          /\ out[r][2 * n] = <<out[r][2 * n - 1][1], "text">>
      BY <2>1, <3>3 DEF Whole
    <3>. QED
      BY <3>2, <3>4
  <2>3. CASE n = m + 1
    <3>1. 2 * n - 1 = 2 * m + 1 /\ ~(2 * n <= 2 * m + 1)
      BY <2>3
    <3>2. out'[r][2 * n - 1] = <<ev[t], "head">>
      BY <1>8, <3>1
    <3>. QED
      BY <1>8, <3>1, <3>2
  <2>4. CASE n > m + 1
    <3>1. ~(2 * n - 1 <= 2 * m + 1) /\ ~(2 * n <= 2 * m + 1)
      BY <2>4
    <3>. QED
      BY <1>8, <3>1
  <2>. QED
    BY <2>2, <2>3, <2>4
<1>10. ASSUME NEW s \in Sinks
       PROVE  /\ Whole(out'[s])
              /\ \E k \in Nat :
                   \/ Len(out'[s]) = 2 * k /\ \A u \in Threads : ~Writing(u, s)'
                   \/ /\ Len(out'[s]) = 2 * k + 1
                      /\ \A u \in Threads : Writing(u, s)' => out'[s][2 * k + 1][1] = ev'[u]
                      /\ \E u \in Threads : Writing(u, s)'
  <2>1. CASE s = r
    <3>1. Writing(t, s)'
      BY <1>4, <2>1 DEF r
    <3>2. \A u \in Threads : Writing(u, s)' => out'[s][2 * m + 1][1] = ev'[u]
      BY <1>1, <1>4, <1>8, <2>1
    <3>. QED
      BY <1>8, <1>9, <2>1, <3>1, <3>2
  <2>2. CASE s # r
    <3>1. \A u \in Threads : ~Writing(u, s)' /\ ~Writing(u, s)
      BY <1>3, <1>4, <2>2 DEF r, Writing
    <3>2. out'[s] = out[s]
      BY <1>5, <2>2 DEF r
    <3>3. PICK k \in Nat : Len(out[s]) = 2 * k
      BY <3>1 DEF RecordInv, PairInv
    <3>4. Whole(out[s])
      BY DEF RecordInv, PairInv
    <3>. QED
      BY <3>1, <3>2, <3>3, <3>4
  <2>. QED
    BY <2>1, <2>2
<1>. QED
  BY <1>10 DEF PairInv

LEMMA TextPairInv ==
    ASSUME RecordInv, NEW t \in Threads, WriteText(t)
    PROVE  PairInv'
<1>1. /\ pc[t] = "text" /\ pc' = [pc EXCEPT ![t] = "callbacks"]
      /\ out' = [out EXCEPT ![Sink(t)] = Append(@, <<ev[t], "text">>)]
      /\ UNCHANGED <<ev, callbacks>>
  BY DEF WriteText, Write, Go
<1>2. /\ TypeInv /\ Sink(t) \in Sinks
      /\ out \in [Sinks -> Seq(Parts)] /\ pc'[t] = "callbacks"
      /\ \A u \in Threads : u # t => pc'[u] = pc[u]
  BY <1>1, SinkType DEF RecordInv, TypeInv, TypeOK, Parts, Events
<1>3. \A u \in Threads : pc[u] = "text" => u = t
  BY <1>1, <1>2, OneWriter
<1>4. \A u \in Threads, s \in Sinks :
         ~Writing(u, s)' /\ (Writing(u, s) <=> u = t /\ s = Sink(t))
  BY <1>1, <1>2, <1>3 DEF Writing
<1>5. ASSUME NEW s \in Sinks, s # Sink(t)
      PROVE  out'[s] = out[s]
  BY <1>1, <1>2, <1>5
<1> DEFINE r == Sink(t)
<1>6. PICK m \in Nat : Len(out[r]) = 2 * m + 1 /\ out[r][2 * m + 1][1] = ev[t]
  BY <1>2, <1>4 DEF RecordInv, PairInv
<1>7. /\ out'[r] = Append(out[r], <<ev[t], "text">>)
      /\ out[r] \in Seq(Parts)
  BY <1>1, <1>2
<1> HIDE DEF r
<1>8. /\ Len(out'[r]) = 2 * m + 2
      /\ out'[r][2 * m + 2] = <<ev[t], "text">>
      /\ \A k \in 1..(2 * m + 1) : out'[r][k] = out[r][k]
  BY <1>6, <1>7
<1>9. Whole(out'[r])
  <2> SUFFICES ASSUME NEW n \in Nat \ {0}
               PROVE  /\ 2 * n - 1 <= Len(out'[r]) => out'[r][2 * n - 1][2] = "head"
                      /\ 2 * n <= Len(out'[r]) =>
                            out'[r][2 * n] = <<out'[r][2 * n - 1][1], "text">>
    BY DEF Whole
  <2>1. Whole(out[r])
    BY <1>2 DEF RecordInv, PairInv, r
  <2>2. CASE n <= m
    <3>1. 2 * n - 1 \in 1..(2 * m + 1) /\ 2 * n \in 1..(2 * m + 1)
      BY <2>2
    <3>2. out'[r][2 * n - 1] = out[r][2 * n - 1] /\ out'[r][2 * n] = out[r][2 * n]
      BY <1>8, <3>1
    <3>3. 2 * n - 1 <= Len(out[r]) /\ 2 * n <= Len(out[r])
      BY <1>6, <2>2
    <3>4. /\ out[r][2 * n - 1][2] = "head"
          /\ out[r][2 * n] = <<out[r][2 * n - 1][1], "text">>
      BY <2>1, <3>3 DEF Whole
    <3>. QED
      BY <3>2, <3>4
  <2>3. CASE n = m + 1
    <3>1. 2 * n - 1 = 2 * m + 1 /\ 2 * n = 2 * m + 2 /\ 2 * m + 1 \in 1..(2 * m + 1)
      BY <2>3
    <3>2. out'[r][2 * n - 1] = out[r][2 * m + 1] /\ out'[r][2 * n] = <<ev[t], "text">>
      BY <1>8, <3>1
    <3>3. out[r][2 * n - 1][2] = "head"
      BY <1>6, <2>1, <3>1 DEF Whole
    <3>. QED
      BY <1>6, <3>1, <3>2, <3>3
  <2>4. CASE n > m + 1
    <3>1. ~(2 * n - 1 <= 2 * m + 2) /\ ~(2 * n <= 2 * m + 2)
      BY <2>4
    <3>. QED
      BY <1>8, <3>1
  <2>. QED
    BY <2>2, <2>3, <2>4
<1>10. ASSUME NEW s \in Sinks
       PROVE  Whole(out'[s]) /\ \E k \in Nat : Len(out'[s]) = 2 * k
  <2>1. CASE s = r
    <3>1. Len(out'[s]) = 2 * (m + 1)
      BY <1>8, <2>1
    <3>. QED
      BY <1>9, <2>1, <3>1
  <2>2. CASE s # r
    <3>1. \A u \in Threads : ~Writing(u, s)
      BY <1>4, <2>2 DEF r
    <3>2. out'[s] = out[s]
      BY <1>5, <2>2 DEF r
    <3>. QED
      BY <3>1, <3>2 DEF RecordInv, PairInv
  <2>. QED
    BY <2>1, <2>2
<1>. QED
  BY <1>4, <1>10 DEF PairInv

LEMMA ThreadPairInv ==
    ASSUME RecordInv, NEW t \in Threads,
           (\E l \in Levels : log_log(t, l)) \/ Lock(t) \/ Step(t)
    PROVE  PairInv'
<1>1. CASE WriteHead(t)
  BY <1>1, HeadPairInv
<1>2. CASE WriteText(t)
  BY <1>2, TextPairInv
<1>3. CASE (\E l \in Levels : log_log(t, l)) \/ Lock(t) \/ CheckQuiet(t)
           \/ CheckLevel(t) \/ NextCallback(t) \/ Unlock(t)
  <2>1. PairInv /\ pc \in [Threads -> {"idle", "lock", "quiet", "level", "callbacks",
                                       "head", "text", "unlock"}]
    BY DEF RecordInv, TypeInv, TypeOK
  <2>2. /\ UNCHANGED <<callbacks, out>> /\ pc[t] # "text"
        /\ \E to \in {"idle", "lock", "quiet", "level", "callbacks", "head", "unlock"} :
              pc' = [pc EXCEPT ![t] = to]
    BY <1>3 DEF log_log, Lock, CheckQuiet, CheckLevel, NextCallback, Unlock, Go
  <2>3. \A u \in Threads : u # t => i'[u] = i[u] /\ ev'[u] = ev[u]
    BY <1>3 DEF log_log, Lock, CheckQuiet, CheckLevel, NextCallback, Unlock, RecordInv,
                TypeInv, TypeOK
  <2>4. \A u \in Threads : pc'[u] = "text" <=> pc[u] = "text"
    BY <2>1, <2>2
  <2>5. \A u \in Threads : pc[u] = "text" => ev'[u] = ev[u] /\ Sink(u)' = Sink(u)
    BY <2>2, <2>3 DEF Sink
  <2>. QED
    BY <2>1, <2>2, <2>4, <2>5, NoWritePairInv
<1>. QED
  BY <1>1, <1>2, <1>3 DEF Step

LEMMA NextRecordInv == RecordInv /\ [Next]_vars => RecordInv'
<1> SUFFICES ASSUME RecordInv, [Next]_vars PROVE PairInv'
  BY NextTypeInv DEF RecordInv
<1>1. PairInv
  BY DEF RecordInv
<1>2. CASE UNCHANGED vars
  BY <1>1, <1>2, NoWritePairInv DEF vars, Sink
<1>3. CASE (\E l \in Levels : log_set_level(l))
           \/ (\E enable \in BOOLEAN : log_set_quiet(enable))
  <2>1. UNCHANGED <<callbacks, pc, ev, i, out>>
    BY <1>3 DEF log_set_level, log_set_quiet
  <2>. QED
    BY <1>1, <2>1, NoWritePairInv DEF Sink
<1>4. CASE \E cb \in Callbacks : log_add_callback(cb)
  <2>1. UNCHANGED <<pc, ev, i, out>> /\ \A t \in Threads : pc[t] = "idle"
    BY <1>4 DEF log_add_callback, Calling
  <2>. QED
    BY <1>1, <2>1, NoWritePairInv
<1>. QED
  BY <1>2, <1>3, <1>4, ThreadPairInv DEF Next

\* No two threads log at once, and no record is torn apart by another, in any
\* sink.
THEOREM RecordsWhole == Spec => []WholeRecords
<1>1. Spec => []RecordInv
  BY InitRecordInv, NextRecordInv, PTL DEF Spec
<1>2. RecordInv => WholeRecords
  <2> SUFFICES ASSUME RecordInv, NEW s \in Sinks,
                      NEW n \in 1..MaxCalls * (MAX_CALLBACKS + 1)
               PROVE  /\ 2 * n - 1 <= Len(out[s]) => out[s][2 * n - 1][2] = "head"
                      /\ 2 * n <= Len(out[s]) => out[s][2 * n] = <<out[s][2 * n - 1][1], "text">>
    BY DEF WholeRecords
  <2>1. n \in Nat \ {0}
    OBVIOUS
  <2>2. Whole(out[s])
    BY DEF RecordInv, PairInv
  <2>. QED
    BY <2>1, <2>2 DEF Whole
<1>. QED
  BY <1>1, <1>2, PTL

-----------------------------------------------------------------------------
(* Records are in order. *)

Places(s) == 1..Len(out[s])
EventAt(s, n) == out[s][n][1]
Inside(t) == pc[t] \notin {"idle", "lock"}

\* Calls are counted: a thread's event is its own and its number is the latest
\* but for those of other threads.
CallOK == \A t \in Threads : ev[t].by = t /\ ev[t].call <= calls

\* What a sink holds of a thread are its calls up to the latest, which it holds
\* nothing of before the lock is taken.
KnownOK ==
    \A s \in Sinks : \A n \in Places(s) :
        LET e == EventAt(s, n) IN
        /\ e.call <= ev[e.by].call
        /\ pc[e.by] = "lock" => e.call < ev[e.by].call

\* Behind the event of the one that holds the lock stand only more of it.
LastOK ==
    \A s \in Sinks, t \in Threads : \A m, n \in Places(s) :
        Inside(t) /\ m < n /\ EventAt(s, m) = ev[t] => EventAt(s, n) = ev[t]

\* A sink has the calls of a thread in order.
CallsOK ==
    \A s \in Sinks : \A m, n \in Places(s) :
        m < n /\ EventAt(s, m).by = EventAt(s, n).by
            => EventAt(s, m).call <= EventAt(s, n).call

\* No two sinks have two events in opposite orders.
Precedes(s, d, e) ==
    \E m, n \in Places(s) : m < n /\ EventAt(s, m) = d /\ EventAt(s, n) = e

AgreeOK ==
    \A r, s \in Sinks, d, e \in Events :
        Precedes(r, d, e) /\ Precedes(s, e, d) => d = e

OrderInv == TypeInv /\ CallOK /\ KnownOK /\ LastOK /\ CallsOK /\ AgreeOK
LEMMA EventTypes ==
    ASSUME TypeInv
    PROVE  /\ \A t \in Threads : ev[t] \in Events
           /\ \A s \in Sinks : out[s] \in Seq(Parts)
           /\ \A s \in Sinks : \A n \in Places(s) : EventAt(s, n) \in Events
           /\ calls \in Nat
<1>1. /\ ev \in [Threads -> Events] /\ out \in [Sinks -> Seq(Parts)]
      /\ calls \in 0..MaxCalls
  BY DEF TypeInv, TypeOK, Events, Parts
<1>2. ASSUME NEW s \in Sinks, NEW n \in Places(s) PROVE EventAt(s, n) \in Events
  <2>1. out[s] \in Seq(Parts) /\ n \in 1..Len(out[s])
    BY <1>1 DEF Places
  <2>2. out[s][n] \in Parts
    BY <2>1
  <2>. QED
    BY <2>2 DEF EventAt, Parts
<1>. QED
  BY <1>1, <1>2, Constants

LEMMA EventFields ==
    ASSUME NEW e \in Events
    PROVE  e.by \in Threads /\ e.call \in Nat /\ e.level \in Nat
<1>1. e.by \in Threads /\ e.call \in 0..MaxCalls /\ e.level \in Levels
  BY DEF Events
<1>2. e.call \in Nat
  BY <1>1, Constants
<1>3. e.level \in Nat
  BY <1>1, Constants
<1>. QED
  BY <1>1, <1>2, <1>3

LEMMA InitOrderInv == Init => OrderInv
<1> SUFFICES ASSUME Init PROVE OrderInv
  OBVIOUS
<1>1. TypeInv
  BY InitTypeInv
<1>2. CallOK
  BY DEF Init, CallOK
<1>3. \A s \in Sinks : Places(s) = {}
  <2>1. \A s \in Sinks : out[s] = <<>>
    BY DEF Init
  <2>. QED
    BY <2>1 DEF Places
<1>4. KnownOK /\ LastOK /\ CallsOK
  BY <1>3 DEF KnownOK, LastOK, CallsOK
<1>5. AgreeOK
  BY <1>3 DEF AgreeOK, Precedes
<1>. QED
  BY <1>1, <1>2, <1>4, <1>5 DEF OrderInv

\* Steps that write nothing keep what is said of the sinks alone.
LEMMA KeepsSinks ==
    ASSUME CallsOK, AgreeOK, UNCHANGED out
    PROVE  CallsOK' /\ AgreeOK'
<1>1. \A s : Places(s)' = Places(s)
  BY DEF Places
<1>2. \A s, n : EventAt(s, n)' = EventAt(s, n)
  BY DEF EventAt
<1>3. \A s, d, e : Precedes(s, d, e)' <=> Precedes(s, d, e)
  BY <1>1, <1>2 DEF Precedes
<1>. QED
  BY <1>1, <1>2, <1>3 DEF CallsOK, AgreeOK

\* A thread that waits for the lock has written nothing of its call.
LEMMA NotYetWritten ==
    ASSUME OrderInv, NEW t \in Threads, pc[t] = "lock", NEW s \in Sinks, NEW n \in Places(s)
    PROVE  EventAt(s, n) # ev[t]
<1>1. EventAt(s, n) \in Events /\ ev[t] \in Events /\ ev[t].by = t
  BY EventTypes DEF OrderInv, CallOK
<1>2. SUFFICES ASSUME EventAt(s, n) = ev[t] PROVE FALSE
  OBVIOUS
<1>3. ev[t].call < ev[t].call
  BY <1>1, <1>2 DEF OrderInv, KnownOK
<1>. QED
  BY <1>1, <1>3, EventFields

\* A step that writes nothing and is not the beginning of a call.
LEMMA MoveOrderInv ==
    ASSUME OrderInv, TypeInv', UNCHANGED <<out, ev, calls>>,
           \A t \in Threads : Inside(t)' => Inside(t) \/ pc[t] = "lock",
           \A t \in Threads : pc'[t] = "lock" => pc[t] = "lock"
    PROVE  OrderInv'
<1>1. CallsOK' /\ AgreeOK'
  BY KeepsSinks DEF OrderInv
<1>2. CallOK'
  BY DEF OrderInv, CallOK
<1>3. /\ \A s : Places(s)' = Places(s)
      /\ \A s, n : EventAt(s, n)' = EventAt(s, n)
  BY DEF Places, EventAt
<1>4. KnownOK'
  <2>1. \A s \in Sinks : \A n \in Places(s) : EventAt(s, n).by \in Threads
    BY EventTypes, EventFields DEF OrderInv
  <2>. QED
    BY <1>3, <2>1 DEF OrderInv, KnownOK
<1>5. LastOK'
  <2> SUFFICES ASSUME NEW s \in Sinks, NEW t \in Threads, NEW m \in Places(s), NEW n \in Places(s),
                      Inside(t)', m < n, EventAt(s, m) = ev[t]
               PROVE  EventAt(s, n) = ev[t]
    BY <1>3 DEF LastOK
  <2>1. pc[t] # "lock"
    BY NotYetWritten
  <2>. QED
    BY <2>1 DEF OrderInv, LastOK
<1>. QED
  BY <1>1, <1>2, <1>4, <1>5 DEF OrderInv

LEMMA CallOrderInv ==
    ASSUME OrderInv, TypeInv', NEW t \in Threads, NEW l \in Levels, log_log(t, l)
    PROVE  OrderInv'
<1>1. /\ pc[t] = "idle" /\ calls' = calls + 1 /\ UNCHANGED out
      /\ ev' = [ev EXCEPT ![t].call = calls + 1, ![t].level = l]
      /\ pc' = [pc EXCEPT ![t] = "lock"]
  BY DEF log_log, Go
<1>2. /\ ev \in [Threads -> Events] /\ calls \in Nat
      /\ pc \in [Threads -> {"idle", "lock", "quiet", "level", "callbacks", "head",
                             "text", "unlock"}]
  BY Constants DEF OrderInv, TypeInv, TypeOK, Events
<1>3. /\ ev'[t].call = calls + 1 /\ ev'[t].by = ev[t].by
      /\ \A u \in Threads : u # t => ev'[u] = ev[u] /\ pc'[u] = pc[u]
  BY <1>1, <1>2 DEF Events
<1>4. CallsOK' /\ AgreeOK'
  BY <1>1, KeepsSinks DEF OrderInv
<1>5. \A u \in Threads : ev[u] \in Events /\ ev[u].call \in Nat /\ ev[u].call <= calls /\ ev[u].by = u
  BY <1>2, EventFields DEF OrderInv, CallOK
<1>6. CallOK'
  <2> SUFFICES ASSUME NEW u \in Threads
               PROVE  ev'[u].by = u /\ ev'[u].call <= calls'
    BY DEF CallOK
  <2>1. CASE u = t
    BY <1>1, <1>2, <1>3, <1>5, <2>1
  <2>2. CASE u # t
    BY <1>1, <1>2, <1>3, <1>5, <2>2
  <2>. QED
    BY <2>1, <2>2
<1>7. /\ \A s : Places(s)' = Places(s)
      /\ \A s, n : EventAt(s, n)' = EventAt(s, n)
  BY <1>1 DEF Places, EventAt
<1>8. KnownOK'
  <2> SUFFICES ASSUME NEW s \in Sinks, NEW n \in Places(s), NEW e \in Events, e = EventAt(s, n)
               PROVE  /\ e.call <= ev'[e.by].call
                      /\ pc'[e.by] = "lock" => e.call < ev'[e.by].call
    BY <1>7, EventTypes DEF OrderInv, KnownOK
  <2>1. /\ e.call <= ev[e.by].call
        /\ pc[e.by] = "lock" => e.call < ev[e.by].call
    BY DEF OrderInv, KnownOK
  <2>2. e.call \in Nat /\ e.by \in Threads
    BY EventFields
  <2>3. CASE e.by = t
    <3>1. e.call <= calls
      BY <1>2, <1>5, <2>1, <2>2
    <3>. QED
      BY <1>2, <1>3, <2>2, <2>3, <3>1
  <2>4. CASE e.by # t
    BY <1>3, <2>1, <2>2, <2>4
  <2>. QED
    BY <2>3, <2>4
<1>9. LastOK'
  <2> SUFFICES ASSUME NEW s \in Sinks, NEW u \in Threads, NEW m \in Places(s), NEW n \in Places(s),
                      Inside(u)', m < n, EventAt(s, m) = ev'[u]
               PROVE  EventAt(s, n) = ev'[u]
    BY <1>7 DEF LastOK
  <2>1. u # t /\ Inside(u) /\ ev'[u] = ev[u]
    BY <1>1, <1>2, <1>3 DEF Inside
  <2>. QED
    BY <2>1 DEF OrderInv, LastOK
<1>. QED
  BY <1>4, <1>6, <1>8, <1>9 DEF OrderInv
\* What a write changes: one sink has the writer's event once more.
Wrote(t, r) ==
    \A s \in Sinks : /\ \A n \in Places(s) : n \in Places(s)' /\ EventAt(s, n)' = EventAt(s, n)
                     /\ \A n \in Places(s)' : n \notin Places(s) =>
                           s = r /\ EventAt(s, n)' = ev[t] /\ \A m \in Places(s)' : m <= n

LEMMA WriteIs ==
    ASSUME TypeInv, NEW t \in Threads, WriteHead(t) \/ WriteText(t)
    PROVE  /\ Inside(t) /\ Sink(t) \in Sinks /\ UNCHANGED <<ev, calls, callbacks, accepted, level, quiet, seen>>
           /\ Wrote(t, Sink(t))
           /\ \A u \in Threads : /\ u # t => pc'[u] = pc[u]
                                 /\ Inside(u)' => Inside(u)
                                 /\ pc'[u] = "lock" => pc[u] = "lock"
<1>1. PICK part \in {"head", "text"}, to \in {"text", "callbacks"} :
         /\ out' = [out EXCEPT ![Sink(t)] = Append(@, <<ev[t], part>>)]
         /\ pc' = [pc EXCEPT ![t] = to]
  BY DEF WriteHead, WriteText, Write, Go
<1>2. /\ pc[t] \in {"head", "text"}
      /\ UNCHANGED <<ev, calls, callbacks, accepted, level, quiet, seen>>
  BY DEF WriteHead, WriteText
<1>3. Sink(t) \in Sinks
  BY <1>2, SinkType
<1>4. /\ out \in [Sinks -> Seq(Parts)] /\ ev[t] \in Events
      /\ pc \in [Threads -> {"idle", "lock", "quiet", "level", "callbacks", "head",
                             "text", "unlock"}]
  BY DEF TypeInv, TypeOK, Parts, Events
<1>5. \A u \in Threads : /\ u # t => pc'[u] = pc[u]
                         /\ Inside(u)' => Inside(u)
                         /\ pc'[u] = "lock" => pc[u] = "lock"
  BY <1>1, <1>2, <1>4 DEF Inside
<1>6. Wrote(t, Sink(t))
  <2> DEFINE r == Sink(t)
  <2>1. r \in Sinks /\ out' = [out EXCEPT ![r] = Append(@, <<ev[t], part>>)]
    BY <1>1, <1>3
  <2> HIDE DEF r
  <2> SUFFICES ASSUME NEW s \in Sinks
               PROVE  /\ \A n \in Places(s) : n \in Places(s)' /\ EventAt(s, n)' = EventAt(s, n)
                      /\ \A n \in Places(s)' : n \notin Places(s) =>
                           s = r /\ EventAt(s, n)' = ev[t] /\ \A m \in Places(s)' : m <= n
    BY DEF Wrote, r
  <2>2. CASE s # r
    <3>1. out'[s] = out[s]
      BY <1>4, <2>1, <2>2
    <3>. QED
      BY <3>1 DEF Places, EventAt
  <2>3. CASE s = r
    <3>1. out[s] \in Seq(Parts) /\ out'[s] = Append(out[s], <<ev[t], part>>)
      BY <1>4, <2>1, <2>3
    <3>2. PICK k \in Nat : k = Len(out[s])
      BY <3>1
    <3>3. /\ Len(out'[s]) = k + 1 /\ out'[s][k + 1] = <<ev[t], part>>
          /\ \A n \in 1..k : out'[s][n] = out[s][n]
      BY <3>1, <3>2
    <3>4. Places(s) = 1..k /\ Places(s)' = 1..(k + 1)
      BY <3>2, <3>3 DEF Places
    <3>5. ASSUME NEW n \in Places(s)
          PROVE  n \in Places(s)' /\ EventAt(s, n)' = EventAt(s, n)
      BY <3>3, <3>4 DEF EventAt
    <3>6. ASSUME NEW n \in Places(s)', n \notin Places(s)
          PROVE  EventAt(s, n)' = ev[t] /\ \A m \in Places(s)' : m <= n
      <4>1. n = k + 1
        BY <3>4, <3>6
      <4>2. EventAt(s, n)' = ev[t]
        BY <3>3, <4>1 DEF EventAt
      <4>3. \A m \in Places(s)' : m <= n
        BY <3>4, <4>1
      <4>. QED
        BY <4>2, <4>3
    <3>. QED
      BY <2>3, <3>5, <3>6
  <2>. QED
    BY <2>2, <2>3
<1>. QED
  BY <1>2, <1>3, <1>5, <1>6 DEF Inside

\* An entry behind another in a sink that was written to was there, or is new.
LEMMA WroteLater ==
    ASSUME NEW t \in Threads, NEW r \in Sinks, Wrote(t, r), NEW s \in Sinks,
           NEW m \in Places(s)', NEW n \in Places(s)', m < n
    PROVE  /\ m \in Places(s) /\ EventAt(s, m)' = EventAt(s, m)
           /\ \/ n \in Places(s) /\ EventAt(s, n)' = EventAt(s, n)
              \/ s = r /\ EventAt(s, n)' = ev[t]
<1>1. m \in Nat /\ n \in Nat
  BY DEF Places
<1>2. m \in Places(s)
  BY <1>1 DEF Wrote
<1>. QED
  BY <1>2 DEF Wrote

LEMMA WriteOrderInv ==
    ASSUME OrderInv, TypeInv', NEW t \in Threads, WriteHead(t) \/ WriteText(t)
    PROVE  OrderInv'
<1>1. PICK r \in Sinks : Wrote(t, r)
  BY WriteIs DEF OrderInv
<1>2. /\ Inside(t) /\ UNCHANGED <<ev, calls>>
      /\ \A u \in Threads : Inside(u)' => Inside(u)
      /\ \A u \in Threads : pc'[u] = "lock" => pc[u] = "lock"
  BY WriteIs DEF OrderInv
<1>3. \A u \in Threads : Inside(u) => u = t
  BY <1>2, OneWriter DEF OrderInv, Inside
<1>4. ev[t] \in Events /\ ev[t].by = t /\ ev[t].call \in Nat
  BY EventTypes, EventFields DEF OrderInv, CallOK
<1>5. CallOK'
  BY <1>2 DEF OrderInv, CallOK
<1>6. KnownOK'
  <2> SUFFICES ASSUME NEW s \in Sinks, NEW n \in Places(s)', NEW e \in Events, e = EventAt(s, n)'
               PROVE  /\ e.call <= ev'[e.by].call
                      /\ pc'[e.by] = "lock" => e.call < ev'[e.by].call
    <3>1. \A s \in Sinks : \A n \in Places(s)' : EventAt(s, n)' \in Events
      <4>1. \A s \in Sinks : \A n \in Places(s) : n \in Places(s)' =>
               EventAt(s, n)' = EventAt(s, n)
        BY <1>1 DEF Wrote
      <4>2. \A s \in Sinks : \A n \in Places(s)' : n \notin Places(s) =>
               EventAt(s, n)' = ev[t]
        BY <1>1 DEF Wrote
      <4>. QED
        BY <1>4, <4>1, <4>2, EventTypes DEF OrderInv
    <3>. QED
      BY <3>1 DEF KnownOK
  <2>1. e.by \in Threads
    BY EventFields
  <2>2. CASE n \in Places(s)
    <3>1. e = EventAt(s, n)
      BY <1>1, <2>2 DEF Wrote
    <3>. QED
      BY <1>2, <2>1, <2>2, <3>1 DEF OrderInv, KnownOK
  <2>3. CASE n \notin Places(s)
    <3>1. e = ev[t]
      BY <1>1, <2>3 DEF Wrote
    <3>2. pc'[t] # "lock"
      BY <1>2 DEF Inside
    <3>. QED
      BY <1>2, <1>4, <3>1, <3>2
  <2>. QED
    BY <2>2, <2>3
<1>7. LastOK'
  <2> SUFFICES ASSUME NEW s \in Sinks, NEW u \in Threads, NEW m \in Places(s)', NEW n \in Places(s)',
                      Inside(u)', m < n, EventAt(s, m)' = ev'[u]
               PROVE  EventAt(s, n)' = ev'[u]
    BY DEF LastOK
  <2>1. u = t /\ ev'[u] = ev[t]
    BY <1>2, <1>3
  <2>2. /\ m \in Places(s) /\ EventAt(s, m) = ev[t]
        /\ \/ n \in Places(s) /\ EventAt(s, n)' = EventAt(s, n)
           \/ EventAt(s, n)' = ev[t]
    BY <1>1, <2>1, WroteLater
  <2>3. n \in Places(s) => EventAt(s, n) = ev[t]
    BY <1>2, <2>2 DEF OrderInv, LastOK
  <2>. QED
    BY <2>1, <2>2, <2>3
<1>8. CallsOK'
  <2> SUFFICES ASSUME NEW s \in Sinks, NEW m \in Places(s)', NEW n \in Places(s)', m < n,
                      EventAt(s, m)'.by = EventAt(s, n)'.by
               PROVE  EventAt(s, m)'.call <= EventAt(s, n)'.call
    BY DEF CallsOK
  <2>1. /\ m \in Places(s) /\ EventAt(s, m)' = EventAt(s, m)
        /\ \/ n \in Places(s) /\ EventAt(s, n)' = EventAt(s, n)
           \/ EventAt(s, n)' = ev[t]
    BY <1>1, WroteLater
  <2>2. CASE n \in Places(s) /\ EventAt(s, n)' = EventAt(s, n)
    BY <2>1, <2>2 DEF OrderInv, CallsOK
  <2>3. CASE EventAt(s, n)' = ev[t]
    <3>1. EventAt(s, m).by = t
      BY <1>4, <2>1, <2>3
    <3>. QED
      BY <2>1, <2>3, <3>1 DEF OrderInv, KnownOK
  <2>. QED
    BY <2>1, <2>2, <2>3
<1>9. ASSUME NEW s \in Sinks, NEW d \in Events, NEW e \in Events, d # e, Precedes(s, d, e)'
      PROVE  Precedes(s, d, e) \/ e = ev[t]
  <2>1. PICK m \in Places(s)', n \in Places(s)' :
           m < n /\ EventAt(s, m)' = d /\ EventAt(s, n)' = e
    BY <1>9 DEF Precedes
  <2>2. /\ m \in Places(s) /\ EventAt(s, m) = d
        /\ \/ n \in Places(s) /\ EventAt(s, n) = e
           \/ e = ev[t]
    BY <1>1, <2>1, WroteLater
  <2>. QED
    BY <2>1, <2>2 DEF Precedes
<1>10. ASSUME NEW s \in Sinks, NEW d \in Events, d # ev[t] PROVE ~Precedes(s, ev[t], d)
  BY <1>2, <1>10 DEF OrderInv, LastOK, Precedes
<1>11. AgreeOK'
  <2> SUFFICES ASSUME NEW q \in Sinks, NEW s \in Sinks, NEW d \in Events, NEW e \in Events,
                      Precedes(q, d, e)', Precedes(s, e, d)', d # e
               PROVE  FALSE
    BY DEF AgreeOK
  <2>1. Precedes(q, d, e) \/ e = ev[t]
    BY <1>9
  <2>2. Precedes(s, e, d) \/ d = ev[t]
    BY <1>9
  <2>3. ~(Precedes(q, d, e) /\ Precedes(s, e, d))
    BY DEF OrderInv, AgreeOK
  <2>4. e = ev[t] => ~Precedes(s, e, d)
    BY <1>10
  <2>5. d = ev[t] => ~Precedes(q, d, e)
    BY <1>10
  <2>. QED
    BY <2>1, <2>2, <2>3, <2>4, <2>5
<1>. QED
  BY <1>5, <1>6, <1>7, <1>8, <1>11 DEF OrderInv

LEMMA NextOrderInv == OrderInv /\ [Next]_vars => OrderInv'
<1> SUFFICES ASSUME OrderInv, [Next]_vars PROVE OrderInv'
  OBVIOUS
<1>1. TypeInv /\ TypeInv'
  BY NextTypeInv DEF OrderInv
<1>2. CASE UNCHANGED vars
  <2>1. UNCHANGED <<out, ev, calls, pc>>
    BY <1>2 DEF vars
  <2>. QED
    BY <1>1, <2>1, MoveOrderInv DEF Inside
<1>3. CASE (\E l \in Levels : log_set_level(l)) \/ (\E enable \in BOOLEAN : log_set_quiet(enable))
           \/ (\E cb \in Callbacks : log_add_callback(cb))
  <2>1. UNCHANGED <<out, ev, calls, pc>>
    BY <1>3 DEF log_set_level, log_set_quiet, log_add_callback
  <2>. QED
    BY <1>1, <2>1, MoveOrderInv DEF Inside
<1>4. ASSUME NEW t \in Threads, (\E l \in Levels : log_log(t, l)) \/ Lock(t) \/ Step(t)
      PROVE  OrderInv'
  <2>1. CASE \E l \in Levels : log_log(t, l)
    BY <1>1, <2>1, CallOrderInv
  <2>2. CASE WriteHead(t) \/ WriteText(t)
    BY <1>1, <2>2, WriteOrderInv
  <2>3. CASE Lock(t) \/ CheckQuiet(t) \/ CheckLevel(t) \/ NextCallback(t) \/ Unlock(t)
    <3>1. /\ UNCHANGED <<out, ev, calls>> /\ pc[t] # "idle"
          /\ \E to \in {"idle", "quiet", "level", "callbacks", "head", "unlock"} :
                pc' = [pc EXCEPT ![t] = to]
      BY <2>3 DEF Lock, CheckQuiet, CheckLevel, NextCallback, Unlock, Go
    <3>2. pc \in [Threads -> {"idle", "lock", "quiet", "level", "callbacks", "head",
                              "text", "unlock"}]
      BY <1>1 DEF TypeInv, TypeOK
    <3>3. \A u \in Threads : /\ Inside(u)' => Inside(u) \/ pc[u] = "lock"
                             /\ pc'[u] = "lock" => pc[u] = "lock"
      BY <3>1, <3>2 DEF Inside
    <3>. QED
      BY <1>1, <3>1, <3>3, MoveOrderInv
  <2>. QED
    BY <1>4, <2>1, <2>2, <2>3 DEF Step
<1>. QED
  BY <1>2, <1>3, <1>4 DEF Next

\* The position of an event a sink has is one where it stands.
LEMMA PositionIs ==
    ASSUME TypeInv, NEW s \in Sinks, NEW e \in In(s)
    PROVE  Position(s, e) \in Places(s) /\ EventAt(s, Position(s, e)) = e
<1> DEFINE I == {n \in 1..Len(out[s]) : out[s][n][1] = e}
<1>1. out[s] \in Seq(Parts)
  BY EventTypes
<1>2. I # {} /\ I \in SUBSET Nat
  BY <1>1 DEF In
<1>3. Position(s, e) = Min(I)
  BY <1>2 DEF Position, SelectInSeq
<1>4. Min(I) \in I
  <2> HIDE DEF I
  <2>. QED
    BY <1>2, MinOfPositions
<1>. QED
  BY <1>3, <1>4 DEF Places, EventAt

\* Whatever threads log, through whatever callbacks, all sinks have the records
\* in one order, and each has those of a thread in the order of its calls.
THEOREM RecordsInOrder == Spec => []InOrder
<1>1. Spec => []OrderInv
  BY InitOrderInv, NextOrderInv, PTL DEF Spec
<1>2. OrderInv => InOrder
  <2> SUFFICES ASSUME OrderInv, NEW r \in Sinks, NEW s \in Sinks,
                      NEW d \in In(r) \cap In(s), NEW e \in In(r) \cap In(s)
               PROVE  /\ Position(r, d) < Position(r, e) => Position(s, d) < Position(s, e)
                      /\ d.by = e.by /\ d.call < e.call => Position(s, d) < Position(s, e)
    BY DEF InOrder
  <2>1. TypeInv
    BY DEF OrderInv
  <2>2. /\ Position(r, d) \in Places(r) /\ EventAt(r, Position(r, d)) = d
        /\ Position(r, e) \in Places(r) /\ EventAt(r, Position(r, e)) = e
        /\ Position(s, d) \in Places(s) /\ EventAt(s, Position(s, d)) = d
        /\ Position(s, e) \in Places(s) /\ EventAt(s, Position(s, e)) = e
    BY <2>1, PositionIs
  <2>3. d \in Events /\ e \in Events
    BY <2>1, <2>2, EventTypes
  <2>4. ASSUME d # e, ~(Position(s, d) < Position(s, e)) PROVE Position(s, e) < Position(s, d)
    <3>1. Position(s, d) \in Nat /\ Position(s, e) \in Nat /\ Position(s, d) # Position(s, e)
      BY <2>2, <2>4 DEF Places
    <3>. QED
      BY <2>4, <3>1
  <2>5. ASSUME Position(r, d) < Position(r, e), ~(Position(s, d) < Position(s, e)) PROVE FALSE
    <3>1. Position(r, d) \in Nat
      BY <2>2 DEF Places
    <3>2. d # e
      BY <2>5, <3>1
    <3>3. Precedes(r, d, e)
      BY <2>2, <2>5 DEF Precedes
    <3>4. Precedes(s, e, d)
      BY <2>2, <2>4, <2>5, <3>2 DEF Precedes
    <3>. QED
      BY <2>3, <3>2, <3>3, <3>4 DEF OrderInv, AgreeOK
  <2>6. ASSUME d.by = e.by, d.call < e.call, ~(Position(s, d) < Position(s, e)) PROVE FALSE
    <3>1. d.call \in Nat /\ e.call \in Nat
      BY <2>3, EventFields
    <3>2. d # e
      BY <2>6, <3>1
    <3>3. e.call <= d.call
      BY <2>2, <2>4, <2>6, <3>2 DEF OrderInv, CallsOK
    <3>. QED
      BY <2>6, <3>1, <3>3
  <2>. QED
    BY <2>5, <2>6
<1>. QED
  BY <1>1, <1>2, PTL

\* For any threads, files and callbacks, the records of all sinks are whole and
\* parts of one sequence.
THEOREM RecordsSerialized == Spec => []Serialized
<1>1. WholeRecords /\ InOrder => Serialized
  BY DEF Serialized
<1>. QED
  BY <1>1, RecordsWhole, RecordsInOrder, PTL
-----------------------------------------------------------------------------
(* Records are delivered. *)

\* The table is filled from its first slot on, in the order of registration.
TableOK ==
    /\ Len(accepted) <= MAX_CALLBACKS
    /\ \A s \in Slots :
          callbacks[s] = IF s <= Len(accepted) THEN accepted[s] ELSE NoCallback

\* seen[t] has the present settings, while t is in log_log.
SeenOK == \A t \in Threads : pc[t] # "idle" => quiet \in seen[t].quiet /\ level \in seen[t].level

\* The callbacks before the k-th that pass the event of t to the file f.
Owed(t, f, k) ==
    {n \in 1..Len(accepted) : n < k /\ accepted[n].sink = f /\ accepted[n].level <= ev[t].level}

\* The loop of t over the callbacks: where it may be, and what it has written.
LoopOK(t) ==
    /\ pc[t] \in {"idle", "lock", "quiet", "level"} => i[t] = 0
    /\ pc[t] \in {"head", "text"} /\ i[t] > 0 => callbacks[i[t]].level <= ev[t].level
    /\ pc[t] = "unlock" => i[t] > Len(accepted)

FilesOK(t) == Inside(t) => \A f \in Files : Times(f, ev[t]) = Cardinality(Owed(t, f, i[t]))

\* The record is due on stderr, or it is not, as the settings were during the
\* call; once the loop over the callbacks has begun it was written accordingly.
Due(t) == FALSE \in seen[t].quiet /\ \E l \in seen[t].level : l <= ev[t].level
NotDue(t) == TRUE \in seen[t].quiet \/ \E l \in seen[t].level : l > ev[t].level

StderrOK(t) ==
    /\ Inside(t) /\ i[t] = 0 => Times("stderr", ev[t]) = 0
    /\ pc[t] = "level" => FALSE \in seen[t].quiet
    /\ pc[t] \in {"head", "text"} /\ i[t] = 0 => Due(t)
    /\ Inside(t) /\ i[t] > 0 => \/ Times("stderr", ev[t]) = 1 /\ Due(t)
                                \/ Times("stderr", ev[t]) = 0 /\ NotDue(t)

DeliveryInv ==
    /\ OrderInv /\ TableOK /\ SeenOK
    /\ \A t \in Threads : LoopOK(t) /\ FilesOK(t) /\ StderrOK(t)
LEMMA DeliveryTypes ==
    ASSUME TypeInv
    PROVE  /\ accepted \in Seq(Callbacks) /\ Len(accepted) \in Nat
           /\ \A n \in 1..Len(accepted) : /\ accepted[n].sink \in Files
                                          /\ accepted[n].level \in Nat
                                          /\ accepted[n] # NoCallback
           /\ \A t \in Threads : i[t] \in Nat /\ i[t] <= MAX_CALLBACKS + 1 /\ ev[t].level \in Nat
           /\ \A t \in Threads : \A l \in seen[t].level : l \in Nat
           /\ level \in Nat /\ quiet \in BOOLEAN
<1>1. accepted \in Seq(Callbacks) /\ level \in Levels /\ quiet \in BOOLEAN
  BY DEF TypeInv, TypeOK
<1>2. ASSUME NEW n \in 1..Len(accepted)
      PROVE  /\ accepted[n].sink \in Files /\ accepted[n].level \in Nat
             /\ accepted[n] # NoCallback
  <2>1. accepted[n] \in Callbacks
    BY <1>1
  <2>2. accepted[n].sink \in Files /\ accepted[n].level \in Levels
    BY <2>1 DEF Callbacks
  <2>3. accepted[n].level \in Nat
    BY <2>2, Constants
  <2>4. accepted[n].sink # "NULL"
    BY <2>2, LogAssumption
  <2>5. accepted[n] # NoCallback
    BY <2>4 DEF NoCallback
  <2>. QED
    BY <2>2, <2>3, <2>5
<1>3. ASSUME NEW t \in Threads
      PROVE  i[t] \in Nat /\ i[t] <= MAX_CALLBACKS + 1 /\ ev[t].level \in Nat
  <2>1. i[t] \in 0..(MAX_CALLBACKS + 1)
    BY DEF TypeInv, TypeOK
  <2>2. ev[t].level \in Nat
    BY EventTypes, EventFields
  <2>. QED
    BY <2>1, <2>2, Constants
<1>4. ASSUME NEW t \in Threads, NEW l \in seen[t].level PROVE l \in Nat
  <2>1. seen[t] \in [quiet : SUBSET BOOLEAN, level : SUBSET Levels]
    BY DEF TypeInv, TypeOK
  <2>2. l \in Levels
    BY <2>1
  <2>. QED
    BY <2>2, Constants
<1>5. Len(accepted) \in Nat /\ level \in Nat
  BY <1>1, Constants
<1>. QED
  BY <1>1, <1>2, <1>3, <1>4, <1>5

LEMMA OwedFinite ==
    ASSUME TypeInv, NEW t, NEW f, NEW k
    PROVE  IsFiniteSet(Owed(t, f, k)) /\ Owed(t, f, k) \subseteq 1..Len(accepted)
<1>1. IsFiniteSet(1..Len(accepted))
  BY DeliveryTypes, FS_Interval
<1>2. Owed(t, f, k) \subseteq 1..Len(accepted)
  BY DEF Owed
<1>. QED
  BY <1>1, <1>2, FS_Subset

\* The loop goes on to the next callback.
LEMMA OwedNext ==
    ASSUME TypeInv, NEW t \in Threads, NEW f \in Files, NEW k \in Nat
    PROVE  /\ k \in 1..Len(accepted) /\ accepted[k].sink = f /\ accepted[k].level <= ev[t].level
                 => Cardinality(Owed(t, f, k + 1)) = Cardinality(Owed(t, f, k)) + 1
           /\ ~(k \in 1..Len(accepted) /\ accepted[k].sink = f /\ accepted[k].level <= ev[t].level)
                 => Owed(t, f, k + 1) = Owed(t, f, k)
<1>1. Len(accepted) \in Nat
  BY DeliveryTypes
<1>2. \A n \in 1..Len(accepted) : n < k + 1 <=> n < k \/ n = k
  BY <1>1
<1>3. CASE k \in 1..Len(accepted) /\ accepted[k].sink = f /\ accepted[k].level <= ev[t].level
  <2>1. Owed(t, f, k + 1) = Owed(t, f, k) \cup {k}
    BY <1>2, <1>3 DEF Owed
  <2>2. k \notin Owed(t, f, k)
    BY DEF Owed
  <2>3. Cardinality(Owed(t, f, k) \cup {k}) = Cardinality(Owed(t, f, k)) + 1
    BY <2>2, OwedFinite, FS_AddElement
  <2>. QED
    BY <1>3, <2>1, <2>3
<1>4. CASE ~(k \in 1..Len(accepted) /\ accepted[k].sink = f /\ accepted[k].level <= ev[t].level)
  <2>1. \A n \in Owed(t, f, k + 1) : n \in Owed(t, f, k)
    BY <1>2, <1>4 DEF Owed
  <2>2. \A n \in Owed(t, f, k) : n \in Owed(t, f, k + 1)
    BY <1>2 DEF Owed
  <2>3. Owed(t, f, k + 1) = Owed(t, f, k)
    BY <2>1, <2>2
  <2>. QED
    BY <1>4, <2>3
<1>. QED
  BY <1>3, <1>4

LEMMA NothingOwed ==
    ASSUME TypeInv, NEW t, NEW f, NEW k \in {0, 1}
    PROVE  Owed(t, f, k) = {} /\ Cardinality(Owed(t, f, k)) = 0
<1>1. Owed(t, f, k) = {}
  BY DEF Owed
<1>. QED
  BY <1>1, FS_EmptySet

Puts(t, part, r) == out' = [out EXCEPT ![r] = Append(@, <<ev[t], part>>)]

\* What a write adds to the records of a sink.
LEMMA TimesAfter ==
    ASSUME TypeInv, NEW t \in Threads, NEW part \in {"head", "text"}, NEW r \in Sinks,
           Puts(t, part, r), NEW s \in Sinks, NEW e
    PROVE  /\ Times(s, e) \in Nat
           /\ s = r /\ part = "text" /\ e = ev[t] => Times(s, e)' = Times(s, e) + 1
           /\ ~(s = r /\ part = "text" /\ e = ev[t]) => Times(s, e)' = Times(s, e)
<1>1. out \in [Sinks -> Seq(Parts)] /\ ev[t] \in Events
  BY EventTypes DEF TypeInv, TypeOK, Parts, Events
<1> DEFINE copies == {n \in DOMAIN out[s] : out[s][n] = <<e, "text">>}
<1>2. PICK k \in Nat : k = Len(out[s]) /\ DOMAIN out[s] = 1..k
  BY <1>1
<1>3. IsFiniteSet(copies) /\ k + 1 \notin copies
  <2>1. IsFiniteSet(1..k)
    BY FS_Interval
  <2>2. copies \subseteq 1..k
    BY <1>2
  <2>3. k + 1 \notin 1..k
    OBVIOUS
  <2> HIDE DEF copies
  <2>. QED
    BY <2>1, <2>2, <2>3, FS_Subset
<1>4. Times(s, e) = Cardinality(copies) /\ Times(s, e) \in Nat
  <2>1. Times(s, e) = Cardinality(copies)
    BY DEF Times
  <2> HIDE DEF copies
  <2>. QED
    BY <1>3, <2>1, FS_CardinalityType
<1>5. Times(s, e)' = Cardinality(copies')
  BY DEF Times
<1>6. CASE s # r
  <2>1. out'[s] = out[s]
    BY <1>1, <1>6 DEF Puts
  <2>2. copies' = copies
    BY <2>1
  <2> HIDE DEF copies
  <2>. QED
    BY <1>4, <1>5, <1>6, <2>2
<1>7. CASE s = r
  <2>1. out'[s] = Append(out[s], <<ev[t], part>>) /\ out[s] \in Seq(Parts)
    BY <1>1, <1>7 DEF Puts
  <2>2. /\ DOMAIN out'[s] = 1..(k + 1) /\ out'[s][k + 1] = <<ev[t], part>>
        /\ \A n \in 1..k : out'[s][n] = out[s][n]
    BY <1>2, <2>1
  <2>3. \A n \in 1..(k + 1) : n \in 1..k \/ n = k + 1
    OBVIOUS
  <2>4. k + 1 \in 1..(k + 1) /\ \A n \in 1..k : n \in 1..(k + 1)
    OBVIOUS
  <2>5. CASE part = "text" /\ e = ev[t]
    <3>1. copies' = copies \cup {k + 1}
      BY <1>2, <2>2, <2>3, <2>4, <2>5
    <3> HIDE DEF copies
    <3>2. Cardinality(copies \cup {k + 1}) = Cardinality(copies) + 1
      BY <1>3, FS_AddElement
    <3>. QED
      BY <1>4, <1>5, <1>7, <2>5, <3>1, <3>2
  <2>6. CASE ~(part = "text" /\ e = ev[t])
    <3>1. <<ev[t], part>> # <<e, "text">>
      BY <2>6
    <3>2. copies' = copies
      BY <1>2, <2>2, <2>3, <2>4, <3>1
    <3> HIDE DEF copies
    <3>. QED
      BY <1>4, <1>5, <2>6, <3>2
  <2>. QED
    BY <2>5, <2>6
<1>. QED
  BY <1>6, <1>7

LEMMA TimesSame ==
    ASSUME UNCHANGED out, NEW s, NEW e
    PROVE  Times(s, e)' = Times(s, e)
BY DEF Times

LEMMA NoneYet ==
    ASSUME OrderInv, NEW t \in Threads, pc[t] = "lock", NEW s \in Sinks
    PROVE  Times(s, ev[t]) = 0
<1>1. ASSUME NEW n \in DOMAIN out[s] PROVE out[s][n] # <<ev[t], "text">>
  <2>1. n \in Places(s)
    BY EventTypes DEF OrderInv, Places
  <2>2. EventAt(s, n) # ev[t]
    BY <2>1, NotYetWritten
  <2>. QED
    BY <2>2 DEF EventAt
<1>2. {n \in DOMAIN out[s] : out[s][n] = <<ev[t], "text">>} = {}
  BY <1>1
<1>. QED
  BY <1>2, FS_EmptySet DEF Times
\* What the next state is asked, with the event and the index at hand.
LEMMA FilesNext ==
    ASSUME NEW t \in Threads, NEW e, NEW k, ev'[t] = e, i'[t] = k,
           \A f \in Files : Times(f, e)' = Cardinality(Owed(t, f, k))'
    PROVE  FilesOK(t)'
BY DEF FilesOK, Times, Owed

LEMMA StderrNext ==
    ASSUME NEW t \in Threads, NEW e, NEW k, ev'[t] = e, i'[t] = k,
           k = 0 => Times("stderr", e)' = 0,
           pc'[t] = "level" => FALSE \in seen'[t].quiet,
           pc'[t] \in {"head", "text"} /\ k = 0 => Due(t)',
           k > 0 => \/ Times("stderr", e)' = 1 /\ Due(t)'
                    \/ Times("stderr", e)' = 0 /\ NotDue(t)'
    PROVE  StderrOK(t)'
BY DEF StderrOK, Times

Accounts(t) == LoopOK(t) /\ FilesOK(t) /\ StderrOK(t)

\* Nothing is asked of a thread that has not taken the lock.
LEMMA OutsideAccounts ==
    ASSUME NEW t \in Threads, pc'[t] \in {"idle", "lock"}, i'[t] = 0
    PROVE  Accounts(t)'
BY DEF Accounts, LoopOK, FilesOK, StderrOK, Inside

\* Steps of others, and of the settings.
LEMMA KeepsAccounts ==
    ASSUME NEW t \in Threads, Accounts(t), TypeInv,
           pc'[t] = pc[t], i'[t] = i[t], ev'[t] = ev[t],
           Inside(t) => UNCHANGED <<out, callbacks, accepted>>,
           Inside(t) => seen[t].quiet \subseteq seen'[t].quiet /\ seen[t].level \subseteq seen'[t].level
    PROVE  Accounts(t)'
<1>1. CASE pc[t] \in {"idle", "lock"}
  <2>1. i'[t] = 0
    BY <1>1 DEF Accounts, LoopOK
  <2>. QED
    BY <1>1, <2>1, OutsideAccounts
<1>2. CASE pc[t] \notin {"idle", "lock"}
  <2>1. /\ UNCHANGED <<out, callbacks, accepted>>
        /\ seen[t].quiet \subseteq seen'[t].quiet /\ seen[t].level \subseteq seen'[t].level
        /\ Inside(t) /\ Inside(t)'
    BY <1>2 DEF Inside
  <2>2. LoopOK(t)'
    BY <2>1 DEF Accounts, LoopOK
  <2>3. PICK e \in Events, k \in Nat : e = ev[t] /\ k = i[t]
    BY EventTypes, DeliveryTypes
  <2>4. \A s : Times(s, e)' = Times(s, e)
    BY <2>1, TimesSame
  <2>5. FilesOK(t)'
    <3>1. ASSUME NEW f \in Files PROVE Times(f, e)' = Cardinality(Owed(t, f, k))'
      <4>1. Times(f, e) = Cardinality(Owed(t, f, k))
        BY <2>1, <2>3 DEF Accounts, FilesOK
      <4>2. Owed(t, f, k)' = Owed(t, f, k)
        BY <2>1 DEF Owed
      <4>. QED
        BY <2>4, <4>1, <4>2
    <3>. QED
      BY <2>3, <3>1, FilesNext
  <2>6. (Due(t) => Due(t)') /\ (NotDue(t) => NotDue(t)')
    BY <2>1 DEF Due, NotDue
  <2>7. StderrOK(t)'
    <3>1. /\ k = 0 => Times("stderr", e) = 0
          /\ pc[t] = "level" => FALSE \in seen[t].quiet
          /\ pc[t] \in {"head", "text"} /\ k = 0 => Due(t)
          /\ k > 0 => \/ Times("stderr", e) = 1 /\ Due(t)
                      \/ Times("stderr", e) = 0 /\ NotDue(t)
      BY <2>1, <2>3 DEF Accounts, StderrOK
    <3>2. Times("stderr", e)' = Times("stderr", e)
      BY <2>4
    <3>3. pc'[t] = "level" => FALSE \in seen'[t].quiet
      BY <2>1, <3>1
    <3>4. pc'[t] \in {"head", "text"} /\ k = 0 => Due(t)'
      BY <2>6, <3>1
    <3>5. k > 0 => \/ Times("stderr", e)' = 1 /\ Due(t)'
                   \/ Times("stderr", e)' = 0 /\ NotDue(t)'
      BY <2>6, <3>1, <3>2
    <3>6. k = 0 => Times("stderr", e)' = 0
      BY <3>1, <3>2
    <3>. QED
      BY <2>3, <3>3, <3>4, <3>5, <3>6, StderrNext
  <2>. QED
    BY <2>2, <2>5, <2>7 DEF Accounts
<1>. QED
  BY <1>1, <1>2

\* What every step of a thread that writes nothing starts from.
LEMMA Given ==
    ASSUME DeliveryInv, NEW t \in Threads
    PROVE  /\ TypeInv /\ Accounts(t) /\ TableOK
           /\ pc[t] # "idle" => quiet \in seen[t].quiet /\ level \in seen[t].level
BY DEF DeliveryInv, OrderInv, Accounts, SeenOK

LEMMA SilentAccounts ==
    ASSUME DeliveryInv, NEW t \in Threads, NEW e \in Events, NEW k \in Nat,
           ev'[t] = e, ev[t] = e, i'[t] = k, UNCHANGED <<out, callbacks, accepted>>,
           LoopOK(t)', \A f \in Files : Times(f, e) = Cardinality(Owed(t, f, k)),
           k = 0 => Times("stderr", e) = 0,
           pc'[t] = "level" => FALSE \in seen'[t].quiet,
           pc'[t] \in {"head", "text"} /\ k = 0 => Due(t)',
           k > 0 => \/ Times("stderr", e) = 1 /\ Due(t)'
                    \/ Times("stderr", e) = 0 /\ NotDue(t)'
    PROVE  Accounts(t)'
<1>1. \A s : Times(s, e)' = Times(s, e)
  BY TimesSame
<1>2. \A f \in Files : Times(f, e)' = Cardinality(Owed(t, f, k))'
  <2>1. \A f : Owed(t, f, k)' = Owed(t, f, k)
    BY DEF Owed
  <2>. QED
    BY <1>1, <2>1
<1>3. FilesOK(t)'
  BY <1>2, FilesNext
<1>4. StderrOK(t)'
  <2>1. Times("stderr", e)' = Times("stderr", e)
    BY <1>1
  <2>2. k = 0 => Times("stderr", e)' = 0
    BY <2>1
  <2>3. k > 0 => \/ Times("stderr", e)' = 1 /\ Due(t)'
                 \/ Times("stderr", e)' = 0 /\ NotDue(t)'
    BY <2>1
  <2>. QED
    BY <2>2, <2>3, StderrNext
<1>. QED
  BY <1>3, <1>4 DEF Accounts
\* As long as the record may yet go to stderr.
LEMMA FirstAccounts ==
    ASSUME DeliveryInv, NEW t \in Threads, NEW e \in Events,
           ev'[t] = e, ev[t] = e, i'[t] = 0, UNCHANGED <<out, callbacks, accepted>>,
           LoopOK(t)', \A f \in Files : Times(f, e) = Cardinality(Owed(t, f, 0)),
           Times("stderr", e) = 0,
           pc'[t] = "level" => FALSE \in seen'[t].quiet,
           pc'[t] \in {"head", "text"} => Due(t)'
    PROVE  Accounts(t)'
<1>1. PICK k \in Nat : k = 0
  OBVIOUS
<1>2. ~(k > 0)
  BY <1>1
<1>3. i'[t] = k /\ \A f \in Files : Times(f, e) = Cardinality(Owed(t, f, k))
  BY <1>1
<1>. QED
  BY <1>2, <1>3, SilentAccounts

LEMMA LockAccounts ==
    ASSUME DeliveryInv, NEW t \in Threads, Lock(t)
    PROVE  Accounts(t)'
<1>1. /\ pc[t] = "lock" /\ pc' = [pc EXCEPT ![t] = "quiet"]
      /\ UNCHANGED <<callbacks, accepted, ev, i, seen, out>>
  BY DEF Lock, Go
<1>2. TypeInv /\ Accounts(t) /\ i[t] = 0
  BY <1>1, Given DEF Accounts, LoopOK
<1>3. pc'[t] = "quiet"
  BY <1>1, <1>2 DEF TypeInv, TypeOK
<1>4. PICK e \in Events : e = ev[t]
  BY <1>2, EventTypes
<1>5. \A s \in Sinks : Times(s, e) = 0
  BY <1>1, <1>4, NoneYet DEF DeliveryInv
<1>6. \A f \in Files : Times(f, e) = Cardinality(Owed(t, f, 0))
  BY <1>2, <1>5, NothingOwed DEF Sinks
<1>7. LoopOK(t)'
  BY <1>1, <1>2, <1>3 DEF LoopOK
<1>8. Times("stderr", e) = 0
  BY <1>5 DEF Sinks
<1>. QED
  BY <1>1, <1>2, <1>3, <1>4, <1>6, <1>7, <1>8, FirstAccounts

LEMMA QuietAccounts ==
    ASSUME DeliveryInv, NEW t \in Threads, CheckQuiet(t)
    PROVE  Accounts(t)'
<1>1. /\ pc[t] = "quiet"
      /\ i' = [i EXCEPT ![t] = IF quiet THEN 1 ELSE 0]
      /\ pc' = [pc EXCEPT ![t] = IF quiet THEN "callbacks" ELSE "level"]
      /\ UNCHANGED <<callbacks, accepted, ev, seen, out>>
  BY DEF CheckQuiet, Go
<1>2. TypeInv /\ Accounts(t) /\ i[t] = 0 /\ quiet \in seen[t].quiet /\ Inside(t)
  BY <1>1, Given DEF Accounts, LoopOK, Inside
<1>3. /\ quiet => pc'[t] = "callbacks" /\ i'[t] = 1
      /\ ~quiet => pc'[t] = "level" /\ i'[t] = 0
  BY <1>1, <1>2 DEF TypeInv, TypeOK
<1>4. PICK e \in Events : e = ev[t]
  BY <1>2, EventTypes
<1>5. \A f \in Files : Times(f, e) = Cardinality(Owed(t, f, 0))
  BY <1>2, <1>4 DEF Accounts, FilesOK
<1>6. Times("stderr", e) = 0
  BY <1>2, <1>4 DEF Accounts, StderrOK
<1>7. LoopOK(t)'
  BY <1>3 DEF LoopOK
<1>8. quiet \in BOOLEAN
  BY <1>2, DeliveryTypes
<1>9. CASE quiet
  <2>1. \A f \in Files : Times(f, e) = Cardinality(Owed(t, f, 1))
    BY <1>2, <1>5, NothingOwed
  <2>2. NotDue(t)'
    BY <1>1, <1>2, <1>8, <1>9 DEF NotDue
  <2>3. pc'[t] = "callbacks" /\ i'[t] = 1
    BY <1>3, <1>9
  <2>. QED
    BY <1>1, <1>4, <1>6, <1>7, <2>1, <2>2, <2>3, SilentAccounts
<1>10. CASE ~quiet
  <2>1. FALSE \in seen'[t].quiet
    BY <1>1, <1>2, <1>8, <1>10
  <2>2. pc'[t] = "level" /\ i'[t] = 0
    BY <1>3, <1>10
  <2>. QED
    BY <1>1, <1>4, <1>5, <1>6, <1>7, <2>1, <2>2, FirstAccounts
<1>. QED
  BY <1>9, <1>10

LEMMA LevelAccounts ==
    ASSUME DeliveryInv, NEW t \in Threads, CheckLevel(t)
    PROVE  Accounts(t)'
<1>1. /\ pc[t] = "level"
      /\ i' = [i EXCEPT ![t] = IF ev[t].level >= level THEN 0 ELSE 1]
      /\ pc' = [pc EXCEPT ![t] = IF ev[t].level >= level THEN "head" ELSE "callbacks"]
      /\ UNCHANGED <<callbacks, accepted, ev, seen, out>>
  BY DEF CheckLevel, Go
<1>2. /\ TypeInv /\ Accounts(t) /\ i[t] = 0 /\ level \in seen[t].level
      /\ Inside(t) /\ FALSE \in seen[t].quiet
  BY <1>1, Given DEF Accounts, LoopOK, StderrOK, Inside
<1>3. /\ ev[t].level >= level => pc'[t] = "head" /\ i'[t] = 0
      /\ ~(ev[t].level >= level) => pc'[t] = "callbacks" /\ i'[t] = 1
  BY <1>1, <1>2 DEF TypeInv, TypeOK
<1>4. PICK e \in Events : e = ev[t]
  BY <1>2, EventTypes
<1>5. \A f \in Files : Times(f, e) = Cardinality(Owed(t, f, 0))
  BY <1>2, <1>4 DEF Accounts, FilesOK
<1>6. Times("stderr", e) = 0
  BY <1>2, <1>4 DEF Accounts, StderrOK
<1>7. LoopOK(t)'
  BY <1>3 DEF LoopOK
<1>8. ev[t].level \in Nat /\ level \in Nat
  BY <1>2, DeliveryTypes
<1>9. CASE ev[t].level >= level
  <2>1. level <= ev[t].level
    BY <1>8, <1>9
  <2>2. Due(t)'
    BY <1>1, <1>2, <2>1 DEF Due
  <2>3. pc'[t] = "head" /\ i'[t] = 0
    BY <1>3, <1>9
  <2>. QED
    BY <1>1, <1>4, <1>5, <1>6, <1>7, <2>2, <2>3, FirstAccounts
<1>10. CASE ~(ev[t].level >= level)
  <2>1. level > ev[t].level
    BY <1>8, <1>10
  <2>2. NotDue(t)'
    BY <1>1, <1>2, <2>1 DEF NotDue
  <2>3. \A f \in Files : Times(f, e) = Cardinality(Owed(t, f, 1))
    BY <1>2, <1>5, NothingOwed
  <2>4. pc'[t] = "callbacks" /\ i'[t] = 1
    BY <1>3, <1>10
  <2>. QED
    BY <1>1, <1>4, <1>6, <1>7, <2>2, <2>3, <2>4, SilentAccounts
<1>. QED
  BY <1>9, <1>10

\* The slot the loop is at holds the callback that was accepted at that place.
LEMMA SlotIs ==
    ASSUME TypeInv, TableOK, NEW k \in Nat \ {0}, k <= MAX_CALLBACKS
    PROVE  /\ callbacks[k] # NoCallback <=> k \in 1..Len(accepted)
           /\ k \in 1..Len(accepted) => callbacks[k] = accepted[k]
<1>1. k \in Slots
  BY Constants DEF Slots
<1>2. Len(accepted) \in Nat
  BY DeliveryTypes
<1>3. callbacks[k] = IF k <= Len(accepted) THEN accepted[k] ELSE NoCallback
  BY <1>1 DEF TableOK
<1>4. CASE k <= Len(accepted)
  <2>1. k \in 1..Len(accepted) /\ callbacks[k] = accepted[k]
    BY <1>2, <1>3, <1>4
  <2>. QED
    BY <2>1, DeliveryTypes
<1>5. CASE ~(k <= Len(accepted))
  <2>1. k \notin 1..Len(accepted) /\ callbacks[k] = NoCallback
    BY <1>2, <1>3, <1>5
  <2>. QED
    BY <2>1
<1>. QED
  BY <1>4, <1>5

LEMMA CallbackAccounts ==
    ASSUME DeliveryInv, NEW t \in Threads, NextCallback(t)
    PROVE  Accounts(t)'
<1> DEFINE more == i[t] <= MAX_CALLBACKS /\ callbacks[i[t]] # NoCallback
           takes == more /\ ev[t].level >= callbacks[i[t]].level
<1>1. /\ pc[t] = "callbacks"
      /\ pc' = [pc EXCEPT ![t] = IF takes THEN "head" ELSE IF more THEN "callbacks" ELSE "unlock"]
      /\ i' = [i EXCEPT ![t] = IF more /\ ~takes THEN @ + 1 ELSE @]
      /\ UNCHANGED <<callbacks, accepted, ev, seen, out>>
  BY DEF NextCallback, Go
<1>2. TypeInv /\ TableOK /\ Accounts(t) /\ Inside(t)
  BY <1>1, Given DEF Inside
<1>3. PICK e \in Events, k \in Nat \ {0} : e = ev[t] /\ k = i[t]
  <2>1. i[t] >= 1 /\ i[t] \in Nat
    BY <1>1, <1>2, DeliveryTypes DEF TypeInv, IndexOK
  <2>2. i[t] \in Nat \ {0}
    BY <2>1
  <2>. QED
    BY <1>2, <2>2, EventTypes
<1>4. /\ takes => pc'[t] = "head" /\ i'[t] = k
      /\ more /\ ~takes => pc'[t] = "callbacks" /\ i'[t] = k + 1
      /\ ~more => pc'[t] = "unlock" /\ i'[t] = k
  <2> HIDE DEF more
  <2>. QED
    BY <1>1, <1>2, <1>3 DEF TypeInv, TypeOK
<1>5. more <=> k \in 1..Len(accepted)
  <2>1. Len(accepted) \in Nat /\ Len(accepted) <= MAX_CALLBACKS
    BY <1>2, DeliveryTypes DEF TableOK
  <2>2. CASE k <= MAX_CALLBACKS
    BY <1>2, <1>3, <2>2, SlotIs
  <2>3. CASE ~(k <= MAX_CALLBACKS)
    BY <1>3, <2>1, <2>3, Constants
  <2>. QED
    BY <2>2, <2>3
<1>6. more => callbacks[k] = accepted[k]
  BY <1>2, <1>3, <1>5, SlotIs
<1>7. /\ \A f \in Files : Times(f, e) = Cardinality(Owed(t, f, k))
      /\ \/ Times("stderr", e) = 1 /\ Due(t)
         \/ Times("stderr", e) = 0 /\ NotDue(t)
  BY <1>2, <1>3 DEF Accounts, FilesOK, StderrOK
<1>8. (Due(t) => Due(t)') /\ (NotDue(t) => NotDue(t)')
  BY <1>1 DEF Due, NotDue
<1>9. /\ e.level \in Nat
      /\ \A n \in 1..Len(accepted) : accepted[n].level \in Nat
  BY <1>2, <1>3, DeliveryTypes, EventFields
<1>10. /\ UNCHANGED <<out, callbacks, accepted, ev>> /\ ev'[t] = e /\ ev[t] = e
  BY <1>1, <1>3
<1>11. CASE takes
  <2>1. pc'[t] = "head" /\ i'[t] = k /\ callbacks[k].level <= e.level
    <3>1. k \in 1..Len(accepted) /\ callbacks[k] = accepted[k]
      BY <1>5, <1>6, <1>11
    <3>2. e.level >= callbacks[k].level
      BY <1>3, <1>11
    <3>3. pc'[t] = "head" /\ i'[t] = k
      BY <1>4, <1>11
    <3>. QED
      BY <1>9, <3>1, <3>2, <3>3
  <2>2. LoopOK(t)'
    BY <1>10, <2>1 DEF LoopOK
  <2> HIDE DEF takes, more
  <2>. QED
    BY <1>3, <1>7, <1>8, <1>10, <2>1, <2>2, SilentAccounts
<1>12. CASE more /\ ~takes
  <2>1. pc'[t] = "callbacks" /\ i'[t] = k + 1
    BY <1>4, <1>12
  <2>2. ~(accepted[k].level <= e.level)
    <3>1. ~(e.level >= accepted[k].level)
      BY <1>3, <1>6, <1>12
    <3>2. accepted[k].level \in Nat
      BY <1>5, <1>9, <1>12
    <3>. QED
      BY <1>9, <3>1, <3>2
  <2>3. LoopOK(t)'
    BY <2>1 DEF LoopOK
  <2> HIDE DEF takes, more
  <2>4. \A f \in Files : Owed(t, f, k + 1) = Owed(t, f, k)
    BY <1>2, <1>3, <2>2, OwedNext
  <2>5. \A f \in Files : Times(f, e) = Cardinality(Owed(t, f, k + 1))
    BY <1>7, <2>4
  <2>6. k + 1 \in Nat /\ k + 1 # 0
    BY <1>3
  <2>. QED
    BY <1>7, <1>8, <1>10, <2>1, <2>3, <2>5, <2>6, SilentAccounts
<1>13. CASE ~more
  <2>1. pc'[t] = "unlock" /\ i'[t] = k
    BY <1>4, <1>13
  <2>2. k > Len(accepted)
    BY <1>2, <1>3, <1>5, <1>13, DeliveryTypes
  <2>3. LoopOK(t)'
    BY <1>10, <2>1, <2>2 DEF LoopOK
  <2> HIDE DEF takes, more
  <2>. QED
    BY <1>3, <1>7, <1>8, <1>10, <2>1, <2>3, SilentAccounts
<1>. QED
  BY <1>11, <1>12, <1>13
LEMMA HeadAccounts ==
    ASSUME DeliveryInv, NEW t \in Threads, WriteHead(t)
    PROVE  Accounts(t)'
<1>1. /\ pc[t] = "head" /\ pc' = [pc EXCEPT ![t] = "text"]
      /\ out' = [out EXCEPT ![Sink(t)] = Append(@, <<ev[t], "head">>)]
      /\ UNCHANGED <<callbacks, accepted, ev, i, seen>>
  BY DEF WriteHead, Write, Go
<1>2. TypeInv /\ Accounts(t) /\ Inside(t) /\ Sink(t) \in Sinks
  BY <1>1, Given, SinkType DEF Inside
<1>3. pc'[t] = "text"
  BY <1>1, <1>2 DEF TypeInv, TypeOK
<1>4. PICK e \in Events, k \in Nat : e = ev[t] /\ k = i[t]
  BY <1>2, EventTypes, DeliveryTypes
<1>5. \A s \in Sinks : Times(s, e)' = Times(s, e)
  <2> DEFINE r == Sink(t)
  <2>1. r \in Sinks /\ Puts(t, "head", r)
    BY <1>1, <1>2 DEF Puts
  <2> HIDE DEF r
  <2>2. "head" # "text" /\ "head" \in {"head", "text"}
    OBVIOUS
  <2>. QED
    BY <1>2, <2>1, <2>2, TimesAfter
<1>6. LoopOK(t)'
  BY <1>1, <1>2, <1>3 DEF Accounts, LoopOK
<1>7. FilesOK(t)'
  <2>1. \A f \in Files : Times(f, e) = Cardinality(Owed(t, f, k))
    BY <1>2, <1>4 DEF Accounts, FilesOK
  <2>2. \A f : Owed(t, f, k)' = Owed(t, f, k)
    BY <1>1 DEF Owed
  <2>3. \A f \in Files : Times(f, e)' = Cardinality(Owed(t, f, k))'
    BY <1>5, <2>1, <2>2 DEF Sinks
  <2>. QED
    BY <1>1, <1>4, <2>3, FilesNext
<1>8. StderrOK(t)'
  <2>1. /\ k = 0 => Times("stderr", e) = 0
        /\ k = 0 => Due(t)
        /\ k > 0 => \/ Times("stderr", e) = 1 /\ Due(t)
                    \/ Times("stderr", e) = 0 /\ NotDue(t)
    BY <1>1, <1>2, <1>4 DEF Accounts, StderrOK
  <2>2. Times("stderr", e)' = Times("stderr", e)
    BY <1>5 DEF Sinks
  <2>3. (Due(t) => Due(t)') /\ (NotDue(t) => NotDue(t)')
    BY <1>1 DEF Due, NotDue
  <2>4. k = 0 => Times("stderr", e)' = 0
    BY <2>1, <2>2
  <2>5. k > 0 => \/ Times("stderr", e)' = 1 /\ Due(t)'
                 \/ Times("stderr", e)' = 0 /\ NotDue(t)'
    BY <2>1, <2>2, <2>3
  <2>6. ev'[t] = e /\ i'[t] = k
    BY <1>1, <1>4
  <2>. QED
    <3>1. CASE k = 0
      <4>1. ~(k > 0) /\ Times("stderr", e)' = 0 /\ Due(t)' /\ pc'[t] # "level"
        BY <1>3, <2>1, <2>3, <2>4, <3>1
      <4>. QED
        BY <2>6, <4>1, StderrNext
    <3>2. CASE k > 0
      <4>1. k # 0 /\ pc'[t] # "level"
        BY <1>3, <3>2
      <4>2. \/ Times("stderr", e)' = 1 /\ Due(t)'
            \/ Times("stderr", e)' = 0 /\ NotDue(t)'
        BY <2>5, <3>2
      <4>. QED
        BY <2>6, <4>1, <4>2 DEF StderrOK, Times
    <3>. QED
      BY <1>4, <3>1, <3>2
<1>. QED
  BY <1>6, <1>7, <1>8 DEF Accounts

\* The record is complete: one more copy, and one callback fewer to call.
LEMMA TextAccounts ==
    ASSUME DeliveryInv, NEW t \in Threads, WriteText(t)
    PROVE  Accounts(t)'
<1>1. /\ pc[t] = "text" /\ pc' = [pc EXCEPT ![t] = "callbacks"]
      /\ out' = [out EXCEPT ![Sink(t)] = Append(@, <<ev[t], "text">>)]
      /\ i' = [i EXCEPT ![t] = @ + 1]
      /\ UNCHANGED <<callbacks, accepted, ev, seen>>
  BY DEF WriteText, Write, Go
<1>2. TypeInv /\ TableOK /\ Accounts(t) /\ Inside(t) /\ Sink(t) \in Sinks
  BY <1>1, Given, SinkType DEF Inside
<1>3. PICK e \in Events, k \in Nat : e = ev[t] /\ k = i[t]
  BY <1>2, EventTypes, DeliveryTypes
<1>4. pc'[t] = "callbacks" /\ i'[t] = k + 1 /\ ev'[t] = e
  BY <1>1, <1>2, <1>3 DEF TypeInv, TypeOK
<1>5. PICK r \in Sinks : r = Sink(t)
  BY <1>2
<1>6. ASSUME NEW s \in Sinks
      PROVE  /\ s = r => Times(s, e)' = Times(s, e) + 1
             /\ s # r => Times(s, e)' = Times(s, e)
  <2>1. PICK part \in {"head", "text"} : part = "text"
    OBVIOUS
  <2>2. Puts(t, part, r)
    BY <1>1, <1>5, <2>1 DEF Puts
  <2>3. e = ev[t]
    BY <1>3
  <2>4. CASE s = r
    <3>1. Times(s, e)' = Times(s, e) + 1
      BY <1>2, <2>1, <2>2, <2>3, <2>4, TimesAfter
    <3>. QED
      BY <2>4, <3>1
  <2>5. CASE s # r
    <3>1. Times(s, e)' = Times(s, e)
      BY <1>2, <2>2, <2>5, TimesAfter
    <3>. QED
      BY <2>5, <3>1
  <2>. QED
    BY <2>4, <2>5
<1>7. LoopOK(t)'
  BY <1>4 DEF LoopOK
<1>8. \A f \in Files : Times(f, e) = Cardinality(Owed(t, f, k))
  BY <1>2, <1>3 DEF Accounts, FilesOK
<1>9. \A f : Owed(t, f, k + 1)' = Owed(t, f, k + 1)
  BY <1>1 DEF Owed
<1>10. /\ "stderr" \in Sinks /\ \A f \in Files : f \in Sinks /\ f # "stderr"
  BY LogAssumption DEF Sinks
<1>11. (Due(t) => Due(t)') /\ (NotDue(t) => NotDue(t)')
  BY <1>1 DEF Due, NotDue
<1>12. k + 1 > 0 /\ k + 1 # 0
  BY <1>3
<1>13. CASE k = 0
  <2>1. r = "stderr"
    BY <1>3, <1>5, <1>13 DEF Sink
  <2>2. FilesOK(t)'
    <3>1. ASSUME NEW f \in Files PROVE Times(f, e)' = Cardinality(Owed(t, f, k + 1))'
      <4>1. Times(f, e)' = Times(f, e)
        BY <1>6, <1>10, <2>1
      <4>2. k \notin 1..Len(accepted)
        BY <1>13
      <4>3. Owed(t, f, k + 1) = Owed(t, f, k)
        BY <1>2, <1>3, <4>2, OwedNext
      <4>. QED
        BY <1>8, <1>9, <4>1, <4>3
    <3>. QED
      BY <1>4, <3>1, FilesNext
  <2>3. Times("stderr", e) = 0 /\ Due(t)
    BY <1>1, <1>2, <1>3, <1>13 DEF Accounts, StderrOK
  <2>4. Times("stderr", e)' = 1
    <3>1. Times("stderr", e)' = Times("stderr", e) + 1
      BY <1>6, <1>10, <2>1
    <3>. QED
      BY <2>3, <3>1
  <2>5. StderrOK(t)'
    BY <1>4, <1>11, <1>12, <2>3, <2>4, StderrNext
  <2>. QED
    BY <1>7, <2>2, <2>5 DEF Accounts
<1>14. CASE k > 0
  <2>1. k <= MAX_CALLBACKS /\ callbacks[k] # NoCallback /\ callbacks[k].level <= e.level
    BY <1>1, <1>2, <1>3, <1>14 DEF TypeInv, IndexOK, Accounts, LoopOK
  <2>2. /\ k \in 1..Len(accepted) /\ callbacks[k] = accepted[k]
        /\ accepted[k].level <= e.level
    <3>1. k \in Nat \ {0}
      BY <1>14
    <3>2. k \in 1..Len(accepted) /\ callbacks[k] = accepted[k]
      BY <1>2, <2>1, <3>1, SlotIs
    <3>. QED
      BY <2>1, <3>2
  <2>3. r = accepted[k].sink /\ r \in Files
    <3>1. r = callbacks[k].sink
      BY <1>3, <1>5, <1>14 DEF Sink
    <3>2. accepted[k].sink \in Files
      BY <1>2, <2>2, DeliveryTypes
    <3>. QED
      BY <2>2, <3>1, <3>2
  <2>4. FilesOK(t)'
    <3>1. ASSUME NEW f \in Files PROVE Times(f, e)' = Cardinality(Owed(t, f, k + 1))'
      <4>1. CASE f = r
        <5>1. Times(f, e)' = Times(f, e) + 1
          BY <1>6, <1>10, <4>1
        <5>2. Cardinality(Owed(t, f, k + 1)) = Cardinality(Owed(t, f, k)) + 1
          BY <1>2, <1>3, <2>2, <2>3, <4>1, OwedNext
        <5>3. Times(f, e) = Cardinality(Owed(t, f, k)) /\ Owed(t, f, k + 1)' = Owed(t, f, k + 1)
          BY <1>8, <1>9
        <5>. QED
          BY <5>1, <5>2, <5>3
      <4>2. CASE f # r
        <5>1. Times(f, e)' = Times(f, e)
          BY <1>6, <1>10, <4>2
        <5>2. Owed(t, f, k + 1) = Owed(t, f, k)
          BY <1>2, <1>3, <2>3, <4>2, OwedNext
        <5>3. Times(f, e) = Cardinality(Owed(t, f, k)) /\ Owed(t, f, k + 1)' = Owed(t, f, k + 1)
          BY <1>8, <1>9
        <5>. QED
          BY <5>1, <5>2, <5>3
      <4>. QED
        BY <4>1, <4>2
    <3>. QED
      BY <1>4, <3>1, FilesNext
  <2>5. \/ Times("stderr", e) = 1 /\ Due(t)
        \/ Times("stderr", e) = 0 /\ NotDue(t)
    BY <1>2, <1>3, <1>14 DEF Accounts, StderrOK
  <2>6. Times("stderr", e)' = Times("stderr", e)
    BY <1>6, <1>10, <2>3
  <2>7. \/ Times("stderr", e)' = 1 /\ Due(t)'
        \/ Times("stderr", e)' = 0 /\ NotDue(t)'
    BY <1>11, <2>5, <2>6
  <2>8. StderrOK(t)'
    BY <1>4, <1>12, <2>7, StderrNext
  <2>. QED
    BY <1>7, <2>4, <2>8 DEF Accounts
<1>. QED
  BY <1>3, <1>13, <1>14

LEMMA InitDeliveryInv == Init => DeliveryInv
<1> SUFFICES ASSUME Init PROVE DeliveryInv
  OBVIOUS
<1>1. OrderInv
  BY InitOrderInv
<1>2. TableOK
  <2>1. accepted = <<>> /\ \A s \in Slots : callbacks[s] = NoCallback
    BY DEF Init
  <2>2. Len(accepted) = 0 /\ \A s \in Slots : ~(s <= 0)
    BY <2>1, Constants DEF Slots
  <2>. QED
    BY <2>1, <2>2, Constants DEF TableOK
<1>3. SeenOK
  BY DEF Init, SeenOK
<1>4. ASSUME NEW t \in Threads PROVE LoopOK(t) /\ FilesOK(t) /\ StderrOK(t)
  BY DEF Init, LoopOK, FilesOK, StderrOK, Inside
<1>. QED
  BY <1>1, <1>2, <1>3, <1>4 DEF DeliveryInv

\* log_add_callback takes the slot after the last that is used.
LEMMA AddTable ==
    ASSUME TypeInv, TableOK, NEW cb \in Callbacks, log_add_callback(cb)
    PROVE  TableOK'
<1>1. PICK k \in Nat : k = Len(accepted)
  BY DeliveryTypes
<1>2. /\ k <= MAX_CALLBACKS
      /\ \A s \in Slots : callbacks[s] = IF s <= k THEN accepted[s] ELSE NoCallback
  BY <1>1 DEF TableOK
<1>3. \A s \in Slots : s \in Free <=> s > k
  <2> SUFFICES ASSUME NEW s \in Slots PROVE s \in Free <=> s > k
    OBVIOUS
  <2>1. s \in Nat /\ s >= 1
    BY Constants DEF Slots
  <2>2. CASE s <= k
    <3>1. accepted[s] # NoCallback
      BY <1>1, <2>1, <2>2, DeliveryTypes
    <3>. QED
      BY <1>2, <2>1, <2>2, <3>1 DEF Free
  <2>3. CASE ~(s <= k)
    BY <1>2, <2>1, <2>3 DEF Free
  <2>. QED
    BY <2>2, <2>3
<1>4. k + 1 \in Free /\ \A f \in Free : k + 1 <= f
  <2>1. PICK s \in Slots : s > k
    BY <1>3 DEF log_add_callback, Free
  <2>2. k + 1 \in Slots
    BY <2>1, Constants DEF Slots
  <2>3. \A f \in Free : f \in Slots /\ f \in Nat
    BY Constants DEF Free, Slots
  <2>4. ASSUME NEW f \in Free PROVE k + 1 <= f
    <3>1. f > k /\ f \in Nat
      BY <1>3, <2>3
    <3>. QED
      BY <3>1
  <2>. QED
    BY <1>3, <2>2, <2>4
<1>5. PICK c \in Free : c = CHOOSE s \in Free : \A f \in Free : s <= f
  BY <1>4
<1>6. c = k + 1
  <2>1. \A f \in Free : c <= f
    BY <1>4, <1>5
  <2>2. c \in Nat
    BY Constants DEF Free, Slots
  <2>3. c <= k + 1 /\ k + 1 <= c
    BY <1>4, <2>1
  <2>. QED
    BY <2>2, <2>3
<1>7. callbacks' = [callbacks EXCEPT ![k + 1] = cb] /\ accepted' = Append(accepted, cb)
  BY <1>5, <1>6 DEF log_add_callback
<1>8. /\ Len(accepted') = k + 1 /\ accepted'[k + 1] = cb
      /\ \A n \in 1..k : accepted'[n] = accepted[n]
  BY <1>1, <1>7, DeliveryTypes
<1>9. k + 1 <= MAX_CALLBACKS /\ k + 1 \in Slots
  BY <1>4, Constants DEF Free, Slots
<1>10. ASSUME NEW s \in Slots
       PROVE  callbacks'[s] = IF s <= k + 1 THEN accepted'[s] ELSE NoCallback
  <2>1. /\ s = k + 1 => callbacks'[s] = cb
        /\ s # k + 1 => callbacks'[s] = callbacks[s]
    BY <1>7 DEF TypeInv, TypeOK
  <2>2. s \in Nat /\ s >= 1
    BY Constants DEF Slots
  <2>3. CASE s = k + 1
    BY <1>8, <2>1, <2>3
  <2>4. CASE s <= k
    <3>1. s \in 1..k /\ s # k + 1 /\ s <= k + 1
      BY <2>2, <2>4
    <3>. QED
      BY <1>2, <1>8, <2>1, <2>4, <3>1
  <2>5. CASE s > k + 1
    <3>1. s # k + 1 /\ ~(s <= k) /\ ~(s <= k + 1)
      BY <2>2, <2>5
    <3>. QED
      BY <1>2, <2>1, <3>1
  <2>. QED
    BY <2>2, <2>3, <2>4, <2>5
<1>. QED
  BY <1>8, <1>9, <1>10 DEF TableOK
LEMMA SettingsDelivery ==
    ASSUME DeliveryInv, OrderInv', \/ \E l \in Levels : log_set_level(l)
                                   \/ \E enable \in BOOLEAN : log_set_quiet(enable)
    PROVE  DeliveryInv'
<1>1. /\ UNCHANGED <<callbacks, accepted, pc, ev, i, out>>
      /\ \A t \in Threads :
            /\ seen[t].quiet \subseteq seen'[t].quiet /\ seen[t].level \subseteq seen'[t].level
            /\ pc[t] # "idle" /\ quiet \in seen[t].quiet /\ level \in seen[t].level =>
                  quiet' \in seen'[t].quiet /\ level' \in seen'[t].level
  <2>1. seen \in [Threads -> [quiet : SUBSET BOOLEAN, level : SUBSET Levels]]
    BY DEF DeliveryInv, OrderInv, TypeInv, TypeOK
  <2>2. ASSUME NEW l \in Levels, log_set_level(l), NEW t \in Threads
        PROVE  /\ seen'[t].quiet = seen[t].quiet
               /\ IF pc[t] # "idle" THEN seen'[t].level = seen[t].level \cup {l}
                                    ELSE seen'[t].level = seen[t].level
    <3>1. seen[t] \in [quiet : SUBSET BOOLEAN, level : SUBSET Levels]
      BY <2>1
    <3>. QED
      BY <2>2, <3>1 DEF log_set_level, Calling
  <2>3. ASSUME NEW enable \in BOOLEAN, log_set_quiet(enable), NEW t \in Threads
        PROVE  /\ seen'[t].level = seen[t].level
               /\ IF pc[t] # "idle" THEN seen'[t].quiet = seen[t].quiet \cup {enable}
                                    ELSE seen'[t].quiet = seen[t].quiet
    <3>1. seen[t] \in [quiet : SUBSET BOOLEAN, level : SUBSET Levels]
      BY <2>1
    <3>. QED
      BY <2>3, <3>1 DEF log_set_quiet, Calling
  <2>4. CASE \E l \in Levels : log_set_level(l)
    <3>1. PICK l \in Levels : log_set_level(l)
      BY <2>4
    <3>2. /\ level' = l /\ UNCHANGED quiet
          /\ UNCHANGED <<callbacks, accepted, pc, ev, i, out>>
      BY <3>1 DEF log_set_level
    <3>. QED
      BY <2>2, <3>1, <3>2
  <2>5. CASE \E enable \in BOOLEAN : log_set_quiet(enable)
    <3>1. PICK enable \in BOOLEAN : log_set_quiet(enable)
      BY <2>5
    <3>2. /\ quiet' = enable /\ UNCHANGED level
          /\ UNCHANGED <<callbacks, accepted, pc, ev, i, out>>
      BY <3>1 DEF log_set_quiet
    <3>. QED
      BY <2>3, <3>1, <3>2
  <2>. QED
    BY <2>4, <2>5
<1>2. TableOK'
  BY <1>1 DEF DeliveryInv, TableOK
<1>3. SeenOK'
  BY <1>1 DEF DeliveryInv, SeenOK
<1>4. ASSUME NEW t \in Threads PROVE Accounts(t)'
  BY <1>1, Given, KeepsAccounts
<1>. QED
  BY <1>2, <1>3, <1>4 DEF DeliveryInv, Accounts

LEMMA AddDelivery ==
    ASSUME DeliveryInv, OrderInv', NEW cb \in Callbacks, log_add_callback(cb)
    PROVE  DeliveryInv'
<1>1. /\ UNCHANGED <<level, quiet, pc, ev, i, seen, out>>
      /\ \A t \in Threads : pc[t] = "idle"
  BY DEF log_add_callback, Calling
<1>2. TableOK'
  BY AddTable DEF DeliveryInv, OrderInv
<1>3. SeenOK'
  BY <1>1 DEF SeenOK
<1>4. ASSUME NEW t \in Threads PROVE Accounts(t)'
  <2>1. pc'[t] = "idle" /\ i'[t] = 0
    BY <1>1, Given DEF Accounts, LoopOK
  <2>. QED
    BY <2>1, OutsideAccounts
<1>. QED
  BY <1>2, <1>3, <1>4 DEF DeliveryInv, Accounts

\* A step of one thread does nothing to the accounts of another.
LEMMA ThreadDelivery ==
    ASSUME DeliveryInv, OrderInv', NEW t \in Threads,
           (\E l \in Levels : log_log(t, l)) \/ Lock(t) \/ Step(t)
    PROVE  DeliveryInv'
<1>1. TypeInv
  BY DEF DeliveryInv, OrderInv
<1>2. UNCHANGED <<level, quiet, callbacks, accepted>>
  BY DEF log_log, Lock, Step, CheckQuiet, CheckLevel, NextCallback, WriteHead, WriteText, Unlock
<1>3. /\ pc \in [Threads -> {"idle", "lock", "quiet", "level", "callbacks", "head",
                             "text", "unlock"}]
      /\ i \in [Threads -> 0..(MAX_CALLBACKS + 1)] /\ ev \in [Threads -> Events]
      /\ seen \in [Threads -> [quiet : SUBSET BOOLEAN, level : SUBSET Levels]]
  BY <1>1 DEF TypeInv, TypeOK, Events
<1>4. ASSUME NEW u \in Threads, u # t
      PROVE  pc'[u] = pc[u] /\ i'[u] = i[u] /\ ev'[u] = ev[u] /\ seen'[u] = seen[u]
  BY <1>3, <1>4 DEF log_log, Lock, Step, CheckQuiet, CheckLevel, NextCallback, WriteHead,
                    WriteText, Unlock, Go
<1>5. ASSUME NEW u \in Threads, u # t, Inside(u) PROVE UNCHANGED out
  <2>1. pc[t] \in {"idle", "lock"}
    BY <1>1, <1>5, OneWriter DEF Inside
  <2>. QED
    BY <2>1 DEF log_log, Lock, Step, CheckQuiet, CheckLevel, NextCallback, WriteHead,
                WriteText, Unlock
<1>6. ASSUME NEW u \in Threads, u # t PROVE Accounts(u)'
  <2>1. Inside(u) => UNCHANGED <<out, callbacks, accepted>>
    BY <1>2, <1>5, <1>6
  <2>2. pc'[u] = pc[u] /\ i'[u] = i[u] /\ ev'[u] = ev[u] /\ seen'[u] = seen[u]
    BY <1>4, <1>6
  <2>. QED
    BY <2>1, <2>2, Given, KeepsAccounts
<1>7. Accounts(t)'
  <2>1. CASE \E l \in Levels : log_log(t, l)
    <3>1. pc[t] = "idle" /\ pc' = [pc EXCEPT ![t] = "lock"] /\ UNCHANGED i
      BY <2>1 DEF log_log, Go
    <3>2. pc'[t] = "lock" /\ i'[t] = 0
      BY <1>3, <3>1, Given DEF Accounts, LoopOK
    <3>. QED
      BY <3>2, OutsideAccounts
  <2>2. CASE Unlock(t)
    <3>1. pc'[t] = "idle" /\ i'[t] = 0
      BY <1>3, <2>2 DEF Unlock, Go
    <3>. QED
      BY <3>1, OutsideAccounts
  <2>. QED
    BY <2>1, <2>2, LockAccounts, QuietAccounts, LevelAccounts, CallbackAccounts, HeadAccounts,
       TextAccounts DEF Step
<1>8. TableOK'
  BY <1>2 DEF DeliveryInv, TableOK
<1>9. SeenOK'
  <2>1. ASSUME pc'[t] # "idle" PROVE quiet \in seen'[t].quiet /\ level \in seen'[t].level
    <3>1. CASE \E l \in Levels : log_log(t, l)
      <4>1. seen'[t] = [quiet |-> {quiet}, level |-> {level}]
        BY <1>3, <3>1 DEF log_log
      <4>. QED
        BY <4>1
    <3>2. CASE Unlock(t)
      BY <1>3, <2>1, <3>2 DEF Unlock, Go
    <3>3. CASE Lock(t) \/ CheckQuiet(t) \/ CheckLevel(t) \/ NextCallback(t) \/ WriteHead(t)
               \/ WriteText(t)
      <4>1. pc[t] # "idle" /\ UNCHANGED seen
        BY <3>3 DEF Lock, CheckQuiet, CheckLevel, NextCallback, WriteHead, WriteText
      <4>. QED
        BY <4>1, Given
    <3>. QED
      BY <3>1, <3>2, <3>3 DEF Step
  <2>. QED
    BY <1>2, <1>4, <2>1 DEF DeliveryInv, SeenOK
<1>10. \A u \in Threads : Accounts(u)'
  BY <1>6, <1>7
<1>. QED
  BY <1>8, <1>9, <1>10 DEF DeliveryInv, Accounts

LEMMA NextDeliveryInv == DeliveryInv /\ [Next]_vars => DeliveryInv'
<1> SUFFICES ASSUME DeliveryInv, [Next]_vars PROVE DeliveryInv'
  OBVIOUS
<1>1. OrderInv'
  BY NextOrderInv DEF DeliveryInv
<1>2. CASE UNCHANGED vars
  <2>1. UNCHANGED <<level, quiet, callbacks, accepted, pc, ev, i, seen, out>>
    BY <1>2 DEF vars
  <2>2. TableOK' /\ SeenOK'
    BY <2>1 DEF DeliveryInv, TableOK, SeenOK
  <2>3. ASSUME NEW t \in Threads PROVE Accounts(t)'
    BY <2>1, Given, KeepsAccounts
  <2>. QED
    BY <1>1, <2>2, <2>3 DEF DeliveryInv, Accounts
<1>. QED
  BY <1>1, <1>2, SettingsDelivery, AddDelivery, ThreadDelivery DEF Next

\* A call that returns has written its record once for every callback that was
\* accepted and whose level it has, and to stderr as the settings were.
THEOREM RecordsDelivered == Spec => []Delivered
<1>1. Spec => []DeliveryInv
  BY InitDeliveryInv, NextDeliveryInv, PTL DEF Spec
<1>2. DeliveryInv => Delivered
  <2> SUFFICES ASSUME DeliveryInv, NEW t \in Threads, pc[t] = "unlock", NEW e, e = ev[t]
               PROVE  /\ \A f \in Files :
                            Times(f, e) = Cardinality({n \in 1..Len(accepted) :
                                    accepted[n].sink = f /\ accepted[n].level <= e.level})
                      /\ TRUE \notin seen[t].quiet /\ (\A l \in seen[t].level : l <= e.level)
                            => Times("stderr", e) = 1
                      /\ FALSE \notin seen[t].quiet \/ (\A l \in seen[t].level : l > e.level)
                            => Times("stderr", e) = 0
    BY DEF Delivered
  <2>1. TypeInv /\ Accounts(t) /\ Inside(t) /\ i[t] \in Nat /\ i[t] > Len(accepted)
    BY Given, DeliveryTypes DEF Accounts, LoopOK, Inside
  <2>2. ASSUME NEW f \in Files
        PROVE  Times(f, e) = Cardinality({n \in 1..Len(accepted) :
                                accepted[n].sink = f /\ accepted[n].level <= e.level})
    <3>1. \A n \in 1..Len(accepted) : n < i[t]
      BY <2>1, DeliveryTypes
    <3>2. Owed(t, f, i[t]) = {n \in 1..Len(accepted) :
                                accepted[n].sink = f /\ accepted[n].level <= e.level}
      BY <3>1 DEF Owed
    <3>. QED
      BY <2>1, <3>2 DEF Accounts, FilesOK
  <2>3. i[t] > 0
    BY <2>1, DeliveryTypes
  <2>4. \/ Times("stderr", e) = 1 /\ Due(t)
        \/ Times("stderr", e) = 0 /\ NotDue(t)
    BY <2>1, <2>3 DEF Accounts, StderrOK
  <2>5. \A l \in seen[t].level : l \in Nat /\ e.level \in Nat
    BY <2>1, DeliveryTypes
  <2>6. ASSUME TRUE \notin seen[t].quiet, \A l \in seen[t].level : l <= e.level, NotDue(t)
        PROVE  FALSE
    <3>1. PICK l \in seen[t].level : l > e.level
      BY <2>6 DEF NotDue
    <3>2. l <= e.level
      BY <2>6
    <3>. QED
      BY <2>5, <3>1, <3>2
  <2>7. ASSUME FALSE \notin seen[t].quiet \/ (\A l \in seen[t].level : l > e.level), Due(t)
        PROVE  FALSE
    <3>1. PICK l \in seen[t].level : l <= e.level
      BY <2>7 DEF Due
    <3>2. l > e.level
      BY <2>7 DEF Due
    <3>. QED
      BY <2>5, <3>1, <3>2
  <2>. QED
    BY <2>2, <2>4, <2>6, <2>7
<1>. QED
  BY <1>1, <1>2, PTL
=============================================================================
