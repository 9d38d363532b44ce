-------------------------------- MODULE Log --------------------------------
(***************************************************************************)
(* The logger, log.c.  Threads call log_log; each record goes to stderr    *)
(* and to the registered callbacks, which write to files.  The user's lock *)
(* (log_set_lock) is taken by log_log alone: log_set_level and             *)
(* log_set_quiet change L while records are being written.  The table of   *)
(* callbacks is not protected either, so an embedder registers them while  *)
(* nobody logs.  A record is written by several stdio calls, here two: its *)
(* head and its text.                                                      *)
(***************************************************************************)
EXTENDS Integers, Sequences, FiniteSets, SequencesExt

CONSTANTS
    Threads, NoThread,
    Files,          \* the files that log_add_fp may be given
    Levels,         \* LOG_TRACE, ..., LOG_FATAL
    MAX_CALLBACKS,
    MaxCalls        \* bound: calls of log_log in all

ASSUME LogAssumption ==
    /\ NoThread \notin Threads /\ {"stderr", "NULL"} \cap Files = {}
    /\ Levels \subseteq Nat /\ 0 \in Levels
    /\ MAX_CALLBACKS \in Nat /\ MaxCalls \in Nat

NoCallback == [sink |-> "NULL", level |-> 0]
Callbacks == [sink : Files, level : Levels]
Slots == 1..MAX_CALLBACKS

VARIABLES
    level, quiet,   \* L.level and L.quiet
    callbacks,      \* L.callbacks
    accepted,       \* the callbacks for which log_add_callback returned 0
    holder,         \* who holds the lock
    calls,          \* how often log_log was called
    pc,             \* where each thread is in log_log
    ev,             \* ev[t]: the event of t's last call
    i,              \* i[t]: the callback t's loop is at, 0 for stderr
    seen,           \* seen[t]: values L.quiet and L.level had during the call
    out             \* out[s]: what was written to sink s

vars == <<level, quiet, callbacks, accepted, holder, calls, pc, ev, i, seen, out>>
Sinks == Files \cup {"stderr"}

Init ==
    /\ level = 0 /\ quiet = FALSE
    /\ callbacks = [s \in Slots |-> NoCallback] /\ accepted = <<>>
    /\ holder = NoThread
    /\ calls = 0
    /\ pc = [t \in Threads |-> "idle"]
    /\ ev = [t \in Threads |-> [by |-> t, call |-> 0, level |-> 0]]
    /\ i = [t \in Threads |-> 0]
    /\ seen = [t \in Threads |-> [quiet |-> {}, level |-> {}]]
    /\ out = [s \in Sinks |-> <<>>]

-----------------------------------------------------------------------------
(* Settings.                                                               *)

Calling == {t \in Threads : pc[t] # "idle"}

log_set_level(l) ==
    /\ level' = l
    /\ seen' = [t \in Threads |-> IF t \in Calling
                    THEN [seen[t] EXCEPT !.level = @ \cup {l}] ELSE seen[t]]
    /\ UNCHANGED <<quiet, callbacks, accepted, holder, calls, pc, ev, i, out>>

log_set_quiet(enable) ==
    /\ quiet' = enable
    /\ seen' = [t \in Threads |-> IF t \in Calling
                    THEN [seen[t] EXCEPT !.quiet = @ \cup {enable}] ELSE seen[t]]
    /\ UNCHANGED <<level, callbacks, accepted, holder, calls, pc, ev, i, out>>

Free == {s \in Slots : callbacks[s] = NoCallback}

\* Into the first free slot; -1 when there is none.
log_add_callback(cb) ==
    /\ Calling = {}
    /\ Free # {}
    /\ callbacks' = [callbacks EXCEPT ![CHOOSE s \in Free : \A f \in Free : s <= f] = cb]
    /\ accepted' = Append(accepted, cb)
    /\ UNCHANGED <<level, quiet, holder, calls, pc, ev, i, seen, out>>

-----------------------------------------------------------------------------
(* log_log.                                                                *)

Go(t, to) == pc' = [pc EXCEPT ![t] = to]

log_log(t, l) ==
    /\ pc[t] = "idle" /\ calls < MaxCalls
    /\ calls' = calls + 1
    /\ Go(t, "lock")
    /\ ev' = [ev EXCEPT ![t].call = calls + 1, ![t].level = l]
    /\ seen' = [seen EXCEPT ![t] = [quiet |-> {quiet}, level |-> {level}]]
    /\ UNCHANGED <<level, quiet, callbacks, accepted, holder, i, out>>

\* Mutant: the lock is not waited for.
LockAnyway(t) ==
    /\ pc[t] = "lock"
    /\ holder' = t
    /\ Go(t, "quiet")
    /\ UNCHANGED <<level, quiet, callbacks, accepted, calls, ev, i, seen, out>>

Lock(t) ==
    /\ pc[t] = "lock" /\ holder = NoThread
    /\ holder' = t
    /\ Go(t, "quiet")
    /\ UNCHANGED <<level, quiet, callbacks, accepted, calls, ev, i, seen, out>>

\* !L.quiet, and then level >= L.level.
CheckQuiet(t) ==
    /\ pc[t] = "quiet"
    /\ i' = [i EXCEPT ![t] = IF quiet THEN 1 ELSE 0]
    /\ Go(t, IF quiet THEN "callbacks" ELSE "level")
    /\ UNCHANGED <<level, quiet, callbacks, accepted, holder, calls, ev, seen, out>>

CheckLevel(t) ==
    /\ pc[t] = "level"
    /\ i' = [i EXCEPT ![t] = IF ev[t].level >= level THEN 0 ELSE 1]
    /\ Go(t, IF ev[t].level >= level THEN "head" ELSE "callbacks")
    /\ UNCHANGED <<level, quiet, callbacks, accepted, holder, calls, ev, seen, out>>

\* Mutants of NextCallback: the loop stops at a callback that is passed over;
\* the lock is kept at the end of the loop; i is counted past the table.
PastTheEnd(t) ==
    /\ pc[t] = "callbacks"
    /\ LET more == i[t] <= MAX_CALLBACKS /\ callbacks[i[t]] # NoCallback
           takes == more /\ ev[t].level >= callbacks[i[t]].level
       IN  /\ Go(t, IF takes THEN "head" ELSE IF more THEN "callbacks" ELSE "unlock")
           /\ i' = [i EXCEPT ![t] = IF takes THEN @ ELSE @ + 1]
    /\ UNCHANGED <<level, quiet, callbacks, accepted, holder, calls, ev, seen, out>>

StopAtLevel(t) ==
    /\ pc[t] = "callbacks"
    /\ LET more == /\ i[t] <= MAX_CALLBACKS
                   /\ callbacks[i[t]] # NoCallback /\ ev[t].level >= callbacks[i[t]].level
       IN  /\ Go(t, IF more THEN "head" ELSE "unlock")
           /\ UNCHANGED i
    /\ UNCHANGED <<level, quiet, callbacks, accepted, holder, calls, ev, seen, out>>

ReturnLocked(t) ==
    /\ pc[t] = "callbacks"
    /\ LET more == i[t] <= MAX_CALLBACKS /\ callbacks[i[t]] # NoCallback
           takes == more /\ ev[t].level >= callbacks[i[t]].level
       IN  /\ Go(t, IF takes THEN "head" ELSE IF more THEN "callbacks" ELSE "idle")
           /\ i' = [i EXCEPT ![t] = IF more /\ ~takes THEN @ + 1 ELSE @]
    /\ UNCHANGED <<level, quiet, callbacks, accepted, holder, calls, ev, seen, out>>

\* The head of the loop over L.callbacks, and the test of cb->level.
NextCallback(t) ==
    /\ pc[t] = "callbacks"
    /\ LET more == i[t] <= MAX_CALLBACKS /\ callbacks[i[t]] # NoCallback
           takes == more /\ ev[t].level >= callbacks[i[t]].level
       IN  /\ Go(t, IF takes THEN "head" ELSE IF more THEN "callbacks" ELSE "unlock")
           /\ i' = [i EXCEPT ![t] = IF more /\ ~takes THEN @ + 1 ELSE @]
    /\ UNCHANGED <<level, quiet, callbacks, accepted, holder, calls, ev, seen, out>>

\* stdout_callback and file_callback.
Sink(t) == IF i[t] = 0 THEN "stderr" ELSE callbacks[i[t]].sink
Write(t, part) == out' = [out EXCEPT ![Sink(t)] = Append(@, <<ev[t], part>>)]

WriteHead(t) ==
    /\ pc[t] = "head"
    /\ Write(t, "head")
    /\ Go(t, "text")
    /\ UNCHANGED <<level, quiet, callbacks, accepted, holder, calls, ev, i, seen>>

WriteText(t) ==
    /\ pc[t] = "text"
    /\ Write(t, "text")
    /\ Go(t, "callbacks")
    /\ i' = [i EXCEPT ![t] = @ + 1]
    /\ UNCHANGED <<level, quiet, callbacks, accepted, holder, calls, ev, seen>>

Unlock(t) ==
    /\ pc[t] = "unlock"
    /\ holder' = NoThread
    /\ Go(t, "idle")
    /\ i' = [i EXCEPT ![t] = 0]
    /\ seen' = [seen EXCEPT ![t] = [quiet |-> {}, level |-> {}]]
    /\ UNCHANGED <<level, quiet, callbacks, accepted, calls, ev, out>>

-----------------------------------------------------------------------------
Step(t) == CheckQuiet(t) \/ CheckLevel(t) \/ NextCallback(t)
           \/ WriteHead(t) \/ WriteText(t) \/ Unlock(t)

Next ==
    \/ \E l \in Levels : log_set_level(l)
    \/ \E enable \in BOOLEAN : log_set_quiet(enable)
    \/ \E cb \in Callbacks : log_add_callback(cb)
    \/ \E t \in Threads : (\E l \in Levels : log_log(t, l)) \/ Lock(t) \/ Step(t)

\* Threads run, and a lock that is released again and again is obtained.
Fairness == \A t \in Threads : WF_vars(Step(t)) /\ SF_vars(Lock(t))

Spec == Init /\ [][Next]_vars /\ Fairness

-----------------------------------------------------------------------------
(* Properties.                                                             *)

\* TypeOK: the static struct L and the locals of log_log.
TypeOK ==
    /\ level \in Levels /\ quiet \in BOOLEAN
    /\ callbacks \in [Slots -> Callbacks \cup {NoCallback}]
    /\ accepted \in Seq(Callbacks)
    /\ holder \in Threads \cup {NoThread} /\ calls \in 0..MaxCalls
    /\ pc \in [Threads -> {"idle", "lock", "quiet", "level", "callbacks", "head",
                           "text", "unlock"}]
    /\ ev \in [Threads -> [by : Threads, call : 0..MaxCalls, level : Levels]]
    /\ i \in [Threads -> 0..(MAX_CALLBACKS + 1)]
    /\ seen \in [Threads -> [quiet : SUBSET BOOLEAN, level : SUBSET Levels]]
    /\ out \in [Sinks -> Seq([by : Threads, call : 0..MaxCalls, level : Levels]
                           \X {"head", "text"})]

\* WholeRecords: with a lock set, the head and the text of a record stand
\* next to each other in every sink, whoever logs at the same time.
WholeRecords ==
    \A s \in Sinks, n \in 1..MaxCalls * (MAX_CALLBACKS + 1) :
        /\ 2 * n - 1 <= Len(out[s]) => out[s][2 * n - 1][2] = "head"
        /\ 2 * n <= Len(out[s]) => out[s][2 * n] = <<out[s][2 * n - 1][1], "text">>

Position(s, e) == SelectInSeq(out[s], LAMBDA w : w[1] = e)
In(s) == {out[s][n][1] : n \in DOMAIN out[s]}

\* InOrder: two sinks that both have two records have them in the same order,
\* and a sink has the records of a thread in the order of its calls.
InOrder ==
    \A r, s \in Sinks : \A d, e \in In(r) \cap In(s) :
        /\ Position(r, d) < Position(r, e) => Position(s, d) < Position(s, e)
        /\ d.by = e.by /\ d.call < e.call => Position(s, d) < Position(s, e)

\* Serialized: the lock makes one sequence of all calls, of which each sink has a
\* part: no record is torn and none is out of its place.
Serialized == WholeRecords /\ InOrder

Times(s, e) == Cardinality({n \in DOMAIN out[s] : out[s][n] = <<e, "text">>})

\* Delivered: a call that returns has written its record once for each
\* callback that was accepted and whose level it has; to stderr, if the logger
\* was neither quiet nor above its level during the call, and not if it was
\* one of them throughout, however the settings changed meanwhile.
Delivered ==
    \A t \in Threads : LET e == ev[t] IN
        pc[t] = "unlock" =>
            /\ \A f \in Files :
                  Times(f, e) = Cardinality({n \in 1..Len(accepted) :
                                    accepted[n].sink = f /\ accepted[n].level <= e.level})
            /\ TRUE \notin seen[t].quiet /\ (\A l \in seen[t].level : l <= e.level)
                  => Times("stderr", e) = 1
            /\ FALSE \notin seen[t].quiet \/ (\A l \in seen[t].level : l > e.level)
                  => Times("stderr", e) = 0

\* EveryCallReturns: no call of log_log waits for ever.
EveryCallReturns == \A t \in Threads : pc[t] # "idle" ~> pc[t] = "idle"
=============================================================================
