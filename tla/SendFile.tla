------------------------------ MODULE SendFile ------------------------------
(***************************************************************************)
(* send_file of server.c: the headers with the file's length, then the     *)
(* file, one fgets() and one send() at a time until feof() says so.  The   *)
(* server and the tools that edit its pages share the files: while a page  *)
(* is being sent somebody may append to it.                                *)
(*                                                                         *)
(* A file is a sequence of units, LF, NUL or any other; what fgets()       *)
(* leaves in the buffer is either the headers or a chunk of the file, and  *)
(* send() is given it as a C string.                                       *)
(***************************************************************************)
EXTENDS Integers, Sequences, SequencesExt

CONSTANTS
    Files,          \* the files that may be sent, sequences over Units
    BUFFER_SIZE,    \* fgets() reads at most BUFFER_SIZE - 1 units
    MaxAppends      \* how often the file may grow while it is sent

LF == "lf"
NUL == "nul"
TEXT == "text"
Units == {LF, NUL, TEXT}

ASSUME SendFileAssumption ==
    /\ Files \subseteq Seq(Units)
    /\ BUFFER_SIZE \in Nat /\ BUFFER_SIZE >= 2
    /\ MaxAppends \in Nat

VARIABLES
    file,           \* the file on disk
    pc,             \* "open", "first", "loop" or "done"
    length,         \* what the Content-Length header promised
    pos,            \* the file position
    feof,           \* the end-of-file indicator
    chunk,          \* the part of the file in the buffer, as positions
    starts,         \* the positions from which fgets() read
    headers,        \* how often the headers were sent
    sent,           \* the positions of the file sent, in order
    appends         \* how often the file grew

vars == <<file, pc, length, pos, feof, chunk, starts, headers, sent, appends>>

\* The buffer still holds the headers until the first chunk replaces them.
HEADERS == <<>>

Init ==
    /\ file \in Files
    /\ pc = "open"
    /\ length = 0
    /\ pos = 0
    /\ feof = FALSE
    /\ chunk = HEADERS
    /\ starts = {}
    /\ headers = 0
    /\ sent = <<>>
    /\ appends = 0

\* Mutants of Open: the headers are part of the loop; the file position stays
\* at the end after the length was taken.
OpenAgain ==
    /\ pc = "open"
    /\ length' = Len(file)
    /\ headers' = headers + 1
    /\ pc' \in {"open", "first"}
    /\ UNCHANGED <<file, pos, feof, chunk, starts, sent, appends>>

OpenAtEnd ==
    /\ pc = "open"
    /\ length' = Len(file)
    /\ pos' = Len(file)
    /\ headers' = headers + 1
    /\ pc' = "first"
    /\ UNCHANGED <<file, feof, chunk, starts, sent, appends>>

\* fopen, get_file_length (which moves the position and moves it back), the
\* headers.
Open ==
    /\ pc = "open"
    /\ length' = Len(file)
    /\ headers' = headers + 1
    /\ pc' = "first"
    /\ UNCHANGED <<file, pos, feof, chunk, starts, sent, appends>>

\* Positions from p on that one fgets() returns: up to a line feed, a full
\* buffer, or the end of the file.
LineFrom(p) ==
    LET most == IF Len(file) - p < BUFFER_SIZE - 1 THEN Len(file) - p
                                                  ELSE BUFFER_SIZE - 1
        lf == SelectInSeq(SubSeq(file, p + 1, p + most), LAMBDA x : x = LF)
        n == IF lf > 0 THEN lf ELSE most
    IN  [i \in 1..n |-> p + i]

\* What send(buf, strlen(buf)) sends of a line of file f: up to its first NUL.
Told(f, line) ==
    LET nul == SelectInSeq(line, LAMBDA p : f[p] = NUL)
    IN  IF nul > 0 THEN SubSeq(line, 1, nul - 1) ELSE line

\* Mutant of GetsAndSends: the end of the file shows only when nothing is left.
GetsLate ==
    LET line == LineFrom(pos)
        new == IF line = <<>> THEN chunk ELSE line
    IN  /\ chunk' = new
        /\ pos' = pos + Len(line)
        /\ feof' = (line = <<>>)
        /\ starts' = starts \cup {pos + 1}
        /\ sent' = sent \o Told(file, new)
        /\ headers' = IF new = HEADERS THEN headers + 1 ELSE headers

\* fgets(buf) and send(buf): at the end of the file fgets() returns NULL, which
\* nobody looks at, and leaves the buffer as it was.
GetsAndSends ==
    LET line == LineFrom(pos)
        new == IF line = <<>> THEN chunk ELSE line
    IN  /\ chunk' = new
        /\ pos' = pos + Len(line)
        /\ feof' = (Len(line) < BUFFER_SIZE - 1
                    /\ (line # <<>> => file[Last(line)] # LF))
        /\ starts' = starts \cup {pos + 1}
        /\ sent' = sent \o Told(file, new)
        /\ headers' = IF new = HEADERS THEN headers + 1 ELSE headers

FirstLine ==
    /\ pc = "first"
    /\ GetsAndSends
    /\ pc' = "loop"
    /\ UNCHANGED <<file, length, appends>>

NextLine ==
    /\ pc = "loop"
    /\ ~feof
    /\ GetsAndSends
    /\ UNCHANGED <<file, pc, length, appends>>

\* Mutant of Done: the loop runs for the length promised, not to the end.
DoneAtLength ==
    /\ pc = "loop"
    /\ feof
    /\ pos = length
    /\ pc' = "done"
    /\ UNCHANGED <<file, length, pos, feof, chunk, starts, headers, sent, appends>>

Done ==
    /\ pc = "loop"
    /\ feof
    /\ pc' = "done"
    /\ UNCHANGED <<file, length, pos, feof, chunk, starts, headers, sent, appends>>

\* Another process appends one unit to the file.
AppendToFile ==
    /\ appends < MaxAppends
    /\ pc # "done"
    /\ \E x \in Units : file' = Append(file, x)
    /\ appends' = appends + 1
    /\ UNCHANGED <<pc, length, pos, feof, chunk, starts, headers, sent>>

Server == Open \/ FirstLine \/ NextLine \/ Done
Next == Server \/ AppendToFile

Spec == Init /\ [][Next]_vars /\ WF_vars(Server)

-----------------------------------------------------------------------------
(* Properties. *)

\* Every variable has its type.
TypeOK ==
    /\ file \in Seq(Units)
    /\ pc \in {"open", "first", "loop", "done"}
    /\ length \in Nat
    /\ pos \in 0..Len(file)
    /\ feof \in BOOLEAN
    /\ chunk \in Seq(1..Len(file))
    /\ starts \subseteq 1..(pos + 1)
    /\ headers \in 0..2
    /\ sent \in Seq(1..Len(file))
    /\ appends \in 0..MaxAppends

\* A unit is hidden by a NUL in the same line, if not before it.
Hidden(u) == \E n \in 1..u : file[n] = NUL /\ starts \cap ((n + 1)..u) = {}

\* s is what was read of the file and is not hidden, in the order of the file.
Shows(s) ==
    /\ \A i, j \in 1..Len(s) : i < j => s[i] < s[j]
    /\ {s[i] : i \in 1..Len(s)} = {u \in 1..pos : ~Hidden(u)}

\* The same, and then the line in the buffer once more.
ShowsTwice(s) ==
    LET before == SubSeq(s, 1, Len(s) - Len(Told(file, chunk)))
    IN  Shows(before) /\ s = before \o Told(file, chunk)

\* What was sent is the file as far as it was read, each line up to its first
\* NUL, except that the last line may have been sent once more, and only if the
\* end of the file was met by an fgets() that had nothing to return.
SentIsFile == Shows(sent) \/ (feof /\ ShowsTwice(sent))

\* When it is done, all of the file had been read; the end of the file was met
\* by an empty fgets() if the file is empty, ends with a line feed, or its last
\* chunk filled the buffer, and exactly then the last chunk (of an empty file:
\* the headers) went out twice.  So of the pages nobody edits meanwhile only the
\* others, and of these only those without a NUL, are sent as they were announced.
EndsTwice ==
    LET complete == chunk # HEADERS
                    /\ (file[Last(chunk)] = LF \/ Len(chunk) = BUFFER_SIZE - 1)
        text == \A u \in 1..Len(file) : file[u] # NUL
        honest == headers = 1 /\ sent = [u \in 1..length |-> u]
    IN  pc = "done" =>
          /\ IF complete THEN ShowsTwice(sent) ELSE Shows(sent)
          /\ headers = IF chunk = HEADERS THEN 2 ELSE 1
          /\ appends = 0 => (honest <=> file # <<>> /\ ~complete /\ text)

\* PageSent: at every moment what was sent is the file but for what a NUL hides,
\* and at the end it is so with exactly the repetitions that the loop over
\* fgets() cannot avoid.
PageSent == SentIsFile /\ EndsTwice

\* The callback gets to the end of the file, if the file stops growing.
Ends == <>(pc = "done")
=============================================================================
