---------------------------- MODULE ServerProofs ----------------------------
(***************************************************************************)
(* Proofs about Server, for every set of clients, every set of requests    *)
(* and every bound: its invariants; that every connection that is closed   *)
(* got an answer that fits its request; and that Server implements         *)
(* SerialService and ScriptRun.                                            *)
(***************************************************************************)
EXTENDS Server, FiniteSetTheorems, TLAPS

Lines == {200, 400, 404, 500, 501}

-----------------------------------------------------------------------------
(* What parse_request and response compute has its type. *)

\* Whatever prefix it is given, parse_request fills in a request.
LEMMA ParsedType ==
    ASSUME NEW m \in Messages, NEW n \in Nat
    PROVE  Parsed(m, n) \subseteq Requests
<1> SUFFICES ASSUME NEW r \in Parsed(m, n) PROVE r \in Requests
  OBVIOUS
<1>1. m \in MessageType
  BY MessagesAssumption
<1>2. Blank \in Requests
  BY DEF Blank, Requests, Targets
<1>3. CASE n = 0
  <2>1. r = [Blank EXCEPT !.method = "DELETE"]
    BY <1>3 DEF Parsed
  <2> QED BY <2>1 DEF Blank, Requests, Targets
<1>4. CASE n # 0 /\ m.bad \in 1..n
  <2>1. r = [Blank EXCEPT !.bad = TRUE]
    BY <1>4 DEF Parsed
  <2> QED BY <2>1 DEF Blank, Requests, Targets
<1>5. CASE n # 0 /\ m.bad \notin 1..n
  <2>1. m.method \in {"GET", "POST", "PUT"} /\ m.target \in Targets
        /\ m.length \in BOOLEAN /\ (n > m.head) \in BOOLEAN
    BY <1>1 DEF MessageType
  <2> QED BY <1>5, <2>1 DEF Parsed, Requests
<1> QED BY <1>3, <1>4, <1>5

\* The status line of a request no script answers is one of the five.
LEMMA StaticStatusType == \A r \in Requests : StaticStatus(r) \in Lines
<1> TAKE r \in Requests
<1>1. \/ StaticStatus(r) = 400 \/ StaticStatus(r) = 501
      \/ StaticStatus(r) = 200 \/ StaticStatus(r) = 404
  BY DEF StaticStatus
<1> QED BY <1>1 DEF Lines

\* The 404 before a script is a sequence of status lines.
LEMMA NotFoundType == \A r \in Requests : NotFound(r) \in Seq(Lines)
<1> <<404>> \in Seq(Lines) /\ <<>> \in Seq(Lines)
  BY DEF Lines
<1> QED BY DEF NotFound

\* Writing status lines to one connection keeps the type of out.
LEMMA OutType ==
    ASSUME out \in [Conns -> Seq(Lines)], NEW c \in Conns, NEW s \in Seq(Lines)
    PROVE  [out EXCEPT ![c] = @ \o s] \in [Conns -> Seq(Lines)]
  OBVIOUS

\* One more status line to what a connection heard keeps the type of out.
LEMMA OutAppendType ==
    ASSUME out \in [Conns -> Seq(Lines)], NEW c, NEW t \in Lines
    PROVE  [out EXCEPT ![c] = Append(@, t)] \in [Conns -> Seq(Lines)]
<1>1. CASE c \in Conns
  BY <1>1
<1>2. CASE c \notin Conns
  <2>1. [out EXCEPT ![c] = Append(@, t)] = out
    BY <1>2
  <2> QED BY <2>1
<1> QED BY <1>1, <1>2

\* The type of what send_file and finish change.
ReplyTyped ==
    /\ conn \in [Conns -> {"unused", "backlog", "open", "closed"}]
    /\ rwatch \subseteq Conns
    /\ wwatch \subseteq Conns
    /\ pc \in {"poll", "crashed"}
    /\ cur \in Conns \cup {NoConn}
    /\ fds \in Int
    /\ out \in [Conns -> Seq(Lines)]

\* send_file and finish keep the type of what they change.
LEMMA SendFileAndFinishType ==
    ASSUME TypeOK, NEW c \in Conns, NEW s \in Seq(Lines), NEW t \in Lines,
           NEW held \in Int, SendFileAndFinish(c, s, t, held)
    PROVE  ReplyTyped'
<1>0. Finish(c, held) \/ Crash(c, held)
  BY Zenon DEF SendFileAndFinish
<1>1. out \in [Conns -> Seq(Lines)] /\ <<t>> \in Seq(Lines)
  BY DEF TypeOK, Lines
<1>2. \A u \in Seq(Lines) : u \o s \o <<t>> \in Seq(Lines) /\ u \o s \in Seq(Lines)
  BY <1>1
<1>3. out' \in [Conns -> Seq(Lines)]
  <2>1. CASE out' = [out EXCEPT ![c] = @ \o s \o <<t>>]
    BY <1>1, <1>2, <2>1
  <2>2. CASE out' = [out EXCEPT ![c] = @ \o s]
    BY <1>1, <1>2, <2>2
  <2> QED BY <2>1, <2>2 DEF SendFileAndFinish
<1>4. /\ conn' \in [Conns -> {"unused", "backlog", "open", "closed"}]
      /\ rwatch' \subseteq Conns
      /\ wwatch' \subseteq Conns
  BY ZenonT(30), <1>0 DEF TypeOK, Finish, Crash
<1>5. pc' \in {"poll", "crashed"} /\ cur' \in Conns \cup {NoConn} /\ fds' \in Int
  BY <1>0 DEF Finish, Crash
<1> QED BY <1>3, <1>4, <1>5 DEF ReplyTyped

-----------------------------------------------------------------------------
(* Type correctness. *)

\* The types hold when the server starts.
LEMMA InitTypeOK == Init => TypeOK
<1> SUFFICES ASSUME Init PROVE TypeOK
  OBVIOUS
<1>1. Blank \in Requests
  BY DEF Blank, Requests, Targets
<1>2. req \in [Conns -> Requests] /\ out \in [Conns -> Seq({200, 400, 404, 500, 501})]
  BY <1>1 DEF Init
<1>3. /\ conn \in [Conns -> {"unused", "backlog", "open", "closed"}]
      /\ rx \in [Conns -> Nat]
      /\ got \in [Conns -> Nat]
      /\ backlog \in Seq(Conns)
  BY DEF Init
<1> QED BY <1>2, <1>3 DEF Init, TypeOK

\* Every step keeps the types.
LEMMA NextTypeOK == TypeOK /\ [Next]_vars => TypeOK'
<1> SUFFICES ASSUME TypeOK, [Next]_vars PROVE TypeOK'
  OBVIOUS
<1> USE BoundsAssumption
<1>1. CASE AcceptRequest
  <2>1. Head(backlog) \in Conns /\ Tail(backlog) \in Seq(Conns)
    BY <1>1 DEF AcceptRequest, TypeOK
  <2> QED BY SMTT(30), <1>1, <2>1 DEF AcceptRequest, TypeOK
<1>2. ASSUME NEW c \in Conns, ReadFull(c) PROVE TypeOK'
  <2>1. rx[c] - BUFFER_SIZE \in Nat /\ got[c] + BUFFER_SIZE \in Nat
    BY <1>2 DEF ReadFull, TypeOK
  <2> QED BY ZenonT(30), <1>2, <2>1 DEF ReadFull, TypeOK
<1>3. ASSUME NEW c \in Conns, ReadLast(c) PROVE TypeOK'
  <2>1. got[c] + rx[c] \in Nat /\ msg[c] \in Messages
    BY DEF TypeOK
  <2>2. PICK r \in Requests : req' = [req EXCEPT ![c] = r]
    BY <1>3, <2>1, ParsedType DEF ReadLast
  <2>3. req' \in [Conns -> Requests]
    BY <2>2 DEF TypeOK
  <2>4. rx' \in [Conns -> Nat] /\ got' \in [Conns -> Nat]
    BY <1>3, <2>1 DEF ReadLast, TypeOK
  <2>5. /\ rwatch' \subseteq Conns /\ wwatch' \subseteq Conns
        /\ pc' = "poll" /\ cur' = NoConn
        /\ UNCHANGED <<msg, limit, conn, backlog, eof, reset, child, fds, leaked, out>>
    BY <1>3 DEF ReadLast, TypeOK
  <2> QED BY <2>3, <2>4, <2>5 DEF TypeOK
<1>4. ASSUME NEW c \in Conns, ReadFails(c) PROVE TypeOK'
  BY <1>4 DEF ReadFails, TypeOK
<1>5. ASSUME NEW c \in Conns, RespondStatic(c) PROVE TypeOK'
  <2>1. req[c] \in Requests /\ fds \in Int /\ <<>> \in Seq(Lines)
    BY DEF TypeOK
  <2>2. StaticStatus(req[c]) \in Lines
    BY <2>1, StaticStatusType
  <2>3. ReplyTyped'
    BY <1>5, <2>1, <2>2, SendFileAndFinishType DEF RespondStatic
  <2> QED BY ZenonT(30), <1>5, <2>3 DEF RespondStatic, TypeOK, ReplyTyped, netvars, Lines
<1>6. ASSUME NEW c \in Conns, NotFoundFails(c) PROVE TypeOK'
  BY <1>6 DEF NotFoundFails, CallsCgi, Crash, TypeOK, netvars
<1>7. ASSUME NEW c \in Conns, ExecuteCgiFails(c) PROVE TypeOK'
  <2>1. PICK lost \in {0, 2, 4} :
           /\ leaked' = leaked + lost
           /\ SendFileAndFinish(c, NotFound(req[c]), 500, fds + lost)
    BY <1>7 DEF ExecuteCgiFails
  <2>2. NotFound(req[c]) \in Seq(Lines) /\ 500 \in Lines /\ fds + lost \in Int
    BY NotFoundType DEF TypeOK, Lines
  <2>3. leaked' \in Nat
    BY <2>1 DEF TypeOK
  <2>4. ReplyTyped'
    BY <2>1, <2>2, SendFileAndFinishType
  <2> QED
    BY ZenonT(30), <1>7, <2>3, <2>4
    DEF ExecuteCgiFails, CallsCgi, TypeOK, ReplyTyped, netvars, Lines
<1>8. ASSUME NEW c \in Conns, ExecuteCgi(c) PROVE TypeOK'
  <2>1. out' \in [Conns -> Seq(Lines)]
    BY <1>8, OutType, NotFoundType DEF ExecuteCgi, TypeOK, Lines
  <2> QED BY SMTT(30), <1>8, <2>1 DEF ExecuteCgi, CallsCgi, TypeOK, netvars, Lines
<1>9. CASE RelayCgi
  <2>1. out' \in [Conns -> Seq(Lines)]
    <3>1. /\ out \in [Conns -> Seq(Lines)]
          /\ 200 \in Lines
      BY DEF TypeOK, Lines
    <3>2. \/ out' = out
          \/ out' = [out EXCEPT ![cur] = Append(@, 200)]
      BY <1>9 DEF RelayCgi
    <3>3. [out EXCEPT ![cur] = Append(@, 200)] \in [Conns -> Seq(Lines)]
      BY <3>1, OutAppendType, Zenon
    <3> QED BY <3>1, <3>2, <3>3, Zenon
  <2>2. pc' \in {"wait", "crashed"}
    BY <1>9 DEF RelayCgi
  <2> QED BY <1>9, <2>1, <2>2 DEF RelayCgi, TypeOK, netvars, Lines
<1>10. CASE ReapCgi
  <2>1. conn' \in [Conns -> {"unused", "backlog", "open", "closed"}]
    BY <1>10 DEF ReapCgi, Finish, TypeOK
  <2>2. wwatch' \subseteq Conns /\ fds' \in Int
    BY <1>10 DEF ReapCgi, Finish, TypeOK
  <2> QED BY <1>10, <2>1, <2>2 DEF ReapCgi, Finish, TypeOK, netvars
<1>11. CASE ChildExec
  <2>1. out' \in [Conns -> Seq(Lines)]
    <3>1. /\ out \in [Conns -> Seq(Lines)]
          /\ 500 \in Lines
      BY DEF TypeOK, Lines
    <3>2. \/ out' = out
          \/ out' = [out EXCEPT ![cur] = Append(@, 500)]
      BY <1>11 DEF ChildExec
    <3>3. [out EXCEPT ![cur] = Append(@, 500)] \in [Conns -> Seq(Lines)]
      BY <3>1, OutAppendType, ZenonT(30)
    <3> QED BY <3>1, <3>2, <3>3, ZenonT(30)
  <2>2. child' \in {"script", "failed"}
    BY <1>11 DEF ChildExec
  <2> QED BY <1>11, <2>1, <2>2 DEF ChildExec, TypeOK, netvars, Lines
<1>12. CASE ScriptExits
  BY <1>12 DEF ScriptExits, TypeOK, netvars
<1>13. ASSUME NEW c \in Conns, Client(c) PROVE TypeOK'
  <2>1. CASE Connect(c)
    BY <2>1 DEF Connect, UNCHANGEDServer, TypeOK
  <2>2. CASE Send(c)
    BY SMTT(30), <2>2 DEF Send, UNCHANGEDServer, TypeOK
  <2>3. CASE Shutdown(c)
    BY <2>3 DEF Shutdown, UNCHANGEDServer, TypeOK
  <2>4. CASE Reset(c)
    BY <2>4 DEF Reset, UNCHANGEDServer, TypeOK
  <2> QED BY <1>13, <2>1, <2>2, <2>3, <2>4 DEF Client
<1>14. CASE UNCHANGED vars
  BY <1>14 DEF vars, TypeOK
<1>15. ASSUME NEW c \in Conns, RespondLarge(c) PROVE TypeOK'
  <2>1. out \in [Conns -> Seq(Lines)] /\ 200 \in Lines
    BY DEF TypeOK, Lines
  <2>2. out' \in [Conns -> Seq(Lines)]
    BY <1>15, <2>1, OutAppendType DEF RespondLarge
  <2> QED BY <1>15, <2>2 DEF RespondLarge, TypeOK, netvars, Lines
<1>16. CASE SendRest
  <2>1. conn' \in [Conns -> {"unused", "backlog", "open", "closed"}]
    BY <1>16 DEF SendRest, Finish, TypeOK
  <2>2. wwatch' \subseteq Conns /\ fds' \in Int
    BY <1>16 DEF SendRest, Finish, TypeOK
  <2> QED BY <1>16, <2>1, <2>2 DEF SendRest, Finish, TypeOK, netvars
<1> QED
  BY <1>1, <1>2, <1>3, <1>4, <1>5, <1>6, <1>7, <1>8, <1>9, <1>10, <1>11,
     <1>12, <1>13, <1>14, <1>15, <1>16
  DEF Next, ParseRequestData, Response, Parent, Child

\* Every variable of the server keeps its type, whatever clients, scripts and
\* the kernel do.
THEOREM TypeCorrect == Spec => []TypeOK
  BY InitTypeOK, NextTypeOK, PTL DEF Spec

-----------------------------------------------------------------------------
(* Watchers, the child and the descriptors.  The invariant is inductive    *)
(* only as a whole: that a callback closes an open connection follows from *)
(* the watchers, that the child's connection is still open from ChildOwned,*)
(* and that accepting opens one more from QueueOK.                         *)

IInv == TypeOK /\ QueueOK /\ OneWatcher /\ ChildOwned /\ FdConservation

\* The open connections are finitely many.
LEMMA OpenFinite == IsFiniteSet(Open) /\ Cardinality(Open) \in Nat
<1>1. Open \subseteq Conns
  BY DEF Open
<1> QED BY <1>1, FiniteAssumption, FS_Subset, FS_CardinalityType

\* Accepting a connection opens one more.
LEMMA OpenOneMore ==
    ASSUME TypeOK, NEW c \in Conns, conn[c] # "open",
           conn' = [conn EXCEPT ![c] = "open"]
    PROVE  Open' = Open \cup {c} /\ Cardinality(Open') = Cardinality(Open) + 1
<1>1. Open' = Open \cup {c} /\ c \notin Open
  BY DEF Open, TypeOK
<1> QED BY <1>1, OpenFinite, FS_AddElement

\* Finishing a connection leaves one less open.
LEMMA OpenOneLess ==
    ASSUME TypeOK, NEW c \in Conns, conn[c] = "open",
           conn' = [conn EXCEPT ![c] = "closed"]
    PROVE  Open' = Open \ {c} /\ Cardinality(Open') = Cardinality(Open) - 1
<1>1. Open' = Open \ {c} /\ c \in Open
  BY DEF Open, TypeOK
<1> QED BY <1>1, OpenFinite, FS_RemoveElement

\* Closing an open connection leaves the listen queue alone.
LEMMA QueueStays ==
    ASSUME TypeOK, QueueOK, NEW c \in Conns, conn[c] = "open",
           conn' = [conn EXCEPT ![c] = "closed"], backlog' = backlog
    PROVE  QueueOK'
<1>1. \A i \in 1..Len(backlog) : backlog[i] \in Conns /\ backlog[i] # c
  BY SMTT(30) DEF TypeOK, QueueOK
<1>2. \A d \in Conns : conn'[d] = IF d = c THEN "closed" ELSE conn[d]
  BY DEF TypeOK
<1> QED BY <1>1, <1>2 DEF QueueOK

\* The inductive invariant holds when the server starts.
LEMMA InitIInv == Init => IInv
<1> SUFFICES ASSUME Init PROVE IInv
  OBVIOUS
<1>1. Open = {}
  BY DEF Init, Open
<1>2. QueueOK
  BY BoundsAssumption DEF Init, QueueOK
<1>3. OneWatcher /\ ChildOwned
  BY <1>1 DEF Init, OneWatcher, ChildOwned
<1>4. FdConservation
  BY <1>1, FS_EmptySet DEF Init, FdConservation
<1> QED BY <1>2, <1>3, <1>4, InitTypeOK DEF IInv

\* A callback that closes c, or crashes, keeps the invariant if it counted its
\* descriptors.
LEMMA SendFileAndFinishInv ==
    ASSUME IInv, NEW c \in wwatch, NEW s, NEW t, NEW lost \in Nat,
           pc = "poll", child' = child, backlog' = backlog,
           leaked' = leaked + lost, SendFileAndFinish(c, s, t, fds + lost)
    PROVE  QueueOK' /\ OneWatcher' /\ ChildOwned' /\ FdConservation'
<1> USE DEF IInv
<1>1. c \in Conns /\ conn[c] = "open" /\ child = "none"
  BY DEF OneWatcher, ChildOwned, Open, TypeOK
<1>2. fds \in Int /\ leaked \in Nat /\ Cardinality(Open) \in Nat
  BY OpenFinite DEF TypeOK
<1>3. CASE Finish(c, fds + lost)
  <2>1. Open' = Open \ {c} /\ Cardinality(Open') = Cardinality(Open) - 1
    BY <1>1, <1>3, OpenOneLess DEF Finish
  <2>2. QueueOK'
    BY <1>1, <1>3, QueueStays DEF Finish
  <2>3. OneWatcher' /\ ChildOwned'
    BY <1>1, <1>3, <2>1 DEF OneWatcher, ChildOwned, Finish
  <2>4. FdConservation'
    BY <1>1, <1>2, <1>3, <2>1 DEF FdConservation, Finish
  <2> QED BY <2>2, <2>3, <2>4
<1>4. CASE Crash(c, fds + lost)
  <2>1. Open' = Open
    BY <1>4 DEF Crash, Open
  <2>2. QueueOK'
    BY <1>4 DEF QueueOK, Crash
  <2>3. OneWatcher' /\ ChildOwned'
    BY <1>1, <1>4, <2>1 DEF OneWatcher, ChildOwned, Crash
  <2>4. FdConservation'
    BY <1>1, <1>2, <1>4, <2>1 DEF FdConservation, Crash
  <2> QED BY <2>2, <2>3, <2>4
<1> QED BY <1>3, <1>4 DEF SendFileAndFinish

\* Every step keeps the inductive invariant.
LEMMA NextIInv == IInv /\ [Next]_vars => IInv'
<1> SUFFICES ASSUME IInv, [Next]_vars
             PROVE  QueueOK' /\ OneWatcher' /\ ChildOwned' /\ FdConservation'
  BY NextTypeOK DEF IInv
<1> USE DEF IInv
<1>0. fds \in Int /\ leaked \in Nat /\ Cardinality(Open) \in Nat
  BY OpenFinite DEF TypeOK
<1>1. CASE AcceptRequest
  <2> DEFINE c == Head(backlog)
  <2>1. c \in Conns /\ c = backlog[1] /\ 1 \in 1..Len(backlog)
    BY <1>1 DEF AcceptRequest, TypeOK
  <2>2. conn[c] = "backlog" /\ conn' = [conn EXCEPT ![c] = "open"]
    BY <1>1, <2>1 DEF AcceptRequest, QueueOK
  <2>3. Open' = Open \cup {c} /\ Cardinality(Open') = Cardinality(Open) + 1
    BY <2>1, <2>2, OpenOneMore
  <2>4. QueueOK'
    <3>1. /\ Len(backlog') = Len(backlog) - 1
          /\ \A i \in 1..Len(backlog') :
                backlog'[i] = backlog[i + 1] /\ i + 1 \in 1..Len(backlog)
      BY <1>1 DEF AcceptRequest, TypeOK
    <3>2. \A i \in 1..Len(backlog') :
             backlog'[i] \in Conns /\ conn[backlog'[i]] = "backlog"
      <4> TAKE i \in 1..Len(backlog')
      <4>1. backlog'[i] = backlog[i + 1] /\ i + 1 \in 1..Len(backlog)
        BY <3>1
      <4> QED BY SMTT(30), <4>1 DEF QueueOK, TypeOK
    <3>3. \A i \in 1..Len(backlog') : backlog'[i] # c
      <4> SUFFICES ASSUME NEW i \in 1..Len(backlog'), backlog[i + 1] = backlog[1]
                   PROVE  FALSE
        BY <2>1, <3>1
      <4>1. i + 1 = 1
        BY <2>1, <3>1 DEF QueueOK
      <4> QED BY <4>1
    <3>4. \A d \in Conns \ {c} : conn'[d] = conn[d]
      BY <2>2 DEF TypeOK
    <3>5. ASSUME NEW i \in 1..Len(backlog'), NEW j \in 1..Len(backlog'),
                 backlog'[i] = backlog'[j]
          PROVE  i = j
      <4>1. i + 1 = j + 1
        BY <3>1, <3>5 DEF QueueOK
      <4> QED BY <4>1
    <3>6. ASSUME NEW d \in Conns, conn'[d] = "backlog"
          PROVE  \E i \in 1..Len(backlog') : backlog'[i] = d
      <4>1. d # c /\ conn[d] = "backlog"
        BY <2>1, <2>2, <3>6 DEF TypeOK
      <4>2. PICK j \in 1..Len(backlog) : backlog[j] = d
        BY <4>1 DEF QueueOK
      <4>3. Len(backlog) \in Nat /\ j # 1
        BY <2>1, <4>1, <4>2 DEF TypeOK
      <4>4. j - 1 \in 1..Len(backlog') /\ (j - 1) + 1 = j
        BY <3>1, <4>3
      <4> QED BY <3>1, <4>2, <4>4
    <3>7. Len(backlog') <= Backlog
      <4>1. Len(backlog) \in Nat /\ Len(backlog) <= Backlog /\ Backlog \in Nat
        BY BoundsAssumption DEF TypeOK, QueueOK
      <4> QED BY <3>1, <4>1
    <3> QED BY <3>2, <3>3, <3>4, <3>5, <3>6, <3>7 DEF QueueOK
  <2>5. OneWatcher' /\ ChildOwned'
    BY <1>1, <2>2, <2>3 DEF AcceptRequest, OneWatcher, ChildOwned, Open
  <2>6. FdConservation'
    <3>1. fds' = fds + 1 /\ child' = child /\ leaked' = leaked /\ pc' = pc
      BY <1>1 DEF AcceptRequest
    <3> QED BY <1>0, <2>3, <3>1 DEF FdConservation
  <2> QED BY <2>4, <2>5, <2>6
<1>2. ASSUME NEW c \in Conns, ParseRequestData(c)
      PROVE  QueueOK' /\ OneWatcher' /\ ChildOwned' /\ FdConservation'
  <2>1. /\ conn' = conn /\ backlog' = backlog /\ child' = child
        /\ fds' = fds /\ leaked' = leaked /\ Open' = Open
    BY <1>2 DEF ParseRequestData, ReadFull, ReadLast, ReadFails, Open
  <2>2. c \in rwatch /\ child = "none"
    BY <1>2 DEF ParseRequestData, ReadFull, ReadLast, ReadFails, Reads,
                OneWatcher, ChildOwned
  <2>3. OneWatcher'
    <3>1. CASE ReadLast(c)
      BY <2>1, <2>2, <3>1 DEF ReadLast, OneWatcher
    <3>2. CASE ReadFull(c) \/ ReadFails(c)
      BY <2>1, <2>2, <3>2 DEF ReadFull, ReadFails, OneWatcher
    <3> QED BY <1>2, <3>1, <3>2 DEF ParseRequestData
  <2>4. pc \in {"poll", "read"} /\ pc' \in {"poll", "read", "crashed"}
    BY <1>2 DEF ParseRequestData, ReadFull, ReadLast, ReadFails, Reads
  <2>5. QueueOK' /\ FdConservation'
    BY <2>1, <2>4 DEF QueueOK, FdConservation
  <2>6. ChildOwned'
    BY <2>1, <2>2, <2>4 DEF ChildOwned
  <2> QED BY <2>3, <2>5, <2>6
<1>3. ASSUME NEW c \in Conns, RespondStatic(c)
      PROVE  QueueOK' /\ OneWatcher' /\ ChildOwned' /\ FdConservation'
  <2>1. SendFileAndFinish(c, <<>>, StaticStatus(req[c]), fds + 0)
    BY <1>0, <1>3 DEF RespondStatic
  <2>2. leaked' = leaked + 0
    BY <1>0, <1>3 DEF RespondStatic
  <2> QED
    BY <1>3, <2>1, <2>2, SendFileAndFinishInv DEF RespondStatic, netvars
<1>4. ASSUME NEW c \in Conns, ExecuteCgiFails(c)
      PROVE  QueueOK' /\ OneWatcher' /\ ChildOwned' /\ FdConservation'
  <2>1. PICK lost \in {0, 2, 4} :
           /\ leaked' = leaked + lost
           /\ SendFileAndFinish(c, NotFound(req[c]), 500, fds + lost)
    BY <1>4 DEF ExecuteCgiFails
  <2> QED
    BY <1>4, <2>1, SendFileAndFinishInv DEF ExecuteCgiFails, CallsCgi, netvars
<1>5. ASSUME NEW c \in Conns, NotFoundFails(c)
      PROVE  QueueOK' /\ OneWatcher' /\ ChildOwned' /\ FdConservation'
  <2>1. Open' = Open
    BY <1>5 DEF NotFoundFails, Crash, Open
  <2>2. child = "none"
    BY <1>5 DEF NotFoundFails, CallsCgi, ChildOwned
  <2> QED
    BY <1>5, <2>1, <2>2 DEF NotFoundFails, CallsCgi, Crash, netvars,
       QueueOK, OneWatcher, ChildOwned, FdConservation
<1>6. ASSUME NEW c \in Conns, ExecuteCgi(c)
      PROVE  QueueOK' /\ OneWatcher' /\ ChildOwned' /\ FdConservation'
  <2>1. Open' = Open
    BY <1>6 DEF ExecuteCgi, Open
  <2>2. child = "none" /\ c \in Open
    BY <1>6 DEF ExecuteCgi, CallsCgi, ChildOwned, OneWatcher
  <2> QED
    BY <1>0, <1>6, <2>1, <2>2 DEF ExecuteCgi, CallsCgi, netvars,
       QueueOK, OneWatcher, ChildOwned, FdConservation
<1>7. CASE RelayCgi \/ Child
  <2>1. /\ conn' = conn /\ backlog' = backlog
        /\ cur' = cur /\ fds' = fds /\ leaked' = leaked
        /\ rwatch' = rwatch /\ wwatch' = wwatch
    BY <1>7 DEF RelayCgi, Child, ChildExec, ScriptExits, netvars
  <2>2. pc' = pc \/ (pc = "relay" /\ pc' \in {"wait", "crashed"})
    <3>1. CASE RelayCgi
      BY <3>1 DEF RelayCgi
    <3>2. CASE Child
      BY <3>2 DEF Child, ChildExec, ScriptExits
    <3> QED BY <1>7, <3>1, <3>2
  <2>3. child # "none" /\ child' # "none"
    BY <1>7 DEF RelayCgi, Child, ChildExec, ScriptExits, ChildOwned
  <2>4. Open' = Open
    BY <2>1 DEF Open
  <2>5. QueueOK' /\ FdConservation'
    BY <2>1, <2>2, <2>3, <2>4 DEF QueueOK, FdConservation
  <2>6. OneWatcher' /\ ChildOwned'
    BY <2>1, <2>2, <2>3, <2>4 DEF OneWatcher, ChildOwned
  <2> QED BY <2>5, <2>6
<1>8. CASE ReapCgi
  <2>1. cur \in Conns /\ conn[cur] = "open" /\ child # "none"
    BY <1>8 DEF ReapCgi, ChildOwned, Open
  <2>2. Open' = Open \ {cur} /\ Cardinality(Open') = Cardinality(Open) - 1
    BY <1>8, <2>1, OpenOneLess DEF ReapCgi, Finish
  <2>3. QueueOK'
    BY <1>8, <2>1, QueueStays DEF ReapCgi, Finish, netvars
  <2>4. OneWatcher' /\ ChildOwned'
    BY <1>8, <2>2 DEF OneWatcher, ChildOwned, ReapCgi, Finish
  <2>5. FdConservation'
    BY <1>0, <1>8, <2>1, <2>2 DEF FdConservation, ReapCgi, Finish
  <2> QED BY <2>3, <2>4, <2>5
<1>9. ASSUME NEW c \in Conns, Connect(c)
      PROVE  QueueOK' /\ OneWatcher' /\ ChildOwned' /\ FdConservation'
  <2>1. Open' = Open
    BY <1>9 DEF Connect, Open, TypeOK
  <2>2. QueueOK'
    <3>1. /\ Len(backlog') = Len(backlog) + 1
          /\ backlog'[Len(backlog')] = c
          /\ \A i \in 1..Len(backlog) : backlog'[i] = backlog[i]
      BY <1>9 DEF Connect, TypeOK
    <3>2. \A i \in 1..Len(backlog) : backlog[i] # c
      BY <1>9 DEF Connect, QueueOK
    <3>3. \A d \in Conns : conn'[d] = IF d = c THEN "backlog" ELSE conn[d]
      BY <1>9 DEF Connect, TypeOK
    <3>4. \A i \in 1..Len(backlog) : conn'[backlog[i]] = "backlog"
    <4>1. \A i \in 1..Len(backlog) : backlog[i] \in Conns
      BY DEF TypeOK
    <4> QED BY <3>2, <3>3, <4>1 DEF QueueOK
    <3>5. Len(backlog) \in Nat /\ conn'[c] = "backlog"
      BY <3>3 DEF TypeOK
    <3>6. \A i \in 1..Len(backlog') : i \in 1..Len(backlog) \/ i = Len(backlog')
      BY <3>1, <3>5
    <3>7. ASSUME NEW d \in Conns, conn'[d] = "backlog"
          PROVE  \E i \in 1..Len(backlog') : backlog'[i] = d
      <4>1. CASE d = c
        BY <3>1, <3>5, <4>1
      <4>2. CASE d # c
        <5>1. PICK i \in 1..Len(backlog) : backlog[i] = d
          BY <3>3, <3>7, <4>2 DEF QueueOK
        <5>2. i \in 1..Len(backlog') /\ backlog'[i] = d
          BY <3>1, <3>5, <5>1
        <5> QED BY <5>2
      <4> QED BY <4>1, <4>2
    <3>8. Len(backlog') <= Backlog
      BY <1>9, <3>1, <3>5, BoundsAssumption DEF Connect
    <3>9. \A i, j \in 1..Len(backlog') : backlog'[i] = backlog'[j] => i = j
      BY <3>1, <3>2, <3>5, <3>6 DEF QueueOK
    <3>10. \A i \in 1..Len(backlog') : conn'[backlog'[i]] = "backlog"
      BY <3>1, <3>4, <3>5, <3>6
    <3> QED BY <3>7, <3>8, <3>9, <3>10 DEF QueueOK
  <2> QED
    BY <1>9, <2>1, <2>2 DEF Connect, UNCHANGEDServer, OneWatcher, ChildOwned,
       FdConservation
<1>10. ASSUME NEW c \in Conns, Send(c) \/ Shutdown(c) \/ Reset(c)
       PROVE  QueueOK' /\ OneWatcher' /\ ChildOwned' /\ FdConservation'
  <2>1. /\ conn' = conn /\ backlog' = backlog /\ UNCHANGEDServer
    BY <1>10 DEF Send, Shutdown, Reset
  <2>2. Open' = Open
    BY <2>1 DEF Open
  <2>3. QueueOK'
    BY <2>1 DEF QueueOK
  <2> QED
    BY <2>1, <2>2, <2>3 DEF UNCHANGEDServer, OneWatcher, ChildOwned, FdConservation
<1>11. CASE UNCHANGED vars
  BY <1>11 DEF vars, Open, QueueOK, OneWatcher, ChildOwned, FdConservation
<1>12. ASSUME NEW c \in Conns, RespondLarge(c)
       PROVE  QueueOK' /\ OneWatcher' /\ ChildOwned' /\ FdConservation'
  <2>1. Open' = Open
    BY <1>12 DEF RespondLarge, Open
  <2>2. child = "none" /\ c \in wwatch
    BY <1>12 DEF RespondLarge, ChildOwned
  <2> QED
    BY <1>0, <1>12, <2>1, <2>2 DEF RespondLarge, netvars,
       QueueOK, OneWatcher, ChildOwned, FdConservation
<1>13. CASE SendRest
  <2>1. cur \in Conns /\ conn[cur] = "open" /\ child = "none"
    BY <1>13 DEF SendRest, OneWatcher, ChildOwned, Open
  <2>2. Open' = Open \ {cur} /\ Cardinality(Open') = Cardinality(Open) - 1
    BY <1>13, <2>1, OpenOneLess DEF SendRest, Finish
  <2>3. QueueOK'
    BY <1>13, <2>1, QueueStays DEF SendRest, Finish, netvars
  <2>4. OneWatcher' /\ ChildOwned'
    BY <1>13, <2>1, <2>2 DEF OneWatcher, ChildOwned, SendRest, Finish
  <2>5. FdConservation'
    BY <1>0, <1>13, <2>1, <2>2 DEF FdConservation, SendRest, Finish
  <2> QED BY <2>3, <2>4, <2>5
<1> QED
  BY <1>1, <1>2, <1>3, <1>4, <1>5, <1>6, <1>7, <1>8, <1>9, <1>10, <1>11,
     <1>12, <1>13
  DEF Next, Response, Parent, Client

\* The listen queue, the watchers of the loop, the child process and the
\* descriptors are in order in every reachable state.
THEOREM Invariance == Spec => []IInv
  BY InitIInv, NextIInv, PTL DEF Spec

\* No freed request keeps a watcher and no open connection lacks one.
THEOREM WatcherDiscipline == Spec => []OneWatcher
<1>1. IInv => OneWatcher
  BY DEF IInv
<1> QED BY <1>1, Invariance, PTL

\* Every descriptor is an open connection's, a running script's, or leaked by
\* a failed execute_cgi.
THEOREM Descriptors == Spec => []FdConservation
<1>1. IInv => FdConservation
  BY DEF IInv
<1> QED BY <1>1, Invariance, PTL

\* The listen queue holds exactly the connections that wait, each once, and
\* never more than the backlog.
THEOREM Queueing == Spec => []QueueOK
<1>1. IInv => QueueOK
  BY DEF IInv
<1> QED BY <1>1, Invariance, PTL

\* A child process exists while the handler that forked it runs, and outlives
\* it only if the server dies there.
THEOREM ChildrenReaped == Spec => []ChildOwned
<1>1. IInv => ChildOwned
  BY DEF IInv
<1> QED BY <1>1, Invariance, PTL

\* For any clients and requests, a connection is the business of exactly one
\* party at any time, and a child never outlives its handler.
THEOREM ConnectionsOwned == Spec => []Owned
<1>1. QueueOK /\ OneWatcher /\ ChildOwned => Owned
  BY DEF Owned
<1>. QED
  BY <1>1, Queueing, WatcherDiscipline, ChildrenReaped, PTL

\* Nothing is written to a connection that was closed.
THEOREM Silence == Spec => SilentAfterClose
<1> DEFINE Quiet == \A c \in Conns : conn[c] = "closed" => out'[c] = out[c]
<1>1. IInv /\ [Next]_vars => [Quiet]_vars
  <2> SUFFICES ASSUME IInv, [Next]_vars, NEW d \in Conns, conn[d] = "closed"
               PROVE  out'[d] = out[d]
    OBVIOUS
  <2>1. d \notin Open
    BY DEF Open
  <2>2. ASSUME NEW c \in Conns, Response(c) PROVE out'[d] = out[d]
    <3>1. c \in wwatch
      BY <2>2 DEF Response, RespondStatic, RespondLarge, NotFoundFails,
                  ExecuteCgiFails, ExecuteCgi, CallsCgi
    <3>2. c # d
      BY <2>1, <3>1 DEF IInv, OneWatcher
    <3> QED
      BY SMTT(30), <2>2, <3>2 DEF IInv, TypeOK, Response, RespondStatic, RespondLarge,
         NotFoundFails, ExecuteCgiFails, ExecuteCgi, SendFileAndFinish
  <2>3. CASE Parent \/ Child
    <3>1. cur \in Open
      BY <2>3 DEF Parent, RelayCgi, ReapCgi, Child, ChildExec, ScriptExits,
                  IInv, ChildOwned
    <3> QED
      BY <2>1, <2>3, <3>1 DEF Parent, RelayCgi, ReapCgi, Child, ChildExec,
         ScriptExits, IInv, TypeOK
  <2>4. ASSUME NEW c \in Conns, ParseRequestData(c) \/ Client(c)
        PROVE  out' = out
    BY <2>4 DEF ParseRequestData, ReadFull, ReadLast, ReadFails, Client,
       Connect, Send, Shutdown, Reset, UNCHANGEDServer
  <2> QED
    BY <2>2, <2>3, <2>4 DEF Next, AcceptRequest, SendRest, vars
<1> QED BY <1>1, Invariance, PTL DEF Spec, SilentAfterClose

\* The handler that is under way is the only one: it leaves every connection
\* but its own as it is, and admits none.
THEOREM OneHandler == Spec => OneAtATime
<1> DEFINE Alone ==
        (pc \in {"read", "send", "relay", "wait"}) =>
          /\ Open' \ {cur} = Open \ {cur}
          /\ \A c \in Conns \ {cur} :
                <<got'[c], out'[c], req'[c]>> = <<got[c], out[c], req[c]>>
<1>1. IInv /\ [Next]_vars => [Alone]_vars
  <2> SUFFICES ASSUME IInv, [Next]_vars, pc \in {"read", "send", "relay", "wait"}
               PROVE  /\ Open' \ {cur} = Open \ {cur}
                      /\ \A c \in Conns \ {cur} :
                            got'[c] = got[c] /\ out'[c] = out[c] /\ req'[c] = req[c]
    BY DEF Alone
  <2> USE DEF IInv, TypeOK
  <2>1. ~AcceptRequest /\ \A c \in Conns : ~Response(c)
    BY DEF AcceptRequest, Response, RespondStatic, RespondLarge, NotFoundFails,
           ExecuteCgiFails, ExecuteCgi, CallsCgi
  <2>2. ASSUME NEW d \in Conns, ParseRequestData(d)
        PROVE  /\ Open' = Open
               /\ \A c \in Conns \ {cur} :
                     got'[c] = got[c] /\ out'[c] = out[c] /\ req'[c] = req[c]
    <3>1. d = cur /\ conn' = conn /\ out' = out
      BY <2>2 DEF ParseRequestData, ReadFull, ReadLast, ReadFails, Reads
    <3>2. \A c \in Conns \ {d} : got'[c] = got[c] /\ req'[c] = req[c]
      <4>1. CASE ReadFull(d)
        BY <4>1 DEF ReadFull
      <4>2. CASE ReadLast(d)
        BY <4>2 DEF ReadLast
      <4>3. CASE ReadFails(d)
        BY <4>3 DEF ReadFails
      <4> QED BY <2>2, <4>1, <4>2, <4>3 DEF ParseRequestData
    <3> QED BY <3>1, <3>2 DEF Open
  <2>3. CASE SendRest \/ Parent \/ Child
    <3>1. got' = got /\ req' = req /\ \A c \in Conns \ {cur} : out'[c] = out[c]
      BY <2>3 DEF SendRest, Parent, RelayCgi, ReapCgi, Child, ChildExec, ScriptExits,
                  netvars
    <3>2. \A c \in Conns \ {cur} : conn'[c] = conn[c]
      BY <2>3 DEF SendRest, Parent, RelayCgi, ReapCgi, Child, ChildExec, ScriptExits,
                  Finish
    <3> QED BY <3>1, <3>2 DEF Open
  <2>4. ASSUME NEW d \in Conns, Client(d)
        PROVE  got' = got /\ out' = out /\ req' = req /\ Open' = Open
    BY <2>4 DEF Client, Connect, Send, Shutdown, Reset, UNCHANGEDServer, Open
  <2>5. CASE UNCHANGED vars
    BY <2>5 DEF vars, Open
  <2> QED BY <2>1, <2>2, <2>3, <2>4, <2>5 DEF Next
<1> QED BY <1>1, Invariance, PTL DEF Spec, OneAtATime

-----------------------------------------------------------------------------
(* Server implements ScriptRun.                                            *)

\* Every step of the server is one of ScriptRun or a stutter: the loop forks
\* only when it has no script, and goes on only when there is none any more.
LEMMA NextScript == IInv /\ [Next]_vars => [Script!Next]_(Script!vars)
<1> SUFFICES ASSUME IInv, [Next]_vars
             PROVE  Script!Next \/ UNCHANGED Script!vars
  OBVIOUS
<1> USE DEF IInv, ChildOwned
<1>0. child \in {"none", "forked", "script", "done", "failed"}
  BY DEF TypeOK
<1>1. CASE AcceptRequest
  BY <1>1 DEF AcceptRequest, Script!vars
<1>2. ASSUME NEW c \in Conns, ParseRequestData(c)
      PROVE  Script!Next \/ UNCHANGED Script!vars
  <2>1. CASE ReadFull(c) \/ ReadLast(c)
    BY <2>1 DEF ReadFull, ReadLast, Reads, Script!vars
  <2>2. CASE ReadFails(c)
    BY <2>2 DEF ReadFails, Reads, Script!Next, Script!Die
  <2> QED BY <1>2, <2>1, <2>2 DEF ParseRequestData
<1>3. ASSUME NEW c \in Conns, Response(c)
      PROVE  Script!Next \/ UNCHANGED Script!vars
  <2>1. CASE RespondStatic(c) \/ ExecuteCgiFails(c)
    <3>1. pc = "poll" /\ pc' \in {"poll", "crashed"} /\ child' = child
      BY <2>1 DEF RespondStatic, ExecuteCgiFails, CallsCgi, SendFileAndFinish,
                  Finish, Crash
    <3> QED BY <3>1 DEF Script!Next, Script!Die, Script!vars
  <2>2. CASE RespondLarge(c)
    BY <2>2 DEF RespondLarge, Script!vars
  <2>3. CASE NotFoundFails(c)
    BY <2>3 DEF NotFoundFails, CallsCgi, Crash, Script!Next, Script!Die
  <2>4. CASE ExecuteCgi(c)
    BY <2>4 DEF ExecuteCgi, CallsCgi, Script!Next, Script!Fork
  <2> QED BY <1>3, <2>1, <2>2, <2>3, <2>4 DEF Response
<1>4. CASE SendRest
  BY <1>4 DEF SendRest, Finish, Script!vars
<1>5. CASE RelayCgi
  BY <1>5 DEF RelayCgi, Script!Next, Script!Fed, Script!Die
<1>6. CASE ReapCgi
  BY <1>6 DEF ReapCgi, Finish, Script!Next, Script!Return
<1>7. CASE Child
  <2>1. /\ child \in {"forked", "script"} /\ pc' = pc
        /\ child' \in {"script", "done", "failed"}
    BY <1>7 DEF Child, ChildExec, ScriptExits
  <2> QED BY <2>1 DEF Script!Next, Script!Exit, Script!vars
<1>8. ASSUME NEW c \in Conns, Client(c) PROVE UNCHANGED Script!vars
  BY <1>8 DEF Client, Connect, Send, Shutdown, Reset, UNCHANGEDServer, Script!vars
<1>9. CASE UNCHANGED vars
  BY <1>9 DEF vars, Script!vars
<1> QED
  BY <1>1, <1>2, <1>3, <1>4, <1>5, <1>6, <1>7, <1>8, <1>9 DEF Next, Parent

\* The loop goes on after a script only when the script is gone, and runs one
\* script at a time.
THEOREM ServerImplementsScriptRun == Spec => ScriptSpec
<1>1. Init => Script!Init
  BY DEF Init, Script!Init
<1> QED BY <1>1, NextScript, Invariance, PTL DEF Spec, ScriptSpec, Script!Spec

-----------------------------------------------------------------------------
(* What connections hear. *)

AInv == IInv /\ AnswerSoFar /\ AnswerConforms

-----------------------------------------------------------------------------
(* Sequences of status lines. *)

\* Nothing said changes nothing that was said.
LEMMA EmptyConcat == \A s \in Seq(Lines) : <<>> \o s = s /\ s \o <<>> = s
  OBVIOUS

\* Append, as the concatenation the other facts are about.
LEMMA AppendIsConcat ==
    \A s \in Seq(Lines), t \in Lines : Append(s, t) = s \o <<t>>
  OBVIOUS

\* The 404 before a script and the child's 500 are one status line at most.
LEMMA AtMostOneLine ==
    /\ \A r : NotFound(r) \in Seq(Lines) /\ Len(NotFound(r)) <= 1
    /\ ChildSaid \in Seq(Lines) /\ Len(ChildSaid) <= 1
<1>1. <<404>> \in Seq(Lines) /\ <<500>> \in Seq(Lines) /\ <<>> \in Seq(Lines)
  BY DEF Lines
<1>2. Len(<<404>>) = 1 /\ Len(<<500>>) = 1 /\ Len(<<>>) = 0
  OBVIOUS
<1>3. ASSUME NEW r
      PROVE  NotFound(r) \in Seq(Lines) /\ Len(NotFound(r)) <= 1
  <2>1. CASE r.target = "cgi_missing"
    BY <1>1, <1>2, <2>1 DEF NotFound
  <2>2. CASE r.target # "cgi_missing"
    BY <1>1, <1>2, <2>2 DEF NotFound
  <2> QED BY <2>1, <2>2
<1>4. ChildSaid \in Seq(Lines) /\ Len(ChildSaid) <= 1
  <2>1. CASE ChildSaid = <<>>
    BY <1>1, <1>2, <2>1
  <2>2. CASE ChildSaid = <<500>>
    BY <1>1, <1>2, <2>2
  <2> QED BY <2>1, <2>2 DEF ChildSaid
<1> QED BY <1>3, <1>4

\* The lengths of answers put together from those.
LEMMA ShortAnswers ==
    ASSUME NEW n \in Seq(Lines), NEW k \in Seq(Lines),
           Len(n) <= 1, Len(k) <= 1
    PROVE  /\ n \o k \in Seq(Lines) /\ Len(n \o k) = Len(n) + Len(k)
           /\ n \o <<200>> \o k \in Seq(Lines)
           /\ n \o k \o <<200>> \in Seq(Lines)
           /\ Len(n \o <<200>> \o k) \in 1..3
           /\ Len(n \o k \o <<200>>) \in 1..3
<1>1. <<200>> \in Seq(Lines) /\ Len(<<200>>) = 1
  BY DEF Lines
<1>2. \A a, b \in Seq(Lines) :
         a \o b \in Seq(Lines) /\ Len(a \o b) = Len(a) + Len(b)
  OBVIOUS
<1>3. /\ n \o k \in Seq(Lines) /\ Len(n \o k) = Len(n) + Len(k)
      /\ n \o <<200>> \in Seq(Lines) /\ Len(n \o <<200>>) = Len(n) + 1
  BY <1>1, <1>2
<1>4. /\ n \o <<200>> \o k \in Seq(Lines)
      /\ n \o k \o <<200>> \in Seq(Lines)
      /\ Len(n \o <<200>> \o k) = Len(n) + 1 + Len(k)
      /\ Len(n \o k \o <<200>>) = Len(n) + Len(k) + 1
  BY <1>1, <1>2, <1>3
<1>5. Len(n \o <<200>> \o k) \in 1..3 /\ Len(n \o k \o <<200>>) \in 1..3
  BY <1>4
<1> QED BY <1>3, <1>4, <1>5, Zenon

-----------------------------------------------------------------------------
(* Steps that write nothing. *)

\* A step that says nothing and handles nothing new keeps the invariant.
LEMMA QuietStep ==
    ASSUME AInv, out' = out, req' = req, pc' = pc, cur' = cur, child' = child,
           \A d \in Conns : /\ conn[d] = "open" => conn'[d] = "open"
                            /\ (conn'[d] = "closed") <=> (conn[d] = "closed")
    PROVE  AnswerSoFar' /\ AnswerConforms'
<1>1. ChildSaid' = ChildSaid
  BY DEF ChildSaid
<1>2. AnswerSoFar'
  BY <1>1 DEF AInv, AnswerSoFar
<1>3. AnswerConforms'
  BY DEF AInv, AnswerConforms
<1> QED BY <1>2, <1>3

\* Reading and parsing happens before anything was said.
LEMMA ParseStep ==
    ASSUME AInv, TypeOK', NEW c \in Conns, ParseRequestData(c)
    PROVE  AnswerSoFar' /\ AnswerConforms'
<1>1. c \in rwatch /\ pc \in {"poll", "read"}
  BY DEF ParseRequestData, ReadFull, ReadLast, ReadFails, Reads, AInv, IInv,
         OneWatcher
<1>2. conn[c] = "open"
  BY <1>1 DEF AInv, IInv, OneWatcher, Open
<1>3. /\ conn' = conn /\ out' = out
      /\ pc' \in {"poll", "read", "crashed"}
      /\ pc' = "crashed" => cur' = c
      /\ \A d \in Conns \ {c} : req'[d] = req[d]
  <2>1. CASE ReadFull(c)
    BY <2>1 DEF ReadFull
  <2>2. CASE ReadLast(c)
    <3>1. \A d \in Conns \ {c} : req'[d] = req[d]
      BY <2>2 DEF ReadLast, AInv, IInv, TypeOK
    <3> QED BY <2>2, <3>1 DEF ReadLast
  <2>3. CASE ReadFails(c)
    BY <2>3 DEF ReadFails
  <2> QED BY <2>1, <2>2, <2>3 DEF ParseRequestData
<1>4. \A d \in Conns : conn[d] = "closed" \/ out[d] = <<>>
  BY <1>1 DEF AInv, AnswerSoFar
<1>5. AnswerSoFar'
  <2>1. pc' = "crashed" => Len(out'[cur']) = 0
    BY <1>2, <1>3, <1>4
  <2> QED BY <1>3, <1>4, <2>1 DEF AnswerSoFar
<1>6. AnswerConforms'
  BY <1>2, <1>3 DEF AInv, AnswerConforms
<1> QED BY <1>5, <1>6

-----------------------------------------------------------------------------
(* Steps of response. *)

\* A callback of the loop starts when the connection has heard nothing, and
\* so have all others that are open.
LEMMA ResponseStarts ==
    ASSUME AInv, NEW c \in wwatch, pc = "poll"
    PROVE  /\ c \in Conns /\ conn[c] = "open" /\ out[c] = <<>>
           /\ child = "none"
           /\ \A d \in Conns : conn[d] = "closed" \/ out[d] = <<>>
  BY DEF AInv, IInv, OneWatcher, Open, ChildOwned, AnswerSoFar

\* Finishing with one more status line gives the whole answer.
LEMMA SendFileAndFinishAnswers ==
    ASSUME AInv, TypeOK', NEW c \in wwatch, NEW s \in Seq(Lines), Len(s) <= 1,
           NEW t \in Lines, NEW held, pc = "poll", req' = req, child' = child,
           SendFileAndFinish(c, s, t, held),
           s \o <<t>> \in Answers(req[c])
    PROVE  AnswerSoFar' /\ AnswerConforms'
<1>1. /\ c \in Conns /\ conn[c] = "open" /\ out[c] = <<>> /\ child = "none"
      /\ \A d \in Conns : conn[d] = "closed" \/ out[d] = <<>>
  BY ResponseStarts
<1>2. <<t>> \in Seq(Lines)
  OBVIOUS
<1>3. CASE /\ out' = [out EXCEPT ![c] = @ \o s \o <<t>>]
           /\ Finish(c, held)
  <2>1. out'[c] = s \o <<t>>
    BY SMTT(30), <1>1, <1>2, <1>3 DEF AInv, IInv, TypeOK
  <2>2. \A d \in Conns \ {c} : out'[d] = out[d] /\ conn'[d] = conn[d]
    BY <1>3 DEF AInv, IInv, TypeOK, Finish
  <2>3. conn'[c] = "closed" /\ pc' = "poll"
    BY <1>1, <1>3 DEF AInv, IInv, TypeOK, Finish
  <2>4. AnswerSoFar'
    BY <1>1, <2>2, <2>3 DEF AnswerSoFar
  <2>5. AnswerConforms'
    BY <2>1, <2>2 DEF AInv, AnswerConforms
  <2> QED BY <2>4, <2>5
<1>4. CASE /\ out' = [out EXCEPT ![c] = @ \o s]
           /\ Crash(c, held)
  <2>1. out'[c] = s
    BY <1>1, <1>4, EmptyConcat DEF AInv, IInv, TypeOK
  <2>2. \A d \in Conns \ {c} : out'[d] = out[d]
    BY <1>4 DEF AInv, IInv, TypeOK
  <2>3. conn' = conn /\ pc' = "crashed" /\ cur' = c
    BY <1>4 DEF Crash
  <2>4. AnswerSoFar'
    <3>1. out'[cur'] = s /\ child' = "none"
      BY <1>1, <2>1, <2>3
    <3>3. Len(out'[cur']) <= 1
      <4>1. Len(s) <= 1
        OBVIOUS
      <4> QED BY <3>1, <4>1, Zenon
    <3>2. \A d \in Conns : d = c \/ conn'[d] = "closed" \/ out'[d] = <<>>
      BY <1>1, <2>2, <2>3
    <3> QED BY <1>1, <2>3, <3>1, <3>2, <3>3 DEF AnswerSoFar
  <2>5. AnswerConforms'
    BY <1>1, <2>2, <2>3 DEF AInv, AnswerConforms
  <2> QED BY <2>4, <2>5
<1> QED BY <1>3, <1>4 DEF SendFileAndFinish

\* A response callback keeps what connections heard in order.
LEMMA ResponseStep ==
    ASSUME AInv, TypeOK', NEW c \in Conns, Response(c)
    PROVE  AnswerSoFar' /\ AnswerConforms'
<1>0. req[c] \in Requests
  BY DEF AInv, IInv, TypeOK
<1>1. CASE RespondStatic(c)
  <2>1. StaticStatus(req[c]) \in Lines
    BY <1>0, StaticStatusType
  <2>2. <<>> \o <<StaticStatus(req[c])>> \in Answers(req[c])
    BY <1>1, <2>1, EmptyConcat DEF RespondStatic, Answers
  <2>3. <<>> \in Seq(Lines) /\ Len(<<>>) <= 1
    OBVIOUS
  <2> QED
    BY <1>1, <2>1, <2>2, <2>3, SendFileAndFinishAnswers DEF RespondStatic
<1>2. CASE ExecuteCgiFails(c)
  <2>1. PICK lost \in {0, 2, 4} :
           SendFileAndFinish(c, NotFound(req[c]), 500, fds + lost)
    BY <1>2 DEF ExecuteCgiFails
  <2>2. NotFound(req[c]) \o <<500>> \in Answers(req[c])
    BY <1>2 DEF ExecuteCgiFails, CallsCgi, Answers
  <2>3. /\ NotFound(req[c]) \in Seq(Lines) /\ Len(NotFound(req[c])) <= 1
        /\ 500 \in Lines
    BY AtMostOneLine DEF Lines
  <2>4. c \in wwatch /\ pc = "poll" /\ req' = req /\ child' = child
    BY <1>2 DEF ExecuteCgiFails, CallsCgi
  <2> QED BY <2>1, <2>2, <2>3, <2>4, SendFileAndFinishAnswers
<1>3. CASE NotFoundFails(c)
  <2>1. /\ out[c] = <<>> /\ conn[c] = "open" /\ Len(<<>>) = 0
        /\ \A d \in Conns : conn[d] = "closed" \/ out[d] = <<>>
    BY <1>3, ResponseStarts DEF NotFoundFails, CallsCgi
  <2>2. /\ out' = out /\ conn' = conn /\ req' = req
        /\ pc' = "crashed" /\ cur' = c
    BY <1>3 DEF NotFoundFails, CallsCgi, Crash
  <2> QED
    BY <2>1, <2>2 DEF AInv, AnswerSoFar, AnswerConforms
<1>4. CASE ExecuteCgi(c)
  <2>1. /\ out[c] = <<>> /\ conn[c] = "open"
        /\ \A d \in Conns : conn[d] = "closed" \/ out[d] = <<>>
    BY <1>4, ResponseStarts DEF ExecuteCgi, CallsCgi
  <2>2. /\ conn' = conn /\ req' = req /\ pc' = "relay" /\ cur' = c
        /\ child' = "forked" /\ RunsCgi(req[c])
    BY <1>4 DEF ExecuteCgi, CallsCgi
  <2>3. out' = [out EXCEPT ![c] = @ \o NotFound(req[c])]
    BY <1>4 DEF ExecuteCgi
  <2>4. NotFound(req[c]) \in Seq(Lines)
    BY <1>0, NotFoundType
  <2>5. out'[c] = NotFound(req[c]) /\ \A d \in Conns \ {c} : out'[d] = out[d]
    BY <2>1, <2>3, <2>4, EmptyConcat DEF AInv, IInv, TypeOK
  <2>6. ChildSaid' = <<>> /\ NotFound(req[c]) \o <<>> = NotFound(req[c])
    BY <2>2, <2>4, EmptyConcat DEF ChildSaid
  <2>7. AnswerSoFar'
    BY <2>1, <2>2, <2>5, <2>6 DEF AnswerSoFar
  <2>8. AnswerConforms'
    BY <2>1, <2>2, <2>5 DEF AInv, AnswerConforms
  <2> QED BY <2>7, <2>8
<1>5. CASE RespondLarge(c)
  <2>1. /\ out[c] = <<>> /\ conn[c] = "open"
        /\ \A d \in Conns : conn[d] = "closed" \/ out[d] = <<>>
    BY <1>5, ResponseStarts DEF RespondLarge
  <2>2. /\ conn' = conn /\ req' = req /\ pc' = "send" /\ cur' = c
        /\ ~RunsCgi(req[c]) /\ StaticStatus(req[c]) = 200
    BY <1>5 DEF RespondLarge
  <2>3. out' = [out EXCEPT ![c] = Append(@, 200)]
    BY <1>5 DEF RespondLarge
  <2>4. Append(<<>>, 200) = <<200>>
    OBVIOUS
  <2>5. out'[c] = <<200>> /\ \A d \in Conns \ {c} : out'[d] = out[d]
    BY <2>1, <2>3, <2>4 DEF AInv, IInv, TypeOK
  <2>6. AnswerSoFar'
    BY <2>1, <2>2, <2>5 DEF AnswerSoFar
  <2>7. AnswerConforms'
    BY <2>1, <2>2, <2>5 DEF AInv, AnswerConforms
  <2> QED BY <2>6, <2>7
<1> QED BY <1>1, <1>2, <1>3, <1>4, <1>5 DEF Response

\* What has been said when all of a large page is sent is an answer.
LEMMA SendRestStep ==
    ASSUME AInv, SendRest
    PROVE  AnswerSoFar' /\ AnswerConforms'
<1>1. /\ cur \in Conns /\ conn[cur] = "open"
      /\ \A d \in Conns \ {cur} : conn[d] = "closed" \/ out[d] = <<>>
  BY DEF SendRest, AInv, IInv, OneWatcher, Open, AnswerSoFar
<1>2. /\ conn' = [conn EXCEPT ![cur] = "closed"]
      /\ out' = out /\ req' = req /\ pc' = "poll"
  BY DEF SendRest, Finish
<1>3. conn'[cur] = "closed" /\ \A d \in Conns \ {cur} : conn'[d] = conn[d]
  BY <1>1, <1>2 DEF AInv, IInv, TypeOK
<1>4. out[cur] \in Answers(req[cur])
  BY DEF SendRest, AInv, AnswerSoFar, Answers
<1>5. AnswerSoFar'
  BY <1>1, <1>2, <1>3 DEF AnswerSoFar
<1>6. AnswerConforms'
  BY <1>2, <1>3, <1>4 DEF AInv, AnswerConforms
<1> QED BY <1>5, <1>6

-----------------------------------------------------------------------------
(* Steps of a running script. *)

\* The connection a script runs for is open; the others that are open have
\* heard nothing.
LEMMA ScriptRuns ==
    ASSUME AInv, Parent \/ Child
    PROVE  /\ cur \in Conns /\ conn[cur] = "open" /\ child # "none"
           /\ pc \in {"relay", "wait", "crashed"}
           /\ req[cur] \in Requests
           /\ out[cur] \in Seq(Lines)
           /\ \A d \in Conns \ {cur} : conn[d] = "closed" \/ out[d] = <<>>
<1>1. cur \in Open /\ child # "none" /\ pc \in {"relay", "wait", "crashed"}
  BY DEF Parent, RelayCgi, ReapCgi, Child, ChildExec, ScriptExits, AInv, IInv,
         ChildOwned
<1> QED BY <1>1 DEF AInv, IInv, TypeOK, AnswerSoFar, Open, Lines

\* Writing one status line to the current connection.
LEMMA SaysOne ==
    ASSUME AInv, cur \in Conns, NEW t \in Lines,
           out' = [out EXCEPT ![cur] = Append(@, t)]
    PROVE  /\ out'[cur] = out[cur] \o <<t>>
           /\ \A d \in Conns \ {cur} : out'[d] = out[d]
<1>1. out \in [Conns -> Seq(Lines)]
  BY DEF AInv, IInv, TypeOK, Lines
<1>2. out'[cur] = Append(out[cur], t)
  BY <1>1
<1> QED BY <1>1, <1>2, AppendIsConcat

\* The parent's 200 keeps what connections heard in order.
LEMMA RelayStep ==
    ASSUME AInv, RelayCgi
    PROVE  AnswerSoFar' /\ AnswerConforms'
<1> DEFINE n == NotFound(req[cur])
<1>1. /\ cur \in Conns /\ conn[cur] = "open"
      /\ \A d \in Conns \ {cur} : conn[d] = "closed" \/ out[d] = <<>>
  BY ScriptRuns DEF Parent
<1>2. /\ conn' = conn /\ req' = req /\ cur' = cur /\ child' = child
      /\ ChildSaid' = ChildSaid /\ pc = "relay"
  BY DEF RelayCgi, ChildSaid
<1>3. out[cur] = n \o ChildSaid
  BY <1>2 DEF AInv, AnswerSoFar
<1>4. CASE pc' = "wait" /\ out' = [out EXCEPT ![cur] = Append(@, 200)]
  <2>1. /\ out'[cur] = n \o ChildSaid \o <<200>>
        /\ \A d \in Conns \ {cur} : out'[d] = out[d]
    BY <1>1, <1>3, <1>4, SaysOne DEF Lines
  <2>2. AnswerSoFar'
    BY <1>1, <1>2, <1>4, <2>1 DEF AInv, AnswerSoFar
  <2>3. AnswerConforms'
    BY <1>1, <1>2, <2>1 DEF AInv, AnswerConforms
  <2> QED BY <2>2, <2>3
<1>5. CASE pc' = "crashed" /\ out' = out
  <2>1. Len(out[cur]) <= IF child = "failed" THEN 2 ELSE 1
    <3>1. Len(out[cur]) = Len(n) + Len(ChildSaid)
      BY <1>3, AtMostOneLine, ShortAnswers
    <3>2. Len(n) \in Nat /\ Len(ChildSaid) \in Nat /\ Len(n) <= 1
          /\ Len(ChildSaid) <= 1
      BY AtMostOneLine
    <3>3. child # "failed" => Len(ChildSaid) = 0
      BY DEF ChildSaid
    <3> QED BY <3>1, <3>2, <3>3
  <2>2. AnswerSoFar'
    BY <1>1, <1>2, <1>5, <2>1 DEF AnswerSoFar
  <2>3. AnswerConforms'
    BY <1>2, <1>5 DEF AInv, AnswerConforms
  <2> QED BY <2>2, <2>3
<1> QED BY <1>4, <1>5 DEF RelayCgi

\* The child's 500 does too, whichever of the two writes first.
LEMMA ChildStep ==
    ASSUME AInv, Child
    PROVE  AnswerSoFar' /\ AnswerConforms'
<1> DEFINE n == NotFound(req[cur])
<1>1. /\ cur \in Conns /\ conn[cur] = "open"
      /\ pc \in {"relay", "wait", "crashed"}
      /\ \A d \in Conns \ {cur} : conn[d] = "closed" \/ out[d] = <<>>
  BY ScriptRuns
<1>2. conn' = conn /\ req' = req /\ cur' = cur /\ pc' = pc
  BY DEF Child, ChildExec, ScriptExits
<1>3. child \in {"forked", "script"} /\ ChildSaid = <<>>
  BY DEF Child, ChildExec, ScriptExits, ChildSaid
<1>4. n \in Seq(Lines) /\ <<500>> \in Seq(Lines) /\ <<200>> \in Seq(Lines)
  BY AtMostOneLine DEF Lines
<1>5. /\ pc = "relay" => out[cur] = n
      /\ pc = "wait" => out[cur] = n \o <<200>>
      /\ pc = "crashed" => Len(out[cur]) <= 1
  <2>1. n \o <<>> = n /\ n \o <<200>> \o <<>> = n \o <<200>>
    BY <1>4, EmptyConcat
  <2> QED BY <1>3, <2>1 DEF AInv, AnswerSoFar
<1>6. CASE /\ out' = out
           /\ ChildSaid' = <<>>
           /\ \/ child' = "failed" /\ NoLength(req[cur])
              \/ child' = "script" /\ ~NoLength(req[cur]) /\ req[cur].target = "cgi"
              \/ child' = "done" /\ child = "script"
  <2>1. AnswerSoFar'
    <3>1. pc = "crashed" => Len(out[cur]) <= IF child' = "failed" THEN 2 ELSE 1
      BY <1>5, <1>1 DEF AInv, IInv, TypeOK
    <3> QED BY <1>1, <1>2, <1>3, <1>6, <3>1 DEF AInv, AnswerSoFar
  <2>2. AnswerConforms'
    BY <1>2, <1>6 DEF AInv, AnswerConforms
  <2> QED BY <2>1, <2>2
<1>7. CASE /\ out' = [out EXCEPT ![cur] = Append(@, 500)]
           /\ child' = "failed" /\ ~NoLength(req[cur])
           /\ req[cur].target # "cgi"
  <2>1. /\ out'[cur] = out[cur] \o <<500>>
        /\ \A d \in Conns \ {cur} : out'[d] = out[d]
    BY <1>1, <1>7, SaysOne DEF Lines
  <2>2. ChildSaid' = <<500>>
    BY <1>2, <1>7 DEF ChildSaid
  <2>3. pc = "crashed" => Len(out'[cur]) <= 2
    <3>1. out[cur] \in Seq(Lines)
      BY <1>1 DEF AInv, IInv, TypeOK, Lines
    <3>2. Len(out'[cur]) = Len(out[cur]) + 1
      BY <1>4, <2>1, <3>1
    <3>3. Len(out[cur]) \in Nat
      BY <3>1
    <3> QED BY <1>5, <3>2, <3>3
  <2>4. AnswerSoFar'
    BY SMTT(30), <1>1, <1>2, <1>5, <1>7, <2>1, <2>2, <2>3 DEF AInv, AnswerSoFar
  <2>5. AnswerConforms'
    BY <1>1, <1>2, <2>1 DEF AInv, AnswerConforms
  <2> QED BY <2>4, <2>5
<1>8. CASE ChildExec
  BY <1>2, <1>6, <1>7, <1>8 DEF ChildExec, ChildSaid
<1>9. CASE ScriptExits
  BY <1>2, <1>6, <1>9 DEF ScriptExits, ChildSaid
<1> QED BY <1>8, <1>9 DEF Child

\* What has been said when the child is reaped is an answer.
LEMMA ReapStep ==
    ASSUME AInv, ReapCgi
    PROVE  AnswerSoFar' /\ AnswerConforms'
<1> DEFINE n == NotFound(req[cur])
<1>1. /\ cur \in Conns /\ conn[cur] = "open"
      /\ \A d \in Conns \ {cur} : conn[d] = "closed" \/ out[d] = <<>>
  BY ScriptRuns DEF Parent
<1>2. /\ conn' = [conn EXCEPT ![cur] = "closed"]
      /\ out' = out /\ req' = req /\ pc' = "poll"
  BY DEF ReapCgi, Finish
<1>3. conn'[cur] = "closed" /\ \A d \in Conns \ {cur} : conn'[d] = conn[d]
  BY <1>1, <1>2 DEF AInv, IInv, TypeOK
<1>4. n \in Seq(Lines) /\ <<200>> \in Seq(Lines) /\ <<500>> \in Seq(Lines)
      /\ n \o <<200>> \in Seq(Lines)
  BY AtMostOneLine DEF Lines
<1>5. out[cur] \in {n \o <<200>> \o ChildSaid, n \o ChildSaid \o <<200>>}
  BY DEF ReapCgi, AInv, AnswerSoFar
<1>6. out[cur] \in Answers(req[cur])
  <2>0. RunsCgi(req[cur])
    BY DEF ReapCgi, AInv, AnswerSoFar
  <2>1. CASE req[cur].target = "cgi" \/ NoLength(req[cur])
    <3>1. ChildSaid = <<>>
      BY <2>1 DEF ReapCgi, AInv, AnswerSoFar, ChildSaid
    <3>2. out[cur] = n \o <<200>>
      <4>1. n \o <<200>> \o <<>> = n \o <<200>> /\ n \o <<>> = n
        BY <1>4, EmptyConcat
      <4> QED BY <1>5, <3>1, <4>1
    <3> QED BY <2>0, <2>1, <3>2 DEF Answers
  <2>2. CASE ~(req[cur].target = "cgi" \/ NoLength(req[cur]))
    <3>1. ChildSaid = <<500>>
      BY <2>2 DEF ReapCgi, AInv, AnswerSoFar, ChildSaid
    <3>2. /\ n \o <<200>> \o <<500>> = n \o <<200, 500>>
          /\ n \o <<500>> \o <<200>> = n \o <<500, 200>>
      BY <1>4
    <3>3. out[cur] \in {n \o <<200, 500>>, n \o <<500, 200>>}
      BY ZenonT(30), <1>5, <3>1, <3>2
    <3> QED BY SMTT(30), <2>0, <2>2, <3>3 DEF Answers
  <2> QED BY <2>1, <2>2
<1>7. AnswerSoFar'
  BY <1>1, <1>2, <1>3 DEF AnswerSoFar
<1>8. AnswerConforms'
  BY <1>2, <1>3, <1>6 DEF AInv, AnswerConforms
<1> QED BY <1>7, <1>8

-----------------------------------------------------------------------------
\* Nobody has heard anything when the server starts.
LEMMA InitAInv == Init => AInv
<1> SUFFICES ASSUME Init PROVE AnswerSoFar /\ AnswerConforms
  BY InitIInv DEF AInv
<1> QED BY DEF Init, AnswerSoFar, AnswerConforms

\* Every step keeps the invariant about answers.
LEMMA NextAInv == AInv /\ [Next]_vars => AInv'
<1> SUFFICES ASSUME AInv, [Next]_vars PROVE AnswerSoFar' /\ AnswerConforms'
  BY NextIInv DEF AInv
<1>0. TypeOK' /\ TypeOK
  BY NextIInv DEF AInv, IInv
<1>1. CASE AcceptRequest
  <2>1. Head(backlog) \in Conns /\ conn[Head(backlog)] = "backlog"
    BY <1>0, <1>1 DEF AcceptRequest, TypeOK, AInv, IInv, QueueOK
  <2>2. conn' = [conn EXCEPT ![Head(backlog)] = "open"]
    BY <1>1 DEF AcceptRequest
  <2>3. \A d \in Conns : /\ conn[d] = "open" => conn'[d] = "open"
                         /\ (conn'[d] = "closed") <=> (conn[d] = "closed")
    BY SMTT(30), <1>0, <2>1, <2>2 DEF TypeOK
  <2> QED BY <1>1, <2>3, QuietStep DEF AcceptRequest
<1>2. ASSUME NEW c \in Conns, ParseRequestData(c)
      PROVE  AnswerSoFar' /\ AnswerConforms'
  BY <1>0, <1>2, ParseStep
<1>3. ASSUME NEW c \in Conns, Response(c)
      PROVE  AnswerSoFar' /\ AnswerConforms'
  BY <1>0, <1>3, ResponseStep
<1>4. CASE Parent
  BY <1>4, RelayStep, ReapStep DEF Parent
<1>5. CASE Child
  BY <1>5, ChildStep
<1>6. ASSUME NEW c \in Conns, Client(c)
      PROVE  AnswerSoFar' /\ AnswerConforms'
  <2>1. \A d \in Conns : /\ conn[d] = "open" => conn'[d] = "open"
                         /\ (conn'[d] = "closed") <=> (conn[d] = "closed")
    <3>1. CASE Connect(c)
      BY <1>0, <3>1 DEF Connect, TypeOK
    <3>2. CASE Send(c) \/ Shutdown(c) \/ Reset(c)
      BY <3>2 DEF Send, Shutdown, Reset
    <3> QED BY <1>6, <3>1, <3>2 DEF Client
  <2>2. out' = out /\ req' = req /\ pc' = pc /\ cur' = cur /\ child' = child
    BY <1>6 DEF Client, Connect, Send, Shutdown, Reset, UNCHANGEDServer
  <2> QED BY <2>1, <2>2, QuietStep
<1>7. CASE UNCHANGED vars
  BY <1>7, QuietStep DEF vars
<1>8. CASE SendRest
  BY <1>8, SendRestStep
<1> QED
  BY <1>1, <1>2, <1>3, <1>4, <1>5, <1>6, <1>7, <1>8 DEF Next

\* What every connection has heard so far fits how far its answer has got, in
\* every reachable state.
THEOREM AnswerInvariance == Spec => []AInv
  BY InitAInv, NextAInv, PTL DEF Spec

\* Nobody hears anything before the response starts, nor more than its part of
\* the answer while it is under way.
THEOREM AnswersGrow == Spec => []AnswerSoFar
<1>1. AInv => AnswerSoFar
  BY DEF AInv
<1> QED BY <1>1, AnswerInvariance, PTL

\* Whoever is let go has heard an answer that fits what was parsed of the
\* request, for every mix of clients, requests, failures and interleavings of
\* the child with its parent.
THEOREM Answered == Spec => []AnswerConforms
<1>1. AInv => AnswerConforms
  BY DEF AInv
<1> QED BY <1>1, AnswerInvariance, PTL

\* For any clients and requests, a client hears exactly the status lines of its
\* answer, in an order in which parent and child may send them.
THEOREM AnswersAlwaysFit == Spec => []AnswersFit
<1>1. AnswerSoFar /\ AnswerConforms => AnswersFit
  BY DEF AnswersFit
<1>. QED
  BY <1>1, AnswersGrow, Answered, PTL

-----------------------------------------------------------------------------
(* Server implements SerialService: accepting is Admit, the steps of a      *)
(* running script are Speak, closing is Leave, crashing is Die, and reading *)
(* and parsing are invisible.                                               *)

busyBar == IF pc \in {"send", "relay", "wait", "crashed"} THEN cur ELSE NoConn

\* An interval of integers, spelled out for the solver.
LEMMA UpToThree == \A x \in Nat : x <= 3 => x \in 0..3
  OBVIOUS

\* Up to two status lines are something SerialService may say.
LEMMA SaysLines == \A s \in Seq(Lines) : Len(s) <= 2 => s \in Service!Says
<1> TAKE s \in Seq(Lines)
<1>1. s \in [1..Len(s) -> Service!Statuses] /\ Len(s) \in Nat
  BY DEF Service!Statuses, Lines
<1>2. Len(s) <= 2 => Len(s) \in 0..2
  BY <1>1
<1> QED BY <1>1, <1>2, Zenon DEF Service!Says

\* A crash, or an answer and goto finish, is a Die or a Leave of the service.
LEMMA SendFileAndFinishRefines ==
    ASSUME AInv, NEW c \in wwatch, NEW s \in Seq(Lines), Len(s) <= 1,
           NEW t \in Lines, NEW held, pc = "poll", backlog' = backlog,
           SendFileAndFinish(c, s, t, held)
    PROVE  Service!Leave(c) \/ Service!Die(c)
<1>1. c \in Conns /\ conn[c] = "open" /\ out[c] = <<>>
  BY ResponseStarts
<1>2. <<t>> \in Seq(Lines) /\ Len(<<t>>) = 1 /\ Len(s) \in Nat
  OBVIOUS
<1>3. s \o <<t>> \in Seq(Lines) /\ Len(s \o <<t>>) = Len(s) + 1
  BY <1>2
<1>4. /\ out[c] \o (s \o <<t>>) = s \o <<t>>
      /\ out[c] \o s = s
      /\ out[c] \o s \o <<t>> = s \o <<t>>
  BY <1>1, <1>3, EmptyConcat
<1>5. busyBar = NoConn
  BY DEF busyBar
<1>8. s \in Service!Says /\ s \o <<t>> \in Service!Says
  <2>1. Len(s) <= 2 /\ Len(s) + 1 <= 2
    BY <1>2
  <2> QED BY <1>3, <2>1, SaysLines
<1>6. CASE out' = [out EXCEPT ![c] = @ \o s \o <<t>>] /\ Finish(c, held)
  <2>1. Service!Hears(c, 1)
    <3>1. Len(out[c] \o (s \o <<t>>)) \in 1..3
      <4>1. Len(out[c] \o (s \o <<t>>)) = Len(s) + 1
        BY <1>3, <1>4, Zenon
      <4>2. Len(s) + 1 \in 1..3
        BY <1>2
      <4> QED BY <4>1, <4>2, Zenon
    <3>2. out' = [out EXCEPT ![c] = @ \o (s \o <<t>>)]
      BY <1>4, <1>6
    <3> QED BY <1>8, <3>1, <3>2 DEF Service!Hears
  <2>2. pc' = "poll" /\ conn' = [conn EXCEPT ![c] = "closed"] /\ busyBar' = NoConn
    BY <1>6 DEF Finish, busyBar
  <2> QED BY <1>1, <1>5, <2>1, <2>2 DEF Service!Leave, busyBar
<1>7. CASE out' = [out EXCEPT ![c] = @ \o s] /\ Crash(c, held)
  <2>1. Service!Hears(c, 0)
    <3>1. Len(out[c] \o s) \in 0..3
      <4>1. Len(s) <= 3
        BY <1>2
      <4>2. Len(s) \in 0..3
        BY <1>2, <4>1, UpToThree
      <4> QED BY <1>4, <4>2, Zenon
    <3> QED BY <1>7, <1>8, <3>1 DEF Service!Hears
  <2>2. pc' = "crashed" /\ cur' = c /\ conn' = conn
    BY <1>7 DEF Crash
  <2> QED BY <1>1, <1>5, <2>1, <2>2 DEF Service!Die, busyBar
<1> QED BY <1>6, <1>7 DEF SendFileAndFinish

\* Dying without a further word.
LEMMA SilentDeathRefines ==
    ASSUME AInv, NEW c \in Conns, conn[c] = "open", pc # "crashed",
           busyBar \in {c, NoConn}, Len(out[c]) <= 3,
           pc' = "crashed", cur' = c, out' = out, conn' = conn,
           backlog' = backlog
    PROVE  Service!Die(c)
<1>1. out[c] \in Seq(Lines) /\ out \in [Conns -> Seq(Lines)]
  BY DEF AInv, IInv, TypeOK, Lines
<1>2. out[c] \o <<>> = out[c] /\ <<>> \in Service!Says
  <2>1. <<>> \in Seq(Lines) /\ Len(<<>>) <= 2
    OBVIOUS
  <2> QED BY <1>1, <2>1, EmptyConcat, SaysLines
<1>3. out' = [out EXCEPT ![c] = @ \o <<>>]
  BY <1>1, <1>2
<1>4. Service!Hears(c, 0)
  <2>1. Len(out[c] \o <<>>) \in 0..3
    <3>1. Len(out[c]) \in 0..3
      <4>1. Len(out[c]) \in Nat
        BY <1>1
      <4> QED BY <4>1, UpToThree, Zenon
    <3> QED BY <1>2, <3>1, Zenon
  <2> QED BY <1>2, <1>3, <2>1 DEF Service!Hears
<1> QED BY <1>4 DEF Service!Die, busyBar

\* One more status line for the connection whose script runs.
LEMMA SpeakRefines ==
    ASSUME AInv, cur \in Conns, conn[cur] = "open", NEW t \in Lines,
           Len(out[cur]) <= 2, pc \in {"relay", "wait", "crashed"},
           pc' = pc \/ pc' = "wait", pc = "crashed" <=> pc' = "crashed",
           pc' \in {"relay", "wait", "crashed"}, cur' = cur,
           out' = [out EXCEPT ![cur] = Append(@, t)],
           conn' = conn, backlog' = backlog
    PROVE  Service!Speak(cur)
<1>1. out[cur] \in Seq(Lines) /\ <<t>> \in Seq(Lines) /\ Len(<<t>>) = 1
  BY DEF AInv, IInv, TypeOK, Lines
<1>2. out' = [out EXCEPT ![cur] = @ \o <<t>>]
  <2>1. Append(out[cur], t) = out[cur] \o <<t>>
    BY <1>1, AppendIsConcat
  <2> QED BY <2>1
<1>3. <<t>> \in Service!Says
  <2>1. Len(<<t>>) <= 2
    BY <1>1
  <2> QED BY <1>1, <2>1, SaysLines, Zenon
<1>4. Len(out[cur] \o <<t>>) \in 0..3
  <2>1. Len(out[cur] \o <<t>>) = Len(out[cur]) + 1 /\ Len(out[cur]) \in Nat
    BY <1>1
  <2>2. Len(out[cur]) + 1 \in 0..3
    BY <2>1, UpToThree
  <2> QED BY <2>1, <2>2, Zenon
<1>5. Service!Hears(cur, 0)
  BY <1>2, <1>3, <1>4 DEF Service!Hears
<1>6. busyBar = cur /\ busyBar' = cur
  BY DEF busyBar
<1> QED BY <1>5, <1>6, NoConnAssumption DEF Service!Speak, busyBar

\* The server starts as SerialService does.
LEMMA InitRefines == Init => Service!Init
  BY DEF Init, Service!Init

\* Every step of the server is one of SerialService or a stutter.
LEMMA NextRefines == AInv /\ [Next]_vars => [Service!Next]_(Service!vars)
<1> SUFFICES ASSUME AInv, [Next]_vars
             PROVE  Service!Next \/ UNCHANGED Service!vars
  OBVIOUS
<1>0. TypeOK /\ \A c \in Conns : out[c] \in Seq(Lines)
  BY DEF AInv, IInv, TypeOK, Lines
<1>1. CASE AcceptRequest
  <2>1. Service!Admit
    BY <1>1 DEF AcceptRequest, Service!Admit
  <2> QED BY <2>1 DEF Service!Next
<1>2. ASSUME NEW c \in Conns, ParseRequestData(c)
      PROVE  Service!Next \/ UNCHANGED Service!vars
  <2>1. CASE ReadFull(c) \/ ReadLast(c)
    BY <2>1 DEF ReadFull, ReadLast, Reads, Service!vars
  <2>2. CASE ReadFails(c)
    <3>1. c \in rwatch /\ pc \in {"poll", "read"}
      BY <2>2 DEF ReadFails, Reads, AInv, IInv, OneWatcher
    <3>2. conn[c] = "open" /\ out[c] = <<>> /\ Len(<<>>) <= 3
      BY <3>1 DEF AInv, IInv, OneWatcher, Open, AnswerSoFar
    <3>3. Service!Die(c)
      BY <2>2, <3>1, <3>2, SilentDeathRefines DEF ReadFails, busyBar
    <3> QED BY <3>3 DEF Service!Next
  <2> QED BY <1>2, <2>1, <2>2 DEF ParseRequestData
<1>3. ASSUME NEW c \in Conns, Response(c)
      PROVE  Service!Next \/ UNCHANGED Service!vars
  <2>0. c \in wwatch /\ pc = "poll" /\ backlog' = backlog
    BY <1>3 DEF Response, RespondStatic, RespondLarge, NotFoundFails,
                ExecuteCgiFails, ExecuteCgi, CallsCgi, netvars
  <2>1. conn[c] = "open" /\ out[c] = <<>>
    BY <2>0, ResponseStarts
  <2>2. NotFound(req[c]) \in Seq(Lines) /\ Len(NotFound(req[c])) <= 1
    BY AtMostOneLine
  <2>3. <<>> \in Seq(Lines) /\ Len(<<>>) = 0
    OBVIOUS
  <2>4. CASE RespondStatic(c)
    <3>1. SendFileAndFinish(c, <<>>, StaticStatus(req[c]), fds)
      BY <2>4 DEF RespondStatic
    <3>2. StaticStatus(req[c]) \in Lines /\ Len(<<>>) <= 1
      BY <1>0, <2>3, StaticStatusType DEF TypeOK
    <3>3. Service!Leave(c) \/ Service!Die(c)
      BY <2>0, <2>3, <3>1, <3>2, SendFileAndFinishRefines
    <3> QED BY <3>3 DEF Service!Next
  <2>5. CASE ExecuteCgiFails(c)
    <3>1. PICK lost \in {0, 2, 4} :
             SendFileAndFinish(c, NotFound(req[c]), 500, fds + lost)
      BY <2>5 DEF ExecuteCgiFails
    <3>2. 500 \in Lines
      BY DEF Lines
    <3>3. Service!Leave(c) \/ Service!Die(c)
      BY <2>0, <2>2, <3>1, <3>2, SendFileAndFinishRefines
    <3> QED BY <3>3 DEF Service!Next
  <2>6. CASE NotFoundFails(c)
    <3>1. Service!Die(c)
      BY <2>0, <2>1, <2>3, <2>6, SilentDeathRefines
      DEF NotFoundFails, Crash, busyBar
    <3> QED BY <3>1 DEF Service!Next
  <2>7. CASE ExecuteCgi(c)
    <3>1. Service!Hears(c, 0)
      <4>1. out[c] \o NotFound(req[c]) = NotFound(req[c])
        BY <2>1, <2>2, EmptyConcat
      <4>2. Len(NotFound(req[c])) \in 0..3 /\ Len(NotFound(req[c])) <= 2
        <5>1. /\ Len(NotFound(req[c])) \in Nat
              /\ Len(NotFound(req[c])) <= 2 /\ Len(NotFound(req[c])) <= 3
          BY <2>2
        <5> QED BY <5>1, UpToThree, Zenon
      <4>3. NotFound(req[c]) \in Service!Says
        BY <2>2, <4>2, SaysLines
      <4>4. Len(out[c] \o NotFound(req[c])) \in 0..3
        BY <4>1, <4>2, Zenon
      <4> QED BY <2>7, <4>3, <4>4 DEF ExecuteCgi, Service!Hears
    <3>2. Service!Speak(c)
      BY <2>0, <2>1, <2>7, <3>1 DEF ExecuteCgi, Service!Speak
    <3> QED BY <3>2 DEF Service!Next
  <2>8. CASE RespondLarge(c)
    <3>1. Append(out[c], 200) = <<200>> /\ <<200>> \in Seq(Lines) /\ Len(<<200>>) = 1
      BY <2>1 DEF Lines
    <3>2. <<>> \o <<200>> = <<200>> /\ <<200>> \in Service!Says
      <4>1. Len(<<200>>) <= 2
        BY <3>1
      <4> QED BY <3>1, <4>1, EmptyConcat, SaysLines, Zenon
    <3>3. Service!Hears(c, 0)
      <4>1. out' = [out EXCEPT ![c] = @ \o <<200>>]
        BY <2>1, <2>8, <3>1, <3>2 DEF RespondLarge
      <4>2. Len(out[c] \o <<200>>) \in 0..3
        BY <2>1, <3>1, <3>2
      <4> QED BY <3>2, <4>1, <4>2 DEF Service!Hears
    <3>4. Service!Speak(c)
      BY <2>0, <2>1, <2>8, <3>3 DEF RespondLarge, Service!Speak
    <3> QED BY <3>4 DEF Service!Next
  <2> QED BY <1>3, <2>4, <2>5, <2>6, <2>7, <2>8 DEF Response
<1>4. CASE Parent \/ Child
  <2>0. /\ cur \in Conns /\ conn[cur] = "open"
        /\ pc \in {"relay", "wait", "crashed"}
    BY <1>4, ScriptRuns
  <2>1. CASE RelayCgi
    <3>1. Len(out[cur]) <= 2
      <4>1. out[cur] = NotFound(req[cur]) \o ChildSaid
        BY <2>1 DEF RelayCgi, AInv, AnswerSoFar
      <4>2. Len(out[cur]) = Len(NotFound(req[cur])) + Len(ChildSaid)
        BY <4>1, AtMostOneLine, ShortAnswers
      <4> QED BY <4>2, AtMostOneLine
    <3>2. CASE pc' = "wait" /\ out' = [out EXCEPT ![cur] = Append(@, 200)]
      <4>1. Service!Speak(cur)
        BY <2>0, <2>1, <3>1, <3>2, SpeakRefines DEF RelayCgi, Lines, netvars
      <4> QED BY <2>0, <4>1 DEF Service!Next
    <3>3. CASE pc' = "crashed" /\ out' = out
      <4>1. Len(out[cur]) <= 3
        BY <1>0, <2>0, <3>1
      <4>2. Service!Die(cur)
        BY <2>0, <2>1, <3>3, <4>1, SilentDeathRefines
        DEF RelayCgi, netvars, busyBar
      <4> QED BY <2>0, <4>2 DEF Service!Next
    <3> QED BY <2>1, <3>2, <3>3 DEF RelayCgi
  <2>2. CASE ReapCgi
    <3>1. Len(out[cur]) \in 1..3
      <4>1. out[cur] \in {NotFound(req[cur]) \o <<200>> \o ChildSaid,
                         NotFound(req[cur]) \o ChildSaid \o <<200>>}
        BY <2>2 DEF ReapCgi, AInv, AnswerSoFar
      <4>2. /\ Len(NotFound(req[cur]) \o <<200>> \o ChildSaid) \in 1..3
            /\ Len(NotFound(req[cur]) \o ChildSaid \o <<200>>) \in 1..3
        BY AtMostOneLine, ShortAnswers
      <4> QED BY <4>1, <4>2, Zenon
    <3>2. Service!Hears(cur, 1)
      <4>1. out[cur] \in Seq(Lines) /\ <<>> \in Seq(Lines) /\ Len(<<>>) <= 2
        BY <1>0, <2>0
      <4>2. out[cur] \o <<>> = out[cur] /\ <<>> \in Service!Says
        BY <4>1, EmptyConcat, SaysLines
      <4>3. out' = [out EXCEPT ![cur] = @ \o <<>>]
        BY <1>0, <2>2, <4>2 DEF ReapCgi, TypeOK
      <4>4. Len(out[cur] \o <<>>) \in 1..3
        BY <3>1, <4>2, Zenon
      <4> QED BY <4>2, <4>3, <4>4 DEF Service!Hears
    <3>3. Service!Leave(cur)
      BY <2>0, <2>2, <3>2 DEF ReapCgi, Finish, netvars, Service!Leave
    <3> QED BY <2>0, <3>3 DEF Service!Next
  <2>3. CASE ChildExec /\ out' = [out EXCEPT ![cur] = Append(@, 500)]
    <3>1. Len(out[cur]) <= 2
      <4>1. child = "forked" /\ ChildSaid = <<>>
        BY <2>3 DEF ChildExec, ChildSaid
      <4>2. /\ pc = "relay" => out[cur] = NotFound(req[cur]) \o ChildSaid
            /\ pc = "wait" => out[cur] = NotFound(req[cur]) \o <<200>> \o ChildSaid
            /\ pc = "crashed" => Len(out[cur]) <= 1
        <5>1. NotFound(req[cur]) \in Seq(Lines) /\ <<200>> \in Seq(Lines)
          BY AtMostOneLine DEF Lines
        <5>2. /\ NotFound(req[cur]) \o <<>> = NotFound(req[cur])
              /\ NotFound(req[cur]) \o <<200>> \o <<>> = NotFound(req[cur]) \o <<200>>
          BY <5>1, EmptyConcat
        <5> QED BY <4>1, <5>2 DEF AInv, AnswerSoFar
      <4>3. /\ Len(NotFound(req[cur]) \o <<>>) <= 1
            /\ Len(NotFound(req[cur]) \o <<200>> \o <<>>) <= 2
        <5>1. /\ NotFound(req[cur]) \in Seq(Lines) /\ <<200>> \in Seq(Lines)
              /\ Len(NotFound(req[cur])) <= 1 /\ Len(<<200>>) = 1
          BY AtMostOneLine DEF Lines
        <5>2. /\ NotFound(req[cur]) \o <<>> = NotFound(req[cur])
              /\ NotFound(req[cur]) \o <<200>> \o <<>> = NotFound(req[cur]) \o <<200>>
              /\ Len(NotFound(req[cur]) \o <<200>>) = Len(NotFound(req[cur])) + 1
          BY <5>1, EmptyConcat
        <5>3. Len(NotFound(req[cur])) + 1 <= 2
          BY <5>1
        <5> QED BY <5>1, <5>2, <5>3, Zenon
      <4>4. CASE pc = "relay"
        BY <4>1, <4>2, <4>3, <4>4, <1>0, <2>0
      <4>5. CASE pc = "wait"
        BY <4>1, <4>2, <4>3, <4>5, Zenon
      <4>6. CASE pc = "crashed"
        BY <4>2, <4>6, <1>0, <2>0
      <4> QED BY <2>0, <4>4, <4>5, <4>6
    <3>2. Service!Speak(cur)
      BY <2>0, <2>3, <3>1, SpeakRefines DEF ChildExec, Lines, netvars
    <3> QED BY <2>0, <3>2 DEF Service!Next
  <2>4. CASE Child /\ out' = out
    BY <2>4 DEF Child, ChildExec, ScriptExits, netvars, Service!vars
  <2> QED
    BY <1>4, <2>1, <2>2, <2>3, <2>4 DEF Parent, Child, ChildExec, ScriptExits
<1>5. ASSUME NEW c \in Conns, Client(c)
      PROVE  Service!Next \/ UNCHANGED Service!vars
  <2>1. CASE Connect(c)
    <3>1. Service!Arrive(c)
      BY <2>1 DEF Connect, UNCHANGEDServer, Service!Arrive
    <3> QED BY <3>1 DEF Service!Next
  <2>2. CASE Send(c) \/ Shutdown(c) \/ Reset(c)
    BY <2>2 DEF Send, Shutdown, Reset, UNCHANGEDServer, Service!vars
  <2> QED BY <1>5, <2>1, <2>2 DEF Client
<1>6. CASE UNCHANGED vars
  BY <1>6 DEF vars, Service!vars
<1>7. CASE SendRest
  <2>1. cur \in Conns /\ conn[cur] = "open"
    BY <1>7 DEF SendRest, AInv, IInv, OneWatcher, Open
  <2>2. out[cur] = <<StaticStatus(req[cur])>> /\ StaticStatus(req[cur]) \in Lines
    BY <1>0, <1>7, <2>1, StaticStatusType DEF SendRest, AInv, AnswerSoFar, TypeOK
  <2>3. out[cur] \in Seq(Lines) /\ Len(out[cur]) = 1
    BY <2>2
  <2>4. out[cur] \o <<>> = out[cur] /\ <<>> \in Service!Says
    <3>1. <<>> \in Seq(Lines) /\ Len(<<>>) <= 2
      OBVIOUS
    <3> QED BY <2>3, <3>1, EmptyConcat, SaysLines
  <2>5. Service!Hears(cur, 1)
    <3>1. out' = [out EXCEPT ![cur] = @ \o <<>>]
      BY <1>0, <1>7, <2>4 DEF SendRest, TypeOK
    <3>2. Len(out[cur] \o <<>>) \in 1..3
      BY <2>3, <2>4
    <3> QED BY <2>4, <3>1, <3>2 DEF Service!Hears
  <2>6. Service!Leave(cur)
    BY <1>7, <2>1, <2>5 DEF SendRest, Finish, netvars, Service!Leave
  <2> QED BY <2>1, <2>6 DEF Service!Next
<1> QED
  BY <1>1, <1>2, <1>3, <1>4, <1>5, <1>6, <1>7 DEF Next

\* The event loop keeps the promise of SerialService: in order, one at a time,
\* never silent, and nothing after the close.
THEOREM ServerImplementsService == Spec => ServiceSpec
<1>1. Init => Service!Init
  BY InitRefines
<1>2. AInv /\ [Next]_vars => [Service!Next]_(Service!vars)
  BY NextRefines
<1> QED
  BY <1>1, <1>2, AnswerInvariance, PTL DEF Spec, ServiceSpec, Service!Spec
=============================================================================
