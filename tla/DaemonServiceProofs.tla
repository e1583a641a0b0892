------------------------- MODULE DaemonServiceProofs -------------------------
(***************************************************************************)
(* Proofs about the daemon as a service, for any number of processes and   *)
(* clients, any backlog and any number of faults.                          *)
(***************************************************************************)
EXTENDS DaemonService, SequenceTheorems, TLAPS

Pcs == {"off", "locked", "clean", "bound", "loop", "connect", "round", "closing",
        "unlocking"}

DaemonRow == [pc : Pcs, stop : BOOLEAN, queue : Seq(Request),
              serving : Request \cup {None}, due : Nat, locked : Nat, left : Nat]

ClientRow == [to : Daemons \cup {None}, age : Nat, prompt : BOOLEAN]

TypeOK ==
    /\ lock \in Daemons \cup {None}
    /\ socket \in Daemons \cup {None}
    /\ daemons \in [Daemons -> DaemonRow]
    /\ clients \in [Clients -> ClientRow]
    /\ faults \in Nat

LEMMA IdleTyped == Idle \in ClientRow
BY DEF Idle, ClientRow

LEMMA OffTyped == Off \in DaemonRow
<1>1. << >> \in Seq(Request)
  BY EmptySeq
<1> QED
  BY <1>1, ServiceAssumption DEF Off, DaemonRow, Pcs

(* A request that is closed stays a request, in a queue too. *)
LEMMA ClosedTyped ==
    ASSUME NEW q \in Request, NEW c
    PROVE  Closed(q, c) \in Request
BY DEF Closed, Request

LEMMA ClosedQueueTyped ==
    ASSUME NEW queue \in Seq(Request), NEW c
    PROVE  /\ [i \in DOMAIN queue |-> Closed(queue[i], c)] \in Seq(Request)
           /\ Len([i \in DOMAIN queue |-> Closed(queue[i], c)]) = Len(queue)
<1> DEFINE closed == [i \in DOMAIN queue |-> Closed(queue[i], c)]
<1>1. /\ Len(queue) \in Nat
      /\ queue \in [1 .. Len(queue) -> Request]
      /\ DOMAIN queue = 1 .. Len(queue)
  BY LenProperties
<1>2. closed \in [1 .. Len(queue) -> Request]
  BY <1>1, ClosedTyped
<1>3. closed \in Seq(Request) /\ DOMAIN closed = 1 .. Len(queue)
  BY <1>1, <1>2, SeqDef, Zenon
<1>4. DOMAIN closed = 1 .. Len(closed) /\ Len(closed) \in Nat
  BY <1>3, LenProperties
<1> HIDE DEF closed
<1>5. Len(closed) = Len(queue)
  BY <1>1, <1>3, <1>4
<1> QED
  BY <1>3, <1>5 DEF closed

(* The end of a process keeps the tables well typed. *)
LEMMA EndsTyped ==
    ASSUME TypeOK, NEW d \in Daemons, Ends(d)
    PROVE  /\ lock' \in Daemons \cup {None}
           /\ daemons' \in [Daemons -> DaemonRow]
           /\ clients' \in [Clients -> ClientRow]
BY IdleTyped, OffTyped DEF TypeOK, Ends

(* A daemon that only moves on keeps its row. *)
LEMMA MovedTyped ==
    ASSUME TypeOK, NEW d \in Daemons, NEW pc \in Pcs
    PROVE  /\ [daemons EXCEPT ![d].pc = pc] \in [Daemons -> DaemonRow]
           /\ [daemons EXCEPT ![d].pc = pc, ![d].left = 0] \in [Daemons -> DaemonRow]
BY DEF TypeOK, DaemonRow

LEMMA TurnTyped ==
    ASSUME NEW row \in DaemonRow, NEW pc \in Pcs, NEW q \in Request \cup {None},
           NEW n \in Nat, NEW k \in Nat
    PROVE  LET turn == Turn(row, pc, q, n, k)
           IN  /\ turn \in DaemonRow
               /\ turn.pc = pc
               /\ turn.queue = row.queue
               /\ turn.due = n /\ turn.locked = k /\ turn.left = 0
BY DEF Turn, DaemonRow

(* A round begins: it moves one daemon and no other. *)
LEMMA RoundTyped ==
    ASSUME TypeOK, NEW d \in Daemons, NEW row \in DaemonRow, BeginsRound(d, row)
    PROVE  /\ daemons' \in [Daemons -> DaemonRow]
           /\ \A e \in Daemons \ {d} : daemons'[e] = daemons[e]
           /\ \E n \in 0 .. MaxDue, k \in 0 .. MaxLocked :
                /\ daemons'[d] = Turn(row, "round", None, n, k)
                /\ daemons'[d].pc = "round"
<1>1. PICK n \in 0 .. MaxDue, k \in 0 .. MaxLocked :
        daemons' = [daemons EXCEPT ![d] = Turn(row, "round", None, n, k)]
  BY DEF BeginsRound
<1>2. n \in Nat /\ k \in Nat
  BY ServiceAssumption
<1>3. /\ Turn(row, "round", None, n, k) \in DaemonRow
      /\ Turn(row, "round", None, n, k).pc = "round"
  BY <1>2, TurnTyped DEF Pcs
<1> QED
  BY <1>1, <1>3 DEF TypeOK

(* accept takes the first of the waiting requests. *)
LEMMA AcceptTyped ==
    ASSUME TypeOK, NEW d \in Daemons, Accept(d)
    PROVE  /\ TypeOK'
           /\ \A e \in Daemons \ {d} : daemons'[e] = daemons[e]
           /\ \/ daemons'[d].pc = "connect"
              \/ \E row \in DaemonRow, n \in 0 .. MaxDue, k \in 0 .. MaxLocked :
                   /\ daemons'[d] = Turn(row, "round", None, n, k)
                   /\ daemons'[d].pc = "round"
<1> DEFINE q == Head(daemons[d].queue)
           row == [daemons[d] EXCEPT !.queue = Tail(@), !.stop = @ \/ q.op = "stop"]
<1>1. daemons[d] \in DaemonRow /\ daemons[d].queue \in Seq(Request)
  BY DEF TypeOK, DaemonRow
<1>2. q \in Request /\ Tail(daemons[d].queue) \in Seq(Request)
  BY <1>1, HeadTailProperties DEF Accept
<1>3. (daemons[d].stop \/ q.op = "stop") \in BOOLEAN
  BY <1>1 DEF DaemonRow
<1>4. row \in DaemonRow
  BY <1>1, <1>2, <1>3 DEF DaemonRow
<1>5. CASE BeginsRound(d, row) /\ clients' = Answered(q)
  <2>1. clients' \in [Clients -> ClientRow]
    BY <1>5, IdleTyped DEF TypeOK, Answered
  <2> HIDE DEF row
  <2> QED
    BY <1>4, <1>5, <2>1, RoundTyped DEF TypeOK, Accept
<1>6. CASE /\ \E n \in 0 .. 1, k \in 0 .. MaxLocked :
                daemons' = [daemons EXCEPT ![d] = Turn(row, "connect", q, n, k)]
           /\ UNCHANGED clients
  <2> HIDE DEF row, q
  <2>1. PICK n \in 0 .. 1, k \in 0 .. MaxLocked :
          daemons' = [daemons EXCEPT ![d] = Turn(row, "connect", q, n, k)]
    BY <1>6
  <2>2. n \in Nat /\ k \in Nat
    BY ServiceAssumption
  <2>3. /\ Turn(row, "connect", q, n, k) \in DaemonRow
        /\ Turn(row, "connect", q, n, k).pc = "connect"
    <3>1. "connect" \in Pcs /\ q \in Request \cup {None}
      BY <1>2 DEF Pcs
    <3> QED
      BY <1>4, <2>2, <3>1, TurnTyped
  <2>4. /\ daemons' \in [Daemons -> DaemonRow]
        /\ \A e \in Daemons \ {d} : daemons'[e] = daemons[e]
        /\ daemons'[d].pc = "connect"
    BY <2>1, <2>3 DEF TypeOK
  <2> QED
    BY <1>6, <2>4 DEF TypeOK, Accept
<1> QED
  BY <1>5, <1>6 DEF Accept

(* A daemon that binds the socket has the store to open. *)
LEMMA BindTyped ==
    ASSUME TypeOK, NEW d \in Daemons, Bind(d), socket = None
    PROVE  /\ daemons' \in [Daemons -> DaemonRow]
           /\ \A e \in Daemons \ {d} : daemons'[e] = daemons[e]
           /\ \E k \in 0 .. MaxLocked :
                /\ daemons'[d] = Turn(daemons[d], "bound", None, 0, k)
                /\ daemons'[d].pc = "bound"
<1>1. PICK k \in 0 .. MaxLocked :
        daemons' = [daemons EXCEPT ![d] = Turn(daemons[d], "bound", None, 0, k)]
  BY DEF Bind
<1>2. /\ Turn(daemons[d], "bound", None, 0, k) \in DaemonRow
      /\ Turn(daemons[d], "bound", None, 0, k).pc = "bound"
  <2>1. daemons[d] \in DaemonRow /\ "bound" \in Pcs
    BY DEF TypeOK, Pcs
  <2>2. None \in Request \cup {None} /\ 0 \in Nat /\ k \in Nat
    BY ServiceAssumption
  <2> QED
    BY <2>1, <2>2, TurnTyped
<1> QED
  BY <1>1, <1>2 DEF TypeOK

LEMMA SendTyped ==
    ASSUME TypeOK, NEW c \in Clients, NEW op \in Ops, Send(c, op)
    PROVE  TypeOK'
<1>1. socket \in Daemons
  BY DEF TypeOK, Send
<1>2. daemons[socket] \in DaemonRow /\ daemons[socket].queue \in Seq(Request)
  BY <1>1 DEF TypeOK, DaemonRow
<1>3. [from |-> c, op |-> op, open |-> TRUE] \in Request
  BY DEF Request
<1>4. Append(daemons[socket].queue, [from |-> c, op |-> op, open |-> TRUE]) \in Seq(Request)
  BY <1>2, <1>3, AppendProperties
<1>5. daemons' \in [Daemons -> DaemonRow]
  BY <1>1, <1>2, <1>4 DEF Send, TypeOK, DaemonRow
<1>6. Prompt(socket, op) \in BOOLEAN
  BY DEF Prompt
<1>7. clients' \in [Clients -> ClientRow]
  BY <1>1, <1>6 DEF Send, TypeOK, ClientRow
<1> QED
  BY <1>5, <1>7 DEF Send, TypeOK

LEMMA GiveUpTyped ==
    ASSUME TypeOK, NEW c \in Clients, GiveUp(c)
    PROVE  TypeOK'
<1> DEFINE d == clients[c].to
<1>1. d \in Daemons
  BY DEF TypeOK, ClientRow, GiveUp, Waiting
<1>2. daemons[d] \in DaemonRow /\ daemons[d].queue \in Seq(Request)
  BY <1>1 DEF TypeOK, DaemonRow
<1>3. [i \in DOMAIN daemons[d].queue |-> Closed(daemons[d].queue[i], c)] \in Seq(Request)
  BY <1>2, ClosedQueueTyped
<1>4. Closed(daemons[d].serving, c) \in Request \cup {None}
  <2>1. CASE daemons[d].serving = None
    BY <2>1 DEF Closed
  <2>2. CASE daemons[d].serving \in Request
    BY <2>2, ClosedTyped
  <2> QED
    BY <1>2, <2>1, <2>2 DEF DaemonRow
<1>5. daemons' \in [Daemons -> DaemonRow]
  BY <1>1, <1>2, <1>3, <1>4 DEF GiveUp, TypeOK, DaemonRow
<1>6. clients' \in [Clients -> ClientRow]
  BY IdleTyped DEF GiveUp, TypeOK
<1> QED
  BY <1>5, <1>6 DEF GiveUp, TypeOK

(* The next call of a daemon uses up one of those before it. *)
LEMMA CallsTyped ==
    ASSUME TypeOK, NEW d \in Daemons, Calls(d)
    PROVE  /\ daemons' \in [Daemons -> DaemonRow]
           /\ \A e \in Daemons \ {d} : daemons'[e] = daemons[e]
           /\ daemons'[d].pc = daemons[d].pc
           /\ daemons'[d].queue = daemons[d].queue
           /\ \/ /\ daemons[d].due > 0
                 /\ daemons'[d].due = daemons[d].due - 1
                 /\ daemons'[d].locked = daemons[d].locked
                 /\ daemons'[d].left = ProbeLimit
              \/ /\ daemons[d].locked > 0
                 /\ daemons'[d].due = daemons[d].due
                 /\ daemons'[d].locked = daemons[d].locked - 1
                 /\ daemons'[d].left = LockLimit
<1>1. daemons[d] \in DaemonRow /\ daemons[d].due \in Nat /\ daemons[d].locked \in Nat
  BY DEF TypeOK, DaemonRow
<1>2. CASE /\ daemons[d].due > 0
           /\ daemons' = [daemons EXCEPT ![d].due = @ - 1, ![d].left = ProbeLimit]
  <2>1. daemons[d].due - 1 \in Nat
    BY <1>1, <1>2
  <2> QED
    BY <1>1, <1>2, <2>1, ServiceAssumption DEF TypeOK, DaemonRow
<1>3. CASE /\ daemons[d].locked > 0
           /\ daemons' = [daemons EXCEPT ![d].locked = @ - 1, ![d].left = LockLimit]
  <2>1. daemons[d].locked - 1 \in Nat
    BY <1>1, <1>3
  <2> QED
    BY <1>1, <1>3, <2>1, ServiceAssumption DEF TypeOK, DaemonRow
<1> QED
  BY <1>2, <1>3 DEF Calls

(* Time passes in one call and leaves the rest of the row. *)
LEMMA TickTyped ==
    ASSUME TypeOK, Tick, NEW d \in Daemons
    PROVE  /\ daemons'[d] \in DaemonRow
           /\ daemons'[d].pc = daemons[d].pc
           /\ daemons'[d].queue = daemons[d].queue
           /\ daemons'[d].due = daemons[d].due
           /\ daemons'[d].locked = daemons[d].locked
           /\ IF daemons[d].left > 0 THEN daemons'[d].left = daemons[d].left - 1
                                     ELSE daemons'[d].left = daemons[d].left
<1>1. daemons[d] \in DaemonRow
  BY DEF TypeOK
<1>2. ASSUME NEW row \in DaemonRow, row.left > 0
      PROVE  LET next == [row EXCEPT !.left = @ - 1]
             IN  /\ next \in DaemonRow
                 /\ next.pc = row.pc /\ next.queue = row.queue
                 /\ next.due = row.due /\ next.locked = row.locked
                 /\ next.left = row.left - 1
  <2>1. row.left - 1 \in Nat
    BY <1>2 DEF DaemonRow
  <2> QED
    BY <2>1 DEF DaemonRow
<1>3. CASE daemons[d].left > 0
  <2>1. daemons'[d] = [daemons[d] EXCEPT !.left = @ - 1]
    BY <1>3 DEF Tick
  <2> QED
    BY <1>1, <1>2, <1>3, <2>1
<1>4. CASE ~(daemons[d].left > 0)
  <2>1. daemons'[d] = daemons[d]
    BY <1>4 DEF Tick
  <2> QED
    BY <1>1, <1>4, <2>1
<1> QED
  BY <1>3, <1>4

LEMMA TypeCorrect == Spec => []TypeOK
<1>1. Init => TypeOK
  BY IdleTyped, OffTyped DEF Init, TypeOK
<1>2. TypeOK /\ [Next]_vars => TypeOK'
  <2> SUFFICES ASSUME TypeOK, [Next]_vars PROVE TypeOK'
    OBVIOUS
  <2>1. ASSUME NEW d \in Daemons, Start(d) PROVE TypeOK'
    BY <2>1 DEF Start, TypeOK, DaemonRow, Pcs
  <2>2. ASSUME NEW d \in Daemons, RemoveStale(d) PROVE TypeOK'
    BY <2>2 DEF RemoveStale, TypeOK, DaemonRow, Pcs
  <2>3. ASSUME NEW d \in Daemons, Bind(d) PROVE TypeOK'
    <3>1. CASE socket = None
      BY <2>3, <3>1, BindTyped DEF Bind, TypeOK
    <3>2. CASE socket # None
      BY <2>3, <3>2, EndsTyped DEF Bind, TypeOK
    <3> QED
      BY <3>1, <3>2
  <2>4. ASSUME NEW d \in Daemons, OpenStore(d) PROVE TypeOK'
    BY <2>4, MovedTyped DEF OpenStore, TypeOK, Pcs
  <2>5. ASSUME NEW d \in Daemons, NoRequest(d) PROVE TypeOK'
    BY <2>5, RoundTyped DEF NoRequest, TypeOK
  <2>6. ASSUME NEW d \in Daemons, Accept(d) PROVE TypeOK'
    BY <2>6, AcceptTyped
  <2>7. ASSUME NEW d \in Daemons, ConnectEnds(d) PROVE TypeOK'
    BY <2>7, RoundTyped, IdleTyped DEF ConnectEnds, Answered, TypeOK
  <2>8. ASSUME NEW d \in Daemons, Calls(d) PROVE TypeOK'
    BY <2>8, CallsTyped DEF Calls, TypeOK
  <2>9. ASSUME NEW d \in Daemons, RoundEnds(d) PROVE TypeOK'
    <3> DEFINE pc == IF daemons[d].stop THEN "closing" ELSE "loop"
    <3>1. pc \in Pcs
      BY DEF Pcs
    <3>2. [daemons EXCEPT ![d].pc = pc, ![d].left = 0] \in [Daemons -> DaemonRow]
      BY <3>1, MovedTyped
    <3> QED
      BY <2>9, <3>2 DEF RoundEnds, TypeOK
  <2>10. ASSUME NEW d \in Daemons, Shutdown(d) PROVE TypeOK'
    <3>1. CASE At(d, "closing")
      BY <2>10, <3>1 DEF Shutdown, At, TypeOK, DaemonRow, Pcs
    <3>2. CASE At(d, "unlocking")
      BY <2>10, <3>2, EndsTyped DEF Shutdown, At, TypeOK
    <3> QED
      BY <2>10, <3>1, <3>2 DEF Shutdown
  <2>11. ASSUME NEW d \in Daemons, Fails(d) PROVE TypeOK'
    BY <2>11, EndsTyped DEF Fails, TypeOK
  <2>12. ASSUME NEW c \in Clients, GiveUp(c) PROVE TypeOK'
    BY <2>12, GiveUpTyped
  <2>13. ASSUME NEW c \in Clients, NEW op \in Ops, Send(c, op) PROVE TypeOK'
    BY <2>13, SendTyped
  <2>14. CASE Tick
    <3>1. daemons' \in [Daemons -> DaemonRow]
      <4>1. \A d \in Daemons : daemons'[d] \in DaemonRow
        BY <2>14, TickTyped
      <4> QED
        BY <2>14, <4>1 DEF Tick
    <3>2. clients' \in [Clients -> ClientRow]
      BY <2>14 DEF Tick, TypeOK, ClientRow
    <3> QED
      BY <2>14, <3>1, <3>2 DEF Tick, TypeOK
  <2>15. CASE UNCHANGED vars
    BY <2>15 DEF vars, TypeOK
  <2> QED
    BY <2>1, <2>2, <2>3, <2>4, <2>5, <2>6, <2>7, <2>8, <2>9, <2>10, <2>11, <2>12,
       <2>13, <2>14, <2>15 DEF Next, Progress
<1> QED
  BY <1>1, <1>2, PTL DEF Spec

-----------------------------------------------------------------------------
(***************************************************************************)
(* Who owns the lock and the socket.                                       *)
(***************************************************************************)

(* Where a daemon's socket has been bound and not removed. *)
Bound == {"bound", "loop", "connect", "round", "closing"}

(* Only the owner of the lock does anything, between the removal of a      *)
(* stale socket and bind there is none, and a bound one is the owner's.    *)
Owns ==
    \A d \in Daemons :
      /\ daemons[d].pc # "off" => lock = d
      /\ daemons[d].pc = "clean" => socket = None
      /\ daemons[d].pc \in Bound => socket = d

(* Most steps leave the files alone and every daemon bound or where it is. *)
LeavesFiles ==
    /\ \A d \in Daemons :
         \/ daemons'[d].pc = daemons[d].pc
         \/ daemons'[d].pc \in Bound /\ daemons[d].pc \in Bound
    /\ UNCHANGED <<lock, socket>>

LEMMA LoopLeavesFiles ==
    ASSUME TypeOK, NEW d \in Daemons,
           \/ OpenStore(d)
           \/ NoRequest(d)
           \/ Accept(d)
           \/ ConnectEnds(d)
           \/ Calls(d)
           \/ RoundEnds(d)
    PROVE  LeavesFiles
<1> USE DEF Bound, LeavesFiles, At
<1>1. \A e \in Daemons : daemons[e] \in DaemonRow
  BY DEF TypeOK
<1>2. CASE OpenStore(d)
  BY <1>1, <1>2 DEF OpenStore, TypeOK, DaemonRow
<1>3. CASE NoRequest(d)
  BY <1>1, <1>3, RoundTyped DEF NoRequest, TypeOK
<1>4. CASE Accept(d)
  BY <1>4, AcceptTyped DEF Accept
<1>5. CASE ConnectEnds(d)
  BY <1>1, <1>5, RoundTyped DEF ConnectEnds, TypeOK
<1>6. CASE Calls(d)
  BY <1>6, CallsTyped DEF Calls
<1>7. CASE RoundEnds(d)
  BY <1>1, <1>7 DEF RoundEnds, TypeOK, DaemonRow
<1> QED
  BY <1>2, <1>3, <1>4, <1>5, <1>6, <1>7

LEMMA ClientsLeaveFiles ==
    ASSUME TypeOK,
           \/ \E c \in Clients : GiveUp(c) \/ \E op \in Ops : Send(c, op)
           \/ Tick
           \/ UNCHANGED vars
    PROVE  LeavesFiles
<1>1. \A e \in Daemons : daemons[e] \in DaemonRow
  BY DEF TypeOK
<1>2. CASE \E c \in Clients : GiveUp(c)
  <2>1. PICK c \in Clients : GiveUp(c)
    BY <1>2
  <2> DEFINE d == clients[c].to
             queue == [i \in DOMAIN daemons[d].queue |-> Closed(daemons[d].queue[i], c)]
             serving == Closed(daemons[d].serving, c)
  <2>2. daemons' = [daemons EXCEPT ![d].queue = queue, ![d].serving = serving]
    BY <2>1 DEF GiveUp
  <2> HIDE DEF d, queue, serving
  <2>3. \A e \in Daemons : daemons'[e].pc = daemons[e].pc
    BY <1>1, <2>2 DEF TypeOK, DaemonRow
  <2> QED
    BY <2>1, <2>3 DEF GiveUp, LeavesFiles
<1>3. CASE \E c \in Clients, op \in Ops : Send(c, op)
  BY <1>1, <1>3 DEF Send, LeavesFiles, TypeOK, DaemonRow
<1>4. CASE Tick
  BY <1>4, TickTyped DEF Tick, LeavesFiles
<1>5. CASE UNCHANGED vars
  BY <1>5 DEF vars, LeavesFiles
<1> QED
  BY <1>2, <1>3, <1>4, <1>5

(* The end of one daemon: it owned the lock, and the others were off. *)
LEMMA EndsOwns ==
    ASSUME TypeOK, Owns, NEW d \in Daemons, daemons[d].pc # "off", Ends(d)
    PROVE  Owns'
<1>1. \A e \in Daemons : daemons'[e].pc = "off"
  BY DEF Owns, Ends, Off, TypeOK
<1> QED
  BY <1>1 DEF Owns, Bound

LEMMA OwnsHolds == Spec => [](TypeOK /\ Owns)
<1>1. Init => Owns
  <2>1. Off.pc = "off"
    BY DEF Off
  <2> QED
    BY <2>1 DEF Init, Owns, Bound
<1>2. TypeOK /\ Owns /\ [Next]_vars => Owns'
  <2> SUFFICES ASSUME TypeOK, Owns, [Next]_vars PROVE Owns'
    OBVIOUS
  <2>1. CASE LeavesFiles
    BY <2>1 DEF LeavesFiles, Owns, Bound
  <2>2. ASSUME NEW d \in Daemons, NEW pc \in Pcs,
               \A e \in Daemons \ {d} : daemons[e].pc = "off",
               daemons' = [daemons EXCEPT ![d].pc = pc]
        PROVE  /\ \A e \in Daemons \ {d} : daemons'[e].pc = "off"
               /\ daemons'[d].pc = pc
    BY <2>2 DEF TypeOK, DaemonRow
  <2>3. ASSUME NEW d \in Daemons, Start(d) PROVE Owns'
    <3>1. \A e \in Daemons : daemons[e].pc = "off"
      BY <2>3, ServiceAssumption DEF Start, Owns, TypeOK
    <3> QED
      BY <2>2, <2>3, <3>1 DEF Start, Owns, Bound, Pcs
  <2>4. ASSUME NEW d \in Daemons, daemons[d].pc # "off"
        PROVE  \A e \in Daemons \ {d} : daemons[e].pc = "off"
    BY <2>4 DEF Owns
  <2>5. ASSUME NEW d \in Daemons, RemoveStale(d) PROVE Owns'
    BY <2>2, <2>4, <2>5 DEF RemoveStale, At, Owns, Bound, Pcs
  <2>6. ASSUME NEW d \in Daemons, Bind(d) PROVE Owns'
    <3>1. daemons[d].pc = "clean" /\ socket = None
      BY <2>6 DEF Bind, At, Owns
    <3>2. daemons'[d].pc = "bound" /\ \A e \in Daemons \ {d} : daemons'[e].pc = "off"
      BY <2>4, <2>6, <3>1, BindTyped
    <3> QED
      BY <2>6, <3>1, <3>2 DEF Bind, Owns, Bound
  <2>7. ASSUME NEW d \in Daemons, Shutdown(d) PROVE Owns'
    <3>1. CASE At(d, "closing")
      BY <2>2, <2>4, <2>7, <3>1 DEF Shutdown, At, Owns, Bound, Pcs
    <3>2. CASE At(d, "unlocking")
      BY <2>7, <3>2, EndsOwns DEF Shutdown, At
    <3> QED
      BY <2>7, <3>1, <3>2 DEF Shutdown
  <2>8. ASSUME NEW d \in Daemons, Fails(d) PROVE Owns'
    BY <2>8, EndsOwns DEF Fails, At
  <2> QED
    BY <2>1, <2>3, <2>5, <2>6, <2>7, <2>8, LoopLeavesFiles, ClientsLeaveFiles
       DEF Next, Progress
<1> QED
  BY <1>1, <1>2, TypeCorrect, PTL DEF Spec

(* However many daemons start, stop, fail and die in whatever order, one   *)
(* that serves holds the lock and is the one that daemon.sock leads to.    *)
THEOREM SocketLeadsToServer == Spec => []ServesItsOwnSocket
<1>1. Owns => ServesItsOwnSocket
  BY DEF Owns, Bound, ServesItsOwnSocket, Serving
<1> QED
  BY <1>1, OwnsHolds, PTL

(* Whoever gets the lock comes to serve, or one of its own calls failed.   *)
THEOREM LockLeadsToService == Spec => StartsSucceed
<1>1. ASSUME TypeOK, Owns, [Next]_vars
      PROVE  [\A d \in Daemons :
                /\ daemons[d].pc \in {"locked", "clean", "bound"}
                /\ faults' = faults
                => ~At(d, "off")']_vars
  <2> SUFFICES ASSUME NEW d \in Daemons, Next,
                      daemons[d].pc \in {"locked", "clean", "bound"},
                      faults' = faults
               PROVE  daemons'[d].pc # "off"
    BY <1>1 DEF At
  <2>1. \A e \in Daemons \ {d} : daemons[e].pc = "off"
    BY <1>1 DEF Owns
  <2>2. CASE LeavesFiles
    BY <2>2 DEF LeavesFiles, Bound
  <2>3. ASSUME NEW e \in Daemons,
               Start(e) \/ RemoveStale(e) \/ Bind(e) \/ Shutdown(e) \/ Fails(e)
        PROVE  daemons'[d].pc # "off"
    <3>1. CASE Start(e)
      BY <1>1, <3>1, ServiceAssumption DEF Start, Owns, TypeOK
    <3>2. CASE RemoveStale(e)
      BY <1>1, <3>2 DEF RemoveStale, TypeOK, DaemonRow
    <3>3. CASE Bind(e)
      <4>1. e = d /\ daemons[d].pc = "clean" /\ socket = None
        BY <1>1, <2>1, <3>3 DEF Bind, At, Owns
      <4>2. daemons'[d].pc = "bound"
        BY <1>1, <3>3, <4>1, BindTyped
      <4> QED
        BY <4>2
    <3>4. CASE Shutdown(e)
      BY <2>1, <3>4 DEF Shutdown, At
    <3>5. CASE Fails(e)
      BY <1>1, <3>5 DEF Fails, TypeOK
    <3> QED
      BY <2>3, <3>1, <3>2, <3>3, <3>4, <3>5
  <2> QED
    BY <1>1, <2>2, <2>3, LoopLeavesFiles, ClientsLeaveFiles DEF Next, Progress
<1> QED
  BY <1>1, OwnsHolds, PTL DEF Spec, StartsSucceed

-----------------------------------------------------------------------------
(***************************************************************************)
(* How long a prompt request waits.                                        *)
(***************************************************************************)

(* What is left of the calls of the round, or of the opening, at hand. *)
Owed(row) ==
    IF row.pc \in {"bound", "round"}
      THEN row.due * ProbeLimit + row.locked * LockLimit + row.left
      ELSE 0

(* A prompt request is the first in the queue of a daemon that turns to it *)
(* before it connects or begins another round, and together with the calls *)
(* that it still has to wait for it is no older than a round.              *)
IsNext(q, c) == q.from = c /\ q.open /\ q.op # "connect"

InTime(row, client, c) ==
    /\ row.pc \in {"bound", "loop", "round", "closing", "unlocking"}
    /\ row.queue # << >>
    /\ IsNext(row.queue[1], c)
    /\ client.age + Owed(row) <= RoundLimit

PromptWaits ==
    \A c \in Clients :
      clients[c].prompt =>
        /\ clients[c].to \in Daemons
        /\ InTime(daemons[clients[c].to], clients[c], c)

(* Nobody owes more than a round. *)
RoundsEnd == \A d \in Daemons : Owed(daemons[d]) <= RoundLimit

(* Products of a number of calls and the time of one. *)
LEMMA Products ==
    ASSUME NEW m \in Nat, NEW n \in 0 .. m, NEW limit \in Nat
    PROVE  /\ n * limit \in Nat
           /\ n * limit <= m * limit
           /\ (n - 1) * limit = n * limit - limit
<1>1. n \in Nat /\ m - n \in Nat
  OBVIOUS
<1>2. n * limit \in Nat /\ (m - n) * limit \in Nat /\ m * limit \in Nat
  BY <1>1
<1>3. (m - n) * limit = m * limit - n * limit
  BY <1>1
<1>4. (n - 1) * limit = n * limit - limit
  BY <1>1
<1> QED
  BY <1>2, <1>3, <1>4

LEMMA Limits ==
    /\ ProbeLimit \in Nat /\ LockLimit \in Nat
    /\ MaxDue \in Nat /\ MaxLocked \in Nat
    /\ RoundLimit \in Nat
<1>1. /\ ProbeLimit \in Nat /\ LockLimit \in Nat
      /\ MaxDue \in Nat /\ MaxLocked \in Nat
  BY ServiceAssumption
<1>2. MaxDue * ProbeLimit \in Nat /\ MaxLocked * LockLimit \in Nat
  BY <1>1
<1> QED
  BY <1>1, <1>2 DEF RoundLimit

LEMMA OwedTyped ==
    ASSUME NEW row \in DaemonRow
    PROVE  Owed(row) \in Nat
<1>1. row.due \in Nat /\ row.locked \in Nat /\ row.left \in Nat
  BY DEF DaemonRow
<1>2. row.due * ProbeLimit \in Nat /\ row.locked * LockLimit \in Nat
  BY <1>1, Limits
<1> QED
  BY <1>1, <1>2 DEF Owed

(* What begins owes no more than a round. *)
LEMMA TurnOwes ==
    ASSUME NEW row \in DaemonRow, NEW pc \in {"bound", "round"},
           NEW n \in 0 .. MaxDue, NEW k \in 0 .. MaxLocked
    PROVE  Owed(Turn(row, pc, None, n, k)) <= RoundLimit
<1> DEFINE turn == Turn(row, pc, None, n, k)
<1>1. n \in Nat /\ k \in Nat
  BY Limits
<1>2. turn.pc = pc /\ turn.due = n /\ turn.locked = k /\ turn.left = 0
  BY <1>1, TurnTyped DEF Pcs
<1>3. /\ n * ProbeLimit \in Nat /\ n * ProbeLimit <= MaxDue * ProbeLimit
      /\ k * LockLimit \in Nat /\ k * LockLimit <= MaxLocked * LockLimit
  BY Limits, Products
<1>4. MaxDue * ProbeLimit \in Nat /\ MaxLocked * LockLimit \in Nat
  BY Limits
<1> HIDE DEF turn
<1>5. Owed(turn) = n * ProbeLimit + k * LockLimit
  BY <1>2, <1>3 DEF Owed
<1> QED
  BY <1>3, <1>4, <1>5 DEF RoundLimit, turn

(* A call takes its time off what is owed, however soon it ends. *)
LEMMA CallsOwe ==
    ASSUME TypeOK, NEW d \in Daemons, Calls(d)
    PROVE  Owed(daemons'[d]) <= Owed(daemons[d])
<1> DEFINE row == daemons[d]
           next == daemons'[d]
<1>1. row \in DaemonRow /\ row.due \in Nat /\ row.locked \in Nat /\ row.left \in Nat
  BY DEF TypeOK, DaemonRow
<1>2. /\ next.pc = row.pc
      /\ \/ /\ next.due = row.due - 1 /\ next.locked = row.locked
            /\ next.left = ProbeLimit
         \/ /\ next.due = row.due /\ next.locked = row.locked - 1
            /\ next.left = LockLimit
  BY CallsTyped
<1> HIDE DEF row, next
<1>3. /\ row.due * ProbeLimit \in Nat
      /\ row.locked * LockLimit \in Nat
      /\ (row.due - 1) * ProbeLimit = row.due * ProbeLimit - ProbeLimit
      /\ (row.locked - 1) * LockLimit = row.locked * LockLimit - LockLimit
  <2>1. row.due \in 0 .. row.due /\ row.locked \in 0 .. row.locked
    BY <1>1
  <2> QED
    BY <1>1, <2>1, Products, Limits
<1>4. Owed(next) <= Owed(row)
  <2>1. CASE row.pc \notin {"bound", "round"}
    BY <1>2, <2>1 DEF Owed
  <2>2. CASE row.pc \in {"bound", "round"}
    <3>1. Owed(row) = row.due * ProbeLimit + row.locked * LockLimit + row.left
      BY <2>2 DEF Owed
    <3>2. Owed(next) = next.due * ProbeLimit + next.locked * LockLimit + next.left
      BY <1>2, <2>2 DEF Owed
    <3>3. Owed(next) = row.due * ProbeLimit + row.locked * LockLimit
      <4>1. CASE /\ next.due = row.due - 1 /\ next.locked = row.locked
                 /\ next.left = ProbeLimit
        BY <1>3, <3>2, <4>1, Limits
      <4>2. CASE /\ next.due = row.due /\ next.locked = row.locked - 1
                 /\ next.left = LockLimit
        BY <1>3, <3>2, <4>2, Limits
      <4> QED
        BY <1>2, <4>1, <4>2
    <3> QED
      BY <1>1, <1>3, <3>1, <3>3
  <2> QED
    BY <2>1, <2>2
<1> QED
  BY <1>4 DEF row, next

(* Time that passes in a call is owed no longer. *)
LEMMA TickOwes ==
    ASSUME TypeOK, Tick, NEW d \in Daemons
    PROVE  /\ Owed(daemons'[d]) <= Owed(daemons[d])
           /\ daemons[d].pc \in {"bound", "round"} => Owed(daemons'[d]) = Owed(daemons[d]) - 1
<1> DEFINE row == daemons[d]
           next == daemons'[d]
<1>1. row \in DaemonRow /\ row.due \in Nat /\ row.locked \in Nat /\ row.left \in Nat
  BY DEF TypeOK, DaemonRow
<1>2. /\ next.pc = row.pc /\ next.due = row.due /\ next.locked = row.locked
      /\ IF row.left > 0 THEN next.left = row.left - 1 ELSE next.left = row.left
  BY TickTyped
<1>3. row.pc \in {"bound", "round"} => row.left > 0
  BY DEF Tick, Sleeps, Working, At
<1> HIDE DEF row, next
<1>4. row.due * ProbeLimit \in Nat /\ row.locked * LockLimit \in Nat
  BY <1>1, Limits
<1>5. /\ Owed(next) <= Owed(row)
      /\ row.pc \in {"bound", "round"} => Owed(next) = Owed(row) - 1
  BY <1>1, <1>2, <1>3, <1>4 DEF Owed
<1> QED
  BY <1>5 DEF row, next

LEMMA RoundsEndHolds == Spec => [](TypeOK /\ RoundsEnd)
<1>1. Owed(Off) = 0
  BY DEF Off, Owed
<1>2. Init => RoundsEnd
  <2>1. 0 <= RoundLimit
    BY Limits
  <2> QED
    BY <1>1, <2>1 DEF Init, RoundsEnd
<1>3. TypeOK /\ RoundsEnd /\ [Next]_vars => RoundsEnd'
  <2> SUFFICES ASSUME TypeOK, RoundsEnd, [Next]_vars, NEW e \in Daemons
               PROVE  Owed(daemons'[e]) <= RoundLimit
    BY DEF RoundsEnd, Owed, RoundLimit
  <2>1. daemons[e] \in DaemonRow /\ Owed(daemons[e]) \in Nat /\ Owed(daemons[e]) <= RoundLimit
    BY OwedTyped DEF TypeOK, RoundsEnd
  <2>2. CASE Owed(daemons'[e]) = Owed(daemons[e])
    BY <2>1, <2>2
  <2>3. CASE daemons'[e].pc \notin {"bound", "round"}
    BY <2>3, Limits DEF Owed
  <2>4. ASSUME NEW d \in Daemons, Ends(d)
        PROVE  Owed(daemons'[e]) <= RoundLimit
    BY <1>1, <2>1, <2>4, Limits DEF Ends, TypeOK
  <2>5. ASSUME NEW d \in Daemons, NEW pc \in Pcs \ {"bound", "round"},
               \/ daemons' = [daemons EXCEPT ![d].pc = pc]
               \/ daemons' = [daemons EXCEPT ![d].pc = pc, ![d].left = 0]
        PROVE  daemons'[e] = daemons[e] \/ daemons'[e].pc = pc
    BY <2>1, <2>5 DEF TypeOK, DaemonRow
  <2>6. ASSUME NEW d \in Daemons, Start(d) \/ RemoveStale(d) \/ OpenStore(d) \/ RoundEnds(d)
        PROVE  Owed(daemons'[e]) <= RoundLimit
    <3>1. CASE Start(d)
      BY <2>2, <2>3, <2>5, <3>1 DEF Start, Pcs
    <3>2. CASE RemoveStale(d)
      BY <2>2, <2>3, <2>5, <3>2 DEF RemoveStale, Pcs
    <3>3. CASE OpenStore(d)
      <4>1. "loop" \in Pcs \ {"bound", "round"}
        BY DEF Pcs
      <4>2. daemons'[e] = daemons[e] \/ daemons'[e].pc = "loop"
        BY <2>5, <3>3, <4>1 DEF OpenStore
      <4> QED
        BY <2>2, <2>3, <4>2
    <3>4. CASE RoundEnds(d)
      <4>1. (IF daemons[d].stop THEN "closing" ELSE "loop") \in Pcs \ {"bound", "round"}
        BY DEF Pcs
      <4> QED
        BY <2>2, <2>3, <2>5, <3>4, <4>1 DEF RoundEnds
    <3> QED
      BY <2>6, <3>1, <3>2, <3>3, <3>4
  <2>7. ASSUME NEW d \in Daemons, Shutdown(d) \/ Fails(d)
        PROVE  Owed(daemons'[e]) <= RoundLimit
    <3>1. CASE Shutdown(d)
      <4>1. "unlocking" \in Pcs \ {"bound", "round"}
        BY DEF Pcs
      <4>2. CASE daemons' = [daemons EXCEPT ![d].pc = "unlocking"]
        <5>1. daemons'[e] = daemons[e] \/ daemons'[e].pc = "unlocking"
          BY <2>5, <4>1, <4>2
        <5> QED
          BY <2>2, <2>3, <5>1
      <4>3. CASE Ends(d)
        BY <2>4, <4>3
      <4> QED
        BY <3>1, <4>2, <4>3 DEF Shutdown
    <3>2. CASE Fails(d)
      BY <2>4, <3>2 DEF Fails
    <3> QED
      BY <2>7, <3>1, <3>2
  <2>8. ASSUME NEW d \in Daemons, NEW row \in DaemonRow, NEW pc \in {"bound", "round"},
               NEW n \in 0 .. MaxDue, NEW k \in 0 .. MaxLocked,
               \A b \in Daemons \ {d} : daemons'[b] = daemons[b],
               daemons'[d] = Turn(row, pc, None, n, k)
        PROVE  Owed(daemons'[e]) <= RoundLimit
    BY <2>1, <2>8, TurnOwes
  <2>9. ASSUME NEW d \in Daemons, Bind(d)
        PROVE  Owed(daemons'[e]) <= RoundLimit
    <3>1. CASE socket = None
      <4>1. 0 \in 0 .. MaxDue /\ daemons[d] \in DaemonRow
        BY Limits DEF TypeOK
      <4> QED
        BY <2>8, <2>9, <3>1, <4>1, BindTyped
    <3>2. CASE socket # None
      BY <2>4, <2>9, <3>2 DEF Bind
    <3> QED
      BY <3>1, <3>2
  <2>10. ASSUME NEW d \in Daemons, NoRequest(d) \/ ConnectEnds(d)
         PROVE  Owed(daemons'[e]) <= RoundLimit
    <3>1. BeginsRound(d, daemons[d]) /\ daemons[d] \in DaemonRow
      BY <2>10 DEF NoRequest, ConnectEnds, TypeOK
    <3> QED
      BY <2>8, <3>1, RoundTyped
  <2>11. ASSUME NEW d \in Daemons, Accept(d)
         PROVE  Owed(daemons'[e]) <= RoundLimit
    <3>1. CASE daemons'[d].pc = "connect"
      BY <2>2, <2>3, <2>11, <3>1, AcceptTyped
    <3>2. CASE daemons'[d].pc # "connect"
      BY <2>8, <2>11, <3>2, AcceptTyped
    <3> QED
      BY <3>1, <3>2
  <2>12. ASSUME NEW d \in Daemons, Calls(d)
         PROVE  Owed(daemons'[e]) <= RoundLimit
    <3>1. CASE e = d
      <4>1. Owed(daemons'[e]) \in Nat
        BY <2>12, CallsTyped, OwedTyped
      <4> QED
        BY <2>1, <2>12, <3>1, <4>1, CallsOwe, Limits
    <3>2. CASE e # d
      BY <2>2, <2>12, <3>2, CallsTyped
    <3> QED
      BY <3>1, <3>2
  <2>13. ASSUME NEW c \in Clients, NEW op \in Ops, Send(c, op)
         PROVE  Owed(daemons'[e]) <= RoundLimit
    BY <2>1, <2>2, <2>13 DEF Send, TypeOK, DaemonRow, Owed
  <2>14. ASSUME NEW c \in Clients, GiveUp(c)
         PROVE  Owed(daemons'[e]) <= RoundLimit
    <3> DEFINE d == clients[c].to
               queue == [i \in DOMAIN daemons[d].queue |-> Closed(daemons[d].queue[i], c)]
               serving == Closed(daemons[d].serving, c)
    <3>1. daemons' = [daemons EXCEPT ![d].queue = queue, ![d].serving = serving]
      BY <2>14 DEF GiveUp
    <3> HIDE DEF d, queue, serving
    <3> QED
      BY <2>1, <2>2, <3>1 DEF TypeOK, DaemonRow, Owed
  <2>15. CASE Tick
    <3>1. Owed(daemons'[e]) \in Nat
      BY <2>15, TickTyped, OwedTyped
    <3> QED
      BY <2>1, <2>15, <3>1, TickOwes, Limits
  <2>16. CASE UNCHANGED vars
    BY <2>2, <2>16 DEF vars
  <2> QED
    BY <2>6, <2>7, <2>9, <2>10, <2>11, <2>12, <2>13, <2>14, <2>15, <2>16
       DEF Next, Progress
<1> QED
  BY <1>2, <1>3, TypeCorrect, PTL DEF Spec

(* A step of one daemon keeps the waits if it keeps those of its own       *)
(* clients; all others see the same daemon.                                *)
LEMMA WaitsKept ==
    ASSUME TypeOK, PromptWaits, NEW e \in Daemons,
           \A d \in Daemons \ {e} : daemons'[d] = daemons[d],
           \A c \in Clients : clients'[c] = clients[c] \/ ~clients'[c].prompt,
           \A c \in Clients :
             /\ clients[c].prompt
             /\ clients'[c].prompt
             /\ clients[c].to = e
             /\ InTime(daemons[e], clients[c], c)
             => InTime(daemons'[e], clients[c], c)
    PROVE  PromptWaits'
<1> SUFFICES ASSUME NEW c \in Clients, clients'[c].prompt
             PROVE  /\ clients'[c].to \in Daemons
                    /\ InTime(daemons'[clients'[c].to], clients'[c], c)
  BY DEF PromptWaits, InTime, Owed
<1>1. clients'[c] = clients[c] /\ clients[c].prompt
  OBVIOUS
<1>2. clients[c].to \in Daemons /\ InTime(daemons[clients[c].to], clients[c], c)
  BY <1>1 DEF PromptWaits
<1>3. CASE clients[c].to = e
  BY <1>1, <1>2, <1>3
<1>4. CASE clients[c].to # e
  <2>1. daemons'[clients[c].to] = daemons[clients[c].to]
    BY <1>2, <1>4
  <2> QED
    BY <1>1, <1>2, <2>1
<1> QED
  BY <1>3, <1>4

(* The end of a daemon ends the waits of its clients. *)
LEMMA EndsWaits ==
    ASSUME TypeOK, PromptWaits, NEW e \in Daemons, Ends(e)
    PROVE  PromptWaits'
<1>1. \A d \in Daemons \ {e} : daemons'[d] = daemons[d]
  BY DEF Ends, TypeOK
<1>2. \A c \in Clients : /\ clients'[c] = clients[c] \/ ~clients'[c].prompt
                         /\ clients[c].to = e => ~clients'[c].prompt
  BY DEF Ends, Idle
<1> QED
  BY <1>1, <1>2, WaitsKept

(* A daemon that moves on without a request stays in time for its clients. *)
LEMMA MovesInTime ==
    ASSUME TypeOK, RoundsEnd, PromptWaits, NEW e \in Daemons, NEW pc \in Pcs,
           \/ daemons' = [daemons EXCEPT ![e].pc = pc]
           \/ daemons' = [daemons EXCEPT ![e].pc = pc, ![e].left = 0],
           UNCHANGED clients,
           \/ daemons[e].pc \in {"off", "locked", "clean", "connect"}
           \/ pc \in {"loop", "closing", "unlocking"}
    PROVE  PromptWaits'
<1>1. /\ \A d \in Daemons \ {e} : daemons'[d] = daemons[d]
      /\ daemons'[e].pc = pc
      /\ daemons'[e].queue = daemons[e].queue
  BY DEF TypeOK, DaemonRow
<1>2. ASSUME NEW c \in Clients, InTime(daemons[e], clients[c], c)
      PROVE  InTime(daemons'[e], clients[c], c)
  <2>1. Owed(daemons[e]) \in Nat
    BY OwedTyped DEF TypeOK
  <2>2. clients[c].age \in Nat
    BY DEF TypeOK, ClientRow
  <2>3. pc \in {"loop", "closing", "unlocking"}
    BY <1>2 DEF InTime
  <2>4. Owed(daemons'[e]) = 0
    BY <1>1, <2>3 DEF Owed
  <2> QED
    BY <1>1, <1>2, <2>1, <2>2, <2>3, <2>4, Limits DEF InTime
<1> QED
  BY <1>1, <1>2, WaitsKept

(* The request whose turn it is is answered at once. *)
LEMMA AcceptServes ==
    ASSUME TypeOK, PromptWaits, NEW e \in Daemons, Accept(e)
    PROVE  PromptWaits'
<1> DEFINE q == Head(daemons[e].queue)
<1>1. daemons[e].queue \in Seq(Request)
  BY DEF TypeOK, DaemonRow
<1>2. q \in Request /\ q = daemons[e].queue[1]
  BY <1>1, HeadTailProperties DEF Accept
<1>3. \/ clients' = Answered(q)
      \/ q.op = "connect" /\ UNCHANGED clients
  BY DEF Accept
<1> HIDE DEF q
<1>4. ~Idle.prompt
  BY DEF Idle
<1>5. \A c \in Clients : clients'[c] = clients[c] \/ ~clients'[c].prompt
  BY <1>2, <1>3, <1>4 DEF Answered, TypeOK, Request
<1>6. ASSUME NEW c \in Clients, InTime(daemons[e], clients[c], c)
      PROVE  ~clients'[c].prompt
  <2>1. q.from = c /\ q.open /\ q.op # "connect"
    BY <1>2, <1>6 DEF InTime, IsNext
  <2> QED
    BY <1>3, <1>4, <2>1 DEF Answered, TypeOK
<1> QED
  BY <1>5, <1>6, AcceptTyped, WaitsKept

(* A call only takes off what is owed. *)
LEMMA CallsInTime ==
    ASSUME TypeOK, PromptWaits, NEW e \in Daemons, Calls(e)
    PROVE  PromptWaits'
<1>1. /\ \A d \in Daemons \ {e} : daemons'[d] = daemons[d]
      /\ daemons'[e].pc = daemons[e].pc
      /\ daemons'[e].queue = daemons[e].queue
  BY CallsTyped
<1>2. /\ Owed(daemons'[e]) <= Owed(daemons[e])
      /\ Owed(daemons'[e]) \in Nat
      /\ Owed(daemons[e]) \in Nat
  BY CallsOwe, CallsTyped, OwedTyped DEF TypeOK
<1>3. ASSUME NEW c \in Clients, InTime(daemons[e], clients[c], c)
      PROVE  InTime(daemons'[e], clients[c], c)
  <2>1. clients[c].age \in Nat
    BY DEF TypeOK, ClientRow
  <2> QED
    BY <1>1, <1>2, <1>3, <2>1, Limits DEF InTime
<1> QED
  BY <1>1, <1>3, WaitsKept DEF Calls

(* A prompt request is first in an empty queue; others come after it.      *)
LEMMA SendWaits ==
    ASSUME TypeOK, RoundsEnd, PromptWaits,
           NEW c \in Clients, NEW op \in Ops, Send(c, op)
    PROVE  PromptWaits'
<1> DEFINE e == socket
           q == [from |-> c, op |-> op, open |-> TRUE]
           old == daemons[e].queue
<1>1. e \in Daemons
  BY DEF TypeOK, Send
<1>2. old \in Seq(Request) /\ daemons[e] \in DaemonRow
  BY <1>1 DEF TypeOK, DaemonRow
<1>3. q \in Request
  BY DEF Request
<1>4. /\ \A d \in Daemons \ {e} : daemons'[d] = daemons[d]
      /\ daemons'[e] = [daemons[e] EXCEPT !.queue = Append(old, q)]
      /\ \A b \in Clients \ {c} : clients'[b] = clients[b]
      /\ clients'[c] = [to |-> e, age |-> 0, prompt |-> Prompt(e, op)]
  BY <1>1 DEF Send, TypeOK
<1> HIDE DEF q, old, e
<1>5. /\ daemons'[e].pc = daemons[e].pc
      /\ daemons'[e].due = daemons[e].due
      /\ daemons'[e].locked = daemons[e].locked
      /\ daemons'[e].left = daemons[e].left
      /\ daemons'[e].queue = Append(old, q)
  BY <1>2, <1>4 DEF DaemonRow
<1>6. Owed(daemons'[e]) = Owed(daemons[e])
  BY <1>5 DEF Owed
<1>7. /\ Append(old, q) \in Seq(Request)
      /\ Len(Append(old, q)) = Len(old) + 1
      /\ \A i \in 1 .. Len(old) : Append(old, q)[i] = old[i]
      /\ Append(old, q)[Len(old) + 1] = q
      /\ Len(old) \in Nat
  BY <1>2, <1>3, AppendProperties, LenProperties
<1>8. Append(old, q) # << >>
  BY <1>7
<1> SUFFICES ASSUME NEW b \in Clients, clients'[b].prompt
             PROVE  /\ clients'[b].to \in Daemons
                    /\ InTime(daemons'[clients'[b].to], clients'[b], b)
  BY DEF PromptWaits, InTime, Owed
<1>9. CASE b = c
  <2>1. Prompt(e, op) /\ clients'[c].to = e /\ clients'[c].age = 0
    BY <1>4, <1>9
  <2>2. old = << >> /\ op # "connect" /\ daemons[e].pc # "connect"
    BY <2>1 DEF Prompt, At, old
  <2>3. IsNext(Append(old, q)[1], c)
    BY <1>7, <2>2 DEF IsNext, q
  <2>4. daemons[e].pc \in {"bound", "loop", "round", "closing", "unlocking"}
    BY <2>2 DEF Send, Listening, e
  <2>5. Owed(daemons[e]) \in 0 .. RoundLimit
    BY <1>1, <1>2, OwedTyped, Limits DEF RoundsEnd
  <2> QED
    BY <1>1, <1>5, <1>6, <1>8, <1>9, <2>1, <2>3, <2>4, <2>5, Limits DEF InTime
<1>10. CASE b # c
  <2>1. clients'[b] = clients[b]
    BY <1>4, <1>10
  <2>2. clients[b].to \in Daemons /\ InTime(daemons[clients[b].to], clients[b], b)
    BY <2>1 DEF PromptWaits
  <2>3. CASE clients[b].to = e
    <3>1. old # << >> /\ IsNext(old[1], b)
      BY <2>2, <2>3 DEF InTime, old
    <3>2. 1 \in 1 .. Len(old)
      BY <1>2, <3>1, <1>7, EmptySeq
    <3>3. Append(old, q)[1] = old[1]
      BY <1>7, <3>2
    <3> QED
      BY <1>1, <1>5, <1>6, <1>8, <2>1, <2>2, <2>3, <3>1, <3>3 DEF InTime
  <2>4. CASE clients[b].to # e
    BY <1>4, <2>1, <2>2, <2>4
  <2> QED
    BY <2>3, <2>4
<1> QED
  BY <1>9, <1>10

(* A client that leaves closes its own request and no other. *)
LEMMA GiveUpWaits ==
    ASSUME TypeOK, RoundsEnd, PromptWaits, NEW c \in Clients, GiveUp(c)
    PROVE  PromptWaits'
<1> DEFINE e == clients[c].to
           old == daemons[e].queue
           queue == [i \in DOMAIN old |-> Closed(old[i], c)]
           serving == Closed(daemons[e].serving, c)
<1>1. e \in Daemons
  BY DEF TypeOK, ClientRow, GiveUp, Waiting
<1>2. old \in Seq(Request) /\ daemons[e] \in DaemonRow
  BY <1>1 DEF TypeOK, DaemonRow
<1>3. /\ daemons' = [daemons EXCEPT ![e].queue = queue, ![e].serving = serving]
      /\ \A b \in Clients \ {c} : clients'[b] = clients[b]
      /\ clients'[c] = Idle
  BY DEF GiveUp, TypeOK
<1>4. /\ queue \in Seq(Request)
      /\ Len(queue) = Len(old)
      /\ Len(old) \in Nat
      /\ DOMAIN old = 1 .. Len(old)
  BY <1>2, ClosedQueueTyped, LenProperties
<1>5. \A i \in DOMAIN old : queue[i] = Closed(old[i], c)
  OBVIOUS
<1> HIDE DEF queue, serving, old, e
<1>6. /\ \A d \in Daemons \ {e} : daemons'[d] = daemons[d]
      /\ daemons'[e].pc = daemons[e].pc
      /\ daemons'[e].due = daemons[e].due
      /\ daemons'[e].locked = daemons[e].locked
      /\ daemons'[e].left = daemons[e].left
      /\ daemons'[e].queue = queue
  BY <1>1, <1>2, <1>3 DEF TypeOK, DaemonRow
<1>7. ASSUME NEW b \in Clients, b # c, InTime(daemons[e], clients[b], b)
      PROVE  InTime(daemons'[e], clients[b], b)
  <2>1. old # << >> /\ IsNext(old[1], b)
    BY <1>7 DEF InTime, old
  <2>2. 1 \in DOMAIN old
    BY <1>2, <1>4, <2>1, EmptySeq
  <2>3. queue[1] = old[1]
    BY <1>5, <1>7, <2>1, <2>2 DEF Closed, IsNext
  <2>4. queue # << >>
    BY <1>4, <2>2
  <2>5. Owed(daemons'[e]) = Owed(daemons[e])
    BY <1>6 DEF Owed
  <2> QED
    BY <1>6, <1>7, <2>1, <2>3, <2>4, <2>5 DEF InTime
<1>8. ~Idle.prompt
  BY DEF Idle
<1>9. \A b \in Clients : clients'[b] = clients[b] \/ ~clients'[b].prompt
  BY <1>3, <1>8
<1> QED
  BY <1>1, <1>3, <1>6, <1>7, <1>8, <1>9, WaitsKept

(* Time only passes for a prompt request while it passes for a call.       *)
LEMMA TickWaits ==
    ASSUME TypeOK, RoundsEnd, PromptWaits, Tick
    PROVE  PromptWaits'
<1> SUFFICES ASSUME NEW c \in Clients, clients'[c].prompt
             PROVE  /\ clients'[c].to \in Daemons
                    /\ InTime(daemons'[clients'[c].to], clients'[c], c)
  BY DEF PromptWaits, InTime, Owed
<1> DEFINE e == clients[c].to
<1>1. ASSUME NEW row \in ClientRow
      PROVE  LET next == [row EXCEPT !.age = @ + 1]
             IN  /\ next.to = row.to
                 /\ next.prompt = row.prompt
                 /\ next.age = row.age + 1
  BY DEF ClientRow
<1>2. clients[c] \in ClientRow /\ clients[c].age \in Nat
  BY DEF TypeOK, ClientRow
<1>3. /\ clients'[c].to = e
      /\ clients[c].prompt
      /\ clients'[c].age \in {clients[c].age, clients[c].age + 1}
  BY <1>1, <1>2 DEF Tick
<1>4. e \in Daemons /\ InTime(daemons[e], clients[c], c)
  BY <1>3 DEF PromptWaits
<1>5. daemons[e] \in DaemonRow
  BY <1>4 DEF TypeOK
<1>6. daemons[e].pc \in {"bound", "round"}
  <2>1. Sleeps(e) \/ Working(e)
    BY <1>4 DEF Tick
  <2> QED
    BY <1>4, <2>1 DEF Sleeps, Working, At, InTime
<1> HIDE DEF e
<1>7. /\ daemons'[e].pc = daemons[e].pc
      /\ daemons'[e].queue = daemons[e].queue
  BY <1>4, TickTyped
<1>8. Owed(daemons'[e]) = Owed(daemons[e]) - 1 /\ Owed(daemons[e]) \in Nat
  BY <1>4, <1>5, <1>6, TickOwes, OwedTyped
<1>9. clients'[c].age + Owed(daemons'[e]) <= RoundLimit
  <2>1. clients[c].age + Owed(daemons[e]) <= RoundLimit
    BY <1>4 DEF InTime
  <2> QED
    BY <1>2, <1>3, <1>8, <2>1, Limits
<1> QED
  BY <1>3, <1>4, <1>6, <1>7, <1>9 DEF InTime

LEMMA PromptWaitsHolds == Spec => [](TypeOK /\ RoundsEnd /\ PromptWaits)
<1>1. Init => PromptWaits
  BY DEF Init, Idle, PromptWaits
<1>2. TypeOK /\ RoundsEnd /\ PromptWaits /\ [Next]_vars => PromptWaits'
  <2> SUFFICES ASSUME TypeOK, RoundsEnd, PromptWaits, [Next]_vars
               PROVE  PromptWaits'
    OBVIOUS
  <2>1. ASSUME NEW d \in Daemons, Start(d) PROVE PromptWaits'
    BY <2>1, MovesInTime DEF Start, At, Pcs
  <2>2. ASSUME NEW d \in Daemons, RemoveStale(d) PROVE PromptWaits'
    BY <2>2, MovesInTime DEF RemoveStale, At, Pcs
  <2>3. ASSUME NEW d \in Daemons, Bind(d) PROVE PromptWaits'
    <3>1. CASE socket = None
      <4>1. \A e \in Daemons \ {d} : daemons'[e] = daemons[e]
        BY <2>3, <3>1, BindTyped
      <4>2. \A c \in Clients : ~InTime(daemons[d], clients[c], c)
        BY <2>3 DEF Bind, At, InTime
      <4> QED
        BY <2>3, <3>1, <4>1, <4>2, WaitsKept DEF Bind
    <3>2. CASE socket # None
      BY <2>3, <3>2, EndsWaits DEF Bind
    <3> QED
      BY <3>1, <3>2
  <2>4. ASSUME NEW d \in Daemons, OpenStore(d) PROVE PromptWaits'
    BY <2>4, MovesInTime DEF OpenStore, Pcs
  <2>5. ASSUME NEW d \in Daemons, NoRequest(d) PROVE PromptWaits'
    <3>1. \A e \in Daemons \ {d} : daemons'[e] = daemons[e]
      BY <2>5, RoundTyped DEF NoRequest, TypeOK
    <3>2. \A c \in Clients : ~InTime(daemons[d], clients[c], c)
      BY <2>5 DEF NoRequest, InTime
    <3> QED
      BY <2>5, <3>1, <3>2, WaitsKept DEF NoRequest
  <2>6. ASSUME NEW d \in Daemons, Accept(d) PROVE PromptWaits'
    BY <2>6, AcceptServes
  <2>7. ASSUME NEW d \in Daemons, ConnectEnds(d) PROVE PromptWaits'
    <3>1. \A e \in Daemons \ {d} : daemons'[e] = daemons[e]
      BY <2>7, RoundTyped DEF ConnectEnds, TypeOK
    <3>2. \A c \in Clients : ~InTime(daemons[d], clients[c], c)
      BY <2>7 DEF ConnectEnds, At, InTime
    <3>3. \A c \in Clients : clients'[c] = clients[c] \/ ~clients'[c].prompt
      BY <2>7 DEF ConnectEnds, Answered, Idle, TypeOK
    <3> QED
      BY <3>1, <3>2, <3>3, WaitsKept
  <2>8. ASSUME NEW d \in Daemons, Calls(d) PROVE PromptWaits'
    BY <2>8, CallsInTime
  <2>9. ASSUME NEW d \in Daemons, RoundEnds(d) PROVE PromptWaits'
    <3>1. (IF daemons[d].stop THEN "closing" ELSE "loop") \in {"closing", "loop"}
      OBVIOUS
    <3> QED
      BY <2>9, <3>1, MovesInTime DEF RoundEnds, Pcs
  <2>10. ASSUME NEW d \in Daemons, Shutdown(d) PROVE PromptWaits'
    BY <2>10, MovesInTime, EndsWaits DEF Shutdown, Pcs
  <2>11. ASSUME NEW d \in Daemons, Fails(d) PROVE PromptWaits'
    BY <2>11, EndsWaits DEF Fails
  <2>12. CASE UNCHANGED vars
    BY <2>12 DEF vars, PromptWaits, InTime, Owed
  <2> QED
    BY <2>1, <2>2, <2>3, <2>4, <2>5, <2>6, <2>7, <2>8, <2>9, <2>10, <2>11, <2>12,
       SendWaits, GiveUpWaits, TickWaits DEF Next, Progress
<1> QED
  BY <1>1, <1>2, RoundsEndHolds, PTL DEF Spec

(* A status or stop request that finds nobody before it is answered, or    *)
(* its daemon ends, after the probes and the waits for the database of at  *)
(* most one round, whatever the daemon is doing and whoever else asks.     *)
THEOREM PromptRequestsAreNext == Spec => []PromptRequestsWaitOneRound
<1>1. TypeOK /\ PromptWaits => PromptRequestsWaitOneRound
  <2> SUFFICES ASSUME TypeOK, PromptWaits, NEW c \in Clients, clients[c].prompt
               PROVE  clients[c].age <= RoundLimit
    BY DEF PromptRequestsWaitOneRound
  <2> DEFINE d == clients[c].to
  <2>1. d \in Daemons /\ InTime(daemons[d], clients[c], c)
    BY DEF PromptWaits
  <2>2. Owed(daemons[d]) \in Nat /\ clients[c].age \in Nat
    BY <2>1, OwedTyped DEF TypeOK, ClientRow
  <2> QED
    BY <2>1, <2>2, Limits DEF InTime
<1> QED
  BY <1>1, PromptWaitsHolds, PTL

=============================================================================
