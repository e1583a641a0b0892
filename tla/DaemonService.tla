---------------------------- MODULE DaemonService ----------------------------
(***************************************************************************)
(* The daemon as a service of the state directory: the lock file and the   *)
(* socket that its processes share, one request per turn of its loop,      *)
(* and the clients of "sanc daemon status", "stop" and "connect"           *)
(* (unix::serve and unix::request of src/daemon.rs).  What a probe records *)
(* and which devices are due is the subject of DeviceMonitor; here two     *)
(* kinds of calls take time: a probe, and a call of the store that finds   *)
(* the database locked by another process (the busy_timeout that           *)
(* ConnectionStore::open sets).                                            *)
(*                                                                         *)
(* The unit of time is 5 seconds.  Whatever else the daemon does takes a   *)
(* fraction of it.                                                         *)
(***************************************************************************)
EXTENDS Naturals, Sequences

CONSTANTS
    Daemons,     \* processes that may run sanc daemon run
    Clients,     \* processes that send requests
    None,        \* no owner, no file, no request
    ProbeLimit,  \* 3 in the code: ssh::probe kills ssh after 15 seconds
    LockLimit,   \* 1 in the code: a call waits 5 seconds for the database
    ReadLimit,   \* 4 in the code: a client waits 20 seconds for its answer
    MaxDue,      \* bound: unreachable devices that one round finds due
    MaxLocked,   \* bound: calls that wait for the database in the opening, in
                 \* one connect request or in one round
    Backlog,     \* bound: requests that wait at the socket
    MaxFaults    \* bound: deaths of daemons and failed calls

ASSUME ServiceAssumption ==
    /\ None \notin Daemons \cup Clients
    /\ {ProbeLimit, LockLimit, ReadLimit, MaxDue, MaxLocked, Backlog, MaxFaults} \subseteq Nat

VARIABLES
    lock,      \* the process that holds the lock on daemon.lock
    socket,    \* the process whose listener daemon.sock names, dead or alive
    daemons,   \* what each daemon does
    clients,   \* what each client waits for
    faults     \* faults so far

vars == <<lock, socket, daemons, clients, faults>>

Ops == {"status", "stop", "connect"}

Request == [from : Clients, op : Ops, open : BOOLEAN]

Off == [pc |-> "off", stop |-> FALSE, queue |-> << >>, serving |-> None,
        due |-> 0, locked |-> 0, left |-> 0]

Idle == [to |-> None, age |-> 0, prompt |-> FALSE]

Init ==
    /\ lock = None
    /\ socket = None
    /\ daemons = [d \in Daemons |-> Off]
    /\ clients = [c \in Clients |-> Idle]
    /\ faults = 0

At(d, pc) == daemons[d].pc = pc

Waiting(c) == clients[c].to # None

(* The listener exists from bind until the process ends. *)
Listening(d) == daemons[d].pc \in {"bound", "loop", "connect", "round", "closing", "unlocking"}

Serving(d) == daemons[d].pc \in {"loop", "connect", "round"}

(* The end of the process: the kernel drops its lock and its listener, and *)
(* clients it had not answered read the end of the stream.                 *)
Ends(d) ==
    /\ daemons' = [daemons EXCEPT ![d] = Off]
    /\ lock' = IF lock = d THEN None ELSE lock
    /\ clients' = [c \in Clients |-> IF clients[c].to = d THEN Idle ELSE clients[c]]

-----------------------------------------------------------------------------
(* unix::serve, from the lock to the loop. *)

(* try_lock; a process that does not get the lock ends with                *)
(* daemon_already_running and changes nothing.                             *)
Start(d) ==
    /\ At(d, "off")
    /\ lock = None
    /\ lock' = d
    /\ daemons' = [daemons EXCEPT ![d].pc = "locked"]
    /\ UNCHANGED <<socket, clients, faults>>

(* Mutation: the socket that a dead daemon left is not removed. *)
KeepStale(d) ==
    /\ At(d, "locked")
    /\ daemons' = [daemons EXCEPT ![d].pc = "clean"]
    /\ UNCHANGED <<lock, socket, clients, faults>>

RemoveStale(d) ==
    /\ At(d, "locked")
    /\ socket' = None
    /\ daemons' = [daemons EXCEPT ![d].pc = "clean"]
    /\ UNCHANGED <<lock, clients, faults>>

(* What the daemon does next takes n probes, and k calls of the store that *)
(* have to wait, in any order.                                             *)
Turn(row, pc, q, n, k) ==
    [row EXCEPT !.pc = pc, !.serving = q, !.due = n, !.locked = k, !.left = 0]

(* bind fails on a name that exists, and serve with it. *)
Bind(d) ==
    /\ At(d, "clean")
    /\ IF socket = None
         THEN /\ socket' = d
              /\ \E k \in 0 .. MaxLocked :
                   daemons' = [daemons EXCEPT ![d] = Turn(@, "bound", None, 0, k)]
              /\ UNCHANGED <<lock, clients>>
         ELSE Ends(d) /\ UNCHANGED socket
    /\ UNCHANGED faults

(* Where the daemon makes calls that take time. *)
Working(d) == daemons[d].pc \in {"bound", "connect", "round"}

CallsDone(d) == daemons[d].due = 0 /\ daemons[d].locked = 0

(* The store is open and was read; clients could connect meanwhile. *)
OpenStore(d) ==
    /\ At(d, "bound")
    /\ CallsDone(d)
    /\ daemons' = [daemons EXCEPT ![d].pc = "loop", ![d].left = 0]
    /\ UNCHANGED <<lock, socket, clients, faults>>

-----------------------------------------------------------------------------
(* One turn of the loop: a request if there is one, then the devices. *)

(* The round that follows: the probes that are due, and device_busy,       *)
(* target and observe for each device.                                     *)
BeginsRound(d, row) ==
    \E n \in 0 .. MaxDue, k \in 0 .. MaxLocked :
      daemons' = [daemons EXCEPT ![d] = Turn(row, "round", None, n, k)]

(* The answer reaches a client that still waits. *)
Answered(q) == IF q.open THEN [clients EXCEPT ![q.from] = Idle] ELSE clients

(* Mutation: the devices come before the request that waits. *)
RoundFirst(d) ==
    /\ At(d, "loop")
    /\ BeginsRound(d, daemons[d])
    /\ UNCHANGED <<lock, socket, clients, faults>>

NoRequest(d) ==
    /\ At(d, "loop")
    /\ daemons[d].queue = << >>
    /\ BeginsRound(d, daemons[d])
    /\ UNCHANGED <<lock, socket, clients, faults>>

(* accept; status and stop are answered at once, connect reads the device, *)
(* probes it if it has a target, and saves what it saw.                    *)
Accept(d) ==
    /\ At(d, "loop")
    /\ daemons[d].queue # << >>
    /\ LET q == Head(daemons[d].queue)
           row == [daemons[d] EXCEPT !.queue = Tail(@), !.stop = @ \/ q.op = "stop"]
       IN \/ /\ q.op # "connect"
             /\ BeginsRound(d, row)
             /\ clients' = Answered(q)
          \/ /\ q.op = "connect"
             /\ \E n \in 0 .. 1, k \in 0 .. MaxLocked :
                  daemons' = [daemons EXCEPT ![d] = Turn(row, "connect", q, n, k)]
             /\ UNCHANGED clients
    /\ UNCHANGED <<lock, socket, faults>>

ConnectEnds(d) ==
    /\ At(d, "connect")
    /\ CallsDone(d)
    /\ clients' = Answered(daemons[d].serving)
    /\ BeginsRound(d, daemons[d])
    /\ UNCHANGED <<lock, socket, faults>>

(* The next call begins, the one before it has ended.  It may end at any   *)
(* time before its limit: ssh::probe kills ssh, and a call that found the  *)
(* database locked all the time fails, which Fails takes account of.       *)
Calls(d) ==
    /\ Working(d)
    /\ \/ /\ daemons[d].due > 0
          /\ daemons' = [daemons EXCEPT ![d].due = @ - 1, ![d].left = ProbeLimit]
       \/ /\ daemons[d].locked > 0
          /\ daemons' = [daemons EXCEPT ![d].locked = @ - 1, ![d].left = LockLimit]
    /\ UNCHANGED <<lock, socket, clients, faults>>

(* Mutation: a stopping daemon first serves whoever waits. *)
RoundEndsServingAll(d) ==
    /\ At(d, "round")
    /\ CallsDone(d)
    /\ daemons' = [daemons EXCEPT
                     ![d].pc = IF daemons[d].stop /\ daemons[d].queue = << >>
                                 THEN "closing" ELSE "loop",
                     ![d].left = 0]
    /\ UNCHANGED <<lock, socket, clients, faults>>

RoundEnds(d) ==
    /\ At(d, "round")
    /\ CallsDone(d)
    /\ daemons' = [daemons EXCEPT ![d].pc = IF daemons[d].stop THEN "closing" ELSE "loop",
                                  ![d].left = 0]
    /\ UNCHANGED <<lock, socket, clients, faults>>

-----------------------------------------------------------------------------
(* Mutation: the lock is dropped before the socket is removed. *)
ShutdownUnlocksFirst(d) ==
    /\ \/ /\ At(d, "closing")
          /\ lock' = None
          /\ daemons' = [daemons EXCEPT ![d].pc = "unlocking"]
          /\ UNCHANGED <<socket, clients>>
       \/ /\ At(d, "unlocking")
          /\ socket' = None
          /\ Ends(d)
    /\ UNCHANGED faults

(* remove_file acts on the name, whoever bound it; then the lock goes.     *)
Shutdown(d) ==
    /\ \/ /\ At(d, "closing")
          /\ socket' = None
          /\ daemons' = [daemons EXCEPT ![d].pc = "unlocking"]
          /\ UNCHANGED <<lock, clients>>
       \/ /\ At(d, "unlocking")
          /\ Ends(d)
          /\ UNCHANGED socket
    /\ UNCHANGED faults

(* Killed, or a call fails whose error ends serve: the socket file stays.  *)
Fails(d) ==
    /\ ~At(d, "off")
    /\ faults < MaxFaults
    /\ faults' = faults + 1
    /\ Ends(d)
    /\ UNCHANGED socket

-----------------------------------------------------------------------------
(* unix::request.  Without a listener it ends with daemon_unavailable. *)

(* Nobody is before this request, and it needs no call of its own. *)
Prompt(d, op) == op # "connect" /\ daemons[d].queue = << >> /\ ~At(d, "connect")

Send(c, op) ==
    /\ ~Waiting(c)
    /\ socket # None
    /\ Listening(socket)
    /\ Len(daemons[socket].queue) < Backlog
    /\ daemons' = [daemons EXCEPT ![socket].queue =
                     Append(@, [from |-> c, op |-> op, open |-> TRUE])]
    /\ clients' = [clients EXCEPT ![c] =
                     [to |-> socket, age |-> 0, prompt |-> Prompt(socket, op)]]
    /\ UNCHANGED <<lock, socket, faults>>

Closed(q, c) == IF q # None /\ q.from = c THEN [q EXCEPT !.open = FALSE] ELSE q

(* The read timeout: the client leaves, its request stays in the queue.    *)
GiveUp(c) ==
    /\ Waiting(c)
    /\ clients[c].age = ReadLimit
    /\ daemons' = [daemons EXCEPT
                     ![clients[c].to].queue = [i \in DOMAIN @ |-> Closed(@[i], c)],
                     ![clients[c].to].serving = Closed(@, c)]
    /\ clients' = [clients EXCEPT ![c] = Idle]
    /\ UNCHANGED <<lock, socket, faults>>

-----------------------------------------------------------------------------
Sleeps(d) == At(d, "off") \/ (At(d, "loop") /\ daemons[d].queue = << >>)

(* 5 seconds pass.  They pass in calls that wait and where nothing is to   *)
(* do; a call or a client at its limit does not wait any longer.           *)
Tick ==
    /\ \A d \in Daemons : Sleeps(d) \/ (Working(d) /\ daemons[d].left > 0)
    /\ \A c \in Clients : Waiting(c) => clients[c].age < ReadLimit
    /\ daemons' = [d \in Daemons |-> IF daemons[d].left > 0
                                        THEN [daemons[d] EXCEPT !.left = @ - 1]
                                        ELSE daemons[d]]
    /\ clients' = [c \in Clients |-> IF Waiting(c) THEN [clients[c] EXCEPT !.age = @ + 1]
                                                   ELSE clients[c]]
    /\ UNCHANGED <<lock, socket, faults>>

Progress(d) ==
    \/ RemoveStale(d)
    \/ Bind(d)
    \/ OpenStore(d)
    \/ NoRequest(d)
    \/ Accept(d)
    \/ ConnectEnds(d)
    \/ Calls(d)
    \/ RoundEnds(d)
    \/ Shutdown(d)

Next ==
    \/ \E d \in Daemons : Start(d) \/ Progress(d) \/ Fails(d)
    \/ \E c \in Clients : GiveUp(c) \/ \E op \in Ops : Send(c, op)
    \/ Tick

Spec == Init /\ [][Next]_vars

(* A daemon is scheduled and its calls end.   Nobody has to start one, to  *)
(* send a request or to wait.                                              *)
FairSpec == Spec /\ \A d \in Daemons : WF_vars(Progress(d))

-----------------------------------------------------------------------------
(* Whatever daemons start, stop and die in whatever order, one that serves *)
(* holds the lock and daemon.sock is its own: no other daemon removed or   *)
(* replaced it, and clients reach the daemon that monitors.                *)
ServesItsOwnSocket ==
    \A d \in Daemons : Serving(d) => lock = d /\ socket = d

(* The longest round, or opening of the store. *)
RoundLimit == MaxDue * ProbeLimit + MaxLocked * LockLimit

(* A status or stop request that finds nobody before it waits for the      *)
(* calls of one round at most, the one it met (or the opening), whatever   *)
(* other clients ask meanwhile: the daemon turns to it before it connects  *)
(* to a device or begins another round.                                    *)
PromptRequestsWaitOneRound ==
    \A c \in Clients : clients[c].prompt => clients[c].age <= RoundLimit

(* A daemon that accepted a stop ends after the round at hand, however     *)
(* many requests keep coming.                                              *)
StopEndsDaemon == \A d \in Daemons : daemons[d].stop ~> At(d, "off")

(* Whoever gets the lock comes to serve unless one of its own calls fails: *)
(* no socket file left by a daemon that died, and no daemon that is still  *)
(* stopping, keeps its successor from binding.                             *)
StartsSucceed ==
    [][\A d \in Daemons :
         /\ daemons[d].pc \in {"locked", "clean", "bound"}
         /\ faults' = faults
         => ~At(d, "off")']_vars

=============================================================================
