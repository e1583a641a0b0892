--------------------------- MODULE JournalContract ---------------------------
(***************************************************************************)
(* The journal keeps the contract that lib.rs states in memory: seen from  *)
(* one session, the durable tables and the sweeps of concurrent processes  *)
(* behave like a SessionContract.                                          *)
(*                                                                         *)
(* A client sees "accepted" and "running" as one state: the contract's     *)
(* Running is a request that was registered and is not known to have       *)
(* ended.  A task that is found alive after it was given up is an observed *)
(* state too, so "unknown" may be followed by an exit.                     *)
(***************************************************************************)
EXTENDS TaskJournal, FiniteSets

CONSTANT Watched   \* the session whose contract is checked

ASSUME WatchedAssumption == Watched \in SessionIds

WatchedTasks == {i \in DOMAIN tasks : tasks[i].session = Watched}

TaskOf(r) == CHOOSE i \in WatchedTasks : tasks[i].request = r

ContractState(row) ==
    [kind |-> IF row.state = "accepted" THEN "running" ELSE row.state,
     code |-> row.exit_code]

(* Journal ids number the tasks of all sessions, the contract's those of   *)
(* one: a task is numbered by the watched tasks up to it.                  *)
ContractRequests ==
    [r \in {tasks[i].request : i \in WatchedTasks} |->
       LET i == TaskOf(r) IN
       [id        |-> Cardinality({j \in WatchedTasks : j <= i}),
        execution |-> tasks[i].execution,
        state     |-> ContractState(tasks[i])]]

Contract == INSTANCE SessionContract WITH
    Exits           <- ExitCodes,
    requests        <- ContractRequests,
    user_controlled <- Controlled(Watched)

-----------------------------------------------------------------------------
(* Every transaction of any process is, for the watched session, one call  *)
(* of the in-memory contract or no change: the tables lose no request,     *)
(* never run two requests at once, and never rewrite an exit.              *)
ImplementsContract == Contract!Spec

=============================================================================
