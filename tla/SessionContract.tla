--------------------------- MODULE SessionContract ---------------------------
(***************************************************************************)
(* The in-memory contract of one session, struct Session of src/lib.rs:    *)
(* what a session promises about requests, their states and user control,  *)
(* independently of storage and transport.  TaskJournal implements it.     *)
(*                                                                         *)
(* A call that returns an error, or that returns a request registered      *)
(* before, changes nothing: such calls are the stuttering steps of Spec.   *)
(***************************************************************************)
EXTENDS Integers, FiniteSets

CONSTANTS
    RequestIds,   \* nonempty request identifiers
    Executions,   \* what a request asks for: command, cwd and env together
    Refused,      \* executions the command policy or the validation rejects
    Exits,        \* exit codes
    None          \* no exit code

VARIABLES
    requests,         \* BTreeMap from the registered request ids to tasks
    user_controlled   \* whether the user holds the session's input

vars == <<requests, user_controlled>>

Running == [kind |-> "running", code |-> None]
Unknown == [kind |-> "unknown", code |-> None]
Exited(c) == [kind |-> "exited", code |-> c]

TaskState == {Running, Unknown} \cup {Exited(c) : c \in Exits}

Task == [id : Nat \ {0}, execution : Executions, state : TaskState]

Open(r) == requests[r].state.kind # "exited"

Busy == \E r \in DOMAIN requests : Open(r)

Init ==
    /\ requests = [r \in {} |-> None]
    /\ user_controlled = FALSE

-----------------------------------------------------------------------------
Register(r, task) ==
    requests' = [q \in DOMAIN requests \cup {r} |->
                   IF q = r THEN task ELSE requests[q]]

(* Session::submit, the path that registers a request.  The other paths    *)
(* (refused command, changed parameters, controlled, busy) return an       *)
(* error, and a retry with the same parameters is read-only.               *)
Submit(r, e) ==
    /\ e \notin Refused
    /\ r \notin DOMAIN requests
    /\ ~user_controlled
    /\ ~Busy
    /\ Register(r, [id        |-> Cardinality(DOMAIN requests) + 1,
                    execution |-> e,
                    state     |-> Running])
    /\ UNCHANGED user_controlled

(* Session::observe: any state may be observed until an exit was. *)
Observe(r, st) ==
    /\ r \in DOMAIN requests
    /\ Open(r) \/ requests[r].state = st
    /\ requests' = [requests EXCEPT ![r].state = st]
    /\ UNCHANGED user_controlled

TakeControl ==
    /\ ~user_controlled
    /\ ~Busy
    /\ user_controlled' = TRUE
    /\ UNCHANGED requests

ReleaseControl ==
    /\ user_controlled' = FALSE
    /\ UNCHANGED requests

Next ==
    \/ \E r \in RequestIds, e \in Executions : Submit(r, e)
    \/ \E r \in RequestIds, st \in TaskState : Observe(r, st)
    \/ TakeControl
    \/ ReleaseControl

Spec == Init /\ [][Next]_vars

-----------------------------------------------------------------------------
TypeOK ==
    /\ DOMAIN requests \subseteq RequestIds
    /\ \A r \in DOMAIN requests : requests[r] \in Task
    /\ user_controlled \in BOOLEAN

(* A session works on one request at a time: whatever is submitted,        *)
(* retried, observed or taken over, at most one request is not exited      *)
(* (Session::submit refuses new work while Session::busy).                 *)
OneOpenRequest ==
    \A q, r \in DOMAIN requests : Open(q) /\ Open(r) => q = r

(* While the user holds the session nothing in it runs or may be running:  *)
(* take_control waits for the work to end and submit refuses to start any, *)
(* so neither order of the two calls lets agent and user act together.     *)
ControlledIsQuiet == user_controlled => ~Busy

(* An observed exit is final, and a registered request keeps its id and    *)
(* parameters: no later call rewrites the result a client already read.    *)
ResultsAreFinal ==
    [][\A r \in DOMAIN requests :
         /\ r \in DOMAIN requests'
         /\ requests'[r].id = requests[r].id
         /\ requests'[r].execution = requests[r].execution
         /\ ~Open(r) => requests'[r] = requests[r]]_vars

=============================================================================
