---------------------------- MODULE TaskJournal ----------------------------
(***************************************************************************)
(* The durable intent journal: the tables "tasks" and "sessions" of        *)
(* src/tasks.rs, and the two UPDATEs that every ConnectionStore::open      *)
(* commits.  Every action is one committed SQLite transaction, in any      *)
(* process that shares the state directory; which process commits what,    *)
(* and in which order, is the subject of TaskExecution.                    *)
(*                                                                         *)
(* A call that returns an error rolls back or matches no row, and a retry  *)
(* of a registered request only reads: such calls are stuttering steps.    *)
(* A rolled back INSERT also rolls the AUTOINCREMENT counter back, so the  *)
(* id of a task is its position in the sequence tasks.                     *)
(***************************************************************************)
EXTENDS Integers, Sequences

CONSTANTS
    SessionIds,     \* valid session identifiers
    Devices,        \* configured devices: target(device) returns a row
    RequestIds,     \* valid request identifiers
    Executions,     \* what a request asks for: command and shell together
    Refused,        \* executions the policy or the validation rejects
    Tokens,         \* control tokens
    ShortTokens,    \* control tokens of less than 32 bytes
    ExitCodes,      \* codes that finish_task is given
    None,           \* SQL NULL, or no row
    LeaseSeconds,   \* 30 in the code: age after which a lease has lapsed
    Monotone,       \* whether the wall clock is never set back
    MaxClock,       \* bound: the wall clock stays in 0 .. MaxClock
    MaxBoots        \* bound: the machine boots at most MaxBoots times

ASSUME JournalAssumption ==
    /\ Refused \subseteq Executions
    /\ ShortTokens \subseteq Tokens
    /\ None \notin Devices \cup Tokens \cup ExitCodes \cup Int
    /\ LeaseSeconds \in Nat
    /\ Monotone \in BOOLEAN
    /\ MaxClock \in Nat
    /\ MaxBoots \in Nat \ {0}

VARIABLES
    tasks,      \* rows of table tasks; the index is the task id
    sessions,   \* rows of table sessions by id, None where there is none
    clock,      \* unixepoch(), the wall clock in seconds
    boot        \* the boot identity of the running operating system

jvars == <<tasks, sessions, clock, boot>>

Clock == 0 .. MaxClock
Boots == 1 .. MaxBoots
TaskStates == {"accepted", "running", "unknown", "exited"}

TaskRow == [session     : SessionIds,
            request     : RequestIds,
            execution   : Executions,
            state       : TaskStates,
            lease_at    : Clock \cup {None},
            worker_boot : Boots \cup {None},
            exit_code   : ExitCodes \cup {None}]

SessionRow == [device          : Devices,
               user_controlled : BOOLEAN,
               control_token   : Tokens \cup {None},
               control_lease   : Clock \cup {None}]

-----------------------------------------------------------------------------
(* Operators whose comment begins with "Mutation" are wrong on purpose:     *)
(* each is what the next definition would be after a plausible mistake in  *)
(* the code, and serves to see that some property notices it.              *)

(* Mutation: lease_at<=unixepoch()-30. *)
LapsedEarly(lease) == lease <= clock - LeaseSeconds

Lapsed(lease) == lease < clock - LeaseSeconds

(* The state!='exited' tests of reserve_task_with_shell and take_session. *)
Active(i) == tasks[i].state # "exited"

(* Mutation: unknown tasks no longer count as work. *)
BusyIgnoringUnknown(s) ==
    \E i \in DOMAIN tasks :
      tasks[i].session = s /\ tasks[i].state \in {"accepted", "running"}

Busy(s) == \E i \in DOMAIN tasks : tasks[i].session = s /\ Active(i)

(* Mutation: only unfinished tasks are looked up. *)
RegisteredWhileActive(s, r) ==
    \E i \in DOMAIN tasks :
      tasks[i].session = s /\ tasks[i].request = r /\ Active(i)

(* The task registered for a request, by UNIQUE(session_id,request_id). *)
Registered(s, r) ==
    \E i \in DOMAIN tasks : tasks[i].session = s /\ tasks[i].request = r

Controlled(s) == sessions[s] # None /\ sessions[s].user_controlled

ControlLapsed(row) == row.user_controlled /\ Lapsed(row.control_lease)

(* Mutation: the token survives the end of control. *)
UncontrolledWithToken(row) == [row EXCEPT !.user_controlled = FALSE,
                                          !.control_lease = None]

Uncontrolled(row) == [row EXCEPT !.user_controlled = FALSE,
                                 !.control_token = None,
                                 !.control_lease = None]

(* Mutation: the lease is not looked at. *)
StaleByBootOnly(row) == row.state = "running" /\ row.worker_boot # boot

(* A running task whose worker cannot be told to be alive. *)
Stale(row) ==
    /\ row.state = "running"
    /\ \/ row.worker_boot = None
       \/ row.worker_boot # boot
       \/ row.lease_at = None
       \/ Lapsed(row.lease_at)

-----------------------------------------------------------------------------
Init ==
    /\ tasks = << >>
    /\ sessions = [s \in SessionIds |-> None]
    /\ clock \in Clock
    /\ boot = 1

(* Mutation: open no longer returns lapsed controls. *)
ExpireNothing == UNCHANGED jvars

(* ConnectionStore::open, first statement: return lapsed controls. *)
ExpireControls ==
    /\ sessions' = [s \in SessionIds |->
                      IF sessions[s] # None /\ ControlLapsed(sessions[s])
                        THEN Uncontrolled(sessions[s])
                        ELSE sessions[s]]
    /\ UNCHANGED <<tasks, clock, boot>>

(* Mutation: stale tasks are queued again. *)
SweepRequeues ==
    /\ tasks' = [i \in DOMAIN tasks |->
                   IF Stale(tasks[i])
                     THEN [tasks[i] EXCEPT !.state = "accepted"]
                     ELSE tasks[i]]
    /\ UNCHANGED <<sessions, clock, boot>>

(* Mutation: stale tasks are taken for ended. *)
SweepEnds ==
    /\ tasks' = [i \in DOMAIN tasks |->
                   IF Stale(tasks[i])
                     THEN [tasks[i] EXCEPT !.state = "exited"]
                     ELSE tasks[i]]
    /\ UNCHANGED <<sessions, clock, boot>>

(* ConnectionStore::open, second statement: give stale tasks up.  It is a  *)
(* transaction of its own: anything may commit between the two, and the    *)
(* opening process may die there.                                          *)
SweepStale ==
    /\ tasks' = [i \in DOMAIN tasks |->
                   IF Stale(tasks[i])
                     THEN [tasks[i] EXCEPT !.state = "unknown"]
                     ELSE tasks[i]]
    /\ UNCHANGED <<sessions, clock, boot>>

CreateSession(s, d) ==
    /\ sessions[s] = None
    /\ sessions' = [sessions EXCEPT ![s] = [device |-> d,
                                            user_controlled |-> FALSE,
                                            control_token |-> None,
                                            control_lease |-> None]]
    /\ UNCHANGED <<tasks, clock, boot>>

(* Mutation: take_session does not look at the tasks. *)
TakeBusySession(s, t) ==
    /\ t \notin ShortTokens
    /\ sessions[s] # None
    /\ ~Controlled(s)
    /\ sessions' = [sessions EXCEPT ![s].user_controlled = TRUE,
                                    ![s].control_token = t,
                                    ![s].control_lease = clock]
    /\ UNCHANGED <<tasks, clock, boot>>

TakeSession(s, t) ==
    /\ t \notin ShortTokens
    /\ sessions[s] # None
    /\ ~Controlled(s)
    /\ ~Busy(s)
    /\ sessions' = [sessions EXCEPT ![s].user_controlled = TRUE,
                                    ![s].control_token = t,
                                    ![s].control_lease = clock]
    /\ UNCHANGED <<tasks, clock, boot>>

(* Mutation: whoever calls releases. *)
ReleaseByAnyone(s, t) ==
    /\ Controlled(s)
    /\ sessions' = [sessions EXCEPT ![s] = Uncontrolled(@)]
    /\ UNCHANGED <<tasks, clock, boot>>

ReleaseSession(s, t) ==
    /\ sessions[s] # None
    /\ sessions[s].control_token = t
    /\ sessions' = [sessions EXCEPT ![s] = Uncontrolled(@)]
    /\ UNCHANGED <<tasks, clock, boot>>

(* Mutation: whoever calls renews. *)
RenewByAnyone(s, t) ==
    /\ Controlled(s)
    /\ sessions' = [sessions EXCEPT ![s].control_lease = clock]
    /\ UNCHANGED <<tasks, clock, boot>>

RenewSession(s, t) ==
    /\ sessions[s] # None
    /\ sessions[s].control_token = t
    /\ sessions[s].user_controlled
    /\ sessions' = [sessions EXCEPT ![s].control_lease = clock]
    /\ UNCHANGED <<tasks, clock, boot>>

(* The row that reserve_task_with_shell inserts. *)
Accepted(s, r, e) == [session     |-> s,
                      request     |-> r,
                      execution   |-> e,
                      state       |-> "accepted",
                      lease_at    |-> None,
                      worker_boot |-> None,
                      exit_code   |-> None]

(* Mutation: the reservation does not look at user_controlled. *)
ReserveDespiteControl(s, r, e) ==
    /\ e \notin Refused
    /\ ~Registered(s, r)
    /\ sessions[s] # None
    /\ ~Busy(s)
    /\ tasks' = Append(tasks, Accepted(s, r, e))
    /\ UNCHANGED <<sessions, clock, boot>>

(* reserve_task_with_shell, the path that inserts a row. *)
ReserveTask(s, r, e) ==
    /\ e \notin Refused
    /\ ~Registered(s, r)
    /\ sessions[s] # None
    /\ ~Controlled(s)
    /\ ~Busy(s)
    /\ tasks' = Append(tasks, Accepted(s, r, e))
    /\ UNCHANGED <<sessions, clock, boot>>

(* Mutation: a task that was given up may be claimed again. *)
ClaimGivenUp(i) ==
    /\ tasks[i].state \in {"accepted", "unknown"}
    /\ tasks' = [tasks EXCEPT ![i].state = "running",
                              ![i].lease_at = clock,
                              ![i].worker_boot = boot]
    /\ UNCHANGED <<sessions, clock, boot>>

ClaimTask(i) ==
    /\ tasks[i].state = "accepted"
    /\ tasks' = [tasks EXCEPT ![i].state = "running",
                              ![i].lease_at = clock,
                              ![i].worker_boot = boot]
    /\ UNCHANGED <<sessions, clock, boot>>

(* Mutation: the heartbeat stores when the next one is due. *)
HeartbeatStoresNext(i) ==
    /\ tasks[i].worker_boot = boot
    /\ tasks[i].state = "running"
    /\ tasks' = [tasks EXCEPT ![i].lease_at = clock + 1]
    /\ UNCHANGED <<sessions, clock, boot>>

Heartbeat(i) ==
    /\ tasks[i].worker_boot = boot
    /\ tasks[i].state = "running"
    /\ tasks' = [tasks EXCEPT ![i].lease_at = clock]
    /\ UNCHANGED <<sessions, clock, boot>>

(* Mutation: a report without a code ends the task as well. *)
FinishAlwaysExits(i, exit) ==
    /\ tasks[i].state \in {"running", "unknown"}
    /\ tasks' = [tasks EXCEPT ![i].state = "exited", ![i].exit_code = exit]
    /\ UNCHANGED <<sessions, clock, boot>>

(* Mutation: a late report does not change a task that was given up. *)
FinishUnlessGivenUp(i, exit) ==
    /\ tasks[i].state \in {"running", "unknown"}
    /\ tasks' = IF tasks[i].state = "unknown" THEN tasks ELSE
                  [tasks EXCEPT ![i].state = IF exit # None THEN "exited" ELSE "unknown",
                                ![i].exit_code = exit]
    /\ UNCHANGED <<sessions, clock, boot>>

(* finish_task: without a code the task stays, or becomes, unknown. *)
FinishTask(i, exit) ==
    /\ tasks[i].state \in {"running", "unknown"}
    /\ tasks' = [tasks EXCEPT
                   ![i].state = IF exit # None THEN "exited" ELSE "unknown",
                   ![i].exit_code = exit]
    /\ UNCHANGED <<sessions, clock, boot>>

(* Time passes or, unless Monotone, the wall clock is set back. *)
SetClock(at) ==
    /\ Monotone => at >= clock
    /\ clock' = at
    /\ UNCHANGED <<tasks, sessions, boot>>

Reboot ==
    /\ boot < MaxBoots
    /\ boot' = boot + 1
    /\ UNCHANGED <<tasks, sessions, clock>>

SessionStep ==
    \E s \in SessionIds :
      \/ \E d \in Devices : CreateSession(s, d)
      \/ \E t \in Tokens : \/ TakeSession(s, t)
                           \/ ReleaseSession(s, t)
                           \/ RenewSession(s, t)
      \/ \E r \in RequestIds, e \in Executions : ReserveTask(s, r, e)

TaskStep ==
    \E i \in DOMAIN tasks :
      \/ ClaimTask(i)
      \/ Heartbeat(i)
      \/ \E exit \in ExitCodes \cup {None} : FinishTask(i, exit)

Next ==
    \/ ExpireControls
    \/ SweepStale
    \/ SessionStep
    \/ TaskStep
    \/ \E at \in Clock : SetClock(at)
    \/ Reboot

JournalSpec == Init /\ [][Next]_jvars

-----------------------------------------------------------------------------
TypeOK ==
    /\ tasks \in Seq(TaskRow)
    /\ sessions \in [SessionIds -> SessionRow \cup {None}]
    /\ clock \in Clock
    /\ boot \in Boots

(* A session runs its requests one after another: when a request was       *)
(* accepted, every earlier one of the session had a recorded exit, however *)
(* submissions, claims, sweeps and late results interleave                 *)
(* (reserve_task_with_shell counts unknown as busy).                       *)
WorkIsSerial ==
    \A i, j \in DOMAIN tasks :
      i < j /\ tasks[i].session = tasks[j].session => ~Active(i)

(* While a user controls a session the agent has no work in it that runs   *)
(* or may be running: take_session and reserve_task_with_shell decide in   *)
(* immediate transactions, so neither can act on what the other changed.   *)
ControlExcludesWork ==
    \A s \in SessionIds : Controlled(s) => ~Busy(s)

(* A request id names one task of its session for good, so a retry cannot  *)
(* start the command again under a new task id.                            *)
RequestNamesOneTask ==
    \A i, j \in DOMAIN tasks :
      /\ tasks[i].session = tasks[j].session
      /\ tasks[i].request = tasks[j].request
      => i = j

(* What the columns of a task say together: only a claim stamps a boot, a  *)
(* claimed task keeps its stamp and has a lease, and a code is recorded    *)
(* exactly when the task exited.  The sweep's boot and lease tests, and    *)
(* the readers of exit_code, rely on it.                                   *)
RowsAgree ==
    \A i \in DOMAIN tasks :
      LET row == tasks[i] IN
      /\ row.state = "accepted" <=> row.worker_boot = None
      /\ row.worker_boot = None <=> row.lease_at = None
      /\ row.worker_boot # None => row.worker_boot <= boot
      /\ row.state = "exited" <=> row.exit_code # None

(* A controlled session has an owner who can release it and a lease that   *)
(* can lapse; an uncontrolled one accepts nobody's token (release_session  *)
(* tests the token alone).                                                 *)
ControlHasOwner ==
    \A s \in SessionIds :
      sessions[s] # None =>
        LET row == sessions[s] IN
        /\ row.user_controlled <=> row.control_token # None
        /\ row.user_controlled <=> row.control_lease # None
        /\ row.control_token \notin ShortTokens

(* "A claimed task is never automatically re-dispatched": no step takes a  *)
(* task back to accepted or gives it to another boot, an exit and its code *)
(* are final, and no task disappears or changes what it was asked to run.  *)
ClaimsAndExitsAreFinal ==
    [][/\ DOMAIN tasks \subseteq DOMAIN tasks'
       /\ \A i \in DOMAIN tasks :
            /\ tasks'[i].session = tasks[i].session
            /\ tasks'[i].request = tasks[i].request
            /\ tasks'[i].execution = tasks[i].execution
            /\ tasks[i].state # "accepted" =>
                 /\ tasks'[i].state # "accepted"
                 /\ tasks'[i].worker_boot = tasks[i].worker_boot
            /\ tasks[i].state = "exited" => tasks'[i] = tasks[i]]_jvars

=============================================================================
