---------------------------- MODULE TaskExecution ----------------------------
(***************************************************************************)
(* Execution of tasks by independent processes that share only the         *)
(* journal: "sanc exec" processes that reserve and launch (src/cli.rs),    *)
(* detached workers that claim, run ssh, heartbeat and report              *)
(* (src/worker.rs), the ssh client and the remote command.                 *)
(*                                                                         *)
(* Each process step commits at most one transaction of TaskJournal.  A    *)
(* process may die between any two steps, a worker's ssh survives it, and  *)
(* the remote command survives both.                                       *)
(***************************************************************************)
EXTENDS TaskJournal

CONSTANTS
    Submitters,   \* client processes: sanc exec, or the exec tool of sanc mcp
    Workers,      \* bound: worker processes that exist at one time
    RemoteCodes,  \* statuses a remote command may end with
    MaxTasks,     \* bound: tasks registered
    MaxFaults     \* bound: process deaths and failed calls

SshFailed == 255   \* the exit status of ssh when the transport fails

ASSUME ExecutionAssumption ==
    /\ RemoteCodes \subseteq Nat
    /\ RemoteCodes \ {SshFailed} \subseteq ExitCodes
    /\ SshFailed \notin ExitCodes
    /\ MaxTasks \in Nat
    /\ MaxFaults \in Nat

VARIABLES
    subs,        \* what each client process is doing
    workers,     \* what each worker process is doing
    outputs,     \* whether output files of a task exist
    dispatches,  \* number of ssh clients ever spawned for a task
    ssh,         \* the ssh client of a task
    remote,      \* the remote command of a task
    faults       \* faults so far

procs == <<subs, workers>>
world == <<outputs, dispatches, ssh, remote>>
vars == <<jvars, procs, world, faults>>

TaskIds == 1 .. MaxTasks

Idle == [pc |-> "idle", session |-> None, request |-> None,
         execution |-> None, task |-> None]

Launching(i) == [Idle EXCEPT !.pc = "launch", !.task = i]

Off == [pc |-> "off", task |-> None, exit |-> None]

NoSsh == [phase |-> "none", status |-> None]
NoRemote == [phase |-> "none", code |-> None]

(* Worker steps after the claim and up to the report. *)
Executing == {"spawn", "wait", "beat_open", "beat_sweep", "beat", "report"}

ExecInit ==
    /\ Init
    /\ subs = [c \in Submitters |-> Idle]
    /\ workers = [w \in Workers |-> Off]
    /\ outputs = [i \in TaskIds |-> FALSE]
    /\ dispatches = [i \in TaskIds |-> 0]
    /\ ssh = [i \in TaskIds |-> NoSsh]
    /\ remote = [i \in TaskIds |-> NoRemote]
    /\ faults = 0

Fault == faults < MaxFaults /\ faults' = faults + 1

-----------------------------------------------------------------------------
(* Commands::Exec of cli.rs: open the store (two statements), reserve, and *)
(* launch a worker if the row that reserve_task returned was accepted.     *)

Sub(c, pc) == subs' = [subs EXCEPT ![c].pc = pc]

SubmitStart(c, s, r, e) ==
    /\ subs[c].pc = "idle"
    /\ subs' = [subs EXCEPT ![c] = [pc |-> "open", session |-> s, request |-> r,
                                    execution |-> e, task |-> None]]
    /\ UNCHANGED <<jvars, workers, world, faults>>

SubmitOpen(c) ==
    /\ subs[c].pc = "open"
    /\ ExpireControls
    /\ Sub(c, "sweep")
    /\ UNCHANGED <<workers, world, faults>>

SubmitSweep(c) ==
    /\ subs[c].pc = "sweep"
    /\ SweepStale
    /\ Sub(c, "reserve")
    /\ UNCHANGED <<workers, world, faults>>

SubmitReserve(c) ==
    /\ subs[c].pc = "reserve"
    /\ Len(tasks) < MaxTasks
    /\ ReserveTask(subs[c].session, subs[c].request, subs[c].execution)
    /\ subs' = [subs EXCEPT ![c] = Launching(Len(tasks) + 1)]
    /\ UNCHANGED <<workers, world, faults>>

(* The row of the same request with the same parameters. *)
Matches(i, c) ==
    /\ tasks[i].session = subs[c].session
    /\ tasks[i].request = subs[c].request
    /\ tasks[i].execution = subs[c].execution

(* Mutation: a retry only reads. *)
SubmitRetryOnlyReads(c) ==
    /\ subs[c].pc = "reserve"
    /\ \E i \in DOMAIN tasks : Matches(i, c)
    /\ subs' = [subs EXCEPT ![c] = Idle]
    /\ UNCHANGED <<jvars, workers, world, faults>>

SubmitRetry(c) ==
    /\ subs[c].pc = "reserve"
    /\ subs[c].execution \notin Refused
    /\ \E i \in DOMAIN tasks :
         /\ Matches(i, c)
         /\ \/ /\ tasks[i].state = "accepted"
               /\ subs' = [subs EXCEPT ![c] = Launching(i)]
            \/ /\ tasks[i].state # "accepted"
               /\ subs' = [subs EXCEPT ![c] = Idle]
    /\ UNCHANGED <<jvars, workers, world, faults>>

(* approval_required, invalid_request, request_conflict, session_not_found, *)
(* user_controlled or session_busy.                                         *)
SubmitRejected(c) ==
    /\ subs[c].pc = "reserve"
    /\ \/ subs[c].execution \in Refused
       \/ /\ Registered(subs[c].session, subs[c].request)
          /\ ~\E i \in DOMAIN tasks : Matches(i, c)
       \/ /\ ~Registered(subs[c].session, subs[c].request)
          /\ \/ sessions[subs[c].session] = None
             \/ Controlled(subs[c].session)
             \/ Busy(subs[c].session)
    /\ subs' = [subs EXCEPT ![c] = Idle]
    /\ UNCHANGED <<jvars, workers, world, faults>>

SubmitLaunch(c, w) ==
    /\ subs[c].pc = "launch"
    /\ workers[w].pc = "off"
    /\ workers' = [workers EXCEPT ![w] = [pc |-> "open", task |-> subs[c].task,
                                          exit |-> None]]
    /\ subs' = [subs EXCEPT ![c] = Idle]
    /\ UNCHANGED <<jvars, world, faults>>

(* The process dies, its database call fails, or the worker cannot spawn. *)
SubmitFails(c) ==
    /\ subs[c].pc # "idle"
    /\ Fault
    /\ subs' = [subs EXCEPT ![c] = Idle]
    /\ UNCHANGED <<jvars, workers, world>>

-----------------------------------------------------------------------------
(* worker::execute: open the store, claim, execute_claimed, report.         *)

At(w, from) == workers[w].pc = from

Go(w, pc) == workers' = [workers EXCEPT ![w].pc = pc]

WorkerOpen(w) ==
    /\ \/ At(w, "open") /\ Go(w, "sweep")
       \/ At(w, "beat_open") /\ Go(w, "beat_sweep")
    /\ ExpireControls
    /\ UNCHANGED <<subs, world, faults>>

WorkerSweep(w) ==
    /\ \/ At(w, "sweep") /\ Go(w, "claim")
       \/ At(w, "beat_sweep") /\ Go(w, "beat")
    /\ SweepStale
    /\ UNCHANGED <<subs, world, faults>>

WorkerClaim(w) ==
    /\ At(w, "claim")
    /\ ClaimTask(workers[w].task)
    /\ Go(w, "spawn")
    /\ UNCHANGED <<subs, world, faults>>

(* claim_task returned false: another worker has, or had, the task. *)
WorkerYields(w) ==
    /\ At(w, "claim")
    /\ tasks[workers[w].task].state # "accepted"
    /\ workers' = [workers EXCEPT ![w] = Off]
    /\ UNCHANGED <<jvars, subs, world, faults>>

(* create_new: output files of the same task are never opened again. *)
WorkerSpawn(w) ==
    /\ At(w, "spawn")
    /\ LET i == workers[w].task IN
         /\ ~outputs[i]
         /\ outputs' = [outputs EXCEPT ![i] = TRUE]
         /\ dispatches' = [dispatches EXCEPT ![i] = @ + 1]
         /\ ssh' = [ssh EXCEPT ![i] = [phase |-> "up", status |-> None]]
    /\ Go(w, "wait")
    /\ UNCHANGED <<jvars, subs, remote, faults>>

(* An output file or ssh cannot be created: execute reports no exit. *)
WorkerSpawnFails(w) ==
    /\ At(w, "spawn")
    /\ LET i == workers[w].task IN
         \/ outputs[i] /\ UNCHANGED <<outputs, faults>>
         \/ /\ Fault
            /\ outputs' = [outputs EXCEPT ![i] = TRUE] \/ UNCHANGED outputs
    /\ Go(w, "report")
    /\ UNCHANGED <<jvars, subs, dispatches, ssh, remote>>

(* try_wait found ssh running: this second's heartbeat is due. *)
WorkerWaits(w) ==
    /\ At(w, "wait")
    /\ ssh[workers[w].task].phase = "up"
    /\ Go(w, "beat_open")
    /\ UNCHANGED <<jvars, subs, world, faults>>

(* heartbeat updates no row when the task was given up meanwhile. *)
WorkerBeats(w) ==
    /\ At(w, "beat")
    /\ \/ Heartbeat(workers[w].task)
       \/ /\ \/ tasks[workers[w].task].state # "running"
             \/ tasks[workers[w].task].worker_boot # boot
          /\ UNCHANGED jvars
    /\ Go(w, "wait")
    /\ UNCHANGED <<subs, world, faults>>

(* The result of a failed heartbeat is dropped. *)
WorkerBeatFails(w) ==
    /\ workers[w].pc \in {"beat_open", "beat_sweep", "beat"}
    /\ Fault
    /\ Go(w, "wait")
    /\ UNCHANGED <<jvars, subs, world>>

(* Mutation: 255 is passed on as an exit. *)
ExitOfTransport(status) == status

(* The exit that execute passes to finish_task: Some(code) if code != 255. *)
Exit(status) == IF status = SshFailed THEN None ELSE status

(* Mutation: ssh is started again when the transport failed. *)
WorkerReconnects(w) ==
    /\ At(w, "wait")
    /\ LET i == workers[w].task IN
         /\ ssh[i].status = SshFailed
         /\ dispatches' = [dispatches EXCEPT ![i] = @ + 1]
         /\ ssh' = [ssh EXCEPT ![i] = [phase |-> "up", status |-> None]]
    /\ UNCHANGED <<jvars, procs, outputs, remote, faults>>

WorkerReaps(w) ==
    /\ At(w, "wait")
    /\ ssh[workers[w].task].phase = "ended"
    /\ workers' = [workers EXCEPT ![w].pc = "report",
                                  ![w].exit = Exit(ssh[workers[w].task].status)]
    /\ UNCHANGED <<jvars, subs, world, faults>>

(* Waiting for ssh or storing its output failed: no exit either. *)
WorkerCaptureFails(w) ==
    /\ At(w, "wait")
    /\ ssh[workers[w].task].phase = "ended"
    /\ Fault
    /\ Go(w, "report")
    /\ UNCHANGED <<jvars, subs, world>>

WorkerReports(w) ==
    /\ At(w, "report")
    /\ FinishTask(workers[w].task, workers[w].exit)
    /\ workers' = [workers EXCEPT ![w] = Off]
    /\ UNCHANGED <<subs, world, faults>>

(* The process dies, or a call fails whose error ends execute. *)
WorkerDies(w) ==
    /\ ~At(w, "off")
    /\ Fault
    /\ workers' = [workers EXCEPT ![w] = Off]
    /\ UNCHANGED <<jvars, subs, world>>

-----------------------------------------------------------------------------
(* The ssh client and the remote command (not under src/).                 *)

(* The execution request reaches the host, perhaps late: ssh may be gone.  *)
RemoteStart(i) ==
    /\ dispatches[i] > 0
    /\ remote[i].phase = "none"
    /\ ssh[i].status \in {None, SshFailed}
    /\ remote' = [remote EXCEPT ![i].phase = "running"]
    /\ UNCHANGED <<jvars, procs, outputs, dispatches, ssh, faults>>

RemoteExit(i, code) ==
    /\ remote[i].phase = "running"
    /\ remote' = [remote EXCEPT ![i] = [phase |-> "done", code |-> code]]
    /\ UNCHANGED <<jvars, procs, outputs, dispatches, ssh, faults>>

SshEnds(i, status) ==
    /\ ssh[i].phase = "up"
    /\ ssh' = [ssh EXCEPT ![i] = [phase |-> "ended", status |-> status]]
    /\ UNCHANGED <<jvars, procs, outputs, dispatches, remote, faults>>

SshReturns(i) ==
    /\ remote[i].phase = "done"
    /\ SshEnds(i, remote[i].code)

(* The transport fails, before, while or after the command runs. *)
SshFails(i) == SshEnds(i, SshFailed)

(* ssh is killed by a signal: ExitStatus::code() is None. *)
SshKilled(i) == SshEnds(i, None)

-----------------------------------------------------------------------------
(* Other processes on the same state directory, and the machine.           *)

(* Readers (sanc task, output, session list, ...) only open the store.  At *)
(* any time some reader may be past its first statement, so the two are    *)
(* independent steps.                                                      *)
ReaderOpens ==
    /\ ExpireControls \/ SweepStale
    /\ UNCHANGED <<procs, world, faults>>

SessionCall(s) ==
    /\ \/ \E d \in Devices : CreateSession(s, d)
       \/ \E t \in Tokens : \/ TakeSession(s, t)
                            \/ ReleaseSession(s, t)
                            \/ RenewSession(s, t)
    /\ UNCHANGED <<procs, world, faults>>

ClockMoves ==
    /\ \E at \in Clock : SetClock(at)
    /\ UNCHANGED <<procs, world, faults>>

MachineReboots ==
    /\ Reboot
    /\ subs' = [c \in Submitters |-> Idle]
    /\ workers' = [w \in Workers |-> Off]
    /\ ssh' = [i \in TaskIds |-> IF ssh[i].phase = "up"
                                   THEN [phase |-> "ended", status |-> None]
                                   ELSE ssh[i]]
    /\ UNCHANGED <<outputs, dispatches, remote, faults>>

SubmitProgress(c) ==
    \/ SubmitOpen(c)
    \/ SubmitSweep(c)
    \/ SubmitReserve(c)
    \/ SubmitRetry(c)
    \/ SubmitRejected(c)
    \/ \E w \in Workers : SubmitLaunch(c, w)

SubmitterStep(c) ==
    \/ \E s \in SessionIds, r \in RequestIds, e \in Executions :
         SubmitStart(c, s, r, e)
    \/ SubmitProgress(c)
    \/ SubmitFails(c)

WorkerProgress(w) ==
    \/ WorkerOpen(w)
    \/ WorkerSweep(w)
    \/ WorkerClaim(w)
    \/ WorkerYields(w)
    \/ WorkerSpawn(w)
    \/ WorkerWaits(w)
    \/ WorkerBeats(w)
    \/ WorkerReaps(w)
    \/ WorkerReports(w)

WorkerFault(w) ==
    \/ WorkerSpawnFails(w)
    \/ WorkerBeatFails(w)
    \/ WorkerCaptureFails(w)
    \/ WorkerDies(w)

SshStep(i) ==
    \/ RemoteStart(i)
    \/ \E code \in RemoteCodes : RemoteExit(i, code)
    \/ SshReturns(i)
    \/ SshFails(i)
    \/ SshKilled(i)

ExecNext ==
    \/ \E c \in Submitters : SubmitterStep(c)
    \/ \E w \in Workers : WorkerProgress(w) \/ WorkerFault(w)
    \/ \E i \in TaskIds : SshStep(i)
    \/ ReaderOpens
    \/ \E s \in SessionIds : SessionCall(s)
    \/ ClockMoves
    \/ MachineReboots

ExecSpec == ExecInit /\ [][ExecNext]_vars

(* A live process is scheduled, time passes, a client keeps polling its    *)
(* task (any command opens the store), and a client repeats a request as   *)
(* long as it wants it.  Nothing is assumed of ssh or of the remote host:  *)
(* execution has no timeout.                                               *)
ExecFairness ==
    /\ \A c \in Submitters : WF_vars(SubmitProgress(c))
    /\ \A w \in Workers : WF_vars(WorkerProgress(w))
    /\ WF_vars(ClockMoves)
    /\ WF_vars(ReaderOpens)
    /\ \A c \in Submitters, s \in SessionIds, r \in RequestIds, e \in Executions :
         SF_vars(SubmitStart(c, s, r, e))

FairSpec == ExecSpec /\ ExecFairness

-----------------------------------------------------------------------------
(* Types of the processes and of the world outside the journal. *)
ExecTypeOK ==
    /\ subs \in [Submitters ->
         [pc        : {"idle", "open", "sweep", "reserve", "launch"},
          session   : SessionIds \cup {None},
          request   : RequestIds \cup {None},
          execution : Executions \cup {None},
          task      : TaskIds \cup {None}]]
    /\ workers \in [Workers ->
         [pc   : {"off", "open", "sweep", "claim"} \cup Executing,
          task : TaskIds \cup {None},
          exit : ExitCodes \cup {None}]]
    /\ outputs \in [TaskIds -> BOOLEAN]
    /\ dispatches \in [TaskIds -> Nat]
    /\ ssh \in [TaskIds -> [phase  : {"none", "up", "ended"},
                            status : RemoteCodes \cup {SshFailed, None}]]
    /\ remote \in [TaskIds -> [phase : {"none", "running", "done"},
                               code  : RemoteCodes \cup {None}]]
    /\ faults \in 0 .. MaxFaults

(* A task is dispatched at most once, although every retry of an accepted  *)
(* request launches another worker, and whichever of them die: the claim   *)
(* decides, and is never given back ("A claimed task is never              *)
(* automatically re-dispatched").                                          *)
DispatchedAtMostOnce == \A i \in TaskIds : dispatches[i] <= 1

(* A recorded exit is what the remote command ended with: not the status   *)
(* of a failed transport, of a killed ssh, or of a worker that lost sight  *)
(* of the command ("an unconfirmed exit must not become an exit code").    *)
ExitsAreTrue ==
    \A i \in DOMAIN tasks :
      tasks[i].state = "exited" =>
        remote[i] = [phase |-> "done", code |-> tasks[i].exit_code]

(* Two commands of a session never run on its device at one time, even     *)
(* after the worker, ssh or the machine that started one is gone.          *)
RemoteWorkIsSerial ==
    \A i, j \in DOMAIN tasks :
      /\ tasks[i].session = tasks[j].session
      /\ remote[i].phase = "running"
      /\ remote[j].phase = "running"
      => i = j

(* While the user controls a session no command of it runs, no ssh of it   *)
(* is up and no worker is about to start one.                              *)
ControlMeansQuiet ==
    \A i \in DOMAIN tasks :
      Controlled(tasks[i].session) =>
        /\ remote[i].phase # "running"
        /\ ssh[i].phase # "up"
        /\ \A w \in Workers :
             workers[w].task = i => workers[w].pc \notin Executing

(* A worker that passed its claim is the only one of its task, and the     *)
(* task still expects its report: finish_task never answers                *)
(* invalid_task_transition, whatever sweeps gave the task up meanwhile.    *)
ExecutorHoldsClaim ==
    \A w \in Workers :
      workers[w].pc \in Executing =>
        /\ workers[w].task \in DOMAIN tasks
        /\ tasks[workers[w].task].state \in {"running", "unknown"}
        /\ tasks[workers[w].task].worker_boot = boot
        /\ \A v \in Workers \ {w} :
             workers[v].pc \in Executing => workers[v].task # workers[w].task

Is(i, state) == i \in DOMAIN tasks /\ tasks[i].state = state

(* The clock of the model can no longer outgrow the lease of this task. *)
AtClockBound(i) == tasks[i].lease_at >= MaxClock - LeaseSeconds

(* Work whose worker is gone, or whose ssh ended, does not stay "running": *)
(* the worker's report or a sweep ends it, wherever workers die.  The      *)
(* second disjunct is where the clock of the model stops.                  *)
EndedWorkLeavesRunning ==
    \A i \in TaskIds :
      (/\ Is(i, "running")
       /\ \/ ssh[i].phase = "ended"
          \/ \A w \in Workers :
               workers[w].task = i => workers[w].pc \notin Executing)
      ~> (~Is(i, "running") \/ AtClockBound(i))

(* An accepted task does not stay accepted although the process that       *)
(* reserved it, or workers launched for it, die: the client's retry of the *)
(* same request launches it again.                                         *)
AcceptedWorkIsClaimed ==
    \A i \in TaskIds : Is(i, "accepted") ~> ~Is(i, "accepted")

(* Only a death, a failed call or a restart loses an exit that ssh         *)
(* returned.  Sweeps, clocks that are set, retries and second workers do   *)
(* not: until the exit is recorded its worker has yet to report it, and    *)
(* the report counts also for a task that was given up meanwhile.          *)
ReturnedExitsAreKept ==
    faults = 0 /\ boot = 1 =>
      \A i \in TaskIds :
        ssh[i].status \notin {None, SshFailed} =>
          \/ Is(i, "exited") /\ tasks[i].exit_code = ssh[i].status
          \/ \E w \in Workers : workers[w].task = i /\ workers[w].pc \in Executing

=============================================================================
