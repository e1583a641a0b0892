------------------------- MODULE TaskExecutionProofs -------------------------
(***************************************************************************)
(* Proofs about TaskExecution for any number of sessions, clients, workers *)
(* and tasks, any faults and any clock: the processes use the journal as   *)
(* TaskJournal says, every task is dispatched at most once, what is        *)
(* recorded is true, and work and control of a session exclude each other  *)
(* on the device itself.                                                   *)
(***************************************************************************)
EXTENDS TaskExecution, TaskJournalProofs

SubRow == [pc        : {"idle", "open", "sweep", "reserve", "launch"},
           session   : SessionIds \cup {None},
           request   : RequestIds \cup {None},
           execution : Executions \cup {None},
           task      : TaskIds \cup {None}]

WorkerRow == [pc   : {"off", "open", "sweep", "claim"} \cup Executing,
              task : TaskIds \cup {None},
              exit : ExitCodes \cup {None}]

SshRow == [phase  : {"none", "up", "ended"},
           status : RemoteCodes \cup {SshFailed, None}]

RemoteRow == [phase : {"none", "running", "done"},
              code  : RemoteCodes \cup {None}]

(* A client that will reserve knows what, one that launches has a task. *)
SubKnows(sub) ==
    /\ sub.pc \in {"open", "sweep", "reserve"} =>
         /\ sub.session \in SessionIds
         /\ sub.request \in RequestIds
         /\ sub.execution \in Executions
    /\ sub.pc = "launch" => sub.task \in DOMAIN tasks

Finished(i, code) ==
    /\ ssh[i].phase = "ended"
    /\ remote[i] = [phase |-> "done", code |-> code]

(* A worker works for a task of the journal, and the exit it is about to   *)
(* report is the one of the remote command.                                *)
WorkerKnows(worker) ==
    /\ worker.pc # "off" => worker.task \in DOMAIN tasks
    /\ worker.exit # None =>
         worker.pc = "report" /\ Finished(worker.task, worker.exit)

ProcInv ==
    /\ subs \in [Submitters -> SubRow]
    /\ workers \in [Workers -> WorkerRow]
    /\ \A c \in Submitters : SubKnows(subs[c])
    /\ \A w \in Workers : WorkerKnows(workers[w])

(* ssh is spawned after the output files were created, once; a status that *)
(* is not its own comes from the remote command.                           *)
WorldInv ==
    /\ outputs \in [TaskIds -> BOOLEAN]
    /\ dispatches \in [TaskIds -> {0, 1}]
    /\ ssh \in [TaskIds -> SshRow]
    /\ remote \in [TaskIds -> RemoteRow]
    /\ \A i \in TaskIds :
         /\ ~outputs[i] => dispatches[i] = 0 /\ ssh[i].phase = "none"
         /\ ssh[i].status \notin {None, SshFailed} => Finished(i, ssh[i].status)

(* The exit of a task is recorded after its command and its ssh ended. *)
ExitsAreFinished ==
    \A i \in DOMAIN tasks :
      tasks[i].state = "exited" => Finished(i, tasks[i].exit_code)

IInv ==
    /\ WorkInv
    /\ DOMAIN tasks \subseteq TaskIds
    /\ ProcInv
    /\ WorldInv
    /\ ExitsAreFinished
    /\ ExecutorHoldsClaim

-----------------------------------------------------------------------------
(* The world outside the journal: what ended stays as it ended.            *)

WorldFrame ==
    \A i \in TaskIds :
      /\ ssh[i].phase = "ended" => ssh'[i] = ssh[i]
      /\ remote[i].phase = "done" => remote'[i] = remote[i]

LEMMA SpawnWorld ==
    ASSUME WorldInv, NEW w \in Workers, WorkerSpawn(w) \/ WorkerSpawnFails(w)
    PROVE  WorldInv' /\ WorldFrame
<1>1. PICK i : i = workers[w].task
  OBVIOUS
<1>2. CASE WorkerSpawn(w)
  <2>1. /\ ~outputs[i]
        /\ outputs' = [outputs EXCEPT ![i] = TRUE]
        /\ dispatches' = [dispatches EXCEPT ![i] = dispatches[i] + 1]
        /\ ssh' = [ssh EXCEPT ![i] = [phase |-> "up", status |-> None]]
        /\ remote' = remote
    BY <1>1, <1>2 DEF WorkerSpawn
  <2>2. [phase |-> "up", status |-> None] \in SshRow
    BY DEF SshRow
  <2>3. dispatches' \in [TaskIds -> {0, 1}]
    <3>1. i \in TaskIds => dispatches[i] + 1 = 1
      BY <2>1 DEF WorldInv
    <3>2. \A j \in TaskIds : dispatches'[j] = IF j = i THEN 1 ELSE dispatches[j]
      BY <2>1, <3>1 DEF WorldInv
    <3>3. dispatches' = [j \in TaskIds |-> dispatches'[j]]
      BY <2>1 DEF WorldInv
    <3> QED
      BY <3>2, <3>3 DEF WorldInv
  <2> QED
    BY <2>1, <2>2, <2>3 DEF WorldInv, WorldFrame, Finished
<1>3. CASE WorkerSpawnFails(w)
  <2>1. /\ outputs' = [outputs EXCEPT ![i] = TRUE] \/ outputs' = outputs
        /\ UNCHANGED <<dispatches, ssh, remote>>
    BY <1>1, <1>3 DEF WorkerSpawnFails
  <2> QED
    BY <2>1 DEF WorldInv, WorldFrame, Finished
<1> QED
  BY <1>2, <1>3

LEMMA RemoteWorld ==
    ASSUME WorldInv, NEW i \in TaskIds,
           RemoteStart(i) \/ \E code \in RemoteCodes : RemoteExit(i, code)
    PROVE  WorldInv' /\ WorldFrame
<1>1. remote[i] \in RemoteRow /\ remote[i].phase # "done"
  BY DEF WorldInv, RemoteStart, RemoteExit
<1>2. PICK row \in RemoteRow : remote' = [remote EXCEPT ![i] = row]
  <2>1. CASE RemoteStart(i)
    <3>1. remote' = [remote EXCEPT ![i] = [remote[i] EXCEPT !.phase = "running"]]
      BY <2>1 DEF RemoteStart
    <3>2. [remote[i] EXCEPT !.phase = "running"] \in RemoteRow
      BY <1>1 DEF RemoteRow
    <3> QED
      BY <3>1, <3>2
  <2>2. ASSUME NEW code \in RemoteCodes, RemoteExit(i, code)
        PROVE  \E row \in RemoteRow : remote' = [remote EXCEPT ![i] = row]
    <3>1. [phase |-> "done", code |-> code] \in RemoteRow
      BY DEF RemoteRow
    <3> QED
      BY <2>2, <3>1 DEF RemoteExit
  <2> QED
    BY <2>1, <2>2
<1>3. UNCHANGED <<outputs, dispatches, ssh>>
  BY DEF RemoteStart, RemoteExit
<1>4. \A j \in TaskIds : remote[j].phase = "done" => remote'[j] = remote[j]
  BY <1>1, <1>2 DEF WorldInv
<1>5. \A j \in TaskIds : \A code : Finished(j, code) => Finished(j, code)'
  BY <1>3, <1>4 DEF Finished
<1> QED
  BY <1>2, <1>3, <1>4, <1>5 DEF WorldInv, WorldFrame

LEMMA SshWorld ==
    ASSUME WorldInv, NEW i \in TaskIds, SshReturns(i) \/ SshFails(i) \/ SshKilled(i)
    PROVE  WorldInv' /\ WorldFrame
<1>1. PICK status : /\ SshEnds(i, status)
                    /\ status \in RemoteCodes \cup {SshFailed, None}
                    /\ status \notin {None, SshFailed} =>
                         remote[i] = [phase |-> "done", code |-> status]
  <2>1. CASE SshReturns(i)
    <3>1. remote[i] \in RemoteRow /\ remote[i].phase = "done"
      BY <2>1 DEF WorldInv, SshReturns
    <3>2. remote[i] = [phase |-> "done", code |-> remote[i].code]
      BY <3>1 DEF RemoteRow
    <3> QED
      BY <2>1, <3>1, <3>2 DEF SshReturns, RemoteRow
  <2>2. CASE SshFails(i) \/ SshKilled(i)
    BY <2>2 DEF SshFails, SshKilled
  <2> QED
    BY <2>1, <2>2
<1>2. /\ ssh[i].phase = "up"
      /\ ssh' = [ssh EXCEPT ![i] = [phase |-> "ended", status |-> status]]
      /\ UNCHANGED <<outputs, dispatches, remote>>
  BY <1>1 DEF SshEnds
<1>3. [phase |-> "ended", status |-> status] \in SshRow
  BY <1>1 DEF SshRow
<1>4. \A j \in TaskIds \ {i} : ssh'[j] = ssh[j]
  BY <1>2 DEF WorldInv
<1>5. ssh'[i].phase = "ended" /\ ssh'[i].status = status
  BY <1>2 DEF WorldInv
<1>6. \A j \in TaskIds :
        ssh'[j].status \notin {None, SshFailed} => Finished(j, ssh[j].status)'
  BY <1>1, <1>2, <1>4, <1>5 DEF WorldInv, Finished
<1>7. WorldFrame
  BY <1>2, <1>4 DEF WorldFrame
<1>8. \A j \in TaskIds : ~outputs'[j] => dispatches'[j] = 0 /\ ssh'[j].phase = "none"
  BY <1>2, <1>4 DEF WorldInv
<1> QED
  BY <1>2, <1>3, <1>6, <1>7, <1>8 DEF WorldInv

LEMMA RebootWorld ==
    ASSUME WorldInv, MachineReboots
    PROVE  WorldInv' /\ WorldFrame
<1>1. /\ UNCHANGED <<outputs, dispatches, remote>>
      /\ ssh' = [i \in TaskIds |-> IF ssh[i].phase = "up"
                                     THEN [phase |-> "ended", status |-> None]
                                     ELSE ssh[i]]
  BY DEF MachineReboots
<1>2. [phase |-> "ended", status |-> None] \in SshRow
  BY DEF SshRow
<1>3. ssh' \in [TaskIds -> SshRow]
  BY <1>1, <1>2 DEF WorldInv
<1> QED
  BY <1>1, <1>3 DEF WorldInv, WorldFrame, Finished

(* Every other step leaves the world alone. *)
LEMMA StepWorld ==
    ASSUME WorldInv, [ExecNext]_vars
    PROVE  WorldInv' /\ WorldFrame
<1>1. CASE UNCHANGED world
  BY <1>1 DEF world, WorldInv, WorldFrame, Finished
<1>2. ASSUME NEW c \in Submitters, SubmitterStep(c)
      PROVE  UNCHANGED world
  BY <1>2 DEF SubmitterStep, SubmitProgress, SubmitStart, SubmitOpen, SubmitSweep,
     SubmitReserve, SubmitRetry, SubmitRejected, SubmitLaunch, SubmitFails
<1>3. ASSUME NEW w \in Workers, WorkerProgress(w) \/ WorkerFault(w),
             ~WorkerSpawn(w), ~WorkerSpawnFails(w)
      PROVE  UNCHANGED world
  BY <1>3 DEF WorkerProgress, WorkerFault, WorkerOpen, WorkerSweep, WorkerClaim,
     WorkerYields, WorkerWaits, WorkerBeats, WorkerReaps, WorkerReports,
     WorkerBeatFails, WorkerCaptureFails, WorkerDies
<1>4. CASE ReaderOpens \/ ClockMoves \/ \E s \in SessionIds : SessionCall(s)
  BY <1>1, <1>4 DEF ReaderOpens, ClockMoves, SessionCall
<1>5. ASSUME NEW i \in TaskIds, SshStep(i)
      PROVE  WorldInv' /\ WorldFrame
  BY <1>5, RemoteWorld, SshWorld DEF SshStep
<1>6. CASE UNCHANGED vars
  BY <1>1, <1>6 DEF vars, world
<1> QED
  BY <1>1, <1>2, <1>3, <1>4, <1>5, <1>6, SpawnWorld, RebootWorld DEF ExecNext

-----------------------------------------------------------------------------
(* The transactions.  All but a worker's report leave a task that was      *)
(* dispatched, and one that is exited, where it is.                        *)

TaskMove == \E i \in DOMAIN tasks : ClaimTask(i) \/ Heartbeat(i)

MachineMove == (\E at \in Clock : SetClock(at)) \/ MachineReboots

JournalMove ==
    \/ SessionsOnly
    \/ Reserves /\ Len(tasks) < MaxTasks
    \/ SweepStale
    \/ TaskMove
    \/ MachineMove
    \/ UNCHANGED jvars

Dispatched == {"running", "unknown"}

TaskFrame ==
    /\ DOMAIN tasks \subseteq DOMAIN tasks'
    /\ \A i \in DOMAIN tasks :
         tasks[i].state \in Dispatched =>
           /\ tasks'[i].state \in Dispatched
           /\ tasks'[i].worker_boot = tasks[i].worker_boot
    /\ \A i \in DOMAIN tasks' :
         tasks'[i].state = "exited" => i \in DOMAIN tasks /\ tasks'[i] = tasks[i]

(* The report of one worker. *)
Report(w) ==
    /\ workers[w].pc = "report"
    /\ FinishTask(workers[w].task, workers[w].exit)
    /\ workers' = [workers EXCEPT ![w] = Off]

LEMMA StepMoves ==
    ASSUME IInv, [ExecNext]_vars
    PROVE  JournalMove \/ \E w \in Workers : Report(w)
<1>1. ProcInv
  BY DEF IInv
<1>2. ASSUME UNCHANGED jvars
      PROVE  JournalMove
  BY <1>2 DEF JournalMove
<1>3. ASSUME NEW c \in Submitters, SubmitterStep(c)
      PROVE  JournalMove
  <2>1. CASE SubmitReserve(c)
    <3>1. SubKnows(subs[c])
      BY <1>1 DEF ProcInv
    <3> QED
      BY <2>1, <3>1 DEF SubmitReserve, SubKnows, JournalMove, Reserves
  <2>2. CASE SubmitOpen(c) \/ SubmitSweep(c)
    BY <2>2 DEF SubmitOpen, SubmitSweep, JournalMove, SessionsOnly
  <2>3. ASSUME ~SubmitReserve(c), ~SubmitOpen(c), ~SubmitSweep(c)
        PROVE  UNCHANGED jvars
    BY <1>3, <2>3 DEF SubmitterStep, SubmitProgress, SubmitStart,
       SubmitRetry, SubmitRejected, SubmitLaunch, SubmitFails
  <2> QED
    BY <1>2, <2>1, <2>2, <2>3
<1>4. ASSUME NEW w \in Workers, WorkerProgress(w) \/ WorkerFault(w), ~Report(w)
      PROVE  JournalMove
  <2>1. CASE WorkerClaim(w) \/ WorkerBeats(w)
    <3>1. workers[w].task \in DOMAIN tasks
      BY <1>1, <2>1 DEF WorkerClaim, WorkerBeats, At, ProcInv, WorkerKnows
    <3>2. \/ ClaimTask(workers[w].task)
          \/ Heartbeat(workers[w].task)
          \/ UNCHANGED jvars
      BY <2>1 DEF WorkerClaim, WorkerBeats
    <3> QED
      BY <1>2, <3>1, <3>2 DEF JournalMove, TaskMove
  <2>2. CASE WorkerOpen(w) \/ WorkerSweep(w)
    BY <2>2 DEF WorkerOpen, WorkerSweep, JournalMove, SessionsOnly
  <2>3. ~WorkerReports(w)
    BY <1>4 DEF WorkerReports, Report, At
  <2>4. ASSUME ~WorkerClaim(w), ~WorkerBeats(w), ~WorkerOpen(w), ~WorkerSweep(w)
        PROVE  UNCHANGED jvars
    BY <1>4, <2>3, <2>4 DEF WorkerProgress, WorkerFault, WorkerYields,
       WorkerSpawn, WorkerWaits, WorkerReaps, WorkerSpawnFails, WorkerBeatFails,
       WorkerCaptureFails, WorkerDies
  <2> QED
    BY <1>2, <2>1, <2>2, <2>4
<1>5. ASSUME NEW i \in TaskIds, SshStep(i)
      PROVE  JournalMove
  BY <1>2, <1>5 DEF SshStep, RemoteStart, RemoteExit, SshReturns, SshFails,
     SshKilled, SshEnds
<1>6. CASE ReaderOpens
  BY <1>6 DEF ReaderOpens, JournalMove, SessionsOnly
<1>7. ASSUME NEW s \in SessionIds, SessionCall(s)
      PROVE  JournalMove
  BY <1>7 DEF SessionCall, JournalMove, SessionsOnly
<1>8. CASE ClockMoves \/ MachineReboots
  BY <1>8 DEF ClockMoves, JournalMove, MachineMove
<1>9. CASE UNCHANGED vars
  BY <1>2, <1>9 DEF vars
<1> QED
  BY <1>3, <1>4, <1>5, <1>6, <1>7, <1>8, <1>9 DEF ExecNext

LEMMA MoveFrame ==
    ASSUME TypeOK, JournalMove
    PROVE  TaskFrame
<1>0. \A i \in DOMAIN tasks : tasks[i] \in TaskRow
  BY TaskRows
<1>1. CASE SessionsOnly \/ MachineMove \/ UNCHANGED jvars
  <2>1. UNCHANGED tasks
    BY <1>1, SessionsOnlyKeepsTasks
       DEF MachineMove, MachineReboots, SetClock, Reboot, jvars
  <2> QED
    BY <2>1 DEF TaskFrame
<1>2. CASE Reserves
  <2>1. PICK s \in SessionIds, r \in RequestIds, e \in Executions :
          ReserveTask(s, r, e)
    BY <1>2 DEF Reserves
  <2>2. PICK n \in Nat : n = Len(tasks)
    BY TaskRows
  <2>3. /\ DOMAIN tasks = 1 .. n
        /\ DOMAIN tasks' = 1 .. n + 1
        /\ \A i \in DOMAIN tasks : tasks'[i] = tasks[i]
        /\ tasks'[n + 1] = Accepted(s, r, e)
    BY <2>1, <2>2, ReserveAppends, TaskRows
  <2>4. \A i \in 1 .. n + 1 : i \in 1 .. n \/ i = n + 1
    BY <2>2
  <2>5. DOMAIN tasks \subseteq DOMAIN tasks'
    BY <2>3, <2>2
  <2>6. tasks'[n + 1].state = "accepted"
    BY <2>3 DEF Accepted
  <2>7. \A i \in DOMAIN tasks' :
          tasks'[i].state = "exited" => i \in DOMAIN tasks /\ tasks'[i] = tasks[i]
    BY <2>3, <2>4, <2>6
  <2> QED
    BY <2>3, <2>5, <2>7 DEF TaskFrame
<1>3. CASE SweepStale
  BY <1>0, <1>3 DEF SweepStale, Stale, TaskFrame, TaskRow, Dispatched
<1>4. ASSUME NEW i \in DOMAIN tasks, ClaimTask(i)
      PROVE  TaskFrame
  BY <1>0, <1>4 DEF ClaimTask, TaskFrame, TaskRow, Dispatched
<1>5. ASSUME NEW i \in DOMAIN tasks, Heartbeat(i)
      PROVE  TaskFrame
  BY <1>0, <1>5 DEF Heartbeat, TaskFrame, TaskRow, Dispatched
<1> QED
  BY <1>1, <1>2, <1>3, <1>4, <1>5 DEF JournalMove, TaskMove

(* Every step of every process is a step of the journal. *)
LEMMA StepJournal ==
    ASSUME IInv, [ExecNext]_vars
    PROVE  [Next]_jvars
<1>1. CASE JournalMove
  BY <1>1 DEF JournalMove, SessionsOnly, Reserves, TaskMove, MachineMove,
     MachineReboots, Next, SessionStep, TaskStep
<1>2. ASSUME NEW w \in Workers, Report(w)
      PROVE  Next
  <2>1. workers[w].task \in DOMAIN tasks /\ workers[w].exit \in ExitCodes \cup {None}
    BY <1>2 DEF IInv, ProcInv, WorkerKnows, WorkerRow, Report
  <2> QED
    BY <1>2, <2>1 DEF Report, Next, TaskStep
<1> QED
  BY <1>1, <1>2, StepMoves

(* The tasks stay within the bound of the model. *)
LEMMA StepBound ==
    ASSUME IInv, [ExecNext]_vars
    PROVE  DOMAIN tasks' \subseteq TaskIds
<1>0. TypeOK /\ DOMAIN tasks \subseteq TaskIds /\ ProcInv
  BY DEF IInv, WorkInv
<1>1. CASE Reserves /\ Len(tasks) < MaxTasks
  <2>1. DOMAIN tasks' = 1 .. Len(tasks) + 1 /\ Len(tasks) \in Nat
    BY <1>0, <1>1, ReserveAppends, TaskRows DEF Reserves
  <2> QED
    BY <1>1, <2>1, ExecutionAssumption DEF TaskIds
<1>2. CASE SessionsOnly \/ MachineMove \/ UNCHANGED jvars
  <2>1. UNCHANGED tasks
    BY <1>2, SessionsOnlyKeepsTasks
       DEF MachineMove, MachineReboots, SetClock, Reboot, jvars
  <2> QED
    BY <1>0, <2>1
<1>3. CASE SweepStale
  BY <1>0, <1>3, SweepRewrites DEF RewritesTasks
<1>4. CASE TaskMove
  BY <1>0, <1>4, ClaimRewrites, HeartbeatRewrites DEF TaskMove, RewritesTasks
<1>5. ASSUME NEW w \in Workers, Report(w)
      PROVE  DOMAIN tasks' \subseteq TaskIds
  BY <1>0, <1>5 DEF Report, FinishTask
<1> QED
  BY <1>1, <1>2, <1>3, <1>4, <1>5, StepMoves DEF JournalMove

-----------------------------------------------------------------------------
(* The recorded exits.                                                     *)

LEMMA ReportRow ==
    ASSUME IInv, NEW w \in Workers, Report(w)
    PROVE  LET i == workers[w].task IN
             /\ i \in DOMAIN tasks
             /\ DOMAIN tasks' = DOMAIN tasks
             /\ \A j \in DOMAIN tasks \ {i} : tasks'[j] = tasks[j]
             /\ tasks'[i].state \in {"exited", "unknown"}
             /\ tasks'[i].worker_boot = tasks[i].worker_boot
             /\ tasks'[i].state = "exited" =>
                  Finished(i, tasks'[i].exit_code)
<1>1. PICK i : i = workers[w].task
  OBVIOUS
<1>2. i \in DOMAIN tasks /\ WorkerKnows(workers[w])
  BY <1>1 DEF IInv, ProcInv, WorkerKnows, Report
<1>3. tasks[i] \in TaskRow
  BY <1>2, TaskRows DEF IInv, WorkInv
<1>4. PICK exit : exit = workers[w].exit
  OBVIOUS
<1>5. FinishTask(i, exit)
  BY <1>1, <1>4 DEF Report
<1>6. /\ DOMAIN tasks' = DOMAIN tasks
      /\ \A j \in DOMAIN tasks \ {i} : tasks'[j] = tasks[j]
      /\ tasks'[i].state = IF exit # None THEN "exited" ELSE "unknown"
      /\ tasks'[i].worker_boot = tasks[i].worker_boot
      /\ tasks'[i].exit_code = exit
  BY <1>2, <1>3, <1>5 DEF FinishTask, TaskRow
<1>7. exit # None => Finished(i, exit)
  BY <1>1, <1>2, <1>4 DEF WorkerKnows
<1> QED
  BY <1>1, <1>2, <1>6, <1>7

LEMMA StaysFinished ==
    ASSUME WorldFrame, NEW i \in TaskIds, NEW code, Finished(i, code)
    PROVE  Finished(i, code)'
  BY DEF WorldFrame, Finished

LEMMA StepExits ==
    ASSUME IInv, [ExecNext]_vars
    PROVE  ExitsAreFinished'
<1>0. ExitsAreFinished /\ DOMAIN tasks \subseteq TaskIds /\ WorldFrame /\ TypeOK
  BY StepWorld DEF IInv, WorkInv
<1>1. CASE JournalMove
  <2>1. TaskFrame
    BY <1>0, <1>1, MoveFrame
  <2> SUFFICES ASSUME NEW i \in DOMAIN tasks', tasks'[i].state = "exited"
               PROVE  Finished(i, tasks[i].exit_code)'
    BY DEF ExitsAreFinished
  <2>2. i \in DOMAIN tasks /\ tasks'[i] = tasks[i]
    BY <2>1 DEF TaskFrame
  <2>3. Finished(i, tasks[i].exit_code)
    BY <1>0, <2>2 DEF ExitsAreFinished
  <2> QED
    BY <1>0, <2>2, <2>3 DEF WorldFrame, Finished
<1>2. ASSUME NEW w \in Workers, Report(w)
      PROVE  ExitsAreFinished'
  <2> SUFFICES ASSUME NEW i \in DOMAIN tasks', tasks'[i].state = "exited"
               PROVE  Finished(i, tasks[i].exit_code)'
    BY DEF ExitsAreFinished
  <2>1. i \in TaskIds /\ Finished(i, tasks'[i].exit_code)
    BY <1>0, <1>2, ReportRow DEF ExitsAreFinished
  <2> QED
    BY <1>0, <2>1 DEF WorldFrame, Finished
<1> QED
  BY <1>1, <1>2, StepMoves

-----------------------------------------------------------------------------
(* The claims.  A step other than a claim makes no worker an executor.     *)

NoNewExecutor ==
    \A w \in Workers :
      workers'[w].pc \in Executing =>
        /\ workers[w].pc \in Executing
        /\ workers'[w].task = workers[w].task

LEMMA ClaimsStay ==
    ASSUME ExecutorHoldsClaim, TaskFrame, NoNewExecutor, boot' = boot
    PROVE  ExecutorHoldsClaim'
<1> SUFFICES ASSUME NEW w \in Workers, workers'[w].pc \in Executing
             PROVE  /\ workers'[w].task \in DOMAIN tasks'
                    /\ tasks'[workers'[w].task].state \in {"running", "unknown"}
                    /\ tasks'[workers'[w].task].worker_boot = boot'
                    /\ \A v \in Workers \ {w} :
                         workers'[v].pc \in Executing =>
                           workers'[v].task # workers'[w].task
  BY DEF ExecutorHoldsClaim, Executing
<1>1. PICK i : i = workers[w].task
  OBVIOUS
<1>2. workers[w].pc \in Executing /\ workers'[w].task = i
  BY <1>1 DEF NoNewExecutor
<1>3. /\ i \in DOMAIN tasks
      /\ tasks[i].state \in Dispatched
      /\ tasks[i].worker_boot = boot
      /\ \A v \in Workers \ {w} : workers[v].pc \in Executing => workers[v].task # i
  BY <1>1, <1>2 DEF ExecutorHoldsClaim, Dispatched
<1>4. /\ i \in DOMAIN tasks'
      /\ tasks'[i].state \in {"running", "unknown"}
      /\ tasks'[i].worker_boot = boot
  BY <1>3 DEF TaskFrame, Dispatched
<1>5. \A v \in Workers \ {w} : workers'[v].pc \in Executing => workers'[v].task # i
  BY <1>3 DEF NoNewExecutor
<1> QED
  BY <1>2, <1>4, <1>5

LEMMA ClaimTaken ==
    ASSUME IInv, NEW w \in Workers, WorkerClaim(w)
    PROVE  ExecutorHoldsClaim'
<1>0. ExecutorHoldsClaim /\ ProcInv /\ TypeOK
  BY DEF IInv, WorkInv
<1>1. PICK i : i = workers[w].task
  OBVIOUS
<1>2. /\ i \in DOMAIN tasks /\ tasks[i] \in TaskRow
      /\ ClaimTask(i)
      /\ workers[w] \in WorkerRow
  BY <1>0, <1>1, TaskRows DEF WorkerClaim, At, ProcInv, WorkerKnows
<1>3. /\ DOMAIN tasks' = DOMAIN tasks
      /\ tasks'[i].state = "running"
      /\ tasks'[i].worker_boot = boot
      /\ \A j \in DOMAIN tasks \ {i} : tasks'[j] = tasks[j]
      /\ boot' = boot
  BY <1>2 DEF ClaimTask, TaskRow
<1>4. /\ workers'[w].pc = "spawn" /\ workers'[w].task = i
      /\ \A v \in Workers \ {w} : workers'[v] = workers[v]
  BY <1>0, <1>1, <1>2 DEF WorkerClaim, Go, ProcInv, WorkerRow
<1>5. \A v \in Workers :
        workers[v].pc \in Executing =>
          /\ workers[v].task \in DOMAIN tasks \ {i}
          /\ tasks[workers[v].task].state \in {"running", "unknown"}
          /\ tasks[workers[v].task].worker_boot = boot
          /\ \A u \in Workers \ {v} :
               workers[u].pc \in Executing => workers[u].task # workers[v].task
  BY <1>0, <1>2 DEF ExecutorHoldsClaim, ClaimTask
<1> SUFFICES ASSUME NEW v \in Workers, workers'[v].pc \in Executing
             PROVE  /\ workers'[v].task \in DOMAIN tasks'
                    /\ tasks'[workers'[v].task].state \in {"running", "unknown"}
                    /\ tasks'[workers'[v].task].worker_boot = boot'
                    /\ \A u \in Workers \ {v} :
                         workers'[u].pc \in Executing =>
                           workers'[u].task # workers'[v].task
  BY DEF ExecutorHoldsClaim, Executing
<1>6. CASE v = w
  BY <1>2, <1>3, <1>4, <1>5, <1>6
<1>7. CASE v # w
  <2>1. /\ workers'[v] = workers[v]
        /\ workers[v].pc \in Executing
    BY <1>4, <1>7
  <2> QED
    BY <1>3, <1>4, <1>5, <1>7, <2>1
<1> QED
  BY <1>6, <1>7

LEMMA ClaimReported ==
    ASSUME IInv, NEW w \in Workers, Report(w), boot' = boot
    PROVE  ExecutorHoldsClaim'
<1>0. ExecutorHoldsClaim /\ ProcInv
  BY DEF IInv
<1>1. PICK i : i = workers[w].task
  OBVIOUS
<1>2. /\ DOMAIN tasks' = DOMAIN tasks
      /\ \A j \in DOMAIN tasks \ {i} : tasks'[j] = tasks[j]
  BY <1>1, ReportRow
<1>3. /\ workers'[w].pc = "off"
      /\ \A v \in Workers \ {w} : workers'[v] = workers[v]
  BY <1>0 DEF Report, Off, ProcInv
<1>4. workers[w].pc \in Executing
  BY DEF Report, Executing
<1> SUFFICES ASSUME NEW v \in Workers, workers'[v].pc \in Executing
             PROVE  /\ workers'[v].task \in DOMAIN tasks'
                    /\ tasks'[workers'[v].task].state \in {"running", "unknown"}
                    /\ tasks'[workers'[v].task].worker_boot = boot'
                    /\ \A u \in Workers \ {v} :
                         workers'[u].pc \in Executing =>
                           workers'[u].task # workers'[v].task
  BY DEF ExecutorHoldsClaim, Executing
<1>5. v # w
  BY <1>3 DEF Executing
<1>6. workers'[v] = workers[v] /\ workers[v].pc \in Executing
  BY <1>3, <1>5
<1>7. /\ workers[v].task \in DOMAIN tasks \ {i}
      /\ tasks[workers[v].task].state \in {"running", "unknown"}
      /\ tasks[workers[v].task].worker_boot = boot
      /\ \A u \in Workers \ {v} :
           workers[u].pc \in Executing => workers[u].task # workers[v].task
  BY <1>0, <1>1, <1>4, <1>5, <1>6 DEF ExecutorHoldsClaim
<1>8. \A u \in Workers : workers'[u].pc \in Executing => workers'[u] = workers[u]
  BY <1>3 DEF Executing
<1> QED
  BY <1>2, <1>6, <1>7, <1>8

(* Only a reboot changes the boot identity, and it ends every worker. *)
LEMMA MoveBoot ==
    ASSUME JournalMove, ~MachineReboots
    PROVE  boot' = boot
  BY SessionsOnlyKeepsTasks
     DEF JournalMove, Reserves, ReserveTask, SweepStale, TaskMove, ClaimTask,
         Heartbeat, MachineMove, SetClock, jvars

LEMMA StepExecutors ==
    ASSUME ProcInv, [ExecNext]_vars, \A w \in Workers : ~WorkerClaim(w)
    PROVE  NoNewExecutor
<1>1. ASSUME NEW w \in Workers, NEW row, workers' = [workers EXCEPT ![w] = row],
             row.pc \in Executing =>
               workers[w].pc \in Executing /\ row.task = workers[w].task
      PROVE  NoNewExecutor
  BY <1>1 DEF NoNewExecutor, ProcInv
<1>2. ASSUME UNCHANGED workers
      PROVE  NoNewExecutor
  BY <1>2 DEF NoNewExecutor
<1>3. ASSUME NEW w \in Workers, workers' = [workers EXCEPT ![w] = Off]
      PROVE  NoNewExecutor
  <2>1. Off.pc \notin Executing
    BY DEF Off, Executing
  <2> QED
    BY <1>1, <1>3, <2>1
<1>4. ASSUME NEW w \in Workers, NEW pc, Go(w, pc),
             pc \in Executing => workers[w].pc \in Executing
      PROVE  NoNewExecutor
  <2>1. PICK row : row = [workers[w] EXCEPT !.pc = pc]
    OBVIOUS
  <2>2. workers' = [workers EXCEPT ![w] = row]
    BY <1>4, <2>1 DEF Go
  <2>3. row.pc = pc /\ row.task = workers[w].task
    BY <2>1 DEF ProcInv, WorkerRow
  <2> QED
    BY <1>1, <1>4, <2>2, <2>3
<1>5. ASSUME NEW c \in Submitters, SubmitterStep(c)
      PROVE  NoNewExecutor
  <2>1. ASSUME NEW w \in Workers, SubmitLaunch(c, w)
        PROVE  NoNewExecutor
    <3>1. PICK row : row = [pc |-> "open", task |-> subs[c].task, exit |-> None]
      OBVIOUS
    <3>2. workers' = [workers EXCEPT ![w] = row] /\ row.pc \notin Executing
      BY <2>1, <3>1 DEF SubmitLaunch, Executing
    <3> QED
      BY <1>1, <3>2
  <2>2. ASSUME \A w \in Workers : ~SubmitLaunch(c, w)
        PROVE  UNCHANGED workers
    BY <1>5, <2>2 DEF SubmitterStep, SubmitProgress, SubmitStart, SubmitOpen,
       SubmitSweep, SubmitReserve, SubmitRetry, SubmitRejected, SubmitFails
  <2> QED
    BY <1>2, <2>1, <2>2
<1>6. ASSUME NEW w \in Workers, WorkerProgress(w)
      PROVE  NoNewExecutor
  <2>1. CASE WorkerOpen(w)
    BY <1>4, <2>1 DEF WorkerOpen, At, Executing
  <2>2. CASE WorkerSweep(w)
    BY <1>4, <2>2 DEF WorkerSweep, At, Executing
  <2>3. CASE WorkerYields(w) \/ WorkerReports(w)
    BY <1>3, <2>3 DEF WorkerYields, WorkerReports
  <2>4. CASE WorkerSpawn(w) \/ WorkerWaits(w) \/ WorkerBeats(w)
    BY <1>4, <2>4 DEF WorkerSpawn, WorkerWaits, WorkerBeats, At, Executing
  <2>5. CASE WorkerReaps(w)
    <3>1. PICK row : row = [workers[w] EXCEPT !.pc = "report",
                                              !.exit = Exit(ssh[workers[w].task].status)]
      OBVIOUS
    <3>2. workers' = [workers EXCEPT ![w] = row]
      BY <2>5, <3>1 DEF WorkerReaps
    <3>3. row.task = workers[w].task /\ workers[w].pc \in Executing
      BY <2>5, <3>1 DEF WorkerReaps, At, Executing, ProcInv, WorkerRow
    <3> QED
      BY <1>1, <3>2, <3>3
  <2> QED
    BY <1>6, <2>1, <2>2, <2>3, <2>4, <2>5 DEF WorkerProgress
<1>7. ASSUME NEW w \in Workers, WorkerFault(w)
      PROVE  NoNewExecutor
  <2>1. CASE WorkerSpawnFails(w) \/ WorkerBeatFails(w) \/ WorkerCaptureFails(w)
    BY <1>4, <2>1 DEF WorkerSpawnFails, WorkerBeatFails, WorkerCaptureFails, At, Executing
  <2>2. CASE WorkerDies(w)
    BY <1>3, <2>2 DEF WorkerDies
  <2> QED
    BY <1>7, <2>1, <2>2 DEF WorkerFault
<1>8. CASE MachineReboots
  BY <1>8 DEF MachineReboots, NoNewExecutor, Off, Executing
<1>9. ASSUME NEW i \in TaskIds, SshStep(i)
      PROVE  UNCHANGED workers
  BY <1>9 DEF SshStep, RemoteStart, RemoteExit, SshReturns, SshFails, SshKilled,
     SshEnds, procs
<1>10. ASSUME ReaderOpens \/ ClockMoves \/ \E s \in SessionIds : SessionCall(s)
       PROVE  UNCHANGED workers
  BY <1>10 DEF ReaderOpens, ClockMoves, SessionCall, procs
<1>11. CASE UNCHANGED vars
  BY <1>2, <1>11 DEF vars, procs
<1> QED
  BY <1>2, <1>5, <1>6, <1>7, <1>8, <1>9, <1>10, <1>11 DEF ExecNext

LEMMA StepClaims ==
    ASSUME IInv, [ExecNext]_vars
    PROVE  ExecutorHoldsClaim'
<1>1. CASE MachineReboots
  BY <1>1 DEF MachineReboots, ExecutorHoldsClaim, Off, Executing
<1>2. ASSUME NEW w \in Workers, WorkerClaim(w)
      PROVE  ExecutorHoldsClaim'
  BY <1>2, ClaimTaken
<1>3. ASSUME NEW w \in Workers, Report(w)
      PROVE  ExecutorHoldsClaim'
  BY <1>3, ClaimReported DEF Report, FinishTask
<1>4. CASE JournalMove /\ ~MachineReboots /\ \A w \in Workers : ~WorkerClaim(w)
  BY <1>4, MoveFrame, MoveBoot, StepExecutors, ClaimsStay DEF IInv, WorkInv
<1> QED
  BY <1>1, <1>2, <1>3, <1>4, StepMoves

-----------------------------------------------------------------------------
(* The processes.                                                          *)

SubsInv ==
    /\ subs \in [Submitters -> SubRow]
    /\ \A c \in Submitters : SubKnows(subs[c])

WorkersInv ==
    /\ workers \in [Workers -> WorkerRow]
    /\ \A w \in Workers : WorkerKnows(workers[w])

LEMMA ProcParts == ProcInv <=> SubsInv /\ WorkersInv
  BY DEF ProcInv, SubsInv, WorkersInv

(* No task is ever removed. *)
LEMMA TasksGrow ==
    ASSUME IInv, [ExecNext]_vars
    PROVE  DOMAIN tasks \subseteq DOMAIN tasks'
<1>1. TypeOK
  BY DEF IInv, WorkInv
<1>2. CASE JournalMove
  BY <1>1, <1>2, MoveFrame DEF TaskFrame
<1>3. ASSUME NEW w \in Workers, Report(w)
      PROVE  DOMAIN tasks \subseteq DOMAIN tasks'
  BY <1>3, ReportRow
<1> QED
  BY <1>2, <1>3, StepMoves

LEMMA IdleSub == Idle \in SubRow /\ Idle.pc = "idle"
  BY DEF Idle, SubRow

LEMMA LaunchingSub ==
    ASSUME NEW i \in TaskIds
    PROVE  /\ Launching(i) \in SubRow
           /\ Launching(i).pc = "launch"
           /\ Launching(i).task = i
  BY DEF Launching, Idle, SubRow

LEMMA SubSet ==
    ASSUME SubsInv, DOMAIN tasks \subseteq DOMAIN tasks',
           NEW c \in Submitters, NEW row \in SubRow,
           subs' = [subs EXCEPT ![c] = row],
           SubKnows(row)'
    PROVE  SubsInv'
<1>1. subs' \in [Submitters -> SubRow]
  BY DEF SubsInv
<1>2. \A b \in Submitters \ {c} : SubKnows(subs[b])'
  BY DEF SubsInv, SubKnows
<1>3. SubKnows(subs[c])'
  BY DEF SubsInv, SubKnows
<1> QED
  BY <1>1, <1>2, <1>3 DEF SubsInv

LEMMA StepSubs ==
    ASSUME IInv, [ExecNext]_vars
    PROVE  SubsInv'
<1>0. SubsInv /\ DOMAIN tasks \subseteq DOMAIN tasks' /\ DOMAIN tasks' \subseteq TaskIds
  BY ProcParts, TasksGrow, StepBound DEF IInv
<1>1. ASSUME UNCHANGED subs
      PROVE  SubsInv'
  BY <1>0, <1>1 DEF SubsInv, SubKnows
<1>2. ASSUME NEW c \in Submitters, subs' = [subs EXCEPT ![c] = Idle]
      PROVE  SubsInv'
  BY <1>0, <1>2, IdleSub, SubSet DEF SubKnows
<1>3. ASSUME NEW c \in Submitters, NEW i \in DOMAIN tasks',
             subs' = [subs EXCEPT ![c] = Launching(i)]
      PROVE  SubsInv'
  <2>1. PICK row : row = Launching(i)
    OBVIOUS
  <2>2. row \in SubRow /\ row.pc = "launch" /\ row.task = i
    BY <1>0, <2>1, LaunchingSub
  <2>3. SubKnows(row)'
    BY <2>2 DEF SubKnows
  <2> QED
    BY <1>0, <1>3, <2>1, <2>2, <2>3, SubSet
<1>4. ASSUME NEW c \in Submitters, NEW pc \in {"sweep", "reserve"}, Sub(c, pc),
             subs[c].pc \in {"open", "sweep"}
      PROVE  SubsInv'
  <2>1. PICK row : row = [subs[c] EXCEPT !.pc = pc]
    OBVIOUS
  <2>2. subs' = [subs EXCEPT ![c] = row]
    BY <1>4, <2>1 DEF Sub
  <2>3. subs[c] \in SubRow /\ SubKnows(subs[c])
    BY <1>0 DEF SubsInv
  <2>4. /\ row \in SubRow
        /\ row.pc = pc
        /\ row.session = subs[c].session
        /\ row.request = subs[c].request
        /\ row.execution = subs[c].execution
    BY <2>1, <2>3 DEF SubRow
  <2>5. SubKnows(row)'
    BY <1>4, <2>3, <2>4 DEF SubKnows
  <2> QED
    BY <1>0, <2>2, <2>4, <2>5, SubSet
<1>5. ASSUME NEW c \in Submitters, NEW s \in SessionIds, NEW r \in RequestIds,
             NEW e \in Executions, SubmitStart(c, s, r, e)
      PROVE  SubsInv'
  <2>1. PICK row : row = [pc |-> "open", session |-> s, request |-> r,
                          execution |-> e, task |-> None]
    OBVIOUS
  <2>2. row \in SubRow
    BY <2>1 DEF SubRow
  <2>3. SubKnows(row)'
    BY <2>1 DEF SubKnows
  <2>4. subs' = [subs EXCEPT ![c] = row]
    BY <1>5, <2>1 DEF SubmitStart
  <2> QED
    BY <1>0, <2>2, <2>3, <2>4, SubSet
<1>6. ASSUME NEW c \in Submitters, SubmitReserve(c)
      PROVE  SubsInv'
  <2>1. /\ subs[c].session \in SessionIds
        /\ subs[c].request \in RequestIds
        /\ subs[c].execution \in Executions
        /\ ReserveTask(subs[c].session, subs[c].request, subs[c].execution)
        /\ subs' = [subs EXCEPT ![c] = Launching(Len(tasks) + 1)]
    BY <1>0, <1>6 DEF SubmitReserve, SubsInv, SubKnows
  <2>2. DOMAIN tasks' = 1 .. Len(tasks) + 1 /\ Len(tasks) \in Nat
    BY <2>1, ReserveAppends, TaskRows DEF IInv, WorkInv
  <2>3. PICK n : n = Len(tasks) + 1
    OBVIOUS
  <2>4. n \in DOMAIN tasks'
    BY <2>2, <2>3
  <2> QED
    BY <1>3, <2>1, <2>3, <2>4
<1>7. ASSUME NEW c \in Submitters, SubmitRetry(c)
      PROVE  SubsInv'
  BY <1>0, <1>2, <1>3, <1>7 DEF SubmitRetry
<1>8. ASSUME NEW c \in Submitters, SubmitterStep(c)
      PROVE  SubsInv'
  <2>1. CASE SubmitOpen(c) \/ SubmitSweep(c)
    BY <1>4, <2>1 DEF SubmitOpen, SubmitSweep
  <2>2. CASE SubmitRejected(c) \/ SubmitFails(c) \/ \E w \in Workers : SubmitLaunch(c, w)
    BY <1>2, <2>2 DEF SubmitRejected, SubmitFails, SubmitLaunch
  <2> QED
    BY <1>5, <1>6, <1>7, <1>8, <2>1, <2>2 DEF SubmitterStep, SubmitProgress
<1>9. ASSUME NEW w \in Workers, WorkerProgress(w) \/ WorkerFault(w)
      PROVE  UNCHANGED subs
  BY <1>9 DEF WorkerProgress, WorkerFault, WorkerOpen, WorkerSweep, WorkerClaim,
     WorkerYields, WorkerSpawn, WorkerSpawnFails, WorkerWaits, WorkerBeats,
     WorkerReaps, WorkerReports, WorkerBeatFails, WorkerCaptureFails, WorkerDies, procs
<1>10. ASSUME NEW i \in TaskIds, SshStep(i)
       PROVE  UNCHANGED subs
  BY <1>10 DEF SshStep, RemoteStart, RemoteExit, SshReturns, SshFails, SshKilled,
     SshEnds, procs
<1>11. ASSUME ReaderOpens \/ ClockMoves \/ \E s \in SessionIds : SessionCall(s)
       PROVE  UNCHANGED subs
  BY <1>11 DEF ReaderOpens, ClockMoves, SessionCall, procs
<1>12. CASE MachineReboots
  BY <1>12, IdleSub DEF MachineReboots, SubsInv, SubKnows
<1>13. CASE UNCHANGED vars
  BY <1>1, <1>13 DEF vars, procs
<1> QED
  BY <1>1, <1>8, <1>9, <1>10, <1>11, <1>12, <1>13 DEF ExecNext

LEMMA WorkerSet ==
    ASSUME WorkersInv, WorldFrame, DOMAIN tasks \subseteq DOMAIN tasks',
           DOMAIN tasks \subseteq TaskIds,
           NEW w \in Workers, NEW row \in WorkerRow,
           workers' = [workers EXCEPT ![w] = row],
           WorkerKnows(row)'
    PROVE  WorkersInv'
<1>1. workers' \in [Workers -> WorkerRow]
  BY DEF WorkersInv
<1>2. ASSUME NEW v \in Workers \ {w}
      PROVE  WorkerKnows(workers[v])'
  <2>1. workers'[v] = workers[v] /\ WorkerKnows(workers[v])
    BY DEF WorkersInv
  <2>2. workers[v].pc # "off" =>
          workers[v].task \in DOMAIN tasks /\ workers[v].task \in TaskIds
    BY <2>1 DEF WorkerKnows
  <2>3. workers[v].exit # None => Finished(workers[v].task, workers[v].exit)'
    BY <2>1, <2>2 DEF WorkerKnows, WorldFrame, Finished
  <2> QED
    BY <2>1, <2>2, <2>3 DEF WorkerKnows
<1>3. WorkerKnows(workers[w])'
  <2>1. workers'[w] = row
    BY DEF WorkersInv
  <2> QED
    BY <2>1 DEF WorkerKnows, Finished
<1> QED
  BY <1>1, <1>2, <1>3 DEF WorkersInv

LEMMA StepWorkers ==
    ASSUME IInv, [ExecNext]_vars
    PROVE  WorkersInv'
<1>0. /\ WorkersInv /\ WorldInv /\ WorldFrame
      /\ DOMAIN tasks \subseteq DOMAIN tasks' /\ DOMAIN tasks \subseteq TaskIds
  BY ProcParts, TasksGrow, StepWorld DEF IInv
<1>1. ASSUME UNCHANGED workers
      PROVE  WorkersInv'
  <2>1. \A w \in Workers : WorkerKnows(workers[w])'
    BY <1>0, <1>1 DEF WorkersInv, WorkerKnows, WorldFrame, Finished
  <2> QED
    BY <1>0, <1>1, <2>1 DEF WorkersInv
<1>2. ASSUME NEW w \in Workers, workers' = [workers EXCEPT ![w] = Off]
      PROVE  WorkersInv'
  <2>1. PICK row : row = Off
    OBVIOUS
  <2>2. row \in WorkerRow /\ row.pc = "off" /\ row.exit = None
    BY <2>1 DEF Off, WorkerRow
  <2>3. WorkerKnows(row)'
    BY <2>2 DEF WorkerKnows
  <2> QED
    BY <1>0, <1>2, <2>1, <2>2, <2>3, WorkerSet
<1>3. ASSUME NEW w \in Workers, workers[w].pc \notin {"off", "report"},
             NEW pc \in {"sweep", "claim"} \cup Executing, Go(w, pc)
      PROVE  WorkersInv'
  <2>1. PICK row : row = [workers[w] EXCEPT !.pc = pc]
    OBVIOUS
  <2>2. workers' = [workers EXCEPT ![w] = row]
    BY <1>3, <2>1 DEF Go
  <2>3. workers[w] \in WorkerRow /\ WorkerKnows(workers[w])
    BY <1>0 DEF WorkersInv
  <2>4. /\ row \in WorkerRow
        /\ row.pc = pc
        /\ row.task = workers[w].task
        /\ row.exit = workers[w].exit
    BY <2>1, <2>3 DEF WorkerRow
  <2>5. WorkerKnows(row)'
    BY <1>0, <1>3, <2>3, <2>4 DEF WorkerKnows
  <2> QED
    BY <1>0, <2>2, <2>4, <2>5, WorkerSet
<1>4. ASSUME NEW c \in Submitters, NEW w \in Workers, SubmitLaunch(c, w)
      PROVE  WorkersInv'
  <2>1. subs[c].task \in DOMAIN tasks
    BY <1>4, ProcParts DEF IInv, SubmitLaunch, SubsInv, SubKnows
  <2>2. PICK row : row = [pc |-> "open", task |-> subs[c].task, exit |-> None]
    OBVIOUS
  <2>3. row \in WorkerRow
    BY <1>0, <2>1, <2>2 DEF WorkerRow
  <2>4. WorkerKnows(row)'
    BY <1>0, <2>1, <2>2 DEF WorkerKnows
  <2>5. workers' = [workers EXCEPT ![w] = row]
    BY <1>4, <2>2 DEF SubmitLaunch
  <2> QED
    BY <1>0, <2>3, <2>4, <2>5, WorkerSet
<1>5. ASSUME NEW w \in Workers, WorkerReaps(w)
      PROVE  WorkersInv'
  <2>1. PICK i : i = workers[w].task
    OBVIOUS
  <2>2. /\ workers[w].pc = "wait"
        /\ ssh[i].phase = "ended"
        /\ UNCHANGED <<ssh, remote>>
    BY <1>5, <2>1 DEF WorkerReaps, At, world
  <2>3. workers[w] \in WorkerRow /\ i \in DOMAIN tasks /\ i \in TaskIds
    BY <1>0, <2>1, <2>2 DEF WorkersInv, WorkerKnows
  <2>4. PICK exit : exit = Exit(ssh[i].status)
    OBVIOUS
  <2>5. ssh[i].status \in RemoteCodes \cup {SshFailed, None}
    BY <1>0, <2>3 DEF WorldInv, SshRow
  <2>6. exit \in ExitCodes \cup {None}
    BY <2>4, <2>5, ExecutionAssumption DEF Exit
  <2>7. exit # None => exit = ssh[i].status /\ ssh[i].status \notin {None, SshFailed}
    BY <2>4 DEF Exit
  <2>8. exit # None => Finished(i, exit)
    BY <1>0, <2>3, <2>7 DEF WorldInv
  <2>9. PICK row : row = [workers[w] EXCEPT !.pc = "report", !.exit = exit]
    OBVIOUS
  <2>10. /\ row \in WorkerRow
         /\ row.pc = "report" /\ row.task = i /\ row.exit = exit
    BY <2>1, <2>3, <2>6, <2>9 DEF WorkerRow, Executing
  <2>11. WorkerKnows(row)'
    BY <1>0, <2>2, <2>3, <2>8, <2>10 DEF WorkerKnows, Finished
  <2>12. workers' = [workers EXCEPT ![w] = row]
    BY <1>5, <2>1, <2>4, <2>9 DEF WorkerReaps
  <2> QED
    BY <1>0, <2>10, <2>11, <2>12, WorkerSet
<1>6. ASSUME NEW w \in Workers, WorkerProgress(w)
      PROVE  WorkersInv'
  <2>1. CASE WorkerOpen(w)
    BY <1>3, <2>1 DEF WorkerOpen, At, Executing
  <2>2. CASE WorkerSweep(w)
    BY <1>3, <2>2 DEF WorkerSweep, At, Executing
  <2>3. CASE WorkerYields(w) \/ WorkerReports(w)
    BY <1>2, <2>3 DEF WorkerYields, WorkerReports
  <2>4. CASE WorkerClaim(w) \/ WorkerSpawn(w) \/ WorkerWaits(w) \/ WorkerBeats(w)
    BY <1>3, <2>4 DEF WorkerClaim, WorkerSpawn, WorkerWaits, WorkerBeats, At, Executing
  <2> QED
    BY <1>5, <1>6, <2>1, <2>2, <2>3, <2>4 DEF WorkerProgress
<1>7. ASSUME NEW w \in Workers, WorkerFault(w)
      PROVE  WorkersInv'
  <2>1. CASE WorkerSpawnFails(w) \/ WorkerBeatFails(w) \/ WorkerCaptureFails(w)
    BY <1>3, <2>1 DEF WorkerSpawnFails, WorkerBeatFails, WorkerCaptureFails, At, Executing
  <2>2. CASE WorkerDies(w)
    BY <1>2, <2>2 DEF WorkerDies
  <2> QED
    BY <1>7, <2>1, <2>2 DEF WorkerFault
<1>8. ASSUME NEW c \in Submitters, SubmitterStep(c), \A w \in Workers : ~SubmitLaunch(c, w)
      PROVE  UNCHANGED workers
  BY <1>8 DEF SubmitterStep, SubmitProgress, SubmitStart, SubmitOpen,
     SubmitSweep, SubmitReserve, SubmitRetry, SubmitRejected, SubmitFails
<1>9. ASSUME NEW i \in TaskIds, SshStep(i)
      PROVE  UNCHANGED workers
  BY <1>9 DEF SshStep, RemoteStart, RemoteExit, SshReturns, SshFails, SshKilled,
     SshEnds, procs
<1>10. ASSUME ReaderOpens \/ ClockMoves \/ \E s \in SessionIds : SessionCall(s)
       PROVE  UNCHANGED workers
  BY <1>10 DEF ReaderOpens, ClockMoves, SessionCall, procs
<1>11. CASE MachineReboots
  <2>1. Off \in WorkerRow /\ Off.pc = "off" /\ Off.exit = None
    BY DEF Off, WorkerRow
  <2> QED
    BY <1>11, <2>1 DEF MachineReboots, WorkersInv, WorkerKnows
<1>12. CASE UNCHANGED vars
  BY <1>1, <1>12 DEF vars, procs
<1> QED
  BY <1>1, <1>4, <1>6, <1>7, <1>8, <1>9, <1>10, <1>11, <1>12 DEF ExecNext

-----------------------------------------------------------------------------
LEMMA InitIInv == ExecInit => IInv
<1> SUFFICES ASSUME ExecInit PROVE IInv
  OBVIOUS
<1>1. Init /\ tasks = << >>
  BY DEF ExecInit, Init
<1>2. DOMAIN tasks = {}
  BY <1>1
<1>3. WorkInv
  BY <1>1, InitWorkInv
<1>4. SubsInv
  BY IdleSub DEF ExecInit, SubsInv, SubKnows
<1>5. Off \in WorkerRow /\ Off.pc = "off" /\ Off.exit = None
  BY DEF Off, WorkerRow
<1>6. WorkersInv
  BY <1>5 DEF ExecInit, WorkersInv, WorkerKnows
<1>7. /\ NoSsh \in SshRow /\ NoSsh.phase = "none" /\ NoSsh.status = None
      /\ NoRemote \in RemoteRow
  BY DEF NoSsh, NoRemote, SshRow, RemoteRow
<1>8. WorldInv
  BY <1>7 DEF ExecInit, WorldInv
<1>9. ExecutorHoldsClaim
  BY <1>5 DEF ExecInit, ExecutorHoldsClaim, Executing
<1> QED
  BY <1>2, <1>3, <1>4, <1>6, <1>8, <1>9, ProcParts DEF IInv, ExitsAreFinished

LEMMA StepIInv == IInv /\ [ExecNext]_vars => IInv'
<1> SUFFICES ASSUME IInv, [ExecNext]_vars PROVE IInv'
  OBVIOUS
<1>1. WorkInv'
  BY StepJournal, StepWorkInv DEF IInv
<1>2. ProcInv'
  <2>1. SubsInv' /\ WorkersInv'
    BY StepSubs, StepWorkers
  <2> QED
    BY <2>1 DEF ProcInv, SubsInv, WorkersInv
<1>3. WorldInv'
  BY StepWorld DEF IInv
<1> QED
  BY <1>1, <1>2, <1>3, StepBound, StepExits, StepClaims DEF IInv

LEMMA IInvAlways == ExecSpec => []IInv
  BY InitIInv, StepIInv, PTL DEF ExecSpec

(* A task is dispatched at most once, however many workers are launched    *)
(* for it and wherever they die ("A claimed task is never automatically    *)
(* re-dispatched").                                                        *)
THEOREM AtMostOneDispatch == ExecSpec => []DispatchedAtMostOnce
<1>1. IInv => DispatchedAtMostOnce
  BY DEF IInv, WorldInv, DispatchedAtMostOnce
<1> QED
  BY <1>1, IInvAlways, PTL

(* A worker that passed its claim is the only one of its task, and its     *)
(* report is still expected, whatever sweeps run meanwhile.                *)
THEOREM ClaimIsHeld == ExecSpec => []ExecutorHoldsClaim
<1>1. IInv => ExecutorHoldsClaim
  BY DEF IInv
<1> QED
  BY <1>1, IInvAlways, PTL

(* A recorded exit is the status the remote command ended with, never the  *)
(* one of a failed transport or of a worker that lost sight of the command *)
(* (execute_claimed and finish_task).                                      *)
THEOREM RecordedExitsAreTrue == ExecSpec => []ExitsAreTrue
<1>1. IInv => ExitsAreTrue
  BY DEF IInv, ExitsAreFinished, Finished, ExitsAreTrue
<1> QED
  BY <1>1, IInvAlways, PTL

-----------------------------------------------------------------------------
(* The exits that ssh returned.  From its spawn until it is reaped a task's *)
(* ssh is watched; then its exit is about to be reported, or is recorded.   *)

Watching == {"wait", "beat_open", "beat_sweep", "beat"}

Watches(w, i) ==
    /\ workers[w].task = i
    /\ \/ workers[w].pc \in Watching
       \/ /\ workers[w].pc = "report"
          /\ ssh[i].phase = "ended"
          /\ workers[w].exit = Exit(ssh[i].status)

(* ssh returned no exit, or its exit is recorded. *)
Settled(i) ==
    /\ ssh[i].phase = "ended"
    /\ \/ ssh[i].status \in {None, SshFailed}
       \/ Is(i, "exited") /\ tasks[i].exit_code = ssh[i].status

Clean == faults = 0 /\ boot = 1

Kept ==
    /\ faults \in Nat
    /\ Clean => \A i \in TaskIds :
         ssh[i].phase # "none" => Settled(i) \/ \E w \in Workers : Watches(w, i)

LEMMA StaysSettled ==
    ASSUME IInv, [ExecNext]_vars, NEW i \in TaskIds, Settled(i)
    PROVE  Settled(i)'
<1>1. WorldFrame
  BY StepWorld DEF IInv
<1>2. ssh'[i] = ssh[i]
  BY <1>1 DEF WorldFrame, Settled
<1>3. Is(i, "exited") => i \in DOMAIN tasks' /\ tasks'[i] = tasks[i]
  <2>1. TypeOK /\ [Next]_jvars
    BY StepJournal DEF IInv, WorkInv
  <2>2. CASE UNCHANGED jvars
    BY <2>2 DEF jvars, Is
  <2>3. CASE FinalStep
    BY <2>3 DEF FinalStep, Is
  <2> QED
    BY <2>1, <2>2, <2>3, StepFinal
<1> QED
  BY <1>2, <1>3 DEF Settled, Is

(* A fault is counted, a restart changes the boot, and neither is undone. *)
LEMMA StaysClean ==
    ASSUME IInv, faults \in Nat, [ExecNext]_vars
    PROVE  /\ faults' \in Nat
           /\ Clean' => /\ Clean
                        /\ faults' = faults
                        /\ ~MachineReboots
<1>1. CASE MachineReboots
  <2>1. boot \in Nat /\ boot # 0
    BY DEF IInv, WorkInv, TypeOK, Boots
  <2> QED
    BY <1>1, <2>1 DEF MachineReboots, Reboot, Clean
<1>2. CASE ~MachineReboots
  <2>1. boot' = boot
    <3>1. CASE JournalMove
      BY <1>2, <3>1, MoveBoot
    <3>2. ASSUME NEW w \in Workers, Report(w) PROVE boot' = boot
      BY <3>2 DEF Report, FinishTask
    <3> QED
      BY <3>1, <3>2, StepMoves
  <2>2. faults' = faults \/ faults' = faults + 1
    <3>1. ASSUME NEW c \in Submitters, SubmitterStep(c)
          PROVE  faults' = faults \/ faults' = faults + 1
      BY <3>1 DEF SubmitterStep, SubmitProgress, SubmitStart, SubmitOpen, SubmitSweep,
         SubmitReserve, SubmitRetry, SubmitRejected, SubmitLaunch, SubmitFails, Fault
    <3>2. ASSUME NEW w \in Workers, WorkerProgress(w) \/ WorkerFault(w)
          PROVE  faults' = faults \/ faults' = faults + 1
      BY <3>2 DEF WorkerProgress, WorkerFault, WorkerOpen, WorkerSweep, WorkerClaim,
         WorkerYields, WorkerSpawn, WorkerWaits, WorkerBeats, WorkerReaps, WorkerReports,
         WorkerSpawnFails, WorkerBeatFails, WorkerCaptureFails, WorkerDies, Fault
    <3>3. ASSUME NEW i \in TaskIds, SshStep(i)
          PROVE  faults' = faults
      BY <3>3 DEF SshStep, RemoteStart, RemoteExit, SshReturns, SshFails, SshKilled, SshEnds
    <3>4. ASSUME ReaderOpens \/ ClockMoves \/ \E s \in SessionIds : SessionCall(s)
          PROVE  faults' = faults
      BY <3>4 DEF ReaderOpens, ClockMoves, SessionCall
    <3>5. CASE UNCHANGED vars
      BY <3>5 DEF vars
    <3> QED
      BY <1>2, <3>1, <3>2, <3>3, <3>4, <3>5 DEF ExecNext
  <2> QED
    BY <1>2, <2>1, <2>2 DEF Clean
<1> QED
  BY <1>1, <1>2

(* What the watching worker itself does. *)
LEMMA WatcherActs ==
    ASSUME IInv, NEW w \in Workers, NEW i \in TaskIds, Watches(w, i),
           WorkerProgress(w) \/ WorkerFault(w), faults \in Nat, faults' = faults
    PROVE  Settled(i)' \/ Watches(w, i)'
<1>1. workers[w] \in WorkerRow /\ ProcInv
  BY DEF IInv, ProcInv
<1>2. /\ workers[w].task = i
      /\ workers[w].pc \in Watching \cup {"report"}
  BY DEF Watches
<1>3. faults + 1 # faults
  OBVIOUS
<1>4. ASSUME NEW pc \in Watching, Go(w, pc)
      PROVE  Watches(w, i)'
  BY <1>1, <1>2, <1>4 DEF Go, ProcInv, Watches, WorkerRow
<1>5. CASE WorkerOpen(w) \/ WorkerSweep(w) \/ WorkerWaits(w) \/ WorkerBeats(w)
  BY <1>2, <1>4, <1>5 DEF WorkerOpen, WorkerSweep, WorkerWaits, WorkerBeats, At, Watching
<1>6. CASE WorkerReaps(w)
  <2>1. /\ ssh[i].phase = "ended"
        /\ workers' = [workers EXCEPT ![w].pc = "report", ![w].exit = Exit(ssh[i].status)]
        /\ ssh' = ssh
    BY <1>2, <1>6 DEF WorkerReaps, world
  <2>2. /\ workers'[w].pc = "report"
        /\ workers'[w].task = i
        /\ workers'[w].exit = Exit(ssh[i].status)
    BY <1>1, <1>2, <2>1 DEF ProcInv, WorkerRow
  <2> QED
    BY <2>1, <2>2 DEF Watches
<1>7. CASE WorkerReports(w)
  <2>1. Report(w) /\ ssh' = ssh
    BY <1>7 DEF WorkerReports, Report, At, world
  <2>2. /\ ssh[i].phase = "ended"
        /\ workers[w].exit = Exit(ssh[i].status)
    BY <1>2, <2>1 DEF Watches, Report, Watching
  <2>3. i \in DOMAIN tasks /\ tasks[i] \in TaskRow
    BY <1>2, <2>1, ReportRow, TaskRows DEF IInv, WorkInv
  <2>4. CASE ssh[i].status \in {None, SshFailed}
    BY <2>1, <2>2, <2>4 DEF Settled
  <2>5. CASE ssh[i].status \notin {None, SshFailed}
    <3>1. Exit(ssh[i].status) = ssh[i].status
      BY <2>5 DEF Exit
    <3>2. tasks' = [tasks EXCEPT ![i].state = "exited", ![i].exit_code = ssh[i].status]
      BY <1>2, <2>1, <2>2, <2>5, <3>1 DEF Report, FinishTask
    <3>3. /\ i \in DOMAIN tasks'
          /\ tasks'[i].state = "exited"
          /\ tasks'[i].exit_code = ssh[i].status
      BY <2>3, <3>2 DEF TaskRow
    <3> QED
      BY <2>1, <2>2, <3>3 DEF Settled, Is
  <2> QED
    BY <2>4, <2>5
<1>8. ~WorkerClaim(w) /\ ~WorkerYields(w) /\ ~WorkerSpawn(w)
  BY <1>2 DEF WorkerClaim, WorkerYields, WorkerSpawn, At, Watching
<1>9. ~WorkerFault(w)
  BY <1>2, <1>3 DEF WorkerFault, WorkerSpawnFails, WorkerBeatFails, WorkerCaptureFails,
     WorkerDies, Fault, At, Watching
<1> QED
  BY <1>5, <1>6, <1>7, <1>8, <1>9 DEF WorkerProgress

(* What others do while it watches. *)
LEMMA OthersAct ==
    ASSUME IInv, [ExecNext]_vars, ~MachineReboots,
           NEW w \in Workers, NEW i \in TaskIds, Watches(w, i),
           ~WorkerProgress(w), ~WorkerFault(w)
    PROVE  Watches(w, i)'
<1>0. ProcInv /\ WorldInv
  BY DEF IInv
<1>1. workers[w].pc # "off"
  BY DEF Watches, Watching
<1>2. workers'[w] = workers[w]
  <2>1. ASSUME NEW c \in Submitters, NEW v \in Workers, SubmitLaunch(c, v)
        PROVE  workers'[w] = workers[w]
    BY <1>0, <1>1, <2>1 DEF SubmitLaunch, ProcInv
  <2>2. ASSUME NEW v \in Workers \ {w}, WorkerProgress(v)
        PROVE  workers'[w] = workers[w]
    BY <1>0, <2>2 DEF WorkerProgress, WorkerOpen, WorkerSweep, WorkerClaim, WorkerYields,
       WorkerSpawn, WorkerWaits, WorkerBeats, WorkerReaps, WorkerReports, Go, ProcInv
  <2>3. ASSUME NEW v \in Workers \ {w}, WorkerFault(v)
        PROVE  workers'[w] = workers[w]
    BY <1>0, <2>3 DEF WorkerFault, WorkerSpawnFails, WorkerBeatFails, WorkerCaptureFails,
       WorkerDies, Go, ProcInv
  <2>4. ASSUME NEW c \in Submitters, SubmitterStep(c), \A v \in Workers : ~SubmitLaunch(c, v)
        PROVE  UNCHANGED workers
    BY <2>4 DEF SubmitterStep, SubmitProgress, SubmitStart, SubmitOpen, SubmitSweep,
       SubmitReserve, SubmitRetry, SubmitRejected, SubmitFails
  <2>5. ASSUME NEW j \in TaskIds, SshStep(j)
        PROVE  UNCHANGED workers
    BY <2>5 DEF SshStep, RemoteStart, RemoteExit, SshReturns, SshFails, SshKilled,
       SshEnds, procs
  <2>6. ASSUME ReaderOpens \/ ClockMoves \/ \E s \in SessionIds : SessionCall(s)
        PROVE  UNCHANGED workers
    BY <2>6 DEF ReaderOpens, ClockMoves, SessionCall, procs
  <2>7. CASE UNCHANGED vars
    BY <2>7 DEF vars, procs
  <2> QED
    BY <2>1, <2>2, <2>3, <2>4, <2>5, <2>6, <2>7 DEF ExecNext
<1>3. ssh[i].phase = "ended" => ssh'[i] = ssh[i]
  BY StepWorld DEF IInv, WorldFrame
<1> QED
  BY <1>2, <1>3 DEF Watches

(* Only its worker's spawn brings the ssh of a task up. *)
LEMMA SshAppears ==
    ASSUME IInv, [ExecNext]_vars, NEW i \in TaskIds,
           ssh[i].phase = "none", ssh'[i].phase # "none"
    PROVE  \E w \in Workers : Watches(w, i)'
<1>0. WorldInv /\ ProcInv
  BY DEF IInv
<1>1. ASSUME UNCHANGED ssh PROVE FALSE
  BY <1>1
<1>2. ASSUME NEW w \in Workers, WorkerProgress(w), ~WorkerSpawn(w)
      PROVE  UNCHANGED ssh
  BY <1>2 DEF WorkerProgress, WorkerOpen, WorkerSweep, WorkerClaim, WorkerYields,
     WorkerWaits, WorkerBeats, WorkerReaps, WorkerReports, world
<1>3. ASSUME NEW w \in Workers, WorkerFault(w)
      PROVE  UNCHANGED ssh
  BY <1>3 DEF WorkerFault, WorkerSpawnFails, WorkerBeatFails, WorkerCaptureFails,
     WorkerDies, world
<1>4. ASSUME NEW c \in Submitters, SubmitterStep(c)
      PROVE  UNCHANGED ssh
  BY <1>4 DEF SubmitterStep, SubmitProgress, SubmitStart, SubmitOpen, SubmitSweep,
     SubmitReserve, SubmitRetry, SubmitRejected, SubmitLaunch, SubmitFails, world
<1>5. ASSUME ReaderOpens \/ ClockMoves \/ \E s \in SessionIds : SessionCall(s)
      PROVE  UNCHANGED ssh
  BY <1>5 DEF ReaderOpens, ClockMoves, SessionCall, world
<1>6. ASSUME NEW j \in TaskIds, SshStep(j)
      PROVE  FALSE
  <2>1. UNCHANGED ssh \/ \E status : SshEnds(j, status)
    BY <1>6 DEF SshStep, RemoteStart, RemoteExit, SshReturns, SshFails, SshKilled
  <2>2. ASSUME NEW status, SshEnds(j, status) PROVE FALSE
    BY <1>0, <2>2 DEF SshEnds, WorldInv
  <2> QED
    BY <1>1, <2>1, <2>2
<1>7. CASE MachineReboots
  BY <1>0, <1>7 DEF MachineReboots
<1>8. CASE UNCHANGED vars
  BY <1>1, <1>8 DEF vars, world
<1>9. ASSUME NEW w \in Workers, WorkerSpawn(w)
      PROVE  Watches(w, i)'
  <2>1. /\ ssh' = [ssh EXCEPT ![workers[w].task] = [phase |-> "up", status |-> None]]
        /\ Go(w, "wait")
    BY <1>9 DEF WorkerSpawn
  <2>2. workers[w].task = i
    BY <1>0, <2>1 DEF WorldInv
  <2> QED
    BY <1>0, <2>1, <2>2 DEF Go, ProcInv, WorkerRow, Watches, Watching
<1> QED
  BY <1>1, <1>2, <1>3, <1>4, <1>5, <1>6, <1>7, <1>8, <1>9 DEF ExecNext

LEMMA StepKept == IInv /\ Kept /\ [ExecNext]_vars => Kept'
<1> SUFFICES ASSUME IInv, Kept, [ExecNext]_vars PROVE Kept'
  OBVIOUS
<1>1. /\ faults' \in Nat
      /\ Clean' => Clean /\ faults' = faults /\ ~MachineReboots
  BY StaysClean DEF Kept
<1> SUFFICES ASSUME Clean', NEW i \in TaskIds, ssh'[i].phase # "none"
             PROVE  Settled(i)' \/ \E w \in Workers : Watches(w, i)'
  BY <1>1 DEF Kept, Clean, Settled, Is, Watches, Exit
<1>2. CASE ssh[i].phase = "none"
  BY <1>2, SshAppears
<1>3. CASE Settled(i)
  BY <1>3, StaysSettled
<1>4. ASSUME NEW w \in Workers, Watches(w, i)
      PROVE  Settled(i)' \/ Watches(w, i)'
  BY <1>1, <1>4, WatcherActs, OthersAct DEF Kept
<1> QED
  BY <1>1, <1>2, <1>3, <1>4 DEF Kept

(* Without a death, a failed call or a restart no exit that ssh returned   *)
(* is lost, whatever sweeps gave the task up meanwhile (worker.rs hands    *)
(* the status to finish_task, which takes it of an unknown task too).      *)
THEOREM ExitsReachTheJournal == ExecSpec => []ReturnedExitsAreKept
<1>1. ExecInit => Kept
  BY DEF ExecInit, Kept, NoSsh
<1>2. IInv /\ Kept => ReturnedExitsAreKept
  <2> SUFFICES ASSUME IInv, Kept, Clean, NEW i \in TaskIds,
                      ssh[i].status \notin {None, SshFailed}
               PROVE  \/ Is(i, "exited") /\ tasks[i].exit_code = ssh[i].status
                      \/ \E w \in Workers :
                           workers[w].task = i /\ workers[w].pc \in Executing
    BY DEF ReturnedExitsAreKept, Clean
  <2>1. ssh[i].phase = "ended"
    BY DEF IInv, WorldInv, Finished
  <2> QED
    BY <2>1 DEF Kept, Settled, Watches, Watching, Executing
<1> QED
  BY <1>1, <1>2, IInvAlways, StepKept, PTL DEF ExecSpec

(* A command that may run belongs to a task that is not exited. *)
LEMMA RunningIsActive ==
    ASSUME IInv, NEW i \in DOMAIN tasks,
           \/ remote[i].phase = "running"
           \/ ssh[i].phase = "up"
           \/ \E w \in Workers : workers[w].task = i /\ workers[w].pc \in Executing
    PROVE  Active(i)
<1> SUFFICES ASSUME tasks[i].state = "exited" PROVE FALSE
  BY DEF Active
<1>0. /\ ssh[i].phase = "ended"
      /\ remote[i] = [phase |-> "done", code |-> tasks[i].exit_code]
  BY DEF IInv, ExitsAreFinished, Finished
<1>1. ssh[i].phase = "ended" /\ remote[i].phase = "done"
  <2> HIDE DEF IInv
  <2> QED
    BY <1>0
<1> QED
  BY <1>1 DEF IInv, ExecutorHoldsClaim

(* Two commands of one session never run on its device at one time, even   *)
(* after the worker, the ssh client or the machine that started one is     *)
(* gone: a session is busy until the exit is known.                        *)
THEOREM DeviceWorkIsSerial == ExecSpec => []RemoteWorkIsSerial
<1>1. IInv => RemoteWorkIsSerial
  <2> SUFFICES ASSUME IInv,
                      NEW i \in DOMAIN tasks, NEW j \in DOMAIN tasks,
                      tasks[i].session = tasks[j].session,
                      remote[i].phase = "running",
                      remote[j].phase = "running"
               PROVE  i = j
    BY DEF RemoteWorkIsSerial
  <2>1. Active(i) /\ Active(j)
    BY RunningIsActive
  <2>2. i \in Nat /\ j \in Nat
    BY TaskRows DEF IInv, WorkInv
  <2> QED
    BY <2>1, <2>2 DEF IInv, WorkInv, WorkIsSerial, Active
<1> QED
  BY <1>1, IInvAlways, PTL

(* While the user controls a session no command of it runs on the device,  *)
(* no ssh of it is up and no worker is about to start one.                 *)
THEOREM ControlledDevicesAreQuiet == ExecSpec => []ControlMeansQuiet
<1>1. IInv => ControlMeansQuiet
  <2> SUFFICES ASSUME IInv, NEW i \in DOMAIN tasks, Controlled(tasks[i].session)
               PROVE  /\ remote[i].phase # "running"
                      /\ ssh[i].phase # "up"
                      /\ \A w \in Workers :
                           workers[w].task = i => workers[w].pc \notin Executing
    BY DEF ControlMeansQuiet
  <2>1. tasks[i].session \in SessionIds
    BY TaskRows DEF IInv, WorkInv, TaskRow
  <2>2. ~Active(i)
    BY <2>1 DEF IInv, WorkInv, ControlExcludesWork, Busy
  <2> QED
    BY <2>2, RunningIsActive
<1> QED
  BY <1>1, IInvAlways, PTL

=============================================================================
