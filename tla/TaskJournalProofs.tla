-------------------------- MODULE TaskJournalProofs --------------------------
(***************************************************************************)
(* Proofs that every journal TaskJournal can reach is well formed and      *)
(* serial, for any sets of sessions, requests and tokens, any lease, any   *)
(* movement of the wall clock and any number of boots.                     *)
(***************************************************************************)
EXTENDS TaskJournal, TLAPS, SequenceTheorems

(***************************************************************************)
(* The table of tasks as a function.                                       *)
(***************************************************************************)

(* A well-typed table is a function from 1 .. n to rows. *)
LEMMA TaskRows ==
    ASSUME TypeOK
    PROVE  /\ Len(tasks) \in Nat
           /\ tasks \in [1 .. Len(tasks) -> TaskRow]
           /\ DOMAIN tasks = 1 .. Len(tasks)
           /\ \A i \in DOMAIN tasks : tasks[i] \in TaskRow
<1>1. tasks \in Seq(TaskRow)
  BY DEF TypeOK
<1>2. /\ Len(tasks) \in Nat
      /\ tasks \in [1 .. Len(tasks) -> TaskRow]
      /\ DOMAIN tasks = 1 .. Len(tasks)
  BY <1>1, LenProperties, Zenon
<1> QED
  BY <1>2

(* And the converse: such a function is a well-typed table. *)
LEMMA RowsMakeTable ==
    ASSUME NEW n \in Nat, NEW f \in [1 .. n -> TaskRow]
    PROVE  f \in Seq(TaskRow)
BY SeqDef, Zenon

(* Rewriting the rows of a table in place gives a table.  SweepStale does  *)
(* so for every row, the UPDATEs of one task for one row.                  *)
LEMMA RewrittenTable ==
    ASSUME TypeOK,
           DOMAIN tasks' = DOMAIN tasks,
           tasks' = [i \in DOMAIN tasks |-> tasks'[i]],
           \A i \in DOMAIN tasks : tasks'[i] \in TaskRow
    PROVE  tasks' \in Seq(TaskRow)
<1> DEFINE f == [i \in DOMAIN tasks |-> tasks'[i]]
<1>1. f \in [1 .. Len(tasks) -> TaskRow]
  BY TaskRows
<1>2. tasks' = f
  OBVIOUS
<1> HIDE DEF f
<1> QED
  BY <1>1, <1>2, TaskRows, RowsMakeTable

(***************************************************************************)
(* What each kind of step does to the two tables.                          *)
(***************************************************************************)

(* A step that only rewrites rows, and never makes an exited task active.  *)
RewritesTasks ==
    /\ DOMAIN tasks' = DOMAIN tasks
    /\ tasks' = [i \in DOMAIN tasks |-> tasks'[i]]
    /\ \A i \in DOMAIN tasks :
         /\ tasks'[i] \in TaskRow
         /\ tasks'[i].session = tasks[i].session
         /\ tasks'[i].request = tasks[i].request
         /\ tasks'[i].state # "exited" => tasks[i].state # "exited"

(* The sweep and the UPDATEs of one task rewrite rows. *)
LEMMA SweepRewrites ==
    ASSUME TypeOK, SweepStale
    PROVE  RewritesTasks
BY TaskRows DEF SweepStale, RewritesTasks, Stale, TaskRow, TaskStates

LEMMA ClaimRewrites ==
    ASSUME TypeOK, NEW i \in DOMAIN tasks, ClaimTask(i)
    PROVE  RewritesTasks
<1>1. clock \in Clock /\ boot \in Boots
  BY DEF TypeOK
<1> QED
  BY <1>1, TaskRows DEF ClaimTask, RewritesTasks, TaskRow, TaskStates

LEMMA HeartbeatRewrites ==
    ASSUME TypeOK, NEW i \in DOMAIN tasks, Heartbeat(i)
    PROVE  RewritesTasks
<1>1. clock \in Clock
  BY DEF TypeOK
<1> QED
  BY <1>1, TaskRows DEF Heartbeat, RewritesTasks, TaskRow

LEMMA FinishRewrites ==
    ASSUME TypeOK, NEW i \in DOMAIN tasks,
           NEW exit \in ExitCodes \cup {None}, FinishTask(i, exit)
    PROVE  RewritesTasks
BY TaskRows DEF FinishTask, RewritesTasks, TaskRow, TaskStates

(* Every task step rewrites rows and touches nothing else. *)
LEMMA TaskStepRewrites ==
    ASSUME TypeOK, TaskStep
    PROVE  RewritesTasks /\ UNCHANGED <<sessions, clock, boot>>
<1>1. PICK i \in DOMAIN tasks :
        \/ ClaimTask(i)
        \/ Heartbeat(i)
        \/ \E exit \in ExitCodes \cup {None} : FinishTask(i, exit)
  BY DEF TaskStep
<1>2. CASE ClaimTask(i)
  BY <1>2, ClaimRewrites DEF ClaimTask
<1>3. CASE Heartbeat(i)
  BY <1>3, HeartbeatRewrites DEF Heartbeat
<1>4. CASE \E exit \in ExitCodes \cup {None} : FinishTask(i, exit)
  BY <1>4, FinishRewrites DEF FinishTask
<1> QED
  BY <1>1, <1>2, <1>3, <1>4

(* A reservation appends one accepted row, and the older rows stay. *)
LEMMA ReserveAppends ==
    ASSUME TypeOK, NEW s \in SessionIds, NEW r \in RequestIds,
           NEW e \in Executions, ReserveTask(s, r, e)
    PROVE  /\ tasks' \in Seq(TaskRow)
           /\ DOMAIN tasks' = 1 .. Len(tasks) + 1
           /\ \A i \in DOMAIN tasks : tasks'[i] = tasks[i]
           /\ tasks'[Len(tasks) + 1] = Accepted(s, r, e)
<1>1. Accepted(s, r, e) \in TaskRow
  BY DEF Accepted, TaskRow, TaskStates
<1>2. tasks \in Seq(TaskRow)
  BY DEF TypeOK
<1>3. tasks' = Append(tasks, Accepted(s, r, e))
  BY DEF ReserveTask
<1>4. /\ tasks' \in Seq(TaskRow)
      /\ Len(tasks') = Len(tasks) + 1
      /\ \A i \in 1 .. Len(tasks) : tasks'[i] = tasks[i]
      /\ tasks'[Len(tasks) + 1] = Accepted(s, r, e)
  BY <1>1, <1>2, <1>3, AppendProperties
<1>5. DOMAIN tasks' = 1 .. Len(tasks')
  BY <1>4, LenProperties, Zenon
<1> QED
  BY <1>4, <1>5, TaskRows

(* The steps of the table sessions keep the tasks; the others keep both.   *)
SessionsOnly ==
    \/ ExpireControls
    \/ \E s \in SessionIds :
         \/ \E d \in Devices : CreateSession(s, d)
         \/ \E t \in Tokens : \/ TakeSession(s, t)
                              \/ ReleaseSession(s, t)
                              \/ RenewSession(s, t)

Reserves ==
    \E s \in SessionIds, r \in RequestIds, e \in Executions :
      ReserveTask(s, r, e)

MachineStep == (\E at \in Clock : SetClock(at)) \/ Reboot

(* Every step is of one of six kinds. *)
LEMMA StepKinds ==
    ASSUME [Next]_jvars
    PROVE  SessionsOnly \/ Reserves \/ SweepStale \/ TaskStep \/ MachineStep
             \/ UNCHANGED jvars
BY DEF Next, SessionStep, SessionsOnly, Reserves, MachineStep

LEMMA SessionsOnlyKeepsTasks ==
    ASSUME SessionsOnly
    PROVE  UNCHANGED <<tasks, clock, boot>>
BY DEF SessionsOnly, ExpireControls, CreateSession, TakeSession,
       ReleaseSession, RenewSession

(***************************************************************************)
(* Type correctness.                                                       *)
(***************************************************************************)

(* The journal starts empty and well typed. *)
LEMMA InitTypeOK == Init => TypeOK
<1> SUFFICES ASSUME Init PROVE TypeOK
  OBVIOUS
<1>1. tasks \in Seq(TaskRow)
  BY EmptySeq DEF Init
<1>2. boot \in Boots
  BY JournalAssumption DEF Init, Boots
<1> QED
  BY <1>1, <1>2 DEF Init, TypeOK

(* Each statement on the table sessions writes well-typed rows. *)
LEMMA SessionsTypeOK ==
    ASSUME TypeOK, SessionsOnly
    PROVE  sessions' \in [SessionIds -> SessionRow \cup {None}]
<1>1. /\ sessions \in [SessionIds -> SessionRow \cup {None}]
      /\ clock \in Clock
  BY DEF TypeOK
<1>2. ASSUME NEW row \in SessionRow
      PROVE  Uncontrolled(row) \in SessionRow
  BY DEF Uncontrolled, SessionRow
<1>3. CASE ExpireControls
  BY <1>1, <1>2, <1>3 DEF ExpireControls
<1>4. ASSUME NEW s \in SessionIds, NEW d \in Devices, CreateSession(s, d)
      PROVE  sessions' \in [SessionIds -> SessionRow \cup {None}]
  BY <1>1, <1>4 DEF CreateSession, SessionRow
<1>5. ASSUME NEW s \in SessionIds, NEW t \in Tokens, TakeSession(s, t)
      PROVE  sessions' \in [SessionIds -> SessionRow \cup {None}]
  BY <1>1, <1>5 DEF TakeSession, SessionRow
<1>6. ASSUME NEW s \in SessionIds, NEW t \in Tokens, ReleaseSession(s, t)
      PROVE  sessions' \in [SessionIds -> SessionRow \cup {None}]
  BY <1>1, <1>2, <1>6 DEF ReleaseSession
<1>7. ASSUME NEW s \in SessionIds, NEW t \in Tokens, RenewSession(s, t)
      PROVE  sessions' \in [SessionIds -> SessionRow \cup {None}]
  BY <1>1, <1>7 DEF RenewSession, SessionRow
<1> QED
  BY <1>3, <1>4, <1>5, <1>6, <1>7 DEF SessionsOnly

LEMMA StepTypeOK == TypeOK /\ [Next]_jvars => TypeOK'
<1> SUFFICES ASSUME TypeOK, [Next]_jvars PROVE TypeOK'
  OBVIOUS
<1>1. CASE SessionsOnly
  BY <1>1, SessionsTypeOK, SessionsOnlyKeepsTasks DEF TypeOK
<1>2. CASE Reserves
  BY <1>2, ReserveAppends DEF Reserves, ReserveTask, TypeOK
<1>3. CASE SweepStale
  <2>1. tasks' \in Seq(TaskRow)
    BY <1>3, SweepRewrites, RewrittenTable DEF RewritesTasks
  <2> QED
    BY <1>3, <2>1 DEF SweepStale, TypeOK
<1>4. CASE TaskStep
  <2>1. tasks' \in Seq(TaskRow)
    BY <1>4, TaskStepRewrites, RewrittenTable DEF RewritesTasks
  <2> QED
    BY <1>4, <2>1, TaskStepRewrites DEF TypeOK
<1>5. CASE MachineStep
  BY <1>5, JournalAssumption DEF MachineStep, SetClock, Reboot, TypeOK, Boots
<1>6. CASE UNCHANGED jvars
  BY <1>6 DEF jvars, TypeOK
<1> QED
  BY <1>1, <1>2, <1>3, <1>4, <1>5, <1>6, StepKinds

(* Every reachable journal is well typed: tasks is a table whose ids are   *)
(* dense, and every column holds a value the code may write there.         *)
THEOREM TypeCorrect == JournalSpec => []TypeOK
<1>1. Init => TypeOK
  BY InitTypeOK
<1>2. TypeOK /\ [Next]_jvars => TypeOK'
  BY StepTypeOK
<1> QED
  BY <1>1, <1>2, PTL DEF JournalSpec

(***************************************************************************)
(* Serial work, request identity and exclusion by user control.            *)
(***************************************************************************)

(* Rewriting rows keeps the order of work and the identity of requests,    *)
(* and makes no session busy: an exited task never becomes active again.   *)
LEMMA RewritesKeepWork ==
    ASSUME RewritesTasks, WorkIsSerial, RequestNamesOneTask
    PROVE  /\ WorkIsSerial'
           /\ RequestNamesOneTask'
           /\ \A s : Busy(s)' => Busy(s)
<1>1. \A i \in DOMAIN tasks : Active(i)' => Active(i)
  BY DEF RewritesTasks, Active
<1>2. WorkIsSerial'
  BY <1>1 DEF RewritesTasks, WorkIsSerial
<1>3. RequestNamesOneTask'
  BY DEF RewritesTasks, RequestNamesOneTask
<1>4. \A s : Busy(s)' => Busy(s)
  BY <1>1 DEF RewritesTasks, Busy
<1> QED
  BY <1>2, <1>3, <1>4

(* A reservation is made only where nothing is active and the request is   *)
(* new, so the appended row is the one active row of its session.          *)
LEMMA ReserveKeepsWork ==
    ASSUME TypeOK, WorkIsSerial, RequestNamesOneTask,
           NEW s \in SessionIds, NEW r \in RequestIds, NEW e \in Executions,
           ReserveTask(s, r, e)
    PROVE  /\ WorkIsSerial'
           /\ RequestNamesOneTask'
           /\ \A q \in SessionIds \ {s} : Busy(q)' => Busy(q)
<1> DEFINE n == Len(tasks) + 1
<1>1. /\ n \in Nat \ {0}
      /\ DOMAIN tasks' = 1 .. n
      /\ DOMAIN tasks = 1 .. n - 1
      /\ \A i \in DOMAIN tasks : tasks'[i] = tasks[i]
      /\ tasks'[n].session = s
      /\ tasks'[n].request = r
  <2>1. /\ DOMAIN tasks' = 1 .. n
        /\ \A i \in DOMAIN tasks : tasks'[i] = tasks[i]
        /\ tasks'[n] = Accepted(s, r, e)
    BY ReserveAppends
  <2>2. n \in Nat \ {0} /\ DOMAIN tasks = 1 .. n - 1
    BY TaskRows
  <2> QED
    BY <2>1, <2>2 DEF Accepted
<1> HIDE DEF n
<1>2. \A i \in DOMAIN tasks : Active(i)' <=> Active(i)
  BY <1>1 DEF Active
<1>3. \A i \in DOMAIN tasks : tasks[i].session = s => ~Active(i)
  BY DEF ReserveTask, Busy
<1>4. \A i \in DOMAIN tasks : ~(tasks[i].session = s /\ tasks[i].request = r)
  BY DEF ReserveTask, Registered
<1>5. WorkIsSerial'
  <2> SUFFICES ASSUME NEW i \in DOMAIN tasks', NEW j \in DOMAIN tasks',
                      i < j, tasks'[i].session = tasks'[j].session
               PROVE  ~Active(i)'
    BY DEF WorkIsSerial
  <2>1. i \in DOMAIN tasks
    BY <1>1
  <2>2. CASE j = n
    BY <1>1, <1>2, <1>3, <2>1, <2>2
  <2>3. CASE j # n
    <3>1. j \in DOMAIN tasks
      BY <1>1, <2>3
    <3> QED
      BY <1>1, <1>2, <2>1, <3>1 DEF WorkIsSerial
  <2> QED
    BY <2>2, <2>3
<1>6. RequestNamesOneTask'
  <2> SUFFICES ASSUME NEW i \in DOMAIN tasks', NEW j \in DOMAIN tasks',
                      tasks'[i].session = tasks'[j].session,
                      tasks'[i].request = tasks'[j].request
               PROVE  i = j
    BY DEF RequestNamesOneTask
  <2>1. \A k \in DOMAIN tasks' : k = n \/ k \in DOMAIN tasks
    BY <1>1
  <2> QED
    BY <1>1, <1>4, <2>1 DEF RequestNamesOneTask
<1>7. \A q \in SessionIds \ {s} : Busy(q)' => Busy(q)
  <2> SUFFICES ASSUME NEW q \in SessionIds \ {s}, NEW i \in DOMAIN tasks',
                      tasks'[i].session = q, Active(i)'
               PROVE  Busy(q)
    BY DEF Busy
  <2>1. i \in DOMAIN tasks
    BY <1>1
  <2> QED
    BY <1>1, <1>2, <2>1 DEF Busy
<1> QED
  BY <1>5, <1>6, <1>7

(* A step on the table sessions gives control only where nothing is        *)
(* active.                                                                 *)
LEMMA ControlGivenWhenQuiet ==
    ASSUME TypeOK, SessionsOnly, NEW s \in SessionIds,
           Controlled(s)'
    PROVE  Controlled(s) \/ ~Busy(s)
<1>1. sessions \in [SessionIds -> SessionRow \cup {None}]
  BY DEF TypeOK
<1>2. \A row \in SessionRow : ~Uncontrolled(row).user_controlled
  BY DEF Uncontrolled, SessionRow
<1>3. CASE ExpireControls
  BY <1>1, <1>2, <1>3 DEF ExpireControls, Controlled
<1>4. ASSUME NEW q \in SessionIds, NEW d \in Devices, CreateSession(q, d)
      PROVE  Controlled(s)
  BY <1>1, <1>4 DEF CreateSession, Controlled
<1>5. ASSUME NEW q \in SessionIds, NEW t \in Tokens, TakeSession(q, t)
      PROVE  Controlled(s) \/ ~Busy(s)
  BY <1>1, <1>5 DEF TakeSession, Controlled
<1>6. ASSUME NEW q \in SessionIds, NEW t \in Tokens, ReleaseSession(q, t)
      PROVE  Controlled(s)
  BY <1>1, <1>2, <1>6 DEF ReleaseSession, Controlled
<1>7. ASSUME NEW q \in SessionIds, NEW t \in Tokens, RenewSession(q, t)
      PROVE  Controlled(s)
  BY <1>1, <1>7 DEF RenewSession, SessionRow, Controlled
<1> QED
  BY <1>3, <1>4, <1>5, <1>6, <1>7 DEF SessionsOnly

(* The three properties of the work in a session, together: each needs     *)
(* the type of the tables, and control needs that exited work stays so.    *)
WorkInv == TypeOK /\ WorkIsSerial /\ RequestNamesOneTask /\ ControlExcludesWork

LEMMA InitWorkInv == Init => WorkInv
BY InitTypeOK DEF Init, WorkInv, WorkIsSerial, RequestNamesOneTask,
                  ControlExcludesWork, Controlled

LEMMA StepWorkInv == WorkInv /\ [Next]_jvars => WorkInv'
<1> SUFFICES ASSUME WorkInv, [Next]_jvars PROVE WorkInv'
  OBVIOUS
<1>0. TypeOK /\ WorkIsSerial /\ RequestNamesOneTask /\ ControlExcludesWork
  BY DEF WorkInv
<1>1. TypeOK'
  BY <1>0, StepTypeOK
<1>2. CASE SessionsOnly
  <2>1. UNCHANGED tasks
    BY <1>2, SessionsOnlyKeepsTasks
  <2>2. WorkIsSerial' /\ RequestNamesOneTask' /\ \A s : Busy(s)' <=> Busy(s)
    BY <1>0, <2>1 DEF WorkIsSerial, RequestNamesOneTask, Busy, Active
  <2>3. ControlExcludesWork'
    BY <1>0, <1>2, <2>2, ControlGivenWhenQuiet DEF ControlExcludesWork
  <2> QED
    BY <1>1, <2>2, <2>3 DEF WorkInv
<1>3. CASE Reserves
  <2>1. PICK s \in SessionIds, r \in RequestIds, e \in Executions :
          ReserveTask(s, r, e)
    BY <1>3 DEF Reserves
  <2>2. /\ WorkIsSerial'
        /\ RequestNamesOneTask'
        /\ \A q \in SessionIds \ {s} : Busy(q)' => Busy(q)
    BY <1>0, <2>1, ReserveKeepsWork
  <2>3. UNCHANGED sessions /\ ~Controlled(s)
    BY <2>1 DEF ReserveTask
  <2>4. ControlExcludesWork'
    BY <1>0, <2>2, <2>3 DEF ControlExcludesWork, Controlled
  <2> QED
    BY <1>1, <2>2, <2>4 DEF WorkInv
<1>4. CASE SweepStale \/ TaskStep
  <2>1. RewritesTasks /\ UNCHANGED sessions
    BY <1>0, <1>4, SweepRewrites, TaskStepRewrites DEF SweepStale
  <2>2. WorkIsSerial' /\ RequestNamesOneTask' /\ \A s : Busy(s)' => Busy(s)
    BY <1>0, <2>1, RewritesKeepWork
  <2>3. ControlExcludesWork'
    BY <1>0, <2>1, <2>2 DEF ControlExcludesWork, Controlled
  <2> QED
    BY <1>1, <2>2, <2>3 DEF WorkInv
<1>5. CASE MachineStep \/ UNCHANGED jvars
  <2>1. UNCHANGED <<tasks, sessions>>
    BY <1>5 DEF MachineStep, SetClock, Reboot, jvars
  <2> QED
    BY <1>0, <1>1, <2>1 DEF WorkInv, WorkIsSerial, RequestNamesOneTask,
                            ControlExcludesWork, Controlled, Busy, Active
<1> QED
  BY <1>2, <1>3, <1>4, <1>5, StepKinds

LEMMA WorkInvAlways == JournalSpec => []WorkInv
<1>1. Init => WorkInv
  BY InitWorkInv
<1>2. WorkInv /\ [Next]_jvars => WorkInv'
  BY StepWorkInv
<1> QED
  BY <1>1, <1>2, PTL DEF JournalSpec

(* Serial work: a session never has two tasks that run or may be running,  *)
(* and a request is accepted only after every earlier one exited.          *)
THEOREM SerialWork == JournalSpec => []WorkIsSerial
<1>1. WorkInv => WorkIsSerial
  BY DEF WorkInv
<1> QED
  BY <1>1, WorkInvAlways, PTL

(* Exclusion: the user and the agent never act in a session at once.       *)
THEOREM ControlIsExclusive == JournalSpec => []ControlExcludesWork
<1>1. WorkInv => ControlExcludesWork
  BY DEF WorkInv
<1> QED
  BY <1>1, WorkInvAlways, PTL

(* Request identity: retries of a request never register a second task.    *)
THEOREM RequestIdentity == JournalSpec => []RequestNamesOneTask
<1>1. WorkInv => RequestNamesOneTask
  BY DEF WorkInv
<1> QED
  BY <1>1, WorkInvAlways, PTL

(***************************************************************************)
(* Control of a session has an owner.                                      *)
(***************************************************************************)

(* ControlHasOwner of one row. *)
Owned(row) ==
    /\ row.user_controlled <=> row.control_token # None
    /\ row.user_controlled <=> row.control_lease # None
    /\ row.control_token \notin ShortTokens

LEMMA UncontrolledIsOwned ==
    ASSUME NEW row \in SessionRow
    PROVE  Owned(Uncontrolled(row))
BY JournalAssumption DEF Owned, Uncontrolled, SessionRow

(* A step that rewrites one row leaves the others owned. *)
LEMMA RowsOwned ==
    ASSUME TypeOK, ControlHasOwner, NEW s \in SessionIds,
           NEW row, Owned(row),
           sessions' = [sessions EXCEPT ![s] = row]
    PROVE  ControlHasOwner'
BY DEF TypeOK, ControlHasOwner, Owned

LEMMA SessionsOnlyOwned ==
    ASSUME TypeOK, ControlHasOwner, SessionsOnly
    PROVE  ControlHasOwner'
<1>1. /\ sessions \in [SessionIds -> SessionRow \cup {None}]
      /\ \A s \in SessionIds : sessions[s] # None =>
           sessions[s] \in SessionRow /\ Owned(sessions[s])
  BY DEF TypeOK, ControlHasOwner, Owned
<1>2. clock # None
  BY JournalAssumption DEF TypeOK, Clock
<1>3. CASE ExpireControls
  <2>1. \A s \in SessionIds : sessions'[s] # None => Owned(sessions'[s])
    BY <1>1, <1>3, UncontrolledIsOwned DEF ExpireControls
  <2> QED
    BY <2>1 DEF ControlHasOwner, Owned
<1>4. ASSUME NEW s \in SessionIds, NEW d \in Devices, CreateSession(s, d)
      PROVE  ControlHasOwner'
  <2> DEFINE row == [device |-> d, user_controlled |-> FALSE,
                     control_token |-> None, control_lease |-> None]
  <2>1. Owned(row)
    BY JournalAssumption DEF Owned
  <2>2. sessions' = [sessions EXCEPT ![s] = row]
    BY <1>4 DEF CreateSession
  <2> HIDE DEF row
  <2> QED
    BY <2>1, <2>2, RowsOwned
<1>5. ASSUME NEW s \in SessionIds, NEW t \in Tokens, TakeSession(s, t)
      PROVE  ControlHasOwner'
  <2> DEFINE row == [sessions[s] EXCEPT !.user_controlled = TRUE,
                                        !.control_token = t,
                                        !.control_lease = clock]
  <2>1. sessions[s] \in SessionRow
    BY <1>1, <1>5 DEF TakeSession
  <2>2. /\ row.user_controlled = TRUE
        /\ row.control_token = t
        /\ row.control_lease = clock
    BY <2>1 DEF SessionRow
  <2>3. Owned(row)
    BY <1>2, <1>5, <2>2, JournalAssumption DEF Owned, TakeSession
  <2>4. sessions' = [sessions EXCEPT ![s] = row]
    BY <1>1, <1>5 DEF TakeSession
  <2> HIDE DEF row
  <2> QED
    BY <2>3, <2>4, RowsOwned
<1>6. ASSUME NEW s \in SessionIds, NEW t \in Tokens, ReleaseSession(s, t)
      PROVE  ControlHasOwner'
  <2>1. /\ Owned(Uncontrolled(sessions[s]))
        /\ sessions' = [sessions EXCEPT ![s] = Uncontrolled(sessions[s])]
    BY <1>1, <1>6, UncontrolledIsOwned DEF ReleaseSession
  <2> QED
    BY <2>1, RowsOwned
<1>7. ASSUME NEW s \in SessionIds, NEW t \in Tokens, RenewSession(s, t)
      PROVE  ControlHasOwner'
  <2> DEFINE row == [sessions[s] EXCEPT !.control_lease = clock]
  <2>1. sessions[s] \in SessionRow /\ Owned(sessions[s])
    BY <1>1, <1>7 DEF RenewSession
  <2>2. /\ row.user_controlled = sessions[s].user_controlled
        /\ row.control_token = sessions[s].control_token
        /\ row.control_lease = clock
    BY <2>1 DEF SessionRow
  <2>3. Owned(row)
    BY <1>2, <1>7, <2>1, <2>2 DEF Owned, RenewSession
  <2>4. sessions' = [sessions EXCEPT ![s] = row]
    BY <1>1, <1>7 DEF RenewSession
  <2> HIDE DEF row
  <2> QED
    BY <2>3, <2>4, RowsOwned
<1> QED
  BY <1>3, <1>4, <1>5, <1>6, <1>7 DEF SessionsOnly

LEMMA StepOwned == TypeOK /\ ControlHasOwner /\ [Next]_jvars => ControlHasOwner'
<1> SUFFICES ASSUME TypeOK, ControlHasOwner, [Next]_jvars PROVE ControlHasOwner'
  OBVIOUS
<1>1. CASE ~SessionsOnly
  <2>1. UNCHANGED sessions
    BY <1>1, StepKinds, TaskStepRewrites
       DEF Reserves, ReserveTask, SweepStale, MachineStep, SetClock, Reboot, jvars
  <2> QED
    BY <2>1 DEF ControlHasOwner
<1> QED
  BY <1>1, SessionsOnlyOwned

(* Ownership: while the user controls a session there is a long token that *)
(* can return it and a lease that can lapse, and otherwise no token works. *)
THEOREM ControlAlwaysHasOwner == JournalSpec => []ControlHasOwner
<1>1. Init => TypeOK /\ ControlHasOwner
  BY InitTypeOK DEF Init, ControlHasOwner
<1>2. (TypeOK /\ ControlHasOwner) /\ [Next]_jvars => (TypeOK /\ ControlHasOwner)'
  BY StepTypeOK, StepOwned
<1> QED
  BY <1>1, <1>2, PTL DEF JournalSpec

(***************************************************************************)
(* The columns of a row agree, and claims and exits are final.             *)
(***************************************************************************)

(* The reserved row agrees with itself, and the others were not touched.   *)
LEMMA ReserveRowsAgree ==
    ASSUME TypeOK, RowsAgree, Reserves
    PROVE  RowsAgree'
<1>1. PICK s \in SessionIds, r \in RequestIds, e \in Executions :
        ReserveTask(s, r, e)
  BY DEF Reserves
<1>2. UNCHANGED boot
  BY <1>1 DEF ReserveTask
<1>3. ASSUME NEW i \in DOMAIN tasks'
      PROVE  \/ i \in DOMAIN tasks /\ tasks'[i] = tasks[i]
             \/ tasks'[i] = Accepted(s, r, e)
  BY <1>1, ReserveAppends, TaskRows
<1> QED
  BY <1>2, <1>3 DEF RowsAgree, Accepted

(* Sweeping keeps lease, stamp and code, and only running rows change. *)
LEMMA SweepRowsAgree ==
    ASSUME TypeOK, RowsAgree, SweepStale
    PROVE  RowsAgree'
<1>1. \A i \in DOMAIN tasks :
        /\ tasks'[i].lease_at = tasks[i].lease_at
        /\ tasks'[i].worker_boot = tasks[i].worker_boot
        /\ tasks'[i].exit_code = tasks[i].exit_code
        /\ \/ tasks'[i].state = tasks[i].state
           \/ tasks[i].state = "running" /\ tasks'[i].state = "unknown"
  BY TaskRows DEF SweepStale, Stale, TaskRow
<1>2. DOMAIN tasks' = DOMAIN tasks /\ UNCHANGED boot
  BY DEF SweepStale
<1> QED
  BY <1>1, <1>2 DEF RowsAgree

(* The UPDATEs of one task: every other row stays as it was.               *)
LEMMA TaskStepRowsAgree ==
    ASSUME TypeOK, RowsAgree, TaskStep
    PROVE  RowsAgree'
<1>1. /\ boot \in Nat
      /\ clock \in Nat
      /\ None \notin Nat
  BY JournalAssumption DEF TypeOK, Boots, Clock
<1>2. \A i \in DOMAIN tasks : tasks[i] \in TaskRow
  BY TaskRows
<1>3. ASSUME NEW i \in DOMAIN tasks, ClaimTask(i)
      PROVE  RowsAgree'
  <2>1. tasks[i].exit_code = None
    BY <1>3 DEF ClaimTask, RowsAgree
  <2>2. DOMAIN tasks' = DOMAIN tasks /\ UNCHANGED boot
    BY <1>3 DEF ClaimTask
  <2>3. /\ tasks'[i].state = "running"
        /\ tasks'[i].lease_at = clock
        /\ tasks'[i].worker_boot = boot
        /\ tasks'[i].exit_code = None
    BY <1>2, <1>3, <2>1 DEF ClaimTask, TaskRow
  <2>4. \A j \in DOMAIN tasks \ {i} : tasks'[j] = tasks[j]
    BY <1>3 DEF ClaimTask
  <2> QED
    BY <1>1, <2>2, <2>3, <2>4 DEF RowsAgree
<1>4. ASSUME NEW i \in DOMAIN tasks, Heartbeat(i)
      PROVE  RowsAgree'
  <2>1. DOMAIN tasks' = DOMAIN tasks /\ UNCHANGED boot
    BY <1>4 DEF Heartbeat
  <2>2. /\ tasks'[i].lease_at = clock
        /\ tasks'[i].state = tasks[i].state
        /\ tasks'[i].worker_boot = tasks[i].worker_boot
        /\ tasks'[i].exit_code = tasks[i].exit_code
        /\ tasks[i].worker_boot = boot
    BY <1>2, <1>4 DEF Heartbeat, TaskRow
  <2>3. \A j \in DOMAIN tasks \ {i} : tasks'[j] = tasks[j]
    BY <1>4 DEF Heartbeat
  <2> QED
    BY <1>1, <2>1, <2>2, <2>3 DEF RowsAgree
<1>5. ASSUME NEW i \in DOMAIN tasks, NEW exit \in ExitCodes \cup {None},
             FinishTask(i, exit)
      PROVE  RowsAgree'
  <2>1. DOMAIN tasks' = DOMAIN tasks /\ UNCHANGED boot
    BY <1>5 DEF FinishTask
  <2>2. /\ tasks'[i].state = IF exit # None THEN "exited" ELSE "unknown"
        /\ tasks'[i].exit_code = exit
        /\ tasks'[i].lease_at = tasks[i].lease_at
        /\ tasks'[i].worker_boot = tasks[i].worker_boot
        /\ tasks[i].state # "accepted"
    BY <1>2, <1>5 DEF FinishTask, TaskRow
  <2>3. \A j \in DOMAIN tasks \ {i} : tasks'[j] = tasks[j]
    BY <1>5 DEF FinishTask
  <2> QED
    BY <2>1, <2>2, <2>3 DEF RowsAgree
<1> QED
  BY <1>3, <1>4, <1>5 DEF TaskStep

LEMMA StepRowsAgree == TypeOK /\ RowsAgree /\ [Next]_jvars => RowsAgree'
<1> SUFFICES ASSUME TypeOK, RowsAgree, [Next]_jvars PROVE RowsAgree'
  OBVIOUS
<1>1. CASE SessionsOnly \/ UNCHANGED jvars
  BY <1>1, SessionsOnlyKeepsTasks DEF jvars, RowsAgree
<1>2. CASE MachineStep
  <2>1. UNCHANGED tasks /\ (boot' = boot \/ boot' = boot + 1)
    BY <1>2 DEF MachineStep, SetClock, Reboot
  <2>2. boot \in Nat /\ \A i \in DOMAIN tasks :
                          tasks[i].worker_boot \in Nat \cup {None}
    BY TaskRows DEF TypeOK, Boots, TaskRow
  <2> QED
    BY <2>1, <2>2 DEF RowsAgree
<1> QED
  BY <1>1, <1>2, StepKinds, ReserveRowsAgree, SweepRowsAgree, TaskStepRowsAgree

(* Row agreement: in particular a code is recorded exactly for the tasks   *)
(* that exited, and the sweep's tests are defined on every running row.    *)
THEOREM RowsAlwaysAgree == JournalSpec => []RowsAgree
<1>1. Init => TypeOK /\ RowsAgree
  BY InitTypeOK DEF Init, RowsAgree
<1>2. (TypeOK /\ RowsAgree) /\ [Next]_jvars => (TypeOK /\ RowsAgree)'
  BY StepTypeOK, StepRowsAgree
<1> QED
  BY <1>1, <1>2, PTL DEF JournalSpec

(* The formula under the box of ClaimsAndExitsAreFinal. *)
FinalStep ==
    /\ DOMAIN tasks \subseteq DOMAIN tasks'
    /\ \A i \in DOMAIN tasks :
         /\ tasks'[i].session = tasks[i].session
         /\ tasks'[i].request = tasks[i].request
         /\ tasks'[i].execution = tasks[i].execution
         /\ tasks[i].state # "accepted" =>
              /\ tasks'[i].state # "accepted"
              /\ tasks'[i].worker_boot = tasks[i].worker_boot
         /\ tasks[i].state = "exited" => tasks'[i] = tasks[i]

LEMMA StepFinal == TypeOK /\ [Next]_jvars => [FinalStep]_jvars
<1> SUFFICES ASSUME TypeOK, [Next]_jvars PROVE FinalStep
  OBVIOUS
<1>0. \A i \in DOMAIN tasks : tasks[i] \in TaskRow
  BY TaskRows
<1>1. CASE SessionsOnly \/ MachineStep \/ UNCHANGED jvars
  <2>1. UNCHANGED tasks
    BY <1>1, SessionsOnlyKeepsTasks DEF MachineStep, SetClock, Reboot, jvars
  <2> QED
    BY <2>1 DEF FinalStep
<1>2. CASE Reserves
  <2>1. PICK s \in SessionIds, r \in RequestIds, e \in Executions :
          ReserveTask(s, r, e)
    BY <1>2 DEF Reserves
  <2>2. DOMAIN tasks \subseteq DOMAIN tasks'
    BY <2>1, ReserveAppends, TaskRows
  <2>3. \A i \in DOMAIN tasks : tasks'[i] = tasks[i]
    BY <2>1, ReserveAppends
  <2> QED
    BY <2>2, <2>3 DEF FinalStep
<1>3. CASE SweepStale
  BY <1>0, <1>3 DEF SweepStale, Stale, FinalStep, TaskRow
<1>4. ASSUME NEW i \in DOMAIN tasks, ClaimTask(i)
      PROVE  FinalStep
  BY <1>0, <1>4 DEF ClaimTask, FinalStep, TaskRow
<1>5. ASSUME NEW i \in DOMAIN tasks, Heartbeat(i)
      PROVE  FinalStep
  BY <1>0, <1>5 DEF Heartbeat, FinalStep, TaskRow
<1>6. ASSUME NEW i \in DOMAIN tasks, NEW exit \in ExitCodes \cup {None},
             FinishTask(i, exit)
      PROVE  FinalStep
  BY <1>0, <1>6 DEF FinishTask, FinalStep, TaskRow
<1>7. CASE TaskStep
  BY <1>4, <1>5, <1>6, <1>7 DEF TaskStep
<1> QED
  BY <1>1, <1>2, <1>3, <1>7, StepKinds

(* "A claimed task is never automatically re-dispatched": whatever sweeps, *)
(* late heartbeats, late results and reboots do, a claim is never undone   *)
(* or reassigned, and a recorded exit never changes.                       *)
THEOREM ClaimsAreFinal == JournalSpec => ClaimsAndExitsAreFinal
<1>1. TypeOK /\ [Next]_jvars => [FinalStep]_jvars
  BY StepFinal
<1>2. JournalSpec => [][FinalStep]_jvars
  BY <1>1, TypeCorrect, PTL DEF JournalSpec
<1> QED
  BY <1>2 DEF FinalStep, ClaimsAndExitsAreFinal

=============================================================================
