------------------------ MODULE JournalContractProofs ------------------------
(***************************************************************************)
(* Proof that the journal implements the in-memory contract for whatever   *)
(* session is watched: every transaction of any process is, under the      *)
(* mapping of JournalContract, one call of the contract or none.  And what *)
(* the contract itself promises, which the journal therefore keeps.        *)
(***************************************************************************)
EXTENDS JournalContract, TaskJournalProofs, FiniteSetTheorems

(* The mapping makes sense only in a journal where a request names one     *)
(* task, work is serial, and the columns of a task agree.                  *)
MapInv == WorkInv /\ RowsAgree

LEMMA MapInvAlways == JournalSpec => []MapInv
<1>1. Init => MapInv
  BY InitWorkInv DEF MapInv, RowsAgree, Init
<1>2. MapInv /\ [Next]_jvars => MapInv'
  BY StepWorkInv, StepRowsAgree DEF MapInv, WorkInv
<1> QED
  BY <1>1, <1>2, PTL DEF JournalSpec

-----------------------------------------------------------------------------
(* What the contract sees of the task i of the watched session. *)
Earlier(i) == {j \in WatchedTasks : j <= i}

Seen(i) == [id        |-> Cardinality(Earlier(i)),
            execution |-> tasks[i].execution,
            state     |-> ContractState(tasks[i])]

Requests == {tasks[i].request : i \in WatchedTasks}

(* The mapping, task by task. *)
Mapping ==
    /\ DOMAIN ContractRequests = Requests
    /\ ContractRequests = [r \in Requests |-> ContractRequests[r]]
    /\ \A i \in WatchedTasks : ContractRequests[tasks[i].request] = Seen(i)

LEMMA MappingHolds == WorkInv => Mapping
<1> SUFFICES ASSUME WorkInv PROVE Mapping
  OBVIOUS
<1>1. /\ DOMAIN ContractRequests = Requests
      /\ ContractRequests = [r \in Requests |-> ContractRequests[r]]
  BY DEF ContractRequests, Requests
<1>2. ASSUME NEW i \in WatchedTasks
      PROVE  ContractRequests[tasks[i].request] = Seen(i)
  <2>1. \A j \in WatchedTasks : tasks[j].request = tasks[i].request => j = i
    BY DEF WorkInv, RequestNamesOneTask, WatchedTasks
  <2>2. TaskOf(tasks[i].request) = i
    BY <2>1 DEF TaskOf
  <2>3. tasks[i].request \in Requests
    BY DEF Requests
  <2> QED
    BY <2>2, <2>3 DEF ContractRequests, Requests, Seen, Earlier
<1> QED
  BY <1>1, <1>2 DEF Mapping

(* There are finitely many watched tasks, and as many requests as tasks. *)
LEMMA Counted ==
    ASSUME WorkInv
    PROVE  /\ WatchedTasks \subseteq 1 .. Len(tasks)
           /\ IsFiniteSet(WatchedTasks)
           /\ IsFiniteSet(Requests)
           /\ Cardinality(Requests) = Cardinality(WatchedTasks)
<1>1. WatchedTasks \subseteq 1 .. Len(tasks) /\ Len(tasks) \in Nat
  BY TaskRows DEF WorkInv, WatchedTasks
<1>2. IsFiniteSet(WatchedTasks)
  <2>1. IsFiniteSet(1 .. Len(tasks))
    BY <1>1, FS_Interval
  <2>2. WatchedTasks \in SUBSET (1 .. Len(tasks))
    BY <1>1
  <2> QED
    BY <2>1, <2>2, FS_Subset
<1> DEFINE f == [i \in WatchedTasks |-> tasks[i].request]
<1>3. f \in Bijection(WatchedTasks, Requests)
  <2>1. f \in [WatchedTasks -> Requests]
    BY DEF Requests
  <2>2. \A i, j \in WatchedTasks : f[i] = f[j] => i = j
    BY DEF WorkInv, RequestNamesOneTask, WatchedTasks
  <2>3. \A r \in Requests : \E i \in WatchedTasks : f[i] = r
    BY DEF Requests
  <2>4. DOMAIN f = WatchedTasks
    OBVIOUS
  <2> HIDE DEF f
  <2>5. f \in Injection(WatchedTasks, Requests)
    BY <2>1, <2>2, <2>4 DEF Injection, IsInjective
  <2>6. f \in Surjection(WatchedTasks, Requests)
    BY <2>1, <2>3 DEF Surjection
  <2> QED
    BY <2>5, <2>6 DEF Bijection
<1>4. ExistsBijection(WatchedTasks, Requests)
  BY <1>3 DEF ExistsBijection
<1> QED
  BY <1>1, <1>2, <1>4, FS_Bijection


(* A request is open exactly when its task is active. *)
LEMMA OpenIsActive ==
    ASSUME Mapping, NEW i \in WatchedTasks
    PROVE  Contract!Open(tasks[i].request) <=> Active(i)
<1>1. ContractRequests[tasks[i].request] = Seen(i)
  BY DEF Mapping
<1>2. Seen(i).state.kind = IF tasks[i].state = "accepted" THEN "running" ELSE tasks[i].state
  BY DEF Seen, ContractState
<1>3. Contract!Open(tasks[i].request) <=> Seen(i).state.kind # "exited"
  BY <1>1 DEF Contract!Open
<1> QED
  BY <1>2, <1>3 DEF Active

(* The contract is busy exactly when the journal finds the session busy. *)
LEMMA SameBusy ==
    ASSUME WorkInv
    PROVE  Contract!Busy <=> Busy(Watched)
<1>1. Mapping
  BY MappingHolds
<1>2. \A i \in WatchedTasks : Contract!Open(tasks[i].request) <=> Active(i)
  BY <1>1, OpenIsActive
<1>3. Contract!Busy <=> \E r \in Requests : Contract!Open(r)
  BY <1>1, Zenon DEF Mapping, Contract!Busy
<1>4. Contract!Busy <=> \E i \in WatchedTasks : Active(i)
  BY <1>2, <1>3 DEF Requests
<1> QED
  BY <1>4 DEF Busy, WatchedTasks

(* What a client may see of a task is a state of the contract. *)
LEMMA SeenStates == MapInv => \A i \in DOMAIN tasks :
                                ContractState(tasks[i]) \in Contract!TaskState
<1> SUFFICES ASSUME MapInv, NEW i \in DOMAIN tasks
             PROVE  ContractState(tasks[i]) \in Contract!TaskState
  OBVIOUS
<1>1. tasks[i] \in TaskRow
  BY TaskRows DEF MapInv, WorkInv
<1>2. tasks[i].state = "exited" <=> tasks[i].exit_code # None
  BY DEF MapInv, RowsAgree
<1>3. CASE tasks[i].state = "exited"
  <2>1. ContractState(tasks[i]) = Contract!Exited(tasks[i].exit_code)
    BY <1>3 DEF ContractState, Contract!Exited
  <2>2. tasks[i].exit_code \in ExitCodes
    BY <1>1, <1>2, <1>3 DEF TaskRow
  <2> QED
    BY <2>1, <2>2 DEF Contract!TaskState
<1>4. CASE tasks[i].state \in {"accepted", "running"}
  <2>1. ContractState(tasks[i]) = Contract!Running
    BY <1>2, <1>4 DEF ContractState, Contract!Running
  <2> QED
    BY <2>1 DEF Contract!TaskState
<1>5. CASE tasks[i].state = "unknown"
  <2>1. ContractState(tasks[i]) = Contract!Unknown
    BY <1>2, <1>5 DEF ContractState, Contract!Unknown
  <2> QED
    BY <2>1 DEF Contract!TaskState
<1> QED
  BY <1>1, <1>3, <1>4, <1>5 DEF TaskRow, TaskStates

-----------------------------------------------------------------------------
LEMMA InitMaps == Init => Contract!Init
<1> SUFFICES ASSUME Init PROVE Contract!Init
  OBVIOUS
<1>1. WatchedTasks = {}
  BY DEF Init, WatchedTasks
<1>2. ContractRequests = [r \in {} |-> None]
  BY <1>1 DEF ContractRequests
<1>3. Controlled(Watched) = FALSE
  BY WatchedAssumption DEF Init, Controlled
<1> QED
  BY <1>2, <1>3 DEF Contract!Init

(* A statement on the table sessions is a call of take_control or          *)
(* release_control, or none.                                               *)
LEMMA SessionsMap ==
    ASSUME MapInv, SessionsOnly
    PROVE  [Contract!Next]_(Contract!vars)
<1>1. ContractRequests' = ContractRequests
  BY SessionsOnlyKeepsTasks
     DEF ContractRequests, TaskOf, WatchedTasks, ContractState
<1>2. Controlled(Watched) \in BOOLEAN /\ Controlled(Watched)' \in BOOLEAN
  <2>1. TypeOK /\ TypeOK'
    BY StepTypeOK DEF MapInv, WorkInv, SessionsOnly, Next, SessionStep
  <2> QED
    BY <2>1, WatchedAssumption DEF TypeOK, SessionRow, Controlled
<1>3. CASE Controlled(Watched)' = FALSE
  BY <1>1, <1>3 DEF Contract!Next, Contract!ReleaseControl
<1>4. CASE Controlled(Watched)' = TRUE /\ Controlled(Watched) = TRUE
  BY <1>1, <1>4 DEF Contract!vars
<1>5. CASE Controlled(Watched)' = TRUE /\ Controlled(Watched) = FALSE
  <2>1. ~Busy(Watched)
    BY <1>5, ControlGivenWhenQuiet, WatchedAssumption DEF MapInv, WorkInv
  <2>2. ~Contract!Busy
    BY <2>1, SameBusy DEF MapInv
  <2> QED
    BY <1>1, <1>5, <2>2 DEF Contract!Next, Contract!TakeControl
<1> QED
  BY <1>2, <1>3, <1>4, <1>5

(* The contract counts as this module does. *)
LEMMA SameCardinality == \A S : Contract!Cardinality(S) = Cardinality(S)
  BY Zenon DEF Contract!Cardinality, Cardinality

(* A reservation of the watched session is a submission; one of another    *)
(* session is not seen.                                                    *)
LEMMA ReserveMaps ==
    ASSUME MapInv, MapInv', Mapping', Reserves
    PROVE  [Contract!Next]_(Contract!vars)
<1>1. PICK s \in SessionIds, r \in RequestIds, e \in Executions : ReserveTask(s, r, e)
  BY DEF Reserves
<1>0. PICK n \in Nat : n = Len(tasks) + 1
  BY TaskRows DEF MapInv, WorkInv
<1>2. /\ TypeOK
      /\ Mapping
      /\ n \in Nat
      /\ DOMAIN tasks = 1 .. n - 1
      /\ DOMAIN tasks' = 1 .. n
      /\ \A i \in DOMAIN tasks : tasks'[i] = tasks[i]
      /\ tasks'[n] = Accepted(s, r, e)
  BY <1>0, <1>1, ReserveAppends, MappingHolds, TaskRows DEF MapInv, WorkInv
<1>3. UNCHANGED Controlled(Watched)
  BY <1>1 DEF ReserveTask, Controlled
<1>4. WatchedTasks' = IF s = Watched THEN WatchedTasks \cup {n} ELSE WatchedTasks
  <2>0. n \in Nat /\ 1 .. n = (1 .. n - 1) \cup {n} /\ n \notin 1 .. n - 1
    <3>1. n \in Nat /\ n # 0
      BY <1>0, <1>2, TaskRows DEF MapInv, WorkInv
    <3> QED
      BY <3>1
  <2>1. DOMAIN tasks' = DOMAIN tasks \cup {n} /\ n \notin DOMAIN tasks
    BY <1>2, <2>0
  <2>2. tasks'[n].session = s
    BY <1>2 DEF Accepted
  <2> QED
    BY <1>2, <2>1, <2>2 DEF WatchedTasks
<1>5. \A i \in WatchedTasks : i \in 1 .. n - 1
  BY <1>2 DEF WatchedTasks
<1>6. \A i \in WatchedTasks : i \in WatchedTasks' /\ Earlier(i)' = Earlier(i)
  BY <1>2, <1>4, <1>5 DEF Earlier
<1>7. \A i \in WatchedTasks : Seen(i)' = Seen(i) /\ tasks'[i].request = tasks[i].request
  BY <1>2, <1>5, <1>6 DEF Seen, ContractState
<1>8. \A q \in Requests : q \in Requests' /\ ContractRequests'[q] = ContractRequests[q]
  BY <1>2, <1>6, <1>7 DEF Mapping, Requests
<1>9. CASE s # Watched
  <2>1. Requests' = Requests
    BY <1>4, <1>7, <1>9 DEF Requests
  <2>2. ContractRequests' = ContractRequests
    BY <1>2, <1>8, <2>1 DEF Mapping
  <2> QED
    BY <1>3, <2>2 DEF Contract!vars
<1>10. CASE s = Watched
  <2>1. /\ Requests' = Requests \cup {r}
        /\ n \in WatchedTasks'
        /\ tasks'[n].request = r
    BY <1>2, <1>4, <1>7, <1>10 DEF Requests, Accepted
  <2>2. r \notin Requests
    BY <1>1, <1>10 DEF ReserveTask, Registered, Requests, WatchedTasks
  <2>3. Earlier(n)' = WatchedTasks \cup {n}
    BY <1>2, <1>4, <1>5, <1>10 DEF Earlier
  <2>4. /\ n \notin WatchedTasks
        /\ IsFiniteSet(WatchedTasks)
        /\ Cardinality(WatchedTasks) = Cardinality(Requests)
    BY <1>2, <1>5, Counted DEF MapInv
  <2>5. Cardinality(Earlier(n)') = Cardinality(Requests) + 1
    BY <2>3, <2>4, FS_AddElement
  <2> DEFINE task == [id        |-> Cardinality(DOMAIN ContractRequests) + 1,
                      execution |-> e,
                      state     |-> Contract!Running]
  <2>6. ContractRequests'[r] = task
    <3>1. ContractRequests'[r] = Seen(n)'
      BY <2>1 DEF Mapping
    <3>2. ContractState(tasks[n])' = Contract!Running
      BY <1>2 DEF ContractState, Accepted, Contract!Running
    <3>3. tasks'[n].execution = e
      BY <1>2 DEF Accepted
    <3> QED
      BY <1>2, <2>5, <3>1, <3>2, <3>3 DEF Seen, Mapping
  <2>7. ContractRequests' = [q \in DOMAIN ContractRequests \cup {r} |->
                               IF q = r THEN task ELSE ContractRequests[q]]
    <3> HIDE DEF task
    <3> QED
      BY <1>2, <1>8, <2>1, <2>2, <2>6 DEF Mapping
  <2>8. /\ e \notin Refused
        /\ r \notin DOMAIN ContractRequests
        /\ ~Controlled(Watched)
        /\ ~Contract!Busy
    BY <1>1, <1>2, <1>10, <2>2, SameBusy DEF ReserveTask, Mapping, MapInv
  <2>9. Contract!Submit(r, e)
    <3>1. Contract!Register(r, task)
      BY <2>7 DEF Contract!Register
    <3> QED
      BY <1>3, <2>8, <3>1, SameCardinality DEF Contract!Submit
  <2> QED
    BY <2>9 DEF Contract!Next
<1> QED
  BY <1>9, <1>10

(* The sweep and the UPDATEs of one task are observations: of the watched  *)
(* session they can change one task only, as only one is not exited.       *)
LEMMA RewritesMap ==
    ASSUME MapInv, MapInv', Mapping', RewritesTasks, FinalStep, UNCHANGED sessions,
           \A i \in DOMAIN tasks : ContractState(tasks'[i]) \in Contract!TaskState
    PROVE  [Contract!Next]_(Contract!vars)
<1>1. Mapping /\ TypeOK
  BY MappingHolds DEF MapInv, WorkInv
<1>2. UNCHANGED Controlled(Watched)
  BY DEF Controlled
<1>3. WatchedTasks' = WatchedTasks
  BY DEF RewritesTasks, WatchedTasks
<1>4. \A i \in WatchedTasks : i \in DOMAIN tasks /\ tasks'[i].request = tasks[i].request
  BY DEF RewritesTasks, WatchedTasks
<1>5. Requests' = Requests
  BY <1>3, <1>4 DEF Requests
<1>6. \A i \in WatchedTasks : Earlier(i)' = Earlier(i)
  BY <1>3 DEF Earlier
<1>7. ASSUME NEW i \in WatchedTasks
      PROVE  Seen(i)' = [Seen(i) EXCEPT !.state = ContractState(tasks'[i])]
  <2>1. tasks'[i].execution = tasks[i].execution
    BY <1>4 DEF FinalStep
  <2> QED
    BY <1>6, <2>1 DEF Seen
<1>8. ASSUME NEW i \in WatchedTasks, ~Active(i)
      PROVE  Seen(i)' = Seen(i)
  <2>1. tasks'[i] = tasks[i]
    BY <1>4, <1>8 DEF FinalStep, Active
  <2> QED
    BY <1>6, <2>1 DEF Seen, ContractState
<1>9. CASE \A i \in WatchedTasks : ~Active(i)
  <2>1. \A r \in Requests : ContractRequests'[r] = ContractRequests[r]
    BY <1>1, <1>3, <1>4, <1>8, <1>9 DEF Mapping, Requests
  <2>2. ContractRequests' = ContractRequests
    BY <1>1, <1>5, <2>1 DEF Mapping
  <2> QED
    BY <1>2, <2>2 DEF Contract!vars
<1>10. ASSUME NEW i \in WatchedTasks, Active(i)
       PROVE  Contract!Next
  <2> DEFINE r == tasks[i].request
             st == ContractState(tasks'[i])
  <2>1. \A j \in WatchedTasks : j # i => ~Active(j)
    <3>1. \A j \in WatchedTasks : j \in Int
      BY <1>1, TaskRows DEF WatchedTasks
    <3> QED
      BY <1>10, <3>1 DEF MapInv, WorkInv, WorkIsSerial, WatchedTasks
  <2>2. r \in Requests /\ r \in RequestIds
    BY <1>1, TaskRows DEF Requests, WatchedTasks, TaskRow
  <2>3. \A q \in Requests : q # r => ContractRequests'[q] = ContractRequests[q]
    BY <1>1, <1>3, <1>4, <1>8, <2>1 DEF Mapping, Requests
  <2>4. ContractRequests'[r] = [ContractRequests[r] EXCEPT !.state = st]
    BY <1>1, <1>3, <1>4, <1>7 DEF Mapping
  <2>5. ContractRequests' = [ContractRequests EXCEPT ![r].state = st]
    BY <1>1, <1>5, <2>2, <2>3, <2>4 DEF Mapping
  <2>6. Contract!Open(r)
    BY <1>1, <1>10, OpenIsActive
  <2>7. st \in Contract!TaskState
    BY <1>4
  <2>8. Contract!Observe(r, st)
    BY <1>1, <1>2, <2>2, <2>5, <2>6 DEF Contract!Observe, Mapping
  <2> QED
    BY <2>2, <2>7, <2>8 DEF Contract!Next
<1> QED
  BY <1>9, <1>10

LEMMA StepMaps == MapInv /\ MapInv' /\ Mapping' /\ [Next]_jvars
                    => [Contract!Next]_(Contract!vars)
<1> SUFFICES ASSUME MapInv, MapInv', Mapping', [Next]_jvars
             PROVE  [Contract!Next]_(Contract!vars)
  OBVIOUS
<1>1. CASE SessionsOnly
  BY <1>1, SessionsMap
<1>2. CASE Reserves
  BY <1>2, ReserveMaps
<1>3. CASE SweepStale \/ TaskStep
  <2>1. TypeOK
    BY DEF MapInv, WorkInv
  <2>2. RewritesTasks /\ UNCHANGED sessions
    BY <1>3, <2>1, SweepRewrites, TaskStepRewrites DEF SweepStale
  <2>3. FinalStep
    BY <2>1, StepFinal DEF jvars, FinalStep
  <2>4. (MapInv => \A i \in DOMAIN tasks : ContractState(tasks[i]) \in Contract!TaskState)'
    BY SeenStates, PTL
  <2>5. \A i \in DOMAIN tasks : ContractState(tasks'[i]) \in Contract!TaskState
    BY <2>2, <2>4 DEF RewritesTasks, ContractState
  <2> QED
    BY <2>2, <2>3, <2>5, RewritesMap
<1>4. CASE MachineStep \/ UNCHANGED jvars
  BY <1>4 DEF MachineStep, SetClock, Reboot, jvars, Contract!vars,
     ContractRequests,
              TaskOf, WatchedTasks, ContractState, Controlled
<1> QED
  BY <1>1, <1>2, <1>3, <1>4, StepKinds

(* Seen from any one session, the journal with all its processes, sweeps   *)
(* and reboots is an in-memory session: it registers one request at a time *)
(* under a stable number, excludes the user, and never rewrites an exit.   *)
THEOREM JournalKeepsContract == JournalSpec => ImplementsContract
<1>1. JournalSpec => []Mapping
  <2>1. MapInv => Mapping
    BY MappingHolds DEF MapInv
  <2> QED
    BY <2>1, MapInvAlways, PTL
<1> QED
  BY <1>1, MapInvAlways, InitMaps, StepMaps, PTL
     DEF JournalSpec, ImplementsContract, Contract!Spec

-----------------------------------------------------------------------------
(***************************************************************************)
(* The contract itself, for any sets of requests, executions and exit      *)
(* codes: a session of its own, with variables that are not the journal's. *)
(***************************************************************************)
VARIABLES requests, user_controlled

Session == INSTANCE SessionContract WITH Exits <- ExitCodes

(* This contract counts as this module does. *)
LEMMA SessionCardinality == \A S : Session!Cardinality(S) = Cardinality(S)
  BY Zenon DEF Session!Cardinality, Cardinality

(* The number of a new request is a count, so the registered requests must *)
(* be finitely many; and neither of the two safety properties is inductive *)
(* without the other's table being well typed.                             *)
ContractIInv ==
    /\ Session!TypeOK
    /\ IsFiniteSet(DOMAIN requests)
    /\ Session!OneOpenRequest
    /\ Session!ControlledIsQuiet

LEMMA ContractIInvHolds == Session!Spec => []ContractIInv
<1>1. Session!Init => ContractIInv
  <2> SUFFICES ASSUME Session!Init PROVE ContractIInv
    OBVIOUS
  <2>1. DOMAIN requests = {}
    BY DEF Session!Init
  <2>2. IsFiniteSet(DOMAIN requests)
    BY <2>1, FS_EmptySet
  <2> QED
    BY <2>1, <2>2 DEF Session!Init, ContractIInv, Session!TypeOK,
       Session!OneOpenRequest, Session!ControlledIsQuiet
<1>2. ContractIInv /\ [Session!Next]_(Session!vars) => ContractIInv'
  <2> SUFFICES ASSUME ContractIInv, [Session!Next]_(Session!vars)
               PROVE  ContractIInv'
    OBVIOUS
  <2> USE DEF ContractIInv
  <2>1. ASSUME NEW r \in RequestIds, NEW e \in Executions, Session!Submit(r, e)
        PROVE  ContractIInv'
    <3>1. /\ DOMAIN requests' = DOMAIN requests \cup {r}
          /\ \A q \in DOMAIN requests : requests'[q] = requests[q]
          /\ requests'[r] = [id        |-> Cardinality(DOMAIN requests) + 1,
                             execution |-> e,
                             state     |-> Session!Running]
      BY <2>1, SessionCardinality DEF Session!Submit, Session!Register
    <3>2. IsFiniteSet(DOMAIN requests')
      BY <3>1, FS_AddElement
    <3>3. Cardinality(DOMAIN requests) \in Nat
      BY FS_CardinalityType
    <3>4. requests'[r] \in Session!Task
      BY <3>1, <3>3 DEF Session!Task, Session!TaskState
    <3>5. Session!TypeOK'
      BY <2>1, <3>1, <3>4 DEF Session!TypeOK, Session!Submit
    <3>6. \A q \in DOMAIN requests : ~Session!Open(q) /\ ~Session!Open(q)'
      BY <2>1, <3>1 DEF Session!Submit, Session!Busy, Session!Open
    <3>7. Session!OneOpenRequest'
      BY <3>1, <3>6 DEF Session!OneOpenRequest
    <3>8. Session!ControlledIsQuiet'
      BY <2>1 DEF Session!Submit, Session!ControlledIsQuiet
    <3> QED
      BY <3>2, <3>5, <3>7, <3>8
  <2>2. ASSUME NEW r \in RequestIds, NEW st \in Session!TaskState,
               Session!Observe(r, st)
        PROVE  ContractIInv'
    <3>1. /\ DOMAIN requests' = DOMAIN requests
          /\ r \in DOMAIN requests
          /\ \A q \in DOMAIN requests \ {r} : requests'[q] = requests[q]
          /\ requests'[r] = [requests[r] EXCEPT !.state = st]
      BY <2>2 DEF Session!Observe
    <3>2. requests'[r] \in Session!Task /\ requests'[r].state = st
      BY <3>1 DEF Session!TypeOK, Session!Task
    <3>3. Session!TypeOK'
      BY <2>2, <3>1, <3>2 DEF Session!TypeOK, Session!Observe
    <3>4. \A q \in DOMAIN requests : Session!Open(q)' => Session!Open(q)
      BY <2>2, <3>1, <3>2 DEF Session!Observe, Session!Open
    <3>5. Session!OneOpenRequest'
      BY <3>1, <3>4 DEF Session!OneOpenRequest
    <3>6. Session!ControlledIsQuiet'
      BY <2>2, <3>1, <3>4 DEF Session!Observe, Session!ControlledIsQuiet,
         Session!Busy
    <3> QED
      BY <3>1, <3>3, <3>5, <3>6
  <2>3. CASE Session!TakeControl
    BY <2>3 DEF Session!TakeControl, Session!TypeOK, Session!OneOpenRequest,
       Session!ControlledIsQuiet, Session!Busy, Session!Open
  <2>4. CASE Session!ReleaseControl
    BY <2>4 DEF Session!ReleaseControl, Session!TypeOK, Session!OneOpenRequest,
       Session!ControlledIsQuiet, Session!Busy, Session!Open
  <2>5. CASE UNCHANGED Session!vars
    BY <2>5 DEF Session!vars, Session!TypeOK, Session!OneOpenRequest,
       Session!ControlledIsQuiet, Session!Busy, Session!Open
  <2> QED
    BY <2>1, <2>2, <2>3, <2>4, <2>5 DEF Session!Next
<1> QED
  BY <1>1, <1>2, PTL DEF Session!Spec

(* Every registered request has a positive number, parameters that were    *)
(* asked for, and a state that Session knows.                              *)
THEOREM ContractTyped == Session!Spec => []Session!TypeOK
<1>1. ContractIInv => Session!TypeOK
  BY DEF ContractIInv
<1> QED
  BY <1>1, ContractIInvHolds, PTL

(* Whatever is submitted, retried, observed or taken over, at most one     *)
(* request of a session is not exited.                                     *)
THEOREM ContractIsSerial == Session!Spec => []Session!OneOpenRequest
<1>1. ContractIInv => Session!OneOpenRequest
  BY DEF ContractIInv
<1> QED
  BY <1>1, ContractIInvHolds, PTL

(* The user and the agent never act in a session at the same time.         *)
THEOREM ContractExcludes == Session!Spec => []Session!ControlledIsQuiet
<1>1. ContractIInv => Session!ControlledIsQuiet
  BY DEF ContractIInv
<1> QED
  BY <1>1, ContractIInvHolds, PTL

(* What a client read of an exited request is what everyone reads of it    *)
(* ever after, and no request changes its number or its parameters.        *)
THEOREM ContractKeepsResults == Session!Spec => Session!ResultsAreFinal
<1>1. ASSUME ContractIInv, [Session!Next]_(Session!vars)
      PROVE  [\A r \in DOMAIN requests :
                /\ r \in DOMAIN requests'
                /\ requests'[r].id = requests[r].id
                /\ requests'[r].execution = requests[r].execution
                /\ ~Session!Open(r) => requests'[r] = requests[r]]_(Session!vars)
  <2> SUFFICES ASSUME NEW q \in DOMAIN requests, Session!Next
               PROVE  /\ q \in DOMAIN requests'
                      /\ requests'[q].id = requests[q].id
                      /\ requests'[q].execution = requests[q].execution
                      /\ ~Session!Open(q) => requests'[q] = requests[q]
    BY <1>1
  <2>1. ASSUME NEW r \in RequestIds, NEW e \in Executions, Session!Submit(r, e)
        PROVE  q \in DOMAIN requests' /\ requests'[q] = requests[q]
    BY <2>1 DEF Session!Submit, Session!Register
  <2>2. ASSUME NEW r \in RequestIds, NEW st \in Session!TaskState,
               Session!Observe(r, st)
        PROVE  /\ q \in DOMAIN requests'
               /\ requests'[q].id = requests[q].id
               /\ requests'[q].execution = requests[q].execution
               /\ ~Session!Open(q) => requests'[q] = requests[q]
    <3>1. requests[q] \in Session!Task
      BY <1>1 DEF ContractIInv, Session!TypeOK
    <3>2. [requests[q] EXCEPT !.state = requests[q].state] = requests[q]
      BY <3>1 DEF Session!Task
    <3> QED
      BY <2>2, <3>1, <3>2 DEF Session!Observe, Session!Task, Session!Open
  <2>3. CASE Session!TakeControl \/ Session!ReleaseControl
    BY <2>3 DEF Session!TakeControl, Session!ReleaseControl
  <2> QED
    BY <2>1, <2>2, <2>3 DEF Session!Next
<1> QED
  BY <1>1, ContractIInvHolds, PTL DEF Session!Spec, Session!ResultsAreFinal

=============================================================================
