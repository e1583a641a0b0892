---------------------------- MODULE DeviceMonitor ----------------------------
(***************************************************************************)
(* Monitoring of devices: the loop of the daemon (src/daemon.rs), which    *)
(* probes devices, puts idle ones to sleep and serves connect and stop     *)
(* requests, against "sanc device probe" processes that record             *)
(* observations in the same table (ConnectionStore::observe), against      *)
(* tasks that keep a device busy, and against the clocks.                  *)
(*                                                                         *)
(* Instants of the daemon are monotonic and only their age matters; the    *)
(* age is kept up to the limit it is compared with.  Observations are      *)
(* stamped with the wall clock, which may be set back.                     *)
(***************************************************************************)
EXTENDS Naturals

CONSTANTS
    Devices,       \* configured devices, in the order of the daemon's map
    Probers,       \* processes that may run sanc device probe
    None,          \* SQL NULL, or no entry
    IdleSeconds,   \* --idle-seconds, 0 disables sleep
    ProbeSeconds,  \* --probe-seconds
    Timed,         \* devices whose real use is recorded in unused
    LongTasks,     \* whether every task outlasts a round of the daemon
    Monotone,      \* whether the wall clock is never set back
    MaxClock,      \* bound: the wall clock stays in 0 .. MaxClock
    MaxBoots       \* bound: the machine boots at most MaxBoots times

ASSUME MonitorAssumption ==
    /\ Devices \subseteq Nat
    /\ Timed \subseteq Devices
    /\ None \notin Nat
    /\ IdleSeconds \in Nat
    /\ ProbeSeconds \in Nat \ {0}
    /\ LongTasks \in BOOLEAN
    /\ Monotone \in BOOLEAN
    /\ MaxClock \in Nat
    /\ MaxBoots \in Nat \ {0}

VARIABLES
    rows,     \* observation columns of the rows of table devices
    known,    \* the daemon's map of devices, None where it has no entry
    daemon,   \* what the daemon is doing
    ended,    \* how serve of the last daemon ended
    probers,  \* what each sanc device probe is doing
    work,     \* whether a device has a task that is not exited
    unused,   \* history: seconds since it had one, up to IdleSeconds
    clock,    \* the wall clock in seconds
    boot      \* the boot identity of the running operating system

use == <<work, unused>>
vars == <<rows, known, daemon, ended, probers, use, clock, boot>>

Clock == 0 .. MaxClock
Boots == 1 .. MaxBoots

(* The members of ConnectionState that the code assigns. *)
States == {"unknown", "available", "sleeping"}

Row == [last_state      : States \cup {None},
        last_checked_at : Clock \cup {None},
        last_success_at : Clock \cup {None},
        success_boot_id : Boots \cup {None}]

NewRow == [last_state |-> None, last_checked_at |-> None,
           last_success_at |-> None, success_boot_id |-> None]

Entry == [last_use : 0 .. IdleSeconds, last_probe : 0 .. ProbeSeconds,
          status : States, busy : BOOLEAN]

ASSUME EntryAssumption == None \notin Entry

Stopped == [pc |-> "off", stop |-> FALSE, todo |-> {}, id |-> None,
            status |-> None, at |-> None]

Resting == [pc |-> "idle", id |-> None, status |-> None, at |-> None]

Running == daemon.pc # "off"

Init ==
    /\ rows = [d \in Devices |-> NewRow]
    /\ known = [d \in Devices |-> None]
    /\ daemon = Stopped
    /\ ended = None
    /\ probers = [p \in Probers |-> Resting]
    /\ work = [d \in Devices |-> FALSE]
    /\ unused = [d \in Timed |-> IdleSeconds]
    /\ clock \in Clock
    /\ boot = 1

-----------------------------------------------------------------------------
(* ConnectionStore::observe.  The event it logs commits with the row.      *)

(* Mutation: the time of the previous observation is not looked at. *)
FreshAlways(id, at) == at \in Clock

Fresh(id, at) ==
    rows[id].last_checked_at # None => rows[id].last_checked_at <= at

Observed(row, state, at) ==
    LET success == state = "available" IN
    [last_state      |-> state,
     last_checked_at |-> at,
     last_success_at |-> IF success THEN at ELSE row.last_success_at,
     success_boot_id |-> IF success THEN boot ELSE row.success_boot_id]

Observe(id, state, at) ==
    /\ Fresh(id, at)
    /\ rows' = [rows EXCEPT ![id] = Observed(@, state, at)]

-----------------------------------------------------------------------------
(* unix::serve.  Opening the store and the lock are steps of other modules. *)

At(pc) == daemon.pc = pc

EntryAt(age, status) == [last_use |-> 0, last_probe |-> age,
                         status |-> status, busy |-> FALSE]

(* Mutation: devices of earlier boots are monitored as well. *)
EligibleEver(d) == rows[d].success_boot_id # None

Eligible(d) == rows[d].success_boot_id = boot

DaemonStart ==
    /\ At("off")
    /\ daemon' = [Stopped EXCEPT !.pc = "loop"]
    /\ ended' = None
    /\ known' = [d \in Devices |->
                   IF Eligible(d) THEN EntryAt(ProbeSeconds, "unknown") ELSE None]
    /\ UNCHANGED <<rows, probers, use, clock, boot>>

(* "connect": the probe runs inside the loop. *)
ConnectRequest(d) ==
    /\ At("loop")
    /\ daemon' = [daemon EXCEPT !.pc = "connect", !.id = d]
    /\ UNCHANGED <<rows, known, ended, probers, use, clock, boot>>

(* Mutation: the other state the enum offers. *)
ProbeOutcomeUnavailable == {"available", "unavailable"}

(* ssh::probe returned Ok or Err, at the latest after its timeout. *)
ProbeOutcome == {"available", "unknown"}

ConnectProbed(status) ==
    /\ At("connect")
    /\ daemon' = [daemon EXCEPT !.pc = "connect_save", !.status = status, !.at = clock]
    /\ UNCHANGED <<rows, known, ended, probers, use, clock, boot>>

(* The round over the devices of the map that follows every request. *)
Round(map) ==
    [daemon EXCEPT !.pc = "round", !.id = None, !.status = None, !.at = None,
                   !.todo = {d \in Devices : map[d] # None}]

ConnectSave ==
    /\ At("connect_save")
    /\ Observe(daemon.id, daemon.status, daemon.at)
    /\ known' = IF daemon.status = "available"
                  THEN [known EXCEPT ![daemon.id] = EntryAt(0, "available")]
                  ELSE known
    /\ daemon' = Round(known')
    /\ UNCHANGED <<ended, probers, use, clock, boot>>

(* observe failed, because the row is newer or for any other reason: the   *)
(* daemon answers observation_save_failed and goes on.                     *)
ConnectSaveRejected ==
    /\ At("connect_save")
    /\ daemon' = Round(known)
    /\ UNCHANGED <<rows, known, ended, probers, use, clock, boot>>

StopRequest ==
    /\ At("loop")
    /\ daemon' = [Round(known) EXCEPT !.stop = TRUE]
    /\ UNCHANGED <<rows, known, ended, probers, use, clock, boot>>

(* No request, "status", or one that cannot be read. *)
NoRequest ==
    /\ At("loop")
    /\ daemon' = Round(known)
    /\ UNCHANGED <<rows, known, ended, probers, use, clock, boot>>

-----------------------------------------------------------------------------
(* The body of the loop over devices, for the one whose turn it is.        *)

Turn(d) ==
    /\ At("round")
    /\ d \in daemon.todo
    /\ \A e \in daemon.todo : d <= e

(* Mutation: the idle time does not start when work ends. *)
SampledForgetsWork(d) == [known[d] EXCEPT !.busy = work[d]]

(* The entry after device_busy was read. *)
Sampled(d) ==
    [known[d] EXCEPT !.last_use = IF known[d].busy /\ ~work[d] THEN 0 ELSE @,
                     !.busy = work[d]]

(* Mutation: work does not wake a device. *)
SleepsOnDespiteWork(e) == e.status = "sleeping"

SleepsOn(e) == e.status = "sleeping" /\ ~e.busy

IsIdle(e) == IdleSeconds > 0 /\ ~e.busy /\ e.last_use >= IdleSeconds

ProbeDue(e) == e.last_probe >= ProbeSeconds

Pass(d) == daemon' = [daemon EXCEPT !.todo = @ \ {d}]

(* Nothing to do: the device sleeps on, or no probe is due. *)
VisitQuietly(d) ==
    LET e == Sampled(d) IN
    /\ Turn(d)
    /\ SleepsOn(e) \/ (~IsIdle(e) /\ ~ProbeDue(e))
    /\ known' = [known EXCEPT ![d] = e]
    /\ Pass(d)
    /\ UNCHANGED <<rows, ended, probers, use, clock, boot>>

PutToSleep(d) ==
    LET e == Sampled(d) IN
    /\ Turn(d)
    /\ ~SleepsOn(e)
    /\ IsIdle(e)
    /\ known' = [known EXCEPT ![d] = [e EXCEPT !.status = "sleeping"]]
    /\ daemon' = [daemon EXCEPT !.pc = "save_sleep", !.id = d,
                                !.status = "sleeping", !.at = clock]
    /\ UNCHANGED <<rows, ended, probers, use, clock, boot>>

ProbeStart(d) ==
    LET e == Sampled(d) IN
    /\ Turn(d)
    /\ ~SleepsOn(e)
    /\ ~IsIdle(e)
    /\ ProbeDue(e)
    /\ known' = [known EXCEPT ![d] = e]
    /\ daemon' = [daemon EXCEPT !.pc = "probe", !.id = d]
    /\ UNCHANGED <<rows, ended, probers, use, clock, boot>>

(* Mutation: a health check counts as a use of the device. *)
ProbeEndsAsUse(status) ==
    /\ At("probe")
    /\ known' = [known EXCEPT ![daemon.id].status = status,
                              ![daemon.id].last_use = 0]
    /\ daemon' = [daemon EXCEPT !.pc = "save_probe", !.status = status, !.at = clock]
    /\ UNCHANGED <<rows, ended, probers, use, clock, boot>>

ProbeEnds(status) ==
    /\ At("probe")
    /\ known' = [known EXCEPT ![daemon.id].status = status]
    /\ daemon' = [daemon EXCEPT !.pc = "save_probe", !.status = status, !.at = clock]
    /\ UNCHANGED <<rows, ended, probers, use, clock, boot>>

Saving == At("save_sleep") \/ At("save_probe")

Save ==
    /\ Saving
    /\ Observe(daemon.id, daemon.status, daemon.at)
    /\ known' = IF At("save_probe")
                  THEN [known EXCEPT ![daemon.id].last_probe = 0]
                  ELSE known
    /\ daemon' = [daemon EXCEPT !.pc = "round", !.todo = @ \ {daemon.id},
                                !.id = None, !.status = None, !.at = None]
    /\ UNCHANGED <<ended, probers, use, clock, boot>>

Off == /\ daemon' = Stopped
       /\ known' = [d \in Devices |-> None]

(* serve returns observation_save_failed. *)
SaveRejected ==
    /\ Saving
    /\ ~Fresh(daemon.id, daemon.at)
    /\ Off
    /\ ended' = "observation_save_failed"
    /\ UNCHANGED <<rows, probers, use, clock, boot>>

RoundEnds ==
    /\ At("round")
    /\ daemon.todo = {}
    /\ \/ /\ ~daemon.stop
          /\ daemon' = [daemon EXCEPT !.pc = "loop"]
          /\ UNCHANGED <<known, ended>>
       \/ /\ daemon.stop
          /\ Off
          /\ ended' = "stopped"
    /\ UNCHANGED <<rows, probers, use, clock, boot>>

(* The process is killed, or another call fails (clock, database). *)
DaemonDies ==
    /\ Running
    /\ Off
    /\ ended' = "died"
    /\ UNCHANGED <<rows, probers, use, clock, boot>>

-----------------------------------------------------------------------------
(* sanc device probe: probe, read the clock, observe.                      *)

ProberStart(p, d) ==
    /\ probers[p].pc = "idle"
    /\ probers' = [probers EXCEPT ![p] = [Resting EXCEPT !.pc = "probe", !.id = d]]
    /\ UNCHANGED <<rows, known, daemon, ended, use, clock, boot>>

ProberProbed(p, status) ==
    /\ probers[p].pc = "probe"
    /\ probers' = [probers EXCEPT ![p].pc = "save", ![p].status = status, ![p].at = clock]
    /\ UNCHANGED <<rows, known, daemon, ended, use, clock, boot>>

ProberSaves(p) ==
    /\ probers[p].pc = "save"
    /\ Observe(probers[p].id, probers[p].status, probers[p].at)
    /\ probers' = [probers EXCEPT ![p] = Resting]
    /\ UNCHANGED <<known, daemon, ended, use, clock, boot>>

(* The observation is rejected, or the process is killed. *)
ProberFails(p) ==
    /\ probers[p].pc # "idle"
    /\ probers' = [probers EXCEPT ![p] = Resting]
    /\ UNCHANGED <<rows, known, daemon, ended, use, clock, boot>>

-----------------------------------------------------------------------------
(* Tasks, the clocks and the machine.                                      *)

(* device_busy becomes true: a task of a session of the device is reserved. *)
WorkStarts(d) ==
    /\ ~work[d]
    /\ work' = [work EXCEPT ![d] = TRUE]
    /\ unused' = [e \in Timed |-> IF e = d THEN 0 ELSE unused[e]]
    /\ UNCHANGED <<rows, known, daemon, ended, probers, clock, boot>>

(* The last one exited.  A long task has been seen by a running daemon. *)
WorkEnds(d) ==
    /\ work[d]
    /\ LongTasks /\ known[d] # None => known[d].busy
    /\ work' = [work EXCEPT ![d] = FALSE]
    /\ UNCHANGED <<unused, rows, known, daemon, ended, probers, clock, boot>>

Older(age, limit) == IF age < limit THEN age + 1 ELSE limit

Aged(e) == IF e = None THEN None
           ELSE [e EXCEPT !.last_use = Older(@, IdleSeconds),
                          !.last_probe = Older(@, ProbeSeconds)]

(* A second passes; the wall clock follows or is set. *)
Tick ==
    /\ known' = [d \in Devices |-> Aged(known[d])]
    /\ clock' \in Clock
    /\ Monotone => clock' = Older(clock, MaxClock)
    /\ unused' = [d \in Timed |-> IF work[d] THEN 0 ELSE Older(unused[d], IdleSeconds)]
    /\ UNCHANGED <<rows, daemon, ended, probers, work, boot>>

MachineReboots ==
    /\ boot < MaxBoots
    /\ boot' = boot + 1
    /\ Off
    /\ ended' = None
    /\ probers' = [p \in Probers |-> Resting]
    /\ UNCHANGED <<rows, use, clock>>

LoopStep ==
    \/ \E status \in ProbeOutcome : ConnectProbed(status) \/ ProbeEnds(status)
    \/ ConnectSave
    \/ ConnectSaveRejected
    \/ NoRequest
    \/ \E d \in Devices : VisitQuietly(d) \/ PutToSleep(d) \/ ProbeStart(d)
    \/ Save
    \/ SaveRejected
    \/ RoundEnds

DaemonStep ==
    \/ DaemonStart
    \/ \E d \in Devices : ConnectRequest(d)
    \/ StopRequest
    \/ LoopStep
    \/ DaemonDies

ProberStep(p) ==
    \/ \E d \in Devices : ProberStart(p, d)
    \/ \E status \in ProbeOutcome : ProberProbed(p, status)
    \/ ProberSaves(p)
    \/ ProberFails(p)

Next ==
    \/ DaemonStep
    \/ \E p \in Probers : ProberStep(p)
    \/ \E d \in Devices : WorkStarts(d) \/ WorkEnds(d)
    \/ MachineReboots
    \/ Tick

Spec == Init /\ [][Next]_vars

(* The daemon is scheduled and its probes end (ssh::probe has a timeout);  *)
(* time passes.  Nobody has to start the daemon, connect or run a task.    *)
FairSpec == Spec /\ WF_vars(LoopStep) /\ WF_vars(Tick)

-----------------------------------------------------------------------------
(* Types of the rows, of the daemon and of the processes. *)
TypeOK ==
    /\ rows \in [Devices -> Row]
    /\ known \in [Devices -> Entry \cup {None}]
    /\ daemon \in [pc : {"off", "loop", "connect", "connect_save", "round",
                         "probe", "save_sleep", "save_probe"},
                   stop : BOOLEAN,
                   todo : SUBSET Devices,
                   id : Devices \cup {None},
                   status : States \cup {None},
                   at : Clock \cup {None}]
    /\ ended \in {None, "stopped", "observation_save_failed", "died"}
    /\ probers \in [Probers -> [pc : {"idle", "probe", "save"},
                                id : Devices \cup {None},
                                status : States \cup {None},
                                at : Clock \cup {None}]]
    /\ work \in [Devices -> BOOLEAN]
    /\ unused \in [Timed -> 0 .. IdleSeconds]
    /\ clock \in Clock
    /\ boot \in Boots

(* The daemon monitors, and so probes without being asked, only devices    *)
(* that were reached since the machine booted: a device of an earlier boot *)
(* or one whose connect failed is left alone, whoever recorded what.       *)
MonitoredWasReached ==
    \A d \in Devices : known[d] # None => rows[d].success_boot_id = boot

(* Late observations never replace newer ones: however daemon, connect and *)
(* probes race, and although the clock goes back, the time of the row does *)
(* not, and a success is not lost when a later check fails.                *)
ObservationsAreOrdered ==
    [][\A d \in Devices :
         /\ rows[d].last_checked_at # None =>
              /\ rows'[d].last_checked_at # None
              /\ rows[d].last_checked_at <= rows'[d].last_checked_at
         /\ rows[d].last_success_at # None =>
              /\ rows'[d].last_success_at # None
              /\ rows[d].last_success_at <= rows'[d].last_success_at
         /\ rows'[d].last_success_at # rows[d].last_success_at =>
              rows'[d].last_state = "available"]_vars

FallsAsleep(d) ==
    /\ known'[d] # None
    /\ known'[d].status = "sleeping"
    /\ known[d] # None
    /\ known[d].status # "sleeping"

(* A device is put to sleep only when it has no task and had none for the  *)
(* idle time ("running commands prevent sleep, and the idle timer starts   *)
(* when they are complete"), although the daemon learns of tasks only from *)
(* the samples of its rounds.                                              *)
SleepFollowsIdleness ==
    [][\A d \in Timed :
         FallsAsleep(d) => ~work[d] /\ unused[d] >= IdleSeconds]_vars

(* The daemon keeps monitoring until it is stopped: no observation of its  *)
(* own makes it give up.                                                   *)
DaemonKeepsMonitoring == ended # "observation_save_failed"

Asleep(d) == known[d] # None /\ known[d].status = "sleeping"

(* Health checks do not extend the idle time: a monitored device that is   *)
(* not used falls asleep, although it is probed more often than its idle   *)
(* time.                                                                   *)
IdleDevicesSleep ==
    \A d \in Devices :
      known[d] # None ~>
        Asleep(d) \/ work[d] \/ (At("connect") /\ daemon.id = d) \/ ~Running

(* A monitored device that is awake, or that sleeps although it has work,  *)
(* is probed: work wakes it up, and no other device starves it.            *)
AwakeDevicesAreProbed ==
    \A d \in Devices :
      known[d] # None ~>
        \/ (At("probe") \/ At("connect")) /\ daemon.id = d
        \/ Asleep(d) /\ ~work[d]
        \/ ~Running

=============================================================================
