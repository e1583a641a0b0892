------------------------- MODULE DeviceMonitorProofs -------------------------
(***************************************************************************)
(* Proofs about DeviceMonitor for any number of devices and probing        *)
(* processes, any clock and any number of boots: the types, that only      *)
(* devices reached since the boot are monitored, the order of the          *)
(* observations, and that only idle devices are put to sleep.              *)
(***************************************************************************)
EXTENDS DeviceMonitor, TLAPS

Observing == {"connect", "connect_save", "probe", "save_sleep", "save_probe"}

DaemonRow == [pc : {"off", "loop", "connect", "connect_save", "round",
                    "probe", "save_sleep", "save_probe"},
              stop : BOOLEAN,
              todo : SUBSET Devices,
              id : Devices \cup {None},
              status : States \cup {None},
              at : Clock \cup {None}]

ProberRow == [pc : {"idle", "probe", "save"},
              id : Devices \cup {None},
              status : States \cup {None},
              at : Clock \cup {None}]

(* A daemon that works on a device knows which, one that saves knows what, *)
(* and outside a connect it works only on devices of its map.              *)
DaemonKnows ==
    /\ daemon.pc \in Observing => daemon.id \in Devices
    /\ daemon.pc \in {"connect_save", "save_sleep", "save_probe"} =>
         daemon.status \in States /\ daemon.at \in Clock
    /\ daemon.pc \in {"probe", "save_sleep", "save_probe"} =>
         known[daemon.id] # None
    /\ \A d \in daemon.todo : known[d] # None

ProbersKnow ==
    \A p \in Probers :
      /\ probers[p].pc # "idle" => probers[p].id \in Devices
      /\ probers[p].pc = "save" =>
           probers[p].status \in States /\ probers[p].at \in Clock

(* A success is an observation, so it is not later than the last one. *)
SuccessesWereChecked ==
    \A d \in Devices :
      rows[d].last_success_at # None =>
        /\ rows[d].last_checked_at # None
        /\ rows[d].last_success_at <= rows[d].last_checked_at

IInv ==
    /\ TypeOK
    /\ DaemonKnows
    /\ ProbersKnow
    /\ MonitoredWasReached
    /\ SuccessesWereChecked

-----------------------------------------------------------------------------
(* None is no number, so the columns of a row and the entries of the map   *)
(* can be told apart from it.                                              *)
LEMMA NoneIsNoValue ==
    /\ None \notin Clock
    /\ None \notin Devices
    /\ None \notin Boots
    /\ None \notin Entry
<1>1. Clock \subseteq Nat /\ Devices \subseteq Nat /\ Boots \subseteq Nat
  BY MonitorAssumption DEF Clock, Boots
<1>2. None \notin Nat
  BY MonitorAssumption
<1> QED
  BY <1>1, <1>2, EntryAssumption, Zenon

(* What the code stores in the map is an entry. *)
LEMMA Entries ==
    ASSUME NEW status \in States
    PROVE  /\ EntryAt(0, status) \in Entry
           /\ EntryAt(ProbeSeconds, status) \in Entry
           /\ \A e \in Entry : [e EXCEPT !.status = status] \in Entry
           /\ \A e \in Entry : [e EXCEPT !.last_probe = 0] \in Entry
  BY MonitorAssumption DEF EntryAt, Entry

LEMMA AgedEntries ==
    ASSUME NEW e \in Entry \cup {None}
    PROVE  /\ Aged(e) \in Entry \cup {None}
           /\ Aged(e) = None <=> e = None
<1>1. CASE e = None
  BY <1>1 DEF Aged
<1>2. CASE e # None
  <2>1. /\ Older(e.last_use, IdleSeconds) \in 0 .. IdleSeconds
        /\ Older(e.last_probe, ProbeSeconds) \in 0 .. ProbeSeconds
    BY <1>2, MonitorAssumption DEF Older, Entry
  <2>2. Aged(e) = [e EXCEPT !.last_use = Older(e.last_use, IdleSeconds),
                            !.last_probe = Older(e.last_probe, ProbeSeconds)]
    BY <1>2 DEF Aged, Entry
  <2>3. Aged(e) \in Entry
    BY <1>2, <2>1, <2>2 DEF Entry
  <2> QED
    BY <1>2, <2>3, EntryAssumption
<1> QED
  BY <1>1, <1>2

LEMMA SampledEntries ==
    ASSUME TypeOK, NEW d \in Devices, known[d] # None
    PROVE  Sampled(d) \in Entry
<1>1. known[d] \in Entry /\ work[d] \in BOOLEAN
  BY DEF TypeOK
<1>2. (IF known[d].busy /\ ~work[d] THEN 0 ELSE known[d].last_use) \in 0 .. IdleSeconds
  BY <1>1, MonitorAssumption DEF Entry
<1>3. Sampled(d) = [known[d] EXCEPT
                      !.last_use = IF known[d].busy /\ ~work[d] THEN 0 ELSE known[d].last_use,
                      !.busy = work[d]]
  BY <1>1 DEF Sampled, Entry
<1> QED
  BY <1>1, <1>2, <1>3 DEF Entry

(* An observation replaces one row by one that is not older. *)
LEMMA ObservedRow ==
    ASSUME TypeOK, SuccessesWereChecked,
           NEW id \in Devices, NEW state \in States, NEW at \in Clock,
           Observe(id, state, at)
    PROVE  /\ rows' \in [Devices -> Row]
           /\ SuccessesWereChecked'
           /\ rows'[id].last_state = state
           /\ rows'[id].last_checked_at = at
           /\ rows'[id].success_boot_id =
                IF state = "available" THEN boot ELSE rows[id].success_boot_id
           /\ rows'[id].last_success_at =
                IF state = "available" THEN at ELSE rows[id].last_success_at
           /\ \A d \in Devices \ {id} : rows'[d] = rows[d]
<1>1. rows[id] \in Row /\ boot \in Boots /\ at \in Nat
  BY DEF TypeOK, Clock
<1>2. Observed(rows[id], state, at) \in Row
  BY <1>1 DEF Observed, Row
<1>3. /\ rows' = [rows EXCEPT ![id] = Observed(rows[id], state, at)]
      /\ rows[id].last_checked_at # None => rows[id].last_checked_at <= at
  BY DEF Observe, Fresh
<1>4. /\ rows' \in [Devices -> Row]
      /\ rows'[id] = Observed(rows[id], state, at)
      /\ \A d \in Devices \ {id} : rows'[d] = rows[d]
  BY <1>2, <1>3 DEF TypeOK
<1>5. /\ rows'[id].last_state = state
      /\ rows'[id].last_checked_at = at
      /\ rows'[id].success_boot_id =
           IF state = "available" THEN boot ELSE rows[id].success_boot_id
      /\ rows'[id].last_success_at =
           IF state = "available" THEN at ELSE rows[id].last_success_at
  BY <1>4 DEF Observed
<1>6. rows[id].last_checked_at \in Clock \cup {None}
      /\ rows[id].last_success_at \in Clock \cup {None}
  BY <1>1 DEF Row
<1>7. rows'[id].last_success_at # None =>
        /\ rows'[id].last_checked_at # None
        /\ rows'[id].last_success_at <= rows'[id].last_checked_at
  BY <1>1, <1>3, <1>5, <1>6, NoneIsNoValue DEF SuccessesWereChecked, Clock
<1>8. SuccessesWereChecked'
  BY <1>4, <1>7 DEF SuccessesWereChecked
<1> QED
  BY <1>4, <1>5, <1>8

-----------------------------------------------------------------------------
(* The steps, by what they do to the rows, to the map and to the daemon.   *)

Observes == \E id \in Devices, state \in States, at \in Clock : Observe(id, state, at)

LEMMA RowSteps ==
    ASSUME IInv, Next
    PROVE  UNCHANGED rows \/ Observes
<1>1. ASSUME NEW p \in Probers, ProberStep(p)
      PROVE  UNCHANGED rows \/ Observes
  <2>1. CASE ProberSaves(p)
    BY <2>1 DEF ProberSaves, Observes, IInv, ProbersKnow
  <2> QED
    BY <1>1, <2>1 DEF ProberStep, ProberStart, ProberProbed, ProberFails
<1>2. CASE ConnectSave \/ Save
  <2>1. /\ daemon.id \in Devices /\ daemon.status \in States /\ daemon.at \in Clock
        /\ Observe(daemon.id, daemon.status, daemon.at)
    BY <1>2 DEF ConnectSave, Save, Saving, At, IInv, DaemonKnows, Observing
  <2> QED
    BY <2>1 DEF Observes
<1>3. CASE DaemonStep /\ ~ConnectSave /\ ~Save
  BY <1>3 DEF DaemonStep, LoopStep, DaemonStart, ConnectRequest, StopRequest,
       DaemonDies, ConnectProbed, ProbeEnds, ConnectSaveRejected, NoRequest,
       VisitQuietly, PutToSleep, ProbeStart, SaveRejected, RoundEnds
<1>4. CASE MachineReboots \/ Tick \/ \E d \in Devices : WorkStarts(d) \/ WorkEnds(d)
  BY <1>4 DEF MachineReboots, Tick, WorkStarts, WorkEnds
<1> QED
  BY <1>1, <1>2, <1>3, <1>4 DEF Next, DaemonStep, LoopStep

LEMMA RowInv ==
    ASSUME IInv, [Next]_vars
    PROVE  rows' \in [Devices -> Row] /\ SuccessesWereChecked'
<1>1. CASE UNCHANGED rows
  BY <1>1 DEF IInv, TypeOK, SuccessesWereChecked
<1>2. CASE Observes
  BY <1>2, ObservedRow DEF Observes, IInv
<1> QED
  BY <1>1, <1>2, RowSteps DEF vars

(* A probing process has what it is about to record. *)
LEMMA ProberInv ==
    ASSUME IInv, [Next]_vars
    PROVE  probers' \in [Probers -> ProberRow] /\ ProbersKnow'
<1>1. probers \in [Probers -> ProberRow] /\ ProbersKnow /\ clock \in Clock
  BY DEF IInv, TypeOK, ProberRow
<1>2. Resting \in ProberRow /\ Resting.pc = "idle"
  BY DEF Resting, ProberRow
<1>3. CASE UNCHANGED probers
  BY <1>1, <1>3 DEF ProbersKnow
<1>4. ASSUME NEW p \in Probers, NEW row \in ProberRow,
             probers' = [probers EXCEPT ![p] = row],
             row.pc # "idle" => row.id \in Devices,
             row.pc = "save" => row.status \in States /\ row.at \in Clock
      PROVE  probers' \in [Probers -> ProberRow] /\ ProbersKnow'
  BY <1>1, <1>4 DEF ProbersKnow
<1>5. ASSUME NEW p \in Probers, ProberStep(p)
      PROVE  probers' \in [Probers -> ProberRow] /\ ProbersKnow'
  <2>1. ASSUME NEW d \in Devices, ProberStart(p, d)
        PROVE  probers' \in [Probers -> ProberRow] /\ ProbersKnow'
    <3>1. probers' = [probers EXCEPT ![p] = [Resting EXCEPT !.pc = "probe", !.id = d]]
      BY <2>1 DEF ProberStart
    <3>2. PICK row : row = [Resting EXCEPT !.pc = "probe", !.id = d]
      OBVIOUS
    <3>3. row \in ProberRow /\ row.pc = "probe" /\ row.id = d
      BY <3>2 DEF Resting, ProberRow
    <3>4. probers' = [probers EXCEPT ![p] = row]
      BY <3>1, <3>2
    <3> QED
      BY <1>4, <3>3, <3>4
  <2>2. ASSUME NEW status \in ProbeOutcome, ProberProbed(p, status)
        PROVE  probers' \in [Probers -> ProberRow] /\ ProbersKnow'
    <3>1. PICK row : row = [probers[p] EXCEPT !.pc = "save", !.status = status,
                                              !.at = clock]
      OBVIOUS
    <3>2. probers' = [probers EXCEPT ![p] = row]
      BY <1>1, <2>2, <3>1 DEF ProberProbed
    <3>3. probers[p].id \in Devices /\ status \in States
      BY <1>1, <2>2 DEF ProberProbed, ProbersKnow, ProbeOutcome, States
    <3>4. /\ row \in ProberRow
          /\ row.pc = "save" /\ row.id \in Devices
          /\ row.status = status /\ row.at \in Clock
      BY <1>1, <3>1, <3>3 DEF ProberRow
    <3> QED
      BY <1>4, <3>2, <3>3, <3>4
  <2>3. CASE ProberSaves(p) \/ ProberFails(p)
    BY <1>2, <1>4, <2>3 DEF ProberSaves, ProberFails
  <2> QED
    BY <1>5, <2>1, <2>2, <2>3 DEF ProberStep
<1>6. CASE DaemonStep
  BY <1>3, <1>6 DEF DaemonStep, LoopStep, DaemonStart, ConnectRequest, StopRequest,
       DaemonDies, ConnectProbed, ProbeEnds, ConnectSave, ConnectSaveRejected,
       NoRequest, VisitQuietly, PutToSleep, ProbeStart, Save, SaveRejected, RoundEnds
<1>7. CASE MachineReboots
  BY <1>2, <1>7 DEF MachineReboots, ProbersKnow
<1>8. CASE Tick \/ \E d \in Devices : WorkStarts(d) \/ WorkEnds(d)
  BY <1>3, <1>8 DEF Tick, WorkStarts, WorkEnds
<1> QED
  BY <1>3, <1>5, <1>6, <1>7, <1>8 DEF Next, vars

(* The wall clock, the boots, the tasks and how the daemon ended. *)
LEMMA WorldInv ==
    ASSUME IInv, [Next]_vars
    PROVE  /\ ended' \in {None, "stopped", "observation_save_failed", "died"}
           /\ work' \in [Devices -> BOOLEAN]
           /\ unused' \in [Timed -> 0 .. IdleSeconds]
           /\ clock' \in Clock
           /\ boot' \in Boots
<1> DEFINE Goal == /\ ended' \in {None, "stopped", "observation_save_failed", "died"}
                   /\ work' \in [Devices -> BOOLEAN]
                   /\ unused' \in [Timed -> 0 .. IdleSeconds]
                   /\ clock' \in Clock
                   /\ boot' \in Boots
<1>1. /\ ended \in {None, "stopped", "observation_save_failed", "died"}
      /\ work \in [Devices -> BOOLEAN]
      /\ unused \in [Timed -> 0 .. IdleSeconds]
      /\ clock \in Clock
      /\ boot \in Boots
  BY DEF IInv, TypeOK
<1>2. CASE UNCHANGED <<use, clock, boot>> /\
           ended' \in {ended, None, "stopped", "observation_save_failed", "died"}
  BY <1>1, <1>2 DEF use
<1>3. CASE DaemonStep
  <2>1. UNCHANGED <<use, clock, boot>>
    BY <1>3 DEF DaemonStep, LoopStep, DaemonStart, ConnectRequest, StopRequest,
       DaemonDies, ConnectProbed, ProbeEnds, ConnectSave, ConnectSaveRejected,
       NoRequest, VisitQuietly, PutToSleep, ProbeStart, Save, SaveRejected, RoundEnds
  <2>2. ended' \in {ended, None, "stopped", "observation_save_failed", "died"}
    BY <1>3 DEF DaemonStep, LoopStep, DaemonStart, ConnectRequest, StopRequest,
       DaemonDies, ConnectProbed, ProbeEnds, ConnectSave, ConnectSaveRejected,
       NoRequest, VisitQuietly, PutToSleep, ProbeStart, Save, SaveRejected, RoundEnds
  <2> QED
    BY <1>2, <2>1, <2>2
<1>4. ASSUME NEW p \in Probers, ProberStep(p) PROVE Goal
  BY <1>2, <1>4 DEF ProberStep, ProberStart, ProberProbed, ProberSaves, ProberFails
<1>5. ASSUME NEW d \in Devices, WorkStarts(d) \/ WorkEnds(d) PROVE Goal
  <2>1. UNCHANGED <<ended, clock, boot>> /\ work' \in [Devices -> BOOLEAN]
    BY <1>1, <1>5 DEF WorkStarts, WorkEnds
  <2>2. unused' \in [Timed -> 0 .. IdleSeconds]
    <3>1. CASE unused' = unused
      BY <1>1, <3>1
    <3>2. CASE unused' = [e \in Timed |-> IF e = d THEN 0 ELSE unused[e]]
      BY <1>1, <3>2, MonitorAssumption
    <3> QED
      BY <1>5, <3>1, <3>2 DEF WorkStarts, WorkEnds
  <2> QED
    BY <1>1, <2>1, <2>2
<1>6. CASE MachineReboots
  <2>1. boot' \in Boots
    BY <1>1, <1>6, MonitorAssumption DEF MachineReboots, Boots
  <2> QED
    BY <1>1, <1>6, <2>1 DEF MachineReboots, use
<1>7. CASE Tick
  <2>1. \A d \in Timed : Older(unused[d], IdleSeconds) \in 0 .. IdleSeconds
    BY <1>1, MonitorAssumption DEF Older
  <2>2. unused' \in [Timed -> 0 .. IdleSeconds]
    BY <1>7, <2>1, MonitorAssumption DEF Tick
  <2> QED
    BY <1>1, <1>7, <2>2 DEF Tick
<1>8. CASE UNCHANGED vars
  BY <1>1, <1>8 DEF vars, use
<1> QED
  BY <1>3, <1>4, <1>5, <1>6, <1>7, <1>8 DEF Next

-----------------------------------------------------------------------------
(* The map and the daemon.                                                 *)

MapTyped ==
    /\ known \in [Devices -> Entry \cup {None}]
    /\ daemon \in DaemonRow
    /\ DaemonKnows

LEMMA Typed == IInv => /\ MapTyped
                       /\ clock \in Clock
                       /\ rows \in [Devices -> Row]
  BY DEF IInv, TypeOK, MapTyped, DaemonRow

LEMMA OffMap ==
    ASSUME Off
    PROVE  MapTyped'
  BY DEF Off, Stopped, MapTyped, DaemonRow, DaemonKnows, Observing

(* A round starts at the devices of the map. *)
LEMMA RoundMap ==
    ASSUME MapTyped, NEW stop \in BOOLEAN,
           known' \in [Devices -> Entry \cup {None}],
           daemon' = [Round(known') EXCEPT !.stop = stop]
    PROVE  MapTyped'
<1>1. /\ daemon' \in DaemonRow
      /\ daemon'.pc = "round"
      /\ daemon'.todo = {d \in Devices : known'[d] # None}
  BY DEF MapTyped, DaemonRow, Round
<1> QED
  BY <1>1 DEF MapTyped, DaemonKnows, Observing

(* The daemon works on a device of its map whose entry changes. *)
LEMMA EntryMap ==
    ASSUME MapTyped, NEW d \in Devices, NEW e \in Entry, known[d] # None,
           known' = [known EXCEPT ![d] = e],
           daemon' \in DaemonRow,
           daemon'.pc \in Observing \cup {"round"},
           daemon'.pc \in Observing => daemon'.id = d,
           daemon'.pc \in {"connect_save", "save_sleep", "save_probe"} =>
             daemon'.status \in States /\ daemon'.at \in Clock,
           daemon'.todo \subseteq daemon.todo
    PROVE  MapTyped'
<1>1. /\ known' \in [Devices -> Entry \cup {None}]
      /\ known'[d] = e
      /\ \A c \in Devices : known[c] # None => known'[c] # None
  BY NoneIsNoValue DEF MapTyped
<1>2. \A c \in daemon'.todo : c \in Devices /\ known[c] # None
  BY DEF MapTyped, DaemonKnows, DaemonRow
<1> QED
  BY <1>1, <1>2, NoneIsNoValue DEF MapTyped, DaemonKnows, Observing

LEMMA StartMap ==
    ASSUME IInv, DaemonStart
    PROVE  MapTyped'
<1>1. EntryAt(ProbeSeconds, "unknown") \in Entry
  BY Entries DEF States
<1>2. known' \in [Devices -> Entry \cup {None}]
  BY <1>1 DEF DaemonStart
<1>3. daemon' \in DaemonRow /\ daemon'.pc = "loop" /\ daemon'.todo = {}
  BY DEF DaemonStart, Stopped, DaemonRow
<1> QED
  BY <1>2, <1>3 DEF MapTyped, DaemonKnows, Observing

LEMMA ConnectMap ==
    ASSUME IInv,
           \/ \E d \in Devices : ConnectRequest(d)
           \/ \E status \in ProbeOutcome : ConnectProbed(status)
    PROVE  MapTyped'
<1>1. MapTyped /\ clock \in Clock /\ UNCHANGED known
  BY Typed DEF ConnectRequest, ConnectProbed
<1>2. ASSUME NEW d \in Devices, ConnectRequest(d)
      PROVE  MapTyped'
  <2>1. /\ daemon' \in DaemonRow /\ daemon'.pc = "connect"
        /\ daemon'.id = d /\ daemon'.todo = daemon.todo
    BY <1>1, <1>2 DEF ConnectRequest, MapTyped, DaemonRow
  <2> QED
    BY <1>1, <2>1 DEF MapTyped, DaemonKnows, Observing
<1>3. ASSUME NEW status \in ProbeOutcome, ConnectProbed(status)
      PROVE  MapTyped'
  <2>1. status \in States
    BY DEF ProbeOutcome, States
  <2>2. /\ daemon' \in DaemonRow /\ daemon'.pc = "connect_save"
        /\ daemon'.id = daemon.id /\ daemon'.status = status
        /\ daemon'.at = clock /\ daemon'.todo = daemon.todo
    BY <1>1, <1>3, <2>1 DEF ConnectProbed, MapTyped, DaemonRow
  <2>3. daemon.id \in Devices
    BY <1>1, <1>3 DEF ConnectProbed, At, MapTyped, DaemonKnows, Observing
  <2> QED
    BY <1>1, <2>1, <2>2, <2>3 DEF MapTyped, DaemonKnows, Observing
<1> QED
  BY <1>2, <1>3

LEMMA RequestMap ==
    ASSUME IInv, ConnectSave \/ ConnectSaveRejected \/ StopRequest \/ NoRequest
    PROVE  MapTyped'
<1>1. MapTyped /\ daemon.stop \in BOOLEAN
  BY Typed DEF MapTyped, DaemonRow
<1>2. CASE ConnectSave
  <2>1. daemon.id \in Devices
    BY <1>1, <1>2 DEF ConnectSave, At, MapTyped, DaemonKnows, Observing
  <2>2. EntryAt(0, "available") \in Entry
    BY Entries DEF States
  <2>3. known' \in [Devices -> Entry \cup {None}]
    BY <1>1, <1>2, <2>1, <2>2 DEF ConnectSave, MapTyped
  <2>4. daemon' = [Round(known') EXCEPT !.stop = daemon.stop]
    BY <1>1, <1>2 DEF ConnectSave, Round, MapTyped, DaemonRow
  <2> QED
    BY <1>1, <2>3, <2>4, RoundMap
<1>3. CASE ConnectSaveRejected \/ NoRequest
  <2>1. UNCHANGED known /\ daemon' = Round(known)
    BY <1>3 DEF ConnectSaveRejected, NoRequest
  <2>2. daemon' = [Round(known') EXCEPT !.stop = daemon.stop]
    <3>1. daemon' = Round(known')
      BY <2>1
    <3> QED
      BY <1>1, <3>1 DEF Round, MapTyped, DaemonRow
  <2> QED
    BY <1>1, <2>1, <2>2, RoundMap DEF MapTyped
<1>4. CASE StopRequest
  <2>1. UNCHANGED known /\ daemon' = [Round(known') EXCEPT !.stop = TRUE]
    BY <1>4 DEF StopRequest
  <2> QED
    BY <1>1, <2>1, RoundMap DEF MapTyped
<1> QED
  BY <1>2, <1>3, <1>4

LEMMA VisitMap ==
    ASSUME IInv, NEW d \in Devices, VisitQuietly(d) \/ PutToSleep(d) \/ ProbeStart(d)
    PROVE  MapTyped'
<1>1. MapTyped /\ clock \in Clock /\ TypeOK
  BY Typed DEF IInv
<1>2. known[d] # None
  BY <1>1 DEF VisitQuietly, PutToSleep, ProbeStart, Turn, MapTyped, DaemonKnows
<1> DEFINE e == Sampled(d)
<1>3. e \in Entry /\ [e EXCEPT !.status = "sleeping"] \in Entry
  BY <1>1, <1>2, SampledEntries, Entries DEF States
<1>4. CASE VisitQuietly(d)
  <2>1. /\ known' = [known EXCEPT ![d] = e]
        /\ daemon' = [daemon EXCEPT !.todo = @ \ {d}]
        /\ daemon.pc = "round"
    BY <1>4 DEF VisitQuietly, Pass, Turn, At
  <2>2. /\ daemon' \in DaemonRow /\ daemon'.pc = "round"
        /\ daemon'.todo \subseteq daemon.todo
    BY <1>1, <2>1 DEF MapTyped, DaemonRow
  <2> HIDE DEF e
  <2> QED
    BY <1>1, <1>2, <1>3, <2>1, <2>2, EntryMap DEF Observing
<1>5. CASE PutToSleep(d)
  <2>1. /\ known' = [known EXCEPT ![d] = [e EXCEPT !.status = "sleeping"]]
        /\ daemon' = [daemon EXCEPT !.pc = "save_sleep", !.id = d,
                                    !.status = "sleeping", !.at = clock]
    BY <1>5 DEF PutToSleep
  <2>2. /\ daemon' \in DaemonRow /\ daemon'.pc = "save_sleep" /\ daemon'.id = d
        /\ daemon'.status \in States /\ daemon'.at \in Clock
        /\ daemon'.todo = daemon.todo
    BY <1>1, <2>1 DEF MapTyped, DaemonRow, States
  <2> HIDE DEF e
  <2> QED
    BY <1>1, <1>2, <1>3, <2>1, <2>2, EntryMap DEF Observing
<1>6. CASE ProbeStart(d)
  <2>1. /\ known' = [known EXCEPT ![d] = e]
        /\ daemon' = [daemon EXCEPT !.pc = "probe", !.id = d]
    BY <1>6 DEF ProbeStart
  <2>2. /\ daemon' \in DaemonRow /\ daemon'.pc = "probe" /\ daemon'.id = d
        /\ daemon'.todo = daemon.todo
    BY <1>1, <2>1 DEF MapTyped, DaemonRow
  <2> HIDE DEF e
  <2> QED
    BY <1>1, <1>2, <1>3, <2>1, <2>2, EntryMap DEF Observing
<1> QED
  BY <1>4, <1>5, <1>6

LEMMA ProbeMap ==
    ASSUME IInv, NEW status \in ProbeOutcome, ProbeEnds(status)
    PROVE  MapTyped'
<1>1. MapTyped /\ clock \in Clock /\ status \in States
  BY Typed DEF ProbeOutcome, States
<1>2. PICK d : d = daemon.id
  OBVIOUS
<1>3. d \in Devices /\ known[d] # None /\ known[d] \in Entry
  BY <1>1, <1>2 DEF ProbeEnds, At, MapTyped, DaemonKnows, Observing
<1>4. PICK e : e = [known[d] EXCEPT !.status = status]
  OBVIOUS
<1>5. e \in Entry
  BY <1>1, <1>3, <1>4, Entries
<1>6. known' = [known EXCEPT ![d] = e]
  BY <1>2, <1>4 DEF ProbeEnds
<1>7. /\ daemon' \in DaemonRow /\ daemon'.pc = "save_probe" /\ daemon'.id = d
      /\ daemon'.status = status /\ daemon'.at = clock
      /\ daemon'.todo = daemon.todo
  BY <1>1, <1>2 DEF ProbeEnds, MapTyped, DaemonRow
<1> QED
  BY <1>1, <1>3, <1>5, <1>6, <1>7, EntryMap DEF Observing

LEMMA SaveMap ==
    ASSUME IInv, Save
    PROVE  MapTyped'
<1>1. MapTyped
  BY Typed
<1>2. PICK d : d = daemon.id
  OBVIOUS
<1>3. d \in Devices /\ known[d] # None /\ known[d] \in Entry
  BY <1>1, <1>2 DEF Save, Saving, At, MapTyped, DaemonKnows, Observing
<1>4. PICK e \in Entry : known' = [known EXCEPT ![d] = e]
  <2>1. CASE At("save_probe")
    <3>1. PICK e : e = [known[d] EXCEPT !.last_probe = 0]
      OBVIOUS
    <3>2. e \in Entry
      BY <1>3, <3>1, Entries DEF States
    <3>3. known' = [known EXCEPT ![d] = e]
      BY <1>2, <2>1, <3>1 DEF Save
    <3> QED
      BY <3>2, <3>3
  <2>2. CASE ~At("save_probe")
    <3>1. known' = [known EXCEPT ![d] = known[d]]
      BY <1>1, <1>3, <2>2 DEF Save, MapTyped
    <3> QED
      BY <1>3, <3>1
  <2> QED
    BY <2>1, <2>2
<1>5. /\ daemon' \in DaemonRow /\ daemon'.pc = "round"
      /\ daemon'.todo \subseteq daemon.todo
  BY <1>1, <1>2 DEF Save, MapTyped, DaemonRow
<1> QED
  BY <1>1, <1>3, <1>4, <1>5, EntryMap DEF Observing

LEMMA RoundEndsMap ==
    ASSUME IInv, RoundEnds
    PROVE  MapTyped'
<1>1. MapTyped
  BY Typed
<1>2. CASE daemon' = [daemon EXCEPT !.pc = "loop"] /\ UNCHANGED known
  <2>1. /\ daemon' \in DaemonRow /\ daemon'.pc = "loop"
        /\ daemon'.todo = daemon.todo
    BY <1>1, <1>2 DEF MapTyped, DaemonRow
  <2> QED
    BY <1>1, <1>2, <2>1 DEF MapTyped, DaemonKnows, Observing
<1>3. CASE Off
  BY <1>3, OffMap
<1> QED
  BY <1>2, <1>3 DEF RoundEnds

LEMMA TickMap ==
    ASSUME IInv, Tick
    PROVE  MapTyped'
<1>1. MapTyped
  BY Typed
<1>2. /\ known' \in [Devices -> Entry \cup {None}]
      /\ \A d \in Devices : known'[d] = None <=> known[d] = None
  BY <1>1, AgedEntries DEF Tick, MapTyped
<1>3. UNCHANGED daemon
  BY DEF Tick
<1>4. \A d \in daemon.todo : d \in Devices
  BY <1>1 DEF MapTyped, DaemonRow
<1> QED
  BY <1>1, <1>2, <1>3, <1>4 DEF MapTyped, DaemonKnows, Observing

LEMMA MapStep ==
    ASSUME IInv, [Next]_vars
    PROVE  MapTyped'
<1>1. CASE UNCHANGED <<known, daemon>>
  BY <1>1, Typed DEF MapTyped, DaemonKnows
<1>2. CASE DaemonStep
  BY <1>2, StartMap, ConnectMap, RequestMap, VisitMap, ProbeMap, SaveMap,
     RoundEndsMap, OffMap DEF DaemonStep, LoopStep, SaveRejected, DaemonDies
<1>3. ASSUME NEW p \in Probers, ProberStep(p)
      PROVE  MapTyped'
  BY <1>1, <1>3 DEF ProberStep, ProberStart, ProberProbed, ProberSaves, ProberFails
<1>4. CASE MachineReboots
  BY <1>4, OffMap DEF MachineReboots
<1>5. ASSUME NEW d \in Devices, WorkStarts(d) \/ WorkEnds(d)
      PROVE  MapTyped'
  BY <1>1, <1>5 DEF WorkStarts, WorkEnds
<1> QED
  BY <1>1, <1>2, <1>3, <1>4, <1>5, TickMap DEF Next, vars

-----------------------------------------------------------------------------
(* What is monitored was reached.  A step either monitors nothing new, or  *)
(* starts with the devices reached since the boot, or has just recorded    *)
(* that it reached the device.                                             *)

NothingNew == \A d \in Devices : known'[d] # None => known[d] # None

LEMMA MonitoredStep ==
    ASSUME IInv, [Next]_vars
    PROVE  MonitoredWasReached'
<1>1. MapTyped /\ rows \in [Devices -> Row] /\ TypeOK /\ SuccessesWereChecked
  BY Typed DEF IInv
<1>2. CASE NothingNew /\ boot' = boot
  <2>1. CASE UNCHANGED rows
    BY <1>2, <2>1 DEF NothingNew, IInv, MonitoredWasReached
  <2>2. CASE Observes
    <3>1. PICK id \in Devices, state \in States, at \in Clock : Observe(id, state, at)
      BY <2>2 DEF Observes
    <3>2. \A d \in Devices : rows'[d].success_boot_id \in {boot, rows[d].success_boot_id}
      BY <1>1, <3>1, ObservedRow
    <3> QED
      BY <1>2, <3>2 DEF NothingNew, IInv, MonitoredWasReached
  <2> QED
    BY <2>1, <2>2, RowSteps DEF vars
<1>3. CASE DaemonStart
  <2>1. UNCHANGED <<rows, boot>>
    BY <1>3 DEF DaemonStart
  <2>2. \A d \in Devices : known'[d] # None => Eligible(d)
    BY <1>3 DEF DaemonStart
  <2> QED
    BY <2>1, <2>2 DEF Eligible, MonitoredWasReached
<1>4. CASE ConnectSave
  <2>1. boot' = boot
    BY <1>4 DEF ConnectSave
  <2>2. CASE daemon.status = "available"
    <3>1. PICK id \in Devices, at \in Clock :
            /\ Observe(id, "available", at)
            /\ known' = [known EXCEPT ![id] = EntryAt(0, "available")]
      BY <1>1, <1>4, <2>2 DEF ConnectSave, At, MapTyped, DaemonKnows, Observing
    <3>2. /\ rows'[id].success_boot_id = boot
          /\ \A d \in Devices \ {id} : rows'[d] = rows[d] /\ known'[d] = known[d]
      BY <1>1, <3>1, ObservedRow DEF States, MapTyped
    <3> QED
      BY <2>1, <3>2 DEF IInv, MonitoredWasReached
  <2>3. CASE daemon.status # "available"
    BY <1>2, <1>4, <2>1, <2>3 DEF ConnectSave, NothingNew
  <2> QED
    BY <2>2, <2>3
<1>5. CASE Off
  BY <1>5 DEF Off, MonitoredWasReached
<1>6. ASSUME NEW d \in Devices, NEW e, known[d] # None, boot' = boot,
             known' = [known EXCEPT ![d] = e]
      PROVE  MonitoredWasReached'
  BY <1>1, <1>2, <1>6 DEF NothingNew, MapTyped
<1>7. ASSUME NEW d \in Devices, VisitQuietly(d) \/ PutToSleep(d) \/ ProbeStart(d)
      PROVE  MonitoredWasReached'
  <2>1. known[d] # None /\ boot' = boot
    BY <1>1, <1>7 DEF VisitQuietly, PutToSleep, ProbeStart, Turn, MapTyped, DaemonKnows
  <2>2. \E e : known' = [known EXCEPT ![d] = e]
    BY <1>7, Zenon DEF VisitQuietly, PutToSleep, ProbeStart
  <2> QED
    BY <1>6, <2>1, <2>2
<1>8. CASE Save \/ \E status \in ProbeOutcome : ProbeEnds(status)
  <2>1. PICK id \in Devices : id = daemon.id /\ known[id] # None
    BY <1>1, <1>8 DEF Save, Saving, ProbeEnds, At, MapTyped, DaemonKnows, Observing
  <2>2. boot' = boot
    BY <1>8 DEF Save, ProbeEnds
  <2>3. known' = known \/ \E e : known' = [known EXCEPT ![id] = e]
    <3>1. CASE Save
      BY <2>1, <3>1, Zenon DEF Save
    <3>2. ASSUME NEW status \in ProbeOutcome, ProbeEnds(status)
          PROVE  \E e : known' = [known EXCEPT ![id] = e]
      BY <2>1, <3>2, Zenon DEF ProbeEnds
    <3> QED
      BY <1>8, <3>1, <3>2
  <2> QED
    BY <1>2, <1>6, <2>1, <2>2, <2>3 DEF NothingNew
<1>9. CASE UNCHANGED <<known, boot>>
  BY <1>2, <1>9 DEF NothingNew
<1>10. CASE DaemonStep
  BY <1>3, <1>4, <1>5, <1>7, <1>8, <1>9, <1>10
     DEF DaemonStep, LoopStep, ConnectRequest, ConnectProbed, ConnectSaveRejected,
         StopRequest, NoRequest, SaveRejected, RoundEnds, DaemonDies
<1>11. ASSUME NEW p \in Probers, ProberStep(p)
       PROVE  MonitoredWasReached'
  BY <1>9, <1>11 DEF ProberStep, ProberStart, ProberProbed, ProberSaves, ProberFails
<1>12. CASE MachineReboots
  BY <1>5, <1>12 DEF MachineReboots
<1>13. ASSUME NEW d \in Devices, WorkStarts(d) \/ WorkEnds(d)
       PROVE  MonitoredWasReached'
  BY <1>9, <1>13 DEF WorkStarts, WorkEnds
<1>14. CASE Tick
  <2>1. boot' = boot /\ NothingNew
    BY <1>1, <1>14, AgedEntries DEF Tick, NothingNew, MapTyped
  <2> QED
    BY <1>2, <2>1
<1> QED
  BY <1>9, <1>10, <1>11, <1>12, <1>13, <1>14 DEF Next, vars

-----------------------------------------------------------------------------
LEMMA InitIInv == Init => IInv
<1> SUFFICES ASSUME Init PROVE IInv
  OBVIOUS
<1>1. rows \in [Devices -> Row] /\ \A d \in Devices : rows[d] = NewRow
  BY DEF Init, NewRow, Row
<1>2. daemon \in DaemonRow /\ daemon.pc = "off" /\ daemon.todo = {}
  BY DEF Init, Stopped, DaemonRow
<1>3. /\ probers \in [Probers -> ProberRow]
      /\ \A p \in Probers : probers[p].pc = "idle"
  BY DEF Init, Resting, ProberRow
<1>4. unused \in [Timed -> 0 .. IdleSeconds] /\ boot \in Boots
  BY MonitorAssumption DEF Init, Boots
<1>5. TypeOK
  BY <1>1, <1>2, <1>3, <1>4 DEF Init, TypeOK, DaemonRow, ProberRow
<1>6. SuccessesWereChecked
  BY <1>1 DEF SuccessesWereChecked, NewRow
<1>7. DaemonKnows /\ ProbersKnow
  BY <1>2, <1>3 DEF DaemonKnows, ProbersKnow, Observing
<1>8. MonitoredWasReached
  BY DEF Init, MonitoredWasReached
<1> QED
  BY <1>5, <1>6, <1>7, <1>8 DEF IInv

LEMMA StepIInv == IInv /\ [Next]_vars => IInv'
<1> SUFFICES ASSUME IInv, [Next]_vars PROVE IInv'
  OBVIOUS
<1>1. TypeOK'
  BY RowInv, ProberInv, WorldInv, MapStep DEF TypeOK, MapTyped, DaemonRow, ProberRow
<1> QED
  BY <1>1, RowInv, ProberInv, MapStep, MonitoredStep DEF IInv, MapTyped

LEMMA IInvAlways == Spec => []IInv
  BY InitIInv, StepIInv, PTL DEF Spec

(* The rows, the map, the daemon and the processes have their types: a     *)
(* daemon that saves has an observation to save, and an entry it updates   *)
(* exists (ConnectionStore and unix::serve).                               *)
THEOREM TypeCorrect == Spec => []TypeOK
<1>1. IInv => TypeOK
  BY DEF IInv
<1> QED
  BY <1>1, IInvAlways, PTL

(* The daemon of any number of devices only probes those that were reached *)
(* since the machine booted, whatever probing processes record meanwhile.  *)
THEOREM OnlyReachedIsMonitored == Spec => []MonitoredWasReached
<1>1. IInv => MonitoredWasReached
  BY DEF IInv
<1> QED
  BY <1>1, IInvAlways, PTL

(* However any number of processes race with the daemon, and although the  *)
(* wall clock goes back, the times of a device's row do not, and its last  *)
(* success changes only by a success (ConnectionStore::observe).           *)
THEOREM ObservationsStayOrdered == Spec => ObservationsAreOrdered
<1> DEFINE Ordered ==
      \A d \in Devices :
         /\ rows[d].last_checked_at # None =>
              /\ rows'[d].last_checked_at # None
              /\ rows[d].last_checked_at <= rows'[d].last_checked_at
         /\ rows[d].last_success_at # None =>
              /\ rows'[d].last_success_at # None
              /\ rows[d].last_success_at <= rows'[d].last_success_at
         /\ rows'[d].last_success_at # rows[d].last_success_at =>
              rows'[d].last_state = "available"
<1>1. ASSUME IInv, Next
      PROVE  Ordered
  <2> SUFFICES ASSUME NEW d \in Devices
               PROVE  /\ rows[d].last_checked_at # None =>
                           /\ rows'[d].last_checked_at # None
                           /\ rows[d].last_checked_at <= rows'[d].last_checked_at
                      /\ rows[d].last_success_at # None =>
                           /\ rows'[d].last_success_at # None
                           /\ rows[d].last_success_at <= rows'[d].last_success_at
                      /\ rows'[d].last_success_at # rows[d].last_success_at =>
                           rows'[d].last_state = "available"
    OBVIOUS
  <2>1. /\ rows[d].last_checked_at \in Clock \cup {None}
        /\ rows[d].last_success_at \in Clock \cup {None}
        /\ Clock \subseteq Nat
    BY <1>1, Typed DEF Row, Clock
  <2>2. CASE rows'[d] = rows[d]
    BY <2>1, <2>2
  <2>3. ASSUME NEW state \in States, NEW at \in Clock, Observe(d, state, at)
        PROVE  /\ rows[d].last_checked_at # None =>
                    /\ rows'[d].last_checked_at # None
                    /\ rows[d].last_checked_at <= rows'[d].last_checked_at
               /\ rows[d].last_success_at # None =>
                    /\ rows'[d].last_success_at # None
                    /\ rows[d].last_success_at <= rows'[d].last_success_at
               /\ rows'[d].last_success_at # rows[d].last_success_at =>
                    rows'[d].last_state = "available"
    <3>1. /\ rows'[d].last_state = state
          /\ rows'[d].last_checked_at = at
          /\ rows'[d].last_success_at =
               IF state = "available" THEN at ELSE rows[d].last_success_at
      BY <1>1, <2>3, ObservedRow DEF IInv
    <3>2. rows[d].last_checked_at # None => rows[d].last_checked_at <= at
      BY <2>3 DEF Observe, Fresh
    <3>3. rows[d].last_success_at # None =>
            /\ rows[d].last_checked_at # None
            /\ rows[d].last_success_at <= rows[d].last_checked_at
      BY <1>1 DEF IInv, SuccessesWereChecked
    <3>4. at # None /\ at \in Nat
      BY <2>1, NoneIsNoValue
    <3>5. ASSUME rows[d].last_success_at # None
          PROVE  rows[d].last_success_at <= at
      <4>1. rows[d].last_success_at \in Nat /\ rows[d].last_checked_at \in Nat
        BY <2>1, <3>3, <3>5
      <4> QED
        BY <3>2, <3>3, <3>4, <3>5, <4>1, NoneIsNoValue
    <3>6. ASSUME rows[d].last_success_at # None
          PROVE  /\ rows'[d].last_success_at # None
                 /\ rows[d].last_success_at <= rows'[d].last_success_at
      <4>1. rows[d].last_success_at \in Nat
        BY <2>1, <3>6
      <4> QED
        BY <3>1, <3>4, <3>5, <3>6, <4>1
    <3> QED
      BY <3>1, <3>2, <3>4, <3>6
  <2>4. rows'[d] = rows[d] \/ \E state \in States, at \in Clock : Observe(d, state, at)
    BY <1>1, RowSteps, ObservedRow DEF Observes, IInv
  <2> QED
    BY <2>2, <2>3, <2>4
<1>2. IInv /\ [Next]_vars => [Ordered]_vars
  BY <1>1
<1> QED
  BY <1>2, IInvAlways, PTL DEF Spec, ObservationsAreOrdered

-----------------------------------------------------------------------------
(***************************************************************************)
(* The idle time, where every task outlasts a round of the daemon.         *)
(***************************************************************************)

(* An entry that has seen no work since the device's last is at most as    *)
(* old as that: while work runs, or ended unseen, the entry says nothing.  *)
UseIsRecorded ==
    \A d \in Timed :
      known[d] # None /\ ~known[d].busy /\ ~work[d] => known[d].last_use <= unused[d]

(* What the daemon may do to the entry of a device. *)
Left(d) == known'[d] = known[d] \/ known'[d] = None
Entered(d) ==
    known'[d] \in {EntryAt(ProbeSeconds, "unknown"), EntryAt(0, "available")}
Checked(d) ==
    /\ known[d] # None
    /\ \/ \E status \in ProbeOutcome : known'[d] = [known[d] EXCEPT !.status = status]
       \/ known'[d] = [known[d] EXCEPT !.last_probe = 0]
Visited(d) ==
    /\ known[d] # None
    /\ \/ known'[d] = Sampled(d)
       \/ IsIdle(Sampled(d)) /\ known'[d] = [Sampled(d) EXCEPT !.status = "sleeping"]

LEMMA DaemonMoves ==
    ASSUME IInv, DaemonStep, NEW d \in Devices
    PROVE  /\ UNCHANGED use
           /\ Left(d) \/ Entered(d) \/ Checked(d) \/ Visited(d)
<1>0. MapTyped /\ known \in [Devices -> Entry \cup {None}]
  BY Typed DEF MapTyped
<1>1. UNCHANGED use
  BY DEF DaemonStep, LoopStep, DaemonStart, ConnectRequest, ConnectProbed, ProbeEnds,
         ConnectSave, ConnectSaveRejected, StopRequest, NoRequest, VisitQuietly,
         PutToSleep, ProbeStart, Save, SaveRejected, RoundEnds, DaemonDies
<1> SUFFICES Left(d) \/ Entered(d) \/ Checked(d) \/ Visited(d)
  BY <1>1
<1>2. CASE DaemonStart
  BY <1>2 DEF DaemonStart, Left, Entered
<1>3. CASE ConnectSave
  BY <1>0, <1>3 DEF ConnectSave, Left, Entered
<1>4. CASE Off
  BY <1>4 DEF Off, Left
<1>5. CASE UNCHANGED known
  BY <1>5 DEF Left
<1>6. ASSUME NEW c \in Devices, VisitQuietly(c) \/ PutToSleep(c) \/ ProbeStart(c)
      PROVE  Left(d) \/ Entered(d) \/ Checked(d) \/ Visited(d)
  <2>1. CASE c # d
    BY <1>0, <1>6, <2>1 DEF VisitQuietly, PutToSleep, ProbeStart, Left
  <2>2. CASE c = d
    <3>1. known[d] # None
      BY <1>0, <1>6, <2>2
         DEF VisitQuietly, PutToSleep, ProbeStart, Turn, MapTyped, DaemonKnows
    <3>2. \/ known' = [known EXCEPT ![d] = Sampled(d)]
          \/ /\ IsIdle(Sampled(d))
             /\ known' = [known EXCEPT ![d] = [Sampled(d) EXCEPT !.status = "sleeping"]]
      BY <1>6, <2>2 DEF VisitQuietly, PutToSleep, ProbeStart
    <3> QED
      BY <1>0, <3>1, <3>2 DEF Visited
  <2> QED
    BY <2>1, <2>2
<1>7. ASSUME NEW status \in ProbeOutcome, ProbeEnds(status)
      PROVE  Left(d) \/ Entered(d) \/ Checked(d) \/ Visited(d)
  <2>1. daemon.id \in Devices /\ known[daemon.id] # None
    BY <1>0, <1>7 DEF ProbeEnds, At, MapTyped, DaemonKnows, Observing
  <2>2. known' = [known EXCEPT ![daemon.id] = [known[daemon.id] EXCEPT !.status = status]]
    BY <1>7 DEF ProbeEnds
  <2> QED
    BY <1>0, <2>1, <2>2 DEF Left, Checked
<1>8. CASE Save
  <2>1. daemon.id \in Devices /\ known[daemon.id] # None
    BY <1>0, <1>8 DEF Save, Saving, At, MapTyped, DaemonKnows, Observing
  <2>2. CASE At("save_probe")
    <3>1. known' = [known EXCEPT ![daemon.id] = [known[daemon.id] EXCEPT !.last_probe = 0]]
      BY <1>8, <2>2 DEF Save
    <3>2. CASE d = daemon.id
      BY <1>0, <2>1, <3>1, <3>2 DEF Checked
    <3>3. CASE d # daemon.id
      BY <1>0, <3>1, <3>3 DEF Left
    <3> QED
      BY <3>2, <3>3
  <2>3. CASE ~At("save_probe")
    BY <1>5, <1>8, <2>3 DEF Save
  <2> QED
    BY <2>2, <2>3
<1> QED
  BY <1>2, <1>3, <1>4, <1>5, <1>6, <1>7, <1>8
     DEF DaemonStep, LoopStep, ConnectRequest, ConnectProbed, ConnectSaveRejected,
         StopRequest, NoRequest, SaveRejected, RoundEnds, DaemonDies

LEMMA StepUseIsRecorded ==
    ASSUME LongTasks, IInv, UseIsRecorded, [Next]_vars
    PROVE  UseIsRecorded'
<1> SUFFICES ASSUME NEW d \in Timed,
                    known'[d] # None, ~known'[d].busy, ~work'[d]
             PROVE  known'[d].last_use <= unused'[d]
  BY DEF UseIsRecorded
<1>0. /\ d \in Devices
      /\ known[d] \in Entry \cup {None}
      /\ work[d] \in BOOLEAN
      /\ unused \in [Timed -> 0 .. IdleSeconds] /\ unused[d] \in 0 .. IdleSeconds
      /\ work \in [Devices -> BOOLEAN]
      /\ IdleSeconds \in Nat
  BY MonitorAssumption DEF IInv, TypeOK
<1>1. known[d] # None /\ ~known[d].busy /\ ~work[d] => known[d].last_use <= unused[d]
  BY DEF UseIsRecorded
<1>2. CASE UNCHANGED <<known, use>>
  BY <1>1, <1>2 DEF use
<1>3. CASE DaemonStep
  <2>1. /\ UNCHANGED <<work, unused>>
        /\ Left(d) \/ Entered(d) \/ Checked(d) \/ Visited(d)
    BY <1>0, <1>3, DaemonMoves DEF use
  <2>2. CASE Left(d)
    BY <1>1, <2>1, <2>2 DEF Left
  <2>3. CASE Entered(d)
    BY <1>0, <2>1, <2>3 DEF Entered, EntryAt
  <2>4. CASE Checked(d)
    <3>1. known'[d].last_use = known[d].last_use /\ known'[d].busy = known[d].busy
      BY <1>0, <2>4 DEF Checked, Entry
    <3> QED
      BY <1>1, <2>1, <2>4, <3>1 DEF Checked
  <2>5. CASE Visited(d)
    <3>1. /\ known[d] # None /\ known[d] \in Entry
          /\ known'[d].busy = work[d]
          /\ known'[d].last_use =
               IF known[d].busy /\ ~work[d] THEN 0 ELSE known[d].last_use
      BY <1>0, <2>5 DEF Visited, Sampled, Entry
    <3>2. CASE known[d].busy
      BY <1>0, <2>1, <3>1, <3>2
    <3>3. CASE ~known[d].busy
      BY <1>1, <2>1, <3>1, <3>3
    <3> QED
      BY <3>2, <3>3
  <2> QED
    BY <2>1, <2>2, <2>3, <2>4, <2>5
<1>4. ASSUME NEW p \in Probers, ProberStep(p)
      PROVE  known'[d].last_use <= unused'[d]
  BY <1>2, <1>4 DEF ProberStep, ProberStart, ProberProbed, ProberSaves, ProberFails
<1>5. ASSUME NEW c \in Devices, WorkStarts(c)
      PROVE  known'[d].last_use <= unused'[d]
  <2>1. c # d
    BY <1>0, <1>5 DEF WorkStarts
  <2> QED
    BY <1>0, <1>1, <1>5, <2>1 DEF WorkStarts
<1>6. ASSUME NEW c \in Devices, WorkEnds(c)
      PROVE  known'[d].last_use <= unused'[d]
  <2>1. UNCHANGED <<known, unused>>
    BY <1>6 DEF WorkEnds
  <2>2. CASE c = d
    BY <1>6, <2>1, <2>2 DEF WorkEnds
  <2>3. CASE c # d
    BY <1>0, <1>1, <1>6, <2>1, <2>3 DEF WorkEnds
  <2> QED
    BY <2>2, <2>3
<1>7. CASE MachineReboots
  BY <1>0, <1>7 DEF MachineReboots, Off
<1>8. CASE Tick
  <2>1. /\ known'[d] = Aged(known[d])
        /\ unused'[d] = IF work[d] THEN 0 ELSE Older(unused[d], IdleSeconds)
        /\ work' = work
    BY <1>0, <1>8 DEF Tick
  <2>2. known[d] # None /\ known[d] \in Entry
    BY <1>0, <2>1 DEF Aged
  <2>3. /\ known'[d].busy = known[d].busy
        /\ known'[d].last_use = Older(known[d].last_use, IdleSeconds)
        /\ known[d].last_use \in 0 .. IdleSeconds
    BY <2>1, <2>2 DEF Aged, Entry
  <2> QED
    BY <1>0, <1>1, <2>1, <2>2, <2>3 DEF Older
<1> QED
  BY <1>2, <1>3, <1>4, <1>5, <1>6, <1>7, <1>8 DEF Next, vars

(* If every task outlasts a round, a device is put to sleep only when it   *)
(* has no task and had none for the idle time, whatever samples, probes    *)
(* and restarts of the daemon come between (the loop of unix::serve).      *)
THEOREM SleepersWereIdle ==
    ASSUME LongTasks
    PROVE  Spec => SleepFollowsIdleness
<1> DEFINE Slept == \A d \in Timed : FallsAsleep(d) => ~work[d] /\ unused[d] >= IdleSeconds
<1>1. Init => UseIsRecorded
  BY MonitorAssumption DEF Init, UseIsRecorded
<1>2. IInv /\ UseIsRecorded /\ [Next]_vars => UseIsRecorded'
  BY StepUseIsRecorded
<1>3. ASSUME IInv, UseIsRecorded, [Next]_vars
      PROVE  [Slept]_vars
  <2> SUFFICES ASSUME Next, NEW d \in Timed, FallsAsleep(d)
               PROVE  ~work[d] /\ unused[d] >= IdleSeconds
    BY <1>3
  <2>0. /\ d \in Devices
        /\ known[d] \in Entry
        /\ known'[d] # None
        /\ known[d].status # "sleeping" /\ known'[d].status = "sleeping"
        /\ work[d] \in BOOLEAN /\ unused[d] \in 0 .. IdleSeconds
        /\ IdleSeconds \in Nat
    BY <1>3, MonitorAssumption DEF FallsAsleep, IInv, TypeOK
  <2>1. CASE DaemonStep
    <3>1. Left(d) \/ Entered(d) \/ Checked(d) \/ Visited(d)
      BY <1>3, <2>0, <2>1, DaemonMoves
    <3>2. ~Left(d)
      BY <2>0 DEF Left
    <3>3. ~Entered(d)
      BY <2>0 DEF Entered, EntryAt
    <3>4. ~Checked(d)
      BY <2>0 DEF Checked, Entry, ProbeOutcome
    <3>5. known'[d] # Sampled(d)
      BY <2>0 DEF Sampled, Entry
    <3>6. IsIdle(Sampled(d))
      BY <3>1, <3>2, <3>3, <3>4, <3>5 DEF Visited
    <3>7. /\ Sampled(d).busy = work[d]
          /\ Sampled(d).last_use =
               IF known[d].busy /\ ~work[d] THEN 0 ELSE known[d].last_use
      BY <2>0 DEF Sampled, Entry
    <3>8. ~work[d] /\ ~known[d].busy /\ known[d].last_use >= IdleSeconds
      BY <2>0, <3>6, <3>7 DEF IsIdle
    <3>9. known[d].last_use <= unused[d]
      BY <1>3, <2>0, <3>8, EntryAssumption DEF UseIsRecorded
    <3> QED
      BY <2>0, <3>8, <3>9 DEF Entry
  <2>2. CASE Tick
    <3>1. known'[d] = Aged(known[d])
      BY <2>0, <2>2 DEF Tick
    <3> QED
      BY <2>0, <3>1, EntryAssumption DEF Aged, Entry
  <2>3. CASE UNCHANGED known
    BY <2>0, <2>3
  <2>4. CASE MachineReboots
    BY <2>0, <2>4 DEF MachineReboots, Off
  <2>5. ASSUME NEW p \in Probers, ProberStep(p)
        PROVE  UNCHANGED known
    BY <2>5 DEF ProberStep, ProberStart, ProberProbed, ProberSaves, ProberFails
  <2>6. ASSUME NEW c \in Devices, WorkStarts(c) \/ WorkEnds(c)
        PROVE  UNCHANGED known
    BY <2>6 DEF WorkStarts, WorkEnds
  <2> QED
    BY <2>1, <2>2, <2>3, <2>4, <2>5, <2>6 DEF Next
<1>4. Spec => [][Slept]_vars
  BY <1>1, <1>2, <1>3, IInvAlways, PTL DEF Spec
<1> QED
  BY <1>4 DEF SleepFollowsIdleness

=============================================================================
