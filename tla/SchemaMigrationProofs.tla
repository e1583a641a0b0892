------------------------ MODULE SchemaMigrationProofs ------------------------
(***************************************************************************)
(* Proofs about processes that create or migrate the database together,    *)
(* for any number of them, of retries and of deaths, from every release.   *)
(***************************************************************************)
EXTENDS SchemaMigration, TLAPS

Columns == LeaseColumns \cup {"shell"} \cup ControlColumns

Upgrades == {<<"upgrade", Added[n]>> : n \in 1 .. 3}

(* The steps of an open, from its end. *)
Last == {<<"sweep">>, <<"open">>}
Controls == {<<"names", "sessions">>, <<"alter", "control_token">>,
             <<"alter", "control_lease">>, <<"expire">>} \cup Last
Alters == {<<"names", "tasks">>, <<"alter", "lease_at">>,
           <<"alter", "worker_boot">>, <<"alter", "shell">>} \cup Controls
Creates == {<<"create", "sessions">>, <<"create", "tasks">>} \cup Alters
Steps == {<<"closed">>} \cup Upgrades \cup Creates

Typed ==
    /\ version \in 0 .. 3
    /\ schema \subseteq Complete
    /\ openers \in [Openers -> [pc : Steps, names : SUBSET Complete]]
    /\ faults \in Nat

(* What a process relies on that has come to a step.  Others only add to   *)
(* the schema, so that what it saw or added is there still.                *)
Relies(p) ==
    LET pc == openers[p].pc IN
    /\ \A n \in 1 .. 3 : pc = <<"upgrade", Added[n]>> => version >= n - 1
    /\ pc \in Creates => version = 3
    /\ pc = <<"create", "tasks">> => "sessions" \in schema
    /\ pc \in Alters => Tables \subseteq schema
    /\ pc \in Controls => "shell" \in schema
    /\ pc \in Last => ControlColumns \subseteq schema
    /\ pc = <<"open">> => LeaseColumns \subseteq schema
    /\ openers[p].names \subseteq schema

IInv ==
    /\ Typed
    /\ VersionTellsColumns
    /\ \A p \in Openers : Relies(p)
    /\ HalvesAreInProgress

(* No step of one kind is one of another. *)
LEMMA StepsDiffer ==
    /\ <<"closed">> \notin Upgrades \cup Creates
    /\ Upgrades \cap Creates = {}
    /\ \A m, n \in 1 .. 3 : <<"upgrade", Added[m]>> = <<"upgrade", Added[n]>> => m = n
    /\ {<<"create", "sessions">>, <<"create", "tasks">>} \cap Alters = {}
    /\ <<"create", "sessions">> # <<"create", "tasks">>
    /\ {<<"names", "tasks">>, <<"alter", "lease_at">>,
           <<"alter", "worker_boot">>, <<"alter", "shell">>} \cap Controls = {}
    /\ {<<"names", "sessions">>, <<"alter", "control_token">>,
             <<"alter", "control_lease">>, <<"expire">>} \cap Last = {}
    /\ <<"sweep">> # <<"open">>
BY DEF Upgrades, Creates, Alters, Controls, Last, Added

LEMMA AddedNames ==
    /\ Added[1] = "devices" /\ Added[2] = "login_user" /\ Added[3] = "os_name"
    /\ \A n \in 1 .. 3 : Added[n] \in Complete
    /\ \A n \in 1 .. 3 : Added[n] \notin Tables \cup Columns
    /\ \A m, n \in 1 .. 3 : Added[m] = Added[n] => m = n
BY DEF Added, Complete, Tables, Columns, LeaseColumns, ControlColumns

LEMMA InitIInv == Init => IInv
<1> SUFFICES ASSUME Init PROVE IInv
  OBVIOUS
<1>1. PICK release \in Releases : version = release.version /\ schema = release.schema
  BY DEF Init
<1>2. /\ version \in 0 .. 3
      /\ schema \subseteq Complete
      /\ VersionTellsColumns
      /\ ~Half("lease_at", "worker_boot")
      /\ ~Half("control_token", "control_lease")
  <2>1. CASE release \in {[version |-> n, schema |-> Release(n)] : n \in 0 .. 3}
    <3>1. PICK n \in 0 .. 3 : version = n /\ schema = {Added[k] : k \in 1 .. n}
      BY <1>1, <2>1 DEF Release
    <3>2. /\ "lease_at" \notin schema
          /\ "control_token" \notin schema
      BY <3>1, AddedNames
    <3> QED
      BY <3>1, <3>2, AddedNames DEF VersionTellsColumns, Half
  <2>2. CASE release \notin {[version |-> n, schema |-> Release(n)] : n \in 0 .. 3}
    <3>1. PICK more \in {{}, LeaseColumns, LeaseColumns \cup {"shell"},
                         LeaseColumns \cup {"shell"} \cup ControlColumns} :
            version = 3 /\ schema = {Added[k] : k \in 1 .. 3} \cup Tables \cup more
      BY <1>1, <2>2 DEF Releases, Release
    <3>2. /\ more \subseteq Columns
          /\ "lease_at" \in more => "worker_boot" \in more
          /\ "control_token" \in more => "control_lease" \in more
      BY <3>1 DEF Columns, LeaseColumns, ControlColumns
    <3>3. schema \subseteq Complete
      BY <3>1, <3>2 DEF Complete, Columns
    <3>4. VersionTellsColumns
      BY <3>1, AddedNames DEF VersionTellsColumns
    <3>5. /\ "lease_at" \in schema => "lease_at" \in more
          /\ "control_token" \in schema => "control_token" \in more
      BY <3>1, AddedNames DEF Tables
    <3> QED
      BY <3>1, <3>2, <3>3, <3>4, <3>5 DEF Half
  <2> QED
    BY <2>1, <2>2
<1>3. /\ openers = [p \in Openers |-> Closed]
      /\ faults = 0
  BY DEF Init
<1>4. Typed
  BY <1>2, <1>3 DEF Typed, Closed, Steps
<1>5. ASSUME NEW p \in Openers
      PROVE  Relies(p)
  BY <1>3, StepsDiffer DEF Relies, Closed, Creates, Alters, Controls, Upgrades
<1> QED
  BY <1>2, <1>4, <1>5 DEF IInv, HalvesAreInProgress

-----------------------------------------------------------------------------
(* What a process relies on stays, whatever another does. *)
LEMMA OthersRely ==
    ASSUME NEW p \in Openers, Relies(p),
           openers'[p] = openers[p],
           schema \subseteq schema',
           version \in 0 .. 3, version' \in 0 .. 3, version <= version'
    PROVE  Relies(p)'
BY DEF Relies

(* One process moves, and no column or version is taken back. *)
Grows(p) ==
    /\ \A q \in Openers \ {p} : openers'[q] = openers[q]
    /\ schema \subseteq schema'
    /\ version <= version'
    /\ Typed'

(* Only who adds the first column of a pair comes to the second, and who   *)
(* leaves that step left the second column behind.                         *)
KeepsPair(p, first, second) ==
    /\ At(p, <<"alter", second>>) => second \in schema' \/ At(p, <<"alter", second>>)'
    /\ first \in schema' \ schema => At(p, <<"alter", second>>)'

KeepsPairs(p) ==
    \/ faults' > 0
    \/ /\ faults' = faults
       /\ KeepsPair(p, "lease_at", "worker_boot")
       /\ KeepsPair(p, "control_token", "control_lease")

LEMMA PairStays ==
    ASSUME NEW p \in Openers, Grows(p), NEW first, NEW second,
           KeepsPair(p, first, second),
           Half(first, second) => \E q \in Openers : At(q, <<"alter", second>>)
    PROVE  Half(first, second)' => \E q \in Openers : At(q, <<"alter", second>>)'
<1> SUFFICES ASSUME Half(first, second)'
             PROVE  \E q \in Openers : At(q, <<"alter", second>>)'
  OBVIOUS
<1>1. CASE first \notin schema
  BY <1>1 DEF KeepsPair, Half
<1>2. CASE first \in schema
  <2>1. PICK q \in Openers : At(q, <<"alter", second>>)
    BY <1>2 DEF Half, Grows
  <2>2. CASE q = p
    BY <2>1, <2>2 DEF KeepsPair, Half
  <2>3. CASE q # p
    BY <2>1, <2>3 DEF Grows, At
  <2> QED
    BY <2>2, <2>3
<1> QED
  BY <1>1, <1>2

LEMMA OneMoves ==
    ASSUME IInv, NEW p \in Openers, Grows(p), KeepsPairs(p),
           VersionTellsColumns', Relies(p)'
    PROVE  IInv'
<1>1. \A q \in Openers : Relies(q)'
  <2> SUFFICES ASSUME NEW q \in Openers, q # p
               PROVE  Relies(q)'
    OBVIOUS
  <2>1. Relies(q) /\ version \in 0 .. 3 /\ version' \in 0 .. 3
    BY DEF IInv, Grows, Typed
  <2> QED
    BY <2>1, OthersRely DEF Grows
<1>2. HalvesAreInProgress'
  <2>1. CASE faults' > 0
    BY <2>1 DEF HalvesAreInProgress
  <2>2. CASE /\ faults' = faults
             /\ ~(faults > 0)
             /\ KeepsPair(p, "lease_at", "worker_boot")
             /\ KeepsPair(p, "control_token", "control_lease")
    <3>1. /\ Half("lease_at", "worker_boot") =>
               \E q \in Openers : At(q, <<"alter", "worker_boot">>)
          /\ Half("control_token", "control_lease") =>
               \E q \in Openers : At(q, <<"alter", "control_lease">>)
      BY <2>2 DEF IInv, HalvesAreInProgress
    <3>2. Half("lease_at", "worker_boot")' =>
            \E q \in Openers : At(q, <<"alter", "worker_boot">>)'
      BY <2>2, <3>1, PairStays
    <3>3. Half("control_token", "control_lease")' =>
            \E q \in Openers : At(q, <<"alter", "control_lease">>)'
      BY <2>2, <3>1, PairStays
    <3> QED
      BY <3>2, <3>3 DEF HalvesAreInProgress
  <2> QED
    BY <2>1, <2>2 DEF KeepsPairs
<1> QED
  BY <1>1, <1>2 DEF IInv, Grows

(* A process that goes on after a statement that adds at most one name. *)
LEMMA GoesOn ==
    ASSUME Typed, NEW p \in Openers, NEW pc \in Steps, Go(p, pc),
           schema \subseteq schema', schema' \subseteq Complete,
           version' \in 0 .. 3, version <= version', faults' = faults
    PROVE  /\ Grows(p)
           /\ openers'[p].pc = pc
           /\ openers'[p].names = openers[p].names
BY DEF Grows, Typed, Go

(* An open that returns, by its end, an error or the death of its process. *)
LEMMA GivesUp ==
    ASSUME IInv, NEW p \in Openers, Gives(p), UNCHANGED <<version, schema>>,
           faults' \in Nat, faults' >= faults,
           \/ faults' > 0
           \/ /\ At(p, <<"alter", "worker_boot">>) => "worker_boot" \in schema
              /\ At(p, <<"alter", "control_lease">>) => "control_lease" \in schema
    PROVE  IInv'
<1>1. openers' = [openers EXCEPT ![p] = Closed]
  BY DEF Gives
<1>2. Grows(p) /\ openers'[p] = Closed
  <2>1. Closed \in [pc : Steps, names : SUBSET Complete]
    BY DEF Closed, Steps
  <2>2. openers' \in [Openers -> [pc : Steps, names : SUBSET Complete]]
    BY <1>1, <2>1 DEF IInv, Typed
  <2> QED
    BY <1>1, <2>2 DEF Grows, IInv, Typed
<1>3. Relies(p)'
  BY <1>2, StepsDiffer DEF Relies, Closed, Creates, Alters, Controls, Upgrades
<1>4. KeepsPairs(p)
  BY <1>2 DEF KeepsPairs, KeepsPair, IInv, Typed
<1>5. VersionTellsColumns'
  BY DEF IInv, VersionTellsColumns
<1> QED
  BY <1>2, <1>3, <1>4, <1>5, OneMoves

(* A step that leaves the version and the names of upgrades alone. *)
LEMMA OthersAdd ==
    ASSUME VersionTellsColumns, UNCHANGED version,
           NEW add \in SUBSET (Tables \cup Columns), schema' = schema \cup add
    PROVE  VersionTellsColumns'
BY AddedNames DEF VersionTellsColumns

LEMMA NextUpgrade ==
    ASSUME NEW n \in 0 .. 3
    PROVE  /\ UpgradeAfter(n) \in Steps
           /\ n < 3 => UpgradeAfter(n) = <<"upgrade", Added[n + 1]>>
           /\ n = 3 => UpgradeAfter(n) = <<"create", "sessions">>
<1>1. n < 3 => n + 1 \in 1 .. 3
  OBVIOUS
<1> QED
  BY <1>1 DEF UpgradeAfter, Steps, Upgrades, Creates

(* A process that comes to its next upgrade, or past the last. *)
LEMMA UpgradedRelies ==
    ASSUME NEW p \in Openers, NEW n \in 0 .. 3,
           openers'[p].pc = UpgradeAfter(n),
           openers'[p].names \subseteq schema',
           version' \in 0 .. 3, version' >= n
    PROVE  Relies(p)'
<1>1. CASE n < 3
  <2>1. n + 1 \in 1 .. 3 /\ openers'[p].pc = <<"upgrade", Added[n + 1]>>
    BY <1>1, NextUpgrade
  <2>2. openers'[p].pc \in Upgrades
    BY <2>1 DEF Upgrades
  <2>3. openers'[p].pc \notin Creates
    BY <2>2, StepsDiffer
  <2>4. openers'[p].pc \notin Alters \cup Controls \cup Last
          \cup {<<"create", "tasks">>, <<"open">>}
    BY <2>3 DEF Creates, Alters, Controls, Last
  <2>5. \A m \in 1 .. 3 : openers'[p].pc = <<"upgrade", Added[m]>> => m = n + 1
    BY <2>1, StepsDiffer
  <2> QED
    BY <2>3, <2>4, <2>5 DEF Relies
<1>2. CASE n = 3
  <2>1. openers'[p].pc = <<"create", "sessions">>
    BY <1>2, NextUpgrade
  <2>2. /\ openers'[p].pc \notin Alters
        /\ openers'[p].pc # <<"create", "tasks">>
        /\ openers'[p].pc \in Creates
    BY <2>1, StepsDiffer DEF Creates
  <2>3. openers'[p].pc \notin Controls \cup Last \cup {<<"open">>}
    BY <2>2 DEF Alters, Controls, Last
  <2>4. \A m \in 1 .. 3 : openers'[p].pc # <<"upgrade", Added[m]>>
    BY <2>2, StepsDiffer DEF Upgrades
  <2> QED
    BY <1>2, <2>2, <2>3, <2>4 DEF Relies
<1> QED
  BY <1>1, <1>2

(* Where a process stands after its upgrades, it relies on no more than    *)
(* the version and what its step needs.                                    *)
LEMMA CreatedRelies ==
    ASSUME NEW p \in Openers,
           openers'[p].pc \in Creates,
           openers'[p].names \subseteq schema',
           version' = 3,
           openers'[p].pc = <<"create", "tasks">> => "sessions" \in schema',
           openers'[p].pc \in Alters => Tables \subseteq schema',
           openers'[p].pc \in Controls => "shell" \in schema',
           openers'[p].pc \in Last => ControlColumns \subseteq schema',
           openers'[p].pc = <<"open">> => LeaseColumns \subseteq schema'
    PROVE  Relies(p)'
<1>1. \A m \in 1 .. 3 : openers'[p].pc # <<"upgrade", Added[m]>>
  BY StepsDiffer DEF Upgrades
<1> QED
  BY <1>1 DEF Relies

(* Where the choices of the code lead that look at what was read. *)
LEMMA AfterLeaseSteps ==
    ASSUME NEW names
    PROVE  /\ AfterLease(names) \in Alters
           /\ AfterLease(names) \in Controls => "shell" \in names
           /\ AfterLease(names) \notin Last
BY StepsDiffer DEF AfterLease, Alters, Controls

LEMMA AfterAlterSteps ==
    ASSUME NEW column \in Columns, NEW names
    PROVE  /\ AfterAlter(column, names) \in Alters
           /\ AfterAlter(column, names) \notin Last
           /\ AfterAlter(column, names) \in Controls =>
                \/ column = "shell"
                \/ "shell" \in names
                \/ <<"alter", column>> \in Controls
           /\ column = "lease_at" => AfterAlter(column, names) = <<"alter", "worker_boot">>
           /\ column = "control_token" =>
                AfterAlter(column, names) = <<"alter", "control_lease">>
<1>1. CASE column = "lease_at"
  <2>1. AfterAlter(column, names) = <<"alter", "worker_boot">>
    BY <1>1 DEF AfterAlter
  <2> QED
    BY <1>1, <2>1, StepsDiffer DEF Alters, Controls
<1>2. CASE column = "worker_boot"
  <2>1. AfterAlter(column, names) = AfterLease(names)
    BY <1>2 DEF AfterAlter
  <2> QED
    BY <1>2, <2>1, AfterLeaseSteps
<1>3. CASE column = "shell"
  <2>1. AfterAlter(column, names) = <<"names", "sessions">>
    BY <1>3 DEF AfterAlter
  <2> QED
    BY <1>3, <2>1, StepsDiffer DEF Alters, Controls
<1>4. CASE column = "control_token"
  <2>1. AfterAlter(column, names) = <<"alter", "control_lease">>
    BY <1>4 DEF AfterAlter
  <2> QED
    BY <1>4, <2>1, StepsDiffer DEF Alters, Controls
<1>5. CASE column = "control_lease"
  <2>1. AfterAlter(column, names) = <<"expire">>
    BY <1>5 DEF AfterAlter
  <2> QED
    BY <1>5, <2>1, StepsDiffer DEF Alters, Controls
<1> QED
  BY <1>1, <1>2, <1>3, <1>4, <1>5 DEF Columns, LeaseColumns, ControlColumns

LEMMA StepIInv ==
    ASSUME IInv, NEW p \in Openers, OpenStep(p) \/ OpenFails(p)
    PROVE  IInv'
<1>0. /\ Typed
      /\ VersionTellsColumns
      /\ Relies(p)
      /\ openers[p].pc \in Steps
      /\ openers[p].names \subseteq schema
      /\ openers[p].names \in SUBSET Complete
  BY DEF IInv, Typed, Relies
<1>1. CASE OpenStart(p)
  <2>1. /\ openers[p].pc = <<"closed">>
        /\ Go(p, UpgradeAfter(version))
        /\ version \in 0 .. 3
        /\ schema \subseteq Complete
        /\ UNCHANGED <<version, schema, faults>>
    BY <1>0, <1>1 DEF OpenStart, At, Go, Typed
  <2>2. UpgradeAfter(version) \in Steps
    BY <2>1, NextUpgrade
  <2>3. /\ Grows(p)
        /\ openers'[p].pc = UpgradeAfter(version)
        /\ openers'[p].names = openers[p].names
    BY <1>0, <2>1, <2>2, GoesOn
  <2>4. Relies(p)'
    BY <1>0, <2>1, <2>3, UpgradedRelies
  <2>5. KeepsPairs(p)
    BY <2>1, StepsDiffer DEF KeepsPairs, KeepsPair, At
  <2> QED
    BY <1>0, <2>1, <2>3, <2>4, <2>5, OneMoves DEF VersionTellsColumns
<1>2. ASSUME NEW n \in 1 .. 3, Upgrade(p, n)
      PROVE  IInv'
  <2>1. At(p, <<"upgrade", Added[n]>>) /\ UNCHANGED faults /\ version >= n - 1
    BY <1>0, <1>2 DEF Upgrade, Relies, At
  <2>2. openers[p].pc \notin Creates
    BY <2>1, StepsDiffer DEF At, Upgrades
  <2>3. ~At(p, <<"alter", "worker_boot">>) /\ ~At(p, <<"alter", "control_lease">>)
    BY <2>2 DEF At, Creates, Alters, Controls
  <2>4. CASE /\ Added[n] \notin schema
             /\ schema' = schema \cup {Added[n]}
             /\ version' = n
             /\ Go(p, UpgradeAfter(n))
    <3>1. version = n - 1
      BY <1>0, <2>1, <2>4 DEF VersionTellsColumns
    <3>2. /\ n \in 0 .. 3
          /\ version' \in 0 .. 3
          /\ version <= version'
          /\ version' >= n
      BY <2>4, <3>1
    <3>3. /\ UpgradeAfter(n) \in Steps
          /\ schema \subseteq schema' /\ schema' \subseteq Complete
      BY <1>0, <2>4, <3>2, NextUpgrade, AddedNames DEF Typed
    <3>5. /\ Grows(p)
          /\ openers'[p].pc = UpgradeAfter(n)
          /\ openers'[p].names = openers[p].names
      BY <1>0, <2>1, <2>4, <3>2, <3>3, GoesOn
    <3>6. Relies(p)'
      BY <1>0, <2>4, <3>2, <3>5, UpgradedRelies
    <3>7. VersionTellsColumns'
      BY <1>0, <2>4, <3>1, AddedNames DEF VersionTellsColumns
    <3>8. "lease_at" \notin schema' \ schema /\ "control_token" \notin schema' \ schema
      BY <2>4, AddedNames DEF Columns, LeaseColumns, ControlColumns
    <3>9. KeepsPairs(p)
      BY <2>1, <2>3, <3>8 DEF KeepsPairs, KeepsPair
    <3> QED
      BY <3>5, <3>6, <3>7, <3>9, OneMoves
  <2>5. CASE Gives(p) /\ UNCHANGED <<version, schema>>
    BY <1>0, <2>1, <2>3, <2>5, GivesUp DEF Typed
  <2> QED
    BY <1>2, <2>4, <2>5 DEF Upgrade
<1>3. ASSUME NEW t \in Tables, CreateTable(p, t)
      PROVE  IInv'
  <2> DEFINE pc == IF t = "sessions" THEN <<"create", "tasks">> ELSE <<"names", "tasks">>
  <2>1. /\ openers[p].pc = <<"create", t>>
        /\ schema' = schema \cup {t}
        /\ Go(p, pc)
        /\ UNCHANGED <<version, faults>>
    BY <1>3 DEF CreateTable, At
  <2>2. t \in {"sessions", "tasks"} /\ {t} \in SUBSET (Tables \cup Columns)
    BY DEF Tables
  <2>3. /\ openers[p].pc \in {<<"create", "sessions">>, <<"create", "tasks">>}
        /\ openers[p].pc \notin Alters
        /\ openers[p].pc \in Creates
    BY <2>1, <2>2, StepsDiffer DEF Creates
  <2>4. /\ pc \in Steps /\ pc \in Creates
        /\ schema \subseteq schema' /\ schema' \subseteq Complete
    BY <1>0, <2>1, <2>2 DEF Typed, Steps, Creates, Alters, Complete, Tables
  <2>5. version \in 0 .. 3 /\ version = 3
    BY <1>0, <2>3 DEF Typed, Relies
  <2>6. /\ Grows(p)
        /\ openers'[p].pc = pc
        /\ openers'[p].names = openers[p].names
    <3> HIDE DEF pc
    <3> QED
      BY <1>0, <2>1, <2>4, <2>5, GoesOn
  <2>7. /\ pc \notin Controls
        /\ t = "sessions" => pc \notin Alters
        /\ pc = <<"create", "tasks">> => t = "sessions"
    BY StepsDiffer DEF Alters
  <2>8. Relies(p)'
    <3>1. pc \notin Last \cup {<<"open">>}
      BY <2>7 DEF Controls, Last
    <3>2. t = "tasks" => "sessions" \in schema
      BY <1>0, <2>1 DEF Relies
    <3>3. pc \in Alters => Tables \subseteq schema'
      BY <2>1, <2>2, <2>7, <3>2 DEF Tables
    <3>4. pc = <<"create", "tasks">> => "sessions" \in schema'
      BY <2>1, <2>7
    <3> HIDE DEF pc
    <3> QED
      BY <1>0, <2>1, <2>4, <2>5, <2>6, <2>7, <3>1, <3>3, <3>4, CreatedRelies
  <2>9. KeepsPairs(p)
    BY <2>1, <2>2, <2>3 DEF KeepsPairs, KeepsPair, At, Alters, Controls
  <2>10. VersionTellsColumns'
    BY <1>0, <2>1, <2>2, OthersAdd
  <2> QED
    BY <2>6, <2>8, <2>9, <2>10, OneMoves
<1>4. CASE ReadTaskNames(p)
  <2> DEFINE pc == IF "lease_at" \in schema THEN AfterLease(schema) ELSE <<"alter", "lease_at">>
  <2>1. /\ openers[p].pc = <<"names", "tasks">>
        /\ openers' = [openers EXCEPT ![p].names = schema, ![p].pc = pc]
        /\ UNCHANGED <<version, schema, faults>>
    BY <1>4 DEF ReadTaskNames, At
  <2>2. openers[p].pc \in Alters /\ openers[p].pc \notin Controls
    BY <2>1, StepsDiffer DEF Alters
  <2>3. /\ pc \in Alters
        /\ pc \in Controls => "shell" \in schema
        /\ pc \notin Last
    <3>1. CASE "lease_at" \in schema
      BY <3>1, AfterLeaseSteps
    <3>2. CASE "lease_at" \notin schema
      <4>1. pc \in Alters /\ pc \notin Controls
        BY <3>2, StepsDiffer DEF Alters
      <4> QED
        BY <4>1 DEF Controls
    <3> QED
      BY <3>1, <3>2
  <2> HIDE DEF pc
  <2>4. /\ openers'[p] = [pc |-> pc, names |-> schema]
        /\ \A q \in Openers \ {p} : openers'[q] = openers[q]
        /\ openers' \in [Openers -> [pc : Steps, names : SUBSET Complete]]
    BY <1>0, <2>1, <2>3 DEF Typed, Steps, Creates
  <2>5. /\ Grows(p)
        /\ openers'[p].pc = pc
        /\ openers'[p].names = schema
    BY <1>0, <2>1, <2>4 DEF Grows, Typed
  <2>6. Relies(p)'
    <3>1. pc \in Creates /\ pc # <<"create", "tasks">> /\ pc # <<"open">>
      BY <2>3, StepsDiffer DEF Creates, Last
    <3>2. version' = 3 /\ Tables \subseteq schema'
      BY <1>0, <2>1, <2>2 DEF Relies, Creates
    <3> QED
      BY <2>1, <2>3, <2>5, <3>1, <3>2, CreatedRelies
  <2>7. KeepsPairs(p)
    BY <2>1, <2>2 DEF KeepsPairs, KeepsPair, At, Controls
  <2> QED
    BY <1>0, <2>1, <2>5, <2>6, <2>7, OneMoves DEF VersionTellsColumns
<1>5. CASE ReadSessionNames(p)
  <2> DEFINE pc == IF "control_token" \in schema THEN <<"expire">>
                                                 ELSE <<"alter", "control_token">>
  <2>1. /\ openers[p].pc = <<"names", "sessions">>
        /\ openers' = [openers EXCEPT ![p].names = {}, ![p].pc = pc]
        /\ UNCHANGED <<version, schema, faults>>
    BY <1>5 DEF ReadSessionNames, At
  <2>2. openers[p].pc \in Controls
    BY <2>1 DEF Controls
  <2>3. pc \in Controls /\ pc \notin Last
    BY StepsDiffer DEF Controls
  <2> HIDE DEF pc
  <2>4. /\ openers'[p] = [pc |-> pc, names |-> {}]
        /\ \A q \in Openers \ {p} : openers'[q] = openers[q]
        /\ openers' \in [Openers -> [pc : Steps, names : SUBSET Complete]]
    BY <1>0, <2>1, <2>3 DEF Typed, Steps, Creates, Alters
  <2>5. /\ Grows(p)
        /\ openers'[p].pc = pc
        /\ openers'[p].names = {}
    BY <1>0, <2>1, <2>4 DEF Grows, Typed
  <2>6. Relies(p)'
    BY <1>0, <2>1, <2>2, <2>3, <2>5, CreatedRelies, StepsDiffer
       DEF Relies, Creates, Alters, Last
  <2>7. KeepsPairs(p)
    BY <2>1 DEF KeepsPairs, KeepsPair, At
  <2> QED
    BY <1>0, <2>1, <2>5, <2>6, <2>7, OneMoves DEF VersionTellsColumns
<1>6. ASSUME NEW column \in Columns, AlterTable(p, column)
      PROVE  IInv'
  <2> DEFINE pc == AfterAlter(column, openers[p].names)
  <2>1. /\ openers[p].pc = <<"alter", column>>
        /\ UNCHANGED <<version, faults>>
    BY <1>6 DEF AlterTable, At
  <2>2. openers[p].pc \in Alters
    BY <2>1 DEF Columns, LeaseColumns, ControlColumns, Alters, Controls
  <2>3. version = 3 /\ Tables \subseteq schema
    BY <1>0, <2>2 DEF Relies, Creates
  <2>4. CASE /\ column \notin schema
             /\ schema' = schema \cup {column}
             /\ Go(p, pc)
    <3>1. /\ pc \in Alters /\ pc \notin Last
          /\ pc \in Controls =>
               column = "shell" \/ "shell" \in openers[p].names \/ openers[p].pc \in Controls
          /\ column = "lease_at" => pc = <<"alter", "worker_boot">>
          /\ column = "control_token" => pc = <<"alter", "control_lease">>
      BY <2>1, AfterAlterSteps
    <3> HIDE DEF pc
    <3>2. /\ pc \in Steps
          /\ schema \subseteq schema' /\ schema' \subseteq Complete
          /\ {column} \in SUBSET (Tables \cup Columns)
          /\ version' \in 0 .. 3 /\ version <= version'
      BY <1>0, <2>1, <2>3, <2>4, <3>1 DEF Typed, Steps, Creates, Complete, Columns
    <3>3. /\ Grows(p)
          /\ openers'[p].pc = pc
          /\ openers'[p].names = openers[p].names
      BY <1>0, <2>1, <2>4, <3>2, GoesOn
    <3>4. pc \in Controls => "shell" \in schema'
      BY <1>0, <2>4, <3>1 DEF Relies
    <3>5. Relies(p)'
      BY <1>0, <2>1, <2>3, <2>4, <3>1, <3>3, <3>4, CreatedRelies, StepsDiffer
         DEF Creates, Last
    <3>6. KeepsPairs(p)
      <4>1. /\ At(p, <<"alter", "worker_boot">>) => column = "worker_boot"
            /\ At(p, <<"alter", "control_lease">>) => column = "control_lease"
        BY <2>1 DEF At
      <4> QED
        BY <2>1, <2>4, <3>1, <3>3, <4>1 DEF KeepsPairs, KeepsPair, At
    <3>7. VersionTellsColumns'
      BY <1>0, <2>1, <2>4, <3>2, OthersAdd
    <3> QED
      BY <3>3, <3>5, <3>6, <3>7, OneMoves
  <2>5. CASE column \in schema /\ Gives(p) /\ UNCHANGED schema
    <3>1. /\ At(p, <<"alter", "worker_boot">>) => column = "worker_boot"
          /\ At(p, <<"alter", "control_lease">>) => column = "control_lease"
      BY <2>1 DEF At
    <3> QED
      BY <1>0, <2>1, <2>5, <3>1, GivesUp DEF Typed
  <2> QED
    BY <1>6, <2>4, <2>5 DEF AlterTable
<1>7. ASSUME NEW from, NEW columns, NEW to,
             Sweeps(p, from, columns, to),
             \/ from = <<"expire">> /\ columns = ControlColumns /\ to = <<"sweep">>
             \/ from = <<"sweep">> /\ columns = LeaseColumns /\ to = <<"open">>
      PROVE  IInv'
  <2>1. /\ openers[p].pc = from
        /\ UNCHANGED <<version, schema, faults>>
        /\ version \in 0 .. 3 /\ schema \subseteq Complete /\ faults \in Nat
    BY <1>0, <1>7 DEF Sweeps, At, Typed
  <2>2. /\ from \in Controls
        /\ to \in Last
        /\ to \in Steps
        /\ from # <<"alter", "worker_boot">>
        /\ from # <<"alter", "control_lease">>
        /\ to = <<"open">> => from \in Last
    BY <1>7, StepsDiffer DEF Steps, Creates, Alters, Controls, Last
  <2>3. CASE columns \subseteq schema /\ Go(p, to)
    <3>1. /\ Grows(p)
          /\ openers'[p].pc = to
          /\ openers'[p].names = openers[p].names
      BY <1>0, <2>1, <2>2, <2>3, GoesOn
    <3>2. to = <<"open">> => LeaseColumns \subseteq schema
      BY <1>7, <2>3, StepsDiffer
    <3>3. ControlColumns \subseteq schema
      BY <1>0, <1>7, <2>1, <2>3 DEF Relies, Last
    <3>4. to \in Creates /\ to # <<"create", "tasks">>
      BY <1>7 DEF Creates, Alters, Controls, Last
    <3>5. version = 3 /\ Tables \subseteq schema /\ "shell" \in schema
      BY <1>0, <2>1, <2>2 DEF Relies, Creates, Alters
    <3>6. Relies(p)'
      BY <1>0, <2>1, <3>1, <3>2, <3>3, <3>4, <3>5, CreatedRelies
    <3>7. KeepsPairs(p)
      BY <2>1, <2>2 DEF KeepsPairs, KeepsPair, At
    <3> QED
      BY <1>0, <2>1, <3>1, <3>6, <3>7, OneMoves DEF VersionTellsColumns
  <2>4. CASE Gives(p)
    <3>1. ~At(p, <<"alter", "worker_boot">>) /\ ~At(p, <<"alter", "control_lease">>)
      BY <2>1, <2>2 DEF At
    <3> QED
      BY <2>1, <2>4, <3>1, GivesUp
  <2> QED
    BY <1>7, <2>3, <2>4 DEF Sweeps
<1>8. CASE Close(p)
  BY <1>0, <1>8, GivesUp DEF Close, At, Typed
<1>9. CASE OpenFails(p)
  <2>1. /\ faults' = faults + 1 /\ faults' > 0 /\ faults' \in Nat /\ faults' >= faults
        /\ Gives(p) /\ UNCHANGED <<version, schema>>
    BY <1>0, <1>9 DEF OpenFails, Typed
  <2> QED
    BY <2>1, GivesUp
<1>10. CASE ExpireControls(p) \/ SweepStale(p)
  BY <1>7, <1>10 DEF ExpireControls, SweepStale
<1> QED
  BY <1>1, <1>2, <1>3, <1>4, <1>5, <1>6, <1>8, <1>9, <1>10 DEF OpenStep, Columns

LEMMA IInvAlways == Spec => []IInv
<1>1. IInv /\ [Next]_vars => IInv'
  <2> SUFFICES ASSUME IInv, [Next]_vars PROVE IInv'
    OBVIOUS
  <2>1. ASSUME NEW p \in Openers, OpenStep(p) \/ OpenFails(p)
        PROVE  IInv'
    BY <2>1, StepIInv
  <2>2. CASE UNCHANGED vars
    BY <2>2 DEF vars, IInv, Typed, VersionTellsColumns, Relies, HalvesAreInProgress,
                Half, At
  <2> QED
    BY <2>1, <2>2 DEF Next
<1> QED
  BY <1>1, InitIInv, PTL DEF Spec

(* However many processes create or migrate a database together, and       *)
(* whatever version each had read, the version tells which upgrades it has *)
(* and no upgrade is made twice.                                           *)
THEOREM VersionIsTrue == Spec => []VersionTellsColumns
<1>1. IInv => VersionTellsColumns
  BY DEF IInv
<1> QED
  BY <1>1, IInvAlways, PTL

(* A store that is open has the whole schema, from whatever release and    *)
(* crash it started: an open that finds half a pair fails instead.         *)
THEOREM OpenStoresAreComplete == Spec => []OpenMeansComplete
<1>1. IInv => OpenMeansComplete
  <2> SUFFICES ASSUME IInv, NEW p \in Openers, At(p, <<"open">>)
               PROVE  version = 3 /\ schema = Complete
    BY DEF OpenMeansComplete
  <2>1. openers[p].pc = <<"open">> /\ openers[p].pc \in Last
    BY DEF At, Last
  <2>2. Relies(p) /\ Typed /\ VersionTellsColumns
    BY DEF IInv
  <2>3. /\ version = 3 /\ Tables \subseteq schema /\ "shell" \in schema
        /\ ControlColumns \subseteq schema /\ LeaseColumns \subseteq schema
    BY <2>1, <2>2 DEF Relies, Creates, Alters, Controls
  <2>4. \A n \in 1 .. 3 : Added[n] \in schema
    BY <2>2, <2>3 DEF VersionTellsColumns
  <2> QED
    BY <2>2, <2>3, <2>4 DEF Complete, Typed
<1> QED
  BY <1>1, IInvAlways, PTL

(* Opens that run together never leave half a pair of columns by           *)
(* themselves: it takes a death or a failed call between two commits.      *)
THEOREM OnlyFaultsLeaveHalves == Spec => []HalvesAreInProgress
<1>1. IInv => HalvesAreInProgress
  BY DEF IInv
<1> QED
  BY <1>1, IInvAlways, PTL

=============================================================================
