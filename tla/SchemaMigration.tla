--------------------------- MODULE SchemaMigration ---------------------------
(***************************************************************************)
(* Creation and migration of the database by ConnectionStore::open and     *)
(* tasks::initialize.  Every process migrates when it opens the store, so  *)
(* several may migrate at once, each with the version and the columns it   *)
(* read earlier, and each may die between two commits.                     *)
(*                                                                         *)
(* The versioned upgrades of table devices are transactions; the tables    *)
(* and columns of tasks and sessions are added one statement, and so one   *)
(* commit, at a time.  SQLite rejects a table or column that exists.       *)
(***************************************************************************)
EXTENDS Naturals

CONSTANTS
    Openers,    \* processes that open the store
    MaxFaults   \* bound: deaths and calls that fail on a busy database

ASSUME MigrationAssumption == MaxFaults \in Nat

VARIABLES
    version,   \* PRAGMA user_version
    schema,    \* tables and columns that exist
    openers,   \* what each process is doing
    faults     \* faults so far

vars == <<version, schema, openers, faults>>

(* What each version adds; one column stands for all that its upgrade adds. *)
Added == [n \in 1 .. 3 |-> CASE n = 1 -> "devices"
                             [] n = 2 -> "login_user"
                             [] n = 3 -> "os_name"]

Tables == {"sessions", "tasks"}
LeaseColumns == {"lease_at", "worker_boot"}
ControlColumns == {"control_token", "control_lease"}

Complete == {Added[n] : n \in 1 .. 3} \cup Tables \cup LeaseColumns
              \cup {"shell"} \cup ControlColumns

Closed == [pc |-> <<"closed">>, names |-> {}]

(* Databases that this or an earlier release leaves behind: none, or one   *)
(* that its migrations had completed up to some point.                     *)
Release(n) == {Added[k] : k \in 1 .. n}

Releases ==
    {[version |-> n, schema |-> Release(n)] : n \in 0 .. 3}
    \cup {[version |-> 3, schema |-> Release(3) \cup Tables \cup more] :
            more \in {{}, LeaseColumns, LeaseColumns \cup {"shell"},
                      LeaseColumns \cup {"shell"} \cup ControlColumns}}

Init ==
    /\ \E release \in Releases :
         /\ version = release.version
         /\ schema = release.schema
    /\ openers = [p \in Openers |-> Closed]
    /\ faults = 0

-----------------------------------------------------------------------------
At(p, pc) == openers[p].pc = pc

Go(p, pc) == openers' = [openers EXCEPT ![p].pc = pc]

(* open returns an error. *)
Gives(p) == openers' = [openers EXCEPT ![p] = Closed]

(* The next upgrade of a process that read, or reached, version n. *)
UpgradeAfter(n) == IF n < 3 THEN <<"upgrade", Added[n + 1]>> ELSE <<"create", "sessions">>

OpenStart(p) ==
    /\ At(p, <<"closed">>)
    /\ openers' = [openers EXCEPT ![p].pc = UpgradeAfter(version)]
    /\ UNCHANGED <<version, schema, faults>>

(* Mutation: IF NOT EXISTS in the upgrades too. *)
UpgradeIfNotExists(p, n) ==
    /\ At(p, <<"upgrade", Added[n]>>)
    /\ schema' = schema \cup {Added[n]}
    /\ version' = n
    /\ Go(p, UpgradeAfter(n))
    /\ UNCHANGED faults

(* The transaction to version n, decided on the version read at the start. *)
Upgrade(p, n) ==
    /\ At(p, <<"upgrade", Added[n]>>)
    /\ \/ /\ Added[n] \notin schema
          /\ schema' = schema \cup {Added[n]}
          /\ version' = n
          /\ Go(p, UpgradeAfter(n))
       \/ /\ Added[n] \in schema
          /\ Gives(p)
          /\ UNCHANGED <<version, schema>>
    /\ UNCHANGED faults

(* CREATE TABLE IF NOT EXISTS. *)
CreateTable(p, t) ==
    /\ At(p, <<"create", t>>)
    /\ schema' = schema \cup {t}
    /\ Go(p, IF t = "sessions" THEN <<"create", "tasks">> ELSE <<"names", "tasks">>)
    /\ UNCHANGED <<version, faults>>

(* Mutation: shell is expected wherever lease_at exists. *)
AfterLeaseShellWithLease(names) == <<"names", "sessions">>

(* Mutation: the column is added without looking for it. *)
AfterLeaseAlways(names) == <<"alter", "shell">>

AfterLease(names) ==
    IF "shell" \in names THEN <<"names", "sessions">> ELSE <<"alter", "shell">>

(* PRAGMA table_info(tasks). *)
ReadTaskNames(p) ==
    /\ At(p, <<"names", "tasks">>)
    /\ openers' = [openers EXCEPT ![p].names = schema,
                                  ![p].pc = IF "lease_at" \in schema
                                              THEN AfterLease(schema)
                                              ELSE <<"alter", "lease_at">>]
    /\ UNCHANGED <<version, schema, faults>>

(* PRAGMA table_info(sessions). *)
ReadSessionNames(p) ==
    /\ At(p, <<"names", "sessions">>)
    /\ openers' = [openers EXCEPT ![p].names = {},
                                  ![p].pc = IF "control_token" \in schema
                                              THEN <<"expire">>
                                              ELSE <<"alter", "control_token">>]
    /\ UNCHANGED <<version, schema, faults>>

(* Mutation: the second column is left to the next open. *)
AfterAlterOneByOne(column, names) ==
    CASE column = "lease_at"      -> AfterLease(names)
      [] column = "worker_boot"   -> AfterLease(names)
      [] column = "shell"         -> <<"names", "sessions">>
      [] column = "control_token" -> <<"alter", "control_lease">>
      [] column = "control_lease" -> <<"expire">>

AfterAlter(column, names) ==
    CASE column = "lease_at"      -> <<"alter", "worker_boot">>
      [] column = "worker_boot"   -> AfterLease(names)
      [] column = "shell"         -> <<"names", "sessions">>
      [] column = "control_token" -> <<"alter", "control_lease">>
      [] column = "control_lease" -> <<"expire">>

(* ALTER TABLE ... ADD COLUMN, committed by itself. *)
AlterTable(p, column) ==
    /\ At(p, <<"alter", column>>)
    /\ \/ /\ column \notin schema
          /\ schema' = schema \cup {column}
          /\ Go(p, AfterAlter(column, openers[p].names))
       \/ /\ column \in schema
          /\ Gives(p)
          /\ UNCHANGED schema
    /\ UNCHANGED <<version, faults>>

(* The two UPDATEs of an open name columns that must exist. *)
Sweeps(p, from, columns, to) ==
    /\ At(p, from)
    /\ \/ columns \subseteq schema /\ Go(p, to)
       \/ ~(columns \subseteq schema) /\ Gives(p)
    /\ UNCHANGED <<version, schema, faults>>

ExpireControls(p) == Sweeps(p, <<"expire">>, ControlColumns, <<"sweep">>)

SweepStale(p) == Sweeps(p, <<"sweep">>, LeaseColumns, <<"open">>)

Close(p) ==
    /\ At(p, <<"open">>)
    /\ Gives(p)
    /\ UNCHANGED <<version, schema, faults>>

(* The process dies, or a statement finds the database busy for too long. *)
OpenFails(p) ==
    /\ ~At(p, <<"closed">>)
    /\ faults < MaxFaults
    /\ faults' = faults + 1
    /\ Gives(p)
    /\ UNCHANGED <<version, schema>>

OpenStep(p) ==
    \/ OpenStart(p)
    \/ \E n \in 1 .. 3 : Upgrade(p, n)
    \/ \E t \in Tables : CreateTable(p, t)
    \/ ReadTaskNames(p)
    \/ ReadSessionNames(p)
    \/ \E column \in LeaseColumns \cup {"shell"} \cup ControlColumns :
         AlterTable(p, column)
    \/ ExpireControls(p)
    \/ SweepStale(p)
    \/ Close(p)

Next == \E p \in Openers : OpenStep(p) \/ OpenFails(p)

Spec == Init /\ [][Next]_vars

(* Every process is scheduled, and opens the store again when it failed. *)
FairSpec == Spec /\ \A p \in Openers : WF_vars(OpenStep(p))

-----------------------------------------------------------------------------
(* The version tells which upgrades of devices were made, whoever made     *)
(* them and with whatever version in mind: no process undoes or repeats    *)
(* the upgrade of another, and the version never runs ahead or back.       *)
VersionTellsColumns ==
    /\ version \in 0 .. 3
    /\ \A n \in 1 .. 3 : version >= n <=> Added[n] \in schema

(* A store that was opened has the whole schema, although this process and *)
(* others added it piece by piece.                                         *)
OpenMeansComplete ==
    \A p \in Openers : At(p, <<"open">>) => version = 3 /\ schema = Complete

Half(first, second) == first \in schema /\ second \notin schema

(* Half a pair of columns, which no later open repairs, exists only while  *)
(* the process that adds the pair is between its two commits, or because   *)
(* one died or failed there: concurrent opens alone do not leave it.       *)
HalvesAreInProgress ==
    \/ faults > 0
    \/ /\ Half("lease_at", "worker_boot") =>
            \E p \in Openers : At(p, <<"alter", "worker_boot">>)
       /\ Half("control_token", "control_lease") =>
            \E p \in Openers : At(p, <<"alter", "control_lease">>)

(* Processes that start together on a new or an old database may fail, but *)
(* one that tries again gets in, always, unless some process died.         *)
RetriedOpensSucceed ==
    \A p \in Openers : []<>(At(p, <<"open">>) \/ faults > 0)

=============================================================================
