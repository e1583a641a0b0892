# sessanchor: specification, model checking and proofs

sessanchor (`sanc`) runs commands on remote devices over ssh for agents, keeps
a durable record of every request in one SQLite file, lets a user take a
session over from the agent, and monitors devices from a small daemon. There is
no server that owns the state: every `sanc` command, every detached worker, the
MCP server and the daemon open the same database, and all of them may die at
any line. This directory specifies that system in TLA+, checks it with TLC and
proves the most important invariants, for all values of the constants, with
TLAPS.

Paths below are relative to the repository (`src/tasks.rs` is the Rust file).

## 1. The system

| Component | Source | State | Operations |
| --- | --- | --- | --- |
| In-memory session contract | `src/lib.rs`, `Session` | requests by id, `user_controlled` | submit, observe, take and release control |
| Task and session journal | `src/tasks.rs`, `ConnectionStore::open` | tables `tasks`, `sessions` | open (two UPDATEs), create, take, renew, release session; reserve, claim, heartbeat, finish task |
| Task execution | `src/worker.rs`, `exec` in `src/cli.rs` | client and worker processes, ssh children, remote commands | reserve and launch; claim, spawn, heartbeat, reap, report |
| User control | `src/tasks.rs` | token and lease of a session, what its holder believes | take, renew, release, expiry at open |
| Device monitoring | `src/daemon.rs`, `observe` in `src/connections.rs` | device rows, event log, the daemon's device map and idle timers | connect, probe, sleep, observe |
| Daemon life cycle | `src/daemon.rs` | lock file, socket file, queue of requests | start, serve one request per turn, stop; clients with a read timeout |
| Output capture and paging | `src/worker.rs`, `output_page` in `src/lib.rs` | two output files and a truncation marker per task | capture, page |
| Device store | `src/connections.rs` | table `devices` | add, configure, pin, save OS |
| Schema migration | `src/connections.rs`, `src/tasks.rs` | `user_version`, columns | migrate at open |
| MCP server | `src/mcp.rs` | handshake state, the call at hand | initialize, initialized, list, call |
| Command policy, hook | `src/lib.rs`, `src/tasks.rs`, `src/ssh.rs`, `src/hook.rs` | none | check, validate, wrap for a shell, respond |
| ssh transport, state directory, command line, npm launcher, integrations | `src/ssh.rs`, `src/state.rs`, `src/cli.rs`, `bin/`, ... | none of their own | |

How they interact: a client process opens the store (which returns lapsed user
controls and gives stale tasks up), commits a reservation and, if the row it got
back is `accepted`, launches a detached worker. The worker opens the store,
claims the task by a compare-and-set on its state, spawns ssh, opens the store
again every second for a heartbeat, and reports an exit code or "unknown". The
daemon asks the same tables whether a device is busy before it lets it sleep.

What is hard to test in it, and why the models exist:

- several workers may be launched for one task, any process may die between two
  commits, and ssh and the remote command outlive the worker that started them;
- "unknown" is a state of knowledge, not of the remote command: a live worker
  can be given up by any other process that opens the store (or by its own
  heartbeat's open), and still report later;
- leases compare wall clock seconds that can be set back;
- the daemon serves requests and probes devices in one thread, and its lock, its
  socket file and its listener come and go one by one;
- an agent that lost an answer asks again, perhaps another MCP server;
- clients page through files that still grow, in bytes that need not be text;
- user control and agent work exclude each other only through the order of
  reads and writes inside transactions.

`PROJECT.json` lists the hazards one by one with the properties that watch them.

## 2. Modules

| Module | Models | Extends |
| --- | --- | --- |
| `SessionContract` | the contract of one session, from `lib.rs` | |
| `TaskJournal` | every transaction on `tasks` and `sessions` | |
| `JournalContract` | the journal implements `SessionContract` | `TaskJournal` |
| `TaskExecution` | clients, workers, ssh, remote commands | `TaskJournal` |
| `SessionControl` | holders of user control and their beliefs | `TaskJournal` |
| `CommandPolicy` | the text of a command on its way to ssh: policy, validation, shell, hook | |
| `McpServer` | the MCP server and the agent before it, together with the users | `SessionControl`, `CommandPolicy` |
| `DeviceMonitor` | the daemon's devices, connect requests, `sanc device probe`, observations | |
| `DaemonService` | the daemon's lock, socket and requests, its clients | |
| `SchemaMigration` | processes that create or migrate the database together | |
| `OutputPaging` | where a page ends: `output` of `worker.rs`, `output_page` of `lib.rs` | |
| `FollowedOutput` | what output promises to clients that follow it | |
| `OutputCapture` | ssh, two capture threads, the worker's join and report, paging clients; implements `FollowedOutput` | `OutputPaging` |
| `MCJournalContract`, `MCTaskExecution`, `MCMcpServer`, `MCOutputCapture` | model values, symmetry and inputs for TLC | the module they name |
| `TaskJournalProofs`, `JournalContractProofs` (with the contract's own), `TaskExecutionProofs`, `DeviceMonitorProofs`, `DaemonServiceProofs`, `McpServerProofs` (with those of user control and the command policy), `OutputCaptureProofs` (with those of `OutputPaging`), `SchemaMigrationProofs` | theorems and their proofs | the module they name |

**TaskJournal.** One action per committed transaction; the index in the
sequence `tasks` is the task id. `ConnectionStore::open` commits two statements
of its own, so it is two actions, `ExpireControls` and `SweepStale`: anything
may commit between them and the opener may die there. `reserve_task_with_shell`
and `take_session` are single actions because they run in `IMMEDIATE`
transactions, the other calls because they are single UPDATEs. Error returns
and retries that only read are stuttering steps. A command and its shell are
one value in `Executions`; those that the policy or the validation rejects are
in `Refused`.

**TaskExecution.** Each process is a program counter over the steps of the
code, with at most one transaction of the journal per step; `Fault` bounds how
many calls fail and processes die. The steps of a client are `open`, `sweep`,
`reserve`, `launch`; those of a worker `open`, `sweep`, `claim`, `spawn`,
`wait`, then per heartbeat `beat_open`, `beat_sweep`, `beat`, and finally
`report`. Output files are created once per task and outlive the worker.
ssh and the remote command are an environment: the transport may fail
at any time (status 255), ssh may be killed, the execution request may reach
the host late, and the remote command runs on when ssh or the worker is gone.
Readers (`sanc task`, `sanc output`, ...) only open the store. A reboot stops
every local process but no remote command.

**SessionControl.** A holder is identified with its token and remembers the
session and the time of the last successful take or renewal; a holder may die,
or come back after its lease lapsed and call release or renew.

**CommandPolicy.** A command is a sequence of lexemes: white space, the four
letters `sudo`, a shell delimiter, NUL, and anything else. `ApprovalRequired` is
`check_command_policy`, `Rejected` the checks before a request is journalled,
`RemoteCommand` what ssh is given. `McpServer` takes the executions that
`TaskJournal` refuses from here (`PolicyAssumption`).

**McpServer.** The server is one program counter over a line of input: `read`,
then for a call `open`, `sweep` (each tool call runs the command line's code and
opens the store, also one that only reads), `act`, `launch`, `answer`. It may end
at any of them with what was committed committed, and be started again with or
without `--allow-exec`. The agent is the environment: it sends any line in any
order. Its variable is a history of the handshake it said and of the task it was
last told for each request. Lines answered without a look at the store (parse
errors, `ping`, lists, refusals) are stuttering. Users, workers, other agents on
the command line and time are the steps of `SessionControl`.

**DeviceMonitor.** The daemon is one program counter over its loop: `loop`
(accept), `connect` and `connect_save`, `round` (the device whose turn it is),
`probe`, `save_sleep`, `save_probe`. Reading the clock and committing the
observation are two steps, because the commit waits for the database lock (up
to five seconds); the sample of `device_busy` and what it decides are one. A
round visits the devices in the order of the map (numbers stand for ids), and a
stop request ends the daemon after one more round, as in the code. Monotonic
instants are kept as ages, the wall clock is separate and may be set back. Of
the journal it needs only `device_busy`, the variable `work`. Every device has
a target (`device add` stores one). The variable `unused` is a history, for the
devices in `Timed`: the real time since a device's last task, which the daemon can
only sample.

**DaemonService.** The same process seen from outside. A daemon walks through
`locked` (it has the lock), `clean` (a file at the socket's name is removed),
`bound`, `loop`, `connect`, `round`, `closing` (the socket's name is removed) and
`unlocking`; each is a step another process may interleave with, and at each the
daemon may die or a call may fail, which leaves the socket file behind. Requests
queue at the listener and are served one per turn of the loop, after which one
round of probes follows. A client that waited `ReadLimit` gives up and its
request stays in the queue. The unit of time is 5 seconds, and two kinds of calls
take time: a probe up to three units, and a call of the store that finds the
database locked up to one (`busy_timeout`, `src/connections.rs:65`). Such waits
fall into the opening of the store, into a connect request and between the probes
of a round (`device_busy`, `target`, `observe`); a client waits four units. How many
probes are due and how many calls have to wait is left open (up to `MaxDue` and
`MaxLocked`), and what probes record is in `DeviceMonitor`. All else the loop does,
reading a request for at most a second included, counts as a fraction of a unit.

**JournalContract.** Refinement mapping: the contract's requests are the
requests of one watched session, numbered by their order in that session;
`accepted` and `running` are both the contract's `Running`; `user_controlled`
is the column.

**SchemaMigration.** An open is a program counter over the commits of
`ConnectionStore::open` and `tasks::initialize`: the versioned upgrades of
`devices` (transactions that act on the version read at the start), the two
`CREATE TABLE IF NOT EXISTS`, and the columns of `tasks` and `sessions`, one
`ALTER TABLE` and one commit at a time, each decided on the column names read
before. The two UPDATEs that follow need their columns. `Init` is an empty
database or one that an earlier release completed. An SQL error ends an open;
the process may open again.

**OutputPaging.** A byte is the number of bytes of the UTF-8 character it begins, or
0 if it continues one; that is all `from_utf8`, `valid_up_to` and `error_len` see
of it here. `Page` is the choice of `output` between text, text that is cut before an
incomplete character, and hex. `PageEnd` is `output_page`, which nothing in
`src/` calls; it is part of the library's interface.

**FollowedOutput.** The output of a task without pipes, threads and pages: what the
command wrote, what can be read, the verdict on it, how far each client has come
and what it was told at the end. Bytes are written and stored until the exit is
recorded (`Settle`), which fixes the verdict: "whole" if and only if everything
that was written can be read. A client is told the verdict when it has all of its
stream.

**OutputCapture.** The end of `execute_claimed` in detail, for one claimed task.
A file holds a prefix of what its pipe carried, so a stream is its content and
three lengths: produced, in the pipe, stored. The two threads are `capture`;
`worker` walks through create, spawn, wait, join stdout, join stderr, mark,
report. A client pages one stream: it reads the task, then the length of the
file, then a page, then looks for the marker, and any of the others may step in
between. It keeps the bytes it was given, so that a gap or a repetition would
show. In the mapping to `FollowedOutput` the verdict is the marker's once the task's
row says `exited`, and a client was told what its last answer says if that answer
is of an exited task and has no more (`Told`). Liveness of tasks across workers and the heartbeats stay in
`TaskExecution`; here the sweep is one action that anybody may do at any time.

Operators whose comment begins with "Mutation" are wrong on purpose. Each is
what the definition after it would be with one plausible mistake in the code,
and `PROJECT.json` pairs it with the property that must notice it.

## 3. Runs

| Run | Question | Bounds |
| --- | --- | --- |
| `journal` | any interleaving of transactions; does the journal keep the contract | 2 sessions (one watched), 2 requests, a refused execution, a short token, lease 0, clock 0..1 with steps back, 2 boots |
| `execution` | who gets to run a task, is what the journal says of remote commands true, and does an exit that ssh returned get there | 1 session, 2 requests, 1 client, 2 workers, 1 fault, 2 boots, user control |
| `execution_liveness` | does work get claimed, and does ended work leave `running` | 1 request, 1 client, 2 workers, 2 faults, lease 1, clock 0..3 not set back |
| `agent` | what an agent can do through the MCP server, what its answers are worth, and who controls a session meanwhile | 1 session, 2 requests, 3 executions (both shells and one that needs approval), 2 holders, lease 0, clock 0..2 not set back |
| `daemon` | who owns lock and socket, and when requests are answered | 2 daemons, 2 clients, 2 requests waiting, 1 unreachable device and 2 waits for the database per round, 1 fault; clients wait 6 units instead of 4, so that the whole of a round (5) can be seen |
| `monitor` | whom does the daemon monitor, which observation wins, does sleep follow idleness | 1 device, 1 probe process, clock 0..2 with steps back, 2 boots, idle 2, probe 1, tasks that outlast a round |
| `monitor_liveness` | do unused devices sleep and the others get probed | 2 devices, idle 2, probe 1, short and long tasks |
| `monitor_race` | finding 1 | 1 device, 1 probe process, clock not set back |
| `monitor_short_task` | finding 2 | 1 device, idle 2, short tasks |
| `schema` | does a concurrent first open leave a whole database, and do retries get in | 3 processes, 1 fault, every release before this one |
| `output` | may a client stop at the last page; does capture keep the promise of `FollowedOutput`; does a text stay a text; does output ever hang a task | limit 3, pipe 1, page 2, characters of up to 2 bytes, 4 contents of up to 4 bytes, 1 client of either stream, 1 fault |
| `output_overflow` | finding 3 | the same |

Why the bounds are enough: work in different sessions shares only the clock, so
two sessions show interference and one suffices where processes are the
subject. Two requests give a predecessor and a successor. A client that
retries launches a second worker for the same task, so two workers race for
every claim; two clients differ from one that retries only in who stands at
which step, and every commit of theirs is an interleaving of `journal`. A lease
of 0 or 1 second and a clock of two to four values contain "before", "at" and
"after" the boundary, and steps back. Two boots give a stamp that is not the
current one. One fault puts a death or failure at every step of either worker
or of the client, two (`execution_liveness`) let a worker die after its
predecessor did. In `agent` one session and two requests give an agent a
predecessor of its own or of the command line; the server may end at any step as
often as it likes, so no bound stands for that. In `daemon` two processes are a
daemon and its successor, which is all that lock and socket know of; two clients
make one wait behind the other. Three processes in `schema` let one act on a
version and column names that two others have both outdated. In `output` the
contents are a text whose characters straddle page boundaries, one that
straddles the limit, a stream that outgrows it, and bytes that are no text; a
stream may stay below, reach and exceed the limit, and the pipe may be full.

Whether `sanc daemon status` gets its answer within the client's 20 seconds is
not a property here, because the code does not see to it: one unreachable device
takes 15 seconds, and two calls of the same round that wait for the database take
10 more. The client then ends with `ipc_failed` (`src/daemon.rs:54`) although the
daemon is well. `docs/implementation.md:40` says that probes are serial and that
unreachable devices delay answers, so this is a known limitation. What the code
does see to ("IPC gets priority over periodic work", `src/daemon.rs:103`) is
`PromptRequestsWaitOneRound`: a status or stop request with nobody before it waits
for the calls of the round it met, never for those of a second one or of a connect.
A connect request, or one behind another in the queue, may wait longer.

Not met by any run: `Init` has empty tables, so rows that were migrated from
releases without leases (a null lease or boot stamp, which `Stale` also gives up,
`src/connections.rs:119`) do not occur; every task that this release claims has both.
`HookDenies` is a definition without a property. With a pipe of one byte no read
in `output` straddles the capture limit; the theorems on output hold for pipes of
any size. A connect whose observation cannot be saved, out of order or because of a
busy database, is only answered (`ConnectSaveRejected`).

What the runs show: a task is dispatched at most once whatever is retried or
dies; two remote commands of one session never run at once, and none runs while
the user controls the session, even after the worker, ssh or the machine that
started it is gone; a recorded exit code is the remote command's; an exit never
changes; a late report is always accepted, and an exit that ssh returned is lost
only by a death, a failed call or a restart (`ReturnedExitsAreKept`); a live, renewing holder is never
dispossessed, and a late holder harms nobody: a lease changes only in the step that
answers its owner (`LeaseIsTheHolders`).

For agents: a server that was not started with `--allow-exec`, or that was not
greeted in order, adds neither session nor task; a task an agent was told of
stays the only one of its request, with the command and shell it asked for,
wherever the server ended and however often the agent asks again. Tools that only
read open the store too, and so return lapsed sessions and give stale tasks up:
`agent` shows that this disturbs no holder and no worker.

For the daemon's files: one that serves holds the lock and owns the socket, a
dead daemon's socket file never keeps the next one out, and a stop ends the
daemon after the round at hand.

For devices: only devices reached since boot are monitored, a late observation
never replaces a newer one, unused devices fall asleep although they are
probed, and work wakes them.

For the database: processes that open a new or old database together never
repeat or undo each other's upgrades, an open store has the whole schema, and
while no process dies one that retries gets in. `HalvesAreInProgress` and
`RetriedOpensSucceed` end with `faults > 0` for a reason: a death, or a busy
database, between the two ALTERs of a pair (`lease_at` and `worker_boot`,
`control_token` and `control_lease`) leaves half a pair, the next open looks
only for the first of them, and every open fails from then on.
`docs/implementation.md:48` lists schema migration in concurrent first starts
among what remains to be verified and no doc promises recovery, so this is a
limitation and not a divergence.

For output: a client that is told `exited` and no more has every byte of the
stream once and in order, or is told that it is truncated, however it interleaves
with the worker; pages of a text that are asked for after the task exited are text
(before that, a page that is asked for while the file ends inside its only
character is hex, and the pages after it may be); a stream that
only reaches the limit is not called truncated; nothing is stored once the exit is
recorded, whether bytes are missing is told exactly, and a client that was told the
end is never told anything else (`ImplementsFollowedOutput`); more output than the limit, or
a capture that fails, never leaves the worker waiting.

Three runs end in a violation:

1. `monitor_race`: the loop ends the daemon when its observation is rejected
   (`?` at `src/daemon.rs:182` and `199`), which takes one `sanc device probe`
   that commits a second later than the daemon read its clock, or a clock that
   is set back. `docs/spec.md:31` wants a service that maintains the devices.
2. `monitor_short_task`: the idle timer is restarted only by two samples, one
   busy and the next not, so a task between two samples (a round lasts up to
   15 s per unreachable device) is missed and the device sleeps early;
   `docs/spec.md:35` wants the timer to start when a command is complete.
   `monitor` shows that it does not happen when every task outlasts a round
   (`LongTasks`).
3. `output_overflow`: the marker is written only after both captures were joined
   without error (`src/worker.rs:131`). If one stream was cut at its limit and the
   capture of the other fails, or the marker cannot be created, the task is
   reported unknown without a marker, and its cut stream answers
   `output_truncated: false` and `more: false` for good. `docs/usage.md:143`:
   "overflow is marked, not silently represented as complete". A worker that dies
   after the limit was reached leaves the same files.

Fairness (`execution_liveness`): a live client or worker is scheduled (weak
fairness of its next step), time passes, somebody opens the store now and then
(a client that polls its task does), and a client that wants a request repeats
it (strong fairness of `SubmitStart`: the documented way to retry). Nothing is
assumed of ssh or the remote host: execution has no timeout and ssh no keep
alive, so a task whose connection hangs stays running while its worker beats.
The clock of the model ends at `MaxClock`; a lease taken there cannot lapse any
more, which the second disjunct of `EndedWorkLeavesRunning` and
`AbandonedControlEnds` names. In `agent` the clock passes and the store is
opened now and then; nobody has to call a tool. In `daemon` a daemon that runs is
scheduled and its calls end; nobody has to start one or send a request. In `monitor_liveness` the daemon's loop is scheduled, its
probes end (`ssh::probe` kills ssh after 15 s) and seconds pass; nobody has to
start the daemon, connect or run anything. In `schema` every process is scheduled
and opens again after a failure. In `output` threads and worker are scheduled and
the command's output is finite; clients are not assumed to do anything.

With a clock that is set back a fresh holder can lose its session:
`docs/implementation.md` lists a clock that steps back among the cases still to
be verified, and that is why `FreshHolderIsAlone` is checked with
`Monotone = TRUE`.

## 4. Proofs

What follows holds for all values of the constants that satisfy the `ASSUME`s of
the module it is about (they say little more than that NULL is no value and
that bounds are numbers): for any number of sessions, devices, processes, tasks and
clients, any lease, any movement of the wall clock where the model has one, any
number of boots and of faults.

**The journal** (`TaskJournalProofs`): type correctness (`TypeCorrect`), serial
work and one task per request (`SerialWork`, `RequestIdentity`), user control and
work exclude each other (`ControlIsExclusive`), control has an owner
(`ControlAlwaysHasOwner`), the columns of a row agree (`RowsAlwaysAgree`), claims
and exits are final (`ClaimsAreFinal`). Every step is of one of six kinds
(`StepKinds`). Steps on `sessions` keep the tasks (`SessionsOnlyKeepsTasks`); the
sweep and the UPDATEs of one task only rewrite rows and never make an exited task
active (`RewritesTasks`), so they cannot make a session busy; a reservation appends
one row where nothing is active (`ReserveAppends`, `ReserveKeepsWork`). `WorkInv`
joins the three work properties with the type: control needs that an exited task
stays exited, and serial work needs that the tables are tables. Ownership of
control is inductive with the type alone, row by row (`Owned`).

**The refinement** (`JournalContractProofs`): `JournalKeepsContract` is
`JournalSpec => ImplementsContract`, for whatever session is watched. The mapping
makes sense where `MapInv` (`WorkInv` and `RowsAgree`) holds: a request names one
task, so `TaskOf` has no choice. `Mapping` restates it task by task; a reservation
in the watched session is `Submit`, because a new task is numbered by the
watched tasks before it; a sweep may give up at most one watched task, because
work is serial, and is one `Observe`; everything else is a stutter or a change of
control.

**The contract** (end of `JournalContractProofs`, for a session with variables of
its own): typing, one open request
(`ContractIsSerial`), quiet under control (`ContractExcludes`), final results
(`ContractKeepsResults`). With the refinement these are promises of the journal.

**Execution** (`TaskExecutionProofs`): every safety property of the run
`execution`. Each step of a process is one of the journal or none (the lemma
`StepJournal`), which carries the journal's invariants over to the processes. `IInv` adds to `WorkInv` what the processes know of the journal
(`ProcInv`: a worker works for a task that exists, and an exit it is about to report
is the exit of a remote command that ended), that the outside world is used once
(`WorldInv`: ssh is started only after the output files were created, and they are
created once, hence `AtMostOneDispatch`), that what is recorded ended
(`ExitsAreFinished`), and `ExecutorHoldsClaim`. The last is needed for its own sake
and for the rest: only a worker past its claim can report, and the claim needs a
task that is still accepted, which it never is again. `DeviceWorkIsSerial` and
`ControlledDevicesAreQuiet` then follow from the state alone: a task whose command
runs is not accepted (it was dispatched) and not exited (`ExitsAreFinished`), so it
is active, and active tasks are serial and exclude control. `ExitsReachTheJournal`
(an exit that ssh returned is recorded, or its worker has yet to report it, while
nothing dies and no call fails) follows a task from its spawn: until ssh is reaped a
worker watches it, and a reaped exit is with its worker until `finish_task` accepts
it (`Kept`); `finish_task` accepts it also from a task that was given up.

**Devices** (`DeviceMonitorProofs`): type correctness, `OnlyReachedIsMonitored`,
`ObservationsStayOrdered`. `IInv` adds what the daemon and the probing processes
carry from one of their steps to the next (`DaemonKnows`, `ProbersKnow`) and that
a success is no later than the last observation (`SuccessesWereChecked`), which
the update of both columns needs.

The idle time (`SleepersWereIdle`) is proved under `LongTasks`, that every task
outlasts a round; `monitor_short_task` shows that it is false without. What makes
it inductive is `UseIsRecorded`: an entry that shows no work, of a device without
work, is at most as old as the device's last use. Only a sample can clear the
entry's `busy`, and it restarts the idle timer then (`DaemonMoves` lists all that the
daemon may do to an entry).

**The daemon's files and requests** (`DaemonServiceProofs`). `Owns`: only the owner
of the lock does anything, between the removal of a stale file and `bind` there is
no socket, and a bound one is the owner's. It gives `SocketLeadsToServer` and
`LockLeadsToService`. `PromptRequestsAreNext` bounds the waiting of a request that
found nobody before it by one round, for any number and length of probes and waits:
`InTime` says that it stays first in the queue and that its age plus what the
daemon still owes the round or the opening (`Owed`) is at most `RoundLimit`. It
rests on `RoundsEnd`, that the call at hand and the calls left never exceed a round.

**The MCP server and user control** (`McpServerProofs`). Every step of the server is
one transaction of the journal or none (`McpUsesJournal`), and for the users beside
it a step of agents or openers (`McpUsesControl`). `IInv` joins the journal's
`WorkInv` with what a server knows: it is typed, what it does follows a handshake
(`Greeted`), and every task it told of is in the journal (`AnswersAreTrue`). That
gives `ToldStaysTrue`, because requests and tasks are for good, and
`ExecutionIsSanctioned`. For user control, `ControlInv` adds that
a holder whose last answer is at most a lease old has the row, with a stored lease
no older than that answer (`HoldersHold`); with a wall
clock that does not go back (`Monotone`) it gives `FreshHoldersAreAlone`: nobody may
lapse a lease that a holder still counts as fresh. `ControlStaysPut` and `LeasesAreOwn`
hold for any clock; the second says that when the lease of a controlled session
changes, its owner was answered in that step and what all other holders believe
stayed as it was.

**Pure functions.** `McpServerProofs`, at its end: a command that was journalled passes the
policy again when its worker hands it to ssh (`AcceptedStaysDispatchable`), so no
task stays accepted for ever because its worker refuses it; white space before a
command changes nothing (`SpacesDoNotHideSudo`). `OutputCaptureProofs`, at its beginning: a page of a
non-empty read takes at least one byte and no more than were read, for bytes of
any kind, so paging ends (`PageMovesOn`); a page given as text ends with a character
(`TextPageIsWhole`); `output_page` moves on and answers a cursor that it accepts
again (`OutputPageMovesOn`). Both page theorems use that a page holds a whole
character (`PageSize >= CharSize`).

**Output** (`OutputCaptureProofs`): every safety property of the run `output`, for
any output, page size, pipe and limit. `Capturing` says where the bytes are:
a file holds what its thread took out of the pipe up to the limit (`Conserved`), how far the
worker has come tells what happened before (`Course`), and therefore an exit is recorded
only when there is no more to come and all of it was stored or the marker exists
(`ExitsAreSettled`). From then on nothing but the clients can move (`ExitIsFinal`),
so what a client read of an exited task stays true while it takes its four separate
looks (`Reads`): `ExitedOutputsAreWhole`. That pages fit together is `PageAppends`,
from `PageMovesOn`. `TextsStayText` needs that a page which begins with a character
is text (`PageOfTextIsText`: otherwise a character would be longer than a page) and
that the next one begins with a character again (`WholeJoins`); `ReadsText` keeps this
for clients that page after the exit. `MarkersAreTrue`, of any task and not only an exited one,
is a conjunct of `Capturing`: a marker exists only where a stream outgrew its limit.

`CaptureFollows` is the refinement. Before the exit three steps of the world are
seen: a write, a store and the report of the exit, where `ExitsAreSettled` makes the
marker the right verdict; everything else of it is a stutter (`OthersFollow`). A
client's answer is a read, or the end where `Reads` adds what it needs: the
`truncated` of an exited task's answer is the marker's, and who was told the end looks
again only at an exited task (`ClientsFollow`).
`OverflowIsMarked` is the claim of a finding and false.

**The schema** (`SchemaMigrationProofs`): every safety property of the run
`schema`, for any number of openers, retries and deaths, from every release. `Relies`
says, step by step, what a process that has come so far may rely on though others
migrate beside it; it stays true because everyone only adds (`OthersRely`). Every
step moves one process and takes nothing back (`Grows`, `OneMoves`). A pair of columns
is added in two commits: only who added the first column comes to the second, and
leaves that step with the second in place unless it failed (`KeepsPair`,
`PairStays`), so a half pair has its process, or a fault left it. With `VersionIsTrue`,
`OpenStoresAreComplete` follows from `Relies` at the last step.

Only model-checked: liveness (`TaskEnds`, `EndedWorkLeavesRunning`,
`AcceptedWorkIsClaimed`, `IdleDevicesSleep`, `AwakeDevicesAreProbed`,
`RetriedOpensSucceed`, `AbandonedControlEnds`, `StopEndsDaemon`), which needs fairness and
`ENABLED` and is beyond the prover. Every invariant and action property that a
passing run checks is also a theorem.

## 5. What the next steps would be

1. One composition of `DeviceMonitor` and `DaemonService`, so that the devices a
   round finds due are those that are due.
2. The contract's promises restated for the journal's tables (the refinement gives
   them, but a theorem about fresh variables cannot be instantiated here).

## 6. Not modelled

- *Device store* (`add_device`, `configure`, `pin`, `save_os`, `devices`,
  `events`): each is one insert, update or query of columns that no other step
  reads; what the daemon reads and `observe` writes is in `DeviceMonitor`. Two
  overlapping `sanc device inspect` may leave the older answer; it is a cache for
  a listing.
- `describe_session` and descriptions: free text that nothing reads back.
- *ssh transport*: argument lists and PowerShell encoding are formatting; the
  outcomes of ssh and the limit of a probe are steps of `TaskExecution`,
  `DeviceMonitor` and `DaemonService`.
- *State directory*: permission checks of files; boot identity and clock are
  variables of the models.
- *Command line*, JSON and limits of length: parsing, routing and printing.
- *MCP server*: what the read tools return (`task` apart) and protocol errors,
  which change nothing.
- npm launcher, release scripts and agent integrations: no state of the system.
