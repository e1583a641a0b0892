---------------------------- MODULE OutputCapture ----------------------------
(***************************************************************************)
(* The output of one task: ssh writes two pipes, two capture threads drain *)
(* them into two capped files, the worker joins them, marks an overflow    *)
(* and reports; meanwhile clients page through the files                   *)
(* (execute_claimed, capture and output of src/worker.rs).                 *)
(*                                                                         *)
(* A file holds a prefix of what its pipe carried, so pipes and files are  *)
(* modelled by lengths, and their bytes by what the command writes.        *)
(***************************************************************************)
EXTENDS OutputPaging

CONSTANTS
    Readers,    \* clients that page through the output
    None,
    Limit,      \* 64 MiB in the code: stored bytes of a stream
    PipeSize,   \* what a pipe holds before its writer blocks
    Contents,   \* bound: what the command may write to the two streams
    MaxFaults   \* bound: deaths of the worker and failed calls

ASSUME CaptureAssumption ==
    /\ None \notin Nat
    /\ Limit \in Nat
    /\ PipeSize \in Nat \ {0}
    /\ Contents \subseteq [{"stdout", "stderr"} -> Seq(Byte)]
    /\ MaxFaults \in Nat

VARIABLES
    content,   \* the bytes that the command writes to a stream
    output,    \* bytes the remote command will have written to a stream
    produced,  \* bytes ssh has written to the pipe of a stream
    pipe,      \* bytes in the pipe
    ssh,       \* the ssh client: absent, up, or how it ended
    stored,    \* length of the file of a stream, None before it is created
    capture,   \* the capture thread of a stream
    marker,    \* whether the file task-<id>-output-truncated exists
    worker,    \* what the worker is doing
    state,     \* tasks.state of the claimed task
    readers,   \* what each client knows and does
    faults     \* faults so far

source == <<content, output, produced, pipe, ssh>>
files == <<stored, marker>>
vars == <<source, files, capture, worker, state, readers, faults>>

Streams == {"stdout", "stderr"}

NoThread == [pc |-> "none", truncated |-> FALSE]
Reading(s) == capture[s].pc = "reading"

(* A client of stream s; one that pages both streams is two of them.  got  *)
(* and hex are its history: the bytes of its pages, and whether a page was *)
(* hex although every page was asked for after the task exited.            *)
Fresh(s) == [pc |-> "idle", stream |-> s, state |-> None, len |-> None,
             cursor |-> 0, answer |-> None, got |-> << >>, early |-> FALSE,
             hex |-> FALSE]

Init ==
    /\ content \in Contents
    /\ output = [s \in Streams |-> Len(content[s])]
    /\ produced = [s \in Streams |-> 0]
    /\ pipe = [s \in Streams |-> 0]
    /\ ssh = "absent"
    /\ stored = [s \in Streams |-> None]
    /\ capture = [s \in Streams |-> NoThread]
    /\ marker = FALSE
    /\ worker = "create"
    /\ state = "running"
    /\ readers \in [Readers -> {Fresh(s) : s \in Streams}]
    /\ faults = 0

Fault == faults < MaxFaults /\ faults' = faults + 1

-----------------------------------------------------------------------------
(* The ssh client (not under src/). *)

RemoteWrites(s) ==
    /\ ssh = "up"
    /\ Reading(s)
    /\ produced[s] < output[s]
    /\ pipe[s] < PipeSize
    /\ produced' = [produced EXCEPT ![s] = @ + 1]
    /\ pipe' = [pipe EXCEPT ![s] = @ + 1]
    /\ UNCHANGED <<content, output, ssh, files, capture, worker, state, readers, faults>>

(* The reading end is gone: ssh is killed by SIGPIPE. *)
BrokenPipe(s) ==
    /\ ssh = "up"
    /\ ~Reading(s)
    /\ produced[s] < output[s]
    /\ ssh' = "failed"
    /\ UNCHANGED <<content, output, produced, pipe, files, capture, worker, state, readers, faults>>

(* ssh ends with the command's status when all output was written. *)
SshExits ==
    /\ ssh = "up"
    /\ produced = output
    /\ ssh' = "exited"
    /\ UNCHANGED <<content, output, produced, pipe, files, capture, worker, state, readers, faults>>

(* The transport fails: what was not written yet never comes. *)
SshFails ==
    /\ ssh = "up"
    /\ ssh' = "failed"
    /\ output' = produced
    /\ UNCHANGED <<content, produced, pipe, files, capture, worker, state, readers, faults>>

-----------------------------------------------------------------------------
(* capture: one thread for each stream. *)

(* Mutation: at its limit the thread stops reading. *)
DrainToLimit(s) ==
    /\ Reading(s)
    /\ pipe[s] > 0
    /\ stored[s] < Limit
    /\ LET keep == Least(pipe[s], Limit - stored[s]) IN
         /\ stored' = [stored EXCEPT ![s] = @ + keep]
         /\ capture' = [capture EXCEPT ![s].truncated = @ \/ keep < pipe[s]]
    /\ pipe' = [pipe EXCEPT ![s] = 0]
    /\ UNCHANGED <<content, output, produced, ssh, marker, worker, state, readers, faults>>

(* read, write_all of what still fits; the rest is dropped. *)
Drain(s) ==
    /\ Reading(s)
    /\ \E n \in 1 .. pipe[s] :
         LET keep == Least(n, Limit - stored[s]) IN
         /\ pipe' = [pipe EXCEPT ![s] = @ - n]
         /\ stored' = [stored EXCEPT ![s] = @ + keep]
         /\ capture' = [capture EXCEPT ![s].truncated = @ \/ keep < n]
    /\ UNCHANGED <<content, output, produced, ssh, marker, worker, state, readers, faults>>

EndOfFile(s) ==
    /\ Reading(s)
    /\ pipe[s] = 0
    /\ ssh \in {"exited", "failed"}
    /\ capture' = [capture EXCEPT ![s].pc = "done"]
    /\ UNCHANGED <<source, files, worker, state, readers, faults>>

(* Reading, writing (disk full) or sync_all fails; the pipe is closed. *)
CaptureFails(s) ==
    /\ Reading(s)
    /\ Fault
    /\ capture' = [capture EXCEPT ![s].pc = "failed"]
    /\ pipe' = [pipe EXCEPT ![s] = 0]
    /\ UNCHANGED <<content, output, produced, ssh, files, worker, state, readers>>

-----------------------------------------------------------------------------
(* execute_claimed and the report of execute. *)

CreateOutputs ==
    /\ worker = "create"
    /\ \E s \in Streams :
         /\ stored[s] = None
         /\ s = "stderr" => stored["stdout"] # None
         /\ stored' = [stored EXCEPT ![s] = 0]
         /\ worker' = IF s = "stderr" THEN "spawn" ELSE "create"
    /\ UNCHANGED <<source, marker, capture, state, readers, faults>>

SpawnSsh ==
    /\ worker = "spawn"
    /\ ssh' = "up"
    /\ capture' = [s \in Streams |-> [pc |-> "reading", truncated |-> FALSE]]
    /\ worker' = "wait"
    /\ UNCHANGED <<content, output, produced, pipe, files, state, readers, faults>>

(* A file or ssh cannot be created. *)
StartFails ==
    /\ worker \in {"create", "spawn"}
    /\ Fault
    /\ worker' = "report_unknown"
    /\ UNCHANGED <<source, files, capture, state, readers>>

(* try_wait sees the end of ssh.  (That try_wait itself fails, and loses   *)
(* the status, is left to WorkerCaptureFails of TaskExecution.)            *)
SshReaped ==
    /\ worker = "wait"
    /\ ssh \in {"exited", "failed"}
    /\ worker' = "join_stdout"
    /\ UNCHANGED <<source, files, capture, state, readers, faults>>

Joined(s) == capture[s].pc \in {"done", "failed"}

JoinStdout ==
    /\ worker = "join_stdout"
    /\ Joined("stdout")
    /\ worker' = IF capture["stdout"].pc = "done" THEN "join_stderr" ELSE "report_unknown"
    /\ UNCHANGED <<source, files, capture, state, readers, faults>>

Report == IF ssh = "exited" THEN "report_exit" ELSE "report_unknown"

Overflowed == \E s \in Streams : capture[s].truncated

JoinStderr ==
    /\ worker = "join_stderr"
    /\ Joined("stderr")
    /\ worker' = IF capture["stderr"].pc = "failed" THEN "report_unknown"
                 ELSE IF Overflowed THEN "mark" ELSE Report
    /\ UNCHANGED <<source, files, capture, state, readers, faults>>

MarkTruncated ==
    /\ worker = "mark"
    /\ \/ /\ marker' = TRUE
          /\ worker' = Report
          /\ UNCHANGED faults
       \/ /\ Fault
          /\ worker' = "report_unknown"
          /\ UNCHANGED marker
    /\ UNCHANGED <<source, stored, capture, state, readers>>

(* The process ends: its threads and its ends of the pipes are gone. *)
WorkerEnds ==
    /\ worker' = "off"
    /\ capture' = [s \in Streams |->
                     IF Reading(s) THEN [capture[s] EXCEPT !.pc = "gone"]
                                   ELSE capture[s]]
    /\ pipe' = [s \in Streams |-> 0]

FinishTask ==
    /\ worker \in {"report_exit", "report_unknown"}
    /\ state' = IF worker = "report_exit" THEN "exited" ELSE "unknown"
    /\ WorkerEnds
    /\ UNCHANGED <<content, output, produced, ssh, files, readers, faults>>

WorkerDies ==
    /\ worker # "off"
    /\ Fault
    /\ WorkerEnds
    /\ UNCHANGED <<content, output, produced, ssh, files, state, readers>>

(* Some open gives the task up: its lease lapsed, or another boot. *)
SweepStale ==
    /\ state = "running"
    /\ state' = "unknown"
    /\ UNCHANGED <<source, files, capture, worker, readers, faults>>

-----------------------------------------------------------------------------
(* output: read the task, look at the file, read a page, look for the mark. *)

PageTask(r) ==
    /\ readers[r].pc = "idle"
    /\ readers' = [readers EXCEPT ![r].pc = "stat", ![r].state = state]
    /\ UNCHANGED <<source, files, capture, worker, state, faults>>

(* Mutation: the answer carries the state of the task as it is now. *)
AnswerAsNow(r, more, truncated) ==
    [state |-> state, more |-> more, truncated |-> truncated]

Answer(r, more, truncated) ==
    [state |-> readers[r].state, more |-> more, truncated |-> truncated]

(* No file yet: the answer is output_pending. *)
PagePending(r) ==
    /\ readers[r].pc = "stat"
    /\ stored[readers[r].stream] = None
    /\ readers' = [readers EXCEPT ![r].pc = "idle", ![r].state = None,
                                  ![r].answer = None]
    /\ UNCHANGED <<source, files, capture, worker, state, faults>>

PageStat(r) ==
    /\ readers[r].pc = "stat"
    /\ stored[readers[r].stream] # None
    /\ readers' = [readers EXCEPT ![r].pc = "read",
                                  ![r].len = stored[readers[r].stream]]
    /\ UNCHANGED <<source, files, capture, worker, state, faults>>

(* What one read finds at the cursor. *)
BytesAt(s, cursor) ==
    SubSeq(content[s], cursor + 1, Least(cursor + PageSize, stored[s]))

(* Mutation: the cursor advances by what was read. *)
PageReadSkips(r) ==
    /\ readers[r].pc = "read"
    /\ LET bytes == BytesAt(readers[r].stream, readers[r].cursor)
           page == Page(bytes)
       IN readers' = [readers EXCEPT
                        ![r].pc = "mark",
                        ![r].cursor = @ + Len(bytes),
                        ![r].got = @ \o SubSeq(bytes, 1, page.used)]
    /\ UNCHANGED <<source, files, capture, worker, state, faults>>

(* The answer carries the bytes that the page takes, as text or in hex,    *)
(* and the cursor after them.                                              *)
PageRead(r) ==
    /\ readers[r].pc = "read"
    /\ LET bytes == BytesAt(readers[r].stream, readers[r].cursor)
           page == Page(bytes)
           early == readers[r].early \/ readers[r].state # "exited"
       IN readers' = [readers EXCEPT
                        ![r].pc = "mark",
                        ![r].cursor = @ + page.used,
                        ![r].got = @ \o SubSeq(bytes, 1, page.used),
                        ![r].early = early,
                        ![r].hex = @ \/ (~early /\ page.encoding = "hex")]
    /\ UNCHANGED <<source, files, capture, worker, state, faults>>

PageMark(r) ==
    /\ readers[r].pc = "mark"
    /\ LET more == readers[r].cursor < readers[r].len
       IN readers' = [readers EXCEPT ![r].pc = "idle", ![r].state = None,
                                     ![r].len = None,
                                     ![r].answer = Answer(r, more, marker)]
    /\ UNCHANGED <<source, files, capture, worker, state, faults>>

-----------------------------------------------------------------------------
CaptureStep(s) == Drain(s) \/ EndOfFile(s)

WorkerStep ==
    \/ CreateOutputs
    \/ SpawnSsh
    \/ SshReaped
    \/ JoinStdout
    \/ JoinStderr
    \/ MarkTruncated
    \/ FinishTask

ReaderStep(r) ==
    \/ PageTask(r)
    \/ PagePending(r)
    \/ PageStat(r)
    \/ PageRead(r)
    \/ PageMark(r)

SshStep == (\E s \in Streams : RemoteWrites(s) \/ BrokenPipe(s)) \/ SshExits

Next ==
    \/ SshStep
    \/ SshFails
    \/ \E s \in Streams : CaptureStep(s) \/ CaptureFails(s)
    \/ WorkerStep
    \/ StartFails
    \/ WorkerDies
    \/ SweepStale
    \/ \E r \in Readers : ReaderStep(r)

Spec == Init /\ [][Next]_vars

(* Threads and processes are scheduled, and the command writes what it has *)
(* to write and ends: the output is finite.                                *)
FairSpec ==
    /\ Spec
    /\ WF_vars(SshStep)
    /\ WF_vars(WorkerStep)
    /\ \A s \in Streams : WF_vars(CaptureStep(s))

-----------------------------------------------------------------------------
(* What a client was told of the last page of a stream. *)
Last(r) == readers[r].answer # None /\ ~readers[r].answer.more

Everything(s) == stored[s] = produced[s] /\ produced[s] = output[s]

(* A client that is told that the task exited and that there is no more    *)
(* has every byte of the stream once and in order, or is told that it is   *)
(* truncated: it may stop reading.                                         *)
ExitedOutputIsWhole ==
    \A r \in Readers :
      Last(r) /\ readers[r].answer.state = "exited" =>
        LET s == readers[r].stream IN
        /\ readers[r].pc = "idle" =>
             readers[r].got = SubSeq(content[s], 1, stored[s])
        /\ readers[r].answer.truncated \/ Everything(s)

(* "Output is UTF-8 when possible": of a whole text, a client that pages   *)
(* after the task exited gets no page in hex, wherever the pages end.  (A  *)
(* page that is asked for while the file ends inside a character may be    *)
(* hex, and so may those after it.)                                        *)
TextStaysText ==
    \A r \in Readers :
      LET s == readers[r].stream IN
      IsText(content[s]) /\ stored[s] = Len(content[s]) => ~readers[r].hex

(* "Overflow is marked, not silently represented as complete": a worker    *)
(* that has come to its report, whatever it will report, left the marker   *)
(* if bytes of some stream were dropped at the limit.                      *)
OverflowIsMarked ==
    worker \in {"report_exit", "report_unknown"} /\ Overflowed => marker

(* What the clients and the world see of the capture. *)
Told(r) ==
    IF Last(r) /\ readers[r].answer.state = "exited"
      THEN IF readers[r].answer.truncated THEN "cut" ELSE "whole"
      ELSE "open"

Verdict == IF state # "exited" THEN "open" ELSE IF marker THEN "cut" ELSE "whole"

Followed == INSTANCE FollowedOutput WITH
    written <- produced,
    file    <- [s \in Streams |-> IF stored[s] = None THEN 0 ELSE stored[s]],
    verdict <- Verdict,
    follows <- [r \in Readers |-> readers[r].stream],
    place   <- [r \in Readers |-> readers[r].cursor],
    told    <- [r \in Readers |-> Told(r)]

(* Pipes, threads, deaths, and the four looks of which an answer is made   *)
(* implement what FollowedOutput promises: no byte is stored once an exit  *)
(* is recorded, the marker tells exactly whether bytes are missing, and a  *)
(* client that was told of the end is never told anything else.            *)
ImplementsFollowedOutput == Followed!Spec

(* Output beyond the limit, or a failed capture, never blocks ssh and with *)
(* it the task: the pipes are drained, or closed, to the end.              *)
TaskEnds == worker = "wait" ~> worker = "off"

=============================================================================
