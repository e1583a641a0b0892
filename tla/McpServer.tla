------------------------------ MODULE McpServer ------------------------------
(***************************************************************************)
(* The MCP server: one process that reads one line at a time from an       *)
(* agent, calls the same code as the command line and answers (serve,      *)
(* tools and arguments of src/mcp.rs, invoke and run of src/cli.rs),       *)
(* while users take sessions, other agents use the command line, workers   *)
(* report and time passes (SessionControl).  The agent may send any line   *)
(* at any time and start the server again, with or without --allow-exec.   *)
(*                                                                         *)
(* A line that is answered without a look at the store (one that cannot be *)
(* parsed, ping, tools/list, an unknown method or tool, a call before the  *)
(* handshake, or a command that needs approval) changes nothing: such      *)
(* lines are stuttering steps.                                             *)
(***************************************************************************)
EXTENDS SessionControl, CommandPolicy

VARIABLES
    mcp,     \* the server process
    agent    \* history: what the agent said and was told

mvars == <<cvars, mcp, agent>>

ASSUME PolicyAssumption ==
    /\ Executions \subseteq [command : Commands, shell : STRING]
    /\ Refused = {e \in Executions : Rejected(e.command, e.shell)}

ReadTools == {"devices", "sessions", "task", "output"}
ExecTools == {"session_create", "session_describe", "exec"}

tools(allow_exec) == IF allow_exec THEN ReadTools \cup ExecTools ELSE ReadTools

(* What arguments accepts; the tools that only read, or that write what is *)
(* not modelled, are alike but for task, whose answer names a task.        *)
Calls ==
    [tool : {"sessions", "session_describe"}]
    \cup [tool : {"task"}, id : 1 .. Len(tasks)]
    \cup [tool : {"session_create"}, session : SessionIds, device : Devices]
    \cup [tool : {"exec"}, session : SessionIds, request : RequestIds,
          execution : Executions]

Off == [pc |-> "off", allow_exec |-> FALSE, negotiated |-> FALSE,
        initialized |-> FALSE, call |-> None, answer |-> None]

Newcomer == [said |-> "nothing",
             told |-> [q \in SessionIds \X RequestIds |-> None]]

McpInit ==
    /\ ControlInit
    /\ mcp = Off
    /\ agent = Newcomer

At(pc) == mcp.pc = pc

-----------------------------------------------------------------------------
(* The loop of serve. *)

ServerStarts(allow_exec) ==
    /\ At("off")
    /\ mcp' = [Off EXCEPT !.pc = "read", !.allow_exec = allow_exec]
    /\ agent' = [agent EXCEPT !.said = "nothing"]
    /\ UNCHANGED cvars

(* The end of the input, a line that is too long, a write that fails, or   *)
(* the process is killed: whatever was committed stays, unanswered.        *)
ServerEnds ==
    /\ ~At("off")
    /\ mcp' = Off
    /\ UNCHANGED <<cvars, agent>>

ReadInitialize ==
    /\ At("read")
    /\ ~mcp.negotiated
    /\ mcp' = [mcp EXCEPT !.negotiated = TRUE]
    /\ agent' = [agent EXCEPT !.said = "initialize"]
    /\ UNCHANGED cvars

(* Mutation: the notification alone completes the handshake. *)
ReadInitializedUnasked ==
    /\ At("read")
    /\ mcp' = [mcp EXCEPT !.initialized = TRUE]
    /\ agent' = [agent EXCEPT !.said = IF @ = "nothing" THEN @ ELSE "initialized"]
    /\ UNCHANGED cvars

(* notifications/initialized; a notification is never answered. *)
ReadInitialized ==
    /\ At("read")
    /\ mcp' = [mcp EXCEPT !.initialized = @ \/ mcp.negotiated]
    /\ agent' = [agent EXCEPT !.said = IF @ = "nothing" THEN @ ELSE "initialized"]
    /\ UNCHANGED cvars

(* tools/call; the policy is asked before the store is opened. *)
ReadCall(call) ==
    /\ At("read")
    /\ mcp.initialized
    /\ call.tool \in tools(mcp.allow_exec)
    /\ call.tool = "exec" => ~ApprovalRequired(call.execution.command)
    /\ mcp' = [mcp EXCEPT !.pc = "open", !.call = call]
    /\ UNCHANGED <<cvars, agent>>

-----------------------------------------------------------------------------
(* cli::run: every tool, also one that only reads, opens the store first.  *)

OpenExpires ==
    /\ At("open")
    /\ ExpireControls
    /\ mcp' = [mcp EXCEPT !.pc = "sweep"]
    /\ UNCHANGED <<belief, agent>>

OpenSweeps ==
    /\ At("sweep")
    /\ SweepStale
    /\ mcp' = [mcp EXCEPT !.pc = "act"]
    /\ UNCHANGED <<belief, agent>>

(* What an agent asks for with exec, and what a row was asked for. *)
RequestOf(q) == [session |-> q.session, request |-> q.request, execution |-> q.execution]

(* The tool returns; answer is the task it names, if any. *)
Returns(pc, answer) == mcp' = [mcp EXCEPT !.pc = pc, !.call = None,
                                           !.answer = answer]

TaskAnswer(q, i) == [request |-> q, id |-> i]

ActReads ==
    /\ At("act")
    /\ mcp.call.tool \in {"sessions", "session_describe"}
    /\ Returns("answer", None)
    /\ UNCHANGED <<cvars, agent>>

ActTask ==
    /\ At("act")
    /\ mcp.call.tool = "task"
    /\ UNCHANGED <<cvars, agent>>
    /\ Returns("answer", TaskAnswer(RequestOf(tasks[mcp.call.id]), mcp.call.id))

(* A session that exists is not created again: session_create_failed. *)
ActCreate ==
    /\ At("act")
    /\ mcp.call.tool = "session_create"
    /\ IF sessions[mcp.call.session] = None
         THEN CreateSession(mcp.call.session, mcp.call.device)
         ELSE UNCHANGED jvars
    /\ Returns("answer", None)
    /\ UNCHANGED <<belief, agent>>

(* Mutation: the parameters of a retry are not compared. *)
SameRequestId(row, q) == row.session = q.session /\ row.request = q.request

(* The row that a retry names: same request, same command and shell. *)
SameRequest(row, q) == RequestOf(row) = RequestOf(q)

(* Exec: the request is journalled, and its worker is launched next, or it *)
(* was before; a task that is still accepted is launched again.            *)
ActExec ==
    LET q == mcp.call
        Named(i) == Returns(IF tasks'[i].state = "accepted" THEN "launch" ELSE "answer",
                            TaskAnswer(RequestOf(q), i))
    IN /\ At("act")
       /\ q.tool = "exec"
       /\ \/ /\ ReserveTask(q.session, q.request, q.execution)
             /\ Named(Len(tasks'))
          \/ \E i \in DOMAIN tasks :
               /\ SameRequest(tasks[i], q)
               /\ UNCHANGED jvars
               /\ Named(i)
       /\ UNCHANGED <<belief, agent>>

Launch ==
    /\ At("launch")
    /\ mcp' = [mcp EXCEPT !.pc = "answer"]
    /\ UNCHANGED <<cvars, agent>>

(* The store cannot be opened, the tool refuses, or the worker of a task   *)
(* that was just accepted cannot be launched: the answer is an error.      *)
CallFails ==
    /\ mcp.pc \in {"open", "sweep", "act", "launch"}
    /\ mcp' = [mcp EXCEPT !.pc = "answer", !.call = None, !.answer = None]
    /\ UNCHANGED <<cvars, agent>>

Answer ==
    /\ At("answer")
    /\ mcp' = [mcp EXCEPT !.pc = "read", !.answer = None]
    /\ agent' = IF mcp.answer = None
                  THEN agent
                  ELSE LET q == mcp.answer.request
                       IN [agent EXCEPT !.told[<<q.session, q.request>>] = mcp.answer]
    /\ UNCHANGED cvars

-----------------------------------------------------------------------------
ServerStep ==
    \/ ReadInitialize
    \/ ReadInitialized
    \/ \E call \in Calls : ReadCall(call)
    \/ OpenExpires
    \/ OpenSweeps
    \/ ActReads
    \/ ActTask
    \/ ActCreate
    \/ ActExec
    \/ Launch
    \/ CallFails
    \/ Answer

(* Users, workers, time, and agents on the command line. *)
Others == ControlNext /\ UNCHANGED <<mcp, agent>>

McpNext ==
    \/ \E allow_exec \in BOOLEAN : ServerStarts(allow_exec)
    \/ ServerEnds
    \/ ServerStep
    \/ Others

McpSpec == McpInit /\ [][McpNext]_mvars

(* Time passes, and now and then some process opens the store: a worker or *)
(* a reader of the command line.  Nobody has to call a tool.               *)
FairMcpSpec ==
    /\ McpSpec
    /\ WF_mvars(TimePasses /\ UNCHANGED <<mcp, agent>>)
    /\ WF_mvars(ExpireControls /\ UNCHANGED <<belief, mcp, agent>>)

-----------------------------------------------------------------------------
(* "Remote execution requires explicit opt-in": whatever lines the agent   *)
(* sends in whatever order, the server adds a session or a task only if it *)
(* was started with --allow-exec and greeted in order, first initialize    *)
(* and then initialized, since then.                                       *)
WorkIsSanctioned ==
    [][/\ mcp' # mcp
       /\ \/ Len(tasks') > Len(tasks)
          \/ \E s \in SessionIds : sessions[s] = None /\ sessions'[s] # None
       => mcp.allow_exec /\ agent.said = "initialized"]_mvars

(* What the agent was told of a request stays true, although the server    *)
(* may end between a commit and its answer and the agent may repeat the    *)
(* request to another server or to another state of the session: the       *)
(* request has that one task, with the command and shell it asked for.     *)
ToldTasksAreKept ==
    \A s \in SessionIds, r \in RequestIds :
      LET told == agent.told[<<s, r>>] IN
      told # None =>
        /\ \A i \in DOMAIN tasks :
             tasks[i].session = s /\ tasks[i].request = r <=> i = told.id
        /\ tasks[told.id].execution = told.request.execution

=============================================================================
