--------------------------- MODULE McpServerProofs ---------------------------
(***************************************************************************)
(* Proofs about the MCP server and about user control beside it, for any   *)
(* sessions, requests, commands, holders and leases: what needs an opt-in, *)
(* what an answer is worth, and who controls a session.  At the end, what  *)
(* the places that look at a command's text agree on.                      *)
(***************************************************************************)
EXTENDS McpServer, TaskJournalProofs

(***************************************************************************)
(* Every step of McpServer is one transaction of the journal or none.      *)
(***************************************************************************)

LEMMA ControlUsesJournal ==
    ASSUME ControlNext
    PROVE  [Next]_jvars
<1>1. ASSUME NEW t \in Holders, UserStep(t)
      PROVE  [Next]_jvars
  <2>1. t \in Tokens
    BY DEF Holders
  <2> QED
    BY <1>1, <2>1 DEF UserStep, UserTakes, UserRenews, UserReleases, UserIsRefused,
                      UserDies, Next, SessionStep
<1>2. CASE AgentStep
  BY <1>2 DEF AgentStep, Next, SessionStep
<1>3. CASE Opens \/ TimePasses
  BY <1>3 DEF Opens, TimePasses, Next
<1> QED
  BY <1>1, <1>2, <1>3 DEF ControlNext

(* What a call at its last step was asked for. *)
CallKnows ==
    At("act") =>
      /\ mcp.call.tool = "task" => mcp.call.id \in DOMAIN tasks
      /\ mcp.call.tool = "session_create" =>
           mcp.call.session \in SessionIds /\ mcp.call.device \in Devices
      /\ mcp.call.tool = "exec" =>
           /\ mcp.call.session \in SessionIds
           /\ mcp.call.request \in RequestIds
           /\ mcp.call.execution \in Executions

LEMMA ServerUsesJournal ==
    ASSUME CallKnows, ServerStep
    PROVE  [Next]_jvars
<1>1. CASE ActCreate
  BY <1>1 DEF ActCreate, CallKnows, Next, SessionStep
<1>2. CASE ActExec
  <2>1. ReserveTask(mcp.call.session, mcp.call.request, mcp.call.execution)
          \/ UNCHANGED jvars
    BY <1>2 DEF ActExec
  <2>2. /\ mcp.call.session \in SessionIds
        /\ mcp.call.request \in RequestIds
        /\ mcp.call.execution \in Executions
    BY <1>2 DEF ActExec, CallKnows
  <2> QED
    BY <2>1, <2>2 DEF Next, SessionStep
<1>3. CASE OpenExpires \/ OpenSweeps
  BY <1>3 DEF OpenExpires, OpenSweeps, Next
<1>4. CASE \/ ReadInitialize
           \/ ReadInitialized
           \/ \E call \in Calls : ReadCall(call)
           \/ ActReads
           \/ ActTask
           \/ Launch
           \/ CallFails
           \/ Answer
  BY <1>4 DEF ReadInitialize, ReadInitialized, ReadCall, ActReads, ActTask, Launch,
              CallFails, Answer, cvars
<1> QED
  BY <1>1, <1>2, <1>3, <1>4 DEF ServerStep

LEMMA McpUsesJournal ==
    ASSUME CallKnows, [McpNext]_mvars
    PROVE  [Next]_jvars
<1>1. CASE \E allow_exec \in BOOLEAN : ServerStarts(allow_exec)
  BY <1>1 DEF ServerStarts, cvars
<1>2. CASE ServerEnds
  BY <1>2 DEF ServerEnds, cvars
<1>3. CASE ServerStep
  BY <1>3, ServerUsesJournal
<1>4. CASE Others
  BY <1>4, ControlUsesJournal DEF Others
<1>5. CASE UNCHANGED mvars
  BY <1>5 DEF mvars, cvars
<1> QED
  BY <1>1, <1>2, <1>3, <1>4, <1>5 DEF McpNext

(***************************************************************************)
(* The server: its types, its handshake, and what its answers say.         *)
(***************************************************************************)

AskedRow == [session : SessionIds, request : RequestIds, execution : Executions]

AnswerRow == [request : AskedRow, id : Nat]

AnyCall ==
    [tool : {"sessions", "session_describe"}]
    \cup [tool : {"task"}, id : Nat]
    \cup [tool : {"session_create"}, session : SessionIds, device : Devices]
    \cup [tool : {"exec"}, session : SessionIds, request : RequestIds,
          execution : Executions]

ServerRow == [pc          : {"off", "read", "open", "sweep", "act", "launch", "answer"},
              allow_exec  : BOOLEAN,
              negotiated  : BOOLEAN,
              initialized : BOOLEAN,
              call        : AnyCall \cup {None},
              answer      : AnswerRow \cup {None}]

AgentRow == [said : {"nothing", "initialize", "initialized"},
             told : [SessionIds \X RequestIds -> AnswerRow \cup {None}]]

Calling == {"open", "sweep", "act"}

(* The server is initialized by the agent's greeting, in order, and what   *)
(* it is asked for is a call it offers.                                    *)
Greeted ==
    /\ mcp.negotiated => agent.said # "nothing"
    /\ mcp.initialized => mcp.negotiated /\ agent.said = "initialized"
    /\ mcp.pc \in Calling =>
         /\ mcp.initialized
         /\ mcp.call \in Calls
         /\ mcp.call.tool \in tools(mcp.allow_exec)

(* The answer names a task that has what was asked for. *)
Truthful(answer) ==
    /\ answer.id \in DOMAIN tasks
    /\ answer.request = RequestOf(tasks[answer.id])

AnswersAreTrue ==
    /\ mcp.answer # None => Truthful(mcp.answer)
    /\ \A q \in SessionIds \X RequestIds :
         agent.told[q] # None =>
           /\ Truthful(agent.told[q])
           /\ <<agent.told[q].request.session, agent.told[q].request.request>> = q

ServerTyped == mcp \in ServerRow /\ agent \in AgentRow

ServerInv == ServerTyped /\ Greeted /\ AnswersAreTrue

LEMMA GreetedKnows == Greeted => CallKnows
<1> SUFFICES ASSUME Greeted, At("act") PROVE CallKnows
  BY DEF CallKnows
<1>1. mcp.call \in Calls
  BY DEF Greeted, Calling, At
<1> QED
  BY <1>1 DEF Calls, CallKnows

LEMMA TaskIdsAreNumbers ==
    ASSUME TypeOK
    PROVE  /\ \A i \in DOMAIN tasks : i \in Nat /\ RequestOf(tasks[i]) \in AskedRow
           /\ DOMAIN tasks = 1 .. Len(tasks)
BY TaskRows DEF RequestOf, AskedRow, TaskRow

LEMMA CallsAreCalls ==
    ASSUME TypeOK
    PROVE  Calls \subseteq AnyCall
BY TaskRows DEF Calls, AnyCall

(* How a step changes the server and the agent. *)
LEMMA ReadingTyped ==
    ASSUME ServerTyped,
           \/ ReadInitialize
           \/ ReadInitialized
           \/ \E allow_exec \in BOOLEAN : ServerStarts(allow_exec)
           \/ ServerEnds
    PROVE  ServerTyped'
<1>1. CASE ReadInitialize
  BY <1>1 DEF ServerTyped, ServerRow, AgentRow, ReadInitialize
<1>2. CASE ReadInitialized
  <2>1. /\ mcp' = [mcp EXCEPT !.initialized = mcp.initialized \/ mcp.negotiated]
        /\ (mcp.initialized \/ mcp.negotiated) \in BOOLEAN
    BY <1>2 DEF ReadInitialized
  <2>2. mcp' \in ServerRow
    BY <2>1 DEF ServerTyped, ServerRow
  <2>3. agent' \in AgentRow
    BY <1>2 DEF ServerTyped, AgentRow, ReadInitialized
  <2> QED
    BY <2>2, <2>3 DEF ServerTyped
<1>3. ASSUME NEW allow_exec \in BOOLEAN, ServerStarts(allow_exec)
      PROVE  ServerTyped'
  BY <1>3 DEF ServerTyped, ServerRow, AgentRow, ServerStarts, Off
<1>4. CASE ServerEnds
  BY <1>4 DEF ServerTyped, ServerRow, ServerEnds, Off
<1> QED
  BY <1>1, <1>2, <1>3, <1>4

LEMMA CallingTyped ==
    ASSUME TypeOK, ServerTyped,
           \/ \E call \in Calls : ReadCall(call)
           \/ OpenExpires
           \/ OpenSweeps
           \/ ActReads
           \/ ActCreate
           \/ Launch
           \/ CallFails
    PROVE  ServerTyped'
<1>1. CASE \E call \in Calls : ReadCall(call)
  <2>1. PICK call \in AnyCall : ReadCall(call)
    BY <1>1, CallsAreCalls
  <2> QED
    BY <2>1 DEF ServerTyped, ServerRow, ReadCall
<1>2. CASE OpenExpires \/ OpenSweeps \/ Launch \/ CallFails
  BY <1>2 DEF ServerTyped, ServerRow, OpenExpires, OpenSweeps, Launch, CallFails
<1>3. CASE ActReads \/ ActCreate
  BY <1>3 DEF ServerTyped, ServerRow, ActReads, ActCreate, Returns
<1> QED
  BY <1>1, <1>2, <1>3

(* A task is named with what it was asked for. *)
LEMMA NamesATask ==
    ASSUME TypeOK, TypeOK', ServerTyped, Greeted, ActTask \/ ActExec
    PROVE  \E pc \in {"launch", "answer"}, a \in AnswerRow :
             /\ mcp' = [mcp EXCEPT !.pc = pc, !.call = None, !.answer = a]
             /\ a.id \in DOMAIN tasks'
             /\ a.request = RequestOf(tasks'[a.id])
             /\ agent' = agent
<1>1. CASE ActTask
  <2>1. At("act") /\ mcp.call.tool = "task"
    BY <1>1 DEF ActTask
  <2>2. mcp.call.id \in DOMAIN tasks
    BY <2>1, GreetedKnows DEF CallKnows
  <2> DEFINE a == TaskAnswer(RequestOf(tasks[mcp.call.id]), mcp.call.id)
  <2>3. a \in AnswerRow /\ a.id = mcp.call.id /\ a.request = RequestOf(tasks[mcp.call.id])
    BY <2>2, TaskIdsAreNumbers DEF TaskAnswer, AnswerRow
  <2>4. mcp' = [mcp EXCEPT !.pc = "answer", !.call = None, !.answer = a]
    BY <1>1 DEF ActTask, Returns
  <2>5. tasks' = tasks /\ agent' = agent
    BY <1>1 DEF ActTask, cvars, jvars
  <2> HIDE DEF a
  <2> QED
    BY <2>2, <2>3, <2>4, <2>5
<1>2. CASE ActExec
  <2> DEFINE q == mcp.call
             a(i) == TaskAnswer(RequestOf(q), i)
  <2>1. At("act") /\ q.tool = "exec" /\ agent' = agent
    BY <1>2 DEF ActExec
  <2>2. /\ q.session \in SessionIds
        /\ q.request \in RequestIds
        /\ q.execution \in Executions
    BY <2>1, GreetedKnows DEF CallKnows
  <2>3. RequestOf(q) \in AskedRow
    BY <2>2 DEF RequestOf, AskedRow
  <2>4. \E i \in DOMAIN tasks' :
          /\ Returns(IF tasks'[i].state = "accepted" THEN "launch" ELSE "answer", a(i))
          /\ RequestOf(tasks'[i]) = RequestOf(q)
    <3>1. CASE /\ ReserveTask(q.session, q.request, q.execution)
               /\ Returns(IF tasks'[Len(tasks')].state = "accepted" THEN "launch" ELSE "answer",
                          a(Len(tasks')))
      <4>1. /\ DOMAIN tasks' = 1 .. Len(tasks) + 1
            /\ tasks'[Len(tasks) + 1] = Accepted(q.session, q.request, q.execution)
        BY <2>2, <3>1, ReserveAppends
      <4>2. Len(tasks') = Len(tasks) + 1
        <5>1. Len(tasks) \in Nat /\ tasks' \in Seq(TaskRow)
          BY TaskRows DEF TypeOK
        <5>2. Len(tasks') \in Nat /\ DOMAIN tasks' = 1 .. Len(tasks')
          BY <5>1, LenProperties, Zenon
        <5> QED
          BY <4>1, <5>1, <5>2
      <4>3. RequestOf(Accepted(q.session, q.request, q.execution)) = RequestOf(q)
        BY DEF RequestOf, Accepted
      <4>4. Len(tasks') \in DOMAIN tasks'
        BY <4>1, <4>2, TaskRows
      <4> QED
        BY <3>1, <4>1, <4>2, <4>3, <4>4
    <3>2. CASE \E i \in DOMAIN tasks :
                 /\ SameRequest(tasks[i], q)
                 /\ UNCHANGED jvars
                 /\ Returns(IF tasks'[i].state = "accepted" THEN "launch" ELSE "answer", a(i))
      BY <3>2 DEF SameRequest, jvars
    <3> QED
      BY <1>2, <3>1, <3>2 DEF ActExec
  <2>5. PICK i \in DOMAIN tasks' :
          /\ Returns(IF tasks'[i].state = "accepted" THEN "launch" ELSE "answer", a(i))
          /\ RequestOf(tasks'[i]) = RequestOf(q)
    BY <2>4
  <2>6. i \in Nat
    BY TaskRows, TypeOK'
  <2>7. a(i) \in AnswerRow /\ a(i).id = i /\ a(i).request = RequestOf(q)
    BY <2>3, <2>6 DEF TaskAnswer, AnswerRow
  <2>8. \E pc \in {"launch", "answer"} :
          mcp' = [mcp EXCEPT !.pc = pc, !.call = None, !.answer = a(i)]
    BY <2>5 DEF Returns
  <2> HIDE DEF a, q
  <2> QED
    BY <2>1, <2>5, <2>7, <2>8
<1> QED
  BY <1>1, <1>2

LEMMA AnswerTyped ==
    ASSUME ServerTyped, AnswersAreTrue, Answer
    PROVE  ServerTyped'
<1>1. mcp' \in ServerRow
  BY DEF Answer, ServerTyped, ServerRow
<1>2. CASE mcp.answer = None
  BY <1>1, <1>2 DEF Answer, ServerTyped
<1>3. CASE mcp.answer # None
  <2> DEFINE q == mcp.answer.request
  <2>1. mcp.answer \in AnswerRow
    BY <1>3 DEF ServerTyped, ServerRow
  <2>2. <<q.session, q.request>> \in SessionIds \X RequestIds
    BY <2>1 DEF AnswerRow, AskedRow
  <2>3. agent' = [agent EXCEPT !.told[<<q.session, q.request>>] = mcp.answer]
    BY <1>3 DEF Answer
  <2> HIDE DEF q
  <2>4. agent' \in AgentRow
    BY <2>1, <2>2, <2>3 DEF ServerTyped, AgentRow
  <2> QED
    BY <1>1, <2>4 DEF ServerTyped
<1> QED
  BY <1>2, <1>3

LEMMA StepServerTyped ==
    ASSUME TypeOK, TypeOK', ServerInv, [McpNext]_mvars
    PROVE  ServerTyped'
<1>1. ServerTyped /\ Greeted /\ AnswersAreTrue
  BY DEF ServerInv
<1>2. CASE ActTask \/ ActExec
  <2>1. PICK pc \in {"launch", "answer"}, a \in AnswerRow :
          mcp' = [mcp EXCEPT !.pc = pc, !.call = None, !.answer = a] /\ agent' = agent
    BY <1>1, <1>2, NamesATask
  <2> QED
    BY <1>1, <2>1 DEF ServerTyped, ServerRow
<1>3. CASE Others \/ UNCHANGED mvars
  BY <1>1, <1>3 DEF Others, mvars, ServerTyped
<1> QED
  BY <1>1, <1>2, <1>3, ReadingTyped, CallingTyped, AnswerTyped DEF McpNext, ServerStep

(***************************************************************************)
(* The handshake and the calls.                                            *)
(***************************************************************************)

(* Tasks are for good, so a call that names one still does. *)
LEMMA CallsStay ==
    ASSUME TypeOK, TypeOK', FinalStep
    PROVE  Calls \subseteq Calls'
<1>1. /\ DOMAIN tasks = 1 .. Len(tasks) /\ Len(tasks) \in Nat
      /\ DOMAIN tasks \subseteq DOMAIN tasks'
  BY TaskRows DEF FinalStep
<1>2. DOMAIN tasks' = 1 .. Len(tasks') /\ Len(tasks') \in Nat
  BY TaskRows, TypeOK'
<1>3. 1 .. Len(tasks) \subseteq 1 .. Len(tasks')
  BY <1>1, <1>2
<1> QED
  BY <1>3 DEF Calls

(* The server goes on with the call it has, or ends it. *)
LEMMA CallGreeted ==
    ASSUME TypeOK, TypeOK', FinalStep, ServerTyped, Greeted,
           agent'.said = agent.said,
           mcp'.negotiated = mcp.negotiated,
           mcp'.initialized = mcp.initialized,
           mcp'.allow_exec = mcp.allow_exec,
           \/ mcp'.pc \notin Calling
           \/ mcp.pc \in Calling /\ mcp'.call = mcp.call
    PROVE  Greeted'
<1>1. Calls \subseteq Calls'
  BY CallsStay
<1> QED
  BY <1>1 DEF Greeted, tools

LEMMA StepGreeted ==
    ASSUME TypeOK, TypeOK', FinalStep, ServerInv, [McpNext]_mvars
    PROVE  Greeted'
<1>0. ServerTyped /\ Greeted
  BY DEF ServerInv
<1>1. ASSUME NEW allow_exec \in BOOLEAN, ServerStarts(allow_exec)
      PROVE  Greeted'
  BY <1>1 DEF ServerStarts, Greeted, Off, Calling
<1>2. CASE ServerEnds
  BY <1>2 DEF ServerEnds, Greeted, Off, Calling
<1>3. CASE ReadInitialize
  BY <1>0, <1>3 DEF ReadInitialize, Greeted, Calling, At, ServerTyped, ServerRow, AgentRow
<1>4. CASE ReadInitialized
  BY <1>0, <1>4 DEF ReadInitialized, Greeted, Calling, At, ServerTyped, ServerRow, AgentRow
<1>5. ASSUME NEW call \in Calls, ReadCall(call)
      PROVE  Greeted'
  <2>1. call \in Calls'
    BY CallsStay
  <2> QED
    BY <1>0, <1>5, <2>1 DEF ReadCall, Greeted, Calling, ServerTyped, ServerRow
<1>6. CASE OpenExpires \/ OpenSweeps
  BY <1>0, <1>6, CallGreeted DEF OpenExpires, OpenSweeps, At, Calling, ServerTyped, ServerRow
<1>7. CASE ActReads \/ ActCreate \/ Launch \/ CallFails
  BY <1>0, <1>7, CallGreeted
     DEF ActReads, ActCreate, Launch, CallFails, Returns, Calling, ServerTyped, ServerRow
<1>8. CASE ActTask \/ ActExec
  <2>1. PICK pc \in {"launch", "answer"}, a \in AnswerRow :
          mcp' = [mcp EXCEPT !.pc = pc, !.call = None, !.answer = a] /\ agent' = agent
    BY <1>0, <1>8, NamesATask
  <2> QED
    BY <1>0, <2>1, CallGreeted DEF Calling, ServerTyped, ServerRow
<1>9. CASE Answer
  <2>1. agent'.said = agent.said
    BY <1>0, <1>9 DEF Answer, ServerTyped, AgentRow
  <2>2. mcp' = [mcp EXCEPT !.pc = "read", !.answer = None]
    BY <1>9 DEF Answer
  <2> QED
    BY <1>0, <2>1, <2>2, CallGreeted DEF Calling, ServerTyped, ServerRow
<1>10. CASE Others \/ UNCHANGED mvars
  <2>1. mcp' = mcp /\ agent' = agent
    BY <1>10 DEF Others, mvars
  <2> QED
    BY <1>0, <2>1, CallGreeted DEF Calling
<1> QED
  BY <1>1, <1>2, <1>3, <1>4, <1>5, <1>6, <1>7, <1>8, <1>9, <1>10 DEF McpNext, ServerStep

(***************************************************************************)
(* The answers.                                                            *)
(***************************************************************************)

(* What names a task goes on naming it. *)
LEMMA TruthStays ==
    ASSUME TypeOK, FinalStep, NEW a, Truthful(a)
    PROVE  a.id \in DOMAIN tasks' /\ a.request = RequestOf(tasks'[a.id])
BY DEF Truthful, FinalStep, RequestOf

(* The history of the agent stays true, and so does an answer on its way.  *)
LEMMA ToldStays ==
    ASSUME TypeOK, FinalStep, AnswersAreTrue,
           agent'.told = agent.told,
           \/ mcp'.answer \in {mcp.answer, None}
           \/ Truthful(mcp.answer)'
    PROVE  AnswersAreTrue'
<1>1. ASSUME NEW q \in SessionIds \X RequestIds, agent'.told[q] # None
      PROVE  /\ Truthful(agent.told[q])'
             /\ <<agent'.told[q].request.session, agent'.told[q].request.request>> = q
  <2>1. PICK a : a = agent.told[q]
    OBVIOUS
  <2>2. Truthful(a) /\ <<a.request.session, a.request.request>> = q
    BY <1>1, <2>1 DEF AnswersAreTrue
  <2> QED
    BY <2>1, <2>2, TruthStays DEF Truthful
<1>2. ASSUME mcp'.answer # None
      PROVE  Truthful(mcp.answer)'
  <2>1. CASE mcp'.answer = mcp.answer
    <3>1. PICK a : a = mcp.answer
      OBVIOUS
    <3>2. Truthful(a)
      BY <1>2, <2>1, <3>1 DEF AnswersAreTrue
    <3> QED
      BY <2>1, <3>1, <3>2, TruthStays DEF Truthful
  <2> QED
    BY <1>2, <2>1
<1> QED
  BY <1>1, <1>2 DEF AnswersAreTrue

LEMMA StepAnswers ==
    ASSUME TypeOK, TypeOK', FinalStep, ServerInv, [McpNext]_mvars
    PROVE  AnswersAreTrue'
<1>0. ServerTyped /\ Greeted /\ AnswersAreTrue
  BY DEF ServerInv
<1>1. CASE \/ \E allow_exec \in BOOLEAN : ServerStarts(allow_exec)
           \/ ServerEnds
           \/ ReadInitialize
           \/ ReadInitialized
  <2>1. agent'.told = agent.told
    BY <1>0, <1>1 DEF ServerStarts, ServerEnds, ReadInitialize, ReadInitialized,
                      ServerTyped, AgentRow
  <2>2. mcp'.answer \in {mcp.answer, None}
    <3>1. CASE (\E allow_exec \in BOOLEAN : ServerStarts(allow_exec)) \/ ServerEnds
      <4>1. Off \in ServerRow /\ Off.answer = None
        BY DEF Off, ServerRow
      <4> QED
        BY <3>1, <4>1 DEF ServerStarts, ServerEnds, ServerRow
    <3>2. CASE ReadInitialize \/ ReadInitialized
      BY <1>0, <3>2 DEF ReadInitialize, ReadInitialized, ServerTyped, ServerRow
    <3> QED
      BY <1>1, <3>1, <3>2
  <2> QED
    BY <1>0, <2>1, <2>2, ToldStays
<1>2. CASE \/ \E call \in Calls : ReadCall(call)
           \/ OpenExpires
           \/ OpenSweeps
           \/ ActReads
           \/ ActCreate
           \/ Launch
           \/ CallFails
  <2>1. agent'.told = agent.told /\ mcp'.answer \in {mcp.answer, None}
    BY <1>0, <1>2 DEF ReadCall, OpenExpires, OpenSweeps, ActReads, ActCreate, Launch,
                      CallFails, Returns, ServerTyped, ServerRow
  <2> QED
    BY <1>0, <2>1, ToldStays
<1>3. CASE ActTask \/ ActExec
  <2>1. PICK pc \in {"launch", "answer"}, a \in AnswerRow :
          /\ mcp' = [mcp EXCEPT !.pc = pc, !.call = None, !.answer = a]
          /\ a.id \in DOMAIN tasks'
          /\ a.request = RequestOf(tasks'[a.id])
          /\ agent' = agent
    BY <1>0, <1>3, NamesATask
  <2>2. mcp'.answer = a
    BY <1>0, <2>1 DEF ServerTyped, ServerRow
  <2> QED
    BY <1>0, <2>1, <2>2, ToldStays DEF Truthful
<1>4. CASE Answer
  <2>1. mcp'.answer = None
    BY <1>0, <1>4 DEF Answer, ServerTyped, ServerRow
  <2>2. CASE mcp.answer = None
    BY <1>0, <1>4, <2>1, <2>2, ToldStays DEF Answer
  <2>3. CASE mcp.answer # None
    <3>1. PICK a \in AnswerRow : a = mcp.answer
      BY <1>0, <2>3 DEF ServerTyped, ServerRow
    <3>2. Truthful(a)
      BY <1>0, <2>3, <3>1 DEF AnswersAreTrue
    <3>3. PICK p \in SessionIds \X RequestIds : p = <<a.request.session, a.request.request>>
      BY DEF AnswerRow, AskedRow
    <3>4. agent' = [agent EXCEPT !.told[p] = a]
      BY <1>4, <2>3, <3>1, <3>3 DEF Answer
    <3>5. \A q \in SessionIds \X RequestIds :
            agent'.told[q] = IF q = p THEN a ELSE agent.told[q]
      BY <1>0, <3>4 DEF ServerTyped, AgentRow
    <3>6. ASSUME NEW q \in SessionIds \X RequestIds, agent'.told[q] # None
          PROVE  /\ Truthful(agent.told[q])'
                 /\ <<agent'.told[q].request.session, agent'.told[q].request.request>> = q
      <4>1. PICK b : b = agent'.told[q]
        OBVIOUS
      <4>2. Truthful(b) /\ <<b.request.session, b.request.request>> = q
        BY <1>0, <3>2, <3>3, <3>5, <3>6, <4>1 DEF AnswersAreTrue
      <4> QED
        BY <4>1, <4>2, TruthStays DEF Truthful
    <3> QED
      BY <2>1, <3>6 DEF AnswersAreTrue
  <2> QED
    BY <2>2, <2>3
<1>5. CASE Others \/ UNCHANGED mvars
  <2>1. mcp' = mcp /\ agent' = agent
    BY <1>5 DEF Others, mvars
  <2> QED
    BY <1>0, <2>1, ToldStays
<1> QED
  BY <1>1, <1>2, <1>3, <1>4, <1>5 DEF McpNext, ServerStep

(***************************************************************************)
(* The journal, the server and the agent together.                         *)
(***************************************************************************)

IInv == WorkInv /\ ServerInv

LEMMA JournalFacts ==
    ASSUME IInv, [McpNext]_mvars
    PROVE  TypeOK /\ WorkInv' /\ TypeOK' /\ FinalStep
<1>1. TypeOK /\ WorkInv /\ CallKnows
  BY GreetedKnows DEF IInv, WorkInv, ServerInv
<1>2. [Next]_jvars
  BY <1>1, McpUsesJournal
<1>3. WorkInv'
  BY <1>1, <1>2, StepWorkInv
<1>4. [FinalStep]_jvars
  BY <1>1, <1>2, StepFinal
<1>5. FinalStep
  BY <1>4 DEF FinalStep, jvars
<1> QED
  BY <1>1, <1>3, <1>5 DEF WorkInv

LEMMA InitIInv == McpInit => IInv
<1> SUFFICES ASSUME McpInit PROVE IInv
  OBVIOUS
<1>1. WorkInv
  BY InitWorkInv DEF McpInit, ControlInit
<1>2. mcp = Off /\ agent = Newcomer
  BY DEF McpInit
<1>3. ServerTyped
  BY <1>2 DEF ServerTyped, ServerRow, AgentRow, Off, Newcomer
<1>4. Greeted
  BY <1>2 DEF Greeted, Off, Calling
<1>5. AnswersAreTrue
  BY <1>2 DEF AnswersAreTrue, Off, Newcomer
<1> QED
  BY <1>1, <1>3, <1>4, <1>5 DEF IInv, ServerInv

LEMMA StepIInv == IInv /\ [McpNext]_mvars => IInv'
<1> SUFFICES ASSUME IInv, [McpNext]_mvars PROVE IInv'
  OBVIOUS
<1>1. TypeOK /\ WorkInv' /\ TypeOK' /\ FinalStep
  BY JournalFacts
<1>2. ServerInv
  BY DEF IInv
<1> QED
  BY <1>1, <1>2, StepServerTyped, StepGreeted, StepAnswers DEF IInv, ServerInv

LEMMA IInvAlways == McpSpec => []IInv
BY InitIInv, StepIInv, PTL DEF McpSpec

(* What an agent was told of a request stays true: however the server ends *)
(* and whatever is asked again, the request has that one task, with the    *)
(* command and shell that were asked for.                                  *)
THEOREM ToldStaysTrue == McpSpec => []ToldTasksAreKept
<1>1. IInv => ToldTasksAreKept
  <2> SUFFICES ASSUME IInv, NEW s \in SessionIds, NEW r \in RequestIds,
                      agent.told[<<s, r>>] # None
               PROVE  LET told == agent.told[<<s, r>>] IN
                      /\ \A i \in DOMAIN tasks :
                           tasks[i].session = s /\ tasks[i].request = r <=> i = told.id
                      /\ tasks[told.id].execution = told.request.execution
    BY DEF ToldTasksAreKept
  <2> DEFINE told == agent.told[<<s, r>>]
  <2>1. <<s, r>> \in SessionIds \X RequestIds
    OBVIOUS
  <2>2. Truthful(told) /\ <<told.request.session, told.request.request>> = <<s, r>>
    BY <2>1 DEF IInv, ServerInv, AnswersAreTrue
  <2>3. /\ told.id \in DOMAIN tasks
        /\ tasks[told.id].session = s
        /\ tasks[told.id].request = r
        /\ tasks[told.id].execution = told.request.execution
    BY <2>2 DEF Truthful, RequestOf
  <2>4. RequestNamesOneTask
    BY DEF IInv, WorkInv
  <2> QED
    BY <2>3, <2>4 DEF RequestNamesOneTask
<1> QED
  BY <1>1, IInvAlways, PTL

(* "Remote execution requires explicit opt-in": only a server started with *)
(* --allow-exec and greeted in order adds a session or a task.             *)
Sanctioned ==
    /\ mcp' # mcp
    /\ \/ Len(tasks') > Len(tasks)
       \/ \E s \in SessionIds : sessions[s] = None /\ sessions'[s] # None
    => mcp.allow_exec /\ agent.said = "initialized"

LEMMA Sanction ==
    ASSUME IInv, [McpNext]_mvars
    PROVE  [Sanctioned]_mvars
<1>0. Greeted /\ TypeOK
  BY DEF IInv, ServerInv, WorkInv
<1>1. CASE ActCreate \/ ActExec
  <2>1. /\ mcp.pc \in Calling
        /\ mcp.call.tool \in {"session_create", "exec"}
    BY <1>1 DEF ActCreate, ActExec, At, Calling
  <2>2. mcp.call.tool \in tools(mcp.allow_exec) /\ agent.said = "initialized"
    BY <1>0, <2>1 DEF Greeted
  <2>3. mcp.allow_exec
    BY <2>1, <2>2 DEF tools, ReadTools
  <2> QED
    BY <2>2, <2>3 DEF Sanctioned
<1>2. ASSUME tasks' = tasks,
             \A s \in SessionIds : sessions[s] = None => sessions'[s] = None
      PROVE  Sanctioned
  <2>1. ~(Len(tasks') > Len(tasks))
    BY <1>0, <1>2, TaskRows
  <2> QED
    BY <1>2, <2>1 DEF Sanctioned
<1>3. CASE OpenExpires
  BY <1>0, <1>2, <1>3 DEF OpenExpires, ExpireControls
<1>4. CASE OpenSweeps
  <2>1. Len(tasks') = Len(tasks) /\ UNCHANGED sessions
    <3>1. SweepStale
      BY <1>4 DEF OpenSweeps
    <3>2. DOMAIN tasks' = DOMAIN tasks /\ UNCHANGED sessions
      BY <1>0, <3>1, SweepRewrites DEF RewritesTasks, SweepStale
    <3>3. /\ DOMAIN tasks = 1 .. Len(tasks)
          /\ DOMAIN tasks' = 1 .. Len(tasks')
          /\ Len(tasks) \in Nat
          /\ Len(tasks') \in Nat
      <4>1. TypeOK'
        BY JournalFacts
      <4> QED
        BY <1>0, <4>1, TaskRows
    <3> QED
      BY <3>2, <3>3
  <2>2. ~(Len(tasks') > Len(tasks))
    BY <1>0, <2>1, TaskRows
  <2> QED
    BY <2>1, <2>2 DEF Sanctioned
<1>5. CASE \/ \E allow_exec \in BOOLEAN : ServerStarts(allow_exec)
           \/ ServerEnds
           \/ ReadInitialize
           \/ ReadInitialized
           \/ \E call \in Calls : ReadCall(call)
           \/ ActReads
           \/ ActTask
           \/ Launch
           \/ CallFails
           \/ Answer
  <2>1. UNCHANGED <<tasks, sessions>>
    BY <1>5 DEF ServerStarts, ServerEnds, ReadInitialize, ReadInitialized, ReadCall,
                ActReads, ActTask, Launch, CallFails, Answer, cvars, jvars
  <2> QED
    BY <1>2, <2>1
<1>6. CASE Others
  BY <1>6 DEF Others, Sanctioned
<1> QED
  BY <1>1, <1>3, <1>4, <1>5, <1>6 DEF McpNext, ServerStep

THEOREM ExecutionIsSanctioned == McpSpec => WorkIsSanctioned
<1>1. IInv /\ [McpNext]_mvars => [Sanctioned]_mvars
  BY Sanction
<1>2. McpSpec => [][Sanctioned]_mvars
  BY <1>1, IInvAlways, PTL DEF McpSpec
<1> QED
  BY <1>2 DEF Sanctioned, WorkIsSanctioned

(***************************************************************************)
(* User control beside the server.                                         *)
(***************************************************************************)

(* What the server does is what agents and openers of the store do. *)
LEMMA McpUsesControl ==
    ASSUME CallKnows, [McpNext]_mvars
    PROVE  [ControlNext]_cvars
<1>1. CASE ActCreate
  BY <1>1 DEF ActCreate, CallKnows, ControlNext, AgentStep, cvars, jvars
<1>2. CASE ActExec
  <2>1. /\ ReserveTask(mcp.call.session, mcp.call.request, mcp.call.execution)
             \/ UNCHANGED jvars
        /\ UNCHANGED belief
    BY <1>2 DEF ActExec
  <2>2. /\ mcp.call.session \in SessionIds
        /\ mcp.call.request \in RequestIds
        /\ mcp.call.execution \in Executions
    BY <1>2 DEF ActExec, CallKnows
  <2> QED
    BY <2>1, <2>2 DEF ControlNext, AgentStep, cvars
<1>3. CASE OpenExpires \/ OpenSweeps
  BY <1>3 DEF OpenExpires, OpenSweeps, ControlNext, Opens
<1>4. CASE \/ \E allow_exec \in BOOLEAN : ServerStarts(allow_exec)
           \/ ServerEnds
           \/ ReadInitialize
           \/ ReadInitialized
           \/ \E call \in Calls : ReadCall(call)
           \/ ActReads
           \/ ActTask
           \/ Launch
           \/ CallFails
           \/ Answer
           \/ UNCHANGED mvars
  BY <1>4 DEF ServerStarts, ServerEnds, ReadInitialize, ReadInitialized, ReadCall,
              ActReads, ActTask, Launch, CallFails, Answer, mvars
<1>5. CASE Others
  BY <1>5 DEF Others
<1> QED
  BY <1>1, <1>2, <1>3, <1>4, <1>5 DEF McpNext, ServerStep

BeliefRow == [session : SessionIds \cup {None}, renewed : Clock \cup {None}]

BeliefTyped ==
    /\ belief \in [Holders -> BeliefRow]
    /\ \A t \in Holders : belief[t].session # None => belief[t].renewed \in Clock

(* A holder's belief is true as long as the lease it knows of lasts, and   *)
(* the lease that is stored is no older.                                   *)
Holds(t, s) ==
    /\ sessions[s] # None
    /\ sessions[s].user_controlled
    /\ sessions[s].control_token = t
    /\ sessions[s].control_lease \in Clock
    /\ sessions[s].control_lease >= belief[t].renewed

HoldersHold ==
    \A t \in Holders, s \in SessionIds :
      Believes(t, s) /\ clock - belief[t].renewed <= LeaseSeconds => Holds(t, s)

LEMMA BeliefRows ==
    ASSUME BeliefTyped, NEW t \in Holders, NEW row \in BeliefRow,
           row.session # None => row.renewed \in Clock,
           belief' = [belief EXCEPT ![t] = row]
    PROVE  BeliefTyped'
BY DEF BeliefTyped

(* A row of beliefs after a step. *)
LEMMA StepBeliefTyped ==
    ASSUME TypeOK, BeliefTyped, [ControlNext]_cvars
    PROVE  BeliefTyped'
<1>0. clock \in Clock
  BY DEF TypeOK
<1>1. CASE UNCHANGED belief
  BY <1>1 DEF BeliefTyped
<1>2. ASSUME NEW t \in Holders, NEW s \in SessionIds, UserTakes(t, s) \/ UserRenews(t, s)
      PROVE  BeliefTyped'
  <2>1. belief' = [belief EXCEPT ![t] = [session |-> s, renewed |-> clock]]
    BY <1>2 DEF UserTakes, UserRenews, Believes, BeliefTyped, BeliefRow
  <2>2. [session |-> s, renewed |-> clock] \in BeliefRow
    BY <1>0 DEF BeliefRow
  <2> QED
    BY <1>0, <2>1, <2>2, BeliefRows
<1>3. ASSUME NEW t \in Holders, belief' = [belief EXCEPT ![t] = Nothing]
      PROVE  BeliefTyped'
  BY <1>3, BeliefRows DEF Nothing, BeliefRow
<1> QED
  BY <1>1, <1>2, <1>3 DEF ControlNext, UserStep, UserReleases, UserIsRefused, UserDies,
                          AgentStep, Opens, TimePasses, cvars

HoldsWhileFresh(t, s) ==
    Believes(t, s) /\ clock - belief[t].renewed <= LeaseSeconds => Holds(t, s)

(* A holder keeps what it has as long as no step touches its row or its    *)
(* belief and the clock is not set back.                                   *)
LEMMA HoldStays ==
    ASSUME TypeOK, TypeOK', BeliefTyped, HoldersHold,
           NEW t \in Holders, NEW s \in SessionIds,
           belief'[t] = belief[t],
           clock' >= clock,
           Holds(t, s) /\ clock - belief[t].renewed <= LeaseSeconds
             => sessions'[s] = sessions[s]
    PROVE  HoldsWhileFresh(t, s)'
<1> SUFFICES ASSUME Believes(t, s), clock' - belief[t].renewed <= LeaseSeconds
             PROVE  Holds(t, s)'
  BY DEF HoldsWhileFresh, Believes
<1>1. belief[t].renewed \in Int /\ clock \in Int /\ clock' \in Int /\ LeaseSeconds \in Int
  BY SessionAssumption, JournalAssumption DEF BeliefTyped, Believes, TypeOK, Clock
<1>2. clock - belief[t].renewed <= LeaseSeconds
  BY <1>1
<1>3. Holds(t, s)
  BY <1>2 DEF HoldersHold
<1> QED
  BY <1>2, <1>3 DEF Holds

LEMMA NoneIsNoSession == None \notin SessionRow
BY SessionAssumption

LEMMA ExpiryKeepsFresh ==
    ASSUME TypeOK, TypeOK', BeliefTyped, HoldersHold, ExpireControls, UNCHANGED belief,
           NEW t \in Holders, NEW s \in SessionIds
    PROVE  HoldsWhileFresh(t, s)'
<1>1. ASSUME Holds(t, s), clock - belief[t].renewed <= LeaseSeconds
      PROVE  sessions'[s] = sessions[s] \/ ~Believes(t, s)
  <2> SUFFICES ASSUME Believes(t, s)
               PROVE  sessions'[s] = sessions[s]
    OBVIOUS
  <2>1. /\ belief[t].renewed \in Int
        /\ clock \in Int
        /\ LeaseSeconds \in Int
        /\ sessions[s].control_lease \in Int
    BY <1>1, SessionAssumption, JournalAssumption DEF BeliefTyped, Believes, TypeOK, Clock, Holds
  <2>2. ~Lapsed(sessions[s].control_lease)
    BY <1>1, <2>1 DEF Lapsed, Holds
  <2> QED
    BY <2>2 DEF ExpireControls, ControlLapsed
<1>2. CASE Believes(t, s)
  <2>1. clock' = clock /\ clock \in Int
    BY DEF ExpireControls, TypeOK, Clock
  <2>2. belief'[t] = belief[t]
    OBVIOUS
  <2>3. clock' >= clock
    BY <2>1
  <2> QED
    BY <1>1, <1>2, <2>2, <2>3, HoldStays
<1>3. CASE ~Believes(t, s)
  BY <1>3 DEF HoldsWhileFresh, Believes
<1> QED
  BY <1>2, <1>3

(* A take, renewal or release of one holder. *)
LEMMA UsersKeepFresh ==
    ASSUME TypeOK, TypeOK', BeliefTyped, HoldersHold,
           NEW u \in Holders, UserStep(u),
           NEW t \in Holders, NEW s \in SessionIds
    PROVE  HoldsWhileFresh(t, s)'
<1>0. /\ clock' = clock
      /\ clock \in Clock
      /\ clock \in Int
      /\ LeaseSeconds \in Nat
      /\ sessions \in [SessionIds -> SessionRow \cup {None}]
  <2>1. clock' = clock
    BY DEF UserStep, UserTakes, UserRenews, UserReleases, UserIsRefused, UserDies,
           TakeSession, RenewSession, ReleaseSession, jvars
  <2> QED
    BY <2>1, JournalAssumption DEF TypeOK, Clock
<1>1. ASSUME NEW q \in SessionIds, UserTakes(u, q) \/ UserRenews(u, q)
      PROVE  HoldsWhileFresh(t, s)'
  <2>1. belief' = [belief EXCEPT ![u] = [session |-> q, renewed |-> clock]]
    BY <1>1 DEF UserTakes, UserRenews, Believes, BeliefTyped, BeliefRow
  <2>2. sessions'[q].user_controlled /\ sessions'[q].control_token = u
          /\ sessions'[q].control_lease = clock /\ sessions'[q] # None
    <3>1. sessions[q] \in SessionRow
      BY <1>0, <1>1 DEF UserTakes, UserRenews, TakeSession, RenewSession
    <3>2. CASE UserTakes(u, q)
      <4>1. sessions' = [sessions EXCEPT ![q] =
              [sessions[q] EXCEPT !.user_controlled = TRUE, !.control_token = u,
                                  !.control_lease = clock]]
        BY <3>2 DEF UserTakes, TakeSession
      <4>2. PICK row : row = [sessions[q] EXCEPT !.user_controlled = TRUE,
                                !.control_token = u, !.control_lease = clock]
        OBVIOUS
      <4>3. row.user_controlled /\ row.control_token = u /\ row.control_lease = clock
        BY <3>1, <4>2 DEF SessionRow
      <4>4. sessions'[q] = row
        BY <1>0, <4>1, <4>2
      <4>5. row \in SessionRow
        BY <1>0, <3>1, <4>2 DEF SessionRow, Holders
      <4> QED
        BY <4>3, <4>4, <4>5, NoneIsNoSession
    <3>3. CASE UserRenews(u, q)
      <4>1. /\ sessions' = [sessions EXCEPT ![q] =
                              [sessions[q] EXCEPT !.control_lease = clock]]
            /\ sessions[q].control_token = u
            /\ sessions[q].user_controlled
        BY <3>3 DEF UserRenews, RenewSession
      <4>2. PICK row : row = [sessions[q] EXCEPT !.control_lease = clock]
        OBVIOUS
      <4>3. row.user_controlled /\ row.control_token = u /\ row.control_lease = clock
        BY <3>1, <4>1, <4>2 DEF SessionRow
      <4>4. sessions'[q] = row
        BY <1>0, <4>1, <4>2
      <4>5. row \in SessionRow
        BY <1>0, <3>1, <4>2 DEF SessionRow
      <4> QED
        BY <4>3, <4>4, <4>5, NoneIsNoSession
    <3> QED
      BY <1>1, <3>2, <3>3
  <2>3. \A p \in SessionIds \ {q} : sessions'[p] = sessions[p]
    BY <1>0, <1>1 DEF UserTakes, UserRenews, TakeSession, RenewSession
  <2>4. CASE t = u
    <3>1. belief'[t].session = q /\ belief'[t].renewed = clock
      BY <2>1, <2>4 DEF BeliefTyped
    <3> QED
      BY <1>0, <2>2, <2>4, <3>1 DEF HoldsWhileFresh, Believes, Holds
  <2>5. CASE t # u
    <3>1. belief'[t] = belief[t]
      BY <2>1, <2>5 DEF BeliefTyped
    <3>2. Holds(t, s) => s # q
      BY <1>1, <2>5 DEF Holds, UserTakes, TakeSession, Controlled, UserRenews, RenewSession
    <3> QED
      BY <1>0, <2>3, <3>1, <3>2, HoldStays
  <2> QED
    BY <2>4, <2>5
<1>2. ASSUME belief' = [belief EXCEPT ![u] = Nothing],
             \/ UNCHANGED sessions
             \/ \E q \in SessionIds : ReleaseSession(q, u)
      PROVE  HoldsWhileFresh(t, s)'
  <2>1. CASE t = u
    <3>1. belief'[t].session = None
      BY <1>2, <2>1 DEF BeliefTyped, Nothing
    <3> QED
      BY <3>1, SessionAssumption DEF HoldsWhileFresh, Believes
  <2>2. CASE t # u
    <3>1. belief'[t] = belief[t]
      BY <1>2, <2>2 DEF BeliefTyped
    <3>2. Holds(t, s) => sessions'[s] = sessions[s]
      BY <1>0, <1>2, <2>2 DEF Holds, ReleaseSession
    <3> QED
      BY <1>0, <3>1, <3>2, HoldStays
  <2> QED
    BY <2>1, <2>2
<1> QED
  BY <1>1, <1>2 DEF UserStep, UserReleases, UserIsRefused, UserDies, jvars

LEMMA StepHoldersHold ==
    ASSUME Monotone, TypeOK, TypeOK', BeliefTyped, HoldersHold, [ControlNext]_cvars
    PROVE  HoldersHold'
<1> SUFFICES ASSUME NEW t \in Holders, NEW s \in SessionIds
             PROVE  HoldsWhileFresh(t, s)'
  BY DEF HoldersHold, HoldsWhileFresh
<1>0. clock \in Int /\ clock' \in Int
  BY DEF TypeOK, Clock
<1>1. ASSUME NEW u \in Holders, UserStep(u)
      PROVE  HoldsWhileFresh(t, s)'
  BY <1>1, UsersKeepFresh
<1>2. CASE AgentStep
  <2>1. UNCHANGED belief
    BY <1>2 DEF AgentStep
  <2>2. clock' = clock /\ (sessions[s] # None => sessions'[s] = sessions[s])
    <3>1. CASE TaskStep
      BY <3>1, TaskStepRewrites
    <3>2. ASSUME NEW q \in SessionIds, NEW d \in Devices, CreateSession(q, d)
          PROVE  clock' = clock /\ (sessions[s] # None => sessions'[s] = sessions[s])
      BY <3>2 DEF CreateSession, TypeOK
    <3>3. ASSUME NEW q \in SessionIds, NEW r \in RequestIds, NEW e \in Executions,
                 ReserveTask(q, r, e)
          PROVE  clock' = clock /\ (sessions[s] # None => sessions'[s] = sessions[s])
      BY <3>3 DEF ReserveTask
    <3> QED
      BY <1>2, <3>1, <3>2, <3>3 DEF AgentStep
  <2>3. clock' >= clock
    BY <1>0, <2>2
  <2> QED
    BY <2>1, <2>2, <2>3, HoldStays DEF Holds
<1>3. CASE Opens
  <2>1. CASE ExpireControls
    BY <1>3, <2>1, ExpiryKeepsFresh DEF Opens
  <2>2. CASE SweepStale
    BY <1>0, <1>3, <2>2, HoldStays DEF Opens, SweepStale
  <2> QED
    BY <1>3, <2>1, <2>2 DEF Opens
<1>4. CASE TimePasses
  <2>1. clock' >= clock /\ UNCHANGED <<sessions, belief>>
    BY <1>4 DEF TimePasses, SetClock
  <2> QED
    BY <2>1, HoldStays
<1>5. CASE UNCHANGED cvars
  <2>1. clock' >= clock /\ UNCHANGED <<sessions, belief>>
    BY <1>0, <1>5 DEF cvars, jvars
  <2> QED
    BY <2>1, HoldStays
<1> QED
  BY <1>1, <1>2, <1>3, <1>4, <1>5 DEF ControlNext

ControlInv == WorkInv /\ BeliefTyped /\ HoldersHold

LEMMA ControlInvAlways ==
    ASSUME Monotone
    PROVE  McpSpec => []ControlInv
<1>1. McpInit => ControlInv
  <2> SUFFICES ASSUME McpInit PROVE ControlInv
    OBVIOUS
  <2>1. Init /\ belief = [t \in Holders |-> Nothing]
    BY DEF McpInit, ControlInit
  <2>2. BeliefTyped
    BY <2>1 DEF BeliefTyped, BeliefRow, Nothing
  <2>3. HoldersHold
    BY <2>1, SessionAssumption DEF HoldersHold, Believes, Nothing
  <2> QED
    BY <2>1, <2>2, <2>3, InitWorkInv DEF ControlInv
<1>2. IInv /\ ControlInv /\ [McpNext]_mvars => ControlInv'
  <2> SUFFICES ASSUME IInv, ControlInv, [McpNext]_mvars
               PROVE  ControlInv'
    OBVIOUS
  <2>1. TypeOK /\ WorkInv' /\ TypeOK'
    BY JournalFacts
  <2>2. [ControlNext]_cvars
    BY GreetedKnows, McpUsesControl DEF IInv, ServerInv
  <2> QED
    BY <2>1, <2>2, StepBeliefTyped, StepHoldersHold DEF ControlInv
<1> QED
  BY <1>1, <1>2, IInvAlways, PTL DEF McpSpec

(* A holder whose take or renewal was answered within the lease has the    *)
(* session to itself, whatever agents, servers and openers do, if the wall *)
(* clock is not set back.                                                  *)
THEOREM FreshHoldersAreAlone ==
    ASSUME Monotone
    PROVE  McpSpec => []FreshHolderIsAlone
<1>1. ControlInv => FreshHolderIsAlone
  <2> SUFFICES ASSUME ControlInv, NEW t \in Holders, NEW s \in SessionIds,
                      Believes(t, s) /\ clock - belief[t].renewed <= LeaseSeconds
               PROVE  sessions[s].control_token = t /\ ~Busy(s)
    BY DEF FreshHolderIsAlone
  <2>1. Holds(t, s)
    BY DEF ControlInv, HoldersHold
  <2>2. ControlExcludesWork
    BY DEF ControlInv, WorkInv
  <2> QED
    BY <2>1, <2>2 DEF Holds, ControlExcludesWork, Controlled
<1> QED
  BY <1>1, ControlInvAlways, PTL

(* The types alone do for what a single step may do to control.            *)
LEMMA BeliefsAreTyped == McpSpec => [](IInv /\ BeliefTyped)
<1>1. McpInit => BeliefTyped
  BY DEF McpInit, ControlInit, BeliefTyped, BeliefRow, Nothing
<1>2. IInv /\ BeliefTyped /\ [McpNext]_mvars => BeliefTyped'
  <2> SUFFICES ASSUME IInv, BeliefTyped, [McpNext]_mvars PROVE BeliefTyped'
    OBVIOUS
  <2>1. TypeOK
    BY JournalFacts
  <2>2. [ControlNext]_cvars
    BY GreetedKnows, McpUsesControl DEF IInv, ServerInv
  <2> QED
    BY <2>1, <2>2, StepBeliefTyped
<1> QED
  BY <1>1, <1>2, IInvAlways, PTL DEF McpSpec

(* Control leaves a holder by its own release or after its lease lapsed.   *)
NotStolen ==
    \A s \in SessionIds, t \in Holders :
      /\ Controlled(s) /\ ~ControlLapsed(sessions[s])
      /\ sessions[s].control_token = t
      => \/ sessions'[s].control_token = t
         \/ Believes(t, s) /\ ~Believes(t, s)'

(* A take or renewal was answered Ok, to one holder. *)
Told(t, s) ==
    /\ belief'[t] = [session |-> s, renewed |-> clock]
    /\ \A u \in Holders \ {t} : belief'[u] = belief[u]

(* Only the holder of a session prolongs its lease. *)
LeaseIsOwn ==
    \A s \in SessionIds :
      /\ Controlled(s) /\ Controlled(s)'
      /\ sessions'[s].control_lease # sessions[s].control_lease
      => LET owner == sessions[s].control_token
         IN  /\ sessions'[s].control_token = owner
             /\ Believes(owner, s)
             /\ belief'[owner] = [session |-> s, renewed |-> clock]
             /\ \A t \in Holders \ {owner} : belief'[t] = belief[t]

(* What a step may do to a session that is controlled. *)
LEMMA ControlSteps ==
    ASSUME TypeOK, BeliefTyped, [ControlNext]_cvars, NEW s \in SessionIds, Controlled(s)
    PROVE  \/ sessions'[s] = sessions[s]
           \/ ControlLapsed(sessions[s]) /\ ~Controlled(s)'
           \/ \E t \in Holders :
                /\ Believes(t, s)
                /\ sessions[s].control_token = t
                /\ \/ sessions'[s].control_token = t /\ Told(t, s)
                   \/ ~Believes(t, s)' /\ ~Controlled(s)'
<1> DEFINE Goal ==
             \/ sessions'[s] = sessions[s]
             \/ ControlLapsed(sessions[s]) /\ ~Controlled(s)'
             \/ \E t \in Holders :
                  /\ Believes(t, s)
                  /\ sessions[s].control_token = t
                  /\ \/ sessions'[s].control_token = t /\ Told(t, s)
                     \/ ~Believes(t, s)' /\ ~Controlled(s)'
<1>0. /\ sessions \in [SessionIds -> SessionRow \cup {None}]
      /\ sessions[s] \in SessionRow
      /\ \A row \in SessionRow : ~Uncontrolled(row).user_controlled
  BY DEF TypeOK, Controlled, Uncontrolled, SessionRow
<1>1. ASSUME NEW u \in Holders, UserStep(u)
      PROVE  Goal
  <2>1. ASSUME NEW q \in SessionIds, UserTakes(u, q)
        PROVE  Goal
    BY <1>0, <2>1 DEF UserTakes, TakeSession
  <2>2. ASSUME NEW q \in SessionIds, UserRenews(u, q)
        PROVE  Goal
    <3>1. CASE q # s
      BY <1>0, <2>2, <3>1 DEF UserRenews, RenewSession
    <3>2. CASE q = s
      <4>1. sessions' = [sessions EXCEPT ![s] = [sessions[s] EXCEPT !.control_lease = clock]]
        BY <2>2, <3>2 DEF UserRenews, RenewSession
      <4>2. sessions'[s].control_token = sessions[s].control_token
        BY <1>0, <4>1 DEF SessionRow
      <4>3. Told(u, s)
        BY <2>2, <3>2 DEF UserRenews, Believes, BeliefTyped, BeliefRow, Told
      <4> QED
        BY <2>2, <3>2, <4>2, <4>3 DEF UserRenews, RenewSession
    <3> QED
      BY <3>1, <3>2
  <2>3. ASSUME NEW q \in SessionIds, UserReleases(u, q)
        PROVE  Goal
    <3>1. CASE q # s
      BY <1>0, <2>3, <3>1 DEF UserReleases, ReleaseSession
    <3>2. CASE q = s
      <4>1. sessions'[s] = Uncontrolled(sessions[s])
        BY <1>0, <2>3, <3>2 DEF UserReleases, ReleaseSession
      <4>2. ~Controlled(s)'
        BY <1>0, <4>1 DEF Controlled
      <4>3. ~Believes(u, s)'
        BY <2>3, SessionAssumption DEF UserReleases, Believes, BeliefTyped, Nothing
      <4> QED
        BY <2>3, <3>2, <4>2, <4>3 DEF UserReleases, ReleaseSession
    <3> QED
      BY <3>1, <3>2
  <2>4. CASE UNCHANGED jvars
    BY <2>4 DEF jvars
  <2> QED
    BY <1>1, <2>1, <2>2, <2>3, <2>4 DEF UserStep, UserIsRefused, UserDies
<1>2. CASE AgentStep
  <2>1. CASE TaskStep
    BY <2>1, TaskStepRewrites
  <2>2. ASSUME NEW q \in SessionIds, NEW d \in Devices, CreateSession(q, d)
        PROVE  Goal
    BY <1>0, <2>2 DEF CreateSession, Controlled
  <2>3. ASSUME NEW q \in SessionIds, NEW r \in RequestIds, NEW e \in Executions,
               ReserveTask(q, r, e)
        PROVE  Goal
    BY <2>3 DEF ReserveTask
  <2> QED
    BY <1>2, <2>1, <2>2, <2>3 DEF AgentStep
<1>3. CASE ExpireControls
  <2>1. CASE ControlLapsed(sessions[s])
    <3>1. sessions'[s] = Uncontrolled(sessions[s])
      BY <1>3, <2>1 DEF ExpireControls, Controlled
    <3> QED
      BY <1>0, <2>1, <3>1 DEF Controlled
  <2>2. CASE ~ControlLapsed(sessions[s])
    BY <1>3, <2>2 DEF ExpireControls
  <2> QED
    BY <2>1, <2>2
<1>4. CASE SweepStale \/ TimePasses \/ UNCHANGED cvars
  BY <1>4 DEF SweepStale, TimePasses, SetClock, cvars, jvars
<1>5. CASE \E u \in Holders : UserStep(u)
  <2>1. PICK u \in Holders : UserStep(u)
    BY <1>5
  <2> QED
    BY <1>1, <2>1
<1>6. \/ \E u \in Holders : UserStep(u)
      \/ AgentStep
      \/ ExpireControls
      \/ SweepStale \/ TimePasses \/ UNCHANGED cvars
  BY Zenon DEF ControlNext, Opens
<1> QED
  BY <1>2, <1>3, <1>4, <1>5, <1>6, Zenon

LEMMA ControlMoves ==
    ASSUME IInv, BeliefTyped, [McpNext]_mvars
    PROVE  NotStolen /\ LeaseIsOwn
<1>1. TypeOK /\ [ControlNext]_cvars
  BY GreetedKnows, McpUsesControl DEF IInv, ServerInv, WorkInv
<1>2. NotStolen
  BY <1>1, ControlSteps DEF NotStolen
<1>3. LeaseIsOwn
  BY <1>1, ControlSteps DEF LeaseIsOwn, Told
<1> QED
  BY <1>2, <1>3

(* Whatever servers, openers, other holders and late calls do, control     *)
(* leaves a token only by its holder's release or after its lease lapsed.  *)
THEOREM ControlStaysPut == McpSpec => ControlIsNotStolen
<1>1. IInv /\ BeliefTyped /\ [McpNext]_mvars => [NotStolen]_cvars
  BY ControlMoves
<1>2. McpSpec => [][NotStolen]_cvars
  BY <1>1, BeliefsAreTyped, PTL DEF McpSpec
<1> QED
  BY <1>2 DEF NotStolen, ControlIsNotStolen

(* When the lease of a controlled session changes, the control stays where *)
(* it is and it is the owner, and no other holder, who is answered Ok in   *)
(* that step (renew_session compares the token): a holder whose own lease  *)
(* lapsed never prolongs the next one's.                                   *)
THEOREM LeasesAreOwn == McpSpec => LeaseIsTheHolders
<1>1. IInv /\ BeliefTyped /\ [McpNext]_mvars => [LeaseIsOwn]_cvars
  BY ControlMoves
<1>2. McpSpec => [][LeaseIsOwn]_cvars
  BY <1>1, BeliefsAreTyped, PTL DEF McpSpec
<1> QED
  BY <1>2 DEF LeaseIsOwn, LeaseIsTheHolders

(***************************************************************************)
(* The text of a command: what the places that look at it agree on, for    *)
(* commands of every length.                                               *)
(***************************************************************************)

LEMMA CommandDomain ==
    ASSUME NEW command \in Commands
    PROVE  Len(command) \in Nat /\ DOMAIN command = 1 .. Len(command)
BY LenProperties DEF Commands

(* A command begins at one place. *)
LEMMA StartIsUnique ==
    ASSUME NEW command \in Commands,
           NEW i, NEW j, StartsAt(command, i), StartsAt(command, j)
    PROVE  i = j
<1>1. i \in 1 .. Len(command) /\ j \in 1 .. Len(command) /\ Len(command) \in Nat
  BY CommandDomain DEF StartsAt
<1>2. ~(i < j)
  BY <1>1 DEF StartsAt
<1>3. ~(j < i)
  BY <1>1 DEF StartsAt
<1> QED
  BY <1>1, <1>2, <1>3

(* The policy is asked again of what ssh is given: a command that was      *)
(* journalled passes there too, in either shell, so that no task stays     *)
(* accepted for ever because its worker refuses to send it.                *)
THEOREM AcceptedStaysDispatchable ==
    ASSUME NEW command \in Commands, NEW shell \in Shells,
           ~Rejected(command, shell)
    PROVE  ~ApprovalRequired(RemoteCommand(command, shell))
<1>1. CASE shell = "default"
  BY <1>1 DEF Rejected, RemoteCommand
<1>2. CASE shell = "powershell"
  <2> DEFINE remote == RemoteCommand(command, shell)
  <2>1. remote = <<"text", "space", "text", "space", "text", "space", "text",
                   "space", "text">>
    BY <1>2 DEF RemoteCommand
  <2>2. \A i \in 1 .. 9 : remote[i] # "sudo"
    BY <2>1
  <2>3. DOMAIN remote = 1 .. 9
    BY <2>1
  <2> QED
    BY <2>2, <2>3 DEF ApprovalRequired
<1> QED
  BY <1>1, <1>2 DEF Shells

(* White space before a command hides nothing from the policy. *)
THEOREM SpacesDoNotHideSudo ==
    ASSUME NEW command \in Commands
    PROVE  ApprovalRequired(<<"space">> \o command) <=> ApprovalRequired(command)
<1> DEFINE longer == <<"space">> \o command
<1>1. /\ Len(command) \in Nat
      /\ DOMAIN command = 1 .. Len(command)
      /\ command \in Seq(Lexemes)
  BY CommandDomain DEF Commands
<1>2. /\ Len(longer) = Len(command) + 1
      /\ DOMAIN longer = 1 .. Len(command) + 1
      /\ longer[1] = "space"
      /\ \A i \in 1 .. Len(command) : longer[i + 1] = command[i]
  <2>1. <<"space">> \in Seq(Lexemes) /\ Len(<<"space">>) = 1
    BY DEF Lexemes
  <2>2. /\ longer \in Seq(Lexemes)
        /\ Len(longer) = 1 + Len(command)
        /\ \A i \in 1 .. Len(longer) :
             longer[i] = IF i <= 1 THEN <<"space">>[i] ELSE command[i - 1]
    BY <1>1, <2>1, ConcatProperties
  <2>3. DOMAIN longer = 1 .. Len(longer)
    BY <2>2, LenProperties
  <2> HIDE DEF longer
  <2> QED
    BY <1>1, <2>2, <2>3
<1> HIDE DEF longer
<1>3. ASSUME NEW i \in DOMAIN longer
      PROVE  StartsAt(longer, i) <=> i # 1 /\ StartsAt(command, i - 1)
  <2>1. CASE i = 1
    BY <1>2, <2>1 DEF StartsAt
  <2>2. CASE i # 1
    <3>1. i - 1 \in 1 .. Len(command) /\ longer[i] = command[i - 1]
      BY <1>1, <1>2, <2>2
    <3>2. (\A j \in 1 .. i - 1 : longer[j] = "space")
            <=> \A j \in 1 .. i - 1 - 1 : command[j] = "space"
      <4>1. ASSUME \A j \in 1 .. i - 1 : longer[j] = "space",
                   NEW j \in 1 .. i - 1 - 1
            PROVE  command[j] = "space"
        <5>1. j + 1 \in 1 .. i - 1 /\ j \in 1 .. Len(command)
          BY <1>1, <3>1
        <5> QED
          BY <1>2, <4>1, <5>1
      <4>2. ASSUME \A j \in 1 .. i - 1 - 1 : command[j] = "space",
                   NEW j \in 1 .. i - 1
            PROVE  longer[j] = "space"
        <5>1. CASE j = 1
          BY <1>2, <5>1
        <5>2. CASE j # 1
          <6>1. j - 1 \in 1 .. i - 1 - 1 /\ j - 1 \in 1 .. Len(command)
            BY <1>1, <3>1, <5>2
          <6>2. longer[(j - 1) + 1] = command[j - 1]
            BY <1>2, <6>1
          <6> QED
            BY <4>2, <6>1, <6>2
        <5> QED
          BY <5>1, <5>2
      <4> QED
        BY <4>1, <4>2
    <3> QED
      BY <1>1, <1>2, <2>2, <3>1, <3>2 DEF StartsAt
  <2> QED
    BY <2>1, <2>2
<1>4. ASSUME ApprovalRequired(command)
      PROVE  ApprovalRequired(longer)
  <2>1. PICK i \in DOMAIN command :
          /\ StartsAt(command, i)
          /\ command[i] = "sudo"
          /\ i < Len(command) => command[i + 1] \in {"space", "delim"}
    BY <1>4 DEF ApprovalRequired
  <2>2. i + 1 \in DOMAIN longer /\ StartsAt(longer, i + 1)
    BY <1>1, <1>2, <1>3, <2>1
  <2>3. longer[i + 1] = "sudo"
    BY <1>1, <1>2, <2>1
  <2>4. ASSUME i + 1 < Len(longer)
        PROVE  longer[i + 1 + 1] \in {"space", "delim"}
    BY <1>1, <1>2, <2>1, <2>4
  <2> QED
    BY <2>2, <2>3, <2>4 DEF ApprovalRequired
<1>5. ASSUME ApprovalRequired(longer)
      PROVE  ApprovalRequired(command)
  <2>1. PICK i \in DOMAIN longer :
          /\ StartsAt(longer, i)
          /\ longer[i] = "sudo"
          /\ i < Len(longer) => longer[i + 1] \in {"space", "delim"}
    BY <1>5 DEF ApprovalRequired
  <2>2. i # 1 /\ StartsAt(command, i - 1)
    BY <1>3, <2>1
  <2>3. i - 1 \in 1 .. Len(command) /\ i \in Int
    BY <1>1, <1>2, <2>2 DEF StartsAt
  <2>4. command[i - 1] = "sudo"
    BY <1>2, <2>1, <2>3
  <2>5. ASSUME i - 1 < Len(command)
        PROVE  command[i - 1 + 1] \in {"space", "delim"}
    <3>1. i < Len(longer) /\ i \in 1 .. Len(command)
      BY <1>1, <1>2, <2>3, <2>5
    <3> QED
      BY <1>2, <2>1, <2>3, <3>1
  <2> QED
    BY <1>1, <2>2, <2>3, <2>4, <2>5 DEF ApprovalRequired
<1> QED
  BY <1>4, <1>5 DEF longer

=============================================================================
