---------------------------- MODULE CommandPolicy ----------------------------
(***************************************************************************)
(* What becomes of the text of a command on its way to ssh: the literal    *)
(* sudo guard (check_command_policy of src/lib.rs), the validation before  *)
(* it is journalled (reserve_task_with_shell of src/tasks.rs), the shell   *)
(* it is wrapped for (remote_command of src/ssh.rs) and the hook that an   *)
(* agent runs before it calls the exec tool (src/hook.rs).                 *)
(*                                                                         *)
(* A command is a sequence of lexemes: "space" is one white space          *)
(* character, "sudo" the four letters, "delim" one of ; | & < > ( ), "nul" *)
(* the character NUL, and "text" a longest run of anything else.  Limits   *)
(* of length are left out: a command that exceeds one is never journalled. *)
(***************************************************************************)
EXTENDS Integers, Sequences

Lexemes == {"space", "sudo", "delim", "nul", "text"}
Commands == Seq(Lexemes)
Shells == {"default", "powershell"}

-----------------------------------------------------------------------------
(* trim_start leaves the text from position i on. *)
StartsAt(command, i) ==
    /\ i \in DOMAIN command
    /\ command[i] # "space"
    /\ \A j \in 1 .. i - 1 : command[j] = "space"

(* check_command_policy answers ApprovalRequired. *)
ApprovalRequired(command) ==
    \E i \in DOMAIN command :
      /\ StartsAt(command, i)
      /\ command[i] = "sudo"
      /\ i < Len(command) => command[i + 1] \in {"space", "delim"}

Blank(command) == \A i \in DOMAIN command : command[i] = "space"

HasNul(command) == \E i \in DOMAIN command : command[i] = "nul"

(* The checks of remote_command and of the validation after it. *)
Rejected(command, shell) ==
    \/ ApprovalRequired(command)
    \/ shell \notin Shells
    \/ Blank(command)
    \/ HasNul(command)

(* What ssh is given: PowerShell reads the command in an encoded argument. *)
RemoteCommand(command, shell) ==
    IF shell = "default"
      THEN command
      ELSE <<"text", "space", "text", "space", "text", "space", "text", "space", "text">>

(* The PreToolUse answer to a call of exec; no identifier is empty too. *)
HookDenies(command, no_request_id) == ApprovalRequired(command) \/ no_request_id

=============================================================================
