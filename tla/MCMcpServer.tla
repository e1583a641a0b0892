----------------------------- MODULE MCMcpServer -----------------------------
(* McpServer with three commands: one that is accepted in either shell,    *)
(* and one that needs approval.                                            *)
EXTENDS McpServer

Run == [command |-> <<"text">>, shell |-> "default"]
RunInPowerShell == [command |-> <<"text">>, shell |-> "powershell"]
Sudo == [command |-> <<"space", "sudo", "space", "text">>, shell |-> "default"]

MCExecutions == {Run, RunInPowerShell, Sudo}
MCRefused == {Sudo}

=============================================================================
