--------------------------- MODULE SessionContract ---------------------------
(***************************************************************************)
(* What reaches a browser of what its owner and its user wrote: the launch *)
(* of one session, from the environment of the service on, and one command *)
(* of a task for it.  The environments and profiles of LaunchOptions meet  *)
(* one command, and the commands of CommandContract one environment: the   *)
(* options of a browser do not change how a command is read.               *)
(***************************************************************************)
EXTENDS LaunchOptions, CommandContract

vars == <<launchVars, commandVars>>

(* Nothing is set in it, and nothing has to be. *)
PlainCommand == [op |-> "reload", payload |-> [wait_until |-> "UNSPECIFIED", timeout |-> "absent"]]

Init ==
    \/ command = PlainCommand /\ LaunchInit /\ CommandInit
    \/ env = PlainEnv /\ profile = PlainProfile /\ LaunchInit /\ CommandInit

(* The process checks commands while it serves,                            *)
Check ==
    /\ launch \in {"serving", "launched"} /\ validateCommands
    /\ UNCHANGED launchVars

(* and executes them in the page of a session.                             *)
Execute ==
    /\ launch = "launched" /\ execute_command
    /\ UNCHANGED launchVars

Next ==
    \/ LaunchNext /\ UNCHANGED commandVars
    \/ Check
    \/ Execute

Spec == Init /\ [][Next]_vars
=============================================================================
