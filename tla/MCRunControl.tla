---------------------------- MODULE MCRunControl ----------------------------
(* Instances of RunControl for TLC. *)
EXTENDS RunControl

AllCommands == Commands

\* The commands of a run that is stopped, and those that also cut it short.
StopCommands == {"Configure", "Enable", "Stop"}
HaltCommands == StopCommands \cup {"Halt"}
=============================================================================
