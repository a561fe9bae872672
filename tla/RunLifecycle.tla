---------------------------- MODULE RunLifecycle ----------------------------
(***************************************************************************)
(* What the StorageManager promises run control: between the visible       *)
(* states Halted, Ready, Enabled and Failed a run is opened before it      *)
(* becomes visible, and is closed again, all of its output files and DQM   *)
(* data with it, before the next resting state is reported.  Only a        *)
(* failure may be reported with a run still open.                          *)
(***************************************************************************)
EXTENDS Naturals

VARIABLES
  visible,  \* the state shown to run control
  open      \* the run whose output streams exist, 0 when there is none

vars == <<visible, open>>

Init == visible = "Halted" /\ open = 0

\* Reconfiguring and halting are for a machine at rest.
Rest ==
  /\ visible \in {"Halted", "Ready"} /\ open = 0
  /\ visible' \in {"Halted", "Ready"}
  /\ UNCHANGED open

\* A run is opened behind the visible state Ready.
OpenRun ==
  /\ visible \in {"Ready", "Failed"}
  /\ open' \in Nat \ {0}
  /\ UNCHANGED visible

BeginRun ==
  /\ visible = "Ready" /\ open # 0
  /\ visible' = "Enabled"
  /\ UNCHANGED open

\* Closing takes place behind any visible state.
CloseRun ==
  /\ open # 0
  /\ open' = 0
  /\ UNCHANGED visible

EndRun ==
  /\ visible = "Enabled" /\ open = 0
  /\ visible' \in {"Ready", "Halted"}
  /\ UNCHANGED open

Fail ==
  /\ visible' = "Failed"
  /\ UNCHANGED open

Next == Rest \/ OpenRun \/ BeginRun \/ CloseRun \/ EndRun \/ Fail

Spec == Init /\ [][Next]_vars
=============================================================================
