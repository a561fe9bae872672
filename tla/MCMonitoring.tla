---------------------------- MODULE MCMonitoring ----------------------------
(* Instances of ResourceMonitoring for TLC. *)
EXTENDS ResourceMonitoring

CONSTANTS data, lookarea, satab, module1

\* Changes around two entries into Ready and a begin of run, and around one entry; events
\* that nobody selects, around a begin of run.
MCBudgets ==
  {[changes |-> 2, configures |-> 2, resets |-> 1, unwanted |-> 0],
   [changes |-> 0, configures |-> 1, resets |-> 1, unwanted |-> 4]}
=============================================================================
