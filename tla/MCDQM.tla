------------------------------- MODULE MCDQM -------------------------------
(* Instances of DQMCollation for TLC. *)
EXTENDS DQMCollation

CONSTANTS c1

MCLumiSections == {1, 3}
MCConsumers == {c1}
=============================================================================
