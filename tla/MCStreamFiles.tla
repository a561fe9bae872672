--------------------------- MODULE MCStreamFiles ---------------------------
(***************************************************************************)
(* An instance of StreamFiles for TLC.  The budget is spent in one of      *)
(* several ways, chosen at the start: late events and two runs; files that *)
(* grow too large; a disk that fails; a disk that loses data.              *)
(***************************************************************************)
EXTENDS StreamFiles

MCStreams == <<"F", "A", "B">>
MCKind == [F |-> "faulty", A |-> "event", B |-> "event"]

Budget(runs, events, eols, ages, faults, losses) ==
  [runs |-> runs, events |-> events, eols |-> eols, ages |-> ages,
   faults |-> faults, losses |-> losses, diskIsFine |-> TRUE]

Budgets ==
  {Budget(2, 2, 2, 0, 0, 0), Budget(1, 3, 0, 0, 1, 0), Budget(1, 2, 1, 0, 1, 0),
   Budget(1, 2, 0, 2, 1, 0), Budget(1, 2, 0, 1, 0, 1)}

CasesInit == \E budget \in Budgets : InitWith(budget)
CasesSpec == CasesInit /\ [][Next]_vars
FairCasesSpec == CasesSpec /\ WF_vars(DiskWriter) /\ WF_vars(timedOut)
=============================================================================
