---------------------------- MODULE MCConsumers ----------------------------
(***************************************************************************)
(* Small sets of consumers and registrations for ConsumerServing.          *)
(***************************************************************************)
EXTENDS ConsumerServing, TLC

CONSTANTS c1, c2, physics

\* Two kinds of events; a selection is the set of kinds it wants.
MCTriggerBits == {"muon", "jet"}
MCSelects(selection, bits) == bits \in selection

Muons == [label |-> physics, selection |-> {"muon"}, policy |-> "DiscardNew", size |-> 1,
          prescale |-> 1, unique |-> FALSE]
Everything == [Muons EXCEPT !.selection = MCTriggerBits]
UniqueMuons == [Muons EXCEPT !.unique = TRUE, !.policy = "DiscardOld"]
Prescaled == [Everything EXCEPT !.prescale = 2]

MCInfos == {Muons, Everything, UniqueMuons, Prescaled}

\* What the two consumers ask for, and how much may happen.
Bounds(runs, ids, n, replies) ==
  [runs |-> runs, consumers |-> ids, events |-> n, lostReplies |-> replies]
Cases ==
  {<<Muons, Everything, Bounds(2, 2, 1, 0)>>, <<Muons, Everything, Bounds(1, 2, 2, 0)>>,
   <<UniqueMuons, UniqueMuons, Bounds(2, 2, 1, 0)>>,
   <<UniqueMuons, UniqueMuons, Bounds(1, 3, 2, 1)>>, <<UniqueMuons, Prescaled, Bounds(1, 2, 2, 0)>>}

Asking(info1, info2) == c1 :> info1 @@ c2 :> info2

CasesInit == \E case \in Cases : InitWith(Asking(case[1], case[2]), case[3])
FairCasesSpec == CasesInit /\ [][Next]_vars /\ Fairness

\* Consumers over two runs: QueueIdsDoNotOutliveTheirQueues fails.
SharedOverRunsSpec ==
  InitWith(Asking(UniqueMuons, UniqueMuons), Bounds(2, 2, 2, 0)) /\ [][Next]_vars
MuonsOverRunsSpec == InitWith(Asking(Muons, Everything), Bounds(2, 3, 2, 0)) /\ [][Next]_vars
\* Two consumers that get the same events: WrittenCountIsItsOwn fails.
TwoConsumersSpec == InitWith(Asking(Muons, Everything), Bounds(1, 2, 2, 0)) /\ [][Next]_vars
=============================================================================
