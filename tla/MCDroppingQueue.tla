-------------------------- MODULE MCDroppingQueue --------------------------
(***************************************************************************)
(* An instance of ConcurrentQueue that drops items.  Each enqueuing        *)
(* operation follows either of the two policies, which covers the queues   *)
(* of each: Policy stands for both in the properties, which only tell      *)
(* "FailIfFull" apart.                                                     *)
(***************************************************************************)
EXTENDS MCConcurrentQueue

RejectNewest == INSTANCE ConcurrentQueue WITH Policy <- "RejectNewest"

EitherNext == Next \/ \E p \in Producers : RejectNewest!Produce(p)

EitherSpec == Init /\ [][EitherNext]_vars
=============================================================================
