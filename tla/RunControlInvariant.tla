------------------------ MODULE RunControlInvariant ------------------------
(***************************************************************************)
(* The inductive invariant of RunControl; RunControlProofs proves it.      *)
(***************************************************************************)
EXTENDS RunControl

AtRest      == {"Constructed", "Halted", "Stopped"}
Closing     == {"Stopping", "Halting"}
Changing    == {"destroy", "configure", "done"}
Completions == {"StartRun", "QueuesEmpty", "EndRun", "StopDone", "HaltDone"}

NoCompletion(q) == \A c \in Completions : c \notin Range(q)

AtMostOneCompletion(q) ==
  \A i, j \in 1 .. Len(q) : q[i] \in Completions /\ q[j] \in Completions => i = j

\* A completion that the FragmentProcessor has decided on and not yet processed.
Underway(c) == fpCommand = c \/ c \in Range(commandQueue)

\* In Running, and not on the way out of it.
InRunning == state \in RunningStates /\ entering \in RunningStates \cup {"none"}

Resting == state \in AtRest \/ entering \in AtRest

-----------------------------------------------------------------------------
(***************************************************************************)
(* The command queue holds at most one completion, and none while the      *)
(* FragmentProcessor is past its commands.                                 *)
(***************************************************************************)
CommandInv ==
  /\ fpCommand \in Completions \cup {"none"}
  /\ soap \in Seq(Commands \cup {"Reconfigure"})
  /\ fpCommand # "none" <=> fpPc = "enqueue"
  /\ entering # "none" <=> fpPc = "enter"
  /\ AtMostOneCompletion(commandQueue)
  /\ fpPc \notin {"commands", "enter"} => NoCompletion(commandQueue)

\* Where the machine can be while a completion is underway.
PlaceInv ==
  /\ entering # "none" => \E t \in Transitions : t[1] = state /\ t[3] = entering
  /\ fpPc \in {"distribute", "distributeStale"} => state = "Processing"
  /\ fpPc \in {"drain", "drainStale", "drained"} => state = "DrainingQueues"
  /\ Underway("StartRun") =>
       /\ state \in {"Starting", "Stopping", "Failed"}
       /\ entering \in {"none", "Stopping", "Failed"}
  /\ Underway("QueuesEmpty") =>
       /\ state \in {"DrainingQueues", "Stopping", "Halting", "Failed"}
       /\ entering \in {"none", "Stopping", "Halting", "Failed"}
  /\ Underway("EndRun") =>
       /\ state \in {"FinishingDQM", "Stopping", "Halting", "Failed"}
       /\ entering \in {"none", "Stopping", "Halting", "Failed"}
  /\ Underway("StopDone") =>
       state \in {"Stopping", "Failed"} /\ entering \in {"none", "Failed"}
  /\ Underway("HaltDone") =>
       state \in {"Halting", "Failed"} /\ entering \in {"none", "Failed"}

(***************************************************************************)
(* The streams, the request and the change under way, state by state.      *)
(***************************************************************************)
StreamInv ==
  /\ dwPc \in Changing => streamChangeInProgress
  /\ dwPc = "configure" => streams = 0 /\ dwTarget # 0
  /\ dwPc = "done" => streams = dwTarget
  /\ configurationIsNeeded => streamChangeIsNeeded /\ requestedRunNumber # 0
  /\ Resting => streams = 0 /\ ~streamChangeOngoing
  /\ state = "Starting" =>
       /\ run # 0
       /\ streamChangeIsNeeded => configurationIsNeeded /\ requestedRunNumber = run
       /\ dwPc \in Changing => dwTarget = run
       /\ ~streamChangeOngoing => streams = run
  /\ state = "Starting" /\ Underway("StartRun") => ~streamChangeOngoing
  /\ state \in RunningStates \/ entering = "Processing" =>
       run # 0 /\ streams = run /\ ~streamChangeOngoing
  /\ InRunning => selectors = run
  /\ state \in Closing =>
       /\ ~configurationIsNeeded
       /\ dwPc \in Changing /\ ~streamChangeIsNeeded => dwTarget = 0
       /\ ~streamChangeOngoing => streams = 0
  /\ state \in Closing /\ (Underway("StopDone") \/ Underway("HaltDone")) =>
       ~streamChangeOngoing

\* What run control sees in each state, and while streams are being opened.
VisibleInv ==
  /\ state \in {"Constructed", "Halted"} => visible = "Halted"
  /\ state \in {"Stopped", "Starting"} => visible = "Ready"
  /\ state \in RunningStates \cup {"Halting"} => visible = "Enabled"
  /\ state = "Stopping" => visible \in {"Ready", "Enabled"}
  /\ state = "Failed" => visible = "Failed"
  /\ configurationIsNeeded => visible \in {"Ready", "Failed"}
  /\ dwPc \in {"destroy", "configure"} /\ dwTarget # 0 => visible \in {"Ready", "Failed"}

(***************************************************************************)
(* The DQM event store is empty once a request of Stopping or Halting has  *)
(* been served, and nothing is left that could fill it.                    *)
(***************************************************************************)
DQMInv ==
  /\ requestsPending => pendingRequests # {}
  /\ dqmPc = "serve" => requestsInProgress /\ dqmTaken # {}
  /\ dqmEventQueue # <<>> => InRunning
  /\ Resting => ~requestsOngoing /\ dqmEventStore = {} /\ dqmPc # "add"
  /\ state \in Closing /\ ~requestsPending =>
       /\ dqmPc # "add"
       /\ ~requestsInProgress => dqmEventStore = {}
  /\ state \in Closing /\ (Underway("StopDone") \/ Underway("HaltDone")) =>
       ~requestsOngoing

\* The stream queue holds no event.
NoEventQueued == \A item \in Range(streamQueue) : item.event = 0

(***************************************************************************)
(* Where the events of the current run are, and that none is left when     *)
(* DrainingQueues has seen so.                                             *)
(***************************************************************************)
EventInv ==
  /\ store # {} => InRunning
  /\ \A item \in Range(streamQueue) : item.event # 0 => InRunning /\ item.run = run
  /\ dwItem.event # 0 =>
       /\ dwPc \in {"popped", "write"}
       /\ dwItem.run = streams
       /\ state \in RunningStates \/ streamChangeIsNeeded
  /\ fpEvent # 0 <=> fpPc \in {"distribute", "distributeStale", "drainStale"}
  /\ \/ fpPc = "drained"
     \/ state = "DrainingQueues" /\ Underway("QueuesEmpty")
     \/ state = "FinishingDQM" \/ entering = "FinishingDQM"
     => NoEventQueued /\ store = {}

\* What the streams, or a queue, hold of <<event, run>>.
Entry(q) == [event |-> q[1], run |-> q[2]]

\* No event that was handed to the DiskWriter is forgotten.
QueuedInv ==
  /\ written \subseteq queued
  /\ queued \subseteq EventIds \X Nat
  /\ \A item \in EventsUnderway : <<item.event, item.run>> \in queued
  /\ \A q \in queued :
       \/ q \in written \/ q[1] \in lost \/ q[2] \in aborted
       \/ Entry(q) \in Range(streamQueue) \cup {dwItem}

\* No accepted event is forgotten, and its kind is settled.
AcceptedInv ==
  /\ accepted \subseteq EventIds \X Nat
  /\ \A f \in Range(fragmentQueue) : sent[f.event] # "none"
  /\ \A a \in accepted : sent[a[1]] # "none"
  /\ \A a \in accepted : eventKind[a[1]] = "stream" =>
       \/ a \in queued \/ a[1] \in lost \/ a[2] \in aborted
       \/ a[2] = run /\ a[1] \in store \cup {fpEvent}

IInv ==
  /\ TypeOK /\ CommandInv /\ PlaceInv /\ StreamInv /\ VisibleInv /\ DQMInv
  /\ EventInv /\ QueuedInv /\ AcceptedInv
=============================================================================
