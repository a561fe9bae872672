----------------------------- MODULE RunControl -----------------------------
(***************************************************************************)
(* A run from Configure to Halt: the state machine (StateMachine.h and one *)
(* .cc per state), the FragmentProcessor thread that drives it, the        *)
(* DiskWriter and DQMEventProcessor threads that it asks to open and close *)
(* their streams and store, and the queues between them.                   *)
(*                                                                         *)
(* A run is named by its number.  An event is named by a number as well    *)
(* and comes in one fragment or in two.  A blocking enqueue is an action   *)
(* that is enabled while there is room (see ConcurrentQueue).              *)
(***************************************************************************)
EXTENDS Integers, Sequences, FiniteSets, Functions

CONSTANTS
  SoapCommands,     \* the commands run control sends
  MaxCommands,      \* bound: commands sent
  Kinds,            \* kinds of event: "stream" (DATA, ERROR) or "dqm"
  MaxEvents,        \* bound: events sent by the filter units
  MaxParts,         \* an event has one fragment, or up to this number (2)
  MaxEoLS,          \* bound: end-of-lumi-section messages
  CommandCapacity, FragmentCapacity, StreamCapacity, DQMCapacity,
  StoreCapacity,    \* incomplete events that fill the fragment store
  Faults,           \* which operations may throw
  MaxFaults         \* bound: exceptions thrown

Commands == {"Configure", "Enable", "Stop", "Halt", "EmergencyStop"}

ASSUME CommandAssumption == SoapCommands \subseteq Commands /\ MaxCommands \in Nat
ASSUME EventAssumption ==
  /\ Kinds \subseteq {"stream", "dqm"}
  /\ MaxEvents \in Nat /\ MaxParts \in {1, 2} /\ MaxEoLS \in Nat
ASSUME CapacityAssumption ==
  /\ CommandCapacity \in Nat \ {0}
  /\ FragmentCapacity \in Nat \ {0}
  /\ StreamCapacity \in Nat \ {0}
  /\ DQMCapacity \in Nat \ {0}
  /\ StoreCapacity \in Nat
ASSUME FaultAssumption ==
  /\ Faults \subseteq {"entry", "streams", "write", "lookup", "dqm"}
  /\ MaxFaults \in Nat

VARIABLES
  \* the state machine and the FragmentProcessor thread
  state,            \* the innermost active state
  entering,         \* the state about to be entered, "none" outside a transition
  visible,          \* externallyVisibleState_
  fpPc,             \* where the FragmentProcessor is
  fpEvent,          \* the event it is distributing
  fpCommand,        \* the state machine event it is about to enqueue
  run,              \* the configured run number
  selectors,        \* the run whose stream selectors the EventDistributor holds
  \* queues and store
  commandQueue, fragmentQueue, store, streamQueue, dqmEventQueue,
  \* the DiskWriter thread and DiskWriterResources
  dwPc, dwItem, dwTarget,
  streams,          \* the run streamHandlers_ are configured for, 0 for none
  configurationIsNeeded, streamChangeIsNeeded, streamChangeInProgress,
  requestedRunNumber, diskWriterIsBusy,
  \* the DQMEventProcessor thread and DQMEventProcessorResources
  dqmPc, dqmItem, dqmTaken,
  dqmEventStore,    \* the runs of which the store holds DQM events
  pendingRequests, requestsPending, requestsInProgress,
  \* the environment
  soap,             \* state machine events the SOAP handler has yet to enqueue
  commandsSent, eventKind, sent, eolsSent, faults,
  \* history
  accepted,         \* <<event, run>> of which a fragment was processed
  queued,           \* <<event, run>> handed to the DiskWriter
  written,          \* <<event, run>> written to the streams of that run
  lost,             \* events an exception has lost
  discarded,        \* events for which a discard message was sent
  promised,         \* events in the fragment queue when Stop was received
  disregarded,      \* events of which a fragment was dropped on arrival
  aborted           \* runs cut short by Halt, EmergencyStop or Fail

machine == <<state, entering, visible, run, selectors>>
fp      == <<fpPc, fpEvent, fpCommand>>
dw      == <<dwPc, dwItem, dwTarget, streams>>
dwr     == <<configurationIsNeeded, streamChangeIsNeeded, streamChangeInProgress,
             requestedRunNumber, diskWriterIsBusy>>
dqm     == <<dqmPc, dqmItem, dqmTaken, dqmEventStore>>
dqmr    == <<pendingRequests, requestsPending, requestsInProgress>>
senders == <<soap, commandsSent, eventKind, sent, eolsSent>>
history == <<accepted, queued, written, lost, discarded, promised, disregarded, aborted>>
vars == <<machine, fp, commandQueue, fragmentQueue, store, streamQueue, dqmEventQueue,
          dw, dwr, dqm, dqmr, senders, faults, history>>

-----------------------------------------------------------------------------
(* The state machine *)

RunningStates == {"Processing", "DrainingQueues", "FinishingDQM"}
EnabledStates == RunningStates \cup {"Starting", "Stopping", "Halting"}
ReadyStates   == EnabledStates \cup {"Stopped"}
NormalStates  == ReadyStates \cup {"Constructed", "Halted"}
States        == NormalStates \cup {"Failed"}

InternalEvents ==
  {"Reconfigure", "StartRun", "QueuesEmpty", "EndRun", "StopDone", "HaltDone", "Fail"}
MachineEvents == Commands \cup InternalEvents

\* <<state, event, target>>: what the innermost reaction of each state comes to.
Transitions ==
  (NormalStates \X {"Fail"} \X {"Failed"})
  \cup ({"Constructed", "Halted"} \X {"Configure"} \X {"Stopped"})
  \cup (RunningStates \X {"Halt"} \X {"Halting"})
  \cup (RunningStates \X {"EmergencyStop"} \X {"Stopping"})
  \cup { <<"Stopped", "Reconfigure", "Stopped">>,
         <<"Stopped", "Halt", "Halted">>,
         <<"Stopped", "Enable", "Starting">>,
         <<"Starting", "StartRun", "Processing">>,
         <<"Starting", "EmergencyStop", "Stopping">>,
         <<"Processing", "Stop", "DrainingQueues">>,
         <<"DrainingQueues", "QueuesEmpty", "FinishingDQM">>,
         <<"FinishingDQM", "EndRun", "Stopping">>,
         <<"Stopping", "StopDone", "Stopped">>,
         <<"Halting", "HaltDone", "Halted">> }

\* Leaving Running clears the queues and the fragment store; leaving Enabled
\* clears the stream selections.
exitActions(target) ==
  /\ IF state \in RunningStates /\ target \notin RunningStates
     THEN /\ fragmentQueue' = <<>>
          /\ streamQueue' = <<>>
          /\ dqmEventQueue' = <<>>
          /\ store' = {}
     ELSE UNCHANGED <<fragmentQueue, streamQueue, dqmEventQueue, store>>
  /\ selectors' = IF state \in EnabledStates /\ target \notin EnabledStates
                  THEN 0 ELSE selectors

\* processAllCommands: one event taken from the command queue.
processCommand ==
  /\ fpPc = "commands"
  /\ commandQueue # <<>>
  /\ commandQueue' = Tail(commandQueue)
  /\ LET reactions == {t \in Transitions : t[1] = state /\ t[2] = Head(commandQueue)}
     IN  \/ /\ reactions = {}
            /\ UNCHANGED <<entering, fpPc, selectors, fragmentQueue, streamQueue,
                           dqmEventQueue, store, aborted>>
         \/ \E t \in reactions :
              /\ exitActions(t[3])
              /\ entering' = t[3]
              /\ fpPc' = "enter"
              /\ aborted' = IF state \in RunningStates /\ t[2] \in {"Halt", "EmergencyStop", "Fail"}
                            THEN aborted \cup {run} ELSE aborted
  /\ UNCHANGED <<state, visible, run, fpEvent, fpCommand, dw, dwr, dqm, dqmr, senders,
                 faults, accepted, queued, written, lost, discarded, promised, disregarded>>

\* DiskWriterResources and DQMEventProcessorResources: the requests.
requestStreamConfiguration(r) ==
  /\ configurationIsNeeded' = TRUE
  /\ streamChangeIsNeeded' = TRUE
  /\ requestedRunNumber' = r
  /\ UNCHANGED <<streamChangeInProgress, diskWriterIsBusy>>

\* Faulty variants of an operation (here and below, named ...Bug): each is what a
\* property of a run is there to catch.  Here: a configuration requested before stays
\* requested.
requestStreamDestructionBug ==
  /\ streamChangeIsNeeded' = TRUE
  /\ UNCHANGED <<configurationIsNeeded, requestedRunNumber, streamChangeInProgress,
                 diskWriterIsBusy>>

requestStreamDestruction ==
  /\ configurationIsNeeded' = FALSE
  /\ streamChangeIsNeeded' = TRUE
  /\ UNCHANGED <<requestedRunNumber, streamChangeInProgress, diskWriterIsBusy>>

requestConfiguration ==
  /\ pendingRequests' = {"configuration"}
  /\ requestsPending' = TRUE
  /\ UNCHANGED requestsInProgress

requestEndOfRun ==
  /\ pendingRequests' = pendingRequests \cup {"endOfRun"}
  /\ requestsPending' = TRUE
  /\ UNCHANGED requestsInProgress

requestStoreDestruction ==
  /\ pendingRequests' = {"storeDestruction"}
  /\ requestsPending' = TRUE
  /\ UNCHANGED requestsInProgress

Throws(fault) ==
  /\ fault \in Faults
  /\ faults < MaxFaults
  /\ faults' = faults + 1

CommandQueueFull == Len(commandQueue) >= CommandCapacity

\* moveToFailedState in the thread that empties the command queue: its timed
\* wait cannot be satisfied, so a Fail that finds no room is given up.
failHere ==
  commandQueue' = IF CommandQueueFull THEN commandQueue ELSE Append(commandQueue, "Fail")

\* The run is announced before it is open.
externallyVisibleStateBug(entered) ==
  CASE entered = "Halted"                   -> "Halted"
    [] entered = "Stopped"                  -> "Ready"
    [] entered \in {"Starting", "Processing"} -> "Enabled"
    [] entered = "Failed"                   -> "Failed"
    [] OTHER                                -> visible

\* What an entry action makes run control see; the others leave it as it is.
externallyVisibleState(entered) ==
  CASE entered = "Halted"     -> "Halted"
    [] entered = "Stopped"    -> "Ready"
    [] entered = "Processing" -> "Enabled"
    [] entered = "Failed"     -> "Failed"
    [] OTHER                  -> visible

\* The entry actions of the target and of the outer states entered with it.
enterState ==
  /\ fpPc = "enter"
  /\ state' = entering
  /\ entering' = "none"
  /\ fpPc' = "commands"
  /\ visible' = externallyVisibleState(entering)
  /\ run' = IF entering = "Starting" THEN run + 1 ELSE run
  /\ selectors' = IF entering = "Processing" THEN run ELSE selectors
  /\ \/ entering = "Starting" /\ requestStreamConfiguration(run + 1)
     \/ entering \in {"Stopping", "Halting", "Failed"} /\ requestStreamDestruction
     \/ entering \notin {"Starting", "Stopping", "Halting", "Failed"} /\ UNCHANGED dwr
  /\ \/ entering = "Starting" /\ requestConfiguration
     \/ entering = "FinishingDQM" /\ requestEndOfRun
     \/ entering \in {"Stopping", "Halting"} /\ requestStoreDestruction
     \/ /\ entering \notin {"Starting", "FinishingDQM", "Stopping", "Halting"}
        /\ UNCHANGED dqmr
  /\ \/ UNCHANGED <<commandQueue, faults>>
     \/ /\ entering = "Stopped" /\ state \notin EnabledStates  \* into Ready
        /\ Throws("entry")
        /\ failHere
  /\ UNCHANGED <<fpEvent, fpCommand, fragmentQueue, store, streamQueue, dqmEventQueue,
                 dw, dqm, senders, history>>

-----------------------------------------------------------------------------
(* The FragmentProcessor: commands, then one fragment if possible *)

\* processAllCommands has found the queue empty.  With the fragment store or the
\* stream queue full the thread sleeps and comes back to the commands.
processOneFragmentIfPossible ==
  /\ fpPc = "commands"
  /\ commandQueue = <<>>
  /\ ~(Cardinality(store) >= StoreCapacity \/ Len(streamQueue) >= StreamCapacity)
  /\ fpPc' = "fragment"
  /\ UNCHANGED <<machine, fpEvent, fpCommand, commandQueue, fragmentQueue, store, streamQueue,
                 dqmEventQueue, dw, dwr, dqm, dqmr, senders, faults, history>>

\* FragmentStore::addFragment: whole events and second halves are complete.
Completes(f) == f.whole \/ f.event \in store

\* processI2OFragment: only Processing does not drop the fragment.  Every 100th
\* fragment that completes nothing is followed by noFragmentToProcess.
processI2OFragment ==
  /\ fpPc = "fragment"
  /\ fragmentQueue # <<>>
  /\ fragmentQueue' = Tail(fragmentQueue)
  /\ accepted' = IF state = "Processing"
                 THEN accepted \cup {<<Head(fragmentQueue).event, run>>} ELSE accepted
  /\ LET f == Head(fragmentQueue)
     IN  \/ /\ state # "Processing"
            /\ disregarded' = disregarded \cup {f.event}
            /\ fpPc' = "commands"
            /\ UNCHANGED <<store, fpEvent>>
         \/ /\ state = "Processing" /\ Completes(f)
            /\ store' = IF f.whole THEN store ELSE store \ {f.event}
            /\ fpEvent' = f.event
            /\ fpPc' = "distribute"
            /\ UNCHANGED disregarded
         \/ /\ state = "Processing" /\ ~Completes(f)
            /\ store' = store \cup {f.event}
            /\ fpPc' \in {"commands", "idle"}
            /\ UNCHANGED <<fpEvent, disregarded>>
  /\ UNCHANGED <<machine, fpCommand, commandQueue, streamQueue, dqmEventQueue, dw, dwr, dqm,
                 dqmr, senders, faults, queued, written, lost, discarded, promised, aborted>>

\* addEventToRelevantQueues.  The DQM queue keeps the newest events; a faulty
\* event only ever goes to a stream.
addEventToRelevantQueues(e, faulty) ==
  \/ /\ eventKind[e] = "stream"
     /\ Len(streamQueue) < StreamCapacity
     /\ streamQueue' = Append(streamQueue, [event |-> e, run |-> selectors])
     /\ queued' = queued \cup {<<e, selectors>>}
     /\ UNCHANGED dqmEventQueue
  \/ /\ eventKind[e] = "dqm"
     /\ dqmEventQueue' = IF faulty THEN dqmEventQueue
                         ELSE IF Len(dqmEventQueue) < DQMCapacity
                              THEN Append(dqmEventQueue, selectors)
                              ELSE Append(Tail(dqmEventQueue), selectors)
     /\ UNCHANGED <<streamQueue, queued>>

\* The resource broker is told, or its look-up fails: the exception ends this
\* round of processMessages and raises an alarm.
sendDiscardMessage(e) ==
  /\ discarded' = discarded \cup {e}
  /\ UNCHANGED faults

\* Discarded first: an event whose look-up fails is not queued.
distributeBug ==
  /\ fpPc = "distribute"
  /\ \/ addEventToRelevantQueues(fpEvent, FALSE) /\ sendDiscardMessage(fpEvent)
     \/ Throws("lookup") /\ UNCHANGED <<streamQueue, dqmEventQueue, queued, discarded>>
  /\ fpPc' = "commands"
  /\ fpEvent' = 0
  /\ UNCHANGED <<machine, fpCommand, commandQueue, fragmentQueue, store, dw, dwr, dqm, dqmr,
                 senders, accepted, written, lost, promised, disregarded, aborted>>

\* A complete event is queued, then discarded.
distribute ==
  /\ fpPc = "distribute"
  /\ addEventToRelevantQueues(fpEvent, FALSE)
  /\ \/ sendDiscardMessage(fpEvent)
     \/ Throws("lookup") /\ UNCHANGED discarded
  /\ fpPc' = "commands"
  /\ fpEvent' = 0
  /\ UNCHANGED <<machine, fpCommand, commandQueue, fragmentQueue, store, dw, dwr, dqm, dqmr,
                 senders, accepted, written, lost, promised, disregarded, aborted>>

\* A stale event is taken from the store and discarded, then queued as faulty: one
\* whose look-up fails is lost.
takeStaleEvent(e, next) ==
  /\ store' = store \ {e}
  /\ \/ /\ sendDiscardMessage(e)
        /\ fpEvent' = e
        /\ fpPc' = next
        /\ UNCHANGED lost
     \/ /\ Throws("lookup")
        /\ fpPc' = "commands"
        /\ lost' = lost \cup {e}
        /\ UNCHANGED <<fpEvent, discarded>>

distributeStale ==
  /\ fpPc \in {"distributeStale", "drainStale"}
  /\ addEventToRelevantQueues(fpEvent, TRUE)
  /\ fpPc' = IF fpPc = "drainStale" THEN "drain" ELSE "commands"
  /\ fpEvent' = 0
  /\ UNCHANGED <<machine, fpCommand, commandQueue, fragmentQueue, store, dw, dwr, dqm, dqmr,
                 senders, faults, accepted, written, lost, discarded, promised, disregarded, aborted>>

\* deqTimedWait has timed out.
noFragment ==
  /\ fpPc = "fragment"
  /\ fragmentQueue = <<>>
  /\ fpPc' = "idle"
  /\ UNCHANGED <<machine, fpEvent, fpCommand, commandQueue, fragmentQueue, store, streamQueue,
                 dqmEventQueue, dw, dwr, dqm, dqmr, senders, faults, history>>

streamChangeOngoing == streamChangeIsNeeded \/ streamChangeInProgress
requestsOngoing     == requestsPending \/ requestsInProgress

\* Only the DQMEventProcessor is asked whether it is done.
CompletionBug ==
  CASE state = "Starting"     /\ ~requestsOngoing -> "StartRun"
    [] state = "FinishingDQM" /\ ~requestsOngoing -> "EndRun"
    [] state = "Stopping"     /\ ~requestsOngoing -> "StopDone"
    [] state = "Halting"      /\ ~requestsOngoing -> "HaltDone"
    [] OTHER -> "none"

\* What the thread posts to itself once the others are done.
Completion ==
  CASE state = "Starting"     /\ ~streamChangeOngoing /\ ~requestsOngoing -> "StartRun"
    [] state = "FinishingDQM" /\ ~requestsOngoing                         -> "EndRun"
    [] state = "Stopping"     /\ ~streamChangeOngoing /\ ~requestsOngoing -> "StopDone"
    [] state = "Halting"      /\ ~streamChangeOngoing /\ ~requestsOngoing -> "HaltDone"
    [] OTHER -> "none"

\* noFragmentToProcess of every state; DrainingQueues has the steps of its own below.
noFragmentToProcess ==
  /\ fpPc = "idle"
  /\ \/ /\ state = "Processing"
        /\ \E e \in store : takeStaleEvent(e, "distributeStale")
        /\ UNCHANGED fpCommand
     \/ /\ state = "DrainingQueues"
        /\ fpPc' = "drain"
        /\ UNCHANGED <<fpCommand, store, fpEvent, discarded, lost, faults>>
     \/ /\ state # "DrainingQueues"
        /\ fpCommand' = Completion
        /\ fpPc' = IF Completion = "none" THEN "commands" ELSE "enqueue"
        /\ UNCHANGED <<store, fpEvent, discarded, lost, faults>>
  /\ UNCHANGED <<machine, commandQueue, fragmentQueue, streamQueue, dqmEventQueue, dw, dwr, dqm,
                 dqmr, senders, accepted, queued, written, promised, disregarded, aborted>>

\* processStaleFragments takes everything left in the store, lowest key first, as
\* long as the stream queue has room.
processStaleFragments ==
  /\ fpPc = "drain"
  /\ store # {}
  /\ Len(streamQueue) < StreamCapacity
  /\ \E e \in store : (\A o \in store : e <= o) /\ takeStaleEvent(e, "drainStale")
  /\ UNCHANGED <<machine, fpCommand, commandQueue, fragmentQueue, streamQueue, dqmEventQueue,
                 dw, dwr, dqm, dqmr, senders, accepted, queued, written, promised,
                 disregarded, aborted>>

\* The stream queue is not looked at.
streamQueueIsEmptyBug ==
  /\ fpPc = "drain"
  /\ store = {} \/ Len(streamQueue) >= StreamCapacity
  /\ fpPc' = IF store = {} THEN "drained" ELSE "commands"
  /\ UNCHANGED <<machine, fpEvent, fpCommand, commandQueue, fragmentQueue, store, streamQueue,
                 dqmEventQueue, dw, dwr, dqm, dqmr, senders, faults, history>>

\* allQueuesAndWorkersAreEmpty, upstream entities first: the store and the stream
\* queue here, the busy flag in a step of its own.
streamQueueIsEmpty ==
  /\ fpPc = "drain"
  /\ store = {} \/ Len(streamQueue) >= StreamCapacity
  /\ fpPc' = IF store = {} /\ streamQueue = <<>> THEN "drained" ELSE "commands"
  /\ UNCHANGED <<machine, fpEvent, fpCommand, commandQueue, fragmentQueue, store, streamQueue,
                 dqmEventQueue, dw, dwr, dqm, dqmr, senders, faults, history>>

diskWriterIsIdle ==
  /\ fpPc = "drained"
  /\ IF diskWriterIsBusy
     THEN fpPc' = "commands" /\ UNCHANGED <<fpCommand, dqmEventQueue>>
     ELSE fpPc' = "enqueue" /\ fpCommand' = "QueuesEmpty" /\ dqmEventQueue' = <<>>
  /\ UNCHANGED <<machine, fpEvent, commandQueue, fragmentQueue, store, streamQueue,
                 dw, dwr, dqm, dqmr, senders, faults, history>>

\* enqWait on the queue that only this thread empties.
postCommand ==
  /\ fpPc = "enqueue"
  /\ ~CommandQueueFull
  /\ commandQueue' = Append(commandQueue, fpCommand)
  /\ fpCommand' = "none"
  /\ fpPc' = "commands"
  /\ UNCHANGED <<machine, fpEvent, fragmentQueue, store, streamQueue, dqmEventQueue,
                 dw, dwr, dqm, dqmr, senders, faults, history>>

FragmentProcessor ==
  \/ processCommand \/ enterState
  \/ processOneFragmentIfPossible \/ processI2OFragment \/ noFragment
  \/ distribute \/ distributeStale
  \/ noFragmentToProcess \/ processStaleFragments \/ streamQueueIsEmpty \/ diskWriterIsIdle
  \/ postCommand

-----------------------------------------------------------------------------
(* The DiskWriter *)

elsewhere == <<machine, fp, fragmentQueue, store, senders>>

dequeueEvent ==
  /\ dwPc = "waiting"
  /\ streamQueue # <<>>
  /\ dwItem' = Head(streamQueue)
  /\ streamQueue' = Tail(streamQueue)
  /\ dwPc' = "popped"
  /\ UNCHANGED <<elsewhere, commandQueue, dqmEventQueue, dwTarget, streams, dwr, dqm, dqmr,
                 faults, history>>

setBusy ==
  /\ dwPc = "popped"
  /\ diskWriterIsBusy' = TRUE
  /\ dwPc' = "write"
  /\ UNCHANGED <<elsewhere, commandQueue, streamQueue, dqmEventQueue, dwItem, dwTarget, streams,
                 configurationIsNeeded, streamChangeIsNeeded, streamChangeInProgress,
                 requestedRunNumber, dqm, dqmr, faults, history>>

NoItem == [event |-> 0, run |-> 0]

\* An end-of-lumi-section message (event 0) closes files; an event without its
\* stream handler, or a failing file, is an exception.
writeEventToStreams ==
  /\ dwPc = "write"
  /\ dwItem' = NoItem
  /\ \/ /\ dwItem.event = 0
        /\ dwPc' = "waiting"
        /\ UNCHANGED <<written, lost, faults>>
     \/ /\ dwItem.event # 0 /\ streams # 0
        /\ written' = written \cup {<<dwItem.event, streams>>}
        /\ dwPc' = "waiting"
        /\ UNCHANGED <<lost, faults>>
     \/ /\ \/ dwItem.event # 0 /\ streams = 0 /\ UNCHANGED faults
           \/ streams # 0 /\ Throws("write")
        /\ lost' = lost \cup ({dwItem.event} \ {0})
        /\ dwPc' = "failing"
        /\ UNCHANGED written
  /\ UNCHANGED <<elsewhere, commandQueue, streamQueue, dqmEventQueue, dwTarget, streams, dwr,
                 dqm, dqmr, accepted, queued, discarded, promised, disregarded, aborted>>

\* Nothing to write before the dequeue times out: streamChangeRequested.
checkStreamChangeRequest ==
  /\ dwPc = "waiting"
  /\ streamQueue = <<>>
  /\ IF streamChangeIsNeeded
     THEN /\ streamChangeIsNeeded' = FALSE
          /\ streamChangeInProgress' = TRUE
          /\ dwTarget' = IF configurationIsNeeded THEN requestedRunNumber ELSE 0
          /\ configurationIsNeeded' = FALSE
          /\ dwPc' = "destroy"
          /\ UNCHANGED diskWriterIsBusy
     ELSE /\ diskWriterIsBusy' = FALSE
          /\ UNCHANGED <<streamChangeIsNeeded, streamChangeInProgress, dwTarget,
                         configurationIsNeeded, dwPc>>
  /\ UNCHANGED <<elsewhere, commandQueue, streamQueue, dqmEventQueue, dwItem, streams,
                 requestedRunNumber, dqm, dqmr, faults, history>>

\* closeAllFiles lets no exception out: what can still throw is the report to the
\* database file, when the streams are already gone.
destroyStreams ==
  /\ dwPc = "destroy"
  /\ \/ /\ streams' = 0
        /\ dwPc' = IF dwTarget = 0 THEN "done" ELSE "configure"
        /\ UNCHANGED faults
     \/ /\ streams # 0
        /\ Throws("streams")
        /\ streams' = 0
        /\ dwPc' = "failing"
  /\ UNCHANGED <<elsewhere, commandQueue, streamQueue, dqmEventQueue, dwItem, dwTarget, dwr,
                 dqm, dqmr, history>>

\* The database file, or one of the streams, fails.
configureStreams ==
  /\ dwPc = "configure"
  /\ \/ /\ streams' = dwTarget
        /\ dwPc' = "done"
        /\ UNCHANGED faults
     \/ /\ Throws("streams")
        /\ streams' \in {0, dwTarget}
        /\ dwPc' = "failing"
  /\ UNCHANGED <<elsewhere, commandQueue, streamQueue, dqmEventQueue, dwItem, dwTarget, dwr,
                 dqm, dqmr, history>>

\* The flag stays up.
streamChangeDoneBug ==
  /\ dwPc = "done"
  /\ diskWriterIsBusy' = FALSE
  /\ dwPc' = "waiting"
  /\ UNCHANGED <<elsewhere, commandQueue, streamQueue, dqmEventQueue, dwItem, dwTarget, streams,
                 configurationIsNeeded, streamChangeIsNeeded, streamChangeInProgress,
                 requestedRunNumber, dqm, dqmr, faults, history>>

streamChangeDone ==
  /\ dwPc = "done"
  /\ streamChangeInProgress' = FALSE
  /\ diskWriterIsBusy' = FALSE
  /\ dwPc' = "waiting"
  /\ UNCHANGED <<elsewhere, commandQueue, streamQueue, dqmEventQueue, dwItem, dwTarget, streams,
                 configurationIsNeeded, streamChangeIsNeeded, requestedRunNumber, dqm, dqmr,
                 faults, history>>

\* moveToFailedState: enqTimedWait, which gives up if there is no room for 5 s.
Fails == commandQueue' = IF CommandQueueFull THEN commandQueue ELSE Append(commandQueue, "Fail")

\* The exception is logged, and that is all.
diskWriterFailsBug ==
  /\ dwPc = "failing"
  /\ dwPc' = "waiting"
  /\ UNCHANGED <<elsewhere, commandQueue, streamQueue, dqmEventQueue, dwItem, dwTarget, streams,
                 dwr, dqm, dqmr, faults, history>>

diskWriterFails ==
  /\ dwPc = "failing"
  /\ Fails
  /\ dwPc' = "waiting"
  /\ UNCHANGED <<elsewhere, streamQueue, dqmEventQueue, dwItem, dwTarget, streams, dwr, dqm,
                 dqmr, faults, history>>

DiskWriter ==
  \/ dequeueEvent \/ setBusy \/ writeEventToStreams
  \/ checkStreamChangeRequest \/ destroyStreams \/ configureStreams \/ streamChangeDone
  \/ diskWriterFails

-----------------------------------------------------------------------------
(* The DQMEventProcessor *)

dequeueDQMEvent ==
  /\ dqmPc = "waiting"
  /\ dqmEventQueue # <<>>
  /\ dqmItem' = Head(dqmEventQueue)
  /\ dqmEventQueue' = Tail(dqmEventQueue)
  /\ dqmPc' = "add"
  /\ UNCHANGED <<elsewhere, commandQueue, streamQueue, dw, dwr, dqmTaken, dqmEventStore, dqmr,
                 faults, history>>

\* Stored, unless its lumi section is too old.
addDQMEvent ==
  /\ dqmPc = "add"
  /\ dqmItem' = 0
  /\ \/ /\ dqmEventStore' \in {dqmEventStore \cup {dqmItem}, dqmEventStore}
        /\ dqmPc' = "requests"
        /\ UNCHANGED faults
     \/ /\ Throws("dqm")
        /\ dqmPc' = "failing"
        /\ UNCHANGED dqmEventStore
  /\ UNCHANGED <<elsewhere, commandQueue, streamQueue, dqmEventQueue, dw, dwr, dqmTaken, dqmr,
                 history>>

\* getRequests, after an event or after the dequeue has timed out.
getRequests ==
  /\ dqmPc = "requests" \/ (dqmPc = "waiting" /\ dqmEventQueue = <<>>)
  /\ IF requestsPending
     THEN /\ dqmTaken' = pendingRequests
          /\ pendingRequests' = {}
          /\ requestsPending' = FALSE
          /\ requestsInProgress' = TRUE
          /\ dqmPc' = "serve"
     ELSE dqmPc' = "waiting" /\ UNCHANGED <<dqmTaken, dqmr>>
  /\ UNCHANGED <<elsewhere, commandQueue, streamQueue, dqmEventQueue, dw, dwr, dqmItem,
                 dqmEventStore, faults, history>>

\* setParameters clears the store, purge sends what is ready and clears it: an
\* exception on the way leaves what has not been sent yet.
serveRequests ==
  /\ dqmPc = "serve"
  /\ dqmTaken' = {}
  /\ \/ /\ dqmEventStore' = IF dqmTaken = {} THEN dqmEventStore ELSE {}
        /\ requestsInProgress' = FALSE
        /\ dqmPc' = "waiting"
        /\ UNCHANGED faults
     \/ /\ Throws("dqm")
        /\ dqmEventStore' \in SUBSET dqmEventStore
        /\ dqmPc' = "failing"
        /\ UNCHANGED requestsInProgress
  /\ UNCHANGED <<elsewhere, commandQueue, streamQueue, dqmEventQueue, dw, dwr, dqmItem,
                 pendingRequests, requestsPending, history>>

dqmEventProcessorFails ==
  /\ dqmPc = "failing"
  /\ Fails
  /\ dqmPc' = "waiting"
  /\ UNCHANGED <<elsewhere, streamQueue, dqmEventQueue, dw, dwr, dqmItem, dqmTaken,
                 dqmEventStore, dqmr, faults, history>>

\* The thread that hands completed folders to the consumers.
processCompletedTopLevelFolders ==
  /\ \E r \in dqmEventStore : dqmEventStore' = dqmEventStore \ {r}
  /\ UNCHANGED <<elsewhere, commandQueue, streamQueue, dqmEventQueue, dw, dwr, dqmPc, dqmItem,
                 dqmTaken, dqmr, faults, history>>

DQMEventProcessor ==
  \/ dequeueDQMEvent \/ addDQMEvent \/ getRequests \/ serveRequests \/ dqmEventProcessorFails

-----------------------------------------------------------------------------
(* Run control and the filter units *)

threads == <<machine, fp, store, streamQueue, dqmEventQueue, dw, dwr, dqm, dqmr, faults>>

\* handleFSMSoapMessage; Enable is preceded by Reconfigure when the stream
\* configuration has changed since the last Configure.
handleFSMSoapMessage(c) ==
  /\ soap = <<>>
  /\ commandsSent < MaxCommands
  /\ commandsSent' = commandsSent + 1
  /\ soap' \in {<<c>>} \cup (IF c = "Enable" THEN {<<"Reconfigure", c>>} ELSE {})
  /\ promised' = IF c = "Stop" /\ state = "Processing" /\ entering = "none"
                 THEN promised \cup {f.event : f \in Range(fragmentQueue)}
                 ELSE promised
  /\ UNCHANGED <<threads, commandQueue, fragmentQueue, eventKind, sent, eolsSent,
                 accepted, queued, written, lost, discarded, disregarded, aborted>>

enqueueCommand ==
  /\ soap # <<>>
  /\ ~CommandQueueFull
  /\ commandQueue' = Append(commandQueue, Head(soap))
  /\ soap' = Tail(soap)
  /\ UNCHANGED <<threads, fragmentQueue, commandsSent, eventKind, sent, eolsSent, history>>

EventIds == 1 .. MaxEvents

\* The I2O callbacks: events are begun in the order of their numbers.
receiveFragment(e, kind, whole) ==
  /\ Len(fragmentQueue) < FragmentCapacity
  /\ fragmentQueue' = Append(fragmentQueue, [event |-> e, whole |-> whole])
  /\ eventKind' = [eventKind EXCEPT ![e] = kind]
  /\ \/ /\ sent[e] = "none"
        /\ \A o \in 1 .. e - 1 : sent[o] # "none"
        /\ whole \/ MaxParts = 2
        /\ sent' = [sent EXCEPT ![e] = IF whole THEN "all" ELSE "half"]
     \/ /\ sent[e] = "half" /\ kind = eventKind[e] /\ ~whole
        /\ sent' = [sent EXCEPT ![e] = "all"]
  /\ UNCHANGED <<threads, commandQueue, soap, commandsSent, eolsSent, history>>

receiveEndOfLumiSectionMessage ==
  /\ eolsSent < MaxEoLS
  /\ eolsSent' = eolsSent + 1
  /\ Len(streamQueue) < StreamCapacity
  /\ streamQueue' = Append(streamQueue, NoItem)
  /\ UNCHANGED <<machine, fp, store, dqmEventQueue, dw, dwr, dqm, dqmr, faults, commandQueue,
                 fragmentQueue, soap, commandsSent, eventKind, sent, history>>

Environment ==
  \/ \E c \in SoapCommands : handleFSMSoapMessage(c)
  \/ \E e \in EventIds, kind \in Kinds, whole \in BOOLEAN : receiveFragment(e, kind, whole)
  \/ receiveEndOfLumiSectionMessage

-----------------------------------------------------------------------------
Init ==
  /\ state = "Constructed" /\ entering = "none" /\ visible = "Halted"
  /\ fpPc = "commands" /\ fpEvent = 0 /\ fpCommand = "none"
  /\ run = 0 /\ selectors = 0
  /\ commandQueue = <<>> /\ fragmentQueue = <<>> /\ store = {}
  /\ streamQueue = <<>> /\ dqmEventQueue = <<>>
  /\ dwPc = "waiting" /\ dwItem = NoItem /\ dwTarget = 0 /\ streams = 0
  /\ configurationIsNeeded = FALSE /\ streamChangeIsNeeded = FALSE
  /\ streamChangeInProgress = FALSE /\ requestedRunNumber = 0 /\ diskWriterIsBusy = FALSE
  /\ dqmPc = "waiting" /\ dqmItem = 0 /\ dqmTaken = {} /\ dqmEventStore = {}
  /\ pendingRequests = {} /\ requestsPending = FALSE /\ requestsInProgress = FALSE
  /\ soap = <<>> /\ commandsSent = 0
  /\ eventKind = [e \in EventIds |-> "none"] /\ sent = [e \in EventIds |-> "none"]
  /\ eolsSent = 0 /\ faults = 0
  /\ accepted = {} /\ queued = {} /\ written = {} /\ lost = {} /\ discarded = {}
  /\ promised = {} /\ disregarded = {} /\ aborted = {}

Next ==
  \/ FragmentProcessor
  \/ DiskWriter
  \/ DQMEventProcessor
  \/ processCompletedTopLevelFolders
  \/ enqueueCommand
  \/ Environment

Spec == Init /\ [][Next]_vars

(***************************************************************************)
(* The work loops of the three threads never end, and a SOAP handler that  *)
(* waits for room gets it.  Nothing obliges run control or a filter unit   *)
(* to send anything.                                                       *)
(***************************************************************************)
FairSpec ==
  /\ Spec
  /\ WF_vars(FragmentProcessor)
  /\ WF_vars(DiskWriter)
  /\ WF_vars(DQMEventProcessor)
  /\ WF_vars(enqueueCommand)

-----------------------------------------------------------------------------
Items == [event : 0 .. MaxEvents, run : Nat]
Fragments == [event : EventIds, whole : BOOLEAN]
Requests == {"configuration", "endOfRun", "storeDestruction"}

\* The values the variables range over.
TypeOK ==
  /\ state \in States /\ entering \in States \cup {"none"}
  /\ visible \in {"Halted", "Ready", "Enabled", "Failed"}
  /\ fpPc \in {"commands", "enter", "fragment", "idle", "distribute", "distributeStale",
               "drain", "drainStale", "drained", "enqueue"}
  /\ fpEvent \in 0 .. MaxEvents /\ fpCommand \in MachineEvents \cup {"none"}
  /\ run \in Nat /\ selectors \in Nat
  /\ commandQueue \in Seq(MachineEvents) /\ soap \in Seq(MachineEvents)
  /\ fragmentQueue \in Seq(Fragments) /\ store \subseteq EventIds
  /\ streamQueue \in Seq(Items) /\ dqmEventQueue \in Seq(Nat)
  /\ dwPc \in {"waiting", "popped", "write", "destroy", "configure", "done", "failing"}
  /\ dwItem \in Items
  /\ dwTarget \in Nat /\ streams \in Nat /\ requestedRunNumber \in Nat
  /\ configurationIsNeeded \in BOOLEAN /\ streamChangeIsNeeded \in BOOLEAN
  /\ streamChangeInProgress \in BOOLEAN /\ diskWriterIsBusy \in BOOLEAN
  /\ dqmPc \in {"waiting", "add", "requests", "serve", "failing"}
  /\ dqmItem \in Nat /\ dqmEventStore \subseteq Nat
  /\ dqmTaken \subseteq Requests /\ pendingRequests \subseteq Requests
  /\ requestsPending \in BOOLEAN /\ requestsInProgress \in BOOLEAN
  /\ eventKind \in [EventIds -> Kinds \cup {"none"}]
  /\ sent \in [EventIds -> {"none", "half", "all"}]

\* Events the DiskWriter has yet to write: queued, or popped.
EventsUnderway == {item \in Range(streamQueue) \cup {dwItem} : item.event # 0}

(***************************************************************************)
(* The visible state Ready or Halted means what it says: no output stream  *)
(* exists and none is on its way, the DQM event store is empty, and no     *)
(* request to either thread is outstanding, so the next Enable starts from *)
(* nothing.  The requests of Starting, Stopping and Halting overwrite each *)
(* other while the threads are busy with the previous ones.                *)
(***************************************************************************)
RestingStatesAreClean ==
  state \in {"Constructed", "Halted", "Stopped"} =>
    /\ streams = 0 /\ ~streamChangeOngoing
    /\ dqmEventStore = {} /\ ~requestsOngoing
    /\ store = {} /\ dqmEventQueue = <<>> /\ EventsUnderway = {}

(***************************************************************************)
(* In Running the DiskWriter has the streams of this very run and nobody   *)
(* is about to change them: the stream ids the selectors hand out are      *)
(* valid, although a failed, cancelled or repeated start may precede.      *)
(***************************************************************************)
RunningMeansConfigured ==
  state \in RunningStates /\ entering = "none" =>
    streams = run /\ selectors = run /\ ~streamChangeOngoing

(***************************************************************************)
(* What is shown of the state can be relied on, at rest and in a run: late *)
(* events and requests of one run never reach into the next.               *)
(***************************************************************************)
StatesMeanWhatTheySay == RestingStatesAreClean /\ RunningMeansConfigured

(***************************************************************************)
(* An event is written by the streams of the run it was accepted in: they  *)
(* are neither destroyed nor replaced while it is in the stream queue or   *)
(* in the DiskWriter's hands ("Unable to retrieve stream handler").        *)
(***************************************************************************)
EventsMeetTheirStreams ==
  /\ \A item \in EventsUnderway : item.run = streams
  /\ written \subseteq queued

(***************************************************************************)
(* A run that is not cut short loses none of its accepted events: when its *)
(* streams are gone they are written, or the write itself has failed.  The *)
(* DiskWriter is not busy yet when it has just emptied the stream queue.   *)
(***************************************************************************)
OrderlyStopWritesEverything ==
  \A q \in queued :
    q[2] # streams /\ q[2] \notin aborted => q \in written \/ q[1] \in lost

Lifecycle == INSTANCE RunLifecycle WITH open <- streams

\* The visible states and the streams behind them as run control may rely on them:
\* none is reported before the DiskWriter has done its part (externallyVisibleState_).
ImplementsRunLifecycle == Lifecycle!Spec

(***************************************************************************)
(* What Processing has accepted stays in the fragment store or in the      *)
(* FragmentProcessor's hands until the stream queue has it.  A run that is *)
(* stopped in order clears the store on its way out: by then nothing is    *)
(* left in it, and only the exception of a failed look-up loses an event.  *)
(***************************************************************************)
AcceptedEventsAreQueued ==
  \A a \in accepted : eventKind[a[1]] = "stream" /\ a[2] \notin aborted =>
    a[1] \in store \cup lost \cup {fpEvent} \/ a \in queued

\* Every state that is left by itself is left, unless its threads fail.
TransientStatesEnd ==
  \A s \in EnabledStates \ {"Processing"} : state = s ~> state # s

\* What a thread could not do moves the machine to Failed.
FailuresReachFailed == dwPc = "failing" \/ dqmPc = "failing" ~> state = "Failed"

\* "Files shall be closed even if the SM cannot be halted properly": Failed closes
\* all streams for good, even one whose configuration had just been requested.
FilesClosedAfterFailure == state = "Failed" ~> [](streams = 0)

\* "after receiving the 'stop' command, the SM ... shall finish processing the
\* already received data": none of it is dropped.
DataReceivedBeforeStopIsProcessed == promised \cap disregarded = {}
=============================================================================
