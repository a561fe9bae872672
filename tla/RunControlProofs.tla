-------------------------- MODULE RunControlProofs --------------------------
(***************************************************************************)
(* Theorems about RunControl for every number of events, commands, faults  *)
(* and every capacity: the safety properties of its runs, and that it      *)
(* implements RunLifecycle.                                                *)
(***************************************************************************)
EXTENDS RunControlInvariant, TLAPS

-----------------------------------------------------------------------------
(* Sequences *)

\* The empty sequence has every type.
LEMMA EmptySequence == \A S : <<>> \in Seq(S)
BY SMT

\* Queue operations keep the type of the elements.
LEMMA SequenceTypes ==
  /\ \A S : \A q \in Seq(S), e \in S : Append(q, e) \in Seq(S)
  /\ \A S : \A q \in Seq(S) : q # <<>> => Tail(q) \in Seq(S) /\ Head(q) \in S
BY SMT

\* The elements of a queue after an enqueue.
LEMMA AppendElements ==
  ASSUME NEW S, NEW q \in Seq(S), NEW e \in S
  PROVE  /\ Append(q, e) \in Seq(S)
         /\ Len(Append(q, e)) = Len(q) + 1
         /\ \A i \in 1 .. Len(q) : Append(q, e)[i] = q[i]
         /\ Append(q, e)[Len(q) + 1] = e
BY SMT

\* The elements of a queue after a dequeue.
LEMMA TailElements ==
  ASSUME NEW S, NEW q \in Seq(S), q # <<>>
  PROVE  /\ Tail(q) \in Seq(S) /\ Head(q) \in S
         /\ Head(q) = q[1]
         /\ Len(q) \in Nat /\ Len(q) >= 1
         /\ Len(Tail(q)) = Len(q) - 1
         /\ \A i \in 1 .. Len(Tail(q)) : Tail(q)[i] = q[i + 1]
BY SMT

\* The elements of a sequence.
LEMMA SequenceRange ==
  ASSUME NEW S, NEW q \in Seq(S)
  PROVE  Range(q) = {q[i] : i \in 1 .. Len(q)} /\ Range(q) \subseteq S
BY SMT DEF Range

\* The empty queue has no element.
LEMMA EmptyRange == Range(<<>>) = {}
BY SMT DEF Range

\* An enqueue adds the element and no other.
LEMMA AppendRange ==
  ASSUME NEW S, NEW q \in Seq(S), NEW e \in S
  PROVE  Range(Append(q, e)) = Range(q) \cup {e}
<1>1. Append(q, e) \in Seq(S) /\ Len(q) \in Nat
  BY AppendElements
<1>2. /\ Range(q) = {q[i] : i \in 1 .. Len(q)}
      /\ Range(Append(q, e)) = {Append(q, e)[i] : i \in 1 .. Len(Append(q, e))}
  BY <1>1, SequenceRange
<1> QED
  BY <1>1, <1>2, AppendElements

\* A dequeue takes away no more than the head.
LEMMA TailRange ==
  ASSUME NEW S, NEW q \in Seq(S), q # <<>>
  PROVE  /\ Range(Tail(q)) \subseteq Range(q) /\ Head(q) \in Range(q)
         /\ Range(q) \subseteq Range(Tail(q)) \cup {Head(q)}
<1>1. /\ Range(q) = {q[i] : i \in 1 .. Len(q)}
      /\ Range(Tail(q)) = {Tail(q)[i] : i \in 1 .. Len(Tail(q))}
  BY TailElements, SequenceRange
<1>2. /\ \A i \in 1 .. Len(Tail(q)) : i + 1 \in 1 .. Len(q) /\ Tail(q)[i] = q[i + 1]
      /\ 1 \in 1 .. Len(q) /\ q[1] = Head(q)
      /\ \A i \in 1 .. Len(q) : i = 1 \/ (i - 1 \in 1 .. Len(Tail(q)) /\ Tail(q)[i - 1] = q[i])
  BY TailElements
<1> QED
  BY <1>1, <1>2

\* Where the transitions lead.
LEMMA TransitionTypes ==
  \A t \in Transitions : t[1] \in NormalStates /\ t[3] \in States /\ t[2] \in MachineEvents
BY DEF Transitions, NormalStates, ReadyStates, EnabledStates, RunningStates, States,
       MachineEvents, Commands, InternalEvents

-----------------------------------------------------------------------------
(* Types *)

\* The initial values have their types.
LEMMA InitType == Init => TypeOK
<1>1. /\ <<>> \in Seq(MachineEvents) /\ <<>> \in Seq(Fragments)
      /\ <<>> \in Seq(Items) /\ <<>> \in Seq(Nat)
  BY EmptySequence
<1>2. NoItem \in Items /\ 0 \in 0 .. MaxEvents
  BY EventAssumption DEF NoItem, Items
<1>3. "Constructed" \in States
  BY DEF States, NormalStates
<1>4. Init => /\ configurationIsNeeded \in BOOLEAN /\ streamChangeIsNeeded \in BOOLEAN
              /\ streamChangeInProgress \in BOOLEAN /\ diskWriterIsBusy \in BOOLEAN
              /\ requestsPending \in BOOLEAN /\ requestsInProgress \in BOOLEAN
  BY Zenon DEF Init
<1> QED
  BY <1>1, <1>2, <1>3, <1>4 DEF Init, TypeOK

\* Taking a command, the exit actions of the states it leaves included, keeps the types.
LEMMA processCommandTypes == ASSUME TypeOK, processCommand PROVE TypeOK'
<1>1. Tail(commandQueue) \in Seq(MachineEvents)
  BY SequenceTypes DEF TypeOK, processCommand
<1>2. entering' \in States \cup {"none"}
  BY TransitionTypes DEF TypeOK, processCommand
<1>3. /\ fragmentQueue' \in Seq(Fragments) /\ store' \subseteq EventIds
      /\ streamQueue' \in Seq(Items) /\ dqmEventQueue' \in Seq(Nat)
      /\ selectors' \in Nat
  <2>1. /\ <<>> \in Seq(Fragments) /\ <<>> \in Seq(Items) /\ <<>> \in Seq(Nat)
    BY EmptySequence
  <2>2. CASE UNCHANGED <<selectors, fragmentQueue, streamQueue, dqmEventQueue, store>>
    BY <2>2 DEF TypeOK
  <2>3. CASE \E t \in Transitions : exitActions(t[3])
    <3>1. PICK t \in Transitions : exitActions(t[3])
      BY <2>3
    <3>2. selectors' \in Nat
      BY <3>1 DEF TypeOK, exitActions
    <3>3. /\ fragmentQueue' \in {<<>>, fragmentQueue} /\ store' \in {{}, store}
          /\ streamQueue' \in {<<>>, streamQueue} /\ dqmEventQueue' \in {<<>>, dqmEventQueue}
      BY <3>1 DEF exitActions
    <3> QED
      BY <2>1, <3>2, <3>3 DEF TypeOK
  <2> QED
    BY <2>2, <2>3 DEF processCommand
<1> QED
  BY <1>1, <1>2, <1>3 DEF TypeOK, processCommand, machine, fp, dw, dwr, dqm, dqmr, senders, history

\* Entering a state, with the requests of its entry action, keeps the types.
LEMMA enterStateTypes == ASSUME TypeOK, entering # "none", enterState PROVE TypeOK'
<1>1. commandQueue' \in Seq(MachineEvents)
  <2>1. "Fail" \in MachineEvents
    BY DEF MachineEvents, InternalEvents
  <2>2. Append(commandQueue, "Fail") \in Seq(MachineEvents)
    BY <2>1, SequenceTypes DEF TypeOK
  <2> QED
    BY <2>2 DEF TypeOK, enterState, failHere
<1>2. /\ requestsPending' \in BOOLEAN /\ pendingRequests' \subseteq Requests
      /\ requestsInProgress' \in BOOLEAN
  BY DEF TypeOK, enterState, requestConfiguration, requestEndOfRun, requestStoreDestruction, dqmr, Requests
<1>3. /\ configurationIsNeeded' \in BOOLEAN /\ streamChangeIsNeeded' \in BOOLEAN
      /\ streamChangeInProgress' \in BOOLEAN /\ diskWriterIsBusy' \in BOOLEAN
      /\ requestedRunNumber' \in Nat
  <2>1. requestStreamConfiguration(run + 1) \/ requestStreamDestruction \/ UNCHANGED dwr
    BY DEF enterState
  <2>2. requestedRunNumber' \in Nat
    BY <2>1 DEF TypeOK, requestStreamConfiguration, requestStreamDestruction, dwr
  <2>3. /\ configurationIsNeeded' \in BOOLEAN /\ streamChangeIsNeeded' \in BOOLEAN
        /\ streamChangeInProgress' \in BOOLEAN /\ diskWriterIsBusy' \in BOOLEAN
    BY <2>1, Zenon DEF TypeOK, requestStreamConfiguration, requestStreamDestruction, dwr
  <2> QED
    BY <2>2, <2>3
<1>4. state' \in States
  BY  DEF TypeOK, enterState, States, NormalStates, ReadyStates, EnabledStates, RunningStates
<1>5. visible' \in {"Halted", "Ready", "Enabled", "Failed"}
  BY DEF TypeOK, enterState, externallyVisibleState
<1> QED
  BY <1>1, <1>2, <1>3, <1>4, <1>5 DEF TypeOK, enterState, machine, fp, dw, dwr, dqm, dqmr, senders, history

\* Processing a fragment keeps the types.
LEMMA processI2OFragmentTypes == ASSUME TypeOK, processI2OFragment PROVE TypeOK'
<1>1. fragmentQueue' \in Seq(Fragments) /\ Head(fragmentQueue).event \in EventIds
  <2>1. Tail(fragmentQueue) \in Seq(Fragments) /\ Head(fragmentQueue) \in Fragments
    BY SequenceTypes DEF TypeOK, processI2OFragment
  <2> QED
    BY <2>1 DEF processI2OFragment, Fragments
<1>2. fpEvent' \in {fpEvent, Head(fragmentQueue).event}
  BY DEF processI2OFragment
<1>3. fpEvent' \in 0 .. MaxEvents
  BY <1>1, <1>2, EventAssumption DEF TypeOK, EventIds
<1>4. store' \subseteq EventIds
  BY <1>1 DEF TypeOK, processI2OFragment
<1> QED
  BY <1>1, <1>3, <1>4 DEF TypeOK, processI2OFragment, machine, fp, dw, dwr, dqm, dqmr, senders, history

\* What the EventDistributor enqueues is an item of the queue.
LEMMA addEventToRelevantQueuesTypes ==
  ASSUME TypeOK, NEW faulty \in BOOLEAN, addEventToRelevantQueues(fpEvent, faulty)
  PROVE  streamQueue' \in Seq(Items) /\ dqmEventQueue' \in Seq(Nat)
<1>1. [event |-> fpEvent, run |-> selectors] \in Items
  BY DEF TypeOK, Items
<1>2. Append(streamQueue, [event |-> fpEvent, run |-> selectors]) \in Seq(Items)
  BY <1>1, SequenceTypes DEF TypeOK
<1>3. Append(dqmEventQueue, selectors) \in Seq(Nat)
  BY SequenceTypes DEF TypeOK
<1>4. dqmEventQueue # <<>> => Append(Tail(dqmEventQueue), selectors) \in Seq(Nat)
  BY SequenceTypes DEF TypeOK
<1>5. Len(dqmEventQueue) >= DQMCapacity => dqmEventQueue # <<>>
  BY CapacityAssumption DEF TypeOK
<1>6. CASE eventKind[fpEvent] = "stream"
  BY <1>2, <1>6 DEF TypeOK, addEventToRelevantQueues
<1>7. CASE eventKind[fpEvent] = "dqm"
  <2>1. streamQueue' = streamQueue
    BY <1>7 DEF addEventToRelevantQueues
  <2>2. Len(dqmEventQueue) < DQMCapacity \/ Len(dqmEventQueue) >= DQMCapacity
    BY CapacityAssumption DEF TypeOK
  <2>3. \/ dqmEventQueue' = dqmEventQueue
        \/ dqmEventQueue' = Append(dqmEventQueue, selectors)
        \/ /\ dqmEventQueue' = Append(Tail(dqmEventQueue), selectors)
           /\ ~(Len(dqmEventQueue) < DQMCapacity)
    <3>1. dqmEventQueue' = IF faulty THEN dqmEventQueue
                         ELSE IF Len(dqmEventQueue) < DQMCapacity
                              THEN Append(dqmEventQueue, selectors)
                              ELSE Append(Tail(dqmEventQueue), selectors)
      BY <1>7 DEF addEventToRelevantQueues
    <3> QED
      BY <3>1, Zenon
  <2> QED
    BY <2>1, <2>2, <2>3, <1>3, <1>4, <1>5 DEF TypeOK
<1> QED
  BY <1>6, <1>7 DEF addEventToRelevantQueues

\* Distributing a complete event keeps the types.
LEMMA distributeTypes == ASSUME TypeOK, distribute PROVE TypeOK'
<1>1. streamQueue' \in Seq(Items) /\ dqmEventQueue' \in Seq(Nat)
  BY addEventToRelevantQueuesTypes DEF distribute
<1> QED
  BY <1>1, EventAssumption DEF TypeOK, distribute, sendDiscardMessage, Throws, machine, fp, dw, dwr, dqm, dqmr, senders, history

\* Distributing a faulty event keeps the types.
LEMMA distributeStaleTypes == ASSUME TypeOK, distributeStale PROVE TypeOK'
<1>1. streamQueue' \in Seq(Items) /\ dqmEventQueue' \in Seq(Nat)
  BY addEventToRelevantQueuesTypes DEF distributeStale
<1> QED
  BY <1>1, EventAssumption DEF TypeOK, distributeStale, machine, fp, dw, dwr, dqm, dqmr, senders, history

\* Looking at the busy flag keeps the types.
LEMMA diskWriterIsIdleTypes == ASSUME TypeOK, diskWriterIsIdle PROVE TypeOK'
<1>1. dqmEventQueue' \in Seq(Nat)
  BY EmptySequence DEF TypeOK, diskWriterIsIdle
<1> QED
  BY <1>1 DEF TypeOK, diskWriterIsIdle, MachineEvents, InternalEvents, machine, fp, dw, dwr, dqm, dqmr, senders, history

\* Posting a completion keeps the types.
LEMMA postCommandTypes == ASSUME TypeOK, fpCommand # "none", postCommand PROVE TypeOK'
<1>1. commandQueue' \in Seq(MachineEvents)
  BY SequenceTypes DEF TypeOK, postCommand
<1> QED
  BY <1>1 DEF TypeOK, postCommand, machine, fp, dw, dwr, dqm, dqmr, senders, history

\* No step of the FragmentProcessor breaks a type.
LEMMA FragmentProcessorTypes ==
  ASSUME TypeOK, CommandInv, FragmentProcessor
  PROVE  TypeOK'
<1>1. CASE processCommand
  BY <1>1, processCommandTypes
<1>2. CASE enterState
  BY <1>2, enterStateTypes DEF CommandInv, enterState
<1>3. CASE processOneFragmentIfPossible
  BY <1>3 DEF TypeOK, processOneFragmentIfPossible, machine, fp, dw, dwr, dqm, dqmr, senders, history
<1>4. CASE processI2OFragment
  BY <1>4, processI2OFragmentTypes
<1>5. CASE noFragment
  BY <1>5 DEF TypeOK, noFragment, machine, fp, dw, dwr, dqm, dqmr, senders, history
<1>6. CASE distribute
  BY <1>6, distributeTypes
<1>7. CASE distributeStale
  BY <1>7, distributeStaleTypes
<1>8. CASE noFragmentToProcess
  BY <1>8, EventAssumption DEF TypeOK, noFragmentToProcess, takeStaleEvent, sendDiscardMessage, Throws, Completion, EventIds, MachineEvents, InternalEvents, machine, fp, dw, dwr, dqm, dqmr, senders, history
<1>9. CASE processStaleFragments
  BY <1>9, EventAssumption DEF TypeOK, processStaleFragments, takeStaleEvent, sendDiscardMessage, Throws, EventIds, machine, fp, dw, dwr, dqm, dqmr, senders, history
<1>10. CASE streamQueueIsEmpty
  BY <1>10 DEF TypeOK, streamQueueIsEmpty, machine, fp, dw, dwr, dqm, dqmr, senders, history
<1>11. CASE diskWriterIsIdle
  BY <1>11, diskWriterIsIdleTypes
<1>12. CASE postCommand
  BY <1>12, postCommandTypes DEF CommandInv, postCommand
<1> QED
  BY <1>1, <1>2, <1>3, <1>4, <1>5, <1>6, <1>7, <1>8, <1>9, <1>10, <1>11, <1>12 DEF FragmentProcessor

\* A Fail is a state machine event.
LEMMA FailsTypes == ASSUME TypeOK, Fails PROVE commandQueue' \in Seq(MachineEvents)
<1>1. "Fail" \in MachineEvents
  BY DEF MachineEvents, InternalEvents
<1>2. Append(commandQueue, "Fail") \in Seq(MachineEvents)
  BY <1>1, SequenceTypes DEF TypeOK
<1> QED
  BY <1>2 DEF TypeOK, Fails

\* No step of the DiskWriter breaks a type.
LEMMA DiskWriterTypes ==
  ASSUME TypeOK, DiskWriter
  PROVE  TypeOK'
<1>1. CASE dequeueEvent
  BY <1>1, SequenceTypes DEF TypeOK, dequeueEvent, machine, fp, dw, dwr, dqm, dqmr, senders, history, elsewhere
<1>2. CASE setBusy
  BY <1>2 DEF TypeOK, setBusy, machine, fp, dw, dwr, dqm, dqmr, senders, history, elsewhere
<1>3. CASE writeEventToStreams
  BY <1>3, EventAssumption DEF TypeOK, writeEventToStreams, Throws, NoItem, Items, machine, fp, dw, dwr, dqm, dqmr, senders, history, elsewhere
<1>4. CASE checkStreamChangeRequest
  <2>1. /\ configurationIsNeeded' \in BOOLEAN /\ streamChangeIsNeeded' \in BOOLEAN
        /\ streamChangeInProgress' \in BOOLEAN /\ diskWriterIsBusy' \in BOOLEAN
    BY <1>4, Zenon DEF TypeOK, checkStreamChangeRequest
  <2>2. dwTarget' \in Nat /\ dwPc' \in {dwPc, "destroy"}
    BY <1>4 DEF TypeOK, checkStreamChangeRequest
  <2> QED
    BY <1>4, <2>1, <2>2 DEF TypeOK, checkStreamChangeRequest, machine, fp, dw, dwr, dqm, dqmr, senders, history, elsewhere
<1>5. CASE destroyStreams
  BY <1>5 DEF TypeOK, destroyStreams, Throws, machine, fp, dw, dwr, dqm, dqmr, senders, history, elsewhere
<1>6. CASE configureStreams
  BY <1>6 DEF TypeOK, configureStreams, Throws, machine, fp, dw, dwr, dqm, dqmr, senders, history, elsewhere
<1>7. CASE streamChangeDone
  <2>1. streamChangeInProgress' \in BOOLEAN /\ diskWriterIsBusy' \in BOOLEAN
    BY <1>7, Zenon DEF streamChangeDone
  <2> QED
    BY <1>7, <2>1 DEF TypeOK, streamChangeDone, machine, fp, dw, dwr, dqm, dqmr, senders, history, elsewhere
<1>8. CASE diskWriterFails
  BY <1>8, FailsTypes DEF TypeOK, diskWriterFails, machine, fp, dw, dwr, dqm, dqmr, senders, history, elsewhere
<1> QED
  BY <1>1, <1>2, <1>3, <1>4, <1>5, <1>6, <1>7, <1>8 DEF DiskWriter

\* No step of the DQM threads breaks a type.
LEMMA DQMEventProcessorTypes ==
  ASSUME TypeOK, DQMEventProcessor \/ processCompletedTopLevelFolders
  PROVE  TypeOK'
<1>1. CASE dequeueDQMEvent
  BY <1>1, SequenceTypes DEF TypeOK, dequeueDQMEvent, machine, fp, dw, dwr, dqm, dqmr, senders, history, elsewhere
<1>2. CASE addDQMEvent
  <2>1. dqmEventStore' \subseteq Nat /\ dqmPc' \in {"requests", "failing"} /\ dqmItem' \in Nat
    BY <1>2 DEF TypeOK, addDQMEvent
  <2> QED
    BY <1>2, <2>1 DEF TypeOK, addDQMEvent, machine, fp, dw, dwr, dqm, dqmr, senders, history, elsewhere
<1>3. CASE getRequests
  <2>1. requestsPending' \in BOOLEAN /\ requestsInProgress' \in BOOLEAN
    BY <1>3, Zenon DEF TypeOK, getRequests, dqmr
  <2>2. /\ pendingRequests' \subseteq Requests /\ dqmTaken' \subseteq Requests
        /\ dqmPc' \in {"serve", "waiting"}
    BY <1>3 DEF TypeOK, getRequests, dqmr
  <2> QED
    BY <1>3, <2>1, <2>2 DEF TypeOK, getRequests, machine, fp, dw, dwr, dqm, dqmr, senders, history, elsewhere
<1>4. CASE serveRequests
  <2>1. requestsPending' \in BOOLEAN /\ requestsInProgress' \in BOOLEAN
    BY <1>4, Zenon DEF TypeOK, serveRequests
  <2>2. dqmEventStore' \subseteq Nat /\ dqmPc' \in {"failing", "waiting"} /\ dqmTaken' = {}
    BY <1>4 DEF TypeOK, serveRequests
  <2> QED
    BY <1>4, <2>1, <2>2 DEF TypeOK, serveRequests, machine, fp, dw, dwr, dqm, dqmr, senders, history, elsewhere
<1>5. CASE dqmEventProcessorFails
  BY <1>5, FailsTypes DEF TypeOK, dqmEventProcessorFails, machine, fp, dw, dwr, dqm, dqmr, senders, history, elsewhere
<1>6. CASE processCompletedTopLevelFolders
  BY <1>6 DEF TypeOK, processCompletedTopLevelFolders, machine, fp, dw, dwr, dqm, dqmr, senders, history, elsewhere
<1> QED
  BY <1>1, <1>2, <1>3, <1>4, <1>5, <1>6 DEF DQMEventProcessor

\* No command and no message from outside breaks a type.
LEMMA EnvironmentTypes ==
  ASSUME TypeOK, enqueueCommand \/ Environment
  PROVE  TypeOK'
<1>1. CASE enqueueCommand
  BY <1>1, SequenceTypes DEF TypeOK, enqueueCommand, machine, fp, dw, dwr, dqm, dqmr, senders, history, threads
<1>2. CASE \E c \in SoapCommands : handleFSMSoapMessage(c)
  <2>1. PICK c \in SoapCommands : handleFSMSoapMessage(c)
    BY <1>2
  <2>2. c \in MachineEvents /\ "Reconfigure" \in MachineEvents
    BY CommandAssumption DEF MachineEvents, InternalEvents
  <2>3. <<c>> \in Seq(MachineEvents) /\ <<"Reconfigure", c>> \in Seq(MachineEvents)
    BY <2>2, SequenceTypes, EmptySequence
  <2>4. soap' \in Seq(MachineEvents)
    BY <2>1, <2>3 DEF handleFSMSoapMessage
  <2> QED
    BY <2>1, <2>4 DEF TypeOK, handleFSMSoapMessage, machine, fp, dw, dwr, dqm, dqmr, senders, history, threads
<1>3. CASE \E e \in EventIds, kind \in Kinds, whole \in BOOLEAN : receiveFragment(e, kind, whole)
  <2>1. PICK e \in EventIds, kind \in Kinds, whole \in BOOLEAN : receiveFragment(e, kind, whole)
    BY <1>3
  <2>2. [event |-> e, whole |-> whole] \in Fragments
    BY DEF Fragments
  <2>3. fragmentQueue' \in Seq(Fragments)
    BY <2>1, <2>2, SequenceTypes DEF TypeOK, receiveFragment
  <2>4. /\ eventKind' \in [EventIds -> Kinds \cup {"none"}]
        /\ sent' \in [EventIds -> {"none", "half", "all"}]
    BY <2>1 DEF TypeOK, receiveFragment
  <2> QED
    BY <2>1, <2>3, <2>4 DEF TypeOK, receiveFragment, machine, fp, dw, dwr, dqm, dqmr, senders, history, threads
<1>4. CASE receiveEndOfLumiSectionMessage
  <2>1. NoItem \in Items
    BY EventAssumption DEF NoItem, Items
  <2>2. streamQueue' \in Seq(Items)
    BY <1>4, <2>1, SequenceTypes DEF TypeOK, receiveEndOfLumiSectionMessage
  <2> QED
    BY <1>4, <2>2 DEF TypeOK, receiveEndOfLumiSectionMessage, machine, fp, dw, dwr, dqm, dqmr, senders, history, threads
<1> QED
  BY <1>1, <1>2, <1>3, <1>4 DEF Environment

-----------------------------------------------------------------------------
(* The command queue *)

\* A completion may be posted to a queue without one, any other event to any queue.
LEMMA AppendOneCompletion ==
  ASSUME NEW S, NEW q \in Seq(S), NEW e \in S, AtMostOneCompletion(q),
         e \notin Completions \/ NoCompletion(q)
  PROVE  AtMostOneCompletion(Append(q, e))
<1>1. Len(q) \in Nat
  BY SMT
<1>2. e \notin Completions \/ \A i \in 1 .. Len(q) : q[i] \notin Completions
  BY SequenceRange DEF NoCompletion
<1> QED
  BY <1>1, <1>2, AppendElements DEF AtMostOneCompletion

\* When a completion has been taken from the queue, none is left.
LEMMA TailOneCompletion ==
  ASSUME NEW S, NEW q \in Seq(S), q # <<>>, AtMostOneCompletion(q)
  PROVE  /\ AtMostOneCompletion(Tail(q))
         /\ Head(q) \in Completions => NoCompletion(Tail(q))
<1>1. \A i \in 1 .. Len(Tail(q)) : i + 1 \in 1 .. Len(q) /\ Tail(q)[i] = q[i + 1] /\ i + 1 # 1
  BY TailElements
<1>2. 1 \in 1 .. Len(q) /\ q[1] = Head(q)
  BY TailElements
<1>3. AtMostOneCompletion(Tail(q))
  <2> SUFFICES ASSUME NEW i \in 1 .. Len(Tail(q)), NEW j \in 1 .. Len(Tail(q)),
                      Tail(q)[i] \in Completions, Tail(q)[j] \in Completions
               PROVE  i = j
    BY DEF AtMostOneCompletion
  <2>1. i + 1 = j + 1
    BY <1>1 DEF AtMostOneCompletion
  <2> QED
    BY <2>1
<1>4. ASSUME Head(q) \in Completions PROVE NoCompletion(Tail(q))
  <2>1. Tail(q) \in Seq(S)
    BY TailElements
  <2>2. Range(Tail(q)) = {Tail(q)[i] : i \in 1 .. Len(Tail(q))}
    BY <2>1, SequenceRange
  <2> QED
    BY <1>1, <1>2, <1>4, <2>2 DEF NoCompletion, AtMostOneCompletion
<1> QED
  BY <1>3, <1>4

\* The empty queue has no completion.
LEMMA EmptyNoCompletion == NoCompletion(<<>>) /\ AtMostOneCompletion(<<>>)
BY EmptyRange DEF NoCompletion, AtMostOneCompletion

\* What CommandInv is about.
commandVars == <<fpCommand, soap, fpPc, entering, commandQueue>>

\* CommandInv is about these variables only.
LEMMA CommandStutter == ASSUME CommandInv, UNCHANGED commandVars PROVE CommandInv'
BY DEF CommandInv, commandVars

\* "Fail" and the commands of a user are no completions.
LEMMA OtherEvents ==
  /\ Commands \cup {"Reconfigure", "Fail"} \subseteq MachineEvents
  /\ \A c \in Commands \cup {"Reconfigure", "Fail"} : c \notin Completions
  /\ Completions \subseteq MachineEvents /\ "none" \notin Completions
  /\ "none" \notin States
BY DEF MachineEvents, Commands, InternalEvents, Completions, States, NormalStates, ReadyStates,
       EnabledStates, RunningStates

\* Posting such an event does not disturb the completions.
LEMMA FailCommands ==
  ASSUME TypeOK, CommandInv, commandQueue' \in {commandQueue, Append(commandQueue, "Fail")}
  PROVE  /\ AtMostOneCompletion(commandQueue')
         /\ NoCompletion(commandQueue) => NoCompletion(commandQueue')
<1>1. "Fail" \in MachineEvents /\ "Fail" \notin Completions
  BY OtherEvents
<1>2. commandQueue \in Seq(MachineEvents)
  BY DEF TypeOK
<1>3. AtMostOneCompletion(Append(commandQueue, "Fail"))
  BY <1>1, <1>2, AppendOneCompletion DEF CommandInv
<1>4. NoCompletion(commandQueue) => NoCompletion(Append(commandQueue, "Fail"))
  BY <1>1, <1>2, AppendRange DEF NoCompletion
<1> QED
  BY <1>3, <1>4 DEF CommandInv

\* The FragmentProcessor posts a completion only when the queue has none: it found the queue
\* empty, and nobody else posts any.
LEMMA FragmentProcessorCommands ==
  ASSUME TypeOK, CommandInv, FragmentProcessor
  PROVE  CommandInv'
<1>1. CASE processCommand
  <2>1. fpPc = "commands" /\ entering = "none" /\ fpCommand = "none"
    BY <1>1 DEF processCommand, CommandInv
  <2>2. AtMostOneCompletion(commandQueue')
    BY <1>1, TailOneCompletion DEF processCommand, TypeOK, CommandInv
  <2>3. fpCommand' = fpCommand /\ soap' = soap
    BY <1>1 DEF processCommand, senders
  <2>4. CASE entering' = entering /\ fpPc' = fpPc
    BY <2>1, <2>2, <2>3, <2>4 DEF CommandInv
  <2>5. CASE fpPc' = "enter" /\ \E t \in Transitions : entering' = t[3]
    BY <2>1, <2>2, <2>3, <2>5, TransitionTypes, OtherEvents DEF CommandInv
  <2> QED
    BY <1>1, <2>4, <2>5 DEF processCommand
<1>2. CASE enterState
  <2>1. commandQueue' \in {commandQueue, Append(commandQueue, "Fail")}
    BY <1>2 DEF enterState, failHere
  <2>2. AtMostOneCompletion(commandQueue')
    BY <2>1, FailCommands
  <2>3. fpPc' = "commands" /\ entering' = "none" /\ UNCHANGED <<fpCommand, soap>> /\ fpPc = "enter"
    BY <1>2 DEF enterState, senders
  <2> QED
    BY <2>2, <2>3 DEF CommandInv
<1>3. CASE processOneFragmentIfPossible
  BY <1>3, EmptyNoCompletion DEF processOneFragmentIfPossible, CommandInv, machine, senders
<1>4. CASE processI2OFragment
  BY <1>4 DEF processI2OFragment, CommandInv, machine, senders
<1>5. CASE noFragment
  BY <1>5 DEF noFragment, CommandInv, machine, senders
<1>6. CASE distribute
  BY <1>6 DEF distribute, CommandInv, machine, senders
<1>7. CASE distributeStale
  BY <1>7 DEF distributeStale, CommandInv, machine, senders
<1>8. CASE noFragmentToProcess
  <2>1. fpPc = "idle" /\ UNCHANGED <<commandQueue, soap, entering>>
    BY <1>8 DEF noFragmentToProcess, machine, senders
  <2>2. Completion \in Completions \cup {"none"}
    BY DEF Completion, Completions
  <2>3. \/ fpCommand' = fpCommand /\ fpPc' \in {"distributeStale", "drain", "commands"}
        \/ fpCommand' = Completion /\ fpPc' = IF Completion = "none" THEN "commands" ELSE "enqueue"
    BY <1>8 DEF noFragmentToProcess, takeStaleEvent
  <2> QED
    BY <2>1, <2>2, <2>3 DEF CommandInv
<1>9. CASE processStaleFragments
  BY <1>9 DEF processStaleFragments, takeStaleEvent, CommandInv, machine, senders
<1>10. CASE streamQueueIsEmpty
  BY <1>10 DEF streamQueueIsEmpty, CommandInv, machine, senders
<1>11. CASE diskWriterIsIdle
  BY <1>11 DEF diskWriterIsIdle, CommandInv, machine, senders, Completions
<1>12. CASE postCommand
  <2>1. fpCommand \in Completions /\ fpCommand \in MachineEvents /\ NoCompletion(commandQueue)
        /\ entering = "none"
    BY <1>12, OtherEvents DEF postCommand, CommandInv
  <2>2. AtMostOneCompletion(commandQueue')
    BY <1>12, <2>1, AppendOneCompletion DEF postCommand, CommandInv, TypeOK
  <2> QED
    BY <1>12, <2>1, <2>2 DEF postCommand, CommandInv, machine, senders
<1> QED
  BY <1>1, <1>2, <1>3, <1>4, <1>5, <1>6, <1>7, <1>8, <1>9, <1>10, <1>11, <1>12 DEF FragmentProcessor

\* The other threads and run control post no completion.
LEMMA OtherCommands ==
  ASSUME TypeOK, CommandInv, Next, ~FragmentProcessor
  PROVE  CommandInv'
<1>1. ASSUME commandQueue' \in {commandQueue, Append(commandQueue, "Fail")},
             UNCHANGED <<fpCommand, soap, fpPc, entering>>
      PROVE  CommandInv'
  BY <1>1, FailCommands DEF CommandInv
<1>2. CASE DiskWriter
  <2>1. \/ UNCHANGED commandQueue
        \/ Fails
    BY <1>2 DEF DiskWriter, dequeueEvent, setBusy, writeEventToStreams, checkStreamChangeRequest,
                destroyStreams, configureStreams, streamChangeDone, diskWriterFails
  <2>2. UNCHANGED elsewhere
    BY <1>2 DEF DiskWriter, dequeueEvent, setBusy, writeEventToStreams, checkStreamChangeRequest,
                destroyStreams, configureStreams, streamChangeDone, diskWriterFails
  <2> QED
    BY <1>1, <2>1, <2>2 DEF Fails, elsewhere, machine, fp, senders
<1>3. CASE DQMEventProcessor \/ processCompletedTopLevelFolders
  <2>1. \/ UNCHANGED commandQueue
        \/ Fails
    BY <1>3 DEF DQMEventProcessor, dequeueDQMEvent, addDQMEvent, getRequests, serveRequests,
                dqmEventProcessorFails, processCompletedTopLevelFolders
  <2>2. UNCHANGED elsewhere
    BY <1>3 DEF DQMEventProcessor, dequeueDQMEvent, addDQMEvent, getRequests, serveRequests,
                dqmEventProcessorFails, processCompletedTopLevelFolders
  <2> QED
    BY <1>1, <2>1, <2>2 DEF Fails, elsewhere, machine, fp, senders
<1>4. CASE enqueueCommand
  <2>1. Head(soap) \in Commands \cup {"Reconfigure"} /\ Tail(soap) \in Seq(Commands \cup {"Reconfigure"})
    BY <1>4, SequenceTypes DEF enqueueCommand, CommandInv
  <2>2. Head(soap) \in MachineEvents /\ Head(soap) \notin Completions
    BY <2>1, OtherEvents
  <2>3. AtMostOneCompletion(commandQueue')
    BY <1>4, <2>2, AppendOneCompletion DEF enqueueCommand, TypeOK, CommandInv
  <2>4. NoCompletion(commandQueue) => NoCompletion(commandQueue')
    BY <1>4, <2>2, AppendRange DEF enqueueCommand, TypeOK, NoCompletion
  <2> QED
    BY <1>4, <2>1, <2>3, <2>4 DEF enqueueCommand, CommandInv, threads, machine, fp
<1>5. CASE \E c \in SoapCommands : handleFSMSoapMessage(c)
  <2>1. PICK c \in SoapCommands : handleFSMSoapMessage(c)
    BY <1>5
  <2>2. c \in Commands \cup {"Reconfigure"} /\ "Reconfigure" \in Commands \cup {"Reconfigure"}
    BY CommandAssumption
  <2>3. /\ <<c>> \in Seq(Commands \cup {"Reconfigure"})
        /\ <<"Reconfigure", c>> \in Seq(Commands \cup {"Reconfigure"})
    BY <2>2, SequenceTypes, EmptySequence
  <2>4. soap' \in Seq(Commands \cup {"Reconfigure"})
    BY <2>1, <2>3 DEF handleFSMSoapMessage
  <2> QED
    BY <2>1, <2>4 DEF handleFSMSoapMessage, CommandInv, threads, machine, fp
<1>6. CASE \E e \in EventIds, kind \in Kinds, whole \in BOOLEAN : receiveFragment(e, kind, whole)
  BY <1>6, CommandStutter DEF receiveFragment, threads, machine, fp, commandVars
<1>7. CASE receiveEndOfLumiSectionMessage
  BY <1>7, CommandStutter DEF receiveEndOfLumiSectionMessage, machine, fp, commandVars
<1> QED
  BY <1>2, <1>3, <1>4, <1>5, <1>6, <1>7 DEF Next, Environment

\* No step breaks a type.
LEMMA NextTypes == ASSUME TypeOK, CommandInv, Next PROVE TypeOK'
BY FragmentProcessorTypes, DiskWriterTypes, DQMEventProcessorTypes, EnvironmentTypes DEF Next

\* No step gives the queue a second completion.
LEMMA NextCommands == ASSUME TypeOK, CommandInv, Next PROVE CommandInv'
BY FragmentProcessorCommands, OtherCommands

\* At first the command queue is empty.
LEMMA InitCommands == Init => CommandInv
<1>1. <<>> \in Seq(Commands \cup {"Reconfigure"})
  BY EmptySequence
<1> QED
  BY <1>1, EmptyNoCompletion DEF Init, CommandInv

\* Stuttering keeps the types.
LEMMA TypeStutter == ASSUME TypeOK, UNCHANGED vars PROVE TypeOK'
BY DEF TypeOK, vars, machine, fp, dw, dwr, dqm, dqmr, senders, history

(***************************************************************************)
(* The variables keep their types.  That a null command is never posted    *)
(* rests on what the command queue can hold: one completion at most, which *)
(* is processed before the FragmentProcessor decides on the next.          *)
(***************************************************************************)
THEOREM TypeCorrect == Spec => []TypeOK
<1>1. Init => TypeOK /\ CommandInv
  BY InitType, InitCommands
<1>2. TypeOK /\ CommandInv /\ [Next]_vars => (TypeOK /\ CommandInv)'
  <2>1. CASE Next
    BY <2>1, NextTypes, NextCommands
  <2>2. CASE UNCHANGED vars
    BY <2>2, TypeStutter, CommandStutter DEF vars, machine, fp, senders, commandVars
  <2> QED
    BY <2>1, <2>2
<1> QED
  BY <1>1, <1>2, PTL DEF Spec

-----------------------------------------------------------------------------
(* The completions underway, and where the machine is *)

\* What only the FragmentProcessor writes, the fragment queue and store apart.
position == <<machine, fp, aborted, accepted, queued, store>>

\* An event that is posted is the only one that is new.
LEMMA AppendOther ==
  ASSUME NEW q \in Seq(MachineEvents), NEW e \in MachineEvents, NEW r \in {q, Append(q, e)}
  PROVE  Range(r) \subseteq Range(q) \cup {e}
<1>1. Range(Append(q, e)) = Range(q) \cup {e}
  BY AppendRange
<1> QED
  BY <1>1

\* A step of another thread leaves the FragmentProcessor where it is, and posts no
\* completion.
LEMMA OtherStep ==
  ASSUME TypeOK, CommandInv, Next, ~FragmentProcessor
  PROVE  /\ UNCHANGED position
         /\ \A c \in Completions : c \in Range(commandQueue') => c \in Range(commandQueue)
<1>1. ASSUME NEW e \in MachineEvents \ Completions,
             commandQueue' \in {commandQueue, Append(commandQueue, e)}
      PROVE  \A c \in Completions : c \in Range(commandQueue') => c \in Range(commandQueue)
  <2>1. Range(commandQueue') \subseteq Range(commandQueue) \cup {e}
    BY <1>1, AppendOther DEF TypeOK
  <2> QED
    BY <2>1
<1>2. "Fail" \in MachineEvents \ Completions
  BY OtherEvents
<1>3. CASE DiskWriter
  <2>1. UNCHANGED commandQueue \/ Fails
    BY <1>3 DEF DiskWriter, dequeueEvent, setBusy, writeEventToStreams, checkStreamChangeRequest,
                destroyStreams, configureStreams, streamChangeDone, diskWriterFails
  <2>2. UNCHANGED <<elsewhere, aborted, accepted, queued>>
    BY <1>3 DEF DiskWriter, dequeueEvent, setBusy, writeEventToStreams, checkStreamChangeRequest,
                destroyStreams, configureStreams, streamChangeDone, diskWriterFails, history
  <2> QED
    BY <1>1, <1>2, <2>1, <2>2 DEF Fails, elsewhere, position
<1>4. CASE DQMEventProcessor \/ processCompletedTopLevelFolders
  <2>1. UNCHANGED commandQueue \/ Fails
    BY <1>4 DEF DQMEventProcessor, dequeueDQMEvent, addDQMEvent, getRequests, serveRequests,
                dqmEventProcessorFails, processCompletedTopLevelFolders
  <2>2. UNCHANGED <<elsewhere, aborted, accepted, queued>>
    BY <1>4 DEF DQMEventProcessor, dequeueDQMEvent, addDQMEvent, getRequests, serveRequests,
                dqmEventProcessorFails, processCompletedTopLevelFolders, history
  <2> QED
    BY <1>1, <1>2, <2>1, <2>2 DEF Fails, elsewhere, position
<1>5. CASE enqueueCommand
  <2>1. Head(soap) \in Commands \cup {"Reconfigure"}
    BY <1>5, SequenceTypes DEF enqueueCommand, CommandInv
  <2> QED
    BY <1>1, <1>5, <2>1, OtherEvents DEF enqueueCommand, threads, history, position
<1>6. CASE \E c \in SoapCommands : handleFSMSoapMessage(c)
  BY <1>6 DEF handleFSMSoapMessage, threads, position
<1>7. CASE \E e \in EventIds, kind \in Kinds, whole \in BOOLEAN : receiveFragment(e, kind, whole)
  BY <1>7 DEF receiveFragment, threads, history, position
<1>8. CASE receiveEndOfLumiSectionMessage
  BY <1>8 DEF receiveEndOfLumiSectionMessage, history, position
<1> QED
  BY <1>3, <1>4, <1>5, <1>6, <1>7, <1>8 DEF Next, Environment

\* The events of the command queue after a command has been taken from it: no
\* completion, if that is what was taken.
LEMMA CommandTaken ==
  ASSUME TypeOK, CommandInv, processCommand
  PROVE  \A c \in Completions : c \in Range(commandQueue') =>
           c \in Range(commandQueue) /\ Head(commandQueue) \notin Completions
BY TailRange, TailOneCompletion DEF processCommand, TypeOK, CommandInv, NoCompletion

\* Entering a state can only add "Fail".
LEMMA EntryCommands ==
  ASSUME TypeOK, enterState
  PROVE  \A c \in Completions : c \in Range(commandQueue') => c \in Range(commandQueue)
<1>1. commandQueue' \in {commandQueue, Append(commandQueue, "Fail")}
  BY DEF enterState, failHere
<1>2. "Fail" \in MachineEvents /\ "Fail" \notin Completions
  BY OtherEvents
<1>3. Range(commandQueue') \subseteq Range(commandQueue) \cup {"Fail"}
  BY <1>1, <1>2, AppendOther DEF TypeOK
<1> QED
  BY <1>2, <1>3

\* The decided completion is posted.
LEMMA PostedCommand ==
  ASSUME TypeOK, CommandInv, postCommand
  PROVE  \A c \in Completions : c \in Range(commandQueue') => Underway(c)
<1>1. fpCommand \in MachineEvents
  BY OtherEvents DEF CommandInv, postCommand
<1> QED
  BY <1>1, AppendRange DEF TypeOK, postCommand, Underway

\* The steps of the FragmentProcessor between two rounds of commands, other than
\* the one that decides on a completion and the one that posts it.
Working ==
  \/ processOneFragmentIfPossible \/ processI2OFragment \/ noFragment
  \/ distribute \/ distributeStale \/ processStaleFragments \/ streamQueueIsEmpty

\* None of these touches the machine or the command queue.
LEMMA WorkingCommands ==
  ASSUME Working
  PROVE  UNCHANGED <<machine, fpCommand, commandQueue>>
BY DEF Working, processOneFragmentIfPossible, processI2OFragment, noFragment, distribute,
       distributeStale, processStaleFragments, streamQueueIsEmpty

\* While a completion is underway, only events that cut the state short are taken before it.
LEMMA ProcessCommandPlace ==
  ASSUME TypeOK, CommandInv, PlaceInv, processCommand
  PROVE  PlaceInv'
<1>1. /\ state' = state /\ fpCommand' = fpCommand /\ fpCommand = "none" /\ entering = "none"
      /\ fpPc' \in {"commands", "enter"}
  BY DEF processCommand, CommandInv
<1>2. \A c \in Completions : Underway(c)' => Underway(c) /\ Head(commandQueue) \notin Completions
  BY <1>1, CommandTaken, OtherEvents DEF Underway
<1>3. \/ entering' = "none"
      \/ \E t \in Transitions : t[1] = state /\ t[2] = Head(commandQueue) /\ t[3] = entering'
  BY <1>1 DEF processCommand
<1>4. ASSUME NEW c \in Completions, Underway(c)'
      PROVE  \/ entering' = "none"
             \/ entering' = "Failed"
             \/ entering' = "Stopping" /\ state \in RunningStates \cup {"Starting"}
             \/ entering' = "Halting" /\ state \in RunningStates
             \/ entering' \in {"Halted", "Stopped", "Starting", "DrainingQueues"}
                /\ state \in AtRest \cup {"Processing"}
  BY <1>2, <1>3, <1>4 DEF Transitions, Completions, AtRest
<1> QED
  BY <1>1, <1>2, <1>3, <1>4 DEF PlaceInv, Completions, RunningStates, AtRest, Underway

\* The state entered is one in which the completion underway is known to be harmless.
LEMMA EnterStatePlace ==
  ASSUME TypeOK, CommandInv, PlaceInv, enterState
  PROVE  PlaceInv'
<1>1. /\ state' = entering /\ entering' = "none" /\ fpCommand' = fpCommand
      /\ fpPc' = "commands" /\ entering # "none"
  BY DEF enterState, CommandInv
<1>2. \A c \in Completions : Underway(c)' => Underway(c)
  BY <1>1, EntryCommands DEF Underway
<1> QED
  BY <1>1, <1>2 DEF PlaceInv, Completions, Underway

\* No completion waits in the queue while the FragmentProcessor is past its commands.
LEMMA NothingWaits ==
  ASSUME CommandInv, fpPc \notin {"commands", "enter"}
  PROVE  /\ entering = "none"
         /\ \A c \in Completions : c \notin Range(commandQueue)
BY DEF CommandInv, NoCompletion

\* Where the thread decides on a completion.
LEMMA CompletionDecided ==
  ASSUME TypeOK, CommandInv, PlaceInv, noFragmentToProcess \/ diskWriterIsIdle
  PROVE  /\ UNCHANGED <<machine, commandQueue>>
         /\ entering = "none"
         /\ \A c \in Completions : c \notin Range(commandQueue) /\ ~Underway(c)
         /\ \/ fpCommand' = "none"
            \/ fpCommand' = Completion /\ noFragmentToProcess
            \/ fpCommand' = "QueuesEmpty" /\ diskWriterIsIdle /\ state = "DrainingQueues"
<1>1. fpPc \in {"idle", "drained"} /\ UNCHANGED <<machine, commandQueue>>
  BY DEF noFragmentToProcess, diskWriterIsIdle
<1>2. entering = "none" /\ \A c \in Completions : c \notin Range(commandQueue)
  BY <1>1, NothingWaits
<1>3. fpCommand = "none"
  BY <1>1 DEF CommandInv
<1>4. \A c \in Completions : ~Underway(c)
  BY <1>2, <1>3, OtherEvents DEF Underway
<1>5. CASE noFragmentToProcess
  BY <1>1, <1>2, <1>3, <1>4, <1>5 DEF noFragmentToProcess
<1>6. CASE diskWriterIsIdle
  BY <1>1, <1>2, <1>3, <1>4, <1>6 DEF diskWriterIsIdle, PlaceInv
<1> QED
  BY <1>5, <1>6

\* A completion is decided on in the state it completes.
LEMMA CompletionPlace ==
  ASSUME TypeOK, CommandInv, PlaceInv, noFragmentToProcess \/ diskWriterIsIdle
  PROVE  PlaceInv'
<1>1. UNCHANGED <<state, entering>> /\ entering = "none"
  BY CompletionDecided DEF machine
<1>2. \A c \in Completions : Underway(c)' =>
        \/ c = Completion /\ c # "none"
        \/ c = "QueuesEmpty" /\ state = "DrainingQueues"
  BY CompletionDecided, OtherEvents DEF Underway
<1>3. Completion # "none" =>
        \/ Completion = "StartRun" /\ state = "Starting"
        \/ Completion = "EndRun" /\ state = "FinishingDQM"
        \/ Completion = "StopDone" /\ state = "Stopping"
        \/ Completion = "HaltDone" /\ state = "Halting"
  BY DEF Completion
<1>4. /\ fpPc' \in {"distribute", "distributeStale"} => state = "Processing"
      /\ fpPc' \in {"drain", "drainStale", "drained"} => state = "DrainingQueues"
  BY DEF noFragmentToProcess, diskWriterIsIdle, takeStaleEvent
<1> QED
  BY <1>1, <1>2, <1>3, <1>4 DEF PlaceInv, Completions

\* An event is distributed in the state in which it was taken.
LEMMA WorkingPlace ==
  ASSUME TypeOK, CommandInv, PlaceInv, Working
  PROVE  PlaceInv'
<1>1. UNCHANGED <<state, entering, fpCommand, commandQueue>>
  BY WorkingCommands DEF machine
<1>2. /\ fpPc' \in {"distribute", "distributeStale"} => state = "Processing"
      /\ fpPc' \in {"drain", "drainStale", "drained"} => state = "DrainingQueues"
  BY DEF Working, processOneFragmentIfPossible, processI2OFragment, noFragment, distribute,
         distributeStale, processStaleFragments, streamQueueIsEmpty, takeStaleEvent, PlaceInv
<1> QED
  BY <1>1, <1>2 DEF PlaceInv, Underway

\* Posting a completion moves nothing.
LEMMA PostCommandPlace ==
  ASSUME TypeOK, CommandInv, PlaceInv, postCommand
  PROVE  PlaceInv'
<1>1. /\ UNCHANGED <<state, entering>> /\ fpCommand' = "none" /\ fpPc' = "commands"
  BY DEF postCommand, machine
<1>2. \A c \in Completions : Underway(c)' => Underway(c)
  BY <1>1, PostedCommand, OtherEvents DEF Underway
<1> QED
  BY <1>1, <1>2 DEF PlaceInv, Completions

\* The other threads do not move the FragmentProcessor.
LEMMA OtherPlace ==
  ASSUME TypeOK, CommandInv, PlaceInv, Next, ~FragmentProcessor
  PROVE  PlaceInv'
<1>1. UNCHANGED <<state, entering, fpCommand, fpPc>>
  BY OtherStep DEF position, machine, fp
<1>2. \A c \in Completions : Underway(c)' => Underway(c)
  BY <1>1, OtherStep DEF Underway
<1> QED
  BY <1>1, <1>2 DEF PlaceInv, Completions

\* PlaceInv is inductive.
LEMMA NextPlace == ASSUME TypeOK, CommandInv, PlaceInv, Next PROVE PlaceInv'
<1>1. CASE FragmentProcessor
  BY <1>1, ProcessCommandPlace, EnterStatePlace, CompletionPlace, WorkingPlace, PostCommandPlace
     DEF FragmentProcessor, Working
<1> QED
  BY <1>1, OtherPlace

-----------------------------------------------------------------------------
(* The streams *)

\* The requests to the DiskWriter, and that a change is under way.
flags == <<configurationIsNeeded, streamChangeIsNeeded, streamChangeInProgress>>

\* Unchanged flags have the same truth value.
LEMMA SameFlags ==
  ASSUME UNCHANGED flags
  PROVE  /\ configurationIsNeeded' <=> configurationIsNeeded
         /\ streamChangeIsNeeded' <=> streamChangeIsNeeded
         /\ streamChangeInProgress' <=> streamChangeInProgress
BY Zenon DEF flags

\* What StreamInv and VisibleInv are about.
streamVars == <<state, entering, run, selectors, dwTarget, streams, requestedRunNumber>>

\* A step that neither moves the machine nor touches the streams keeps StreamInv.
LEMMA StreamStutter ==
  ASSUME TypeOK, StreamInv, UNCHANGED <<streamVars, flags>>,
         dwPc' = dwPc \/ {dwPc, dwPc'} \cap Changing = {},
         \A c \in Completions : Underway(c)' => Underway(c)
  PROVE  StreamInv'
<1>1. /\ configurationIsNeeded' <=> configurationIsNeeded
      /\ streamChangeIsNeeded' <=> streamChangeIsNeeded
      /\ streamChangeInProgress' <=> streamChangeInProgress
  BY SameFlags
<1>2. UNCHANGED streamVars
  OBVIOUS
<1>3. \A p \in Changing : dwPc' = p <=> dwPc = p
  OBVIOUS
<1>4. /\ Underway("StartRun")' => Underway("StartRun")
      /\ Underway("StopDone")' => Underway("StopDone")
      /\ Underway("HaltDone")' => Underway("HaltDone")
  BY DEF Completions
<1> QED
  BY <1>1, <1>2, <1>3, <1>4
  DEF StreamInv, streamVars, Resting, InRunning, streamChangeOngoing, Changing

\* How a state is reached.
LEMMA IncomingTransitions ==
  \A t \in Transitions :
    /\ t[3] \in AtRest =>
         \/ t[1] \in AtRest
         \/ t[1] \in Closing /\ t[2] \in {"StopDone", "HaltDone"}
    /\ t[3] = "Starting" => t[1] = "Stopped"
    /\ t[3] = "Processing" => t[1] = "Starting" /\ t[2] = "StartRun"
    /\ t[3] = "DrainingQueues" => t[1] = "Processing"
    /\ t[3] = "FinishingDQM" => t[1] = "DrainingQueues" /\ t[2] = "QueuesEmpty"
    /\ t[3] = "Halting" => t[1] \in RunningStates
    /\ t[3] = "Stopping" => t[1] \in RunningStates \cup {"Starting"}
<1> TAKE t \in Transitions
<1>1. CASE t \in {"Constructed", "Halted"} \X {"Configure"} \X {"Stopped"}
  BY <1>1 DEF AtRest
<1>2. CASE t \in RunningStates \X {"Halt"} \X {"Halting"}
  BY <1>2 DEF AtRest
<1>3. CASE t \in RunningStates \X {"EmergencyStop"} \X {"Stopping"}
  BY <1>3 DEF AtRest
<1>4. CASE t \in NormalStates \X {"Fail"} \X {"Failed"}
  BY <1>4 DEF AtRest
<1> QED
  BY <1>1, <1>2, <1>3, <1>4 DEF Transitions, AtRest, Closing, RunningStates

\* A command leads to rest, or to Processing, only once the DiskWriter is done.
LEMMA ProcessCommandStreams ==
  ASSUME TypeOK, CommandInv, PlaceInv, StreamInv, processCommand
  PROVE  StreamInv'
<1>1. /\ UNCHANGED <<state, run, dwPc, dwTarget, streams, requestedRunNumber, fpCommand, flags>>
      /\ fpCommand = "none" /\ entering = "none"
  BY DEF processCommand, CommandInv, dw, dwr, flags
<1>2. \A c \in Completions : Underway(c)' => Underway(c)
  BY <1>1, CommandTaken, OtherEvents DEF Underway
<1>3. /\ configurationIsNeeded' <=> configurationIsNeeded
      /\ streamChangeIsNeeded' <=> streamChangeIsNeeded
      /\ streamChangeInProgress' <=> streamChangeInProgress
  BY <1>1, SameFlags
<1>4. CASE UNCHANGED <<entering, selectors>>
  BY <1>1, <1>2, <1>4, StreamStutter DEF streamVars
<1>5. CASE \E t \in Transitions : /\ t[1] = state /\ t[2] = Head(commandQueue)
                                  /\ exitActions(t[3]) /\ entering' = t[3]
  <2>1. PICK t \in Transitions : /\ t[1] = state /\ t[2] = Head(commandQueue)
                                 /\ exitActions(t[3]) /\ entering' = t[3]
    BY <1>5
  <2>2. \A c \in Completions : Head(commandQueue) = c => Underway(c)
    BY TailRange DEF TypeOK, Underway, processCommand
  <2>3. Resting' => streams = 0 /\ ~streamChangeOngoing
    <3>1. entering' \in AtRest =>
            \/ state \in AtRest
            \/ state \in Closing /\ Head(commandQueue) \in {"StopDone", "HaltDone"}
      BY <2>1, IncomingTransitions
    <3> QED
      BY <1>1, <2>2, <3>1 DEF Resting, StreamInv, Completions
  <2>4. entering' = "Processing" => run # 0 /\ streams = run /\ ~streamChangeOngoing
    <3>1. entering' = "Processing" => state = "Starting" /\ Head(commandQueue) = "StartRun"
      BY <2>1, IncomingTransitions
    <3> QED
      BY <2>2, <3>1 DEF StreamInv, Completions
  <2>5. InRunning' => selectors' = run
    <3>1. InRunning' => InRunning /\ selectors' = selectors
      BY <1>1, <2>1, TransitionTypes, OtherEvents DEF InRunning, exitActions, EnabledStates, RunningStates
    <3> QED
      BY <3>1 DEF StreamInv
  <2> QED
    BY <1>1, <1>2, <1>3, <2>3, <2>4, <2>5
    DEF StreamInv, streamChangeOngoing, Completions
<1> QED
  BY <1>4, <1>5 DEF processCommand

\* The requests that the entry actions make, and those they overwrite.
LEMMA EnterStateStreams ==
  ASSUME TypeOK, CommandInv, PlaceInv, StreamInv, enterState
  PROVE  StreamInv'
<1>1. /\ UNCHANGED <<dwPc, dwTarget, streams, fpCommand, streamChangeInProgress>>
      /\ state' = entering /\ entering' = "none" /\ entering # "none"
      /\ run' = IF entering = "Starting" THEN run + 1 ELSE run
      /\ selectors' = IF entering = "Processing" THEN run ELSE selectors
  BY DEF enterState, CommandInv, dw, dwr, requestStreamConfiguration, requestStreamDestruction
<1>2. \A c \in Completions : Underway(c)' => Underway(c)
  BY <1>1, EntryCommands DEF Underway
<1>3. PICK t \in Transitions : t[1] = state /\ t[3] = entering
  BY <1>1 DEF PlaceInv
<1>4. streamChangeInProgress' <=> streamChangeInProgress
  BY <1>1, Zenon
<1>5. CASE entering = "Starting"
  <2>1. state \in AtRest
    BY <1>3, <1>5, IncomingTransitions DEF AtRest
  <2>2. configurationIsNeeded' /\ streamChangeIsNeeded'
    BY <1>5, Zenon DEF enterState, requestStreamConfiguration
  <2>3. requestedRunNumber' = run + 1
    BY <1>5 DEF enterState, requestStreamConfiguration
  <2>4. ~Underway("StartRun") /\ ~Underway("StopDone") /\ ~Underway("HaltDone")
    BY <1>5 DEF PlaceInv
  <2>5. dwPc \notin Changing /\ run' = run + 1 /\ run + 1 # 0
    BY <1>1, <1>5, <2>1 DEF StreamInv, Resting, streamChangeOngoing, TypeOK
  <2> QED
    BY <1>1, <1>2, <1>4, <1>5, <2>2, <2>3, <2>4, <2>5
    DEF StreamInv, streamChangeOngoing, Resting, InRunning, AtRest, RunningStates, Closing, Completions, Changing
<1>6. CASE entering \in {"Stopping", "Halting", "Failed"}
  <2>1. ~configurationIsNeeded' /\ streamChangeIsNeeded'
    BY <1>6, Zenon DEF enterState, requestStreamDestruction
  <2>2. entering # "Failed" => ~Underway("StopDone") /\ ~Underway("HaltDone")
    BY <1>1 DEF PlaceInv
  <2> QED
    BY <1>1, <1>2, <1>4, <1>6, <2>1, <2>2
    DEF StreamInv, streamChangeOngoing, Resting, InRunning, AtRest, RunningStates, Closing, Completions, Changing
<1>7. CASE entering \notin {"Starting", "Stopping", "Halting", "Failed"}
  <2>1. UNCHANGED <<flags, requestedRunNumber>>
    BY <1>7 DEF enterState, dwr, flags
  <2>2. /\ configurationIsNeeded' <=> configurationIsNeeded
        /\ streamChangeIsNeeded' <=> streamChangeIsNeeded
    BY <2>1, SameFlags
  <2>3. /\ entering \in AtRest \/ entering \in RunningStates
        /\ entering \in RunningStates \ {"Processing"} => InRunning
    BY <1>1, <1>3, <1>7, IncomingTransitions, TransitionTypes
    DEF InRunning, AtRest, RunningStates, States, NormalStates, ReadyStates, EnabledStates
  <2> QED
    BY <1>1, <1>2, <1>4, <1>7, <2>1, <2>2, <2>3
    DEF StreamInv, streamChangeOngoing, Resting, InRunning, AtRest, RunningStates, Closing, Completions, Changing
<1> QED
  BY <1>5, <1>6, <1>7

\* StartRun, StopDone and HaltDone are decided on when no change is requested or under way.
LEMMA CompletionStreams ==
  ASSUME TypeOK, CommandInv, PlaceInv, StreamInv, noFragmentToProcess \/ diskWriterIsIdle
  PROVE  StreamInv'
<1>1. /\ UNCHANGED <<streamVars, dwPc, flags>> /\ entering = "none"
      /\ \A c \in Completions : ~Underway(c)
  <2>1. UNCHANGED <<machine, dwPc, dwTarget, streams, requestedRunNumber, flags>>
    BY DEF noFragmentToProcess, diskWriterIsIdle, dw, dwr, flags
  <2> QED
    BY <2>1, CompletionDecided DEF streamVars, machine
<1>2. \A c \in {"StartRun", "StopDone", "HaltDone"} : Underway(c)' => c = Completion
  BY CompletionDecided DEF Underway, Completions
<1>3. /\ configurationIsNeeded' <=> configurationIsNeeded
      /\ streamChangeIsNeeded' <=> streamChangeIsNeeded
      /\ streamChangeInProgress' <=> streamChangeInProgress
  BY <1>1, SameFlags
<1>4. Completion \in {"StartRun", "StopDone", "HaltDone"} => ~streamChangeOngoing
  BY DEF Completion
<1> QED
  BY <1>1, <1>2, <1>3, <1>4
  DEF StreamInv, streamVars, Resting, InRunning, streamChangeOngoing, Changing

\* The steps of the FragmentProcessor that have nothing to do with the streams.
LEMMA WorkingStreams ==
  ASSUME TypeOK, CommandInv, StreamInv, Working \/ postCommand
  PROVE  StreamInv'
<1>1. UNCHANGED <<streamVars, dwPc, flags>>
  <2>1. UNCHANGED <<machine, dwPc, dwTarget, streams, requestedRunNumber, flags>>
    BY DEF Working, processOneFragmentIfPossible, processI2OFragment, noFragment, distribute,
         distributeStale, processStaleFragments, streamQueueIsEmpty, postCommand, dw, dwr, flags
  <2> QED
    BY <2>1 DEF machine, streamVars
<1>2. \A c \in Completions : Underway(c)' => Underway(c)
  BY WorkingCommands, PostedCommand, OtherEvents DEF Underway, postCommand
<1> QED
  BY <1>1, <1>2, StreamStutter

\* The DiskWriter's own steps with the streams, and what the others see of them.
LEMMA DiskWriterStreams ==
  ASSUME TypeOK, CommandInv, PlaceInv, StreamInv, DiskWriter,
         UNCHANGED position, \A c \in Completions : Underway(c)' => Underway(c)
  PROVE  StreamInv'
<1>1. UNCHANGED <<state, entering, run, selectors>>
  BY DEF position, machine
<1>2. CASE dequeueEvent \/ setBusy \/ writeEventToStreams \/ diskWriterFails
  BY <1>1, <1>2, StreamStutter
  DEF dequeueEvent, setBusy, writeEventToStreams, diskWriterFails, dwr, streamVars, flags, Changing
<1>3. CASE checkStreamChangeRequest
  <2>1. CASE ~streamChangeIsNeeded
    BY <1>1, <1>3, <2>1, StreamStutter DEF checkStreamChangeRequest, streamVars, flags
  <2>2. CASE streamChangeIsNeeded
    <3>1. ~streamChangeIsNeeded' /\ streamChangeInProgress' /\ ~configurationIsNeeded'
      BY <1>3, <2>2, Zenon DEF checkStreamChangeRequest
    <3>2. /\ UNCHANGED <<streams, requestedRunNumber>> /\ dwPc' = "destroy"
          /\ dwTarget' = IF configurationIsNeeded THEN requestedRunNumber ELSE 0
      BY <1>3, <2>2 DEF checkStreamChangeRequest
    <3> QED
      BY <1>1, <2>2, <3>1, <3>2
      DEF StreamInv, Resting, InRunning, streamChangeOngoing, Changing, Completions, Closing, AtRest, RunningStates
  <2> QED
    BY <2>1, <2>2
<1>4. CASE destroyStreams \/ configureStreams
  <2>1. /\ UNCHANGED <<flags, dwTarget, requestedRunNumber>>
        /\ dwPc \in Changing
        /\ dwPc' = "configure" => streams' = 0 /\ dwTarget # 0
        /\ dwPc' = "done" => streams' = dwTarget
        /\ dwPc' \in {"configure", "done", "failing"}
    BY <1>4 DEF destroyStreams, configureStreams, dwr, flags, Changing
  <2>2. /\ configurationIsNeeded' <=> configurationIsNeeded
        /\ streamChangeIsNeeded' <=> streamChangeIsNeeded
        /\ streamChangeInProgress' <=> streamChangeInProgress
    BY <2>1, SameFlags
  <2>3. streamChangeInProgress
    BY <2>1 DEF StreamInv
  <2> QED
    BY <1>1, <2>1, <2>2, <2>3
    DEF StreamInv, Resting, InRunning, streamChangeOngoing, Changing, Completions
<1>5. CASE streamChangeDone
  <2>1. ~streamChangeInProgress'
    BY <1>5, Zenon DEF streamChangeDone
  <2>2. /\ streamChangeIsNeeded' <=> streamChangeIsNeeded
        /\ configurationIsNeeded' <=> configurationIsNeeded
    BY <1>5, Zenon DEF streamChangeDone
  <2>3. /\ UNCHANGED <<streams, dwTarget, requestedRunNumber>>
        /\ dwPc = "done" /\ dwPc' = "waiting"
    BY <1>5 DEF streamChangeDone
  <2>4. streamChangeInProgress /\ streams = dwTarget
    BY <2>3 DEF StreamInv, Changing
  <2> QED
    BY <1>1, <2>1, <2>2, <2>3, <2>4
    DEF StreamInv, Resting, InRunning, streamChangeOngoing, Changing, Completions
<1> QED
  BY <1>2, <1>3, <1>4, <1>5 DEF DiskWriter

\* Nobody else touches the streams.
LEMMA OthersStreams ==
  ASSUME Next, ~FragmentProcessor, ~DiskWriter
  PROVE  UNCHANGED <<dw, dwr>>
<1>1. CASE DQMEventProcessor \/ processCompletedTopLevelFolders
  BY <1>1 DEF DQMEventProcessor, dequeueDQMEvent, addDQMEvent, getRequests, serveRequests,
              dqmEventProcessorFails, processCompletedTopLevelFolders
<1>2. CASE enqueueCommand \/ Environment
  BY <1>2 DEF enqueueCommand, Environment, handleFSMSoapMessage, receiveFragment,
              receiveEndOfLumiSectionMessage, threads
<1> QED
  BY <1>1, <1>2 DEF Next

\* StreamInv is inductive.
LEMMA NextStreams == ASSUME TypeOK, CommandInv, PlaceInv, StreamInv, Next PROVE StreamInv'
<1>1. CASE FragmentProcessor
  BY <1>1, ProcessCommandStreams, EnterStateStreams, CompletionStreams, WorkingStreams
     DEF FragmentProcessor, Working
<1>2. CASE ~FragmentProcessor
  <2>1. UNCHANGED position /\ \A c \in Completions : Underway(c)' => Underway(c)
    BY <1>2, OtherStep DEF Underway, position, fp
  <2>2. CASE DiskWriter
    BY <2>1, <2>2, DiskWriterStreams
  <2>3. CASE ~DiskWriter
    BY <1>2, <2>1, <2>3, OthersStreams, StreamStutter DEF position, machine, dw, dwr, streamVars, flags
  <2> QED
    BY <2>2, <2>3
<1> QED
  BY <1>1, <1>2

-----------------------------------------------------------------------------
(* What run control sees *)

\* A step that neither enters a state nor touches the requests keeps VisibleInv.
LEMMA VisibleStutter ==
  ASSUME VisibleInv, UNCHANGED <<state, visible, dwTarget, flags>>,
         dwPc' = dwPc \/ dwPc' \notin {"destroy", "configure"}
  PROVE  VisibleInv'
<1>1. configurationIsNeeded' <=> configurationIsNeeded
  BY SameFlags
<1> QED
  BY <1>1 DEF VisibleInv

\* What is visible in the state entered, and that no streams are being opened behind it.
LEMMA EnterStateVisible ==
  ASSUME TypeOK, CommandInv, PlaceInv, StreamInv, VisibleInv, enterState
  PROVE  VisibleInv'
<1>1. /\ UNCHANGED <<dwPc, dwTarget>> /\ state' = entering /\ entering # "none"
      /\ visible' = externallyVisibleState(entering)
  BY DEF enterState, CommandInv, dw
<1>2. PICK t \in Transitions : t[1] = state /\ t[3] = entering
  BY <1>1 DEF PlaceInv
<1>3. /\ entering = "Starting" => visible = "Ready"
      /\ entering \in {"DrainingQueues", "FinishingDQM", "Halting"} =>
           state \in RunningStates /\ visible = "Enabled"
      /\ entering = "Stopping" => visible \in {"Ready", "Enabled"}
  BY <1>2, IncomingTransitions DEF VisibleInv, RunningStates
<1>4. entering # "Constructed"
  BY <1>2 DEF Transitions
<1>5. /\ state' \in {"Constructed", "Halted"} => visible' = "Halted"
      /\ state' \in {"Stopped", "Starting"} => visible' = "Ready"
      /\ state' \in RunningStates \cup {"Halting"} => visible' = "Enabled"
      /\ state' = "Stopping" => visible' \in {"Ready", "Enabled"}
      /\ state' = "Failed" => visible' = "Failed"
  BY <1>1, <1>3, <1>4 DEF externallyVisibleState, RunningStates
<1>6. CASE entering \in {"Starting", "Failed"}
  BY <1>1, <1>3, <1>5, <1>6 DEF VisibleInv, externallyVisibleState
<1>7. CASE entering \in {"Stopping", "Halting"}
  <2>1. ~configurationIsNeeded'
    BY <1>7, Zenon DEF enterState, requestStreamDestruction
  <2>2. visible' = visible
    BY <1>1, <1>7 DEF externallyVisibleState
  <2> QED
    BY <1>1, <1>5, <2>1, <2>2 DEF VisibleInv
<1>8. CASE entering \notin {"Starting", "Failed", "Stopping", "Halting"}
  <2>1. entering \in AtRest \cup RunningStates
    BY <1>1, <1>2, <1>8, TransitionTypes
    DEF AtRest, States, NormalStates, ReadyStates, EnabledStates, RunningStates
  <2>2. ~streamChangeOngoing
    BY <1>3, <1>8, <2>1 DEF StreamInv, Resting, RunningStates
  <2>3. ~configurationIsNeeded /\ dwPc \notin Changing
    BY <2>2 DEF StreamInv, streamChangeOngoing
  <2>4. UNCHANGED flags
    BY <1>8 DEF enterState, dwr, flags
  <2>5. ~configurationIsNeeded'
    BY <2>3, <2>4, SameFlags
  <2> QED
    BY <1>1, <1>5, <2>3, <2>5 DEF VisibleInv, Changing
<1> QED
  BY <1>6, <1>7, <1>8

\* VisibleInv is inductive.
LEMMA NextVisible ==
  ASSUME TypeOK, CommandInv, PlaceInv, StreamInv, VisibleInv, Next
  PROVE  VisibleInv'
<1>1. CASE enterState
  BY <1>1, EnterStateVisible
<1>2. CASE processCommand \/ noFragmentToProcess \/ diskWriterIsIdle \/ Working \/ postCommand
  <2>1. UNCHANGED <<state, visible, dw, dwr>>
    BY <1>2 DEF processCommand, noFragmentToProcess, diskWriterIsIdle, Working,
         processOneFragmentIfPossible, processI2OFragment, noFragment, distribute,
         distributeStale, processStaleFragments, streamQueueIsEmpty, postCommand, machine
  <2> QED
    BY <2>1, VisibleStutter DEF dw, dwr, flags
<1>3. CASE ~FragmentProcessor
  <2>1. UNCHANGED <<state, visible>>
    BY <1>3, OtherStep DEF position, machine
  <2>2. CASE ~DiskWriter
    BY <1>3, <2>1, <2>2, OthersStreams, VisibleStutter DEF dw, dwr, flags
  <2>3. CASE \/ dequeueEvent \/ setBusy \/ writeEventToStreams \/ diskWriterFails
    BY <2>1, <2>3, VisibleStutter
    DEF dequeueEvent, setBusy, writeEventToStreams, diskWriterFails, dwr, flags
  <2>4. CASE configureStreams
    BY <2>1, <2>4, VisibleStutter DEF configureStreams, dwr, flags
  <2>5. CASE checkStreamChangeRequest
    <3>1. CASE ~streamChangeIsNeeded
      BY <2>1, <2>5, <3>1, VisibleStutter DEF checkStreamChangeRequest, flags
    <3>2. CASE streamChangeIsNeeded
      <4>1. ~configurationIsNeeded'
        BY <2>5, <3>2, Zenon DEF checkStreamChangeRequest
      <4>2. dwTarget' # 0 => configurationIsNeeded
        BY <2>5, <3>2 DEF checkStreamChangeRequest
      <4> QED
        BY <2>1, <4>1, <4>2 DEF VisibleInv
    <3> QED
      BY <3>1, <3>2
  <2>6. CASE destroyStreams
    <3>1. UNCHANGED <<flags, dwTarget>> /\ dwPc = "destroy"
      BY <2>6 DEF destroyStreams, dwr, flags
    <3> QED
      BY <2>1, <3>1, SameFlags DEF VisibleInv
  <2>7. CASE streamChangeDone
    <3>1. configurationIsNeeded' <=> configurationIsNeeded
      BY <2>7, Zenon DEF streamChangeDone
    <3> QED
      BY <2>1, <2>7, <3>1 DEF VisibleInv, streamChangeDone
  <2> QED
    BY <2>2, <2>3, <2>4, <2>5, <2>6, <2>7 DEF DiskWriter
<1> QED
  BY <1>1, <1>2, <1>3 DEF FragmentProcessor, Working

-----------------------------------------------------------------------------
(* The DQM events *)

\* The requests to the DQMEventProcessor.
LEMMA SameRequests ==
  ASSUME UNCHANGED dqmr
  PROVE  /\ requestsPending' <=> requestsPending
         /\ requestsInProgress' <=> requestsInProgress
         /\ pendingRequests' = pendingRequests
BY Zenon DEF dqmr

\* A step that touches neither the machine nor the DQM events keeps DQMInv.
LEMMA DQMStutter ==
  ASSUME DQMInv, UNCHANGED <<state, entering, dqmPc, dqmTaken, dqmEventStore, dqmr>>,
         dqmEventQueue' # <<>> => dqmEventQueue # <<>> \/ InRunning,
         \A c \in Completions : Underway(c)' => Underway(c)
  PROVE  DQMInv'
<1>1. /\ requestsPending' <=> requestsPending
      /\ requestsInProgress' <=> requestsInProgress
      /\ pendingRequests' = pendingRequests
  BY SameRequests
<1>2. /\ Underway("StopDone")' => Underway("StopDone")
      /\ Underway("HaltDone")' => Underway("HaltDone")
  BY DEF Completions
<1> QED
  BY <1>1, <1>2 DEF DQMInv, Resting, InRunning, requestsOngoing

\* A command leads to rest only once the DQMEventProcessor is done, and leaving Running
\* clears its queue.
LEMMA ProcessCommandDQM ==
  ASSUME TypeOK, CommandInv, PlaceInv, DQMInv, processCommand
  PROVE  DQMInv'
<1>1. /\ UNCHANGED <<state, dqmPc, dqmTaken, dqmEventStore, dqmr, fpCommand>>
      /\ fpCommand = "none" /\ entering = "none"
  BY DEF processCommand, CommandInv, dqm
<1>2. \A c \in Completions : Underway(c)' => Underway(c)
  BY <1>1, CommandTaken, OtherEvents DEF Underway
<1>3. CASE UNCHANGED <<entering, dqmEventQueue>>
  BY <1>1, <1>2, <1>3, DQMStutter
<1>4. CASE \E t \in Transitions : /\ t[1] = state /\ t[2] = Head(commandQueue)
                                  /\ exitActions(t[3]) /\ entering' = t[3]
  <2>1. PICK t \in Transitions : /\ t[1] = state /\ t[2] = Head(commandQueue)
                                 /\ exitActions(t[3]) /\ entering' = t[3]
    BY <1>4
  <2>2. \A c \in Completions : Head(commandQueue) = c => Underway(c)
    BY TailRange DEF TypeOK, Underway, processCommand
  <2>3. dqmEventQueue' # <<>> => InRunning'
    BY <1>1, <2>1 DEF exitActions, InRunning, DQMInv
  <2>4. Resting' => ~requestsOngoing /\ dqmEventStore = {} /\ dqmPc # "add"
    <3>1. entering' \in AtRest =>
            \/ state \in AtRest
            \/ state \in Closing /\ Head(commandQueue) \in {"StopDone", "HaltDone"}
      BY <2>1, IncomingTransitions
    <3> QED
      BY <1>1, <2>2, <3>1 DEF Resting, DQMInv, Completions, requestsOngoing
  <2>5. /\ requestsPending' <=> requestsPending
        /\ requestsInProgress' <=> requestsInProgress
        /\ pendingRequests' = pendingRequests
    BY <1>1, SameRequests
  <2> QED
    BY <1>1, <1>2, <2>3, <2>4, <2>5 DEF DQMInv, requestsOngoing, Completions
<1> QED
  BY <1>3, <1>4 DEF processCommand

\* The requests of the entry actions are pending until they are taken.
LEMMA EnterStateDQM ==
  ASSUME TypeOK, CommandInv, PlaceInv, DQMInv, enterState
  PROVE  DQMInv'
<1>1. /\ UNCHANGED <<dqmPc, dqmTaken, dqmEventStore, dqmEventQueue, fpCommand>>
      /\ state' = entering /\ entering' = "none" /\ entering # "none"
  BY DEF enterState, CommandInv, dqm
<1>2. \A c \in Completions : Underway(c)' => Underway(c)
  BY <1>1, EntryCommands DEF Underway
<1>3. dqmEventQueue' # <<>> => InRunning'
  BY <1>1 DEF DQMInv, InRunning
<1>4. CASE entering \in {"Starting", "FinishingDQM", "Stopping", "Halting"}
  <2>1. pendingRequests' # {} /\ UNCHANGED requestsInProgress
    BY <1>4 DEF enterState, requestConfiguration, requestEndOfRun, requestStoreDestruction
  <2>2. requestsPending'
    BY <1>4, Zenon DEF enterState, requestConfiguration, requestEndOfRun, requestStoreDestruction
  <2>3. entering \in Closing => ~Underway("StopDone") /\ ~Underway("HaltDone")
    BY <1>1 DEF PlaceInv, Closing
  <2>4. requestsInProgress' <=> requestsInProgress
    BY <2>1, Zenon
  <2> QED
    BY <1>1, <1>2, <1>3, <1>4, <2>1, <2>2, <2>3, <2>4 DEF DQMInv, Resting, AtRest, Completions
<1>5. CASE entering \notin {"Starting", "FinishingDQM", "Stopping", "Halting"}
  <2>1. UNCHANGED dqmr
    BY <1>5 DEF enterState
  <2>2. /\ requestsPending' <=> requestsPending
        /\ requestsInProgress' <=> requestsInProgress
        /\ pendingRequests' = pendingRequests
    BY <2>1, SameRequests
  <2> QED
    BY <1>1, <1>3, <1>5, <2>2 DEF DQMInv, Resting, AtRest, Closing, requestsOngoing
<1> QED
  BY <1>4, <1>5

\* StopDone and HaltDone are decided on when no DQM request is outstanding.
LEMMA CompletionDQM ==
  ASSUME TypeOK, CommandInv, PlaceInv, DQMInv, noFragmentToProcess \/ diskWriterIsIdle
  PROVE  DQMInv'
<1>1. /\ UNCHANGED <<state, entering, dqm, dqmr>> /\ entering = "none"
      /\ \A c \in Completions : ~Underway(c)
  BY CompletionDecided DEF noFragmentToProcess, diskWriterIsIdle, machine
<1>2. dqmEventQueue' \in {dqmEventQueue, <<>>}
  BY DEF noFragmentToProcess, diskWriterIsIdle
<1>3. \A c \in {"StopDone", "HaltDone"} : Underway(c)' => c = Completion
  BY CompletionDecided DEF Underway, Completions
<1>4. Completion \in {"StopDone", "HaltDone"} => ~requestsOngoing
  BY DEF Completion
<1>5. /\ requestsPending' <=> requestsPending
      /\ requestsInProgress' <=> requestsInProgress
      /\ pendingRequests' = pendingRequests
  BY <1>1, SameRequests
<1> QED
  BY <1>1, <1>2, <1>3, <1>4, <1>5 DEF DQMInv, dqm, Resting, InRunning, requestsOngoing

\* DQM events are queued in Running only.
LEMMA WorkingDQM ==
  ASSUME TypeOK, CommandInv, PlaceInv, DQMInv, Working \/ postCommand
  PROVE  DQMInv'
<1>1. UNCHANGED <<state, entering, dqm, dqmr>>
  BY DEF Working, processOneFragmentIfPossible, processI2OFragment, noFragment, distribute,
       distributeStale, processStaleFragments, streamQueueIsEmpty, postCommand, machine
<1>2. \A c \in Completions : Underway(c)' => Underway(c)
  BY WorkingCommands, PostedCommand, OtherEvents DEF Underway, postCommand
<1>3. CASE UNCHANGED dqmEventQueue
  BY <1>1, <1>2, <1>3, DQMStutter DEF dqm
<1>4. CASE distribute \/ distributeStale
  <2>1. InRunning
    BY <1>4 DEF distribute, distributeStale, PlaceInv, CommandInv, InRunning, RunningStates
  <2> QED
    BY <1>1, <1>2, <2>1, DQMStutter DEF dqm
<1> QED
  BY <1>3, <1>4 DEF Working, processOneFragmentIfPossible, processI2OFragment, noFragment,
       processStaleFragments, streamQueueIsEmpty, postCommand

\* Serving a request of Stopping or Halting empties the store, and nothing fills it again.
LEMMA DQMEventProcessorDQM ==
  ASSUME TypeOK, CommandInv, PlaceInv, DQMInv,
         DQMEventProcessor \/ processCompletedTopLevelFolders,
         UNCHANGED position, \A c \in Completions : Underway(c)' => Underway(c)
  PROVE  DQMInv'
<1>1. UNCHANGED <<state, entering>>
  BY DEF position, machine
<1>2. /\ InRunning => ~Resting /\ state \notin Closing
      /\ InRunning' <=> InRunning
      /\ Resting' <=> Resting
  BY <1>1 DEF InRunning, Resting, RunningStates, AtRest, Closing
<1>3. /\ Underway("StopDone")' => Underway("StopDone")
      /\ Underway("HaltDone")' => Underway("HaltDone")
  BY DEF Completions
<1>4. CASE dequeueDQMEvent
  <2>1. InRunning /\ UNCHANGED dqmr /\ dqmPc' = "add"
    BY <1>4 DEF dequeueDQMEvent, DQMInv
  <2> QED
    BY <1>1, <1>2, <2>1, SameRequests DEF DQMInv
<1>5. CASE addDQMEvent
  <2>1. /\ UNCHANGED <<dqmr, dqmEventQueue>> /\ dqmPc = "add"
        /\ dqmPc' \in {"requests", "failing"}
    BY <1>5 DEF addDQMEvent
  <2> QED
    BY <1>1, <1>2, <1>3, <2>1, SameRequests DEF DQMInv, requestsOngoing
<1>6. CASE getRequests
  <2>1. CASE requestsPending
    <3>1. ~requestsPending' /\ requestsInProgress'
      BY <1>6, <2>1, Zenon DEF getRequests
    <3>2. dqmTaken' = pendingRequests /\ dqmPc' = "serve" /\ UNCHANGED dqmEventQueue
      BY <1>6, <2>1 DEF getRequests
    <3> QED
      BY <1>1, <1>2, <1>3, <2>1, <3>1, <3>2 DEF DQMInv, requestsOngoing
  <2>2. CASE ~requestsPending
    <3>1. UNCHANGED <<dqmr, dqmEventQueue, dqmEventStore>> /\ dqmPc' = "waiting"
      BY <1>6, <2>2 DEF getRequests
    <3> QED
      BY <1>1, <1>2, <1>3, <2>2, <3>1, SameRequests DEF DQMInv, requestsOngoing
  <2> QED
    BY <2>1, <2>2
<1>7. CASE serveRequests
  <2>1. /\ UNCHANGED <<pendingRequests, dqmEventQueue>> /\ dqmPc = "serve"
        /\ dqmPc' \in {"waiting", "failing"}
        /\ dqmTaken # {} => dqmEventStore' = {} \/ dqmPc' = "failing"
    BY <1>7 DEF serveRequests
  <2>2. UNCHANGED requestsPending /\ (dqmPc' = "failing" => UNCHANGED requestsInProgress)
    BY <1>7 DEF serveRequests
  <2>3. requestsPending' <=> requestsPending
    BY <2>2, Zenon
  <2>4. ASSUME dqmPc' = "failing" PROVE requestsInProgress' <=> requestsInProgress
    <3>1. UNCHANGED requestsInProgress
      BY <2>2, <2>4
    <3> QED
      BY <3>1, Zenon
  <2> QED
    BY <1>1, <1>2, <1>3, <2>1, <2>3, <2>4 DEF DQMInv, requestsOngoing
<1>8. CASE dqmEventProcessorFails
  <2>1. UNCHANGED <<dqmr, dqmEventQueue, dqmEventStore>> /\ dqmPc' = "waiting"
    BY <1>8 DEF dqmEventProcessorFails
  <2> QED
    BY <1>1, <1>2, <1>3, <2>1, SameRequests DEF DQMInv, requestsOngoing
<1>9. CASE processCompletedTopLevelFolders
  <2>1. /\ UNCHANGED <<dqmr, dqmEventQueue, dqmPc, dqmTaken>>
        /\ dqmEventStore # {}
    BY <1>9 DEF processCompletedTopLevelFolders
  <2> QED
    BY <1>1, <1>2, <1>3, <2>1, SameRequests DEF DQMInv, requestsOngoing
<1> QED
  BY <1>4, <1>5, <1>6, <1>7, <1>8, <1>9 DEF DQMEventProcessor

\* Nobody else touches the DQM events.
LEMMA OthersDQM ==
  ASSUME Next, ~FragmentProcessor, ~DQMEventProcessor, ~processCompletedTopLevelFolders
  PROVE  UNCHANGED <<dqm, dqmr, dqmEventQueue>>
<1>1. CASE DiskWriter
  BY <1>1 DEF DiskWriter, dequeueEvent, setBusy, writeEventToStreams, checkStreamChangeRequest,
              destroyStreams, configureStreams, streamChangeDone, diskWriterFails
<1>2. CASE enqueueCommand \/ Environment
  BY <1>2 DEF enqueueCommand, Environment, handleFSMSoapMessage, receiveFragment,
              receiveEndOfLumiSectionMessage, threads
<1> QED
  BY <1>1, <1>2 DEF Next

\* DQMInv is inductive.
LEMMA NextDQM == ASSUME TypeOK, CommandInv, PlaceInv, DQMInv, Next PROVE DQMInv'
<1>1. CASE FragmentProcessor
  BY <1>1, ProcessCommandDQM, EnterStateDQM, CompletionDQM, WorkingDQM
     DEF FragmentProcessor, Working
<1>2. CASE ~FragmentProcessor
  <2>1. UNCHANGED position /\ \A c \in Completions : Underway(c)' => Underway(c)
    BY <1>2, OtherStep DEF Underway, position, fp
  <2>2. CASE DQMEventProcessor \/ processCompletedTopLevelFolders
    BY <2>1, <2>2, DQMEventProcessorDQM
  <2>3. CASE ~(DQMEventProcessor \/ processCompletedTopLevelFolders)
    BY <1>2, <2>1, <2>3, OthersDQM, DQMStutter DEF position, machine, dqm
  <2> QED
    BY <2>2, <2>3
<1> QED
  BY <1>1, <1>2

-----------------------------------------------------------------------------
(* The events of the run *)

Handling == {"distribute", "distributeStale", "drainStale"}

\* The DiskWriter's hands, and the streams they write to.
hands == <<dwItem, dwPc, streams, streamChangeIsNeeded>>

\* Unchanged variables of the DiskWriter, those of its requests included.
LEMMA SameHands ==
  ASSUME UNCHANGED <<dw, dwr>>
  PROVE  /\ UNCHANGED <<dwItem, dwPc, streams>>
         /\ streamChangeIsNeeded' <=> streamChangeIsNeeded
<1>1. UNCHANGED <<dwItem, dwPc, streams>>
  BY DEF dw
<1>2. streamChangeIsNeeded' <=> streamChangeIsNeeded
  BY Zenon DEF dwr
<1> QED
  BY <1>1, <1>2

\* A step that adds no event, moves nobody and drains nothing keeps EventInv.
LEMMA EventStutter ==
  ASSUME EventInv, UNCHANGED <<state, entering, run, dwItem, dwPc, streams>>,
         streamChangeIsNeeded' <=> streamChangeIsNeeded,
         store' \subseteq store,
         \A item \in Range(streamQueue') : item \in Range(streamQueue) \/ item.event = 0,
         fpEvent' # 0 <=> fpPc' \in Handling,
         fpPc' = "drained" => fpPc = "drained" \/ (NoEventQueued /\ store = {}),
         Underway("QueuesEmpty")' => Underway("QueuesEmpty") \/ fpPc = "drained"
  PROVE  EventInv'
BY DEF EventInv, InRunning, NoEventQueued, Handling

\* Leaving Running clears what the events were in; FinishingDQM is reached with nothing left.
LEMMA ProcessCommandEvents ==
  ASSUME TypeOK, CommandInv, PlaceInv, EventInv, processCommand
  PROVE  EventInv'
<1>1. /\ UNCHANGED <<state, run, dw, dwr, fpCommand, fpEvent>>
      /\ fpCommand = "none" /\ entering = "none"
      /\ fpPc = "commands" /\ fpPc' \in {"commands", "enter"}
  BY DEF processCommand, CommandInv
<1>2. Underway("QueuesEmpty")' => Underway("QueuesEmpty")
  BY <1>1, CommandTaken DEF Underway, Completions
<1>3. UNCHANGED <<dwItem, dwPc, streams>> /\ (streamChangeIsNeeded' <=> streamChangeIsNeeded)
  BY <1>1, SameHands
<1>4. fpEvent = 0
  BY <1>1 DEF EventInv
<1>5. CASE UNCHANGED <<entering, store, streamQueue>>
  BY <1>1, <1>2, <1>3, <1>4, <1>5, EventStutter DEF Handling
<1>6. CASE \E t \in Transitions : /\ t[1] = state /\ t[2] = Head(commandQueue)
                                  /\ exitActions(t[3]) /\ entering' = t[3]
  <2>1. PICK t \in Transitions : /\ t[1] = state /\ t[2] = Head(commandQueue)
                                 /\ exitActions(t[3]) /\ entering' = t[3]
    BY <1>6
  <2>2. \/ UNCHANGED <<store, streamQueue>> /\ (InRunning => InRunning')
        \/ store' = {} /\ Range(streamQueue') = {}
    BY <1>1, <2>1, EmptyRange DEF exitActions, InRunning
  <2>3. entering' = "FinishingDQM" => state = "DrainingQueues" /\ Underway("QueuesEmpty")
    <3>1. entering' = "FinishingDQM" =>
            state = "DrainingQueues" /\ Head(commandQueue) = "QueuesEmpty"
      BY <2>1, IncomingTransitions
    <3>2. Head(commandQueue) \in Range(commandQueue)
      BY TailRange DEF TypeOK, processCommand
    <3> QED
      BY <3>1, <3>2 DEF Underway
  <2> QED
    BY <1>1, <1>2, <1>3, <1>4, <2>2, <2>3 DEF EventInv, NoEventQueued
<1> QED
  BY <1>5, <1>6 DEF processCommand

\* Outside Running, an event in the hands of the DiskWriter has a request waiting behind it.
LEMMA EnterStateEvents ==
  ASSUME TypeOK, CommandInv, PlaceInv, StreamInv, EventInv, enterState
  PROVE  EventInv'
<1>1. /\ UNCHANGED <<store, streamQueue, fpEvent, fpCommand, dwItem, dwPc, streams>>
      /\ state' = entering /\ entering' = "none" /\ entering # "none"
      /\ fpPc = "enter" /\ fpPc' = "commands"
      /\ run' = IF entering = "Starting" THEN run + 1 ELSE run
  BY DEF enterState, CommandInv, dw
<1>2. PICK t \in Transitions : t[1] = state /\ t[3] = entering
  BY <1>1 DEF PlaceInv
<1>3. InRunning => InRunning' /\ run' = run
  BY <1>1 DEF InRunning, RunningStates
<1>4. dwItem.event # 0 => state' \in RunningStates \/ streamChangeIsNeeded'
  <2>1. CASE entering \in {"Starting", "Stopping", "Halting", "Failed"}
    BY <2>1, Zenon DEF enterState, requestStreamConfiguration, requestStreamDestruction
  <2>2. CASE entering \in RunningStates
    BY <1>1, <2>2
  <2>3. CASE entering \in AtRest
    <3>1. state \notin RunningStates /\ ~streamChangeIsNeeded
      BY <1>2, <2>3, IncomingTransitions
      DEF StreamInv, Resting, streamChangeOngoing, AtRest, Closing, RunningStates
    <3> QED
      BY <3>1 DEF EventInv
  <2> QED
    BY <1>1, <1>2, <2>1, <2>2, <2>3, TransitionTypes
    DEF AtRest, States, NormalStates, ReadyStates, EnabledStates, RunningStates
<1>5. ~(entering = "DrainingQueues" /\ Underway("QueuesEmpty")')
  BY <1>1, EntryCommands DEF PlaceInv, Underway, Completions
<1> QED
  BY <1>1, <1>3, <1>4, <1>5 DEF EventInv, NoEventQueued, Handling

\* Looking for stale events adds none.
LEMMA NoFragmentToProcessEvents ==
  ASSUME TypeOK, CommandInv, PlaceInv, EventInv, noFragmentToProcess
  PROVE  EventInv'
<1>1. /\ UNCHANGED <<state, entering, run, streamQueue, dw, dwr>>
      /\ ~Underway("QueuesEmpty")
  BY CompletionDecided DEF noFragmentToProcess, machine, Completions
<1>2. UNCHANGED <<dwItem, dwPc, streams>> /\ (streamChangeIsNeeded' <=> streamChangeIsNeeded)
  BY <1>1, SameHands
<1>3. /\ store' \subseteq store /\ fpPc' # "drained"
      /\ fpEvent' # 0 <=> fpPc' \in Handling
  <2>1. fpEvent = 0 /\ \A e \in store : e # 0
    BY DEF noFragmentToProcess, EventInv, TypeOK, EventIds
  <2> QED
    BY <2>1 DEF noFragmentToProcess, takeStaleEvent, Handling
<1>4. ~Underway("QueuesEmpty")'
  BY CompletionDecided DEF Underway, Completions, Completion, noFragmentToProcess, diskWriterIsIdle
<1> QED
  BY <1>1, <1>2, <1>3, <1>4, EventStutter

\* QueuesEmpty is decided on when no event is queued or stored.
LEMMA DiskWriterIsIdleEvents ==
  ASSUME TypeOK, CommandInv, PlaceInv, EventInv, diskWriterIsIdle
  PROVE  EventInv'
<1>1. /\ UNCHANGED <<state, entering, run, streamQueue, store, fpEvent, dw, dwr>>
      /\ fpPc = "drained" /\ fpPc' \in {"commands", "enqueue"}
  BY DEF diskWriterIsIdle, machine
<1>2. UNCHANGED <<dwItem, dwPc, streams>> /\ (streamChangeIsNeeded' <=> streamChangeIsNeeded)
  BY <1>1, SameHands
<1>3. fpEvent = 0
  BY <1>1 DEF EventInv
<1> QED
  BY <1>1, <1>2, <1>3, EventStutter DEF Handling

\* Events are stored and queued in Running only, for its run, and in DrainingQueues only
\* before the queues have been seen empty.
LEMMA WorkingEvents ==
  ASSUME TypeOK, CommandInv, PlaceInv, StreamInv, EventInv, Working
  PROVE  EventInv'
<1>1. /\ UNCHANGED <<state, entering, run, dw, dwr>> /\ entering = "none"
      /\ (Underway("QueuesEmpty")' => Underway("QueuesEmpty"))
  BY WorkingCommands DEF Working, processOneFragmentIfPossible, processI2OFragment, noFragment,
     distribute, distributeStale, processStaleFragments, streamQueueIsEmpty, machine,
     CommandInv, Underway
<1>2. UNCHANGED <<dwItem, dwPc, streams>> /\ (streamChangeIsNeeded' <=> streamChangeIsNeeded)
  BY <1>1, SameHands
<1>3. CASE processOneFragmentIfPossible \/ noFragment
  <2>1. UNCHANGED <<store, streamQueue, fpEvent>> /\ fpPc \notin Handling
        /\ fpPc' \in {"fragment", "idle"}
    BY <1>3 DEF processOneFragmentIfPossible, noFragment, Handling
  <2> QED
    BY <1>1, <1>2, <2>1, EventStutter DEF EventInv, Handling
<1>4. CASE processI2OFragment
  <2>1. Head(fragmentQueue).event # 0
    <3>1. Head(fragmentQueue) \in Fragments
      BY <1>4, SequenceTypes DEF TypeOK, processI2OFragment
    <3> QED
      BY <3>1 DEF Fragments, EventIds
  <2>2. fpPc = "fragment" /\ fpEvent = 0 /\ UNCHANGED streamQueue
    BY <1>4 DEF processI2OFragment, EventInv
  <2>3. CASE state = "Processing"
    <3>1. fpEvent' # 0 <=> fpPc' \in Handling
      BY <1>4, <2>1, <2>2, <2>3 DEF processI2OFragment, Handling
    <3>2. fpPc' # "drained"
      BY <1>4 DEF processI2OFragment
    <3> QED
      BY <1>1, <1>2, <2>2, <2>3, <3>1, <3>2 DEF EventInv, InRunning, RunningStates, Handling
  <2>4. CASE state # "Processing"
    <3>1. UNCHANGED <<store, fpEvent>> /\ fpPc' = "commands"
      BY <1>4, <2>4 DEF processI2OFragment
    <3> QED
      BY <1>1, <1>2, <2>2, <3>1, EventStutter DEF Handling
  <2> QED
    BY <2>3, <2>4
<1>5. CASE distribute \/ distributeStale
  <2>1. /\ fpPc \in Handling /\ fpEvent' = 0 /\ fpPc' \in {"commands", "drain"}
        /\ UNCHANGED store
        /\ addEventToRelevantQueues(fpEvent, FALSE) \/ addEventToRelevantQueues(fpEvent, TRUE)
    BY <1>5 DEF distribute, distributeStale, Handling
  <2>2. state \in {"Processing", "DrainingQueues"} /\ selectors = run
    BY <1>1, <2>1 DEF PlaceInv, Handling, StreamInv, InRunning, RunningStates
  <2>3. ~Underway("QueuesEmpty")
    BY <2>1, NothingWaits DEF CommandInv, Underway, Handling, Completions
  <2>4. [event |-> fpEvent, run |-> selectors] \in Items
    BY DEF TypeOK, Items
  <2>5. Range(Append(streamQueue, [event |-> fpEvent, run |-> selectors]))
          = Range(streamQueue) \cup {[event |-> fpEvent, run |-> selectors]}
    BY <2>4, AppendRange DEF TypeOK
  <2>6. \A item \in Range(streamQueue') : item \in Range(streamQueue) \/ item.run = run
    <3>1. \/ streamQueue' = streamQueue
          \/ streamQueue' = Append(streamQueue, [event |-> fpEvent, run |-> selectors])
      BY <2>1 DEF addEventToRelevantQueues
    <3>2. Range(streamQueue') \subseteq
            Range(streamQueue) \cup {[event |-> fpEvent, run |-> selectors]}
      BY <2>5, <3>1, Zenon
    <3>3. [event |-> fpEvent, run |-> selectors].run = run
      BY <2>2
    <3> QED
      BY <3>2, <3>3
  <2> QED
    BY <1>1, <1>2, <2>1, <2>2, <2>3, <2>6 DEF EventInv, InRunning, RunningStates, Handling
<1>6. CASE processStaleFragments
  <2>1. fpPc = "drain" /\ UNCHANGED streamQueue /\ fpEvent = 0 /\ \A e \in store : e # 0
    BY <1>6 DEF processStaleFragments, EventInv, TypeOK, EventIds
  <2>2. store' \subseteq store /\ fpPc' # "drained" /\ (fpEvent' # 0 <=> fpPc' \in Handling)
    BY <1>6, <2>1 DEF processStaleFragments, takeStaleEvent, Handling
  <2> QED
    BY <1>1, <1>2, <2>1, <2>2, EventStutter
<1>7. CASE streamQueueIsEmpty
  <2>1. /\ UNCHANGED <<store, streamQueue, fpEvent>> /\ fpEvent = 0
        /\ fpPc' \in {"drained", "commands"}
        /\ fpPc' = "drained" => store = {} /\ streamQueue = <<>>
    BY <1>7 DEF streamQueueIsEmpty, EventInv
  <2> QED
    BY <1>1, <1>2, <2>1, EventStutter, EmptyRange DEF NoEventQueued, Handling
<1> QED
  BY <1>3, <1>4, <1>5, <1>6, <1>7 DEF Working

\* Posting a completion does not touch the events.
LEMMA PostCommandEvents ==
  ASSUME TypeOK, CommandInv, PlaceInv, EventInv, postCommand
  PROVE  EventInv'
<1>1. /\ UNCHANGED <<state, entering, run, streamQueue, store, fpEvent, dw, dwr>>
      /\ fpPc = "enqueue" /\ fpPc' = "commands"
  BY DEF postCommand, machine
<1>2. UNCHANGED <<dwItem, dwPc, streams>> /\ (streamChangeIsNeeded' <=> streamChangeIsNeeded)
  BY <1>1, SameHands
<1>3. Underway("QueuesEmpty")' => Underway("QueuesEmpty")
  BY PostedCommand DEF Underway, postCommand, Completions
<1>4. fpEvent = 0
  BY <1>1 DEF EventInv
<1> QED
  BY <1>1, <1>2, <1>3, <1>4, EventStutter DEF Handling

\* The DiskWriter does not change the streams while it holds an event.
LEMMA DiskWriterEvents ==
  ASSUME TypeOK, CommandInv, PlaceInv, StreamInv, EventInv, DiskWriter,
         UNCHANGED <<position, fpCommand>>, \A c \in Completions : Underway(c)' => Underway(c)
  PROVE  EventInv'
<1>1. /\ UNCHANGED <<state, entering, run, store, fpPc, fpEvent>>
      /\ Underway("QueuesEmpty")' => Underway("QueuesEmpty")
  BY DEF position, machine, fp, Completions
<1>2. InRunning' <=> InRunning
  BY <1>1 DEF InRunning
<1>3. CASE dequeueEvent
  <2>1. /\ UNCHANGED streams /\ dwItem' = Head(streamQueue) /\ dwPc' = "popped"
    BY <1>3 DEF dequeueEvent
  <2>2. /\ Range(streamQueue') \subseteq Range(streamQueue)
        /\ Head(streamQueue) \in Range(streamQueue)
    BY <1>3, TailRange DEF dequeueEvent, TypeOK
  <2>3. InRunning => state \in RunningStates /\ streams = run
    BY DEF InRunning, StreamInv
  <2> QED
    BY <1>1, <1>2, <2>1, <2>2, <2>3 DEF EventInv, NoEventQueued
<1>4. CASE setBusy
  <2>1. UNCHANGED <<streamQueue, dwItem, streams>> /\ dwPc' = "write" /\ dwPc = "popped"
    BY <1>4 DEF setBusy
  <2>2. streamChangeIsNeeded' <=> streamChangeIsNeeded
    BY <1>4, Zenon DEF setBusy
  <2> QED
    BY <1>1, <1>2, <2>1, <2>2 DEF EventInv, NoEventQueued
<1>5. CASE writeEventToStreams
  <2>1. UNCHANGED streamQueue /\ dwItem' = NoItem /\ NoItem.event = 0
    BY <1>5 DEF writeEventToStreams, NoItem
  <2> QED
    BY <1>1, <1>2, <2>1 DEF EventInv, NoEventQueued
<1>6. CASE \/ checkStreamChangeRequest \/ destroyStreams \/ configureStreams
           \/ streamChangeDone \/ diskWriterFails
  <2>1. UNCHANGED <<streamQueue, dwItem>> /\ dwPc \notin {"popped", "write"}
    BY <1>6 DEF checkStreamChangeRequest, destroyStreams, configureStreams, streamChangeDone,
                diskWriterFails
  <2>2. dwItem.event = 0
    BY <2>1 DEF EventInv
  <2> QED
    BY <1>1, <1>2, <2>1, <2>2 DEF EventInv, NoEventQueued
<1> QED
  BY <1>3, <1>4, <1>5, <1>6 DEF DiskWriter

\* EventInv is inductive.
LEMMA NextEvents ==
  ASSUME TypeOK, CommandInv, PlaceInv, StreamInv, EventInv, Next
  PROVE  EventInv'
<1>1. CASE FragmentProcessor
  BY <1>1, ProcessCommandEvents, EnterStateEvents, NoFragmentToProcessEvents,
     DiskWriterIsIdleEvents, WorkingEvents, PostCommandEvents
     DEF FragmentProcessor, Working
<1>2. CASE ~FragmentProcessor
  <2>1. /\ UNCHANGED <<position, fpCommand>>
        /\ \A c \in Completions : Underway(c)' => Underway(c)
    BY <1>2, OtherStep DEF Underway, position, fp
  <2>2. CASE DiskWriter
    BY <2>1, <2>2, DiskWriterEvents
  <2>3. CASE ~DiskWriter
    <3>1. UNCHANGED <<dw, dwr>>
      BY <1>2, <2>3, OthersStreams
    <3>2. streamQueue' = streamQueue \/ streamQueue' = Append(streamQueue, NoItem)
      BY <1>2, <2>3
      DEF Next, DQMEventProcessor, dequeueDQMEvent, addDQMEvent, getRequests, serveRequests,
          dqmEventProcessorFails, processCompletedTopLevelFolders, enqueueCommand, Environment,
          handleFSMSoapMessage, receiveFragment, receiveEndOfLumiSectionMessage, threads
    <3>3. NoItem \in Items /\ NoItem.event = 0
      BY EventAssumption DEF NoItem, Items
    <3>4. Range(Append(streamQueue, NoItem)) = Range(streamQueue) \cup {NoItem}
      BY <3>3, AppendRange DEF TypeOK
    <3>5. \A item \in Range(streamQueue') : item \in Range(streamQueue) \/ item.event = 0
      BY <3>2, <3>3, <3>4
    <3> QED
      BY <2>1, <3>1, <3>5, SameHands, EventStutter
      DEF position, machine, fp, Completions, EventInv, Handling
  <2> QED
    BY <2>2, <2>3
<1> QED
  BY <1>1, <1>2

-----------------------------------------------------------------------------
(* The events that the DiskWriter was handed *)

\* An event of the queue or the DiskWriter's hands stands for the pair it was made of.
LEMMA Entries ==
  ASSUME NEW q \in EventIds \X Nat
  PROVE  /\ Entry(q).event = q[1] /\ Entry(q).run = q[2] /\ q[1] # 0
         /\ q = <<Entry(q).event, Entry(q).run>>
BY DEF Entry, EventIds

\* A step that neither queues nor writes keeps QueuedInv.
LEMMA QueuedStutter ==
  ASSUME QueuedInv, UNCHANGED <<written, queued, streamQueue, dwItem>>,
         lost \subseteq lost', aborted \subseteq aborted'
  PROVE  QueuedInv'
BY DEF QueuedInv, EventsUnderway

\* Running is left in order only from FinishingDQM.
LEMMA LeavingRunning ==
  ASSUME NEW t \in Transitions, t[1] \in RunningStates, t[3] \notin RunningStates
  PROVE  t[2] \in {"Halt", "EmergencyStop", "Fail"} \/ t[1] = "FinishingDQM"
BY DEF Transitions, RunningStates

\* What leaving Running does to the events, if it is left.
LEMMA ProcessCommandClears ==
  ASSUME TypeOK, CommandInv, processCommand
  PROVE  \/ UNCHANGED <<fragmentQueue, streamQueue, store>> /\ aborted \subseteq aborted'
         \/ /\ fragmentQueue' = <<>> /\ streamQueue' = <<>> /\ store' = {}
            /\ aborted \subseteq aborted'
            /\ run \in aborted' \/ state = "FinishingDQM"
<1>1. CASE UNCHANGED <<fragmentQueue, streamQueue, store, aborted>>
  BY <1>1
<1>2. CASE \E t \in Transitions :
             /\ t[1] = state /\ exitActions(t[3])
             /\ aborted' = IF state \in RunningStates /\ t[2] \in {"Halt", "EmergencyStop", "Fail"}
                           THEN aborted \cup {run} ELSE aborted
  <2>1. PICK t \in Transitions :
             /\ t[1] = state /\ exitActions(t[3])
             /\ aborted' = IF state \in RunningStates /\ t[2] \in {"Halt", "EmergencyStop", "Fail"}
                           THEN aborted \cup {run} ELSE aborted
    BY <1>2
  <2> QED
    BY <2>1, LeavingRunning DEF exitActions
<1> QED
  BY <1>1, <1>2 DEF processCommand

\* The events that leaving Running clears are those of a run that is cut short.
LEMMA ProcessCommandQueued ==
  ASSUME TypeOK, CommandInv, EventInv, QueuedInv, processCommand
  PROVE  QueuedInv'
<1>1. UNCHANGED <<written, queued, lost, dwItem, dw, dwr>>
  BY DEF processCommand, dw
<1>2. CASE UNCHANGED streamQueue /\ aborted \subseteq aborted'
  BY <1>1, <1>2, QueuedStutter
<1>3. CASE /\ streamQueue' = <<>> /\ aborted \subseteq aborted'
           /\ run \in aborted' \/ state = "FinishingDQM"
  <2>1. Range(streamQueue') = {}
    BY <1>3, EmptyRange
  <2>2. ASSUME NEW q \in queued, Entry(q) \in Range(streamQueue)
        PROVE  q[2] \in aborted'
    <3>1. Entry(q).event # 0 /\ Entry(q).run = q[2]
      BY Entries DEF QueuedInv
    <3>2. Entry(q).run = run /\ ~NoEventQueued
      BY <2>2, <3>1 DEF EventInv, NoEventQueued
    <3> QED
      BY <1>3, <3>1, <3>2 DEF EventInv
  <2> QED
    BY <1>1, <1>3, <2>1, <2>2 DEF QueuedInv, EventsUnderway
<1> QED
  BY <1>2, <1>3, ProcessCommandClears

\* The event that is queued is remembered as queued.
LEMMA AddEventQueued ==
  ASSUME TypeOK, CommandInv, PlaceInv, StreamInv, EventInv, QueuedInv,
         distribute \/ distributeStale
  PROVE  QueuedInv'
<1> DEFINE item == [event |-> fpEvent, run |-> selectors]
<1>1. /\ UNCHANGED <<written, lost, aborted, dwItem>> /\ fpPc \in Handling
      /\ addEventToRelevantQueues(fpEvent, FALSE) \/ addEventToRelevantQueues(fpEvent, TRUE)
  BY DEF distribute, distributeStale, dw, Handling
<1>2. fpEvent \in EventIds /\ selectors \in Nat
  BY <1>1 DEF EventInv, Handling, TypeOK, EventIds
<1>3. CASE UNCHANGED <<streamQueue, queued>>
  BY <1>1, <1>3, QueuedStutter
<1>4. CASE streamQueue' = Append(streamQueue, item) /\ queued' = queued \cup {<<fpEvent, selectors>>}
  <2>1. item \in Items
    BY DEF TypeOK, Items
  <2>2. Range(Append(streamQueue, item)) = Range(streamQueue) \cup {item}
    BY <2>1, AppendRange DEF TypeOK
  <2>3. Range(streamQueue') = Range(streamQueue) \cup {item}
    BY <1>4, <2>2
  <2>4. item.event = fpEvent /\ item.run = selectors /\ Entry(<<fpEvent, selectors>>) = item
    BY DEF Entry
  <2>5. queued' \subseteq EventIds \X Nat
    BY <1>2, <1>4 DEF QueuedInv
  <2>6. \A i \in EventsUnderway' : <<i.event, i.run>> \in queued'
    <3> HIDE DEF item
    <3> QED
      BY <1>1, <1>4, <2>3, <2>4 DEF QueuedInv, EventsUnderway
  <2>7. ASSUME NEW q \in queued'
        PROVE  \/ q \in written' \/ q[1] \in lost' \/ q[2] \in aborted'
               \/ Entry(q) \in Range(streamQueue') \cup {dwItem'}
    <3> HIDE DEF item
    <3>1. CASE q \in queued
      BY <1>1, <2>3, <3>1 DEF QueuedInv
    <3>2. CASE q = <<fpEvent, selectors>>
      BY <2>3, <2>4, <3>2
    <3> QED
      BY <1>4, <3>1, <3>2
  <2> QED
    BY <1>1, <1>4, <2>5, <2>6, <2>7 DEF QueuedInv
<1> QED
  BY <1>1, <1>3, <1>4 DEF addEventToRelevantQueues

\* What the DiskWriter takes is in its hands.
LEMMA DequeueQueued ==
  ASSUME TypeOK, EventInv, QueuedInv, dequeueEvent
  PROVE  QueuedInv'
<1>1. /\ UNCHANGED <<written, queued, lost, aborted>> /\ dwItem' = Head(streamQueue)
      /\ dwPc = "waiting"
  BY DEF dequeueEvent, history
<1>2. /\ Range(streamQueue') \subseteq Range(streamQueue)
      /\ Head(streamQueue) \in Range(streamQueue)
      /\ Range(streamQueue) \subseteq Range(streamQueue') \cup {Head(streamQueue)}
  BY TailRange DEF dequeueEvent, TypeOK
<1>3. dwItem.event = 0
  BY <1>1 DEF EventInv
<1>4. \A q \in queued : Entry(q) # dwItem
  BY <1>3, Entries DEF QueuedInv
<1>5. EventsUnderway' \subseteq EventsUnderway
  BY <1>1, <1>2 DEF EventsUnderway
<1> QED
  BY <1>1, <1>2, <1>4, <1>5 DEF QueuedInv

\* What was in its hands is written, or lost with the failed write.
LEMMA WriteQueued ==
  ASSUME TypeOK, EventInv, QueuedInv, writeEventToStreams
  PROVE  QueuedInv'
<1>1. UNCHANGED <<queued, aborted, streamQueue>> /\ dwItem' = NoItem /\ NoItem.event = 0
  BY DEF writeEventToStreams, NoItem
<1>2. /\ written' \in {written, written \cup {<<dwItem.event, streams>>}}
      /\ lost \subseteq lost'
      /\ written' # written => dwItem.event # 0
      /\ \/ dwItem.event = 0 \/ <<dwItem.event, streams>> \in written' \/ dwItem.event \in lost'
      /\ written \subseteq written'
  BY DEF writeEventToStreams
<1>3. dwItem.event # 0 => dwItem.run = streams /\ <<dwItem.event, dwItem.run>> \in queued
  BY DEF EventInv, QueuedInv, EventsUnderway
<1>4. written' \subseteq queued'
  BY <1>1, <1>2, <1>3 DEF QueuedInv
<1>5. EventsUnderway' \subseteq EventsUnderway
  BY <1>1 DEF EventsUnderway
<1>6. ASSUME NEW q \in queued, Entry(q) = dwItem
      PROVE  q \in written' \/ q[1] \in lost'
  <2>1. dwItem.event = q[1] /\ q[1] # 0 /\ q = <<dwItem.event, dwItem.run>>
    BY <1>6, Entries DEF QueuedInv
  <2> QED
    BY <1>2, <1>3, <2>1
<1> QED
  BY <1>1, <1>2, <1>4, <1>5, <1>6 DEF QueuedInv

\* An end-of-lumi-section message is no event.
LEMMA EndOfLumiSectionQueued ==
  ASSUME TypeOK, QueuedInv, receiveEndOfLumiSectionMessage
  PROVE  QueuedInv'
<1>1. /\ UNCHANGED <<written, queued, lost, aborted, dwItem>>
      /\ streamQueue' = Append(streamQueue, NoItem)
  BY DEF receiveEndOfLumiSectionMessage, history, dw
<1>2. NoItem \in Items /\ NoItem.event = 0
  BY EventAssumption DEF NoItem, Items
<1>3. Range(Append(streamQueue, NoItem)) = Range(streamQueue) \cup {NoItem}
  BY <1>2, AppendRange DEF TypeOK
<1> QED
  BY <1>1, <1>2, <1>3 DEF QueuedInv, EventsUnderway

\* QueuedInv is inductive.
LEMMA NextQueued ==
  ASSUME TypeOK, CommandInv, PlaceInv, StreamInv, EventInv, QueuedInv, Next
  PROVE  QueuedInv'
<1>1. CASE \/ enterState \/ processOneFragmentIfPossible \/ processI2OFragment \/ noFragment
           \/ noFragmentToProcess \/ processStaleFragments \/ streamQueueIsEmpty
           \/ diskWriterIsIdle \/ postCommand
  BY <1>1, QueuedStutter
  DEF enterState, processOneFragmentIfPossible, processI2OFragment, noFragment,
      noFragmentToProcess, processStaleFragments, takeStaleEvent, streamQueueIsEmpty,
      diskWriterIsIdle, postCommand, dw, history
<1>2. CASE \/ setBusy \/ checkStreamChangeRequest \/ destroyStreams \/ configureStreams
           \/ streamChangeDone \/ diskWriterFails
  BY <1>2, QueuedStutter
  DEF setBusy, checkStreamChangeRequest, destroyStreams, configureStreams, streamChangeDone,
      diskWriterFails, history
<1>3. CASE DQMEventProcessor \/ processCompletedTopLevelFolders
  BY <1>3, QueuedStutter
  DEF DQMEventProcessor, dequeueDQMEvent, addDQMEvent, getRequests, serveRequests,
      dqmEventProcessorFails, processCompletedTopLevelFolders, dw, history
<1>4. CASE \/ enqueueCommand \/ \E c \in SoapCommands : handleFSMSoapMessage(c)
           \/ \E e \in EventIds, kind \in Kinds, whole \in BOOLEAN : receiveFragment(e, kind, whole)
  BY <1>4, QueuedStutter
  DEF enqueueCommand, handleFSMSoapMessage, receiveFragment, threads, dw, history
<1> QED
  BY <1>1, <1>2, <1>3, <1>4, ProcessCommandQueued, AddEventQueued, DequeueQueued, WriteQueued,
     EndOfLumiSectionQueued
  DEF Next, FragmentProcessor, DiskWriter, Environment

-----------------------------------------------------------------------------
(* The events that Processing has accepted *)

\* A step that neither accepts, nor stores, nor distributes an event keeps AcceptedInv.
LEMMA AcceptedStutter ==
  ASSUME AcceptedInv, UNCHANGED <<accepted, fragmentQueue, sent, eventKind, run, store, fpEvent>>,
         queued \subseteq queued', lost \subseteq lost', aborted \subseteq aborted'
  PROVE  AcceptedInv'
BY DEF AcceptedInv

\* Leaving Running in order clears an empty store.
LEMMA ProcessCommandAccepted ==
  ASSUME TypeOK, CommandInv, EventInv, AcceptedInv, processCommand
  PROVE  AcceptedInv'
<1>1. /\ UNCHANGED <<accepted, sent, eventKind, run, fpEvent, queued, lost>>
      /\ fpPc = "commands"
  BY DEF processCommand, senders
<1>2. CASE UNCHANGED <<fragmentQueue, store>> /\ aborted \subseteq aborted'
  BY <1>1, <1>2, AcceptedStutter
<1>3. CASE /\ fragmentQueue' = <<>> /\ store' = {} /\ aborted \subseteq aborted'
           /\ run \in aborted' \/ state = "FinishingDQM"
  <2>1. Range(fragmentQueue') = {}
    BY <1>3, EmptyRange
  <2>2. fpEvent = 0 /\ (store # {} => run \in aborted')
    BY <1>1, <1>3 DEF EventInv
  <2>3. \A a \in accepted : a[1] # 0
    BY DEF AcceptedInv, EventIds
  <2> QED
    BY <1>1, <1>3, <2>1, <2>2, <2>3 DEF AcceptedInv
<1> QED
  BY <1>2, <1>3, ProcessCommandClears

\* A new run starts with an empty store.
LEMMA EnterStateAccepted ==
  ASSUME TypeOK, CommandInv, PlaceInv, EventInv, AcceptedInv, enterState
  PROVE  AcceptedInv'
<1>1. /\ UNCHANGED <<accepted, fragmentQueue, sent, eventKind, store, fpEvent, queued, lost, aborted>>
      /\ fpPc = "enter" /\ entering # "none"
      /\ run' = IF entering = "Starting" THEN run + 1 ELSE run
  BY DEF enterState, CommandInv, senders, history
<1>2. CASE entering # "Starting"
  BY <1>1, <1>2, AcceptedStutter
<1>3. CASE entering = "Starting"
  <2>1. store = {} /\ fpEvent = 0
    BY <1>1, <1>3 DEF EventInv, InRunning, RunningStates
  <2>2. \A a \in accepted : a[1] # 0
    BY DEF AcceptedInv, EventIds
  <2> QED
    BY <1>1, <2>1, <2>2 DEF AcceptedInv
<1> QED
  BY <1>2, <1>3

\* An accepted event is stored, or complete and in the hands of the FragmentProcessor.
LEMMA ProcessFragmentAccepted ==
  ASSUME TypeOK, CommandInv, EventInv, AcceptedInv, processI2OFragment
  PROVE  AcceptedInv'
<1> DEFINE e == Head(fragmentQueue).event
<1>1. /\ UNCHANGED <<sent, eventKind, run, queued, lost, aborted>>
      /\ fpPc = "fragment"
  BY DEF processI2OFragment, machine, senders
<1>2. /\ Range(fragmentQueue') \subseteq Range(fragmentQueue)
      /\ Head(fragmentQueue) \in Range(fragmentQueue)
      /\ Head(fragmentQueue) \in Fragments
  BY TailRange, SequenceTypes DEF processI2OFragment, TypeOK
<1>3. e \in EventIds /\ sent[e] # "none" /\ run \in Nat
  BY <1>2 DEF Fragments, AcceptedInv, TypeOK
<1>4. fpEvent = 0 /\ \A a \in accepted : a[1] # 0
  BY <1>1 DEF EventInv, AcceptedInv, EventIds
<1>5. CASE state # "Processing"
  <2>1. UNCHANGED <<store, fpEvent, accepted>>
    BY <1>5 DEF processI2OFragment
  <2> QED
    BY <1>1, <1>2, <2>1 DEF AcceptedInv
<1>6. CASE state = "Processing"
  <2>1. accepted' = accepted \cup {<<e, run>>}
    BY <1>6 DEF processI2OFragment
  <2>2. \/ store \subseteq store' \cup {e} /\ fpEvent' = e
        \/ store' = store \cup {e} /\ fpEvent' = fpEvent
    BY <1>6 DEF processI2OFragment
  <2>3. accepted' \subseteq EventIds \X Nat
    BY <1>3, <2>1 DEF AcceptedInv
  <2>4. \A a \in accepted' : sent'[a[1]] # "none"
    BY <1>1, <1>3, <2>1 DEF AcceptedInv
  <2>5. ASSUME NEW a \in accepted', eventKind'[a[1]] = "stream"
        PROVE  \/ a \in queued' \/ a[1] \in lost' \/ a[2] \in aborted'
               \/ a[2] = run' /\ a[1] \in store' \cup {fpEvent'}
    <3>1. CASE a \in accepted
      BY <1>1, <1>4, <2>2, <2>5, <3>1 DEF AcceptedInv
    <3>2. CASE a = <<e, run>>
      BY <1>1, <2>2, <3>2
    <3> QED
      BY <2>1, <3>1, <3>2
  <2> QED
    BY <1>1, <1>2, <2>3, <2>4, <2>5 DEF AcceptedInv
<1> QED
  BY <1>5, <1>6

\* It leaves these hands for the stream queue.
LEMMA AddEventAccepted ==
  ASSUME TypeOK, CommandInv, PlaceInv, StreamInv, EventInv, AcceptedInv,
         distribute \/ distributeStale
  PROVE  AcceptedInv'
<1>1. /\ UNCHANGED <<accepted, fragmentQueue, sent, eventKind, run, store, lost, aborted>>
      /\ fpPc \in Handling
      /\ addEventToRelevantQueues(fpEvent, FALSE) \/ addEventToRelevantQueues(fpEvent, TRUE)
  BY DEF distribute, distributeStale, machine, senders, Handling
<1>2. selectors = run
  BY <1>1, NothingWaits DEF PlaceInv, Handling, StreamInv, InRunning, RunningStates
<1>3. /\ queued \subseteq queued'
      /\ eventKind[fpEvent] = "stream" => <<fpEvent, run>> \in queued'
  BY <1>1, <1>2 DEF addEventToRelevantQueues
<1>4. \A a \in accepted : a = <<a[1], a[2]>>
  BY DEF AcceptedInv
<1>5. ASSUME NEW a \in accepted, eventKind[a[1]] = "stream", a[2] = run, a[1] = fpEvent
      PROVE  a \in queued'
  BY <1>3, <1>4, <1>5
<1> QED
  BY <1>1, <1>3, <1>5 DEF AcceptedInv

\* A stale event leaves the store for these hands, or is lost to the failed look-up.
LEMMA TakeStaleAccepted ==
  ASSUME TypeOK, EventInv, AcceptedInv, processStaleFragments \/ noFragmentToProcess
  PROVE  AcceptedInv'
<1>1. /\ UNCHANGED <<accepted, fragmentQueue, sent, eventKind, run, queued, aborted>>
      /\ fpPc \in {"drain", "idle"}
  BY DEF processStaleFragments, noFragmentToProcess, machine, senders
<1>2. fpEvent = 0 /\ \A a \in accepted : a[1] # 0
  BY <1>1 DEF EventInv, AcceptedInv, EventIds
<1>3. CASE UNCHANGED <<store, fpEvent, lost>>
  BY <1>1, <1>3, AcceptedStutter
<1>4. CASE \E e \in store, next \in {"distributeStale", "drainStale"} : takeStaleEvent(e, next)
  <2>1. PICK e \in store, next \in {"distributeStale", "drainStale"} : takeStaleEvent(e, next)
    BY <1>4
  <2>2. /\ store' = store \ {e}
        /\ \/ fpEvent' = e /\ lost' = lost
           \/ fpEvent' = fpEvent /\ lost' = lost \cup {e}
    BY <2>1 DEF takeStaleEvent
  <2> QED
    BY <1>1, <1>2, <2>2 DEF AcceptedInv
<1> QED
  BY <1>3, <1>4 DEF processStaleFragments, noFragmentToProcess

\* The kind of an accepted event does not change.
LEMMA ReceiveFragmentAccepted ==
  ASSUME TypeOK, AcceptedInv,
         NEW e \in EventIds, NEW kind \in Kinds, NEW whole \in BOOLEAN,
         receiveFragment(e, kind, whole)
  PROVE  AcceptedInv'
<1> DEFINE f == [event |-> e, whole |-> whole]
<1>1. UNCHANGED <<accepted, run, store, fpEvent, queued, lost, aborted>>
  BY DEF receiveFragment, threads, machine, fp, history
<1>2. f \in Fragments /\ f.event = e
  BY DEF Fragments
<1>3. fragmentQueue' = Append(fragmentQueue, f)
  BY DEF receiveFragment
<1>4. Range(fragmentQueue') = Range(fragmentQueue) \cup {f}
  <2>1. fragmentQueue \in Seq(Fragments)
    BY DEF TypeOK
  <2> HIDE DEF f
  <2>2. Range(Append(fragmentQueue, f)) = Range(fragmentQueue) \cup {f}
    BY <1>2, <2>1, AppendRange
  <2> QED
    BY <1>3, <2>2
<1>5. /\ \A o \in EventIds : sent[o] # "none" => sent'[o] # "none"
      /\ sent'[e] # "none"
      /\ \A o \in EventIds : sent[o] # "none" => eventKind'[o] = eventKind[o]
  BY DEF receiveFragment, TypeOK
<1>6. Range(fragmentQueue) \subseteq Fragments
  BY SequenceRange DEF TypeOK
<1>7. \A g \in Range(fragmentQueue') : sent'[g.event] # "none"
  <2> HIDE DEF f
  <2>1. \A g \in Fragments : g.event \in EventIds
    BY DEF Fragments
  <2> QED
    BY <1>2, <1>4, <1>5, <1>6, <2>1 DEF AcceptedInv
<1>8. \A a \in accepted : a[1] \in EventIds
  BY DEF AcceptedInv
<1> QED
  BY <1>1, <1>5, <1>7, <1>8 DEF AcceptedInv

\* AcceptedInv is inductive.
LEMMA NextAccepted ==
  ASSUME TypeOK, CommandInv, PlaceInv, StreamInv, EventInv, AcceptedInv, Next
  PROVE  AcceptedInv'
<1>1. CASE \/ processOneFragmentIfPossible \/ noFragment \/ streamQueueIsEmpty
           \/ diskWriterIsIdle \/ postCommand
  BY <1>1, AcceptedStutter
  DEF processOneFragmentIfPossible, noFragment, streamQueueIsEmpty, diskWriterIsIdle,
      postCommand, machine, senders, history
<1>2. CASE DiskWriter
  <2>1. /\ UNCHANGED elsewhere
        /\ UNCHANGED <<accepted, queued, aborted>> /\ lost \subseteq lost'
    BY <1>2 DEF DiskWriter, dequeueEvent, setBusy, writeEventToStreams, checkStreamChangeRequest,
                destroyStreams, configureStreams, streamChangeDone, diskWriterFails, history
  <2> QED
    BY <2>1, AcceptedStutter DEF elsewhere, machine, fp, senders
<1>3. CASE DQMEventProcessor \/ processCompletedTopLevelFolders
  BY <1>3, AcceptedStutter
  DEF DQMEventProcessor, dequeueDQMEvent, addDQMEvent, getRequests, serveRequests,
      dqmEventProcessorFails, processCompletedTopLevelFolders, elsewhere, machine, fp,
      senders, history
<1>4. CASE \/ enqueueCommand \/ \E c \in SoapCommands : handleFSMSoapMessage(c)
           \/ receiveEndOfLumiSectionMessage
  BY <1>4, AcceptedStutter
  DEF enqueueCommand, handleFSMSoapMessage, receiveEndOfLumiSectionMessage, threads, machine,
      fp, history
<1> QED
  BY <1>1, <1>2, <1>3, <1>4, ProcessCommandAccepted, EnterStateAccepted, ProcessFragmentAccepted,
     AddEventAccepted, TakeStaleAccepted, ReceiveFragmentAccepted
  DEF Next, FragmentProcessor, Environment

-----------------------------------------------------------------------------
(* The invariant *)

\* The invariant holds initially.
LEMMA InitInvariant == Init => IInv
<1>1. SUFFICES ASSUME Init PROVE IInv
  OBVIOUS
<1>2. TypeOK /\ CommandInv
  BY <1>1, InitType, InitCommands
<1>3. ~configurationIsNeeded /\ ~streamChangeIsNeeded /\ ~streamChangeInProgress
  BY <1>1, Zenon DEF Init
<1>4. ~requestsPending /\ ~requestsInProgress
  BY <1>1, Zenon DEF Init
<1>5. \A c \in Completions : ~Underway(c)
  BY <1>1, EmptyRange, OtherEvents DEF Init, Underway
<1>6. PlaceInv
  BY <1>1, <1>5 DEF Init, PlaceInv, Completions
<1>7. StreamInv
  BY <1>1, <1>3, <1>5
  DEF Init, StreamInv, streamChangeOngoing, Changing, Resting, InRunning, RunningStates, Closing
<1>8. VisibleInv
  BY <1>1, <1>3 DEF Init, VisibleInv, RunningStates
<1>9. DQMInv
  BY <1>1, <1>4 DEF Init, DQMInv, requestsOngoing, Resting, InRunning, Closing
<1>10. Range(streamQueue) = {} /\ Range(fragmentQueue) = {} /\ dwItem.event = 0
  BY <1>1, EmptyRange DEF Init, NoItem
<1>11. EventInv
  BY <1>1, <1>5, <1>10 DEF Init, EventInv, NoEventQueued
<1>12. QueuedInv
  BY <1>1, <1>10 DEF Init, QueuedInv, EventsUnderway
<1>13. AcceptedInv
  BY <1>1, <1>10 DEF Init, AcceptedInv
<1> QED
  BY <1>2, <1>6, <1>7, <1>8, <1>9, <1>11, <1>12, <1>13 DEF IInv

\* Stuttering keeps the invariant.
LEMMA InvariantStutter == ASSUME IInv, UNCHANGED vars PROVE IInv'
<1>1. UNCHANGED <<machine, fp, commandQueue, fragmentQueue, store, streamQueue, dqmEventQueue,
                  dw, dwr, dqm, dqmr, senders, history>>
  BY DEF vars
<1>2. \A c \in Completions : Underway(c)' => Underway(c)
  BY <1>1 DEF Underway, fp
<1>3. TypeOK' /\ CommandInv'
  BY <1>1, TypeStutter, CommandStutter DEF IInv, machine, fp, senders, commandVars
<1>4. PlaceInv'
  BY <1>1, <1>2 DEF IInv, PlaceInv, machine, fp, Completions
<1>5. StreamInv' /\ VisibleInv'
  BY <1>1, <1>2, StreamStutter, VisibleStutter DEF IInv, machine, dw, dwr, streamVars, flags
<1>6. DQMInv'
  BY <1>1, <1>2, DQMStutter DEF IInv, machine, dqm
<1>7. EventInv'
  BY <1>1, <1>2, SameHands, EventStutter DEF IInv, EventInv, machine, fp, Handling, Completions
<1>8. QueuedInv' /\ AcceptedInv'
  BY <1>1, QueuedStutter, AcceptedStutter DEF IInv, machine, fp, dw, senders, history
<1> QED
  BY <1>3, <1>4, <1>5, <1>6, <1>7, <1>8 DEF IInv

(***************************************************************************)
(* The inductive invariant: where the machine, its threads, their requests *)
(* and the events can be together.                                         *)
(***************************************************************************)
THEOREM Invariant == Spec => []IInv
<1>1. IInv /\ [Next]_vars => IInv'
  <2>1. CASE UNCHANGED vars
    BY <2>1, InvariantStutter
  <2>2. CASE Next
    BY <2>2, NextTypes, NextCommands, NextPlace, NextStreams, NextVisible, NextDQM, NextEvents,
       NextQueued, NextAccepted
       DEF IInv
  <2> QED
    BY <2>1, <2>2
<1> QED
  BY <1>1, InitInvariant, PTL DEF Spec

-----------------------------------------------------------------------------
(* The properties *)

(***************************************************************************)
(* Every run and every capacity: in Running the DiskWriter has the streams *)
(* of this very run, and no request to change them is waiting or served.   *)
(***************************************************************************)
THEOREM RunningConfigured == Spec => []RunningMeansConfigured
<1>1. IInv => RunningMeansConfigured
  BY DEF IInv, StreamInv, RunningMeansConfigured, InRunning
<1> QED
  BY <1>1, Invariant, PTL

(***************************************************************************)
(* When Ready or Halted is what run control sees, the threads behind it    *)
(* have done all they were asked for and hold nothing of an earlier run.   *)
(***************************************************************************)
THEOREM RestingClean == Spec => []RestingStatesAreClean
<1>1. IInv => RestingStatesAreClean
  <2> SUFFICES ASSUME IInv, state \in AtRest
               PROVE  /\ streams = 0 /\ ~streamChangeOngoing
                      /\ dqmEventStore = {} /\ ~requestsOngoing
                      /\ store = {} /\ dqmEventQueue = <<>> /\ EventsUnderway = {}
    BY DEF RestingStatesAreClean, AtRest
  <2>1. ~InRunning /\ state \notin RunningStates
    BY DEF InRunning, AtRest, RunningStates
  <2>2. streams = 0 /\ ~streamChangeOngoing /\ ~streamChangeIsNeeded
    BY DEF IInv, StreamInv, Resting, streamChangeOngoing
  <2>3. dqmEventStore = {} /\ ~requestsOngoing /\ dqmEventQueue = <<>>
    BY <2>1 DEF IInv, DQMInv, Resting
  <2>4. store = {} /\ EventsUnderway = {}
    BY <2>1, <2>2 DEF IInv, EventInv, EventsUnderway
  <2> QED
    BY <2>2, <2>3, <2>4
<1> QED
  BY <1>1, Invariant, PTL

(***************************************************************************)
(* What is shown of the state can be relied on, at rest and in a run.      *)
(***************************************************************************)
THEOREM StatesMeanIt == Spec => []StatesMeanWhatTheySay
BY RestingClean, RunningConfigured, PTL DEF StatesMeanWhatTheySay

(***************************************************************************)
(* No event outlives the streams of its run: the stream handlers an event  *)
(* needs exist from the moment it is queued until it is written.           *)
(***************************************************************************)
THEOREM EventsMeetStreams == Spec => []EventsMeetTheirStreams
<1>1. IInv => EventsMeetTheirStreams
  <2>1. IInv => \A item \in Range(streamQueue) : item.event # 0 => item.run = streams
    BY DEF IInv, EventInv, StreamInv, InRunning
  <2>2. IInv => (dwItem.event # 0 => dwItem.run = streams) /\ written \subseteq queued
    BY DEF IInv, EventInv, QueuedInv
  <2> QED
    BY <2>1, <2>2 DEF EventsMeetTheirStreams, EventsUnderway
<1> QED
  BY <1>1, Invariant, PTL

(***************************************************************************)
(* A run that is not cut short has written every event it queued when its  *)
(* streams are gone, failed writes apart: the drain waits for the disk     *)
(* writer although the busy flag is late.                                  *)
(***************************************************************************)
THEOREM OrderlyStop == Spec => []OrderlyStopWritesEverything
<1>1. IInv => OrderlyStopWritesEverything
  <2> SUFFICES ASSUME IInv, NEW q \in queued, q[2] # streams, q[2] \notin aborted,
                      q \notin written, q[1] \notin lost
               PROVE  FALSE
    BY DEF OrderlyStopWritesEverything
  <2>1. Entry(q) \in Range(streamQueue) \cup {dwItem} /\ q \in EventIds \X Nat
    BY DEF IInv, QueuedInv
  <2>2. Entry(q).event # 0 /\ Entry(q).run = q[2]
    BY <2>1, Entries
  <2>3. InRunning => streams = run
    BY DEF IInv, StreamInv, InRunning
  <2> QED
    BY <2>1, <2>2, <2>3 DEF IInv, EventInv
<1> QED
  BY <1>1, Invariant, PTL

(***************************************************************************)
(* An event that Processing accepted is in the store, in the hands of the  *)
(* FragmentProcessor, queued, or lost to a failed look-up: the drain of an *)
(* orderly stop leaves none behind.                                        *)
(***************************************************************************)
THEOREM AcceptedQueued == Spec => []AcceptedEventsAreQueued
<1>1. IInv => AcceptedEventsAreQueued
  BY DEF IInv, AcceptedInv, AcceptedEventsAreQueued
<1> QED
  BY <1>1, Invariant, PTL

-----------------------------------------------------------------------------
(* The abstract specification *)

\* Entering a state is a step of the abstract specification, or invisible.
LEMMA EnterStateLifecycle ==
  ASSUME IInv, enterState
  PROVE  [Lifecycle!Next]_(Lifecycle!vars)
<1>1. /\ UNCHANGED streams /\ visible' = externallyVisibleState(entering)
      /\ entering # "none"
  BY DEF IInv, enterState, CommandInv, dw
<1>2. PICK t \in Transitions : t[1] = state /\ t[3] = entering
  BY <1>1 DEF IInv, PlaceInv
<1>3. CASE entering \in AtRest
  <2>1. streams = 0
    BY <1>3 DEF IInv, StreamInv, Resting
  <2>2. state \in AtRest \cup Closing
    BY <1>2, <1>3, IncomingTransitions
  <2>3. visible \in {"Halted", "Ready", "Enabled"}
    BY <2>2 DEF IInv, VisibleInv, AtRest, Closing
  <2>4. visible' \in {"Halted", "Ready"}
    BY <1>1, <1>2, <1>3 DEF externallyVisibleState, AtRest, Transitions
  <2> QED
    BY <1>1, <2>1, <2>3, <2>4 DEF Lifecycle!Next, Lifecycle!Rest, Lifecycle!EndRun
<1>4. CASE entering = "Processing"
  <2>1. state = "Starting" /\ streams = run /\ run # 0
    BY <1>2, <1>4, IncomingTransitions DEF IInv, StreamInv
  <2>2. visible = "Ready" /\ visible' = "Enabled"
    BY <1>1, <1>4, <2>1 DEF IInv, VisibleInv, externallyVisibleState
  <2> QED
    BY <1>1, <2>1, <2>2 DEF Lifecycle!Next, Lifecycle!BeginRun
<1>5. CASE entering = "Failed"
  BY <1>1, <1>5 DEF externallyVisibleState, Lifecycle!Next, Lifecycle!Fail
<1>6. CASE entering \notin AtRest \cup {"Processing", "Failed"}
  BY <1>1, <1>6 DEF externallyVisibleState, AtRest, Lifecycle!vars
<1> QED
  BY <1>3, <1>4, <1>5, <1>6

\* So is what the DiskWriter does to the streams.
LEMMA DiskWriterLifecycle ==
  ASSUME IInv, DiskWriter, UNCHANGED visible
  PROVE  [Lifecycle!Next]_(Lifecycle!vars)
<1>1. CASE UNCHANGED streams
  BY <1>1 DEF Lifecycle!vars
<1>2. CASE destroyStreams
  BY <1>1, <1>2 DEF destroyStreams, Lifecycle!Next, Lifecycle!CloseRun, Lifecycle!vars
<1>3. CASE configureStreams
  <2>1. dwTarget # 0 /\ dwTarget \in Nat /\ streams = 0 /\ visible \in {"Ready", "Failed"}
    BY <1>3 DEF IInv, TypeOK, StreamInv, VisibleInv, configureStreams
  <2>2. streams' \in {0, dwTarget}
    BY <1>3 DEF configureStreams
  <2> QED
    BY <1>1, <2>1, <2>2 DEF Lifecycle!Next, Lifecycle!OpenRun
<1> QED
  BY <1>1, <1>2, <1>3
  DEF DiskWriter, dequeueEvent, setBusy, writeEventToStreams, checkStreamChangeRequest,
      streamChangeDone, diskWriterFails

(***************************************************************************)
(* The four threads together keep the promise of RunLifecycle: a run is    *)
(* opened before it is shown, and closed before the next resting state is. *)
(***************************************************************************)
THEOREM Implementation == Spec => ImplementsRunLifecycle
<1>1. Init => Lifecycle!Init
  BY DEF Init, Lifecycle!Init
<1>2. IInv /\ [Next]_vars => [Lifecycle!Next]_(Lifecycle!vars)
  <2> SUFFICES ASSUME IInv, [Next]_vars PROVE [Lifecycle!Next]_(Lifecycle!vars)
    OBVIOUS
  <2>1. CASE UNCHANGED <<visible, streams>>
    BY <2>1 DEF Lifecycle!vars
  <2>2. CASE enterState
    BY <2>2, EnterStateLifecycle
  <2>3. CASE FragmentProcessor /\ ~enterState
    BY <2>1, <2>3
    DEF FragmentProcessor, processCommand, processOneFragmentIfPossible, processI2OFragment,
        noFragment, distribute, distributeStale, noFragmentToProcess, processStaleFragments,
        streamQueueIsEmpty, diskWriterIsIdle, postCommand, machine, dw
  <2>4. CASE Next /\ ~FragmentProcessor
    <3>1. UNCHANGED visible
      BY <2>4, OtherStep DEF IInv, position, machine
    <3>2. CASE DiskWriter
      BY <3>1, <3>2, DiskWriterLifecycle
    <3>3. CASE ~DiskWriter
      BY <2>1, <2>4, <3>1, <3>3, OthersStreams DEF dw
    <3> QED
      BY <3>2, <3>3
  <2> QED
    BY <2>1, <2>2, <2>3, <2>4 DEF vars, machine, dw
<1> QED
  BY <1>1, <1>2, Invariant, PTL DEF Spec, ImplementsRunLifecycle, Lifecycle!Spec
=============================================================================
