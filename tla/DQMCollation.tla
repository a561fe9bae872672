---------------------------- MODULE DQMCollation ----------------------------
(***************************************************************************)
(* The collation of data-quality (DQM) updates.                            *)
(*                                                                         *)
(* Each event processor of the filter farm sends its histograms once per   *)
(* lumi section.  The FragmentProcessor thread puts these updates into the *)
(* DQM queue; the DQMEventProcessor thread adds them up per lumi section   *)
(* in the top-level folders of the DQMEventStore; and a third thread, one  *)
(* for each configuration of the store, looks once per second for folders  *)
(* that are ready and hands them to the queues of the DQM consumers.       *)
(* Starting and ending a run are requests to the DQMEventProcessor, which  *)
(* serves them between two updates.                                        *)
(***************************************************************************)
EXTENDS Integers, Sequences, FiniteSets, SequencesExt

CONSTANTS
  LumiSections,   \* numbers of lumi sections
  Consumers,      \* the DQM consumers
  QueueCapacity,  \* of the DQM event queue
  Collates,       \* values of collateDQM the run may be configured with
  OlderLS,        \* discardDQMUpdatesForOlderLS, 0 for never
  Expectations,   \* how many event processors may be connected
  MaxRuns,        \* bound: runs that begin
  MaxUpdates      \* bound: updates that are sent

ASSUME DQMAssumption ==
  /\ LumiSections \subseteq Nat /\ Expectations \subseteq Nat
  /\ QueueCapacity \in Nat \ {0} /\ Collates \subseteq BOOLEAN /\ OlderLS \in Nat
  /\ MaxRuns \in Nat /\ MaxUpdates \in Nat

VARIABLES
  phase, run,               \* the state machine: a phase of the current run
  updates,                  \* history: the updates sent, in order
  queue, elementsDropped,   \* the DQM event queue: numbers of updates
  requests,                 \* DQMEventProcessorResources
  processor,                \* the DQMEventProcessor thread: what it is at
  latestLumiSection, collate,
  store,                    \* DQMEventStore: folders by run and lumi section
  threadOn,                 \* processCompletedTopLevelFolders_
  threads,                  \* the completed-folder threads, by configuration
  droppedCount,             \* the count of dropped updates that is shown
  unwanted, overflown, outdated, destroyed, ignored,
                            \* history: the updates that went no further, by reason
  records                   \* history: what consumers were handed

vars == <<phase, run, updates, queue, elementsDropped, requests, processor, latestLumiSection,
          collate, store, threadOn, threads, droppedCount, unwanted, overflown,
          outdated, destroyed, ignored, records>>
runVars == <<phase, run>>
queueVars == <<updates, queue, elementsDropped, unwanted, overflown>>
storeVars == <<store, destroyed, ignored, records>>
threadVars == <<threadOn, threads>>
processorVars == <<latestLumiSection, collate, droppedCount, outdated>>

Pending == {"configuration", "endOfRun", "storeDestruction"}
Idle == [at |-> "dequeue", update |-> 0, served |-> {}]
Key(n) == <<updates[n].run, updates[n].ls>>

Init ==
  /\ phase = "stopped" /\ run = 0
  /\ updates = <<>> /\ queue = <<>> /\ elementsDropped = 0
  /\ requests = [pending |-> {}, inProgress |-> FALSE]
  /\ processor = Idle /\ latestLumiSection = 0 /\ collate \in Collates
  /\ store = <<>> /\ threadOn = FALSE /\ threads = <<>>
  /\ droppedCount = 0
  /\ unwanted = {} /\ overflown = {} /\ outdated = {} /\ destroyed = {} /\ ignored = {}
  /\ records = {}

-----------------------------------------------------------------------------
(* The FragmentProcessor thread: the states of a run and the distribution  *)
(* of DQM events.                                                          *)

requestsOngoing == requests.pending # {} \/ requests.inProgress
requestConfiguration == requests' = [requests EXCEPT !.pending = {"configuration"}]
requestEndOfRun == requests' = [requests EXCEPT !.pending = @ \cup {"endOfRun"}]
requestStoreDestruction == requests' = [requests EXCEPT !.pending = {"storeDestruction"}]

\* Running is left, or its queues have been drained: what is queued is dropped.
clearQueue ==
  /\ queue' = <<>> /\ elementsDropped' = elementsDropped + Len(queue)
  /\ overflown' = overflown \cup ToSet(queue)
  /\ UNCHANGED <<updates, unwanted>>

\* Starting, and then Running once the request has been served.
start ==
  /\ phase = "stopped" /\ run < MaxRuns
  /\ phase' = "starting" /\ run' = run + 1 /\ requestConfiguration
  /\ UNCHANGED <<queueVars, processor, processorVars, storeVars, threadVars>>
enterRunning ==
  /\ phase = "starting" /\ ~requestsOngoing /\ phase' = "running"
  /\ UNCHANGED <<run, queueVars, requests, processor, processorVars, storeVars, threadVars>>

\* DrainingQueues does not wait for the DQM queue; FinishingDQM, then Stopping.
stop ==
  /\ phase = "running" /\ phase' = "finishingDQM"
  /\ clearQueue /\ requestEndOfRun
  /\ UNCHANGED <<run, processor, processorVars, storeVars, threadVars>>
finish ==
  /\ phase = "finishingDQM" /\ ~requestsOngoing /\ phase' = "ending"
  /\ clearQueue /\ requestStoreDestruction
  /\ UNCHANGED <<run, processor, processorVars, storeVars, threadVars>>

\* Halt and EmergencyStop: the run is left at once.
halt ==
  /\ phase \in {"starting", "running", "finishingDQM"} /\ phase' = "ending"
  /\ clearQueue /\ requestStoreDestruction
  /\ UNCHANGED <<run, processor, processorVars, storeVars, threadVars>>
haltDone ==
  /\ phase = "ending" /\ ~requestsOngoing /\ phase' = "stopped"
  /\ UNCHANGED <<run, queueVars, requests, processor, processorVars, storeVars, threadVars>>

HasRoom == Len(queue) < QueueCapacity

\* EventDistributor: an update nobody selects is dropped, any other is queued,
\* in place of the oldest if there is no room.
addEventToRelevantQueues(ls, tags) ==
  LET n == Len(updates) + 1
  IN /\ phase = "running" /\ n <= MaxUpdates
     /\ updates' = Append(updates, [run |-> run, ls |-> ls, tags |-> tags])
     /\ IF tags = {}
        THEN /\ unwanted' = unwanted \cup {n} /\ droppedCount' = droppedCount + 1
             /\ UNCHANGED <<queue, elementsDropped, overflown>>
        ELSE /\ queue' = Append(IF HasRoom THEN queue ELSE Tail(queue), n)
             /\ elementsDropped' = elementsDropped + (IF HasRoom THEN 0 ELSE 1)
             /\ overflown' = overflown \cup (IF HasRoom THEN {} ELSE {Head(queue)})
             /\ UNCHANGED <<unwanted, droppedCount>>
     /\ UNCHANGED <<runVars, requests, processor, latestLumiSection, collate, outdated,
                    storeVars, threadVars>>

StateMachine ==
  \/ start \/ enterRunning \/ stop \/ finish \/ halt \/ haltDone
  \/ \E ls \in LumiSections, tags \in SUBSET Consumers : addEventToRelevantQueues(ls, tags)

-----------------------------------------------------------------------------
(* Folders.  A folder belongs to the consumers its first update is tagged  *)
(* for and waits for as many updates as there are event processors by then.*)

NewFolder(n, expected) ==
  [updates |-> {n}, expected |-> expected, tags |-> updates[n].tags, due |-> FALSE]

\* A folder with more updates than expected counts as not complete yet.
isReadyBug(folder) ==
  \/ Cardinality(folder.updates) = folder.expected
  \/ folder.due /\ Cardinality(folder.updates) < folder.expected

\* Exactly as many updates as expected, or none for the ready time.
isReady(folder) == Cardinality(folder.updates) = folder.expected \/ folder.due

Put(f, k, v) == [x \in DOMAIN f \cup {k} |-> IF x = k THEN v ELSE f[x]]
addToFolder(folder, n) == [folder EXCEPT !.updates = @ \cup {n}, !.due = FALSE]

addDQMEventToStore(n) ==
  /\ \E expected \in Expectations :
       store' = Put(store, Key(n), IF Key(n) \in DOMAIN store THEN addToFolder(store[Key(n)], n)
                                                               ELSE NewFolder(n, expected))
  /\ UNCHANGED ignored

\* A folder for each update, which is lost when the last one of this lumi section is still
\* there.
addDQMEventToReadyToServe(n) ==
  IF Key(n) \in DOMAIN store THEN ignored' = ignored \cup {n} /\ UNCHANGED store
  ELSE store' = Put(store, Key(n), NewFolder(n, 1)) /\ UNCHANGED ignored

\* handleNextCompletedTopLevelFolder, until there is none.
Ready == {k \in DOMAIN store : isReady(store[k])}
Handled == records' = records \cup {[key |-> k, folder |-> store[k], run |-> run] : k \in Ready}
Kept == [k \in DOMAIN store \ Ready |-> store[k]]

UpdatesOf(folders, keys) == UNION {folders[k].updates : k \in keys}

clearStore ==
  /\ store' = <<>>
  /\ destroyed' = destroyed \cup UpdatesOf(store, DOMAIN store \ (IF processor.at = "endOfRun"
                                                                  THEN Ready ELSE {}))

-----------------------------------------------------------------------------
(* The DQMEventProcessor thread.                                           *)

\* An update that is too old is not counted itself.
dequeueBug ==
  /\ processor.at = "dequeue" /\ queue # <<>>
  /\ LET n == Head(queue)
         outOfDate == OlderLS > 0 /\ updates[n].ls + OlderLS < latestLumiSection
     IN /\ queue' = Tail(queue) /\ elementsDropped' = 0
        /\ droppedCount' = droppedCount + elementsDropped
        /\ outdated' = outdated \cup (IF outOfDate THEN {n} ELSE {})
        /\ processor' = IF outOfDate THEN [processor EXCEPT !.at = "requests"]
                        ELSE [processor EXCEPT !.at = "add", !.update = n]
        /\ latestLumiSection' = IF outOfDate THEN latestLumiSection
                                ELSE Max({latestLumiSection, updates[n].ls})
  /\ UNCHANGED <<runVars, updates, unwanted, overflown, requests, collate, storeVars, threadVars>>

dequeue ==
  /\ processor.at = "dequeue" /\ queue # <<>>
  /\ LET n == Head(queue)
         outOfDate == OlderLS > 0 /\ updates[n].ls + OlderLS < latestLumiSection
     IN /\ queue' = Tail(queue) /\ elementsDropped' = 0
        /\ droppedCount' = droppedCount + elementsDropped + (IF outOfDate THEN 1 ELSE 0)
        /\ outdated' = outdated \cup (IF outOfDate THEN {n} ELSE {})
        /\ processor' = IF outOfDate THEN [processor EXCEPT !.at = "requests"]
                        ELSE [processor EXCEPT !.at = "add", !.update = n]
        /\ latestLumiSection' = IF outOfDate THEN latestLumiSection
                                ELSE Max({latestLumiSection, updates[n].ls})
  /\ UNCHANGED <<runVars, updates, unwanted, overflown, requests, collate, storeVars, threadVars>>

\* Nothing to dequeue until the time-out.
dequeueTimesOut ==
  /\ processor.at = "dequeue" /\ queue = <<>>
  /\ processor' = [processor EXCEPT !.at = "requests"]
  /\ UNCHANGED <<runVars, queueVars, requests, processorVars, storeVars, threadVars>>

addDQMEvent ==
  /\ processor.at = "add"
  /\ IF collate THEN addDQMEventToStore(processor.update)
                ELSE addDQMEventToReadyToServe(processor.update)
  /\ processor' = [Idle EXCEPT !.at = "requests"]
  /\ UNCHANGED <<runVars, queueVars, requests, processorVars, destroyed, records, threadVars>>

\* The requests are served in a fixed order, whatever the order they came in.
Serving(served) ==
  IF "configuration" \in served THEN "configuration"
  ELSE IF "endOfRun" \in served THEN "endOfRun"
  ELSE IF "storeDestruction" \in served THEN "storeDestruction" ELSE "done"

getRequests ==
  /\ processor.at = "requests"
  /\ IF requests.pending = {} THEN processor' = Idle /\ UNCHANGED requests
     ELSE /\ processor' = [Idle EXCEPT !.at = Serving(requests.pending), !.served = requests.pending]
          /\ requests' = [pending |-> {}, inProgress |-> TRUE]
  /\ UNCHANGED <<runVars, queueVars, processorVars, storeVars, threadVars>>

After(request) == [processor EXCEPT !.at = Serving(processor.served \ {request}),
                                    !.served = @ \ {request}]

\* Each request first takes the flag down and joins the thread.  The thread is made from
\* a function without a result, which ROOT starts detached, and the join gives up at once
\* (if it waited, it would wait for a thread that needs the mutex the request holds).  So
\* the thread of the last configuration ends when it next sees the flag, or never.
\* setParameters: clear, and a thread for the new configuration.
setParameters ==
  /\ processor.at = "configuration"
  /\ clearStore /\ threadOn' = TRUE
  /\ threads' = Append(threads, "sleeping")
  /\ collate' \in Collates /\ processor' = After("configuration")
  /\ UNCHANGED <<runVars, queueVars, requests, latestLumiSection, droppedCount, outdated,
                 ignored, records>>

\* purge, and only here the latest lumi section is forgotten.
endOfRun ==
  /\ processor.at = "endOfRun"
  /\ Handled /\ clearStore /\ threadOn' = FALSE
  /\ latestLumiSection' = 0 /\ processor' = After("endOfRun")
  /\ UNCHANGED <<runVars, queueVars, requests, collate, droppedCount, outdated, ignored, threads>>

destroyStore ==
  /\ processor.at = "storeDestruction"
  /\ clearStore /\ threadOn' = FALSE /\ processor' = After("storeDestruction")
  /\ UNCHANGED <<runVars, queueVars, requests, processorVars, ignored, records, threads>>

requestsDone ==
  /\ processor.at = "done" /\ processor' = Idle
  /\ requests' = [requests EXCEPT !.inProgress = FALSE]
  /\ UNCHANGED <<runVars, queueVars, processorVars, storeVars, threadVars>>

DQMEventProcessor ==
  \/ dequeue \/ dequeueTimesOut \/ addDQMEvent \/ getRequests
  \/ setParameters \/ endOfRun \/ destroyStore \/ requestsDone

-----------------------------------------------------------------------------
(* A completed-folder thread: after a second it takes the mutex, handles   *)
(* every folder that is ready, gives the mutex back and looks at the flag. *)

processCompletedTopLevelFolders(t) ==
  /\ threads[t] = "sleeping"
  /\ threads' = [threads EXCEPT ![t] = "looking"]
  /\ Handled /\ store' = Kept
  /\ UNCHANGED <<runVars, queueVars, requests, processor, processorVars, destroyed, ignored,
                 threadOn>>
doProcessCompletedTopLevelFolders(t) ==
  /\ threads[t] = "looking"
  /\ threads' = [threads EXCEPT ![t] = IF threadOn THEN "sleeping" ELSE "ended"]
  /\ UNCHANGED <<runVars, queueVars, requests, processor, processorVars, storeVars, threadOn>>
FolderThread(t) == processCompletedTopLevelFolders(t) \/ doProcessCompletedTopLevelFolders(t)

\* No update came for the ready time.
readyTimePasses(key) ==
  /\ ~store[key].due /\ store' = [store EXCEPT ![key].due = TRUE]
  /\ UNCHANGED <<runVars, queueVars, requests, processor, processorVars, destroyed, ignored,
                 records, threadVars>>

Next ==
  \/ StateMachine \/ DQMEventProcessor
  \/ \E t \in DOMAIN threads : FolderThread(t)
  \/ \E key \in DOMAIN store : readyTimePasses(key)

\* The work loop, the folder threads and time go on.
Fairness ==
  /\ WF_vars(DQMEventProcessor)
  /\ \A t \in 1 .. MaxRuns : WF_vars(t \in DOMAIN threads /\ FolderThread(t))
  /\ WF_vars(\E key \in DOMAIN store : readyTimePasses(key))
Spec == Init /\ [][Next]_vars /\ Fairness

-----------------------------------------------------------------------------
(* Properties.                                                             *)

\* The types of the state; a folder is stored under the key of all its updates, which is
\* of a run that has begun (DQMEventStore.icc:108-131).
TypeOK ==
  /\ phase \in {"stopped", "starting", "running", "finishingDQM", "ending"} /\ run \in 0 .. MaxRuns
  /\ Len(queue) <= QueueCapacity /\ elementsDropped \in Nat /\ droppedCount \in Nat
  /\ requests.pending \subseteq Pending /\ requests.inProgress \in BOOLEAN
  /\ latestLumiSection \in LumiSections \cup {0} /\ collate \in BOOLEAN
  /\ \A k \in DOMAIN store : /\ k[1] \in 1 .. run /\ k[2] \in LumiSections
                             /\ store[k].updates # {} /\ \A n \in store[k].updates : Key(n) = k

\* Where updates are: on their way, in a record, dropped, destroyed with the store, or
\* ignored for want of collation.
Served == UNION {r.folder.updates : r \in records}
Places ==
  [queued |-> ToSet(queue), inHand |-> IF processor.at = "add" THEN {processor.update} ELSE {},
   stored |-> UpdatesOf(store, DOMAIN store), served |-> Served, unwanted |-> unwanted,
   overflown |-> overflown, outdated |-> outdated, destroyed |-> destroyed, ignored |-> ignored]
GivenUp == unwanted \cup overflown \cup outdated

\* Each update sent is in one place, and only there.  Those dropped before the store, and
\* no others, are in the count that is shown or in the one that comes with the next update.
UpdatesAccountedFor ==
  /\ UNION {Places[p] : p \in DOMAIN Places} = 1 .. Len(updates)
  /\ \A p, q \in DOMAIN Places : p # q => Places[p] \cap Places[q] = {}
  /\ droppedCount + elementsDropped = Cardinality(GivenUp)

\* A record is of the run it is handed out in, which another thread may be ending, holds the
\* updates of one lumi section, all or as many as came before a pause, and no update is in
\* two records.
RecordsAreSound ==
  \A r \in records :
    /\ r.key[1] = r.run /\ \A n \in r.folder.updates : Key(n) = r.key
    /\ isReady(r.folder)
    /\ \A s \in records : s # r => s.folder.updates \cap r.folder.updates = {}

\* Collation neither loses an update uncounted, nor mixes runs, lumi sections or records.
CollationIsSound == UpdatesAccountedFor /\ RecordsAreSound

\* No folder stays for ever, whether too few updates come for it or too many, and whatever
\* requests come meanwhile.
FoldersLeave ==
  \A k \in (1 .. MaxRuns) \X LumiSections : k \in DOMAIN store ~> k \notin DOMAIN store

\* Requests are served: the transient states of the run end.
RequestsAreServed == requestsOngoing ~> ~requestsOngoing

\* What DQMEventProcessorResources.cc:22-25 assumes: "after the store is destroyed,
\* end-of-run processing has nothing left to do".  With it an update would be too old only
\* for a later one of its own run.  It is not so: after Halt the latest lumi section is that
\* of the last run.
OutdatedByTheirOwnRun ==
  \A n \in outdated : \E m \in 1 .. Len(updates) :
    updates[m].run = updates[n].run /\ updates[n].ls + OlderLS < updates[m].ls

\* At most one thread looks for ready folders.  Not so: a thread that sleeps through the end
\* of one run and the start of the next goes on.
OneFolderThread == Cardinality({t \in DOMAIN threads : threads[t] # "ended"}) <= 1
=============================================================================
