# A verification of the StorageManager

The StorageManager (SM) is the last stage of the CMS data acquisition: it
receives events from the filter units as chains of I2O fragments, assembles
them, writes them to the files of its output streams, collects data-quality
(DQM) histograms, and serves both to consumers over HTTP.  This directory
holds TLA+ models of its core, the TLC configurations that check them and the
proofs, checked by TLAPS, of theorems about them.

    tlc -workers 2 -config <run>.cfg <module>.tla      one model-checking run
    tlapm <module>.tla                                 one module of proofs

`PROJECT.json` lists the runs, which source lines each definition stands for,
the faulty variants that show that each property can fail, the hazards and the
theorems.  Paths below are relative to the repository (`src/src/X.cc` and
`src/interface/X.h` in `PROJECT.json`).

## 1. The system

### Threads

| thread | work | blocks on |
|---|---|---|
| SOAP handler | `StorageManager::handleFSMSoapMessage`: translates a run-control command into an event of the command queue | a full command queue |
| I2O callbacks | `receiveRegistryMessage`, `receiveDataMessage`, ...: chain the fragment, put it in the fragment queue; the end-of-lumi-section callback puts its message in the stream queue | a full fragment or stream queue |
| `FragmentProcessor` | the state machine: all commands, all consumer registrations, then one fragment or the idle action of the current state | a full command or stream queue |
| `DiskWriter` | takes events from the stream queue, writes them; opens and closes streams when the dequeue times out | an empty stream queue |
| `DQMEventProcessor` | takes DQM events from its queue, collates them in the `DQMEventStore`; serves requests after each | an empty DQM queue |
| completed-folder thread | hands DQM folders that are ready or stale to the DQM consumer queues | `storeMutex_` |
| HTTP handlers | consumer registration and `getEvent`, monitoring pages | mutexes only |
| `StatisticsReporter` | samples the counters of all others | mutexes only |

### Components

For each: the state it keeps, its operations, what makes it correct.

* **ConcurrentQueue** (`interface/ConcurrentQueue.h`).  A list under one mutex
  and two conditions, with its size, its memory and the count of what was
  dropped kept beside it.  Policies: `FailIfFull` (throws), `KeepNewest`
  (evicts), `RejectNewest` (refuses).  *Correct when* items come out in order,
  limits hold, no loss is silent, and nobody sleeps while there is work or room.
* **State machine** (`interface/StateMachine.h`, one `.cc` per state).  States
  *Constructed, Halted, Stopped* (Ready), *Starting, Processing,
  DrainingQueues, FinishingDQM, Stopping, Halting, Failed*.  Entry actions post
  requests to the two other threads; the states that wait for them poll in
  `noFragmentToProcess` and post the event that ends them into the command
  queue.  *Correct when* a state that run control sees means what it says, a
  run loses no data unless it is cut short, and each transient state is left.
* **FragmentProcessor** (`src/FragmentProcessor.cc`).  The loop that drives
  the machine.  It stops taking fragments while the fragment store or the
  stream queue is full: back-pressure reaches the filter units through the
  fragment queue.
* **DiskWriter, DiskWriterResources**.  Streams, and the request flags
  `configurationIsNeeded_`, `streamChangeIsNeeded_`, `streamChangeInProgress_`
  and `diskWriterIsBusy_` shared with the state machine.  *Correct when* each
  event meets the streams of its own run, and all files are closed in the end.
* **DQMEventProcessor, DQMEventProcessorResources, DQMEventStore**.  The same
  request protocol with three kinds of requests, and a map of folders under
  `storeMutex_`.  *Correct when* each run's histograms are handed out once and
  no data outlives its run.
* **FragmentStore, I2OChain**.  Incomplete events by key; chains joined out of
  order, duplicates and mismatches marked as errors; stale chains popped.
* **EventDistributor, DiscardManager, FUProxy**.  Which queues a complete event
  goes to; exactly one discard message to the resource broker that sent it.
* **QueueCollection, ExpirableQueue**.  One queue per distinct consumer,
  created through the registration queue; queues of silent consumers expire.
* **ConsumerUtils, RegistrationCollection, InitMsgCollection**.  Registration,
  header requests and event requests of the consumers.
* **StreamHandlers, FileHandlers, DbFileHandler**.  Files per stream and lumi
  section, closed by size, by age, by the end of a lumi section or of the run.
* **Selectors** (`TriggerSelector`, ...).  Boolean expressions over the trigger
  bits, prescales.
* **ResourceMonitorCollection, AlarmHandler**.  Disk and process alarms, and
  `moveToFailedState`, by which any thread posts `Fail`.
* **MonitorCollection, MonitoredQuantity, StatisticsReporter.**  Each collection
  keeps quantities: accumulators that the threads of the data flow add samples to,
  results that the reporter calculates from them, a window of recent results, and
  what the info space shows.  *Correct when* each sample counts once, and is shown.
* **Messages** (`I2OChain`'s accessors, `InitMsgData`, `EventMsgData`, ...).  A
  chain, shared by all its copies, with the header fields cached in it when they are
  first asked for.  *Correct when* what is read is all there, and who asks for
  a field that a message does not have expects the exception.
* **Configuration**.  The info space that SOAP messages set, the copies of it that
  are made in Ready, a listener that notes a change of the streams.  *Correct
  when* a run uses what was set before it, and all of one configuration.
* **Web pages, EventServerProxy, scripts.**  Pages, the consumer-side readers,
  deployment.

### How they interact

    run control --SOAP--> commandQueue --+
    filter units --I2O--> fragmentQueue -+-> FragmentProcessor -> FragmentStore
         |                                        |  (complete, or stale)
         |                                        +--> streamQueue -> DiskWriter -> files
         +---------- end of lumi section -------------^
                                                  +--> dqmEventQueue -> DQMEventProcessor
                                                  |        -> DQMEventStore -> DQM consumer queues
                                                  +--> event consumer queues -> HTTP
    state machine <--flags--> DiskWriterResources, DQMEventProcessorResources
    DiskWriter, DQMEventProcessor --Fail--> commandQueue

### What is hard

1. **A stop races the data.**  `DrainingQueues` asks the store, the stream
   queue and the DiskWriter whether they are empty, one after the other, while
   events move on; and the DiskWriter marks itself busy only after it has taken
   the event (`DiskWriter.cc:113-120`).
2. **Requests overwrite each other.**  Starting, Stopping, Halting, Failed and
   FinishingDQM set shared flags while the threads are serving earlier requests.
3. **Events of the machine travel through the command queue** behind
   commands of the user that may have changed the state meanwhile.
4. **Exceptions in the middle** of a stream change, a write, a DQM update, a
   look-up of the resource broker, or an entry action.
5. **Wake-ups.**  `notify_one` for each removal, a single `timed_wait`, and
   operations that make room without notifying.
6. **Livelock.**  Idle actions run only when nothing arrives and nothing is full.

7. **Requests of consumers** are served by HTTP threads in several steps, between
   which a run may begin or end and another consumer be served.
8. **Closing files.**  A file that cannot be moved throws in the midst of a loop
   over several; it has to be closed again, reported once and never written to.
9. **Fragments** arrive in any order, damaged, twice or too late, and the same
   buffers have to be given back to the resource brokers.
10. **Threads that are given up**: a disk that hangs, a folder thread that is not
    joined.
11. **Two locks, one after the other.**  Samples are taken out under one and stored
    under another, and a reset does the same at the begin of a run.
12. **Shared without a lock**: the header cached in a chain, and the count that is
    written into it for one consumer.
13. **Parameters** are set at any time, copied group by group, asked for by each part
    at a time of its own; and `Enable` is two commands if the streams have changed.

The list `hazards` in `PROJECT.json` says at which line each of these bites and
which property is there for it.

## 2. The modules

| module | models | composed of |
|---|---|---|
| `LossyFifo` | abstract: what a queue promises its users | |
| `ConcurrentQueue` | `ConcurrentQueue.h`, three policies | refines `LossyFifo` |
| `RunLifecycle` | abstract: what run control may rely on | |
| `RunControl` | state machine, FragmentProcessor, DiskWriter and DQMEventProcessor with their resources, their queues, run control and filter units | refines `RunLifecycle` |
| `ConsumerServing` | event consumers, HTTP handlers, `QueueCollection`, `ExpirableQueue`, registrations, the EventDistributor's consumer selectors | |
| `StreamFiles` | the DiskWriter below its queue: streams, files, lumi sections, the data base log | |
| `FragmentAssembly` | `I2OChain`, `ChainData`, `FragmentStore`, faulty and stale events, discards and their books | |
| `DQMCollation` | the DQM queue, DQMEventProcessor, DQMEventStore and its folder threads | |
| `ResourceMonitoring` | disks, workers, SATA beasts, event counts and their alarms | |
| `TriggerSelection` | the parser and evaluation of trigger expressions | |
| `Statistics` | the life of a sample: accumulators, results, info space, resets | `MonitoredQuantities` |
| `MonitoredQuantities` | which quantities there are, and what each collection does with them | |
| `EventData` | the header of a message, who asks for it and what that raises | |
| `Configuration` | parameters: set, noticed, copied, handed out | |
| `MCParts` | the last five modules as four parts side by side (the two about quantities are one), for TLC: a behaviour is of one part | |
| `MC...` | the instances of each for TLC | |
| `...Proofs`, `RunControlInvariant` | the theorems of section 4 | |

Each of the others looks closely at a part of what `RunControl` takes as one
step or as a choice; what the two have in common is the protocol between the
FragmentProcessor and the thread in question, which is why each has the begin
and the end of a run as actions of its own.

### ConcurrentQueue

A critical section under `protectElements_` is one action.  A thread that waits
on a condition gives the mutex up in the middle of an operation, so a blocking
operation has a first action and a `Resume` action.  `notFullWaiters` and
`notEmptyWaiters` are the wait sets of the two conditions; `NotifyNotFull` takes
one *arbitrary* thread out, as `notify_one` may.  `WakeUnnotified` is both a
timeout and a spurious wake-up: `timed_wait`'s result is not looked at by the
code either.  The retries of `enqWait` and `deqWait` (`while`) and the
single look of the timed operations (`if`) are kept apart.

The state is `elements_`, `size_`, `used_`, `capacity_`, `memory_` and
`elementsDropped_`.  An item is its memory, its insertion number and the memory
of all insertions up to it; the last two are history and make the memory of a
stretch of the queue a difference, so that `used_` can be compared with the list
without a recursive sum.  `KeepNewest`'s eviction loop is the one `n` for which
`Evicts(n, m)` holds.

### RunControl

* A transition of the machine is two actions: `processCommand` (exit actions,
  the innermost reaction that matches) and `enterState` (entry actions).  The
  set `Transitions` gives, per innermost state, what the reactions of that state
  and of its outer states come to; events without reaction are ignored.
* `fpPc` is where the FragmentProcessor is between two steps that other threads
  can see: in `allQueuesAndWorkersAreEmpty` the store and stream queue are read
  in one step and the busy flag in the next.
* A blocking enqueue is an action enabled while there is room; that this is
  what `ConcurrentQueue` provides is the subject of its own runs.
  `moveToFailedState` waits 5 s for room: in the thread that itself empties the
  command queue (`failHere`) and in the others (`Fails`) a `Fail` that finds no
  room is dropped.
* An event is a number; it arrives whole or in two fragments, for a stream or
  for DQM.  Event 0 in the stream queue is an end-of-lumi-section message.  A run
  is a number; `streams` is the run whose stream handlers exist.
* `Throws(fault)` marks where an exception may start: `entry` (into Ready),
  `streams` (closing, the database file, configuring), `write`, `lookup`
  (of the resource broker), `dqm` (update or request).
* `accepted`, `queued`, `written`, `lost`, `discarded`, `promised`,
  `disregarded` and `aborted` are history.

Abstractions.  Consumers never block the FragmentProcessor and never change
control: they are in `ConsumerServing` and `DQMCollation`.  Capacities do not
change.  Run numbers count the Enables.  SOAP messages are handled one at a
time, as the application does.  Whether a stale timeout has passed, whether this
fragment is the hundredth without an idle action, and whether a DQM update is too
old are nondeterministic.  `streamChangeDone` and the following `setBusy(false)`
are one step: they are read by different states.  Exceptions of exit actions, of the
file timeouts and of the completed-folder thread are not modelled; all take the
`Fail` or the alarm path of the modelled ones.

### ConsumerServing

A client has one HTTP request at a time; its handler is a sequence of actions
(`getConsumerId`, `createQueue`, `addRegistrationInfo`, `enqueueRegistration`,
or `lookupQueue`, `popEvent`, `setDroppedEventsCount`, `writeConsumerEvent`),
one for each of the locks `ConsumerUtils` takes in turn.  The FragmentProcessor
begins and ends a run in as many steps, registers consumers, initialises
selectors and distributes events.  `QueueCollection` is two sequences of queues,
one per policy, and the two look-ups.  An event is its trigger bits; a selection
is what `Selects` makes of them (`TriggerSelection` says what that is).  The
client follows `EventServerProxy`: it asks again when its reply was lost and
registers anew when it is told that the run is over.  Left out: the DQM
consumers (the same calls, another header), proxied requests, and the sizes
shown on pages.

Nothing in the code makes a request end before the next run begins, nor forgets
the shared queues of the last run, so that the id of a queue may come into the
next run although the queue is gone (`QueueCollection.h:429`).  There it names no
queue or somebody else's.  The history variable `outlived` tells whether this has
happened in the present run: `removeQueues` sets it if a registration is between
`createQueue` and its selector (`BetweenQueueAndSelector`), `createQueue` if
what it finds in `queueReginfoLookup` is not of this run (`newlyShared`).  The
properties that depend on queue ids are claimed unless it has, which says that there is
no other way for them to fail.  A *request* that looked its queue up before the
begin of a run is served from whatever has that id afterwards; its consumer is
registered no longer, and the properties say nothing of it.

### StreamFiles

The DiskWriter takes an event or an end-of-lumi-section message and visits its
streams one after the other (`dw.rest`); each visit opens, writes, closes or
sweeps files and may fail, which ends the step as the exception does.  `Faults`:
the directories of a new file are missing (`enter`) or its writer or header fails
(`create`); an event cannot be written, or in part (`write`); a file cannot be accessed
or moved (`move`); or it is moved and then the check or the log fails (`check`).  A file
that could not be made is there nevertheless: its record is open, after `create` the data
base log has it as open, and on disk there is nothing, or some of its header
(`HalfMade`), but no stream has a handler of it.  `made` tells these apart.  `RemoveIf` is what `std::remove_if` leaves behind when its predicate
throws; a file that is too large leaves the vector at its place, as `erase(it)` does.  A file is its
record (stream, run, lumi section, counter), whether its writer is still there, and its
size in memory and on disk.  The lines for the
data base log are data; they are added up by `reportLumiSectionInfo` and at the
end of the run.  A file
whose writer was stopped but that could not be moved is written to through a
null pointer: there the model stops (`"crashed"`).

### FragmentAssembly

One thread does all of this, so a step is the handling of one message or of one
stale event.  A fragment has the fields its header has (index, total, code) and
those it was sent with (event, part), which agree unless it is damaged; a
checksum is whether all payloads are intact and in their place.  The bits of
`ChainData`, the key, the insertion of a part at its place, completion, the
memory of the store, the order of distribution and discard, and the counters of
the senders are as in the code.  Buffers, the pool and the addresses are left
out.

### DQMCollation

Four parties: the state machine, which makes requests and clears the queue; the
DQMEventProcessor, one action per branch of its loop; and a folder thread per
configuration, which looks and sleeps.  A folder is the set of updates in it.
The thread is started detached (a ROOT thread function without a result), so
that `Join` returns at once: a thread of an earlier configuration may go on.

### ResourceMonitoring

The reporter's round is a list of checks; between any two of them the
FragmentProcessor may enter Ready or begin a run.  Both hold
`diskUsageListMutex_` while they measure (`Mutex`).  What a check sees is chosen
from `Readings`, on either side of every threshold of the code.  A disk that
hangs leaves a thread behind that sets `retrievingDiskSize` back when it answers.
Each check is due in every round, where the code looks at the resources in one
round of 600 (`StatisticsReporter.cc:35`): this only makes the rounds shorter.

### TriggerSelection

A pure function, character by character because the code cuts strings by
position: that is what the property is about.  "and", "or" and a name are one
character each; names that contain "and" or "or" between other letters, which the
code takes for operators there as well (section 5), are left out.

### Statistics and MonitoredQuantities

`MonitoredQuantities` is the table of the quantities: for each collection (and each
kind of record in one) who samples it, and whether it is calculated, reset,
cleared with its record, published, and under a mutex.  A behaviour of `Statistics`
observes one of them, any.  A sample has an identity, so that a count, sum or average
is the set of the samples it is made of, and "counted twice" or "lost" can be said
without arithmetic.  The reporter, the thread of a query (`actionPerformed`) and the
FragmentProcessor at the begin of a run are sequences of actions, one for each
lock that the code takes: `Latch` is the part of
`MonitoredQuantity::calculateStatistics` under `accumulationMutex_`, `Store` that
under `resultsMutex_`, with the samples `inHand` between the two;
`ResetAccumulators` and `ResetResults` are the two parts of `reset`.  `fresh`,
`latest`, `stale` and `torn` are history.  Values and times are left out, so is the
alarm that a round of the reporter raises when it throws.

### EventData

One message, of any kind, complete or not, damaged or not, and everybody who
asks it for a field: the FragmentProcessor (run number, selectors, monitoring), the
DiskWriter, the DQMEventProcessor and the requests of consumers.  `raises(field)` is
what the accessor throws in the present state of the chain; `Reads` is a caller that
catches nothing and `Asks` one that expects some exceptions.  The header that
is cached is known by where it was found (a payload, or a frame if the chain is
faulty), how many fragments it was taken from, its run and its count of dropped
events; this is what may go wrong.  Buffers are left out, and so are the fields
that no one in the application asks for.

### Configuration

A group of parameters (`DiskWritingParams`, ...) is one value, set at any time.
`updateAllParams` copies one group per step under `generalMutex_`, which the
listener (`actionPerformed`) and the SOAP thread (`handleEnable`) need as well, but a
setting does not.  `used` is what each part of the application got when it asked:
at construction, in Ready, in Starting, and, for the stream selectors, at the
begin of Running.  The state machine is reduced to the
states in which these moments are; `RunControl` has the rest.  The command queue has
room for a `Fail` here, where the code gives up after 5 s (`AlarmHandler.cc:222`).

## 3. The runs

| run | states | shows |
|---|---|---|
| `cq_blocking` | 259,042 | `FailIfFull`, three producers, one consumer: every blocked enqueue returns |
| `cq_dropping` | 773,981 | each enqueue as `KeepNewest` or `RejectNewest`, two readers, clears, limits changed: counters, order, accounting, wake-ups |
| `cq_cleared` | violation | `clear()` strands blocked producers |
| `rc_lifecycle` | 149,275 | any three commands at any time, with data and one failure anywhere: the abstract lifecycle, cleanliness at rest, every transient state ends |
| `rc_events` | 3,430,643 | an event in one or two fragments and an end of lumi section, up to four commands, one failing write, look-up or DQM update: nothing accepted is lost or misplaced |
| `rc_stop_drops` | violation | data received before Stop is dropped |
| `consumers` | 1,524,321 | two consumers that register, lose replies, share a queue, are served and go away, over one or two runs |
| `files` | 976,833 | three streams whose files fill up, time out, end with their lumi section, or cannot be made, written, moved or logged |
| `assembly` | 583,430 | events of one to three fragments, together or apart, reordered, lost, damaged, doubled |
| `dqm` | 256,524 | two updates over two runs that are stopped or halted |
| `monitoring` | 355,690 | two changes of what is watched around two entries into Ready and the begin of a run |
| `parts` | 420,394 | all expressions of up to three operands, four with mixed operators, against what they mean; one quantity of each kind; one message of each kind and damage; settings around runs |

### The properties

Of a queue:

* `ContentsStayInBounds` - `CountersMatchContents`: `size_` and `used_` are the length
  and the memory of the list through insertion, eviction and clear, and the
  unsigned subtractions never wrap; and `WithinLimits`: the capacity always, the
  memory limit exactly by `enqNowait`, up to one item by the blocking
  enqueues, which ask `isFull` only.
* `EveryItemAccountedFor` - offered = delivered + inside + reported + to be
  reported + in the hands of a blocked producer.
* `NoStrandedProducer`, `EnoughConsumersAwake` - no lost wake-up, on either side.
* `EnqWaitReturns` - liveness of the blocking enqueues.
* `ImplementsLossyFifo` - refinement: items come out in order, and only those
  that are counted as lost go missing.

Of a run:

* `StatesMeanWhatTheySay` - `RestingStatesAreClean`: in Halted and Ready no stream, no
  data and no request is left over from the last run; and
  `RunningMeansConfigured`: in Running the streams and the selectors are those of this
  run and no change is under way.
* `EventsMeetTheirStreams`, `AcceptedEventsAreQueued`,
  `OrderlyStopWritesEverything` - the path of an event from the fragment queue
  to the file: unless the run is cut short or an exception takes the event, it
  is written, and by the streams of its own run.
* `ImplementsRunLifecycle` - refinement: no state is reported to run control
  before the DiskWriter has opened or closed the streams it implies.
* `TransientStatesEnd`, `FailuresReachFailed`, `FilesClosedAfterFailure` -
  liveness: Stop, Halt and a start end, failures are noticed, and files are
  closed for good after one.

Hazard 1 of section 1 turns out harmless: an event that the DiskWriter has taken
before it is marked busy is still written, because leaving Running only clears
the queue and the streams are destroyed by the same thread, after the event.
What does matter is that the stream queue is asked (the mutant
`streamQueueIsEmptyBug`) and that nothing is cleared before Running is left; no
property of these runs depends on the busy flag.

Of the consumers:

* `ServedAsRegistered` - what a consumer is handed is of the run it registered in
  and was wanted by its own registration, unless the id of a queue outlived it.
* `UniqueEventsServedOnce` - consumers that register alike for unique events
  never get the same event, also when they register at the same time or again, with
  the same exception.
* `EveryLossIsCounted` - each event sent to a queue is inside, popped, or
  counted as lost: refused, pushed out, sent to a stale queue, cleared with it.
* `RegistrationsTakeEffect` - a consumer that was told so gets an initialised
  selector, whichever of registration and INIT message comes first.
* `AbandonedQueuesAreEmptied` - a queue nobody asks for does not keep events.

Of the files:

* `FilesDoNotCollide` - no two files of any run have the same name, and none
  grows past `maxFileSizeMB` by more than one event and the end record.
* `OpenFilesStayKnown` - until the streams are destroyed no open file drops out
  of its stream, though closing one may throw inside `remove_if` and writing to one
  may throw as well.  The exception is a file that could not be made; it has no event
  in it, and the state machine has been told to fail.
* `MovedFilesAreFinal` - and none is touched again once it has been moved.
* `ReportsAddUp` - the lines in the data base log account for every file once,
  late events included, and the end-of-run marker counts the lines; a failure
  may lose a line, so it is only claimed without one.
* `NothingLeftOpen` - with a disk that plays along, files are closed when their
  streams are gone, and the thread survives.
* `OldFilesAreClosed` - files without events are closed in the end, though it
  may take another attempt, unless there is one that cannot be closed
  (`Unclosable`), which holds up those after it.

Of assembly and discards:

* `GoodMeansWhole` - `CompleteEventsAreWhole`: what goes out as a good event has each
  fragment once, in order and as sent; and the other way round
  (`WholeEventsAreAccepted`): an event whose fragments are all there does not wait,
  go stale or count as faulty.
* `BooksBalance` - `FragmentsAccountedFor`: every fragment received is in one chain,
  and `memoryUsed_` is what is stored, so that an empty store is not full; and
  `DiscardsAddUp`: the outstanding discards shown for a sender are the events of his
  whose discard message was not sent.
* `StaleEventsLeave` - no incomplete event stays for ever, unless the store is full.

Of DQM: `CollationIsSound`, which is `UpdatesAccountedFor` (an update is on its way,
handed out, counted as dropped or destroyed with the store, exactly one of these)
and `RecordsAreSound` (a record is of the run and lumi section it says, complete or
due, and no update is in two), and `FoldersLeave` (no folder stays, with too few updates or too many).

Of the alarms: `AlarmStateIsRaised` (a disk shown with a warning has its alarm,
through resets, hung disks and a Configure beside a round), `ProblemsAreReported`
and `AlarmsAreRevoked` (what stays wrong, or stays well, is told so in the end).

Of the selections: `SelectsAsWritten` - streams and consumers select the events
the expression means, as long as its brackets are all closed at the end or are
one pair at the beginning (see section 5 for the others).

Of the statistics:

* `EverySampleCountsOnce` - a sample of this run is in the accumulators, in the
  reporter's hands or in the results, in one of them; the window of recent results
  is the last calculations in their order; only where no mutex of the
  collection is around both may a reset fall into the middle of a calculation.
* `SamplesArePublished` - a sample gets into the info space in the end, although a
  query clears the flag that says there is something to publish.

Of the messages:

* `FieldsAreSound` - a cached header is all of the header and is cached before
  other threads may look for it (`HeadersAreSound`); nobody asks for a field
  that raises an exception he does not expect (`NothingUnexpectedIsRaised`); an error
  event is filed under the configured run (`ErrorEventsAreFiledUnderOurRun`).
* `LossesDoNotAccumulate` - the count of dropped events that a consumer is
  told is that of one consumer, not the sum over those served before.

Of the parameters, as long as there is room in the command queue for a `Fail`:

* `ChangesReachRuns` - a change of the streams is noted however it meets the copying
  (`ChangesAreNoticed`), and a run enabled at rest has the streams of that moment or
  later ones (`RunsUseTheLatestStreams`).
* `OneConfigurationPerRun` - in a run all who keep parameters have those of one
  configuration, or a `Fail` is on its way.

### Bounds

* Queue: four or five offers and capacities up to three, so that a queue fills,
  empties and fills again; item sizes 1, 2, 4 against limits 3 and 5, so that an item
  evicts several, or does not fit at all; three blocked producers, so that a
  woken one can find its place taken by another and a third still waits; two
  control operations, enough for a clear after a reconfiguration.
* Run: three commands reach each state and a start after a failure; four
  (`rc_events`) a second run after the first.  One event of two fragments beside an
  end of lumi section, a stream queue of two and a fragment queue of one: the
  stream queue can hold an event without being full (a full one already stops the
  FragmentProcessor) and can be full.  One fault: each is followed by the
  complete recovery.  `CommandCapacity` is 8, so that it does not fill (128 by
  default; see hazards); a store that fills is left to section 5.
* Consumers: two clients in five `Cases` - two selections over two runs, two
  selections and two events, a shared queue over two runs, a shared queue with a lost
  reply, a shared queue beside a prescale; queues of one, so that each second event is a
  loss.  In the two over two runs a queue id may outlive its queue, at any step of a
  request.
* Files: three streams (faulty and two of events), two lumi sections, files of
  at most three with header and events of one: the second event fits, the third
  does not.  Five `Budgets`: late events and two runs; growing files with a
  fault; lumi sections with a fault; ages with a fault; a loss of data.
* Assembly: five events of one, two and three fragments in four `MCTraffic`
  sets, two faults among them; a memory limit of four, which two
  incomplete events reach.
* DQM: two updates for two lumi sections that are further apart than `OlderLS`,
  a queue of one, one or two updates expected; two runs.
* Monitoring: one disk of its own and one other, a SATA beast, an output module;
  two changes among six readings of a disk.
* Parts.  Selections: two paths and all their combinations; the operands are names,
  pairs in brackets, negations of these and pairs with a negation, in both notations.
  Quantities: one of each kind that `Kind` tells apart; two samples, two bins (so
  that the ring wraps), one reset: what is between two locks is at most one
  set, so a second reset adds nothing.  Messages: one or two fragments with the header
  in one or both, both corruptions, each checksum; two consumers.  Parameters: two
  settings, of the streams, the event serving or the run number, to a good value or a
  bad one of each kind; two commands in the queue.

### Fairness

* Queue: a woken thread gets the mutex; a timed wait ends; a consumer keeps
  polling (the work loops return true for ever).  No strong fairness, no
  fairness among waiters, none for producers.
* Run: the three work loops (`FragmentProcessor`, `DiskWriter`,
  `DQMEventProcessor`) and the pending enqueue of the SOAP handler.  Each is a
  loop of its own that is never disabled for good by another.  Weak fairness of
  the loop as a whole, not of single branches.  Nothing obliges run control or
  the filter units to act, and the bounds on their messages make every burst
  finite: a DiskWriter starved by an endless supply of events is out of
  the runs (it serves requests only when its dequeue times out).
* Consumers: the work loop, time (a queue becomes stale), and handlers that have
  begun; no client is obliged to ask, and no run to end.
* Files: the DiskWriter's loop, and that a dequeue without events times out.
* Assembly: the work loop, as `KeepsProcessing` - weak fairness with its ENABLED
  written out, which TLC evaluates much faster - and time.
* DQM: the work loop, the folder threads, and time.
* Statistics: time (the calculation and the update fall due), the reporter's loop, and
  that a query or the begin of a run that has started goes on.
* Monitoring: the reporter's loop, the entry into Ready, and the answer of a disk
  that works again.  Strong fairness only of `configureDisks`, which competes
  with the reporter for a mutex: the reporter sleeps between two rounds with the
  mutex free (`StatisticsReporter.cc:200`).

### Deadlock and types

TLC's deadlock check is on except in `consumers` and `files`, where all of the
bounded work may be done (and a crashed thread does nothing): elsewhere the idle
steps of the loops keep each model going, so a state in which no thread can move
would be reported.

Each module has a type invariant.  Those of `ConcurrentQueue`, `RunControl`,
`FragmentAssembly`, `DQMCollation`, `Statistics`, `EventData` and `Configuration` are
proved (that of the last is a part of its invariant); those of the others hold in the
configurations of their runs but are not listed there, to keep the runs short.

## 4. What is proved

`ConcurrentQueueProofs`, for every policy, finite sets of threads, every set of
item sizes, capacities, limits and operations (assumptions: the named
`...Assumption`s of `ConcurrentQueue`, which only give the constants types):

* `TypeCorrect`, `CountersCorrect`, `FifoCorrect` from the inductive invariant
  `IInv`: types and `Describes(elements, size, used, ...)`.  The two counters
  cannot be shown right without the chain of partial sums `upTo`, and the
  subtraction in `removeHead` stays natural only because these are monotone.
  `Describes` is stated of any sequence, so that `EvictionDescribed` (n oldest
  out) and `AppendDescribed` (one in) are lemmas about data, and each
  operation is a composition of the two.
* `AccountCorrect`: `EveryItemAccountedFor` on top of `IInv`, with the finite
  set of blocked producers counted by `BlockedGrows` and `BlockedShrinks`.
* `LimitsObserved`: `WithinLimits`, and with the counters `InBounds`
  (`ContentsStayInBounds`); it needs to know that nobody blocks on a
  queue that drops (`NobodyBlocks`), for a blocked producer may exceed the memory.
* `NoProducerStranded`: under `NeverEmptiedUnnotified` (no `clear()`, no
  evicting `enqNowait`, no limit of zero), which `cq_cleared` shows is needed.
* `ConsumersAwake`: the other side needs no such condition, since every
  insertion notifies; the proof counts sleeping consumers against items.
* `QueueImplementsLossyFifo`: each step is one of `Accept`, `Lose`, `Deliver` or
  a stutter; the lemmas are one per operation.

`RunControlInvariant` (the definitions) and `RunControlProofs`, for any set of commands, any number
of events, fragments, faults and runs and every capacity (assumptions:
`CommandAssumption`, `EventAssumption`, `CapacityAssumption`): every safety
property of the passing runs - `RestingClean` and `RunningConfigured`, together
`StatesMeanIt` (`StatesMeanWhatTheySay`), `EventsMeetStreams`, `OrderlyStop`,
`AcceptedQueued` - with `TypeCorrect`, and the refinement of `RunLifecycle` (`Implementation`).  None of the properties is
inductive: each holds because of what is *not* going on in another thread, and
the invariant `IInv` (theorem `Invariant`) says what that is, in eight parts that
are proved one after the other, each from those before it:

* `CommandInv`: the command queue holds at most one of the events that the
  FragmentProcessor posts to itself, because it finds the queue empty before it
  decides on one.  This is what makes the internal events safe although
  they travel behind commands of the user.
* `PlaceInv`: in which states such an event may find the machine.  A `StopDone`
  decided on in one run can never be taken in the next.
* `StreamInv`: per state, which request the DiskWriter has not taken yet, which
  change it is making, and for which run; `~streamChangeOngoing` is final once
  the completion has been decided on.
* `VisibleInv`: what run control sees, and that streams are only ever opened
  behind Ready or Failed (a failure does not stop a change that has begun).
* `DQMInv`: the same protocol for the DQM store, and that nothing can fill it
  after the request that empties it has been taken.
* `EventInv`: events are stored and queued in Running only, all of one run; an
  event in the DiskWriter's hands outside Running has a request waiting behind
  it, so its streams are still there; `QueuesEmpty` is decided on with nothing
  left.
* `QueuedInv`, `AcceptedInv`: where each event of the history is now.

The parts are predicates of few variables, so each has a lemma for the steps that
leave these alone (`StreamStutter`, ...) and one for each step that does not.
All of `IInv` was first checked with TLC in the configurations of the runs.

`ConsumerServingProofs`, for any clients, registrations, queue sizes, prescales,
runs and events, and with requests under way at any moment (`BoundsAssumption`,
`InfosAssumption`).  `LossesCounted` is `EveryLossIsCounted`.  Its invariant is the
balance of each queue with the types of the queues and of the events; each operation
on a queue has a lemma that says what it does to the books (`Books`), and an event that
is sent to several queues changes each or leaves it alone.

`ServedAsAsked` (`ServedAsRegistered`), `UniqueEventsOnce` (`UniqueEventsServedOnce`)
and `QueueIds` (`QueueIdsResolve`) have no other assumption.  What they say is claimed
unless `outlived`, so the invariant `ServingInv` has two halves.  `CoreInv` holds in
every state: the balance, the types, what is left of a run when it is over
(`RunsInv`), and that an id that is being registered is new (`IdsInv`).  `Sound` holds
as long as no queue id has outlived its queue: a queue id, wherever a handler, the
registration queue, a selector or a registered consumer holds it, names a queue made
for that registration, which for unique events is the one its equals share
(`QueuesInv`); what is in a queue is of this run, wanted by whom it was made for, and
there once (`ItemsInv`); and what a consumer was served is not in its queue any more
(`ServedInv`).  The last is why no event is served twice: consumers that register alike
have the same queue, and an event that left it for one of them cannot leave it again.
`removeQueues` is the step at which `Sound` is proved from `CoreInv` alone: whatever
happened in the last run, with the queues, the look-up, the selectors and the
registered consumers gone nothing is left to disagree unless a registration is in
between, and that is what `outlived` is then.  It becomes true in the midst of a run
only by the `createQueue` of a consumer for unique events whose look-up is old.
In both cases the code does go wrong (section 5), so that the condition is the
weakest for which the invariant can hold.

`StreamFilesProofs`, for any streams, lumi sections, sizes and bounds and
whatever fails (`StreamsAssumption`, `SizesAssumption`, `BoundsAssumption`):
`NamesDiffer` (`FilesDoNotCollide`), `MovedAreFinal` (`MovedFilesAreFinal`),
`OpenFilesStay` (`OpenFilesStayKnown`) and `NothingStaysOpen` (`NothingLeftOpen`).
Names differ because those of a run carry a number that `usedCoreFileNames` has
already passed (`Numbered`), and because that count is only reset while a new run is
being configured, when no file of that run can exist: this is why the invariant
`IInv` has to say which requests and tasks exclude each other (`ControlInv`).  The
size is bounded because `tooLarge` leaves room for the end record as long as the
writer is there (`Fits`).  `Follows` says what may become of a file, and each
operation is shown to keep to it.  The other two theorems need a second invariant
(`KInv`, theorem `StreamsKnow`): the handlers of a stream are files of its own, a file
that is open has not been told of as closed, one that could not be made has no event and came
with a failure, and where the disk has not failed each
file is whole, has its writer while it is open, and is known to its stream.  Every
step is put as `Handled(after, hs)`: what becomes of the files that there are, and
which handlers are left of them.  The heart of it is `RemoveIfKeeps`: when
`remove_if` is left by an exception, the files in front of the one that threw are
closed or moved to the front, and from there on nothing has been touched, so that a
file may be in the vector twice but no open one is missing.
`LogAddsUp` (`ReportsAddUp`) has a third invariant, `RInv` (theorem `ReportsKept`), which
holds until the thread of the disk writer has failed.  A line of the log tells of as
many files of a stream as it says, so the files told of are pairs of a line and a
number (`Pairs`); these and what `fileCountPerLS` still counts are together the closed
files of the run (`AddsUp`).  In the middle of an end of lumi section, when some
streams have given their counts to a line that is not written yet, the difference is
in that line (`UnderReport`, `InTurn`).  The lines at the end of the run are one for
each section with a count, numbered by rank (`UnreportedSection`), so that a section
has one line and a line one section; and the end-of-run report is what the lines
say at every moment (`Tells`), as each line adds to it what `Reported` says.

`ResourceMonitoringProofs`, for any disks, arrays, output modules, thresholds and
budgets (`MonitoringAssumption`, `NamesAssumption`): `AlarmsMatchStates`, that is
`AlarmStateIsRaised`.  The invariant says that between `clearAllAlarms` and
`configureDisks` nothing is promised, that an alarm for an unwanted event never
has the name of a disk, and that the ids of these stay in the bounds.

`FragmentAssemblyProofs`, for any events, parts, senders, damage, order of arrival,
memory limit and bounds (`TrafficAssumption`: messages are nonempty sequences of
fragments of one event in the order of their parts, each sent once, which is
what a filter unit does): `Typing` (`TypeOK`), `GoodEventsAreWhole`
(`CompleteEventsAreWhole`) and `WholeEventsLeaveAsGood` (`WholeEventsAreAccepted`),
together `GoodIsWhole`; `FragmentsStayInOnePlace` (`FragmentsAccountedFor`) and
`OutstandingDiscards` (`DiscardsAddUp`), together `BooksStayBalanced`.  The invariant says of each chain in the store that it holds
fragments of one event, and that their headers are in order unless a bit of
`ChainData` says what is wrong (`Growing`), while nothing but damaged fragments or
duplicates sets such a bit; of the fragments that have arrived that they make up
the chains that are stored or have left, each in one of them and once (`PlacesInv`),
and fill the memory that is counted; and of the chains that have left that they went
where their bits say.  The first two are needed together: a chain is complete by
the number of its fragments, so that "complete" only means "whole" as no part can
be in it twice without a bit.

`DQMCollationProofs`, for any updates, folders, queue sizes and runs, stopped or
halted at any moment (the constants' types): `Typing`, `UpdatesStayAccounted`
(`UpdatesAccountedFor`) and `RecordsStaySound` (`RecordsAreSound`), together
`CollationSound`.  The
invariant puts each update in exactly one place - the queue, the hands of
the DQMEventProcessor, a folder, a record that was handed out, or the sets of
what was dropped - and says that what is on its way is of the present run, which
holds because a store that is not empty at the end of a run has the request for its
destruction before it (`RunInv`).

`PartsProofs` has the three parts that `MCParts` puts beside the selections, for any
quantities, samples, bins and resets, any messages and consumers, any values,
settings and commands (`StatisticsAssumption`, `ObservedAssumption`,
`MessagesAssumption`, `ConfigurationAssumption`, `ChangingAssumption`).

* Statistics: `SamplesCountOnce` (`EverySampleCountsOnce`).  The invariant says who
  holds the mutex of the collection, that no reset is in its middle while
  the reporter works if there is one (so that `stale` and `torn` are false
  then), where the samples are in each phase of a reset and of a
  calculation, and that the bins, read from `workingBin` on, are the latest
  calculations: storing turns the ring by one (`StoreBins`).
* Messages: `HeadersSound`, `NothingIsRaised` and `ErrorsFiled`, together
  `FieldsSound` (`FieldsAreSound`), and `LossesApart` (`LossesDoNotAccumulate`).  The
  invariant says for each stage of a message what its bits can be and
  whether its header is cached: a header that is okay has been asked for before
  the message is queued, by the check of the checksum, of the run number or by a
  selector, and the bits do not change afterwards.  Therefore the guards of
  those who ask later decide as the accessor does.
* Parameters: `ChangesNoticed` and `LatestStreams`, together `ChangesReach`
  (`ChangesReachRuns`), and `OneConfiguration` (`OneConfigurationPerRun`).  The invariant
  says that `previousStreamCfg_` is what the listener was told of last, so that a
  setting it ignores is one that was noted or copied before; where a change is
  between `handleEnable` and the run, with `Reconfigure` in front of `Enable` in the
  queue; and that after an exception in Ready a `Fail` is in the queue before any
  `Enable` can be taken.

Induction over data: the library's induction theorems take an operator as a
parameter, which none of the provers can instantiate.  What is needed of it is
derived from the well-foundedness of the natural numbers for a *set* of numbers
(`LeastNumber`, `Induction`); with it `RemoveIf`, a recursive function, is shown to be
defined (`FrontExists`) and to keep what it should (`FrontKeeps`), and so is
`ReportedAll`, which adds the lines at the end of a run to its report one by one
(`UpToExists`).

Only model-checked: `SelectsAsWritten`, as `TriggerSelection` is a recursive parser
altogether, and all liveness properties (`EnqWaitReturns`, `TransientStatesEnd`,
`FailuresReachFailed`, `FilesClosedAfterFailure`, `RegistrationsTakeEffect`,
`AbandonedQueuesAreEmptied`, `OldFilesAreClosed`, `StaleEventsLeave`, `FoldersLeave`,
`ProblemsAreReported`, `AlarmsAreRevoked`, `SamplesArePublished`).  ENABLED and
liveness under fairness are out of the proof system's reach.  Every other property
of a passing run is a theorem.

## 5. Findings

Two are runs:

* **`clear()` strands producers** (`interface/ConcurrentQueue.h:670`, run
  `cq_cleared`).  `clear()` empties the queue without notifying `queueNotFull_`.
  A producer in `enqWait` - documented as "If the queue is full wait until it
  becomes non-full" - goes on sleeping until a *later* item is removed, and as
  nothing is in the queue that may be never.  `Running::do_exitActionWork`
  clears the queues in which the I2O callbacks wait.
* **Stop drops received data** (`src/Operations.cc:55`, run `rc_stop_drops`).
  Commands overtake the fragments queued before them, and `DrainingQueues`
  inherits the `processI2OFragment` that drops.  `doc/requirements/req.tex:104`
  says that the SM "shall finish processing the already received data".

The following are stated in the modules, where TLC finds them violated with the
instance named, but are not runs of their own:

* A fragment store that is full of incomplete events never drains: the thread
  only sleeps, postpones the stale times and returns (`FragmentProcessor.cc:120`),
  and Stop does not end.  `RunControl` with `StoreCapacity = 1` violates
  `TransientStatesEnd`.
* An operator inside brackets makes `TriggerSelector` skip to the first operator
  after them without looking at the brackets before that one, and cut at the
  wrong length (`TriggerSelector.cc:267-280`): `(a||b)&&(c||d)||e` is not read as it
  is written (`BracketsAreCounted`).  The alternative operators are found with `.or.` and
  `.and.` as regular expressions, whose dots match any character
  (`TriggerSelector.cc:104-107`): the name of a path that has "or" or "and" between
  other letters is cut in two there.  This is read from the code and not modelled.
* `removeQueues` leaves the registration look-up alone, so that in the next run
  a consumer for unique events gets the id of a queue that does not exist any
  more (`QueueCollection.h:429`; `QueueIdsDoNotOutliveTheirQueues` with
  `SharedOverRunsSpec`).  So does one whose registration is under way when the next run
  begins (`MuonsOverRunsSpec`), and may then be served what another asked for.
* A file whose writer or header could not be made stays open: its record, its line
  in the data base and what is on disk (`StreamHandler.cc:133-153`, `FileHandler.cc:44`,
  `EventFileHandler.cc:22-24`); no stream has it, so nothing closes it, also not at the
  end of the run (`OpenFilesAreAllKnown`).
* A file of which the disk has lost all, or has only a part of an event that could not
  be written, cannot be closed (`FileHandler.cc:197`): each attempt throws there, and the
  files of the stream, and of the streams, that come after it are not closed for their
  age until the streams are destroyed (`OldFilesAreClosed` without `Unclosable`).
* The count of lost events is written into an event that consumers share, so
  that one may read another's (`ConsumerUtils.icc:195`; `WrittenCountIsItsOwn`
  with `TwoConsumersSpec`).
* The next event for a file that could not be moved goes to a writer that is
  gone (`EventFileHandler.cc:63`; `StoppedWritersAreNotUsed`).
* The sizes in memory and on disk are compared by an integer division
  (`FileHandler.cc:344`): only a file that has lost everything is noticed.
* Events too corrupt to know their sender do not reach the stream for faulty
  events, though `DiscardManager.h:68-74` expects them there, because the
  look-up throws first (`DiscardManager.cc:56-66`; `CorruptEventsReachTheFaultyStream`).
* The outstanding discards in the info space leave faulty events out
  (`DataSenderMonitorCollection.cc:504`; `InfoSpaceAgreesWithPage`).
* The latest lumi section outlives Halt, so that the first DQM updates of the
  next run may count as too old (`DQMEventProcessorResources.cc:22-25`;
  `OutdatedByTheirOwnRun`).
* A folder thread that sleeps through the end of a run and the begin of the
  next goes on beside the new one (`DQMEventStore.icc:61`; `OneFolderThread`); with
  `collateDQM` off a second update of a lumi section is dropped uncounted while the
  first is still there (`DQMEventStore.icc:146`).
* Alarms: one that is raised between the two halves of an entry into Ready is
  never revoked when its disk is not watched any more (`Ready.cc:101`;
  `AlarmsAreWatched`); one that is raised keeps its level (`AlarmHandler.cc:152-157`;
  `LevelsAgree`); a few unwanted events keep their alarm for ever
  (`RunMonitorCollection.cc:197`; `UnwantedAlarmsEnd`); the begin of a run clears
  the map of these without the lock (`RunMonitorCollection.cc:63`).
* A reset of a quantity and a calculation each take one lock after the other:
  samples of the last run may be stored after the begin of the next
  (`MonitoredQuantity.cc:95`, `274`; `ResetsAreWhole`).  A query "to assure that the values
  are current" publishes what was last calculated
  (`StatisticsReporter.cc:191`; `QueriedValuesAreCurrent`).
* The count of lost events may also end up in a file (`FilesHoldWhatWasSent`).  An event
  with a wrong checksum is written in the format of events, but as it is faulty its
  fragments are taken with their I2O frames (`FaultyEventStreamHandler.cc:49`,
  `ChainData.cc:457`; `EventFilesHoldEvents`).
* `I2OChain.h:428-443` says that the size and location of the header are zero for
  faulty messages and for other kinds, but error events and those with a wrong
  checksum return the real ones.
* Enabled while another run ends, `Reconfigure` comes too early and is ignored, `Enable`
  is not, and the run has the old streams (`StorageManager.cc:633-637`); the memory
  limit of the fragment store is that of the default values for ever, as it is only
  asked for at construction (`ConfiguredAtReady`).
* An exception in one collection leaves all later ones without statistics in that
  round; `discardedDQMEvents` of the info space is bound to the dropped ones
  (`DQMEventMonitorCollection.cc:110`); `sum/count>0` divides before it compares
  (`ThroughputMonitorCollection.cc:185`, `195`).
* A memory limit of 0 is documented as "no check" (`ConcurrentQueue.h:413`) but
  `isFull` makes every blocking enqueue wait for ever; a discard message is sent
  once the event is queued, before it is written (`Processing.cc:85-86`, compare
  `req.tex:97`); a command that is illegal in the current state is ignored without
  a SOAP fault (compare `req.tex:58`); the FragmentProcessor posts its own events
  to the command queue with `enqWait`, of which it is the only reader, and would
  wait for itself with the queue full; `removeQueues` and `createQueue` take two
  locks in opposite orders (`QueueCollection.h:423`).

## 6. Plan

Done: 1. `RunControl` and its proofs.  2. `ConsumerServing`.  3. `StreamFiles`.
4. `DQMCollation`.  5. `FragmentAssembly`.  6. `TriggerSelection`,
`ResourceMonitoring`.  7. `Statistics`, `EventData`, `Configuration` and their proofs.
Left, in this order:

1. The locks of `QueueCollection` as steps of their own, for the deadlock of
   `removeQueues` and `createQueue`.
2. DQM consumers in `ConsumerServing`: their queues hold records of `DQMCollation`.

### Not modelled

The web pages and SOAP messages (`SMWebPageHelper`, `WebPageHelper`, `XHTMLMaker`,
`SoapUtils`, `CurlInterface`) read what others keep and format it; they are the largest
part of the code by lines.  Of the collections the arithmetic is left out -
averages, deviations, rates, the numbers on pages - and of the configuration the
meaning of each single parameter, which is in the module of the part that uses it.  Buffers,
frames and views of messages are data without control.  The registration and the
service of DQM consumers repeat those of event consumers with another header.
`EventServerProxy` and the readers live in other processes; what matters of them
is the client of `ConsumerServing`.  The scripts for deployment, injection and the
data base are outside of the application.
