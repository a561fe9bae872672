------------------------ MODULE MonitoredQuantities ------------------------
(***************************************************************************)
(* What is monitored: the quantities of the collections and of their       *)
(* records, and what their collection does with each.  A few that nobody   *)
(* samples (written DQM events, dropped events of a consumer, fragments of *)
(* an output module) are left out.                                         *)
(***************************************************************************)
EXTENDS Integers, Sequences, FiniteSets

CONSTANTS
  BinCount,   \* binCount_: bins of the sliding window of recent results
  Samples,    \* the samples there may be
  Observed,   \* the quantities of which one is looked at
  Resets      \* bound: begins of a run

ASSUME StatisticsAssumption == BinCount \in Nat \ {0} /\ Resets \in Nat

-----------------------------------------------------------------------------
(* Sampled: by the data flow.  Derived: sampled by the reporter itself,    *)
(* just before it calculates them.  Calculated: in each cycle of the       *)
(* reporter.  Reset: at the begin of a run.  Published: in the info space. *)

RunSampled ==
  {"eventIDsReceived", "errorEventIDsReceived", "unwantedEventIDsReceived",
   "runNumbersSeen", "lumiSectionsSeen", "eolsSeen"}
RunCalculated == RunSampled
RunReset == RunSampled
RunPublished == RunSampled \ {"lumiSectionsSeen", "eolsSeen"}

FragmentSampled == {"allFragmentSizes", "eventFragmentSizes", "dqmEventFragmentSizes"}
FragmentDerived ==
  {"allFragmentBandwidth", "eventFragmentBandwidth", "dqmEventFragmentBandwidth"}
FragmentCalculated == FragmentSampled \cup FragmentDerived
FragmentReset == FragmentSampled \cup FragmentDerived
FragmentPublished == {"allFragmentSizes", "allFragmentBandwidth"}

StreamsSampled == {"allStreamsFileCount", "allStreamsVolume"}
StreamsDerived == {"allStreamsBandwidth"}
StreamsReset == StreamsSampled \cup StreamsDerived
StreamRecordSampled == {"fileCount", "volume"}
StreamRecordDerived == {"bandwidth"}
StreamsCalculated ==
  StreamsSampled \cup StreamsDerived \cup StreamRecordSampled \cup StreamRecordDerived
StreamsPublished == {"allStreamsVolume", "volume", "bandwidth"}

ResourceBrokerSampled ==
  {"eventSize", "dqmEventSize", "errorEventSize", "faultyEventSize", "faultyDQMEventSize",
   "dataDiscardCount", "dqmDiscardCount", "skippedDiscardCount"}
FilterUnitSampled ==
  {"shortIntervalEventSize", "mediumIntervalEventSize"}
     \cup (ResourceBrokerSampled \ {"eventSize"})
OutputModuleSampled == {"eventSize"}
DataSenderCalculated == ResourceBrokerSampled \cup FilterUnitSampled
OutputModuleCalculated == {"eventSize"}
DataSenderPublished ==
  [resourceBroker |-> ResourceBrokerSampled, filterUnit |-> {"mediumIntervalEventSize"}]

DQMEventSampled ==
  {"droppedDQMEventCounts", "dqmEventSizes", "servedDQMEventSizes",
   "numberOfTopLevelFolders", "numberOfUpdates", "numberOfCompleteUpdates"}
DQMEventDerived == {"dqmEventBandwidth", "servedDQMEventBandwidth"}
DQMEventCalculated == DQMEventSampled \cup DQMEventDerived
DQMEventReset == DQMEventSampled \cup DQMEventDerived
DQMEventPublished ==
  {"numberOfUpdates", "dqmEventSizes", "droppedDQMEventCounts", "numberOfCompleteUpdates"}

AllConsumersSampled == {"totalQueued", "totalServed"}
ConsumerSampled == {"queued", "served"}
ConsumerCalculated == ConsumerSampled \cup AllConsumersSampled
AllConsumersReset == AllConsumersSampled

ThroughputSampled ==
  {"poppedFragmentSize", "fragmentProcessorIdleTime", "poppedEventSize", "diskWriterIdleTime",
   "diskWriteSize", "poppedDQMEventSize", "dqmEventProcessorIdleTime"}
ThroughputDerived ==
  {"poolUsage", "entriesInFragmentQueue", "memoryUsedInFragmentQueue",
   "entriesInFragmentStore", "memoryUsedInFragmentStore", "entriesInStreamQueue",
   "memoryUsedInStreamQueue", "entriesInDQMEventQueue", "memoryUsedInDQMEventQueue"}
ThroughputCalculated == ThroughputSampled \cup ThroughputDerived
ThroughputReset == ThroughputSampled \cup ThroughputDerived
ThroughputPublished == ThroughputSampled \cup ThroughputDerived

Owners ==
  {"run", "fragment", "streams", "streamRecord", "resourceBroker", "filterUnit",
   "outputModule", "dqmEvent", "allConsumers", "consumer", "throughput"}

Sampled(c) ==
  CASE c = "run" -> RunSampled
    [] c = "fragment" -> FragmentSampled
    [] c = "streams" -> StreamsSampled
    [] c = "streamRecord" -> StreamRecordSampled
    [] c = "resourceBroker" -> ResourceBrokerSampled
    [] c = "filterUnit" -> FilterUnitSampled
    [] c = "outputModule" -> OutputModuleSampled
    [] c = "dqmEvent" -> DQMEventSampled
    [] c = "allConsumers" -> AllConsumersSampled
    [] c = "consumer" -> ConsumerSampled
    [] c = "throughput" -> ThroughputSampled

Derived(c) ==
  CASE c = "fragment" -> FragmentDerived
    [] c = "streams" -> StreamsDerived
    [] c = "streamRecord" -> StreamRecordDerived
    [] c = "dqmEvent" -> DQMEventDerived
    [] c = "throughput" -> ThroughputDerived
    [] OTHER -> {}

\* StatisticsReporter::calculateStatistics.
Calculated(c) ==
  CASE c = "run" -> RunCalculated
    [] c = "fragment" -> FragmentCalculated
    [] c \in {"streams", "streamRecord"} -> StreamsCalculated
    [] c \in {"resourceBroker", "filterUnit"} -> DataSenderCalculated
    [] c = "outputModule" -> OutputModuleCalculated
    [] c = "dqmEvent" -> DQMEventCalculated
    [] c \in {"allConsumers", "consumer"} -> ConsumerCalculated
    [] c = "throughput" -> ThroughputCalculated

\* What is reset quantity by quantity; records are cleared with the map they are in.
Reset(c) ==
  CASE c = "run" -> RunReset
    [] c = "fragment" -> FragmentReset
    [] c = "streams" -> StreamsReset
    [] c = "dqmEvent" -> DQMEventReset
    [] c = "allConsumers" -> AllConsumersReset
    [] c = "throughput" -> ThroughputReset
    [] OTHER -> {}
DataSenderCleared == {"resourceBroker", "filterUnit", "outputModule"}
Cleared == DataSenderCleared \cup {"streamRecord", "consumer"}

\* StatisticsReporter::updateInfoSpace.
Published(c) ==
  CASE c = "run" -> RunPublished
    [] c = "fragment" -> FragmentPublished
    [] c \in {"streams", "streamRecord"} -> StreamsPublished
    [] c \in DOMAIN DataSenderPublished -> DataSenderPublished[c]
    [] c = "dqmEvent" -> DQMEventPublished
    [] c = "throughput" -> ThroughputPublished
    [] OTHER -> {}

\* Calculated, and reset or cleared, under the mutex of the collection.
Mutexed(c) == c \in Cleared \cup {"allConsumers"}
\* Sampled by the thread that resets, too.
ByFragmentProcessor(c, q) ==
  \/ c = "run" /\ q # "eolsSeen"
  \/ c \in DataSenderCleared \cup {"streamRecord"}
  \/ q \in {"droppedDQMEventCounts", "poppedFragmentSize", "fragmentProcessorIdleTime"}

Quantities == UNION {{[of |-> c, name |-> q] : q \in Sampled(c) \cup Derived(c)} : c \in Owners}

ASSUME ObservedAssumption == Observed \subseteq Quantities
=============================================================================
