--------------------------- MODULE Configuration ---------------------------
(***************************************************************************)
(* The parameters of the application, and which of them a run uses.        *)
(*                                                                         *)
(* The info space holds what was set last, by SOAP messages at any time.   *)
(* When Ready is entered the FragmentProcessor thread copies it, group by  *)
(* group, under generalMutex_.  The copies are handed out to those who use *)
(* them, each at a time of its own.  A listener compares the configuration *)
(* of the streams with the one it was told of before and notes a change;   *)
(* the SOAP thread that enables a run then has the application reconfigured *)
(* first.                                                                  *)
(*                                                                         *)
(* Of the state machine only what leads to and from these moments is here; *)
(* RunControl has the rest.  A group of parameters is one value.           *)
(***************************************************************************)
EXTENDS Integers, Sequences

CONSTANTS
  Values,       \* what a group may be set to
  Unreadable,   \* stream configurations that ParameterSetRetriever cannot retrieve
  Malformed,    \* those that parseStreamConfiguration cannot parse
  TooSmall,     \* parameters of the event serving with a consumer queue size of 0
  Changing,     \* bound: groups that are set
  Pending,      \* bound: commands in the queue
  Settings      \* bound: settings made

Default == "default"
Least == "least"   \* a value with a consumer queue size of 1

ASSUME ConfigurationAssumption ==
  /\ Default \in Values /\ Values \cap (Unreadable \cup Malformed \cup TooSmall) = {}
  /\ Pending \in Nat /\ Settings \in Nat

\* In the order in which updateAllParams copies them.
UpdateOrder ==
  <<"DiskWriting", "DQMProcessing", "EventServing", "QueueConfiguration", "WorkerThread",
    "ResourceMonitor", "Alarm", "RunNumber">>
Groups == {UpdateOrder[n] : n \in 1 .. 8}
StreamConfigs == Values \cup Unreadable \cup Malformed
Contents(g) ==
  IF g = "DiskWriting" THEN StreamConfigs
  ELSE IF g = "EventServing" THEN Values \cup TooSmall ELSE Values

ASSUME ChangingAssumption == Changing \subseteq Groups

VARIABLES
  infoSpace,   \* what each group was set to last
  notifying,   \* the listener for STparameterSet is yet to be called
  previous,    \* previousStreamCfg_
  changed,     \* streamConfigurationChanged_
  copy,        \* the ...ParamCopy_ and localRunNumber_
  updating,    \* what Ready is at: 0 not entered, 1..8 this group, 9 what follows
  streamConfig, \* currentEventStreamConfig_, currentErrorStreamConfig_
  used,        \* what those who keep parameters got when they asked
  state,         \* the state of the state machine
  commands,    \* the command queue
  soap,        \* the SOAP thread has Enable still to post
  settings,    \* bound: settings so far
  since        \* history: the stream configurations there were since a run was enabled

configVars ==
  <<infoSpace, notifying, previous, changed, copy, updating, streamConfig, used, state,
    commands, soap, settings, since>>
parameters == <<infoSpace, notifying, settings>>
notice == <<previous, changed>>

mutexIsFree == updating \notin 1 .. 8

\* Who keeps a group until he asks again.  The memory limit of the fragment store and the
\* cycle of the reporter are asked for when the application is made, and never again; the
\* fragment processor asks after each command, which makes a difference after Ready only.
AtConstruction == {"fragmentStore", "statisticsReporter"}
AtReady == {"queues", "diskMonitor", "resourceMonitor", "alarms", "fragmentProcessor"}
AtStart == {"diskWriter", "diskWriterTimeout", "diskWriterRun", "dqm", "dqmTimeout"}
Group ==
  [fragmentStore |-> "QueueConfiguration", statisticsReporter |-> "WorkerThread",
   queues |-> "QueueConfiguration", diskMonitor |-> "DiskWriting",
   resourceMonitor |-> "ResourceMonitor", alarms |-> "Alarm",
   diskWriter |-> "DiskWriting", diskWriterTimeout |-> "WorkerThread",
   diskWriterRun |-> "RunNumber", dqm |-> "DQMProcessing", dqmTimeout |-> "WorkerThread",
   fragmentProcessor |-> "WorkerThread"]
\* The streams are asked for apart: when a run starts, and when it runs.
Streams == {"diskWriterStreams", "distributorStreams"}
Users == DOMAIN Group \cup Streams

\* The local copy of a value: a consumer queue holds one event at least.
updateLocal(g) == IF g = "EventServing" /\ infoSpace[g] \in TooSmall THEN Least ELSE infoSpace[g]
Asking(users, params) == [u \in Users |-> IF u \in users THEN params[Group[u]] ELSE used[u]]

\* Defaults are set first, and the info space is made of them; the streams are configured yet.
ConfigInit ==
  /\ infoSpace = [g \in Groups |-> Default] /\ copy = infoSpace
  /\ notifying = FALSE /\ previous = Default /\ changed = FALSE
  /\ updating = 0 /\ streamConfig = Default /\ used = [u \in Users |-> Default]
  /\ state = "Halted" /\ commands = <<>> /\ soap = "idle" /\ settings = 0 /\ since = {}

-----------------------------------------------------------------------------
(* SOAP threads.                                                           *)

\* Parameters are set, by one message at a time: nothing here stops it while they are copied.
SetParameter(g, v) ==
  /\ settings < Settings /\ settings' = settings + 1 /\ ~notifying
  /\ infoSpace' = [infoSpace EXCEPT ![g] = v]
  /\ notifying' = (g = "DiskWriting")
  /\ since' = IF g = "DiskWriting" /\ since # {} THEN since \cup {v} ELSE since
  /\ UNCHANGED <<notice, copy, updating, streamConfig, used, state, commands, soap>>

\* What it was told of is not remembered.
actionPerformedBug ==
  /\ notifying /\ mutexIsFree /\ notifying' = FALSE
  /\ changed' = (changed \/ (/\ infoSpace["DiskWriting"] \notin Unreadable
                             /\ infoSpace["DiskWriting"] # previous))
  /\ UNCHANGED <<infoSpace, settings, previous, copy, updating, streamConfig, used, state,
                 commands, soap, since>>

\* Under generalMutex_.  What cannot be retrieved is an exception to whoever has set it.
actionPerformed ==
  /\ notifying /\ mutexIsFree /\ notifying' = FALSE
  /\ IF infoSpace["DiskWriting"] \notin Unreadable /\ infoSpace["DiskWriting"] # previous
     THEN changed' = TRUE /\ previous' = infoSpace["DiskWriting"]
     ELSE UNCHANGED notice
  /\ UNCHANGED <<infoSpace, settings, copy, updating, streamConfig, used, state, commands, soap, since>>

Posts(command) == commands' = Append(commands, command)
MayPost == Len(commands) < Pending

handleFSMSoapMessage(command) ==
  /\ soap = "idle" /\ MayPost /\ Posts(command)
  /\ UNCHANGED <<parameters, notice, copy, updating, streamConfig, used, state, soap, since>>

\* What is set when a run is enabled at rest is what the run is expected to use, or what is
\* set from then on.  Not so while another run ends: Reconfigure may come too early, and is
\* ignored, and Enable when that run has ended (StorageManager.cc:633-637).
AtRest == state = "Ready" /\ updating = 0 /\ commands = <<>> /\ ~notifying
handleEnable ==
  /\ soap = "idle" /\ MayPost /\ mutexIsFree
  /\ IF changed THEN Posts("Reconfigure") /\ soap' = "enabling" ELSE Posts("Enable") /\ UNCHANGED soap
  /\ since' = IF AtRest /\ infoSpace["DiskWriting"] \notin Unreadable
              THEN {infoSpace["DiskWriting"]} ELSE {}
  /\ UNCHANGED <<parameters, notice, copy, updating, streamConfig, used, state>>

postEnable ==
  /\ soap = "enabling" /\ MayPost /\ Posts("Enable") /\ soap' = "idle"
  /\ UNCHANGED <<parameters, notice, copy, updating, streamConfig, used, state, since>>

-----------------------------------------------------------------------------
(* The FragmentProcessor thread.                                           *)

\* Ready is entered by Configure or Reconfigure.
EnterReady ==
  state' = "Ready" /\ updating' = 1 /\ UNCHANGED <<copy, used>>

\* The run number is asked for before it is updated.
EnterStartingBug ==
  /\ state' = "Starting" /\ copy' = [copy EXCEPT !["RunNumber"] = updateLocal("RunNumber")]
  /\ used' = [Asking(AtStart, copy) EXCEPT !["diskWriterStreams"] = streamConfig]
  /\ UNCHANGED updating

\* Enabled updates the run number, before Starting asks for it: updateRunParams.
EnterStarting ==
  LET params == [copy EXCEPT !["RunNumber"] = updateLocal("RunNumber")]
  IN /\ state' = "Starting" /\ copy' = params
     /\ used' = [Asking(AtStart, params) EXCEPT !["diskWriterStreams"] = streamConfig]
     /\ UNCHANGED updating

Goes(to) == state' = to /\ UNCHANGED <<copy, updating, used>>

\* processAllCommands: what is not expected is dropped.
Ignored(c) ==
  /\ c = "Configure" => state # "Halted"
  /\ c \in {"Reconfigure", "Enable"} => state # "Ready"
  /\ c = "Stop" => state # "Running"
  /\ c = "EmergencyStop" => state \notin {"Starting", "Running"}
  /\ c = "Halt" => state \notin {"Ready", "Running"}
  /\ c = "Fail" => state = "Failed"

processCommand ==
  /\ updating = 0 /\ commands # <<>> /\ commands' = Tail(commands)
  /\ LET c == Head(commands)
     IN \/ Ignored(c) /\ Goes(state)
        \/ c = "Configure" /\ state = "Halted" /\ EnterReady
        \/ c = "Reconfigure" /\ state = "Ready" /\ EnterReady
        \/ c = "Enable" /\ state = "Ready" /\ EnterStarting
        \/ c = "Stop" /\ state = "Running" /\ Goes("Stopping")
        \/ c = "EmergencyStop" /\ state \in {"Starting", "Running"} /\ Goes("Stopping")
        \/ c = "Halt" /\ state \in {"Ready", "Running"}
             /\ Goes(IF state = "Ready" THEN "Halted" ELSE "Halting")
        \/ c = "Fail" /\ state # "Failed" /\ Goes("Failed")
  /\ UNCHANGED <<parameters, notice, streamConfig, soap, since>>

\* "Failed to update configuration parameters in Ready state": the Fail event is queued, the
\* state is Ready meanwhile.  The command queue has room for it here: one that stays full for
\* 5 s would lose it (AlarmHandler.cc:222; RunControl drops a Fail that finds no room).
FailsInReady(users) ==
  /\ Posts("Fail") /\ updating' = 0 /\ used' = Asking(users \cup {"fragmentProcessor"}, copy)
  /\ UNCHANGED <<changed, copy, streamConfig>>

updateAllParams ==
  /\ updating \in 1 .. 8
  /\ LET g == UpdateOrder[updating]
     IN IF g = "DiskWriting" /\ infoSpace[g] \in Unreadable
        THEN FailsInReady({})
        ELSE /\ copy' = [copy EXCEPT ![g] = updateLocal(g)]
             /\ changed' = IF g = "DiskWriting" THEN FALSE ELSE changed
             /\ updating' = updating + 1
             /\ UNCHANGED <<streamConfig, used, commands>>
  /\ UNCHANGED <<parameters, previous, state, soap, since>>

\* The rest of Ready.  What is not parsed leaves the streams as they were, and all but the
\* limits of the queues.
configure ==
  /\ updating = 9
  /\ IF copy["DiskWriting"] \in Malformed
     THEN FailsInReady({"queues"})
     ELSE /\ streamConfig' = copy["DiskWriting"] /\ used' = Asking(AtReady, copy)
          /\ updating' = 0 /\ UNCHANGED <<changed, copy, commands>>
  /\ UNCHANGED <<parameters, previous, state, soap, since>>

Internally(from, to) ==
  /\ state = from /\ updating = 0 /\ state' = to
  /\ UNCHANGED <<parameters, notice, copy, updating, streamConfig, commands, soap, since>>

\* registerEventStreams.
startRun ==
  /\ Internally("Starting", "Running")
  /\ used' = [used EXCEPT !["distributorStreams"] = streamConfig]
endRun ==
  /\ Internally("Stopping", "Ready") \/ Internally("Halting", "Halted")
  /\ UNCHANGED used

\* A thread fails: AlarmHandler::moveToFailedState.
moveToFailedState ==
  /\ MayPost /\ Posts("Fail")
  /\ UNCHANGED <<parameters, notice, copy, updating, streamConfig, used, state, soap, since>>

ConfigNext ==
  \/ \E g \in Changing : \E v \in Contents(g) : SetParameter(g, v)
  \/ actionPerformed
  \/ \E c \in {"Configure", "Stop", "EmergencyStop", "Halt"} : handleFSMSoapMessage(c)
  \/ handleEnable \/ postEnable
  \/ processCommand \/ updateAllParams \/ configure
  \/ startRun \/ endRun \/ moveToFailedState

ConfigSpec == ConfigInit /\ [][ConfigNext]_configVars

-----------------------------------------------------------------------------
(* Properties.                                                             *)

ConfigTypeOK ==
  /\ infoSpace \in [Groups -> Values \cup StreamConfigs \cup TooSmall] /\ notifying \in BOOLEAN
  /\ previous \in StreamConfigs /\ changed \in BOOLEAN
  /\ \A g \in Groups : infoSpace[g] \in Contents(g) /\ copy[g] \in Contents(g) \cup {Least}
  /\ DOMAIN copy = Groups /\ copy["DiskWriting"] \in StreamConfigs /\ DOMAIN used = Users
  /\ updating \in 0 .. 9 /\ streamConfig \in StreamConfigs
  /\ state \in {"Halted", "Ready", "Starting", "Running", "Stopping", "Halting", "Failed"}
  /\ commands \in Seq({"Configure", "Reconfigure", "Enable", "Stop", "EmergencyStop", "Halt", "Fail"})
  /\ soap \in {"idle", "enabling"} /\ settings \in 0 .. Settings /\ since \subseteq StreamConfigs

InRun == state \in {"Starting", "Running"}
FailIsQueued == \E n \in DOMAIN commands : commands[n] = "Fail"

\* A stream configuration that can be retrieved and is not the one in use is noted, so that
\* the next run is not started without it: also if it is set while the copy is made, or set
\* back to what it was before.
ChangesAreNoticed ==
  ~notifying /\ infoSpace["DiskWriting"] \notin Unreadable
    => changed \/ infoSpace["DiskWriting"] = copy["DiskWriting"]

\* A run that is enabled at rest writes the streams that were configured then, or later: the
\* check for changes, the reconfiguration and the start are steps of two threads.  Where the
\* reconfiguration throws it is the Fail in the queue that ends the run.
RunsUseTheLatestStreams ==
  InRun /\ since # {} => streamConfig \in since \/ FailIsQueued

\* What is set at rest reaches the next run, as long as a Fail gets into the command queue.
ChangesReachRuns == ChangesAreNoticed /\ RunsUseTheLatestStreams

\* In a run the EventDistributor knows the streams that the DiskWriter has, and all who keep
\* parameters have those of the last time Ready was entered, the run number the one of the
\* run, whenever each of them asked and whatever is set meanwhile; or the run is to fail, as
\* long as the Fail gets into the command queue.
OneConfigurationPerRun ==
  InRun =>
    /\ used["diskWriterStreams"] = streamConfig
    /\ state = "Running" => used["distributorStreams"] = streamConfig
    /\ \A u \in AtStart : used[u] = copy[Group[u]]
    /\ FailIsQueued \/ (streamConfig = copy["DiskWriting"] /\ \A u \in AtReady : used[u] = copy[Group[u]])

\* Not so: the memory limit of the fragment store is that of the default values.
ConfiguredAtReady ==
  state = "Starting" => \A u \in DOMAIN Group : used[u] = copy[Group[u]]
=============================================================================
