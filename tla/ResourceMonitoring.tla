------------------------- MODULE ResourceMonitoring -------------------------
(***************************************************************************)
(* Alarms: what the storage manager watches besides the data, and what it  *)
(* tells the outside about it.                                             *)
(*                                                                         *)
(* The StatisticsReporter thread goes round: it checks the event counts,   *)
(* measures the disks one after the other, counts worker processes, asks   *)
(* the SATA beasts, checks the books of the data senders, and measures the *)
(* disks again.  A disk that does not answer within half a second is given *)
(* up by the reporter while the thread that asked it goes on waiting.  The *)
(* FragmentProcessor thread meanwhile clears all alarms and reconfigures   *)
(* the monitoring on entry into Ready, and resets it at the begin of a run.*)
(***************************************************************************)
EXTENDS Integers, Sequences, FiniteSets, SequencesExt, TLC

CONSTANTS
  OwnDisks,         \* the paths events and the data base log are written to
  OtherDisks,       \* otherDiskPaths_, watched on production systems only
  SataBeasts,       \* disk arrays that are mounted
  OutputModules,    \* senders of events that nobody selects
  Threshold,        \* unwantedEvents_: so many of them raise no alarm
  Budgets           \* bounds, of which one is chosen: changes of what is watched,
                    \* entries into Ready, begins of a run, events that nobody selects

ASSUME MonitoringAssumption ==
  /\ OwnDisks \cap OtherDisks = {} /\ Threshold \in Nat
  /\ \A b \in Budgets : b \in [changes : Nat, configures : Nat, resets : Nat, unwanted : Nat]

Disks == OwnDisks \cup OtherDisks
Workers == {"CopyWorkers", "InjectWorkers"}
EventChecks == {"ErrorEvents", "FaultyEvents", "IgnoredDiscard"}
Checks == Workers \cup SataBeasts \cup EventChecks
Names == Disks \cup Checks
UnwantedEvent(id) == "UnwantedEvent_" \o ToString(id)

\* Alarms are known by their names: no path is the name of something else.
ASSUME NamesAssumption ==
  /\ Disks \cap Checks = {}
  /\ \A b \in Budgets : \A id \in 0 .. b.unwanted : UnwantedEvent(id) \notin Disks

(* What there is to see.  A disk is below 95% of highWaterMark_ (ok), above *)
(* it, above highWaterMark_, above failHighWaterMark_, not mounted, or does *)
(* not answer; processes are fewer than expected, as many or more.          *)
Readings(n) ==
  CASE n \in Disks -> {"ok", "near", "full", "overfull", "gone", "hung"}
    [] n \in Workers -> {"right", "few", "many"}
    [] n \in SataBeasts -> {"fine", "failed", "unreachable"}
    [] n \in EventChecks -> {"none", "some"}
Good == {"ok", "right", "fine", "none"}

VARIABLES
  reading,     \* what there is to see now
  production,  \* isProductionSystem_, as the resource and the run collection have it
  list,        \* diskUsageList_: by path, is a thread asking for its size, and the alarm state
  alarms,      \* AlarmHandler: the level of each alarm that is raised
  failPosted,  \* history: the disks for which a Fail was posted since the last Configure
  unwanted,    \* unwantedEventsMap_
  nextId,      \* UnwantedEvent::nextId
  reporter,    \* the StatisticsReporter thread: what is left of its round
  fsm,         \* the FragmentProcessor thread: what it is at, and with which configuration
  left         \* what the bounds leave

vars == <<reading, production, list, alarms, failPosted, unwanted, nextId, reporter, fsm, left>>

-----------------------------------------------------------------------------
(* AlarmHandler.                                                           *)

Put(f, k, v) == [x \in DOMAIN f \cup {k} |-> IF x = k THEN v ELSE f[x]]
Without(f, k) == [x \in DOMAIN f \ {k} |-> f[x]]

\* An alarm that is raised already keeps its level.
raiseAlarm(name, level) ==
  alarms' = IF name \in DOMAIN alarms THEN alarms ELSE Put(alarms, name, level)
revokeAlarm(name) == alarms' = Without(alarms, name)

-----------------------------------------------------------------------------
(* Disks.  Each thread holds diskUsageListMutex_ while it measures.        *)

isImportantDisk(d) == d \notin OtherDisks
NewDiskUsage == [retrieving |-> FALSE, alarmState |-> "okay"]
SetState(d, state, retrieving) ==
  list' = [list EXCEPT ![d] = [retrieving |-> retrieving, alarmState |-> state]]

emitDiskAlarm(d, retrieving) ==
  IF isImportantDisk(d)
  THEN /\ SetState(d, "fatal", retrieving) /\ failPosted' = failPosted \cup {d}
       /\ UNCHANGED alarms
  ELSE SetState(d, "error", retrieving) /\ raiseAlarm(d, "error") /\ UNCHANGED failPosted

emitDiskSpaceAlarm(d) ==
  IF isImportantDisk(d) /\ reading[d] = "overfull"
  THEN SetState(d, "fatal", FALSE) /\ failPosted' = failPosted \cup {d} /\ UNCHANGED alarms
  ELSE SetState(d, "warning", FALSE) /\ raiseAlarm(d, "warning") /\ UNCHANGED failPosted

\* Faulty variants of an operation (here and below, named ...Bug): each is what a
\* property is there to catch.  Here: only a disk with an alarm state has its alarm revoked.
revokeDiskAlarmBug(d) ==
  /\ SetState(d, "okay", FALSE) /\ UNCHANGED failPosted
  /\ IF list[d].alarmState = "okay" THEN UNCHANGED alarms ELSE revokeAlarm(d)

revokeDiskAlarm(d) == SetState(d, "okay", FALSE) /\ revokeAlarm(d) /\ UNCHANGED failPosted

\* Only a disk that answers with an error raises an alarm.
retrieveDiskSizeBug(d) ==
  IF list[d].retrieving \/ reading[d] = "near" THEN UNCHANGED <<list, alarms, failPosted>>
  ELSE CASE reading[d] = "ok" -> revokeDiskAlarm(d)
         [] reading[d] \in {"full", "overfull"} -> emitDiskSpaceAlarm(d)
         [] reading[d] = "gone" -> emitDiskAlarm(d, FALSE)
         [] reading[d] = "hung" ->
              SetState(d, list[d].alarmState, TRUE) /\ UNCHANGED <<alarms, failPosted>>

\* A thread asks for the size (doStatFs); a disk that another thread still asks is left
\* alone, and close to the mark the alarm stays as it is.
retrieveDiskSize(d) ==
  IF list[d].retrieving \/ reading[d] = "near" THEN UNCHANGED <<list, alarms, failPosted>>
  ELSE CASE reading[d] = "ok" -> revokeDiskAlarm(d)
         [] reading[d] \in {"full", "overfull"} -> emitDiskSpaceAlarm(d)
         [] reading[d] = "gone" -> emitDiskAlarm(d, FALSE)
         [] OTHER -> emitDiskAlarm(d, TRUE)

\* The disk answers after all, to the thread that was given up.
doStatFs(d) ==
  /\ d \in DOMAIN list /\ list[d].retrieving /\ reading[d] # "hung"
  /\ list' = [list EXCEPT ![d].retrieving = FALSE]
  /\ UNCHANGED <<reading, production, alarms, failPosted, unwanted, nextId, reporter, fsm, left>>

-----------------------------------------------------------------------------
(* Everything else is a check that raises or revokes an alarm of its name. *)

Level(n) == IF n \in Workers THEN "warning" ELSE "error"
\* More copy workers than expected are fine.
Alarming(n) == reading[n] \notin Good /\ ~(n = "CopyWorkers" /\ reading[n] = "many")
Watched(n) ==
  CASE n \in Disks -> n \in DOMAIN list
    [] n \in Workers \cup SataBeasts -> production.resources
    [] n = "ErrorEvents" -> production.run
    [] OTHER -> TRUE

Check(n) ==
  IF ~Watched(n) THEN UNCHANGED alarms
  ELSE IF Alarming(n) THEN raiseAlarm(n, Level(n)) ELSE revokeAlarm(n)

New(m) == unwanted[m].count - unwanted[m].previousCount

\* One output module after the other; those with a few new events are left as they are.
alarmUnwantedEvents ==
  LET active == IF production.run THEN DOMAIN unwanted ELSE {}
      many == {m \in active : New(m) > Threshold}
      none == {m \in active : New(m) = 0}
      alarmsOf(M) == {UnwantedEvent(unwanted[m].id) : m \in M}
  IN /\ unwanted' = [m \in DOMAIN unwanted |->
                       IF m \in many THEN [unwanted[m] EXCEPT !.previousCount = unwanted[m].count]
                       ELSE unwanted[m]]
     /\ alarms' = [n \in (DOMAIN alarms \ alarmsOf(none)) \cup alarmsOf(many) |->
                     IF n \in DOMAIN alarms THEN alarms[n] ELSE "error"]

\* By the FragmentProcessor, for an event without queues.
addUnwantedEvent(m) ==
  /\ left.unwanted > 0 /\ left' = [left EXCEPT !.unwanted = @ - 1]
  /\ IF m \in DOMAIN unwanted
     THEN unwanted' = [unwanted EXCEPT ![m].count = @ + 1] /\ UNCHANGED nextId
     ELSE /\ unwanted' = Put(unwanted, m, [count |-> 1, previousCount |-> 0, id |-> nextId])
          /\ nextId' = nextId + 1
  /\ UNCHANGED <<reading, production, list, alarms, failPosted, reporter, fsm>>

-----------------------------------------------------------------------------
(* The StatisticsReporter thread.                                          *)

Round == <<"ErrorEvents", "unwanted", "disks", "CopyWorkers", "InjectWorkers">>
           \o SetToSeq(SataBeasts) \o <<"FaultyEvents", "IgnoredDiscard", "disks">>

Measures(thread) == thread.todo # <<>>
Mutex == ~Measures(reporter) /\ ~Measures(fsm)
NextTask == [todo |-> <<>>, rest |-> IF Len(reporter.rest) = 1 THEN Round ELSE Tail(reporter.rest)]
TaskIs(tasks) == ~Measures(reporter) /\ Head(reporter.rest) \in tasks

checkForBadEvents ==
  /\ TaskIs({"unwanted"}) /\ alarmUnwantedEvents /\ reporter' = NextTask
  /\ UNCHANGED <<reading, production, list, failPosted, nextId, fsm, left>>
checkAlarm ==
  /\ TaskIs(Checks) /\ Check(Head(reporter.rest)) /\ reporter' = NextTask
  /\ UNCHANGED <<reading, production, list, failPosted, unwanted, nextId, fsm, left>>
calcDiskUsage ==
  /\ TaskIs({"disks"}) /\ Mutex
  /\ reporter' = IF DOMAIN list = {} THEN NextTask
                 ELSE [reporter EXCEPT !.todo = SetToSeq(DOMAIN list)]
  /\ UNCHANGED <<reading, production, list, alarms, failPosted, unwanted, nextId, fsm, left>>
measureDisk ==
  /\ Measures(reporter) /\ retrieveDiskSize(Head(reporter.todo))
  /\ reporter' = IF Len(reporter.todo) = 1 THEN NextTask ELSE [reporter EXCEPT !.todo = Tail(@)]
  /\ UNCHANGED <<reading, production, unwanted, nextId, fsm, left>>

StatisticsReporter == checkForBadEvents \/ checkAlarm \/ calcDiskUsage \/ measureDisk

-----------------------------------------------------------------------------
(* The FragmentProcessor thread: entry into Ready and into Enabled.        *)

IdleFsm == [at |-> "idle", production |-> FALSE, todo |-> <<>>]

clearAllAlarms(isProduction) ==
  /\ fsm.at = "idle" /\ left.configures > 0
  /\ left' = [left EXCEPT !.configures = @ - 1]
  /\ alarms' = <<>> /\ failPosted' = {}
  /\ fsm' = [IdleFsm EXCEPT !.at = "configureAlarms", !.production = isProduction]
  /\ UNCHANGED <<reading, production, list, unwanted, nextId, reporter>>

configureAlarms ==
  /\ fsm.at = "configureAlarms"
  /\ production' = [production EXCEPT !.resources = fsm.production]
  /\ fsm' = [fsm EXCEPT !.at = "configureDisks"]
  /\ UNCHANGED <<reading, list, alarms, failPosted, unwanted, nextId, reporter, left>>

Configured == OwnDisks \cup (IF production.resources THEN OtherDisks ELSE {})

\* The disks that were in the list before keep their entries.
configureDisksBug ==
  /\ fsm.at = "configureDisks" /\ Mutex
  /\ list' = [d \in Configured |-> IF d \in DOMAIN list THEN list[d] ELSE NewDiskUsage]
  /\ fsm' = [fsm EXCEPT !.at = "addDisk", !.todo = SetToSeq(Configured \ DOMAIN list)]
  /\ UNCHANGED <<reading, production, alarms, failPosted, unwanted, nextId, reporter, left>>

\* The list is made anew, and the disks are measured; a thread that still waits for an
\* answer belongs to an entry nobody has any more.
configureDisks ==
  /\ fsm.at = "configureDisks" /\ Mutex
  /\ list' = [d \in Configured |-> NewDiskUsage]
  /\ fsm' = [fsm EXCEPT !.at = "addDisk", !.todo = SetToSeq(Configured)]
  /\ UNCHANGED <<reading, production, alarms, failPosted, unwanted, nextId, reporter, left>>

addDisk ==
  /\ fsm.at = "addDisk" /\ Measures(fsm)
  /\ retrieveDiskSize(Head(fsm.todo)) /\ fsm' = [fsm EXCEPT !.todo = Tail(@)]
  /\ UNCHANGED <<reading, production, unwanted, nextId, reporter, left>>

configureRunAlarms ==
  /\ fsm.at = "addDisk" /\ ~Measures(fsm)
  /\ production' = [production EXCEPT !.run = fsm.production]
  /\ fsm' = IdleFsm
  /\ UNCHANGED <<reading, list, alarms, failPosted, unwanted, nextId, reporter, left>>

\* The begin of a run forgets the state of the alarms, and revokes none.
reset ==
  /\ fsm.at = "idle" /\ Mutex /\ left.resets > 0
  /\ left' = [left EXCEPT !.resets = @ - 1]
  /\ unwanted' = <<>>
  /\ list' = [d \in DOMAIN list |-> IF list[d].retrieving THEN list[d] ELSE NewDiskUsage]
  /\ UNCHANGED <<reading, production, alarms, failPosted, nextId, reporter, fsm>>

Entry == configureAlarms \/ configureDisks \/ addDisk \/ configureRunAlarms

-----------------------------------------------------------------------------
changes(n) ==
  /\ left.changes > 0 /\ left' = [left EXCEPT !.changes = @ - 1]
  /\ \E r \in Readings(n) \ {reading[n]} : reading' = [reading EXCEPT ![n] = r]
  /\ UNCHANGED <<production, list, alarms, failPosted, unwanted, nextId, reporter, fsm>>

Init ==
  /\ reading = [n \in Names |-> CHOOSE r \in Readings(n) : r \in Good]
  /\ production = [resources |-> FALSE, run |-> FALSE]
  /\ list = <<>> /\ alarms = <<>> /\ failPosted = {}
  /\ unwanted = <<>> /\ nextId = 0
  /\ reporter = [todo |-> <<>>, rest |-> Round] /\ fsm = IdleFsm
  /\ left \in Budgets

Next ==
  \/ StatisticsReporter \/ Entry \/ reset
  \/ \E isProduction \in BOOLEAN : clearAllAlarms(isProduction)
  \/ \E m \in OutputModules : addUnwantedEvent(m)
  \/ \E d \in Disks : doStatFs(d)
  \/ \E n \in Names : changes(n)

\* The work loops go on, and a disk that works again answers.  The reporter sleeps between
\* its rounds with the mutex free, so that it cannot keep the other thread from it.
Spec ==
  /\ Init /\ [][Next]_vars
  /\ WF_vars(StatisticsReporter) /\ WF_vars(Entry) /\ SF_vars(configureDisks)
  /\ \A d \in Disks : WF_vars(doStatFs(d))

-----------------------------------------------------------------------------
(* Properties.                                                             *)

\* The types of the state; at most one thread measures the disks.
TypeOK ==
  /\ \A n \in Names : reading[n] \in Readings(n)
  /\ DOMAIN list \subseteq Disks
  /\ \A d \in DOMAIN list : /\ list[d].retrieving \in BOOLEAN
                            /\ list[d].alarmState \in {"okay", "warning", "error", "fatal"}
  /\ \A n \in DOMAIN alarms : alarms[n] \in {"warning", "error"}
  /\ failPosted \subseteq OwnDisks /\ nextId \in Nat
  /\ ~(Measures(reporter) /\ Measures(fsm))

\* A disk that the page shows with a warning or an error has its alarm raised, through
\* resets, hung disks and a Configure beside a round, but for the moment between
\* clearAllAlarms and configureDisks.
AlarmStateIsRaised ==
  fsm.at \notin {"configureAlarms", "configureDisks"} =>
    \A d \in DOMAIN list :
      /\ list[d].alarmState \in {"warning", "error"} => d \in DOMAIN alarms
      /\ list[d].alarmState = "fatal" => d \in failPosted

\* What stays wrong while it is watched is reported for good: by an alarm, or for a disk of
\* its own by a Fail.  A hung disk keeps nobody from watching the others.
ProblemsAreReported ==
  \A n \in Names :
    <>[](Watched(n) /\ Alarming(n) /\ reading[n] # "near")
      => <>[](n \in DOMAIN alarms \cup failPosted)

\* What stays well while it is watched has no alarm in the end, whatever was forgotten by
\* resets and whichever thread measured last.
AlarmsAreRevoked ==
  \A n \in Names : <>[](Watched(n) /\ ~Alarming(n)) => <>[](n \notin DOMAIN alarms)

\* The same for "no more unwanted events arrived" (RunMonitorCollection.cc:197): does not
\* hold.  After an alarm, as many new events as the threshold allows keep it raised for
\* good, and a reset forgets the name it has to be revoked by.
UnwantedAlarmsEnd == <>[](DOMAIN alarms \subseteq Names)

\* An alarm is for something that is watched.  Not so when the reporter raises one between
\* clearAllAlarms and the configuration that stops watching it.
AlarmsAreWatched ==
  fsm.at = "idle" => \A n \in DOMAIN alarms \cap Names : Watched(n)

\* An alarm has the level its disk has.  Not so: it is not raised anew when the disk that
\* was full is gone (AlarmHandler.cc:152-157).
LevelsAgree ==
  \A d \in DOMAIN list \cap DOMAIN alarms : list[d].alarmState \in {"okay", "fatal", alarms[d]}
=============================================================================
