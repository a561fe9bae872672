----------------------- MODULE ResourceMonitoringProofs -----------------------
(***************************************************************************)
(* A theorem about ResourceMonitoring for any disks, worker readings and   *)
(* bounds: what the page shows of a disk is what the alarms say.           *)
(***************************************************************************)
EXTENDS ResourceMonitoring, TLAPS

States == {"okay", "warning", "error", "fatal"}
DiskUsages == [retrieving : BOOLEAN, alarmState : States]

\* An alarm state is one that somebody was told of.
Told(d) ==
  /\ list[d].alarmState \in {"warning", "error"} => d \in DOMAIN alarms
  /\ list[d].alarmState = "fatal" => d \in failPosted

\* An identifier of unwanted events was given out within the bound of this run.
WithinBudget ==
  \E b \in Budgets :
    /\ left \in [changes : Nat, configures : Nat, resets : Nat, unwanted : Nat]
    /\ nextId \in Nat /\ nextId + left.unwanted <= b.unwanted
UnwantedEvents == [count : Nat, previousCount : Nat, id : Nat]
IdsGivenOut ==
  \A m \in DOMAIN unwanted : unwanted[m] \in UnwantedEvents /\ unwanted[m].id < nextId

Unconfigured == fsm.at \in {"configureAlarms", "configureDisks"}

\* The inductive invariant.
IInv ==
  /\ WithinBudget /\ IdsGivenOut
  /\ \A d \in DOMAIN list : d \in Disks /\ list[d] \in DiskUsages
  /\ ~Unconfigured => \A d \in DOMAIN list : Told(d)

-----------------------------------------------------------------------------
\* The name of an alarm for unwanted events is not that of a disk.
LEMMA OtherNames ==
  ASSUME IInv
  PROVE  \A m \in DOMAIN unwanted : UnwantedEvent(unwanted[m].id) \notin Disks
<1> SUFFICES ASSUME NEW m \in DOMAIN unwanted PROVE UnwantedEvent(unwanted[m].id) \notin Disks
  OBVIOUS
<1>1. PICK b \in Budgets : left.unwanted \in Nat /\ nextId \in Nat /\ nextId + left.unwanted <= b.unwanted
  BY DEF IInv, WithinBudget
<1>2. b.unwanted \in Nat
  BY MonitoringAssumption
<1>3. unwanted[m].id \in Nat /\ unwanted[m].id < nextId
  BY DEF IInv, IdsGivenOut, UnwantedEvents
<1>4. unwanted[m].id \in 0 .. b.unwanted
  BY <1>1, <1>2, <1>3
<1> QED
  BY <1>4, NamesAssumption

\* The invariant holds at the beginning.
LEMMA InitIInv == Init => IInv
<1> SUFFICES ASSUME Init PROVE IInv
  OBVIOUS
<1>1. WithinBudget
  <2>1. left \in Budgets /\ nextId = 0
    BY DEF Init
  <2>2. left \in [changes : Nat, configures : Nat, resets : Nat, unwanted : Nat]
    BY <2>1, MonitoringAssumption
  <2>3. nextId \in Nat /\ nextId + left.unwanted <= left.unwanted
    BY <2>1, <2>2
  <2> QED
    BY <2>1, <2>2, <2>3 DEF WithinBudget
<1>2. DOMAIN list = {} /\ DOMAIN unwanted = {}
  BY DEF Init
<1> QED
  BY <1>1, <1>2 DEF IInv, IdsGivenOut

\* Nothing is spent of the bounds but what a step names.
LEMMA BudgetKept ==
  ASSUME IInv, UNCHANGED <<left, nextId>>
  PROVE  WithinBudget'
BY DEF IInv, WithinBudget

\* One disk is measured, by whichever thread.
LEMMA Measured ==
  ASSUME IInv, NEW d, retrieveDiskSize(d), UNCHANGED <<unwanted, nextId, left>>,
         Unconfigured' = Unconfigured
  PROVE  IInv'
<1>1. WithinBudget' /\ IdsGivenOut'
  BY BudgetKept DEF IInv, IdsGivenOut
<1>2. \/ UNCHANGED <<list, alarms, failPosted>>
      \/ revokeDiskAlarm(d)
      \/ emitDiskSpaceAlarm(d)
      \/ \E b \in BOOLEAN : emitDiskAlarm(d, b)
  BY DEF retrieveDiskSize
<1>3. CASE UNCHANGED <<list, alarms, failPosted>>
  BY <1>1, <1>3 DEF IInv, Told
<1>4. ASSUME NEW state \in States, NEW retrieving \in BOOLEAN, SetState(d, state, retrieving),
             \A e \in DOMAIN alarms \ {d} : e \in DOMAIN alarms', failPosted \subseteq failPosted',
             state \in {"warning", "error"} => d \in DOMAIN alarms', state = "fatal" => d \in failPosted'
      PROVE  IInv'
  <2> DEFINE new == [retrieving |-> retrieving, alarmState |-> state]
  <2>1. /\ DOMAIN list' = DOMAIN list
        /\ \A e \in DOMAIN list : list'[e] = IF e = d THEN new ELSE list[e]
    BY <1>4 DEF SetState
  <2>2. new \in DiskUsages /\ new.alarmState = state
    BY DEF DiskUsages
  <2>3. \A e \in DOMAIN list' : e \in Disks /\ list'[e] \in DiskUsages
    BY <2>1, <2>2 DEF IInv
  <2>4. ASSUME ~Unconfigured, NEW e \in DOMAIN list PROVE Told(e)'
    <3>1. CASE e = d
      BY <1>4, <2>1, <2>2, <3>1 DEF Told
    <3>2. CASE e # d
      BY <1>4, <2>1, <2>4, <3>2 DEF Told, IInv
    <3> QED
      BY <3>1, <3>2
  <2> QED
    BY <1>1, <2>1, <2>3, <2>4 DEF IInv
<1>5. CASE revokeDiskAlarm(d)
  <2>1. SetState(d, "okay", FALSE) /\ alarms' = Without(alarms, d) /\ UNCHANGED failPosted
    BY <1>5 DEF revokeDiskAlarm, revokeAlarm
  <2> QED
    BY <1>4, <2>1 DEF Without, States
<1>6. ASSUME NEW level PROVE raiseAlarm(d, level) => d \in DOMAIN alarms' /\ DOMAIN alarms \subseteq DOMAIN alarms'
  BY DEF raiseAlarm, Put
<1>7. CASE emitDiskSpaceAlarm(d)
  BY <1>4, <1>6, <1>7 DEF emitDiskSpaceAlarm, States
<1>8. ASSUME NEW b \in BOOLEAN, emitDiskAlarm(d, b) PROVE IInv'
  BY <1>4, <1>6, <1>8 DEF emitDiskAlarm, States
<1> QED
  BY <1>2, <1>3, <1>5, <1>7, <1>8

\* A step that leaves the disks alone and takes none of their alarms away.
LEMMA Elsewhere ==
  ASSUME IInv, WithinBudget', IdsGivenOut', UNCHANGED list,
         Unconfigured' \/ (failPosted' = failPosted /\ (Unconfigured' = Unconfigured)
                           /\ DOMAIN alarms \cap Disks \subseteq DOMAIN alarms')
  PROVE  IInv'
BY DEF IInv, Told

\* The reporter.
LEMMA ReporterStep ==
  ASSUME IInv, StatisticsReporter
  PROVE  IInv'
<1>1. UNCHANGED <<nextId, left, fsm>> /\ WithinBudget' /\ Unconfigured' = Unconfigured
  BY BudgetKept DEF StatisticsReporter, checkForBadEvents, checkAlarm, calcDiskUsage, measureDisk, Unconfigured
<1>2. CASE checkForBadEvents
  <2>1. UNCHANGED <<list, failPosted>> /\ alarmUnwantedEvents
    BY <1>2 DEF checkForBadEvents
  <2>2. IdsGivenOut'
    <3>1. DOMAIN unwanted' = DOMAIN unwanted
      BY <2>1 DEF alarmUnwantedEvents
    <3>2. ASSUME NEW m \in DOMAIN unwanted
          PROVE  unwanted'[m] \in UnwantedEvents /\ unwanted'[m].id = unwanted[m].id
      <4> DEFINE known == [unwanted[m] EXCEPT !.previousCount = unwanted[m].count]
      <4>1. unwanted[m] \in UnwantedEvents
        BY DEF IInv, IdsGivenOut
      <4>2. known \in UnwantedEvents /\ known.id = unwanted[m].id
        BY <4>1 DEF UnwantedEvents
      <4>3. unwanted'[m] \in {unwanted[m], known}
        BY <2>1 DEF alarmUnwantedEvents
      <4> HIDE DEF known
      <4> QED
        BY <4>1, <4>2, <4>3
    <3> QED
      BY <1>1, <3>1, <3>2 DEF IInv, IdsGivenOut
  <2>3. DOMAIN alarms \cap Disks \subseteq DOMAIN alarms'
    BY <2>1, OtherNames DEF alarmUnwantedEvents
  <2> QED
    BY <1>1, <2>1, <2>2, <2>3, Elsewhere
<1>3. CASE checkAlarm
  <2>1. PICK n \in Checks : Check(n)
    BY <1>3 DEF checkAlarm, TaskIs
  <2>2. n \notin Disks
    BY <2>1, NamesAssumption
  <2>3. DOMAIN alarms \cap Disks \subseteq DOMAIN alarms'
    BY <2>1, <2>2 DEF Check, raiseAlarm, revokeAlarm, Put, Without
  <2>4. UNCHANGED <<list, failPosted, unwanted>>
    BY <1>3 DEF checkAlarm
  <2> QED
    BY <1>1, <2>3, <2>4, Elsewhere DEF IInv, IdsGivenOut
<1>4. CASE calcDiskUsage
  BY <1>1, <1>4, Elsewhere DEF calcDiskUsage, IInv, IdsGivenOut
<1>5. CASE measureDisk
  <2>1. retrieveDiskSize(Head(reporter.todo)) /\ UNCHANGED unwanted
    BY <1>5 DEF measureDisk
  <2> QED
    BY <1>1, <2>1, Measured
<1> QED
  BY <1>2, <1>3, <1>4, <1>5 DEF StatisticsReporter

\* The entry into Ready: the alarms are cleared before the disks are made anew, and until
\* then nothing is promised.
LEMMA EntryStep ==
  ASSUME IInv, Entry
  PROVE  IInv'
<1>1. UNCHANGED <<unwanted, nextId, left>> /\ WithinBudget' /\ IdsGivenOut'
  <2>1. UNCHANGED <<unwanted, nextId, left>>
    BY DEF Entry, configureAlarms, configureDisks, addDisk, configureRunAlarms
  <2> QED
    BY <2>1, BudgetKept DEF IInv, IdsGivenOut
<1>2. CASE configureAlarms
  <2>1. Unconfigured /\ UNCHANGED list
    BY <1>2 DEF configureAlarms, Unconfigured
  <2>2. Unconfigured' /\ UNCHANGED <<alarms, failPosted>>
    BY <1>2 DEF configureAlarms, Unconfigured
  <2> QED
    BY <1>1, <2>1, <2>2, Elsewhere
<1>3. CASE configureDisks
  <2>1. list' = [d \in Configured |-> NewDiskUsage]
    BY <1>3 DEF configureDisks
  <2>2. NewDiskUsage \in DiskUsages /\ NewDiskUsage.alarmState = "okay" /\ Configured \subseteq Disks
    BY DEF NewDiskUsage, DiskUsages, States, Configured, Disks
  <2> QED
    BY <1>1, <2>1, <2>2 DEF IInv, Told
<1>4. CASE addDisk
  <2>1. retrieveDiskSize(Head(fsm.todo)) /\ Unconfigured' = Unconfigured
    BY <1>4 DEF addDisk, Unconfigured
  <2> QED
    BY <1>1, <2>1, Measured
<1>5. CASE configureRunAlarms
  <2>1. UNCHANGED <<list, alarms, failPosted>> /\ ~Unconfigured
    BY <1>5 DEF configureRunAlarms, Unconfigured
  <2> QED
    BY <1>1, <2>1 DEF IInv, Told
<1> QED
  BY <1>2, <1>3, <1>4, <1>5 DEF Entry

\* All other steps.
LEMMA OtherStep ==
  ASSUME IInv,
         \/ reset
         \/ \E isProduction \in BOOLEAN : clearAllAlarms(isProduction)
         \/ \E m \in OutputModules : addUnwantedEvent(m)
         \/ \E d \in Disks : doStatFs(d)
         \/ \E n \in Names : changes(n)
  PROVE  IInv'
<1>0. PICK b \in Budgets :
        /\ left \in [changes : Nat, configures : Nat, resets : Nat, unwanted : Nat]
        /\ nextId \in Nat /\ nextId + left.unwanted <= b.unwanted
  BY DEF IInv, WithinBudget
<1>1. CASE reset
  <2>1. WithinBudget' /\ IdsGivenOut'
    <3>1. left' \in [changes : Nat, configures : Nat, resets : Nat, unwanted : Nat]
          /\ left'.unwanted = left.unwanted /\ UNCHANGED nextId
      BY <1>0, <1>1 DEF reset
    <3>2. DOMAIN unwanted' = {}
      BY <1>1 DEF reset
    <3> QED
      BY <1>0, <3>1, <3>2 DEF WithinBudget, IdsGivenOut
  <2>2. /\ DOMAIN list' = DOMAIN list /\ UNCHANGED <<alarms, failPosted, fsm>>
        /\ \A d \in DOMAIN list : list'[d] \in {list[d], NewDiskUsage}
    BY <1>1 DEF reset
  <2>3. NewDiskUsage \in DiskUsages /\ NewDiskUsage.alarmState = "okay"
    BY DEF NewDiskUsage, DiskUsages, States
  <2>4. \A d \in DOMAIN list : Told(d) => Told(d)'
    BY <2>2, <2>3 DEF Told
  <2> QED
    BY <2>1, <2>2, <2>3, <2>4 DEF IInv, Unconfigured
<1>2. ASSUME NEW isProduction \in BOOLEAN, clearAllAlarms(isProduction) PROVE IInv'
  <2>1. UNCHANGED <<list, unwanted, nextId>> /\ Unconfigured'
    BY <1>2 DEF clearAllAlarms, Unconfigured, IdleFsm
  <2>2. /\ left' \in [changes : Nat, configures : Nat, resets : Nat, unwanted : Nat]
        /\ left'.unwanted = left.unwanted
    <3>1. left' = [left EXCEPT !.configures = @ - 1] /\ left.configures > 0
      BY <1>2 DEF clearAllAlarms
    <3> QED
      BY <1>0, <3>1
  <2>3. WithinBudget' /\ IdsGivenOut'
    BY <1>0, <2>1, <2>2 DEF WithinBudget, IdsGivenOut, IInv
  <2> QED
    BY <2>1, <2>3, Elsewhere
<1>3. ASSUME NEW m \in OutputModules, addUnwantedEvent(m) PROVE IInv'
  <2>1. UNCHANGED <<list, alarms, failPosted, fsm>>
    BY <1>3 DEF addUnwantedEvent
  <2>2. /\ left' \in [changes : Nat, configures : Nat, resets : Nat, unwanted : Nat]
        /\ left'.unwanted = left.unwanted - 1
    <3> DEFINE fewer == left.unwanted - 1
    <3>1. left' = [left EXCEPT !.unwanted = fewer] /\ left.unwanted > 0
      BY <1>3 DEF addUnwantedEvent
    <3>2. fewer \in Nat
      BY <1>0, <3>1
    <3> HIDE DEF fewer
    <3>3. /\ left' \in [changes : Nat, configures : Nat, resets : Nat, unwanted : Nat]
          /\ left'.unwanted = fewer
      BY <1>0, <3>1, <3>2
    <3> QED
      BY <3>3 DEF fewer
  <2>3. nextId' \in {nextId, nextId + 1}
    BY <1>3 DEF addUnwantedEvent
  <2>4. WithinBudget'
    <3>1. nextId' \in Nat /\ nextId' + left'.unwanted <= b.unwanted
      BY <1>0, <2>2, <2>3, MonitoringAssumption
    <3> QED
      BY <2>2, <3>1 DEF WithinBudget
  <2>5. IdsGivenOut'
    <3>1. CASE m \in DOMAIN unwanted
      <4> DEFINE more == [unwanted[m] EXCEPT !.count = unwanted[m].count + 1]
      <4>1. unwanted' = [unwanted EXCEPT ![m] = more] /\ UNCHANGED nextId
        BY <1>3, <3>1 DEF addUnwantedEvent
      <4>2. unwanted[m] \in UnwantedEvents
        BY <3>1 DEF IInv, IdsGivenOut
      <4>3. more \in UnwantedEvents /\ more.id = unwanted[m].id
        BY <4>2 DEF UnwantedEvents
      <4> HIDE DEF more
      <4>4. /\ DOMAIN unwanted' = DOMAIN unwanted
            /\ \A n \in DOMAIN unwanted : unwanted'[n] \in UnwantedEvents /\ unwanted'[n].id = unwanted[n].id
        BY <4>1, <4>3 DEF IInv, IdsGivenOut
      <4> QED
        BY <4>1, <4>4 DEF IInv, IdsGivenOut
    <3>2. CASE m \notin DOMAIN unwanted
      <4> DEFINE new == [count |-> 1, previousCount |-> 0, id |-> nextId]
      <4>0. nextId' = nextId + 1 /\ unwanted' = Put(unwanted, m, new)
        BY <1>3, <3>2 DEF addUnwantedEvent
      <4>1. /\ nextId' = nextId + 1 /\ DOMAIN unwanted' = DOMAIN unwanted \cup {m}
            /\ \A n \in DOMAIN unwanted : unwanted'[n].id = unwanted[n].id
            /\ unwanted'[m].id = nextId /\ unwanted'[m] \in UnwantedEvents
            /\ \A n \in DOMAIN unwanted : unwanted'[n] = unwanted[n]
        <5>1. new.id = nextId /\ new \in UnwantedEvents
          BY <1>0 DEF UnwantedEvents
        <5> HIDE DEF new
        <5> QED
          BY <3>2, <4>0, <5>1 DEF Put
      <4>2. \A n \in DOMAIN unwanted' : unwanted'[n] \in UnwantedEvents /\ unwanted'[n].id < nextId + 1
        <5>1. \A n \in DOMAIN unwanted : unwanted[n] \in UnwantedEvents /\ unwanted[n].id < nextId
          BY DEF IInv, IdsGivenOut
        <5>2. \A n \in DOMAIN unwanted : unwanted[n].id \in Nat
          BY <5>1 DEF UnwantedEvents
        <5> QED
          BY <1>0, <4>1, <5>1, <5>2
      <4> QED
        BY <4>1, <4>2 DEF IdsGivenOut
    <3> QED
      BY <3>1, <3>2
  <2> QED
    BY <2>1, <2>4, <2>5, Elsewhere DEF Unconfigured
<1>4. ASSUME NEW d \in Disks, doStatFs(d) PROVE IInv'
  <2>1. /\ d \in DOMAIN list /\ list' = [list EXCEPT ![d].retrieving = FALSE]
        /\ UNCHANGED <<alarms, failPosted, unwanted, nextId, fsm, left>>
    BY <1>4 DEF doStatFs
  <2>2. list[d] \in DiskUsages
    BY <2>1 DEF IInv
  <2>3. /\ [list[d] EXCEPT !.retrieving = FALSE] \in DiskUsages
        /\ [list[d] EXCEPT !.retrieving = FALSE].alarmState = list[d].alarmState
    BY <2>2 DEF DiskUsages
  <2>4. /\ DOMAIN list' = DOMAIN list
        /\ \A e \in DOMAIN list : /\ list'[e] \in DiskUsages
                                  /\ list'[e].alarmState = list[e].alarmState
    BY <2>1, <2>3 DEF IInv
  <2>5. WithinBudget' /\ IdsGivenOut'
    BY <2>1, BudgetKept DEF IInv, IdsGivenOut
  <2> QED
    BY <2>1, <2>4, <2>5 DEF IInv, Told, Unconfigured
<1>5. ASSUME NEW n \in Names, changes(n) PROVE IInv'
  <2>1. UNCHANGED <<list, alarms, failPosted, unwanted, nextId, fsm>>
    BY <1>5 DEF changes
  <2>2. /\ left' \in [changes : Nat, configures : Nat, resets : Nat, unwanted : Nat]
        /\ left'.unwanted = left.unwanted
    BY <1>0, <1>5 DEF changes
  <2>3. WithinBudget' /\ IdsGivenOut'
    BY <1>0, <2>1, <2>2 DEF WithinBudget, IdsGivenOut, IInv
  <2> QED
    BY <2>1, <2>3, Elsewhere DEF Unconfigured
<1> QED
  BY <1>1, <1>2, <1>3, <1>4, <1>5

\* Every step keeps the invariant.
LEMMA NextIInv == IInv /\ [Next]_vars => IInv'
<1> SUFFICES ASSUME IInv, [Next]_vars PROVE IInv'
  OBVIOUS
<1>1. CASE UNCHANGED vars
  BY <1>1 DEF vars, IInv, WithinBudget, IdsGivenOut, Told, Unconfigured
<1> QED
  BY <1>1, ReporterStep, EntryStep, OtherStep DEF Next

\* What the page shows of a disk is what was told: a disk with a warning or an error has its
\* alarm raised, one in a fatal state has sent a Fail (ResourceMonitorCollection), for any
\* disks and however the reporter, late answers, resets and entries into Ready interleave.
THEOREM AlarmsMatchStates == Spec => []AlarmStateIsRaised
<1>1. IInv => AlarmStateIsRaised
  BY DEF IInv, AlarmStateIsRaised, Told, Unconfigured
<1> QED
  BY <1>1, InitIInv, NextIInv, PTL DEF Spec
=============================================================================
