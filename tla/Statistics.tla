----------------------------- MODULE Statistics -----------------------------
(***************************************************************************)
(* The monitored quantities: how samples become statistics.                *)
(*                                                                         *)
(* Threads of the data flow add samples to a MonitoredQuantity.  In every  *)
(* cycle the StatisticsReporter thread lets each collection calculate: it  *)
(* takes the samples out of the accumulators under one lock and adds them  *)
(* to the results under another.  What has been calculated is copied into  *)
(* the info space, by the same thread or for a query.  At the begin of a   *)
(* run the FragmentProcessor thread resets the accumulators and then the   *)
(* results.  Some collections hold a mutex of their own meanwhile.         *)
(*                                                                         *)
(* One quantity of the application is observed, any of them.  Its samples  *)
(* are known by their identity, and a count, sum, extremum or average is   *)
(* the set of the samples it is made of.  An exception in a collection     *)
(* calculated before it ends the round of the reporter early: a stuttering *)
(* step here.                                                              *)
(***************************************************************************)
EXTENDS MonitoredQuantities

VARIABLES
  which,        \* the quantity that is observed
  working,      \* the samples in the accumulators (working...)
  started,      \* lastCalculationTime_ is set: there was a sample
  ripe,         \* expectedCalculationInterval_ has passed since
  inHand,       \* the samples between the two locks (latest...)
  full,         \* the samples in the results (full...)
  bins,         \* the samples in each bin of recent results (bin...)
  workingBin,   \* workingBinId_
  elapsed,      \* updateInterval_ has passed since lastCalculateStatistics_
  updateNeeded, \* infoSpaceUpdateNeeded_
  published,    \* the samples that the info space accounts for
  mutex,        \* the thread that holds the mutex of the collection
  reporter,     \* what the StatisticsReporter thread is at
  listener,     \* what the thread of a query (actionPerformed) is at
  fsm,          \* what the FragmentProcessor thread is at
  resets,       \* bound: the begins of a run so far
  fresh,        \* history: the samples added since the accumulators were reset
  latest,       \* history: the last BinCount calculations since the results were reset
  stale,        \* history: the accumulators were reset with these samples in hand
  torn          \* history: samples in hand were stored on the other side of a reset

vars ==
  <<which, working, started, ripe, inHand, full, bins, workingBin, elapsed, updateNeeded,
    published, mutex, reporter, listener, fsm, resets, fresh, latest, stale, torn>>
quantity == <<working, started, ripe, inHand, full, bins, workingBin, fresh, latest, stale, torn>>
collection == <<elapsed, updateNeeded, published, mutex>>
threads == <<reporter, listener, fsm, resets>>

isCalculated == which.name \in Calculated(which.of)
isDerived == which.name \in Derived(which.of)
isPublished == which.name \in Published(which.of)
hasMutex == Mutexed(which.of)
Empty == [b \in 0 .. BinCount - 1 |-> {}]

Init ==
  /\ which \in Observed
  /\ working = {} /\ started = FALSE /\ ripe = FALSE /\ inHand = {}
  /\ full = {} /\ bins = Empty /\ workingBin = 0
  /\ elapsed = FALSE /\ updateNeeded = TRUE /\ published = {} /\ mutex = "free"
  /\ reporter = "asleep" /\ listener = "idle" /\ fsm = "idle" /\ resets = 0
  /\ fresh = {} /\ latest = [n \in 1 .. BinCount |-> {}] /\ stale = FALSE /\ torn = FALSE

-----------------------------------------------------------------------------
(* Samples, and time.                                                      *)

Unused(s) == s \notin working \cup inHand \cup full \cup fresh \cup published

\* MonitoredQuantity::addSample: the first one starts the clock.
addSample(s) ==
  /\ Unused(s)
  /\ working' = working \cup {s} /\ fresh' = fresh \cup {s} /\ started' = TRUE
  /\ UNCHANGED <<ripe, inHand, full, bins, workingBin, latest, stale, torn>>

\* A thread of the data flow.  Samples of a consumer are added under the mutex.
Add(s) ==
  /\ ~isDerived
  /\ ByFragmentProcessor(which.of, which.name) => fsm = "idle"
  /\ which.of \in {"consumer", "allConsumers"} => mutex = "free"
  /\ addSample(s)
  /\ UNCHANGED <<which, collection, threads>>

Elapse ==
  /\ ~elapsed /\ elapsed' = TRUE
  /\ UNCHANGED <<which, quantity, updateNeeded, published, mutex, threads>>

Ripen ==
  /\ started /\ ~ripe /\ ripe' = TRUE
  /\ UNCHANGED <<which, working, started, inHand, full, bins, workingBin, fresh, latest, stale,
                 torn, collection, threads>>

-----------------------------------------------------------------------------
(* The StatisticsReporter thread: a round lets the collection calculate    *)
(* and then updates the info space.                                        *)

ReporterGoes(from, to) ==
  reporter = from /\ reporter' = to /\ UNCHANGED <<which, listener, fsm, resets>>

\* MonitorCollection::calculateStatistics, and the mutex that do_calculateStatistics takes.
StartRound ==
  /\ IF elapsed
     THEN /\ ReporterGoes("asleep", IF isDerived THEN "sampling" ELSE "latching")
          /\ hasMutex => mutex = "free"
          /\ mutex' = IF hasMutex THEN "reporter" ELSE mutex
     ELSE ReporterGoes("asleep", "updating") /\ UNCHANGED mutex
  /\ elapsed' = FALSE
  /\ UNCHANGED <<quantity, updateNeeded, published>>

\* A derived quantity is sampled, if what it is derived from has samples, or a queue is there.
SampleDerived ==
  /\ ReporterGoes("sampling", "latching")
  /\ (\E s \in Samples : addSample(s)) \/ UNCHANGED quantity
  /\ UNCHANGED collection

\* The accumulators are not emptied.
LatchBug ==
  /\ IF isCalculated /\ started /\ ripe
     THEN /\ ReporterGoes("latching", "storing")
          /\ inHand' = working /\ ripe' = FALSE /\ stale' = FALSE
     ELSE ReporterGoes("latching", "flagging") /\ UNCHANGED <<inHand, ripe, stale>>
  /\ UNCHANGED <<working, started, full, bins, workingBin, fresh, latest, torn, collection>>

\* MonitoredQuantity::calculateStatistics under accumulationMutex_: it may be too early.
Latch ==
  /\ IF isCalculated /\ started /\ ripe
     THEN /\ ReporterGoes("latching", "storing")
          /\ inHand' = working /\ working' = {} /\ ripe' = FALSE /\ stale' = FALSE
     ELSE ReporterGoes("latching", "flagging") /\ UNCHANGED <<inHand, working, ripe, stale>>
  /\ UNCHANGED <<started, full, bins, workingBin, fresh, latest, torn, collection>>

\* The same under resultsMutex_: the latest samples go to the full set and to the bin whose
\* turn it is.
Store ==
  /\ ReporterGoes("storing", "flagging")
  /\ full' = full \cup inHand
  /\ bins' = [bins EXCEPT ![workingBin] = inHand]
  /\ workingBin' = IF workingBin + 1 >= BinCount THEN 0 ELSE workingBin + 1
  /\ latest' = [n \in 1 .. BinCount |-> IF n = BinCount THEN inHand ELSE latest[n + 1]]
  /\ torn' = (torn \/ (inHand # {} /\ stale # (fsm = "results")))
  /\ inHand' = {} /\ stale' = FALSE
  /\ UNCHANGED <<working, started, ripe, fresh, collection>>

\* Nobody is told that there is something to publish.
FlagBug ==
  /\ ReporterGoes("flagging", "updating")
  /\ mutex' = IF hasMutex THEN "free" ELSE mutex
  /\ UNCHANGED <<quantity, elapsed, updateNeeded, published>>

Flag ==
  /\ ReporterGoes("flagging", "updating")
  /\ updateNeeded' = TRUE /\ mutex' = IF hasMutex THEN "free" ELSE mutex
  /\ UNCHANGED <<quantity, elapsed, published>>

\* MonitorCollection::updateInfoSpaceItems.
publish ==
  /\ hasMutex => mutex = "free"
  /\ published' = IF isPublished THEN full ELSE published
  /\ UNCHANGED <<quantity, elapsed, updateNeeded, mutex>>

Update ==
  /\ updateNeeded /\ publish /\ ReporterGoes("updating", "clearing")

SkipUpdate ==
  /\ ~updateNeeded /\ ReporterGoes("updating", "asleep")
  /\ UNCHANGED <<quantity, collection>>

ClearFlag ==
  /\ ReporterGoes("clearing", "asleep") /\ updateNeeded' = FALSE
  /\ UNCHANGED <<quantity, elapsed, published, mutex>>

-----------------------------------------------------------------------------
(* StatisticsReporter::actionPerformed: a query for the stored events      *)
(* updates the items of the streams first, in a thread of its own.         *)

ListenerGoes(from, to) ==
  /\ which.of \in {"streams", "streamRecord"}
  /\ listener = from /\ listener' = to /\ UNCHANGED <<which, reporter, fsm, resets>>

Query == updateNeeded /\ publish /\ ListenerGoes("idle", "clearing")

EndQuery ==
  /\ ListenerGoes("clearing", "idle") /\ updateNeeded' = FALSE
  /\ UNCHANGED <<quantity, elapsed, published, mutex>>

-----------------------------------------------------------------------------
(* The FragmentProcessor thread at the begin of a run                      *)
(* (StatisticsReporter::reset).                                            *)

FSMGoes(from, to) == fsm = from /\ fsm' = to /\ UNCHANGED <<which, reporter, listener>>
EmptyAccumulators == working' = {} /\ started' = FALSE /\ ripe' = FALSE
EmptyResults ==
  full' = {} /\ bins' = Empty /\ workingBin' = 0 /\ latest' = [n \in 1 .. BinCount |-> {}]

isReset == which.name \in Reset(which.of)
isCleared == which.of \in Cleared

\* MonitoredQuantity::reset under accumulationMutex_.
ResetAccumulators ==
  /\ isReset /\ resets < Resets /\ resets' = resets + 1
  /\ FSMGoes("idle", "results")
  /\ hasMutex => mutex = "free"
  /\ mutex' = IF hasMutex THEN "fsm" ELSE mutex
  /\ EmptyAccumulators /\ fresh' = {} /\ stale' = (reporter = "storing") /\ torn' = FALSE
  /\ UNCHANGED <<inHand, full, bins, workingBin, latest, elapsed, updateNeeded, published>>

\* The same under resultsMutex_.
ResetResults ==
  /\ FSMGoes("results", "rearming") /\ UNCHANGED resets
  /\ EmptyResults
  /\ mutex' = IF hasMutex THEN "free" ELSE mutex
  /\ UNCHANGED <<working, started, ripe, inHand, fresh, stale, torn, elapsed, updateNeeded, published>>

\* A record goes with all it has: the next sample makes a new one.
ClearRecords ==
  /\ isCleared /\ resets < Resets /\ resets' = resets + 1
  /\ FSMGoes("idle", "rearming") /\ mutex = "free"
  /\ EmptyAccumulators /\ EmptyResults /\ fresh' = {} /\ torn' = FALSE
  /\ UNCHANGED <<inHand, stale, collection>>

\* MonitorCollection::reset: "Assure that the first update happens early."
Rearm ==
  /\ FSMGoes("rearming", "idle") /\ UNCHANGED resets
  /\ elapsed' = FALSE /\ updateNeeded' = TRUE
  /\ UNCHANGED <<quantity, published, mutex>>

-----------------------------------------------------------------------------
Reporter ==
  \/ StartRound \/ SampleDerived \/ Latch \/ Store \/ Flag
  \/ Update \/ SkipUpdate \/ ClearFlag
BeginOfRun == ResetResults \/ Rearm

Next ==
  \/ \E s \in Samples : Add(s)
  \/ Elapse \/ Ripen
  \/ Reporter
  \/ Query \/ EndQuery
  \/ ResetAccumulators \/ ClearRecords \/ BeginOfRun

\* Time passes, the work loop goes round, and a begin of run or a query comes to its end.
Spec ==
  /\ Init /\ [][Next]_vars
  /\ WF_vars(Elapse) /\ WF_vars(Ripen) /\ WF_vars(Reporter)
  /\ WF_vars(EndQuery) /\ WF_vars(BeginOfRun)

-----------------------------------------------------------------------------
(* Properties.                                                             *)

\* MonitoredQuantity::getStats: the bins from the oldest to the latest.
sourceBin(n) ==
  IF workingBin + n - 1 >= BinCount THEN workingBin + n - 1 - BinCount ELSE workingBin + n - 1
Binned == [n \in 1 .. BinCount |-> bins[sourceBin(n)]]

\* The types of the state.
TypeOK ==
  /\ which \in Observed
  /\ {working, inHand, full, published, fresh} \subseteq SUBSET Samples
  /\ {started, ripe, elapsed, updateNeeded, stale, torn} \subseteq BOOLEAN
  /\ bins \in [0 .. BinCount - 1 -> SUBSET Samples] /\ workingBin \in 0 .. BinCount - 1
  /\ latest \in [1 .. BinCount -> SUBSET Samples]
  /\ mutex \in {"free", "reporter", "fsm"}
  /\ reporter \in
       {"asleep", "sampling", "latching", "storing", "flagging", "updating", "clearing"}
  /\ listener \in {"idle", "clearing"} /\ fsm \in {"idle", "results", "rearming"}
  /\ resets \in 0 .. Resets

(***************************************************************************)
(* A sample added since the begin of the run is in exactly one place, the  *)
(* accumulators, the hand of the reporter or the results, and no older one *)
(* is; and the recent results are those of the last BinCount calculations, *)
(* in their order.  Not so only after a reset that a calculation was in    *)
(* the middle of, which a collection with a mutex excludes.                *)
(***************************************************************************)
EverySampleCountsOnce ==
  /\ fsm # "results" /\ ~torn =>
       /\ fresh = working \cup full \cup (IF stale THEN {} ELSE inHand)
       /\ working \cap full = {} /\ (working \cup full) \cap inHand = {}
  /\ Binned = latest
  /\ hasMutex => ~torn

\* What is sampled gets into the info space, whatever the listener does to the flag, unless
\* a run begins before it is there.
SamplesArePublished ==
  \A s \in Samples :
    isPublished /\ s \in fresh ~> s \in published \/ s \notin fresh \/ torn

\* No reset is torn.  Not so without a mutex: MonitoredQuantity::reset and
\* calculateStatistics each take one lock after the other (MonitoredQuantity.cc:95, 274).
ResetsAreWhole == ~torn

\* "we want to assure that the values are current when they are queried"
\* (StatisticsReporter.cc:191): not so, a query publishes what was calculated, if the flag
\* says there is anything, and calculates nothing.
QueriedValuesAreCurrent == [][ListenerGoes("idle", "clearing") => fresh \subseteq published']_vars
=============================================================================
