-------------------------- MODULE FragmentAssembly --------------------------
(***************************************************************************)
(* How events are put together from the I2O fragments of the filter units, *)
(* and how the resource broker gets its buffers back.                      *)
(*                                                                         *)
(* A message carries one fragment or a chain of them.  Fragments of one    *)
(* event arrive in any order; they may be missing, damaged or there twice. *)
(* The FragmentProcessor thread adds each message to the FragmentStore, an *)
(* event that is complete or has waited too long leaves it for the         *)
(* EventDistributor, and a discard message goes to its sender.  All of     *)
(* this is done by one thread, so a step is the handling of one message or *)
(* of one stale event.                                                     *)
(***************************************************************************)
EXTENDS Integers, Sequences, FiniteSets, SequencesExt

CONSTANTS
  Traffic,           \* what may be sent: sets of messages, each a sequence of fragments
  Parts(_),          \* in how many fragments an event was sent
  MaxMemory,         \* limit of the fragment store, in fragments
  FaultyStream,      \* is a stream for faulty events configured
  MaxFaults          \* bound: damages, losses, duplicates, failing discards and clears

Codes == {"INIT", "EVENT", "DQM_EVENT", "ERROR_EVENT"}
Fragments ==
  [event : Nat, part : Nat, code : Codes \cup {"INVALID"}, index : Nat, total : Nat,
   intact : BOOLEAN, copy : Nat]

\* A message holds fragments of one event in the order of the event; each is sent once.
ASSUME TrafficAssumption ==
  /\ \A t \in Traffic : \A m \in t :
       /\ m \in Seq(Fragments) /\ m # <<>>
       /\ \A i \in DOMAIN m : /\ m[i].event = m[1].event /\ m[i].copy = 0
                              /\ \A j \in DOMAIN m : i < j => m[i].part < m[j].part
       /\ \A n \in t : \A i \in DOMAIN m, j \in DOMAIN n :
            m[i].event = n[j].event /\ m[i].part = n[j].part => m = n /\ i = j
  /\ MaxMemory \in Nat \ {0} /\ FaultyStream \in BOOLEAN /\ MaxFaults \in Nat

(* Bits of ChainData, and what a bit pattern is for.                       *)
Bits == {"INCOMPLETE_MESSAGE", "CORRUPT_INITIAL_HEADER", "CORRUPT_SECONDARY_HEADER",
         "TOTAL_COUNT_MISMATCH", "FRAGMENTS_OUT_OF_ORDER", "DUPLICATE_FRAGMENT",
         "WRONG_CHECKSUM", "EXTERNALLY_REQUESTED"}
NeverCompletes == {"TOTAL_COUNT_MISMATCH", "FRAGMENTS_OUT_OF_ORDER", "DUPLICATE_FRAGMENT"}

VARIABLES
  network,   \* messages under way: sequences of fragments
  faults,    \* how many faults there were
  store,     \* FragmentStore: chains by fragment key
  memoryUsed,
  monitor,   \* DataSenderMonitorCollection: the counters of each sender
  received, handed, lost, cleared
             \* history: the fragments received and the chains that went to the
             \* distributor, were lost when a discard failed, or left with the run

vars == <<network, faults, store, memoryUsed, monitor, received, handed, lost, cleared>>

-----------------------------------------------------------------------------
(* Fragments.  index and total are frameCount and numFrames of the header; *)
(* event, code and part are what the sender put in, copy tells duplicates  *)
(* apart, intact is the payload.  A header that cannot be right has        *)
(* index >= total; a message that is no message of the storage manager has *)
(* code "INVALID".                                                         *)

Valid(f) == f.total >= 1 /\ f.index < f.total

\* Valid fragments before the i-th of a chain: the last is what the order of
\* the i-th is checked against.
Before(fs, i) == {j \in 1 .. i - 1 : Valid(fs[j])}

Expected(fs) == IF Valid(fs[1]) THEN fs[1].total ELSE 0

FirstBits(fs, code) ==
  LET secondary == {i \in 2 .. Len(fs) : Valid(fs[i])}
      ordered == {i \in secondary : Before(fs, i) # {}}
      previous(i) == fs[Max(Before(fs, i))].index
  IN {"INCOMPLETE_MESSAGE"}
     \cup (IF Valid(fs[1]) THEN {} ELSE {"CORRUPT_INITIAL_HEADER"})
     \cup (IF \A i \in 2 .. Len(fs) : Valid(fs[i]) /\ fs[i].code = code
           THEN {} ELSE {"CORRUPT_SECONDARY_HEADER"})
     \cup (IF \A i \in secondary : fs[i].total = Expected(fs) THEN {} ELSE {"TOTAL_COUNT_MISMATCH"})
     \cup (IF \E i \in ordered : fs[i].index = previous(i) THEN {"DUPLICATE_FRAGMENT"} ELSE {})
     \cup (IF \E i \in ordered : fs[i].index < previous(i)
           THEN {"FRAGMENTS_OUT_OF_ORDER"} ELSE {})

\* Error events carry no checksum, all others one over the whole event.
HasChecksum(code) == code # "ERROR_EVENT"
Checks(fs) ==
  /\ Len(fs) = Parts(fs[1].event)
  /\ \A i \in 1 .. Len(fs) : fs[i].intact /\ fs[i].part = i - 1 /\ fs[i].event = fs[1].event

\* checkForCompleteness and markComplete.
checkForCompleteness(ch) ==
  IF Len(ch.frames) = ch.expected /\ ch.bits \cap NeverCompletes = {}
  THEN LET bits == ch.bits \ {"INCOMPLETE_MESSAGE"}
       IN [ch EXCEPT !.complete = TRUE,
                     !.bits = IF bits = {} /\ HasChecksum(ch.code) /\ ~Checks(ch.frames)
                              THEN {"WRONG_CHECKSUM"} ELSE bits]
  ELSE ch

parsable(ch) == "CORRUPT_INITIAL_HEADER" \notin ch.bits
faulty(ch) == IF ch.complete THEN ch.bits # {} ELSE ch.bits # {"INCOMPLETE_MESSAGE"}

\* The constructor of I2OChain, which chooses the data by the function code.
I2OChain(fs) ==
  LET unknown == fs[1].code = "INVALID"
      ch == checkForCompleteness(
              [frames |-> fs, code |-> fs[1].code, expected |-> Expected(fs), complete |-> FALSE,
               bits |-> FirstBits(fs, fs[1].code), windowOver |-> FALSE])
  IN IF unknown THEN [ch EXCEPT !.bits = @ \cup {"CORRUPT_INITIAL_HEADER"}] ELSE ch

\* Chains without a header they can be known by are told apart by the address of
\* their buffer.
fragmentKey(ch) ==
  IF parsable(ch) THEN <<ch.code, ch.frames[1].event, 0, 0>>
  ELSE <<"INVALID", ch.frames[1].event, ch.frames[1].part, ch.frames[1].copy>>

\* Faulty variants of an operation (here and below, named ...Bug): each is what a
\* property is there to catch.  Here: a duplicate goes unnoticed.
AddFrameBug(ch, f) ==
  LET later == {i \in 1 .. Len(ch.frames) : ch.frames[i].index > f.index}
      at == IF later = {} THEN Len(ch.frames) + 1 ELSE Min(later)
  IN [ch EXCEPT !.frames = InsertAt(@, at, f)]

\* One fragment of the part that joins a chain: before the first, after its
\* equal, between its neighbours, or at the end.
AddFrame(ch, f) ==
  LET fs == ch.frames
      fits == {i \in 1 .. Len(fs) : \/ f.index = fs[i].index
                                    \/ i = Len(fs)
                                    \/ fs[i].index < f.index /\ f.index < fs[i + 1].index}
      i == Min(fits)
      first == f.index < fs[1].index
  IN [ch EXCEPT !.frames = InsertAt(@, IF first THEN 1 ELSE i + 1, f),
                !.bits = @ \cup (IF f.total # ch.expected THEN {"TOTAL_COUNT_MISMATCH"} ELSE {})
                           \cup (IF ~first /\ f.index = fs[i].index
                                 THEN {"DUPLICATE_FRAGMENT"} ELSE {})]

\* Only chains with the same key meet, and these are parsable.
addToChain(ch, new) ==
  LET after[n \in 0 .. Len(new.frames)] ==
        IF n = 0 THEN ch ELSE AddFrame(after[n - 1], new.frames[n])
      joined == after[Len(new.frames)]
  IN checkForCompleteness([joined EXCEPT !.bits = @ \cup new.bits, !.windowOver = FALSE])

memoryUsedBy(ch) == Len(ch.frames)
Put(f, k, v) == [x \in DOMAIN f \cup {k} |-> IF x = k THEN v ELSE f[x]]
Without(f, k) == [x \in DOMAIN f \ {k} |-> f[x]]

\* What is taken off the memory is the last part only.
addFragmentBug(ch) ==
  LET key == fragmentKey(ch)
      joined == IF key \in DOMAIN store THEN addToChain(store[key], ch) ELSE ch
  IN [store |-> IF joined.complete THEN Without(store, key) ELSE Put(store, key, joined),
      memory |-> IF joined.complete THEN memoryUsed ELSE memoryUsed + memoryUsedBy(ch),
      chain |-> joined]

\* The store and its memory after a chain was added, and the chain it became.
addFragment(ch) ==
  LET key == fragmentKey(ch)
      joined == IF key \in DOMAIN store THEN addToChain(store[key], ch) ELSE ch
      memory == memoryUsed + memoryUsedBy(ch)
  IN IF ch.complete THEN [store |-> store, memory |-> memoryUsed, chain |-> ch]
     ELSE IF joined.complete
     THEN [store |-> Without(store, key), memory |-> memory - memoryUsedBy(joined), chain |-> joined]
     ELSE [store |-> Put(store, key, joined), memory |-> memory, chain |-> joined]

full == memoryUsed >= MaxMemory

-----------------------------------------------------------------------------
(* Discards and their books.  The records are kept by what a chain says of *)
(* its sender, which is nothing for one that is not parsable.              *)
Senders == {"broker", "unavailable"}
Counters == {"init", "event", "error", "dqm", "faulty", "faultyDQM", "dataDiscard", "dqmDiscard",
             "skipped"}
SenderOf(ch) == IF parsable(ch) THEN "broker" ELSE "unavailable"

\* A chain of unknown kind has no record.
Count(books, ch, counter) ==
  IF ch.code = "INVALID" THEN books ELSE [books EXCEPT ![SenderOf(ch)][counter] = @ + 1]

\* How a discard message ends.  A failing look-up or a failing post raises an
\* exception; an unparsable chain has a sender that no look-up finds.
Outcomes(ch) ==
  IF ch.code = "INVALID" THEN {"ignored"}
  ELSE IF ~parsable(ch) THEN {"lookupFails"}
  ELSE {"sent"} \cup (IF faults < MaxFaults THEN {"lookupFails", "postFails"} ELSE {})
Fails(outcome) == outcome \in {"lookupFails", "postFails"}
ByChance(ch, outcome) == IF Fails(outcome) /\ parsable(ch) THEN 1 ELSE 0

sendDiscardMessage(books, ch, outcome) ==
  CASE outcome = "sent" -> Count(books, ch, IF ch.code = "DQM_EVENT" THEN "dqmDiscard"
                                                                    ELSE "dataDiscard")
    [] outcome \in {"ignored", "lookupFails"} -> Count(books, ch, "skipped")
    [] outcome = "postFails" -> books

\* The sample the distributor takes of a chain.
addSample(books, ch) ==
  IF faulty(ch) \/ ~ch.complete
  THEN Count(books, ch, IF ch.code = "DQM_EVENT" THEN "faultyDQM" ELSE "faulty")
  ELSE Count(books, ch, CASE ch.code = "INIT" -> "init" [] ch.code = "EVENT" -> "event"
                          [] ch.code = "ERROR_EVENT" -> "error" [] ch.code = "DQM_EVENT" -> "dqm")

\* Where a chain goes: to the queues of those who select it, to the stream for
\* faulty events, or nowhere.
Destination(ch) ==
  IF ~faulty(ch) /\ ch.complete THEN "queues"
  ELSE IF FaultyStream /\ ch.code \in {"EVENT", "ERROR_EVENT"} THEN "faultyStream" ELSE "nowhere"

addEventToRelevantQueues(ch, outcome) ==
  handed' = handed \cup {[chain |-> ch, to |-> Destination(ch), discard |-> outcome]}

-----------------------------------------------------------------------------
Init ==
  /\ network \in Traffic
  /\ faults = 0 /\ store = <<>> /\ memoryUsed = 0
  /\ monitor = [s \in Senders |-> [c \in Counters |-> 0]]
  /\ received = {} /\ handed = {} /\ lost = {} /\ cleared = {}

\* A complete event is distributed before its discard message is sent.
receive(m) ==
  LET added == addFragment(I2OChain(m))
      ch == added.chain
  IN /\ m \in network /\ ~full
     /\ network' = network \ {m} /\ received' = received \cup ToSet(m)
     /\ store' = added.store /\ memoryUsed' = added.memory
     /\ IF ch.complete
        THEN \E outcome \in Outcomes(ch) :
               /\ addEventToRelevantQueues(ch, outcome)
               /\ monitor' = sendDiscardMessage(addSample(monitor, ch), ch, outcome)
               /\ faults' = faults + ByChance(ch, outcome)
        ELSE UNCHANGED <<handed, monitor, faults>>
     /\ UNCHANGED <<lost, cleared>>

\* An event whose discard fails is put back and waits for another time-out.
noFragmentToProcessBug ==
  \E key \in DOMAIN store :
    /\ store[key].windowOver /\ ~full
    /\ LET ch == [store[key] EXCEPT !.bits = @ \cup {"EXTERNALLY_REQUESTED"}]
       IN \E outcome \in Outcomes(ch) :
            /\ faults' = faults + ByChance(ch, outcome)
            /\ IF Fails(outcome)
               THEN /\ store' = [store EXCEPT ![key].windowOver = FALSE]
                    /\ UNCHANGED <<handed, lost, monitor, memoryUsed>>
               ELSE /\ addEventToRelevantQueues(ch, outcome)
                    /\ store' = Without(store, key) /\ memoryUsed' = memoryUsed - memoryUsedBy(ch)
                    /\ monitor' = addSample(sendDiscardMessage(monitor, ch, outcome), ch)
                    /\ UNCHANGED lost
    /\ UNCHANGED <<network, received, cleared>>

\* A stale event leaves the store, its discard message is sent, and only then
\* is it distributed: not at all when the discard fails.
noFragmentToProcess ==
  \E key \in DOMAIN store :
    /\ store[key].windowOver /\ ~full
    /\ LET ch == [store[key] EXCEPT !.bits = @ \cup {"EXTERNALLY_REQUESTED"}]
       IN /\ store' = Without(store, key) /\ memoryUsed' = memoryUsed - memoryUsedBy(ch)
          /\ \E outcome \in Outcomes(ch) :
               /\ faults' = faults + ByChance(ch, outcome)
               /\ IF Fails(outcome)
                  THEN /\ lost' = lost \cup {ch} /\ UNCHANGED handed
                       /\ monitor' = sendDiscardMessage(monitor, ch, outcome)
                  ELSE /\ addEventToRelevantQueues(ch, outcome) /\ UNCHANGED lost
                       /\ monitor' = addSample(sendDiscardMessage(monitor, ch, outcome), ch)
    /\ UNCHANGED <<network, received, cleared>>

\* The time-out of an incomplete event.  While the store is full the time does
\* not count (addToStaleEventTimes).
windowPasses(key) ==
  /\ key \in DOMAIN store /\ ~store[key].windowOver /\ ~full
  /\ store' = [store EXCEPT ![key].windowOver = TRUE]
  /\ UNCHANGED <<network, faults, memoryUsed, monitor, received, handed, lost, cleared>>

\* Nothing is taken while the store is full, and nothing is there to take else.
waits ==
  /\ full \/ (network = {} /\ store = <<>>)
  /\ UNCHANGED vars

\* The run is left with events in the store.
clear ==
  /\ faults < MaxFaults /\ store # <<>>
  /\ faults' = faults + 1
  /\ cleared' = cleared \cup {store[k] : k \in DOMAIN store}
  /\ store' = <<>> /\ memoryUsed' = 0
  /\ UNCHANGED <<network, monitor, received, handed, lost>>

(* What may go wrong on the way.  A damaged fragment is one whose header   *)
(* or payload has changed; the sender's identity is kept or is unreadable. *)
Damaged(f) ==
  {[f EXCEPT !.index = i] : i \in (0 .. f.total) \ {f.index}}
  \cup {[f EXCEPT !.total = n] : n \in {f.total - 1, f.total + 1} \ {-1}}
  \cup {[f EXCEPT !.code = "INVALID"], [f EXCEPT !.intact = FALSE]}

Fault(messages) == faults < MaxFaults /\ faults' = faults + 1 /\ network' = messages
damage(m) ==
  \E i \in 1 .. Len(m) : \E f \in Damaged(m[i]) : Fault((network \ {m}) \cup {[m EXCEPT ![i] = f]})
lose(m) == Fault(network \ {m})
duplicate(m) ==
  LET twin == [i \in 1 .. Len(m) |-> [m[i] EXCEPT !.copy = faults + 1]]
  IN m[1].copy = 0 /\ Fault(network \cup {twin})

onTheWay ==
  /\ \E m \in network : damage(m) \/ lose(m) \/ duplicate(m)
  /\ UNCHANGED <<store, memoryUsed, monitor, received, handed, lost, cleared>>

FragmentProcessor == (\E m \in network : receive(m)) \/ noFragmentToProcess
Time == \E key \in DOMAIN store : windowPasses(key)
Next == FragmentProcessor \/ Time \/ waits \/ clear \/ onTheWay

\* The work loop of the FragmentProcessor goes on, and so does time.  The first is
\* weak fairness with ENABLED FragmentProcessor spelled out.
CanProcess == ~full /\ (network # {} \/ \E key \in DOMAIN store : store[key].windowOver)
KeepsProcessing == <>[]CanProcess => []<><<FragmentProcessor>>_vars
Spec == Init /\ [][Next]_vars /\ KeepsProcessing /\ WF_vars(Time)

-----------------------------------------------------------------------------
(* Properties.                                                             *)

Stored == {store[k] : k \in DOMAIN store}
Left == {h.chain : h \in handed} \cup lost \cup cleared
FragmentsOf(ch) == ToSet(ch.frames)

\* The types of the state: a chain is stored under its own key, and only while it is
\* incomplete (FragmentStore.cc:24-55).
TypeOK ==
  /\ faults \in 0 .. MaxFaults /\ memoryUsed \in Nat
  /\ monitor \in [Senders -> [Counters -> Nat]]
  /\ \A k \in DOMAIN store : fragmentKey(store[k]) = k /\ ~store[k].complete
  /\ \A ch \in Stored \cup Left :
       ch.bits \subseteq Bits /\ ch.complete \in BOOLEAN /\ ch.windowOver \in BOOLEAN

\* An event that is distributed as a good one holds each of its fragments once and in
\* order, whatever way they came, and with the payload as sent where there is a checksum.
CompleteEventsAreWhole ==
  \A h \in handed :
    LET fs == h.chain.frames
    IN h.to = "queues" =>
         \A i \in 1 .. Len(fs) : /\ fs[i].index = i - 1 /\ fs[i].total = Len(fs)
                                 /\ fs[i].event = fs[1].event
                                 /\ HasChecksum(h.chain.code) => fs[i].intact /\ fs[i].part = i - 1

\* Fragments that are what was sent, all of one event, each once.
Whole(ch) ==
  /\ \A f \in FragmentsOf(ch) : /\ f.intact /\ f.index = f.part /\ f.event = ch.frames[1].event
                                /\ f.total = Parts(f.event) /\ f.code = ch.code /\ f.code # "INVALID"
  /\ Len(ch.frames) = Parts(ch.frames[1].event)
  /\ {f.part : f \in FragmentsOf(ch)} = 0 .. Len(ch.frames) - 1

\* The other way round: no event waits in the store, goes stale or counts as faulty once
\* all of its fragments are there and in order, in whatever order they came.
WholeEventsAreAccepted ==
  /\ \A ch \in Stored : ~Whole(ch)
  /\ \A h \in handed : Whole(h.chain) => h.to = "queues"
  /\ \A ch \in lost \cup cleared : ~Whole(ch)

\* An event goes out as good only if its fragments are all there and in order, and whenever
\* they are, each once and undamaged.
GoodMeansWhole == CompleteEventsAreWhole /\ WholeEventsAreAccepted

\* Where fragments are: a position of a chain in one of the places that hold chains.
In(place, chains) == {[in |-> place, chain |-> ch] : ch \in chains}
Holders == In("store", Stored) \cup In("handed", {h.chain : h \in handed})
             \cup In("lost", lost) \cup In("cleared", cleared)
Slots(holders) == UNION {{<<h, i>> : i \in DOMAIN h.chain.frames} : h \in holders}
FragmentAt(slot) == slot[1].chain.frames[slot[2]]

\* Each fragment received is in one chain, once: in the store, with the distributor, or
\* among those lost to a failing discard or left with the run.  memoryUsed_ is the
\* memory of what is stored, so the store cannot fill up with nothing in it.
FragmentsAccountedFor ==
  /\ received = {FragmentAt(s) : s \in Slots(Holders)}
  /\ \A s, t \in Slots(Holders) : FragmentAt(s) = FragmentAt(t) => s = t
  /\ memoryUsed = Cardinality(Slots(In("store", Stored)))

\* The outstanding discards of a sender, as its page shows them.
OutstandingDataDiscards(b) == b.init + b.event + b.error + b.faulty - b.dataDiscard
OutstandingDQMDiscards(b) == b.dqm + b.faultyDQM - b.dqmDiscard

\* They are the chains of this sender that were distributed and whose discard message was
\* not sent, faulty and stale ones included, in whatever order the two were done.
DiscardsAddUp ==
  \A s \in Senders :
    LET unsent(dqm) == {h \in handed : /\ h.chain.code # "INVALID" /\ h.discard # "sent"
                                       /\ SenderOf(h.chain) = s
                                       /\ dqm <=> h.chain.code = "DQM_EVENT"}
    IN /\ OutstandingDataDiscards(monitor[s]) = Cardinality(unsent(FALSE))
       /\ OutstandingDQMDiscards(monitor[s]) = Cardinality(unsent(TRUE))

\* The books of the store and those of the senders agree with what is stored and was handed
\* on, also when discard messages fail and events start anew.
BooksBalance == FragmentsAccountedFor /\ DiscardsAddUp

\* No fragment stays in the store for ever, unless the store is full: events that do not
\* become complete are given up, also when the discard message cannot be sent.
StaleEventsLeave == []<>(store = <<>> \/ full)

\* What DiscardManager.h:68-74 expects of events too corrupt to be discarded: that they
\* are found in the stream for faulty events.  It does not hold (DiscardManager.cc:56-66).
CorruptEventsReachTheFaultyStream ==
  FaultyStream => \A ch \in lost : parsable(ch)

\* The outstanding discards as the info space item counts them, without the faulty events
\* (DataSenderMonitorCollection.cc:504): differs from the page by these.
InfoSpaceAgreesWithPage ==
  \A s \in Senders : monitor[s].init + monitor[s].event + monitor[s].error
                       = OutstandingDataDiscards(monitor[s]) + monitor[s].dataDiscard
=============================================================================
