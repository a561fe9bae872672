-------------------------- MODULE ConcurrentQueue --------------------------
(***************************************************************************)
(* The bounded queue every thread of the StorageManager communicates       *)
(* through: interface/ConcurrentQueue.h, with its three enqueue policies.  *)
(*                                                                         *)
(* A critical section of protectElements_ is one action.  A thread that    *)
(* waits on a condition leaves its critical section in the middle of an    *)
(* operation, so a blocking operation has a first action and a Resume      *)
(* action; between the two the thread is in the wait set of the condition  *)
(* (until something wakes it) or is on its way to the mutex.               *)
(***************************************************************************)
EXTENDS Integers, Sequences, FiniteSets

CONSTANTS
  Policy,       \* "FailIfFull", "KeepNewest" or "RejectNewest"
  Producers,    \* threads that enqueue
  Consumers,    \* threads that dequeue
  Operations,   \* the operations the users of this queue call
  Sizes,        \* memoryUsage() of the items offered
  Capacities,   \* the capacities the queue is configured with
  Memories,     \* the memory limits the queue is configured with
  MaxOffers,    \* bound: enqueue operations started
  MaxControls   \* bound: clear, setCapacity, setMemory and external drops

QueueOperations ==
  { "enqNowait", "enqWait", "enqTimedWait", "deqNowait", "deqWait",
    "deqTimedWait", "clear", "setCapacity", "setMemory",
    "addExternallyDroppedEvents" }

ASSUME PolicyAssumption == Policy \in {"FailIfFull", "KeepNewest", "RejectNewest"}
ASSUME ThreadAssumption ==
  /\ Producers \cap Consumers = {}
  /\ IsFiniteSet(Producers) /\ IsFiniteSet(Consumers)
ASSUME OperationAssumption == Operations \subseteq QueueOperations
ASSUME BoundAssumption ==
  /\ Sizes \subseteq Nat
  /\ Capacities \subseteq Nat
  /\ Memories \subseteq Nat
  /\ MaxOffers \in Nat
  /\ MaxControls \in Nat

VARIABLES
  elements,         \* elements_: the items
  size,             \* size_
  capacity,         \* capacity_
  used,             \* used_
  memory,           \* memory_
  elementsDropped,  \* elementsDropped_: losses the next consumer will be told of
  notFullWaiters,   \* threads waiting on queueNotFull_
  notEmptyWaiters,  \* threads waiting on queueNotEmpty_
  op,               \* the blocking operation a thread is inside, or "none"
  pending,          \* the memory of the item a blocked producer holds
  expired,          \* threads whose wait ended without a notification
  outcome,          \* what the last enqueue told its caller
  offered,          \* history: enqueue operations started, and external drops
  inserted,         \* history: items put into the queue
  insertedMemory,   \* history: the memory of all of them
  delivered,        \* history: items handed to a consumer
  lastDelivered,    \* history: insertion number of the latest delivery
  reported,         \* history: losses consumers have been told of
  controls          \* history: control operations so far

contents == <<elements, size, used>>
limits   == <<capacity, memory>>
waiting  == <<notFullWaiters, notEmptyWaiters, op, pending, expired>>
history  == <<offered, inserted, insertedMemory, delivered, lastDelivered, reported, controls>>
vars     == <<contents, limits, elementsDropped, waiting, outcome, history>>

Outcomes == {"none", "stored", "refused", "expired"}

(***************************************************************************)
(* An item is the memory it uses, its insertion number and the memory of   *)
(* everything inserted up to and including it.  The last two are history:  *)
(* seq says which item this is, and upTo gives the memory of a stretch of  *)
(* the queue as the difference of its ends.                                *)
(***************************************************************************)
Item(n, total, m) == [seq |-> n, mem |-> m, upTo |-> total + m]

MemoryOfFirst(s, n) ==
  IF n = 0 THEN 0 ELSE s[n].upTo - (s[1].upTo - s[1].mem)

isFull == size >= capacity \/ used >= memory

(***************************************************************************)
(* notify_one: one thread waiting on the condition, if any, is woken.      *)
(***************************************************************************)
NotifyNotEmpty ==
  IF notEmptyWaiters = {}
  THEN UNCHANGED notEmptyWaiters
  ELSE \E c \in notEmptyWaiters : notEmptyWaiters' = notEmptyWaiters \ {c}

NotifyNotFull ==
  IF notFullWaiters = {}
  THEN UNCHANGED notFullWaiters
  ELSE \E p \in notFullWaiters : notFullWaiters' = notFullWaiters \ {p}

-----------------------------------------------------------------------------
(* Insertion *)

\* Faulty variants of the operations (here and below, named ...Bug): each is what
\* a property of a run is there to catch.  Here: the consumer is only woken when the queue was empty.
doInsertNotifyIfEmptyBug(n, m) ==
  /\ elements' = Append(SubSeq(elements, n + 1, Len(elements)),
                        Item(inserted + 1, insertedMemory, m))
  /\ size' = (size - n) + 1
  /\ used' = (used - MemoryOfFirst(elements, n)) + m
  /\ inserted' = inserted + 1
  /\ insertedMemory' = insertedMemory + m
  /\ IF elements = <<>> THEN NotifyNotEmpty ELSE UNCHANGED notEmptyWaiters

\* doInsert, after the first n elements have been evicted.
doInsert(n, m) ==
  /\ elements' = Append(SubSeq(elements, n + 1, Len(elements)),
                        Item(inserted + 1, insertedMemory, m))
  /\ size' = (size - n) + 1
  /\ used' = (used - MemoryOfFirst(elements, n)) + m
  /\ inserted' = inserted + 1
  /\ insertedMemory' = insertedMemory + m
  /\ NotifyNotEmpty

Drop(n) == elementsDropped' = elementsDropped + n

\* KeepNewest evicts heads while the new item does not fit, as long as there are any.
StillTooFull(n, m) ==
  \/ size - n = capacity
  \/ (used - MemoryOfFirst(elements, n)) + m > memory

Evicts(n, m) ==
  /\ \A k \in 0 .. n - 1 : StillTooFull(k, m)
  /\ n = Len(elements) \/ ~StillTooFull(n, m)

FitsBug(n, m) == size - n < capacity

Fits(n, m) ==
  /\ size - n < capacity
  /\ (used - MemoryOfFirst(elements, n)) + m <= memory

\* doEnq of the three policies.
doEnqFailIfFull(p, m) ==
  IF size >= capacity \/ used + m > memory
  THEN /\ Drop(1)
       /\ outcome' = [outcome EXCEPT ![p] = "refused"]
       /\ UNCHANGED <<contents, inserted, insertedMemory, notEmptyWaiters>>
  ELSE /\ doInsert(0, m)
       /\ outcome' = [outcome EXCEPT ![p] = "stored"]
       /\ UNCHANGED elementsDropped

doEnqKeepNewestBug(p, m) ==
  \E n \in 0 .. Len(elements) :
    /\ Evicts(n, m)
    /\ IF Fits(n, m)
       THEN /\ doInsert(n, m)
            /\ UNCHANGED elementsDropped  \* the evicted items are forgotten
            /\ outcome' = [outcome EXCEPT ![p] = "stored"]
       ELSE /\ elements' = SubSeq(elements, n + 1, Len(elements))
            /\ size' = size - n
            /\ used' = used - MemoryOfFirst(elements, n)
            /\ Drop(n + 1)
            /\ outcome' = [outcome EXCEPT ![p] = "refused"]
            /\ UNCHANGED <<inserted, insertedMemory, notEmptyWaiters>>

doEnqKeepNewest(p, m) ==
  \E n \in 0 .. Len(elements) :
    /\ Evicts(n, m)
    /\ IF Fits(n, m)
       THEN /\ doInsert(n, m)
            /\ Drop(n)
            /\ outcome' = [outcome EXCEPT ![p] = "stored"]
       ELSE /\ elements' = SubSeq(elements, n + 1, Len(elements))
            /\ size' = size - n
            /\ used' = used - MemoryOfFirst(elements, n)
            /\ Drop(n + 1)
            /\ outcome' = [outcome EXCEPT ![p] = "refused"]
            /\ UNCHANGED <<inserted, insertedMemory, notEmptyWaiters>>

doEnqRejectNewest(p, m) ==
  IF Fits(0, m)
  THEN /\ doInsert(0, m)
       /\ outcome' = [outcome EXCEPT ![p] = "stored"]
       /\ UNCHANGED elementsDropped
  ELSE /\ Drop(1)
       /\ outcome' = [outcome EXCEPT ![p] = "refused"]
       /\ UNCHANGED <<contents, inserted, insertedMemory, notEmptyWaiters>>

doEnq(p, m) ==
  \/ Policy = "FailIfFull"   /\ doEnqFailIfFull(p, m)
  \/ Policy = "KeepNewest"   /\ doEnqKeepNewest(p, m)
  \/ Policy = "RejectNewest" /\ doEnqRejectNewest(p, m)

Offer(t, operation) ==
  /\ operation \in Operations
  /\ op[t] = "none"
  /\ offered < MaxOffers
  /\ offered' = offered + 1

enqNowait(p, m) ==
  /\ Offer(p, "enqNowait")
  /\ doEnq(p, m)
  /\ UNCHANGED <<limits, notFullWaiters, op, pending, expired,
                 delivered, lastDelivered, reported, controls>>

\* Release the mutex and wait on queueNotFull_ with the item still in hand.
WaitNotFull(p, operation, m) ==
  /\ notFullWaiters' = notFullWaiters \cup {p}
  /\ op' = [op EXCEPT ![p] = operation]
  /\ pending' = [pending EXCEPT ![p] = m]
  /\ expired' = expired \ {p}
  /\ outcome' = [outcome EXCEPT ![p] = "none"]
  /\ UNCHANGED <<contents, elementsDropped, inserted, insertedMemory, notEmptyWaiters>>

\* The blocked operation returns to its caller.
Return(t) ==
  /\ op' = [op EXCEPT ![t] = "none"]
  /\ pending' = [pending EXCEPT ![t] = 0]
  /\ expired' = expired \ {t}

Store(p, m) ==
  /\ doInsert(0, m)
  /\ outcome' = [outcome EXCEPT ![p] = "stored"]
  /\ UNCHANGED <<elementsDropped, notFullWaiters>>

enqWait(p, m) ==
  /\ Offer(p, "enqWait")
  /\ \/ isFull  /\ WaitNotFull(p, "enqWait", m)
     \/ ~isFull /\ Store(p, m) /\ UNCHANGED <<op, pending, expired>>
  /\ UNCHANGED <<limits, delivered, lastDelivered, reported, controls>>

\* The while loop around queueNotFull_.wait: a woken producer looks again.
enqWaitResume(p) ==
  /\ op[p] = "enqWait" /\ p \notin notFullWaiters
  /\ \/ isFull  /\ WaitNotFull(p, "enqWait", pending[p])
     \/ ~isFull /\ Store(p, pending[p]) /\ Return(p)
  /\ UNCHANGED <<limits, offered, delivered, lastDelivered, reported, controls>>

enqTimedWait(p, m) ==
  /\ Offer(p, "enqTimedWait")
  /\ \/ isFull  /\ WaitNotFull(p, "enqTimedWait", m)
     \/ ~isFull /\ Store(p, m) /\ UNCHANGED <<op, pending, expired>>
  /\ UNCHANGED <<limits, delivered, lastDelivered, reported, controls>>

\* insertIfPossible after the one timed_wait, whatever ended it.
enqTimedWaitResume(p) ==
  /\ op[p] = "enqTimedWait" /\ p \notin notFullWaiters
  /\ Return(p)
  /\ \/ /\ isFull
        /\ Drop(1)
        /\ outcome' = [outcome EXCEPT ![p] = IF p \in expired THEN "expired" ELSE "refused"]
        /\ UNCHANGED <<contents, inserted, insertedMemory, notFullWaiters, notEmptyWaiters>>
     \/ ~isFull /\ Store(p, pending[p])
  /\ UNCHANGED <<limits, offered, delivered, lastDelivered, reported, controls>>

-----------------------------------------------------------------------------
(* Removal *)

\* A producer is only told when the queue was full.
removeHeadNotifyIfFullBug ==
  /\ elements' = Tail(elements)
  /\ size' = size - 1
  /\ used' = used - Head(elements).mem
  /\ delivered' = delivered + 1
  /\ lastDelivered' = Head(elements).seq
  /\ UNCHANGED <<elementsDropped, reported>>
  /\ IF isFull THEN NotifyNotFull ELSE UNCHANGED notFullWaiters

\* The losses are reported but not reset, the memory not given back.
removeHeadKeepsCountsBug ==
  /\ elements' = Tail(elements)
  /\ size' = size - 1
  /\ UNCHANGED <<used, elementsDropped>>
  /\ delivered' = delivered + 1
  /\ lastDelivered' = Head(elements).seq
  /\ reported' = reported + elementsDropped
  /\ NotifyNotFull

\* removeHead; the pair ValueType of KeepNewest and RejectNewest carries the
\* losses since the previous removal and resets their count.
removeHead ==
  /\ elements' = Tail(elements)
  /\ size' = size - 1
  /\ used' = used - Head(elements).mem
  /\ delivered' = delivered + 1
  /\ lastDelivered' = Head(elements).seq
  /\ IF Policy = "FailIfFull"
     THEN UNCHANGED <<elementsDropped, reported>>
     ELSE elementsDropped' = 0 /\ reported' = reported + elementsDropped
  /\ NotifyNotFull

WaitNotEmpty(c, operation) ==
  /\ notEmptyWaiters' = notEmptyWaiters \cup {c}
  /\ op' = [op EXCEPT ![c] = operation]
  /\ expired' = expired \ {c}
  /\ UNCHANGED <<contents, elementsDropped, notFullWaiters, delivered, lastDelivered, reported>>

NothingRemoved ==
  UNCHANGED <<contents, elementsDropped, notFullWaiters, delivered, lastDelivered, reported>>

Idle(c, operation) == operation \in Operations /\ op[c] = "none"

deqNowait(c) ==
  /\ Idle(c, "deqNowait")
  /\ \/ size = 0 /\ NothingRemoved
     \/ size # 0 /\ removeHead
  /\ UNCHANGED <<limits, notEmptyWaiters, op, pending, expired, outcome,
                 offered, inserted, insertedMemory, controls>>

deqWait(c) ==
  /\ Idle(c, "deqWait")
  /\ \/ size = 0 /\ WaitNotEmpty(c, "deqWait")
     \/ size # 0 /\ removeHead /\ UNCHANGED <<notEmptyWaiters, op, expired>>
  /\ UNCHANGED <<limits, pending, outcome, offered, inserted, insertedMemory, controls>>

deqWaitResume(c) ==
  /\ op[c] = "deqWait" /\ c \notin notEmptyWaiters
  /\ \/ size = 0 /\ WaitNotEmpty(c, "deqWait") /\ UNCHANGED pending
     \/ size # 0 /\ removeHead /\ Return(c) /\ UNCHANGED notEmptyWaiters
  /\ UNCHANGED <<limits, outcome, offered, inserted, insertedMemory, controls>>

deqTimedWait(c) ==
  /\ Idle(c, "deqTimedWait")
  /\ \/ size = 0 /\ WaitNotEmpty(c, "deqTimedWait")
     \/ size # 0 /\ removeHead /\ UNCHANGED <<notEmptyWaiters, op, expired>>
  /\ UNCHANGED <<limits, pending, outcome, offered, inserted, insertedMemory, controls>>

deqTimedWaitResume(c) ==
  /\ op[c] = "deqTimedWait" /\ c \notin notEmptyWaiters
  /\ Return(c)
  /\ \/ size = 0 /\ NothingRemoved
     \/ size # 0 /\ removeHead
  /\ UNCHANGED <<limits, notEmptyWaiters, outcome, offered, inserted, insertedMemory, controls>>

-----------------------------------------------------------------------------
(* Waits that end without a notification, and the control operations *)

TimedOperations == {"enqTimedWait", "deqTimedWait"}
BlockingOperations == TimedOperations \cup {"enqWait", "deqWait"}

\* The duration of a timed wait passes, or the condition wakes spuriously.
WakeUnnotified(t) ==
  /\ t \in notFullWaiters \cup notEmptyWaiters
  /\ notFullWaiters' = notFullWaiters \ {t}
  /\ notEmptyWaiters' = notEmptyWaiters \ {t}
  /\ expired' = expired \cup {t}
  /\ UNCHANGED <<contents, limits, elementsDropped, op, pending, outcome, history>>

Control(operation) ==
  /\ operation \in Operations
  /\ controls < MaxControls
  /\ controls' = controls + 1

\* clear() counts what it removes as dropped and notifies nobody.
clear ==
  /\ Control("clear")
  /\ elements' = <<>>
  /\ size' = 0
  /\ used' = 0
  /\ Drop(size)
  /\ UNCHANGED <<limits, waiting, outcome, offered, inserted, insertedMemory,
                 delivered, lastDelivered, reported>>

setCapacity(n) ==
  /\ Control("setCapacity")
  /\ capacity' = IF size = 0 THEN n ELSE capacity
  /\ UNCHANGED <<contents, memory, elementsDropped, waiting, outcome,
                 offered, inserted, insertedMemory,
                 delivered, lastDelivered, reported>>

setMemory(n) ==
  /\ Control("setMemory")
  /\ memory' = IF size = 0 THEN n ELSE memory
  /\ UNCHANGED <<contents, capacity, elementsDropped, waiting, outcome,
                 offered, inserted, insertedMemory,
                 delivered, lastDelivered, reported>>

\* Events an ExpirableQueue refuses for being stale are charged to its queue.
addExternallyDroppedEvents(n) ==
  /\ Control("addExternallyDroppedEvents")
  /\ Drop(n)
  /\ offered' = offered + n
  /\ UNCHANGED <<contents, limits, waiting, outcome, inserted, insertedMemory,
                 delivered, lastDelivered, reported>>

-----------------------------------------------------------------------------
Threads == Producers \cup Consumers

Init ==
  /\ elements = <<>> /\ size = 0 /\ used = 0
  /\ capacity \in Capacities
  /\ memory \in Memories
  /\ elementsDropped = 0
  /\ notFullWaiters = {} /\ notEmptyWaiters = {}
  /\ op = [t \in Threads |-> "none"]
  /\ pending = [t \in Threads |-> 0]
  /\ expired = {}
  /\ outcome = [p \in Producers |-> "none"]
  /\ offered = 0 /\ inserted = 0 /\ insertedMemory = 0
  /\ delivered = 0 /\ lastDelivered = 0 /\ reported = 0
  /\ controls = 0

Produce(p) ==
  \/ \E m \in Sizes : enqNowait(p, m) \/ enqWait(p, m) \/ enqTimedWait(p, m)
  \/ enqWaitResume(p)
  \/ enqTimedWaitResume(p)

Consume(c) ==
  \/ deqNowait(c) \/ deqWait(c) \/ deqTimedWait(c)
  \/ deqWaitResume(c)
  \/ deqTimedWaitResume(c)

Reconfigure ==
  \/ clear
  \/ \E n \in Capacities : setCapacity(n)
  \/ \E n \in Memories : setMemory(n)
  \/ \E n \in {1} : addExternallyDroppedEvents(n)

Next ==
  \/ \E p \in Producers : Produce(p)
  \/ \E c \in Consumers : Consume(c)
  \/ \E t \in Threads : WakeUnnotified(t)
  \/ Reconfigure

Spec == Init /\ [][Next]_vars

(***************************************************************************)
(* A woken thread gets the mutex, a timed wait ends, and a consumer keeps  *)
(* calling deqTimedWait: FragmentProcessor and DiskWriter do so for ever   *)
(* (their work loop action returns true).  Nothing obliges a producer to   *)
(* offer, a spurious wake-up to happen, or a notified thread to be the one *)
(* that has waited longest.                                                *)
(***************************************************************************)
Fairness ==
  /\ \A p \in Producers : WF_vars(enqWaitResume(p)) /\ WF_vars(enqTimedWaitResume(p))
  /\ \A c \in Consumers :
       /\ WF_vars(deqNowait(c) \/ deqWait(c) \/ deqTimedWait(c))
       /\ WF_vars(deqWaitResume(c) \/ deqTimedWaitResume(c))
  /\ \A t \in Threads : WF_vars(op[t] \in TimedOperations /\ WakeUnnotified(t))

FairSpec == Spec /\ Fairness

-----------------------------------------------------------------------------
Items == [seq : Nat, mem : Sizes, upTo : Nat]

\* The values the variables range over.
TypeOK ==
  /\ elements \in Seq(Items)
  /\ size \in Nat /\ used \in Nat
  /\ capacity \in Capacities /\ memory \in Memories
  /\ elementsDropped \in Nat
  /\ notFullWaiters \subseteq Producers /\ notEmptyWaiters \subseteq Consumers
  /\ op \in [Threads -> BlockingOperations \cup {"none"}]
  /\ \A p \in Producers : op[p] \in {"none", "enqWait", "enqTimedWait"}
  /\ \A c \in Consumers : op[c] \in {"none", "deqWait", "deqTimedWait"}
  /\ \A t \in notFullWaiters \cup notEmptyWaiters : op[t] # "none"
  /\ pending \in [Threads -> Sizes \cup {0}]
  /\ \A p \in Producers : op[p] # "none" => pending[p] \in Sizes
  /\ expired \subseteq Threads
  /\ outcome \in [Producers -> Outcomes]
  /\ offered \in Nat /\ inserted \in Nat /\ insertedMemory \in Nat
  /\ delivered \in Nat /\ lastDelivered \in Nat /\ reported \in Nat
  /\ controls \in Nat

\* Producers inside a blocking enqueue: their item is neither stored nor dropped yet.
Blocked == {p \in Producers : op[p] # "none"}

\* Threads that have been woken and have yet to get the mutex.
Woken(threads) == {t \in threads : op[t] # "none"} \ (notFullWaiters \cup notEmptyWaiters)

(***************************************************************************)
(* size_ and used_ are kept apart from the list (empty() and size() read   *)
(* them without the lock): they always are its length and its memory, so   *)
(* that the unsigned subtractions of removeHead and doEnq never wrap.      *)
(***************************************************************************)
CountersMatchContents ==
  /\ size = Len(elements)
  /\ used = MemoryOfFirst(elements, Len(elements))
  /\ \A i \in 1 .. Len(elements) : elements[i].mem <= elements[i].upTo
  /\ \A i \in 1 .. Len(elements) :
       i > 1 => elements[i].upTo = elements[i - 1].upTo + elements[i].mem
  /\ \A i, j \in 1 .. Len(elements) : i <= j => elements[i].upTo <= elements[j].upTo
  /\ elements # <<>> => elements[Len(elements)].upTo = insertedMemory

(***************************************************************************)
(* FIFO: the queue holds exactly the latest insertions, in their order,    *)
(* and everything already handed out is older.  Eviction, clear and woken  *)
(* producers overtaking each other never reorder or lose an item in the    *)
(* middle.                                                                 *)
(***************************************************************************)
FifoOrder ==
  /\ \A i \in 1 .. Len(elements) : elements[i].seq = (inserted - Len(elements)) + i
  /\ lastDelivered <= inserted - Len(elements)

(***************************************************************************)
(* No item goes unaccounted: each one offered is stored, was delivered, is *)
(* held by a blocked producer, or has been counted as dropped exactly      *)
(* once, in what consumers were told or in what the next one will be told. *)
(***************************************************************************)
EveryItemAccountedFor ==
  offered = ((delivered + size) + (reported + elementsDropped)) + Cardinality(Blocked)

(***************************************************************************)
(* The bounds an enqueue observes: the capacity always; the memory limit   *)
(* exactly by enqNowait, and up to one item by the blocking enqueues,      *)
(* which ask isFull and not whether the item fits.                         *)
(***************************************************************************)
WithinLimits ==
  /\ size <= capacity
  /\ elements # <<>> => used - elements[Len(elements)].mem <= memory
  /\ Operations \cap {"enqWait", "enqTimedWait"} = {} => used <= memory

(***************************************************************************)
(* The books of the list are right and within the limits, whatever order   *)
(* evictions, blocking enqueues and changes of the limits come in.         *)
(***************************************************************************)
ContentsStayInBounds == CountersMatchContents /\ WithinLimits

(***************************************************************************)
(* A producer never waits for the removal of an item when there is no item *)
(* left to remove, unless another woken producer is about to add one.      *)
(* notify_one only wakes one waiter per removed item, although removing a  *)
(* large item makes room for several small ones.  This is the case for the *)
(* uses that never empty the queue behind the waiters' back: no clear(),   *)
(* no eviction by enqNowait, no limit of zero.                             *)
(***************************************************************************)
NeverEmptiedUnnotified ==
  /\ "clear" \notin Operations
  /\ "enqNowait" \in Operations => Policy = "FailIfFull"
  /\ 0 \notin Capacities /\ 0 \notin Memories

NoStrandedProducer ==
  notFullWaiters # {} => elements # <<>> \/ Woken(Producers) # {}

(***************************************************************************)
(* Items do not lie in the queue while every consumer sleeps: as long as   *)
(* some consumer waits, there are as many woken ones as items.             *)
(***************************************************************************)
EnoughConsumersAwake ==
  notEmptyWaiters # {} => Cardinality(Woken(Consumers)) >= size

(***************************************************************************)
(* To its users a queue is a FIFO that may lose items but never silently.  *)
(***************************************************************************)
Fifo == INSTANCE LossyFifo WITH
          content  <- [i \in 1 .. Len(elements) |-> elements[i].seq],
          accepted <- inserted,
          lost     <- elementsDropped,
          reported <- reported,
          latest   <- lastDelivered,
          Reports  <- Policy # "FailIfFull"

ImplementsLossyFifo == Fifo!Spec

\* "wait until it becomes non-full" (enqWait): every blocked enqueue returns.
EnqWaitReturns == \A p \in Producers : op[p] # "none" ~> op[p] = "none"
=============================================================================
