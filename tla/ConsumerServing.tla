-------------------------- MODULE ConsumerServing --------------------------
(***************************************************************************)
(* How event consumers register with the storage manager and are served.   *)
(*                                                                         *)
(* A consumer is a remote client that asks over HTTP, one request at a     *)
(* time.  Every request runs in a thread of the HTTP server, through       *)
(* ConsumerUtils; the FragmentProcessor thread starts and ends the runs,   *)
(* registers the new consumers with the EventDistributor and fills their   *)
(* queues.  The two sides share the RegistrationCollection, the            *)
(* QueueCollection and the registration queue, each with locks of its own, *)
(* so a request is a sequence of steps that the other side can come        *)
(* between.                                                                *)
(***************************************************************************)
EXTENDS Naturals, Sequences, FiniteSets

CONSTANTS
  Clients,               \* the remote consumers
  Labels,                \* the output modules of the high-level trigger
  TriggerBits,           \* what the HLT can say of an event
  Infos,                 \* the registrations a client may ask for
  Selects(_, _),         \* does this selection want these trigger bits
  RegistrationQueueSize, \* room in the registration queue
  MaxRuns,               \* bound: runs that begin
  MaxEvents,             \* bound: events that arrive in all
  MaxConsumers,          \* bound: consumer identifiers given out
  MaxLostReplies         \* bound: registration replies that get lost

ASSUME BoundsAssumption ==
  /\ RegistrationQueueSize \in Nat \ {0}
  /\ MaxRuns \in Nat /\ MaxEvents \in Nat
  /\ MaxConsumers \in Nat /\ MaxLostReplies \in Nat

Policies == {"DiscardNew", "DiscardOld"}
ASSUME InfosAssumption ==
  \A i \in Infos : /\ i.label \in Labels /\ i.policy \in Policies \cup {"Max"}
                   /\ i.size \in Nat \ {0} /\ i.prescale \in Nat \ {0}
                   /\ i.unique \in BOOLEAN

VARIABLES
  wants,              \* the registration each client asks for
  http,               \* the request of each client: how far its handler got
  client,             \* what each client knows: its phase and consumer id
  fp,                 \* where the FragmentProcessor is in a run
  run,                \* the runs begun so far
  left,               \* how many runs, consumer ids, events and lost replies may still come
  registrationAllowed, nextConsumerId, consumers,  \* RegistrationCollection
  registrationQueue,  \* registrations the FragmentProcessor has to pick up
  selectors,          \* EventDistributor: the eventConsumerSelectors_
  initMsgs,           \* labels of the INIT messages of this run
  queues,             \* QueueCollection: the queues of each policy
  queueIdLookup,      \* consumer id -> queue id
  queueReginfoLookup, \* registration -> queue id, for those that share
  events,             \* the events distributed, with the count in their header
  served,             \* history: <<consumer id, event>> pairs handed out
  newlyShared,        \* history: what has a queue in queueReginfoLookup since the last removal
  outlived            \* history: did the id of a queue outlive it (see removeQueues)

vars == <<wants, http, client, fp, run, left, registrationAllowed, nextConsumerId,
          consumers, registrationQueue, selectors, initMsgs, queues, queueIdLookup,
          queueReginfoLookup, events, served, newlyShared, outlived>>
clientVars == <<wants, left>>
registrationVars == <<registrationAllowed, nextConsumerId, consumers>>
lookupVars == <<queueIdLookup, queueReginfoLookup, newlyShared, outlived>>

-----------------------------------------------------------------------------
(* Queue identifiers.  QueueID() is the invalid one. *)
NoQueue == [policy |-> "Max", index |-> 0]
QueueIDs == [policy : Policies, index : Nat \ {0}]
IsQueue(id) == id.policy \in Policies /\ id.index \in DOMAIN queues[id.policy]

\* The order of queue ids, in which the distributor visits the selectors.
Before(a, b) ==
  \/ a.policy = "DiscardNew" /\ b.policy = "DiscardOld"
  \/ a.policy = b.policy /\ a.index < b.index

(* A queue, and what it remembers of its past: for whom it was made, how   *)
(* many events were sent to it and popped from it, and how many losses     *)
(* were handed out with an event.                                          *)
NewQueue(info) ==
  [items |-> <<>>, dropped |-> 0, stale |-> FALSE, size |-> info.size,
   info |-> info, tagged |-> 0, popped |-> 0, handed |-> 0]

\* Faulty variants of an operation (here and below, named ...Bug): each is what a
\* property is there to catch.  Here: cleared events are not counted as losses.
ClearedBug(q) == [q EXCEPT !.items = <<>>]

\* ConcurrentQueue::clear: what is in the queue counts as dropped.
Cleared(q) == [q EXCEPT !.items = <<>>, !.dropped = @ + Len(q.items)]

\* ExpirableQueue::enqNowait and the policies of ConcurrentQueue.
Enqueued(policy, q, n) ==
  LET t == [q EXCEPT !.tagged = @ + 1]
  IN IF q.stale \/ (policy = "DiscardNew" /\ Len(q.items) = q.size)
     THEN [t EXCEPT !.dropped = @ + 1]
     ELSE IF Len(q.items) = q.size
     THEN [t EXCEPT !.items = Append(Tail(@), n), !.dropped = @ + 1]
     ELSE [t EXCEPT !.items = Append(@, n)]

AllQueues(Op(_)) == [p \in Policies |-> [i \in DOMAIN queues[p] |-> Op(queues[p][i])]]

Idle == [at |-> "idle", id |-> 0, queue |-> NoQueue, event |-> 0, losses |-> 0]
Unregistered == [phase |-> "unregistered", id |-> 0]

InitWith(registrations, budget) ==
  /\ wants = registrations /\ left = budget
  /\ http = [c \in Clients |-> Idle] /\ client = [c \in Clients |-> Unregistered]
  /\ fp = "stopped" /\ run = 0
  /\ registrationAllowed = FALSE /\ nextConsumerId = 0 /\ consumers = <<>>
  /\ registrationQueue = <<>> /\ selectors = <<>> /\ initMsgs = {}
  /\ queues = [p \in Policies |-> <<>>]
  /\ queueIdLookup = <<>> /\ queueReginfoLookup = <<>>
  /\ events = <<>> /\ served = {} /\ newlyShared = {} /\ outlived = FALSE

Budgets == [runs : 0 .. MaxRuns, consumers : 0 .. MaxConsumers, events : 0 .. MaxEvents,
            lostReplies : 0 .. MaxLostReplies]
Init == \E registrations \in [Clients -> Infos], budget \in Budgets : InitWith(registrations, budget)

-----------------------------------------------------------------------------
(* Requests.  A client has one request at a time: the next one begins when *)
(* the reply to the last one is there.                                     *)

Reply(c) == http' = [http EXCEPT ![c] = Idle]
Proceed(c, at) == http' = [http EXCEPT ![c].at = at]
Registered(c) == client' = [client EXCEPT ![c] = [phase |-> "registered", id |-> http[c].id]]

\* createEventConsumerRegistrationInfo: an id, if consumers may register now.
getConsumerId(c) ==
  /\ http[c].at = "idle" /\ client[c].phase = "unregistered"
  /\ registrationAllowed /\ left.consumers > 0
  /\ left' = [left EXCEPT !.consumers = @ - 1]
  /\ nextConsumerId' = nextConsumerId + 1
  /\ http' = [http EXCEPT ![c] = [Idle EXCEPT !.at = "createQueue", !.id = nextConsumerId']]
  /\ UNCHANGED <<wants, client, fp, run, registrationAllowed, consumers, registrationQueue,
                 selectors, initMsgs, queues, lookupVars, events, served>>

SharesQueueBug(info) == FALSE

\* The queue a consumer gets: that of an equal registration for unique
\* events, else one of its own.
SharesQueue(info) == info.unique /\ info \in DOMAIN queueReginfoLookup

QueueIdFor(info) ==
  IF SharesQueue(info) THEN queueReginfoLookup[info]
  ELSE IF info.policy = "Max" THEN NoQueue
  ELSE [policy |-> info.policy, index |-> Len(queues[info.policy]) + 1]

Put(f, x, y) == [z \in DOMAIN f \cup {x} |-> IF z = x THEN y ELSE f[z]]

createQueue(c) ==
  LET info == wants[c]
      id == QueueIdFor(info)
  IN /\ http[c].at = "createQueue"
     /\ queueIdLookup' = Put(queueIdLookup, http[c].id, id)
     /\ queueReginfoLookup' = Put(queueReginfoLookup, info, id)
     /\ newlyShared' = newlyShared \cup {info}
     /\ outlived' = (outlived \/ (SharesQueue(info) /\ info \notin newlyShared))
     /\ queues' = IF SharesQueue(info) \/ id = NoQueue THEN queues
                  ELSE [queues EXCEPT ![info.policy] = Append(@, NewQueue(info))]
     /\ IF id = NoQueue THEN Reply(c)
        ELSE http' = [http EXCEPT ![c].at = "addRegistration", ![c].queue = id]
     /\ UNCHANGED <<clientVars, client, fp, run, registrationVars, registrationQueue, selectors,
                    initMsgs, events, served>>

addRegistrationInfo(c) ==
  /\ http[c].at = "addRegistration"
  /\ IF registrationAllowed
     THEN /\ consumers' = Put(consumers, http[c].id, [info |-> wants[c], queue |-> http[c].queue,
                                                      run |-> run])
          /\ Proceed(c, "enqueue")
     ELSE Reply(c) /\ UNCHANGED consumers
  /\ UNCHANGED <<clientVars, client, fp, run, registrationAllowed, nextConsumerId,
                 registrationQueue, selectors, initMsgs, queues, lookupVars, events, served>>

\* The registration is handed to the FragmentProcessor and the reply written;
\* the client may never see it, and then asks again.
enqueueRegistration(c) ==
  /\ http[c].at = "enqueue" /\ Len(registrationQueue) < RegistrationQueueSize
  /\ registrationQueue' = Append(registrationQueue, [info |-> wants[c], queue |-> http[c].queue])
  /\ Reply(c)
  /\ \/ Registered(c) /\ UNCHANGED left
     \/ /\ left.lostReplies > 0
        /\ left' = [left EXCEPT !.lostReplies = @ - 1] /\ UNCHANGED client
  /\ UNCHANGED <<wants, fp, run, registrationVars, selectors, initMsgs, queues,
                 lookupVars, events, served>>

\* No room for 5 seconds: the client is told to come back.
registrationTimesOut(c) ==
  /\ http[c].at = "enqueue" /\ Len(registrationQueue) = RegistrationQueueSize
  /\ Reply(c)
  /\ UNCHANGED <<clientVars, client, fp, run, registrationVars, registrationQueue, selectors,
                 initMsgs, queues, lookupVars, events, served>>

\* InitMsgCollection::getElementForOutputModuleLabel finds a message.
HasInit(label) == label \in initMsgs

\* The client waits for the INIT message of its output module.
processConsumerHeaderRequest(c) ==
  /\ http[c].at = "idle" /\ client[c].phase = "registered"
  /\ client[c].id \in DOMAIN consumers /\ HasInit(wants[c].label)
  /\ client' = [client EXCEPT ![c].phase = "reading"]
  /\ UNCHANGED <<clientVars, http, fp, run, registrationVars, registrationQueue, selectors,
                 initMsgs, queues, lookupVars, events, served>>

\* A consumer whose registration is gone, or that asks after the end of the
\* run, is told so; it then registers anew.
processConsumerEventRequest(c) ==
  /\ http[c].at = "idle" /\ client[c].phase = "reading"
  /\ IF client[c].id \in DOMAIN consumers /\ registrationAllowed
     THEN /\ http' = [http EXCEPT ![c] = [Idle EXCEPT !.at = "lookup", !.id = client[c].id]]
          /\ UNCHANGED client
     ELSE client' = [client EXCEPT ![c] = Unregistered] /\ UNCHANGED http
  /\ UNCHANGED <<clientVars, fp, run, registrationVars, registrationQueue, selectors, initMsgs,
                 queues, lookupVars, events, served>>

lookupQueue(c) ==
  /\ http[c].at = "lookup"
  /\ IF http[c].id \in DOMAIN queueIdLookup
     THEN http' = [http EXCEPT ![c].at = "pop", ![c].queue = queueIdLookup[http[c].id]]
     ELSE Reply(c)
  /\ UNCHANGED <<clientVars, client, fp, run, registrationVars, registrationQueue, selectors,
                 initMsgs, queues, lookupVars, events, served>>

\* A request for an event keeps the queue from going stale, also when there
\* is no event; a queue id that is not known any more raises UnknownQueueId.
popEvent(c) ==
  LET id == http[c].queue
      q == queues[id.policy][id.index]
      fresh == [q EXCEPT !.stale = FALSE]
  IN /\ http[c].at = "pop"
     /\ IF ~IsQueue(id) THEN Reply(c) /\ UNCHANGED <<queues, served>>
        ELSE IF q.items = <<>>
        THEN /\ queues' = [queues EXCEPT ![id.policy][id.index] = fresh]
             /\ Reply(c) /\ UNCHANGED served
        ELSE /\ queues' = [queues EXCEPT ![id.policy][id.index] =
                             [fresh EXCEPT !.items = Tail(@), !.dropped = 0, !.popped = @ + 1,
                                           !.handed = @ + q.dropped]]
             /\ http' = [http EXCEPT ![c].at = "set", ![c].event = Head(q.items),
                                     ![c].losses = q.dropped]
             /\ served' = served \cup {<<http[c].id, Head(q.items)>>}
     /\ UNCHANGED <<clientVars, client, fp, run, registrationVars, registrationQueue, selectors,
                    initMsgs, lookupVars, events>>

\* The count goes into the header of the event, which all the queues that hold
\* the event share.  It is added to the count the event arrived with, which was
\* cached when its header was first read, so it does not add up over consumers.
setDroppedEventsCount(c) ==
  /\ http[c].at = "set" /\ Proceed(c, "write")
  /\ events' = [events EXCEPT ![http[c].event].droppedEventsCount = http[c].losses]
  /\ UNCHANGED <<clientVars, client, fp, run, registrationVars, registrationQueue, selectors,
                 initMsgs, queues, lookupVars, served>>

\* The event is written with the count its header has by now.
writeConsumerEvent(c) ==
  /\ http[c].at = "write" /\ Reply(c)
  /\ UNCHANGED <<clientVars, client, fp, run, registrationVars, registrationQueue, selectors,
                 initMsgs, queues, lookupVars, events, served>>

HttpHandler(c) ==
  \/ getConsumerId(c) \/ createQueue(c) \/ addRegistrationInfo(c)
  \/ enqueueRegistration(c) \/ registrationTimesOut(c)
  \/ processConsumerHeaderRequest(c) \/ processConsumerEventRequest(c)
  \/ lookupQueue(c) \/ popEvent(c)
  \/ setDroppedEventsCount(c) \/ writeConsumerEvent(c)
-----------------------------------------------------------------------------
(* The FragmentProcessor.  Entry into Running, step by step.               *)

\* The selectors of the last run stay.
beginRunBug ==
  /\ fp = "stopped" /\ left.runs > 0
  /\ left' = [left EXCEPT !.runs = @ - 1] /\ fp' = "removing"
  /\ initMsgs' = {} /\ consumers' = <<>>
  /\ UNCHANGED <<wants, http, client, run, registrationAllowed, nextConsumerId, selectors,
                 registrationQueue, queues, lookupVars, events, served>>

beginRun ==
  /\ fp = "stopped" /\ left.runs > 0
  /\ left' = [left EXCEPT !.runs = @ - 1] /\ fp' = "removing"
  /\ initMsgs' = {} /\ consumers' = <<>> /\ selectors' = <<>>
  /\ UNCHANGED <<wants, http, client, run, registrationAllowed, nextConsumerId,
                 registrationQueue, queues, lookupVars, events, served>>

(* QueueCollection::removeQueues forgets the queues and which consumer has *)
(* which; the registrations stay in the other look-up, and a registration  *)
(* that is under way or was not picked up keeps its queue id.  Either way  *)
(* the id of a queue that is gone may come into the next run, where it     *)
(* names no queue or that of somebody else: "outlived" tells.              *)
BetweenQueueAndSelector ==
  (\E c \in Clients : http[c].at \in {"addRegistration", "enqueue"}) \/ registrationQueue # <<>>

removeQueues ==
  /\ fp = "removing" /\ fp' = "enabling"
  /\ queues' = [p \in Policies |-> <<>>] /\ queueIdLookup' = <<>>
  /\ newlyShared' = {} /\ outlived' = BetweenQueueAndSelector
  /\ UNCHANGED <<clientVars, http, client, run, registrationVars, registrationQueue, selectors,
                 initMsgs, queueReginfoLookup, events, served>>

enableConsumerRegistration ==
  /\ fp = "enabling" /\ fp' = "running"
  /\ run' = run + 1 /\ registrationAllowed' = TRUE
  /\ UNCHANGED <<clientVars, http, client, nextConsumerId, consumers, registrationQueue, selectors,
                 initMsgs, queues, lookupVars, events, served>>

(* Exit from Running: at the end of the run, or because a step failed.     *)
disableConsumerRegistration ==
  /\ fp \in {"running", "failing"} /\ fp' = "clearing"
  /\ registrationAllowed' = FALSE
  /\ UNCHANGED <<clientVars, http, client, run, nextConsumerId, consumers, registrationQueue,
                 selectors, initMsgs, queues, lookupVars, events, served>>

clearQueues ==
  /\ fp = "clearing" /\ fp' = "ending"
  /\ queues' = AllQueues(Cleared)
  /\ UNCHANGED <<clientVars, http, client, run, registrationVars, registrationQueue, selectors,
                 initMsgs, lookupVars, events, served>>

clearRegistrationQueue ==
  /\ fp = "ending" /\ fp' = "stopped"
  /\ registrationQueue' = <<>>
  /\ UNCHANGED <<clientVars, http, client, run, registrationVars, selectors, initMsgs, queues,
                 lookupVars, events, served>>

(* Selectors are kept in a set ordered by queue id and registration:       *)
(* consumers that share a queue share the selector.                        *)
Selector(r) == [queue |-> r.queue, info |-> r.info]

\* A consumer is only registered once the INIT message is there.
registerEventConsumerLateBug ==
  /\ fp \in {"stopped", "running"} /\ registrationQueue # <<>>
  /\ Head(registrationQueue).info.label \in initMsgs
  /\ registrationQueue' = Tail(registrationQueue)
  /\ selectors' = Put(selectors, Selector(Head(registrationQueue)),
                      [initialized |-> TRUE, accepted |-> 0])
  /\ UNCHANGED <<clientVars, http, client, fp, run, registrationVars, initMsgs, queues,
                 lookupVars, events, served>>

\* processAllRegistrations: registerEventConsumer for the next registration.
registerEventConsumer ==
  LET r == Head(registrationQueue)
  IN /\ fp \in {"stopped", "running"} /\ registrationQueue # <<>>
     /\ registrationQueue' = Tail(registrationQueue)
     /\ selectors' = IF Selector(r) \in DOMAIN selectors THEN selectors
                     ELSE Put(selectors, Selector(r),
                              [initialized |-> HasInit(r.info.label), accepted |-> 0])
     /\ UNCHANGED <<clientVars, http, client, fp, run, registrationVars, initMsgs, queues,
                    lookupVars, events, served>>

WaitsForInit(k, label) == k.info.label = label /\ ~selectors[k].initialized

\* The first INIT message of an output module initialises the selectors that
\* wait for it; later ones are not looked at.
tagInitMessage(label) ==
  /\ fp = "running" /\ ~HasInit(label)
  /\ initMsgs' = initMsgs \cup {label}
  /\ selectors' = [k \in DOMAIN selectors |->
       IF WaitsForInit(k, label) THEN [initialized |-> TRUE, accepted |-> 0] ELSE selectors[k]]
  /\ UNCHANGED <<clientVars, http, client, fp, run, registrationVars, registrationQueue, queues,
                 lookupVars, events, served>>

\* EventConsumerSelector::acceptEvent, up to the prescale.
Wants(k, label, bits) ==
  selectors[k].initialized /\ k.info.label = label /\ Selects(k.info.selection, bits)

\* An event is tagged with the queues of the selectors that accept it and
\* goes into each; at a queue that does not exist an exception ends the run.
addEventToRelevantQueues(label, bits) ==
  LET wanting == {k \in DOMAIN selectors : Wants(k, label, bits)}
      accepting == {k \in wanting : (selectors[k].accepted + 1) % k.info.prescale = 0}
      routes == {k.queue : k \in accepting}
      unknown == {r \in routes : ~IsQueue(r)}
      n == Len(events) + 1
      Fed(p, i) == LET id == [policy |-> p, index |-> i]
                   IN id \in routes /\ \A u \in unknown : Before(id, u)
  IN /\ fp = "running" /\ left.events > 0
     /\ left' = [left EXCEPT !.events = @ - 1]
     /\ events' = Append(events, [label |-> label, bits |-> bits, run |-> run,
                                  droppedEventsCount |-> 0])
     /\ selectors' = [k \in DOMAIN selectors |->
          IF k \in wanting THEN [selectors[k] EXCEPT !.accepted = @ + 1] ELSE selectors[k]]
     /\ queues' = [p \in Policies |-> [i \in DOMAIN queues[p] |->
          IF Fed(p, i) THEN Enqueued(p, queues[p][i], n) ELSE queues[p][i]]]
     /\ fp' = IF unknown = {} THEN fp ELSE "failing"
     /\ UNCHANGED <<wants, http, client, run, registrationVars, registrationQueue, initMsgs,
                    lookupVars, served>>

\* Only one of the two kinds of queues is looked after.
checkForStaleConsumersBug ==
  /\ fp = "running"
  /\ queues' = [queues EXCEPT !["DiscardNew"] =
                  [i \in DOMAIN @ |-> IF @[i].stale THEN Cleared(@[i]) ELSE @[i]]]
  /\ queues' # queues
  /\ UNCHANGED <<clientVars, http, client, fp, run, registrationVars, registrationQueue, selectors,
                 initMsgs, lookupVars, events, served>>

\* When nothing arrives the FragmentProcessor clears the stale queues.
checkForStaleConsumers ==
  LET ClearedIfStale(q) == IF q.stale THEN Cleared(q) ELSE q
  IN /\ fp = "running"
     /\ queues' = AllQueues(ClearedIfStale) /\ queues' # queues
     /\ UNCHANGED <<clientVars, http, client, fp, run, registrationVars, registrationQueue,
                    selectors, initMsgs, lookupVars, events, served>>

\* The staleness interval of a queue passes without a request (outside a run
\* it makes no difference: what is left is removed before the next one).
becomesStale(p, i) ==
  /\ fp = "running" /\ i \in DOMAIN queues[p] /\ ~queues[p][i].stale
  /\ queues' = [queues EXCEPT ![p][i].stale = TRUE]
  /\ UNCHANGED <<clientVars, http, client, fp, run, registrationVars, registrationQueue, selectors,
                 initMsgs, lookupVars, events, served>>

\* What the FragmentProcessor does of its own accord.
FragmentProcessor ==
  \/ removeQueues \/ enableConsumerRegistration \/ clearQueues \/ clearRegistrationQueue
  \/ registerEventConsumer \/ checkForStaleConsumers

Next ==
  \/ \E c \in Clients : HttpHandler(c)
  \/ FragmentProcessor
  \/ beginRun \/ disableConsumerRegistration
  \/ \E label \in Labels : tagInitMessage(label)
  \/ \E label \in Labels, bits \in TriggerBits : addEventToRelevantQueues(label, bits)
  \/ \E p \in Policies, i \in 1 .. MaxConsumers : becomesStale(p, i)

Spec == Init /\ [][Next]_vars

(* The work loop goes on, a queue that nobody asks for gets stale, and the *)
(* handler of a request that has begun ends it, also when the client has   *)
(* gone; nothing obliges a client to ask, nor run control to end a run.    *)
Fairness ==
  /\ WF_vars(FragmentProcessor)
  /\ \A p \in Policies, i \in 1 .. MaxConsumers : WF_vars(becomesStale(p, i))
  /\ \A c \in Clients : WF_vars(http[c].at # "idle" /\ HttpHandler(c))
FairSpec == Spec /\ Fairness

-----------------------------------------------------------------------------
\* The values the variables range over.
TypeOK ==
  /\ wants \in [Clients -> Infos] /\ run \in 0 .. MaxRuns
  /\ left \in Budgets
  /\ \A c \in Clients :
       /\ http[c].at \in {"idle", "createQueue", "addRegistration", "enqueue", "lookup", "pop",
                          "set", "write"}
       /\ http[c].id \in 0 .. MaxConsumers /\ http[c].queue \in QueueIDs \cup {NoQueue}
       /\ http[c].event \in 0 .. Len(events) /\ http[c].losses \in Nat
       /\ client[c] \in [phase : {"unregistered", "registered", "reading"}, id : 0 .. MaxConsumers]
  /\ fp \in {"stopped", "removing", "enabling", "running", "failing", "clearing", "ending"}
  /\ registrationAllowed \in BOOLEAN /\ nextConsumerId \in 0 .. MaxConsumers
  /\ DOMAIN consumers \subseteq 1 .. nextConsumerId
  /\ Len(registrationQueue) <= RegistrationQueueSize
  /\ \A k \in DOMAIN selectors : k.queue \in QueueIDs /\ k.info \in Infos
  /\ initMsgs \subseteq Labels
  /\ \A p \in Policies : \A i \in DOMAIN queues[p] :
       Len(queues[p][i].items) <= queues[p][i].size
  /\ DOMAIN queueIdLookup \subseteq 1 .. nextConsumerId
  /\ DOMAIN queueReginfoLookup \subseteq Infos
  /\ newlyShared \subseteq DOMAIN queueReginfoLookup /\ outlived \in BOOLEAN
  /\ Len(events) <= MaxEvents
  /\ served \subseteq (1 .. nextConsumerId) \X (1 .. Len(events))

(***************************************************************************)
(* What a consumer is handed is of the run it registered in and was wanted *)
(* by its own registration, whatever other consumers share, come or go     *)
(* while its requests are under way (ConsumerUtils, QueueCollection and    *)
(* EventDistributor together), unless a queue id outlived its queue: that  *)
(* is the only way it can go wrong.                                        *)
(***************************************************************************)
ServedAsRegistered ==
  ~outlived =>
    \A s \in served :
      s[1] \in DOMAIN consumers =>
        LET r == consumers[s[1]]
            e == events[s[2]]
        IN e.run = r.run /\ e.label = r.info.label /\ Selects(r.info.selection, e.bits)

(***************************************************************************)
(* Consumers that register alike for unique events share one queue and one *)
(* selector, so no event reaches two of them, nor one of them twice, even  *)
(* when they register at the same time or again after a lost reply, in one *)
(* run or another, unless a queue id outlived its queue                    *)
(* (QueueCollection::createQueue, EventDistributor::registerEventConsumer).*)
(***************************************************************************)
UniqueEventsServedOnce ==
  ~outlived =>
    /\ \A s, t \in served :
         (/\ s[2] = t[2] /\ s[1] # t[1]
          /\ s[1] \in DOMAIN consumers /\ t[1] \in DOMAIN consumers
          /\ consumers[s[1]].info = consumers[t[1]].info) => ~consumers[s[1]].info.unique
    /\ \A p \in Policies : \A i \in DOMAIN queues[p] :
         LET q == queues[p][i]
         IN \A j, k \in DOMAIN q.items : j # k => q.items[j] # q.items[k]

(***************************************************************************)
(* Every event selected for a consumer is in its queue, was popped by a    *)
(* request, or is counted as a loss that has been or will be handed out    *)
(* with an event: refused, pushed out by a newer one, sent while the queue *)
(* was stale, or cleared with it (QueueCollection, ExpirableQueue).        *)
(***************************************************************************)
EveryLossIsCounted ==
  \A p \in Policies : \A i \in DOMAIN queues[p] :
    LET q == queues[p][i]
    IN q.tagged = Len(q.items) + q.dropped + q.popped + q.handed

(***************************************************************************)
(* During a run the queue id of every registered consumer and of every     *)
(* selector names an existing queue that was made for that registration,   *)
(* and the look-up used to serve the consumer agrees with the selector,    *)
(* unless a queue id outlived its queue.  (QueueCollection.h:63 on         *)
(* createQueue: "It returns a unique identifier to later identify requests *)
(* originating from this consumer".)                                       *)
(***************************************************************************)
QueueIdsResolve ==
  fp = "running" /\ ~outlived =>
    /\ \A k \in DOMAIN selectors :
         IsQueue(k.queue) /\ queues[k.queue.policy][k.queue.index].info = k.info
    /\ \A id \in DOMAIN consumers :
         /\ id \in DOMAIN queueIdLookup /\ queueIdLookup[id] = consumers[id].queue
         /\ IsQueue(consumers[id].queue)

(***************************************************************************)
(* The count written to a consumer is that of its own losses.  It holds as *)
(* long as no other handler serves the same event meanwhile: between the   *)
(* two steps another consumer's count may take its place.                  *)
(***************************************************************************)
WrittenCountIsItsOwn ==
  \A c \in Clients :
    http[c].at = "write" => events[http[c].event].droppedEventsCount = http[c].losses

(***************************************************************************)
(* Not so: the id of a queue does not outlive the queue.  removeQueues     *)
(* keeps the look-up by registration (QueueCollection.h:429), so that a    *)
(* consumer for unique events gets the id of the run before, and nothing   *)
(* keeps a registration from being under way when the next run begins.     *)
(***************************************************************************)
QueueIdsDoNotOutliveTheirQueues == ~outlived

(***************************************************************************)
(* Again and again every consumer that was told it is registered has its   *)
(* selector, initialised if the INIT message of its output module is there,*)
(* unless the run is over: no registration is left behind in the           *)
(* registration queue or between two threads, and it does not matter       *)
(* whether the consumer or the INIT message came first.                    *)
(***************************************************************************)
HasItsSelector(id) ==
  \E k \in DOMAIN selectors :
    k.queue = consumers[id].queue /\ (k.info.label \in initMsgs => selectors[k].initialized)
RegistrationsTakeEffect ==
  []<>(fp = "running" =>
         \A c \in Clients : client[c].id \in DOMAIN consumers => HasItsSelector(client[c].id))

(***************************************************************************)
(* A queue does not keep its events when the consumer has gone: they are   *)
(* served or, once the queue is stale, cleared.                            *)
(***************************************************************************)
AbandonedQueuesAreEmptied ==
  []<>(\A p \in Policies : \A i \in DOMAIN queues[p] : queues[p][i].items = <<>>)
=============================================================================
