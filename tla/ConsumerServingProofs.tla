----------------------- MODULE ConsumerServingProofs -----------------------
(***************************************************************************)
(* Theorems about ConsumerServing for any number of clients, runs and      *)
(* events, and all sizes of queues: first that every loss is counted, then *)
(* what consumers are handed.                                              *)
(***************************************************************************)
EXTENDS ConsumerServing, SequenceTheorems, TLAPS

Queues ==
  [items : Seq(Nat), dropped : Nat, stale : BOOLEAN, size : Nat \ {0}, info : Infos,
   tagged : Nat, popped : Nat, handed : Nat]

\* A queue whose books are right: each event sent to it is inside, was popped, or is a
\* loss that is still to be told or has been.
Balanced ==
  {q \in Queues : q.tagged = Len(q.items) + q.dropped + q.popped + q.handed}

EventSequence(s) == s \in Seq({s[i] : i \in DOMAIN s})

\* The inductive invariant.
IInv ==
  /\ wants \in [Clients -> Infos]
  /\ EventSequence(events)
  /\ DOMAIN queues = Policies
  /\ \A p \in Policies : queues[p] \in Seq(Balanced)

-----------------------------------------------------------------------------
(* The operations on one queue.                                            *)

\* A new queue has seen nothing.
LEMMA NewBalanced ==
  ASSUME NEW info \in Infos
  PROVE  NewQueue(info) \in Balanced
<1>1. info.size \in Nat \ {0}
  BY InfosAssumption
<1> QED
  BY <1>1 DEF NewQueue, Balanced, Queues

\* The entries of a queue.
LEMMA Fields ==
  ASSUME NEW q \in Queues
  PROVE  /\ q.items \in Seq(Nat) /\ Len(q.items) \in Nat /\ q.dropped \in Nat
         /\ q.size \in Nat \ {0} /\ q.tagged \in Nat /\ q.popped \in Nat /\ q.handed \in Nat
BY DEF Queues

\* What the books of a queue say.
Books(q, items, dropped, tagged, popped, handed) ==
  /\ q \in Queues /\ q.items = items /\ q.dropped = dropped
  /\ q.tagged = tagged /\ q.popped = popped /\ q.handed = handed

\* A queue whose books add up is balanced.
LEMMA BalancedBooks ==
  ASSUME NEW q, NEW items, NEW dropped, NEW tagged, NEW popped, NEW handed,
         Books(q, items, dropped, tagged, popped, handed),
         tagged = Len(items) + dropped + popped + handed
  PROVE  q \in Balanced
BY DEF Books, Balanced

\* One entry is changed at a time: the events inside are, ...
LEMMA ItemsSet ==
  ASSUME NEW q \in Queues, NEW items \in Seq(Nat)
  PROVE  Books([q EXCEPT !.items = items], items, q.dropped, q.tagged, q.popped, q.handed)
BY DEF Queues, Books

\* ... the count of losses, ...
LEMMA DroppedSet ==
  ASSUME NEW q \in Queues, NEW n \in Nat
  PROVE  Books([q EXCEPT !.dropped = n], q.items, n, q.tagged, q.popped, q.handed)
BY DEF Queues, Books

\* ... whether the queue is stale, ...
LEMMA StaleSet ==
  ASSUME NEW q \in Queues, NEW b \in BOOLEAN
  PROVE  Books([q EXCEPT !.stale = b], q.items, q.dropped, q.tagged, q.popped, q.handed)
BY DEF Queues, Books

\* ... the count of events sent, ...
LEMMA TaggedSet ==
  ASSUME NEW q \in Queues, NEW n \in Nat
  PROVE  Books([q EXCEPT !.tagged = n], q.items, q.dropped, n, q.popped, q.handed)
BY DEF Queues, Books

\* ... that of events popped, ...
LEMMA PoppedSet ==
  ASSUME NEW q \in Queues, NEW n \in Nat
  PROVE  Books([q EXCEPT !.popped = n], q.items, q.dropped, q.tagged, n, q.handed)
BY DEF Queues, Books

\* ... and that of losses told.
LEMMA HandedSet ==
  ASSUME NEW q \in Queues, NEW n \in Nat
  PROVE  Books([q EXCEPT !.handed = n], q.items, q.dropped, q.tagged, q.popped, n)
BY DEF Queues, Books

\* The sums: one more was sent, and is inside or lost; one was popped.
LEMMA OneMore ==
  ASSUME NEW inside \in Nat, NEW lost \in Nat, NEW popped \in Nat, NEW handed \in Nat,
         NEW sent \in Nat, sent = inside + lost + popped + handed
  PROVE  /\ sent + 1 = inside + (lost + 1) + popped + handed
         /\ sent + 1 = (inside + 1) + lost + popped + handed
OBVIOUS

\* What is cleared is counted.
LEMMA ClearedBalanced ==
  ASSUME NEW q \in Balanced
  PROVE  Cleared(q) \in Balanced
<1> DEFINE t == [q EXCEPT !.items = <<>>]
           losses == q.dropped + Len(q.items)
           r == [t EXCEPT !.dropped = losses]
<1>1. q \in Queues /\ q.tagged = Len(q.items) + q.dropped + q.popped + q.handed
  BY DEF Balanced
<1>2. Cleared(q) = r
  BY Zenon DEF Cleared
<1>3. <<>> \in Seq(Nat) /\ Len(<<>>) = 0
  BY EmptySeq
<1>4. Books(t, <<>>, q.dropped, q.tagged, q.popped, q.handed)
  BY <1>1, <1>3, ItemsSet
<1>5. losses \in Nat /\ q.tagged = Len(<<>>) + losses + q.popped + q.handed
  BY <1>1, <1>3, Fields
<1> HIDE DEF t, losses
<1>6. Books(r, <<>>, losses, q.tagged, q.popped, q.handed)
  BY <1>4, <1>5, DroppedSet DEF Books
<1> HIDE DEF r
<1> QED
  BY <1>2, <1>5, <1>6, BalancedBooks

\* What is refused, pushes another event out or finds room is counted.
LEMMA EnqueuedBalanced ==
  ASSUME NEW p \in Policies, NEW q \in Balanced, NEW n \in Nat
  PROVE  Enqueued(p, q, n) \in Balanced
<1> DEFINE sent == q.tagged + 1
           losses == q.dropped + 1
           moved == Append(Tail(q.items), n)
           grown == Append(q.items, n)
           t == [q EXCEPT !.tagged = sent]
           refused == [t EXCEPT !.dropped = losses]
           replaced == [[t EXCEPT !.items = moved] EXCEPT !.dropped = losses]
           added == [t EXCEPT !.items = grown]
<1>1. q \in Queues /\ q.tagged = Len(q.items) + q.dropped + q.popped + q.handed
  BY DEF Balanced
<1>2. sent \in Nat /\ losses \in Nat
  BY <1>1, Fields
<1>0. /\ Len(q.items) \in Nat /\ q.dropped \in Nat /\ q.tagged \in Nat
      /\ q.popped \in Nat /\ q.handed \in Nat
      /\ q.tagged = Len(q.items) + q.dropped + q.popped + q.handed
  <2>1. q.tagged = Len(q.items) + q.dropped + q.popped + q.handed
    BY <1>1
  <2> QED
    BY <1>1, <2>1, Fields
<1>3. Books(t, q.items, q.dropped, sent, q.popped, q.handed)
  BY <1>1, <1>2, TaggedSet
<1>4. refused \in Balanced
  <2> HIDE DEF t, losses, sent
  <2>1. Books(refused, q.items, losses, sent, q.popped, q.handed)
    BY <1>2, <1>3, DroppedSet DEF Books
  <2>2. sent = Len(q.items) + losses + q.popped + q.handed
    BY <1>0, OneMore DEF sent, losses
  <2> HIDE DEF refused
  <2> QED
    BY <2>1, <2>2, BalancedBooks
<1>5. ASSUME q.items # <<>> PROVE replaced \in Balanced
  <2> DEFINE u == [t EXCEPT !.items = moved]
  <2>1. moved \in Seq(Nat) /\ Len(moved) = Len(q.items)
    BY <1>1, <1>5, Fields, HeadTailProperties, AppendProperties
  <2>2. sent = Len(moved) + losses + q.popped + q.handed
    <3>1. sent = Len(q.items) + losses + q.popped + q.handed
      BY <1>0, OneMore
    <3> QED
      BY <2>1, <3>1
  <2> HIDE DEF t, losses, sent, moved
  <2>3. Books(u, moved, q.dropped, sent, q.popped, q.handed)
    BY <1>3, <2>1, ItemsSet DEF Books
  <2> HIDE DEF u
  <2>4. Books([u EXCEPT !.dropped = losses], moved, losses, sent, q.popped, q.handed)
    BY <1>2, <2>3, DroppedSet DEF Books
  <2>5. [u EXCEPT !.dropped = losses] \in Balanced
    BY <2>2, <2>4, BalancedBooks
  <2> QED
    BY <2>5, Zenon DEF u
<1>6. added \in Balanced
  <2>1. grown \in Seq(Nat) /\ Len(grown) = Len(q.items) + 1
    BY <1>1, Fields, AppendProperties
  <2>2. sent = Len(grown) + q.dropped + q.popped + q.handed
    <3>1. sent = (Len(q.items) + 1) + q.dropped + q.popped + q.handed
      BY <1>0, OneMore
    <3> QED
      BY <2>1, <3>1
  <2> HIDE DEF t, sent, grown
  <2>3. Books(added, grown, q.dropped, sent, q.popped, q.handed)
    BY <1>3, <2>1, ItemsSet DEF Books
  <2> HIDE DEF added
  <2> QED
    BY <2>2, <2>3, BalancedBooks
<1>7. t.dropped = q.dropped /\ t.items = q.items
  BY <1>3 DEF Books
<1>8. Len(q.items) = q.size => q.items # <<>>
  BY <1>1, Fields, EmptySeq
<1>9. CASE q.stale \/ (p = "DiscardNew" /\ Len(q.items) = q.size)
  <2>1. Enqueued(p, q, n) = refused
    BY <1>7, <1>9, Zenon DEF Enqueued
  <2> QED
    BY <1>4, <2>1
<1>10. CASE ~(q.stale \/ (p = "DiscardNew" /\ Len(q.items) = q.size)) /\ Len(q.items) = q.size
  <2>1. Enqueued(p, q, n) = replaced
    BY <1>7, <1>10, Zenon DEF Enqueued
  <2> QED
    BY <1>5, <1>8, <1>10, <2>1
<1>11. CASE ~(q.stale \/ (p = "DiscardNew" /\ Len(q.items) = q.size)) /\ Len(q.items) # q.size
  <2>1. Enqueued(p, q, n) = added
    BY <1>7, <1>11, Zenon DEF Enqueued
  <2> QED
    BY <1>6, <2>1
<1> QED
  BY <1>9, <1>10, <1>11

\* An event that is popped takes the losses before it with it.
LEMMA PoppedBalanced ==
  ASSUME NEW q \in Balanced, q.items # <<>>
  PROVE  [q EXCEPT !.stale = FALSE, !.items = Tail(@), !.dropped = 0, !.popped = @ + 1,
                   !.handed = @ + q.dropped] \in Balanced
<1> DEFINE rest == Tail(q.items)
           popped == q.popped + 1
           handed == q.handed + q.dropped
           r1 == [q EXCEPT !.stale = FALSE]
           r2 == [r1 EXCEPT !.items = rest]
           r3 == [r2 EXCEPT !.dropped = 0]
           r4 == [r3 EXCEPT !.popped = popped]
           r5 == [r4 EXCEPT !.handed = handed]
<1>1. q \in Queues /\ q.tagged = Len(q.items) + q.dropped + q.popped + q.handed
  BY DEF Balanced
<1>2. rest \in Seq(Nat) /\ Len(rest) = Len(q.items) - 1 /\ popped \in Nat /\ handed \in Nat
  BY <1>1, Fields, HeadTailProperties, EmptySeq
<1>0. /\ Len(q.items) \in Nat /\ q.dropped \in Nat /\ q.tagged \in Nat
      /\ q.popped \in Nat /\ q.handed \in Nat
      /\ q.tagged = Len(q.items) + q.dropped + q.popped + q.handed
  <2>1. q.tagged = Len(q.items) + q.dropped + q.popped + q.handed
    BY <1>1
  <2> QED
    BY <1>1, <2>1, Fields
<1>3. q.tagged = Len(rest) + 0 + popped + handed
  <2>1. Len(rest) \in Nat /\ Len(rest) = Len(q.items) - 1
    BY <1>2
  <2> HIDE DEF rest
  <2> DEFINE inside == Len(q.items)
             remaining == Len(rest)
             tagged == q.tagged
             poppedBefore == q.popped
             handedBefore == q.handed
             dropped == q.dropped
  <2>2. /\ inside \in Nat /\ dropped \in Nat /\ tagged \in Nat /\ poppedBefore \in Nat
        /\ handedBefore \in Nat /\ tagged = inside + dropped + poppedBefore + handedBefore
        /\ remaining \in Nat /\ remaining = inside - 1
    BY <1>0, <2>1
  <2> HIDE DEF inside, remaining, tagged, poppedBefore, handedBefore, dropped
  <2>3. tagged = remaining + 0 + (poppedBefore + 1) + (handedBefore + dropped)
    BY <2>2
  <2> QED
    BY <2>3 DEF remaining, tagged, poppedBefore, handedBefore, dropped
<1>4. [q EXCEPT !.stale = FALSE, !.items = Tail(@), !.dropped = 0, !.popped = @ + 1,
                !.handed = @ + q.dropped] = r5
  BY Zenon
<1>5. Books(r1, q.items, q.dropped, q.tagged, q.popped, q.handed)
  BY <1>1, StaleSet
<1> HIDE DEF r1, rest, popped, handed
<1>6. Books(r2, rest, q.dropped, q.tagged, q.popped, q.handed)
  BY <1>2, <1>5, ItemsSet DEF Books
<1> HIDE DEF r2
<1>7. Books(r3, rest, 0, q.tagged, q.popped, q.handed)
  BY <1>6, DroppedSet DEF Books
<1> HIDE DEF r3
<1>8. Books(r4, rest, 0, q.tagged, popped, q.handed)
  BY <1>2, <1>7, PoppedSet DEF Books
<1> HIDE DEF r4
<1>9. Books(r5, rest, 0, q.tagged, popped, handed)
  BY <1>2, <1>8, HandedSet DEF Books
<1> HIDE DEF r5
<1> QED
  BY <1>3, <1>4, <1>9, BalancedBooks

\* Whether a queue is stale is not in its books.
LEMMA StaleBalanced ==
  ASSUME NEW q \in Balanced, NEW b \in BOOLEAN
  PROVE  [q EXCEPT !.stale = b] \in Balanced
BY DEF Balanced, Queues

-----------------------------------------------------------------------------
(* The operations on all queues, and on one of them.                       *)

\* The events stay a sequence when one more arrives, and when a header is written.
LEMMA EventArrives ==
  ASSUME NEW s, EventSequence(s), NEW e
  PROVE  EventSequence(Append(s, e)) /\ Len(s) \in Nat
<1> DEFINE S == {s[i] : i \in DOMAIN s} \cup {e}
           t == Append(s, e)
<1>1. s \in Seq(S) /\ Len(s) \in Nat
  BY DEF EventSequence
<1>2. t \in Seq(S) /\ Len(t) \in Nat /\ DOMAIN t = 1 .. Len(t)
  BY <1>1, AppendProperties
<1> HIDE DEF t
<1>3. t \in [1 .. Len(t) -> {t[i] : i \in DOMAIN t}]
  BY <1>2
<1>4. t \in Seq({t[i] : i \in DOMAIN t})
  BY <1>2, <1>3, SeqDef
<1> QED
  BY <1>1, <1>4 DEF EventSequence, t

\* A header that is written leaves a sequence of events.
LEMMA HeaderWritten ==
  ASSUME NEW s, EventSequence(s), NEW k, NEW e
  PROVE  EventSequence([s EXCEPT ![k] = e])
<1> DEFINE t == [s EXCEPT ![k] = e]
<1>1. Len(s) \in Nat /\ DOMAIN s = 1 .. Len(s) /\ s \in [1 .. Len(s) -> {s[i] : i \in DOMAIN s}]
  BY DEF EventSequence
<1>2. t \in [1 .. Len(s) -> {t[i] : i \in DOMAIN t}]
  BY <1>1
<1> HIDE DEF t
<1>3. t \in Seq({t[i] : i \in DOMAIN t})
  BY <1>1, <1>2, SeqDef
<1> QED
  BY <1>3 DEF EventSequence, t

\* A sequence of queues of which each is replaced by a balanced one.
LEMMA EachBalanced ==
  ASSUME NEW s \in Seq(Balanced), NEW t, DOMAIN t = DOMAIN s,
         \A i \in DOMAIN s : t[i] \in Balanced, t = [i \in DOMAIN t |-> t[i]]
  PROVE  t \in Seq(Balanced)
<1>1. Len(s) \in Nat /\ DOMAIN s = 1 .. Len(s)
  OBVIOUS
<1>2. t \in [1 .. Len(s) -> Balanced]
  BY <1>1
<1> QED
  BY <1>1, <1>2, SeqDef

\* One queue is replaced by a balanced one.
LEMMA OneBalanced ==
  ASSUME IInv, NEW p \in Policies, NEW i \in DOMAIN queues[p], NEW q \in Balanced
  PROVE  [queues EXCEPT ![p][i] = q][p] \in Seq(Balanced)
<1>1. queues[p] \in Seq(Balanced) /\ [queues EXCEPT ![p][i] = q][p] = [queues[p] EXCEPT ![i] = q]
  BY DEF IInv
<1>2. Len(queues[p]) \in Nat /\ DOMAIN queues[p] = 1 .. Len(queues[p])
  BY <1>1
<1>3. [queues[p] EXCEPT ![i] = q] \in [1 .. Len(queues[p]) -> Balanced]
  BY <1>1, <1>2
<1> QED
  BY <1>1, <1>2, <1>3, SeqDef

\* The step of one queue keeps the invariant.
LEMMA OneQueueStep ==
  ASSUME IInv, UNCHANGED <<wants, events>>, NEW p \in Policies, NEW i \in DOMAIN queues[p],
         NEW q \in Balanced, queues' = [queues EXCEPT ![p][i] = q]
  PROVE  IInv'
<1>1. DOMAIN queues' = Policies
  BY DEF IInv
<1>2. ASSUME NEW r \in Policies PROVE queues'[r] \in Seq(Balanced)
  <2>1. CASE r = p
    BY <2>1, OneBalanced
  <2>2. CASE r # p
    BY <2>2 DEF IInv
  <2> QED
    BY <2>1, <2>2
<1> QED
  BY <1>1, <1>2 DEF IInv

\* So does a step that replaces every queue.
LEMMA AllQueuesStep ==
  ASSUME IInv, UNCHANGED wants, EventSequence(events'),
         queues' = [p \in Policies |-> [i \in DOMAIN queues[p] |-> queues'[p][i]]],
         \A p \in Policies : \A i \in DOMAIN queues[p] : queues'[p][i] \in Balanced
  PROVE  IInv'
<1>1. ASSUME NEW p \in Policies PROVE queues'[p] \in Seq(Balanced)
  <2> DEFINE t == [i \in DOMAIN queues[p] |-> queues'[p][i]]
  <2>1. queues[p] \in Seq(Balanced) /\ queues'[p] = t
    BY DEF IInv
  <2>2. t \in Seq(Balanced)
    BY <2>1, EachBalanced
  <2> QED
    BY <2>1, <2>2
<1> QED
  BY <1>1 DEF IInv

-----------------------------------------------------------------------------
\* The invariant holds at the beginning.
LEMMA InitIInv == Init => IInv
<1> SUFFICES ASSUME Init PROVE IInv
  OBVIOUS
<1>1. PICK registrations \in [Clients -> Infos], budget \in Budgets :
        InitWith(registrations, budget)
  BY DEF Init
<1>2. <<>> \in Seq({})
  BY EmptySeq
<1>3. EventSequence(events)
  BY <1>1, <1>2 DEF InitWith, EventSequence
<1>4. \A p \in Policies : queues[p] \in Seq(Balanced)
  BY <1>1, EmptySeq DEF InitWith
<1> QED
  BY <1>1, <1>3, <1>4 DEF InitWith, IInv

\* The steps of a request keep it.
LEMMA HandlerStep ==
  ASSUME IInv, NEW c \in Clients, HttpHandler(c)
  PROVE  IInv'
<1>1. CASE createQueue(c)
  <2>1. wants[c] \in Infos /\ UNCHANGED <<wants, events>>
    BY <1>1 DEF IInv, createQueue, clientVars
  <2>2. CASE UNCHANGED queues
    BY <2>1, <2>2 DEF IInv
  <2>3. CASE ~UNCHANGED queues
    <3>1. /\ ~SharesQueue(wants[c]) /\ QueueIdFor(wants[c]) # NoQueue
          /\ queues' = [queues EXCEPT ![wants[c].policy] = Append(@, NewQueue(wants[c]))]
      BY <1>1, <2>3 DEF createQueue
    <3>2. wants[c].policy \in Policies
      BY <2>1, <3>1, InfosAssumption DEF QueueIdFor
    <3>3. queues[wants[c].policy] \in Seq(Balanced) /\ NewQueue(wants[c]) \in Balanced
      BY <2>1, <3>2, NewBalanced DEF IInv
    <3>4. Append(queues[wants[c].policy], NewQueue(wants[c])) \in Seq(Balanced)
      BY <3>3, AppendProperties
    <3> QED
      BY <2>1, <3>1, <3>2, <3>4 DEF IInv
  <2> QED
    BY <2>2, <2>3
<1>2. CASE popEvent(c)
  <2> DEFINE id == http[c].queue
             q == queues[id.policy][id.index]
             fresh == [q EXCEPT !.stale = FALSE]
  <2>1. UNCHANGED <<wants, events>>
    BY <1>2 DEF popEvent, clientVars
  <2>2. CASE UNCHANGED queues
    BY <2>1, <2>2 DEF IInv
  <2>3. CASE ~UNCHANGED queues
    <3>1. IsQueue(id) /\ q \in Balanced
      <4>1. IsQueue(id)
        BY <1>2, <2>3 DEF popEvent
      <4>2. id.policy \in Policies /\ id.index \in DOMAIN queues[id.policy]
        BY <4>1 DEF IsQueue
      <4>3. queues[id.policy] \in Seq(Balanced)
        BY <4>2 DEF IInv
      <4> QED
        BY <4>1, <4>2, <4>3
    <3>2. CASE q.items = <<>>
      <4>1. queues' = [queues EXCEPT ![id.policy][id.index] = fresh]
        BY <1>2, <3>1, <3>2 DEF popEvent
      <4>2. fresh \in Balanced
        BY <3>1, StaleBalanced
      <4> QED
        BY <2>1, <3>1, <4>1, <4>2, OneQueueStep DEF IsQueue
    <3>3. CASE q.items # <<>>
      <4> DEFINE after == [fresh EXCEPT !.items = Tail(@), !.dropped = 0, !.popped = @ + 1,
                                        !.handed = @ + q.dropped]
      <4>1. queues' = [queues EXCEPT ![id.policy][id.index] = after]
        BY <1>2, <3>1, <3>3 DEF popEvent
      <4>2. after = [q EXCEPT !.stale = FALSE, !.items = Tail(@), !.dropped = 0,
                              !.popped = @ + 1, !.handed = @ + q.dropped]
        BY <3>1 DEF Balanced, Queues
      <4>3. after \in Balanced
        BY <3>1, <3>3, <4>2, PoppedBalanced
      <4> QED
        BY <2>1, <3>1, <4>1, <4>3, OneQueueStep DEF IsQueue
    <3> QED
      BY <3>2, <3>3
  <2> QED
    BY <2>2, <2>3
<1>3. CASE setDroppedEventsCount(c)
  <2> DEFINE k == http[c].event
             e == [events[k] EXCEPT !.droppedEventsCount = http[c].losses]
  <2>1. UNCHANGED <<wants, queues>> /\ events' = [events EXCEPT ![k] = e]
    BY <1>3 DEF setDroppedEventsCount, clientVars
  <2> QED
    BY <2>1, HeaderWritten DEF IInv
<1>4. CASE ~createQueue(c) /\ ~popEvent(c) /\ ~setDroppedEventsCount(c)
  <2>1. UNCHANGED <<wants, queues, events>>
    BY <1>4 DEF HttpHandler, getConsumerId, addRegistrationInfo, enqueueRegistration,
                registrationTimesOut, processConsumerHeaderRequest, processConsumerEventRequest,
                lookupQueue, writeConsumerEvent, clientVars
  <2> QED
    BY <2>1 DEF IInv
<1> QED
  BY <1>1, <1>2, <1>3, <1>4

\* So do the steps of the FragmentProcessor.
LEMMA FragmentProcessorStep ==
  ASSUME IInv, FragmentProcessor
  PROVE  IInv'
<1>0. \A p \in Policies : \A i \in DOMAIN queues[p] : queues[p][i] \in Balanced
  <2>1. ASSUME NEW p \in Policies, NEW i \in DOMAIN queues[p] PROVE queues[p][i] \in Balanced
    <3>1. queues[p] \in Seq(Balanced)
      BY DEF IInv
    <3> QED
      BY <3>1
  <2> QED
    BY <2>1
<1>1. CASE clearQueues \/ checkForStaleConsumers
  <2>1. /\ UNCHANGED wants /\ EventSequence(events')
        /\ queues' = [p \in Policies |-> [i \in DOMAIN queues[p] |->
             IF clearQueues \/ queues[p][i].stale THEN Cleared(queues[p][i]) ELSE queues[p][i]]]
    BY <1>1 DEF clearQueues, checkForStaleConsumers, AllQueues, clientVars, IInv
  <2>2. queues' = [p \in Policies |-> [i \in DOMAIN queues[p] |-> queues'[p][i]]]
    BY <2>1
  <2>3. \A p \in Policies : \A i \in DOMAIN queues[p] : queues'[p][i] \in Balanced
    BY <1>0, <2>1, ClearedBalanced
  <2> QED
    BY <2>1, <2>2, <2>3, AllQueuesStep
<1>2. CASE removeQueues
  BY <1>2, EmptySeq DEF removeQueues, clientVars, IInv
<1>3. CASE enableConsumerRegistration \/ clearRegistrationQueue \/ registerEventConsumer
  <2>1. UNCHANGED <<wants, queues, events>>
    BY <1>3 DEF enableConsumerRegistration, clearRegistrationQueue, registerEventConsumer, clientVars
  <2> QED
    BY <2>1 DEF IInv
<1> QED
  BY <1>1, <1>2, <1>3 DEF FragmentProcessor

\* So does an event that arrives: what is fed to a queue is counted there.
LEMMA DistributionStep ==
  ASSUME IInv, NEW label, NEW bits, addEventToRelevantQueues(label, bits)
  PROVE  IInv'
<1> DEFINE n == Len(events) + 1
<1>0. ASSUME NEW p \in Policies, NEW i \in DOMAIN queues[p] PROVE queues[p][i] \in Balanced
  <2>1. queues[p] \in Seq(Balanced)
    BY DEF IInv
  <2> QED
    BY <2>1
<1>1. UNCHANGED wants /\ EventSequence(events') /\ n \in Nat
  BY EventArrives DEF addEventToRelevantQueues, IInv
<1>2. queues' = [p \in Policies |-> [i \in DOMAIN queues[p] |-> queues'[p][i]]]
  BY DEF addEventToRelevantQueues
<1>3. ASSUME NEW p \in Policies, NEW i \in DOMAIN queues[p]
      PROVE  queues'[p][i] = Enqueued(p, queues[p][i], n) \/ queues'[p][i] = queues[p][i]
  BY <1>3 DEF addEventToRelevantQueues
<1>4. ASSUME NEW p \in Policies, NEW i \in DOMAIN queues[p] PROVE queues'[p][i] \in Balanced
  BY <1>0, <1>1, <1>3, <1>4, EnqueuedBalanced
<1> QED
  BY <1>1, <1>2, <1>4, AllQueuesStep

\* And so do all steps.
LEMMA NextIInv == IInv /\ [Next]_vars => IInv'
<1> SUFFICES ASSUME IInv, [Next]_vars PROVE IInv'
  OBVIOUS
<1>1. CASE UNCHANGED vars
  BY <1>1 DEF vars, IInv
<1>2. ASSUME NEW c \in Clients, HttpHandler(c) PROVE IInv'
  BY <1>2, HandlerStep
<1>3. CASE FragmentProcessor
  BY <1>3, FragmentProcessorStep
<1>4. CASE beginRun \/ disableConsumerRegistration \/ \E label \in Labels : tagInitMessage(label)
  <2>1. UNCHANGED <<wants, queues, events>>
    BY <1>4 DEF beginRun, disableConsumerRegistration, tagInitMessage, clientVars
  <2> QED
    BY <2>1 DEF IInv
<1>5. ASSUME NEW label \in Labels, NEW bits \in TriggerBits, addEventToRelevantQueues(label, bits)
      PROVE  IInv'
  BY <1>5, DistributionStep
<1>6. ASSUME NEW p \in Policies, NEW i \in 1 .. MaxConsumers, becomesStale(p, i) PROVE IInv'
  <2> DEFINE q == [queues[p][i] EXCEPT !.stale = TRUE]
  <2>1. UNCHANGED <<wants, events>> /\ i \in DOMAIN queues[p] /\ queues' = [queues EXCEPT ![p][i] = q]
    BY <1>6 DEF becomesStale, clientVars
  <2>2. queues[p][i] \in Balanced
    <3>1. queues[p] \in Seq(Balanced)
      BY DEF IInv
    <3> QED
      BY <2>1, <3>1
  <2>3. q \in Balanced
    BY <2>2, StaleBalanced
  <2> QED
    BY <2>1, <2>3, OneQueueStep
<1> QED
  BY <1>1, <1>2, <1>3, <1>4, <1>5, <1>6 DEF Next

\* The books of all queues are right, in every state.
THEOREM Invariant == Spec => []IInv
BY InitIInv, NextIInv, PTL DEF Spec

\* Every event selected for a consumer is in its queue, was popped, or is a loss that is
\* counted (QueueCollection, ExpirableQueue, ConcurrentQueue), for any clients, queue sizes,
\* runs and events.
THEOREM LossesCounted == Spec => []EveryLossIsCounted
<1>1. IInv => EveryLossIsCounted
  <2> SUFFICES ASSUME IInv, NEW p \in Policies, NEW i \in DOMAIN queues[p]
               PROVE  queues[p][i] \in Balanced
    BY DEF Balanced, EveryLossIsCounted
  <2>1. queues[p] \in Seq(Balanced)
    BY DEF IInv
  <2> QED
    BY <2>1
<1> QED
  BY <1>1, Invariant, PTL

-----------------------------------------------------------------------------
(* What the requests rely on: which queue is whose, and what is in it.     *)

Stages == {"idle", "createQueue", "addRegistration", "enqueue", "lookup", "pop", "set", "write"}
Ids == QueueIDs \cup {NoQueue}
Requests == [at : Stages, id : Nat, queue : Ids, event : Nat, losses : Nat]
EventRecords == [label : Labels, bits : TriggerBits, run : Nat, droppedEventsCount : Nat]
Registrations == [info : Infos, queue : Ids]
Beginning == {"removing", "enabling"}
Phases == Beginning \cup {"stopped", "running", "failing", "clearing", "ending"}

Typed ==
  /\ http \in [Clients -> Requests]
  /\ events \in Seq(EventRecords)
  /\ registrationQueue \in Seq(Registrations)
  /\ run \in Nat /\ nextConsumerId \in Nat
  /\ \A k \in DOMAIN queueIdLookup : queueIdLookup[k] \in Ids
  /\ \A info \in DOMAIN queueReginfoLookup : queueReginfoLookup[info] \in Ids
  /\ fp \in Phases /\ (registrationAllowed <=> fp \in {"running", "failing"})

\* While a run begins there is no consumer, no selector and, once the queues have been
\* removed, no event to serve.
NoItems == \A p \in Policies : \A i \in DOMAIN queues[p] : queues[p][i].items = <<>>
RunsInv ==
  /\ fp \in Beginning => DOMAIN consumers = {} /\ DOMAIN selectors = {}
  /\ fp = "enabling" => NoItems

\* The id of a consumer that is being registered is new: no registration, no request and
\* nothing that was served has it, in whatever run.
Creating(c) == http[c].at \in {"createQueue", "addRegistration"}
Serving(c) == http[c].at \in {"lookup", "pop"}
Known(id) ==
  \/ id \in DOMAIN consumers
  \/ \E s \in served : s[1] = id
  \/ \E c \in Clients : Serving(c) /\ http[c].id = id
NewId(c) ==
  /\ http[c].id <= nextConsumerId /\ ~Known(http[c].id)
  /\ \A d \in Clients : d # c /\ Creating(d) => http[d].id # http[c].id
IdsInv ==
  /\ \A id : Known(id) => id \in Nat /\ id <= nextConsumerId
  /\ \A c \in Clients : Creating(c) => NewId(c)

\* This much is true in every state.
CoreInv == IInv /\ Typed /\ RunsInv /\ IdsInv

\* The queue with this id was made for this registration, and it is the one that consumers
\* with this registration share, in this run.
MadeFor(id, info) == IsQueue(id) /\ queues[id.policy][id.index].info = info
Shared(id, info) ==
  info.unique => /\ info \in newlyShared /\ info \in DOMAIN queueReginfoLookup
                 /\ queueReginfoLookup[info] = id
LookUp(id, queue) == id \in DOMAIN queueIdLookup /\ queueIdLookup[id] = queue

\* A request of a consumer that is registered no more may ask for any queue.
RequestSound(c) ==
  LET h == http[c]
  IN /\ h.at \in {"addRegistration", "enqueue"} =>
          MadeFor(h.queue, wants[c]) /\ Shared(h.queue, wants[c])
     /\ h.at = "addRegistration" => LookUp(h.id, h.queue)
     /\ h.at = "pop" /\ h.id \in DOMAIN consumers => h.queue = consumers[h.id].queue
ConsumerSound(id) ==
  LET r == consumers[id]
  IN /\ r.run = run
     /\ MadeFor(r.queue, r.info) /\ Shared(r.queue, r.info) /\ LookUp(id, r.queue)
SharingSound(info) ==
  LET id == queueReginfoLookup[info]
  IN /\ info \in DOMAIN queueReginfoLookup
     /\ info.unique /\ id # NoQueue => MadeFor(id, info)
QueuesInv ==
  /\ \A c \in Clients : RequestSound(c)
  /\ \A i \in DOMAIN registrationQueue :
       MadeFor(registrationQueue[i].queue, registrationQueue[i].info)
  /\ \A k \in DOMAIN selectors : MadeFor(k.queue, k.info)
  /\ \A id \in DOMAIN consumers : ConsumerSound(id)
  /\ \A info \in newlyShared : SharingSound(info)

\* What is in a queue is of this run and wanted by whom the queue was made for, and there
\* only once, ...
Suits(n, info) ==
  /\ n \in DOMAIN events /\ events[n].run = run
  /\ events[n].label = info.label /\ Selects(info.selection, events[n].bits)
Distinct(s) == \A j, k \in DOMAIN s : j # k => s[j] # s[k]
ItemsSuit(q) == \A j \in DOMAIN q.items : Suits(q.items[j], q.info)
ItemsInv ==
  \A p \in Policies : \A i \in DOMAIN queues[p] :
    ItemsSuit(queues[p][i]) /\ Distinct(queues[p][i].items)

\* ... and what was served is not in it any more.
Inside(n, s) == \E j \in DOMAIN s : s[j] = n
QueueItems(id) == queues[id.policy][id.index].items
ServedInv ==
  \A s \in served : s[1] \in DOMAIN consumers =>
    /\ Suits(s[2], consumers[s[1]].info)
    /\ ~Inside(s[2], QueueItems(consumers[s[1]].queue))
UniqueOnce ==
  \A s, t \in served :
    (/\ s[2] = t[2] /\ s[1] # t[1]
     /\ s[1] \in DOMAIN consumers /\ t[1] \in DOMAIN consumers
     /\ consumers[s[1]].info = consumers[t[1]].info) => ~consumers[s[1]].info.unique

\* The rest is true unless a queue id outlived its queue.
Sound == QueuesInv /\ ItemsInv /\ ServedInv /\ UniqueOnce
ServingInv == CoreInv /\ (~outlived => Sound)

-----------------------------------------------------------------------------
\* A queue that exists is typed.
LEMMA QueueTyped ==
  ASSUME IInv, NEW p \in Policies, NEW i \in DOMAIN queues[p]
  PROVE  /\ queues[p][i] \in Queues /\ queues[p][i] \in Balanced
         /\ i \in Nat \ {0} /\ Len(queues[p]) \in Nat /\ DOMAIN queues[p] = 1 .. Len(queues[p])
<1>1. queues[p] \in Seq(Balanced)
  BY DEF IInv
<1> QED
  BY <1>1 DEF Balanced

\* What a step may leave as it is: the registrations of the queues that there are, what is
\* in them, and which of them are shared.
Kept ==
  \A p \in Policies : \A i \in DOMAIN queues[p] :
    i \in DOMAIN queues'[p] /\ queues'[p][i].info = queues[p][i].info
OnlyEmptyAdded ==
  \A p \in Policies : \A i \in DOMAIN queues'[p] :
    \/ i \in DOMAIN queues[p] /\ queues'[p][i] = queues[p][i]
    \/ i \notin DOMAIN queues[p] /\ queues'[p][i].items = <<>>
SharingKept ==
  \A info \in newlyShared :
    /\ info \in newlyShared'
    /\ info.unique /\ info \in DOMAIN queueReginfoLookup =>
         /\ info \in DOMAIN queueReginfoLookup'
         /\ queueReginfoLookup'[info] = queueReginfoLookup[info]

\* A queue that was made for a registration stays that.
LEMMA MadeForStays ==
  ASSUME Kept, NEW id, NEW info, MadeFor(id, info)
  PROVE  MadeFor(id, info)'
BY DEF Kept, MadeFor, IsQueue

\* A queue that is shared stays the one that is.
LEMMA SharedStays ==
  ASSUME SharingKept, NEW id, NEW info, Shared(id, info)
  PROVE  Shared(id, info)'
BY DEF SharingKept, Shared

-----------------------------------------------------------------------------
\* A request is typed.
LEMMA RequestTyped ==
  ASSUME Typed, NEW c \in Clients
  PROVE  /\ http[c] \in Requests /\ http[c].at \in Stages /\ http[c].id \in Nat
         /\ http[c].queue \in Ids /\ http[c].event \in Nat
         /\ http[c].losses \in Nat /\ DOMAIN http = Clients
BY DEF Typed, Requests

\* A step after which no new id is in use keeps the ids apart.
LEMMA IdsStay ==
  ASSUME IdsInv, UNCHANGED nextConsumerId, \A id : Known(id)' => Known(id),
         \A c \in Clients : Creating(c)' => Creating(c) /\ http'[c].id = http[c].id
  PROVE  IdsInv'
<1>1. ASSUME NEW c \in Clients, Creating(c)' PROVE NewId(c)'
  <2>1. NewId(c) /\ Creating(c) /\ http'[c].id = http[c].id
    BY <1>1 DEF IdsInv
  <2>2. ~Known(http[c].id)
    BY <2>1 DEF NewId
  <2>3. \A d \in Clients : d # c /\ Creating(d)' => http'[d].id # http'[c].id
    BY <2>1 DEF NewId
  <2>4. ~Known(http[c].id)' /\ http'[c].id <= nextConsumerId'
    BY <2>1, <2>2 DEF NewId
  <2> QED
    BY <2>1, <2>3, <2>4 DEF NewId, Known
<1>2. \A id : Known(id)' => id \in Nat /\ id <= nextConsumerId'
  BY DEF IdsInv
<1> QED
  BY <1>1, <1>2 DEF IdsInv

\* So does one that leaves consumers and what was served alone, and lets no request begin.
LEMMA IdsQuiet ==
  ASSUME IdsInv, UNCHANGED <<nextConsumerId, consumers, served>>,
         \A c \in Clients : Serving(c)' => Serving(c) /\ http'[c].id = http[c].id,
         \A c \in Clients : Creating(c)' => Creating(c) /\ http'[c].id = http[c].id
  PROVE  IdsInv'
<1>1. ASSUME NEW id, Known(id)' PROVE Known(id)
  BY <1>1 DEF Known
<1> QED
  BY <1>1, IdsStay

\* A request that ends, or goes on to write, relies on nothing any more.
LEMMA QuietStep ==
  ASSUME CoreInv, NEW c \in Clients,
         NEW h \in Requests, h.at \in {"idle", "set", "write"}, http' = [http EXCEPT ![c] = h],
         UNCHANGED <<clientVars, fp, run, registrationVars, registrationQueue, selectors, queues,
                     lookupVars, events, served>>
  PROVE  CoreInv' /\ (Sound => Sound')
<1>1. /\ DOMAIN http = Clients /\ http'[c] = h
      /\ \A d \in Clients : d # c => http'[d] = http[d]
  BY RequestTyped DEF CoreInv
<1>2. UNCHANGED <<wants, fp, run, registrationAllowed, nextConsumerId, consumers,
                  registrationQueue, selectors, queues, queueIdLookup, queueReginfoLookup,
                  newlyShared, events, served>>
  BY DEF clientVars, registrationVars, lookupVars
<1>3. IInv' /\ Typed' /\ RunsInv'
  BY <1>2 DEF CoreInv, IInv, Typed, RunsInv, NoItems
<1>4. IdsInv'
  BY <1>1, <1>2, IdsQuiet DEF CoreInv, Creating, Serving
<1>5. ASSUME Sound PROVE Sound'
  <2>1. QueuesInv'
    BY <1>1, <1>2, <1>5 DEF Sound, QueuesInv, RequestSound, ConsumerSound, SharingSound, MadeFor,
                            Shared, LookUp, IsQueue
  <2>2. ItemsInv' /\ ServedInv' /\ UniqueOnce'
    BY <1>2, <1>5 DEF Sound, ItemsInv, ItemsSuit, Suits, Distinct, ServedInv, UniqueOnce, Inside,
                      QueueItems
  <2> QED
    BY <2>1, <2>2 DEF Sound
<1> QED
  BY <1>3, <1>4, <1>5 DEF CoreInv

\* The steps that only the clients notice.
LEMMA SilentStep ==
  ASSUME CoreInv,
         UNCHANGED <<clientVars, http, fp, run, registrationVars, registrationQueue, selectors,
                     queues, lookupVars, events, served>>
  PROVE  CoreInv' /\ (Sound => Sound')
<1>1. UNCHANGED <<wants, http, fp, run, registrationAllowed, nextConsumerId, consumers,
                  registrationQueue, selectors, queues, queueIdLookup, queueReginfoLookup,
                  newlyShared, events, served>>
  BY DEF clientVars, registrationVars, lookupVars
<1>2. IInv' /\ Typed' /\ RunsInv'
  BY <1>1 DEF CoreInv, IInv, Typed, RunsInv, NoItems
<1>3. IdsInv'
  BY <1>1, IdsQuiet DEF CoreInv, Creating, Serving
<1>4. ASSUME Sound PROVE Sound'
  <2>1. QueuesInv'
    BY <1>1, <1>4 DEF Sound, QueuesInv, RequestSound, ConsumerSound, SharingSound, MadeFor,
                      Shared, LookUp, IsQueue
  <2>2. ItemsInv' /\ ServedInv' /\ UniqueOnce'
    BY <1>1, <1>4 DEF Sound, ItemsInv, ItemsSuit, Suits, Distinct, ServedInv, UniqueOnce, Inside,
                      QueueItems
  <2> QED
    BY <2>1, <2>2 DEF Sound
<1> QED
  BY <1>2, <1>3, <1>4 DEF CoreInv

\* A request begins.
LEMMA RequestBegun ==
  ASSUME NEW at \in Stages, NEW id \in Nat
  PROVE  LET h == [Idle EXCEPT !.at = at, !.id = id]
         IN h \in Requests /\ h.at = at /\ h.id = id
<1> DEFINE g == [Idle EXCEPT !.at = at]
           h == [g EXCEPT !.id = id]
<1>1. [Idle EXCEPT !.at = at, !.id = id] = h
  BY Zenon
<1>2. Idle \in Requests
  BY DEF Idle, Requests, Stages, Ids
<1>3. g \in Requests /\ g.at = at
  BY <1>2 DEF Requests
<1> HIDE DEF g
<1>4. h \in Requests /\ h.at = at /\ h.id = id
  BY <1>3 DEF Requests
<1> HIDE DEF h
<1> QED
  BY <1>1, <1>4

\* An id given out is a new one.
LEMMA getConsumerIdStep ==
  ASSUME CoreInv, NEW c \in Clients, getConsumerId(c)
  PROVE  CoreInv' /\ (Sound => Sound')
<1> DEFINE h == [Idle EXCEPT !.at = "createQueue", !.id = nextConsumerId + 1]
<1>1. /\ h \in Requests /\ h.at = "createQueue" /\ h.id = nextConsumerId + 1
      /\ nextConsumerId \in Nat /\ DOMAIN http = Clients
  <2>1. nextConsumerId \in Nat /\ nextConsumerId + 1 \in Nat /\ "createQueue" \in Stages
    BY DEF CoreInv, Typed, Stages
  <2>2. h \in Requests /\ h.at = "createQueue" /\ h.id = nextConsumerId + 1
    BY <2>1, RequestBegun
  <2> HIDE DEF h
  <2> QED
    BY <2>1, <2>2, RequestTyped DEF CoreInv
<1>2. /\ http' = [http EXCEPT ![c] = h] /\ nextConsumerId' = nextConsumerId + 1
      /\ UNCHANGED <<wants, fp, run, registrationAllowed, consumers, registrationQueue, selectors,
                     queues, queueIdLookup, queueReginfoLookup, newlyShared, events, served>>
  BY DEF getConsumerId, lookupVars
<1>3. http'[c] = h /\ \A d \in Clients : d # c => http'[d] = http[d]
  BY <1>1, <1>2
<1> HIDE DEF h
<1>4. IInv' /\ Typed' /\ RunsInv'
  BY <1>1, <1>2 DEF CoreInv, IInv, Typed, RunsInv, NoItems
<1>5. IdsInv'
  <2>1. ASSUME NEW id, Known(id)' PROVE Known(id) /\ id \in Nat /\ id <= nextConsumerId
    <3>1. Known(id)
      BY <1>1, <1>2, <1>3, <2>1 DEF Known, Serving
    <3> QED
      BY <3>1 DEF CoreInv, IdsInv
  <2>0. PICK new : new = nextConsumerId + 1
    OBVIOUS
  <2>2. ~Known(new)'
    BY <1>1, <2>0, <2>1
  <2>3. \A d \in Clients : Creating(d) => http[d].id # new
    BY <1>1, <2>0, RequestTyped DEF CoreInv, IdsInv, NewId
  <2>4. ASSUME NEW d \in Clients, Creating(d)' PROVE NewId(d)'
    <3>1. CASE d = c
      <4>1. http'[d].id = new /\ new <= nextConsumerId'
        BY <1>1, <1>2, <1>3, <2>0, <3>1
      <4>2. ~Known(http[d].id)'
        BY <2>2, <4>1
      <4>3. \A e \in Clients : e # d /\ Creating(e)' => http'[e].id # http'[d].id
        BY <1>3, <2>3, <3>1, <4>1 DEF Creating
      <4> QED
        BY <4>1, <4>2, <4>3 DEF NewId
    <3>2. CASE d # c
      <4>1. Creating(d) /\ NewId(d) /\ http[d].id \in Nat
        BY <1>3, <2>4, <3>2, RequestTyped DEF Creating, CoreInv, IdsInv
      <4>2. ~Known(http[d].id)'
        BY <1>3, <2>1, <3>2, <4>1 DEF NewId
      <4> QED
        BY <1>1, <1>2, <1>3, <2>0, <2>3, <3>2, <4>1, <4>2 DEF NewId, Creating
    <3> QED
      BY <3>1, <3>2
  <2> QED
    BY <1>1, <1>2, <2>1, <2>4 DEF IdsInv
<1>6. ASSUME Sound PROVE Sound'
  <2>1. QueuesInv'
    BY <1>1, <1>2, <1>3, <1>6 DEF Sound, QueuesInv, RequestSound, ConsumerSound, SharingSound,
                                  MadeFor, Shared, LookUp, IsQueue
  <2>2. ItemsInv' /\ ServedInv' /\ UniqueOnce'
    BY <1>2, <1>6 DEF Sound, ItemsInv, ItemsSuit, Suits, Distinct, ServedInv, UniqueOnce, Inside,
                      QueueItems
  <2> QED
    BY <2>1, <2>2 DEF Sound
<1> QED
  BY <1>4, <1>5, <1>6 DEF CoreInv

\* The queue of a consumer is made for what it asks for, or was, in this run, when it is
\* shared, and no other queue is touched.
LEMMA QueueCreated ==
  ASSUME CoreInv, NEW c \in Clients, createQueue(c), NEW info, info = wants[c],
         NEW id, id = QueueIdFor(info)
  PROVE  /\ id \in Ids /\ (Sound /\ ~outlived' /\ id # NoQueue => MadeFor(id, info)')
         /\ Kept /\ SharingKept /\ Shared(id, info)'
         /\ OnlyEmptyAdded /\ \A p \in Policies : DOMAIN queues[p] \subseteq DOMAIN queues'[p]
<1>1. /\ info \in Infos /\ DOMAIN queues = Policies
      /\ info \in DOMAIN queueReginfoLookup => queueReginfoLookup[info] \in Ids
      /\ Sound /\ info \in newlyShared /\ info.unique /\ queueReginfoLookup[info] # NoQueue =>
           MadeFor(queueReginfoLookup[info], info)
  BY DEF CoreInv, IInv, Typed, Sound, QueuesInv, SharingSound
<1>2. /\ queueReginfoLookup' = Put(queueReginfoLookup, info, id)
      /\ newlyShared' = newlyShared \cup {info}
      /\ ~outlived' /\ SharesQueue(info) => info \in newlyShared
  BY DEF createQueue
<1>3. /\ DOMAIN queueReginfoLookup' = DOMAIN queueReginfoLookup \cup {info}
      /\ queueReginfoLookup'[info] = id
      /\ \A i \in DOMAIN queueReginfoLookup : i # info =>
           queueReginfoLookup'[i] = queueReginfoLookup[i]
  BY <1>2 DEF Put
<1>4. Shared(id, info)'
  BY <1>2, <1>3 DEF Shared
<1>5. SharingKept
  BY <1>2, <1>3 DEF SharingKept, QueueIdFor, SharesQueue
<1>6. CASE SharesQueue(info)
  <2>1. id = queueReginfoLookup[info] /\ UNCHANGED queues
    BY <1>6 DEF QueueIdFor, createQueue
  <2> QED
    BY <1>1, <1>2, <1>4, <1>5, <1>6, <2>1 DEF SharesQueue, MadeFor, IsQueue, Kept, OnlyEmptyAdded
<1>7. CASE ~SharesQueue(info) /\ info.policy = "Max"
  <2>1. id = NoQueue /\ UNCHANGED queues
    BY <1>7 DEF QueueIdFor, createQueue
  <2> QED
    BY <1>4, <1>5, <2>1 DEF Kept, OnlyEmptyAdded, Ids
<1>8. CASE ~SharesQueue(info) /\ info.policy # "Max"
  <2> DEFINE q == NewQueue(info)
             s == queues[info.policy]
             t == Append(s, q)
  <2>1. info.policy \in Policies
    BY <1>1, <1>8, InfosAssumption
  <2>2. id = [policy |-> info.policy, index |-> Len(s) + 1]
    BY <1>8 DEF QueueIdFor
  <2>3. s \in Seq(Balanced) /\ Len(s) \in Nat /\ DOMAIN s = 1 .. Len(s) /\ q \in Balanced
    BY <1>1, <2>1, NewBalanced DEF CoreInv, IInv
  <2>4. id \in QueueIDs /\ id # NoQueue
    <3>1. id.policy # "Max"
      BY <1>8, <2>2
    <3> QED
      BY <2>1, <2>2, <2>3, <3>1 DEF QueueIDs, NoQueue
  <2>5. queues' = [queues EXCEPT ![info.policy] = t] /\ wants' = wants
    BY <1>8, <2>4 DEF createQueue, clientVars
  <2>6. /\ Len(t) = Len(s) + 1 /\ DOMAIN t = 1 .. Len(s) + 1 /\ t[Len(s) + 1] = q
        /\ \A i \in 1 .. Len(s) : t[i] = s[i]
    BY <2>3, AppendProperties
  <2>7. q.items = <<>> /\ q.info = info
    BY DEF NewQueue
  <2>8. DOMAIN queues' = Policies /\ queues'[info.policy] = t
        /\ \A p \in Policies : p # info.policy => queues'[p] = queues[p]
    BY <1>1, <2>1, <2>5
  <2> HIDE DEF t, q
  <2>9. MadeFor(id, info)'
    BY <2>1, <2>2, <2>3, <2>6, <2>7, <2>8 DEF MadeFor, IsQueue
  <2>10. \A p \in Policies : \A i \in DOMAIN queues[p] :
           i \in DOMAIN queues'[p] /\ queues'[p][i] = queues[p][i]
    BY <2>3, <2>6, <2>8
  <2>11. OnlyEmptyAdded
    <3>1. ASSUME NEW p \in Policies, NEW i \in DOMAIN queues'[p], i \notin DOMAIN queues[p]
          PROVE  queues'[p][i].items = <<>>
      <4>1. p = info.policy
        BY <2>8, <3>1
      <4>2. i = Len(s) + 1
        BY <2>3, <2>6, <2>8, <3>1, <4>1
      <4> QED
        BY <2>6, <2>7, <2>8, <4>1, <4>2
    <3> QED
      BY <2>10, <3>1 DEF OnlyEmptyAdded
  <2> QED
    BY <1>4, <1>5, <2>4, <2>9, <2>10, <2>11 DEF Kept, Ids
<1> QED
  BY <1>6, <1>7, <1>8

\* A queue that is made for a registration stays that when its contents change.
LEMMA QueuesStay ==
  ASSUME Sound, Kept, UNCHANGED <<wants, consumers, registrationQueue, run, lookupVars>>,
         DOMAIN selectors' = DOMAIN selectors,
         \A d \in Clients : http'[d] = http[d] \/ http'[d].at \in {"idle", "set", "write"}
  PROVE  QueuesInv'
<1>1. UNCHANGED <<queueIdLookup, queueReginfoLookup, newlyShared>> /\ SharingKept
  BY DEF lookupVars, SharingKept
<1>2. ASSUME NEW d \in Clients PROVE RequestSound(d)'
  <2>1. RequestSound(d)
    BY DEF Sound, QueuesInv
  <2>2. CASE http'[d] = http[d]
    BY <1>1, <2>1, <2>2, MadeForStays, SharedStays DEF RequestSound, LookUp
  <2>3. CASE http'[d].at \in {"idle", "set", "write"}
    BY <2>3 DEF RequestSound
  <2> QED
    BY <2>2, <2>3
<1>3. ASSUME NEW id \in DOMAIN consumers PROVE ConsumerSound(id)'
  <2>1. ConsumerSound(id)
    BY DEF Sound, QueuesInv
  <2> QED
    BY <1>1, <2>1, MadeForStays, SharedStays DEF ConsumerSound, LookUp
<1>4. ASSUME NEW info \in newlyShared PROVE SharingSound(info)'
  <2>1. SharingSound(info)
    BY DEF Sound, QueuesInv
  <2> QED
    BY <1>1, <2>1, MadeForStays DEF SharingSound
<1>5. \A i \in DOMAIN registrationQueue' :
        MadeFor(registrationQueue[i].queue, registrationQueue[i].info)'
  BY MadeForStays DEF Sound, QueuesInv
<1>6. \A k \in DOMAIN selectors' : MadeFor(k.queue, k.info)'
  BY MadeForStays DEF Sound, QueuesInv
<1> QED
  BY <1>1, <1>2, <1>3, <1>4, <1>5, <1>6 DEF QueuesInv

ItemsFewer ==
  \A p \in Policies : \A i \in DOMAIN queues'[p] :
    \/ queues'[p][i].items = <<>>
    \/ /\ i \in DOMAIN queues[p] /\ queues'[p][i].items = queues[p][i].items
       /\ queues'[p][i].info = queues[p][i].info
EventsKept ==
  \A n \in DOMAIN events :
    /\ n \in DOMAIN events' /\ events'[n].run = events[n].run
    /\ events'[n].label = events[n].label /\ events'[n].bits = events[n].bits

\* What is true of the events inside stays true where they stay, and where none is left.
LEMMA ItemsStay ==
  ASSUME Sound, Kept, ItemsFewer, EventsKept, UNCHANGED <<run, consumers, served>>
  PROVE  ItemsInv' /\ ServedInv' /\ UniqueOnce'
<1>1. ASSUME NEW n, NEW info, Suits(n, info) PROVE Suits(n, info)'
  BY <1>1 DEF Suits, EventsKept
<1>2. ASSUME NEW p \in Policies, NEW i \in DOMAIN queues'[p]
      PROVE  ItemsSuit(queues[p][i])' /\ Distinct(queues[p][i].items)'
  <2>1. CASE queues'[p][i].items = <<>>
    <3>1. DOMAIN queues'[p][i].items = {}
      BY <2>1
    <3> QED
      BY <3>1 DEF ItemsSuit, Distinct
  <2>2. CASE queues'[p][i].items # <<>>
    <3>1. /\ i \in DOMAIN queues[p] /\ queues'[p][i].items = queues[p][i].items
          /\ queues'[p][i].info = queues[p][i].info
      BY <2>2 DEF ItemsFewer
    <3>2. ItemsSuit(queues[p][i]) /\ Distinct(queues[p][i].items)
      BY <3>1 DEF Sound, ItemsInv
    <3> QED
      BY <1>1, <3>1, <3>2 DEF ItemsSuit, Distinct
  <2> QED
    BY <2>1, <2>2
<1>3. ASSUME NEW s \in served', s[1] \in DOMAIN consumers'
      PROVE  /\ Suits(s[2], consumers[s[1]].info)'
             /\ ~Inside(s[2], QueueItems(consumers[s[1]].queue))'
  <2> DEFINE r == consumers[s[1]]
  <2>1. Suits(s[2], r.info) /\ ~Inside(s[2], QueueItems(r.queue)) /\ MadeFor(r.queue, r.info)
    BY <1>3 DEF Sound, ServedInv, QueuesInv, ConsumerSound
  <2>2. r.queue.policy \in Policies /\ r.queue.index \in DOMAIN queues[r.queue.policy]
        /\ r.queue.index \in DOMAIN queues'[r.queue.policy]
    BY <2>1 DEF MadeFor, IsQueue, Kept
  <2>3. \/ queues'[r.queue.policy][r.queue.index].items = <<>>
        \/ queues'[r.queue.policy][r.queue.index].items = queues[r.queue.policy][r.queue.index].items
    BY <2>2 DEF ItemsFewer
  <2>4. ~Inside(s[2], queues'[r.queue.policy][r.queue.index].items)
    <3>1. CASE queues'[r.queue.policy][r.queue.index].items = <<>>
      <4>1. DOMAIN queues'[r.queue.policy][r.queue.index].items = {}
        BY <3>1
      <4> QED
        BY <4>1 DEF Inside
    <3>2. CASE queues'[r.queue.policy][r.queue.index].items
                 = queues[r.queue.policy][r.queue.index].items
      BY <2>1, <3>2 DEF QueueItems
    <3> QED
      BY <2>3, <3>1, <3>2
  <2> QED
    BY <1>1, <2>1, <2>4 DEF Inside, QueueItems
<1>4. UniqueOnce'
  BY DEF Sound, UniqueOnce
<1> QED
  BY <1>2, <1>3, <1>4 DEF ItemsInv, ServedInv

\* The queue of a consumer is created, or shared, while its id is new.
LEMMA createQueueStep ==
  ASSUME CoreInv, NEW c \in Clients, createQueue(c)
  PROVE  CoreInv' /\ (Sound /\ ~outlived' => Sound')
<1> DEFINE info == wants[c]
<1>1. PICK id : id = QueueIdFor(info)
  OBVIOUS
<1>2. /\ id \in Ids /\ (Sound /\ ~outlived' /\ id # NoQueue => MadeFor(id, info)')
      /\ Kept /\ SharingKept /\ Shared(id, info)'
      /\ OnlyEmptyAdded /\ \A p \in Policies : DOMAIN queues[p] \subseteq DOMAIN queues'[p]
  <2>1. PICK i : i = wants[c]
    OBVIOUS
  <2>2. /\ id \in Ids /\ (Sound /\ ~outlived' /\ id # NoQueue => MadeFor(id, i)')
        /\ Kept /\ SharingKept /\ Shared(id, i)'
        /\ OnlyEmptyAdded /\ \A p \in Policies : DOMAIN queues[p] \subseteq DOMAIN queues'[p]
    BY <1>1, <2>1, QueueCreated
  <2>3. wants'[c] = i
    BY <2>1 DEF createQueue, clientVars
  <2> QED
    BY <2>2, <2>3
<1>3. /\ http[c].at = "createQueue" /\ UNCHANGED <<wants, fp, run, registrationAllowed,
           nextConsumerId, consumers, registrationQueue, selectors, events, served>>
      /\ queueIdLookup' = Put(queueIdLookup, http[c].id, id)
      /\ queueReginfoLookup' = Put(queueReginfoLookup, info, id)
      /\ newlyShared' = newlyShared \cup {info}
  BY <1>1 DEF createQueue, clientVars, registrationVars
<1>4. /\ DOMAIN http = Clients /\ http' \in [Clients -> Requests]
      /\ \A d \in Clients : d # c => http'[d] = http[d]
      /\ \/ id = NoQueue /\ http'[c].at = "idle"
         \/ /\ id # NoQueue /\ http'[c].at = "addRegistration" /\ http'[c].queue = id
            /\ http'[c].id = http[c].id
  <2>1. http \in [Clients -> Requests] /\ Idle \in Requests /\ Idle.at = "idle"
    BY DEF CoreInv, Typed, Idle, Requests, Stages, Ids
  <2>2. CASE id = NoQueue
    <3>1. http' = [http EXCEPT ![c] = Idle]
      BY <1>1, <2>2 DEF createQueue, Reply
    <3> QED
      BY <2>1, <2>2, <3>1
  <2>3. CASE id # NoQueue
    <3> DEFINE g == [http EXCEPT ![c].at = "addRegistration"]
    <3>1. http' = [http EXCEPT ![c].at = "addRegistration", ![c].queue = id]
      BY <1>1, <2>3 DEF createQueue
    <3>2. g \in [Clients -> Requests] /\ g[c].at = "addRegistration" /\ g[c].id = http[c].id
          /\ \A d \in Clients : d # c => g[d] = http[d]
      BY <2>1 DEF Requests, Stages
    <3>3. http' = [g EXCEPT ![c].queue = id]
      BY <3>1, Zenon
    <3> HIDE DEF g
    <3>4. id \in Ids
      BY <1>2
    <3>5. http' \in [Clients -> Requests] /\ http'[c].at = "addRegistration" /\ http'[c].queue = id
          /\ http'[c].id = http[c].id /\ \A d \in Clients : d # c => http'[d] = http[d]
      BY <3>2, <3>3, <3>4 DEF Requests
    <3> QED
      BY <2>1, <2>3, <3>5
  <2> QED
    BY <2>2, <2>3
<1>5. IInv'
  BY HandlerStep DEF CoreInv, HttpHandler
<1>6. /\ DOMAIN queueIdLookup' = DOMAIN queueIdLookup \cup {http[c].id}
      /\ queueIdLookup'[http[c].id] = id
      /\ \A i \in DOMAIN queueIdLookup : i # http[c].id => queueIdLookup'[i] = queueIdLookup[i]
  BY <1>3 DEF Put
<1>7. /\ DOMAIN queueReginfoLookup' = DOMAIN queueReginfoLookup \cup {info}
      /\ queueReginfoLookup'[info] = id
      /\ \A i \in DOMAIN queueReginfoLookup : i # info =>
           queueReginfoLookup'[i] = queueReginfoLookup[i]
  BY <1>3 DEF Put
<1>8. Typed'
  BY <1>2, <1>3, <1>4, <1>6, <1>7 DEF CoreInv, Typed
<1>9. RunsInv'
  BY <1>2, <1>3 DEF CoreInv, RunsInv, NoItems, OnlyEmptyAdded
<1>10. IdsInv'
  BY <1>3, <1>4, IdsQuiet DEF CoreInv, Creating, Serving
<1>11. ASSUME Sound, ~outlived' PROVE QueuesInv'
  <2>1. id # NoQueue => MadeFor(id, wants[c])' /\ Shared(id, wants[c])'
    BY <1>2, <1>11
  <2>2. http[c].id \notin DOMAIN consumers
        /\ \A d \in Clients : d # c /\ Creating(d) => http[d].id # http[c].id
    BY <1>3 DEF CoreInv, IdsInv, Creating, NewId, Known
  <2>3. ASSUME NEW d \in Clients PROVE RequestSound(d)'
    <3>1. CASE d = c
      BY <1>2, <1>3, <1>4, <1>6, <2>1, <3>1 DEF RequestSound, LookUp, MadeFor, IsQueue, Shared
    <3>2. CASE d # c
      <4>1. RequestSound(d) /\ http'[d] = http[d] /\ wants'[d] = wants[d]
        BY <1>3, <1>4, <1>11, <3>2 DEF Sound, QueuesInv
      <4>2. http[d].at \in {"addRegistration", "enqueue"} =>
              MadeFor(http[d].queue, wants[d])' /\ Shared(http[d].queue, wants[d])'
        BY <1>2, <4>1, MadeForStays, SharedStays DEF RequestSound
      <4>3. http[d].at = "addRegistration" => LookUp(http[d].id, http[d].queue)'
        BY <1>6, <2>2, <3>2, <4>1 DEF RequestSound, LookUp, Creating
      <4> QED
        BY <1>3, <4>1, <4>2, <4>3 DEF RequestSound
    <3> QED
      BY <3>1, <3>2
  <2>4. ASSUME NEW k \in DOMAIN consumers PROVE ConsumerSound(k)'
    <3>1. ConsumerSound(k) /\ k # http[c].id
      BY <1>11, <2>2 DEF Sound, QueuesInv
    <3> QED
      BY <1>2, <1>3, <1>6, <3>1, MadeForStays, SharedStays DEF ConsumerSound, LookUp
  <2>5. ASSUME NEW i \in newlyShared' PROVE SharingSound(i)'
    <3>1. CASE i = info
      BY <1>2, <1>3, <1>7, <1>11, <3>1 DEF SharingSound, MadeFor, IsQueue
    <3>2. CASE i # info
      <4>1. SharingSound(i) /\ queueReginfoLookup'[i] = queueReginfoLookup[i]
        BY <1>3, <1>7, <1>11, <2>5, <3>2 DEF Sound, QueuesInv, SharingSound
      <4> QED
        BY <1>2, <1>7, <4>1, MadeForStays DEF SharingSound
    <3> QED
      BY <3>1, <3>2
  <2>6. \A i \in DOMAIN registrationQueue' :
          MadeFor(registrationQueue[i].queue, registrationQueue[i].info)'
    BY <1>2, <1>3, <1>11, MadeForStays DEF Sound, QueuesInv
  <2>7. \A k \in DOMAIN selectors' : MadeFor(k.queue, k.info)'
    BY <1>2, <1>3, <1>11, MadeForStays DEF Sound, QueuesInv
  <2> QED
    BY <1>3, <2>3, <2>4, <2>5, <2>6, <2>7 DEF QueuesInv
<1>12. ASSUME Sound PROVE ItemsInv' /\ ServedInv' /\ UniqueOnce'
  <2>1. ItemsFewer /\ EventsKept
    BY <1>2, <1>3 DEF OnlyEmptyAdded, ItemsFewer, Kept, EventsKept
  <2> QED
    BY <1>2, <1>3, <1>12, <2>1, ItemsStay
<1> QED
  BY <1>5, <1>8, <1>9, <1>10, <1>11, <1>12 DEF CoreInv, Sound

\* A request ends.
LEMMA ReplyStep ==
  ASSUME CoreInv, NEW c \in Clients, Reply(c),
         UNCHANGED <<clientVars, fp, run, registrationVars, registrationQueue, selectors, queues,
                     lookupVars, events, served>>
  PROVE  CoreInv' /\ (Sound => Sound')
<1>1. Idle \in Requests /\ Idle.at \in {"idle", "set", "write"}
  BY DEF Idle, Requests, Stages, Ids
<1> QED
  BY <1>1, QuietStep DEF Reply

\* A consumer is registered under its new id, with the queue made for it.
LEMMA addRegistrationInfoStep ==
  ASSUME CoreInv, NEW c \in Clients, addRegistrationInfo(c)
  PROVE  CoreInv' /\ (Sound => Sound')
<1>1. CASE ~registrationAllowed
  BY <1>1, ReplyStep DEF addRegistrationInfo, registrationVars
<1>2. CASE registrationAllowed
  <2> DEFINE id == http[c].id
             r == [info |-> wants[c], queue |-> http[c].queue, run |-> run]
  <2>1. /\ http[c].at = "addRegistration" /\ consumers' = Put(consumers, id, r)
        /\ http' = [http EXCEPT ![c].at = "enqueue"]
        /\ UNCHANGED <<wants, fp, run, registrationAllowed, nextConsumerId,
                       registrationQueue, selectors, queues, queueIdLookup, queueReginfoLookup,
                       newlyShared, events, served>>
    BY <1>2 DEF addRegistrationInfo, Proceed, clientVars, lookupVars
  <2>2. /\ DOMAIN consumers' = DOMAIN consumers \cup {id} /\ consumers'[id] = r
        /\ \A k \in DOMAIN consumers : k # id => consumers'[k] = consumers[k]
    BY <2>1 DEF Put
  <2>3. /\ http' \in [Clients -> Requests] /\ http'[c].at = "enqueue"
        /\ http'[c].queue = http[c].queue
        /\ \A d \in Clients : d # c => http'[d] = http[d]
    <3>1. http \in [Clients -> Requests]
      BY DEF CoreInv, Typed
    <3> QED
      BY <2>1, <3>1 DEF Requests, Stages
  <2>4. /\ id \in Nat /\ id <= nextConsumerId /\ ~Known(id)
        /\ \A d \in Clients : d # c /\ Creating(d) => http[d].id # id
    BY <2>1, RequestTyped DEF CoreInv, IdsInv, Creating, NewId
  <2>5. IInv' /\ Typed'
    BY <2>1, <2>3 DEF CoreInv, IInv, Typed
  <2>6. fp \notin Beginning
    BY <1>2 DEF CoreInv, Typed, Beginning
  <2>7. RunsInv'
    BY <2>1, <2>6 DEF CoreInv, RunsInv, NoItems, Beginning
  <2>8. IdsInv'
    <3>1. ASSUME NEW k, Known(k)' PROVE Known(k) \/ k = id
      BY <2>1, <2>2, <2>3, <3>1 DEF Known, Serving
    <3>2. ASSUME NEW d \in Clients, Creating(d)' PROVE NewId(d)'
      <4>1. d # c /\ Creating(d) /\ http'[d] = http[d] /\ NewId(d)
        BY <2>3, <3>2 DEF Creating, CoreInv, IdsInv
      <4>2. ~Known(http[d].id)'
        BY <2>4, <3>1, <4>1 DEF NewId
      <4> QED
        BY <2>1, <2>3, <4>1, <4>2 DEF NewId, Creating
    <3> QED
      BY <2>1, <2>4, <3>1, <3>2 DEF CoreInv, IdsInv
  <2>9. ASSUME Sound PROVE QueuesInv'
    <3>1. Kept /\ SharingKept
      BY <2>1 DEF Kept, SharingKept
    <3>2. ASSUME NEW d \in Clients PROVE RequestSound(d)'
      <4>1. RequestSound(d)
        BY <2>9 DEF Sound, QueuesInv
      <4>2. CASE d = c
        BY <2>1, <2>3, <3>1, <4>1, <4>2, MadeForStays, SharedStays DEF RequestSound
      <4>3. CASE d # c
        <5>1. Serving(d) => http[d].id # id
          BY <2>4 DEF Known
        <5>2. http[d].at = "pop" /\ http[d].id \in DOMAIN consumers' =>
                /\ http[d].id \in DOMAIN consumers
                /\ consumers'[http[d].id] = consumers[http[d].id]
          BY <2>2, <5>1 DEF Serving
        <5> QED
          BY <2>1, <2>3, <3>1, <4>1, <4>3, <5>2, MadeForStays, SharedStays DEF RequestSound, LookUp
      <4> QED
        BY <4>2, <4>3
    <3>3. ASSUME NEW k \in DOMAIN consumers' PROVE ConsumerSound(k)'
      <4>1. CASE k = id
        <5>1. /\ MadeFor(http[c].queue, wants[c]) /\ Shared(http[c].queue, wants[c])
              /\ LookUp(id, http[c].queue)
          BY <2>1, <2>9 DEF Sound, QueuesInv, RequestSound
        <5> QED
          BY <2>1, <2>2, <4>1, <5>1 DEF ConsumerSound, MadeFor, IsQueue, Shared, LookUp
      <4>2. CASE k # id
        <5>1. ConsumerSound(k) /\ consumers'[k] = consumers[k]
          BY <2>2, <2>9, <4>2 DEF Sound, QueuesInv
        <5> QED
          BY <2>1, <5>1 DEF ConsumerSound, MadeFor, IsQueue, Shared, LookUp
      <4> QED
        BY <4>1, <4>2
    <3> QED
      BY <2>1, <2>9, <3>2, <3>3 DEF Sound, QueuesInv, SharingSound, MadeFor, IsQueue
  <2>10. Sound => ItemsInv'
    BY <2>1 DEF Sound, ItemsInv, ItemsSuit, Suits, Distinct
  <2>11. \A s \in served : s[1] # id
    BY <2>4 DEF Known
  <2>12. ASSUME Sound PROVE ServedInv'
    <3>1. ASSUME NEW s \in served, s[1] \in DOMAIN consumers'
          PROVE  /\ Suits(s[2], consumers[s[1]].info)'
                 /\ ~Inside(s[2], QueueItems(consumers[s[1]].queue))'
      <4>1. s[1] \in DOMAIN consumers /\ consumers'[s[1]] = consumers[s[1]]
        BY <2>2, <2>11, <3>1
      <4>2. /\ Suits(s[2], consumers[s[1]].info)
            /\ ~Inside(s[2], QueueItems(consumers[s[1]].queue))
        BY <2>12, <4>1 DEF Sound, ServedInv
      <4> QED
        BY <2>1, <4>1, <4>2 DEF Suits, Inside, QueueItems
    <3> QED
      BY <2>1, <3>1 DEF ServedInv
  <2>13. Sound => UniqueOnce'
    BY <2>1, <2>2, <2>11 DEF Sound, UniqueOnce
  <2> QED
    BY <2>5, <2>7, <2>8, <2>9, <2>10, <2>12, <2>13 DEF CoreInv, Sound
<1> QED
  BY <1>1, <1>2

\* The registration that is handed over is one whose queue exists.
LEMMA enqueueRegistrationStep ==
  ASSUME CoreInv, NEW c \in Clients, enqueueRegistration(c)
  PROVE  CoreInv' /\ (Sound => Sound')
<1> DEFINE e == [info |-> wants[c], queue |-> http[c].queue]
           t == Append(registrationQueue, e)
<1>1. /\ http[c].at = "enqueue" /\ registrationQueue' = t /\ http' = [http EXCEPT ![c] = Idle]
      /\ UNCHANGED <<wants, fp, run, registrationAllowed, nextConsumerId, consumers, selectors,
                     queues, queueIdLookup, queueReginfoLookup, newlyShared, events, served>>
  BY DEF enqueueRegistration, Reply, registrationVars, lookupVars
<1>2. Idle \in Requests /\ Idle.at = "idle"
  BY DEF Idle, Requests, Stages, Ids
<1>3. /\ http' \in [Clients -> Requests] /\ http'[c].at = "idle"
      /\ \A d \in Clients : d # c => http'[d] = http[d]
  BY <1>1, <1>2 DEF CoreInv, Typed
<1>4. e \in Registrations
  <2>1. http[c].queue \in Ids /\ wants[c] \in Infos
    BY RequestTyped DEF CoreInv, IInv
  <2> QED
    BY <2>1 DEF Registrations
<1>5. /\ t \in Seq(Registrations) /\ DOMAIN t = 1 .. Len(registrationQueue) + 1
      /\ Len(registrationQueue) \in Nat
      /\ DOMAIN registrationQueue = 1 .. Len(registrationQueue)
      /\ t[Len(registrationQueue) + 1] = e
      /\ \A i \in 1 .. Len(registrationQueue) : t[i] = registrationQueue[i]
  <2>1. registrationQueue \in Seq(Registrations)
    BY DEF CoreInv, Typed
  <2> QED
    BY <1>4, <2>1, AppendProperties
<1>6. e.info = wants[c] /\ e.queue = http[c].queue
  OBVIOUS
<1> HIDE DEF t, e
<1>7. IInv' /\ Typed' /\ RunsInv'
  BY <1>1, <1>3, <1>5 DEF CoreInv, IInv, Typed, RunsInv, NoItems
<1>8. IdsInv'
  BY <1>1, <1>3, IdsQuiet DEF CoreInv, Creating, Serving
<1>9. ASSUME Sound PROVE QueuesInv'
  <2>1. Kept /\ SharingKept
    BY <1>1 DEF Kept, SharingKept
  <2>2. ASSUME NEW d \in Clients PROVE RequestSound(d)'
    <3>1. RequestSound(d)
      BY <1>9 DEF Sound, QueuesInv
    <3> QED
      BY <1>1, <1>3, <2>1, <3>1, MadeForStays, SharedStays DEF RequestSound, LookUp
  <2>3. MadeFor(http[c].queue, wants[c])
    BY <1>1, <1>9 DEF Sound, QueuesInv, RequestSound
  <2>4. ASSUME NEW i \in DOMAIN registrationQueue'
        PROVE  MadeFor(registrationQueue[i].queue, registrationQueue[i].info)'
    <3>1. MadeFor(t[i].queue, t[i].info)
      <4>1. CASE i = Len(registrationQueue) + 1
        BY <1>5, <1>6, <2>3, <4>1
      <4>2. CASE i \in DOMAIN registrationQueue
        BY <1>5, <1>9, <4>2 DEF Sound, QueuesInv
      <4> QED
        BY <1>1, <1>5, <4>1, <4>2
    <3> QED
      BY <1>1, <2>1, <3>1, MadeForStays
  <2> QED
    BY <1>1, <1>9, <2>2, <2>4 DEF Sound, QueuesInv, SharingSound, ConsumerSound, Shared, LookUp,
                                  MadeFor, IsQueue
<1>10. ASSUME Sound PROVE ItemsInv' /\ ServedInv' /\ UniqueOnce'
  <2>1. Kept /\ ItemsFewer /\ EventsKept
    BY <1>1 DEF Kept, ItemsFewer, EventsKept
  <2> QED
    BY <1>1, <1>10, <2>1, ItemsStay
<1> QED
  BY <1>7, <1>8, <1>9, <1>10 DEF CoreInv, Sound

\* A consumer asks for an event, and its queue is looked up.
LEMMA AskingStep ==
  ASSUME CoreInv, NEW c \in Clients, NEW h \in Requests, h.at \in {"lookup", "pop"},
         Known(h.id), http' = [http EXCEPT ![c] = h],
         Sound => (h.at = "pop" /\ h.id \in DOMAIN consumers => h.queue = consumers[h.id].queue),
         UNCHANGED <<clientVars, fp, run, registrationVars, registrationQueue, selectors, queues,
                     lookupVars, events, served>>
  PROVE  CoreInv' /\ (Sound => Sound')
<1>1. /\ http' \in [Clients -> Requests] /\ http'[c] = h
      /\ \A d \in Clients : d # c => http'[d] = http[d]
  BY DEF CoreInv, Typed
<1>2. UNCHANGED <<wants, fp, run, registrationAllowed, nextConsumerId, consumers,
                  registrationQueue, selectors, queues, queueIdLookup, queueReginfoLookup,
                  newlyShared, events, served>>
  BY DEF clientVars, registrationVars, lookupVars
<1>3. IInv' /\ Typed' /\ RunsInv'
  BY <1>1, <1>2 DEF CoreInv, IInv, Typed, RunsInv, NoItems
<1>4. IdsInv'
  <2>1. ASSUME NEW id, Known(id)' PROVE Known(id)
    BY <1>1, <1>2, <2>1 DEF Known, Serving
  <2> QED
    BY <1>1, <1>2, <2>1, IdsStay DEF CoreInv, Creating
<1>5. ASSUME Sound PROVE QueuesInv'
  <2>1. ASSUME NEW d \in Clients PROVE RequestSound(d)'
    <3>1. RequestSound(d)
      BY <1>5 DEF Sound, QueuesInv
    <3> QED
      BY <1>1, <1>2, <1>5, <3>1 DEF RequestSound, MadeFor, IsQueue, Shared, LookUp
  <2> QED
    BY <1>2, <1>5, <2>1 DEF Sound, QueuesInv, SharingSound, ConsumerSound, Shared, LookUp,
                            MadeFor, IsQueue
<1>6. ASSUME Sound PROVE ItemsInv' /\ ServedInv' /\ UniqueOnce'
  <2>1. Kept /\ ItemsFewer /\ EventsKept
    BY <1>2 DEF Kept, ItemsFewer, EventsKept
  <2> QED
    BY <1>2, <1>6, <2>1, ItemsStay
<1> QED
  BY <1>3, <1>4, <1>5, <1>6 DEF CoreInv, Sound

\* A consumer may ask for an event as long as it is registered.
LEMMA processConsumerEventRequestStep ==
  ASSUME CoreInv, NEW c \in Clients, processConsumerEventRequest(c)
  PROVE  CoreInv' /\ (Sound => Sound')
<1> DEFINE id == client[c].id
<1>1. UNCHANGED <<clientVars, fp, run, registrationVars, registrationQueue, selectors, queues,
                  lookupVars, events, served>>
  BY DEF processConsumerEventRequest
<1>2. CASE UNCHANGED http
  BY <1>1, <1>2, SilentStep
<1>3. CASE ~UNCHANGED http
  <2> DEFINE h == [Idle EXCEPT !.at = "lookup", !.id = id]
  <2>1. id \in DOMAIN consumers /\ http' = [http EXCEPT ![c] = h]
    BY <1>3 DEF processConsumerEventRequest
  <2>2. Known(id) /\ "lookup" \in Stages
    BY <2>1 DEF Known, Stages
  <2>3. id \in Nat
    BY <2>2 DEF CoreInv, IdsInv
  <2>4. h \in Requests /\ h.at = "lookup" /\ h.id = id
    BY <2>2, <2>3, RequestBegun
  <2> HIDE DEF h
  <2> QED
    BY <1>1, <2>1, <2>2, <2>4, AskingStep
<1> QED
  BY <1>2, <1>3

\* The queue that is looked up is that of the registration, if there still is one.
LEMMA lookupQueueStep ==
  ASSUME CoreInv, NEW c \in Clients, lookupQueue(c)
  PROVE  CoreInv' /\ (Sound => Sound')
<1>1. /\ http[c].at = "lookup"
      /\ UNCHANGED <<clientVars, fp, run, registrationVars, registrationQueue, selectors, queues,
                     lookupVars, events, served>>
  BY DEF lookupQueue
<1>2. CASE Reply(c)
  BY <1>1, <1>2, ReplyStep
<1>3. CASE ~Reply(c)
  <2> DEFINE g == [http[c] EXCEPT !.at = "pop"]
             h == [g EXCEPT !.queue = queueIdLookup[http[c].id]]
  <2>1. /\ http' = [http EXCEPT ![c].at = "pop", ![c].queue = queueIdLookup[http[c].id]]
        /\ http[c].id \in DOMAIN queueIdLookup
    BY <1>1, <1>3 DEF lookupQueue
  <2>2. queueIdLookup[http[c].id] \in Ids
    BY <2>1 DEF CoreInv, Typed
  <2>3. ASSUME Sound, http[c].id \in DOMAIN consumers
        PROVE  queueIdLookup[http[c].id] = consumers[http[c].id].queue
    <3>1. ConsumerSound(http[c].id)
      BY <2>3 DEF Sound, QueuesInv
    <3> QED
      BY <3>1 DEF ConsumerSound, LookUp
  <2>4. http \in [Clients -> Requests] /\ http[c] \in Requests
    BY DEF CoreInv, Typed
  <2>5. http' = [http EXCEPT ![c] = h]
    BY <2>1, <2>4, Zenon
  <2>6. g \in Requests /\ g.at = "pop" /\ g.id = http[c].id
    BY <2>4 DEF Requests, Stages
  <2> HIDE DEF g
  <2>7. h \in Requests /\ h.at = "pop" /\ h.id = http[c].id
        /\ h.queue = queueIdLookup[http[c].id]
    BY <2>2, <2>6 DEF Requests
  <2> HIDE DEF h
  <2>8. Known(http[c].id)
    BY <1>1 DEF Known, Serving
  <2> QED
    BY <1>1, <2>3, <2>5, <2>7, <2>8, AskingStep
<1> QED
  BY <1>2, <1>3

\* The losses of one consumer go into the header of the event, and nothing else does.
LEMMA setDroppedEventsCountStep ==
  ASSUME CoreInv, NEW c \in Clients, setDroppedEventsCount(c)
  PROVE  CoreInv' /\ (Sound => Sound')
<1> DEFINE k == http[c].event
<1>1. /\ http[c].at = "set" /\ http' = [http EXCEPT ![c].at = "write"]
      /\ events' = [events EXCEPT ![k].droppedEventsCount = http[c].losses]
      /\ UNCHANGED <<wants, fp, run, registrationAllowed, nextConsumerId, consumers,
                     registrationQueue, selectors, queues, queueIdLookup, queueReginfoLookup,
                     newlyShared, served>>
  BY DEF setDroppedEventsCount, Proceed, clientVars, registrationVars, lookupVars
<1>2. /\ http' \in [Clients -> Requests] /\ http'[c].at = "write"
      /\ \A d \in Clients : d # c => http'[d] = http[d]
  <2>1. http \in [Clients -> Requests]
    BY DEF CoreInv, Typed
  <2> QED
    BY <1>1, <2>1 DEF Requests, Stages
<1>3. events' \in Seq(EventRecords) /\ DOMAIN events' = DOMAIN events /\ EventsKept
  <2> DEFINE e == [events[k] EXCEPT !.droppedEventsCount = http[c].losses]
  <2>1. events \in Seq(EventRecords) /\ http[c].losses \in Nat
    BY RequestTyped DEF CoreInv, Typed
  <2>2. Len(events) \in Nat /\ DOMAIN events = 1 .. Len(events)
    BY <2>1
  <2>3. events' = [events EXCEPT ![k] = e]
    BY <1>1
  <2>4. ASSUME k \in DOMAIN events
        PROVE  /\ e \in EventRecords /\ e.run = events[k].run /\ e.label = events[k].label
               /\ e.bits = events[k].bits
    <3>1. events[k] \in EventRecords
      BY <2>1, <2>4
    <3> QED
      BY <2>1, <3>1 DEF EventRecords
  <2> HIDE DEF e, k
  <2>5. DOMAIN events' = DOMAIN events
        /\ \A n \in DOMAIN events : events'[n] = IF n = k THEN e ELSE events[n]
    BY <2>2, <2>3
  <2>6. EventsKept
    BY <2>4, <2>5 DEF EventsKept
  <2>7. events' \in [1 .. Len(events) -> EventRecords]
    <3>1. events' = [n \in 1 .. Len(events) |-> events'[n]]
      BY <2>2, <2>3
    <3>2. \A n \in 1 .. Len(events) : events'[n] \in EventRecords
      BY <2>1, <2>2, <2>4, <2>5
    <3> QED
      BY <3>1, <3>2
  <2>8. events' \in Seq(EventRecords)
    BY <2>2, <2>7, SeqDef
  <2> QED
    BY <2>5, <2>6, <2>8
<1>4. IInv' /\ Typed' /\ RunsInv'
  <2>1. IInv'
    BY HandlerStep DEF CoreInv, HttpHandler
  <2>2. Typed' /\ RunsInv'
    BY <1>1, <1>2, <1>3 DEF CoreInv, Typed, RunsInv, NoItems
  <2> QED
    BY <2>1, <2>2
<1>5. IdsInv'
  BY <1>1, <1>2, IdsQuiet DEF CoreInv, Creating, Serving
<1>6. Kept /\ ItemsFewer
  BY <1>1 DEF Kept, ItemsFewer
<1>7. Sound => QueuesInv'
  BY <1>1, <1>2, <1>6, QueuesStay DEF setDroppedEventsCount
<1>8. Sound => ItemsInv' /\ ServedInv' /\ UniqueOnce'
  BY <1>1, <1>3, <1>6, ItemsStay
<1> QED
  BY <1>4, <1>5, <1>7, <1>8 DEF CoreInv, Sound

-----------------------------------------------------------------------------
(* Popping.                                                                *)

Replaced(p, i, q) ==
  /\ \A t \in Policies : DOMAIN queues'[t] = DOMAIN queues[t]
  /\ queues'[p][i] = q
  /\ \A t \in Policies : \A j \in DOMAIN queues[t] :
       t # p \/ j # i => queues'[t][j] = queues[t][j]

\* One queue is replaced and the others stay.
LEMMA OneQueueSet ==
  ASSUME IInv, NEW p \in Policies, NEW i \in DOMAIN queues[p], NEW q,
         queues' = [queues EXCEPT ![p][i] = q]
  PROVE  Replaced(p, i, q)
<1>1. DOMAIN queues = Policies
  BY DEF IInv
<1>2. queues'[p] = [queues[p] EXCEPT ![i] = q] /\ \A r \in Policies : r # p => queues'[r] = queues[r]
  BY <1>1
<1> QED
  BY <1>2 DEF Replaced

\* What is left in a queue when an event is popped.
LEMMA PoppedItems ==
  ASSUME NEW q \in Balanced
  PROVE  LET r == [q EXCEPT !.stale = FALSE, !.items = Tail(@), !.dropped = 0, !.popped = @ + 1,
                            !.handed = @ + q.dropped]
         IN r.items = Tail(q.items) /\ r.info = q.info
<1> DEFINE rest == Tail(q.items)
           popped == q.popped + 1
           handed == q.handed + q.dropped
           r1 == [q EXCEPT !.stale = FALSE]
           r2 == [r1 EXCEPT !.items = rest]
           r3 == [r2 EXCEPT !.dropped = 0]
           r4 == [r3 EXCEPT !.popped = popped]
           r5 == [r4 EXCEPT !.handed = handed]
           names == {"items", "dropped", "stale", "size", "info", "tagged", "popped", "handed"}
<1>1. [q EXCEPT !.stale = FALSE, !.items = Tail(@), !.dropped = 0, !.popped = @ + 1,
                !.handed = @ + q.dropped] = r5
  BY Zenon
<1>2. DOMAIN q = names
  BY DEF Balanced, Queues
<1> HIDE DEF rest, popped, handed
<1>3. DOMAIN r1 = names /\ r1.info = q.info
  BY <1>2
<1> HIDE DEF r1
<1>4. DOMAIN r2 = names /\ r2.info = q.info /\ r2.items = rest
  BY <1>3
<1> HIDE DEF r2
<1>5. DOMAIN r3 = names /\ r3.info = q.info /\ r3.items = rest
  BY <1>4
<1> HIDE DEF r3
<1>6. DOMAIN r4 = names /\ r4.info = q.info /\ r4.items = rest
  BY <1>5
<1> HIDE DEF r4
<1>7. r5.info = q.info /\ r5.items = rest
  BY <1>6
<1> HIDE DEF r5
<1> QED
  BY <1>1, <1>7 DEF rest

\* The first event of a queue is not among the rest, which was there before.
LEMMA HeadAndRest ==
  ASSUME NEW s \in Seq(Nat), s # <<>>, Distinct(s)
  PROVE  /\ Head(s) \in Nat /\ Inside(Head(s), s) /\ ~Inside(Head(s), Tail(s)) /\ Distinct(Tail(s))
         /\ \A j \in DOMAIN Tail(s) : j + 1 \in DOMAIN s /\ Tail(s)[j] = s[j + 1]
         /\ 1 \in DOMAIN s /\ Head(s) = s[1]
<1> DEFINE rest == Tail(s)
           first == Head(s)
<1>1. /\ Len(s) \in Nat \ {0} /\ DOMAIN s = 1 .. Len(s) /\ first = s[1] /\ first \in Nat
      /\ rest \in Seq(Nat) /\ Len(rest) = Len(s) - 1
      /\ \A j \in 1 .. Len(rest) : rest[j] = s[j + 1]
  BY HeadTailProperties, EmptySeq
<1>2. DOMAIN rest = 1 .. Len(s) - 1
  BY <1>1
<1> HIDE DEF rest, first
<1>3. \A j \in DOMAIN rest : j + 1 \in DOMAIN s /\ j + 1 # 1 /\ rest[j] = s[j + 1]
  BY <1>1, <1>2
<1>4. 1 \in DOMAIN s
  BY <1>1
<1>5. Inside(first, s)
  BY <1>1, <1>4 DEF Inside
<1>6. ~Inside(first, rest)
  BY <1>1, <1>3, <1>4 DEF Inside, Distinct
<1>7. Distinct(rest)
  BY <1>1, <1>2, <1>3 DEF Distinct
<1> QED
  BY <1>1, <1>3, <1>4, <1>5, <1>6, <1>7 DEF rest, first

ServedTo(k, n) == served' = served \cup {<<k, n>>}

\* An event that is popped is one that the consumer wants, and that no other consumer with
\* its registration for unique events was served.
LEMMA EventPopped ==
  ASSUME Sound, NEW p \in Policies, NEW i \in DOMAIN queues[p], NEW q, NEW n,
         Inside(n, queues[p][i].items), ~Inside(n, q.items), Distinct(q.items),
         \A m : Inside(m, q.items) => Inside(m, queues[p][i].items),
         q.info = queues[p][i].info, Replaced(p, i, q),
         NEW k,
         k \in DOMAIN consumers => consumers[k].queue.policy = p /\ consumers[k].queue.index = i,
         ServedTo(k, n),
         UNCHANGED <<events, run, consumers, queueReginfoLookup>>
  PROVE  ItemsInv' /\ ServedInv' /\ UniqueOnce'
<1>3. /\ \A t \in Policies : DOMAIN queues'[t] = DOMAIN queues[t]
      /\ queues'[p][i] = q
      /\ \A t \in Policies : \A j \in DOMAIN queues[t] :
           t # p \/ j # i => queues'[t][j] = queues[t][j]
  BY DEF Replaced
<1>0. served' = served \cup {<<k, n>>}
  BY DEF ServedTo
<1>4. k \in DOMAIN consumers => ConsumerSound(k)
  BY DEF Sound, QueuesInv
<1> DEFINE items == queues[p][i].items
           info == queues[p][i].info
           r == consumers[k]
<1>1. ItemsSuit(queues[p][i])
  BY DEF Sound, ItemsInv
<1>5. k \in DOMAIN consumers => r.info = info
  BY <1>4 DEF ConsumerSound, MadeFor
<1>7. ASSUME NEW m, NEW f, Suits(m, f) PROVE Suits(m, f)'
  BY <1>7 DEF Suits
<1>8. Suits(n, info)
  BY <1>1 DEF ItemsSuit, Suits, Inside
<1>10. ItemsInv'
  <2>1. ASSUME NEW t \in Policies, NEW j \in DOMAIN queues'[t]
        PROVE  ItemsSuit(queues[t][j])' /\ Distinct(queues[t][j].items)'
    <3>1. CASE t = p /\ j = i
      <4>1. \A m \in DOMAIN q.items : Suits(q.items[m], q.info)'
        <5>1. ASSUME NEW m \in DOMAIN q.items PROVE Suits(q.items[m], q.info)'
          <6>1. Inside(q.items[m], items)
            BY DEF Inside
          <6>2. Suits(q.items[m], q.info)
            BY <1>1, <6>1 DEF ItemsSuit, Inside
          <6> QED
            BY <1>7, <6>2
        <5> QED
          BY <5>1
      <4> QED
        BY <1>3, <3>1, <4>1 DEF ItemsSuit, Distinct
    <3>2. CASE t # p \/ j # i
      <4>1. /\ j \in DOMAIN queues[t] /\ queues'[t][j] = queues[t][j]
            /\ ItemsSuit(queues[t][j]) /\ Distinct(queues[t][j].items)
        BY <1>3, <3>2 DEF Sound, ItemsInv
      <4> QED
        BY <1>7, <4>1 DEF ItemsSuit, Distinct
    <3> QED
      BY <3>1, <3>2
  <2> QED
    BY <2>1 DEF ItemsInv
<1>11. ServedInv'
  <2>1. ASSUME NEW s \in served', s[1] \in DOMAIN consumers'
        PROVE  /\ Suits(s[2], consumers[s[1]].info)'
               /\ ~Inside(s[2], QueueItems(consumers[s[1]].queue))'
    <3>1. CASE s \in served
      <4> DEFINE u == consumers[s[1]]
      <4>1. /\ Suits(s[2], u.info) /\ ~Inside(s[2], QueueItems(u.queue)) /\ MadeFor(u.queue, u.info)
        BY <2>1, <3>1 DEF Sound, ServedInv, QueuesInv, ConsumerSound
      <4>2. CASE u.queue.policy = p /\ u.queue.index = i
        <5>1. ~Inside(s[2], items)
          BY <4>1, <4>2 DEF QueueItems
        <5>2. ~Inside(s[2], q.items)
          BY <5>1
        <5> QED
          BY <1>3, <1>7, <4>1, <4>2, <5>2 DEF QueueItems, Inside
      <4>3. CASE u.queue.policy # p \/ u.queue.index # i
        <5>1. u.queue.policy \in Policies /\ u.queue.index \in DOMAIN queues[u.queue.policy]
          BY <4>1 DEF MadeFor, IsQueue
        <5>2. queues'[u.queue.policy][u.queue.index] = queues[u.queue.policy][u.queue.index]
          BY <1>3, <4>3, <5>1
        <5> QED
          BY <1>7, <4>1, <5>2 DEF QueueItems, Inside
      <4> QED
        BY <4>2, <4>3
    <3>2. CASE s = <<k, n>>
      <4>1. s[1] = k /\ s[2] = n
        BY <3>2
      <4> QED
        BY <1>3, <1>4, <1>5, <1>7, <1>8, <2>1, <4>1 DEF QueueItems, Inside
    <3> QED
      BY <1>0, <3>1, <3>2
  <2> QED
    BY <2>1 DEF ServedInv
<1>12. ASSUME NEW t \in served, t[2] = n, t[1] # k, t[1] \in DOMAIN consumers,
              k \in DOMAIN consumers,
              consumers[t[1]].info = r.info, r.info.unique
       PROVE  FALSE
  <2>1. ConsumerSound(t[1]) /\ ~Inside(n, QueueItems(consumers[t[1]].queue))
    BY <1>12 DEF Sound, QueuesInv, ServedInv
  <2>2. consumers[t[1]].queue = r.queue
    BY <1>4, <1>12, <2>1 DEF ConsumerSound, Shared
  <2> QED
    BY <1>4, <1>12, <2>1, <2>2 DEF QueueItems
<1>13. UniqueOnce'
  <2>1. ASSUME NEW s \in served', NEW t \in served', s[2] = t[2], s[1] # t[1],
               s[1] \in DOMAIN consumers, t[1] \in DOMAIN consumers,
               consumers[s[1]].info = consumers[t[1]].info, consumers[s[1]].info.unique
        PROVE  FALSE
    <3>1. <<k, n>>[1] = k /\ <<k, n>>[2] = n
      OBVIOUS
    <3>2. CASE s \in served /\ t \in served
      BY <2>1, <3>2 DEF Sound, UniqueOnce
    <3>3. CASE s = <<k, n>> /\ t \in served
      BY <1>12, <2>1, <3>1, <3>3
    <3>4. CASE s \in served /\ t = <<k, n>>
      BY <1>12, <2>1, <3>1, <3>4
    <3>5. CASE s = <<k, n>> /\ t = <<k, n>>
      BY <2>1, <3>5
    <3> QED
      BY <1>0, <3>2, <3>3, <3>4, <3>5
  <2> QED
    BY <2>1 DEF UniqueOnce
<1> QED
  BY <1>10, <1>11, <1>13

\* A consumer is handed the next event of its queue, if there is one; a request that is
\* late may be handed one of a queue that is not its own any more.
LEMMA popEventStep ==
  ASSUME CoreInv, NEW c \in Clients, popEvent(c)
  PROVE  CoreInv' /\ (Sound => Sound')
<1> DEFINE id == http[c].queue
           q == queues[id.policy][id.index]
           fresh == [q EXCEPT !.stale = FALSE]
           after == [fresh EXCEPT !.items = Tail(@), !.dropped = 0, !.popped = @ + 1,
                                  !.handed = @ + q.dropped]
<1>1. /\ http[c].at = "pop"
      /\ UNCHANGED <<wants, fp, run, registrationAllowed, nextConsumerId, consumers,
                     registrationQueue, selectors, queueIdLookup, queueReginfoLookup,
                     newlyShared, events>>
  BY DEF popEvent, clientVars, registrationVars, lookupVars
<1>2. http \in [Clients -> Requests] /\ Idle \in Requests /\ Idle.at = "idle"
  BY DEF CoreInv, Typed, Idle, Requests, Stages, Ids
<1>3. CASE ~IsQueue(id)
  <2>1. Reply(c) /\ UNCHANGED <<queues, served>>
    BY <1>3 DEF popEvent
  <2>2. UNCHANGED <<clientVars, fp, run, registrationVars, registrationQueue, selectors,
                    lookupVars, events>>
    BY DEF popEvent
  <2> QED
    BY <2>1, <2>2, ReplyStep
<1>4. CASE IsQueue(id)
  <2>1. id.policy \in Policies /\ id.index \in DOMAIN queues[id.policy]
    BY <1>4 DEF IsQueue
  <2>2. q \in Queues /\ q \in Balanced
    BY <2>1, QueueTyped DEF CoreInv
  <2>3. IInv'
    BY HandlerStep DEF CoreInv, HttpHandler
  <2>4. Sound /\ http[c].id \in DOMAIN consumers => id = consumers[http[c].id].queue
    BY <1>1 DEF Sound, QueuesInv, RequestSound
  <2>5. ASSUME http' \in [Clients -> Requests], http'[c].at \in {"idle", "set"},
               \A d \in Clients : d # c => http'[d] = http[d], Kept,
               \A s \in served' : s \in served \/ s[1] = http[c].id,
               NoItems => NoItems', Sound => ItemsInv' /\ ServedInv' /\ UniqueOnce'
        PROVE  CoreInv' /\ (Sound => Sound')
    <3>1. Typed' /\ RunsInv'
      BY <1>1, <2>5 DEF CoreInv, Typed, RunsInv
    <3>2. IdsInv'
      <4>1. ASSUME NEW k, Known(k)' PROVE Known(k)
        BY <1>1, <2>5, <4>1 DEF Known, Serving
      <4> QED
        BY <1>1, <2>5, <4>1, IdsStay DEF CoreInv, Creating
    <3>3. \A d \in Clients : http'[d] = http[d] \/ http'[d].at \in {"idle", "set", "write"}
      BY <2>5
    <3>4. UNCHANGED <<wants, consumers, registrationQueue, run, lookupVars, selectors>>
      BY DEF popEvent, clientVars, registrationVars
    <3>5. Sound => QueuesInv'
      BY <2>5, <3>3, <3>4, QueuesStay
    <3> QED
      BY <2>3, <2>5, <3>1, <3>2, <3>5 DEF CoreInv, Sound
  <2>6. CASE q.items = <<>>
    <3>1. /\ queues' = [queues EXCEPT ![id.policy][id.index] = fresh]
          /\ http' = [http EXCEPT ![c] = Idle] /\ served' = served
      BY <1>4, <2>6 DEF popEvent, Reply
    <3>2. fresh.items = q.items /\ fresh.info = q.info
      BY <2>2 DEF Queues
    <3>3. Replaced(id.policy, id.index, fresh)
      BY <2>1, <3>1, OneQueueSet DEF CoreInv
    <3> HIDE DEF fresh
    <3>4. Kept /\ ItemsFewer /\ EventsKept
      BY <1>1, <2>1, <3>2, <3>3 DEF Replaced, Kept, ItemsFewer, EventsKept
    <3>5. Sound => ItemsInv' /\ ServedInv' /\ UniqueOnce'
      BY <1>1, <3>1, <3>4, ItemsStay
    <3>6. NoItems => NoItems'
      BY <3>4 DEF NoItems, ItemsFewer
    <3> QED
      BY <1>2, <2>5, <3>1, <3>4, <3>5, <3>6
  <2>7. CASE q.items # <<>>
    <3>1. /\ queues' = [queues EXCEPT ![id.policy][id.index] = after]
          /\ http' = [http EXCEPT ![c].at = "set", ![c].event = Head(q.items),
                                  ![c].losses = q.dropped]
          /\ ServedTo(http[c].id, Head(q.items))
      BY <1>4, <2>7 DEF popEvent, ServedTo
    <3>2. after.items = Tail(q.items) /\ after.info = q.info
      <4>1. after = [q EXCEPT !.stale = FALSE, !.items = Tail(@), !.dropped = 0,
                              !.popped = @ + 1, !.handed = @ + q.dropped]
        BY <2>2 DEF Queues
      <4> HIDE DEF after
      <4> QED
        BY <2>2, <4>1, PoppedItems
    <3>3. Replaced(id.policy, id.index, after)
      BY <2>1, <3>1, OneQueueSet DEF CoreInv
    <3>4. q.items \in Seq(Nat) /\ q.dropped \in Nat
      BY <2>2, Fields
    <3>5. PICK n : n = Head(q.items)
      OBVIOUS
    <3>6. n \in Nat
      BY <2>7, <3>4, <3>5, HeadTailProperties
    <3>7. ASSUME Sound PROVE ItemsInv' /\ ServedInv' /\ UniqueOnce'
      <4>1. Distinct(q.items)
        BY <2>1, <3>7 DEF Sound, ItemsInv
      <4>2. /\ Inside(n, q.items) /\ ~Inside(n, Tail(q.items)) /\ Distinct(Tail(q.items))
            /\ \A m : Inside(m, Tail(q.items)) => Inside(m, q.items)
        BY <2>7, <3>4, <3>5, <4>1, HeadAndRest DEF Inside
      <4>3. PICK k : k = http[c].id
        OBVIOUS
      <4>4. ServedTo(k, n)
        BY <3>1, <3>5, <4>3
      <4>5. /\ Inside(n, q.items) /\ ~Inside(n, after.items) /\ Distinct(after.items)
            /\ \A m : Inside(m, after.items) => Inside(m, q.items)
        BY <3>2, <4>2
      <4>6. UNCHANGED <<events, run, consumers, queueReginfoLookup>>
        BY <1>1
      <4>7. k \in DOMAIN consumers =>
              consumers[k].queue.policy = id.policy /\ consumers[k].queue.index = id.index
        BY <2>4, <3>7, <4>3
      <4> HIDE DEF after
      <4> QED
        BY <2>1, <3>2, <3>3, <3>7, <4>4, <4>5, <4>6, <4>7, EventPopped
    <3>8. /\ http' \in [Clients -> Requests] /\ http'[c].at = "set"
          /\ \A d \in Clients : d # c => http'[d] = http[d]
      <4> DEFINE losses == q.dropped
                 g1 == [http EXCEPT ![c].at = "set"]
                 g2 == [g1 EXCEPT ![c].event = n]
                 g3 == [g2 EXCEPT ![c].losses = losses]
      <4>1. http' = g3
        BY <3>1, <3>5, Zenon
      <4>2. losses \in Nat /\ n \in Nat
        BY <3>4, <3>6
      <4> HIDE DEF losses
      <4>3. g1 \in [Clients -> Requests] /\ g1[c].at = "set"
            /\ \A d \in Clients : d # c => g1[d] = http[d]
        BY <1>2 DEF Requests, Stages
      <4> HIDE DEF g1
      <4>4. g2 \in [Clients -> Requests] /\ g2[c].at = "set"
            /\ \A d \in Clients : d # c => g2[d] = http[d]
        BY <4>2, <4>3 DEF Requests
      <4> HIDE DEF g2
      <4>5. g3 \in [Clients -> Requests] /\ g3[c].at = "set"
            /\ \A d \in Clients : d # c => g3[d] = http[d]
        BY <4>2, <4>4 DEF Requests
      <4> QED
        BY <4>1, <4>5
    <3> HIDE DEF after
    <3>9. Kept
      BY <2>1, <3>2, <3>3 DEF Replaced, Kept
    <3>10. \A s \in served' : s \in served \/ s[1] = http[c].id
      <4>1. PICK k : k = http[c].id
        OBVIOUS
      <4>2. served' = served \cup {<<k, n>>}
        BY <3>1, <3>5, <4>1 DEF ServedTo
      <4>3. \A s \in {<<k, n>>} : s[1] = k
        OBVIOUS
      <4> QED
        BY <4>1, <4>2, <4>3
    <3>11. ~NoItems
      BY <2>1, <2>7 DEF NoItems
    <3> QED
      BY <2>5, <3>7, <3>8, <3>9, <3>10, <3>11
  <2> QED
    BY <2>6, <2>7
<1> QED
  BY <1>3, <1>4

\* The steps of a request keep the invariant.
LEMMA RequestStep ==
  ASSUME CoreInv, NEW c \in Clients, HttpHandler(c)
  PROVE  CoreInv' /\ (Sound /\ ~outlived' => Sound')
<1>1. CASE registrationTimesOut(c)
  BY <1>1, ReplyStep DEF registrationTimesOut
<1>2. CASE writeConsumerEvent(c)
  BY <1>2, ReplyStep DEF writeConsumerEvent
<1>3. CASE processConsumerHeaderRequest(c)
  BY <1>3, SilentStep DEF processConsumerHeaderRequest
<1> QED
  BY <1>1, <1>2, <1>3, getConsumerIdStep, createQueueStep, addRegistrationInfoStep,
     enqueueRegistrationStep, processConsumerEventRequestStep, lookupQueueStep, popEventStep,
     setDroppedEventsCountStep DEF HttpHandler

-----------------------------------------------------------------------------
(* The FragmentProcessor.                                                  *)

\* When a run begins, there are no consumers and no selectors of the last one; requests and
\* registrations may be under way.
LEMMA beginRunStep ==
  ASSUME CoreInv, beginRun
  PROVE  CoreInv' /\ (Sound => Sound')
<1>1. /\ fp = "stopped" /\ fp' = "removing" /\ consumers' = <<>> /\ selectors' = <<>>
      /\ UNCHANGED <<wants, http, run, registrationAllowed, nextConsumerId, registrationQueue,
                     queues, queueIdLookup, queueReginfoLookup, newlyShared, events, served>>
  BY DEF beginRun, lookupVars
<1>2. DOMAIN consumers' = {} /\ DOMAIN selectors' = {}
  BY <1>1
<1>3. IInv' /\ Typed'
  BY <1>1 DEF CoreInv, IInv, Typed, Phases, Beginning
<1>4. RunsInv'
  BY <1>1, <1>2 DEF RunsInv
<1>5. IdsInv'
  <2>1. ASSUME NEW id, Known(id)' PROVE Known(id)
    BY <1>1, <1>2, <2>1 DEF Known, Serving
  <2> QED
    BY <1>1, <2>1, IdsStay DEF CoreInv, Creating
<1>6. ASSUME Sound PROVE Sound'
  <2>1. \A c \in Clients : RequestSound(c)'
    BY <1>1, <1>2, <1>6 DEF Sound, QueuesInv, RequestSound, MadeFor, IsQueue, Shared, LookUp
  <2>2. QueuesInv'
    BY <1>1, <1>2, <1>6, <2>1 DEF Sound, QueuesInv, SharingSound, MadeFor, IsQueue
  <2>3. ItemsInv' /\ ServedInv' /\ UniqueOnce'
    BY <1>1, <1>2, <1>6 DEF Sound, ItemsInv, ItemsSuit, Suits, Distinct, ServedInv, UniqueOnce
  <2> QED
    BY <2>2, <2>3 DEF Sound
<1> QED
  BY <1>3, <1>4, <1>5, <1>6 DEF CoreInv

\* The queues are removed: unless one of their ids is still on its way to a selector, all is
\* well again, whatever went on in the run before.
LEMMA removeQueuesStep ==
  ASSUME CoreInv, removeQueues
  PROVE  CoreInv' /\ (~outlived' => Sound')
<1>1. /\ fp = "removing" /\ fp' = "enabling"
      /\ queues' = [p \in Policies |-> <<>>] /\ queueIdLookup' = <<>> /\ newlyShared' = {}
      /\ UNCHANGED <<wants, http, run, registrationAllowed, nextConsumerId, consumers,
                     registrationQueue, selectors, queueReginfoLookup, events, served>>
  BY DEF removeQueues, clientVars, registrationVars
<1>2. DOMAIN consumers = {} /\ DOMAIN selectors = {}
  BY <1>1 DEF CoreInv, RunsInv, Beginning
<1>3. IInv'
  BY FragmentProcessorStep DEF FragmentProcessor, CoreInv
<1>4. \A p \in Policies : DOMAIN queues'[p] = {}
  BY <1>1
<1>5. Typed'
  BY <1>1 DEF CoreInv, Typed, Phases, Beginning
<1>6. RunsInv'
  BY <1>1, <1>2, <1>4 DEF RunsInv, NoItems
<1>7. IdsInv'
  BY <1>1, IdsQuiet DEF CoreInv, Creating, Serving
<1>8. ASSUME ~outlived' PROVE QueuesInv'
  <2>1. /\ \A c \in Clients : http[c].at \notin {"addRegistration", "enqueue"}
        /\ registrationQueue = <<>>
    BY <1>8 DEF removeQueues, BetweenQueueAndSelector
  <2>2. \A c \in Clients : RequestSound(c)'
    BY <1>1, <1>2, <2>1 DEF RequestSound
  <2>3. DOMAIN registrationQueue' = {}
    BY <1>1, <2>1
  <2> QED
    BY <1>1, <1>2, <2>2, <2>3 DEF QueuesInv
<1>9. ItemsInv'
  BY <1>4 DEF ItemsInv
<1>10. ServedInv' /\ UniqueOnce'
  BY <1>1, <1>2 DEF ServedInv, UniqueOnce
<1> QED
  BY <1>3, <1>5, <1>6, <1>7, <1>8, <1>9, <1>10 DEF CoreInv, Sound

\* When consumers may register again, there is neither an event to serve nor a consumer.
LEMMA enableConsumerRegistrationStep ==
  ASSUME CoreInv, enableConsumerRegistration
  PROVE  CoreInv' /\ (Sound => Sound')
<1>1. /\ fp = "enabling" /\ fp' = "running" /\ run' = run + 1 /\ registrationAllowed' = TRUE
      /\ UNCHANGED <<wants, http, nextConsumerId, consumers, registrationQueue, selectors,
                     queues, queueIdLookup, queueReginfoLookup, newlyShared, events, served>>
  BY DEF enableConsumerRegistration, clientVars, lookupVars
<1>2. DOMAIN consumers = {} /\ DOMAIN selectors = {} /\ NoItems /\ run \in Nat
  BY <1>1 DEF CoreInv, RunsInv, Beginning, Typed
<1>3. IInv' /\ Typed' /\ RunsInv'
  BY <1>1, <1>2 DEF CoreInv, IInv, Typed, RunsInv, Phases, Beginning
<1>4. IdsInv'
  BY <1>1, IdsQuiet DEF CoreInv, Creating, Serving
<1>5. Sound => QueuesInv'
  <2>1. Sound => \A c \in Clients : RequestSound(c)'
    BY <1>1 DEF Sound, QueuesInv, RequestSound, MadeFor, IsQueue, Shared, LookUp
  <2> QED
    BY <1>1, <1>2, <2>1 DEF Sound, QueuesInv, SharingSound, MadeFor, IsQueue
<1>6. ItemsInv'
  <2>1. \A p \in Policies : \A i \in DOMAIN queues'[p] : DOMAIN queues'[p][i].items = {}
    BY <1>1, <1>2 DEF NoItems
  <2> QED
    BY <2>1 DEF ItemsInv, ItemsSuit, Distinct
<1>7. ServedInv' /\ UniqueOnce'
  BY <1>1, <1>2 DEF ServedInv, UniqueOnce
<1> QED
  BY <1>3, <1>4, <1>5, <1>6, <1>7 DEF CoreInv, Sound

\* A step during a run, or after it, that leaves requests and registrations alone.
LEMMA RunStep ==
  ASSUME CoreInv, IInv',
         registrationQueue' \in Seq(Registrations), events' \in Seq(EventRecords),
         UNCHANGED <<http, run, nextConsumerId, consumers, lookupVars, served>>,
         fp' \in Phases \ Beginning, registrationAllowed' <=> fp' \in {"running", "failing"}
  PROVE  CoreInv'
<1>1. Typed'
  BY DEF CoreInv, Typed, lookupVars
<1>2. RunsInv'
  BY DEF RunsInv, Beginning
<1>3. IdsInv'
  BY IdsQuiet DEF CoreInv, Creating, Serving
<1> QED
  BY <1>1, <1>2, <1>3 DEF CoreInv

\* A step that leaves the events, the registrations and the shared queues alone, and at most
\* empties queues.
LEMMA ContentsStep ==
  ASSUME CoreInv, IInv', Kept, ItemsFewer, DOMAIN selectors' = DOMAIN selectors,
         UNCHANGED <<wants, http, run, nextConsumerId, consumers, registrationQueue,
                     lookupVars, events, served>>,
         fp' \in Phases \ Beginning, registrationAllowed' <=> fp' \in {"running", "failing"}
  PROVE  CoreInv' /\ (Sound => Sound')
<1>1. Sound => QueuesInv'
  BY QueuesStay
<1>2. EventsKept
  BY DEF EventsKept
<1>3. Sound => ItemsInv' /\ ServedInv' /\ UniqueOnce'
  BY <1>2, ItemsStay
<1>4. registrationQueue \in Seq(Registrations) /\ events \in Seq(EventRecords)
  BY DEF CoreInv, Typed
<1> QED
  BY <1>1, <1>3, <1>4, RunStep DEF Sound

\* A queue that is cleared keeps its registration.
LEMMA ClearedKeepsInfo ==
  ASSUME NEW q \in Balanced
  PROVE  Cleared(q).items = <<>> /\ Cleared(q).info = q.info
BY DEF Cleared, Balanced, Queues

\* The end of registration.
LEMMA disableConsumerRegistrationStep ==
  ASSUME CoreInv, disableConsumerRegistration
  PROVE  CoreInv' /\ (Sound => Sound')
<1>1. /\ fp \in {"running", "failing"} /\ fp' = "clearing" /\ registrationAllowed' = FALSE
      /\ UNCHANGED <<wants, http, run, nextConsumerId, consumers, registrationQueue,
                     selectors, queues, lookupVars, events, served>>
  BY DEF disableConsumerRegistration, clientVars
<1>2. IInv' /\ Kept /\ ItemsFewer
  BY <1>1 DEF CoreInv, IInv, Kept, ItemsFewer
<1> QED
  BY <1>1, <1>2, ContentsStep DEF Phases, Beginning

\* An INIT message initialises selectors, and leaves their queues alone.
LEMMA tagInitMessageStep ==
  ASSUME CoreInv, NEW label, tagInitMessage(label)
  PROVE  CoreInv' /\ (Sound => Sound')
<1>1. /\ fp = "running" /\ fp' = fp /\ registrationAllowed' = registrationAllowed
      /\ DOMAIN selectors' = DOMAIN selectors
      /\ UNCHANGED <<wants, http, run, nextConsumerId, consumers, registrationQueue,
                     queues, lookupVars, events, served>>
  BY DEF tagInitMessage, clientVars, registrationVars
<1>2. IInv' /\ Kept /\ ItemsFewer
  BY <1>1 DEF CoreInv, IInv, Kept, ItemsFewer
<1>3. registrationAllowed' <=> fp' \in {"running", "failing"}
  BY <1>1 DEF CoreInv, Typed
<1> QED
  BY <1>1, <1>2, <1>3, ContentsStep DEF Phases, Beginning

\* Queues are cleared, and keep their registrations.
LEMMA ClearingStep ==
  ASSUME CoreInv, clearQueues \/ checkForStaleConsumers
  PROVE  CoreInv' /\ (Sound => Sound')
<1>1. /\ fp \in {"running", "clearing"} /\ fp' \in {"running", "ending"}
      /\ fp' = "running" <=> fp = "running"
      /\ UNCHANGED <<wants, http, run, registrationAllowed, nextConsumerId, consumers,
                     registrationQueue, selectors, lookupVars, events, served>>
      /\ queues' = [p \in Policies |-> [i \in DOMAIN queues[p] |->
           IF clearQueues \/ queues[p][i].stale THEN Cleared(queues[p][i]) ELSE queues[p][i]]]
  BY DEF clearQueues, checkForStaleConsumers, AllQueues, clientVars, registrationVars
<1>2. IInv'
  BY FragmentProcessorStep DEF FragmentProcessor, CoreInv
<1>3. ASSUME NEW p \in Policies, NEW i \in DOMAIN queues[p]
      PROVE  /\ i \in DOMAIN queues'[p] /\ queues'[p][i].info = queues[p][i].info
             /\ queues'[p][i].items = <<>> \/ queues'[p][i].items = queues[p][i].items
  <2>1. queues[p][i] \in Balanced
    BY QueueTyped DEF CoreInv
  <2>2. i \in DOMAIN queues'[p]
        /\ (queues'[p][i] = Cleared(queues[p][i]) \/ queues'[p][i] = queues[p][i])
    BY <1>1
  <2> QED
    BY <2>1, <2>2, ClearedKeepsInfo
<1>4. \A p \in Policies : DOMAIN queues'[p] = DOMAIN queues[p]
  BY <1>1
<1>5. Kept /\ ItemsFewer
  BY <1>3, <1>4 DEF Kept, ItemsFewer
<1>6. registrationAllowed' <=> fp' \in {"running", "failing"}
  BY <1>1 DEF CoreInv, Typed
<1> QED
  BY <1>1, <1>2, <1>5, <1>6, ContentsStep DEF Phases, Beginning

\* A queue that gets stale keeps its registration and its events.
LEMMA becomesStaleStep ==
  ASSUME CoreInv, NEW p \in Policies, NEW i, becomesStale(p, i)
  PROVE  CoreInv' /\ (Sound => Sound')
<1> DEFINE q == [queues[p][i] EXCEPT !.stale = TRUE]
<1>1. /\ fp = "running" /\ i \in DOMAIN queues[p] /\ queues' = [queues EXCEPT ![p][i] = q]
      /\ UNCHANGED <<wants, http, fp, run, registrationAllowed, nextConsumerId, consumers,
                     registrationQueue, selectors, lookupVars, events, served>>
  BY DEF becomesStale, clientVars, registrationVars
<1>2. queues[p][i] \in Balanced
  BY <1>1, QueueTyped DEF CoreInv
<1>3. q \in Balanced /\ q.items = queues[p][i].items /\ q.info = queues[p][i].info
  BY <1>2, StaleBalanced DEF Balanced, Queues
<1> HIDE DEF q
<1>4. IInv' /\ Replaced(p, i, q)
  BY <1>1, <1>3, OneQueueStep, OneQueueSet DEF CoreInv
<1>5. Kept /\ ItemsFewer
  BY <1>1, <1>3, <1>4 DEF Replaced, Kept, ItemsFewer
<1>6. registrationAllowed' <=> fp' \in {"running", "failing"}
  BY <1>1 DEF CoreInv, Typed
<1> QED
  BY <1>1, <1>4, <1>5, <1>6, ContentsStep DEF Phases, Beginning

\* Registrations that were not picked up are gone with the run.
LEMMA clearRegistrationQueueStep ==
  ASSUME CoreInv, clearRegistrationQueue
  PROVE  CoreInv' /\ (Sound => Sound')
<1>1. /\ fp = "ending" /\ fp' = "stopped" /\ registrationQueue' = <<>>
      /\ UNCHANGED <<wants, http, run, registrationAllowed, nextConsumerId, consumers,
                     selectors, queues, lookupVars, events, served>>
  BY DEF clearRegistrationQueue, clientVars, registrationVars
<1>2. IInv' /\ Kept /\ ItemsFewer /\ EventsKept
  BY <1>1 DEF CoreInv, IInv, Kept, ItemsFewer, EventsKept
<1>3. Sound => QueuesInv'
  BY <1>1 DEF Sound, QueuesInv, RequestSound, ConsumerSound, SharingSound, MadeFor, Shared,
              LookUp, IsQueue, lookupVars
<1>4. Sound => ItemsInv' /\ ServedInv' /\ UniqueOnce'
  BY <1>1, <1>2, ItemsStay
<1>5. /\ registrationQueue' \in Seq(Registrations) /\ events' \in Seq(EventRecords)
      /\ (registrationAllowed' <=> fp' \in {"running", "failing"})
  BY <1>1, EmptySeq DEF CoreInv, Typed
<1> QED
  BY <1>1, <1>2, <1>3, <1>4, <1>5, RunStep DEF Phases, Beginning, Sound

\* A selector is made for a registration whose queue exists.
LEMMA registerEventConsumerStep ==
  ASSUME CoreInv, registerEventConsumer
  PROVE  CoreInv' /\ (Sound => Sound')
<1> DEFINE r == Head(registrationQueue)
<1>1. /\ fp \in {"stopped", "running"} /\ registrationQueue # <<>>
      /\ registrationQueue' = Tail(registrationQueue)
      /\ UNCHANGED <<wants, http, fp, run, registrationAllowed, nextConsumerId, consumers,
                     queues, lookupVars, events, served>>
      /\ DOMAIN selectors' = DOMAIN selectors \cup {Selector(r)}
  BY DEF registerEventConsumer, Put, clientVars, registrationVars
<1>2. registrationQueue \in Seq(Registrations)
  BY DEF CoreInv, Typed
<1>3. /\ registrationQueue' \in Seq(Registrations)
      /\ \A i \in DOMAIN registrationQueue' :
           i + 1 \in DOMAIN registrationQueue /\ registrationQueue'[i] = registrationQueue[i + 1]
      /\ 1 \in DOMAIN registrationQueue /\ r = registrationQueue[1]
  <2> DEFINE s == registrationQueue
             t == Tail(s)
  <2>1. /\ Len(s) \in Nat \ {0} /\ DOMAIN s = 1 .. Len(s) /\ r = s[1]
        /\ t \in Seq(Registrations) /\ Len(t) = Len(s) - 1
        /\ \A i \in 1 .. Len(t) : t[i] = s[i + 1]
    BY <1>1, <1>2, HeadTailProperties, EmptySeq
  <2>2. DOMAIN t = 1 .. Len(s) - 1
    BY <2>1
  <2>3. registrationQueue' = t
    BY <1>1
  <2> HIDE DEF t, r
  <2>4. \A i \in DOMAIN t : i + 1 \in DOMAIN s /\ t[i] = s[i + 1]
    BY <2>1, <2>2
  <2>5. 1 \in DOMAIN s
    BY <2>1
  <2> QED
    BY <2>1, <2>3, <2>4, <2>5
<1>4. IInv' /\ Kept /\ SharingKept /\ ItemsFewer /\ EventsKept
  BY <1>1 DEF CoreInv, IInv, Kept, SharingKept, ItemsFewer, EventsKept, lookupVars
<1>5. ASSUME Sound PROVE QueuesInv'
  <2>1. MadeFor(r.queue, r.info)
    <3> HIDE DEF r
    <3>1. \A i \in DOMAIN registrationQueue :
            MadeFor(registrationQueue[i].queue, registrationQueue[i].info)
      BY <1>5 DEF Sound, QueuesInv
    <3> QED
      BY <1>3, <3>1
  <2>2. ASSUME NEW i \in DOMAIN registrationQueue'
        PROVE  MadeFor(registrationQueue[i].queue, registrationQueue[i].info)'
    <3>1. MadeFor(registrationQueue[i + 1].queue, registrationQueue[i + 1].info)
      BY <1>3, <1>5 DEF Sound, QueuesInv
    <3> QED
      BY <1>3, <1>4, <3>1, MadeForStays
  <2>3. ASSUME NEW k \in DOMAIN selectors' PROVE MadeFor(k.queue, k.info)'
    <3>1. CASE k = Selector(r)
      <4>1. k.queue = r.queue /\ k.info = r.info
        BY <3>1 DEF Selector
      <4> QED
        BY <1>4, <2>1, <4>1, MadeForStays
    <3>2. CASE k \in DOMAIN selectors
      BY <1>4, <1>5, <3>2, MadeForStays DEF Sound, QueuesInv
    <3> QED
      BY <1>1, <3>1, <3>2
  <2>4. \A c \in Clients : RequestSound(c)'
    BY <1>1, <1>5 DEF Sound, QueuesInv, RequestSound, Shared, LookUp, MadeFor, IsQueue, lookupVars
  <2>5. \A id \in DOMAIN consumers : ConsumerSound(id)'
    BY <1>1, <1>5 DEF Sound, QueuesInv, ConsumerSound, Shared, LookUp, MadeFor, IsQueue, lookupVars
  <2>6. \A info \in newlyShared' : SharingSound(info)'
    BY <1>1, <1>5 DEF Sound, QueuesInv, SharingSound, MadeFor, IsQueue, lookupVars
  <2> QED
    BY <1>1, <2>2, <2>3, <2>4, <2>5, <2>6 DEF QueuesInv
<1>6. Sound => ItemsInv' /\ ServedInv' /\ UniqueOnce'
  BY <1>1, <1>4, ItemsStay
<1>7. events' \in Seq(EventRecords) /\ (registrationAllowed' <=> fp' \in {"running", "failing"})
  BY <1>1 DEF CoreInv, Typed
<1>8. fp' \in Phases \ Beginning
  BY <1>1 DEF Phases, Beginning
<1>9. registrationQueue' \in Seq(Registrations)
  BY <1>3
<1>10. UNCHANGED <<http, run, nextConsumerId, consumers, lookupVars, served>>
  BY <1>1
<1> QED
  BY <1>4, <1>5, <1>6, <1>7, <1>8, <1>9, <1>10, RunStep DEF Sound

\* What an event does to the queue it is sent to.
LEMMA EnqueuedItems ==
  ASSUME NEW p, NEW q \in Balanced, NEW n \in Nat
  PROVE  LET r == Enqueued(p, q, n)
         IN /\ r.info = q.info
            /\ \A m : Inside(m, r.items) => Inside(m, q.items) \/ m = n
            /\ Distinct(q.items) /\ ~Inside(n, q.items) => Distinct(r.items)
<1> DEFINE s == q.items
           names == {"items", "dropped", "stale", "size", "info", "tagged", "popped", "handed"}
           sent == q.tagged + 1
           losses == q.dropped + 1
           moved == Append(Tail(s), n)
           grown == Append(s, n)
           t == [q EXCEPT !.tagged = sent]
           refused == [t EXCEPT !.dropped = losses]
           u == [t EXCEPT !.items = moved]
           replaced == [u EXCEPT !.dropped = losses]
           added == [t EXCEPT !.items = grown]
           r == Enqueued(p, q, n)
<1>1. s \in Seq(Nat) /\ DOMAIN q = names /\ q.size \in Nat \ {0}
  BY DEF Balanced, Queues
<1>2. t.dropped = q.dropped /\ t.items = s
  BY <1>1
<1>3. \/ r = refused
      \/ r = replaced /\ s # <<>>
      \/ r = added
  <2>1. Len(s) = q.size => s # <<>>
    BY <1>1, EmptySeq
  <2>2. CASE q.stale \/ (p = "DiscardNew" /\ Len(s) = q.size)
    BY <1>2, <2>2, Zenon DEF Enqueued
  <2>3. CASE ~(q.stale \/ (p = "DiscardNew" /\ Len(s) = q.size)) /\ Len(s) = q.size
    BY <1>2, <2>1, <2>3, Zenon DEF Enqueued
  <2>4. CASE ~(q.stale \/ (p = "DiscardNew" /\ Len(s) = q.size)) /\ Len(s) # q.size
    BY <1>2, <2>4, Zenon DEF Enqueued
  <2> QED
    BY <2>2, <2>3, <2>4
<1> HIDE DEF sent, losses, moved, grown, r
<1>4. DOMAIN t = names /\ t.items = s /\ t.info = q.info
  BY <1>1
<1> HIDE DEF t
<1>5. refused.items = s /\ refused.info = q.info /\ added.items = grown /\ added.info = q.info
  BY <1>4
<1>6. DOMAIN u = names /\ u.items = moved /\ u.info = q.info
  BY <1>4
<1> HIDE DEF u
<1>7. replaced.items = moved /\ replaced.info = q.info
  BY <1>6
<1> HIDE DEF refused, replaced, added
<1>8. Len(s) \in Nat /\ DOMAIN s = 1 .. Len(s)
  BY <1>1
<1>9. /\ \A m : Inside(m, grown) => Inside(m, s) \/ m = n
      /\ Distinct(s) /\ ~Inside(n, s) => Distinct(grown)
  <2>1. /\ DOMAIN grown = 1 .. Len(s) + 1 /\ grown[Len(s) + 1] = n
        /\ \A i \in 1 .. Len(s) : grown[i] = s[i]
    BY <1>1, AppendProperties DEF grown
  <2> HIDE DEF s
  <2>2. \A i \in DOMAIN grown :
          (i \in DOMAIN s /\ grown[i] = s[i]) \/ (i = Len(s) + 1 /\ grown[i] = n)
    BY <1>8, <2>1
  <2> QED
    BY <2>2 DEF Inside, Distinct
<1>10. ASSUME s # <<>>
       PROVE  /\ \A m : Inside(m, moved) => Inside(m, s) \/ m = n
              /\ Distinct(s) /\ ~Inside(n, s) => Distinct(moved)
  <2> DEFINE rest == Tail(s)
  <2>1. /\ rest \in Seq(Nat) /\ Len(rest) = Len(s) - 1
        /\ \A i \in 1 .. Len(rest) : rest[i] = s[i + 1]
    BY <1>1, <1>10, HeadTailProperties
  <2>2. Len(s) # 0
    BY <1>1, <1>10, EmptySeq
  <2> HIDE DEF rest
  <2>3. /\ DOMAIN moved = 1 .. Len(rest) + 1 /\ moved[Len(rest) + 1] = n
        /\ \A i \in 1 .. Len(rest) : moved[i] = rest[i]
    BY <2>1, AppendProperties DEF moved, rest
  <2> HIDE DEF s
  <2>4. \A i \in DOMAIN moved :
          \/ i + 1 \in DOMAIN s /\ moved[i] = s[i + 1]
          \/ i = Len(s) /\ moved[i] = n
    BY <1>8, <2>1, <2>2, <2>3
  <2>5. \A i \in DOMAIN moved : i \in Nat
    BY <1>8, <2>1, <2>2, <2>3
  <2> QED
    BY <2>4, <2>5 DEF Inside, Distinct
<1>11. CASE r = refused
  BY <1>5, <1>11 DEF r
<1>12. CASE r = replaced /\ s # <<>>
  BY <1>7, <1>10, <1>12 DEF r
<1>13. CASE r = added
  BY <1>5, <1>9, <1>13 DEF r
<1> QED
  BY <1>3, <1>11, <1>12, <1>13

\* An event goes only into queues made for a registration that wants it.
LEMMA EventRouted ==
  ASSUME Sound, NEW label, NEW bits, addEventToRelevantQueues(label, bits),
         NEW p \in Policies, NEW i \in DOMAIN queues[p]
  PROVE  \/ queues'[p][i] = queues[p][i]
         \/ /\ queues'[p][i] = Enqueued(p, queues[p][i], Len(events) + 1)
            /\ queues[p][i].info.label = label /\ Selects(queues[p][i].info.selection, bits)
<1> DEFINE id == [policy |-> p, index |-> i]
<1>1. ASSUME queues'[p][i] # queues[p][i]
      PROVE  /\ queues'[p][i] = Enqueued(p, queues[p][i], Len(events) + 1)
             /\ \E k \in DOMAIN selectors : Wants(k, label, bits) /\ k.queue = id
  <2> DEFINE wanting == {k \in DOMAIN selectors : Wants(k, label, bits)}
             accepting == {k \in wanting : (selectors[k].accepted + 1) % k.info.prescale = 0}
             routes == {k.queue : k \in accepting}
             unknown == {r \in routes : ~IsQueue(r)}
             Fed(t, j) == LET d == [policy |-> t, index |-> j]
                          IN d \in routes /\ \A v \in unknown : Before(d, v)
  <2>1. queues' = [t \in Policies |-> [j \in DOMAIN queues[t] |->
          IF Fed(t, j) THEN Enqueued(t, queues[t][j], Len(events) + 1) ELSE queues[t][j]]]
    BY Zenon DEF addEventToRelevantQueues
  <2> HIDE DEF Fed
  <2>2. queues'[p][i] = IF Fed(p, i) THEN Enqueued(p, queues[p][i], Len(events) + 1)
                        ELSE queues[p][i]
    BY <2>1
  <2>3. Fed(p, i) /\ queues'[p][i] = Enqueued(p, queues[p][i], Len(events) + 1)
    BY <1>1, <2>2
  <2>4. id \in routes
    BY <2>3, Zenon DEF Fed
  <2> QED
    BY <2>3, <2>4
<1>2. ASSUME NEW k \in DOMAIN selectors, Wants(k, label, bits), k.queue = id
      PROVE  queues[p][i].info.label = label /\ Selects(queues[p][i].info.selection, bits)
  <2>1. MadeFor(k.queue, k.info)
    BY DEF Sound, QueuesInv
  <2>2. queues[p][i].info = k.info
    BY <1>2, <2>1 DEF MadeFor
  <2> QED
    BY <1>2, <2>2 DEF Wants
<1> QED
  BY <1>1, <1>2

\* An event that arrives was in no queue before, and was served to nobody.
LEMMA addEventStep ==
  ASSUME CoreInv, NEW label \in Labels, NEW bits \in TriggerBits,
         addEventToRelevantQueues(label, bits)
  PROVE  CoreInv' /\ (Sound => Sound')
<1> DEFINE e == [label |-> label, bits |-> bits, run |-> run, droppedEventsCount |-> 0]
           n == Len(events) + 1
           t == Append(events, e)
<1>1. /\ fp = "running" /\ events' = t /\ DOMAIN selectors' = DOMAIN selectors /\ fp' \in {"running", "failing"}
      /\ UNCHANGED <<wants, http, run, registrationAllowed, nextConsumerId, consumers,
                     registrationQueue, lookupVars, served>>
      /\ \A p \in Policies : DOMAIN queues'[p] = DOMAIN queues[p]
  BY DEF addEventToRelevantQueues, registrationVars
<1>2. events \in Seq(EventRecords) /\ e \in EventRecords
  BY DEF CoreInv, Typed, EventRecords
<1>3. /\ t \in Seq(EventRecords) /\ DOMAIN t = 1 .. n /\ n \in Nat /\ t[n] = e
      /\ DOMAIN events = 1 .. Len(events) /\ Len(events) \in Nat
      /\ \A i \in 1 .. Len(events) : t[i] = events[i]
  BY <1>2, AppendProperties
<1>4. e.label = label /\ e.bits = bits /\ e.run = run
  OBVIOUS
<1> HIDE DEF e, t
<1>5. /\ n \notin DOMAIN events /\ n \in DOMAIN t
      /\ \A i \in DOMAIN events : i \in DOMAIN t /\ t[i] = events[i]
  BY <1>3
<1> HIDE DEF n
<1>6. EventsKept
  BY <1>1, <1>5 DEF EventsKept
<1>7. ASSUME Sound, NEW p \in Policies, NEW i \in DOMAIN queues[p]
      PROVE  /\ i \in DOMAIN queues'[p] /\ queues'[p][i].info = queues[p][i].info
             /\ \A m : Inside(m, queues'[p][i].items) => Inside(m, queues[p][i].items) \/ m = n
             /\ ItemsSuit(queues[p][i])' /\ Distinct(queues[p][i].items)'
  <2>0. PICK q : q = queues[p][i]
    OBVIOUS
  <2>1. q \in Balanced /\ ItemsSuit(q) /\ Distinct(q.items)
    BY <1>7, <2>0, QueueTyped DEF CoreInv, Sound, ItemsInv
  <2>2. \A j \in DOMAIN q.items : Suits(q.items[j], q.info)'
    BY <1>1, <1>5, <2>1 DEF ItemsSuit, Suits
  <2>3. CASE queues'[p][i] = q
    BY <1>1, <2>0, <2>1, <2>2, <2>3 DEF ItemsSuit
  <2>4. CASE queues'[p][i] # q
    <3>1. /\ queues'[p][i] = Enqueued(p, q, n)
          /\ q.info.label = label /\ Selects(q.info.selection, bits)
      BY <1>7, <2>0, <2>4, EventRouted DEF n
    <3>2. ~Inside(n, q.items)
      BY <1>5, <2>1 DEF ItemsSuit, Suits, Inside
    <3>4. PICK r : r = Enqueued(p, q, n)
      OBVIOUS
    <3>3. /\ r.info = q.info /\ Distinct(r.items)
          /\ \A m : Inside(m, r.items) => Inside(m, q.items) \/ m = n
      BY <1>3, <2>1, <3>2, <3>4, EnqueuedItems
    <3>5. ASSUME NEW j \in DOMAIN r.items PROVE Suits(r.items[j], q.info)'
      <4>1. Inside(r.items[j], q.items) \/ r.items[j] = n
        BY <3>3 DEF Inside
      <4>2. CASE Inside(r.items[j], q.items)
        BY <2>2, <4>2 DEF Inside
      <4>3. CASE r.items[j] = n
        BY <1>1, <1>3, <1>4, <1>5, <3>1, <4>3 DEF Suits
      <4> QED
        BY <4>1, <4>2, <4>3
    <3> QED
      BY <1>1, <2>0, <3>1, <3>3, <3>4, <3>5 DEF ItemsSuit
  <2> QED
    BY <2>3, <2>4
<1>8. Kept
  <2>1. ASSUME NEW p \in Policies, NEW i \in DOMAIN queues[p]
        PROVE  i \in DOMAIN queues'[p] /\ queues'[p][i].info = queues[p][i].info
    <3>1. queues[p][i] \in Balanced
      BY QueueTyped DEF CoreInv
    <3>2. queues'[p][i] = queues[p][i] \/ queues'[p][i] = Enqueued(p, queues[p][i], n)
      BY DEF addEventToRelevantQueues, n
    <3>3. PICK q, r : q = queues[p][i] /\ r = Enqueued(p, q, n)
      OBVIOUS
    <3>4. r.info = q.info
      BY <1>3, <3>1, <3>3, EnqueuedItems
    <3> QED
      BY <1>1, <3>2, <3>3, <3>4
  <2> QED
    BY <2>1 DEF Kept
<1>9. Sound => ItemsInv'
  BY <1>1, <1>7 DEF ItemsInv
<1>10. Sound => QueuesInv'
  BY <1>1, <1>8, QueuesStay
<1>11. ASSUME Sound PROVE ServedInv'
  <2>1. ASSUME NEW s \in served, s[1] \in DOMAIN consumers
        PROVE  /\ Suits(s[2], consumers[s[1]].info)'
               /\ ~Inside(s[2], QueueItems(consumers[s[1]].queue))'
    <3> DEFINE r == consumers[s[1]]
    <3>1. /\ Suits(s[2], r.info) /\ ~Inside(s[2], QueueItems(r.queue)) /\ MadeFor(r.queue, r.info)
      BY <1>11, <2>1 DEF Sound, ServedInv, QueuesInv, ConsumerSound
    <3>2. s[2] # n
      BY <1>5, <3>1 DEF Suits
    <3>3. r.queue.policy \in Policies /\ r.queue.index \in DOMAIN queues[r.queue.policy]
      BY <3>1 DEF MadeFor, IsQueue
    <3>4. ~Inside(s[2], queues'[r.queue.policy][r.queue.index].items)
      BY <1>7, <1>11, <3>1, <3>2, <3>3 DEF QueueItems
    <3>5. Suits(s[2], r.info)'
      BY <1>1, <1>5, <3>1 DEF Suits
    <3> QED
      BY <1>1, <3>4, <3>5 DEF QueueItems, Inside
  <2> QED
    BY <1>1, <2>1 DEF ServedInv
<1>12. Sound => UniqueOnce'
  BY <1>1 DEF Sound, UniqueOnce
<1>13. IInv'
  BY DistributionStep DEF CoreInv
<1>14. /\ registrationQueue' \in Seq(Registrations) /\ events' \in Seq(EventRecords)
       /\ (registrationAllowed' <=> fp' \in {"running", "failing"})
  BY <1>1, <1>3 DEF CoreInv, Typed
<1>15. fp' \in Phases \ Beginning
  BY <1>1 DEF Phases, Beginning
<1>16. UNCHANGED <<http, run, nextConsumerId, consumers, lookupVars, served>>
  BY <1>1
<1> QED
  BY <1>9, <1>10, <1>11, <1>12, <1>13, <1>14, <1>15, <1>16, RunStep DEF Sound

-----------------------------------------------------------------------------
\* At the beginning there is nothing yet.
LEMMA InitServing == Init => ServingInv
<1> SUFFICES ASSUME Init PROVE ServingInv
  OBVIOUS
<1>1. PICK registrations \in [Clients -> Infos], budget \in Budgets :
        InitWith(registrations, budget)
  BY DEF Init
<1>2. /\ fp = "stopped" /\ run = 0 /\ http = [c \in Clients |-> Idle]
      /\ registrationAllowed = FALSE /\ nextConsumerId = 0 /\ consumers = <<>>
      /\ registrationQueue = <<>> /\ selectors = <<>> /\ queues = [p \in Policies |-> <<>>]
      /\ queueIdLookup = <<>> /\ queueReginfoLookup = <<>> /\ newlyShared = {}
      /\ events = <<>> /\ served = {}
  BY <1>1 DEF InitWith
<1>3. /\ DOMAIN consumers = {} /\ DOMAIN registrationQueue = {} /\ DOMAIN selectors = {}
      /\ DOMAIN queueIdLookup = {} /\ DOMAIN queueReginfoLookup = {}
      /\ \A p \in Policies : DOMAIN queues[p] = {}
  BY <1>2
<1>4. Idle \in Requests /\ Idle.at = "idle"
  BY DEF Idle, Requests, Stages, Ids
<1>5. Typed
  BY <1>2, <1>3, <1>4, EmptySeq DEF Typed, Phases, Beginning
<1>6. \A c \in Clients : http[c].at = "idle"
  BY <1>2, <1>4
<1>7. RunsInv
  BY <1>2 DEF RunsInv, Beginning
<1>8. IdsInv
  BY <1>2, <1>3, <1>6 DEF IdsInv, Known, Serving, Creating
<1>9. QueuesInv
  BY <1>2, <1>3, <1>6 DEF QueuesInv, RequestSound
<1>10. ItemsInv /\ ServedInv /\ UniqueOnce
  BY <1>2, <1>3 DEF ItemsInv, ServedInv, UniqueOnce
<1> QED
  BY <1>5, <1>7, <1>8, <1>9, <1>10, InitIInv DEF ServingInv, CoreInv, Sound

\* Every step keeps the invariant; what is sound stays that, or becomes so with the removal
\* of the queues, unless the step brings the id of a removed queue into the run.
LEMMA NextServing == ServingInv /\ [Next]_vars => ServingInv'
<1> SUFFICES ASSUME ServingInv, [Next]_vars PROVE CoreInv' /\ (~outlived' => Sound')
  BY DEF ServingInv
<1>0. CoreInv /\ (~outlived => Sound)
  BY DEF ServingInv
<1>1. CASE UNCHANGED vars
  <2>1. UNCHANGED <<clientVars, http, fp, run, registrationVars, registrationQueue, selectors,
                    queues, lookupVars, events, served>>
    BY <1>1 DEF vars, clientVars, registrationVars, lookupVars
  <2> QED
    BY <1>0, <2>1, SilentStep DEF lookupVars
<1>2. ASSUME NEW c \in Clients, HttpHandler(c) PROVE CoreInv' /\ (~outlived' => Sound')
  <2>1. CoreInv' /\ (Sound /\ ~outlived' => Sound')
    BY <1>0, <1>2, RequestStep
  <2>2. outlived => outlived'
    BY <1>2 DEF HttpHandler, getConsumerId, createQueue, addRegistrationInfo,
                enqueueRegistration, registrationTimesOut, processConsumerHeaderRequest,
                processConsumerEventRequest, lookupQueue, popEvent, setDroppedEventsCount,
                writeConsumerEvent, lookupVars
  <2> QED
    BY <1>0, <2>1, <2>2
<1>3. CASE removeQueues
  BY <1>0, <1>3, removeQueuesStep
<1>4. CASE FragmentProcessor /\ ~removeQueues
  <2>1. CoreInv' /\ (Sound => Sound')
    BY <1>0, <1>4, enableConsumerRegistrationStep, ClearingStep, clearRegistrationQueueStep,
       registerEventConsumerStep DEF FragmentProcessor
  <2>2. UNCHANGED outlived
    BY <1>4 DEF FragmentProcessor, enableConsumerRegistration, clearQueues,
                clearRegistrationQueue, registerEventConsumer, checkForStaleConsumers, lookupVars
  <2> QED
    BY <1>0, <2>1, <2>2
<1>5. CASE beginRun
  BY <1>0, <1>5, beginRunStep DEF beginRun, lookupVars
<1>6. CASE disableConsumerRegistration
  BY <1>0, <1>6, disableConsumerRegistrationStep DEF disableConsumerRegistration, lookupVars
<1>7. ASSUME NEW label \in Labels, tagInitMessage(label) PROVE CoreInv' /\ (~outlived' => Sound')
  BY <1>0, <1>7, tagInitMessageStep DEF tagInitMessage, lookupVars
<1>8. ASSUME NEW label \in Labels, NEW bits \in TriggerBits, addEventToRelevantQueues(label, bits)
      PROVE  CoreInv' /\ (~outlived' => Sound')
  <2>1. UNCHANGED outlived
    BY <1>8 DEF addEventToRelevantQueues, lookupVars
  <2> QED
    BY <1>0, <1>8, <2>1, addEventStep
<1>9. ASSUME NEW p \in Policies, NEW i \in 1 .. MaxConsumers, becomesStale(p, i)
      PROVE  CoreInv' /\ (~outlived' => Sound')
  BY <1>0, <1>9, becomesStaleStep DEF becomesStale, lookupVars
<1> QED
  BY <1>1, <1>2, <1>3, <1>4, <1>5, <1>6, <1>7, <1>8, <1>9 DEF Next

\* Requests, registrations, selectors and queues agree in every state, for any clients, runs
\* and events, unless the id of a removed queue has come into the run (ConsumerUtils,
\* RegistrationCollection, QueueCollection, EventDistributor).
THEOREM ServingInvariant == Spec => []ServingInv
BY InitServing, NextServing, PTL DEF Spec

\* What a consumer is handed is of the run it registered in and was wanted by its own
\* registration, for any number of clients, queues of any size and any selection, unless the
\* id of a removed queue has come into the run (ConsumerUtils, QueueCollection and
\* EventDistributor together).
THEOREM ServedAsAsked == Spec => []ServedAsRegistered
<1>1. ServingInv => ServedAsRegistered
  <2> SUFFICES ASSUME Sound, NEW s \in served, s[1] \in DOMAIN consumers
               PROVE  LET r == consumers[s[1]]
                          e == events[s[2]]
                      IN e.run = r.run /\ e.label = r.info.label /\ Selects(r.info.selection, e.bits)
    BY DEF ServingInv, ServedAsRegistered
  <2>1. Suits(s[2], consumers[s[1]].info) /\ ConsumerSound(s[1])
    BY DEF Sound, ServedInv, QueuesInv
  <2> QED
    BY <2>1 DEF Suits, ConsumerSound
<1> QED
  BY <1>1, ServingInvariant, PTL

\* No event reaches two consumers that registered alike for unique events, nor one of them
\* twice, unless the id of a removed queue has come into the run
\* (QueueCollection::createQueue, EventDistributor::registerEventConsumer).
THEOREM UniqueEventsOnce == Spec => []UniqueEventsServedOnce
<1>1. ServingInv => UniqueEventsServedOnce
  BY DEF ServingInv, Sound, UniqueOnce, ItemsInv, Distinct, UniqueEventsServedOnce
<1> QED
  BY <1>1, ServingInvariant, PTL

\* During a run the queue of every registered consumer and of every selector exists and was
\* made for that registration, and the look-ups agree on it, unless the id of a removed queue
\* has come into the run (QueueCollection).
THEOREM QueueIds == Spec => []QueueIdsResolve
<1>1. ServingInv => QueueIdsResolve
  <2> SUFFICES ASSUME Sound PROVE QueueIdsResolve
    BY DEF ServingInv, QueueIdsResolve
  <2>1. \A k \in DOMAIN selectors : MadeFor(k.queue, k.info)
    BY DEF Sound, QueuesInv
  <2>2. \A id \in DOMAIN consumers : ConsumerSound(id)
    BY DEF Sound, QueuesInv
  <2> QED
    BY <2>1, <2>2 DEF QueueIdsResolve, ConsumerSound, MadeFor, LookUp
<1> QED
  BY <1>1, ServingInvariant, PTL
=============================================================================
