----------------------- MODULE ConcurrentQueueProofs -----------------------
(***************************************************************************)
(* Theorems about ConcurrentQueue for every number of threads, item size,  *)
(* capacity, memory limit and policy.                                      *)
(***************************************************************************)
EXTENDS ConcurrentQueue, FiniteSetTheorems, SequenceTheorems, TLAPS

(***************************************************************************)
(* The invariant of the contents, of any sequence s and not only of the    *)
(* current elements: sz and us are its counters, ins and total what has    *)
(* been inserted so far, last the latest delivery.                         *)
(***************************************************************************)
Describes(s, sz, us, ins, total, last) ==
  /\ s \in Seq(Items)
  /\ ins \in Nat /\ total \in Nat /\ last \in Nat
  /\ sz = Len(s)
  /\ us = MemoryOfFirst(s, Len(s))
  /\ \A i \in 1 .. Len(s) : s[i].mem <= s[i].upTo
  /\ \A i \in 1 .. Len(s) : i > 1 => s[i].upTo = s[i - 1].upTo + s[i].mem
  /\ \A i, j \in 1 .. Len(s) : i <= j => s[i].upTo <= s[j].upTo
  /\ s # <<>> => s[Len(s)].upTo = total
  /\ \A i \in 1 .. Len(s) : s[i].seq = (ins - Len(s)) + i
  /\ last <= ins - Len(s)

ContentsInv ==
  Describes(elements, size, used, inserted, insertedMemory, lastDelivered)

-----------------------------------------------------------------------------
(* What the fields of an item range over. *)
LEMMA ItemFields ==
  ASSUME NEW x \in Items
  PROVE  x.seq \in Nat /\ x.mem \in Nat /\ x.mem \in Sizes /\ x.upTo \in Nat
BY BoundAssumption DEF Items

(* The counters are natural numbers because they describe the contents. *)
LEMMA CountersAreNatural ==
  ASSUME NEW s, NEW sz, NEW us, NEW ins, NEW total, NEW last,
         Describes(s, sz, us, ins, total, last)
  PROVE  sz \in Nat /\ us \in Nat
<1>1. sz \in Nat
  BY DEF Describes
<1>2. CASE Len(s) = 0
  BY <1>1, <1>2 DEF Describes, MemoryOfFirst
<1>3. CASE Len(s) # 0
  <2> DEFINE first == s[1]
             final == s[Len(s)]
  <2>1. 1 \in 1 .. Len(s) /\ Len(s) \in 1 .. Len(s)
    BY <1>3 DEF Describes
  <2>2. first \in Items /\ final \in Items
    BY <2>1 DEF Describes
  <2>3. first.upTo <= final.upTo
    BY <2>1, <1>3 DEF Describes
  <2>4. us = final.upTo - (first.upTo - first.mem)
    BY <1>3 DEF Describes, MemoryOfFirst
  <2> HIDE DEF first, final
  <2>5. first.upTo \in Nat /\ first.mem \in Nat /\ final.upTo \in Nat
    BY <2>2, ItemFields
  <2> QED
    BY <1>1, <2>3, <2>4, <2>5
<1> QED
  BY <1>2, <1>3

(* An empty queue is described by zero counters. *)
LEMMA EmptyDescribed ==
  ASSUME NEW ins \in Nat, NEW total \in Nat, NEW last \in Nat, last <= ins
  PROVE  Describes(<<>>, 0, 0, ins, total, last)
BY DEF Describes, MemoryOfFirst

(* Evicting the n oldest items: what remains, item by item. *)
LEMMA Remainder ==
  ASSUME NEW S, NEW s \in Seq(S), NEW n \in 0 .. Len(s)
  PROVE  /\ SubSeq(s, n + 1, Len(s)) \in Seq(S)
         /\ Len(SubSeq(s, n + 1, Len(s))) = Len(s) - n
         /\ \A i \in 1 .. Len(s) - n : SubSeq(s, n + 1, Len(s))[i] = s[n + i]
BY SMT

(* Taking n items away from the front of a described queue leaves a described one. *)
LEMMA EvictionDescribed ==
  ASSUME NEW s, NEW sz, NEW us, NEW ins, NEW total, NEW last,
         Describes(s, sz, us, ins, total, last),
         NEW n \in 0 .. Len(s),
         NEW later \in Nat, later <= (ins - Len(s)) + n
  PROVE  Describes(SubSeq(s, n + 1, Len(s)), sz - n, us - MemoryOfFirst(s, n),
                   ins, total, later)
<1> DEFINE L == Len(s)
           t == SubSeq(s, n + 1, Len(s))
<1>0. L \in Nat /\ s \in Seq(Items) /\ n \in Nat /\ n <= L
  BY DEF Describes
<1>1. t \in Seq(Items) /\ Len(t) = L - n
  BY <1>0, Remainder
<1>2. \A i \in 1 .. L - n : t[i] = s[n + i]
  BY <1>0, Remainder
<1>3. /\ \A i \in 1 .. L : s[i] \in Items
      /\ \A i \in 1 .. L : s[i].mem <= s[i].upTo
      /\ \A i \in 1 .. L : i > 1 => s[i].upTo = s[i - 1].upTo + s[i].mem
      /\ \A i, j \in 1 .. L : i <= j => s[i].upTo <= s[j].upTo
      /\ \A i \in 1 .. L : s[i].seq = (ins - L) + i
  BY <1>0 DEF Describes
<1>4. /\ L # 0 => s[L].upTo = total
      /\ sz = L
      /\ us = MemoryOfFirst(s, L)
      /\ us \in Nat /\ ins \in Nat /\ total \in Nat
  BY <1>0, CountersAreNatural DEF Describes
<1> HIDE DEF L, t
<1>5. us - MemoryOfFirst(s, n) = MemoryOfFirst(t, L - n)
  <2>1. CASE n = L
    BY <2>1, <1>0, <1>4 DEF MemoryOfFirst
  <2>2. CASE n = 0 /\ n # L
    BY <2>2, <1>0, <1>2, <1>4 DEF MemoryOfFirst
  <2>3. CASE n # 0 /\ n # L
    <3>1. t[1] = s[n + 1] /\ t[L - n] = s[L]
      BY <2>3, <1>2, <1>0
    <3>2. s[n + 1].upTo = s[n].upTo + s[n + 1].mem
      BY <2>3, <1>0, <1>3
    <3>3. /\ us = s[L].upTo - (s[1].upTo - s[1].mem)
          /\ MemoryOfFirst(s, n) = s[n].upTo - (s[1].upTo - s[1].mem)
      BY <2>3, <1>0, <1>4 DEF MemoryOfFirst
    <3>4. MemoryOfFirst(t, L - n) = t[L - n].upTo - (t[1].upTo - t[1].mem)
      BY <2>3, <1>0 DEF MemoryOfFirst
    <3>5. 1 \in 1 .. L /\ n \in 1 .. L /\ n + 1 \in 1 .. L /\ L \in 1 .. L
      BY <2>3, <1>0
    <3>6. /\ s[1].upTo \in Nat /\ s[1].mem \in Nat
          /\ s[n].upTo \in Nat /\ s[L].upTo \in Nat
          /\ s[n + 1].upTo \in Nat /\ s[n + 1].mem \in Nat
      BY <3>5, <1>3, ItemFields
    <3>7. us - MemoryOfFirst(s, n) = s[L].upTo - s[n].upTo
      <4> DEFINE a == s[1].upTo
                 b == s[1].mem
                 c == s[n].upTo
                 d == s[L].upTo
      <4>1. us = d - (a - b) /\ MemoryOfFirst(s, n) = c - (a - b)
        BY <3>3
      <4>2. a \in Nat /\ b \in Nat /\ c \in Nat /\ d \in Nat
        BY <3>6
      <4> HIDE DEF a, b, c, d
      <4>3. us - MemoryOfFirst(s, n) = d - c
        BY <4>1, <4>2
      <4> QED
        BY <4>3 DEF c, d
    <3>8. MemoryOfFirst(t, L - n) = s[L].upTo - s[n].upTo
      BY <3>1, <3>2, <3>4, <3>6
    <3> QED
      BY <3>7, <3>8
  <2> QED
    BY <2>1, <2>2, <2>3
<1>6. \A i \in 1 .. L - n : t[i] = s[n + i] /\ n + i \in 1 .. L
  BY <1>0, <1>2
<1>7. \A i \in 1 .. L - n : t[i].mem <= t[i].upTo
  BY <1>3, <1>6
<1>8. \A i \in 1 .. L - n : i > 1 => t[i].upTo = t[i - 1].upTo + t[i].mem
  <2> SUFFICES ASSUME NEW i \in 1 .. L - n, i > 1
               PROVE  t[i].upTo = t[i - 1].upTo + t[i].mem
    OBVIOUS
  <2>1. i - 1 \in 1 .. L - n /\ n + (i - 1) = (n + i) - 1
    BY <1>0
  <2>2. t[i] = s[n + i] /\ t[i - 1] = s[(n + i) - 1]
    BY <2>1, <1>6
  <2> QED
    BY <2>2, <1>0, <1>3, <1>6
<1>9. \A i, j \in 1 .. L - n : i <= j => t[i].upTo <= t[j].upTo
  <2> SUFFICES ASSUME NEW i \in 1 .. L - n, NEW j \in 1 .. L - n, i <= j
               PROVE  t[i].upTo <= t[j].upTo
    OBVIOUS
  <2>1. n + i <= n + j
    BY <1>0
  <2> QED
    BY <2>1, <1>3, <1>6
<1>10. L - n # 0 => t[L - n].upTo = total
  BY <1>0, <1>2, <1>4
<1>11. \A i \in 1 .. L - n : t[i].seq = (ins - (L - n)) + i
  <2> SUFFICES ASSUME NEW i \in 1 .. L - n
               PROVE  t[i].seq = (ins - (L - n)) + i
    OBVIOUS
  <2>1. s[n + i].seq = (ins - L) + (n + i)
    BY <1>3, <1>6
  <2> QED
    BY <2>1, <1>0, <1>4, <1>6
<1>12. later <= ins - (L - n)
  BY <1>0, <1>4 DEF L
<1>13. Describes(t, L - n, MemoryOfFirst(t, L - n), ins, total, later)
  BY <1>0, <1>1, <1>4, <1>7, <1>8, <1>9, <1>10, <1>11, <1>12 DEF Describes
<1> QED
  BY <1>4, <1>5, <1>13 DEF t

(* Appending a new item to a described queue gives a described one. *)
LEMMA AppendDescribed ==
  ASSUME NEW s, NEW sz, NEW us, NEW ins, NEW total, NEW last,
         Describes(s, sz, us, ins, total, last),
         NEW m \in Sizes
  PROVE  Describes(Append(s, Item(ins + 1, total, m)), sz + 1, us + m,
                   ins + 1, total + m, last)
<1> DEFINE L == Len(s)
           x == Item(ins + 1, total, m)
           t == Append(s, x)
<1>0. /\ L \in Nat /\ s \in Seq(Items) /\ m \in Nat
      /\ ins \in Nat /\ total \in Nat /\ last \in Nat
      /\ sz = L /\ us = MemoryOfFirst(s, L)
      /\ last <= ins - L
  BY BoundAssumption DEF Describes
<1>1. /\ \A i \in 1 .. L : s[i] \in Items
      /\ \A i \in 1 .. L : s[i].mem <= s[i].upTo
      /\ \A i \in 1 .. L : i > 1 => s[i].upTo = s[i - 1].upTo + s[i].mem
      /\ \A i, j \in 1 .. L : i <= j => s[i].upTo <= s[j].upTo
      /\ \A i \in 1 .. L : s[i].seq = (ins - L) + i
      /\ L # 0 => s[L].upTo = total
  BY <1>0 DEF Describes
<1>2. x \in Items /\ x.seq = ins + 1 /\ x.mem = m /\ x.upTo = total + m
  BY <1>0 DEF Item, Items
<1>3. t \in Seq(Items) /\ Len(t) = L + 1 /\ t[L + 1] = x
  BY <1>0, <1>2, AppendProperties
<1>4. \A i \in 1 .. L : t[i] = s[i]
  BY <1>0, <1>2, AppendProperties
<1> HIDE DEF L, t, x
<1>5. \A i \in 1 .. L + 1 : (i \in 1 .. L /\ t[i] = s[i]) \/ (i = L + 1 /\ t[i] = x)
  BY <1>0, <1>3, <1>4
<1>6. us + m = MemoryOfFirst(t, L + 1)
  <2>1. CASE L = 0
    BY <2>1, <1>0, <1>2, <1>3 DEF MemoryOfFirst
  <2>2. CASE L # 0
    <3>1. t[1] = s[1] /\ 1 \in 1 .. L /\ L \in 1 .. L
      BY <2>2, <1>0, <1>4
    <3>2. us = s[L].upTo - (s[1].upTo - s[1].mem) /\ s[L].upTo = total
      BY <2>2, <1>0, <1>1 DEF MemoryOfFirst
    <3>3. MemoryOfFirst(t, L + 1) = x.upTo - (s[1].upTo - s[1].mem)
      BY <2>2, <1>0, <1>3, <3>1 DEF MemoryOfFirst
    <3>4. s[1].upTo \in Nat /\ s[1].mem \in Nat
      BY <3>1, <1>1, ItemFields
    <3> QED
      BY <3>2, <3>3, <3>4, <1>0, <1>2
  <2> QED
    BY <2>1, <2>2
<1>7. \A i \in 1 .. L : s[i].upTo \in Nat /\ s[i].upTo <= total
  BY <1>0, <1>1, ItemFields
<1>8. \A i \in 1 .. L + 1 : t[i].mem <= t[i].upTo
  BY <1>0, <1>1, <1>2, <1>5
<1>9. \A i \in 1 .. L + 1 : i > 1 => t[i].upTo = t[i - 1].upTo + t[i].mem
  <2> SUFFICES ASSUME NEW i \in 1 .. L + 1, i > 1
               PROVE  t[i].upTo = t[i - 1].upTo + t[i].mem
    OBVIOUS
  <2>1. i - 1 \in 1 .. L /\ t[i - 1] = s[i - 1]
    BY <1>0, <1>4
  <2>2. CASE i \in 1 .. L /\ t[i] = s[i]
    BY <2>1, <2>2, <1>1
  <2>3. CASE i = L + 1 /\ t[i] = x
    BY <2>1, <2>3, <1>0, <1>1, <1>2
  <2> QED
    BY <2>2, <2>3, <1>5
<1>10. \A i, j \in 1 .. L + 1 : i <= j => t[i].upTo <= t[j].upTo
  <2> SUFFICES ASSUME NEW i \in 1 .. L + 1, NEW j \in 1 .. L + 1, i <= j
               PROVE  t[i].upTo <= t[j].upTo
    OBVIOUS
  <2>1. CASE j \in 1 .. L /\ t[j] = s[j]
    <3>1. i \in 1 .. L /\ t[i] = s[i]
      BY <2>1, <1>0, <1>4
    <3> QED
      BY <2>1, <3>1, <1>1
  <2>2. CASE j = L + 1 /\ t[j] = x
    <3>1. x.upTo \in Nat /\ total <= x.upTo
      BY <1>0, <1>2
    <3>2. CASE i \in 1 .. L /\ t[i] = s[i]
      BY <2>2, <3>1, <3>2, <1>0, <1>7
    <3>3. CASE i = L + 1 /\ t[i] = x
      BY <2>2, <3>1, <3>3
    <3> QED
      BY <3>2, <3>3, <1>5
  <2> QED
    BY <2>1, <2>2, <1>5
<1>11. \A i \in 1 .. L + 1 : t[i].seq = ((ins + 1) - (L + 1)) + i
  <2> SUFFICES ASSUME NEW i \in 1 .. L + 1
               PROVE  t[i].seq = ((ins + 1) - (L + 1)) + i
    OBVIOUS
  <2>1. CASE i \in 1 .. L /\ t[i] = s[i]
    BY <2>1, <1>0, <1>1
  <2>2. CASE i = L + 1 /\ t[i] = x
    BY <2>2, <1>0, <1>2
  <2> QED
    BY <2>1, <2>2, <1>5
<1>12. Describes(t, L + 1, MemoryOfFirst(t, L + 1), ins + 1, total + m, last)
  BY <1>0, <1>2, <1>3, <1>8, <1>9, <1>10, <1>11 DEF Describes
<1> QED
  BY <1>0, <1>6, <1>12 DEF t, x
-----------------------------------------------------------------------------
(* The parts of TypeOK about everything but the contents. *)
RestOK ==
  /\ capacity \in Capacities /\ memory \in Memories
  /\ elementsDropped \in Nat
  /\ notFullWaiters \subseteq Producers /\ notEmptyWaiters \subseteq Consumers
  /\ op \in [Threads -> BlockingOperations \cup {"none"}]
  /\ \A p \in Producers : op[p] \in {"none", "enqWait", "enqTimedWait"}
  /\ \A c \in Consumers : op[c] \in {"none", "deqWait", "deqTimedWait"}
  /\ \A t \in notFullWaiters \cup notEmptyWaiters : op[t] # "none"
  /\ pending \in [Threads -> Sizes \cup {0}]
  /\ \A p \in Producers : op[p] # "none" => pending[p] \in Sizes
  /\ expired \subseteq Threads
  /\ outcome \in [Producers -> Outcomes]
  /\ offered \in Nat /\ delivered \in Nat /\ reported \in Nat /\ controls \in Nat

(* The inductive invariant: the contents and the types of the rest.        *)
IInv == ContentsInv /\ RestOK

\* What the inductive invariant says of the properties that are checked.
LEMMA IInvImplies == IInv => TypeOK /\ CountersMatchContents /\ FifoOrder
<1> SUFFICES ASSUME IInv PROVE TypeOK /\ CountersMatchContents /\ FifoOrder
  OBVIOUS
<1>1. size \in Nat /\ used \in Nat
  BY CountersAreNatural DEF IInv, ContentsInv
<1>2. CountersMatchContents /\ FifoOrder
  BY DEF IInv, ContentsInv, Describes, CountersMatchContents, FifoOrder
<1>3. elements \in Seq(Items) /\ inserted \in Nat /\ insertedMemory \in Nat /\ lastDelivered \in Nat
  BY DEF IInv, ContentsInv, Describes
<1> QED
  BY <1>1, <1>2, <1>3 DEF IInv, RestOK, TypeOK

(* doInsert keeps the contents described, whatever it evicts first. *)
LEMMA doInsertContents ==
  ASSUME ContentsInv, NEW n \in 0 .. Len(elements), NEW m \in Sizes,
         doInsert(n, m), UNCHANGED lastDelivered
  PROVE  ContentsInv'
<1>1. lastDelivered \in Nat /\ lastDelivered <= (inserted - Len(elements)) + n
  BY DEF ContentsInv, Describes
<1>2. Describes(SubSeq(elements, n + 1, Len(elements)), size - n,
                used - MemoryOfFirst(elements, n), inserted, insertedMemory, lastDelivered)
  BY <1>1, EvictionDescribed DEF ContentsInv
<1>3. Describes(Append(SubSeq(elements, n + 1, Len(elements)),
                       Item(inserted + 1, insertedMemory, m)),
                (size - n) + 1, (used - MemoryOfFirst(elements, n)) + m,
                inserted + 1, insertedMemory + m, lastDelivered)
  BY <1>2, AppendDescribed
<1> QED
  BY <1>3 DEF ContentsInv, doInsert

(* So does handing over the head, which becomes the latest delivery. *)
LEMMA removeHeadContents ==
  ASSUME ContentsInv, size # 0, removeHead, UNCHANGED <<inserted, insertedMemory>>
  PROVE  ContentsInv'
<1>1. elements \in Seq(Items) /\ Len(elements) # 0 /\ inserted \in Nat
  BY DEF ContentsInv, Describes
<1>2. 1 \in 0 .. Len(elements) /\ 1 \in 1 .. Len(elements)
  BY <1>1
<1>3. Tail(elements) = SubSeq(elements, 1 + 1, Len(elements)) /\ Head(elements) = elements[1]
  BY <1>1, TailIsSubSeq
<1>4. /\ elements[1].seq \in Nat /\ elements[1].upTo \in Nat /\ elements[1].mem \in Nat
      /\ elements[1].seq = (inserted - Len(elements)) + 1
  BY <1>1, <1>2, ItemFields DEF ContentsInv, Describes
<1>5. MemoryOfFirst(elements, 1) = elements[1].mem
  BY <1>4 DEF MemoryOfFirst
<1>6. Describes(SubSeq(elements, 1 + 1, Len(elements)), size - 1,
                used - MemoryOfFirst(elements, 1), inserted, insertedMemory, elements[1].seq)
  BY <1>2, <1>4, EvictionDescribed DEF ContentsInv
<1> QED
  BY <1>3, <1>5, <1>6 DEF ContentsInv, removeHead

(* And clearing the queue. *)
LEMMA clearContents ==
  ASSUME ContentsInv, elements' = <<>>, size' = 0, used' = 0,
         UNCHANGED <<inserted, insertedMemory, lastDelivered>>
  PROVE  ContentsInv'
<1>1. inserted \in Nat /\ insertedMemory \in Nat /\ lastDelivered \in Nat
      /\ lastDelivered <= inserted
  BY DEF ContentsInv, Describes
<1>2. Describes(<<>>, 0, 0, inserted, insertedMemory, lastDelivered)
  BY <1>1, EmptyDescribed
<1> QED
  BY <1>2 DEF ContentsInv

\* An enqueue keeps the counters and the order.
LEMMA doEnqContents ==
  ASSUME IInv, NEW p, NEW m \in Sizes, doEnq(p, m), UNCHANGED lastDelivered
  PROVE  ContentsInv'
<1>0. ContentsInv /\ Len(elements) \in Nat
  BY DEF IInv, ContentsInv, Describes
<1>1. CASE doEnqFailIfFull(p, m) \/ doEnqRejectNewest(p, m)
  <2>1. CASE doInsert(0, m)
    BY <2>1, <1>0, doInsertContents
  <2>2. CASE UNCHANGED <<contents, inserted, insertedMemory, notEmptyWaiters>>
    BY <2>2, <1>0 DEF ContentsInv, contents
  <2> QED
    BY <1>1, <2>1, <2>2 DEF doEnqFailIfFull, doEnqRejectNewest
<1>2. CASE doEnqKeepNewest(p, m)
  <2>1. PICK n \in 0 .. Len(elements) :
           \/ doInsert(n, m)
           \/ /\ elements' = SubSeq(elements, n + 1, Len(elements))
              /\ size' = size - n
              /\ used' = used - MemoryOfFirst(elements, n)
              /\ UNCHANGED <<inserted, insertedMemory, notEmptyWaiters>>
    BY <1>2 DEF doEnqKeepNewest
  <2>2. CASE doInsert(n, m)
    BY <2>2, <1>0, doInsertContents
  <2>3. CASE /\ elements' = SubSeq(elements, n + 1, Len(elements))
             /\ size' = size - n
             /\ used' = used - MemoryOfFirst(elements, n)
             /\ UNCHANGED <<inserted, insertedMemory, notEmptyWaiters>>
    <3>1. lastDelivered \in Nat /\ lastDelivered <= (inserted - Len(elements)) + n
      BY <1>0 DEF ContentsInv, Describes
    <3>2. Describes(SubSeq(elements, n + 1, Len(elements)), size - n,
                    used - MemoryOfFirst(elements, n), inserted, insertedMemory, lastDelivered)
      BY <1>0, <3>1, EvictionDescribed DEF ContentsInv
    <3> QED
      BY <2>3, <3>2 DEF ContentsInv
  <2> QED
    BY <2>1, <2>2, <2>3
<1> QED
  BY <1>1, <1>2 DEF doEnq

-----------------------------------------------------------------------------
(* Every step keeps the contents described. *)
LEMMA ContentsStep ==
  ASSUME IInv, [Next]_vars
  PROVE  ContentsInv'
<1>0. ContentsInv /\ Len(elements) \in Nat
  BY DEF IInv, ContentsInv, Describes
<1> USE DEF IInv
<1>1. ASSUME NEW p \in Producers, NEW m \in Sizes, enqNowait(p, m) PROVE ContentsInv'
  BY <1>1, doEnqContents DEF enqNowait
<1>2. ASSUME NEW p \in Producers, NEW m \in Sizes, enqWait(p, m) \/ enqTimedWait(p, m)
      PROVE  ContentsInv'
  BY <1>0, <1>2, doInsertContents DEF enqWait, enqTimedWait, WaitNotFull, Store, contents, ContentsInv
<1>3. ASSUME NEW p \in Producers, enqWaitResume(p) \/ enqTimedWaitResume(p) PROVE ContentsInv'
  <2>1. pending[p] \in Sizes
    BY <1>3 DEF RestOK, enqWaitResume, enqTimedWaitResume
  <2> QED
    BY <1>0, <1>3, <2>1, doInsertContents
    DEF enqWaitResume, enqTimedWaitResume, WaitNotFull, Store, contents, ContentsInv
<1>4. ASSUME NEW c \in Consumers, Consume(c) PROVE ContentsInv'
  <2>1. \/ size # 0 /\ removeHead /\ UNCHANGED <<inserted, insertedMemory>>
        \/ UNCHANGED <<contents, inserted, insertedMemory, lastDelivered>>
    BY <1>4 DEF Consume, deqNowait, deqWait, deqWaitResume, deqTimedWait, deqTimedWaitResume,
                NothingRemoved, WaitNotEmpty
  <2> QED
    BY <1>0, <2>1, removeHeadContents DEF contents, ContentsInv
<1>5. ASSUME NEW t \in Threads, WakeUnnotified(t) PROVE ContentsInv'
  BY <1>0, <1>5 DEF WakeUnnotified, contents, history, ContentsInv
<1>6. CASE Reconfigure
  <2>1. CASE clear
    BY <1>0, <2>1, clearContents DEF clear
  <2>2. CASE ~clear
    BY <1>0, <1>6, <2>2
    DEF Reconfigure, setCapacity, setMemory, addExternallyDroppedEvents, contents, ContentsInv
  <2> QED
    BY <2>1, <2>2
<1>7. CASE UNCHANGED vars
  BY <1>0, <1>7 DEF vars, contents, history, ContentsInv
<1> QED
  BY <1>1, <1>2, <1>3, <1>4, <1>5, <1>6, <1>7 DEF Next, Produce

(* The blocking protocol keeps its types: what notify, wait and return do. *)
LEMMA NotifyTypes ==
  ASSUME RestOK
  PROVE  /\ NotifyNotEmpty => notEmptyWaiters' \subseteq notEmptyWaiters
         /\ NotifyNotFull => notFullWaiters' \subseteq notFullWaiters
BY DEF NotifyNotEmpty, NotifyNotFull

\* An enqueue keeps the types of everything but the contents.
LEMMA doEnqRest ==
  ASSUME IInv, NEW p \in Producers, NEW m \in Sizes, doEnq(p, m)
  PROVE  /\ elementsDropped' \in Nat
         /\ outcome' \in [Producers -> Outcomes]
         /\ notEmptyWaiters' \subseteq notEmptyWaiters
<1>0. elementsDropped \in Nat /\ outcome \in [Producers -> Outcomes] /\ Len(elements) \in Nat
  BY DEF IInv, RestOK, ContentsInv, Describes
<1>1. \E n \in Nat : elementsDropped' = elementsDropped + n \/ UNCHANGED elementsDropped
  BY DEF doEnq, doEnqFailIfFull, doEnqKeepNewest, doEnqRejectNewest, Drop
<1>2. \E o \in Outcomes : outcome' = [outcome EXCEPT ![p] = o]
  BY DEF doEnq, doEnqFailIfFull, doEnqKeepNewest, doEnqRejectNewest, Outcomes
<1>3. NotifyNotEmpty \/ UNCHANGED notEmptyWaiters
  BY DEF doEnq, doEnqFailIfFull, doEnqKeepNewest, doEnqRejectNewest, doInsert
<1>4. elementsDropped' \in Nat
  <2>1. CASE UNCHANGED elementsDropped
    BY <1>0, <2>1
  <2>2. CASE \E n \in Nat : elementsDropped' = elementsDropped + n
    BY <1>0, <2>2
  <2> QED
    BY <1>1, <2>1, <2>2 DEF doEnq, doEnqFailIfFull, doEnqKeepNewest, doEnqRejectNewest, Drop
<1>5. outcome' \in [Producers -> Outcomes]
  BY <1>0, <1>2
<1> QED
  BY <1>3, <1>4, <1>5, NotifyTypes DEF IInv

\* So does every step of a producer.
LEMMA ProduceRest ==
  ASSUME IInv, NEW p \in Producers, Produce(p)
  PROVE  RestOK'
<1>0. RestOK /\ p \in Threads
  BY DEF IInv, Threads
<1>1. ASSUME NEW m \in Sizes, enqNowait(p, m) PROVE RestOK'
  <2>1. /\ elementsDropped' \in Nat
        /\ outcome' \in [Producers -> Outcomes]
        /\ notEmptyWaiters' \subseteq notEmptyWaiters
    BY <1>1, doEnqRest DEF enqNowait
  <2> QED
    BY <1>0, <1>1, <2>1 DEF enqNowait, Offer, RestOK, limits
<1>2. ASSUME NEW m \in Sizes, enqWait(p, m) \/ enqTimedWait(p, m) PROVE RestOK'
  <2>1. CASE WaitNotFull(p, "enqWait", m) \/ WaitNotFull(p, "enqTimedWait", m)
    BY <1>0, <1>2, <2>1, ThreadAssumption
    DEF enqWait, enqTimedWait, WaitNotFull, Offer, RestOK, limits, Outcomes, Threads,
        BlockingOperations, TimedOperations
  <2>2. CASE Store(p, m) /\ UNCHANGED <<op, pending, expired>>
    <3>1. notEmptyWaiters' \subseteq notEmptyWaiters
      BY <1>0, <2>2, NotifyTypes DEF Store, doInsert
    <3> QED
      BY <1>0, <1>2, <2>2, <3>1
      DEF enqWait, enqTimedWait, Store, Offer, RestOK, limits, Outcomes
  <2> QED
    BY <1>2, <2>1, <2>2 DEF enqWait, enqTimedWait
<1>3. CASE enqWaitResume(p) \/ enqTimedWaitResume(p)
  <2>1. pending[p] \in Sizes /\ p \notin notFullWaiters /\ op[p] # "none"
    BY <1>0, <1>3 DEF RestOK, enqWaitResume, enqTimedWaitResume
  <2>2. CASE WaitNotFull(p, "enqWait", pending[p])
    BY <1>0, <1>3, <2>1, <2>2, ThreadAssumption
    DEF enqWaitResume, enqTimedWaitResume, WaitNotFull, RestOK, limits, Outcomes, Threads,
        BlockingOperations, TimedOperations
  <2>3. CASE Return(p) /\ (Store(p, pending[p]) \/ UNCHANGED <<notFullWaiters, notEmptyWaiters>>)
    <3>1. notEmptyWaiters' \subseteq notEmptyWaiters /\ notFullWaiters' = notFullWaiters
      BY <1>0, <2>3, NotifyTypes DEF Store, doInsert
    <3>2. /\ op' = [op EXCEPT ![p] = "none"]
          /\ pending' = [pending EXCEPT ![p] = 0]
          /\ expired' = expired \ {p}
      BY <2>3 DEF Return
    <3>3. p \notin notEmptyWaiters
      BY <1>0, ThreadAssumption DEF RestOK
    <3>4. elementsDropped' \in Nat /\ outcome' \in [Producers -> Outcomes]
      BY <1>0, <1>3 DEF enqWaitResume, enqTimedWaitResume, WaitNotFull, Store, Drop, RestOK, Outcomes
    <3>5. UNCHANGED <<capacity, memory, offered, delivered, reported, controls>>
      BY <1>3 DEF enqWaitResume, enqTimedWaitResume, limits
    <3> QED
      BY <1>0, <2>1, <3>1, <3>2, <3>3, <3>4, <3>5 DEF RestOK
  <2> QED
    BY <1>3, <2>2, <2>3 DEF enqWaitResume, enqTimedWaitResume
<1> QED
  BY <1>1, <1>2, <1>3 DEF Produce

\* So does every step of a consumer.
LEMMA ConsumeRest ==
  ASSUME IInv, NEW c \in Consumers, Consume(c)
  PROVE  RestOK'
<1>0. RestOK /\ c \in Threads /\ c \notin Producers
  BY ThreadAssumption DEF IInv, Threads
<1>1. \/ removeHead
      \/ UNCHANGED <<elementsDropped, notFullWaiters, delivered, reported>>
  BY DEF Consume, deqNowait, deqWait, deqWaitResume, deqTimedWait, deqTimedWaitResume,
         NothingRemoved, WaitNotEmpty
<1>2. /\ elementsDropped' \in Nat /\ delivered' \in Nat /\ reported' \in Nat
      /\ notFullWaiters' \subseteq notFullWaiters
  BY <1>0, <1>1, NotifyTypes DEF removeHead, RestOK
<1>3. UNCHANGED <<capacity, memory, outcome, offered, controls>>
  BY DEF Consume, deqNowait, deqWait, deqWaitResume, deqTimedWait, deqTimedWaitResume, limits
<1>4. \/ UNCHANGED <<notEmptyWaiters, op, pending, expired>>
      \/ Return(c) /\ UNCHANGED notEmptyWaiters /\ c \notin notEmptyWaiters
      \/ /\ notEmptyWaiters' = notEmptyWaiters \cup {c}
         /\ \E o \in {"deqWait", "deqTimedWait"} : op' = [op EXCEPT ![c] = o]
         /\ expired' = expired \ {c}
         /\ UNCHANGED pending
  BY DEF Consume, deqNowait, deqWait, deqWaitResume, deqTimedWait, deqTimedWaitResume, WaitNotEmpty
<1>5. CASE UNCHANGED <<notEmptyWaiters, op, pending, expired>>
  BY <1>0, <1>2, <1>3, <1>5 DEF RestOK
<1>6. CASE Return(c) /\ UNCHANGED notEmptyWaiters /\ c \notin notEmptyWaiters
  <2>1. c \notin notFullWaiters'
    BY <1>0, <1>2 DEF RestOK
  <2> QED
    BY <1>0, <1>2, <1>3, <1>6, <2>1 DEF RestOK, Return
<1>7. CASE /\ notEmptyWaiters' = notEmptyWaiters \cup {c}
           /\ \E o \in {"deqWait", "deqTimedWait"} : op' = [op EXCEPT ![c] = o]
           /\ expired' = expired \ {c}
           /\ UNCHANGED pending
  BY <1>0, <1>2, <1>3, <1>7 DEF RestOK, BlockingOperations, TimedOperations
<1> QED
  BY <1>4, <1>5, <1>6, <1>7

\* So does every step.
LEMMA RestStep ==
  ASSUME IInv, [Next]_vars
  PROVE  RestOK'
<1>0. RestOK /\ size \in Nat
  BY CountersAreNatural DEF IInv, ContentsInv
<1>1. ASSUME NEW t \in Threads, WakeUnnotified(t) PROVE RestOK'
  BY <1>0, <1>1 DEF WakeUnnotified, RestOK, history, limits
<1>2. CASE Reconfigure
  BY <1>0, <1>2
  DEF Reconfigure, Control, clear, setCapacity, setMemory, addExternallyDroppedEvents,
      Drop, RestOK, limits, waiting
<1>3. CASE UNCHANGED vars
  BY <1>0, <1>3 DEF vars, RestOK, history, limits, waiting
<1> QED
  BY <1>1, <1>2, <1>3, ProduceRest, ConsumeRest DEF Next

(***************************************************************************)
(* THE INVARIANT.  The counters size_ and used_ describe the list, the     *)
(* list is the tail of what was inserted, and the types are respected.     *)
(***************************************************************************)
LEMMA InitIInv == Init => IInv
<1> SUFFICES ASSUME Init PROVE IInv
  OBVIOUS
<1>1. ContentsInv
  BY EmptyDescribed DEF Init, ContentsInv
<1>2. RestOK
  BY BoundAssumption DEF Init, RestOK, Threads, Outcomes
<1> QED
  BY <1>1, <1>2 DEF IInv

\* The inductive invariant: the counters match the contents, and every value has its type.
THEOREM Invariant == Spec => []IInv
<1>1. IInv /\ [Next]_vars => IInv'
  BY ContentsStep, RestStep DEF IInv
<1> QED
  BY InitIInv, <1>1, PTL DEF Spec

(* Every variable of the queue keeps its type. *)
THEOREM TypeCorrect == Spec => []TypeOK
BY Invariant, IInvImplies, PTL

(* size_ and used_ always are the length and the memory of the list. *)
THEOREM CountersCorrect == Spec => []CountersMatchContents
BY Invariant, IInvImplies, PTL

(* The queue holds the latest insertions in order, all newer than what was delivered. *)
THEOREM FifoCorrect == Spec => []FifoOrder
BY Invariant, IInvImplies, PTL

-----------------------------------------------------------------------------
(* Every item is accounted for.                                            *)

(* How a change of op changes the number of blocked producers. *)
LEMMA BlockedFinite == IsFiniteSet(Blocked) /\ Cardinality(Blocked) \in Nat
<1>1. Blocked \subseteq Producers
  BY DEF Blocked
<1>2. IsFiniteSet(Blocked)
  BY <1>1, ThreadAssumption, FS_Subset
<1> QED
  BY <1>2, FS_CardinalityType

\* The number of blocked producers when none blocks or resumes.
LEMMA BlockedSame ==
  ASSUME \A p \in Producers : op'[p] # "none" <=> op[p] # "none"
  PROVE  Cardinality(Blocked)' = Cardinality(Blocked)
<1>1. Blocked' = Blocked
  BY DEF Blocked
<1> QED
  BY <1>1

\* One more when a producer blocks.
LEMMA BlockedGrows ==
  ASSUME RestOK, NEW p \in Producers, op[p] = "none",
         NEW o, o # "none", op' = [op EXCEPT ![p] = o]
  PROVE  Cardinality(Blocked)' = Cardinality(Blocked) + 1
<1>1. Blocked' = Blocked \cup {p} /\ p \notin Blocked
  BY DEF RestOK, Blocked, Threads
<1>2. Cardinality(Blocked \cup {p}) = Cardinality(Blocked) + 1
  BY <1>1, BlockedFinite, FS_AddElement
<1> QED
  BY <1>1, <1>2

\* One less when it resumes.
LEMMA BlockedShrinks ==
  ASSUME RestOK, NEW p \in Producers, op[p] # "none",
         op' = [op EXCEPT ![p] = "none"]
  PROVE  Cardinality(Blocked)' = Cardinality(Blocked) - 1
<1>1. Blocked' = Blocked \ {p} /\ p \in Blocked
  BY DEF RestOK, Blocked, Threads
<1>2. Cardinality(Blocked \ {p}) = Cardinality(Blocked) - 1
  BY <1>1, BlockedFinite, FS_RemoveElement
<1> QED
  BY <1>1, <1>2

(* enqNowait stores its item or counts it, and counts whatever it evicts. *)
LEMMA doEnqAccounts ==
  ASSUME IInv, NEW p, NEW m, doEnq(p, m)
  PROVE  size' + elementsDropped' = (size + elementsDropped) + 1
<1>1. size \in Nat /\ elementsDropped \in Nat /\ Len(elements) \in Nat
  BY CountersAreNatural DEF IInv, RestOK, ContentsInv, Describes
<1>2. \E n \in 0 .. Len(elements) :
        \/ size' = (size - n) + 1 /\ elementsDropped' = elementsDropped + n
        \/ size' = size - n /\ elementsDropped' = elementsDropped + (n + 1)
  <2>1. CASE doEnqFailIfFull(p, m) \/ doEnqRejectNewest(p, m)
    <3>1. \/ size' = (size - 0) + 1 /\ elementsDropped' = elementsDropped
          \/ size' = size /\ elementsDropped' = elementsDropped + 1
      BY <2>1 DEF doEnqFailIfFull, doEnqRejectNewest, doInsert, Drop, contents
    <3> QED
      BY <3>1, <1>1
  <2>2. CASE doEnqKeepNewest(p, m)
    BY <2>2 DEF doEnqKeepNewest, doInsert, Drop
  <2> QED
    BY <2>1, <2>2 DEF doEnq
<1> QED
  BY <1>1, <1>2

(***************************************************************************)
(* THE ACCOUNT.  Whatever the policy and however threads block, time out,  *)
(* evict and clear, each item offered is stored, delivered, held by its    *)
(* blocked producer or counted as dropped, exactly once.                   *)
(***************************************************************************)
LEMMA AccountStep ==
  ASSUME IInv, IInv', EveryItemAccountedFor, [Next]_vars
  PROVE  EveryItemAccountedFor'
<1> DEFINE B == Cardinality(Blocked)
<1>0. /\ RestOK /\ size \in Nat /\ elementsDropped \in Nat
      /\ offered \in Nat /\ delivered \in Nat /\ reported \in Nat
  BY CountersAreNatural DEF IInv, RestOK, ContentsInv
<1>b. B \in Nat
  BY BlockedFinite
<1>e. offered = ((delivered + size) + (reported + elementsDropped)) + B
  BY DEF EveryItemAccountedFor
<1> HIDE DEF B
<1>q. SUFFICES offered' = ((delivered' + size') + (reported' + elementsDropped')) + B'
  BY DEF EveryItemAccountedFor, B
<1>1. ASSUME NEW p \in Producers, NEW m \in Sizes, enqNowait(p, m)
      PROVE  offered' = ((delivered' + size') + (reported' + elementsDropped')) + B'
  <2>1. size' + elementsDropped' = (size + elementsDropped) + 1
    BY <1>1, doEnqAccounts DEF enqNowait
  <2>2. B' = B
    BY <1>1, BlockedSame DEF enqNowait, B
  <2>3. offered' = offered + 1 /\ delivered' = delivered /\ reported' = reported
    BY <1>1 DEF enqNowait, Offer
  <2>4. size' \in Nat /\ elementsDropped' \in Nat
    BY CountersAreNatural DEF IInv, RestOK, ContentsInv
  <2>5. (delivered + size') + (reported + elementsDropped')
          = ((delivered + size) + (reported + elementsDropped)) + 1
    <3> DEFINE a == size'
               b == elementsDropped'
    <3>1. a \in Nat /\ b \in Nat /\ a + b = (size + elementsDropped) + 1
      BY <2>1, <2>4
    <3> HIDE DEF a, b
    <3>2. (delivered + a) + (reported + b) = ((delivered + size) + (reported + elementsDropped)) + 1
      BY <1>0, <3>1
    <3> QED
      BY <3>2 DEF a, b
  <2>6. offered' = (((delivered + size) + (reported + elementsDropped)) + B) + 1
    BY <1>e, <2>3
  <2>7. \A a, b \in Nat : (a + b) + 1 = (a + 1) + b
    OBVIOUS
  <2>8. (delivered + size) + (reported + elementsDropped) \in Nat
    BY <1>0
  <2> QED
    BY <1>b, <2>2, <2>3, <2>5, <2>6, <2>7, <2>8
<1>2. ASSUME NEW p \in Producers, NEW m \in Sizes, enqWait(p, m) \/ enqTimedWait(p, m)
      PROVE  offered' = ((delivered' + size') + (reported' + elementsDropped')) + B'
  <2>1. /\ offered' = offered + 1 /\ delivered' = delivered /\ reported' = reported
        /\ op[p] = "none"
    BY <1>2 DEF enqWait, enqTimedWait, Offer
  <2>2. CASE WaitNotFull(p, "enqWait", m) \/ WaitNotFull(p, "enqTimedWait", m)
    <3>1. B' = B + 1
      BY <1>0, <2>1, <2>2, BlockedGrows DEF WaitNotFull, B
    <3> QED
      BY <1>0, <1>b, <1>e, <2>1, <2>2, <3>1 DEF WaitNotFull, contents
  <2>3. CASE Store(p, m) /\ UNCHANGED <<op, pending, expired>>
    <3>1. B' = B
      BY <2>3, BlockedSame DEF B
    <3>2. size' = (size - 0) + 1 /\ elementsDropped' = elementsDropped
      BY <2>3 DEF Store, doInsert
    <3> QED
      BY <1>0, <1>b, <1>e, <2>1, <3>1, <3>2
  <2> QED
    BY <1>2, <2>2, <2>3 DEF enqWait, enqTimedWait
<1>3. ASSUME NEW p \in Producers, enqWaitResume(p) \/ enqTimedWaitResume(p)
      PROVE  offered' = ((delivered' + size') + (reported' + elementsDropped')) + B'
  <2>1. /\ offered' = offered /\ delivered' = delivered /\ reported' = reported
        /\ op[p] # "none"
    BY <1>3 DEF enqWaitResume, enqTimedWaitResume
  <2>2. CASE WaitNotFull(p, "enqWait", pending[p])
    <3>1. B' = B
      BY <1>0, <2>1, <2>2, BlockedSame DEF WaitNotFull, RestOK, Threads, B
    <3> QED
      BY <1>0, <1>b, <1>e, <2>1, <2>2, <3>1 DEF WaitNotFull, contents
  <2>3. CASE Return(p) /\ Store(p, pending[p])
    <3>1. B' = B - 1
      BY <1>0, <2>1, <2>3, BlockedShrinks DEF Return, B
    <3>2. size' = (size - 0) + 1 /\ elementsDropped' = elementsDropped
      BY <2>3 DEF Store, doInsert
    <3> QED
      BY <1>0, <1>b, <1>e, <2>1, <3>1, <3>2
  <2>4. CASE Return(p) /\ Drop(1) /\ UNCHANGED contents
    <3>1. B' = B - 1
      BY <1>0, <2>1, <2>4, BlockedShrinks DEF Return, B
    <3> QED
      BY <1>0, <1>b, <1>e, <2>1, <2>4, <3>1 DEF Drop, contents
  <2> QED
    BY <1>3, <2>2, <2>3, <2>4 DEF enqWaitResume, enqTimedWaitResume
<1>4. ASSUME NEW c \in Consumers, Consume(c)
      PROVE  offered' = ((delivered' + size') + (reported' + elementsDropped')) + B'
  <2>1. B' = B
    <3>1. c \notin Producers /\ op \in [Threads -> BlockingOperations \cup {"none"}]
      BY <1>0, ThreadAssumption DEF RestOK
    <3>2. op' = op \/ \E o : op' = [op EXCEPT ![c] = o]
      BY <1>4 DEF Consume, deqNowait, deqWait, deqWaitResume, deqTimedWait, deqTimedWaitResume,
                  WaitNotEmpty, Return
    <3> QED
      BY <3>1, <3>2, BlockedSame DEF B, Threads
  <2>2. offered' = offered
    BY <1>4 DEF Consume, deqNowait, deqWait, deqWaitResume, deqTimedWait, deqTimedWaitResume
  <2>3. \/ removeHead
        \/ UNCHANGED <<size, elementsDropped, delivered, reported>>
    BY <1>4 DEF Consume, deqNowait, deqWait, deqWaitResume, deqTimedWait, deqTimedWaitResume,
                WaitNotEmpty, NothingRemoved, contents
  <2>4. CASE removeHead
    <3>1. size' = size - 1 /\ delivered' = delivered + 1
      BY <2>4 DEF removeHead
    <3>2. \/ elementsDropped' = elementsDropped /\ reported' = reported
          \/ elementsDropped' = 0 /\ reported' = reported + elementsDropped
      BY <2>4 DEF removeHead
    <3> QED
      BY <1>0, <1>b, <1>e, <2>1, <2>2, <3>1, <3>2
  <2>5. CASE UNCHANGED <<size, elementsDropped, delivered, reported>>
    BY <1>0, <1>b, <1>e, <2>1, <2>2, <2>5
  <2> QED
    BY <2>3, <2>4, <2>5
<1>5. ASSUME NEW t \in Threads, WakeUnnotified(t)
      PROVE  offered' = ((delivered' + size') + (reported' + elementsDropped')) + B'
  <2>1. B' = B
    BY <1>5, BlockedSame DEF WakeUnnotified, B
  <2> QED
    BY <1>e, <1>5, <2>1 DEF WakeUnnotified, contents, history
<1>6. CASE Reconfigure
  <2>1. B' = B
    BY <1>6, BlockedSame
    DEF Reconfigure, clear, setCapacity, setMemory, addExternallyDroppedEvents, waiting, B
  <2>2. /\ delivered' = delivered /\ reported' = reported
        /\ \/ size' = 0 /\ elementsDropped' = elementsDropped + size /\ offered' = offered
           \/ UNCHANGED <<size, elementsDropped, offered>>
           \/ size' = size /\ elementsDropped' = elementsDropped + 1 /\ offered' = offered + 1
    BY <1>6 DEF Reconfigure, clear, setCapacity, setMemory, addExternallyDroppedEvents, Drop, contents
  <2> QED
    BY <1>0, <1>b, <1>e, <2>1, <2>2
<1>7. CASE UNCHANGED vars
  <2>1. B' = B
    BY <1>7, BlockedSame DEF vars, waiting, B
  <2> QED
    BY <1>e, <1>7, <2>1 DEF vars, contents, history
<1> QED
  BY <1>1, <1>2, <1>3, <1>4, <1>5, <1>6, <1>7 DEF Next, Produce

\* Every item enqueued is in the queue, delivered, dropped, or still with its producer.
THEOREM AccountCorrect == Spec => []EveryItemAccountedFor
<1>1. Init => EveryItemAccountedFor
  <2> SUFFICES ASSUME Init PROVE EveryItemAccountedFor
    OBVIOUS
  <2>1. Blocked = {}
    BY DEF Init, Blocked, Threads
  <2>2. Cardinality({}) = 0
    BY FS_EmptySet
  <2> QED
    BY <2>1, <2>2 DEF Init, EveryItemAccountedFor
<1>2. IInv /\ IInv' /\ EveryItemAccountedFor /\ [Next]_vars => EveryItemAccountedFor'
  BY AccountStep
<1> QED
  BY <1>1, <1>2, Invariant, PTL DEF Spec

-----------------------------------------------------------------------------
(* The limits are observed.                                                *)

\* The memory of the n oldest items is a natural number, and so is what is left.
LEMMA FirstMemory ==
  ASSUME IInv, NEW n \in 0 .. Len(elements)
  PROVE  /\ Len(elements) \in Nat /\ n \in Nat /\ size \in Nat /\ used \in Nat
         /\ size = Len(elements) /\ elements \in Seq(Items)
         /\ MemoryOfFirst(elements, n) \in Nat
         /\ used - MemoryOfFirst(elements, n) \in Nat
<1>1. /\ Describes(elements, size, used, inserted, insertedMemory, lastDelivered)
      /\ Len(elements) \in Nat /\ n \in Nat /\ n <= Len(elements) /\ elements \in Seq(Items)
      /\ size = Len(elements) /\ inserted \in Nat
  BY DEF IInv, ContentsInv, Describes
<1>2. size \in Nat /\ used \in Nat
  BY <1>1, CountersAreNatural
<1>3. used - MemoryOfFirst(elements, n) \in Nat
  <2>1. 0 <= (inserted - Len(elements)) + n
    BY <1>1 DEF Describes
  <2>2. Describes(SubSeq(elements, n + 1, Len(elements)), size - n,
                  used - MemoryOfFirst(elements, n), inserted, insertedMemory, 0)
    BY <1>1, <2>1, EvictionDescribed
  <2> QED
    BY <2>2, CountersAreNatural
<1>4. MemoryOfFirst(elements, n) \in Nat
  <2>1. CASE n = 0
    BY <2>1 DEF MemoryOfFirst
  <2>2. CASE n # 0
    <3> DEFINE first == elements[1]
               final == elements[n]
    <3>1. 1 \in 1 .. Len(elements) /\ n \in 1 .. Len(elements) /\ 1 <= n
      BY <1>1, <2>2
    <3>2. first \in Items /\ final \in Items /\ first.upTo <= final.upTo
      BY <1>1, <3>1 DEF Describes
    <3>3. MemoryOfFirst(elements, n) = final.upTo - (first.upTo - first.mem)
      BY <2>2 DEF MemoryOfFirst
    <3> HIDE DEF first, final
    <3>4. first.upTo \in Nat /\ first.mem \in Nat /\ final.upTo \in Nat
      BY <3>2, ItemFields
    <3> QED
      BY <3>2, <3>3, <3>4
  <2> QED
    BY <2>1, <2>2
<1> QED
  BY <1>1, <1>2, <1>3, <1>4

\* Evicting, or handing over, the n oldest items keeps the limits.
LEMMA EvictionWithin ==
  ASSUME IInv, WithinLimits, NEW n \in 0 .. Len(elements), UNCHANGED limits,
         elements' = SubSeq(elements, n + 1, Len(elements)), size' = size - n,
         used' = used - MemoryOfFirst(elements, n)
  PROVE  WithinLimits'
<1> DEFINE taken == MemoryOfFirst(elements, n)
           last == elements[Len(elements)].mem
<1>1. /\ size \in Nat /\ used \in Nat /\ n \in Nat /\ taken \in Nat /\ Len(elements) \in Nat
      /\ elements \in Seq(Items) /\ capacity \in Nat /\ memory \in Nat
  BY FirstMemory, BoundAssumption DEF IInv, RestOK
<1>2. elements' # <<>> => elements # <<>> /\ elements'[Len(elements')] = elements[Len(elements)]
  <2>1. /\ elements' \in Seq(Items) /\ Len(elements') = Len(elements) - n
        /\ \A i \in 1 .. Len(elements) - n : elements'[i] = elements[n + i]
    BY <1>1, Remainder
  <2>2. ASSUME elements' # <<>>
        PROVE  elements # <<>> /\ elements'[Len(elements')] = elements[Len(elements)]
    <3>1. Len(elements') # 0
      BY <2>1, <2>2, EmptySeq
    <3>2. Len(elements) - n \in 1 .. Len(elements) - n /\ Len(elements) # 0
      BY <1>1, <2>1, <3>1
    <3>3. elements'[Len(elements) - n] = elements[n + (Len(elements) - n)]
      BY <2>1, <3>2
    <3>4. n + (Len(elements) - n) = Len(elements)
      BY <1>1
    <3>5. elements # <<>>
      BY <3>2, EmptySeq
    <3>6. elements'[Len(elements')] = elements'[Len(elements) - n]
      BY <2>1
    <3> QED
      BY <3>3, <3>4, <3>5, <3>6
  <2> QED
    BY <2>2
<1>3. elements # <<>> => last \in Nat
  <2>1. ASSUME elements # <<>> PROVE elements[Len(elements)] \in Items
    BY <1>1, <2>1, EmptySeq
  <2> QED
    BY <2>1, ItemFields
<1>4. elements # <<>> => used - last <= memory
  BY DEF WithinLimits
<1>5. elements' # <<>> => used' - elements'[Len(elements')].mem <= memory
  <2> HIDE DEF taken
  <2>1. elements # <<>> => (used - taken) - last <= memory
    BY <1>1, <1>3, <1>4
  <2> QED
    BY <1>2, <2>1 DEF taken
<1>6. size' <= capacity /\ (Operations \cap {"enqWait", "enqTimedWait"} = {} => used' <= memory)
  <2>1. size <= capacity /\ (Operations \cap {"enqWait", "enqTimedWait"} = {} => used <= memory)
    BY DEF WithinLimits
  <2> HIDE DEF taken
  <2>2. size - n <= capacity /\ (used <= memory => used - taken <= memory)
    BY <1>1, <2>1
  <2> QED
    BY <2>1, <2>2 DEF taken
<1> QED
  BY <1>5, <1>6 DEF WithinLimits, limits

\* An item may be stored when there is a place for it and the rest is within the memory
\* limit; where nobody blocks, when it fits itself.
LEMMA InsertionWithin ==
  ASSUME IInv, NEW n \in 0 .. Len(elements), NEW m \in Sizes, doInsert(n, m), UNCHANGED limits,
         size - n < capacity, used - MemoryOfFirst(elements, n) <= memory,
         Operations \cap {"enqWait", "enqTimedWait"} = {} =>
           (used - MemoryOfFirst(elements, n)) + m <= memory
  PROVE  WithinLimits'
<1> DEFINE kept == SubSeq(elements, n + 1, Len(elements))
           rest == used - MemoryOfFirst(elements, n)
           item == Item(inserted + 1, insertedMemory, m)
<1>1. /\ size \in Nat /\ n \in Nat /\ Len(elements) \in Nat /\ elements \in Seq(Items)
      /\ rest \in Nat /\ capacity \in Nat /\ memory \in Nat /\ m \in Nat
      /\ inserted \in Nat /\ insertedMemory \in Nat
  BY FirstMemory, BoundAssumption DEF IInv, RestOK, ContentsInv, Describes
<1>2. /\ elements' = Append(kept, item) /\ size' = (size - n) + 1 /\ used' = rest + m
  BY DEF doInsert
<1>3. elements'[Len(elements')].mem = m
  <2>1. kept \in Seq(Items)
    BY <1>1, Remainder
  <2>2. item \in Items /\ item.mem = m
    BY <1>1 DEF Item, Items
  <2> HIDE DEF kept, item
  <2>3. elements'[Len(elements')] = item
    BY <1>2, <2>1, <2>2, AppendProperties
  <2> QED
    BY <2>2, <2>3
<1>4. used' - m <= memory /\ (rest + m <= memory => used' <= memory) /\ size' <= capacity
  <2>1. rest <= memory /\ size - n < capacity
    OBVIOUS
  <2> HIDE DEF rest
  <2> QED
    BY <1>1, <1>2, <2>1
<1> QED
  BY <1>3, <1>4 DEF WithinLimits, limits

\* An empty queue is within every limit.
LEMMA EmptyWithin ==
  ASSUME IInv', size' = 0
  PROVE  WithinLimits'
<1>1. /\ elements' \in Seq(Items) /\ Len(elements') = 0 /\ capacity' \in Nat /\ memory' \in Nat
      /\ used' = MemoryOfFirst(elements', Len(elements'))
  BY BoundAssumption DEF IInv, RestOK, ContentsInv, Describes
<1>2. elements' = <<>> /\ used' = 0
  BY <1>1, EmptySeq DEF MemoryOfFirst
<1> QED
  BY <1>1, <1>2 DEF WithinLimits

\* Every enqueue observes the limits.
LEMMA doEnqWithin ==
  ASSUME IInv, WithinLimits, NEW p, NEW m \in Sizes, doEnq(p, m), UNCHANGED limits
  PROVE  WithinLimits'
<1>1. /\ 0 \in 0 .. Len(elements) /\ MemoryOfFirst(elements, 0) = 0
      /\ size \in Nat /\ used \in Nat /\ m \in Nat /\ capacity \in Nat /\ memory \in Nat
  <2>1. Len(elements) \in Nat
    BY DEF IInv, ContentsInv, Describes
  <2>2. 0 \in 0 .. Len(elements)
    BY <2>1
  <2> QED
    BY <2>2, FirstMemory, BoundAssumption DEF IInv, RestOK, MemoryOfFirst
<1>2. CASE UNCHANGED contents
  BY <1>2 DEF WithinLimits, contents, limits
<1>3. ASSUME NEW n \in 0 .. Len(elements), doInsert(n, m), Fits(n, m) PROVE WithinLimits'
  <2>1. used - MemoryOfFirst(elements, n) \in Nat /\ size - n < capacity
        /\ (used - MemoryOfFirst(elements, n)) + m <= memory
    BY <1>3, FirstMemory DEF Fits
  <2>2. used - MemoryOfFirst(elements, n) <= memory
    BY <1>1, <2>1
  <2>3. Operations \cap {"enqWait", "enqTimedWait"} = {} =>
          (used - MemoryOfFirst(elements, n)) + m <= memory
    BY <2>1
  <2> QED
    BY <1>3, <2>1, <2>2, <2>3, InsertionWithin, Zenon
<1>4. CASE doEnqFailIfFull(p, m) \/ doEnqRejectNewest(p, m)
  <2>1. \/ UNCHANGED contents
        \/ doInsert(0, m) /\ Fits(0, m)
        \/ doInsert(0, m) /\ ~(size >= capacity \/ used + m > memory)
    <3>1. CASE doEnqFailIfFull(p, m)
      BY <3>1, Zenon DEF doEnqFailIfFull, contents
    <3>2. CASE doEnqRejectNewest(p, m)
      BY <3>2, Zenon DEF doEnqRejectNewest, contents
    <3> QED
      BY <1>4, <3>1, <3>2
  <2>2. ~(size >= capacity \/ used + m > memory) => Fits(0, m)
    BY <1>1 DEF Fits
  <2> QED
    BY <1>1, <1>2, <1>3, <2>1, <2>2
<1>5. CASE doEnqKeepNewest(p, m)
  <2>1. PICK n \in 0 .. Len(elements) :
           \/ doInsert(n, m) /\ Fits(n, m)
           \/ /\ elements' = SubSeq(elements, n + 1, Len(elements)) /\ size' = size - n
              /\ used' = used - MemoryOfFirst(elements, n)
    BY <1>5 DEF doEnqKeepNewest
  <2> QED
    BY <1>3, <2>1, EvictionWithin
<1> QED
  BY <1>4, <1>5 DEF doEnq

\* So does what a blocking enqueue does when the queue is not full.
LEMMA StoreWithin ==
  ASSUME IInv, WithinLimits, NEW p, NEW m \in Sizes, UNCHANGED limits,
         Operations \cap {"enqWait", "enqTimedWait"} # {},
         UNCHANGED contents \/ (~isFull /\ Store(p, m))
  PROVE  WithinLimits'
<1>1. CASE UNCHANGED contents
  BY <1>1 DEF WithinLimits, contents, limits
<1>2. CASE ~isFull /\ Store(p, m)
  <2>1. Len(elements) \in Nat /\ capacity \in Nat /\ memory \in Nat
    BY BoundAssumption DEF IInv, RestOK, ContentsInv, Describes
  <2>2. 0 \in 0 .. Len(elements)
    BY <2>1
  <2>3. size \in Nat /\ used \in Nat /\ MemoryOfFirst(elements, 0) = 0
    BY <2>2, FirstMemory DEF MemoryOfFirst
  <2>4. size - 0 < capacity /\ used - MemoryOfFirst(elements, 0) <= memory
    BY <1>2, <2>1, <2>3 DEF isFull
  <2> QED
    BY <1>2, <2>2, <2>4, InsertionWithin DEF Store
<1> QED
  BY <1>1, <1>2

\* Where nobody calls a blocking enqueue, nobody is inside one.
NobodyBlocks ==
  /\ \A p \in Producers : op[p] = "enqWait" => "enqWait" \in Operations
  /\ \A p \in Producers : op[p] = "enqTimedWait" => "enqTimedWait" \in Operations

\* Every step keeps the limits.
LEMMA WithinStep ==
  ASSUME IInv, IInv', NobodyBlocks, WithinLimits, [Next]_vars
  PROVE  WithinLimits'
<1>1. ASSUME NEW p \in Producers, NEW m \in Sizes, enqNowait(p, m) PROVE WithinLimits'
  BY <1>1, doEnqWithin DEF enqNowait
<1>2. ASSUME NEW p \in Producers, NEW m \in Sizes, enqWait(p, m) \/ enqTimedWait(p, m)
      PROVE  WithinLimits'
  <2>1. /\ UNCHANGED limits /\ Operations \cap {"enqWait", "enqTimedWait"} # {}
        /\ UNCHANGED contents \/ (~isFull /\ Store(p, m))
    BY <1>2 DEF enqWait, enqTimedWait, Offer, WaitNotFull
  <2> QED
    BY <2>1, StoreWithin
<1>3. ASSUME NEW p \in Producers, enqWaitResume(p) \/ enqTimedWaitResume(p) PROVE WithinLimits'
  <2>1. pending[p] \in Sizes /\ Operations \cap {"enqWait", "enqTimedWait"} # {}
    BY <1>3 DEF IInv, RestOK, NobodyBlocks, enqWaitResume, enqTimedWaitResume
  <2>2. UNCHANGED limits /\ (UNCHANGED contents \/ (~isFull /\ Store(p, pending[p])))
    BY <1>3 DEF enqWaitResume, enqTimedWaitResume, WaitNotFull
  <2> QED
    BY <2>1, <2>2, StoreWithin
<1>4. ASSUME NEW c \in Consumers, Consume(c) PROVE WithinLimits'
  <2>1. UNCHANGED limits /\ (UNCHANGED contents \/ (size # 0 /\ removeHead))
    BY <1>4 DEF Consume, deqNowait, deqWait, deqWaitResume, deqTimedWait, deqTimedWaitResume,
                NothingRemoved, WaitNotEmpty
  <2>2. CASE UNCHANGED contents
    BY <2>1, <2>2 DEF WithinLimits, contents, limits
  <2>3. CASE size # 0 /\ removeHead
    <3>1. elements \in Seq(Items) /\ Len(elements) # 0
      BY <2>3 DEF IInv, ContentsInv, Describes
    <3>2. 1 \in 0 .. Len(elements) /\ 1 \in 1 .. Len(elements)
      BY <3>1
    <3>3. Tail(elements) = SubSeq(elements, 1 + 1, Len(elements)) /\ Head(elements) = elements[1]
      BY <3>1, TailIsSubSeq
    <3>4. elements[1].upTo \in Nat /\ elements[1].mem \in Nat
      BY <3>1, <3>2, ItemFields
    <3>5. MemoryOfFirst(elements, 1) = elements[1].mem
      BY <3>4 DEF MemoryOfFirst
    <3> QED
      BY <2>1, <2>3, <3>2, <3>3, <3>5, EvictionWithin DEF removeHead
  <2> QED
    BY <2>1, <2>2, <2>3
<1>5. CASE Reconfigure
  <2>1. UNCHANGED <<contents, limits>> \/ size' = 0
    BY <1>5 DEF Reconfigure, clear, setCapacity, setMemory, addExternallyDroppedEvents,
                contents, limits
  <2> QED
    BY <2>1, EmptyWithin DEF WithinLimits, contents, limits
<1>6. CASE UNCHANGED <<contents, limits>>
  BY <1>6 DEF WithinLimits, contents, limits
<1> QED
  BY <1>1, <1>2, <1>3, <1>4, <1>5, <1>6 DEF Next, Produce, WakeUnnotified, vars

\* A producer only gets into an operation that is called.
LEMMA BlocksStep ==
  ASSUME IInv, NobodyBlocks, [Next]_vars
  PROVE  NobodyBlocks'
<1>0. op \in [Threads -> BlockingOperations \cup {"none"}]
  BY DEF IInv, RestOK
<1>1. ASSUME NEW p \in Producers, Produce(p) PROVE NobodyBlocks'
  <2>1. \/ op' = op
        \/ op' = [op EXCEPT ![p] = "none"]
        \/ op' = [op EXCEPT ![p] = "enqWait"] /\ ("enqWait" \in Operations \/ op[p] = "enqWait")
        \/ op' = [op EXCEPT ![p] = "enqTimedWait"] /\ "enqTimedWait" \in Operations
    BY <1>1 DEF Produce, enqNowait, enqWait, enqTimedWait, enqWaitResume, enqTimedWaitResume,
                Offer, WaitNotFull, Return
  <2> QED
    BY <1>0, <2>1 DEF NobodyBlocks, Threads
<1>2. ASSUME NEW c \in Consumers, Consume(c) PROVE NobodyBlocks'
  <2>1. op' = op \/ \E o : op' = [op EXCEPT ![c] = o]
    BY <1>2 DEF Consume, deqNowait, deqWait, deqWaitResume, deqTimedWait, deqTimedWaitResume,
                WaitNotEmpty, Return
  <2> QED
    BY <1>0, <2>1, ThreadAssumption DEF NobodyBlocks, Threads
<1>3. CASE UNCHANGED op
  BY <1>3 DEF NobodyBlocks
<1> QED
  BY <1>1, <1>2, <1>3
  DEF Next, WakeUnnotified, Reconfigure, clear, setCapacity, setMemory,
      addExternallyDroppedEvents, waiting, vars

(***************************************************************************)
(* THE LIMITS.  A queue never holds more items than its capacity, nor more *)
(* memory than its limit but for the one item that a blocking enqueue puts *)
(* in without asking for its size (isFull, ConcurrentQueue.h:754).         *)
(***************************************************************************)
THEOREM LimitsObserved == Spec => []WithinLimits
<1>1. Init => NobodyBlocks /\ WithinLimits
  BY BoundAssumption DEF Init, NobodyBlocks, WithinLimits, Threads
<1>2. IInv /\ NobodyBlocks /\ [Next]_vars => NobodyBlocks'
  BY BlocksStep
<1>3. IInv /\ IInv' /\ NobodyBlocks /\ WithinLimits /\ [Next]_vars => WithinLimits'
  BY WithinStep
<1> QED
  BY <1>1, <1>2, <1>3, Invariant, PTL DEF Spec

(* The size, the memory and the limits of the list, together. *)
THEOREM InBounds == Spec => []ContentsStayInBounds
BY CountersCorrect, LimitsObserved, PTL DEF ContentsStayInBounds

-----------------------------------------------------------------------------
(* No producer is stranded.                                                *)

(* A queue that counts as full has something to remove. *)
LEMMA FullIsNonEmpty ==
  ASSUME IInv, NeverEmptiedUnnotified, isFull
  PROVE  elements # <<>>
<1>1. /\ capacity \in Nat \ {0} /\ memory \in Nat \ {0}
      /\ size = Len(elements) /\ used = MemoryOfFirst(elements, Len(elements))
  BY BoundAssumption DEF IInv, RestOK, ContentsInv, Describes, NeverEmptiedUnnotified
<1>2. SUFFICES ASSUME elements = <<>> PROVE FALSE
  OBVIOUS
<1>3. size = 0 /\ used = 0
  BY <1>1, <1>2 DEF MemoryOfFirst
<1> QED
  BY <1>1, <1>3 DEF isFull

(* What has just been stored is there to be removed. *)
LEMMA StoredIsNonEmpty ==
  ASSUME IInv, NEW n \in 0 .. Len(elements), NEW m \in Sizes, doInsert(n, m)
  PROVE  elements' # <<>>
<1>1. elements \in Seq(Items)
  BY DEF IInv, ContentsInv, Describes
<1>2. SubSeq(elements, n + 1, Len(elements)) \in Seq(Items)
  BY <1>1, Remainder
<1>3. Item(inserted + 1, insertedMemory, m) \in Items
  BY BoundAssumption DEF IInv, ContentsInv, Describes, Item, Items
<1> QED
  BY <1>2, <1>3, AppendProperties DEF doInsert

\* No step leaves a producer waiting for room that nobody will announce.
LEMMA StrandedStep ==
  ASSUME IInv, IInv', NeverEmptiedUnnotified, NoStrandedProducer, [Next]_vars
  PROVE  NoStrandedProducer'
<1>0. /\ RestOK /\ RestOK' /\ Len(elements) \in Nat
      /\ \A p \in Producers : p \notin notEmptyWaiters /\ p \notin notEmptyWaiters'
  <2>1. RestOK
    BY DEF IInv
  <2>2. RestOK'
    BY DEF IInv
  <2>3. Len(elements) \in Nat
    BY DEF IInv, ContentsInv, Describes
  <2>4. notEmptyWaiters \subseteq Consumers
    BY <2>1 DEF RestOK
  <2>5. notEmptyWaiters' \subseteq Consumers
    BY <2>2 DEF RestOK
  <2> QED
    BY <2>1, <2>2, <2>3, <2>4, <2>5, ThreadAssumption
<1>1. ASSUME NEW p \in Producers, NEW m \in Sizes, enqNowait(p, m) PROVE NoStrandedProducer'
  <2>1. doEnqFailIfFull(p, m) /\ UNCHANGED <<notFullWaiters, op>>
    BY <1>1 DEF enqNowait, Offer, doEnq, NeverEmptiedUnnotified
  <2>2. CASE doInsert(0, m)
    BY <1>0, <2>2, StoredIsNonEmpty DEF NoStrandedProducer
  <2>3. CASE UNCHANGED <<contents, notEmptyWaiters>>
    BY <2>1, <2>3 DEF contents, NoStrandedProducer, Woken
  <2> QED
    BY <2>1, <2>2, <2>3 DEF doEnqFailIfFull
<1>2. ASSUME NEW p \in Producers, NEW m \in Sizes, enqWait(p, m) \/ enqTimedWait(p, m)
      PROVE  NoStrandedProducer'
  <2>1. CASE isFull /\ UNCHANGED contents
    BY <2>1, FullIsNonEmpty DEF contents, NoStrandedProducer
  <2>2. CASE doInsert(0, m)
    BY <1>0, <2>2, StoredIsNonEmpty DEF NoStrandedProducer
  <2> QED
    BY <1>2, <2>1, <2>2 DEF enqWait, enqTimedWait, WaitNotFull, Store
<1>3. ASSUME NEW p \in Producers, enqWaitResume(p) \/ enqTimedWaitResume(p)
      PROVE  NoStrandedProducer'
  <2>1. pending[p] \in Sizes
    BY <1>0, <1>3 DEF RestOK, enqWaitResume, enqTimedWaitResume
  <2>2. CASE isFull /\ UNCHANGED contents
    BY <2>2, FullIsNonEmpty DEF contents, NoStrandedProducer
  <2>3. CASE doInsert(0, pending[p])
    BY <1>0, <2>1, <2>3, StoredIsNonEmpty DEF NoStrandedProducer
  <2> QED
    BY <1>3, <2>2, <2>3 DEF enqWaitResume, enqTimedWaitResume, WaitNotFull, Store
<1>4. ASSUME NEW c \in Consumers, Consume(c) PROVE NoStrandedProducer'
  <2>1. \A p \in Producers : op'[p] = op[p]
    <3>1. op' = op \/ \E o : op' = [op EXCEPT ![c] = o]
      BY <1>4 DEF Consume, deqNowait, deqWait, deqWaitResume, deqTimedWait, deqTimedWaitResume,
                  WaitNotEmpty, Return
    <3> QED
      BY <1>0, <3>1, ThreadAssumption DEF RestOK, Threads
  <2>2. \/ NotifyNotFull
        \/ UNCHANGED <<elements, notFullWaiters>>
    BY <1>4 DEF Consume, deqNowait, deqWait, deqWaitResume, deqTimedWait, deqTimedWaitResume,
                WaitNotEmpty, NothingRemoved, removeHead, contents
  <2>3. CASE UNCHANGED <<elements, notFullWaiters>>
    BY <1>0, <2>1, <2>3 DEF NoStrandedProducer, Woken
  <2>4. CASE NotifyNotFull
    <3>1. CASE notFullWaiters = {}
      BY <2>4, <3>1 DEF NotifyNotFull, NoStrandedProducer
    <3>2. CASE notFullWaiters # {}
      <4>1. PICK p \in notFullWaiters : notFullWaiters' = notFullWaiters \ {p}
        BY <2>4, <3>2 DEF NotifyNotFull
      <4>2. p \in Producers /\ op[p] # "none"
        BY <1>0 DEF RestOK
      <4>3. p \in Woken(Producers)'
        BY <1>0, <2>1, <4>1, <4>2 DEF Woken
      <4> QED
        BY <4>3 DEF NoStrandedProducer
    <3> QED
      BY <3>1, <3>2
  <2> QED
    BY <2>2, <2>3, <2>4
<1>5. ASSUME NEW t \in Threads, WakeUnnotified(t) PROVE NoStrandedProducer'
  <2>1. /\ op' = op /\ elements' = elements
        /\ notFullWaiters' = notFullWaiters \ {t}
        /\ t \in notFullWaiters \/ t \in notEmptyWaiters
    BY <1>5 DEF WakeUnnotified, contents
  <2>2. CASE t \in notFullWaiters
    <3>1. t \in Producers /\ op[t] # "none"
      BY <1>0, <2>2 DEF RestOK
    <3>2. t \in Woken(Producers)'
      BY <1>0, <2>1, <3>1 DEF Woken
    <3> QED
      BY <3>2 DEF NoStrandedProducer
  <2>3. CASE t \notin notFullWaiters
    <3>1. notFullWaiters' = notFullWaiters
      BY <2>1, <2>3
    <3> QED
      BY <1>0, <2>1, <3>1 DEF NoStrandedProducer, Woken
  <2> QED
    BY <2>2, <2>3
<1>6. CASE Reconfigure
  <2>1. UNCHANGED <<elements, notFullWaiters, notEmptyWaiters, op>>
    BY <1>6 DEF Reconfigure, clear, Control, setCapacity, setMemory, addExternallyDroppedEvents,
                NeverEmptiedUnnotified, contents, waiting
  <2> QED
    BY <2>1 DEF NoStrandedProducer, Woken
<1>7. CASE UNCHANGED vars
  BY <1>7 DEF vars, contents, waiting, NoStrandedProducer, Woken
<1> QED
  BY <1>1, <1>2, <1>3, <1>4, <1>5, <1>6, <1>7 DEF Next, Produce

(***************************************************************************)
(* NO LOST WAKE-UP.  In a queue that is only emptied by its consumers, a   *)
(* producer never waits for a removal that cannot come.                    *)
(***************************************************************************)
THEOREM NoProducerStranded ==
  ASSUME NeverEmptiedUnnotified
  PROVE  Spec => []NoStrandedProducer
<1>1. Init => NoStrandedProducer
  BY DEF Init, NoStrandedProducer
<1>2. IInv /\ IInv' /\ NoStrandedProducer /\ [Next]_vars => NoStrandedProducer'
  BY StrandedStep
<1> QED
  BY <1>1, <1>2, Invariant, PTL DEF Spec

-----------------------------------------------------------------------------
(* Enough consumers are awake.                                             *)

\* The consumers on their way to the mutex are a finite set.
LEMMA WokenFinite ==
  /\ IsFiniteSet(Woken(Consumers)) /\ Cardinality(Woken(Consumers)) \in Nat
<1>1. Woken(Consumers) \subseteq Consumers
  BY DEF Woken
<1>2. IsFiniteSet(Woken(Consumers))
  BY <1>1, ThreadAssumption, FS_Subset
<1> QED
  BY <1>2, FS_CardinalityType

\* The same after a step.
LEMMA WokenFiniteAfter ==
  /\ IsFiniteSet(Woken(Consumers)') /\ Cardinality(Woken(Consumers)') \in Nat
<1>1. Woken(Consumers)' \subseteq Consumers
  BY DEF Woken
<1>2. IsFiniteSet(Woken(Consumers)')
  BY <1>1, ThreadAssumption, FS_Subset
<1> QED
  BY <1>2, FS_CardinalityType

\* A step that makes no item available and puts no consumer to sleep.
LEMMA AwakeKept ==
  ASSUME IInv, IInv', EnoughConsumersAwake, size' <= size,
         notEmptyWaiters' \subseteq notEmptyWaiters,
         Woken(Consumers) \subseteq Woken(Consumers)'
  PROVE  EnoughConsumersAwake'
<1>1. size \in Nat /\ size' \in Nat
  BY CountersAreNatural DEF IInv, ContentsInv, Describes
<1>2. Cardinality(Woken(Consumers)) <= Cardinality(Woken(Consumers)')
  BY WokenFiniteAfter, FS_Subset
<1>3. SUFFICES ASSUME notEmptyWaiters' # {} PROVE Cardinality(Woken(Consumers)') >= size'
  BY DEF EnoughConsumersAwake, Woken
<1>4. Cardinality(Woken(Consumers)) >= size
  BY <1>3 DEF EnoughConsumersAwake
<1> QED
  BY <1>1, <1>2, <1>4, WokenFinite, WokenFiniteAfter

\* A step that makes one item available and wakes one consumer, if one sleeps.
LEMMA AwakeNotified ==
  ASSUME IInv, IInv', EnoughConsumersAwake, size' <= size + 1, NotifyNotEmpty,
         \A c \in Consumers : op'[c] = op[c], notFullWaiters' \cap Consumers = {}
  PROVE  EnoughConsumersAwake'
<1>1. size \in Nat /\ size' \in Nat
  BY CountersAreNatural DEF IInv, ContentsInv, Describes
<1>2. CASE notEmptyWaiters = {}
  BY <1>2 DEF NotifyNotEmpty, EnoughConsumersAwake
<1>3. CASE notEmptyWaiters # {}
  <2>1. PICK c \in notEmptyWaiters : notEmptyWaiters' = notEmptyWaiters \ {c}
    BY <1>3 DEF NotifyNotEmpty
  <2>2. c \in Consumers /\ op[c] # "none" /\ notFullWaiters \cap Consumers = {}
    BY ThreadAssumption DEF IInv, RestOK
  <2>3. Woken(Consumers)' = Woken(Consumers) \cup {c} /\ c \notin Woken(Consumers)
    BY <2>1, <2>2 DEF Woken
  <2>4. Cardinality(Woken(Consumers)') = Cardinality(Woken(Consumers)) + 1
    BY <2>3, WokenFinite, FS_AddElement
  <2>5. Cardinality(Woken(Consumers)) >= size
    BY <1>3 DEF EnoughConsumersAwake
  <2>6. Cardinality(Woken(Consumers)') >= size'
    BY <1>1, <2>4, <2>5, WokenFinite
  <2> QED
    BY <2>6 DEF EnoughConsumersAwake, Woken
<1> QED
  BY <1>2, <1>3

\* Every step leaves enough consumers awake.
LEMMA AwakeStep ==
  ASSUME IInv, IInv', EnoughConsumersAwake, [Next]_vars
  PROVE  EnoughConsumersAwake'
<1>0. /\ RestOK /\ RestOK' /\ size \in Nat /\ size' \in Nat /\ Len(elements) \in Nat
      /\ notFullWaiters \cap Consumers = {} /\ notFullWaiters' \cap Consumers = {}
  <2>1. RestOK /\ RestOK' /\ size \in Nat /\ size' \in Nat /\ Len(elements) \in Nat
    BY CountersAreNatural DEF IInv, ContentsInv, Describes
  <2> QED
    BY <2>1, ThreadAssumption DEF RestOK
<1>1. ASSUME NEW p \in Producers, Produce(p) PROVE EnoughConsumersAwake'
  <2>1. \A c \in Consumers : op'[c] = op[c]
    <3>1. op' = op \/ \E o : op' = [op EXCEPT ![p] = o]
      BY <1>1 DEF Produce, enqNowait, enqWait, enqTimedWait, enqWaitResume, enqTimedWaitResume,
                  WaitNotFull, Return
    <3> QED
      BY <1>0, <3>1, ThreadAssumption DEF RestOK, Threads
  <2>2. \/ \E n \in 0 .. Len(elements) : \E m : doInsert(n, m)
        \/ \E n \in 0 .. Len(elements) : size' = size - n /\ UNCHANGED notEmptyWaiters
    <3>1. 0 \in 0 .. Len(elements)
      BY <1>0
    <3>2. ASSUME NEW m \in Sizes, enqNowait(p, m)
          PROVE  \/ \E n \in 0 .. Len(elements) : doInsert(n, m)
                 \/ \E n \in 0 .. Len(elements) : size' = size - n /\ UNCHANGED notEmptyWaiters
      <4>1. CASE doEnqFailIfFull(p, m) \/ doEnqRejectNewest(p, m)
        <5>1. doInsert(0, m) \/ UNCHANGED <<contents, notEmptyWaiters>>
          BY <4>1 DEF doEnqFailIfFull, doEnqRejectNewest
        <5>2. CASE UNCHANGED <<contents, notEmptyWaiters>>
          <6>1. size' = size - 0 /\ UNCHANGED notEmptyWaiters
            BY <1>0, <5>2 DEF contents
          <6> QED
            BY <3>1, <6>1
        <5> QED
          BY <3>1, <5>1, <5>2
      <4>2. CASE doEnqKeepNewest(p, m)
        BY <4>2 DEF doEnqKeepNewest
      <4> QED
        BY <3>2, <4>1, <4>2 DEF enqNowait, doEnq
    <3>3. ASSUME ~\E m \in Sizes : enqNowait(p, m)
          PROVE  (\E m : doInsert(0, m)) \/ UNCHANGED <<contents, notEmptyWaiters>>
      BY <1>1, <3>3 DEF Produce, enqWait, enqTimedWait, enqWaitResume, enqTimedWaitResume,
                        Store, WaitNotFull
    <3>4. UNCHANGED <<contents, notEmptyWaiters>> => size' = size - 0 /\ UNCHANGED notEmptyWaiters
      BY <1>0 DEF contents
    <3> QED
      BY <3>1, <3>2, <3>3, <3>4
  <2>3. ASSUME NEW n \in 0 .. Len(elements), NEW m, doInsert(n, m) PROVE EnoughConsumersAwake'
    <3>1. size' <= size + 1 /\ NotifyNotEmpty
      BY <1>0, <2>3 DEF doInsert
    <3> QED
      BY <1>0, <2>1, <3>1, AwakeNotified
  <2>4. ASSUME NEW n \in 0 .. Len(elements), size' = size - n, UNCHANGED notEmptyWaiters
        PROVE  EnoughConsumersAwake'
    <3>1. size' <= size
      BY <1>0, <2>4
    <3>2. Woken(Consumers) \subseteq Woken(Consumers)'
      BY <1>0, <2>1, <2>4 DEF Woken
    <3> QED
      BY <2>4, <3>1, <3>2, AwakeKept
  <2> QED
    BY <2>2, <2>3, <2>4
<1>2. ASSUME NEW c \in Consumers, Consume(c) PROVE EnoughConsumersAwake'
  <2>1. \/ size = 0 /\ UNCHANGED contents
        \/ /\ size # 0 /\ removeHead /\ UNCHANGED notEmptyWaiters
           /\ UNCHANGED op \/ (c \notin notEmptyWaiters /\ op' = [op EXCEPT ![c] = "none"])
    BY <1>2 DEF Consume, deqNowait, deqWait, deqWaitResume, deqTimedWait, deqTimedWaitResume,
                NothingRemoved, WaitNotEmpty, Return
  <2>2. CASE size = 0 /\ UNCHANGED contents
    <3>1. size' = 0
      BY <2>2 DEF contents
    <3>2. Cardinality(Woken(Consumers)') >= size'
      BY <3>1, WokenFiniteAfter
    <3> QED
      BY <3>2 DEF EnoughConsumersAwake, Woken
  <2>3. CASE /\ size # 0 /\ removeHead /\ UNCHANGED notEmptyWaiters
             /\ UNCHANGED op \/ (c \notin notEmptyWaiters /\ op' = [op EXCEPT ![c] = "none"])
    <3>1. size' = size - 1
      BY <2>3 DEF removeHead
    <3>2. Woken(Consumers) \ {c} \subseteq Woken(Consumers)'
      BY <1>0, <2>3 DEF Woken, RestOK, Threads
    <3>3. Cardinality(Woken(Consumers) \ {c}) >= Cardinality(Woken(Consumers)) - 1
      <4>1. Cardinality(Woken(Consumers) \ {c}) =
              IF c \in Woken(Consumers) THEN Cardinality(Woken(Consumers)) - 1
              ELSE Cardinality(Woken(Consumers))
        BY WokenFinite, FS_RemoveElement
      <4> QED
        BY <4>1, WokenFinite
    <3>4. Cardinality(Woken(Consumers) \ {c}) <= Cardinality(Woken(Consumers)')
      BY <3>2, WokenFiniteAfter, FS_Subset
    <3>5. Cardinality(Woken(Consumers) \ {c}) \in Nat
      <4>1. IsFiniteSet(Woken(Consumers) \ {c})
        BY WokenFinite, FS_Subset
      <4> QED
        BY <4>1, FS_CardinalityType
    <3>6. notEmptyWaiters # {} => Cardinality(Woken(Consumers)) >= size
      BY DEF EnoughConsumersAwake
    <3>7. notEmptyWaiters' # {} => Cardinality(Woken(Consumers)') >= size'
      BY <1>0, <2>3, <3>1, <3>3, <3>4, <3>5, <3>6, WokenFinite, WokenFiniteAfter
    <3> QED
      BY <3>7 DEF EnoughConsumersAwake, Woken
  <2> QED
    BY <2>1, <2>2, <2>3
<1>3. ASSUME NEW t \in Threads, WakeUnnotified(t) PROVE EnoughConsumersAwake'
  <2>1. /\ size' <= size /\ notEmptyWaiters' \subseteq notEmptyWaiters
        /\ Woken(Consumers) \subseteq Woken(Consumers)'
    BY <1>0, <1>3 DEF WakeUnnotified, contents, Woken
  <2> QED
    BY <2>1, AwakeKept
<1>4. CASE Reconfigure \/ UNCHANGED vars
  <2>1. /\ size' <= size /\ notEmptyWaiters' \subseteq notEmptyWaiters
        /\ Woken(Consumers) \subseteq Woken(Consumers)'
    BY <1>0, <1>4
    DEF Reconfigure, clear, setCapacity, setMemory, addExternallyDroppedEvents, waiting, contents,
        vars, Woken
  <2> QED
    BY <2>1, AwakeKept
<1> QED
  BY <1>1, <1>2, <1>3, <1>4 DEF Next

(***************************************************************************)
(* NO CONSUMER OVERSLEEPS.  While consumers wait for an item there are as  *)
(* many woken ones on their way as there are items, whatever producers,    *)
(* timeouts, clears and spurious wake-ups do in between (notify_one in     *)
(* doInsert, ConcurrentQueue.h).                                           *)
(***************************************************************************)
THEOREM ConsumersAwake == Spec => []EnoughConsumersAwake
<1>1. Init => EnoughConsumersAwake
  BY DEF Init, EnoughConsumersAwake
<1>2. IInv /\ IInv' /\ EnoughConsumersAwake /\ [Next]_vars => EnoughConsumersAwake'
  BY AwakeStep
<1> QED
  BY <1>1, <1>2, Invariant, PTL DEF Spec

-----------------------------------------------------------------------------
(* The queue implements LossyFifo.                                         *)

(* The numbers of the items of a queue. *)
Numbers(s) == [i \in 1 .. Len(s) |-> s[i].seq]

\* The numbers of the items of a queue are as many as the items.
LEMMA NumbersOf ==
  ASSUME NEW s \in Seq(Items)
  PROVE  /\ Numbers(s) \in Seq(Nat)
         /\ Len(Numbers(s)) = Len(s)
         /\ \A i \in 1 .. Len(s) : Numbers(s)[i] = s[i].seq
<1>1. \A i \in 1 .. Len(s) : s[i].seq \in Nat
  BY ItemFields
<1> QED
  BY <1>1 DEF Numbers

\* Dropping the oldest items drops the oldest numbers.
LEMMA NumbersOfRest ==
  ASSUME NEW s \in Seq(Items), NEW n \in 0 .. Len(s)
  PROVE  Numbers(SubSeq(s, n + 1, Len(s))) = SubSeq(Numbers(s), n + 1, Len(Numbers(s)))
<1> DEFINE t == SubSeq(s, n + 1, Len(s))
           N == Numbers(s)
           u == SubSeq(N, n + 1, Len(N))
<1>1. t \in Seq(Items) /\ Len(t) = Len(s) - n /\ \A i \in 1 .. Len(s) - n : t[i] = s[n + i]
  BY Remainder
<1>2. N \in Seq(Nat) /\ Len(N) = Len(s) /\ \A i \in 1 .. Len(s) : N[i] = s[i].seq
  BY NumbersOf
<1>3. u \in Seq(Nat) /\ Len(u) = Len(s) - n /\ \A i \in 1 .. Len(s) - n : u[i] = N[n + i]
  <2> HIDE DEF N
  <2>1. n \in 0 .. Len(N)
    BY <1>2
  <2> QED
    BY <1>2, <2>1, Remainder
<1>4. Numbers(t) \in Seq(Nat) /\ Len(Numbers(t)) = Len(t)
      /\ \A i \in 1 .. Len(t) : Numbers(t)[i] = t[i].seq
  BY <1>1, NumbersOf
<1> HIDE DEF t, u, N
<1>5. ASSUME NEW i \in 1 .. Len(s) - n PROVE Numbers(t)[i] = u[i]
  <2>1. n + i \in 1 .. Len(s)
    OBVIOUS
  <2> QED
    BY <2>1, <1>1, <1>2, <1>3, <1>4
<1>6. Numbers(t) = u
  BY <1>1, <1>3, <1>4, <1>5, SeqEqual
<1> QED
  BY <1>6 DEF t, u, N

\* Enqueueing an item appends its number.
LEMMA NumbersOfAppend ==
  ASSUME NEW s \in Seq(Items), NEW x \in Items
  PROVE  Numbers(Append(s, x)) = Append(Numbers(s), x.seq)
<1> DEFINE t == Append(s, x)
           u == Append(Numbers(s), x.seq)
<1>1. t \in Seq(Items) /\ Len(t) = Len(s) + 1 /\ t[Len(s) + 1] = x
      /\ \A i \in 1 .. Len(s) : t[i] = s[i]
  BY AppendProperties
<1>2. Numbers(s) \in Seq(Nat) /\ Len(Numbers(s)) = Len(s) /\ x.seq \in Nat
      /\ \A i \in 1 .. Len(s) : Numbers(s)[i] = s[i].seq
  BY NumbersOf, ItemFields
<1>3. u \in Seq(Nat) /\ Len(u) = Len(s) + 1 /\ u[Len(s) + 1] = x.seq
      /\ \A i \in 1 .. Len(s) : u[i] = Numbers(s)[i]
  BY <1>2, AppendProperties
<1>4. Numbers(t) \in Seq(Nat) /\ Len(Numbers(t)) = Len(t)
      /\ \A i \in 1 .. Len(t) : Numbers(t)[i] = t[i].seq
  BY <1>1, NumbersOf
<1> HIDE DEF t, u
<1>5. ASSUME NEW i \in 1 .. Len(s) + 1 PROVE Numbers(t)[i] = u[i]
  <2>1. CASE i \in 1 .. Len(s)
    BY <2>1, <1>1, <1>2, <1>3, <1>4
  <2>2. CASE i = Len(s) + 1
    BY <2>2, <1>1, <1>3, <1>4
  <2> QED
    BY <2>1, <2>2
<1>6. Numbers(t) = u
  BY <1>1, <1>3, <1>4, <1>5, SeqEqual
<1> QED
  BY <1>6 DEF t, u

\* An insertion that drops the oldest is an Accept.
LEMMA AcceptStep ==
  ASSUME IInv, NEW n \in 0 .. Len(elements), NEW m \in Sizes, doInsert(n, m),
         elementsDropped' = elementsDropped + n, UNCHANGED <<reported, lastDelivered>>
  PROVE  Fifo!Accept(n)
<1> DEFINE x == Item(inserted + 1, insertedMemory, m)
           t == SubSeq(elements, n + 1, Len(elements))
<1>1. elements \in Seq(Items) /\ x \in Items /\ x.seq = inserted + 1
  BY BoundAssumption DEF IInv, ContentsInv, Describes, Item, Items
<1>2. t \in Seq(Items)
  BY <1>1, Remainder
<1>3. Numbers(t) = SubSeq(Numbers(elements), n + 1, Len(Numbers(elements)))
  BY <1>1, NumbersOfRest
<1>4. elements' = Append(t, x) /\ inserted' = inserted + 1
  BY DEF doInsert
<1> HIDE DEF x, t
<1>5. Numbers(Append(t, x)) = Append(Numbers(t), x.seq)
  BY <1>1, <1>2, NumbersOfAppend
<1>6. Numbers(elements') = Append(SubSeq(Numbers(elements), n + 1, Len(Numbers(elements))),
                                  inserted + 1)
  BY <1>1, <1>3, <1>4, <1>5
<1> QED
  BY <1>4, <1>6 DEF Fifo!Accept, Fifo!WithoutOldest, Numbers

\* Dropping without an insertion is a Lose.
LEMMA LoseStep ==
  ASSUME IInv, NEW n \in 0 .. Len(elements), NEW k \in Nat,
         elements' = SubSeq(elements, n + 1, Len(elements)),
         elementsDropped' = (elementsDropped + n) + k,
         UNCHANGED <<inserted, reported, lastDelivered>>
  PROVE  Fifo!Lose(n, k)
<1>1. elements \in Seq(Items)
  BY DEF IInv, ContentsInv, Describes
<1>2. Numbers(elements') = SubSeq(Numbers(elements), n + 1, Len(Numbers(elements)))
  BY <1>1, NumbersOfRest
<1> QED
  BY <1>2 DEF Fifo!Lose, Fifo!WithoutOldest, Numbers

\* A removal is a Deliver.
LEMMA DeliverStep ==
  ASSUME IInv, size # 0, removeHead, UNCHANGED inserted
  PROVE  Fifo!Deliver
<1>1. elements \in Seq(Items) /\ Len(elements) \in Nat \ {0}
  BY DEF IInv, ContentsInv, Describes
<1>2. /\ Numbers(elements) \in Seq(Nat) /\ Len(Numbers(elements)) = Len(elements)
      /\ Numbers(elements)[1] = elements[1].seq
  BY <1>1, NumbersOf
<1>3. 1 \in 0 .. Len(elements)
  BY <1>1
<1>4. Numbers(SubSeq(elements, 1 + 1, Len(elements)))
        = SubSeq(Numbers(elements), 1 + 1, Len(Numbers(elements)))
  BY <1>1, <1>3, NumbersOfRest
<1>5. /\ Tail(elements) = SubSeq(elements, 1 + 1, Len(elements))
      /\ Head(elements) = elements[1]
  BY <1>1, TailIsSubSeq
<1>6. /\ Tail(Numbers(elements)) = SubSeq(Numbers(elements), 1 + 1, Len(Numbers(elements)))
      /\ Head(Numbers(elements)) = Numbers(elements)[1]
      /\ Numbers(elements) # <<>>
  BY <1>1, <1>2, TailIsSubSeq
<1>7. elements' = Tail(elements) /\ lastDelivered' = Head(elements).seq
  BY DEF removeHead
<1>8. Numbers(elements') = Tail(Numbers(elements))
  BY <1>4, <1>5, <1>6, <1>7
<1>9. lastDelivered' = Head(Numbers(elements))
  BY <1>2, <1>5, <1>6, <1>7
<1>10. IF Policy # "FailIfFull"
       THEN elementsDropped' = 0 /\ reported' = reported + elementsDropped
       ELSE UNCHANGED <<elementsDropped, reported>>
  BY DEF removeHead
<1> QED
  BY <1>6, <1>8, <1>9, <1>10 DEF Fifo!Deliver, Numbers

\* A step that touches none of these is a stutter of the abstract queue.
LEMMA StutterStep ==
  ASSUME UNCHANGED <<elements, inserted, elementsDropped, reported, lastDelivered>>
  PROVE  UNCHANGED Fifo!vars
BY DEF Fifo!vars

\* The abstract steps are those of its next-state relation.
LEMMA StepsOfFifo ==
  ASSUME IInv, NEW n \in 0 .. Len(elements)
  PROVE  /\ Fifo!Accept(n) => Fifo!Next
         /\ Fifo!Lose(n, 0) => Fifo!Next
         /\ Fifo!Lose(n, 1) => Fifo!Next
         /\ Fifo!Deliver => Fifo!Next
<1>1. elements \in Seq(Items)
  BY DEF IInv, ContentsInv, Describes
<1>2. Len(Numbers(elements)) = Len(elements)
  BY <1>1, NumbersOf
<1> QED
  BY <1>2 DEF Fifo!Next, Numbers

\* An enqueue, whatever its policy, is a step of the abstract queue.
LEMMA doEnqRefines ==
  ASSUME IInv, NEW p, NEW m \in Sizes, doEnq(p, m), UNCHANGED <<reported, lastDelivered>>
  PROVE  Fifo!Next
<1>0. /\ elements \in Seq(Items) /\ Len(elements) \in Nat /\ elementsDropped \in Nat
      /\ 0 \in 0 .. Len(elements)
  BY DEF IInv, ContentsInv, Describes, RestOK
<1>1. SubSeq(elements, 0 + 1, Len(elements)) = elements
  BY <1>0
<1>2. CASE doEnqFailIfFull(p, m) \/ doEnqRejectNewest(p, m)
  <2>1. CASE doInsert(0, m) /\ UNCHANGED elementsDropped
    <3>1. elementsDropped' = elementsDropped + 0
      BY <1>0, <2>1
    <3> QED
      BY <1>0, <2>1, <3>1, AcceptStep, StepsOfFifo
  <2>2. CASE Drop(1) /\ UNCHANGED <<contents, inserted, insertedMemory, notEmptyWaiters>>
    <3>1. /\ elements' = SubSeq(elements, 0 + 1, Len(elements))
          /\ elementsDropped' = (elementsDropped + 0) + 1 /\ inserted' = inserted
      BY <1>0, <1>1, <2>2 DEF Drop, contents
    <3> QED
      BY <1>0, <3>1, LoseStep, StepsOfFifo
  <2> QED
    BY <1>2, <2>1, <2>2 DEF doEnqFailIfFull, doEnqRejectNewest
<1>3. CASE doEnqKeepNewest(p, m)
  <2>1. PICK n \in 0 .. Len(elements) :
          \/ doInsert(n, m) /\ Drop(n)
          \/ /\ elements' = SubSeq(elements, n + 1, Len(elements))
             /\ Drop(n + 1)
             /\ UNCHANGED inserted
    BY <1>3 DEF doEnqKeepNewest
  <2>2. CASE doInsert(n, m) /\ Drop(n)
    BY <2>2, AcceptStep, StepsOfFifo DEF Drop
  <2>3. CASE elements' = SubSeq(elements, n + 1, Len(elements)) /\ Drop(n + 1) /\ UNCHANGED inserted
    <3>1. elementsDropped' = (elementsDropped + n) + 1
      BY <1>0, <2>3 DEF Drop
    <3> QED
      BY <2>3, <3>1, LoseStep, StepsOfFifo
  <2> QED
    BY <2>1, <2>2, <2>3
<1> QED
  BY <1>2, <1>3 DEF doEnq

\* Every step is one of the abstract queue, or a stutter.
LEMMA RefinementStep ==
  ASSUME IInv, [Next]_vars
  PROVE  Fifo!Next \/ UNCHANGED Fifo!vars
<1>0. /\ elements \in Seq(Items) /\ Len(elements) \in Nat /\ elementsDropped \in Nat
      /\ 0 \in 0 .. Len(elements) /\ size = Len(elements)
  BY DEF IInv, ContentsInv, Describes, RestOK
<1>0a. SubSeq(elements, 0 + 1, Len(elements)) = elements
  BY <1>0
<1>1. ASSUME NEW p \in Producers, NEW m \in Sizes, enqNowait(p, m)
      PROVE  Fifo!Next
  BY <1>1, doEnqRefines DEF enqNowait
<1>2. ASSUME NEW m \in Sizes, doInsert(0, m),
             UNCHANGED <<elementsDropped, reported, lastDelivered>>
      PROVE  Fifo!Next
  <2>1. elementsDropped' = elementsDropped + 0
    BY <1>0, <1>2
  <2> QED
    BY <1>0, <1>2, <2>1, AcceptStep, StepsOfFifo
<1>3. ASSUME NEW p \in Producers, NEW m \in Sizes, enqWait(p, m) \/ enqTimedWait(p, m)
      PROVE  Fifo!Next \/ UNCHANGED Fifo!vars
  <2>1. UNCHANGED <<reported, lastDelivered>>
    BY <1>3 DEF enqWait, enqTimedWait
  <2>2. \/ doInsert(0, m) /\ UNCHANGED elementsDropped
        \/ UNCHANGED <<elements, inserted, elementsDropped>>
    BY <1>3 DEF enqWait, enqTimedWait, WaitNotFull, Store, contents
  <2> QED
    BY <1>2, <2>1, <2>2, StutterStep
<1>4. ASSUME NEW p \in Producers, enqWaitResume(p) \/ enqTimedWaitResume(p)
      PROVE  Fifo!Next \/ UNCHANGED Fifo!vars
  <2>1. pending[p] \in Sizes /\ UNCHANGED <<reported, lastDelivered>>
    BY <1>4 DEF IInv, RestOK, enqWaitResume, enqTimedWaitResume
  <2>2. \/ doInsert(0, pending[p]) /\ UNCHANGED elementsDropped
        \/ UNCHANGED <<elements, inserted, elementsDropped>>
        \/ UNCHANGED <<elements, inserted>> /\ Drop(1)
    BY <1>4 DEF enqWaitResume, enqTimedWaitResume, WaitNotFull, Store, contents
  <2>3. CASE UNCHANGED <<elements, inserted>> /\ Drop(1)
    <3>1. /\ elements' = SubSeq(elements, 0 + 1, Len(elements))
          /\ elementsDropped' = (elementsDropped + 0) + 1
      BY <1>0, <1>0a, <2>3 DEF Drop
    <3> QED
      BY <1>0, <2>1, <2>3, <3>1, LoseStep, StepsOfFifo
  <2> QED
    BY <1>2, <2>1, <2>2, <2>3, StutterStep
<1>5. ASSUME NEW c \in Consumers, Consume(c) PROVE Fifo!Next \/ UNCHANGED Fifo!vars
  <2>1. inserted' = inserted
    BY <1>5 DEF Consume, deqNowait, deqWait, deqWaitResume, deqTimedWait, deqTimedWaitResume
  <2>2. \/ size # 0 /\ removeHead
        \/ UNCHANGED <<elements, elementsDropped, reported, lastDelivered>>
    BY <1>5 DEF Consume, deqNowait, deqWait, deqWaitResume, deqTimedWait, deqTimedWaitResume,
                WaitNotEmpty, NothingRemoved, contents
  <2> QED
    BY <1>0, <2>1, <2>2, DeliverStep, StepsOfFifo, StutterStep
<1>6. ASSUME NEW t \in Threads, WakeUnnotified(t) PROVE UNCHANGED Fifo!vars
  BY <1>6, StutterStep DEF WakeUnnotified, contents, history
<1>7. CASE Reconfigure
  <2>1. UNCHANGED <<inserted, reported, lastDelivered>>
    BY <1>7 DEF Reconfigure, clear, setCapacity, setMemory, addExternallyDroppedEvents
  <2>2. \/ elements' = <<>> /\ Drop(size)
        \/ UNCHANGED <<elements, elementsDropped>>
        \/ UNCHANGED elements /\ Drop(1)
    BY <1>7 DEF Reconfigure, clear, setCapacity, setMemory, addExternallyDroppedEvents, contents
  <2>3. CASE elements' = <<>> /\ Drop(size)
    <3>1. /\ elements' = SubSeq(elements, size + 1, Len(elements))
          /\ elementsDropped' = (elementsDropped + size) + 0
          /\ size \in 0 .. Len(elements)
      BY <1>0, <2>3 DEF Drop
    <3> QED
      BY <2>1, <3>1, LoseStep, StepsOfFifo
  <2>4. CASE UNCHANGED elements /\ Drop(1)
    <3>1. /\ elements' = SubSeq(elements, 0 + 1, Len(elements))
          /\ elementsDropped' = (elementsDropped + 0) + 1
      BY <1>0, <1>0a, <2>4 DEF Drop
    <3> QED
      BY <1>0, <2>1, <3>1, LoseStep, StepsOfFifo
  <2> QED
    BY <2>1, <2>2, <2>3, <2>4, StutterStep
<1>8. CASE UNCHANGED vars
  BY <1>8, StutterStep DEF vars, contents, history
<1> QED
  BY <1>1, <1>3, <1>4, <1>5, <1>6, <1>7, <1>8 DEF Next, Produce

(***************************************************************************)
(* REFINEMENT.  Under each of the three policies, and for any mixture of   *)
(* its operations, the queue behaves as a LossyFifo: nothing is reordered, *)
(* only the oldest items are taken away, every loss is counted and each    *)
(* count is handed out once.                                               *)
(***************************************************************************)
THEOREM QueueImplementsLossyFifo == Spec => ImplementsLossyFifo
<1>1. Init => Fifo!Init
  BY DEF Init, Fifo!Init
<1>2. IInv /\ [Next]_vars => [Fifo!Next]_(Fifo!vars)
  BY RefinementStep
<1> QED
  BY <1>1, <1>2, Invariant, PTL DEF Spec, ImplementsLossyFifo, Fifo!Spec
=============================================================================
