------------------------- MODULE DQMCollationProofs -------------------------
(***************************************************************************)
(* Proofs about DQMCollation, for any lumi sections, consumers and queue   *)
(* capacity, and any number of runs and updates.                           *)
(*                                                                         *)
(* The inductive invariant IInv says where each update is, that those in   *)
(* the store are under their key, and that all that is still on its way is *)
(* of the current run: when a run has ended the store has been destroyed   *)
(* after the queue was cleared, whatever the DQMEventProcessor was at when *)
(* the requests came.                                                      *)
(***************************************************************************)
EXTENDS DQMCollation, SequenceTheorems, FiniteSetTheorems, TLAPS

-----------------------------------------------------------------------------
(* The inductive invariant.                                                *)

Updates == [run : Nat, ls : LumiSections, tags : SUBSET Consumers]
Folders ==
  [updates : SUBSET Nat, expected : Nat, tags : SUBSET Consumers, due : BOOLEAN]
Working == {"dequeue", "add", "requests"}
Serves == {"configuration", "endOfRun", "storeDestruction", "done"}

Typed ==
  /\ phase \in {"stopped", "starting", "running", "finishingDQM", "ending"} /\ run \in 0 .. MaxRuns
  /\ updates \in Seq(Updates)
  /\ queue \in Seq(Nat) /\ Len(queue) <= QueueCapacity
  /\ elementsDropped \in Nat /\ droppedCount \in Nat
  /\ requests \in [pending : SUBSET Pending, inProgress : BOOLEAN]
  /\ processor \in [at : Working \cup Serves, update : Nat, served : SUBSET Pending]
  /\ latestLumiSection \in LumiSections \cup {0} /\ collate \in BOOLEAN
  /\ \A k \in DOMAIN store : store[k] \in Folders

\* Requests are served one after the other, and while they are, none is dequeued.
RequestsInv ==
  /\ processor.at \in Working => processor.served = {}
  /\ processor.at \in Serves =>
       requests.inProgress /\ processor.at = Serving(processor.served)

\* Updates on their way, and their folders, are of this run.
OnTheirWay == ToSet(queue) \cup Places.inHand
CurrentRun ==
  /\ \A n \in OnTheirWay : updates[n].run = run
  /\ \A k \in DOMAIN store : k[1] = run

\* Before a run nothing is left of the last one: what was queued is dropped when it is
\* left, and the store is destroyed after what the processor had in hand.
Settled == store = <<>> /\ processor.at # "add"
RunInv ==
  /\ phase \notin {"running", "finishingDQM"} => queue = <<>>
  /\ phase \in {"stopped", "starting"} => Settled
  /\ phase = "ending" => \/ "storeDestruction" \in requests.pending \cup processor.served
                         \/ Settled
  /\ phase # "stopped" => run >= 1

\* A folder is stored under the key of its updates.
StoreInv ==
  \A k \in DOMAIN store :
    /\ k[1] \in 1 .. run /\ k[2] \in LumiSections /\ store[k].updates # {}
    /\ \A n \in store[k].updates : n \in 1 .. Len(updates) /\ Key(n) = k

RecordsInv ==
  /\ RecordsAreSound
  /\ \A r \in records : \A n \in r.folder.updates : n \in 1 .. Len(updates)

PlacesInv ==
  /\ UpdatesAccountedFor
  /\ \A i, j \in DOMAIN queue : queue[i] = queue[j] => i = j

IInv == Typed /\ RequestsInv /\ CurrentRun /\ RunInv /\ StoreInv /\ RecordsInv /\ PlacesInv

-----------------------------------------------------------------------------
(* Queues of numbers, each of which is in the queue once.                  *)

Once(s) == \A i, j \in DOMAIN s : s[i] = s[j] => i = j

\* What is appended is in the queue once if it was not there.
LEMMA Appended ==
  ASSUME NEW s \in Seq(Nat), Once(s), NEW n \in Nat, n \notin ToSet(s)
  PROVE  /\ Append(s, n) \in Seq(Nat) /\ Len(Append(s, n)) = Len(s) + 1
         /\ ToSet(Append(s, n)) = ToSet(s) \cup {n} /\ Once(Append(s, n))
<1> DEFINE t == Append(s, n)
<1>1. /\ t \in Seq(Nat) /\ Len(t) = Len(s) + 1 /\ Len(s) \in Nat
      /\ DOMAIN s = 1 .. Len(s) /\ DOMAIN t = 1 .. Len(s) + 1
      /\ \A i \in DOMAIN s : t[i] = s[i] /\ s[i] \in ToSet(s)
      /\ t[Len(s) + 1] = n
  BY DEF ToSet
<1> HIDE DEF t
<1>2. DOMAIN t = DOMAIN s \cup {Len(s) + 1} /\ Len(s) + 1 \notin DOMAIN s
  BY <1>1
<1>3. \A x : x \in ToSet(t) <=> x \in ToSet(s) \cup {n}
  BY <1>1, <1>2 DEF ToSet
<1>4. Once(t)
  BY <1>1, <1>2 DEF Once
<1> QED
  BY <1>1, <1>3, <1>4 DEF t

\* The first is not among the others.
LEMMA Removed ==
  ASSUME NEW s \in Seq(Nat), s # <<>>, Once(s)
  PROVE  /\ Tail(s) \in Seq(Nat) /\ Len(Tail(s)) = Len(s) - 1 /\ Head(s) \in ToSet(s) /\ Head(s) \in Nat
         /\ ToSet(Tail(s)) = ToSet(s) \ {Head(s)} /\ Once(Tail(s))
<1> DEFINE t == Tail(s)
<1>1. /\ t \in Seq(Nat) /\ Len(t) = Len(s) - 1 /\ Len(s) \in Nat \ {0} /\ Head(s) = s[1] /\ Head(s) \in Nat
      /\ DOMAIN s = 1 .. Len(s) /\ DOMAIN t = 1 .. Len(s) - 1
      /\ \A i \in 1 .. Len(t) : t[i] = s[i + 1]
  BY HeadTailProperties, EmptySeq
<1> HIDE DEF t
<1>2. \A i \in DOMAIN t : t[i] = s[i + 1] /\ i + 1 \in DOMAIN s /\ i + 1 # 1
  BY <1>1
<1>3. \A i \in DOMAIN s : i = 1 \/ (i - 1 \in DOMAIN t /\ t[i - 1] = s[i])
  BY <1>1
<1>4. 1 \in DOMAIN s
  BY <1>1
<1>5. \A x : x \in ToSet(t) <=> x \in ToSet(s) \ {Head(s)}
  <2> TAKE x
  <2>1. ASSUME x \in ToSet(t) PROVE x \in ToSet(s) \ {Head(s)}
    <3>1. PICK i \in DOMAIN t : x = t[i]
      BY <2>1 DEF ToSet
    <3>2. x = s[i + 1] /\ i + 1 \in DOMAIN s /\ i + 1 # 1
      BY <1>2, <3>1
    <3> QED
      BY <1>1, <1>4, <3>2 DEF ToSet, Once
  <2>2. ASSUME x \in ToSet(s) \ {Head(s)} PROVE x \in ToSet(t)
    <3>1. PICK i \in DOMAIN s : x = s[i]
      BY <2>2 DEF ToSet
    <3>2. i # 1
      BY <1>1, <2>2, <3>1
    <3> QED
      BY <1>3, <3>1, <3>2 DEF ToSet
  <2> QED
    BY <2>1, <2>2
<1>6. Once(t)
  <2> SUFFICES ASSUME NEW i \in DOMAIN t, NEW j \in DOMAIN t, t[i] = t[j] PROVE i = j
    BY DEF Once
  <2>1. i + 1 = j + 1
    BY <1>2 DEF Once
  <2> QED
    BY <1>1, <2>1
<1>7. Head(s) \in ToSet(s)
  BY <1>1, <1>4 DEF ToSet
<1> QED
  BY <1>1, <1>5, <1>6, <1>7 DEF t

\* As many numbers as the queue is long.
LEMMA QueueSize ==
  ASSUME NEW s \in Seq(Nat), Once(s)
  PROVE  IsFiniteSet(ToSet(s)) /\ Cardinality(ToSet(s)) = Len(s) /\ ToSet(s) \in SUBSET Nat
<1>1. Len(s) \in Nat /\ DOMAIN s = 1 .. Len(s) /\ \A i \in DOMAIN s : s[i] \in Nat
  OBVIOUS
<1>2. s \in [1 .. Len(s) -> ToSet(s)]
  BY <1>1 DEF ToSet
<1>3. s \in Bijection(1 .. Len(s), ToSet(s))
  BY <1>1, <1>2 DEF Bijection, Injection, Surjection, IsInjective, ToSet, Once
<1>4. IsFiniteSet(1 .. Len(s)) /\ Cardinality(1 .. Len(s)) = Len(s)
  <2>1. 1 \in Int /\ Len(s) \in Int /\ Len(s) - 1 + 1 = Len(s) /\ (1 > Len(s) => Len(s) = 0)
    BY <1>1
  <2> QED
    BY <2>1, FS_Interval
<1>5. ExistsBijection(1 .. Len(s), ToSet(s))
  BY <1>3 DEF ExistsBijection
<1> QED
  BY <1>1, <1>4, <1>5, FS_Bijection DEF ToSet

-----------------------------------------------------------------------------
(* The places of updates.                                                  *)

Names == {"queued", "inHand", "stored", "served", "unwanted", "overflown", "outdated", "destroyed",
          "ignored"}
\* Each of N is in one place.
Split(p, N) ==
  /\ \A n : n \in N <=> \E x \in Names : n \in p[x]
  /\ \A x, y \in Names : x # y => p[x] \cap p[y] = {}

\* Some go from one place to another.
Goes(p, q, a, b, X) ==
  /\ a \in Names /\ b \in Names /\ a # b /\ X \subseteq p[a]
  /\ q[a] = p[a] \ X /\ q[b] = p[b] \cup X /\ \A x \in Names \ {a, b} : q[x] = p[x]

\* Updates that go from one place to another are still in one place each.
LEMMA MovePlace ==
  ASSUME NEW p, NEW q, NEW N, Split(p, N), NEW a, NEW b, NEW X, Goes(p, q, a, b, X)
  PROVE  Split(q, N)
<1>0. /\ a \in Names /\ b \in Names /\ a # b /\ X \subseteq p[a]
      /\ q[a] = p[a] \ X /\ q[b] = p[b] \cup X /\ \A x \in Names \ {a, b} : q[x] = p[x]
  BY DEF Goes
<1>1. \A n : n \in N <=> \E x \in Names : n \in q[x]
  BY <1>0 DEF Split
<1>2. ASSUME NEW x \in Names, NEW y \in Names, x # y PROVE q[x] \cap q[y] = {}
  <2>1. \A u, v \in Names : u # v => p[u] \cap p[v] = {}
    BY DEF Split
  <2>2. \A u \in Names : q[u] \subseteq p[u] \cup (IF u = b THEN X ELSE {})
    BY <1>0
  <2>3. \A u \in Names : u # b => q[u] \cap X = {}
    BY <1>0, <2>1
  <2> QED
    BY <1>0, <1>2, <2>1, <2>2, <2>3
<1> QED
  BY <1>1, <1>2 DEF Split

\* A new one gets a place.
LEMMA NewPlace ==
  ASSUME NEW p, NEW q, NEW N, Split(p, N), NEW b \in Names, NEW n, n \notin N,
         q[b] = p[b] \cup {n}, \A x \in Names \ {b} : q[x] = p[x]
  PROVE  Split(q, N \cup {n})
<1>1. \A m : m \in N \cup {n} <=> \E x \in Names : m \in q[x]
  BY DEF Split
<1>2. ASSUME NEW x \in Names, NEW y \in Names, x # y PROVE q[x] \cap q[y] = {}
  <2>1. \A u \in Names : n \notin p[u]
    BY DEF Split
  <2> QED
    BY <1>2, <2>1 DEF Split
<1> QED
  BY <1>1, <1>2 DEF Split

\* They stay.
LEMMA SamePlace ==
  ASSUME NEW p, NEW q, NEW N, Split(p, N), \A x \in Names : q[x] = p[x]
  PROVE  Split(q, N)
BY DEF Split

\* UpdatesAccountedFor, in the words of these lemmas.
LEMMA Accounted ==
  UpdatesAccountedFor <=> /\ Split(Places, 1 .. Len(updates))
                          /\ droppedCount + elementsDropped = Cardinality(GivenUp)
<1>1. DOMAIN Places = Names
  BY DEF Places, Names
<1>2. UNION {Places[p] : p \in Names} = 1 .. Len(updates)
      <=> \A n : n \in 1 .. Len(updates) <=> \E x \in Names : n \in Places[x]
  <2>1. \A n : n \in UNION {Places[p] : p \in Names} <=> \E x \in Names : n \in Places[x]
    OBVIOUS
  <2> QED
    BY <2>1
<1> QED
  BY <1>1, <1>2 DEF UpdatesAccountedFor, Split

\* The places, one by one.
LEMMA PlacesOf ==
  /\ Places["queued"] = ToSet(queue)
  /\ Places["inHand"] = IF processor.at = "add" THEN {processor.update} ELSE {}
  /\ Places["stored"] = UpdatesOf(store, DOMAIN store) /\ Places["served"] = Served
  /\ Places["unwanted"] = unwanted /\ Places["overflown"] = overflown
  /\ Places["outdated"] = outdated /\ Places["destroyed"] = destroyed /\ Places["ignored"] = ignored
BY DEF Places

\* So are they after a step.
LEMMA PlacesAfter ==
  /\ Places'["queued"] = ToSet(queue')
  /\ Places'["inHand"] = IF processor'.at = "add" THEN {processor'.update} ELSE {}
  /\ Places'["stored"] = UpdatesOf(store, DOMAIN store)' /\ Places'["served"] = Served'
  /\ Places'["unwanted"] = unwanted' /\ Places'["overflown"] = overflown'
  /\ Places'["outdated"] = outdated' /\ Places'["destroyed"] = destroyed'
  /\ Places'["ignored"] = ignored'
BY DEF Places

\* Updates that are dropped count once.
LEMMA Dropped ==
  ASSUME UpdatesAccountedFor, NEW X, IsFiniteSet(X), X \cap GivenUp = {},
         unwanted' \cup overflown' \cup outdated' = GivenUp \cup X, updates \in Seq(Updates)
  PROVE  Cardinality(GivenUp') = Cardinality(GivenUp) + Cardinality(X)
         /\ Cardinality(GivenUp) \in Nat /\ Cardinality(X) \in Nat
<1>1. Split(Places, 1 .. Len(updates))
  BY Accounted
<1>2. GivenUp \subseteq 1 .. Len(updates)
  BY <1>1, PlacesOf DEF Split, GivenUp, Names
<1>3. IsFiniteSet(1 .. Len(updates))
  <2>1. 1 \in Int /\ Len(updates) \in Int
    OBVIOUS
  <2> QED
    BY <2>1, FS_Interval
<1>4. IsFiniteSet(GivenUp)
  BY <1>2, <1>3, FS_Subset
<1>5. GivenUp' = GivenUp \cup X
  BY DEF GivenUp
<1>6. Cardinality(GivenUp \cup X) = Cardinality(GivenUp) + Cardinality(X) - Cardinality(GivenUp \cap X)
  BY <1>4, FS_Union
<1>7. Cardinality(GivenUp \cap X) = 0
  <2>1. GivenUp \cap X = {}
    OBVIOUS
  <2> QED
    BY <2>1, FS_EmptySet
<1>8. Cardinality(GivenUp) \in Nat /\ Cardinality(X) \in Nat
  BY <1>4, FS_CardinalityType
<1> QED
  BY <1>5, <1>6, <1>7, <1>8

\* Nothing happens to the updates.
LEMMA PlacesKept ==
  ASSUME PlacesInv, UNCHANGED <<updates, queue, elementsDropped, droppedCount, unwanted, overflown,
                                outdated, destroyed, ignored, records>>,
         UpdatesOf(store, DOMAIN store)' = UpdatesOf(store, DOMAIN store),
         (IF processor'.at = "add" THEN {processor'.update} ELSE {})
           = (IF processor.at = "add" THEN {processor.update} ELSE {})
  PROVE  PlacesInv'
<1>1. Split(Places, 1 .. Len(updates)) /\ droppedCount + elementsDropped = Cardinality(GivenUp)
  BY Accounted DEF PlacesInv
<1>2. Served' = Served
  BY DEF Served
<1>3. \A x \in Names : Places'[x] = Places[x]
  BY <1>2, PlacesOf, PlacesAfter DEF Names
<1>4. Split(Places', 1 .. Len(updates))
  BY <1>1, <1>3, SamePlace
<1>5. Split(Places, 1 .. Len(updates))'
  BY <1>4 DEF Split
<1>6. (droppedCount + elementsDropped = Cardinality(GivenUp))'
  BY <1>1 DEF GivenUp
<1>7. UpdatesAccountedFor'
  BY <1>5, <1>6, Accounted, PTL
<1> QED
  BY <1>7 DEF PlacesInv

\* Records stay what they are while no more than new updates come.
LEMMA RecordsKept ==
  ASSUME RecordsInv, UNCHANGED records,
         \A n \in 1 .. Len(updates) : n \in 1 .. Len(updates') /\ Key(n)' = Key(n)
  PROVE  RecordsInv'
<1>1. \A r \in records : \A n \in r.folder.updates : n \in 1 .. Len(updates)
  BY DEF RecordsInv
<1>2. RecordsAreSound
  BY DEF RecordsInv
<1>3. RecordsAreSound'
  BY <1>1, <1>2 DEF RecordsAreSound
<1>4. \A r \in records' : \A n \in r.folder.updates : n \in 1 .. Len(updates')
  BY <1>1
<1> QED
  BY <1>3, <1>4 DEF RecordsInv

-----------------------------------------------------------------------------
(* The state machine.                                                      *)

\* A run begins, or goes on to its next state once the requests have been served.
LEMMA PhaseStep ==
  ASSUME IInv, start \/ enterRunning \/ haltDone
  PROVE  IInv'
<1> USE DEF IInv
<1>1. UNCHANGED <<updates, queue, elementsDropped, unwanted, overflown, processor, latestLumiSection,
                  collate, droppedCount, outdated, store, destroyed, ignored, records, threadOn, threads>>
  BY DEF start, enterRunning, haltDone, queueVars, processorVars, storeVars, threadVars
<1>2. run \in Nat /\ MaxRuns \in Nat
  BY DQMAssumption DEF Typed
<1>3. PlacesInv'
  <2>1. UpdatesOf(store, DOMAIN store)' = UpdatesOf(store, DOMAIN store)
    BY <1>1 DEF UpdatesOf
  <2> QED
    BY <1>1, <2>1, PlacesKept
<1>4. RecordsInv'
  <2>1. \A n \in 1 .. Len(updates) : n \in 1 .. Len(updates') /\ Key(n)' = Key(n)
    BY <1>1 DEF Key
  <2> QED
    BY <1>1, <2>1, RecordsKept
<1>5. CASE start
  <2>1. phase = "stopped" /\ phase' = "starting" /\ run' = run + 1 /\ run < MaxRuns
        /\ requests' = [requests EXCEPT !.pending = {"configuration"}]
    BY <1>5 DEF start, requestConfiguration
  <2>2. queue = <<>> /\ store = <<>> /\ processor.at # "add"
    BY <2>1 DEF RunInv, Settled
  <2>3. Typed'
    <3>1. run' \in 0 .. MaxRuns
      BY <1>2, <2>1
    <3>2. requests' \in [pending : SUBSET Pending, inProgress : BOOLEAN]
      BY <2>1 DEF Typed, Pending
    <3> QED
      BY <1>1, <2>1, <3>1, <3>2 DEF Typed
  <2>4. RequestsInv'
    BY <1>1, <2>1 DEF RequestsInv, Typed, Serving
  <2>5. CurrentRun'
    BY <1>1, <2>2 DEF CurrentRun, OnTheirWay, Places, ToSet
  <2>6. RunInv'
    BY <1>1, <1>2, <2>1, <2>2 DEF RunInv, Settled
  <2>7. StoreInv'
    BY <1>1, <2>2 DEF StoreInv
  <2> QED
    BY <1>3, <1>4, <2>3, <2>4, <2>5, <2>6, <2>7
<1>6. CASE enterRunning \/ haltDone
  <2>1. /\ run' = run /\ requests' = requests /\ requests.pending = {} /\ ~requests.inProgress
        /\ \/ phase = "starting" /\ phase' = "running"
           \/ phase = "ending" /\ phase' = "stopped"
    BY <1>6 DEF enterRunning, haltDone, requestsOngoing
  <2>2. Typed' /\ RequestsInv' /\ StoreInv'
    BY <1>1, <2>1 DEF Typed, RequestsInv, Serving, StoreInv, Key
  <2>3. CurrentRun'
    BY <1>1, <2>1 DEF CurrentRun, OnTheirWay, Places, ToSet
  <2>4. RunInv'
    <3>1. processor.at \in Working /\ processor.served = {}
      BY <2>1 DEF RequestsInv, Typed
    <3> QED
      BY <1>1, <2>1, <3>1 DEF RunInv, Settled
  <2> QED
    BY <1>3, <1>4, <2>2, <2>3, <2>4
<1> QED
  BY <1>5, <1>6

\* A run is left: what is queued is dropped.
LEMMA LeaveStep ==
  ASSUME IInv, stop \/ finish \/ halt
  PROVE  IInv'
<1> USE DEF IInv
<1>1. UNCHANGED <<run, updates, unwanted, processor, latestLumiSection,
                  collate, droppedCount, outdated, store, destroyed, ignored, records, threadOn, threads>>
  BY DEF stop, finish, halt, clearQueue, processorVars, storeVars, threadVars
<1>2. queue' = <<>> /\ elementsDropped' = elementsDropped + Len(queue)
      /\ overflown' = overflown \cup ToSet(queue)
  BY DEF stop, finish, halt, clearQueue
<1>3. /\ phase \in {"starting", "running", "finishingDQM"} /\ phase' \in {"finishingDQM", "ending"}
      /\ requests'.inProgress = requests.inProgress /\ requests'.pending \subseteq Pending
      /\ requests' \in [pending : SUBSET Pending, inProgress : BOOLEAN]
      /\ phase' = "ending" => "storeDestruction" \in requests'.pending
  <2>1. \/ requests' = [requests EXCEPT !.pending = @ \cup {"endOfRun"}] /\ phase' = "finishingDQM"
        \/ requests' = [requests EXCEPT !.pending = {"storeDestruction"}] /\ phase' = "ending"
    BY DEF stop, finish, halt, requestEndOfRun, requestStoreDestruction
  <2>2. phase \in {"starting", "running", "finishingDQM"}
    BY DEF stop, finish, halt
  <2>3. requests \in [pending : SUBSET Pending, inProgress : BOOLEAN]
    BY DEF Typed
  <2> QED
    BY <2>1, <2>2, <2>3 DEF Pending
<1>4. queue \in Seq(Nat) /\ Once(queue) /\ Len(queue) \in Nat /\ elementsDropped \in Nat
      /\ droppedCount \in Nat /\ updates \in Seq(Updates)
  BY DEF Typed, PlacesInv, Once
<1>5. Typed'
  <2>1. queue' \in Seq(Nat) /\ Len(queue') <= QueueCapacity
    <3>1. QueueCapacity \in Nat /\ Len(<<>>) = 0
      BY DQMAssumption
    <3> QED
      BY <1>2, <3>1
  <2>2. elementsDropped' \in Nat
    BY <1>2, <1>4
  <2> QED
    BY <1>1, <1>3, <2>1, <2>2 DEF Typed
<1>6. RequestsInv'
  BY <1>1, <1>3 DEF RequestsInv, Serving
<1>7. CurrentRun'
  <2>1. OnTheirWay' \subseteq OnTheirWay
    BY <1>1, <1>2 DEF OnTheirWay, Places, ToSet
  <2> QED
    BY <1>1, <2>1 DEF CurrentRun
<1>8. RunInv'
  BY <1>1, <1>2, <1>3 DEF RunInv, Settled
<1>9. StoreInv'
  BY <1>1 DEF StoreInv, Key
<1>10. RecordsInv'
  <2>1. \A n \in 1 .. Len(updates) : n \in 1 .. Len(updates') /\ Key(n)' = Key(n)
    BY <1>1 DEF Key
  <2> QED
    BY <1>1, <2>1, RecordsKept
<1>11. PlacesInv'
  <2>1. Split(Places, 1 .. Len(updates)) /\ droppedCount + elementsDropped = Cardinality(GivenUp)
        /\ UpdatesAccountedFor
    BY Accounted DEF PlacesInv
  <2> DEFINE X == ToSet(queue)
  <2>2. Places'["queued"] = Places["queued"] \ X /\ Places'["overflown"] = Places["overflown"] \cup X
        /\ X \subseteq Places["queued"]
    <3>1. ToSet(queue') = {}
      BY <1>2 DEF ToSet
    <3> QED
      BY <1>2, <3>1, PlacesOf, PlacesAfter
  <2>3. \A x \in Names \ {"queued", "overflown"} : Places'[x] = Places[x]
    <3>1. UpdatesOf(store, DOMAIN store)' = UpdatesOf(store, DOMAIN store) /\ Served' = Served
      BY <1>1 DEF UpdatesOf, Served
    <3> QED
      BY <1>1, <3>1, PlacesOf, PlacesAfter DEF Names
  <2>4. IsFiniteSet(X) /\ Cardinality(X) = Len(queue) /\ X \cap GivenUp = {}
    <3>1. X \cap GivenUp = {}
      BY <2>1, PlacesOf DEF Split, Names, GivenUp
    <3> QED
      BY <1>4, <3>1, QueueSize
  <2>5. Cardinality(GivenUp') = Cardinality(GivenUp) + Len(queue) /\ Cardinality(GivenUp) \in Nat
    <3>1. unwanted' \cup overflown' \cup outdated' = GivenUp \cup X
      BY <1>1, <1>2 DEF GivenUp
    <3> HIDE DEF X
    <3> QED
      BY <1>4, <2>1, <2>4, <3>1, Dropped
  <2> HIDE DEF X
  <2>6. Split(Places', 1 .. Len(updates))
    <3>1. "queued" \in Names /\ "overflown" \in Names /\ "queued" # "overflown"
      BY DEF Names
    <3> QED
      <4>1. Goes(Places, Places', "queued", "overflown", X)
        BY <2>2, <2>3, <3>1 DEF Goes
      <4> QED
        BY <2>1, <4>1, MovePlace
  <2>7. Split(Places, 1 .. Len(updates))'
    BY <1>1, <2>6 DEF Split
  <2>8. (droppedCount + elementsDropped = Cardinality(GivenUp))'
    BY <1>1, <1>2, <1>4, <2>1, <2>5
  <2>9. UpdatesAccountedFor'
    BY <2>7, <2>8, Accounted, PTL
  <2>10. \A i, j \in DOMAIN queue' : queue'[i] = queue'[j] => i = j
    BY <1>2
  <2> QED
    BY <2>9, <2>10 DEF PlacesInv
<1> QED
  BY <1>5, <1>6, <1>7, <1>8, <1>9, <1>10, <1>11

\* Updates go from one place to another, and those dropped count.
LEMMA PlacesGo ==
  ASSUME PlacesInv, UNCHANGED updates, NEW a, NEW b, NEW X, Goes(Places, Places', a, b, X),
         droppedCount' + elementsDropped' = Cardinality(GivenUp'), Once(queue')
  PROVE  PlacesInv'
<1>1. Split(Places, 1 .. Len(updates))
  BY Accounted DEF PlacesInv
<1>2. Split(Places', 1 .. Len(updates))
  BY <1>1, MovePlace
<1>3. Split(Places, 1 .. Len(updates))'
  BY <1>2 DEF Split
<1>4. (droppedCount + elementsDropped = Cardinality(GivenUp))'
  OBVIOUS
<1>5. UpdatesAccountedFor'
  BY <1>3, <1>4, Accounted, PTL
<1> QED
  BY <1>5 DEF PlacesInv, Once

\* An update that is sent goes to the queue, or nowhere, and the oldest makes room for it.
LEMMA AddEventStep ==
  ASSUME IInv, NEW ls \in LumiSections, NEW tags \in SUBSET Consumers, addEventToRelevantQueues(ls, tags)
  PROVE  IInv'
<1> USE DEF IInv
<1> DEFINE n == Len(updates) + 1
           u == [run |-> run, ls |-> ls, tags |-> tags]
<1>1. /\ UNCHANGED <<phase, run, requests, processor, latestLumiSection, collate, outdated,
                     store, destroyed, ignored, records, threadOn, threads>>
      /\ phase = "running" /\ updates' = Append(updates, u)
  BY DEF addEventToRelevantQueues, runVars, storeVars, threadVars
<1>2. /\ updates \in Seq(Updates) /\ queue \in Seq(Nat) /\ Once(queue) /\ run \in Nat /\ LumiSections \subseteq Nat
      /\ elementsDropped \in Nat /\ droppedCount \in Nat /\ QueueCapacity \in Nat \ {0}
      /\ Len(queue) <= QueueCapacity
  BY DQMAssumption DEF Typed, PlacesInv, Once
<1>3. u \in Updates
  BY <1>2 DEF Updates
<1>4. /\ updates' \in Seq(Updates) /\ Len(updates') = Len(updates) + 1 /\ Len(updates) \in Nat
      /\ \A i \in 1 .. Len(updates) : updates'[i] = updates[i]
      /\ updates'[Len(updates) + 1] = u
  BY <1>1, <1>2, <1>3
<1> HIDE DEF u
<1>5. n \in Nat /\ n \notin 1 .. Len(updates)
  BY <1>4
<1>6. Split(Places, 1 .. Len(updates)) /\ droppedCount + elementsDropped = Cardinality(GivenUp)
      /\ UpdatesAccountedFor
  BY Accounted DEF PlacesInv
<1>7. ToSet(queue) \subseteq 1 .. Len(updates) /\ GivenUp \subseteq 1 .. Len(updates)
      /\ ToSet(queue) \cap GivenUp = {}
  BY <1>6, PlacesOf DEF Split, Names, GivenUp
<1>8. /\ \A m \in 1 .. Len(updates) : m \in 1 .. Len(updates') /\ Key(m)' = Key(m)
      /\ 1 .. Len(updates') = (1 .. Len(updates)) \cup {n} /\ updates'[n].run = run
  <2>1. updates'[n].run = run
    BY <1>4 DEF u
  <2> QED
    BY <1>4, <2>1 DEF Key
<1> DEFINE new == IF tags = {} THEN {} ELSE {n}
           out == IF tags # {} /\ ~HasRoom THEN {Head(queue)} ELSE {}
\* The queue.
<1>9. /\ queue' \in Seq(Nat) /\ Len(queue') <= QueueCapacity /\ Once(queue')
      /\ ToSet(queue') = (ToSet(queue) \ out) \cup new
      /\ unwanted' = unwanted \cup (IF tags = {} THEN {n} ELSE {})
      /\ overflown' = overflown \cup out /\ out \subseteq ToSet(queue)
      /\ droppedCount' + elementsDropped' = droppedCount + elementsDropped
                                            + (IF tags = {} \/ ~HasRoom THEN 1 ELSE 0)
      /\ droppedCount' \in Nat /\ elementsDropped' \in Nat
  <2>1. CASE tags = {}
    <3>1. /\ unwanted' = unwanted \cup {n} /\ droppedCount' = droppedCount + 1
          /\ UNCHANGED <<queue, elementsDropped, overflown>>
      BY <2>1 DEF addEventToRelevantQueues
    <3> QED
      BY <1>2, <2>1, <3>1
  <2>2. CASE tags # {} /\ HasRoom
    <3>1. /\ queue' = Append(queue, n) /\ elementsDropped' = elementsDropped + 0
          /\ overflown' = overflown \cup {} /\ UNCHANGED <<unwanted, droppedCount>>
      BY <2>2 DEF addEventToRelevantQueues
    <3>2. /\ Append(queue, n) \in Seq(Nat) /\ Len(Append(queue, n)) = Len(queue) + 1
          /\ ToSet(Append(queue, n)) = ToSet(queue) \cup {n} /\ Once(Append(queue, n))
      BY <1>2, <1>5, <1>7, Appended
    <3>3. Len(queue) < QueueCapacity
      BY <2>2 DEF HasRoom
    <3> HIDE DEF n
    <3> QED
      BY <1>2, <2>2, <3>1, <3>2, <3>3
  <2>3. CASE tags # {} /\ ~HasRoom
    <3>1. /\ queue' = Append(Tail(queue), n) /\ elementsDropped' = elementsDropped + 1
          /\ overflown' = overflown \cup {Head(queue)} /\ UNCHANGED <<unwanted, droppedCount>>
      BY <2>3 DEF addEventToRelevantQueues
    <3>2. queue # <<>>
      BY <1>2, <2>3 DEF HasRoom
    <3>3. /\ Tail(queue) \in Seq(Nat) /\ Len(Tail(queue)) = Len(queue) - 1 /\ Head(queue) \in ToSet(queue)
          /\ ToSet(Tail(queue)) = ToSet(queue) \ {Head(queue)} /\ Once(Tail(queue))
      BY <1>2, <3>2, Removed
    <3>4. n \notin ToSet(Tail(queue))
      BY <1>5, <1>7, <3>3
    <3>5. /\ Append(Tail(queue), n) \in Seq(Nat) /\ Len(Append(Tail(queue), n)) = Len(Tail(queue)) + 1
          /\ ToSet(Append(Tail(queue), n)) = ToSet(Tail(queue)) \cup {n} /\ Once(Append(Tail(queue), n))
      BY <1>5, <3>3, <3>4, Appended
    <3>6. Len(queue') <= QueueCapacity
      BY <1>2, <3>1, <3>3, <3>5
    <3> HIDE DEF n
    <3> QED
      BY <1>2, <2>3, <3>1, <3>3, <3>5, <3>6
  <2> QED
    BY <2>1, <2>2, <2>3
<1> HIDE DEF n
\* Where the updates are then: the oldest goes first.
<1>10. PlacesInv'
  <2> DEFINE b == IF tags = {} THEN "unwanted" ELSE "queued"
  <2>1. PICK p : p = [Places EXCEPT !["queued"] = @ \ out, !["overflown"] = @ \cup out]
    OBVIOUS
  <2>2. /\ p["queued"] = Places["queued"] \ out /\ p["overflown"] = Places["overflown"] \cup out
        /\ \A x \in Names \ {"queued", "overflown"} : p[x] = Places[x]
    BY <2>1 DEF Places, Names
  <2>3. "queued" \in Names /\ "overflown" \in Names /\ b \in Names
    BY DEF Names
  <2>4. Goes(Places, p, "queued", "overflown", out)
    BY <1>9, <2>2, <2>3, PlacesOf DEF Goes
  <2>5. Split(p, 1 .. Len(updates))
    BY <1>6, <2>4, MovePlace
  <2>6. Places'[b] = p[b] \cup {n} /\ \A x \in Names \ {b} : Places'[x] = p[x]
    <3>1. Served' = Served /\ UpdatesOf(store, DOMAIN store)' = UpdatesOf(store, DOMAIN store)
      BY <1>1 DEF Served, UpdatesOf
    <3>2. /\ p["queued"] = ToSet(queue) \ out /\ p["overflown"] = overflown \cup out
          /\ p["inHand"] = Places["inHand"] /\ p["stored"] = UpdatesOf(store, DOMAIN store)
          /\ p["served"] = Served /\ p["unwanted"] = unwanted /\ p["outdated"] = outdated
          /\ p["destroyed"] = destroyed /\ p["ignored"] = ignored
      BY <2>2, PlacesOf DEF Names
    <3>3. Places'["inHand"] = Places["inHand"]
      BY <1>1, PlacesOf, PlacesAfter
    <3>4. CASE tags = {}
      <4>1. ToSet(queue') = ToSet(queue) \ out /\ unwanted' = unwanted \cup {n}
            /\ overflown' = overflown \cup out
        BY <1>9, <3>4
      <4> QED
        BY <1>1, <3>1, <3>2, <3>3, <3>4, <4>1, PlacesAfter DEF Names
    <3>5. CASE tags # {}
      <4>1. ToSet(queue') = (ToSet(queue) \ out) \cup {n} /\ unwanted' = unwanted
            /\ overflown' = overflown \cup out
        BY <1>9, <3>5
      <4> QED
        BY <1>1, <3>1, <3>2, <3>3, <3>5, <4>1, PlacesAfter DEF Names
    <3> QED
      BY <3>4, <3>5
  <2>7. Split(Places', (1 .. Len(updates)) \cup {n})
    BY <1>5, <2>3, <2>5, <2>6, NewPlace
  <2>8. Split(Places, 1 .. Len(updates))'
    BY <1>8, <2>7 DEF Split
  <2>9. (droppedCount + elementsDropped = Cardinality(GivenUp))'
    <3> DEFINE X == IF tags = {} THEN {n} ELSE out
    <3>1. unwanted' \cup overflown' \cup outdated' = GivenUp \cup X
      BY <1>1, <1>9 DEF GivenUp
    <3>2. X \cap GivenUp = {}
      BY <1>5, <1>7, <1>9
    <3>3. IsFiniteSet(X) /\ Cardinality(X) = IF tags = {} \/ ~HasRoom THEN 1 ELSE 0
      <4>1. \A x : IsFiniteSet({x}) /\ Cardinality({x}) = 1
        BY FS_Singleton
      <4>2. IsFiniteSet({}) /\ Cardinality({}) = 0
        BY FS_EmptySet
      <4> QED
        BY <4>1, <4>2
    <3> HIDE DEF X
    <3>4. Cardinality(GivenUp') = Cardinality(GivenUp) + Cardinality(X)
      BY <1>2, <1>6, <3>1, <3>2, <3>3, Dropped
    <3> QED
      BY <1>6, <1>9, <3>3, <3>4
  <2>10. UpdatesAccountedFor'
    BY <2>8, <2>9, Accounted, PTL
  <2> QED
    BY <1>9, <2>10 DEF PlacesInv, Once
<1>11. Typed'
  BY <1>1, <1>4, <1>9 DEF Typed
<1>12. RequestsInv' /\ RunInv'
  BY <1>1 DEF RequestsInv, RunInv, Settled, Serving
<1>13. CurrentRun'
  <2>1. \A m \in OnTheirWay : m \in 1 .. Len(updates) /\ updates[m].run = run
    BY <1>6, PlacesOf DEF CurrentRun, OnTheirWay, Split, Names
  <2>2. OnTheirWay' \subseteq OnTheirWay \cup {n}
    BY <1>1, <1>9, PlacesOf, PlacesAfter DEF OnTheirWay
  <2> QED
    BY <1>1, <1>4, <1>8, <2>1, <2>2 DEF CurrentRun
<1>14. StoreInv'
  BY <1>1, <1>8 DEF StoreInv
<1>15. RecordsInv'
  BY <1>1, <1>8, RecordsKept
<1> QED
  BY <1>10, <1>11, <1>12, <1>13, <1>14, <1>15

-----------------------------------------------------------------------------
(* The DQMEventProcessor.                                                  *)

\* An update is taken from the queue, and given up if it is too old.
LEMMA DequeueStep ==
  ASSUME IInv, dequeue
  PROVE  IInv'
<1> USE DEF IInv
<1> DEFINE n == Head(queue)
           outOfDate == OlderLS > 0 /\ updates[n].ls + OlderLS < latestLumiSection
<1>1. /\ UNCHANGED <<phase, run, updates, unwanted, overflown, requests, collate, store, destroyed,
                     ignored, records, threadOn, threads>>
      /\ processor.at = "dequeue" /\ queue # <<>>
      /\ queue' = Tail(queue) /\ elementsDropped' = 0
      /\ droppedCount' = droppedCount + elementsDropped + (IF outOfDate THEN 1 ELSE 0)
      /\ outdated' = outdated \cup (IF outOfDate THEN {n} ELSE {})
      /\ processor' = IF outOfDate THEN [processor EXCEPT !.at = "requests"]
                      ELSE [processor EXCEPT !.at = "add", !.update = n]
      /\ latestLumiSection' = IF outOfDate THEN latestLumiSection
                              ELSE Max({latestLumiSection, updates[n].ls})
  BY DEF dequeue, runVars, storeVars, threadVars
<1>2. /\ queue \in Seq(Nat) /\ Once(queue) /\ updates \in Seq(Updates)
      /\ elementsDropped \in Nat /\ droppedCount \in Nat /\ LumiSections \subseteq Nat
      /\ Len(queue) \in Nat /\ Len(queue) <= QueueCapacity
  BY DQMAssumption DEF Typed, PlacesInv, Once
<1>3. Split(Places, 1 .. Len(updates)) /\ droppedCount + elementsDropped = Cardinality(GivenUp)
      /\ UpdatesAccountedFor
  BY Accounted DEF PlacesInv
<1>4. /\ Tail(queue) \in Seq(Nat) /\ Len(Tail(queue)) = Len(queue) - 1 /\ n \in ToSet(queue) /\ n \in Nat
      /\ ToSet(Tail(queue)) = ToSet(queue) \ {n} /\ Once(Tail(queue))
  BY <1>1, <1>2, Removed
<1>5. n \in 1 .. Len(updates) /\ n \notin GivenUp /\ updates[n] \in Updates /\ updates[n].run = run
  <2>1. n \in Places["queued"]
    BY <1>4, PlacesOf
  <2>2. n \in 1 .. Len(updates) /\ n \notin GivenUp
    BY <1>3, <2>1, PlacesOf DEF Split, Names, GivenUp
  <2>3. updates[n].run = run
    BY <1>4 DEF CurrentRun, OnTheirWay
  <2> QED
    BY <1>2, <2>2, <2>3
<1> HIDE DEF n, outOfDate
<1>6. /\ processor'.at = (IF outOfDate THEN "requests" ELSE "add") /\ processor'.served = processor.served
      /\ ~outOfDate => processor'.update = n
      /\ processor' \in [at : Working \cup Serves, update : Nat, served : SUBSET Pending]
  <2>1. processor \in [at : Working \cup Serves, update : Nat, served : SUBSET Pending]
    BY DEF Typed
  <2>2. CASE outOfDate
    BY <1>1, <2>1, <2>2 DEF Working
  <2>3. CASE ~outOfDate
    BY <1>1, <1>4, <2>1, <2>3 DEF Working
  <2> QED
    BY <2>2, <2>3
<1>7. latestLumiSection' \in LumiSections \cup {0}
  <2>1. latestLumiSection \in LumiSections \cup {0} /\ updates[n].ls \in LumiSections
    BY <1>5 DEF Typed, Updates
  <2>2. \A x, y \in Nat : Max({x, y}) \in {x, y}
    <3> TAKE x, y \in Nat
    <3>1. \E z \in {x, y} : \A w \in {x, y} : z >= w
      <4>1. CASE x >= y
        BY <4>1
      <4>2. CASE ~(x >= y)
        BY <4>2
      <4> QED
        BY <4>1, <4>2
    <3> QED
      BY <3>1 DEF Max
  <2>3. latestLumiSection \in Nat /\ updates[n].ls \in Nat
    <3>1. \A x \in LumiSections \cup {0} : x \in Nat
      BY <1>2
    <3> QED
      BY <2>1, <3>1
  <2>4. Max({latestLumiSection, updates[n].ls}) \in {latestLumiSection, updates[n].ls}
    BY <2>2, <2>3
  <2> QED
    BY <1>1, <2>1, <2>4
<1>8. droppedCount' \in Nat
  BY <1>1, <1>2
<1>9. Typed'
  <2>1. queue' \in Seq(Nat) /\ Len(queue') <= QueueCapacity
    <3>1. QueueCapacity \in Nat
      BY DQMAssumption
    <3> QED
      BY <1>1, <1>2, <1>4, <3>1
  <2> QED
    BY <1>1, <1>6, <1>7, <1>8, <2>1 DEF Typed
<1>10. RequestsInv'
  BY <1>1, <1>6 DEF RequestsInv, Working, Serves
<1>11. CurrentRun'
  <2>1. OnTheirWay' \subseteq OnTheirWay
    BY <1>1, <1>4, <1>6, PlacesOf, PlacesAfter DEF OnTheirWay
  <2> QED
    BY <1>1, <2>1 DEF CurrentRun
<1>12. RunInv'
  <2>1. phase \in {"running", "finishingDQM"}
    BY <1>1 DEF RunInv, Typed
  <2> QED
    BY <1>1, <2>1 DEF RunInv
<1>13. StoreInv'
  BY <1>1 DEF StoreInv, Key
<1>14. RecordsInv'
  <2>1. \A m \in 1 .. Len(updates) : m \in 1 .. Len(updates') /\ Key(m)' = Key(m)
    BY <1>1 DEF Key
  <2> QED
    BY <1>1, <2>1, RecordsKept
<1>15. PlacesInv'
  <2> DEFINE b == IF outOfDate THEN "outdated" ELSE "inHand"
  <2>1. Goes(Places, Places', "queued", b, {n})
    <3>1. Served' = Served /\ UpdatesOf(store, DOMAIN store)' = UpdatesOf(store, DOMAIN store)
      BY <1>1 DEF Served, UpdatesOf
    <3>2. Places["inHand"] = {} /\ Places["queued"] = ToSet(queue) /\ Places'["queued"] = ToSet(queue) \ {n}
      BY <1>1, <1>4, PlacesOf, PlacesAfter
    <3>3. /\ Places'["stored"] = Places["stored"] /\ Places'["served"] = Places["served"]
          /\ Places'["unwanted"] = Places["unwanted"] /\ Places'["overflown"] = Places["overflown"]
          /\ Places'["destroyed"] = Places["destroyed"] /\ Places'["ignored"] = Places["ignored"]
      BY <1>1, <3>1, PlacesOf, PlacesAfter
    <3>4. CASE outOfDate
      <4>1. Places'["outdated"] = Places["outdated"] \cup {n} /\ Places'["inHand"] = {}
        BY <1>1, <1>6, <3>4, PlacesOf, PlacesAfter
      <4> QED
        BY <1>4, <3>2, <3>3, <3>4, <4>1 DEF Goes, Names
    <3>5. CASE ~outOfDate
      <4>1. Places'["outdated"] = Places["outdated"] /\ Places'["inHand"] = {n}
        BY <1>1, <1>6, <3>5, PlacesOf, PlacesAfter
      <4> QED
        BY <1>4, <3>2, <3>3, <3>5, <4>1 DEF Goes, Names
    <3> QED
      BY <3>4, <3>5
  <2>2. droppedCount' + elementsDropped' = Cardinality(GivenUp')
    <3> DEFINE X == IF outOfDate THEN {n} ELSE {}
    <3>1. unwanted' \cup overflown' \cup outdated' = GivenUp \cup X
      BY <1>1 DEF GivenUp
    <3>2. X \cap GivenUp = {}
      BY <1>5
    <3>3. IsFiniteSet(X) /\ Cardinality(X) = IF outOfDate THEN 1 ELSE 0
      BY FS_Singleton, FS_EmptySet
    <3> HIDE DEF X
    <3>4. Cardinality(GivenUp') = Cardinality(GivenUp) + Cardinality(X)
      BY <1>2, <1>3, <3>1, <3>2, <3>3, Dropped
    <3> QED
      BY <1>1, <1>2, <1>3, <3>3, <3>4
  <2> HIDE DEF b
  <2> QED
    BY <1>1, <1>4, <2>1, <2>2, PlacesGo
<1> QED
  BY <1>9, <1>10, <1>11, <1>12, <1>13, <1>14, <1>15

\* No update moves while requests come and go.
LEMMA IdleStep ==
  ASSUME IInv, dequeueTimesOut \/ getRequests \/ requestsDone
  PROVE  IInv'
<1> USE DEF IInv
<1>1. UNCHANGED <<phase, run, updates, queue, elementsDropped, unwanted, overflown, latestLumiSection,
                  collate, droppedCount, outdated, store, destroyed, ignored, records, threadOn, threads>>
  BY DEF dequeueTimesOut, getRequests, requestsDone, runVars, queueVars, processorVars, storeVars, threadVars
<1>2. /\ processor \in [at : Working \cup Serves, update : Nat, served : SUBSET Pending]
      /\ requests \in [pending : SUBSET Pending, inProgress : BOOLEAN]
  BY DEF Typed
<1>3. Serving(requests.pending) \in Serves
  BY <1>2 DEF Serving, Serves
<1>4. /\ processor'.at # "add" /\ processor.at # "add"
      /\ processor' \in [at : Working \cup Serves, update : Nat, served : SUBSET Pending]
      /\ requests' \in [pending : SUBSET Pending, inProgress : BOOLEAN]
      /\ RequestsInv'
      /\ "storeDestruction" \in requests.pending \cup processor.served =>
           "storeDestruction" \in requests'.pending \cup processor'.served
  <2>1. CASE dequeueTimesOut
    <3>1. processor.at = "dequeue" /\ processor' = [processor EXCEPT !.at = "requests"] /\ requests' = requests
      BY <2>1 DEF dequeueTimesOut
    <3> QED
      BY <1>2, <3>1 DEF RequestsInv, Working, Serves
  <2>2. CASE getRequests /\ requests.pending = {}
    <3>1. processor.at = "requests" /\ processor' = Idle /\ requests' = requests
      BY <2>2 DEF getRequests
    <3> QED
      BY <1>2, <2>2, <3>1 DEF RequestsInv, Working, Serves, Idle
  <2>3. CASE getRequests /\ requests.pending # {}
    <3>1. /\ processor.at = "requests"
          /\ processor' = [Idle EXCEPT !.at = Serving(requests.pending), !.served = requests.pending]
          /\ requests' = [pending |-> {}, inProgress |-> TRUE]
      BY <2>3 DEF getRequests
    <3>2. /\ processor'.at = Serving(requests.pending) /\ processor'.served = requests.pending
          /\ processor'.update = 0 /\ processor' = [at |-> Serving(requests.pending), update |-> 0,
                                                    served |-> requests.pending]
      BY <3>1 DEF Idle
    <3>3. processor.served = {}
      BY <3>1 DEF RequestsInv, Working
    <3> QED
      BY <1>2, <1>3, <3>1, <3>2, <3>3 DEF RequestsInv, Working, Serves
  <2>4. CASE requestsDone
    <3>1. /\ processor.at = "done" /\ processor' = Idle
          /\ requests' = [requests EXCEPT !.inProgress = FALSE]
      BY <2>4 DEF requestsDone
    <3>2. Serving(processor.served) = "done"
      BY <3>1 DEF RequestsInv, Serves
    <3>3. "storeDestruction" \notin processor.served
      BY <3>2 DEF Serving
    <3> QED
      BY <1>2, <3>1, <3>3 DEF RequestsInv, Working, Serves, Idle
  <2> QED
    BY <2>1, <2>2, <2>3, <2>4
<1>5. Typed' /\ StoreInv'
  BY <1>1, <1>4 DEF Typed, StoreInv, Key
<1>6. CurrentRun'
  BY <1>1, <1>4, PlacesOf, PlacesAfter DEF CurrentRun, OnTheirWay
<1>7. RunInv'
  BY <1>1, <1>4 DEF RunInv, Settled
<1>8. RecordsInv'
  <2>1. \A m \in 1 .. Len(updates) : m \in 1 .. Len(updates') /\ Key(m)' = Key(m)
    BY <1>1 DEF Key
  <2> QED
    BY <1>1, <2>1, RecordsKept
<1>9. PlacesInv'
  <2>1. UpdatesOf(store, DOMAIN store)' = UpdatesOf(store, DOMAIN store)
    BY <1>1 DEF UpdatesOf
  <2> QED
    BY <1>1, <1>4, <2>1, PlacesKept
<1> QED
  BY <1>4, <1>5, <1>6, <1>7, <1>8, <1>9

-----------------------------------------------------------------------------
(* Folders.                                                                *)

\* Folders of different keys have no update in common.
LEMMA FoldersApart ==
  ASSUME StoreInv, NEW A \in SUBSET DOMAIN store
  PROVE  /\ UpdatesOf(store, DOMAIN store \ A) = UpdatesOf(store, DOMAIN store) \ UpdatesOf(store, A)
         /\ UpdatesOf(store, A) \subseteq UpdatesOf(store, DOMAIN store)
         /\ UpdatesOf(store, {}) = {}
<1>1. \A j, k \in DOMAIN store : j # k => store[j].updates \cap store[k].updates = {}
  BY DEF StoreInv
<1> QED
  BY <1>1 DEF UpdatesOf

\* An update is added to its folder, or makes one.
LEMMA FolderGrows ==
  ASSUME IInv, processor.at = "add", NEW n, n = processor.update, NEW f \in Folders, NEW k, k = Key(n),
         store' = Put(store, k, f),
         f.updates = (IF k \in DOMAIN store THEN store[k].updates ELSE {}) \cup {n},
         processor' = [Idle EXCEPT !.at = "requests"],
         UNCHANGED <<phase, run, updates, queue, elementsDropped, unwanted, overflown, requests,
                     latestLumiSection, collate, droppedCount, outdated, destroyed, ignored, records>>
  PROVE  IInv'
<1> USE DEF IInv
<1>1. Split(Places, 1 .. Len(updates)) /\ droppedCount + elementsDropped = Cardinality(GivenUp)
  BY Accounted DEF PlacesInv
<1>2. Places["inHand"] = {n}
  BY PlacesOf
<1>3. n \in 1 .. Len(updates) /\ n \notin Places["stored"]
  BY <1>1, <1>2 DEF Split, Names
<1>4. updates[n].run = run
  BY <1>2 DEF CurrentRun, OnTheirWay
<1>5. phase \notin {"stopped", "starting"} /\ run >= 1 /\ run \in Nat
  BY DQMAssumption DEF RunInv, Settled, Typed
<1>6. updates \in Seq(Updates)
  BY DEF Typed
<1>7. updates[n] \in Updates
  BY <1>3, <1>6
<1>8. k = <<run, updates[n].ls>> /\ updates[n].ls \in LumiSections /\ k[1] = run /\ k[2] \in LumiSections
  BY <1>4, <1>7 DEF Key, Updates
<1>9. /\ DOMAIN store' = DOMAIN store \cup {k}
      /\ \A j \in DOMAIN store' : store'[j] = IF j = k THEN f ELSE store[j]
  BY DEF Put
<1>10. /\ processor'.at = "requests" /\ processor'.served = {} /\ processor.served = {}
       /\ processor' \in [at : Working \cup Serves, update : Nat, served : SUBSET Pending]
  BY DEF Idle, RequestsInv, Working, Serves
<1>11. Typed'
  BY <1>9, <1>10 DEF Typed
<1>12. RequestsInv'
  BY <1>10 DEF RequestsInv, Serves
<1>13. CurrentRun'
  <2>1. OnTheirWay' \subseteq OnTheirWay
    BY <1>10, PlacesOf, PlacesAfter DEF OnTheirWay
  <2> QED
    BY <1>8, <1>9, <2>1 DEF CurrentRun
<1>14. RunInv'
  BY <1>5, <1>10 DEF RunInv, Settled
<1>15. StoreInv'
  <2> SUFFICES ASSUME NEW j \in DOMAIN store'
               PROVE  /\ j[1] \in 1 .. run /\ j[2] \in LumiSections /\ store'[j].updates # {}
                      /\ \A m \in store'[j].updates : m \in 1 .. Len(updates) /\ Key(m) = j
    BY DEF StoreInv, Key
  <2>1. CASE j # k
    BY <1>9, <2>1 DEF StoreInv
  <2>2. CASE j = k
    <3>1. store'[j].updates = (IF k \in DOMAIN store THEN store[k].updates ELSE {}) \cup {n}
      BY <1>9, <2>2
    <3>2. \A m \in (IF k \in DOMAIN store THEN store[k].updates ELSE {}) :
            m \in 1 .. Len(updates) /\ Key(m) = k
      BY DEF StoreInv
    <3>3. \A m \in store'[j].updates : m \in 1 .. Len(updates) /\ Key(m) = k
      BY <1>3, <3>1, <3>2
    <3>4. j[1] \in 1 .. run /\ j[2] \in LumiSections
      BY <1>5, <1>8, <2>2
    <3>5. store'[j].updates # {}
      BY <3>1
    <3> QED
      BY <2>2, <3>3, <3>4, <3>5
  <2> QED
    BY <2>1, <2>2
<1>16. RecordsInv'
  <2>1. \A m \in 1 .. Len(updates) : m \in 1 .. Len(updates') /\ Key(m)' = Key(m)
    BY DEF Key
  <2> QED
    BY <2>1, RecordsKept
<1>17. PlacesInv'
  <2>1. UpdatesOf(store, DOMAIN store)' = UpdatesOf(store, DOMAIN store) \cup {n}
    <3>1. \A m : (\E j \in DOMAIN store' : m \in store'[j].updates)
                 <=> (\E j \in DOMAIN store : m \in store[j].updates) \/ m = n
      BY <1>9
    <3> QED
      BY <3>1 DEF UpdatesOf
  <2>2. Goes(Places, Places', "inHand", "stored", {n})
    <3>1. Served' = Served
      BY DEF Served
    <3>2. Places'["inHand"] = {}
      BY <1>10, PlacesAfter
    <3> QED
      BY <1>2, <2>1, <3>1, <3>2, PlacesOf, PlacesAfter DEF Goes, Names
  <2>3. droppedCount' + elementsDropped' = Cardinality(GivenUp')
    BY <1>1 DEF GivenUp
  <2>4. Once(queue')
    BY DEF PlacesInv, Once
  <2> QED
    BY <2>2, <2>3, <2>4, PlacesGo
<1> QED
  BY <1>11, <1>12, <1>13, <1>14, <1>15, <1>16, <1>17

\* An update is added to the store, or ignored when one of its lumi section is still there.
LEMMA AddStep ==
  ASSUME IInv, addDQMEvent
  PROVE  IInv'
<1> USE DEF IInv
<1> DEFINE n == processor.update
           k == Key(n)
<1>1. /\ UNCHANGED <<phase, run, updates, queue, elementsDropped, unwanted, overflown, requests,
                     latestLumiSection, collate, droppedCount, outdated, destroyed, records>>
      /\ processor.at = "add" /\ processor' = [Idle EXCEPT !.at = "requests"]
      /\ IF collate THEN addDQMEventToStore(n) ELSE addDQMEventToReadyToServe(n)
  BY DEF addDQMEvent, runVars, queueVars, processorVars, threadVars
<1>2. n \in Nat /\ 1 \in Nat /\ updates[n].tags \in SUBSET Consumers
  <2>1. n \in Places["inHand"]
    BY <1>1, PlacesOf
  <2>2. Split(Places, 1 .. Len(updates))
    BY Accounted DEF PlacesInv
  <2>3. n \in 1 .. Len(updates) /\ updates \in Seq(Updates)
    BY <2>1, <2>2 DEF Split, Names, Typed
  <2>4. updates[n] \in Updates
    BY <2>3
  <2> QED
    BY <2>3, <2>4 DEF Updates
<1> HIDE DEF n, k
<1>3. \A e \in Nat : NewFolder(n, e) \in Folders /\ NewFolder(n, e).updates = {n}
  BY <1>2 DEF NewFolder, Folders
<1>4. CASE \E e \in Nat : store' = Put(store, k, IF k \in DOMAIN store THEN addToFolder(store[k], n)
                                                 ELSE NewFolder(n, e)) /\ UNCHANGED ignored
  <2>1. PICK e \in Nat : store' = Put(store, k, IF k \in DOMAIN store THEN addToFolder(store[k], n)
                                                ELSE NewFolder(n, e))
    BY <1>4
  <2>2. PICK f : f = IF k \in DOMAIN store THEN addToFolder(store[k], n) ELSE NewFolder(n, e)
    OBVIOUS
  <2>3. store' = Put(store, k, f)
    BY <2>1, <2>2
  <2>4. f \in Folders /\ f.updates = (IF k \in DOMAIN store THEN store[k].updates ELSE {}) \cup {n}
    <3>1. CASE k \in DOMAIN store
      <4>1. store[k] \in Folders
        BY <3>1 DEF Typed
      <4>2. f = [store[k] EXCEPT !.updates = @ \cup {n}, !.due = FALSE]
        BY <2>2, <3>1 DEF addToFolder
      <4> QED
        BY <1>2, <3>1, <4>1, <4>2 DEF Folders
    <3>2. CASE k \notin DOMAIN store
      BY <1>3, <2>2, <3>2
    <3> QED
      BY <3>1, <3>2
  <2>5. UNCHANGED ignored
    BY <1>4
  <2> QED
    BY <1>1, <2>3, <2>4, <2>5, FolderGrows DEF n, k
<1>5. CASE ignored' = ignored \cup {n} /\ UNCHANGED store
  <2>1. Places["inHand"] = {n}
    BY <1>1, PlacesOf DEF n
  <2>2. /\ processor'.at = "requests" /\ processor'.served = {} /\ processor.served = {}
        /\ processor' \in [at : Working \cup Serves, update : Nat, served : SUBSET Pending]
    BY <1>1 DEF Idle, RequestsInv, Working, Serves
  <2>3. Typed' /\ RequestsInv' /\ StoreInv'
    BY <1>1, <1>5, <2>2 DEF Typed, RequestsInv, Serves, StoreInv, Key
  <2>4. CurrentRun'
    <3>1. OnTheirWay' \subseteq OnTheirWay
      BY <1>1, <2>2, PlacesOf, PlacesAfter DEF OnTheirWay
    <3> QED
      BY <1>1, <1>5, <3>1 DEF CurrentRun
  <2>5. RunInv'
    BY <1>1, <1>5, <2>2 DEF RunInv, Settled
  <2>6. RecordsInv'
    <3>1. \A m \in 1 .. Len(updates) : m \in 1 .. Len(updates') /\ Key(m)' = Key(m)
      BY <1>1 DEF Key
    <3> QED
      BY <1>1, <3>1, RecordsKept
  <2>7. PlacesInv'
    <3>1. Goes(Places, Places', "inHand", "ignored", {n})
      <4>1. Served' = Served /\ UpdatesOf(store, DOMAIN store)' = UpdatesOf(store, DOMAIN store)
        BY <1>1, <1>5 DEF Served, UpdatesOf
      <4>2. Places'["inHand"] = {}
        BY <2>2, PlacesAfter
      <4> QED
        BY <1>1, <1>5, <2>1, <4>1, <4>2, PlacesOf, PlacesAfter DEF Goes, Names
    <3>2. droppedCount' + elementsDropped' = Cardinality(GivenUp')
      BY <1>1, Accounted DEF GivenUp, PlacesInv
    <3>3. Once(queue')
      BY <1>1 DEF PlacesInv, Once
    <3> QED
      BY <1>1, <3>1, <3>2, <3>3, PlacesGo
  <2> QED
    BY <2>3, <2>4, <2>5, <2>6, <2>7
<1>6. Expectations \subseteq Nat
  BY DQMAssumption
<1>7. CASE collate
  <2>1. addDQMEventToStore(n)
    BY <1>1, <1>7
  <2> QED
    BY <1>4, <1>6, <2>1 DEF addDQMEventToStore, k
<1>8. CASE ~collate
  <2>1. addDQMEventToReadyToServe(n)
    BY <1>1, <1>8
  <2>2. CASE k \in DOMAIN store
    BY <1>5, <2>1, <2>2 DEF addDQMEventToReadyToServe, k
  <2>3. CASE k \notin DOMAIN store
    BY <1>2, <1>4, <2>1, <2>3 DEF addDQMEventToReadyToServe, k
  <2> QED
    BY <2>2, <2>3
<1> QED
  BY <1>7, <1>8

\* Folders that are ready are handed out with the run they are of, each once.
LEMMA HandReady ==
  ASSUME StoreInv, CurrentRun, RecordsInv, UpdatesAccountedFor, Handled, UNCHANGED updates
  PROVE  RecordsInv' /\ Served' = Served \cup UpdatesOf(store, Ready)
<1> DEFINE New == {[key |-> k, folder |-> store[k], run |-> run] : k \in Ready}
<1>1. records' = records \cup New
  BY DEF Handled
<1>2. Ready \subseteq DOMAIN store
  BY DEF Ready
<1>3. \A s \in New : \E k \in Ready : s.key = k /\ s.folder = store[k] /\ s.run = run /\
                                      s = [key |-> k, folder |-> store[k], run |-> run]
  OBVIOUS
<1>4. ASSUME NEW k \in Ready PROVE \E s \in New : s.folder = store[k]
  <2>1. [key |-> k, folder |-> store[k], run |-> run] \in New
    OBVIOUS
  <2> QED
    BY <2>1
<1> HIDE DEF New
<1>5. Served' = Served \cup UpdatesOf(store, Ready)
  <2>1. \A n : n \in UNION {s.folder.updates : s \in New} <=> \E k \in Ready : n \in store[k].updates
    BY <1>3, <1>4
  <2>2. UNION {s.folder.updates : s \in New} = UpdatesOf(store, Ready)
    BY <2>1 DEF UpdatesOf
  <2> QED
    BY <1>1, <2>2 DEF Served
<1>6. Served \cap UpdatesOf(store, DOMAIN store) = {}
  <2>1. Split(Places, 1 .. Len(updates))
    BY Accounted
  <2> QED
    BY <2>1, PlacesOf DEF Split, Names
<1>7. RecordsAreSound /\ \A r \in records : \A n \in r.folder.updates : n \in 1 .. Len(updates)
  BY DEF RecordsInv
<1>8. ASSUME NEW r \in New
      PROVE  /\ r.key[1] = r.run /\ isReady(r.folder) /\ r.folder.updates # {}
             /\ \A n \in r.folder.updates : n \in 1 .. Len(updates) /\ Key(n) = r.key
             /\ r.folder.updates \subseteq UpdatesOf(store, DOMAIN store)
  <2>1. PICK k \in Ready : r.key = k /\ r.folder = store[k] /\ r.run = run
    BY <1>3
  <2>2. k \in DOMAIN store /\ isReady(store[k])
    BY DEF Ready
  <2>3. k[1] = run /\ store[k].updates # {}
        /\ \A n \in store[k].updates : n \in 1 .. Len(updates) /\ Key(n) = k
    BY <2>2 DEF StoreInv, CurrentRun
  <2>4. store[k].updates \subseteq UpdatesOf(store, DOMAIN store)
    BY <2>2 DEF UpdatesOf
  <2> QED
    BY <2>1, <2>2, <2>3, <2>4
<1>9. ASSUME NEW r \in New, NEW s \in New, r # s PROVE r.folder.updates \cap s.folder.updates = {}
  <2>1. r.key # s.key
    BY <1>3, <1>9
  <2> QED
    BY <1>8, <2>1
<1>10. ASSUME NEW r \in records, NEW s \in New PROVE r.folder.updates \cap s.folder.updates = {}
  <2>1. r.folder.updates \subseteq Served
    BY DEF Served
  <2> QED
    BY <1>6, <1>8, <2>1
<1>11. \A r \in records' :
         /\ r.key[1] = r.run /\ \A n \in r.folder.updates : n \in 1 .. Len(updates) /\ Key(n) = r.key
         /\ isReady(r.folder)
  BY <1>1, <1>7, <1>8 DEF RecordsAreSound
<1>12. \A r, s \in records' : s # r => s.folder.updates \cap r.folder.updates = {}
  <2> SUFFICES ASSUME NEW r \in records', NEW s \in records', s # r
               PROVE  s.folder.updates \cap r.folder.updates = {}
    OBVIOUS
  <2>1. CASE r \in records /\ s \in records
    BY <1>7, <2>1 DEF RecordsAreSound
  <2>2. CASE r \in records /\ s \in New
    BY <1>10, <2>2
  <2>3. CASE r \in New /\ s \in records
    BY <1>10, <2>3
  <2>4. CASE r \in New /\ s \in New
    BY <1>9, <2>4
  <2> QED
    BY <1>1, <2>1, <2>2, <2>3, <2>4
<1>13. RecordsAreSound'
  BY <1>11, <1>12 DEF RecordsAreSound, Key, isReady
<1>14. RecordsInv'
  BY <1>11, <1>13 DEF RecordsInv
<1> QED
  BY <1>5, <1>14

\* A request destroys the store, the end of a run after what is ready was handed out.
LEMMA RequestStep ==
  ASSUME IInv, setParameters \/ endOfRun \/ destroyStore
  PROVE  IInv'
<1> USE DEF IInv
<1> DEFINE R == IF processor.at = "endOfRun" THEN Ready ELSE {}
<1>1. /\ UNCHANGED <<phase, run, updates, queue, elementsDropped, unwanted, overflown, requests,
                     droppedCount, outdated, ignored>>
      /\ processor.at \in {"configuration", "endOfRun", "storeDestruction"}
      /\ processor' = After(processor.at) /\ store' = <<>>
      /\ destroyed' = destroyed \cup UpdatesOf(store, DOMAIN store \ R)
      /\ IF processor.at = "endOfRun" THEN Handled ELSE records' = records
  BY DEF setParameters, endOfRun, destroyStore, clearStore, runVars, queueVars, processorVars
<1>2. latestLumiSection' \in LumiSections \cup {0} /\ collate' \in BOOLEAN
  <2>1. latestLumiSection \in LumiSections \cup {0} /\ collate \in BOOLEAN /\ Collates \subseteq BOOLEAN
    BY DQMAssumption DEF Typed
  <2> QED
    BY <2>1 DEF setParameters, endOfRun, destroyStore, processorVars
<1>3. processor \in [at : Working \cup Serves, update : Nat, served : SUBSET Pending]
  BY DEF Typed
<1>4. /\ processor'.at \in Serves /\ processor'.at = Serving(processor'.served)
      /\ processor' \in [at : Working \cup Serves, update : Nat, served : SUBSET Pending]
  <2>1. processor' = [processor EXCEPT !.at = Serving(processor.served \ {processor.at}),
                                       !.served = @ \ {processor.at}]
    BY <1>1 DEF After
  <2>2. \A s : Serving(s) \in Serves
    BY DEF Serving, Serves
  <2> QED
    BY <1>3, <2>1, <2>2
<1>5. processor'.at \notin Working /\ processor'.at # "add" /\ processor.at # "add"
  BY <1>1, <1>4 DEF Working, Serves
<1>6. Typed'
  <2>1. DOMAIN store' = {}
    BY <1>1
  <2> QED
    BY <1>1, <1>2, <1>4, <2>1 DEF Typed
<1>7. RequestsInv'
  <2>1. requests.inProgress
    BY <1>1 DEF RequestsInv, Serves
  <2> QED
    BY <1>1, <1>4, <1>5, <2>1 DEF RequestsInv
<1>8. CurrentRun'
  <2>1. OnTheirWay' \subseteq OnTheirWay /\ DOMAIN store' = {}
    BY <1>1, <1>5, PlacesOf, PlacesAfter DEF OnTheirWay
  <2> QED
    BY <1>1, <2>1 DEF CurrentRun
<1>9. RunInv'
  BY <1>1, <1>5 DEF RunInv, Settled
<1>10. StoreInv'
  BY <1>1 DEF StoreInv
<1>11. RecordsInv' /\ Served' = Served \cup UpdatesOf(store, R) /\ R \in SUBSET DOMAIN store
  <2>1. CASE processor.at = "endOfRun"
    <3>1. RecordsInv' /\ Served' = Served \cup UpdatesOf(store, Ready)
      BY <1>1, <2>1, HandReady DEF PlacesInv
    <3> QED
      BY <2>1, <3>1 DEF Ready
  <2>2. CASE processor.at # "endOfRun"
    <3>1. \A m \in 1 .. Len(updates) : m \in 1 .. Len(updates') /\ Key(m)' = Key(m)
      BY <1>1 DEF Key
    <3>2. RecordsInv'
      BY <1>1, <2>2, <3>1, RecordsKept
    <3>3. Served' = Served
      BY <1>1, <2>2 DEF Served
    <3> QED
      BY <2>2, <3>2, <3>3 DEF UpdatesOf
  <2> QED
    BY <2>1, <2>2
<1> HIDE DEF R
<1>12. PlacesInv'
  <2> DEFINE X == UpdatesOf(store, R)
             Y == UpdatesOf(store, DOMAIN store \ R)
  <2>1. Split(Places, 1 .. Len(updates)) /\ droppedCount + elementsDropped = Cardinality(GivenUp)
    BY Accounted DEF PlacesInv
  <2>2. Y = Places["stored"] \ X /\ X \subseteq Places["stored"]
    BY <1>11, FoldersApart, PlacesOf
  <2>3. UpdatesOf(store, DOMAIN store)' = {}
    BY <1>1 DEF UpdatesOf
  <2>4. destroyed' = destroyed \cup Y /\ Served' = Served \cup X
    BY <1>1, <1>11 DEF R
  <2> HIDE DEF X, Y
  <2>5. PICK p : p = [Places EXCEPT !["stored"] = @ \ X, !["served"] = @ \cup X]
    OBVIOUS
  <2>6. /\ p["stored"] = Places["stored"] \ X /\ p["served"] = Places["served"] \cup X
        /\ \A x \in Names \ {"stored", "served"} : p[x] = Places[x]
    BY <2>5 DEF Places, Names
  <2>7. Goes(Places, p, "stored", "served", X)
    BY <2>2, <2>6 DEF Goes, Names
  <2>8. Split(p, 1 .. Len(updates))
    BY <2>1, <2>7, MovePlace
  <2>9. Goes(p, Places', "stored", "destroyed", Y)
    <3>1. /\ p["queued"] = ToSet(queue) /\ p["inHand"] = {} /\ p["stored"] = Y
          /\ p["served"] = Served \cup X /\ p["unwanted"] = unwanted /\ p["overflown"] = overflown
          /\ p["outdated"] = outdated /\ p["destroyed"] = destroyed /\ p["ignored"] = ignored
      BY <1>5, <2>2, <2>6, PlacesOf DEF Names
    <3>2. /\ Places'["queued"] = ToSet(queue) /\ Places'["inHand"] = {} /\ Places'["stored"] = {}
          /\ Places'["served"] = Served \cup X /\ Places'["unwanted"] = unwanted
          /\ Places'["overflown"] = overflown /\ Places'["outdated"] = outdated
          /\ Places'["destroyed"] = destroyed \cup Y /\ Places'["ignored"] = ignored
      BY <1>1, <1>5, <2>3, <2>4, PlacesAfter
    <3> QED
      BY <3>1, <3>2 DEF Goes, Names
  <2>10. Split(Places', 1 .. Len(updates))
    BY <2>8, <2>9, MovePlace
  <2>11. Split(Places, 1 .. Len(updates))'
    BY <1>1, <2>10 DEF Split
  <2>12. (droppedCount + elementsDropped = Cardinality(GivenUp))'
    BY <1>1, <2>1 DEF GivenUp
  <2>13. UpdatesAccountedFor'
    BY <2>11, <2>12, Accounted, PTL
  <2> QED
    BY <1>1, <2>13 DEF PlacesInv
<1> QED
  BY <1>6, <1>7, <1>8, <1>9, <1>10, <1>11, <1>12

\* A folder thread hands out what is ready and keeps the rest.
LEMMA FolderThreadStep ==
  ASSUME IInv, NEW t, FolderThread(t)
  PROVE  IInv'
<1> USE DEF IInv
<1>1. UNCHANGED <<phase, run, updates, queue, elementsDropped, unwanted, overflown, requests, processor,
                  latestLumiSection, collate, droppedCount, outdated, destroyed, ignored>>
  BY DEF FolderThread, processCompletedTopLevelFolders, doProcessCompletedTopLevelFolders,
         runVars, queueVars, processorVars, storeVars
<1>2. RequestsInv'
  BY <1>1 DEF RequestsInv
<1>3. CASE Handled /\ store' = Kept
  <2>1. Ready \in SUBSET DOMAIN store
    BY DEF Ready
  <2>2. DOMAIN store' = DOMAIN store \ Ready /\ \A k \in DOMAIN store' : store'[k] = store[k]
    BY <1>3 DEF Kept
  <2>3. Typed' /\ StoreInv'
    BY <1>1, <2>2 DEF Typed, StoreInv, Key
  <2>4. CurrentRun'
    BY <1>1, <2>2, PlacesOf, PlacesAfter DEF CurrentRun, OnTheirWay
  <2>5. RunInv'
    <3>1. store = <<>> => store' = <<>>
      <4>1. ASSUME store = <<>> PROVE Kept = <<>>
        BY <4>1 DEF Kept
      <4> QED
        BY <1>3, <4>1
    <3> QED
      BY <1>1, <3>1 DEF RunInv, Settled
  <2>6. RecordsInv' /\ Served' = Served \cup UpdatesOf(store, Ready)
    BY <1>1, <1>3, HandReady DEF PlacesInv
  <2>7. PlacesInv'
    <3> DEFINE X == UpdatesOf(store, Ready)
    <3>1. UpdatesOf(store, DOMAIN store)' = UpdatesOf(store, DOMAIN store) \ X
          /\ X \subseteq UpdatesOf(store, DOMAIN store)
      <4>1. UpdatesOf(store, DOMAIN store)' = UpdatesOf(store, DOMAIN store \ Ready)
        BY <2>2 DEF UpdatesOf
      <4> QED
        BY <2>1, <4>1, FoldersApart
    <3>2. Goes(Places, Places', "stored", "served", X)
      BY <1>1, <2>6, <3>1, PlacesOf, PlacesAfter DEF Goes, Names
    <3>3. droppedCount' + elementsDropped' = Cardinality(GivenUp')
      BY <1>1, Accounted DEF GivenUp, PlacesInv
    <3>4. Once(queue')
      BY <1>1 DEF PlacesInv, Once
    <3> HIDE DEF X
    <3> QED
      BY <1>1, <3>2, <3>3, <3>4, PlacesGo
  <2> QED
    BY <1>2, <2>3, <2>4, <2>5, <2>6, <2>7
<1>4. CASE UNCHANGED <<records, store>>
  <2>1. Typed' /\ StoreInv' /\ RunInv'
    BY <1>1, <1>4 DEF Typed, StoreInv, Key, RunInv, Settled
  <2>2. CurrentRun'
    BY <1>1, <1>4, PlacesOf, PlacesAfter DEF CurrentRun, OnTheirWay
  <2>3. RecordsInv'
    <3>1. \A m \in 1 .. Len(updates) : m \in 1 .. Len(updates') /\ Key(m)' = Key(m)
      BY <1>1 DEF Key
    <3> QED
      BY <1>4, <3>1, RecordsKept
  <2>4. PlacesInv'
    <3>1. UpdatesOf(store, DOMAIN store)' = UpdatesOf(store, DOMAIN store)
      BY <1>4 DEF UpdatesOf
    <3> QED
      BY <1>1, <1>4, <3>1, PlacesKept
  <2> QED
    BY <1>2, <2>1, <2>2, <2>3, <2>4
<1> QED
  BY <1>3, <1>4 DEF FolderThread, processCompletedTopLevelFolders, doProcessCompletedTopLevelFolders, storeVars

\* The ready time of a folder passes.
LEMMA ReadyTimeStep ==
  ASSUME IInv, NEW key \in DOMAIN store, readyTimePasses(key)
  PROVE  IInv'
<1> USE DEF IInv
<1>1. /\ UNCHANGED <<phase, run, updates, queue, elementsDropped, unwanted, overflown, requests, processor,
                     latestLumiSection, collate, droppedCount, outdated, destroyed, ignored, records>>
      /\ store' = [store EXCEPT ![key].due = TRUE]
  BY DEF readyTimePasses, runVars, queueVars, processorVars
<1>2. /\ DOMAIN store' = DOMAIN store
      /\ \A k \in DOMAIN store : store'[k].updates = store[k].updates /\ store'[k] \in Folders
  <2>1. \A k \in DOMAIN store : store[k] \in Folders
    BY DEF Typed
  <2>2. \A k \in DOMAIN store : store'[k] = IF k = key THEN [store[key] EXCEPT !.due = TRUE] ELSE store[k]
    BY <1>1
  <2> QED
    BY <1>1, <2>1, <2>2 DEF Folders
<1>3. Typed' /\ RequestsInv' /\ StoreInv'
  BY <1>1, <1>2 DEF Typed, RequestsInv, StoreInv, Key
<1>4. CurrentRun'
  BY <1>1, <1>2, PlacesOf, PlacesAfter DEF CurrentRun, OnTheirWay
<1>5. RunInv'
  <2>1. store # <<>>
    OBVIOUS
  <2> QED
    BY <1>1, <2>1 DEF RunInv, Settled
<1>6. RecordsInv'
  <2>1. \A m \in 1 .. Len(updates) : m \in 1 .. Len(updates') /\ Key(m)' = Key(m)
    BY <1>1 DEF Key
  <2> QED
    BY <1>1, <2>1, RecordsKept
<1>7. PlacesInv'
  <2>1. UpdatesOf(store, DOMAIN store)' = UpdatesOf(store, DOMAIN store)
    BY <1>2 DEF UpdatesOf
  <2> QED
    BY <1>1, <2>1, PlacesKept
<1> QED
  BY <1>3, <1>4, <1>5, <1>6, <1>7

\* A step that changes nothing.
LEMMA StutterStep ==
  ASSUME IInv, UNCHANGED vars
  PROVE  IInv'
<1> USE DEF IInv
<1>1. UNCHANGED <<phase, run, updates, queue, elementsDropped, unwanted, overflown, requests, processor, store,
                  latestLumiSection, collate, droppedCount, outdated, destroyed, ignored, records>>
  BY DEF vars
<1>2. Typed' /\ RequestsInv' /\ StoreInv' /\ RunInv'
  BY <1>1 DEF Typed, RequestsInv, StoreInv, Key, RunInv, Settled
<1>3. CurrentRun'
  BY <1>1, PlacesOf, PlacesAfter DEF CurrentRun, OnTheirWay
<1>4. RecordsInv'
  <2>1. \A m \in 1 .. Len(updates) : m \in 1 .. Len(updates') /\ Key(m)' = Key(m)
    BY <1>1 DEF Key
  <2> QED
    BY <1>1, <2>1, RecordsKept
<1>5. PlacesInv'
  <2>1. UpdatesOf(store, DOMAIN store)' = UpdatesOf(store, DOMAIN store)
    BY <1>1 DEF UpdatesOf
  <2> QED
    BY <1>1, <2>1, PlacesKept
<1> QED
  BY <1>2, <1>3, <1>4, <1>5

-----------------------------------------------------------------------------
(* The theorems.                                                           *)

\* The inductive invariant holds in the beginning.
LEMMA InitIInv ==
  Init => IInv
<1> SUFFICES ASSUME Init PROVE IInv
  OBVIOUS
<1>1. /\ phase = "stopped" /\ run = 0 /\ updates = <<>> /\ queue = <<>> /\ elementsDropped = 0
      /\ requests = [pending |-> {}, inProgress |-> FALSE]
      /\ processor = Idle /\ latestLumiSection = 0 /\ collate \in Collates
      /\ store = <<>> /\ droppedCount = 0
      /\ unwanted = {} /\ overflown = {} /\ outdated = {} /\ destroyed = {} /\ ignored = {}
      /\ records = {}
  BY DEF Init
<1>2. /\ MaxRuns \in Nat /\ QueueCapacity \in Nat /\ Collates \subseteq BOOLEAN
      /\ DOMAIN store = {} /\ Len(queue) = 0 /\ Len(updates) = 0 /\ 1 .. Len(updates) = {}
  BY <1>1, DQMAssumption
<1>3. /\ processor.at = "dequeue" /\ processor.served = {}
      /\ processor \in [at : Working \cup Serves, update : Nat, served : SUBSET Pending]
  BY <1>1 DEF Idle, Working
<1>4. Typed
  BY <1>1, <1>2, <1>3 DEF Typed
<1>5. RequestsInv /\ RunInv /\ StoreInv
  BY <1>1, <1>2, <1>3 DEF RequestsInv, RunInv, StoreInv, Settled, Serves
<1>6. ToSet(queue) = {} /\ UpdatesOf(store, DOMAIN store) = {} /\ Served = {}
  BY <1>1, <1>2 DEF ToSet, UpdatesOf, Served
<1>7. CurrentRun
  BY <1>2, <1>3, <1>6, PlacesOf DEF CurrentRun, OnTheirWay
<1>8. RecordsInv
  BY <1>1 DEF RecordsInv, RecordsAreSound
<1>9. PlacesInv
  <2>1. \A x \in Names : Places[x] = {}
    BY <1>1, <1>3, <1>6, PlacesOf DEF Names
  <2>2. Split(Places, 1 .. Len(updates))
    BY <1>2, <2>1 DEF Split
  <2>3. GivenUp = {} /\ Cardinality({}) = 0
    BY <1>1, FS_EmptySet DEF GivenUp
  <2> QED
    BY <1>1, <1>2, <2>2, <2>3, Accounted DEF PlacesInv
<1> QED
  BY <1>4, <1>5, <1>7, <1>8, <1>9 DEF IInv

\* Each step keeps the inductive invariant.
LEMMA NextIInv ==
  ASSUME IInv, [Next]_vars
  PROVE  IInv'
<1>1. CASE start \/ enterRunning \/ haltDone
  BY <1>1, PhaseStep
<1>2. CASE stop \/ finish \/ halt
  BY <1>2, LeaveStep
<1>3. CASE \E ls \in LumiSections, tags \in SUBSET Consumers : addEventToRelevantQueues(ls, tags)
  BY <1>3, AddEventStep
<1>4. CASE dequeue
  BY <1>4, DequeueStep
<1>5. CASE dequeueTimesOut \/ getRequests \/ requestsDone
  BY <1>5, IdleStep
<1>6. CASE addDQMEvent
  BY <1>6, AddStep
<1>7. CASE setParameters \/ endOfRun \/ destroyStore
  BY <1>7, RequestStep
<1>8. CASE \E t \in DOMAIN threads : FolderThread(t)
  BY <1>8, FolderThreadStep
<1>9. CASE \E key \in DOMAIN store : readyTimePasses(key)
  BY <1>9, ReadyTimeStep
<1>10. CASE UNCHANGED vars
  BY <1>10, StutterStep
<1> QED
  BY <1>1, <1>2, <1>3, <1>4, <1>5, <1>6, <1>7, <1>8, <1>9, <1>10
     DEF Next, StateMachine, DQMEventProcessor

\* The inductive invariant holds in every reachable state.
THEOREM Invariant == Spec => []IInv
<1>1. Init => IInv
  BY InitIInv
<1>2. IInv /\ [Next]_vars => IInv'
  BY NextIInv
<1> QED
  BY <1>1, <1>2, PTL DEF Spec

\* The types of the state; a folder is stored under the key of all its updates, which is
\* of a run that has begun (DQMEventStore).
THEOREM Typing == Spec => []TypeOK
<1>1. IInv => TypeOK
  <2> SUFFICES ASSUME IInv PROVE TypeOK
    OBVIOUS
  <2>1. requests.pending \subseteq Pending /\ requests.inProgress \in BOOLEAN
    BY DEF IInv, Typed
  <2>2. \A k \in DOMAIN store : /\ k[1] \in 1 .. run /\ k[2] \in LumiSections
                                /\ store[k].updates # {} /\ \A n \in store[k].updates : Key(n) = k
    BY DEF IInv, StoreInv
  <2> QED
    BY <2>1, <2>2 DEF IInv, Typed, TypeOK
<1> QED
  BY <1>1, Invariant, PTL

\* Each update sent is in one place, and those dropped before the store, and no others, are
\* counted as dropped.
THEOREM UpdatesStayAccounted == Spec => []UpdatesAccountedFor
<1>1. IInv => UpdatesAccountedFor
  BY DEF IInv, PlacesInv
<1> QED
  BY <1>1, Invariant, PTL

\* A record is of the run it is handed out in and of one lumi section, and no update is in
\* two records.
THEOREM RecordsStaySound == Spec => []RecordsAreSound
<1>1. IInv => RecordsAreSound
  BY DEF IInv, RecordsInv
<1> QED
  BY <1>1, Invariant, PTL

\* No update is lost uncounted or mixed with those of another run, lumi section or record.
THEOREM CollationSound == Spec => []CollationIsSound
BY UpdatesStayAccounted, RecordsStaySound, PTL DEF CollationIsSound
=============================================================================
