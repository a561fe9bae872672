------------------------ MODULE FragmentAssemblyProofs ------------------------
(***************************************************************************)
(* Proofs about FragmentAssembly, for any traffic, any number of fragments *)
(* and faults, and any memory.                                             *)
(*                                                                         *)
(* The inductive invariant IInv says of each message under way and of each *)
(* chain what the flags of the chain only hint at: an incomplete chain     *)
(* with no bit set has headers in order, and one whose fragments are as    *)
(* they were sent has no bit set, however they came.  A chain that reaches *)
(* the number of fragments it expects is then a whole event or says what   *)
(* is wrong with it.  Each fragment has one place, told apart by event,    *)
(* part and copy, which damage does not change.                            *)
(***************************************************************************)
EXTENDS FragmentAssembly, SequenceTheorems, FiniteSetTheorems, WellFoundedInduction, TLAPS

-----------------------------------------------------------------------------
(* The inductive invariant.                                                *)

EarlyBits == Bits \ {"WRONG_CHECKSUM", "EXTERNALLY_REQUESTED"}
AllCodes == Codes \cup {"INVALID"}
Chains ==
  [frames : Seq(Fragments), code : AllCodes, expected : Nat, complete : BOOLEAN,
   bits : SUBSET Bits, windowOver : BOOLEAN]

\* What tells two fragments apart, also when one of them gets damaged.
Id(f) == <<f.event, f.part, f.copy>>
IdsOf(fs) == {Id(fs[i]) : i \in DOMAIN fs}
Distinct(fs) == \A i, j \in DOMAIN fs : Id(fs[i]) = Id(fs[j]) => i = j
OneEvent(fs) == \A i \in DOMAIN fs : fs[i].event = fs[1].event

\* Nothing is wrong with the headers of the fragments of a chain ...
InOrder(fs, expected) ==
  \A i \in DOMAIN fs : /\ Valid(fs[i]) /\ fs[i].total = expected
                       /\ \A j \in DOMAIN fs : i < j => fs[i].index < fs[j].index
\* ... or with the fragments, whatever their order.
Undamaged(fs, code) ==
  \A i \in DOMAIN fs : /\ Valid(fs[i]) /\ fs[i].code = code /\ fs[i].index = fs[i].part
                       /\ \A j \in DOMAIN fs : /\ fs[i].total = fs[j].total
                                               /\ i # j => fs[i].index # fs[j].index

\* The bits of an incomplete chain say what is wrong with its headers, and nothing
\* but damaged fragments or duplicates set them.
GrowingIf(sound, ch) ==
  /\ ch \in Chains /\ ch.frames # <<>> /\ ~ch.complete
  /\ "INCOMPLETE_MESSAGE" \in ch.bits /\ ch.bits \subseteq EarlyBits
  /\ OneEvent(ch.frames)
  /\ sound /\ ch.bits = {"INCOMPLETE_MESSAGE"} => InOrder(ch.frames, ch.expected)
  /\ Undamaged(ch.frames, ch.code) /\ ch.code # "INVALID" =>
       ch.bits = {"INCOMPLETE_MESSAGE"} /\ ch.expected = ch.frames[1].total
Growing(ch) == GrowingIf(TRUE, ch)

\* An unfinished chain waits for fragments or cannot become complete.
Unfinished(ch) ==
  /\ Growing(ch)
  /\ ~(Len(ch.frames) = ch.expected /\ ch.bits \cap NeverCompletes = {})
  /\ ch.code = "INVALID" => "CORRUPT_INITIAL_HEADER" \in ch.bits

Finished(ch) ==
  /\ ch \in Chains /\ ch.frames # <<>> /\ ch.complete
  /\ ch.bits = {} => /\ InOrder(ch.frames, Len(ch.frames)) /\ OneEvent(ch.frames)
                     /\ HasChecksum(ch.code) => Checks(ch.frames)
  /\ Whole(ch) => ch.bits = {}

\* Messages under way.
Sendable(m) ==
  /\ m \in Seq(Fragments) /\ m # <<>>
  /\ OneEvent(m)
  /\ \A i \in DOMAIN m : /\ m[i].copy = m[1].copy /\ m[i].copy <= faults
                         /\ \A j \in DOMAIN m : i < j => m[i].part < m[j].part

NetworkInv ==
  /\ faults \in 0 .. MaxFaults
  /\ \A m \in network : /\ Sendable(m)
                        /\ \A n \in network : m # n => IdsOf(m) \cap IdsOf(n) = {}
                        /\ \A f \in received : Id(f) \notin IdsOf(m)
  /\ received \subseteq Fragments /\ \A f \in received : f.copy <= faults

StoreInv ==
  \A k \in DOMAIN store : Unfinished(store[k]) /\ fragmentKey(store[k]) = k

\* Chains that have left.
LeftInv ==
  /\ \A h \in handed :
       /\ h.to = Destination(h.chain) /\ h.chain \in Chains
       /\ Finished(h.chain) \/ (~h.chain.complete /\ ~Whole(h.chain))
  /\ \A ch \in lost \cup cleared : ch \in Chains /\ ~Whole(ch)

\* Fragments are where they are, once, duplicates and damaged ones told apart.
Spread(holders) ==
  \A h \in holders : /\ Distinct(h.chain.frames) /\ h.chain.frames # <<>>
                     /\ h.chain.frames \in Seq(Fragments)
                     /\ \A g \in holders : g # h => IdsOf(g.chain.frames) \cap IdsOf(h.chain.frames) = {}
Content(holders) == UNION {FragmentsOf(h.chain) : h \in holders}
PlacesInv ==
  /\ received = Content(Holders)
  /\ Spread(Holders)
  /\ memoryUsed = Cardinality(Slots(In("store", Stored))) /\ IsFiniteSet(Slots(In("store", Stored)))

BooksInv ==
  /\ monitor \in [Senders -> [Counters -> Nat]]
  /\ IsFiniteSet(handed)
  /\ DiscardsAddUp

IInv == NetworkInv /\ StoreInv /\ LeftInv /\ PlacesInv /\ BooksInv

-----------------------------------------------------------------------------
(* Numbers and sequences.                                                  *)

Less == {p \in Nat \X Nat : p[1] < p[2]}

\* A set of numbers has a smallest one: the numbers are well-founded.
LEMMA LeastNumber ==
  ASSUME NEW S \in SUBSET Nat, S # {}
  PROVE  \E n \in S : \A m \in S : n <= m
<1>1. IsWellFoundedOn(Less, Nat)
  BY NatLessThanWellFounded DEF OpToRel, Less
<1>2. PICK n \in S : \A m \in S : ~(<<m, n>> \in Less)
  BY <1>1, WFMin
<1>3. ASSUME NEW m \in S PROVE n <= m
  <2>1. m \in Nat /\ n \in Nat /\ ~(<<m, n>> \in Less)
    BY <1>2
  <2>2. ~(m < n)
    BY <2>1 DEF Less
  <2> QED
    BY <2>1, <2>2
<1> QED
  BY <1>3

\* What holds of 0, and of n + 1 with n, holds of every number.
LEMMA Induction ==
  ASSUME NEW S, 0 \in S, \A n \in Nat : n \in S => n + 1 \in S
  PROVE  Nat \subseteq S
<1> SUFFICES ASSUME Nat \ S # {} PROVE FALSE
  OBVIOUS
<1>1. PICK n \in Nat \ S : \A m \in Nat \ S : n <= m
  BY LeastNumber
<1>2. n # 0 /\ n - 1 \in Nat /\ n - 1 \notin Nat \ S
  BY <1>1
<1>3. (n - 1) + 1 \in S
  BY <1>2
<1> QED
  BY <1>1, <1>3

\* The smallest of a set, as the folds choose it.
LEMMA Smallest ==
  ASSUME NEW S \in SUBSET Nat, S # {}
  PROVE  Min(S) \in S /\ \A m \in S : Min(S) <= m
BY LeastNumber DEF Min

\* The largest of a bounded set.
LEMMA Largest ==
  ASSUME NEW S \in SUBSET Nat, S # {}, NEW b \in Nat, \A m \in S : m <= b
  PROVE  Max(S) \in S /\ \A m \in S : Max(S) >= m
<1> DEFINE T == {b - m : m \in S}
<1>1. T \in SUBSET Nat /\ T # {}
  <2>1. \A m \in S : b - m \in Nat
    OBVIOUS
  <2> QED
    BY <2>1
<1>2. PICK n \in T : \A m \in T : n <= m
  BY <1>1, LeastNumber
<1>3. PICK k \in S : n = b - k
  BY <1>2
<1>4. \A m \in S : k >= m
  <2> TAKE m \in S
  <2>1. b - m \in T
    OBVIOUS
  <2>2. n <= b - m
    BY <1>2, <2>1
  <2> HIDE DEF T
  <2> QED
    BY <1>3, <2>2
<1> QED
  BY <1>4 DEF Max

\* A sequence with one element more, and where each element is then.
LEMMA InsertAtProperties ==
  ASSUME NEW S, NEW s \in Seq(S), NEW e \in S, NEW n \in 1 .. Len(s) + 1
  PROVE  /\ InsertAt(s, n, e) \in Seq(S)
         /\ Len(InsertAt(s, n, e)) = Len(s) + 1
         /\ \A i \in 1 .. Len(s) + 1 :
              InsertAt(s, n, e)[i] = IF i < n THEN s[i] ELSE IF i = n THEN e ELSE s[i - 1]
<1> DEFINE a == SubSeq(s, 1, n - 1)
           b == SubSeq(s, n, Len(s))
<1>1. Len(s) \in Nat /\ n \in Nat /\ \A i \in 1 .. Len(s) : s[i] \in S
  OBVIOUS
<1>2. a \in Seq(S) /\ Len(a) = n - 1 /\ \A i \in 1 .. n - 1 : a[i] = s[i]
  <2>1. \A i \in 1 .. n - 1 : s[i] \in S
    BY <1>1
  <2>2. /\ a \in Seq(S) /\ Len(a) = IF 1 <= n - 1 THEN n - 1 - 1 + 1 ELSE 0
        /\ \A i \in 1 .. n - 1 - 1 + 1 : a[i] = s[1 + i - 1]
    BY <1>1, <2>1, SubSeqProperties
  <2> HIDE DEF a
  <2>3. \A i \in 1 .. n - 1 : a[i] = s[i]
    BY <1>1, <2>2
  <2> QED
    BY <1>1, <2>2, <2>3
<1>3. b \in Seq(S) /\ Len(b) = Len(s) - n + 1 /\ \A i \in 1 .. Len(s) - n + 1 : b[i] = s[n + i - 1]
  <2>1. \A i \in n .. Len(s) : s[i] \in S
    BY <1>1
  <2>2. /\ b \in Seq(S) /\ Len(b) = IF n <= Len(s) THEN Len(s) - n + 1 ELSE 0
        /\ \A i \in 1 .. Len(s) - n + 1 : b[i] = s[n + i - 1]
    BY <1>1, <2>1, SubSeqProperties
  <2> HIDE DEF b
  <2> QED
    BY <1>1, <2>2
<1>4. InsertAt(s, n, e) = (a \o <<e>>) \o b
  BY DEF InsertAt
<1> HIDE DEF a, b
<1>5. <<e>> \in Seq(S) /\ Len(<<e>>) = 1 /\ <<e>>[1] = e
  OBVIOUS
<1> DEFINE u == <<e>>
<1> HIDE DEF u
<1>6. /\ a \o u \in Seq(S) /\ Len(a \o u) = n
      /\ \A i \in 1 .. n : (a \o u)[i] = IF i < n THEN s[i] ELSE e
  <2>1. /\ a \o u \in Seq(S) /\ Len(a \o u) = Len(a) + Len(u)
        /\ \A i \in 1 .. Len(a) + Len(u) : (a \o u)[i] = IF i <= Len(a) THEN a[i] ELSE u[i - Len(a)]
    BY <1>2, <1>5, ConcatProperties DEF u
  <2>2. Len(u) = 1 /\ u[1] = e
    BY <1>5 DEF u
  <2> QED
    BY <1>1, <1>2, <2>1, <2>2
<1> DEFINE c == a \o u
<1>7. c \in Seq(S) /\ Len(c) = n /\ \A i \in 1 .. n : c[i] = IF i < n THEN s[i] ELSE e
  BY <1>6
<1>8. InsertAt(s, n, e) = c \o b
  BY <1>4 DEF u
<1> HIDE DEF c
<1>9. /\ c \o b \in Seq(S) /\ Len(c \o b) = Len(c) + Len(b)
      /\ \A i \in 1 .. Len(c) + Len(b) : (c \o b)[i] = IF i <= Len(c) THEN c[i] ELSE b[i - Len(c)]
  BY <1>3, <1>7, ConcatProperties
<1>10. \A i \in 1 .. Len(s) + 1 :
         (c \o b)[i] = IF i < n THEN s[i] ELSE IF i = n THEN e ELSE s[i - 1]
  <2> TAKE i \in 1 .. Len(s) + 1
  <2>1. CASE i <= n
    BY <1>1, <1>3, <1>7, <1>9, <2>1
  <2>2. CASE ~(i <= n)
    <3>1. (c \o b)[i] = b[i - n] /\ i - n \in 1 .. Len(s) - n + 1
      BY <1>1, <1>3, <1>7, <1>9, <2>2
    <3>2. b[i - n] = s[n + (i - n) - 1] /\ n + (i - n) - 1 = i - 1
      BY <1>1, <1>3, <3>1
    <3>3. ~(i < n) /\ i # n
      BY <1>1, <2>2
    <3> QED
      BY <3>1, <3>2, <3>3
  <2> QED
    BY <2>1, <2>2
<1> QED
  BY <1>1, <1>3, <1>7, <1>8, <1>9, <1>10

-----------------------------------------------------------------------------
(* Fragments in order.                                                     *)

\* The fragments of a chain and their positions.
LEMMA FramesTyped ==
  ASSUME NEW fs \in Seq(Fragments)
  PROVE  /\ Len(fs) \in Nat /\ DOMAIN fs = 1 .. Len(fs)
         /\ \A i \in DOMAIN fs : fs[i] \in Fragments /\ fs[i].index \in Nat /\ fs[i].total \in Nat
         /\ fs # <<>> => 1 \in DOMAIN fs /\ Len(fs) >= 1
<1>1. Len(fs) \in Nat /\ DOMAIN fs = 1 .. Len(fs) /\ \A i \in 1 .. Len(fs) : fs[i] \in Fragments
  OBVIOUS
<1>2. \A f \in Fragments : f.index \in Nat /\ f.total \in Nat
  BY DEF Fragments
<1>3. fs # <<>> => Len(fs) >= 1
  BY EmptySeq
<1> QED
  BY <1>1, <1>2, <1>3

\* Indices that grow from each fragment to the next grow by one at least each time.
LEMMA Gap ==
  ASSUME NEW fs \in Seq(Fragments),
         \A i \in DOMAIN fs : i + 1 \in DOMAIN fs => fs[i].index < fs[i + 1].index
  PROVE  \A i, j \in DOMAIN fs : i <= j => fs[j].index >= fs[i].index + (j - i)
<1> DEFINE Holds == {d \in Nat : \A i \in DOMAIN fs :
                       i + d \in DOMAIN fs => fs[i + d].index >= fs[i].index + d}
<1>0. Len(fs) \in Nat /\ DOMAIN fs = 1 .. Len(fs) /\ \A i \in DOMAIN fs : fs[i].index \in Nat
  BY FramesTyped
<1>1. 0 \in Holds
  BY <1>0
<1>2. ASSUME NEW d \in Nat, d \in Holds PROVE d + 1 \in Holds
  <2> SUFFICES ASSUME NEW i \in DOMAIN fs, i + (d + 1) \in DOMAIN fs
               PROVE  fs[i + (d + 1)].index >= fs[i].index + (d + 1)
    OBVIOUS
  <2>1. i + d \in DOMAIN fs /\ i + (d + 1) = (i + d) + 1
    BY <1>0
  <2>2. fs[i + d].index >= fs[i].index + d
    BY <1>2, <2>1
  <2>3. fs[i + d].index < fs[(i + d) + 1].index
    BY <2>1
  <2> QED
    BY <1>0, <2>1, <2>2, <2>3
<1> HIDE DEF Holds
<1>3. Nat \subseteq Holds
  BY <1>1, <1>2, Induction
<1> SUFFICES ASSUME NEW i \in DOMAIN fs, NEW j \in DOMAIN fs, i <= j
             PROVE  fs[j].index >= fs[i].index + (j - i)
  OBVIOUS
<1>4. j - i \in Holds /\ i + (j - i) = j
  BY <1>0, <1>3
<1> QED
  BY <1>4 DEF Holds

\* Indices that grow from each fragment to the next grow over any distance.
LEMMA Increasing ==
  ASSUME NEW fs \in Seq(Fragments),
         \A i \in DOMAIN fs : i + 1 \in DOMAIN fs => fs[i].index < fs[i + 1].index
  PROVE  \A i, j \in DOMAIN fs : i < j => fs[i].index < fs[j].index
<1> SUFFICES ASSUME NEW i \in DOMAIN fs, NEW j \in DOMAIN fs, i < j
             PROVE  fs[i].index < fs[j].index
  OBVIOUS
<1>1. Len(fs) \in Nat /\ DOMAIN fs = 1 .. Len(fs) /\ \A n \in DOMAIN fs : fs[n].index \in Nat
  BY FramesTyped
<1>2. \A m, n \in DOMAIN fs : m <= n => fs[n].index >= fs[m].index + (n - m)
  BY Gap
<1>3. fs[j].index >= fs[i].index + (j - i)
  BY <1>1, <1>2
<1> QED
  BY <1>1, <1>3

\* As many fragments in order as each says there are: they are numbered from 0.
LEMMA InOrderNumbered ==
  ASSUME NEW fs \in Seq(Fragments), InOrder(fs, Len(fs))
  PROVE  \A i \in DOMAIN fs : fs[i].index = i - 1 /\ fs[i].total = Len(fs)
<1>1. /\ Len(fs) \in Nat /\ DOMAIN fs = 1 .. Len(fs)
      /\ \A i \in DOMAIN fs : fs[i].index \in Nat
  BY FramesTyped
<1>2. \A i \in DOMAIN fs : i + 1 \in DOMAIN fs => fs[i].index < fs[i + 1].index
  BY <1>1 DEF InOrder
<1>3. \A i, j \in DOMAIN fs : i <= j => fs[j].index >= fs[i].index + (j - i)
  BY <1>2, Gap
<1> SUFFICES ASSUME NEW i \in DOMAIN fs PROVE fs[i].index = i - 1 /\ fs[i].total = Len(fs)
  OBVIOUS
<1>4. 1 \in DOMAIN fs /\ Len(fs) \in DOMAIN fs /\ 1 <= i /\ i <= Len(fs)
  BY <1>1
<1>5. fs[i].index >= fs[1].index + (i - 1) /\ fs[Len(fs)].index >= fs[i].index + (Len(fs) - i)
  BY <1>3, <1>4
<1>6. fs[Len(fs)].index < Len(fs) /\ fs[i].total = Len(fs)
  BY <1>4 DEF InOrder, Valid
<1>7. fs[i].index \in Nat /\ fs[1].index \in Nat /\ fs[Len(fs)].index \in Nat /\ i \in Nat
  BY <1>1, <1>4
<1>8. fs[i].index = i - 1
  BY <1>1, <1>4, <1>5, <1>6, <1>7
<1> QED
  BY <1>6, <1>8

\* The fragments of a whole event, in whatever order, are not damaged.
LEMMA WholeIsUndamaged ==
  ASSUME NEW ch \in Chains, ch.frames # <<>>, Whole(ch)
  PROVE  /\ Undamaged(ch.frames, ch.code) /\ ch.code # "INVALID"
         /\ ch.frames[1].total = Len(ch.frames)
<1> DEFINE fs == ch.frames
           n == Len(fs)
           part == [i \in 1 .. n |-> fs[i].part]
<1>1. fs \in Seq(Fragments)
  BY DEF Chains
<1>2. n \in Nat /\ DOMAIN fs = 1 .. n /\ n >= 1 /\ 1 \in DOMAIN fs
  BY <1>1, FramesTyped
<1>3. FragmentsOf(ch) = {fs[i] : i \in 1 .. n}
  BY <1>2 DEF FragmentsOf, ToSet
<1>4. \A i \in 1 .. n : /\ fs[i].intact /\ fs[i].index = fs[i].part /\ fs[i].event = fs[1].event
                        /\ fs[i].total = Parts(fs[i].event) /\ fs[i].code = ch.code
                        /\ fs[i].code # "INVALID"
  BY <1>3 DEF Whole
<1>5. n = Parts(fs[1].event) /\ {f.part : f \in FragmentsOf(ch)} = 0 .. n - 1
  BY DEF Whole
<1>6. \A i \in 1 .. n : fs[i].total = n
  BY <1>2, <1>4, <1>5
<1>7. {fs[i].part : i \in 1 .. n} = 0 .. n - 1
  BY <1>3, <1>5
<1> HIDE DEF fs, n
<1>8. \A i, j \in 1 .. n : fs[i].part = fs[j].part => i = j
  <2>1. part \in Surjection(1 .. n, 0 .. n - 1)
    <3>1. \A i \in 1 .. n : fs[i].part \in 0 .. n - 1
      BY <1>7
    <3>2. \A p \in 0 .. n - 1 : \E i \in 1 .. n : part[i] = p
      BY <1>7
    <3> QED
      BY <3>1, <3>2 DEF Surjection
  <2>2. /\ IsFiniteSet(1 .. n) /\ IsFiniteSet(0 .. n - 1)
        /\ Cardinality(1 .. n) = Cardinality(0 .. n - 1)
    BY <1>2, FS_Interval
  <2>3. part \in Injection(1 .. n, 0 .. n - 1)
    BY <2>1, <2>2, FS_SurjSameCardinalityImpliesInj
  <2> QED
    BY <2>3 DEF Injection, IsInjective
<1>9. ASSUME NEW i \in 1 .. n PROVE Valid(fs[i])
  <2>1. fs[i].part \in 0 .. n - 1
    BY <1>7
  <2>2. fs[i].index = fs[i].part /\ fs[i].total = n
    BY <1>4, <1>6
  <2> QED
    BY <1>2, <2>1, <2>2 DEF Valid
<1>10. Undamaged(fs, ch.code)
  BY <1>2, <1>4, <1>6, <1>8, <1>9 DEF Undamaged
<1> QED
  BY <1>2, <1>4, <1>6, <1>10 DEF fs, n

-----------------------------------------------------------------------------
(* The chain a message makes.                                              *)

FirstChain(m) ==
  [frames |-> m, code |-> m[1].code, expected |-> Expected(m), complete |-> FALSE,
   bits |-> FirstBits(m, m[1].code), windowOver |-> FALSE]

\* The fragment that the order of the i-th is checked against.
LEMMA LastBefore ==
  ASSUME NEW m \in Seq(Fragments), NEW i \in DOMAIN m
  PROVE  /\ Before(m, i) # {} =>
              Max(Before(m, i)) \in Before(m, i) /\ \A j \in Before(m, i) : Max(Before(m, i)) >= j
         /\ Before(m, i) \subseteq {j \in DOMAIN m : j < i /\ Valid(m[j])}
<1>1. i \in Nat /\ DOMAIN m = 1 .. Len(m) /\ Len(m) \in Nat
  BY FramesTyped
<1>2. Before(m, i) \in SUBSET Nat /\ \A j \in Before(m, i) : j <= i /\ j < i
  BY <1>1 DEF Before
<1>3. Before(m, i) # {} =>
        Max(Before(m, i)) \in Before(m, i) /\ \A j \in Before(m, i) : Max(Before(m, i)) >= j
  BY <1>1, <1>2, Largest
<1> QED
  BY <1>1, <1>2, <1>3 DEF Before

\* The constructor of I2OChain finds a fault in each message whose headers are not in
\* order.
LEMMA CleanMessageInOrder ==
  ASSUME NEW m \in Seq(Fragments), m # <<>>,
         FirstBits(m, m[1].code) = {"INCOMPLETE_MESSAGE"}
  PROVE  InOrder(m, Expected(m))
<1>1. Len(m) \in Nat /\ DOMAIN m = 1 .. Len(m) /\ 1 \in DOMAIN m /\ \A i \in DOMAIN m : m[i].index \in Nat
  BY FramesTyped
<1> DEFINE code == m[1].code
           secondary == {i \in 2 .. Len(m) : Valid(m[i])}
           ordered == {i \in secondary : Before(m, i) # {}}
           previous(i) == m[Max(Before(m, i))].index
           b == FirstBits(m, code)
<1>2. Valid(m[1])
  <2>1. "CORRUPT_INITIAL_HEADER" \notin b
    OBVIOUS
  <2> QED
    BY <2>1 DEF FirstBits
<1>3. \A i \in 2 .. Len(m) : Valid(m[i]) /\ m[i].code = code
  <2>1. "CORRUPT_SECONDARY_HEADER" \notin b
    OBVIOUS
  <2> QED
    BY <2>1 DEF FirstBits
<1>4. \A i \in secondary : m[i].total = Expected(m)
  <2>1. "TOTAL_COUNT_MISMATCH" \notin b
    OBVIOUS
  <2> QED
    BY <2>1 DEF FirstBits
<1>5. \A i \in ordered : m[i].index # previous(i) /\ ~(m[i].index < previous(i))
  <2>1. "DUPLICATE_FRAGMENT" \notin b /\ "FRAGMENTS_OUT_OF_ORDER" \notin b
    OBVIOUS
  <2>2. ~ \E i \in ordered : m[i].index = previous(i)
    BY <2>1 DEF FirstBits
  <2>3. ~ \E i \in ordered : m[i].index < previous(i)
    BY <2>1 DEF FirstBits
  <2> QED
    BY <2>2, <2>3
<1> HIDE DEF b
<1>6. \A i \in DOMAIN m : Valid(m[i])
  BY <1>1, <1>2, <1>3
<1>7. ASSUME NEW i \in DOMAIN m, i + 1 \in DOMAIN m PROVE m[i].index < m[i + 1].index
  <2> DEFINE n == i + 1
  <2>1. n \in 2 .. Len(m) /\ i \in Before(m, n)
    BY <1>1, <1>6, <1>7 DEF Before
  <2>2. n \in ordered
    BY <1>6, <2>1, <1>7
  <2>3. /\ Max(Before(m, n)) \in Before(m, n) /\ Max(Before(m, n)) >= i
        /\ Before(m, n) \subseteq {j \in DOMAIN m : j < n /\ Valid(m[j])}
    BY <1>7, <2>1, LastBefore
  <2>4. Max(Before(m, n)) = i
    BY <1>1, <2>3
  <2>5. m[n].index # m[i].index /\ ~(m[n].index < m[i].index)
    BY <1>5, <2>2, <2>4
  <2>6. m[n].index \in Nat /\ m[i].index \in Nat
    BY <1>1, <1>7
  <2> HIDE DEF n
  <2> QED
    BY <2>5, <2>6 DEF n
<1>8. \A i, j \in DOMAIN m : i < j => m[i].index < m[j].index
  BY <1>7, Increasing
<1>9. \A i \in DOMAIN m : m[i].total = Expected(m)
  BY <1>1, <1>2, <1>4, <1>6 DEF Expected
<1> QED
  BY <1>6, <1>8, <1>9 DEF InOrder

\* The constructor of I2OChain finds no fault in a message that has none.
LEMMA UndamagedMessageIsClean ==
  ASSUME NEW m \in Seq(Fragments), m # <<>>, Undamaged(m, m[1].code),
         \A i, j \in DOMAIN m : i < j => m[i].part < m[j].part
  PROVE  FirstBits(m, m[1].code) = {"INCOMPLETE_MESSAGE"} /\ Expected(m) = m[1].total
<1>1. /\ Len(m) \in Nat /\ DOMAIN m = 1 .. Len(m) /\ 1 \in DOMAIN m
      /\ \A i \in 2 .. Len(m) : i \in DOMAIN m
  BY FramesTyped
<1> DEFINE code == m[1].code
           secondary == {i \in 2 .. Len(m) : Valid(m[i])}
           ordered == {i \in secondary : Before(m, i) # {}}
           previous(i) == m[Max(Before(m, i))].index
<1>2. /\ \A i \in DOMAIN m : Valid(m[i]) /\ m[i].code = code /\ m[i].index = m[i].part
      /\ \A i, j \in DOMAIN m : m[i].total = m[j].total
  BY DEF Undamaged
<1>3. Expected(m) = m[1].total
  BY <1>1, <1>2 DEF Expected
<1>4. \A i \in secondary : m[i].total = Expected(m)
  BY <1>1, <1>2, <1>3
<1>5. ASSUME NEW i \in ordered PROVE m[i].index # previous(i) /\ ~(m[i].index < previous(i))
  <2> DEFINE j == Max(Before(m, i))
  <2>1. i \in DOMAIN m /\ Before(m, i) # {}
    BY <1>1
  <2>2. j \in DOMAIN m /\ j < i
    BY <2>1, LastBefore
  <2> HIDE DEF j
  <2>3. m[j].part < m[i].part /\ m[j].index = m[j].part /\ m[i].index = m[i].part
    BY <1>2, <2>1, <2>2
  <2>4. m[j].part \in Nat /\ m[i].part \in Nat
    <3>1. m[j] \in Fragments /\ m[i] \in Fragments
      BY <2>1, <2>2, FramesTyped
    <3> QED
      BY <3>1 DEF Fragments
  <2>5. m[i].index # m[j].index /\ ~(m[i].index < m[j].index)
    BY <2>3, <2>4
  <2> QED
    BY <2>5 DEF j
<1>6. Valid(m[1]) /\ \A i \in 2 .. Len(m) : Valid(m[i]) /\ m[i].code = code
  BY <1>1, <1>2
<1>7. /\ ~ \E i \in ordered : m[i].index = previous(i)
      /\ ~ \E i \in ordered : m[i].index < previous(i)
  BY <1>5
<1>8. FirstBits(m, code) = {"INCOMPLETE_MESSAGE"}
  BY <1>4, <1>6, <1>7, Zenon DEF FirstBits
<1> QED
  BY <1>3, <1>8

\* The chain of a message, before it is known to be complete.
LEMMA FirstGrowing ==
  ASSUME NEW m, Sendable(m)
  PROVE  Growing(FirstChain(m))
<1> DEFINE ch == FirstChain(m)
           b == FirstBits(m, m[1].code)
<1>1. m \in Seq(Fragments) /\ m # <<>> /\ OneEvent(m)
  BY DEF Sendable
<1>2. 1 \in DOMAIN m /\ m[1] \in Fragments
  BY <1>1, FramesTyped
<1>3. m[1].code \in AllCodes /\ Expected(m) \in Nat
  BY <1>2 DEF Fragments, AllCodes, Expected
<1>4. "INCOMPLETE_MESSAGE" \in b /\ b \subseteq EarlyBits
  BY DEF FirstBits, EarlyBits, Bits
<1>5. b = {"INCOMPLETE_MESSAGE"} => InOrder(m, Expected(m))
  BY <1>1, CleanMessageInOrder
<1>6. Undamaged(m, m[1].code) => b = {"INCOMPLETE_MESSAGE"} /\ Expected(m) = m[1].total
  BY <1>1, UndamagedMessageIsClean DEF Sendable
<1>7. /\ ch.frames = m /\ ch.code = m[1].code /\ ch.expected = Expected(m) /\ ch.complete = FALSE
      /\ ch.bits = b /\ ch.windowOver = FALSE
  BY DEF FirstChain
<1> HIDE DEF b
<1>8. ch \in Chains
  BY <1>1, <1>3, <1>4 DEF FirstChain, Chains, EarlyBits, b
<1> HIDE DEF ch
<1>9. ~ch.complete /\ ch.frames # <<>>
  BY <1>1, <1>7
<1>10. "INCOMPLETE_MESSAGE" \in ch.bits /\ ch.bits \subseteq EarlyBits /\ OneEvent(ch.frames)
  BY <1>1, <1>4, <1>7
<1>11. ch.bits = {"INCOMPLETE_MESSAGE"} => InOrder(ch.frames, ch.expected)
  BY <1>5, <1>7
<1>12. Undamaged(ch.frames, ch.code) => ch.bits = {"INCOMPLETE_MESSAGE"} /\ ch.expected = ch.frames[1].total
  BY <1>6, <1>7
<1>13. Growing(ch)
  BY <1>8, <1>9, <1>10, <1>11, <1>12 DEF Growing, GrowingIf
<1> QED
  BY <1>13 DEF ch

-----------------------------------------------------------------------------
(* A fragment that joins a chain.                                          *)

\* Where the element at j is once another is put at n.
Shift(j, n) == IF j < n THEN j ELSE j + 1

\* Where the elements of a sequence are once another is inserted, by position.
LEMMA Inserted ==
  ASSUME NEW S, NEW s \in Seq(S), NEW e \in S, NEW n \in 1 .. Len(s) + 1
  PROVE  LET g == InsertAt(s, n, e)
         IN /\ g \in Seq(S) /\ g # <<>> /\ Len(g) = Len(s) + 1
            /\ n \in DOMAIN g /\ g[n] = e
            /\ \A j \in DOMAIN s : Shift(j, n) \in DOMAIN g /\ g[Shift(j, n)] = s[j]
            /\ \A i \in DOMAIN g : i = n \/ \E j \in DOMAIN s : i = Shift(j, n)
            /\ \A j, k \in DOMAIN s : /\ j < k => Shift(j, n) < Shift(k, n)
                                      /\ j # k => Shift(j, n) # Shift(k, n)
                                      /\ Shift(j, n) # n
            /\ \A j \in DOMAIN s : (j < n => Shift(j, n) < n) /\ (j >= n => n < Shift(j, n))
<1> DEFINE g == InsertAt(s, n, e)
<1>1. /\ g \in Seq(S) /\ Len(g) = Len(s) + 1
      /\ \A i \in 1 .. Len(s) + 1 : g[i] = IF i < n THEN s[i] ELSE IF i = n THEN e ELSE s[i - 1]
  BY InsertAtProperties
<1>2. Len(s) \in Nat /\ DOMAIN s = 1 .. Len(s) /\ n \in Nat /\ n >= 1 /\ n <= Len(s) + 1
  OBVIOUS
<1>3. DOMAIN g = 1 .. Len(s) + 1 /\ g # <<>>
  BY <1>1, <1>2, EmptySeq
<1> HIDE DEF g
<1>4. n \in DOMAIN g /\ g[n] = e
  BY <1>1, <1>2, <1>3
<1>5. ASSUME NEW j \in DOMAIN s PROVE Shift(j, n) \in DOMAIN g /\ g[Shift(j, n)] = s[j]
  <2>1. CASE j < n
    BY <1>1, <1>2, <1>3, <2>1 DEF Shift
  <2>2. CASE ~(j < n)
    <3>1. Shift(j, n) = j + 1 /\ j + 1 \in 1 .. Len(s) + 1 /\ ~(j + 1 < n) /\ j + 1 # n /\ (j + 1) - 1 = j
      BY <1>2, <2>2 DEF Shift
    <3> QED
      BY <1>1, <1>3, <3>1
  <2> QED
    BY <2>1, <2>2
<1>6. ASSUME NEW i \in DOMAIN g, i # n PROVE \E j \in DOMAIN s : i = Shift(j, n)
  <2>1. CASE i < n
    <3>1. i \in DOMAIN s /\ i = Shift(i, n)
      BY <1>2, <1>3, <2>1 DEF Shift
    <3> QED
      BY <3>1
  <2>2. CASE ~(i < n)
    <3>1. i - 1 \in DOMAIN s /\ i = Shift(i - 1, n)
      BY <1>2, <1>3, <1>6, <2>2 DEF Shift
    <3> QED
      BY <3>1
  <2> QED
    BY <2>1, <2>2
<1>7. \A j, k \in DOMAIN s : /\ j < k => Shift(j, n) < Shift(k, n)
                             /\ j # k => Shift(j, n) # Shift(k, n)
                             /\ Shift(j, n) # n
  BY <1>2 DEF Shift
<1>8. \A j \in DOMAIN s : (j < n => Shift(j, n) < n) /\ (j >= n => n < Shift(j, n))
  BY <1>2 DEF Shift
<1> QED
  BY <1>1, <1>3, <1>4, <1>5, <1>6, <1>7, <1>8 DEF g

\* A fragment that is inserted is in the chain, and so is each that was there, once.
LEMMA InsertedIds ==
  ASSUME NEW fs \in Seq(Fragments), NEW f \in Fragments, NEW n \in 1 .. Len(fs) + 1
  PROVE  LET g == InsertAt(fs, n, f)
         IN /\ ToSet(g) = ToSet(fs) \cup {f} /\ IdsOf(g) = IdsOf(fs) \cup {Id(f)}
            /\ Distinct(fs) /\ Id(f) \notin IdsOf(fs) => Distinct(g)
            /\ fs # <<>> /\ OneEvent(fs) /\ f.event = fs[1].event => OneEvent(g) /\ g[1].event = f.event
<1> DEFINE g == InsertAt(fs, n, f)
<1>1. /\ g \in Seq(Fragments) /\ g # <<>> /\ n \in DOMAIN g /\ g[n] = f
      /\ \A j \in DOMAIN fs : Shift(j, n) \in DOMAIN g /\ g[Shift(j, n)] = fs[j]
      /\ \A i \in DOMAIN g : i = n \/ \E j \in DOMAIN fs : i = Shift(j, n)
  BY Inserted
<1> HIDE DEF g
<1>2. ToSet(g) = {g[i] : i \in DOMAIN g} /\ ToSet(fs) = {fs[i] : i \in DOMAIN fs}
  BY DEF ToSet
<1>3. ToSet(g) = ToSet(fs) \cup {f}
  BY <1>1, <1>2
<1>4. IdsOf(g) = IdsOf(fs) \cup {Id(f)}
  BY <1>1 DEF IdsOf
<1>5. Distinct(fs) /\ Id(f) \notin IdsOf(fs) => Distinct(g)
  <2> SUFFICES ASSUME Distinct(fs), Id(f) \notin IdsOf(fs), NEW i \in DOMAIN g, NEW j \in DOMAIN g,
                      Id(g[i]) = Id(g[j])
               PROVE  i = j
    BY DEF Distinct
  <2>1. \A k \in DOMAIN fs : Id(fs[k]) # Id(f)
    BY DEF IdsOf
  <2>2. CASE i = n \/ j = n
    BY <1>1, <2>1, <2>2
  <2>3. CASE i # n /\ j # n
    <3>1. PICK k \in DOMAIN fs : i = Shift(k, n)
      BY <1>1, <2>3
    <3>2. PICK l \in DOMAIN fs : j = Shift(l, n)
      BY <1>1, <2>3
    <3>3. Id(fs[k]) = Id(fs[l])
      BY <1>1, <3>1, <3>2
    <3> QED
      BY <3>1, <3>2, <3>3 DEF Distinct
  <2> QED
    BY <2>2, <2>3
<1>6. fs # <<>> /\ OneEvent(fs) /\ f.event = fs[1].event => OneEvent(g) /\ g[1].event = f.event
  <2> SUFFICES ASSUME fs # <<>>, OneEvent(fs), f.event = fs[1].event
               PROVE  OneEvent(g) /\ g[1].event = f.event
    OBVIOUS
  <2>1. \A i \in DOMAIN g : g[i].event = f.event
    BY <1>1 DEF OneEvent
  <2>2. 1 \in DOMAIN g
    BY <1>1, FramesTyped
  <2> QED
    BY <2>1, <2>2 DEF OneEvent
<1> QED
  BY <1>3, <1>4, <1>5, <1>6 DEF g

\* A fragment that is inserted between its neighbours leaves the chain in order.
LEMMA InsertedInOrder ==
  ASSUME NEW fs \in Seq(Fragments), NEW f \in Fragments, NEW n \in 1 .. Len(fs) + 1, NEW expected,
         InOrder(fs, expected), Valid(f), f.total = expected,
         \A j \in DOMAIN fs : /\ j < n => fs[j].index < f.index
                              /\ j >= n => f.index < fs[j].index
  PROVE  InOrder(InsertAt(fs, n, f), expected)
<1> DEFINE g == InsertAt(fs, n, f)
<1>0. n \in Nat /\ \A j \in DOMAIN fs : j \in Nat
  BY FramesTyped
<1>1. /\ n \in DOMAIN g /\ g[n] = f
      /\ \A j \in DOMAIN fs : Shift(j, n) \in DOMAIN g /\ g[Shift(j, n)] = fs[j]
      /\ \A i \in DOMAIN g : i = n \/ \E j \in DOMAIN fs : i = Shift(j, n)
  BY Inserted
<1> HIDE DEF g
<1>2. \A i \in DOMAIN g : Valid(g[i]) /\ g[i].total = expected
  BY <1>1 DEF InOrder
<1>3. ASSUME NEW i \in DOMAIN g, NEW j \in DOMAIN g, i < j PROVE g[i].index < g[j].index
  <2>1. CASE i = n /\ j # n
    <3>1. PICK k \in DOMAIN fs : j = Shift(k, n)
      BY <1>1, <2>1
    <3>2. k >= n
      BY <1>0, <1>3, <2>1, <3>1 DEF Shift
    <3> QED
      BY <1>1, <2>1, <3>1, <3>2
  <2>2. CASE j = n /\ i # n
    <3>1. PICK k \in DOMAIN fs : i = Shift(k, n)
      BY <1>1, <2>2
    <3>2. k < n
      BY <1>0, <1>3, <2>2, <3>1 DEF Shift
    <3> QED
      BY <1>1, <2>2, <3>1, <3>2
  <2>3. CASE i # n /\ j # n
    <3>1. PICK k \in DOMAIN fs : i = Shift(k, n)
      BY <1>1, <2>3
    <3>2. PICK l \in DOMAIN fs : j = Shift(l, n)
      BY <1>1, <2>3
    <3>3. k < l
      BY <1>0, <1>3, <3>1, <3>2 DEF Shift
    <3>4. fs[k].index < fs[l].index
      BY <3>3 DEF InOrder
    <3> QED
      BY <1>1, <3>1, <3>2, <3>4
  <2>4. ~(i = n /\ j = n)
    BY <1>0, <1>3
  <2> QED
    BY <2>1, <2>2, <2>3, <2>4
<1>4. InOrder(g, expected)
  BY <1>2, <1>3 DEF InOrder
<1> QED
  BY <1>4 DEF g

\* A chain that is not damaged with a fragment more was not damaged before.
LEMMA InsertedUndamaged ==
  ASSUME NEW fs \in Seq(Fragments), NEW f \in Fragments, NEW n \in 1 .. Len(fs) + 1, NEW code,
         Undamaged(InsertAt(fs, n, f), code)
  PROVE  Undamaged(fs, code) /\ \A j \in DOMAIN fs : f.total = fs[j].total /\ f.index # fs[j].index
<1> DEFINE g == InsertAt(fs, n, f)
<1>1. /\ n \in DOMAIN g /\ g[n] = f
      /\ \A j \in DOMAIN fs : Shift(j, n) \in DOMAIN g /\ g[Shift(j, n)] = fs[j]
      /\ \A j, k \in DOMAIN fs : (j # k => Shift(j, n) # Shift(k, n)) /\ Shift(j, n) # n
  BY Inserted
<1>2. Undamaged(g, code)
  OBVIOUS
<1> HIDE DEF g
<1>3. \A j \in DOMAIN fs : f.total = fs[j].total /\ f.index # fs[j].index
  BY <1>1, <1>2 DEF Undamaged
<1>4. Undamaged(fs, code)
  <2> SUFFICES ASSUME NEW j \in DOMAIN fs
               PROVE  /\ Valid(fs[j]) /\ fs[j].code = code /\ fs[j].index = fs[j].part
                      /\ \A k \in DOMAIN fs : /\ fs[j].total = fs[k].total
                                              /\ j # k => fs[j].index # fs[k].index
    BY DEF Undamaged
  <2>1. Valid(fs[j]) /\ fs[j].code = code /\ fs[j].index = fs[j].part
    BY <1>1, <1>2 DEF Undamaged
  <2>2. ASSUME NEW k \in DOMAIN fs PROVE fs[j].total = fs[k].total /\ (j # k => fs[j].index # fs[k].index)
    <3> DEFINE jj == Shift(j, n)
               kk == Shift(k, n)
    <3>1. jj \in DOMAIN g /\ kk \in DOMAIN g /\ g[jj] = fs[j] /\ g[kk] = fs[k] /\ (j # k => jj # kk)
      BY <1>1
    <3> HIDE DEF jj, kk
    <3> QED
      BY <1>2, <3>1 DEF Undamaged
  <2> QED
    BY <2>1, <2>2
<1> QED
  BY <1>3, <1>4

\* Where AddFrame looks for the place of a fragment, and where it puts it.
Fits(fs, f) ==
  {i \in 1 .. Len(fs) : \/ f.index = fs[i].index
                        \/ i = Len(fs)
                        \/ fs[i].index < f.index /\ f.index < fs[i + 1].index}
PlaceOf(fs, f) == IF f.index < fs[1].index THEN 1 ELSE Min(Fits(fs, f)) + 1

\* There is a place for each fragment (I2OChain::addToChain).
LEMMA PlaceTyped ==
  ASSUME NEW fs \in Seq(Fragments), fs # <<>>, NEW f \in Fragments
  PROVE  /\ Min(Fits(fs, f)) \in Fits(fs, f) /\ \A j \in Fits(fs, f) : Min(Fits(fs, f)) <= j
         /\ Min(Fits(fs, f)) \in DOMAIN fs
         /\ PlaceOf(fs, f) \in 1 .. Len(fs) + 1
<1>1. Len(fs) \in Nat /\ DOMAIN fs = 1 .. Len(fs) /\ Len(fs) >= 1
  BY FramesTyped
<1>2. Fits(fs, f) \in SUBSET Nat /\ Len(fs) \in Fits(fs, f) /\ Fits(fs, f) \subseteq DOMAIN fs
  BY <1>1 DEF Fits
<1>3. Min(Fits(fs, f)) \in Fits(fs, f) /\ \A j \in Fits(fs, f) : Min(Fits(fs, f)) <= j
  BY <1>2, Smallest
<1> QED
  BY <1>1, <1>2, <1>3 DEF PlaceOf

\* A fragment that equals none of a chain in order comes between its neighbours.
LEMMA PlaceInOrder ==
  ASSUME NEW fs \in Seq(Fragments), fs # <<>>, NEW f \in Fragments, NEW expected, InOrder(fs, expected),
         f.index < fs[1].index \/ f.index # fs[Min(Fits(fs, f))].index
  PROVE  \A j \in DOMAIN fs : /\ j < PlaceOf(fs, f) => fs[j].index < f.index
                              /\ j >= PlaceOf(fs, f) => f.index < fs[j].index
<1>1. /\ Len(fs) \in Nat /\ DOMAIN fs = 1 .. Len(fs) /\ Len(fs) >= 1 /\ 1 \in DOMAIN fs
      /\ \A j \in DOMAIN fs : fs[j].index \in Nat /\ j \in Nat
  BY FramesTyped
<1>0. f.index \in Nat
  BY DEF Fragments
<1>2. \A j, k \in DOMAIN fs : j < k => fs[j].index < fs[k].index
  BY DEF InOrder
<1>3. CASE f.index < fs[1].index
  <2>1. PlaceOf(fs, f) = 1
    BY <1>3 DEF PlaceOf
  <2>2. ASSUME NEW j \in DOMAIN fs PROVE f.index < fs[j].index
    <3>1. j = 1 \/ fs[1].index < fs[j].index
      BY <1>0, <1>1, <1>2
    <3> QED
      BY <1>0, <1>1, <1>3, <3>1
  <2> QED
    BY <1>0, <1>1, <2>1, <2>2
<1>4. CASE ~(f.index < fs[1].index)
  <2> DEFINE i == Min(Fits(fs, f))
  <2>1. PlaceOf(fs, f) = i + 1
    BY <1>4 DEF PlaceOf
  <2>2. i \in Fits(fs, f) /\ i \in DOMAIN fs /\ \A j \in Fits(fs, f) : i <= j
    BY PlaceTyped
  <2>3. f.index # fs[i].index
    BY <1>4
  <2> HIDE DEF i
  <2>4. fs[i].index < f.index /\ (i < Len(fs) => f.index < fs[i + 1].index)
    <3>1. CASE i # Len(fs)
      BY <1>0, <1>1, <2>2, <2>3, <3>1 DEF Fits
    <3>2. CASE i = Len(fs) /\ f.index < fs[i].index
      <4> DEFINE S == {j \in 1 .. Len(fs) : fs[j].index <= f.index}
      <4>1. S \in SUBSET Nat /\ 1 \in S /\ \A j \in S : j <= Len(fs)
        BY <1>0, <1>1, <1>4
      <4>2. Max(S) \in S /\ \A j \in S : Max(S) >= j
        BY <1>0, <1>1, <4>1, Largest
      <4> DEFINE k == Max(S)
      <4>3. k \in S /\ \A j \in S : k >= j
        BY <4>2
      <4> HIDE DEF k
      <4>0. k \in DOMAIN fs /\ fs[k].index <= f.index
        BY <1>1, <4>3
      <4> HIDE DEF S
      <4>4. k \in DOMAIN fs /\ k # i /\ k < i
        <5>1. k # i
          BY <1>0, <1>1, <2>2, <3>2, <4>0
        <5>2. k <= i
          BY <1>1, <3>2, <4>0
        <5> QED
          BY <1>1, <2>2, <4>0, <5>1, <5>2
      <4>5. k + 1 \in DOMAIN fs /\ k + 1 \notin S
        BY <1>0, <1>1, <3>2, <4>3, <4>4 DEF S
      <4>6. f.index < fs[k + 1].index
        BY <1>0, <1>1, <4>5 DEF S
      <4>7. fs[k].index <= f.index
        BY <4>0
      <4>8. k \in Fits(fs, f)
        <5>1. fs[k].index = f.index \/ fs[k].index < f.index
          BY <1>0, <1>1, <4>4, <4>7
        <5> QED
          BY <1>1, <4>4, <4>6, <5>1 DEF Fits
      <4> QED
        BY <1>0, <1>1, <2>2, <4>4, <4>8
    <3>3. CASE i = Len(fs) /\ ~(f.index < fs[i].index)
      BY <1>0, <1>1, <2>2, <2>3, <3>3
    <3> QED
      BY <3>1, <3>2, <3>3
  <2>5. ASSUME NEW j \in DOMAIN fs, j < i + 1 PROVE fs[j].index < f.index
    <3>1. j = i \/ fs[j].index < fs[i].index
      BY <1>0, <1>1, <1>2, <2>2, <2>5
    <3> QED
      BY <1>0, <1>1, <2>2, <2>4, <3>1
  <2>6. ASSUME NEW j \in DOMAIN fs, j >= i + 1 PROVE f.index < fs[j].index
    <3>1. i < Len(fs) /\ i + 1 \in DOMAIN fs
      BY <1>0, <1>1, <2>2, <2>6
    <3>2. j = i + 1 \/ fs[i + 1].index < fs[j].index
      BY <1>0, <1>1, <1>2, <2>2, <2>6, <3>1
    <3> QED
      BY <1>0, <1>1, <2>4, <3>1, <3>2
  <2> QED
    BY <2>1, <2>5, <2>6
<1> QED
  BY <1>3, <1>4

\* What a fragment that joins a chain changes: its frames and its bits.
LEMMA AddFrameFields ==
  ASSUME NEW a \in Chains, NEW f
  PROVE  LET r == AddFrame(a, f)
             fs == a.frames
             more == (IF f.total # a.expected THEN {"TOTAL_COUNT_MISMATCH"} ELSE {})
                     \cup (IF ~(f.index < fs[1].index) /\ f.index = fs[Min(Fits(fs, f))].index
                           THEN {"DUPLICATE_FRAGMENT"} ELSE {})
         IN r = [frames |-> InsertAt(fs, PlaceOf(fs, f), f), code |-> a.code, expected |-> a.expected,
                 complete |-> a.complete, bits |-> a.bits \cup more, windowOver |-> a.windowOver]
<1> DEFINE r == AddFrame(a, f)
           fs == a.frames
           more == (IF f.total # a.expected THEN {"TOTAL_COUNT_MISMATCH"} ELSE {})
                     \cup (IF ~(f.index < fs[1].index) /\ f.index = fs[Min(Fits(fs, f))].index
                           THEN {"DUPLICATE_FRAGMENT"} ELSE {})
           g == InsertAt(fs, PlaceOf(fs, f), f)
           bits == a.bits \cup more
<1>1. r = [a EXCEPT !.frames = g, !.bits = bits]
  BY Zenon DEF AddFrame, Fits, PlaceOf
<1> HIDE DEF r, g, bits
<1>2. r = [frames |-> g, code |-> a.code, expected |-> a.expected,
           complete |-> a.complete, bits |-> bits, windowOver |-> a.windowOver]
  BY <1>1 DEF Chains
<1> QED
  BY <1>2 DEF r, g, bits

\* A fragment that joins a chain is in it once, and the bits of the chain still say what
\* is wrong with it.
LEMMA AddFrameGrowing ==
  ASSUME NEW sound \in BOOLEAN, NEW a, GrowingIf(sound, a),
         NEW f \in Fragments, f.event = a.frames[1].event, sound => Valid(f)
  PROVE  LET r == AddFrame(a, f)
         IN /\ GrowingIf(sound, r) /\ r.code = a.code
            /\ r.bits \cap {"CORRUPT_INITIAL_HEADER"} = a.bits \cap {"CORRUPT_INITIAL_HEADER"}
            /\ ToSet(r.frames) = ToSet(a.frames) \cup {f}
            /\ IdsOf(r.frames) = IdsOf(a.frames) \cup {Id(f)}
            /\ Len(r.frames) = Len(a.frames) + 1
            /\ Distinct(a.frames) /\ Id(f) \notin IdsOf(a.frames) => Distinct(r.frames)
            /\ r.frames[1].event = a.frames[1].event
<1> DEFINE r == AddFrame(a, f)
           fs == a.frames
           n == PlaceOf(fs, f)
           g == InsertAt(fs, n, f)
           wrong == IF f.total # a.expected THEN {"TOTAL_COUNT_MISMATCH"} ELSE {}
           twice == IF ~(f.index < fs[1].index) /\ f.index = fs[Min(Fits(fs, f))].index
                    THEN {"DUPLICATE_FRAGMENT"} ELSE {}
           more == wrong \cup twice
           bits == a.bits \cup more
<1>1. a \in Chains /\ fs \in Seq(Fragments) /\ fs # <<>> /\ OneEvent(fs)
  BY DEF GrowingIf, Chains
<1>2. r = [frames |-> g, code |-> a.code, expected |-> a.expected,
           complete |-> a.complete, bits |-> bits, windowOver |-> a.windowOver]
  BY <1>1, AddFrameFields, Zenon
<1>3. more \subseteq {"TOTAL_COUNT_MISMATCH", "DUPLICATE_FRAGMENT"}
  OBVIOUS
<1>4. n \in 1 .. Len(fs) + 1 /\ Min(Fits(fs, f)) \in DOMAIN fs
  BY <1>1, PlaceTyped
<1>5. /\ ToSet(g) = ToSet(fs) \cup {f} /\ IdsOf(g) = IdsOf(fs) \cup {Id(f)}
      /\ Distinct(fs) /\ Id(f) \notin IdsOf(fs) => Distinct(g)
      /\ OneEvent(g) /\ g[1].event = f.event
  BY <1>1, <1>4, InsertedIds
<1>6. g \in Seq(Fragments) /\ g # <<>> /\ Len(g) = Len(fs) + 1
  BY <1>1, <1>4, Inserted
<1>7. ASSUME sound, bits = {"INCOMPLETE_MESSAGE"} PROVE InOrder(g, a.expected)
  <2>1. a.bits = {"INCOMPLETE_MESSAGE"} /\ more = {}
    BY <1>3, <1>7 DEF GrowingIf
  <2>2. InOrder(fs, a.expected)
    BY <1>7, <2>1 DEF GrowingIf
  <2>3. f.total = a.expected /\ (f.index < fs[1].index \/ f.index # fs[Min(Fits(fs, f))].index)
    BY <2>1
  <2>4. \A j \in DOMAIN fs : /\ j < n => fs[j].index < f.index
                             /\ j >= n => f.index < fs[j].index
    BY <1>1, <2>2, <2>3, PlaceInOrder
  <2> HIDE DEF n
  <2> QED
    BY <1>1, <1>4, <1>7, <2>2, <2>3, <2>4, InsertedInOrder
<1>8. ASSUME Undamaged(g, a.code), a.code # "INVALID"
      PROVE  bits = {"INCOMPLETE_MESSAGE"} /\ a.expected = g[1].total
  <2>1. Undamaged(fs, a.code) /\ \A j \in DOMAIN fs : f.total = fs[j].total /\ f.index # fs[j].index
    BY <1>1, <1>4, <1>8, InsertedUndamaged
  <2>2. a.bits = {"INCOMPLETE_MESSAGE"} /\ a.expected = fs[1].total
    BY <1>8, <2>1 DEF GrowingIf
  <2>3. 1 \in DOMAIN fs /\ 1 \in DOMAIN g /\ n \in DOMAIN g /\ g[n] = f
    BY <1>1, <1>4, <1>6, FramesTyped, Inserted
  <2>4. f.total = a.expected /\ f.index # fs[Min(Fits(fs, f))].index
    BY <1>4, <2>1, <2>2, <2>3
  <2>5. g[1].total = f.total
    BY <1>8, <2>3 DEF Undamaged
  <2> QED
    BY <2>2, <2>4, <2>5
<1> HIDE DEF r, g, bits, more, n
<1>9. bits \subseteq EarlyBits /\ "INCOMPLETE_MESSAGE" \in bits
  BY <1>3 DEF GrowingIf, EarlyBits, Bits, bits
<1>10. /\ r.frames = g /\ r.code = a.code /\ r.expected = a.expected /\ r.complete = a.complete
       /\ r.bits = bits /\ r.windowOver = a.windowOver
  BY <1>2
<1>11. r \in Chains
  BY <1>1, <1>2, <1>6, <1>9 DEF Chains, EarlyBits
<1>12. ~a.complete
  BY DEF GrowingIf
<1>13. ~r.complete /\ r.frames # <<>>
  BY <1>6, <1>10, <1>12
<1>14. "INCOMPLETE_MESSAGE" \in r.bits /\ r.bits \subseteq EarlyBits /\ OneEvent(r.frames)
  BY <1>5, <1>9, <1>10
<1>15. sound /\ r.bits = {"INCOMPLETE_MESSAGE"} => InOrder(r.frames, r.expected)
  BY <1>7, <1>10
<1>16. Undamaged(r.frames, r.code) /\ r.code # "INVALID"
         => r.bits = {"INCOMPLETE_MESSAGE"} /\ r.expected = r.frames[1].total
  BY <1>8, <1>10
<1>17. GrowingIf(sound, r)
  BY <1>11, <1>13, <1>14, <1>15, <1>16 DEF GrowingIf
<1>18. r.bits \cap {"CORRUPT_INITIAL_HEADER"} = a.bits \cap {"CORRUPT_INITIAL_HEADER"}
  BY <1>3, <1>10 DEF bits
<1> QED
  BY <1>5, <1>6, <1>10, <1>17, <1>18 DEF r

\* What holds of some of the fragments of an undamaged chain.
LEMMA UndamagedPart ==
  ASSUME NEW fs, NEW gs, NEW code, Undamaged(fs, code), Distinct(gs), ToSet(gs) \subseteq ToSet(fs)
  PROVE  Undamaged(gs, code)
<1>1. \A i \in DOMAIN gs : \E p \in DOMAIN fs : fs[p] = gs[i]
  BY DEF ToSet
<1> SUFFICES ASSUME NEW i \in DOMAIN gs
             PROVE  /\ Valid(gs[i]) /\ gs[i].code = code /\ gs[i].index = gs[i].part
                    /\ \A j \in DOMAIN gs : /\ gs[i].total = gs[j].total
                                            /\ i # j => gs[i].index # gs[j].index
  BY DEF Undamaged
<1>2. PICK p \in DOMAIN fs : fs[p] = gs[i]
  BY <1>1
<1>3. ASSUME NEW j \in DOMAIN gs PROVE gs[i].total = gs[j].total /\ (i # j => gs[i].index # gs[j].index)
  <2>1. PICK q \in DOMAIN fs : fs[q] = gs[j]
    BY <1>1
  <2>2. i # j => gs[i] # gs[j]
    BY DEF Distinct
  <2>3. i # j => p # q
    BY <1>2, <2>1, <2>2
  <2> QED
    BY <1>2, <2>1, <2>3 DEF Undamaged
<1> QED
  BY <1>2, <1>3 DEF Undamaged

\* The chain after each fragment of a part was added, as addToChain defines it.
IsAfter(after, ch, ms) ==
  after = [n \in 0 .. Len(ms) |-> IF n = 0 THEN ch ELSE AddFrame(after[n - 1], ms[n])]

\* addToChain is defined by recursion over the fragments of the part: there is such a
\* function.
LEMMA AfterExists ==
  ASSUME NEW ch, NEW ms \in Seq(Fragments)
  PROVE  \E g : IsAfter(g, ch, ms)
<1> DEFINE Made == {N \in Nat : \E g : g = [n \in 0 .. N |-> IF n = 0 THEN ch ELSE AddFrame(g[n - 1], ms[n])]}
<1>1. 0 \in Made
  <2> DEFINE g == [n \in 0 .. 0 |-> ch]
  <2>1. g = [n \in 0 .. 0 |-> IF n = 0 THEN ch ELSE AddFrame(g[n - 1], ms[n])]
    <3>1. \A n \in 0 .. 0 : n = 0
      OBVIOUS
    <3> QED
      BY <3>1
  <2> QED
    BY <2>1
<1>2. ASSUME NEW N \in Nat, N \in Made PROVE N + 1 \in Made
  <2>1. PICK g : g = [n \in 0 .. N |-> IF n = 0 THEN ch ELSE AddFrame(g[n - 1], ms[n])]
    BY <1>2
  <2> DEFINE h == [n \in 0 .. N + 1 |-> IF n = N + 1 THEN AddFrame(g[N], ms[N + 1]) ELSE g[n]]
  <2>2. \A n \in 0 .. N + 1 : n # 0 => n - 1 \in 0 .. N + 1 /\ n - 1 # N + 1 /\ h[n - 1] = g[n - 1]
    OBVIOUS
  <2>3. ASSUME NEW n \in 0 .. N + 1 PROVE h[n] = IF n = 0 THEN ch ELSE AddFrame(h[n - 1], ms[n])
    <3>1. CASE n = N + 1
      <4>1. n # 0 /\ n - 1 = N /\ h[n] = AddFrame(g[N], ms[n]) /\ h[N] = g[N]
        BY <3>1
      <4> HIDE DEF h
      <4> QED
        BY <4>1
    <3>2. CASE n # N + 1
      <4>1. h[n] = g[n] /\ n \in 0 .. N
        BY <3>2
      <4>2. g[n] = IF n = 0 THEN ch ELSE AddFrame(g[n - 1], ms[n])
        BY <2>1, <4>1
      <4>3. n # 0 => h[n - 1] = g[n - 1]
        BY <2>2
      <4> HIDE DEF h
      <4> QED
        BY <4>1, <4>2, <4>3
    <3> QED
      BY <3>1, <3>2
  <2>4. h = [n \in 0 .. N + 1 |-> h[n]]
    OBVIOUS
  <2> HIDE DEF h
  <2>5. h = [n \in 0 .. N + 1 |-> IF n = 0 THEN ch ELSE AddFrame(h[n - 1], ms[n])]
    BY <2>3, <2>4
  <2> QED
    BY <2>5
<1> HIDE DEF Made
<1>3. Nat \subseteq Made
  BY <1>1, <1>2, Induction
<1>4. Len(ms) \in Made
  BY <1>3
<1> QED
  BY <1>4 DEF Made, IsAfter

\* So it is for the fragments of a part, one after the other.
LEMMA Joining ==
  ASSUME NEW sound \in BOOLEAN, NEW ch, GrowingIf(sound, ch), Distinct(ch.frames),
         NEW ms \in Seq(Fragments), Distinct(ms), IdsOf(ms) \cap IdsOf(ch.frames) = {},
         \A i \in DOMAIN ms : ms[i].event = ch.frames[1].event /\ (sound => Valid(ms[i])),
         NEW after, IsAfter(after, ch, ms)
  PROVE  LET r == after[Len(ms)]
         IN /\ GrowingIf(sound, r) /\ r.code = ch.code
            /\ r.bits \cap {"CORRUPT_INITIAL_HEADER"} = ch.bits \cap {"CORRUPT_INITIAL_HEADER"}
            /\ ToSet(r.frames) = ToSet(ch.frames) \cup ToSet(ms)
            /\ IdsOf(r.frames) = IdsOf(ch.frames) \cup IdsOf(ms)
            /\ Len(r.frames) = Len(ch.frames) + Len(ms)
            /\ Distinct(r.frames)
            /\ r.frames[1].event = ch.frames[1].event
<1>0. Len(ms) \in Nat /\ DOMAIN ms = 1 .. Len(ms) /\ \A i \in DOMAIN ms : ms[i] \in Fragments
  BY FramesTyped
<1>a. \A n \in 0 .. Len(ms) : after[n] = IF n = 0 THEN ch ELSE AddFrame(after[n - 1], ms[n])
  BY DEF IsAfter
<1> DEFINE Sent(n) == {ms[i] : i \in 1 .. n}
           SentIds(n) == {Id(ms[i]) : i \in 1 .. n}
           Good(r, n) == /\ GrowingIf(sound, r) /\ r.code = ch.code
                         /\ r.bits \cap {"CORRUPT_INITIAL_HEADER"} = ch.bits \cap {"CORRUPT_INITIAL_HEADER"}
                         /\ ToSet(r.frames) = ToSet(ch.frames) \cup Sent(n)
                         /\ IdsOf(r.frames) = IdsOf(ch.frames) \cup SentIds(n)
                         /\ Len(r.frames) = Len(ch.frames) + n
                         /\ Distinct(r.frames)
                         /\ r.frames[1].event = ch.frames[1].event
           S == {n \in Nat : n <= Len(ms) => Good(after[n], n)}
<1>1. 0 \in S
  <2>1. after[0] = ch
    BY <1>0, <1>a
  <2>2. Sent(0) = {} /\ SentIds(0) = {}
    OBVIOUS
  <2>3. Len(ch.frames) + 0 = Len(ch.frames)
    <3>1. ch.frames \in Seq(Fragments)
      BY DEF GrowingIf, Chains
    <3> QED
      BY <3>1
  <2> HIDE DEF Sent, SentIds
  <2>4. Good(ch, 0)
    BY <2>2, <2>3
  <2> HIDE DEF Good
  <2> QED
    BY <2>1, <2>4
<1>2. ASSUME NEW n \in Nat, n \in S PROVE n + 1 \in S
  <2> SUFFICES ASSUME n + 1 <= Len(ms) PROVE Good(after[n + 1], n + 1)
    <3> HIDE DEF Good
    <3> QED
      OBVIOUS
  <2> DEFINE a == after[n]
             f == ms[n + 1]
             r == AddFrame(a, f)
  <2>1. n + 1 \in DOMAIN ms /\ n + 1 \in 0 .. Len(ms) /\ n <= Len(ms) /\ (n + 1) - 1 = n /\ n + 1 # 0
    BY <1>0
  <2>2. after[n + 1] = r
    BY <1>a, <2>1
  <2>3. Good(a, n)
    BY <1>2, <2>1
  <2>4. f \in Fragments /\ f.event = a.frames[1].event /\ (sound => Valid(f))
    BY <1>0, <2>1, <2>3
  <2>5. Sent(n + 1) = Sent(n) \cup {f} /\ SentIds(n + 1) = SentIds(n) \cup {Id(f)}
    <3>1. 1 .. n + 1 = (1 .. n) \cup {n + 1}
      OBVIOUS
    <3> QED
      BY <3>1
  <2>6. Id(f) \notin IdsOf(a.frames)
    <3>1. Id(f) \in IdsOf(ms)
      BY <2>1 DEF IdsOf
    <3>2. Id(f) \notin SentIds(n)
      <4> SUFFICES ASSUME NEW i \in 1 .. n, Id(f) = Id(ms[i]) PROVE FALSE
        OBVIOUS
      <4>1. i \in DOMAIN ms /\ i # n + 1
        BY <1>0, <2>1
      <4> QED
        BY <2>1, <4>1 DEF Distinct
    <3> QED
      BY <2>3, <3>1, <3>2
  <2> HIDE DEF a, f, Sent, SentIds
  <2>7. /\ GrowingIf(sound, r) /\ r.code = a.code
        /\ r.bits \cap {"CORRUPT_INITIAL_HEADER"} = a.bits \cap {"CORRUPT_INITIAL_HEADER"}
        /\ ToSet(r.frames) = ToSet(a.frames) \cup {f}
        /\ IdsOf(r.frames) = IdsOf(a.frames) \cup {Id(f)}
        /\ Len(r.frames) = Len(a.frames) + 1
        /\ Distinct(a.frames) /\ Id(f) \notin IdsOf(a.frames) => Distinct(r.frames)
        /\ r.frames[1].event = a.frames[1].event
    BY <2>3, <2>4, AddFrameGrowing
  <2> HIDE DEF r
  <2>8. Len(ch.frames) \in Nat
    BY DEF GrowingIf, Chains
  <2>9. Good(r, n + 1)
    <3>1. GrowingIf(sound, r) /\ r.code = ch.code
      BY <2>3, <2>7
    <3>2. r.bits \cap {"CORRUPT_INITIAL_HEADER"} = ch.bits \cap {"CORRUPT_INITIAL_HEADER"}
      BY <2>3, <2>7
    <3>3. ToSet(r.frames) = ToSet(ch.frames) \cup Sent(n + 1)
      BY <2>3, <2>5, <2>7
    <3>4. IdsOf(r.frames) = IdsOf(ch.frames) \cup SentIds(n + 1)
      BY <2>3, <2>5, <2>7
    <3>5. Len(r.frames) = Len(ch.frames) + (n + 1)
      BY <2>3, <2>7, <2>8
    <3>6. Distinct(r.frames)
      BY <2>3, <2>6, <2>7
    <3>7. r.frames[1].event = ch.frames[1].event
      BY <2>3, <2>7
    <3> QED
      BY <3>1, <3>2, <3>3, <3>4, <3>5, <3>6, <3>7, Zenon
  <2> HIDE DEF Good
  <2> QED
    BY <2>2, <2>9
<1> HIDE DEF S
<1>3. Nat \subseteq S
  BY <1>1, <1>2, Induction
<1>4. Good(after[Len(ms)], Len(ms))
  <2> HIDE DEF Good
  <2>1. Len(ms) \in S
    BY <1>0, <1>3
  <2> QED
    BY <1>0, <2>1 DEF S
<1>5. Sent(Len(ms)) = ToSet(ms) /\ SentIds(Len(ms)) = IdsOf(ms)
  BY <1>0 DEF ToSet, IdsOf
<1> HIDE DEF Sent, SentIds
<1> QED
  BY <1>4, <1>5

\* addToChain up to its last step, which looks whether the chain is complete.
LEMMA AddToChainFields ==
  ASSUME NEW ch, NEW new, new.frames \in Seq(Fragments)
  PROVE  \E after :
           /\ IsAfter(after, ch, new.frames)
           /\ addToChain(ch, new) =
                checkForCompleteness([after[Len(new.frames)] EXCEPT !.bits = @ \cup new.bits, !.windowOver = FALSE])
<1>1. \E g : IsAfter(g, ch, new.frames)
  BY AfterExists
<1> DEFINE after[n \in 0 .. Len(new.frames)] == IF n = 0 THEN ch ELSE AddFrame(after[n - 1], new.frames[n])
<1>2. IsAfter(after, ch, new.frames)
  BY <1>1, Zenon DEF IsAfter
<1>3. addToChain(ch, new) =
        checkForCompleteness([after[Len(new.frames)] EXCEPT !.bits = @ \cup new.bits, !.windowOver = FALSE])
  BY Zenon DEF addToChain
<1> HIDE DEF after
<1> QED
  BY <1>2, <1>3

\* The chain and the part that joins it make one chain with the bits of both.
LEMMA JoinedGrowing ==
  ASSUME NEW ch, NEW new, Growing(ch), Growing(new), Distinct(ch.frames), Distinct(new.frames),
         IdsOf(new.frames) \cap IdsOf(ch.frames) = {},
         new.code = ch.code, new.frames[1].event = ch.frames[1].event
  PROVE  \E r : /\ addToChain(ch, new) = checkForCompleteness(r)
                /\ Growing(r) /\ r.code = ch.code
                /\ parsable(ch) /\ parsable(new) => parsable(r)
                /\ ToSet(r.frames) = ToSet(ch.frames) \cup ToSet(new.frames)
                /\ IdsOf(r.frames) = IdsOf(ch.frames) \cup IdsOf(new.frames)
                /\ Len(r.frames) = Len(ch.frames) + Len(new.frames)
                /\ Distinct(r.frames) /\ r.frames[1].event = ch.frames[1].event
<1> DEFINE ms == new.frames
           sound == new.bits = {"INCOMPLETE_MESSAGE"}
<1>1. ms \in Seq(Fragments) /\ ms # <<>> /\ OneEvent(ms) /\ new.code \in AllCodes
  BY DEF Growing, GrowingIf, Chains
<1>2. PICK after : /\ IsAfter(after, ch, ms)
                   /\ addToChain(ch, new) =
                        checkForCompleteness([after[Len(ms)] EXCEPT !.bits = @ \cup new.bits, !.windowOver = FALSE])
  BY <1>1, AddToChainFields
<1> DEFINE q == after[Len(ms)]
           r == [q EXCEPT !.bits = @ \cup new.bits, !.windowOver = FALSE]
<1>3. sound \in BOOLEAN /\ GrowingIf(sound, ch)
  BY DEF Growing, GrowingIf
<1>4. ASSUME NEW i \in DOMAIN ms PROVE ms[i].event = ch.frames[1].event /\ (sound => Valid(ms[i]))
  <2>1. ms[i].event = ch.frames[1].event
    BY <1>1 DEF OneEvent
  <2>2. sound => InOrder(ms, new.expected)
    BY DEF Growing, GrowingIf
  <2> QED
    BY <2>1, <2>2 DEF InOrder
<1> HIDE DEF sound, r
<1>a. Distinct(ms) /\ IdsOf(ms) \cap IdsOf(ch.frames) = {}
  OBVIOUS
<1>b. ms \in Seq(Fragments) /\ IsAfter(after, ch, ms)
  BY <1>1, <1>2
<1>c. Distinct(ch.frames)
  OBVIOUS
<1> HIDE DEF ms
<1>5. /\ GrowingIf(sound, q) /\ q.code = ch.code
      /\ q.bits \cap {"CORRUPT_INITIAL_HEADER"} = ch.bits \cap {"CORRUPT_INITIAL_HEADER"}
      /\ ToSet(q.frames) = ToSet(ch.frames) \cup ToSet(ms)
      /\ IdsOf(q.frames) = IdsOf(ch.frames) \cup IdsOf(ms)
      /\ Len(q.frames) = Len(ch.frames) + Len(ms)
      /\ Distinct(q.frames)
      /\ q.frames[1].event = ch.frames[1].event
  BY <1>3, <1>4, <1>a, <1>b, <1>c, Joining
<1> HIDE DEF q
<1>6. q \in Chains
  BY <1>5 DEF GrowingIf
<1>7. /\ r.frames = q.frames /\ r.code = q.code /\ r.expected = q.expected /\ r.complete = q.complete
      /\ r.bits = q.bits \cup new.bits
      /\ r = [frames |-> q.frames, code |-> q.code, expected |-> q.expected, complete |-> q.complete,
              bits |-> q.bits \cup new.bits, windowOver |-> FALSE]
  <2> DEFINE bits == q.bits \cup new.bits
  <2> HIDE DEF bits
  <2>1. r = [q EXCEPT !.bits = bits, !.windowOver = FALSE]
    BY Zenon DEF r, bits
  <2>2. r = [frames |-> q.frames, code |-> q.code, expected |-> q.expected, complete |-> q.complete,
             bits |-> bits, windowOver |-> FALSE]
    BY <1>6, <2>1 DEF Chains
  <2>3. /\ r.frames = q.frames /\ r.code = q.code /\ r.expected = q.expected /\ r.complete = q.complete
        /\ r.bits = bits
    BY <2>2
  <2> QED
    BY <2>2, <2>3, Zenon DEF bits
<1>8. "INCOMPLETE_MESSAGE" \in new.bits /\ new.bits \subseteq EarlyBits /\ new.bits \subseteq Bits
  BY DEF Growing, GrowingIf, EarlyBits
<1>9. r \in Chains
  BY <1>6, <1>7, <1>8 DEF Chains
<1>10. /\ ~r.complete /\ r.frames # <<>> /\ OneEvent(r.frames)
       /\ "INCOMPLETE_MESSAGE" \in r.bits /\ r.bits \subseteq EarlyBits
  <2>1. /\ ~q.complete /\ q.frames # <<>> /\ OneEvent(q.frames)
        /\ "INCOMPLETE_MESSAGE" \in q.bits /\ q.bits \subseteq EarlyBits
    BY <1>5 DEF GrowingIf
  <2> QED
    BY <1>7, <1>8, <2>1
<1>11. ASSUME r.bits = {"INCOMPLETE_MESSAGE"} PROVE InOrder(r.frames, r.expected)
  <2>1. q.bits \subseteq {"INCOMPLETE_MESSAGE"} /\ new.bits \subseteq {"INCOMPLETE_MESSAGE"}
    BY <1>7, <1>11
  <2>2. sound /\ q.bits = {"INCOMPLETE_MESSAGE"}
    BY <1>5, <1>8, <2>1 DEF GrowingIf, sound
  <2>3. InOrder(q.frames, q.expected)
    BY <1>5, <2>2 DEF GrowingIf
  <2> QED
    BY <1>7, <2>3
<1>12. ASSUME Undamaged(r.frames, r.code), r.code # "INVALID"
       PROVE  r.bits = {"INCOMPLETE_MESSAGE"} /\ r.expected = r.frames[1].total
  <2>1. Undamaged(q.frames, q.code) /\ q.code # "INVALID"
    BY <1>7, <1>12
  <2>2. q.bits = {"INCOMPLETE_MESSAGE"} /\ q.expected = q.frames[1].total
    BY <1>5, <2>1 DEF GrowingIf
  <2>3. ToSet(ms) \subseteq ToSet(q.frames)
    BY <1>5
  <2>4. Undamaged(ms, new.code)
    BY <1>5, <1>a, <2>1, <2>3, UndamagedPart
  <2>5. new.bits = {"INCOMPLETE_MESSAGE"}
    BY <1>5, <2>1, <2>4 DEF Growing, GrowingIf, ms
  <2> QED
    BY <1>7, <2>2, <2>5
<1>13. Growing(r)
  BY <1>9, <1>10, <1>11, <1>12 DEF Growing, GrowingIf
<1>14. parsable(ch) /\ parsable(new) => parsable(r)
  BY <1>5, <1>7 DEF parsable
<1>15. addToChain(ch, new) = checkForCompleteness(r)
  BY <1>2 DEF q, r, ms
<1> QED
  BY <1>5, <1>7, <1>13, <1>14, <1>15 DEF ms

-----------------------------------------------------------------------------
(* Chains that are complete, and chains that wait.                         *)

\* A chain stays as it is, or is as complete as it says.
LEMMA Completed ==
  ASSUME NEW r, Growing(r)
  PROVE  LET c == checkForCompleteness(r)
         IN /\ c \in Chains /\ c.frames = r.frames /\ c.code = r.code
            /\ \/ c = r /\ ~(Len(r.frames) = r.expected /\ r.bits \cap NeverCompletes = {})
               \/ Finished(c)
<1> DEFINE c == checkForCompleteness(r)
           left == r.bits \ {"INCOMPLETE_MESSAGE"}
           bits == IF left = {} /\ HasChecksum(r.code) /\ ~Checks(r.frames)
                   THEN {"WRONG_CHECKSUM"} ELSE left
<1>1. r \in Chains /\ r.frames # <<>> /\ r.frames \in Seq(Fragments)
  BY DEF Growing, GrowingIf, Chains
<1>2. CASE ~(Len(r.frames) = r.expected /\ r.bits \cap NeverCompletes = {})
  BY <1>1, <1>2 DEF checkForCompleteness
<1>3. CASE Len(r.frames) = r.expected /\ r.bits \cap NeverCompletes = {}
  <2>1. c = [r EXCEPT !.complete = TRUE, !.bits = bits]
    BY <1>3, Zenon DEF checkForCompleteness
  <2> HIDE DEF c
  <2>2. bits \subseteq Bits
    BY <1>1 DEF Chains, Bits
  <2> HIDE DEF bits
  <2>3. /\ c.frames = r.frames /\ c.code = r.code /\ c.complete = TRUE /\ c.bits = bits
        /\ c = [frames |-> r.frames, code |-> r.code, expected |-> r.expected, complete |-> TRUE,
                bits |-> bits, windowOver |-> r.windowOver]
    BY <1>1, <2>1 DEF Chains
  <2>4. c \in Chains
    BY <1>1, <2>2, <2>3 DEF Chains
  <2>5. ASSUME c.bits = {} PROVE /\ InOrder(c.frames, Len(c.frames)) /\ OneEvent(c.frames)
                                 /\ HasChecksum(c.code) => Checks(c.frames)
    <3>1. left = {} /\ (HasChecksum(r.code) => Checks(r.frames))
      BY <2>3, <2>5 DEF bits
    <3>2. r.bits = {"INCOMPLETE_MESSAGE"} /\ OneEvent(r.frames)
      BY <3>1 DEF Growing, GrowingIf
    <3>3. InOrder(r.frames, r.expected)
      BY <3>2 DEF Growing, GrowingIf
    <3> QED
      BY <1>3, <2>3, <3>1, <3>2, <3>3
  <2>6. ASSUME Whole(c) PROVE c.bits = {}
    <3>1. /\ Undamaged(c.frames, c.code) /\ c.code # "INVALID"
          /\ c.frames[1].total = Len(c.frames)
      BY <1>1, <2>3, <2>4, <2>6, WholeIsUndamaged
    <3>2. r.bits = {"INCOMPLETE_MESSAGE"}
      BY <2>3, <3>1 DEF Growing, GrowingIf
    <3>3. InOrder(r.frames, Len(r.frames))
      BY <1>3, <3>2 DEF Growing, GrowingIf
    <3>4. \A i \in DOMAIN r.frames : r.frames[i].index = i - 1
      BY <1>1, <3>3, InOrderNumbered
    <3>5. DOMAIN r.frames = 1 .. Len(r.frames)
      BY <1>1
    <3>6. \A i \in 1 .. Len(r.frames) : /\ r.frames[i].intact /\ r.frames[i].index = r.frames[i].part
                                       /\ r.frames[i].event = r.frames[1].event
      <4>1. \A i \in 1 .. Len(r.frames) : r.frames[i] \in FragmentsOf(c)
        BY <2>3, <3>5 DEF FragmentsOf, ToSet
      <4> QED
        BY <2>3, <2>6, <4>1 DEF Whole
    <3>7. Len(r.frames) = Parts(r.frames[1].event)
      BY <2>3, <2>6 DEF Whole
    <3>8. Checks(r.frames)
      BY <3>4, <3>5, <3>6, <3>7 DEF Checks
    <3>9. left = {}
      BY <3>2
    <3> QED
      BY <2>3, <3>8, <3>9 DEF bits
  <2>7. Finished(c)
    BY <1>1, <2>3, <2>4, <2>5, <2>6 DEF Finished
  <2> QED
    BY <2>3, <2>4, <2>7 DEF c
<1> QED
  BY <1>2, <1>3

\* No whole event waits.
LEMMA UnfinishedNotWhole ==
  ASSUME NEW ch, Unfinished(ch)
  PROVE  ~Whole(ch)
<1> SUFFICES ASSUME Whole(ch) PROVE FALSE
  OBVIOUS
<1>1. ch \in Chains /\ ch.frames # <<>>
  BY DEF Unfinished, Growing, GrowingIf
<1>2. Undamaged(ch.frames, ch.code) /\ ch.code # "INVALID" /\ ch.frames[1].total = Len(ch.frames)
  BY <1>1, WholeIsUndamaged
<1>3. ch.bits = {"INCOMPLETE_MESSAGE"} /\ ch.expected = Len(ch.frames)
  BY <1>2 DEF Unfinished, Growing, GrowingIf
<1> QED
  BY <1>3 DEF Unfinished, NeverCompletes

\* The chain of a message.
LEMMA MessageChain ==
  ASSUME NEW m, Sendable(m)
  PROVE  LET ch == I2OChain(m)
         IN ch.frames = m /\ (Unfinished(ch) \/ Finished(ch))
<1> DEFINE first == FirstChain(m)
           c == checkForCompleteness(first)
           ch == I2OChain(m)
<1>1. Growing(first) /\ first.frames = m /\ first.code = m[1].code
  BY FirstGrowing DEF FirstChain
<1>2. ch = IF m[1].code = "INVALID" THEN [c EXCEPT !.bits = @ \cup {"CORRUPT_INITIAL_HEADER"}] ELSE c
  BY Zenon DEF I2OChain, FirstChain
<1> HIDE DEF first, ch
<1>3. /\ c \in Chains /\ c.frames = m /\ c.code = m[1].code
      /\ \/ c = first /\ ~(Len(first.frames) = first.expected /\ first.bits \cap NeverCompletes = {})
         \/ Finished(c)
  BY <1>1, Completed
<1> HIDE DEF c
<1>4. CASE m[1].code # "INVALID"
  <2>1. ch = c
    BY <1>2, <1>4
  <2> QED
    BY <1>1, <1>3, <1>4, <2>1 DEF Unfinished, ch
<1>5. CASE m[1].code = "INVALID"
  <2> DEFINE bits == c.bits \cup {"CORRUPT_INITIAL_HEADER"}
  <2>0. bits \subseteq Bits
    BY <1>3 DEF Chains, Bits
  <2> HIDE DEF bits
  <2>1. ch = [c EXCEPT !.bits = bits]
    BY <1>2, <1>5 DEF bits
  <2>2. ch = [frames |-> c.frames, code |-> c.code, expected |-> c.expected, complete |-> c.complete,
              bits |-> bits, windowOver |-> c.windowOver]
    BY <1>3, <2>1 DEF Chains
  <2>3. /\ ch.frames = m /\ ch.code = "INVALID" /\ ch.expected = c.expected /\ ch.complete = c.complete
        /\ ch.bits = bits /\ ch.windowOver = c.windowOver
    BY <1>3, <1>5, <2>2
  <2>4. ch \in Chains
    BY <1>3, <2>0, <2>2 DEF Chains
  <2>5. CASE Finished(c)
    <3>1. ch.complete /\ ch.frames # <<>>
      BY <1>3, <2>3, <2>5 DEF Finished
    <3>2. ch.bits # {}
      BY <2>3 DEF bits
    <3>3. ~Whole(ch)
      BY <2>3, <2>4, <3>1, WholeIsUndamaged
    <3>4. Finished(ch)
      BY <2>4, <3>1, <3>2, <3>3 DEF Finished
    <3> QED
      BY <2>3, <3>4 DEF ch
  <2>6. CASE c = first /\ ~(Len(first.frames) = first.expected /\ first.bits \cap NeverCompletes = {})
    <3>1. /\ ~c.complete /\ c.frames # <<>> /\ OneEvent(c.frames)
          /\ "INCOMPLETE_MESSAGE" \in c.bits /\ c.bits \subseteq EarlyBits
      BY <1>1, <2>6 DEF Growing, GrowingIf
    <3>2. /\ ~ch.complete /\ ch.frames # <<>> /\ OneEvent(ch.frames)
          /\ "INCOMPLETE_MESSAGE" \in ch.bits /\ ch.bits \subseteq EarlyBits
          /\ ch.bits # {"INCOMPLETE_MESSAGE"}
      <4>1. ~ch.complete /\ ch.frames # <<>> /\ OneEvent(ch.frames)
        BY <1>3, <2>3, <3>1
      <4>2. "INCOMPLETE_MESSAGE" \in bits /\ bits \subseteq EarlyBits /\ bits # {"INCOMPLETE_MESSAGE"}
        BY <3>1 DEF bits, EarlyBits, Bits
      <4> QED
        BY <2>3, <4>1, <4>2
    <3>3. Growing(ch)
      BY <2>3, <2>4, <3>2 DEF Growing, GrowingIf
    <3>4. ch.bits \cap NeverCompletes = c.bits \cap NeverCompletes
      BY <2>3 DEF bits, NeverCompletes
    <3>5. "CORRUPT_INITIAL_HEADER" \in ch.bits
      BY <2>3 DEF bits
    <3>6. Unfinished(ch)
      BY <1>3, <2>3, <2>6, <3>3, <3>4, <3>5 DEF Unfinished
    <3> QED
      BY <2>3, <3>6 DEF ch
  <2> QED
    BY <1>3, <2>5, <2>6
<1> QED
  BY <1>4, <1>5

\* Of chains with different fragments only those of the same event, with headers that
\* say so, have the same key.
LEMMA SameKey ==
  ASSUME NEW ch, NEW new, Unfinished(ch), Unfinished(new), fragmentKey(ch) = fragmentKey(new),
         IdsOf(new.frames) \cap IdsOf(ch.frames) = {}
  PROVE  /\ parsable(ch) /\ parsable(new) /\ new.code = ch.code
         /\ new.frames[1].event = ch.frames[1].event
<1>1. /\ parsable(ch) => ch.code # "INVALID"
      /\ parsable(new) => new.code # "INVALID"
  BY DEF Unfinished, parsable
<1>2. Id(ch.frames[1]) \in IdsOf(ch.frames) /\ Id(new.frames[1]) \in IdsOf(new.frames)
  <2>1. \A c \in {ch, new} : c.frames \in Seq(Fragments) /\ c.frames # <<>>
    BY DEF Unfinished, Growing, GrowingIf, Chains
  <2>2. 1 \in DOMAIN ch.frames /\ 1 \in DOMAIN new.frames
    BY <2>1, FramesTyped
  <2> QED
    BY <2>2 DEF IdsOf
<1>3. Id(ch.frames[1]) # Id(new.frames[1])
  BY <1>2
<1>4. CASE parsable(ch)
  <2>1. parsable(new)
    BY <1>1, <1>4 DEF fragmentKey
  <2> QED
    BY <1>4, <2>1 DEF fragmentKey
<1>5. CASE ~parsable(ch)
  <2>1. ~parsable(new)
    BY <1>1, <1>5 DEF fragmentKey
  <2> QED
    BY <1>3, <1>5, <2>1 DEF fragmentKey, Id
<1> QED
  BY <1>4, <1>5

\* A part that joins the chain with its key.
LEMMA AddedChain ==
  ASSUME NEW ch, NEW new, Unfinished(ch), Unfinished(new), Distinct(ch.frames), Distinct(new.frames),
         IdsOf(new.frames) \cap IdsOf(ch.frames) = {}, fragmentKey(ch) = fragmentKey(new)
  PROVE  LET j == addToChain(ch, new)
         IN /\ (Unfinished(j) /\ fragmentKey(j) = fragmentKey(ch)) \/ Finished(j)
            /\ ToSet(j.frames) = ToSet(ch.frames) \cup ToSet(new.frames)
            /\ IdsOf(j.frames) = IdsOf(ch.frames) \cup IdsOf(new.frames)
            /\ Len(j.frames) = Len(ch.frames) + Len(new.frames)
            /\ Distinct(j.frames)
<1>1. Growing(ch) /\ Growing(new)
  BY DEF Unfinished
<1>2. /\ parsable(ch) /\ parsable(new) /\ new.code = ch.code
      /\ new.frames[1].event = ch.frames[1].event
  BY SameKey
<1>3. PICK r : /\ addToChain(ch, new) = checkForCompleteness(r)
               /\ Growing(r) /\ r.code = ch.code
               /\ parsable(ch) /\ parsable(new) => parsable(r)
               /\ ToSet(r.frames) = ToSet(ch.frames) \cup ToSet(new.frames)
               /\ IdsOf(r.frames) = IdsOf(ch.frames) \cup IdsOf(new.frames)
               /\ Len(r.frames) = Len(ch.frames) + Len(new.frames)
               /\ Distinct(r.frames) /\ r.frames[1].event = ch.frames[1].event
  BY <1>1, <1>2, JoinedGrowing
<1> DEFINE j == addToChain(ch, new)
<1>4. /\ j.frames = r.frames /\ j.code = r.code
      /\ \/ j = r /\ ~(Len(r.frames) = r.expected /\ r.bits \cap NeverCompletes = {})
         \/ Finished(j)
  BY <1>3, Completed
<1> HIDE DEF j
<1>5. ASSUME j = r, ~(Len(r.frames) = r.expected /\ r.bits \cap NeverCompletes = {})
      PROVE  Unfinished(j) /\ fragmentKey(j) = fragmentKey(ch)
  <2>1. parsable(r) /\ r.code # "INVALID"
    BY <1>2, <1>3 DEF Unfinished, parsable
  <2>2. Unfinished(r)
    BY <1>3, <1>5, <2>1 DEF Unfinished
  <2>3. fragmentKey(r) = fragmentKey(ch)
    BY <1>2, <1>3, <2>1 DEF fragmentKey
  <2> QED
    BY <1>5, <2>2, <2>3
<1> QED
  BY <1>3, <1>4, <1>5 DEF j

-----------------------------------------------------------------------------
(* Where fragments are.                                                    *)

Holder(place, ch) == [in |-> place, chain |-> ch]

\* A set of chains in one place, with one more or one less.
LEMMA Holding ==
  ASSUME NEW place, NEW chains, NEW ch
  PROVE  /\ In(place, chains \cup {ch}) = In(place, chains) \cup {Holder(place, ch)}
         /\ In(place, chains \ {ch}) = In(place, chains) \ {Holder(place, ch)}
         /\ \A h \in In(place, chains) : h.in = place
BY DEF In, Holder

\* The fragments of one chain.
LEMMA ContentOne ==
  ASSUME NEW place, NEW ch
  PROVE  Content({Holder(place, ch)}) = ToSet(ch.frames) /\ Content({}) = {}
BY DEF Content, Holder, FragmentsOf

\* Fragments move from some chains to one, and new ones may join them.
Moves(H, A, new, h) ==
  /\ Spread(H) /\ A \subseteq H
  /\ h.chain.frames \in Seq(Fragments) /\ h.chain.frames # <<>> /\ Distinct(h.chain.frames)
  /\ FragmentsOf(h.chain) = Content(A) \cup new
  /\ \A f \in new : \A g \in H : Id(f) \notin IdsOf(g.chain.frames)

\* Then each fragment is in one place still, and none is gone.
Moved(H, A, new, h) ==
  /\ Spread((H \ A) \cup {h}) /\ h \notin H \ A
  /\ \A f : f \in Content((H \ A) \cup {h}) <=> f \in Content(H) \/ f \in new

\* Nothing is lost or doubled where fragments move to one chain.
LEMMA Regroup ==
  ASSUME NEW H, NEW A, NEW new, NEW h, Moves(H, A, new, h)
  PROVE  Moved(H, A, new, h)
<1>0. /\ Spread(H) /\ A \subseteq H
      /\ h.chain.frames \in Seq(Fragments) /\ h.chain.frames # <<>> /\ Distinct(h.chain.frames)
      /\ FragmentsOf(h.chain) = Content(A) \cup new
      /\ \A f \in new : \A g \in H : Id(f) \notin IdsOf(g.chain.frames)
  BY DEF Moves
<1>1. \A g : IdsOf(g.chain.frames) = {Id(f) : f \in FragmentsOf(g.chain)}
  BY DEF IdsOf, FragmentsOf, ToSet
<1>2. ASSUME NEW g \in H \ A PROVE IdsOf(g.chain.frames) \cap IdsOf(h.chain.frames) = {}
  <2> SUFFICES ASSUME NEW f \in FragmentsOf(h.chain), Id(f) \in IdsOf(g.chain.frames) PROVE FALSE
    <3>1. IdsOf(h.chain.frames) = {Id(f) : f \in FragmentsOf(h.chain)}
      BY <1>1
    <3> QED
      BY <3>1
  <2>1. f \notin new
    BY <1>0, <1>2
  <2>2. PICK a \in A : f \in FragmentsOf(a.chain)
    BY <1>0, <2>1 DEF Content
  <2>3. Id(f) \in IdsOf(a.chain.frames) /\ a \in H /\ a # g
    BY <1>0, <1>1, <1>2, <2>2
  <2> QED
    BY <1>0, <1>2, <2>3 DEF Spread
<1>3. h \notin H \ A
  <2> SUFFICES ASSUME h \in H \ A PROVE FALSE
    OBVIOUS
  <2>1. IdsOf(h.chain.frames) = {}
    BY <1>2
  <2>2. 1 \in DOMAIN h.chain.frames
    BY <1>0, FramesTyped
  <2> QED
    BY <2>1, <2>2 DEF IdsOf
<1>4. Spread((H \ A) \cup {h})
  <2> SUFFICES ASSUME NEW x \in (H \ A) \cup {h}
               PROVE  /\ Distinct(x.chain.frames) /\ x.chain.frames # <<>>
                      /\ x.chain.frames \in Seq(Fragments)
                      /\ \A g \in (H \ A) \cup {h} :
                           g # x => IdsOf(g.chain.frames) \cap IdsOf(x.chain.frames) = {}
    BY DEF Spread
  <2>1. CASE x = h
    BY <1>0, <1>2, <2>1
  <2>2. CASE x \in H \ A
    BY <1>0, <1>2, <2>2 DEF Spread
  <2> QED
    BY <2>1, <2>2
<1>5. Content((H \ A) \cup {h}) = Content(H) \cup new
  <2>1. Content((H \ A) \cup {h}) = Content(H \ A) \cup FragmentsOf(h.chain)
    BY DEF Content
  <2>2. Content(H) = Content(H \ A) \cup Content(A)
    BY <1>0 DEF Content
  <2> QED
    BY <1>0, <2>1, <2>2
<1> QED
  BY <1>3, <1>4, <1>5 DEF Moved

\* A chain may change in its flags: its fragments stay in one place.
LEMMA SlotsOfOne ==
  ASSUME NEW h, h.chain.frames \in Seq(Fragments)
  PROVE  /\ IsFiniteSet(Slots({h})) /\ Cardinality(Slots({h})) = Len(h.chain.frames)
<1> DEFINE n == Len(h.chain.frames)
           at == [i \in 1 .. n |-> <<h, i>>]
<1>1. n \in Nat /\ DOMAIN h.chain.frames = 1 .. n
  OBVIOUS
<1>2. Slots({h}) = {<<h, i>> : i \in 1 .. n}
  BY <1>1 DEF Slots
<1> HIDE DEF n
<1>3. at \in Bijection(1 .. n, Slots({h}))
  <2>1. at \in [1 .. n -> Slots({h})]
    BY <1>2
  <2>2. \A i, j \in 1 .. n : at[i] = at[j] => i = j
    OBVIOUS
  <2>3. \A s \in Slots({h}) : \E i \in 1 .. n : at[i] = s
    BY <1>2
  <2> QED
    BY <2>1, <2>2, <2>3 DEF Bijection, Injection, Surjection, IsInjective
<1>4. IsFiniteSet(1 .. n) /\ Cardinality(1 .. n) = n
  BY <1>1, FS_Interval
<1> HIDE DEF at
<1>5. ExistsBijection(1 .. n, Slots({h}))
  BY <1>3 DEF ExistsBijection
<1>6. IsFiniteSet(Slots({h})) /\ Cardinality(Slots({h})) = n
  BY <1>4, <1>5, FS_Bijection
<1> QED
  BY <1>6 DEF n

\* One chain more in a place has as many slots more as it has fragments.
LEMMA AddHolder ==
  ASSUME NEW X, NEW h, h \notin X, h.chain.frames \in Seq(Fragments), IsFiniteSet(Slots(X))
  PROVE  /\ IsFiniteSet(Slots(X \cup {h}))
         /\ Cardinality(Slots(X \cup {h})) = Cardinality(Slots(X)) + Len(h.chain.frames)
<1>1. Slots(X \cup {h}) = Slots(X) \cup Slots({h})
  BY DEF Slots
<1>2. Slots(X) \cap Slots({h}) = {}
  BY DEF Slots
<1>3. IsFiniteSet(Slots({h})) /\ Cardinality(Slots({h})) = Len(h.chain.frames)
  BY SlotsOfOne
<1>4. /\ IsFiniteSet(Slots(X) \cup Slots({h}))
      /\ Cardinality(Slots(X) \cup Slots({h})) =
           Cardinality(Slots(X)) + Cardinality(Slots({h})) - Cardinality(Slots(X) \cap Slots({h}))
  BY <1>3, FS_Union
<1>5. Cardinality(Slots(X) \cap Slots({h})) = 0 /\ Cardinality(Slots(X)) \in Nat
  BY <1>2, FS_EmptySet, FS_CardinalityType
<1>6. Len(h.chain.frames) \in Nat
  OBVIOUS
<1> DEFINE all == Cardinality(Slots(X \cup {h}))
           old == Cardinality(Slots(X))
           one == Cardinality(Slots({h}))
           both == Cardinality(Slots(X) \cap Slots({h}))
<1>7. all = old + one - both /\ both = 0 /\ one = Len(h.chain.frames)
  BY <1>1, <1>3, <1>4, <1>5, Zenon
<1> HIDE DEF all, old, one, both
<1>8. all = old + Len(h.chain.frames)
  BY <1>5, <1>6, <1>7 DEF old
<1> QED
  BY <1>1, <1>4, <1>8, Zenon DEF all, old

\* One chain less in a place has as many slots less as it had fragments.
LEMMA DropHolder ==
  ASSUME NEW X, NEW h \in X, h.chain.frames \in Seq(Fragments), IsFiniteSet(Slots(X))
  PROVE  /\ IsFiniteSet(Slots(X \ {h}))
         /\ Cardinality(Slots(X)) = Cardinality(Slots(X \ {h})) + Len(h.chain.frames)
<1>1. Slots(X \ {h}) \subseteq Slots(X)
  BY DEF Slots
<1>2. IsFiniteSet(Slots(X \ {h}))
  BY <1>1, FS_Subset
<1>3. h \notin X \ {h} /\ (X \ {h}) \cup {h} = X
  OBVIOUS
<1> DEFINE Y == X \ {h}
<1> HIDE DEF Y
<1>4. Cardinality(Slots(Y \cup {h})) = Cardinality(Slots(Y)) + Len(h.chain.frames)
  BY <1>2, <1>3, AddHolder DEF Y
<1> QED
  BY <1>2, <1>3, <1>4 DEF Y

Elsewhere ==
  In("handed", {h.chain : h \in handed}) \cup In("lost", lost) \cup In("cleared", cleared)

\* What a step of the store does to the set of stored chains.
LEMMA StoredAfterPut ==
  ASSUME StoreInv, NEW k, NEW v, store' = Put(store, k, v)
  PROVE  Stored' = (Stored \ (IF k \in DOMAIN store THEN {store[k]} ELSE {})) \cup {v}
<1>1. \A i, j \in DOMAIN store : store[i] = store[j] => i = j
  BY DEF StoreInv
<1>2. DOMAIN store' = DOMAIN store \cup {k} /\ \A i \in DOMAIN store' : store'[i] = IF i = k THEN v ELSE store[i]
  BY DEF Put
<1>3. Stored' = {store'[i] : i \in DOMAIN store'}
  BY DEF Stored
<1>4. Stored' = {store[i] : i \in DOMAIN store \ {k}} \cup {v}
  BY <1>2, <1>3
<1>5. {store[i] : i \in DOMAIN store \ {k}} = Stored \ (IF k \in DOMAIN store THEN {store[k]} ELSE {})
  BY <1>1 DEF Stored
<1> QED
  BY <1>4, <1>5

\* What is stored after a chain was taken out.
LEMMA StoredAfterWithout ==
  ASSUME StoreInv, NEW k \in DOMAIN store, store' = Without(store, k)
  PROVE  Stored' = Stored \ {store[k]}
<1>1. \A i, j \in DOMAIN store : store[i] = store[j] => i = j
  BY DEF StoreInv
<1>2. DOMAIN store' = DOMAIN store \ {k} /\ \A i \in DOMAIN store' : store'[i] = store[i]
  BY DEF Without
<1>3. Stored' = {store'[i] : i \in DOMAIN store'}
  BY DEF Stored
<1>4. Stored' = {store[i] : i \in DOMAIN store \ {k}}
  BY <1>2, <1>3
<1> QED
  BY <1>1, <1>4 DEF Stored

\* A stored chain has a place of its own.
LEMMA StoredHolder ==
  ASSUME StoreInv, NEW k \in DOMAIN store
  PROVE  /\ Holder("store", store[k]) \in In("store", Stored)
         /\ Holder("store", store[k]) \in Holders /\ Holder("store", store[k]) \notin Elsewhere
         /\ store[k].frames \in Seq(Fragments) /\ store[k].frames # <<>>
         /\ Len(store[k].frames) \in Nat
<1>1. store[k] \in Stored
  BY DEF Stored
<1>2. Holder("store", store[k]) \in In("store", Stored)
  BY <1>1 DEF In, Holder
<1>3. Holder("store", store[k]) \notin Elsewhere
  BY DEF Elsewhere, In, Holder
<1>4. store[k].frames \in Seq(Fragments) /\ store[k].frames # <<>>
  BY DEF StoreInv, Unfinished, Growing, GrowingIf, Chains
<1> QED
  BY <1>2, <1>3, <1>4 DEF Holders

\* What has not been received is in no chain.
LEMMA FreshIds ==
  ASSUME PlacesInv, NEW new, \A f \in new : \A g \in received : Id(f) # Id(g)
  PROVE  \A f \in new : \A h \in Holders : Id(f) \notin IdsOf(h.chain.frames)
<1> SUFFICES ASSUME NEW f \in new, NEW h \in Holders, NEW i \in DOMAIN h.chain.frames,
                    Id(f) = Id(h.chain.frames[i])
             PROVE  FALSE
  BY DEF IdsOf
<1>1. h.chain.frames[i] \in FragmentsOf(h.chain)
  BY DEF FragmentsOf, ToSet
<1>2. h.chain.frames[i] \in received
  BY <1>1 DEF PlacesInv, Content
<1> QED
  BY <1>2

\* A chain is stored, in the place of the one with its key if there is one.
LEMMA PutPlaces ==
  ASSUME StoreInv, PlacesInv, NEW k, NEW v, NEW new, NEW n \in Nat,
         store' = Put(store, k, v), UNCHANGED <<handed, lost, cleared>>,
         received' = received \cup new, \A f \in new : \A g \in received : Id(f) # Id(g),
         v.frames \in Seq(Fragments), v.frames # <<>>, Distinct(v.frames),
         ToSet(v.frames) = (IF k \in DOMAIN store THEN ToSet(store[k].frames) ELSE {}) \cup new,
         Len(v.frames) = (IF k \in DOMAIN store THEN Len(store[k].frames) ELSE 0) + n,
         memoryUsed' = memoryUsed + n
  PROVE  PlacesInv'
<1> DEFINE X == In("store", Stored)
           h == Holder("store", v)
           A == IF k \in DOMAIN store THEN {Holder("store", store[k])} ELSE {}
<1>1. Holders = X \cup Elsewhere /\ Holders' = X' \cup Elsewhere
  BY DEF Holders, Elsewhere
<1>2. A \subseteq X /\ A \cap Elsewhere = {}
  BY StoredHolder
<1>3. X' = (X \ A) \cup {h}
  <2>1. Stored' = (Stored \ (IF k \in DOMAIN store THEN {store[k]} ELSE {})) \cup {v}
    BY StoredAfterPut
  <2>2. X' = In("store", Stored')
    BY DEF In
  <2> DEFINE old == IF k \in DOMAIN store THEN Stored \ {store[k]} ELSE Stored
  <2>3. Stored' = old \cup {v}
    BY <2>1
  <2>4. In("store", old) = X \ A
    BY Holding
  <2> HIDE DEF old
  <2>5. In("store", old \cup {v}) = In("store", old) \cup {Holder("store", v)}
    BY DEF In, Holder
  <2> QED
    BY <2>2, <2>3, <2>4, <2>5, Zenon
<1>4. Holders' = (Holders \ A) \cup {h}
  BY <1>1, <1>2, <1>3
<1>5. h.chain = v
  BY DEF Holder
<1>6. FragmentsOf(h.chain) = Content(A) \cup new
  <2>1. Content(A) = IF k \in DOMAIN store THEN ToSet(store[k].frames) ELSE {}
    <3>1. CASE k \in DOMAIN store
      BY <3>1, ContentOne
    <3>2. CASE k \notin DOMAIN store
      BY <3>2, ContentOne
    <3> QED
      BY <3>1, <3>2
  <2> QED
    BY <1>5, <2>1 DEF FragmentsOf
<1>7. \A f \in new : \A g \in Holders : Id(f) \notin IdsOf(g.chain.frames)
  BY FreshIds
<1>8. Spread(Holders) /\ A \in SUBSET Holders
  BY <1>1, <1>2 DEF PlacesInv
<1>9. h.chain.frames \in Seq(Fragments) /\ h.chain.frames # <<>> /\ Distinct(h.chain.frames)
  BY <1>5
<1>10. Moves(Holders, A, new, h)
  BY <1>6, <1>7, <1>8, <1>9 DEF Moves
<1> HIDE DEF A, h
<1>b. Moved(Holders, A, new, h)
  BY <1>10, Regroup
<1>a. /\ Spread((Holders \ A) \cup {h}) /\ h \notin Holders \ A
      /\ Content((Holders \ A) \cup {h}) = Content(Holders) \cup new
  <2>1. Spread((Holders \ A) \cup {h})
    BY <1>b DEF Moved
  <2>2. h \notin Holders \ A
    BY <1>b DEF Moved
  <2>3. Content((Holders \ A) \cup {h}) = Content(Holders) \cup new
    <3>1. \A f : f \in Content((Holders \ A) \cup {h}) <=> f \in Content(Holders) \/ f \in new
      BY <1>b DEF Moved
    <3> QED
      BY <3>1
  <2> QED
    BY <2>1, <2>2, <2>3
<1>11. received' = Content(Holders)' /\ Spread(Holders)'
  <2>1. Content(Holders)' = Content(Holders') /\ (Spread(Holders)' <=> Spread(Holders'))
    BY DEF Content, Spread
  <2> QED
    BY <1>4, <1>a, <2>1 DEF PlacesInv
<1>12. IsFiniteSet(Slots(X \ A)) /\
       Cardinality(Slots(X)) = Cardinality(Slots(X \ A)) + (IF k \in DOMAIN store THEN Len(store[k].frames) ELSE 0)
  <2>1. IsFiniteSet(Slots(X))
    BY DEF PlacesInv
  <2>2. CASE k \in DOMAIN store
    <3> DEFINE old == Holder("store", store[k])
    <3>1. old \in X /\ old.chain = store[k] /\ old.chain.frames \in Seq(Fragments)
      BY <2>2, StoredHolder DEF Holder
    <3>2. A = {old}
      BY <2>2 DEF A
    <3> HIDE DEF old, X
    <3> QED
      BY <2>1, <2>2, <3>1, <3>2, DropHolder
  <2>3. CASE k \notin DOMAIN store
    <3>1. X \ A = X
      BY <2>3 DEF A
    <3>2. Cardinality(Slots(X)) \in Nat
      BY <2>1, FS_CardinalityType
    <3>3. Cardinality(Slots(X)) + 0 = Cardinality(Slots(X))
      BY <3>2
    <3> HIDE DEF X
    <3> QED
      BY <2>1, <2>3, <3>1, <3>3
  <2> QED
    BY <2>2, <2>3
<1> DEFINE Y == X \ A
<1>13. h \notin Y
  BY <1>1, <1>a
<1>14. IsFiniteSet(Slots(Y)) /\ X' = Y \cup {h}
  BY <1>3, <1>12
<1>15. memoryUsed = Cardinality(Slots(X))
  BY DEF PlacesInv
<1>16. k \in DOMAIN store => Len(store[k].frames) \in Nat
  BY StoredHolder
<1> HIDE DEF Y
<1>17. IsFiniteSet(Slots(Y \cup {h})) /\ Cardinality(Slots(Y \cup {h})) = Cardinality(Slots(Y)) + Len(v.frames)
  BY <1>5, <1>9, <1>13, <1>14, AddHolder
<1>18. Cardinality(Slots(Y)) \in Nat
  BY <1>14, FS_CardinalityType
<1>19. /\ memoryUsed = Cardinality(Slots(Y)) + (IF k \in DOMAIN store THEN Len(store[k].frames) ELSE 0)
  BY <1>12, <1>15 DEF Y
<1>20. memoryUsed' = Cardinality(Slots(Y \cup {h}))
  BY <1>16, <1>17, <1>18, <1>19
<1>21. Slots(In("store", Stored))' = Slots(Y \cup {h})
  <2>1. Slots(X)' = Slots(X')
    BY DEF Slots
  <2> QED
    BY <1>14, <2>1
<1> QED
  BY <1>11, <1>17, <1>20, <1>21 DEF PlacesInv

\* A chain leaves the store, with what has joined it.
LEMMA LeavePlaces ==
  ASSUME StoreInv, PlacesInv, NEW k \in DOMAIN store, NEW h, NEW new,
         store' = Without(store, k), Elsewhere' = Elsewhere \cup {h},
         received' = received \cup new, \A f \in new : \A g \in received : Id(f) # Id(g),
         h.chain.frames \in Seq(Fragments), h.chain.frames # <<>>, Distinct(h.chain.frames),
         ToSet(h.chain.frames) = ToSet(store[k].frames) \cup new,
         memoryUsed' = memoryUsed - Len(store[k].frames)
  PROVE  PlacesInv' /\ h \notin Elsewhere
<1> DEFINE X == In("store", Stored)
           old == Holder("store", store[k])
<1>1. Holders = X \cup Elsewhere /\ Holders' = X' \cup Elsewhere'
  BY DEF Holders, Elsewhere
<1>2. /\ old \in X /\ old \notin Elsewhere /\ old.chain = store[k]
      /\ store[k].frames \in Seq(Fragments) /\ Len(store[k].frames) \in Nat
  BY StoredHolder DEF Holder
<1>3. X' = X \ {old}
  <2>1. Stored' = Stored \ {store[k]}
    BY StoredAfterWithout
  <2>2. X' = In("store", Stored')
    BY DEF In
  <2>3. In("store", Stored \ {store[k]}) = X \ {old}
    BY DEF In, Holder
  <2> QED
    BY <2>1, <2>2, <2>3
<1>4. Holders' = (Holders \ {old}) \cup {h}
  BY <1>1, <1>2, <1>3
<1>5. FragmentsOf(h.chain) = Content({old}) \cup new
  <2>1. Content({old}) = ToSet(store[k].frames)
    BY ContentOne
  <2> QED
    BY <2>1 DEF FragmentsOf
<1>6. \A f \in new : \A g \in Holders : Id(f) \notin IdsOf(g.chain.frames)
  BY FreshIds
<1>7. Spread(Holders) /\ {old} \subseteq Holders
  BY <1>1, <1>2 DEF PlacesInv
<1> DEFINE A == {old}
<1>8. Moves(Holders, A, new, h)
  BY <1>5, <1>6, <1>7 DEF Moves
<1> HIDE DEF old, X, A
<1>m. Moved(Holders, A, new, h)
  BY <1>8, Regroup
<1>9. Spread((Holders \ A) \cup {h}) /\ h \notin Holders \ A
  BY <1>m DEF Moved
<1>10. Content((Holders \ A) \cup {h}) = Content(Holders) \cup new
  <2>1. \A f : f \in Content((Holders \ A) \cup {h}) <=> f \in Content(Holders) \/ f \in new
    BY <1>m DEF Moved
  <2> QED
    BY <2>1
<1>11. received' = Content(Holders)' /\ Spread(Holders)'
  <2>1. Content(Holders)' = Content(Holders') /\ (Spread(Holders)' <=> Spread(Holders'))
    BY DEF Content, Spread
  <2> QED
    BY <1>4, <1>9, <1>10, <2>1 DEF PlacesInv, A
<1>12. IsFiniteSet(Slots(X)) /\ memoryUsed = Cardinality(Slots(X))
  BY DEF PlacesInv, X
<1>13. IsFiniteSet(Slots(X \ {old})) /\ Cardinality(Slots(X)) = Cardinality(Slots(X \ {old})) + Len(store[k].frames)
  BY <1>2, <1>12, DropHolder
<1>14. Cardinality(Slots(X \ {old})) \in Nat
  BY <1>13, FS_CardinalityType
<1>15. memoryUsed' = Cardinality(Slots(X \ {old}))
  BY <1>2, <1>12, <1>13, <1>14
<1>16. Slots(In("store", Stored))' = Slots(X \ {old})
  <2>1. Slots(X)' = Slots(X')
    BY DEF Slots
  <2> QED
    BY <1>3, <2>1 DEF X
<1>17. h \notin Elsewhere
  BY <1>1, <1>2, <1>9 DEF A
<1> QED
  BY <1>11, <1>13, <1>15, <1>16, <1>17 DEF PlacesInv

\* A chain that is complete with its first message is never stored.
LEMMA DirectPlaces ==
  ASSUME StoreInv, PlacesInv, NEW h, NEW new,
         UNCHANGED <<store, memoryUsed>>, Elsewhere' = Elsewhere \cup {h},
         received' = received \cup new, \A f \in new : \A g \in received : Id(f) # Id(g),
         h.chain.frames \in Seq(Fragments), h.chain.frames # <<>>, Distinct(h.chain.frames),
         ToSet(h.chain.frames) = new
  PROVE  PlacesInv' /\ h \notin Elsewhere
<1> DEFINE X == In("store", Stored)
<1>1. Holders = X \cup Elsewhere /\ Holders' = X' \cup Elsewhere'
  BY DEF Holders, Elsewhere
<1>2. X' = X
  BY DEF In, Stored
<1>3. Holders' = (Holders \ {}) \cup {h}
  BY <1>1, <1>2
<1>4. FragmentsOf(h.chain) = Content({}) \cup new
  BY ContentOne DEF FragmentsOf
<1>5. \A f \in new : \A g \in Holders : Id(f) \notin IdsOf(g.chain.frames)
  BY FreshIds
<1> DEFINE A == {}
<1>6. Moves(Holders, A, new, h)
  BY <1>4, <1>5 DEF Moves, PlacesInv
<1> HIDE DEF X, A
<1>m. Moved(Holders, A, new, h)
  BY <1>6, Regroup
<1>7. Spread((Holders \ A) \cup {h}) /\ h \notin Holders \ A
  BY <1>m DEF Moved
<1>8. Content((Holders \ A) \cup {h}) = Content(Holders) \cup new
  <2>1. \A f : f \in Content((Holders \ A) \cup {h}) <=> f \in Content(Holders) \/ f \in new
    BY <1>m DEF Moved
  <2> QED
    BY <2>1
<1>9. received' = Content(Holders)' /\ Spread(Holders)'
  <2>1. Content(Holders)' = Content(Holders') /\ (Spread(Holders)' <=> Spread(Holders'))
    BY DEF Content, Spread
  <2> QED
    BY <1>3, <1>7, <1>8, <2>1 DEF PlacesInv, A
<1>10. Slots(In("store", Stored))' = Slots(In("store", Stored))
  <2>1. Slots(X)' = Slots(X')
    BY DEF Slots
  <2> QED
    BY <1>2, <2>1 DEF X
<1>11. h \notin Elsewhere
  BY <1>1, <1>7 DEF A
<1> QED
  BY <1>9, <1>10, <1>11 DEF PlacesInv

\* The run is left: what was stored goes, and no fragment of it is in two places.
LEMMA ClearPlaces ==
  ASSUME StoreInv, PlacesInv, store' = <<>>, memoryUsed' = 0, cleared' = cleared \cup Stored,
         UNCHANGED <<received, handed, lost>>
  PROVE  PlacesInv'
<1> DEFINE X == In("store", Stored)
           Y == In("cleared", Stored)
<1>1. Holders = X \cup Elsewhere
  BY DEF Holders, Elsewhere
<1>2. Stored' = {}
  BY DEF Stored
<1>3. Holders' = Elsewhere \cup Y
  <2>1. In("store", Stored)' = {}
    BY <1>2 DEF In
  <2>2. In("cleared", cleared)' = In("cleared", cleared) \cup Y
    BY DEF In
  <2>3. In("handed", {h.chain : h \in handed})' = In("handed", {h.chain : h \in handed})
    OBVIOUS
  <2>4. In("lost", lost)' = In("lost", lost)
    OBVIOUS
  <2> QED
    BY <2>1, <2>2, <2>3, <2>4 DEF Holders, Elsewhere
<1>4. ASSUME NEW h \in Elsewhere \cup Y
      PROVE  \E g \in Holders : /\ g.chain = h.chain
                                /\ h \in Elsewhere => g = h
                                /\ h \notin Elsewhere => g \in X /\ h = Holder("cleared", h.chain)
  <2>1. CASE h \in Elsewhere
    BY <1>1, <2>1
  <2>2. CASE h \notin Elsewhere
    <3>1. PICK ch \in Stored : h = [in |-> "cleared", chain |-> ch]
      BY <2>2 DEF In
    <3>2. [in |-> "store", chain |-> ch] \in X
      BY DEF In
    <3> QED
      BY <1>1, <2>2, <3>1, <3>2 DEF Holder
  <2> QED
    BY <2>1, <2>2
<1>5. \A h \in X : h.in = "store" /\ h = Holder("store", h.chain)
  BY DEF In, Holder
<1>6. \A h \in Elsewhere : h.in # "store"
  BY DEF Elsewhere, In
<1>7. ASSUME NEW h \in X PROVE \E g \in Y : g.chain = h.chain
  <2>1. PICK ch \in Stored : h = [in |-> "store", chain |-> ch]
    BY DEF In
  <2>2. [in |-> "cleared", chain |-> ch] \in Y
    BY DEF In
  <2> QED
    BY <2>1, <2>2
<1> HIDE DEF X, Y
<1>8. Spread(Elsewhere \cup Y)
  <2> SUFFICES ASSUME NEW h \in Elsewhere \cup Y
               PROVE  /\ Distinct(h.chain.frames) /\ h.chain.frames # <<>>
                      /\ h.chain.frames \in Seq(Fragments)
                      /\ \A i \in Elsewhere \cup Y :
                           i # h => IdsOf(i.chain.frames) \cap IdsOf(h.chain.frames) = {}
    BY DEF Spread
  <2>0. Spread(Holders)
    BY DEF PlacesInv
  <2>1. PICK g \in Holders : /\ g.chain = h.chain
                             /\ h \in Elsewhere => g = h
                             /\ h \notin Elsewhere => g \in X /\ h = Holder("cleared", h.chain)
    BY <1>4
  <2>2. ASSUME NEW i \in Elsewhere \cup Y, i # h
        PROVE  IdsOf(i.chain.frames) \cap IdsOf(h.chain.frames) = {}
    <3>1. PICK j \in Holders : /\ j.chain = i.chain
                               /\ i \in Elsewhere => j = i
                               /\ i \notin Elsewhere => j \in X /\ i = Holder("cleared", i.chain)
      BY <1>4
    <3>2. j # g
      BY <1>5, <1>6, <2>1, <2>2, <3>1
    <3>3. IdsOf(j.chain.frames) \cap IdsOf(g.chain.frames) = {}
      BY <2>0, <3>2 DEF Spread
    <3> QED
      BY <2>1, <3>1, <3>3
  <2> QED
    BY <2>0, <2>1, <2>2 DEF Spread
<1>9. \A f : f \in Content(Elsewhere \cup Y) <=> f \in Content(Holders)
  <2>1. ASSUME NEW f \in Content(Elsewhere \cup Y) PROVE f \in Content(Holders)
    <3>1. PICK h \in Elsewhere \cup Y : f \in FragmentsOf(h.chain)
      BY DEF Content
    <3>2. PICK g \in Holders : g.chain = h.chain
      BY <1>4
    <3> QED
      BY <3>1, <3>2 DEF Content
  <2>2. ASSUME NEW f \in Content(Holders) PROVE f \in Content(Elsewhere \cup Y)
    <3>1. PICK h \in Holders : f \in FragmentsOf(h.chain)
      BY DEF Content
    <3>2. \E g \in Elsewhere \cup Y : g.chain = h.chain
      BY <1>1, <1>7
    <3> QED
      BY <3>1, <3>2 DEF Content
  <2> QED
    BY <2>1, <2>2
<1>10. received' = Content(Holders)' /\ Spread(Holders)'
  <2>1. Content(Holders)' = Content(Holders') /\ (Spread(Holders)' <=> Spread(Holders'))
    BY DEF Content, Spread
  <2>2. Content(Elsewhere \cup Y) = Content(Holders)
    BY <1>9
  <2>3. received = Content(Holders)
    BY DEF PlacesInv
  <2> QED
    BY <1>3, <1>8, <2>1, <2>2, <2>3
<1>11. Slots(In("store", Stored))' = {}
  <2>1. In("store", Stored)' = {}
    BY <1>2 DEF In
  <2> QED
    BY <2>1 DEF Slots
<1>12. IsFiniteSet({}) /\ Cardinality({}) = 0
  BY FS_EmptySet
<1> QED
  BY <1>10, <1>11, <1>12 DEF PlacesInv

-----------------------------------------------------------------------------
(* Books.                                                                  *)

Books == [Senders -> [Counters -> Nat]]
Unsent(records, s, dqm) ==
  {h \in records : /\ h.chain.code # "INVALID" /\ h.discard # "sent"
                   /\ SenderOf(h.chain) = s
                   /\ dqm <=> h.chain.code = "DQM_EVENT"}
AddUp(books, records) ==
  \A s \in Senders : /\ OutstandingDataDiscards(books[s]) = Cardinality(Unsent(records, s, FALSE))
                     /\ OutstandingDQMDiscards(books[s]) = Cardinality(Unsent(records, s, TRUE))

Counted(n, b, ch, counter) ==
  /\ n \in Books
  /\ \A s \in Senders : \A c \in Counters :
       n[s][c] = IF ch.code # "INVALID" /\ s = SenderOf(ch) /\ c = counter THEN b[s][c] + 1 ELSE b[s][c]

\* What is counted is one more, and nothing else changes.
LEMMA CountAt ==
  ASSUME NEW b \in Books, NEW ch, NEW counter \in Counters
  PROVE  Counted(Count(b, ch, counter), b, ch, counter)
<1>1. SenderOf(ch) \in Senders
  BY DEF SenderOf, Senders
<1> DEFINE t == SenderOf(ch)
<1> HIDE DEF t
<1>2. CASE ch.code = "INVALID"
  BY <1>2 DEF Count, Counted
<1>3. CASE ch.code # "INVALID"
  <2>1. Count(b, ch, counter) = [b EXCEPT ![t][counter] = @ + 1]
    BY <1>3 DEF Count, t
  <2>2. t \in Senders
    BY <1>1 DEF t
  <2>3. b[t] \in [Counters -> Nat] /\ b[t][counter] \in Nat
    BY <2>2 DEF Books
  <2> DEFINE row == [b[t] EXCEPT ![counter] = @ + 1]
  <2>4. row \in [Counters -> Nat] /\ \A c \in Counters : row[c] = IF c = counter THEN b[t][c] + 1 ELSE b[t][c]
    BY <2>3
  <2> HIDE DEF row
  <2>5. Count(b, ch, counter) = [b EXCEPT ![t] = row]
    BY <2>1 DEF row
  <2>6. /\ [b EXCEPT ![t] = row] \in Books
        /\ \A s \in Senders : [b EXCEPT ![t] = row][s] = IF s = t THEN row ELSE b[s]
    BY <2>2, <2>4 DEF Books
  <2> QED
    BY <1>3, <2>4, <2>5, <2>6 DEF t, Counted
<1> QED
  BY <1>2, <1>3

\* What a sample and a discard do to the outstanding discards of a sender.
LEMMA SampleEffect ==
  ASSUME NEW b \in Books, NEW ch, ch.code \in AllCodes
  PROVE  /\ addSample(b, ch) \in Books
         /\ \A s \in Senders :
              /\ OutstandingDataDiscards(addSample(b, ch)[s]) = OutstandingDataDiscards(b[s])
                   + (IF ch.code # "INVALID" /\ s = SenderOf(ch) /\ ch.code # "DQM_EVENT" THEN 1 ELSE 0)
              /\ OutstandingDQMDiscards(addSample(b, ch)[s]) = OutstandingDQMDiscards(b[s])
                   + (IF ch.code # "INVALID" /\ s = SenderOf(ch) /\ ch.code = "DQM_EVENT" THEN 1 ELSE 0)
<1>1. \A s \in Senders : \A c \in Counters : b[s][c] \in Nat
  BY DEF Books
<1>2. CASE ch.code = "INVALID"
  <2>1. addSample(b, ch) = b
    BY <1>2 DEF addSample, Count
  <2>2. \A s \in Senders : OutstandingDataDiscards(b[s]) \in Int /\ OutstandingDQMDiscards(b[s]) \in Int
    BY <1>1 DEF OutstandingDataDiscards, OutstandingDQMDiscards, Counters
  <2> QED
    BY <1>2, <2>1, <2>2
<1>3. CASE ch.code # "INVALID"
  <2>1. ASSUME NEW counter \in {"init", "event", "error", "faulty"}, addSample(b, ch) = Count(b, ch, counter),
               ch.code # "DQM_EVENT"
        PROVE  /\ addSample(b, ch) \in Books
               /\ \A s \in Senders :
                    /\ OutstandingDataDiscards(addSample(b, ch)[s]) = OutstandingDataDiscards(b[s])
                         + (IF s = SenderOf(ch) THEN 1 ELSE 0)
                    /\ OutstandingDQMDiscards(addSample(b, ch)[s]) = OutstandingDQMDiscards(b[s])
    <3>1. counter \in Counters
      BY DEF Counters
    <3> DEFINE n == Count(b, ch, counter)
    <3>2. n \in Books /\ \A s \in Senders : \A c \in Counters :
            n[s][c] = IF s = SenderOf(ch) /\ c = counter THEN b[s][c] + 1 ELSE b[s][c]
      <4>1. Counted(n, b, ch, counter)
        BY <3>1, CountAt
      <4> HIDE DEF n
      <4> QED
        BY <1>3, <4>1 DEF Counted
    <3> HIDE DEF n
    <3>3. ASSUME NEW s \in Senders
          PROVE  /\ OutstandingDataDiscards(n[s]) = OutstandingDataDiscards(b[s])
                      + (IF s = SenderOf(ch) THEN 1 ELSE 0)
                 /\ OutstandingDQMDiscards(n[s]) = OutstandingDQMDiscards(b[s])
      <4>1. \A c \in Counters : n[s][c] = IF s = SenderOf(ch) /\ c = counter THEN b[s][c] + 1 ELSE b[s][c]
        BY <3>2
      <4>2. \A c \in Counters : b[s][c] \in Nat
        BY <1>1
      <4>3. OutstandingDQMDiscards(n[s]) = OutstandingDQMDiscards(b[s])
        BY <4>1 DEF OutstandingDQMDiscards, Counters
      <4>4. CASE s # SenderOf(ch)
        BY <4>1, <4>2, <4>3, <4>4 DEF OutstandingDataDiscards, Counters
      <4>5. CASE s = SenderOf(ch)
        <5>1. \A c \in Counters : n[s][c] = IF c = counter THEN b[s][c] + 1 ELSE b[s][c]
          BY <4>1, <4>5
        <5>2. OutstandingDataDiscards(n[s]) = OutstandingDataDiscards(b[s]) + 1
          <6>1. CASE counter = "init"
            BY <4>2, <5>1, <6>1 DEF OutstandingDataDiscards, Counters
          <6>2. CASE counter = "event"
            BY <4>2, <5>1, <6>2 DEF OutstandingDataDiscards, Counters
          <6>3. CASE counter = "error"
            BY <4>2, <5>1, <6>3 DEF OutstandingDataDiscards, Counters
          <6>4. CASE counter = "faulty"
            BY <4>2, <5>1, <6>4 DEF OutstandingDataDiscards, Counters
          <6> QED
            BY <6>1, <6>2, <6>3, <6>4
        <5> QED
          BY <4>3, <4>5, <5>2
      <4> QED
        BY <4>4, <4>5
    <3> QED
      BY <2>1, <3>2, <3>3 DEF n
  <2>2. ASSUME NEW counter \in {"dqm", "faultyDQM"}, addSample(b, ch) = Count(b, ch, counter)
        PROVE  /\ addSample(b, ch) \in Books
               /\ \A s \in Senders :
                    /\ OutstandingDataDiscards(addSample(b, ch)[s]) = OutstandingDataDiscards(b[s])
                    /\ OutstandingDQMDiscards(addSample(b, ch)[s]) = OutstandingDQMDiscards(b[s])
                         + (IF s = SenderOf(ch) THEN 1 ELSE 0)
    <3>1. counter \in Counters
      BY DEF Counters
    <3> DEFINE n == Count(b, ch, counter)
    <3>2. n \in Books /\ \A s \in Senders : \A c \in Counters :
            n[s][c] = IF s = SenderOf(ch) /\ c = counter THEN b[s][c] + 1 ELSE b[s][c]
      <4>1. Counted(n, b, ch, counter)
        BY <3>1, CountAt
      <4> HIDE DEF n
      <4> QED
        BY <1>3, <4>1 DEF Counted
    <3> HIDE DEF n
    <3>3. \A s \in Senders : /\ OutstandingDataDiscards(n[s]) = OutstandingDataDiscards(b[s])
                             /\ OutstandingDQMDiscards(n[s]) = OutstandingDQMDiscards(b[s])
                                  + (IF s = SenderOf(ch) THEN 1 ELSE 0)
      BY <1>1, <3>2 DEF OutstandingDataDiscards, OutstandingDQMDiscards, Counters
    <3> QED
      BY <2>2, <3>2, <3>3 DEF n
  <2>3. CASE ch.code = "DQM_EVENT"
    <3>1. \E counter \in {"dqm", "faultyDQM"} : addSample(b, ch) = Count(b, ch, counter)
      BY <2>3 DEF addSample
    <3>2. PICK counter \in {"dqm", "faultyDQM"} : addSample(b, ch) = Count(b, ch, counter)
      BY <3>1
    <3>3. \A s \in Senders : OutstandingDataDiscards(b[s]) \in Int
      BY <1>1 DEF OutstandingDataDiscards, Counters
    <3> QED
      BY <2>2, <2>3, <3>2, <3>3
  <2>4. CASE ch.code \in {"INIT", "EVENT", "ERROR_EVENT"}
    <3>1. \E counter \in {"init", "event", "error", "faulty"} : addSample(b, ch) = Count(b, ch, counter)
      BY <2>4 DEF addSample
    <3>2. PICK counter \in {"init", "event", "error", "faulty"} : addSample(b, ch) = Count(b, ch, counter)
      BY <3>1
    <3>3. \A s \in Senders : OutstandingDQMDiscards(b[s]) \in Int
      BY <1>1 DEF OutstandingDQMDiscards, Counters
    <3> QED
      BY <2>1, <2>4, <3>2, <3>3
  <2> QED
    BY <1>3, <2>3, <2>4 DEF AllCodes, Codes
<1> QED
  BY <1>2, <1>3

Ends == {"sent", "ignored", "lookupFails", "postFails"}

\* A discard message that was sent takes one off the outstanding discards of its sender, and
\* one that was not sent takes nothing off.
LEMMA DiscardEffect ==
  ASSUME NEW b \in Books, NEW ch, NEW outcome \in Ends
  PROVE  /\ sendDiscardMessage(b, ch, outcome) \in Books
         /\ \A s \in Senders :
              /\ OutstandingDataDiscards(sendDiscardMessage(b, ch, outcome)[s]) = OutstandingDataDiscards(b[s])
                   - (IF /\ ch.code # "INVALID" /\ s = SenderOf(ch) /\ ch.code # "DQM_EVENT"
                         /\ outcome = "sent" THEN 1 ELSE 0)
              /\ OutstandingDQMDiscards(sendDiscardMessage(b, ch, outcome)[s]) = OutstandingDQMDiscards(b[s])
                   - (IF /\ ch.code # "INVALID" /\ s = SenderOf(ch) /\ ch.code = "DQM_EVENT"
                         /\ outcome = "sent" THEN 1 ELSE 0)
<1>1. \A s \in Senders : \A c \in Counters : b[s][c] \in Nat
  BY DEF Books
<1>2. \A s \in Senders : OutstandingDataDiscards(b[s]) \in Int /\ OutstandingDQMDiscards(b[s]) \in Int
  BY <1>1 DEF OutstandingDataDiscards, OutstandingDQMDiscards, Counters
<1> DEFINE n == sendDiscardMessage(b, ch, outcome)
<1>3. CASE outcome = "sent"
  <2> DEFINE counter == IF ch.code = "DQM_EVENT" THEN "dqmDiscard" ELSE "dataDiscard"
  <2>1. counter \in Counters /\ n = Count(b, ch, counter)
    BY <1>3 DEF sendDiscardMessage, Counters
  <2> HIDE DEF n, counter
  <2>2. n \in Books /\ \A s \in Senders : \A c \in Counters :
          n[s][c] = IF ch.code # "INVALID" /\ s = SenderOf(ch) /\ c = counter THEN b[s][c] + 1 ELSE b[s][c]
    BY <2>1, CountAt DEF Counted
  <2>3. \A s \in Senders :
          /\ OutstandingDataDiscards(n[s]) = OutstandingDataDiscards(b[s])
               - (IF /\ ch.code # "INVALID" /\ s = SenderOf(ch) /\ ch.code # "DQM_EVENT" THEN 1 ELSE 0)
          /\ OutstandingDQMDiscards(n[s]) = OutstandingDQMDiscards(b[s])
               - (IF /\ ch.code # "INVALID" /\ s = SenderOf(ch) /\ ch.code = "DQM_EVENT" THEN 1 ELSE 0)
    <3>1. CASE ch.code = "DQM_EVENT"
      <4>1. counter = "dqmDiscard"
        BY <3>1 DEF counter
      <4> QED
        BY <1>1, <2>2, <3>1, <4>1 DEF OutstandingDataDiscards, OutstandingDQMDiscards, Counters
    <3>2. CASE ch.code # "DQM_EVENT"
      <4>1. counter = "dataDiscard"
        BY <3>2 DEF counter
      <4> QED
        BY <1>1, <2>2, <3>2, <4>1 DEF OutstandingDataDiscards, OutstandingDQMDiscards, Counters
    <3> QED
      BY <3>1, <3>2
  <2> QED
    BY <1>3, <2>2, <2>3 DEF n
<1>4. CASE outcome \in {"ignored", "lookupFails"}
  <2>1. n = Count(b, ch, "skipped") /\ "skipped" \in Counters
    BY <1>4 DEF sendDiscardMessage, Counters
  <2> HIDE DEF n
  <2>2. n \in Books /\ \A s \in Senders : \A c \in Counters :
          n[s][c] = IF ch.code # "INVALID" /\ s = SenderOf(ch) /\ c = "skipped" THEN b[s][c] + 1 ELSE b[s][c]
    BY <2>1, CountAt DEF Counted
  <2>3. \A s \in Senders : /\ OutstandingDataDiscards(n[s]) = OutstandingDataDiscards(b[s])
                           /\ OutstandingDQMDiscards(n[s]) = OutstandingDQMDiscards(b[s])
    BY <2>2 DEF OutstandingDataDiscards, OutstandingDQMDiscards, Counters
  <2> QED
    BY <1>2, <1>4, <2>2, <2>3 DEF n
<1>5. CASE outcome = "postFails"
  <2>1. n = b
    BY <1>5 DEF sendDiscardMessage
  <2> HIDE DEF n
  <2> QED
    BY <1>2, <1>5, <2>1 DEF n
<1> QED
  BY <1>3, <1>4, <1>5 DEF Ends

\* The chains whose discard message was not sent, with one chain more.
LEMMA UnsentOne ==
  ASSUME NEW hs, IsFiniteSet(hs), NEW rec, rec \notin hs, NEW s, NEW dqm \in BOOLEAN
  PROVE  /\ Cardinality(Unsent(hs, s, dqm)) \in Nat
         /\ Cardinality(Unsent(hs \cup {rec}, s, dqm)) = Cardinality(Unsent(hs, s, dqm))
              + (IF /\ rec.chain.code # "INVALID" /\ rec.discard # "sent" /\ s = SenderOf(rec.chain)
                    /\ dqm <=> rec.chain.code = "DQM_EVENT" THEN 1 ELSE 0)
<1> DEFINE old == Unsent(hs, s, dqm)
           more == /\ rec.chain.code # "INVALID" /\ rec.discard # "sent" /\ s = SenderOf(rec.chain)
                   /\ dqm <=> rec.chain.code = "DQM_EVENT"
<1>1. old \subseteq hs /\ rec \notin old
  BY DEF Unsent
<1>2. IsFiniteSet(old) /\ Cardinality(old) \in Nat
  BY <1>1, FS_Subset, FS_CardinalityType
<1>3. Unsent(hs \cup {rec}, s, dqm) = IF more THEN old \cup {rec} ELSE old
  BY DEF Unsent
<1> HIDE DEF old, more
<1>4. Cardinality(old \cup {rec}) = Cardinality(old) + 1
  BY <1>1, <1>2, FS_AddElement
<1>5. Cardinality(Unsent(hs \cup {rec}, s, dqm)) = Cardinality(old) + (IF more THEN 1 ELSE 0)
  BY <1>2, <1>3, <1>4
<1> QED
  BY <1>2, <1>5, Zenon DEF old, more

\* An event that is distributed and whose discard message is sent or not, in either order.
LEMMA BooksStep ==
  ASSUME NEW b \in Books, NEW hs, IsFiniteSet(hs), AddUp(b, hs),
         NEW ch, ch.code \in AllCodes, NEW outcome \in Ends,
         NEW rec, rec.chain = ch, rec.discard = outcome, rec \notin hs
  PROVE  /\ IsFiniteSet(hs \cup {rec})
         /\ sendDiscardMessage(addSample(b, ch), ch, outcome) \in Books
         /\ AddUp(sendDiscardMessage(addSample(b, ch), ch, outcome), hs \cup {rec})
         /\ addSample(sendDiscardMessage(b, ch, outcome), ch) \in Books
         /\ AddUp(addSample(sendDiscardMessage(b, ch, outcome), ch), hs \cup {rec})
<1> DEFINE a1 == addSample(b, ch)
           a2 == sendDiscardMessage(a1, ch, outcome)
           d1 == sendDiscardMessage(b, ch, outcome)
           d2 == addSample(d1, ch)
           data(s) == ch.code # "INVALID" /\ s = SenderOf(ch) /\ ch.code # "DQM_EVENT"
           dqm(s) == ch.code # "INVALID" /\ s = SenderOf(ch) /\ ch.code = "DQM_EVENT"
           sent == outcome = "sent"
           all == hs \cup {rec}
<1>0. \A s \in Senders : OutstandingDataDiscards(b[s]) \in Int /\ OutstandingDQMDiscards(b[s]) \in Int
  BY DEF Books, OutstandingDataDiscards, OutstandingDQMDiscards, Counters
<1>1. a1 \in Books /\ \A s \in Senders :
        /\ OutstandingDataDiscards(a1[s]) = OutstandingDataDiscards(b[s]) + (IF data(s) THEN 1 ELSE 0)
        /\ OutstandingDQMDiscards(a1[s]) = OutstandingDQMDiscards(b[s]) + (IF dqm(s) THEN 1 ELSE 0)
  BY SampleEffect
<1>2. d1 \in Books /\ \A s \in Senders :
        /\ OutstandingDataDiscards(d1[s]) = OutstandingDataDiscards(b[s]) - (IF data(s) /\ sent THEN 1 ELSE 0)
        /\ OutstandingDQMDiscards(d1[s]) = OutstandingDQMDiscards(b[s]) - (IF dqm(s) /\ sent THEN 1 ELSE 0)
  BY DiscardEffect
<1> HIDE DEF a1, d1
<1>3. a2 \in Books /\ \A s \in Senders :
        /\ OutstandingDataDiscards(a2[s]) = OutstandingDataDiscards(a1[s]) - (IF data(s) /\ sent THEN 1 ELSE 0)
        /\ OutstandingDQMDiscards(a2[s]) = OutstandingDQMDiscards(a1[s]) - (IF dqm(s) /\ sent THEN 1 ELSE 0)
  BY <1>1, DiscardEffect
<1>4. d2 \in Books /\ \A s \in Senders :
        /\ OutstandingDataDiscards(d2[s]) = OutstandingDataDiscards(d1[s]) + (IF data(s) THEN 1 ELSE 0)
        /\ OutstandingDQMDiscards(d2[s]) = OutstandingDQMDiscards(d1[s]) + (IF dqm(s) THEN 1 ELSE 0)
  BY <1>2, SampleEffect
<1> HIDE DEF a2, d2
<1>5. ASSUME NEW s \in Senders
      PROVE  /\ Cardinality(Unsent(all, s, FALSE)) = OutstandingDataDiscards(b[s])
                  + (IF data(s) /\ ~sent THEN 1 ELSE 0)
             /\ Cardinality(Unsent(all, s, TRUE)) = OutstandingDQMDiscards(b[s])
                  + (IF dqm(s) /\ ~sent THEN 1 ELSE 0)
  <2>1. /\ OutstandingDataDiscards(b[s]) = Cardinality(Unsent(hs, s, FALSE))
        /\ OutstandingDQMDiscards(b[s]) = Cardinality(Unsent(hs, s, TRUE))
    BY DEF AddUp
  <2>2. Cardinality(Unsent(hs \cup {rec}, s, FALSE)) = Cardinality(Unsent(hs, s, FALSE))
          + (IF /\ rec.chain.code # "INVALID" /\ rec.discard # "sent" /\ s = SenderOf(rec.chain)
                /\ FALSE <=> rec.chain.code = "DQM_EVENT" THEN 1 ELSE 0)
    BY UnsentOne
  <2>3. Cardinality(Unsent(hs \cup {rec}, s, TRUE)) = Cardinality(Unsent(hs, s, TRUE))
          + (IF /\ rec.chain.code # "INVALID" /\ rec.discard # "sent" /\ s = SenderOf(rec.chain)
                /\ TRUE <=> rec.chain.code = "DQM_EVENT" THEN 1 ELSE 0)
    BY UnsentOne
  <2> QED
    BY <2>1, <2>2, <2>3
<1> HIDE DEF data, dqm, sent, all
<1>6. AddUp(a2, all)
  <2> SUFFICES ASSUME NEW s \in Senders
               PROVE  /\ OutstandingDataDiscards(a2[s]) = Cardinality(Unsent(all, s, FALSE))
                      /\ OutstandingDQMDiscards(a2[s]) = Cardinality(Unsent(all, s, TRUE))
    BY DEF AddUp
  <2>1. OutstandingDataDiscards(b[s]) \in Int /\ OutstandingDQMDiscards(b[s]) \in Int
    BY <1>0
  <2>2. OutstandingDataDiscards(a2[s]) = Cardinality(Unsent(all, s, FALSE))
    <3>1. data(s) \in BOOLEAN /\ sent \in BOOLEAN
      BY DEF data, sent
    <3>2. OutstandingDataDiscards(a1[s]) = OutstandingDataDiscards(b[s]) + (IF data(s) THEN 1 ELSE 0)
      BY <1>1
    <3>3. OutstandingDataDiscards(a2[s]) = OutstandingDataDiscards(a1[s]) - (IF data(s) /\ sent THEN 1 ELSE 0)
      BY <1>3
    <3> DEFINE size == Cardinality(Unsent(all, s, FALSE))
    <3>4. size = OutstandingDataDiscards(b[s]) + (IF data(s) /\ ~sent THEN 1 ELSE 0)
      BY <1>5
    <3> HIDE DEF size
    <3>5. OutstandingDataDiscards(a2[s]) = size
      BY <2>1, <3>1, <3>2, <3>3, <3>4
    <3> QED
      BY <3>5 DEF size
  <2>3. OutstandingDQMDiscards(a2[s]) = Cardinality(Unsent(all, s, TRUE))
    <3>1. dqm(s) \in BOOLEAN /\ sent \in BOOLEAN
      BY DEF dqm, sent
    <3>2. OutstandingDQMDiscards(a1[s]) = OutstandingDQMDiscards(b[s]) + (IF dqm(s) THEN 1 ELSE 0)
      BY <1>1
    <3>3. OutstandingDQMDiscards(a2[s]) = OutstandingDQMDiscards(a1[s]) - (IF dqm(s) /\ sent THEN 1 ELSE 0)
      BY <1>3
    <3> DEFINE size == Cardinality(Unsent(all, s, TRUE))
    <3>4. size = OutstandingDQMDiscards(b[s]) + (IF dqm(s) /\ ~sent THEN 1 ELSE 0)
      BY <1>5
    <3> HIDE DEF size
    <3>5. OutstandingDQMDiscards(a2[s]) = size
      BY <2>1, <3>1, <3>2, <3>3, <3>4
    <3> QED
      BY <3>5 DEF size
  <2> QED
    BY <2>2, <2>3
<1>7. AddUp(d2, all)
  <2> SUFFICES ASSUME NEW s \in Senders
               PROVE  /\ OutstandingDataDiscards(d2[s]) = Cardinality(Unsent(all, s, FALSE))
                      /\ OutstandingDQMDiscards(d2[s]) = Cardinality(Unsent(all, s, TRUE))
    BY DEF AddUp
  <2>1. OutstandingDataDiscards(b[s]) \in Int /\ OutstandingDQMDiscards(b[s]) \in Int
    BY <1>0
  <2>2. OutstandingDataDiscards(d2[s]) = Cardinality(Unsent(all, s, FALSE))
    <3>1. data(s) \in BOOLEAN /\ sent \in BOOLEAN
      BY DEF data, sent
    <3>2. OutstandingDataDiscards(d1[s]) = OutstandingDataDiscards(b[s]) - (IF data(s) /\ sent THEN 1 ELSE 0)
      BY <1>2
    <3>3. OutstandingDataDiscards(d2[s]) = OutstandingDataDiscards(d1[s]) + (IF data(s) THEN 1 ELSE 0)
      BY <1>4
    <3> DEFINE size == Cardinality(Unsent(all, s, FALSE))
    <3>4. size = OutstandingDataDiscards(b[s]) + (IF data(s) /\ ~sent THEN 1 ELSE 0)
      BY <1>5
    <3> HIDE DEF size
    <3>5. OutstandingDataDiscards(d2[s]) = size
      BY <2>1, <3>1, <3>2, <3>3, <3>4
    <3> QED
      BY <3>5 DEF size
  <2>3. OutstandingDQMDiscards(d2[s]) = Cardinality(Unsent(all, s, TRUE))
    <3>1. dqm(s) \in BOOLEAN /\ sent \in BOOLEAN
      BY DEF dqm, sent
    <3>2. OutstandingDQMDiscards(d1[s]) = OutstandingDQMDiscards(b[s]) - (IF dqm(s) /\ sent THEN 1 ELSE 0)
      BY <1>2
    <3>3. OutstandingDQMDiscards(d2[s]) = OutstandingDQMDiscards(d1[s]) + (IF dqm(s) THEN 1 ELSE 0)
      BY <1>4
    <3> DEFINE size == Cardinality(Unsent(all, s, TRUE))
    <3>4. size = OutstandingDQMDiscards(b[s]) + (IF dqm(s) /\ ~sent THEN 1 ELSE 0)
      BY <1>5
    <3> HIDE DEF size
    <3>5. OutstandingDQMDiscards(d2[s]) = size
      BY <2>1, <3>1, <3>2, <3>3, <3>4
    <3> QED
      BY <3>5 DEF size
  <2> QED
    BY <2>2, <2>3
<1>8. IsFiniteSet(hs \cup {rec})
  BY FS_AddElement
<1> QED
  BY <1>3, <1>4, <1>6, <1>7, <1>8 DEF a1, a2, d1, d2, all

\* The discard of a chain that is lost.
LEMMA LostStep ==
  ASSUME NEW b \in Books, NEW hs, AddUp(b, hs), NEW ch, NEW outcome \in Ends, Fails(outcome)
  PROVE  sendDiscardMessage(b, ch, outcome) \in Books /\ AddUp(sendDiscardMessage(b, ch, outcome), hs)
<1> DEFINE d1 == sendDiscardMessage(b, ch, outcome)
<1>0. \A s \in Senders : OutstandingDataDiscards(b[s]) \in Int /\ OutstandingDQMDiscards(b[s]) \in Int
  BY DEF Books, OutstandingDataDiscards, OutstandingDQMDiscards, Counters
<1>1. outcome # "sent"
  BY DEF Fails
<1>2. d1 \in Books /\ \A s \in Senders :
        /\ OutstandingDataDiscards(d1[s]) = OutstandingDataDiscards(b[s])
        /\ OutstandingDQMDiscards(d1[s]) = OutstandingDQMDiscards(b[s])
  BY <1>0, <1>1, DiscardEffect
<1> QED
  BY <1>2 DEF AddUp

-----------------------------------------------------------------------------
(* Messages under way.                                                     *)

\* Each way a discard message can end is one of those counted below, and one that fails
\* by chance is a fault.
LEMMA OutcomeBounded ==
  ASSUME faults \in 0 .. MaxFaults, NEW ch, NEW outcome \in Outcomes(ch)
  PROVE  /\ outcome \in Ends
         /\ faults + ByChance(ch, outcome) \in 0 .. MaxFaults /\ faults <= faults + ByChance(ch, outcome)
<1>1. MaxFaults \in Nat /\ faults \in Nat
  BY TrafficAssumption
<1>2. CASE ch.code = "INVALID"
  BY <1>1, <1>2 DEF Outcomes, ByChance, Fails, Ends
<1>3. CASE ch.code # "INVALID" /\ ~parsable(ch)
  BY <1>1, <1>3 DEF Outcomes, ByChance, Fails, Ends
<1>4. CASE ch.code # "INVALID" /\ parsable(ch)
  <2>1. outcome \in {"sent"} \cup (IF faults < MaxFaults THEN {"lookupFails", "postFails"} ELSE {})
    BY <1>4 DEF Outcomes
  <2>2. CASE outcome = "sent"
    BY <1>1, <2>2 DEF ByChance, Fails, Ends
  <2>3. CASE outcome # "sent"
    <3>1. faults < MaxFaults /\ outcome \in {"lookupFails", "postFails"}
      BY <2>1, <2>3
    <3>2. ByChance(ch, outcome) = 1
      BY <3>1, <1>4 DEF ByChance, Fails
    <3> QED
      BY <1>1, <3>1, <3>2 DEF Ends
  <2> QED
    BY <2>2, <2>3
<1> QED
  BY <1>2, <1>3, <1>4

\* A message stays what it is when there are more faults.
LEMMA StillSendable ==
  ASSUME NEW m, Sendable(m), faults \in Nat, faults' \in Nat, faults <= faults'
  PROVE  Sendable(m)'
<1>1. /\ m \in Seq(Fragments) /\ m # <<>> /\ OneEvent(m)
      /\ \A i \in DOMAIN m : /\ m[i].copy = m[1].copy /\ m[i].copy <= faults
                             /\ \A j \in DOMAIN m : i < j => m[i].part < m[j].part
  BY DEF Sendable
<1>2. \A i \in DOMAIN m : m[i].copy \in Nat
  <2>1. \A i \in DOMAIN m : m[i] \in Fragments
    BY <1>1, FramesTyped
  <2> QED
    BY <2>1 DEF Fragments
<1>3. \A i \in DOMAIN m : m[i].copy <= faults'
  BY <1>1, <1>2
<1> QED
  BY <1>1, <1>3 DEF Sendable, OneEvent

\* Messages that are taken, lost or left alone.
LEMMA NetworkShrinks ==
  ASSUME NetworkInv, network' \subseteq network, faults' \in 0 .. MaxFaults, faults <= faults',
         \A f \in received' : \/ f \in received
                              \/ \E m \in network \ network' : f \in ToSet(m)
  PROVE  NetworkInv'
<1>0. MaxFaults \in Nat /\ faults \in Nat /\ faults' \in Nat
  BY TrafficAssumption DEF NetworkInv
<1>1. ASSUME NEW m \in network' PROVE Sendable(m)'
  BY <1>0, <1>1, StillSendable DEF NetworkInv
<1>2. ASSUME NEW f \in received'
      PROVE  f \in Fragments /\ f.copy <= faults' /\ \A n \in network' : Id(f) \notin IdsOf(n)
  <2>1. CASE f \in received
    <3>1. f \in Fragments /\ f.copy <= faults /\ \A n \in network : Id(f) \notin IdsOf(n)
      BY <2>1 DEF NetworkInv
    <3>2. f.copy \in Nat
      BY <3>1 DEF Fragments
    <3> QED
      BY <1>0, <3>1, <3>2
  <2>2. CASE \E m \in network \ network' : f \in ToSet(m)
    <3>1. PICK m \in network \ network' : f \in ToSet(m)
      BY <2>2
    <3>2. Sendable(m)
      BY DEF NetworkInv
    <3>3. PICK i \in DOMAIN m : f = m[i]
      BY <3>1 DEF ToSet
    <3>4. f \in Fragments /\ f.copy <= faults
      BY <3>2, <3>3, FramesTyped DEF Sendable
    <3>5. Id(f) \in IdsOf(m)
      BY <3>3 DEF IdsOf
    <3>6. \A n \in network' : IdsOf(m) \cap IdsOf(n) = {}
      BY DEF NetworkInv
    <3>7. f.copy \in Nat
      BY <3>4 DEF Fragments
    <3> QED
      BY <1>0, <3>4, <3>5, <3>6, <3>7
  <2> QED
    BY <2>1, <2>2
<1>3. \A m, n \in network' : m # n => IdsOf(m) \cap IdsOf(n) = {}
  BY DEF NetworkInv
<1>4. \A m \in network' : \A f \in received' : Id(f) \notin IdsOf(m)
  BY <1>2
<1> QED
  <2> HIDE DEF NetworkInv
  <2>1. \A m \in network' : Sendable(m)'
    BY <1>1
  <2> QED
    BY <1>2, <1>3, <1>4, <2>1 DEF NetworkInv, IdsOf, Id

\* A message takes the place of another or is added.
LEMMA NetworkGains ==
  ASSUME NetworkInv, NEW N \in SUBSET network, NEW n, network' = N \cup {n},
         faults < MaxFaults, faults' = faults + 1, UNCHANGED received,
         Sendable(n)', \A m \in N : IdsOf(m) \cap IdsOf(n) = {},
         \A f \in received : Id(f) \notin IdsOf(n)
  PROVE  NetworkInv'
<1>0. MaxFaults \in Nat /\ faults \in Nat /\ faults' \in 0 .. MaxFaults /\ faults <= faults' /\ faults' \in Nat
  BY TrafficAssumption DEF NetworkInv
<1>1. ASSUME NEW m \in network' PROVE Sendable(m)'
  <2>1. CASE m \in N
    <3>1. Sendable(m)
      BY <2>1 DEF NetworkInv
    <3> QED
      BY <1>0, <3>1, StillSendable
  <2>2. CASE m = n
    BY <2>2
  <2> QED
    BY <2>1, <2>2
<1>2. received \subseteq Fragments /\ \A f \in received : f.copy <= faults'
  <2>1. \A f \in received : f \in Fragments /\ f.copy <= faults
    BY DEF NetworkInv
  <2>2. \A f \in Fragments : f.copy \in Nat
    BY DEF Fragments
  <2> QED
    BY <1>0, <2>1, <2>2
<1>3. \A m, k \in network' : m # k => IdsOf(m) \cap IdsOf(k) = {}
  <2>1. \A m, k \in N : m # k => IdsOf(m) \cap IdsOf(k) = {}
    BY DEF NetworkInv
  <2> QED
    BY <2>1
<1>4. \A m \in network' : \A f \in received : Id(f) \notin IdsOf(m)
  <2>1. \A m \in N : \A f \in received : Id(f) \notin IdsOf(m)
    BY DEF NetworkInv
  <2> QED
    BY <2>1
<1>5. \A m \in network' : Sendable(m)'
  BY <1>1
<1>6. received' = received
  OBVIOUS
<1> QED
  BY <1>0, <1>2, <1>3, <1>4, <1>5, <1>6 DEF NetworkInv, IdsOf, Id

\* A damaged fragment keeps what tells it apart.
LEMMA DamagedFragment ==
  ASSUME NEW g \in Fragments, NEW f \in Damaged(g)
  PROVE  f \in Fragments /\ f.event = g.event /\ f.part = g.part /\ f.copy = g.copy
<1>1. /\ g.event \in Nat /\ g.part \in Nat /\ g.code \in Codes \cup {"INVALID"} /\ g.index \in Nat
      /\ g.total \in Nat /\ g.intact \in BOOLEAN /\ g.copy \in Nat
      /\ g = [event |-> g.event, part |-> g.part, code |-> g.code, index |-> g.index,
              total |-> g.total, intact |-> g.intact, copy |-> g.copy]
  BY DEF Fragments
<1>2. \/ \E i \in Nat : f = [g EXCEPT !.index = i]
      \/ \E n \in Nat : f = [g EXCEPT !.total = n]
      \/ f = [g EXCEPT !.code = "INVALID"]
      \/ f = [g EXCEPT !.intact = FALSE]
  <2>1. \A i \in (0 .. g.total) \ {g.index} : i \in Nat
    BY <1>1
  <2>2. \A n \in {g.total - 1, g.total + 1} \ {-1} : n \in Nat
    BY <1>1
  <2> QED
    BY <2>1, <2>2 DEF Damaged
<1>3. CASE \E i \in Nat : f = [g EXCEPT !.index = i]
  BY <1>1, <1>3 DEF Fragments
<1>4. CASE \E n \in Nat : f = [g EXCEPT !.total = n]
  BY <1>1, <1>4 DEF Fragments
<1>5. CASE f = [g EXCEPT !.code = "INVALID"]
  BY <1>1, <1>5 DEF Fragments
<1>6. CASE f = [g EXCEPT !.intact = FALSE]
  BY <1>1, <1>6 DEF Fragments
<1> QED
  BY <1>2, <1>3, <1>4, <1>5, <1>6

\* Damage, loss and duplication leave the fragments apart.
LEMMA DamageNetwork ==
  ASSUME NetworkInv, NEW m \in network, damage(m), UNCHANGED received
  PROVE  NetworkInv'
<1>1. PICK i \in 1 .. Len(m) : \E f \in Damaged(m[i]) : Fault((network \ {m}) \cup {[m EXCEPT ![i] = f]})
  BY DEF damage
<1>2. PICK f \in Damaged(m[i]) : Fault((network \ {m}) \cup {[m EXCEPT ![i] = f]})
  BY <1>1
<1> DEFINE n == [m EXCEPT ![i] = f]
           N == network \ {m}
<1>3. Sendable(m) /\ faults \in Nat /\ MaxFaults \in Nat
  BY TrafficAssumption DEF NetworkInv
<1>4. m \in Seq(Fragments) /\ m # <<>> /\ DOMAIN m = 1 .. Len(m) /\ Len(m) \in Nat /\ 1 \in DOMAIN m
      /\ \A j \in DOMAIN m : m[j] \in Fragments
  BY <1>3, FramesTyped DEF Sendable
<1>5. f \in Fragments /\ f.event = m[i].event /\ f.part = m[i].part /\ f.copy = m[i].copy
  BY <1>2, <1>4, DamagedFragment
<1>6. /\ n \in Seq(Fragments) /\ DOMAIN n = DOMAIN m
      /\ \A j \in DOMAIN m : /\ n[j].event = m[j].event /\ n[j].part = m[j].part
                             /\ n[j].copy = m[j].copy
  BY <1>4, <1>5
<1>7. network' = N \cup {n} /\ faults < MaxFaults /\ faults' = faults + 1
  BY <1>2 DEF Fault
<1> HIDE DEF n, N
<1>8. n # <<>>
  BY <1>4, <1>6
<1>9. Sendable(n)
  BY <1>3, <1>4, <1>6, <1>8 DEF Sendable, OneEvent
<1>10. Sendable(n)'
  BY <1>3, <1>7, <1>9, StillSendable
<1>11. IdsOf(n) = IdsOf(m)
  BY <1>6 DEF IdsOf, Id
<1>12. N \in SUBSET network /\ \A x \in N : IdsOf(x) \cap IdsOf(m) = {}
  BY DEF NetworkInv, N
<1>13. \A x \in received : Id(x) \notin IdsOf(m)
  BY DEF NetworkInv
<1> QED
  BY <1>7, <1>10, <1>11, <1>12, <1>13, NetworkGains

\* A duplicate is apart from what it duplicates.
LEMMA DuplicateNetwork ==
  ASSUME NetworkInv, NEW m \in network, duplicate(m), UNCHANGED received
  PROVE  NetworkInv'
<1>0. PICK n : n = [i \in 1 .. Len(m) |-> [m[i] EXCEPT !.copy = faults + 1]]
  OBVIOUS
<1>1. faults < MaxFaults /\ faults' = faults + 1 /\ network' = network \cup {n}
  BY <1>0 DEF duplicate, Fault
<1>3. Sendable(m) /\ faults \in Nat /\ MaxFaults \in Nat
  BY TrafficAssumption DEF NetworkInv
<1>4. m \in Seq(Fragments) /\ m # <<>> /\ DOMAIN m = 1 .. Len(m) /\ Len(m) \in Nat /\ 1 \in DOMAIN m
      /\ \A j \in DOMAIN m : m[j] \in Fragments
  BY <1>3, FramesTyped DEF Sendable
<1>5. ASSUME NEW j \in DOMAIN m
      PROVE  /\ [m[j] EXCEPT !.copy = faults + 1] \in Fragments
             /\ n[j].event = m[j].event /\ n[j].part = m[j].part /\ n[j].copy = faults + 1
  <2>1. m[j] \in Fragments /\ n[j] = [m[j] EXCEPT !.copy = faults + 1]
    BY <1>0, <1>4
  <2>2. /\ m[j].event \in Nat /\ m[j].part \in Nat /\ m[j].code \in Codes \cup {"INVALID"}
        /\ m[j].index \in Nat /\ m[j].total \in Nat /\ m[j].intact \in BOOLEAN /\ faults + 1 \in Nat
    BY <1>3, <2>1 DEF Fragments
  <2> QED
    BY <2>1, <2>2 DEF Fragments
<1>6. /\ n \in Seq(Fragments) /\ DOMAIN n = DOMAIN m
      /\ \A j \in DOMAIN m : n[j].event = m[j].event /\ n[j].part = m[j].part /\ n[j].copy = faults + 1
  <2>1. n \in [1 .. Len(m) -> Fragments]
    BY <1>0, <1>4, <1>5
  <2>2. n \in Seq(Fragments)
    BY <1>4, <2>1
  <2> QED
    BY <1>4, <1>5, <2>1, <2>2
<1>7. n # <<>>
  BY <1>4, <1>6
<1>8. Sendable(n)'
  <2>1. \A j \in DOMAIN n : n[j].copy <= faults'
    BY <1>1, <1>3, <1>6
  <2> QED
    BY <2>1, <1>1, <1>3, <1>4, <1>6, <1>7 DEF Sendable, OneEvent
<1>9. ASSUME NEW f, f.copy \in Nat, f.copy <= faults PROVE Id(f) \notin IdsOf(n)
  <2>1. \A j \in DOMAIN n : n[j].copy # f.copy
    BY <1>3, <1>6, <1>9
  <2> QED
    BY <2>1 DEF Id, IdsOf
<1>10. \A x \in network : IdsOf(x) \cap IdsOf(n) = {}
  <2> SUFFICES ASSUME NEW x \in network, NEW j \in DOMAIN x PROVE Id(x[j]) \notin IdsOf(n)
    BY DEF IdsOf
  <2>1. x \in Seq(Fragments) /\ x[j].copy <= faults
    BY DEF NetworkInv, Sendable
  <2>2. x[j].copy \in Nat
    BY <2>1, FramesTyped DEF Fragments
  <2> QED
    BY <1>9, <2>1, <2>2
<1>11. \A f \in received : Id(f) \notin IdsOf(n)
  <2> TAKE f \in received
  <2>1. f \in Fragments /\ f.copy <= faults
    BY DEF NetworkInv
  <2>2. f.copy \in Nat
    BY <2>1 DEF Fragments
  <2> QED
    BY <1>9, <2>1, <2>2
<1> QED
  BY <1>1, <1>8, <1>10, <1>11, NetworkGains

\* The fragments of a message are apart, and apart from all that was received.
LEMMA MessageApart ==
  ASSUME NetworkInv, NEW m \in network
  PROVE  /\ Sendable(m) /\ Distinct(m) /\ \A f \in ToSet(m) : \A g \in received : Id(f) # Id(g)
<1>1. Sendable(m) /\ \A g \in received : Id(g) \notin IdsOf(m)
  BY DEF NetworkInv
<1>2. \A f \in ToSet(m) : Id(f) \in IdsOf(m)
  BY DEF ToSet, IdsOf
<1>3. Distinct(m)
  <2> SUFFICES ASSUME NEW i \in DOMAIN m, NEW j \in DOMAIN m, Id(m[i]) = Id(m[j]) PROVE i = j
    BY DEF Distinct
  <2>1. m[i].part = m[j].part
    BY DEF Id
  <2>2. m \in Seq(Fragments) /\ i \in Nat /\ j \in Nat /\ m[i].part \in Nat /\ m[j].part \in Nat
    <3>1. m \in Seq(Fragments)
      BY <1>1 DEF Sendable
    <3>2. m[i] \in Fragments /\ m[j] \in Fragments /\ DOMAIN m = 1 .. Len(m) /\ Len(m) \in Nat
      BY <3>1, FramesTyped
    <3>3. i \in Nat /\ j \in Nat
      BY <3>2
    <3>4. m[i].part \in Nat /\ m[j].part \in Nat
      BY <3>2 DEF Fragments
    <3> QED
      BY <3>1, <3>3, <3>4
  <2>3. ~(i < j) /\ ~(j < i)
    BY <1>1, <2>1, <2>2 DEF Sendable
  <2> QED
    BY <2>2, <2>3
<1> QED
  BY <1>1, <1>2, <1>3

-----------------------------------------------------------------------------
(* The steps.                                                              *)

\* A chain that leaves the store or never got there: it is finished, or is known to be
\* incomplete and not whole.
Leaves(ch) == ch \in Chains /\ (Finished(ch) \/ (~ch.complete /\ ~Whole(ch)))

\* The three books agree on what is handed over.
Recorded(ch, outcome) ==
  \/ monitor' = sendDiscardMessage(addSample(monitor, ch), ch, outcome)
  \/ monitor' = addSample(sendDiscardMessage(monitor, ch, outcome), ch)

\* A chain that is handed over gets a place of its own.
LEMMA HandedElsewhere ==
  ASSUME NEW ch, NEW outcome, addEventToRelevantQueues(ch, outcome), UNCHANGED <<lost, cleared>>
  PROVE  /\ Elsewhere' = Elsewhere \cup {Holder("handed", ch)}
         /\ Holder("handed", ch) \notin Elsewhere =>
              [chain |-> ch, to |-> Destination(ch), discard |-> outcome] \notin handed
<1> DEFINE rec == [chain |-> ch, to |-> Destination(ch), discard |-> outcome]
           was == {h.chain : h \in handed}
<1>1. handed' = handed \cup {rec} /\ rec.chain = ch
  BY DEF addEventToRelevantQueues
<1> HIDE DEF rec
<1>2. {h.chain : h \in handed}' = was \cup {ch}
  BY <1>1
<1>3. In("handed", {h.chain : h \in handed})' = In("handed", was) \cup {Holder("handed", ch)}
  BY <1>2 DEF In, Holder
<1>4. In("lost", lost)' = In("lost", lost) /\ In("cleared", cleared)' = In("cleared", cleared)
  OBVIOUS
<1>5. Elsewhere' = Elsewhere \cup {Holder("handed", ch)}
  BY <1>3, <1>4 DEF Elsewhere
<1>6. rec \in handed => Holder("handed", ch) \in Elsewhere
  <2>1. rec \in handed => ch \in was
    BY <1>1
  <2>2. ch \in was => Holder("handed", ch) \in In("handed", was)
    BY DEF In, Holder
  <2> QED
    BY <2>1, <2>2 DEF Elsewhere
<1> QED
  BY <1>5, <1>6 DEF rec

\* It keeps what is known of the chains that have left, and the books in order.
LEMMA HandedOver ==
  ASSUME LeftInv, BooksInv, NEW ch, Leaves(ch), NEW outcome \in Ends,
         addEventToRelevantQueues(ch, outcome), UNCHANGED <<lost, cleared>>,
         Holder("handed", ch) \notin Elsewhere, Recorded(ch, outcome)
  PROVE  LeftInv' /\ BooksInv'
<1> DEFINE rec == [chain |-> ch, to |-> Destination(ch), discard |-> outcome]
<1>1. handed' = handed \cup {rec} /\ rec.chain = ch /\ rec.discard = outcome /\ rec.to = Destination(ch)
  BY DEF addEventToRelevantQueues
<1>2. rec \notin handed
  BY HandedElsewhere
<1> HIDE DEF rec
<1>3. LeftInv'
  <2>1. \A h \in handed' : /\ h.to = Destination(h.chain) /\ h.chain \in Chains
                           /\ Finished(h.chain) \/ (~h.chain.complete /\ ~Whole(h.chain))
    BY <1>1 DEF LeftInv, Leaves
  <2>2. \A x \in lost' \cup cleared' : x \in Chains /\ ~Whole(x)
    BY DEF LeftInv
  <2> QED
    BY <2>1, <2>2 DEF LeftInv
<1>4. ch.code \in AllCodes
  BY DEF Leaves, Chains
<1>5. monitor \in Books /\ IsFiniteSet(handed) /\ AddUp(monitor, handed)
  BY DEF BooksInv, DiscardsAddUp, AddUp, Unsent, Books
<1>6. IsFiniteSet(handed') /\ monitor' \in Books /\ AddUp(monitor', handed')
  BY <1>1, <1>2, <1>4, <1>5, BooksStep DEF Recorded
<1>7. BooksInv'
  BY <1>6 DEF BooksInv, DiscardsAddUp, AddUp, Unsent, Books
<1> QED
  BY <1>3, <1>7

\* A chain that is lost with its discard message.
LEMMA Lost ==
  ASSUME LeftInv, BooksInv, NEW ch, ch \in Chains, ~Whole(ch), NEW outcome \in Ends, Fails(outcome),
         lost' = lost \cup {ch}, UNCHANGED <<handed, cleared>>,
         monitor' = sendDiscardMessage(monitor, ch, outcome)
  PROVE  LeftInv' /\ BooksInv' /\ Elsewhere' = Elsewhere \cup {Holder("lost", ch)}
<1>1. LeftInv'
  BY DEF LeftInv
<1>2. monitor \in Books /\ IsFiniteSet(handed) /\ AddUp(monitor, handed)
  BY DEF BooksInv, DiscardsAddUp, AddUp, Unsent, Books
<1>3. monitor' \in Books /\ AddUp(monitor', handed') /\ IsFiniteSet(handed')
  BY <1>2, LostStep
<1>4. BooksInv'
  BY <1>3 DEF BooksInv, DiscardsAddUp, AddUp, Unsent, Books
<1>5. Elsewhere' = Elsewhere \cup {Holder("lost", ch)}
  <2>1. In("lost", lost)' = In("lost", lost) \cup {Holder("lost", ch)}
    BY DEF In, Holder
  <2>2. In("handed", {h.chain : h \in handed})' = In("handed", {h.chain : h \in handed})
    OBVIOUS
  <2>3. In("cleared", cleared)' = In("cleared", cleared)
    OBVIOUS
  <2> QED
    BY <2>1, <2>2, <2>3 DEF Elsewhere
<1> QED
  BY <1>1, <1>4, <1>5

\* The store with one unfinished chain put under its key.
LEMMA StoreInvPut ==
  ASSUME StoreInv, NEW k, NEW v, Unfinished(v), fragmentKey(v) = k, store' = Put(store, k, v)
  PROVE  StoreInv'
BY DEF StoreInv, Put

\* The store with one chain less.
LEMMA StoreInvWithout ==
  ASSUME StoreInv, NEW k, store' = Without(store, k)
  PROVE  StoreInv'
BY DEF StoreInv, Without

\* A complete chain leaves; a finished one is complete.
LEMMA ChainLeaves ==
  ASSUME NEW ch
  PROVE  /\ Finished(ch) => Leaves(ch) /\ ch.complete
         /\ Unfinished(ch) => ch \in Chains /\ ~ch.complete
BY DEF Leaves, Finished, Unfinished, Growing, GrowingIf

-----------------------------------------------------------------------------
(* A message is received.                                                  *)

\* A message is received (FragmentProcessor::processOneFragment): its chain is complete, is
\* stored, joins a stored chain, or completes it.
LEMMA ReceiveStep ==
  ASSUME IInv, NEW m \in network, receive(m)
  PROVE  IInv'
<1> USE DEF IInv
<1> DEFINE c0 == I2OChain(m)
           added == addFragment(c0)
           ch == added.chain
<1>1. Sendable(m) /\ Distinct(m) /\ \A f \in ToSet(m) : \A g \in received : Id(f) # Id(g)
  BY MessageApart
<1>2. c0.frames = m /\ (Unfinished(c0) \/ Finished(c0))
  BY <1>1, MessageChain
<1>3. /\ network' = network \ {m} /\ received' = received \cup ToSet(m)
      /\ store' = added.store /\ memoryUsed' = added.memory
      /\ ch.complete => \E outcome \in Outcomes(ch) :
               /\ addEventToRelevantQueues(ch, outcome)
               /\ monitor' = sendDiscardMessage(addSample(monitor, ch), ch, outcome)
               /\ faults' = faults + ByChance(ch, outcome)
      /\ ~ch.complete => UNCHANGED <<handed, monitor, faults>>
      /\ UNCHANGED <<lost, cleared>>
  BY DEF receive
<1> HIDE DEF c0
<1>4. m \in Seq(Fragments) /\ m # <<>> /\ DOMAIN m = 1 .. Len(m) /\ Len(m) \in Nat
  BY <1>1, FramesTyped DEF Sendable
<1>5. faults \in 0 .. MaxFaults
  BY DEF NetworkInv
\* What holds of the network, whatever becomes of the chain.
<1>6. NetworkInv'
  <2>1. network' \subseteq network
    BY <1>3
  <2>2. \A f \in received' : f \in received \/ \E n \in network \ network' : f \in ToSet(n)
    BY <1>3
  <2>3. faults' \in 0 .. MaxFaults /\ faults <= faults'
    <3>1. CASE ch.complete
      BY <1>3, <1>5, <3>1, OutcomeBounded
    <3>2. CASE ~ch.complete
      BY <1>3, <1>5, <3>2, TrafficAssumption
    <3> QED
      BY <3>1, <3>2
  <2> HIDE DEF IInv, added, ch
  <2> QED
    BY <2>1, <2>2, <2>3, NetworkShrinks DEF IInv
\* What becomes of a finished chain.
<1>7. ASSUME Finished(ch), PlacesInv', Holder("handed", ch) \notin Elsewhere
      PROVE  LeftInv' /\ BooksInv'
  <2>1. ch.complete /\ Leaves(ch)
    BY <1>7, ChainLeaves
  <2>2. PICK outcome \in Outcomes(ch) :
               /\ addEventToRelevantQueues(ch, outcome)
               /\ monitor' = sendDiscardMessage(addSample(monitor, ch), ch, outcome)
               /\ faults' = faults + ByChance(ch, outcome)
    BY <1>3, <2>1
  <2>3. outcome \in Ends
    BY <1>5, OutcomeBounded
  <2> HIDE DEF added, ch
  <2> QED
    BY <1>3, <1>7, <2>1, <2>2, <2>3, HandedOver DEF Recorded
<1>8. ASSUME Finished(ch) PROVE Elsewhere' = Elsewhere \cup {Holder("handed", ch)}
  <2>1. ch.complete
    BY <1>8, ChainLeaves
  <2> HIDE DEF added, ch
  <2> QED
    BY <1>3, <2>1, HandedElsewhere
<1>9. CASE c0.complete
  <2>1. Finished(c0)
    BY <1>2, <1>9, ChainLeaves
  <2>2. added = [store |-> store, memory |-> memoryUsed, chain |-> c0]
    BY <1>9 DEF addFragment
  <2>3. ch = c0 /\ store' = store /\ memoryUsed' = memoryUsed
    BY <1>3, <2>2
  <2> HIDE DEF added, ch
  <2>4. StoreInv'
    BY <2>3 DEF StoreInv
  <2> DEFINE h == Holder("handed", ch)
  <2>5. h.chain = c0
    BY <2>3 DEF Holder
  <2>6. Elsewhere' = Elsewhere \cup {h}
    BY <1>8, <2>1, <2>3
  <2> HIDE DEF h
  <2>7. PlacesInv' /\ h \notin Elsewhere
    BY <1>1, <1>2, <1>3, <1>4, <2>3, <2>5, <2>6, DirectPlaces
  <2> QED
    BY <1>6, <1>7, <2>1, <2>3, <2>4, <2>7 DEF h
<1>10. CASE ~c0.complete
  <2> DEFINE key == fragmentKey(c0)
             joined == IF key \in DOMAIN store THEN addToChain(store[key], c0) ELSE c0
  <2>1. Unfinished(c0)
    BY <1>2, <1>10, ChainLeaves
  <2>2. memoryUsedBy(c0) = Len(m)
    BY <1>2 DEF memoryUsedBy
  <2>3. added = IF joined.complete
                THEN [store |-> Without(store, key),
                      memory |-> (memoryUsed + memoryUsedBy(c0)) - memoryUsedBy(joined), chain |-> joined]
                ELSE [store |-> Put(store, key, joined), memory |-> memoryUsed + memoryUsedBy(c0),
                      chain |-> joined]
    BY <1>10 DEF addFragment
  <2>4. /\ ch = joined
        /\ joined.complete => /\ store' = Without(store, key)
                              /\ memoryUsed' = (memoryUsed + Len(m)) - memoryUsedBy(joined)
        /\ ~joined.complete => store' = Put(store, key, joined) /\ memoryUsed' = memoryUsed + Len(m)
    BY <1>3, <2>2, <2>3
  <2> HIDE DEF added, ch
  <2>5. memoryUsed \in Nat
    BY FS_CardinalityType DEF PlacesInv
  <2>6. /\ (Unfinished(joined) /\ fragmentKey(joined) = key) \/ (Finished(joined) /\ key \in DOMAIN store)
        /\ ToSet(joined.frames) = (IF key \in DOMAIN store THEN ToSet(store[key].frames) ELSE {}) \cup ToSet(m)
        /\ Len(joined.frames) = (IF key \in DOMAIN store THEN Len(store[key].frames) ELSE 0) + Len(m)
        /\ Distinct(joined.frames)
        /\ key \in DOMAIN store => Len(store[key].frames) \in Nat
    <3>1. CASE key \in DOMAIN store
      <4>1. joined = addToChain(store[key], c0)
        BY <3>1
      <4>2. Unfinished(store[key]) /\ fragmentKey(store[key]) = key
        BY <3>1 DEF StoreInv
      <4> HIDE DEF joined
      <4>3. Distinct(store[key].frames) /\ IdsOf(m) \cap IdsOf(store[key].frames) = {}
        <5>1. Holder("store", store[key]) \in Holders
          BY <3>1, StoredHolder
        <5>2. Distinct(store[key].frames)
          BY <5>1 DEF PlacesInv, Spread, Holder
        <5>3. \A f \in ToSet(m) : Id(f) \notin IdsOf(store[key].frames)
          BY <1>1, <5>1, FreshIds DEF Holder
        <5>4. \A x \in IdsOf(m) : \E f \in ToSet(m) : x = Id(f)
          BY DEF IdsOf, ToSet
        <5> QED
          BY <5>2, <5>3, <5>4
      <4>4. /\ (Unfinished(joined) /\ fragmentKey(joined) = key) \/ Finished(joined)
            /\ ToSet(joined.frames) = ToSet(store[key].frames) \cup ToSet(c0.frames)
            /\ Len(joined.frames) = Len(store[key].frames) + Len(c0.frames)
            /\ Distinct(joined.frames)
        BY <1>1, <1>2, <2>1, <4>1, <4>2, <4>3, AddedChain
      <4>5. Len(store[key].frames) \in Nat
        BY <3>1, StoredHolder
      <4> QED
        BY <1>2, <3>1, <4>4, <4>5
    <3>2. CASE key \notin DOMAIN store
      BY <1>1, <1>2, <1>4, <2>1, <3>2
    <3> QED
      BY <3>1, <3>2
  <2> HIDE DEF joined, key
  <2>7. CASE Unfinished(joined) /\ fragmentKey(joined) = key
    <3>1. joined \in Chains /\ ~joined.complete /\ joined.frames # <<>>
      BY <2>7 DEF Unfinished, Growing, GrowingIf
    <3>2. joined.frames \in Seq(Fragments)
      BY <3>1 DEF Chains
    <3>3. store' = Put(store, key, joined) /\ memoryUsed' = memoryUsed + Len(m)
          /\ UNCHANGED <<handed, monitor, lost, cleared>>
      BY <1>3, <2>4, <3>1
    <3>4. StoreInv'
      BY <2>7, <3>3, StoreInvPut
    <3>5. PlacesInv'
      BY <1>1, <1>3, <1>4, <2>6, <3>1, <3>2, <3>3, PutPlaces
    <3>6. LeftInv' /\ BooksInv'
      BY <3>3 DEF LeftInv, BooksInv, DiscardsAddUp
    <3> QED
      BY <1>6, <3>4, <3>5, <3>6
  <2>8. CASE Finished(joined) /\ key \in DOMAIN store
    <3>1. joined.complete /\ joined \in Chains /\ joined.frames # <<>>
      BY <2>8 DEF Finished
    <3>2. joined.frames \in Seq(Fragments) /\ Len(joined.frames) \in Nat
      BY <3>1 DEF Chains
    <3>3. store' = Without(store, key) /\ memoryUsed' = memoryUsed - Len(store[key].frames)
      BY <1>4, <2>4, <2>5, <2>6, <2>8, <3>1, <3>2 DEF memoryUsedBy
    <3>4. StoreInv'
      BY <3>3, StoreInvWithout
    <3> DEFINE h == Holder("handed", ch)
    <3>5. h.chain = joined
      BY <2>4 DEF Holder
    <3>6. Elsewhere' = Elsewhere \cup {h}
      BY <1>8, <2>4, <2>8
    <3> HIDE DEF h
    <3>7. ToSet(joined.frames) = ToSet(store[key].frames) \cup ToSet(m)
      BY <2>6, <2>8
    <3>8. PlacesInv' /\ h \notin Elsewhere
      BY <1>1, <1>3, <2>6, <2>8, <3>1, <3>2, <3>3, <3>5, <3>6, <3>7, LeavePlaces
    <3> QED
      BY <1>6, <1>7, <2>4, <2>8, <3>4, <3>8 DEF h
  <2> QED
    BY <2>6, <2>7, <2>8
<1> QED
  BY <1>9, <1>10

\* A stale event leaves the store: it has every fragment that was stored, and is no whole event.
LEMMA StaleChain ==
  ASSUME NEW ch, Unfinished(ch), NEW c, c = [ch EXCEPT !.bits = @ \cup {"EXTERNALLY_REQUESTED"}]
  PROVE  /\ c.frames = ch.frames /\ c \in Chains /\ ~c.complete /\ ~Whole(c) /\ Leaves(c)
         /\ c.frames # <<>> /\ c.frames \in Seq(Fragments)
<1>1. ch \in Chains /\ ~ch.complete /\ ch.frames # <<>>
  BY DEF Unfinished, Growing, GrowingIf
<1>2. "EXTERNALLY_REQUESTED" \in Bits
  BY DEF Bits
<1>3. c \in Chains /\ c.frames = ch.frames /\ c.complete = ch.complete /\ c.code = ch.code
  BY <1>1, <1>2 DEF Chains
<1>4. ~Whole(ch)
  BY UnfinishedNotWhole
<1>5. ~Whole(c)
  BY <1>3, <1>4 DEF Whole, FragmentsOf
<1>6. ch.frames \in Seq(Fragments)
  BY <1>1 DEF Chains
<1> QED
  BY <1>1, <1>3, <1>5, <1>6 DEF Leaves

\* A stale event leaves the store, for the distributor or for nowhere when its discard
\* message fails (FragmentProcessor::noFragmentToProcess).
LEMMA StaleStep ==
  ASSUME IInv, noFragmentToProcess
  PROVE  IInv'
<1> USE DEF IInv
<1>1. PICK key \in DOMAIN store :
        LET ch == [store[key] EXCEPT !.bits = @ \cup {"EXTERNALLY_REQUESTED"}]
        IN /\ store' = Without(store, key) /\ memoryUsed' = memoryUsed - memoryUsedBy(ch)
           /\ \E outcome \in Outcomes(ch) :
               /\ faults' = faults + ByChance(ch, outcome)
               /\ IF Fails(outcome)
                  THEN /\ lost' = lost \cup {ch} /\ UNCHANGED handed
                       /\ monitor' = sendDiscardMessage(monitor, ch, outcome)
                  ELSE /\ addEventToRelevantQueues(ch, outcome) /\ UNCHANGED lost
                       /\ monitor' = addSample(sendDiscardMessage(monitor, ch, outcome), ch)
  BY DEF noFragmentToProcess
<1>2. UNCHANGED <<network, received, cleared>>
  BY DEF noFragmentToProcess
<1>3. PICK ch : ch = [store[key] EXCEPT !.bits = @ \cup {"EXTERNALLY_REQUESTED"}]
  OBVIOUS
<1>4. /\ store' = Without(store, key) /\ memoryUsed' = memoryUsed - memoryUsedBy(ch)
      /\ \E outcome \in Outcomes(ch) :
               /\ faults' = faults + ByChance(ch, outcome)
               /\ IF Fails(outcome)
                  THEN /\ lost' = lost \cup {ch} /\ UNCHANGED handed
                       /\ monitor' = sendDiscardMessage(monitor, ch, outcome)
                  ELSE /\ addEventToRelevantQueues(ch, outcome) /\ UNCHANGED lost
                       /\ monitor' = addSample(sendDiscardMessage(monitor, ch, outcome), ch)
  BY <1>1, <1>3
<1>5. PICK outcome \in Outcomes(ch) :
               /\ faults' = faults + ByChance(ch, outcome)
               /\ IF Fails(outcome)
                  THEN /\ lost' = lost \cup {ch} /\ UNCHANGED handed
                       /\ monitor' = sendDiscardMessage(monitor, ch, outcome)
                  ELSE /\ addEventToRelevantQueues(ch, outcome) /\ UNCHANGED lost
                       /\ monitor' = addSample(sendDiscardMessage(monitor, ch, outcome), ch)
  BY <1>4
<1>6. faults \in 0 .. MaxFaults
  BY DEF NetworkInv
<1>7. outcome \in Ends /\ faults' \in 0 .. MaxFaults /\ faults <= faults'
  BY <1>5, <1>6, OutcomeBounded
<1>8. NetworkInv'
  BY <1>2, <1>7, NetworkShrinks
<1>9. Unfinished(store[key])
  BY DEF StoreInv
<1>10. /\ ch.frames = store[key].frames /\ ch \in Chains /\ ~ch.complete /\ ~Whole(ch) /\ Leaves(ch)
       /\ ch.frames # <<>> /\ ch.frames \in Seq(Fragments)
  BY <1>3, <1>9, StaleChain
<1>11. StoreInv'
  BY <1>4, StoreInvWithout
<1>12. Distinct(ch.frames)
  <2>1. Holder("store", store[key]) \in Holders
    BY StoredHolder
  <2> QED
    BY <1>10, <2>1 DEF PlacesInv, Spread, Holder
<1>13. ASSUME NEW h, h.chain = ch, Elsewhere' = Elsewhere \cup {h}
       PROVE  PlacesInv' /\ h \notin Elsewhere
  <2> DEFINE new == {}
  <2>1. received' = received \cup new /\ \A f \in new : \A g \in received : Id(f) # Id(g)
    BY <1>2
  <2>2. ToSet(h.chain.frames) = ToSet(store[key].frames) \cup new
    BY <1>10, <1>13
  <2>3. memoryUsed' = memoryUsed - Len(store[key].frames)
    BY <1>4, <1>10 DEF memoryUsedBy
  <2> HIDE DEF new
  <2> QED
    BY <1>4, <1>10, <1>12, <1>13, <2>1, <2>2, <2>3, LeavePlaces
<1>14. CASE Fails(outcome)
  <2>1. lost' = lost \cup {ch} /\ UNCHANGED <<handed, cleared>>
        /\ monitor' = sendDiscardMessage(monitor, ch, outcome)
    BY <1>2, <1>5, <1>14
  <2>2. LeftInv' /\ BooksInv' /\ Elsewhere' = Elsewhere \cup {Holder("lost", ch)}
    BY <1>7, <1>10, <1>14, <2>1, Lost
  <2>3. PlacesInv'
    BY <1>13, <2>2 DEF Holder
  <2> QED
    BY <1>8, <1>11, <2>2, <2>3
<1>15. CASE ~Fails(outcome)
  <2>1. addEventToRelevantQueues(ch, outcome) /\ UNCHANGED <<lost, cleared>> /\ Recorded(ch, outcome)
    BY <1>2, <1>5, <1>15 DEF Recorded
  <2>2. Elsewhere' = Elsewhere \cup {Holder("handed", ch)}
    BY <2>1, HandedElsewhere
  <2>3. PlacesInv' /\ Holder("handed", ch) \notin Elsewhere
    BY <1>13, <2>2 DEF Holder
  <2>4. LeftInv' /\ BooksInv'
    BY <1>7, <1>10, <2>1, <2>3, HandedOver
  <2> QED
    BY <1>8, <1>11, <2>3, <2>4
<1> QED
  BY <1>14, <1>15

\* The time-out of an event changes nothing about its fragments.
LEMMA WindowStep ==
  ASSUME IInv, NEW key \in DOMAIN store, windowPasses(key)
  PROVE  IInv'
<1> USE DEF IInv
<1>1. PICK v : v = [store[key] EXCEPT !.windowOver = TRUE]
  OBVIOUS
<1>2. /\ store' = [store EXCEPT ![key] = v]
      /\ UNCHANGED <<network, faults, memoryUsed, monitor, received, handed, lost, cleared>>
  BY <1>1 DEF windowPasses
<1>3. Unfinished(store[key]) /\ fragmentKey(store[key]) = key /\ store[key] \in Chains
  BY DEF StoreInv, Unfinished, Growing, GrowingIf
<1>4. /\ v \in Chains /\ v.frames = store[key].frames /\ v.code = store[key].code
      /\ v.bits = store[key].bits /\ v.complete = store[key].complete /\ v.expected = store[key].expected
  BY <1>1, <1>3 DEF Chains
<1>5. Unfinished(v) /\ fragmentKey(v) = key
  BY <1>3, <1>4 DEF Unfinished, Growing, GrowingIf, fragmentKey, parsable
<1>6. store' = Put(store, key, v)
  BY <1>2 DEF Put
<1>7. StoreInv'
  BY <1>5, <1>6, StoreInvPut
<1>8. NetworkInv'
  <2>1. network' \subseteq network /\ faults' \in 0 .. MaxFaults /\ faults <= faults'
    BY <1>2, TrafficAssumption DEF NetworkInv
  <2>2. \A f \in received' : f \in received
    BY <1>2
  <2> QED
    BY <2>1, <2>2, NetworkShrinks
<1>9. LeftInv' /\ BooksInv'
  BY <1>2 DEF LeftInv, BooksInv, DiscardsAddUp
<1>10. PlacesInv'
  <2> DEFINE new == {}
  <2>1. received' = received \cup new /\ \A f \in new : \A g \in received : Id(f) # Id(g)
    BY <1>2
  <2>2. Distinct(v.frames) /\ v.frames # <<>> /\ v.frames \in Seq(Fragments) /\ Len(v.frames) \in Nat
    <3>1. Holder("store", store[key]) \in Holders
      BY StoredHolder
    <3>2. Distinct(store[key].frames)
      BY <3>1 DEF PlacesInv, Spread, Holder
    <3> QED
      BY <1>4, <3>2, StoredHolder
  <2>3. ToSet(v.frames) = (IF key \in DOMAIN store THEN ToSet(store[key].frames) ELSE {}) \cup new
    BY <1>4
  <2>4. Len(v.frames) = (IF key \in DOMAIN store THEN Len(store[key].frames) ELSE 0) + 0
    BY <1>4, <2>2
  <2>5. memoryUsed' = memoryUsed + 0
    BY <1>2, FS_CardinalityType DEF PlacesInv
  <2> HIDE DEF new
  <2> QED
    BY <1>2, <1>6, <2>1, <2>2, <2>3, <2>4, <2>5, PutPlaces
<1> QED
  BY <1>7, <1>8, <1>9, <1>10

\* The run is left: what was waiting was not whole.
LEMMA ClearStep ==
  ASSUME IInv, clear
  PROVE  IInv'
<1> USE DEF IInv
<1>1. /\ faults < MaxFaults /\ faults' = faults + 1 /\ cleared' = cleared \cup Stored
      /\ store' = <<>> /\ memoryUsed' = 0 /\ UNCHANGED <<network, monitor, received, handed, lost>>
  BY DEF clear, Stored
<1>2. NetworkInv'
  <2>1. faults' \in 0 .. MaxFaults /\ faults <= faults' /\ network' \subseteq network
    BY <1>1, TrafficAssumption DEF NetworkInv
  <2>2. \A f \in received' : f \in received
    BY <1>1
  <2> QED
    BY <2>1, <2>2, NetworkShrinks
<1>3. StoreInv'
  BY <1>1 DEF StoreInv
<1>4. LeftInv'
  <2>1. \A ch \in Stored : ch \in Chains /\ ~Whole(ch)
    BY UnfinishedNotWhole DEF Stored, StoreInv, Unfinished, Growing, GrowingIf
  <2> QED
    BY <1>1, <2>1 DEF LeftInv
<1>5. PlacesInv'
  BY <1>1, ClearPlaces
<1>6. BooksInv'
  BY <1>1 DEF BooksInv, DiscardsAddUp
<1> QED
  BY <1>2, <1>3, <1>4, <1>5, <1>6

\* Fragments stay where they are while the places do not change.
LEMMA PlacesKept ==
  ASSUME PlacesInv, UNCHANGED <<store, memoryUsed, received, handed, lost, cleared>>
  PROVE  PlacesInv'
<1>1. Stored' = Stored
  BY DEF Stored
<1>2. In("store", Stored)' = In("store", Stored)
  BY <1>1 DEF In
<1>3. Holders' = Holders
  BY <1>2 DEF Holders, In
<1>4. Content(Holders)' = Content(Holders)
  BY <1>3 DEF Content, FragmentsOf
<1>5. Spread(Holders)'
  <2>1. Spread(Holders)
    BY DEF PlacesInv
  <2> QED
    BY <1>3, <2>1 DEF Spread, Distinct, IdsOf, Id
<1>6. Slots(In("store", Stored))' = Slots(In("store", Stored))
  BY <1>2 DEF Slots
<1> QED
  BY <1>4, <1>5, <1>6 DEF PlacesInv

\* What happens on the way happens to no fragment that was received.
LEMMA OnTheWayStep ==
  ASSUME IInv, onTheWay
  PROVE  IInv'
<1> USE DEF IInv
<1>1. UNCHANGED <<store, memoryUsed, monitor, received, handed, lost, cleared>>
  BY DEF onTheWay
<1>2. PICK m \in network : damage(m) \/ lose(m) \/ duplicate(m)
  BY DEF onTheWay
<1>3. NetworkInv'
  <2>1. CASE damage(m)
    BY <1>1, <2>1, DamageNetwork
  <2>2. CASE lose(m)
    <3>1. network' = network \ {m} /\ faults < MaxFaults /\ faults' = faults + 1
      BY <2>2 DEF lose, Fault
    <3>2. faults' \in 0 .. MaxFaults /\ faults <= faults'
      BY <3>1, TrafficAssumption DEF NetworkInv
    <3>3. \A f \in received' : f \in received
      BY <1>1
    <3> QED
      BY <3>1, <3>2, <3>3, NetworkShrinks
  <2>3. CASE duplicate(m)
    BY <1>1, <2>3, DuplicateNetwork
  <2> QED
    BY <1>2, <2>1, <2>2, <2>3
<1>4. StoreInv' /\ LeftInv' /\ BooksInv'
  BY <1>1 DEF StoreInv, LeftInv, BooksInv, DiscardsAddUp
<1>5. PlacesInv'
  BY <1>1, PlacesKept
<1> QED
  BY <1>3, <1>4, <1>5

\* A step that changes nothing.
LEMMA IdleStep ==
  ASSUME IInv, UNCHANGED vars
  PROVE  IInv'
<1> USE DEF IInv
<1>1. UNCHANGED <<network, faults, store, memoryUsed, monitor, received, handed, lost, cleared>>
  BY DEF vars
<1>2. NetworkInv'
  <2>1. network' \subseteq network /\ faults' \in 0 .. MaxFaults /\ faults <= faults'
    BY <1>1, TrafficAssumption DEF NetworkInv
  <2>2. \A f \in received' : f \in received
    BY <1>1
  <2> QED
    BY <2>1, <2>2, NetworkShrinks
<1>4. StoreInv' /\ LeftInv' /\ BooksInv'
  BY <1>1 DEF StoreInv, LeftInv, BooksInv, DiscardsAddUp
<1>5. PlacesInv'
  BY <1>1, PlacesKept
<1> QED
  BY <1>2, <1>4, <1>5

-----------------------------------------------------------------------------
(* The theorems.                                                           *)

\* Each step keeps the inductive invariant.
LEMMA NextIInv ==
  ASSUME IInv, [Next]_vars
  PROVE  IInv'
<1>1. CASE \E m \in network : receive(m)
  BY <1>1, ReceiveStep
<1>2. CASE noFragmentToProcess
  BY <1>2, StaleStep
<1>3. CASE Time
  BY <1>3, WindowStep DEF Time
<1>4. CASE waits
  BY <1>4, IdleStep DEF waits
<1>5. CASE clear
  BY <1>5, ClearStep
<1>6. CASE onTheWay
  BY <1>6, OnTheWayStep
<1>7. CASE UNCHANGED vars
  BY <1>7, IdleStep
<1> QED
  BY <1>1, <1>2, <1>3, <1>4, <1>5, <1>6, <1>7 DEF Next, FragmentProcessor

\* The inductive invariant holds in the beginning.
LEMMA InitIInv ==
  Init => IInv
<1> SUFFICES ASSUME Init PROVE IInv
  OBVIOUS
<1>1. /\ network \in Traffic /\ faults = 0 /\ store = <<>> /\ memoryUsed = 0
      /\ monitor = [s \in Senders |-> [c \in Counters |-> 0]]
      /\ received = {} /\ handed = {} /\ lost = {} /\ cleared = {}
  BY DEF Init
<1>2. NetworkInv
  <2>1. faults \in 0 .. MaxFaults
    BY <1>1, TrafficAssumption
  <2>2. ASSUME NEW m \in network PROVE Sendable(m)
    <3>1. /\ m \in Seq(Fragments) /\ m # <<>>
          /\ \A i \in DOMAIN m : /\ m[i].event = m[1].event /\ m[i].copy = 0
                                 /\ \A j \in DOMAIN m : i < j => m[i].part < m[j].part
      BY <1>1, TrafficAssumption
    <3>2. 1 \in DOMAIN m
      BY <3>1, FramesTyped
    <3>3. \A i \in DOMAIN m : m[i].copy = m[1].copy /\ m[i].copy <= faults
      BY <1>1, <3>1, <3>2
    <3> QED
      BY <3>1, <3>3 DEF Sendable, OneEvent
  <2>3. ASSUME NEW m \in network, NEW n \in network, m # n PROVE IdsOf(m) \cap IdsOf(n) = {}
    <3>1. \A i \in DOMAIN m, j \in DOMAIN n :
            m[i].event = n[j].event /\ m[i].part = n[j].part => m = n /\ i = j
      BY <1>1, TrafficAssumption
    <3>2. \A i \in DOMAIN m, j \in DOMAIN n : Id(m[i]) # Id(n[j])
      BY <2>3, <3>1 DEF Id
    <3> QED
      BY <3>2 DEF IdsOf
  <2> QED
    BY <1>1, <2>1, <2>2, <2>3 DEF NetworkInv
<1>3. StoreInv
  BY <1>1 DEF StoreInv
<1>4. LeftInv
  BY <1>1 DEF LeftInv
<1>5. PlacesInv
  <2>1. Stored = {}
    BY <1>1 DEF Stored
  <2>2. Holders = {} /\ In("store", Stored) = {}
    BY <1>1, <2>1 DEF Holders, In
  <2>3. Slots(In("store", Stored)) = {}
    BY <2>2 DEF Slots
  <2>4. Content(Holders) = {} /\ Spread(Holders)
    BY <2>2 DEF Content, Spread
  <2> QED
    BY <1>1, <2>3, <2>4, FS_EmptySet DEF PlacesInv
<1>6. BooksInv
  <2>1. monitor \in Books
    BY <1>1 DEF Books
  <2>2. AddUp(monitor, handed)
    <3> SUFFICES ASSUME NEW s \in Senders
                 PROVE  /\ OutstandingDataDiscards(monitor[s]) = Cardinality(Unsent(handed, s, FALSE))
                        /\ OutstandingDQMDiscards(monitor[s]) = Cardinality(Unsent(handed, s, TRUE))
      BY DEF AddUp
    <3>1. Unsent(handed, s, FALSE) = {} /\ Unsent(handed, s, TRUE) = {}
      BY <1>1 DEF Unsent
    <3>2. monitor[s] = [c \in Counters |-> 0]
      BY <1>1
    <3>3. /\ monitor[s].init = 0 /\ monitor[s].event = 0 /\ monitor[s].error = 0 /\ monitor[s].faulty = 0
          /\ monitor[s].dataDiscard = 0 /\ monitor[s].dqm = 0 /\ monitor[s].faultyDQM = 0
          /\ monitor[s].dqmDiscard = 0
      BY <3>2 DEF Counters
    <3>4. OutstandingDataDiscards(monitor[s]) = 0 /\ OutstandingDQMDiscards(monitor[s]) = 0
      BY <3>3 DEF OutstandingDataDiscards, OutstandingDQMDiscards
    <3>5. Cardinality({}) = 0
      BY FS_EmptySet
    <3> QED
      BY <3>1, <3>4, <3>5
  <2>3. IsFiniteSet(handed)
    BY <1>1, FS_EmptySet
  <2> QED
    BY <2>1, <2>2, <2>3 DEF BooksInv, DiscardsAddUp, AddUp, Unsent, Books
<1> QED
  BY <1>2, <1>3, <1>4, <1>5, <1>6 DEF IInv

\* The inductive invariant holds in every reachable state.
THEOREM Invariant == Spec => []IInv
<1>1. Init => IInv
  BY InitIInv
<1>2. IInv /\ [Next]_vars => IInv'
  BY NextIInv
<1> QED
  BY <1>1, <1>2, PTL DEF Spec

\* The types of the state: a chain is stored under its own key, and only while it is
\* incomplete (FragmentStore::addFragment).
THEOREM Typing == Spec => []TypeOK
<1>1. IInv => TypeOK
  <2> SUFFICES ASSUME IInv PROVE TypeOK
    OBVIOUS
  <2>1. faults \in 0 .. MaxFaults
    BY DEF IInv, NetworkInv
  <2>2. memoryUsed \in Nat
    BY FS_CardinalityType DEF IInv, PlacesInv
  <2>3. monitor \in [Senders -> [Counters -> Nat]]
    BY DEF IInv, BooksInv
  <2>4. \A k \in DOMAIN store : fragmentKey(store[k]) = k /\ ~store[k].complete /\ store[k] \in Chains
    BY DEF IInv, StoreInv, Unfinished, Growing, GrowingIf
  <2>5. \A ch \in Stored \cup Left : ch \in Chains
    BY <2>4 DEF IInv, LeftInv, Stored, Left
  <2>6. \A ch \in Chains :
          ch.bits \subseteq Bits /\ ch.complete \in BOOLEAN /\ ch.windowOver \in BOOLEAN
    BY DEF Chains
  <2> QED
    BY <2>1, <2>2, <2>3, <2>4, <2>5, <2>6 DEF TypeOK
<1> QED
  BY <1>1, Invariant, PTL

\* An event that is distributed as a good one holds each of its fragments once and in
\* order, in whatever way they came.
THEOREM GoodEventsAreWhole == Spec => []CompleteEventsAreWhole
<1>1. IInv => CompleteEventsAreWhole
  <2> SUFFICES ASSUME IInv, NEW h \in handed, h.to = "queues"
               PROVE  LET fs == h.chain.frames
                      IN \A i \in 1 .. Len(fs) :
                           /\ fs[i].index = i - 1 /\ fs[i].total = Len(fs) /\ fs[i].event = fs[1].event
                           /\ HasChecksum(h.chain.code) => fs[i].intact /\ fs[i].part = i - 1
    BY DEF CompleteEventsAreWhole
  <2> DEFINE fs == h.chain.frames
  <2>1. h.to = Destination(h.chain) /\ (Finished(h.chain) \/ ~h.chain.complete)
    BY DEF IInv, LeftInv
  <2>2. ~faulty(h.chain) /\ h.chain.complete
    BY <2>1 DEF Destination
  <2>3. h.chain.bits = {} /\ Finished(h.chain)
    BY <2>1, <2>2 DEF faulty
  <2>4. /\ InOrder(fs, Len(fs)) /\ OneEvent(fs) /\ h.chain \in Chains
        /\ HasChecksum(h.chain.code) => Checks(fs)
    BY <2>3 DEF Finished
  <2>5. fs \in Seq(Fragments)
    BY <2>4 DEF Chains
  <2> HIDE DEF fs
  <2>6. DOMAIN fs = 1 .. Len(fs) /\ \A i \in DOMAIN fs : fs[i].index = i - 1 /\ fs[i].total = Len(fs)
    BY <2>4, <2>5, FramesTyped, InOrderNumbered
  <2>7. \A i \in 1 .. Len(fs) : /\ fs[i].index = i - 1 /\ fs[i].total = Len(fs)
                                /\ fs[i].event = fs[1].event
                                /\ HasChecksum(h.chain.code) => fs[i].intact /\ fs[i].part = i - 1
    BY <2>4, <2>6 DEF OneEvent, Checks
  <2> QED
    BY <2>7 DEF fs
<1> QED
  BY <1>1, Invariant, PTL

\* No event waits in the store, goes stale, is lost or counts as faulty once all of its
\* fragments are there, in whatever order they came.
THEOREM WholeEventsLeaveAsGood == Spec => []WholeEventsAreAccepted
<1>1. IInv => WholeEventsAreAccepted
  <2> SUFFICES ASSUME IInv PROVE WholeEventsAreAccepted
    OBVIOUS
  <2>1. \A ch \in Stored : ~Whole(ch)
    BY UnfinishedNotWhole DEF IInv, StoreInv, Stored
  <2>2. ASSUME NEW h \in handed, Whole(h.chain) PROVE h.to = "queues"
    <3>1. h.to = Destination(h.chain) /\ Finished(h.chain)
      BY <2>2 DEF IInv, LeftInv
    <3>2. h.chain.bits = {} /\ h.chain.complete
      BY <2>2, <3>1 DEF Finished
    <3> QED
      BY <3>1, <3>2 DEF Destination, faulty
  <2>3. \A ch \in lost \cup cleared : ~Whole(ch)
    BY DEF IInv, LeftInv
  <2> QED
    BY <2>1, <2>2, <2>3 DEF WholeEventsAreAccepted
<1> QED
  BY <1>1, Invariant, PTL

\* Each fragment received is in one chain, once, and the memory in use is that of what
\* is stored.
THEOREM FragmentsStayInOnePlace == Spec => []FragmentsAccountedFor
<1>1. IInv => FragmentsAccountedFor
  <2> SUFFICES ASSUME IInv PROVE FragmentsAccountedFor
    OBVIOUS
  <2>1. received = Content(Holders) /\ Spread(Holders)
        /\ memoryUsed = Cardinality(Slots(In("store", Stored)))
    BY DEF IInv, PlacesInv
  <2>2. Content(Holders) = {FragmentAt(s) : s \in Slots(Holders)}
    <3>1. ASSUME NEW f \in Content(Holders) PROVE \E s \in Slots(Holders) : f = FragmentAt(s)
      <4>1. PICK h \in Holders : f \in FragmentsOf(h.chain)
        BY <3>1 DEF Content
      <4>2. PICK i \in DOMAIN h.chain.frames : f = h.chain.frames[i]
        BY <4>1 DEF FragmentsOf, ToSet
      <4>3. <<h, i>> \in Slots(Holders)
        BY DEF Slots
      <4> QED
        BY <4>2, <4>3 DEF FragmentAt
    <3>2. ASSUME NEW s \in Slots(Holders) PROVE FragmentAt(s) \in Content(Holders)
      <4>1. PICK h \in Holders : \E i \in DOMAIN h.chain.frames : s = <<h, i>>
        BY DEF Slots
      <4>2. PICK i \in DOMAIN h.chain.frames : s = <<h, i>>
        BY <4>1
      <4>3. FragmentAt(s) \in FragmentsOf(h.chain)
        BY <4>2 DEF FragmentAt, FragmentsOf, ToSet
      <4> QED
        BY <4>3 DEF Content
    <3> QED
      BY <3>1, <3>2
  <2>3. ASSUME NEW s \in Slots(Holders), NEW t \in Slots(Holders), FragmentAt(s) = FragmentAt(t)
        PROVE  s = t
    <3>1. PICK g \in Holders : \E i \in DOMAIN g.chain.frames : s = <<g, i>>
      BY DEF Slots
    <3>2. PICK i \in DOMAIN g.chain.frames : s = <<g, i>>
      BY <3>1
    <3>3. PICK h \in Holders : \E j \in DOMAIN h.chain.frames : t = <<h, j>>
      BY DEF Slots
    <3>4. PICK j \in DOMAIN h.chain.frames : t = <<h, j>>
      BY <3>3
    <3>5. g.chain.frames[i] = h.chain.frames[j]
      BY <2>3, <3>2, <3>4 DEF FragmentAt
    <3>6. Id(g.chain.frames[i]) \in IdsOf(g.chain.frames) /\ Id(h.chain.frames[j]) \in IdsOf(h.chain.frames)
      BY DEF IdsOf
    <3>7. g = h
      BY <2>1, <3>5, <3>6 DEF Spread
    <3>8. i = j
      BY <2>1, <3>5, <3>7 DEF Spread, Distinct
    <3> QED
      BY <3>2, <3>4, <3>7, <3>8
  <2> QED
    BY <2>1, <2>2, <2>3 DEF FragmentsAccountedFor
<1> QED
  BY <1>1, Invariant, PTL

\* The outstanding discards of a sender are the chains of this sender that were
\* distributed and whose discard message was not sent.
THEOREM OutstandingDiscards == Spec => []DiscardsAddUp
<1>1. IInv => DiscardsAddUp
  BY DEF IInv, BooksInv
<1> QED
  BY <1>1, Invariant, PTL

\* An event goes out as good only if its fragments are all there and in order, and whenever
\* they are, each once and undamaged.
THEOREM GoodIsWhole == Spec => []GoodMeansWhole
BY GoodEventsAreWhole, WholeEventsLeaveAsGood, PTL DEF GoodMeansWhole

\* The books of the store and of the senders balance.
THEOREM BooksStayBalanced == Spec => []BooksBalance
BY FragmentsStayInOnePlace, OutstandingDiscards, PTL DEF BooksBalance
=============================================================================
