----------------------------- MODULE PartsProofs -----------------------------
(***************************************************************************)
(* Theorems about the parts that MCParts looks at.                         *)
(*                                                                         *)
(* Statistics, for every quantity, number of bins, samples and begins of a *)
(* run: the types, and that every sample counts once.                      *)
(*                                                                         *)
(* EventData, for every message of any number of fragments and any         *)
(* consumers: what is read from a header was sent, nobody asks for a field *)
(* that is not there, error events are filed under our run, and losses do  *)
(* not accumulate.  The first three rest on what a chain is once it has    *)
(* fragments (SoundChain), and on what has been cached when it is          *)
(* distributed (IsCached).                                                 *)
(*                                                                         *)
(* Configuration, for any values, settings and commands: changes are       *)
(* noticed, and a run uses one configuration, the latest.                  *)
(***************************************************************************)
EXTENDS Statistics, EventData, Configuration, TLAPS

\* The mutex of a collection is held while it calculates or resets.
MutexInv ==
  hasMutex =>
    /\ mutex = "reporter" <=> reporter \in {"sampling", "latching", "storing", "flagging"}
    /\ mutex = "fsm" <=> fsm = "results"
    /\ ~stale /\ ~torn

\* Nothing is in hand but between the two locks, and no sample is in two places.
HandInv ==
  /\ reporter # "storing" => inHand = {} /\ ~stale
  /\ working \cap full = {} /\ (working \cup full) \cap inHand = {}

\* Between its two halves a reset has not yet emptied the results, which do not count.
FreshInv ==
  ~torn => fresh = working \cup (IF fsm = "results" THEN {} ELSE full)
                           \cup (IF stale THEN {} ELSE inHand)

IInv == TypeOK /\ MutexInv /\ HandInv /\ FreshInv /\ Binned = latest

-----------------------------------------------------------------------------
(* Types.                                                                  *)

LEMMA InitTypes == Init => TypeOK
<1> SUFFICES ASSUME Init PROVE TypeOK
  OBVIOUS
<1>1. /\ bins \in [0 .. BinCount - 1 -> SUBSET Samples] /\ workingBin \in 0 .. BinCount - 1
      /\ latest \in [1 .. BinCount -> SUBSET Samples] /\ resets \in 0 .. Resets
  BY StatisticsAssumption DEF Init, Empty
<1>2. {working, inHand, full, published, fresh} \subseteq SUBSET Samples
  BY DEF Init
<1>3. {started, ripe, elapsed, updateNeeded, stale, torn} \subseteq BOOLEAN
  BY DEF Init
<1> QED
  BY <1>1, <1>2, <1>3 DEF Init, TypeOK

LEMMA AddTypes ==
  ASSUME TypeOK, NEW s \in Samples, addSample(s)
  PROVE  /\ {working', inHand', full', fresh'} \subseteq SUBSET Samples
         /\ {started', ripe', stale', torn'} \subseteq BOOLEAN
         /\ bins' \in [0 .. BinCount - 1 -> SUBSET Samples] /\ workingBin' \in 0 .. BinCount - 1
         /\ latest' \in [1 .. BinCount -> SUBSET Samples]
BY DEF TypeOK, addSample

LEMMA ReporterTypes == ASSUME TypeOK, Reporter PROVE TypeOK'
<1>1. CASE StartRound
  BY <1>1 DEF StartRound, ReporterGoes, quantity, TypeOK
<1>2. CASE SampleDerived
  <2>1. CASE UNCHANGED quantity
    BY <1>2, <2>1 DEF SampleDerived, ReporterGoes, quantity, collection, TypeOK
  <2>2. CASE \E s \in Samples : addSample(s)
    <3>1. PICK s \in Samples : addSample(s)
      BY <2>2
    <3> HIDE DEF addSample
    <3>2. /\ {working', inHand', full', fresh'} \subseteq SUBSET Samples
          /\ {started', ripe', stale', torn'} \subseteq BOOLEAN
          /\ bins' \in [0 .. BinCount - 1 -> SUBSET Samples] /\ workingBin' \in 0 .. BinCount - 1
          /\ latest' \in [1 .. BinCount -> SUBSET Samples]
      BY <3>1, AddTypes
    <3> QED
      BY <1>2, <3>2 DEF SampleDerived, ReporterGoes, collection, TypeOK
  <2> QED
    BY <1>2, <2>1, <2>2 DEF SampleDerived
<1>3. CASE Latch
  BY <1>3 DEF Latch, ReporterGoes, collection, TypeOK
<1>4. CASE Store
  <2>1. inHand \in SUBSET Samples /\ workingBin \in 0 .. BinCount - 1 /\ BinCount \in Nat \ {0}
    BY StatisticsAssumption DEF TypeOK
  <2>2. bins' \in [0 .. BinCount - 1 -> SUBSET Samples] /\ workingBin' \in 0 .. BinCount - 1
    BY <1>4, <2>1 DEF Store, TypeOK
  <2>3. latest' \in [1 .. BinCount -> SUBSET Samples]
    BY <1>4, <2>1 DEF Store, TypeOK
  <2>4. {full', torn'} \subseteq (SUBSET Samples) \cup BOOLEAN /\ full' \subseteq Samples /\ torn' \in BOOLEAN
    BY <1>4, <2>1 DEF Store, TypeOK
  <2> QED
    BY <1>4, <2>2, <2>3, <2>4 DEF Store, ReporterGoes, collection, TypeOK
<1>5. CASE Flag
  BY <1>5 DEF Flag, ReporterGoes, quantity, TypeOK
<1>6. CASE Update
  BY <1>6 DEF Update, publish, ReporterGoes, quantity, TypeOK
<1>7. CASE SkipUpdate
  BY <1>7 DEF SkipUpdate, ReporterGoes, quantity, collection, TypeOK
<1>8. CASE ClearFlag
  BY <1>8 DEF ClearFlag, ReporterGoes, quantity, TypeOK
<1> QED
  BY <1>1, <1>2, <1>3, <1>4, <1>5, <1>6, <1>7, <1>8 DEF Reporter

LEMMA OtherTypes ==
  ASSUME TypeOK,
         \/ \E s \in Samples : Add(s)
         \/ Elapse \/ Ripen \/ Query \/ EndQuery
         \/ ResetAccumulators \/ ClearRecords \/ BeginOfRun
  PROVE  TypeOK'
<1> USE StatisticsAssumption
<1>1. CASE \E s \in Samples : Add(s)
  <2>1. PICK s \in Samples : Add(s)
    BY <1>1
  <2>2. /\ {working', inHand', full', fresh'} \subseteq SUBSET Samples
        /\ {started', ripe', stale', torn'} \subseteq BOOLEAN
        /\ bins' \in [0 .. BinCount - 1 -> SUBSET Samples] /\ workingBin' \in 0 .. BinCount - 1
        /\ latest' \in [1 .. BinCount -> SUBSET Samples]
    BY <2>1, AddTypes DEF Add
  <2> QED
    BY <2>1, <2>2 DEF Add, collection, threads, TypeOK
<1>2. CASE Elapse
  BY <1>2 DEF Elapse, quantity, threads, TypeOK
<1>3. CASE Ripen
  BY <1>3 DEF Ripen, collection, threads, TypeOK
<1>4. CASE Query
  BY <1>4 DEF Query, publish, ListenerGoes, quantity, TypeOK
<1>5. CASE EndQuery
  BY <1>5 DEF EndQuery, ListenerGoes, quantity, TypeOK
<1>6. CASE ResetAccumulators
  <2>1. stale' \in BOOLEAN /\ torn' = FALSE /\ started' = FALSE /\ ripe' = FALSE
    BY <1>6 DEF ResetAccumulators, EmptyAccumulators
  <2>2. working' = {} /\ fresh' = {} /\ resets' \in 0 .. Resets
    BY <1>6 DEF ResetAccumulators, EmptyAccumulators, TypeOK
  <2> QED
    BY <1>6, <2>1, <2>2 DEF ResetAccumulators, FSMGoes, TypeOK
<1>7. CASE ClearRecords
  <2>1. torn' = FALSE /\ started' = FALSE /\ ripe' = FALSE /\ stale' = stale
    BY <1>7 DEF ClearRecords, EmptyAccumulators
  <2>2. working' = {} /\ fresh' = {} /\ full' = {} /\ resets' \in 0 .. Resets
    BY <1>7 DEF ClearRecords, EmptyAccumulators, EmptyResults, TypeOK
  <2>3. /\ bins' \in [0 .. BinCount - 1 -> SUBSET Samples] /\ workingBin' \in 0 .. BinCount - 1
        /\ latest' \in [1 .. BinCount -> SUBSET Samples]
    BY <1>7 DEF ClearRecords, EmptyResults, Empty
  <2> QED
    BY <1>7, <2>1, <2>2, <2>3 DEF ClearRecords, FSMGoes, collection, TypeOK
<1>8. CASE ResetResults
  BY <1>8 DEF ResetResults, FSMGoes, EmptyResults, Empty, TypeOK
<1>9. CASE Rearm
  BY <1>9 DEF Rearm, FSMGoes, quantity, TypeOK
<1> QED
  BY <1>1, <1>2, <1>3, <1>4, <1>5, <1>6, <1>7, <1>8, <1>9 DEF BeginOfRun

THEOREM TypeCorrect == Spec => []TypeOK
<1>1. TypeOK /\ [Next]_vars => TypeOK'
  <2> SUFFICES ASSUME TypeOK, [Next]_vars PROVE TypeOK'
    OBVIOUS
  <2>1. CASE UNCHANGED vars
    BY <2>1 DEF vars, TypeOK
  <2> QED
    BY <2>1, ReporterTypes, OtherTypes DEF Next
<1> QED
  BY <1>1, InitTypes, PTL DEF Spec

-----------------------------------------------------------------------------
(* The mutex.                                                              *)

LEMMA InitMutex == Init => MutexInv
BY DEF Init, MutexInv

\* A reset leaves nothing stale or torn behind where there is a mutex.
LEMMA NextMutex == ASSUME TypeOK, MutexInv, Next PROVE MutexInv'
<1> USE DEF MutexInv, hasMutex, quantity, collection, threads
<1>1. CASE \E s \in Samples : Add(s)
  BY <1>1 DEF Add, addSample
<1>2. CASE Elapse \/ Ripen \/ Query \/ EndQuery
  BY <1>2 DEF Elapse, Ripen, Query, EndQuery, ListenerGoes, publish
<1>3. CASE StartRound \/ Latch \/ Flag
  BY <1>3 DEF StartRound, Latch, Flag, ReporterGoes, TypeOK
<1>4. CASE SampleDerived
  BY <1>4 DEF SampleDerived, addSample, ReporterGoes
<1>5. CASE Store
  BY <1>5 DEF Store, ReporterGoes, TypeOK
<1>6. CASE Update \/ SkipUpdate \/ ClearFlag
  BY <1>6 DEF Update, SkipUpdate, ClearFlag, publish, ReporterGoes
<1>7. CASE ResetAccumulators
  BY <1>7 DEF ResetAccumulators, FSMGoes, TypeOK
<1>8. CASE ResetResults \/ Rearm
  BY <1>8 DEF ResetResults, Rearm, FSMGoes, TypeOK
<1>9. CASE ClearRecords
  BY <1>9 DEF ClearRecords, FSMGoes, TypeOK
<1> QED
  BY <1>1, <1>2, <1>3, <1>4, <1>5, <1>6, <1>7, <1>8, <1>9 DEF Next, Reporter, BeginOfRun

-----------------------------------------------------------------------------
(* Where the samples are.                                                  *)

LEMMA InitPlaces == Init => HandInv /\ FreshInv
BY DEF Init, HandInv, FreshInv

\* A new sample goes to the accumulators and nowhere else.
LEMMA AddPlaces ==
  ASSUME HandInv, FreshInv, NEW s \in Samples, addSample(s), fsm' = fsm,
         reporter' # "storing", reporter # "storing" \/ reporter' = reporter
  PROVE  HandInv' /\ FreshInv'
BY DEF HandInv, FreshInv, addSample, Unused

\* The same while the reporter goes on with the samples in hand.
LEMMA AddBeside ==
  ASSUME HandInv, FreshInv, NEW s \in Samples, addSample(s), UNCHANGED <<fsm, reporter>>
  PROVE  HandInv' /\ FreshInv'
BY DEF HandInv, FreshInv, addSample, Unused

LEMMA NextPlaces ==
  ASSUME TypeOK, MutexInv, HandInv, FreshInv, Next PROVE HandInv' /\ FreshInv'
<1> USE DEF HandInv, FreshInv
<1>1. CASE \E s \in Samples : Add(s)
  BY <1>1, AddBeside DEF Add, threads
<1>2. CASE Elapse \/ Ripen \/ Query \/ EndQuery
  BY <1>2 DEF Elapse, Ripen, Query, EndQuery, ListenerGoes, publish, quantity, collection, threads
<1>3. CASE StartRound \/ Flag \/ Update \/ SkipUpdate \/ ClearFlag
  BY <1>3 DEF StartRound, Flag, Update, SkipUpdate, ClearFlag, publish, ReporterGoes, quantity,
              collection
<1>4. CASE SampleDerived
  BY <1>4, AddPlaces DEF SampleDerived, ReporterGoes, quantity
<1>5. CASE Latch
  BY <1>5 DEF Latch, ReporterGoes
<1>6. CASE Store
  BY <1>6 DEF Store, ReporterGoes, TypeOK
<1>7. CASE ResetAccumulators
  BY <1>7 DEF ResetAccumulators, EmptyAccumulators, FSMGoes
<1>8. CASE ResetResults \/ Rearm
  BY <1>8 DEF ResetResults, Rearm, EmptyResults, FSMGoes, quantity
<1>9. CASE ClearRecords
  <2>1. reporter # "storing"
    BY <1>9 DEF ClearRecords, MutexInv, hasMutex, isCleared, Mutexed
  <2> QED
    BY <1>9, <2>1 DEF ClearRecords, EmptyAccumulators, EmptyResults, FSMGoes
<1> QED
  BY <1>1, <1>2, <1>3, <1>4, <1>5, <1>6, <1>7, <1>8, <1>9 DEF Next, Reporter, BeginOfRun

-----------------------------------------------------------------------------
(* The ring of bins.                                                       *)

LEMMA EmptyBins == ASSUME bins = Empty, workingBin = 0, latest = [n \in 1 .. BinCount |-> {}]
                   PROVE  Binned = latest
BY StatisticsAssumption DEF Binned, sourceBin, Empty

\* The bin that is overwritten is the oldest, and the one after it becomes the oldest.
LEMMA StoreBins == ASSUME TypeOK, Binned = latest, Store PROVE Binned' = latest'
<1>1. BinCount \in Nat \ {0} /\ workingBin \in 0 .. BinCount - 1
  BY StatisticsAssumption DEF TypeOK
<1>2. \A n \in 1 .. BinCount : latest[n] = bins[sourceBin(n)]
  BY DEF Binned
<1>3. /\ workingBin' = IF workingBin + 1 >= BinCount THEN 0 ELSE workingBin + 1
      /\ bins' = [bins EXCEPT ![workingBin] = inHand]
      /\ latest' = [n \in 1 .. BinCount |-> IF n = BinCount THEN inHand ELSE latest[n + 1]]
  BY DEF Store
<1>4. ASSUME NEW n \in 1 .. BinCount PROVE Binned'[n] = latest'[n]
  <2>1. CASE n = BinCount
    <3>1. sourceBin(n)' = workingBin
      BY <1>1, <1>3, <2>1 DEF sourceBin
    <3> QED
      BY <1>1, <1>3, <2>1, <3>1 DEF Binned, TypeOK
  <2>2. CASE n # BinCount
    <3>1. n + 1 \in 1 .. BinCount /\ sourceBin(n)' = sourceBin(n + 1)
      BY <1>1, <1>3, <2>2 DEF sourceBin
    <3>2. sourceBin(n + 1) # workingBin /\ sourceBin(n + 1) \in 0 .. BinCount - 1
      BY <1>1, <2>2 DEF sourceBin
    <3> QED
      BY <1>1, <1>2, <1>3, <2>2, <3>1, <3>2 DEF Binned, TypeOK
  <2> QED
    BY <2>1, <2>2
<1> QED
  BY <1>3, <1>4 DEF Binned

LEMMA NextBins == ASSUME TypeOK, Binned = latest, Next PROVE Binned' = latest'
<1>1. CASE Store
  BY <1>1, StoreBins
<1>2. CASE ResetResults \/ ClearRecords
  <2>1. bins' = Empty /\ workingBin' = 0 /\ latest' = [n \in 1 .. BinCount |-> {}]
    BY <1>2 DEF ResetResults, ClearRecords, EmptyResults
  <2>2. Empty' = Empty
    BY DEF Empty
  <2> QED
    BY <2>1, StatisticsAssumption DEF Binned, sourceBin, Empty
<1>3. CASE ~(Store \/ ResetResults \/ ClearRecords)
  <2>1. UNCHANGED <<bins, workingBin, latest>>
    BY <1>3 DEF Next, Reporter, BeginOfRun, Add, addSample, Elapse, Ripen, StartRound,
                SampleDerived, Latch, Flag, Update, SkipUpdate, ClearFlag, publish, Query, EndQuery,
                ResetAccumulators, Rearm, quantity
  <2> QED
    BY <2>1 DEF Binned, sourceBin
<1> QED
  BY <1>1, <1>2, <1>3

-----------------------------------------------------------------------------
(***************************************************************************)
(* The inductive invariant, and with it EverySampleCountsOnce: for every   *)
(* quantity, whatever calculates, queries or begins a run in between.      *)
(***************************************************************************)
THEOREM Invariant == Spec => []IInv
<1>1. Init => IInv
  <2> SUFFICES ASSUME Init PROVE IInv
    OBVIOUS
  <2>1. Binned = latest
    BY EmptyBins DEF Init
  <2> QED
    BY <2>1, InitTypes, InitMutex, InitPlaces DEF IInv
<1>2. IInv /\ [Next]_vars => IInv'
  <2> SUFFICES ASSUME IInv, [Next]_vars PROVE IInv'
    OBVIOUS
  <2>1. CASE Next
    BY <2>1, ReporterTypes, OtherTypes, NextMutex, NextPlaces, NextBins DEF IInv, Next
  <2>2. CASE UNCHANGED vars
    BY <2>2 DEF vars, IInv, TypeOK, MutexInv, HandInv, FreshInv, Binned, sourceBin, hasMutex
  <2> QED
    BY <2>1, <2>2
<1> QED
  BY <1>1, <1>2, PTL DEF Spec

THEOREM SamplesCountOnce == Spec => []EverySampleCountsOnce
<1>1. IInv => EverySampleCountsOnce
  BY DEF IInv, MutexInv, HandInv, FreshInv, EverySampleCountsOnce
<1> QED
  BY <1>1, Invariant, PTL

-----------------------------------------------------------------------------
(***************************************************************************)
(* EventData.                                                              *)
(***************************************************************************)

\* A header that is cached is the one that was sent, and all of it.
Whole(cached, m) ==
  cached.of = "payload" /\ cached.upTo >= m.headerIn /\ cached.skipped = m.skipped

HasChecksum(m) == "adler32Checksum" \in HeaderFields(m.kind)

\* A chain with a fragment in it.  Only a complete one can have a header, and has cached it
\* if there is a checksum.
SoundChain(ch, m) ==
  /\ ch.count >= 1 /\ ch.expected \in {0, m.parts}
  /\ ch.complete => ch.count = m.parts
  /\ ~ch.complete =>
       "INCOMPLETE_MESSAGE" \in ch.bits /\ "WRONG_CHECKSUM" \notin ch.bits /\ ch.cached = Unread
  /\ "WRONG_CHECKSUM" \in ch.bits => HasChecksum(m) /\ ch.cached # Unread
  /\ HasChecksum(m) /\ headerOkay(ch) => ch.cached # Unread
  /\ ch.cached # Unread => Whole(ch.cached, m)

\* What can be cached has been.
IsCached(ch, m) ==
  headerOkay(ch) /\ HeaderFields(m.kind) # {} =>
    ch.cached # Unread /\ (m.kind = "ERROR_EVENT" => ch.cached.run = "ours")

Distributed == stage \in {"distributing", "queueing", "done"}

StageInv ==
  /\ IF stage = "expecting" THEN chain.cached = Unread ELSE SoundChain(chain, message)
  /\ stage = "assembling" => ~chain.complete
  /\ stage = "checking" => chain.complete
  /\ Distributed => IsCached(chain, message)
  /\ message.kind = "END_OF_LUMI" => stage \notin {"assembling", "checking", "distributing"}
  /\ message.kind = "INVALID" /\ stage # "expecting" => "CORRUPT_INITIAL_HEADER" \in chain.bits

\* The tags that a chain may have.
MayHave(ch, m) ==
  IF m.kind = "END_OF_LUMI" THEN {"stream"}
  ELSE IF ~faulty(ch) /\ ch.complete THEN MayTag(m.kind)
  ELSE IF m.kind \in {"EVENT", "ERROR_EVENT"} THEN {"faulty"} ELSE {}

TagsInv ==
  /\ ~Queued => tags = {} /\ header = message.skipped
  /\ tags \subseteq MayHave(chain, message)
  /\ \A c \in Consumers : served[c] # "waiting" => c \in tags /\ Queued

CountInv ==
  /\ \A c \in Consumers : served[c] # "waiting" => counted[c] = message.skipped + lost[c]
  /\ \A c \in Consumers : served[c] \in {"set", "answered"} =>
       \E d \in Consumers : served[d] # "waiting" /\ header = counted[d]
  /\ \A c \in Consumers : served[c] = "answered" =>
       \E d \in Consumers : served[d] # "waiting" /\ told[c] = message.skipped + lost[d]

DataInv ==
  /\ DataTypeOK /\ StageInv /\ TagsInv /\ CountInv
  /\ NothingUnexpectedIsRaised /\ ErrorEventsAreFiledUnderOurRun

-----------------------------------------------------------------------------
LEMMA Sent == ASSUME message \in Messages PROVE message \in MessageType /\ Sendable(message)
BY MessagesAssumption

LEMMA Kinded == ASSUME message \in Messages
  PROVE /\ message.kind \in Kinds
        /\ HasChecksum(message) <=> message.kind \in {"INIT", "EVENT", "DQM_EVENT"}
        /\ HeaderFields(message.kind) # {} <=> message.kind \in {"INIT", "EVENT", "DQM_EVENT", "ERROR_EVENT"}
<1>1. message.kind \in Kinds
  BY Sent DEF MessageType
<1> DEFINE k == message.kind
<1>2. k \in {"INIT", "EVENT", "DQM_EVENT", "ERROR_EVENT", "END_OF_LUMI", "INVALID"}
  BY <1>1 DEF Kinds
<1> HIDE DEF k
<1>3. /\ "adler32Checksum" \in HeaderFields(k) <=> k \in {"INIT", "EVENT", "DQM_EVENT"}
      /\ HeaderFields(k) # {} <=> k \in {"INIT", "EVENT", "DQM_EVENT", "ERROR_EVENT"}
  BY <1>2 DEF HeaderFields, InitFields, EventFields, DQMEventFields, ErrorEventFields
<1> QED BY <1>1, <1>3 DEF k, HasChecksum

\* Reading a header changes nothing but the cache.
LEMMA Reading == ASSUME NEW ch \in ChainType, message \in Messages, header \in Nat
  PROVE /\ AfterReading(ch) \in ChainType
        /\ AfterReading(ch).count = ch.count /\ AfterReading(ch).expected = ch.expected
        /\ AfterReading(ch).complete = ch.complete /\ AfterReading(ch).bits = ch.bits
        /\ AfterReading(ch).cached =
             IF headerOkay(ch) /\ ch.cached = Unread THEN cacheHeaderFields(ch) ELSE ch.cached
<1>1. cacheHeaderFields(ch) \in Cache
  <2>1. message.run \in {"ours", "other"}
    BY Sent DEF MessageType
  <2>2. (IF useFirstFragment(ch) THEN 1 ELSE ch.count) \in Nat /\ dataLocation(ch) \in {"nothing", "payload", "frame"}
    BY DEF ChainType, dataLocation
  <2> QED BY <2>1, <2>2 DEF cacheHeaderFields, Cache
<1>2. \A r \in Cache : [ch EXCEPT !.cached = r] \in ChainType
        /\ [ch EXCEPT !.cached = r].count = ch.count /\ [ch EXCEPT !.cached = r].expected = ch.expected
        /\ [ch EXCEPT !.cached = r].complete = ch.complete /\ [ch EXCEPT !.cached = r].bits = ch.bits
        /\ [ch EXCEPT !.cached = r].cached = r
  BY DEF ChainType
<1> QED BY <1>1, <1>2 DEF AfterReading

\* The header of a complete and undamaged message is found.
LEMMA FoundHeader ==
  ASSUME NEW ch \in ChainType, message \in Messages, header = message.skipped,
         ch.count = message.parts, ch.complete, ch.bits = {}
  PROVE Whole(cacheHeaderFields(ch), message) /\ cacheHeaderFields(ch) # Unread
<1>1. message \in MessageType /\ Sendable(message)
  BY Sent
<1>2. dataLocation(ch) = "payload"
  BY DEF dataLocation, faulty
<1>3. (IF useFirstFragment(ch) THEN 1 ELSE ch.count) >= message.headerIn
  <2>1. /\ message.headerIn \in Nat /\ message.parts \in Nat /\ message.headerIn >= 1
        /\ message.headerIn <= message.parts
    BY <1>1 DEF MessageType, Sendable
  <2>2. CASE useFirstFragment(ch)
    <3>1. ch.count = 1 \/ message.headerIn = 1
      BY <1>1, <2>2 DEF useFirstFragment, Sendable
    <3> QED BY <2>1, <2>2, <3>1
  <2>3. CASE ~useFirstFragment(ch)
    BY <2>1, <2>3
  <2> QED BY <2>2, <2>3
<1> QED BY <1>2, <1>3 DEF Whole, cacheHeaderFields, Unread

\* A chain that becomes complete is sound, and has cached the header if there is a checksum.
LEMMA Completing ==
  ASSUME NEW ch \in ChainType, message \in Messages, header = message.skipped,
         ch.count = message.parts, ch.expected \in {0, message.parts}, ch.cached = Unread,
         "WRONG_CHECKSUM" \notin ch.bits
  PROVE /\ markComplete(ch) \in ChainType /\ SoundChain(markComplete(ch), message)
        /\ markComplete(ch).complete
        /\ "CORRUPT_INITIAL_HEADER" \in ch.bits => "CORRUPT_INITIAL_HEADER" \in markComplete(ch).bits
<1> DEFINE co == [ch EXCEPT !.complete = TRUE, !.bits = @ \ {"INCOMPLETE_MESSAGE"}]
           re == AfterReading(co)
           mc == [re EXCEPT !.bits = IF message.checksum = "wrong" THEN {"WRONG_CHECKSUM"} ELSE {}]
<1>0. header \in Nat /\ message.parts \in Nat /\ message.parts >= 1
  BY Sent DEF MessageType
<1>1. /\ co \in ChainType /\ co.count = ch.count /\ co.expected = ch.expected /\ co.complete
      /\ co.bits = ch.bits \ {"INCOMPLETE_MESSAGE"} /\ co.cached = Unread
  BY DEF ChainType
<1>2. markComplete(ch) = IF headerOkay(co) /\ HasChecksum(message) THEN mc ELSE co
  BY DEF markComplete, HasChecksum
<1> HIDE DEF co
<1>3. CASE ~(headerOkay(co) /\ HasChecksum(message))
  <2>1. markComplete(ch) = co
    BY <1>2, <1>3
  <2>2. SoundChain(co, message)
    BY <1>0, <1>1, <1>3 DEF SoundChain
  <2> QED BY <1>1, <2>1, <2>2
<1>4. CASE headerOkay(co) /\ HasChecksum(message)
  <2>1. co.bits = {}
    BY <1>1, <1>4 DEF headerOkay
  <2>2. /\ re \in ChainType /\ re.count = ch.count /\ re.expected = ch.expected
        /\ re.complete /\ re.bits = {} /\ re.cached = cacheHeaderFields(co)
    BY <1>0, <1>1, <1>4, <2>1, Reading
  <2>3. Whole(re.cached, message) /\ re.cached # Unread
    BY <1>1, <2>1, <2>2, FoundHeader
  <2> HIDE DEF re
  <2>4. /\ mc \in ChainType /\ mc.count = re.count /\ mc.expected = re.expected /\ mc.complete
        /\ mc.cached = re.cached
    BY <2>2 DEF ChainType, Bits
  <2>5. SoundChain(mc, message)
    BY <1>0, <1>4, <2>2, <2>3, <2>4 DEF SoundChain
  <2>6. markComplete(ch) = mc /\ "CORRUPT_INITIAL_HEADER" \notin ch.bits
    BY <1>1, <1>2, <1>4, <2>1
  <2> QED BY <2>2, <2>4, <2>5, <2>6
<1> QED BY <1>3, <1>4

\* So is one that may not be complete yet.
LEMMA Assembling ==
  ASSUME NEW ch \in ChainType, message \in Messages, header = message.skipped,
         ch.count >= 1, ch.expected \in {0, message.parts}, ch.cached = Unread, ~ch.complete,
         "WRONG_CHECKSUM" \notin ch.bits, "INCOMPLETE_MESSAGE" \in ch.bits
  PROVE /\ checkForCompleteness(ch) \in ChainType /\ SoundChain(checkForCompleteness(ch), message)
        /\ "CORRUPT_INITIAL_HEADER" \in ch.bits =>
             "CORRUPT_INITIAL_HEADER" \in checkForCompleteness(ch).bits
<1>1. CASE ch.count = ch.expected
  <2>1. ch.count = message.parts
    BY <1>1
  <2> QED BY <1>1, <2>1, Completing DEF checkForCompleteness
<1>2. CASE ch.count # ch.expected
  <2>1. ~headerOkay(ch)
    BY DEF headerOkay
  <2>2. SoundChain(ch, message)
    BY <2>1 DEF SoundChain
  <2> QED BY <1>2, <2>2 DEF checkForCompleteness
<1> QED BY <1>1, <1>2

LEMMA FirstFragment ==
  ASSUME message \in Messages, header = message.skipped, NEW n \in 1 .. message.parts
  PROVE /\ addFirstFragment(n) \in ChainType /\ SoundChain(addFirstFragment(n), message)
        /\ message.kind = "INVALID" => "CORRUPT_INITIAL_HEADER" \in addFirstFragment(n).bits
<1> DEFINE corrupt == "initial" \in message.damaged
           bs == {"INCOMPLETE_MESSAGE"}
                   \cup (IF corrupt THEN {"CORRUPT_INITIAL_HEADER"} ELSE {})
                   \cup (IF n > 1 /\ "secondary" \in message.damaged
                         THEN {"CORRUPT_SECONDARY_HEADER"} ELSE {})
           ch == [count |-> n, expected |-> IF corrupt THEN 0 ELSE message.parts,
                  complete |-> FALSE, bits |-> bs, cached |-> Unread]
           seen == checkForCompleteness(ch)
           known == [seen EXCEPT !.bits = @ \cup {"CORRUPT_INITIAL_HEADER"}]
           one == [ch EXCEPT !.expected = 1]
<1>0. message.parts \in Nat /\ message.parts >= 1 /\ n \in Nat /\ n >= 1
  BY Sent DEF MessageType
<1>1. addFirstFragment(n) = CASE message.kind = "INVALID" -> known
                              [] message.kind = "END_OF_LUMI" -> markComplete(one)
                              [] OTHER -> seen
  BY DEF addFirstFragment
<1>2. bs \subseteq Bits /\ "INCOMPLETE_MESSAGE" \in bs /\ "WRONG_CHECKSUM" \notin bs
  BY DEF Bits
<1>3. Unread \in Cache
  BY DEF Unread, Cache
<1> HIDE DEF bs
<1>4. /\ ch \in ChainType /\ ch.count = n /\ ch.expected \in {0, message.parts}
      /\ ~ch.complete /\ ch.bits = bs /\ ch.cached = Unread
  BY <1>0, <1>2, <1>3 DEF ChainType
<1>5. /\ one \in ChainType /\ one.count = n /\ one.expected = 1 /\ one.bits = bs /\ one.cached = Unread
  BY <1>4 DEF ChainType
<1> HIDE DEF ch
<1>6. seen \in ChainType /\ SoundChain(seen, message)
  BY <1>0, <1>2, <1>4, Assembling
<1> HIDE DEF seen
<1>7. CASE message.kind = "INVALID"
  <2>1. /\ known \in ChainType /\ known.count = seen.count /\ known.expected = seen.expected
        /\ known.complete = seen.complete /\ known.cached = seen.cached
        /\ known.bits = seen.bits \cup {"CORRUPT_INITIAL_HEADER"}
    BY <1>6 DEF ChainType, Bits
  <2>2. ~HasChecksum(message)
    BY <1>7, Kinded
  <2> HIDE DEF known
  <2>3. SoundChain(known, message)
    BY <1>6, <2>1, <2>2 DEF SoundChain
  <2> QED BY <1>1, <1>7, <2>1, <2>3
<1>8. CASE message.kind = "END_OF_LUMI"
  <2>1. message.parts = 1
    BY <1>8, Sent DEF Sendable
  <2>2. n = 1
    BY <2>1
  <2> HIDE DEF one
  <2>3. markComplete(one) \in ChainType /\ SoundChain(markComplete(one), message)
    BY <1>2, <1>5, <2>1, <2>2, Completing
  <2> QED BY <1>1, <1>8, <2>3
<1> QED BY <1>1, <1>6, <1>7, <1>8

-----------------------------------------------------------------------------
(* Asking.                                                                 *)

LEMMA Disjoint == ASSUME message \in Messages
  PROVE FreeFields(message.kind) \cap HeaderFields(message.kind) = {}
<1> DEFINE Apart(k) == FreeFields(k) \cap HeaderFields(k) = {}
<1> USE DEF FreeFields, HeaderFields
<1>1. Apart("INIT")
  BY DEF InitFields
<1>2. Apart("EVENT")
  BY DEF EventFields
<1>3. Apart("DQM_EVENT")
  BY DEF DQMEventFields
<1>4. Apart("ERROR_EVENT")
  BY DEF ErrorEventFields
<1>5. Apart("END_OF_LUMI") /\ Apart("INVALID")
  OBVIOUS
<1> HIDE DEF Apart
<1>6. message.kind \in Kinds
  BY Kinded
<1>7. Apart(message.kind)
  BY <1>1, <1>2, <1>3, <1>4, <1>5, <1>6 DEF Kinds
<1> QED BY <1>7 DEF Apart

\* Fields that the message has raise nothing.
LEMMA AllThere ==
  ASSUME message \in Messages, NEW fields, headerOkay(chain) \/ fields \subseteq FreeFields(message.kind),
         fields \subseteq FreeFields(message.kind) \cup HeaderFields(message.kind)
  PROVE Raising(fields, {}) = {}
<1>1. ASSUME NEW f \in fields PROVE raises(f) = {}
  <2>1. CASE f \in FreeFields(message.kind)
    <3>1. f \notin HeaderFields(message.kind)
      BY <2>1, Disjoint
    <3> QED BY <2>1, <3>1 DEF raises
  <2>2. CASE f \notin FreeFields(message.kind)
    <3>1. f \in HeaderFields(message.kind) /\ headerOkay(chain)
      BY <2>2
    <3> QED BY <2>2, <3>1 DEF raises
  <2> QED BY <2>1, <2>2
<1> QED BY <1>1 DEF Raising

\* When a chain is distributed, there is nothing left to be cached.
LEMMA NothingToCache ==
  ASSUME StageInv, Distributed, NEW fields, NEW exceptions, Asks(fields, exceptions)
  PROVE chain' = chain /\ raised' = raised \cup exceptions
<1>1. IsCached(chain, message)
  BY DEF StageInv
<1>2. fields \cap HeaderFields(message.kind) # {} => AfterReading(chain) = chain
  BY <1>1 DEF IsCached, AfterReading
<1> QED BY <1>2 DEF Asks

\* The selectors and the monitoring ask for what there is.
LEMMA Askable ==
  ASSUME message \in Messages, message.kind \notin {"END_OF_LUMI", "INVALID"}
  PROVE AskedWhenDistributed(message.kind) \subseteq FreeFields(message.kind) \cup HeaderFields(message.kind)
<1> DEFINE Has(k) == AskedWhenDistributed(k) \subseteq FreeFields(k) \cup HeaderFields(k)
<1> USE DEF AskedWhenDistributed, FreeFields, HeaderFields
<1>1. Has("INIT")
  BY DEF InitFields
<1>2. Has("EVENT")
  BY DEF EventFields
<1>3. Has("DQM_EVENT")
  BY DEF DQMEventFields
<1>4. Has("ERROR_EVENT")
  BY DEF ErrorEventFields
<1> HIDE DEF Has
<1>5. message.kind \in {"INIT", "EVENT", "DQM_EVENT", "ERROR_EVENT"}
  BY Kinded DEF Kinds
<1>6. Has(message.kind)
  BY <1>1, <1>2, <1>3, <1>4, <1>5
<1> QED BY <1>6 DEF Has

LEMMA ByKind ==
  /\ EventFields = HeaderFields("EVENT") /\ DQMEventFields = HeaderFields("DQM_EVENT")
  /\ ErrorEventFields = HeaderFields("ERROR_EVENT")
  /\ EndOfLumiFields \subseteq FreeFields("END_OF_LUMI")
  /\ \A k \in Kinds : {"hltURL", "totalDataSize", "headerSize", "headerLocation"} \subseteq FreeFields(k)
BY DEF HeaderFields, FreeFields, EndOfLumiFields, Kinds

LEMMA Tags == ASSUME message \in Messages, TagsInv
  PROVE /\ "dqm" \in tags => message.kind = "DQM_EVENT" /\ ~faulty(chain) /\ chain.complete
        /\ "faulty" \in tags => message.kind \in {"EVENT", "ERROR_EVENT"}
        /\ "stream" \in tags /\ message.kind # "END_OF_LUMI" =>
             message.kind \in {"EVENT", "ERROR_EVENT"} /\ ~faulty(chain) /\ chain.complete
        /\ \A c \in Consumers : c \in tags =>
             message.kind = "EVENT" /\ ~faulty(chain) /\ chain.complete
BY MessagesAssumption, Kinded DEF TagsInv, MayHave, MayTag, Kinds

LEMMA WholeEvents == ASSUME NEW ch, ~faulty(ch), ch.complete PROVE headerOkay(ch)
BY DEF faulty, headerOkay

-----------------------------------------------------------------------------
(* The FragmentProcessor.                                                  *)

\* Nothing else changes while a chain is not yet queued.
LEMMA BeforeQueueing ==
  ASSUME DataInv, NEW from, NEW to, ProcessorGoes(from, to), tags' = tags, ~Queued, ~Queued'
  PROVE TagsInv' /\ CountInv' /\ ErrorEventsAreFiledUnderOurRun'
<1> USE DEF DataInv, ProcessorGoes, consumers
<1>1. \A c \in Consumers : served'[c] = "waiting"
  BY DEF TagsInv, DataTypeOK
<1>2. TagsInv'
  BY <1>1 DEF TagsInv
<1>3. CountInv'
  BY <1>1 DEF CountInv
<1> QED BY <1>2, <1>3 DEF ErrorEventsAreFiledUnderOurRun

LEMMA Receiving == ASSUME DataInv, receive PROVE DataInv'
<1> USE DEF DataInv
<1>1. PICK n \in 1 .. message.parts :
        /\ ProcessorGoes("expecting", NextStage(addFirstFragment(n)))
        /\ chain' = addFirstFragment(n)
  BY DEF receive
<1> DEFINE ch == addFirstFragment(n)
<1>2. stage = "expecting" /\ stage' = NextStage(ch) /\ message' = message /\ header' = header
        /\ tags' = tags /\ raised' = raised /\ message.kind # "END_OF_LUMI" /\ chain' = ch
        /\ served' = served /\ counted' = counted /\ lost' = lost /\ told' = told
  BY <1>1 DEF receive, ProcessorGoes, consumers
<1>3. header = message.skipped /\ message \in Messages
  BY <1>2 DEF TagsInv, Queued, DataTypeOK
<1>4. /\ ch \in ChainType /\ SoundChain(ch, message)
      /\ message.kind = "INVALID" => "CORRUPT_INITIAL_HEADER" \in ch.bits
  BY <1>3, FirstFragment
<1> HIDE DEF ch
<1>5. stage' = IF ch.complete THEN "checking" ELSE "assembling"
  BY <1>2 DEF NextStage
<1>6. StageInv'
  BY <1>2, <1>4, <1>5 DEF StageInv, Distributed
<1>7. DataTypeOK'
  BY <1>2, <1>4, <1>5 DEF DataTypeOK
<1>8. TagsInv' /\ CountInv' /\ ErrorEventsAreFiledUnderOurRun'
  BY <1>1, <1>2, <1>5, BeforeQueueing DEF Queued
<1> QED BY <1>2, <1>6, <1>7, <1>8 DEF NothingUnexpectedIsRaised

LEMMA AddingFragments == ASSUME DataInv, addFragment PROVE DataInv'
<1> USE DEF DataInv
<1> DEFINE more == [chain EXCEPT !.count = @ + 1]
           ch == checkForCompleteness(more)
<1>1. stage = "assembling" /\ stage' = NextStage(ch) /\ message' = message /\ header' = header
        /\ tags' = tags /\ raised' = raised /\ chain' = ch
        /\ served' = served /\ counted' = counted /\ lost' = lost /\ told' = told
  BY DEF addFragment, addToChain, ProcessorGoes, consumers
<1>2. header = message.skipped /\ message \in Messages /\ chain \in ChainType
  BY <1>1 DEF TagsInv, Queued, DataTypeOK
<1>3. /\ SoundChain(chain, message) /\ ~chain.complete /\ message.kind # "END_OF_LUMI"
      /\ message.kind = "INVALID" => "CORRUPT_INITIAL_HEADER" \in chain.bits
  BY <1>1 DEF StageInv
<1>4. /\ more \in ChainType /\ more.count = chain.count + 1 /\ more.expected = chain.expected
      /\ more.complete = chain.complete /\ more.bits = chain.bits /\ more.cached = chain.cached
      /\ chain.count \in Nat
  BY <1>2 DEF ChainType
<1> HIDE DEF more
<1>5. more.count >= 1 /\ more.expected \in {0, message.parts} /\ more.cached = Unread
        /\ ~more.complete /\ "WRONG_CHECKSUM" \notin more.bits /\ "INCOMPLETE_MESSAGE" \in more.bits
  BY <1>3, <1>4 DEF SoundChain
<1>6. /\ ch \in ChainType /\ SoundChain(ch, message)
      /\ message.kind = "INVALID" => "CORRUPT_INITIAL_HEADER" \in ch.bits
  BY <1>2, <1>3, <1>4, <1>5, Assembling
<1> HIDE DEF ch
<1>7. stage' = IF ch.complete THEN "checking" ELSE "assembling"
  BY <1>1 DEF NextStage
<1>8. StageInv'
  BY <1>1, <1>3, <1>6, <1>7 DEF StageInv, Distributed
<1>9. DataTypeOK'
  BY <1>1, <1>6, <1>7 DEF DataTypeOK
<1>10. TagsInv' /\ CountInv' /\ ErrorEventsAreFiledUnderOurRun'
  <2>1. ProcessorGoes("assembling", NextStage(addToChain))
    BY DEF addFragment
  <2> QED BY <1>1, <1>7, <2>1, BeforeQueueing DEF Queued
<1> QED BY <1>1, <1>8, <1>9, <1>10 DEF NothingUnexpectedIsRaised

LEMMA GivingUp == ASSUME DataInv, noFragmentToProcess PROVE DataInv'
<1> USE DEF DataInv
<1> DEFINE ch == [chain EXCEPT !.bits = @ \cup {"EXTERNALLY_REQUESTED"}]
<1>1. stage = "assembling" /\ stage' = "distributing" /\ message' = message /\ header' = header
        /\ tags' = tags /\ raised' = raised /\ chain' = ch
        /\ served' = served /\ counted' = counted /\ lost' = lost /\ told' = told
  BY DEF noFragmentToProcess, ProcessorGoes, consumers
<1>2. SoundChain(chain, message) /\ ~chain.complete /\ chain \in ChainType
  BY <1>1 DEF StageInv, DataTypeOK
<1>3. /\ ch \in ChainType /\ ch.count = chain.count /\ ch.expected = chain.expected
      /\ ch.complete = chain.complete /\ ch.bits = chain.bits \cup {"EXTERNALLY_REQUESTED"}
      /\ ch.cached = chain.cached
  BY <1>2 DEF ChainType, Bits
<1> HIDE DEF ch
<1>4. SoundChain(ch, message) /\ ~headerOkay(ch)
  BY <1>2, <1>3 DEF SoundChain, headerOkay
<1>5. IsCached(ch, message)
  BY <1>4 DEF IsCached
<1>6. StageInv'
  BY <1>1, <1>3, <1>4, <1>5 DEF StageInv, Distributed
<1>7. DataTypeOK'
  BY <1>1, <1>3 DEF DataTypeOK
<1>8. TagsInv' /\ CountInv' /\ ErrorEventsAreFiledUnderOurRun'
  <2>1. ProcessorGoes("assembling", "distributing")
    BY DEF noFragmentToProcess
  <2> QED BY <1>1, <2>1, BeforeQueueing DEF Queued
<1> QED BY <1>1, <1>6, <1>7, <1>8 DEF NothingUnexpectedIsRaised

LEMMA CheckedChain ==
  ASSUME DataInv, assertRunNumber, chain' \in ChainType, SoundChain(chain', message),
         IsCached(chain', message), chain'.bits = chain.bits
  PROVE DataInv'
<1> USE DEF DataInv
<1>1. stage = "checking" /\ stage' = "distributing" /\ message' = message /\ header' = header
        /\ tags' = tags /\ raised' = raised
        /\ served' = served /\ counted' = counted /\ lost' = lost /\ told' = told
        /\ ProcessorGoes("checking", "distributing")
  BY DEF assertRunNumber, ProcessorGoes, consumers
<1>2. StageInv'
  BY <1>1 DEF StageInv, Distributed
<1>3. DataTypeOK'
  BY <1>1 DEF DataTypeOK
<1>4. TagsInv' /\ CountInv' /\ ErrorEventsAreFiledUnderOurRun'
  BY <1>1, BeforeQueueing DEF Queued
<1> QED BY <1>1, <1>2, <1>3, <1>4 DEF NothingUnexpectedIsRaised

LEMMA CheckingRuns == ASSUME DataInv, assertRunNumber PROVE DataInv'
<1> USE DEF DataInv
<1> DEFINE re == AfterReading(chain)
           ours == [re EXCEPT !.cached.run = "ours"]
<1>1. stage = "checking" /\ stage' = "distributing" /\ message' = message /\ header' = header
        /\ tags' = tags /\ raised' = raised
        /\ served' = served /\ counted' = counted /\ lost' = lost /\ told' = told
        /\ chain' = IF headerOkay(chain) /\ "runNumber" \in HeaderFields(message.kind)
                    THEN IF message.kind = "ERROR_EVENT" THEN ours ELSE re ELSE chain
  BY DEF assertRunNumber, ProcessorGoes, consumers
<1>2. SoundChain(chain, message) /\ chain.complete /\ chain \in ChainType
        /\ message \in Messages /\ header = message.skipped /\ header \in Nat
  BY <1>1 DEF StageInv, DataTypeOK, TagsInv, Queued
<1>3. /\ re \in ChainType /\ re.count = chain.count /\ re.expected = chain.expected
      /\ re.complete = chain.complete /\ re.bits = chain.bits
      /\ re.cached = IF headerOkay(chain) /\ chain.cached = Unread THEN cacheHeaderFields(chain)
                     ELSE chain.cached
  BY <1>2, Reading
<1>4. CASE headerOkay(chain) /\ message.kind = "ERROR_EVENT"
  <2>1. ~HasChecksum(message) /\ HeaderFields(message.kind) = ErrorEventFields
    BY <1>2, <1>4, Kinded, ByKind
  <2>2. chain.bits = {} /\ chain.count = message.parts
    BY <1>2, <1>4, <2>1 DEF SoundChain, headerOkay
  <2>3. Whole(re.cached, message) /\ re.cached # Unread
    BY <1>2, <1>3, <1>4, <2>2, FoundHeader DEF SoundChain
  <2> HIDE DEF re
  <2>4. chain' = ours
    BY <1>1, <1>4, <2>1 DEF ErrorEventFields
  <2>5. /\ ours \in ChainType /\ ours.count = re.count /\ ours.expected = re.expected
        /\ ours.complete = re.complete /\ ours.bits = re.bits
        /\ ours.cached = [re.cached EXCEPT !.run = "ours"] /\ re.cached \in Cache
    BY <1>3 DEF ChainType, Cache
  <2>6. /\ ours.cached.of = re.cached.of /\ ours.cached.upTo = re.cached.upTo
        /\ ours.cached.skipped = re.cached.skipped /\ ours.cached.run = "ours"
    BY <2>5 DEF Cache
  <2> HIDE DEF ours
  <2>7. Whole(ours.cached, message) /\ ours.cached # Unread
    BY <2>3, <2>6 DEF Whole, Unread
  <2>8. SoundChain(ours, message)
    BY <1>2, <1>3, <2>1, <2>2, <2>5, <2>7 DEF SoundChain
  <2>9. IsCached(ours, message)
    BY <2>6, <2>7 DEF IsCached
  <2> QED BY <1>1, <1>2, <1>3, <1>4, <2>4, <2>5, <2>8, <2>9, CheckedChain
<1>5. CASE ~(headerOkay(chain) /\ message.kind = "ERROR_EVENT")
  <2>1. HasChecksum(message) /\ headerOkay(chain) => chain.cached # Unread
    BY <1>2 DEF SoundChain
  <2>2. "runNumber" \in HeaderFields(message.kind) /\ headerOkay(chain) => HasChecksum(message)
    BY <1>2, <1>5, Kinded DEF Kinds
  <2>3. chain' = chain
    BY <1>1, <1>5, <2>1, <2>2 DEF AfterReading
  <2>4. IsCached(chain, message)
    BY <1>2, <1>5, <2>1, Kinded DEF IsCached
  <2> QED BY <1>1, <1>2, <2>3, <2>4, CheckedChain
<1> QED BY <1>4, <1>5

LEMMA StageKept ==
  ASSUME StageInv, Distributed, message' = message, chain' = chain, stage' \in {"queueing", "done"}
  PROVE StageInv'
BY DEF StageInv, Distributed

LEMMA MayTagTypes == ASSUME NEW k PROVE MayTag(k) \subseteq Consumers \cup {"stream", "dqm", "faulty"}
BY DEF MayTag

LEMMA Distributing == ASSUME DataInv, addEventToRelevantQueues PROVE DataInv'
<1> USE DEF DataInv
<1>1. stage = "distributing" /\ stage' = "queueing" /\ message' = message /\ header' = header
        /\ written' = written
        /\ served' = served /\ counted' = counted /\ lost' = lost /\ told' = told
  BY DEF addEventToRelevantQueues, ProcessorGoes, consumers
<1>2. message \in Messages /\ Distributed /\ message.kind # "END_OF_LUMI"
        /\ header = message.skipped /\ \A c \in Consumers : served[c] = "waiting"
        /\ message.kind \in Kinds /\ tags = {}
  BY <1>1, Kinded DEF DataTypeOK, Distributed, StageInv, TagsInv, Queued
<1>3. chain' = chain /\ raised' = raised /\ tags' \subseteq MayHave(chain, message)
  <2>1. CASE faulty(chain) \/ ~chain.complete
    <3>1. Reads({"hltURL", "totalDataSize"})
            /\ tags' \subseteq (IF message.kind \in {"EVENT", "ERROR_EVENT"} THEN {"faulty"} ELSE {})
      BY <2>1 DEF addEventToRelevantQueues
    <3>2. {"hltURL", "totalDataSize"} \subseteq FreeFields(message.kind)
      BY DEF FreeFields
    <3>3. Raising({"hltURL", "totalDataSize"}, {}) = {}
      BY <1>2, <3>2, AllThere
    <3> QED BY <1>2, <2>1, <3>1, <3>3, NothingToCache DEF Reads, MayHave
  <2>2. CASE ~faulty(chain) /\ chain.complete
    <3>1. Reads(AskedWhenDistributed(message.kind)) /\ tags' \subseteq MayTag(message.kind)
      BY <2>2 DEF addEventToRelevantQueues
    <3>2. headerOkay(chain) /\ chain.bits = {}
      BY <2>2, WholeEvents DEF faulty
    <3>3. message.kind # "INVALID"
      BY <1>1, <3>2 DEF StageInv
    <3>4. Raising(AskedWhenDistributed(message.kind), {}) = {}
      BY <1>2, <3>2, <3>3, Askable, AllThere
    <3> QED BY <1>2, <2>2, <3>1, <3>4, NothingToCache DEF Reads, MayHave
  <2> QED BY <2>1, <2>2
<1>4. StageInv'
  BY <1>1, <1>2, <1>3, StageKept
<1>5. tags' \subseteq Consumers \cup {"stream", "dqm", "faulty"}
  BY <1>3, MayTagTypes DEF MayHave
<1>6. DataTypeOK'
  BY <1>1, <1>3, <1>5 DEF DataTypeOK
<1>7. TagsInv' /\ CountInv'
  BY <1>1, <1>2, <1>3 DEF TagsInv, CountInv, Queued
<1> QED BY <1>1, <1>3, <1>4, <1>6, <1>7 DEF NothingUnexpectedIsRaised, ErrorEventsAreFiledUnderOurRun

LEMMA Unwanted == ASSUME DataInv, addUnwantedEvent PROVE DataInv'
<1> USE DEF DataInv
<1>1. stage = "queueing" /\ stage' = "done" /\ message' = message /\ header' = header
        /\ tags' = tags /\ written' = written
        /\ served' = served /\ counted' = counted /\ lost' = lost /\ told' = told
  BY DEF addUnwantedEvent, ProcessorGoes, consumers
<1>2. message \in Messages /\ Distributed
  BY <1>1 DEF DataTypeOK, Distributed
<1> DEFINE fields == {"eventNumber", "outputModuleId", "hltTriggerCount", "hltTriggerBits"}
<1>3. chain' = chain /\ raised' = raised
  <2>1. CASE tags = {} /\ message.kind = "EVENT" /\ ~faulty(chain) /\ chain.complete
    <3>1. Reads(fields)
      BY <2>1 DEF addUnwantedEvent
    <3>2. fields \subseteq HeaderFields(message.kind)
      BY <2>1, ByKind DEF EventFields
    <3>3. Raising(fields, {}) = {}
      BY <1>2, <2>1, <3>2, WholeEvents, AllThere
    <3> QED BY <1>2, <3>1, <3>3, NothingToCache DEF Reads
  <2>2. CASE ~(tags = {} /\ message.kind = "EVENT" /\ ~faulty(chain) /\ chain.complete)
    BY <2>2 DEF addUnwantedEvent, ReadsNothing
  <2> QED BY <2>1, <2>2
<1>4. StageInv'
  BY <1>1, <1>2, <1>3, StageKept
<1>5. DataTypeOK'
  BY <1>1, <1>3 DEF DataTypeOK
<1>6. TagsInv' /\ CountInv'
  BY <1>1, <1>3 DEF TagsInv, CountInv, Queued
<1> QED BY <1>1, <1>3, <1>4, <1>5, <1>6 DEF NothingUnexpectedIsRaised, ErrorEventsAreFiledUnderOurRun

LEMMA EndOfLumi == ASSUME DataInv, receiveEndOfLumiSectionMessage PROVE DataInv'
<1> USE DEF DataInv
<1> DEFINE ch == addFirstFragment(1)
<1>1. stage = "expecting" /\ stage' = "queueing" /\ message' = message /\ header' = header
        /\ tags' = {"stream"} /\ written' = written /\ raised' = raised /\ chain' = ch
        /\ served' = served /\ counted' = counted /\ lost' = lost /\ told' = told
        /\ message.kind = "END_OF_LUMI"
  BY DEF receiveEndOfLumiSectionMessage, consumers
<1>2. message \in Messages /\ header = message.skipped
        /\ \A c \in Consumers : served[c] = "waiting"
  BY <1>1 DEF DataTypeOK, TagsInv, Queued
<1>3. 1 \in 1 .. message.parts
  BY <1>2, Sent DEF MessageType
<1>4. ch \in ChainType /\ SoundChain(ch, message)
  BY <1>2, <1>3, FirstFragment
<1> HIDE DEF ch
<1>5. IsCached(ch, message)
  BY <1>1, <1>2, Kinded DEF IsCached
<1>6. StageInv'
  BY <1>1, <1>4, <1>5 DEF StageInv, Distributed
<1>7. DataTypeOK'
  BY <1>1, <1>4 DEF DataTypeOK
<1>8. TagsInv' /\ CountInv'
  BY <1>1, <1>2 DEF TagsInv, CountInv, Queued, MayHave
<1> QED BY <1>1, <1>6, <1>7, <1>8 DEF NothingUnexpectedIsRaised, ErrorEventsAreFiledUnderOurRun

-----------------------------------------------------------------------------
(* The DiskWriter and the DQMEventProcessor.                               *)

\* They change what is written, and nothing that was not read already.
LEMMA Writing ==
  ASSUME DataInv, NEW how, Writes(how), NEW fields, NEW exceptions, Asks(fields, exceptions),
         exceptions = {}, message.kind = "ERROR_EVENT" => how.run = "ours"
  PROVE DataInv'
<1> USE DEF DataInv
<1>1. Distributed /\ stage \in {"queueing", "done"}
  BY DEF Writes, Queued, Distributed
<1>2. stage' = stage /\ message' = message /\ header' = header /\ tags' = tags /\ written' = how
        /\ served' = served /\ counted' = counted /\ lost' = lost /\ told' = told
  BY DEF Writes, consumers
<1>3. chain' = chain /\ raised' = raised
  BY <1>1, NothingToCache
<1>4. StageInv'
  BY <1>1, <1>2, <1>3, StageKept
<1>5. DataTypeOK'
  BY <1>2, <1>3 DEF DataTypeOK
<1>6. TagsInv' /\ CountInv'
  BY <1>2, <1>3 DEF TagsInv, CountInv, Queued
<1> QED BY <1>2, <1>3, <1>4, <1>5, <1>6 DEF NothingUnexpectedIsRaised, ErrorEventsAreFiledUnderOurRun

\* An error event that can say its run has been told ours.
LEMMA OurRun == ASSUME DataInv, Queued, message.kind = "ERROR_EVENT" PROVE RunOf(chain) = "ours"
<1> USE DEF DataInv
<1>1. CASE headerOkay(chain)
  <2>1. HeaderFields(message.kind) # {}
    BY Kinded DEF DataTypeOK
  <2>2. chain.cached # Unread /\ chain.cached.run = "ours"
    BY <1>1, <2>1 DEF StageInv, Distributed, Queued, IsCached
  <2>3. AfterReading(chain) = chain
    BY <2>2 DEF AfterReading
  <2> QED BY <2>2, <2>3 DEF RunOf
<1>2. CASE ~headerOkay(chain)
  <2>1. "runNumber" \in HeaderFields(message.kind) /\ "runNumber" \notin FreeFields(message.kind)
    BY Disjoint, ByKind DEF ErrorEventFields, DataTypeOK
  <2>2. raises("runNumber") # {}
    BY <1>2, <2>1 DEF raises
  <2> QED BY <2>2 DEF RunOf
<1> QED BY <1>1, <1>2

LEMMA EndingLumi == ASSUME DataInv, processEndOfLumiSection PROVE DataInv'
<1> DEFINE how == [NotWritten EXCEPT !.format = "report"]
<1>1. Writes(how) /\ how.run = "ours" /\ message.kind = "END_OF_LUMI" /\ message \in Messages
  BY DEF processEndOfLumiSection, NotWritten, DataInv, DataTypeOK
<1> HIDE DEF how
<1>2. CASE faulty(chain)
  <2>1. Asks({}, {})
    BY <1>2 DEF processEndOfLumiSection, ReadsNothing, Asks
  <2> QED BY <1>1, <2>1, Writing
<1>3. CASE ~faulty(chain)
  <2>1. Asks({"runNumber", "lumiSection"}, Raising({"runNumber", "lumiSection"}, {}))
    BY <1>3 DEF processEndOfLumiSection, Reads
  <2>2. Raising({"runNumber", "lumiSection"}, {}) = {}
    BY <1>1, ByKind, AllThere DEF EndOfLumiFields
  <2> QED BY <1>1, <2>1, <2>2, Writing
<1> QED BY <1>2, <1>3

LEMMA WritingEvents == ASSUME DataInv, writeEvent PROVE DataInv'
<1>1. message.kind \in {"EVENT", "ERROR_EVENT"} /\ headerOkay(chain) /\ message \in Messages
  BY Tags, WholeEvents DEF writeEvent, DataInv, DataTypeOK
<1>2. CASE message.kind = "EVENT"
  <2> DEFINE fields == {"lumiSection", "outputModuleId", "hltTriggerBits", "totalDataSize"}
  <2>1. Reads(fields) /\ Writes(WrittenAs("event"))
    BY <1>2 DEF writeEvent
  <2>2. fields \subseteq FreeFields(message.kind) \cup HeaderFields(message.kind)
    BY <1>2, ByKind DEF EventFields, Kinds
  <2>3. Raising(fields, {}) = {}
    BY <1>1, <2>2, AllThere
  <2> QED BY <1>2, <2>1, <2>3, Writing DEF Reads
<1>3. CASE message.kind = "ERROR_EVENT"
  <2> DEFINE fields == {"lumiSection", "totalDataSize"}
  <2>1. Reads(fields) /\ Writes(WrittenAs("FRD"))
    BY <1>3 DEF writeEvent
  <2>2. fields \subseteq FreeFields(message.kind) \cup HeaderFields(message.kind)
    BY <1>3, ByKind DEF ErrorEventFields, Kinds
  <2>3. Raising(fields, {}) = {}
    BY <1>1, <2>2, AllThere
  <2>4. WrittenAs("FRD").run = "ours"
    BY <1>3, <2>1, OurRun DEF WrittenAs, Writes
  <2> QED BY <2>1, <2>3, <2>4, Writing DEF Reads
<1> QED BY <1>1, <1>2, <1>3

LEMMA WritingFaulty == ASSUME DataInv, writeFaultyEvent PROVE DataInv'
<1> DEFINE isEvent == raises("outputModuleId") = {}
           how == WrittenAs(IF isEvent THEN "event" ELSE "FRD")
           caught == Raising({"runNumber", "lumiSection"}, {"IncompleteEventMessage"})
           wrong == Raising({"outputModuleId"}, {"IncompleteEventMessage", "WrongI2OMessageType"})
           bits == Raising(IF isEvent THEN {"hltTriggerBits"} ELSE {}, {})
<1>1. message.kind \in {"EVENT", "ERROR_EVENT"} /\ message \in Messages
  BY Tags DEF writeFaultyEvent, DataInv, DataTypeOK
<1>2. Asks({"runNumber", "lumiSection", "outputModuleId"}, caught \cup wrong \cup bits) /\ Writes(how)
  BY DEF writeFaultyEvent
<1>3. {"runNumber", "lumiSection"} \subseteq HeaderFields(message.kind)
        /\ {"runNumber", "lumiSection", "outputModuleId", "hltTriggerBits"}
             \cap FreeFields(message.kind) = {}
        /\ ("outputModuleId" \in HeaderFields(message.kind) <=> message.kind = "EVENT")
        /\ ("hltTriggerBits" \in HeaderFields(message.kind) <=> message.kind = "EVENT")
  BY <1>1, ByKind DEF EventFields, ErrorEventFields, FreeFields
<1>4. Incomplete(message.kind) = "IncompleteEventMessage"
  BY <1>1 DEF Incomplete
<1>5. caught = {}
  <2>1. \A f \in {"runNumber", "lumiSection"} : raises(f) \subseteq {"IncompleteEventMessage"}
    BY <1>3, <1>4 DEF raises
  <2> QED BY <2>1 DEF Raising
<1>6. raises("outputModuleId") \subseteq {"IncompleteEventMessage", "WrongI2OMessageType"}
  BY <1>3, <1>4 DEF raises
<1>7. wrong = {}
  BY <1>6 DEF Raising
<1>8. bits = {}
  <2>1. CASE isEvent
    <3>1. message.kind = "EVENT" /\ headerOkay(chain)
      BY <1>3, <2>1 DEF raises
    <3>2. raises("hltTriggerBits") = {}
      BY <1>3, <3>1 DEF raises
    <3> QED BY <3>2 DEF Raising
  <2>2. CASE ~isEvent
    BY <2>2 DEF Raising
  <2> QED BY <2>1, <2>2
<1>9. message.kind = "ERROR_EVENT" => how.run = "ours"
  BY <1>2, OurRun DEF WrittenAs, Writes
<1> HIDE DEF how, caught, wrong, bits
<1> QED BY <1>2, <1>5, <1>7, <1>8, <1>9, Writing

LEMMA Collecting == ASSUME DataInv, processNextDQMEvent PROVE DataInv'
<1> DEFINE how == [NotWritten EXCEPT !.format = "folder"]
           fields == {"lumiSection", "dqmKey"}
<1>1. Writes(how) /\ how.run = "ours" /\ Asks(fields, Raising(fields, {})) /\ message \in Messages
  BY DEF processNextDQMEvent, NotWritten, Reads, DataInv, DataTypeOK
<1>2. message.kind = "DQM_EVENT" /\ headerOkay(chain)
  BY <1>1, Tags, WholeEvents DEF processNextDQMEvent, DataInv
<1>3. fields \subseteq HeaderFields(message.kind)
  BY <1>2, ByKind DEF DQMEventFields
<1>4. Raising(fields, {}) = {}
  BY <1>1, <1>2, <1>3, AllThere
<1> HIDE DEF how, fields
<1> QED BY <1>1, <1>4, Writing

-----------------------------------------------------------------------------
(* The requests of consumers.                                              *)

\* What a request leaves as it is.
LEMMA Requesting ==
  ASSUME DataInv, NEW c \in Consumers, NEW from \in {"waiting", "counted", "set"},
         NEW to \in {"counted", "set", "answered"},
         RequestGoes(c, from, to), c \in tags, Queued, chain' = chain, raised' = raised,
         header' \in Nat, {counted', lost', told'} \subseteq [Consumers -> Nat], CountInv'
  PROVE DataInv'
<1> USE DEF DataInv
<1>1. stage' = stage /\ message' = message /\ tags' = tags /\ written' = written
        /\ served[c] = from /\ served' = [served EXCEPT ![c] = to]
  BY DEF RequestGoes
<1>2. Distributed /\ stage \in {"queueing", "done"}
  BY DEF Distributed, Queued
<1>3. StageInv'
  BY <1>1, <1>2, StageKept
<1>4. DataTypeOK'
  BY <1>1 DEF DataTypeOK
<1>5. TagsInv'
  BY <1>1 DEF TagsInv, Queued, DataTypeOK
<1> QED BY <1>1, <1>3, <1>4, <1>5 DEF NothingUnexpectedIsRaised, ErrorEventsAreFiledUnderOurRun

\* A chain that a consumer is served has a header, and a count of dropped events.
LEMMA Servable == ASSUME DataInv, NEW c \in Consumers, c \in tags
  PROVE /\ message.kind = "EVENT" /\ ~faulty(chain) /\ headerOkay(chain) /\ message \in Messages
        /\ Queued /\ chain.cached.skipped = message.skipped
<1> USE DEF DataInv
<1>1. message.kind = "EVENT" /\ ~faulty(chain) /\ headerOkay(chain) /\ message \in Messages
  BY Tags, WholeEvents DEF DataTypeOK
<1>2. Queued
  BY DEF TagsInv
<1>3. SoundChain(chain, message) /\ IsCached(chain, message)
  BY <1>2 DEF StageInv, Queued, Distributed
<1>4. HeaderFields(message.kind) # {}
  BY <1>1, Kinded
<1>5. Whole(chain.cached, message)
  BY <1>1, <1>3, <1>4 DEF SoundChain, IsCached
<1> QED BY <1>1, <1>2, <1>5 DEF Whole

LEMMA Popping == ASSUME DataInv, NEW c \in Consumers, popEvent(c) PROVE DataInv'
<1> USE DEF DataInv
<1>1. c \in tags /\ header' = header /\ told' = told
  BY DEF popEvent
<1>2. /\ message.kind = "EVENT" /\ ~faulty(chain) /\ headerOkay(chain) /\ message \in Messages
      /\ Queued /\ chain.cached.skipped = message.skipped
  BY <1>1, Servable
<1>3. PICK n \in Losses :
        /\ RequestGoes(c, "waiting", "counted") /\ Reads({"droppedEventsCount"})
        /\ lost' = [lost EXCEPT ![c] = n]
        /\ counted' = [counted EXCEPT ![c] = chain'.cached.skipped + n]
  BY <1>2 DEF popEvent
<1>4. {"droppedEventsCount"} \subseteq HeaderFields(message.kind)
  BY <1>2, ByKind DEF EventFields
<1>5. Raising({"droppedEventsCount"}, {}) = {}
  BY <1>2, <1>4, AllThere
<1>6. chain' = chain /\ raised' = raised
  BY <1>2, <1>3, <1>5, NothingToCache DEF Reads, Distributed, Queued
<1>7. n \in Nat /\ message.skipped \in Nat
  BY <1>2, Sent, MessagesAssumption DEF MessageType
<1>8. counted' = [counted EXCEPT ![c] = message.skipped + n] /\ message' = message
        /\ served[c] = "waiting" /\ served' = [served EXCEPT ![c] = "counted"]
  BY <1>2, <1>3, <1>6 DEF RequestGoes
<1>9. {counted', lost', told'} \subseteq [Consumers -> Nat]
  BY <1>1, <1>3, <1>7, <1>8 DEF DataTypeOK
<1>10. CountInv'
  <2>0. served \in [Consumers -> {"waiting", "counted", "set", "answered"}]
          /\ counted \in [Consumers -> Nat] /\ lost \in [Consumers -> Nat]
    BY DEF DataTypeOK
  <2>1. ASSUME NEW d \in Consumers, served[d] # "waiting"
        PROVE served'[d] = served[d] /\ counted'[d] = counted[d] /\ lost'[d] = lost[d]
    BY <1>3, <1>8, <2>0, <2>1
  <2>2. served'[c] = "counted" /\ counted'[c] = message.skipped + lost'[c]
    BY <1>3, <1>8, <2>0
  <2>3. \A d \in Consumers : d # c => served'[d] = served[d]
    BY <1>8, <2>0
  <2> QED BY <1>1, <1>8, <2>1, <2>2, <2>3 DEF CountInv
<1> QED BY <1>1, <1>2, <1>3, <1>6, <1>9, <1>10, Requesting DEF DataTypeOK

LEMMA Setting == ASSUME DataInv, NEW c \in Consumers, setDroppedEventsCount(c) PROVE DataInv'
<1> USE DEF DataInv
<1>1. RequestGoes(c, "counted", "set") /\ message' = message
        /\ served[c] = "counted" /\ served' = [served EXCEPT ![c] = "set"]
        /\ counted' = counted /\ lost' = lost /\ told' = told /\ chain' = chain /\ raised' = raised
  BY DEF setDroppedEventsCount, RequestGoes, ReadsNothing
<1>2. c \in tags
  BY <1>1 DEF TagsInv
<1>3. header' = counted[c]
  BY <1>2, Servable DEF setDroppedEventsCount
<1>4. served \in [Consumers -> {"waiting", "counted", "set", "answered"}] /\ counted \in [Consumers -> Nat]
  BY DEF DataTypeOK
<1>5. CountInv'
  BY <1>1, <1>3, <1>4 DEF CountInv
<1> QED BY <1>1, <1>2, <1>3, <1>4, <1>5, Servable, Requesting DEF DataTypeOK

LEMMA Sending == ASSUME DataInv, NEW c \in Consumers, writeConsumerEvent(c) PROVE DataInv'
<1> USE DEF DataInv
<1>1. RequestGoes(c, "set", "answered") /\ message' = message
        /\ served[c] = "set" /\ served' = [served EXCEPT ![c] = "answered"]
        /\ counted' = counted /\ lost' = lost /\ told' = [told EXCEPT ![c] = header]
        /\ header' = header /\ chain' = chain /\ raised' = raised
  BY DEF writeConsumerEvent, RequestGoes, ReadsNothing
<1>2. c \in tags
  BY <1>1 DEF TagsInv
<1>3. served \in [Consumers -> {"waiting", "counted", "set", "answered"}]
        /\ told \in [Consumers -> Nat] /\ header \in Nat
  BY DEF DataTypeOK
<1>4. \E d \in Consumers : served[d] # "waiting" /\ header = message.skipped + lost[d]
  BY <1>1 DEF CountInv
<1>5. \A d \in Consumers : (served'[d] # "waiting" <=> served[d] # "waiting")
  BY <1>1, <1>3
<1>6. CountInv'
  <2>1. ASSUME NEW d \in Consumers, served'[d] = "answered"
        PROVE \E x \in Consumers : served'[x] # "waiting" /\ told'[d] = message.skipped + lost[x]
    <3>1. CASE d = c
      BY <1>1, <1>3, <1>4, <1>5, <3>1
    <3>2. CASE d # c
      <4>1. served[d] = "answered" /\ told'[d] = told[d]
        BY <1>1, <1>3, <2>1, <3>2
      <4> QED BY <1>5, <4>1 DEF CountInv
    <3> QED BY <3>1, <3>2
  <2>2. \A d \in Consumers : served'[d] # "waiting" => counted'[d] = message.skipped + lost'[d]
    BY <1>1, <1>5 DEF CountInv
  <2>3. \A d \in Consumers : served'[d] \in {"set", "answered"} => served[d] \in {"set", "answered"}
    BY <1>1, <1>3
  <2>4. \A d \in Consumers : served'[d] \in {"set", "answered"} =>
          \E x \in Consumers : served'[x] # "waiting" /\ header' = counted'[x]
    BY <1>1, <1>5, <2>3 DEF CountInv
  <2> QED BY <1>1, <2>1, <2>2, <2>4 DEF CountInv
<1>7. {counted', lost', told'} \subseteq [Consumers -> Nat] /\ header' \in Nat
  BY <1>1, <1>3 DEF DataTypeOK
<1> QED BY <1>1, <1>2, <1>6, <1>7, Servable, Requesting

-----------------------------------------------------------------------------
LEMMA DataBegins == DataInit => DataInv
<1> SUFFICES ASSUME DataInit PROVE DataInv
  OBVIOUS
<1> USE DEF DataInit
<1>1. chain \in ChainType
  BY DEF ChainType, Cache, Unread, Bits
<1>2. header \in Nat
  BY Sent DEF MessageType
<1>3. DataTypeOK
  BY <1>1, <1>2 DEF DataTypeOK
<1>4. StageInv /\ TagsInv /\ CountInv
  BY DEF StageInv, TagsInv, CountInv, Distributed, Queued
<1> QED BY <1>3, <1>4 DEF DataInv, NothingUnexpectedIsRaised, ErrorEventsAreFiledUnderOurRun

LEMMA DataGoesOn == DataInv /\ [DataNext]_dataVars => DataInv'
<1> SUFFICES ASSUME DataInv, [DataNext]_dataVars PROVE DataInv'
  OBVIOUS
<1>1. ASSUME UNCHANGED dataVars PROVE DataInv'
  BY <1>1 DEF DataInv, DataTypeOK, StageInv, TagsInv, CountInv, Queued, Distributed, dataVars,
       NothingUnexpectedIsRaised, ErrorEventsAreFiledUnderOurRun
<1>2. CASE FragmentProcessor
  BY <1>2, Receiving, AddingFragments, GivingUp, CheckingRuns, Distributing, Unwanted
     DEF FragmentProcessor
<1>3. ASSUME NEW c \in Consumers, Request(c) PROVE DataInv'
  BY <1>3, Popping, Setting, Sending DEF Request
<1>4. CASE Finished
  BY <1>1, <1>4 DEF Finished
<1> QED
  BY <1>1, <1>2, <1>3, <1>4, EndOfLumi, EndingLumi, WritingEvents, WritingFaulty, Collecting
     DEF DataNext

\* What DataInv says implies the properties.
LEMMA DataImplies == DataInv => HeadersAreSound /\ LossesDoNotAccumulate
<1> SUFFICES ASSUME DataInv PROVE HeadersAreSound /\ LossesDoNotAccumulate
  OBVIOUS
<1> USE DEF DataInv
<1>1. stage = "expecting" => chain.cached = Unread
  BY DEF StageInv
<1>2. HeadersAreWhole
  BY <1>1 DEF HeadersAreWhole, StageInv, SoundChain, Whole
<1>3. HeadersAreCachedBeforeQueueing
  BY DEF HeadersAreCachedBeforeQueueing, StageInv, Queued, Distributed, IsCached
<1>4. LossesDoNotAccumulate
  BY DEF LossesDoNotAccumulate, CountInv
<1> QED BY <1>2, <1>3, <1>4 DEF HeadersAreSound

-----------------------------------------------------------------------------
\* The inductive invariant: EventData's values have their types, a chain is sound at every
\* stage, its tags are those that its kind and state allow, and the counts of dropped events
\* are those of the consumers.
THEOREM DataInvariant == DataSpec => []DataInv
<1>1. DataInit => DataInv
  BY DataBegins
<1>2. DataInv /\ [DataNext]_dataVars => DataInv'
  BY DataGoesOn
<1> QED BY <1>1, <1>2, PTL DEF DataSpec

\* The fields of EventData have their types.
THEOREM DataTypeCorrect == DataSpec => []DataTypeOK
<1>1. DataInv => DataTypeOK
  BY DEF DataInv
<1> QED BY <1>1, DataInvariant, PTL

\* A header that is cached is the whole header of the message, whichever fragments it is in,
\* and it is cached before any other thread than the FragmentProcessor asks for it.
THEOREM HeadersSound == DataSpec => []HeadersAreSound
<1>1. DataInv => HeadersAreSound
  BY DataImplies
<1> QED BY <1>1, DataInvariant, PTL

\* Selectors, monitoring, writers and consumers only ask for what a message has, or expect
\* the exception.
THEOREM NothingIsRaised == DataSpec => []NothingUnexpectedIsRaised
<1>1. DataInv => NothingUnexpectedIsRaised
  BY DEF DataInv
<1> QED BY <1>1, DataInvariant, PTL

\* An error event is filed under the run that is configured, also if it is damaged or
\* incomplete.
THEOREM ErrorsFiled == DataSpec => []ErrorEventsAreFiledUnderOurRun
<1>1. DataInv => ErrorEventsAreFiledUnderOurRun
  BY DEF DataInv
<1> QED BY <1>1, DataInvariant, PTL

\* Messages are read as they are, whatever is damaged or missing.
THEOREM FieldsSound == DataSpec => []FieldsAreSound
BY HeadersSound, NothingIsRaised, ErrorsFiled, PTL DEF FieldsAreSound

\* However the requests of consumers interleave, a count of dropped events that is sent is
\* that of one of them.
THEOREM LossesApart == DataSpec => []LossesDoNotAccumulate
<1>1. DataInv => LossesDoNotAccumulate
  BY DataImplies
<1> QED BY <1>1, DataInvariant, PTL

-----------------------------------------------------------------------------
(* Configuration: the inductive invariant, in parts.                       *)

streams(params) == params["DiskWriting"]

\* What the listener was told of last is what is set, or it is yet to be told; and what it
\* has not noted as changed is what was copied.
NoticeInv ==
  /\ ~notifying /\ streams(infoSpace) \notin Unreadable => previous = streams(infoSpace)
  /\ ~changed => streams(copy) = previous \/ (notifying /\ streams(copy) = streams(infoSpace))
  /\ streams(copy) \notin Unreadable

\* Who asked in Ready has what is in the copies, and who asked in Starting, too.
UsedInv ==
  /\ updating # 0 => state = "Ready"
  /\ updating = 0 /\ state \notin {"Halted", "Halting", "Failed"} =>
       \/ FailIsQueued
       \/ streamConfig = streams(copy) /\ \A u \in AtReady : used[u] = copy[Group[u]]
  /\ InRun =>
       /\ used["diskWriterStreams"] = streamConfig
       /\ \A u \in AtStart : used[u] = copy[Group[u]]
  /\ state = "Running" => used["distributorStreams"] = streamConfig

\* The reconfiguration comes first, if there is a change.
ReconfigureIsNext ==
  state = "Ready" /\ updating = 0 /\ commands # <<>> /\ Head(commands) = "Reconfigure"
SinceInv ==
  since # {} =>
    /\ streams(infoSpace) \in since
    /\ updating \in 2 .. 9 => streams(copy) \in since
    /\ \/ streamConfig \in since \/ FailIsQueued \/ ReconfigureIsNext
       \/ updating # 0 \/ state = "Failed"

ConfigInv == ConfigTypeOK /\ NoticeInv /\ UsedInv /\ SinceInv

(* Groups, users, and the command queue.                                   *)

LEMMA GroupsAre == Groups = {"DiskWriting", "DQMProcessing", "EventServing", "QueueConfiguration",
                             "WorkerThread", "ResourceMonitor", "Alarm", "RunNumber"}
<1>1. /\ UpdateOrder[1] = "DiskWriting" /\ UpdateOrder[2] = "DQMProcessing"
      /\ UpdateOrder[3] = "EventServing" /\ UpdateOrder[4] = "QueueConfiguration"
      /\ UpdateOrder[5] = "WorkerThread" /\ UpdateOrder[6] = "ResourceMonitor"
      /\ UpdateOrder[7] = "Alarm" /\ UpdateOrder[8] = "RunNumber"
  BY DEF UpdateOrder
<1>2. 1 .. 8 = {1, 2, 3, 4, 5, 6, 7, 8}
  OBVIOUS
<1> QED
  BY <1>1, <1>2 DEF Groups

\* Whoever asks in Ready or in Starting is not given the streams, and in Ready not the run.
LEMMA UserGroups ==
  /\ \A u \in AtReady : u \in Users /\ u \notin AtStart \cup Streams
       /\ Group[u] \in Groups \ {"RunNumber"}
  /\ \A u \in AtStart : u \in Users /\ u \notin AtReady \cup Streams /\ Group[u] \in Groups
  /\ "diskWriterStreams" \in Users /\ "distributorStreams" \in Users
  /\ "fragmentProcessor" \in AtReady
BY GroupsAre DEF AtReady, AtStart, Users, Streams, Group

Commands == {"Configure", "Reconfigure", "Enable", "Stop", "EmergencyStop", "Halt", "Fail"}

LEMMA Posted ==
  ASSUME commands \in Seq(Commands), NEW c \in Commands, Posts(c)
  PROVE  /\ commands' \in Seq(Commands) /\ commands' # <<>>
         /\ FailIsQueued \/ c = "Fail" => FailIsQueued'
         /\ Head(commands') = IF commands = <<>> THEN c ELSE Head(commands)
<1>1. /\ commands' = Append(commands, c) /\ commands' \in Seq(Commands)
      /\ Len(commands') = Len(commands) + 1
  BY DEF Posts
<1>2. /\ commands'[Len(commands) + 1] = c
      /\ \A n \in DOMAIN commands : n \in DOMAIN commands' /\ commands'[n] = commands[n]
      /\ Len(commands) + 1 \in DOMAIN commands'
  BY <1>1
<1> QED
  BY <1>1, <1>2 DEF FailIsQueued

LEMMA Taken ==
  ASSUME commands \in Seq(Commands), commands # <<>>, commands' = Tail(commands)
  PROVE  /\ commands' \in Seq(Commands) /\ Head(commands) \in Commands
         /\ FailIsQueued /\ Head(commands) # "Fail" => FailIsQueued'
<1>1. /\ commands' \in Seq(Commands) /\ Head(commands) \in Commands
      /\ Len(commands) \in Nat \ {0} /\ Len(commands') = Len(commands) - 1
      /\ \A n \in 1 .. Len(commands') : commands'[n] = commands[n + 1]
      /\ Head(commands) = commands[1]
  OBVIOUS
<1>2. ASSUME NEW n \in DOMAIN commands, commands[n] = "Fail", Head(commands) # "Fail"
      PROVE  n - 1 \in DOMAIN commands' /\ commands'[n - 1] = "Fail"
  <2>1. n \in 1 .. Len(commands) /\ n # 1
    BY <1>1, <1>2
  <2>2. n - 1 \in 1 .. Len(commands') /\ (n - 1) + 1 = n
    BY <1>1, <2>1
  <2> QED
    BY <1>1, <1>2, <2>2
<1> QED
  BY <1>1, <1>2 DEF FailIsQueued

\* What a group may be set to, and what its local copy may then be.
LEMMA Copied ==
  ASSUME ConfigTypeOK, NEW g \in Groups
  PROVE  /\ updateLocal(g) \in Contents(g) \cup {Least}
         /\ g = "DiskWriting" => updateLocal(g) = infoSpace[g] /\ infoSpace[g] \in StreamConfigs
BY DEF ConfigTypeOK, updateLocal, Contents

LEMMA ConfigBegins == ConfigInit => ConfigInv
<1> SUFFICES ASSUME ConfigInit PROVE ConfigInv
  OBVIOUS
<1> USE ConfigurationAssumption
<1>1. /\ "DiskWriting" \in Groups /\ \A g \in Groups : Default \in Contents(g)
      /\ Default \in StreamConfigs /\ Default \notin Unreadable
  BY GroupsAre DEF Contents, StreamConfigs
<1>2. commands \in Seq({"Configure", "Reconfigure", "Enable", "Stop", "EmergencyStop", "Halt", "Fail"})
  BY DEF ConfigInit
<1>3. /\ infoSpace \in [Groups -> Values \cup StreamConfigs \cup TooSmall]
      /\ \A g \in Groups : infoSpace[g] \in Contents(g) /\ copy[g] \in Contents(g) \cup {Least}
      /\ DOMAIN copy = Groups /\ DOMAIN used = Users
  BY <1>1 DEF ConfigInit
<1>6. ConfigTypeOK
  <2>1. /\ previous \in StreamConfigs /\ streamConfig \in StreamConfigs /\ updating \in 0 .. 9
        /\ copy["DiskWriting"] \in StreamConfigs
    BY <1>1 DEF ConfigInit
  <2>3. notifying \in BOOLEAN /\ changed \in BOOLEAN
    BY Zenon DEF ConfigInit
  <2>2. /\ state \in {"Halted", "Ready", "Starting", "Running", "Stopping", "Halting", "Failed"}
        /\ soap \in {"idle", "enabling"} /\ settings \in 0 .. Settings /\ since \subseteq StreamConfigs
    BY DEF ConfigInit
  <2> QED
    BY <1>2, <1>3, <2>1, <2>2, <2>3 DEF ConfigTypeOK
<1>4. NoticeInv
  BY <1>1 DEF ConfigInit, NoticeInv, streams
<1>5. UsedInv /\ SinceInv
  BY DEF ConfigInit, UsedInv, SinceInv, InRun
<1> QED
  BY <1>6, <1>4, <1>5 DEF ConfigInv

LEMMA ChangingParameters ==
  ASSUME ConfigInv, NEW g \in Groups, NEW v \in Contents(g), SetParameter(g, v)
  PROVE  ConfigInv'
<1>1. /\ ConfigTypeOK /\ NoticeInv /\ UsedInv /\ SinceInv /\ "DiskWriting" \in Groups
      /\ infoSpace' = [infoSpace EXCEPT ![g] = v] /\ settings' \in 0 .. Settings
      /\ UNCHANGED <<notice, copy, updating, streamConfig, used, state, commands, soap>>
  BY GroupsAre, ConfigurationAssumption DEF ConfigInv, SetParameter, ConfigTypeOK
<1>2. /\ infoSpace' \in [Groups -> Values \cup StreamConfigs \cup TooSmall]
      /\ infoSpace'[g] = v /\ \A h \in Groups \ {g} : infoSpace'[h] = infoSpace[h]
  BY <1>1 DEF ConfigTypeOK, Contents
<1>3. g = "DiskWriting" => v \in StreamConfigs
  BY DEF Contents
<1>4. since' \subseteq StreamConfigs /\ notifying' \in BOOLEAN
  BY <1>1, <1>3 DEF SetParameter, ConfigTypeOK
<1>5. ConfigTypeOK'
  BY <1>1, <1>2, <1>4 DEF ConfigTypeOK, notice, Groups, UpdateOrder, Contents, StreamConfigs, Users, Streams, Group, Least, Default
<1>6. NoticeInv'
  <2>1. ~notifying /\ previous' = previous /\ changed' = changed /\ copy' = copy
    BY <1>1 DEF SetParameter, notice
  <2>2. CASE g = "DiskWriting"
    <3>1. notifying'
      BY <2>2 DEF SetParameter
    <3> QED
      BY <1>1, <2>1, <3>1 DEF NoticeInv, streams
  <2>3. CASE g # "DiskWriting"
    <3>1. ~notifying' /\ infoSpace'["DiskWriting"] = infoSpace["DiskWriting"]
      BY <1>1, <1>2, <2>3 DEF SetParameter
    <3> QED
      BY <1>1, <2>1, <3>1 DEF NoticeInv, streams
  <2> QED
    BY <2>2, <2>3
<1>7. UsedInv'
  BY <1>1 DEF UsedInv, InRun, FailIsQueued, streams, AtReady, AtStart, Group
<1>8. SinceInv'
  BY <1>1, <1>2 DEF SinceInv, SetParameter, FailIsQueued, ReconfigureIsNext, streams
<1> QED
  BY <1>5, <1>6, <1>7, <1>8 DEF ConfigInv

LEMMA Notifying == ASSUME ConfigInv, actionPerformed PROVE ConfigInv'
<1>1. /\ ConfigTypeOK /\ NoticeInv /\ UsedInv /\ SinceInv /\ infoSpace["DiskWriting"] \in StreamConfigs
      /\ UNCHANGED <<infoSpace, settings, copy, updating, streamConfig, used, state, commands, soap, since>>
  BY GroupsAre DEF ConfigInv, actionPerformed, ConfigTypeOK, Contents
<1>2. ConfigTypeOK'
  BY <1>1 DEF ConfigTypeOK, actionPerformed, notice, Groups, UpdateOrder, Contents, StreamConfigs, Users, Streams, Group, Least, Default
<1>3. NoticeInv'
  BY <1>1 DEF NoticeInv, notice, actionPerformed, streams, ConfigTypeOK
<1>4. UsedInv' /\ SinceInv'
  BY <1>1 DEF UsedInv, InRun, FailIsQueued, streams, SinceInv, ReconfigureIsNext, AtReady, AtStart, Group
<1> QED
  BY <1>2, <1>3, <1>4 DEF ConfigInv

\* A command that is queued behind others, and is none that Ready waits for.
LEMMA Queueing ==
  ASSUME ConfigInv, NEW c \in Commands, Posts(c),
         UNCHANGED <<parameters, notice, copy, updating, streamConfig, used, state, since>>,
         soap' \in {"idle", "enabling"}
  PROVE  ConfigInv'
<1>1. /\ ConfigTypeOK /\ NoticeInv /\ UsedInv /\ SinceInv /\ commands \in Seq(Commands)
      /\ UNCHANGED <<infoSpace, notifying, settings, previous, changed, copy, updating,
                     streamConfig, used, state, since>>
  BY DEF ConfigInv, ConfigTypeOK, Commands, parameters, notice
<1>2. /\ commands' \in Seq(Commands) /\ commands' # <<>> /\ (FailIsQueued => FailIsQueued')
      /\ commands # <<>> => Head(commands') = Head(commands)
  BY <1>1, Posted
<1>3. ConfigTypeOK'
  BY <1>1, <1>2 DEF ConfigTypeOK, Commands, Groups, UpdateOrder, Contents, StreamConfigs, Users, Streams, Group, Least, Default
<1>4. NoticeInv'
  BY <1>1 DEF NoticeInv, streams
<1>5. UsedInv'
  BY <1>1, <1>2 DEF UsedInv, InRun, streams, AtStart, AtReady, Group
<1>6. SinceInv'
  <2>1. since # {} => streams(infoSpace') \in since /\ (updating' \in 2 .. 9 => streams(copy') \in since)
    BY <1>1 DEF SinceInv
  <2>2. ReconfigureIsNext => ReconfigureIsNext'
     BY <1>1, <1>2 DEF ReconfigureIsNext
  <2>3. since' # {} => \/ streamConfig' \in since' \/ FailIsQueued' \/ ReconfigureIsNext'
       \/ updating' # 0 \/ state' = "Failed"
     BY <1>1, <1>2, <2>2 DEF SinceInv
  <2> QED
     BY <1>1, <2>1, <2>3 DEF SinceInv, streams
<1> QED
  BY <1>3, <1>4, <1>5, <1>6 DEF ConfigInv

LEMMA Enabling == ASSUME ConfigInv, handleEnable PROVE ConfigInv'
<1>1. /\ ConfigTypeOK /\ NoticeInv /\ UsedInv /\ commands \in Seq(Commands)
      /\ infoSpace["DiskWriting"] \in StreamConfigs
      /\ UNCHANGED <<infoSpace, notifying, settings, previous, changed, copy, updating,
                     streamConfig, used, state>>
  BY GroupsAre DEF ConfigInv, ConfigTypeOK, Commands, parameters, notice, handleEnable, Contents
<1>2. PICK c \in Commands : Posts(c) /\ (changed => c = "Reconfigure")
  BY DEF handleEnable, Commands
<1>3. /\ commands' \in Seq(Commands) /\ commands' # <<>> /\ (FailIsQueued => FailIsQueued')
      /\ commands = <<>> => Head(commands') = c
  BY <1>1, <1>2, Posted
<1>4. ConfigTypeOK'
  BY <1>1, <1>3 DEF ConfigTypeOK, Commands, handleEnable, Groups, UpdateOrder, Contents, StreamConfigs, Users, Streams, Group, Least, Default
<1>5. NoticeInv' /\ UsedInv'
  BY <1>1, <1>3 DEF NoticeInv, UsedInv, InRun, streams, AtReady, AtStart, Group
<1>6. ASSUME since' # {} PROVE SinceInv'
  <2>1. AtRest /\ streams(infoSpace) \notin Unreadable /\ since' = {streams(infoSpace)}
    BY <1>6 DEF handleEnable, streams
  <2>2. CASE changed
    BY <1>1, <1>2, <1>3, <2>1, <2>2 DEF SinceInv, ReconfigureIsNext, AtRest, streams
  <2>3. CASE ~changed
    <3>1. streams(copy) = streams(infoSpace)
      BY <1>1, <2>1, <2>3 DEF NoticeInv, AtRest
    <3>2. ~FailIsQueued
      BY <2>1 DEF FailIsQueued, AtRest
    <3>3. streamConfig = streams(infoSpace)
      BY <1>1, <2>1, <3>1, <3>2 DEF UsedInv, AtRest
    <3> QED
      BY <1>1, <2>1, <3>3 DEF SinceInv, AtRest, streams
  <2> QED
    BY <2>2, <2>3
<1> QED
  BY <1>4, <1>5, <1>6 DEF ConfigInv, SinceInv

\* A state in which no run is, and Ready is not, as far as the configuration is concerned.
LEMMA Leaving ==
  ASSUME ConfigInv, commands # <<>>, commands' = Tail(commands),
         UNCHANGED <<parameters, notice, copy, updating, streamConfig, used, soap, since>>,
         \/ state' = state /\ Ignored(Head(commands))
         \/ Head(commands) # "Fail" /\ updating = 0 /\ state # "Failed"
              /\ \/ state \in {"Starting", "Running"} /\ state' = "Stopping"
                 \/ state \in {"Ready", "Running"} /\ Head(commands) = "Halt"
                      /\ state' \in {"Halted", "Halting"}
         \/ state' = "Failed" /\ updating = 0
  PROVE  ConfigInv'
<1>1. /\ ConfigTypeOK /\ NoticeInv /\ UsedInv /\ SinceInv /\ commands \in Seq(Commands)
      /\ UNCHANGED <<infoSpace, notifying, settings, previous, changed, copy, updating,
                     streamConfig, used, soap, since>>
  BY DEF ConfigInv, ConfigTypeOK, Commands, parameters, notice
<1>2. /\ commands' \in Seq(Commands)
      /\ (FailIsQueued /\ Head(commands) # "Fail" => FailIsQueued')
  BY <1>1, Taken
<1>3. state' = state => Ignored(Head(commands)) \/ state = "Failed"
  BY <1>1 DEF ConfigTypeOK
<1>4. state' = state /\ state # "Failed" => Head(commands) # "Fail" /\ ~ReconfigureIsNext
  BY <1>3 DEF Ignored, ReconfigureIsNext
<1>5. ConfigTypeOK'
  <2>1. state' \in {"Halted", "Ready", "Starting", "Running", "Stopping", "Halting", "Failed"}
    BY <1>1 DEF ConfigTypeOK
  <2> QED
    BY <1>1, <1>2, <2>1 DEF ConfigTypeOK, Commands, Groups, UpdateOrder, Contents, StreamConfigs,
                            Users, Streams, Group, Least, Default
<1>6. NoticeInv'
  BY <1>1 DEF NoticeInv, streams
<1>7. UsedInv'
  <2>1. CASE state' = "Failed"
    BY <1>1, <2>1 DEF UsedInv, InRun
  <2>2. CASE state' # "Failed" /\ state' = state
    BY <1>1, <1>2, <1>4, <2>2 DEF UsedInv, InRun, streams, AtStart, AtReady, Group
  <2>3. CASE state' # "Failed" /\ state' # state
    <3>1. Head(commands) # "Fail" /\ updating = 0 /\ state # "Failed"
      BY <2>3
    <3>2. CASE state' = "Stopping"
      BY <1>1, <1>2, <3>1, <3>2, <2>3 DEF UsedInv, InRun, streams, AtReady, Group
    <3>3. CASE state' \in {"Halted", "Halting"}
      BY <1>1, <3>1, <3>3 DEF UsedInv, InRun
    <3> QED
      BY <2>3, <3>2, <3>3
  <2> QED
    BY <2>1, <2>2, <2>3
<1>8. SinceInv'
  <2>1. since # {} => streams(infoSpace') \in since /\ (updating' \in 2 .. 9 => streams(copy') \in since)
    BY <1>1 DEF SinceInv
  <2>2. state' # "Failed" => ~ReconfigureIsNext
    BY <1>4 DEF ReconfigureIsNext
  <2>3. state' # "Failed" => Head(commands) # "Fail" /\ state # "Failed"
    BY <1>4
  <2>4. since' # {} => \/ streamConfig' \in since' \/ FailIsQueued' \/ updating' # 0 \/ state' = "Failed"
    BY <1>1, <1>2, <2>2, <2>3 DEF SinceInv
  <2> QED
    BY <1>1, <2>1, <2>4 DEF SinceInv, streams
<1> QED
  BY <1>5, <1>6, <1>7, <1>8 DEF ConfigInv

LEMMA Entering == ASSUME ConfigInv, updating = 0, commands # <<>>, commands' = Tail(commands), EnterReady,
                         UNCHANGED <<parameters, notice, streamConfig, soap, since>>
                  PROVE  ConfigInv'
<1>1. /\ ConfigTypeOK /\ NoticeInv /\ UsedInv /\ SinceInv /\ commands \in Seq(Commands)
      /\ UNCHANGED <<infoSpace, notifying, settings, previous, changed, copy,
                     streamConfig, used, soap, since>>
      /\ state' = "Ready" /\ updating' = 1
  BY DEF ConfigInv, ConfigTypeOK, Commands, parameters, notice, EnterReady
<1>2. commands' \in Seq(Commands)
  BY <1>1, Taken
<1>3. ConfigTypeOK'
  BY <1>1, <1>2 DEF ConfigTypeOK, Commands, Groups, UpdateOrder, Contents, StreamConfigs,
                    Users, Streams, Group, Least, Default
<1>4. NoticeInv' /\ UsedInv'
  BY <1>1 DEF NoticeInv, UsedInv, InRun, streams
<1>5. SinceInv'
  BY <1>1 DEF SinceInv, streams
<1> QED
  BY <1>3, <1>4, <1>5 DEF ConfigInv

LEMMA BeginningRun ==
  ASSUME ConfigInv, updating = 0, commands # <<>>, commands' = Tail(commands), state = "Ready",
         Head(commands) = "Enable", EnterStarting,
         UNCHANGED <<parameters, notice, streamConfig, soap, since>>
  PROVE  ConfigInv'
<1> DEFINE params == [copy EXCEPT !["RunNumber"] = updateLocal("RunNumber")]
           got == Asking(AtStart, params)
<1>1. /\ ConfigTypeOK /\ NoticeInv /\ UsedInv /\ SinceInv /\ commands \in Seq(Commands)
      /\ UNCHANGED <<infoSpace, notifying, settings, previous, changed, updating,
                     streamConfig, soap, since>>
      /\ state' = "Starting" /\ copy' = params
      /\ used' = [got EXCEPT !["diskWriterStreams"] = streamConfig]
  BY DEF ConfigInv, ConfigTypeOK, Commands, parameters, notice, EnterStarting
<1>2. /\ commands' \in Seq(Commands) /\ (FailIsQueued => FailIsQueued')
  BY <1>1, Taken
<1>3. /\ "RunNumber" \in Groups /\ "DiskWriting" \in Groups
      /\ copy'["RunNumber"] = updateLocal("RunNumber") /\ DOMAIN copy' = Groups
      /\ \A g \in Groups \ {"RunNumber"} : copy'[g] = copy[g]
  BY <1>1, GroupsAre DEF ConfigTypeOK
<1>4. /\ AtStart \subseteq Users /\ AtReady \subseteq Users \ AtStart
      /\ \A u \in AtReady : Group[u] \in Groups \ {"RunNumber"}
      /\ "diskWriterStreams" \in Users \ (AtStart \cup AtReady)
  BY UserGroups DEF Streams
<1>5. /\ DOMAIN got = Users /\ \A u \in AtStart : got[u] = copy'[Group[u]]
      /\ \A u \in Users \ AtStart : got[u] = used[u]
  BY <1>1, <1>4 DEF Asking
<1> HIDE DEF got, params
<1>6. /\ DOMAIN used' = Users /\ used'["diskWriterStreams"] = streamConfig
      /\ \A u \in AtStart : used'[u] = copy'[Group[u]]
      /\ \A u \in AtReady : used'[u] = used[u]
  BY <1>1, <1>4, <1>5
<1>7. ConfigTypeOK'
  <2>1. \A g \in Groups : copy'[g] \in Contents(g) \cup {Least}
    BY <1>1, <1>3, Copied DEF ConfigTypeOK
  <2>2. copy'["DiskWriting"] \in StreamConfigs
    BY <1>1, <1>3 DEF ConfigTypeOK
  <2> QED
    BY <1>1, <1>2, <1>3, <1>6, <2>1, <2>2 DEF ConfigTypeOK, Commands, Groups, UpdateOrder, Contents,
                    StreamConfigs, Users, Streams, Group, Least, Default
<1>8. NoticeInv'
  BY <1>1, <1>3 DEF NoticeInv, streams
<1>9. UsedInv'
  <2>1. \A u \in AtReady : used[u] = copy[Group[u]] => used'[u] = copy'[Group[u]]
    BY <1>3, <1>4, <1>6
  <2>2. FailIsQueued' \/ (streamConfig' = copy'["DiskWriting"] /\ \A u \in AtReady : used'[u] = copy'[Group[u]])
    BY <1>1, <1>2, <1>3, <2>1 DEF UsedInv, streams
  <2> QED
    BY <1>1, <1>6, <2>2 DEF UsedInv, InRun, streams, AtReady, AtStart, Group
<1>10. SinceInv'
  BY <1>1, <1>2, <1>3 DEF SinceInv, streams, ReconfigureIsNext
<1> QED
  BY <1>7, <1>8, <1>9, <1>10 DEF ConfigInv

LEMMA Commanding == ASSUME ConfigInv, processCommand PROVE ConfigInv'
<1> DEFINE c == Head(commands)
<1>1. /\ updating = 0 /\ commands # <<>> /\ commands' = Tail(commands)
      /\ UNCHANGED <<parameters, notice, streamConfig, soap, since>>
  BY DEF processCommand
<1>2. CASE Ignored(c) /\ Goes(state)
  BY <1>1, <1>2, Leaving DEF Goes
<1>3. CASE \/ c = "Configure" /\ state = "Halted" /\ EnterReady
           \/ c = "Reconfigure" /\ state = "Ready" /\ EnterReady
  BY <1>1, <1>3, Entering
<1>4. CASE c = "Enable" /\ state = "Ready" /\ EnterStarting
  BY <1>1, <1>4, BeginningRun
<1>5. CASE \/ c = "Stop" /\ state = "Running" /\ Goes("Stopping")
           \/ c = "EmergencyStop" /\ state \in {"Starting", "Running"} /\ Goes("Stopping")
  BY <1>1, <1>5, Leaving DEF Goes
<1>6. CASE c = "Halt" /\ state \in {"Ready", "Running"}
             /\ Goes(IF state = "Ready" THEN "Halted" ELSE "Halting")
  BY <1>1, <1>6, Leaving DEF Goes
<1>7. CASE c = "Fail" /\ state # "Failed" /\ Goes("Failed")
  BY <1>1, <1>7, Leaving DEF Goes
<1> QED
  BY <1>2, <1>3, <1>4, <1>5, <1>6, <1>7 DEF processCommand

\* Ready fails: the Fail event is queued, and what is known of the configuration stays.
LEMMA FailingInReady ==
  ASSUME ConfigInv, state = "Ready", updating' = 0, DOMAIN used' = Users,
         UNCHANGED <<infoSpace, notifying, settings, previous, changed, copy, streamConfig,
                     state, soap, since>>,
         commands' \in Seq(Commands), FailIsQueued'
  PROVE  ConfigInv'
<1>1. ConfigTypeOK /\ NoticeInv /\ UsedInv /\ SinceInv
  BY DEF ConfigInv
<1>2. ConfigTypeOK'
  BY <1>1 DEF ConfigTypeOK, Commands, Groups, UpdateOrder, Contents,
              StreamConfigs, Users, Streams, Group, Least, Default
<1>3. NoticeInv'
  BY <1>1 DEF NoticeInv, streams
<1>4. UsedInv' /\ SinceInv'
  BY <1>1 DEF UsedInv, SinceInv, InRun, streams
<1> QED
  BY <1>2, <1>3, <1>4 DEF ConfigInv

LEMMA Updating == ASSUME ConfigInv, updateAllParams PROVE ConfigInv'
<1> DEFINE g == UpdateOrder[updating]
<1>1. /\ ConfigTypeOK /\ NoticeInv /\ UsedInv /\ SinceInv /\ commands \in Seq(Commands)
      /\ UNCHANGED <<infoSpace, notifying, settings, previous, state, soap, since, streamConfig>>
      /\ updating \in 1 .. 8 /\ state = "Ready"
  <2>1. ConfigTypeOK /\ NoticeInv /\ UsedInv /\ SinceInv /\ commands \in Seq(Commands)
    BY DEF ConfigInv, ConfigTypeOK, Commands
  <2>2. /\ UNCHANGED <<infoSpace, notifying, settings, previous, state, soap, since>>
        /\ updating \in 1 .. 8
    BY DEF parameters, updateAllParams
  <2>3. UNCHANGED streamConfig
    BY DEF updateAllParams, FailsInReady
  <2> QED
    BY <2>1, <2>2, <2>3 DEF UsedInv
<1>2. g \in Groups /\ "DiskWriting" \in Groups /\ (g = "DiskWriting" <=> updating = 1)
  <2>1. updating \in {1, 2, 3, 4, 5, 6, 7, 8}
    BY <1>1
  <2>2. g \in Groups
    BY <1>1 DEF Groups
  <2>3. g = "DiskWriting" <=> updating = 1
    BY <2>1 DEF UpdateOrder
  <2> QED
    BY <2>2, <2>3, GroupsAre
<1> HIDE DEF g
<1>3. CASE g = "DiskWriting" /\ infoSpace[g] \in Unreadable
  <2>1. FailsInReady({})
    BY <1>3 DEF updateAllParams, g
  <2>2. /\ updating' = 0 /\ copy' = copy /\ changed' = changed /\ DOMAIN used' = Users
        /\ Posts("Fail") /\ "Fail" \in Commands
    BY <2>1 DEF FailsInReady, Asking, Commands
  <2>3. commands' \in Seq(Commands) /\ FailIsQueued'
    BY <1>1, <2>2, Posted
  <2> QED
    BY <1>1, <2>2, <2>3, FailingInReady
<1>4. CASE ~(g = "DiskWriting" /\ infoSpace[g] \in Unreadable)
  <2>1. /\ copy' = [copy EXCEPT ![g] = updateLocal(g)]
        /\ changed' = IF g = "DiskWriting" THEN FALSE ELSE changed
        /\ updating' = updating + 1 /\ UNCHANGED <<used, commands>>
    BY <1>4 DEF updateAllParams, g
  <2>2. /\ DOMAIN copy' = Groups /\ copy'[g] = updateLocal(g)
        /\ \A h \in Groups \ {g} : copy'[h] = copy[h]
    BY <1>1, <1>2, <2>1 DEF ConfigTypeOK
  <2>3. g = "DiskWriting" => /\ copy'["DiskWriting"] = infoSpace["DiskWriting"]
                             /\ infoSpace["DiskWriting"] \notin Unreadable
    BY <1>1, <1>2, <1>4, <2>2, Copied
  <2>4. g # "DiskWriting" => copy'["DiskWriting"] = copy["DiskWriting"]
    BY <1>2, <2>2
  <2>5. ConfigTypeOK'
    <3>1. \A h \in Groups : copy'[h] \in Contents(h) \cup {Least}
      BY <1>1, <1>2, <2>2, Copied DEF ConfigTypeOK
    <3>2. changed' \in BOOLEAN
      <4>1. changed \in BOOLEAN
        BY <1>1 DEF ConfigTypeOK
      <4> QED
        BY <2>1, <4>1, Zenon
    <3>3. updating' \in 0 .. 9
      BY <1>1, <2>1
    <3>4. copy'["DiskWriting"] \in StreamConfigs
      BY <1>1, <1>2, <2>3, <2>4, Copied DEF ConfigTypeOK
    <3> QED
      BY <1>1, <2>1, <2>2, <3>1, <3>2, <3>3, <3>4 DEF ConfigTypeOK, Commands, Groups, UpdateOrder, Contents,
                    StreamConfigs, Users, Streams, Group, Least, Default
  <2>6. NoticeInv'
    <3>1. CASE g = "DiskWriting"
      <4>1. ~notifying /\ streams(infoSpace) \notin Unreadable => previous = streams(infoSpace)
        BY <1>1 DEF NoticeInv
      <4>2. streams(copy') = streams(infoSpace) /\ streams(infoSpace) \notin Unreadable
        BY <2>3, <3>1 DEF streams
      <4>3. notifying \in BOOLEAN
        BY <1>1 DEF ConfigTypeOK
      <4> QED
        BY <1>1, <4>1, <4>2, <4>3 DEF NoticeInv, streams
    <3>2. CASE g # "DiskWriting"
      <4>1. changed' = changed
        BY <2>1, <3>2
      <4> QED
        BY <1>1, <2>4, <3>2, <4>1 DEF NoticeInv, streams
    <3> QED
      BY <3>1, <3>2
  <2>7. UsedInv'
    BY <1>1, <2>1 DEF UsedInv, InRun
  <2>8. SinceInv'
    <3>1. since # {} => streams(copy') \in since
      <4>1. CASE updating = 1
        BY <1>1, <1>2, <2>3, <4>1 DEF SinceInv, streams
      <4>2. CASE updating # 1
        BY <1>1, <1>2, <2>4, <4>2 DEF SinceInv, streams
      <4> QED
        BY <4>1, <4>2
    <3> QED
      BY <1>1, <2>1, <3>1 DEF SinceInv, streams
  <2> QED
    BY <2>5, <2>6, <2>7, <2>8 DEF ConfigInv
<1> QED
  BY <1>3, <1>4

LEMMA Configuring == ASSUME ConfigInv, configure PROVE ConfigInv'
<1>1. /\ ConfigTypeOK /\ NoticeInv /\ UsedInv /\ SinceInv /\ commands \in Seq(Commands)
      /\ UNCHANGED <<infoSpace, notifying, settings, previous, state, soap, since>>
      /\ updating = 9 /\ state = "Ready"
  BY DEF ConfigInv, ConfigTypeOK, Commands, parameters, configure, UsedInv
<1>2. CASE copy["DiskWriting"] \in Malformed
  <2>1. FailsInReady({"queues"})
    BY <1>2 DEF configure
  <2>2. /\ updating' = 0 /\ copy' = copy /\ changed' = changed /\ DOMAIN used' = Users
        /\ streamConfig' = streamConfig /\ Posts("Fail") /\ "Fail" \in Commands
    BY <2>1 DEF FailsInReady, Asking, Commands
  <2>3. commands' \in Seq(Commands) /\ FailIsQueued'
    BY <1>1, <2>2, Posted
  <2> QED
    BY <1>1, <2>2, <2>3, FailingInReady
<1>3. CASE copy["DiskWriting"] \notin Malformed
  <2>1. /\ streamConfig' = copy["DiskWriting"] /\ used' = Asking(AtReady, copy)
        /\ updating' = 0 /\ UNCHANGED <<changed, copy, commands>>
    BY <1>3 DEF configure
  <2>2. copy["DiskWriting"] \in StreamConfigs /\ DOMAIN used' = Users
    BY <1>1, <2>1 DEF ConfigTypeOK, Asking
  <2>3. \A u \in AtReady : used'[u] = copy'[Group[u]]
    <3>1. AtReady \subseteq Users
      BY UserGroups
    <3> QED
      BY <2>1, <3>1 DEF Asking
  <2>4. ConfigTypeOK'
    BY <1>1, <2>1, <2>2 DEF ConfigTypeOK, Commands, Groups, UpdateOrder, Contents,
                    StreamConfigs, Users, Streams, Group, Least, Default
  <2>5. NoticeInv'
    BY <1>1, <2>1 DEF NoticeInv, streams
  <2>6. UsedInv'
    BY <1>1, <2>1, <2>3 DEF UsedInv, InRun, streams, AtReady, Group
  <2>7. SinceInv'
    BY <1>1, <2>1 DEF SinceInv, streams
  <2> QED
    BY <2>4, <2>5, <2>6, <2>7 DEF ConfigInv
<1> QED
  BY <1>2, <1>3

LEMMA Proceeding == ASSUME ConfigInv, startRun \/ endRun PROVE ConfigInv'
<1>1. /\ ConfigTypeOK /\ NoticeInv /\ UsedInv /\ SinceInv /\ commands \in Seq(Commands) /\ updating = 0
      /\ UNCHANGED <<infoSpace, notifying, settings, previous, changed, copy, updating,
                     streamConfig, commands, soap, since>>
  BY DEF ConfigInv, ConfigTypeOK, Commands, parameters, notice, startRun, endRun, Internally
<1>2. FailIsQueued' <=> FailIsQueued
  BY <1>1 DEF FailIsQueued
<1>3. /\ DOMAIN used' = Users
      /\ \A u \in AtReady \cup AtStart \cup {"diskWriterStreams"} : used'[u] = used[u]
      /\ state' = "Running" => used'["distributorStreams"] = streamConfig
  <2>1. /\ AtReady \cup AtStart \cup {"diskWriterStreams"} \subseteq Users \ {"distributorStreams"}
        /\ "distributorStreams" \in Users /\ DOMAIN used = Users
    BY <1>1, UserGroups DEF ConfigTypeOK, Streams
  <2>2. CASE startRun
    BY <2>1, <2>2 DEF startRun
  <2>3. CASE endRun
    BY <2>1, <2>3 DEF endRun, Internally
  <2> QED
    BY <2>2, <2>3
<1>4. \/ state = "Starting" /\ state' = "Running"
      \/ state = "Stopping" /\ state' = "Ready"
      \/ state = "Halting" /\ state' = "Halted"
  BY DEF startRun, endRun, Internally
<1>5. ConfigTypeOK'
  BY <1>1, <1>3, <1>4 DEF ConfigTypeOK, Groups, UpdateOrder, Contents,
                    StreamConfigs, Users, Streams, Group, Least, Default
<1>6. NoticeInv'
  BY <1>1 DEF NoticeInv, streams
<1>7. UsedInv'
  BY <1>1, <1>2, <1>3, <1>4 DEF UsedInv, InRun, streams, AtReady, AtStart, Group
<1>8. SinceInv'
  BY <1>1, <1>2, <1>4 DEF SinceInv, streams, ReconfigureIsNext
<1> QED
  BY <1>5, <1>6, <1>7, <1>8 DEF ConfigInv

LEMMA ConfigGoesOn == ConfigInv /\ [ConfigNext]_configVars => ConfigInv'
<1> SUFFICES ASSUME ConfigInv, [ConfigNext]_configVars PROVE ConfigInv'
  OBVIOUS
<1>1. CASE UNCHANGED configVars
  <2>1. UNCHANGED <<infoSpace, notifying, previous, changed, copy, updating, streamConfig, used, state,
                    commands, soap, settings, since>>
    BY <1>1 DEF configVars
  <2>2. ConfigTypeOK'
    BY <2>1 DEF ConfigInv, ConfigTypeOK, Groups, UpdateOrder, Contents,
                    StreamConfigs, Users, Streams, Group, Least, Default
  <2>3. NoticeInv' /\ SinceInv'
    BY <2>1 DEF ConfigInv, NoticeInv, SinceInv, streams, FailIsQueued, ReconfigureIsNext
  <2>4. UsedInv'
    BY <2>1 DEF ConfigInv, UsedInv, InRun, FailIsQueued, streams, AtReady, AtStart, Group
  <2> QED
    BY <2>2, <2>3, <2>4 DEF ConfigInv
<1>2. ASSUME NEW g \in Changing, NEW v \in Contents(g), SetParameter(g, v) PROVE ConfigInv'
  BY <1>2, ChangingAssumption, ChangingParameters
<1>3. CASE actionPerformed
  BY <1>3, Notifying
<1>4. ASSUME NEW c \in {"Configure", "Stop", "EmergencyStop", "Halt"}, handleFSMSoapMessage(c)
      PROVE  ConfigInv'
  <2>1. c \in Commands /\ soap' \in {"idle", "enabling"}
    BY <1>4 DEF Commands, ConfigInv, ConfigTypeOK, handleFSMSoapMessage
  <2> QED
    BY <1>4, <2>1, Queueing DEF handleFSMSoapMessage
<1>5. CASE handleEnable
  BY <1>5, Enabling
<1>6. CASE postEnable
  BY <1>6, Queueing DEF postEnable, Commands
<1>7. CASE processCommand
  BY <1>7, Commanding
<1>8. CASE updateAllParams
  BY <1>8, Updating
<1>9. CASE configure
  BY <1>9, Configuring
<1>10. CASE startRun \/ endRun
  BY <1>10, Proceeding
<1>11. CASE moveToFailedState
  BY <1>11, Queueing DEF moveToFailedState, Commands, ConfigInv, ConfigTypeOK
<1> QED
  BY <1>1, <1>2, <1>3, <1>4, <1>5, <1>6, <1>7, <1>8, <1>9, <1>10, <1>11 DEF ConfigNext

\* What the properties say follows.
LEMMA ConfigImplies == ConfigInv => ChangesAreNoticed /\ RunsUseTheLatestStreams /\ OneConfigurationPerRun
<1> SUFFICES ASSUME ConfigInv PROVE ChangesAreNoticed /\ RunsUseTheLatestStreams /\ OneConfigurationPerRun
  OBVIOUS
<1>1. /\ ConfigTypeOK /\ NoticeInv /\ UsedInv /\ SinceInv
  BY DEF ConfigInv
<1>2. ChangesAreNoticed
  BY <1>1 DEF NoticeInv, ChangesAreNoticed, streams
<1>3. RunsUseTheLatestStreams
  BY <1>1 DEF RunsUseTheLatestStreams, SinceInv, UsedInv, InRun, ReconfigureIsNext
<1>4. OneConfigurationPerRun
  BY <1>1 DEF OneConfigurationPerRun, UsedInv, InRun, streams
<1> QED
  BY <1>2, <1>3, <1>4

(***************************************************************************)
(* The inductive invariant of the configuration, for any values and any    *)
(* number of settings and commands: what the listener knows, who has asked *)
(* for what, and that a reconfiguration comes before the run that needs it *)
(* (Configuration::actionPerformed, Ready, Starting, Running).             *)
(***************************************************************************)
THEOREM ConfigInvariant == ConfigSpec => []ConfigInv
<1>1. ConfigInit => ConfigInv
  BY ConfigBegins
<1>2. ConfigInv /\ [ConfigNext]_configVars => ConfigInv'
  BY ConfigGoesOn
<1> QED
  BY <1>1, <1>2, PTL DEF ConfigSpec

\* A stream configuration that is not the one in use is noted, also if it is set while the
\* copies are made, or set back (Configuration::streamConfigurationHasChanged).
THEOREM ChangesNoticed == ConfigSpec => []ChangesAreNoticed
<1>1. ConfigInv => ChangesAreNoticed
  BY ConfigImplies
<1> QED
  BY <1>1, ConfigInvariant, PTL

\* A run that is enabled at rest writes the streams that were configured then, or later
\* (StorageManager::handleFSMSoapMessage).
THEOREM LatestStreams == ConfigSpec => []RunsUseTheLatestStreams
<1>1. ConfigInv => RunsUseTheLatestStreams
  BY ConfigImplies
<1> QED
  BY <1>1, ConfigInvariant, PTL

\* What is set at rest reaches the next run.
THEOREM ChangesReach == ConfigSpec => []ChangesReachRuns
BY ChangesNoticed, LatestStreams, PTL DEF ChangesReachRuns

\* All who keep parameters have those of one configuration in a run, or the run is to fail.
THEOREM OneConfiguration == ConfigSpec => []OneConfigurationPerRun
<1>1. ConfigInv => OneConfigurationPerRun
  BY ConfigImplies
<1> QED
  BY <1>1, ConfigInvariant, PTL
=============================================================================
