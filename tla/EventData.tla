----------------------------- MODULE EventData -----------------------------
(***************************************************************************)
(* What a message says of itself, and who asks it.                         *)
(*                                                                         *)
(* An I2OChain shares its data (ChainData) with all its copies.  A field   *)
(* is read from the header of the message, which is looked for and cached  *)
(* when a field is first asked for, over the first fragment or over a copy *)
(* of all.  A chain that is incomplete or damaged raises an exception, and *)
(* so does one of a kind that has no such field.  The FragmentProcessor    *)
(* asks first; then the DiskWriter, the DQMEventProcessor and the requests *)
(* of consumers do, each in a thread of its own.                           *)
(*                                                                         *)
(* One message is followed.  Of its bytes it matters where a header is     *)
(* looked for, which fragments it is spread over, its run number and its   *)
(* count of dropped events.                                                *)
(***************************************************************************)
EXTENDS Integers, Sequences, FiniteSets

CONSTANTS
  Messages,    \* what may come
  Consumers,   \* the event consumers
  Losses       \* bound: how many events a queue may have dropped before this one

Kinds == {"INIT", "EVENT", "DQM_EVENT", "ERROR_EVENT", "END_OF_LUMI", "INVALID"}

\* parts: fragments sent; headerIn: how many of them the header is spread over; large: the
\* first is longer than the least length a header is looked for in; damaged: frame headers
\* that are corrupt; checksum, run and skipped: what the header holds.
MessageType ==
  [kind : Kinds, parts : Nat \ {0}, headerIn : Nat \ {0}, large : BOOLEAN,
   damaged : SUBSET {"initial", "secondary"}, checksum : {"right", "wrong", "none"},
   run : {"ours", "other"}, skipped : Nat]

\* A header of an error event has a fixed length, and no checksum.
Sendable(m) ==
  /\ m.headerIn <= m.parts /\ ("secondary" \in m.damaged => m.parts > 1)
  /\ m.kind \in {"END_OF_LUMI", "INVALID"} => m.parts = 1
  /\ m.kind = "ERROR_EVENT" => m.checksum = "none" /\ (m.large => m.headerIn = 1)

ASSUME MessagesAssumption ==
  /\ Messages \subseteq MessageType /\ Losses \subseteq Nat
  /\ \A m \in Messages : Sendable(m)
  /\ Consumers \cap {"stream", "dqm", "faulty"} = {}

VARIABLES
  message,   \* the message that is sent
  chain,     \* the ChainData of it
  header,    \* droppedEventsCount_ of the header in the first fragment
  stage,     \* what the FragmentProcessor is at
  tags,      \* the consumers and the streams that the chain is tagged for
  served,    \* what the request of each consumer is at
  counted,   \* what it has in hand: a count of dropped events
  lost,      \* the events that its queue has dropped
  told,      \* the count in the header that was sent to it
  written,   \* how the event was written to a file
  raised     \* exceptions that nobody caught where they were raised

dataVars == <<message, chain, header, stage, tags, served, counted, lost, told, written, raised>>
consumers == <<served, counted, lost, told>>

-----------------------------------------------------------------------------
(* The fields, by kind.                                                    *)

\* Read from the header, if that is okay.
InitFields ==
  {"adler32Checksum", "outputModuleLabel", "outputModuleId", "hltTriggerNames",
   "hltTriggerSelections", "l1TriggerNames"}
EventFields ==
  {"adler32Checksum", "outputModuleId", "hltTriggerCount", "hltTriggerBits",
   "droppedEventsCount", "runNumber", "lumiSection", "eventNumber"}
DQMEventFields == {"adler32Checksum", "topFolderName", "dqmKey", "runNumber", "lumiSection"}
ErrorEventFields == {"runNumber", "lumiSection", "eventNumber"}
HeaderFields(kind) ==
  CASE kind = "INIT" -> InitFields [] kind = "EVENT" -> EventFields
    [] kind = "DQM_EVENT" -> DQMEventFields [] kind = "ERROR_EVENT" -> ErrorEventFields
    [] OTHER -> {}
\* Given in any case.
EndOfLumiFields == {"runNumber", "lumiSection"}
FreeFields(kind) ==
  {"headerSize", "headerLocation", "hltURL", "totalDataSize"}
     \cup (CASE kind = "INIT" -> {"nExpectedEPs"} [] kind = "END_OF_LUMI" -> EndOfLumiFields
             [] OTHER -> {})

Incomplete(kind) ==
  CASE kind = "INIT" -> "IncompleteInitMessage" [] kind = "DQM_EVENT" -> "IncompleteDQMEventMessage"
    [] OTHER -> "IncompleteEventMessage"

-----------------------------------------------------------------------------
(* ChainData.                                                              *)

Bits ==
  {"INCOMPLETE_MESSAGE", "CORRUPT_INITIAL_HEADER", "CORRUPT_SECONDARY_HEADER", "WRONG_CHECKSUM",
   "EXTERNALLY_REQUESTED"}

NotWritten == [format |-> "nothing", of |-> "nothing", run |-> "ours", skipped |-> 0]
Unread == [of |-> "nothing", upTo |-> 0, run |-> "ours", skipped |-> 0]

Cache ==
  [of : {"nothing", "payload", "frame"}, upTo : Nat, run : {"ours", "other"}, skipped : Nat]
ChainType ==
  [count : Nat, expected : Nat, complete : BOOLEAN, bits : SUBSET Bits, cached : Cache]

faulty(ch) == IF ch.complete THEN ch.bits # {} ELSE ch.bits # {"INCOMPLETE_MESSAGE"}
headerOkay(ch) == ch.bits \subseteq {"WRONG_CHECKSUM"}

\* dataLocation: the payload of a fragment, or the frame it is in.
dataLocation(ch) == IF faulty(ch) THEN "frame" ELSE "payload"

\* The header is taken to end where its shortest form does.
useFirstFragmentBug(ch) ==
  ch.count = 1 \/ (message.kind \in {"INIT", "EVENT", "ERROR_EVENT"} /\ message.large)

\* "if there is only one fragment, use it; otherwise, check if the first fragment is large
\* enough to hold the full message header".
useFirstFragment(ch) ==
  \/ ch.count = 1
  \/ message.kind = "ERROR_EVENT" /\ message.large
  \/ message.kind \in {"INIT", "EVENT"} /\ message.large /\ message.headerIn = 1

cacheHeaderFields(ch) ==
  [of |-> dataLocation(ch), upTo |-> IF useFirstFragment(ch) THEN 1 ELSE ch.count,
   run |-> message.run, skipped |-> header]

\* The data after a field that is in the header was asked for.
AfterReading(ch) ==
  IF headerOkay(ch) /\ ch.cached = Unread THEN [ch EXCEPT !.cached = cacheHeaderFields(ch)] ELSE ch

\* markComplete: an available checksum is compared, which reads the header.
markComplete(ch) ==
  LET complete == [ch EXCEPT !.complete = TRUE, !.bits = @ \ {"INCOMPLETE_MESSAGE"}]
  IN IF headerOkay(complete) /\ "adler32Checksum" \in HeaderFields(message.kind)
     THEN [AfterReading(complete) EXCEPT
             !.bits = IF message.checksum = "wrong" THEN {"WRONG_CHECKSUM"} ELSE {}]
     ELSE complete

checkForCompleteness(ch) ==
  IF ch.count = ch.expected THEN markComplete(ch) ELSE ch

\* addFirstFragment: a message of the network may bring several fragments.  A frame header
\* that is corrupt does not say how many there are.
addFirstFragment(n) ==
  LET corrupt == "initial" \in message.damaged
      ch == [count |-> n, expected |-> IF corrupt THEN 0 ELSE message.parts, complete |-> FALSE,
             bits |-> {"INCOMPLETE_MESSAGE"}
                        \cup (IF corrupt THEN {"CORRUPT_INITIAL_HEADER"} ELSE {})
                        \cup (IF n > 1 /\ "secondary" \in message.damaged
                              THEN {"CORRUPT_SECONDARY_HEADER"} ELSE {}),
             cached |-> Unread]
  IN CASE message.kind = "INVALID" ->
            LET seen == checkForCompleteness(ch)
            IN [seen EXCEPT !.bits = @ \cup {"CORRUPT_INITIAL_HEADER"}]
       \* It has one fragment and no header of the multi-part frames: "reset this faulty bit".
       [] message.kind = "END_OF_LUMI" -> markComplete([ch EXCEPT !.expected = 1])
       [] OTHER -> checkForCompleteness(ch)

\* addToChain.
addToChain == checkForCompleteness([chain EXCEPT !.count = @ + 1])

\* What asking for a field raises.
raises(field) ==
  CASE field \in FreeFields(message.kind) -> {}
    [] field \in HeaderFields(message.kind) ->
         IF headerOkay(chain) THEN {} ELSE {Incomplete(message.kind)}
    [] OTHER -> {"WrongI2OMessageType"}

\* Fields are asked for by someone who catches some exceptions.
Raising(fields, catches) == (UNION {raises(f) : f \in fields}) \ catches
Asks(fields, exceptions) ==
  /\ raised' = raised \cup exceptions
  /\ chain' = IF fields \cap HeaderFields(message.kind) # {} THEN AfterReading(chain) ELSE chain
Reads(fields) == Asks(fields, Raising(fields, {}))
ReadsNothing == UNCHANGED <<chain, raised>>

-----------------------------------------------------------------------------
DataInit ==
  /\ message \in Messages /\ header = message.skipped
  /\ chain = [count |-> 0, expected |-> 0, complete |-> FALSE, bits |-> {"INCOMPLETE_MESSAGE"},
              cached |-> Unread]
  /\ stage = "expecting" /\ tags = {}
  /\ served = [c \in Consumers |-> "waiting"]
  /\ counted = [c \in Consumers |-> 0] /\ lost = [c \in Consumers |-> 0]
  /\ told = [c \in Consumers |-> 0]
  /\ written = NotWritten /\ raised = {}

(* The FragmentProcessor thread.                                           *)

ProcessorGoes(from, to) ==
  stage = from /\ stage' = to /\ UNCHANGED <<message, header, consumers, written>>

\* The chain in the fragment store, or on its way past it.
NextStage(ch) == IF ch.complete THEN "checking" ELSE "assembling"

receive ==
  /\ message.kind # "END_OF_LUMI"
  /\ \E n \in 1 .. message.parts :
       LET ch == addFirstFragment(n) IN ProcessorGoes("expecting", NextStage(ch)) /\ chain' = ch
  /\ UNCHANGED <<tags, raised>>

\* A fragment joins a chain with the same key, which a corrupt one has not.
addFragment ==
  /\ chain.count < message.parts /\ message.damaged = {}
  /\ ProcessorGoes("assembling", NextStage(addToChain))
  /\ chain' = addToChain /\ UNCHANGED <<tags, raised>>

\* A stale event is distributed as it is.
noFragmentToProcess ==
  /\ ProcessorGoes("assembling", "distributing")
  /\ chain' = [chain EXCEPT !.bits = @ \cup {"EXTERNALLY_REQUESTED"}] /\ UNCHANGED <<tags, raised>>

\* "the run number check has to be done before the event is added to the queues, as for some
\* event types, e.g. error events, the run number match is enforced": with an alarm.
assertRunNumber ==
  /\ ProcessorGoes("checking", "distributing")
  /\ chain' = IF headerOkay(chain) /\ "runNumber" \in HeaderFields(message.kind)
              THEN IF message.kind = "ERROR_EVENT"
                   THEN [AfterReading(chain) EXCEPT !.cached.run = "ours"] ELSE AfterReading(chain)
              ELSE chain
  /\ UNCHANGED <<tags, raised>>

\* Selectors ask, and the monitoring does.
AskedWhenDistributed(kind) ==
  CASE kind = "INIT" -> {"outputModuleId", "totalDataSize", "outputModuleLabel", "nExpectedEPs"}
    [] kind = "EVENT" -> {"outputModuleId", "hltTriggerBits", "hltTriggerCount", "runNumber",
                          "lumiSection", "eventNumber", "totalDataSize"}
    [] kind = "DQM_EVENT" -> {"topFolderName", "totalDataSize"}
    [] OTHER -> {"runNumber", "lumiSection", "eventNumber", "totalDataSize"}
MayTag(kind) ==
  CASE kind = "EVENT" -> Consumers \cup {"stream"} [] kind = "ERROR_EVENT" -> {"stream"}
    [] kind = "DQM_EVENT" -> {"dqm"} [] OTHER -> {}

\* Faulty data and error events go to a stream of their own, if there is one.
addEventToRelevantQueues ==
  /\ ProcessorGoes("distributing", "queueing")
  /\ IF faulty(chain) \/ ~chain.complete
     THEN /\ Reads({"hltURL", "totalDataSize"})
          /\ tags' \in SUBSET (IF message.kind \in {"EVENT", "ERROR_EVENT"} THEN {"faulty"} ELSE {})
     ELSE /\ Reads(AskedWhenDistributed(message.kind))
          /\ tags' \in SUBSET MayTag(message.kind)

\* RunMonitorCollection::addUnwantedEvent.
addUnwantedEvent ==
  /\ ProcessorGoes("queueing", "done") /\ UNCHANGED tags
  /\ IF tags = {} /\ message.kind = "EVENT" /\ ~faulty(chain) /\ chain.complete
     THEN Reads({"eventNumber", "outputModuleId", "hltTriggerCount", "hltTriggerBits"})
     ELSE ReadsNothing

-----------------------------------------------------------------------------
(* The end of a lumi section comes in a call-back, and goes to the         *)
(* DiskWriter at once.                                                     *)

receiveEndOfLumiSectionMessage ==
  /\ message.kind = "END_OF_LUMI" /\ stage = "expecting" /\ stage' = "queueing"
  /\ chain' = addFirstFragment(1) /\ tags' = {"stream"}
  /\ UNCHANGED <<message, header, consumers, written, raised>>

(* The DiskWriter thread.                                                  *)

Queued == stage \in {"queueing", "done"}
Writes(how) ==
  /\ Queued /\ written = NotWritten /\ written' = how
  /\ UNCHANGED <<message, header, stage, tags, consumers>>

processEndOfLumiSection ==
  /\ message.kind = "END_OF_LUMI" /\ "stream" \in tags /\ Writes([NotWritten EXCEPT !.format = "report"])
  /\ IF faulty(chain) THEN ReadsNothing ELSE Reads({"runNumber", "lumiSection"})

\* StreamHandler::getNewFileRecord: the run that is configured, if there is none.
RunOf(ch) == IF raises("runNumber") = {} THEN AfterReading(ch).cached.run ELSE "ours"
\* The header of an event is written from where it was found, the rest fragment by fragment.
WrittenAs(format) ==
  LET skipped == IF useFirstFragment(chain) THEN header ELSE AfterReading(chain).cached.skipped
  IN [format |-> format, of |-> dataLocation(chain), run |-> RunOf(chain),
      skipped |-> IF format = "event" THEN skipped ELSE header]

writeEvent ==
  /\ message.kind # "END_OF_LUMI" /\ "stream" \in tags
  /\ IF message.kind = "EVENT"
     THEN /\ Reads({"lumiSection", "outputModuleId", "hltTriggerBits", "totalDataSize"})
          /\ Writes(WrittenAs("event"))
     ELSE Reads({"lumiSection", "totalDataSize"}) /\ Writes(WrittenAs("FRD"))

\* FaultyEventStreamHandler: a file for each event, in the FRD format "if this is not possible".
writeFaultyEvent ==
  /\ "faulty" \in tags
  /\ LET isEvent == raises("outputModuleId") = {}
     IN /\ Asks({"runNumber", "lumiSection", "outputModuleId"},
                Raising({"runNumber", "lumiSection"}, {"IncompleteEventMessage"})
                  \cup Raising({"outputModuleId"}, {"IncompleteEventMessage", "WrongI2OMessageType"})
                  \cup Raising(IF isEvent THEN {"hltTriggerBits"} ELSE {}, {}))
        /\ Writes(WrittenAs(IF isEvent THEN "event" ELSE "FRD"))

(* The DQMEventProcessor thread.                                           *)
processNextDQMEvent ==
  /\ "dqm" \in tags /\ Writes([NotWritten EXCEPT !.format = "folder"]) /\ Reads({"lumiSection", "dqmKey"})

-----------------------------------------------------------------------------
(* Requests of consumers (processConsumerEventRequest): the count of       *)
(* dropped events is added to, put into the header, and sent with it.      *)

RequestGoes(c, from, to) ==
  /\ served[c] = from /\ served' = [served EXCEPT ![c] = to]
  /\ UNCHANGED <<message, stage, tags, written>>

\* The events dropped are added to the count that the last consumer was sent.
popEventBug(c) ==
  /\ Queued /\ c \in tags
  /\ IF faulty(chain)
     THEN RequestGoes(c, "waiting", "answered") /\ ReadsNothing /\ UNCHANGED <<lost, counted>>
     ELSE /\ RequestGoes(c, "waiting", "counted") /\ Reads({"droppedEventsCount"})
          /\ \E n \in Losses : /\ lost' = [lost EXCEPT ![c] = n]
                               /\ counted' = [counted EXCEPT ![c] = header + n]
  /\ UNCHANGED <<header, told>>

popEvent(c) ==
  /\ Queued /\ c \in tags
  /\ IF faulty(chain)
     THEN RequestGoes(c, "waiting", "answered") /\ ReadsNothing /\ UNCHANGED <<lost, counted>>
     ELSE /\ RequestGoes(c, "waiting", "counted") /\ Reads({"droppedEventsCount"})
          /\ \E n \in Losses :
               /\ lost' = [lost EXCEPT ![c] = n]
               /\ counted' = [counted EXCEPT ![c] = chain'.cached.skipped + n]
  /\ UNCHANGED <<header, told>>

setDroppedEventsCount(c) ==
  /\ RequestGoes(c, "counted", "set") /\ ReadsNothing
  /\ header' = IF headerOkay(chain) THEN counted[c] ELSE header
  /\ UNCHANGED <<counted, lost, told>>

writeConsumerEvent(c) ==
  /\ RequestGoes(c, "set", "answered") /\ ReadsNothing
  /\ told' = [told EXCEPT ![c] = header]
  /\ UNCHANGED <<header, counted, lost>>

Request(c) == popEvent(c) \/ setDroppedEventsCount(c) \/ writeConsumerEvent(c)

\* There is nothing more to do for this message.
Finished ==
  /\ stage = "done" \/ (message.kind = "END_OF_LUMI" /\ written # NotWritten)
  /\ UNCHANGED dataVars

FragmentProcessor ==
  \/ receive \/ addFragment \/ noFragmentToProcess \/ assertRunNumber
  \/ addEventToRelevantQueues \/ addUnwantedEvent

DataNext ==
  \/ FragmentProcessor \/ receiveEndOfLumiSectionMessage
  \/ processEndOfLumiSection \/ writeEvent \/ writeFaultyEvent \/ processNextDQMEvent
  \/ \E c \in Consumers : Request(c)
  \/ Finished

DataSpec == DataInit /\ [][DataNext]_dataVars

-----------------------------------------------------------------------------
(* Properties.                                                             *)

DataTypeOK ==
  /\ message \in Messages /\ chain \in ChainType /\ header \in Nat
  /\ stage \in {"expecting", "assembling", "checking", "distributing", "queueing", "done"}
  /\ tags \subseteq Consumers \cup {"stream", "dqm", "faulty"}
  /\ served \in [Consumers -> {"waiting", "counted", "set", "answered"}]
  /\ {counted, lost, told} \subseteq [Consumers -> Nat]

\* A header is cached once for all.  It is the header of the message that is cached, not a
\* frame, and all of it, wherever it ends.
HeadersAreWhole ==
  chain.cached # Unread => chain.cached.of = "payload" /\ chain.cached.upTo >= message.headerIn

\* Nobody but the FragmentProcessor fills the cache, which has no lock: it is filled before a
\* chain is queued, if it can be.
HeadersAreCachedBeforeQueueing ==
  Queued /\ headerOkay(chain) /\ HeaderFields(message.kind) # {} => chain.cached # Unread

\* Whoever asks for a header gets all of it and has not to look for it at the same time as
\* another thread (EventMsgData.cc:232, and the like).
HeadersAreSound == HeadersAreWhole /\ HeadersAreCachedBeforeQueueing

\* No field is asked for that the message has not, unless the exception is expected: the
\* guards of those who ask are far from where it is raised.
NothingUnexpectedIsRaised == raised = {}

\* An error event is filed under the run that is configured, whatever it says, also if it is
\* damaged or incomplete.
ErrorEventsAreFiledUnderOurRun ==
  message.kind = "ERROR_EVENT" /\ written # NotWritten => written.run = "ours"

\* Whoever asks a message for its fields, damaged or incomplete as it may be, gets those it has
\* and is not surprised by an exception; error events are filed where they are looked for.
FieldsAreSound ==
  HeadersAreSound /\ NothingUnexpectedIsRaised /\ ErrorEventsAreFiledUnderOurRun

\* Consumers share the header that the count is put in.  A count that is sent is that of one
\* of them, and not added up over those who were served before.
LossesDoNotAccumulate ==
  \A c \in Consumers :
    served[c] = "answered" /\ ~faulty(chain) =>
      \E d \in Consumers : served[d] # "waiting" /\ told[c] = message.skipped + lost[d]

\* Not so: it need not be its own, as the header is shared without a lock
\* (ConsumerUtils.icc:195-198).
ConsumersAreToldTheirOwn ==
  \A c \in Consumers :
    served[c] = "answered" /\ ~faulty(chain) => told[c] = message.skipped + lost[c]

\* Not so: an event of the right length but with a wrong checksum still has a header, so it is
\* written as an event, of which the fragments are taken with their I2O frames
\* (FaultyEventStreamHandler.cc:49, ChainData.cc:457).
EventFilesHoldEvents == written.format = "event" => written.of = "payload"

\* Not so: the file may hold the count that was put into the header for a consumer.
FilesHoldWhatWasSent == written.format = "event" => written.skipped = message.skipped
=============================================================================
