---------------------------- MODULE StreamFiles ----------------------------
(***************************************************************************)
(* The files of the streams: what the DiskWriter thread does with an event *)
(* or an end-of-lumi-section message once it has taken it from the stream  *)
(* queue, down to the files on disk, what the data base log is told about  *)
(* them, and what is left behind when the disk does not play along.        *)
(*                                                                         *)
(* The thread works through the stream handlers one by one; an exception   *)
(* ends the step it is in and asks the state machine to go to Failed.  The *)
(* thread itself carries on until Failed has the streams destroyed.        *)
(***************************************************************************)
EXTENDS Integers, Sequences, FiniteSets, SequencesExt

CONSTANTS
  Streams,        \* the stream handlers in the order of their ids
  Kind,           \* their kinds: "faulty" (only stream 0), "event" or "error"
  Lumis,          \* the lumi sections
  Sizes,          \* the sizes of events
  HeaderSize,     \* of the INIT message at the head of an event file
  EOFSize,        \* of the record at its end
  MaxFileSize,    \* maxFileSizeMB
  Tolerance,      \* fileSizeTolerance
  MaxRuns, MaxEvents, MaxEoLS, MaxAges, MaxFaults, MaxLosses   \* bounds

Labels == {Streams[n] : n \in DOMAIN Streams}

ASSUME StreamsAssumption ==
  /\ Streams \in Seq(Labels) /\ Streams # <<>>
  /\ \A m, n \in DOMAIN Streams : Streams[m] = Streams[n] => m = n
  /\ \A n \in DOMAIN Streams :
       Kind[Streams[n]] \in (IF n = 1 THEN {"faulty", "event", "error"} ELSE {"event", "error"})
ASSUME SizesAssumption ==
  /\ Lumis \subseteq Nat \ {0} /\ Sizes \subseteq Nat \ {0}
  /\ HeaderSize \in Nat /\ EOFSize \in Nat /\ MaxFileSize \in Nat /\ Tolerance \in Nat
ASSUME BoundsAssumption ==
  /\ MaxRuns \in Nat /\ MaxEvents \in Nat /\ MaxEoLS \in Nat /\ MaxAges \in Nat
  /\ MaxFaults \in Nat /\ MaxLosses \in Nat

VARIABLES
  run,                \* the run number, 0 before the first
  configured,         \* the stream handlers exist
  request,            \* what the DiskWriter is asked to do with them
  failed,             \* the state machine has been asked to go to Failed
  dw,                 \* what the DiskWriter is doing, and the streams it has still to do
  files,              \* all files of all runs: their records, and what the disk has
  fileHandlers,       \* the open files of each stream
  usedCoreFileNames,  \* how many files a stream has named for a lumi section
  fileCountPerLS,     \* how many of them have not been reported yet
  endOfRunReport,     \* what the end-of-run marker will say
  log,                \* of this run in the data base log: the lines, and the end-of-run marker
  left                \* what the bounds allow still to happen, and whether the disk has failed yet

vars == <<run, configured, request, failed, dw, files, fileHandlers, usedCoreFileNames,
          fileCountPerLS, endOfRunReport, log, left>>

NoReport == [latestLumiSectionWritten |-> 0, eolsCount |-> 0, lsCountWithFiles |-> 0]
EmptyLog == [lines |-> <<>>, eor |-> <<>>]
Idle == [doing |-> "idle", rest |-> {}, lumi |-> 0, size |-> 0, counts |-> <<>>]
NoCounts == [s \in Labels |-> [l \in Lumis \cup {0} |-> 0]]

\* What may go wrong with a file: its directories are missing, or it cannot be made although
\* the data base log has it; an event cannot be written to it; it cannot be accessed or moved
\* when it is closed; or it is moved and then the check or the data base log fails.
Faults == {"enter", "create", "write", "move", "check"}
ClosingFaults == {"move", "check"}
MayFail(fault) == fault # "none" => left.faults > 0
Spent(fault) == IF fault = "none" THEN left
                ELSE [left EXCEPT !.faults = @ - 1, !.diskIsFine = FALSE]

(***************************************************************************)
(* Closing a file.                                                         *)
(***************************************************************************)
calcPctDiff(m, n) ==
  LET larger == IF m > n THEN m ELSE n
      smaller == IF m > n THEN n ELSE m
  IN IF larger > 0 THEN (larger - smaller) \div larger ELSE 0

sizeMismatch(m, n) == calcPctDiff(m, n) > Tolerance

\* The writer is stopped once, although closing is tried again after a failure.
Stopped(f) ==
  LET grown == IF f.writing /\ f.format = "event" THEN EOFSize ELSE 0
  IN [f EXCEPT !.writing = FALSE, !.size = @ + grown, !.onDisk = @ + grown]

moveFileToClosed(f, fault) ==
  CASE sizeMismatch(f.size, f.onDisk) \/ fault = "move" -> f
    [] fault = "check" -> [f EXCEPT !.isOpen = FALSE]
    [] OTHER -> [f EXCEPT !.isOpen = FALSE, !.status = "closed"]

\* Mutants of closeFile: a file is closed again and again; one whose writer has been
\* stopped counts as closed.
closeFileBug(f, fault) == moveFileToClosed(Stopped(f), fault)
closeFileOnceBug(f, fault) ==
  IF f.isOpen /\ f.writing THEN moveFileToClosed(Stopped(f), fault) ELSE f

closeFile(f, fault) == IF f.isOpen THEN moveFileToClosed(Stopped(f), fault) ELSE f

\* A file that has not been reported as closed by the time closeFile ends has thrown.
Throws(f, fault) == f.isOpen /\ closeFile(f, fault).status # "closed"

(***************************************************************************)
(* remove_if on the files of a stream: those in doomed are closed and left *)
(* out.  When one of them throws, the files kept so far have been moved to *)
(* the front and the rest of the vector is what it was before.             *)
(***************************************************************************)
FaultOf(f, victim, fault) == IF f = victim THEN fault ELSE "none"

FirstToThrow(handlers, doomed, victim, fault) ==
  LET throwing == {n \in DOMAIN handlers :
        handlers[n] \in doomed /\ Throws(files[handlers[n]], FaultOf(handlers[n], victim, fault))}
  IN IF throwing = {} THEN Len(handlers) + 1
     ELSE CHOOSE n \in throwing : \A m \in throwing : n <= m

\* A mutant of RemoveIf: the doomed files are left out also when one of them throws.
RemoveIfBug(handlers, doomed, thrower) == SelectSeq(handlers, LAMBDA f : f \notin doomed)

RemoveIf(handlers, doomed, thrower) ==
  LET front[n \in 0 .. Len(handlers)] ==
        IF n = 0 THEN <<>>
        ELSE IF handlers[n] \in doomed THEN front[n - 1] ELSE Append(front[n - 1], handlers[n])
      kept == front[thrower - 1]
  IN IF thrower > Len(handlers) THEN kept
     ELSE kept \o SubSeq(handlers, Len(kept) + 1, Len(handlers))

Closing(handlers, doomed, thrower) ==
  {handlers[n] : n \in {m \in DOMAIN handlers : m <= thrower /\ handlers[m] \in doomed}}

FilesAfter(closing, victim, fault) ==
  [f \in DOMAIN files |->
     IF f \in closing THEN closeFile(files[f], FaultOf(f, victim, fault)) ELSE files[f]]

-----------------------------------------------------------------------------
(***************************************************************************)
(* An event, for each stream it is tagged with.                            *)
(***************************************************************************)
Fail ==
  /\ failed' = TRUE
  /\ dw' = Idle

\* The streams take their turn in the order of their ids.
IsNext(n) == n \in dw.rest /\ \A m \in dw.rest : n <= m
LastStream == Cardinality(dw.rest) = 1

NextStream(n) ==
  dw' = IF LastStream THEN [dw EXCEPT !.doing = "timeouts", !.rest = DOMAIN Streams]
                      ELSE [dw EXCEPT !.rest = @ \ {n}]

\* The file record of stream s; a faulty event may not even tell its lumi section.
Record(s, lumi, format) ==
  [stream |-> s, run |-> run, lumi |-> lumi, counter |-> usedCoreFileNames[s][lumi],
   format |-> format, size |-> IF format = "event" THEN HeaderSize ELSE 0,
   onDisk |-> IF format = "event" THEN HeaderSize ELSE 0, events |-> 0,
   isOpen |-> TRUE, writing |-> TRUE, status |-> "open", old |-> FALSE, made |-> TRUE]

\* Where stream s has the file in which the event may go: the first of its lumi section.
HandlerFor(s, lumi) ==
  LET fitting == {n \in DOMAIN fileHandlers[s] : files[fileHandlers[s][n]].lumi = lumi}
  IN IF fitting = {} THEN 0 ELSE CHOOSE n \in fitting : \A m \in fitting : n <= m

\* A mutant of tooLarge: the event that is about to be written is not counted.
tooLargeBug(f) == files[f].size > MaxFileSize /\ files[f].events > 0

tooLarge(f) == files[f].size + dw.size > MaxFileSize /\ files[f].events > 0

Written(f) == [f EXCEPT !.size = @ + dw.size, !.onDisk = @ + dw.size, !.events = @ + 1, !.old = FALSE]

\* How much is on the disk of a header or an event that could not be written.
Torn(fault, format) ==
  CASE fault = "write" -> 0 .. dw.size
    [] fault = "create" /\ format = "event" -> 0 .. HeaderSize
    [] OTHER -> {0}

\* What there is of a file that could not be made: the record is that of an open file, which
\* the data base may know of.
HalfMade(f, fault, onDisk) ==
  [f EXCEPT !.size = 0, !.onDisk = onDisk, !.writing = FALSE, !.made = FALSE,
            !.status = IF fault = "enter" THEN "unknown" ELSE "open"]

\* The new file after the first event has been written to it, or something has failed.
FirstWritten(f, fault, torn) ==
  CASE fault \in {"enter", "create"} -> HalfMade(f, fault, torn)
    [] fault = "write" -> [f EXCEPT !.onDisk = @ + torn]
    [] OTHER -> Written(f)

\* Opens a file for the event and writes it, after closing those in closing; kept are the
\* other files of the stream.  Only a file that has been made has a handler and is counted.
newFileHandler(n, kept, closing, victim, fault) ==
  \E lumi \in (IF Kind[Streams[n]] = "faulty" THEN {dw.lumi, 0} ELSE {dw.lumi}),
     format \in (IF Kind[Streams[n]] = "faulty" THEN {"event", "error"} ELSE {Kind[Streams[n]]}) :
    LET s == Streams[n]
        file == Record(s, lumi, format)
    IN /\ usedCoreFileNames' = [usedCoreFileNames EXCEPT ![s][lumi] = @ + 1]
       /\ \E torn \in Torn(fault, format) :
            files' = Append(FilesAfter(closing, victim, fault), FirstWritten(file, fault, torn))
       /\ IF fault \in {"enter", "create"}
          THEN /\ fileHandlers' = [fileHandlers EXCEPT ![s] = kept]
               /\ UNCHANGED fileCountPerLS
          ELSE /\ fileHandlers' = [fileHandlers EXCEPT ![s] = Append(kept, Len(files) + 1)]
               /\ fileCountPerLS' = [fileCountPerLS EXCEPT ![s][lumi] = @ + 1]
       /\ IF fault \in {"enter", "create", "write"} THEN Fail ELSE NextStream(n) /\ UNCHANGED failed

\* The file of the event's lumi section has room.  The writer of a file that could be
\* stopped but not moved is gone: to write to it is to follow a null pointer.
WriteToOpenFile(n, i, fault) ==
  LET f == fileHandlers[Streams[n]][i]
  IN /\ ~tooLarge(f)
     /\ fault \in {"write", "none"}
     /\ fault = "write" => files[f].isOpen /\ files[f].writing
     /\ left' = Spent(fault)
     /\ CASE ~files[f].isOpen -> Fail /\ UNCHANGED files
          [] files[f].isOpen /\ ~files[f].writing ->
               dw' = [dw EXCEPT !.doing = "crashed"] /\ UNCHANGED <<files, failed>>
          [] fault = "write" ->
               /\ \E torn \in Torn(fault, files[f].format) : files' = [files EXCEPT ![f].onDisk = @ + torn]
               /\ Fail
          [] OTHER -> files' = [files EXCEPT ![f] = Written(@)] /\ NextStream(n) /\ UNCHANGED failed
     /\ UNCHANGED <<fileHandlers, usedCoreFileNames, fileCountPerLS>>

\* The stream has no file for the event, or one that is too large, which is closed.
StartFirstFile(n, fault) ==
  /\ fault \notin ClosingFaults
  /\ left' = Spent(fault)
  /\ newFileHandler(n, fileHandlers[Streams[n]], {}, 0, fault)

StartNextFile(n, i, fault) ==
  LET s == Streams[n]
      f == fileHandlers[s][i]
  IN /\ tooLarge(f)
     /\ left' = Spent(fault)
     /\ IF Throws(files[f], fault)
        THEN /\ files' = FilesAfter({f}, f, fault)
             /\ UNCHANGED <<fileHandlers, usedCoreFileNames, fileCountPerLS>>
             /\ Fail
        ELSE newFileHandler(n, RemoveAt(fileHandlers[s], i), {f}, f, fault)

\* In the faulty event stream a new file is opened for each event; what goes wrong with
\* the files before it is only reported.
StartFaultyFile(n, victim, fault) ==
  /\ victim = 0 <=> fault \notin ClosingFaults
  /\ left' = Spent(fault)
  /\ newFileHandler(n, <<>>, ToSet(fileHandlers[Streams[n]]), victim, fault)

writeEventToStreams ==
  /\ dw.doing = "event"
  /\ \E n \in DOMAIN Streams, fault \in Faults \cup {"none"} :
       LET s == Streams[n]
           i == HandlerFor(s, dw.lumi)
       IN /\ IsNext(n) /\ MayFail(fault)
          /\ \/ /\ Kind[s] = "faulty"
                /\ \E victim \in ToSet(fileHandlers[s]) \cup {0} : StartFaultyFile(n, victim, fault)
             \/ Kind[s] # "faulty" /\ i = 0 /\ StartFirstFile(n, fault)
             \/ Kind[s] # "faulty" /\ i # 0 /\ WriteToOpenFile(n, i, fault)
             \/ Kind[s] # "faulty" /\ i # 0 /\ StartNextFile(n, i, fault)
  /\ UNCHANGED <<run, configured, request, endOfRunReport, log>>

(***************************************************************************)
(* Closing the files of a stream that are too old, after an event when the *)
(* test interval is over, and whenever no event has come for a while.      *)
(***************************************************************************)
SweepStream(s, doomed, victim, fault) ==
  LET thrower == FirstToThrow(fileHandlers[s], doomed, victim, fault)
  IN /\ fileHandlers' = [fileHandlers EXCEPT ![s] = RemoveIf(@, doomed, thrower)]
     /\ files' = FilesAfter(Closing(fileHandlers[s], doomed, thrower), victim, fault)
     /\ left' = Spent(fault)

Swept(s, doomed, victim, fault) ==
  FirstToThrow(fileHandlers[s], doomed, victim, fault) > Len(fileHandlers[s])

closeTimedOutFiles ==
  /\ dw.doing = "timeouts"
  /\ \E n \in DOMAIN Streams :
       LET s == Streams[n]
           doomed == {f \in ToSet(fileHandlers[s]) : files[f].old}
       IN /\ IsNext(n)
          /\ \E victim \in doomed \cup {0}, fault \in ClosingFaults \cup {"none"} :
               /\ MayFail(fault) /\ (victim = 0 <=> fault = "none")
               /\ SweepStream(s, doomed, victim, fault)
               /\ IF Swept(s, doomed, victim, fault)
                  THEN /\ dw' = IF LastStream THEN Idle ELSE [dw EXCEPT !.rest = @ \ {n}]
                       /\ UNCHANGED failed
                  ELSE Fail
  /\ UNCHANGED <<run, configured, request, usedCoreFileNames, fileCountPerLS, endOfRunReport, log>>

\* Nor is the test always due.
skipFileTimeOuts ==
  /\ dw.doing = "timeouts" /\ dw.rest = DOMAIN Streams /\ dw.lumi # 0
  /\ dw' = Idle
  /\ UNCHANGED <<run, configured, request, failed, files, fileHandlers, usedCoreFileNames,
                 fileCountPerLS, endOfRunReport, log, left>>

-----------------------------------------------------------------------------
(***************************************************************************)
(* The end of a lumi section: its files are closed stream by stream, and a *)
(* line with how many there were is logged after the last one.             *)
(***************************************************************************)
Line(lumi, counts, eols) == [lumi |-> lumi, counts |-> counts, eols |-> eols]
WithFiles(counts) == \E s \in DOMAIN counts : counts[s] > 0

Reported(report, line) ==
  [latestLumiSectionWritten |->
     IF line.lumi > report.latestLumiSectionWritten THEN line.lumi
     ELSE report.latestLumiSectionWritten,
   eolsCount |-> report.eolsCount + line.eols,
   lsCountWithFiles |-> report.lsCountWithFiles + (IF WithFiles(line.counts) THEN 1 ELSE 0)]

processEndOfLumiSection ==
  /\ dw.doing = "eols"
  /\ \E n \in DOMAIN Streams :
       LET s == Streams[n]
           doomed == {f \in ToSet(fileHandlers[s]) : files[f].lumi = dw.lumi}
           counts == Append(dw.counts, fileCountPerLS[s][dw.lumi])
           line == Line(dw.lumi, counts, 1)
       IN /\ IsNext(n)
          /\ \E victim \in doomed \cup {0}, fault \in ClosingFaults \cup {"none"} :
               /\ MayFail(fault) /\ (victim = 0 <=> fault = "none")
               /\ SweepStream(s, doomed, victim, fault)
               /\ IF ~Swept(s, doomed, victim, fault)
                  THEN Fail /\ UNCHANGED <<fileCountPerLS, log, endOfRunReport>>
                  ELSE /\ fileCountPerLS' = [fileCountPerLS EXCEPT ![s][dw.lumi] = 0]
                       /\ IF ~LastStream
                          THEN /\ dw' = [dw EXCEPT !.rest = @ \ {n}, !.counts = counts]
                               /\ UNCHANGED <<log, endOfRunReport>>
                          ELSE /\ dw' = Idle
                               /\ log' = [log EXCEPT !.lines = Append(@, line)]
                               /\ endOfRunReport' = Reported(endOfRunReport, line)
                       /\ UNCHANGED failed
  /\ UNCHANGED <<run, configured, request, usedCoreFileNames>>

(***************************************************************************)
(* The end of the streams: all files are closed, whatever goes wrong, and  *)
(* the lumi sections that are not reported yet get a line each.            *)
(***************************************************************************)
\* A mutant of AllHandlers: the faulty event stream does not close its files.
AllHandlersBug == UNION {ToSet(fileHandlers[s]) : s \in {r \in Labels : Kind[r] # "faulty"}}

AllHandlers == UNION {ToSet(fileHandlers[s]) : s \in Labels}
UnreportedLS == {l \in Lumis \cup {0} : \E s \in Labels : fileCountPerLS[s][l] > 0}

\* A mutant of RemainingLines: the sections of late events are not reported.
RemainingLinesBug == <<>>

\* The n-th of them; the map that the code goes through is ordered.
UnreportedSection(n) ==
  CHOOSE l \in UnreportedLS : Cardinality({m \in UnreportedLS : m <= l}) = n

RemainingLines ==
  [n \in 1 .. Cardinality(UnreportedLS) |->
     Line(UnreportedSection(n),
          [m \in DOMAIN Streams |-> fileCountPerLS[Streams[m]][UnreportedSection(n)]], 0)]

ReportedAll(report, lines) ==
  LET upTo[n \in 0 .. Len(lines)] ==
        IF n = 0 THEN report ELSE Reported(upTo[n - 1], lines[n])
  IN upTo[Len(lines)]

destroyStreams(victim, fault) ==
  LET report == ReportedAll(endOfRunReport, RemainingLines)
  IN /\ files' = FilesAfter(AllHandlers, victim, fault)
     /\ fileHandlers' = [s \in Labels |-> <<>>]
     /\ fileCountPerLS' = NoCounts
     /\ log' = [lines |-> log.lines \o RemainingLines, eor |-> <<report>>]
     /\ endOfRunReport' = NoReport
     /\ left' = Spent(fault)

checkStreamChangeRequest ==
  /\ dw = Idle
  /\ request # "none"
  /\ request' = "none"
  /\ IF request = "destroy"
     THEN /\ \E victim \in AllHandlers \cup {0}, fault \in ClosingFaults \cup {"none"} :
               /\ MayFail(fault) /\ (victim = 0 <=> fault = "none")
               /\ destroyStreams(victim, fault)
          /\ configured' = FALSE
          /\ UNCHANGED usedCoreFileNames
     ELSE /\ configured' = TRUE
          /\ usedCoreFileNames' = NoCounts
          /\ log' = EmptyLog
          /\ UNCHANGED <<files, fileHandlers, fileCountPerLS, endOfRunReport, left>>
  /\ dw' = [Idle EXCEPT !.doing = IF configured' THEN "timeouts" ELSE "idle",
                        !.rest = IF configured' THEN DOMAIN Streams ELSE {}]
  /\ UNCHANGED <<run, failed>>

-----------------------------------------------------------------------------
(***************************************************************************)
(* writeNextEvent: an event or end-of-lumi-section message has come, or    *)
(* none came before the timeout.                                           *)
(***************************************************************************)
\* A faulty event goes to stream 0 only, another one to any of the rest.
TagsOf(n) == IF Kind[Streams[n]] = "faulty" THEN {{n}}
             ELSE {T \in SUBSET DOMAIN Streams : n \in T /\ \A m \in T : Kind[Streams[m]] = Kind[Streams[n]]}
takeEvent(T, lumi, size) ==
  /\ dw = Idle /\ configured /\ left.events > 0
  /\ dw' = [doing |-> "event", rest |-> T, lumi |-> lumi, size |-> size, counts |-> <<>>]
  /\ left' = [left EXCEPT !.events = @ - 1]
  /\ UNCHANGED <<run, configured, request, failed, files, fileHandlers, usedCoreFileNames,
                 fileCountPerLS, endOfRunReport, log>>

takeEndOfLumiSection(lumi) ==
  /\ dw = Idle /\ configured /\ left.eols > 0
  /\ dw' = [Idle EXCEPT !.doing = "eols", !.rest = DOMAIN Streams, !.lumi = lumi]
  /\ left' = [left EXCEPT !.eols = @ - 1]
  /\ UNCHANGED <<run, configured, request, failed, files, fileHandlers, usedCoreFileNames,
                 fileCountPerLS, endOfRunReport, log>>

timedOut ==
  /\ dw = Idle /\ configured /\ request = "none"
  /\ dw' = [Idle EXCEPT !.doing = "timeouts", !.rest = DOMAIN Streams]
  /\ UNCHANGED <<run, configured, request, failed, files, fileHandlers, usedCoreFileNames,
                 fileCountPerLS, endOfRunReport, log, left>>

\* No event has come for a file for lumiSectionTimeOut.
becomesTooOld(f) ==
  /\ left.ages > 0 /\ f \in AllHandlers /\ files[f].isOpen /\ ~files[f].old
  /\ files' = [files EXCEPT ![f].old = TRUE]
  /\ left' = [left EXCEPT !.ages = @ - 1]
  /\ UNCHANGED <<run, configured, request, failed, dw, fileHandlers, usedCoreFileNames,
                 fileCountPerLS, endOfRunReport, log>>

\* The disk loses some or all of what an open file has.
losesData(f, n) ==
  /\ left.losses > 0 /\ files[f].isOpen /\ n < files[f].onDisk
  /\ files' = [files EXCEPT ![f].onDisk = n]
  /\ left' = [left EXCEPT !.losses = @ - 1, !.diskIsFine = FALSE]
  /\ UNCHANGED <<run, configured, request, failed, dw, fileHandlers, usedCoreFileNames,
                 fileCountPerLS, endOfRunReport, log>>

(***************************************************************************)
(* The state machine: a run starts with the monitor collections reset and  *)
(* new streams requested, and ends in Stopped, Ready or Failed when they   *)
(* are to be destroyed.  Nothing leads out of Failed.                      *)
(***************************************************************************)
startRun ==
  /\ ~configured /\ request = "none" /\ ~failed /\ left.runs > 0
  /\ run' = run + 1
  /\ request' = "configure"
  /\ fileCountPerLS' = NoCounts
  /\ left' = [left EXCEPT !.runs = @ - 1]
  /\ UNCHANGED <<configured, failed, dw, files, fileHandlers, usedCoreFileNames,
                 endOfRunReport, log>>

endRun ==
  /\ configured /\ request = "none"
  /\ request' = "destroy"
  /\ UNCHANGED <<run, configured, failed, dw, files, fileHandlers, usedCoreFileNames,
                 fileCountPerLS, endOfRunReport, log, left>>

InitWith(budget) ==
  /\ run = 0 /\ configured = FALSE /\ request = "none" /\ failed = FALSE
  /\ dw = Idle
  /\ files = <<>>
  /\ fileHandlers = [s \in Labels |-> <<>>]
  /\ usedCoreFileNames = NoCounts /\ fileCountPerLS = NoCounts
  /\ endOfRunReport = NoReport /\ log = EmptyLog
  /\ left = budget

Init == InitWith([runs |-> MaxRuns, events |-> MaxEvents, eols |-> MaxEoLS, ages |-> MaxAges,
                  faults |-> MaxFaults, losses |-> MaxLosses, diskIsFine |-> TRUE])

DiskWriter ==
  \/ writeEventToStreams \/ closeTimedOutFiles \/ skipFileTimeOuts
  \/ processEndOfLumiSection \/ checkStreamChangeRequest

Next ==
  \/ DiskWriter
  \/ \E n \in DOMAIN Streams : \E T \in TagsOf(n), l \in Lumis, z \in Sizes : takeEvent(T, l, z)
  \/ \E l \in Lumis : takeEndOfLumiSection(l)
  \/ timedOut
  \/ \E f \in DOMAIN files : becomesTooOld(f) \/ losesData(f, 0) \/ losesData(f, 1)
  \/ startRun \/ endRun

Spec == Init /\ [][Next]_vars

\* The DiskWriter's thread runs, and a dequeue without events times out.
FairSpec == Spec /\ WF_vars(DiskWriter) /\ WF_vars(timedOut)

-----------------------------------------------------------------------------
FileRecords ==
  [stream : Labels, run : 1 .. MaxRuns, lumi : Lumis \cup {0}, counter : Nat,
   format : {"event", "error"}, size : Nat, onDisk : Nat, events : Nat,
   isOpen : BOOLEAN, writing : BOOLEAN, status : {"unknown", "open", "closed"}, old : BOOLEAN,
   made : BOOLEAN]

TypeOK ==
  /\ run \in 0 .. MaxRuns /\ configured \in BOOLEAN /\ failed \in BOOLEAN
  /\ request \in {"none", "configure", "destroy"}
  /\ dw.doing \in {"idle", "event", "timeouts", "eols", "crashed"}
  /\ dw.rest \subseteq DOMAIN Streams /\ (dw.doing = "idle" <=> dw.rest = {})
  /\ files \in Seq(FileRecords)
  /\ \A s \in Labels : \A n \in DOMAIN fileHandlers[s] : files[fileHandlers[s][n]].stream = s
  /\ usedCoreFileNames \in [Labels -> [Lumis \cup {0} -> Nat]]
  /\ fileCountPerLS \in [Labels -> [Lumis \cup {0} -> Nat]]

(***************************************************************************)
(* No two files have the same name, for the second would silently replace  *)
(* the first when it is moved, and none grows past the limit by more than  *)
(* one event and the end record.                                           *)
(***************************************************************************)
Name(f) == <<f.stream, f.run, f.lumi, f.counter>>

FilesDoNotCollide ==
  /\ \A f, g \in DOMAIN files : f # g => Name(files[f]) # Name(files[g])
  /\ \A f \in DOMAIN files :
       Kind[files[f].stream] # "faulty" =>
         files[f].events <= 1 \/ files[f].size <= MaxFileSize + EOFSize

(***************************************************************************)
(* No file with an event in it is forgotten before it is closed: until the *)
(* streams are destroyed the stream that opened it still has it, although  *)
(* closing one of several files may throw in the midst of remove_if, and   *)
(* writing to it may.  An open file that no stream has is one that could   *)
(* not be made, and the state machine has been asked to go to Failed.      *)
(***************************************************************************)
OpenFilesStayKnown ==
  \A f \in DOMAIN files :
    configured /\ files[f].run = run /\ files[f].isOpen /\ Kind[files[f].stream] # "faulty" =>
      \/ f \in ToSet(fileHandlers[files[f].stream])
      \/ ~files[f].made /\ files[f].events = 0 /\ failed

\* Not so: that every open file is some stream's.  One that could not be made, because the
\* writer or its header failed, stays in the open area, "open" in the monitoring and in the
\* data base, and nothing tries to close it.
OpenFilesAreAllKnown ==
  configured =>
    \A f \in DOMAIN files : files[f].run = run /\ files[f].isOpen => f \in AllHandlers

(***************************************************************************)
(* The data base log accounts for every file once: the lines of its lumi   *)
(* section add up to the files, also for those of late events, and the     *)
(* end-of-run marker counts the lines.  A failure may lose a line.         *)
(***************************************************************************)
PositionOf(s) == CHOOSE n \in DOMAIN Streams : Streams[n] = s
CountIn(line, s) ==
  IF PositionOf(s) \in DOMAIN line.counts THEN line.counts[PositionOf(s)] ELSE 0
\* One pair for each file of the stream that a line of the lumi section counts.
ReportedFiles(s, lumi) ==
  UNION {{n} \X (1 .. CountIn(log.lines[n], s)) :
           n \in {m \in DOMAIN log.lines : log.lines[m].lumi = lumi}}
UnderReport(s, lumi) == IF dw.doing = "eols" /\ dw.lumi = lumi THEN CountIn(dw, s) ELSE 0
FilesOf(s, lumi) ==
  {f \in DOMAIN files : files[f].stream = s /\ files[f].lumi = lumi /\ files[f].run = run}

ReportsAddUp ==
  ~failed /\ request # "configure" =>
    /\ \A s \in Labels, l \in Lumis \cup {0} :
         Cardinality(FilesOf(s, l)) =
           (Cardinality(ReportedFiles(s, l)) + fileCountPerLS[s][l]) + UnderReport(s, l)
    /\ log.eor # <<>> =>
         /\ log.eor[1].lsCountWithFiles =
              Cardinality({n \in DOMAIN log.lines : WithFiles(log.lines[n].counts)})
         /\ log.eor[1].eolsCount = Cardinality({n \in DOMAIN log.lines : log.lines[n].eols = 1})

\* When the disk plays along, no file is left open, on disk or in the data base, by a
\* run whose streams are gone, and the thread survives.
NothingLeftOpen ==
  left.diskIsFine =>
    /\ dw.doing # "crashed"
    /\ ~configured => \A f \in DOMAIN files : files[f].status = "closed"

\* A file that has been moved to the closed area is never touched again.
MovedFilesAreFinal ==
  [][\A f \in DOMAIN files : ~files[f].isOpen => files'[f] = files[f]]_vars

(***************************************************************************)
(* Files without recent events are closed as long as a stream has them,    *)
(* though it may take another attempt, unless there is one that cannot be  *)
(* closed: the disk has lost all of it, or has only a part of an event     *)
(* that could not be written.  Not so without that: each attempt throws at *)
(* that file, and those after it wait until the streams are destroyed.     *)
(***************************************************************************)
OldFiles == {f \in AllHandlers : files[f].old /\ files[f].isOpen}
Unclosable == {f \in OldFiles : sizeMismatch(files[f].size, files[f].onDisk)}

OldFilesAreClosed ==
  OldFiles # {} ~> OldFiles = {} \/ Unclosable # {} \/ dw.doing = "crashed"

(***************************************************************************)
(* "Tried to write an event to a file which has already been closed": what *)
(* has been stopped is not written to, so the check must come before the   *)
(* writer is used.                                                         *)
(***************************************************************************)
StoppedWritersAreNotUsed == dw.doing # "crashed"
=============================================================================
