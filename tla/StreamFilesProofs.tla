-------------------------- MODULE StreamFilesProofs --------------------------
(***************************************************************************)
(* Theorems about StreamFiles for any streams, lumi sections, sizes and    *)
(* bounds, and whatever fails: no two files have the same name, none grows *)
(* too large, none is touched again once it has been moved, and none that  *)
(* could be made is forgotten while it is open; and where nothing fails,   *)
(* none is left open and the data base log accounts for each once.         *)
(***************************************************************************)
EXTENDS StreamFiles, SequenceTheorems, FiniteSetTheorems, NaturalsInduction, WellFoundedInduction,
        TLAPS

AllLumis == Lumis \cup {0}

Files ==
  [stream : Labels, run : Nat, lumi : AllLumis, counter : Nat, format : {"event", "error"},
   size : Nat, onDisk : Nat, events : Nat, isOpen : BOOLEAN, writing : BOOLEAN,
   status : {"unknown", "open", "closed"}, old : BOOLEAN, made : BOOLEAN]

\* While a file is written to there is still room for its end record.  A file that could not
\* be made is not written to.
Limit(f) == MaxFileSize + (IF f.writing THEN 0 ELSE EOFSize)
Fits(f) ==
  /\ f.events <= 1 \/ f.size <= Limit(f)
  /\ f.made \/ (f.events = 0 /\ ~f.writing)
FittingFiles == {f \in Files : Fits(f)}

SameName(f, g) == /\ g.stream = f.stream /\ g.run = f.run /\ g.lumi = f.lumi
                  /\ g.counter = f.counter

\* What may become of a file.
Follows(f, g) == g \in FittingFiles /\ SameName(f, g) /\ (~f.isOpen => g = f)

\* What the DiskWriter is at, and when it may be at it.
Tasks ==
  [doing : {"idle", "event", "timeouts", "eols", "crashed"}, rest : SUBSET DOMAIN Streams,
   lumi : AllLumis, size : Nat, counts : {dw.counts}]
ControlInv ==
  /\ run \in Nat /\ configured \in BOOLEAN
  /\ dw \in Tasks
  /\ dw.doing = "event" => configured
  /\ request \in {"none", "configure", "destroy"}
  /\ request = "configure" => ~configured

\* A file of this run has one of the names that were given out in it.
Numbered(f) ==
  f.run <= run /\ (f.run = run => /\ request # "configure"
                                  /\ f.counter < usedCoreFileNames[f.stream][f.lumi])
FileInv ==
  /\ files \in Seq(FittingFiles)
  /\ usedCoreFileNames \in [Labels -> [AllLumis -> Nat]]
  /\ \A f \in DOMAIN files : Numbered(files[f])
  /\ \A f, g \in DOMAIN files : f # g => ~SameName(files[f], files[g])

\* The inductive invariant.
IInv == ControlInv /\ FileInv

-----------------------------------------------------------------------------
(* One file.                                                               *)

\* The writer is stopped.
LEMMA StoppedFollows ==
  ASSUME NEW f \in FittingFiles
  PROVE  /\ Stopped(f) \in FittingFiles /\ SameName(f, Stopped(f))
         /\ Stopped(f).isOpen = f.isOpen /\ ~Stopped(f).writing
<1> DEFINE grown == IF f.writing /\ f.format = "event" THEN EOFSize ELSE 0
           size == f.size + grown
           onDisk == f.onDisk + grown
           g1 == [f EXCEPT !.writing = FALSE]
           g2 == [g1 EXCEPT !.size = size]
           g3 == [g2 EXCEPT !.onDisk = onDisk]
<1>1. /\ f \in Files /\ f.size \in Nat /\ f.onDisk \in Nat /\ f.events \in Nat
      /\ f.writing \in BOOLEAN /\ f.made \in BOOLEAN
  BY DEF FittingFiles, Files
<1>2. grown \in Nat /\ (~f.writing => grown = 0) /\ grown <= EOFSize
  BY <1>1, SizesAssumption
<1>3. size \in Nat /\ onDisk \in Nat
  <2> HIDE DEF grown
  <2> QED
    BY <1>1, <1>2
<1>4. Stopped(f) = g3
  BY Zenon DEF Stopped
<1>5. f.events <= 1 \/ size <= MaxFileSize + EOFSize
  <2>1. f.events <= 1 \/ f.size <= MaxFileSize + (IF f.writing THEN 0 ELSE EOFSize)
    BY DEF FittingFiles, Fits, Limit
  <2> HIDE DEF grown
  <2>2. CASE f.writing
    BY <1>1, <1>2, <2>1, <2>2, SizesAssumption
  <2>3. CASE ~f.writing
    BY <1>1, <1>2, <2>1, <2>3, SizesAssumption
  <2> QED
    BY <2>2, <2>3
<1> HIDE DEF size, onDisk
<1>6. /\ g1 \in Files /\ SameName(f, g1) /\ g1.events = f.events /\ ~g1.writing
      /\ g1.isOpen = f.isOpen /\ g1.made = f.made
  BY <1>1 DEF Files, SameName
<1> HIDE DEF g1
<1>7. /\ g2 \in Files /\ SameName(f, g2) /\ g2.events = f.events /\ ~g2.writing
      /\ g2.isOpen = f.isOpen /\ g2.size = size /\ g2.made = f.made
  BY <1>3, <1>6 DEF Files, SameName
<1> HIDE DEF g2
<1>8. /\ g3 \in Files /\ SameName(f, g3) /\ g3.events = f.events /\ ~g3.writing
      /\ g3.isOpen = f.isOpen /\ g3.size = size /\ g3.made = f.made
  BY <1>3, <1>7 DEF Files, SameName
<1> HIDE DEF g3
<1>9. Fits(g3)
  <2>1. f.made \/ f.events = 0
    BY DEF FittingFiles, Fits
  <2> QED
    BY <1>1, <1>5, <1>8, <2>1 DEF Fits, Limit
<1> QED
  BY <1>4, <1>8, <1>9 DEF FittingFiles

\* Where the file is, or whether it is old, has no part in its name or its size.
LEMMA PlaceFollows ==
  ASSUME NEW f \in FittingFiles, NEW b \in BOOLEAN, NEW n \in Nat
  PROVE  /\ [f EXCEPT !.isOpen = b] \in FittingFiles /\ SameName(f, [f EXCEPT !.isOpen = b])
         /\ [f EXCEPT !.status = "closed"] \in FittingFiles
         /\ SameName(f, [f EXCEPT !.status = "closed"])
         /\ [f EXCEPT !.old = b] \in FittingFiles /\ SameName(f, [f EXCEPT !.old = b])
         /\ [f EXCEPT !.onDisk = n] \in FittingFiles /\ SameName(f, [f EXCEPT !.onDisk = n])
BY DEF FittingFiles, Files, Fits, Limit, SameName

\* A file that is closed, or not closed after all, is still the same file.
LEMMA CloseFollows ==
  ASSUME NEW f \in FittingFiles, NEW fault
  PROVE  Follows(f, closeFile(f, fault))
<1> DEFINE s == Stopped(f)
           moved == [s EXCEPT !.isOpen = FALSE]
<1>1. CASE ~f.isOpen
  BY <1>1 DEF closeFile, Follows, SameName
<1>2. CASE f.isOpen
  <2>1. s \in FittingFiles /\ SameName(f, s)
    BY StoppedFollows
  <2>2. closeFile(f, fault) \in {s, moved, [moved EXCEPT !.status = "closed"]}
    <3>1. closeFile(f, fault) = moveFileToClosed(s, fault)
      BY <1>2 DEF closeFile
    <3> HIDE DEF s
    <3>2. moveFileToClosed(s, fault) = s \/ moveFileToClosed(s, fault) = moved
            \/ moveFileToClosed(s, fault) = [moved EXCEPT !.status = "closed"]
      <4>1. CASE sizeMismatch(s.size, s.onDisk) \/ fault = "move"
        BY <4>1 DEF moveFileToClosed
      <4>2. CASE ~(sizeMismatch(s.size, s.onDisk) \/ fault = "move") /\ fault = "check"
        <5> HIDE DEF moved
        <5> QED
          BY <4>2 DEF moveFileToClosed, moved
      <4>3. CASE ~(sizeMismatch(s.size, s.onDisk) \/ fault = "move") /\ fault # "check"
        BY <4>3 DEF moveFileToClosed
      <4> QED
        BY <4>1, <4>2, <4>3
    <3> QED
      BY <3>1, <3>2
  <2> HIDE DEF s
  <2>3. moved \in FittingFiles /\ SameName(s, moved)
    BY <2>1, PlaceFollows
  <2> HIDE DEF moved
  <2>4. [moved EXCEPT !.status = "closed"] \in FittingFiles
          /\ SameName(moved, [moved EXCEPT !.status = "closed"])
    BY <2>3, PlaceFollows
  <2>5. closeFile(f, fault) \in FittingFiles /\ SameName(f, closeFile(f, fault))
    BY <2>1, <2>2, <2>3, <2>4 DEF SameName
  <2> QED
    BY <1>2, <2>5 DEF Follows
<1> QED
  BY <1>1, <1>2

\* An event is written to a file that has room for it, or has no event yet.
LEMMA WrittenFits ==
  ASSUME NEW f \in Files, f.writing, f.made, dw.size \in Nat,
         f.events = 0 \/ f.size + dw.size <= MaxFileSize
  PROVE  /\ Written(f) \in FittingFiles /\ SameName(f, Written(f))
<1> DEFINE size == f.size + dw.size
           onDisk == f.onDisk + dw.size
           events == f.events + 1
           g1 == [f EXCEPT !.size = size]
           g2 == [g1 EXCEPT !.onDisk = onDisk]
           g3 == [g2 EXCEPT !.events = events]
           g4 == [g3 EXCEPT !.old = FALSE]
<1>1. f.size \in Nat /\ f.onDisk \in Nat /\ f.events \in Nat
  BY DEF Files
<1>2. size \in Nat /\ onDisk \in Nat /\ events \in Nat /\ events >= 1
      /\ (events = 1 \/ size <= MaxFileSize)
  BY <1>1
<1>3. Written(f) = g4
  BY Zenon DEF Written
<1> HIDE DEF size, onDisk, events
<1>4. g1 \in Files /\ SameName(f, g1) /\ g1.writing /\ g1.made /\ g1.size = size
  BY <1>2 DEF Files, SameName
<1> HIDE DEF g1
<1>5. g2 \in Files /\ SameName(f, g2) /\ g2.writing /\ g2.made /\ g2.size = size
  BY <1>2, <1>4 DEF Files, SameName
<1> HIDE DEF g2
<1>6. /\ g3 \in Files /\ SameName(f, g3) /\ g3.writing /\ g3.made /\ g3.size = size
      /\ g3.events = events
  BY <1>2, <1>5 DEF Files, SameName
<1> HIDE DEF g3
<1>7. /\ g4 \in Files /\ SameName(f, g4) /\ g4.writing /\ g4.made /\ g4.size = size
      /\ g4.events = events
  BY <1>6 DEF Files, SameName
<1> HIDE DEF g4
<1>8. Fits(g4)
  BY <1>2, <1>7, SizesAssumption DEF Fits, Limit
<1> QED
  BY <1>3, <1>7, <1>8 DEF FittingFiles

\* What is left of a header or of an event that could not be written.
LEMMA TornTyped ==
  ASSUME IInv, NEW fault, NEW format
  PROVE  Torn(fault, format) \subseteq Nat
BY SizesAssumption DEF Torn, IInv, ControlInv, Tasks

\* A file that could not be made.
LEMMA HalfMadeFits ==
  ASSUME NEW f \in Files, f.events = 0, NEW fault, NEW torn \in Nat
  PROVE  LET g == HalfMade(f, fault, torn)
         IN /\ g \in FittingFiles /\ SameName(f, g) /\ g.isOpen = f.isOpen
            /\ ~g.made /\ g.status # "closed"
<1> DEFINE status == IF fault = "enter" THEN "unknown" ELSE "open"
           g1 == [f EXCEPT !.size = 0]
           g2 == [g1 EXCEPT !.onDisk = torn]
           g3 == [g2 EXCEPT !.writing = FALSE]
           g4 == [g3 EXCEPT !.made = FALSE]
           g5 == [g4 EXCEPT !.status = status]
<1>1. HalfMade(f, fault, torn) = g5
  BY Zenon DEF HalfMade
<1>2. status \in {"unknown", "open"}
  OBVIOUS
<1> HIDE DEF status
<1>3. g1 \in Files /\ SameName(f, g1) /\ g1.isOpen = f.isOpen /\ g1.events = 0
  BY DEF Files, SameName
<1> HIDE DEF g1
<1>4. g2 \in Files /\ SameName(f, g2) /\ g2.isOpen = f.isOpen /\ g2.events = 0
  BY <1>3 DEF Files, SameName
<1> HIDE DEF g2
<1>5. g3 \in Files /\ SameName(f, g3) /\ g3.isOpen = f.isOpen /\ g3.events = 0 /\ ~g3.writing
  BY <1>4 DEF Files, SameName
<1> HIDE DEF g3
<1>6. /\ g4 \in Files /\ SameName(f, g4) /\ g4.isOpen = f.isOpen /\ g4.events = 0 /\ ~g4.writing
      /\ ~g4.made
  BY <1>5 DEF Files, SameName
<1> HIDE DEF g4
<1>7. /\ g5 \in Files /\ SameName(f, g5) /\ g5.isOpen = f.isOpen /\ g5.events = 0 /\ ~g5.writing
      /\ ~g5.made /\ g5.status = status
  BY <1>2, <1>6 DEF Files, SameName
<1> HIDE DEF g5
<1>8. Fits(g5)
  BY <1>7 DEF Fits
<1> QED
  BY <1>1, <1>2, <1>7, <1>8 DEF FittingFiles

\* A file to which the first event could not be written.
LEMMA TornFits ==
  ASSUME NEW f \in Files, f.events = 0, f.made, NEW torn \in Nat
  PROVE  LET g == [f EXCEPT !.onDisk = @ + torn]
         IN /\ g \in FittingFiles /\ SameName(f, g) /\ g.isOpen = f.isOpen
            /\ g.made /\ g.status = f.status
<1> DEFINE onDisk == f.onDisk + torn
           g == [f EXCEPT !.onDisk = onDisk]
<1>1. onDisk \in Nat
  BY DEF Files
<1> HIDE DEF onDisk
<1>2. /\ g \in Files /\ SameName(f, g) /\ g.isOpen = f.isOpen /\ g.events = 0
      /\ g.made /\ g.status = f.status
  BY <1>1 DEF Files, SameName
<1>3. [f EXCEPT !.onDisk = @ + torn] = g
  BY Zenon DEF onDisk
<1> HIDE DEF g
<1>4. Fits(g)
  BY <1>2 DEF Fits
<1> QED
  BY <1>2, <1>3, <1>4 DEF FittingFiles

\* The record of a new file.
LEMMA RecordTyped ==
  ASSUME IInv, NEW s \in Labels, NEW lumi \in AllLumis, NEW format \in {"event", "error"}
  PROVE  LET r == Record(s, lumi, format)
         IN /\ r \in Files /\ r.writing /\ r.made /\ r.isOpen /\ r.status = "open"
            /\ r.events = 0 /\ r.stream = s /\ r.run = run /\ r.lumi = lumi
            /\ r.counter = usedCoreFileNames[s][lumi]
<1>1. usedCoreFileNames[s][lumi] \in Nat /\ run \in Nat
  BY DEF IInv, FileInv, ControlInv
<1> QED
  BY <1>1, SizesAssumption DEF Record, Files

\* Whatever becomes of a new file, it has the next name of its stream and lumi section.
LEMMA RecordFits ==
  ASSUME IInv, NEW s \in Labels, NEW lumi \in AllLumis, NEW format \in {"event", "error"},
         NEW fault, NEW torn \in Nat
  PROVE  LET f == FirstWritten(Record(s, lumi, format), fault, torn)
         IN /\ f \in FittingFiles /\ f.stream = s /\ f.run = run /\ f.lumi = lumi
            /\ f.counter = usedCoreFileNames[s][lumi]
<1> DEFINE r == Record(s, lumi, format)
           f == FirstWritten(r, fault, torn)
<1>1. dw.size \in Nat
  BY DEF IInv, ControlInv, Tasks
<1>2. /\ r \in Files /\ r.writing /\ r.made /\ r.events = 0 /\ r.stream = s /\ r.run = run
      /\ r.lumi = lumi /\ r.counter = usedCoreFileNames[s][lumi]
  BY RecordTyped
<1> HIDE DEF r
<1>3. f \in FittingFiles /\ SameName(r, f)
  <2>1. CASE fault \in {"enter", "create"}
    BY <1>2, <2>1, HalfMadeFits DEF FirstWritten
  <2>2. CASE fault = "write"
    <3>1. f = [r EXCEPT !.onDisk = @ + torn]
      BY <2>2 DEF FirstWritten
    <3> QED
      BY <1>2, <3>1, TornFits
  <2>3. CASE fault \notin {"enter", "create", "write"}
    <3>1. f = Written(r)
      BY <2>3 DEF FirstWritten
    <3> QED
      BY <1>1, <1>2, <3>1, WrittenFits
  <2> QED
    BY <2>1, <2>2, <2>3
<1> HIDE DEF f
<1> QED
  BY <1>2, <1>3 DEF SameName, r, f

-----------------------------------------------------------------------------
(* All files.                                                              *)

\* What the invariant says of each file.
LEMMA FilesTyped ==
  ASSUME IInv
  PROVE  /\ Len(files) \in Nat /\ DOMAIN files = 1 .. Len(files)
         /\ \A f \in DOMAIN files : files[f] \in FittingFiles
BY DEF IInv, FileInv

\* Each file is what it was, or what may become of it.
AllFollow(after) ==
  /\ DOMAIN after = DOMAIN files
  /\ after = [f \in DOMAIN after |-> after[f]]
  /\ \A f \in DOMAIN files : Follows(files[f], after[f])

\* Nothing becomes of the files.
LEMMA FilesStay ==
  ASSUME IInv
  PROVE  AllFollow(files)
<1>1. files = [f \in DOMAIN files |-> files[f]]
  BY DEF IInv, FileInv
<1> QED
  BY <1>1, FilesTyped DEF AllFollow, Follows, SameName

\* Some of the files are closed.
LEMMA ClosingFollows ==
  ASSUME IInv, NEW closing, NEW victim, NEW fault
  PROVE  AllFollow(FilesAfter(closing, victim, fault))
<1>1. ASSUME NEW f \in DOMAIN files
      PROVE  Follows(files[f], FilesAfter(closing, victim, fault)[f])
  <2>1. files[f] \in FittingFiles
    BY FilesTyped
  <2>2. CASE f \in closing
    BY <2>1, <2>2, CloseFollows DEF FilesAfter
  <2>3. CASE f \notin closing
    BY <2>1, <2>3 DEF FilesAfter, Follows, SameName
  <2> QED
    BY <2>2, <2>3
<1> QED
  BY <1>1 DEF AllFollow, FilesAfter

\* One file is replaced by what may become of it.
LEMMA OneFollows ==
  ASSUME IInv, NEW f, NEW g, f \in DOMAIN files => Follows(files[f], g)
  PROVE  AllFollow([files EXCEPT ![f] = g])
<1> DEFINE after == [files EXCEPT ![f] = g]
<1>1. files = [h \in DOMAIN files |-> files[h]]
  BY DEF IInv, FileInv
<1>2. /\ DOMAIN after = DOMAIN files
      /\ after = [h \in DOMAIN after |-> after[h]]
  BY <1>1
<1>3. ASSUME NEW h \in DOMAIN files
      PROVE  Follows(files[h], after[h])
  <2>1. files[h] \in FittingFiles
    BY FilesTyped
  <2>2. after[h] = IF h = f THEN g ELSE files[h]
    BY <1>1
  <2> HIDE DEF after
  <2>3. CASE h = f
    BY <2>2, <2>3
  <2>4. CASE h # f
    BY <2>1, <2>2, <2>4 DEF Follows, SameName
  <2> QED
    BY <2>3, <2>4
<1> HIDE DEF after
<1>4. AllFollow(after)
  BY <1>2, <1>3 DEF AllFollow
<1> QED
  BY <1>4 DEF after

\* What becomes of the files is a sequence again, as long as they were.
LEMMA FollowSequence ==
  ASSUME IInv, NEW after, AllFollow(after)
  PROVE  after \in Seq(FittingFiles) /\ Len(after) = Len(files)
<1>1. after = [f \in DOMAIN after |-> after[f]] /\ DOMAIN after = 1 .. Len(files)
  BY FilesTyped DEF AllFollow
<1>2. \A f \in DOMAIN after : after[f] \in FittingFiles
  BY DEF AllFollow, Follows
<1>3. after \in [1 .. Len(files) -> FittingFiles] /\ Len(files) \in Nat
  BY <1>1, <1>2, FilesTyped
<1> QED
  BY <1>1, <1>3, SeqDef

\* A file that was moved is what it was.
Final == \A f \in DOMAIN files : ~files[f].isOpen => files'[f] = files[f]

\* No name is given out twice.
CountsGrow ==
  /\ usedCoreFileNames' \in [Labels -> [AllLumis -> Nat]]
  /\ \A s \in Labels, l \in AllLumis : usedCoreFileNames[s][l] <= usedCoreFileNames'[s][l]

\* A step that gives out no name.
LEMMA CountsStay ==
  ASSUME IInv, UNCHANGED usedCoreFileNames
  PROVE  CountsGrow
BY DEF IInv, FileInv, CountsGrow

\* A step that gives out the next name of a stream and lumi section.
LEMMA NameTaken ==
  ASSUME IInv, NEW s \in Labels, NEW lumi \in AllLumis,
         usedCoreFileNames' = [usedCoreFileNames EXCEPT ![s][lumi] = @ + 1]
  PROVE  CountsGrow /\ usedCoreFileNames'[s][lumi] = usedCoreFileNames[s][lumi] + 1
<1> DEFINE c == usedCoreFileNames
           row == [c[s] EXCEPT ![lumi] = c[s][lumi] + 1]
<1>1. c \in [Labels -> [AllLumis -> Nat]]
  BY DEF IInv, FileInv
<1>2. c' = [c EXCEPT ![s] = row]
  BY Zenon
<1> HIDE DEF c
<1>3. /\ row \in [AllLumis -> Nat]
      /\ \A l \in AllLumis : row[l] = IF l = lumi THEN c[s][lumi] + 1 ELSE c[s][l]
  BY <1>1
<1> HIDE DEF row
<1>4. /\ c' \in [Labels -> [AllLumis -> Nat]]
      /\ \A r \in Labels : c'[r] = IF r = s THEN row ELSE c[r]
  BY <1>1, <1>2, <1>3
<1>5. ASSUME NEW r \in Labels, NEW l \in AllLumis
      PROVE  c[r][l] <= c'[r][l]
  <2>1. c[r][l] \in Nat
    BY <1>1
  <2> QED
    BY <1>3, <1>4, <2>1
<1>6. c'[s][lumi] = c[s][lumi] + 1
  BY <1>3, <1>4
<1> QED
  BY <1>4, <1>5, <1>6 DEF CountsGrow, c

\* Files that only change leave the invariant of the files as it is.
LEMMA NumberedStill ==
  ASSUME IInv, CountsGrow, UNCHANGED run, request' # "configure" \/ request' = request,
         NEW f \in FittingFiles, NEW g, SameName(f, g), Numbered(f)
  PROVE  (g.run <= run /\ (g.run = run => /\ request # "configure"
                                          /\ g.counter < usedCoreFileNames[g.stream][g.lumi]))'
<1>1. f.stream \in Labels /\ f.lumi \in AllLumis /\ f.counter \in Nat
  BY DEF FittingFiles, Files
<1>2. /\ usedCoreFileNames[f.stream][f.lumi] \in Nat
      /\ usedCoreFileNames'[f.stream][f.lumi] \in Nat
      /\ usedCoreFileNames[f.stream][f.lumi] <= usedCoreFileNames'[f.stream][f.lumi]
  BY <1>1 DEF IInv, FileInv, CountsGrow
<1> QED
  BY <1>1, <1>2 DEF SameName, Numbered

\* A step that makes no file keeps the names as they are.
LEMMA NothingNew ==
  ASSUME IInv, AllFollow(files'), CountsGrow, UNCHANGED run,
         request' # "configure" \/ request' = request
  PROVE  FileInv' /\ Final
<1>1. files' \in Seq(FittingFiles)
  BY FollowSequence
<1>2. DOMAIN files' = DOMAIN files /\ \A f \in DOMAIN files : Follows(files[f], files'[f])
  BY DEF AllFollow
<1>3. ASSUME NEW f \in DOMAIN files'
      PROVE  Numbered(files[f])'
  <2>1. Numbered(files[f]) /\ files[f] \in FittingFiles
    BY <1>2, <1>3, FilesTyped DEF IInv, FileInv
  <2>2. SameName(files[f], files'[f])
    BY <1>2, <1>3 DEF Follows
  <2> QED
    BY <2>1, <2>2, NumberedStill DEF Numbered
<1>4. ASSUME NEW f \in DOMAIN files', NEW g \in DOMAIN files', f # g
      PROVE  ~SameName(files[f], files[g])'
  <2>1. ~SameName(files[f], files[g])
    BY <1>2, <1>4 DEF IInv, FileInv
  <2> QED
    BY <1>2, <1>4, <2>1 DEF SameName, Follows
<1>5. Final
  BY <1>2 DEF Final, Follows
<1>6. usedCoreFileNames' \in [Labels -> [AllLumis -> Nat]]
  BY DEF CountsGrow
<1> QED
  BY <1>1, <1>3, <1>4, <1>5, <1>6 DEF FileInv

\* A new file has a name that no file has.
LEMMA FileAdded ==
  ASSUME IInv, NEW after, AllFollow(after), UNCHANGED <<run, request>>, request # "configure",
         NEW s \in Labels, NEW lumi \in AllLumis, NEW format \in {"event", "error"},
         NEW fault, NEW torn \in Nat,
         usedCoreFileNames' = [usedCoreFileNames EXCEPT ![s][lumi] = @ + 1],
         files' = Append(after, FirstWritten(Record(s, lumi, format), fault, torn))
  PROVE  FileInv' /\ Final
<1> DEFINE new == FirstWritten(Record(s, lumi, format), fault, torn)
           last == Len(files) + 1
<1>1. /\ new \in FittingFiles /\ new.stream = s /\ new.run = run /\ new.lumi = lumi
      /\ new.counter = usedCoreFileNames[s][lumi]
  BY RecordFits
<1> HIDE DEF new
<1>2. after \in Seq(FittingFiles) /\ Len(after) = Len(files) /\ Len(files) \in Nat
  BY FollowSequence, FilesTyped
<1>3. /\ files' \in Seq(FittingFiles) /\ DOMAIN files' = DOMAIN files \cup {last}
      /\ files'[last] = new /\ last \notin DOMAIN files
      /\ \A f \in DOMAIN files : files'[f] = after[f]
  <2>1. files' = Append(after, new)
    BY DEF new
  <2>2. DOMAIN files = 1 .. Len(files)
    BY FilesTyped
  <2> QED
    BY <1>1, <1>2, <2>1, <2>2
<1> HIDE DEF last
<1>4. \A f \in DOMAIN files : /\ Follows(files[f], after[f]) /\ Numbered(files[f])
                              /\ files[f] \in FittingFiles
  BY FilesTyped DEF AllFollow, IInv, FileInv
<1>5. CountsGrow /\ usedCoreFileNames'[s][lumi] = usedCoreFileNames[s][lumi] + 1
  BY NameTaken
<1>6. usedCoreFileNames[s][lumi] \in Nat /\ run \in Nat
  BY DEF IInv, FileInv, ControlInv
<1>7. ASSUME NEW f \in DOMAIN files'
      PROVE  Numbered(files[f])'
  <2>1. CASE f = last
    BY <1>1, <1>3, <1>5, <1>6, <2>1 DEF Numbered
  <2>2. CASE f \in DOMAIN files
    <3>1. SameName(files[f], files'[f])
      BY <1>3, <1>4, <2>2 DEF Follows
    <3> QED
      BY <1>4, <1>5, <2>2, <3>1, NumberedStill DEF Numbered
  <2> QED
    BY <1>3, <1>7, <2>1, <2>2
<1>8. ASSUME NEW f \in DOMAIN files
      PROVE  ~SameName(new, files'[f]) /\ ~SameName(files'[f], new)
  <2>1. SameName(files[f], files'[f])
    BY <1>3, <1>4 DEF Follows
  <2>2. files[f].counter \in Nat
    BY <1>4 DEF FittingFiles, Files
  <2>3. ~SameName(new, files[f])
    BY <1>1, <1>4, <1>6, <2>2 DEF Numbered, SameName
  <2> QED
    BY <2>1, <2>3 DEF SameName
<1>9. ASSUME NEW f \in DOMAIN files', NEW g \in DOMAIN files', f # g
      PROVE  ~SameName(files[f], files[g])'
  <2>1. CASE f \in DOMAIN files /\ g \in DOMAIN files
    <3>1. ~SameName(files[f], files[g])
      BY <1>9, <2>1 DEF IInv, FileInv
    <3>2. SameName(files[f], files'[f]) /\ SameName(files[g], files'[g])
      BY <1>3, <1>4, <2>1 DEF Follows
    <3>3. ~SameName(files'[f], files'[g])
      BY <3>1, <3>2 DEF SameName
    <3> QED
      BY <3>3 DEF SameName
  <2>2. CASE f = last /\ g \in DOMAIN files
    <3>1. ~SameName(files'[f], files'[g])
      BY <1>3, <1>8, <2>2
    <3> QED
      BY <3>1 DEF SameName
  <2>3. CASE g = last /\ f \in DOMAIN files
    <3>1. ~SameName(files'[f], files'[g])
      BY <1>3, <1>8, <2>3
    <3> QED
      BY <3>1 DEF SameName
  <2> QED
    BY <1>3, <1>9, <2>1, <2>2, <2>3
<1>10. Final
  BY <1>3, <1>4 DEF Final, Follows
<1>11. usedCoreFileNames' \in [Labels -> [AllLumis -> Nat]]
  BY <1>5 DEF CountsGrow
<1> QED
  BY <1>3, <1>7, <1>9, <1>10, <1>11 DEF FileInv

-----------------------------------------------------------------------------
(* The DiskWriter's state.                                                 *)

\* What a step may make of it.
Control == dw' \in Tasks' /\ (dw'.doing = "event" => dw.doing = "event")

\* The DiskWriter is done with a message.
LEMMA StepEnds ==
  ASSUME dw' = Idle
  PROVE  Control
BY DEF Control, Tasks, Idle, AllLumis

\* The DiskWriter goes on with the next stream, or crashes.
LEMMA StepGoesOn ==
  ASSUME IInv, NEW n, NextStream(n) \/ dw' = [dw EXCEPT !.rest = @ \ {n}]
                      \/ dw' = [dw EXCEPT !.doing = "crashed"] \/ UNCHANGED dw
  PROVE  Control
<1>1. dw \in Tasks
  BY DEF IInv, ControlInv
<1>2. CASE dw' = [dw EXCEPT !.rest = @ \ {n}]
  BY <1>1, <1>2 DEF Control, Tasks
<1>3. CASE dw' = [dw EXCEPT !.doing = "crashed"]
  BY <1>1, <1>3 DEF Control, Tasks
<1>4. CASE dw' = [dw EXCEPT !.doing = "timeouts", !.rest = DOMAIN Streams]
  BY <1>1, <1>4 DEF Control, Tasks
<1>5. CASE UNCHANGED dw
  BY <1>1, <1>5 DEF Control, Tasks
<1> QED
  BY <1>2, <1>3, <1>4, <1>5 DEF NextStream

\* The part of the invariant about the DiskWriter.
LEMMA ControlKept ==
  ASSUME IInv, Control, UNCHANGED <<run, configured, request>>
  PROVE  ControlInv'
BY DEF IInv, ControlInv, Control, Tasks

-----------------------------------------------------------------------------
(* The steps.                                                              *)

\* A file is opened, or could not be made.
LEMMA NewFile ==
  ASSUME IInv, dw.doing = "event", NEW n \in DOMAIN Streams, NEW kept, NEW closing, NEW victim,
         NEW fault, newFileHandler(n, kept, closing, victim, fault), UNCHANGED <<run, configured, request>>
  PROVE  Control /\ FileInv' /\ Final
<1> DEFINE s == Streams[n]
           after == FilesAfter(closing, victim, fault)
<1>1. s \in Labels
  BY DEF Labels
<1>2. PICK lumi \in (IF Kind[s] = "faulty" THEN {dw.lumi, 0} ELSE {dw.lumi}),
           format \in (IF Kind[s] = "faulty" THEN {"event", "error"} ELSE {Kind[s]}) :
        /\ usedCoreFileNames' = [usedCoreFileNames EXCEPT ![s][lumi] = @ + 1]
        /\ \E torn \in Torn(fault, format) :
             files' = Append(after, FirstWritten(Record(s, lumi, format), fault, torn))
        /\ Fail \/ NextStream(n)
  BY DEF newFileHandler
<1> HIDE DEF after
<1>3. lumi \in AllLumis
  BY <1>2 DEF IInv, ControlInv, Tasks, AllLumis
<1>4. Kind[s] \in {"faulty", "event", "error"}
  BY StreamsAssumption
<1>5. format \in {"event", "error"}
  BY <1>2, <1>4
<1> HIDE DEF s
<1>6. AllFollow(after)
  BY ClosingFollows DEF after
<1>7. request # "configure"
  BY DEF IInv, ControlInv
<1>8. Control
  BY <1>2, StepEnds, StepGoesOn DEF Fail
<1>9. PICK torn \in Nat : files' = Append(after, FirstWritten(Record(s, lumi, format), fault, torn))
  BY <1>2, TornTyped
<1>10. FileInv' /\ Final
  BY <1>1, <1>2, <1>3, <1>5, <1>6, <1>7, <1>9, FileAdded
<1> QED
  BY <1>8, <1>10

\* There is room for the event in a file that is not too large.
LEMMA RoomLeft ==
  ASSUME IInv, NEW f \in DOMAIN files, files[f].isOpen, files[f].writing, ~tooLarge(f)
  PROVE  Follows(files[f], Written(files[f]))
<1>1. files[f] \in FittingFiles /\ dw.size \in Nat
  BY FilesTyped DEF IInv, ControlInv, Tasks
<1>2. files[f].size \in Nat /\ files[f].events \in Nat /\ files[f].made
  BY <1>1 DEF FittingFiles, Files, Fits
<1>3. files[f].events = 0 \/ files[f].size + dw.size <= MaxFileSize
  BY <1>1, <1>2, SizesAssumption DEF tooLarge
<1>4. Written(files[f]) \in FittingFiles /\ SameName(files[f], Written(files[f]))
  BY <1>1, <1>2, <1>3, WrittenFits DEF FittingFiles
<1> QED
  BY <1>4 DEF Follows

\* The event goes to a file that is open already.
LEMMA OpenFileWritten ==
  ASSUME IInv, NEW n \in DOMAIN Streams, NEW i, NEW fault,
         WriteToOpenFile(n, i, fault), UNCHANGED <<run, configured, request>>
  PROVE  Control /\ FileInv' /\ Final
<1> DEFINE f == fileHandlers[Streams[n]][i]
<1>1. CountsGrow
  BY CountsStay DEF WriteToOpenFile
<1>2. CASE Fail /\ UNCHANGED files
  BY <1>1, <1>2, FilesStay, NothingNew, StepEnds DEF Fail
<1>3. CASE dw' = [dw EXCEPT !.doing = "crashed"] /\ UNCHANGED files
  BY <1>1, <1>3, FilesStay, NothingNew, StepGoesOn
<1>4. CASE /\ files[f].isOpen /\ files[f].writing /\ NextStream(n)
           /\ files' = [files EXCEPT ![f] = Written(files[f])]
  <2>0. ~tooLarge(f)
    BY DEF WriteToOpenFile
  <2> HIDE DEF f
  <2>1. f \in DOMAIN files => Follows(files[f], Written(files[f]))
    BY <1>4, <2>0, RoomLeft
  <2>2. AllFollow(files')
    BY <1>4, <2>1, OneFollows
  <2>3. FileInv' /\ Final
    BY <1>1, <2>2, NothingNew
  <2>4. Control
    BY <1>4, StepGoesOn
  <2> QED
    BY <2>3, <2>4
<1>5. ASSUME Fail, files[f].isOpen, NEW torn \in Torn(fault, files[f].format),
             files' = [files EXCEPT ![f].onDisk = @ + torn]
      PROVE  Control /\ FileInv' /\ Final
  <2> HIDE DEF f
  <2> DEFINE onDisk == files[f].onDisk + torn
             g == [files[f] EXCEPT !.onDisk = onDisk]
  <2>1. files' = [files EXCEPT ![f] = g]
    BY <1>5, Zenon
  <2>2. f \in DOMAIN files => Follows(files[f], g)
    <3> SUFFICES ASSUME f \in DOMAIN files PROVE Follows(files[f], g)
      OBVIOUS
    <3>1. files[f] \in FittingFiles /\ files[f].onDisk \in Nat /\ torn \in Nat
      BY <1>5, FilesTyped, TornTyped DEF FittingFiles, Files
    <3>2. onDisk \in Nat
      BY <3>1
    <3> HIDE DEF onDisk
    <3> QED
      BY <1>5, <3>1, <3>2, PlaceFollows DEF Follows
  <2> HIDE DEF g
  <2>3. AllFollow(files')
    BY <2>1, <2>2, OneFollows
  <2> QED
    BY <1>1, <1>5, <2>3, NothingNew, StepEnds DEF Fail
<1> QED
  BY <1>2, <1>3, <1>4, <1>5 DEF WriteToOpenFile

\* One stream's turn with an event.
LEMMA EventWritten ==
  ASSUME IInv, writeEventToStreams
  PROVE  IInv' /\ Final
<1>1. UNCHANGED <<run, configured, request>> /\ dw.doing = "event"
  BY DEF writeEventToStreams
<1>2. PICK n \in DOMAIN Streams, fault \in Faults \cup {"none"} :
        \/ \E victim : StartFaultyFile(n, victim, fault)
        \/ StartFirstFile(n, fault)
        \/ \E i : WriteToOpenFile(n, i, fault)
        \/ \E i : StartNextFile(n, i, fault)
  BY DEF writeEventToStreams
<1>3. Control /\ FileInv' /\ Final
  <2>1. ASSUME NEW victim, StartFaultyFile(n, victim, fault)
        PROVE  Control /\ FileInv' /\ Final
    BY <1>1, <2>1, NewFile DEF StartFaultyFile
  <2>2. ASSUME NEW i, WriteToOpenFile(n, i, fault)
        PROVE  Control /\ FileInv' /\ Final
    BY <1>1, <2>2, OpenFileWritten
  <2>3. ASSUME NEW i, StartNextFile(n, i, fault)
        PROVE  Control /\ FileInv' /\ Final
    <3> DEFINE f == fileHandlers[Streams[n]][i]
    <3>1. CASE /\ files' = FilesAfter({f}, f, fault) /\ UNCHANGED usedCoreFileNames
               /\ Fail
      <4>1. AllFollow(files')
        BY <3>1, ClosingFollows
      <4>2. CountsGrow
        BY <3>1, CountsStay
      <4>3. FileInv' /\ Final
        BY <1>1, <4>1, <4>2, NothingNew
      <4> QED
        BY <3>1, <4>3, StepEnds DEF Fail
    <3>2. CASE newFileHandler(n, RemoveAt(fileHandlers[Streams[n]], i), {f}, f, fault)
      BY <1>1, <3>2, NewFile
    <3> QED
      BY <2>3, <3>1, <3>2 DEF StartNextFile
  <2>4. CASE StartFirstFile(n, fault)
    BY <1>1, <2>4, NewFile DEF StartFirstFile
  <2> QED
    BY <1>2, <2>1, <2>2, <2>3, <2>4
<1>4. ControlInv'
  BY <1>1, <1>3, ControlKept
<1> QED
  BY <1>3, <1>4 DEF IInv

\* Files of a stream are closed, or nothing is done to the files.
LEMMA FilesOnlyChange ==
  ASSUME IInv, Control, UNCHANGED <<run, configured, request, usedCoreFileNames>>,
         AllFollow(files')
  PROVE  IInv' /\ Final
BY ControlKept, CountsStay, NothingNew DEF IInv

\* One stream's turn with the files that are too old.
LEMMA FilesTimedOut ==
  ASSUME IInv, closeTimedOutFiles
  PROVE  IInv' /\ Final
<1>1. UNCHANGED <<run, configured, request, usedCoreFileNames>>
  BY DEF closeTimedOutFiles
<1>2. PICK n, doomed, victim, fault :
        /\ SweepStream(Streams[n], doomed, victim, fault)
        /\ \/ dw' = Idle
           \/ dw' = [dw EXCEPT !.rest = @ \ {n}]
  BY DEF closeTimedOutFiles, Fail
<1>3. AllFollow(files')
  BY <1>2, ClosingFollows DEF SweepStream
<1>4. Control
  BY <1>2, StepEnds, StepGoesOn
<1> QED
  BY <1>1, <1>3, <1>4, FilesOnlyChange

\* One stream's turn with the end of a lumi section.
LEMMA LumiSectionEnded ==
  ASSUME IInv, processEndOfLumiSection
  PROVE  IInv' /\ Final
<1>1. UNCHANGED <<run, configured, request, usedCoreFileNames>>
  BY DEF processEndOfLumiSection
<1> DEFINE doomed(n) == {f \in ToSet(fileHandlers[Streams[n]]) : files[f].lumi = dw.lumi}
           counts(n) == Append(dw.counts, fileCountPerLS[Streams[n]][dw.lumi])
<1>2. PICK n, victim, fault :
        /\ SweepStream(Streams[n], doomed(n), victim, fault)
        /\ \/ dw' = Idle
           \/ dw' = [dw EXCEPT !.rest = @ \ {n}, !.counts = counts(n)]
  BY DEF processEndOfLumiSection, Fail
<1> HIDE DEF doomed, counts
<1>3. AllFollow(files')
  BY <1>2, ClosingFollows DEF SweepStream
<1>4. CASE dw' = [dw EXCEPT !.rest = @ \ {n}, !.counts = counts(n)]
  <2>1. dw \in Tasks
    BY DEF IInv, ControlInv
  <2>2. Control
    BY <1>4, <2>1 DEF Control, Tasks
  <2> QED
    BY <1>1, <1>3, <2>2, FilesOnlyChange
<1>5. CASE dw' = Idle
  BY <1>1, <1>3, <1>5, StepEnds, FilesOnlyChange
<1> QED
  BY <1>2, <1>4, <1>5

\* The streams are made or destroyed.
LEMMA StreamsChanged ==
  ASSUME IInv, checkStreamChangeRequest
  PROVE  IInv' /\ Final
<1>1. /\ dw \in Tasks /\ dw' \in Tasks' /\ dw'.doing # "event"
  BY DEF IInv, ControlInv, checkStreamChangeRequest, Tasks, Idle, AllLumis
<1>2. UNCHANGED run /\ request' = "none" /\ configured' \in BOOLEAN
  BY DEF checkStreamChangeRequest
<1>3. ControlInv'
  BY <1>1, <1>2 DEF IInv, ControlInv
<1>4. AllFollow(files')
  <2>1. CASE request = "destroy"
    <3>1. PICK victim, fault : files' = FilesAfter(AllHandlers, victim, fault)
      BY <2>1 DEF checkStreamChangeRequest, destroyStreams
    <3> QED
      BY <3>1, ClosingFollows
  <2>2. CASE request # "destroy"
    BY <2>2, FilesStay DEF checkStreamChangeRequest
  <2> QED
    BY <2>1, <2>2
<1>5. CASE UNCHANGED usedCoreFileNames
  BY <1>2, <1>3, <1>4, <1>5, CountsStay, NothingNew DEF IInv
<1>6. CASE request = "configure" /\ usedCoreFileNames' = NoCounts /\ UNCHANGED files
  <2>1. \A f \in DOMAIN files : files[f].run <= run /\ files[f].run # run
    BY <1>6 DEF IInv, FileInv, Numbered
  <2>2. \A f \in DOMAIN files' : Numbered(files[f])'
    BY <1>2, <1>6, <2>1 DEF Numbered
  <2>3. usedCoreFileNames' \in [Labels -> [AllLumis -> Nat]]
    BY <1>6 DEF NoCounts, AllLumis
  <2>4. FileInv'
    BY <1>6, <2>2, <2>3 DEF IInv, FileInv, SameName
  <2> QED
    BY <1>3, <1>6, <2>4 DEF IInv, Final
<1> QED
  BY <1>5, <1>6 DEF checkStreamChangeRequest, IInv, ControlInv

\* A message has come, or none before the timeout.
LEMMA MessageTaken ==
  ASSUME IInv, \/ \E n \in DOMAIN Streams :
                    \E T \in TagsOf(n), l \in Lumis, z \in Sizes : takeEvent(T, l, z)
               \/ \E l \in Lumis : takeEndOfLumiSection(l)
               \/ timedOut
               \/ skipFileTimeOuts
  PROVE  IInv' /\ Final
<1>1. UNCHANGED <<run, configured, request, files, usedCoreFileNames>>
  BY DEF takeEvent, takeEndOfLumiSection, timedOut, skipFileTimeOuts
<1>2. dw' \in Tasks' /\ (dw'.doing = "event" => configured)
  <2>1. ASSUME NEW n \in DOMAIN Streams, NEW T \in TagsOf(n), NEW l \in Lumis, NEW z \in Sizes,
               takeEvent(T, l, z)
        PROVE  dw' \in Tasks' /\ configured
    <3>1. T \in SUBSET DOMAIN Streams
      BY DEF TagsOf
    <3> QED
      BY <2>1, <3>1, SizesAssumption DEF takeEvent, Tasks, AllLumis
  <2>2. ASSUME NEW l \in Lumis, takeEndOfLumiSection(l)
        PROVE  dw' \in Tasks' /\ dw'.doing # "event"
    BY <2>2 DEF takeEndOfLumiSection, Tasks, Idle, AllLumis
  <2>3. CASE timedOut
    BY <2>3 DEF timedOut, Tasks, Idle, AllLumis
  <2>4. CASE skipFileTimeOuts
    BY <2>4 DEF skipFileTimeOuts, Tasks, Idle, AllLumis
  <2> QED
    BY <2>1, <2>2, <2>3, <2>4
<1>3. ControlInv'
  BY <1>1, <1>2 DEF IInv, ControlInv
<1>4. FileInv' /\ Final
  BY <1>1, FilesStay, CountsStay, NothingNew
<1> QED
  BY <1>3, <1>4 DEF IInv

\* A file grows old, or the disk loses what it has.
LEMMA FileSpoilt ==
  ASSUME IInv, NEW f \in DOMAIN files,
         becomesTooOld(f) \/ losesData(f, 0) \/ losesData(f, 1)
  PROVE  IInv' /\ Final
<1>1. UNCHANGED <<run, configured, request, usedCoreFileNames, dw>> /\ files[f].isOpen
  BY DEF becomesTooOld, losesData
<1>2. PICK n \in Nat : \/ files' = [files EXCEPT ![f].old = TRUE]
                       \/ files' = [files EXCEPT ![f].onDisk = n]
  BY DEF becomesTooOld, losesData
<1> DEFINE old == [files[f] EXCEPT !.old = TRUE]
           lost == [files[f] EXCEPT !.onDisk = n]
<1>3. files' = [files EXCEPT ![f] = old] \/ files' = [files EXCEPT ![f] = lost]
  BY <1>2, Zenon
<1>4. Follows(files[f], old) /\ Follows(files[f], lost)
  BY <1>1, FilesTyped, PlaceFollows DEF Follows
<1> HIDE DEF old, lost
<1>5. AllFollow(files')
  BY <1>3, <1>4, OneFollows
<1>6. Control
  BY <1>1, StepGoesOn
<1> QED
  BY <1>1, <1>5, <1>6, FilesOnlyChange

\* A run starts, or its streams are to be destroyed.
LEMMA RunChanged ==
  ASSUME IInv, startRun \/ endRun
  PROVE  IInv' /\ Final
<1>1. UNCHANGED <<configured, dw, files, usedCoreFileNames>>
  BY DEF startRun, endRun
<1>2. CASE startRun
  <2>1. run' = run + 1 /\ request' = "configure" /\ ~configured /\ run \in Nat
    BY <1>2 DEF startRun, IInv, ControlInv
  <2>2. ControlInv'
    BY <1>1, <2>1 DEF IInv, ControlInv, Tasks
  <2>3. ASSUME NEW f \in DOMAIN files'
        PROVE  Numbered(files[f])'
    <3>1. files[f].run <= run /\ files[f].run \in Nat
      BY <1>1, <2>3, FilesTyped DEF IInv, FileInv, Numbered, FittingFiles, Files
    <3> QED
      BY <1>1, <2>1, <3>1 DEF Numbered
  <2>4. FileInv'
    BY <1>1, <2>3 DEF IInv, FileInv, SameName
  <2> QED
    BY <1>1, <2>2, <2>4 DEF IInv, Final
<1>3. CASE endRun
  <2>1. request' = "destroy" /\ UNCHANGED run
    BY <1>3 DEF endRun
  <2>2. ControlInv'
    BY <1>1, <2>1 DEF IInv, ControlInv, Tasks
  <2>3. FileInv' /\ Final
    BY <1>1, <2>1, FilesStay, CountsStay, NothingNew
  <2> QED
    BY <2>2, <2>3 DEF IInv
<1> QED
  BY <1>2, <1>3

\* The invariant holds at the start.
LEMMA InitIInv == Init => IInv
<1> SUFFICES ASSUME Init PROVE IInv
  OBVIOUS
<1>1. ControlInv
  BY DEF Init, InitWith, ControlInv, Tasks, Idle, AllLumis
<1>2. files = <<>> /\ usedCoreFileNames = NoCounts
  BY DEF Init, InitWith
<1>3. FileInv
  BY <1>2 DEF FileInv, NoCounts, AllLumis
<1> QED
  BY <1>1, <1>3 DEF IInv

\* Every step keeps the invariant, and the files that were moved.
LEMMA NextIInv == IInv /\ [Next]_vars => IInv' /\ Final
<1> SUFFICES ASSUME IInv, [Next]_vars PROVE IInv' /\ Final
  OBVIOUS
<1>1. CASE writeEventToStreams
  BY <1>1, EventWritten
<1>2. CASE closeTimedOutFiles
  BY <1>2, FilesTimedOut
<1>3. CASE processEndOfLumiSection
  BY <1>3, LumiSectionEnded
<1>4. CASE checkStreamChangeRequest
  BY <1>4, StreamsChanged
<1>5. CASE \/ skipFileTimeOuts \/ timedOut \/ (\E l \in Lumis : takeEndOfLumiSection(l))
           \/ \E n \in DOMAIN Streams :
                \E T \in TagsOf(n), l \in Lumis, z \in Sizes : takeEvent(T, l, z)
  BY <1>5, MessageTaken
<1>6. CASE \E f \in DOMAIN files : becomesTooOld(f) \/ losesData(f, 0) \/ losesData(f, 1)
  BY <1>6, FileSpoilt
<1>7. CASE startRun \/ endRun
  BY <1>7, RunChanged
<1>8. CASE UNCHANGED vars
  <2>1. UNCHANGED <<run, configured, request, dw, files, usedCoreFileNames>>
    BY <1>8 DEF vars
  <2>2. Control
    BY <2>1, StepGoesOn
  <2>3. AllFollow(files')
    BY <2>1, FilesStay
  <2> QED
    BY <2>1, <2>2, <2>3, FilesOnlyChange
<1> QED
  BY <1>1, <1>2, <1>3, <1>4, <1>5, <1>6, <1>7, <1>8 DEF Next, DiskWriter

(***************************************************************************)
(* The invariant of the streams' files: the files of a run have the names  *)
(* that were given out in it, and each of those only once.                 *)
(***************************************************************************)
THEOREM Invariant == Spec => []IInv
<1>1. IInv /\ [Next]_vars => IInv'
  BY NextIInv
<1> QED
  BY InitIInv, <1>1, PTL DEF Spec

(***************************************************************************)
(* No two files of any run have the same name, and no file of events grows *)
(* past maxFileSizeMB by more than one event and the end record.           *)
(***************************************************************************)
THEOREM NamesDiffer == Spec => []FilesDoNotCollide
<1>1. IInv => FilesDoNotCollide
  <2> SUFFICES ASSUME IInv PROVE FilesDoNotCollide
    OBVIOUS
  <2>1. \A f, g \in DOMAIN files : f # g => Name(files[f]) # Name(files[g])
    BY DEF IInv, FileInv, SameName, Name
  <2>2. ASSUME NEW f \in DOMAIN files
        PROVE  files[f].events <= 1 \/ files[f].size <= MaxFileSize + EOFSize
    <3>1. files[f] \in FittingFiles
      BY FilesTyped
    <3>2. /\ files[f].size \in Nat
          /\ files[f].events <= 1 \/ files[f].size <= Limit(files[f])
      BY <3>1 DEF FittingFiles, Files, Fits
    <3>3. Limit(files[f]) \in Nat /\ Limit(files[f]) <= MaxFileSize + EOFSize
      BY SizesAssumption DEF Limit
    <3> QED
      BY <3>2, <3>3, SizesAssumption
  <2> QED
    BY <2>1, <2>2 DEF FilesDoNotCollide
<1> QED
  BY Invariant, <1>1, PTL

(***************************************************************************)
(* Whatever fails: a file that has been moved to the closed area is never  *)
(* touched again, neither by another attempt to close it nor by an event.  *)
(***************************************************************************)
THEOREM MovedAreFinal == Spec => MovedFilesAreFinal
<1>1. IInv /\ [Next]_vars => [\A f \in DOMAIN files : ~files[f].isOpen => files'[f] = files[f]]_vars
  BY NextIInv DEF Final
<1> QED
  BY Invariant, <1>1, PTL DEF Spec, MovedFilesAreFinal

-----------------------------------------------------------------------------
(* Numbers.                                                                *)

Less == {p \in Nat \X Nat : p[1] < p[2]}

\* A set of numbers has a smallest one.
LEMMA LeastNumber ==
  ASSUME NEW S \in SUBSET Nat, S # {}
  PROVE  \E n \in S : \A m \in S : n <= m
<1>1. IsWellFoundedOn(Less, Nat)
  BY NatLessThanWellFounded DEF OpToRel, Less
<1>2. PICK n \in S : \A m \in S : ~(<<m, n>> \in Less)
  BY <1>1, WFMin
<1>3. ASSUME NEW m \in S PROVE n <= m
  <2>1. m \in Nat /\ n \in Nat /\ ~(<<m, n>> \in Less)
    BY <1>2
  <2>2. ~(m < n)
    BY <2>1 DEF Less
  <2> QED
    BY <2>1, <2>2
<1> QED
  BY <1>3

\* What holds of 0, and of n + 1 with n, holds of every number.
LEMMA Induction ==
  ASSUME NEW S, 0 \in S, \A n \in Nat : n \in S => n + 1 \in S
  PROVE  Nat \subseteq S
<1> SUFFICES ASSUME Nat \ S # {} PROVE FALSE
  OBVIOUS
<1>1. PICK n \in Nat \ S : \A m \in Nat \ S : n <= m
  BY LeastNumber
<1>2. n # 0 /\ n - 1 \in Nat /\ n - 1 \notin Nat \ S
  BY <1>1
<1>3. (n - 1) + 1 \in S
  BY <1>2
<1> QED
  BY <1>1, <1>3

-----------------------------------------------------------------------------
(* remove_if.                                                              *)

\* The front of the vector after each handler, up to the one where N comes to.
IsFront(front, N, h, doomed) ==
  front = [n \in 0 .. N |-> IF n = 0 THEN <<>>
                            ELSE IF h[n] \in doomed THEN front[n - 1] ELSE Append(front[n - 1], h[n])]

\* RemoveIf is defined by recursion over the handlers: there is such a function.
LEMMA FrontExists ==
  ASSUME NEW h, NEW doomed, NEW k \in Nat
  PROVE  \E g : IsFront(g, k, h, doomed)
<1> DEFINE Made == {N \in Nat : \E g : IsFront(g, N, h, doomed)}
           F(p, n) == IF h[n] \in doomed THEN p ELSE Append(p, h[n])
<1>1. 0 \in Made
  <2> DEFINE g == [n \in 0 .. 0 |-> <<>>]
  <2>1. \A n \in 0 .. 0 : n = 0
    OBVIOUS
  <2>2. IsFront(g, 0, h, doomed)
    BY <2>1 DEF IsFront
  <2> QED
    BY <2>2
<1>2. ASSUME NEW N \in Nat, N \in Made PROVE N + 1 \in Made
  <2>1. PICK g : g = [n \in 0 .. N |-> IF n = 0 THEN <<>> ELSE F(g[n - 1], n)]
    BY <1>2 DEF IsFront
  <2> DEFINE f == [n \in 0 .. N + 1 |-> IF n = N + 1 THEN F(g[N], N + 1) ELSE g[n]]
  <2> HIDE DEF F
  <2>2. \A n \in 0 .. N + 1 : n # 0 => n - 1 \in 0 .. N + 1 /\ n - 1 # N + 1 /\ f[n - 1] = g[n - 1]
    OBVIOUS
  <2>3. ASSUME NEW n \in 0 .. N + 1 PROVE f[n] = IF n = 0 THEN <<>> ELSE F(f[n - 1], n)
    <3>1. CASE n = N + 1
      <4>1. n # 0 /\ n - 1 = N /\ f[n] = F(g[N], n) /\ f[N] = g[N]
        BY <3>1
      <4> HIDE DEF f
      <4> QED
        BY <4>1
    <3>2. CASE n # N + 1
      <4>1. f[n] = g[n] /\ n \in 0 .. N
        BY <3>2
      <4>2. g[n] = IF n = 0 THEN <<>> ELSE F(g[n - 1], n)
        BY <2>1, <4>1
      <4>3. n # 0 => f[n - 1] = g[n - 1]
        BY <2>2
      <4> HIDE DEF f
      <4> QED
        BY <4>1, <4>2, <4>3
    <3> QED
      BY <3>1, <3>2
  <2>4. f = [n \in 0 .. N + 1 |-> f[n]]
    OBVIOUS
  <2> HIDE DEF f
  <2>5. f = [n \in 0 .. N + 1 |-> IF n = 0 THEN <<>> ELSE F(f[n - 1], n)]
    BY <2>3, <2>4
  <2>6. IsFront(f, N + 1, h, doomed)
    BY <2>5, Zenon DEF IsFront, F
  <2> QED
    BY <2>6
<1> HIDE DEF Made
<1>3. Nat \subseteq Made
  BY <1>1, <1>2, Induction
<1> QED
  BY <1>3 DEF Made

\* RemoveIf in terms of such a function.
LEMMA RemoveIfFront ==
  ASSUME NEW S, NEW h \in Seq(S), NEW doomed, NEW thrower
  PROVE  \E front : /\ IsFront(front, Len(h), h, doomed)
                    /\ RemoveIf(h, doomed, thrower) =
                         IF thrower > Len(h) THEN front[thrower - 1]
                         ELSE front[thrower - 1] \o SubSeq(h, Len(front[thrower - 1]) + 1, Len(h))
<1>1. \E g : IsFront(g, Len(h), h, doomed)
  <2>1. Len(h) \in Nat
    OBVIOUS
  <2> QED
    BY <2>1, FrontExists
<1> DEFINE front[n \in 0 .. Len(h)] ==
             IF n = 0 THEN <<>> ELSE IF h[n] \in doomed THEN front[n - 1] ELSE Append(front[n - 1], h[n])
<1>2. IsFront(front, Len(h), h, doomed)
  BY <1>1, Zenon DEF IsFront
<1>3. RemoveIf(h, doomed, thrower) =
        IF thrower > Len(h) THEN front[thrower - 1]
        ELSE front[thrower - 1] \o SubSeq(h, Len(front[thrower - 1]) + 1, Len(h))
  BY Zenon DEF RemoveIf
<1> HIDE DEF front
<1> QED
  BY <1>2, <1>3

\* r has what is not doomed among the first k of the handlers h.
KeptOf(r, k, S, h, doomed) ==
  /\ r \in Seq(S) /\ Len(r) <= k
  /\ ToSet(r) = {h[m] : m \in {i \in 1 .. k : h[i] \notin doomed}}

\* The front has the handlers so far that are not doomed.
LEMMA FrontKeeps ==
  ASSUME NEW S, NEW h \in Seq(S), NEW doomed, NEW front, IsFront(front, Len(h), h, doomed),
         NEW k \in 0 .. Len(h)
  PROVE  KeptOf(front[k], k, S, h, doomed)
<1> DEFINE P(n) == /\ front[n] \in Seq(S) /\ Len(front[n]) <= n
                   /\ ToSet(front[n]) = {h[m] : m \in {i \in 1 .. n : h[i] \notin doomed}}
           T == {n \in Nat : n <= Len(h) => P(n)}
<1>0. Len(h) \in Nat /\ DOMAIN h = 1 .. Len(h) /\ \A n \in 1 .. Len(h) : h[n] \in S
  OBVIOUS
<1>a. \A n \in 0 .. Len(h) : front[n] = IF n = 0 THEN <<>>
                             ELSE IF h[n] \in doomed THEN front[n - 1] ELSE Append(front[n - 1], h[n])
  BY DEF IsFront
<1>1. 0 \in T
  <2>1. front[0] = <<>>
    BY <1>0, <1>a
  <2>2. P(0)
    BY <2>1, EmptySeq DEF ToSet
  <2> QED
    BY <2>2
<1>2. ASSUME NEW n \in Nat, n \in T PROVE n + 1 \in T
  <2> SUFFICES ASSUME n + 1 <= Len(h) PROVE P(n + 1)
    OBVIOUS
  <2>1. P(n) /\ n + 1 \in 1 .. Len(h) /\ h[n + 1] \in S /\ (n + 1) - 1 = n /\ n + 1 # 0
    BY <1>0, <1>2
  <2>2. front[n + 1] = IF h[n + 1] \in doomed THEN front[n] ELSE Append(front[n], h[n + 1])
    BY <1>0, <1>a, <2>1
  <2>3. {i \in 1 .. n + 1 : h[i] \notin doomed} =
          {i \in 1 .. n : h[i] \notin doomed} \cup (IF h[n + 1] \in doomed THEN {} ELSE {n + 1})
    BY <2>1
  <2>4. CASE h[n + 1] \in doomed
    BY <2>1, <2>2, <2>3, <2>4
  <2>5. CASE h[n + 1] \notin doomed
    <3>1. front[n + 1] = Append(front[n], h[n + 1])
      BY <2>2, <2>5
    <3>2. /\ front[n + 1] \in Seq(S) /\ Len(front[n + 1]) = Len(front[n]) + 1
          /\ ToSet(front[n + 1]) = ToSet(front[n]) \cup {h[n + 1]}
      <4> DEFINE a == front[n]
                 e == h[n + 1]
      <4>1. a \in Seq(S) /\ e \in S /\ front[n + 1] = Append(a, e)
        BY <2>1, <3>1
      <4> HIDE DEF a, e
      <4> DEFINE b == Append(a, e)
      <4>2. /\ b \in Seq(S) /\ Len(b) = Len(a) + 1 /\ b[Len(a) + 1] = e
            /\ \A i \in 1 .. Len(a) : b[i] = a[i]
        BY <4>1, AppendProperties
      <4>3. DOMAIN b = 1 .. Len(a) + 1 /\ DOMAIN a = 1 .. Len(a) /\ Len(a) \in Nat
        BY <4>1, <4>2
      <4> HIDE DEF b
      <4>4. DOMAIN b = DOMAIN a \cup {Len(a) + 1}
        BY <4>3
      <4>5. ToSet(b) = ToSet(a) \cup {e}
        BY <4>2, <4>3, <4>4 DEF ToSet
      <4>6. front[n + 1] = b
        BY <4>1 DEF b
      <4> QED
        BY <4>2, <4>5, <4>6 DEF a, e
    <3> QED
      BY <2>1, <2>3, <2>5, <3>2
  <2> QED
    BY <2>4, <2>5
<1> HIDE DEF T
<1>3. Nat \subseteq T
  BY <1>1, <1>2, Induction
<1>4. k \in T
  BY <1>0, <1>3
<1> HIDE DEF P
<1>5. P(k)
  BY <1>0, <1>4 DEF T
<1> QED
  BY <1>5 DEF P, KeptOf

\* The values of two sequences in a row.
LEMMA ConcatValues ==
  ASSUME NEW S, NEW a \in Seq(S), NEW b \in Seq(S)
  PROVE  /\ a \o b \in Seq(S)
         /\ \A x : x \in ToSet(a \o b) <=> x \in ToSet(a) \/ x \in ToSet(b)
<1> DEFINE c == a \o b
<1>1. /\ c \in Seq(S) /\ Len(c) = Len(a) + Len(b)
      /\ \A i \in 1 .. Len(a) + Len(b) : c[i] = IF i <= Len(a) THEN a[i] ELSE b[i - Len(a)]
  BY ConcatProperties
<1>2. /\ Len(a) \in Nat /\ DOMAIN a = 1 .. Len(a) /\ Len(b) \in Nat /\ DOMAIN b = 1 .. Len(b)
      /\ DOMAIN c = 1 .. Len(a) + Len(b)
  BY <1>1
<1> HIDE DEF c
<1>3. ASSUME NEW i \in DOMAIN c PROVE c[i] \in ToSet(a) \/ c[i] \in ToSet(b)
  <2>1. CASE i <= Len(a)
    BY <1>1, <1>2, <2>1 DEF ToSet
  <2>2. CASE ~(i <= Len(a))
    <3>1. i - Len(a) \in DOMAIN b /\ c[i] = b[i - Len(a)]
      BY <1>1, <1>2, <2>2
    <3> QED
      BY <3>1 DEF ToSet
  <2> QED
    BY <2>1, <2>2
<1>4. ASSUME NEW i \in DOMAIN a PROVE a[i] \in ToSet(c)
  <2>1. i \in DOMAIN c /\ c[i] = a[i]
    BY <1>1, <1>2
  <2> QED
    BY <2>1 DEF ToSet
<1>5. ASSUME NEW i \in DOMAIN b PROVE b[i] \in ToSet(c)
  <2>1. Len(a) + i \in DOMAIN c /\ ~(Len(a) + i <= Len(a)) /\ (Len(a) + i) - Len(a) = i
    BY <1>2
  <2>2. c[Len(a) + i] = b[i]
    BY <1>1, <1>2, <2>1
  <2> QED
    BY <2>1, <2>2 DEF ToSet
<1>6. \A x : x \in ToSet(c) <=> x \in ToSet(a) \/ x \in ToSet(b)
  BY <1>3, <1>4, <1>5 DEF ToSet
<1> QED
  BY <1>1, <1>6 DEF c

\* What is left in the vector: nothing new, and all that is not doomed or comes after the
\* one that throws.
LEMMA RemoveIfKeeps ==
  ASSUME NEW S, NEW h \in Seq(S), NEW doomed, NEW thrower \in 1 .. Len(h) + 1
  PROVE  LET r == RemoveIf(h, doomed, thrower)
         IN /\ r \in Seq(S) /\ ToSet(r) \subseteq ToSet(h)
            /\ \A n \in DOMAIN h : h[n] \notin doomed \/ n >= thrower => h[n] \in ToSet(r)
<1> DEFINE r == RemoveIf(h, doomed, thrower)
<1>0. Len(h) \in Nat /\ DOMAIN h = 1 .. Len(h) /\ thrower - 1 \in 0 .. Len(h) /\ thrower \in Nat
  OBVIOUS
<1>1. PICK front : /\ IsFront(front, Len(h), h, doomed)
                   /\ r = IF thrower > Len(h) THEN front[thrower - 1]
                          ELSE front[thrower - 1] \o SubSeq(h, Len(front[thrower - 1]) + 1, Len(h))
  BY RemoveIfFront
<1> HIDE DEF r
<1> DEFINE kept == front[thrower - 1]
<1>2. /\ kept \in Seq(S) /\ Len(kept) <= thrower - 1
      /\ ToSet(kept) = {h[m] : m \in {i \in 1 .. thrower - 1 : h[i] \notin doomed}}
  <2>1. KeptOf(front[thrower - 1], thrower - 1, S, h, doomed)
    BY <1>0, <1>1, FrontKeeps
  <2> QED
    BY <2>1 DEF KeptOf
<1>3. r = IF thrower > Len(h) THEN kept ELSE kept \o SubSeq(h, Len(kept) + 1, Len(h))
  BY <1>1
<1> HIDE DEF kept
<1>4. CASE thrower > Len(h)
  <2>1. r = kept /\ thrower - 1 = Len(h)
    BY <1>0, <1>3, <1>4
  <2>2. ToSet(r) = {h[m] : m \in {i \in 1 .. Len(h) : h[i] \notin doomed}}
    BY <1>2, <2>1
  <2>3. ToSet(r) \subseteq ToSet(h)
    BY <1>0, <2>2 DEF ToSet
  <2>4. \A n \in DOMAIN h : ~(n >= thrower)
    BY <1>0, <2>1
  <2>5. \A n \in DOMAIN h : h[n] \notin doomed \/ n >= thrower => h[n] \in ToSet(r)
    BY <1>0, <2>2, <2>4
  <2> QED
    BY <1>2, <2>1, <2>3, <2>5 DEF r
<1>5. CASE ~(thrower > Len(h))
  <2> DEFINE rest == SubSeq(h, Len(kept) + 1, Len(h))
             k == Len(kept)
  <2>0. k \in Nat /\ k + 1 <= thrower /\ thrower <= Len(h)
    BY <1>0, <1>2, <1>5
  <2>1. r = kept \o rest
    BY <1>3, <1>5
  <2>2. /\ rest \in Seq(S) /\ Len(rest) = Len(h) - k
        /\ \A i \in 1 .. Len(h) - k : rest[i] = h[k + i]
    BY <1>0, <2>0, SubSeqProperties
  <2> HIDE DEF rest, k
  <2>3. /\ r \in Seq(S)
        /\ \A x : x \in ToSet(r) <=> x \in ToSet(kept) \/ x \in ToSet(rest)
    <3>1. /\ kept \o rest \in Seq(S)
          /\ \A x : x \in ToSet(kept \o rest) <=> x \in ToSet(kept) \/ x \in ToSet(rest)
      BY <1>2, <2>2, ConcatValues
    <3> QED
      BY <2>1, <3>1
  <2>5. ToSet(kept) \subseteq ToSet(h)
    <3>1. \A m \in 1 .. thrower - 1 : m \in DOMAIN h
      BY <1>0, <2>0
    <3> QED
      BY <1>2, <3>1 DEF ToSet
  <2>6. ToSet(rest) \subseteq ToSet(h)
    <3>1. \A i \in 1 .. Len(h) - k : k + i \in DOMAIN h
      BY <1>0, <2>0
    <3>2. DOMAIN rest = 1 .. Len(h) - k
      BY <2>2
    <3> QED
      BY <2>2, <3>1, <3>2 DEF ToSet
  <2>7. ASSUME NEW n \in DOMAIN h, h[n] \notin doomed \/ n >= thrower
        PROVE  h[n] \in ToSet(r)
    <3>1. CASE n < thrower
      <4>1. n \in 1 .. thrower - 1 /\ h[n] \notin doomed
        BY <1>0, <2>7, <3>1
      <4>2. h[n] \in ToSet(kept)
        BY <1>2, <4>1
      <4> QED
        BY <2>3, <4>2
    <3>2. CASE ~(n < thrower)
      <4> DEFINE i == n - k
      <4>1. i \in 1 .. Len(h) - k /\ k + i = n
        BY <1>0, <2>0, <3>2
      <4> HIDE DEF i
      <4>2. rest[i] = h[n] /\ i \in DOMAIN rest
        BY <2>2, <4>1
      <4>3. h[n] \in ToSet(rest)
        BY <4>2 DEF ToSet
      <4> QED
        BY <2>3, <4>3
    <3> QED
      BY <3>1, <3>2
  <2>8. ToSet(r) \subseteq ToSet(h)
    BY <2>3, <2>5, <2>6
  <2> QED
    BY <2>3, <2>7, <2>8 DEF r
<1> QED
  BY <1>4, <1>5

-----------------------------------------------------------------------------
(* What becomes of a file that is closed.                                  *)

\* A file that is open has not been told of as closed.
Told(f) == f.isOpen => f.status # "closed"

\* A file on a disk that is fine.
FineFile(f) ==
  /\ f.onDisk = f.size
  /\ f.isOpen => f.writing
  /\ f.isOpen \/ f.status = "closed"

\* Stopping the writer leaves the file where it is, and the disk with all of it.
LEMMA StoppedPlace ==
  ASSUME NEW f \in FittingFiles
  PROVE  /\ Stopped(f).isOpen = f.isOpen /\ Stopped(f).status = f.status /\ Stopped(f).made = f.made
         /\ f.onDisk = f.size => Stopped(f).onDisk = Stopped(f).size
<1> DEFINE grown == IF f.writing /\ f.format = "event" THEN EOFSize ELSE 0
           size == f.size + grown
           onDisk == f.onDisk + grown
           g1 == [f EXCEPT !.writing = FALSE]
           g2 == [g1 EXCEPT !.size = size]
           g3 == [g2 EXCEPT !.onDisk = onDisk]
<1>1. f \in Files
  BY DEF FittingFiles
<1>2. Stopped(f) = g3
  BY Zenon DEF Stopped
<1>3. f.onDisk = f.size => onDisk = size
  OBVIOUS
<1> HIDE DEF size, onDisk
<1>4. /\ DOMAIN g1 = DOMAIN f /\ g1.isOpen = f.isOpen /\ g1.status = f.status /\ g1.made = f.made
  BY <1>1 DEF Files
<1>5. "size" \in DOMAIN f /\ "onDisk" \in DOMAIN f
  BY <1>1 DEF Files
<1> HIDE DEF g1
<1>6. /\ DOMAIN g2 = DOMAIN f /\ g2.isOpen = f.isOpen /\ g2.status = f.status /\ g2.size = size
      /\ g2.made = f.made
  BY <1>4, <1>5
<1> HIDE DEF g2
<1>7. /\ g3.isOpen = f.isOpen /\ g3.status = f.status /\ g3.size = size /\ g3.onDisk = onDisk
      /\ g3.made = f.made
  BY <1>5, <1>6
<1> HIDE DEF g3
<1> QED
  BY <1>2, <1>3, <1>7

\* Sizes that agree do not mismatch.
LEMMA SameSizes ==
  ASSUME NEW n \in Nat
  PROVE  ~sizeMismatch(n, n)
<1>1. calcPctDiff(n, n) = IF n > 0 THEN (n - n) \div n ELSE 0
  BY DEF calcPctDiff
<1>2. n > 0 => (n - n) \div n = 0
  OBVIOUS
<1>3. calcPctDiff(n, n) = 0
  BY <1>1, <1>2
<1> QED
  BY <1>3, SizesAssumption DEF sizeMismatch

\* Closing a file that does not throw leaves it closed, and one that is still open is not told
\* of as closed.
LEMMA ClosedOrTold ==
  ASSUME NEW f \in FittingFiles, Told(f), NEW fault
  PROVE  /\ Told(closeFile(f, fault)) /\ closeFile(f, fault).made = f.made
         /\ ~Throws(f, fault) => ~closeFile(f, fault).isOpen
<1> DEFINE s == Stopped(f)
           moved == [s EXCEPT !.isOpen = FALSE]
           closed == [moved EXCEPT !.status = "closed"]
           c == closeFile(f, fault)
<1>1. CASE ~f.isOpen
  BY <1>1 DEF closeFile
<1>2. CASE f.isOpen
  <2>1. s \in FittingFiles /\ s.isOpen /\ s.status # "closed" /\ s.made = f.made
    BY <1>2, StoppedPlace, StoppedFollows DEF Told
  <2>2. c = s \/ c = moved \/ c = closed
    <3>1. c = moveFileToClosed(s, fault)
      BY <1>2 DEF closeFile
    <3> HIDE DEF s, c
    <3>2. CASE sizeMismatch(s.size, s.onDisk) \/ fault = "move"
      BY <3>1, <3>2 DEF moveFileToClosed
    <3>3. CASE ~(sizeMismatch(s.size, s.onDisk) \/ fault = "move") /\ fault = "check"
      <4> HIDE DEF moved
      <4> QED
        BY <3>1, <3>3 DEF moveFileToClosed, moved
    <3>4. CASE ~(sizeMismatch(s.size, s.onDisk) \/ fault = "move") /\ fault # "check"
      BY <3>1, <3>4 DEF moveFileToClosed
    <3> QED
      BY <3>2, <3>3, <3>4
  <2> HIDE DEF s
  <2>3. ~moved.isOpen /\ ~closed.isOpen /\ moved.made = f.made /\ closed.made = f.made
    BY <2>1 DEF FittingFiles, Files
  <2>4. ~Throws(f, fault) => c.status = "closed"
    BY <1>2 DEF Throws
  <2> HIDE DEF c, moved, closed
  <2>5. Told(c) /\ (c.status = "closed" => ~c.isOpen) /\ c.made = f.made
    BY <2>1, <2>2, <2>3 DEF Told
  <2> QED
    BY <2>4, <2>5 DEF c
<1> QED
  BY <1>1, <1>2

\* On a disk that is fine a file is closed.
LEMMA FineCloses ==
  ASSUME NEW f \in FittingFiles, Told(f), FineFile(f)
  PROVE  /\ FineFile(closeFile(f, "none")) /\ ~closeFile(f, "none").isOpen
         /\ ~Throws(f, "none")
<1> DEFINE s == Stopped(f)
           moved == [s EXCEPT !.isOpen = FALSE]
           closed == [moved EXCEPT !.status = "closed"]
           c == closeFile(f, "none")
<1>1. CASE ~f.isOpen
  BY <1>1 DEF closeFile, Throws
<1>2. CASE f.isOpen
  <2>1. s \in FittingFiles /\ s.onDisk = s.size
    BY StoppedPlace, StoppedFollows DEF FineFile
  <2>2. s \in Files /\ s.size \in Nat
    BY <2>1 DEF FittingFiles, Files
  <2>3. ~sizeMismatch(s.size, s.onDisk)
    BY <2>1, <2>2, SameSizes
  <2>4. c = closed
    BY <1>2, <2>3 DEF closeFile, moveFileToClosed
  <2> HIDE DEF s, c
  <2>5. /\ DOMAIN moved = DOMAIN s /\ moved.onDisk = s.onDisk /\ moved.size = s.size /\ ~moved.isOpen
    BY <2>2 DEF Files
  <2>6. "status" \in DOMAIN s
    BY <2>2 DEF Files
  <2> HIDE DEF moved
  <2>7. closed.onDisk = s.onDisk /\ closed.size = s.size /\ ~closed.isOpen /\ closed.status = "closed"
    BY <2>5, <2>6
  <2> HIDE DEF closed
  <2>8. FineFile(c) /\ ~c.isOpen /\ c.status = "closed"
    BY <2>1, <2>4, <2>7 DEF FineFile
  <2> QED
    BY <2>8 DEF c, Throws
<1> QED
  BY <1>1, <1>2

-----------------------------------------------------------------------------
(* The files of the streams.                                               *)

Budgets ==
  [runs : Int, events : Int, eols : Int, ages : Int, faults : Int, losses : Int,
   diskIsFine : BOOLEAN]

HandlersKnown ==
  /\ fileHandlers \in [Labels -> Seq(DOMAIN files)]
  /\ \A s \in Labels : \A f \in ToSet(fileHandlers[s]) : files[f].stream = s
  /\ ~configured => \A s \in Labels : fileHandlers[s] = <<>>
StatusTold == \A f \in DOMAIN files : Told(files[f])
DiskFine ==
  left.diskIsFine =>
    /\ dw.doing # "crashed"
    /\ \A f \in DOMAIN files : /\ FineFile(files[f])
                               /\ files[f].isOpen => f \in ToSet(fileHandlers[files[f].stream])

\* The second part of the inductive invariant: what the streams know of their files.
KInv ==
  left \in Budgets /\ HandlersKnown /\ StatusTold /\ OpenFilesStayKnown /\ DiskFine

\* What a step makes of the files that there are, and the handlers that are left of them.
Handled(after, hs) ==
  /\ AllFollow(after)
  /\ \A f \in DOMAIN files : Told(after[f]) /\ after[f].made = files[f].made
  /\ hs \in [Labels -> Seq(DOMAIN files)]
  /\ \A s \in Labels :
       /\ ToSet(hs[s]) \subseteq ToSet(fileHandlers[s])
       /\ Kind[s] # "faulty" => \A f \in ToSet(fileHandlers[s]) : after[f].isOpen => f \in ToSet(hs[s])

\* The same on a disk that is fine.
HandledWell(after, hs) ==
  /\ \A f \in DOMAIN files : FineFile(after[f])
  /\ \A s \in Labels : \A f \in ToSet(fileHandlers[s]) : after[f].isOpen => f \in ToSet(hs[s])

\* The disk is as it was, or has failed.
DiskStays == left' \in Budgets /\ (left'.diskIsFine => left.diskIsFine)

\* The handlers of a stream are of files of that stream.
LEMMA KnownFiles ==
  ASSUME IInv, KInv
  PROVE  \A s \in Labels : \A f \in ToSet(fileHandlers[s]) :
           f \in DOMAIN files /\ files[f].stream = s
<1>1. fileHandlers \in [Labels -> Seq(DOMAIN files)]
  BY DEF KInv, HandlersKnown
<1>2. ASSUME NEW s \in Labels, NEW f \in ToSet(fileHandlers[s]) PROVE f \in DOMAIN files
  BY <1>1, <1>2 DEF ToSet
<1> QED
  BY <1>2 DEF KInv, HandlersKnown

\* A file that could not be made.
Unmade(f) == ~f.made /\ f.events = 0

\* An open file of this run stays with its stream, unless it never was.
LEMMA OpenStays ==
  ASSUME IInv, KInv, NEW after, NEW hs, Handled(after, hs), NEW f \in DOMAIN files,
         after[f].isOpen
  PROVE  /\ after[f].stream = files[f].stream /\ after[f].run = files[f].run
         /\ files[f].isOpen /\ files[f].stream \in Labels
         /\ configured /\ files[f].run = run /\ Kind[files[f].stream] # "faulty" =>
              f \in ToSet(hs[files[f].stream]) \/ (Unmade(after[f]) /\ failed)
<1>1. Follows(files[f], after[f]) /\ files[f] \in FittingFiles
  BY FilesTyped DEF Handled, AllFollow
<1>2. files[f].isOpen /\ SameName(files[f], after[f])
  BY <1>1 DEF Follows
<1>3. files[f].stream \in Labels
  BY <1>1 DEF FittingFiles, Files
<1>4. ASSUME configured, files[f].run = run, Kind[files[f].stream] # "faulty"
      PROVE  f \in ToSet(hs[files[f].stream]) \/ (Unmade(after[f]) /\ failed)
  <2>1. f \in ToSet(fileHandlers[files[f].stream]) \/ (~files[f].made /\ failed)
    BY <1>2, <1>4 DEF KInv, OpenFilesStayKnown
  <2>2. CASE f \in ToSet(fileHandlers[files[f].stream])
    BY <1>3, <1>4, <2>2 DEF Handled
  <2>3. CASE ~files[f].made /\ failed
    <3>1. ~after[f].made /\ after[f] \in FittingFiles
      BY <1>1, <2>3 DEF Handled, Follows
    <3> QED
      BY <2>3, <3>1 DEF Unmade, FittingFiles, Fits
  <2> QED
    BY <2>1, <2>2, <2>3
<1> QED
  BY <1>2, <1>3, <1>4 DEF SameName

\* So does an open file on a disk that is fine.
LEMMA OpenStaysWell ==
  ASSUME IInv, KInv, NEW after, NEW hs, Handled(after, hs), HandledWell(after, hs),
         left.diskIsFine, NEW f \in DOMAIN files
  PROVE  /\ FineFile(after[f])
         /\ after[f].isOpen => f \in ToSet(hs[after[f].stream])
<1>1. ASSUME after[f].isOpen PROVE f \in ToSet(hs[after[f].stream])
  <2>1. after[f].stream = files[f].stream /\ files[f].isOpen /\ files[f].stream \in Labels
    BY <1>1, OpenStays
  <2>2. f \in ToSet(fileHandlers[files[f].stream])
    BY <2>1 DEF KInv, DiskFine
  <2> QED
    BY <1>1, <2>1, <2>2 DEF HandledWell
<1> QED
  BY <1>1 DEF HandledWell

\* A step that opens no file.
LEMMA NothingOpened ==
  ASSUME IInv, KInv, DiskStays, failed => failed', Handled(files', fileHandlers'),
         left'.diskIsFine => dw'.doing # "crashed" /\ HandledWell(files', fileHandlers'),
         configured' => (configured /\ run' = run) \/ \A f \in DOMAIN files : files[f].run # run',
         ~configured' => \A s \in Labels : fileHandlers'[s] = <<>>
  PROVE  KInv'
<1>1. DOMAIN files' = DOMAIN files /\ \A f \in DOMAIN files : Follows(files[f], files'[f])
  BY DEF Handled, AllFollow
<1>2. HandlersKnown'
  <2>1. ASSUME NEW s \in Labels, NEW f \in ToSet(fileHandlers'[s]) PROVE files'[f].stream = s
    <3>1. f \in ToSet(fileHandlers[s])
      BY <2>1 DEF Handled
    <3>2. f \in DOMAIN files /\ files[f].stream = s
      BY <3>1, KnownFiles
    <3> QED
      BY <1>1, <3>2 DEF Follows, SameName
  <2>2. fileHandlers' \in [Labels -> Seq(DOMAIN files')]
    BY <1>1 DEF Handled
  <2> QED
    BY <2>1, <2>2 DEF HandlersKnown, ToSet
<1>3. StatusTold'
  <2>1. \A f \in DOMAIN files' : Told(files'[f])
    BY <1>1 DEF Handled
  <2> QED
    BY <2>1 DEF StatusTold, Told
<1>4. OpenFilesStayKnown'
  <2>1. ASSUME NEW f \in DOMAIN files', configured', files'[f].run = run', files'[f].isOpen,
               Kind[files'[f].stream] # "faulty"
        PROVE  \/ f \in ToSet(fileHandlers'[files'[f].stream])
               \/ Unmade(files'[f]) /\ failed'
    <3>1. f \in DOMAIN files
      BY <1>1, <2>1
    <3>2. /\ files'[f].stream = files[f].stream /\ files'[f].run = files[f].run
          /\ configured /\ files[f].run = run /\ Kind[files[f].stream] # "faulty" =>
               f \in ToSet(fileHandlers'[files[f].stream]) \/ (Unmade(files'[f]) /\ failed)
      BY <2>1, <3>1, OpenStays
    <3>3. configured /\ run' = run
      BY <2>1, <3>1, <3>2
    <3> QED
      BY <2>1, <3>2, <3>3
  <2> QED
    BY <2>1 DEF OpenFilesStayKnown, ToSet, Unmade
<1>5. DiskFine'
  <2>1. ASSUME left'.diskIsFine
        PROVE  /\ dw'.doing # "crashed"
               /\ \A f \in DOMAIN files' :
                    /\ FineFile(files'[f])
                    /\ files'[f].isOpen => f \in ToSet(fileHandlers'[files'[f].stream])
    BY <1>1, <2>1, OpenStaysWell DEF DiskStays
  <2> QED
    BY <2>1 DEF DiskFine, FineFile, ToSet
<1> QED
  BY <1>2, <1>3, <1>4, <1>5 DEF KInv, DiskStays, Budgets

\* A step that makes a file, which its stream has unless it could not be made after all.
LEMMA OneOpened ==
  ASSUME IInv, KInv, DiskStays, failed => failed', NEW after, NEW hs, Handled(after, hs),
         left'.diskIsFine => dw'.doing # "crashed" /\ HandledWell(after, hs),
         NEW s \in Labels, NEW new, new.stream = s, new.isOpen, new.status # "closed",
         files' = Append(after, new),
         \/ /\ fileHandlers' = [hs EXCEPT ![s] = Append(hs[s], Len(files) + 1)]
            /\ left'.diskIsFine => FineFile(new)
         \/ /\ fileHandlers' = hs
            /\ Unmade(new) /\ failed' /\ ~left'.diskIsFine,
         configured, configured', run' = run
  PROVE  KInv'
<1> DEFINE last == Len(files) + 1
           longer == Append(hs[s], last)
<1>0. hs \in [Labels -> Seq(DOMAIN files)] /\ AllFollow(after)
  BY DEF Handled
<1>1. /\ Len(files) \in Nat /\ DOMAIN files = 1 .. Len(files)
      /\ after \in Seq(FittingFiles) /\ Len(after) = Len(files)
      /\ DOMAIN after = DOMAIN files
  BY <1>0, FilesTyped, FollowSequence DEF AllFollow
<1>2. /\ DOMAIN files' = DOMAIN files \cup {last} /\ last \notin DOMAIN files
      /\ files'[last] = new /\ \A f \in DOMAIN files : files'[f] = after[f]
  BY <1>1
<1>3. /\ longer \in Seq(DOMAIN files')
      /\ ToSet(longer) = ToSet(hs[s]) \cup {last}
  <2> DEFINE a == hs[s]
  <2>1. a \in Seq(DOMAIN files) /\ last \in DOMAIN files'
    BY <1>0, <1>2
  <2> HIDE DEF a, last
  <2>2. a \in Seq(DOMAIN files')
    BY <1>2, <2>1
  <2> DEFINE b == Append(a, last)
  <2>3. /\ b \in Seq(DOMAIN files') /\ Len(b) = Len(a) + 1 /\ b[Len(a) + 1] = last
        /\ \A i \in 1 .. Len(a) : b[i] = a[i]
    BY <2>1, <2>2, AppendProperties
  <2>4. DOMAIN b = 1 .. Len(a) + 1 /\ DOMAIN a = 1 .. Len(a) /\ Len(a) \in Nat
    BY <2>1, <2>3
  <2> HIDE DEF b
  <2>5. DOMAIN b = DOMAIN a \cup {Len(a) + 1}
    BY <2>4
  <2>6. ToSet(b) = ToSet(a) \cup {last}
    BY <2>3, <2>4, <2>5 DEF ToSet
  <2> QED
    BY <2>3, <2>6 DEF a, b, last
<1> HIDE DEF last, longer
<1>4. \A r \in Labels : hs[r] \in Seq(DOMAIN files')
  BY <1>0, <1>2
<1>5. /\ fileHandlers' \in [Labels -> Seq(DOMAIN files')]
      /\ \A r \in Labels :
           /\ ToSet(hs[r]) \subseteq ToSet(fileHandlers'[r])
           /\ ToSet(fileHandlers'[r]) \subseteq ToSet(hs[r]) \cup (IF r = s THEN {last} ELSE {})
      /\ \/ last \in ToSet(fileHandlers'[s]) /\ (left'.diskIsFine => FineFile(new))
         \/ Unmade(new) /\ failed' /\ ~left'.diskIsFine
  <2>1. CASE /\ fileHandlers' = [hs EXCEPT ![s] = Append(hs[s], Len(files) + 1)]
             /\ left'.diskIsFine => FineFile(new)
    <3>1. fileHandlers' = [hs EXCEPT ![s] = longer]
      BY <2>1 DEF longer, last
    <3>2. \A r \in Labels : fileHandlers'[r] = IF r = s THEN longer ELSE hs[r]
      BY <1>0, <3>1
    <3>3. DOMAIN fileHandlers' = Labels /\ fileHandlers' = [r \in Labels |-> fileHandlers'[r]]
      BY <1>0, <3>1
    <3>4. fileHandlers' \in [Labels -> Seq(DOMAIN files')]
      BY <1>3, <1>4, <3>2, <3>3
    <3> QED
      BY <1>3, <2>1, <3>2, <3>4
  <2>2. CASE fileHandlers' = hs /\ Unmade(new) /\ failed' /\ ~left'.diskIsFine
    <3>1. fileHandlers' \in [Labels -> Seq(DOMAIN files')]
      BY <1>0, <1>4, <2>2
    <3> QED
      BY <2>2, <3>1
  <2> QED
    BY <2>1, <2>2
<1>6. \A f \in DOMAIN files : Follows(files[f], after[f])
  BY <1>0 DEF AllFollow
<1>7. HandlersKnown'
  <2>1. ASSUME NEW r \in Labels, NEW f \in ToSet(fileHandlers'[r]) PROVE files'[f].stream = r
    <3>1. CASE f \in ToSet(hs[r])
      <4>1. f \in ToSet(fileHandlers[r])
        BY <3>1 DEF Handled
      <4>2. f \in DOMAIN files /\ files[f].stream = r
        BY <4>1, KnownFiles
      <4> QED
        BY <1>2, <1>6, <4>2 DEF Follows, SameName
    <3>2. CASE r = s /\ f = last
      BY <1>2, <3>2
    <3> QED
      BY <1>5, <2>1, <3>1, <3>2
  <2> QED
    BY <1>5, <2>1 DEF HandlersKnown, ToSet
<1>8. StatusTold'
  <2>1. \A f \in DOMAIN files' : Told(files'[f])
    BY <1>2 DEF Handled, Told
  <2> QED
    BY <2>1 DEF StatusTold, Told
<1>9. OpenFilesStayKnown'
  <2>1. ASSUME NEW f \in DOMAIN files', configured', files'[f].run = run', files'[f].isOpen,
               Kind[files'[f].stream] # "faulty"
        PROVE  \/ f \in ToSet(fileHandlers'[files'[f].stream])
               \/ Unmade(files'[f]) /\ failed'
    <3>1. CASE f = last
      BY <1>2, <1>5, <3>1
    <3>2. CASE f \in DOMAIN files
      <4>1. files'[f] = after[f]
        BY <1>2, <3>2
      <4>2. /\ after[f].stream = files[f].stream /\ after[f].run = files[f].run
            /\ files[f].stream \in Labels
            /\ configured /\ files[f].run = run /\ Kind[files[f].stream] # "faulty" =>
                 f \in ToSet(hs[files[f].stream]) \/ (Unmade(after[f]) /\ failed)
        BY <2>1, <3>2, <4>1, OpenStays
      <4> QED
        BY <1>5, <2>1, <4>1, <4>2
    <3> QED
      BY <1>2, <2>1, <3>1, <3>2
  <2> QED
    BY <2>1 DEF OpenFilesStayKnown, ToSet, Unmade
<1>10. DiskFine'
  <2>1. ASSUME left'.diskIsFine, NEW f \in DOMAIN files'
        PROVE  /\ FineFile(files'[f])
               /\ files'[f].isOpen => f \in ToSet(fileHandlers'[files'[f].stream])
    <3>1. CASE f = last
      BY <1>2, <1>5, <2>1, <3>1
    <3>2. CASE f \in DOMAIN files
      <4>1. FineFile(after[f]) /\ (after[f].isOpen => f \in ToSet(hs[after[f].stream]))
        BY <2>1, <3>2, OpenStaysWell DEF DiskStays
      <4>2. after[f].stream \in Labels /\ files'[f] = after[f]
        BY <1>2, <1>6, <3>2 DEF Follows, FittingFiles, Files
      <4> QED
        BY <1>5, <4>1, <4>2
    <3> QED
      BY <1>2, <2>1, <3>1, <3>2
  <2> QED
    BY <2>1 DEF DiskFine, FineFile, ToSet
<1> QED
  BY <1>7, <1>8, <1>9, <1>10 DEF KInv, DiskStays, Budgets

-----------------------------------------------------------------------------
(* Files are closed.                                                       *)

\* A fault is not to happen on a disk that is fine.
LEMMA SpentStays ==
  ASSUME KInv, NEW fault, left' = Spent(fault)
  PROVE  DiskStays /\ (left'.diskIsFine => fault = "none")
<1>1. left \in Budgets
  BY DEF KInv
<1>2. CASE fault = "none"
  BY <1>1, <1>2 DEF Spent, DiskStays
<1>3. CASE fault # "none"
  <2> DEFINE a == [left EXCEPT !.faults = left.faults - 1]
             b == [a EXCEPT !.diskIsFine = FALSE]
  <2>1. left' = b
    BY <1>3, Zenon DEF Spent
  <2>2. a \in Budgets
    BY <1>1 DEF Budgets
  <2> HIDE DEF a
  <2>3. b \in Budgets /\ ~b.diskIsFine
    BY <2>2 DEF Budgets
  <2> HIDE DEF b
  <2> QED
    BY <2>1, <2>3 DEF DiskStays
<1> QED
  BY <1>2, <1>3

\* Whatever is closed: what is still open is told of as open.
LEMMA AfterClosing ==
  ASSUME IInv, KInv, NEW closing, NEW victim, NEW fault, NEW f \in DOMAIN files
  PROVE  LET after == FilesAfter(closing, victim, fault)
         IN /\ Told(after[f]) /\ after[f].made = files[f].made
            /\ f \in closing /\ ~Throws(files[f], FaultOf(f, victim, fault)) => ~after[f].isOpen
<1>1. files[f] \in FittingFiles /\ Told(files[f])
  BY FilesTyped DEF KInv, StatusTold
<1>2. FilesAfter(closing, victim, fault)[f] =
        IF f \in closing THEN closeFile(files[f], FaultOf(f, victim, fault)) ELSE files[f]
  BY DEF FilesAfter
<1>3. /\ Told(closeFile(files[f], FaultOf(f, victim, fault)))
      /\ closeFile(files[f], FaultOf(f, victim, fault)).made = files[f].made
      /\ ~Throws(files[f], FaultOf(f, victim, fault)) =>
           ~closeFile(files[f], FaultOf(f, victim, fault)).isOpen
  BY <1>1, ClosedOrTold
<1> QED
  BY <1>1, <1>2, <1>3

\* On a disk that is fine what is closed is closed.
LEMMA AfterClosingWell ==
  ASSUME IInv, KInv, left.diskIsFine, NEW closing, NEW victim, NEW f \in DOMAIN files
  PROVE  LET after == FilesAfter(closing, victim, "none")
         IN FineFile(after[f]) /\ (f \in closing => ~after[f].isOpen)
<1>1. files[f] \in FittingFiles /\ Told(files[f]) /\ FineFile(files[f])
  BY FilesTyped DEF KInv, StatusTold, DiskFine
<1>2. FaultOf(f, victim, "none") = "none"
  BY DEF FaultOf
<1>3. FilesAfter(closing, victim, "none")[f] =
        IF f \in closing THEN closeFile(files[f], "none") ELSE files[f]
  BY <1>2 DEF FilesAfter
<1>4. FineFile(closeFile(files[f], "none")) /\ ~closeFile(files[f], "none").isOpen
  BY <1>1, FineCloses
<1> QED
  BY <1>1, <1>3, <1>4

\* Files are closed and all handlers kept.
LEMMA ClosedAndKept ==
  ASSUME IInv, KInv, NEW closing, NEW victim, NEW fault
  PROVE  LET after == FilesAfter(closing, victim, fault)
         IN /\ Handled(after, fileHandlers)
            /\ left.diskIsFine /\ fault = "none" => HandledWell(after, fileHandlers)
<1> DEFINE after == FilesAfter(closing, victim, fault)
<1>1. AllFollow(after)
  BY ClosingFollows
<1>2. \A f \in DOMAIN files : Told(after[f]) /\ after[f].made = files[f].made
  BY AfterClosing
<1>3. fileHandlers \in [Labels -> Seq(DOMAIN files)]
  BY DEF KInv, HandlersKnown
<1>4. ASSUME left.diskIsFine, fault = "none" PROVE \A f \in DOMAIN files : FineFile(after[f])
  BY <1>4, AfterClosingWell
<1> HIDE DEF after
<1> QED
  BY <1>1, <1>2, <1>3, <1>4 DEF Handled, HandledWell, after

\* Some of the files of one stream are closed, and some of its handlers are left.
LEMMA ClosedAndLeft ==
  ASSUME IInv, KInv, NEW s \in Labels, NEW closing, NEW victim, NEW fault,
         NEW kept \in Seq(DOMAIN files), ToSet(kept) \subseteq ToSet(fileHandlers[s]),
         \/ \A f \in ToSet(fileHandlers[s]) : f \in ToSet(kept) \/
              (f \in closing /\ ~Throws(files[f], FaultOf(f, victim, fault)))
         \/ Kind[s] = "faulty" /\ closing = ToSet(fileHandlers[s])
  PROVE  LET after == FilesAfter(closing, victim, fault)
             hs == [fileHandlers EXCEPT ![s] = kept]
         IN /\ Handled(after, hs)
            /\ left.diskIsFine /\ fault = "none" => HandledWell(after, hs)
<1> DEFINE after == FilesAfter(closing, victim, fault)
           hs == [fileHandlers EXCEPT ![s] = kept]
<1>1. AllFollow(after)
  BY ClosingFollows
<1>2. /\ \A f \in DOMAIN files : Told(after[f]) /\ after[f].made = files[f].made
      /\ \A f \in DOMAIN files :
           f \in closing /\ ~Throws(files[f], FaultOf(f, victim, fault)) => ~after[f].isOpen
  BY AfterClosing
<1>3. ASSUME left.diskIsFine, fault = "none"
      PROVE  \A f \in DOMAIN files : FineFile(after[f]) /\ (f \in closing => ~after[f].isOpen)
  BY <1>3, AfterClosingWell
<1>4. /\ hs \in [Labels -> Seq(DOMAIN files)]
      /\ \A r \in Labels : hs[r] = IF r = s THEN kept ELSE fileHandlers[r]
  BY DEF KInv, HandlersKnown
<1> HIDE DEF after, hs
<1>5. \A r \in Labels : ToSet(hs[r]) \subseteq ToSet(fileHandlers[r])
  BY <1>4
<1>6. \A f \in ToSet(fileHandlers[s]) : f \in DOMAIN files
  BY KnownFiles
<1>7. ASSUME NEW r \in Labels, NEW f \in ToSet(fileHandlers[r]), after[f].isOpen,
             Kind[r] # "faulty" \/ (left.diskIsFine /\ fault = "none")
      PROVE  f \in ToSet(hs[r])
  BY <1>2, <1>3, <1>4, <1>6, <1>7
<1>8. Handled(after, hs)
  BY <1>1, <1>2, <1>4, <1>5, <1>7 DEF Handled
<1>9. left.diskIsFine /\ fault = "none" => HandledWell(after, hs)
  BY <1>3, <1>7 DEF HandledWell
<1> QED
  BY <1>8, <1>9 DEF after, hs

\* The first of the doomed files that throws: those before it are closed.
LEMMA ThrowerIsFirst ==
  ASSUME NEW S, NEW h \in Seq(S), NEW doomed, NEW victim, NEW fault
  PROVE  LET t == FirstToThrow(h, doomed, victim, fault)
         IN /\ t \in 1 .. Len(h) + 1
            /\ \A n \in DOMAIN h : n < t /\ h[n] \in doomed =>
                 ~Throws(files[h[n]], FaultOf(h[n], victim, fault))
<1> DEFINE throwing == {n \in DOMAIN h :
             h[n] \in doomed /\ Throws(files[h[n]], FaultOf(h[n], victim, fault))}
           t == FirstToThrow(h, doomed, victim, fault)
<1>1. Len(h) \in Nat /\ DOMAIN h = 1 .. Len(h)
  OBVIOUS
<1>2. t = IF throwing = {} THEN Len(h) + 1 ELSE CHOOSE n \in throwing : \A m \in throwing : n <= m
  BY DEF FirstToThrow
<1>3. CASE throwing = {}
  BY <1>1, <1>2, <1>3
<1>4. CASE throwing # {}
  <2>1. throwing \in SUBSET Nat
    BY <1>1
  <2> HIDE DEF throwing, t
  <2>2. \E n \in throwing : \A m \in throwing : n <= m
    BY <1>4, <2>1, LeastNumber
  <2>3. t \in throwing /\ \A m \in throwing : t <= m
    BY <1>2, <1>4, <2>2
  <2>4. t \in 1 .. Len(h)
    BY <1>1, <2>3 DEF throwing
  <2>5. \A n \in DOMAIN h : n < t => n \notin throwing
    BY <1>1, <2>1, <2>3, <2>4
  <2> QED
    BY <1>1, <2>4, <2>5 DEF throwing, t
<1> QED
  BY <1>3, <1>4

\* remove_if on the files of a stream.
LEMMA StreamSwept ==
  ASSUME IInv, KInv, NEW s \in Labels, NEW doomed, NEW victim, NEW fault,
         SweepStream(s, doomed, victim, fault)
  PROVE  /\ DiskStays /\ Handled(files', fileHandlers')
         /\ left'.diskIsFine => HandledWell(files', fileHandlers')
<1> DEFINE h == fileHandlers[s]
           t == FirstToThrow(h, doomed, victim, fault)
           closing == Closing(h, doomed, t)
           kept == RemoveIf(h, doomed, t)
<1>1. h \in Seq(DOMAIN files)
  BY DEF KInv, HandlersKnown
<1>2. /\ fileHandlers' = [fileHandlers EXCEPT ![s] = kept]
      /\ files' = FilesAfter(closing, victim, fault) /\ left' = Spent(fault)
  BY DEF SweepStream
<1> HIDE DEF h
<1>3. /\ t \in 1 .. Len(h) + 1
      /\ \A n \in DOMAIN h : n < t /\ h[n] \in doomed =>
           ~Throws(files[h[n]], FaultOf(h[n], victim, fault))
  BY <1>1, ThrowerIsFirst
<1> HIDE DEF t
<1>4. /\ kept \in Seq(DOMAIN files) /\ ToSet(kept) \subseteq ToSet(h)
      /\ \A n \in DOMAIN h : h[n] \notin doomed \/ n >= t => h[n] \in ToSet(kept)
  BY <1>1, <1>3, RemoveIfKeeps
<1> HIDE DEF kept
<1>5. ASSUME NEW f \in ToSet(h), f \notin ToSet(kept)
      PROVE  f \in closing /\ ~Throws(files[f], FaultOf(f, victim, fault))
  <2>1. PICK n \in DOMAIN h : f = h[n]
    BY <1>5 DEF ToSet
  <2>2. h[n] \in doomed /\ ~(n >= t)
    BY <1>4, <1>5, <2>1
  <2>3. n \in Nat /\ t \in Nat /\ n < t
    BY <1>1, <1>3, <2>1, <2>2
  <2> QED
    BY <1>3, <2>1, <2>2, <2>3 DEF Closing
<1> HIDE DEF closing
<1>6. DiskStays /\ (left'.diskIsFine => fault = "none")
  BY <1>2, SpentStays
<1>7. /\ Handled(files', fileHandlers')
      /\ left.diskIsFine /\ fault = "none" => HandledWell(files', fileHandlers')
  BY <1>2, <1>4, <1>5, ClosedAndLeft DEF h
<1> QED
  BY <1>6, <1>7 DEF DiskStays

-----------------------------------------------------------------------------
(* What the steps do to the files of the streams.                          *)

\* One handler is erased, and the others stay.
LEMMA RemoveAtKeeps ==
  ASSUME NEW S, NEW h \in Seq(S), NEW i \in DOMAIN h
  PROVE  /\ RemoveAt(h, i) \in Seq(S) /\ ToSet(RemoveAt(h, i)) \subseteq ToSet(h)
         /\ \A n \in DOMAIN h : n # i => h[n] \in ToSet(RemoveAt(h, i))
<1> DEFINE a == SubSeq(h, 1, i - 1)
           b == SubSeq(h, i + 1, Len(h))
<1>0. Len(h) \in Nat /\ DOMAIN h = 1 .. Len(h) /\ i \in 1 .. Len(h)
  OBVIOUS
<1>1. /\ a \in Seq(S) /\ Len(a) = i - 1 /\ \A m \in 1 .. i - 1 : a[m] = h[m]
  BY <1>0, SubSeqProperties
<1>2. /\ b \in Seq(S) /\ Len(b) = Len(h) - i /\ \A m \in 1 .. Len(h) - i : b[m] = h[i + m]
  BY <1>0, SubSeqProperties
<1>3. RemoveAt(h, i) = a \o b
  BY DEF RemoveAt
<1> HIDE DEF a, b
<1>4. /\ a \o b \in Seq(S)
      /\ \A x : x \in ToSet(a \o b) <=> x \in ToSet(a) \/ x \in ToSet(b)
  BY <1>1, <1>2, ConcatValues
<1>5. DOMAIN a = 1 .. i - 1 /\ DOMAIN b = 1 .. Len(h) - i
  BY <1>1, <1>2
<1>6. \A x : x \in ToSet(a) => x \in ToSet(h)
  <2>1. \A m \in 1 .. i - 1 : m \in DOMAIN h
    BY <1>0
  <2> QED
    BY <1>1, <1>5, <2>1 DEF ToSet
<1>7. \A x : x \in ToSet(b) => x \in ToSet(h)
  <2>1. \A m \in 1 .. Len(h) - i : i + m \in DOMAIN h
    BY <1>0
  <2> QED
    BY <1>2, <1>5, <2>1 DEF ToSet
<1>8. ASSUME NEW n \in DOMAIN h, n # i PROVE h[n] \in ToSet(a) \/ h[n] \in ToSet(b)
  <2>1. CASE n < i
    <3>1. n \in 1 .. i - 1
      BY <1>0, <2>1
    <3> QED
      BY <1>1, <1>5, <3>1 DEF ToSet
  <2>2. CASE n > i
    <3>1. n - i \in 1 .. Len(h) - i /\ i + (n - i) = n
      BY <1>0, <2>2
    <3>2. b[n - i] = h[n]
      BY <1>2, <3>1
    <3> QED
      BY <1>5, <3>1, <3>2 DEF ToSet
  <2> QED
    BY <1>0, <1>8, <2>1, <2>2
<1> QED
  BY <1>3, <1>4, <1>6, <1>7, <1>8

\* The first file of the event's lumi section is one of the stream's.
LEMMA HandlerIsThere ==
  ASSUME IInv, KInv, NEW s \in Labels, NEW lumi, HandlerFor(s, lumi) # 0
  PROVE  HandlerFor(s, lumi) \in DOMAIN fileHandlers[s]
<1> DEFINE fitting == {n \in DOMAIN fileHandlers[s] : files[fileHandlers[s][n]].lumi = lumi}
<1>1. fitting # {} /\ HandlerFor(s, lumi) = CHOOSE n \in fitting : \A m \in fitting : n <= m
  BY DEF HandlerFor
<1>2. fileHandlers[s] \in Seq(DOMAIN files)
  BY DEF KInv, HandlersKnown
<1>3. fitting \in SUBSET Nat
  BY <1>2
<1> HIDE DEF fitting
<1>4. \E n \in fitting : \A m \in fitting : n <= m
  BY <1>1, <1>3, LeastNumber
<1>5. HandlerFor(s, lumi) \in fitting
  BY <1>1, <1>4
<1> QED
  BY <1>5 DEF fitting

\* A new file is on the disk what it should be.
LEMMA RecordFine ==
  ASSUME IInv, NEW s \in Labels, NEW lumi \in AllLumis, NEW format \in {"event", "error"}
  PROVE  LET f == Written(Record(s, lumi, format))
         IN FineFile(f)
<1> DEFINE size == IF format = "event" THEN HeaderSize ELSE 0
           r == [stream |-> s, run |-> run, lumi |-> lumi,
                 counter |-> usedCoreFileNames[s][lumi], format |-> format,
                 size |-> size, onDisk |-> size, events |-> 0,
                 isOpen |-> TRUE, writing |-> TRUE, status |-> "open", old |-> FALSE, made |-> TRUE]
<1>1. Record(s, lumi, format) = r
  BY Zenon DEF Record
<1> HIDE DEF size
<1>2. /\ DOMAIN r = {"stream", "run", "lumi", "counter", "format", "size", "onDisk", "events",
                     "isOpen", "writing", "status", "old", "made"}
      /\ r.stream = s /\ r.isOpen /\ r.writing /\ r.status = "open" /\ r.size = r.onDisk
      /\ r.events = 0
  OBVIOUS
<1> HIDE DEF r
<1>3. Written(r).stream = s /\ Written(r).isOpen /\ Written(r).writing
      /\ Written(r).status = "open" /\ Written(r).onDisk = Written(r).size
  BY <1>2 DEF Written
<1> QED
  BY <1>1, <1>3 DEF FineFile

\* What becomes of a new file: it is open, and if it could not be made or written to the
\* state machine is told.
LEMMA FirstWrittenOpen ==
  ASSUME IInv, NEW s \in Labels, NEW lumi \in AllLumis, NEW format \in {"event", "error"},
         NEW fault, NEW torn \in Nat
  PROVE  LET f == FirstWritten(Record(s, lumi, format), fault, torn)
         IN /\ f.stream = s /\ f.isOpen /\ f.status # "closed"
            /\ fault = "none" => FineFile(f)
            /\ fault \in {"enter", "create"} => Unmade(f)
<1> DEFINE r == Record(s, lumi, format)
           f == FirstWritten(r, fault, torn)
<1>1. /\ r \in Files /\ r.isOpen /\ r.status = "open" /\ r.events = 0 /\ r.made /\ r.writing
  BY RecordTyped
<1>2. f.stream = s
  BY RecordFits
<1>3. FineFile(Written(r))
  BY RecordFine
<1> HIDE DEF r
<1>4. CASE fault \in {"enter", "create"}
  <2>1. f = HalfMade(r, fault, torn)
    BY <1>4 DEF FirstWritten
  <2>2. f \in FittingFiles /\ f.isOpen /\ ~f.made /\ f.status # "closed"
    BY <1>1, <2>1, HalfMadeFits
  <2>3. f.events = 0
    BY <2>2 DEF FittingFiles, Fits
  <2> QED
    BY <1>2, <1>4, <2>2, <2>3 DEF Unmade, r
<1>5. CASE fault = "write"
  <2>1. f = [r EXCEPT !.onDisk = @ + torn]
    BY <1>5 DEF FirstWritten
  <2>2. f.isOpen /\ f.status # "closed"
    BY <1>1, <2>1, TornFits
  <2> QED
    BY <1>2, <1>5, <2>2 DEF r
<1>6. CASE fault \notin {"enter", "create", "write"}
  <2>1. f = Written(r)
    BY <1>6 DEF FirstWritten
  <2>2. f.isOpen /\ f.status = r.status
    <3>1. "isOpen" \in DOMAIN r /\ "status" \in DOMAIN r
      BY <1>1 DEF Files
    <3> QED
      BY <1>1, <2>1, <3>1 DEF Written
  <2> QED
    BY <1>1, <1>2, <1>3, <1>6, <2>1, <2>2 DEF r
<1> QED
  BY <1>4, <1>5, <1>6

\* A stream opens a file and has it, after what was closed has left it.
LEMMA FileOpened ==
  ASSUME IInv, KInv, failed => failed', dw.doing = "event", NEW n \in DOMAIN Streams,
         NEW closing, NEW victim, NEW fault,
         NEW kept \in Seq(DOMAIN files), ToSet(kept) \subseteq ToSet(fileHandlers[Streams[n]]),
         \/ \A f \in ToSet(fileHandlers[Streams[n]]) : f \in ToSet(kept) \/
              (f \in closing /\ ~Throws(files[f], FaultOf(f, victim, fault)))
         \/ Kind[Streams[n]] = "faulty" /\ closing = ToSet(fileHandlers[Streams[n]]),
         left' = Spent(fault), newFileHandler(n, kept, closing, victim, fault),
         UNCHANGED <<run, configured>>
  PROVE  KInv'
<1> DEFINE s == Streams[n]
           after == FilesAfter(closing, victim, fault)
           hs == [fileHandlers EXCEPT ![s] = kept]
<1>1. s \in Labels /\ configured
  BY DEF Labels, IInv, ControlInv
<1>2. PICK lumi \in (IF Kind[s] = "faulty" THEN {dw.lumi, 0} ELSE {dw.lumi}),
           format \in (IF Kind[s] = "faulty" THEN {"event", "error"} ELSE {Kind[s]}) :
        /\ \E torn \in Torn(fault, format) :
             files' = Append(after, FirstWritten(Record(s, lumi, format), fault, torn))
        /\ \/ /\ fault \in {"enter", "create"}
              /\ fileHandlers' = [fileHandlers EXCEPT ![s] = kept]
              /\ Fail
           \/ /\ fileHandlers' = [fileHandlers EXCEPT ![s] = Append(kept, Len(files) + 1)]
              /\ Fail \/ NextStream(n)
  BY DEF newFileHandler
<1>3. lumi \in AllLumis
  BY <1>2 DEF IInv, ControlInv, Tasks, AllLumis
<1>4. format \in {"event", "error"}
  <2>1. Kind[s] \in {"faulty", "event", "error"}
    BY StreamsAssumption
  <2> QED
    BY <1>2, <2>1
<1>5. /\ Handled(after, hs)
      /\ left.diskIsFine /\ fault = "none" => HandledWell(after, hs)
  BY <1>1, ClosedAndLeft
<1>6. DiskStays /\ (left'.diskIsFine => left.diskIsFine /\ fault = "none")
  BY SpentStays DEF DiskStays
<1> HIDE DEF after
<1>7. PICK torn \in Nat : files' = Append(after, FirstWritten(Record(s, lumi, format), fault, torn))
  BY <1>2, TornTyped
<1> DEFINE new == FirstWritten(Record(s, lumi, format), fault, torn)
           longer == Append(kept, Len(files) + 1)
<1>8. /\ new.stream = s /\ new.isOpen /\ new.status # "closed"
      /\ fault = "none" => FineFile(new)
      /\ fault \in {"enter", "create"} => Unmade(new)
  BY <1>1, <1>3, <1>4, FirstWrittenOpen
<1>9. dw'.doing # "crashed"
  <2>1. dw \in Tasks
    BY DEF IInv, ControlInv
  <2>2. dw' = Idle \/ NextStream(n)
    BY <1>2 DEF Fail
  <2>3. CASE NextStream(n)
    BY <2>1, <2>3 DEF NextStream, Tasks
  <2> QED
    BY <2>2, <2>3 DEF Idle
<1>10. [fileHandlers EXCEPT ![s] = longer] = [hs EXCEPT ![s] = Append(hs[s], Len(files) + 1)]
  <2>1. DOMAIN fileHandlers = Labels
    BY DEF KInv, HandlersKnown
  <2>2. hs[s] = kept
    BY <1>1, <2>1
  <2> HIDE DEF s
  <2>3. [hs EXCEPT ![s] = longer] = [fileHandlers EXCEPT ![s] = longer]
    OBVIOUS
  <2> QED
    BY <2>2, <2>3
<1>11. \/ /\ fileHandlers' = [hs EXCEPT ![s] = Append(hs[s], Len(files) + 1)]
          /\ left'.diskIsFine => FineFile(new)
       \/ /\ fileHandlers' = hs
          /\ Unmade(new) /\ failed' /\ ~left'.diskIsFine
  <2> HIDE DEF new
  <2> QED
    BY <1>2, <1>6, <1>8, <1>10 DEF Fail
<1>12. files' = Append(after, new)
  BY <1>7
<1> HIDE DEF new, hs, s
<1> QED
  BY <1>1, <1>5, <1>6, <1>8, <1>9, <1>11, <1>12, OneOpened

\* An event is written to a file with room for it.
LEMMA WrittenFine ==
  ASSUME NEW f \in FittingFiles, dw.size \in Nat, f.isOpen
  PROVE  /\ Written(f).isOpen /\ Written(f).status = f.status /\ Written(f).writing = f.writing
         /\ Written(f).made = f.made
         /\ FineFile(f) => FineFile(Written(f))
<1> DEFINE size == f.size + dw.size
           onDisk == f.onDisk + dw.size
           events == f.events + 1
           g == [[[[f EXCEPT !.size = size] EXCEPT !.onDisk = onDisk] EXCEPT !.events = events]
                    EXCEPT !.old = FALSE]
<1>1. Written(f) = g
  BY Zenon DEF Written
<1>2. f.onDisk = f.size => onDisk = size
  OBVIOUS
<1>3. /\ "size" \in DOMAIN f /\ "onDisk" \in DOMAIN f /\ "isOpen" \in DOMAIN f
      /\ "status" \in DOMAIN f /\ "writing" \in DOMAIN f /\ "made" \in DOMAIN f
  BY DEF FittingFiles, Files
<1> HIDE DEF size, onDisk, events
<1>4. /\ g.isOpen = f.isOpen /\ g.status = f.status /\ g.writing = f.writing /\ g.made = f.made
      /\ g.size = size /\ g.onDisk = onDisk
  BY <1>3
<1> HIDE DEF g
<1> QED
  BY <1>1, <1>2, <1>4 DEF FineFile

\* One file is replaced, and its stream keeps it.
LEMMA OneHandled ==
  ASSUME IInv, KInv, NEW f \in DOMAIN files, NEW g, Follows(files[f], g), Told(g),
         g.made = files[f].made
  PROVE  LET after == [files EXCEPT ![f] = g]
         IN /\ Handled(after, fileHandlers)
            /\ left.diskIsFine /\ FineFile(g) => HandledWell(after, fileHandlers)
<1> DEFINE after == [files EXCEPT ![f] = g]
<1>1. AllFollow(after)
  BY OneFollows
<1>2. \A e \in DOMAIN files : after[e] = IF e = f THEN g ELSE files[e]
  OBVIOUS
<1> HIDE DEF after
<1>3. \A e \in DOMAIN files : Told(after[e]) /\ after[e].made = files[e].made
  BY <1>2 DEF KInv, StatusTold
<1>4. ASSUME left.diskIsFine, FineFile(g) PROVE \A e \in DOMAIN files : FineFile(after[e])
  BY <1>2, <1>4 DEF KInv, DiskFine
<1>5. fileHandlers \in [Labels -> Seq(DOMAIN files)]
  BY DEF KInv, HandlersKnown
<1> QED
  BY <1>1, <1>3, <1>4, <1>5 DEF Handled, HandledWell, after

\* Nothing is done to the files.
LEMMA NothingHandled ==
  ASSUME IInv, KInv
  PROVE  /\ Handled(files, fileHandlers)
         /\ left.diskIsFine => HandledWell(files, fileHandlers)
<1>1. AllFollow(files)
  BY FilesStay
<1>2. fileHandlers \in [Labels -> Seq(DOMAIN files)]
  BY DEF KInv, HandlersKnown
<1> QED
  BY <1>1, <1>2 DEF Handled, HandledWell, KInv, StatusTold, DiskFine

\* Whatever a step does in the course of a run: the streams have what they had.
LEMMA RunGoesOn ==
  ASSUME IInv, KInv, DiskStays, failed => failed', UNCHANGED <<run, configured>>,
         Handled(files', fileHandlers'),
         left'.diskIsFine => dw'.doing # "crashed" /\ HandledWell(files', fileHandlers')
  PROVE  KInv'
<1>1. ~configured' => \A s \in Labels : fileHandlers'[s] = <<>>
  <2> SUFFICES ASSUME ~configured', NEW s \in Labels PROVE fileHandlers'[s] = <<>>
    OBVIOUS
  <2>1. fileHandlers[s] = <<>>
    BY DEF KInv, HandlersKnown
  <2>2. ToSet(fileHandlers'[s]) \subseteq {} /\ fileHandlers'[s] \in Seq(DOMAIN files)
    <3>1. ToSet(fileHandlers[s]) = {}
      BY <2>1 DEF ToSet
    <3> QED
      BY <3>1 DEF Handled
  <2>3. 1 \notin DOMAIN fileHandlers'[s]
    BY <2>2 DEF ToSet
  <2> QED
    BY <2>2, <2>3, EmptySeq
<1> QED
  BY <1>1, NothingOpened

\* An event goes to a file that is open already.
LEMMA OpenWritten ==
  ASSUME IInv, KInv, failed => failed', NEW n \in DOMAIN Streams,
         NEW i \in DOMAIN fileHandlers[Streams[n]], NEW fault, WriteToOpenFile(n, i, fault),
         dw.doing = "event", UNCHANGED <<run, configured>>
  PROVE  KInv'
<1> DEFINE f == fileHandlers[Streams[n]][i]
<1>1. Streams[n] \in Labels
  BY DEF Labels
<1>2. f \in DOMAIN files
  BY <1>1 DEF KInv, HandlersKnown
<1>3. DiskStays /\ (left'.diskIsFine => left.diskIsFine /\ fault = "none") /\ UNCHANGED fileHandlers
  BY SpentStays DEF WriteToOpenFile, DiskStays
<1>4. ~tooLarge(f) /\ files[f] \in FittingFiles /\ dw \in Tasks /\ dw.size \in Nat
  BY <1>2, FilesTyped DEF WriteToOpenFile, IInv, ControlInv, Tasks
<1>5. CASE Fail /\ UNCHANGED files
  <2>1. dw'.doing # "crashed"
    BY <1>5 DEF Fail, Idle
  <2> QED
    BY <1>3, <1>5, <2>1, NothingHandled, RunGoesOn
<1>6. CASE files[f].isOpen /\ ~files[f].writing /\ UNCHANGED files
  <2>1. ~left.diskIsFine
    BY <1>2, <1>6 DEF KInv, DiskFine, FineFile
  <2> QED
    BY <1>3, <1>6, <2>1, NothingHandled, RunGoesOn
<1>7. CASE /\ files[f].isOpen /\ files[f].writing /\ NextStream(n)
           /\ files' = [files EXCEPT ![f] = Written(files[f])]
  <2> HIDE DEF f
  <2> DEFINE g == Written(files[f])
  <2>1. Follows(files[f], g)
    BY <1>2, <1>4, <1>7, RoomLeft
  <2>2. Told(g) /\ g.made = files[f].made /\ (FineFile(files[f]) => FineFile(g))
    BY <1>2, <1>4, <1>7, WrittenFine DEF Told, KInv, StatusTold
  <2>3. left.diskIsFine => FineFile(files[f])
    BY <1>2 DEF KInv, DiskFine
  <2>4. dw'.doing # "crashed"
    BY <1>4, <1>7 DEF NextStream, Tasks
  <2>5. files' = [files EXCEPT ![f] = g]
    BY <1>7
  <2> HIDE DEF g
  <2> QED
    BY <1>2, <1>3, <2>1, <2>2, <2>3, <2>4, <2>5, OneHandled, RunGoesOn
<1>8. ASSUME fault = "write", Fail, files[f].isOpen, NEW torn \in Torn(fault, files[f].format),
             files' = [files EXCEPT ![f].onDisk = @ + torn]
      PROVE  KInv'
  <2> HIDE DEF f
  <2> DEFINE onDisk == files[f].onDisk + torn
             g == [files[f] EXCEPT !.onDisk = onDisk]
  <2>1. files' = [files EXCEPT ![f] = g]
    BY <1>8, Zenon
  <2>2. files[f].onDisk \in Nat /\ torn \in Nat /\ files[f] \in Files
    BY <1>4, <1>8, TornTyped DEF FittingFiles, Files
  <2>3. onDisk \in Nat
    BY <2>2
  <2> HIDE DEF onDisk
  <2>4. Follows(files[f], g)
    BY <1>4, <1>8, <2>3, PlaceFollows DEF Follows
  <2>5. Told(g) /\ g.made = files[f].made
    BY <1>2, <2>2, <2>3 DEF Told, KInv, StatusTold, Files
  <2>6. ~left'.diskIsFine
    BY <1>3, <1>8
  <2> HIDE DEF g
  <2> QED
    BY <1>2, <1>3, <2>1, <2>4, <2>5, <2>6, OneHandled, RunGoesOn
<1> QED
  BY <1>5, <1>6, <1>7, <1>8 DEF WriteToOpenFile

\* An event goes to a new file because the old one is too large.
LEMMA NextFileStarted ==
  ASSUME IInv, KInv, failed => failed', NEW n \in DOMAIN Streams,
         NEW i \in DOMAIN fileHandlers[Streams[n]], NEW fault, StartNextFile(n, i, fault),
         dw.doing = "event", UNCHANGED <<run, configured>>
  PROVE  KInv'
<1> DEFINE h == fileHandlers[Streams[n]]
           f == h[i]
           kept == RemoveAt(h, i)
<1>1. Streams[n] \in Labels /\ left' = Spent(fault)
  BY DEF Labels, StartNextFile
<1>2. h \in Seq(DOMAIN files) /\ i \in DOMAIN h
  BY <1>1 DEF KInv, HandlersKnown
<1>3. DiskStays /\ (left'.diskIsFine => left.diskIsFine /\ fault = "none")
  BY <1>1, SpentStays DEF DiskStays
<1>4. CASE files' = FilesAfter({f}, f, fault) /\ UNCHANGED fileHandlers /\ Fail
  <2>1. dw'.doing # "crashed"
    BY <1>4 DEF Fail, Idle
  <2>2. /\ Handled(files', fileHandlers')
        /\ left.diskIsFine /\ fault = "none" => HandledWell(files', fileHandlers')
    BY <1>4, ClosedAndKept
  <2> QED
    BY <1>3, <2>1, <2>2, RunGoesOn
<1>5. CASE ~Throws(files[f], fault) /\ newFileHandler(n, kept, {f}, f, fault)
  <2>1. /\ kept \in Seq(DOMAIN files) /\ ToSet(kept) \subseteq ToSet(h)
        /\ \A m \in DOMAIN h : m # i => h[m] \in ToSet(kept)
    <3> HIDE DEF h
    <3> QED
      BY <1>2, RemoveAtKeeps
  <2>2. \A e \in ToSet(h) : e \in ToSet(kept) \/ e = f
    BY <2>1 DEF ToSet
  <2>3. FaultOf(f, f, fault) = fault
    BY DEF FaultOf
  <2> HIDE DEF f, kept
  <2>4. \A e \in ToSet(h) :
          e \in ToSet(kept) \/ (e \in {f} /\ ~Throws(files[e], FaultOf(e, f, fault)))
    BY <1>5, <2>2, <2>3
  <2> QED
    BY <1>1, <1>5, <2>1, <2>4, FileOpened
<1> QED
  BY <1>4, <1>5 DEF StartNextFile

\* One stream's turn with an event, for what the streams know.
LEMMA EventHandled ==
  ASSUME IInv, KInv, failed => failed', writeEventToStreams
  PROVE  KInv'
<1>1. UNCHANGED <<run, configured>> /\ dw.doing = "event"
  BY DEF writeEventToStreams
<1>2. PICK n \in DOMAIN Streams, fault \in Faults \cup {"none"} :
        LET s == Streams[n]
            i == HandlerFor(s, dw.lumi)
        IN \/ Kind[s] = "faulty" /\ \E victim : StartFaultyFile(n, victim, fault)
           \/ i = 0 /\ StartFirstFile(n, fault)
           \/ i # 0 /\ (WriteToOpenFile(n, i, fault) \/ StartNextFile(n, i, fault))
  BY DEF writeEventToStreams
<1> DEFINE s == Streams[n]
           i == HandlerFor(s, dw.lumi)
<1>3. s \in Labels /\ fileHandlers[s] \in Seq(DOMAIN files)
  BY DEF Labels, KInv, HandlersKnown
<1>4. ASSUME NEW victim, Kind[s] = "faulty", StartFaultyFile(n, victim, fault)
      PROVE  KInv'
  <2>1. /\ left' = Spent(fault)
        /\ newFileHandler(n, <<>>, ToSet(fileHandlers[s]), victim, fault)
    BY <1>4 DEF StartFaultyFile
  <2>2. <<>> \in Seq(DOMAIN files) /\ ToSet(<<>>) \subseteq ToSet(fileHandlers[s])
    BY DEF ToSet
  <2> QED
    BY <1>1, <1>4, <2>1, <2>2, FileOpened
<1>5. CASE StartFirstFile(n, fault)
  <2>1. left' = Spent(fault) /\ newFileHandler(n, fileHandlers[s], {}, 0, fault)
    BY <1>5 DEF StartFirstFile
  <2> QED
    BY <1>1, <1>3, <2>1, FileOpened
<1>6. CASE i # 0 /\ (WriteToOpenFile(n, i, fault) \/ StartNextFile(n, i, fault))
  <2>1. i \in DOMAIN fileHandlers[s]
    BY <1>3, <1>6, HandlerIsThere
  <2> QED
    BY <1>1, <1>6, <2>1, OpenWritten, NextFileStarted
<1> QED
  BY <1>2, <1>4, <1>5, <1>6

\* One stream's turn with old files or with the end of a lumi section.
LEMMA TimeOutsHandled ==
  ASSUME IInv, KInv, failed => failed', closeTimedOutFiles \/ processEndOfLumiSection
  PROVE  KInv'
<1>1. UNCHANGED <<run, configured>> /\ dw.doing # "crashed" /\ dw \in Tasks
  BY DEF closeTimedOutFiles, processEndOfLumiSection, IInv, ControlInv
<1>2. PICK n, doomed, victim, fault :
        n \in DOMAIN Streams /\ SweepStream(Streams[n], doomed, victim, fault)
  BY DEF closeTimedOutFiles, processEndOfLumiSection
<1>3. dw'.doing # "crashed"
  <2>1. CASE closeTimedOutFiles
    BY <1>1, <2>1 DEF closeTimedOutFiles, Fail, Idle, Tasks
  <2>2. CASE processEndOfLumiSection
    <3> DEFINE counts(m) == Append(dw.counts, fileCountPerLS[Streams[m]][dw.lumi])
    <3>1. PICK m : dw' = Idle \/ dw' = [dw EXCEPT !.rest = @ \ {m}, !.counts = counts(m)]
      BY <2>2 DEF processEndOfLumiSection, Fail
    <3> HIDE DEF counts
    <3>2. CASE dw' = [dw EXCEPT !.rest = @ \ {m}, !.counts = counts(m)]
      BY <1>1, <3>2 DEF Tasks
    <3> QED
      BY <3>1, <3>2 DEF Idle
  <2> QED
    BY <2>1, <2>2
<1>4. Streams[n] \in Labels
  BY <1>2 DEF Labels
<1>5. /\ DiskStays /\ Handled(files', fileHandlers')
      /\ left'.diskIsFine => HandledWell(files', fileHandlers')
  BY <1>2, <1>4, StreamSwept
<1> QED
  BY <1>1, <1>3, <1>5, RunGoesOn

\* All files are closed, and no stream has one any more.
LEMMA AllDestroyed ==
  ASSUME IInv, KInv, NEW victim, NEW fault, destroyStreams(victim, fault), ~configured',
         dw'.doing # "crashed"
  PROVE  KInv'
<1>1. /\ files' = FilesAfter(AllHandlers, victim, fault) /\ left' = Spent(fault)
      /\ fileHandlers' = [s \in Labels |-> <<>>]
  BY DEF destroyStreams
<1>2. AllFollow(files')
  BY <1>1, ClosingFollows
<1>3. DOMAIN files' = DOMAIN files /\ \A f \in DOMAIN files : Follows(files[f], files'[f])
  BY <1>2 DEF AllFollow
<1>4. DiskStays /\ (left'.diskIsFine => left.diskIsFine /\ fault = "none")
  BY <1>1, SpentStays DEF DiskStays
<1>5. HandlersKnown'
  BY <1>1, EmptySeq DEF HandlersKnown, ToSet
<1>6. StatusTold'
  <2>1. \A f \in DOMAIN files : Told(files'[f])
    BY <1>1, AfterClosing
  <2> QED
    BY <1>3, <2>1 DEF StatusTold, Told
<1>7. OpenFilesStayKnown'
  BY DEF OpenFilesStayKnown
<1>8. DiskFine'
  <2>1. ASSUME left'.diskIsFine, NEW f \in DOMAIN files
        PROVE  FineFile(files'[f]) /\ ~files'[f].isOpen
    <3>1. left.diskIsFine /\ files' = FilesAfter(AllHandlers, victim, "none")
      BY <1>1, <1>4, <2>1
    <3>2. FineFile(files'[f]) /\ (f \in AllHandlers => ~files'[f].isOpen)
      BY <3>1, AfterClosingWell
    <3>3. CASE files[f].isOpen
      <4>1. f \in ToSet(fileHandlers[files[f].stream]) /\ files[f].stream \in Labels
        BY <3>1, <3>3, FilesTyped DEF KInv, DiskFine, FittingFiles, Files
      <4> QED
        BY <3>2, <4>1 DEF AllHandlers
    <3>4. CASE ~files[f].isOpen
      BY <1>3, <3>2, <3>4 DEF Follows
    <3> QED
      BY <3>2, <3>3, <3>4
  <2> QED
    BY <1>3, <2>1 DEF DiskFine, FineFile, ToSet
<1> QED
  BY <1>4, <1>5, <1>6, <1>7, <1>8 DEF KInv, DiskStays, Budgets

\* The streams are made or destroyed, for what they know.
LEMMA RequestHandled ==
  ASSUME IInv, KInv, failed => failed', checkStreamChangeRequest
  PROVE  KInv'
<1>1. dw'.doing # "crashed" /\ UNCHANGED run
  BY DEF checkStreamChangeRequest, Idle
<1>2. CASE request = "destroy"
  <2>1. (\E victim, fault : destroyStreams(victim, fault)) /\ ~configured'
    BY <1>2 DEF checkStreamChangeRequest
  <2> QED
    BY <1>1, <2>1, AllDestroyed
<1>3. CASE request # "destroy"
  <2>1. configured' /\ UNCHANGED <<files, fileHandlers, left>> /\ request = "configure"
    BY <1>3 DEF checkStreamChangeRequest, IInv, ControlInv
  <2>2. \A f \in DOMAIN files : files[f].run # run
    BY <2>1 DEF IInv, FileInv, Numbered
  <2>3. DiskStays
    BY <2>1 DEF DiskStays, KInv
  <2> QED
    BY <1>1, <2>1, <2>2, <2>3, NothingHandled, NothingOpened
<1> QED
  BY <1>2, <1>3

\* The other steps leave the files alone.
LEMMA FilesLeftAlone ==
  ASSUME IInv, KInv, failed => failed', UNCHANGED <<configured, files, fileHandlers>>, DiskStays,
         run' = run \/ ~configured, left'.diskIsFine => dw'.doing # "crashed"
  PROVE  KInv'
<1>1. ~configured' => \A s \in Labels : fileHandlers'[s] = <<>>
  BY DEF KInv, HandlersKnown
<1>2. /\ Handled(files', fileHandlers')
      /\ left'.diskIsFine => HandledWell(files', fileHandlers')
  BY NothingHandled DEF DiskStays
<1> QED
  BY <1>1, <1>2, NothingOpened

\* What the bounds count down does not concern the disk.
LEMMA BudgetStays ==
  ASSUME KInv,
         \/ UNCHANGED left
         \/ left' = [left EXCEPT !.runs = left.runs - 1]
         \/ left' = [left EXCEPT !.events = left.events - 1]
         \/ left' = [left EXCEPT !.eols = left.eols - 1]
         \/ left' = [left EXCEPT !.ages = left.ages - 1]
  PROVE  DiskStays
BY DEF KInv, DiskStays, Budgets

\* A message has come or a run begins or ends, for what the streams know.
LEMMA MessageHandled ==
  ASSUME IInv, KInv, failed => failed',
         \/ \E n \in DOMAIN Streams :
              \E T \in TagsOf(n), l \in Lumis, z \in Sizes : takeEvent(T, l, z)
         \/ \E l \in Lumis : takeEndOfLumiSection(l)
         \/ timedOut
         \/ skipFileTimeOuts
         \/ startRun \/ endRun
         \/ UNCHANGED vars
  PROVE  KInv'
<1>1. UNCHANGED <<configured, files, fileHandlers>> /\ (run' = run \/ ~configured)
  BY DEF takeEvent, takeEndOfLumiSection, timedOut, skipFileTimeOuts, startRun, endRun, vars
<1>2. DiskStays
  <2>1. \/ UNCHANGED left
        \/ left' = [left EXCEPT !.runs = left.runs - 1]
        \/ left' = [left EXCEPT !.events = left.events - 1]
        \/ left' = [left EXCEPT !.eols = left.eols - 1]
    BY DEF takeEvent, takeEndOfLumiSection, timedOut, skipFileTimeOuts, startRun, endRun, vars
  <2> QED
    BY <2>1, BudgetStays
<1>3. dw' = dw \/ dw'.doing # "crashed"
  <2>1. ASSUME NEW T, NEW l, NEW z, takeEvent(T, l, z) PROVE dw'.doing # "crashed"
    BY <2>1 DEF takeEvent
  <2>2. ASSUME NEW l, takeEndOfLumiSection(l) PROVE dw'.doing # "crashed"
    BY <2>2 DEF takeEndOfLumiSection, Idle
  <2>3. timedOut \/ skipFileTimeOuts => dw'.doing # "crashed"
    <3>1. timedOut => dw'.doing = "timeouts"
      BY DEF timedOut, Idle
    <3>2. skipFileTimeOuts => dw'.doing = "idle"
      BY DEF skipFileTimeOuts, Idle
    <3> QED
      BY <3>1, <3>2
  <2>4. CASE startRun \/ endRun \/ UNCHANGED vars
    BY <2>4 DEF startRun, endRun, vars
  <2> QED
    BY <2>1, <2>2, <2>3, <2>4
<1>4. left'.diskIsFine => dw'.doing # "crashed"
  BY <1>2, <1>3 DEF DiskStays, KInv, DiskFine
<1> QED
  BY <1>1, <1>2, <1>4, FilesLeftAlone

\* A file grows old, or the disk loses what it has, for what the streams know.
LEMMA SpoiltHandled ==
  ASSUME IInv, KInv, failed => failed', NEW f \in DOMAIN files,
         becomesTooOld(f) \/ losesData(f, 0) \/ losesData(f, 1)
  PROVE  KInv'
<1>1. UNCHANGED <<run, configured, dw, fileHandlers>> /\ files[f].isOpen
  BY DEF becomesTooOld, losesData
<1>2. files[f] \in FittingFiles /\ Told(files[f])
  BY FilesTyped DEF KInv, StatusTold
<1>3. CASE becomesTooOld(f)
  <2> DEFINE g == [files[f] EXCEPT !.old = TRUE]
  <2>1. files' = [files EXCEPT ![f] = g] /\ left' = [left EXCEPT !.ages = left.ages - 1]
    BY <1>3, Zenon DEF becomesTooOld
  <2>2. Follows(files[f], g)
    BY <1>1, <1>2, PlaceFollows DEF Follows
  <2>3. Told(g) /\ g.made = files[f].made /\ (FineFile(files[f]) => FineFile(g))
    BY <1>2 DEF Told, FineFile, FittingFiles, Files
  <2> HIDE DEF g
  <2>4. DiskStays
    BY <2>1, BudgetStays
  <2>5. /\ Handled(files', fileHandlers')
        /\ left.diskIsFine => FineFile(files[f]) /\ HandledWell(files', fileHandlers')
    BY <1>1, <2>1, <2>2, <2>3, OneHandled DEF KInv, DiskFine
  <2>6. left'.diskIsFine => dw'.doing # "crashed"
    BY <1>1, <2>4 DEF DiskStays, KInv, DiskFine
  <2> QED
    BY <1>1, <2>4, <2>5, <2>6, RunGoesOn DEF DiskStays
<1>4. ASSUME NEW n \in Nat, losesData(f, n)
      PROVE  KInv'
  <2> DEFINE g == [files[f] EXCEPT !.onDisk = n]
             lost == [left EXCEPT !.losses = left.losses - 1]
  <2>1. files' = [files EXCEPT ![f] = g] /\ left' = [lost EXCEPT !.diskIsFine = FALSE]
    BY <1>4, Zenon DEF losesData
  <2>2. Follows(files[f], g)
    BY <1>1, <1>2, PlaceFollows DEF Follows
  <2>3. Told(g) /\ g.made = files[f].made
    BY <1>2 DEF Told, FittingFiles, Files
  <2>4. lost \in Budgets
    BY DEF KInv, Budgets
  <2> HIDE DEF g, lost
  <2>5. left' \in Budgets /\ ~left'.diskIsFine
    BY <2>1, <2>4 DEF Budgets
  <2>6. Handled(files', fileHandlers')
    BY <1>1, <2>1, <2>2, <2>3, OneHandled
  <2> QED
    BY <1>1, <2>5, <2>6, RunGoesOn DEF DiskStays
<1> QED
  BY <1>3, <1>4

\* A failure is not taken back.
LEMMA FailureLasts ==
  ASSUME [Next]_vars, failed
  PROVE  failed'
<1>1. CASE writeEventToStreams
  <2>1. PICK n \in DOMAIN Streams, fault \in Faults \cup {"none"} :
          \/ \E victim : StartFaultyFile(n, victim, fault)
          \/ StartFirstFile(n, fault)
          \/ \E i : WriteToOpenFile(n, i, fault) \/ StartNextFile(n, i, fault)
    BY <1>1 DEF writeEventToStreams
  <2>2. ASSUME NEW kept, NEW closing, NEW victim, newFileHandler(n, kept, closing, victim, fault)
        PROVE  failed'
    BY <2>2 DEF newFileHandler, Fail
  <2> QED
    BY <2>1, <2>2 DEF StartFaultyFile, StartFirstFile, WriteToOpenFile, StartNextFile, Fail
<1>2. CASE closeTimedOutFiles \/ processEndOfLumiSection
  BY <1>2 DEF closeTimedOutFiles, processEndOfLumiSection, Fail
<1>3. CASE Next /\ UNCHANGED failed
  BY <1>3
<1>4. CASE UNCHANGED vars
  BY <1>4 DEF vars
<1> QED
  BY <1>1, <1>2, <1>3, <1>4
     DEF Next, DiskWriter, skipFileTimeOuts, checkStreamChangeRequest, takeEvent,
         takeEndOfLumiSection, timedOut, becomesTooOld, losesData, startRun, endRun

\* At the start the streams know of no file, and there is none.
LEMMA InitKInv == Init => KInv
<1> SUFFICES ASSUME Init PROVE KInv
  OBVIOUS
<1>1. /\ files = <<>> /\ fileHandlers = [s \in Labels |-> <<>>] /\ dw = Idle
      /\ left = [runs |-> MaxRuns, events |-> MaxEvents, eols |-> MaxEoLS, ages |-> MaxAges,
                 faults |-> MaxFaults, losses |-> MaxLosses, diskIsFine |-> TRUE]
  BY DEF Init, InitWith
<1>2. left \in Budgets
  BY <1>1, BoundsAssumption DEF Budgets
<1>3. DOMAIN files = {}
  BY <1>1
<1>4. HandlersKnown
  BY <1>1, EmptySeq DEF HandlersKnown, ToSet
<1>5. StatusTold /\ OpenFilesStayKnown
  BY <1>3 DEF StatusTold, OpenFilesStayKnown
<1>6. DiskFine
  BY <1>1, <1>3 DEF DiskFine, Idle
<1> QED
  BY <1>2, <1>4, <1>5, <1>6 DEF KInv

\* Every step keeps what the streams know, given the invariant of the files.
LEMMA NextKInv == IInv /\ KInv /\ [Next]_vars => KInv'
<1> SUFFICES ASSUME IInv, KInv, [Next]_vars PROVE KInv'
  OBVIOUS
<1>0. failed => failed'
  BY FailureLasts
<1>1. CASE writeEventToStreams
  BY <1>0, <1>1, EventHandled
<1>2. CASE closeTimedOutFiles \/ processEndOfLumiSection
  BY <1>0, <1>2, TimeOutsHandled
<1>3. CASE checkStreamChangeRequest
  BY <1>0, <1>3, RequestHandled
<1>4. CASE \/ skipFileTimeOuts \/ timedOut \/ (\E l \in Lumis : takeEndOfLumiSection(l))
           \/ startRun \/ endRun \/ UNCHANGED vars
           \/ \E n \in DOMAIN Streams :
                \E T \in TagsOf(n), l \in Lumis, z \in Sizes : takeEvent(T, l, z)
  BY <1>0, <1>4, MessageHandled
<1>5. CASE \E f \in DOMAIN files : becomesTooOld(f) \/ losesData(f, 0) \/ losesData(f, 1)
  BY <1>0, <1>5, SpoiltHandled
<1> QED
  BY <1>1, <1>2, <1>3, <1>4, <1>5 DEF Next, DiskWriter

(***************************************************************************)
(* What the streams know of their files, which holds along with IInv.      *)
(***************************************************************************)
THEOREM StreamsKnow == Spec => []KInv
<1>1. IInv /\ KInv /\ [Next]_vars => KInv'
  BY NextKInv
<1> QED
  BY Invariant, InitKInv, <1>1, PTL DEF Spec

(***************************************************************************)
(* Whatever fails, a stream that has made a file keeps its handler until   *)
(* the file is closed or the streams are destroyed, also when another file *)
(* throws in the midst of remove_if or an event cannot be written.  Any    *)
(* other open file of the run could not be made: there is no event in it,  *)
(* and the failure was reported.                                           *)
(***************************************************************************)
THEOREM OpenFilesStay == Spec => []OpenFilesStayKnown
<1>1. KInv => OpenFilesStayKnown
  BY DEF KInv
<1> QED
  BY StreamsKnow, <1>1, PTL

(***************************************************************************)
(* On a disk that is fine no run leaves a file behind that is not closed,  *)
(* and no event is written to a file whose writer has been stopped.        *)
(***************************************************************************)
THEOREM NothingStaysOpen == Spec => []NothingLeftOpen
<1>1. IInv /\ KInv => NothingLeftOpen
  <2> SUFFICES ASSUME IInv, KInv, left.diskIsFine
               PROVE  /\ dw.doing # "crashed"
                      /\ ~configured => \A f \in DOMAIN files : files[f].status = "closed"
    BY DEF NothingLeftOpen
  <2>1. ASSUME ~configured, NEW f \in DOMAIN files PROVE files[f].status = "closed"
    <3>1. files[f].stream \in Labels
      BY FilesTyped DEF FittingFiles, Files
    <3>2. ToSet(fileHandlers[files[f].stream]) = {}
      BY <2>1, <3>1 DEF KInv, HandlersKnown, ToSet
    <3>3. FineFile(files[f]) /\ ~files[f].isOpen
      BY <3>2 DEF KInv, DiskFine
    <3> QED
      BY <3>3 DEF FineFile
  <2> QED
    BY <2>1 DEF KInv, DiskFine
<1> QED
  BY Invariant, StreamsKnow, <1>1, PTL

-----------------------------------------------------------------------------
(* The reports.                                                            *)

\* What the log may have of a lumi section.
Lines ==
  {line \in [lumi : AllLumis, counts : Seq(Nat), eols : {0, 1}] :
     Len(line.counts) = Len(Streams)}

\* One pair for each file of stream s that a line of lumi section l counts.
Pairs(lines, s, l) ==
  UNION {{n} \X (1 .. CountIn(lines[n], s)) : n \in {m \in DOMAIN lines : lines[m].lumi = l}}

FilledLines(lines) == {n \in DOMAIN lines : WithFiles(lines[n].counts)}
EoLSLines(lines) == {n \in DOMAIN lines : lines[n].eols = 1}

\* An end-of-run report that counts the lines.
Reports ==
  [latestLumiSectionWritten : Nat, eolsCount : Nat, lsCountWithFiles : Nat]
Tells(report, lines) ==
  /\ report \in Reports
  /\ IsFiniteSet(FilledLines(lines)) /\ Cardinality(FilledLines(lines)) = report.lsCountWithFiles
  /\ IsFiniteSet(EoLSLines(lines)) /\ Cardinality(EoLSLines(lines)) = report.eolsCount

\* The files of a stream in a lumi section are those that the lines tell of, and the
\* others that are counted.
AddsUp(s, l) ==
  /\ IsFiniteSet(Pairs(log.lines, s, l))
  /\ Cardinality(FilesOf(s, l)) =
       (Cardinality(Pairs(log.lines, s, l)) + fileCountPerLS[s][l]) + UnderReport(s, l)

\* At the end of a lumi section the streams are asked in turn.
InTurn ==
  dw.doing = "eols" =>
    /\ configured
    /\ dw.counts \in Seq(Nat) /\ Len(dw.counts) < Len(Streams)
    /\ dw.rest = Len(dw.counts) + 1 .. Len(Streams)

\* What the log has, and what it will have.
LogInv ==
  /\ log = [lines |-> log.lines, eor |-> log.eor] /\ log.lines \in Seq(Lines)
  /\ log.eor = <<>> => Tells(endOfRunReport, log.lines)
  /\ log.eor # <<>> => log.eor = <<log.eor[1]>> /\ Tells(log.eor[1], log.lines)
  /\ configured => log.eor = <<>>
  /\ ~configured => endOfRunReport = NoReport
  /\ request = "destroy" => configured

CountInv ==
  /\ fileCountPerLS \in [Labels -> [AllLumis -> Nat]]
  /\ request = "configure" => fileCountPerLS = NoCounts
  /\ request # "configure" => \A s \in Labels, l \in AllLumis : AddsUp(s, l)

\* The third part of the inductive invariant: the reports.  After a failure there is nothing
\* to say of them.
RInv == ~failed => InTurn /\ LogInv /\ CountInv

\* The place of a stream is the one that it was found at.
LEMMA PlaceOfStream ==
  ASSUME NEW n \in DOMAIN Streams
  PROVE  PositionOf(Streams[n]) = n /\ Streams[n] \in Labels
BY StreamsAssumption DEF PositionOf, Labels

\* Every stream has a place.
LEMMA StreamAtPlace ==
  ASSUME NEW s \in Labels
  PROVE  PositionOf(s) \in DOMAIN Streams /\ Streams[PositionOf(s)] = s
BY DEF PositionOf, Labels

\* The pairs of one number with 1 to c.
LEMMA PairsOfOne ==
  ASSUME NEW k, NEW c \in Nat
  PROVE  IsFiniteSet({k} \X (1 .. c)) /\ Cardinality({k} \X (1 .. c)) = c
<1>1. IsFiniteSet({k}) /\ Cardinality({k}) = 1
  BY FS_Singleton
<1>2. IsFiniteSet(1 .. c) /\ Cardinality(1 .. c) = c
  BY FS_Interval
<1>3. /\ IsFiniteSet({k} \X (1 .. c))
      /\ Cardinality({k} \X (1 .. c)) = Cardinality({k}) * Cardinality(1 .. c)
  BY <1>1, <1>2, FS_Product
<1> QED
  BY <1>1, <1>2, <1>3

\* What is finite, and what shares nothing with it.
LEMMA AddDisjoint ==
  ASSUME NEW S, NEW T, IsFiniteSet(S), IsFiniteSet(T), S \cap T = {}
  PROVE  /\ IsFiniteSet(S \cup T)
         /\ Cardinality(S) \in Nat /\ Cardinality(T) \in Nat
         /\ Cardinality(S \cup T) = Cardinality(S) + Cardinality(T)
<1>1. /\ IsFiniteSet(S \cup T)
      /\ Cardinality(S \cup T) = Cardinality(S) + Cardinality(T) - Cardinality(S \cap T)
  BY FS_Union
<1>2. Cardinality(S \cap T) = 0 /\ Cardinality(S) \in Nat /\ Cardinality(T) \in Nat
  BY FS_EmptySet, FS_CardinalityType
<1> QED
  BY <1>1, <1>2

\* What a line counts of a stream is a number.
LEMMA CountTyped ==
  ASSUME NEW lines \in Seq(Lines), NEW n \in DOMAIN lines, NEW s \in Labels
  PROVE  /\ CountIn(lines[n], s) \in Nat
         /\ lines[n].lumi \in AllLumis /\ lines[n].eols \in {0, 1}
<1>1. lines[n] \in Lines
  OBVIOUS
<1>2. /\ lines[n].counts \in Seq(Nat) /\ lines[n].lumi \in AllLumis /\ lines[n].eols \in {0, 1}
  BY <1>1 DEF Lines
<1> QED
  BY <1>2 DEF CountIn

\* The lines that are added have one of the lumi section, which counts c files, or none.
OneLine(more, s, l, c) ==
  \/ c = 0 /\ \A k \in DOMAIN more : more[k].lumi # l
  \/ \E k \in DOMAIN more : /\ more[k].lumi = l /\ CountIn(more[k], s) = c
                            /\ \A m \in DOMAIN more : more[m].lumi = l => m = k

LEMMA PairsAdded ==
  ASSUME NEW lines \in Seq(Lines), NEW more \in Seq(Lines), NEW s \in Labels, NEW l, NEW c \in Nat,
         OneLine(more, s, l, c), IsFiniteSet(Pairs(lines, s, l))
  PROVE  /\ IsFiniteSet(Pairs(lines \o more, s, l))
         /\ Cardinality(Pairs(lines \o more, s, l)) = Cardinality(Pairs(lines, s, l)) + c
         /\ Cardinality(Pairs(lines, s, l)) \in Nat
<1> DEFINE N == Len(lines)
           all == lines \o more
           Of(n) == {n} \X (1 .. CountIn(all[n], s))
<1>1. /\ N \in Nat /\ Len(more) \in Nat /\ DOMAIN lines = 1 .. N /\ DOMAIN more = 1 .. Len(more)
      /\ DOMAIN all = 1 .. N + Len(more)
      /\ \A n \in DOMAIN lines : all[n] = lines[n]
      /\ \A k \in DOMAIN more : all[N + k] = more[k]
  OBVIOUS
<1> HIDE DEF all, N
<1>2. Pairs(lines, s, l) = UNION {Of(n) : n \in {m \in DOMAIN lines : all[m].lumi = l}}
  BY <1>1 DEF Pairs
<1>3. Pairs(all, s, l) = UNION {Of(n) : n \in {m \in DOMAIN all : all[m].lumi = l}}
  BY DEF Pairs
<1>4. CASE c = 0 /\ \A k \in DOMAIN more : more[k].lumi # l
  <2>1. \A m \in DOMAIN all : m \notin DOMAIN lines => m - N \in DOMAIN more /\ N + (m - N) = m
    BY <1>1
  <2>2. {m \in DOMAIN all : all[m].lumi = l} = {m \in DOMAIN lines : all[m].lumi = l}
    BY <1>1, <1>4, <2>1
  <2>3. Pairs(all, s, l) = Pairs(lines, s, l)
    BY <1>2, <1>3, <2>2
  <2>4. Cardinality(Pairs(lines, s, l)) \in Nat
    BY FS_CardinalityType
  <2> QED
    BY <1>4, <2>3, <2>4 DEF all
<1>5. ASSUME NEW k \in DOMAIN more, more[k].lumi = l, CountIn(more[k], s) = c,
             \A m \in DOMAIN more : more[m].lumi = l => m = k
      PROVE  /\ Pairs(all, s, l) = Pairs(lines, s, l) \cup Of(N + k)
             /\ Pairs(lines, s, l) \cap Of(N + k) = {}
             /\ Of(N + k) = {N + k} \X (1 .. c)
  <2>1. \A m \in DOMAIN all : m \notin DOMAIN lines => m - N \in DOMAIN more /\ N + (m - N) = m
    BY <1>1
  <2>2. N + k \in DOMAIN all /\ N + k \notin DOMAIN lines /\ all[N + k] = more[k]
    BY <1>1
  <2>3. {m \in DOMAIN all : all[m].lumi = l} = {m \in DOMAIN lines : all[m].lumi = l} \cup {N + k}
    <3>1. ASSUME NEW m \in DOMAIN all, all[m].lumi = l, m \notin DOMAIN lines PROVE m = N + k
      <4>1. m - N \in DOMAIN more /\ N + (m - N) = m
        BY <2>1, <3>1
      <4>2. more[m - N].lumi = l
        BY <1>1, <3>1, <4>1
      <4>3. m - N = k
        BY <1>5, <4>1, <4>2
      <4> QED
        BY <4>1, <4>3
    <3>2. DOMAIN lines \subseteq DOMAIN all
      BY <1>1
    <3> QED
      BY <1>5, <2>2, <3>1, <3>2
  <2>4. Pairs(all, s, l) = Pairs(lines, s, l) \cup Of(N + k)
    BY <1>2, <1>3, <2>3
  <2>5. \A p \in Pairs(lines, s, l) : p[1] \in DOMAIN lines
    BY <1>2
  <2>6. \A p \in Of(N + k) : p[1] = N + k
    OBVIOUS
  <2> QED
    BY <1>5, <2>2, <2>4, <2>5, <2>6
<1>6. CASE \E k \in DOMAIN more : /\ more[k].lumi = l /\ CountIn(more[k], s) = c
                                  /\ \A m \in DOMAIN more : more[m].lumi = l => m = k
  <2>1. PICK k \in DOMAIN more : /\ Pairs(all, s, l) = Pairs(lines, s, l) \cup Of(N + k)
                                 /\ Pairs(lines, s, l) \cap Of(N + k) = {}
                                 /\ Of(N + k) = {N + k} \X (1 .. c)
    BY <1>5, <1>6
  <2> HIDE DEF Of
  <2>2. IsFiniteSet(Of(N + k)) /\ Cardinality(Of(N + k)) = c
    <3>1. IsFiniteSet({N + k} \X (1 .. c)) /\ Cardinality({N + k} \X (1 .. c)) = c
      BY PairsOfOne, Zenon
    <3> QED
      BY <2>1, <3>1, Zenon
  <2>3. /\ IsFiniteSet(Pairs(all, s, l)) /\ Cardinality(Pairs(lines, s, l)) \in Nat
        /\ Cardinality(Pairs(all, s, l)) = Cardinality(Pairs(lines, s, l)) + Cardinality(Of(N + k))
    <3> DEFINE old == Pairs(lines, s, l)
               new == Of(N + k)
    <3>1. IsFiniteSet(old) /\ IsFiniteSet(new) /\ old \cap new = {} /\ Pairs(all, s, l) = old \cup new
      BY <2>1, <2>2
    <3> HIDE DEF old, new
    <3>2. /\ IsFiniteSet(old \cup new) /\ Cardinality(old) \in Nat
          /\ Cardinality(old \cup new) = Cardinality(old) + Cardinality(new)
      BY <3>1, AddDisjoint
    <3> QED
      BY <3>1, <3>2, Zenon DEF old, new
  <2> QED
    BY <2>2, <2>3 DEF all
<1> QED
  BY <1>4, <1>6 DEF OneLine

\* A line is added to what was reported.
LEMMA LineTold ==
  ASSUME NEW lines \in Seq(Lines), NEW line \in Lines, NEW report, Tells(report, lines)
  PROVE  Append(lines, line) \in Seq(Lines) /\ Tells(Reported(report, line), Append(lines, line))
<1> DEFINE N == Len(lines)
           all == Append(lines, line)
<1>1. /\ all \in Seq(Lines) /\ N \in Nat /\ DOMAIN lines = 1 .. N /\ DOMAIN all = DOMAIN lines \cup {N + 1}
      /\ N + 1 \notin DOMAIN lines /\ all[N + 1] = line /\ \A n \in DOMAIN lines : all[n] = lines[n]
  OBVIOUS
<1>2. /\ report \in Reports
      /\ report.lsCountWithFiles \in Nat /\ report.eolsCount \in Nat
      /\ report.latestLumiSectionWritten \in Nat
  BY DEF Tells, Reports
<1>3. line.lumi \in Nat /\ line.eols \in {0, 1}
  <2>1. line.lumi \in AllLumis /\ line.eols \in {0, 1}
    BY Zenon DEF Lines
  <2>2. AllLumis \subseteq Nat
    BY SizesAssumption DEF AllLumis
  <2> QED
    BY <2>1, <2>2
<1> DEFINE new == Reported(report, line)
<1>4. /\ new \in Reports
      /\ new.eolsCount = report.eolsCount + line.eols
      /\ new.lsCountWithFiles = report.lsCountWithFiles + (IF WithFiles(line.counts) THEN 1 ELSE 0)
  BY <1>2, <1>3 DEF Reported, Reports
<1> HIDE DEF N, all, new
<1>5. IsFiniteSet(FilledLines(all)) /\ Cardinality(FilledLines(all)) = new.lsCountWithFiles
  <2>1. IsFiniteSet(FilledLines(lines)) /\ Cardinality(FilledLines(lines)) = report.lsCountWithFiles
    BY DEF Tells
  <2>2. FilledLines(all) = IF WithFiles(line.counts) THEN FilledLines(lines) \cup {N + 1}
                                                     ELSE FilledLines(lines)
    BY <1>1 DEF FilledLines
  <2>3. N + 1 \notin FilledLines(lines)
    BY <1>1 DEF FilledLines
  <2>4. /\ IsFiniteSet(FilledLines(lines) \cup {N + 1})
        /\ Cardinality(FilledLines(lines) \cup {N + 1}) = Cardinality(FilledLines(lines)) + 1
    BY <2>1, <2>3, FS_AddElement
  <2> QED
    BY <1>2, <1>4, <2>1, <2>2, <2>4
<1>6. IsFiniteSet(EoLSLines(all)) /\ Cardinality(EoLSLines(all)) = new.eolsCount
  <2>1. IsFiniteSet(EoLSLines(lines)) /\ Cardinality(EoLSLines(lines)) = report.eolsCount
    BY DEF Tells
  <2>2. EoLSLines(all) = IF line.eols = 1 THEN EoLSLines(lines) \cup {N + 1} ELSE EoLSLines(lines)
    BY <1>1 DEF EoLSLines
  <2>3. N + 1 \notin EoLSLines(lines)
    BY <1>1 DEF EoLSLines
  <2>4. /\ IsFiniteSet(EoLSLines(lines) \cup {N + 1})
        /\ Cardinality(EoLSLines(lines) \cup {N + 1}) = Cardinality(EoLSLines(lines)) + 1
    BY <2>1, <2>3, FS_AddElement
  <2> QED
    BY <1>2, <1>3, <1>4, <2>1, <2>2, <2>4
<1>7. all \in Seq(Lines) /\ Tells(new, all)
  BY <1>1, <1>4, <1>5, <1>6 DEF Tells
<1> QED
  BY <1>7 DEF all, new

\* What is reported after each line, up to the N-th.
IsUpTo(f, N, report, lines) ==
  f = [n \in 0 .. N |-> IF n = 0 THEN report ELSE Reported(f[n - 1], lines[n])]

\* ReportedAll is defined by recursion over the lines: there is such a function.
LEMMA UpToExists ==
  ASSUME NEW report, NEW lines, NEW k \in Nat
  PROVE  \E f : IsUpTo(f, k, report, lines)
<1> DEFINE Made == {N \in Nat : \E f : IsUpTo(f, N, report, lines)}
           F(p, n) == Reported(p, lines[n])
<1>1. 0 \in Made
  <2> DEFINE f == [n \in 0 .. 0 |-> report]
  <2>1. \A n \in 0 .. 0 : n = 0
    OBVIOUS
  <2>2. IsUpTo(f, 0, report, lines)
    BY <2>1 DEF IsUpTo
  <2> QED
    BY <2>2
<1>2. ASSUME NEW N \in Nat, N \in Made PROVE N + 1 \in Made
  <2> HIDE DEF F
  <2>1. PICK g : g = [n \in 0 .. N |-> IF n = 0 THEN report ELSE F(g[n - 1], n)]
    BY <1>2 DEF IsUpTo, F
  <2> DEFINE f == [n \in 0 .. N + 1 |-> IF n = N + 1 THEN F(g[N], N + 1) ELSE g[n]]
  <2>2. \A n \in 0 .. N + 1 : n # 0 => n - 1 \in 0 .. N + 1 /\ n - 1 # N + 1 /\ f[n - 1] = g[n - 1]
    OBVIOUS
  <2>3. ASSUME NEW n \in 0 .. N + 1 PROVE f[n] = IF n = 0 THEN report ELSE F(f[n - 1], n)
    <3>1. CASE n = N + 1
      <4>1. n # 0 /\ n - 1 = N /\ f[n] = F(g[N], n) /\ f[N] = g[N]
        BY <3>1
      <4> HIDE DEF f
      <4> QED
        BY <4>1
    <3>2. CASE n # N + 1
      <4>1. f[n] = g[n] /\ n \in 0 .. N
        BY <3>2
      <4>2. g[n] = IF n = 0 THEN report ELSE F(g[n - 1], n)
        BY <2>1, <4>1
      <4>3. n # 0 => f[n - 1] = g[n - 1]
        BY <2>2
      <4> HIDE DEF f
      <4> QED
        BY <4>1, <4>2, <4>3
    <3> QED
      BY <3>1, <3>2
  <2>4. f = [n \in 0 .. N + 1 |-> f[n]]
    OBVIOUS
  <2> HIDE DEF f
  <2>5. f = [n \in 0 .. N + 1 |-> IF n = 0 THEN report ELSE F(f[n - 1], n)]
    BY <2>3, <2>4
  <2>6. IsUpTo(f, N + 1, report, lines)
    BY <2>5, Zenon DEF IsUpTo, F
  <2> QED
    BY <2>6
<1> HIDE DEF Made
<1>3. Nat \subseteq Made
  BY <1>1, <1>2, Induction
<1> QED
  BY <1>3 DEF Made

\* More lines are added to what was reported.
LEMMA LinesTold ==
  ASSUME NEW lines \in Seq(Lines), NEW more \in Seq(Lines), NEW report, Tells(report, lines)
  PROVE  Tells(ReportedAll(report, more), lines \o more)
<1>1. Len(more) \in Nat
  OBVIOUS
<1>2. \E g : IsUpTo(g, Len(more), report, more)
  BY <1>1, UpToExists
<1> DEFINE upTo[n \in 0 .. Len(more)] == IF n = 0 THEN report ELSE Reported(upTo[n - 1], more[n])
<1>3. IsUpTo(upTo, Len(more), report, more)
  BY <1>2, Zenon DEF IsUpTo
<1>4. ReportedAll(report, more) = upTo[Len(more)]
  BY Zenon DEF ReportedAll
<1> HIDE DEF upTo
<1>5. PICK f : f = upTo
  OBVIOUS
<1>6. \A n \in 0 .. Len(more) : f[n] = IF n = 0 THEN report ELSE Reported(f[n - 1], more[n])
  BY <1>3, <1>5 DEF IsUpTo
<1> DEFINE Part(n) == lines \o SubSeq(more, 1, n)
           ToldUpTo == {n \in Nat : n <= Len(more) => Part(n) \in Seq(Lines) /\ Tells(f[n], Part(n))}
<1>7. 0 \in ToldUpTo
  <2>1. Part(0) = lines
    <3>1. SubSeq(more, 1, 0) = <<>>
      OBVIOUS
    <3> QED
      BY <3>1
  <2>2. f[0] = report
    BY <1>1, <1>6
  <2> QED
    BY <2>1, <2>2
<1>8. ASSUME NEW n \in Nat, n \in ToldUpTo PROVE n + 1 \in ToldUpTo
  <2> SUFFICES ASSUME n + 1 <= Len(more)
               PROVE  Part(n + 1) \in Seq(Lines) /\ Tells(f[n + 1], Part(n + 1))
    OBVIOUS
  <2>1. n <= Len(more) /\ n + 1 \in 0 .. Len(more) /\ n + 1 # 0 /\ (n + 1) - 1 = n
    BY <1>1
  <2>2. Part(n) \in Seq(Lines) /\ Tells(f[n], Part(n))
    BY <1>8, <2>1
  <2>3. f[n + 1] = Reported(f[n], more[n + 1])
    BY <1>6, <2>1
  <2>4. more[n + 1] \in Lines
    BY <2>1
  <2>5. Part(n + 1) = Append(Part(n), more[n + 1])
    <3>1. SubSeq(more, 1, n + 1) = Append(SubSeq(more, 1, n), more[n + 1])
      BY <2>1
    <3>2. SubSeq(more, 1, n) \in Seq(Lines)
      BY <2>1
    <3> QED
      BY <2>4, <3>1, <3>2
  <2> HIDE DEF Part
  <2> QED
    BY <2>2, <2>3, <2>4, <2>5, LineTold
<1> HIDE DEF ToldUpTo
<1>9. Len(more) \in ToldUpTo
  BY <1>1, <1>7, <1>8, Induction
<1>10. Part(Len(more)) = lines \o more
  <2>1. SubSeq(more, 1, Len(more)) = more
    OBVIOUS
  <2> QED
    BY <2>1
<1>11. Tells(f[Len(more)], Part(Len(more)))
  BY <1>1, <1>9 DEF ToldUpTo
<1> HIDE DEF Part
<1> QED
  BY <1>4, <1>5, <1>10, <1>11

\* The lumi sections that are not reported are numbered in their order.
LEMMA SectionsNumbered ==
  ASSUME IsFiniteSet(UnreportedLS)
  PROVE  LET N == Cardinality(UnreportedLS)
         IN  /\ N \in Nat
             /\ \A n \in 1 .. N : UnreportedSection(n) \in UnreportedLS
             /\ \A l \in UnreportedLS : \E n \in 1 .. N : UnreportedSection(n) = l
             /\ \A m, n \in 1 .. N : UnreportedSection(m) = UnreportedSection(n) => m = n
<1> DEFINE U == UnreportedLS
           N == Cardinality(U)
           UpTo(l) == {m \in U : m <= l}
           rank == [l \in U |-> Cardinality(UpTo(l))]
<1>1. U \subseteq Nat
  <2>1. Lumis \cup {0} \subseteq Nat
    BY SizesAssumption
  <2>2. U \subseteq Lumis \cup {0}
    BY Zenon DEF UnreportedLS
  <2> HIDE DEF U
  <2> QED
    BY <2>1, <2>2
<1>2. N \in Nat /\ IsFiniteSet(1 .. N) /\ Cardinality(1 .. N) = N
  BY FS_CardinalityType, FS_Interval
<1>3. \A n : UnreportedSection(n) = CHOOSE l \in U : Cardinality(UpTo(l)) = n
  BY Zenon DEF UnreportedSection
<1>4. IsFiniteSet(U)
  OBVIOUS
<1> HIDE DEF U, N
<1>5. ASSUME NEW l \in U
      PROVE  /\ IsFiniteSet(UpTo(l)) /\ Cardinality(UpTo(l)) \in 1 .. N
  <2>1. UpTo(l) \in SUBSET U
    OBVIOUS
  <2>2. IsFiniteSet(UpTo(l)) /\ Cardinality(UpTo(l)) <= N
    BY <1>4, <2>1, FS_Subset DEF N
  <2>3. l \in UpTo(l)
    BY <1>1
  <2> HIDE DEF UpTo
  <2>4. Cardinality(UpTo(l)) \in Nat /\ Cardinality(UpTo(l)) # 0
    BY <2>2, <2>3, FS_CardinalityType, FS_EmptySet
  <2> QED
    BY <1>2, <2>2, <2>4
<1>6. ASSUME NEW k \in U, NEW l \in U, k < l PROVE Cardinality(UpTo(k)) # Cardinality(UpTo(l))
  <2>1. \A m \in U : m <= k => m <= l
    BY <1>1, <1>6
  <2>2. l \in UpTo(l) /\ l \notin UpTo(k)
    BY <1>1, <1>6
  <2>3. IsFiniteSet(UpTo(l)) /\ UpTo(k) \in SUBSET UpTo(l)
    BY <1>5, <2>1
  <2> HIDE DEF UpTo
  <2> QED
    BY <2>2, <2>3, FS_Subset
<1>7. ASSUME NEW k \in U, NEW l \in U, Cardinality(UpTo(k)) = Cardinality(UpTo(l)) PROVE k = l
  <2>1. k < l \/ l < k \/ k = l
    BY <1>1
  <2> HIDE DEF UpTo
  <2> QED
    BY <1>6, <1>7, <2>1
<1> HIDE DEF UpTo
<1>8. rank \in Injection(U, 1 .. N)
  BY <1>5, <1>7 DEF Injection, IsInjective
<1>9. rank \in Surjection(U, 1 .. N)
  BY <1>2, <1>8, FS_Injection DEF N
<1>10. ASSUME NEW n \in 1 .. N
       PROVE  UnreportedSection(n) \in U /\ Cardinality(UpTo(UnreportedSection(n))) = n
  <2>1. \E l \in U : rank[l] = n
    BY <1>9 DEF Surjection
  <2>2. \E l \in U : Cardinality(UpTo(l)) = n
    BY <2>1
  <2> QED
    BY <1>3, <2>2
<1>11. ASSUME NEW l \in U PROVE \E n \in 1 .. N : UnreportedSection(n) = l
  <2>1. PICK n \in 1 .. N : n = Cardinality(UpTo(l))
    BY <1>5
  <2>2. UnreportedSection(n) = l
    BY <1>7, <1>10, <2>1
  <2> QED
    BY <2>2
<1>12. ASSUME NEW m \in 1 .. N, NEW n \in 1 .. N, UnreportedSection(m) = UnreportedSection(n)
       PROVE  m = n
  <2>1. Cardinality(UpTo(UnreportedSection(m))) = m /\ Cardinality(UpTo(UnreportedSection(n))) = n
    BY <1>10
  <2> QED
    BY <1>12, <2>1
<1> QED
  BY <1>2, <1>10, <1>11, <1>12 DEF U, N

\* The lines of the lumi sections that are not reported: one for each.
LEMMA LinesRemain ==
  ASSUME IsFiniteSet(UnreportedLS), fileCountPerLS \in [Labels -> [AllLumis -> Nat]]
  PROVE  /\ RemainingLines \in Seq(Lines)
         /\ \A s \in Labels, l \in AllLumis : OneLine(RemainingLines, s, l, fileCountPerLS[s][l])
<1> DEFINE U == UnreportedLS
           N == Cardinality(U)
           At(n) == UnreportedSection(n)
           Of(l) == [m \in DOMAIN Streams |-> fileCountPerLS[Streams[m]][l]]
<1>1. /\ N \in Nat /\ \A n \in 1 .. N : At(n) \in U
      /\ \A l \in U : \E n \in 1 .. N : At(n) = l
      /\ \A m, n \in 1 .. N : At(m) = At(n) => m = n
  BY SectionsNumbered
<1>2. U = {l \in AllLumis : \E s \in Labels : fileCountPerLS[s][l] > 0}
  BY DEF UnreportedLS, AllLumis
<1>3. RemainingLines = [n \in 1 .. N |-> Line(At(n), Of(At(n)), 0)]
  BY Zenon DEF RemainingLines
<1>4. Len(Streams) \in Nat /\ DOMAIN Streams = 1 .. Len(Streams)
  BY StreamsAssumption
<1> HIDE DEF U, N, At
<1>5. ASSUME NEW l \in AllLumis
      PROVE  Line(l, Of(l), 0) \in Lines
  <2>1. \A m \in 1 .. Len(Streams) : fileCountPerLS[Streams[m]][l] \in Nat
    BY <1>4, <1>5, PlaceOfStream
  <2>2. Of(l) \in Seq(Nat) /\ Len(Of(l)) = Len(Streams)
    BY <1>4, <2>1
  <2> HIDE DEF Of
  <2> QED
    BY <2>2 DEF Line, Lines
<1>6. RemainingLines \in Seq(Lines) /\ DOMAIN RemainingLines = 1 .. N
  <2>1. \A n \in 1 .. N : At(n) \in AllLumis
    BY <1>1, <1>2
  <2> HIDE DEF Of
  <2>2. \A n \in 1 .. N : Line(At(n), Of(At(n)), 0) \in Lines
    BY <1>5, <2>1
  <2> QED
    BY <1>1, <1>3, <2>2
<1>7. ASSUME NEW s \in Labels, NEW l \in AllLumis
      PROVE  OneLine(RemainingLines, s, l, fileCountPerLS[s][l])
  <2>1. \A n \in 1 .. N : RemainingLines[n].lumi = At(n)
    BY <1>3 DEF Line
  <2>2. CASE l \notin U
    <3>1. fileCountPerLS[s][l] = 0
      BY <1>2, <1>7, <2>2
    <3> QED
      BY <1>1, <1>6, <2>1, <2>2, <3>1 DEF OneLine
  <2>3. CASE l \in U
    <3>1. PICK k \in 1 .. N : At(k) = l
      BY <1>1, <2>3
    <3>2. CountIn(RemainingLines[k], s) = fileCountPerLS[s][l]
      <4>1. RemainingLines[k].counts = Of(l)
        BY <1>3, <3>1 DEF Line
      <4>2. PositionOf(s) \in DOMAIN Streams /\ Streams[PositionOf(s)] = s
        BY StreamAtPlace
      <4> QED
        BY <4>1, <4>2 DEF CountIn
    <3>3. \A m \in 1 .. N : RemainingLines[m].lumi = l => m = k
      BY <1>1, <2>1, <3>1
    <3> QED
      BY <1>6, <2>1, <3>1, <3>2, <3>3 DEF OneLine
  <2> QED
    BY <2>2, <2>3
<1> QED
  BY <1>6, <1>7

\* The files keep their names.
SameNames ==
  DOMAIN files' = DOMAIN files /\ \A f \in DOMAIN files : SameName(files[f], files'[f])

\* Files that only change have the names that they had.
LEMMA FollowersSameNames ==
  ASSUME IInv, AllFollow(files')
  PROVE  SameNames
BY DEF AllFollow, Follows, SameNames

\* The files of a stream in a lumi section are finitely many.
LEMMA FilesOfFinite ==
  ASSUME IInv, NEW s, NEW l
  PROVE  IsFiniteSet(FilesOf(s, l)) /\ Cardinality(FilesOf(s, l)) \in Nat
<1>1. IsFiniteSet(DOMAIN files)
  BY FilesTyped, FS_Interval
<1>2. FilesOf(s, l) \in SUBSET DOMAIN files
  BY DEF FilesOf
<1> QED
  BY <1>1, <1>2, FS_Subset, FS_CardinalityType

\* They are the same as long as no file is made.
LEMMA FilesOfSame ==
  ASSUME SameNames, UNCHANGED run, NEW s, NEW l
  PROVE  FilesOf(s, l)' = FilesOf(s, l)
BY DEF SameNames, SameName, FilesOf

\* The books stay as they are.
BooksKept ==
  /\ SameNames
  /\ UNCHANGED <<run, configured, log, endOfRunReport, fileCountPerLS>>
  /\ request' = request \/ (request' = "destroy" /\ configured /\ request # "configure")
  /\ failed => failed'

\* What the DiskWriter does has nothing to do with the end of a lumi section.
LEMMA NothingReported ==
  ASSUME RInv, BooksKept,
         dw' = dw \/ (dw.doing # "eols" /\ (dw'.doing = "eols" => dw'.counts = <<>>)), InTurn'
  PROVE  RInv'
<1> SUFFICES ASSUME ~failed' PROVE LogInv' /\ CountInv'
  BY DEF RInv
<1>1. LogInv /\ CountInv
  BY DEF RInv, BooksKept
<1>2. LogInv'
  BY <1>1 DEF LogInv, BooksKept, Tells, FilledLines, EoLSLines, WithFiles
<1>3. ASSUME NEW s \in Labels, NEW l \in AllLumis
      PROVE  UnderReport(s, l)' = UnderReport(s, l)
  <2>1. CASE dw' = dw
    BY <2>1 DEF UnderReport, CountIn, PositionOf
  <2>2. CASE dw.doing # "eols" /\ (dw'.doing = "eols" => dw'.counts = <<>>)
    <3>1. DOMAIN <<>> = {}
      OBVIOUS
    <3> QED
      BY <2>2, <3>1 DEF UnderReport, CountIn
  <2> QED
    BY <2>1, <2>2
<1>4. ASSUME request' # "configure", NEW s \in Labels, NEW l \in AllLumis
      PROVE  AddsUp(s, l)'
  <2>1. AddsUp(s, l)
    BY <1>1, <1>4 DEF CountInv, BooksKept
  <2>2. FilesOf(s, l)' = FilesOf(s, l)
    BY FilesOfSame DEF BooksKept
  <2>3. Pairs(log.lines, s, l)' = Pairs(log.lines, s, l)
    BY DEF BooksKept, Pairs, CountIn, PositionOf
  <2>4. fileCountPerLS'[s][l] = fileCountPerLS[s][l] /\ UnderReport(s, l)' = UnderReport(s, l)
    BY <1>3 DEF BooksKept
  <2> QED
    BY <2>1, <2>2, <2>3, <2>4 DEF AddsUp
<1>5. CountInv'
  BY <1>1, <1>4 DEF CountInv, BooksKept, NoCounts
<1> QED
  BY <1>2, <1>5

\* A new file is counted.
LEMMA NewFileCounted ==
  ASSUME IInv, RInv, NEW after, AllFollow(after), NEW s \in Labels, NEW l \in AllLumis,
         NEW new, new.stream = s, new.run = run, new.lumi = l,
         files' = Append(after, new),
         fileCountPerLS' = [fileCountPerLS EXCEPT ![s][l] = @ + 1],
         UNCHANGED <<run, configured, request, failed, log, endOfRunReport>>,
         dw.doing # "eols", dw'.doing # "eols", request # "configure"
  PROVE  RInv'
<1> SUFFICES ASSUME ~failed PROVE InTurn' /\ LogInv' /\ CountInv'
  BY DEF RInv
<1>1. LogInv /\ CountInv
  BY DEF RInv
<1>2. LogInv'
  BY <1>1 DEF LogInv, Tells, FilledLines, EoLSLines, WithFiles
<1>3. InTurn'
  BY DEF InTurn
<1>4. fileCountPerLS \in [Labels -> [AllLumis -> Nat]]
  BY <1>1 DEF CountInv
<1>5. /\ fileCountPerLS' \in [Labels -> [AllLumis -> Nat]]
      /\ \A r \in Labels, k \in AllLumis :
           fileCountPerLS'[r][k] = fileCountPerLS[r][k] + (IF r = s /\ k = l THEN 1 ELSE 0)
  BY <1>4
<1> DEFINE last == Len(files) + 1
<1>6. /\ DOMAIN files' = DOMAIN files \cup {last} /\ last \notin DOMAIN files
      /\ files'[last] = new /\ \A f \in DOMAIN files : files'[f] = after[f]
  <2>1. after \in Seq(FittingFiles) /\ Len(after) = Len(files) /\ Len(files) \in Nat
    BY FollowSequence, FilesTyped
  <2>2. DOMAIN files = 1 .. Len(files)
    BY FilesTyped
  <2> QED
    BY <2>1, <2>2
<1> HIDE DEF last
<1>7. \A f \in DOMAIN files : SameName(files[f], files'[f])
  BY <1>6 DEF AllFollow, Follows
<1>8. ASSUME NEW r \in Labels, NEW k \in AllLumis
      PROVE  AddsUp(r, k)'
  <2>1. FilesOf(r, k)' = FilesOf(r, k) \cup (IF r = s /\ k = l THEN {last} ELSE {})
    BY <1>6, <1>7 DEF FilesOf, SameName
  <2>2. last \notin FilesOf(r, k)
    BY <1>6 DEF FilesOf
  <2>3. IsFiniteSet(FilesOf(r, k)) /\ Cardinality(FilesOf(r, k)) \in Nat
    BY FilesOfFinite
  <2>4. Cardinality(FilesOf(r, k)') = Cardinality(FilesOf(r, k)) + (IF r = s /\ k = l THEN 1 ELSE 0)
    <3>1. Cardinality(FilesOf(r, k) \cup {last}) = Cardinality(FilesOf(r, k)) + 1
      BY <2>2, <2>3, FS_AddElement
    <3>2. CASE r = s /\ k = l
      BY <2>1, <3>1, <3>2
    <3>3. CASE ~(r = s /\ k = l)
      <4>1. FilesOf(r, k)' = FilesOf(r, k)
        BY <2>1, <3>3
      <4> QED
        BY <2>3, <3>3, <4>1
    <3> QED
      BY <3>2, <3>3
  <2>5. AddsUp(r, k)
    BY <1>1 DEF CountInv
  <2>6. Pairs(log.lines, r, k)' = Pairs(log.lines, r, k)
    BY DEF Pairs, CountIn, PositionOf
  <2>7. UnderReport(r, k)' = 0 /\ UnderReport(r, k) = 0
    BY DEF UnderReport
  <2>8. Cardinality(Pairs(log.lines, r, k)) \in Nat
    BY <2>5, FS_CardinalityType DEF AddsUp
  <2>9. fileCountPerLS[r][k] \in Nat
    BY <1>4
  <2> QED
    BY <1>5, <2>4, <2>5, <2>6, <2>7, <2>8, <2>9 DEF AddsUp
<1>9. CountInv'
  BY <1>5, <1>8 DEF CountInv
<1> QED
  BY <1>2, <1>3, <1>9

\* A file is opened, or could not be made, for the reports.
LEMMA NewFileReported ==
  ASSUME IInv, RInv, dw.doing = "event", NEW n \in DOMAIN Streams, NEW kept, NEW closing,
         NEW victim, NEW fault, newFileHandler(n, kept, closing, victim, fault),
         UNCHANGED <<run, configured, request, log, endOfRunReport>>
  PROVE  RInv'
<1> DEFINE s == Streams[n]
           after == FilesAfter(closing, victim, fault)
<1>1. s \in Labels
  BY DEF Labels
<1>2. PICK lumi \in (IF Kind[s] = "faulty" THEN {dw.lumi, 0} ELSE {dw.lumi}),
           format \in (IF Kind[s] = "faulty" THEN {"event", "error"} ELSE {Kind[s]}) :
        \/ Fail
        \/ /\ \E torn \in Torn(fault, format) :
                files' = Append(after, FirstWritten(Record(s, lumi, format), fault, torn))
           /\ fileCountPerLS' = [fileCountPerLS EXCEPT ![s][lumi] = @ + 1]
           /\ NextStream(n) /\ UNCHANGED failed
  BY DEF newFileHandler
<1>3. AllFollow(after)
  BY ClosingFollows
<1> HIDE DEF after
<1>4. lumi \in AllLumis
  BY <1>2 DEF IInv, ControlInv, Tasks, AllLumis
<1>5. Kind[s] \in {"faulty", "event", "error"}
  BY StreamsAssumption
<1>6. format \in {"event", "error"}
  BY <1>2, <1>5
<1> HIDE DEF s
<1>7. CASE Fail
  BY <1>7 DEF Fail, RInv
<1>8. CASE /\ \E torn \in Torn(fault, format) :
                files' = Append(after, FirstWritten(Record(s, lumi, format), fault, torn))
           /\ fileCountPerLS' = [fileCountPerLS EXCEPT ![s][lumi] = @ + 1]
           /\ NextStream(n) /\ UNCHANGED failed
  <2>0. PICK torn \in Nat : files' = Append(after, FirstWritten(Record(s, lumi, format), fault, torn))
    BY <1>8, TornTyped
  <2> DEFINE new == FirstWritten(Record(s, lumi, format), fault, torn)
  <2>1. new.stream = s /\ new.run = run /\ new.lumi = lumi
    BY <1>1, <1>4, <1>6, RecordFits
  <2>2. files' = Append(after, new)
    BY <2>0
  <2> HIDE DEF new
  <2>3. dw'.doing # "eols"
    BY <1>8 DEF NextStream, IInv, ControlInv, Tasks
  <2>4. request # "configure"
    BY DEF IInv, ControlInv
  <2> QED
    BY <1>1, <1>3, <1>4, <1>8, <2>1, <2>2, <2>3, <2>4, NewFileCounted
<1> QED
  BY <1>2, <1>7, <1>8

\* One stream's turn with an event, for the reports.
LEMMA EventReported ==
  ASSUME IInv, RInv, writeEventToStreams
  PROVE  RInv'
<1>1. UNCHANGED <<run, configured, request, log, endOfRunReport>> /\ dw.doing = "event"
  BY DEF writeEventToStreams
<1>2. PICK n \in DOMAIN Streams, fault \in Faults \cup {"none"} :
        \/ \E victim : StartFaultyFile(n, victim, fault)
        \/ StartFirstFile(n, fault)
        \/ \E i : WriteToOpenFile(n, i, fault)
        \/ \E i : StartNextFile(n, i, fault)
  BY DEF writeEventToStreams
<1>3. ASSUME NEW victim, StartFaultyFile(n, victim, fault) PROVE RInv'
  BY <1>1, <1>3, NewFileReported DEF StartFaultyFile
<1>4. CASE StartFirstFile(n, fault)
  BY <1>1, <1>4, NewFileReported DEF StartFirstFile
<1>5. ASSUME NEW i, StartNextFile(n, i, fault) PROVE RInv'
  <2>1. CASE Fail
    BY <2>1 DEF Fail, RInv
  <2>2. ASSUME NEW kept, NEW closing, NEW f, newFileHandler(n, kept, closing, f, fault) PROVE RInv'
    BY <1>1, <2>2, NewFileReported
  <2> QED
    BY <1>5, <2>1, <2>2 DEF StartNextFile
<1>6. ASSUME NEW i, WriteToOpenFile(n, i, fault) PROVE RInv'
  <2> DEFINE f == fileHandlers[Streams[n]][i]
  <2>1. \/ Fail
        \/ /\ files' = [files EXCEPT ![f] = Written(@)] \/ UNCHANGED files
           /\ UNCHANGED <<failed, fileCountPerLS>>
           /\ NextStream(n) \/ dw' = [dw EXCEPT !.doing = "crashed"]
    BY <1>6 DEF WriteToOpenFile
  <2>2. CASE Fail
    BY <2>2 DEF Fail, RInv
  <2>3. CASE /\ files' = [files EXCEPT ![f] = Written(@)] \/ UNCHANGED files
             /\ UNCHANGED <<failed, fileCountPerLS>>
             /\ NextStream(n) \/ dw' = [dw EXCEPT !.doing = "crashed"]
    <3>1. dw'.doing # "eols"
      BY <1>1, <2>3 DEF NextStream, IInv, ControlInv, Tasks
    <3>2. SameNames
      <4> HIDE DEF f
      <4>1. \A g \in DOMAIN files : files[g] \in Files
        BY FilesTyped DEF FittingFiles
      <4>2. \A g \in DOMAIN files : SameName(files[g], Written(files[g]))
        BY <4>1 DEF SameName, Written, Files
      <4> QED
        BY <2>3, <4>2 DEF SameNames, SameName
    <3>3. BooksKept
      BY <1>1, <2>3, <3>2 DEF BooksKept
    <3>4. InTurn'
      BY <3>1 DEF InTurn
    <3> QED
      BY <1>1, <3>1, <3>3, <3>4, NothingReported
  <2> QED
    BY <2>1, <2>2, <2>3
<1> QED
  BY <1>2, <1>3, <1>4, <1>5, <1>6

\* One stream's turn with the files that are too old, for the reports.
LEMMA TimeOutsReported ==
  ASSUME IInv, RInv, closeTimedOutFiles
  PROVE  RInv'
<1>1. /\ UNCHANGED <<run, configured, request, fileCountPerLS, endOfRunReport, log>>
      /\ dw.doing = "timeouts"
  BY DEF closeTimedOutFiles
<1>2. PICK n, doomed, victim, fault :
        /\ SweepStream(Streams[n], doomed, victim, fault)
        /\ \/ Fail
           \/ (dw' = Idle \/ dw' = [dw EXCEPT !.rest = @ \ {n}]) /\ UNCHANGED failed
  BY DEF closeTimedOutFiles
<1>3. SameNames
  BY <1>2, ClosingFollows, FollowersSameNames DEF SweepStream
<1>4. CASE Fail
  BY <1>4 DEF Fail, RInv
<1>5. CASE (dw' = Idle \/ dw' = [dw EXCEPT !.rest = @ \ {n}]) /\ UNCHANGED failed
  <2>1. dw'.doing # "eols"
    BY <1>1, <1>5 DEF Idle, IInv, ControlInv, Tasks
  <2>2. InTurn' /\ BooksKept
    BY <1>1, <1>3, <1>5, <2>1 DEF InTurn, BooksKept
  <2> QED
    BY <1>1, <2>1, <2>2, NothingReported
<1> QED
  BY <1>2, <1>4, <1>5

\* A message has come, or none; a file grows old or is spoilt; or the run ends: for the reports.
LEMMA NothingMuchReported ==
  ASSUME IInv, RInv,
         \/ skipFileTimeOuts \/ timedOut \/ endRun \/ UNCHANGED vars
         \/ \E l \in Lumis : takeEndOfLumiSection(l)
         \/ \E n \in DOMAIN Streams :
              \E T \in TagsOf(n), l \in Lumis, z \in Sizes : takeEvent(T, l, z)
         \/ \E f \in DOMAIN files : becomesTooOld(f) \/ losesData(f, 0) \/ losesData(f, 1)
  PROVE  RInv'
<1>1. SameNames
  <2>1. ASSUME NEW f, NEW g, files' = [files EXCEPT ![f] = g], f \in DOMAIN files => SameName(files[f], g)
        PROVE  SameNames
    BY <2>1 DEF SameNames, SameName
  <2>2. \A f \in DOMAIN files : files[f] \in Files
    BY FilesTyped DEF FittingFiles
  <2>3. ASSUME NEW f \in DOMAIN files, becomesTooOld(f) \/ losesData(f, 0) \/ losesData(f, 1)
        PROVE  SameNames
    <3>1. PICK n \in Nat : \/ files' = [files EXCEPT ![f].old = TRUE]
                           \/ files' = [files EXCEPT ![f].onDisk = n]
      BY <2>3 DEF becomesTooOld, losesData
    <3> DEFINE old == [files[f] EXCEPT !.old = TRUE]
               lost == [files[f] EXCEPT !.onDisk = n]
    <3>2. SameName(files[f], old) /\ SameName(files[f], lost)
      BY <2>2 DEF SameName, Files
    <3>3. files' = [files EXCEPT ![f] = old] \/ files' = [files EXCEPT ![f] = lost]
      BY <3>1, Zenon
    <3> HIDE DEF old, lost
    <3> QED
      BY <2>1, <3>2, <3>3
  <2>4. CASE UNCHANGED files
    BY <2>4 DEF SameNames, SameName
  <2> QED
    BY <2>3, <2>4 DEF skipFileTimeOuts, timedOut, endRun, vars, takeEndOfLumiSection, takeEvent
<1>2. BooksKept
  <2>1. UNCHANGED <<run, configured, failed, log, endOfRunReport, fileCountPerLS>>
    BY DEF skipFileTimeOuts, timedOut, endRun, vars, takeEndOfLumiSection, takeEvent, becomesTooOld,
           losesData
  <2>2. request' = request \/ (request' = "destroy" /\ configured /\ request # "configure")
    <3>1. CASE endRun
      BY <3>1 DEF endRun
    <3>2. CASE UNCHANGED request
      BY <3>2
    <3> QED
      BY <3>1, <3>2 DEF skipFileTimeOuts, timedOut, vars, takeEndOfLumiSection, takeEvent,
                        becomesTooOld, losesData
  <2> QED
    BY <1>1, <2>1, <2>2 DEF BooksKept
<1>3. /\ dw' = dw \/ (dw.doing # "eols" /\ (dw'.doing = "eols" => dw'.counts = <<>>))
      /\ InTurn \/ failed => InTurn' \/ failed'
  <2>1. CASE UNCHANGED <<dw, configured, failed>>
    BY <2>1 DEF InTurn
  <2>2. CASE skipFileTimeOuts \/ timedOut
    <3>1. dw.doing # "eols" /\ dw'.doing # "eols"
      <4>1. CASE skipFileTimeOuts
        BY <4>1 DEF skipFileTimeOuts, Idle
      <4>2. CASE timedOut
        BY <4>2 DEF timedOut, Idle
      <4> QED
        BY <2>2, <4>1, <4>2
    <3> QED
      BY <3>1 DEF InTurn
  <2>3. ASSUME NEW l \in Lumis, takeEndOfLumiSection(l)
        PROVE  /\ dw.doing # "eols" /\ dw'.counts = <<>>
               /\ InTurn'
    <3>1. /\ dw' = [doing |-> "eols", rest |-> DOMAIN Streams, lumi |-> l, size |-> 0, counts |-> <<>>]
          /\ dw.doing # "eols" /\ configured'
      BY <2>3 DEF takeEndOfLumiSection, Idle
    <3>2. DOMAIN Streams = 1 .. Len(Streams) /\ Len(Streams) > 0
      BY StreamsAssumption
    <3>3. dw'.counts \in Seq(Nat) /\ Len(dw'.counts) = 0
      BY <3>1
    <3> QED
      BY <3>1, <3>2, <3>3 DEF InTurn
  <2>4. ASSUME NEW T, NEW l, NEW z, takeEvent(T, l, z)
        PROVE  dw.doing # "eols" /\ dw'.doing # "eols" /\ InTurn'
    BY <2>4 DEF takeEvent, Idle, InTurn
  <2> QED
    BY <2>1, <2>2, <2>3, <2>4 DEF endRun, vars, becomesTooOld, losesData
<1>4. CASE failed'
  BY <1>4 DEF RInv
<1>5. CASE ~failed'
  <2>1. InTurn'
    BY <1>2, <1>3, <1>5 DEF RInv, BooksKept
  <2> QED
    BY <1>2, <1>3, <2>1, NothingReported
<1> QED
  BY <1>4, <1>5

\* A run starts, for the reports.
LEMMA RunReported ==
  ASSUME IInv, RInv, startRun
  PROVE  RInv'
<1>1. /\ ~configured /\ request' = "configure" /\ fileCountPerLS' = NoCounts
      /\ UNCHANGED <<configured, failed, dw, endOfRunReport, log>>
  BY DEF startRun
<1> SUFFICES ASSUME ~failed PROVE InTurn' /\ LogInv' /\ CountInv'
  BY <1>1 DEF RInv
<1>2. InTurn /\ LogInv
  BY DEF RInv
<1>3. InTurn'
  BY <1>1, <1>2 DEF InTurn
<1>4. LogInv'
  BY <1>1, <1>2 DEF LogInv, Tells, FilledLines, EoLSLines, WithFiles
<1>5. CountInv'
  BY <1>1 DEF CountInv, NoCounts, AllLumis
<1> QED
  BY <1>3, <1>4, <1>5

\* The count of the next stream in turn is added to those of the streams before it.
LEMMA CountTaken ==
  ASSUME NEW counts \in Seq(Nat), NEW c \in Nat, NEW n \in DOMAIN Streams, n = Len(counts) + 1,
         NEW before, before.counts = counts, NEW now, now.counts = Append(counts, c),
         NEW r \in Labels
  PROVE  /\ r = Streams[n] => CountIn(before, r) = 0 /\ CountIn(now, r) = c
         /\ r # Streams[n] => CountIn(now, r) = CountIn(before, r)
         /\ CountIn(now, r) \in Nat
<1>1. /\ PositionOf(r) \in DOMAIN Streams /\ (r = Streams[n] <=> PositionOf(r) = n)
  BY PlaceOfStream, StreamAtPlace
<1> DEFINE p == PositionOf(r)
           more == Append(counts, c)
<1>2. /\ DOMAIN counts = 1 .. Len(counts) /\ Len(counts) \in Nat /\ DOMAIN more = 1 .. n
      /\ more[n] = c /\ (\A m \in DOMAIN counts : more[m] = counts[m] /\ counts[m] \in Nat)
  OBVIOUS
<1>3. CountIn(before, r) = (IF p \in DOMAIN counts THEN counts[p] ELSE 0)
  BY DEF CountIn
<1>4. CountIn(now, r) = (IF p \in DOMAIN more THEN more[p] ELSE 0)
  BY DEF CountIn
<1> HIDE DEF more, p
<1>5. n \notin DOMAIN counts /\ \A m \in DOMAIN more : m # n => m \in DOMAIN counts
  BY <1>2
<1> QED
  BY <1>1, <1>2, <1>3, <1>4, <1>5 DEF p

\* The streams from one to the last are one stream if that is the last.
LEMMA LastInTurn ==
  ASSUME NEW k \in Nat, NEW M \in Nat, k < M, dw.rest = k + 1 .. M
  PROVE  LastStream <=> k + 1 = M
<1>1. Cardinality(k + 1 .. M) = IF k + 1 > M THEN 0 ELSE M - (k + 1) + 1
  BY FS_Interval
<1>2. LastStream <=> Cardinality(k + 1 .. M) = 1
  BY Zenon DEF LastStream
<1> QED
  BY <1>1, <1>2

\* What a line adds to the pairs of a lumi section.
LEMMA PairsOfLine ==
  ASSUME NEW lines \in Seq(Lines), NEW line \in Lines, NEW s \in Labels, NEW l,
         IsFiniteSet(Pairs(lines, s, l))
  PROVE  LET c == IF line.lumi = l THEN CountIn(line, s) ELSE 0
         IN  /\ IsFiniteSet(Pairs(Append(lines, line), s, l))
             /\ Cardinality(Pairs(Append(lines, line), s, l)) = Cardinality(Pairs(lines, s, l)) + c
<1> DEFINE c == IF line.lumi = l THEN CountIn(line, s) ELSE 0
           more == <<line>>
<1>1. more \in Seq(Lines) /\ DOMAIN more = {1} /\ more[1] = line
  OBVIOUS
<1>2. CountIn(more[1], s) \in Nat
  BY <1>1, CountTyped
<1>3. c \in Nat
  BY <1>1, <1>2
<1>4. OneLine(more, s, l, c)
  BY <1>1 DEF OneLine
<1>5. Append(lines, line) = lines \o more
  OBVIOUS
<1> HIDE DEF c, more
<1>7. /\ IsFiniteSet(Pairs(lines \o more, s, l))
      /\ Cardinality(Pairs(lines \o more, s, l)) = Cardinality(Pairs(lines, s, l)) + c
  BY <1>1, <1>3, <1>4, PairsAdded
<1> QED
  BY <1>5, <1>7 DEF c

\* One stream's turn with the end of a lumi section, for the reports.
LEMMA LumiSectionReported ==
  ASSUME IInv, RInv, processEndOfLumiSection
  PROVE  RInv'
<1>1. /\ UNCHANGED <<run, configured, request>> /\ dw.doing = "eols"
  BY DEF processEndOfLumiSection
<1> DEFINE doomed(k) == {f \in ToSet(fileHandlers[Streams[k]]) : files[f].lumi = dw.lumi}
           countsOf(k) == Append(dw.counts, fileCountPerLS[Streams[k]][dw.lumi])
           lineOf(k) == Line(dw.lumi, countsOf(k), 1)
<1>2. PICK n, victim, fault :
        /\ n \in DOMAIN Streams /\ IsNext(n)
        /\ SweepStream(Streams[n], doomed(n), victim, fault)
        /\ \/ Fail
           \/ /\ fileCountPerLS' = [fileCountPerLS EXCEPT ![Streams[n]][dw.lumi] = 0]
              /\ UNCHANGED failed
              /\ \/ /\ ~LastStream
                    /\ dw' = [dw EXCEPT !.rest = @ \ {n}, !.counts = countsOf(n)]
                    /\ UNCHANGED <<log, endOfRunReport>>
                 \/ /\ LastStream
                    /\ dw' = Idle
                    /\ log' = [log EXCEPT !.lines = Append(@, lineOf(n))]
                    /\ endOfRunReport' = Reported(endOfRunReport, lineOf(n))
  BY DEF processEndOfLumiSection
<1>3. SameNames
  <2> HIDE DEF doomed
  <2> QED
    BY <1>2, ClosingFollows, FollowersSameNames DEF SweepStream
<1>4. CASE Fail
  BY <1>4 DEF Fail, RInv
<1>5. CASE failed
  BY <1>2, <1>5 DEF Fail, RInv
<1>6. n \in DOMAIN Streams
  BY <1>2
<1>7. ASSUME ~Fail, ~failed PROVE RInv'
  <2> DEFINE s == Streams[n]
             l == dw.lumi
             c == fileCountPerLS[s][l]
             k == Len(dw.counts)
             M == Len(Streams)
  <2>1. InTurn /\ LogInv /\ CountInv
    BY <1>7 DEF RInv
  <2>2. /\ configured /\ dw.counts \in Seq(Nat) /\ k < M /\ dw.rest = k + 1 .. M
        /\ DOMAIN Streams = 1 .. M /\ M \in Nat /\ k \in Nat
    BY <1>1, <2>1, StreamsAssumption DEF InTurn
  <2>3. n = k + 1
    <3>1. n \in dw.rest /\ \A m \in dw.rest : n <= m
      BY <1>2, Zenon DEF IsNext
    <3>2. k + 1 \in k + 1 .. M
      BY <2>2
    <3>3. k + 1 \in dw.rest
      BY <2>2, <3>2, Zenon
    <3>4. n \in k + 1 .. M /\ n <= k + 1
      BY <2>2, <3>1, <3>3, Zenon
    <3> HIDE DEF k, M
    <3> QED
      BY <2>2, <3>4
  <2>4. /\ s \in Labels /\ l \in AllLumis /\ fileCountPerLS \in [Labels -> [AllLumis -> Nat]]
        /\ c \in Nat
    BY <1>6, <2>1, PlaceOfStream DEF IInv, ControlInv, Tasks, CountInv
  <2>5. request # "configure" /\ request' # "configure"
    BY <1>1, <2>2 DEF IInv, ControlInv
  <2>6. /\ fileCountPerLS' = [fileCountPerLS EXCEPT ![s][l] = 0] /\ failed' = failed
        /\ \/ /\ ~LastStream
              /\ dw' = [dw EXCEPT !.rest = @ \ {n}, !.counts = countsOf(n)]
              /\ UNCHANGED <<log, endOfRunReport>>
           \/ /\ LastStream
              /\ dw' = Idle
              /\ log' = [log EXCEPT !.lines = Append(@, lineOf(n))]
              /\ endOfRunReport' = Reported(endOfRunReport, lineOf(n))
    BY <1>2, <1>7
  <2>7. /\ fileCountPerLS' \in [Labels -> [AllLumis -> Nat]]
        /\ \A r \in Labels, j \in AllLumis :
             fileCountPerLS'[r][j] = IF r = s /\ j = l THEN 0 ELSE fileCountPerLS[r][j]
    BY <2>4, <2>6
  <2> DEFINE new == countsOf(n)
             line == lineOf(n)
  <2>8. new = Append(dw.counts, c) /\ new \in Seq(Nat) /\ Len(new) = k + 1
    BY <2>2, <2>4
  <2>9. line = [lumi |-> l, counts |-> new, eols |-> 1]
    BY DEF Line
  <2>10. LastStream <=> k + 1 = M
    <3> HIDE DEF k, M
    <3> QED
      BY <2>2, LastInTurn
  <2>11. /\ configured => log.eor = <<>>
         /\ Tells(endOfRunReport, log.lines) /\ log.lines \in Seq(Lines)
         /\ log = [lines |-> log.lines, eor |-> log.eor]
         /\ log.eor = <<>>
    BY <2>1, <2>2 DEF LogInv
  <2>12. dw \in Tasks
    BY DEF IInv, ControlInv
  <2>13. ASSUME NEW r \in Labels, NEW now, now.counts = new
         PROVE  /\ r = s => CountIn(dw, r) = 0 /\ CountIn(now, r) = c
                /\ r # s => CountIn(now, r) = CountIn(dw, r)
                /\ CountIn(now, r) \in Nat
    <3> DEFINE counts == dw.counts
    <3>1. counts \in Seq(Nat) /\ n = Len(counts) + 1 /\ now.counts = Append(counts, c)
          /\ dw.counts = counts
      BY <2>2, <2>3, <2>8, <2>13
    <3> HIDE DEF counts, c, s, new, k
    <3>2. PICK d : d = dw
      OBVIOUS
    <3>3. d.counts = counts
      BY <3>1, <3>2
    <3>4. c \in Nat
      BY <2>4
    <3>5. /\ r = Streams[n] => CountIn(d, r) = 0 /\ CountIn(now, r) = c
          /\ r # Streams[n] => CountIn(now, r) = CountIn(d, r)
          /\ CountIn(now, r) \in Nat
      BY <1>6, <3>1, <3>3, <3>4, CountTaken
    <3> QED
      BY <3>2, <3>5 DEF s
  <2>14. \A r \in Labels, j \in AllLumis : FilesOf(r, j)' = FilesOf(r, j)
    BY <1>1, <1>3, FilesOfSame
  <2>15. ASSUME NEW r \in Labels, NEW j \in AllLumis
         PROVE  /\ IsFiniteSet(Pairs(log.lines, r, j))
                /\ Cardinality(Pairs(log.lines, r, j)) \in Nat
                /\ Cardinality(FilesOf(r, j)) =
                     (Cardinality(Pairs(log.lines, r, j)) + fileCountPerLS[r][j]) +
                     (IF j = l THEN CountIn(dw, r) ELSE 0)
    <3>1. AddsUp(r, j)
      BY <2>1, <2>5 DEF CountInv
    <3>2. UnderReport(r, j) = IF j = l THEN CountIn(dw, r) ELSE 0
      BY <1>1 DEF UnderReport
    <3> QED
      BY <3>1, <3>2, FS_CardinalityType DEF AddsUp
  <2> HIDE DEF new, line, c, s, l, k, M
  <2>16. CASE /\ ~LastStream
              /\ dw' = [dw EXCEPT !.rest = @ \ {n}, !.counts = new]
              /\ UNCHANGED <<log, endOfRunReport>>
    <3>2. dw'.doing = "eols" /\ dw'.lumi = l /\ dw'.counts = new /\ dw'.rest = dw.rest \ {n}
      BY <1>1, <2>12, <2>16 DEF Tasks, l
    <3>3. InTurn'
      <4>1. dw'.rest = Len(dw'.counts) + 1 .. Len(Streams)
        BY <2>2, <2>3, <2>8, <3>2 DEF M
      <4>2. Len(dw'.counts) < Len(Streams) /\ dw'.counts \in Seq(Nat)
        BY <2>2, <2>8, <2>10, <2>16, <3>2 DEF M
      <4> QED
        BY <1>1, <2>2, <4>1, <4>2 DEF InTurn
    <3>4. LogInv'
      BY <1>1, <2>1, <2>16 DEF LogInv, Tells, FilledLines, EoLSLines, WithFiles
    <3>5. ASSUME NEW r \in Labels, NEW j \in AllLumis
          PROVE  AddsUp(r, j)'
      <4>1. Pairs(log.lines, r, j)' = Pairs(log.lines, r, j)
        BY <2>16 DEF Pairs, CountIn, PositionOf
      <4>2. UnderReport(r, j)' = IF j = l THEN CountIn(dw', r) ELSE 0
        BY <3>2 DEF UnderReport, CountIn, PositionOf
      <4>3. /\ r = s => CountIn(dw, r) = 0 /\ CountIn(dw', r) = c
            /\ r # s => CountIn(dw', r) = CountIn(dw, r)
            /\ CountIn(dw', r) \in Nat
        BY <2>13, <3>2
      <4>4. fileCountPerLS'[r][j] = IF r = s /\ j = l THEN 0 ELSE fileCountPerLS[r][j]
        BY <2>7
      <4>5. fileCountPerLS[r][j] \in Nat /\ (r = s /\ j = l => fileCountPerLS[r][j] = c)
        BY <2>4 DEF c
      <4>6. FilesOf(r, j)' = FilesOf(r, j)
        BY <2>14
      <4>7. Cardinality(FilesOf(r, j)) =
              (Cardinality(Pairs(log.lines, r, j)) + fileCountPerLS'[r][j]) + UnderReport(r, j)'
        BY <2>15, <4>2, <4>3, <4>4, <4>5
      <4>8. IsFiniteSet(Pairs(log.lines, r, j))
        BY <2>15
      <4> QED
        BY <4>1, <4>6, <4>7, <4>8 DEF AddsUp
    <3>6. CountInv'
      BY <2>5, <2>7, <3>5 DEF CountInv
    <3> QED
      BY <3>3, <3>4, <3>6 DEF RInv
  <2>17. CASE /\ LastStream
              /\ dw' = Idle
              /\ log' = [log EXCEPT !.lines = Append(@, line)]
              /\ endOfRunReport' = Reported(endOfRunReport, line)
    <3>1. InTurn' /\ dw'.doing # "eols"
      BY <2>17 DEF InTurn, Idle
    <3>2. line \in Lines
      BY <2>4, <2>8, <2>9, <2>10, <2>17 DEF Lines, M
    <3>3. log'.lines = Append(log.lines, line) /\ log'.eor = <<>>
          /\ log' = [lines |-> log'.lines, eor |-> log'.eor]
      BY <2>11, <2>17
    <3>4. LogInv'
      <4>1. /\ Append(log.lines, line) \in Seq(Lines)
            /\ Tells(Reported(endOfRunReport, line), Append(log.lines, line))
        BY <2>11, <3>2, LineTold
      <4>2. log'.lines \in Seq(Lines)
        BY <3>3, <4>1
      <4>3. Tells(endOfRunReport, log.lines)'
        BY <2>17, <3>3, <4>1 DEF Tells, FilledLines, EoLSLines, WithFiles
      <4> QED
        BY <1>1, <2>2, <3>3, <4>2, <4>3 DEF LogInv
    <3>5. ASSUME NEW r \in Labels, NEW j \in AllLumis
          PROVE  AddsUp(r, j)'
      <4>1. /\ IsFiniteSet(Pairs(Append(log.lines, line), r, j))
            /\ Cardinality(Pairs(Append(log.lines, line), r, j)) =
                 Cardinality(Pairs(log.lines, r, j)) + (IF line.lumi = j THEN CountIn(line, r) ELSE 0)
        BY <2>11, <2>15, <3>2, PairsOfLine
      <4>2. Pairs(log.lines, r, j)' = Pairs(Append(log.lines, line), r, j)
        BY <3>3 DEF Pairs, CountIn, PositionOf
      <4>3. UnderReport(r, j)' = 0
        BY <3>1 DEF UnderReport
      <4>4. /\ r = s => CountIn(dw, r) = 0 /\ CountIn(line, r) = c
            /\ r # s => CountIn(line, r) = CountIn(dw, r)
            /\ CountIn(line, r) \in Nat /\ line.lumi = l
        BY <2>9, <2>13
      <4>5. fileCountPerLS'[r][j] = IF r = s /\ j = l THEN 0 ELSE fileCountPerLS[r][j]
        BY <2>7
      <4>6. fileCountPerLS[r][j] \in Nat /\ (r = s /\ j = l => fileCountPerLS[r][j] = c)
        BY <2>4 DEF c
      <4>7. Cardinality(FilesOf(r, j)) =
              (Cardinality(Pairs(Append(log.lines, line), r, j)) + fileCountPerLS'[r][j]) + 0
        BY <2>15, <4>1, <4>4, <4>5, <4>6
      <4>8. FilesOf(r, j)' = FilesOf(r, j)
        BY <2>14
      <4> QED
        BY <4>1, <4>2, <4>3, <4>7, <4>8 DEF AddsUp
    <3>6. CountInv'
      BY <2>5, <2>7, <3>5 DEF CountInv
    <3> QED
      BY <3>1, <3>4, <3>6 DEF RInv
  <2> QED
    BY <2>6, <2>16, <2>17 DEF new, line
<1> QED
  BY <1>4, <1>5, <1>7

\* A section that is not reported has a file, so that they are finitely many.
LEMMA UnreportedFinite ==
  ASSUME IInv, CountInv, request # "configure", dw.doing # "eols"
  PROVE  IsFiniteSet(UnreportedLS)
<1> DEFINE S == {f \in DOMAIN files : files[f].lumi \in UnreportedLS}
           g == [f \in S |-> files[f].lumi]
<1>1. S \in SUBSET DOMAIN files /\ IsFiniteSet(DOMAIN files)
  BY FilesTyped, FS_Interval
<1>2. IsFiniteSet(S)
  BY <1>1, FS_Subset
<1>3. ASSUME NEW l \in UnreportedLS PROVE \E f \in S : g[f] = l
  <2>1. PICK s \in Labels : fileCountPerLS[s][l] > 0
    BY <1>3 DEF UnreportedLS
  <2>2. l \in AllLumis
    BY <1>3 DEF UnreportedLS, AllLumis
  <2>3. AddsUp(s, l) /\ fileCountPerLS[s][l] \in Nat
    BY <2>1, <2>2 DEF CountInv
  <2>4. UnderReport(s, l) = 0
    BY DEF UnderReport
  <2>5. Cardinality(Pairs(log.lines, s, l)) \in Nat
    BY <2>3, FS_CardinalityType DEF AddsUp
  <2>6. Cardinality(FilesOf(s, l)) # 0
    BY <2>1, <2>3, <2>4, <2>5 DEF AddsUp
  <2>7. FilesOf(s, l) # {}
    BY <2>6, FS_EmptySet
  <2>8. PICK f \in DOMAIN files : files[f].lumi = l
    BY <2>7 DEF FilesOf
  <2> QED
    BY <1>3, <2>8
<1>4. g \in Surjection(S, UnreportedLS)
  BY <1>3 DEF Surjection
<1> HIDE DEF S, g
<1> QED
  BY <1>2, <1>4, FS_Surjection

\* The streams are destroyed, for the reports.
LEMMA DestroyedReported ==
  ASSUME IInv, RInv, request = "destroy", request' = "none", ~configured', dw = Idle,
         dw'.doing # "eols", UNCHANGED <<run, failed>>, NEW victim, NEW fault,
         destroyStreams(victim, fault)
  PROVE  RInv'
<1> SUFFICES ASSUME ~failed PROVE InTurn' /\ LogInv' /\ CountInv'
  BY DEF RInv
<1>1. LogInv /\ CountInv
  BY DEF RInv
<1> DEFINE report == ReportedAll(endOfRunReport, RemainingLines)
           all == log.lines \o RemainingLines
<1>2. /\ fileCountPerLS' = NoCounts /\ endOfRunReport' = NoReport
      /\ log' = [lines |-> all, eor |-> <<report>>]
      /\ AllFollow(files')
  BY ClosingFollows DEF destroyStreams
<1>3. dw.doing # "eols"
  BY DEF Idle
<1>4. fileCountPerLS \in [Labels -> [AllLumis -> Nat]]
  BY <1>1 DEF CountInv
<1>5. /\ RemainingLines \in Seq(Lines)
      /\ \A s \in Labels, l \in AllLumis : OneLine(RemainingLines, s, l, fileCountPerLS[s][l])
  BY <1>1, <1>3, <1>4, UnreportedFinite, LinesRemain
<1>6. Tells(endOfRunReport, log.lines) /\ log.lines \in Seq(Lines)
  BY <1>1 DEF LogInv
<1>7. Tells(report, all) /\ all \in Seq(Lines)
  BY <1>5, <1>6, LinesTold
<1> HIDE DEF report
<1>8. InTurn'
  BY DEF InTurn
<1>9. LogInv'
  <2> HIDE DEF all
  <2>1. log'.lines = all /\ log'.eor = <<report>> /\ log'.eor # <<>> /\ log'.eor[1] = report
        /\ log' = [lines |-> log'.lines, eor |-> log'.eor]
    BY <1>2
  <2>2. Tells(log.eor[1], log.lines)'
    BY <1>7, <2>1 DEF Tells, FilledLines, EoLSLines, WithFiles
  <2> QED
    BY <1>2, <1>7, <2>1, <2>2 DEF LogInv
<1>10. ASSUME NEW s \in Labels, NEW l \in AllLumis
       PROVE  AddsUp(s, l)'
  <2>1. AddsUp(s, l) /\ UnderReport(s, l) = 0 /\ UnderReport(s, l)' = 0
    BY <1>1, <1>3 DEF CountInv, UnderReport
  <2>2. FilesOf(s, l)' = FilesOf(s, l)
    BY <1>2, FollowersSameNames, FilesOfSame
  <2>3. fileCountPerLS'[s][l] = 0 /\ fileCountPerLS[s][l] \in Nat
    BY <1>2, <1>4 DEF NoCounts, AllLumis
  <2>4. IsFiniteSet(Pairs(log.lines, s, l))
    BY <2>1 DEF AddsUp
  <2>5. /\ IsFiniteSet(Pairs(all, s, l))
        /\ Cardinality(Pairs(all, s, l)) = Cardinality(Pairs(log.lines, s, l)) + fileCountPerLS[s][l]
        /\ Cardinality(Pairs(log.lines, s, l)) \in Nat
    BY <1>5, <1>6, <2>3, <2>4, PairsAdded
  <2> HIDE DEF all
  <2>6. Pairs(log.lines, s, l)' = Pairs(all, s, l)
    BY <1>2 DEF Pairs, CountIn, PositionOf
  <2>7. Cardinality(FilesOf(s, l)) = (Cardinality(Pairs(all, s, l)) + 0) + 0
    BY <2>1, <2>3, <2>5 DEF AddsUp
  <2> QED
    BY <2>1, <2>2, <2>3, <2>5, <2>6, <2>7 DEF AddsUp
<1>11. CountInv'
  BY <1>2, <1>10 DEF CountInv, NoCounts, AllLumis
<1> QED
  BY <1>8, <1>9, <1>11

\* The streams are made or destroyed, for the reports.
LEMMA RequestReported ==
  ASSUME IInv, RInv, checkStreamChangeRequest
  PROVE  RInv'
<1>1. dw = Idle /\ request' = "none" /\ UNCHANGED <<run, failed>> /\ dw'.doing # "eols"
  BY DEF checkStreamChangeRequest, Idle
<1>2. CASE request = "destroy"
  <2>1. (\E victim, fault : destroyStreams(victim, fault)) /\ ~configured'
    BY <1>2 DEF checkStreamChangeRequest
  <2> QED
    BY <1>1, <1>2, <2>1, DestroyedReported
<1>3. CASE request # "destroy"
  <2> SUFFICES ASSUME ~failed PROVE InTurn' /\ LogInv' /\ CountInv'
    BY <1>1 DEF RInv
  <2>1. /\ request = "configure" /\ configured' /\ log' = EmptyLog
        /\ UNCHANGED <<files, fileCountPerLS, endOfRunReport>>
    BY <1>3 DEF checkStreamChangeRequest, IInv, ControlInv
  <2>2. endOfRunReport = NoReport /\ fileCountPerLS = NoCounts
    BY <2>1 DEF RInv, LogInv, CountInv, IInv, ControlInv
  <2>3. InTurn'
    BY <1>1 DEF InTurn
  <2>4. log'.lines = <<>> /\ log'.eor = <<>> /\ log' = [lines |-> log'.lines, eor |-> log'.eor]
    BY <2>1 DEF EmptyLog
  <2>5. Tells(endOfRunReport, log.lines)'
    <3>1. FilledLines(<<>>) = {} /\ EoLSLines(<<>>) = {}
      BY DEF FilledLines, EoLSLines
    <3>2. FilledLines(log.lines)' = {} /\ EoLSLines(log.lines)' = {}
      BY <2>4 DEF FilledLines, EoLSLines
    <3>3. NoReport \in Reports /\ NoReport.lsCountWithFiles = 0 /\ NoReport.eolsCount = 0
      BY DEF NoReport, Reports
    <3> QED
      BY <2>1, <2>2, <3>2, <3>3, FS_EmptySet DEF Tells
  <2>6. LogInv'
    <3>1. log'.lines \in Seq(Lines)
      BY <2>4
    <3> QED
      BY <1>1, <2>1, <2>4, <2>5, <3>1 DEF LogInv
  <2>7. ASSUME NEW s \in Labels, NEW l \in AllLumis
        PROVE  AddsUp(s, l)'
    <3>1. FilesOf(s, l)' = {}
      BY <1>1, <2>1 DEF FilesOf, IInv, FileInv, Numbered
    <3>2. Pairs(log.lines, s, l)' = {}
      BY <2>4 DEF Pairs
    <3>3. fileCountPerLS'[s][l] = 0 /\ UnderReport(s, l)' = 0
      BY <1>1, <2>1, <2>2 DEF NoCounts, AllLumis, UnderReport
    <3> QED
      BY <3>1, <3>2, <3>3, FS_EmptySet DEF AddsUp
  <2>8. CountInv'
    BY <1>1, <2>1, <2>2, <2>7 DEF CountInv, NoCounts, AllLumis
  <2> QED
    BY <2>3, <2>6, <2>8
<1> QED
  BY <1>2, <1>3

\* The reports at the start.
LEMMA InitRInv == Init => RInv
<1> SUFFICES ASSUME Init PROVE InTurn /\ LogInv /\ CountInv
  BY DEF RInv
<1>1. /\ configured = FALSE /\ request = "none" /\ dw = Idle /\ files = <<>> /\ run = 0
      /\ fileCountPerLS = NoCounts /\ endOfRunReport = NoReport /\ log = EmptyLog
  BY DEF Init, InitWith
<1>2. dw.doing = "idle"
  BY <1>1 DEF Idle
<1>3. log.lines = <<>> /\ log.eor = <<>> /\ log = [lines |-> log.lines, eor |-> log.eor]
  BY <1>1 DEF EmptyLog
<1>4. Tells(endOfRunReport, log.lines)
  <2>1. FilledLines(log.lines) = {} /\ EoLSLines(log.lines) = {}
    BY <1>3 DEF FilledLines, EoLSLines
  <2>2. NoReport \in Reports /\ NoReport.lsCountWithFiles = 0 /\ NoReport.eolsCount = 0
    BY DEF NoReport, Reports
  <2> QED
    BY <1>1, <2>1, <2>2, FS_EmptySet DEF Tells
<1>5. LogInv
  <2>1. log.lines \in Seq(Lines)
    BY <1>3
  <2> QED
    BY <1>1, <1>3, <1>4, <2>1 DEF LogInv
<1>6. ASSUME NEW s \in Labels, NEW l \in AllLumis
      PROVE  AddsUp(s, l)
  <2>1. FilesOf(s, l) = {} /\ Pairs(log.lines, s, l) = {}
    BY <1>1, <1>3 DEF FilesOf, Pairs
  <2>2. fileCountPerLS[s][l] = 0 /\ UnderReport(s, l) = 0
    BY <1>1, <1>2 DEF NoCounts, AllLumis, UnderReport
  <2> QED
    BY <2>1, <2>2, FS_EmptySet DEF AddsUp
<1>7. CountInv
  BY <1>1, <1>6 DEF CountInv, NoCounts, AllLumis
<1> QED
  BY <1>2, <1>5, <1>7 DEF InTurn

\* Every step keeps the invariant of the reports.
LEMMA NextRInv == IInv /\ RInv /\ [Next]_vars => RInv'
<1> SUFFICES ASSUME IInv, RInv, [Next]_vars PROVE RInv'
  OBVIOUS
<1>1. CASE writeEventToStreams
  BY <1>1, EventReported
<1>2. CASE closeTimedOutFiles
  BY <1>2, TimeOutsReported
<1>3. CASE processEndOfLumiSection
  BY <1>3, LumiSectionReported
<1>4. CASE checkStreamChangeRequest
  BY <1>4, RequestReported
<1>5. CASE startRun
  BY <1>5, RunReported
<1>6. CASE \/ skipFileTimeOuts \/ timedOut \/ endRun \/ UNCHANGED vars
           \/ \E l \in Lumis : takeEndOfLumiSection(l)
           \/ \E n \in DOMAIN Streams :
                \E T \in TagsOf(n), l \in Lumis, z \in Sizes : takeEvent(T, l, z)
           \/ \E f \in DOMAIN files : becomesTooOld(f) \/ losesData(f, 0) \/ losesData(f, 1)
  BY <1>6, NothingMuchReported
<1> QED
  BY <1>1, <1>2, <1>3, <1>4, <1>5, <1>6 DEF Next, DiskWriter

(***************************************************************************)
(* The invariant of the reports: the files of a stream in a lumi section   *)
(* are those that the lines of the log tell of and those that are still    *)
(* counted, and the end-of-run report counts the lines.                    *)
(***************************************************************************)
THEOREM ReportsKept == Spec => []RInv
<1> QED
  BY InitRInv, NextRInv, Invariant, PTL DEF Spec

(***************************************************************************)
(* As long as nothing fails, the data base log accounts for every file of  *)
(* the run once, whatever lumi sections end or come late, and its          *)
(* end-of-run marker counts the lines.                                     *)
(***************************************************************************)
THEOREM LogAddsUp == Spec => []ReportsAddUp
<1>1. RInv => ReportsAddUp
  <2> SUFFICES ASSUME RInv, ~failed, request # "configure"
               PROVE  /\ \A s \in Labels, l \in Lumis \cup {0} :
                           Cardinality(FilesOf(s, l)) =
                             (Cardinality(ReportedFiles(s, l)) + fileCountPerLS[s][l])
                             + UnderReport(s, l)
                      /\ log.eor # <<>> =>
                           /\ log.eor[1].lsCountWithFiles =
                                Cardinality({n \in DOMAIN log.lines : WithFiles(log.lines[n].counts)})
                           /\ log.eor[1].eolsCount =
                                Cardinality({n \in DOMAIN log.lines : log.lines[n].eols = 1})
    BY DEF ReportsAddUp
  <2>1. LogInv /\ CountInv
    BY DEF RInv
  <2>2. ASSUME NEW s \in Labels, NEW l \in Lumis \cup {0}
        PROVE  Cardinality(FilesOf(s, l)) =
                 (Cardinality(ReportedFiles(s, l)) + fileCountPerLS[s][l]) + UnderReport(s, l)
    <3>1. AddsUp(s, l)
      BY <2>1 DEF CountInv, AllLumis
    <3>2. ReportedFiles(s, l) = Pairs(log.lines, s, l)
      BY Zenon DEF ReportedFiles, Pairs
    <3> QED
      BY <3>1, <3>2 DEF AddsUp
  <2>3. ASSUME log.eor # <<>>
        PROVE  /\ log.eor[1].lsCountWithFiles =
                    Cardinality({n \in DOMAIN log.lines : WithFiles(log.lines[n].counts)})
               /\ log.eor[1].eolsCount =
                    Cardinality({n \in DOMAIN log.lines : log.lines[n].eols = 1})
    <3>1. Tells(log.eor[1], log.lines)
      BY <2>1, <2>3 DEF LogInv
    <3> QED
      BY <3>1 DEF Tells, FilledLines, EoLSLines
  <2> QED
    BY <2>2, <2>3
<1> QED
  BY ReportsKept, <1>1, PTL
=============================================================================
