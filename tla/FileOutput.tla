----------------------------- MODULE FileOutput -----------------------------
(***************************************************************************)
(* output.FileOutput: records go to numbered chunk files (name_0.json,     *)
(* name_1.json, ...) through a bufio.Writer.                               *)
(*                                                                         *)
(* The goroutines that copy the inputs (emitter.CopyMulty, one per input)  *)
(* call PluginWriter; a flusher goroutine renames and flushes at every     *)
(* FlushInterval; main closes the output at shutdown.  The lock is taken   *)
(* anew for each part of PluginWriter and of the flusher: filename() reads *)
(* under RLock and returns a name, updateName() stores it under Lock, and  *)
(* the write (or the flush) takes Lock once more.  A name may therefore be *)
(* stored, and used, after the state it was computed from is gone.         *)
(*                                                                         *)
(* A file is shown by its index, its content as the list of its records. A *)
(* record has length 1.  response files (output.FileResponseOutput) are a  *)
(* copy of this code.                                                      *)
(***************************************************************************)
EXTENDS Integers, Sequences, FiniteSets, SequencesExt

CONSTANTS
    Writers,     \* the goroutines that call PluginWriter
    Flusher,     \* the flusher goroutine
    Accepts(_),  \* does Assemble turn record number r into content
    QueueLimit,  \* config.QueueLimit, 0 for none
    SizeLimit,   \* config.SizeLimit, 0 for none
    MaxRecords,  \* bound: how many records the inputs deliver
    MaxStarts    \* bound: how often the program is started

ASSUME FileOutputAssumption ==
    /\ IsFiniteSet(Writers) /\ Flusher \notin Writers
    /\ QueueLimit \in Nat /\ SizeLimit \in Nat
    /\ MaxRecords \in Nat /\ MaxStarts \in Nat

VARIABLES
    disk,             \* the chunk files: from index to content
    currentName,      \* o.currentName, as an index
    file,             \* the file o.file was opened for
    open,             \* is its descriptor open
    buffer,           \* what o.writer has buffered
    queueLength,      \* o.QueueLength
    currentFileSize,  \* o.currentFileSize
    closed,           \* o.closed
    pc,               \* where each goroutine is
    name,             \* the name each goroutine got from filename()
    record,           \* the record each writer is writing
    taken,            \* how many records the writers have taken
    acked,            \* the records PluginWriter returned for
    stopped,          \* did main close the output
    starts,           \* how often the program was started
    first             \* the newest chunk the present run found

object == <<currentName, file, open, buffer, queueLength, currentFileSize, closed>>
history == <<taken, acked>>
main == <<stopped, starts, first>>
vars == <<disk, object, pc, name, record, history, main>>

None == -1
Procs == Writers \cup {Flusher}

-----------------------------------------------------------------------------
\* The index of the newest file that filepath.Glob finds, which sortByFileIndex
\* puts last
Newest(d) == CHOOSE i \in DOMAIN d : \A j \in DOMAIN d : j <= i

\* Mutant of ChunkFull: a chunk is full one record late.
ChunkFullLate ==
    \/ QueueLimit > 0 /\ queueLength > QueueLimit
    \/ SizeLimit > 0 /\ currentFileSize > SizeLimit

\* filename: is it time for the next chunk
ChunkFull ==
    \/ QueueLimit > 0 /\ queueLength >= QueueLimit
    \/ SizeLimit > 0 /\ currentFileSize >= SizeLimit

\* Mutant of Filename: without a file, the index is the one getFileIndex gives
\* for a name without index.
FilenameUnindexed ==
    IF DOMAIN disk = {} THEN -1
    ELSE IF currentName = None \/ ChunkFull THEN Newest(disk) + 1
    ELSE Newest(disk)

\* Mutant of Filename: fileIndex is set only for the next chunk.
FilenameForgets ==
    IF DOMAIN disk # {} /\ (currentName = None \/ ChunkFull) THEN Newest(disk) + 1 ELSE 0

\* FileOutput.filename without Append
Filename ==
    IF DOMAIN disk = {} THEN 0
    ELSE IF currentName = None \/ ChunkFull THEN Newest(disk) + 1
    ELSE Newest(disk)

\* The files after what is buffered has been handed to the operating system: to
\* nobody, if the descriptor is closed
Flushed(d, ps) == IF open THEN [d EXCEPT ![file] = @ \o ps] ELSE d

\* os.OpenFile with O_CREATE and O_TRUNC
Truncated(d, i) == [j \in DOMAIN d \cup {i} |-> IF j = i THEN <<>> ELSE d[j]]

-----------------------------------------------------------------------------
\* NewFileOutput: updateName sets the first name before any goroutine starts; no
\* current name counts as a full chunk
FirstName == IF DOMAIN disk = {} THEN 0 ELSE Newest(disk) + 1
FirstKept == IF DOMAIN disk = {} THEN 0 ELSE Newest(disk)

Init ==
    /\ disk = [i \in {} |-> <<>>]
    /\ currentName = FirstName /\ first = FirstKept
    /\ file = None /\ open = FALSE /\ buffer = <<>>
    /\ queueLength = 0 /\ currentFileSize = 0
    /\ closed = FALSE /\ stopped = FALSE
    /\ pc = [p \in Procs |-> "idle"]
    /\ name = [p \in Procs |-> None]
    /\ record = [w \in Writers |-> 0]
    /\ taken = 0 /\ acked = {}
    /\ starts = 1

\* The process ends, by a crash or by main's os.Exit, and is started again with
\* the files it left
Restart ==
    /\ starts < MaxStarts
    /\ starts' = starts + 1
    /\ currentName' = FirstName /\ first' = FirstKept
    /\ file' = None /\ open' = FALSE /\ buffer' = <<>>
    /\ queueLength' = 0 /\ currentFileSize' = 0
    /\ closed' = FALSE /\ stopped' = FALSE
    /\ pc' = [p \in Procs |-> "idle"]
    /\ name' = [p \in Procs |-> None]
    /\ record' = [w \in Writers |-> 0]
    /\ UNCHANGED <<disk, history>>

-----------------------------------------------------------------------------
\* updateName: filename() under RLock
GetName(p, at) ==
    /\ pc[p] = at
    /\ name' = [name EXCEPT ![p] = Filename]
    /\ pc' = [pc EXCEPT ![p] = "named"]

\* updateName: o.currentName = name under Lock
UpdateName(p) ==
    /\ pc[p] = "named"
    /\ currentName' = name[p]
    /\ pc' = [pc EXCEPT ![p] = "ready"]
    /\ UNCHANGED <<disk, file, open, buffer, queueLength, currentFileSize, closed,
                   name, record, history, main>>

\* PluginWriter is called for a record
PluginWriter(w) ==
    /\ GetName(w, "idle")
    /\ taken < MaxRecords
    /\ taken' = taken + 1
    /\ record' = [record EXCEPT ![w] = taken']
    /\ UNCHANGED <<disk, object, acked, main>>

\* What Assemble makes of a record
Assemble(r) == IF Accepts(r) THEN <<r>> ELSE <<>>

\* Mutant of OpenAndWrite: the old file is closed without a flush.
OpenUnflushed(content) ==
    /\ file = None \/ currentName # file
    /\ disk' = Truncated(disk, currentName)
    /\ file' = currentName
    /\ open' = TRUE
    /\ closed' = TRUE
    /\ buffer' = content
    /\ queueLength' = Len(content)
    /\ currentFileSize' = Len(content)

\* PluginWriter opens the current file unless it is the one that is open.
\* closeLocked flushes and closes the old one, and marks the output closed.
OpenAndWrite(content) ==
    /\ file = None \/ currentName # file
    /\ disk' = Truncated(Flushed(disk, buffer), currentName)
    /\ file' = currentName
    /\ open' = TRUE
    /\ closed' = TRUE
    /\ buffer' = content
    /\ queueLength' = Len(content)
    /\ currentFileSize' = Len(content)

\* The writer's buffer takes the record; when it is full, some of what it holds
\* goes to the file
WriteOn(content) ==
    /\ file # None /\ currentName = file
    /\ queueLength' = queueLength + Len(content)
    /\ currentFileSize' = currentFileSize + Len(content)
    /\ \E n \in 0..Len(buffer \o content) :
         /\ disk' = Flushed(disk, SubSeq(buffer \o content, 1, n))
         /\ buffer' = SubSeq(buffer \o content, n + 1, Len(buffer \o content))
    /\ UNCHANGED <<file, open, closed>>

\* the rest of PluginWriter, under Lock
Write(w) ==
    /\ pc[w] = "ready"
    /\ \/ OpenAndWrite(Assemble(record[w]))
       \/ WriteOn(Assemble(record[w]))
    /\ acked' = acked \cup ToSet(Assemble(record[w]))
    /\ pc' = [pc EXCEPT ![w] = "idle"]
    /\ UNCHANGED <<currentName, name, record, taken, main>>

-----------------------------------------------------------------------------
\* The flusher wakes after FlushInterval, and ends if the output is closed
Wake ==
    /\ pc[Flusher] = "idle"
    /\ pc' = [pc EXCEPT ![Flusher] = IF closed THEN "gone" ELSE "awake"]
    /\ UNCHANGED <<disk, object, name, record, history, main>>

FlusherGetName ==
    /\ GetName(Flusher, "awake")
    /\ UNCHANGED <<disk, object, record, history, main>>

\* Mutant of Flush: the buffer is written but kept.
FlushKeepsBuffer ==
    /\ pc[Flusher] = "ready"
    /\ disk' = IF file = None THEN disk ELSE Flushed(disk, buffer)
    /\ currentFileSize' = IF file # None /\ open THEN Len(disk'[file]) ELSE currentFileSize
    /\ pc' = [pc EXCEPT ![Flusher] = "idle"]
    /\ UNCHANGED <<currentName, file, open, buffer, queueLength, closed, name, record, history,
                   main>>

\* flush: the file's size is read back, unless its descriptor is closed
Flush ==
    /\ pc[Flusher] = "ready"
    /\ disk' = IF file = None THEN disk ELSE Flushed(disk, buffer)
    /\ buffer' = <<>>
    /\ currentFileSize' = IF file # None /\ open THEN Len(disk'[file]) ELSE currentFileSize
    /\ pc' = [pc EXCEPT ![Flusher] = "idle"]
    /\ UNCHANGED <<currentName, file, open, queueLength, closed, name, record, history, main>>

\* Close, called once by main, through Emitter.Close, while the inputs may still
\* be copied
Close ==
    /\ ~stopped
    /\ stopped' = TRUE
    /\ disk' = IF file = None THEN disk ELSE Flushed(disk, buffer)
    /\ buffer' = <<>>
    /\ open' = FALSE
    /\ closed' = TRUE
    /\ currentFileSize' = 0
    /\ UNCHANGED <<currentName, file, queueLength, pc, name, record, history, starts, first>>

-----------------------------------------------------------------------------
WriterStep(w) == PluginWriter(w) \/ UpdateName(w) \/ Write(w)
FlusherStep == Wake \/ FlusherGetName \/ UpdateName(Flusher) \/ Flush

Next == (\E w \in Writers : WriterStep(w)) \/ FlusherStep \/ Close \/ Restart

Spec == Init /\ [][Next]_vars

\* The goroutines run; nothing makes main close the output or the process end
Fairness ==
    /\ \A w \in Writers : WF_vars(WriterStep(w))
    /\ WF_vars(FlusherStep)

FairSpec == Spec /\ Fairness
=============================================================================
