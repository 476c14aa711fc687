----------------------------- MODULE Recording -----------------------------
(***************************************************************************)
(* A recording: CopyMulty reads the messages of an HTTP input and hands    *)
(* each to a FileOutput, which writes the requests, and then to a          *)
(* FileResponseOutput, which writes the responses; main closes the input   *)
(* and the outputs, one after the other, and exits when the copy has ended.*)
(*                                                                         *)
(* The code of output.FileResponseOutput is a copy of output.FileOutput    *)
(* but for what it assembles, so that each definition stands for both, and *)
(* the state has an entry per output.  Other than FileOutput, this module  *)
(* has %r in the path: a file per id, whose name depends on currentID,     *)
(* which PluginWriter sets in a critical section of its own.  It has one   *)
(* writer and one run of the program.  The files of the two outputs have   *)
(* no common prefix.                                                       *)
(*                                                                         *)
(* A message is shown by its number.  A response that http.ReadResponse    *)
(* rejects makes NewAssembleHttpResponseData use a nil pointer: no one     *)
(* recovers, and the process is gone with what both outputs have buffered. *)
(* So it is when a file cannot be opened, which calls log.Fatal.           *)
(***************************************************************************)
EXTENDS Integers, Sequences, FiniteSets, SequencesExt

CONSTANTS
    Traffic,     \* the types of the messages that are read, in their order
    Limit,       \* config.QueueLimit, which both outputs share, 0 for none, in a
                 \* program without a %r in its paths, and in one with
    SizeLimit,   \* config.SizeLimit, 0 for none
    Ids,         \* the id of each message
    PerFile      \* may there be a %r in the paths

\* "image": a response with an image in it
Types == {"request", "response", "image"}

ASSUME RecordingAssumption ==
    /\ Traffic \in Seq(Types)
    /\ Limit \in [BOOLEAN -> Nat] /\ SizeLimit \in Nat
    /\ Ids \in Seq(STRING) /\ Len(Ids) = Len(Traffic)
    /\ PerFile \subseteq BOOLEAN

VARIABLES
    requestPerFile,  \* is there a %r in the paths
    files,    \* [output -> its files, from name to content]
    object,   \* [output -> the fields of the FileOutput or FileResponseOutput]
    pc,       \* [output -> where the copy and the flusher are in its code]
    name,     \* [output -> the name each of them got from filename()]
    taken,    \* how many messages CopyMulty has read
    copying,  \* the output it writes to, "reader" or "ended"
    closes,   \* what main has closed
    process,  \* is the process running
    acked,    \* [output -> the messages written to it before main closed it]
    late,     \* [output -> those written to it afterwards]
    lost,     \* [output -> those that were in a file that was opened anew]
    misled    \* the outputs that went by a late name of the flusher in a write

history == <<acked, late, lost, misled>>
vars == <<requestPerFile, files, object, pc, name, taken, copying, closes, process, history>>

Outputs == {"request", "response"}
Procs == {"copy", "flusher"}
NoName == <<"", -1>>
-----------------------------------------------------------------------------
(* The object of output o *)

\* What the two constructors make: the first name is taken with no file there
NewObject == [currentName |-> <<"", 0>>, file |-> NoName, open |-> FALSE, buffer |-> <<>>,
              queueLength |-> 0, size |-> 0, closed |-> FALSE, id |-> ""]

QueueLimit == Limit[requestPerFile]

\* Mutant of ChunkFull: a chunk is full one record late.
ChunkFullLate(o) ==
    \/ QueueLimit > 0 /\ object[o].queueLength > QueueLimit
    \/ SizeLimit > 0 /\ object[o].size > SizeLimit

\* filename: is it time for the next chunk
ChunkFull(o) ==
    \/ QueueLimit > 0 /\ object[o].queueLength >= QueueLimit
    \/ SizeLimit > 0 /\ object[o].size >= SizeLimit

\* Mutant of Filename: the index is kept only for the next chunk.
FilenameForgets(o) ==
    LET chunks == {n[2] : n \in {f \in DOMAIN files[o] : f[1] = object[o].id}}
        newest == CHOOSE i \in chunks : \A j \in chunks : j <= i
    IN  <<object[o].id, IF chunks = {} \/ ~ChunkFull(o) THEN 0 ELSE newest + 1>>

\* filename: the template with %r replaced, and the index of the newest file that
\* matches it, or the next one if that is full
Filename(o) ==
    LET chunks == {n[2] : n \in {f \in DOMAIN files[o] : f[1] = object[o].id}}
        newest == CHOOSE i \in chunks : \A j \in chunks : j <= i
    IN  <<object[o].id, IF chunks = {} THEN 0 ELSE IF ChunkFull(o) THEN newest + 1 ELSE newest>>

\* What is in the files after the buffer was handed to the operating system
Flushed(o) ==
    IF object[o].open THEN [files[o] EXCEPT ![object[o].file] = @ \o object[o].buffer]
    ELSE files[o]

InFiles(fs) == UNION {ToSet(fs[n]) : n \in DOMAIN fs}

\* Mutant of Assembled: Assemble takes the responses, too.
AssembledAll(o) == IF o = "request" \/ Traffic[taken] = o THEN <<taken>> ELSE <<>>

\* Assemble takes the requests, AssembleResponse the responses that are no image
Assembled(o) == IF Traffic[taken] = o THEN <<taken>> ELSE <<>>

\* AssembleResponse panics on a response that http.ReadResponse rejects: on any one,
\* as far as this module can tell
MayPanic(o) == o = "response" /\ Traffic[taken] # "request"

-----------------------------------------------------------------------------
Init ==
    /\ requestPerFile \in PerFile
    /\ files = [o \in Outputs |-> [n \in {} |-> <<>>]]
    /\ object = [o \in Outputs |-> NewObject]
    /\ pc = [o \in Outputs |-> [p \in Procs |-> "idle"]]
    /\ name = [o \in Outputs |-> [p \in Procs |-> NoName]]
    /\ taken = 0 /\ copying = "reader" /\ closes = {} /\ process = "running"
    /\ acked = [o \in Outputs |-> {}] /\ late = [o \in Outputs |-> {}]
    /\ lost = [o \in Outputs |-> {}] /\ misled = {}

\* The caller of updateName on output o: filename() under RLock
GetName(o, p, from) ==
    /\ pc[o][p] = from
    /\ name' = [name EXCEPT ![o][p] = Filename(o)]
    /\ pc' = [pc EXCEPT ![o][p] = "named"]
    /\ UNCHANGED <<requestPerFile, files, object, taken, copying, closes, process, history>>

\* updateName: o.currentName = name under Lock
UpdateName(o, p) ==
    /\ pc[o][p] = "named"
    /\ object' = [object EXCEPT ![o].currentName = name[o][p]]
    /\ pc' = [pc EXCEPT ![o][p] = "ready"]
    /\ UNCHANGED <<requestPerFile, files, name, taken, copying, closes, process, history>>

-----------------------------------------------------------------------------
(* CopyMulty *)

\* PluginReader gives a message; it selects at random if the input is closed
Read ==
    /\ copying = "reader"
    /\ taken < Len(Traffic)
    /\ taken' = taken + 1
    /\ copying' = "request"
    /\ UNCHANGED <<requestPerFile, files, object, pc, name, closes, process, history>>

\* PluginReader returns ErrorStopped
ReadStopped ==
    /\ copying = "reader" /\ "input" \in closes
    /\ copying' = "ended"
    /\ UNCHANGED <<requestPerFile, files, object, pc, name, taken, closes, process, history>>

\* PluginWriter, if requestPerFile: o.currentID = meta[1] under Lock
SetID(o) ==
    /\ copying = o /\ pc[o]["copy"] = "idle" /\ requestPerFile
    /\ object' = [object EXCEPT ![o].id = Ids[taken]]
    /\ pc' = [pc EXCEPT ![o]["copy"] = "identified"]
    /\ UNCHANGED <<requestPerFile, files, name, taken, copying, closes, process, history>>

\* Mutant of WriterGetsName: the name is taken before the id is set.
WriterGetsNameFirst(o) ==
    /\ copying = o
    /\ GetName(o, "copy", "idle")

WriterGetsName(o) ==
    /\ copying = o
    /\ GetName(o, "copy", IF requestPerFile THEN "identified" ELSE "idle")

Reopens(o) == object[o].file = NoName \/ object[o].currentName # object[o].file

\* Mutant of Opened: the old file is closed without a flush.
OpenedUnflushed(o) ==
    IF ~Reopens(o) THEN [fs |-> files[o], obj |-> object[o]]
    ELSE [fs  |-> [n \in DOMAIN files[o] \cup {object[o].currentName} |->
                      IF n = object[o].currentName THEN <<>> ELSE files[o][n]],
          obj |-> [object[o] EXCEPT !.file = object[o].currentName, !.open = TRUE,
                                    !.buffer = <<>>, !.queueLength = 0,
                                    !.size = 0, !.closed = TRUE]]

\* The file is opened, with O_TRUNC, unless it is the one that is open; closeLocked
\* flushes the old one first. The files and the object after that
Opened(o) ==
    IF ~Reopens(o) THEN [fs |-> files[o], obj |-> object[o]]
    ELSE [fs  |-> [n \in DOMAIN files[o] \cup {object[o].currentName} |->
                      IF n = object[o].currentName THEN <<>> ELSE Flushed(o)[n]],
          obj |-> [object[o] EXCEPT !.file = object[o].currentName, !.open = TRUE,
                                    !.buffer = <<>>, !.queueLength = 0,
                                    !.size = 0, !.closed = TRUE]]

\* The writer takes the content; when its buffer is full, some of what it holds goes
\* to the file: not when the file is new
Wrote(o, opened) ==
    LET held == opened.obj.buffer \o Assembled(o)
        fs   == opened.fs
        obj  == [opened.obj EXCEPT !.queueLength = @ + Len(Assembled(o)),
                                   !.size = @ + Len(Assembled(o))]
    IN  {[fs  |-> IF obj.open THEN [fs EXCEPT ![obj.file] = @ \o SubSeq(held, 1, n)] ELSE fs,
          obj |-> [obj EXCEPT !.buffer = SubSeq(held, n + 1, Len(held))]] :
              n \in 0..(IF Reopens(o) THEN 0 ELSE Len(held))}

Account(o, written) ==
    /\ acked' = IF o \in closes THEN acked ELSE [acked EXCEPT ![o] = @ \cup ToSet(written)]
    /\ late' = IF o \in closes THEN [late EXCEPT ![o] = @ \cup ToSet(written)] ELSE late
    /\ lost' = [lost EXCEPT ![o] = @ \cup (InFiles(files[o]) \ InFiles(files'[o]))]
    /\ misled' = IF object[o].currentName # name[o]["copy"]
                 THEN misled \cup {o} ELSE misled

\* the rest of PluginWriter, under Lock
Write(o) ==
    /\ pc[o]["copy"] = "ready"
    /\ \E after \in Wrote(o, Opened(o)) :
         /\ files' = [files EXCEPT ![o] = after.fs]
         /\ object' = [object EXCEPT ![o] = after.obj]
    /\ Account(o, Assembled(o))
    /\ pc' = [pc EXCEPT ![o]["copy"] = "idle"]
    /\ copying' = IF o = "request" THEN "response" ELSE "reader"
    /\ UNCHANGED <<requestPerFile, name, taken, closes, process>>

\* PluginWriter opens the file before it assembles the content
WritePanics(o) ==
    /\ pc[o]["copy"] = "ready"
    /\ MayPanic(o)
    /\ files' = [files EXCEPT ![o] = Opened(o).fs]
    /\ object' = [object EXCEPT ![o] = Opened(o).obj]
    /\ Account(o, <<>>)
    /\ process' = "aborted"
    /\ UNCHANGED <<requestPerFile, pc, name, taken, copying, closes>>

\* PluginWriter cannot open the file: closeLocked has flushed and closed the old one, and
\* log.Fatal ends the process, with what the other output has buffered.
OpenFails(o) ==
    /\ pc[o]["copy"] = "ready"
    /\ Reopens(o)
    /\ files' = [files EXCEPT ![o] = Flushed(o)]
    /\ object' = [object EXCEPT ![o].buffer = <<>>, ![o].file = NoName, ![o].open = FALSE,
                                ![o].closed = TRUE, ![o].size = 0]
    /\ process' = "aborted"
    /\ UNCHANGED <<requestPerFile, pc, name, taken, copying, closes, history>>

-----------------------------------------------------------------------------
(* The flusher of output o *)

Wake(o) ==
    /\ pc[o]["flusher"] = "idle"
    /\ pc' = [pc EXCEPT ![o]["flusher"] = IF object[o].closed THEN "gone" ELSE "awake"]
    /\ UNCHANGED <<requestPerFile, files, object, name, taken, copying, closes, process, history>>

\* Mutant of Flush: the file is left as it is.
FlushNothing(o) ==
    /\ pc[o]["flusher"] = "ready"
    /\ object' = [object EXCEPT ![o].buffer = <<>>]
    /\ pc' = [pc EXCEPT ![o]["flusher"] = "idle"]
    /\ UNCHANGED <<requestPerFile, files, name, taken, copying, closes, process, history>>

Flush(o) ==
    /\ pc[o]["flusher"] = "ready"
    /\ files' = [files EXCEPT ![o] = Flushed(o)]
    /\ object' = [object EXCEPT ![o].buffer = <<>>,
                    ![o].size = IF object[o].open THEN Len(Flushed(o)[object[o].file]) ELSE @]
    /\ pc' = [pc EXCEPT ![o]["flusher"] = "idle"]
    /\ UNCHANGED <<requestPerFile, name, taken, copying, closes, process, history>>

-----------------------------------------------------------------------------
(* main *)

\* Emitter.Close: the input comes first in plugins.All
CloseInput ==
    /\ closes = {}
    /\ closes' = {"input"}
    /\ UNCHANGED <<requestPerFile, files, object, pc, name, taken, copying, process, history>>

\* Mutant of CloseOutput: the file is closed without a flush.
CloseOutputUnflushed(o) ==
    /\ closes = IF o = "request" THEN {"input"} ELSE {"input", "request"}
    /\ closes' = closes \cup {o}
    /\ object' = [object EXCEPT ![o].buffer = <<>>, ![o].open = FALSE,
                                ![o].closed = TRUE, ![o].size = 0]
    /\ UNCHANGED <<requestPerFile, files, pc, name, taken, copying, process, history>>

\* Close of the two outputs, in the order in which they were registered
CloseOutput(o) ==
    /\ closes = IF o = "request" THEN {"input"} ELSE {"input", "request"}
    /\ closes' = closes \cup {o}
    /\ files' = [files EXCEPT ![o] = Flushed(o)]
    /\ object' = [object EXCEPT ![o].buffer = <<>>, ![o].open = FALSE,
                                ![o].closed = TRUE, ![o].size = 0]
    /\ UNCHANGED <<requestPerFile, pc, name, taken, copying, process, history>>

\* e.Wait() returns when CopyMulty has, and main exits
Exit ==
    /\ closes = {"input"} \cup Outputs /\ copying = "ended"
    /\ process' = "exited"
    /\ UNCHANGED <<requestPerFile, files, object, pc, name, taken, copying, closes, history>>

-----------------------------------------------------------------------------
PluginWriter(o) ==
    SetID(o) \/ WriterGetsName(o) \/ UpdateName(o, "copy") \/ Write(o) \/ WritePanics(o)
        \/ OpenFails(o)
FlusherOf(o) ==
    Wake(o) \/ GetName(o, "flusher", "awake") \/ UpdateName(o, "flusher") \/ Flush(o)
Main == CloseInput \/ Exit \/ \E o \in Outputs : CloseOutput(o)

Next ==
    /\ process = "running"
    /\ \/ Read \/ ReadStopped \/ Main
       \/ \E o \in Outputs : PluginWriter(o) \/ FlusherOf(o)

Spec == Init /\ [][Next]_vars
=============================================================================
