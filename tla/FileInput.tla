----------------------------- MODULE FileInput -----------------------------
(***************************************************************************)
(* input.FileInput: one reader per file that matches the pattern; a        *)
(* goroutine (emit) merges them by time stamp into the channel data, again *)
(* and again if looped; main closes the input at shutdown.  PluginReader   *)
(* does not read the channel.                                              *)
(*                                                                         *)
(* A reader holds the record it parsed last, which is the next one to be   *)
(* emitted.  A file is the list of the time stamps of its records; one     *)
(* without its separator at the end of a file is not one of them.  emit    *)
(* pauses between two records for the difference of their time stamps, at  *)
(* the speed that a limit in percent asks for.                             *)
(***************************************************************************)
EXTENDS Integers, Sequences, FiniteSets, SequencesExt

CONSTANTS
    Setups,   \* what may be on the disk, and the options
    DataCap,  \* capacity of the channel data: 1000
    MaxTime   \* bound: time is not counted beyond it

\* files; those that cannot be opened; those whose gzip stream is cut off; the
\* records whose first line lacks the time stamp; whether the files are looped; and
\* the limit, in percent, 100 for none
ASSUME FileInputAssumption ==
    /\ DataCap \in Nat \ {0} /\ MaxTime \in Nat
    /\ \A s \in Setups : /\ s.files \in Seq(Seq(Nat)) /\ s.loop \in BOOLEAN
                         /\ s.unreadable \subseteq DOMAIN s.files
                         /\ s.damaged \subseteq DOMAIN s.files
                         /\ s.malformed \subseteq (DOMAIN s.files) \X (Nat \ {0})
                         /\ s.percent \in Nat

VARIABLES
    setup,    \* the one of Setups this run has
    readers,  \* i.readers
    pc,       \* where emit is
    chosen,   \* the reader emit has chosen
    hand,     \* the payload emit is about to send, if any
    data,     \* the channel i.data
    exit,     \* does i.exit hold a signal
    closing,  \* where Close is
    toClose,  \* the reader Close comes to next
    given,    \* [file -> how many of its records were taken in this pass]
    lastTime, \* the variable of emit: the time stamp of the record before, or -1
    pause,    \* how long the sleep of emit still lasts
    speed,    \* i.SpeedFactor, in percent
    first,    \* the time stamp of the first record of this pass
    elapsed   \* the time since it was chosen, up to MaxTime

emitter == <<pc, chosen, hand, data, given, lastTime, pause>>
closer == <<closing, toClose>>
clock == <<first, elapsed>>
vars == <<setup, readers, emitter, exit, closer, speed, clock>>

-----------------------------------------------------------------------------
(* fileInputReader. at is the place of the record it holds, 0 if none; file is *)
(* "nil" after the end of the file, and "closed" when Close has closed it.     *)

\* NewFileInputReader returns nil if the file cannot be opened
NilReader == [at |-> 0, file |-> "no reader"]

\* parseNext: at the end of the file, f.file = nil; after another error, all stays
Advanced(k, r) ==
    IF r.at < Len(setup.files[k]) THEN [r EXCEPT !.at = @ + 1]
    ELSE IF k \in setup.damaged THEN r
    ELSE [r EXCEPT !.file = "nil"]

\* parseNext takes meta[2] without looking whether it is there
Malformed(k, r) == <<k, r.at>> \in setup.malformed

\* A file that was closed can only be read as far as it was buffered
ParseNext(k, r) == {Advanced(k, r)} \cup (IF r.file = "closed" THEN {r} ELSE {})

NewFileInputReader(k) ==
    IF k \in setup.unreadable THEN NilReader ELSE Advanced(k, [at |-> 0, file |-> "open"])

\* init: the readers of all files
Opened == [k \in DOMAIN setup.files |-> NewFileInputReader(k)]

Timestamp(k) == IF readers[k].at = 0 THEN 0 ELSE setup.files[k][readers[k].at]

\* Mutants of Candidates: readers at their end are not skipped; one reader at its
\* end is taken for the end of all.
CandidatesAtEnd == {k \in DOMAIN readers : readers[k] # NilReader}
CandidatesAll ==
    {k \in DOMAIN readers : /\ readers[k].file \in {"open", "closed"}
                            /\ \A j \in DOMAIN readers : readers[j].file # "nil"}

\* nextReader skips r == nil and r.file == nil
Candidates == {k \in DOMAIN readers : readers[k].file \in {"open", "closed"}}

\* nextReader: the first one with the least time stamp
NextReader ==
    CHOOSE k \in Candidates : \A j \in Candidates :
        Timestamp(k) < Timestamp(j) \/ (Timestamp(k) = Timestamp(j) /\ k <= j)

-----------------------------------------------------------------------------
Init ==
    /\ setup \in Setups
    /\ readers = Opened
    /\ pc = (IF \E k \in DOMAIN readers : Malformed(k, readers[k]) THEN "panicked" ELSE "top")
    /\ chosen = 0 /\ hand = <<>> /\ data = <<>>
    /\ exit = FALSE
    /\ closing = "no" /\ toClose = 1
    /\ given = [k \in DOMAIN setup.files |-> 0]
    /\ lastTime = -1 /\ pause = 0 /\ speed = 100
    /\ first = 0 /\ elapsed = 0

\* NewLimiter sets the speed of the input it wraps, whose emit runs already
NewLimiter ==
    /\ speed # setup.percent
    /\ speed' = setup.percent
    /\ UNCHANGED <<setup, readers, emitter, exit, closer, clock>>

(* emit *)

\* Mutant of Check: exit is not looked at.
CheckNothing ==
    /\ pc = "top"
    /\ pc' = "choosing"
    /\ UNCHANGED <<setup, readers, chosen, hand, data, given, lastTime, pause, exit, closer,
                   speed, clock>>

\* The select with a default
Check ==
    /\ pc = "top"
    /\ pc' = IF exit THEN "gone" ELSE "choosing"
    /\ exit' = FALSE
    /\ UNCHANGED <<setup, readers, chosen, hand, data, given, lastTime, pause, closer, speed,
                   clock>>

\* Mutant of Pauses: the difference is taken the other way round.
PausesBackwards(diff) == IF speed = 0 \/ diff >= 0 THEN {0} ELSE {((0 - diff) * 100) \div speed}

\* How long the sleep may be. A negative one ends at once. An infinite difference (the
\* speed is 0) is made an int64 in a way that the platform decides: the least one or
\* the greatest one.
Forever == -1
Pauses(diff) ==
    IF speed = 0 THEN {0, Forever} ELSE IF diff <= 0 THEN {0} ELSE {(diff * 100) \div speed}

\* The first record of a pass is given at once.
Choose ==
    /\ pc = "choosing"
    /\ Candidates # {}
    /\ chosen' = NextReader
    /\ lastTime' = Timestamp(NextReader)
    /\ pause' \in (IF lastTime = -1 THEN {0} ELSE Pauses(Timestamp(NextReader) - lastTime))
    /\ IF lastTime = -1 THEN first' = lastTime' /\ elapsed' = 0 ELSE UNCHANGED clock
    /\ pc' = "sleeping"
    /\ UNCHANGED <<setup, readers, hand, data, given, exit, closer, speed>>

\* init, under the lock that Close also takes, and lastTime = -1
Reopen ==
    /\ pc = "choosing"
    /\ Candidates = {} /\ setup.loop
    /\ closing # "closing"
    /\ readers' = Opened
    /\ given' = [k \in DOMAIN setup.files |-> 0]
    /\ lastTime' = -1
    /\ pc' = "top"
    /\ UNCHANGED <<setup, chosen, hand, data, pause, exit, closer, speed, clock>>

EndOfFile ==
    /\ pc = "choosing"
    /\ Candidates = {} /\ ~setup.loop
    /\ pc' = "done"
    /\ UNCHANGED <<setup, readers, chosen, hand, data, given, lastTime, pause, exit, closer,
                   speed, clock>>

\* After the sleep: reader.ReadPayload(), which parses the record after it
ReadPayload ==
    /\ pc = "sleeping"
    /\ pause = 0
    /\ hand' = <<<<chosen, readers[chosen].at>>>>
    /\ given' = [given EXCEPT ![chosen] = @ + 1]
    /\ \E r \in ParseNext(chosen, readers[chosen]) :
          /\ readers' = [readers EXCEPT ![chosen] = r]
          /\ pc' = IF r # readers[chosen] /\ Malformed(chosen, r) THEN "panicked" ELSE "sending"
    /\ UNCHANGED <<setup, chosen, data, lastTime, pause, exit, closer, speed, clock>>

\* Mutant of Send: it does not wait for room.
SendUnbounded ==
    /\ pc = "sending"
    /\ data' = data \o hand
    /\ hand' = <<>>
    /\ pc' = "top"
    /\ UNCHANGED <<setup, readers, chosen, given, lastTime, pause, exit, closer, speed, clock>>

\* i.data <- payload blocks while the channel is full
Send ==
    /\ pc = "sending"
    /\ Len(data) < DataCap
    /\ data' = data \o hand
    /\ hand' = <<>>
    /\ pc' = "top"
    /\ UNCHANGED <<setup, readers, chosen, given, lastTime, pause, exit, closer, speed, clock>>

\* A unit of time passes, wherever emit is: it may be late, and does not make up for it.
TimePasses ==
    /\ elapsed' = IF elapsed < MaxTime THEN elapsed + 1 ELSE elapsed
    /\ pause' = IF pause > 0 THEN pause - 1 ELSE pause
    /\ UNCHANGED <<setup, readers, pc, chosen, hand, data, given, lastTime, exit, closer,
                   speed, first>>

-----------------------------------------------------------------------------
(* Close *)

\* i.exit <- true. main closes the plugins it has: with a limit that is the Limiter, which
\* has no Close
CloseSignals ==
    /\ closing = "no"
    /\ setup.percent = 100
    /\ closing' = "closing"
    /\ exit' = TRUE
    /\ UNCHANGED <<setup, readers, emitter, toClose, speed, clock>>

\* r.Close(), which panics if r is nil
CloseReader ==
    /\ closing = "closing"
    /\ toClose <= Len(readers)
    /\ IF readers[toClose] = NilReader
       THEN closing' = "panicked" /\ UNCHANGED <<readers, toClose>>
       ELSE /\ readers' = [readers EXCEPT ![toClose].file = IF @ = "open" THEN "closed" ELSE @]
            /\ toClose' = toClose + 1
            /\ UNCHANGED closing
    /\ UNCHANGED <<setup, emitter, exit, speed, clock>>

CloseReturns ==
    /\ closing = "closing"
    /\ toClose > Len(readers)
    /\ closing' = "closed"
    /\ UNCHANGED <<setup, readers, emitter, exit, toClose, speed, clock>>

-----------------------------------------------------------------------------
Emit == Check \/ Choose \/ Reopen \/ EndOfFile \/ ReadPayload \/ Send
Close == CloseSignals \/ CloseReader \/ CloseReturns

\* A panic, of Close or of emit, ends the process
Alive == closing # "panicked" /\ pc # "panicked"

Next == Alive /\ (Emit \/ Close \/ NewLimiter \/ TimePasses)

Spec == Init /\ [][Next]_vars

\* The goroutines run and time passes; main need not close the input
FairSpec ==
    /\ Spec
    /\ WF_vars(Alive /\ Emit) /\ WF_vars(Alive /\ (CloseReader \/ CloseReturns))
    /\ WF_vars(Alive /\ TimePasses)
=============================================================================
