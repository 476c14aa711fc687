------------------------ MODULE FileInputProperties ------------------------
(* What input.FileInput promises of the files it replays.                   *)
EXTENDS FileInput

\* Type invariant.
TypeOK ==
    /\ setup \in Setups
    /\ DOMAIN readers = DOMAIN setup.files
    /\ \A k \in DOMAIN readers :
         /\ readers[k].at \in 0..Len(setup.files[k])
         /\ readers[k].file \in {"open", "closed", "nil", "no reader"}
         /\ given[k] \in 0..Len(setup.files[k])
    /\ pc \in {"top", "choosing", "sleeping", "sending", "done", "gone", "panicked"}
    /\ chosen \in DOMAIN readers \cup {0}
    /\ Len(hand) = (IF pc = "sending" THEN 1 ELSE 0) \/ pc = "panicked"
    /\ Len(data) \in 0..DataCap
    /\ exit \in BOOLEAN /\ closing \in {"no", "closing", "closed", "panicked"}
    /\ toClose \in 1..(Len(readers) + 1)
    /\ lastTime >= -1 /\ pause >= Forever /\ speed \in {100, setup.percent}
    /\ elapsed \in 0..MaxTime

\* A file that cannot be opened has no records to replay
Readable == [k \in DOMAIN setup.files |->
                IF k \in setup.unreadable THEN <<>> ELSE setup.files[k]]

\* "Find reader with smallest timestamp e.g next payload in row" (input_file.go:171):
\* the input implements Replay. No record comes twice or out of its row, also while
\* Close takes the files away below the readers.
Replayed == INSTANCE Replay
    WITH files <- Readable, loop <- setup.loop, out <- data \o hand
Replays == Replayed!Spec

\* "end of file" (input_file.go:225) is the end of all files: emit does not stop by
\* itself before it has given each record.
EndsWhenDone == pc = "done" => \A k \in DOMAIN readers : given[k] = Len(Readable[k])

\* The greatest speed there was, and how many records were given
Fastest == IF setup.percent > 100 THEN setup.percent ELSE 100
Taken == SumFunction(given)

\* The replay does not run ahead of the recording: a record is given no sooner after
\* the first one of its pass than their time stamps lie apart, at the greatest speed
\* there was, whatever order the records of the files come in. The pauses add up, but
\* each is cut to a whole unit of time, so that a speed that is wrong by less than a unit
\* per record is not told apart. (A limit of 0 gives no pauses, or endless ones.)
NotAhead ==
    pc = "sending" /\ setup.percent > 0 /\ elapsed < MaxTime =>
        (elapsed + Taken - 1) * Fastest >= (lastTime - first) * 100

\* After Close, emit ends, whatever it was doing, looping over files without a record
\* included; unless something panics, or emit waits for a channel nobody reads.
CloseEndsEmit ==
    closing = "closing" ~>
        \/ pc \in {"done", "gone"} \/ ~Alive
        \/ pc = "sending" /\ Len(data) = DataCap
=============================================================================
