--------------------------- MODULE FileInputProofs ---------------------------
(***************************************************************************)
(* The file input implements Replay, and ends only when all was given, for *)
(* any files without a damaged one, any limits and capacity, also when     *)
(* Close takes the files away while they are read.                         *)
(***************************************************************************)
EXTENDS FileInputProperties, DataLemmas

\* No gzip stream is cut off. (The run file_damaged shows what happens if one is.)
NoDamage == \A s \in Setups : s.damaged = {}

Files == DOMAIN setup.files

FileStates == {"open", "closed", "nil", "no reader"}

\* A reader holds the record after those that were given
Holds(k) ==
    /\ readers[k] \in [at : Nat, file : FileStates]
    /\ given[k] \in Nat
    /\ \/ /\ readers[k].file \in {"open", "closed"} /\ k \notin setup.unreadable
          /\ readers[k].at = given[k] + 1 /\ readers[k].at <= Len(setup.files[k])
       \/ /\ readers[k].file = "nil" /\ k \notin setup.unreadable
          /\ given[k] = Len(setup.files[k])
       \/ /\ readers[k].file = "no reader" /\ k \in setup.unreadable
          /\ given[k] = 0

\* emit does not come to choose another record: it has been told to exit, or has
AboutToExit == (exit /\ pc \in {"sending", "top"}) \/ pc \in {"gone", "panicked"}

Least(k) == k \in Candidates /\ \A j \in Candidates : Timestamp(k) <= Timestamp(j)

IInv ==
    /\ setup \in Setups
    /\ readers = [k \in Files |-> readers[k]] /\ given = [k \in Files |-> given[k]]
    /\ exit \in BOOLEAN
    /\ (\A k \in Files : Holds(k)) \/ AboutToExit
    /\ closing # "no" => exit \/ pc = "gone"
    /\ \A k \in Files : readers[k].file = "closed" => closing # "no"
    /\ data \in Seq(Nat \X Nat) /\ hand \in Seq(Nat \X Nat)
    /\ pc \notin {"sending", "panicked"} => hand = <<>>
    /\ pc = "sleeping" => Least(chosen)
    /\ pc = "done" => Candidates = {}

-----------------------------------------------------------------------------
(* What the files are. *)

\* The files of a setup are sequences of time stamps.
LEMMA FilesAreSequences ==
    ASSUME setup \in Setups
    PROVE  /\ Files = 1..Len(setup.files) /\ Len(setup.files) \in Nat
           /\ \A k \in Files : /\ setup.files[k] \in Seq(Nat) /\ Len(setup.files[k]) \in Nat
                               /\ \A n \in 1..Len(setup.files[k]) : setup.files[k][n] \in Nat
<1>1. setup.files \in Seq(Seq(Nat))
  BY FileInputAssumption
<1>2. Files = 1..Len(setup.files) /\ Len(setup.files) \in Nat
  BY <1>1, LenProperties DEF Files
<1>3. \A k \in Files : setup.files[k] \in Seq(Nat)
  BY <1>1, <1>2, ElementOfSeq
<1>4. ASSUME NEW k \in Files
      PROVE  /\ Len(setup.files[k]) \in Nat
             /\ \A n \in 1..Len(setup.files[k]) : setup.files[k][n] \in Nat
  BY <1>3, LenProperties, ElementOfSeq
<1>. QED BY <1>2, <1>3, <1>4

\* The readers that may be chosen are those with records left, and each holds the
\* time stamp of its next record.
LEMMA CandidatesAreLeft ==
    ASSUME IInv, \A k \in Files : Holds(k)
    PROVE  /\ Candidates = Replayed!Left
           /\ \A k \in Candidates : /\ Timestamp(k) = Replayed!NextOf(k) /\ Timestamp(k) \in Nat
                                    /\ k \in Files /\ k \in Nat /\ k \notin setup.unreadable
<1>1. DOMAIN readers = Files /\ DOMAIN Readable = Files /\ setup \in Setups
  BY DEF IInv, Readable, Files
<1>2. ASSUME NEW k \in Files PROVE k \in Candidates <=> given[k] < Len(Readable[k])
  <2>1. Len(setup.files[k]) \in Nat /\ Len(<<>>) = 0
    BY <1>1, FilesAreSequences
  <2>2. Readable[k] = IF k \in setup.unreadable THEN <<>> ELSE setup.files[k]
    BY DEF Readable, Files
  <2>3. k \in Candidates <=> readers[k].file \in {"open", "closed"}
    BY <1>1 DEF Candidates
  <2>4. Holds(k)
    OBVIOUS
  <2>5. CASE readers[k].file \in {"open", "closed"}
    <3>1. given[k] \in Nat /\ k \notin setup.unreadable /\ given[k] + 1 <= Len(setup.files[k])
      BY <2>4, <2>5 DEF Holds
    <3>. QED BY <2>1, <2>2, <2>3, <2>5, <3>1
  <2>6. CASE readers[k].file \notin {"open", "closed"}
    <3>1. given[k] = Len(Readable[k])
      BY <2>1, <2>2, <2>4, <2>6 DEF Holds
    <3>. QED BY <2>1, <2>2, <2>3, <2>6, <3>1
  <2>. QED BY <2>5, <2>6
<1>3. Candidates = Replayed!Left
  BY <1>1, <1>2 DEF Candidates, Replayed!Left
<1>4. ASSUME NEW k \in Candidates
      PROVE  /\ Timestamp(k) = Replayed!NextOf(k) /\ Timestamp(k) \in Nat
             /\ k \in Files /\ k \in Nat /\ k \notin setup.unreadable
  <2>1. k \in Files /\ readers[k].file \in {"open", "closed"}
    BY <1>1 DEF Candidates
  <2>2. /\ k \notin setup.unreadable /\ readers[k].at = given[k] + 1
        /\ readers[k].at \in 1..Len(setup.files[k])
    <3>1. Len(setup.files[k]) \in Nat /\ Holds(k)
      BY <1>1, <2>1, FilesAreSequences
    <3>2. /\ k \notin setup.unreadable /\ readers[k].at = given[k] + 1 /\ given[k] \in Nat
          /\ readers[k].at <= Len(setup.files[k])
      BY <2>1, <3>1 DEF Holds
    <3>. QED BY <3>1, <3>2
  <2>3. Readable[k] = setup.files[k] /\ readers[k].at # 0
    BY <2>1, <2>2 DEF Readable, Files
  <2>4. setup.files[k][readers[k].at] \in Nat /\ k \in Nat
    BY <1>1, <2>1, <2>2, FilesAreSequences
  <2>. QED BY <2>1, <2>2, <2>3, <2>4 DEF Timestamp, Replayed!NextOf
<1>. QED BY <1>3, <1>4

\* nextReader finds a reader with the least time stamp.
LEMMA NextReaderIsLeast ==
    ASSUME IInv, \A k \in Files : Holds(k), Candidates # {}
    PROVE  Least(NextReader)
<1>1. \A k \in Candidates : Timestamp(k) \in Nat /\ k \in Nat
  BY CandidatesAreLeft
<1>. DEFINE stamps == {Timestamp(k) : k \in Candidates}
<1>2. PICK t \in stamps : \A u \in stamps : t <= u
  <2>1. stamps \in SUBSET Nat /\ stamps # {}
    BY <1>1
  <2>. HIDE DEF stamps
  <2>. QED BY <2>1, LeastNumber
<1>. DEFINE first1 == {k \in Candidates : Timestamp(k) = t}
<1>3. PICK f \in first1 : \A j \in first1 : f <= j
  <2>1. first1 \in SUBSET Nat /\ first1 # {}
    BY <1>1, <1>2
  <2>. HIDE DEF first1
  <2>. QED BY <2>1, LeastNumber
<1>4. \A j \in Candidates : Timestamp(f) < Timestamp(j) \/ (Timestamp(f) = Timestamp(j) /\ f <= j)
  <2>1. ASSUME NEW j \in Candidates
        PROVE  Timestamp(f) < Timestamp(j) \/ (Timestamp(f) = Timestamp(j) /\ f <= j)
    <3>1. t <= Timestamp(j) /\ Timestamp(f) = t /\ Timestamp(j) \in Nat /\ t \in Nat
      BY <1>1, <1>2, <1>3
    <3>2. CASE Timestamp(j) = t
      BY <1>3, <3>1, <3>2
    <3>3. CASE Timestamp(j) # t
      BY <3>1, <3>3
    <3>. QED BY <3>2, <3>3
  <2>. QED BY <2>1
<1>5. /\ NextReader \in Candidates
      /\ \A j \in Candidates :
            Timestamp(NextReader) < Timestamp(j)
            \/ (Timestamp(NextReader) = Timestamp(j) /\ NextReader <= j)
  <2>1. f \in Candidates
    BY <1>3
  <2>. QED BY <1>4, <2>1 DEF NextReader
<1>. QED BY <1>1, <1>5 DEF Least

\* A new reader holds the first record.
LEMMA OpenedHold ==
    ASSUME NoDamage, setup \in Setups, NEW k \in Files, NEW r, r = NewFileInputReader(k)
    PROVE  /\ r \in [at : Nat, file : FileStates] /\ r.file # "closed"
           /\ \/ /\ r.file = "open" /\ k \notin setup.unreadable
                 /\ r.at = 1 /\ r.at <= Len(setup.files[k])
              \/ /\ r.file = "nil" /\ k \notin setup.unreadable /\ Len(setup.files[k]) = 0
              \/ /\ r.file = "no reader" /\ k \in setup.unreadable
<1>1. k \notin setup.damaged /\ Len(setup.files[k]) \in Nat
  BY FilesAreSequences DEF NoDamage
<1>2. CASE k \in setup.unreadable
  BY <1>2 DEF NewFileInputReader, NilReader, FileStates
<1>3. CASE k \notin setup.unreadable
  <2>1. r = IF 0 < Len(setup.files[k]) THEN [at |-> 1, file |-> "open"]
            ELSE [at |-> 0, file |-> "nil"]
    <3>. DEFINE r0 == [at |-> 0, file |-> "open"]
    <3>1. r = Advanced(k, r0)
      BY <1>3 DEF NewFileInputReader
    <3>2. r0.at = 0 /\ r0.file = "open"
      OBVIOUS
    <3>3. [r0 EXCEPT !.at = @ + 1] = [at |-> 1, file |-> "open"]
      OBVIOUS
    <3>4. [r0 EXCEPT !.file = "nil"] = [at |-> 0, file |-> "nil"]
      OBVIOUS
    <3>. HIDE DEF r0
    <3>. QED BY <1>1, <3>1, <3>2, <3>3, <3>4 DEF Advanced
  <2>2. CASE 0 < Len(setup.files[k])
    BY <1>1, <1>3, <2>1, <2>2 DEF FileStates
  <2>3. CASE ~(0 < Len(setup.files[k]))
    BY <1>1, <1>3, <2>1, <2>3 DEF FileStates
  <2>. QED BY <2>2, <2>3
<1>. QED BY <1>2, <1>3

\* What init opens holds the invariant's part about the readers, with nothing given.
LEMMA OpenedReaders ==
    ASSUME NoDamage, setup \in Setups, setup' = setup, readers' = Opened,
           given' = [k \in DOMAIN setup.files |-> 0]
    PROVE  /\ readers' = [k \in Files |-> readers'[k]] /\ given' = [k \in Files |-> given'[k]]
           /\ \A k \in Files : Holds(k)' /\ readers'[k].file # "closed"
<1>1. /\ readers' = [k \in Files |-> NewFileInputReader(k)]
      /\ given' = [k \in Files |-> 0]
  BY DEF Opened, Files
<1>2. ASSUME NEW k \in Files PROVE Holds(k)' /\ readers'[k].file # "closed"
  <2>1. readers'[k] = NewFileInputReader(k) /\ given'[k] = 0
    BY <1>1
  <2>2. /\ readers'[k] \in [at : Nat, file : FileStates] /\ readers'[k].file # "closed"
        /\ \/ /\ readers'[k].file = "open" /\ k \notin setup.unreadable
              /\ readers'[k].at = 1 /\ readers'[k].at <= Len(setup.files[k])
           \/ /\ readers'[k].file = "nil" /\ k \notin setup.unreadable /\ Len(setup.files[k]) = 0
           \/ /\ readers'[k].file = "no reader" /\ k \in setup.unreadable
    BY <2>1, OpenedHold
  <2>3. readers'[k] \in [at : Nat, file : FileStates] /\ given'[k] = 0
    BY ONLY <2>1, <2>2, Zenon
  <2>4. CASE /\ readers'[k].file = "open" /\ k \notin setup.unreadable
             /\ readers'[k].at = 1 /\ readers'[k].at <= Len(setup.files[k])
    BY <2>2, <2>3, <2>4 DEF Holds
  <2>5. CASE readers'[k].file = "nil" /\ k \notin setup.unreadable /\ Len(setup.files[k]) = 0
    BY <2>2, <2>3, <2>5 DEF Holds
  <2>6. CASE readers'[k].file = "no reader" /\ k \in setup.unreadable
    <3>1. given'[k] = 0 /\ given'[k] \in Nat
      BY <2>3
    <3>. QED BY <2>3, <2>6, <3>1, Zenon DEF Holds
  <2>. QED BY <2>2, <2>4, <2>5, <2>6
<1>. QED BY <1>1, <1>2

-----------------------------------------------------------------------------
(* The actions. *)

\* The invariant holds when the readers have been opened.
LEMMA InitIInv == NoDamage /\ Init => IInv
<1>. SUFFICES ASSUME NoDamage, Init PROVE IInv
  OBVIOUS
<1>1. setup \in Setups /\ readers = [k \in Files |-> NewFileInputReader(k)]
      /\ given = [k \in Files |-> 0]
  BY DEF Init, Opened, Files
<1>2. ASSUME NEW k \in Files PROVE Holds(k) /\ readers[k].file # "closed"
  <2>1. readers[k] = NewFileInputReader(k) /\ given[k] = 0
    BY <1>1
  <2>2. /\ readers[k] \in [at : Nat, file : FileStates] /\ readers[k].file # "closed"
        /\ \/ /\ readers[k].file = "open" /\ k \notin setup.unreadable
              /\ readers[k].at = 1 /\ readers[k].at <= Len(setup.files[k])
           \/ /\ readers[k].file = "nil" /\ k \notin setup.unreadable /\ Len(setup.files[k]) = 0
           \/ /\ readers[k].file = "no reader" /\ k \in setup.unreadable
    BY <1>1, <2>1, OpenedHold
  <2>3. readers[k] \in [at : Nat, file : FileStates] /\ given[k] = 0
    BY ONLY <2>1, <2>2, Zenon
  <2>4. CASE /\ readers[k].file = "open" /\ k \notin setup.unreadable
             /\ readers[k].at = 1 /\ readers[k].at <= Len(setup.files[k])
    BY <2>2, <2>3, <2>4 DEF Holds
  <2>5. CASE readers[k].file = "nil" /\ k \notin setup.unreadable /\ Len(setup.files[k]) = 0
    BY <2>2, <2>3, <2>5 DEF Holds
  <2>6. CASE readers[k].file = "no reader" /\ k \in setup.unreadable
    <3>1. given[k] = 0 /\ given[k] \in Nat
      BY <2>3
    <3>. QED BY <2>3, <2>6, <3>1, Zenon DEF Holds
  <2>. QED BY <2>2, <2>4, <2>5, <2>6
<1>3. /\ exit = FALSE /\ closing = "no" /\ data = <<>> /\ hand = <<>>
      /\ pc \in {"panicked", "top"}
  BY DEF Init
<1>4. data \in Seq(Nat \X Nat) /\ hand \in Seq(Nat \X Nat)
  BY <1>3
<1>. QED BY <1>1, <1>2, <1>3, <1>4 DEF IInv

\* What leaves the readers alone.
LEMMA ReadersUntouched ==
    ASSUME IInv, UNCHANGED <<setup, readers, given>>, exit' \in BOOLEAN,
           (\A k \in Files : Holds(k)) \/ AboutToExit',
           closing # "no" => closing' # "no",
           closing' # "no" => exit' \/ pc' = "gone",
           data' \in Seq(Nat \X Nat), hand' \in Seq(Nat \X Nat),
           pc' \notin {"sending", "panicked"} => hand' = <<>>,
           pc' = "sleeping" => Least(chosen)', pc' = "done" => Candidates = {}
    PROVE  IInv'
<1>1. Files' = Files /\ Candidates' = Candidates
  BY DEF Files, Candidates
<1>2. \A k \in Files : Holds(k)' <=> Holds(k)
  BY DEF Holds
<1>. QED BY <1>1, <1>2 DEF IInv

\* What leaves emit alone, too.
LEMMA EmitUntouched ==
    ASSUME IInv, UNCHANGED <<setup, readers, given, pc, chosen, hand, data>>, exit' \in BOOLEAN,
           exit => exit', closing # "no" => closing' # "no", closing' # "no" => exit' \/ pc = "gone"
    PROVE  IInv'
<1>1. Least(chosen)' <=> Least(chosen)
  BY DEF Least, Candidates, Timestamp
<1>2. AboutToExit => AboutToExit'
  BY DEF AboutToExit
<1>. QED BY <1>1, <1>2, ReadersUntouched DEF IInv

\* emit looks at exit, and chooses a record only if it is not told to exit.
LEMMA CheckIInv == IInv /\ Check => IInv'
<1>. SUFFICES ASSUME IInv, Check PROVE IInv'
  OBVIOUS
<1>1. /\ pc = "top" /\ exit' = FALSE /\ pc' = (IF exit THEN "gone" ELSE "choosing")
      /\ UNCHANGED <<setup, readers, chosen, hand, data, given, closing>>
  BY DEF Check, closer
<1>2. /\ exit \in BOOLEAN /\ (closing # "no" => exit) /\ hand = <<>>
      /\ (\A k \in Files : Holds(k)) \/ exit
  BY <1>1 DEF IInv, AboutToExit
<1>3. (\A k \in Files : Holds(k)) \/ AboutToExit'
  BY <1>1, <1>2 DEF AboutToExit
<1>4. /\ pc' \in {"gone", "choosing"} /\ (closing' # "no" => pc' = "gone") /\ hand' = <<>>
      /\ data' \in Seq(Nat \X Nat) /\ hand' \in Seq(Nat \X Nat)
  BY <1>1, <1>2 DEF IInv
<1>. QED BY <1>1, <1>3, <1>4, ReadersUntouched

\* emit chooses the next record.
LEMMA ChooseIInv == IInv /\ Choose => IInv'
<1>. SUFFICES ASSUME IInv, Choose PROVE IInv'
  OBVIOUS
<1>1. /\ pc = "choosing" /\ Candidates # {} /\ chosen' = NextReader /\ pc' = "sleeping"
      /\ UNCHANGED <<setup, readers, hand, data, given, exit, closing>>
  BY DEF Choose, closer
<1>2. \A k \in Files : Holds(k)
  BY <1>1 DEF IInv, AboutToExit
<1>3. Least(NextReader)
  BY <1>1, <1>2, NextReaderIsLeast
<1>4. Least(chosen)'
  BY <1>1, <1>3 DEF Least, Candidates, Timestamp
<1>. QED BY <1>1, <1>2, <1>4, ReadersUntouched DEF IInv

\* init opens the files again.
LEMMA ReopenIInv == NoDamage /\ IInv /\ Reopen => IInv'
<1>. SUFFICES ASSUME NoDamage, IInv, Reopen PROVE IInv'
  OBVIOUS
<1>1. /\ pc = "choosing" /\ pc' = "top" /\ readers' = Opened
      /\ given' = [k \in DOMAIN setup.files |-> 0]
      /\ UNCHANGED <<setup, hand, data, exit, closing>>
  BY DEF Reopen, closer
<1>2. Files' = Files /\ setup \in Setups
  BY <1>1 DEF Files, IInv
<1>3. /\ readers' = [k \in Files |-> readers'[k]] /\ given' = [k \in Files |-> given'[k]]
      /\ \A k \in Files : Holds(k)' /\ readers'[k].file # "closed"
  BY <1>1, <1>2, OpenedReaders
<1>4. (\A k \in Files : Holds(k))'
  BY <1>2, <1>3
<1>. QED BY <1>1, <1>2, <1>3, <1>4 DEF IInv

\* All was given, or the input is looped.
LEMMA EndOfFileIInv == IInv /\ EndOfFile => IInv'
<1>. SUFFICES ASSUME IInv, EndOfFile PROVE IInv'
  OBVIOUS
<1>1. /\ pc = "choosing" /\ Candidates = {} /\ pc' = "done"
      /\ UNCHANGED <<setup, readers, hand, data, given, exit, closing>>
  BY DEF EndOfFile, closer
<1>2. \A k \in Files : Holds(k)
  BY <1>1 DEF IInv, AboutToExit
<1>. QED BY <1>1, <1>2, ReadersUntouched DEF IInv

\* The record goes into the channel.
LEMMA SendIInv == IInv /\ Send => IInv'
<1>. SUFFICES ASSUME IInv, Send PROVE IInv'
  OBVIOUS
<1>1. /\ pc = "sending" /\ pc' = "top" /\ data' = data \o hand /\ hand' = <<>>
      /\ UNCHANGED <<setup, readers, given, exit, closing>>
  BY DEF Send, closer
<1>2. data' \in Seq(Nat \X Nat) /\ hand' \in Seq(Nat \X Nat)
  BY <1>1, ConcatProperties DEF IInv
<1>3. (\A k \in Files : Holds(k)) \/ AboutToExit'
  BY <1>1 DEF IInv, AboutToExit
<1>. QED BY <1>1, <1>2, <1>3, ReadersUntouched DEF IInv

\* The chosen record is taken, and the reader holds the one after it, or emit is about
\* to exit.
LEMMA ReadPayloadIInv == NoDamage /\ IInv /\ ReadPayload => IInv'
<1>. SUFFICES ASSUME NoDamage, IInv, ReadPayload PROVE IInv'
  OBVIOUS
<1>1. /\ pc = "sleeping" /\ hand' = <<<<chosen, readers[chosen].at>>>>
      /\ given' = [given EXCEPT ![chosen] = @ + 1]
      /\ UNCHANGED <<setup, chosen, data, exit, closing>>
  BY DEF ReadPayload, closer
<1>2. PICK r \in ParseNext(chosen, readers[chosen]) :
        /\ readers' = [readers EXCEPT ![chosen] = r]
        /\ pc' = IF r # readers[chosen] /\ Malformed(chosen, r) THEN "panicked" ELSE "sending"
  BY DEF ReadPayload
<1>3. \A k \in Files : Holds(k)
  BY <1>1 DEF IInv, AboutToExit
<1>4. Least(chosen) /\ setup \in Setups /\ DOMAIN readers = Files /\ DOMAIN given = Files
  BY <1>1 DEF IInv
<1>5. chosen \in Files /\ chosen \in Nat /\ chosen \notin setup.unreadable
  BY <1>3, <1>4, CandidatesAreLeft DEF Least
<1>6. /\ readers[chosen].file \in {"open", "closed"}
      /\ readers[chosen] \in [at : Nat, file : FileStates]
      /\ readers[chosen].at = given[chosen] + 1 /\ given[chosen] \in Nat
      /\ readers[chosen].at <= Len(setup.files[chosen]) /\ Len(setup.files[chosen]) \in Nat
  BY <1>3, <1>4, <1>5, FilesAreSequences DEF Least, Candidates, Holds
<1>7. hand' \in Seq(Nat \X Nat) /\ pc' \in {"panicked", "sending"}
  BY <1>1, <1>2, <1>5, <1>6
<1>8. /\ Files' = Files /\ readers'[chosen] = r /\ given'[chosen] = given[chosen] + 1
      /\ \A k \in Files : k # chosen => readers'[k] = readers[k] /\ given'[k] = given[k]
      /\ readers' = [k \in Files |-> readers'[k]] /\ given' = [k \in Files |-> given'[k]]
  BY <1>1, <1>2, <1>4, <1>5 DEF Files
<1>9. \A k \in Files : k # chosen => Holds(k)'
  BY <1>1, <1>3, <1>8 DEF Holds
<1>10. r = Advanced(chosen, readers[chosen]) \/ (r = readers[chosen] /\ r.file = "closed")
  BY <1>2 DEF ParseNext
<1>11. CASE r = Advanced(chosen, readers[chosen])
  <2>. DEFINE old == readers[chosen]
              n == Len(setup.files[chosen])
  <2>1. chosen \notin setup.damaged
    BY <1>4 DEF NoDamage
  <2>2. r = IF old.at < n THEN [old EXCEPT !.at = @ + 1] ELSE [old EXCEPT !.file = "nil"]
    BY <1>11, <2>1 DEF Advanced
  <2>3. /\ old \in [at : Nat, file : FileStates] /\ old.file \in {"open", "closed"}
        /\ old.at = given[chosen] + 1 /\ old.at \in Nat /\ old.at <= n /\ n \in Nat
    BY <1>6
  <2>4. /\ setup' = setup /\ readers'[chosen] = r /\ given'[chosen] = old.at
    BY <1>1, <1>8, <2>3
  <2>5. old.file = "closed" => closing # "no"
    BY <1>1, <1>5 DEF IInv
  <2>. HIDE DEF old
  <2>6. ASSUME old.at < n
        PROVE  /\ r \in [at : Nat, file : FileStates]
               /\ r.at <= n /\ r.at = old.at + 1 /\ r.file = old.file
    <3>1. r = [old EXCEPT !.at = old.at + 1] /\ old.at + 1 \in Nat
      BY <2>2, <2>3, <2>6
    <3>2. r \in [at : Nat, file : FileStates] /\ r.at = old.at + 1 /\ r.file = old.file
      BY <2>3, <3>1
    <3>. QED BY <2>3, <2>6, <3>2
  <2>7. ASSUME ~(old.at < n)
        PROVE  r \in [at : Nat, file : FileStates] /\ r.file = "nil" /\ old.at = n
    <3>1. r = [old EXCEPT !.file = "nil"] /\ "nil" \in FileStates
      BY <2>2, <2>7 DEF FileStates
    <3>2. r \in [at : Nat, file : FileStates] /\ r.file = "nil"
      BY <2>3, <3>1
    <3>. QED BY <2>3, <2>7, <3>2
  <2>8. r.file = "closed" => closing # "no"
    BY <2>5, <2>6, <2>7
  <2>9. Holds(chosen)'
    <3>1. readers'[chosen] \in [at : Nat, file : FileStates] /\ given'[chosen] \in Nat
      BY <2>3, <2>4, <2>6, <2>7
    <3>2. CASE r.at <= n /\ r.at = old.at + 1 /\ r.file = old.file
      <4>1. /\ readers'[chosen].file \in {"open", "closed"} /\ chosen \notin setup'.unreadable
            /\ readers'[chosen].at = given'[chosen] + 1
            /\ readers'[chosen].at <= Len(setup'.files[chosen])
        BY <1>5, <2>3, <2>4, <3>2
      <4>. QED BY <1>1, <3>1, <4>1 DEF Holds
    <3>3. CASE r.file = "nil" /\ old.at = n
      <4>1. /\ readers'[chosen].file = "nil" /\ chosen \notin setup'.unreadable
            /\ given'[chosen] = Len(setup'.files[chosen])
        BY <1>5, <2>4, <3>3
      <4>. QED BY <1>1, <3>1, <4>1 DEF Holds
    <3>. QED BY <2>6, <2>7, <3>2, <3>3
  <2>10. (\A k \in Files : Holds(k))'
    <3>1. ASSUME NEW k \in Files, k = chosen PROVE Holds(k)'
      BY <1>1, <2>9, <3>1 DEF Holds
    <3>. QED BY <1>8, <1>9, <3>1
  <2>11. \A k \in Files : readers'[k].file = "closed" => closing # "no"
    BY <1>5, <1>8, <2>8 DEF IInv
  <2>. QED BY <1>1, <1>7, <1>8, <2>10, <2>11 DEF IInv
<1>12. CASE r = readers[chosen] /\ r.file = "closed"
  <2>1. closing # "no" /\ exit
    BY <1>1, <1>5, <1>12 DEF IInv
  <2>2. AboutToExit'
    BY <1>1, <1>7, <2>1 DEF AboutToExit
  <2>3. \A k \in Files : readers'[k].file = "closed" => closing # "no"
    BY <2>1
  <2>. QED BY <1>1, <1>7, <1>8, <2>1, <2>2, <2>3 DEF IInv
<1>. QED BY <1>10, <1>11, <1>12

\* Close closes the file of a reader, which still holds its record.
LEMMA CloseReaderIInv == IInv /\ CloseReader => IInv'
<1>. SUFFICES ASSUME IInv, CloseReader PROVE IInv'
  OBVIOUS
<1>1. /\ closing = "closing" /\ closing' # "no"
      /\ UNCHANGED <<setup, pc, chosen, hand, data, given, exit>>
  BY DEF CloseReader, emitter
<1>2. CASE readers' = readers
  BY <1>1, <1>2, EmitUntouched DEF IInv
<1>3. CASE readers' = [readers EXCEPT ![toClose].file = IF @ = "open" THEN "closed" ELSE @]
  <2>1. /\ Files' = Files /\ DOMAIN readers = Files
        /\ readers' = [k \in Files |-> readers'[k]] /\ given' = [k \in Files |-> given'[k]]
    BY <1>1, <1>3 DEF IInv, Files
  <2>2. ASSUME NEW k \in Files
        PROVE  \/ readers'[k] = readers[k]
               \/ readers'[k] = [readers[k] EXCEPT !.file = IF @ = "open" THEN "closed" ELSE @]
    BY <1>3, <2>1
  <2>3. ASSUME NEW k \in Files, Holds(k)
        PROVE  /\ Holds(k)' /\ readers'[k].at = readers[k].at
               /\ readers'[k].file \in {"open", "closed"} <=> readers[k].file \in {"open", "closed"}
    <3>1. CASE readers'[k] = readers[k]
      BY <1>1, <2>3, <3>1 DEF Holds
    <3>2. CASE readers'[k] = [readers[k] EXCEPT !.file = IF @ = "open" THEN "closed" ELSE @]
      <4>1. readers[k] \in [at : Nat, file : FileStates]
        BY <2>3 DEF Holds
      <4>2. /\ readers'[k] \in [at : Nat, file : FileStates] /\ readers'[k].at = readers[k].at
            /\ readers'[k].file = IF readers[k].file = "open" THEN "closed" ELSE readers[k].file
        BY <3>2, <4>1 DEF FileStates
      <4>. QED BY <1>1, <2>3, <4>2 DEF Holds
    <3>. QED BY <2>2, <3>1, <3>2
  <2>4. CASE \A k \in Files : Holds(k)
    <3>1. (\A k \in Files : Holds(k))'
      BY <2>1, <2>3, <2>4
    <3>2. Candidates' = Candidates /\ \A k \in Files : Timestamp(k)' = Timestamp(k)
      BY <1>1, <2>1, <2>3, <2>4 DEF Candidates, Timestamp
    <3>3. Least(chosen) => Least(chosen)'
      BY <1>1, <2>1, <3>2 DEF Least, Candidates
    <3>. QED BY <1>1, <2>1, <3>1, <3>2, <3>3 DEF IInv
  <2>5. CASE AboutToExit
    <3>1. AboutToExit'
      BY <1>1, <2>5 DEF AboutToExit
    <3>2. pc \notin {"sleeping", "done"}
      BY <2>5 DEF AboutToExit
    <3>. QED BY <1>1, <2>1, <3>1, <3>2 DEF IInv
  <2>. QED BY <2>4, <2>5 DEF IInv
<1>. QED BY <1>2, <1>3 DEF CloseReader

\* Every step keeps the invariant.
LEMMA NextIInv == NoDamage /\ IInv /\ [Next]_vars => IInv'
<1>. SUFFICES ASSUME NoDamage, IInv, [Next]_vars PROVE IInv'
  OBVIOUS
<1>1. exit \in BOOLEAN /\ (closing # "no" => exit \/ pc = "gone")
  BY DEF IInv
<1>2. CASE NewLimiter \/ TimePasses \/ CloseReturns \/ UNCHANGED vars
  <2>1. /\ UNCHANGED <<setup, readers, given, pc, chosen, hand, data, exit>>
        /\ closing' = closing \/ (closing = "closing" /\ closing' = "closed")
    BY <1>2 DEF NewLimiter, TimePasses, CloseReturns, vars, emitter, closer
  <2>. QED BY <1>1, <2>1, EmitUntouched
<1>3. CASE CloseSignals
  BY <1>3, EmitUntouched DEF CloseSignals, emitter
<1>. QED BY <1>2, <1>3, CheckIInv, ChooseIInv, ReopenIInv, EndOfFileIInv, ReadPayloadIInv,
            SendIInv, CloseReaderIInv DEF Next, Emit, Close

-----------------------------------------------------------------------------
\* The inductive invariant of the file input: until emit is about to exit, each reader
\* holds the record after those given of its file.
THEOREM Invariance == ASSUME NoDamage PROVE Spec => []IInv
<1>1. Init => IInv
  BY InitIInv
<1>2. IInv /\ [Next]_vars => IInv'
  BY NextIInv
<1>. QED BY <1>1, <1>2, PTL DEF Spec

\* When emit ends by itself, every record of every file that can be read was given,
\* for any files without a damaged one.
THEOREM AllGiven == ASSUME NoDamage PROVE Spec => []EndsWhenDone
<1>1. ASSUME IInv PROVE EndsWhenDone
  <2>1. SUFFICES ASSUME pc = "done", NEW k \in DOMAIN readers PROVE given[k] = Len(Readable[k])
    BY DEF EndsWhenDone
  <2>2. /\ setup \in Setups /\ DOMAIN readers = Files /\ Candidates = {}
        /\ \A j \in Files : Holds(j)
    BY <1>1, <2>1 DEF IInv, AboutToExit
  <2>3. readers[k].file \notin {"open", "closed"} /\ Holds(k) /\ k \in Files
    BY <2>2 DEF Candidates
  <2>4. Readable[k] = (IF k \in setup.unreadable THEN <<>> ELSE setup.files[k]) /\ Len(<<>>) = 0
    BY <2>3 DEF Readable, Files
  <2>. QED BY <2>3, <2>4 DEF Holds
<1>. QED BY <1>1, Invariance, PTL

-----------------------------------------------------------------------------
(* The types. *)

Reader(k) == [at : 0..Len(setup.files[k]), file : FileStates]

ReadersTyped ==
    \A k \in Files : readers[k] \in Reader(k) /\ given[k] \in 0..Len(setup.files[k])

EmitTyped ==
    /\ pc \in {"top", "choosing", "sleeping", "sending", "done", "gone", "panicked"}
    /\ chosen \in Files \cup {0}
    /\ pc # "panicked" => Len(hand) = (IF pc = "sending" THEN 1 ELSE 0)
    /\ Len(data) \in 0..DataCap
    /\ lastTime \in Int /\ lastTime >= -1 /\ pause \in Int /\ pause >= Forever

CloseTyped ==
    /\ closing \in {"no", "closing", "closed", "panicked"}
    /\ toClose \in 1..(Len(setup.files) + 1)
    /\ speed \in {100, setup.percent} /\ elapsed \in 0..MaxTime

Typed == ReadersTyped /\ EmitTyped /\ CloseTyped

\* There is a reader for each file.
LEMMA ReadersOfFiles ==
    ASSUME IInv
    PROVE  Len(readers) = Len(setup.files) /\ DOMAIN readers = Files /\ Len(setup.files) \in Nat
<1>1. Files = 1..Len(setup.files) /\ Len(setup.files) \in Nat /\ DOMAIN readers = Files
  BY FilesAreSequences DEF IInv
<1>. PICK n \in Nat : n = Len(setup.files)
  BY <1>1
<1>. DEFINE S == {readers[k] : k \in Files}
<1>2. readers \in [1..n -> S]
  BY <1>1 DEF IInv
<1>. HIDE DEF S
<1>3. readers \in Seq(S)
  BY <1>2, SeqDef
<1>4. Len(readers) \in Nat /\ DOMAIN readers = 1..Len(readers)
  BY <1>3, LenProperties
<1>5. Len(readers) = n
  BY <1>1, <1>4
<1>. QED BY <1>1, <1>5

\* parseNext stays within the file.
LEMMA AdvancedTyped ==
    ASSUME setup \in Setups, NEW k \in Files, NEW r \in Reader(k)
    PROVE  Advanced(k, r) \in Reader(k)
<1>. PICK n \in Nat : n = Len(setup.files[k])
  BY FilesAreSequences
<1>1. r \in [at : 0..n, file : FileStates]
  BY DEF Reader
<1>2. CASE r.at < n
  <2>1. Advanced(k, r) = [r EXCEPT !.at = r.at + 1] /\ r.at + 1 \in 0..n
    BY <1>1, <1>2 DEF Advanced
  <2>. QED BY <1>1, <2>1 DEF Reader
<1>3. CASE ~(r.at < n)
  <2>1. Advanced(k, r) = r \/ Advanced(k, r) = [r EXCEPT !.file = "nil"]
    BY <1>3 DEF Advanced
  <2>2. "nil" \in FileStates
    BY DEF FileStates
  <2>. QED BY <1>1, <2>1, <2>2 DEF Reader
<1>. QED BY <1>2, <1>3

\* What init opens is well typed.
LEMMA OpenedTyped ==
    ASSUME setup \in Setups, NEW k \in Files
    PROVE  NewFileInputReader(k) \in Reader(k) /\ 0 \in 0..Len(setup.files[k])
<1>1. Len(setup.files[k]) \in Nat
  BY FilesAreSequences
<1>2. 0 \in 0..Len(setup.files[k])
  BY <1>1
<1>3. [at |-> 0, file |-> "open"] \in Reader(k) /\ NilReader \in Reader(k)
  BY <1>2 DEF Reader, FileStates, NilReader
<1>. QED BY <1>2, <1>3, AdvancedTyped DEF NewFileInputReader

\* The start is well typed.
LEMMA InitTyped == Init => Typed
<1>. SUFFICES ASSUME Init PROVE Typed
  OBVIOUS
<1>1. setup \in Setups /\ readers = [k \in Files |-> NewFileInputReader(k)]
      /\ given = [k \in Files |-> 0]
  BY DEF Init, Opened, Files
<1>2. ReadersTyped
  BY <1>1, OpenedTyped DEF ReadersTyped
<1>3. EmitTyped
  <2>1. /\ pc \in {"panicked", "top"} /\ chosen = 0 /\ hand = <<>> /\ data = <<>>
        /\ lastTime = -1 /\ pause = 0
    BY DEF Init
  <2>. QED BY <2>1, FileInputAssumption DEF EmitTyped, Forever
<1>4. CloseTyped
  <2>1. Len(setup.files) \in Nat
    BY <1>1, FilesAreSequences
  <2>. QED BY <2>1, FileInputAssumption DEF Init, CloseTyped
<1>. QED BY <1>2, <1>3, <1>4 DEF Typed

\* The readers stay well typed.
LEMMA NextReadersTyped == IInv /\ ReadersTyped /\ [Next]_vars => ReadersTyped'
<1>. SUFFICES ASSUME IInv, ReadersTyped, [Next]_vars PROVE ReadersTyped'
  OBVIOUS
<1>1. setup \in Setups /\ DOMAIN readers = Files /\ DOMAIN given = Files /\ setup' = setup
  BY DEF IInv, Next, Emit, Close, Check, Choose, Reopen, EndOfFile, ReadPayload, Send, CloseSignals,
         CloseReader, CloseReturns, NewLimiter, TimePasses, vars
<1>2. Files' = Files /\ \A k \in Files : Reader(k)' = Reader(k)
  BY <1>1 DEF Files, Reader
<1>3. SUFFICES ASSUME NEW k \in Files
               PROVE  readers'[k] \in Reader(k) /\ given'[k] \in 0..Len(setup.files[k])
  BY <1>1, <1>2 DEF ReadersTyped
<1>4. readers[k] \in Reader(k) /\ given[k] \in 0..Len(setup.files[k])
  BY DEF ReadersTyped
<1>5. CASE UNCHANGED <<readers, given>>
  BY <1>4, <1>5
<1>6. CASE Check \/ Choose \/ EndOfFile \/ Send \/ CloseSignals \/ CloseReturns \/ NewLimiter
           \/ TimePasses \/ UNCHANGED vars
  BY <1>5, <1>6 DEF Check, Choose, EndOfFile, Send, CloseSignals, CloseReturns, NewLimiter,
                    TimePasses, emitter, vars
<1>7. CASE Reopen
  <2>1. readers'[k] = NewFileInputReader(k) /\ given'[k] = 0
    BY <1>7 DEF Reopen, Opened, Files
  <2>. QED BY <1>1, <2>1, OpenedTyped
<1>8. CASE ReadPayload
  <2>1. pc = "sleeping" /\ \A j \in Files : Holds(j)
    BY <1>8 DEF ReadPayload, IInv, AboutToExit
  <2>2. CASE k # chosen
    BY <1>4, <1>8, <2>2 DEF ReadPayload
  <2>3. CASE k = chosen
    <3>1. PICK r \in ParseNext(k, readers[k]) : readers' = [readers EXCEPT ![k] = r]
      BY <1>8, <2>3 DEF ReadPayload
    <3>2. r = Advanced(k, readers[k]) \/ r = readers[k]
      BY DEF ParseNext
    <3>3. r \in Reader(k)
      BY <1>1, <1>4, <3>2, AdvancedTyped
    <3>4. given'[k] = given[k] + 1
      BY <1>1, <1>8, <2>3 DEF ReadPayload
    <3>5. given[k] \in Nat /\ given[k] + 1 <= Len(setup.files[k]) /\ Len(setup.files[k]) \in Nat
      <4>1. readers[k].file \in {"open", "closed"} /\ Holds(k)
        BY <1>8, <2>1, <2>3 DEF IInv, Least, Candidates
      <4>2. Len(setup.files[k]) \in Nat
        BY <1>1, FilesAreSequences
      <4>. QED BY <4>1, <4>2 DEF Holds
    <3>. QED BY <1>1, <3>1, <3>3, <3>4, <3>5
  <2>. QED BY <2>2, <2>3
<1>9. CASE CloseReader
  <2>1. given' = given
    BY <1>9 DEF CloseReader, emitter
  <2>2. \/ readers'[k] = readers[k]
        \/ readers'[k] = [readers[k] EXCEPT !.file = IF @ = "open" THEN "closed" ELSE @]
    BY <1>1, <1>9 DEF CloseReader
  <2>3. [readers[k] EXCEPT !.file = IF @ = "open" THEN "closed" ELSE @] \in Reader(k)
    <3>1. "closed" \in FileStates
      BY DEF FileStates
    <3>. QED BY <1>4, <3>1 DEF Reader
  <2>. QED BY <1>4, <2>1, <2>2, <2>3
<1>. QED BY <1>6, <1>7, <1>8, <1>9 DEF Next, Emit, Close

\* A pause is not negative, or endless.
LEMMA PausesTyped ==
    ASSUME NEW d \in Int, speed \in Nat, NEW p \in Pauses(d)
    PROVE  p \in Int /\ p >= Forever
<1>1. CASE speed = 0 \/ d <= 0
  BY <1>1 DEF Pauses, Forever
<1>2. CASE speed > 0 /\ d > 0
  <2>1. p = (d * 100) \div speed
    BY <1>2 DEF Pauses
  <2>2. d * 100 \in Nat
    BY <1>2
  <2>3. (d * 100) \div speed \in Nat
    BY <1>2, <2>2
  <2>. QED BY <2>1, <2>3 DEF Forever
<1>. QED BY <1>1, <1>2

\* emit stays well typed.
LEMMA NextEmitTyped == IInv /\ Typed /\ [Next]_vars => EmitTyped'
<1>. SUFFICES ASSUME IInv, EmitTyped, CloseTyped, [Next]_vars PROVE EmitTyped'
  BY DEF Typed
<1>1. setup \in Setups /\ setup' = setup /\ Files' = Files
  BY DEF IInv, Next, Emit, Close, Check, Choose, Reopen, EndOfFile, ReadPayload, Send, CloseSignals,
         CloseReader, CloseReturns, NewLimiter, TimePasses, vars, Files
<1>2. CASE Close \/ NewLimiter \/ UNCHANGED vars
  BY <1>1, <1>2 DEF EmitTyped, Close, CloseSignals, CloseReader, CloseReturns, NewLimiter, emitter, vars
<1>3. CASE Check \/ Reopen \/ EndOfFile
  BY <1>1, <1>3 DEF EmitTyped, Check, Reopen, EndOfFile
<1>4. CASE TimePasses
  BY <1>1, <1>4 DEF EmitTyped, TimePasses, Forever
<1>5. CASE Choose
  <2>1. /\ pc = "choosing" /\ Candidates # {} /\ chosen' = NextReader
        /\ lastTime' = Timestamp(NextReader) /\ pc' = "sleeping"
        /\ pause' \in (IF lastTime = -1 THEN {0} ELSE Pauses(Timestamp(NextReader) - lastTime))
        /\ UNCHANGED <<hand, data>>
    BY <1>5 DEF Choose
  <2>2. \A k \in Files : Holds(k)
    BY <2>1 DEF IInv, AboutToExit
  <2>3. NextReader \in Candidates
    BY <2>1, <2>2, NextReaderIsLeast DEF Least
  <2>4. NextReader \in Files /\ Timestamp(NextReader) \in Nat
    BY <2>2, <2>3, CandidatesAreLeft
  <2>5. speed \in Nat /\ lastTime \in Int
    BY <1>1, FileInputAssumption DEF CloseTyped, EmitTyped
  <2>6. pause' \in Int /\ pause' >= Forever
    <3>1. CASE lastTime = -1
      BY <2>1, <3>1 DEF Forever
    <3>2. CASE lastTime # -1
      <4>1. Timestamp(NextReader) - lastTime \in Int
        BY <2>4, <2>5
      <4>. QED BY <2>1, <2>5, <3>2, <4>1, PausesTyped
    <3>. QED BY <3>1, <3>2
  <2>. QED BY <1>1, <2>1, <2>4, <2>6 DEF EmitTyped
<1>6. CASE ReadPayload
  <2>1. /\ pc' \in {"panicked", "sending"} /\ Len(hand') = 1
        /\ UNCHANGED <<chosen, data, lastTime, pause>>
    BY <1>6 DEF ReadPayload
  <2>. QED BY <1>1, <2>1 DEF EmitTyped
<1>7. CASE Send
  <2>1. /\ pc = "sending" /\ pc' = "top" /\ Len(data) < DataCap /\ data' = data \o hand /\ hand' = <<>>
        /\ UNCHANGED <<chosen, lastTime, pause>>
    BY <1>7 DEF Send
  <2>2. Len(hand) = 1 /\ Len(data) \in Nat /\ Len(data) < DataCap /\ DataCap \in Nat
    BY <2>1, FileInputAssumption DEF EmitTyped
  <2>3. Len(data') = Len(data) + Len(hand)
    BY <2>1, ConcatProperties DEF IInv
  <2>. QED BY <1>1, <2>1, <2>2, <2>3 DEF EmitTyped
<1>. QED BY <1>2, <1>3, <1>4, <1>5, <1>6, <1>7 DEF Next, Emit

\* Close and the clock stay well typed.
LEMMA NextCloseTyped == IInv /\ CloseTyped /\ [Next]_vars => CloseTyped'
<1>. SUFFICES ASSUME IInv, CloseTyped, [Next]_vars PROVE CloseTyped'
  OBVIOUS
<1>1. setup' = setup /\ Len(readers) = Len(setup.files) /\ Len(setup.files) \in Nat /\ MaxTime \in Nat
  BY ReadersOfFiles, FileInputAssumption
     DEF Next, Emit, Close, Check, Choose, Reopen, EndOfFile, ReadPayload, Send, CloseSignals,
         CloseReader, CloseReturns, NewLimiter, TimePasses, vars
<1>2. CASE Check \/ Reopen \/ EndOfFile \/ ReadPayload \/ Send \/ UNCHANGED vars
  BY <1>1, <1>2 DEF CloseTyped, Check, Reopen, EndOfFile, ReadPayload, Send, closer, clock, vars
<1>3. CASE Choose
  BY <1>1, <1>3 DEF CloseTyped, Choose, closer, clock
<1>4. CASE TimePasses
  BY <1>1, <1>4 DEF CloseTyped, TimePasses, closer
<1>5. CASE NewLimiter \/ CloseSignals \/ CloseReturns
  BY <1>1, <1>5 DEF CloseTyped, NewLimiter, CloseSignals, CloseReturns, closer, clock
<1>6. CASE CloseReader
  BY <1>1, <1>6 DEF CloseTyped, CloseReader, clock
<1>. QED BY <1>2, <1>3, <1>4, <1>5, <1>6 DEF Next, Emit, Close

\* The readers, emit and Close stay well typed, for any files without a damaged one, any
\* limits and capacity: no reader runs past the end of its file, and the channel holds no
\* more than its capacity.
THEOREM TypeCorrect == ASSUME NoDamage PROVE Spec => []TypeOK
<1>1. Init => Typed
  BY InitTyped
<1>2. IInv /\ Typed /\ [Next]_vars => Typed'
  BY NextReadersTyped, NextEmitTyped, NextCloseTyped DEF Typed
<1>3. ASSUME IInv, Typed PROVE TypeOK
  <2>1. DOMAIN readers = Files /\ Len(readers) = Len(setup.files)
    BY <1>3, ReadersOfFiles
  <2>2. ASSUME NEW k \in Files
        PROVE  /\ readers[k].at \in 0..Len(setup.files[k])
               /\ readers[k].file \in {"open", "closed", "nil", "no reader"}
               /\ given[k] \in 0..Len(setup.files[k])
    BY <1>3 DEF Typed, ReadersTyped, Reader, FileStates
  <2>. QED BY <1>3, <2>1, <2>2 DEF TypeOK, Typed, EmitTyped, CloseTyped, IInv, Files
<1>. QED BY <1>1, <1>2, <1>3, Invariance, PTL DEF Spec

-----------------------------------------------------------------------------
(* The pace. *)

\* What has passed since the first record of the pass, with what is left of the sleep and
\* a unit for each record given, of which each pause lost less than one, makes up for the
\* difference of the time stamps. A record that is given has the pause before it behind it.
Paced ==
    setup.percent > 0 =>
        /\ pause >= 0
        /\ elapsed < MaxTime =>
              /\ pc = "sleeping" => (elapsed + Taken + pause) * Fastest >= (lastTime - first) * 100
              /\ pc = "sending" \/ (pc \in {"top", "choosing"} /\ lastTime # -1) =>
                    (elapsed + Taken - 1) * Fastest >= (lastTime - first) * 100

PacedIInv == IInv /\ Typed /\ first \in Int /\ Paced

\* The values that the pace depends on are numbers, and the fastest speed is one that the
\* present one does not exceed.
LEMMA PaceTypes ==
    ASSUME IInv, Typed
    PROVE  /\ Taken \in Nat /\ IsFiniteSet(Files) /\ DOMAIN given = Files
           /\ \A k \in Files : given[k] \in Nat
           /\ setup.percent \in Nat /\ Fastest \in Nat \ {0} /\ speed \in Nat /\ speed <= Fastest
           /\ setup.percent > 0 => speed > 0
           /\ elapsed \in Nat /\ MaxTime \in Nat /\ pause \in Int /\ lastTime \in Int
<1>1. Files = 1..Len(setup.files) /\ Len(setup.files) \in Nat /\ DOMAIN given = Files
  BY FilesAreSequences DEF IInv
<1>2. \A k \in Files : given[k] \in Nat
  <2>1. \A k \in Files : given[k] \in 0..Len(setup.files[k]) /\ Len(setup.files[k]) \in Nat
    BY FilesAreSequences DEF IInv, Typed, ReadersTyped
  <2>. QED BY <2>1
<1>3. IsFiniteSet(Files)
  BY <1>1, FS_Interval
<1>4. Taken \in Nat
  BY <1>1, <1>2, <1>3, SumType DEF Taken, SumFunction
<1>5. setup.percent \in Nat /\ MaxTime \in Nat
  BY FileInputAssumption DEF IInv
<1>6. /\ speed \in {100, setup.percent} /\ elapsed \in 0..MaxTime
      /\ pause \in Int /\ lastTime \in Int
  BY DEF Typed, CloseTyped, EmitTyped
<1>. QED BY <1>1, <1>2, <1>3, <1>4, <1>5, <1>6 DEF Fastest

\* Of two products with a positive number, the greater one has the greater factor.
LEMMA GreaterProduct ==
    ASSUME NEW a \in Int, NEW b \in Int, a <= b, NEW f \in Nat
    PROVE  a * f <= b * f
<1>1. (b - a) * f \in Nat
  OBVIOUS
<1>2. (b - a) * f = b * f - a * f
  OBVIOUS
<1>. QED BY <1>1, <1>2

\* A pause makes up for the difference, but for less than a unit of time.
LEMMA PauseCovers ==
    ASSUME NEW d \in Int, speed \in Nat, speed > 0, NEW f \in Nat, speed <= f, NEW p \in Pauses(d)
    PROVE  p \in Nat /\ (p + 1) * f >= d * 100
<1>1. CASE d <= 0
  BY <1>1 DEF Pauses
<1>2. CASE d > 0
  <2>. PICK n \in Nat : n = d * 100
    BY <1>2
  <2>1. p = n \div speed
    BY <1>2 DEF Pauses
  <2>2. p \in Nat
    BY <2>1
  <2>3. n = speed * (n \div speed) + (n % speed) /\ n % speed \in 0..(speed - 1)
    OBVIOUS
  <2>4. n <= (p + 1) * speed
    BY <2>1, <2>2, <2>3
  <2>5. (p + 1) * speed <= (p + 1) * f
    <3>1. speed * (p + 1) <= f * (p + 1)
      BY <2>2, GreaterProduct
    <3>. QED BY <2>2, <3>1
  <2>. QED BY <2>2, <2>4, <2>5
<1>. QED BY <1>1, <1>2

\* The start.
LEMMA InitPaced == Init => first \in Int /\ Paced
<1>. SUFFICES ASSUME Init PROVE first \in Int /\ Paced
  OBVIOUS
<1>1. pause = 0 /\ first = 0 /\ lastTime = -1 /\ pc \in {"panicked", "top"}
  BY DEF Init
<1>. QED BY <1>1 DEF Paced

\* emit chooses a record: the pause it makes, and the unit that the record before it has
\* in hand, make up for the difference of their time stamps.
LEMMA ChoosePaced == PacedIInv /\ Choose => first' \in Int /\ Paced'
<1>. SUFFICES ASSUME PacedIInv, Choose PROVE first' \in Int /\ Paced'
  OBVIOUS
<1>. PICK ts : ts = Timestamp(NextReader)
  OBVIOUS
<1>1. /\ pc = "choosing" /\ Candidates # {} /\ lastTime' = ts /\ pc' = "sleeping"
      /\ pause' \in (IF lastTime = -1 THEN {0} ELSE Pauses(ts - lastTime))
      /\ IF lastTime = -1 THEN first' = ts /\ elapsed' = 0 ELSE first' = first /\ elapsed' = elapsed
      /\ setup' = setup /\ given' = given
  BY DEF Choose, clock
<1>2. ts \in Nat
  BY <1>1, NextReaderIsLeast, CandidatesAreLeft DEF PacedIInv, IInv, AboutToExit, Least
<1>3. first' \in Int /\ Taken' = Taken /\ Fastest' = Fastest
  BY <1>1, <1>2 DEF PacedIInv, Taken, Fastest
<1>4. /\ Taken \in Nat /\ Fastest \in Nat /\ speed \in Nat /\ speed <= Fastest
      /\ setup.percent > 0 => speed > 0
      /\ elapsed \in Nat /\ lastTime \in Int /\ first \in Int
  BY PaceTypes DEF PacedIInv
<1>5. SUFFICES ASSUME setup.percent > 0
               PROVE  /\ pause' >= 0
                      /\ elapsed' < MaxTime =>
                            (elapsed' + Taken + pause') * Fastest >= (ts - first') * 100
  BY <1>1, <1>3 DEF Paced
<1>6. CASE lastTime = -1
  BY <1>1, <1>2, <1>4, <1>6
<1>7. CASE lastTime # -1
  <2>1. /\ pause' \in Nat
        /\ (pause' + 1) * Fastest >= (ts - lastTime) * 100
    BY <1>1, <1>2, <1>4, <1>5, <1>7, PauseCovers
  <2>2. elapsed < MaxTime => (elapsed + Taken - 1) * Fastest >= (lastTime - first) * 100
    BY <1>1, <1>5, <1>7 DEF PacedIInv, Paced
  <2>. PICK p \in Nat : p = pause'
    BY <2>1
  <2>3. (elapsed + Taken - 1) * Fastest + (p + 1) * Fastest = (elapsed + Taken + p) * Fastest
    BY <1>4
  <2>4. (lastTime - first) * 100 + (ts - lastTime) * 100 = (ts - first) * 100
    BY <1>2, <1>4
  <2>5. /\ (elapsed + Taken - 1) * Fastest \in Int /\ (p + 1) * Fastest \in Int
        /\ (elapsed + Taken + p) * Fastest \in Int
    BY <1>4
  <2>. QED BY <1>1, <1>2, <1>4, <1>7, <2>1, <2>2, <2>3, <2>4, <2>5
<1>. QED BY <1>6, <1>7

\* The record is taken when the sleep is over.
LEMMA ReadPayloadPaced == PacedIInv /\ ReadPayload => first' \in Int /\ Paced'
<1>. SUFFICES ASSUME PacedIInv, ReadPayload PROVE first' \in Int /\ Paced'
  OBVIOUS
<1>1. /\ pc = "sleeping" /\ pause = 0 /\ pc' \in {"panicked", "sending"}
      /\ given' = [given EXCEPT ![chosen] = @ + 1]
      /\ UNCHANGED <<setup, lastTime, pause, first, elapsed>>
  BY DEF ReadPayload, clock
<1>2. chosen \in Files
  BY <1>1, CandidatesAreLeft DEF PacedIInv, IInv, AboutToExit, Least
<1>3. /\ Taken \in Nat /\ IsFiniteSet(Files) /\ DOMAIN given = Files
      /\ \A k \in Files : given[k] \in Nat
      /\ Fastest \in Nat /\ elapsed \in Nat /\ lastTime \in Int /\ first \in Int
  BY PaceTypes DEF PacedIInv
<1>4. Taken' = Taken + 1
  <2>. PICK h : h = given'
    OBVIOUS
  <2>1. /\ DOMAIN h = Files /\ h[chosen] = given[chosen] + 1
        /\ \A k \in Files : h[k] \in Nat
        /\ \A k \in Files \ {chosen} : given[k] = h[k]
    BY <1>1, <1>2, <1>3
  <2>2. SumFunctionOnSet(given, Files) + h[chosen] = SumFunctionOnSet(h, Files) + given[chosen]
    BY <1>2, <1>3, <2>1, SumChange
  <2>3. Taken = SumFunctionOnSet(given, Files) /\ Taken' = SumFunctionOnSet(h, Files)
    BY <1>3, <2>1 DEF Taken, SumFunction
  <2>4. SumFunctionOnSet(h, Files) \in Nat
    BY <1>3, <2>1, SumType
  <2>. QED BY <1>2, <1>3, <2>1, <2>2, <2>3, <2>4
<1>5. Fastest' = Fastest
  BY <1>1 DEF Fastest
<1>. QED BY <1>1, <1>3, <1>4, <1>5 DEF PacedIInv, Paced

\* Time that passes is taken off the sleep, or more than is asked for.
LEMMA TimePassesPaced == PacedIInv /\ TimePasses => first' \in Int /\ Paced'
<1>. SUFFICES ASSUME PacedIInv, TimePasses PROVE first' \in Int /\ Paced'
  OBVIOUS
<1>1. /\ elapsed' = (IF elapsed < MaxTime THEN elapsed + 1 ELSE elapsed)
      /\ pause' = (IF pause > 0 THEN pause - 1 ELSE pause)
      /\ UNCHANGED <<setup, pc, given, lastTime, first>>
  BY DEF TimePasses
<1>2. Taken' = Taken /\ Fastest' = Fastest
  BY <1>1 DEF Taken, Fastest
<1>3. /\ Taken \in Nat /\ Fastest \in Nat /\ elapsed \in Nat /\ MaxTime \in Nat
      /\ pause \in Int /\ lastTime \in Int /\ first \in Int
  BY PaceTypes DEF PacedIInv
<1>4. SUFFICES ASSUME setup.percent > 0
               PROVE  /\ pause' >= 0
                      /\ elapsed' < MaxTime =>
                            /\ pc = "sleeping" =>
                                  (elapsed' + Taken + pause') * Fastest >= (lastTime - first) * 100
                            /\ pc = "sending" \/ (pc \in {"top", "choosing"} /\ lastTime # -1) =>
                                  (elapsed' + Taken - 1) * Fastest >= (lastTime - first) * 100
  BY <1>1, <1>2, <1>3 DEF Paced
<1>5. pause >= 0 /\ pause' >= 0
  BY <1>1, <1>3, <1>4 DEF PacedIInv, Paced
<1>. SUFFICES ASSUME elapsed' < MaxTime
              PROVE  /\ pc = "sleeping" =>
                            (elapsed' + Taken + pause') * Fastest >= (lastTime - first) * 100
                     /\ pc = "sending" \/ (pc \in {"top", "choosing"} /\ lastTime # -1) =>
                            (elapsed' + Taken - 1) * Fastest >= (lastTime - first) * 100
  BY <1>5
<1>. PICK e \in Nat, p \in Nat : e = elapsed' /\ p = pause'
  BY <1>1, <1>3, <1>5
<1>6. elapsed < MaxTime /\ e = elapsed + 1 /\ elapsed + pause <= e + p
  BY <1>1, <1>3, <1>5
<1>. PICK t \in Nat, late \in Int : t = Taken /\ late = (lastTime - first) * 100
  BY <1>3
<1>7. ASSUME pc = "sleeping" PROVE (e + t + p) * Fastest >= late
  <2>1. (elapsed + t + pause) * Fastest >= late
    BY <1>4, <1>6, <1>7 DEF PacedIInv, Paced
  <2>2. elapsed + t + pause \in Int /\ e + t + p \in Int /\ elapsed + t + pause <= e + t + p
    <3>1. elapsed \in Int /\ pause \in Int
      BY <1>3
    <3>2. elapsed + pause <= e + p
      BY <1>6, Zenon
    <3>. QED BY ONLY <3>1, <3>2, t \in Nat, e \in Nat, p \in Nat
  <2>3. (elapsed + t + pause) * Fastest <= (e + t + p) * Fastest
    BY <1>3, <2>2, GreaterProduct
  <2>4. (elapsed + t + pause) * Fastest \in Int /\ (e + t + p) * Fastest \in Int
    BY <1>3, <2>2
  <2>. QED BY <2>1, <2>3, <2>4
<1>8. ASSUME pc = "sending" \/ (pc \in {"top", "choosing"} /\ lastTime # -1)
      PROVE  (e + t - 1) * Fastest >= late
  <2>1. (elapsed + t - 1) * Fastest >= late
    BY <1>4, <1>6, <1>8 DEF PacedIInv, Paced
  <2>2. elapsed + t - 1 \in Int /\ e + t - 1 \in Int /\ elapsed + t - 1 <= e + t - 1
    BY <1>3, <1>6
  <2>3. (elapsed + t - 1) * Fastest <= (e + t - 1) * Fastest
    BY <1>3, <2>2, GreaterProduct
  <2>4. (elapsed + t - 1) * Fastest \in Int /\ (e + t - 1) * Fastest \in Int
    BY <1>3, <2>2
  <2>. QED BY <2>1, <2>3, <2>4
<1>. QED BY <1>7, <1>8

\* Every step keeps the pace.
LEMMA NextPaced == PacedIInv /\ [Next]_vars => first' \in Int /\ Paced'
<1>. SUFFICES ASSUME PacedIInv, [Next]_vars PROVE first' \in Int /\ Paced'
  OBVIOUS
<1>1. ASSUME UNCHANGED <<setup, given, lastTime, pause, first, elapsed>>,
             pc' = "sending" \/ (pc' \in {"top", "choosing"} /\ lastTime # -1) =>
                pc = "sending" \/ (pc \in {"top", "choosing"} /\ lastTime # -1),
             pc' = "sleeping" => pc = "sleeping"
      PROVE  first' \in Int /\ Paced'
  <2>1. Taken' = Taken /\ Fastest' = Fastest
    BY <1>1 DEF Taken, Fastest
  <2>. QED BY <1>1, <2>1 DEF PacedIInv, Paced
<1>2. CASE Check \/ EndOfFile \/ Send
  BY <1>1, <1>2 DEF Check, EndOfFile, Send, clock
<1>3. CASE Close \/ NewLimiter \/ UNCHANGED vars
  BY <1>1, <1>3 DEF Close, CloseSignals, CloseReader, CloseReturns, NewLimiter, vars, emitter, clock
<1>4. CASE Reopen
  <2>1. lastTime' = -1 /\ pc' = "top" /\ UNCHANGED <<setup, pause, first, elapsed>>
    BY <1>4 DEF Reopen, clock
  <2>. QED BY <2>1 DEF PacedIInv, Paced
<1>. QED BY <1>2, <1>3, <1>4, ChoosePaced, ReadPayloadPaced, TimePassesPaced DEF Next, Emit

\* The replay is never ahead of the recording, for any files without a damaged one, any
\* time stamps, in whatever order, and any limit but 0: the floors of the pauses lose less
\* than a unit of time for each record.
THEOREM KeepsPace == ASSUME NoDamage PROVE Spec => []NotAhead
<1>1. Init => Typed /\ first \in Int /\ Paced
  BY InitTyped, InitPaced
<1>2. IInv /\ Typed /\ [Next]_vars => Typed'
  BY NextReadersTyped, NextEmitTyped, NextCloseTyped DEF Typed
<1>3. IInv /\ Typed /\ first \in Int /\ Paced /\ [Next]_vars => (first \in Int)' /\ Paced'
  BY NextPaced DEF PacedIInv
<1>4. IInv /\ Typed /\ first \in Int /\ Paced => NotAhead
  BY DEF NotAhead, Paced
<1>. QED BY <1>1, <1>2, <1>3, <1>4, Invariance, PTL DEF Spec

-----------------------------------------------------------------------------
(* The refinement. *)

\* The record in hand counts as given, so that sending it changes nothing.
LEMMA SendStutters ==
    ASSUME IInv, Send
    PROVE  UNCHANGED Replayed!vars
<1>1. /\ data' = data \o hand /\ hand' = <<>> /\ UNCHANGED <<setup, given>>
  BY DEF Send
<1>2. data \o hand \in Seq(Nat \X Nat)
  BY ConcatProperties DEF IInv
<1>3. data' \o hand' = data \o hand
  <2>. DEFINE q == data \o hand
  <2>1. q \in Seq(Nat \X Nat) /\ data' = q
    BY <1>1, <1>2
  <2>. HIDE DEF q
  <2>2. q \o <<>> = q
    BY <2>1, ConcatEmptySeq
  <2>. QED BY <1>1, <2>1, <2>2 DEF q
<1>4. Readable' = Readable
  BY <1>1 DEF Readable
<1>. QED BY <1>1, <1>3, <1>4 DEF Replayed!vars

\* Taking the chosen record gives it.
LEMMA ReadPayloadGives ==
    ASSUME NoDamage, IInv, ReadPayload
    PROVE  Replayed!Next
<1>1. /\ pc = "sleeping" /\ hand' = <<<<chosen, readers[chosen].at>>>>
      /\ given' = [given EXCEPT ![chosen] = @ + 1] /\ UNCHANGED <<setup, data>>
  BY DEF ReadPayload
<1>2. /\ \A k \in Files : Holds(k)
      /\ Least(chosen) /\ hand = <<>> /\ data \in Seq(Nat \X Nat)
      /\ DOMAIN given = Files /\ DOMAIN readers = Files
  BY <1>1 DEF IInv, AboutToExit
<1>3. /\ Candidates = Replayed!Left
      /\ \A k \in Candidates : Timestamp(k) = Replayed!NextOf(k) /\ k \in Files /\ k \in Nat
  BY <1>2, CandidatesAreLeft
<1>4. /\ chosen \in Replayed!Left
      /\ \A g \in Replayed!Left : Replayed!NextOf(chosen) <= Replayed!NextOf(g)
  BY <1>2, <1>3 DEF Least
<1>5. readers[chosen].at = given[chosen] + 1 /\ given'[chosen] = given[chosen] + 1
      /\ given[chosen] \in Nat /\ chosen \in Files /\ chosen \in Nat
  BY <1>1, <1>2, <1>3, <1>4 DEF Holds, Candidates
<1>6. data' \o hand' = Append(data \o hand, <<chosen, given'[chosen]>>)
  <2>. DEFINE e == <<chosen, given'[chosen]>>
  <2>1. e \in Nat \X Nat /\ hand' = <<e>> /\ data' = data
    BY <1>1, <1>5
  <2>. HIDE DEF e
  <2>2. data \o <<>> = data /\ Append(data, e) = data \o <<e>>
    BY <1>2, <2>1, ConcatEmptySeq, AppendIsConcat
  <2>. QED BY <1>2, <2>1, <2>2 DEF e
<1>7. Readable' = Readable /\ setup'.loop = setup.loop /\ DOMAIN Readable = Files
  BY <1>1 DEF Readable, Files
<1>8. Replayed!Give(chosen)
  BY <1>1, <1>4, <1>6, <1>7 DEF Replayed!Give
<1>. QED BY <1>5, <1>7, <1>8 DEF Replayed!Next

\* The input begins anew when nothing is left.
LEMMA ReopenBeginsAnew ==
    ASSUME NoDamage, IInv, Reopen
    PROVE  Replayed!Next
<1>1. /\ pc = "choosing" /\ Candidates = {} /\ setup.loop
      /\ given' = [k \in DOMAIN setup.files |-> 0] /\ UNCHANGED <<setup, data, hand>>
  BY DEF Reopen
<1>2. Replayed!Left = {}
  BY <1>1, CandidatesAreLeft DEF IInv, AboutToExit
<1>3. /\ Readable' = Readable /\ setup'.loop = setup.loop /\ DOMAIN Readable = DOMAIN setup.files
      /\ data' \o hand' = data \o hand
  BY <1>1 DEF Readable
<1>4. Replayed!BeginAnew
  BY <1>1, <1>2, <1>3 DEF Replayed!BeginAnew
<1>. QED BY <1>4 DEF Replayed!Next

\* Every step of the input is a step of Replay, or none.
LEMMA NextReplays == NoDamage /\ IInv /\ [Next]_vars => [Replayed!Next]_(Replayed!vars)
<1>. SUFFICES ASSUME NoDamage, IInv, [Next]_vars PROVE [Replayed!Next]_(Replayed!vars)
  OBVIOUS
<1>1. ASSUME UNCHANGED <<setup, given, data, hand>> PROVE UNCHANGED Replayed!vars
  BY <1>1 DEF Replayed!vars, Readable
<1>2. CASE Check \/ Choose \/ EndOfFile \/ NewLimiter \/ TimePasses
  BY <1>1, <1>2 DEF Check, Choose, EndOfFile, NewLimiter, TimePasses, emitter
<1>3. CASE Close \/ UNCHANGED vars
  BY <1>1, <1>3 DEF Close, CloseSignals, CloseReader, CloseReturns, vars, emitter
<1>. QED BY <1>2, <1>3, SendStutters, ReadPayloadGives, ReopenBeginsAnew DEF Next, Emit

\* The input starts as Replay does.
LEMMA InitReplays == NoDamage /\ Init => Replayed!Init
<1>. SUFFICES ASSUME NoDamage, Init PROVE Replayed!Init
  OBVIOUS
<1>1. given = [k \in DOMAIN setup.files |-> 0] /\ data = <<>> /\ hand = <<>>
  BY DEF Init
<1>2. DOMAIN Readable = DOMAIN setup.files /\ <<>> \o <<>> = <<>>
  BY DEF Readable
<1>. QED BY <1>1, <1>2 DEF Replayed!Init

\* "Find reader with smallest timestamp e.g next payload in row": the input implements
\* Replay, for any files without a damaged one, any limit, capacity and Close.
THEOREM ImplementsReplay == ASSUME NoDamage PROVE Spec => Replays
<1>1. Init => Replayed!Init
  BY InitReplays
<1>2. IInv /\ [Next]_vars => [Replayed!Next]_(Replayed!vars)
  BY NextReplays
<1>. QED BY <1>1, <1>2, Invariance, PTL DEF Spec, Replays, Replayed!Spec
=============================================================================
