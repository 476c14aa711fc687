-------------------------- MODULE FileOutputProofs --------------------------
(***************************************************************************)
(* Type correctness of FileOutput, and that a program started on the files *)
(* of earlier runs keeps all their chunks but the newest.  Names are       *)
(* computed, kept and used in different critical sections; the inductive   *)
(* invariant says that none of them, wherever it is kept, is older than    *)
(* the newest chunk the run began with.                                    *)
(***************************************************************************)
EXTENDS FileOutputProperties, SequenceTheorems, FiniteSetTheorems, TLAPS

\* The chunk files have a newest one, and it is no older than the run.
HasNewest ==
    \/ DOMAIN disk = {} /\ first = 0
    \/ \E i \in DOMAIN disk : first <= i /\ \A j \in DOMAIN disk : j <= i

\* No name in use is older than the run.
NamesNotOlder ==
    /\ first <= currentName
    /\ file # None => first <= file
    /\ \A p \in Procs : pc[p] = "named" => name[p] # None
    /\ \A p \in Procs : name[p] # None => first <= name[p]

\* A descriptor is open only on a file that was opened.
OpenFileExists == open => file # None

IInv == TypeOK /\ HasNewest /\ NamesNotOlder /\ OpenFileExists

-----------------------------------------------------------------------------
\* filepath.Glob and sortByFileIndex find the newest chunk.
LEMMA NewestIsNewest ==
    ASSUME TypeOK, HasNewest, DOMAIN disk # {}
    PROVE  /\ Newest(disk) \in DOMAIN disk
           /\ Newest(disk) \in Nat
           /\ first <= Newest(disk)
           /\ \A j \in DOMAIN disk : j <= Newest(disk)
<1>1. PICK i \in DOMAIN disk : first <= i /\ \A j \in DOMAIN disk : j <= i
  BY DEF HasNewest
<1>2. Newest(disk) \in DOMAIN disk /\ \A j \in DOMAIN disk : j <= Newest(disk)
  BY <1>1 DEF Newest
<1>3. DOMAIN disk \subseteq Nat /\ first \in Nat
  BY DEF TypeOK
<1>. QED BY <1>1, <1>2, <1>3

\* filename() never returns a name older than the run.
LEMMA FilenameNotOlder ==
    ASSUME TypeOK, HasNewest
    PROVE  Filename \in Nat /\ first <= Filename
<1>1. CASE DOMAIN disk = {}
  <2>1. first = 0 /\ first \in Nat
    BY <1>1 DEF HasNewest, TypeOK
  <2>. QED BY <1>1, <2>1 DEF Filename
<1>2. CASE DOMAIN disk # {}
  <2>1. first \in Nat
    BY DEF TypeOK
  <2>. QED BY <1>2, <2>1, NewestIsNewest DEF Filename
<1>. QED BY <1>1, <1>2

\* Handing buffered records to the file keeps the files and their types, and
\* changes the open file only.
LEMMA FlushedFiles ==
    ASSUME IInv, NEW ps \in Seq(Nat), file # None
    PROVE  /\ DOMAIN Flushed(disk, ps) = DOMAIN disk
           /\ \A i \in DOMAIN disk : Flushed(disk, ps)[i] \in Seq(Nat)
           /\ \A i \in DOMAIN disk : i # file => Flushed(disk, ps)[i] = disk[i]
<1>1. file \in DOMAIN disk /\ \A i \in DOMAIN disk : disk[i] \in Seq(Nat)
  BY DEF IInv, TypeOK
<1>2. disk[file] \o ps \in Seq(Nat)
  BY <1>1
<1>. QED BY <1>1, <1>2 DEF Flushed

\* Closing the old file when none was opened changes nothing.
LEMMA FlushedNothing ==
    ASSUME IInv, NEW ps, file = None
    PROVE  Flushed(disk, ps) = disk
<1>. QED BY DEF IInv, OpenFileExists, Flushed

-----------------------------------------------------------------------------
\* A fresh output on whatever files there are satisfies the invariant.
LEMMA FirstNameNotOlder ==
    ASSUME TypeOK, HasNewest
    PROVE  /\ FirstName \in Nat /\ FirstKept \in Nat
           /\ FirstKept <= FirstName
           /\ \/ DOMAIN disk = {} /\ FirstKept = 0
              \/ /\ FirstKept \in DOMAIN disk
                 /\ \A j \in DOMAIN disk : j <= FirstKept
<1>1. CASE DOMAIN disk = {}
  BY <1>1 DEF FirstName, FirstKept
<1>2. CASE DOMAIN disk # {}
  BY <1>2, NewestIsNewest DEF FirstName, FirstKept
<1>. QED BY <1>1, <1>2

\* The invariant holds when the first run starts.
LEMMA InitIInv == Init => IInv
<1>. SUFFICES ASSUME Init PROVE IInv
  OBVIOUS
<1>1. DOMAIN disk = {} /\ currentName = 0 /\ first = 0
  BY DEF Init, FirstName, FirstKept
<1>2. TypeOK
  <2>1. /\ pc \in [Procs -> {"idle", "awake", "named", "ready", "gone"}]
        /\ name \in [Procs -> Nat \cup {None}]
        /\ record \in [Writers -> Nat]
    BY DEF Init
  <2>2. file \in DOMAIN disk \cup {None} /\ buffer \in Seq(Nat)
    BY DEF Init
  <2>3. DOMAIN disk \subseteq Nat /\ \A i \in DOMAIN disk : disk[i] \in Seq(Nat)
    BY <1>1
  <2>4. open \in BOOLEAN /\ closed \in BOOLEAN /\ stopped \in BOOLEAN
    BY DEF Init
  <2>5. /\ currentName \in Nat /\ queueLength \in Nat /\ currentFileSize \in Nat
        /\ taken \in Nat /\ acked \subseteq Nat /\ starts \in Nat /\ first \in Nat
    BY <1>1 DEF Init
  <2>. QED BY <2>1, <2>2, <2>3, <2>4, <2>5 DEF TypeOK
<1>3. HasNewest /\ NamesNotOlder /\ OpenFileExists
  BY <1>1 DEF Init, HasNewest, NamesNotOlder, OpenFileExists, None
<1>. QED BY <1>2, <1>3 DEF IInv

\* The process is started again.
LEMMA RestartIInv == IInv /\ Restart => IInv'
<1>. SUFFICES ASSUME IInv, Restart PROVE IInv'
  OBVIOUS
<1>. USE DEF Restart, history
<1>1. /\ FirstName \in Nat /\ FirstKept \in Nat /\ FirstKept <= FirstName
      /\ \/ DOMAIN disk = {} /\ FirstKept = 0
         \/ FirstKept \in DOMAIN disk /\ \A j \in DOMAIN disk : j <= FirstKept
  BY FirstNameNotOlder DEF IInv
<1>2. TypeOK'
  <2>1. /\ pc' \in [Procs -> {"idle", "awake", "named", "ready", "gone"}]
        /\ name' \in [Procs -> Nat \cup {None}]
        /\ record' \in [Writers -> Nat]
    OBVIOUS
  <2>2. file' \in DOMAIN disk' \cup {None} /\ buffer' \in Seq(Nat)
    OBVIOUS
  <2>3. open' \in BOOLEAN /\ closed' \in BOOLEAN /\ stopped' \in BOOLEAN
    OBVIOUS
  <2>4. /\ currentName' \in Nat /\ queueLength' \in Nat /\ currentFileSize' \in Nat
        /\ taken' \in Nat /\ acked' \subseteq Nat /\ starts' \in Nat /\ first' \in Nat
    BY <1>1 DEF IInv, TypeOK
  <2>5. DOMAIN disk' \subseteq Nat /\ \A i \in DOMAIN disk' : disk'[i] \in Seq(Nat)
    BY DEF IInv, TypeOK
  <2>. QED BY <2>1, <2>2, <2>3, <2>4, <2>5 DEF TypeOK
<1>3. HasNewest'
  BY <1>1 DEF HasNewest
<1>4. NamesNotOlder' /\ OpenFileExists'
  BY <1>1 DEF NamesNotOlder, OpenFileExists, None
<1>. QED BY <1>2, <1>3, <1>4 DEF IInv

\* A name is computed: by a writer for its record, or by the flusher.
LEMMA GetNameIInv ==
    ASSUME IInv, NEW p \in Procs, NEW at, GetName(p, at),
           record' \in [Writers -> Nat], taken' \in Nat,
           UNCHANGED <<disk, object, acked, main>>
    PROVE  IInv'
<1>1. Filename \in Nat /\ first <= Filename
  BY FilenameNotOlder DEF IInv
<1>. USE DEF object, main, GetName
<1>2. TypeOK'
  <2>1. name' \in [Procs -> Nat \cup {None}]
    BY <1>1 DEF IInv, TypeOK
  <2>2. pc' \in [Procs -> {"idle", "awake", "named", "ready", "gone"}]
    BY DEF IInv, TypeOK
  <2>. QED BY <2>1, <2>2 DEF IInv, TypeOK
<1>3. HasNewest'
  BY DEF IInv, HasNewest
<1>4. NamesNotOlder'
  BY <1>1 DEF IInv, TypeOK, NamesNotOlder, None
<1>5. OpenFileExists'
  BY DEF IInv, OpenFileExists
<1>. QED BY <1>2, <1>3, <1>4, <1>5 DEF IInv

\* A writer that computes a name (filename() in PluginWriter) keeps the invariant.
LEMMA PluginWriterIInv == \A w \in Writers : IInv /\ PluginWriter(w) => IInv'
<1>. SUFFICES ASSUME NEW w \in Writers, IInv, PluginWriter(w) PROVE IInv'
  OBVIOUS
<1>1. taken' \in Nat /\ record' \in [Writers -> Nat]
  BY FileOutputAssumption DEF IInv, TypeOK, PluginWriter
<1>2. w \in Procs
  BY DEF Procs
<1>. QED BY <1>1, <1>2, GetNameIInv DEF PluginWriter

\* The flusher that computes a name keeps it.
LEMMA FlusherGetNameIInv == IInv /\ FlusherGetName => IInv'
<1>. SUFFICES ASSUME IInv, FlusherGetName PROVE IInv'
  OBVIOUS
<1>1. taken' \in Nat /\ record' \in [Writers -> Nat] /\ Flusher \in Procs
  BY DEF IInv, TypeOK, FlusherGetName, history, Procs
<1>. QED BY <1>1, GetNameIInv DEF FlusherGetName, history

\* A computed name becomes the current one.
LEMMA UpdateNameIInv == \A p \in Procs : IInv /\ UpdateName(p) => IInv'
<1>. SUFFICES ASSUME NEW p \in Procs, IInv, UpdateName(p) PROVE IInv'
  OBVIOUS
<1>. USE DEF UpdateName, main, history
<1>1. name[p] \in Nat /\ first <= name[p]
  BY DEF IInv, TypeOK, NamesNotOlder
<1>2. TypeOK'
  BY <1>1 DEF IInv, TypeOK
<1>3. HasNewest'
  BY DEF IInv, HasNewest
<1>4. NamesNotOlder'
  BY <1>1 DEF IInv, TypeOK, NamesNotOlder, None
<1>5. OpenFileExists'
  BY DEF IInv, OpenFileExists
<1>. QED BY <1>2, <1>3, <1>4, <1>5 DEF IInv

\* The flusher wakes.
LEMMA WakeIInv == IInv /\ Wake => IInv'
<1>. SUFFICES ASSUME IInv, Wake PROVE IInv'
  OBVIOUS
<1>. USE DEF Wake, main, history, object
<1>1. TypeOK'
  BY DEF IInv, TypeOK
<1>2. HasNewest' /\ OpenFileExists'
  BY DEF IInv, HasNewest, OpenFileExists
<1>3. NamesNotOlder'
  BY DEF IInv, TypeOK, NamesNotOlder
<1>. QED BY <1>1, <1>2, <1>3 DEF IInv
-----------------------------------------------------------------------------
\* The files after the current one was opened: a newest one is still there.
LEMMA OpenAndWriteIInv ==
    ASSUME IInv, NEW content \in Seq(Nat), OpenAndWrite(content),
           acked' \subseteq Nat,
           pc' \in [Procs -> {"idle", "awake", "named", "ready", "gone"}],
           \A p \in Procs : pc'[p] = "named" => pc[p] = "named",
           UNCHANGED <<currentName, name, record, taken, main>>
    PROVE  IInv'
<1>. USE DEF main
<1>1. currentName \in Nat /\ first \in Nat /\ first <= currentName /\ DOMAIN disk \subseteq Nat
  BY DEF IInv, TypeOK, NamesNotOlder
<1>2. PICK d : /\ disk' = Truncated(d, currentName)
               /\ DOMAIN d = DOMAIN disk
               /\ \A i \in DOMAIN d : d[i] \in Seq(Nat)
  <2>1. buffer \in Seq(Nat)
    BY DEF IInv, TypeOK
  <2>2. CASE file = None
    BY <2>2, FlushedNothing DEF OpenAndWrite, IInv, TypeOK
  <2>3. CASE file # None
    BY <2>1, <2>3, FlushedFiles DEF OpenAndWrite
  <2>. QED BY <2>2, <2>3
<1>3. /\ DOMAIN disk' = DOMAIN disk \cup {currentName}
      /\ \A i \in DOMAIN disk' : disk'[i] \in Seq(Nat)
  BY <1>2 DEF Truncated
<1>4. /\ currentName' = currentName /\ file' = currentName /\ open' = TRUE
      /\ closed' = TRUE /\ buffer' = content
      /\ queueLength' \in Nat /\ currentFileSize' \in Nat
  BY DEF OpenAndWrite
<1>5. TypeOK'
  <2>1. file' \in DOMAIN disk' \cup {None}
    BY <1>3, <1>4
  <2>. QED BY <1>1, <1>3, <1>4, <2>1 DEF IInv, TypeOK
<1>6. HasNewest'
  <2>1. CASE \A j \in DOMAIN disk : j <= currentName
    <3>1. /\ currentName \in DOMAIN disk' /\ first' <= currentName
          /\ \A j \in DOMAIN disk' : j <= currentName
      BY <1>1, <1>3, <2>1
    <3>. QED BY <3>1 DEF HasNewest
  <2>2. CASE \E j \in DOMAIN disk : ~(j <= currentName)
    <3>1. PICK i \in DOMAIN disk : first <= i /\ \A j \in DOMAIN disk : j <= i
      BY <2>2 DEF IInv, HasNewest
    <3>2. currentName <= i
      BY <1>1, <2>2, <3>1
    <3>. QED BY <1>3, <3>1, <3>2 DEF HasNewest
  <2>. QED BY <2>1, <2>2
<1>7. NamesNotOlder'
  BY <1>1, <1>4 DEF IInv, NamesNotOlder
<1>8. OpenFileExists'
  BY <1>1, <1>4 DEF OpenFileExists, None
<1>. QED BY <1>5, <1>6, <1>7, <1>8 DEF IInv

\* Only the open file may change, and only its content: so nothing about names
\* does.
LEMMA SameFilesIInv ==
    ASSUME IInv,
           DOMAIN disk' = DOMAIN disk, \A i \in DOMAIN disk' : disk'[i] \in Seq(Nat),
           UNCHANGED <<currentName, file, name, record, taken, first>>,
           buffer' \in Seq(Nat), queueLength' \in Nat, currentFileSize' \in Nat,
           open' \in BOOLEAN, closed' \in BOOLEAN, stopped' \in BOOLEAN,
           open' => open,
           acked' \subseteq Nat, starts' \in Nat,
           pc' \in [Procs -> {"idle", "awake", "named", "ready", "gone"}],
           \A p \in Procs : pc'[p] = "named" => pc[p] = "named"
    PROVE  IInv'
<1>1. TypeOK'
  BY DEF IInv, TypeOK
<1>2. HasNewest'
  BY DEF IInv, HasNewest
<1>3. NamesNotOlder' /\ OpenFileExists'
  BY DEF IInv, NamesNotOlder, OpenFileExists
<1>. QED BY <1>1, <1>2, <1>3 DEF IInv

\* Writing a record, with the rotation before it, keeps it.
LEMMA WriteIInv == \A w \in Writers : IInv /\ Write(w) => IInv'
<1>. SUFFICES ASSUME NEW w \in Writers, IInv, Write(w) PROVE IInv'
  OBVIOUS
<1>. DEFINE content == Assemble(record[w])
<1>1. content \in Seq(Nat) /\ ToSet(content) \subseteq Nat
  <2>1. record[w] \in Nat
    BY DEF IInv, TypeOK
  <2>. QED BY <2>1 DEF Assemble, ToSet
<1>2. acked' \subseteq Nat
  BY <1>1 DEF Write, IInv, TypeOK
<1>3. /\ pc' \in [Procs -> {"idle", "awake", "named", "ready", "gone"}]
      /\ \A p \in Procs : pc'[p] = "named" => pc[p] = "named"
  BY DEF Write, IInv, TypeOK
<1>4. UNCHANGED <<currentName, name, record, taken, main>>
  BY DEF Write
<1>5. CASE OpenAndWrite(content)
  <2>. HIDE DEF content
  <2>. QED BY <1>1, <1>2, <1>3, <1>4, <1>5, OpenAndWriteIInv
<1>6. CASE WriteOn(content)
  <2>. HIDE DEF content
  <2>1. PICK n \in 0..Len(buffer \o content) :
          /\ disk' = Flushed(disk, SubSeq(buffer \o content, 1, n))
          /\ buffer' = SubSeq(buffer \o content, n + 1, Len(buffer \o content))
    BY <1>6 DEF WriteOn
  <2>2. buffer \o content \in Seq(Nat) /\ Len(content) \in Nat
    BY <1>1 DEF IInv, TypeOK
  <2>3. SubSeq(buffer \o content, 1, n) \in Seq(Nat) /\ buffer' \in Seq(Nat)
    <3>. DEFINE s == buffer \o content
    <3>1. s \in Seq(Nat) /\ Len(s) \in Nat /\ n \in Nat /\ n <= Len(s)
      BY <2>2
    <3>. HIDE DEF s
    <3>2. \A i \in 1..Len(s) : s[i] \in Nat
      BY <3>1
    <3>3. SubSeq(s, 1, n) \in Seq(Nat) /\ SubSeq(s, n + 1, Len(s)) \in Seq(Nat)
      BY <3>1, <3>2, SubSeqProperties
    <3>. QED BY <2>1, <3>3 DEF s
  <2>4. /\ DOMAIN disk' = DOMAIN disk
        /\ \A i \in DOMAIN disk' : disk'[i] \in Seq(Nat)
    BY <1>6, <2>1, <2>3, FlushedFiles DEF WriteOn
  <2>5. /\ queueLength' \in Nat /\ currentFileSize' \in Nat
        /\ open' \in BOOLEAN /\ closed' \in BOOLEAN /\ open' = open /\ file' = file
    BY <1>6, <2>2 DEF WriteOn, IInv, TypeOK
  <2>6. stopped' \in BOOLEAN /\ starts' \in Nat /\ first' = first
    BY <1>4 DEF main, IInv, TypeOK
  <2>. QED BY <1>2, <1>3, <1>4, <2>3, <2>4, <2>5, <2>6, SameFilesIInv
<1>. QED BY <1>5, <1>6 DEF Write

\* What flush and Close do to the disk.
LEMMA FlushedDisk ==
    ASSUME IInv, disk' = IF file = None THEN disk ELSE Flushed(disk, buffer)
    PROVE  /\ DOMAIN disk' = DOMAIN disk
           /\ \A i \in DOMAIN disk' : disk'[i] \in Seq(Nat)
           /\ \A i \in DOMAIN disk : i # file => disk'[i] = disk[i]
<1>1. CASE file = None
  BY <1>1 DEF IInv, TypeOK
<1>2. CASE file # None
  BY <1>2, FlushedFiles DEF IInv, TypeOK
<1>. QED BY <1>1, <1>2

\* A tick of the flusher keeps it.
LEMMA FlushIInv == IInv /\ Flush => IInv'
<1>. SUFFICES ASSUME IInv, Flush PROVE IInv'
  OBVIOUS
<1>1. /\ DOMAIN disk' = DOMAIN disk
      /\ \A i \in DOMAIN disk' : disk'[i] \in Seq(Nat)
  BY FlushedDisk DEF Flush
<1>2. currentFileSize' \in Nat
  <2>1. CASE file # None /\ open
    BY <1>1, <2>1 DEF Flush, IInv, TypeOK
  <2>2. CASE ~(file # None /\ open)
    BY <2>2 DEF Flush, IInv, TypeOK
  <2>. QED BY <2>1, <2>2
<1>3. /\ pc' \in [Procs -> {"idle", "awake", "named", "ready", "gone"}]
      /\ \A p \in Procs : pc'[p] = "named" => pc[p] = "named"
  BY DEF Flush, IInv, TypeOK
<1>4. open' \in BOOLEAN /\ closed' \in BOOLEAN /\ stopped' \in BOOLEAN /\ (open' => open)
  BY DEF Flush, main, IInv, TypeOK
<1>5. /\ UNCHANGED <<currentName, file, name, record, taken, first>>
      /\ buffer' \in Seq(Nat) /\ queueLength' \in Nat
      /\ acked' \subseteq Nat /\ starts' \in Nat
  BY DEF Flush, main, history, IInv, TypeOK
<1>. QED BY <1>1, <1>2, <1>3, <1>4, <1>5, SameFilesIInv

\* Close keeps it.
LEMMA CloseIInv == IInv /\ Close => IInv'
<1>. SUFFICES ASSUME IInv, Close PROVE IInv'
  OBVIOUS
<1>1. /\ DOMAIN disk' = DOMAIN disk
      /\ \A i \in DOMAIN disk' : disk'[i] \in Seq(Nat)
  BY FlushedDisk DEF Close
<1>2. /\ pc' \in [Procs -> {"idle", "awake", "named", "ready", "gone"}]
      /\ \A p \in Procs : pc'[p] = "named" => pc[p] = "named"
  BY DEF Close, IInv, TypeOK
<1>3. open' \in BOOLEAN /\ closed' \in BOOLEAN /\ stopped' \in BOOLEAN /\ (open' => open)
  BY DEF Close
<1>4. /\ UNCHANGED <<currentName, file, name, record, taken, first>>
      /\ buffer' \in Seq(Nat) /\ queueLength' \in Nat /\ currentFileSize' \in Nat
      /\ acked' \subseteq Nat /\ starts' \in Nat
  BY DEF Close, history, IInv, TypeOK
<1>. QED BY <1>1, <1>2, <1>3, <1>4, SameFilesIInv

-----------------------------------------------------------------------------
\* Every step preserves the invariant.
LEMMA NextIInv == IInv /\ [Next]_vars => IInv'
<1>. SUFFICES ASSUME IInv, [Next]_vars PROVE IInv'
  OBVIOUS
<1>1. Writers \subseteq Procs /\ Flusher \in Procs
  BY DEF Procs
<1>2. CASE \E w \in Writers : WriterStep(w)
  BY <1>1, <1>2, PluginWriterIInv, UpdateNameIInv, WriteIInv DEF WriterStep
<1>3. CASE FlusherStep
  BY <1>1, <1>3, WakeIInv, FlusherGetNameIInv, UpdateNameIInv, FlushIInv DEF FlusherStep
<1>4. CASE Close
  BY <1>4, CloseIInv
<1>5. CASE Restart
  BY <1>5, RestartIInv
<1>6. CASE UNCHANGED vars
  <2>1. /\ UNCHANGED <<disk, currentName, file, open, buffer, queueLength, currentFileSize,
                       closed, pc, name, record, taken, acked, stopped, starts, first>>
    BY <1>6 DEF vars, object, history, main
  <2>2. TypeOK'
    BY <2>1 DEF IInv, TypeOK
  <2>3. HasNewest' /\ NamesNotOlder' /\ OpenFileExists'
    BY <2>1 DEF IInv, HasNewest, NamesNotOlder, OpenFileExists
  <2>. QED BY <2>2, <2>3 DEF IInv
<1>. QED BY <1>2, <1>3, <1>4, <1>5, <1>6 DEF Next

\* Whatever the interleaving of writers, flusher, Close and restarts, the output's
\* state is well typed, and no name in use is older than the run.
THEOREM Invariance == Spec => []IInv
<1>. QED BY InitIInv, NextIInv, PTL DEF Spec

\* The state is well typed in every reachable state, for any writers, records, runs and limits.
THEOREM TypeCorrect == Spec => []TypeOK
<1>1. IInv => TypeOK
  BY DEF IInv
<1>. QED BY <1>1, Invariance, PTL

-----------------------------------------------------------------------------
\* One step keeps the chunks of earlier runs, but for their newest: a file is
\* changed only when it is the open one, and no such chunk is; a file is opened
\* anew only under the current name, and that is none of theirs.
LEMMA NextKeepsEarlierRuns ==
    ASSUME IInv, [Next]_vars, NEW i \in DOMAIN disk, i < first
    PROVE  i \in DOMAIN disk' /\ disk'[i] = disk[i]
<1>1. i \in Nat /\ first \in Nat /\ i # currentName /\ i # file
  BY DEF IInv, TypeOK, NamesNotOlder, None
<1>2. ASSUME NEW w \in Writers, Write(w) PROVE i \in DOMAIN disk' /\ disk'[i] = disk[i]
  <2>. DEFINE content == Assemble(record[w])
  <2>1. CASE OpenAndWrite(content)
    <3>1. disk' = Truncated(Flushed(disk, buffer), currentName)
      BY <2>1 DEF OpenAndWrite
    <3>2. /\ i \in DOMAIN Flushed(disk, buffer)
          /\ Flushed(disk, buffer)[i] = disk[i]
      <4>1. CASE file = None
        BY <4>1, FlushedNothing
      <4>2. CASE file # None
        BY <1>1, <4>2, FlushedFiles DEF IInv, TypeOK
      <4>. QED BY <4>1, <4>2
    <3>. QED BY <1>1, <3>1, <3>2 DEF Truncated
  <2>2. CASE WriteOn(content)
    <3>1. \E ps : disk' = Flushed(disk, ps)
      BY <2>2 DEF WriteOn
    <3>. QED BY <1>1, <3>1 DEF Flushed
  <2>. QED BY <1>2, <2>1, <2>2 DEF Write
<1>3. CASE Flush \/ Close
  <2>1. disk' = IF file = None THEN disk ELSE Flushed(disk, buffer)
    BY <1>3 DEF Flush, Close
  <2>. QED BY <1>1, <2>1, FlushedDisk
<1>4. CASE UNCHANGED disk
  BY <1>4
<1>5. ASSUME NEW p \in Procs, UpdateName(p) PROVE UNCHANGED disk
  BY <1>5 DEF UpdateName
<1>6. ASSUME NEW w \in Writers, PluginWriter(w) PROVE UNCHANGED disk
  BY <1>6 DEF PluginWriter
<1>7. ASSUME Wake \/ FlusherGetName \/ Restart \/ UNCHANGED vars PROVE UNCHANGED disk
  BY <1>7 DEF Wake, FlusherGetName, Restart, vars
<1>8. Writers \subseteq Procs /\ Flusher \in Procs
  BY DEF Procs
<1>. QED
  BY <1>2, <1>3, <1>4, <1>5, <1>6, <1>7, <1>8 DEF Next, WriterStep, FlusherStep

\* However names are computed, delayed and reused by writers and flusher, a run
\* leaves alone every chunk that earlier runs left, but the newest.
THEOREM EarlierRunsAreKept == Spec => EarlierRunsKept
<1>1. IInv /\ [Next]_vars =>
        [\A i \in DOMAIN disk : i < first => i \in DOMAIN disk' /\ disk'[i] = disk[i]]_vars
  BY NextKeepsEarlierRuns
<1>. QED BY <1>1, Invariance, PTL DEF Spec, EarlierRunsKept

-----------------------------------------------------------------------------
(* What loses a record.                                                     *)

\* What is handed over, and what was there, is in a concatenation.
LEMMA ConcatKeeps ==
    ASSUME NEW a \in Seq(Nat), NEW b \in Seq(Nat)
    PROVE  ToSet(a) \cup ToSet(b) \subseteq ToSet(a \o b)
<1>1. /\ Len(a) \in Nat /\ Len(b) \in Nat
      /\ DOMAIN a = 1..Len(a) /\ DOMAIN b = 1..Len(b)
      /\ DOMAIN (a \o b) = 1..(Len(a) + Len(b))
      /\ \A i \in 1..(Len(a) + Len(b)) :
            (a \o b)[i] = IF i <= Len(a) THEN a[i] ELSE b[i - Len(a)]
  BY ConcatProperties, LenProperties
<1>2. ASSUME NEW i \in DOMAIN a PROVE a[i] \in ToSet(a \o b)
  BY <1>1, <1>2 DEF ToSet
<1>3. ASSUME NEW i \in DOMAIN b PROVE b[i] \in ToSet(a \o b)
  <2>. DEFINE c == a \o b
              j == i + Len(a)
  <2>1. /\ Len(a) \in Nat /\ Len(b) \in Nat /\ i \in 1..Len(b)
        /\ DOMAIN c = 1..(Len(a) + Len(b))
        /\ \A k \in 1..(Len(a) + Len(b)) : c[k] = IF k <= Len(a) THEN a[k] ELSE b[k - Len(a)]
    BY <1>1, <1>3
  <2>. HIDE DEF c
  <2>2. j \in 1..(Len(a) + Len(b)) /\ ~(j <= Len(a)) /\ j - Len(a) = i
    BY <2>1
  <2>. HIDE DEF j
  <2>3. j \in DOMAIN c /\ c[j] = b[i]
    BY <2>1, <2>2
  <2>. QED BY <2>3 DEF ToSet, c
<1>. QED BY <1>2, <1>3 DEF ToSet

\* What the two parts of a sequence hold.
LEMMA SplitParts ==
    ASSUME NEW s \in Seq(Nat), NEW n \in 0..Len(s)
    PROVE  LET a == SubSeq(s, 1, n)
               b == SubSeq(s, n + 1, Len(s))
           IN  /\ a \in Seq(Nat) /\ Len(a) = n /\ \A i \in 1..n : a[i] = s[i]
               /\ b \in Seq(Nat) /\ Len(b) = Len(s) - n
               /\ \A i \in 1..(Len(s) - n) : b[i] = s[n + i]
<1>1. Len(s) \in Nat /\ DOMAIN s = 1..Len(s) /\ \A i \in 1..Len(s) : s[i] \in Nat
  BY LenProperties, ElementOfSeq
<1>. DEFINE a == SubSeq(s, 1, n)
            b == SubSeq(s, n + 1, Len(s))
<1>2. a \in Seq(Nat) /\ Len(a) = n /\ \A i \in 1..n : a[i] = s[i]
  <2>1. /\ a \in Seq(Nat) /\ Len(a) = (IF 1 <= n THEN n - 1 + 1 ELSE 0)
        /\ \A i \in 1..(n - 1 + 1) : a[i] = s[1 + i - 1]
    BY <1>1, SubSeqProperties
  <2>. QED BY <1>1, <2>1
<1>3. b \in Seq(Nat) /\ Len(b) = Len(s) - n /\ \A i \in 1..(Len(s) - n) : b[i] = s[n + i]
  <2>1. /\ b \in Seq(Nat)
        /\ Len(b) = (IF n + 1 <= Len(s) THEN Len(s) - (n + 1) + 1 ELSE 0)
        /\ \A i \in 1..(Len(s) - (n + 1) + 1) : b[i] = s[n + 1 + i - 1]
    BY <1>1, SubSeqProperties
  <2>. HIDE DEF b
  <2>2. Len(b) = Len(s) - n
    <3>1. Len(s) \in Nat /\ n \in Nat /\ n <= Len(s)
      BY <1>1
    <3>2. CASE n + 1 <= Len(s)
      BY <2>1, <3>1, <3>2
    <3>3. CASE ~(n + 1 <= Len(s))
      <4>1. n = Len(s) /\ Len(b) = 0
        BY <2>1, <3>1, <3>3
      <4>. QED BY <3>1, <4>1
    <3>. QED BY <3>2, <3>3
  <2>3. ASSUME NEW i \in 1..(Len(s) - n) PROVE b[i] = s[n + i]
    <3>1. i \in 1..(Len(s) - (n + 1) + 1) /\ n + 1 + i - 1 = n + i
      BY <1>1
    <3>. QED BY <2>1, <3>1
  <2>. QED BY <2>1, <2>2, <2>3
<1>. QED BY <1>2, <1>3

\* A buffer that is handed over in part is split, and nothing is left out.
LEMMA SplitKeeps ==
    ASSUME NEW s \in Seq(Nat), NEW n \in 0..Len(s)
    PROVE  /\ SubSeq(s, 1, n) \in Seq(Nat) /\ SubSeq(s, n + 1, Len(s)) \in Seq(Nat)
           /\ ToSet(s) \subseteq ToSet(SubSeq(s, 1, n)) \cup ToSet(SubSeq(s, n + 1, Len(s)))
<1>1. Len(s) \in Nat /\ DOMAIN s = 1..Len(s)
  BY LenProperties
<1>. DEFINE a == SubSeq(s, 1, n)
            b == SubSeq(s, n + 1, Len(s))
<1>2. a \in Seq(Nat) /\ Len(a) = n /\ \A i \in 1..n : a[i] = s[i]
  BY SplitParts
<1>3. b \in Seq(Nat) /\ Len(b) = Len(s) - n /\ \A i \in 1..(Len(s) - n) : b[i] = s[n + i]
  BY SplitParts
<1>. HIDE DEF a, b
<1>4. ASSUME NEW i \in DOMAIN s PROVE s[i] \in ToSet(a) \cup ToSet(b)
  <2>1. CASE i <= n
    <3>1. i \in DOMAIN a /\ a[i] = s[i]
      BY <1>1, <1>2, <2>1, LenProperties
    <3>. QED BY <3>1 DEF ToSet
  <2>2. CASE ~(i <= n)
    <3>1. i - n \in DOMAIN b /\ b[i - n] = s[i]
      BY <1>1, <1>3, <2>2, LenProperties
    <3>. QED BY <3>1 DEF ToSet
  <2>. QED BY <2>1, <2>2
<1>5. ToSet(s) \subseteq ToSet(a) \cup ToSet(b)
  BY <1>4 DEF ToSet
<1>. QED BY <1>2, <1>3, <1>5 DEF a, b

\* Handing records over to the file removes none from any file, and if the
\* descriptor is open, they are in the file then.
LEMMA FlushedKeeps ==
    ASSUME IInv, NEW ps \in Seq(Nat)
    PROVE  /\ DOMAIN Flushed(disk, ps) = DOMAIN disk
           /\ \A i \in DOMAIN disk : ToSet(disk[i]) \subseteq ToSet(Flushed(disk, ps)[i])
           /\ open => file \in DOMAIN disk /\ ToSet(ps) \subseteq ToSet(Flushed(disk, ps)[file])
<1>1. CASE ~open
  BY <1>1 DEF Flushed
<1>2. CASE open
  <2>1. file \in DOMAIN disk /\ \A i \in DOMAIN disk : disk[i] \in Seq(Nat)
    BY <1>2 DEF IInv, TypeOK, OpenFileExists
  <2>2. ToSet(disk[file]) \cup ToSet(ps) \subseteq ToSet(disk[file] \o ps)
    BY <2>1, ConcatKeeps
  <2>3. /\ DOMAIN Flushed(disk, ps) = DOMAIN disk
        /\ \A i \in DOMAIN disk : Flushed(disk, ps)[i] = IF i = file THEN disk[file] \o ps
                                                         ELSE disk[i]
    BY <1>2, <2>1 DEF Flushed
  <2>. QED BY <2>1, <2>2, <2>3
<1>. QED BY <1>1, <1>2

\* The three ways a record may be lost in a step.
MayLose(r) ==
    \/ starts' # starts /\ r \in ToSet(buffer)
    \/ ~open /\ r \in ToSet(buffer)
    \/ file' # file /\ OnDisk(r) = {file'}

\* Opening the next file loses only what was in a file of the same name.
LEMMA OpenAndWriteLoses ==
    ASSUME IInv, NEW content \in Seq(Nat), OpenAndWrite(content), NEW r \in Kept \ Kept'
    PROVE  MayLose(r)
<1>1. buffer \in Seq(Nat) /\ currentName # None /\ (open => file # None)
  BY DEF IInv, TypeOK, None, OpenFileExists
<1>. DEFINE d == Flushed(disk, buffer)
<1>2. /\ DOMAIN d = DOMAIN disk
      /\ \A i \in DOMAIN disk : ToSet(disk[i]) \subseteq ToSet(d[i])
      /\ open => file \in DOMAIN disk /\ ToSet(buffer) \subseteq ToSet(d[file])
  BY <1>1, FlushedKeeps
<1>3. disk' = Truncated(d, currentName) /\ file' = currentName /\ file' # file
  BY <1>1 DEF OpenAndWrite
<1>. HIDE DEF d
<1>4. \A i \in DOMAIN disk : i # currentName => i \in DOMAIN disk' /\ disk'[i] = d[i]
  BY <1>2, <1>3 DEF Truncated
<1>5. \A i \in DOMAIN disk : i # currentName => ToSet(d[i]) \subseteq Kept'
  BY <1>4 DEF Kept
<1>6. CASE r \in ToSet(buffer)
  <2>1. ~open
    BY <1>2, <1>3, <1>5, <1>6
  <2>. QED BY <1>6, <2>1 DEF MayLose
<1>7. CASE r \notin ToSet(buffer)
  <2>1. \E i \in DOMAIN disk : r \in ToSet(disk[i])
    BY <1>7 DEF Kept
  <2>2. \A i \in DOMAIN disk : r \in ToSet(disk[i]) => i = currentName
    BY <1>2, <1>5
  <2>3. OnDisk(r) = {currentName}
    BY <2>1, <2>2 DEF OnDisk
  <2>. QED BY <1>3, <2>3 DEF MayLose
<1>. QED BY <1>6, <1>7

\* What is handed over to the open file is lost only if its descriptor is closed.
LEMMA HandedOver ==
    ASSUME IInv, NEW ps \in Seq(Nat), disk' = Flushed(disk, ps),
           ToSet(buffer) \subseteq ToSet(ps) \cup ToSet(buffer'), NEW r \in Kept \ Kept'
    PROVE  MayLose(r)
<1>1. /\ DOMAIN disk' = DOMAIN disk
      /\ \A i \in DOMAIN disk : ToSet(disk[i]) \subseteq ToSet(disk'[i])
      /\ open => file \in DOMAIN disk /\ ToSet(ps) \subseteq ToSet(disk'[file])
  BY FlushedKeeps
<1>2. r \in ToSet(buffer) /\ r \notin ToSet(buffer')
  BY <1>1 DEF Kept
<1>3. ~open
  BY <1>1, <1>2 DEF Kept
<1>. QED BY <1>2, <1>3 DEF MayLose

\* flush and Close hand the whole buffer over, if a file was opened.
LEMMA BufferHandedOver ==
    ASSUME IInv, disk' = IF file = None THEN disk ELSE Flushed(disk, buffer),
           NEW r \in Kept \ Kept'
    PROVE  MayLose(r)
<1>1. buffer \in Seq(Nat)
  BY DEF IInv, TypeOK
<1>2. disk' = Flushed(disk, buffer)
  BY FlushedNothing
<1>. QED BY <1>1, <1>2, HandedOver

\* Writing a record keeps the others, unless a file is opened anew.
LEMMA WriteLoses ==
    ASSUME IInv, NEW w \in Writers, Write(w), NEW r \in Kept \ Kept'
    PROVE  MayLose(r)
<1>. DEFINE content == Assemble(record[w])
<1>1. content \in Seq(Nat)
  <2>1. record[w] \in Nat
    BY DEF IInv, TypeOK
  <2>. QED BY <2>1 DEF Assemble
<1>2. CASE OpenAndWrite(content)
  <2>. HIDE DEF content
  <2>. QED BY <1>1, <1>2, OpenAndWriteLoses
<1>3. CASE WriteOn(content)
  <2>. HIDE DEF content
  <2>. DEFINE s == buffer \o content
  <2>1. PICK n \in 0..Len(s) : /\ disk' = Flushed(disk, SubSeq(s, 1, n))
                               /\ buffer' = SubSeq(s, n + 1, Len(s))
    BY <1>3 DEF WriteOn
  <2>2. buffer \in Seq(Nat)
    BY DEF IInv, TypeOK
  <2>3. s \in Seq(Nat) /\ ToSet(buffer) \subseteq ToSet(s)
    BY <1>1, <2>2, ConcatKeeps, ConcatProperties
  <2>. HIDE DEF s
  <2>4. /\ SubSeq(s, 1, n) \in Seq(Nat)
        /\ ToSet(s) \subseteq ToSet(SubSeq(s, 1, n)) \cup ToSet(SubSeq(s, n + 1, Len(s)))
    BY <2>3, SplitKeeps
  <2>. QED BY <2>1, <2>3, <2>4, HandedOver
<1>. QED BY <1>2, <1>3 DEF Write

\* A step that loses a record does so in one of the three ways.
LEMMA NextLoses ==
    ASSUME IInv, [Next]_vars
    PROVE  \A r \in Kept \ Kept' : MayLose(r)
<1>. SUFFICES ASSUME NEW r \in Kept \ Kept' PROVE MayLose(r)
  OBVIOUS
<1>1. CASE UNCHANGED <<disk, buffer>>
  BY <1>1 DEF Kept
<1>2. CASE UNCHANGED vars
  BY <1>1, <1>2 DEF vars, object
<1>3. ASSUME NEW w \in Writers, WriterStep(w) PROVE MayLose(r)
  <2>1. CASE PluginWriter(w)
    BY <1>1, <2>1 DEF PluginWriter, object
  <2>2. CASE UpdateName(w)
    BY <1>1, <2>2 DEF UpdateName
  <2>3. CASE Write(w)
    BY <2>3, WriteLoses
  <2>. QED BY <1>3, <2>1, <2>2, <2>3 DEF WriterStep
<1>4. CASE FlusherStep
  <2>1. CASE Wake
    BY <1>1, <2>1 DEF Wake, object
  <2>2. CASE FlusherGetName
    BY <1>1, <2>2 DEF FlusherGetName, object
  <2>3. CASE UpdateName(Flusher)
    BY <1>1, <2>3 DEF UpdateName
  <2>4. CASE Flush
    BY <2>4, BufferHandedOver DEF Flush
  <2>. QED BY <1>4, <2>1, <2>2, <2>3, <2>4 DEF FlusherStep
<1>5. CASE Close
  BY <1>5, BufferHandedOver DEF Close
<1>6. CASE Restart
  <2>1. starts' # starts
    BY <1>6 DEF Restart, IInv, TypeOK
  <2>2. r \in ToSet(buffer)
    BY <1>6 DEF Restart, Kept
  <2>. QED BY <2>1, <2>2 DEF MayLose
<1>. QED BY <1>2, <1>3, <1>4, <1>5, <1>6 DEF Next

\* An accepted record is lost only by a restart or a closed descriptor while it is
\* buffered, or because its file is opened anew: never by a change of chunk as such,
\* for any number of writers, any limits and any records.
THEOREM RecordsStay == Spec => LosesOnly
<1>1. IInv /\ [Next]_vars =>
         [\A r \in Kept \ Kept' :
             \/ starts' # starts /\ r \in ToSet(buffer)
             \/ ~open /\ r \in ToSet(buffer)
             \/ file' # file /\ OnDisk(r) = {file'}]_vars
  BY NextLoses DEF MayLose
<1>. QED BY <1>1, Invariance, PTL DEF Spec, LosesOnly

-----------------------------------------------------------------------------
(***************************************************************************)
(* A record is written once, for any number of writers and runs and any    *)
(* limits.  A record is in the hand of one writer, or accepted; one that   *)
(* was accepted is in one place of the buffer, in one place of one file,   *)
(* or lost.                                                                *)
(***************************************************************************)

\* No record is in two places of the files and the buffer.
Apart ==
    /\ \A i \in DOMAIN disk : IsInjective(disk[i])
    /\ IsInjective(buffer)
    /\ \A i, j \in DOMAIN disk : i # j => ToSet(disk[i]) \cap ToSet(disk[j]) = {}
    /\ \A i \in DOMAIN disk : ToSet(buffer) \cap ToSet(disk[i]) = {}

InHand(w) == pc[w] \in {"named", "ready"}

\* Only what was accepted is kept, and what a writer has in its hand was not yet.
Unaccepted ==
    /\ Kept \subseteq acked
    /\ \A r \in acked : r <= taken
    /\ \A w \in Writers : InHand(w) => record[w] <= taken /\ record[w] \notin acked
    /\ \A v, w \in Writers : InHand(v) /\ InHand(w) /\ record[v] = record[w] => v = w

OnceInv == Apart /\ Unaccepted

-----------------------------------------------------------------------------
(* Sequences without a repetition. *)

\* A concatenation of two sequences without a common element.
LEMMA ConcatOnce ==
    ASSUME NEW a \in Seq(Nat), NEW b \in Seq(Nat)
    PROVE  /\ ToSet(a \o b) = ToSet(a) \cup ToSet(b)
           /\ IsInjective(a) /\ IsInjective(b) /\ ToSet(a) \cap ToSet(b) = {}
                 => IsInjective(a \o b)
<1>. DEFINE c == a \o b
<1>1. /\ Len(a) \in Nat /\ Len(b) \in Nat
      /\ DOMAIN a = 1..Len(a) /\ DOMAIN b = 1..Len(b)
      /\ DOMAIN c = 1..(Len(a) + Len(b))
      /\ \A i \in 1..(Len(a) + Len(b)) : c[i] = IF i <= Len(a) THEN a[i] ELSE b[i - Len(a)]
  BY ConcatProperties, LenProperties
<1>2. ToSet(a) \cup ToSet(b) \subseteq ToSet(c)
  BY ConcatKeeps
<1>. HIDE DEF c
<1>3. ASSUME NEW i \in DOMAIN c
      PROVE  \/ i <= Len(a) /\ i \in DOMAIN a /\ c[i] = a[i]
             \/ ~(i <= Len(a)) /\ i - Len(a) \in DOMAIN b /\ c[i] = b[i - Len(a)]
  BY <1>1
<1>4. ToSet(c) \subseteq ToSet(a) \cup ToSet(b)
  BY <1>3 DEF ToSet
<1>5. ASSUME IsInjective(a), IsInjective(b), ToSet(a) \cap ToSet(b) = {}
      PROVE  IsInjective(c)
  <2>1. ASSUME NEW i \in DOMAIN c, NEW j \in DOMAIN c, c[i] = c[j] PROVE i = j
    <3>1. i \in Int /\ j \in Int /\ Len(a) \in Int
      BY <1>1
    <3>2. CASE i <= Len(a) /\ j <= Len(a)
      BY <1>3, <1>5, <2>1, <3>2 DEF IsInjective
    <3>3. CASE ~(i <= Len(a)) /\ ~(j <= Len(a))
      <4>1. i - Len(a) = j - Len(a)
        BY <1>3, <1>5, <2>1, <3>3 DEF IsInjective
      <4>. QED BY <3>1, <4>1
    <3>4. CASE i <= Len(a) <=> ~(j <= Len(a))
      <4>1. c[i] \in ToSet(a) \cap ToSet(b)
        BY <1>3, <2>1, <3>4 DEF ToSet
      <4>. QED BY <1>5, <4>1
    <3>. QED BY <3>2, <3>3, <3>4
  <2>. QED BY <2>1 DEF IsInjective
<1>. QED BY <1>2, <1>4, <1>5 DEF c

\* The two parts of a sequence have no element in common.
LEMMA SplitOnce ==
    ASSUME NEW s \in Seq(Nat), NEW n \in 0..Len(s), IsInjective(s)
    PROVE  LET a == SubSeq(s, 1, n)
               b == SubSeq(s, n + 1, Len(s))
           IN  /\ a \in Seq(Nat) /\ IsInjective(a)
               /\ b \in Seq(Nat) /\ IsInjective(b)
               /\ ToSet(a) \cap ToSet(b) = {} /\ ToSet(a) \cup ToSet(b) \subseteq ToSet(s)
<1>. DEFINE a == SubSeq(s, 1, n)
            b == SubSeq(s, n + 1, Len(s))
<1>1. Len(s) \in Nat /\ DOMAIN s = 1..Len(s) /\ n \in Nat /\ n <= Len(s)
  BY LenProperties
<1>2. a \in Seq(Nat) /\ DOMAIN a = 1..n /\ \A i \in 1..n : a[i] = s[i]
  BY SplitParts, LenProperties
<1>3. b \in Seq(Nat) /\ DOMAIN b = 1..(Len(s) - n) /\ \A i \in 1..(Len(s) - n) : b[i] = s[n + i]
  BY SplitParts, LenProperties
<1>. HIDE DEF a, b
<1>4. \A i \in DOMAIN a : i \in DOMAIN s /\ i <= n /\ a[i] = s[i]
  BY <1>1, <1>2
<1>5. \A i \in DOMAIN b : n + i \in DOMAIN s /\ ~(n + i <= n) /\ i \in Nat /\ b[i] = s[n + i]
  <2>1. ASSUME NEW i \in DOMAIN b PROVE n + i \in DOMAIN s /\ ~(n + i <= n) /\ i \in Nat
    <3>1. i \in Nat /\ 1 <= i /\ i <= Len(s) - n
      BY <1>1, <1>3
    <3>. QED BY <1>1, <3>1
  <2>2. \A i \in DOMAIN b : b[i] = s[n + i]
    BY <1>3
  <2>. QED BY <2>1, <2>2
<1>6. IsInjective(a)
  BY <1>4 DEF IsInjective
<1>7. IsInjective(b)
  <2>1. ASSUME NEW i \in DOMAIN b, NEW j \in DOMAIN b, b[i] = b[j] PROVE i = j
    <3>1. n + i = n + j
      BY <1>5, <2>1 DEF IsInjective
    <3>. QED BY <1>1, <1>5, <3>1
  <2>. QED BY <2>1 DEF IsInjective
<1>8. ASSUME NEW i \in DOMAIN a, NEW j \in DOMAIN b, a[i] = b[j] PROVE FALSE
  <2>1. i = n + j
    BY <1>4, <1>5, <1>8 DEF IsInjective
  <2>. QED BY <1>4, <1>5, <2>1
<1>9. ToSet(a) \cap ToSet(b) = {} /\ ToSet(a) \cup ToSet(b) \subseteq ToSet(s)
  BY <1>4, <1>5, <1>8 DEF ToSet
<1>. QED BY <1>2, <1>3, <1>6, <1>7, <1>9 DEF a, b

\* A sequence of no record, or of one.
LEMMA ShortOnce ==
    /\ <<>> \in Seq(Nat) /\ ToSet(<<>>) = {} /\ IsInjective(<<>>)
    /\ \A r \in Nat : <<r>> \in Seq(Nat) /\ ToSet(<<r>>) = {r} /\ IsInjective(<<r>>)
<1>. QED BY DEF ToSet, IsInjective

-----------------------------------------------------------------------------
(* What the writer and the flusher do to the files. *)

\* What is handed over to the file, and what is left in the buffer, stay apart from
\* the rest.
LEMMA HandedOverApart ==
    ASSUME IInv, Apart, NEW ps \in Seq(Nat), NEW qs \in Seq(Nat),
           IsInjective(ps), IsInjective(qs), ToSet(ps) \cap ToSet(qs) = {},
           \A i \in DOMAIN disk : (ToSet(ps) \cup ToSet(qs)) \cap ToSet(disk[i]) = {},
           disk' = Flushed(disk, ps), buffer' = qs
    PROVE  Apart' /\ Kept' \subseteq Kept \cup ToSet(ps) \cup ToSet(qs)
<1>1. CASE ~open
  <2>1. disk' = disk
    BY <1>1 DEF Flushed
  <2>. QED BY <2>1 DEF Apart, Kept
<1>2. CASE open
  <2>1. file \in DOMAIN disk /\ \A i \in DOMAIN disk : disk[i] \in Seq(Nat)
    BY <1>2 DEF IInv, TypeOK, OpenFileExists
  <2>2. /\ DOMAIN disk' = DOMAIN disk
        /\ disk'[file] = disk[file] \o ps
        /\ \A i \in DOMAIN disk : i # file => disk'[i] = disk[i]
    BY <1>2, <2>1 DEF Flushed
  <2>3. /\ ToSet(disk'[file]) = ToSet(disk[file]) \cup ToSet(ps)
        /\ IsInjective(disk'[file])
    BY <2>1, <2>2, ConcatOnce DEF Apart
  <2>4. /\ \A i \in DOMAIN disk' : IsInjective(disk'[i])
        /\ IsInjective(buffer')
    BY <2>2, <2>3 DEF Apart
  <2>5. ASSUME NEW i \in DOMAIN disk', NEW j \in DOMAIN disk', i # j
        PROVE  ToSet(disk'[i]) \cap ToSet(disk'[j]) = {}
    <3>1. ToSet(disk[i]) \cap ToSet(disk[j]) = {}
      BY <2>2, <2>5 DEF Apart
    <3>2. CASE i = file
      BY <2>2, <2>3, <2>5, <3>1, <3>2
    <3>3. CASE j = file
      BY <2>2, <2>3, <2>5, <3>1, <3>3
    <3>4. CASE i # file /\ j # file
      BY <2>2, <3>1, <3>4
    <3>. QED BY <3>2, <3>3, <3>4
  <2>6. \A i \in DOMAIN disk' : ToSet(buffer') \cap ToSet(disk'[i]) = {}
    BY <2>2, <2>3
  <2>7. Kept' \subseteq Kept \cup ToSet(ps) \cup ToSet(qs)
    <3>1. \A i \in DOMAIN disk : ToSet(disk'[i]) \subseteq ToSet(disk[i]) \cup ToSet(ps)
      BY <2>2, <2>3
    <3>. QED BY <2>2, <3>1 DEF Kept
  <2>. QED BY <2>4, <2>5, <2>6, <2>7 DEF Apart
<1>. QED BY <1>1, <1>2

\* flush and Close hand the whole buffer over.
LEMMA BufferApart ==
    ASSUME IInv, Apart, disk' = IF file = None THEN disk ELSE Flushed(disk, buffer),
           buffer' = <<>>
    PROVE  Apart' /\ Kept' \subseteq Kept
<1>1. buffer \in Seq(Nat) /\ IsInjective(buffer)
  BY DEF IInv, TypeOK, Apart
<1>2. disk' = Flushed(disk, buffer)
  BY FlushedNothing
<1>3. \A i \in DOMAIN disk : (ToSet(buffer) \cup ToSet(<<>>)) \cap ToSet(disk[i]) = {}
  BY ShortOnce DEF Apart
<1>4. Apart' /\ Kept' \subseteq Kept \cup ToSet(buffer) \cup ToSet(<<>>)
  BY <1>1, <1>2, <1>3, ShortOnce, HandedOverApart
<1>. QED BY <1>4, ShortOnce DEF Kept

\* The buffer takes a record that was nowhere, and hands over what it must.
LEMMA WriteOnApart ==
    ASSUME IInv, Apart, NEW content \in Seq(Nat), IsInjective(content),
           ToSet(content) \cap Kept = {}, WriteOn(content)
    PROVE  Apart' /\ Kept' \subseteq Kept \cup ToSet(content)
<1>. DEFINE s == buffer \o content
<1>1. buffer \in Seq(Nat) /\ IsInjective(buffer) /\ ToSet(buffer) \cap ToSet(content) = {}
  BY DEF IInv, TypeOK, Apart, Kept
<1>2. /\ s \in Seq(Nat) /\ IsInjective(s) /\ ToSet(s) = ToSet(buffer) \cup ToSet(content)
  BY <1>1, ConcatOnce, ConcatProperties
<1>3. PICK n \in 0..Len(s) : /\ disk' = Flushed(disk, SubSeq(s, 1, n))
                             /\ buffer' = SubSeq(s, n + 1, Len(s))
  BY DEF WriteOn
<1>. HIDE DEF s
<1>. DEFINE a == SubSeq(s, 1, n)
            b == SubSeq(s, n + 1, Len(s))
<1>4. /\ a \in Seq(Nat) /\ IsInjective(a) /\ b \in Seq(Nat) /\ IsInjective(b)
      /\ ToSet(a) \cap ToSet(b) = {} /\ ToSet(a) \cup ToSet(b) \subseteq ToSet(s)
  BY <1>2, SplitOnce
<1>5. disk' = Flushed(disk, a) /\ buffer' = b
  BY <1>3
<1>. HIDE DEF a, b
<1>6. \A i \in DOMAIN disk : (ToSet(a) \cup ToSet(b)) \cap ToSet(disk[i]) = {}
  BY <1>2, <1>4 DEF Apart, Kept
<1>7. Apart' /\ Kept' \subseteq Kept \cup ToSet(a) \cup ToSet(b)
  BY <1>4, <1>5, <1>6, HandedOverApart
<1>. QED BY <1>2, <1>4, <1>7 DEF Kept

\* A file that is opened anew is empty; the old one has what was buffered.
LEMMA OpenAndWriteApart ==
    ASSUME IInv, Apart, NEW content \in Seq(Nat), IsInjective(content),
           ToSet(content) \cap Kept = {}, OpenAndWrite(content)
    PROVE  Apart' /\ Kept' \subseteq Kept \cup ToSet(content)
<1>. DEFINE d == Flushed(disk, buffer)
<1>1. /\ buffer \in Seq(Nat)
      /\ \A i \in DOMAIN disk : disk[i] \in Seq(Nat)
      /\ open => file \in DOMAIN disk
  BY DEF IInv, TypeOK, OpenFileExists
<1>2. /\ DOMAIN d = DOMAIN disk
      /\ \A i \in DOMAIN d : /\ IsInjective(d[i]) /\ ToSet(d[i]) \subseteq Kept
                             /\ ToSet(d[i]) \subseteq ToSet(disk[i])
                                   \cup (IF i = file THEN ToSet(buffer) ELSE {})
  <2>1. CASE ~open
    BY <2>1 DEF Flushed, Apart, Kept
  <2>2. CASE open
    <3>1. /\ DOMAIN d = DOMAIN disk /\ d[file] = disk[file] \o buffer
          /\ \A i \in DOMAIN disk : i # file => d[i] = disk[i]
      BY <1>1, <2>2 DEF Flushed
    <3>2. ToSet(d[file]) = ToSet(disk[file]) \cup ToSet(buffer) /\ IsInjective(d[file])
      BY <1>1, <2>2, <3>1, ConcatOnce DEF Apart
    <3>. HIDE DEF d
    <3>. QED BY <1>1, <2>2, <3>1, <3>2 DEF Apart, Kept
  <2>. QED BY <2>1, <2>2
<1>3. disk' = Truncated(d, currentName) /\ buffer' = content
  BY DEF OpenAndWrite
<1>. HIDE DEF d
<1>4. /\ \A i \in DOMAIN disk' : i # currentName => i \in DOMAIN d /\ disk'[i] = d[i]
      /\ disk'[currentName] = <<>> /\ currentName \in DOMAIN disk'
  BY <1>3 DEF Truncated
<1>5. \A i \in DOMAIN disk' : IsInjective(disk'[i]) /\ ToSet(disk'[i]) \subseteq Kept
  BY <1>2, <1>4, ShortOnce
<1>6. ASSUME NEW i \in DOMAIN disk', NEW j \in DOMAIN disk', i # j
      PROVE  ToSet(disk'[i]) \cap ToSet(disk'[j]) = {}
  <2>1. CASE i = currentName \/ j = currentName
    BY <1>4, <2>1, ShortOnce
  <2>2. CASE i # currentName /\ j # currentName
    <3>1. /\ i \in DOMAIN disk /\ j \in DOMAIN disk /\ disk'[i] = d[i] /\ disk'[j] = d[j]
      BY <1>2, <1>4, <2>2
    <3>2. /\ ToSet(disk[i]) \cap ToSet(disk[j]) = {}
          /\ ToSet(buffer) \cap ToSet(disk[i]) = {} /\ ToSet(buffer) \cap ToSet(disk[j]) = {}
      BY <1>6, <3>1 DEF Apart
    <3>. QED BY <1>2, <1>6, <3>1, <3>2
  <2>. QED BY <2>1, <2>2
<1>7. \A i \in DOMAIN disk' : ToSet(buffer') \cap ToSet(disk'[i]) = {}
  BY <1>3, <1>5
<1>8. Kept' \subseteq Kept \cup ToSet(content)
  BY <1>3, <1>5 DEF Kept
<1>. QED BY <1>3, <1>5, <1>6, <1>7, <1>8 DEF Apart

-----------------------------------------------------------------------------
(* The actions. *)

\* Nothing is written when the first run starts.
LEMMA InitOnce == Init => OnceInv
<1>. SUFFICES ASSUME Init PROVE OnceInv
  OBVIOUS
<1>1. DOMAIN disk = {} /\ buffer = <<>> /\ acked = {}
  BY DEF Init
<1>2. Apart /\ Kept = {}
  BY <1>1, ShortOnce DEF Apart, Kept
<1>3. \A w \in Writers : ~InHand(w)
  BY DEF Init, InHand, Procs
<1>. QED BY <1>1, <1>2, <1>3 DEF OnceInv, Unaccepted

\* What accepts nothing, and puts nothing in a writer's hand.
LEMMA NothingTaken ==
    ASSUME Unaccepted, Kept' \subseteq Kept, UNCHANGED <<acked, taken>>,
           \A w \in Writers : InHand(w)' => InHand(w) /\ record'[w] = record[w]
    PROVE  Unaccepted'
<1>. QED BY DEF Unaccepted

\* A writer takes the next record.
LEMMA PluginWriterOnce == \A w \in Writers : IInv /\ OnceInv /\ PluginWriter(w) => OnceInv'
<1>. SUFFICES ASSUME NEW w \in Writers, IInv, OnceInv, PluginWriter(w) PROVE OnceInv'
  OBVIOUS
<1>1. /\ UNCHANGED <<disk, buffer, acked>> /\ taken' = taken + 1
      /\ record' = [record EXCEPT ![w] = taken + 1] /\ pc' = [pc EXCEPT ![w] = "named"]
  BY DEF PluginWriter, GetName, object
<1>2. Apart' /\ Kept' = Kept
  BY <1>1 DEF OnceInv, Apart, Kept
<1>3. /\ taken \in Nat /\ acked \subseteq Nat /\ record \in [Writers -> Nat]
      /\ pc \in [Procs -> {"idle", "awake", "named", "ready", "gone"}] /\ w \in Procs
  BY DEF IInv, TypeOK, Procs
<1>4. \A r \in acked' : r <= taken' /\ r # taken'
  BY <1>1, <1>3 DEF OnceInv, Unaccepted
<1>5. \A v \in Writers : v # w => record'[v] = record[v] /\ (InHand(v)' => InHand(v))
  BY <1>1, <1>3 DEF InHand
<1>6. record'[w] = taken' /\ taken' \in Nat
  BY <1>1, <1>3
<1>7. ASSUME NEW v \in Writers, v # w, InHand(v)'
      PROVE  record'[v] <= taken' /\ record'[v] # taken' /\ record'[v] \notin acked'
  <2>1. record[v] \in Nat /\ record[v] <= taken /\ record[v] \notin acked /\ record'[v] = record[v]
    BY <1>3, <1>5, <1>7 DEF OnceInv, Unaccepted
  <2>. QED BY <1>1, <1>3, <2>1
<1>8. \A v \in Writers : InHand(v)' => record'[v] <= taken' /\ record'[v] \notin acked'
  BY <1>4, <1>6, <1>7
<1>9. ASSUME NEW u \in Writers, NEW v \in Writers, InHand(u)', InHand(v)', record'[u] = record'[v]
      PROVE  u = v
  <2>1. CASE u # w /\ v # w
    BY <1>5, <1>9, <2>1 DEF OnceInv, Unaccepted
  <2>2. CASE u = w \/ v = w
    BY <1>6, <1>7, <1>9, <2>2
  <2>. QED BY <2>1, <2>2
<1>10. Unaccepted'
  BY <1>1, <1>2, <1>4, <1>8, <1>9 DEF OnceInv, Unaccepted
<1>. QED BY <1>2, <1>10 DEF OnceInv

\* A record that is written was in no file and not in the buffer.
LEMMA WriteOnce == \A w \in Writers : IInv /\ OnceInv /\ Write(w) => OnceInv'
<1>. SUFFICES ASSUME NEW w \in Writers, IInv, OnceInv, Write(w) PROVE OnceInv'
  OBVIOUS
<1>. DEFINE content == Assemble(record[w])
<1>1. /\ pc[w] = "ready" /\ pc' = [pc EXCEPT ![w] = "idle"]
      /\ UNCHANGED <<record, taken>> /\ acked' = acked \cup ToSet(content)
      /\ OpenAndWrite(content) \/ WriteOn(content)
  BY DEF Write
<1>2. record[w] \in Nat /\ record[w] <= taken /\ record[w] \notin acked
  BY <1>1 DEF IInv, TypeOK, OnceInv, Unaccepted, InHand
<1>3. content \in Seq(Nat) /\ IsInjective(content) /\ ToSet(content) \subseteq {record[w]}
  BY <1>2, ShortOnce DEF Assemble
<1>. HIDE DEF content
<1>4. ToSet(content) \cap Kept = {}
  BY <1>2, <1>3 DEF OnceInv, Unaccepted
<1>5. Apart' /\ Kept' \subseteq Kept \cup ToSet(content)
  BY <1>1, <1>3, <1>4, OpenAndWriteApart, WriteOnApart DEF OnceInv
<1>6. \A v \in Writers : InHand(v)' => v # w /\ InHand(v)
  BY <1>1 DEF IInv, TypeOK, InHand, Procs
<1>7. ASSUME NEW v \in Writers, InHand(v)' PROVE record[v] # record[w]
  BY <1>1, <1>6, <1>7 DEF OnceInv, Unaccepted, InHand
<1>8. /\ Kept' \subseteq acked'
      /\ \A r \in acked' : r <= taken'
      /\ \A v \in Writers : InHand(v)' => record'[v] <= taken' /\ record'[v] \notin acked'
      /\ \A u, v \in Writers : InHand(u)' /\ InHand(v)' /\ record'[u] = record'[v] => u = v
  BY <1>1, <1>2, <1>3, <1>5, <1>6, <1>7 DEF OnceInv, Unaccepted
<1>. QED BY <1>5, <1>8 DEF OnceInv, Unaccepted

\* Every step keeps records apart.
LEMMA NextOnce == IInv /\ OnceInv /\ [Next]_vars => OnceInv'
<1>. SUFFICES ASSUME IInv, OnceInv, [Next]_vars PROVE OnceInv'
  OBVIOUS
<1>1. /\ Flusher \notin Writers /\ Writers \subseteq Procs /\ Flusher \in Procs
      /\ pc \in [Procs -> {"idle", "awake", "named", "ready", "gone"}]
  BY FileOutputAssumption DEF IInv, TypeOK, Procs
<1>2. ASSUME Apart', Kept' \subseteq Kept, UNCHANGED <<acked, taken>>,
             \A w \in Writers : InHand(w)' => InHand(w) /\ record'[w] = record[w]
      PROVE  OnceInv'
  BY <1>2, NothingTaken DEF OnceInv
<1>3. ASSUME UNCHANGED <<disk, buffer>> PROVE Apart' /\ Kept' = Kept
  BY <1>3 DEF OnceInv, Apart, Kept
<1>4. ASSUME NEW p \in Procs, UpdateName(p) PROVE OnceInv'
  <2>1. UNCHANGED <<disk, buffer, acked, taken, record>> /\ pc[p] = "named"
        /\ pc' = [pc EXCEPT ![p] = "ready"]
    BY <1>4 DEF UpdateName, history
  <2>2. \A w \in Writers : InHand(w)' => InHand(w)
    BY <1>1, <2>1 DEF InHand
  <2>. QED BY <1>2, <1>3, <2>1, <2>2
<1>5. CASE \E w \in Writers : WriterStep(w)
  BY <1>1, <1>4, <1>5, PluginWriterOnce, WriteOnce DEF WriterStep
<1>6. CASE Wake \/ FlusherGetName
  <2>1. /\ UNCHANGED <<disk, buffer, acked, taken, record>>
        /\ \A w \in Writers : pc'[w] = pc[w]
    BY <1>1, <1>6 DEF Wake, FlusherGetName, GetName, object, history
  <2>. QED BY <1>2, <1>3, <2>1 DEF InHand
<1>7. CASE Flush \/ Close
  <2>1. /\ disk' = (IF file = None THEN disk ELSE Flushed(disk, buffer)) /\ buffer' = <<>>
        /\ UNCHANGED <<acked, taken, record>> /\ \A w \in Writers : pc'[w] = pc[w]
    BY <1>1, <1>7 DEF Flush, Close, history
  <2>2. Apart' /\ Kept' \subseteq Kept
    BY <2>1, BufferApart DEF OnceInv
  <2>. QED BY <1>2, <2>1, <2>2 DEF InHand
<1>8. CASE Restart
  <2>1. /\ disk' = disk /\ buffer' = <<>> /\ UNCHANGED <<acked, taken>>
        /\ pc' = [p \in Procs |-> "idle"]
    BY <1>8 DEF Restart, history
  <2>2. Apart' /\ Kept' \subseteq Kept
    BY <2>1, ShortOnce DEF OnceInv, Apart, Kept
  <2>3. \A w \in Writers : ~InHand(w)'
    BY <1>1, <2>1 DEF InHand
  <2>. QED BY <1>2, <2>1, <2>2, <2>3
<1>9. CASE UNCHANGED vars
  BY <1>2, <1>3, <1>9 DEF vars, object, history, InHand
<1>. QED BY <1>1, <1>4, <1>5, <1>6, <1>7, <1>8, <1>9 DEF Next, FlusherStep

-----------------------------------------------------------------------------
\* The inductive invariant: no record is in two places, none that a writer has in its
\* hand was accepted, and no two writers have the same.
THEOREM Separation == Spec => []OnceInv
<1>1. Init => OnceInv
  BY InitOnce
<1>2. IInv /\ OnceInv /\ [Next]_vars => OnceInv'
  BY NextOnce
<1>. QED BY <1>1, <1>2, Invariance, PTL DEF Spec

\* A record is written once: whatever the interleaving of writers, flusher, Close and
\* restarts, and wherever bufio splits the buffer, it is in one place of one file, or
\* in the buffer, or lost.
THEOREM RecordsWrittenOnce == Spec => []WrittenOnce
<1>1. ASSUME OnceInv PROVE WrittenOnce
  <2>1. \A i \in DOMAIN disk : \A j, k \in DOMAIN disk[i] : disk[i][j] = disk[i][k] => j = k
    BY <1>1 DEF OnceInv, Apart, IsInjective
  <2>2. ASSUME NEW r \in acked
        PROVE  Cardinality(OnDisk(r)) <= 1 /\ (r \in ToSet(buffer) => OnDisk(r) = {})
    <3>1. \A i, j \in OnDisk(r) : i = j
      BY <1>1 DEF OnceInv, Apart, OnDisk
    <3>2. Cardinality(OnDisk(r)) <= 1
      <4>1. CASE OnDisk(r) = {}
        BY <4>1, FS_EmptySet
      <4>2. CASE OnDisk(r) # {}
        <5>1. PICK i : OnDisk(r) = {i}
          BY <3>1, <4>2
        <5>. QED BY <5>1, FS_Singleton
      <4>. QED BY <4>1, <4>2
    <3>3. r \in ToSet(buffer) => OnDisk(r) = {}
      BY <1>1 DEF OnceInv, Apart, OnDisk
    <3>. QED BY <3>2, <3>3
  <2>. QED BY <2>1, <2>2 DEF WrittenOnce
<1>. QED BY <1>1, Separation, PTL

-----------------------------------------------------------------------------
(***************************************************************************)
(* By how much a chunk outgrows QueueLimit, for any number of writers.     *)
(* Once the chunk is full, filename() names it no more, so the names of it *)
(* that are in flight only become fewer; each may make it current again,   *)
(* and then each writer that is ready adds one record.                     *)
(***************************************************************************)

\* Those that have a name of the open file, not yet made the current one
InFlight == {p \in Procs : pc[p] = "named" /\ name[p] = file}

\* The writers about to write to the current file
ReadyWriters == {w \in Writers : pc[w] = "ready"}

NWriters == Cardinality(Writers)

\* What may still be written to the open file
MayCome ==
    NWriters * Cardinality(InFlight) + (IF currentName = file THEN Cardinality(ReadyWriters) ELSE 0)

Room == QueueLimit > 0 /\ queueLength >= QueueLimit
            => queueLength + MayCome <= QueueLimit + NWriters * NWriters

NothingOpened == file = None => queueLength = 0

BoundInv == Room /\ NothingOpened

-----------------------------------------------------------------------------
(* Counting. *)

\* Writers and flusher are finitely many.
LEMMA Counts ==
    /\ IsFiniteSet(Procs) /\ NWriters \in Nat
    /\ IsFiniteSet(InFlight) /\ Cardinality(InFlight) \in Nat
    /\ IsFiniteSet(ReadyWriters) /\ Cardinality(ReadyWriters) \in Nat
    /\ Cardinality(ReadyWriters) <= NWriters
<1>1. IsFiniteSet(Writers)
  BY FileOutputAssumption
<1>2. IsFiniteSet(Procs)
  BY <1>1, FS_AddElement DEF Procs
<1>3. IsFiniteSet(InFlight)
  BY <1>2, FS_Subset DEF InFlight
<1>4. IsFiniteSet(ReadyWriters) /\ Cardinality(ReadyWriters) <= NWriters
  BY <1>1, FS_Subset DEF ReadyWriters, NWriters
<1>. QED BY <1>1, <1>2, <1>3, <1>4, FS_CardinalityType DEF NWriters

\* All but one writer, and the flusher, are as many as the writers.
LEMMA TheOthers ==
    ASSUME NEW w \in Writers
    PROVE  IsFiniteSet(Procs \ {w}) /\ Cardinality(Procs \ {w}) = NWriters
<1>1. IsFiniteSet(Writers) /\ Flusher \notin Writers
  BY FileOutputAssumption
<1>2. Cardinality(Procs) = NWriters + 1 /\ IsFiniteSet(Procs)
  BY <1>1, FS_AddElement DEF Procs, NWriters
<1>3. w \in Procs
  BY DEF Procs
<1>4. Cardinality(Procs \ {w}) = Cardinality(Procs) - 1 /\ IsFiniteSet(Procs \ {w})
  BY <1>2, <1>3, FS_RemoveElement
<1>. QED BY <1>2, <1>4, Counts

\* s names in flight and r ready writers, of n processes, bring no more than n squared.
LEMMA Square ==
    ASSUME NEW n \in Nat, NEW s \in Nat, NEW r \in Nat, s + r <= n
    PROVE  n * s + r <= n * n
<1>. DEFINE d == n - s
<1>1. d \in Nat /\ r <= d /\ n = s + d
  OBVIOUS
<1>2. n * n = n * s + n * d
  <2>. HIDE DEF d
  <2>1. n * (s + d) = n * s + n * d
    BY <1>1
  <2>. QED BY <1>1, <2>1
<1>3. d <= n * d
  <2>. HIDE DEF d
  <2>1. CASE n = 0
    BY <1>1, <2>1
  <2>2. CASE n >= 1
    BY <1>1, <2>2
  <2>. QED BY <1>1, <2>1, <2>2
<1>4. n * s \in Nat /\ n * d \in Nat /\ n * n \in Nat
  BY <1>1
<1>. HIDE DEF d
<1>. QED BY <1>1, <1>2, <1>3, <1>4

\* When a writer has just made the chunk full, those that are left bring no more.
LEMMA JustFull ==
    ASSUME NEW w \in Writers, pc'[w] = "idle", queueLength' = QueueLimit
    PROVE  Room'
<1>1. InFlight' \cup ReadyWriters' \subseteq Procs \ {w} /\ InFlight' \cap ReadyWriters' = {}
  BY DEF InFlight, ReadyWriters, Procs
<1>2. /\ IsFiniteSet(Procs \ {w}) /\ Cardinality(Procs \ {w}) = NWriters
  BY TheOthers
<1>3. /\ IsFiniteSet(InFlight') /\ IsFiniteSet(ReadyWriters')
      /\ IsFiniteSet(InFlight' \cup ReadyWriters')
      /\ Cardinality(InFlight' \cup ReadyWriters') <= NWriters
  BY <1>1, <1>2, FS_Subset
<1>. DEFINE s == Cardinality(InFlight')
            r == Cardinality(ReadyWriters')
<1>4. s \in Nat /\ r \in Nat /\ NWriters \in Nat /\ QueueLimit \in Nat
  BY <1>3, FS_CardinalityType, Counts, FileOutputAssumption
<1>5. s + r <= NWriters
  <2>1. Cardinality(InFlight' \cap ReadyWriters') = 0
    BY <1>1, FS_EmptySet
  <2>2. Cardinality(InFlight' \cup ReadyWriters')
           = s + r - Cardinality(InFlight' \cap ReadyWriters')
    BY <1>3, FS_Union
  <2>. QED BY <1>3, <1>4, <2>1, <2>2
<1>6. NWriters * s + r <= NWriters * NWriters /\ NWriters * s <= NWriters * NWriters
  <2>1. NWriters * s + r <= NWriters * NWriters
    BY <1>4, <1>5, Square
  <2>2. NWriters * s \in Nat /\ NWriters * NWriters \in Nat
    BY <1>4
  <2>. QED BY <1>4, <2>1, <2>2
<1>7. MayCome' = NWriters * s + (IF currentName' = file' THEN r ELSE 0)
  BY DEF MayCome, NWriters
<1>8. NWriters * s \in Nat /\ NWriters * NWriters \in Nat
  BY <1>4
<1>9. MayCome' <= NWriters * NWriters /\ MayCome' \in Nat
  <2>. HIDE DEF s, r
  <2>1. CASE currentName' = file'
    BY <1>4, <1>6, <1>7, <1>8, <2>1
  <2>2. CASE currentName' # file'
    BY <1>4, <1>6, <1>7, <1>8, <2>2
  <2>. QED BY <2>1, <2>2
<1>10. (NWriters * NWriters)' = NWriters * NWriters
  BY DEF NWriters
<1>11. queueLength' + MayCome' <= QueueLimit + (NWriters * NWriters)'
  <2>. DEFINE q == NWriters * NWriters
              m == MayCome'
  <2>1. q \in Nat /\ m \in Nat /\ m <= q /\ QueueLimit \in Nat
    BY <1>4, <1>8, <1>9
  <2>. HIDE DEF q, m
  <2>2. QueueLimit + m <= QueueLimit + q
    BY <2>1
  <2>. QED BY <1>10, <2>2 DEF q, m
<1>. QED BY <1>11 DEF Room

\* What lets neither the chunk grow nor more come.
LEMMA NoMoreComes ==
    ASSUME BoundInv, UNCHANGED <<file, queueLength>>,
           Room => (QueueLimit > 0 /\ queueLength >= QueueLimit => MayCome' <= MayCome),
           queueLength \in Nat, MayCome \in Nat, MayCome' \in Nat
    PROVE  BoundInv'
<1>1. QueueLimit \in Nat /\ NWriters * NWriters \in Nat
  BY FileOutputAssumption, Counts
<1>2. (NWriters * NWriters)' = NWriters * NWriters
  BY DEF NWriters
<1>. QED BY <1>1, <1>2 DEF BoundInv, Room, NothingOpened

\* What may come is a number.
LEMMA MayComeType == MayCome \in Nat /\ MayCome' \in Nat
<1>1. NWriters \in Nat /\ Cardinality(InFlight) \in Nat /\ Cardinality(ReadyWriters) \in Nat
  BY Counts
<1>2. Cardinality(InFlight') \in Nat /\ Cardinality(ReadyWriters') \in Nat
  <2>1. IsFiniteSet(InFlight') /\ IsFiniteSet(ReadyWriters')
    BY Counts, FS_Subset, FileOutputAssumption DEF InFlight, ReadyWriters
  <2>. QED BY <2>1, FS_CardinalityType
<1>3. MayCome' = NWriters * Cardinality(InFlight')
                   + (IF currentName' = file' THEN Cardinality(ReadyWriters') ELSE 0)
  BY DEF MayCome, NWriters
<1>4. NWriters * Cardinality(InFlight) \in Nat /\ NWriters * Cardinality(InFlight') \in Nat
  BY <1>1, <1>2
<1>. QED BY <1>1, <1>2, <1>3, <1>4 DEF MayCome

\* What leaves names, writers and counter alone.
LEMMA SameRoom ==
    ASSUME BoundInv, UNCHANGED <<file, currentName, queueLength>>,
           InFlight' = InFlight, ReadyWriters' = ReadyWriters, queueLength \in Nat
    PROVE  BoundInv'
<1>1. MayCome' = MayCome
  BY DEF MayCome, NWriters
<1>. QED BY <1>1, MayComeType, NoMoreComes

-----------------------------------------------------------------------------
(* The actions. *)

\* filename() does not name a full chunk.
LEMMA FullIsNotNamed ==
    ASSUME IInv, BoundInv, QueueLimit > 0, queueLength >= QueueLimit
    PROVE  Filename # file
<1>1. file # None /\ file \in DOMAIN disk /\ file \in Nat
  BY FileOutputAssumption DEF BoundInv, NothingOpened, IInv, TypeOK
<1>2. Newest(disk) \in Nat /\ file <= Newest(disk)
  BY <1>1, NewestIsNewest DEF IInv
<1>3. Filename = Newest(disk) + 1
  BY <1>1 DEF Filename, ChunkFull
<1>. QED BY <1>1, <1>2, <1>3

\* A name is computed.
LEMMA GetNameRoom ==
    ASSUME IInv, BoundInv, NEW p \in Procs, NEW at \in {"idle", "awake"}, GetName(p, at),
           UNCHANGED <<file, currentName, queueLength>>
    PROVE  BoundInv'
<1>1. /\ pc \in [Procs -> {"idle", "awake", "named", "ready", "gone"}]
      /\ name \in [Procs -> Nat \cup {None}] /\ queueLength \in Nat
      /\ pc[p] = at /\ pc' = [pc EXCEPT ![p] = "named"] /\ name' = [name EXCEPT ![p] = Filename]
  BY DEF IInv, TypeOK, GetName
<1>2. ReadyWriters' = ReadyWriters
  BY <1>1 DEF ReadyWriters, Procs
<1>3. ASSUME QueueLimit > 0, queueLength >= QueueLimit PROVE MayCome' <= MayCome
  <2>1. Filename # file
    BY <1>3, FullIsNotNamed
  <2>2. InFlight' = InFlight
    BY <1>1, <2>1 DEF InFlight
  <2>3. MayCome' = MayCome
    BY <1>2, <2>2 DEF MayCome, NWriters
  <2>. QED BY <2>3, MayComeType
<1>. QED BY <1>1, <1>3, MayComeType, NoMoreComes

\* A name becomes the current one: one fewer is in flight, or the open file is not
\* the current one any more.
LEMMA UpdateNameRoom == \A p \in Procs : IInv /\ BoundInv /\ UpdateName(p) => BoundInv'
<1>. SUFFICES ASSUME NEW p \in Procs, IInv, BoundInv, UpdateName(p) PROVE BoundInv'
  OBVIOUS
<1>1. /\ pc \in [Procs -> {"idle", "awake", "named", "ready", "gone"}] /\ queueLength \in Nat
      /\ pc[p] = "named" /\ pc' = [pc EXCEPT ![p] = "ready"] /\ currentName' = name[p]
      /\ UNCHANGED <<file, queueLength, name>>
  BY DEF IInv, TypeOK, UpdateName
<1>. DEFINE s == Cardinality(InFlight)
            r == Cardinality(ReadyWriters)
            n == NWriters
            t == Cardinality(ReadyWriters')
<1>2. s \in Nat /\ r \in Nat /\ n \in Nat /\ t \in Nat /\ t <= n /\ n * s \in Nat
  <2>1. t \in Nat /\ t <= n
    BY FS_Subset, FS_CardinalityType, FileOutputAssumption DEF ReadyWriters, NWriters
  <2>. QED BY <2>1, Counts
<1>3. MayCome = n * s + (IF currentName = file THEN r ELSE 0)
  BY DEF MayCome
<1>4. CASE name[p] = file
  <2>1. InFlight' = InFlight \ {p} /\ p \in InFlight
    BY <1>1, <1>4 DEF InFlight
  <2>2. Cardinality(InFlight') = s - 1
    BY <2>1, Counts, FS_RemoveElement
  <2>3. MayCome' = n * (s - 1) + t
    BY <1>1, <1>4, <2>2 DEF MayCome, NWriters
  <2>. HIDE DEF s, r, n, t
  <2>4. n * (s - 1) = n * s - n
    BY <1>2
  <2>5. MayCome' <= MayCome
    BY <1>2, <1>3, <2>3, <2>4
  <2>. QED BY <1>1, <2>5, MayComeType, NoMoreComes
<1>5. CASE name[p] # file
  <2>1. InFlight' = InFlight
    BY <1>1, <1>5 DEF InFlight
  <2>2. MayCome' = n * s
    BY <1>1, <1>2, <1>5, <2>1 DEF MayCome, NWriters
  <2>. HIDE DEF s, r, n
  <2>3. MayCome' <= MayCome
    BY <1>2, <1>3, <2>2
  <2>. QED BY <1>1, <2>3, MayComeType, NoMoreComes
<1>. QED BY <1>4, <1>5

\* A record is written: one writer fewer is ready, or the chunk is a new one.
LEMMA WriteRoom == \A w \in Writers : IInv /\ BoundInv /\ Write(w) => BoundInv'
<1>. SUFFICES ASSUME NEW w \in Writers, IInv, BoundInv, Write(w) PROVE BoundInv'
  OBVIOUS
<1>. DEFINE content == Assemble(record[w])
            k == Len(content)
<1>1. /\ pc \in [Procs -> {"idle", "awake", "named", "ready", "gone"}] /\ w \in Procs
      /\ pc[w] = "ready" /\ pc' = [pc EXCEPT ![w] = "idle"] /\ pc'[w] = "idle"
      /\ queueLength \in Nat /\ currentName \in Nat /\ QueueLimit \in Nat
      /\ UNCHANGED <<currentName, name>> /\ (OpenAndWrite(content) \/ WriteOn(content))
  BY FileOutputAssumption DEF IInv, TypeOK, Write, Procs
<1>2. k \in {0, 1}
  BY DEF Assemble
<1>3. NothingOpened'
  BY <1>1 DEF OpenAndWrite, WriteOn, NothingOpened, None
<1>. HIDE DEF content, k
<1>4. CASE OpenAndWrite(content)
  <2>1. queueLength' = k
    BY <1>4 DEF OpenAndWrite, k
  <2>2. CASE QueueLimit > 0 /\ queueLength' >= QueueLimit
    <3>1. queueLength' = QueueLimit
      BY <1>1, <1>2, <2>1, <2>2
    <3>. QED BY <1>1, <1>3, <3>1, JustFull DEF BoundInv
  <2>3. CASE ~(QueueLimit > 0 /\ queueLength' >= QueueLimit)
    BY <1>3, <2>3 DEF BoundInv, Room
  <2>. QED BY <2>2, <2>3
<1>5. CASE WriteOn(content)
  <2>1. queueLength' = queueLength + k /\ file' = file /\ currentName = file
    BY <1>5 DEF WriteOn, k
  <2>2. CASE QueueLimit > 0 /\ queueLength >= QueueLimit
    <3>. DEFINE r == Cardinality(ReadyWriters)
                t == Cardinality(ReadyWriters')
                u == NWriters * Cardinality(InFlight)
    <3>1. ReadyWriters' = ReadyWriters \ {w} /\ w \in ReadyWriters
      BY <1>1 DEF ReadyWriters, Procs
    <3>2. r \in Nat /\ t = r - 1 /\ u \in Nat /\ NWriters * NWriters \in Nat
      <4>1. t = r - 1
        BY <3>1, Counts, FS_RemoveElement
      <4>2. r \in Nat /\ NWriters \in Nat /\ Cardinality(InFlight) \in Nat
        BY Counts
      <4>3. u \in Nat /\ NWriters * NWriters \in Nat
        <5>. HIDE DEF r, t
        <5>. QED BY <4>2
      <4>. QED BY <4>1, <4>2, <4>3
    <3>3. InFlight' = InFlight
      BY <1>1, <2>1 DEF InFlight
    <3>4. MayCome = u + r /\ MayCome' = u + t /\ (NWriters * NWriters)' = NWriters * NWriters
      BY <1>1, <2>1, <3>3 DEF MayCome, NWriters
    <3>. HIDE DEF r, t, u
    <3>5. queueLength + MayCome <= QueueLimit + NWriters * NWriters
      BY <2>2 DEF BoundInv, Room
    <3>6. queueLength' + MayCome' <= QueueLimit + NWriters * NWriters
      BY <1>1, <1>2, <2>1, <3>2, <3>4, <3>5
    <3>. QED BY <1>3, <3>4, <3>6 DEF BoundInv, Room
  <2>3. CASE queueLength < QueueLimit /\ queueLength' >= QueueLimit
    <3>1. queueLength' = QueueLimit
      BY <1>1, <1>2, <2>1, <2>3
    <3>. QED BY <1>1, <1>3, <3>1, JustFull DEF BoundInv
  <2>4. CASE ~(QueueLimit > 0 /\ queueLength' >= QueueLimit)
    BY <1>3, <2>4 DEF BoundInv, Room
  <2>. QED BY <1>1, <2>2, <2>3, <2>4
<1>. QED BY <1>1, <1>4, <1>5

\* Nothing is open, and nothing counted, when the first run starts.
LEMMA InitRoom == Init => BoundInv
<1>. SUFFICES ASSUME Init PROVE BoundInv
  OBVIOUS
<1>1. queueLength = 0 /\ QueueLimit \in Nat
  BY FileOutputAssumption DEF Init
<1>. QED BY <1>1 DEF BoundInv, Room, NothingOpened

\* Every step keeps the bound.
LEMMA NextRoom == IInv /\ BoundInv /\ [Next]_vars => BoundInv'
<1>. SUFFICES ASSUME IInv, BoundInv, [Next]_vars PROVE BoundInv'
  OBVIOUS
<1>1. /\ Flusher \notin Writers /\ Writers \subseteq Procs /\ Flusher \in Procs
      /\ pc \in [Procs -> {"idle", "awake", "named", "ready", "gone"}] /\ queueLength \in Nat
      /\ QueueLimit \in Nat
  BY FileOutputAssumption DEF IInv, TypeOK, Procs
<1>2. ASSUME NEW w \in Writers, PluginWriter(w) PROVE BoundInv'
  BY <1>1, <1>2, GetNameRoom DEF PluginWriter, object
<1>3. CASE \E w \in Writers : WriterStep(w)
  BY <1>1, <1>2, <1>3, UpdateNameRoom, WriteRoom DEF WriterStep
<1>4. CASE FlusherGetName
  BY <1>1, <1>4, GetNameRoom DEF FlusherGetName, object
<1>5. CASE Wake \/ Flush
  <2>1. /\ UNCHANGED <<file, currentName, queueLength, name>>
        /\ pc[Flusher] \in {"idle", "ready"}
        /\ \E at \in {"gone", "awake", "idle"} : pc' = [pc EXCEPT ![Flusher] = at]
    BY <1>5 DEF Wake, Flush, object
  <2>2. InFlight' = InFlight /\ ReadyWriters' = ReadyWriters
    BY <1>1, <2>1 DEF InFlight, ReadyWriters
  <2>. QED BY <1>1, <2>1, <2>2, SameRoom
<1>6. CASE Close \/ UNCHANGED vars
  <2>1. UNCHANGED <<file, currentName, queueLength, name, pc>>
    BY <1>6 DEF Close, vars, object
  <2>2. InFlight' = InFlight /\ ReadyWriters' = ReadyWriters
    BY <2>1 DEF InFlight, ReadyWriters
  <2>. QED BY <1>1, <2>1, <2>2, SameRoom
<1>7. CASE Restart
  <2>1. queueLength' = 0
    BY <1>7 DEF Restart
  <2>. QED BY <1>1, <2>1 DEF BoundInv, Room, NothingOpened
<1>. QED BY <1>1, <1>3, <1>4, <1>5, <1>6, <1>7, UpdateNameRoom DEF Next, FlusherStep

-----------------------------------------------------------------------------
\* The inductive invariant: a full chunk has room, below the bound, for all that the
\* names in flight and the ready writers may bring.
THEOREM RoomIsLeft == Spec => []BoundInv
<1>1. Init => BoundInv
  BY InitRoom
<1>2. IInv /\ BoundInv /\ [Next]_vars => BoundInv'
  BY NextRoom
<1>. QED BY <1>1, <1>2, Invariance, PTL DEF Spec

\* A chunk outgrows QueueLimit by the square of the number of writers at most, however
\* their critical sections, and those of the flusher, interleave.
THEOREM ChunksAreBounded == Spec => []ChunkBound
<1>1. ASSUME IInv, BoundInv PROVE ChunkBound
  <2>1. /\ queueLength \in Nat /\ QueueLimit \in Nat /\ NWriters * NWriters \in Nat
        /\ MayCome \in Nat
    BY <1>1, FileOutputAssumption, Counts, MayComeType DEF IInv, TypeOK
  <2>2. QueueLimit > 0 => queueLength <= QueueLimit + NWriters * NWriters
    BY <1>1, <2>1 DEF BoundInv, Room
  <2>. QED BY <2>2 DEF ChunkBound, NWriters
<1>. QED BY <1>1, RoomIsLeft, Invariance, PTL
=============================================================================
