--------------------------- MODULE RecordingProofs ---------------------------
(***************************************************************************)
(* What a recording keeps, for any traffic, limits and interleaving of the *)
(* copy, the flushers and main.                                            *)
(***************************************************************************)
EXTENDS RecordingProperties, DataLemmas

\* The ids, and what currentID is before one is set.
IdNames == STRING \cup {""}

Names == IdNames \X Nat

Fields == [currentName : Names, file : Names \cup {NoName}, open : BOOLEAN,
           buffer : Seq(Nat), queueLength : Nat, size : Nat, closed : BOOLEAN, id : IdNames]

Places == {"idle", "identified", "awake", "named", "ready", "gone"}

\* The types of the state that TypeOK leaves out.
Typed ==
    /\ DOMAIN files = Outputs
    /\ \A o \in Outputs : /\ DOMAIN files[o] \subseteq Names
                          /\ files[o] \in [DOMAIN files[o] -> Seq(Nat)]
    /\ object \in [Outputs -> Fields]
    /\ pc \in [Outputs -> [Procs -> Places]]
    /\ name \in [Outputs -> [Procs -> Names \cup {NoName}]]
    /\ acked \in [Outputs -> SUBSET Nat] /\ late \in [Outputs -> SUBSET Nat]
    /\ lost \in [Outputs -> SUBSET Nat] /\ misled \subseteq Outputs

\* The files of an id, if there are any, have a newest one.
HasNewest ==
    \A o \in Outputs : \A n \in DOMAIN files[o] :
        \E m \in DOMAIN files[o] :
            /\ m[1] = n[1]
            /\ \A k \in DOMAIN files[o] : k[1] = n[1] => k[2] <= m[2]

\* Who is where: the copy is in the code of the output it writes to, and has a message.
Turns ==
    /\ requestPerFile \in BOOLEAN
    /\ taken \in 0..Len(Traffic)
    /\ copying \in Outputs \cup {"reader", "ended"}
    /\ closes \subseteq Outputs \cup {"input"}
    /\ process \in {"running", "exited", "aborted"}
    /\ copying \in Outputs => 1 <= taken
    /\ process = "exited" => closes = {"input"} \cup Outputs /\ copying = "ended"
    /\ \A o \in Outputs :
         /\ pc[o]["copy"] # "idle" => copying = o
         /\ pc[o]["copy"] \in {"idle", "identified", "named", "ready"}
         /\ pc[o]["flusher"] # "identified"
         /\ pc[o]["copy"] = "identified" => requestPerFile
         /\ \A p \in Procs : pc[o][p] = "named" => name[o][p] # NoName

\* A descriptor is open on a file that there is; until main closes the output, it is
\* open once a file was opened, and nothing is buffered before that.
Descriptor ==
    \A o \in Outputs :
        /\ object[o].file \in DOMAIN files[o] \cup {NoName}
        /\ object[o].open => object[o].file # NoName
        /\ object[o].file = NoName => object[o].buffer = <<>>
        /\ object[o].file # NoName /\ o \notin closes => object[o].open

Base == Typed /\ HasNewest /\ Turns /\ Descriptor

-----------------------------------------------------------------------------
(* The parts of a state that is well typed. *)

\* What stands for no name is not one.
LEMMA NoNameApart == NoName \notin Names
<1>1. ASSUME NEW n \in Names PROVE n[2] \in Nat
  BY DEF Names
<1>2. NoName[2] = -1
  BY DEF NoName
<1>3. -1 \notin Nat
  OBVIOUS
<1>. QED BY <1>1, <1>2, <1>3, Zenon

\* The fields of the object of an output.
LEMMA ObjectTyped ==
    ASSUME Typed, NEW o \in Outputs
    PROVE  /\ object[o].currentName \in Names /\ object[o].file \in Names \cup {NoName}
           /\ object[o].open \in BOOLEAN /\ object[o].buffer \in Seq(Nat)
           /\ object[o].queueLength \in Nat /\ object[o].size \in Nat
           /\ object[o].closed \in BOOLEAN /\ object[o].id \in IdNames
<1>. QED BY DEF Typed, Fields

\* filepath.Glob and sortByFileIndex find the newest file of the current id, and
\* filename() returns it, the next one, or the first one.
LEMMA FilenameIs ==
    ASSUME Base, NEW o \in Outputs
    PROVE  /\ Filename(o) \in Names /\ Filename(o)[1] = object[o].id
           /\ \A n \in DOMAIN files[o] : n[1] = object[o].id => n[2] <= Filename(o)[2]
           /\ Filename(o) \in DOMAIN files[o] => ~ChunkFull(o)
<1>. DEFINE id == object[o].id
            chunks == {n[2] : n \in {f \in DOMAIN files[o] : f[1] = id}}
            newest == CHOOSE i \in chunks : \A j \in chunks : j <= i
            index == IF chunks = {} THEN 0 ELSE IF ChunkFull(o) THEN newest + 1 ELSE newest
<1>1. id \in IdNames /\ DOMAIN files[o] \subseteq Names
  BY ObjectTyped DEF Base, Typed
<1>2. \A n \in DOMAIN files[o] : n[1] = id => n[2] \in chunks
  OBVIOUS
<1>3. \A i \in chunks : i \in Nat /\ <<id, i>> \in DOMAIN files[o]
  <2>1. ASSUME NEW n \in DOMAIN files[o], n[1] = id PROVE n[2] \in Nat /\ <<id, n[2]>> = n
    BY <1>1, <2>1 DEF Names
  <2>. QED BY <2>1
<1>4. Filename(o) = <<id, index>>
  BY DEF Filename
<1>5. CASE chunks = {}
  <2>. HIDE DEF chunks, id
  <2>1. index = 0
    BY <1>5
  <2>2. ~\E n \in DOMAIN files[o] : n[1] = id
    BY <1>2, <1>5
  <2>. HIDE DEF index
  <2>. QED BY <1>1, <1>4, <2>1, <2>2 DEF id, Names
<1>6. CASE chunks # {}
  <2>1. PICK n \in DOMAIN files[o] : n[1] = id
    BY <1>6
  <2>2. PICK m \in DOMAIN files[o] :
          m[1] = n[1] /\ \A k \in DOMAIN files[o] : k[1] = n[1] => k[2] <= m[2]
    BY DEF Base, HasNewest
  <2>3. m[2] \in chunks /\ \A j \in chunks : j <= m[2]
    BY <2>1, <2>2
  <2>. HIDE DEF chunks, id
  <2>4. newest \in chunks /\ \A j \in chunks : j <= newest
    BY <2>3
  <2>. HIDE DEF newest
  <2>5. newest \in Nat
    BY <1>3, <2>4
  <2>6. /\ index \in Nat /\ newest <= index
        /\ index = IF ChunkFull(o) THEN newest + 1 ELSE newest
    BY <1>6, <2>5
  <2>. HIDE DEF index
  <2>7. \A k \in DOMAIN files[o] : k[1] = id => k[2] \in Nat /\ k[2] <= newest
    BY <1>2, <1>3, <2>4
  <2>8. Filename(o)[1] = id /\ Filename(o)[2] = index
    BY <1>4
  <2>9. ASSUME ChunkFull(o) PROVE Filename(o) \notin DOMAIN files[o]
    BY <2>5, <2>6, <2>7, <2>8, <2>9
  <2>10. \A k \in DOMAIN files[o] : k[1] = id => k[2] <= index
    BY <2>5, <2>6, <2>7
  <2>. QED BY <1>1, <1>4, <2>6, <2>8, <2>9, <2>10 DEF id, Names
<1>. QED BY <1>5, <1>6

-----------------------------------------------------------------------------
(* What the steps do to the files and the object of an output. *)

\* A step of output o leaves the others as they are.
OthersSame(o) ==
    \A u \in Outputs \ {o} :
        /\ files'[u] = files[u] /\ object'[u] = object[u]
        /\ pc'[u] = pc[u] /\ name'[u] = name[u]
        /\ acked'[u] = acked[u] /\ late'[u] = late[u] /\ lost'[u] = lost[u]

\* PluginWriter opens another file, and has written content to its buffer.
Reopened(o, content) ==
    /\ Reopens(o)
    /\ files'[o] = [n \in DOMAIN files[o] \cup {object[o].currentName} |->
                       IF n = object[o].currentName THEN <<>> ELSE Flushed(o)[n]]
    /\ object'[o].currentName = object[o].currentName /\ object'[o].id = object[o].id
    /\ object'[o].file = object[o].currentName /\ object'[o].open = TRUE
    /\ object'[o].closed = TRUE /\ object'[o].buffer = content
    /\ object'[o].queueLength = Len(content) /\ object'[o].size = Len(content)

\* It goes on with the open one, whose buffer is handed over up to some place.
Appended(o, content) ==
    /\ ~Reopens(o)
    /\ object'[o].currentName = object[o].currentName /\ object'[o].id = object[o].id
    /\ object'[o].file = object[o].file /\ object'[o].open = object[o].open
    /\ object'[o].closed = object[o].closed
    /\ object'[o].queueLength = object[o].queueLength + Len(content)
    /\ object'[o].size = object[o].size + Len(content)
    /\ \E n \in 0..Len(object[o].buffer \o content) :
         LET held == object[o].buffer \o content
         IN  /\ files'[o] = IF object[o].open
                            THEN [files[o] EXCEPT ![object[o].file] = @ \o SubSeq(held, 1, n)]
                            ELSE files[o]
             /\ object'[o].buffer = SubSeq(held, n + 1, Len(held))

Stored(o, content) == Reopened(o, content) \/ Appended(o, content)

\* What Assemble returns is the message that was read last, or nothing.
LEMMA AssembledIs ==
    ASSUME Base, NEW o \in Outputs
    PROVE  /\ Assembled(o) \in Seq(Nat)
           /\ ToSet(Assembled(o)) = {k \in {taken} : Traffic[k] = o}
<1>1. taken \in Nat
  BY RecordingAssumption DEF Base, Turns
<1>2. CASE Traffic[taken] = o
  BY <1>1, <1>2, ShortSet DEF Assembled
<1>3. CASE Traffic[taken] # o
  BY <1>1, <1>3, ShortSet DEF Assembled
<1>. QED BY <1>2, <1>3

\* flush and closeLocked change the open file only.
LEMMA FlushedIs ==
    ASSUME Base, NEW o \in Outputs
    PROVE  /\ DOMAIN Flushed(o) = DOMAIN files[o]
           /\ Flushed(o) \in [DOMAIN files[o] -> Seq(Nat)]
           /\ \A n \in DOMAIN files[o] :
                Flushed(o)[n] = IF object[o].open /\ n = object[o].file
                                THEN files[o][n] \o object[o].buffer ELSE files[o][n]
           /\ \A n \in DOMAIN files[o] :
                ToSet(Flushed(o)[n]) = ToSet(files[o][n])
                   \cup (IF object[o].open /\ n = object[o].file
                         THEN ToSet(object[o].buffer) ELSE {})
<1>1. files[o] \in [DOMAIN files[o] -> Seq(Nat)] /\ object[o].buffer \in Seq(Nat)
  BY ObjectTyped DEF Base, Typed
<1>2. CASE ~object[o].open
  BY <1>1, <1>2 DEF Flushed
<1>3. CASE object[o].open
  <2>. object[o].file \in DOMAIN files[o]
    BY <1>3 DEF Base, Descriptor
  <2>1. /\ files[o][object[o].file] \o object[o].buffer \in Seq(Nat)
        /\ ToSet(files[o][object[o].file] \o object[o].buffer)
             = ToSet(files[o][object[o].file]) \cup ToSet(object[o].buffer)
    BY <1>1, <1>3, ConcatSet
  <2>2. Flushed(o) = [files[o] EXCEPT ![object[o].file]
                                         = files[o][object[o].file] \o object[o].buffer]
    BY <1>1, <1>3 DEF Flushed
  <2>. QED BY <1>1, <1>3, <2>1, <2>2
<1>. QED BY <1>2, <1>3

\* The writer takes the content and hands over what its buffer had up to some place.
Handed(o, opened, held, after) ==
    /\ after.obj.currentName = opened.obj.currentName /\ after.obj.id = opened.obj.id
    /\ after.obj.file = opened.obj.file /\ after.obj.open = opened.obj.open
    /\ after.obj.closed = opened.obj.closed
    /\ after.obj.queueLength = opened.obj.queueLength + Len(Assembled(o))
    /\ after.obj.size = opened.obj.size + Len(Assembled(o))
    /\ \E n \in 0..(IF Reopens(o) THEN 0 ELSE Len(held)) :
         /\ after.obj.buffer = SubSeq(held, n + 1, Len(held))
         /\ after.fs = IF opened.obj.open
                       THEN [opened.fs EXCEPT ![opened.obj.file] = @ \o SubSeq(held, 1, n)]
                       ELSE opened.fs

LEMMA WroteIs ==
    ASSUME NEW o \in Outputs, NEW opened, opened.obj \in Fields,
           NEW after \in Wrote(o, opened),
           NEW held, held = opened.obj.buffer \o Assembled(o)
    PROVE  Handed(o, opened, held, after)
<1>1. PICK r : r = [opened.obj EXCEPT !.queueLength = @ + Len(Assembled(o)),
                                      !.size = @ + Len(Assembled(o))]
  OBVIOUS
<1>2. /\ r.currentName = opened.obj.currentName /\ r.id = opened.obj.id
      /\ r.file = opened.obj.file /\ r.open = opened.obj.open
      /\ r.closed = opened.obj.closed
      /\ r.queueLength = opened.obj.queueLength + Len(Assembled(o))
      /\ r.size = opened.obj.size + Len(Assembled(o))
      /\ DOMAIN r = DOMAIN opened.obj
  BY <1>1 DEF Fields
<1>3. PICK n \in 0..(IF Reopens(o) THEN 0 ELSE Len(held)) :
        after = [fs  |-> IF r.open THEN [opened.fs EXCEPT ![r.file] = @ \o SubSeq(held, 1, n)]
                         ELSE opened.fs,
                 obj |-> [r EXCEPT !.buffer = SubSeq(held, n + 1, Len(held))]]
  BY <1>1, Zenon DEF Wrote
<1>4. /\ after.obj = [r EXCEPT !.buffer = SubSeq(held, n + 1, Len(held))]
      /\ after.fs = IF r.open THEN [opened.fs EXCEPT ![r.file] = @ \o SubSeq(held, 1, n)]
                    ELSE opened.fs
  BY <1>3
<1>5. DOMAIN r = {"currentName", "file", "open", "buffer", "queueLength", "size", "closed", "id"}
  BY <1>2 DEF Fields
<1>6. /\ after.obj.currentName = r.currentName /\ after.obj.id = r.id
      /\ after.obj.file = r.file /\ after.obj.open = r.open
      /\ after.obj.closed = r.closed /\ after.obj.queueLength = r.queueLength
      /\ after.obj.size = r.size /\ after.obj.buffer = SubSeq(held, n + 1, Len(held))
  BY <1>4, <1>5
<1>7. after.fs = IF opened.obj.open
                 THEN [opened.fs EXCEPT ![opened.obj.file] = @ \o SubSeq(held, 1, n)]
                 ELSE opened.fs
  BY <1>2, <1>4, Zenon
<1>. QED BY <1>2, <1>6, <1>7 DEF Handed

\* The rest of PluginWriter stores what Assemble returned.
LEMMA WriteStores ==
    ASSUME Base, NEW o \in Outputs, Write(o)
    PROVE  Stored(o, Assembled(o)) /\ OthersSame(o)
<1>1. PICK after \in Wrote(o, Opened(o)) :
         /\ files' = [files EXCEPT ![o] = after.fs]
         /\ object' = [object EXCEPT ![o] = after.obj]
  BY DEF Write
<1>2. files'[o] = after.fs /\ object'[o] = after.obj
  BY <1>1 DEF Base, Typed
<1>3. OthersSame(o)
  BY <1>1 DEF Base, Typed, Write, Account, OthersSame
<1>4. CASE Reopens(o)
  <2>. DEFINE c == object[o].currentName
              fs == [n \in DOMAIN files[o] \cup {c} |-> IF n = c THEN <<>> ELSE Flushed(o)[n]]
              content == Assembled(o)
  <2>1. PICK obj : obj = Opened(o).obj
    OBVIOUS
  <2>2. /\ obj \in Fields
        /\ obj.currentName = c /\ obj.id = object[o].id /\ obj.closed = TRUE
        /\ obj.buffer = <<>> /\ obj.open = TRUE /\ obj.file = c
        /\ obj.queueLength = 0 /\ obj.size = 0
        /\ Opened(o).fs = fs
    <3>1. object[o] \in Fields /\ c \in Names
      BY ObjectTyped DEF Base, Typed
    <3>2. obj = [object[o] EXCEPT !.file = c, !.open = TRUE, !.buffer = <<>>,
                                  !.queueLength = 0, !.size = 0, !.closed = TRUE]
      BY <1>4, <2>1 DEF Opened
    <3>3. <<>> \in Seq(Nat)
      OBVIOUS
    <3>4. Opened(o).fs = fs
      BY <1>4 DEF Opened
    <3>. HIDE DEF c, fs
    <3>. QED BY <3>1, <3>2, <3>3, <3>4 DEF Fields, c
  <2>3. content \in Seq(Nat) /\ Len(content) \in Nat
    BY AssembledIs
  <2>4. <<>> \o content = content
    BY <2>3, ConcatEmptySeq
  <2>. HIDE DEF content, fs
  <2>5. /\ after.obj.currentName = c /\ after.obj.id = object[o].id
        /\ after.obj.file = c /\ after.obj.open = TRUE /\ after.obj.closed = TRUE
        /\ after.obj.buffer = SubSeq(content, 1, Len(content))
        /\ after.obj.queueLength = Len(content) /\ after.obj.size = Len(content)
        /\ after.fs = [fs EXCEPT ![c] = fs[c] \o SubSeq(content, 1, 0)]
    <3>1. /\ after.obj.currentName = c /\ after.obj.id = object[o].id
          /\ after.obj.file = c /\ after.obj.open = TRUE /\ after.obj.closed = TRUE
          /\ after.obj.queueLength = 0 + Len(content) /\ after.obj.size = 0 + Len(content)
          /\ \E n \in 0..0 :
                /\ after.obj.buffer = SubSeq(content, n + 1, Len(content))
                /\ after.fs = [fs EXCEPT ![c] = fs[c] \o SubSeq(content, 1, n)]
      <4>1. content = Opened(o).obj.buffer \o Assembled(o) /\ Opened(o).obj \in Fields
        BY <2>1, <2>2, <2>4 DEF content
      <4>2. Handed(o, Opened(o), content, after)
        BY <4>1, WroteIs
      <4>3. \E n \in 0..0 :
                /\ after.obj.buffer = SubSeq(content, n + 1, Len(content))
                /\ after.fs = [fs EXCEPT ![c] = fs[c] \o SubSeq(content, 1, n)]
        <5>. HIDE DEF c
        <5>1. PICK n \in 0..(IF Reopens(o) THEN 0 ELSE Len(content)) :
                /\ after.obj.buffer = SubSeq(content, n + 1, Len(content))
                /\ after.fs = IF Opened(o).obj.open
                              THEN [Opened(o).fs EXCEPT ![Opened(o).obj.file]
                                                           = @ \o SubSeq(content, 1, n)]
                              ELSE Opened(o).fs
          BY <4>2 DEF Handed
        <5>2. Opened(o).obj.open = TRUE /\ Opened(o).obj.file = c /\ Opened(o).fs = fs
          BY <2>1, <2>2
        <5>3. after.fs = [fs EXCEPT ![c] = fs[c] \o SubSeq(content, 1, n)]
          BY <5>1, <5>2
        <5>. QED BY <1>4, <5>1, <5>3
      <4>. QED BY <2>1, <2>2, <4>2, <4>3 DEF content, Handed
    <3>. QED BY <2>3, <3>1
  <2>6. SubSeq(content, 1, Len(content)) = content
    BY <2>3, SubSeqFull
  <2>7. fs[c] \o SubSeq(content, 1, 0) = <<>>
    <3>1. fs[c] = <<>> /\ SubSeq(content, 1, 0) = <<>>
      BY <2>3, SubSeqEmpty DEF fs
    <3>. QED BY <3>1, ConcatEmptySeq, EmptySeq
  <2>8. after.fs = fs
    <3>1. after.fs = [fs EXCEPT ![c] = <<>>]
      BY <2>5, <2>7
    <3>2. fs[c] = <<>> /\ fs = [n \in DOMAIN files[o] \cup {c} |-> fs[n]]
      BY DEF fs
    <3>. QED BY <3>1, <3>2
  <2>9. /\ after.obj.currentName = c /\ after.obj.id = object[o].id
        /\ after.obj.file = c /\ after.obj.open = TRUE /\ after.obj.closed = TRUE
        /\ after.obj.buffer = content
        /\ after.obj.queueLength = Len(content) /\ after.obj.size = Len(content)
    BY <2>5, <2>6
  <2>. QED BY <1>2, <1>3, <1>4, <2>8, <2>9 DEF Stored, Reopened, content, fs
<1>5. CASE ~Reopens(o)
  <2>. DEFINE held == object[o].buffer \o Assembled(o)
  <2>1. Opened(o).fs = files[o] /\ Opened(o).obj = object[o]
    BY <1>5 DEF Opened
  <2>2. object[o] \in Fields
    BY DEF Base, Typed
  <2>3. /\ after.obj.currentName = object[o].currentName /\ after.obj.id = object[o].id
        /\ after.obj.file = object[o].file /\ after.obj.open = object[o].open
        /\ after.obj.closed = object[o].closed
        /\ after.obj.queueLength = object[o].queueLength + Len(Assembled(o))
        /\ after.obj.size = object[o].size + Len(Assembled(o))
        /\ \E n \in 0..Len(held) :
             /\ after.obj.buffer = SubSeq(held, n + 1, Len(held))
             /\ after.fs = IF object[o].open
                           THEN [files[o] EXCEPT ![object[o].file] = @ \o SubSeq(held, 1, n)]
                           ELSE files[o]
    <3>1. held = Opened(o).obj.buffer \o Assembled(o) /\ Opened(o).obj \in Fields
      BY <2>1, <2>2
    <3>. HIDE DEF held
    <3>2. Handed(o, Opened(o), held, after)
      BY <3>1, WroteIs
    <3>. QED BY <1>5, <2>1, <3>2 DEF Handed
  <2>. QED BY <1>2, <1>3, <1>5, <2>3 DEF Stored, Appended
<1>. QED BY <1>4, <1>5

\* When AssembleResponse panics, the file was opened, and nothing was written.
LEMMA WritePanicsStores ==
    ASSUME Base, NEW o \in Outputs, WritePanics(o)
    PROVE  Stored(o, <<>>) /\ OthersSame(o)
<1>1. files'[o] = Opened(o).fs /\ object'[o] = Opened(o).obj
  BY DEF WritePanics, Base, Typed
<1>2. OthersSame(o)
  BY DEF Base, Typed, WritePanics, Account, OthersSame
<1>3. CASE Reopens(o)
  <2>1. /\ files'[o] = [n \in DOMAIN files[o] \cup {object[o].currentName} |->
                           IF n = object[o].currentName THEN <<>> ELSE Flushed(o)[n]]
        /\ object'[o] = [object[o] EXCEPT !.file = object[o].currentName, !.open = TRUE,
                                          !.buffer = <<>>, !.queueLength = 0,
                                          !.size = 0, !.closed = TRUE]
    BY <1>1, <1>3 DEF Opened
  <2>2. /\ object'[o].currentName = object[o].currentName /\ object'[o].id = object[o].id
        /\ object'[o].file = object[o].currentName /\ object'[o].open = TRUE
        /\ object'[o].closed = TRUE /\ object'[o].buffer = <<>>
        /\ object'[o].queueLength = 0 /\ object'[o].size = 0
    BY <2>1 DEF Base, Typed, Fields
  <2>3. Len(<<>>) = 0
    OBVIOUS
  <2>. QED BY <1>2, <1>3, <2>1, <2>2, <2>3 DEF Stored, Reopened
<1>4. CASE ~Reopens(o)
  <2>. DEFINE b == object[o].buffer
  <2>1. b \in Seq(Nat) /\ b \o <<>> = b /\ Len(b) \in Nat /\ Len(<<>>) = 0
    BY ObjectTyped, ConcatEmptySeq DEF Base
  <2>2. SubSeq(b, 0 + 1, Len(b)) = b /\ SubSeq(b, 1, 0) = <<>>
    BY <2>1, SubSeqFull, SubSeqEmpty
  <2>3. files'[o] = files[o] /\ object'[o] = object[o]
    BY <1>1, <1>4 DEF Opened
  <2>4. object[o].queueLength = object[o].queueLength + 0 /\ object[o].size = object[o].size + 0
    BY ObjectTyped DEF Base
  <2>5. object[o].open => files[o] = [files[o] EXCEPT ![object[o].file] = @ \o <<>>]
    <3>. SUFFICES ASSUME object[o].open PROVE files[o] = [files[o] EXCEPT ![object[o].file] = @ \o <<>>]
      OBVIOUS
    <3>1. files[o] \in [DOMAIN files[o] -> Seq(Nat)]
      BY DEF Base, Typed
    <3>2. ASSUME object[o].file \in DOMAIN files[o]
          PROVE  files[o][object[o].file] \o <<>> = files[o][object[o].file]
      BY <3>1, <3>2, ConcatEmptySeq
    <3>. QED BY <3>1, <3>2
  <2>. HIDE DEF b
  <2>6. Appended(o, <<>>)
    <3>1. /\ files'[o] = IF object[o].open
                          THEN [files[o] EXCEPT ![object[o].file] = @ \o SubSeq(b \o <<>>, 1, 0)]
                          ELSE files[o]
          /\ object'[o].buffer = SubSeq(b \o <<>>, 0 + 1, Len(b \o <<>>))
          /\ 0 \in 0..Len(b \o <<>>)
      <4>1. b \o <<>> = b /\ 0 + 1 = 1 /\ 0 \in 0..Len(b)
        BY <2>1
      <4>. HIDE DEF b
      <4>2. SubSeq(b, 0 + 1, Len(b)) = b
        BY <2>2
      <4>3. object'[o].buffer = b
        BY <2>3 DEF b
      <4>4. files'[o] = IF object[o].open THEN [files[o] EXCEPT ![object[o].file] = @ \o <<>>]
                        ELSE files[o]
        BY <2>3, <2>5
      <4>. QED BY <2>2, <4>1, <4>2, <4>3, <4>4
    <3>. QED BY <1>4, <2>1, <2>3, <2>4, <3>1 DEF Appended, b
  <2>. QED BY <1>2, <2>6 DEF Stored
<1>. QED BY <1>3, <1>4

\* What is in the files and in the buffer after that.
LEMMA ReopenedSets ==
    ASSUME Base, NEW o \in Outputs, NEW content \in Seq(Nat), Reopened(o, content)
    PROVE  /\ files'[o] \in [DOMAIN files[o] \cup {object[o].currentName} -> Seq(Nat)]
           /\ ToSet(files'[o][object[o].currentName]) = {}
           /\ \A n \in DOMAIN files[o] \ {object[o].currentName} :
                ToSet(files'[o][n]) = ToSet(files[o][n])
                   \cup (IF object[o].open /\ n = object[o].file
                         THEN ToSet(object[o].buffer) ELSE {})
           /\ object'[o].buffer = content
<1>. DEFINE c == object[o].currentName
<1>1. files'[o] = [n \in DOMAIN files[o] \cup {c} |-> IF n = c THEN <<>> ELSE Flushed(o)[n]]
  BY DEF Reopened
<1>2. /\ Flushed(o) \in [DOMAIN files[o] -> Seq(Nat)]
      /\ \A n \in DOMAIN files[o] :
           ToSet(Flushed(o)[n]) = ToSet(files[o][n])
              \cup (IF object[o].open /\ n = object[o].file
                    THEN ToSet(object[o].buffer) ELSE {})
  BY FlushedIs
<1>3. <<>> \in Seq(Nat) /\ ToSet(<<>>) = {}
  BY ShortSet
<1>4. files'[o] \in [DOMAIN files[o] \cup {c} -> Seq(Nat)]
  BY <1>1, <1>2, <1>3
<1>5. files'[o][c] = <<>> /\ \A n \in DOMAIN files[o] \ {c} : files'[o][n] = Flushed(o)[n]
  BY <1>1
<1>6. object'[o].buffer = content
  BY DEF Reopened
<1>. HIDE DEF c
<1>7. \A n \in DOMAIN files[o] \ {c} :
        ToSet(files'[o][n]) = ToSet(files[o][n])
           \cup (IF object[o].open /\ n = object[o].file
                 THEN ToSet(object[o].buffer) ELSE {})
  BY <1>2, <1>5, Zenon
<1>8. ToSet(files'[o][c]) = {}
  BY <1>3, <1>5, Zenon
<1>. QED BY <1>4, <1>6, <1>7, <1>8, Zenon DEF c

LEMMA AppendedSets ==
    ASSUME Base, NEW o \in Outputs, NEW content \in Seq(Nat), Appended(o, content)
    PROVE  /\ object[o].file \in DOMAIN files[o] /\ object[o].currentName = object[o].file
           /\ files'[o] \in [DOMAIN files[o] -> Seq(Nat)]
           /\ object'[o].buffer \in Seq(Nat)
           /\ \A n \in DOMAIN files[o] :
                \/ files'[o][n] = files[o][n]
                \/ /\ object[o].open /\ n = object[o].file
                   /\ ToSet(files[o][n]) \subseteq ToSet(files'[o][n])
                   /\ ToSet(files'[o][n]) \subseteq ToSet(files[o][n])
                         \cup ToSet(object[o].buffer) \cup ToSet(content)
           /\ ToSet(object'[o].buffer) \subseteq ToSet(object[o].buffer) \cup ToSet(content)
           /\ object[o].open =>
                ToSet(object[o].buffer) \cup ToSet(content)
                   \subseteq ToSet(object'[o].buffer) \cup ToSet(files'[o][object[o].file])
<1>1. PICK held : held = object[o].buffer \o content
  OBVIOUS
<1>2. held \in Seq(Nat) /\ ToSet(held) = ToSet(object[o].buffer) \cup ToSet(content)
  BY <1>1, ObjectTyped, ConcatSet DEF Base
<1>3. PICK n \in 0..Len(held) :
        /\ files'[o] = IF object[o].open
                       THEN [files[o] EXCEPT ![object[o].file] = @ \o SubSeq(held, 1, n)]
                       ELSE files[o]
        /\ object'[o].buffer = SubSeq(held, n + 1, Len(held))
  BY <1>1 DEF Appended
<1>4. PICK ps : ps = SubSeq(held, 1, n)
  OBVIOUS
<1>5. /\ ps \in Seq(Nat) /\ object'[o].buffer \in Seq(Nat)
      /\ ToSet(held) = ToSet(ps) \cup ToSet(object'[o].buffer)
  BY <1>2, <1>3, <1>4, SplitSet
<1>6. object[o].file \in DOMAIN files[o] /\ object[o].currentName = object[o].file
  BY DEF Appended, Reopens, Base, Descriptor
<1>7. files[o] \in [DOMAIN files[o] -> Seq(Nat)]
  BY DEF Base, Typed
<1>8. CASE ~object[o].open
  BY <1>2, <1>3, <1>5, <1>6, <1>7, <1>8
<1>9. CASE object[o].open
  <2>. DEFINE f == object[o].file
  <2>1. /\ files[o][f] \o ps \in Seq(Nat)
        /\ ToSet(files[o][f] \o ps) = ToSet(files[o][f]) \cup ToSet(ps)
    BY <1>5, <1>6, <1>7, ConcatSet
  <2>2. files'[o] = [files[o] EXCEPT ![f] = files[o][f] \o ps]
    BY <1>3, <1>4, <1>9
  <2>3. /\ files'[o] \in [DOMAIN files[o] -> Seq(Nat)]
        /\ \A k \in DOMAIN files[o] : k # f => files'[o][k] = files[o][k]
        /\ files'[o][f] = files[o][f] \o ps
    BY <1>6, <1>7, <2>1, <2>2
  <2>. HIDE DEF f
  <2>4. ToSet(files'[o][f]) = ToSet(files[o][f]) \cup ToSet(ps)
    BY <2>1, <2>3, Zenon
  <2>5. f \in DOMAIN files[o] /\ object[o].currentName = f /\ f = object[o].file
    BY <1>6 DEF f
  <2>6. /\ ToSet(ps) \subseteq ToSet(object[o].buffer) \cup ToSet(content)
        /\ ToSet(object'[o].buffer) \subseteq ToSet(object[o].buffer) \cup ToSet(content)
        /\ ToSet(object[o].buffer) \cup ToSet(content)
             \subseteq ToSet(ps) \cup ToSet(object'[o].buffer)
    <3>. DEFINE a == ToSet(object[o].buffer)  b == ToSet(content)  p == ToSet(ps)
                r == ToSet(object'[o].buffer)
    <3>1. a \cup b = p \cup r
      BY <1>2, <1>5, Zenon
    <3>. HIDE DEF a, b, p, r
    <3>2. p \subseteq a \cup b /\ r \subseteq a \cup b /\ a \cup b \subseteq p \cup r
      BY <3>1
    <3>. QED BY <3>2 DEF a, b, p, r
  <2>7. ToSet(files[o][f]) \subseteq ToSet(files'[o][f])
    BY <2>4
  <2>8. ToSet(files'[o][f]) \subseteq ToSet(files[o][f])
           \cup ToSet(object[o].buffer) \cup ToSet(content)
    BY <2>4, <2>6
  <2>9. ToSet(object[o].buffer) \cup ToSet(content)
           \subseteq ToSet(object'[o].buffer) \cup ToSet(files'[o][f])
    BY <2>4, <2>6
  <2>. QED BY <1>5, <1>9, <2>3, <2>5, <2>6, <2>7, <2>8, <2>9, Zenon
<1>. QED BY <1>8, <1>9

\* What flush and closeLocked hand over is in the file that is open.
Drained(o) ==
    /\ files'[o] = Flushed(o)
    /\ object'[o].currentName = object[o].currentName /\ object'[o].id = object[o].id
    /\ object'[o].file \in {object[o].file, NoName} /\ object'[o].buffer = <<>>
    /\ object'[o].queueLength = object[o].queueLength

-----------------------------------------------------------------------------
(* The state stays well typed. *)

LEMMA SetsOfNumbers ==
    ASSUME Base, NEW o \in Outputs
    PROVE  InFiles(files[o]) \subseteq Nat /\ ToSet(object[o].buffer) \subseteq Nat
<1>1. ASSUME NEW s \in Seq(Nat) PROVE ToSet(s) \subseteq Nat
  BY SeqDef DEF ToSet
<1>2. \A n \in DOMAIN files[o] : files[o][n] \in Seq(Nat)
  BY DEF Base, Typed
<1>3. object[o].buffer \in Seq(Nat)
  BY ObjectTyped DEF Base
<1>4. \A n \in DOMAIN files[o] : ToSet(files[o][n]) \subseteq Nat
  BY <1>1, <1>2, Zenon
<1>. QED BY <1>1, <1>3, <1>4 DEF InFiles

LEMMA OpenedTyped ==
    ASSUME Base, NEW o \in Outputs
    PROVE  Opened(o).obj \in Fields
<1>1. object[o] \in Fields /\ object[o].currentName \in Names /\ <<>> \in Seq(Nat)
  BY ObjectTyped DEF Base, Typed
<1>2. CASE Reopens(o)
  <2>1. PICK obj, c : obj = Opened(o).obj /\ c = object[o].currentName
    OBVIOUS
  <2>2. obj = [object[o] EXCEPT !.file = c, !.open = TRUE, !.buffer = <<>>,
                                !.queueLength = 0, !.size = 0, !.closed = TRUE]
    BY <1>2, <2>1 DEF Opened
  <2>3. c \in Names /\ c \in Names \cup {NoName}
    BY <1>1, <2>1
  <2>4. obj \in Fields
    BY <1>1, <2>2, <2>3 DEF Fields
  <2>. QED BY <2>1, <2>4
<1>3. CASE ~Reopens(o)
  BY <1>1, <1>3 DEF Opened
<1>. QED BY <1>2, <1>3

LEMMA WroteTyped ==
    ASSUME NEW o \in Outputs, NEW opened, opened.obj \in Fields, Assembled(o) \in Seq(Nat),
           NEW after \in Wrote(o, opened)
    PROVE  after.obj \in Fields
<1>1. PICK r : r = [opened.obj EXCEPT !.queueLength = @ + Len(Assembled(o)),
                                      !.size = @ + Len(Assembled(o))]
  OBVIOUS
<1>2. PICK held : held = opened.obj.buffer \o Assembled(o)
  OBVIOUS
<1>3. held \in Seq(Nat)
  BY <1>2, ConcatProperties DEF Fields
<1>4. r \in Fields
  <2>1. PICK w, l : w = opened.obj /\ l = Len(Assembled(o))
    OBVIOUS
  <2>2. w \in Fields /\ l \in Nat
    BY <2>1, LenProperties
  <2>3. PICK q, z : q = w.queueLength + l /\ z = w.size + l
    OBVIOUS
  <2>4. q \in Nat /\ z \in Nat
    BY <2>2, <2>3 DEF Fields
  <2>5. r = [w EXCEPT !.queueLength = q, !.size = z]
    BY <1>1, <2>1, <2>3
  <2>. QED BY <2>2, <2>4, <2>5 DEF Fields
<1>5. PICK n \in 0..(IF Reopens(o) THEN 0 ELSE Len(held)) :
        after = [fs  |-> IF r.open THEN [opened.fs EXCEPT ![r.file] = @ \o SubSeq(held, 1, n)]
                         ELSE opened.fs,
                 obj |-> [r EXCEPT !.buffer = SubSeq(held, n + 1, Len(held))]]
  BY <1>1, <1>2, Zenon DEF Wrote
<1>6. SubSeq(held, n + 1, Len(held)) \in Seq(Nat)
  <2>1. n \in 0..Len(held)
    BY <1>3, <1>5, LenProperties
  <2>2. PICK rest : rest = SubSeq(held, n + 1, Len(held))
    OBVIOUS
  <2>. QED BY <1>3, <2>1, <2>2, SplitSet
<1>7. after.obj = [r EXCEPT !.buffer = SubSeq(held, n + 1, Len(held))]
  BY <1>5
<1>. QED BY <1>4, <1>6, <1>7 DEF Fields

\* What a critical section of PluginWriter stores is well typed.
LEMMA StoredTyped ==
    ASSUME Base, NEW o \in Outputs, NEW content \in Seq(Nat), Stored(o, content), OthersSame(o),
           NEW obj, obj \in Fields, NEW fs,
           object' = [object EXCEPT ![o] = obj], files' = [files EXCEPT ![o] = fs]
    PROVE  /\ object' \in [Outputs -> Fields]
           /\ DOMAIN files' = Outputs
           /\ \A u \in Outputs : /\ DOMAIN files'[u] \subseteq Names
                                 /\ files'[u] \in [DOMAIN files'[u] -> Seq(Nat)]
<1>1. object' \in [Outputs -> Fields] /\ DOMAIN files' = Outputs
  BY DEF Base, Typed
<1>2. object[o].currentName \in Names
  BY ObjectTyped DEF Base
<1>3. DOMAIN files'[o] \subseteq Names /\ files'[o] \in [DOMAIN files'[o] -> Seq(Nat)]
  <2>1. DOMAIN files[o] \subseteq Names
    BY DEF Base, Typed
  <2>2. CASE Reopened(o, content)
    <3>1. files'[o] \in [DOMAIN files[o] \cup {object[o].currentName} -> Seq(Nat)]
      BY <2>2, ReopenedSets
    <3>. QED BY <1>2, <2>1, <3>1
  <2>3. CASE Appended(o, content)
    BY <2>1, <2>3, AppendedSets
  <2>. QED BY <2>2, <2>3 DEF Stored
<1>4. \A u \in Outputs \ {o} : /\ DOMAIN files'[u] \subseteq Names
                               /\ files'[u] \in [DOMAIN files'[u] -> Seq(Nat)]
  BY DEF OthersSame, Base, Typed
<1>. QED BY <1>1, <1>3, <1>4

LEMMA AccountTyped ==
    ASSUME Base, NEW o \in Outputs, NEW written \in Seq(Nat), Account(o, written)
    PROVE  /\ acked' \in [Outputs -> SUBSET Nat] /\ late' \in [Outputs -> SUBSET Nat]
           /\ lost' \in [Outputs -> SUBSET Nat] /\ misled' \subseteq Outputs
<1>1. ToSet(written) \subseteq Nat
  BY SeqDef DEF ToSet
<1>2. InFiles(files[o]) \ InFiles(files'[o]) \subseteq Nat
  BY SetsOfNumbers
<1>. HIDE DEF InFiles
<1>. QED BY <1>1, <1>2 DEF Account, Base, Typed

LEMMA WriteTyped ==
    ASSUME Base, NEW o \in Outputs, Write(o) \/ WritePanics(o)
    PROVE  Typed'
<1>1. Assembled(o) \in Seq(Nat) /\ <<>> \in Seq(Nat)
  BY AssembledIs
<1>2. Opened(o).obj \in Fields
  BY OpenedTyped
<1>3. CASE Write(o)
  <2>1. PICK after \in Wrote(o, Opened(o)) :
           /\ files' = [files EXCEPT ![o] = after.fs]
           /\ object' = [object EXCEPT ![o] = after.obj]
    BY <1>3 DEF Write
  <2>2. after.obj \in Fields
    BY <1>1, <1>2, WroteTyped
  <2>3. Stored(o, Assembled(o)) /\ OthersSame(o)
    BY <1>3, WriteStores
  <2>4. PICK content : content = Assembled(o)
    OBVIOUS
  <2>5. /\ object' \in [Outputs -> Fields]
        /\ DOMAIN files' = Outputs
        /\ \A u \in Outputs : /\ DOMAIN files'[u] \subseteq Names
                              /\ files'[u] \in [DOMAIN files'[u] -> Seq(Nat)]
    BY <1>1, <2>1, <2>2, <2>3, StoredTyped
  <2>6. pc' \in [Outputs -> [Procs -> Places]] /\ name' = name
    BY <1>3 DEF Write, Base, Typed, Places, Procs
  <2>7. Account(o, Assembled(o))
    BY <1>3 DEF Write
  <2>8. /\ acked' \in [Outputs -> SUBSET Nat] /\ late' \in [Outputs -> SUBSET Nat]
        /\ lost' \in [Outputs -> SUBSET Nat] /\ misled' \subseteq Outputs
    BY <1>1, <2>7, AccountTyped
  <2>. QED BY <2>5, <2>6, <2>8, Zenon DEF Typed, Base
<1>4. CASE WritePanics(o)
  <2>1. Stored(o, <<>>) /\ OthersSame(o)
    BY <1>4, WritePanicsStores
  <2>2. /\ object' \in [Outputs -> Fields]
        /\ DOMAIN files' = Outputs
        /\ \A u \in Outputs : /\ DOMAIN files'[u] \subseteq Names
                              /\ files'[u] \in [DOMAIN files'[u] -> Seq(Nat)]
    <3>1. files' = [files EXCEPT ![o] = Opened(o).fs] /\ object' = [object EXCEPT ![o] = Opened(o).obj]
      BY <1>4 DEF WritePanics
    <3>. QED BY <1>1, <1>2, <2>1, <3>1, StoredTyped
  <2>3. pc' = pc /\ name' = name /\ Account(o, <<>>)
    BY <1>4 DEF WritePanics
  <2>4. /\ acked' \in [Outputs -> SUBSET Nat] /\ late' \in [Outputs -> SUBSET Nat]
        /\ lost' \in [Outputs -> SUBSET Nat] /\ misled' \subseteq Outputs
    BY <1>1, <2>3, AccountTyped
  <2>. QED BY <2>2, <2>3, <2>4, Zenon DEF Typed, Base
<1>. QED BY <1>3, <1>4

\* flush and closeLocked leave the names as they are.
LEMMA DrainSteps ==
    ASSUME Base, NEW o \in Outputs, Flush(o) \/ CloseOutput(o)
    PROVE  /\ Typed' /\ Drained(o) /\ OthersSame(o)
           /\ object'[o].file = object[o].file
           /\ Flush(o) => object'[o].open = object[o].open
           /\ CloseOutput(o) => object'[o].open = FALSE
<1>1. object[o] \in Fields /\ <<>> \in Seq(Nat)
  BY DEF Base, Typed
<1>2. DOMAIN Flushed(o) = DOMAIN files[o] /\ Flushed(o) \in [DOMAIN files[o] -> Seq(Nat)]
  BY FlushedIs
<1>3. files' = [files EXCEPT ![o] = Flushed(o)]
  BY DEF Flush, CloseOutput
<1>4. PICK size : size \in Nat /\ (Flush(o) =>
          object' = [object EXCEPT ![o].buffer = <<>>, ![o].size = size])
  <2>1. CASE object[o].open
    <3>1. object[o].file \in DOMAIN files[o]
      BY <2>1 DEF Base, Descriptor
    <3>2. Len(Flushed(o)[object[o].file]) \in Nat
      BY <1>2, <3>1, LenProperties
    <3>. QED BY <2>1, <3>2 DEF Flush
  <2>2. CASE ~object[o].open
    BY <2>2, ObjectTyped DEF Flush, Base, Typed
  <2>. QED BY <2>1, <2>2
<1>5. PICK obj : /\ object' = [object EXCEPT ![o] = obj]
                 /\ Flush(o) => obj = [object[o] EXCEPT !.buffer = <<>>, !.size = size]
                 /\ ~Flush(o) => obj = [object[o] EXCEPT !.buffer = <<>>, !.open = FALSE,
                                                         !.closed = TRUE, !.size = 0]
  <2>1. CASE Flush(o)
    BY <1>4, <2>1
  <2>2. CASE ~Flush(o)
    <3>1. object' = [object EXCEPT ![o] = [object[o] EXCEPT !.buffer = <<>>, !.open = FALSE,
                                                            !.closed = TRUE, !.size = 0]]
      BY <2>2 DEF CloseOutput
    <3>. QED BY <2>2, <3>1
  <2>. QED BY <2>1, <2>2
<1>6. /\ obj \in Fields
      /\ obj.currentName = object[o].currentName /\ obj.id = object[o].id
      /\ obj.file = object[o].file /\ obj.buffer = <<>>
      /\ obj.queueLength = object[o].queueLength
      /\ obj.open = IF Flush(o) THEN object[o].open ELSE FALSE
  <2>1. CASE Flush(o)
    BY <1>1, <1>4, <1>5, <2>1 DEF Fields
  <2>2. CASE ~Flush(o)
    <3>1. obj = [object[o] EXCEPT !.buffer = <<>>, !.open = FALSE, !.closed = TRUE, !.size = 0]
      BY <1>5, <2>2
    <3>. QED BY <1>1, <2>2, <3>1 DEF Fields
  <2>. QED BY <2>1, <2>2
<1>7. object' \in [Outputs -> Fields] /\ object'[o] = obj
  BY <1>5, <1>6 DEF Base, Typed
<1>8. Drained(o)
  BY <1>3, <1>6, <1>7 DEF Drained, Base, Typed
<1>9. /\ DOMAIN files' = Outputs
      /\ \A u \in Outputs : /\ DOMAIN files'[u] \subseteq Names
                            /\ files'[u] \in [DOMAIN files'[u] -> Seq(Nat)]
  <2>1. DOMAIN files' = Outputs /\ files'[o] = Flushed(o)
        /\ \A u \in Outputs \ {o} : files'[u] = files[u]
    BY <1>3 DEF Base, Typed
  <2>. QED BY <1>2, <2>1 DEF Base, Typed
<1>10. pc' \in [Outputs -> [Procs -> Places]] /\ \A u \in Outputs \ {o} : pc'[u] = pc[u]
  <2>1. CASE Flush(o)
    <3>1. pc' = [pc EXCEPT ![o]["flusher"] = "idle"]
      BY <2>1 DEF Flush
    <3>. QED BY <3>1 DEF Base, Typed, Places, Procs
  <2>2. CASE CloseOutput(o)
    BY <2>2 DEF CloseOutput, Base, Typed
  <2>. QED BY <2>1, <2>2
<1>11. UNCHANGED <<name, acked, late, lost, misled>>
  BY DEF Flush, CloseOutput, history
<1>12. OthersSame(o)
  BY <1>3, <1>5, <1>10, <1>11 DEF OthersSame, Base, Typed
<1>13. Typed'
  BY <1>7, <1>9, <1>10, <1>11, Zenon DEF Typed, Base
<1>14. (Flush(o) => object'[o].open = object[o].open) /\ (CloseOutput(o) => object'[o].open = FALSE)
  <2>1. Flush(o) => ~CloseOutput(o)
    BY DEF Flush, CloseOutput, Base, Turns, Outputs
  <2>. QED BY <1>6, <1>7, <2>1
<1>. QED BY <1>6, <1>7, <1>8, <1>12, <1>13, <1>14

\* When the next file cannot be opened, the old one was flushed, and is closed.
LEMMA OpenFailsSteps ==
    ASSUME Base, NEW o \in Outputs, OpenFails(o)
    PROVE  /\ Typed' /\ Drained(o) /\ OthersSame(o)
           /\ object'[o].open = FALSE /\ object'[o].file = NoName
<1>1. object[o] \in Fields /\ <<>> \in Seq(Nat)
  BY DEF Base, Typed
<1>2. DOMAIN Flushed(o) = DOMAIN files[o] /\ Flushed(o) \in [DOMAIN files[o] -> Seq(Nat)]
  BY FlushedIs
<1>3. files' = [files EXCEPT ![o] = Flushed(o)]
  BY DEF OpenFails
<1>4. PICK none : none = NoName
  OBVIOUS
<1>5. PICK obj : obj = [object[o] EXCEPT !.buffer = <<>>, !.file = none, !.open = FALSE,
                                         !.closed = TRUE, !.size = 0]
  OBVIOUS
<1>6. object' = [object EXCEPT ![o] = obj]
  BY <1>4, <1>5 DEF OpenFails
<1>7. /\ obj \in Fields
      /\ obj.currentName = object[o].currentName /\ obj.id = object[o].id
      /\ obj.file = none /\ obj.buffer = <<>> /\ obj.open = FALSE
      /\ obj.queueLength = object[o].queueLength
  BY <1>1, <1>4, <1>5 DEF Fields
<1>8. object' \in [Outputs -> Fields] /\ object'[o] = obj
  BY <1>6, <1>7 DEF Base, Typed
<1>9. Drained(o)
  BY <1>3, <1>4, <1>7, <1>8 DEF Drained, Base, Typed
<1>10. /\ DOMAIN files' = Outputs
       /\ \A u \in Outputs : /\ DOMAIN files'[u] \subseteq Names
                             /\ files'[u] \in [DOMAIN files'[u] -> Seq(Nat)]
  <2>1. DOMAIN files' = Outputs /\ files'[o] = Flushed(o)
        /\ \A u \in Outputs \ {o} : files'[u] = files[u]
    BY <1>3 DEF Base, Typed
  <2>. QED BY <1>2, <2>1 DEF Base, Typed
<1>11. UNCHANGED <<pc, name, acked, late, lost, misled>>
  BY DEF OpenFails, history
<1>12. OthersSame(o)
  BY <1>3, <1>6, <1>11 DEF OthersSame, Base, Typed
<1>13. Typed'
  BY <1>8, <1>10, <1>11, Zenon DEF Typed, Base
<1>. QED BY <1>4, <1>7, <1>8, <1>9, <1>12, <1>13

\* A step that leaves the files and what the objects hold.
Quiet ==
    /\ files' = files
    /\ acked' = acked /\ late' = late /\ lost' = lost /\ misled' = misled
    /\ \A u \in Outputs :
         /\ object'[u].file = object[u].file /\ object'[u].open = object[u].open
         /\ object'[u].buffer = object[u].buffer
         /\ object'[u].queueLength = object[u].queueLength
         /\ object'[u].size = object[u].size /\ object'[u].closed = object[u].closed

\* The name of a message's file is a name.
LEMMA IdOfTaken ==
    ASSUME Base, copying \in Outputs
    PROVE  Ids[taken] \in IdNames /\ taken \in 1..Len(Traffic)
<1>1. taken \in 1..Len(Traffic)
  BY RecordingAssumption, LenProperties DEF Base, Turns
<1>2. Ids[taken] \in STRING
  BY <1>1, RecordingAssumption, ElementOfSeq
<1>. QED BY <1>1, <1>2 DEF IdNames

LEMMA SetIDSteps ==
    ASSUME Base, NEW o \in Outputs, SetID(o)
    PROVE  /\ Typed' /\ Quiet /\ OthersSame(o) /\ name' = name
           /\ object'[o].currentName = object[o].currentName /\ object'[o].id = Ids[taken]
<1>1. Ids[taken] \in IdNames
  BY IdOfTaken DEF SetID
<1>2. PICK id, obj : id = Ids[taken] /\ obj = [object[o] EXCEPT !.id = id]
  OBVIOUS
<1>3. object[o] \in Fields /\ id \in IdNames
  BY <1>1, <1>2 DEF Base, Typed
<1>4. /\ obj \in Fields /\ obj.id = id
      /\ obj.file = object[o].file /\ obj.open = object[o].open
      /\ obj.buffer = object[o].buffer /\ obj.queueLength = object[o].queueLength
      /\ obj.size = object[o].size /\ obj.closed = object[o].closed
      /\ obj.currentName = object[o].currentName
  BY <1>2, <1>3 DEF Fields
<1>5. object' = [object EXCEPT ![o] = obj]
  BY <1>2 DEF SetID
<1>6. object' \in [Outputs -> Fields] /\ object'[o] = obj
      /\ \A u \in Outputs \ {o} : object'[u] = object[u]
  BY <1>4, <1>5 DEF Base, Typed
<1>7. pc' = [pc EXCEPT ![o]["copy"] = "identified"] /\ UNCHANGED <<files, name, history>>
  BY DEF SetID
<1>8. pc' \in [Outputs -> [Procs -> Places]] /\ \A u \in Outputs \ {o} : pc'[u] = pc[u]
  BY <1>7 DEF Base, Typed, Places, Procs
<1>9. Typed'
  BY <1>6, <1>7, <1>8 DEF Base, Typed, history
<1>10. Quiet
  BY <1>4, <1>6, <1>7 DEF Quiet, history
<1>11. OthersSame(o)
  BY <1>6, <1>7, <1>8 DEF OthersSame, history
<1>. QED BY <1>2, <1>4, <1>6, <1>7, <1>9, <1>10, <1>11

LEMMA GetNameSteps ==
    ASSUME Base, NEW o \in Outputs, NEW p \in Procs, NEW from, GetName(o, p, from)
    PROVE  /\ Typed' /\ Quiet /\ OthersSame(o) /\ object' = object
           /\ name'[o][p] = Filename(o) /\ \A q \in Procs \ {p} : name'[o][q] = name[o][q]
<1>1. Filename(o) \in Names
  BY FilenameIs
<1>2. /\ name' = [name EXCEPT ![o][p] = Filename(o)]
      /\ pc' = [pc EXCEPT ![o][p] = "named"]
      /\ UNCHANGED <<files, object, history>>
  BY DEF GetName
<1>3. PICK n : n = Filename(o)
  OBVIOUS
<1>4. /\ name' \in [Outputs -> [Procs -> Names \cup {NoName}]] /\ name'[o][p] = n
      /\ \A q \in Procs \ {p} : name'[o][q] = name[o][q]
      /\ \A u \in Outputs \ {o} : name'[u] = name[u]
  BY <1>1, <1>2, <1>3 DEF Base, Typed
<1>5. pc' \in [Outputs -> [Procs -> Places]] /\ \A u \in Outputs \ {o} : pc'[u] = pc[u]
  BY <1>2 DEF Base, Typed, Places
<1>6. Typed'
  BY <1>2, <1>4, <1>5, Zenon DEF Base, Typed, history
<1>7. Quiet
  BY <1>2, Zenon DEF Quiet, history
<1>8. OthersSame(o)
  BY <1>2, <1>4, <1>5, Zenon DEF OthersSame, history
<1>. QED BY <1>2, <1>3, <1>4, <1>6, <1>7, <1>8, Zenon

LEMMA UpdateNameSteps ==
    ASSUME Base, NEW o \in Outputs, NEW p \in Procs, UpdateName(o, p)
    PROVE  /\ Typed' /\ Quiet /\ OthersSame(o) /\ name' = name
           /\ object'[o].currentName = name[o][p] /\ object'[o].id = object[o].id
           /\ name[o][p] \in Names
<1>1. name[o][p] \in Names
  BY DEF UpdateName, Base, Turns, Typed
<1>2. PICK n, obj : n = name[o][p] /\ obj = [object[o] EXCEPT !.currentName = n]
  OBVIOUS
<1>3. object[o] \in Fields /\ n \in Names
  BY <1>1, <1>2 DEF Base, Typed
<1>4. /\ obj \in Fields /\ obj.id = object[o].id
      /\ obj.file = object[o].file /\ obj.open = object[o].open
      /\ obj.buffer = object[o].buffer /\ obj.queueLength = object[o].queueLength
      /\ obj.size = object[o].size /\ obj.closed = object[o].closed
      /\ obj.currentName = n
  BY <1>2, <1>3 DEF Fields
<1>5. object' = [object EXCEPT ![o] = obj]
  BY <1>2 DEF UpdateName
<1>6. object' \in [Outputs -> Fields] /\ object'[o] = obj
      /\ \A u \in Outputs \ {o} : object'[u] = object[u]
  BY <1>4, <1>5 DEF Base, Typed
<1>7. pc' = [pc EXCEPT ![o][p] = "ready"] /\ UNCHANGED <<files, name, history>>
  BY DEF UpdateName
<1>8. pc' \in [Outputs -> [Procs -> Places]] /\ \A u \in Outputs \ {o} : pc'[u] = pc[u]
  BY <1>7 DEF Base, Typed, Places
<1>9. Typed'
  BY <1>6, <1>7, <1>8 DEF Base, Typed, history
<1>10. Quiet
  BY <1>4, <1>6, <1>7 DEF Quiet, history
<1>11. OthersSame(o)
  BY <1>6, <1>7, <1>8 DEF OthersSame, history
<1>. QED BY <1>1, <1>2, <1>4, <1>6, <1>7, <1>9, <1>10, <1>11

LEMMA WakeSteps ==
    ASSUME Base, NEW o \in Outputs, Wake(o)
    PROVE  Typed' /\ Quiet /\ OthersSame(o) /\ object' = object /\ name' = name
<1>1. /\ \E place \in Places : pc' = [pc EXCEPT ![o]["flusher"] = place]
      /\ UNCHANGED <<files, object, name, history>>
  BY DEF Wake, Places
<1>2. pc' \in [Outputs -> [Procs -> Places]] /\ \A u \in Outputs \ {o} : pc'[u] = pc[u]
  BY <1>1 DEF Base, Typed, Procs
<1>3. Typed'
  BY <1>1, <1>2 DEF Base, Typed, history
<1>. QED BY <1>1, <1>2, <1>3 DEF Quiet, OthersSame, history

\* The steps of the reader and of main that are about no output.
Plain == Read \/ ReadStopped \/ CloseInput \/ Exit

LEMMA PlainSteps ==
    ASSUME Base, Plain
    PROVE  /\ Typed' /\ Quiet /\ object' = object /\ pc' = pc /\ name' = name
           /\ requestPerFile' = requestPerFile
<1>1. UNCHANGED <<requestPerFile, files, object, pc, name, history>>
  BY DEF Plain, Read, ReadStopped, CloseInput, Exit
<1>2. Typed'
  BY <1>1 DEF Base, Typed, history
<1>. QED BY <1>1, <1>2 DEF Quiet, history

-----------------------------------------------------------------------------
(* Turns *)

LEMMA TurnsStep ==
    ASSUME Base, process = "running",
           \/ Plain
           \/ \E o \in Outputs : \/ PluginWriter(o) \/ FlusherOf(o) \/ CloseOutput(o)
    PROVE  Turns'
<1>1. CASE Plain
  <2>1. Len(Traffic) \in Nat
    BY RecordingAssumption, LenProperties
  <2>. USE DEF Base, Turns, Outputs
  <2>2. CASE Read
    BY <2>1, <2>2 DEF Read
  <2>3. CASE ReadStopped
    BY <2>3 DEF ReadStopped
  <2>4. CASE CloseInput
    BY <2>4 DEF CloseInput
  <2>5. CASE Exit
    BY <2>5 DEF Exit
  <2>. QED BY <1>1, <2>2, <2>3, <2>4, <2>5 DEF Plain
<1>2. ASSUME NEW o \in Outputs, PluginWriter(o) \/ FlusherOf(o) \/ CloseOutput(o)
      PROVE  Turns'
  <2>. USE DEF Base, Typed, Turns, Outputs, Procs
  <2>1. CASE SetID(o)
    BY <2>1 DEF SetID
  <2>2. ASSUME NEW p \in Procs, NEW from, GetName(o, p, from),
               p = "copy" => copying = o
        PROVE Turns'
    <3>1. name'[o][p] # NoName /\ \A q \in Procs \ {p} : name'[o][q] = name[o][q]
      BY <2>2, GetNameSteps, FilenameIs, NoNameApart
    <3>2. \A u \in Outputs \ {o} : name'[u] = name[u] /\ pc'[u] = pc[u]
      BY <2>2, GetNameSteps DEF OthersSame
    <3>3. pc'[o][p] = "named" /\ \A q \in Procs \ {p} : pc'[o][q] = pc[o][q]
      BY <2>2 DEF GetName
    <3>4. UNCHANGED <<requestPerFile, taken, copying, closes, process>>
      BY <2>2 DEF GetName
    <3>. QED BY <2>2, <3>1, <3>2, <3>3, <3>4
  <2>3. CASE WriterGetsName(o)
    BY <2>2, <2>3 DEF WriterGetsName
  <2>4. CASE GetName(o, "flusher", "awake")
    BY <2>2, <2>4
  <2>5. ASSUME NEW p \in Procs, UpdateName(o, p) PROVE Turns'
    BY <2>5 DEF UpdateName
  <2>6. CASE Write(o)
    BY <2>6 DEF Write
  <2>7. CASE WritePanics(o)
    BY <2>7 DEF WritePanics
  <2>11. CASE OpenFails(o)
    BY <2>11 DEF OpenFails
  <2>8. CASE Wake(o)
    BY <2>8 DEF Wake
  <2>9. CASE Flush(o)
    BY <2>9 DEF Flush
  <2>10. CASE CloseOutput(o)
    BY <2>10 DEF CloseOutput
  <2>. QED BY <1>2, <2>1, <2>3, <2>4, <2>5, <2>6, <2>7, <2>8, <2>9, <2>10, <2>11
           DEF PluginWriter, FlusherOf
<1>. QED BY <1>1, <1>2

-----------------------------------------------------------------------------
(* Base is inductive. *)

LEMMA QuietKeeps ==
    ASSUME Base, Quiet
    PROVE  HasNewest' /\ ((closes \subseteq closes') => Descriptor')
<1>. QED BY DEF Base, Quiet, HasNewest, Descriptor

LEMMA StoredKeeps ==
    ASSUME Base, NEW o \in Outputs, NEW content \in Seq(Nat), Stored(o, content),
           OthersSame(o), closes' = closes
    PROVE  HasNewest' /\ Descriptor'
<1>1. \A u \in Outputs \ {o} : files'[u] = files[u] /\ object'[u] = object[u]
  BY DEF OthersSame
<1>2. CASE Reopened(o, content)
  <2>. DEFINE c == object[o].currentName
  <2>1. DOMAIN files'[o] = DOMAIN files[o] \cup {c}
    BY <1>2, ReopenedSets
  <2>2. c \in Names /\ DOMAIN files[o] \subseteq Names
    BY ObjectTyped DEF Base, Typed
  <2>3. ASSUME NEW n \in DOMAIN files'[o]
        PROVE  \E m \in DOMAIN files'[o] :
                  /\ m[1] = n[1]
                  /\ \A k \in DOMAIN files'[o] : k[1] = n[1] => k[2] <= m[2]
    <3>. HIDE DEF c
    <3>1. \A k \in DOMAIN files'[o] : k[2] \in Nat
      BY <2>1, <2>2 DEF Names
    <3>2. CASE \A k \in DOMAIN files[o] : k[1] # n[1]
      <4>1. n = c
        BY <2>1, <2>3, <3>2
      <4>. QED BY <2>1, <2>3, <3>1, <3>2, <4>1
    <3>3. CASE \E k \in DOMAIN files[o] : k[1] = n[1]
      <4>1. PICK m \in DOMAIN files[o] :
              m[1] = n[1] /\ \A k \in DOMAIN files[o] : k[1] = n[1] => k[2] <= m[2]
        BY <3>3 DEF Base, HasNewest
      <4>2. CASE c[1] = n[1] /\ m[2] <= c[2]
        <5>1. \A k \in DOMAIN files'[o] : k[1] = n[1] => k[2] <= c[2]
          BY <2>1, <3>1, <4>1, <4>2
        <5>. QED BY <2>1, <4>2, <5>1
      <4>3. CASE ~(c[1] = n[1] /\ m[2] <= c[2])
        <5>1. \A k \in DOMAIN files'[o] : k[1] = n[1] => k[2] <= m[2]
          BY <2>1, <3>1, <4>1, <4>3
        <5>. QED BY <2>1, <4>1, <5>1
      <4>. QED BY <4>2, <4>3
    <3>. QED BY <3>2, <3>3
  <2>4. HasNewest'
    BY <1>1, <2>3 DEF Base, HasNewest
  <2>5. object'[o].file = c /\ object'[o].open = TRUE /\ c # NoName
    BY <1>2, <2>2, NoNameApart DEF Reopened
  <2>. HIDE DEF c
  <2>6. Descriptor'
    BY <1>1, <2>1, <2>5 DEF Base, Descriptor
  <2>. QED BY <2>4, <2>6
<1>3. CASE Appended(o, content)
  <2>1. object[o].file \in DOMAIN files[o] /\ DOMAIN files'[o] = DOMAIN files[o]
    BY <1>3, AppendedSets
  <2>2. object[o].file # NoName
    BY <2>1, NoNameApart DEF Base, Typed
  <2>3. object'[o].file = object[o].file /\ object'[o].open = object[o].open
    BY <1>3 DEF Appended
  <2>4. HasNewest'
    BY <1>1, <2>1 DEF Base, HasNewest
  <2>5. Descriptor'
    BY <1>1, <2>1, <2>2, <2>3 DEF Base, Descriptor
  <2>. QED BY <2>4, <2>5
<1>. QED BY <1>2, <1>3 DEF Stored

LEMMA DrainKeeps ==
    ASSUME Base, NEW o \in Outputs, Flush(o) \/ CloseOutput(o) \/ OpenFails(o)
    PROVE  HasNewest' /\ Descriptor'
<1>1. \A u \in Outputs \ {o} : files'[u] = files[u] /\ object'[u] = object[u]
  BY DrainSteps, OpenFailsSteps DEF OthersSame
<1>2. /\ DOMAIN files'[o] = DOMAIN files[o]
      /\ object'[o].file \in {object[o].file, NoName} /\ object'[o].buffer = <<>>
  BY DrainSteps, OpenFailsSteps, FlushedIs DEF Drained
<1>3. HasNewest'
  <2>1. \A u \in Outputs : DOMAIN files'[u] = DOMAIN files[u]
    BY <1>1, <1>2
  <2>. QED BY <2>1 DEF Base, HasNewest
<1>4. /\ Flush(o) => object'[o].open = object[o].open /\ closes' = closes
      /\ CloseOutput(o) => object'[o].open = FALSE /\ closes' = closes \cup {o}
      /\ OpenFails(o) => object'[o].open = FALSE /\ object'[o].file = NoName /\ closes' = closes
      /\ ~OpenFails(o) => object'[o].file = object[o].file
  BY DrainSteps, OpenFailsSteps DEF Flush, CloseOutput, OpenFails
<1>5. Descriptor'
  BY <1>1, <1>2, <1>4 DEF Base, Descriptor
<1>. QED BY <1>3, <1>5

LEMMA BaseInit ==
    ASSUME Init
    PROVE  Base
<1>0. <<>> \in Seq(Nat) /\ "" \in IdNames
  BY DEF IdNames
<1>1. <<"", 0>> \in Names
  <2>1. PICK e : e = ""
    OBVIOUS
  <2>2. e \in IdNames
    BY <1>0, <2>1
  <2>3. <<e, 0>> \in IdNames \X Nat
    BY <2>2
  <2>. QED BY <2>1, <2>3 DEF Names
<1>2. NewObject \in Fields
  <2>1. PICK n, b, z : n = <<"", 0>> /\ b = <<>> /\ z = NoName
    OBVIOUS
  <2>2. NewObject = [currentName |-> n, file |-> z, open |-> FALSE, buffer |-> b,
                     queueLength |-> 0, size |-> 0, closed |-> FALSE, id |-> ""]
    BY <2>1 DEF NewObject
  <2>3. Fields = [currentName : Names, file : Names \cup {z}, open : BOOLEAN,
                  buffer : Seq(Nat), queueLength : Nat, size : Nat, closed : BOOLEAN,
                  id : IdNames]
    BY <2>1 DEF Fields
  <2>4. n \in Names /\ b \in Seq(Nat)
    BY <1>0, <1>1, <2>1
  <2>5. PICK e : e = "" /\ e \in IdNames
    BY <1>0
  <2>6. NewObject = [currentName |-> n, file |-> z, open |-> FALSE, buffer |-> b,
                     queueLength |-> 0, size |-> 0, closed |-> FALSE, id |-> e]
    BY <2>2, <2>5
  <2>7. NewObject \in [currentName : Names, file : Names \cup {z}, open : BOOLEAN,
                  buffer : Seq(Nat), queueLength : Nat, size : Nat, closed : BOOLEAN,
                  id : IdNames]
    BY <2>4, <2>5, <2>6
  <2>. QED BY <2>3, <2>7
<1>3. Typed
  BY <1>0, <1>1, <1>2 DEF Init, Typed, Outputs, Procs, Places
<1>4. HasNewest
  BY DEF Init, HasNewest
<1>5. Turns
  BY RecordingAssumption, LenProperties DEF Init, Turns, Outputs, Procs
<1>6. Descriptor
  BY DEF Init, Descriptor, NewObject
<1>. QED BY <1>3, <1>4, <1>5, <1>6 DEF Base

LEMMA BaseNext ==
    ASSUME Base, Next
    PROVE  Base'
<1>1. CASE Plain
  <2>1. Turns'
    BY <1>1, TurnsStep DEF Next
  <2>2. closes \subseteq closes'
    BY <1>1 DEF Plain, Read, ReadStopped, CloseInput, Exit
  <2>. QED BY <1>1, <2>1, <2>2, PlainSteps, QuietKeeps DEF Base
<1>2. ASSUME NEW o \in Outputs, PluginWriter(o) \/ FlusherOf(o) \/ CloseOutput(o)
      PROVE  Base'
  <2>1. Turns'
    BY <1>2, TurnsStep DEF Next
  <2>2. CASE Write(o)
    <3>1. Stored(o, Assembled(o)) /\ OthersSame(o) /\ Typed' /\ Assembled(o) \in Seq(Nat)
      BY <2>2, WriteStores, WriteTyped, AssembledIs
    <3>2. closes' = closes
      BY <2>2 DEF Write
    <3>. QED BY <2>1, <3>1, <3>2, StoredKeeps DEF Base
  <2>3. CASE WritePanics(o)
    <3>1. Stored(o, <<>>) /\ OthersSame(o) /\ Typed' /\ <<>> \in Seq(Nat)
      BY <2>3, WritePanicsStores, WriteTyped
    <3>2. closes' = closes
      BY <2>3 DEF WritePanics
    <3>. QED BY <2>1, <3>1, <3>2, StoredKeeps DEF Base
  <2>4. CASE Flush(o) \/ CloseOutput(o) \/ OpenFails(o)
    BY <2>1, <2>4, DrainSteps, OpenFailsSteps, DrainKeeps DEF Base
  <2>5. ASSUME Typed', Quiet, closes' = closes PROVE Base'
    BY <2>1, <2>5, QuietKeeps DEF Base
  <2>6. CASE SetID(o)
    BY <2>5, <2>6, SetIDSteps DEF SetID
  <2>7. ASSUME NEW p \in Procs, NEW from, GetName(o, p, from) PROVE Base'
    BY <2>5, <2>7, GetNameSteps DEF GetName
  <2>8. CASE WriterGetsName(o)
    BY <2>7, <2>8 DEF WriterGetsName, Procs
  <2>9. CASE GetName(o, "flusher", "awake")
    BY <2>7, <2>9 DEF Procs
  <2>10. ASSUME NEW p \in Procs, UpdateName(o, p) PROVE Base'
    BY <2>5, <2>10, UpdateNameSteps DEF UpdateName
  <2>11. CASE Wake(o)
    BY <2>5, <2>11, WakeSteps DEF Wake
  <2>. QED BY <1>2, <2>2, <2>3, <2>4, <2>6, <2>8, <2>9, <2>10, <2>11 DEF PluginWriter, FlusherOf, Procs
<1>. QED BY <1>1, <1>2 DEF Next, Main, Plain

LEMMA BaseStutters ==
    ASSUME Base, UNCHANGED vars
    PROVE  Base'
<1>. QED BY DEF Base, Typed, HasNewest, Turns, Descriptor, vars, history

-----------------------------------------------------------------------------
(* What the steps do to the messages that are kept *)

LEMMA InFilesIs ==
    ASSUME NEW fs
    PROVE  \A k : k \in InFiles(fs) <=> \E n \in DOMAIN fs : k \in ToSet(fs[n])
<1>. QED BY DEF InFiles

\* Nothing is dropped when content is stored, except from a file that is opened anew.
LEMMA StoredContents ==
    ASSUME Base, NEW o \in Outputs, NEW content \in Seq(Nat), Stored(o, content)
    PROVE  /\ InFiles(files'[o]) \cup ToSet(object'[o].buffer) \subseteq Kept(o) \cup ToSet(content)
           /\ o \notin closes =>
                ToSet(object[o].buffer) \cup ToSet(content)
                   \subseteq InFiles(files'[o]) \cup ToSet(object'[o].buffer)
<1>. USE InFilesIs
<1>1. CASE Reopened(o, content)
  <2>. DEFINE c == object[o].currentName
  <2>1. /\ DOMAIN files'[o] = DOMAIN files[o] \cup {c} /\ ToSet(files'[o][c]) = {}
        /\ \A n \in DOMAIN files[o] \ {c} :
             ToSet(files'[o][n]) = ToSet(files[o][n])
                \cup (IF object[o].open /\ n = object[o].file
                      THEN ToSet(object[o].buffer) ELSE {})
        /\ object'[o].buffer = content
    BY <1>1, ReopenedSets
  <2>2. object[o].file = NoName \/ c # object[o].file
    BY <1>1 DEF Reopened, Reopens
  <2>. HIDE DEF c
  <2>3. ASSUME NEW k, k \in InFiles(files'[o]) PROVE k \in Kept(o)
    <3>1. PICK n \in DOMAIN files'[o] : k \in ToSet(files'[o][n])
      BY <2>3
    <3>2. n \in DOMAIN files[o] \ {c}
      BY <2>1, <3>1
    <3>. QED BY <2>1, <3>1, <3>2 DEF Kept
  <2>4. ASSUME o \notin closes, NEW k, k \in ToSet(object[o].buffer)
        PROVE  k \in InFiles(files'[o])
    <3>1. object[o].file # NoName
      BY <2>4, ShortSet DEF Base, Descriptor
    <3>2. object[o].open /\ object[o].file \in DOMAIN files[o] \ {c}
      BY <2>2, <2>4, <3>1 DEF Base, Descriptor
    <3>. QED BY <2>1, <2>4, <3>2
  <2>. QED BY <2>1, <2>3, <2>4
<1>2. CASE Appended(o, content)
  <2>1. /\ object[o].file \in DOMAIN files[o]
        /\ DOMAIN files'[o] = DOMAIN files[o]
        /\ \A n \in DOMAIN files[o] :
             \/ files'[o][n] = files[o][n]
             \/ ToSet(files'[o][n]) \subseteq ToSet(files[o][n])
                      \cup ToSet(object[o].buffer) \cup ToSet(content)
        /\ ToSet(object'[o].buffer) \subseteq ToSet(object[o].buffer) \cup ToSet(content)
        /\ object[o].open =>
             ToSet(object[o].buffer) \cup ToSet(content)
                \subseteq ToSet(object'[o].buffer) \cup ToSet(files'[o][object[o].file])
    BY <1>2, AppendedSets
  <2>2. ASSUME NEW k, k \in InFiles(files'[o]) PROVE k \in Kept(o) \cup ToSet(content)
    <3>1. PICK n \in DOMAIN files[o] : k \in ToSet(files'[o][n])
      BY <2>1, <2>2
    <3>. QED BY <2>1, <3>1 DEF Kept
  <2>3. o \notin closes => object[o].open
    BY <2>1, NoNameApart DEF Base, Descriptor, Typed
  <2>. QED BY <2>1, <2>2, <2>3 DEF Kept
<1>. QED BY <1>1, <1>2 DEF Stored

\* Nothing is dropped when the buffer is handed over, as long as the file is open.
LEMMA DrainedContents ==
    ASSUME Base, NEW o \in Outputs, Drained(o)
    PROVE  /\ InFiles(files[o]) \subseteq InFiles(files'[o])
           /\ InFiles(files'[o]) \subseteq Kept(o)
           /\ ToSet(object'[o].buffer) = {}
           /\ o \notin closes => ToSet(object[o].buffer) \subseteq InFiles(files'[o])
<1>. USE InFilesIs
<1>0. files'[o] = Flushed(o)
  BY DEF Drained
<1>0a. /\ DOMAIN Flushed(o) = DOMAIN files[o]
      /\ \A n \in DOMAIN files[o] :
           ToSet(Flushed(o)[n]) = ToSet(files[o][n])
              \cup (IF object[o].open /\ n = object[o].file
                    THEN ToSet(object[o].buffer) ELSE {})
  BY FlushedIs
<1>1. /\ DOMAIN files'[o] = DOMAIN files[o]
      /\ \A n \in DOMAIN files[o] :
           ToSet(files'[o][n]) = ToSet(files[o][n])
              \cup (IF object[o].open /\ n = object[o].file
                    THEN ToSet(object[o].buffer) ELSE {})
  BY <1>0, <1>0a, Zenon
<1>2. ToSet(object'[o].buffer) = {}
  BY ShortSet DEF Drained
<1>3. ASSUME o \notin closes, NEW k, k \in ToSet(object[o].buffer)
      PROVE  k \in InFiles(files'[o])
  <2>1. object[o].file # NoName
    BY <1>3, ShortSet DEF Base, Descriptor
  <2>2. object[o].open /\ object[o].file \in DOMAIN files[o]
    BY <1>3, <2>1 DEF Base, Descriptor
  <2>. QED BY <1>1, <1>3, <2>2
<1>4. ASSUME NEW k, k \in InFiles(files'[o]) PROVE k \in Kept(o)
  <2>1. PICK n \in DOMAIN files[o] : k \in ToSet(files'[o][n])
    BY <1>1, <1>4
  <2>. QED BY <1>1, <2>1 DEF Kept
<1>5. InFiles(files[o]) \subseteq InFiles(files'[o])
  BY <1>1
<1>. QED BY <1>2, <1>3, <1>4, <1>5

-----------------------------------------------------------------------------
(* The kinds of steps *)

\* The critical section of PluginWriter in which the file is opened and written.
Storing(o, content) ==
    /\ pc[o]["copy"] = "ready" /\ copying = o
    /\ ToSet(content) \subseteq {k \in {taken} : Traffic[k] = o}
    /\ Stored(o, content) /\ OthersSame(o) /\ Account(o, content)
    /\ closes' = closes /\ taken' = taken /\ name' = name
    /\ \/ process' = "aborted" /\ copying' = copying
       \/ /\ copying' # "request" /\ process' = process
          /\ content = Assembled(o)
          /\ copying' = IF o = "request" THEN "response" ELSE "reader"

Draining(o) ==
    /\ Drained(o) /\ OthersSame(o)
    /\ acked' = acked /\ late' = late /\ lost' = lost /\ misled' = misled
    /\ name' = name /\ taken' = taken /\ copying' = copying
    /\ process' = process \/ process' = "aborted"
    /\ closes' = closes \/ closes' = closes \cup {o}

Passing ==
    /\ Quiet
    /\ \A o \in Outputs : o \in closes' <=> o \in closes
    /\ \/ taken' = taken
       \/ taken' = taken + 1 /\ copying = "reader" /\ copying' = "request"
    /\ \/ copying' = copying \/ copying = "reader"
    /\ process' = process \/ process' = "exited"

LEMMA StepKinds ==
    ASSUME Base, Next
    PROVE  /\ requestPerFile' = requestPerFile
           /\ \/ Passing
              \/ \E o \in Outputs : Draining(o)
              \/ \E o \in Outputs : \E content \in Seq(Nat) : Storing(o, content)
<1>1. CASE Plain
  <2>1. Quiet /\ requestPerFile' = requestPerFile
    BY <1>1, PlainSteps
  <2>2. Passing
    BY <1>1, <2>1 DEF Passing, Plain, Read, ReadStopped, CloseInput, Exit, Outputs, Base, Turns
  <2>. QED BY <2>1, <2>2
<1>2. ASSUME NEW o \in Outputs, PluginWriter(o) \/ FlusherOf(o) \/ CloseOutput(o)
      PROVE  /\ requestPerFile' = requestPerFile
             /\ Passing \/ Draining(o) \/ \E content \in Seq(Nat) : Storing(o, content)
  <2>1. CASE Write(o)
    <3>1. Stored(o, Assembled(o)) /\ OthersSame(o)
      BY <2>1, WriteStores
    <3>2. Assembled(o) \in Seq(Nat) /\ ToSet(Assembled(o)) \subseteq {k \in {taken} : Traffic[k] = o}
      BY AssembledIs
    <3>3. copying = o
      BY <2>1 DEF Write, Base, Turns
    <3>4. Storing(o, Assembled(o))
      BY <2>1, <3>1, <3>2, <3>3 DEF Storing, Write
    <3>. QED BY <2>1, <3>2, <3>4 DEF Write
  <2>2. CASE WritePanics(o)
    <3>1. Stored(o, <<>>) /\ OthersSame(o)
      BY <2>2, WritePanicsStores
    <3>2. <<>> \in Seq(Nat) /\ ToSet(<<>>) = {}
      BY ShortSet
    <3>3. copying = o
      BY <2>2 DEF WritePanics, Base, Turns
    <3>4. Storing(o, <<>>)
      BY <2>2, <3>1, <3>2, <3>3 DEF Storing, WritePanics
    <3>. QED BY <2>2, <3>2, <3>4 DEF WritePanics
  <2>3. CASE Flush(o) \/ CloseOutput(o) \/ OpenFails(o)
    <3>1. Drained(o) /\ OthersSame(o)
      BY <2>3, DrainSteps, OpenFailsSteps
    <3>2. /\ UNCHANGED <<requestPerFile, name, taken, copying, history>>
          /\ process' = process \/ process' = "aborted"
          /\ closes' = closes \/ closes' = closes \cup {o}
      BY <2>3 DEF Flush, CloseOutput, OpenFails
    <3>. QED BY <3>1, <3>2 DEF Draining, history
  <2>4. ASSUME Quiet, UNCHANGED <<requestPerFile, closes, taken, copying, process>>
        PROVE  requestPerFile' = requestPerFile /\ Passing
    BY <2>4 DEF Passing
  <2>5. CASE SetID(o)
    BY <2>4, <2>5, SetIDSteps DEF SetID
  <2>6. ASSUME NEW p \in Procs, NEW from, GetName(o, p, from)
        PROVE  requestPerFile' = requestPerFile /\ Passing
    BY <2>4, <2>6, GetNameSteps DEF GetName
  <2>7. CASE WriterGetsName(o)
    BY <2>6, <2>7 DEF WriterGetsName, Procs
  <2>8. CASE GetName(o, "flusher", "awake")
    BY <2>6, <2>8 DEF Procs
  <2>9. ASSUME NEW p \in Procs, UpdateName(o, p)
        PROVE  requestPerFile' = requestPerFile /\ Passing
    BY <2>4, <2>9, UpdateNameSteps DEF UpdateName
  <2>10. CASE Wake(o)
    BY <2>4, <2>10, WakeSteps DEF Wake
  <2>. QED BY <1>2, <2>1, <2>2, <2>3, <2>5, <2>7, <2>8, <2>9, <2>10 DEF PluginWriter, FlusherOf, Procs
<1>. QED BY <1>1, <1>2 DEF Next, Main, Plain

-----------------------------------------------------------------------------
(* The type invariant *)

\* What an output keeps are messages of its type that were read.
OfItsType == \A o \in Outputs : Kept(o) \subseteq {k \in 1..taken : Traffic[k] = o}

LEMMA OfItsTypeNext ==
    ASSUME Base, OfItsType, Next
    PROVE  OfItsType'
<1>. USE DEF OfItsType
<1>1. taken \in Nat
  BY RecordingAssumption, LenProperties DEF Base, Turns
<1>2. CASE Passing
  <2>1. taken' \in Nat /\ taken <= taken'
    BY <1>1, <1>2 DEF Passing
  <2>2. \A o \in Outputs : Kept(o)' = Kept(o)
    BY <1>2 DEF Passing, Quiet, Kept
  <2>. QED BY <1>1, <2>1, <2>2
<1>3. ASSUME NEW o \in Outputs, Draining(o) PROVE OfItsType'
  <2>1. Kept(o)' \subseteq Kept(o)
    BY <1>3, DrainedContents DEF Draining, Kept
  <2>2. \A u \in Outputs \ {o} : Kept(u)' = Kept(u)
    BY <1>3 DEF Draining, OthersSame, Kept
  <2>3. taken' = taken
    BY <1>3 DEF Draining
  <2>. QED BY <2>1, <2>2, <2>3
<1>4. ASSUME NEW o \in Outputs, NEW content \in Seq(Nat), Storing(o, content)
      PROVE  OfItsType'
  <2>1. Kept(o)' \subseteq Kept(o) \cup ToSet(content)
    BY <1>4, StoredContents DEF Storing, Kept
  <2>2. \A u \in Outputs \ {o} : Kept(u)' = Kept(u)
    BY <1>4 DEF Storing, OthersSame, Kept
  <2>3. taken' = taken /\ 1 <= taken
    BY <1>4 DEF Storing, Base, Turns
  <2>4. ToSet(content) \subseteq {k \in 1..taken : Traffic[k] = o}
    BY <1>1, <1>4, <2>3 DEF Storing
  <2>. QED BY <2>1, <2>2, <2>3, <2>4
<1>. QED BY <1>2, <1>3, <1>4, StepKinds

TypeInv == Base /\ requestPerFile \in PerFile /\ OfItsType

LEMMA TypeInvIsTypeOK ==
    ASSUME TypeInv
    PROVE  TypeOK
<1>. QED BY DEF TypeInv, Base, Turns, Descriptor, OfItsType, TypeOK

LEMMA TypeInvInit ==
    ASSUME Init
    PROVE  TypeInv
<1>1. Base
  BY BaseInit
<1>2. \A o \in Outputs : Kept(o) = {}
  BY ShortSet DEF Init, Kept, InFiles, NewObject
<1>. QED BY <1>1, <1>2 DEF TypeInv, OfItsType, Init

LEMMA TypeInvNext ==
    ASSUME TypeInv, [Next]_vars
    PROVE  TypeInv'
<1>1. CASE Next
  BY <1>1, BaseNext, OfItsTypeNext, StepKinds DEF TypeInv
<1>2. CASE UNCHANGED vars
  BY <1>2, BaseStutters DEF TypeInv, OfItsType, Kept, vars
<1>. QED BY <1>1, <1>2

\* What TypeOK says of the recording: its outputs keep nothing but messages of their
\* type that were read, in files that there are.
THEOREM TypeCorrect == Spec => []TypeOK
<1>1. Init => TypeInv
  BY TypeInvInit
<1>2. TypeInv /\ [Next]_vars => TypeInv'
  BY TypeInvNext
<1>3. TypeInv => TypeOK
  BY TypeInvIsTypeOK
<1>. QED BY <1>1, <1>2, <1>3, PTL DEF Spec

-----------------------------------------------------------------------------
(* What was written survives *)

\* A message that was written before its output was closed is in a file, or was in one
\* that was opened anew, or is still buffered; after the close nothing is.
WrittenIsThere ==
    \A o \in Outputs : \A k \in acked[o] :
        k \in InFiles(files[o]) \cup lost[o]
           \cup (IF o \in closes THEN {} ELSE ToSet(object[o].buffer))

\* PluginWriter of the requests is behind every request but the one it is busy with.
RequestsWritten ==
    \A k \in 1..taken :
        Traffic[k] = "request" /\ (k < taken \/ copying # "request")
            => k \in acked["request"] \cup late["request"]

LEMMA AccountIs ==
    ASSUME Base, NEW o \in Outputs, NEW written, Account(o, written)
    PROVE  /\ lost'[o] = lost[o] \cup (InFiles(files[o]) \ InFiles(files'[o]))
           /\ acked'[o] = IF o \in closes THEN acked[o] ELSE acked[o] \cup ToSet(written)
           /\ late'[o] = IF o \in closes THEN late[o] \cup ToSet(written) ELSE late[o]
           /\ misled' = IF object[o].currentName # name[o]["copy"]
                        THEN misled \cup {o} ELSE misled
<1>1. lost'[o] = lost[o] \cup (InFiles(files[o]) \ InFiles(files'[o]))
  BY Zenon DEF Account, Base, Typed
<1>2. acked'[o] = IF o \in closes THEN acked[o] ELSE acked[o] \cup ToSet(written)
  BY DEF Account, Base, Typed
<1>3. late'[o] = IF o \in closes THEN late[o] \cup ToSet(written) ELSE late[o]
  BY DEF Account, Base, Typed
<1>. QED BY <1>1, <1>2, <1>3 DEF Account

LEMMA WrittenIsThereNext ==
    ASSUME Base, WrittenIsThere, Next
    PROVE  WrittenIsThere'
<1>. USE DEF WrittenIsThere
<1>1. CASE Passing
  BY <1>1, Zenon DEF Passing, Quiet
<1>2. ASSUME NEW o \in Outputs, Draining(o) PROVE WrittenIsThere'
  <2>1. /\ InFiles(files[o]) \subseteq InFiles(files'[o])
        /\ o \notin closes => ToSet(object[o].buffer) \subseteq InFiles(files'[o])
    BY <1>2, DrainedContents DEF Draining
  <2>2. ASSUME NEW k \in acked'[o] PROVE k \in InFiles(files'[o]) \cup lost'[o]
    <3>1. k \in acked[o] /\ lost'[o] = lost[o]
      BY <1>2, <2>2 DEF Draining
    <3>. QED BY <2>1, <3>1
  <2>3. ASSUME NEW u \in Outputs \ {o}, NEW k \in acked'[u]
        PROVE  k \in InFiles(files'[u]) \cup lost'[u]
                  \cup (IF u \in closes' THEN {} ELSE ToSet(object'[u].buffer))
    <3>1. /\ acked'[u] = acked[u] /\ lost'[u] = lost[u] /\ files'[u] = files[u]
          /\ object'[u] = object[u] /\ (u \in closes' <=> u \in closes)
      BY <1>2 DEF Draining, OthersSame
    <3>. QED BY <2>3, <3>1, Zenon
  <2>. QED BY <2>2, <2>3
<1>3. ASSUME NEW o \in Outputs, NEW content \in Seq(Nat), Storing(o, content)
      PROVE  WrittenIsThere'
  <2>1. /\ lost'[o] = lost[o] \cup (InFiles(files[o]) \ InFiles(files'[o]))
        /\ acked'[o] = IF o \in closes THEN acked[o] ELSE acked[o] \cup ToSet(content)
    BY <1>3, AccountIs DEF Storing
  <2>2. o \notin closes => ToSet(object[o].buffer) \cup ToSet(content)
                              \subseteq InFiles(files'[o]) \cup ToSet(object'[o].buffer)
    BY <1>3, StoredContents DEF Storing
  <2>3. closes' = closes
    BY <1>3 DEF Storing
  <2>4. ASSUME NEW k \in acked'[o]
        PROVE  k \in InFiles(files'[o]) \cup lost'[o]
                  \cup (IF o \in closes THEN {} ELSE ToSet(object'[o].buffer))
    BY <2>1, <2>2, <2>4
  <2>5. ASSUME NEW u \in Outputs \ {o}, NEW k \in acked'[u]
        PROVE  k \in InFiles(files'[u]) \cup lost'[u]
                  \cup (IF u \in closes THEN {} ELSE ToSet(object'[u].buffer))
    <3>1. /\ acked'[u] = acked[u] /\ lost'[u] = lost[u] /\ files'[u] = files[u]
          /\ object'[u] = object[u]
      BY <1>3 DEF Storing, OthersSame
    <3>. QED BY <2>5, <3>1, Zenon
  <2>. QED BY <2>3, <2>4, <2>5
<1>. QED BY <1>1, <1>2, <1>3, StepKinds

LEMMA RequestsWrittenNext ==
    ASSUME Base, RequestsWritten, Next
    PROVE  RequestsWritten'
<1>. USE DEF RequestsWritten
<1>1. taken \in Nat /\ "request" \in Outputs
  BY RecordingAssumption, LenProperties DEF Base, Turns, Outputs
<1>2. CASE Passing
  <2>1. acked' = acked /\ late' = late
    BY <1>2 DEF Passing, Quiet
  <2>2. CASE taken' = taken
    BY <1>1, <1>2, <2>1, <2>2 DEF Passing
  <2>3. CASE taken' = taken + 1 /\ copying = "reader" /\ copying' = "request"
    BY <1>1, <2>1, <2>3
  <2>. QED BY <1>2, <2>2, <2>3 DEF Passing
<1>3. ASSUME NEW o \in Outputs, Draining(o) PROVE RequestsWritten'
  BY <1>3 DEF Draining
<1>4. ASSUME NEW o \in Outputs, NEW content \in Seq(Nat), Storing(o, content)
      PROVE  RequestsWritten'
  <2>1. taken' = taken /\ copying = o
    BY <1>4 DEF Storing
  <2>2. CASE o = "response"
    <3>1. acked'["request"] = acked["request"] /\ late'["request"] = late["request"]
      BY <1>1, <1>4, <2>2 DEF Storing, OthersSame
    <3>. QED BY <2>1, <2>2, <3>1
  <2>3. CASE o = "request"
    <3>1. /\ acked'[o] = IF o \in closes THEN acked[o] ELSE acked[o] \cup ToSet(content)
          /\ late'[o] = IF o \in closes THEN late[o] \cup ToSet(content) ELSE late[o]
      BY <1>4, AccountIs DEF Storing
    <3>2. acked[o] \cup late[o] \subseteq acked'[o] \cup late'[o]
      BY <3>1
    <3>3. CASE copying' = copying
      BY <2>1, <2>3, <3>2, <3>3
    <3>4. CASE copying' # copying
      <4>1. content = Assembled(o)
        BY <1>4, <3>4 DEF Storing
      <4>2. Traffic[taken] = "request" => taken \in ToSet(content)
        BY <2>3, <4>1, AssembledIs
      <4>3. Traffic[taken] = "request" => taken \in acked'[o] \cup late'[o]
        BY <3>1, <4>2
      <4>4. ASSUME NEW k \in 1..taken, Traffic[k] = "request"
            PROVE  k \in acked'["request"] \cup late'["request"]
        <5>1. CASE k = taken
          BY <2>3, <4>3, <4>4, <5>1
        <5>2. CASE k # taken
          <6>1. k < taken
            BY <1>1, <4>4, <5>2
          <6>2. k \in acked[o] \cup late[o]
            BY <2>3, <4>4, <6>1
          <6>. QED BY <2>3, <3>2, <6>2
        <5>. QED BY <5>1, <5>2
      <4>. QED BY <2>1, <4>4
    <3>. QED BY <3>3, <3>4
  <2>. QED BY <2>2, <2>3 DEF Outputs
<1>. QED BY <1>2, <1>3, <1>4, StepKinds

WrittenInv == TypeInv /\ WrittenIsThere /\ RequestsWritten

LEMMA WrittenInvInit ==
    ASSUME Init
    PROVE  WrittenInv
<1>1. TypeInv
  BY TypeInvInit
<1>2. WrittenIsThere
  BY DEF Init, WrittenIsThere
<1>3. RequestsWritten
  BY DEF Init, RequestsWritten
<1>. QED BY <1>1, <1>2, <1>3 DEF WrittenInv

LEMMA WrittenInvNext ==
    ASSUME WrittenInv, [Next]_vars
    PROVE  WrittenInv'
<1>1. CASE Next
  BY <1>1, TypeInvNext, WrittenIsThereNext, RequestsWrittenNext DEF WrittenInv, TypeInv
<1>2. CASE UNCHANGED vars
  <2>1. TypeInv'
    BY <1>2, TypeInvNext DEF WrittenInv
  <2>2. UNCHANGED <<files, object, taken, copying, closes, acked, late, lost>>
    BY <1>2 DEF vars, history
  <2>3. WrittenIsThere'
    BY <2>2, Zenon DEF WrittenInv, WrittenIsThere
  <2>4. RequestsWritten'
    BY <2>2 DEF WrittenInv, RequestsWritten
  <2>. QED BY <2>1, <2>3, <2>4 DEF WrittenInv
<1>. QED BY <1>1, <1>2

\* What was written before main closed the output is there at the end: nothing is lost
\* at a change of files, in a flush, or between the Close of the outputs and the end of
\* the copy.
THEOREM WrittenSurvivesEnd == Spec => []SurvivesEnd
<1>1. Init => WrittenInv
  BY WrittenInvInit
<1>2. WrittenInv /\ [Next]_vars => WrittenInv'
  BY WrittenInvNext
<1>3. WrittenInv => SurvivesEnd
  <2>. SUFFICES ASSUME WrittenInv, process # "running", NEW o \in Outputs, NEW k \in acked[o]
                PROVE  \/ k \in InFiles(files[o]) \cup lost[o]
                       \/ process = "aborted" /\ k \in ToSet(object[o].buffer)
    BY DEF SurvivesEnd
  <2>1. k \in InFiles(files[o]) \cup lost[o]
           \cup (IF o \in closes THEN {} ELSE ToSet(object[o].buffer))
    BY DEF WrittenInv, WrittenIsThere
  <2>2. process = "exited" => o \in closes
    BY DEF WrittenInv, TypeInv, Base, Turns
  <2>3. process \in {"running", "exited", "aborted"}
    BY DEF WrittenInv, TypeInv, Base, Turns
  <2>. QED BY <2>1, <2>2, <2>3
<1>. QED BY <1>1, <1>2, <1>3, PTL DEF Spec

\* A recording that ended by itself has no response without its request, except for a
\* request that came too late or whose file was opened anew.
THEOREM ResponsesHaveRequests == Spec => []NoOrphans
<1>1. Init => WrittenInv
  BY WrittenInvInit
<1>2. WrittenInv /\ [Next]_vars => WrittenInv'
  BY WrittenInvNext
<1>3. WrittenInv => NoOrphans
  <2>. SUFFICES ASSUME WrittenInv, process = "exited",
                       NEW q \in DOMAIN Traffic, NEW r \in DOMAIN Traffic,
                       q < r, Traffic[q] = "request", r \in InFiles(files["response"])
                PROVE  q \in InFiles(files["request"]) \cup late["request"] \cup lost["request"]
    BY DEF NoOrphans
  <2>. USE DEF WrittenInv, TypeInv
  <2>1. "request" \in Outputs /\ "response" \in Outputs
    BY DEF Outputs
  <2>2. r \in 1..taken /\ taken \in Nat
    BY <2>1, RecordingAssumption, LenProperties DEF OfItsType, Kept, Base, Turns
  <2>3. q \in 1..taken /\ q < taken
    <3>1. q \in Nat /\ 1 <= q /\ q < r
      BY RecordingAssumption, LenProperties
    <3>2. r \in Nat /\ r <= taken
      BY <2>2
    <3>. QED BY <2>2, <3>1, <3>2
  <2>4. q \in acked["request"] \cup late["request"]
    BY <2>3 DEF RequestsWritten
  <2>5. "request" \in closes
    BY <2>1 DEF Base, Turns
  <2>. QED BY <2>1, <2>4, <2>5 DEF WrittenIsThere
<1>. QED BY <1>1, <1>2, <1>3, PTL DEF Spec

-----------------------------------------------------------------------------
(* Names *)

\* With %r, currentID and the name made of it are those of the message at hand.
OwnName ==
    \A o \in Outputs :
        /\ requestPerFile /\ pc[o]["copy"] # "idle" => object[o].id = Ids[taken]
        /\ pc[o]["copy"] \in {"named", "ready"} => name[o]["copy"][1] = object[o].id

\* Without it, there is one sequence of chunks.
OneName ==
    ~requestPerFile =>
        \A o \in Outputs :
            /\ object[o].id = "" /\ object[o].currentName[1] = "" /\ object[o].file[1] = ""
            /\ \A n \in DOMAIN files[o] : n[1] = ""
            /\ \A p \in Procs : name[o][p][1] = ""

\* The copy does not leave the critical sections of a message before it is written.
LEMMA NamesNext ==
    ASSUME Base, OwnName, OneName, Next
    PROVE  OwnName' /\ OneName'
<1>1. CASE Plain
  <2>1. /\ files' = files /\ object' = object /\ pc' = pc /\ name' = name
        /\ requestPerFile' = requestPerFile
    BY <1>1, PlainSteps DEF Quiet
  <2>2. OneName'
    BY <2>1 DEF OneName
  <2>3. OwnName'
    <3>1. CASE copying = "reader"
      <4>1. \A o \in Outputs : pc[o]["copy"] = "idle"
        BY <3>1 DEF Base, Turns, Outputs
      <4>. QED BY <2>1, <4>1 DEF OwnName
    <3>2. CASE copying # "reader"
      <4>1. taken' = taken
        BY <1>1, <3>2 DEF Plain, Read, ReadStopped, CloseInput, Exit
      <4>. QED BY <2>1, <4>1 DEF OwnName
    <3>. QED BY <3>1, <3>2
  <2>. QED BY <2>2, <2>3
<1>2. ASSUME NEW o \in Outputs, PluginWriter(o) \/ FlusherOf(o) \/ CloseOutput(o)
      PROVE  OwnName' /\ OneName'
  <2>1. requestPerFile' = requestPerFile /\ "copy" \in Procs
    BY <1>2, StepKinds DEF Next, Main, Procs
  <2>2. ASSUME OthersSame(o), taken' = taken,
               /\ requestPerFile /\ pc'[o]["copy"] # "idle" => object'[o].id = Ids[taken]
               /\ pc'[o]["copy"] \in {"named", "ready"} => name'[o]["copy"][1] = object'[o].id,
               ~requestPerFile =>
                   /\ object'[o].id = "" /\ object'[o].currentName[1] = ""
                   /\ object'[o].file[1] = ""
                   /\ \A n \in DOMAIN files'[o] : n[1] = ""
                   /\ \A p \in Procs : name'[o][p][1] = ""
        PROVE  OwnName' /\ OneName'
    <3>1. \A u \in Outputs \ {o} : /\ files'[u] = files[u] /\ object'[u] = object[u]
                                   /\ pc'[u] = pc[u] /\ name'[u] = name[u]
      BY <2>2 DEF OthersSame
    <3>2. OwnName'
      BY <2>1, <2>2, <3>1 DEF OwnName
    <3>3. ASSUME ~requestPerFile, NEW u \in Outputs
          PROVE  /\ object'[u].id = "" /\ object'[u].currentName[1] = ""
                 /\ object'[u].file[1] = ""
                 /\ \A n \in DOMAIN files'[u] : n[1] = ""
                 /\ \A p \in Procs : name'[u][p][1] = ""
      <4>1. CASE u = o
        BY <2>2, <3>3, <4>1
      <4>2. CASE u # o
        <5>1. /\ files'[u] = files[u] /\ object'[u] = object[u] /\ name'[u] = name[u]
          BY <3>1, <4>2
        <5>2. /\ object[u].id = "" /\ object[u].currentName[1] = ""
              /\ object[u].file[1] = ""
              /\ \A n \in DOMAIN files[u] : n[1] = ""
              /\ \A p \in Procs : name[u][p][1] = ""
          BY <3>3, Zenon DEF OneName
        <5>. QED BY <5>1, <5>2, Zenon
      <4>. QED BY <4>1, <4>2
    <3>4. OneName'
      BY <2>1, <3>3, Zenon DEF OneName
    <3>. QED BY <3>2, <3>4
  <2>3. CASE SetID(o)
    <3>1. /\ pc'[o]["copy"] = "identified" /\ taken' = taken /\ requestPerFile
      BY <2>1, <2>3 DEF SetID, Base, Typed
    <3>. QED BY <2>2, <2>3, <3>1, SetIDSteps
  <2>4. ASSUME NEW p \in Procs, NEW from, GetName(o, p, from),
               p = "copy" => from = IF requestPerFile THEN "identified" ELSE "idle"
        PROVE  OwnName' /\ OneName'
    <3>1. /\ files' = files /\ object' = object /\ name'[o][p] = Filename(o)
          /\ \A q \in Procs \ {p} : name'[o][q] = name[o][q]
          /\ OthersSame(o)
      BY <2>4, GetNameSteps DEF Quiet
    <3>2. /\ pc'[o][p] = "named" /\ pc[o][p] = from /\ taken' = taken
          /\ \A q \in Procs \ {p} : pc'[o][q] = pc[o][q]
      BY <2>4 DEF GetName, Base, Typed
    <3>3. Filename(o)[1] = object[o].id
      BY FilenameIs
    <3>4. /\ requestPerFile /\ pc'[o]["copy"] # "idle" => object[o].id = Ids[taken]
          /\ pc'[o]["copy"] \in {"named", "ready"} => name'[o]["copy"][1] = object[o].id
      <4>1. CASE p = "copy"
        <5>1. requestPerFile => object[o].id = Ids[taken]
          BY <2>4, <3>2, <4>1 DEF OwnName
        <5>. QED BY <3>1, <3>2, <3>3, <4>1, <5>1
      <4>2. CASE p # "copy"
        BY <2>1, <3>1, <3>2, <4>2 DEF OwnName
      <4>. QED BY <4>1, <4>2
    <3>5. ~requestPerFile => \A q \in Procs : name'[o][q][1] = ""
      BY <3>1, <3>3 DEF OneName
    <3>6. ~requestPerFile => /\ object'[o].id = "" /\ object'[o].currentName[1] = ""
                             /\ object'[o].file[1] = ""
                             /\ \A n \in DOMAIN files'[o] : n[1] = ""
      BY <3>1 DEF OneName
    <3>. QED BY <2>2, <3>1, <3>2, <3>4, <3>5, <3>6
  <2>5. CASE WriterGetsName(o)
    BY <2>4, <2>5 DEF WriterGetsName, Procs
  <2>6. CASE GetName(o, "flusher", "awake")
    BY <2>4, <2>6 DEF Procs
  <2>7. ASSUME NEW p \in Procs, UpdateName(o, p) PROVE OwnName' /\ OneName'
    <3>1. /\ files' = files /\ name' = name /\ object'[o].currentName = name[o][p]
          /\ object'[o].id = object[o].id /\ object'[o].file = object[o].file
          /\ OthersSame(o)
      BY <2>7, UpdateNameSteps DEF Quiet
    <3>2. /\ pc'[o][p] = "ready" /\ pc[o][p] = "named" /\ taken' = taken
          /\ \A q \in Procs \ {p} : pc'[o][q] = pc[o][q]
      BY <2>7 DEF UpdateName, Base, Typed
    <3>3. /\ pc'[o]["copy"] # "idle" => pc[o]["copy"] # "idle"
          /\ pc'[o]["copy"] \in {"named", "ready"} => pc[o]["copy"] \in {"named", "ready"}
      BY <2>1, <3>2
    <3>4. /\ requestPerFile /\ pc'[o]["copy"] # "idle" => object'[o].id = Ids[taken]
          /\ pc'[o]["copy"] \in {"named", "ready"} => name'[o]["copy"][1] = object'[o].id
      BY <3>1, <3>3 DEF OwnName
    <3>5. ~requestPerFile =>
                   /\ object'[o].id = "" /\ object'[o].currentName[1] = ""
                   /\ object'[o].file[1] = ""
                   /\ \A n \in DOMAIN files'[o] : n[1] = ""
                   /\ \A q \in Procs : name'[o][q][1] = ""
      BY <3>1 DEF OneName
    <3>. QED BY <2>2, <3>1, <3>2, <3>4, <3>5
  <2>8. ASSUME NEW content \in Seq(Nat), Stored(o, content), OthersSame(o), taken' = taken,
               name' = name, pc'[o]["copy"] \in {"idle", pc[o]["copy"]}
        PROVE  OwnName' /\ OneName'
    <3>1. /\ object'[o].id = object[o].id /\ object'[o].currentName = object[o].currentName
          /\ object'[o].file \in {object[o].file, object[o].currentName}
      BY <2>8 DEF Stored, Reopened, Appended
    <3>2. DOMAIN files'[o] \subseteq DOMAIN files[o] \cup {object[o].currentName}
      <4>1. CASE Reopened(o, content)
        BY <2>8, <4>1, ReopenedSets
      <4>2. CASE Appended(o, content)
        BY <2>8, <4>2, AppendedSets
      <4>. QED BY <2>8, <4>1, <4>2 DEF Stored
    <3>3. /\ requestPerFile /\ pc'[o]["copy"] # "idle" => object'[o].id = Ids[taken]
          /\ pc'[o]["copy"] \in {"named", "ready"} => name'[o]["copy"][1] = object'[o].id
      BY <2>8, <3>1 DEF OwnName
    <3>4. ~requestPerFile =>
                   /\ object'[o].id = "" /\ object'[o].currentName[1] = ""
                   /\ object'[o].file[1] = ""
                   /\ \A n \in DOMAIN files'[o] : n[1] = ""
                   /\ \A q \in Procs : name'[o][q][1] = ""
      BY <2>8, <3>1, <3>2 DEF OneName
    <3>. QED BY <2>2, <2>8, <3>3, <3>4
  <2>9. CASE Write(o)
    <3>1. Stored(o, Assembled(o)) /\ OthersSame(o) /\ Assembled(o) \in Seq(Nat)
      BY <2>9, WriteStores, AssembledIs
    <3>2. taken' = taken /\ name' = name /\ pc'[o]["copy"] = "idle"
      BY <2>1, <2>9 DEF Write, Base, Typed
    <3>. QED BY <2>8, <3>1, <3>2
  <2>10. CASE WritePanics(o)
    <3>1. Stored(o, <<>>) /\ OthersSame(o) /\ <<>> \in Seq(Nat)
      BY <2>10, WritePanicsStores
    <3>2. taken' = taken /\ name' = name /\ pc' = pc
      BY <2>10 DEF WritePanics
    <3>. QED BY <2>8, <3>1, <3>2
  <2>11. ASSUME OthersSame(o), taken' = taken, name' = name, DOMAIN files'[o] = DOMAIN files[o],
                object'[o].id = object[o].id, object'[o].currentName = object[o].currentName,
                object'[o].file \in {object[o].file, NoName}, pc'[o]["copy"] = pc[o]["copy"]
         PROVE  OwnName' /\ OneName'
    <3>0. NoName[1] = ""
      BY DEF NoName
    <3>1. /\ requestPerFile /\ pc'[o]["copy"] # "idle" => object'[o].id = Ids[taken]
          /\ pc'[o]["copy"] \in {"named", "ready"} => name'[o]["copy"][1] = object'[o].id
      BY <2>11 DEF OwnName
    <3>2. ~requestPerFile =>
                   /\ object'[o].id = "" /\ object'[o].currentName[1] = ""
                   /\ object'[o].file[1] = ""
                   /\ \A n \in DOMAIN files'[o] : n[1] = ""
                   /\ \A q \in Procs : name'[o][q][1] = ""
      BY <2>11, <3>0 DEF OneName
    <3>. QED BY <2>2, <2>11, <3>1, <3>2
  <2>12. CASE Wake(o)
    <3>1. Quiet /\ OthersSame(o) /\ object' = object /\ name' = name
      BY <2>12, WakeSteps
    <3>2. taken' = taken /\ pc'[o]["copy"] = pc[o]["copy"]
      BY <2>1, <2>12 DEF Wake, Base, Typed
    <3>. QED BY <2>11, <3>1, <3>2 DEF Quiet
  <2>13. CASE Flush(o) \/ CloseOutput(o) \/ OpenFails(o)
    <3>1. Drained(o) /\ OthersSame(o)
      BY <2>13, DrainSteps, OpenFailsSteps
    <3>2. taken' = taken /\ name' = name /\ pc'[o]["copy"] = pc[o]["copy"]
      BY <2>1, <2>13 DEF Flush, CloseOutput, OpenFails, Base, Typed
    <3>3. DOMAIN files'[o] = DOMAIN files[o]
      BY <3>1, FlushedIs DEF Drained
    <3>. QED BY <2>11, <3>1, <3>2, <3>3 DEF Drained
  <2>. QED BY <1>2, <2>3, <2>5, <2>6, <2>7, <2>9, <2>10, <2>12, <2>13
           DEF PluginWriter, FlusherOf, Procs
<1>. QED BY <1>1, <1>2 DEF Next, Main, Plain

-----------------------------------------------------------------------------
(* A message is in a file of its own id *)

LEMMA OwnFileNext ==
    ASSUME Base, OwnName, OwnFile, Next
    PROVE  OwnFile'
<1>1. requestPerFile' = requestPerFile
  BY StepKinds
<1>. SUFFICES ASSUME requestPerFile
              PROVE  \A u \in Outputs \ misled' :
                        /\ \A n \in DOMAIN files'[u] : \A k \in ToSet(files'[u][n]) : Ids[k] = n[1]
                        /\ \A k \in ToSet(object'[u].buffer) : Ids[k] = object'[u].file[1]
  BY <1>1 DEF OwnFile
<1>2. \A u \in Outputs \ misled :
         /\ \A n \in DOMAIN files[u] : \A k \in ToSet(files[u][n]) : Ids[k] = n[1]
         /\ \A k \in ToSet(object[u].buffer) : Ids[k] = object[u].file[1]
  BY DEF OwnFile
<1>3. CASE Passing
  BY <1>2, <1>3 DEF Passing, Quiet
<1>4. ASSUME NEW o \in Outputs, Draining(o), NEW u \in Outputs \ misled'
      PROVE  /\ \A n \in DOMAIN files'[u] : \A k \in ToSet(files'[u][n]) : Ids[k] = n[1]
             /\ \A k \in ToSet(object'[u].buffer) : Ids[k] = object'[u].file[1]
  <2>1. misled' = misled
    BY <1>4 DEF Draining
  <2>2. CASE u # o
    BY <1>2, <1>4, <2>1, <2>2 DEF Draining, OthersSame
  <2>3. CASE u = o
    <3>0. files'[o] = Flushed(o)
      BY <1>4 DEF Draining, Drained
    <3>0a. /\ DOMAIN Flushed(o) = DOMAIN files[o]
          /\ \A n \in DOMAIN files[o] :
               ToSet(Flushed(o)[n]) = ToSet(files[o][n])
                  \cup (IF object[o].open /\ n = object[o].file
                        THEN ToSet(object[o].buffer) ELSE {})
      BY FlushedIs
    <3>1. /\ DOMAIN files'[o] = DOMAIN files[o]
          /\ \A n \in DOMAIN files[o] :
               ToSet(files'[o][n]) = ToSet(files[o][n])
                  \cup (IF object[o].open /\ n = object[o].file
                        THEN ToSet(object[o].buffer) ELSE {})
      BY <3>0, <3>0a, Zenon
    <3>2. ToSet(object'[o].buffer) = {}
      BY <1>4, DrainedContents DEF Draining
    <3>. QED BY <1>2, <1>4, <2>1, <2>3, <3>1, <3>2
  <2>. QED BY <2>2, <2>3
<1>5. ASSUME NEW o \in Outputs, NEW content \in Seq(Nat), Storing(o, content),
             NEW u \in Outputs \ misled'
      PROVE  /\ \A n \in DOMAIN files'[u] : \A k \in ToSet(files'[u][n]) : Ids[k] = n[1]
             /\ \A k \in ToSet(object'[u].buffer) : Ids[k] = object'[u].file[1]
  <2>1. misled' = IF object[o].currentName # name[o]["copy"] THEN misled \cup {o} ELSE misled
    BY <1>5, AccountIs DEF Storing
  <2>2. CASE u # o
    <3>1. files'[u] = files[u] /\ object'[u] = object[u] /\ u \notin misled
      BY <1>5, <2>1, <2>2 DEF Storing, OthersSame
    <3>. QED BY <1>2, <1>5, <3>1
  <2>3. CASE u = o
    <3>. DEFINE c == object[o].currentName
    <3>1. o \notin misled /\ c = name[o]["copy"]
      BY <1>5, <2>1, <2>3
    <3>2. c[1] = Ids[taken]
      BY <1>5, <3>1 DEF Storing, OwnName
    <3>3. \A k \in ToSet(content) : Ids[k] = c[1]
      BY <1>5, <3>2 DEF Storing
    <3>4. /\ \A n \in DOMAIN files[o] : \A k \in ToSet(files[o][n]) : Ids[k] = n[1]
          /\ \A k \in ToSet(object[o].buffer) : Ids[k] = object[o].file[1]
      BY <1>2, <3>1
    <3>5. CASE Reopened(o, content)
      <4>1. /\ DOMAIN files'[o] = DOMAIN files[o] \cup {c} /\ ToSet(files'[o][c]) = {}
            /\ \A n \in DOMAIN files[o] \ {c} :
                 ToSet(files'[o][n]) = ToSet(files[o][n])
                    \cup (IF object[o].open /\ n = object[o].file
                          THEN ToSet(object[o].buffer) ELSE {})
            /\ object'[o].buffer = content
        BY <3>5, ReopenedSets
      <4>2. object'[o].file = c
        BY <3>5 DEF Reopened
      <4>. HIDE DEF c
      <4>3. \A n \in DOMAIN files'[o] : \A k \in ToSet(files'[o][n]) : Ids[k] = n[1]
        BY <3>4, <4>1
      <4>. QED BY <2>3, <3>3, <4>1, <4>2, <4>3
    <3>6. CASE Appended(o, content)
      <4>1. /\ object[o].currentName = object[o].file
            /\ DOMAIN files'[o] = DOMAIN files[o]
            /\ \A n \in DOMAIN files[o] :
                 \/ files'[o][n] = files[o][n]
                 \/ /\ n = object[o].file
                    /\ ToSet(files'[o][n]) \subseteq ToSet(files[o][n])
                          \cup ToSet(object[o].buffer) \cup ToSet(content)
            /\ ToSet(object'[o].buffer) \subseteq ToSet(object[o].buffer) \cup ToSet(content)
        BY <3>6, AppendedSets
      <4>2. object'[o].file = object[o].file
        BY <3>6 DEF Appended
      <4>3. \A k \in ToSet(object[o].buffer) \cup ToSet(content) : Ids[k] = object[o].file[1]
        BY <3>3, <3>4, <4>1
      <4>4. \A n \in DOMAIN files'[o] : \A k \in ToSet(files'[o][n]) : Ids[k] = n[1]
        BY <3>4, <4>1, <4>3
      <4>. QED BY <2>3, <4>1, <4>2, <4>3, <4>4
    <3>7. Stored(o, content)
      BY <1>5 DEF Storing
    <3>. QED BY <3>5, <3>6, <3>7 DEF Stored
  <2>. QED BY <2>2, <2>3
<1>. QED BY <1>3, <1>4, <1>5, StepKinds

-----------------------------------------------------------------------------
(* The open file is the newest *)

\* Without %r, and unless a late name of the flusher was followed, the open file is the
\* newest chunk, and the name the writer holds is that or a new one behind it.
NewestIsOpen ==
    ~requestPerFile /\ process # "aborted" =>
        \A o \in Outputs \ misled :
            /\ object[o].file = NoName => DOMAIN files[o] = {}
            /\ \A n \in DOMAIN files[o] : n[2] <= object[o].file[2]
            /\ pc[o]["copy"] \in {"named", "ready"} =>
                 /\ name[o]["copy"] = object[o].file \/ name[o]["copy"] \notin DOMAIN files[o]
                 /\ \A n \in DOMAIN files[o] : n[2] <= name[o]["copy"][2]

\* The names of one sequence of chunks differ in their index only.
LEMMA SameName ==
    ASSUME NEW n \in Names, NEW m \in Names, n[1] = m[1], n[2] = m[2]
    PROVE  n = m
<1>. QED BY DEF Names

LEMMA NewestIsOpenNext ==
    ASSUME Base, OneName, NewestIsOpen, Next
    PROVE  NewestIsOpen'
<1>1. requestPerFile' = requestPerFile
  BY StepKinds
<1>0. process # "aborted"
  BY DEF Next
<1>. SUFFICES ASSUME ~requestPerFile, process' # "aborted", NEW u \in Outputs \ misled'
              PROVE  /\ object'[u].file = NoName => DOMAIN files'[u] = {}
                     /\ \A n \in DOMAIN files'[u] : n[2] <= object'[u].file[2]
                     /\ pc'[u]["copy"] \in {"named", "ready"} =>
                          /\ \/ name'[u]["copy"] = object'[u].file
                             \/ name'[u]["copy"] \notin DOMAIN files'[u]
                          /\ \A n \in DOMAIN files'[u] : n[2] <= name'[u]["copy"][2]
  BY <1>1, Zenon DEF NewestIsOpen
<1>2. u \notin misled =>
         /\ object[u].file = NoName => DOMAIN files[u] = {}
         /\ \A n \in DOMAIN files[u] : n[2] <= object[u].file[2]
         /\ pc[u]["copy"] \in {"named", "ready"} =>
              /\ name[u]["copy"] = object[u].file \/ name[u]["copy"] \notin DOMAIN files[u]
              /\ \A n \in DOMAIN files[u] : n[2] <= name[u]["copy"][2]
  BY <1>0 DEF NewestIsOpen
\* A step after which all of that is as before.
<1>3. ASSUME misled' = misled, DOMAIN files'[u] = DOMAIN files[u],
             object'[u].file = object[u].file, name'[u]["copy"] = name[u]["copy"],
             pc'[u]["copy"] \in {"named", "ready"} => pc[u]["copy"] \in {"named", "ready"}
      PROVE  /\ object'[u].file = NoName => DOMAIN files'[u] = {}
             /\ \A n \in DOMAIN files'[u] : n[2] <= object'[u].file[2]
             /\ pc'[u]["copy"] \in {"named", "ready"} =>
                  /\ \/ name'[u]["copy"] = object'[u].file
                     \/ name'[u]["copy"] \notin DOMAIN files'[u]
                  /\ \A n \in DOMAIN files'[u] : n[2] <= name'[u]["copy"][2]
  BY <1>2, <1>3, Zenon
<1>4. CASE Plain
  BY <1>3, <1>4, PlainSteps DEF Quiet
<1>5. ASSUME NEW o \in Outputs, PluginWriter(o) \/ FlusherOf(o) \/ CloseOutput(o)
      PROVE  /\ object'[u].file = NoName => DOMAIN files'[u] = {}
             /\ \A n \in DOMAIN files'[u] : n[2] <= object'[u].file[2]
             /\ pc'[u]["copy"] \in {"named", "ready"} =>
                  /\ \/ name'[u]["copy"] = object'[u].file
                     \/ name'[u]["copy"] \notin DOMAIN files'[u]
                  /\ \A n \in DOMAIN files'[u] : n[2] <= name'[u]["copy"][2]
  <2>. DEFINE Goal == /\ object'[u].file = NoName => DOMAIN files'[u] = {}
                      /\ \A n \in DOMAIN files'[u] : n[2] <= object'[u].file[2]
                      /\ pc'[u]["copy"] \in {"named", "ready"} =>
                           /\ \/ name'[u]["copy"] = object'[u].file
                              \/ name'[u]["copy"] \notin DOMAIN files'[u]
                           /\ \A n \in DOMAIN files'[u] : n[2] <= name'[u]["copy"][2]
  <2>0. "copy" \in Procs /\ "flusher" \in Procs /\ DOMAIN files[u] \subseteq Names
    BY DEF Procs, Base, Typed
  <2>1. ASSUME misled' = misled, OthersSame(o), u # o PROVE Goal
    BY <1>3, <2>1 DEF OthersSame
  <2>2. ASSUME Quiet, OthersSame(o), name'[o]["copy"] = name[o]["copy"],
               pc'[o]["copy"] \in {"named", "ready"} => pc[o]["copy"] \in {"named", "ready"}
        PROVE  Goal
    <3>1. CASE u = o
      BY <1>3, <2>2, <3>1 DEF Quiet
    <3>2. CASE u # o
      BY <2>1, <2>2, <3>2 DEF Quiet
    <3>. QED BY <3>1, <3>2
  <2>3. CASE SetID(o)
    <3>1. pc'[o]["copy"] = "identified"
      BY <2>0, <2>3 DEF SetID, Base, Typed
    <3>. QED BY <2>2, <2>3, <3>1, SetIDSteps
  <2>4. CASE Wake(o)
    <3>1. pc'[o]["copy"] = pc[o]["copy"]
      BY <2>0, <2>4 DEF Wake, Base, Typed
    <3>. QED BY <2>2, <2>4, <3>1, WakeSteps
  <2>5. ASSUME NEW p \in Procs, UpdateName(o, p) PROVE Goal
    <3>1. pc'[o]["copy"] \in {"named", "ready"} => pc[o]["copy"] \in {"named", "ready"}
      BY <2>0, <2>5 DEF UpdateName, Base, Typed
    <3>. QED BY <2>2, <2>5, <3>1, UpdateNameSteps
  <2>6. CASE GetName(o, "flusher", "awake")
    <3>1. pc'[o]["copy"] = pc[o]["copy"]
      BY <2>0, <2>6 DEF GetName, Base, Typed
    <3>2. Quiet /\ OthersSame(o) /\ name'[o]["copy"] = name[o]["copy"]
      BY <2>0, <2>6, GetNameSteps
    <3>. QED BY <2>2, <3>1, <3>2
  <2>7. CASE WriterGetsName(o)
    <3>1. Quiet /\ OthersSame(o) /\ name'[o]["copy"] = Filename(o) /\ object' = object
      BY <2>0, <2>7, GetNameSteps DEF WriterGetsName
    <3>2. CASE u # o
      BY <2>1, <3>1, <3>2 DEF Quiet
    <3>3. CASE u = o
      <4>1. PICK f, g : f = Filename(o) /\ g = object[o].file
        OBVIOUS
      <4>2. /\ f \in Names /\ f[1] = object[o].id
            /\ \A n \in DOMAIN files[o] : n[1] = object[o].id => n[2] <= f[2]
        BY <4>1, FilenameIs
      <4>3. /\ object[o].id = "" /\ g[1] = "" /\ \A n \in DOMAIN files[o] : n[1] = ""
        BY <4>1 DEF OneName
      <4>4. u \notin misled /\ files' = files
        BY <3>1 DEF Quiet
      <4>5. /\ g = NoName => DOMAIN files[o] = {}
            /\ \A n \in DOMAIN files[o] : n[2] <= g[2]
        BY <1>2, <3>3, <4>1, <4>4
      <4>6. g = NoName \/ g \in DOMAIN files[o]
        BY <4>1 DEF Base, Descriptor
      <4>7. \A n \in DOMAIN files[o] : n[2] <= f[2]
        BY <4>2, <4>3
      <4>8. ASSUME f \in DOMAIN files[o] PROVE f = g
        <5>1. g \in DOMAIN files[o]
          BY <4>5, <4>6, <4>8
        <5>2. g \in Names /\ f[2] <= g[2] /\ g[2] <= f[2]
          BY <2>0, <3>3, <4>5, <4>7, <4>8, <5>1
        <5>3. f[2] \in Nat /\ g[2] \in Nat
          BY <4>2, <5>2 DEF Names
        <5>4. f[2] = g[2]
          BY <5>2, <5>3
        <5>5. f[1] = g[1]
          BY <4>2, <4>3
        <5>. QED BY <4>2, <5>2, <5>4, <5>5, SameName
      <4>9. object'[o].file = g /\ name'[o]["copy"] = f
        BY <3>1, <4>1
      <4>. QED BY <3>3, <4>4, <4>5, <4>7, <4>8, <4>9
    <3>. QED BY <3>2, <3>3
  <2>8. CASE Flush(o) \/ CloseOutput(o)
    <3>1. /\ object'[o].file = object[o].file /\ OthersSame(o)
          /\ DOMAIN files'[o] = DOMAIN files[o]
      BY <2>8, DrainSteps, FlushedIs DEF Drained
    <3>2. misled' = misled /\ name' = name /\ pc'[o]["copy"] = pc[o]["copy"]
      BY <2>0, <2>8 DEF Flush, CloseOutput, history, Base, Typed
    <3>3. CASE u = o
      BY <1>3, <3>1, <3>2, <3>3
    <3>4. CASE u # o
      BY <2>1, <3>1, <3>2, <3>4
    <3>. QED BY <3>3, <3>4
  <2>9. CASE Write(o) \/ WritePanics(o)
    <3>1. PICK content \in Seq(Nat) : Stored(o, content) /\ Account(o, content)
      <4>1. CASE Write(o)
        BY <4>1, WriteStores, AssembledIs DEF Write
      <4>2. CASE WritePanics(o)
        <5>1. Stored(o, <<>>) /\ Account(o, <<>>)
          BY <4>2, WritePanicsStores DEF WritePanics
        <5>2. <<>> \in Seq(Nat)
          OBVIOUS
        <5>. QED BY <5>1, <5>2, Zenon
      <4>. QED BY <2>9, <4>1, <4>2
    <3>2. OthersSame(o) /\ name' = name
      BY <2>9, WriteStores, WritePanicsStores DEF Write, WritePanics
    <3>3. misled' = IF object[o].currentName # name[o]["copy"] THEN misled \cup {o} ELSE misled
      BY <3>1, AccountIs
    <3>4. pc'[o]["copy"] \in {"idle", "ready"} /\ pc[o]["copy"] = "ready"
      BY <2>0, <2>9 DEF Write, WritePanics, Base, Typed
    <3>5. CASE u # o
      <4>1. /\ files'[u] = files[u] /\ object'[u] = object[u]
            /\ pc'[u] = pc[u] /\ name'[u] = name[u]
        BY <3>2, <3>5 DEF OthersSame
      <4>2. u \notin misled
        BY <3>3, <3>5
      <4>. QED BY <1>2, <4>1, <4>2, Zenon
    <3>6. CASE u = o
      <4>1. PICK c : c = object[o].currentName
        OBVIOUS
      <4>2. u \notin misled /\ name[o]["copy"] = c
        BY <3>3, <3>6, <4>1
      <4>3. CASE Reopened(o, content)
        <5>1. DOMAIN files'[o] = DOMAIN files[o] \cup {c} /\ object'[o].file = c
          BY <4>1, <4>3, ReopenedSets DEF Reopened
        <5>2. c \in Names /\ c[2] <= c[2]
          <6>1. c \in Names
            BY <4>1, ObjectTyped DEF Base
          <6>2. c[2] \in Nat
            BY <6>1 DEF Names
          <6>. QED BY <6>1, <6>2
        <5>3. \A n \in DOMAIN files[o] : n[2] <= c[2]
          BY <1>2, <3>4, <3>6, <4>2
        <5>4. \A n \in DOMAIN files'[o] : n[2] <= c[2]
          BY <5>1, <5>2, <5>3
        <5>5. c # NoName
          BY <5>2, NoNameApart
        <5>. QED BY <3>2, <3>6, <4>2, <5>1, <5>4, <5>5
      <4>4. CASE Appended(o, content)
        <5>1. /\ DOMAIN files'[o] = DOMAIN files[o] /\ object'[o].file = object[o].file
          BY <4>4, AppendedSets DEF Appended
        <5>. QED BY <1>2, <3>2, <3>4, <3>6, <4>2, <5>1
      <4>. QED BY <3>1, <4>3, <4>4 DEF Stored
    <3>. QED BY <3>5, <3>6
  <2>10. ~OpenFails(o)
    BY DEF OpenFails
  <2>. QED BY <1>5, <2>0, <2>3, <2>4, <2>5, <2>6, <2>7, <2>8, <2>9, <2>10
           DEF PluginWriter, FlusherOf
<1>. QED BY <1>4, <1>5 DEF Next, Main, Plain

NamesInv == TypeInv /\ OwnName /\ OneName /\ OwnFile /\ NewestIsOpen

LEMMA NamesInvInit ==
    ASSUME Init
    PROVE  NamesInv
<1>1. TypeInv
  BY TypeInvInit
<1>2. OwnName
  BY DEF Init, OwnName, Outputs, Procs
<1>3. OneName
  BY DEF Init, OneName, NewObject, NoName, Outputs, Procs
<1>4. OwnFile
  BY ShortSet DEF Init, OwnFile, NewObject
<1>5. NewestIsOpen
  BY DEF Init, NewestIsOpen, Outputs, Procs
<1>. QED BY <1>1, <1>2, <1>3, <1>4, <1>5 DEF NamesInv

LEMMA NamesInvNext ==
    ASSUME NamesInv, [Next]_vars
    PROVE  NamesInv'
<1>1. CASE Next
  BY <1>1, TypeInvNext, NamesNext, OwnFileNext, NewestIsOpenNext DEF NamesInv, TypeInv
<1>2. CASE UNCHANGED vars
  <2>1. TypeInv'
    BY <1>2, TypeInvNext DEF NamesInv
  <2>2. UNCHANGED <<requestPerFile, files, object, pc, name, taken, process, misled>>
    BY <1>2 DEF vars, history
  <2>3. OwnName' /\ OneName'
    BY <2>2, Zenon DEF NamesInv, OwnName, OneName
  <2>4. OwnFile'
    BY <2>2, Zenon DEF NamesInv, OwnFile
  <2>5. NewestIsOpen'
    BY <2>2, Zenon DEF NamesInv, NewestIsOpen
  <2>. QED BY <2>1, <2>3, <2>4, <2>5 DEF NamesInv
<1>. QED BY <1>1, <1>2

\* With %r, a message is in a file of its own id and in no other, unless a late name of
\* the flusher was followed.
THEOREM FilesHoldTheirId == Spec => []OwnFile
<1>1. Init => NamesInv
  BY NamesInvInit
<1>2. NamesInv /\ [Next]_vars => NamesInv'
  BY NamesInvNext
<1>3. NamesInv => OwnFile
  BY DEF NamesInv
<1>. QED BY <1>1, <1>2, <1>3, PTL DEF Spec

\* What disappears from a file makes room for a message of its id, or the writer had
\* followed a late name of the flusher.
THEOREM NamesReturnOnly == Spec => ReturnsOnly
<1>1. Init => NamesInv
  BY NamesInvInit
<1>2. NamesInv /\ [Next]_vars => NamesInv'
  BY NamesInvNext
<1>3. NamesInv /\ [Next]_vars =>
        [\A o \in Outputs : \A k \in lost'[o] \ lost[o] :
            o \in misled' \/ (requestPerFile /\ Ids[k] = Ids[taken])]_vars
  <2>. SUFFICES ASSUME NamesInv, Next, NEW o \in Outputs, NEW k \in lost'[o] \ lost[o],
                       o \notin misled'
                PROVE  requestPerFile /\ Ids[k] = Ids[taken]
    OBVIOUS
  <2>. USE DEF NamesInv, TypeInv
  <2>1. CASE Passing
    BY <2>1 DEF Passing, Quiet
  <2>2. ASSUME NEW w \in Outputs, Draining(w) PROVE FALSE
    BY <2>2 DEF Draining
  <2>3. ASSUME NEW w \in Outputs, NEW content \in Seq(Nat), Storing(w, content)
        PROVE  requestPerFile /\ Ids[k] = Ids[taken]
    <3>1. w = o
      BY <2>3 DEF Storing, OthersSame
    <3>2. /\ lost'[o] = lost[o] \cup (InFiles(files[o]) \ InFiles(files'[o]))
          /\ misled' = IF object[o].currentName # name[o]["copy"]
                       THEN misled \cup {o} ELSE misled
      BY <2>3, <3>1, AccountIs DEF Storing
    <3>3. PICK c : c = object[o].currentName
      OBVIOUS
    <3>4. o \notin misled /\ c = name[o]["copy"] /\ pc[o]["copy"] = "ready"
      BY <2>3, <3>1, <3>2, <3>3 DEF Storing
    <3>5. PICK n \in DOMAIN files[o] : k \in ToSet(files[o][n])
      BY <3>2, InFilesIs
    <3>6. \A m \in DOMAIN files'[o] : k \notin ToSet(files'[o][m])
      BY <3>2, InFilesIs
    <3>7. CASE Appended(o, content)
      BY <3>5, <3>6, <3>7, AppendedSets
    <3>8. CASE Reopened(o, content)
      <4>1. /\ DOMAIN files'[o] = DOMAIN files[o] \cup {c}
            /\ \A m \in DOMAIN files[o] \ {c} : ToSet(files[o][m]) \subseteq ToSet(files'[o][m])
        <5>1. /\ files'[o] \in [DOMAIN files[o] \cup {c} -> Seq(Nat)]
              /\ \A m \in DOMAIN files[o] \ {c} :
                   ToSet(files'[o][m]) = ToSet(files[o][m])
                      \cup (IF object[o].open /\ m = object[o].file
                            THEN ToSet(object[o].buffer) ELSE {})
          BY <3>3, <3>8, ReopenedSets
        <5>2. DOMAIN files'[o] = DOMAIN files[o] \cup {c}
          BY <5>1
        <5>3. ASSUME NEW m \in DOMAIN files[o] \ {c}
              PROVE  ToSet(files[o][m]) \subseteq ToSet(files'[o][m])
          BY <5>1
        <5>. QED BY <5>2, <5>3
      <4>2. n = c
        BY <3>5, <3>6, <4>1
      <4>3. CASE requestPerFile
        <5>1. Ids[k] = c[1]
          BY <3>4, <3>5, <4>2, <4>3 DEF OwnFile
        <5>2. c[1] = Ids[taken]
          BY <3>4, <4>3 DEF OwnName
        <5>. QED BY <4>3, <5>1, <5>2
      <4>4. CASE ~requestPerFile
        <5>1. c = object[o].file \/ c \notin DOMAIN files[o]
          BY <3>4, <4>4 DEF NewestIsOpen, Next
        <5>2. c = object[o].file /\ object[o].file = NoName
          BY <3>3, <3>5, <3>8, <4>2, <5>1 DEF Reopened, Reopens
        <5>3. c \in Names
          BY <3>3, ObjectTyped DEF Base
        <5>. QED BY <5>2, <5>3, NoNameApart
      <4>. QED BY <4>3, <4>4
    <3>9. Stored(o, content)
      BY <2>3, <3>1 DEF Storing
    <3>. QED BY <3>7, <3>8, <3>9 DEF Stored
  <2>. QED BY <2>1, <2>2, <2>3, StepKinds
<1>. QED BY <1>1, <1>2, <1>3, PTL DEF Spec, ReturnsOnly
=============================================================================
