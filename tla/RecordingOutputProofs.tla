----------------------- MODULE RecordingOutputProofs -----------------------
(***************************************************************************)
(* Each output of a recording does, step by step, what FileOutput says: a  *)
(* file is found by its index there, by its name here.                     *)
(***************************************************************************)
EXTENDS RecordingOutput, RecordingProofs

-----------------------------------------------------------------------------
(* The files by their index *)

\* Files without an id in their names.
Unnamed(fs) == \A n \in DOMAIN fs : n[2] \in Nat /\ n = <<"", n[2]>>

LEMMA UnnamedFiles ==
    ASSUME Base, OneName, ~requestPerFile, NEW o \in Outputs
    PROVE  /\ Unnamed(files[o]) /\ object[o].id = ""
           /\ object[o].currentName[2] \in Nat
           /\ object[o].currentName = <<"", object[o].currentName[2]>>
           /\ object[o].file # NoName =>
                object[o].file[2] \in Nat /\ object[o].file = <<"", object[o].file[2]>>
<1>1. ASSUME NEW n \in Names, n[1] = "" PROVE n[2] \in Nat /\ n = <<"", n[2]>>
  <2>1. PICK e, i : n = <<e, i>> /\ i \in Nat
    BY DEF Names
  <2>2. n[1] = e /\ n[2] = i
    BY <2>1
  <2>. QED BY <1>1, <2>1, <2>2, Zenon
<1>2. DOMAIN files[o] \subseteq Names /\ \A n \in DOMAIN files[o] : n[1] = ""
  BY DEF Base, Typed, OneName
<1>3. Unnamed(files[o])
  BY <1>1, <1>2, Zenon DEF Unnamed
<1>4. object[o].currentName \in Names /\ object[o].currentName[1] = "" /\ object[o].id = ""
  BY ObjectTyped DEF Base, OneName
<1>5. object[o].file # NoName => object[o].file \in Names /\ object[o].file[1] = ""
  BY ObjectTyped DEF Base, OneName
<1>. QED BY <1>1, <1>3, <1>4, <1>5, Zenon

LEMMA SamePair ==
    ASSUME NEW i, NEW c, c = <<"", c[2]>>
    PROVE  <<"", i>> = c <=> i = c[2]
<1>1. PICK e, j : c = <<e, j>> /\ e = ""
  BY Zenon
<1>2. c[2] = j
  BY <1>1
<1>3. <<e, i>> = <<e, j>> <=> i = j
  OBVIOUS
<1>. QED BY <1>1, <1>2, <1>3, Zenon

LEMMA IndexedIs ==
    ASSUME NEW fs, Unnamed(fs)
    PROVE  /\ DOMAIN Indexed(fs) = {n[2] : n \in DOMAIN fs}
           /\ \A i \in DOMAIN Indexed(fs) :
                <<"", i>> \in DOMAIN fs /\ Indexed(fs)[i] = fs[<<"", i>>]
           /\ \A n \in DOMAIN fs : n[2] \in DOMAIN Indexed(fs) /\ Indexed(fs)[n[2]] = fs[n]
<1>1. \A n \in DOMAIN fs : n = <<"", n[2]>>
  BY DEF Unnamed
<1>2. DOMAIN Indexed(fs) = {n[2] : n \in DOMAIN fs}
      /\ \A i \in DOMAIN Indexed(fs) : Indexed(fs)[i] = fs[<<"", i>>]
  BY DEF Indexed
<1>3. ASSUME NEW i \in DOMAIN Indexed(fs) PROVE <<"", i>> \in DOMAIN fs
  <2>1. PICK n \in DOMAIN fs : i = n[2]
    BY <1>2
  <2>. QED BY <1>1, <2>1
<1>4. ASSUME NEW n \in DOMAIN fs
      PROVE  n[2] \in DOMAIN Indexed(fs) /\ Indexed(fs)[n[2]] = fs[n]
  <2>1. n[2] \in DOMAIN Indexed(fs)
    BY <1>2
  <2>2. Indexed(fs)[n[2]] = fs[<<"", n[2]>>]
    BY <1>2, <2>1
  <2>. QED BY <1>1, <2>1, <2>2
<1>. QED BY <1>2, <1>3, <1>4

\* A file is changed where it is found by its index,
LEMMA IndexedExcept ==
    ASSUME NEW fs, Unnamed(fs), NEW f \in DOMAIN fs, NEW v
    PROVE  Indexed([fs EXCEPT ![f] = v]) = [Indexed(fs) EXCEPT ![f[2]] = v]
<1>1. PICK g : g = [fs EXCEPT ![f] = v]
  OBVIOUS
<1>2. DOMAIN g = DOMAIN fs /\ \A n \in DOMAIN fs : g[n] = IF n = f THEN v ELSE fs[n]
  BY <1>1
<1>3. Unnamed(g)
  BY <1>2 DEF Unnamed
<1>4. f = <<"", f[2]>>
  BY DEF Unnamed
<1>5. DOMAIN Indexed(g) = DOMAIN Indexed(fs)
  BY <1>2, <1>3, IndexedIs
<1>6. ASSUME NEW i \in DOMAIN Indexed(fs)
      PROVE  Indexed(g)[i] = IF i = f[2] THEN v ELSE Indexed(fs)[i]
  <2>1. <<"", i>> \in DOMAIN fs /\ Indexed(fs)[i] = fs[<<"", i>>]
    BY IndexedIs
  <2>2. Indexed(g)[i] = g[<<"", i>>]
    BY <1>3, <1>5, IndexedIs
  <2>3. <<"", i>> = f <=> i = f[2]
    BY <1>4, SamePair
  <2>. QED BY <1>2, <2>1, <2>2, <2>3
<1>7. Indexed(g) = [i \in DOMAIN Indexed(g) |-> Indexed(g)[i]]
  BY DEF Indexed
<1>8. [Indexed(fs) EXCEPT ![f[2]] = v]
         = [i \in DOMAIN Indexed(fs) |-> IF i = f[2] THEN v ELSE Indexed(fs)[i]]
  BY DEF Indexed
<1>9. Indexed(g) = [i \in DOMAIN Indexed(fs) |-> IF i = f[2] THEN v ELSE Indexed(fs)[i]]
  BY <1>5, <1>6, <1>7
<1>. QED BY <1>1, <1>8, <1>9, Zenon

\* and truncated where it was.
LEMMA IndexedTruncated ==
    ASSUME NEW fs, Unnamed(fs), NEW c, c[2] \in Nat, c = <<"", c[2]>>
    PROVE  Indexed([n \in DOMAIN fs \cup {c} |-> IF n = c THEN <<>> ELSE fs[n]])
              = Output!Truncated(Indexed(fs), c[2])
<1>1. PICK g : g = [n \in DOMAIN fs \cup {c} |-> IF n = c THEN <<>> ELSE fs[n]]
  OBVIOUS
<1>2. /\ DOMAIN g = DOMAIN fs \cup {c}
      /\ \A n \in DOMAIN g : g[n] = IF n = c THEN <<>> ELSE fs[n]
  BY <1>1
<1>3. Unnamed(g)
  BY <1>2 DEF Unnamed
<1>4. DOMAIN Indexed(g) = DOMAIN Indexed(fs) \cup {c[2]}
  <2>1. /\ DOMAIN Indexed(g) = {n[2] : n \in DOMAIN g}
        /\ DOMAIN Indexed(fs) = {n[2] : n \in DOMAIN fs}
    BY <1>3, IndexedIs
  <2>. QED BY <1>2, <2>1
<1>5. ASSUME NEW i \in DOMAIN Indexed(g)
      PROVE  Indexed(g)[i] = IF i = c[2] THEN <<>> ELSE Indexed(fs)[i]
  <2>1. <<"", i>> \in DOMAIN g /\ Indexed(g)[i] = g[<<"", i>>]
    BY <1>3, IndexedIs
  <2>2. <<"", i>> = c <=> i = c[2]
    BY SamePair
  <2>3. CASE i = c[2]
    BY <1>2, <2>1, <2>2, <2>3
  <2>4. CASE i # c[2]
    <3>1. i \in DOMAIN Indexed(fs)
      BY <1>4, <2>4
    <3>2. Indexed(fs)[i] = fs[<<"", i>>]
      BY <3>1, IndexedIs
    <3>. QED BY <1>2, <2>1, <2>2, <2>4, <3>2
  <2>. QED BY <2>3, <2>4
<1>6. Indexed(g) = [i \in DOMAIN Indexed(g) |-> Indexed(g)[i]]
  BY DEF Indexed
<1>7. Indexed(g) = [i \in DOMAIN Indexed(fs) \cup {c[2]} |->
                        IF i = c[2] THEN <<>> ELSE Indexed(fs)[i]]
  BY <1>4, <1>5, <1>6
<1>. QED BY <1>1, <1>7, Zenon DEF Output!Truncated

\* filename() finds the same name.
LEMMA FilenameMaps ==
    ASSUME Base, OneName, ~requestPerFile
    PROVE  Filename(Which)[2] = Output!Filename
<1>1. Which \in Outputs
  BY WhichAssumption
<1>. DEFINE D == DOMAIN Indexed(files[Which])
            chunks == {n[2] : n \in {f \in DOMAIN files[Which] : f[1] = object[Which].id}}
<1>2. chunks = D
  <2>1. object[Which].id = "" /\ \A f \in DOMAIN files[Which] : f[1] = ""
    BY <1>1 DEF OneName
  <2>2. D = {n[2] : n \in DOMAIN files[Which]}
    BY <1>1, IndexedIs, UnnamedFiles
  <2>. QED BY <2>1, <2>2
<1>3. object[Which].currentName[2] # -1
  <2>1. object[Which].currentName[2] \in Nat
    BY <1>1, UnnamedFiles
  <2>. QED BY <2>1
<1>4. ChunkFull(Which) <=> Output!ChunkFull
  <2>1. requestPerFile = FALSE
    BY DEF Base, Turns
  <2>. QED BY <2>1 DEF ChunkFull, QueueLimit, Output!ChunkFull, Seen
<1>5. Filename(Which)[2] = IF chunks = {} THEN 0
                           ELSE IF ChunkFull(Which)
                                THEN (CHOOSE i \in chunks : \A j \in chunks : j <= i) + 1
                                ELSE CHOOSE i \in chunks : \A j \in chunks : j <= i
  BY DEF Filename
<1>6. Output!Filename = IF D = {} THEN 0
                        ELSE IF Output!ChunkFull
                             THEN (CHOOSE i \in D : \A j \in D : j <= i) + 1
                             ELSE CHOOSE i \in D : \A j \in D : j <= i
  BY <1>3 DEF Output!Filename, Output!None, Output!Newest, Seen
<1>. HIDE DEF chunks, D
<1>. QED BY <1>2, <1>4, <1>5, <1>6, Zenon

-----------------------------------------------------------------------------
(* The steps *)

\* What FileOutput does not see.
Unseen ==
    /\ files'[Which] = files[Which]
    /\ object'[Which].currentName = object[Which].currentName
    /\ object'[Which].file = object[Which].file /\ object'[Which].open = object[Which].open
    /\ object'[Which].buffer = object[Which].buffer
    /\ object'[Which].queueLength = object[Which].queueLength
    /\ object'[Which].size = object[Which].size /\ object'[Which].closed = object[Which].closed
    /\ pc'[Which] = pc[Which] /\ name'[Which] = name[Which]
    /\ acked'[Which] = acked[Which] /\ late'[Which] = late[Which]
    /\ Which \in closes' <=> Which \in closes
    /\ Begun(Which)' = Begun(Which)

LEMMA UnseenStutters ==
    ASSUME ~requestPerFile, requestPerFile' = requestPerFile, Unseen
    PROVE  UNCHANGED Output!vars
<1>. QED BY DEF Unseen, Output!vars, Output!object, Output!history, Output!main, Seen

\* With %r in the paths nothing is said.
LEMMA PerFileStutters ==
    ASSUME requestPerFile, requestPerFile' = requestPerFile
    PROVE  UNCHANGED Output!vars
<1>. QED BY DEF Output!vars, Output!object, Output!history, Output!main, Seen

LEMMA PlainUnseen ==
    ASSUME Base, Plain
    PROVE  Unseen
<1>1. Which \in Outputs /\ Which \in {"request", "response"}
  BY WhichAssumption DEF Outputs
<1>2. /\ files' = files /\ object' = object /\ pc' = pc /\ name' = name
      /\ acked' = acked /\ late' = late
  BY PlainSteps DEF Quiet
<1>3. Which \in closes' <=> Which \in closes
  BY <1>1 DEF Plain, Read, ReadStopped, CloseInput, Exit
<1>4. Begun(Which)' = Begun(Which)
  <2>1. CASE Read
    <3>1. copying = "reader" /\ copying' = "request" /\ taken' = taken + 1 /\ taken \in Nat
      BY <2>1, RecordingAssumption, LenProperties DEF Read, Base, Turns
    <3>2. pc[Which]["copy"] = "idle"
      BY <1>1, <3>1 DEF Base, Turns
    <3>3. Begun(Which) = taken
      BY <3>1 DEF Begun
    <3>4. Begun(Which)' = taken' - 1
      BY <1>1, <1>2, <3>1, <3>2 DEF Begun
    <3>. QED BY <3>1, <3>3, <3>4
  <2>2. CASE ~Read
    <3>1. /\ taken' = taken
          /\ \/ copying' = copying
             \/ copying = "reader" /\ copying' = "ended"
      BY <2>2 DEF Plain, ReadStopped, CloseInput, Exit
    <3>. QED BY <1>2, <3>1 DEF Begun
  <2>. QED BY <2>1, <2>2
<1>. QED BY <1>2, <1>3, <1>4 DEF Unseen

LEMMA OtherUnseen ==
    ASSUME Base, NEW o \in Outputs, o # Which, process' # "aborted",
           PluginWriter(o) \/ FlusherOf(o) \/ CloseOutput(o)
    PROVE  Unseen
<1>1. /\ Which \in Outputs /\ Which \in {"request", "response"}
      /\ o \in {"request", "response"}
  BY WhichAssumption DEF Outputs
<1>2. ~WritePanics(o) /\ ~OpenFails(o)
  BY DEF WritePanics, OpenFails
<1>3. OthersSame(o)
  <2>1. \A p \in Procs : UpdateName(o, p) => OthersSame(o)
    BY UpdateNameSteps
  <2>2. ASSUME NEW p \in Procs, NEW from, GetName(o, p, from) PROVE OthersSame(o)
    BY <2>2, GetNameSteps
  <2>3. "copy" \in Procs /\ "flusher" \in Procs
    BY DEF Procs
  <2>. QED BY <1>2, <2>1, <2>2, <2>3, SetIDSteps, WriteStores, WakeSteps, DrainSteps
           DEF PluginWriter, FlusherOf, WriterGetsName
<1>4. /\ files'[Which] = files[Which] /\ object'[Which] = object[Which]
      /\ pc'[Which] = pc[Which] /\ name'[Which] = name[Which]
      /\ acked'[Which] = acked[Which] /\ late'[Which] = late[Which]
  BY <1>1, <1>3 DEF OthersSame
<1>5. /\ taken' = taken
      /\ \/ copying' = copying
         \/ Write(o) /\ copying = o /\ copying' = IF o = "request" THEN "response" ELSE "reader"
      /\ closes' = closes \/ closes' = closes \cup {o}
  BY <1>2 DEF PluginWriter, FlusherOf, SetID, WriterGetsName, GetName, UpdateName, Write,
              Wake, Flush, CloseOutput, Base, Turns
<1>6. Begun(Which)' = Begun(Which)
  <2>1. CASE copying' = copying
    BY <1>4, <1>5, <2>1 DEF Begun
  <2>2. CASE copying' # copying
    <3>1. copying = o /\ copying' = IF o = "request" THEN "response" ELSE "reader"
      BY <1>5, <2>2
    <3>2. pc[Which]["copy"] = "idle"
      BY <1>1, <3>1 DEF Base, Turns
    <3>. QED BY <1>1, <1>4, <1>5, <3>1, <3>2 DEF Begun
  <2>. QED BY <2>1, <2>2
<1>7. Which \in closes' <=> Which \in closes
  BY <1>5
<1>. QED BY <1>4, <1>6, <1>7 DEF Unseen

LEMMA GetNameMaps ==
    ASSUME Base, OneName, ~requestPerFile, requestPerFile' = requestPerFile,
           NEW p \in Procs, NEW from, GetName(Which, p, from)
    PROVE  Output!GetName(p, from)
<1>1. Which \in Outputs
  BY WhichAssumption
<1>2. /\ pc[Which][p] = from
      /\ name' = [name EXCEPT ![Which][p] = Filename(Which)]
      /\ pc' = [pc EXCEPT ![Which][p] = "named"]
  BY DEF GetName
<1>3. pc'[Which] = [pc[Which] EXCEPT ![p] = "named"]
  BY <1>1, <1>2 DEF Base, Typed
<1>4. PICK n : n = Filename(Which)
  OBVIOUS
<1>5. name'[Which] = [name[Which] EXCEPT ![p] = n]
  BY <1>1, <1>2, <1>4 DEF Base, Typed
<1>6. [q \in Procs |-> name'[Which][q][2]]
         = [[q \in Procs |-> name[Which][q][2]] EXCEPT ![p] = n[2]]
  BY <1>1, <1>5 DEF Base, Typed
<1>7. n[2] = Output!Filename
  BY <1>4, FilenameMaps
<1>. QED BY <1>2, <1>3, <1>6, <1>7 DEF Output!GetName, Seen

LEMMA UpdateNameMaps ==
    ASSUME Base, OneName, ~requestPerFile, requestPerFile' = requestPerFile,
           NEW p \in Procs, UpdateName(Which, p)
    PROVE  Output!UpdateName(p)
<1>1. Which \in Outputs
  BY WhichAssumption
<1>2. /\ pc[Which][p] = "named" /\ pc' = [pc EXCEPT ![Which][p] = "ready"]
      /\ UNCHANGED <<files, name, taken, copying, closes, acked, late>>
  BY DEF UpdateName, history
<1>3. pc'[Which] = [pc[Which] EXCEPT ![p] = "ready"]
  BY <1>1, <1>2 DEF Base, Typed
<1>4. /\ Quiet /\ object'[Which].currentName = name[Which][p]
  BY <1>1, UpdateNameSteps
<1>5. Begun(Which)' = Begun(Which)
  <2>1. pc'[Which]["copy"] = "idle" <=> pc[Which]["copy"] = "idle"
    BY <1>1, <1>2, <1>3 DEF Base, Typed, Procs
  <2>. QED BY <1>2, <2>1 DEF Begun
<1>. QED BY <1>1, <1>2, <1>3, <1>4, <1>5
         DEF Output!UpdateName, Output!history, Output!main, Seen, Quiet

\* The open file is the one of the current name.
LEMMA ReopensMaps ==
    ASSUME Base, OneName, ~requestPerFile
    PROVE  /\ object[Which].file = NoName <=> object[Which].file[2] = -1
           /\ Reopens(Which) <=> \/ object[Which].file[2] = -1
                                 \/ object[Which].currentName[2] # object[Which].file[2]
<1>1. Which \in Outputs
  BY WhichAssumption
<1>2. PICK c, f : c = object[Which].currentName /\ f = object[Which].file
  OBVIOUS
<1>3. /\ c[2] \in Nat /\ c = <<"", c[2]>>
      /\ f # NoName => f[2] \in Nat /\ f = <<"", f[2]>>
  BY <1>1, <1>2, UnnamedFiles
<1>4. NoName[2] = -1
  BY DEF NoName
<1>5. f = NoName <=> f[2] = -1
  <2>1. f = NoName => f[2] = -1
    BY <1>4, Zenon
  <2>2. f # NoName => f[2] # -1
    <3>1. ASSUME NEW i \in Nat PROVE i # -1
      OBVIOUS
    <3>. QED BY <1>3, <3>1, Zenon
  <2>. QED BY <2>1, <2>2, Zenon
<1>6. f # NoName => (c = f <=> c[2] = f[2])
  BY <1>3, Zenon
<1>. QED BY <1>2, <1>5, <1>6, Zenon DEF Reopens

\* What is handed over goes to the open file.
LEMMA FlushedMaps ==
    ASSUME Base, OneName, ~requestPerFile, NEW ps
    PROVE  Output!Flushed(Indexed(files[Which]), ps)
              = Indexed(IF object[Which].open
                        THEN [files[Which] EXCEPT ![object[Which].file] = @ \o ps]
                        ELSE files[Which])
<1>1. Which \in Outputs
  BY WhichAssumption
<1>2. Unnamed(files[Which])
  BY <1>1, UnnamedFiles
<1>3. CASE object[Which].open
  <2>1. PICK f : f = object[Which].file
    OBVIOUS
  <2>2. f \in DOMAIN files[Which]
    BY <1>1, <1>3, <2>1 DEF Base, Descriptor
  <2>3. PICK v : v = files[Which][f] \o ps
    OBVIOUS
  <2>4. Indexed([files[Which] EXCEPT ![f] = v]) = [Indexed(files[Which]) EXCEPT ![f[2]] = v]
    BY <1>2, <2>2, IndexedExcept
  <2>5. Indexed(files[Which])[f[2]] = files[Which][f]
    BY <1>2, <2>2, IndexedIs
  <2>6. Output!Flushed(Indexed(files[Which]), ps)
          = [Indexed(files[Which]) EXCEPT ![f[2]] = Indexed(files[Which])[f[2]] \o ps]
    BY <1>3, <2>1 DEF Output!Flushed, Seen
  <2>7. Indexed(IF object[Which].open
                        THEN [files[Which] EXCEPT ![object[Which].file] = @ \o ps]
                        ELSE files[Which]) = Indexed([files[Which] EXCEPT ![f] = v])
    BY <1>3, <2>1, <2>3
  <2>. QED BY <2>3, <2>4, <2>5, <2>6, <2>7, Zenon
<1>4. CASE ~object[Which].open
  <2>1. Output!Flushed(Indexed(files[Which]), ps) = Indexed(files[Which])
    BY <1>4 DEF Output!Flushed, Seen
  <2>. QED BY <1>4, <2>1, Zenon
<1>. QED BY <1>3, <1>4

LEMMA OpenAndWriteMaps ==
    ASSUME Base, OneName, ~requestPerFile, requestPerFile' = requestPerFile,
           NEW content \in Seq(Nat), Reopened(Which, content)
    PROVE  Output!OpenAndWrite(content) /\ object'[Which].currentName = object[Which].currentName
<1>1. Which \in Outputs
  BY WhichAssumption
<1>2. PICK c : c = object[Which].currentName
  OBVIOUS
<1>3. c[2] \in Nat /\ c = <<"", c[2]>>
  BY <1>1, <1>2, UnnamedFiles
<1>4. PICK fs : fs = Flushed(Which)
  OBVIOUS
<1>5. DOMAIN fs = DOMAIN files[Which] /\ Unnamed(fs)
  <2>1. DOMAIN fs = DOMAIN files[Which]
    BY <1>1, <1>4, FlushedIs
  <2>. QED BY <1>1, <2>1, UnnamedFiles DEF Unnamed
<1>6. Indexed(fs) = Output!Flushed(Indexed(files[Which]), object[Which].buffer)
  BY <1>4, FlushedMaps DEF Flushed
<1>7. files'[Which] = [n \in DOMAIN fs \cup {c} |-> IF n = c THEN <<>> ELSE fs[n]]
  BY <1>2, <1>4, <1>5 DEF Reopened
<1>8. Indexed(files'[Which])
        = Output!Truncated(Output!Flushed(Indexed(files[Which]), object[Which].buffer), c[2])
  <2>1. Indexed([n \in DOMAIN fs \cup {c} |-> IF n = c THEN <<>> ELSE fs[n]])
          = Output!Truncated(Indexed(fs), c[2])
    BY <1>3, <1>5, IndexedTruncated
  <2>. QED BY <1>6, <1>7, <2>1, Zenon
<1>9. \/ object[Which].file[2] = -1
      \/ object[Which].currentName[2] # object[Which].file[2]
  BY ReopensMaps DEF Reopened
<1>10. /\ object'[Which].file[2] = c[2] /\ object'[Which].open = TRUE
       /\ object'[Which].closed = TRUE /\ object'[Which].buffer = content
       /\ object'[Which].queueLength = Len(content) /\ object'[Which].size = Len(content)
       /\ object'[Which].currentName = c
  BY <1>2 DEF Reopened
<1>. QED BY <1>2, <1>8, <1>9, <1>10 DEF Output!OpenAndWrite, Output!None, Seen

LEMMA WriteOnMaps ==
    ASSUME Base, OneName, ~requestPerFile, requestPerFile' = requestPerFile,
           NEW content \in Seq(Nat), Appended(Which, content)
    PROVE  Output!WriteOn(content) /\ object'[Which].currentName = object[Which].currentName
<1>1. PICK held : held = object[Which].buffer \o content
  OBVIOUS
<1>2. PICK n \in 0..Len(held) :
        /\ files'[Which] = IF object[Which].open
                           THEN [files[Which] EXCEPT ![object[Which].file]
                                                        = @ \o SubSeq(held, 1, n)]
                           ELSE files[Which]
        /\ object'[Which].buffer = SubSeq(held, n + 1, Len(held))
  BY <1>1 DEF Appended
<1>3. Indexed(files'[Which]) = Output!Flushed(Indexed(files[Which]), SubSeq(held, 1, n))
  BY <1>2, FlushedMaps
<1>4. object[Which].file[2] # -1 /\ object[Which].currentName[2] = object[Which].file[2]
  BY ReopensMaps DEF Appended
<1>5. /\ object'[Which].file = object[Which].file /\ object'[Which].open = object[Which].open
      /\ object'[Which].closed = object[Which].closed
      /\ object'[Which].queueLength = object[Which].queueLength + Len(content)
      /\ object'[Which].size = object[Which].size + Len(content)
      /\ object'[Which].currentName = object[Which].currentName
  BY DEF Appended
<1>6. \E m \in 0..Len(object[Which].buffer \o content) :
        /\ Indexed(files'[Which]) = Output!Flushed(Indexed(files[Which]),
              SubSeq(object[Which].buffer \o content, 1, m))
        /\ object'[Which].buffer = SubSeq(object[Which].buffer \o content, m + 1,
              Len(object[Which].buffer \o content))
  BY <1>1, <1>2, <1>3, Zenon
<1>. QED BY <1>4, <1>5, <1>6 DEF Output!WriteOn, Output!None, Seen

LEMMA WriteMaps ==
    ASSUME Base, OneName, ~requestPerFile, requestPerFile' = requestPerFile, Write(Which)
    PROVE  Output!Write("copy")
<1>1. Which \in Outputs /\ Which \in {"request", "response"}
  BY WhichAssumption DEF Outputs
<1>2. pc[Which]["copy"] = "ready" /\ copying = Which
  BY <1>1 DEF Write, Base, Turns
<1>3. pc'[Which] = [pc[Which] EXCEPT !["copy"] = "idle"] /\ pc'[Which]["copy"] = "idle"
  BY <1>1 DEF Write, Base, Typed, Procs
<1>4. /\ taken' = taken /\ name' = name /\ closes' = closes
      /\ copying' = IF Which = "request" THEN "response" ELSE "reader"
      /\ Account(Which, Assembled(Which))
  BY DEF Write
<1>5. Begun(Which) = taken /\ Begun(Which)' = taken
  BY <1>1, <1>2, <1>3, <1>4 DEF Begun
<1>6. PICK content \in Seq(Nat) : content = Assembled(Which)
  BY <1>1, AssembledIs
<1>7. Output!Assemble(taken) = content
  BY <1>6 DEF Output!Assemble, AcceptedByWhich, Assembled
<1>8. /\ Output!OpenAndWrite(content) \/ Output!WriteOn(content)
      /\ object'[Which].currentName = object[Which].currentName
  BY <1>1, <1>6, WriteStores, OpenAndWriteMaps, WriteOnMaps DEF Stored
<1>9. acked'[Which] \cup late'[Which] = (acked[Which] \cup late[Which]) \cup ToSet(content)
  BY <1>1, <1>4, <1>6, AccountIs
<1>10. [w \in {"copy"} |-> Seen(Begun(Which), 0)]["copy"] = taken
  BY <1>5 DEF Seen
<1>11. Output!Assemble([w \in {"copy"} |-> Seen(Begun(Which), 0)]["copy"]) = content
  BY <1>7, <1>10, Zenon
<1>12. /\ Seen(pc[Which], [p \in Procs |-> "idle"])["copy"] = "ready"
       /\ Seen(pc[Which], [p \in Procs |-> "idle"])'
             = [Seen(pc[Which], [p \in Procs |-> "idle"]) EXCEPT !["copy"] = "idle"]
  BY <1>2, <1>3 DEF Seen
<1>13. Seen(acked[Which] \cup late[Which], {})'
          = Seen(acked[Which] \cup late[Which], {}) \cup Output!ToSet(content)
  BY <1>9 DEF Seen, ToSet, Output!ToSet
<1>14. UNCHANGED <<Seen(object[Which].currentName[2], 0),
                   Seen([p \in Procs |-> name[Which][p][2]], [p \in Procs |-> -1]),
                   [w \in {"copy"} |-> Seen(Begun(Which), 0)], Seen(Begun(Which), 0),
                   Seen(Which \in closes, FALSE)>>
  BY <1>4, <1>5, <1>8 DEF Seen
<1>. QED BY <1>8, <1>11, <1>12, <1>13, <1>14, Zenon DEF Output!Write, Output!main

LEMMA WriterGetsNameMaps ==
    ASSUME Base, OneName, ~requestPerFile, requestPerFile' = requestPerFile,
           WriterGetsName(Which)
    PROVE  Output!PluginWriter("copy")
<1>1. Which \in Outputs /\ Which \in {"request", "response"} /\ "copy" \in Procs
  BY WhichAssumption DEF Outputs, Procs
<1>2. /\ GetName(Which, "copy", "idle") /\ copying = Which
      /\ pc[Which]["copy"] = "idle" /\ pc' = [pc EXCEPT ![Which]["copy"] = "named"]
      /\ UNCHANGED <<files, object, taken, copying, closes, acked, late>>
  BY DEF WriterGetsName, GetName, history
<1>3. Output!GetName("copy", "idle")
  BY <1>1, <1>2, GetNameMaps
<1>4. taken \in 1..Len(Traffic) /\ Len(Traffic) \in Nat
  BY <1>1, <1>2, IdOfTaken, RecordingAssumption, LenProperties
<1>5. pc'[Which]["copy"] = "named"
  BY <1>1, <1>2 DEF Base, Typed
<1>6. Begun(Which) = taken - 1 /\ Begun(Which)' = taken
  BY <1>1, <1>2, <1>5 DEF Begun
<1>7. Begun(Which) < Len(Traffic) /\ Begun(Which)' = Begun(Which) + 1
  BY <1>4, <1>6
<1>8. [w \in {"copy"} |-> Begun(Which)'] = [[w \in {"copy"} |-> Begun(Which)] EXCEPT !["copy"] = Begun(Which)']
  OBVIOUS
<1>. QED BY <1>2, <1>3, <1>7, <1>8
         DEF Output!PluginWriter, Output!object, Output!main, Seen

\* What is not the writer's turn leaves its record as it is.
LEMMA BegunSame ==
    ASSUME pc'[Which]["copy"] = pc[Which]["copy"], taken' = taken, copying' = copying
    PROVE  Begun(Which)' = Begun(Which)
<1>. QED BY DEF Begun

LEMMA FlusherGetsNameMaps ==
    ASSUME Base, OneName, ~requestPerFile, requestPerFile' = requestPerFile,
           GetName(Which, "flusher", "awake")
    PROVE  Output!FlusherGetName
<1>1. Which \in Outputs /\ "flusher" \in Procs /\ "copy" \in Procs
  BY WhichAssumption DEF Procs
<1>2. /\ pc' = [pc EXCEPT ![Which]["flusher"] = "named"]
      /\ UNCHANGED <<files, object, taken, copying, closes, acked, late>>
  BY DEF GetName, history
<1>3. Output!GetName("flusher", "awake")
  BY <1>1, GetNameMaps
<1>4. Begun(Which)' = Begun(Which)
  BY <1>1, <1>2, BegunSame DEF Base, Typed
<1>. QED BY <1>2, <1>3, <1>4
         DEF Output!FlusherGetName, Output!object, Output!history, Output!main, Seen

LEMMA WakeMaps ==
    ASSUME Base, ~requestPerFile, requestPerFile' = requestPerFile, Wake(Which)
    PROVE  Output!Wake
<1>1. Which \in Outputs /\ "flusher" \in Procs /\ "copy" \in Procs
  BY WhichAssumption DEF Procs
<1>2. /\ pc[Which]["flusher"] = "idle"
      /\ pc' = [pc EXCEPT ![Which]["flusher"] = IF object[Which].closed THEN "gone" ELSE "awake"]
      /\ UNCHANGED <<files, object, name, taken, copying, closes, acked, late>>
  BY DEF Wake, history
<1>3. pc'[Which] = [pc[Which] EXCEPT !["flusher"] = IF object[Which].closed THEN "gone" ELSE "awake"]
  BY <1>1, <1>2 DEF Base, Typed
<1>4. Begun(Which)' = Begun(Which)
  BY <1>1, <1>2, BegunSame DEF Base, Typed
<1>. QED BY <1>2, <1>3, <1>4
         DEF Output!Wake, Output!object, Output!history, Output!main, Seen

LEMMA FlushMaps ==
    ASSUME Base, OneName, ~requestPerFile, requestPerFile' = requestPerFile, Flush(Which)
    PROVE  Output!Flush
<1>1. Which \in Outputs /\ "flusher" \in Procs /\ "copy" \in Procs
  BY WhichAssumption DEF Procs
<1>2. /\ pc[Which]["flusher"] = "ready" /\ pc' = [pc EXCEPT ![Which]["flusher"] = "idle"]
      /\ UNCHANGED <<name, taken, copying, closes, acked, late>>
  BY DEF Flush, history
<1>3. pc'[Which] = [pc[Which] EXCEPT !["flusher"] = "idle"]
  BY <1>1, <1>2 DEF Base, Typed
<1>4. Begun(Which)' = Begun(Which)
  BY <1>1, <1>2, BegunSame DEF Base, Typed
<1>5. /\ Drained(Which) /\ object'[Which].open = object[Which].open
      /\ object'[Which].file = object[Which].file
  BY <1>1, DrainSteps
<1>6. Indexed(files'[Which]) = Output!Flushed(Indexed(files[Which]), object[Which].buffer)
  BY <1>5, FlushedMaps DEF Drained, Flushed
<1>7. object[Which].open => object[Which].file[2] # -1 /\ object[Which].file \in DOMAIN files[Which]
  BY <1>1, ReopensMaps DEF Base, Descriptor
<1>8. Indexed(files'[Which]) = IF object[Which].file[2] = -1 THEN Indexed(files[Which])
                               ELSE Output!Flushed(Indexed(files[Which]), object[Which].buffer)
  <2>1. CASE ~object[Which].open
    BY <1>6, <2>1 DEF Output!Flushed, Seen
  <2>2. CASE object[Which].open
    BY <1>6, <1>7, <2>2
  <2>. QED BY <2>1, <2>2
<1>9. /\ object'[Which].size = IF object[Which].file[2] # -1 /\ object[Which].open
                               THEN Len(Indexed(files'[Which])[object[Which].file[2]])
                               ELSE object[Which].size
      /\ object'[Which].closed = object[Which].closed
  <2>1. PICK f, z : /\ f = object[Which].file
                    /\ z = IF object[Which].open THEN Len(Flushed(Which)[object[Which].file])
                           ELSE object[Which].size
    OBVIOUS
  <2>2. object' = [object EXCEPT ![Which] = [object[Which] EXCEPT !.buffer = <<>>, !.size = z]]
    BY <2>1 DEF Flush
  <2>3. object'[Which] = [object[Which] EXCEPT !.buffer = <<>>, !.size = z]
    BY <1>1, <2>2 DEF Base, Typed
  <2>4. object[Which] \in Fields
    BY <1>1 DEF Base, Typed
  <2>5. object'[Which].size = z /\ object'[Which].closed = object[Which].closed
    BY <2>3, <2>4 DEF Fields
  <2>6. object[Which].open => Indexed(files'[Which])[f[2]] = Flushed(Which)[f]
    <3>. SUFFICES ASSUME object[Which].open PROVE Indexed(files'[Which])[f[2]] = Flushed(Which)[f]
      OBVIOUS
    <3>1. f \in DOMAIN files[Which] /\ files'[Which] = Flushed(Which)
      BY <1>5, <1>7, <2>1 DEF Drained
    <3>2. DOMAIN Flushed(Which) = DOMAIN files[Which]
      BY <1>1, FlushedIs
    <3>3. Unnamed(files'[Which])
      BY <1>1, <3>1, <3>2, UnnamedFiles DEF Unnamed
    <3>4. PICK g : g = files'[Which]
      OBVIOUS
    <3>5. Unnamed(g) /\ f \in DOMAIN g
      BY <3>1, <3>2, <3>3, <3>4
    <3>6. Indexed(g)[f[2]] = g[f]
      BY <3>5, IndexedIs
    <3>. QED BY <3>1, <3>4, <3>6, Zenon
  <2>. QED BY <1>7, <2>1, <2>5, <2>6
<1>10. /\ object'[Which].currentName = object[Which].currentName
       /\ object'[Which].file = object[Which].file /\ object'[Which].buffer = <<>>
       /\ object'[Which].queueLength = object[Which].queueLength
  BY <1>5 DEF Drained
<1>. QED BY <1>2, <1>3, <1>4, <1>5, <1>8, <1>9, <1>10
         DEF Output!Flush, Output!None, Output!history, Output!main, Seen

LEMMA CloseMaps ==
    ASSUME Base, OneName, ~requestPerFile, requestPerFile' = requestPerFile, CloseOutput(Which)
    PROVE  Output!Close
<1>1. Which \in Outputs /\ Which \in {"request", "response"}
  BY WhichAssumption DEF Outputs
<1>2. /\ Which \notin closes /\ closes' = closes \cup {Which}
      /\ UNCHANGED <<pc, name, taken, copying, acked, late>>
  BY <1>1 DEF CloseOutput, history
<1>3. Begun(Which)' = Begun(Which)
  BY <1>2, BegunSame
<1>4. /\ Drained(Which) /\ object'[Which].open = FALSE
      /\ object'[Which].file = object[Which].file
  BY <1>1, DrainSteps
<1>5. Indexed(files'[Which]) = Output!Flushed(Indexed(files[Which]), object[Which].buffer)
  BY <1>4, FlushedMaps DEF Drained, Flushed
<1>6. object[Which].open => object[Which].file[2] # -1
  BY <1>1, ReopensMaps DEF Base, Descriptor
<1>7. Indexed(files'[Which]) = IF object[Which].file[2] = -1 THEN Indexed(files[Which])
                               ELSE Output!Flushed(Indexed(files[Which]), object[Which].buffer)
  <2>1. CASE ~object[Which].open
    BY <1>5, <2>1 DEF Output!Flushed, Seen
  <2>2. CASE object[Which].open
    BY <1>5, <1>6, <2>2
  <2>. QED BY <2>1, <2>2
<1>8. object'[Which].size = 0 /\ object'[Which].closed = TRUE
  <2>1. object' = [object EXCEPT ![Which] = [object[Which] EXCEPT !.buffer = <<>>,
                                   !.open = FALSE, !.closed = TRUE, !.size = 0]]
    BY DEF CloseOutput
  <2>2. object'[Which] = [object[Which] EXCEPT !.buffer = <<>>, !.open = FALSE,
                                               !.closed = TRUE, !.size = 0]
    BY <1>1, <2>1 DEF Base, Typed
  <2>3. object[Which] \in Fields
    BY <1>1 DEF Base, Typed
  <2>. QED BY <2>2, <2>3 DEF Fields
<1>9. /\ object'[Which].currentName = object[Which].currentName
      /\ object'[Which].file = object[Which].file /\ object'[Which].buffer = <<>>
      /\ object'[Which].queueLength = object[Which].queueLength
  BY <1>4 DEF Drained
<1>. QED BY <1>2, <1>3, <1>4, <1>7, <1>8, <1>9
         DEF Output!Close, Output!None, Output!history, Seen

-----------------------------------------------------------------------------
LEMMA OutputInit ==
    ASSUME Init
    PROVE  Output!Init
<1>1. Which \in Outputs
  BY WhichAssumption
<1>2. Indexed([n \in {} |-> <<>>]) = [i \in {} |-> <<>>]
  BY DEF Indexed
<1>3. /\ files[Which] = [n \in {} |-> <<>>] /\ object[Which] = NewObject
      /\ pc[Which] = [p \in Procs |-> "idle"] /\ name[Which] = [p \in Procs |-> NoName]
      /\ acked[Which] = {} /\ late[Which] = {} /\ closes = {} /\ taken = 0
      /\ copying = "reader"
  BY <1>1 DEF Init
<1>4. Begun(Which) = 0
  BY <1>3 DEF Begun
<1>5. /\ NewObject.currentName[2] = 0 /\ NewObject.file[2] = -1 /\ NewObject.open = FALSE
      /\ NewObject.buffer = <<>> /\ NewObject.queueLength = 0 /\ NewObject.size = 0
      /\ NewObject.closed = FALSE
  BY DEF NewObject, NoName
<1>6. [p \in Procs |-> name[Which][p][2]] = [p \in Procs |-> -1]
  <2>1. NoName[2] = -1
    BY DEF NoName
  <2>. QED BY <1>3, <2>1
<1>7. Seen(Indexed(files[Which]), Indexed([n \in {} |-> <<>>])) = [i \in {} |-> <<>>]
  BY <1>2, <1>3, Zenon DEF Seen
<1>8. Procs = {"copy"} \cup {"flusher"}
  BY DEF Procs
<1>9. Output!Procs = Procs
  BY <1>8 DEF Output!Procs
<1>10. DOMAIN [i \in {} |-> <<>>] = {}
  OBVIOUS
<1>11. Output!FirstName = 0 /\ Output!FirstKept = 0
  BY <1>7, <1>10, Zenon DEF Output!FirstName, Output!FirstKept
<1>. QED BY <1>3, <1>4, <1>5, <1>6, <1>7, <1>9, <1>11
         DEF Output!Init, Output!None, Seen

LEMMA OutputNext ==
    ASSUME Base, OneName, Next
    PROVE  Output!Next \/ process' = "aborted" \/ UNCHANGED Output!vars
<1>1. requestPerFile' = requestPerFile
  BY StepKinds
<1>2. CASE requestPerFile
  BY <1>1, <1>2, PerFileStutters
<1>3. CASE ~requestPerFile
  <2>1. CASE Unseen
    BY <1>1, <1>3, <2>1, UnseenStutters
  <2>2. CASE Plain
    BY <2>1, <2>2, PlainUnseen
  <2>3. ASSUME NEW o \in Outputs, PluginWriter(o) \/ FlusherOf(o) \/ CloseOutput(o),
               process' # "aborted"
        PROVE  Output!Next \/ UNCHANGED Output!vars
    <3>1. CASE o # Which
      BY <2>1, <2>3, <3>1, OtherUnseen
    <3>2. CASE o = Which
      <4>1. CASE SetID(Which)
        BY <1>3, <4>1 DEF SetID
      <4>2. CASE WriterGetsName(Which)
        BY <1>1, <1>3, <4>2, WriterGetsNameMaps DEF Output!Next, Output!WriterStep
      <4>3. CASE UpdateName(Which, "copy")
        BY <1>1, <1>3, <4>3, UpdateNameMaps DEF Output!Next, Output!WriterStep, Procs
      <4>4. CASE Write(Which)
        BY <1>1, <1>3, <4>4, WriteMaps DEF Output!Next, Output!WriterStep
      <4>5. CASE WritePanics(Which)
        BY <2>3, <4>5 DEF WritePanics
      <4>11. CASE OpenFails(Which)
        BY <2>3, <4>11 DEF OpenFails
      <4>6. CASE Wake(Which)
        BY <1>1, <1>3, <4>6, WakeMaps DEF Output!Next, Output!FlusherStep
      <4>7. CASE GetName(Which, "flusher", "awake")
        BY <1>1, <1>3, <4>7, FlusherGetsNameMaps DEF Output!Next, Output!FlusherStep
      <4>8. CASE UpdateName(Which, "flusher")
        BY <1>1, <1>3, <4>8, UpdateNameMaps DEF Output!Next, Output!FlusherStep, Procs
      <4>9. CASE Flush(Which)
        BY <1>1, <1>3, <4>9, FlushMaps DEF Output!Next, Output!FlusherStep
      <4>10. CASE CloseOutput(Which)
        BY <1>1, <1>3, <4>10, CloseMaps DEF Output!Next
      <4>. QED BY <2>3, <3>2, <4>1, <4>2, <4>3, <4>4, <4>5, <4>6, <4>7, <4>8, <4>9, <4>10, <4>11
               DEF PluginWriter, FlusherOf
    <3>. QED BY <3>1, <3>2
  <2>. QED BY <2>2, <2>3 DEF Next, Main, Plain
<1>. QED BY <1>2, <1>3

\* Beside the copy, main and the other output, an output does nothing that FileOutput
\* does not do, until the process is aborted.
THEOREM OutputsAreFileOutputs == Spec => AsFileOutput
<1>1. Init => NamesInv /\ Output!Init
  BY NamesInvInit, OutputInit
<1>2. NamesInv /\ [Next]_vars => NamesInv'
  BY NamesInvNext
<1>3. NamesInv /\ [Next]_vars => [Output!Next \/ process' = "aborted"]_(Output!vars)
  <2>. SUFFICES ASSUME NamesInv, [Next]_vars
                PROVE  Output!Next \/ process' = "aborted" \/ UNCHANGED Output!vars
    OBVIOUS
  <2>1. CASE Next
    BY <2>1, OutputNext DEF NamesInv, TypeInv
  <2>2. CASE UNCHANGED vars
    <3>1. UNCHANGED <<requestPerFile, files, object, pc, name, taken, copying, closes, acked, late>>
      BY <2>2 DEF vars, history
    <3>2. Unseen
      BY <3>1 DEF Unseen, Begun
    <3>. QED BY <3>1, <3>2, UnseenStutters, PerFileStutters
  <2>. QED BY <2>1, <2>2
<1>. QED BY <1>1, <1>2, <1>3, PTL DEF Spec, AsFileOutput
=============================================================================
