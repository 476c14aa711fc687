------------------------ MODULE FileOutputProperties ------------------------
(* What output.FileOutput promises of the records it was given.             *)
EXTENDS FileOutput

\* The records that are in a file or in the buffer of the open one
OnDisk(r) == {i \in DOMAIN disk : r \in ToSet(disk[i])}
Kept == ToSet(buffer) \cup UNION {ToSet(disk[i]) : i \in DOMAIN disk}

\* Type invariant.
TypeOK ==
    /\ DOMAIN disk \subseteq Nat
    /\ \A i \in DOMAIN disk : disk[i] \in Seq(Nat)
    /\ currentName \in Nat
    /\ file \in DOMAIN disk \cup {None}
    /\ buffer \in Seq(Nat)
    /\ queueLength \in Nat /\ currentFileSize \in Nat
    /\ open \in BOOLEAN /\ closed \in BOOLEAN /\ stopped \in BOOLEAN
    /\ pc \in [Procs -> {"idle", "awake", "named", "ready", "gone"}]
    /\ name \in [Procs -> Nat \cup {None}]
    /\ record \in [Writers -> Nat]
    /\ taken \in Nat /\ acked \subseteq Nat
    /\ starts \in Nat /\ first \in Nat

\* A chunk outgrows QueueLimit, because filename() and the write are separate
\* critical sections, but by how much is bounded: once it is full, only the names
\* taken before (of the other writers and of the flusher, |Writers| in all) can
\* make it current again, and each time every writer writes to it at most once.
ChunkBound ==
    QueueLimit > 0 => queueLength <= QueueLimit + Cardinality(Writers) * Cardinality(Writers)

\* A record is written once: rotation, flush and Close hand what is buffered to
\* the one file it belongs to and leave no copy behind.
WrittenOnce ==
    /\ \A i \in DOMAIN disk : \A j, k \in DOMAIN disk[i] : disk[i][j] = disk[i][k] => j = k
    /\ \A r \in acked : /\ Cardinality(OnDisk(r)) <= 1
                        /\ r \in ToSet(buffer) => OnDisk(r) = {}

\* What makes an accepted record disappear: the process ends with the record in
\* the buffer, the record was buffered for a descriptor that Close had closed, or
\* the file it is in is opened anew. Nothing else does, in particular no change
\* from one chunk to the next.
LosesOnly ==
    [][\A r \in Kept \ Kept' :
          \/ starts' # starts /\ r \in ToSet(buffer)
          \/ ~open /\ r \in ToSet(buffer)
          \/ file' # file /\ OnDisk(r) = {file'}]_vars

\* A program that is started on the files of earlier runs does not touch any of
\* their chunks but the newest, however names are computed, delayed and reused.
EarlierRunsKept ==
    [][\A i \in DOMAIN disk : i < first => i \in DOMAIN disk' /\ disk'[i] = disk[i]]_vars

\* "Write incoming requests to file" (settings.go:90): while main has not closed
\* the output and the process runs, a record PluginWriter returned for is in a
\* file or about to be flushed to it.
WrittenStays == ~stopped /\ starts = 1 => acked \subseteq Kept

\* "Interval for forcing buffer flush to the file" (settings.go:92): no record
\* stays in the buffer for ever while main has not closed the output.
FlushedInTime ==
    \A r \in 1..MaxRecords : r \in ToSet(buffer) ~> (r \notin ToSet(buffer) \/ stopped)
=============================================================================
