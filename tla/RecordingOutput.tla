--------------------------- MODULE RecordingOutput ---------------------------
(***************************************************************************)
(* Each output of a recording, in a program without %r in its paths, is a  *)
(* FileOutput with one writer, until the process is aborted, by a panic or *)
(* because a file cannot be opened.  What is checked and proved of         *)
(* FileOutput is thereby said of the file of the responses, too, whose     *)
(* code is a copy that deviates where it assembles the content.            *)
(***************************************************************************)
EXTENDS RecordingProperties

CONSTANT Which  \* the output that is looked at

ASSUME WhichAssumption == Which \in Outputs

Seen(value, initial) == IF requestPerFile THEN initial ELSE value

\* The messages for which PluginWriter of output o was called
Begun(o) ==
    IF \/ copying = "request" /\ (o = "response" \/ pc[o]["copy"] = "idle")
       \/ copying = "response" /\ o = "response" /\ pc[o]["copy"] = "idle"
    THEN taken - 1 ELSE taken

Indexed(fs) == [i \in {n[2] : n \in DOMAIN fs} |-> fs[<<"", i>>]]

AcceptedByWhich(k) == Traffic[k] = Which

Output == INSTANCE FileOutput WITH
    Writers <- {"copy"}, Flusher <- "flusher", Accepts <- AcceptedByWhich,
    QueueLimit <- Limit[FALSE],
    MaxRecords <- Len(Traffic), MaxStarts <- 1, starts <- 1, first <- 0,
    disk <- Seen(Indexed(files[Which]), Indexed([n \in {} |-> <<>>])),
    currentName <- Seen(object[Which].currentName[2], 0),
    file <- Seen(object[Which].file[2], -1),
    open <- Seen(object[Which].open, FALSE),
    buffer <- Seen(object[Which].buffer, <<>>),
    queueLength <- Seen(object[Which].queueLength, 0),
    currentFileSize <- Seen(object[Which].size, 0),
    closed <- Seen(object[Which].closed, FALSE),
    pc <- Seen(pc[Which], [p \in Procs |-> "idle"]),
    name <- Seen([p \in Procs |-> name[Which][p][2]], [p \in Procs |-> -1]),
    record <- [w \in {"copy"} |-> Seen(Begun(Which), 0)],
    taken <- Seen(Begun(Which), 0),
    acked <- Seen(acked[Which] \cup late[Which], {}),
    stopped <- Seen(Which \in closes, FALSE)

\* Within the composition, with the copy, main and the other output going on beside
\* it, an output takes only steps that FileOutput has.
AsFileOutput ==
    Output!Init /\ [][Output!Next \/ process' = "aborted"]_(Output!vars)
=============================================================================
