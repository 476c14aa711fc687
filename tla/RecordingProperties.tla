------------------------ MODULE RecordingProperties ------------------------
(* What a recording promises of the pairs of requests and responses.        *)
EXTENDS Recording

Kept(o) == InFiles(files[o]) \cup ToSet(object[o].buffer)

\* Type invariant.
TypeOK ==
    /\ requestPerFile \in PerFile
    /\ taken \in 0..Len(Traffic)
    /\ copying \in Outputs \cup {"reader", "ended"}
    /\ closes \subseteq Outputs \cup {"input"}
    /\ process \in {"running", "exited", "aborted"}
    /\ \A o \in Outputs :
         /\ object[o].file \in DOMAIN files[o] \cup {NoName}
         /\ object[o].open => object[o].file # NoName
         /\ Kept(o) \subseteq {k \in 1..taken : Traffic[k] = o}

\* With %r, a message is in a file of its own id and in no other, unless a name the
\* flusher took from an earlier id was stored between updateName and the write:
\* currentID, the name made of it and the file are three critical sections.
OwnFile ==
    requestPerFile =>
        \A o \in Outputs \ misled :
            /\ \A n \in DOMAIN files[o] : \A k \in ToSet(files[o][n]) : Ids[k] = n[1]
            /\ \A k \in ToSet(object[o].buffer) : Ids[k] = object[o].file[1]

\* What is in a file disappears from it only if another message of its id comes back
\* to that file, with %r, or after the flusher's late name was followed. The writer's
\* own names never lead it back to a chunk it has left.
ReturnsOnly ==
    [][\A o \in Outputs : \A k \in lost'[o] \ lost[o] :
          o \in misled' \/ (requestPerFile /\ Ids[k] = Ids[taken])]_vars

\* What was written before main closed the output is there when the process has
\* ended, in a file or, if a response made it panic or a file could not be opened, in
\* a buffer that is gone with it; or its file was opened anew. Nothing is lost at a
\* change of files, in a flush, or between the Close of the outputs and the end of the
\* copy.
SurvivesEnd ==
    process # "running" =>
        \A o \in Outputs : \A k \in acked[o] :
            \/ k \in InFiles(files[o]) \cup lost[o]
            \/ process = "aborted" /\ k \in ToSet(object[o].buffer)

\* A recording that ended by itself has no response without its request, except for
\* a request that was written after main had closed its file, which it does before it
\* closes the responses', or whose file was opened anew.
NoOrphans ==
    process = "exited" =>
        \A q, r \in DOMAIN Traffic :
            /\ q < r /\ Ids[q] = Ids[r]
            /\ Traffic[q] = "request" /\ r \in InFiles(files["response"])
            => q \in InFiles(files["request"]) \cup late["request"] \cup lost["request"]

=============================================================================
