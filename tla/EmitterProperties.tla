------------------------- MODULE EmitterProperties -------------------------
(* What the Emitter promises of the traffic it copies and of its end.       *)
EXTENDS Emitter

\* Type invariant.
TypeOK ==
    /\ main \in {"running", "closing", "exited", "panicked"}
    /\ started \in 0..Len(Inputs) /\ group \in 0..Len(Inputs)
    /\ quit \subseteq Stoppable
    /\ pc \in [Sources -> {"none", "reading", "writing", "cleaning", "done"}]
    /\ \A i \in Sources :
         /\ next[i] \in 1..(Len(Outputs) + 1)
         /\ pc[i] = "writing" => next[i] \in DOMAIN Outputs
         /\ count[i] \in Nat /\ cleaned[i] \in 0..MaxTime
         /\ \A o \in DOMAIN Outputs : ToSet(written[i][o]) \subseteq DOMAIN read[i]

MessageAt(i, p) == read[i][p].msg
Answered(i, q, p) == \E k \in (q + 1)..(p - 1) :
    MessageAt(i, k).type = "response" /\ MessageAt(i, k).id = MessageAt(i, p).id

\* The filtered requests that the response at p may belong to: those before it
\* with its id, since the response to which no other one came
Filtered(i, p) ==
    {q \in 1..(p - 1) : /\ MessageAt(i, q).type = "request" /\ ~Rewrite(MessageAt(i, q))
                        /\ MessageAt(i, q).id = MessageAt(i, p).id
                        /\ ~Answered(i, q, p)}

\* A response is dropped only if its request was, and it is dropped, not written to
\* any output, if its request was at most GCAge before it: whatever else was
\* filtered, cleaned up and reused in between.
DropsPairs ==
    \A i \in Sources : \A p \in DOMAIN read[i] :
        MessageAt(i, p).type = "response" =>
            LET isWritten == p \in ToSet(written[i][1])
                isDropped == ~isWritten /\ ~(p = Len(read[i]) /\ pc[i] = "writing")
            IN  /\ isDropped => Filtered(i, p) # {}
                /\ isWritten => \A q \in Filtered(i, p) : read[i][p].at - read[i][q].at > GCAge

\* filteredCount, which decides whether there is anything to clean up, is never
\* below the number of requests that are remembered, though an id may be filtered
\* again before its response comes.
CountCovers == \A i \in Sources : count[i] >= Cardinality(DOMAIN filtered[i])

\* "By default each output gets same traffic" (settings.go:78): of each input, all
\* outputs get the same messages in the same order; only the message in hand may
\* be missing at the later ones.
SameTraffic ==
    \A i \in Sources : \A o, u \in DOMAIN Outputs : o < u =>
        /\ IsPrefix(written[i][u], written[i][o])
        /\ Len(written[i][o]) <= Len(written[i][u]) + (IF pc[i] = "writing" THEN 1 ELSE 0)

\* "wait for everything to stop" (emitter.go:48): main does not exit by itself
\* while an input that was started is still copied, also when Close overtakes Start.
WaitsForAll ==
    [][main = "closing" /\ main' = "exited" =>
          \A i \in Sources : pc[i] \in {"none", "done"}]_vars

\* "exit after specified duration" (settings.go:76): main exits after the signal.
Exits == main = "closing" ~> main = "exited"
=============================================================================
