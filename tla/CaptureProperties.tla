------------------------- MODULE CaptureProperties -------------------------
(* How the capture promises to end.                                         *)
EXTENDS Capture

\* Where a reader may be
ReaderStates == {"none", "selecting", "reading", "handling", "leaving", "gone"}

\* Type invariant.
TypeOK ==
    /\ handles \subseteq Devices
    /\ reader \in [Devices -> ReaderStates]
    /\ queue \in [Devices -> 0..PacketCap]
    /\ sending \subseteq Devices
    /\ messages \in 0..MessageCap
    /\ listen \in {"starting", "listening", "closing", "returned"}
    /\ watcher \in {"none", "waiting", "done"}
    /\ listenerQuit \in BOOLEAN /\ closeDone \in BOOLEAN /\ mainCloses \in BOOLEAN
    /\ closed \in BOOLEAN /\ cancelled \in BOOLEAN /\ quit \in BOOLEAN
    /\ consumer \in BOOLEAN /\ panicked \in BOOLEAN

\* No channel is closed twice, though main and the watcher both close the input,
\* and every reader tries to be the last one: a second close panics.
ClosedOnce == ~panicked

\* "wait all handles to be closed" (ip_listener.go:467): when Listen has returned,
\* whether main or a failure of the interfaces made it, no reader is left that would
\* still read a packet, and all handles are taken away.
HandlesClosed ==
    listen = "returned" => handles = {} /\ \A h \in Devices : reader[h] = "gone"

\* The input implements Lifecycle: what several goroutines and two parties do to close
\* it is, for its user, one end. The failure of one interface of several leaves it open
\* (ip_listener.go:213), and PluginReader stops (input_http.go:75) only after an end.
Active == {h \in Devices : reader[h] # "gone"}
Life == INSTANCE Lifecycle WITH active <- Active, wanted <- mainCloses, served <- consumer
EndsAsOne == Life!Spec

\* A reader that can never be reached by quit: it is blocked on the full queue of a
\* parser which is blocked on a channel that nobody reads any more
Stuck(h) ==
    /\ reader[h] = "handling" /\ queue[h] = PacketCap
    /\ h \in sending /\ messages = MessageCap /\ ~consumer

\* "signal close on all handles" (ip_listener.go:466): after Close, Listen returns,
\* unless a reader is stuck behind a full channel.
CloseStopsListen ==
    cancelled ~> (listen = "returned" \/ \E h \in Devices : Stuck(h))

\* When all interfaces fail, the input stops being copied: PluginReader does not
\* wait for ever for messages that nobody can capture.
FailureStopsInput == (\A h \in Devices : reader[h] = "gone") ~> ~consumer
=============================================================================
