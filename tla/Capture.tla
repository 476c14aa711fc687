------------------------------ MODULE Capture ------------------------------
(***************************************************************************)
(* IPListener and HttpInput, from the capture handles to the consumer of   *)
(* the input (CopyMulty), and how they end.                                *)
(*                                                                         *)
(* Each handle has a reader goroutine and a parser goroutine (see          *)
(* MessageParser; here only how full its queue is, and whether it is       *)
(* blocked on the channel of messages, which all parsers share).  Listen   *)
(* waits for the context or for the readers, a watcher closes the input    *)
(* when Listen has returned, and main closes it at shutdown.               *)
(***************************************************************************)
EXTENDS Naturals, FiniteSets

CONSTANTS
    Devices,    \* the network interfaces of the host
    Named,      \* those that the host of the input's address names (isDevice)
    Usable,     \* those that are up and have an address
    PacketCap,  \* capacity of a parser's queue: 10000
    MessageCap  \* capacity of the channel of messages: 10000

ASSUME CaptureAssumption ==
    /\ IsFiniteSet(Devices) /\ Named \subseteq Devices /\ Usable \subseteq Devices
    /\ Named \cup Usable # {}
    /\ PacketCap \in Nat \ {0} /\ MessageCap \in Nat \ {0}

VARIABLES
    handles,       \* the keys of l.Handles
    reader,        \* where the reader of each interface is, "gone" if it has none
    queue,         \* how many packets wait in the queue of each parser
    sending,       \* the parsers that have a message to hand on
    messages,      \* how many messages wait in l.messages
    listenerQuit,  \* is l.quit closed
    closeDone,     \* is l.closeDone closed
    listen,        \* where Listen is
    watcher,       \* where the goroutine is that waits for Listen to return
    mainCloses,    \* did main call Close
    closed,        \* i.closed
    cancelled,     \* was i.cancelListener called
    quit,          \* is i.quit closed
    consumer,      \* does CopyMulty read the input
    panicked       \* was a channel closed twice

capture == <<handles, reader, closeDone>>
parsers == <<queue, sending, messages>>
input == <<closed, cancelled, quit>>
goroutines == <<listen, watcher, mainCloses, consumer>>
vars == <<capture, parsers, input, goroutines, listenerQuit, panicked>>

-----------------------------------------------------------------------------
\* setInterfaces: the one the address names, else all that can be used
SetInterfaces == IF Named # {} THEN {{d} : d \in Named} ELSE {Usable}

\* PcapHandle: any of its calls of libpcap may fail for an interface, which is then
\* left out
PcapHandle(interfaces) == SUBSET interfaces

\* activatePcap: without a handle, the program ends
ActivatePcap(interfaces) == PcapHandle(interfaces) \ {{}}

\* After NewIPListener and Activate
Init ==
    /\ \E interfaces \in SetInterfaces : handles \in ActivatePcap(interfaces)
    /\ reader = [h \in Devices |-> IF h \in handles THEN "none" ELSE "gone"]
    /\ queue = [h \in Devices |-> 0] /\ sending = {} /\ messages = 0
    /\ listenerQuit = FALSE /\ closeDone = FALSE
    /\ listen = "starting" /\ watcher = "none" /\ consumer = TRUE
    /\ mainCloses = FALSE /\ closed = FALSE /\ cancelled = FALSE /\ quit = FALSE
    /\ panicked = FALSE

-----------------------------------------------------------------------------
(* readPcap and its readers *)

\* Where the goroutine of a handle begins: at the loop, or, if the link type is
\* unknown, at its end
Begins == {"selecting", "leaving"}

\* readPcap holds the lock while it starts the readers, so that none of them takes
\* its handle away before all are started; then the channel Reading is closed, and
\* HttpInput.listen starts the watcher
ReadPcap ==
    /\ listen = "starting"
    /\ listen' = "listening"
    /\ watcher' = "waiting"
    /\ reader' \in [Devices -> Begins \cup {"gone"}]
    /\ \A h \in Devices : reader'[h] = "gone" <=> h \notin handles
    /\ UNCHANGED <<handles, closeDone, parsers, input, mainCloses, consumer, listenerQuit, panicked>>

At(h, from, to) ==
    /\ reader[h] = from
    /\ reader' = [reader EXCEPT ![h] = to]

\* The select with a default: the reader returns if quit is closed
Select(h) ==
    /\ At(h, "selecting", IF listenerQuit THEN "leaving" ELSE "reading")
    /\ UNCHANGED <<handles, closeDone, parsers, input, goroutines, listenerQuit, panicked>>

\* ReadPacketData: a packet, the end of the read timeout, or an error
ReadPacketData(h) ==
    /\ \E to \in {"handling", "selecting", "leaving"} : At(h, "reading", to)
    /\ UNCHANGED <<handles, closeDone, parsers, input, goroutines, listenerQuit, panicked>>

\* messageParser.PacketHandler blocks while the queue is full
PacketHandler(h) ==
    /\ At(h, "handling", "selecting")
    /\ queue[h] < PacketCap
    /\ queue' = [queue EXCEPT ![h] = @ + 1]
    /\ UNCHANGED <<handles, closeDone, sending, messages, input, goroutines, listenerQuit, panicked>>

\* Mutant of CloseHandles: any reader that leaves closes closeDone.
CloseHandlesEarly(h) ==
    /\ At(h, "leaving", "gone")
    /\ handles' = handles \ {h}
    /\ closeDone' = TRUE
    /\ UNCHANGED <<parsers, input, goroutines, listenerQuit, panicked>>

\* The deferred closeHandles: the last reader closes closeDone
CloseHandles(h) ==
    /\ At(h, "leaving", "gone")
    /\ handles' = handles \ {h}
    /\ IF h \in handles /\ handles' = {}
       THEN closeDone' = TRUE /\ panicked' = (panicked \/ closeDone)
       ELSE UNCHANGED <<closeDone, panicked>>
    /\ UNCHANGED <<parsers, input, goroutines, listenerQuit>>

-----------------------------------------------------------------------------
(* The parsers and the consumer *)

\* Mutant of Parse: the parser's select has a default.
ParseDefault(h) ==
    /\ h \notin sending
    /\ queue' = [queue EXCEPT ![h] = @ - 1]
    /\ sending' \in {sending, sending \cup {h}}
    /\ UNCHANGED <<capture, messages, input, goroutines, listenerQuit, panicked>>

\* A parser takes a packet; it may complete a message
Parse(h) ==
    /\ h \notin sending
    /\ queue[h] > 0
    /\ queue' = [queue EXCEPT ![h] = @ - 1]
    /\ sending' \in {sending, sending \cup {h}}
    /\ UNCHANGED <<capture, messages, input, goroutines, listenerQuit, panicked>>

Send(h) ==
    /\ h \in sending
    /\ messages < MessageCap
    /\ sending' = sending \ {h}
    /\ messages' = messages + 1
    /\ UNCHANGED <<capture, queue, input, goroutines, listenerQuit, panicked>>

\* PluginReader selects at random among quit and messages
PluginReader ==
    /\ consumer
    /\ messages > 0
    /\ messages' = messages - 1
    /\ UNCHANGED <<capture, queue, sending, input, goroutines, listenerQuit, panicked>>

\* PluginReader returns ErrorStopped, and CopyMulty ends
PluginReaderStopped ==
    /\ consumer
    /\ quit
    /\ consumer' = FALSE
    /\ UNCHANGED <<capture, parsers, input, listen, watcher, mainCloses, listenerQuit, panicked>>

-----------------------------------------------------------------------------
(* The end *)

\* Mutants of Close: the channel is closed each time; the input is marked closed,
\* and its quit is not.
CloseAgain ==
    /\ cancelled' = TRUE /\ quit' = TRUE /\ closed' = TRUE
    /\ panicked' = (panicked \/ quit)
CloseNoQuit ==
    /\ cancelled' = TRUE /\ closed' = TRUE
    /\ UNCHANGED <<quit, panicked>>

\* HttpInput.Close, under its lock
Close ==
    IF closed THEN UNCHANGED <<input, panicked>>
    ELSE /\ cancelled' = TRUE /\ quit' = TRUE /\ closed' = TRUE
         /\ panicked' = (panicked \/ quit)

\* main: Emitter.Close closes the input, once; it exists when listen has returned
MainCloses ==
    /\ ~mainCloses
    /\ watcher # "none"
    /\ mainCloses' = TRUE
    /\ Close
    /\ UNCHANGED <<capture, parsers, listen, watcher, consumer, listenerQuit>>

\* The watcher: Listen has returned, and ListenBackground sent its error
WatcherCloses ==
    /\ watcher = "waiting"
    /\ listen = "returned"
    /\ watcher' = "done"
    /\ Close
    /\ UNCHANGED <<capture, parsers, listen, mainCloses, consumer, listenerQuit>>

\* Mutant of ListenDone: quit is not closed.
ListenDoneSilently ==
    /\ listen = "listening" /\ cancelled
    /\ listen' = "closing"
    /\ UNCHANGED <<capture, parsers, input, watcher, mainCloses, consumer, listenerQuit, panicked>>

\* Listen: case <-done, which signals close to all readers
ListenDone ==
    /\ listen = "listening" /\ cancelled
    /\ listenerQuit' = TRUE
    /\ listen' = "closing"
    /\ UNCHANGED <<capture, parsers, input, watcher, mainCloses, consumer, panicked>>

\* Listen: <-l.closeDone, in either case of the select
ListenReturns ==
    /\ listen \in {"listening", "closing"} /\ closeDone
    /\ listen' = "returned"
    /\ UNCHANGED <<capture, parsers, input, watcher, mainCloses, consumer, listenerQuit, panicked>>

-----------------------------------------------------------------------------
Reader(h) == Select(h) \/ ReadPacketData(h) \/ PacketHandler(h) \/ CloseHandles(h)
MessageParser(h) == Parse(h) \/ Send(h)
Listen == ReadPcap \/ ListenDone \/ ListenReturns

Next ==
    \/ \E h \in Devices : Reader(h) \/ MessageParser(h)
    \/ PluginReader \/ PluginReaderStopped
    \/ Listen \/ WatcherCloses \/ MainCloses

Spec == Init /\ [][Next]_vars

\* The goroutines run. The read timeout (2 s) ends every read. A select that can
\* take quit again and again takes it in the end.
Fairness ==
    /\ \A h \in Devices : WF_vars(Reader(h)) /\ WF_vars(MessageParser(h))
    /\ WF_vars(PluginReader) /\ SF_vars(PluginReaderStopped)
    /\ WF_vars(Listen) /\ WF_vars(WatcherCloses)

FairSpec == Spec /\ Fairness
=============================================================================
