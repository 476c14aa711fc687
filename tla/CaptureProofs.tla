--------------------------- MODULE CaptureProofs ---------------------------
(***************************************************************************)
(* The capture ends once and as a whole, for any number of interfaces and  *)
(* any capacities.  The inductive invariant relates three pieces of state  *)
(* which the code keeps apart: where each reader is, the map of handles,   *)
(* and the channel closeDone.                                              *)
(***************************************************************************)
EXTENDS CaptureProperties, TLAPS

\* A reader has its handle until it is gone, and closeDone is closed when the last
\* handle was taken away.
HandlesHeld ==
    /\ \A h \in Devices : reader[h] = "gone" <=> h \notin handles
    /\ closeDone <=> handles = {}

\* No reader runs before all are started; Listen returns on closeDone only; the
\* input is marked closed when its quit is.
EndsInOrder ==
    /\ listen = "starting" => \A h \in Devices : reader[h] \in {"none", "gone"}
    /\ listen = "returned" => closeDone
    /\ quit => closed

IInv == TypeOK /\ HandlesHeld /\ EndsInOrder /\ ClosedOnce

-----------------------------------------------------------------------------
\* The invariant holds when the capture starts.
LEMMA InitIInv == Init => IInv
<1>. SUFFICES ASSUME Init PROVE IInv
  OBVIOUS
<1>0. PICK interfaces \in SetInterfaces : handles \in ActivatePcap(interfaces)
  BY DEF Init
<1>. handles \subseteq Devices /\ handles # {}
  BY <1>0, CaptureAssumption DEF SetInterfaces, ActivatePcap, PcapHandle
<1>1. TypeOK
  <2>1. reader \in [Devices -> ReaderStates] /\ queue \in [Devices -> 0..PacketCap]
    BY CaptureAssumption DEF Init, ReaderStates
  <2>2. messages \in 0..MessageCap
    BY CaptureAssumption DEF Init
  <2>. QED BY <2>1, <2>2 DEF Init, TypeOK
<1>2. HandlesHeld
  BY CaptureAssumption DEF Init, HandlesHeld
<1>3. EndsInOrder /\ ClosedOnce
  BY DEF Init, EndsInOrder, ClosedOnce
<1>. QED BY <1>1, <1>2, <1>3 DEF IInv

\* The steps that neither start nor end a goroutine of the capture: a reader moves
\* on within its loop, a parser or the consumer takes or hands on something.
LEMMA LoopIInv ==
    ASSUME IInv, UNCHANGED <<handles, closeDone, input, listen, watcher, mainCloses,
                             listenerQuit, panicked>>,
           reader' \in [Devices -> ReaderStates],
           \A h \in Devices : reader'[h] = "gone" <=> reader[h] = "gone",
           \A h \in Devices : reader[h] = "none" => reader'[h] = "none",
           queue' \in [Devices -> 0..PacketCap], sending' \subseteq Devices,
           messages' \in 0..MessageCap, consumer' \in BOOLEAN
    PROVE  IInv'
<1>1. TypeOK'
  BY DEF IInv, TypeOK, input
<1>2. HandlesHeld'
  BY DEF IInv, HandlesHeld
<1>3. EndsInOrder' /\ ClosedOnce'
  BY DEF IInv, EndsInOrder, ClosedOnce, input
<1>. QED BY <1>1, <1>2, <1>3 DEF IInv

\* Every step of a reader of an interface keeps the invariant.
LEMMA ReaderIInv == \A h \in Devices :
    IInv /\ (Select(h) \/ ReadPacketData(h) \/ PacketHandler(h)) => IInv'
<1>. SUFFICES ASSUME NEW h \in Devices, IInv,
                     Select(h) \/ ReadPacketData(h) \/ PacketHandler(h)
              PROVE  IInv'
  OBVIOUS
<1>1. /\ UNCHANGED <<handles, closeDone, sending, messages, input, goroutines, listenerQuit,
                     panicked>>
  BY DEF Select, ReadPacketData, PacketHandler, parsers
<1>2. PICK from, to \in ReaderStates \ {"none", "gone"} : At(h, from, to)
  BY DEF Select, ReadPacketData, PacketHandler, ReaderStates
<1>3. /\ reader' \in [Devices -> ReaderStates]
      /\ \A k \in Devices : reader'[k] = "gone" <=> reader[k] = "gone"
      /\ \A k \in Devices : reader[k] = "none" => reader'[k] = "none"
  BY <1>2 DEF At, IInv, TypeOK
<1>4. queue' \in [Devices -> 0..PacketCap]
  <2>1. CASE Select(h) \/ ReadPacketData(h)
    BY <2>1 DEF Select, ReadPacketData, parsers, IInv, TypeOK
  <2>2. CASE PacketHandler(h)
    BY <2>2, CaptureAssumption DEF PacketHandler, IInv, TypeOK
  <2>. QED BY <2>1, <2>2
<1>5. sending' \subseteq Devices /\ messages' \in 0..MessageCap /\ consumer' \in BOOLEAN
  BY <1>1 DEF IInv, TypeOK, goroutines
<1>. QED BY <1>1, <1>3, <1>4, <1>5, LoopIInv DEF goroutines

\* A parser that works on its queue and the channel keeps it.
LEMMA ParserIInv == \A h \in Devices : IInv /\ MessageParser(h) => IInv'
<1>. SUFFICES ASSUME NEW h \in Devices, IInv, MessageParser(h) PROVE IInv'
  OBVIOUS
<1>. USE DEF MessageParser, Parse, Send
<1>1. UNCHANGED <<capture, input, goroutines, listenerQuit, panicked>>
  OBVIOUS
<1>2. queue' \in [Devices -> 0..PacketCap]
  BY CaptureAssumption DEF IInv, TypeOK
<1>3. sending' \subseteq Devices
  BY DEF IInv, TypeOK
<1>4. messages' \in 0..MessageCap
  BY CaptureAssumption DEF IInv, TypeOK
<1>5. reader' \in [Devices -> ReaderStates] /\ consumer' \in BOOLEAN
  BY <1>1 DEF IInv, TypeOK, capture, goroutines
<1>. QED BY <1>1, <1>2, <1>3, <1>4, <1>5, LoopIInv DEF capture, goroutines

\* The consumer of the messages keeps it.
LEMMA ConsumerIInv == IInv /\ (PluginReader \/ PluginReaderStopped) => IInv'
<1>. SUFFICES ASSUME IInv, PluginReader \/ PluginReaderStopped PROVE IInv'
  OBVIOUS
<1>1. UNCHANGED <<capture, queue, sending, input, listen, watcher, mainCloses, listenerQuit,
                  panicked>>
  BY DEF PluginReader, PluginReaderStopped, parsers, goroutines
<1>2. messages' \in 0..MessageCap
  BY CaptureAssumption DEF PluginReader, PluginReaderStopped, parsers, IInv, TypeOK
<1>3. consumer' \in BOOLEAN
  BY DEF PluginReader, PluginReaderStopped, goroutines, IInv, TypeOK
<1>. QED BY <1>1, <1>2, <1>3, LoopIInv DEF capture, IInv, TypeOK

\* The readers start, one for each handle.
LEMMA ReadPcapIInv == IInv /\ ReadPcap => IInv'
<1>. SUFFICES ASSUME IInv, ReadPcap PROVE IInv'
  OBVIOUS
<1>. USE DEF ReadPcap, input, parsers, Begins
<1>1. TypeOK'
  BY DEF IInv, TypeOK, ReaderStates
<1>2. HandlesHeld'
  BY DEF IInv, HandlesHeld
<1>3. EndsInOrder' /\ ClosedOnce'
  BY DEF IInv, EndsInOrder, ClosedOnce
<1>. QED BY <1>1, <1>2, <1>3 DEF IInv

\* A reader leaves: it still has its handle, so closeDone was not closed before, and is
\* closed if no other reader is left.
LEMMA CloseHandlesIInv == \A h \in Devices : IInv /\ CloseHandles(h) => IInv'
<1>. SUFFICES ASSUME NEW h \in Devices, IInv, CloseHandles(h) PROVE IInv'
  OBVIOUS
<1>1. /\ reader[h] = "leaving" /\ reader' = [reader EXCEPT ![h] = "gone"]
      /\ handles' = handles \ {h}
      /\ UNCHANGED <<parsers, input, goroutines, listenerQuit>>
  BY DEF CloseHandles, At
<1>2. h \in handles /\ ~closeDone
  BY <1>1 DEF IInv, HandlesHeld
<1>3. panicked' = panicked /\ closeDone' = (handles' = {})
  BY <1>2 DEF CloseHandles, IInv, TypeOK
<1>4. TypeOK'
  BY <1>1, <1>3 DEF IInv, TypeOK, ReaderStates, parsers, input, goroutines
<1>5. HandlesHeld'
  BY <1>1, <1>2, <1>3 DEF IInv, HandlesHeld, TypeOK
<1>6. EndsInOrder' /\ ClosedOnce'
  <2>1. listen # "starting" /\ listen # "returned"
    BY <1>1, <1>2 DEF IInv, EndsInOrder
  <2>. QED BY <1>1, <1>3, <2>1 DEF IInv, EndsInOrder, ClosedOnce, input, goroutines
<1>. QED BY <1>4, <1>5, <1>6 DEF IInv

\* main and the watcher close the input: whoever comes second finds it closed.
LEMMA CloseIInv == IInv /\ (MainCloses \/ WatcherCloses) => IInv'
<1>. SUFFICES ASSUME IInv, MainCloses \/ WatcherCloses PROVE IInv'
  OBVIOUS
<1>1. /\ UNCHANGED <<capture, parsers, listen, consumer, listenerQuit>>
      /\ watcher' \in {watcher, "done"} /\ mainCloses' \in {mainCloses, TRUE}
      /\ Close
  BY DEF MainCloses, WatcherCloses
<1>2. /\ closed' \in BOOLEAN /\ cancelled' \in BOOLEAN /\ quit' \in BOOLEAN
      /\ panicked' = panicked /\ (quit' => closed')
  <2>1. CASE closed
    BY <1>1, <2>1 DEF Close, IInv, TypeOK, EndsInOrder, input
  <2>2. CASE ~closed
    BY <1>1, <2>2 DEF Close, IInv, TypeOK, EndsInOrder, ClosedOnce
  <2>. QED BY <2>1, <2>2
<1>3. TypeOK'
  BY <1>1, <1>2 DEF IInv, TypeOK, capture, parsers
<1>4. HandlesHeld'
  BY <1>1 DEF IInv, HandlesHeld, capture
<1>5. EndsInOrder' /\ ClosedOnce'
  BY <1>1, <1>2 DEF IInv, EndsInOrder, ClosedOnce, capture
<1>. QED BY <1>3, <1>4, <1>5 DEF IInv

\* Listen, waking up and returning, keeps it.
LEMMA ListenIInv == IInv /\ (ListenDone \/ ListenReturns) => IInv'
<1>. SUFFICES ASSUME IInv, ListenDone \/ ListenReturns PROVE IInv'
  OBVIOUS
<1>1. /\ UNCHANGED <<capture, parsers, input, watcher, mainCloses, consumer, panicked>>
      /\ listen' \in {"closing", "returned"} /\ (listen' = "returned" => closeDone)
      /\ listenerQuit' \in {listenerQuit, TRUE}
  BY DEF ListenDone, ListenReturns
<1>2. TypeOK'
  BY <1>1 DEF IInv, TypeOK, capture, parsers, input
<1>3. HandlesHeld'
  BY <1>1 DEF IInv, HandlesHeld, capture
<1>4. EndsInOrder' /\ ClosedOnce'
  BY <1>1 DEF IInv, EndsInOrder, ClosedOnce, capture, input
<1>. QED BY <1>2, <1>3, <1>4 DEF IInv

-----------------------------------------------------------------------------
\* So every step keeps the invariant.
LEMMA NextIInv == IInv /\ [Next]_vars => IInv'
<1>. SUFFICES ASSUME IInv, [Next]_vars PROVE IInv'
  OBVIOUS
<1>1. ASSUME NEW h \in Devices, Reader(h) PROVE IInv'
  BY <1>1, ReaderIInv, CloseHandlesIInv DEF Reader
<1>2. ASSUME NEW h \in Devices, MessageParser(h) PROVE IInv'
  BY <1>2, ParserIInv
<1>3. CASE PluginReader \/ PluginReaderStopped
  BY <1>3, ConsumerIInv
<1>4. CASE Listen
  BY <1>4, ReadPcapIInv, ListenIInv DEF Listen
<1>5. CASE WatcherCloses \/ MainCloses
  BY <1>5, CloseIInv
<1>6. CASE UNCHANGED vars
  BY <1>6 DEF vars, capture, parsers, input, goroutines, IInv, TypeOK, HandlesHeld,
              EndsInOrder, ClosedOnce
<1>. QED BY <1>1, <1>2, <1>3, <1>4, <1>5, <1>6 DEF Next

\* The inductive invariant holds in every run, however many interfaces there are.
THEOREM Invariance == Spec => []IInv
<1>. QED BY InitIInv, NextIInv, PTL DEF Spec

\* Every step keeps the state well typed; in particular no queue outgrows its capacity
\* (ip_listener.go:269, tcp_message.go:397).
THEOREM TypeCorrect == Spec => []TypeOK
<1>1. IInv => TypeOK
  BY DEF IInv
<1>. QED BY <1>1, Invariance, PTL

\* No channel is closed twice (ip_listener.go:214, input_http.go:128).
THEOREM NothingClosesTwice == Spec => []ClosedOnce
<1>1. IInv => ClosedOnce
  BY DEF IInv
<1>. QED BY <1>1, Invariance, PTL

\* When Listen has returned, no reader is left (ip_listener.go:467).
THEOREM ListenWaitsForReaders == Spec => []HandlesClosed
<1>1. IInv => HandlesClosed
  BY DEF IInv, EndsInOrder, HandlesHeld, HandlesClosed
<1>. QED BY <1>1, Invariance, PTL

-----------------------------------------------------------------------------
(* The capture implements Lifecycle.                                         *)

\* The capture starts as a Lifecycle does.
LEMMA LifeInit == Init => Life!Init
<1>. SUFFICES ASSUME Init PROVE Life!Init
  OBVIOUS
<1>1. PICK interfaces \in SetInterfaces : handles \in ActivatePcap(interfaces)
  BY DEF Init
<1>2. handles \subseteq Devices /\ handles # {}
  BY <1>1, CaptureAssumption DEF SetInterfaces, ActivatePcap, PcapHandle
<1>3. Active = handles
  BY <1>2 DEF Init, Active
<1>. QED BY <1>2, <1>3 DEF Init, Life!Init

\* The readers start with the handles that were activated, and until they start none
\* is lost.
LEMMA LifeReadPcap == IInv /\ ReadPcap => UNCHANGED Life!vars
<1>. SUFFICES ASSUME IInv, ReadPcap PROVE UNCHANGED Life!vars
  OBVIOUS
<1>1. Active' = Active
  BY DEF ReadPcap, Active, IInv, HandlesHeld
<1>. QED BY <1>1 DEF ReadPcap, Life!vars, input

\* A reader that moves on within its loop loses no interface; one that leaves loses its own.
LEMMA LifeReader == \A h \in Devices : IInv /\ Reader(h) => [Life!Next]_(Life!vars)
<1>. SUFFICES ASSUME NEW h \in Devices, IInv, Reader(h) PROVE [Life!Next]_(Life!vars)
  OBVIOUS
<1>1. UNCHANGED <<mainCloses, closed, consumer>>
  BY DEF Reader, Select, ReadPacketData, PacketHandler, CloseHandles, input, goroutines
<1>2. CASE Select(h) \/ ReadPacketData(h) \/ PacketHandler(h)
  <2>1. PICK from, to \in ReaderStates \ {"none", "gone"} : At(h, from, to)
    BY <1>2 DEF Select, ReadPacketData, PacketHandler, ReaderStates
  <2>2. Active' = Active
    BY <2>1 DEF At, Active, IInv, TypeOK
  <2>. QED BY <1>1, <2>2 DEF Life!vars
<1>3. CASE CloseHandles(h)
  <2>1. Active' = Active \ {h}
    BY <1>3 DEF CloseHandles, At, Active, IInv, TypeOK
  <2>2. Life!Lose(h)
    BY <1>1, <2>1 DEF Life!Lose
  <2>. QED BY <2>2 DEF Life!Next
<1>. QED BY <1>2, <1>3 DEF Reader

\* Listen returns only when the last reader is gone, so that the watcher closes the input
\* only then; main may close it at any time.
LEMMA LifeClose == IInv /\ (MainCloses \/ WatcherCloses) => [Life!Next]_(Life!vars)
<1>. SUFFICES ASSUME IInv, MainCloses \/ WatcherCloses PROVE [Life!Next]_(Life!vars)
  OBVIOUS
<1>1. closed' = TRUE
  BY DEF MainCloses, WatcherCloses, Close, IInv, TypeOK, input
<1>2. Active' = Active /\ consumer' = consumer
  BY DEF MainCloses, WatcherCloses, Active, capture
<1>3. CASE MainCloses
  <2>1. Life!CloseByUser
    BY <1>1, <1>2, <1>3 DEF MainCloses, Life!CloseByUser
  <2>. QED BY <2>1 DEF Life!Next
<1>4. CASE WatcherCloses
  <2>1. Active = {}
    BY <1>4 DEF WatcherCloses, IInv, EndsInOrder, HandlesHeld, Active
  <2>2. Life!CloseByItself
    BY <1>1, <1>2, <1>4, <2>1 DEF WatcherCloses, Life!CloseByItself
  <2>. QED BY <2>2 DEF Life!Next
<1>. QED BY <1>3, <1>4

\* Every step of the capture is a step of Lifecycle, or none.
LEMMA LifeNext == IInv /\ [Next]_vars => [Life!Next]_(Life!vars)
<1>. SUFFICES ASSUME IInv, [Next]_vars PROVE [Life!Next]_(Life!vars)
  OBVIOUS
<1>1. ASSUME NEW h \in Devices, Reader(h) PROVE [Life!Next]_(Life!vars)
  BY <1>1, LifeReader
<1>2. ASSUME NEW h \in Devices, MessageParser(h) PROVE [Life!Next]_(Life!vars)
  BY <1>2 DEF MessageParser, Parse, Send, capture, input, goroutines, Active, Life!vars
<1>3. CASE PluginReader
  BY <1>3 DEF PluginReader, capture, input, goroutines, Active, Life!vars
<1>4. CASE PluginReaderStopped
  <2>1. closed
    BY <1>4 DEF PluginReaderStopped, IInv, EndsInOrder
  <2>2. Life!StopServing
    BY <1>4, <2>1 DEF PluginReaderStopped, capture, input, Active, Life!StopServing
  <2>. QED BY <2>2 DEF Life!Next
<1>5. CASE Listen
  <2>1. CASE ReadPcap
    BY <2>1, LifeReadPcap
  <2>2. CASE ListenDone \/ ListenReturns
    BY <2>2 DEF ListenDone, ListenReturns, capture, input, Active, Life!vars
  <2>. QED BY <1>5, <2>1, <2>2 DEF Listen
<1>6. CASE WatcherCloses \/ MainCloses
  BY <1>6, LifeClose
<1>7. CASE UNCHANGED vars
  BY <1>7 DEF vars, capture, input, goroutines, Active, Life!vars
<1>. QED BY <1>1, <1>2, <1>3, <1>4, <1>5, <1>6, <1>7 DEF Next

\* For its user the input has one end: several goroutines and main close it, interfaces
\* fail one by one, and it stops being read only after main closed it or the last
\* interface was lost (ip_listener.go:213, input_http.go:75).
THEOREM ImplementsLifecycle == Spec => EndsAsOne
<1>. QED BY LifeInit, LifeNext, Invariance, PTL DEF Spec, EndsAsOne, Life!Spec
=============================================================================
