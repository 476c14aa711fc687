---------------------- MODULE MessageParserProperties ----------------------
(* What tcp.MessageParser promises of the HTTP messages on the wire.        *)
EXTENDS MessageParser

CONSTANTS
    Parts,    \* the HTTP messages on the wire, each as the list of its segments
    Answers   \* the pairs of a request and its response

PartsOf(x) == ToSet(Parts[x])
SegmentsOf(ps) == [i \in DOMAIN ps |-> ps[i].seg]

\* The messages the map refers to
Mapped == {m[k] : k \in DOMAIN m}

-----------------------------------------------------------------------------
\* Type invariant of the parser, its channels and its messages.
TypeOK ==
    /\ \A w \in Wire : captured[w] \in 0..traffic[w]
    /\ packets \in Seq(Packet)
    /\ \A id \in DOMAIN heap :
         /\ heap[id].packets \in Seq(Packet)
         /\ heap[id].direction \in Directions
         /\ heap[id].state.continue100 \in BOOLEAN
    /\ \A k \in DOMAIN m : m[k] \in DOMAIN heap
    /\ ToSet(messages) \subseteq DOMAIN heap
    /\ dropped \in [Wire -> Nat]
    /\ tick \in BOOLEAN

\* Message.add keeps the packets of a message in strictly increasing order of
\* their sequence numbers, whatever order and however often they arrive in:
\* MissingChunk and Data rely on it.
PacketsSorted ==
    \A id \in DOMAIN heap :
        \A i, j \in DOMAIN heap[id].packets :
            i < j => Seq32(heap[id].packets[i]) < Seq32(heap[id].packets[j])

\* Between two packets, a message is in the map under the MessageID of its first
\* packet, and nowhere else: Emit, Fix100Continue and timer delete that key, not
\* the one they found the message under.
KeyedByFirst ==
    Idle => \A k \in DOMAIN m : KeyOf(heap[m[k]]) = k

\* The copies of a segment in messages in progress or emitted
Held(w) == SumFunction([id \in Mapped \cup Emitted |-> HowOften(w, heap[id].packets)])

\* Every captured copy of a segment is somewhere: in the channel, in one message
\* in progress or emitted, or let go as empty, duplicate or expired. Moving and
\* merging messages at a 100-continue neither loses nor doubles a packet.
Accounted ==
    Idle => \A w \in Wire : captured[w] = HowOften(w, packets) + dropped[w] + Held(w)

\* Do the sequence numbers of a wire message pass their greatest value within it?
Wraps(x) ==
    \E i, j \in DOMAIN Parts[x] :
        i < j /\ Segment[Parts[x][i]].seq > Segment[Parts[x][j]].seq

\* A message that has all its segments and still waits has padding of a short frame in
\* what was taken for payload, or sequence numbers that wrap, so that add does not sort
\* them into their order, or shares its key with another message. Otherwise
\* http1EndHint sees that it is whole with the packet that completes it, whichever
\* that is. What waits is dropped by the timer though it was captured in full.
\* Parts has only messages whose end HasFullPayload can tell: their title line, their
\* empty line and their last chunk are each within a segment, and their body ends by
\* its length or its last chunk, not with the connection.
WholeIsEmitted ==
    Idle => \A id \in Mapped \ Emitted : \A x \in DOMAIN Parts :
        LET held == ToSet(SegmentsOf(heap[id].packets))
        IN  PartsOf(x) \subseteq held =>
                Wraps(x) \/ (\E w \in PartsOf(x) : Padded(w)) \/ ~(held \subseteq PartsOf(x))

\* While its segments wait for each other, one wire message is one object: "all
\* packets in the same message have same" hash (tcp/tcp_message.go:310), also
\* across a 100-continue, where the Ack changes within the message.
OneObjectPerMessage ==
    Idle => \A id, jd \in Mapped \ Emitted : \A x \in DOMAIN Parts :
        /\ PartsOf(x) \cap ToSet(SegmentsOf(heap[id].packets)) # {}
        /\ PartsOf(x) \cap ToSet(SegmentsOf(heap[jd].packets)) # {}
        => id = jd

\* Message.UUID gives a request and its response the same id, and only them: it
\* is what joins the two recordings, and what the filter of the emitter uses.
UUIDPairs ==
    \A i, j \in DOMAIN delivered :
        delivered[i].type = "request" /\ delivered[j].type = "response" =>
            (delivered[i].uuid = delivered[j].uuid
             <=> \E a \in Answers : /\ delivered[i].data = Parts[a[1]]
                                    /\ delivered[j].data = Parts[a[2]])

\* What the reader is about to take no longer changes: no later packet reaches a
\* message that waits in the channel, though Fix100Continue may put an emitted
\* message back into the map.
EmittedIsFinal ==
    [][\A id \in ToSet(messages) :
          /\ SegmentsOf(heap'[id].packets) = SegmentsOf(heap[id].packets)
          /\ UUID(heap'[id]) = UUID(heap[id])]_vars

\* The parser implements Reassembly. HasFullPayload looks at the last bytes of a chunked
\* message only, so that a segment ends it when its own bytes look like the last chunk.
Abstract == INSTANCE Reassembly
    WITH copies <- captured, out <- [i \in DOMAIN delivered |-> delivered[i].data],
         Ends <- {w \in Wire : Payload[w].tail = "last"}
Reassembles == Abstract!Spec

\* "Skip duplicates" (tcp/tcp_message.go:101): no captured copy of a segment is
\* part of two recordings, so a message is never recorded more often than its
\* rarest segment was captured.
SkipsDuplicates ==
    \A w \in Wire :
        Cardinality({i \in DOMAIN delivered : w \in ToSet(delivered[i].data)}) <= captured[w]

\* An extension header of 2048 bytes, of a kind that parse knows
IsLong(e) == Known(e.kind) /\ WireExtensionLen(e) = 2048
HasLongHeader(f) == \E i \in DOMAIN f.exts : IsLong(f.exts[i])

\* What parse takes for the payload of a captured frame is the TCP payload with the
\* padding after it, and nothing when that is all zeros, or when the headers hold an
\* extension that parse cannot step over. Excepted are frames with an extension header
\* of 2048 bytes: the length that parse computes for it is 0, the walk does not step
\* over it, and ends elsewhere or not at all.
PayloadFound ==
    \A w \in Wire :
        LET f        == Segment[w].frame
            readable == f.transport = TCP /\ \A i \in DOMAIN f.exts : Known(f.exts[i].kind)
        IN  captured[w] > 0 /\ ~HasLongHeader(f) =>
                Parsed[w] =
                    IF ~readable THEN [result |-> "error", len |-> 0]
                    ELSE [result |-> IF f.zero \/ CapturedData(f) = 0 THEN "empty" ELSE "packet",
                          len    |-> CapturedData(f) + CapturedPadding(f)]

\* Nothing stays: the parser works off its queue, and what never becomes whole
\* expires, so that the parser is over and over again empty; unless it has met a frame
\* whose extension headers it walks through for ever.
Drains ==
    []<>(\/ Idle /\ packets = <<>> /\ messages = <<>> /\ DOMAIN m = {}
         \/ Running("ParsePacket"))
=============================================================================
