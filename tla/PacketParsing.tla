--------------------------- MODULE PacketParsing ---------------------------
(***************************************************************************)
(* tcp.Packet.parse: what is taken for the payload of a captured frame.    *)
(*                                                                         *)
(* parse looks at the IP and TCP headers for where the payload begins, and *)
(* takes all that was captured after them for the payload: the total       *)
(* length of the IP packet is not read, so that the padding of a short     *)
(* Ethernet frame becomes payload.  A payload of nothing but zeros counts  *)
(* as empty.                                                               *)
(*                                                                         *)
(* A frame is a record of what parse can tell about it:                    *)
(*   version    of IP: 4, 6 or another                                     *)
(*   ihl        the IPv4 header's length, in words of 4 bytes              *)
(*   exts       the IPv6 extension headers, each with its kind and its     *)
(*              length field, a byte                                       *)
(*   transport  the number of the transport protocol, 6 for TCP            *)
(*   doff       the TCP header's length, in words                          *)
(*   data       the bytes of TCP payload                                   *)
(*   zero       are they all zero                                          *)
(*   padding    the zero bytes that follow in the frame                    *)
(*   captured   the bytes captured after the link header                   *)
(*   inner      what the content of an extension header of 2048 bytes      *)
(*              looks like when it is read as a header (see ExtensionLen):  *)
(*              as one of TCP, its length in words and whether nothing but  *)
(*              zeros follow; as a fragment header, what the walk through   *)
(*              its bytes makes of the frame, which can be anything         *)
(***************************************************************************)
EXTENDS Integers, Sequences, SequencesExt

TCP == 6
Fragment == 44

\* ipv6ExtensionHdr: the extension headers that parse knows
Known(kind) == kind \in {0, 43, Fragment}

Extension == [kind : 0..255, units : 0..255]
Outcome == [result : {"packet", "empty", "error", "endless"}, len : Nat]
FrameRecord ==
    [version : 0..15, ihl : 0..15, exts : Seq(Extension),
     transport : {n \in 0..255 : ~Known(n)}, doff : 0..15,
     data : Nat, zero : BOOLEAN, padding : Nat, captured : Nat,
     inner : [doff : 0..15, zero : BOOLEAN, walk : Outcome]]

\* Mutant of ExtensionLen: a fragment header is not told apart.
ExtensionLenAlike(e) == ((e.units + 1) % 256) * 8

\* extLen. The sum of the length field and 1 is one of bytes: of a header of 2048 bytes,
\* whose length field is 255, the walk steps over none.
ExtensionLen(e) == IF e.kind = Fragment THEN 8 ELSE ((e.units + 1) % 256) * 8

\* Does the loop read this header again after it has read it, as one of the next kind?
StandsStill(e) == Known(e.kind) /\ ExtensionLen(e) = 0

\* The extension headers the loop reads: those before the first it does not know, and
\* none after one at which it stands still.
Skipped(f) ==
    LET last == SelectInSeq(f.exts, LAMBDA e : ~Known(e.kind) \/ StandsStill(e))
    IN  IF last = 0 THEN f.exts
        ELSE SubSeq(f.exts, 1, IF StandsStill(f.exts[last]) THEN last ELSE last - 1)

SkippedLen(f, n) == FoldLeft(LAMBDA sum, e : sum + ExtensionLen(e), 0, SubSeq(f.exts, 1, n))

\* Are the headers that are read there: each one is looked at before it is skipped
ExtensionsThere(f) ==
    \A n \in DOMAIN Skipped(f) :
        f.captured - (40 + SkippedLen(f, n - 1)) >= (IF ExtensionLen(f.exts[n]) > 8
                                                     THEN ExtensionLen(f.exts[n]) ELSE 8)

\* len(netLayer)
NetworkLen(f) == IF f.version = 4 THEN 4 * f.ihl ELSE 40 + SkippedLen(f, Len(Skipped(f)))

NetworkThere(f) ==
    \/ f.version = 4 /\ f.captured >= 20 /\ f.ihl >= 5 /\ f.captured >= NetworkLen(f)
    \/ f.version = 6 /\ f.captured >= 40 /\ ExtensionsThere(f)

\* proto, after the loop, or when it reads a header again
Protocol(f) ==
    IF f.version = 4 \/ Len(Skipped(f)) = Len(f.exts) THEN f.transport
    ELSE f.exts[Len(Skipped(f)) + 1].kind

\* ndata begins within an extension header
Misplaced(f) == f.version = 6 /\ \E i \in DOMAIN Skipped(f) : StandsStill(f.exts[i])

SegmentLen(f) == f.captured - NetworkLen(f)

\* dOf, in words
DataOffset(f) == IF Misplaced(f) THEN f.inner.doff ELSE f.doff

\* What is taken for the TCP header is there
TransportThere(f) ==
    /\ Protocol(f) = TCP /\ SegmentLen(f) >= 20
    /\ DataOffset(f) >= 5 /\ SegmentLen(f) >= 4 * DataOffset(f)

\* len(ndata[dOf:])
PayloadLen(f) == SegmentLen(f) - 4 * DataOffset(f)

\* The loop that looks for a byte that is not zero
AllZero(f) ==
    PayloadLen(f) = 0 \/ IF Misplaced(f) THEN f.inner.zero ELSE f.data = 0 \/ f.zero

\* What follows the loop over the extension headers
ParseTransport(f) ==
    IF ~NetworkThere(f) \/ ~TransportThere(f) THEN [result |-> "error", len |-> 0]
    ELSE [result |-> IF AllZero(f) THEN "empty" ELSE "packet", len |-> PayloadLen(f)]

\* ParsePacket with allowEmpty = false. When the header that is read again is now of a
\* kind whose length is read, the loop stands still for ever; as a fragment header it is
\* eight bytes long, and the walk goes on within its content.
ParsePacket(f) ==
    CASE NetworkThere(f) /\ Protocol(f) \in {0, 43}    -> [result |-> "endless", len |-> 0]
      [] NetworkThere(f) /\ Protocol(f) = Fragment     -> f.inner.walk
      [] ~NetworkThere(f) \/ ~Known(Protocol(f))        -> ParseTransport(f)

-----------------------------------------------------------------------------
(* The frame by the protocols' own rules: a reference for ParsePacket.       *)

\* The length of an extension header, by its kind (an authentication header, 51,
\* counts in words and from 2)
WireExtensionLen(e) ==
    IF e.kind = Fragment THEN 8 ELSE IF e.kind = 51 THEN (e.units + 2) * 4 ELSE (e.units + 1) * 8

HeaderLen(f) ==
    4 * f.doff + IF f.version = 4 THEN 4 * f.ihl
                 ELSE 40 + FoldLeft(LAMBDA sum, e : sum + WireExtensionLen(e), 0, f.exts)

\* How much of the TCP payload, and of the padding, was captured
CapturedData(f) ==
    LET rest == f.captured - HeaderLen(f)
    IN  IF rest < 0 THEN 0 ELSE IF rest > f.data THEN f.data ELSE rest
CapturedPadding(f) ==
    IF f.captured > HeaderLen(f) + f.data THEN f.captured - HeaderLen(f) - f.data ELSE 0
=============================================================================
