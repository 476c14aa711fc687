--------------------------- MODULE MessageParser ---------------------------
(***************************************************************************)
(* tcp.MessageParser: from captured TCP packets to HTTP messages.          *)
(*                                                                         *)
(* Four processes share it.  The reader of a capture handle pushes packets *)
(* into the channel `packets' (PacketHandler).  The parser's goroutine     *)
(* (wait) takes a packet or a tick at a time, keeps the messages in        *)
(* progress in the map `m' and pushes whole ones into the channel          *)
(* `messages'.  Time passes, and its ticker ticks.  The input plugin takes *)
(* the messages (HttpInput.PluginReader) and gives each its type and UUID. *)
(*                                                                         *)
(* Message objects live in `heap', since the map, the channel and the      *)
(* calls in progress refer to the same object.  The calls in progress of   *)
(* the parser's goroutine are a stack: processing one packet may merge     *)
(* other messages and block on a full channel half-way.                    *)
(***************************************************************************)
EXTENDS Naturals, Sequences, FiniteSets, SequencesExt, HttpFraming, PacketParsing

CONSTANTS
    Wire,            \* the TCP segments on the wire
    Segment,         \* [Wire -> what the parser reads of a segment]
    Listened,        \* the addresses whose traffic is DirIncoming (ports and ips)
    Traffics,        \* the traffics to look at, each a bound on the captures of each segment
    PacketCap,       \* capacity of the channel packets
    MessageCap,      \* capacity of the channel messages
    Expire,          \* messageExpire, in ticks
    AllowIncomplete, \* allowIncompete
    SeqSpace,        \* sequence and acknowledgement numbers are modulo SeqSpace
    ContinueLen      \* the length of "HTTP/1.1 100 Continue" and the empty line

Seqs == 0..(SeqSpace - 1)
Address == [ip : Seqs, port : Nat]
SegmentRecord ==
    [src : Address, dst : Address, ack : Seqs, seq : Seqs, frame : FrameRecord, title : Titles,
     hend : Nat, clen : Nat, framing : Framings, expect : BOOLEAN, tail : Tails]

\* No frame is cut short by the capture.
ASSUME WireAssumption ==
    /\ Segment \in [Wire -> SegmentRecord]
    /\ \A w \in Wire : CapturedData(Segment[w].frame) = Segment[w].frame.data
ASSUME BoundAssumption ==
    /\ Traffics \subseteq [Wire -> Nat] /\ PacketCap \in Nat \ {0} /\ MessageCap \in Nat \ {0}
    /\ Expire \in Nat /\ SeqSpace \in Nat \ {0} /\ ContinueLen \in Nat
    /\ AllowIncomplete \in BOOLEAN

VARIABLES
    traffic,    \* the one of Traffics that is on the wire, which does not change
    captured,   \* [Wire -> how often it was captured so far]
    packets,    \* parser.packets
    heap,       \* the Message objects created so far, by number
    m,          \* parser.m: from MessageID to the number of a message
    stack,      \* the calls in progress of parser.wait, innermost first
    tick,       \* does a tick wait in parser.ticker.C
    messages,   \* parser.messages
    delivered,  \* what PluginReader returned so far
    dropped     \* [Wire -> copies the parser let go: empty, duplicate, expired]

vars == <<traffic, captured, packets, heap, m, stack, tick, messages, delivered, dropped>>

-----------------------------------------------------------------------------
(* Packets.  A packet is a captured copy of a segment: only Ack changes, and *)
(* only its age matters of the time stamp, up to the point where it expires. *)

Directions == {"unknown", "incoming", "outcoming"}
Ages == 0..(Expire + 1)
Packet == [seg : Wire, ack : Seqs, age : Ages]

Seq32(p) == Segment[p.seg].seq

\* What ParsePacket makes of the frame of a segment, and the payload the parser then
\* works with: padding is part of it, and hides its last bytes.
Parsed == [w \in Wire |-> ParsePacket(Segment[w].frame)]
Padded(w) == CapturedPadding(Segment[w].frame) > 0
Payload ==
    [w \in Wire |->
        LET s == Segment[w]
        IN  [len |-> Parsed[w].len, title |-> s.title, hend |-> s.hend, clen |-> s.clen,
             framing |-> s.framing, expect |-> s.expect,
             tail |-> IF Padded(w) THEN "none" ELSE s.tail]]

\* What is carried out of the sum of two addresses and an Ack is a bit of the port's.
OrCarry(port, carry) ==
    IF carry = 0 \/ (port \div carry) % 2 = 1 THEN port ELSE port + carry

\* Packet.MessageID: the ports and the sum of the addresses and the Ack, in 64 bits
MessageID(p) ==
    LET s   == Segment[p.seg]
        sum == s.src.ip + s.dst.ip + p.ack
    IN  <<s.src.port, OrCarry(s.dst.port, sum \div SeqSpace), sum % SeqSpace>>

\* ParsePacket does not return.
IsEndless(p) == Parsed[p.seg].result = "endless"

\* parsePacket: what cannot be parsed, or has no payload, is no packet to the parser
IsEmpty(p) == Parsed[p.seg].result # "packet"

\* parsePacket marks what is sent to a listened port of a listened address;
\* for other packets processPacket asks the start hint (http1StartHint).
StartHint(p) ==
    CASE Segment[p.seg].title = "request"  -> "incoming"
      [] Segment[p.seg].title = "response" -> "outcoming"
      [] OTHER                             -> "unknown"

DirectionOf(p) == IF Segment[p.seg].dst \in Listened THEN "incoming" ELSE StartHint(p)

Older(p) == [p EXCEPT !.age = IF @ > Expire THEN @ ELSE @ + 1]
AllOlder(ps) == [i \in DOMAIN ps |-> Older(ps[i])]

-----------------------------------------------------------------------------
(* Messages. *)

NewMessage(dir) == [packets |-> <<>>, direction |-> dir, state |-> NewHTTPState]

PacketData(msg) == [i \in DOMAIN msg.packets |-> Payload[msg.packets[i].seg]]

IsDuplicate(msg, p) == \E i \in DOMAIN msg.packets : Seq32(msg.packets[i]) = Seq32(p)

\* Mutants of InsertionPoint: packets are kept in the order they arrive in; a
\* packet that is not the newest goes to the front.
InsertionPointLast(ps, p) == Len(ps) + 1
InsertionPointEnds(ps, p) ==
    IF ps = <<>> \/ Seq32(p) > Seq32(ps[Len(ps)]) THEN Len(ps) + 1 ELSE 1

\* Where Message.add puts a packet: at the end when it is the newest, else
\* before the first packet with a greater sequence number.
InsertionPoint(ps, p) ==
    IF ps = <<>> \/ Seq32(p) > Seq32(ps[Len(ps)]) THEN Len(ps) + 1
    ELSE CHOOSE i \in DOMAIN ps :
            /\ Seq32(p) < Seq32(ps[i])
            /\ \A j \in 1..(i - 1) : Seq32(p) >= Seq32(ps[j])

Inserted(ps, p) == InsertAt(ps, InsertionPoint(ps, p), p)

\* m.End is the latest time stamp of the packets: the age of the message
EndAge(msg) ==
    CHOOSE a \in Ages :
        /\ \E i \in DOMAIN msg.packets : msg.packets[i].age = a
        /\ \A i \in DOMAIN msg.packets : msg.packets[i].age >= a

MissingChunk(msg) ==
    \E i \in 2..Len(msg.packets) :
        LET before == msg.packets[i - 1]
        IN  Seq32(msg.packets[i]) # (Seq32(before) + Payload[before.seg].len) % SeqSpace

\* Mutant of End: gaps are not looked for.
EndDespiteGaps(msg) == HasFullPayload(msg.state, PacketData(msg))

\* http1EndHint: the protocol state it leaves and whether the message is whole
End(msg) ==
    IF MissingChunk(msg) THEN [state |-> msg.state, full |-> FALSE]
    ELSE HasFullPayload(msg.state, PacketData(msg))

\* Mutant of UUID: a response is given the Ack of its packets, not their Seq.
UUIDFromAck(msg) ==
    LET p == msg.packets[1]
        s == Segment[p.seg]
    IN  IF msg.direction = "incoming" THEN <<s.src.port, s.dst.port, s.src.ip, p.ack>>
        ELSE <<s.dst.port, s.src.port, s.dst.ip, p.ack>>

\* The streamID and number Message.UUID makes of the first packet
UUID(msg) ==
    LET p == msg.packets[1]
        s == Segment[p.seg]
    IN  IF msg.direction = "incoming" THEN <<s.src.port, s.dst.port, s.src.ip, p.ack>>
        ELSE <<s.dst.port, s.src.port, s.dst.ip, s.seq>>

\* The key under which Emit, Fix100Continue and timer look a message up
KeyOf(msg) == MessageID(msg.packets[1])

\* Mutant of ShiftAck: the Ack does not wrap as an uint32 does.
ShiftAckUnwrapped(msg) ==
    [msg EXCEPT !.packets = [i \in DOMAIN @ |-> [@[i] EXCEPT !.ack = @ + ContinueLen]]]

\* Fix100Continue: the Ack of every packet skips the interim response
Shifted(ps) == [i \in DOMAIN ps |-> [ps[i] EXCEPT !.ack = (@ + ContinueLen) % SeqSpace]]
ShiftAck(msg) == [msg EXCEPT !.packets = Shifted(@)]

-----------------------------------------------------------------------------
(* parser.m, and the parser's part of the state as a record: the operators  *)
(* below take and return one, as the calls they model act on the parser.    *)

Without(map, k) == [j \in DOMAIN map \ {k} |-> map[j]]
With(map, k, id) == [j \in DOMAIN map \cup {k} |-> IF j = k THEN id ELSE map[j]]

Parser == [heap |-> heap, m |-> m, stack |-> stack, dropped |-> dropped]

SetParser(s) ==
    /\ heap' = s.heap
    /\ m' = s.m
    /\ stack' = s.stack
    /\ dropped' = s.dropped

Emitting(id) == [call |-> "Emit", id |-> id, rest |-> <<>>, keys |-> {}]
Merging(id, ps) == [call |-> "Merge", id |-> id, rest |-> ps, keys |-> {}]
Expiring(ks) == [call |-> "timer", id |-> 0, rest |-> <<>>, keys |-> ks]
Parsing(p) == [call |-> "ParsePacket", id |-> 0, rest |-> <<p>>, keys |-> {}]

Call(s, frame) == [s EXCEPT !.stack = <<frame>> \o @]
Return(s) == [s EXCEPT !.stack = Tail(@)]

\* Emit removes the message from the map, then sends it, which may block
Emit(s, id) ==
    Call([s EXCEPT !.m = Without(@, KeyOf(s.heap[id]))], Emitting(id))

\* Mutants of Fix100Continue: the message keeps its old key; a message under the
\* new key is overridden; the interim response is not accounted for.
Fix100ContinueUnmoved(s, id) ==
    IF ~s.heap[id].state.continue100 THEN s ELSE [s EXCEPT !.heap[id] = ShiftAck(@)]
Fix100ContinueOverrides(s, id) ==
    LET shifted == ShiftAck(s.heap[id])
    IN  IF ~s.heap[id].state.continue100 THEN s
        ELSE [s EXCEPT !.heap[id] = shifted,
                       !.m = With(Without(@, KeyOf(s.heap[id])), KeyOf(shifted), id)]
Fix100ContinueIgnored(s, id) == s

\* Fix100Continue moves the message to the key its body will have; a message
\* already there is merged first (see MergeNext).
Fix100Continue(s, id) ==
    LET shifted == ShiftAck(s.heap[id])
        moved   == [s EXCEPT !.heap[id] = shifted, !.m = Without(@, KeyOf(s.heap[id]))]
        key     == KeyOf(shifted)
    IN  IF ~s.heap[id].state.continue100 THEN s
        ELSE IF key \in DOMAIN moved.m
        THEN Call(moved, Merging(id, moved.heap[moved.m[key]].packets))
        ELSE [moved EXCEPT !.m = With(@, key, id)]

\* Mutant of AddPacket: it goes on after a duplicate.
AddPacketGoesOn(s, id, p) ==
    IF IsDuplicate(s.heap[id], p)
    THEN SetParser(Fix100Continue([s EXCEPT !.dropped[p.seg] = @ + 1], id))
    ELSE \E msg \in {[s.heap[id] EXCEPT !.packets = Inserted(@, p)]} :
         \E end \in {End(msg)} :
         \E added \in {[s EXCEPT !.heap[id] = [msg EXCEPT !.state = end.state]]} :
            SetParser(IF end.full THEN Emit(added, id) ELSE Fix100Continue(added, id))

\* addPacket in state s: a duplicate is skipped; else the end hint decides
AddPacket(s, id, p) ==
    IF IsDuplicate(s.heap[id], p) THEN SetParser([s EXCEPT !.dropped[p.seg] = @ + 1])
    ELSE \E msg \in {[s.heap[id] EXCEPT !.packets = Inserted(@, p)]} :
         \E end \in {End(msg)} :
         \E added \in {[s EXCEPT !.heap[id] = [msg EXCEPT !.state = end.state]]} :
            SetParser(IF end.full THEN Emit(added, id) ELSE Fix100Continue(added, id))

\* processPacket for a message in progress: a direction still unknown is asked
\* of this packet
Continued(p) ==
    \E id \in {m[MessageID(p)]} :
    \E s \in {[Parser EXCEPT !.heap[id].direction = IF @ = "unknown" THEN StartHint(p) ELSE @]} :
        AddPacket(s, id, p)

\* processPacket for the first packet of a message
Started(p) ==
    \E id \in {Len(heap) + 1} :
    \E s \in {[Parser EXCEPT !.heap = Append(@, NewMessage(DirectionOf(p))),
                             !.m = With(@, MessageID(p), id)]} :
        AddPacket(s, id, p)

\* parsePacket, a call from which the parser need not come back, and processPacket
ProcessPacket(p) ==
    IF IsEndless(p) THEN SetParser(Call(Parser, Parsing(p)))
    ELSE IF IsEmpty(p) THEN SetParser([Parser EXCEPT !.dropped[p.seg] = @ + 1])
    ELSE IF MessageID(p) \in DOMAIN m THEN Continued(p)
    ELSE Started(p)

-----------------------------------------------------------------------------
(* The actions. *)

Idle == stack = <<>>
Running(call) == ~Idle /\ Head(stack).call = call
Top == Head(stack)

Init ==
    /\ traffic \in Traffics
    /\ captured = [w \in Wire |-> 0]
    /\ packets = <<>>
    /\ heap = <<>>
    /\ m = [k \in {} |-> 0]
    /\ stack = <<>>
    /\ tick = FALSE
    /\ messages = <<>>
    /\ delivered = <<>>
    /\ dropped = [w \in Wire |-> 0]

\* The reader of the handle: PacketHandler blocks while the channel is full.
\* Segments are captured in any order, up to as often as the traffic has them, or never.
PacketHandler(w) ==
    /\ captured[w] < traffic[w]
    /\ Len(packets) < PacketCap
    /\ captured' = [captured EXCEPT ![w] = @ + 1]
    /\ packets' = Append(packets, [seg |-> w, ack |-> Segment[w].ack, age |-> 0])
    /\ UNCHANGED <<traffic, heap, m, stack, tick, messages, delivered, dropped>>

\* wait: case pckt := <-parser.packets
Receive ==
    /\ Idle
    /\ packets # <<>>
    /\ packets' = Tail(packets)
    /\ ProcessPacket(Head(packets))
    /\ UNCHANGED <<traffic, captured, tick, messages, delivered>>

\* Fix100Continue: the loop over next.packets, and the re-add after it. In the code the
\* packets of both messages are the same objects: if the other one was emitted, a later
\* shift reaches its packets, too, which here are copies.
MergeNext ==
    /\ Running("Merge")
    /\ IF Top.rest # <<>>
       THEN AddPacket(Call(Return(Parser), Merging(Top.id, Tail(Top.rest))),
                      Top.id, Head(Top.rest))
       ELSE SetParser([Return(Parser) EXCEPT !.m = With(@, KeyOf(heap[Top.id]), Top.id)])
    /\ UNCHANGED <<traffic, captured, packets, tick, messages, delivered>>

\* Emit: parser.messages <- m
Send ==
    /\ Running("Emit")
    /\ Len(messages) < MessageCap
    /\ messages' = Append(messages, Top.id)
    /\ SetParser(Return(Parser))
    /\ UNCHANGED <<traffic, captured, packets, tick, delivered>>

\* wait: case now = <-parser.ticker.C, which calls timer
Timer ==
    /\ Idle
    /\ tick
    /\ tick' = FALSE
    /\ SetParser(Call(Parser, Expiring(DOMAIN m)))
    /\ UNCHANGED <<traffic, captured, packets, messages, delivered>>

\* Mutant of Expired: only a message with a gap expires.
ExpiredWithGap(msg) == EndAge(msg) > Expire /\ MissingChunk(msg)

\* timer: now.Sub(m.End) > parser.messageExpire
Expired(msg) == EndAge(msg) > Expire

\* The messages handed to the channel, read or not
Emitted == ToSet(messages) \cup {delivered[i].id : i \in DOMAIN delivered}

\* How often a segment is among the packets
HowOften(w, ps) == Cardinality({i \in DOMAIN ps : ps[i].seg = w})

\* The copies let go with a message that expires, unless it was emitted before
DroppedWith(id) ==
    [w \in Wire |-> dropped[w] + IF id \in Emitted THEN 0 ELSE HowOften(w, heap[id].packets)]

\* timer: one round of the range over parser.m, in any order. An entry deleted
\* before the loop reaches it is not visited.
ExpireOne ==
    /\ Running("timer")
    /\ \E k \in Top.keys \cap DOMAIN m :
         LET msg  == heap[m[k]]
             next == Call(Return(Parser), Expiring(Top.keys \ {k}))
         IN  SetParser(
               IF ~Expired(msg) THEN next
               ELSE IF AllowIncomplete THEN Emit(next, m[k])
               ELSE [next EXCEPT !.m = Without(@, KeyOf(msg)), !.dropped = DroppedWith(m[k])])
    /\ UNCHANGED <<traffic, captured, packets, tick, messages, delivered>>

TimerReturns ==
    /\ Running("timer")
    /\ Top.keys \cap DOMAIN m = {}
    /\ SetParser(Return(Parser))
    /\ UNCHANGED <<traffic, captured, packets, tick, messages, delivered>>

\* HttpInput.PluginReader: take a message, its data, type and UUID
PluginReader ==
    /\ messages # <<>>
    /\ LET msg == heap[Head(messages)]
       IN  delivered' = Append(delivered,
              [type |-> IF msg.direction = "incoming" THEN "request" ELSE "response",
               uuid |-> UUID(msg),
               data |-> [i \in DOMAIN msg.packets |-> msg.packets[i].seg],
               id   |-> Head(messages)])
    /\ messages' = Tail(messages)
    /\ UNCHANGED <<traffic, captured, packets, heap, m, stack, tick, dropped>>

\* The messages whose age still matters: in the map, or being merged
InProgress == {m[k] : k \in DOMAIN m} \cup
              {stack[i].id : i \in {j \in DOMAIN stack : stack[j].call = "Merge"}}

\* One ticker period passes. The model hands timer the current time: a tick that
\* waited in the channel is older and would only put an expiry off to the next.
TimePasses ==
    /\ tick' = TRUE
    /\ packets' = AllOlder(packets)
    /\ heap' = [id \in DOMAIN heap |->
                  IF id \notin InProgress THEN heap[id]
                  ELSE [heap[id] EXCEPT !.packets = AllOlder(@)]]
    /\ stack' = [i \in DOMAIN stack |-> [stack[i] EXCEPT !.rest = AllOlder(@)]]
    /\ UNCHANGED <<traffic, captured, m, messages, delivered, dropped>>

Capture == \E w \in Wire : PacketHandler(w)
Wait == Receive \/ MergeNext \/ Send \/ Timer \/ ExpireOne \/ TimerReturns

Next == Capture \/ Wait \/ PluginReader \/ TimePasses

Spec == Init /\ [][Next]_vars

\* What only Receive does: the parser takes a packet. Fairness of Receive is stated of
\* it, because that it can be taken is seen without processing the packet.
TakesPacket ==
    /\ Idle
    /\ packets # <<>>
    /\ packets' = Tail(packets)

\* The goroutines are scheduled and time passes. Go's select picks among the ready
\* cases at random: a case that is ready again and again is taken in the end,
\* though handling the other one makes it wait each time.
Fairness ==
    /\ SF_packets(TakesPacket) /\ SF_vars(Timer)
    /\ WF_vars(MergeNext) /\ WF_vars(Send) /\ WF_vars(ExpireOne) /\ WF_vars(TimerReturns)
    /\ WF_vars(PluginReader) /\ WF_vars(TimePasses)

FairSpec == Spec /\ Fairness
=============================================================================
