------------------------ MODULE MessageParserProofs ------------------------
(***************************************************************************)
(* What the parser promises, for any traffic, capacities and expiry.       *)
(*                                                                         *)
(* Type correctness, and that the packets of every message are in the      *)
(* order of their sequence numbers, hold of every traffic.  Message        *)
(* objects are shared between the map, the channel and the calls in        *)
(* progress; the inductive invariant says that all three refer to messages *)
(* that exist, and what each of them holds.                                *)
(*                                                                         *)
(* The map, the count of the captured copies and what has been emitted are *)
(* then followed through traffic without a 100-continue (Plain).           *)
(* Fix100Continue shifts Acks, and deletes a key that may by then belong   *)
(* to another message, so that with it they hold only of traffic whose     *)
(* numbers do not collide.                                                 *)
(*                                                                         *)
(* What parse takes for the payload of a frame is what the protocols       *)
(* define as it, for every frame that is well formed.                      *)
(*                                                                         *)
(* http1EndHint sees the end of messages that are framed by their headers  *)
(* (WellFramed), whichever segments of them come first: a message that has *)
(* them all is emitted, and the parser implements Reassembly.              *)
(*                                                                         *)
(* Last, a recording has the direction and the UUID of the first segment   *)
(* of its message, also when that is captured last, so that the UUIDs join *)
(* the responses to the requests that they acknowledge.                    *)
(***************************************************************************)
EXTENDS MessageParserProperties, DataLemmas

\* A sequence, of whatever it holds
IsSeq(q) == q \in Seq(ToSet(q))

InOrder(ps) == \A i, j \in DOMAIN ps : i < j => Seq32(ps[i]) < Seq32(ps[j])

IsState(st) == DOMAIN st = DOMAIN NewHTTPState /\ st.continue100 \in BOOLEAN

IsMessage(msg) ==
    /\ DOMAIN msg = {"packets", "direction", "state"}
    /\ msg.packets \in Seq(Packet) /\ InOrder(msg.packets)
    /\ msg.direction \in Directions
    /\ IsState(msg.state)

IsHeap(h) == IsSeq(h) /\ \A id \in DOMAIN h : IsMessage(h[id])

\* A call in progress, on one of the messages in h if it is on a message
IsCall(c, h) ==
    /\ DOMAIN c = {"call", "id", "rest", "keys"}
    /\ c.rest \in Seq(Packet)
    /\ c.call \notin {"timer", "ParsePacket"} => c.id \in DOMAIN h

IsStack(st, h) == IsSeq(st) /\ \A i \in DOMAIN st : IsCall(st[i], h)

IsParser(s) ==
    /\ DOMAIN s = {"heap", "m", "stack", "dropped"}
    /\ IsHeap(s.heap)
    /\ \A k \in DOMAIN s.m : s.m[k] \in DOMAIN s.heap
    /\ IsStack(s.stack, s.heap)
    /\ s.dropped \in [Wire -> Nat]

IInv ==
    /\ traffic \in [Wire -> Nat]
    /\ captured \in [Wire -> Nat] /\ \A w \in Wire : captured[w] <= traffic[w]
    /\ packets \in Seq(Packet)
    /\ IsParser(Parser)
    /\ messages \in Seq(DOMAIN heap)
    /\ tick \in BOOLEAN

-----------------------------------------------------------------------------
(* Sequences. *)

\* A function on 1..n is a sequence of its own elements.
LEMMA SeqOfFunction ==
    ASSUME NEW n \in Nat, NEW q, q = [i \in 1..n |-> q[i]]
    PROVE  IsSeq(q) /\ DOMAIN q = 1..n /\ Len(q) = n
<1>1. q \in [1..n -> ToSet(q)]
  BY DEF ToSet
<1>2. q \in Seq(ToSet(q))
  BY <1>1, SeqDef
<1>. QED BY <1>1, <1>2, LenProperties DEF IsSeq

\* The length and the indices of such a sequence.
LEMMA SeqParts ==
    ASSUME NEW q, IsSeq(q)
    PROVE  Len(q) \in Nat /\ DOMAIN q = 1..Len(q) /\ q = [i \in 1..Len(q) |-> q[i]]
<1>. QED BY LenProperties DEF IsSeq

\* A sequence over any set is one of its own elements.
LEMMA SeqIsSeq ==
    ASSUME NEW S, NEW q \in Seq(S)
    PROVE  IsSeq(q)
<1>1. Len(q) \in Nat /\ q = [i \in 1..Len(q) |-> q[i]]
  BY LenProperties
<1>. QED BY <1>1, SeqOfFunction

\* Appending keeps what was there, and adds the last index.
LEMMA AppendIsSeq ==
    ASSUME NEW q, IsSeq(q), NEW e
    PROVE  /\ IsSeq(Append(q, e))
           /\ DOMAIN Append(q, e) = DOMAIN q \cup {Len(q) + 1}
           /\ Append(q, e)[Len(q) + 1] = e
           /\ \A i \in DOMAIN q : Append(q, e)[i] = q[i]
<1>. DEFINE S == ToSet(q) \cup {e}
<1>1. q \in Seq(S)
  BY SeqMonotonic DEF IsSeq
<1>2. /\ Append(q, e) \in Seq(S) /\ Len(Append(q, e)) = Len(q) + 1
      /\ \A i \in 1..Len(q) : Append(q, e)[i] = q[i]
      /\ Append(q, e)[Len(q) + 1] = e
  BY <1>1, AppendProperties
<1>3. DOMAIN Append(q, e) = 1..(Len(q) + 1) /\ Len(q) \in Nat /\ DOMAIN q = 1..Len(q)
  BY <1>1, <1>2, LenProperties
<1>4. IsSeq(Append(q, e))
  BY <1>2, SeqIsSeq
<1>. QED BY <1>2, <1>3, <1>4

\* Replacing one element keeps the others, and the length.
LEMMA ExceptIsSeq ==
    ASSUME NEW q, IsSeq(q), NEW i \in DOMAIN q, NEW e
    PROVE  /\ IsSeq([q EXCEPT ![i] = e]) /\ DOMAIN [q EXCEPT ![i] = e] = DOMAIN q
           /\ \A j \in DOMAIN q : [q EXCEPT ![i] = e][j] = IF j = i THEN e ELSE q[j]
<1>1. Len(q) \in Nat /\ DOMAIN q = 1..Len(q) /\ q = [k \in 1..Len(q) |-> q[k]]
  BY SeqParts
<1>2. [q EXCEPT ![i] = e] = [k \in 1..Len(q) |-> [q EXCEPT ![i] = e][k]]
  BY <1>1
<1>. QED BY <1>1, <1>2, SeqOfFunction

\* Pushing an element in front moves the others by one.
LEMMA ConsIsSeq ==
    ASSUME NEW q, IsSeq(q), NEW e
    PROVE  /\ IsSeq(<<e>> \o q)
           /\ DOMAIN (<<e>> \o q) = 1..(Len(q) + 1) /\ Len(q) \in Nat
           /\ (<<e>> \o q)[1] = e
           /\ \A i \in 2..(Len(q) + 1) : i - 1 \in DOMAIN q /\ (<<e>> \o q)[i] = q[i - 1]
<1>. DEFINE S == ToSet(q) \cup {e}
<1>1. q \in Seq(S) /\ <<e>> \in Seq(S) /\ Len(<<e>>) = 1
  BY SeqMonotonic DEF IsSeq
<1>2. /\ <<e>> \o q \in Seq(S) /\ Len(<<e>> \o q) = 1 + Len(q)
      /\ \A i \in 1..(1 + Len(q)) :
            (<<e>> \o q)[i] = IF i <= 1 THEN <<e>>[i] ELSE q[i - 1]
  BY <1>1, ConcatProperties
<1>3. Len(q) \in Nat /\ DOMAIN q = 1..Len(q) /\ DOMAIN (<<e>> \o q) = 1..(1 + Len(q))
  BY <1>1, <1>2, LenProperties
<1>4. IsSeq(<<e>> \o q)
  BY <1>2, SeqIsSeq
<1>. QED BY <1>2, <1>3, <1>4

\* Popping the first element moves the others back by one.
LEMMA TailIsSeq ==
    ASSUME NEW q, IsSeq(q), q # <<>>
    PROVE  /\ IsSeq(Tail(q)) /\ Head(q) = q[1] /\ 1 \in DOMAIN q
           /\ \A i \in DOMAIN Tail(q) : i + 1 \in DOMAIN q /\ Tail(q)[i] = q[i + 1]
<1>. DEFINE S == ToSet(q)
<1>1. q \in Seq(S)
  BY DEF IsSeq
<1>2. /\ Tail(q) \in Seq(S) /\ Len(Tail(q)) = Len(q) - 1
      /\ \A i \in 1..Len(Tail(q)) : Tail(q)[i] = q[i + 1]
  BY <1>1, HeadTailProperties
<1>3. /\ Len(q) \in Nat \ {0} /\ DOMAIN q = 1..Len(q) /\ DOMAIN Tail(q) = 1..Len(Tail(q))
      /\ Head(q) = q[1]
  BY <1>1, <1>2, LenProperties, EmptySeq
<1>4. IsSeq(Tail(q))
  BY <1>2, SeqIsSeq
<1>. QED BY <1>2, <1>3, <1>4

-----------------------------------------------------------------------------
(* Packets. *)

\* The sequence number of a packet is a number.
LEMMA SeqNumbers ==
    ASSUME NEW p \in Packet
    PROVE  Seq32(p) \in Nat
<1>1. Segment[p.seg].seq \in Seqs
  BY WireAssumption DEF Packet, SegmentRecord
<1>. QED BY <1>1, BoundAssumption DEF Seqs, Seq32

\* Message.add finds a place between the smaller and the greater sequence numbers.
LEMMA PlaceToInsert ==
    ASSUME NEW ps \in Seq(Packet), InOrder(ps), NEW p \in Packet,
           \A i \in DOMAIN ps : Seq32(ps[i]) # Seq32(p)
    PROVE  /\ InsertionPoint(ps, p) \in 1..(Len(ps) + 1)
           /\ \A i \in 1..(InsertionPoint(ps, p) - 1) : Seq32(ps[i]) < Seq32(p)
           /\ \A i \in InsertionPoint(ps, p)..Len(ps) : Seq32(p) < Seq32(ps[i])
<1>1. Len(ps) \in Nat /\ DOMAIN ps = 1..Len(ps) /\ \A i \in 1..Len(ps) : ps[i] \in Packet
  BY LenProperties, ElementOfSeq
<1>2. Seq32(p) \in Nat /\ \A i \in 1..Len(ps) : Seq32(ps[i]) \in Nat
  BY <1>1, SeqNumbers
<1>3. CASE ps = <<>>
  BY <1>1, <1>3 DEF InsertionPoint
<1>4. CASE ps # <<>> /\ Seq32(p) > Seq32(ps[Len(ps)])
  <2>1. Len(ps) \in DOMAIN ps
    BY <1>1, <1>4, EmptySeq
  <2>2. \A i \in 1..Len(ps) : Seq32(ps[i]) <= Seq32(ps[Len(ps)])
    BY <1>1, <1>2, <2>1 DEF InOrder
  <2>3. InsertionPoint(ps, p) = Len(ps) + 1
    BY <1>4 DEF InsertionPoint
  <2>. QED BY <1>1, <1>2, <1>4, <2>1, <2>2, <2>3
<1>5. CASE ps # <<>> /\ ~(Seq32(p) > Seq32(ps[Len(ps)]))
  <2>. DEFINE Greater == {i \in 1..Len(ps) : Seq32(p) < Seq32(ps[i])}
              Place(i) == /\ Seq32(p) < Seq32(ps[i])
                          /\ \A j \in 1..(i - 1) : Seq32(p) >= Seq32(ps[j])
  <2>1. Len(ps) \in 1..Len(ps)
    BY <1>1, <1>5, EmptySeq
  <2>2. Greater # {} /\ Greater \in SUBSET (1..Len(ps))
    BY <1>1, <1>2, <1>5, <2>1
  <2>3. PICK k \in Greater : \A j \in Greater : k <= j
    <3>1. Greater \in SUBSET Nat
      OBVIOUS
    <3>. HIDE DEF Greater
    <3>. QED BY <2>2, <3>1, LeastNumber
  <2>4. k \in DOMAIN ps /\ Place(k)
    BY <1>1, <1>2, <2>3
  <2>5. InsertionPoint(ps, p) = CHOOSE i \in DOMAIN ps : Place(i)
    BY <1>5 DEF InsertionPoint
  <2>6. InsertionPoint(ps, p) \in DOMAIN ps /\ Place(InsertionPoint(ps, p))
    BY <2>4, <2>5
  <2>7. \A i \in 1..(InsertionPoint(ps, p) - 1) : Seq32(ps[i]) < Seq32(p)
    BY <1>1, <1>2, <2>6
  <2>8. \A i \in InsertionPoint(ps, p)..Len(ps) : Seq32(p) < Seq32(ps[i])
    BY <1>1, <1>2, <2>6 DEF InOrder
  <2>. QED BY <1>1, <2>6, <2>7, <2>8
<1>. QED BY <1>3, <1>4, <1>5

\* What InsertAt makes of a sequence.
LEMMA InsertAtIsSeq ==
    ASSUME NEW S, NEW q \in Seq(S), NEW k \in 1..(Len(q) + 1), NEW e \in S
    PROVE  /\ InsertAt(q, k, e) \in Seq(S)
           /\ DOMAIN InsertAt(q, k, e) = 1..(Len(q) + 1)
           /\ \A i \in 1..(Len(q) + 1) :
                 InsertAt(q, k, e)[i] = IF i < k THEN q[i] ELSE IF i = k THEN e ELSE q[i - 1]
<1>1. Len(q) \in Nat /\ \A i \in 1..Len(q) : q[i] \in S
  BY LenProperties, ElementOfSeq
<1>. DEFINE a == SubSeq(q, 1, k - 1)
            b == SubSeq(q, k, Len(q))
            d == <<e>>
            c == a \o d
<1>2. /\ a \in Seq(S) /\ Len(a) = k - 1
      /\ \A i \in 1..(k - 1) : a[i] = q[i]
  <2>1. 1 \in Int /\ k - 1 \in Int /\ \A i \in 1..(k - 1) : q[i] \in S
    BY <1>1
  <2>2. /\ a \in Seq(S) /\ Len(a) = (IF 1 <= k - 1 THEN k - 1 - 1 + 1 ELSE 0)
        /\ \A i \in 1..(k - 1 - 1 + 1) : a[i] = q[1 + i - 1]
    BY <2>1, SubSeqProperties
  <2>. QED BY <1>1, <2>2
<1>3. /\ b \in Seq(S) /\ Len(b) = Len(q) - k + 1
      /\ \A i \in 1..(Len(q) - k + 1) : b[i] = q[k + i - 1]
  <2>1. k \in Int /\ Len(q) \in Int /\ \A i \in k..Len(q) : q[i] \in S
    BY <1>1
  <2>2. /\ b \in Seq(S) /\ Len(b) = (IF k <= Len(q) THEN Len(q) - k + 1 ELSE 0)
        /\ \A i \in 1..(Len(q) - k + 1) : b[i] = q[k + i - 1]
    BY <2>1, SubSeqProperties
  <2>. QED BY <1>1, <2>2
<1>4. d \in Seq(S) /\ Len(d) = 1 /\ d[1] = e
  OBVIOUS
<1>5. /\ c \in Seq(S) /\ Len(c) = k
      /\ \A i \in 1..k : c[i] = IF i < k THEN q[i] ELSE e
  <2>. HIDE DEF a, d
  <2>1. /\ c \in Seq(S) /\ Len(c) = Len(a) + Len(d)
        /\ \A i \in 1..(Len(a) + Len(d)) :
              c[i] = IF i <= Len(a) THEN a[i] ELSE d[i - Len(a)]
    BY <1>2, <1>4, ConcatProperties
  <2>. HIDE DEF c
  <2>. QED BY <1>1, <1>2, <1>4, <2>1
<1>6. /\ c \o b \in Seq(S) /\ Len(c \o b) = Len(q) + 1
      /\ \A i \in 1..(Len(q) + 1) : (c \o b)[i] = IF i <= k THEN c[i] ELSE b[i - k]
  <2>. HIDE DEF b, c
  <2>1. /\ c \o b \in Seq(S) /\ Len(c \o b) = Len(c) + Len(b)
        /\ \A i \in 1..(Len(c) + Len(b)) :
              (c \o b)[i] = IF i <= Len(c) THEN c[i] ELSE b[i - Len(c)]
    BY <1>3, <1>5, ConcatProperties
  <2>. QED BY <1>1, <1>3, <1>5, <2>1
<1>7. InsertAt(q, k, e) = c \o b
  BY DEF InsertAt
<1>8. \A i \in 1..(Len(q) + 1) :
         (c \o b)[i] = IF i < k THEN q[i] ELSE IF i = k THEN e ELSE q[i - 1]
  <2>. HIDE DEF b, c
  <2>. QED BY <1>1, <1>3, <1>5, <1>6
<1>9. DOMAIN (c \o b) = 1..(Len(q) + 1)
  BY <1>6, LenProperties
<1>. QED BY <1>6, <1>7, <1>8, <1>9

\* Message.add keeps the order.
LEMMA InsertedInOrder ==
    ASSUME NEW ps \in Seq(Packet), InOrder(ps), NEW p \in Packet,
           \A i \in DOMAIN ps : Seq32(ps[i]) # Seq32(p)
    PROVE  Inserted(ps, p) \in Seq(Packet) /\ InOrder(Inserted(ps, p))
<1>. DEFINE k == InsertionPoint(ps, p)
            out == InsertAt(ps, k, p)
<1>1. /\ k \in 1..(Len(ps) + 1)
      /\ \A i \in 1..(k - 1) : Seq32(ps[i]) < Seq32(p)
      /\ \A i \in k..Len(ps) : Seq32(p) < Seq32(ps[i])
  BY PlaceToInsert
<1>2. /\ Len(ps) \in Nat /\ DOMAIN ps = 1..Len(ps)
      /\ Seq32(p) \in Nat /\ \A i \in 1..Len(ps) : Seq32(ps[i]) \in Nat
  BY LenProperties, ElementOfSeq, SeqNumbers
<1>. HIDE DEF k
<1>3. /\ out \in Seq(Packet) /\ DOMAIN out = 1..(Len(ps) + 1)
      /\ \A i \in 1..(Len(ps) + 1) :
            out[i] = IF i < k THEN ps[i] ELSE IF i = k THEN p ELSE ps[i - 1]
  BY <1>1, InsertAtIsSeq
<1>. HIDE DEF out
<1>4. ASSUME NEW i \in 1..(Len(ps) + 1), NEW j \in 1..(Len(ps) + 1), i < j
      PROVE  Seq32(out[i]) < Seq32(out[j])
  <2>1. CASE j < k
    BY <1>1, <1>2, <1>3, <1>4, <2>1 DEF InOrder
  <2>2. CASE j = k
    BY <1>1, <1>2, <1>3, <1>4, <2>2
  <2>3. CASE k < j /\ i < k
    <3>1. out[i] = ps[i] /\ out[j] = ps[j - 1] /\ i \in 1..(k - 1) /\ j - 1 \in k..Len(ps)
      BY <1>1, <1>2, <1>3, <2>3
    <3>. QED BY <1>1, <1>2, <3>1
  <2>4. CASE i = k
    <3>1. out[i] = p /\ out[j] = ps[j - 1] /\ j - 1 \in k..Len(ps)
      BY <1>1, <1>2, <1>3, <1>4, <2>4
    <3>. QED BY <1>1, <3>1
  <2>5. CASE k < i
    <3>1. out[i] = ps[i - 1] /\ out[j] = ps[j - 1] /\ i - 1 \in 1..Len(ps) /\ j - 1 \in 1..Len(ps)
      BY <1>1, <1>2, <1>3, <1>4, <2>5
    <3>. QED BY <1>2, <1>4, <3>1 DEF InOrder
  <2>. QED BY <1>1, <1>2, <2>1, <2>2, <2>3, <2>4, <2>5
<1>5. Inserted(ps, p) = out
  BY DEF Inserted, out, k
<1>. QED BY <1>3, <1>4, <1>5 DEF InOrder

\* What keeps the segments of the packets keeps their order.
LEMMA ChangedInOrder ==
    ASSUME NEW ps \in Seq(Packet), NEW qs, qs = [i \in DOMAIN ps |-> qs[i]],
           \A i \in DOMAIN ps : qs[i] \in Packet /\ qs[i].seg = ps[i].seg
    PROVE  /\ qs \in Seq(Packet) /\ DOMAIN qs = DOMAIN ps
           /\ InOrder(ps) => InOrder(qs)
<1>1. Len(ps) \in Nat /\ DOMAIN ps = 1..Len(ps)
  BY LenProperties
<1>2. qs \in [1..Len(ps) -> Packet]
  BY <1>1
<1>3. qs \in Seq(Packet)
  BY <1>1, <1>2, SeqDef
<1>. QED BY <1>3 DEF InOrder, Seq32

\* A tick ages the packets, and leaves their order alone.
LEMMA OlderPackets ==
    ASSUME NEW ps \in Seq(Packet)
    PROVE  AllOlder(ps) \in Seq(Packet) /\ (InOrder(ps) => InOrder(AllOlder(ps)))
<1>1. DOMAIN ps = 1..Len(ps) /\ \A i \in DOMAIN ps : ps[i] \in Packet
  BY LenProperties, ElementOfSeq
<1>2. ASSUME NEW p \in Packet PROVE Older(p) \in Packet /\ Older(p).seg = p.seg
  <2>1. (IF p.age > Expire THEN p.age ELSE p.age + 1) \in Ages
    BY BoundAssumption DEF Packet, Ages
  <2>. QED BY <2>1 DEF Older, Packet
<1>. QED BY <1>1, <1>2, ChangedInOrder DEF AllOlder

\* Fix100Continue's loop changes the Acks of the packets only, so their order stays.
LEMMA ShiftedPackets ==
    ASSUME NEW ps \in Seq(Packet)
    PROVE  Shifted(ps) \in Seq(Packet) /\ (InOrder(ps) => InOrder(Shifted(ps)))
<1>1. DOMAIN ps = 1..Len(ps) /\ \A i \in DOMAIN ps : ps[i] \in Packet
  BY LenProperties, ElementOfSeq
<1>2. \A a \in Seqs : (a + ContinueLen) % SeqSpace \in Seqs
  BY BoundAssumption DEF Seqs
<1>3. \A i \in DOMAIN ps : Shifted(ps)[i] \in Packet /\ Shifted(ps)[i].seg = ps[i].seg
  BY <1>1, <1>2 DEF Packet, Shifted
<1>4. Shifted(ps) = [i \in DOMAIN ps |-> Shifted(ps)[i]]
  BY DEF Shifted
<1>. QED BY <1>3, <1>4, ChangedInOrder

\* So a message stays a message of the parser when its Acks are shifted.
LEMMA ShiftedMessage ==
    ASSUME NEW msg, IsMessage(msg)
    PROVE  IsMessage(ShiftAck(msg))
<1>. QED BY ShiftedPackets DEF ShiftAck, IsMessage

\* http1EndHint leaves a state of the protocol.
LEMMA StateOfEnd ==
    ASSUME NEW msg, IsMessage(msg)
    PROVE  IsState(End(msg).state)
<1>. DEFINE ps == PacketData(msg)
<1>1. ASSUME NEW st, IsState(st) PROVE IsState(LocateBody(st, ps))
  BY <1>1 DEF IsState, LocateBody, NewHTTPState
<1>2. ASSUME NEW st, IsState(st) PROVE IsState(ParseHeaders(st, ps))
  BY <1>2 DEF IsState, ParseHeaders, NewHTTPState
<1>3. IsState(msg.state)
  BY DEF IsMessage
<1>4. IsState(HasFullPayload(msg.state, ps).state)
  BY <1>1, <1>2, <1>3 DEF HasFullPayload
<1>. QED BY <1>3, <1>4 DEF End

-----------------------------------------------------------------------------
(* The parser. *)

\* A heap with a message more, and with a message changed: what refers to it still
\* refers to messages that exist.
LEMMA HeapGrows ==
    ASSUME NEW h, IsHeap(h), NEW msg, IsMessage(msg)
    PROVE  /\ IsHeap(Append(h, msg))
           /\ DOMAIN h \subseteq DOMAIN Append(h, msg)
           /\ Len(h) + 1 \in DOMAIN Append(h, msg)
<1>. QED BY AppendIsSeq DEF IsHeap

\* Writing to a message object leaves the heap with the same objects.
LEMMA HeapChanges ==
    ASSUME NEW h, IsHeap(h), NEW id \in DOMAIN h, NEW msg, IsMessage(msg)
    PROVE  /\ IsHeap([h EXCEPT ![id] = msg])
           /\ DOMAIN [h EXCEPT ![id] = msg] = DOMAIN h
<1>. QED BY ExceptIsSeq DEF IsHeap

\* Calls stay good when objects are added, none is ever removed.
LEMMA StackKept ==
    ASSUME NEW st, NEW h, NEW g, IsStack(st, h), DOMAIN h \subseteq DOMAIN g
    PROVE  IsStack(st, g)
<1>. QED BY DEF IsStack, IsCall

\* Entering a call that refers to an existing message keeps the parser well formed.
LEMMA CallIsParser ==
    ASSUME NEW s, IsParser(s), NEW c, IsCall(c, s.heap)
    PROVE  IsParser(Call(s, c)) /\ Call(s, c).heap = s.heap
<1>. DEFINE st == <<c>> \o s.stack
<1>1. IsStack(st, s.heap)
  <2>1. IsSeq(s.stack) /\ \A i \in DOMAIN s.stack : IsCall(s.stack[i], s.heap)
    BY DEF IsParser, IsStack
  <2>2. /\ IsSeq(st) /\ DOMAIN st = 1..(Len(s.stack) + 1) /\ Len(s.stack) \in Nat
        /\ st[1] = c
        /\ \A i \in 2..(Len(s.stack) + 1) : i - 1 \in DOMAIN s.stack /\ st[i] = s.stack[i - 1]
    <3>1. PICK q : q = s.stack
      OBVIOUS
    <3>2. IsSeq(q)
      BY <2>1, <3>1
    <3>3. /\ IsSeq(<<c>> \o q) /\ DOMAIN (<<c>> \o q) = 1..(Len(q) + 1) /\ Len(q) \in Nat
          /\ (<<c>> \o q)[1] = c
          /\ \A i \in 2..(Len(q) + 1) : i - 1 \in DOMAIN q /\ (<<c>> \o q)[i] = q[i - 1]
      BY <3>2, ConsIsSeq
    <3>. QED BY <3>1, <3>3
  <2>. HIDE DEF st
  <2>3. ASSUME NEW i \in 1..(Len(s.stack) + 1) PROVE IsCall(st[i], s.heap)
    <3>1. CASE i = 1
      BY <2>2, <3>1
    <3>2. CASE i \in 2..(Len(s.stack) + 1)
      BY <2>1, <2>2, <3>2
    <3>. QED BY <2>2, <3>1, <3>2
  <2>. QED BY <2>2, <2>3 DEF IsStack
<1>2. Call(s, c) = [s EXCEPT !.stack = st]
  BY DEF Call
<1>. HIDE DEF st
<1>. QED BY <1>1, <1>2 DEF IsParser

\* Leaving a call does, too, and the call that is left was a good one.
LEMMA ReturnIsParser ==
    ASSUME NEW s, IsParser(s), s.stack # <<>>
    PROVE  IsParser(Return(s)) /\ Return(s).heap = s.heap /\ IsCall(Head(s.stack), s.heap)
<1>1. IsSeq(s.stack) /\ \A i \in DOMAIN s.stack : IsCall(s.stack[i], s.heap)
  BY DEF IsParser, IsStack
<1>2. /\ IsSeq(Tail(s.stack)) /\ Head(s.stack) = s.stack[1] /\ 1 \in DOMAIN s.stack
      /\ \A i \in DOMAIN Tail(s.stack) : /\ i + 1 \in DOMAIN s.stack
                                        /\ Tail(s.stack)[i] = s.stack[i + 1]
  BY <1>1, TailIsSeq
<1>3. IsStack(Tail(s.stack), s.heap)
  BY <1>1, <1>2 DEF IsStack
<1>. QED BY <1>1, <1>2, <1>3 DEF Return, IsParser

\* The loop of timer may have no packet left.
LEMMA EmptyRest == <<>> \in Seq(Packet)
<1>. QED BY EmptySeq

\* Emit, up to its send.
LEMMA EmitIsParser ==
    ASSUME NEW s, IsParser(s), NEW id \in DOMAIN s.heap
    PROVE  IsParser(Emit(s, id)) /\ Emit(s, id).heap = s.heap
<1>. DEFINE t == [s EXCEPT !.m = Without(@, KeyOf(s.heap[id]))]
<1>1. IsParser(t) /\ t.heap = s.heap
  BY DEF IsParser, Without
<1>2. IsCall(Emitting(id), t.heap)
  BY <1>1, EmptyRest DEF IsCall, Emitting
<1>3. Emit(s, id) = Call(t, Emitting(id))
  BY DEF Emit
<1>. HIDE DEF t
<1>. QED BY <1>1, <1>2, <1>3, CallIsParser

\* Fix100Continue, up to its merge loop: the shifted message is stored under its new key.
LEMMA Fix100ContinueIsParser ==
    ASSUME NEW s, IsParser(s), NEW id \in DOMAIN s.heap
    PROVE  /\ IsParser(Fix100Continue(s, id))
           /\ DOMAIN Fix100Continue(s, id).heap = DOMAIN s.heap
<1>. DEFINE shifted == ShiftAck(s.heap[id])
            key == KeyOf(shifted)
            moved == [s EXCEPT !.heap[id] = shifted, !.m = Without(@, KeyOf(s.heap[id]))]
<1>1. IsMessage(shifted)
  BY ShiftedMessage DEF IsParser, IsHeap
<1>2. IsParser(moved) /\ DOMAIN moved.heap = DOMAIN s.heap
  <2>1. IsHeap([s.heap EXCEPT ![id] = shifted])
        /\ DOMAIN [s.heap EXCEPT ![id] = shifted] = DOMAIN s.heap
    BY <1>1, HeapChanges DEF IsParser
  <2>2. IsStack(s.stack, [s.heap EXCEPT ![id] = shifted])
    BY <2>1, StackKept DEF IsParser
  <2>. HIDE DEF shifted
  <2>. QED BY <2>1, <2>2 DEF IsParser, Without
<1>. HIDE DEF shifted, moved
<1>3. CASE ~s.heap[id].state.continue100
  BY <1>3 DEF Fix100Continue
<1>4. CASE s.heap[id].state.continue100 /\ key \in DOMAIN moved.m
  <2>. DEFINE c == Merging(id, moved.heap[moved.m[key]].packets)
  <2>1. moved.m[key] \in DOMAIN moved.heap
    BY <1>2, <1>4 DEF IsParser
  <2>2. IsCall(c, moved.heap)
    BY <1>2, <2>1 DEF IsCall, Merging, IsParser, IsHeap, IsMessage
  <2>3. Fix100Continue(s, id) = Call(moved, c)
    BY <1>4 DEF Fix100Continue, shifted, moved
  <2>. QED BY <1>2, <2>2, <2>3, CallIsParser
<1>5. CASE s.heap[id].state.continue100 /\ key \notin DOMAIN moved.m
  <2>1. Fix100Continue(s, id) = [moved EXCEPT !.m = With(@, key, id)]
    BY <1>5 DEF Fix100Continue, shifted, moved
  <2>. QED BY <1>2, <2>1 DEF IsParser, With
<1>. QED BY <1>3, <1>4, <1>5

\* A copy is let go.
LEMMA DroppedIsParser ==
    ASSUME NEW s, IsParser(s), NEW w \in Wire
    PROVE  /\ IsParser([s EXCEPT !.dropped[w] = @ + 1])
           /\ [s EXCEPT !.dropped[w] = @ + 1].heap = s.heap
<1>. QED BY DEF IsParser

\* Storing the fields of a well-formed parser record makes the variables well formed.
LEMMA SetIsParser ==
    ASSUME NEW s, IsParser(s), SetParser(s)
    PROVE  IsParser(Parser') /\ heap' = s.heap
<1>. QED BY DEF IsParser, Parser, SetParser

\* addPacket: a packet that is no duplicate is put into its place, and the message is
\* emitted, moved, or kept.
LEMMA AddPacketIsParser ==
    ASSUME NEW s, IsParser(s), NEW id \in DOMAIN s.heap, NEW p \in Packet,
           AddPacket(s, id, p)
    PROVE  IsParser(Parser') /\ DOMAIN heap' = DOMAIN s.heap
<1>1. CASE IsDuplicate(s.heap[id], p)
  <2>. DEFINE t == [s EXCEPT !.dropped[p.seg] = @ + 1]
  <2>1. SetParser(t)
    BY <1>1 DEF AddPacket
  <2>2. IsParser(t) /\ t.heap = s.heap
    BY DroppedIsParser DEF Packet
  <2>. HIDE DEF t
  <2>. QED BY <2>1, <2>2, SetIsParser
<1>2. CASE ~IsDuplicate(s.heap[id], p)
  <2>. DEFINE msg == [s.heap[id] EXCEPT !.packets = Inserted(@, p)]
              end == End(msg)
              new == [msg EXCEPT !.state = end.state]
              added == [s EXCEPT !.heap[id] = new]
  <2>1. IsMessage(s.heap[id])
    BY DEF IsParser, IsHeap
  <2>2. IsMessage(msg)
    <3>1. \A i \in DOMAIN s.heap[id].packets : Seq32(s.heap[id].packets[i]) # Seq32(p)
      BY <1>2 DEF IsDuplicate
    <3>2. /\ Inserted(s.heap[id].packets, p) \in Seq(Packet)
          /\ InOrder(Inserted(s.heap[id].packets, p))
      BY <2>1, <3>1, InsertedInOrder DEF IsMessage
    <3>. QED BY <2>1, <3>2 DEF IsMessage
  <2>. HIDE DEF msg
  <2>3. IsMessage(new)
    BY <2>2, StateOfEnd DEF IsMessage
  <2>. HIDE DEF new
  <2>4. IsParser(added) /\ DOMAIN added.heap = DOMAIN s.heap
    <3>1. IsHeap([s.heap EXCEPT ![id] = new]) /\ DOMAIN [s.heap EXCEPT ![id] = new] = DOMAIN s.heap
      BY <2>3, HeapChanges DEF IsParser
    <3>2. IsStack(s.stack, [s.heap EXCEPT ![id] = new])
      BY <3>1, StackKept DEF IsParser
    <3>. QED BY <3>1, <3>2 DEF IsParser
  <2>5. SetParser(IF end.full THEN Emit(added, id) ELSE Fix100Continue(added, id))
    BY <1>2 DEF AddPacket, msg, new
  <2>. HIDE DEF added, end
  <2>6. CASE end.full
    BY <2>4, <2>5, <2>6, EmitIsParser, SetIsParser
  <2>7. CASE ~end.full
    BY <2>4, <2>5, <2>7, Fix100ContinueIsParser, SetIsParser
  <2>. QED BY <2>6, <2>7
<1>. QED BY <1>1, <1>2

\* The hints tell one of the directions.
LEMMA HintIsDirection ==
    ASSUME NEW p
    PROVE  StartHint(p) \in Directions /\ DirectionOf(p) \in Directions
<1>. QED BY DEF StartHint, DirectionOf, Directions

\* processPacket makes an empty message of a packet that starts one.
LEMMA NewIsMessage ==
    ASSUME NEW dir \in Directions
    PROVE  IsMessage(NewMessage(dir))
<1>. DEFINE none == <<>>
<1>1. IsState(NewHTTPState)
  BY DEF IsState, NewHTTPState
<1>2. none \in Seq(Packet) /\ InOrder(none)
  BY EmptyRest, LenProperties DEF InOrder
<1>3. NewMessage(dir) = [packets |-> none, direction |-> dir, state |-> NewHTTPState]
  BY DEF NewMessage
<1>. HIDE DEF none
<1>. QED BY <1>1, <1>2, <1>3 DEF IsMessage

\* processPacket, for the first packet of a message and for the others.
LEMMA ProcessPacketIsParser ==
    ASSUME IsParser(Parser), NEW p \in Packet, ProcessPacket(p)
    PROVE  IsParser(Parser') /\ DOMAIN heap \subseteq DOMAIN heap'
<1>1. Parser.heap = heap /\ Parser.m = m
  BY DEF Parser
<1>2. CASE IsEndless(p)
  <2>1. Parsing(p).rest = <<p>> /\ <<p>> \in Seq(Packet)
    BY ShortSet DEF Parsing
  <2>2. IsCall(Parsing(p), Parser.heap)
    BY <2>1 DEF IsCall, Parsing
  <2>3. IsParser(Call(Parser, Parsing(p))) /\ Call(Parser, Parsing(p)).heap = heap
    BY <1>1, <2>2, CallIsParser
  <2>4. SetParser(Call(Parser, Parsing(p)))
    BY <1>2 DEF ProcessPacket
  <2>. QED BY <2>3, <2>4, SetIsParser
<1>3. CASE ~IsEndless(p) /\ IsEmpty(p)
  <2>. DEFINE t == [Parser EXCEPT !.dropped[p.seg] = @ + 1]
  <2>1. SetParser(t)
    BY <1>3 DEF ProcessPacket
  <2>2. IsParser(t) /\ t.heap = heap
    BY <1>1, DroppedIsParser DEF Packet
  <2>. HIDE DEF t
  <2>. QED BY <2>1, <2>2, SetIsParser
<1>4. CASE ~IsEndless(p) /\ ~IsEmpty(p) /\ MessageID(p) \in DOMAIN m
  <2>. DEFINE id == m[MessageID(p)]
              dir == IF heap[id].direction = "unknown" THEN StartHint(p) ELSE heap[id].direction
              new == [heap[id] EXCEPT !.direction = dir]
              s == [Parser EXCEPT !.heap[id] = new]
  <2>1. id \in DOMAIN heap /\ IsMessage(heap[id])
    BY <1>1, <1>4 DEF IsParser, IsHeap
  <2>2. IsMessage(new)
    BY <2>1, HintIsDirection DEF IsMessage
  <2>3. AddPacket(s, id, p)
    <3>1. s = [Parser EXCEPT !.heap[id].direction = IF @ = "unknown" THEN StartHint(p) ELSE @]
      BY <1>1 DEF Parser
    <3>. QED BY <1>4, <3>1 DEF ProcessPacket, Continued
  <2>. HIDE DEF id, new
  <2>4. IsParser(s) /\ DOMAIN s.heap = DOMAIN heap
    <3>1. IsHeap([heap EXCEPT ![id] = new]) /\ DOMAIN [heap EXCEPT ![id] = new] = DOMAIN heap
      BY <1>1, <2>1, <2>2, HeapChanges DEF IsParser
    <3>2. IsStack(stack, [heap EXCEPT ![id] = new])
      BY <3>1, StackKept DEF IsParser, Parser
    <3>. QED BY <3>1, <3>2 DEF IsParser, Parser
  <2>. HIDE DEF s
  <2>. QED BY <2>1, <2>3, <2>4, AddPacketIsParser
<1>5. CASE ~IsEndless(p) /\ ~IsEmpty(p) /\ MessageID(p) \notin DOMAIN m
  <2>. DEFINE id == Len(heap) + 1
              h == Append(heap, NewMessage(DirectionOf(p)))
              s == [Parser EXCEPT !.heap = h, !.m = With(@, MessageID(p), id)]
  <2>1. IsMessage(NewMessage(DirectionOf(p)))
    BY HintIsDirection, NewIsMessage
  <2>2. IsHeap(h) /\ DOMAIN heap \subseteq DOMAIN h /\ id \in DOMAIN h
    BY <1>1, <2>1, HeapGrows DEF IsParser
  <2>3. AddPacket(s, id, p)
    <3>1. Started(p)
      BY <1>5 DEF ProcessPacket
    <3>. QED BY <3>1 DEF Started, Parser
  <2>. HIDE DEF id, h
  <2>4. IsParser(s) /\ s.heap = h
    <3>1. IsStack(stack, h)
      BY <2>2, StackKept DEF IsParser, Parser
    <3>. QED BY <2>2, <3>1 DEF IsParser, Parser, With
  <2>. HIDE DEF s
  <2>. QED BY <2>2, <2>3, <2>4, AddPacketIsParser
<1>. QED BY <1>2, <1>3, <1>4, <1>5

-----------------------------------------------------------------------------
(* The actions. *)

LEMMA InitIInv == Init => IInv
<1>. SUFFICES ASSUME Init PROVE IInv
  OBVIOUS
<1>. DEFINE none == <<>>
<1>1. /\ \A S : none \in Seq(S)
      /\ DOMAIN none = {}
  BY EmptySeq, LenProperties
<1>2. IsSeq(none)
  BY <1>1 DEF IsSeq
<1>3. heap = none /\ stack = none /\ packets = none /\ messages = none
  BY DEF Init
<1>4. traffic \in [Wire -> Nat] /\ captured \in [Wire -> Nat] /\ \A w \in Wire : captured[w] <= traffic[w]
  BY BoundAssumption DEF Init
<1>5. dropped \in [Wire -> Nat] /\ DOMAIN m = {} /\ tick \in BOOLEAN
  BY DEF Init
<1>. HIDE DEF none
<1>6. IsParser(Parser)
  BY <1>1, <1>2, <1>3, <1>5 DEF IsParser, Parser, IsHeap, IsStack
<1>. QED BY <1>1, <1>3, <1>4, <1>5, <1>6 DEF IInv

\* The channel of messages holds messages that exist, also when there are more.
LEMMA MessagesKept ==
    ASSUME IInv, DOMAIN heap \subseteq DOMAIN heap', messages' = messages
    PROVE  messages' \in Seq(DOMAIN heap')
<1>. QED BY SeqMonotonic DEF IInv

\* The parser goes on; the queue of packets may get shorter, nothing else changes.
LEMMA ParserSteps ==
    ASSUME IInv, IsParser(Parser'), DOMAIN heap \subseteq DOMAIN heap',
           packets' \in Seq(Packet), tick' \in BOOLEAN,
           UNCHANGED <<traffic, captured, messages>>
    PROVE  IInv'
<1>. QED BY MessagesKept DEF IInv

\* A reader parses a frame and hands the packet over (PacketHandler).
LEMMA PacketHandlerIInv == \A w \in Wire : IInv /\ PacketHandler(w) => IInv'
<1>. SUFFICES ASSUME NEW w \in Wire, IInv, PacketHandler(w) PROVE IInv'
  OBVIOUS
<1>. USE DEF PacketHandler
<1>1. [seg |-> w, ack |-> Segment[w].ack, age |-> 0] \in Packet
  BY WireAssumption, BoundAssumption DEF Packet, SegmentRecord, Ages
<1>2. packets' \in Seq(Packet)
  BY <1>1, AppendProperties DEF IInv
<1>3. captured' \in [Wire -> Nat] /\ \A v \in Wire : captured'[v] <= traffic[v]
  BY DEF IInv
<1>4. IsParser(Parser') /\ messages' \in Seq(DOMAIN heap')
  BY DEF IInv, Parser
<1>. QED BY <1>2, <1>3, <1>4 DEF IInv

\* The parser takes a packet (wait, processPacket).
LEMMA ReceiveIInv == IInv /\ Receive => IInv'
<1>. SUFFICES ASSUME IInv, Receive PROVE IInv'
  OBVIOUS
<1>1. Head(packets) \in Packet /\ packets' \in Seq(Packet)
  BY HeadTailProperties DEF IInv, Receive
<1>2. IsParser(Parser') /\ DOMAIN heap \subseteq DOMAIN heap'
  BY <1>1, ProcessPacketIsParser DEF IInv, Receive
<1>. QED BY <1>1, <1>2, ParserSteps DEF Receive, IInv

\* The innermost call, and the parser after it has returned.
LEMMA Returned ==
    ASSUME IInv, NEW call, Running(call)
    PROVE  /\ IsParser(Return(Parser)) /\ Return(Parser).heap = heap
           /\ IsCall(Top, heap) /\ Top.call = call
<1>1. IsParser(Parser) /\ Parser.stack = stack /\ Parser.heap = heap /\ stack # <<>>
  BY DEF IInv, Parser, Running, Idle
<1>. QED BY <1>1, ReturnIsParser DEF Top, Running

\* An iteration of the merge loop of Fix100Continue.
LEMMA MergeNextIInv == IInv /\ MergeNext => IInv'
<1>. SUFFICES ASSUME IInv, MergeNext PROVE IInv'
  OBVIOUS
<1>1. /\ IsParser(Return(Parser)) /\ Return(Parser).heap = heap
      /\ IsCall(Top, heap) /\ Top.call = "Merge"
  BY Returned DEF MergeNext
<1>2. Top.id \in DOMAIN heap /\ Top.rest \in Seq(Packet)
  BY <1>1 DEF IsCall
<1>3. CASE Top.rest # <<>>
  <2>. DEFINE c == Merging(Top.id, Tail(Top.rest))
              s == Call(Return(Parser), c)
  <2>1. Head(Top.rest) \in Packet /\ Tail(Top.rest) \in Seq(Packet)
    BY <1>2, <1>3, HeadTailProperties
  <2>2. IsCall(c, heap)
    BY <1>2, <2>1 DEF IsCall, Merging
  <2>. HIDE DEF c
  <2>3. IsParser(s) /\ s.heap = heap
    BY <1>1, <2>2, CallIsParser
  <2>4. AddPacket(s, Top.id, Head(Top.rest))
    BY <1>3 DEF MergeNext, c
  <2>. HIDE DEF s
  <2>5. IsParser(Parser') /\ DOMAIN heap' = DOMAIN heap
    BY <1>2, <2>1, <2>3, <2>4, AddPacketIsParser
  <2>. QED BY <2>5, ParserSteps DEF MergeNext, IInv
<1>4. CASE Top.rest = <<>>
  <2>. DEFINE s == [Return(Parser) EXCEPT !.m = With(@, KeyOf(heap[Top.id]), Top.id)]
  <2>1. SetParser(s)
    BY <1>4 DEF MergeNext
  <2>2. IsParser(s) /\ s.heap = heap
    BY <1>1, <1>2 DEF IsParser, With
  <2>. HIDE DEF s
  <2>3. IsParser(Parser') /\ heap' = heap
    BY <2>1, <2>2, SetIsParser
  <2>. QED BY <2>3, ParserSteps DEF MergeNext, IInv
<1>. QED BY <1>3, <1>4

\* Emit hands a message to the channel.
LEMMA SendIInv == IInv /\ Send => IInv'
<1>. SUFFICES ASSUME IInv, Send PROVE IInv'
  OBVIOUS
<1>1. /\ IsParser(Return(Parser)) /\ Return(Parser).heap = heap
      /\ IsCall(Top, heap) /\ Top.call = "Emit"
  BY Returned DEF Send
<1>2. IsParser(Parser') /\ heap' = heap
  BY <1>1, SetIsParser DEF Send
<1>3. messages' \in Seq(DOMAIN heap')
  BY <1>1, <1>2, AppendProperties DEF Send, IsCall, IInv
<1>. QED BY <1>2, <1>3 DEF Send, IInv

\* The ticker starts a pass of timer.
LEMMA TimerIInv == IInv /\ Timer => IInv'
<1>. SUFFICES ASSUME IInv, Timer PROVE IInv'
  OBVIOUS
<1>1. Parser.heap = heap /\ IsParser(Parser)
  BY DEF Parser, IInv
<1>2. IsCall(Expiring(DOMAIN m), heap)
  BY EmptyRest DEF IsCall, Expiring
<1>3. IsParser(Call(Parser, Expiring(DOMAIN m))) /\ Call(Parser, Expiring(DOMAIN m)).heap = heap
  BY <1>1, <1>2, CallIsParser
<1>4. IsParser(Parser') /\ heap' = heap
  BY <1>3, SetIsParser DEF Timer
<1>. QED BY <1>4, ParserSteps DEF Timer, IInv

\* How often a segment is among finitely many packets is a number.
LEMMA HowOftenInNat ==
    ASSUME NEW w, NEW ps \in Seq(Packet)
    PROVE  HowOften(w, ps) \in Nat
<1>1. Len(ps) \in Nat /\ DOMAIN ps = 1..Len(ps)
  BY LenProperties
<1>2. IsFiniteSet(1..Len(ps))
  BY <1>1, FS_Interval
<1>3. IsFiniteSet({i \in DOMAIN ps : ps[i].seg = w})
  BY <1>1, <1>2, FS_Subset
<1>. QED BY <1>3, FS_CardinalityType DEF HowOften

\* An iteration of the loop of timer.
LEMMA ExpireOneIInv == IInv /\ ExpireOne => IInv'
<1>. SUFFICES ASSUME IInv, ExpireOne PROVE IInv'
  OBVIOUS
<1>1. /\ IsParser(Return(Parser)) /\ Return(Parser).heap = heap
  BY Returned DEF ExpireOne
<1>2. IsParser(Parser) /\ Parser.heap = heap /\ Parser.m = m
  BY DEF IInv, Parser
<1>. DEFINE next(k) == Call(Return(Parser), Expiring(Top.keys \ {k}))
            gone(k) == [next(k) EXCEPT !.m = Without(@, KeyOf(heap[m[k]])), !.dropped = DroppedWith(m[k])]
<1>3. PICK k \in Top.keys \cap DOMAIN m :
         SetParser(IF ~Expired(heap[m[k]]) THEN next(k)
                   ELSE IF AllowIncomplete THEN Emit(next(k), m[k]) ELSE gone(k))
  BY DEF ExpireOne
<1>4. m[k] \in DOMAIN heap /\ IsMessage(heap[m[k]])
  BY <1>2, <1>3 DEF IsParser, IsHeap
<1>5. IsCall(Expiring(Top.keys \ {k}), heap)
  BY EmptyRest DEF IsCall, Expiring
<1>6. IsParser(next(k)) /\ next(k).heap = heap
  BY <1>1, <1>5, CallIsParser
<1>7. DroppedWith(m[k]) \in [Wire -> Nat]
  <2>1. \A w \in Wire : HowOften(w, heap[m[k]].packets) \in Nat
    BY <1>4, HowOftenInNat DEF IsMessage
  <2>2. dropped \in [Wire -> Nat]
    BY <1>2 DEF IsParser, Parser
  <2>. QED BY <2>1, <2>2 DEF DroppedWith
<1>. HIDE DEF next
<1>8. IsParser(gone(k)) /\ gone(k).heap = heap
  BY <1>6, <1>7 DEF IsParser, Without
<1>. HIDE DEF gone
<1>9. IsParser(Emit(next(k), m[k])) /\ Emit(next(k), m[k]).heap = heap
  BY <1>4, <1>6, EmitIsParser
<1>10. IsParser(Parser') /\ heap' = heap
  BY <1>3, <1>6, <1>8, <1>9, SetIsParser
<1>. QED BY <1>10, ParserSteps DEF ExpireOne, IInv

\* The pass of timer ends.
LEMMA TimerReturnsIInv == IInv /\ TimerReturns => IInv'
<1>. SUFFICES ASSUME IInv, TimerReturns PROVE IInv'
  OBVIOUS
<1>1. IsParser(Return(Parser)) /\ Return(Parser).heap = heap
  BY Returned DEF TimerReturns
<1>2. IsParser(Parser') /\ heap' = heap
  BY <1>1, SetIsParser DEF TimerReturns
<1>. QED BY <1>2, ParserSteps DEF TimerReturns, IInv

\* The consumer takes a message from the channel.
LEMMA PluginReaderIInv == IInv /\ PluginReader => IInv'
<1>. SUFFICES ASSUME IInv, PluginReader PROVE IInv'
  OBVIOUS
<1>1. messages' \in Seq(DOMAIN heap')
  BY HeadTailProperties DEF PluginReader, IInv
<1>2. IsParser(Parser')
  BY DEF PluginReader, IInv, Parser
<1>. QED BY <1>1, <1>2 DEF PluginReader, IInv

\* Time changes no more of a packet than its age.
LEMMA TimePassesIInv == IInv /\ TimePasses => IInv'
<1>. SUFFICES ASSUME IInv, TimePasses PROVE IInv'
  OBVIOUS
<1>1. IsHeap(heap) /\ IsStack(stack, heap)
  BY DEF IInv, IsParser, Parser
<1>2. packets' \in Seq(Packet)
  BY OlderPackets DEF IInv, TimePasses
<1>3. IsHeap(heap') /\ DOMAIN heap' = DOMAIN heap
  <2>1. Len(heap) \in Nat /\ DOMAIN heap = 1..Len(heap)
    BY <1>1, SeqParts DEF IsHeap
  <2>2. heap' = [id \in 1..Len(heap) |-> heap'[id]]
    BY <2>1 DEF TimePasses
  <2>3. ASSUME NEW id \in DOMAIN heap PROVE IsMessage(heap'[id])
    <3>1. IsMessage(heap[id])
      BY <1>1 DEF IsHeap
    <3>2. IsMessage([heap[id] EXCEPT !.packets = AllOlder(@)])
      BY <3>1, OlderPackets DEF IsMessage
    <3>. QED BY <3>1, <3>2 DEF TimePasses
  <2>. QED BY <2>1, <2>2, <2>3, SeqOfFunction DEF IsHeap
<1>4. IsStack(stack', heap')
  <2>1. Len(stack) \in Nat /\ DOMAIN stack = 1..Len(stack)
    BY <1>1, SeqParts DEF IsStack
  <2>2. stack' = [i \in 1..Len(stack) |-> stack'[i]]
    BY <2>1 DEF TimePasses
  <2>3. ASSUME NEW i \in DOMAIN stack PROVE IsCall(stack'[i], heap')
    <3>1. IsCall(stack[i], heap)
      BY <1>1 DEF IsStack
    <3>2. IsCall([stack[i] EXCEPT !.rest = AllOlder(@)], heap)
      BY <3>1, OlderPackets DEF IsCall
    <3>. QED BY <1>3, <3>2 DEF TimePasses, IsCall
  <2>. QED BY <2>1, <2>2, <2>3, SeqOfFunction DEF IsStack
<1>5. IsParser(Parser')
  BY <1>3, <1>4 DEF IInv, IsParser, Parser, TimePasses
<1>. QED BY <1>2, <1>3, <1>5, ParserSteps DEF TimePasses

\* Every step keeps the inductive invariant.
LEMMA NextIInv == IInv /\ [Next]_vars => IInv'
<1>. SUFFICES ASSUME IInv, [Next]_vars PROVE IInv'
  OBVIOUS
<1>1. CASE Capture
  BY <1>1, PacketHandlerIInv DEF Capture
<1>2. CASE Wait
  BY <1>2, ReceiveIInv, MergeNextIInv, SendIInv, TimerIInv, ExpireOneIInv, TimerReturnsIInv
  DEF Wait
<1>3. CASE PluginReader
  BY <1>3, PluginReaderIInv
<1>4. CASE TimePasses
  BY <1>4, TimePassesIInv
<1>5. CASE UNCHANGED vars
  BY <1>5 DEF vars, IInv, Parser
<1>. QED BY <1>1, <1>2, <1>3, <1>4, <1>5 DEF Next

-----------------------------------------------------------------------------
\* Messages exist as long as anything refers to them; see IInv.
THEOREM Invariance == Spec => []IInv
<1>. QED BY InitIInv, NextIInv, PTL DEF Spec

\* The parser, its channels and its messages keep their types.
THEOREM TypeCorrect == Spec => []TypeOK
<1>1. IInv => TypeOK
  <2>. SUFFICES ASSUME IInv PROVE TypeOK
    OBVIOUS
  <2>1. IsParser(Parser) /\ Parser.heap = heap /\ Parser.m = m /\ Parser.dropped = dropped
    BY DEF IInv, Parser
  <2>2. \A w \in Wire : captured[w] \in 0..traffic[w]
    BY DEF IInv
  <2>3. ToSet(messages) \subseteq DOMAIN heap
    <3>1. DOMAIN messages = 1..Len(messages) /\ \A i \in 1..Len(messages) : messages[i] \in DOMAIN heap
      BY LenProperties, ElementOfSeq DEF IInv
    <3>. QED BY <3>1 DEF ToSet
  <2>4. \A id \in DOMAIN heap :
           /\ heap[id].packets \in Seq(Packet)
           /\ heap[id].direction \in Directions
           /\ heap[id].state.continue100 \in BOOLEAN
    BY <2>1 DEF IsParser, IsHeap, IsMessage, IsState
  <2>. QED BY <2>1, <2>2, <2>3, <2>4 DEF TypeOK, IInv, IsParser
<1>. QED BY <1>1, Invariance, PTL

\* Message.add keeps the packets of every message in the strict order of their sequence
\* numbers, also when two messages are merged: MissingChunk and Data rely on it.
THEOREM SortedPackets == Spec => []PacketsSorted
<1>1. IInv => PacketsSorted
  BY DEF IInv, IsParser, Parser, IsHeap, IsMessage, InOrder, PacketsSorted
<1>. QED BY <1>1, Invariance, PTL

-----------------------------------------------------------------------------
(* Traffic without a 100-continue. *)

\* No request on the wire expects a 100-continue, and ParsePacket returns for every frame.
Plain ==
    \A w \in Wire : traffic[w] > 0 => ~Segment[w].expect /\ Parsed[w].result # "endless"

\* Packets of the wire, with the Ack they came with
OnWire(ps) == \A i \in DOMAIN ps : traffic[ps[i].seg] > 0 /\ ps[i].ack = Segment[ps[i].seg].ack

PlainMessage(msg) ==
    msg.packets # <<>> /\ OnWire(msg.packets) /\ ~msg.state.continue100

\* All packets have this key
SameKey(k, ps) == \A i \in DOMAIN ps : MessageID(ps[i]) = k

\* Only the innermost call can be a send; there is no merge.
TimersOnly(st) == \A i \in DOMAIN st : st[i].call = "timer"
PlainStack(st) == \A i \in DOMAIN st : st[i].call = "timer" \/ (st[i].call = "Emit" /\ i = 1)

\* The messages that are about to be sent
EmitsOf(st) == {st[i].id : i \in {j \in DOMAIN st : st[j].call = "Emit"}}
Sending == EmitsOf(stack)

Delivered == {delivered[i].id : i \in DOMAIN delivered}

\* A message is in one place: under one key of the map, about to be sent, once in the
\* channel, or once delivered.
OnePlace ==
    /\ Mapped \cap Sending = {} /\ Mapped \cap Emitted = {} /\ Sending \cap Emitted = {}
    /\ ToSet(messages) \cap Delivered = {}
    /\ \A i, j \in DOMAIN messages : messages[i] = messages[j] => i = j
    /\ \A i, j \in DOMAIN delivered : delivered[i].id = delivered[j].id => i = j

\* What was delivered is what the message still holds.
Final ==
    /\ IsSeq(delivered)
    /\ \A i \in DOMAIN delivered :
          /\ delivered[i].id \in DOMAIN heap
          /\ delivered[i].data = SegmentsOf(heap[delivered[i].id].packets)

Alive == Mapped \cup Sending \cup Emitted
CopiesAmong(h, w) == [id \in DOMAIN h |-> HowOften(w, h[id].packets)]
Balanced ==
    \A w \in Wire :
        captured[w] = HowOften(w, packets) + dropped[w] + SumFunctionOnSet(CopiesAmong(heap, w), Alive)

PlainQueue == OnWire(packets)
PlainHeap == \A id \in DOMAIN heap : PlainMessage(heap[id])

\* All packets of a message have the key that the message is under.
Keyed == \A k \in DOMAIN m : SameKey(k, heap[m[k]].packets)

PlainInv ==
    /\ PlainQueue
    /\ PlainHeap
    /\ Keyed
    /\ PlainStack(stack)
    /\ OnePlace
    /\ Final
    /\ Balanced

-----------------------------------------------------------------------------
(* Counts. *)

\* No segment is among the packets of a message twice.
LEMMA OnceInOrder ==
    ASSUME NEW w, NEW ps \in Seq(Packet), InOrder(ps)
    PROVE  HowOften(w, ps) = IF \E i \in DOMAIN ps : ps[i].seg = w THEN 1 ELSE 0
<1>. DEFINE S == {i \in DOMAIN ps : ps[i].seg = w}
<1>0. Len(ps) \in Nat /\ DOMAIN ps = 1..Len(ps) /\ \A i \in DOMAIN ps : Seq32(ps[i]) \in Nat
  BY LenProperties, ElementOfSeq, SeqNumbers
<1>1. CASE \E i \in DOMAIN ps : ps[i].seg = w
  <2>1. PICK i \in DOMAIN ps : ps[i].seg = w
    BY <1>1
  <2>2. ASSUME NEW j \in DOMAIN ps, ps[j].seg = w, j # i PROVE FALSE
    <3>1. Seq32(ps[i]) = Seq32(ps[j])
      BY <2>1, <2>2 DEF Seq32
    <3>2. i < j \/ j < i
      BY <1>0, <2>2
    <3>3. Seq32(ps[i]) < Seq32(ps[j]) \/ Seq32(ps[j]) < Seq32(ps[i])
      BY <3>2 DEF InOrder
    <3>. QED BY <1>0, <3>1, <3>3
  <2>3. S = {i}
    BY <2>1, <2>2
  <2>4. Cardinality({i}) = 1
    BY FS_Singleton
  <2>. QED BY <1>1, <2>3, <2>4 DEF HowOften
<1>2. CASE ~\E i \in DOMAIN ps : ps[i].seg = w
  <2>1. S = {}
    BY <1>2
  <2>. QED BY <1>2, <2>1, FS_EmptySet DEF HowOften
<1>. QED BY <1>1, <1>2

\* A copy of a segment comes into the queue.
LEMMA AppendCounts ==
    ASSUME NEW w, NEW ps \in Seq(Packet), NEW p \in Packet
    PROVE  HowOften(w, Append(ps, p)) = HowOften(w, ps) + IF p.seg = w THEN 1 ELSE 0
<1>. DEFINE S == {i \in DOMAIN ps : ps[i].seg = w}
            qs == Append(ps, p)
            T == {i \in DOMAIN qs : qs[i].seg = w}
            n == Len(ps) + 1
<1>1. /\ DOMAIN qs = DOMAIN ps \cup {n} /\ qs[n] = p /\ \A i \in DOMAIN ps : qs[i] = ps[i]
  BY AppendIsSeq, SeqIsSeq
<1>2. Len(ps) \in Nat /\ DOMAIN ps = 1..Len(ps)
  BY LenProperties
<1>3. IsFiniteSet(S) /\ n \notin S /\ n \notin DOMAIN ps
  <2>1. IsFiniteSet(DOMAIN ps)
    BY <1>2, FS_Interval
  <2>2. IsFiniteSet(S)
    BY <2>1, FS_Subset
  <2>. QED BY <1>2, <2>2
<1>. HIDE DEF qs, n
<1>4. T = IF p.seg = w THEN S \cup {n} ELSE S
  BY <1>1, <1>3
<1>5. Cardinality(S) \in Nat /\ Cardinality(S \cup {n}) = Cardinality(S) + 1
  BY <1>3, FS_AddElement, FS_CardinalityType
<1>6. Cardinality(T) = Cardinality(S) + IF p.seg = w THEN 1 ELSE 0
  <2>. PICK c \in Nat : c = Cardinality(S)
    BY <1>5
  <2>1. CASE p.seg = w
    BY <1>4, <1>5, <2>1
  <2>2. CASE p.seg # w
    <3>1. Cardinality(T) = c
      BY <1>4, <2>2
    <3>. QED BY <2>2, <3>1
  <2>. QED BY <2>1, <2>2
<1>. QED BY <1>6 DEF HowOften, qs

\* A copy of a segment leaves the queue.
LEMMA TailCounts ==
    ASSUME NEW w, NEW ps \in Seq(Packet), ps # <<>>
    PROVE  HowOften(w, ps) = HowOften(w, Tail(ps)) + IF Head(ps).seg = w THEN 1 ELSE 0
<1>. DEFINE S == {i \in DOMAIN ps : ps[i].seg = w}
            R == S \ {1}
            qs == Tail(ps)
            T == {i \in DOMAIN qs : qs[i].seg = w}
<1>1. /\ Len(ps) \in Nat /\ DOMAIN ps = 1..Len(ps) /\ 1 \in DOMAIN ps /\ Head(ps) = ps[1]
      /\ DOMAIN qs = 1..(Len(ps) - 1)
      /\ \A i \in DOMAIN qs : qs[i] = ps[i + 1]
  <2>1. qs \in Seq(Packet) /\ Len(qs) = Len(ps) - 1 /\ \A i \in 1..Len(qs) : qs[i] = ps[i + 1]
    BY HeadTailProperties
  <2>2. Len(ps) \in Nat \ {0} /\ DOMAIN ps = 1..Len(ps) /\ DOMAIN qs = 1..Len(qs) /\ Head(ps) = ps[1]
    BY <2>1, LenProperties, EmptySeq
  <2>. QED BY <2>1, <2>2
<1>. HIDE DEF qs
<1>2. IsFiniteSet(S) /\ IsFiniteSet(R) /\ IsFiniteSet(T)
  <2>1. IsFiniteSet(DOMAIN ps) /\ IsFiniteSet(DOMAIN qs)
    BY <1>1, FS_Interval
  <2>. QED BY <2>1, FS_Subset
<1>3. Cardinality(T) = Cardinality(R)
  <2>. DEFINE f == [i \in T |-> i + 1]
  <2>1. f \in Bijection(T, R)
    <3>1. \A i \in T : i + 1 \in R
      BY <1>1
    <3>2. \A j \in R : j - 1 \in T /\ j = (j - 1) + 1
      BY <1>1
    <3>3. \A i, j \in T : i + 1 = j + 1 => i = j
      BY <1>1
    <3>4. f \in [T -> R] /\ (\A i, j \in T : f[i] = f[j] => i = j) /\ \A j \in R : \E i \in T : f[i] = j
      BY <3>1, <3>2, <3>3
    <3>. HIDE DEF f
    <3>. QED BY <3>4 DEF Bijection, Injection, Surjection, IsInjective
  <2>. QED BY <1>2, <2>1, FS_Bijection DEF ExistsBijection
<1>4. CASE ps[1].seg = w
  <2>1. S = R \cup {1} /\ 1 \notin R
    BY <1>1, <1>4
  <2>2. Cardinality(R \cup {1}) = Cardinality(R) + 1
    BY <1>2, FS_AddElement
  <2>. QED BY <1>1, <1>3, <1>4, <2>1, <2>2 DEF HowOften, qs
<1>5. CASE ps[1].seg # w
  <2>1. S = R
    BY <1>5
  <2>. PICK c \in Nat : c = Cardinality(R)
    BY <1>2, FS_CardinalityType
  <2>2. HowOften(w, ps) = c /\ HowOften(w, Tail(ps)) = c
    BY <1>3, <2>1 DEF HowOften, qs
  <2>. QED BY <1>1, <1>5, <2>2
<1>. QED BY <1>4, <1>5

\* What changes no segment changes no count.
LEMMA SameCounts ==
    ASSUME NEW w, NEW ps, NEW qs, DOMAIN qs = DOMAIN ps,
           \A i \in DOMAIN ps : qs[i].seg = ps[i].seg
    PROVE  HowOften(w, qs) = HowOften(w, ps)
<1>1. {i \in DOMAIN qs : qs[i].seg = w} = {i \in DOMAIN ps : ps[i].seg = w}
  OBVIOUS
<1>. QED BY <1>1 DEF HowOften

-----------------------------------------------------------------------------
(* The parser's operators, without a 100-continue. *)

\* Message.add adds the packet, and changes none.
LEMMA InsertedPackets ==
    ASSUME NEW ps \in Seq(Packet), InOrder(ps), NEW p \in Packet,
           \A i \in DOMAIN ps : Seq32(ps[i]) # Seq32(p)
    PROVE  /\ Inserted(ps, p) \in Seq(Packet) /\ InOrder(Inserted(ps, p))
           /\ Inserted(ps, p) # <<>>
           /\ ToSet(Inserted(ps, p)) = ToSet(ps) \cup {p}
<1>. DEFINE k == InsertionPoint(ps, p)
            out == InsertAt(ps, k, p)
<1>1. k \in 1..(Len(ps) + 1)
  BY PlaceToInsert
<1>2. Len(ps) \in Nat /\ DOMAIN ps = 1..Len(ps)
  BY LenProperties
<1>3. Inserted(ps, p) \in Seq(Packet) /\ InOrder(Inserted(ps, p))
  BY InsertedInOrder
<1>4. Inserted(ps, p) = out
  BY DEF Inserted
<1>. HIDE DEF k
<1>5. /\ DOMAIN out = 1..(Len(ps) + 1)
      /\ \A i \in 1..(Len(ps) + 1) :
            out[i] = IF i < k THEN ps[i] ELSE IF i = k THEN p ELSE ps[i - 1]
  BY <1>1, InsertAtIsSeq
<1>. HIDE DEF out
<1>6. out # <<>>
  <2>1. 1 \in DOMAIN out
    BY <1>2, <1>5
  <2>2. DOMAIN <<>> = {}
    OBVIOUS
  <2>. QED BY <2>1, <2>2
<1>7. ASSUME NEW i \in DOMAIN out PROVE out[i] \in ToSet(ps) \cup {p}
  <2>1. CASE i < k
    BY <1>1, <1>2, <1>5, <2>1 DEF ToSet
  <2>2. CASE i = k
    BY <1>5, <2>2
  <2>3. CASE i > k
    <3>1. i - 1 \in DOMAIN ps /\ out[i] = ps[i - 1]
      BY <1>1, <1>2, <1>5, <2>3
    <3>. QED BY <3>1 DEF ToSet
  <2>. QED BY <1>1, <1>2, <1>5, <2>1, <2>2, <2>3
<1>8. out[k] = p /\ k \in DOMAIN out
  BY <1>1, <1>2, <1>5
<1>9. ASSUME NEW j \in DOMAIN ps PROVE \E i \in DOMAIN out : out[i] = ps[j]
  <2>1. CASE j < k
    BY <1>1, <1>2, <1>5, <2>1
  <2>2. CASE ~(j < k)
    <3>1. j + 1 \in DOMAIN out /\ out[j + 1] = ps[j]
      BY <1>1, <1>2, <1>5, <2>2
    <3>. QED BY <3>1
  <2>. QED BY <2>1, <2>2
<1>10. ToSet(out) = ToSet(ps) \cup {p}
  BY <1>7, <1>8, <1>9 DEF ToSet
<1>. QED BY <1>3, <1>4, <1>6, <1>10

\* http1EndHint sets Continue100 only for a message with an Expect header.
LEMMA PlainEnd ==
    ASSUME NEW msg, IsMessage(msg), ~msg.state.continue100,
           \A i \in DOMAIN msg.packets : ~Segment[msg.packets[i].seg].expect
    PROVE  ~End(msg).state.continue100
<1>. DEFINE ps == PacketData(msg)
<1>1. \A i \in DOMAIN ps : ~ps[i].expect
  <2>1. \A i \in DOMAIN msg.packets : msg.packets[i].seg \in Wire
    <3>1. msg.packets \in Seq(Packet)
      BY DEF IsMessage
    <3>2. \A i \in DOMAIN msg.packets : msg.packets[i] \in Packet
      BY <3>1, LenProperties, ElementOfSeq
    <3>. QED BY <3>2 DEF Packet
  <2>. QED BY <2>1 DEF PacketData, Payload
<1>. HIDE DEF ps
<1>2. ASSUME NEW st, IsState(st), ~st.continue100
      PROVE  IsState(LocateBody(st, ps)) /\ ~LocateBody(st, ps).continue100
  BY <1>2 DEF IsState, LocateBody, NewHTTPState
<1>3. ASSUME NEW st, IsState(st), ~st.continue100
      PROVE  ~ParseHeaders(st, ps).continue100
  BY <1>1, <1>3 DEF IsState, ParseHeaders, NewHTTPState
<1>4. IsState(msg.state)
  BY DEF IsMessage
<1>5. ~HasFullPayload(msg.state, ps).state.continue100
  BY <1>2, <1>3, <1>4 DEF HasFullPayload
<1>. QED BY <1>5, SMTT(30) DEF End, ps

\* What http1EndHint is asked of: the message id with its new packet, in the protocol
\* state st it had before; it leaves its own state in the message.
Judged(msg, st, id) ==
    /\ IsMessage(msg) /\ msg.state = st
    /\ heap'[id].packets = msg.packets /\ heap'[id].state = End(msg).state

\* A direction that is unknown is asked of the packet p.
DirectionAfter(dir, p) == IF dir = "unknown" THEN StartHint(p) ELSE dir

\* What addPacket does with a packet of the message's key, which is no duplicate: it is
\* put into its place, and the message is emitted or left where it is.
LEMMA PlainAddPacket ==
    ASSUME NEW s, IsParser(s), NEW id \in DOMAIN s.heap, NEW p \in Packet,
           AddPacket(s, id, p), ~IsDuplicate(s.heap[id], p),
           ~s.heap[id].state.continue100, ~Segment[p.seg].expect,
           \A i \in DOMAIN s.heap[id].packets : ~Segment[s.heap[id].packets[i].seg].expect,
           SameKey(MessageID(p), s.heap[id].packets)
    PROVE  /\ DOMAIN heap' = DOMAIN s.heap
           /\ \A jd \in DOMAIN s.heap : jd # id => heap'[jd] = s.heap[jd]
           /\ heap'[id].packets = Inserted(s.heap[id].packets, p)
           /\ heap'[id].direction = s.heap[id].direction
           /\ ~heap'[id].state.continue100
           /\ dropped' = s.dropped
           /\ \/ m' = s.m /\ stack' = s.stack
              \/ m' = Without(s.m, MessageID(p)) /\ stack' = <<Emitting(id)>> \o s.stack
           /\ \E msg : /\ Judged(msg, s.heap[id].state, id)
                       /\ m' = IF End(msg).full THEN Without(s.m, MessageID(p)) ELSE s.m
<1>. DEFINE msg == [s.heap[id] EXCEPT !.packets = Inserted(@, p)]
            end == End(msg)
            new == [msg EXCEPT !.state = end.state]
            added == [s EXCEPT !.heap[id] = new]
<1>1. IsMessage(s.heap[id]) /\ DOMAIN s = {"heap", "m", "stack", "dropped"} /\ IsSeq(s.heap)
  BY DEF IsParser, IsHeap
<1>2. SetParser(IF end.full THEN Emit(added, id) ELSE Fix100Continue(added, id))
  BY DEF AddPacket
<1>3. PICK qs : qs = Inserted(s.heap[id].packets, p)
  OBVIOUS
<1>4. /\ qs \in Seq(Packet) /\ InOrder(qs) /\ qs # <<>>
      /\ ToSet(qs) = ToSet(s.heap[id].packets) \cup {p}
  <2>1. \A i \in DOMAIN s.heap[id].packets : Seq32(s.heap[id].packets[i]) # Seq32(p)
    BY DEF IsDuplicate
  <2>2. s.heap[id].packets \in Seq(Packet) /\ InOrder(s.heap[id].packets)
    BY <1>1 DEF IsMessage
  <2>. QED BY <1>3, <2>1, <2>2, InsertedPackets
<1>5. /\ IsMessage(msg) /\ msg.packets = qs /\ msg.state = s.heap[id].state
      /\ msg.direction = s.heap[id].direction
  BY <1>1, <1>3, <1>4 DEF IsMessage
<1>6. /\ \A i \in DOMAIN qs : ~Segment[qs[i].seg].expect
      /\ \A i \in DOMAIN qs : MessageID(qs[i]) = MessageID(p)
  <2>1. ASSUME NEW i \in DOMAIN qs
        PROVE  qs[i] = p \/ \E j \in DOMAIN s.heap[id].packets : qs[i] = s.heap[id].packets[j]
    <3>1. qs[i] \in ToSet(qs)
      BY DEF ToSet
    <3>. QED BY <1>4, <3>1 DEF ToSet
  <2>. QED BY <2>1 DEF SameKey
<1>. HIDE DEF msg
<1>15. end = End(msg)
  OBVIOUS
<1>7. ~end.state.continue100
  BY <1>5, <1>6, PlainEnd
<1>8. /\ new.packets = qs /\ ~new.state.continue100 /\ new.state = end.state
      /\ new.direction = s.heap[id].direction
  BY <1>5, <1>7 DEF IsMessage
<1>. HIDE DEF new, end
<1>9. /\ added.heap = [s.heap EXCEPT ![id] = new] /\ added.m = s.m /\ added.stack = s.stack
      /\ added.dropped = s.dropped /\ DOMAIN added = {"heap", "m", "stack", "dropped"}
  BY <1>1
<1>. HIDE DEF added
<1>10. /\ DOMAIN added.heap = DOMAIN s.heap /\ added.heap[id] = new
       /\ \A jd \in DOMAIN s.heap : jd # id => added.heap[jd] = s.heap[jd]
  BY <1>1, <1>9, ExceptIsSeq
<1>11. Fix100Continue(added, id) = added
  BY <1>8, <1>10 DEF Fix100Continue
<1>12. KeyOf(new) = MessageID(p)
  <2>1. 1 \in DOMAIN qs
    BY <1>4, LenProperties, EmptySeq
  <2>. QED BY <1>6, <1>8, <2>1 DEF KeyOf
<1>13. /\ Emit(added, id).heap = added.heap /\ Emit(added, id).dropped = added.dropped
       /\ Emit(added, id).m = Without(s.m, MessageID(p))
       /\ Emit(added, id).stack = <<Emitting(id)>> \o s.stack
  <2>1. PICK e, map : e = Emitting(id) /\ map = Without(s.m, MessageID(p))
    OBVIOUS
  <2>2. Emit(added, id) = Call([added EXCEPT !.m = map], e)
    BY <1>9, <1>10, <1>12, <2>1 DEF Emit
  <2>3. Call([added EXCEPT !.m = map], e) = [added EXCEPT !.m = map, !.stack = <<e>> \o s.stack]
    BY <1>9 DEF Call
  <2>. QED BY <1>9, <2>1, <2>2, <2>3
<1>14. /\ heap' = added.heap /\ dropped' = added.dropped
       /\ \/ m' = s.m /\ stack' = s.stack
          \/ m' = Without(s.m, MessageID(p)) /\ stack' = <<Emitting(id)>> \o s.stack
       /\ m' = IF end.full THEN Without(s.m, MessageID(p)) ELSE s.m
  BY <1>2, <1>9, <1>11, <1>13 DEF SetParser
<1>16. Judged(msg, s.heap[id].state, id)
  <2>1. heap'[id].packets = msg.packets /\ heap'[id].state = End(msg).state
    BY <1>5, <1>8, <1>10, <1>14, <1>15
  <2>. QED BY <1>5, <2>1 DEF Judged
<1>. QED BY <1>3, <1>8, <1>9, <1>10, <1>14, <1>15, <1>16

\* What Receive does with a packet that is empty or a duplicate: it is let go.
LetGo(p) ==
    /\ dropped' = [dropped EXCEPT ![p.seg] = @ + 1]
    /\ m' = m /\ stack' = stack /\ DOMAIN heap' = DOMAIN heap
    /\ \A id \in DOMAIN heap : /\ heap'[id].packets = heap[id].packets
                              /\ heap'[id].state = heap[id].state
    /\ \A id \in DOMAIN heap \ Mapped : heap'[id] = heap[id]
    /\ \A id \in DOMAIN heap : heap'[id].direction # heap[id].direction =>
          /\ MessageID(p) \in DOMAIN m /\ id = m[MessageID(p)] /\ ~IsEmpty(p)
          /\ heap'[id].direction = DirectionAfter(heap[id].direction, p)
          /\ IsDuplicate(heap[id], p)

\* What it does with the others: they become part of the message under their key, which
\* had the packets ps, or of a new one.
TakenInto(p, id, ps) ==
    /\ \/ /\ MessageID(p) \in DOMAIN m /\ id = m[MessageID(p)] /\ ps = heap[id].packets
          /\ DOMAIN heap' = DOMAIN heap
       \/ /\ MessageID(p) \notin DOMAIN m /\ id = Len(heap) + 1 /\ ps = <<>>
          /\ DOMAIN heap' = DOMAIN heap \cup {id}
    /\ \A i \in DOMAIN ps : Seq32(ps[i]) # Seq32(p)
    /\ heap'[id].packets = Inserted(ps, p)
    /\ heap'[id].direction = IF MessageID(p) \in DOMAIN m THEN DirectionAfter(heap[id].direction, p)
                             ELSE DirectionOf(p)
    /\ ~heap'[id].state.continue100
    /\ \A jd \in DOMAIN heap : jd # id => heap'[jd] = heap[jd]
    /\ dropped' = dropped
    /\ \A k \in DOMAIN m : k # MessageID(p) => m'[k] = m[k]
    /\ \/ /\ DOMAIN m' = DOMAIN m \cup {MessageID(p)} /\ m'[MessageID(p)] = id
          /\ stack' = stack
       \/ /\ DOMAIN m' = DOMAIN m \ {MessageID(p)}
          /\ stack' = <<Emitting(id)>> \o stack
    /\ ~IsEmpty(p)
    /\ \E msg : /\ Judged(msg, IF MessageID(p) \in DOMAIN m THEN heap[id].state ELSE NewHTTPState, id)
                /\ End(msg).full <=> MessageID(p) \notin DOMAIN m'

\* processPacket does one of the two.
LEMMA PlainProcessPacket ==
    ASSUME IInv, Plain, PlainInv, NEW p \in Packet, traffic[p.seg] > 0, ProcessPacket(p)
    PROVE  LetGo(p) \/ \E id, ps : TakenInto(p, id, ps)
<1>1. /\ Parser.heap = heap /\ Parser.m = m /\ Parser.stack = stack /\ Parser.dropped = dropped
      /\ DOMAIN Parser = {"heap", "m", "stack", "dropped"}
  BY DEF Parser
<1>2. IsParser(Parser) /\ IsHeap(heap) /\ IsSeq(heap) /\ \A k \in DOMAIN m : m[k] \in DOMAIN heap
  BY <1>1 DEF IInv, IsParser, IsHeap
<1>3. p.seg \in Wire /\ ~Segment[p.seg].expect /\ ~IsEndless(p)
  BY DEF Packet, Plain, IsEndless
<1>4. CASE IsEmpty(p)
  <2>1. SetParser([Parser EXCEPT !.dropped[p.seg] = @ + 1])
    BY <1>3, <1>4 DEF ProcessPacket
  <2>2. heap' = heap /\ m' = m /\ stack' = stack /\ dropped' = [dropped EXCEPT ![p.seg] = @ + 1]
    BY <1>1, <2>1 DEF SetParser
  <2>. QED BY <2>2 DEF LetGo
<1>5. CASE ~IsEmpty(p) /\ MessageID(p) \in DOMAIN m
  <2>1. PICK id : id = m[MessageID(p)]
    OBVIOUS
  <2>2. PICK new : new = [heap[id] EXCEPT !.direction =
                             IF heap[id].direction = "unknown" THEN StartHint(p) ELSE heap[id].direction]
    OBVIOUS
  <2>15. new.direction = DirectionAfter(heap[id].direction, p)
    <3>1. DOMAIN heap[id] = {"packets", "direction", "state"}
      BY <1>2, <1>5, <2>1 DEF IsHeap, IsMessage
    <3>. QED BY <2>2, <3>1 DEF DirectionAfter
  <2>3. PICK s : s = [Parser EXCEPT !.heap[id] = new]
    OBVIOUS
  <2>4. id \in DOMAIN heap /\ id \in Mapped /\ IsMessage(heap[id]) /\ PlainMessage(heap[id])
    BY <1>2, <1>5, <2>1 DEF IsHeap, Mapped, PlainInv, PlainHeap
  <2>5. IsMessage(new) /\ new.packets = heap[id].packets /\ new.state = heap[id].state
    BY <2>2, <2>4, HintIsDirection DEF IsMessage
  <2>6. AddPacket(s, id, p)
    <3>1. s = [Parser EXCEPT !.heap[id].direction = IF @ = "unknown" THEN StartHint(p) ELSE @]
      BY <1>1, <2>2, <2>3 DEF Parser
    <3>. QED BY <1>3, <1>5, <2>1, <3>1 DEF ProcessPacket, Continued
  <2>7. /\ s.heap = [heap EXCEPT ![id] = new] /\ s.m = m /\ s.stack = stack /\ s.dropped = dropped
        /\ DOMAIN s = {"heap", "m", "stack", "dropped"}
    BY <1>1, <2>3
  <2>8. /\ DOMAIN s.heap = DOMAIN heap /\ s.heap[id] = new
        /\ \A jd \in DOMAIN heap : jd # id => s.heap[jd] = heap[jd]
    BY <1>2, <2>4, <2>7, ExceptIsSeq
  <2>9. IsParser(s)
    <3>1. IsHeap(s.heap)
      <4>1. IsHeap([heap EXCEPT ![id] = new])
        BY <1>2, <2>4, <2>5, HeapChanges
      <4>. QED BY <2>7, <4>1, Zenon
    <3>2. IsStack(stack, s.heap)
      BY <1>1, <1>2, <2>8, StackKept DEF IsParser
    <3>. QED BY <1>1, <1>2, <2>7, <2>8, <3>1, <3>2 DEF IsParser
  <2>10. CASE IsDuplicate(new, p)
    <3>1. SetParser([s EXCEPT !.dropped[p.seg] = @ + 1])
      BY <2>6, <2>8, <2>10 DEF AddPacket
    <3>2. heap' = s.heap /\ m' = m /\ stack' = stack /\ dropped' = [dropped EXCEPT ![p.seg] = @ + 1]
      BY <2>7, <3>1 DEF SetParser
    <3>3. \A jd \in DOMAIN heap : heap'[jd].packets = heap[jd].packets /\ heap'[jd].state = heap[jd].state
      BY <2>5, <2>8, <3>2
    <3>4. \A jd \in DOMAIN heap \ Mapped : heap'[jd] = heap[jd]
      BY <2>4, <2>8, <3>2
    <3>5. IsDuplicate(heap[id], p)
      BY <2>5, <2>10 DEF IsDuplicate
    <3>6. \A jd \in DOMAIN heap : heap'[jd].direction # heap[jd].direction =>
             jd = id /\ heap'[jd].direction = DirectionAfter(heap[jd].direction, p)
      BY <2>8, <2>15, <3>2
    <3>7. DOMAIN heap' = DOMAIN heap
      BY <2>8, <3>2
    <3>. QED BY <1>5, <2>1, <3>2, <3>3, <3>4, <3>5, <3>6, <3>7, Zenon DEF LetGo
  <2>11. CASE ~IsDuplicate(new, p)
    <3>1. /\ \A i \in DOMAIN new.packets : ~Segment[new.packets[i].seg].expect
          /\ SameKey(MessageID(p), new.packets) /\ ~new.state.continue100
      <4>1. \A i \in DOMAIN new.packets : new.packets[i] \in Packet
        <5>1. new.packets \in Seq(Packet)
          BY <2>5 DEF IsMessage
        <5>. QED BY <5>1, LenProperties, ElementOfSeq
      <4>2. \A i \in DOMAIN new.packets : traffic[new.packets[i].seg] > 0 /\ new.packets[i].seg \in Wire
        BY <2>4, <2>5, <4>1 DEF PlainMessage, OnWire, Packet
      <4>3. SameKey(MessageID(p), new.packets)
        BY <1>5, <2>1, <2>5 DEF PlainInv, Keyed
      <4>. QED BY <2>4, <2>5, <4>2, <4>3 DEF Plain, PlainMessage
    <3>2. /\ DOMAIN heap' = DOMAIN s.heap
          /\ \A jd \in DOMAIN s.heap : jd # id => heap'[jd] = s.heap[jd]
          /\ heap'[id].packets = Inserted(new.packets, p)
          /\ heap'[id].direction = new.direction
          /\ ~heap'[id].state.continue100
          /\ dropped' = s.dropped
          /\ \/ m' = s.m /\ stack' = s.stack
             \/ m' = Without(s.m, MessageID(p)) /\ stack' = <<Emitting(id)>> \o s.stack
          /\ \E msg : /\ Judged(msg, new.state, id)
                      /\ m' = IF End(msg).full THEN Without(s.m, MessageID(p)) ELSE s.m
      BY <1>3, <2>4, <2>6, <2>8, <2>9, <2>11, <3>1, PlainAddPacket
    <3>3. \/ m' = m /\ DOMAIN m' = DOMAIN m \cup {MessageID(p)} /\ stack' = stack
          \/ /\ m' = Without(m, MessageID(p)) /\ DOMAIN m' = DOMAIN m \ {MessageID(p)}
             /\ stack' = <<Emitting(id)>> \o stack
      BY <1>5, <2>7, <3>2 DEF Without
    <3>4. \A k \in DOMAIN m : k # MessageID(p) => m'[k] = m[k]
      BY <3>3 DEF Without
    <3>5. \A i \in DOMAIN new.packets : Seq32(new.packets[i]) # Seq32(p)
      BY <2>11 DEF IsDuplicate
    <3>6. PICK ps : ps = heap[id].packets
      OBVIOUS
    <3>7. /\ MessageID(p) \in DOMAIN m /\ id = m[MessageID(p)] /\ ps = heap[id].packets
          /\ DOMAIN heap' = DOMAIN heap /\ dropped' = dropped
          /\ heap'[id].packets = Inserted(ps, p) /\ ~heap'[id].state.continue100
      BY <1>5, <2>1, <2>5, <2>7, <2>8, <3>2, <3>6
    <3>8. \A jd \in DOMAIN heap : jd # id => heap'[jd] = heap[jd]
      BY <2>8, <3>2
    <3>9. \A i \in DOMAIN ps : Seq32(ps[i]) # Seq32(p)
      BY <2>5, <3>5, <3>6
    <3>10. m' = m => m'[MessageID(p)] = id
      BY <2>1
    <3>12. \E msg : /\ Judged(msg, heap[id].state, id)
                    /\ End(msg).full <=> MessageID(p) \notin DOMAIN m'
      <4>1. PICK msg : /\ Judged(msg, new.state, id)
                       /\ m' = IF End(msg).full THEN Without(s.m, MessageID(p)) ELSE s.m
        BY <3>2
      <4>2. MessageID(p) \in DOMAIN s.m /\ MessageID(p) \notin DOMAIN Without(s.m, MessageID(p))
        BY <1>5, <2>7 DEF Without
      <4>. QED BY <2>5, <4>1, <4>2
    <3>13. heap'[id].direction = DirectionAfter(heap[id].direction, p)
      BY <2>15, <3>2
    <3>11. TakenInto(p, id, ps)
      BY <1>5, <3>13, <3>3, <3>4, <3>7, <3>8, <3>9, <3>10, <3>12, Zenon DEF TakenInto
    <3>. QED BY <3>11
  <2>. QED BY <2>10, <2>11
<1>6. CASE ~IsEmpty(p) /\ MessageID(p) \notin DOMAIN m
  <2>1. PICK id : id = Len(heap) + 1
    OBVIOUS
  <2>2. PICK new : new = NewMessage(DirectionOf(p))
    OBVIOUS
  <2>3. PICK s : s = [Parser EXCEPT !.heap = Append(heap, new), !.m = With(m, MessageID(p), id)]
    OBVIOUS
  <2>4. /\ IsMessage(new) /\ new.packets = <<>> /\ ~new.state.continue100
        /\ new.state = NewHTTPState /\ new.direction = DirectionOf(p)
    BY <2>2, HintIsDirection, NewIsMessage DEF NewMessage, NewHTTPState
  <2>5. AddPacket(s, id, p)
    BY <1>3, <1>1, <1>6, <2>1, <2>2, <2>3 DEF ProcessPacket, Started
  <2>6. /\ s.heap = Append(heap, new) /\ s.m = With(m, MessageID(p), id)
        /\ s.stack = stack /\ s.dropped = dropped
        /\ DOMAIN s = {"heap", "m", "stack", "dropped"}
    BY <1>1, <2>3
  <2>7. /\ DOMAIN s.heap = DOMAIN heap \cup {id} /\ s.heap[id] = new
        /\ \A jd \in DOMAIN heap : s.heap[jd] = heap[jd]
        /\ IsHeap(s.heap)
    BY <1>2, <2>1, <2>4, <2>6, AppendIsSeq, HeapGrows
  <2>8. IsParser(s)
    <3>1. IsStack(stack, s.heap)
      BY <1>1, <1>2, <2>7, StackKept DEF IsParser
    <3>. QED BY <1>1, <1>2, <2>6, <2>7, <3>1 DEF IsParser, With
  <2>9. DOMAIN new.packets = {}
    BY <2>4, EmptyRest, LenProperties
  <2>10. ~IsDuplicate(new, p) /\ SameKey(MessageID(p), new.packets)
         /\ \A i \in DOMAIN new.packets : Seq32(new.packets[i]) # Seq32(p)
    BY <2>9 DEF IsDuplicate, SameKey
  <2>11. /\ DOMAIN heap' = DOMAIN s.heap
         /\ \A jd \in DOMAIN s.heap : jd # id => heap'[jd] = s.heap[jd]
         /\ heap'[id].packets = Inserted(new.packets, p)
         /\ heap'[id].direction = DirectionOf(p)
         /\ ~heap'[id].state.continue100
         /\ dropped' = s.dropped
         /\ \/ m' = s.m /\ stack' = s.stack
            \/ m' = Without(s.m, MessageID(p)) /\ stack' = <<Emitting(id)>> \o s.stack
         /\ \E msg : /\ Judged(msg, NewHTTPState, id)
                     /\ m' = IF End(msg).full THEN Without(s.m, MessageID(p)) ELSE s.m
    <3>1. /\ ~IsDuplicate(s.heap[id], p) /\ ~s.heap[id].state.continue100 /\ id \in DOMAIN s.heap
          /\ SameKey(MessageID(p), s.heap[id].packets)
      BY <2>4, <2>7, <2>10
    <3>2. \A i \in DOMAIN s.heap[id].packets : ~Segment[s.heap[id].packets[i].seg].expect
      BY <2>7, <2>9
    <3>3. /\ s.heap[id].packets = new.packets /\ s.heap[id].state = NewHTTPState
          /\ s.heap[id].direction = DirectionOf(p)
      BY <2>4, <2>7
    <3>. QED BY <1>3, <2>5, <2>8, <3>1, <3>2, <3>3, PlainAddPacket
  <2>12. \/ /\ DOMAIN m' = DOMAIN m \cup {MessageID(p)} /\ m'[MessageID(p)] = id /\ stack' = stack
            /\ \A k \in DOMAIN m : m'[k] = m[k]
         \/ /\ DOMAIN m' = DOMAIN m \ {MessageID(p)} /\ stack' = <<Emitting(id)>> \o stack
            /\ \A k \in DOMAIN m : m'[k] = m[k]
    <3>1. \/ m' = s.m /\ stack' = s.stack
          \/ m' = Without(s.m, MessageID(p)) /\ stack' = <<Emitting(id)>> \o s.stack
      BY <2>11, Zenon
    <3>2. CASE m' = s.m /\ stack' = s.stack
      BY ONLY <1>6, <2>6, <3>2 DEF With
    <3>3. CASE m' = Without(s.m, MessageID(p)) /\ stack' = <<Emitting(id)>> \o s.stack
      BY ONLY <1>6, <2>6, <3>3 DEF Without, With
    <3>. QED BY <3>1, <3>2, <3>3, Zenon
  <2>14. \E msg : /\ Judged(msg, NewHTTPState, id)
                  /\ End(msg).full <=> MessageID(p) \notin DOMAIN m'
    <3>1. PICK msg : /\ Judged(msg, NewHTTPState, id)
                     /\ m' = IF End(msg).full THEN Without(s.m, MessageID(p)) ELSE s.m
      BY <2>11
    <3>2. MessageID(p) \in DOMAIN s.m /\ MessageID(p) \notin DOMAIN Without(s.m, MessageID(p))
      BY <2>6 DEF Without, With
    <3>. QED BY <3>1, <3>2
  <2>13. TakenInto(p, id, <<>>)
    BY <1>6, <2>1, <2>4, <2>6, <2>7, <2>10, <2>11, <2>12, <2>14 DEF TakenInto
  <2>. QED BY <2>13
<1>. QED BY <1>4, <1>5, <1>6

-----------------------------------------------------------------------------
(* The calls in progress, without a merge. *)

\* No send is in progress, or one that was just begun.
LEMMA StackOfTimers ==
    ASSUME NEW st, IsSeq(st), TimersOnly(st), NEW id
    PROVE  /\ PlainStack(st) /\ EmitsOf(st) = {}
           /\ PlainStack(<<Emitting(id)>> \o st) /\ EmitsOf(<<Emitting(id)>> \o st) = {id}
<1>. DEFINE c == <<Emitting(id)>> \o st
<1>1. PlainStack(st) /\ EmitsOf(st) = {}
  BY DEF TimersOnly, PlainStack, EmitsOf
<1>2. /\ DOMAIN c = 1..(Len(st) + 1) /\ Len(st) \in Nat /\ c[1] = Emitting(id)
      /\ \A i \in 2..(Len(st) + 1) : i - 1 \in DOMAIN st /\ c[i] = st[i - 1]
  BY ConsIsSeq
<1>. HIDE DEF c
<1>3. c[1].call = "Emit" /\ c[1].id = id /\ 1 \in DOMAIN c
  BY <1>2 DEF Emitting
<1>4. ASSUME NEW i \in DOMAIN c, i # 1 PROVE c[i].call = "timer"
  <2>1. i \in 2..(Len(st) + 1)
    BY <1>2, <1>4
  <2>. QED BY <1>2, <2>1 DEF TimersOnly
<1>5. PlainStack(c)
  BY <1>3, <1>4 DEF PlainStack
<1>6. {j \in DOMAIN c : c[j].call = "Emit"} = {1}
  BY <1>3, <1>4
<1>7. EmitsOf(c) = {id}
  BY <1>3, <1>6 DEF EmitsOf
<1>. QED BY <1>1, <1>5, <1>7 DEF c

\* What the innermost call tells about the others.
LEMMA StackOfCall ==
    ASSUME NEW st, IsSeq(st), PlainStack(st), st # <<>>
    PROVE  /\ IsSeq(Tail(st)) /\ TimersOnly(Tail(st))
           /\ Head(st).call = "Emit" => EmitsOf(st) = {Head(st).id}
           /\ Head(st).call = "timer" => TimersOnly(st)
           /\ Head(st).call # "Merge"
<1>1. /\ IsSeq(Tail(st)) /\ Head(st) = st[1] /\ 1 \in DOMAIN st
      /\ \A i \in DOMAIN Tail(st) : i + 1 \in DOMAIN st /\ Tail(st)[i] = st[i + 1]
  BY TailIsSeq
<1>2. \A i \in DOMAIN Tail(st) : i \in Nat \ {0}
  BY <1>1, SeqParts
<1>3. TimersOnly(Tail(st))
  <2>1. ASSUME NEW i \in DOMAIN Tail(st) PROVE Tail(st)[i].call = "timer"
    <3>1. i + 1 # 1 /\ i + 1 \in DOMAIN st
      BY <1>1, <1>2
    <3>. QED BY <1>1, <3>1 DEF PlainStack
  <2>. QED BY <2>1 DEF TimersOnly
<1>4. ASSUME st[1].call = "Emit" PROVE EmitsOf(st) = {st[1].id}
  <2>1. {j \in DOMAIN st : st[j].call = "Emit"} = {1}
    BY <1>1, <1>4 DEF PlainStack
  <2>. QED BY <2>1 DEF EmitsOf
<1>5. ASSUME st[1].call = "timer" PROVE TimersOnly(st)
  BY <1>5 DEF PlainStack, TimersOnly
<1>6. st[1].call # "Merge"
  BY <1>1 DEF PlainStack
<1>. QED BY <1>1, <1>3, <1>4, <1>5, <1>6

\* A pass of timer in the place of nothing or of itself.
LEMMA StackWithTimer ==
    ASSUME NEW st, IsSeq(st), TimersOnly(st), NEW ks
    PROVE  TimersOnly(<<Expiring(ks)>> \o st) /\ IsSeq(<<Expiring(ks)>> \o st)
<1>. DEFINE c == <<Expiring(ks)>> \o st
<1>1. /\ DOMAIN c = 1..(Len(st) + 1) /\ Len(st) \in Nat /\ c[1] = Expiring(ks) /\ IsSeq(c)
      /\ \A i \in 2..(Len(st) + 1) : i - 1 \in DOMAIN st /\ c[i] = st[i - 1]
  BY ConsIsSeq
<1>. HIDE DEF c
<1>2. ASSUME NEW i \in DOMAIN c PROVE c[i].call = "timer"
  <2>1. CASE i = 1
    BY <1>1, <2>1 DEF Expiring
  <2>2. CASE i # 1
    <3>1. i \in 2..(Len(st) + 1)
      BY <1>1, <2>2
    <3>. QED BY <1>1, <3>1 DEF TimersOnly
  <2>. QED BY <2>1, <2>2
<1>. QED BY <1>1, <1>2 DEF TimersOnly, c

-----------------------------------------------------------------------------
(* Facts that follow from the invariant. *)

LEMMA AliveExists ==
    ASSUME IInv, PlainInv
    PROVE  /\ Alive \subseteq DOMAIN heap /\ IsFiniteSet(Alive) /\ IsFiniteSet(DOMAIN heap)
           /\ ToSet(messages) \subseteq DOMAIN heap /\ Delivered \subseteq DOMAIN heap
           /\ Emitted = ToSet(messages) \cup Delivered
<1>1. /\ IsHeap(heap) /\ IsStack(stack, heap) /\ \A k \in DOMAIN m : m[k] \in DOMAIN heap
  BY DEF IInv, IsParser, Parser
<1>2. Mapped \subseteq DOMAIN heap
  BY <1>1 DEF Mapped
<1>3. Sending \subseteq DOMAIN heap
  <2>1. ASSUME NEW i \in DOMAIN stack, stack[i].call = "Emit" PROVE stack[i].id \in DOMAIN heap
    BY <1>1, <2>1 DEF IsStack, IsCall
  <2>. QED BY <2>1 DEF Sending, EmitsOf
<1>4. ToSet(messages) \subseteq DOMAIN heap
  <2>1. messages \in Seq(DOMAIN heap)
    BY DEF IInv
  <2>2. DOMAIN messages = 1..Len(messages) /\ \A i \in 1..Len(messages) : messages[i] \in DOMAIN heap
    BY <2>1, LenProperties, ElementOfSeq
  <2>. QED BY <2>2 DEF ToSet
<1>5. Delivered \subseteq DOMAIN heap
  BY DEF Delivered, PlainInv, Final
<1>6. Emitted = ToSet(messages) \cup Delivered
  BY DEF Emitted, Delivered
<1>7. IsFiniteSet(DOMAIN heap)
  <2>1. Len(heap) \in Nat /\ DOMAIN heap = 1..Len(heap)
    BY <1>1, SeqParts DEF IsHeap
  <2>2. IsFiniteSet(1..Len(heap))
    BY <2>1, FS_Interval
  <2>. QED BY <2>1, <2>2
<1>8. Alive \subseteq DOMAIN heap
  BY <1>2, <1>3, <1>4, <1>5, <1>6 DEF Alive
<1>9. IsFiniteSet(Alive)
  BY <1>7, <1>8, FS_Subset
<1>. QED BY <1>4, <1>5, <1>6, <1>7, <1>8, <1>9

\* The copies in a message are a number, of any segment.
LEMMA CopiesType ==
    ASSUME IInv, NEW w
    PROVE  \A id \in DOMAIN heap : CopiesAmong(heap, w)[id] = HowOften(w, heap[id].packets)
                                  /\ CopiesAmong(heap, w)[id] \in Nat
                                  /\ heap[id].packets \in Seq(Packet) /\ InOrder(heap[id].packets)
<1>1. ASSUME NEW id \in DOMAIN heap PROVE heap[id].packets \in Seq(Packet) /\ InOrder(heap[id].packets)
  BY DEF IInv, IsParser, Parser, IsHeap, IsMessage
<1>. QED BY <1>1, HowOftenInNat DEF CopiesAmong

\* No message is in the map under two keys.
LEMMA OneKeyEach ==
    ASSUME IInv, PlainInv, NEW j \in DOMAIN m, NEW k \in DOMAIN m, m[j] = m[k]
    PROVE  j = k
<1>1. m[j] \in DOMAIN heap
  BY DEF IInv, IsParser, Parser
<1>2. heap[m[j]].packets # <<>> /\ heap[m[j]].packets \in Seq(Packet)
  BY <1>1, CopiesType DEF PlainInv, PlainHeap, PlainMessage
<1>3. 1 \in DOMAIN heap[m[j]].packets
  BY <1>2, LenProperties, EmptySeq
<1>. QED BY <1>3 DEF PlainInv, Keyed, SameKey

\* A step that changes no message and puts none into the map.
LEMMA HeapStays ==
    ASSUME PlainInv, heap' = heap, traffic' = traffic,
           DOMAIN m' \subseteq DOMAIN m, \A k \in DOMAIN m' : m'[k] = m[k]
    PROVE  /\ PlainHeap' /\ Keyed' /\ Mapped' \subseteq Mapped
           /\ delivered' = delivered => Final'
<1>1. PlainHeap'
  BY DEF PlainInv, PlainHeap, PlainMessage, OnWire
<1>2. Keyed'
  BY DEF PlainInv, Keyed, SameKey
<1>3. Mapped' \subseteq Mapped
  BY DEF Mapped
<1>4. delivered' = delivered => Final'
  BY DEF PlainInv, Final
<1>. QED BY <1>1, <1>2, <1>3, <1>4

\* What has the queue as it was, or shorter, keeps its packets on the wire.
LEMMA QueueShrinks ==
    ASSUME IInv, PlainInv, traffic' = traffic, packets' = packets \/ (packets # <<>> /\ packets' = Tail(packets))
    PROVE  PlainQueue'
<1>1. IsSeq(packets)
  BY SeqIsSeq DEF IInv
<1>2. CASE packets' = packets
  BY <1>2 DEF PlainInv, PlainQueue, OnWire
<1>3. CASE packets # <<>> /\ packets' = Tail(packets)
  <2>1. \A i \in DOMAIN packets' : i + 1 \in DOMAIN packets /\ packets'[i] = packets[i + 1]
    BY <1>1, <1>3, TailIsSeq
  <2>. QED BY <2>1 DEF PlainInv, PlainQueue, OnWire
<1>. QED BY <1>2, <1>3

\* When every message keeps its place, the sums keep their terms.
LEMMA SameBalance ==
    ASSUME PlainInv, heap' = heap, Alive' = Alive, UNCHANGED <<captured, packets, dropped>>
    PROVE  Balanced'
<1>1. \A w : CopiesAmong(heap, w)' = CopiesAmong(heap, w)
  BY DEF CopiesAmong
<1>. QED BY <1>1 DEF PlainInv, Balanced

\* PacketHandler puts a copy of the segment into the queue.
LEMMA PacketHandlerPlain ==
    ASSUME IInv, PlainInv, NEW v \in Wire, PacketHandler(v)
    PROVE  PlainInv'
<1>. DEFINE p == [seg |-> v, ack |-> Segment[v].ack, age |-> 0]
<1>1. p \in Packet /\ packets \in Seq(Packet) /\ captured \in [Wire -> Nat] /\ traffic \in [Wire -> Nat]
  BY WireAssumption, BoundAssumption DEF IInv, Packet, SegmentRecord, Ages
<1>2. /\ packets' = Append(packets, p) /\ captured' = [captured EXCEPT ![v] = @ + 1]
      /\ captured[v] < traffic[v]
      /\ UNCHANGED <<traffic, heap, m, stack, tick, messages, delivered, dropped>>
  BY DEF PacketHandler
<1>3. PlainQueue'
  <2>1. /\ DOMAIN packets' = DOMAIN packets \cup {Len(packets) + 1} /\ packets'[Len(packets) + 1] = p
        /\ \A i \in DOMAIN packets : packets'[i] = packets[i]
    BY <1>1, <1>2, SeqIsSeq, AppendIsSeq
  <2>2. traffic[v] > 0
    BY <1>1, <1>2
  <2>3. ASSUME NEW i \in DOMAIN packets'
        PROVE  traffic[packets'[i].seg] > 0 /\ packets'[i].ack = Segment[packets'[i].seg].ack
    <3>1. CASE i \in DOMAIN packets
      BY <2>1, <3>1 DEF PlainInv, PlainQueue, OnWire
    <3>2. CASE i = Len(packets) + 1
      BY <2>1, <2>2, <3>2
    <3>. QED BY <2>1, <3>1, <3>2
  <2>. QED BY <1>2, <2>3 DEF PlainQueue, OnWire
<1>4. PlainHeap' /\ Keyed' /\ Final'
  BY <1>2, HeapStays
<1>5. PlainStack(stack)'
  BY <1>2 DEF PlainInv, PlainStack
<1>6. Mapped' = Mapped /\ Sending' = Sending /\ Emitted' = Emitted
  BY <1>2 DEF Mapped, Sending, EmitsOf, Emitted
<1>7. OnePlace'
  <2>1. Delivered' = Delivered
    BY <1>2 DEF Delivered
  <2>. QED BY <1>2, <1>6, <2>1 DEF PlainInv, OnePlace
<1>8. Balanced'
  <2>1. Alive' = Alive
    BY <1>6 DEF Alive
  <2>2. ASSUME NEW w \in Wire
        PROVE  captured'[w] = HowOften(w, packets') + dropped'[w] + SumFunctionOnSet(CopiesAmong(heap, w)', Alive')
    <3>1. PICK sum : sum = SumFunctionOnSet(CopiesAmong(heap, w), Alive)
      OBVIOUS
    <3>2. SumFunctionOnSet(CopiesAmong(heap, w)', Alive') = sum
      <4>1. CopiesAmong(heap, w)' = CopiesAmong(heap, w)
        BY <1>2 DEF CopiesAmong
      <4>. QED BY <2>1, <3>1, <4>1
    <3>3. sum \in Nat
      BY <3>1, AliveExists, CopiesType, SumType
    <3>4. captured[w] = HowOften(w, packets) + dropped[w] + sum
      BY <3>1 DEF PlainInv, Balanced
    <3>5. HowOften(w, packets') = HowOften(w, packets) + IF v = w THEN 1 ELSE 0
      BY <1>1, <1>2, AppendCounts
    <3>6. captured'[w] = captured[w] + IF v = w THEN 1 ELSE 0
      BY <1>1, <1>2
    <3>7. HowOften(w, packets) \in Nat /\ dropped[w] \in Nat /\ dropped' = dropped
      BY <1>1, <1>2, HowOftenInNat DEF IInv, IsParser, Parser
    <3>. HIDE DEF p
    <3>. QED BY <3>2, <3>3, <3>4, <3>5, <3>6, <3>7
  <2>. QED BY <2>2 DEF Balanced
<1>. QED BY <1>3, <1>4, <1>5, <1>7, <1>8 DEF PlainInv

\* The tick that starts or ends a pass of timer concerns no message.
LEMMA TimerPlain ==
    ASSUME IInv, PlainInv, Timer \/ TimerReturns
    PROVE  PlainInv'
<1>1. IsSeq(stack)
  BY DEF IInv, IsParser, Parser, IsStack
<1>2. UNCHANGED <<traffic, captured, packets, heap, m, messages, delivered, dropped>>
  BY DEF Timer, TimerReturns, SetParser, Call, Return, Parser
<1>3. Sending = {} /\ Sending' = {} /\ PlainStack(stack)'
  <2>1. CASE Timer
    <3>1. TimersOnly(stack) /\ stack' = <<Expiring(DOMAIN m)>> \o stack
      <4>1. stack = <<>> /\ stack' = <<Expiring(DOMAIN m)>> \o stack
        BY <2>1 DEF Timer, Idle, SetParser, Call, Parser
      <4>2. DOMAIN stack = {}
        BY <4>1, <1>1, SeqParts, EmptySeq
      <4>. QED BY <4>1, <4>2 DEF TimersOnly
    <3>2. TimersOnly(stack') /\ IsSeq(stack')
      BY <1>1, <3>1, StackWithTimer
    <3>. QED BY <1>1, <3>1, <3>2, StackOfTimers DEF Sending
  <2>2. CASE TimerReturns
    <3>1. stack # <<>> /\ Head(stack).call = "timer" /\ stack' = Tail(stack)
      BY <2>2 DEF TimerReturns, Running, Idle, SetParser, Return, Parser
    <3>2. TimersOnly(stack) /\ TimersOnly(stack') /\ IsSeq(stack')
      BY <1>1, <3>1, StackOfCall DEF PlainInv
    <3>. QED BY <1>1, <3>2, StackOfTimers DEF Sending
  <2>. QED BY <2>1, <2>2
<1>4. PlainHeap' /\ Keyed' /\ Final' /\ PlainQueue'
  <2>1. PlainHeap' /\ Keyed' /\ Final'
    BY <1>2, HeapStays
  <2>2. PlainQueue'
    BY <1>2, QueueShrinks
  <2>. QED BY <2>1, <2>2
<1>5. Mapped' = Mapped /\ Emitted' = Emitted /\ Delivered' = Delivered
  BY <1>2 DEF Mapped, Emitted, Delivered
<1>6. OnePlace'
  BY <1>2, <1>3, <1>5 DEF PlainInv, OnePlace
<1>7. Balanced'
  <2>1. Alive' = Alive
    BY <1>3, <1>5 DEF Alive
  <2>. QED BY <1>2, <2>1, SameBalance
<1>. QED BY <1>3, <1>4, <1>6, <1>7 DEF PlainInv

\* Emit puts the message into the channel.
LEMMA SendPlain ==
    ASSUME IInv, PlainInv, Send
    PROVE  PlainInv'
<1>1. IsSeq(stack) /\ IsSeq(messages)
  BY SeqIsSeq DEF IInv, IsParser, Parser, IsStack
<1>2. PICK id : id = Top.id
  OBVIOUS
<1>3. /\ stack # <<>> /\ Head(stack).call = "Emit" /\ stack' = Tail(stack)
      /\ messages' = Append(messages, id)
      /\ UNCHANGED <<traffic, captured, packets, heap, m, tick, delivered, dropped>>
  BY <1>2 DEF Send, Running, Idle, SetParser, Return, Parser
<1>4. TimersOnly(stack') /\ IsSeq(stack') /\ Sending = {id}
  BY <1>1, <1>2, <1>3, StackOfCall DEF PlainInv, Sending, Top
<1>5. Sending' = {} /\ PlainStack(stack)'
  BY <1>4, StackOfTimers DEF Sending
<1>6. PlainHeap' /\ Keyed' /\ Final' /\ PlainQueue'
  <2>1. PlainHeap' /\ Keyed' /\ Final'
    BY <1>3, HeapStays
  <2>2. PlainQueue'
    BY <1>3, QueueShrinks
  <2>. QED BY <2>1, <2>2
<1>7. /\ DOMAIN messages' = DOMAIN messages \cup {Len(messages) + 1} /\ messages'[Len(messages) + 1] = id
      /\ \A i \in DOMAIN messages : messages'[i] = messages[i]
  BY <1>1, <1>3, AppendIsSeq
<1>8. ToSet(messages') = ToSet(messages) \cup {id}
  BY <1>7 DEF ToSet
<1>9. Mapped' = Mapped /\ Delivered' = Delivered /\ Emitted' = Emitted \cup {id}
  <2>1. Mapped' = Mapped /\ Delivered' = Delivered
    BY <1>3 DEF Mapped, Delivered
  <2>. QED BY <1>3, <1>8, <2>1 DEF Emitted
<1>10. id \notin Mapped /\ id \notin Emitted
  BY <1>4 DEF PlainInv, OnePlace
<1>11. OnePlace'
  <2>1. Mapped' \cap Emitted' = {} /\ ToSet(messages') \cap Delivered' = {}
    BY <1>8, <1>9, <1>10 DEF PlainInv, OnePlace, Emitted, Delivered
  <2>2. \A i \in DOMAIN messages : messages[i] # id
    BY <1>10 DEF Emitted, ToSet
  <2>3. \A i, j \in DOMAIN messages' : messages'[i] = messages'[j] => i = j
    BY <1>7, <2>2 DEF PlainInv, OnePlace
  <2>4. \A i, j \in DOMAIN delivered' : delivered'[i].id = delivered'[j].id => i = j
    BY <1>3 DEF PlainInv, OnePlace
  <2>. QED BY <1>5, <2>1, <2>3, <2>4 DEF OnePlace
<1>12. Balanced'
  <2>1. Alive' = Alive
    BY <1>4, <1>5, <1>9 DEF Alive
  <2>. QED BY <1>3, <2>1, SameBalance
<1>. QED BY <1>5, <1>6, <1>11, <1>12 DEF PlainInv

\* A message that is taken from under its key is in the map no more.
LEMMA MappedWithout ==
    ASSUME IInv, PlainInv, NEW k \in DOMAIN m, DOMAIN m' = DOMAIN m \ {k},
           \A j \in DOMAIN m' : m'[j] = m[j]
    PROVE  Mapped' = Mapped \ {m[k]}
<1>1. \A j \in DOMAIN m : j # k => m[j] # m[k]
  BY OneKeyEach
<1>. QED BY <1>1 DEF Mapped

\* timer changes no message.
LEMMA ExpireOneHeap == ExpireOne => heap' = heap
<1>. SUFFICES ASSUME ExpireOne PROVE heap' = heap
  OBVIOUS
<1>1. PICK k \in Top.keys \cap DOMAIN m :
         LET msg  == heap[m[k]]
             next == Call(Return(Parser), Expiring(Top.keys \ {k}))
         IN  SetParser(
               IF ~Expired(msg) THEN next
               ELSE IF AllowIncomplete THEN Emit(next, m[k])
               ELSE [next EXCEPT !.m = Without(@, KeyOf(msg)), !.dropped = DroppedWith(m[k])])
  BY DEF ExpireOne
<1>2. PICK next : next = Call(Return(Parser), Expiring(Top.keys \ {k}))
  OBVIOUS
<1>3. next.heap = heap /\ DOMAIN next = {"heap", "m", "stack", "dropped"}
  BY <1>2 DEF Call, Return, Parser
<1>4. PICK map, d, e : map = Without(next.m, KeyOf(heap[m[k]])) /\ d = DroppedWith(m[k]) /\ e = Emitting(m[k])
  OBVIOUS
<1>5. Emit(next, m[k]) = [next EXCEPT !.m = map, !.stack = <<e>> \o next.stack]
  BY <1>3, <1>4 DEF Emit, Call
<1>6. \/ SetParser(next) \/ SetParser([next EXCEPT !.m = map, !.stack = <<e>> \o next.stack])
      \/ SetParser([next EXCEPT !.m = map, !.dropped = d])
  BY <1>1, <1>2, <1>4, <1>5
<1>. QED BY <1>3, <1>6 DEF SetParser

\* timer leaves a message alone, sends it, or lets it go with its packets.
LEMMA ExpireOnePlain ==
    ASSUME IInv, PlainInv, ExpireOne
    PROVE  PlainInv'
<1>1. IsSeq(stack)
  BY DEF IInv, IsParser, Parser, IsStack
<1>2. PICK k \in Top.keys \cap DOMAIN m :
         LET msg  == heap[m[k]]
             next == Call(Return(Parser), Expiring(Top.keys \ {k}))
         IN  SetParser(
               IF ~Expired(msg) THEN next
               ELSE IF AllowIncomplete THEN Emit(next, m[k])
               ELSE [next EXCEPT !.m = Without(@, KeyOf(msg)), !.dropped = DroppedWith(m[k])])
  BY DEF ExpireOne
<1>3. PICK next : next = Call(Return(Parser), Expiring(Top.keys \ {k}))
  OBVIOUS
<1>4. PICK id : id = m[k]
  OBVIOUS
<1>5. /\ stack # <<>> /\ Head(stack).call = "timer"
      /\ UNCHANGED <<traffic, captured, packets, tick, messages, delivered>>
  BY DEF ExpireOne, Running, Idle
<1>6. TimersOnly(stack) /\ TimersOnly(Tail(stack)) /\ IsSeq(Tail(stack)) /\ Sending = {}
  BY <1>1, <1>5, StackOfCall, StackOfTimers DEF PlainInv, Sending
<1>7. PICK c : c = Expiring(Top.keys \ {k})
  OBVIOUS
<1>8. /\ next.heap = heap /\ next.m = m /\ next.dropped = dropped /\ next.stack = <<c>> \o Tail(stack)
      /\ DOMAIN next = {"heap", "m", "stack", "dropped"}
  BY <1>3, <1>7 DEF Call, Return, Parser
<1>9. TimersOnly(next.stack) /\ IsSeq(next.stack)
  BY <1>6, <1>7, <1>8, StackWithTimer
<1>10. id \in DOMAIN heap /\ id \in Mapped /\ KeyOf(heap[id]) = k
  <2>1. id \in DOMAIN heap
    BY <1>4 DEF IInv, IsParser, Parser
  <2>2. heap[id].packets # <<>> /\ heap[id].packets \in Seq(Packet)
    BY <2>1, CopiesType DEF PlainInv, PlainHeap, PlainMessage
  <2>3. 1 \in DOMAIN heap[id].packets
    BY <2>2, LenProperties, EmptySeq
  <2>4. KeyOf(heap[id]) = k
    BY <1>4, <2>3 DEF PlainInv, Keyed, SameKey, KeyOf
  <2>. QED BY <1>4, <2>1, <2>4 DEF Mapped
<1>11. PICK map : map = Without(m, k)
  OBVIOUS
<1>12. DOMAIN map = DOMAIN m \ {k} /\ \A j \in DOMAIN map : map[j] = m[j]
  BY <1>11 DEF Without
<1>13. /\ heap' = heap
       /\ \/ m' = m /\ stack' = next.stack /\ dropped' = dropped
          \/ m' = map /\ stack' = <<Emitting(id)>> \o next.stack /\ dropped' = dropped
          \/ m' = map /\ stack' = next.stack /\ dropped' = DroppedWith(id)
  <2>1. CASE ~Expired(heap[id])
    <3>1. SetParser(next)
      BY <1>2, <1>3, <1>4, <2>1
    <3>. QED BY <1>8, <3>1 DEF SetParser
  <2>2. CASE Expired(heap[id]) /\ AllowIncomplete
    <3>1. SetParser(Emit(next, id))
      BY <1>2, <1>3, <1>4, <2>2
    <3>2. PICK e : e = Emitting(id)
      OBVIOUS
    <3>3. Emit(next, id) = [next EXCEPT !.m = map, !.stack = <<e>> \o next.stack]
      BY <1>8, <1>10, <1>11, <3>2 DEF Emit, Call
    <3>4. heap' = heap /\ m' = map /\ stack' = <<e>> \o next.stack /\ dropped' = dropped
      BY <1>8, <3>1, <3>3 DEF SetParser
    <3>. QED BY <3>2, <3>4
  <2>3. CASE Expired(heap[id]) /\ ~AllowIncomplete
    <3>1. PICK d : d = DroppedWith(id)
      OBVIOUS
    <3>2. SetParser([next EXCEPT !.m = map, !.dropped = d])
      BY <1>2, <1>3, <1>4, <1>8, <1>10, <1>11, <2>3, <3>1
    <3>3. heap' = heap /\ m' = map /\ stack' = next.stack /\ dropped' = d
      BY <1>8, <3>2 DEF SetParser
    <3>. QED BY <3>1, <3>3
  <2>. QED BY <2>1, <2>2, <2>3
<1>14. DOMAIN m' \subseteq DOMAIN m /\ \A j \in DOMAIN m' : m'[j] = m[j]
  BY <1>12, <1>13
<1>15. PlainHeap' /\ Keyed' /\ Final' /\ PlainQueue' /\ Mapped' \subseteq Mapped
  <2>1. PlainHeap' /\ Keyed' /\ Final' /\ Mapped' \subseteq Mapped
    BY <1>5, <1>13, <1>14, HeapStays
  <2>2. PlainQueue'
    BY <1>5, QueueShrinks
  <2>. QED BY <2>1, <2>2
<1>16. Emitted' = Emitted /\ Delivered' = Delivered
  BY <1>5 DEF Emitted, Delivered
<1>17. /\ \A i, j \in DOMAIN messages' : messages'[i] = messages'[j] => i = j
       /\ \A i, j \in DOMAIN delivered' : delivered'[i].id = delivered'[j].id => i = j
       /\ ToSet(messages') \cap Delivered' = {} /\ Mapped' \cap Emitted' = {}
       /\ id \notin Emitted
  BY <1>5, <1>10, <1>15, <1>16 DEF PlainInv, OnePlace
<1>18. CASE m' = m /\ stack' = next.stack /\ dropped' = dropped
  <2>1. PlainStack(stack)' /\ Sending' = {}
    BY <1>9, <1>18, StackOfTimers DEF Sending
  <2>2. OnePlace'
    BY <1>17, <2>1 DEF OnePlace
  <2>3. Balanced'
    <3>1. Mapped' = Mapped
      BY <1>18 DEF Mapped
    <3>2. Alive' = Alive
      BY <1>6, <1>16, <2>1, <3>1 DEF Alive
    <3>. QED BY <1>5, <1>13, <1>18, <3>2, SameBalance
  <2>. QED BY <1>15, <2>1, <2>2, <2>3 DEF PlainInv
<1>19. m' = map => Mapped' = Mapped \ {id}
  BY <1>4, <1>12, MappedWithout
<1>20. CASE m' = map /\ stack' = <<Emitting(id)>> \o next.stack /\ dropped' = dropped
  <2>1. PlainStack(stack)' /\ Sending' = {id}
    BY <1>9, <1>20, StackOfTimers DEF Sending
  <2>2. OnePlace'
    BY <1>16, <1>17, <1>19, <1>20, <2>1 DEF OnePlace
  <2>3. Balanced'
    <3>1. Alive' = Alive
      BY <1>6, <1>10, <1>16, <1>19, <1>20, <2>1 DEF Alive
    <3>. QED BY <1>5, <1>13, <1>20, <3>1, SameBalance
  <2>. QED BY <1>15, <2>1, <2>2, <2>3 DEF PlainInv
<1>21. CASE m' = map /\ stack' = next.stack /\ dropped' = DroppedWith(id)
  <2>1. PlainStack(stack)' /\ Sending' = {}
    BY <1>9, <1>21, StackOfTimers DEF Sending
  <2>2. OnePlace'
    BY <1>17, <2>1 DEF OnePlace
  <2>3. Alive' = Alive \ {id} /\ id \in Alive
    BY <1>6, <1>10, <1>16, <1>17, <1>19, <1>21, <2>1 DEF Alive
  <2>4. ASSUME NEW w \in Wire
        PROVE  captured'[w] = HowOften(w, packets') + dropped'[w] + SumFunctionOnSet(CopiesAmong(heap, w)', Alive')
    <3>1. PICK rest : rest = SumFunctionOnSet(CopiesAmong(heap, w), Alive \ {id})
      OBVIOUS
    <3>2. SumFunctionOnSet(CopiesAmong(heap, w)', Alive') = rest
      <4>1. CopiesAmong(heap, w)' = CopiesAmong(heap, w)
        BY <1>13 DEF CopiesAmong
      <4>. QED BY <2>3, <3>1, <4>1
    <3>3. PICK n : n = HowOften(w, heap[id].packets)
      OBVIOUS
    <3>4. rest \in Nat /\ n \in Nat /\ SumFunctionOnSet(CopiesAmong(heap, w), Alive) = n + rest
      <4>1. IsFiniteSet(Alive) /\ \A x \in Alive : CopiesAmong(heap, w)[x] \in Nat
        BY AliveExists, CopiesType
      <4>2. IsFiniteSet(Alive \ {id}) /\ \A x \in Alive \ {id} : CopiesAmong(heap, w)[x] \in Nat
        BY <4>1, FS_Subset
      <4>3. CopiesAmong(heap, w)[id] = n /\ n \in Nat
        BY <1>10, <3>3, CopiesType
      <4>4. rest \in Nat
        BY <3>1, <4>2, SumType
      <4>5. SumFunctionOnSet(CopiesAmong(heap, w), Alive) = CopiesAmong(heap, w)[id] + rest
        BY <2>3, <3>1, <4>1, SumTakeOff
      <4>. QED BY <4>3, <4>4, <4>5
    <3>5. captured[w] = HowOften(w, packets) + dropped[w] + (n + rest)
      BY <3>4 DEF PlainInv, Balanced
    <3>6. dropped'[w] = dropped[w] + n
      BY <1>17, <1>21, <3>3 DEF DroppedWith
    <3>7. HowOften(w, packets) \in Nat /\ dropped[w] \in Nat /\ packets' = packets /\ captured' = captured
      BY <1>5, HowOftenInNat DEF IInv, IsParser, Parser
    <3>. QED BY <3>2, <3>4, <3>5, <3>6, <3>7
  <2>5. Balanced'
    BY <2>4 DEF Balanced
  <2>. QED BY <1>15, <2>1, <2>2, <2>5 DEF PlainInv
<1>. QED BY <1>13, <1>18, <1>20, <1>21

\* The reader takes a message: what it delivers is what the message holds.
LEMMA PluginReaderPlain ==
    ASSUME IInv, PlainInv, PluginReader
    PROVE  PlainInv'
<1>1. IsSeq(messages) /\ IsSeq(delivered) /\ messages \in Seq(DOMAIN heap)
  BY SeqIsSeq DEF IInv, PlainInv, Final
<1>2. PICK id : id = Head(messages)
  OBVIOUS
<1>3. PICK rec : rec = [type |-> IF heap[id].direction = "incoming" THEN "request" ELSE "response",
                        uuid |-> UUID(heap[id]),
                        data |-> [i \in DOMAIN heap[id].packets |-> heap[id].packets[i].seg],
                        id   |-> id]
  OBVIOUS
<1>4. rec.id = id /\ rec.data = SegmentsOf(heap[id].packets)
  BY <1>3 DEF SegmentsOf
<1>5. /\ messages # <<>> /\ delivered' = Append(delivered, rec) /\ messages' = Tail(messages)
      /\ UNCHANGED <<traffic, captured, packets, heap, m, stack, tick, dropped>>
  BY <1>2, <1>3 DEF PluginReader
<1>6. /\ id = messages[1] /\ 1 \in DOMAIN messages
      /\ \A i \in DOMAIN messages' : i + 1 \in DOMAIN messages /\ messages'[i] = messages[i + 1]
  BY <1>1, <1>2, <1>5, TailIsSeq
<1>7. DOMAIN messages = 1..Len(messages) /\ Len(messages) \in Nat /\ DOMAIN messages' = 1..(Len(messages) - 1)
  <2>1. messages' \in Seq(DOMAIN heap) /\ Len(messages') = Len(messages) - 1
    BY <1>1, <1>5, HeadTailProperties
  <2>. QED BY <1>1, <2>1, LenProperties
<1>8. \A i, j \in DOMAIN messages : messages[i] = messages[j] => i = j
  BY DEF PlainInv, OnePlace
<1>9. \A i \in DOMAIN messages' : messages'[i] # id
  <2>1. ASSUME NEW i \in DOMAIN messages' PROVE i + 1 # 1
    BY <1>7
  <2>. QED BY <1>6, <1>8, <2>1
<1>10. ToSet(messages) = ToSet(messages') \cup {id}
  <2>1. ASSUME NEW i \in DOMAIN messages PROVE i = 1 \/ \E j \in DOMAIN messages' : messages'[j] = messages[i]
    <3>1. CASE i # 1
      <4>1. i - 1 \in DOMAIN messages' /\ (i - 1) + 1 = i
        BY <1>7, <3>1
      <4>. QED BY <1>6, <4>1
    <3>. QED BY <3>1
  <2>. QED BY <1>6, <2>1 DEF ToSet
<1>11. id \notin ToSet(messages')
  BY <1>9 DEF ToSet
<1>12. /\ IsSeq(delivered') /\ DOMAIN delivered' = DOMAIN delivered \cup {Len(delivered) + 1}
       /\ delivered'[Len(delivered) + 1] = rec
       /\ \A i \in DOMAIN delivered : delivered'[i] = delivered[i]
  BY <1>1, <1>5, AppendIsSeq
<1>13. Delivered' = Delivered \cup {id}
  BY <1>4, <1>12 DEF Delivered
<1>14. Emitted' = Emitted /\ Mapped' = Mapped /\ Sending' = Sending
  <2>1. Emitted = ToSet(messages) \cup Delivered /\ Emitted' = ToSet(messages') \cup Delivered'
    BY DEF Emitted, Delivered
  <2>2. Mapped' = Mapped /\ Sending' = Sending
    BY <1>5 DEF Mapped, Sending, EmitsOf
  <2>. QED BY <1>10, <1>13, <2>1, <2>2
<1>15. PlainHeap' /\ Keyed' /\ PlainQueue' /\ PlainStack(stack)'
  <2>1. PlainHeap' /\ Keyed'
    BY <1>5, HeapStays
  <2>2. PlainQueue'
    BY <1>5, QueueShrinks
  <2>. QED BY <1>5, <2>1, <2>2 DEF PlainInv, PlainStack
<1>16. Final'
  <2>1. id \in DOMAIN heap
    BY <1>1, <1>6, <1>7, ElementOfSeq
  <2>. QED BY <1>4, <1>5, <1>12, <2>1 DEF PlainInv, Final
<1>17. OnePlace'
  <2>1. id \notin Delivered
    BY <1>10 DEF PlainInv, OnePlace
  <2>2. ToSet(messages') \cap Delivered' = {}
    BY <1>10, <1>11, <1>13 DEF PlainInv, OnePlace
  <2>3. \A i, j \in DOMAIN messages' : messages'[i] = messages'[j] => i = j
    <3>1. ASSUME NEW i \in DOMAIN messages', NEW j \in DOMAIN messages', messages'[i] = messages'[j]
          PROVE  i = j
      <4>1. i + 1 = j + 1
        BY <1>6, <1>8, <3>1
      <4>. QED BY <1>7, <4>1
    <3>. QED BY <3>1
  <2>4. \A i \in DOMAIN delivered : delivered[i].id # id
    BY <2>1 DEF Delivered
  <2>5. \A i, j \in DOMAIN delivered' : delivered'[i].id = delivered'[j].id => i = j
    BY <1>4, <1>12, <2>4 DEF PlainInv, OnePlace
  <2>. QED BY <1>14, <2>2, <2>3, <2>5 DEF PlainInv, OnePlace
<1>18. Balanced'
  <2>1. Alive' = Alive
    BY <1>14 DEF Alive
  <2>. QED BY <1>5, <2>1, SameBalance
<1>. QED BY <1>15, <1>16, <1>17, <1>18 DEF PlainInv

\* The packets that time leaves as they are but for their age.
LEMMA AgedPackets ==
    ASSUME NEW ps \in Seq(Packet)
    PROVE  /\ DOMAIN AllOlder(ps) = DOMAIN ps
           /\ \A i \in DOMAIN ps : /\ AllOlder(ps)[i].seg = ps[i].seg
                                   /\ AllOlder(ps)[i].ack = ps[i].ack
                                   /\ MessageID(AllOlder(ps)[i]) = MessageID(ps[i])
<1>1. \A i \in DOMAIN ps : ps[i] \in Packet
  BY LenProperties, ElementOfSeq
<1>2. DOMAIN AllOlder(ps) = DOMAIN ps /\ \A i \in DOMAIN ps : AllOlder(ps)[i] = Older(ps[i])
  BY DEF AllOlder
<1>3. ASSUME NEW p \in Packet PROVE Older(p).seg = p.seg /\ Older(p).ack = p.ack
  BY DEF Older, Packet
<1>4. ASSUME NEW p \in Packet PROVE MessageID(Older(p)) = MessageID(p)
  BY <1>3 DEF MessageID
<1>. QED BY <1>1, <1>2, <1>3, <1>4

\* No more than the age of a packet changes with time.
LEMMA TimePassesPlain ==
    ASSUME IInv, PlainInv, TimePasses
    PROVE  PlainInv'
<1>1. /\ packets' = AllOlder(packets)
      /\ UNCHANGED <<traffic, captured, m, messages, delivered, dropped>>
      /\ packets \in Seq(Packet)
  BY DEF TimePasses, IInv
<1>2. /\ DOMAIN heap' = DOMAIN heap
      /\ \A id \in DOMAIN heap :
            /\ heap[id].packets \in Seq(Packet)
            /\ heap'[id].packets = heap[id].packets \/ heap'[id].packets = AllOlder(heap[id].packets)
            /\ heap'[id].state = heap[id].state
  <2>1. ASSUME NEW id \in DOMAIN heap
        PROVE  /\ heap[id].packets \in Seq(Packet)
               /\ DOMAIN heap[id] = {"packets", "direction", "state"}
    BY DEF IInv, IsParser, Parser, IsHeap, IsMessage
  <2>2. DOMAIN heap' = DOMAIN heap
    BY DEF TimePasses
  <2>3. ASSUME NEW id \in DOMAIN heap
        PROVE  heap'[id] = heap[id] \/ heap'[id] = [heap[id] EXCEPT !.packets = AllOlder(@)]
    BY DEF TimePasses
  <2>. QED BY <2>1, <2>2, <2>3
<1>3. \A id \in DOMAIN heap :
         /\ DOMAIN heap'[id].packets = DOMAIN heap[id].packets
         /\ \A i \in DOMAIN heap[id].packets :
               /\ heap'[id].packets[i].seg = heap[id].packets[i].seg
               /\ heap'[id].packets[i].ack = heap[id].packets[i].ack
               /\ MessageID(heap'[id].packets[i]) = MessageID(heap[id].packets[i])
  BY <1>2, AgedPackets
<1>4. PlainQueue'
  <2>1. /\ DOMAIN packets' = DOMAIN packets
        /\ \A i \in DOMAIN packets : packets'[i].seg = packets[i].seg /\ packets'[i].ack = packets[i].ack
    BY <1>1, AgedPackets
  <2>. QED BY <1>1, <2>1 DEF PlainInv, PlainQueue, OnWire
<1>5. \A id \in DOMAIN heap : heap'[id].packets # <<>>
  <2>1. ASSUME NEW id \in DOMAIN heap PROVE heap'[id].packets # <<>>
    <3>1. heap[id].packets # <<>> /\ heap[id].packets \in Seq(Packet)
      BY <1>2 DEF PlainInv, PlainHeap, PlainMessage
    <3>2. 1 \in DOMAIN heap'[id].packets
      BY <1>3, <3>1, LenProperties, EmptySeq
    <3>3. DOMAIN <<>> = {}
      BY EmptyRest, LenProperties
    <3>. QED BY <3>2, <3>3
  <2>. QED BY <2>1
<1>6. PlainHeap'
  <2>1. ASSUME NEW id \in DOMAIN heap'
        PROVE  heap'[id].packets # <<>> /\ ~heap'[id].state.continue100
    BY <1>2, <1>5 DEF PlainInv, PlainHeap, PlainMessage
  <2>2. ASSUME NEW id \in DOMAIN heap', NEW i \in DOMAIN heap'[id].packets
        PROVE  /\ traffic'[heap'[id].packets[i].seg] > 0
               /\ heap'[id].packets[i].ack = Segment[heap'[id].packets[i].seg].ack
    <3>1. /\ id \in DOMAIN heap /\ i \in DOMAIN heap[id].packets
          /\ heap'[id].packets[i].seg = heap[id].packets[i].seg
          /\ heap'[id].packets[i].ack = heap[id].packets[i].ack
      BY <1>2, <1>3
    <3>. QED BY <1>1, <3>1 DEF PlainInv, PlainHeap, PlainMessage, OnWire
  <2>. QED BY <2>1, <2>2 DEF PlainHeap, PlainMessage, OnWire
<1>7. Keyed'
  <2>1. ASSUME NEW k \in DOMAIN m, NEW i \in DOMAIN heap'[m[k]].packets
        PROVE  MessageID(heap'[m[k]].packets[i]) = k
    <3>1. m[k] \in DOMAIN heap
      BY DEF IInv, IsParser, Parser
    <3>2. /\ i \in DOMAIN heap[m[k]].packets
          /\ MessageID(heap'[m[k]].packets[i]) = MessageID(heap[m[k]].packets[i])
      BY <1>3, <3>1
    <3>. QED BY <3>2 DEF PlainInv, Keyed, SameKey
  <2>. QED BY <1>1, <2>1 DEF Keyed, SameKey
<1>8. PlainStack(stack)' /\ Sending' = Sending
  <2>1. /\ DOMAIN stack' = DOMAIN stack
        /\ \A i \in DOMAIN stack : stack'[i].call = stack[i].call /\ stack'[i].id = stack[i].id
    <3>1. \A i \in DOMAIN stack : DOMAIN stack[i] = {"call", "id", "rest", "keys"}
      BY DEF IInv, IsParser, Parser, IsStack, IsCall
    <3>2. DOMAIN stack' = DOMAIN stack
          /\ \A i \in DOMAIN stack : stack'[i] = [stack[i] EXCEPT !.rest = AllOlder(@)]
      BY DEF TimePasses
    <3>. QED BY <3>1, <3>2
  <2>2. PlainStack(stack)'
    BY <2>1 DEF PlainInv, PlainStack
  <2>3. {j \in DOMAIN stack' : stack'[j].call = "Emit"} = {j \in DOMAIN stack : stack[j].call = "Emit"}
    BY <2>1
  <2>4. Sending' = Sending
    BY <2>1, <2>3 DEF Sending, EmitsOf
  <2>. QED BY <2>2, <2>4
<1>9. Mapped' = Mapped /\ Emitted' = Emitted /\ Delivered' = Delivered
  BY <1>1 DEF Mapped, Emitted, Delivered
<1>10. OnePlace'
  BY <1>1, <1>8, <1>9 DEF PlainInv, OnePlace
<1>11. Final'
  <2>1. ASSUME NEW id \in DOMAIN heap PROVE SegmentsOf(heap'[id].packets) = SegmentsOf(heap[id].packets)
    BY <1>3 DEF SegmentsOf
  <2>. QED BY <1>1, <1>2, <2>1 DEF PlainInv, Final
<1>12. Balanced'
  <2>1. Alive' = Alive
    BY <1>8, <1>9 DEF Alive
  <2>2. ASSUME NEW w \in Wire
        PROVE  captured'[w] = HowOften(w, packets') + dropped'[w] + SumFunctionOnSet(CopiesAmong(heap, w)', Alive')
    <3>1. HowOften(w, packets') = HowOften(w, packets)
      BY <1>1, AgedPackets, SameCounts
    <3>2. \A id \in Alive : CopiesAmong(heap', w)[id] = CopiesAmong(heap, w)[id]
      <4>1. ASSUME NEW id \in DOMAIN heap
            PROVE  HowOften(w, heap'[id].packets) = HowOften(w, heap[id].packets)
        BY <1>3, SameCounts
      <4>. QED BY <1>2, <4>1, AliveExists DEF CopiesAmong
    <3>3. SumFunctionOnSet(CopiesAmong(heap', w), Alive) = SumFunctionOnSet(CopiesAmong(heap, w), Alive)
      BY <3>2, AliveExists, SumSame
    <3>4. captured[w] = HowOften(w, packets) + dropped[w] + SumFunctionOnSet(CopiesAmong(heap, w), Alive)
      BY DEF PlainInv, Balanced
    <3>5. CopiesAmong(heap, w)' = CopiesAmong(heap', w)
      BY DEF CopiesAmong
    <3>6. captured' = captured /\ dropped' = dropped
      BY <1>1
    <3>. QED BY <2>1, <3>1, <3>3, <3>4, <3>5, <3>6, Zenon
  <2>. QED BY <2>2 DEF Balanced
<1>. QED BY <1>4, <1>6, <1>7, <1>8, <1>10, <1>11, <1>12 DEF PlainInv

\* An empty packet or a duplicate is let go.
LEMMA LetGoPlain ==
    ASSUME IInv, PlainInv, Receive, LetGo(Head(packets))
    PROVE  PlainInv'
<1>1. PICK p : p = Head(packets)
  OBVIOUS
<1>2. /\ packets \in Seq(Packet) /\ packets # <<>> /\ packets' = Tail(packets) /\ p \in Packet
      /\ UNCHANGED <<traffic, captured, tick, messages, delivered>>
  BY <1>1, HeadTailProperties DEF Receive, IInv
<1>3. /\ dropped' = [dropped EXCEPT ![p.seg] = @ + 1]
      /\ m' = m /\ stack' = stack /\ DOMAIN heap' = DOMAIN heap
      /\ \A id \in DOMAIN heap : /\ heap'[id].packets = heap[id].packets
                                 /\ heap'[id].state = heap[id].state
  BY <1>1 DEF LetGo
<1>4. PlainQueue'
  BY <1>2, QueueShrinks
<1>5. PlainHeap'
  BY <1>2, <1>3 DEF PlainInv, PlainHeap, PlainMessage, OnWire
<1>6. Keyed'
  <2>1. \A k \in DOMAIN m : m[k] \in DOMAIN heap
    BY DEF IInv, IsParser, Parser
  <2>. QED BY <1>3, <2>1 DEF PlainInv, Keyed, SameKey
<1>7. PlainStack(stack)' /\ Sending' = Sending
  BY <1>3 DEF PlainInv, PlainStack, Sending, EmitsOf
<1>8. Mapped' = Mapped /\ Emitted' = Emitted /\ Delivered' = Delivered
  BY <1>2, <1>3 DEF Mapped, Emitted, Delivered
<1>9. OnePlace'
  BY <1>2, <1>7, <1>8 DEF PlainInv, OnePlace
<1>10. Final'
  BY <1>2, <1>3 DEF PlainInv, Final
<1>11. Balanced'
  <2>1. Alive' = Alive
    BY <1>7, <1>8 DEF Alive
  <2>2. ASSUME NEW w \in Wire
        PROVE  captured'[w] = HowOften(w, packets') + dropped'[w] + SumFunctionOnSet(CopiesAmong(heap, w)', Alive')
    <3>1. PICK sum : sum = SumFunctionOnSet(CopiesAmong(heap, w), Alive)
      OBVIOUS
    <3>2. SumFunctionOnSet(CopiesAmong(heap, w)', Alive') = sum
      <4>1. CopiesAmong(heap, w)' = CopiesAmong(heap, w)
        BY <1>3 DEF CopiesAmong
      <4>. QED BY <2>1, <3>1, <4>1
    <3>3. sum \in Nat
      BY <3>1, AliveExists, CopiesType, SumType
    <3>4. captured[w] = HowOften(w, packets) + dropped[w] + sum
      BY <3>1 DEF PlainInv, Balanced
    <3>5. HowOften(w, packets) = HowOften(w, packets') + IF p.seg = w THEN 1 ELSE 0
      BY <1>1, <1>2, TailCounts
    <3>6. dropped \in [Wire -> Nat] /\ p.seg \in Wire
      BY <1>2 DEF IInv, IsParser, Parser, Packet
    <3>7. dropped'[w] = dropped[w] + (IF p.seg = w THEN 1 ELSE 0) /\ dropped[w] \in Nat
      BY <1>3, <3>6
    <3>8. HowOften(w, packets') \in Nat /\ captured' = captured
      BY <1>2, HeadTailProperties, HowOftenInNat
    <3>. QED BY <3>2, <3>3, <3>4, <3>5, <3>7, <3>8
  <2>. QED BY <2>2 DEF Balanced
<1>. QED BY <1>4, <1>5, <1>6, <1>7, <1>9, <1>10, <1>11 DEF PlainInv

\* How often a segment is in a message that a packet of it is added to.
LEMMA InsertedCounts ==
    ASSUME NEW w, NEW ps \in Seq(Packet), InOrder(ps), NEW p \in Packet,
           \A i \in DOMAIN ps : Seq32(ps[i]) # Seq32(p)
    PROVE  HowOften(w, Inserted(ps, p)) = HowOften(w, ps) + IF p.seg = w THEN 1 ELSE 0
<1>1. PICK qs : qs = Inserted(ps, p)
  OBVIOUS
<1>2. qs \in Seq(Packet) /\ InOrder(qs) /\ ToSet(qs) = ToSet(ps) \cup {p}
  BY <1>1, InsertedPackets
<1>3. /\ HowOften(w, qs) = IF \E i \in DOMAIN qs : qs[i].seg = w THEN 1 ELSE 0
      /\ HowOften(w, ps) = IF \E i \in DOMAIN ps : ps[i].seg = w THEN 1 ELSE 0
  BY <1>2, OnceInOrder
<1>4. (\E i \in DOMAIN qs : qs[i].seg = w) <=> (p.seg = w \/ \E i \in DOMAIN ps : ps[i].seg = w)
  <2>1. \A e : e \in ToSet(qs) <=> (e = p \/ e \in ToSet(ps))
    BY <1>2
  <2>2. (\E i \in DOMAIN qs : qs[i].seg = w) <=> \E e \in ToSet(qs) : e.seg = w
    BY DEF ToSet
  <2>3. (\E i \in DOMAIN ps : ps[i].seg = w) <=> \E e \in ToSet(ps) : e.seg = w
    BY DEF ToSet
  <2>. QED BY <2>1, <2>2, <2>3
<1>5. p.seg = w => ~\E i \in DOMAIN ps : ps[i].seg = w
  BY DEF Seq32
<1>. QED BY <1>1, <1>3, <1>4, <1>5

\* The others become part of one message.
LEMMA TakenPlain ==
    ASSUME IInv, PlainInv, IInv', Receive, NEW id, NEW ps, TakenInto(Head(packets), id, ps),
           traffic[Head(packets).seg] > 0,
           Head(packets).ack = Segment[Head(packets).seg].ack
    PROVE  PlainInv'
<1>1. PICK p : p = Head(packets)
  OBVIOUS
<1>2. PICK k : k = MessageID(p)
  OBVIOUS
<1>3. /\ packets \in Seq(Packet) /\ packets # <<>> /\ packets' = Tail(packets) /\ p \in Packet
      /\ stack = <<>>
      /\ UNCHANGED <<traffic, captured, tick, messages, delivered>>
  BY <1>1, HeadTailProperties DEF Receive, IInv, Idle
<1>4. /\ \/ /\ k \in DOMAIN m /\ id = m[k] /\ ps = heap[id].packets
            /\ DOMAIN heap' = DOMAIN heap
         \/ /\ k \notin DOMAIN m /\ id = Len(heap) + 1 /\ ps = <<>>
            /\ DOMAIN heap' = DOMAIN heap \cup {id}
      /\ \A i \in DOMAIN ps : Seq32(ps[i]) # Seq32(p)
      /\ heap'[id].packets = Inserted(ps, p)
      /\ ~heap'[id].state.continue100
      /\ \A jd \in DOMAIN heap : jd # id => heap'[jd] = heap[jd]
      /\ dropped' = dropped
      /\ \A j \in DOMAIN m : j # k => m'[j] = m[j]
      /\ \/ /\ DOMAIN m' = DOMAIN m \cup {k} /\ m'[k] = id
            /\ stack' = stack
         \/ /\ DOMAIN m' = DOMAIN m \ {k}
            /\ stack' = <<Emitting(id)>> \o stack
  BY <1>1, <1>2 DEF TakenInto
<1>5. \A j \in DOMAIN m : m[j] \in DOMAIN heap /\ m[j] \in Mapped
  BY DEF IInv, IsParser, Parser, Mapped
<1>6. Len(heap) + 1 \notin DOMAIN heap
  <2>1. IsSeq(heap)
    BY DEF IInv, IsParser, IsHeap, Parser
  <2>2. Len(heap) \in Nat /\ DOMAIN heap = 1..Len(heap)
    BY <2>1, SeqParts
  <2>. QED BY <2>2
<1>7. DOMAIN heap' = DOMAIN heap \cup {id} /\ (id \in DOMAIN heap <=> k \in DOMAIN m)
  BY <1>4, <1>5, <1>6
<1>8. id \notin Emitted /\ (id \in Alive <=> k \in DOMAIN m)
  <2>1. CASE k \in DOMAIN m
    BY <1>4, <1>5, <2>1 DEF PlainInv, OnePlace, Alive
  <2>2. CASE k \notin DOMAIN m
    BY <1>7, <2>2, AliveExists DEF Alive
  <2>. QED BY <2>1, <2>2
<1>9. /\ ps \in Seq(Packet) /\ InOrder(ps) /\ OnWire(ps) /\ SameKey(k, ps)
  <2>1. CASE k \in DOMAIN m
    <3>1. id \in DOMAIN heap /\ ps = heap[id].packets /\ id = m[k]
      BY <1>4, <1>7, <2>1
    <3>. QED BY <2>1, <3>1, CopiesType DEF PlainInv, PlainHeap, PlainMessage, Keyed
  <2>2. CASE k \notin DOMAIN m
    <3>1. ps \in Seq(Packet) /\ DOMAIN ps = {}
      <4>1. <<>> \in Seq(Packet) /\ DOMAIN <<>> = {}
        BY EmptyRest, LenProperties
      <4>2. ps = <<>>
        BY <1>4, <2>2
      <4>. QED BY <4>1, <4>2, Zenon
    <3>. QED BY <3>1 DEF InOrder, OnWire, SameKey
  <2>. QED BY <2>1, <2>2
<1>10. PICK qs : qs = Inserted(ps, p)
  OBVIOUS
<1>11. qs \in Seq(Packet) /\ qs # <<>> /\ ToSet(qs) = ToSet(ps) \cup {p}
  BY <1>3, <1>4, <1>9, <1>10, InsertedPackets
<1>12. OnWire(qs) /\ SameKey(k, qs)
  <2>1. ASSUME NEW i \in DOMAIN qs PROVE qs[i] = p \/ \E j \in DOMAIN ps : qs[i] = ps[j]
    <3>1. qs[i] \in ToSet(qs)
      BY DEF ToSet
    <3>. QED BY <1>11, <3>1 DEF ToSet
  <2>. QED BY <1>1, <1>2, <1>9, <2>1 DEF OnWire, SameKey
<1>13. PlainQueue'
  BY <1>3, QueueShrinks
<1>14. PlainHeap'
  <2>1. ASSUME NEW jd \in DOMAIN heap'
        PROVE  heap'[jd].packets # <<>> /\ OnWire(heap'[jd].packets) /\ ~heap'[jd].state.continue100
    <3>1. CASE jd = id
      BY <1>4, <1>10, <1>11, <1>12, <3>1
    <3>2. CASE jd # id
      <4>1. jd \in DOMAIN heap /\ heap'[jd] = heap[jd]
        BY <1>4, <1>7, <3>2
      <4>. QED BY <4>1 DEF PlainInv, PlainHeap, PlainMessage
    <3>. QED BY <3>1, <3>2
  <2>2. ASSUME NEW jd \in DOMAIN heap', NEW i \in DOMAIN heap'[jd].packets
        PROVE  /\ traffic'[heap'[jd].packets[i].seg] > 0
               /\ heap'[jd].packets[i].ack = Segment[heap'[jd].packets[i].seg].ack
    BY <1>3, <2>1 DEF OnWire
  <2>. QED BY <2>1, <2>2 DEF PlainHeap, PlainMessage, OnWire
<1>15. \A j \in DOMAIN m' : IF j = k THEN m'[j] = id ELSE j \in DOMAIN m /\ m'[j] = m[j] /\ m[j] # id
  <2>1. ASSUME NEW j \in DOMAIN m, j # k PROVE m[j] # id
    <3>1. CASE k \in DOMAIN m
      BY <1>4, <2>1, <3>1, OneKeyEach
    <3>2. CASE k \notin DOMAIN m
      BY <1>5, <1>7, <3>2
    <3>. QED BY <3>1, <3>2
  <2>2. ASSUME NEW j \in DOMAIN m' PROVE IF j = k THEN m'[j] = id ELSE j \in DOMAIN m /\ m'[j] = m[j]
    BY <1>4
  <2>. QED BY <2>1, <2>2
<1>16. Keyed'
  <2>1. ASSUME NEW j \in DOMAIN m' PROVE SameKey(j, heap'[m'[j]].packets)
    <3>1. CASE j = k
      BY <1>4, <1>10, <1>12, <1>15, <3>1
    <3>2. CASE j # k
      <4>1. j \in DOMAIN m /\ m'[j] = m[j] /\ heap'[m[j]] = heap[m[j]]
        BY <1>4, <1>5, <1>15, <3>2
      <4>. QED BY <4>1 DEF PlainInv, Keyed
    <3>. QED BY <3>1, <3>2
  <2>. QED BY <2>1 DEF Keyed, SameKey
<1>17. Sending = {} /\ PlainStack(stack)' /\ Sending' = (IF stack' = stack THEN {} ELSE {id})
  <2>1. IsSeq(stack) /\ TimersOnly(stack)
    <3>1. IsSeq(stack)
      BY DEF IInv, IsParser, Parser, IsStack
    <3>2. DOMAIN stack = {}
      BY <1>3, EmptyRest, LenProperties
    <3>. QED BY <3>1, <3>2 DEF TimersOnly
  <2>2. /\ PlainStack(stack) /\ EmitsOf(stack) = {}
        /\ PlainStack(<<Emitting(id)>> \o stack) /\ EmitsOf(<<Emitting(id)>> \o stack) = {id}
    BY <2>1, StackOfTimers
  <2>3. PICK st : st = <<Emitting(id)>> \o stack
    OBVIOUS
  <2>4. st # stack
    BY <2>2, <2>3
  <2>5. stack' = stack \/ stack' = st
    BY <1>4, <2>3
  <2>6. PlainStack(stack') /\ EmitsOf(stack') = (IF stack' = stack THEN {} ELSE {id})
    BY <2>2, <2>3, <2>4, <2>5
  <2>. QED BY <2>2, <2>6 DEF Sending
<1>18. Emitted' = Emitted /\ Delivered' = Delivered
  BY <1>3 DEF Emitted, Delivered
<1>19. \/ Mapped' = Mapped \cup {id} /\ Sending' = {}
       \/ Mapped' = Mapped \ {id} /\ Sending' = {id}
  <2>1. CASE DOMAIN m' = DOMAIN m \cup {k} /\ m'[k] = id /\ stack' = stack
    <3>1. \A j \in DOMAIN m : m[j] = id \/ m'[j] = m[j]
      BY <1>4
    <3>2. Mapped' = Mapped \cup {id}
      BY <1>15, <2>1, <3>1 DEF Mapped
    <3>. QED BY <1>17, <2>1, <3>2
  <2>2. CASE DOMAIN m' = DOMAIN m \ {k} /\ stack' = <<Emitting(id)>> \o stack
    <3>1. stack' # stack
      <4>1. DOMAIN stack' = 1..(Len(stack) + 1) /\ Len(stack) \in Nat /\ DOMAIN stack = {}
        <5>1. IsSeq(stack)
          BY DEF IInv, IsParser, Parser, IsStack
        <5>2. DOMAIN stack = {}
          BY <1>3, EmptyRest, LenProperties
        <5>. QED BY <2>2, <5>1, <5>2, ConsIsSeq
      <4>2. 1 \in DOMAIN stack'
        BY <4>1
      <4>. QED BY <4>1, <4>2, Zenon
    <3>2. Mapped' = Mapped \ {id}
      <4>1. \A j \in DOMAIN m : j \in DOMAIN m' \/ m[j] = id
        BY <1>4, <2>2
      <4>2. \A j \in DOMAIN m' : j \in DOMAIN m /\ m'[j] = m[j] /\ m[j] # id
        BY <1>15, <2>2
      <4>. QED BY <4>1, <4>2 DEF Mapped
    <3>. QED BY <1>17, <3>1, <3>2
  <2>. QED BY <1>4, <2>1, <2>2
<1>20. OnePlace'
  <2>1. /\ \A i, j \in DOMAIN messages' : messages'[i] = messages'[j] => i = j
        /\ \A i, j \in DOMAIN delivered' : delivered'[i].id = delivered'[j].id => i = j
        /\ ToSet(messages') \cap Delivered' = {}
    BY <1>3, <1>18 DEF PlainInv, OnePlace
  <2>2. Mapped' \cap Sending' = {} /\ Mapped' \cap Emitted' = {} /\ Sending' \cap Emitted' = {}
    BY <1>8, <1>18, <1>19 DEF PlainInv, OnePlace
  <2>. QED BY <2>1, <2>2 DEF OnePlace
<1>21. Final'
  <2>1. ASSUME NEW i \in DOMAIN delivered
        PROVE  delivered[i].id \in DOMAIN heap /\ heap'[delivered[i].id] = heap[delivered[i].id]
    <3>1. delivered[i].id \in Emitted
      BY DEF Emitted
    <3>2. delivered[i].id \in DOMAIN heap
      BY DEF PlainInv, Final
    <3>. QED BY <1>4, <1>8, <3>1, <3>2
  <2>. QED BY <1>3, <1>7, <2>1 DEF PlainInv, Final
<1>22. Balanced'
  <2>1. Alive' = Alive \cup {id}
    BY <1>17, <1>18, <1>19 DEF Alive
  <2>2. ASSUME NEW w \in Wire
        PROVE  captured'[w] = HowOften(w, packets') + dropped'[w] + SumFunctionOnSet(CopiesAmong(heap, w)', Alive')
    <3>1. PICK sum : sum = SumFunctionOnSet(CopiesAmong(heap, w), Alive)
      OBVIOUS
    <3>2. PICK d \in Nat : d = IF p.seg = w THEN 1 ELSE 0
      OBVIOUS
    <3>3. PICK f, g : f = CopiesAmong(heap, w) /\ g = CopiesAmong(heap', w)
      OBVIOUS
    <3>4. HowOften(w, heap'[id].packets) = HowOften(w, ps) + d /\ HowOften(w, ps) \in Nat
      BY <1>3, <1>4, <1>9, <3>2, InsertedCounts, HowOftenInNat
    <3>5. /\ \A x \in DOMAIN heap : f[x] = HowOften(w, heap[x].packets) /\ f[x] \in Nat
          /\ \A x \in DOMAIN heap' : g[x] = HowOften(w, heap'[x].packets)
      BY <3>3, CopiesType DEF CopiesAmong
    <3>6. g[id] = HowOften(w, ps) + d /\ g[id] \in Nat
      BY <1>7, <3>4, <3>5
    <3>7. id \in Alive => g[id] = f[id] + d
      <4>1. id \in Alive => id \in DOMAIN heap /\ ps = heap[id].packets
        BY <1>4, <1>7, <1>8
      <4>. QED BY <3>5, <3>6, <4>1
    <3>8. id \notin Alive => g[id] = d
      <4>1. id \notin Alive => ps = <<>>
        BY <1>4, <1>8
      <4>2. HowOften(w, <<>>) = 0
        <5>1. {i \in DOMAIN <<>> : <<>>[i].seg = w} = {}
          BY EmptyRest, LenProperties
        <5>. QED BY <5>1, FS_EmptySet DEF HowOften
      <4>. QED BY <3>2, <3>6, <4>1, <4>2
    <3>9. Alive \subseteq DOMAIN heap /\ IsFiniteSet(Alive)
      BY AliveExists
    <3>10. \A x \in Alive \ {id} : f[x] = g[x]
      BY <1>4, <1>7, <3>5, <3>9
    <3>11. SumFunctionOnSet(g, Alive \cup {id}) = SumFunctionOnSet(f, Alive) + d
      BY <3>5, <3>6, <3>7, <3>8, <3>9, <3>10, SumGrows
    <3>12. SumFunctionOnSet(CopiesAmong(heap, w)', Alive') = sum + d
      <4>1. CopiesAmong(heap, w)' = CopiesAmong(heap', w)
        BY DEF CopiesAmong
      <4>. QED BY <2>1, <3>1, <3>3, <3>11, <4>1
    <3>13. sum \in Nat
      BY <3>1, AliveExists, CopiesType, SumType
    <3>14. captured[w] = HowOften(w, packets) + dropped[w] + sum
      BY <3>1 DEF PlainInv, Balanced
    <3>15. HowOften(w, packets) = HowOften(w, packets') + d
      BY <1>1, <1>3, <3>2, TailCounts
    <3>16. dropped[w] \in Nat /\ dropped' = dropped /\ captured' = captured /\ HowOften(w, packets') \in Nat
      <4>1. dropped \in [Wire -> Nat] /\ packets' \in Seq(Packet)
        BY <1>3, HeadTailProperties DEF IInv, IsParser, Parser
      <4>. QED BY <1>3, <1>4, <4>1, HowOftenInNat
    <3>. QED BY <3>12, <3>13, <3>14, <3>15, <3>16
  <2>. QED BY <2>2 DEF Balanced
<1>. QED BY <1>13, <1>14, <1>16, <1>17, <1>20, <1>21, <1>22 DEF PlainInv

\* The parser takes a packet.
LEMMA ReceivePlain ==
    ASSUME IInv, Plain, PlainInv, IInv', Receive
    PROVE  PlainInv'
<1>1. PICK p : p = Head(packets)
  OBVIOUS
<1>2. packets \in Seq(Packet) /\ packets # <<>> /\ p \in Packet
  BY <1>1, HeadTailProperties DEF Receive, IInv
<1>3. 1 \in DOMAIN packets /\ p = packets[1]
  BY <1>1, <1>2, SeqIsSeq, TailIsSeq
<1>4. traffic[p.seg] > 0 /\ p.ack = Segment[p.seg].ack
  BY <1>3 DEF PlainInv, PlainQueue, OnWire
<1>5. LetGo(p) \/ \E id, ps : TakenInto(p, id, ps)
  BY <1>1, <1>2, <1>4, PlainProcessPacket DEF Receive
<1>. QED BY <1>1, <1>4, <1>5, LetGoPlain, TakenPlain

\* There is no merge.
LEMMA NoMergePlain ==
    ASSUME IInv, PlainInv
    PROVE  ~MergeNext
<1>1. SUFFICES ASSUME MergeNext PROVE FALSE
  OBVIOUS
<1>2. IsSeq(stack) /\ PlainStack(stack)
  BY DEF IInv, IsParser, Parser, IsStack, PlainInv
<1>3. stack # <<>> /\ Head(stack).call = "Merge"
  BY <1>1 DEF MergeNext, Running, Idle
<1>. QED BY <1>2, <1>3, StackOfCall

LEMMA PlainNext ==
    ASSUME IInv, Plain, PlainInv, IInv', [Next]_vars
    PROVE  PlainInv'
<1>1. CASE Capture
  BY <1>1, PacketHandlerPlain DEF Capture
<1>2. CASE Wait
  BY <1>2, ReceivePlain, NoMergePlain, SendPlain, TimerPlain, ExpireOnePlain DEF Wait
<1>3. CASE PluginReader
  BY <1>3, PluginReaderPlain
<1>4. CASE TimePasses
  BY <1>4, TimePassesPlain
<1>5. CASE UNCHANGED vars
  <2>1. PlainQueue' /\ PlainHeap' /\ Keyed' /\ PlainStack(stack)' /\ Final'
    BY <1>5 DEF vars, PlainInv, PlainQueue, PlainHeap, PlainMessage, OnWire, Keyed, SameKey, PlainStack, Final
  <2>2. Mapped' = Mapped /\ Sending' = Sending /\ Emitted' = Emitted /\ Delivered' = Delivered
    BY <1>5 DEF vars, Mapped, Sending, EmitsOf, Emitted, Delivered
  <2>3. OnePlace'
    BY <1>5, <2>2 DEF vars, PlainInv, OnePlace
  <2>4. Balanced'
    <3>1. Alive' = Alive
      BY <2>2 DEF Alive
    <3>. QED BY <1>5, <3>1, SameBalance DEF vars
  <2>. QED BY <2>1, <2>3, <2>4 DEF PlainInv
<1>. QED BY <1>1, <1>2, <1>3, <1>4, <1>5 DEF Next

\* What is on the wire does not change.
LEMMA TrafficStays == [Next]_vars => traffic' = traffic
<1>. SUFFICES ASSUME [Next]_vars PROVE traffic' = traffic
  OBVIOUS
<1>1. CASE Capture
  BY <1>1 DEF Capture, PacketHandler
<1>2. CASE Wait
  BY <1>2 DEF Wait, Receive, MergeNext, Send, Timer, ExpireOne, TimerReturns
<1>3. CASE PluginReader \/ TimePasses \/ UNCHANGED vars
  BY <1>3 DEF PluginReader, TimePasses, vars
<1>. QED BY <1>1, <1>2, <1>3 DEF Next

LEMMA PlainStays == Plain /\ [Next]_vars => Plain'
<1>. QED BY TrafficStays DEF Plain

LEMMA PlainInit == Init => PlainInv
<1>. SUFFICES ASSUME Init PROVE PlainInv
  OBVIOUS
<1>1. heap = <<>> /\ packets = <<>> /\ stack = <<>> /\ messages = <<>> /\ delivered = <<>> /\ DOMAIN m = {}
  BY DEF Init
<1>2. DOMAIN heap = {} /\ DOMAIN packets = {} /\ DOMAIN stack = {} /\ DOMAIN messages = {}
      /\ DOMAIN delivered = {} /\ IsSeq(delivered)
  <2>1. <<>> \in Seq(Packet) /\ DOMAIN <<>> = {}
    BY EmptyRest, LenProperties
  <2>. QED BY <1>1, <2>1, SeqIsSeq
<1>3. PlainQueue /\ PlainHeap /\ Keyed /\ PlainStack(stack) /\ Final
  BY <1>1, <1>2 DEF PlainQueue, OnWire, PlainHeap, Keyed, PlainStack, Final
<1>4. Mapped = {} /\ Sending = {} /\ Delivered = {} /\ Emitted = {} /\ ToSet(messages) = {}
  BY <1>1, <1>2 DEF Mapped, Sending, EmitsOf, Delivered, Emitted, ToSet
<1>5. OnePlace
  BY <1>2, <1>4 DEF OnePlace
<1>6. Balanced
  <2>1. Alive = {} /\ IsFiniteSet({})
    BY <1>4, FS_EmptySet DEF Alive
  <2>2. ASSUME NEW w \in Wire
        PROVE  captured[w] = HowOften(w, packets) + dropped[w] + SumFunctionOnSet(CopiesAmong(heap, w), Alive)
    <3>1. SumFunctionOnSet(CopiesAmong(heap, w), Alive) = 0
      BY <2>1, SumOfChosen
    <3>2. {i \in DOMAIN packets : packets[i].seg = w} = {}
      BY <1>2
    <3>3. HowOften(w, packets) = 0
      BY <3>2, FS_EmptySet DEF HowOften
    <3>4. captured[w] = 0 /\ dropped[w] = 0
      BY DEF Init
    <3>. QED BY <3>1, <3>3, <3>4
  <2>. QED BY <2>2 DEF Balanced
<1>. QED BY <1>3, <1>5, <1>6 DEF PlainInv

\* Every step keeps the strengthened invariant when the traffic has no 100-continue.
LEMMA PlainInvariance == Spec /\ Plain => [](IInv /\ Plain /\ PlainInv)
<1>1. Init => IInv /\ PlainInv
  BY InitIInv, PlainInit
<1>2. IInv /\ Plain /\ PlainInv /\ [Next]_vars => (IInv /\ Plain /\ PlainInv)'
  BY NextIInv, PlainStays, PlainNext
<1>. QED BY <1>1, <1>2, PTL DEF Spec

\* Without a 100-continue, a message is in the map under the key of its first packet,
\* which Emit and timer delete: they remove the message that they handle.
THEOREM PlainKeyedByFirst == Spec /\ Plain => []KeyedByFirst
<1>1. IInv /\ Plain /\ PlainInv => KeyedByFirst
  <2>. SUFFICES ASSUME IInv, PlainInv, NEW k \in DOMAIN m PROVE KeyOf(heap[m[k]]) = k
    BY DEF KeyedByFirst
  <2>1. m[k] \in DOMAIN heap
    BY DEF IInv, IsParser, Parser
  <2>2. heap[m[k]].packets # <<>> /\ heap[m[k]].packets \in Seq(Packet)
    BY <2>1, CopiesType DEF PlainInv, PlainHeap, PlainMessage
  <2>3. 1 \in DOMAIN heap[m[k]].packets
    BY <2>2, LenProperties, EmptySeq
  <2>. QED BY <2>3 DEF PlainInv, Keyed, SameKey, KeyOf
<1>. QED BY <1>1, PlainInvariance, PTL

\* Without a 100-continue, every captured copy of a segment is in the queue, in one
\* message, or was let go, whatever is captured how often and in which order.
THEOREM PlainAccounted == Spec /\ Plain => []Accounted
<1>1. IInv /\ Plain /\ PlainInv => Accounted
  <2>. SUFFICES ASSUME IInv, PlainInv, Idle, NEW w \in Wire
                PROVE  captured[w] = HowOften(w, packets) + dropped[w] + Held(w)
    BY DEF Accounted
  <2>. DEFINE f == [id \in Mapped \cup Emitted |-> HowOften(w, heap[id].packets)]
  <2>1. Alive = Mapped \cup Emitted
    <3>1. DOMAIN stack = {}
      <4>1. stack = <<>>
        BY DEF Idle
      <4>2. DOMAIN <<>> = {}
        BY EmptyRest, LenProperties
      <4>. QED BY <4>1, <4>2
    <3>2. Sending = {}
      BY <3>1 DEF Sending, EmitsOf
    <3>. QED BY <3>2 DEF Alive
  <2>2. \A id \in Alive : f[id] = CopiesAmong(heap, w)[id]
    BY <2>1, AliveExists DEF CopiesAmong
  <2>3. Held(w) = SumFunctionOnSet(f, Alive)
    BY <2>1 DEF Held, SumFunction
  <2>. HIDE DEF f
  <2>4. SumFunctionOnSet(f, Alive) = SumFunctionOnSet(CopiesAmong(heap, w), Alive)
    BY <2>2, AliveExists, SumSame
  <2>. QED BY <2>3, <2>4 DEF PlainInv, Balanced
<1>. QED BY <1>1, PlainInvariance, PTL

\* Without a 100-continue, no captured copy of a segment is in two recordings, though
\* every copy may come while its message is in progress or after it was emitted.
THEOREM PlainSkipsDuplicates == Spec /\ Plain => []SkipsDuplicates
<1>1. IInv /\ Plain /\ PlainInv => SkipsDuplicates
  <2>. DEFINE S(w) == {i \in DOMAIN delivered : w \in ToSet(delivered[i].data)}
  <2>. SUFFICES ASSUME IInv, PlainInv, NEW w \in Wire
                PROVE  Cardinality(S(w)) <= captured[w]
    BY DEF SkipsDuplicates
  <2>. DEFINE T == {delivered[i].id : i \in S(w)}
              f == [i \in S(w) |-> delivered[i].id]
  <2>1. IsFiniteSet(S(w))
    <3>1. Len(delivered) \in Nat /\ DOMAIN delivered = 1..Len(delivered)
      BY SeqParts DEF PlainInv, Final
    <3>2. IsFiniteSet(1..Len(delivered))
      BY <3>1, FS_Interval
    <3>. QED BY <3>1, <3>2, FS_Subset
  <2>2. Cardinality(T) = Cardinality(S(w))
    <3>1. \A i, j \in S(w) : f[i] = f[j] => i = j
      BY DEF PlainInv, OnePlace
    <3>2. f \in [S(w) -> T] /\ \A t \in T : \E i \in S(w) : f[i] = t
      OBVIOUS
    <3>3. f \in Bijection(S(w), T)
      <4>. HIDE DEF f, T, S
      <4>. QED BY <3>1, <3>2 DEF Bijection, Injection, Surjection, IsInjective
    <3>. HIDE DEF f, T, S
    <3>. QED BY <2>1, <3>3, FS_Bijection DEF ExistsBijection
  <2>3. T \subseteq Alive
    BY DEF Alive, Emitted
  <2>4. ASSUME NEW id \in T PROVE CopiesAmong(heap, w)[id] > 0
    <3>1. PICK i \in DOMAIN delivered : w \in ToSet(delivered[i].data) /\ id = delivered[i].id
      OBVIOUS
    <3>2. id \in DOMAIN heap /\ delivered[i].data = SegmentsOf(heap[id].packets)
      BY <3>1 DEF PlainInv, Final
    <3>3. \E j \in DOMAIN heap[id].packets : heap[id].packets[j].seg = w
      BY <3>1, <3>2 DEF SegmentsOf, ToSet
    <3>4. heap[id].packets \in Seq(Packet) /\ InOrder(heap[id].packets)
          /\ CopiesAmong(heap, w)[id] = HowOften(w, heap[id].packets)
      BY <3>2, CopiesType
    <3>5. HowOften(w, heap[id].packets) = 1
      BY <3>3, <3>4, OnceInOrder
    <3>. QED BY <3>4, <3>5
  <2>5. PICK sum : sum = SumFunctionOnSet(CopiesAmong(heap, w), Alive)
    OBVIOUS
  <2>6. IsFiniteSet(Alive) /\ \A x \in Alive : CopiesAmong(heap, w)[x] \in Nat
    BY AliveExists, CopiesType
  <2>. HIDE DEF T, f
  <2>7. Cardinality(T) <= sum /\ sum \in Nat
    BY <2>3, <2>4, <2>5, <2>6, SumCounts, SumType
  <2>8. captured[w] = HowOften(w, packets) + dropped[w] + sum
    BY <2>5 DEF PlainInv, Balanced
  <2>9. HowOften(w, packets) \in Nat /\ dropped[w] \in Nat /\ Cardinality(T) \in Nat
    BY <2>1, <2>2, HowOftenInNat, FS_CardinalityType DEF IInv, IsParser, Parser
  <2>10. Cardinality(T) <= captured[w]
    BY <2>7, <2>8, <2>9
  <2>. HIDE DEF S
  <2>. QED BY <2>2, <2>10
<1>. QED BY <1>1, PlainInvariance, PTL

\* Without a 100-continue, no later packet reaches a message that waits in the channel.
THEOREM PlainEmittedIsFinal == Spec /\ Plain => EmittedIsFinal
<1>1. IInv /\ Plain /\ PlainInv /\ [Next]_vars =>
         [\A id \in ToSet(messages) :
            /\ SegmentsOf(heap'[id].packets) = SegmentsOf(heap[id].packets)
            /\ UUID(heap'[id]) = UUID(heap[id])]_vars
  <2>. SUFFICES ASSUME IInv, Plain, PlainInv, Next, NEW id \in ToSet(messages)
                PROVE  heap'[id] = heap[id]
    OBVIOUS
  <2>1. id \in DOMAIN heap /\ id \in Emitted /\ id \notin Mapped
    BY AliveExists DEF Emitted, PlainInv, OnePlace
  <2>2. CASE Receive
    <3>1. PICK p : p = Head(packets)
      OBVIOUS
    <3>2. packets \in Seq(Packet) /\ packets # <<>> /\ p \in Packet
      BY <2>2, <3>1, HeadTailProperties DEF Receive, IInv
    <3>3. 1 \in DOMAIN packets /\ p = packets[1]
      BY <3>1, <3>2, SeqIsSeq, TailIsSeq
    <3>4. traffic[p.seg] > 0
      BY <3>3 DEF PlainInv, PlainQueue, OnWire
    <3>5. LetGo(p) \/ \E jd, ps : TakenInto(p, jd, ps)
      BY <2>2, <3>1, <3>2, <3>4, PlainProcessPacket DEF Receive
    <3>6. CASE LetGo(p)
      BY <2>1, <3>6 DEF LetGo
    <3>7. CASE \E jd, ps : TakenInto(p, jd, ps)
      <4>1. PICK jd, ps : TakenInto(p, jd, ps)
        BY <3>7
      <4>2. jd # id
        <5>1. CASE MessageID(p) \in DOMAIN m /\ jd = m[MessageID(p)]
          BY <2>1, <5>1 DEF Mapped
        <5>2. CASE jd = Len(heap) + 1
          <6>1. IsSeq(heap)
            BY DEF IInv, IsParser, IsHeap, Parser
          <6>2. Len(heap) \in Nat /\ DOMAIN heap = 1..Len(heap)
            BY <6>1, SeqParts
          <6>. QED BY <2>1, <5>2, <6>2
        <5>. QED BY <4>1, <5>1, <5>2 DEF TakenInto
      <4>. QED BY <2>1, <4>1, <4>2 DEF TakenInto
    <3>. QED BY <3>5, <3>6, <3>7
  <2>3. CASE MergeNext
    BY <2>3, NoMergePlain
  <2>4. CASE Send \/ Timer \/ TimerReturns
    BY <2>4 DEF Send, Timer, TimerReturns, SetParser, Call, Return, Parser
  <2>5. CASE ExpireOne
    BY <2>5, ExpireOneHeap
  <2>6. CASE Capture \/ PluginReader
    BY <2>6 DEF Capture, PacketHandler, PluginReader
  <2>7. CASE TimePasses
    <3>1. {j \in DOMAIN stack : stack[j].call = "Merge"} = {}
      BY DEF PlainInv, PlainStack
    <3>2. id \notin InProgress
      BY <2>1, <3>1 DEF InProgress, Mapped
    <3>. QED BY <2>1, <2>7, <3>2 DEF TimePasses
  <2>. QED BY <2>2, <2>3, <2>4, <2>5, <2>6, <2>7 DEF Next, Wait
<1>2. [](IInv /\ Plain /\ PlainInv) /\ [][Next]_vars => EmittedIsFinal
  BY <1>1, PTL DEF EmittedIsFinal
<1>. QED BY <1>2, PlainInvariance, PTL DEF Spec

\* The key that a packet of the segment has when it is captured
KeyOnWire(w) == MessageID([seg |-> w, ack |-> Segment[w].ack, age |-> 0])

\* The segments of one HTTP message have the same ports, addresses and Ack.
OneKey ==
    \A x \in DOMAIN Parts : \A v, w \in PartsOf(x) :
        traffic[v] > 0 /\ traffic[w] > 0 => KeyOnWire(v) = KeyOnWire(w)

\* When the segments of a message have the same ports, addresses and Ack, which is what
\* tcp/tcp_message.go:310 says of them, and no 100-continue changes it, the parser has
\* one object for the message while its segments wait for each other.
THEOREM PlainOneObject == Spec /\ Plain /\ OneKey => []OneObjectPerMessage
<1>1. IInv /\ Plain /\ PlainInv /\ OneKey => OneObjectPerMessage
  <2>. SUFFICES ASSUME IInv, PlainInv, OneKey,
                       NEW id \in Mapped, NEW jd \in Mapped, NEW x \in DOMAIN Parts,
                       PartsOf(x) \cap ToSet(SegmentsOf(heap[id].packets)) # {},
                       PartsOf(x) \cap ToSet(SegmentsOf(heap[jd].packets)) # {}
                PROVE  id = jd
    BY DEF OneObjectPerMessage
  <2>1. ASSUME NEW k \in DOMAIN m, PartsOf(x) \cap ToSet(SegmentsOf(heap[m[k]].packets)) # {}
        PROVE  \E v \in PartsOf(x) : traffic[v] > 0 /\ KeyOnWire(v) = k
    <3>1. PICK i \in DOMAIN heap[m[k]].packets : heap[m[k]].packets[i].seg \in PartsOf(x)
      BY <2>1 DEF SegmentsOf, ToSet
    <3>2. m[k] \in DOMAIN heap
      BY DEF IInv, IsParser, Parser
    <3>3. PICK p : p = heap[m[k]].packets[i]
      OBVIOUS
    <3>4. traffic[p.seg] > 0 /\ p.ack = Segment[p.seg].ack
      BY <3>2, <3>3 DEF PlainInv, PlainHeap, PlainMessage, OnWire
    <3>5. MessageID(p) = k
      BY <3>3 DEF PlainInv, Keyed, SameKey
    <3>6. KeyOnWire(p.seg) = MessageID(p)
      BY <3>4 DEF KeyOnWire, MessageID
    <3>. QED BY <3>1, <3>3, <3>4, <3>5, <3>6
  <2>2. PICK j \in DOMAIN m : id = m[j]
    BY DEF Mapped
  <2>3. PICK k \in DOMAIN m : jd = m[k]
    BY DEF Mapped
  <2>4. j = k
    BY <2>1, <2>2, <2>3 DEF OneKey
  <2>. QED BY <2>2, <2>3, <2>4
<1>2. OneKey /\ [Next]_vars => OneKey'
  <2>1. [Next]_vars => traffic' = traffic
    BY TrafficStays
  <2>. QED BY <2>1 DEF OneKey
<1>. QED BY <1>1, <1>2, PlainInvariance, PTL DEF Spec

-----------------------------------------------------------------------------
(* parse and the payload of a frame. *)

\* The lengths of the extension headers, as parse has them and by the protocol's rules.
ExtensionLens(f) == [i \in DOMAIN f.exts |-> ExtensionLen(f.exts[i])]
WireExtensionLens(f) == [i \in DOMAIN f.exts |-> WireExtensionLen(f.exts[i])]

LEMMA FrameTypes ==
    ASSUME NEW f \in FrameRecord
    PROVE  /\ f.exts \in Seq(Extension) /\ ~Known(f.transport) /\ f.ihl \in 0..15
           /\ f.captured \in Nat /\ f.data \in Nat /\ f.zero \in BOOLEAN
           /\ f.doff \in 0..15 /\ f.inner.doff \in 0..15 /\ f.inner.walk \in Outcome
           /\ f.doff \in Nat /\ f.ihl \in Nat /\ f.inner.doff \in Nat
<1>1. f.inner \in [doff : 0..15, zero : BOOLEAN, walk : Outcome]
  BY DEF FrameRecord
<1>2. f.transport \in {n \in 0..255 : ~Known(n)}
  BY DEF FrameRecord
<1>3. f.exts \in Seq(Extension) /\ f.ihl \in 0..15 /\ f.doff \in 0..15
  BY DEF FrameRecord
<1>4. f.captured \in Nat /\ f.data \in Nat /\ f.zero \in BOOLEAN
  BY DEF FrameRecord
<1>5. 0..15 \subseteq Nat
  OBVIOUS
<1>6. f.inner.doff \in 0..15 /\ f.inner.walk \in Outcome
  BY <1>1
<1>. QED BY <1>2, <1>3, <1>4, <1>5, <1>6

LEMMA ExtensionTypes ==
    ASSUME NEW f \in FrameRecord
    PROVE  /\ Len(f.exts) \in Nat /\ DOMAIN f.exts = 1..Len(f.exts) /\ f.exts \in Seq(Extension)
           /\ \A i \in DOMAIN f.exts : /\ f.exts[i] \in Extension
                                       /\ ExtensionLen(f.exts[i]) \in Nat
                                       /\ WireExtensionLen(f.exts[i]) \in Nat
<1>1. f.exts \in Seq(Extension)
  BY FrameTypes
<1>2. /\ Len(f.exts) \in Nat /\ DOMAIN f.exts = 1..Len(f.exts)
      /\ \A i \in DOMAIN f.exts : f.exts[i] \in Extension
  BY <1>1, LenProperties, ElementOfSeq
<1>3. ASSUME NEW e \in Extension
      PROVE  ExtensionLen(e) \in Nat /\ WireExtensionLen(e) \in Nat
  BY DEF Extension, ExtensionLen, WireExtensionLen
<1>. QED BY <1>1, <1>2, <1>3

\* Of the headers parse knows, it stands still at those of 2048 bytes, and has the length
\* of all others right.
LEMMA LongOrRight ==
    ASSUME NEW e \in Extension, Known(e.kind)
    PROVE  /\ WireExtensionLen(e) >= 8
           /\ StandsStill(e) <=> IsLong(e)
           /\ ~IsLong(e) => ExtensionLen(e) = WireExtensionLen(e)
           /\ IsLong(e) => ExtensionLen(e) = 0
<1>1. PICK u \in 0..255 : u = e.units
  BY DEF Extension
<1>2. CASE e.kind = Fragment
  <2>1. ExtensionLen(e) = 8 /\ WireExtensionLen(e) = 8
    BY <1>2 DEF ExtensionLen, WireExtensionLen
  <2>. QED BY <2>1 DEF StandsStill, IsLong
<1>3. CASE e.kind # Fragment
  <2>1. ExtensionLen(e) = ((u + 1) % 256) * 8 /\ WireExtensionLen(e) = (u + 1) * 8
    BY <1>1, <1>3 DEF ExtensionLen, WireExtensionLen, Known, Fragment
  <2>2. CASE u = 255
    <3>1. ExtensionLen(e) = 0 /\ WireExtensionLen(e) = 2048
      BY <2>1, <2>2
    <3>. QED BY <3>1 DEF StandsStill, IsLong
  <2>3. CASE u \in 0..254
    <3>1. (u + 1) % 256 = u + 1
      BY <2>3
    <3>2. ExtensionLen(e) = (u + 1) * 8 /\ (u + 1) * 8 >= 8 /\ (u + 1) * 8 # 2048
      BY <2>1, <2>3, <3>1
    <3>. QED BY <2>1, <3>2 DEF StandsStill, IsLong
  <2>. QED BY <2>2, <2>3
<1>. QED BY <1>2, <1>3

\* SkippedLen is the sum of the lengths.
LEMMA SkippedIsSum ==
    ASSUME NEW f \in FrameRecord, NEW n \in 0..Len(f.exts)
    PROVE  SkippedLen(f, n) = SumFunctionOnSet(ExtensionLens(f), 1..n)
<1>1. PICK q : q = SubSeq(f.exts, 1, n)
  OBVIOUS
<1>2. PICK c : c = CHOOSE g : g = [s \in SUBSET DOMAIN q |->
                                IF s = {} THEN 0 ELSE g[s \ {Max(s)}] + ExtensionLen(q[Max(s)])]
  OBVIOUS
<1>3. SkippedLen(f, n) = c[DOMAIN q]
  BY <1>1, <1>2 DEF SkippedLen, FoldLeft, MapThenFoldSet
<1>4. PICK h : h = ExtensionLens(f)
  OBVIOUS
<1>5. n \in Nat /\ \A i \in 1..n : h[i] = ExtensionLen(f.exts[i]) /\ h[i] \in Nat
  BY <1>4, ExtensionTypes DEF ExtensionLens
<1>6. DOMAIN q = 1..n /\ \A i \in 1..n : q[i] = f.exts[i]
  BY <1>1, SplitParts, ExtensionTypes, LenProperties
<1>7. \A s \in SUBSET (1..n) : s # {} => ExtensionLen(q[Max(s)]) = h[Max(s)]
  <2>1. ASSUME NEW s \in SUBSET (1..n), s # {} PROVE ExtensionLen(q[Max(s)]) = h[Max(s)]
    <3>1. PICK k : k = Max(s)
      OBVIOUS
    <3>2. k \in 1..n
      BY <1>5, <2>1, <3>1, LastIndex
    <3>. QED BY <1>5, <1>6, <3>1, <3>2
  <2>. QED BY <2>1
<1>8. ASSUME NEW g
      PROVE  (g = [s \in SUBSET DOMAIN q |->
                      IF s = {} THEN 0 ELSE g[s \ {Max(s)}] + ExtensionLen(q[Max(s)])])
             <=> AddsUp(h, n, g)
  <2>1. [s \in SUBSET DOMAIN q |->
            IF s = {} THEN 0 ELSE g[s \ {Max(s)}] + ExtensionLen(q[Max(s)])]
        = [s \in SUBSET (1..n) |-> IF s = {} THEN 0 ELSE g[s \ {Max(s)}] + h[Max(s)]]
    BY <1>6, <1>7
  <2>. QED BY <2>1 DEF AddsUp
<1>9. c = CHOOSE g : AddsUp(h, n, g)
  BY <1>2, <1>8
<1>. QED BY <1>3, <1>4, <1>5, <1>6, <1>9, ChosenAddsUp

\* And the sum in HeaderLen is that of the lengths by the protocol's rules.
LEMMA WireIsSum ==
    ASSUME NEW f \in FrameRecord
    PROVE  HeaderLen(f) = 4 * f.doff + IF f.version = 4 THEN 4 * f.ihl
                          ELSE 40 + SumFunctionOnSet(WireExtensionLens(f), 1..Len(f.exts))
<1>1. PICK q : q = f.exts
  OBVIOUS
<1>2. PICK c : c = CHOOSE g : g = [s \in SUBSET DOMAIN q |->
                           IF s = {} THEN 0 ELSE g[s \ {Max(s)}] + WireExtensionLen(q[Max(s)])]
  OBVIOUS
<1>3. HeaderLen(f) = 4 * f.doff + IF f.version = 4 THEN 4 * f.ihl ELSE 40 + c[DOMAIN q]
  BY <1>1, <1>2 DEF HeaderLen, FoldLeft, MapThenFoldSet
<1>4. PICK h, n : h = WireExtensionLens(f) /\ n = Len(f.exts)
  OBVIOUS
<1>5. /\ n \in Nat /\ DOMAIN q = 1..n
      /\ \A i \in 1..n : h[i] = WireExtensionLen(q[i]) /\ h[i] \in Nat
  BY <1>1, <1>4, ExtensionTypes DEF WireExtensionLens
<1>7. \A s \in SUBSET (1..n) : s # {} => WireExtensionLen(q[Max(s)]) = h[Max(s)]
  <2>1. ASSUME NEW s \in SUBSET (1..n), s # {} PROVE WireExtensionLen(q[Max(s)]) = h[Max(s)]
    <3>1. PICK k : k = Max(s)
      OBVIOUS
    <3>2. k \in 1..n
      BY <1>5, <2>1, <3>1, LastIndex
    <3>. QED BY <1>5, <3>1, <3>2
  <2>. QED BY <2>1
<1>8. ASSUME NEW g
      PROVE  (g = [s \in SUBSET DOMAIN q |->
                      IF s = {} THEN 0 ELSE g[s \ {Max(s)}] + WireExtensionLen(q[Max(s)])])
             <=> AddsUp(h, n, g)
  <2>1. [s \in SUBSET DOMAIN q |->
            IF s = {} THEN 0 ELSE g[s \ {Max(s)}] + WireExtensionLen(q[Max(s)])]
        = [s \in SUBSET (1..n) |-> IF s = {} THEN 0 ELSE g[s \ {Max(s)}] + h[Max(s)]]
    BY <1>5, <1>7
  <2>. QED BY <2>1 DEF AddsUp
<1>9. c = CHOOSE g : AddsUp(h, n, g)
  BY <1>2, <1>8
<1>10. c[DOMAIN q] = SumFunctionOnSet(h, 1..n)
  BY <1>5, <1>9, ChosenAddsUp
<1>. QED BY <1>3, <1>4, <1>10

-----------------------------------------------------------------------------
\* A frame whose headers are captured whole. IPv6 has an extension header only for
\* what is no transport protocol.
WellFormed(f) ==
    /\ f.transport = TCP => f.doff >= 5 /\ f.captured >= HeaderLen(f)
    /\ \/ f.version = 4 /\ f.ihl >= 5 /\ f.exts = <<>>
       \/ f.version = 6 /\ \A i \in DOMAIN f.exts : f.exts[i].kind # TCP

\* Which extension headers parse reads: all, those up to one of 2048 bytes, or those
\* before one that it does not know.
LEMMA SkippedType ==
    ASSUME NEW f \in FrameRecord
    PROVE  \/ /\ \A i \in DOMAIN f.exts : Known(f.exts[i].kind) /\ ~IsLong(f.exts[i])
              /\ Skipped(f) = f.exts
           \/ \E k \in DOMAIN f.exts :
                 /\ \A i \in 1..(k - 1) : Known(f.exts[i].kind) /\ ~IsLong(f.exts[i])
                 /\ \/ IsLong(f.exts[k]) /\ Skipped(f) = SubSeq(f.exts, 1, k) /\ Len(Skipped(f)) = k
                    \/ /\ ~Known(f.exts[k].kind)
                       /\ Skipped(f) = SubSeq(f.exts, 1, k - 1) /\ Len(Skipped(f)) = k - 1
<1>. DEFINE Test(e) == ~Known(e.kind) \/ StandsStill(e)
            I == {i \in 1..Len(f.exts) : Test(f.exts[i])}
            last == IF I # {} THEN Min(I) ELSE 0
<1>1. Skipped(f) = IF last = 0 THEN f.exts
                   ELSE SubSeq(f.exts, 1, IF StandsStill(f.exts[last]) THEN last ELSE last - 1)
  BY DEF Skipped, SelectInSeq
<1>2. /\ Len(f.exts) \in Nat /\ DOMAIN f.exts = 1..Len(f.exts) /\ f.exts \in Seq(Extension)
      /\ \A i \in DOMAIN f.exts : f.exts[i] \in Extension
  BY ExtensionTypes
<1>3. \A i \in DOMAIN f.exts : Test(f.exts[i]) <=> (~Known(f.exts[i].kind) \/ IsLong(f.exts[i]))
  BY <1>2, LongOrRight
<1>4. CASE I = {}
  <2>1. \A i \in DOMAIN f.exts : ~Test(f.exts[i])
    BY <1>2, <1>4
  <2>2. Skipped(f) = f.exts
    BY <1>1, <1>4
  <2>. QED BY <1>3, <2>1, <2>2
<1>5. CASE I # {}
  <2>1. I \in SUBSET Nat /\ \A i \in DOMAIN f.exts : i \in I <=> Test(f.exts[i])
    BY <1>2
  <2>2. I \subseteq DOMAIN f.exts
    BY <1>2
  <2>3. last = Min(I)
    BY <1>5
  <2>. HIDE DEF I, last, Test
  <2>4. PICK k \in I : \A j \in I : k <= j
    BY <1>5, <2>1, LeastNumber
  <2>5. Min(I) \in I /\ \A j \in I : Min(I) <= j
    BY <2>4 DEF Min
  <2>6. PICK n : n = Min(I)
    OBVIOUS
  <2>7. n \in DOMAIN f.exts /\ n \in 1..Len(f.exts) /\ n # 0 /\ Test(f.exts[n])
    <3>1. n \in DOMAIN f.exts /\ Test(f.exts[n])
      BY <2>1, <2>2, <2>5, <2>6, Zenon
    <3>. QED BY <1>2, <3>1
  <2>8. ASSUME NEW i \in 1..(n - 1) PROVE Known(f.exts[i].kind) /\ ~IsLong(f.exts[i])
    <3>1. i \in DOMAIN f.exts /\ ~(n <= i)
      BY <1>2, <2>7
    <3>2. i \notin I
      BY <2>5, <2>6, <3>1
    <3>. QED BY <1>3, <2>1, <3>1, <3>2
  <2>9. CASE StandsStill(f.exts[n])
    <3>1. IsLong(f.exts[n])
      BY <1>2, <2>7, <2>9, LongOrRight DEF StandsStill
    <3>2. Skipped(f) = SubSeq(f.exts, 1, n)
      BY <1>1, <2>3, <2>6, <2>7, <2>9
    <3>3. Len(Skipped(f)) = n
      BY <1>2, <2>7, <3>2, SplitParts
    <3>. QED BY <2>7, <2>8, <3>1, <3>2, <3>3
  <2>10. CASE ~StandsStill(f.exts[n])
    <3>1. ~Known(f.exts[n].kind)
      BY <2>7, <2>10 DEF Test
    <3>2. Skipped(f) = SubSeq(f.exts, 1, n - 1)
      BY <1>1, <2>3, <2>6, <2>7, <2>10
    <3>3. n - 1 \in 0..Len(f.exts)
      BY <1>2, <2>7
    <3>4. Len(Skipped(f)) = n - 1
      BY <1>2, <3>2, <3>3, SplitParts
    <3>. QED BY <2>7, <2>8, <3>1, <3>2, <3>4
  <2>. QED BY <2>9, <2>10
<1>. QED BY <1>4, <1>5

\* A frame that is not to be read has an error.
LEMMA UnreadableIsError ==
    ASSUME NEW f \in FrameRecord, WellFormed(f), ~HasLongHeader(f),
           ~(f.transport = TCP /\ \A i \in DOMAIN f.exts : Known(f.exts[i].kind))
    PROVE  Protocol(f) # TCP /\ ~Known(Protocol(f))
<1>1. Len(f.exts) \in Nat /\ DOMAIN f.exts = 1..Len(f.exts) /\ ~Known(f.transport)
  BY ExtensionTypes, FrameTypes
<1>2. CASE f.version = 4
  <2>1. f.exts = <<>> /\ Protocol(f) = f.transport
    BY <1>2 DEF WellFormed, Protocol
  <2>2. DOMAIN f.exts = {}
    BY <2>1, EmptySeq, LenProperties
  <2>. QED BY <1>1, <2>1, <2>2
<1>3. CASE f.version = 6
  <2>1. \A i \in DOMAIN f.exts : f.exts[i].kind # TCP /\ ~IsLong(f.exts[i])
    BY <1>3 DEF WellFormed, HasLongHeader
  <2>2. CASE (\A i \in DOMAIN f.exts : Known(f.exts[i].kind)) /\ Skipped(f) = f.exts
    BY <1>1, <2>2 DEF Protocol
  <2>3. CASE \E k \in DOMAIN f.exts : ~Known(f.exts[k].kind) /\ Len(Skipped(f)) = k - 1
    <3>1. PICK k \in DOMAIN f.exts : ~Known(f.exts[k].kind) /\ Len(Skipped(f)) = k - 1
      BY <2>3
    <3>2. Len(Skipped(f)) # Len(f.exts) /\ Len(Skipped(f)) + 1 = k
      BY <1>1, <3>1
    <3>3. Protocol(f) = f.exts[k].kind
      BY <1>3, <3>2 DEF Protocol
    <3>. QED BY <2>1, <3>1, <3>3
  <2>. QED BY <2>1, <2>2, <2>3, SkippedType
<1>. QED BY <1>2, <1>3 DEF WellFormed

\* A header is there when parse comes to it by lengths that are right.
LEMMA HeaderIsThere ==
    ASSUME NEW f \in FrameRecord, WellFormed(f), f.transport = TCP, f.version = 6,
           NEW k \in DOMAIN f.exts, Known(f.exts[k].kind),
           \A i \in 1..(k - 1) : Known(f.exts[i].kind) /\ ~IsLong(f.exts[i])
    PROVE  /\ SkippedLen(f, k - 1) \in Nat /\ f.captured \in Nat /\ f.captured >= 40
           /\ 40 + SkippedLen(f, k - 1) + WireExtensionLen(f.exts[k]) + 4 * f.doff <= HeaderLen(f)
           /\ f.captured - (40 + SkippedLen(f, k - 1)) >= (IF ExtensionLen(f.exts[k]) > 8
                                                           THEN ExtensionLen(f.exts[k]) ELSE 8)
<1>1. PICK h, g, n : h = ExtensionLens(f) /\ g = WireExtensionLens(f) /\ n = Len(f.exts)
  OBVIOUS
<1>2. /\ n \in Nat /\ DOMAIN f.exts = 1..n
      /\ \A i \in 1..n : /\ h[i] = ExtensionLen(f.exts[i]) /\ h[i] \in Nat
                         /\ g[i] = WireExtensionLen(f.exts[i]) /\ g[i] \in Nat
                         /\ f.exts[i] \in Extension
  BY <1>1, ExtensionTypes DEF ExtensionLens, WireExtensionLens
<1>3. /\ k \in 1..n /\ k - 1 \in 0..n /\ 1..(k - 1) \subseteq 1..n /\ 1..k \subseteq 1..n
      /\ (1..k) \ {k} = 1..(k - 1) /\ k \in 1..k
  BY <1>2
<1>4. IsFiniteSet(1..n) /\ IsFiniteSet(1..k) /\ IsFiniteSet(1..(k - 1))
  BY <1>2, <1>3, FS_Interval, FS_Subset
<1>5. \A i \in 1..(k - 1) : h[i] = g[i]
  BY <1>2, <1>3, LongOrRight
<1>6. SkippedLen(f, k - 1) = SumFunctionOnSet(g, 1..(k - 1))
  <2>1. SkippedLen(f, k - 1) = SumFunctionOnSet(h, 1..(k - 1))
    BY <1>1, <1>3, SkippedIsSum
  <2>. QED BY <1>4, <1>5, <2>1, SumSame
<1>7. SumFunctionOnSet(g, 1..(k - 1)) \in Nat /\ SumFunctionOnSet(g, 1..n) \in Nat
  BY <1>2, <1>3, <1>4, SumType
<1>8. SumFunctionOnSet(g, 1..k) = g[k] + SumFunctionOnSet(g, 1..(k - 1))
  <2>1. \A i \in 1..k : g[i] \in Nat
    BY <1>2, <1>3
  <2>2. PICK u : u = 1..k
    OBVIOUS
  <2>3. IsFiniteSet(u) /\ k \in u /\ \A i \in u : g[i] \in Nat
    BY <1>3, <1>4, <2>1, <2>2
  <2>4. SumFunctionOnSet(g, u) = g[k] + SumFunctionOnSet(g, u \ {k})
    BY <2>3, SumTakeOff
  <2>. QED BY <1>3, <2>2, <2>4, Zenon
<1>9. SumFunctionOnSet(g, 1..k) <= SumFunctionOnSet(g, 1..n)
  BY <1>2, <1>3, <1>4, SumSubset
<1>10. HeaderLen(f) = 4 * f.doff + (40 + SumFunctionOnSet(g, 1..n))
  BY <1>1, WireIsSum
<1>11. PICK b, c, a, t, d, x :
          /\ b = SkippedLen(f, k - 1) /\ c = WireExtensionLen(f.exts[k])
          /\ a = SumFunctionOnSet(g, 1..n) /\ t = f.captured /\ d = f.doff
          /\ x = ExtensionLen(f.exts[k])
  OBVIOUS
<1>17. t \in Nat /\ d \in Nat
  BY <1>11, FrameTypes
<1>18. a \in Nat /\ b \in Nat
  BY <1>6, <1>7, <1>11
<1>19. c \in Nat /\ x \in Nat
  BY <1>2, <1>3, <1>11
<1>12. b + c <= a
  <2>1. g[k] = c /\ SumFunctionOnSet(g, 1..(k - 1)) = b
    BY <1>2, <1>3, <1>6, <1>11
  <2>2. SumFunctionOnSet(g, 1..k) = c + b
    BY <1>8, <2>1
  <2>3. c + b <= a
    BY <1>9, <1>11, <2>2
  <2>. QED BY ONLY <1>18, <1>19, <2>3
<1>13. t >= 4 * d + (40 + a)
  BY <1>10, <1>11 DEF WellFormed
<1>14. c >= 8 /\ (x = c \/ x = 0)
  BY <1>2, <1>3, <1>11, LongOrRight
<1>15. t - (40 + b) >= (IF x > 8 THEN x ELSE 8) /\ t >= 40
  BY ONLY <1>12, <1>13, <1>14, <1>17, <1>18, <1>19
<1>16. 40 + b + c + 4 * d <= 4 * d + (40 + a)
  BY ONLY <1>12, <1>17, <1>18, <1>19
<1>. QED BY <1>10, <1>11, <1>15, <1>16, <1>17, <1>18, Zenon

\* What is stepped over is what the protocol's rules step over.
LEMMA ReadableHeaders ==
    ASSUME NEW f \in FrameRecord, WellFormed(f), f.transport = TCP, ~HasLongHeader(f),
           \A i \in DOMAIN f.exts : Known(f.exts[i].kind)
    PROVE  /\ NetworkLen(f) \in Nat
           /\ HeaderLen(f) = 4 * f.doff + NetworkLen(f)
           /\ NetworkThere(f) /\ ~Misplaced(f)
           /\ Protocol(f) = TCP
<1>1. /\ Len(f.exts) \in Nat /\ DOMAIN f.exts = 1..Len(f.exts)
      /\ f.doff \in Nat /\ f.ihl \in Nat /\ f.captured \in Nat
      /\ f.doff >= 5 /\ f.captured >= HeaderLen(f)
      /\ \A i \in DOMAIN f.exts : /\ f.exts[i] \in Extension /\ Known(f.exts[i].kind)
                                  /\ ~IsLong(f.exts[i])
  BY ExtensionTypes, FrameTypes, SMTT(30) DEF WellFormed, HasLongHeader
<1>2. Skipped(f) = f.exts
  BY <1>1, SkippedType
<1>3. Protocol(f) = TCP /\ ~Misplaced(f)
  BY <1>1, <1>2, LongOrRight DEF Protocol, Misplaced
<1>4. CASE f.version = 4
  <2>1. NetworkLen(f) = 4 * f.ihl /\ HeaderLen(f) = 4 * f.doff + 4 * f.ihl /\ f.ihl >= 5
    BY <1>4, WireIsSum DEF NetworkLen, WellFormed
  <2>2. 4 * f.ihl \in Nat /\ f.captured >= 20 /\ f.captured >= 4 * f.ihl
    BY <1>1, <2>1
  <2>. QED BY <1>3, <1>4, <2>1, <2>2 DEF NetworkThere
<1>5. CASE f.version = 6
  <2>1. PICK h, n : h = ExtensionLens(f) /\ n = Len(f.exts)
    OBVIOUS
  <2>2. n \in Nat /\ DOMAIN f.exts = 1..n /\ \A i \in 1..n : h[i] \in Nat
    BY <1>1, <2>1, ExtensionTypes DEF ExtensionLens
  <2>3. WireExtensionLens(f) = h
    <3>1. \A i \in DOMAIN f.exts : WireExtensionLen(f.exts[i]) = ExtensionLen(f.exts[i])
      BY <1>1, LongOrRight
    <3>. QED BY <2>1, <3>1 DEF WireExtensionLens, ExtensionLens
  <2>4. PICK a : a = SumFunctionOnSet(h, 1..n)
    OBVIOUS
  <2>5. a \in Nat
    <3>1. IsFiniteSet(1..n)
      BY <2>2, FS_Interval
    <3>. QED BY <2>2, <2>4, <3>1, SumType
  <2>6. HeaderLen(f) = 4 * f.doff + (40 + a)
    BY <1>5, <2>1, <2>3, <2>4, WireIsSum
  <2>7. NetworkLen(f) = 40 + a
    <3>1. n \in 0..Len(f.exts)
      BY <2>1, <2>2
    <3>2. SkippedLen(f, n) = a
      BY <2>1, <2>4, <3>1, SkippedIsSum
    <3>. QED BY <1>2, <1>5, <2>1, <3>2 DEF NetworkLen
  <2>8. ASSUME NEW k \in DOMAIN f.exts
        PROVE  f.captured - (40 + SkippedLen(f, k - 1)) >= (IF ExtensionLen(f.exts[k]) > 8
                                                           THEN ExtensionLen(f.exts[k]) ELSE 8)
    <3>1. 1..(k - 1) \subseteq DOMAIN f.exts
      BY <1>1
    <3>. QED BY <1>1, <1>5, <3>1, HeaderIsThere
  <2>9. ExtensionsThere(f)
    BY <1>2, <2>8 DEF ExtensionsThere
  <2>10. f.captured >= 40 /\ 40 + a \in Nat
    BY <1>1, <2>5, <2>6
  <2>. QED BY <1>3, <1>5, <2>6, <2>7, <2>9, <2>10 DEF NetworkThere
<1>. QED BY <1>4, <1>5 DEF WellFormed

\* How much of payload and padding was captured, after headers that were captured whole.
LEMMA CapturedParts ==
    ASSUME NEW t \in Nat, NEW n \in Nat, t >= n, NEW f \in FrameRecord,
           t = f.captured, n = HeaderLen(f)
    PROVE  /\ CapturedData(f) \in Nat /\ CapturedPadding(f) \in Nat
           /\ CapturedData(f) + CapturedPadding(f) = t - n
           /\ (f.data = 0 \/ t - n = 0) <=> CapturedData(f) = 0
<1>1. PICK a \in Nat, r \in Nat : a = f.data /\ r = t - n
  BY FrameTypes
<1>2. CapturedData(f) = IF r > a THEN a ELSE r
  BY <1>1 DEF CapturedData
<1>3. CapturedPadding(f) = IF r > a THEN r - a ELSE 0
  BY <1>1 DEF CapturedPadding
<1>4. CASE r > a
  BY <1>1, <1>2, <1>3, <1>4
<1>5. CASE ~(r > a)
  BY <1>1, <1>2, <1>3, <1>5
<1>. QED BY <1>4, <1>5

\* parse finds the payload of every frame that is well formed, unless the frame has an
\* extension header of 2048 bytes.
THEOREM ParseFindsPayload ==
    ASSUME NEW f \in FrameRecord, WellFormed(f), ~HasLongHeader(f)
    PROVE  ParsePacket(f) =
              IF ~(f.transport = TCP /\ \A i \in DOMAIN f.exts : Known(f.exts[i].kind))
              THEN [result |-> "error", len |-> 0]
              ELSE [result |-> IF f.zero \/ CapturedData(f) = 0 THEN "empty" ELSE "packet",
                    len    |-> CapturedData(f) + CapturedPadding(f)]
<1>1. CASE ~(f.transport = TCP /\ \A i \in DOMAIN f.exts : Known(f.exts[i].kind))
  <2>1. Protocol(f) # TCP /\ ~Known(Protocol(f))
    BY <1>1, UnreadableIsError
  <2>2. ParsePacket(f) = ParseTransport(f)
    BY <2>1 DEF ParsePacket, Known
  <2>. QED BY <1>1, <2>1, <2>2 DEF ParseTransport, TransportThere
<1>2. CASE f.transport = TCP /\ \A i \in DOMAIN f.exts : Known(f.exts[i].kind)
  <2>1. /\ NetworkLen(f) \in Nat /\ HeaderLen(f) = 4 * f.doff + NetworkLen(f)
        /\ NetworkThere(f) /\ Protocol(f) = TCP /\ ~Misplaced(f)
    BY <1>2, ReadableHeaders
  <2>2. ParsePacket(f) = ParseTransport(f)
    BY <2>1 DEF ParsePacket, Known, TCP, Fragment
  <2>3. PICK t, d, n : t = f.captured /\ d = f.doff /\ n = NetworkLen(f)
    OBVIOUS
  <2>4. t \in Nat /\ d \in Nat /\ n \in Nat /\ d >= 5 /\ t >= 4 * d + n
    BY <1>2, <2>1, <2>3, FrameTypes DEF WellFormed
  <2>5. DataOffset(f) = d /\ PayloadLen(f) = t - n - 4 * d /\ SegmentLen(f) = t - n
    BY <2>1, <2>3 DEF PayloadLen, SegmentLen, DataOffset
  <2>6. TransportThere(f)
    BY <2>1, <2>4, <2>5 DEF TransportThere
  <2>7. HeaderLen(f) = 4 * d + n /\ 4 * d + n \in Nat /\ t - (4 * d + n) = t - n - 4 * d
    BY <2>1, <2>3, <2>4
  <2>8. /\ CapturedData(f) + CapturedPadding(f) = t - (4 * d + n)
        /\ (f.data = 0 \/ t - (4 * d + n) = 0) <=> CapturedData(f) = 0
    BY <2>3, <2>4, <2>7, CapturedParts
  <2>9. PayloadLen(f) = CapturedData(f) + CapturedPadding(f)
    BY <2>5, <2>7, <2>8
  <2>10. AllZero(f) <=> f.zero \/ CapturedData(f) = 0
    BY <2>1, <2>5, <2>7, <2>8 DEF AllZero
  <2>. QED BY <1>2, <2>1, <2>2, <2>6, <2>9, <2>10 DEF ParseTransport
<1>. QED BY <1>1, <1>2

\* An extension header of 2048 bytes is not stepped over. When a header of a variable
\* length follows it, parse never returns; when the TCP header does, what parse takes for
\* the payload, if anything, begins before the payload: still within the extension header.
THEOREM LongHeaderIsMisread ==
    ASSUME NEW f \in FrameRecord, WellFormed(f), f.transport = TCP, f.version = 6,
           NEW k \in DOMAIN f.exts, IsLong(f.exts[k]),
           \A i \in 1..(k - 1) : Known(f.exts[i].kind) /\ ~IsLong(f.exts[i])
    PROVE  /\ k < Len(f.exts) /\ f.exts[k + 1].kind \in {0, 43} =>
                 ParsePacket(f).result = "endless"
           /\ k = Len(f.exts) =>
                 \/ ParsePacket(f) = [result |-> "error", len |-> 0]
                 \/ ParsePacket(f).len > CapturedData(f) + CapturedPadding(f) + 2000
<1>1. /\ Len(f.exts) \in Nat /\ DOMAIN f.exts = 1..Len(f.exts) /\ k \in 1..Len(f.exts)
      /\ f.exts \in Seq(Extension) /\ \A i \in DOMAIN f.exts : f.exts[i] \in Extension
  BY ExtensionTypes
<1>2. Known(f.exts[k].kind) /\ StandsStill(f.exts[k]) /\ ExtensionLen(f.exts[k]) = 0
      /\ WireExtensionLen(f.exts[k]) = 2048
  BY <1>1, LongOrRight DEF IsLong
<1>3. Skipped(f) = SubSeq(f.exts, 1, k) /\ Len(Skipped(f)) = k
  <2>1. CASE \A i \in DOMAIN f.exts : ~IsLong(f.exts[i])
    BY <2>1
  <2>2. CASE \E j \in DOMAIN f.exts :
                 /\ \A i \in 1..(j - 1) : Known(f.exts[i].kind) /\ ~IsLong(f.exts[i])
                 /\ \/ IsLong(f.exts[j]) /\ Skipped(f) = SubSeq(f.exts, 1, j) /\ Len(Skipped(f)) = j
                    \/ ~Known(f.exts[j].kind)
    <3>1. PICK j \in DOMAIN f.exts :
                 /\ \A i \in 1..(j - 1) : Known(f.exts[i].kind) /\ ~IsLong(f.exts[i])
                 /\ \/ IsLong(f.exts[j]) /\ Skipped(f) = SubSeq(f.exts, 1, j) /\ Len(Skipped(f)) = j
                    \/ ~Known(f.exts[j].kind)
      BY <2>2
    <3>2. j \notin 1..(k - 1)
      BY <3>1
    <3>3. k \notin 1..(j - 1)
      BY <3>1
    <3>4. j = k
      BY <1>1, <3>1, <3>2, <3>3
    <3>. QED BY <1>2, <3>1, <3>4
  <2>. QED BY <2>1, <2>2, SkippedType
<1>4. NetworkThere(f)
  <2>1. ASSUME NEW n \in DOMAIN Skipped(f)
        PROVE  f.captured - (40 + SkippedLen(f, n - 1)) >= (IF ExtensionLen(f.exts[n]) > 8
                                                           THEN ExtensionLen(f.exts[n]) ELSE 8)
    <3>1. n \in 1..k
      BY <1>1, <1>3, SplitParts, LenProperties
    <3>2. n \in DOMAIN f.exts /\ 1..(n - 1) \subseteq 1..(k - 1) /\ (n = k \/ n \in 1..(k - 1))
      BY <1>1, <3>1
    <3>3. Known(f.exts[n].kind)
      BY <1>2, <3>2
    <3>. QED BY <3>2, <3>3, HeaderIsThere
  <2>2. f.captured >= 40
    BY <1>2, HeaderIsThere
  <2>. QED BY <2>1, <2>2 DEF NetworkThere, ExtensionsThere
<1>5. ASSUME k < Len(f.exts), f.exts[k + 1].kind \in {0, 43}
      PROVE  ParsePacket(f).result = "endless"
  <2>1. Protocol(f) = f.exts[k + 1].kind
    BY <1>1, <1>3, <1>5 DEF Protocol
  <2>. QED BY <1>4, <1>5, <2>1 DEF ParsePacket, Known, Fragment
<1>6. ASSUME k = Len(f.exts)
      PROVE  \/ ParsePacket(f) = [result |-> "error", len |-> 0]
             \/ ParsePacket(f).len > CapturedData(f) + CapturedPadding(f) + 2000
  <2>1. Protocol(f) = TCP
    BY <1>3, <1>6 DEF Protocol
  <2>2. ParsePacket(f) = ParseTransport(f)
    BY <2>1 DEF ParsePacket, Known, TCP, Fragment
  <2>3. Misplaced(f)
    <3>1. k \in DOMAIN Skipped(f)
      BY <1>1, <1>3, SplitParts, LenProperties
    <3>. QED BY <1>2, <3>1 DEF Misplaced
  <2>4. PICK b, t, d, x, hl :
           /\ b = SkippedLen(f, k - 1) /\ t = f.captured /\ d = f.doff /\ x = f.inner.doff
           /\ hl = HeaderLen(f)
    OBVIOUS
  <2>10. /\ b \in Nat /\ t \in Nat /\ d \in Nat /\ x \in 0..15 /\ hl \in Nat
         /\ 40 + b + 2048 + 4 * d <= hl /\ d >= 5 /\ t >= hl
    <3>1. /\ SkippedLen(f, k - 1) \in Nat /\ f.captured \in Nat
          /\ 40 + SkippedLen(f, k - 1) + 2048 + 4 * f.doff <= HeaderLen(f)
      BY <1>2, HeaderIsThere
    <3>2. f.doff \in Nat /\ f.inner.doff \in 0..15 /\ f.doff >= 5 /\ f.captured >= HeaderLen(f)
      BY FrameTypes DEF WellFormed
    <3>3. HeaderLen(f) \in Nat
      <4>1. SumFunctionOnSet(WireExtensionLens(f), 1..Len(f.exts)) \in Nat
        <5>1. IsFiniteSet(1..Len(f.exts))
          BY <1>1, FS_Interval
        <5>2. \A i \in 1..Len(f.exts) : WireExtensionLens(f)[i] \in Nat
          BY <1>1, ExtensionTypes DEF WireExtensionLens
        <5>. QED BY <5>1, <5>2, SumType
      <4>. QED BY <3>2, <4>1, WireIsSum
    <3>4. b \in Nat /\ t \in Nat /\ 40 + b + 2048 + 4 * d <= hl
      BY <2>4, <3>1
    <3>5. d \in Nat /\ x \in 0..15 /\ d >= 5 /\ t >= hl
      BY <2>4, <3>2, Zenon
    <3>6. hl \in Nat
      BY <2>4, <3>3, Zenon
    <3>. QED BY <3>4, <3>5, <3>6
  <2>5. SkippedLen(f, k) = b
    <3>1. PICK h : h = ExtensionLens(f)
      OBVIOUS
    <3>2. \A i \in 1..k : h[i] \in Nat /\ h[k] = 0
      BY <1>1, <1>2, <3>1, ExtensionTypes DEF ExtensionLens
    <3>3. SkippedLen(f, k) = SumFunctionOnSet(h, 1..k)
      BY <1>1, <3>1, SkippedIsSum
    <3>9. k \in Int /\ 1 \in Int
      BY <1>1
    <3>10. IsFiniteSet(1..k)
      BY <3>9, FS_Interval
    <3>4. k - 1 \in 0..Len(f.exts) /\ (1..k) \ {k} = 1..(k - 1) /\ k \in 1..k
      BY <1>1
    <3>5. b = SumFunctionOnSet(h, 1..(k - 1))
      BY <2>4, <3>1, <3>4, SkippedIsSum
    <3>6. PICK u : u = 1..k
      OBVIOUS
    <3>11. IsFiniteSet(u) /\ k \in u /\ h[k] = 0 /\ \A i \in u : h[i] \in Nat
      BY <3>2, <3>4, <3>6, <3>10
    <3>7. SumFunctionOnSet(h, u) = h[k] + SumFunctionOnSet(h, u \ {k})
      BY <3>11, SumTakeOff
    <3>8. SkippedLen(f, k) = 0 + b
      BY <3>3, <3>4, <3>5, <3>6, <3>7, <3>11, Zenon
    <3>. QED BY <2>10, <3>8
  <2>6. NetworkLen(f) = 40 + b
    <3>1. SkippedLen(f, Len(Skipped(f))) = b
      BY <1>3, <2>5, Zenon
    <3>. QED BY <3>1 DEF NetworkLen
  <2>7. PayloadLen(f) = t - (40 + b) - 4 * x
    BY <2>3, <2>4, <2>6 DEF PayloadLen, SegmentLen, DataOffset
  <2>8. CapturedData(f) + CapturedPadding(f) = t - hl
    BY <2>4, <2>10, CapturedParts
  <2>9. PayloadLen(f) > CapturedData(f) + CapturedPadding(f) + 2000
    BY <2>7, <2>8, <2>10
  <2>. QED BY <2>2, <2>9 DEF ParseTransport
<1>. QED BY <1>5, <1>6

\* PayloadFound, for traffic of well-formed frames.
THEOREM PayloadIsFound ==
    ASSUME \A w \in Wire : WellFormed(Segment[w].frame)
    PROVE  Spec => []PayloadFound
<1>1. ASSUME NEW w \in Wire
      PROVE  Segment[w].frame \in FrameRecord /\ Parsed[w] = ParsePacket(Segment[w].frame)
  BY WireAssumption DEF SegmentRecord, Parsed
<1>2. PayloadFound
  BY <1>1, ParseFindsPayload DEF PayloadFound
<1>. QED BY <1>2, PTL
-----------------------------------------------------------------------------
(* Messages that are framed by their own headers.                            *)

PayloadRecord ==
    [len : Nat, title : Titles, hend : Nat, clen : Nat, framing : Framings,
     expect : BOOLEAN, tail : Tails]

\* Where the body begins in the payloads ps of a message, and its length.
BodyStart(ps) == BytesUpTo(ps, HeaderEndIn(ps) - 1) + ps[HeaderEndIn(ps)].hend
BodyLen(ps) == BytesUpTo(ps, Len(ps)) - BodyStart(ps)

\* The payloads with headers, up to the one in which the body begins.
HeadersIn(ps) == 1..HeaderEndIn(ps)

IsChunked(ps) == \E i \in HeadersIn(ps) : ps[i].framing # "none"
HasTrailer(ps) ==
    \E i \in HeadersIn(ps) :
        /\ ps[i].framing = "trailer"
        /\ \A j \in HeadersIn(ps) : j > i => ps[j].framing = "none"
Closing(ps) == IF HasTrailer(ps) THEN {"last", "blank"} ELSE {"last"}

\* The length of the body is in the headers; there may be none when there is no body.
FramedByLength(ps) ==
    /\ ~IsChunked(ps)
    /\ \A i \in HeadersIn(ps) : ps[i].clen \in {0, BodyLen(ps)}
    /\ \E i \in HeadersIn(ps) : ps[i].clen = BodyLen(ps)

\* The body is in chunks, of which the last one ends the message. No earlier payload
\* ends in an empty line when that would end the message, too, for its trailer; that it
\* ends in bytes like those of a last chunk is possible.
FramedByChunks(ps) ==
    /\ IsChunked(ps)
    /\ \A i \in HeadersIn(ps) : ps[i].framing = "none" => ps[i].clen = 0
    /\ BodyLen(ps) > 0 /\ ps[Len(ps)].tail \in Closing(ps)
    /\ \A k \in HeaderEndIn(ps)..(Len(ps) - 1) :
          ps[k].tail \in Closing(ps) \ {"last"} => BytesUpTo(ps, k) = BodyStart(ps)

\* The payloads of one HTTP/1 message: the title line is in the first one.
Framed(ps) ==
    /\ ps \in Seq(PayloadRecord) /\ ps # <<>>
    /\ \A i \in DOMAIN ps : ps[i].len > 0 /\ (ps[i].title = "none" <=> i > 1)
    /\ HeaderEndIn(ps) > 0 /\ ps[HeaderEndIn(ps)].hend <= ps[HeaderEndIn(ps)].len
    /\ FramedByLength(ps) \/ FramedByChunks(ps)

\* The payloads of the message x on the wire
PayloadsOf(x) == [i \in DOMAIN Parts[x] |-> Payload[Parts[x][i]]]

\* The message x is framed, and its segments follow each other in its connection.
WellFramed(x) ==
    /\ Parts[x] \in Seq(Wire)
    /\ Framed(PayloadsOf(x))
    /\ \A i, j \in DOMAIN Parts[x] :
          Segment[Parts[x][i]].seq = Segment[Parts[x][j]].seq => i = j
    /\ \A i \in DOMAIN Parts[x] : i > 1 =>
          Segment[Parts[x][i]].seq =
              (Segment[Parts[x][i - 1]].seq + Payload[Parts[x][i - 1]].len) % SeqSpace

\* Payload is a record of the kind HasFullPayload looks at.
LEMMA PayloadType == \A w \in Wire : Payload[w] \in PayloadRecord
<1>. SUFFICES ASSUME NEW w \in Wire PROVE Payload[w] \in PayloadRecord
  OBVIOUS
<1>1. PICK f : f = Segment[w].frame
  OBVIOUS
<1>2. /\ f \in FrameRecord /\ Segment[w] \in SegmentRecord
  BY <1>1, WireAssumption DEF SegmentRecord
<1>3. NetworkLen(f) \in Nat
  <2>1. CASE f.version = 4
    BY <1>2, <2>1, FrameTypes DEF NetworkLen
  <2>2. CASE f.version # 4
    <3>1. Len(Skipped(f)) \in 0..Len(f.exts)
      BY <1>2, SkippedType, ExtensionTypes
    <3>2. PICK n : n = Len(Skipped(f))
      OBVIOUS
    <3>3. IsFiniteSet(1..n) /\ \A i \in 1..n : ExtensionLens(f)[i] \in Nat
      <4>1. IsFiniteSet(1..n)
        BY <3>1, <3>2, FS_Interval
      <4>. QED BY <1>2, <3>1, <3>2, <4>1, ExtensionTypes DEF ExtensionLens
    <3>4. SumFunctionOnSet(ExtensionLens(f), 1..n) \in Nat
      BY <3>3, SumType
    <3>5. SkippedLen(f, n) \in Nat
      BY <1>2, <3>1, <3>2, <3>4, SkippedIsSum
    <3>. QED BY <2>2, <3>2, <3>5 DEF NetworkLen
  <2>. QED BY <2>1, <2>2
<1>4. ParsePacket(f).len \in Nat
  <2>1. f.captured \in Nat /\ DataOffset(f) \in Nat /\ f.inner.walk.len \in Nat
    BY <1>2, FrameTypes DEF DataOffset, Outcome
  <2>2. TransportThere(f) => PayloadLen(f) \in Nat
    BY <1>3, <2>1 DEF TransportThere, PayloadLen, SegmentLen
  <2>3. ParseTransport(f).len \in Nat
    BY <2>2 DEF ParseTransport
  <2>. QED BY <2>1, <2>3 DEF ParsePacket, Known, Fragment
<1>5. Parsed[w].len \in Nat
  BY <1>1, <1>4 DEF Parsed
<1>. QED BY <1>2, <1>5 DEF Payload, PayloadRecord, SegmentRecord, Tails

\* The lengths of the payloads.
LensOf(ps) == [i \in DOMAIN ps |-> ps[i].len]

\* BytesUpTo is their sum.
LEMMA BytesAreSum ==
    ASSUME NEW ps \in Seq(PayloadRecord), NEW n \in 0..Len(ps)
    PROVE  BytesUpTo(ps, n) = SumFunctionOnSet(LensOf(ps), 1..n)
<1>1. PICK q : q = SubSeq(ps, 1, n)
  OBVIOUS
<1>2. PICK c : c = CHOOSE g : g = [s \in SUBSET DOMAIN q |->
                                IF s = {} THEN 0 ELSE g[s \ {Max(s)}] + q[Max(s)].len]
  OBVIOUS
<1>3. BytesUpTo(ps, n) = c[DOMAIN q]
  BY <1>1, <1>2 DEF BytesUpTo, FoldLeft, MapThenFoldSet
<1>4. PICK h : h = LensOf(ps)
  OBVIOUS
<1>5. n \in Nat /\ \A i \in 1..n : h[i] = ps[i].len /\ h[i] \in Nat
  <2>1. Len(ps) \in Nat /\ DOMAIN ps = 1..Len(ps) /\ \A i \in DOMAIN ps : ps[i] \in PayloadRecord
    BY LenProperties, ElementOfSeq
  <2>2. \A i \in DOMAIN ps : h[i] = ps[i].len /\ ps[i].len \in Nat
    BY ONLY <1>4, <2>1 DEF LensOf, PayloadRecord
  <2>3. n \in Nat /\ 1..n \subseteq DOMAIN ps
    BY <2>1
  <2>. QED BY <2>2, <2>3
<1>6. DOMAIN q = 1..n /\ \A i \in 1..n : q[i] = ps[i]
  BY <1>1, SplitParts, LenProperties
<1>7. \A s \in SUBSET (1..n) : s # {} => q[Max(s)].len = h[Max(s)]
  <2>1. ASSUME NEW s \in SUBSET (1..n), s # {} PROVE q[Max(s)].len = h[Max(s)]
    <3>1. PICK k : k = Max(s)
      OBVIOUS
    <3>2. k \in 1..n
      BY <1>5, <2>1, <3>1, LastIndex
    <3>. QED BY <1>5, <1>6, <3>1, <3>2
  <2>. QED BY <2>1
<1>8. ASSUME NEW g
      PROVE  (g = [s \in SUBSET DOMAIN q |->
                      IF s = {} THEN 0 ELSE g[s \ {Max(s)}] + q[Max(s)].len])
             <=> AddsUp(h, n, g)
  <2>1. [s \in SUBSET DOMAIN q |->
            IF s = {} THEN 0 ELSE g[s \ {Max(s)}] + q[Max(s)].len]
        = [s \in SUBSET (1..n) |-> IF s = {} THEN 0 ELSE g[s \ {Max(s)}] + h[Max(s)]]
    BY <1>6, <1>7
  <2>. QED BY <2>1 DEF AddsUp
<1>9. c = CHOOSE g : AddsUp(h, n, g)
  BY <1>2, <1>8
<1>. QED BY <1>3, <1>4, <1>5, <1>6, <1>9, ChosenAddsUp

\* The sum up to n takes in what there is at n.
LEMMA SumUpTo ==
    ASSUME NEW h, NEW n \in Nat \ {0}, \A i \in 1..n : h[i] \in Nat
    PROVE  SumFunctionOnSet(h, 1..n) = h[n] + SumFunctionOnSet(h, 1..(n - 1))
<1>1. IsFiniteSet(1..n)
  BY FS_Interval
<1>2. n \in 1..n /\ (1..n) \ {n} = 1..(n - 1)
  OBVIOUS
<1>3. PICK u : u = 1..n
  OBVIOUS
<1>4. IsFiniteSet(u) /\ n \in u
  BY <1>1, <1>2, <1>3
<1>5. \A i \in u : h[i] \in Nat
  BY <1>3
<1>6. SumFunctionOnSet(h, u) = h[n] + SumFunctionOnSet(h, u \ {n})
  BY <1>4, <1>5, SumTakeOff, ZenonT(60)
<1>7. u \ {n} = 1..(n - 1)
  BY <1>2, <1>3, Zenon
<1>. QED BY <1>3, <1>6, <1>7, Zenon

\* Every payload adds its bytes.
LEMMA BytesGrow ==
    ASSUME NEW ps \in Seq(PayloadRecord)
    PROVE  /\ \A n \in 0..Len(ps) : BytesUpTo(ps, n) \in Nat
           /\ BytesUpTo(ps, 0) = 0
           /\ \A n \in 1..Len(ps) : BytesUpTo(ps, n) = BytesUpTo(ps, n - 1) + ps[n].len
           /\ \A i, j \in 0..Len(ps) : i <= j => BytesUpTo(ps, i) <= BytesUpTo(ps, j)
<1>1. /\ Len(ps) \in Nat /\ DOMAIN ps = 1..Len(ps)
      /\ \A i \in DOMAIN ps : ps[i] \in PayloadRecord
  BY LenProperties, ElementOfSeq
<1>2. PICK h : h = LensOf(ps)
  OBVIOUS
<1>3. \A i \in 1..Len(ps) : h[i] = ps[i].len /\ h[i] \in Nat
  BY <1>1, <1>2 DEF LensOf, PayloadRecord
<1>4. \A n \in 0..Len(ps) : BytesUpTo(ps, n) = SumFunctionOnSet(h, 1..n)
  BY <1>2, BytesAreSum
<1>5. \A n \in 0..Len(ps) : IsFiniteSet(1..n) /\ \A i \in 1..n : h[i] \in Nat
  <2>1. ASSUME NEW n \in 0..Len(ps) PROVE IsFiniteSet(1..n)
    BY FS_Interval
  <2>. QED BY <1>1, <1>3, <2>1
<1>6. \A n \in 0..Len(ps) : BytesUpTo(ps, n) \in Nat
  BY <1>4, <1>5, SumType
<1>7. BytesUpTo(ps, 0) = 0
  <2>1. SumFunctionOnSet(h, {}) = 0
    BY FS_EmptySet, SumOfChosen
  <2>2. 1..0 = {} /\ 0 \in 0..Len(ps)
    BY <1>1
  <2>. QED BY <1>4, <2>1, <2>2
<1>8. ASSUME NEW n \in 1..Len(ps) PROVE BytesUpTo(ps, n) = BytesUpTo(ps, n - 1) + ps[n].len
  <2>1. n \in 0..Len(ps) /\ n - 1 \in 0..Len(ps) /\ n \in 1..n /\ (1..n) \ {n} = 1..(n - 1)
    BY <1>1
  <2>2. n \in Nat \ {0} /\ \A i \in 1..n : h[i] \in Nat
    BY <1>1, <1>5, <2>1
  <2>3. SumFunctionOnSet(h, 1..n) = h[n] + SumFunctionOnSet(h, 1..(n - 1))
    BY <2>2, SumUpTo
  <2>4. BytesUpTo(ps, n) = h[n] + BytesUpTo(ps, n - 1)
    BY <1>4, <2>1, <2>3
  <2>5. h[n] = ps[n].len /\ h[n] \in Nat /\ BytesUpTo(ps, n - 1) \in Nat
    BY <1>3, <1>6, <2>1
  <2>. QED BY <2>4, <2>5
<1>9. ASSUME NEW i \in 0..Len(ps), NEW j \in 0..Len(ps), i <= j
      PROVE  BytesUpTo(ps, i) <= BytesUpTo(ps, j)
  <2>1. 1..i \subseteq 1..j
    BY <1>9
  <2>2. SumFunctionOnSet(h, 1..i) <= SumFunctionOnSet(h, 1..j)
    BY <1>5, <2>1, SumSubset
  <2>. QED BY <1>4, <2>2
<1>. QED BY <1>6, <1>7, <1>8, <1>9

\* q holds the first k payloads of ps.
FirstPayloads(q, ps, k) ==
    /\ k \in DOMAIN ps /\ q \in Seq(PayloadRecord) /\ Len(q) = k
    /\ \A i \in 1..k : q[i] = ps[i]

\* It has the same bytes up to there.
LEMMA PrefixBytes ==
    ASSUME NEW ps \in Seq(PayloadRecord), NEW q, NEW k, FirstPayloads(q, ps, k), NEW n \in 0..k
    PROVE  BytesUpTo(q, n) = BytesUpTo(ps, n)
<1>1. /\ Len(ps) \in Nat /\ DOMAIN ps = 1..Len(ps) /\ Len(q) = k /\ DOMAIN q = 1..k
      /\ q \in Seq(PayloadRecord) /\ k \in 1..Len(ps) /\ \A i \in 1..k : q[i] = ps[i]
  BY LenProperties DEF FirstPayloads
<1>2. n \in 0..Len(ps) /\ n \in 0..Len(q)
  BY <1>1
<1>3. /\ BytesUpTo(q, n) = SumFunctionOnSet(LensOf(q), 1..n)
      /\ BytesUpTo(ps, n) = SumFunctionOnSet(LensOf(ps), 1..n)
  BY <1>1, <1>2, BytesAreSum
<1>4. \A i \in 1..n : LensOf(q)[i] = LensOf(ps)[i]
  BY <1>1, <1>2 DEF LensOf
<1>5. IsFiniteSet(1..n)
  BY FS_Interval
<1>. QED BY <1>3, <1>4, <1>5, SumSame

\* HeaderEndIn finds the first payload in which the headers end.
LEMMA HeaderEndFound ==
    ASSUME NEW q, Len(q) \in Nat
    PROVE  \/ HeaderEndIn(q) = 0 /\ \A i \in 1..Len(q) : ~(q[i].hend > 0)
           \/ /\ HeaderEndIn(q) \in 1..Len(q) /\ q[HeaderEndIn(q)].hend > 0
              /\ \A i \in 1..Len(q) : q[i].hend > 0 => HeaderEndIn(q) <= i
<1>1. PICK I : I = {i \in 1..Len(q) : q[i].hend > 0}
  OBVIOUS
<1>2. HeaderEndIn(q) = IF I # {} THEN Min(I) ELSE 0
  BY <1>1 DEF HeaderEndIn, SelectInSeq
<1>3. CASE I = {}
  BY <1>1, <1>2, <1>3
<1>4. CASE I # {}
  <2>1. I \in SUBSET Nat
    BY <1>1
  <2>2. PICK k \in I : \A j \in I : k <= j
    BY <1>4, <2>1, LeastNumber
  <2>3. Min(I) \in I /\ \A j \in I : Min(I) <= j
    BY <2>2 DEF Min
  <2>. QED BY <1>1, <1>2, <1>4, <2>3
<1>. QED BY <1>3, <1>4

\* The state that the headers of a framed message leave.
HeadersOf(ps) ==
    [body |-> BodyStart(ps), parsed |-> TRUE, chunked |-> IsChunked(ps),
     trailer |-> HasTrailer(ps), bodyLen |-> IF IsChunked(ps) THEN 0 ELSE BodyLen(ps),
     continue100 |-> FALSE]

\* Where the body of a framed message begins.
LEMMA FramedBody ==
    ASSUME NEW ps, Framed(ps), NEW h, h = HeaderEndIn(ps)
    PROVE  /\ h \in 1..Len(ps) /\ Len(ps) \in Nat /\ DOMAIN ps = 1..Len(ps)
           /\ \A i \in 1..Len(ps) : ps[i] \in PayloadRecord
           /\ BodyStart(ps) \in Nat /\ BodyStart(ps) > BytesUpTo(ps, h - 1)
           /\ BodyStart(ps) <= BytesUpTo(ps, h)
           /\ BodyLen(ps) \in Nat
           /\ ps[h].hend > 0 /\ \A i \in 1..Len(ps) : ps[i].hend > 0 => h <= i
<1>1. /\ ps \in Seq(PayloadRecord) /\ h > 0 /\ ps[h].hend <= ps[h].len
  BY DEF Framed
<1>2. Len(ps) \in Nat /\ DOMAIN ps = 1..Len(ps) /\ \A i \in 1..Len(ps) : ps[i] \in PayloadRecord
  BY <1>1, LenProperties, ElementOfSeq
<1>3. h \in 1..Len(ps) /\ ps[h].hend > 0 /\ \A i \in 1..Len(ps) : ps[i].hend > 0 => h <= i
  BY <1>1, <1>2, HeaderEndFound
<1>4. ps[h].hend \in Nat /\ ps[h].len \in Nat
  BY <1>2, <1>3 DEF PayloadRecord
<1>5. PICK a, b, c : a = BytesUpTo(ps, h - 1) /\ b = BytesUpTo(ps, h) /\ c = BytesUpTo(ps, Len(ps))
  OBVIOUS
<1>6. a \in Nat /\ b \in Nat /\ c \in Nat /\ b = a + ps[h].len /\ b <= c
  <2>1. h - 1 \in 0..Len(ps) /\ h \in 0..Len(ps) /\ Len(ps) \in 0..Len(ps) /\ h <= Len(ps)
    BY <1>2, <1>3
  <2>. QED BY <1>1, <1>3, <1>5, <2>1, BytesGrow
<1>7. BodyStart(ps) = a + ps[h].hend /\ BodyLen(ps) = c - (a + ps[h].hend)
  BY <1>5 DEF BodyStart, BodyLen
<1>. QED BY <1>1, <1>2, <1>3, <1>4, <1>5, <1>6, <1>7

\* A prefix of a framed message: its headers end where those of the message do.
LEMMA PrefixHeaders ==
    ASSUME NEW ps, Framed(ps), NEW q, NEW k, FirstPayloads(q, ps, k), NEW h, h = HeaderEndIn(ps)
    PROVE  HeaderEndIn(q) = IF h <= k THEN h ELSE 0
<1>1. /\ h \in 1..Len(ps) /\ Len(ps) \in Nat /\ DOMAIN ps = 1..Len(ps)
      /\ ps[h].hend > 0 /\ \A i \in 1..Len(ps) : ps[i].hend > 0 => h <= i
  BY FramedBody
<1>2. Len(q) = k /\ k \in 1..Len(ps) /\ \A i \in 1..k : q[i] = ps[i]
  BY <1>1 DEF FirstPayloads
<1>3. \/ HeaderEndIn(q) = 0 /\ \A i \in 1..k : ~(ps[i].hend > 0)
      \/ /\ HeaderEndIn(q) \in 1..k /\ ps[HeaderEndIn(q)].hend > 0
         /\ \A i \in 1..k : ps[i].hend > 0 => HeaderEndIn(q) <= i
  <2>1. PICK e : e = HeaderEndIn(q)
    OBVIOUS
  <2>2. Len(q) \in Nat
    BY <1>1, <1>2
  <2>3. \/ e = 0 /\ \A i \in 1..Len(q) : ~(q[i].hend > 0)
        \/ /\ e \in 1..Len(q) /\ q[e].hend > 0
           /\ \A i \in 1..Len(q) : q[i].hend > 0 => e <= i
    BY <2>1, <2>2, HeaderEndFound
  <2>. QED BY <1>2, <2>1, <2>3
<1>. QED BY <1>1, <1>2, <1>3

\* The loop over the headers breaks in the payload where they end, or before in the one
\* with the Content-Length.
LEMMA LoopEnds ==
    ASSUME NEW ps, Framed(ps), NEW q, NEW k, FirstPayloads(q, ps, k), NEW h, h = HeaderEndIn(ps),
           h <= k, NEW s, s.body = BodyStart(ps), NEW n, n = HeaderLoopEnd(s, q)
    PROVE  /\ n \in 1..h
           /\ n = h \/ (ps[n].framing = "none" /\ ps[n].clen > 0)
           /\ \A j \in 1..(n - 1) : ps[j].framing # "none" \/ ps[j].clen = 0
<1>1. /\ h \in 1..Len(ps) /\ Len(ps) \in Nat /\ DOMAIN ps = 1..Len(ps)
      /\ BodyStart(ps) \in Nat /\ BodyStart(ps) > BytesUpTo(ps, h - 1)
      /\ BodyStart(ps) <= BytesUpTo(ps, h) /\ ps \in Seq(PayloadRecord)
      /\ \A i \in 1..Len(ps) : ps[i] \in PayloadRecord
  BY FramedBody DEF Framed
<1>2. Len(q) = k /\ k \in 1..Len(ps) /\ DOMAIN q = 1..k /\ \A i \in 1..k : q[i] = ps[i]
  BY <1>1, LenProperties DEF FirstPayloads
<1>3. PICK b : b = BodyStart(ps)
  OBVIOUS
<1>. DEFINE Sized(i) == ps[i].framing = "none" /\ ps[i].clen > 0
            Breaks(i) == Sized(i) \/ BytesUpTo(ps, i) >= b
            End1(i) == Breaks(i) /\ \A j \in 1..(i - 1) : ~Breaks(j)
            Stop(i) == /\ \/ q[i].framing = "none" /\ q[i].clen > 0
                          \/ BytesUpTo(q, i) >= s.body
                       /\ \A j \in 1..(i - 1) : /\ q[j].framing # "none" \/ q[j].clen = 0
                                                /\ BytesUpTo(q, j) < s.body
<1>4. \A i \in 0..k : BytesUpTo(q, i) = BytesUpTo(ps, i) /\ BytesUpTo(ps, i) \in Nat
  BY <1>1, <1>2, PrefixBytes, BytesGrow
<1>5. \A i \in 1..k : ps[i].clen \in Nat
  <2>1. \A i \in 1..k : i \in 1..Len(ps)
    BY <1>1, <1>2
  <2>. QED BY <1>1, <2>1 DEF PayloadRecord
<1>6. ASSUME NEW i \in 1..k PROVE Stop(i) <=> End1(i)
  <2>1. k \in Nat /\ b \in Nat /\ i \in 0..k /\ q[i] = ps[i]
    BY <1>1, <1>2, <1>3
  <2>2. \A j \in 1..(i - 1) : j \in 1..k /\ j \in 0..k
    BY <2>1
  <2>3. \A j \in 1..(i - 1) : /\ q[j] = ps[j] /\ BytesUpTo(q, j) = BytesUpTo(ps, j)
                              /\ BytesUpTo(ps, j) \in Nat /\ ps[j].clen \in Nat
    BY <1>2, <1>4, <1>5, <2>2
  <2>4. BytesUpTo(q, i) = BytesUpTo(ps, i) /\ s.body = b
    BY <1>3, <1>4, <2>1
  <2>. QED BY <2>1, <2>3, <2>4
<1>7. n = CHOOSE i \in 1..k : Stop(i)
  BY <1>2 DEF HeaderLoopEnd
<1>8. \E i \in 1..k : End1(i)
  <2>. DEFINE S == {i \in 1..k : Breaks(i)}
  <2>1. h \in S
    BY <1>1, <1>2, <1>3
  <2>2. PICK i \in S : \A j \in S : i <= j
    <3>1. S \in SUBSET Nat /\ S # {}
      BY <2>1
    <3>. HIDE DEF S
    <3>. QED BY <3>1, LeastNumber
  <2>3. ASSUME NEW j \in 1..(i - 1) PROVE ~Breaks(j)
    <3>1. j \in 1..k /\ ~(i <= j)
      BY <1>1, <1>2
    <3>2. j \notin S
      BY <2>2, <3>1
    <3>. QED BY <3>1, <3>2
  <2>. QED BY <2>2, <2>3
<1>9. n \in 1..k /\ End1(n)
  <2>1. \E i \in 1..k : Stop(i)
    BY <1>6, <1>8
  <2>. HIDE DEF Stop
  <2>2. n \in 1..k /\ Stop(n)
    BY <1>7, <2>1
  <2>. HIDE DEF End1
  <2>. QED BY <1>6, <2>2
<1>10. Breaks(h)
  BY <1>1, <1>3
<1>11. n <= h
  BY <1>1, <1>2, <1>9, <1>10
<1>12. n = h \/ Sized(n)
  <2>1. CASE n < h
    <3>1. n \in 0..Len(ps) /\ h - 1 \in 0..Len(ps) /\ n <= h - 1
      BY <1>1, <1>2, <1>9, <2>1
    <3>2. BytesUpTo(ps, n) <= BytesUpTo(ps, h - 1)
      BY <1>1, <3>1, BytesGrow
    <3>3. BytesUpTo(ps, n) \in Nat /\ BytesUpTo(ps, h - 1) \in Nat
      BY <1>1, <3>1, BytesGrow
    <3>4. ~(BytesUpTo(ps, n) >= b)
      BY <1>1, <1>3, <3>2, <3>3
    <3>. QED BY <1>9, <3>4
  <2>. QED BY <1>1, <1>2, <1>9, <1>11, <2>1
<1>13. \A j \in 1..(n - 1) : ps[j].framing # "none" \/ ps[j].clen = 0
  <2>1. ASSUME NEW j \in 1..(n - 1) PROVE ps[j].framing # "none" \/ ps[j].clen = 0
    <3>1. ~Breaks(j) /\ j \in 1..k
      BY <1>1, <1>2, <1>9
    <3>. QED BY <1>5, <3>1
  <2>. QED BY <2>1
<1>. QED BY <1>1, <1>2, <1>9, <1>11, <1>12, <1>13

\* The state once the body of a framed message is located
Located(ps) ==
    [body |-> BodyStart(ps), parsed |-> FALSE, chunked |-> FALSE, trailer |-> FALSE,
     bodyLen |-> 0, continue100 |-> FALSE]

\* What ParseHeaders reads of the payloads of a framed message up to the end of its headers.
LEMMA ParseFramed ==
    ASSUME NEW ps, Framed(ps), NEW q, NEW k, FirstPayloads(q, ps, k), HeaderEndIn(ps) <= k,
           \A i \in 1..k : ~q[i].expect,
           NEW s, s = Located(ps)
    PROVE  ParseHeaders(s, q) = HeadersOf(ps)
<1>1. PICK h : h = HeaderEndIn(ps)
  OBVIOUS
<1>2. PICK n : n = HeaderLoopEnd(s, q)
  OBVIOUS
<1>3. /\ h \in 1..Len(ps) /\ Len(ps) \in Nat /\ DOMAIN ps = 1..Len(ps)
      /\ BodyStart(ps) \in Nat /\ BodyLen(ps) \in Nat /\ ps \in Seq(PayloadRecord)
      /\ \A i \in 1..Len(ps) : ps[i] \in PayloadRecord
  BY <1>1, FramedBody DEF Framed
<1>4. /\ Len(q) = k /\ k \in 1..Len(ps) /\ DOMAIN q = 1..k /\ q \in Seq(PayloadRecord)
      /\ \A i \in 1..k : q[i] = ps[i]
  BY <1>3, LenProperties DEF FirstPayloads
<1>5. s.body = BodyStart(ps) /\ s.parsed = FALSE
  BY DEF Located
<1>6. /\ n \in 1..h
      /\ n = h \/ (ps[n].framing = "none" /\ ps[n].clen > 0)
      /\ \A j \in 1..(n - 1) : ps[j].framing # "none" \/ ps[j].clen = 0
  BY <1>1, <1>2, <1>5, LoopEnds
<1>7. n \in 1..k /\ h <= k /\ n <= h /\ n \in Nat /\ k \in Nat /\ h \in Nat
  BY <1>1, <1>3, <1>4, <1>6
<1>8. PICK seen : seen = SubSeq(q, 1, n)
  OBVIOUS
<1>9. Len(seen) = n /\ \A i \in 1..n : seen[i] = ps[i]
  <2>1. n \in 0..Len(q)
    BY <1>4, <1>7
  <2>2. Len(seen) = n /\ \A i \in 1..n : seen[i] = q[i]
    BY <1>4, <1>8, <2>1, SplitParts
  <2>3. 1..n \subseteq 1..k
    BY <1>7
  <2>. QED BY <1>4, <2>2, <2>3
<1>10. PICK C, Z : C = {i \in 1..n : ps[i].framing # "none"} /\ Z = {i \in 1..n : ps[i].framing = "none"}
  OBVIOUS
<1>11. PICK coded, sized :
          /\ coded = IF C # {} THEN Max(C) ELSE 0
          /\ sized = IF Z # {} THEN Max(Z) ELSE 0
  OBVIOUS
<1>12. /\ SelectLastInSeq(seen, LAMBDA p : p.framing # "none") = coded
       /\ SelectLastInSeq(seen, LAMBDA p : p.framing = "none") = sized
  <2>1. C = {i \in 1..Len(seen) : seen[i].framing # "none"}
    BY <1>9, <1>10
  <2>2. Z = {i \in 1..Len(seen) : seen[i].framing = "none"}
    BY <1>9, <1>10
  <2>. QED BY <1>11, <2>1, <2>2 DEF SelectLastInSeq
<1>13. (\E i \in DOMAIN q : i <= n /\ q[i].expect) = FALSE
  BY <1>4
<1>14. /\ C # {} => coded \in C /\ \A i \in C : i <= coded
       /\ Z # {} => sized \in Z /\ \A i \in Z : i <= sized
  <2>1. C \in SUBSET (1..n) /\ Z \in SUBSET (1..n)
    BY <1>10
  <2>. QED BY <1>7, <1>11, <2>1, LastIndex
<1>15. /\ (coded > 0) = IsChunked(ps)
       /\ (coded > 0 /\ seen[coded].framing = "trailer") = HasTrailer(ps)
       /\ (IF sized = 0 THEN 0 ELSE seen[sized].clen) = IF IsChunked(ps) THEN 0 ELSE BodyLen(ps)
  <2>1. HeadersIn(ps) = 1..h
    BY <1>1 DEF HeadersIn
  <2>2. \A i \in 1..h : ps[i].clen \in Nat
    BY <1>3 DEF PayloadRecord
  <2>3. CASE IsChunked(ps)
    <3>1. \A i \in 1..h : ps[i].framing = "none" => ps[i].clen = 0
      BY <2>1, <2>3 DEF Framed, FramedByLength, FramedByChunks
    <3>2. n = h
      BY <1>6, <1>7, <3>1
    <3>3. C # {}
      BY <1>10, <2>1, <2>3, <3>2 DEF IsChunked
    <3>4. coded \in 1..h /\ ps[coded].framing # "none" /\ \A i \in 1..h : i > coded => ps[i].framing = "none"
      BY <1>10, <1>14, <3>2, <3>3
    <3>5. HasTrailer(ps) <=> ps[coded].framing = "trailer"
      <4>1. ASSUME HasTrailer(ps) PROVE ps[coded].framing = "trailer"
        <5>1. PICK i \in 1..h : /\ ps[i].framing = "trailer"
                                /\ \A j \in 1..h : j > i => ps[j].framing = "none"
          BY <2>1, <4>1 DEF HasTrailer
        <5>2. i = coded
          <6>1. ~(i > coded) /\ ~(coded > i)
            BY <3>4, <5>1
          <6>. QED BY <1>7, <3>4, <6>1
        <5>. QED BY <5>1, <5>2
      <4>2. ASSUME ps[coded].framing = "trailer" PROVE HasTrailer(ps)
        BY <2>1, <3>4, <4>2 DEF HasTrailer
      <4>. QED BY <4>1, <4>2
    <3>6. coded > 0 /\ seen[coded] = ps[coded]
      BY <1>7, <1>9, <3>2, <3>4
    <3>7. sized = 0 \/ seen[sized].clen = 0
      <4>1. CASE Z = {}
        BY <1>11, <4>1
      <4>2. CASE Z # {}
        BY <1>9, <1>10, <1>14, <3>1, <3>2, <4>2
      <4>. QED BY <4>1, <4>2
    <3>8. (coded > 0 /\ seen[coded].framing = "trailer") = HasTrailer(ps)
      BY <3>5, <3>6 DEF HasTrailer
    <3>9. (coded > 0) = IsChunked(ps)
      BY <2>3, <3>6 DEF IsChunked
    <3>. QED BY <2>3, <3>7, <3>8, <3>9
  <2>4. CASE ~IsChunked(ps)
    <3>1. \A i \in 1..h : ps[i].framing = "none"
      BY <2>1, <2>4 DEF IsChunked
    <3>2. C = {} /\ Z = 1..n
      <4>1. \A i \in 1..n : ps[i].framing = "none"
        BY <1>7, <3>1
      <4>. QED BY <1>10, <4>1
    <3>3. coded = 0 /\ ~HasTrailer(ps)
      BY <1>11, <2>1, <3>1, <3>2 DEF HasTrailer
    <3>4. sized = n
      <4>1. n \in Z /\ sized \in Z
        BY <1>7, <1>14, <3>2
      <4>2. n <= sized /\ sized <= n /\ sized \in Nat
        BY <1>7, <1>14, <3>2, <4>1
      <4>. QED BY <1>7, <4>2
    <3>5. seen[sized].clen = ps[n].clen /\ sized # 0
      BY <1>7, <1>9, <3>4
    <3>6. /\ \A i \in 1..h : ps[i].clen \in {0, BodyLen(ps)}
          /\ \E i \in 1..h : ps[i].clen = BodyLen(ps)
      BY <2>1, <2>4 DEF Framed, FramedByLength, FramedByChunks
    <3>7. ps[n].clen = BodyLen(ps)
      <4>1. CASE ps[n].clen > 0
        <5>1. ps[n].clen # 0
          BY <4>1
        <5>. QED BY <1>6, <3>6, <5>1
      <4>2. CASE ~(ps[n].clen > 0)
        <5>1. ps[n].clen = 0
          BY <1>6, <2>2, <4>2
        <5>2. n = h
          BY <1>6, <4>2
        <5>3. \A j \in 1..h : ps[j].clen = 0
          <6>1. \A j \in 1..h : j = n \/ j \in 1..(n - 1)
            BY <1>7, <5>2
          <6>. QED BY <1>6, <3>1, <5>1, <6>1
        <5>. QED BY <3>6, <5>1, <5>3
      <4>. QED BY <4>1, <4>2
    <3>8. (coded > 0 /\ seen[coded].framing = "trailer") = HasTrailer(ps)
      <4>1. (coded > 0 /\ seen[coded].framing = "trailer") = FALSE
        BY <3>3
      <4>2. HasTrailer(ps) = FALSE
        BY <3>3 DEF HasTrailer
      <4>. QED BY <4>1, <4>2
    <3>9. (coded > 0) = IsChunked(ps)
      <4>1. (coded > 0) = FALSE
        BY <3>3
      <4>2. IsChunked(ps) = FALSE
        BY <2>4 DEF IsChunked
      <4>. QED BY <4>1, <4>2
    <3>. QED BY <2>4, <3>5, <3>7, <3>8, <3>9
  <2>. QED BY <2>3, <2>4
<1>16. PICK t, l, e :
          /\ t = (coded > 0 /\ seen[coded].framing = "trailer")
          /\ l = (IF sized = 0 THEN 0 ELSE seen[sized].clen)
          /\ e = \E i \in DOMAIN q : i <= n /\ q[i].expect
  OBVIOUS
<1>17. ParseHeaders(s, q) =
          [s EXCEPT !.parsed = TRUE, !.chunked = coded > 0, !.trailer = t, !.bodyLen = l,
                    !.continue100 = e]
  BY <1>2, <1>5, <1>8, <1>12, <1>16 DEF ParseHeaders
<1>18. e = FALSE
  BY <1>13, <1>16
<1>19. PICK c : c = (coded > 0)
  OBVIOUS
<1>20. ParseHeaders(s, q) =
          [body |-> BodyStart(ps), parsed |-> TRUE, chunked |-> c, trailer |-> t, bodyLen |-> l,
           continue100 |-> e]
  BY <1>17, <1>19 DEF Located
<1>21. c = IsChunked(ps) /\ t = HasTrailer(ps) /\ l = IF IsChunked(ps) THEN 0 ELSE BodyLen(ps)
  BY <1>15, <1>16, <1>19
<1>. QED BY <1>18, <1>20, <1>21 DEF HeadersOf

\* When the body of a framed message is complete.
LEMMA CompleteFramed ==
    ASSUME NEW ps, Framed(ps), NEW q, NEW k, FirstPayloads(q, ps, k)
    PROVE  /\ k = Len(ps) => BodyComplete(HeadersOf(ps), q)
           /\ BodyComplete(HeadersOf(ps), q) => k = Len(ps) \/ ps[k].tail = "last"
<1>1. PICK h : h = HeaderEndIn(ps)
  OBVIOUS
<1>2. /\ h \in 1..Len(ps) /\ Len(ps) \in Nat /\ DOMAIN ps = 1..Len(ps) /\ ps \in Seq(PayloadRecord)
      /\ BodyStart(ps) \in Nat /\ BodyStart(ps) > BytesUpTo(ps, h - 1) /\ BodyLen(ps) \in Nat
      /\ \A i \in 1..Len(ps) : ps[i] \in PayloadRecord
  BY <1>1, FramedBody DEF Framed
<1>3. Len(q) = k /\ k \in 1..Len(ps) /\ \A i \in 1..k : q[i] = ps[i]
  BY <1>2 DEF FirstPayloads
<1>12. h \in 1..Len(ps) /\ Len(ps) \in Nat /\ k \in 1..Len(ps)
  BY <1>2, <1>3
<1>4. BytesUpTo(q, Len(q)) = BytesUpTo(ps, k) /\ Last(q) = ps[k]
  <2>1. k \in 0..k /\ k \in 1..k
    BY <1>2, <1>3
  <2>. QED BY <1>2, <1>3, <2>1, PrefixBytes DEF Last
<1>5. PICK a, b, c, l, t : /\ a = BytesUpTo(ps, k) /\ b = BodyStart(ps) /\ c = BytesUpTo(ps, Len(ps))
                           /\ l = BodyLen(ps) /\ t = BytesUpTo(ps, h - 1)
  OBVIOUS
<1>6. a \in Nat /\ b \in Nat /\ c \in Nat /\ l \in Nat /\ t \in Nat /\ l = c - b /\ b > t
  <2>1. k \in 0..Len(ps) /\ Len(ps) \in 0..Len(ps) /\ h - 1 \in 0..Len(ps)
    BY <1>2, <1>3
  <2>2. a \in Nat /\ c \in Nat /\ t \in Nat
    BY <1>2, <1>5, <2>1, BytesGrow
  <2>3. l = c - b
    BY <1>5 DEF BodyLen
  <2>. QED BY <1>2, <1>5, <2>2, <2>3
<1>7. k # Len(ps) => a < c
  <2>1. ASSUME k # Len(ps) PROVE a < c
    <3>1. k + 1 \in 1..Len(ps) /\ k + 1 \in 0..Len(ps) /\ Len(ps) \in 0..Len(ps) /\ k + 1 <= Len(ps)
          /\ (k + 1) - 1 = k
      BY ONLY <1>12, <2>1
    <3>2. PICK d : d = BytesUpTo(ps, k + 1)
      OBVIOUS
    <3>3. d \in Nat /\ d <= c /\ d = a + ps[k + 1].len
      BY <1>2, <1>5, <3>1, <3>2, BytesGrow
    <3>4. ps[k + 1].len > 0 /\ ps[k + 1].len \in Nat
      BY <1>2, <3>1 DEF Framed, PayloadRecord
    <3>. QED BY <1>6, <3>3, <3>4
  <2>. QED BY <2>1
<1>8. a > b => k >= h
  <2>1. ASSUME ~(k >= h) PROVE ~(a > b)
    <3>1. k \in 0..Len(ps) /\ h - 1 \in 0..Len(ps) /\ k <= h - 1
      BY ONLY <1>12, <2>1
    <3>2. a <= t
      BY <1>2, <1>5, <3>1, BytesGrow
    <3>. QED BY <1>6, <3>2
  <2>. QED BY <2>1
<1>9. BodyComplete(HeadersOf(ps), q)
      <=> IF IsChunked(ps) THEN a - b >= 1 /\ ps[k].tail \in Closing(ps) ELSE l = a - b
  <2>1. /\ HeadersOf(ps).body = b /\ HeadersOf(ps).chunked = IsChunked(ps)
        /\ HeadersOf(ps).trailer = HasTrailer(ps)
        /\ ~IsChunked(ps) => HeadersOf(ps).bodyLen = l
    BY <1>5 DEF HeadersOf
  <2>2. CASE IsChunked(ps)
    BY <1>4, <1>5, <2>1, <2>2 DEF BodyComplete, Closing
  <2>3. CASE ~IsChunked(ps)
    BY <1>4, <1>5, <2>1, <2>3 DEF BodyComplete
  <2>. QED BY <2>2, <2>3
<1>10. CASE IsChunked(ps)
  <2>1. /\ BodyLen(ps) > 0 /\ ps[Len(ps)].tail \in Closing(ps)
        /\ \A i \in h..(Len(ps) - 1) :
              ps[i].tail \in Closing(ps) \ {"last"} => BytesUpTo(ps, i) = BodyStart(ps)
    BY <1>1, <1>10 DEF Framed, FramedByLength, FramedByChunks
  <2>2. ASSUME k = Len(ps) PROVE BodyComplete(HeadersOf(ps), q)
    <3>1. a = c
      BY <1>5, <2>2
    <3>2. l > 0
      BY <1>5, <2>1
    <3>3. a - b >= 1
      BY <1>6, <3>1, <3>2
    <3>. QED BY <1>9, <1>10, <2>1, <2>2, <3>3
  <2>3. ASSUME BodyComplete(HeadersOf(ps), q), k # Len(ps) PROVE ps[k].tail = "last"
    <3>1. a - b >= 1 /\ ps[k].tail \in Closing(ps)
      BY <1>9, <1>10, <2>3
    <3>2. a > b
      BY <1>6, <3>1
    <3>3. k \in h..(Len(ps) - 1)
      BY ONLY <1>8, <1>12, <2>3, <3>2
    <3>4. a # b
      BY <1>6, <3>2
    <3>. QED BY <1>5, <2>1, <3>1, <3>3, <3>4
  <2>. QED BY <2>2, <2>3
<1>11. CASE ~IsChunked(ps)
  <2>1. ASSUME k = Len(ps) PROVE BodyComplete(HeadersOf(ps), q)
    <3>1. a = c
      BY <1>5, <2>1
    <3>. QED BY <1>6, <1>9, <1>11, <3>1
  <2>2. ASSUME BodyComplete(HeadersOf(ps), q) PROVE k = Len(ps)
    <3>1. l = a - b
      BY <1>9, <1>11, <2>2
    <3>. QED BY <1>6, <1>7, <3>1
  <2>. QED BY <2>1, <2>2
<1>. QED BY <1>10, <1>11

\* http1EndHint on a prefix of a framed message: it says that the message is whole when it
\* is, and before only when a payload ends like a last chunk.
LEMMA FullFramed ==
    ASSUME NEW ps, Framed(ps), NEW q, NEW k, FirstPayloads(q, ps, k), \A i \in 1..k : ~q[i].expect,
           NEW s \in {NewHTTPState, HeadersOf(ps)}, NEW r, r = HasFullPayload(s, q)
    PROVE  /\ r.state \in {NewHTTPState, HeadersOf(ps)}
           /\ k = Len(ps) => r.full
           /\ r.full => k = Len(ps) \/ ps[k].tail = "last"
<1>1. PICK h : h = HeaderEndIn(ps)
  OBVIOUS
<1>2. /\ h \in 1..Len(ps) /\ Len(ps) \in Nat /\ DOMAIN ps = 1..Len(ps) /\ ps \in Seq(PayloadRecord)
      /\ BodyStart(ps) \in Nat /\ BodyStart(ps) > BytesUpTo(ps, h - 1)
      /\ \A i \in 1..Len(ps) : ps[i] \in PayloadRecord
  BY <1>1, FramedBody DEF Framed
<1>3. Len(q) = k /\ k \in 1..Len(ps) /\ \A i \in 1..k : q[i] = ps[i]
  BY <1>2 DEF FirstPayloads
<1>4. BodyStart(ps) > 0
  <2>1. h - 1 \in 0..Len(ps)
    BY <1>2
  <2>2. BytesUpTo(ps, h - 1) \in Nat
    BY <1>2, <2>1, BytesGrow
  <2>. QED BY <1>2, <2>2
<1>5. q # <<>> /\ q[1].title # "none"
  <2>1. q # <<>>
    <3>1. Len(q) # 0
      BY <1>2, <1>3
    <3>2. q \in Seq(PayloadRecord)
      BY DEF FirstPayloads
    <3>. QED BY <3>1, <3>2, EmptySeq
  <2>2. 1 \in DOMAIN ps /\ q[1] = ps[1] /\ ~(1 > 1)
    BY <1>2, <1>3
  <2>. QED BY <2>1, <2>2 DEF Framed
<1>6. PICK l, p : l = LocateBody(s, q) /\ p = ParseHeaders(l, q)
  OBVIOUS
<1>7. r = IF l.body = 0 THEN [state |-> l, full |-> FALSE]
          ELSE [state |-> p, full |-> BodyComplete(p, q)]
  BY <1>5, <1>6 DEF HasFullPayload
<1>8. CASE s = HeadersOf(ps)
  <2>1. s.body = BodyStart(ps) /\ s.parsed = TRUE
    BY <1>8 DEF HeadersOf
  <2>2. l = s
    BY <1>4, <1>6, <2>1 DEF LocateBody
  <2>3. p = s
    BY <1>6, <2>1, <2>2 DEF ParseHeaders
  <2>4. l.body # 0
    BY <1>2, <1>4, <2>1, <2>2
  <2>5. r.state = HeadersOf(ps) /\ r.full = BodyComplete(HeadersOf(ps), q)
    BY <1>7, <1>8, <2>3, <2>4
  <2>. QED BY <2>5, CompleteFramed
<1>9. CASE s = NewHTTPState
  <2>1. s.body = 0 /\ ~(s.body > 0)
    BY <1>9 DEF NewHTTPState
  <2>2. HeaderEndIn(q) = IF h <= k THEN h ELSE 0
    BY <1>1, PrefixHeaders
  <2>3. CASE h <= k
    <3>1. HeaderEndIn(q) = h /\ h # 0 /\ q[h] = ps[h]
      BY <1>2, <1>3, <2>2, <2>3
    <3>2. BytesUpTo(q, h - 1) = BytesUpTo(ps, h - 1)
      <4>1. h - 1 \in 0..k
        BY <1>2, <1>3, <2>3
      <4>. QED BY <1>2, <4>1, PrefixBytes
    <3>3. PICK n : n = BytesUpTo(q, HeaderEndIn(q) - 1) + q[HeaderEndIn(q)].hend
      OBVIOUS
    <3>4. n = BodyStart(ps)
      BY <1>1, <3>1, <3>2, <3>3 DEF BodyStart
    <3>5. l = [s EXCEPT !.body = n]
      BY <1>6, <2>1, <3>1, <3>3 DEF LocateBody
    <3>6. l = Located(ps)
      BY <1>9, <3>4, <3>5 DEF NewHTTPState, Located
    <3>7. p = HeadersOf(ps)
      BY <1>1, <1>6, <2>3, <3>6, ParseFramed
    <3>8. l.body # 0
      BY <1>2, <1>4, <3>6 DEF Located
    <3>9. r.state = HeadersOf(ps) /\ r.full = BodyComplete(HeadersOf(ps), q)
      BY <1>7, <3>7, <3>8
    <3>. QED BY <3>9, CompleteFramed
  <2>4. CASE ~(h <= k)
    <3>0. h \in 1..Len(ps) /\ Len(ps) \in Nat /\ k \in 1..Len(ps)
      BY <1>2, <1>3
    <3>1. HeaderEndIn(q) = 0 /\ k # Len(ps)
      BY ONLY <2>2, <2>4, <3>0
    <3>2. l = s
      BY <1>6, <3>1 DEF LocateBody
    <3>3. r.state = s /\ r.full = FALSE
      BY <1>7, <2>1, <3>2
    <3>. QED BY <1>9, <3>1, <3>3
  <2>. QED BY <2>3, <2>4
<1>. QED BY <1>8, <1>9

-----------------------------------------------------------------------------
(* Messages whose packets are of one framed message of the wire. *)

\* ps are the packets of the first segments of the message x.
Begins(ps, x) ==
    /\ ps \in Seq(Packet) /\ Len(ps) \in 1..Len(Parts[x])
    /\ \A i \in 1..Len(ps) : ps[i].seg = Parts[x][i]

\* The segments of a framed message, and its payloads.
LEMMA FramedParts ==
    ASSUME NEW x, WellFramed(x)
    PROVE  /\ Len(Parts[x]) \in Nat \ {0} /\ DOMAIN Parts[x] = 1..Len(Parts[x])
           /\ \A i \in 1..Len(Parts[x]) :
                 /\ Parts[x][i] \in Wire /\ Segment[Parts[x][i]].seq \in Nat
                 /\ PayloadsOf(x)[i] = Payload[Parts[x][i]]
                 /\ Payload[Parts[x][i]].title = "none" <=> i > 1
           /\ Len(PayloadsOf(x)) = Len(Parts[x]) /\ PayloadsOf(x) \in Seq(PayloadRecord)
<1>1. Parts[x] \in Seq(Wire) /\ Framed(PayloadsOf(x))
  BY DEF WellFramed
<1>2. PICK n : n = Len(Parts[x])
  OBVIOUS
<1>3. n \in Nat /\ DOMAIN Parts[x] = 1..n /\ \A i \in 1..n : Parts[x][i] \in Wire
  BY <1>1, <1>2, LenProperties, ElementOfSeq
<1>4. DOMAIN PayloadsOf(x) = 1..n /\ \A i \in 1..n : PayloadsOf(x)[i] = Payload[Parts[x][i]]
  BY <1>3 DEF PayloadsOf
<1>5. PayloadsOf(x) \in Seq(PayloadRecord) /\ PayloadsOf(x) # <<>>
  BY <1>1 DEF Framed
<1>6. Len(PayloadsOf(x)) = n /\ n # 0
  <2>1. Len(PayloadsOf(x)) \in Nat /\ DOMAIN PayloadsOf(x) = 1..Len(PayloadsOf(x)) /\ Len(PayloadsOf(x)) # 0
    BY <1>5, LenProperties, EmptySeq
  <2>. QED BY <1>3, <1>4, <2>1
<1>7. \A i \in 1..n : Segment[Parts[x][i]].seq \in Nat
  BY <1>3, WireAssumption, BoundAssumption DEF SegmentRecord, Seqs
<1>8. \A i \in 1..n : Payload[Parts[x][i]].title = "none" <=> i > 1
  BY <1>1, <1>4 DEF Framed
<1>. QED BY <1>2, <1>3, <1>4, <1>5, <1>6, <1>7, <1>8

\* Packets without a gap that start with the title line are a beginning of the message.
LEMMA BeginsWithoutGap ==
    ASSUME NEW x, WellFramed(x), NEW ps \in Seq(Packet), ps # <<>>, InOrder(ps),
           \A i \in DOMAIN ps : ps[i].seg \in PartsOf(x),
           \A i \in 2..Len(ps) :
              Seq32(ps[i]) = (Seq32(ps[i - 1]) + Payload[ps[i - 1].seg].len) % SeqSpace,
           Payload[ps[1].seg].title # "none"
    PROVE  Begins(ps, x)
<1>1. PICK n, l, P : n = Len(ps) /\ l = Len(Parts[x]) /\ P = Parts[x]
  OBVIOUS
<1>2. n \in Nat /\ DOMAIN ps = 1..n /\ n # 0 /\ \A i \in 1..n : Seq32(ps[i]) \in Nat
  BY <1>1, LenProperties, EmptySeq, ElementOfSeq, SeqNumbers
<1>3. l \in Nat \ {0} /\ DOMAIN P = 1..l /\ \A i \in 1..l : Payload[P[i]].title = "none" <=> i > 1
  BY <1>1, FramedParts
<1>4. /\ \A i, j \in 1..l : Segment[P[i]].seq = Segment[P[j]].seq => i = j
      /\ \A i \in 1..l : i > 1 =>
            Segment[P[i]].seq = (Segment[P[i - 1]].seq + Payload[P[i - 1]].len) % SeqSpace
  BY <1>1, <1>3 DEF WellFramed
<1>5. \A i \in 1..n : \E j \in 1..l : ps[i].seg = P[j]
  <2>1. PartsOf(x) = {P[j] : j \in 1..l}
    BY <1>1, <1>3 DEF PartsOf, ToSet
  <2>2. \A i \in 1..n : ps[i].seg \in PartsOf(x)
    BY <1>2
  <2>. QED BY <2>1, <2>2
<1>6. \A i, j \in 1..n : i < j => Seq32(ps[i]) < Seq32(ps[j])
  BY <1>2 DEF InOrder
<1>. DEFINE C == {i \in 1..n : ~(i \in 1..l /\ ps[i].seg = P[i])}
<1>7. C = {}
  <2>1. SUFFICES ASSUME C # {} PROVE FALSE
    OBVIOUS
  <2>2. PICK i \in C : \A j \in C : i <= j
    <3>1. C \in SUBSET Nat
      OBVIOUS
    <3>. HIDE DEF C
    <3>. QED BY <2>1, <3>1, LeastNumber
  <2>3. i \in 1..n /\ ~(i \in 1..l /\ ps[i].seg = P[i])
    BY <2>2
  <2>4. \A j \in 1..n : j < i => j \in 1..l /\ ps[j].seg = P[j]
    BY <1>2, <2>2, <2>3
  <2>5. PICK j \in 1..l : ps[i].seg = P[j]
    BY <1>5, <2>3
  <2>6. CASE i = 1
    <3>1. Payload[P[j]].title # "none"
      BY <2>5, <2>6
    <3>2. j = 1
      BY <1>3, <3>1
    <3>. QED BY <1>3, <2>3, <2>5, <2>6, <3>2
  <2>7. CASE i # 1
    <3>1. i - 1 \in 1..n /\ i - 1 < i /\ i \in 2..n /\ i > 1
      BY <1>2, <2>3, <2>7
    <3>2. i - 1 \in 1..l /\ ps[i - 1].seg = P[i - 1]
      BY <2>4, <3>1
    <3>3. Seq32(ps[i]) = (Seq32(ps[i - 1]) + Payload[ps[i - 1].seg].len) % SeqSpace
      BY <1>1, <3>1
    <3>4. Segment[P[j]].seq = (Segment[P[i - 1]].seq + Payload[P[i - 1]].len) % SeqSpace
      BY <2>5, <3>2, <3>3 DEF Seq32
    <3>5. CASE i \in 1..l
      <4>1. Segment[P[i]].seq = Segment[P[j]].seq
        BY <1>4, <3>1, <3>4, <3>5
      <4>2. i = j
        BY <1>4, <3>5, <4>1
      <4>. QED BY <2>3, <2>5, <4>2
    <3>6. CASE i \notin 1..l
      <4>1. j \in 1..n /\ j < i
        BY <1>2, <1>3, <2>3, <3>2, <3>6
      <4>2. ps[j].seg = ps[i].seg
        BY <2>4, <2>5, <4>1
      <4>3. Seq32(ps[j]) = Seq32(ps[i]) /\ Seq32(ps[j]) < Seq32(ps[i])
        BY <1>6, <2>3, <4>1, <4>2 DEF Seq32
      <4>. QED BY <1>2, <2>3, <4>3
    <3>. QED BY <3>5, <3>6
  <2>. QED BY <2>6, <2>7
<1>8. \A i \in 1..n : i \in 1..l /\ ps[i].seg = P[i]
  BY <1>7
<1>9. n \in 1..l
  BY <1>2, <1>8
<1>. QED BY <1>1, <1>8, <1>9 DEF Begins

\* All packets of a message that does not wrap are in its order.
LEMMA WholeInOrder ==
    ASSUME NEW x, WellFramed(x), ~Wraps(x), NEW ps \in Seq(Packet), InOrder(ps),
           {ps[i].seg : i \in DOMAIN ps} = PartsOf(x)
    PROVE  Begins(ps, x) /\ Len(ps) = Len(Parts[x])
<1>1. PICK n, l, P : n = Len(ps) /\ l = Len(Parts[x]) /\ P = Parts[x]
  OBVIOUS
<1>2. n \in Nat /\ DOMAIN ps = 1..n /\ \A i \in 1..n : Seq32(ps[i]) \in Nat
  BY <1>1, LenProperties, ElementOfSeq, SeqNumbers
<1>3. l \in Nat \ {0} /\ DOMAIN P = 1..l /\ \A i \in 1..l : Segment[P[i]].seq \in Nat
  BY <1>1, FramedParts
<1>4. /\ \A i, j \in 1..l : Segment[P[i]].seq = Segment[P[j]].seq => i = j
      /\ \A i, j \in 1..l : i < j => ~(Segment[P[i]].seq > Segment[P[j]].seq)
  BY <1>1, <1>3 DEF WellFramed, Wraps
<1>5. /\ \A i \in 1..n : \E j \in 1..l : ps[i].seg = P[j]
      /\ \A j \in 1..l : \E i \in 1..n : ps[i].seg = P[j]
  BY <1>1, <1>2, <1>3 DEF PartsOf, ToSet
<1>6. \A i, j \in 1..n : i < j => Seq32(ps[i]) < Seq32(ps[j])
  BY <1>2 DEF InOrder
<1>. DEFINE C == {i \in 1..n : ~(i \in 1..l /\ ps[i].seg = P[i])}
<1>7. C = {}
  <2>1. SUFFICES ASSUME C # {} PROVE FALSE
    OBVIOUS
  <2>2. PICK i \in C : \A j \in C : i <= j
    <3>1. C \in SUBSET Nat
      OBVIOUS
    <3>. HIDE DEF C
    <3>. QED BY <2>1, <3>1, LeastNumber
  <2>3. i \in 1..n /\ ~(i \in 1..l /\ ps[i].seg = P[i])
    BY <2>2
  <2>4. \A j \in 1..n : j < i => j \in 1..l /\ ps[j].seg = P[j]
    BY <1>2, <2>2, <2>3
  <2>5. PICK a \in 1..l : ps[i].seg = P[a]
    BY <1>5, <2>3
  <2>6. ~(a < i)
    <3>1. ASSUME a < i PROVE FALSE
      <4>1. a \in 1..n
        BY <1>2, <1>3, <2>3, <3>1
      <4>2. ps[a].seg = ps[i].seg
        BY <2>4, <2>5, <3>1, <4>1
      <4>3. Seq32(ps[a]) = Seq32(ps[i]) /\ Seq32(ps[a]) < Seq32(ps[i])
        BY <1>6, <2>3, <3>1, <4>1, <4>2 DEF Seq32
      <4>. QED BY <1>2, <2>3, <4>3
    <3>. QED BY <3>1
  <2>7. i \in 1..l /\ i < a
    <3>1. i \in 1..l
      BY <1>2, <1>3, <2>3, <2>6
    <3>2. i # a
      BY <2>3, <2>5, <3>1
    <3>. QED BY <1>3, <2>6, <3>1, <3>2
  <2>8. PICK b \in 1..n : ps[b].seg = P[i]
    BY <1>5, <2>7
  <2>9. ~(b < i)
    <3>1. ASSUME b < i PROVE FALSE
      <4>1. b \in 1..l /\ P[b] = P[i]
        BY <2>4, <2>8, <3>1
      <4>2. b = i
        BY <1>4, <2>7, <4>1
      <4>. QED BY <1>3, <2>7, <3>1, <4>2
    <3>. QED BY <3>1
  <2>10. b # i
    BY <2>3, <2>7, <2>8
  <2>11. i < b
    BY <1>2, <2>3, <2>9, <2>10
  <2>12. Seq32(ps[i]) = Segment[P[a]].seq /\ Seq32(ps[b]) = Segment[P[i]].seq
    BY <2>5, <2>8 DEF Seq32
  <2>13. Seq32(ps[i]) < Seq32(ps[b]) /\ ~(Segment[P[i]].seq > Segment[P[a]].seq)
    BY <1>4, <1>6, <2>3, <2>7, <2>11
  <2>. QED BY <1>2, <2>3, <2>12, <2>13
<1>8. \A i \in 1..n : i \in 1..l /\ ps[i].seg = P[i]
  BY <1>7
<1>9. n = l
  <2>1. ASSUME n # l PROVE FALSE
    <3>1. n <= l
      <4>1. CASE n = 0
        BY <1>3, <4>1
      <4>2. CASE n # 0
        <5>1. n \in 1..n
          BY <1>2, <4>2
        <5>. QED BY <1>3, <1>8, <5>1
      <4>. QED BY <4>1, <4>2
    <3>2. n + 1 \in 1..l
      BY <1>2, <1>3, <2>1, <3>1
    <3>3. PICK i \in 1..n : ps[i].seg = P[n + 1]
      BY <1>5, <3>2
    <3>4. i \in 1..l /\ P[i] = P[n + 1]
      BY <1>8, <3>3
    <3>5. i = n + 1
      BY <1>4, <3>2, <3>4
    <3>. QED BY <1>2, <3>5
  <2>. QED BY <2>1
<1>10. n \in 1..l
  BY <1>3, <1>9
<1>. QED BY <1>1, <1>8, <1>9, <1>10 DEF Begins

\* What http1EndHint says of a message whose packets are of one framed message.
LEMMA EndFramed ==
    ASSUME NEW x, WellFramed(x), NEW msg, IsMessage(msg), msg.packets # <<>>,
           \A i \in DOMAIN msg.packets :
              msg.packets[i].seg \in PartsOf(x) /\ ~Segment[msg.packets[i].seg].expect,
           msg.state \in {NewHTTPState, HeadersOf(PayloadsOf(x))}
    PROVE  /\ End(msg).state \in {NewHTTPState, HeadersOf(PayloadsOf(x))}
           /\ End(msg).full =>
                 /\ Begins(msg.packets, x)
                 /\ \/ Len(msg.packets) = Len(Parts[x])
                    \/ Payload[Parts[x][Len(msg.packets)]].tail = "last"
           /\ ~Wraps(x) /\ {msg.packets[i].seg : i \in DOMAIN msg.packets} = PartsOf(x)
              => End(msg).full
<1>1. PICK ps, q, r, n : /\ ps = msg.packets /\ q = PacketData(msg) /\ n = Len(ps)
                         /\ r = HasFullPayload(msg.state, q)
  OBVIOUS
<1>2. /\ ps \in Seq(Packet) /\ InOrder(ps) /\ n \in Nat /\ n # 0 /\ DOMAIN ps = 1..n
      /\ \A i \in 1..n : ps[i] \in Packet
  <2>1. ps \in Seq(Packet) /\ InOrder(ps) /\ ps # <<>>
    BY <1>1 DEF IsMessage
  <2>. QED BY <1>1, <2>1, LenProperties, EmptySeq, ElementOfSeq
<1>3. /\ DOMAIN q = 1..n /\ \A i \in 1..n : q[i] = Payload[ps[i].seg]
      /\ q \in Seq(PayloadRecord) /\ Len(q) = n
  <2>1. DOMAIN q = 1..n /\ q = [i \in 1..n |-> Payload[ps[i].seg]]
    BY <1>1, <1>2 DEF PacketData
  <2>2. \A i \in 1..n : Payload[ps[i].seg] \in PayloadRecord
    BY <1>2, PayloadType DEF Packet
  <2>3. q \in Seq(PayloadRecord)
    BY <1>2, <2>1, <2>2
  <2>4. Len(q) = n
    BY <1>2, <2>1, <2>3, LenProperties
  <2>. QED BY <2>1, <2>3, <2>4
<1>4. \A i \in 1..n : ~q[i].expect
  <2>1. \A i \in 1..n : ps[i].seg \in Wire /\ ~Segment[ps[i].seg].expect
    BY <1>1, <1>2 DEF Packet
  <2>2. \A w \in Wire : Payload[w].expect = Segment[w].expect
    BY DEF Payload
  <2>. QED BY <1>3, <2>1, <2>2
<1>5. ASSUME Begins(ps, x) PROVE FirstPayloads(q, PayloadsOf(x), n)
  <2>1. n \in 1..Len(Parts[x]) /\ \A i \in 1..n : ps[i].seg = Parts[x][i]
    BY <1>1, <1>5 DEF Begins
  <2>2. DOMAIN PayloadsOf(x) = 1..Len(Parts[x]) /\ Len(Parts[x]) \in Nat
    BY FramedParts, LenProperties
  <2>3. \A i \in 1..n : i \in 1..Len(Parts[x])
    BY <2>1, <2>2
  <2>4. \A i \in 1..n : q[i] = PayloadsOf(x)[i]
    BY <1>3, <2>1, <2>3, FramedParts
  <2>. QED BY <1>3, <2>1, <2>2, <2>4 DEF FirstPayloads
<1>6. ASSUME Begins(ps, x)
      PROVE  /\ r.state \in {NewHTTPState, HeadersOf(PayloadsOf(x))}
             /\ n = Len(Parts[x]) => r.full
             /\ r.full => n = Len(Parts[x]) \/ Payload[Parts[x][n]].tail = "last"
  <2>1. PICK y, k : y = PayloadsOf(x) /\ k = n
    OBVIOUS
  <2>2. Framed(y) /\ FirstPayloads(q, y, k) /\ (\A i \in 1..k : ~q[i].expect)
        /\ msg.state \in {NewHTTPState, HeadersOf(y)} /\ r = HasFullPayload(msg.state, q)
    BY <1>1, <1>4, <1>5, <1>6, <2>1 DEF WellFramed
  <2>3. /\ r.state \in {NewHTTPState, HeadersOf(y)}
        /\ k = Len(y) => r.full
        /\ r.full => k = Len(y) \/ y[k].tail = "last"
    BY <2>2, FullFramed
  <2>4. n \in 1..Len(Parts[x])
    BY <1>1, <1>6 DEF Begins
  <2>5. Len(y) = Len(Parts[x]) /\ y[n] = Payload[Parts[x][n]]
    BY <2>1, <2>4, FramedParts
  <2>. QED BY <2>1, <2>3, <2>5
<1>7. CASE MissingChunk(msg)
  <2>1. End(msg).state = msg.state /\ End(msg).full = FALSE
    BY <1>7 DEF End
  <2>2. ASSUME ~Wraps(x), {ps[i].seg : i \in DOMAIN ps} = PartsOf(x) PROVE FALSE
    <3>1. Begins(ps, x)
      BY <1>2, <2>2, WholeInOrder
    <3>2. \A i \in 1..n : i \in 1..Len(Parts[x]) /\ ps[i].seg = Parts[x][i]
      BY <1>1, <1>2, <3>1 DEF Begins
    <3>3. PICK i \in 2..n : Seq32(ps[i]) # (Seq32(ps[i - 1]) + Payload[ps[i - 1].seg].len) % SeqSpace
      BY <1>1, <1>7 DEF MissingChunk
    <3>4. i \in 1..n /\ i - 1 \in 1..n /\ i > 1
      BY <1>2
    <3>5. i \in DOMAIN Parts[x]
      BY <3>2, <3>4, FramedParts
    <3>6. Segment[Parts[x][i]].seq =
             (Segment[Parts[x][i - 1]].seq + Payload[Parts[x][i - 1]].len) % SeqSpace
      BY <3>4, <3>5 DEF WellFramed
    <3>. QED BY <3>2, <3>3, <3>4, <3>6 DEF Seq32
  <2>. QED BY <1>1, <2>1, <2>2
<1>8. CASE ~MissingChunk(msg)
  <2>1. End(msg) = r
    BY <1>1, <1>8 DEF End
  <2>2. \A i \in 2..n : Seq32(ps[i]) = (Seq32(ps[i - 1]) + Payload[ps[i - 1].seg].len) % SeqSpace
    BY <1>1, <1>8 DEF MissingChunk
  <2>3. CASE Payload[ps[1].seg].title = "none"
    <3>1. q[1].title = "none"
      BY <1>2, <1>3, <2>3
    <3>2. r.state = msg.state /\ r.full = FALSE
      BY <1>1, <3>1 DEF HasFullPayload
    <3>3. ASSUME ~Wraps(x), {ps[i].seg : i \in DOMAIN ps} = PartsOf(x) PROVE FALSE
      <4>1. Begins(ps, x)
        BY <1>2, <3>3, WholeInOrder
      <4>2. 1 \in 1..n
        BY <1>2
      <4>3. ps[1].seg = Parts[x][1]
        BY <1>1, <4>1, <4>2 DEF Begins
      <4>4. 1 \in 1..Len(Parts[x]) /\ ~(1 > 1)
        BY FramedParts
      <4>. QED BY <2>3, <4>3, <4>4, FramedParts
    <3>. QED BY <1>1, <2>1, <3>2, <3>3
  <2>4. CASE Payload[ps[1].seg].title # "none"
    <3>1. Begins(ps, x)
      <4>1. ps # <<>> /\ \A i \in DOMAIN ps : ps[i].seg \in PartsOf(x)
        BY <1>1
      <4>. QED BY <1>1, <1>2, <2>2, <2>4, <4>1, BeginsWithoutGap
    <3>2. {ps[i].seg : i \in DOMAIN ps} = PartsOf(x) /\ ~Wraps(x) => n = Len(Parts[x])
      BY <1>1, <1>2, WholeInOrder
    <3>. QED BY <1>1, <1>6, <2>1, <3>1, <3>2
  <2>. QED BY <2>3, <2>4
<1>. QED BY <1>7, <1>8

-----------------------------------------------------------------------------
(* The messages in progress, when they are framed. *)

\* The segments that the packets ps are copies of
Contents(ps) == ToSet(SegmentsOf(ps))

\* The messages on their way out
Leaving == Sending \cup ToSet(messages)

\* A segment that is on the wire and that the parser can read
Seen(w) == traffic[w] > 0 /\ Parsed[w].result = "packet"

\* While a message holds segments of one framed message only, the headers that its
\* protocol state was read from are those of that message.
States ==
    \A id \in DOMAIN heap : \A x \in DOMAIN Parts :
        WellFramed(x) /\ Contents(heap[id].packets) \subseteq PartsOf(x)
        => heap[id].state \in {NewHTTPState, HeadersOf(PayloadsOf(x))}

AllSeen == \A id \in DOMAIN heap : \A w \in Contents(heap[id].packets) : Seen(w)

\* What is in the map does not hold all of a framed message.
Waits ==
    \A k \in DOMAIN m : \A x \in DOMAIN Parts :
        WellFramed(x) /\ ~Wraps(x) => Contents(heap[m[k]].packets) # PartsOf(x)

FramingInv == States /\ AllSeen /\ Waits

\* ps is a framed message, up to its end or to a segment that looks like it.
Whole(ps) ==
    \E x \in DOMAIN Parts :
        /\ WellFramed(x) /\ Begins(ps, x)
        /\ Len(ps) = Len(Parts[x]) \/ Payload[Parts[x][Len(ps)]].tail = "last"

Ended == \A id \in Leaving : Whole(heap[id].packets)

\* The segments with the same ports, addresses and Ack as one that is seen are those of
\* one framed message.
Separate ==
    \A w \in Wire : Seen(w) =>
        \E x \in DOMAIN Parts :
            /\ WellFramed(x) /\ w \in PartsOf(x)
            /\ \A v \in Wire : Seen(v) /\ KeyOnWire(v) = KeyOnWire(w) => v \in PartsOf(x)

\* Steps after which every message holds what it did, none is new in the map, and
\* none is on its way out that was not.
Keeps ==
    /\ DOMAIN heap' = DOMAIN heap
    /\ \A id \in DOMAIN heap : /\ SegmentsOf(heap'[id].packets) = SegmentsOf(heap[id].packets)
                              /\ heap'[id].state = heap[id].state
    /\ \A k \in DOMAIN m' : k \in DOMAIN m /\ m'[k] = m[k]
    /\ AllowIncomplete \/ Leaving' \subseteq Leaving

\* Calls that begin and end without a send change nothing of this.
LEMMA SameKeeps ==
    ASSUME heap' = heap, Leaving' \subseteq Leaving,
           \A k \in DOMAIN m' : k \in DOMAIN m /\ m'[k] = m[k]
    PROVE  Keeps
<1>. QED BY DEF Keeps

LEMMA SendKeeps ==
    ASSUME IInv, PlainInv, Send
    PROVE  Keeps
<1>1. IsSeq(stack) /\ IsSeq(messages)
  BY SeqIsSeq DEF IInv, IsParser, Parser, IsStack
<1>2. PICK id : id = Top.id
  OBVIOUS
<1>3. /\ stack # <<>> /\ Head(stack).call = "Emit" /\ stack' = Tail(stack)
      /\ messages' = Append(messages, id) /\ heap' = heap /\ m' = m
  BY <1>2 DEF Send, Running, Idle, SetParser, Return, Parser
<1>4. TimersOnly(stack') /\ IsSeq(stack') /\ Sending = {id}
  BY <1>1, <1>2, <1>3, StackOfCall DEF PlainInv, Sending, Top
<1>5. Sending' = {}
  BY <1>4, StackOfTimers DEF Sending
<1>6. /\ DOMAIN messages' = DOMAIN messages \cup {Len(messages) + 1}
      /\ messages'[Len(messages) + 1] = id
      /\ \A i \in DOMAIN messages : messages'[i] = messages[i]
  BY <1>1, <1>3, AppendIsSeq
<1>7. ToSet(messages') = ToSet(messages) \cup {id}
  BY <1>6 DEF ToSet
<1>8. Leaving' \subseteq Leaving
  BY <1>4, <1>5, <1>7 DEF Leaving
<1>. QED BY <1>3, <1>8, SameKeeps

LEMMA TimerKeeps ==
    ASSUME IInv, PlainInv, Timer \/ TimerReturns
    PROVE  Keeps
<1>1. IsSeq(stack)
  BY DEF IInv, IsParser, Parser, IsStack
<1>2. heap' = heap /\ m' = m /\ messages' = messages
  BY DEF Timer, TimerReturns, SetParser, Call, Return, Parser
<1>3. Sending' = {}
  <2>1. CASE Timer
    <3>1. TimersOnly(stack) /\ stack' = <<Expiring(DOMAIN m)>> \o stack
      <4>1. stack = <<>> /\ stack' = <<Expiring(DOMAIN m)>> \o stack
        BY <2>1 DEF Timer, Idle, SetParser, Call, Parser
      <4>2. DOMAIN stack = {}
        BY <4>1, <1>1, SeqParts, EmptySeq
      <4>. QED BY <4>1, <4>2 DEF TimersOnly
    <3>2. TimersOnly(stack') /\ IsSeq(stack')
      BY <1>1, <3>1, StackWithTimer
    <3>. QED BY <3>2, StackOfTimers DEF Sending
  <2>2. CASE TimerReturns
    <3>1. stack # <<>> /\ Head(stack).call = "timer" /\ stack' = Tail(stack)
      BY <2>2 DEF TimerReturns, Running, Idle, SetParser, Return, Parser
    <3>2. TimersOnly(stack') /\ IsSeq(stack')
      BY <1>1, <3>1, StackOfCall DEF PlainInv
    <3>. QED BY <3>2, StackOfTimers DEF Sending
  <2>. QED BY <2>1, <2>2
<1>4. Leaving' \subseteq Leaving
  BY <1>2, <1>3 DEF Leaving
<1>. QED BY <1>2, <1>4, SameKeeps

LEMMA ExpireOneKeeps ==
    ASSUME IInv, PlainInv, ExpireOne
    PROVE  Keeps
<1>1. IsSeq(stack)
  BY DEF IInv, IsParser, Parser, IsStack
<1>2. PICK k \in Top.keys \cap DOMAIN m :
         LET msg  == heap[m[k]]
             next == Call(Return(Parser), Expiring(Top.keys \ {k}))
         IN  SetParser(
               IF ~Expired(msg) THEN next
               ELSE IF AllowIncomplete THEN Emit(next, m[k])
               ELSE [next EXCEPT !.m = Without(@, KeyOf(msg)), !.dropped = DroppedWith(m[k])])
  BY DEF ExpireOne
<1>3. PICK next : next = Call(Return(Parser), Expiring(Top.keys \ {k}))
  OBVIOUS
<1>4. PICK map, e, d, c : /\ map = Without(m, KeyOf(heap[m[k]])) /\ e = Emitting(m[k])
                          /\ d = DroppedWith(m[k]) /\ c = Expiring(Top.keys \ {k})
  OBVIOUS
<1>5. /\ next.heap = heap /\ next.m = m /\ next.dropped = dropped /\ next.stack = <<c>> \o Tail(stack)
      /\ DOMAIN next = {"heap", "m", "stack", "dropped"}
  BY <1>3, <1>4 DEF Call, Return, Parser
<1>6. Emit(next, m[k]) = [next EXCEPT !.m = map, !.stack = <<e>> \o next.stack]
  BY <1>4, <1>5 DEF Emit, Call
<1>7. /\ heap' = heap /\ (m' = m \/ m' = map)
      /\ AllowIncomplete \/ stack' = next.stack
  <2>1. CASE ~Expired(heap[m[k]])
    <3>1. SetParser(next)
      BY <1>2, <1>3, <2>1
    <3>. QED BY <1>5, <3>1 DEF SetParser
  <2>2. CASE Expired(heap[m[k]]) /\ AllowIncomplete
    <3>1. SetParser([next EXCEPT !.m = map, !.stack = <<e>> \o next.stack])
      BY <1>2, <1>3, <1>6, <2>2
    <3>. QED BY <1>5, <2>2, <3>1 DEF SetParser
  <2>3. CASE Expired(heap[m[k]]) /\ ~AllowIncomplete
    <3>1. SetParser([next EXCEPT !.m = map, !.dropped = d])
      BY <1>2, <1>3, <1>4, <1>5, <2>3
    <3>. QED BY <1>5, <3>1 DEF SetParser
  <2>. QED BY <2>1, <2>2, <2>3
<1>8. \A j \in DOMAIN m' : j \in DOMAIN m /\ m'[j] = m[j]
  BY <1>4, <1>7 DEF Without
<1>9. AllowIncomplete \/ Leaving' \subseteq Leaving
  <2>1. stack # <<>> /\ Head(stack).call = "timer" /\ messages' = messages
    BY DEF ExpireOne, Running, Idle
  <2>2. TimersOnly(Tail(stack)) /\ IsSeq(Tail(stack))
    BY <1>1, <2>1, StackOfCall DEF PlainInv
  <2>3. TimersOnly(next.stack) /\ IsSeq(next.stack)
    BY <1>4, <1>5, <2>2, StackWithTimer
  <2>4. stack' = next.stack => Sending' = {}
    BY <2>3, StackOfTimers DEF Sending
  <2>. QED BY <1>7, <2>1, <2>4 DEF Leaving
<1>. QED BY <1>7, <1>8, <1>9 DEF Keeps

LEMMA TimePassesKeeps ==
    ASSUME IInv, PlainInv, TimePasses
    PROVE  Keeps
<1>1. m' = m /\ messages' = messages /\ DOMAIN heap' = DOMAIN heap
  BY DEF TimePasses
<1>2. ASSUME NEW id \in DOMAIN heap
      PROVE  /\ SegmentsOf(heap'[id].packets) = SegmentsOf(heap[id].packets)
             /\ heap'[id].state = heap[id].state
  <2>1. heap[id].packets \in Seq(Packet) /\ DOMAIN heap[id] = {"packets", "direction", "state"}
    BY DEF IInv, IsParser, Parser, IsHeap, IsMessage
  <2>2. heap'[id] = heap[id] \/ heap'[id] = [heap[id] EXCEPT !.packets = AllOlder(@)]
    BY DEF TimePasses
  <2>3. PICK ps : ps = heap[id].packets
    OBVIOUS
  <2>4. SegmentsOf(AllOlder(ps)) = SegmentsOf(ps)
    <3>1. /\ DOMAIN AllOlder(ps) = DOMAIN ps
          /\ \A i \in DOMAIN ps : AllOlder(ps)[i].seg = ps[i].seg
      BY <2>1, <2>3, AgedPackets
    <3>. QED BY <3>1 DEF SegmentsOf
  <2>5. /\ heap'[id].state = heap[id].state
        /\ heap'[id].packets = ps \/ heap'[id].packets = AllOlder(ps)
    BY <2>1, <2>2, <2>3
  <2>. QED BY <2>3, <2>4, <2>5
<1>3. Sending' = Sending
  <2>1. /\ DOMAIN stack' = DOMAIN stack
        /\ \A i \in DOMAIN stack : stack'[i].call = stack[i].call /\ stack'[i].id = stack[i].id
    <3>1. \A i \in DOMAIN stack : DOMAIN stack[i] = {"call", "id", "rest", "keys"}
      BY DEF IInv, IsParser, Parser, IsStack, IsCall
    <3>2. DOMAIN stack' = DOMAIN stack
          /\ \A i \in DOMAIN stack : stack'[i] = [stack[i] EXCEPT !.rest = AllOlder(@)]
      BY DEF TimePasses
    <3>. QED BY <3>1, <3>2
  <2>2. {j \in DOMAIN stack' : stack'[j].call = "Emit"} = {j \in DOMAIN stack : stack[j].call = "Emit"}
    BY <2>1
  <2>. QED BY <2>1, <2>2 DEF Sending, EmitsOf
<1>. QED BY <1>1, <1>2, <1>3 DEF Keeps, Leaving

LEMMA PluginReaderKeeps ==
    ASSUME IInv, PlainInv, PluginReader
    PROVE  Keeps
<1>1. messages # <<>> /\ messages' = Tail(messages) /\ heap' = heap /\ m' = m /\ stack' = stack
  BY DEF PluginReader
<1>2. IsSeq(messages)
  BY SeqIsSeq DEF IInv
<1>3. \A i \in DOMAIN messages' : i + 1 \in DOMAIN messages /\ messages'[i] = messages[i + 1]
  BY <1>1, <1>2, TailIsSeq
<1>4. Leaving' \subseteq Leaving
  BY <1>1, <1>3 DEF Leaving, Sending, EmitsOf, ToSet
<1>. QED BY <1>1, <1>4, SameKeeps

\* Every step but the one with which a packet becomes part of a message.
LEMMA StepKeeps ==
    ASSUME IInv, Plain, PlainInv, [Next]_vars
    PROVE  \/ Keeps
           \/ /\ Receive /\ packets \in Seq(Packet) /\ packets # <<>> /\ Head(packets) \in Packet
              /\ traffic[Head(packets).seg] > 0
              /\ Head(packets).ack = Segment[Head(packets).seg].ack
              /\ \E id, ps : TakenInto(Head(packets), id, ps)
<1>1. CASE Receive
  <2>1. PICK p : p = Head(packets)
    OBVIOUS
  <2>2. packets \in Seq(Packet) /\ packets # <<>> /\ p \in Packet
    BY <1>1, <2>1, HeadTailProperties DEF Receive, IInv
  <2>3. 1 \in DOMAIN packets /\ p = packets[1]
    BY <2>1, <2>2, SeqIsSeq, TailIsSeq
  <2>4. traffic[p.seg] > 0 /\ p.ack = Segment[p.seg].ack
    BY <2>3 DEF PlainInv, PlainQueue, OnWire
  <2>5. LetGo(p) \/ \E id, ps : TakenInto(p, id, ps)
    BY <1>1, <2>1, <2>2, <2>4, PlainProcessPacket DEF Receive
  <2>6. LetGo(p) => Keeps
    <3>1. messages' = messages
      BY <1>1 DEF Receive
    <3>. QED BY <3>1 DEF LetGo, Keeps, Leaving, Sending
  <2>. QED BY <1>1, <2>1, <2>2, <2>4, <2>5, <2>6
<1>2. CASE Capture
  <2>1. heap' = heap /\ m' = m /\ stack' = stack /\ messages' = messages
    BY <1>2 DEF Capture, PacketHandler
  <2>2. Leaving' = Leaving
    BY <2>1 DEF Leaving, Sending
  <2>. QED BY <2>1, <2>2, SameKeeps
<1>3. CASE UNCHANGED vars
  <2>1. heap' = heap /\ m' = m /\ stack' = stack /\ messages' = messages
    BY <1>3 DEF vars
  <2>2. Leaving' = Leaving
    BY <2>1 DEF Leaving, Sending
  <2>. QED BY <2>1, <2>2, SameKeeps
<1>4. CASE Wait
  BY <1>1, <1>4, NoMergePlain, SendKeeps, TimerKeeps, ExpireOneKeeps DEF Wait
<1>5. CASE PluginReader
  BY <1>5, PluginReaderKeeps
<1>6. CASE TimePasses
  BY <1>6, TimePassesKeeps
<1>. QED BY <1>2, <1>3, <1>4, <1>5, <1>6 DEF Next

\* The sets of segments of packets
LEMMA ContentsOf ==
    ASSUME NEW ps
    PROVE  Contents(ps) = {ps[i].seg : i \in DOMAIN ps}
<1>. QED BY DEF Contents, SegmentsOf, ToSet

\* A packet that becomes part of a message, and how http1EndHint sees the message then.
LEMMA TakenFacts ==
    ASSUME IInv, Plain, PlainInv, IInv', PlainInv', Receive, packets \in Seq(Packet),
           NEW p \in Packet, p = Head(packets), NEW id, NEW ps, TakenInto(p, id, ps)
    PROVE  /\ id \in DOMAIN heap' /\ id \notin Leaving
           /\ \A jd \in DOMAIN heap' : jd # id => jd \in DOMAIN heap /\ heap'[jd] = heap[jd]
           /\ Contents(heap'[id].packets) = Contents(ps) \cup {p.seg}
           /\ MessageID(p) \notin DOMAIN m => ps = <<>> /\ Contents(ps) = {}
           /\ MessageID(p) \in DOMAIN m =>
                 id \in DOMAIN heap /\ id = m[MessageID(p)] /\ ps = heap[id].packets
           /\ \A k \in DOMAIN m' : \/ k = MessageID(p) /\ m'[k] = id
                                   \/ k \in DOMAIN m /\ m'[k] = m[k] /\ m[k] # id
           /\ Leaving' \subseteq Leaving \cup {id}
           /\ MessageID(p) \in DOMAIN m' => Leaving' \subseteq Leaving
           /\ traffic' = traffic /\ ~IsEmpty(p)
           /\ \A i \in DOMAIN heap'[id].packets : ~Segment[heap'[id].packets[i].seg].expect
<1>1. PICK k : k = MessageID(p)
  OBVIOUS
<1>2. /\ \/ /\ k \in DOMAIN m /\ id = m[k] /\ ps = heap[id].packets
            /\ DOMAIN heap' = DOMAIN heap
         \/ /\ k \notin DOMAIN m /\ id = Len(heap) + 1 /\ ps = <<>>
            /\ DOMAIN heap' = DOMAIN heap \cup {id}
      /\ \A i \in DOMAIN ps : Seq32(ps[i]) # Seq32(p)
      /\ heap'[id].packets = Inserted(ps, p)
      /\ \A jd \in DOMAIN heap : jd # id => heap'[jd] = heap[jd]
      /\ \A j \in DOMAIN m : j # k => m'[j] = m[j]
      /\ \/ /\ DOMAIN m' = DOMAIN m \cup {k} /\ m'[k] = id
            /\ stack' = stack
         \/ /\ DOMAIN m' = DOMAIN m \ {k}
            /\ stack' = <<Emitting(id)>> \o stack
      /\ ~IsEmpty(p)
  BY <1>1 DEF TakenInto
<1>3. /\ stack = <<>> /\ UNCHANGED <<traffic, captured, tick, messages, delivered>>
      /\ IsSeq(stack) /\ DOMAIN stack = {}
  <2>1. /\ stack = <<>> /\ UNCHANGED <<traffic, captured, tick, messages, delivered>>
    BY DEF Receive, Idle
  <2>2. IsSeq(stack)
    BY DEF IInv, IsParser, Parser, IsStack
  <2>. QED BY <2>1, <2>2, SeqParts, EmptySeq
<1>4. \A j \in DOMAIN m : m[j] \in DOMAIN heap /\ m[j] \in Mapped
  BY DEF IInv, IsParser, Parser, Mapped
<1>5. Len(heap) + 1 \notin DOMAIN heap
  <2>1. IsSeq(heap)
    BY DEF IInv, IsParser, IsHeap, Parser
  <2>2. Len(heap) \in Nat /\ DOMAIN heap = 1..Len(heap)
    BY <2>1, SeqParts
  <2>. QED BY <2>2
<1>6. DOMAIN heap' = DOMAIN heap \cup {id} /\ (id \in DOMAIN heap <=> k \in DOMAIN m)
  BY <1>2, <1>4, <1>5
<1>7. Sending = {} /\ Sending' = IF k \in DOMAIN m' THEN {} ELSE {id}
  <2>1. TimersOnly(stack)
    BY <1>3 DEF TimersOnly
  <2>2. EmitsOf(stack) = {} /\ EmitsOf(<<Emitting(id)>> \o stack) = {id}
    BY <1>3, <2>1, StackOfTimers
  <2>3. CASE k \in DOMAIN m'
    <3>1. stack' = stack
      BY <1>2, <2>3
    <3>. QED BY <2>2, <2>3, <3>1 DEF Sending
  <2>4. CASE k \notin DOMAIN m'
    <3>1. stack' = <<Emitting(id)>> \o stack
      BY <1>2, <2>4
    <3>. QED BY <2>2, <2>4, <3>1 DEF Sending
  <2>. QED BY <2>3, <2>4
<1>8. id \notin Leaving
  <2>1. CASE k \in DOMAIN m
    <3>1. id \in Mapped /\ id \notin Emitted
      BY <1>2, <1>4, <2>1 DEF PlainInv, OnePlace
    <3>. QED BY <1>7, <3>1 DEF Leaving, Emitted
  <2>2. CASE k \notin DOMAIN m
    BY <1>6, <1>7, <2>2, AliveExists DEF Leaving
  <2>. QED BY <2>1, <2>2
<1>9. Leaving' \subseteq Leaving \cup {id} /\ (k \in DOMAIN m' => Leaving' \subseteq Leaving)
  BY <1>3, <1>7 DEF Leaving
<1>10. ps \in Seq(Packet) /\ InOrder(ps) /\ (k \notin DOMAIN m => ps = <<>> /\ DOMAIN ps = {})
  <2>1. CASE k \in DOMAIN m
    <3>1. id \in DOMAIN heap /\ ps = heap[id].packets
      BY <1>2, <1>6, <2>1
    <3>. QED BY <2>1, <3>1, CopiesType
  <2>2. CASE k \notin DOMAIN m
    <3>1. <<>> \in Seq(Packet) /\ DOMAIN <<>> = {}
      BY EmptyRest, LenProperties
    <3>2. ps = <<>>
      BY <1>2, <2>2
    <3>3. ps \in Seq(Packet) /\ DOMAIN ps = {}
      BY <3>1, <3>2, Zenon
    <3>. QED BY <3>2, <3>3 DEF InOrder
  <2>. QED BY <2>1, <2>2
<1>11. PICK qs : qs = Inserted(ps, p)
  OBVIOUS
<1>12. qs \in Seq(Packet) /\ qs # <<>> /\ ToSet(qs) = ToSet(ps) \cup {p}
  BY <1>2, <1>10, <1>11, InsertedPackets
<1>13. Contents(qs) = Contents(ps) \cup {p.seg}
  <2>1. Contents(qs) = {q.seg : q \in ToSet(qs)} /\ Contents(ps) = {q.seg : q \in ToSet(ps)}
    BY ContentsOf DEF ToSet
  <2>. QED BY <1>12, <2>1
<1>14. k \notin DOMAIN m => ps = <<>> /\ Contents(ps) = {}
  BY <1>10, ContentsOf
<1>15. ASSUME NEW j \in DOMAIN m'
       PROVE  \/ j = k /\ m'[j] = id
              \/ j \in DOMAIN m /\ m'[j] = m[j] /\ m[j] # id
  <2>1. CASE j = k
    <3>1. (DOMAIN m' = DOMAIN m \cup {k} /\ m'[k] = id) \/ DOMAIN m' = DOMAIN m \ {k}
      BY <1>2
    <3>2. m'[k] = id
      BY <2>1, <3>1
    <3>. QED BY <2>1, <3>2
  <2>2. CASE j # k
    <3>1. j \in DOMAIN m /\ m'[j] = m[j]
      BY <1>2, <2>2
    <3>2. m[j] # id
      <4>1. CASE k \in DOMAIN m
        BY <1>2, <2>2, <3>1, <4>1, OneKeyEach
      <4>2. CASE k \notin DOMAIN m
        BY <1>4, <1>6, <3>1, <4>2
      <4>. QED BY <4>1, <4>2
    <3>. QED BY <3>1, <3>2
  <2>. QED BY <2>1, <2>2
<1>16. \A i \in DOMAIN heap'[id].packets : ~Segment[heap'[id].packets[i].seg].expect
  <2>1. id \in DOMAIN heap'
    BY <1>6
  <2>2. \A i \in DOMAIN heap'[id].packets : traffic[heap'[id].packets[i].seg] > 0
    BY <1>3, <2>1 DEF PlainInv, PlainHeap, PlainMessage, OnWire
  <2>3. \A i \in DOMAIN qs : qs[i] \in Packet
    BY <1>12, LenProperties, ElementOfSeq
  <2>4. \A i \in DOMAIN heap'[id].packets : heap'[id].packets[i].seg \in Wire
    BY <1>2, <1>11, <2>3 DEF Packet
  <2>. QED BY <2>2, <2>4 DEF Plain
<1>. QED BY <1>1, <1>2, <1>3, <1>6, <1>8, <1>9, <1>11, <1>13, <1>14, <1>15, <1>16

\* The message in which the packet is, when it and the packets before it are of the framed
\* message x: it is left in the map unless http1EndHint sees its end.
LEMMA TakenEnd ==
    ASSUME IInv, Plain, PlainInv, IInv', PlainInv', Receive, packets \in Seq(Packet),
           NEW p \in Packet, p = Head(packets), NEW id, NEW ps, TakenInto(p, id, ps), States,
           NEW x \in DOMAIN Parts, WellFramed(x), Contents(heap'[id].packets) \subseteq PartsOf(x)
    PROVE  /\ heap'[id].state \in {NewHTTPState, HeadersOf(PayloadsOf(x))}
           /\ MessageID(p) \notin DOMAIN m' => Whole(heap'[id].packets)
           /\ ~Wraps(x) /\ Contents(heap'[id].packets) = PartsOf(x) => MessageID(p) \notin DOMAIN m'
<1>1. PICK k, st : k = MessageID(p) /\ st = IF MessageID(p) \in DOMAIN m THEN heap[id].state ELSE NewHTTPState
  OBVIOUS
<1>2. PICK msg : Judged(msg, st, id) /\ (End(msg).full <=> k \notin DOMAIN m')
  BY <1>1 DEF TakenInto
<1>3. /\ IsMessage(msg) /\ msg.state = st /\ msg.packets = heap'[id].packets
      /\ heap'[id].state = End(msg).state
  BY <1>2 DEF Judged
<1>4. /\ id \in DOMAIN heap' /\ Contents(ps) \subseteq PartsOf(x)
      /\ MessageID(p) \in DOMAIN m => id \in DOMAIN heap /\ ps = heap[id].packets
      /\ \A i \in DOMAIN msg.packets : ~Segment[msg.packets[i].seg].expect
  BY <1>3, TakenFacts
<1>5. st \in {NewHTTPState, HeadersOf(PayloadsOf(x))}
  <2>1. CASE MessageID(p) \in DOMAIN m
    BY <1>1, <1>4, <2>1 DEF States
  <2>2. CASE MessageID(p) \notin DOMAIN m
    BY <1>1, <2>2
  <2>. QED BY <2>1, <2>2
<1>6. Contents(heap'[id].packets) = {msg.packets[i].seg : i \in DOMAIN msg.packets}
  BY <1>3, ContentsOf
<1>7. msg.packets # <<>>
  BY <1>3, <1>4 DEF PlainInv, PlainHeap, PlainMessage
<1>8. \A i \in DOMAIN msg.packets :
          msg.packets[i].seg \in PartsOf(x) /\ ~Segment[msg.packets[i].seg].expect
  BY <1>4, <1>6
<1>9. /\ End(msg).state \in {NewHTTPState, HeadersOf(PayloadsOf(x))}
      /\ End(msg).full =>
            /\ Begins(msg.packets, x)
            /\ \/ Len(msg.packets) = Len(Parts[x])
               \/ Payload[Parts[x][Len(msg.packets)]].tail = "last"
      /\ ~Wraps(x) /\ {msg.packets[i].seg : i \in DOMAIN msg.packets} = PartsOf(x)
         => End(msg).full
  BY <1>3, <1>5, <1>7, <1>8, EndFramed
<1>10. End(msg).full => Whole(heap'[id].packets)
  BY <1>3, <1>9 DEF Whole
<1>. QED BY <1>1, <1>2, <1>3, <1>6, <1>9, <1>10

\* What is said of the segments of packets does not tell their ages apart.
LEMMA SameSegments ==
    ASSUME NEW ps, NEW qs, SegmentsOf(ps) = SegmentsOf(qs)
    PROVE  /\ Contents(ps) = Contents(qs)
           /\ ps \in Seq(Packet) /\ qs \in Seq(Packet) /\ Whole(ps) => Whole(qs)
<1>1. DOMAIN ps = DOMAIN qs /\ \A i \in DOMAIN ps : ps[i].seg = qs[i].seg
  BY DEF SegmentsOf
<1>2. ASSUME ps \in Seq(Packet), qs \in Seq(Packet), Whole(ps) PROVE Whole(qs)
  <2>1. PICK x \in DOMAIN Parts :
           /\ WellFramed(x) /\ Begins(ps, x)
           /\ Len(ps) = Len(Parts[x]) \/ Payload[Parts[x][Len(ps)]].tail = "last"
    BY <1>2 DEF Whole
  <2>2. PICK n : n = Len(ps)
    OBVIOUS
  <2>3. n \in Nat /\ DOMAIN ps = 1..n /\ Len(qs) \in Nat /\ DOMAIN qs = 1..Len(qs)
    BY <1>2, <2>2, LenProperties
  <2>4. Len(qs) = n
    <3>1. PICK l : l = Len(qs)
      OBVIOUS
    <3>2. l \in Nat /\ n \in Nat /\ 1..n = 1..l
      BY <1>1, <2>3, <3>1, Zenon
    <3>3. l = n
      BY ONLY <3>2
    <3>. QED BY <3>1, <3>3
  <2>5. n \in 1..Len(Parts[x]) /\ \A i \in 1..n : ps[i].seg = Parts[x][i]
    BY <2>1, <2>2 DEF Begins
  <2>6. \A i \in 1..n : qs[i].seg = Parts[x][i]
    BY <1>1, <2>3, <2>5
  <2>7. Begins(qs, x)
    BY <1>2, <2>4, <2>5, <2>6 DEF Begins
  <2>. QED BY <2>1, <2>2, <2>4, <2>7 DEF Whole
<1>. QED BY <1>2 DEF Contents

LEMMA KeepsFraming ==
    ASSUME IInv, Keeps, FramingInv, traffic' = traffic
    PROVE  FramingInv'
<1>1. \A id \in DOMAIN heap : /\ Contents(heap'[id].packets) = Contents(heap[id].packets)
                             /\ heap'[id].state = heap[id].state
  BY SameSegments DEF Keeps
<1>2. States'
  BY <1>1 DEF Keeps, FramingInv, States
<1>3. AllSeen'
  BY <1>1 DEF Keeps, FramingInv, AllSeen, Seen
<1>4. Waits'
  <2>. SUFFICES ASSUME NEW k \in DOMAIN m', NEW x \in DOMAIN Parts, WellFramed(x), ~Wraps(x)
                PROVE  Contents(heap'[m'[k]].packets) # PartsOf(x)
    BY DEF Waits
  <2>1. k \in DOMAIN m /\ m'[k] = m[k] /\ m[k] \in DOMAIN heap
    BY DEF Keeps, IInv, IsParser, Parser
  <2>2. Contents(heap[m[k]].packets) # PartsOf(x)
    BY <2>1 DEF FramingInv, Waits
  <2>. QED BY <1>1, <2>1, <2>2
<1>. QED BY <1>2, <1>3, <1>4 DEF FramingInv

LEMMA KeepsEnded ==
    ASSUME IInv, IInv', PlainInv, Keeps, Ended, ~AllowIncomplete
    PROVE  Ended'
<1>. SUFFICES ASSUME NEW id \in Leaving' PROVE Whole(heap'[id].packets)
  BY DEF Ended
<1>1. id \in Leaving /\ id \in DOMAIN heap /\ id \in DOMAIN heap'
  BY AliveExists DEF Keeps, Leaving, Alive, Emitted
<1>2. heap[id].packets \in Seq(Packet)
  BY <1>1 DEF IInv, IsParser, Parser, IsHeap, IsMessage
<1>3. heap'[id].packets \in Seq(Packet)
  BY <1>1 DEF IInv, IsParser, Parser, IsHeap, IsMessage
<1>4. Whole(heap[id].packets) /\ SegmentsOf(heap[id].packets) = SegmentsOf(heap'[id].packets)
  BY <1>1 DEF Ended, Keeps
<1>. QED BY <1>2, <1>3, <1>4, SameSegments

LEMMA TakenFraming ==
    ASSUME IInv, Plain, PlainInv, IInv', PlainInv', Receive, packets \in Seq(Packet),
           NEW p \in Packet, p = Head(packets), traffic[p.seg] > 0,
           NEW id, NEW ps, TakenInto(p, id, ps), FramingInv
    PROVE  FramingInv'
<1>1. PICK key, hp : key = MessageID(p) /\ hp = heap'
  OBVIOUS
<1>2. /\ id \in DOMAIN hp
      /\ \A jd \in DOMAIN hp : jd # id => jd \in DOMAIN heap /\ hp[jd] = heap[jd]
      /\ Contents(hp[id].packets) = Contents(ps) \cup {p.seg}
      /\ key \notin DOMAIN m => Contents(ps) = {}
      /\ key \in DOMAIN m => id \in DOMAIN heap /\ ps = heap[id].packets
      /\ \A k \in DOMAIN m' : \/ k = key /\ m'[k] = id
                              \/ k \in DOMAIN m /\ m'[k] = m[k] /\ m[k] # id
      /\ traffic' = traffic /\ ~IsEmpty(p)
  BY <1>1, TakenFacts
<1>3. ASSUME NEW x \in DOMAIN Parts, WellFramed(x), Contents(hp[id].packets) \subseteq PartsOf(x)
      PROVE  /\ hp[id].state \in {NewHTTPState, HeadersOf(PayloadsOf(x))}
             /\ ~Wraps(x) /\ Contents(hp[id].packets) = PartsOf(x) => key \notin DOMAIN m'
  <2>1. States /\ Contents(heap'[id].packets) \subseteq PartsOf(x)
    BY <1>1, <1>3 DEF FramingInv
  <2>2. /\ heap'[id].state \in {NewHTTPState, HeadersOf(PayloadsOf(x))}
        /\ ~Wraps(x) /\ Contents(heap'[id].packets) = PartsOf(x) => MessageID(p) \notin DOMAIN m'
    BY <1>3, <2>1, TakenEnd
  <2>. QED BY <1>1, <2>2
<1>4. States'
  <2>. SUFFICES ASSUME NEW jd \in DOMAIN hp, NEW x \in DOMAIN Parts, WellFramed(x),
                       Contents(hp[jd].packets) \subseteq PartsOf(x)
                PROVE  hp[jd].state \in {NewHTTPState, HeadersOf(PayloadsOf(x))}
    BY <1>1 DEF States
  <2>1. CASE jd = id
    BY <1>3, <2>1
  <2>2. CASE jd # id
    <3>1. jd \in DOMAIN heap /\ hp[jd] = heap[jd]
      BY <1>2, <2>2
    <3>. QED BY <3>1 DEF FramingInv, States
  <2>. QED BY <2>1, <2>2
<1>5. AllSeen'
  <2>1. Seen(p.seg)
    BY <1>2 DEF Seen, IsEmpty
  <2>2. ASSUME NEW jd \in DOMAIN hp, NEW w \in Contents(hp[jd].packets) PROVE Seen(w)
    <3>1. CASE jd = id
      <4>1. CASE w = p.seg
        BY <2>1, <4>1
      <4>2. CASE w # p.seg
        <5>1. key \in DOMAIN m /\ w \in Contents(heap[id].packets) /\ id \in DOMAIN heap
          BY <1>2, <3>1, <4>2
        <5>. QED BY <5>1 DEF FramingInv, AllSeen
      <4>. QED BY <4>1, <4>2
    <3>2. CASE jd # id
      <4>1. jd \in DOMAIN heap /\ hp[jd] = heap[jd]
        BY <1>2, <3>2
      <4>. QED BY <4>1 DEF FramingInv, AllSeen
    <3>. QED BY <3>1, <3>2
  <2>. QED BY <1>1, <1>2, <2>2 DEF AllSeen, Seen
<1>6. Waits'
  <2>. SUFFICES ASSUME NEW k \in DOMAIN m', NEW x \in DOMAIN Parts, WellFramed(x), ~Wraps(x),
                       Contents(hp[m'[k]].packets) = PartsOf(x)
                PROVE  FALSE
    BY <1>1 DEF Waits
  <2>1. CASE k = key /\ m'[k] = id
    BY <1>3, <2>1
  <2>2. CASE k \in DOMAIN m /\ m'[k] = m[k] /\ m[k] # id
    <3>1. m[k] \in DOMAIN hp
      BY <1>1, <2>2 DEF IInv, IsParser, Parser
    <3>2. hp[m[k]] = heap[m[k]]
      BY <1>2, <2>2, <3>1
    <3>. QED BY <2>2, <3>2 DEF FramingInv, Waits
  <2>. QED BY <1>2, <2>1, <2>2
<1>. QED BY <1>4, <1>5, <1>6 DEF FramingInv

\* When the segments with the key of the packet are those of one framed message, a message
\* on its way out holds it up to an end.
LEMMA TakenEnded ==
    ASSUME IInv, Plain, PlainInv, IInv', PlainInv', Receive, packets \in Seq(Packet),
           NEW p \in Packet, p = Head(packets),
           traffic[p.seg] > 0, p.ack = Segment[p.seg].ack,
           NEW id, NEW ps, TakenInto(p, id, ps), FramingInv, Separate, Ended
    PROVE  Ended'
<1>1. PICK key : key = MessageID(p)
  OBVIOUS
<1>2. /\ id \in DOMAIN heap' /\ id \notin Leaving
      /\ \A jd \in DOMAIN heap' : jd # id => jd \in DOMAIN heap /\ heap'[jd] = heap[jd]
      /\ Contents(heap'[id].packets) = Contents(ps) \cup {p.seg}
      /\ key \notin DOMAIN m => Contents(ps) = {}
      /\ key \in DOMAIN m => id \in DOMAIN heap /\ id = m[key] /\ ps = heap[id].packets
      /\ Leaving' \subseteq Leaving \cup {id}
      /\ key \in DOMAIN m' => Leaving' \subseteq Leaving
      /\ traffic' = traffic /\ ~IsEmpty(p)
  BY <1>1, TakenFacts
<1>3. p.seg \in Wire /\ Seen(p.seg) /\ KeyOnWire(p.seg) = key
  BY <1>1, <1>2 DEF Seen, IsEmpty, Packet, KeyOnWire, MessageID
<1>4. PICK x \in DOMAIN Parts :
         /\ WellFramed(x) /\ p.seg \in PartsOf(x)
         /\ \A v \in Wire : Seen(v) /\ KeyOnWire(v) = KeyOnWire(p.seg) => v \in PartsOf(x)
  BY <1>3 DEF Separate
<1>5. ASSUME NEW v \in Contents(ps) PROVE v \in PartsOf(x)
  <2>1. key \in DOMAIN m /\ id \in DOMAIN heap /\ id = m[key] /\ ps = heap[id].packets
    BY <1>2, <1>5
  <2>2. PICK i \in DOMAIN ps : v = ps[i].seg
    BY <1>5, ContentsOf
  <2>3. ps \in Seq(Packet)
    BY <2>1, CopiesType
  <2>4. v \in Wire
    <3>1. ps[i] \in Packet
      <4>1. i \in 1..Len(ps)
        BY <2>2, <2>3, LenProperties
      <4>. QED BY <2>3, <4>1, ElementOfSeq
    <3>. QED BY <2>2, <3>1 DEF Packet
  <2>5. Seen(v)
    BY <2>1 DEF FramingInv, AllSeen
  <2>6. MessageID(ps[i]) = key
    BY <2>1 DEF PlainInv, Keyed, SameKey
  <2>7. ps[i].ack = Segment[v].ack
    BY <2>1, <2>2 DEF PlainInv, PlainHeap, PlainMessage, OnWire
  <2>8. KeyOnWire(v) = key
    BY <2>2, <2>6, <2>7 DEF KeyOnWire, MessageID
  <2>. QED BY <1>3, <1>4, <2>4, <2>5, <2>8
<1>6. Contents(heap'[id].packets) \subseteq PartsOf(x)
  BY <1>2, <1>4, <1>5
<1>7. key \notin DOMAIN m' => Whole(heap'[id].packets)
  <2>1. States
    BY DEF FramingInv
  <2>2. MessageID(p) \notin DOMAIN m' => Whole(heap'[id].packets)
    BY <1>4, <1>6, <2>1, TakenEnd
  <2>. QED BY <1>1, <2>2
<1>. SUFFICES ASSUME NEW jd \in Leaving' PROVE Whole(heap'[jd].packets)
  BY DEF Ended
<1>8. CASE jd = id
  BY <1>2, <1>7, <1>8
<1>9. CASE jd # id
  <2>1. jd \in Leaving
    BY <1>2, <1>9
  <2>2. jd \in DOMAIN heap'
    <3>1. jd \in Alive'
      BY DEF Leaving, Alive, Emitted
    <3>2. IInv' /\ PlainInv' /\ \A e \in Alive : e \in DOMAIN heap
      BY AliveExists
    <3>3. jd \in DOMAIN heap
      BY <2>1, <3>2 DEF Leaving, Alive, Emitted
    <3>. QED BY <3>3 DEF TakenInto
  <2>. QED BY <1>2, <1>9, <2>1, <2>2 DEF Ended
<1>. QED BY <1>8, <1>9

LEMMA InitFraming == Init => FramingInv /\ Ended
<1>. SUFFICES ASSUME Init PROVE FramingInv /\ Ended
  OBVIOUS
<1>1. DOMAIN heap = {} /\ DOMAIN m = {} /\ DOMAIN stack = {} /\ DOMAIN messages = {}
  <2>1. heap = <<>> /\ stack = <<>> /\ messages = <<>> /\ DOMAIN m = {}
    BY DEF Init
  <2>2. <<>> \in Seq(Packet) /\ DOMAIN <<>> = {}
    BY EmptyRest, LenProperties
  <2>. QED BY <2>1, <2>2
<1>2. Leaving = {}
  BY <1>1 DEF Leaving, Sending, EmitsOf, ToSet
<1>. QED BY <1>1, <1>2 DEF FramingInv, States, AllSeen, Waits, Ended

LEMMA NextFraming ==
    ASSUME IInv, Plain, PlainInv, FramingInv, [Next]_vars
    PROVE  /\ FramingInv'
           /\ ~AllowIncomplete /\ Separate /\ Ended => Ended'
<1>1. IInv' /\ PlainInv' /\ traffic' = traffic
  BY NextIInv, PlainNext, TrafficStays
<1>2. CASE Keeps
  BY <1>1, <1>2, KeepsFraming, KeepsEnded
<1>3. CASE ~Keeps
  <2>1. /\ Receive /\ packets \in Seq(Packet) /\ Head(packets) \in Packet
        /\ traffic[Head(packets).seg] > 0
        /\ Head(packets).ack = Segment[Head(packets).seg].ack
        /\ \E id, ps : TakenInto(Head(packets), id, ps)
    BY <1>3, StepKeeps
  <2>2. PICK p : p = Head(packets)
    OBVIOUS
  <2>3. PICK id, ps : TakenInto(p, id, ps)
    BY <2>1, <2>2
  <2>. QED BY <1>1, <2>1, <2>2, <2>3, TakenFraming, TakenEnded
<1>. QED BY <1>2, <1>3

LEMMA FramingInvariance == Spec /\ Plain => [](IInv /\ Plain /\ PlainInv /\ FramingInv)
<1>1. IInv /\ Plain /\ PlainInv /\ FramingInv /\ [Next]_vars => FramingInv'
  BY NextFraming
<1>. QED BY <1>1, InitFraming, PlainInvariance, PTL DEF Spec

LEMMA EndedInvariance ==
    ASSUME ~AllowIncomplete
    PROVE  Spec /\ Plain /\ Separate => [](IInv /\ PlainInv /\ Separate /\ Ended)
<1>1. IInv /\ Plain /\ PlainInv /\ FramingInv /\ Separate /\ Ended /\ [Next]_vars
      => Separate' /\ Ended'
  <2>1. [Next]_vars => traffic' = traffic
    BY TrafficStays
  <2>2. Separate /\ traffic' = traffic => Separate'
    BY DEF Separate, Seen
  <2>. QED BY <2>1, <2>2, NextFraming
<1>. QED BY <1>1, InitFraming, FramingInvariance, PTL DEF Spec

\* What was captured of every HTTP message on the wire that the parser can read in full,
\* without padding, and whose sequence numbers do not wrap, is framed by its headers.
FramedOnWire ==
    \A x \in DOMAIN Parts :
        (\A w \in PartsOf(x) : Seen(w) /\ ~Padded(w)) /\ ~Wraps(x) => WellFramed(x)

\* Without a 100-continue, a message that holds all of a well framed message is emitted
\* with the packet that completes it, in whatever order and however often they come.
THEOREM PlainWholeIsEmitted == Spec /\ Plain /\ FramedOnWire => []WholeIsEmitted
<1>1. IInv /\ FramingInv /\ FramedOnWire => WholeIsEmitted
  <2>. SUFFICES ASSUME IInv, FramingInv, FramedOnWire, NEW id \in Mapped, NEW x \in DOMAIN Parts,
                       PartsOf(x) = Contents(heap[id].packets), ~Wraps(x),
                       \A w \in PartsOf(x) : ~Padded(w)
                PROVE  FALSE
    BY DEF WholeIsEmitted, Contents
  <2>1. PICK k \in DOMAIN m : id = m[k]
    BY DEF Mapped
  <2>2. id \in DOMAIN heap
    BY <2>1 DEF IInv, IsParser, Parser
  <2>3. \A w \in PartsOf(x) : Seen(w)
    BY <2>2 DEF FramingInv, AllSeen
  <2>4. WellFramed(x)
    BY <2>3 DEF FramedOnWire
  <2>. QED BY <2>1, <2>4 DEF FramingInv, Waits
<1>2. FramedOnWire /\ [Next]_vars => FramedOnWire'
  <2>1. [Next]_vars => traffic' = traffic
    BY TrafficStays
  <2>2. FramedOnWire /\ traffic' = traffic => FramedOnWire'
    BY DEF FramedOnWire, Seen
  <2>. QED BY <2>1, <2>2
<1>. QED BY <1>1, <1>2, FramingInvariance, PTL DEF Spec

-----------------------------------------------------------------------------
(* The refinement. *)

\* The recordings, as Reassembly has them
Recorded == [i \in DOMAIN delivered |-> delivered[i].data]

\* The recording of a message that is whole up to an end is that of the message on the
\* wire, and none of its segments had all its copies in other recordings.
LEMMA PluginReaderRecords ==
    ASSUME IInv, PlainInv, Ended, IInv', PlainInv', SkipsDuplicates', PluginReader
    PROVE  Abstract!Next
<1>1. PICK id, ps : id = Head(messages) /\ ps = heap[id].packets
  OBVIOUS
<1>2. PICK d : d = [type |-> IF heap[id].direction = "incoming" THEN "request" ELSE "response",
                    uuid |-> UUID(heap[id]),
                    data |-> [i \in DOMAIN heap[id].packets |-> heap[id].packets[i].seg],
                    id   |-> id]
  OBVIOUS
<1>3. /\ messages # <<>> /\ captured' = captured
      /\ d.data = SegmentsOf(ps) /\ delivered' = Append(delivered, d)
  <2>1. messages # <<>> /\ captured' = captured /\ delivered' = Append(delivered, d)
    BY <1>1, <1>2 DEF PluginReader
  <2>2. d.data = SegmentsOf(ps)
    BY <1>1, <1>2 DEF SegmentsOf
  <2>. QED BY <2>1, <2>2
<1>4. id \in Leaving
  <2>1. 1 \in DOMAIN messages /\ id = messages[1]
    <3>1. IsSeq(messages)
      BY SeqIsSeq DEF IInv
    <3>. QED BY <1>1, <1>3, <3>1, TailIsSeq
  <2>. QED BY <2>1 DEF Leaving, ToSet
<1>5. PICK x \in DOMAIN Parts :
         /\ WellFramed(x) /\ Begins(ps, x)
         /\ Len(ps) = Len(Parts[x]) \/ Payload[Parts[x][Len(ps)]].tail = "last"
  BY <1>1, <1>4 DEF Ended, Whole
<1>6. PICK n : n = Len(ps)
  OBVIOUS
<1>7. /\ ps \in Seq(Packet) /\ n \in 1..Len(Parts[x]) /\ \A i \in 1..n : ps[i].seg = Parts[x][i]
      /\ Len(Parts[x]) \in Nat /\ DOMAIN Parts[x] = 1..Len(Parts[x])
      /\ \A i \in 1..Len(Parts[x]) : Parts[x][i] \in Wire
      /\ DOMAIN ps = 1..n
  <2>1. ps \in Seq(Packet) /\ n \in 1..Len(Parts[x]) /\ \A i \in 1..n : ps[i].seg = Parts[x][i]
    BY <1>5, <1>6 DEF Begins
  <2>. QED BY <1>5, <1>6, <2>1, FramedParts, LenProperties
<1>8. n = Len(Parts[x]) \/ Parts[x][n] \in {w \in Wire : Payload[w].tail = "last"}
  BY <1>5, <1>6, <1>7
<1>9. PICK data : data = SegmentsOf(ps)
  OBVIOUS
<1>10. DOMAIN data = 1..n /\ \A i \in 1..n : data[i] = Parts[x][i]
  BY <1>7, <1>9 DEF SegmentsOf
<1>11. data = SubSeq(Parts[x], 1, n)
  <2>1. /\ n \in Int /\ 1 \in Int /\ n - 1 + 1 = n /\ 1 <= n
        /\ \A i \in 1..n : Parts[x][i] \in Wire /\ 1 + i - 1 = i
    BY <1>7
  <2>2. PICK s : s = SubSeq(Parts[x], 1, n)
    OBVIOUS
  <2>3. s \in Seq(Wire) /\ Len(s) = n /\ \A i \in 1..n : s[i] = Parts[x][i]
    BY <2>1, <2>2, SubSeqProperties
  <2>4. DOMAIN s = 1..n /\ s = [i \in 1..n |-> s[i]] /\ data = [i \in 1..n |-> data[i]]
    BY <1>9, <1>10, <2>3, LenProperties DEF SegmentsOf
  <2>. QED BY <1>10, <2>2, <2>3, <2>4
<1>12. /\ IsSeq(delivered) /\ Len(delivered) \in Nat
       /\ DOMAIN delivered = 1..Len(delivered)
       /\ DOMAIN delivered' = DOMAIN delivered \cup {Len(delivered) + 1}
       /\ delivered'[Len(delivered) + 1] = d
       /\ \A i \in DOMAIN delivered : delivered'[i] = delivered[i]
  <2>1. IsSeq(delivered)
    BY DEF PlainInv, Final
  <2>. QED BY <1>3, <2>1, AppendIsSeq, SeqParts
<1>13. PICK l : l = Len(delivered)
  OBVIOUS
<1>14. [i \in DOMAIN delivered' |-> delivered'[i].data] = Append(Recorded, data)
  <2>1. IsSeq(Recorded) /\ DOMAIN Recorded = 1..l /\ Len(Recorded) = l
    <3>1. l \in Nat /\ Recorded = [i \in 1..l |-> Recorded[i]]
      BY <1>12, <1>13 DEF Recorded
    <3>. QED BY <3>1, SeqOfFunction
  <2>2. PICK out : out = Append(Recorded, data)
    OBVIOUS
  <2>3. /\ IsSeq(out) /\ DOMAIN out = 1..l \cup {l + 1} /\ out[l + 1] = data
        /\ \A i \in 1..l : out[i] = Recorded[i]
    BY <2>1, <2>2, AppendIsSeq
  <2>4. out = [i \in DOMAIN out |-> out[i]]
    BY <2>3, SeqParts
  <2>5. DOMAIN out = DOMAIN delivered'
    BY <1>12, <1>13, <2>3
  <2>6. \A i \in DOMAIN out : out[i] = delivered'[i].data
    <3>1. ASSUME NEW i \in 1..l PROVE out[i] = delivered'[i].data
      BY <1>12, <1>13, <2>3 DEF Recorded
    <3>2. out[l + 1] = delivered'[l + 1].data
      BY <1>3, <1>9, <1>12, <1>13, <2>3
    <3>. QED BY <2>3, <3>1, <3>2
  <2>. QED BY <2>2, <2>4, <2>5, <2>6
<1>15. ASSUME NEW i \in 1..n
       PROVE  Cardinality({j \in DOMAIN Recorded : Parts[x][i] \in ToSet(Recorded[j])})
                < captured[Parts[x][i]]
  <2>1. PICK w : w = Parts[x][i]
    OBVIOUS
  <2>2. w \in Wire /\ w \in ToSet(data)
    BY <1>7, <1>10, <2>1 DEF ToSet
  <2>3. PICK S : S = {j \in DOMAIN delivered : w \in ToSet(delivered[j].data)}
    OBVIOUS
  <2>4. {j \in DOMAIN delivered' : w \in ToSet(delivered'[j].data)} = S \cup {l + 1}
    BY <1>3, <1>9, <1>12, <1>13, <2>2, <2>3
  <2>5. IsFiniteSet(S) /\ l + 1 \notin S
    <3>1. IsFiniteSet(1..l) /\ l \in Nat /\ S \subseteq 1..l
      BY <1>12, <1>13, <2>3, FS_Interval
    <3>2. l + 1 \notin S
      BY <3>1
    <3>3. IsFiniteSet(S)
      BY <3>1, FS_Subset
    <3>. QED BY <3>2, <3>3
  <2>6. Cardinality(S \cup {l + 1}) = Cardinality(S) + 1 /\ Cardinality(S) \in Nat
    BY <2>5, FS_AddElement, FS_CardinalityType
  <2>7. Cardinality({j \in DOMAIN delivered' : w \in ToSet(delivered'[j].data)}) <= captured'[w]
    BY <2>2 DEF SkipsDuplicates
  <2>8. captured[w] \in Nat
    BY <2>2 DEF IInv
  <2>9. {j \in DOMAIN Recorded : w \in ToSet(Recorded[j])} = S
    BY <2>3 DEF Recorded
  <2>10. PICK c, e : c = Cardinality(S) /\ e = captured[w]
    OBVIOUS
  <2>11. c + 1 <= e /\ c \in Nat /\ e \in Nat
    BY <1>3, <2>4, <2>6, <2>7, <2>8, <2>10
  <2>12. c < e
    BY ONLY <2>11
  <2>. QED BY <2>1, <2>9, <2>10, <2>12
<1>16. Abstract!Record(x, n)
  <2>1. \A S : Abstract!Cardinality(S) = Cardinality(S)
    BY Zenon DEF Abstract!Cardinality, Cardinality
  <2>2. \A i \in 1..n : Abstract!Holding(Parts[x][i]) < captured[Parts[x][i]]
    BY <1>15, <2>1 DEF Recorded, Abstract!Holding, Abstract!ToSet, ToSet
  <2>. QED BY <1>3, <1>8, <1>11, <1>14, <2>2 DEF Recorded, Abstract!Record
<1>17. n \in DOMAIN Parts[x]
  BY <1>7
<1>. QED BY <1>16, <1>17 DEF Abstract!Next

\* The parser implements Reassembly when no 100-continue is on the wire, the segments that
\* have ports, addresses and Ack in common are those of one well framed message, and
\* messages that expire are not emitted: whatever is captured, how often, in which order,
\* and however packets, ticks and the reader interleave.
THEOREM PlainReassembles ==
    ASSUME ~AllowIncomplete
    PROVE  Spec /\ Plain /\ Separate => Reassembles
<1>1. Init => Abstract!Init
  <2>. SUFFICES ASSUME Init PROVE Abstract!Init
    OBVIOUS
  <2>1. delivered = <<>> /\ captured = [w \in Wire |-> 0]
    BY DEF Init
  <2>2. <<>> \in Seq(Packet) /\ DOMAIN <<>> = {} /\ Len(<<>>) = 0
    BY EmptyRest, LenProperties
  <2>3. Recorded = <<>>
    <3>1. DOMAIN Recorded = {} /\ Recorded = [i \in 1..0 |-> Recorded[i]] /\ 1..0 = {}
      BY <2>1, <2>2 DEF Recorded
    <3>2. Recorded \in Seq(Packet) /\ Len(Recorded) = 0
      <4>1. IsSeq(Recorded) /\ Len(Recorded) = 0
        BY <3>1, SeqOfFunction
      <4>. QED BY <3>1, <4>1, SeqParts, LenProperties
    <3>. QED BY <3>2, EmptySeq
  <2>. QED BY <2>1, <2>3 DEF Recorded, Abstract!Init
<1>2. IInv /\ PlainInv /\ Ended /\ (IInv /\ PlainInv /\ SkipsDuplicates)' /\ [Next]_vars
      => [Abstract!Next]_Abstract!vars
  <2>. SUFFICES ASSUME IInv, PlainInv, Ended, IInv', PlainInv', SkipsDuplicates', [Next]_vars
                PROVE  [Abstract!Next]_Abstract!vars
    OBVIOUS
  <2>1. CASE Capture
    <3>1. PICK w \in Wire : PacketHandler(w)
      BY <2>1 DEF Capture
    <3>2. delivered' = delivered /\ captured' = [captured EXCEPT ![w] = @ + 1]
      BY <3>1 DEF PacketHandler
    <3>3. Abstract!Capture(w)
      BY <3>2 DEF Abstract!Capture
    <3>. QED BY <3>3 DEF Abstract!Next
  <2>2. CASE PluginReader
    BY <2>2, PluginReaderRecords
  <2>3. CASE Wait \/ TimePasses \/ UNCHANGED vars
    <3>1. delivered' = delivered /\ captured' = captured
      BY <2>3 DEF Wait, Receive, MergeNext, Send, Timer, ExpireOne, TimerReturns, TimePasses, vars
    <3>. QED BY <3>1 DEF Abstract!vars
  <2>. QED BY <2>1, <2>2, <2>3 DEF Next
<1>. QED BY <1>1, <1>2, EndedInvariance, PlainSkipsDuplicates, PTL
     DEF Spec, Reassembles, Abstract!Spec

-----------------------------------------------------------------------------
(* The labels of the recordings: their type and UUID. *)

\* The first packet of the message x, as it is captured
FirstOf(x) == [seg |-> Parts[x][1], ack |-> Segment[Parts[x][1]].ack, age |-> 0]
Direction(x) == DirectionOf(FirstOf(x))

\* The message x is framed, and the parser can read all of it.
Sent(x) == WellFramed(x) /\ \A w \in PartsOf(x) : Seen(w)

\* Every segment is of one message only, and the segments of a message go to one address.
\* None but the last one ends in the bytes of a last chunk.
Distinct ==
    /\ \A x, y \in DOMAIN Parts : PartsOf(x) \cap PartsOf(y) # {} => x = y
    /\ \A x \in DOMAIN Parts : \A v, w \in PartsOf(x) : Segment[v].dst = Segment[w].dst
    /\ \A x \in DOMAIN Parts : \A i \in DOMAIN Parts[x] :
          Seen(Parts[x][i]) /\ Payload[Parts[x][i]].tail = "last" => i = Len(Parts[x])

\* The response y begins where the request x says that it expects the next byte, on the
\* connection of x.
Acknowledges(x, y) ==
    LET q == Segment[Parts[x][1]]
        r == Segment[Parts[y][1]]
    IN  q.src = r.dst /\ q.dst.port = r.src.port /\ q.ack = r.seq

\* These are the answers.
Answered ==
    \A x, y \in DOMAIN Parts :
        Sent(x) /\ Sent(y) /\ Direction(x) = "incoming" /\ Direction(y) # "incoming" =>
            (Acknowledges(x, y) <=> \E a \in Answers : Parts[a[1]] = Parts[x] /\ Parts[a[2]] = Parts[y])

\* A message is given its direction by its first segment, or by any when they are sent
\* to a listened address.
Directed ==
    \A id \in DOMAIN heap : \A x \in DOMAIN Parts :
        WellFramed(x) /\ Contents(heap[id].packets) \subseteq PartsOf(x) =>
            \/ heap[id].direction = Direction(x)
            \/ /\ heap[id].direction = "unknown" /\ Segment[Parts[x][1]].dst \notin Listened
               /\ Parts[x][1] \notin Contents(heap[id].packets)

\* What is delivered is a whole message of the wire, with its type and UUID.
Labelled ==
    \A i \in DOMAIN delivered : \E x \in DOMAIN Parts :
        /\ Sent(x) /\ delivered[i].data = Parts[x]
        /\ delivered[i].type = IF Direction(x) = "incoming" THEN "request" ELSE "response"
        /\ delivered[i].uuid = UUID([direction |-> Direction(x), packets |-> <<FirstOf(x)>>])

\* A message of the wire has no direction but those the hints tell, and its first segment
\* decides it: what another segment hints at leaves a direction as it was.
LEMMA Hinted ==
    ASSUME NEW x \in DOMAIN Parts, WellFramed(x), Distinct, NEW p, p.seg \in PartsOf(x),
           NEW dir,
           dir = Direction(x) \/ (dir = "unknown" /\ Segment[Parts[x][1]].dst \notin Listened)
    PROVE  /\ p.seg = Parts[x][1] => DirectionAfter(dir, p) = Direction(x)
           /\ p.seg # Parts[x][1] => DirectionAfter(dir, p) = dir
           /\ \/ DirectionOf(p) = Direction(x)
              \/ /\ DirectionOf(p) = "unknown" /\ Segment[Parts[x][1]].dst \notin Listened
                 /\ p.seg # Parts[x][1]
<1>1. PICK v : v = Parts[x][1]
  OBVIOUS
<1>2. PICK i \in 1..Len(Parts[x]) : p.seg = Parts[x][i]
  <2>1. DOMAIN Parts[x] = 1..Len(Parts[x])
    BY FramedParts
  <2>. QED BY <2>1 DEF PartsOf, ToSet
<1>3. v \in PartsOf(x) /\ p.seg \in Wire
  <2>1. DOMAIN Parts[x] = 1..Len(Parts[x]) /\ 1 \in 1..Len(Parts[x]) /\ p.seg \in Wire
    BY <1>2, FramedParts
  <2>. QED BY <1>1, <2>1 DEF PartsOf, ToSet
<1>4. Segment[p.seg].dst = Segment[v].dst
  BY <1>3 DEF Distinct
<1>5. FirstOf(x).seg = v
  BY <1>1 DEF FirstOf
<1>6. Direction(x) = IF Segment[v].dst \in Listened THEN "incoming" ELSE StartHint(FirstOf(x))
  BY <1>5 DEF Direction, DirectionOf
<1>7. DirectionOf(p) = IF Segment[v].dst \in Listened THEN "incoming" ELSE StartHint(p)
  BY <1>4 DEF DirectionOf
<1>8. p.seg = v => StartHint(p) = StartHint(FirstOf(x))
  BY <1>5 DEF StartHint
<1>9. p.seg # v => StartHint(p) = "unknown"
  <2>. SUFFICES ASSUME p.seg # v PROVE StartHint(p) = "unknown"
    OBVIOUS
  <2>1. i > 1
    BY <1>1, <1>2
  <2>2. Payload[p.seg].title = "none"
    BY <1>2, <2>1, FramedParts
  <2>3. Segment[p.seg].title = "none"
    BY <1>3, <2>2 DEF Payload
  <2>. QED BY <2>3 DEF StartHint
<1>. QED BY <1>1, <1>6, <1>7, <1>8, <1>9 DEF DirectionAfter

\* Steps other than Receive give no message another direction.
LEMMA DirectionsKept ==
    ASSUME IInv, Plain, PlainInv, [Next]_vars, ~Receive
    PROVE  \A id \in DOMAIN heap : heap'[id].direction = heap[id].direction
<1>1. CASE Capture \/ PluginReader \/ Send \/ Timer \/ TimerReturns \/ UNCHANGED vars
  <2>1. heap' = heap
    BY <1>1 DEF Capture, PacketHandler, PluginReader, Send, Timer, TimerReturns,
                SetParser, Call, Return, Parser, vars
  <2>. QED BY <2>1
<1>2. CASE ExpireOne
  BY <1>2, ExpireOneHeap
<1>3. CASE TimePasses
  <2>. SUFFICES ASSUME NEW id \in DOMAIN heap PROVE heap'[id].direction = heap[id].direction
    OBVIOUS
  <2>1. DOMAIN heap[id] = {"packets", "direction", "state"}
    BY DEF IInv, IsParser, Parser, IsHeap, IsMessage
  <2>2. heap'[id] = heap[id] \/ heap'[id] = [heap[id] EXCEPT !.packets = AllOlder(@)]
    BY <1>3 DEF TimePasses
  <2>. QED BY <2>1, <2>2
<1>. QED BY <1>1, <1>2, <1>3, NoMergePlain DEF Next, Wait

\* A duplicate has the segment of a packet that is held, so that it hints at nothing new.
LEMMA LetGoDirected ==
    ASSUME IInv, PlainInv, FramingInv, Separate, Distinct, Directed,
           NEW p \in Packet, traffic[p.seg] > 0, p.ack = Segment[p.seg].ack, LetGo(p)
    PROVE  Directed'
<1>1. PICK hp : hp = heap'
  OBVIOUS
<1>. SUFFICES ASSUME NEW id \in DOMAIN hp, NEW x \in DOMAIN Parts, WellFramed(x),
                     Contents(hp[id].packets) \subseteq PartsOf(x)
              PROVE  \/ hp[id].direction = Direction(x)
                     \/ /\ hp[id].direction = "unknown" /\ Segment[Parts[x][1]].dst \notin Listened
                        /\ Parts[x][1] \notin Contents(hp[id].packets)
  BY <1>1 DEF Directed
<1>2. PICK ps : ps = heap[id].packets
  OBVIOUS
<1>3. id \in DOMAIN heap /\ hp[id].packets = ps
  BY <1>1, <1>2 DEF LetGo
<1>4. \/ heap[id].direction = Direction(x)
      \/ /\ heap[id].direction = "unknown" /\ Segment[Parts[x][1]].dst \notin Listened
         /\ Parts[x][1] \notin Contents(ps)
  BY <1>2, <1>3 DEF Directed
<1>5. CASE hp[id].direction = heap[id].direction
  BY <1>3, <1>4, <1>5
<1>6. CASE hp[id].direction # heap[id].direction
  <2>1. PICK key : key = MessageID(p)
    OBVIOUS
  <2>2. /\ key \in DOMAIN m /\ id = m[key] /\ ~IsEmpty(p)
        /\ hp[id].direction = DirectionAfter(heap[id].direction, p)
        /\ IsDuplicate(heap[id], p)
    BY <1>1, <1>3, <1>6, <2>1 DEF LetGo
  <2>3. PICK i \in DOMAIN ps : Seq32(ps[i]) = Seq32(p)
    BY <1>2, <2>2 DEF IsDuplicate
  <2>4. ps[i].seg \in Contents(ps) /\ ps[i].seg \in Wire /\ Seen(ps[i].seg)
    <3>1. ps[i].seg \in Contents(ps)
      BY ContentsOf
    <3>2. ps \in Seq(Packet)
      BY <1>2, <1>3, CopiesType
    <3>3. i \in 1..Len(ps)
      BY <3>2, LenProperties
    <3>4. ps[i] \in Packet
      BY <3>2, <3>3, ElementOfSeq
    <3>. QED BY <1>2, <1>3, <3>1, <3>4 DEF FramingInv, AllSeen, Packet
  <2>5. KeyOnWire(ps[i].seg) = key
    <3>1. MessageID(ps[i]) = key
      BY <1>2, <2>2, <2>3 DEF PlainInv, Keyed, SameKey
    <3>2. ps[i].ack = Segment[ps[i].seg].ack
      BY <1>2, <1>3, <2>3 DEF PlainInv, PlainHeap, PlainMessage, OnWire
    <3>. QED BY <3>1, <3>2 DEF KeyOnWire, MessageID
  <2>6. p.seg \in Wire /\ Seen(p.seg) /\ KeyOnWire(p.seg) = key
    BY <2>1, <2>2 DEF Seen, IsEmpty, Packet, KeyOnWire, MessageID
  <2>7. PICK y \in DOMAIN Parts : WellFramed(y) /\ p.seg \in PartsOf(y) /\ ps[i].seg \in PartsOf(y)
    BY <2>4, <2>5, <2>6 DEF Separate
  <2>8. y = x
    <3>1. ps[i].seg \in PartsOf(x)
      BY <1>3, <2>4
    <3>. QED BY <2>7, <3>1 DEF Distinct
  <2>9. p.seg = ps[i].seg
    <3>1. /\ p.seg \in PartsOf(x) /\ ps[i].seg \in PartsOf(x)
          /\ Segment[p.seg].seq = Segment[ps[i].seg].seq
      BY <2>3, <2>7, <2>8 DEF Seq32
    <3>. QED BY <3>1 DEF WellFramed, PartsOf, ToSet
  <2>10. p.seg \in Contents(ps) /\ p.seg \in PartsOf(x)
    BY <2>4, <2>7, <2>8, <2>9
  <2>11. /\ p.seg = Parts[x][1] => hp[id].direction = Direction(x)
         /\ p.seg # Parts[x][1] => hp[id].direction = heap[id].direction
    BY <1>4, <2>2, <2>10, Hinted
  <2>. QED BY <1>3, <1>6, <2>10, <2>11
<1>. QED BY <1>5, <1>6

\* A packet that becomes part of a message decides its direction when it is the first one.
LEMMA TakenDirected ==
    ASSUME IInv, Plain, PlainInv, IInv', PlainInv', Receive, packets \in Seq(Packet),
           NEW p \in Packet, p = Head(packets), NEW id, NEW ps, TakenInto(p, id, ps),
           Distinct, Directed
    PROVE  Directed'
<1>1. PICK hp, key : hp = heap' /\ key = MessageID(p)
  OBVIOUS
<1>2. /\ \A jd \in DOMAIN hp : jd # id => jd \in DOMAIN heap /\ hp[jd] = heap[jd]
      /\ Contents(hp[id].packets) = Contents(ps) \cup {p.seg}
      /\ key \notin DOMAIN m => Contents(ps) = {}
      /\ key \in DOMAIN m => id \in DOMAIN heap /\ ps = heap[id].packets
  BY <1>1, TakenFacts
<1>3. hp[id].direction = IF key \in DOMAIN m THEN DirectionAfter(heap[id].direction, p)
                         ELSE DirectionOf(p)
  BY <1>1 DEF TakenInto
<1>. SUFFICES ASSUME NEW jd \in DOMAIN hp, NEW x \in DOMAIN Parts, WellFramed(x),
                     Contents(hp[jd].packets) \subseteq PartsOf(x)
              PROVE  \/ hp[jd].direction = Direction(x)
                     \/ /\ hp[jd].direction = "unknown" /\ Segment[Parts[x][1]].dst \notin Listened
                        /\ Parts[x][1] \notin Contents(hp[jd].packets)
  BY <1>1 DEF Directed
<1>4. CASE jd # id
  BY <1>2, <1>4 DEF Directed
<1>5. CASE jd = id
  <2>1. p.seg \in PartsOf(x)
    BY <1>2, <1>5
  <2>2. CASE key \in DOMAIN m
    <3>1. \/ heap[id].direction = Direction(x)
          \/ /\ heap[id].direction = "unknown" /\ Segment[Parts[x][1]].dst \notin Listened
             /\ Parts[x][1] \notin Contents(ps)
      BY <1>2, <1>5, <2>2 DEF Directed
    <3>2. /\ p.seg = Parts[x][1] => hp[id].direction = Direction(x)
          /\ p.seg # Parts[x][1] => hp[id].direction = heap[id].direction
      BY <1>3, <2>1, <2>2, <3>1, Hinted
    <3>. QED BY <1>2, <1>5, <3>1, <3>2
  <2>3. CASE key \notin DOMAIN m
    <3>1. \/ DirectionOf(p) = Direction(x)
          \/ /\ DirectionOf(p) = "unknown" /\ Segment[Parts[x][1]].dst \notin Listened
             /\ p.seg # Parts[x][1]
      BY <2>1, Hinted
    <3>. QED BY <1>2, <1>3, <1>5, <2>3, <3>1
  <2>. QED BY <2>2, <2>3
<1>. QED BY <1>4, <1>5

LEMMA NextDirected ==
    ASSUME IInv, Plain, PlainInv, FramingInv, Separate, Distinct, Directed, [Next]_vars
    PROVE  Directed'
<1>1. IInv' /\ PlainInv' /\ traffic' = traffic
  BY NextIInv, PlainNext, TrafficStays
<1>2. CASE ~Receive
  <2>1. Keeps
    BY <1>2, StepKeeps
  <2>2. \A id \in DOMAIN heap : heap'[id].direction = heap[id].direction
    BY <1>2, DirectionsKept
  <2>3. DOMAIN heap' = DOMAIN heap
        /\ \A id \in DOMAIN heap : Contents(heap'[id].packets) = Contents(heap[id].packets)
    BY <2>1, SameSegments DEF Keeps
  <2>. QED BY <2>2, <2>3 DEF Directed
<1>3. CASE Receive
  <2>1. PICK p : p = Head(packets)
    OBVIOUS
  <2>2. packets \in Seq(Packet) /\ packets # <<>> /\ p \in Packet
    BY <1>3, <2>1, HeadTailProperties DEF Receive, IInv
  <2>3. 1 \in DOMAIN packets /\ p = packets[1]
    BY <2>1, <2>2, SeqIsSeq, TailIsSeq
  <2>4. traffic[p.seg] > 0 /\ p.ack = Segment[p.seg].ack
    BY <2>3 DEF PlainInv, PlainQueue, OnWire
  <2>5. LetGo(p) \/ \E id, ps : TakenInto(p, id, ps)
    BY <1>3, <2>1, <2>2, <2>4, PlainProcessPacket DEF Receive
  <2>6. CASE LetGo(p)
    BY <2>2, <2>4, <2>6, LetGoDirected
  <2>7. CASE \E id, ps : TakenInto(p, id, ps)
    BY <1>1, <1>3, <2>1, <2>2, <2>7, TakenDirected
  <2>. QED BY <2>5, <2>6, <2>7
<1>. QED BY <1>2, <1>3

\* The reader is given whole messages, and labels each by its first packet.
LEMMA PluginReaderLabelled ==
    ASSUME IInv, PlainInv, FramingInv, Ended, Distinct, Directed, Labelled, PluginReader
    PROVE  Labelled'
<1>1. PICK id, ps : id = Head(messages) /\ ps = heap[id].packets
  OBVIOUS
<1>2. PICK uuid : uuid = UUID(heap[id])
  OBVIOUS
<1>3. PICK d : d = [type |-> IF heap[id].direction = "incoming" THEN "request" ELSE "response",
                    uuid |-> uuid,
                    data |-> [i \in DOMAIN heap[id].packets |-> heap[id].packets[i].seg],
                    id   |-> id]
  OBVIOUS
<1>4. /\ messages # <<>> /\ traffic' = traffic /\ delivered' = Append(delivered, d)
      /\ d.data = SegmentsOf(ps) /\ d.uuid = uuid
      /\ d.type = IF heap[id].direction = "incoming" THEN "request" ELSE "response"
  <2>1. messages # <<>> /\ traffic' = traffic /\ delivered' = Append(delivered, d)
    BY <1>1, <1>2, <1>3 DEF PluginReader
  <2>. QED BY <1>1, <1>3, <2>1 DEF SegmentsOf
<1>5. id \in Leaving /\ id \in DOMAIN heap
  <2>1. IsSeq(messages)
    BY SeqIsSeq DEF IInv
  <2>2. 1 \in DOMAIN messages /\ id = messages[1]
    BY <1>1, <1>4, <2>1, TailIsSeq
  <2>3. id \in ToSet(messages)
    BY <2>2 DEF ToSet
  <2>. QED BY <2>3, AliveExists DEF Leaving, Alive, Emitted
<1>6. PICK x \in DOMAIN Parts :
         /\ WellFramed(x) /\ Begins(ps, x)
         /\ Len(ps) = Len(Parts[x]) \/ Payload[Parts[x][Len(ps)]].tail = "last"
  BY <1>1, <1>5 DEF Ended, Whole
<1>7. PICK n : n = Len(ps)
  OBVIOUS
<1>8. /\ ps \in Seq(Packet) /\ n \in 1..Len(Parts[x]) /\ \A i \in 1..n : ps[i].seg = Parts[x][i]
      /\ Len(Parts[x]) \in Nat /\ DOMAIN Parts[x] = 1..Len(Parts[x])
      /\ DOMAIN ps = 1..n
  <2>1. ps \in Seq(Packet) /\ n \in 1..Len(Parts[x]) /\ \A i \in 1..n : ps[i].seg = Parts[x][i]
    BY <1>6, <1>7 DEF Begins
  <2>. QED BY <1>6, <1>7, <2>1, FramedParts, LenProperties
<1>9. Contents(ps) = {Parts[x][i] : i \in 1..n} /\ \A i \in 1..n : Seen(Parts[x][i])
  <2>1. Contents(ps) = {Parts[x][i] : i \in 1..n}
    BY <1>8, ContentsOf
  <2>. QED BY <1>1, <1>5, <2>1 DEF FramingInv, AllSeen
<1>10. n = Len(Parts[x])
  <2>1. CASE Payload[Parts[x][n]].tail = "last"
    <3>1. n \in DOMAIN Parts[x] /\ Seen(Parts[x][n])
      BY <1>8, <1>9
    <3>. QED BY <2>1, <3>1 DEF Distinct
  <2>. QED BY <1>6, <1>7, <2>1
<1>11. PartsOf(x) = Contents(ps)
  BY <1>8, <1>9, <1>10 DEF PartsOf, ToSet
<1>12. Sent(x)
  BY <1>6, <1>9, <1>11 DEF Sent
<1>13. d.data = Parts[x]
  <2>1. PICK data : data = SegmentsOf(ps)
    OBVIOUS
  <2>2. data = [i \in 1..n |-> data[i]] /\ \A i \in 1..n : data[i] = Parts[x][i]
    BY <1>8, <2>1 DEF SegmentsOf
  <2>3. Parts[x] = [i \in 1..n |-> Parts[x][i]]
    <3>1. Parts[x] \in Seq(Wire)
      BY <1>6 DEF WellFramed
    <3>2. IsSeq(Parts[x])
      BY <3>1, SeqIsSeq
    <3>. QED BY <1>10, <3>2, SeqParts
  <2>4. data = Parts[x]
    BY <2>2, <2>3
  <2>. QED BY <1>4, <2>1, <2>4
<1>14. heap[id].direction = Direction(x)
  <2>1. Parts[x][1] \in Contents(ps)
    BY <1>8, <1>9
  <2>. QED BY <1>1, <1>5, <1>6, <1>11, <2>1 DEF Directed
<1>15. uuid = UUID([direction |-> Direction(x), packets |-> <<FirstOf(x)>>])
  <2>1. 1 \in DOMAIN ps /\ ps[1].seg = Parts[x][1]
    BY <1>8
  <2>2. ps[1].ack = Segment[Parts[x][1]].ack
    BY <1>1, <1>5, <2>1 DEF PlainInv, PlainHeap, PlainMessage, OnWire
  <2>. QED BY <1>1, <1>2, <1>14, <2>1, <2>2 DEF UUID, FirstOf
<1>16. /\ IsSeq(delivered)
       /\ DOMAIN delivered' = DOMAIN delivered \cup {Len(delivered) + 1}
       /\ delivered'[Len(delivered) + 1] = d
       /\ \A i \in DOMAIN delivered : delivered'[i] = delivered[i]
  <2>1. IsSeq(delivered)
    BY DEF PlainInv, Final
  <2>. QED BY <1>4, <2>1, AppendIsSeq
<1>17. \A y : Sent(y)' <=> Sent(y)
  BY <1>4 DEF Sent, Seen
<1>18. ASSUME NEW i \in DOMAIN delivered'
       PROVE  \E y \in DOMAIN Parts :
                 /\ Sent(y) /\ delivered'[i].data = Parts[y]
                 /\ delivered'[i].type = IF Direction(y) = "incoming" THEN "request" ELSE "response"
                 /\ delivered'[i].uuid = UUID([direction |-> Direction(y), packets |-> <<FirstOf(y)>>])
  <2>1. CASE i \in DOMAIN delivered
    BY <1>16, <2>1 DEF Labelled
  <2>2. CASE i \notin DOMAIN delivered
    <3>1. delivered'[i] = d
      BY <1>16, <2>2
    <3>. QED BY <1>4, <1>12, <1>13, <1>14, <1>15, <3>1
  <2>. QED BY <2>1, <2>2
<1>. QED BY <1>17, <1>18 DEF Labelled

LEMMA NextLabelled ==
    ASSUME IInv, PlainInv, FramingInv, Ended, Distinct, Directed, Labelled, [Next]_vars
    PROVE  Labelled'
<1>1. CASE PluginReader
  BY <1>1, PluginReaderLabelled
<1>2. CASE ~PluginReader
  <2>1. delivered' = delivered
    BY <1>2 DEF Next, Capture, PacketHandler, Wait, Receive, MergeNext, Send, Timer, ExpireOne,
                TimerReturns, TimePasses, vars
  <2>2. traffic' = traffic
    BY TrafficStays
  <2>. QED BY <2>1, <2>2 DEF Labelled, Sent, Seen
<1>. QED BY <1>1, <1>2

\* The recordings are labelled as the messages on the wire are related.
LEMMA LabelsPair == Labelled /\ Answered => UUIDPairs
<1>. SUFFICES ASSUME Labelled, Answered, NEW i \in DOMAIN delivered, NEW j \in DOMAIN delivered,
                     delivered[i].type = "request", delivered[j].type = "response"
              PROVE  delivered[i].uuid = delivered[j].uuid
                     <=> \E a \in Answers : /\ delivered[i].data = Parts[a[1]]
                                            /\ delivered[j].data = Parts[a[2]]
  BY DEF UUIDPairs
<1>1. PICK x \in DOMAIN Parts :
        /\ Sent(x) /\ delivered[i].data = Parts[x]
        /\ delivered[i].type = IF Direction(x) = "incoming" THEN "request" ELSE "response"
        /\ delivered[i].uuid = UUID([direction |-> Direction(x), packets |-> <<FirstOf(x)>>])
  BY DEF Labelled
<1>2. PICK y \in DOMAIN Parts :
        /\ Sent(y) /\ delivered[j].data = Parts[y]
        /\ delivered[j].type = IF Direction(y) = "incoming" THEN "request" ELSE "response"
        /\ delivered[j].uuid = UUID([direction |-> Direction(y), packets |-> <<FirstOf(y)>>])
  BY DEF Labelled
<1>3. Direction(x) = "incoming" /\ Direction(y) # "incoming"
  BY <1>1, <1>2
<1>4. PICK q, r : q = Segment[Parts[x][1]] /\ r = Segment[Parts[y][1]]
  OBVIOUS
<1>5. q.src \in Address /\ r.dst \in Address
  <2>1. Parts[x][1] \in Wire /\ Parts[y][1] \in Wire
    <3>1. WellFramed(x) /\ WellFramed(y)
      BY <1>1, <1>2 DEF Sent
    <3>2. 1 \in 1..Len(Parts[x]) /\ \A k \in 1..Len(Parts[x]) : Parts[x][k] \in Wire
      BY <3>1, FramedParts
    <3>3. 1 \in 1..Len(Parts[y]) /\ \A k \in 1..Len(Parts[y]) : Parts[y][k] \in Wire
      BY <3>1, FramedParts
    <3>. QED BY <3>2, <3>3
  <2>. QED BY <1>4, <2>1, WireAssumption DEF SegmentRecord
<1>6. /\ delivered[i].uuid = <<q.src.port, q.dst.port, q.src.ip, q.ack>>
      /\ delivered[j].uuid = <<r.dst.port, r.src.port, r.dst.ip, r.seq>>
  BY <1>1, <1>2, <1>3, <1>4 DEF UUID, FirstOf
<1>7. q.src = r.dst <=> q.src.port = r.dst.port /\ q.src.ip = r.dst.ip
  BY <1>5 DEF Address
<1>8. delivered[i].uuid = delivered[j].uuid <=> Acknowledges(x, y)
  BY <1>4, <1>6, <1>7 DEF Acknowledges
<1>9. Acknowledges(x, y) <=> \E a \in Answers : Parts[a[1]] = Parts[x] /\ Parts[a[2]] = Parts[y]
  BY <1>1, <1>2, <1>3 DEF Answered
<1>10. (\E a \in Answers : Parts[a[1]] = Parts[x] /\ Parts[a[2]] = Parts[y])
       <=> \E a \in Answers : delivered[i].data = Parts[a[1]] /\ delivered[j].data = Parts[a[2]]
  BY <1>1, <1>2
<1>. QED BY <1>8, <1>9, <1>10

\* A request and its response get the same UUID, and no others do: whatever is captured, how
\* often and in which order, when no 100-continue is on the wire, the segments that have ports,
\* addresses and Ack in common are those of one well framed message, and the acknowledgements
\* on the wire say which response answers which request. What is recorded is then a whole
\* message of the wire, and its direction and its UUID are those of its first segment, also
\* when that is captured last.
THEOREM PlainUUIDPairs ==
    ASSUME ~AllowIncomplete
    PROVE  Spec /\ Plain /\ Separate /\ Distinct /\ Answered => []UUIDPairs
<1>1. Init => Directed /\ Labelled
  <2>. SUFFICES ASSUME Init PROVE Directed /\ Labelled
    OBVIOUS
  <2>1. heap = <<>> /\ delivered = <<>>
    BY DEF Init
  <2>2. <<>> \in Seq(Packet) /\ DOMAIN <<>> = {}
    BY EmptyRest, LenProperties
  <2>3. DOMAIN heap = {} /\ DOMAIN delivered = {}
    BY <2>1, <2>2, Zenon
  <2>. QED BY <2>3 DEF Directed, Labelled
<1>2. IInv /\ Plain /\ PlainInv /\ FramingInv /\ Separate /\ Ended /\ Distinct /\ Directed
      /\ Labelled /\ [Next]_vars => Directed' /\ Labelled'
  BY NextDirected, NextLabelled
<1>3. (Distinct \/ Answered) /\ [Next]_vars => (Distinct => Distinct') /\ (Answered => Answered')
  <2>1. [Next]_vars => traffic' = traffic
    BY TrafficStays
  <2>2. traffic' = traffic /\ Distinct => Distinct'
    BY DEF Distinct, Seen
  <2>3. traffic' = traffic /\ Answered => Answered'
    BY DEF Answered, Sent, Seen
  <2>. QED BY <2>1, <2>2, <2>3
<1>. QED BY <1>1, <1>2, <1>3, FramingInvariance, EndedInvariance, LabelsPair, PTL DEF Spec
=============================================================================
