-------------------------- MODULE MCMessageParser --------------------------
(* Small traffics for MessageParser, of clients of one listened server.     *)
EXTENDS MessageParserProperties, TLC

client == [ip |-> 1, port |-> 4000]
other == [ip |-> 8, port |-> 4000]
server == [ip |-> 2, port |-> 80]
MCListened == {server}

\* What is read within an extension header of 2048 bytes
Inner(doff, result) ==
    [doff |-> doff, zero |-> FALSE, walk |-> [result |-> result, len |-> 0]]

\* A frame with so many bytes of TCP payload
Frame(len) ==
    [version |-> 4, ihl |-> 5, exts |-> <<>>, transport |-> TCP, doff |-> 5, data |-> len,
     zero |-> FALSE, padding |-> 0, captured |-> 40 + len, inner |-> Inner(5, "error")]
PaddedFrame(len, padding) ==
    [Frame(len) EXCEPT !.padding = padding, !.captured = @ + padding]

\* A frame of IPv6 with extension headers
Frame6(exts, doff, len) ==
    LET f == [Frame(len) EXCEPT !.version = 6, !.ihl = 0, !.exts = exts, !.doff = doff]
    IN  [f EXCEPT !.captured = HeaderLen(f) + len]
Ext(kind, units) == [kind |-> kind, units |-> units]

\* A segment of the client, and one of the server, without HTTP headers
FromClient(seq, ack, len) ==
    [src |-> client, dst |-> server, seq |-> seq, ack |-> ack, frame |-> Frame(len),
     title |-> "none", hend |-> 0, clen |-> 0, framing |-> "none", expect |-> FALSE,
     tail |-> "none"]
FromServer(seq, ack, len) ==
    [FromClient(seq, ack, len) EXCEPT !.src = server, !.dst = client]

\* the same with a title line, and the end of the headers at hend
Request(seq, ack, len, hend) ==
    [FromClient(seq, ack, len) EXCEPT !.title = "request", !.hend = hend, !.tail = "blank"]
Response(seq, ack, len, hend) ==
    [FromServer(seq, ack, len) EXCEPT !.title = "response", !.hend = hend, !.tail = "blank"]

-----------------------------------------------------------------------------
\* A chunked POST in four segments: its title, the rest of its headers with the
\* first bytes of the body, a chunk, the last chunk, perhaps retransmitted, and an
\* acknowledgement without payload
ChunkedSegment ==
    [post  |-> [Request(10, 100, 5, 0) EXCEPT !.framing = "chunked", !.tail = "none"],
     head  |-> [FromClient(15, 100, 4) EXCEPT !.hend = 2],
     chunk |-> FromClient(19, 100, 3),
     last  |-> [FromClient(22, 100, 2) EXCEPT !.tail = "last"],
     ack   |-> FromServer(100, 24, 0)]
Chunked == [post |-> 1, head |-> 1, chunk |-> 1, last |-> 2, ack |-> 1]

\* A PUT that expects a 100-continue before its body, the interim response, the body
\* and the final response; and with the body retransmitted. The sequence numbers of the
\* server wrap around within the interim response.
ContinueSegment ==
    [put  |-> [Request(10, 990, 4, 4) EXCEPT !.clen = 3, !.expect = TRUE],
     r100 |-> Response(990, 14, 25, 25),
     body |-> FromClient(14, 15, 3),
     r200 |-> Response(15, 17, 5, 5)]
Continue == [put |-> 1, r100 |-> 1, body |-> 1, r200 |-> 1]
Repeated == [put |-> 1, body |-> 2, r200 |-> 1]

\* The same PUT with its body in two segments, and with its header retransmitted
SplitSegment ==
    [splitPut |-> [Request(10, 100, 4, 4) EXCEPT !.clen = 3, !.expect = TRUE],
     body1    |-> FromClient(14, 125, 2),
     body2    |-> FromClient(16, 125, 1)]
Split == [splitPut |-> 1, body1 |-> 1, body2 |-> 1]
Again == [put |-> 2, body |-> 1]

\* A POST whose body of one byte comes in a frame that is padded, and one whose body
\* is a zero
ShortSegment ==
    [short    |-> [Request(30, 200, 4, 4) EXCEPT !.clen = 1],
     padded   |-> [FromClient(34, 200, 1) EXCEPT !.frame = PaddedFrame(1, 5)],
     zeroPost |-> [Request(40, 300, 4, 4) EXCEPT !.clen = 1],
     zero     |-> [FromClient(44, 300, 1) EXCEPT !.frame.zero = TRUE]]
Short == [short |-> 1, padded |-> 2, zeroPost |-> 1, zero |-> 1]

\* A GET in two segments, between which the sequence numbers wrap around
WrapSegment ==
    [get  |-> [Request(997, 400, 4, 0) EXCEPT !.tail = "none"],
     rest |-> [FromClient(1, 400, 3) EXCEPT !.hend = 3, !.tail = "blank"]]
Wrap == [get |-> 1, rest |-> 2]

\* Two clients on the same port, each with a GET in two segments: the sums of
\* addresses and Ack are the same
SharedSegment ==
    [a1 |-> [Request(50, 507, 4, 0) EXCEPT !.tail = "none"],
     a2 |-> [FromClient(54, 507, 3) EXCEPT !.hend = 3, !.tail = "blank"],
     b1 |-> [Request(70, 500, 4, 0) EXCEPT !.src = other, !.tail = "none"],
     b2 |-> [FromClient(74, 500, 3) EXCEPT !.src = other, !.hend = 3, !.tail = "blank"]]
Shared == [a1 |-> 1, a2 |-> 1, b1 |-> 1, b2 |-> 1]

\* A chunked POST whose second segment, within a chunk, ends with the bytes of a last
\* chunk
LikeSegment ==
    [upload |-> [Request(80, 600, 5, 3) EXCEPT !.framing = "chunked", !.tail = "none"],
     like   |-> [FromClient(85, 600, 6) EXCEPT !.tail = "last"],
     end    |-> [FromClient(91, 600, 5) EXCEPT !.tail = "last"]]
Like == [upload |-> 1, like |-> 2, end |-> 1]

\* A GET, and its response with a body in a segment of its own
AskSegment ==
    [ask    |-> Request(110, 800, 4, 4),
     reply1 |-> [Response(800, 114, 4, 4) EXCEPT !.clen = 2],
     reply2 |-> FromServer(804, 114, 2)]
Asked == [ask |-> 1, reply1 |-> 1, reply2 |-> 1]

\* A GET in one segment, in frames with options and with extension headers that parse
\* knows and does not know, and a frame that is not of TCP
Get(frame) == [Request(100, 700, 4, 4) EXCEPT !.frame = frame]
FrameSegment ==
    [options  |-> Get([Frame(4) EXCEPT !.ihl = 7, !.doff = 8, !.captured = 64]),
     hops     |-> Get(Frame6(<<Ext(0, 1)>>, 5, 4)),
     fragment |-> Get(Frame6(<<Ext(43, 0), Ext(Fragment, 9)>>, 8, 4)),
     auth     |-> Get(Frame6(<<Ext(0, 0), Ext(51, 4)>>, 5, 4)),
     udp      |-> Get([Frame6(<<Ext(0, 2)>>, 5, 4) EXCEPT !.transport = 17])]

\* The same with an extension header of 2048 bytes, which is read again: as a TCP header,
\* the payload then being the rest of all headers and the GET; as a routing header, for
\* ever; as a fragment header, whose content looks like headers or goes on for ever
Misread(frame) == [FromClient(100, 700, 4) EXCEPT !.frame = frame]
MisreadSegment ==
    [asTCP      |-> Misread(Frame6(<<Ext(43, 0), Ext(0, 255)>>, 5, 4)),
     asRouting  |-> Misread(Frame6(<<Ext(0, 255), Ext(43, 0)>>, 5, 4)),
     asFragment |-> Misread([Frame6(<<Ext(0, 255), Ext(Fragment, 0)>>, 5, 4)
                                EXCEPT !.inner = Inner(5, "endless")]),
     asNothing  |-> Misread(Frame6(<<Ext(0, 255), Ext(Fragment, 0)>>, 5, 4))]

-----------------------------------------------------------------------------
MCSegment ==
    ChunkedSegment @@ ContinueSegment @@ SplitSegment @@ ShortSegment @@ WrapSegment
        @@ SharedSegment @@ LikeSegment @@ AskSegment @@ FrameSegment
        @@ MisreadSegment
MCWire == DOMAIN MCSegment

MCParts ==
    [POST |-> <<"post", "head", "chunk", "last">>,
     PUT |-> <<"put", "body">>, r100 |-> <<"r100">>, r200 |-> <<"r200">>,
     SPLIT |-> <<"splitPut", "body1", "body2">>,
     SHORT |-> <<"short", "padded">>, ZERO |-> <<"zeroPost", "zero">>,
     WRAP |-> <<"get", "rest">>,
     A |-> <<"a1", "a2">>, B |-> <<"b1", "b2">>,
     LIKE |-> <<"upload", "like", "end">>,
     GET |-> <<"ask">>, REPLY |-> <<"reply1", "reply2">>]
        @@ [w \in DOMAIN FrameSegment |-> <<w>>]
MCAnswers == {<<"PUT", "r200">>, <<"GET", "REPLY">>}

\* How often each segment is captured, for those of the traffic
Of(copies) == [w \in MCWire |-> IF w \in DOMAIN copies THEN copies[w] ELSE 0]
MCTraffics == 
    {Of(t) : t \in {Chunked, Continue, Repeated, Short, Wrap, Shared, Like, Asked}
                  \cup {[v \in {w} |-> 1] : w \in DOMAIN FrameSegment \cup DOMAIN MisreadSegment}}
SplitTraffic == {Of(Split)}
AgainTraffic == {Of(Again)}
=============================================================================
