# Verification of perfma-replay

perfma-replay records the traffic of a server: it captures TCP packets with
libpcap, puts HTTP messages together from them, filters them, and writes them to
files. This directory holds TLA+ models of it, translated from the Go source,
the TLC runs that check them on small instances, and TLAPS proofs for all
instances. Line numbers refer to the sources next to it; every definition's
lines are listed in `PROJECT.json` under "map".

## 1. The system

### Components

| component | state | operations | model |
|---|---|---|---|
| main (`perfma-replay.go`) | the signal and timer channels | start the emitter, wait, close, exit | `Emitter` |
| emitter (`emitter.go`) | a wait group, the plugins; per input the filtered requests | `Start`, `Close`, `CopyMulty` | `Emitter` |
| HTTP modifier (`modifier/`) | none | `Rewrite`: is a request filtered | `Emitter` |
| HTTP input (`input/input_http.go`) | `quit`, `closed`, the context of the listener | `listen`, `PluginReader`, `Close` | `Capture`, `MessageParser` |
| packet capture (`listener/ip_listener.go`) | the handles, `quit`, `closeDone`, the channel of messages | `setInterfaces`, `activatePcap`, `readPcap`, `closeHandles`, `Listen` | `Capture` |
| TCP message parser (`tcp/`) | the map of messages in progress, two channels, a ticker | `ParsePacket`; `PacketHandler`, `processPacket`, `addPacket`, `Fix100Continue`, `Emit`, `timer` | `PacketParsing`, `MessageParser` |
| HTTP framing (`proto/proto.go`) | `HTTPState` of each message | `HasFullPayload` | `HttpFraming` |
| file output (`output/output_file.go`) | the current name and id, the file, its buffer and counters, `closed` | `PluginWriter`, `updateName`, `flush`, `Close` | `FileOutput`, with `%r` in `Recording` |
| response file output | as above, a copy of the code | as above | `Recording` |
| file input (`input/input_file.go`) | readers, a channel, `exit`, the speed | `init`, `emit`, `Close`; `PluginReader` returns an empty message | `FileInput`; its `PluginReader` in `Emitter` |
| TCP and Dubbo input | none (stubs) | `PluginReader` returns an empty message | `Emitter` |
| plugin registry, limiter (`plugins.go`, `limiter.go`) | lists of plugins; a window | `InitPlugins`, `registerPlugin`; `NewLimiter`, `isLimited` | the lists in `Emitter`, `NewLimiter` in `FileInput` |
| TCP, Kafka, stdout output | none, or an external producer | `PluginWriter` | not modelled: a stub, pure I/O |
| settings, record format, Dubbo decoding, `core/`, statistics | none that matters here | parsing and formatting | not modelled |

### How they interact

One reader goroutine per interface reads packets and pushes them into the queue
of its parser (`PacketHandler`, which blocks when 10000 wait). The parser's
goroutine (`wait`) selects between packets and a 100 ms ticker; whole messages go
into one channel that all parsers share (10000 again). A `CopyMulty` goroutine
per input takes messages, through `PluginReader`, drops filtered requests and
their responses, and calls every output in turn. A file output has a lock, taken
anew for each part of a write, and a flusher goroutine that takes it too.

At the end, main closes all plugins and waits for the `CopyMulty`s. Closing the
HTTP input cancels the context that `Listen` waits for; `Listen` tells the
readers and waits for the last of them. If instead the interfaces fail, the last
reader wakes `Listen`, and a watcher goroutine closes the input.

### What is hard in it, and what makes it correct

- **Frames.** Where the payload of a captured frame begins depends on the IP and TCP
  headers; where it ends is not looked at, so that padding becomes payload. The lengths
  of IPv6 extension headers are added up in bytes and in units of 8 bytes.
- **Reassembly.** Segments come in any order, twice or never. The recorded
  messages must be those of the wire; a whole message must not be kept back.
  Sequence numbers wrap, the key of a message is a sum that others may share,
  and the end of a chunked body is told from its last bytes.
- **100-continue.** The Ack, hence the key in the map, changes within a request.
  Messages move and merge inside the map, half-way through which the parser may
  block. No packet may be lost or doubled; a request and its response must keep
  the same id.
- **Expiry.** The ticker removes what never gets whole, while late packets wait.
- **Filtering.** A request and its response are dropped as a pair, across a
  clean-up that a counter triggers.
- **Rotation.** A chunk's name is computed, stored and used in three critical
  sections by several goroutines; files are opened with `O_TRUNC`.
- **Files per request.** With `%r`, the id of a record, the name made of it and
  the file are three critical sections; ids come and go in any order.
- **Two outputs.** Requests and responses go to files of their own, one after the
  other, and are closed one after the other; a malformed response, or a file that cannot
  be opened, ends the process.
- **Restart.** A new run finds the chunks of earlier ones.
- **Replay.** Files are merged by time stamp, while some end, are damaged or
  cannot be opened, and while `Close` takes them away; the pauses between records
  are computed from differences, at a speed that changes while they are made.
- **The end.** Two goroutines close the input, several readers race for being
  the last, full channels may block a reader, and main waits for everything.

## 2. The modules

Each component has a module with its state and actions, a `...Properties` module,
an `MC...` module with small instances, and, where something is proved, a `...Proofs`
module. `DataLemmas` has what the proofs share. None uses RECURSIVE operators. Names with a suffix to an
action's or operator's name (`SendUnbounded`, `ShiftAckUnwrapped`) are its mutants:
the same definition with a plausible bug, each of which violates a property.

**`HttpFraming`** is `HasFullPayload` as an operator: from the `HTTPState` and
the payloads so far to the new state and the verdict. A payload is a record of
what the code finds by searching its bytes: a title, the end of the headers, the
headers it looks for, and how the payload ends. That headers are parsed once, and
the loop over them breaks early, is kept.

**`PacketParsing`** is `ParsePacket` as an operator on a frame, a record of its IP
version and header lengths, its IPv6 extension headers, and how much payload and
padding was captured. It comes with a reference, the lengths by the protocols' own
rules, against which `PayloadFound` compares every frame that is captured: the two
agree but for the padding, for payloads of zeros, for extension headers the
code does not know, and for those of 2048 bytes. The length field of such a header is 255,
and `ldata[totalLen+1]+1` (`tcp_packet.go:141`) is a sum of bytes, so that the walk steps
over none (`StandsStill`) and reads the same bytes again, now as a header of the next kind.
Is that a TCP header, the payload is looked for in the wrong place (`Misplaced`); a
hop-by-hop or routing header, the loop never ends (the result "endless"); a fragment
header, the walk goes on inside the header of 2048 bytes. What it meets there is
a field of the frame, `inner`, of which any value is allowed.

**`MessageParser`** is one interface's parser with its two channels, on top of the
two. Message objects live in `heap`, by number, because the map `m`, the channel and
the calls in progress refer to the same object in the code. `stack` holds the calls
of the parser's goroutine that can block or loop: a send in `Emit`, the merge loop of
`Fix100Continue`, the loop of `timer`, and a `ParsePacket` that does not return. So a step is what the goroutine does
between two points where others can come in. A packet keeps its segment, its Ack
(the only field that is changed) and its age. `MessageID` is the key, the sum with
its carry; `KeyOf` is the key under which the code looks a message up (that of its
first packet), and need not be the one it is stored under. `traffic` is what is on
the wire: how often each segment may be captured. `captured`, `delivered` and
`dropped` are history.

**`Reassembly`** is the abstract specification: copies of segments are captured,
and a message of the wire is recorded, each time with copies of its own: as a whole,
or up to a segment that looks like the end of one. `MessageParserProperties` shows that the parser implements it
(`Reassembles`), with `copies <- captured` and `out` being the data of
`delivered`.

**`FileOutput`** has one action per critical section: `PluginWriter` and
`FlusherGetName` (`filename()` under RLock), `UpdateName`, `Write`, `Flush`,
`Close`, and `Restart` for the process, which may end at any time, also by the `log.Fatal` of a
file that cannot be opened. A file is shown by its index, its content
by its records, and `bufio` hands over any prefix when it is written to.

**`Recording`** composes `CopyMulty`, the two file outputs with their flushers, and
main's `Emitter.Close`. The two outputs are the same code but for what they assemble,
so each definition has the output as parameter. It adds what `FileOutput` leaves out:
`%r` with `currentID` and a name per id, the panic of `AssembleResponse` between
opening a file and writing to it (`WritePanics`), and the `log.Fatal` of a file that cannot
be opened, after the old one was flushed and closed (`OpenFails`). Either ends the process
("aborted") with what both outputs have in their buffers. It leaves out what `FileOutput` has: several writers
and restarts. **`RecordingOutput`** maps one of the two outputs, `Which`, to a
`FileOutput` with one writer: `AsFileOutput` says that without `%r` it takes only steps
of `FileOutput`, but for the one that aborts the process, so that what is checked and proved there holds for the file of the
responses, too.

**`Emitter`** is main with `Emitter` and one `CopyMulty` per input. `Start` runs
in its own goroutine, so `Signal` may come before `StartAssigns` (main then
dereferences nil: "panicked") or between two inputs. `read` and `written` are
history; `filtered`, `count` and `cleaned` are the variables of `CopyMulty`.
The plugins are those of the settings; which of them are inputs and outputs follows
`registerPlugin` (one with a limit is wrapped in a `Limiter`, and is neither).
The panic that Go's WaitGroup may raise when `Add` and `Wait` race is not
modelled, nor is the interval between an input's `Add` and the first line of its
`CopyMulty`.

**`FileInput`** is the goroutine `emit` with its readers, and `Close`, which runs
beside it. A reader holds the record it parsed last; a step of `emit` lies between
two points where `Close` can come in (the select, the choice of a reader, the sleep,
the send). **`Replay`** is its abstract specification: of the records that come next
in their files one with the least time stamp is given. `Replays` maps `out` to the
channel with the payload in hand, and `given`, a history variable, to itself.
Time passes in units: `pause` is what is left of a sleep, `first` and `elapsed`
remember when a pass began. `NewLimiter` may change `speed` at any time, as it does
in the code, where `emit` runs before the `Limiter` is made.

**`Capture`** abstracts each parser to how full its queue is and whether it is
blocked, and has the choice of interfaces, the handles, the readers, `Listen`, the watcher, the input's
`Close` and the consumer. It fixes the environment of `MessageParser` (which
has one reader and a consumer that goes on) and gives `Emitter` its `InputEnds`.
`panicked` records that a channel was closed a second time. **`Lifecycle`** is its
abstract specification, an input as its user sees it: interfaces are lost one by one,
the input is closed once, by its user or when none is left, and only then no longer
read. `EndsAsOne` maps `active` to the handles and `closed` to the input's flag.

## 3. The runs

| run | checks | bounds |
|---|---|---|
| `parse_messages` | `TypeOK`, `PacketsSorted`, `WholeIsEmitted`, `KeyedByFirst`, `Accounted`, `OneObjectPerMessage`, `UUIDPairs`, `PayloadFound`, `EmittedIsFinal`, `Reassembles`, `Drains` (liveness) | seventeen traffics (see below), 294,143 states |
| `continue_split_body` | **violates** `OneObjectPerMessage` | the same PUT, its body in 2 segments |
| `continue_duplicate` | **violates** `SkipsDuplicates` | the PUT, its header twice |
| `file_rotation` | `TypeOK`, `ChunkBound`, `WrittenOnce`, `LosesOnly`, `EarlierRunsKept` | 2 writers, 6 records, a chunk per record, 2 runs of the program |
| `flush_interval` | **violates** `FlushedInTime` | 1 writer, 1 record |
| `record_lost` | **violates** `WrittenStays` | 2 writers, 5 records, of which one is not accepted, a chunk per record by size |
| `recording` | `TypeOK`, `OwnFile`, `ReturnsOnly`, `SurvivesEnd`, `NoOrphans`, `AsFileOutput` of the responses, `RequestsAsFileOutput` (the same of the requests) | 3 messages of 2 ids, with and without `%r`, chunks of 1 or 2, 797,816 states |
| `emitter_copy` | `TypeOK`, `DropsPairs`, `CountCovers`, `SameTraffic`, `WaitsForAll` | an HTTP and a Dubbo input, 2 outputs and a limited one, 4 messages, 3 points in time |
| `exit_after` | **violates** `Exits` | a Dubbo input, a file |
| `capture_close` | `TypeOK`, `ClosedOnce`, `HandlesClosed`, `EndsAsOne`, `CloseStopsListen`, `FailureStopsInput` | 2 interfaces, one or both with a handle, queues and channel of 2 |
| `file_replay` | `TypeOK`, `EndsWhenDone`, `NotAhead`, `Replays`, `CloseEndsEmit` | sets of files with a setup each (looped or not, unreadable, malformed, limits), 12 units of time |
| `file_damaged` | **violates** `Replays` | a gzip file cut off, and a whole one |

**Why the bounds are enough.** Channels hold 1 or 2 elements, so that full and
empty both happen, also at once. Two packets of a message in the wrong order, one
between two others, and one that comes twice need three segments. `Expire` is one
tick: packets are young, expired, or on the edge.

The traffics of `parse_messages` are one question each; they share no key, so two of
them at the same time would meet only in the queues: `Chunked` (a chunked request, its last chunk
twice, and an acknowledgement), `Continue` (a 100-continue with the interim response),
`Repeated` (its body twice), `Short` (padded frames, a payload of zeros), `Wrap` (sequence
numbers wrap within a message), `Shared` (two connections with the same key), `Like`
(data that looks like a last chunk), `Asked` (a request, and its response with a body of its
own), five frames that differ in their headers, and four with an extension header of 2048
bytes, of which two are never parsed to the end (`Drains` excepts a parser that has met one),
one gives a payload, and one an error.
Arithmetic is modulo `SeqSpace`, 1000 in place of 2^32; what matters is that a
number, and an Ack, wraps within a message.

A rotation race needs two writers and the flusher, each with a name in hand; 6 records let each come round
three times. Two runs, of which the first leaves
several chunks, show what becomes of a chunk that is not the newest. `SizeLimit` is
out of reach there (`checkSettings` never leaves it at 0), and is what rotates in
`record_lost`. The writers are interchangeable, so `file_rotation` uses their
symmetry: it checks safety only. `recording` has one writer, as the races of several
are those of `file_rotation`; its two ids come in the order A, B, A, so that the file
of one is opened again after that of the other.

`GCEvery` = 2 lets the clean-up be due with two filtered
requests, and 3 points in time let an entry be too young, just old enough and too
old. In `file_replay`, 6 records fit the channel, so that a file is looped over before
it is full; the limits are the four cases of the speed (slower, as recorded, faster,
0), and 12 units of time are more than its time stamps lie apart at the slowest (10). Deadlock is checked in
the parser's runs; the others may really stop (all records written, or the process at
its end).

**What the violations say of the code.**

- `continue_split_body`: `Fix100Continue` moves a message to the key of its body, by 25
  added to the Ack. It does so after every packet that is added: with the first segment
  of the body the message moves on by another 25, to a key no segment has, and the next
  segment of the body starts a message of its own. It is so when all come in their order.
  Segments of the body that are all there before the header share a key, and are merged.
- `continue_duplicate`: `Fix100Continue` re-adds a message that the merge just
  before it has emitted; a retransmitted header is then merged with the emitted
  body, and the body is recorded twice.
- `flush_interval`: `closeLocked` sets `closed` also when a chunk is merely
  changed, so the flusher ends after the first record.
- `record_lost`: a name computed before another writer's rotation is stored after
  it, and its file is opened with `O_TRUNC`. `LosesOnly` shows that apart from a
  restart and a closed descriptor this is the only way to lose a record, and
  `ChunkBound` how far the same race lets a chunk outgrow its limit.
- `exit_after`: the file, TCP and Dubbo inputs return empty messages for ever and
  have no `Close` that ends `PluginReader`, so `Emitter.Close` never returns.
- `file_damaged`: a reader whose gzip stream ends early keeps its last record and
  its file, and if its time stamp is the least, is chosen for ever.

**Fairness.** `MessageParser`: each goroutine runs (weak fairness of its steps),
time passes, and Go's select takes a case that is ready over and over again in the
end (strong fairness of `Receive` and `Timer`: Go picks at random among ready cases;
that of `Receive` is stated of its effect on the queue, `TakesPacket`, which no
other step has, because TLC sees sooner that it is enabled).
Nothing makes a segment be captured. `FileOutput`: the writers and the flusher run;
neither `Close` nor a restart need happen. `Emitter`: the goroutines run, a signal
or a message need not come; `ReadStopped` is strong because the select with `quit`
and messages is random. `FileInput`: both goroutines run and time passes, which ends every sleep but an endless
one; main need not close the input, nor a limit be set.
`Capture`: the goroutines run, every read ends (libpcap's
read timeout of the handles), `PluginReaderStopped` is strong for the same reason; main
need not close anything, an interface need not fail.

## 4. The proofs

Each `...Proofs` module has an inductive invariant `IInv`, a lemma per action (or per
call of the parser), and the theorems that follow. What is assumed is the named
assumption on the constants, which TLC evaluates for every instance.

**`FileOutputProofs`**, for any number of writers, records and runs and any
limits: `TypeOK`, `EarlierRunsKept` and `LosesOnly`. The
second is an action property: the only step that can change a chunk is opening or
flushing the file a name stands for, so one has to know of every name that is
kept anywhere (current, in a goroutine between its critical sections, in the open
file) that it is not older than the newest chunk found by this run. That
conjunction, with the types and that the newest chunk cannot go down, is
inductive (`Invariance`). The lemmas about `Newest` and `Filename` carry it: the
maximum of a finite set of indices exists, and a new name is at least that
maximum. `LosesOnly` (`RecordsStay`) needs of the invariant only that an open descriptor
has a file; its lemmas follow a record from the buffer into the file: `bufio` may split
the buffer anywhere, both parts are kept (`SplitKeeps`, `FlushedKeeps`), and opening a
file removes only what was in one of the same name (`OpenAndWriteLoses`).

Of `WrittenOnce` (`RecordsWrittenOnce`), the invariant says where a record is: in the
hand of one writer, which no other writer has and which was not accepted, or accepted,
and then in at most one place of the files and the buffer. The lemmas are about sequences
without a repetition: two of them without a common element can be joined (`ConcatOnce`),
and both parts of one that is split have nothing in common (`SplitOnce`), wherever `bufio`
splits the buffer.

`ChunkBound` (`ChunksAreBounded`) holds for any finite set of writers. Once a
chunk is full, `filename()` names it no more (`FullIsNotNamed`), so the names of it that are
in flight only become fewer; each can make it current again, and then every writer that
is ready adds a record. What is in the chunk, `|Writers|` for each name in flight and one for each ready
writer therefore never exceed the limit by more than `|Writers|` squared (`Room`): at the
moment a chunk becomes full, the other writers and the flusher are as many as the writers,
and each is either in flight or ready (`JustFull`).

**`MessageParserProofs`**, for any segments, traffic, capacities and expiry: `TypeOK`
and `PacketsSorted`. Neither is inductive: an action works on the object that the map,
the channel or a call in progress refers to, so the invariant says that whatever refers
to an object refers to one that exists, that none is ever removed, and that each is
well formed with its packets in strict order. That `Message.add` finds a place
between the smaller and the greater sequence numbers (`PlaceToInsert`) needs a least
index, which `LeastNumber` gets from the well-foundedness of strict inclusion; that
what it makes is sorted (`InsertedInOrder`) is a case distinction over the place. The
other operations change packets without their sequence numbers (`ChangedInOrder`: the
ages, the shifted Acks). The order is that of the numbers, without regard to their
wrap, as in the code.

The other theorems of the parser are about traffic in which no request expects a
100-continue and no frame is parsed for ever (`Plain`). The former is not for convenience: `Fix100Continue` adds the length of
the interim response to the Ack of a message, again with each packet that is added, and
deletes the key that it had; with numbers that happen to fit, that is the key of another
message, which is then lost to the map. So with a 100-continue the properties are those of
a given traffic, and TLC checks them; without one they hold of every traffic. The
invariant (`PlainInv`) says that the keys of the map are those of the messages' packets
(`Keyed`), that a message is in one place only, the map, a call in progress, the channel
or `delivered` (`OnePlace`), that what was delivered is what the message still holds
(`Final`), and that copies balance: those captured are those in the queue, those let go,
and a sum over the messages that are alive (`Balanced`). From it follow `KeyedByFirst`,
`Accounted`, `EmittedIsFinal`, and `SkipsDuplicates`, by counting the recordings against
that sum; and `OneObjectPerMessage` (`PlainOneObject`), when the segments of each message
have the same key, as the code's comment says. `Short` and `Shared`, with its two
connections of one key, are such traffics, too.

`PayloadIsFound` is `PayloadFound` for all frames that are `WellFormed`: their headers
were captured, have lengths the protocols allow, and an IPv6 extension header is none of
TCP. A length field may be any byte; the property itself excepts frames with an extension
header of 2048 bytes. It rests on a theorem about the operator alone, `ParseFindsPayload`: the
sums over extension headers are folds, whose recursive function is shown to be a sum over a
set of indices, of which a prefix is no more than the whole. `LongHeaderIsMisread` is about
the frames that are excepted: when the first header of 2048 bytes is followed by a hop-by-hop
or routing header, `ParsePacket` does not return; when it is the last one, what is found, if
anything, is longer by more than 2000 bytes than the payload with its padding.

What `http1EndHint` makes of a message is proved for messages that are framed by their own
headers (`WellFramed`): a title line in the first segment only, an end of the headers, and
a body with its length there, or in chunks of which the last one closes the message. No
more is asked of a chunked body than that no earlier segment ends in an empty line where
that would end the message: a segment that ends in the bytes of a last chunk is allowed, as
in `Like`. `ParseFramed` says which headers are read of the first segments of such a
message, `FullFramed` when its body is complete, `BeginsWithoutGap` that packets without
a gap which start with the title line are its first segments, and `WholeInOrder` that all
of them are in order when the numbers do not wrap. `EndFramed` puts that together, for a
message that has any of its segments: the protocol state stays what it was or becomes that
of its headers (`HeadersOf`), a message is full only at an end, and it is when it has all.
The protocol state outlives the packet that it was read from, so it is part of the
invariant (`States`), as are that no message in the map has all segments of a framed one
(`Waits`) and that what is on its way out is framed up to an end (`Ended`). One step,
taking a packet, changes any of that (`StepKeeps`).

From `Waits` follows `WholeIsEmitted` (`PlainWholeIsEmitted`), for traffic in which what can
be read in full, without padding and wrapping, is framed (`FramedOnWire`). From `Ended`
follows the refinement `Reassembles` (`PlainReassembles`), for traffic in which the segments
that have ports, addresses and Ack in common are those of one framed message (`Separate`);
that each recording has captures of its own is `SkipsDuplicates` in the next state. It
assumes `~AllowIncomplete`, as messages that expire are otherwise recorded without their
end. All seventeen traffics of `parse_messages` meet `FramedOnWire`, and all but those with a
100-continue, with two connections of one key, with padded frames or with an extension header
of 2048 bytes that is not let go meet `Plain` and `Separate`.

`UUIDPairs` (`PlainUUIDPairs`) is about the labels of the recordings. The direction of a
message, which decides its type and how its UUID is made, is asked of packet after packet
until one tells it. The invariant (`Directed`) says that while a message holds segments of
one framed message only, it has the direction of that message's first segment, or none yet,
and then that segment is not held (`Hinted`). A duplicate is asked, too, before it is let go: it
can tell nothing new, because what has its key is of the same message (`Separate`) and what
has its sequence number is the same segment, which is held (`LetGoDirected`). With `Ended`,
what the reader takes begins with the first segment, so that the type and the UUID are those
of the message on the wire (`Labelled`). That UUIDs then join each response to its request,
and to no other (`LabelsPair`), is what the wire must provide: a response begins where its
request expects the next byte, and no other response does (`Answered`); no segment is of two
messages, the segments of one go to one address, and none but the last ends in the bytes of a
last chunk (`Distinct`). `Asked`, `Chunked`, `Wrap` and the five frames meet all of this;
`Like` does not, as its recording ends too early, at the data that looks like an end.

**`EmitterProofs`**, for any plugins, traffic and clean-up: `TypeOK`, `CountCovers`,
`SameTraffic` and `WaitsForAll`. The invariant has, for each input, a common base that
all outputs have got, plus the message in hand for those before `next`; that
`filteredCount` is at least the number of remembered requests, which the lemmas on the
cardinality of what is added and removed carry; and that the wait group is the number of
`CopyMulty`s that run, for which an input that has not been started must be idle.

Of `DropsPairs` (`PairsAreDropped`), the invariant relates the map to what was read: what is
remembered is of a filtered request whose response has not come (`Pending`), and every
such request is remembered, with its time or a later one of the same id, or is older than `GCAge`;
with that, each response that was read was dropped or passed as `DropsPairs` says.
`OneMoreRead` says what one more message does to the pending requests: it ends those it
answers, or is pending itself. The clean-up takes only what is old, time makes nothing younger,
and a write keeps what had passed, by the common base of the outputs.

**`CaptureProofs`**, for any finite set of interfaces and any capacities:
`TypeOK` (no queue or channel outgrows its capacity), `ClosedOnce` and
`HandlesClosed`. The two safety properties are not inductive: the invariant
relates where each reader is with the map of handles (a reader has its handle
until it is gone) and with `closeDone` (closed exactly when no handle is left);
it needs also that no handle can go before `readPcap` has started all readers,
which the lock ensures, that `Listen` returns on `closeDone` only, and that the
input is marked closed when its `quit` is. `ImplementsLifecycle` is the refinement
`EndsAsOne`: the initial states are mapped to one, and each action to an action of
`Lifecycle` or a stutter, by the same invariant.

**`FileInputProofs`**, for any files of which none is damaged (`NoDamage`, which
`file_replay` meets and `file_damaged` does not), any limits and capacity: the
refinement `Replays` (`ImplementsReplay`), `EndsWhenDone` (`AllGiven`) and `TypeOK`. The invariant
says that each reader holds the record after those given of its file, or has none and all
were given. Close breaks that: a reader whose file was closed below it may keep its record
(`ReadPayloadIInv`). Then `exit` is set, so that emit sends what it has and goes away; so
the invariant asks for the readers only while emit is not `AboutToExit`, and that a closed
file means that Close has begun. That `nextReader` finds a least time stamp
(`NextReaderIsLeast`) needs a least number of a set, twice: the time stamp, then the
first reader that has it. Sending stutters, since `out` counts the record in hand.

`KeepsPace` is `NotAhead`. A pause is cut to a whole unit of time, so that each record may
lose less than one; the invariant (`Paced`) counts what has passed, what is left of the
pause and one unit for each record given, and says that they make up for the difference
of the time stamps. It holds whatever order the time stamps come in, as a negative difference
makes no pause.

**`RecordingProofs`**, for any messages, ids and limits: `TypeOK`, `SurvivesEnd`,
`NoOrphans`, `OwnFile` and the action property `ReturnsOnly`. There is one writer, so
that what `record_lost` shows happens only by a late name of the flusher (`misled`), and the
invariants say what is known of each name that is kept: the open file is the newest chunk
of its id, the name in the writer's hand is that or the next one, and is of the id of the
message at hand. When a file cannot be opened
the object is left without one, and the process ends. For `SurvivesEnd` and `NoOrphans` a message
is followed from `CopyMulty` through the two outputs: what was read before the current one was
accepted, came after the close, or was of the other type.

**`RecordingOutputProofs`**: `AsFileOutput` (`OutputsAreFileOutputs`), the refinement of
either output. Files are found by a name here and by an index there; without `%r` the
two are one, and each action is mapped to one of `FileOutput` or to a stutter.

**`DataLemmas`** has what is true of sets, numbers and sequences alone. An induction is
spelled out as the choice of a least counterexample (`LeastSubset`, `LeastNumber`), which
exists because strict inclusion of finite sets is well-founded; with it, a sum over a
finite set is shown to be what its recursive definition says (`SumTakeOff`), to grow and
to change with its terms, and to be what a `FoldLeft` that adds makes of a sequence
(`AddsUpSum`).

**Model-checked only.** All liveness (`Drains`, `CloseStopsListen`,
`FailureStopsInput`, `CloseEndsEmit`), and what is proved above of the parser for traffic
without a 100-continue, when there is one.

## 5. What is not modelled

- Searching headers byte by byte, and formatting records: what the code finds in the bytes is
  given with each segment.
- The later fragments of an IP packet, which have no TCP header though `ParsePacket` reads one,
  and frames that the capture cut short. What the content of an extension header of 2048 bytes
  is when it is read as another header is not computed, but any. Which packets pass the filter
  is libpcap's.
- That `Fix100Continue` and the message it merges share their packets: `MergeNext` copies
  them. If that other message was emitted before, a later shift of the Ack reaches its packets
  too, in the code; no traffic of the runs gets there.
- Messages whose end `HasFullPayload` cannot tell, which `WholeIsEmitted` therefore says nothing
  of: a title line, an empty line or a last chunk split across segments (`proto.go:503`, `567`,
  `577`), and a body that ends with the connection. They expire.
- Errors of speed below a unit of time per record: `NotAhead` allows for the fraction that
  each pause loses, and does not tell that from a speed that is wrong by as little.
- The fields `Truncated`, `TimedOut` and the statistics, which nothing but a log reads;
  `allowIncomplete`, which `HttpInput` never sets (the branch is modelled, and off);
  `MessageParser.Close`, which nothing calls.
- `Append`, gzip and date templates in the file outputs, and the files of another output
  whose name has the same prefix: `filepath.Glob` finds those, too.
- The window of the limiter, which is never asked.
- Malformed records and the cut at the buffer size in `CopyMulty`; errors of outputs, since
  none returns one.
- Two interfaces that capture the same packet have parsers of their own, and would
  record it twice; the model has one.
- Parts without state of their own that matters: settings, the record format, the
  Dubbo decoding, `core/`, the TCP, Kafka and stdout outputs.

## 6. Plan

What is left, most important first:

1. The parser's theorems for traffic with a 100-continue whose numbers do not collide.
2. The order of the outputs' file names (`sortByFileIndex`), with prefixes that two
   outputs share.
