# PServerLinuxNG in TLA+

PServerLinuxNG connects TCP clients to a CAN bus. Clients send Protos packets,
framed as "fixed packets", over TCP; the server writes them to the CAN port and
relays everything that happens on the bus, and everything the other clients
send, to all clients. A client whose frames start with `!` is a control client
(the "UI plugin"): it opens and closes the port, changes the configuration and
switches the message log. This directory holds TLA+ models of that program, the
TLC configurations that check them, and proofs checked by TLAPS.

## The system

| Part | Source | State | Operations |
|---|---|---|---|
| Transporter | `App/protos_transporter.*` | `TxQueue`, `RxEvents`, `TxEvents`, `Posted`, `StopWork` under `Mutex`; `Port` (a `unique_ptr`) and the port's open flag under none; the worker `Thread` | `Restart`, `Stop`, `IsStarted`, `Write`, `OnEvents` on the main thread; `ThreadProc` and `Notify` on the worker |
| CanHat | `App/CanHat.*` | socket, `isOpened`, `threadFlag`, `RxQueue` (no lock), reader thread | `Open`, `Close`, `Read`, `Write` from the worker; `ReadThread` |
| USBCANM2 | `App/USBCANM2.*` | serial port, `RxQueue` | the same, and `HandleReadyRead` on the bytes of the line |
| TcpServer, TcpAssoc | `App/tcp_*_qt.*` | `Assocs`, at most 32 connections, an assembler each | new connection, readyRead (relay, then parse), disconnected, `Broadcast`, `SendTo`, `Close`, `Restart` |
| Framing | `Protos/packet_asm.h`, `Protos/fixed_packet.h` | state of one assembler | `Assemble`, `Reset`; `AppendData`, `ToBinary`, the view |
| ServerApp | `App/server_app.*`, `main.cpp` | the parts above, the log file | data packets, control packets (`op cp tx gcfg scfg scanp state ver logm hi`), `PORT_EVENT` |
| Conf | `App/server_conf.*` | global configuration, the file | `Read`, `Save` |
| MsgLogFile | `App/msg_log_file.*` | an open csv file | `Open`, `Write` |
| Msg, Packet | `Protos/protos_msg.h`, `protos_packet.*` | values | `ToPackets`, `ToBinary`, conversions |

Three kinds of thread meet: the main thread (Qt event loop; every handler of
ServerApp and TcpServer runs there, one at a time), the worker (one per port
session) and, for CanHat, the reader thread of the port object. Main and worker
meet under `Mutex`, through a `PORT_EVENT` posted to the event loop and through
unlocked reads of `Port`. What is hard is: the hand-over of packets in batches,
the coalescing of wakeups in `Posted`, answers about the port that are used
after they were computed, restarts that replace the port object, blocking joins,
raw relaying of partial frames, and a configuration that is reread, saved and
used by several handlers. `hazards` in PROJECT.json lists each at its line.

## Modules

### Transporter

`Transporter.tla` has one variable per member of `Protos::Transporter`, the
program counters `main` and `worker`, the locals of `ThreadProc`
(`readPackets`, `txq`, `written`) and histories of the session that no action
reads (`accepted`, `reported`, `arrived`, `delivered`).

* Main thread: `Request` (a handler that first asks `IsStarted()`),
  `RequestClose` ("cp"), `SetConfig` ("scfg"), `LoadPort`/`DerefPort` (the two
  reads of `Port && Port->IsOpen()`), `WaitWake`/`WaitTimeout` (the wait of
  `WaitPortOpened`), `Write`, `BeginStop`/`FinishStop` (`Stop` before and after
  `join()`), `Spawn` (the rest of `Restart`), `DispatchEvent`, `OnEvents`.
* Worker: `WorkerCreate`, `WorkerOpen`, `WorkerConfigure` (the part of `Open()`
  after `IsOpen()` turned true), `WorkerOpenThrows`, `WorkerWaitStop`,
  `WorkerRead`, `WorkerTake`, `WorkerWrite`, `WorkerPublish`, `WorkerClose`,
  `WorkerClosePort`, in the order of `ThreadProc`.
* Bus: `FrameArrives`, and `FrameWakesReader` for a CanHat reader thread that
  `Close()` waits for.

A critical section is one step; a step outside the mutex that needs the mutex
next waits while main evaluates the predicate of `WaitPortOpened` with it held.
The call of `IsOpen()` on a port object that the worker has meanwhile destroyed
(`probe = "dangling"`) has two outcomes: the answer false, since the object was
closed before, or the end of the process. An exception that leaves the thread
(`USBCANM2::Open` throws string literals and catches `QString`) ends the process
too. `ReadError` is left out: it is never set, as `GetLastError()` of both ports
returns nothing.

`FifoLink.tla` is the abstract specification of one direction: packets come out
once, in order and without gaps; stopping the port forgets what is inside.

`PortService.tla` is the abstract specification of the whole: a port that is off,
opening or on, and the packets it still owes a report. `IsPortService` maps the
two threads to it (a port that is being closed is already off for the handlers).
`TcpServer` is shown to ask no more of its port than that, so that the two models
agree on what passes between them.

`MCTransporter.tla` numbers the packets of a session in the order in which they
come (`InTurn`). The Transporter never compares or copies a packet, so a
behaviour with other packets is one of these renamed.

### CanHat

`CanHat.tla` opens up what the Transporter takes for granted: the SocketCAN port
as the worker and a reader thread of its own share it. `CreateCanHat`, the three
ends of `Open` (`OpenNoSocket`, `OpenNoInterface`, `OpenBound`), `Read`,
`CloseBegins`/`CloseEnds` are the worker's; `ReaderChecks`, `ReaderReads`,
`ReaderReadFails`, `PushBegins`, `PushEnds` are one turn of `ReadThread`.

`RxQueue` is a `std::deque` that both use without a lock. A `Read` between
`PushBegins` and `PushEnds` is a data race, and has the outcomes a build can
produce: it takes the front as if nothing happened (`ReadFront`), it takes the
element that is just being pushed, written or not (`ReadPushed`), or, if the push
fills a block of the deque and moves its end to a new one, it may find anything
(`ReadTorn`): then the model stops (`corrupt`). A block of libstdc++ holds 21 packets
(`Block`). Frames are numbered as the kernel accepts them, and a frame spoilt by a
race is `Garbage`, so `FramesInPlace` says what survives: the place of every frame,
not its content, through every overlap but the last kind. After that one nothing is
promised, and it cannot come before the `Block`-th frame of a session.
`Transporter` takes a push to be whole;
its results about received frames hold up to that.

The port object of a session lives until the next `CreateCanHat` here; the
Transporter destroys it as soon as it is closed. Neither matters to the other,
since a closed object has no thread and no socket left. `Write` and the conversion
of identifiers are in `Packets`.

### UsbLine

`UsbLine.tla` is the other port, USBCANM2: an adapter on a serial line sends every
frame of the bus as a line of text, and answers to commands between them. `Open`,
`Close`, `Read`, `Write` are the worker's. `TakeByte` is one turn of either loop of
`HandleReadyRead`, the outer one between frames (`ReadPrefix`) or the inner one in
a frame (`ReadByte`, and `ParsePacket` at its end), with the locals `prefix` and
`buffer`. The slot sees only what Qt had read before the signal, so `SlotEnds` is
possible before any byte: what it has of an unfinished frame is gone when it
returns (`cut`). It runs in the worker's thread, inside `processEvents`, so the
worker does nothing else until it has ended, but the adapter goes on sending. A
byte is known by its frame and its place there; the buffer of 26 bytes is a
constant. The byte behind the buffer is written before the bound is tested: that
is undefined, and the model lets the process go on or end.
`AdapterSends`, `AdapterAnswers` and `Remainders` (what is left on the line of the
session before) are the adapter, which is not in this repository.

### Packets

`Packets.tla` follows one message at a time through every conversion, one action
each: a client's bytes become a `Msg` (`MakeMsg`, `RequestTx`), the message packets
(`ToPackets`, `NextPacket`, `PacketsMade`), the first of them is queued
(`QueueFirst`), a port makes a frame of it (`HatWrites` with the bits of the
SocketCAN identifier, `UsbWrites` with the digits of the adapter's command), a port
makes a packet of a frame of the bus (`HatReads`, `UsbReads`, also of the frames
that other nodes send, `NodeSends`), and the clients are told (`Reports`). Bytes
are numbers here, and digits are characters (`Pack2x`, `Unpack2x`), since what is lost
in a conversion is the question. `MCPackets.tla` gives it headers with every
group of bits set.

### Control

`Control.tla` has the requests that keep state (`op`, `cp`, `scfg`, `logm`) with the
configuration (`Conf::Read`, `Conf::Save`) and the message log, step by step where a
file is concerned, since the process may end between any two steps (`Crash`) and be
started again (`Start`). Files are in one of two directories: `Read` and `scfg` use
the program's, `Save` the current one. Keys are grouped by what the code does with
them: the port type, a key that `Save` drops (`com`), one that it keeps (`mask`)
and the log's name (`fn`). Of the worker there is what it takes from the
configuration and when (`Creates`, `Opens`), as a handler that stopped
waiting may be changing it meanwhile. `MCControl.tla` names two configurations that
differ in every key.

### Framing

`FixedFraming.tla` is the algorithm: `Frame` builds the bytes of a fixed packet
as `ToBinary` does after `AppendData` (data that is empty or does not fit makes
a frame without data), and `Assemble` is the `PacketAssembler` for one
byte, with one operator per state (`StartByte`, `HiByte`, ...). The width of the
length field is a constant (`Radix`, `LenLimit`: 256 and 16384 in the code).
`FrameStream.tla` is one connection that runs it: the peer puts a frame or a
stray byte on the wire, the bytes arrive one by one, complete packets go to the
handlers, and the connection may end anywhere and be replaced. Chunks do not
exist here because the loop of readyRead feeds the assembler byte by byte and
resets it after each packet. `MCFrameStream.tla` gives it four byte values and a
length field of three bits.

Two claims are worth telling apart. Until a prefix is sent between the frames
(`stray`, a history variable, is 0) the connection is a `FifoLink` of the frames
with data. After that only the length of what is delivered is certain
(`ViewStaysInside`), which the handlers depend on since `FixedPacketView` never
looks at the size it is given; the refinement maps both histories of the link to
nothing from there on.

### TcpServer and Hub

`TcpServer.tla` has one action per slot of the main thread: `OnNewConnection`,
`Disconnected`, `ReadyRead`, `OnEvents` (the PORT_EVENT). A handler that writes
to all clients does not do so in one step. `todo` holds the loops over `Assocs`
it has still to run, `it` the socket the first of them is at; `WriteNext` writes
to one socket, and the write may end that connection, whose slot then erases the
entry from the map under the loop (`Forget`), as a synchronous `disconnected`
does. `LoopEnds` and `Parse` go on to the next loop and the next packet
of the chunk. A frame is a head and a tail, the least that lets TCP cut it.
A client that connects between the two reads of a cut frame is written its tail
alone; the history `missed` has the frames whose head was read before a client came,
and `WrappedAfterRaw` asks for the whole of every other frame before its wrapped copy.

`DataPacket` and `ControlPacket` are the handlers of `ServerApp` by what they do
to clients and port: write to it, restart it, stop it, answer. The port is a
switch and two queues that may report any prefix; `Transporter` has
the detail. `TcpServer::Close` is left out: `ServerApp::Stop` has no caller, and
`Restart` runs it on an empty table.

`Hub.tla` is the abstract specification: an item that nobody has yet is posted at one
moment to all members but one, or to one alone; members come and go and forget. The
refinement counts what the running loop will still write as written (`StreamOf`). A
consequence is that members agree on the order of what they share (`SameOrder`).

### Seeded faults

Operators named `<Definition>_<Fault>` state what a definition would be if the
code had a plausible bug. No specification uses them. PROJECT.json pairs each
with a property that fails when it takes the definition's place, so that every
property is known to be able to fail.

## Runs

| Run | Shows |
|---|---|
| `transporter` | no wakeup is lost (`WakeupPending`), an answer about an open port stays true (`ConfirmedStaysOpen`), packets are conserved both ways (`TxConserved`, `RxConserved`) and come out as from a `FifoLink` (`TxIsFifo`, `RxIsFifo`), the two threads are a `PortService`, a port closes only inside `Stop`; on a bus that keeps talking every handler returns (`HandlersReturn`) and everything accepted or received is reported unless the port is stopped (`TxReported`, `RxReported`) |
| `transporter_silent_bus` | expected violation: on a silent bus "cp" hangs for ever in `CanHat::closeConnection` |
| `canhat` | `FramesInPlace`, `ReaderOnOwnSocket`, `OnlyFailedOpensLeak`: sessions one after the other, opens and reads that fail, reads that overlap pushes; `Close` returns (`CloseReturns`), and what arrives reaches the worker unless the port closes or a read tears the deque (`FramesRead`) |
| `usb_line` | with bytes cut anywhere: only frames that were sent are received, whole, once and in order (`NothingInvented`); exactly those are lost that a `readyRead` came in the middle of or that do not fit (`LossAccounted`); the others reach the worker (`FramesReceived`) |
| `packets` | what a client sends in one packet is what other clients are told (`ShortArrivesUnchanged`), no bit of a frame's identifier or data is lost (`FrameReported`), the packets of a long message hold all of it (`SegmentsHoldMessage`) |
| `packets_long` | expected violation: of a long message only the first packet is queued |
| `control` | started beside the program, where `Save` writes the file that `Read` reads: no configuration is made of two or of a part of one (`ConfWhole`), a port opens on the file that `Restart` read (`OpenedOnFile`), an open log is the one asked for last (`LogAsAsked`), its header is the first line and only there (`HeaderFirst`) |
| `control_same_dir` | expected violation: there a `logm` takes keys from the file that `scfg` acknowledged (`ConfigKept`) |
| `frame_stream` | any data in frames and any bytes between them: until one of these is a prefix `FramesInOrder` (the FifoLink), `SynchronisedBetweenFrames`, `FramesDelivered`; before and after it `ViewStaysInside` |
| `tcp_relay` | four clients for three places, cut frames, data only: the limit of the table (in `TypeOK`), the whole frame before its copy (`WrappedAfterRaw`), and `IsHub` |
| `tcp_port` | two clients, all kinds of packet, the port and a bus: `RightClient`, `ClosedMeansSilent`, `HandlersReturn` |
| `tcp_cut` | expected violation: when TCP cuts inside a frame, something else gets between its parts at another client |

Bounds of the Transporter: `MaxTx` and `MaxRx` bound a session, not a behaviour;
sessions follow each other without bound, so restarts meet every state the
previous session can leave. Two packets tell loss, doubling and reordering apart;
three frames and batches of two (256 in the code) make cycles end with frames left
in the port.

CanHat: four frames a session, and one more while it closes, with blocks of three, so
that there are frames before and after the push that fills one; a socket buffer of
two, so that it fills; three descriptors, so that leaked ones can use them
up, and after that no session opens any more.

UsbLine: two frames after the rest of one that was sent before, so that a piece of
each can meet the other in the buffer. Data of 0 and of 8 bytes, extended and
standard, with and without timestamp, gives the shortest line, the longest that
fits and the one that does not. The rest on the line is of an extended frame, and
at most one answer is on the line at a time: both only keep the states few, a
prefix and a passed-over byte are the same wherever they stand.

Packets: sizes on both sides of every limit (0, a byte, 7, 8, 9, 16, multiples of 8
and others, one whose length needs both bytes). The index of a data packet, which
comes round after 256 in the code, has four values here, so that it does.

Control: two configurations, two logs of two lines. The type that differs from the
default, and every key, is then either of the default's, the first's or the
second's, which is all that a mixture could be made of. `SameDir` is TRUE in the
runs, as only then does `Save` write what `Read` reads; the proofs are for both.

Framing: four byte values, which are the two prefixes and the two stop bytes, so
that every byte of the data can be taken for a mark; the other bytes behave like
a stop byte that is not in its place. With three bits of length the payloads
cover zero, both bytes of the field, the longest that fits and one beyond. One
frame in progress after another is enough because the assembler's state at an
item's end is the same each time; `MaxSent = 2` lets the second show it. From a
stray prefix on, a connection has five bytes between its frames, enough for a
packet made of nothing else; a frame with data takes the place of two of them
(`FewStray`), which leaves three to take the first bytes of the frame along.

TcpServer: two frames and three connections give a sender and two receivers that
must agree; with a fourth socket the table is full, and a socket number is reused
after it disconnects. Every read may be cut in every run.

Fairness of the Transporter: both threads are scheduled (WF on what each owes once started); the
event loop sends posted events in every pass (SF on `DispatchEvent`), and the
deadline of `wait_for` is absolute, so spurious wakeups cannot postpone it (SF
on `WaitTimeout`). Client requests, process death and bus traffic are never
owed; `BusyBus` adds that the bus carries another frame while CanHat's
reader is being joined, which is exactly what `transporter_silent_bus` does
without.

CanHat adds two things: an error of the interface fails one `read()` and not
every one (SF on `ReaderReads`), and the bus carries a frame while `Close` waits.
TcpServer: a handler, once it runs, runs to its end (WF); nothing is owed of clients
or of the event loop. FrameStream: bytes on
the wire arrive (WF). UsbLine: in every cycle the worker processes the events of the
line, to the end of the slot, and reads packets: the slot takes the bytes that there
are and returns (WF on `TakeByte` and `SlotEnds`), and what was queued is read (SF on
`Read`, which waits while the slot runs; where the slot ends is left open). Packets and Control promise nothing in time.

## Proofs

### Transporter

`TransporterProofs.tla` proves for every set of packets, batch size and bound:

* `TypeCorrect`: `TypeOK` is inductive by itself.
* `SafetyInvariant`: `SafetyInductive` is inductive. It adds to the checked
  invariants what each thread may assume of the other: `ThreadsCoupled` (the
  stop flag is up exactly while main waits in `join()`, the worker leaves its
  loop only then), `PortCoupled` (what main learnt of the port stays true
  although nothing protects it) and `HandsCoupled` (when the worker's locals,
  the queues and the histories are empty). The conservation equations alone are
  not inductive: `FinishStop` clears the queues, which is right only because
  the worker holds nothing then.
* From it: `NoLostWakeup`, `TxNeverLost`, `RxNeverLost`, `WriteFindsPortOpen`,
  `ConfirmedPortStaysOpen`, `SessionsStartClean`, `PortClosedOnlyByStop`.
* `TxImplementsFifo`, `RxImplementsFifo`: `Write` and an arriving frame map to
  `Send`, `OnEvents` to `Deliver` (or a stutter), the end of `Stop` to `Reset`.
* `ThreadsImplementPort`: the two threads implement `PortService`. What is owed is
  put together of the queue, the worker's hands and the events (`TxConserved` and
  `RxConserved` say that nothing is missing); a step of the worker is `Opens` or a
  stutter, `OnEvents` is `Report`, the decision to stop is `Stop`, and `Spawn` is
  `Restart`.

The only assumptions are those of `Transporter` on its constants. There is one
lemma per conjunct (`TypeStep`, `ThreadsStep`, `PortStep`, `HandsStep`,
`WakeupStep`, `TxStep`, `RxStep`) with a step per action. Liveness stays with
TLC: the prover does not handle fairness and ENABLED.

### CanHat

`CanHatProofs.tla` proves, for every set of descriptors, number of frames and
buffer size and size of a block, `FramesStayInPlace`, `ReaderKeepsSocket` and
`DescriptorsAccounted`. They follow from `CanHatInvariant`: `CanHatInductive` adds
`ThreadsCoupled` to them (which of the two threads can be where, and when
`threadFlag` and `isOpened` are up). The reader keeps its socket because `Close`
joins before it closes, which is what `ThreadsCoupled` says for every pair of
places.

### Framing

`FrameStreamProofs.tla` proves for every radix, length limit and set of payloads:
`StreamTypeCorrect` and `HandlersReadInside` for any bytes at all (from
`NoiseInductive`: what the assembler holds and what it still waits for add up to
the length in the header), and, until a prefix is sent between the frames,
`StaysSynchronised` and `StreamImplementsFifo` (from `StreamInductive`: as long as
`stray` is 0, the assembler holds exactly what has arrived of the frame under
way). `Assemble` is a case split without recursion: `OneByte`
(any byte) and `FrameByte` (the next byte of a frame) have a case per state, and
carry the whole argument.

### TcpServer

`TcpServerProofs.tla` proves for every number of clients, frames and connections:
`ServerTypeCorrect` (with the limit of the table), `RelayInvariant`,
and `DataReachesRightClient`. `RightClient` is not inductive:
`RelayInductive` adds that data keeps its origin on the wire, in the chunk and in
the loops (`OriginKept`), and that no loop is under way and nothing is kept
for those who left (`AtRest`).
`ServerUsesPort` shows that every action does to the port one step of `PortService`
or none.

Two results are about the order in which a client sees things; each has
inductive invariants of its own, which TLC checked before they were proved.

* `RawBeforeWrapped` takes two. For the tail, `OrderKept` says of every place a
  wrapped copy can be, from the chunk that is still to be parsed to the socket the
  loop is at, that the frame's tail was relayed before to everyone who may get
  the copy (`ChunkRelayed`, `LoopOrdered`, `TodoOrdered`). For the head before the
  tail, `HeadsKept` says that a tail on the wire or in a chunk follows its head there
  or finds it in the assembler (`Framed`), that a head in an assembler was written to
  everyone else who did not miss it (`AssemblersRelayed`), and so every tail that was
  written has its head before it (`HeadsFirst`). That the client the chunk came from
  is left out until the chunk is parsed (`ChunkLoops`) joins the two.
* `ClosedPortSilent`: `SilenceKept` says that no packet given to the port before
  "cp" was parsed is in a queue of the port or in a loop that has still to write
  when the answer is written: what a client sent lies in order on the wire, in the
  chunk and in the queues (`SentInOrder`, `OnlyLater`).

`TcpHubProofs.tla` proves `ServerImplementsHub` and what it gives the clients,
`ClientsSeeSameOrder`: what two of them were both written they were written in
the same order, and neither was written anything twice. In the refinement
`WriteNext` is a stutter, or a `Leave` when the write ends the connection; the step
that brings a loop to the front (the handler's first, or `LoopEnds` of the loop
before) is the `Post`. That it posts something new needs the invariant `Once`: nothing
that was written, or that a loop has still to write, is `Ahead`, which is what frames
not made yet, on the wire, in the chunk or in the queues of the port may still lead to.
A frame is on its way to being posted in up to five forms (raw, wrapped, answered,
reported, logged), each from another place, and each action takes it out of the place
it posts it from: `FewerAhead` says that nothing comes to be ahead again. The packets in the
queues differ (`QueuesOnce`), and so do the loops of a handler (`LoopsOnce`).

### UsbLine

`UsbLineProofs.tla` proves, for any size of the buffer, any data lengths up to 8 and
any number of frames: `LineTypeCorrect`, `NoFrameInvented` and `LossesAccounted`. They
follow from `LineInv`, whose parts speak of the line (`LineOrdered`: frames in the
order they were sent; `LineWhole`: nothing between the bytes of one, and none missing
but those that were taken), of the slot (`SlotInFrame`: what the buffer has is
the frame of the next byte up to that byte), of the frames the slot is not in
(`NoneMissed`: one that was begun and is not lost is the one the slot is in;
`CutBegun`: what was cut was begun) and of what was received (`ReceivedInOrder`,
`AllReceived`). Not even `TypeOK` is inductive without them: that `ParsePacket` makes
a frame and never garbage is what `SlotInFrame` says (`Parsed`). A lemma per action
shows that it keeps `LineInv`; `TakingByte` has what every byte taken does to the line,
`TakeInFrame` the three ends of a byte in a frame.

### Control

`ControlProofs.tla` proves, for any configurations, logs and bounds, wherever the
process is started and ends: `ConfigurationWhole`, `PortOpensOnFile`,
`LogOnlyAsAsked`, `HeadersFirst`. `ControlInductive` adds to them where every
configuration comes from, the file and what `Save` is writing included (`Origins`),
what the worker that has not opened yet will find (`Beginning`: until `scfg`, the
keys in memory are those `Restart` read, as `logm` only changes the name of the
log), which request may hold what (`Steps`), and that packets go only to logs with
a header (`Headed`). One lemma per part, with a step per action.

### Packets

`PacketsProofs.tla` proves, for any headers, sizes up to the 16383 that a frame
carries and up to 256 index values: `ShortUnchanged`, `FramesReported` and
`LongMessageHeld`. The argument is a statement for every stage of the journey:
`ShortOnItsWay`, `FrameOnItsWay` and `LongOnItsWay` (the k-th packet holds the k-th
segment, and what is left begins where it ends), together `JourneyInductive`. Below
are the lemmas that the conversions lose nothing: `RoundTrip` (`Unpack2x` of
`Pack2x`), `BinaryParts` (a header and data from their bytes), `NextSegment`.

### Only model-checked

Liveness: `HandlersReturn`, `TxReported` and `RxReported` of the Transporter,
`CloseReturns` and `FramesRead` of CanHat, `FramesReceived` of UsbLine,
`FramesDelivered` of FrameStream and `HandlersReturn` of TcpServer.
Every safety property of a passing run is proved.

## What the code does that its texts do not say

The four runs that expect a violation each show one, and PROJECT.json quotes the
lines. `control_same_dir` is `Conf::Save` (server_conf.cpp:98-128), which does not write
COM, COMSettings, CANBitrate and other keys: when the server is started in the directory
it lies in, any `logm` takes them from the file that `scfg` acknowledged. Started
elsewhere, `Save` writes a file that nobody reads.

More was met while modelling, where no text of the repository says what should be. The
models have it as the code does, and the properties leave it out as said here:

* `ToPackets` passes a whole ID3 for the two bits of the priority (protos_msg.h:54),
  so that the packets of a long message get the two bits of the segmentation layer
  for theirs.
* A log that the configuration names is not opened at start, as its name is tested
  before the file is read (server_app.cpp:319). `LogAsAsked` does not ask that a log is
  open, only that an open one is the right one.
* Rereading the configuration replaces the log's name while the old log is open
  (server_conf.cpp:62); `LogAsAsked` says nothing of the name until the next `logm`.
* An `scfg` while the worker opens the port can give it parameters of two
  configurations (protos_transporter.cpp:129, `Opens`). `OpenedOnFile` holds for a port
  that has read its parameters before the next `scfg`.
* A call of `IsOpen()` on a destroyed port, or an exception out of
  `USBCANM2::Open`, ends the process; the properties of the Transporter say nothing of
  a process that ended.
* A failed bind leaks its descriptor (CanHat.cpp:35): `OnlyFailedOpensLeak` counts it
  and says that nothing else leaks.
* A read of `RxQueue` during a push that fills a block (`ReadTorn`).

## Plan

Done: the worker and its queues, both ports, framing, the relay, the segmentation and
conversion of messages, control requests with configuration and log, the service of
the port between `Transporter` and `TcpServer`, and proofs of every safety property.
Left:

1. A `Port->Write` that fails: its packet is reported as sent, since
   `GetLastError()` of both ports is always empty (protos_transporter.cpp:167).

## Not modelled

* `Close` and `Restart` of TcpServer on a table with connections, `ReadError`,
  `PacketAssembler::AssemblePacket2x`, `FixedMsg`, `IsCmd`, `FlowControl`, the 2x forms
  of `Packet`, `MsgView`: nothing calls or sets them.
* The requests that only read (`gcfg`, `scanp`, `state`, `ver`, `hi`) as to the text of
  their answers; `TcpServer` has who gets an answer.
* The formats of `protos_format` and the text of a log line: conversions of single
  values that no state depends on. Lower-case digits, which no adapter sends.
* Bytes lost on the serial line, and an adapter that does not follow its protocol.
* The build files, the sample configuration and the prebuilt library: no behaviour.
* Sockets that take less than what is written, the event loop's other sources, and
  the start of `main`.
* Liveness is not proved, only checked: the prover does not handle fairness and
  ENABLED. No module has a recursive operator, and no claim needs induction over
  the data: the proofs that speak of sequences use their lengths and positions.
