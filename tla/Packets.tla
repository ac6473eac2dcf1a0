------------------------------ MODULE Packets ------------------------------
(***************************************************************************)
(* The journey of one message: a client's bytes become a Msg, the Msg      *)
(* packets (Protos/protos_msg.h, protos_packet.cpp), a packet a frame of   *)
(* the CAN bus through either port (CanHat::Write, USBCANM2::Write), and a *)
(* frame of the bus a packet and a report to the clients, through either   *)
(* port again (ParseSocketCanPacket, ParsePacket).  Every stage is an      *)
(* action.  Nothing else runs in between: queues and threads are in        *)
(* Transporter, CanHat and UsbLine.                                        *)
(***************************************************************************)
EXTENDS Integers, Sequences

Byte == 0 .. 255
Header == [id0 : Byte, src : Byte, dst : Byte, id3 : Byte]

CONSTANTS Headers,     \* headers that clients and nodes of the bus use
          Sizes,       \* data sizes of messages
          IndexSize    \* values of the index of a long message: 256 in the code

ASSUME HeadersAssumption == Headers \subseteq Header
\* A message travels in a frame, whose length field has 14 bits.
ASSUME SizesAssumption == Sizes \subseteq 0 .. 16383 /\ IndexSize \in 1 .. 256

VARIABLES stage,    \* of the journey
          bin,      \* what the client sent
          msg,
          packets,  \* what ToPackets has made
          rest,     \*   and the data it has left
          tx,       \* the packet in the TxQueue
          frame,    \* the frame of the bus
          port,     \* the port that read it last
          rx,       \*   and the packet it made of it
          report    \* what the clients are told

vars == <<stage, bin, msg, packets, rest, tx, frame, port, rx, report>>

Ports == {"CAN_HAT", "CAN_USB_M"}

(* Definitions named <Definition>_<Fault> are seeded faults, as in Transporter. *)

-----------------------------------------------------------------------------
(* Conversions *)

\* Distinguishable data of a size.
Data(n) == [k \in 1 .. n |-> (85 * k) % 256]

\* ToBinary of a header, and the cast back.
Bytes(h) == <<h.id0, h.src, h.dst, h.id3>>
HeaderOf(b) == [id0 |-> b[1], src |-> b[2], dst |-> b[3], id3 |-> b[4]]
NoHeader == HeaderOf(<<0, 0, 0, 0>>)
Packet(h, d) == [header |-> h, data |-> d]

\* Bits of ID3: SL 0-1, Pri 2-3, PS 4, the rest is not part of the identifier.
SL(id3) == id3 % 4
Pri(id3) == (id3 \div 4) % 4
InBus(id3) == id3 % 32

\* Pack2x and Unpack2x, digit by digit: upper case only.
Digit(n) == IF n < 10 THEN n + 48 ELSE n + 55
Value(c) == IF c < 58 THEN c - 48 ELSE c - 55
Pack2x(b) ==
  [k \in 1 .. 2 * Len(b) |-> LET byte == b[(k + 1) \div 2] IN
                              Digit(IF k % 2 = 1 THEN byte \div 16 ELSE byte % 16)]
Unpack2x(c) ==
  [k \in 1 .. Len(c) \div 2 |-> (16 * Value(c[2 * k - 1])) + Value(c[2 * k])]

-----------------------------------------------------------------------------
Nothing == Packet(NoHeader, <<>>)
NoFrame == [std |-> FALSE, rtr |-> FALSE, id |-> NoHeader, data |-> <<>>]

Init ==
  /\ stage = "start" /\ bin = <<>> /\ msg = Nothing /\ packets = <<>> /\ rest = <<>>
  /\ tx = Nothing /\ frame = NoFrame /\ port \in Ports /\ rx = Nothing /\ report = <<>>

\* A journey starts again with nothing left of the one before.
StartsWith(b, f, s) ==
  /\ stage \in {"start", "lost", "reported"} /\ stage' = s /\ bin' = b /\ frame' = f
  /\ msg' = Nothing /\ packets' = <<>> /\ rest' = <<>> /\ tx' = Nothing
  /\ rx' = Nothing /\ report' = <<>> /\ UNCHANGED port

\* The payload of a data packet; it may be shorter than a header.
ClientSends ==
  \E h \in Headers, n \in Sizes :
    \E b \in {Bytes(h) \o Data(n), SubSeq(Bytes(h), 1, n % 4)} : StartsWith(b, NoFrame, "bytes")

\* A "tx" request sets the header by its fields.
RequestTx ==
  \E h \in Headers, n \in Sizes :
    LET fields == [h EXCEPT !.id0 = 16 * (@ \div 16), !.id3 = 4 * Pri(@)] IN
      /\ StartsWith(Bytes(fields) \o Data(n), NoFrame, "bytes")

\* Other nodes of the bus send extended and standard (11-bit) frames.
NodeSends ==
  \E h \in Headers, n \in {k \in Sizes : k <= 8}, std \in BOOLEAN :
    LET id == [h EXCEPT !.id3 = IF std THEN 0 ELSE InBus(@), !.dst = IF std THEN 0 ELSE @,
                        !.src = IF std THEN @ % 8 ELSE @]
    IN StartsWith(<<>>, [std |-> std, rtr |-> FALSE, id |-> id, data |-> Data(n)], "bus")

\* The constructor of Msg leaves a message empty that has no header.
MakeMsg ==
  /\ stage = "bytes" /\ stage' = "msg"
  /\ msg' = IF Len(bin) < 4 THEN Nothing ELSE Packet(HeaderOf(bin), SubSeq(bin, 5, Len(bin)))
  /\ UNCHANGED <<bin, packets, rest, tx, frame, port, rx, report>>

-----------------------------------------------------------------------------
(* ToPackets *)

IsLong(m) == Len(m.data) > 8

\* LongFirst and LongNext are given all of ID3 for the priority: what is kept
\* of it are the bits of SL.
LongID3(m, sl) == (4 * (m.header.id3 % 4)) + sl
LongFirst(m) ==
  Packet([m.header EXCEPT !.id0 = 16 * (@ \div 16), !.id3 = LongID3(m, 1)],
         <<Len(m.data) % 256, (Len(m.data) \div 256) % 256>>)
LongNext_FromZero(m, index, d) ==
  Packet([m.header EXCEPT !.id0 = (index - 1) % IndexSize, !.id3 = LongID3(m, 2)], d)
LongNext(m, index, d) ==
  Packet([m.header EXCEPT !.id0 = index % IndexSize, !.id3 = LongID3(m, 2)], d)

ToPackets ==
  /\ stage = "msg"
  /\ IF IsLong(msg)
       THEN stage' = "segmenting" /\ packets' = <<LongFirst(msg)>> /\ rest' = msg.data
       ELSE stage' = "packets" /\ packets' = <<msg>> /\ UNCHANGED rest
  /\ UNCHANGED <<bin, msg, tx, frame, port, rx, report>>

\* The number of the packets was computed beforehand.
Count(m) == (Len(m.data) \div 8) + (IF Len(m.data) % 8 = 0 THEN 0 ELSE 1) + 1

NextPacket ==
  /\ stage = "segmenting" /\ Len(packets) < Count(msg) /\ rest # <<>>
  /\ LET n == IF Len(rest) > 8 THEN 8 ELSE Len(rest) IN
       /\ packets' = Append(packets, LongNext(msg, Len(packets), SubSeq(rest, 1, n)))
       /\ rest' = SubSeq(rest, n + 1, Len(rest))
  /\ UNCHANGED <<stage, bin, msg, tx, frame, port, rx, report>>

PacketsMade ==
  /\ stage = "segmenting" /\ (Len(packets) = Count(msg) \/ rest = <<>>) /\ stage' = "packets"
  /\ UNCHANGED <<bin, msg, packets, rest, tx, frame, port, rx, report>>

\* Transporter::Write queues the first packet.
QueueFirst ==
  /\ stage = "packets" /\ stage' = "queued" /\ tx' = packets[1]
  /\ UNCHANGED <<bin, msg, packets, rest, frame, port, rx, report>>

-----------------------------------------------------------------------------
(* A packet becomes a frame *)

\* CanHat::Write sets bit 31, and the top bits of ID3 fall on the two flags
\* below it. What the kernel and the driver do with these is an assumption: a
\* remote frame has no data, and an error frame is not sent.
HatWrites ==
  /\ stage = "queued"
  /\ IF (tx.header.id3 \div 32) % 2 = 1
       THEN stage' = "lost" /\ UNCHANGED frame
       ELSE /\ stage' = "bus"
            /\ LET rtr == (tx.header.id3 \div 64) % 2 = 1 IN
                 frame' = [std |-> FALSE, rtr |-> rtr, id |-> [tx.header EXCEPT !.id3 = InBus(@)],
                           data |-> IF rtr THEN [k \in DOMAIN tx.data |-> 0] ELSE tx.data]
  /\ UNCHANGED <<bin, msg, packets, rest, tx, port, rx, report>>

\* Identifier digits of USBCANM2::Write, from the top byte down, and of a line.
Inverted(h) == <<h.id3, h.dst, h.src, h.id0>>
IdText(h) == Pack2x(Inverted(h))

\* An adapter refuses an identifier that is too large, or cuts it.
UsbWrites ==
  /\ stage = "queued"
  /\ LET b == Unpack2x(IdText(tx.header)) IN
       \/ /\ stage' = "bus"
          /\ frame' = [std |-> FALSE, rtr |-> FALSE, data |-> Unpack2x(Pack2x(tx.data)),
                       id |-> [id0 |-> b[4], src |-> b[3], dst |-> b[2], id3 |-> InBus(b[1])]]
       \/ b[1] > 31 /\ stage' = "lost" /\ UNCHANGED frame
  /\ UNCHANGED <<bin, msg, packets, rest, tx, port, rx, report>>

-----------------------------------------------------------------------------
(* A frame becomes a packet, and a report *)

HatReads_KeepsFour ==
  /\ stage = "bus" /\ stage' = "read" /\ port' = "CAN_HAT"
  /\ rx' = Packet([frame.id EXCEPT !.id3 = @ % 16], frame.data)
  /\ UNCHANGED <<bin, msg, packets, rest, tx, frame, report>>

\* ParseSocketCanPacket does not look at the flags.
HatReads ==
  /\ stage = "bus" /\ stage' = "read" /\ port' = "CAN_HAT"
  /\ rx' = Packet([frame.id EXCEPT !.id3 = InBus(@)], frame.data)
  /\ UNCHANGED <<bin, msg, packets, rest, tx, frame, report>>

\* The digits that an adapter sends for an identifier; USBCANM2 puts a '0'
\* before the three of a standard one.
LineDigits(f) ==
  IF f.std THEN <<48>> \o Tail(Pack2x(<<f.id.src, f.id.id0>>)) ELSE IdText(f.id)

\* ParsePacket; "standard can packet no protos".
UsbHeader_Straight(std, b) == HeaderOf(IF std THEN <<0, 0, b[2], b[1]>> ELSE b)
UsbHeader(std, b) ==
  IF std THEN [id0 |-> 0, src |-> 0, dst |-> b[2], id3 |-> b[1]]
  ELSE [id0 |-> b[4], src |-> b[3], dst |-> b[2], id3 |-> b[1]]

\* A remote frame has another prefix, and is passed over.
UsbReads ==
  /\ stage = "bus" /\ port' = "CAN_USB_M"
  /\ IF frame.rtr
       THEN stage' = "lost" /\ UNCHANGED rx
       ELSE /\ stage' = "read"
            /\ rx' = Packet(UsbHeader(frame.std, Unpack2x(LineDigits(frame))),
                            Unpack2x(Pack2x(frame.data)))
  /\ UNCHANGED <<bin, msg, packets, rest, tx, frame, report>>

\* OnPacket: ToBinary of the packet goes to the clients.
Reports ==
  /\ stage = "read" /\ stage' = "reported" /\ report' = Bytes(rx.header) \o rx.data
  /\ UNCHANGED <<bin, msg, packets, rest, tx, frame, port, rx>>

Next ==
  \/ ClientSends \/ RequestTx \/ NodeSends \/ MakeMsg
  \/ ToPackets \/ NextPacket \/ PacketsMade \/ QueueFirst
  \/ HatWrites \/ UsbWrites \/ HatReads \/ UsbReads \/ Reports
Spec == Init /\ [][Next]_vars

-----------------------------------------------------------------------------
PacketSet == [header : Header, data : Seq(Byte)]
FrameSet == [std : BOOLEAN, rtr : BOOLEAN, id : Header, data : Seq(Byte)]

\* Type correctness.
TypeOK ==
  /\ stage \in {"start", "bytes", "msg", "segmenting", "packets", "queued", "bus", "read",
                "reported", "lost"}
  /\ {bin, rest, report} \subseteq Seq(Byte) /\ {msg, tx, rx} \subseteq PacketSet
  /\ packets \in Seq(PacketSet) /\ frame \in FrameSet /\ port \in Ports

\* What a client sends in one packet, with an identifier that a CAN bus has, is
\* what the clients of another server on the bus are told, byte for byte,
\* through whichever ports. (A message without a header comes as an empty one.)
ShortArrivesUnchanged ==
  stage = "reported" /\ bin # <<>> /\ Len(bin) \in 4 .. 12 /\ bin[4] < 32 => report = bin

\* No bit of an identifier on the bus is lost, and no byte of data, whatever
\* the kind of the frame and the port that reads it; the two ports put the bits
\* of a standard identifier at different places.
Identifier(h) == IF frame.std /\ port = "CAN_USB_M" THEN <<h.dst, h.id3>> ELSE <<h.id0, h.src>>
FrameReported ==
  stage = "reported" =>
    /\ SubSeq(report, 5, Len(report)) = frame.data
    /\ Identifier(HeaderOf(report)) = <<frame.id.id0, frame.id.src>>
    /\ ~frame.std => SubSeq(report, 1, 4) = Bytes(frame.id)

\* The packets of a long message hold it: the first its length, the others its
\* data in order and in full packets but the last; until the index has come
\* round, it tells the place of each.
SegmentsHoldMessage ==
  stage = "packets" /\ IsLong(msg) =>
    /\ packets[1].data[1] + (256 * packets[1].data[2]) = Len(msg.data)
    /\ Len(packets) = 1 + ((Len(msg.data) + 7) \div 8)
    /\ \A i \in DOMAIN msg.data :
         LET p == packets[2 + ((i - 1) \div 8)] IN
           (i - 1) % 8 < Len(p.data) /\ p.data[1 + ((i - 1) % 8)] = msg.data[i]
    /\ Len(packets[Len(packets)].data) = Len(msg.data) - (8 * (Len(packets) - 2))
    /\ \A k \in 2 .. Len(packets) :
         /\ SL(packets[k].header.id3) = 2
         /\ k <= IndexSize => packets[k].header.id0 = k - 1

\* All the packets that a message was made of have been queued when the bus
\* carries it: the Transporter is a "Sender/Receiver msgs" (server_app.h:24).
MessageSent == stage = "bus" /\ bin # <<>> => packets = <<tx>>
=============================================================================
