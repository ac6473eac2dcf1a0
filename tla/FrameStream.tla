---------------------------- MODULE FrameStream ----------------------------
(***************************************************************************)
(* One TCP connection read by a TcpAssoc: the peer sends frames, and other *)
(* bytes between them; the bytes arrive one by one at the assembler of the *)
(* connection (the chunks of readAll() do not matter to it), and each      *)
(* complete packet goes to SignalPacketRecv (App/tcp_server_qt.cpp).       *)
(*                                                                         *)
(* TCP keeps the order, so an item is put on the wire only when the one    *)
(* before it has arrived: what is still under way behind it is not seen.   *)
(***************************************************************************)
EXTENDS FixedFraming

CONSTANTS Payloads,    \* what a peer may put into a frame
          MaxSent,     \* bound: frames with data in one connection
          MaxStray     \* bound: bytes between frames from the first prefix on

ASSUME PayloadsAssumption == Payloads \subseteq Seq(Byte)
ASSUME BoundsAssumption == MaxSent \in Nat /\ MaxStray \in Nat

VARIABLES cur,    \* the bytes of the item under way
          pos,    \* how many of them have arrived
          asm,    \* TcpAssoc::PacketAsm
          sent,   \* history of the connection: frames with data put on the wire
          got,    \* and packets given to SignalPacketRecv
          stray   \* and bytes put between frames from the first prefix on:
                  \*   0 while none of them could be taken for a frame

vars == <<cur, pos, asm, sent, got, stray>>

Init ==
  /\ cur = <<>> /\ pos = 0 /\ asm = NewAssembler
  /\ sent = <<>> /\ got = <<>> /\ stray = 0

HasData(data) == Len(data) \in 1 .. LenLimit - 1

\* Data that is empty or too long makes a frame without data.
Send(prefix, data) ==
  /\ pos = Len(cur) /\ Len(sent) < MaxSent
  /\ cur' = Frame(prefix, data) /\ pos' = 0
  /\ sent' = IF HasData(data) THEN Append(sent, Frame(prefix, data)) ELSE sent
  /\ UNCHANGED <<asm, got, stray>>

\* A byte that belongs to no frame.
Noise(byte) ==
  /\ pos = Len(cur)
  /\ cur' = <<byte>> /\ pos' = 0
  /\ stray' = IF stray > 0 \/ byte \in Prefixes THEN stray + 1 ELSE 0
  /\ stray' <= MaxStray
  /\ UNCHANGED <<asm, sent, got>>

\* One turn of the parse loop of readyRead.
Receive ==
  /\ pos < Len(cur)
  /\ LET a == Assemble(asm, cur[pos + 1]) IN
       IF a.Complete
         THEN asm' = Reset(a) /\ got' = Append(got, a.Packet)
         ELSE asm' = a /\ UNCHANGED got
  /\ pos' = pos + 1
  /\ UNCHANGED <<cur, sent, stray>>

\* The connection ends anywhere, and another one takes its place with an
\* assembler of its own.
Reconnect ==
  /\ cur' = <<>> /\ pos' = 0 /\ asm' = NewAssembler
  /\ sent' = <<>> /\ got' = <<>> /\ stray' = 0

Next ==
  \/ \E prefix \in Prefixes, data \in Payloads : Send(prefix, data)
  \/ \E byte \in Byte : Noise(byte)
  \/ Receive
  \/ Reconnect

Spec == Init /\ [][Next]_vars

\* Bytes on the wire arrive.
FairSpec == Spec /\ WF_vars(Receive)

-----------------------------------------------------------------------------
\* Type correctness; the payload counter stays within the 14 bits of the field.
TypeOK ==
  /\ cur \in Seq(Byte) /\ pos \in 0 .. Len(cur)
  /\ asm \in Assemblers
  /\ sent \in Seq(Seq(Byte)) /\ got \in Seq(Seq(Byte)) /\ stray \in 0 .. MaxStray

\* The handlers read Dlc() bytes behind the header and never look at the size:
\* whatever bytes come, a packet they are given is exactly that long.
WholePacket(packet) ==
  /\ Len(packet) = ViewDlc(packet) + 4 /\ ViewDlc(packet) > 0
  /\ packet[1] \in Prefixes /\ packet[Len(packet)] \in StopBytes
ViewStaysInside == \A k \in 1 .. Len(got) : WholePacket(got[k])

\* What makes it so: at every point the assembler holds the header it has
\* read, and what it holds and what it waits for add up to the length in it.
CountedByHeader(a) ==
  /\ ~a.Complete
  /\ a.Packet # <<>> => a.Packet[1] \in Prefixes
  /\ a.WaitStatus = "START_BYTE" => a.Packet = <<>>
  /\ a.WaitStatus = "STATUS_HIBYTE" => Len(a.Packet) = 1
  /\ a.WaitStatus = "STATUS_LOBYTE" => Len(a.Packet) = 2 /\ a.Packet[2] = a.StatusHi
  /\ a.WaitStatus = "PAYLOAD_BYTES" =>
       /\ Len(a.Packet) >= 3 /\ a.PayloadLen > 0
       /\ Len(a.Packet) + a.PayloadLen = 3 + ViewDlc(a.Packet)
  /\ a.WaitStatus = "STOP_BYTE" =>
       Len(a.Packet) > 3 /\ Len(a.Packet) = 3 + ViewDlc(a.Packet)
NoiseInductive == TypeOK /\ CountedByHeader(asm) /\ ViewStaysInside

\* Frames arrive as they were sent, once and in order, whatever bytes their
\* data holds, and neither frames without data nor bytes between the frames
\* disturb the next one.  A stray prefix starts a frame like any other, so the
\* promise ends with it: to the link it is a reset that lasts until the
\* connection ends.
Frames == {Frame(prefix, data) : prefix \in Prefixes, data \in Payloads}
UntilStray(packets) == IF stray = 0 THEN packets ELSE <<>>
StreamLink == INSTANCE FifoLink WITH
  Packets <- Frames, sent <- UntilStray(sent), got <- UntilStray(got)
FramesInOrder == StreamLink!LinkSpec

\* Between frames the assembler waits for a start byte with nothing in hand,
\* as long as no prefix was sent there.
SynchronisedBetweenFrames ==
  stray = 0 /\ pos = Len(cur) =>
    asm.WaitStatus = "START_BYTE" /\ asm.Packet = <<>> /\ got = sent

\* What makes it so: the assembler holds what has arrived of the frame under
\* way and knows where in the frame it is.  An empty frame is the exception:
\* it is let go with its last byte still to come.
Items == Frames \cup {<<>>} \cup {<<byte>> : byte \in Byte \ Prefixes}
Idle == asm.WaitStatus = "START_BYTE" /\ asm.Packet = <<>>
InsideFrame ==
  /\ asm.Packet = SubSeq(cur, 1, pos)
  /\ pos = 1 => asm.WaitStatus = "STATUS_HIBYTE"
  /\ pos = 2 => asm.WaitStatus = "STATUS_LOBYTE" /\ asm.StatusHi = cur[2]
  /\ pos \in 3 .. Len(cur) - 2 =>
       asm.WaitStatus = "PAYLOAD_BYTES" /\ asm.PayloadLen = Len(cur) - 1 - pos
  /\ pos \in 4 .. Len(cur) /\ pos = Len(cur) - 1 => asm.WaitStatus = "STOP_BYTE"
InStep ==
  /\ cur \in Items /\ ~asm.Complete
  /\ IF pos \in {0, Len(cur)} \/ (Len(cur) = 4 /\ pos = 3) THEN Idle ELSE InsideFrame
  /\ sent = IF Len(cur) > 4 /\ pos < Len(cur) THEN Append(got, cur) ELSE got
StreamInductive == NoiseInductive /\ (stray = 0 => InStep)

\* A frame on the wire is delivered, unless the connection ends or a stray
\* prefix gets ahead of it.
FramesDelivered ==
  \A n \in 1 .. MaxSent :
    Len(sent) >= n ~> (Len(got) >= n \/ sent = <<>> \/ stray > 0)
=============================================================================
