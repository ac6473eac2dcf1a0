---------------------------- MODULE FixedFraming ----------------------------
(***************************************************************************)
(* The framing of the TCP connections: FixedPacket and its view            *)
(* (Protos/fixed_packet.h), and PacketAssembler with PROTOCOL_FIXED        *)
(* (Protos/packet_asm.h), which takes frames out of a stream of bytes.     *)
(* A frame is a prefix, the length in two bytes (the upper two of its 16   *)
(* bits are a type that is always 0), the data and a stop byte.            *)
(*                                                                         *)
(* Everything here is an operator on values: an assembler is a record, so  *)
(* that a module can keep one for each connection.                         *)
(***************************************************************************)
EXTENDS Naturals, Sequences

CONSTANTS Radix,      \* number of byte values: 256 in the code
          LenLimit,   \* number of lengths the field can hold: 0x4000
          Hash, Bang, \* the prefixes '#' and '!'
          CR, LF      \* the stop bytes

Byte == 0 .. Radix - 1
Prefixes == {Hash, Bang}
StopBytes == {CR, LF}

ASSUME RadixAssumption == Radix \in Nat \ {0}
ASSUME LenLimitAssumption == LenLimit \in Nat \ {0} /\ LenLimit <= Radix * Radix
ASSUME PrefixAssumption ==
  Prefixes \cup StopBytes \subseteq Byte /\ Prefixes \cap StopBytes = {}

(* Definitions named <Definition>_<Fault> are seeded faults, as in Transporter. *)

\* The 14 bits of the length field in its two bytes, high byte first.
LenField(hi, lo) == (hi * Radix + lo) % LenLimit

-----------------------------------------------------------------------------
(* FixedPacket *)

EmptyPacket == [Len |-> 0, Data |-> <<>>]

\* Data that would not fit is not appended, and nobody is told.
AppendData_NoLimit(p, data) == [Len |-> p.Len + Len(data), Data |-> p.Data \o data]
AppendData(p, data) ==
  IF p.Len + Len(data) > LenLimit - 1
    THEN p
    ELSE [Len |-> p.Len + Len(data), Data |-> p.Data \o data]

ToBinary_NoStop(p, prefix) ==
  <<prefix, p.Len \div Radix, p.Len % Radix>> \o p.Data
ToBinary(p, prefix) ==
  <<prefix, p.Len \div Radix, p.Len % Radix>> \o p.Data \o <<LF>>

\* How every sender makes a frame.
Frame(prefix, data) == ToBinary(AppendData(EmptyPacket, data), prefix)

\* FixedPacketView, which looks at the length field only.
ViewDlc(packet) == LenField(packet[2], packet[3])

-----------------------------------------------------------------------------
(* PacketAssembler.  Of StatusWord only the high byte outlives a call.     *)

NewAssembler ==
  [WaitStatus |-> "START_BYTE", PayloadLen |-> 0, StatusHi |-> 0,
   Packet |-> <<>>, Complete |-> FALSE]

\* PayloadLen keeps its value.
Reset_KeepsPacket(a) ==
  [a EXCEPT !.WaitStatus = "START_BYTE", !.StatusHi = 0, !.Complete = FALSE]
Reset(a) ==
  [a EXCEPT !.WaitStatus = "START_BYTE", !.StatusHi = 0, !.Packet = <<>>,
            !.Complete = FALSE]

Push(a, byte) == [a EXCEPT !.Packet = Append(@, byte)]

AtStart(a, byte) ==
  IF byte \in Prefixes
    THEN [Push(a, byte) EXCEPT !.WaitStatus = "STATUS_HIBYTE"]
    ELSE a

AtHiByte(a, byte) ==
  [Push(a, byte) EXCEPT !.StatusHi = byte, !.WaitStatus = "STATUS_LOBYTE"]

\* A frame without data is given up here; its stop byte comes later.
AtLoByte_TakesEmpty(a, byte) ==
  [Push(a, byte) EXCEPT !.PayloadLen = LenField(a.StatusHi, byte),
                        !.WaitStatus = "PAYLOAD_BYTES"]
AtLoByte(a, byte) ==
  LET len == LenField(a.StatusHi, byte) IN
    IF len = 0
      THEN Reset([a EXCEPT !.PayloadLen = 0])
      ELSE [Push(a, byte) EXCEPT !.PayloadLen = len,
                                 !.WaitStatus = "PAYLOAD_BYTES"]

AtPayload(a, byte) ==
  [Push(a, byte) EXCEPT
     !.PayloadLen = a.PayloadLen - 1,
     !.WaitStatus = IF a.PayloadLen = 1 THEN "STOP_BYTE" ELSE "PAYLOAD_BYTES"]

\* Any other byte is thrown away with the frame, even a prefix.
AtStop(a, byte) ==
  IF byte \in StopBytes THEN [Push(a, byte) EXCEPT !.Complete = TRUE]
                        ELSE Reset(a)

Assemble(a, byte) ==
  CASE a.WaitStatus = "START_BYTE"    -> AtStart(a, byte)
    [] a.WaitStatus = "STATUS_HIBYTE" -> AtHiByte(a, byte)
    [] a.WaitStatus = "STATUS_LOBYTE" -> AtLoByte(a, byte)
    [] a.WaitStatus = "PAYLOAD_BYTES" -> AtPayload(a, byte)
    [] a.WaitStatus = "STOP_BYTE"     -> AtStop(a, byte)

Assemblers ==
  [WaitStatus : {"START_BYTE", "STATUS_HIBYTE", "STATUS_LOBYTE",
                 "PAYLOAD_BYTES", "STOP_BYTE"},
   PayloadLen : 0 .. LenLimit - 1, StatusHi : Byte,
   Packet : Seq(Byte), Complete : BOOLEAN]
=============================================================================
