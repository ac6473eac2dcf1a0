------------------------- MODULE FrameStreamProofs -------------------------
(***************************************************************************)
(* Proofs about FrameStream, for every number of byte values, every length *)
(* limit, every set of payloads and every number of frames.                *)
(***************************************************************************)
EXTENDS FrameStream, SequenceTheorems, TLAPS

-----------------------------------------------------------------------------
(* Arithmetic and sequences *)

\* A number below a limit is its own remainder, and remainders are below it.
LEMMA Remainder ==
  ASSUME NEW n \in Nat, NEW m \in Nat \ {0}
  PROVE  n % m \in 0 .. m - 1 /\ (n < m => n % m = n)
  BY Z3

\* Splitting a number into two digits and putting it together again.
LEMMA TwoDigits ==
  ASSUME NEW n \in Nat, NEW r \in Nat \ {0}, n < r * r
  PROVE  /\ n \div r \in 0 .. r - 1 /\ n % r \in 0 .. r - 1
         /\ (n \div r) * r + (n % r) = n
<1>1. (n \div r) * r + (n % r) = n
  BY Z3
<1>2. n % r \in 0 .. r - 1
  BY Z3
<1>3. n \div r \in Nat
  BY Z3
<1>4. n \div r < r
  <2>1. CASE n \div r >= r
    <3>1. (n \div r) * r >= r * r
      BY <1>3, <2>1, Z3
    <3>. QED
      BY <1>1, <1>2, <1>3, <3>1, Z3
  <2>. QED
    BY <1>3, <2>1
<1>. QED
  BY <1>1, <1>2, <1>3, <1>4

\* The length field of any two bytes is a length.
LEMMA LenFieldType ==
  ASSUME NEW hi \in Byte, NEW lo \in Byte
  PROVE  LenField(hi, lo) \in 0 .. LenLimit - 1
<1>1. hi * Radix + lo \in Nat
  BY RadixAssumption DEF Byte
<1>. QED
  BY <1>1, Remainder, LenLimitAssumption DEF LenField

-----------------------------------------------------------------------------
(* The assembler, for any bytes *)

\* Appending keeps what is there.
LEMMA Appended ==
  ASSUME NEW s \in Seq(Byte), NEW byte \in Byte
  PROVE  /\ Append(s, byte) \in Seq(Byte)
         /\ Len(Append(s, byte)) = Len(s) + 1
         /\ Append(s, byte)[Len(s) + 1] = byte
         /\ \A k \in 1 .. Len(s) : Append(s, byte)[k] = s[k]
  BY AppendProperties

\* So does the view of a packet with a header.
LEMMA ViewDlcType ==
  ASSUME NEW packet \in Seq(Byte), Len(packet) >= 3
  PROVE  ViewDlc(packet) \in 0 .. LenLimit - 1
<1>1. packet[2] \in Byte /\ packet[3] \in Byte
  OBVIOUS
<1>. QED
  BY <1>1, LenFieldType, Zenon DEF ViewDlc

\* Reset leaves an assembler that starts anew.
LEMMA AfterReset ==
  ASSUME NEW a \in Assemblers
  PROVE  /\ Reset(a) \in Assemblers /\ CountedByHeader(Reset(a))
         /\ ~Reset(a).Complete
<1> DEFINE r == Reset(a)
<1>1. 0 \in Byte
  BY RadixAssumption DEF Byte
<1>2. r \in Assemblers
  <2>1. <<>> \in Seq(Byte)
    OBVIOUS
  <2>. QED
    BY <1>1, <2>1, Zenon DEF Reset, Assemblers
<1>3. r.WaitStatus = "START_BYTE" /\ r.Packet = <<>> /\ ~r.Complete
  BY DEF Reset, Assemblers
<1>. QED
  BY <1>2, <1>3 DEF CountedByHeader

\* One byte leaves an assembler that counts by its header in such a state, or
\* completes a packet that is as long as its header says.
LEMMA OneByte ==
  ASSUME NEW a \in Assemblers, CountedByHeader(a), NEW byte \in Byte
  PROVE  /\ Assemble(a, byte) \in Assemblers
         /\ Assemble(a, byte).Complete => WholePacket(Assemble(a, byte).Packet)
         /\ ~Assemble(a, byte).Complete => CountedByHeader(Assemble(a, byte))
<1> DEFINE b == Assemble(a, byte)
           p == Append(a.Packet, byte)
<1>1. /\ a.Packet \in Seq(Byte) /\ a.StatusHi \in Byte
      /\ a.PayloadLen \in 0 .. LenLimit - 1 /\ LenLimit \in Nat \ {0}
  BY LenLimitAssumption DEF Assemblers
<1>2. /\ p \in Seq(Byte) /\ Len(p) = Len(a.Packet) + 1 /\ p[Len(p)] = byte
      /\ \A k \in 1 .. Len(a.Packet) : p[k] = a.Packet[k]
  BY <1>1, Appended
<1>3. CASE a.WaitStatus = "START_BYTE"
  <2>1. CASE byte \in Prefixes
    <3>1. b = [a EXCEPT !.Packet = p, !.WaitStatus = "STATUS_HIBYTE"]
      BY <1>3, <2>1 DEF Assemble, AtStart, Push, Assemblers
    <3>2. a.Packet = <<>> /\ Len(p) = 1 /\ p[1] = byte
      BY <1>2, <1>3 DEF CountedByHeader
    <3>. QED
      BY <1>2, <2>1, <3>1, <3>2 DEF Assemblers, CountedByHeader
  <2>2. CASE byte \notin Prefixes
    BY <1>3, <2>2 DEF Assemble, AtStart, CountedByHeader
  <2>. QED
    BY <2>1, <2>2
<1>4. CASE a.WaitStatus = "STATUS_HIBYTE"
  <2>1. b = [a EXCEPT !.Packet = p, !.StatusHi = byte, !.WaitStatus = "STATUS_LOBYTE"]
    BY <1>4 DEF Assemble, AtHiByte, Push, Assemblers
  <2>2. Len(p) = 2 /\ p[2] = byte /\ p[1] \in Prefixes
    <3>1. Len(a.Packet) = 1 /\ (a.Packet # <<>> => a.Packet[1] \in Prefixes)
      BY <1>4 DEF CountedByHeader
    <3>2. a.Packet # <<>>
      BY <3>1
    <3>. QED
      BY <1>2, <3>1, <3>2
  <2>. QED
    BY <1>2, <2>1, <2>2 DEF Assemblers, CountedByHeader
<1>5. CASE a.WaitStatus = "STATUS_LOBYTE"
  <2> DEFINE len == LenField(a.StatusHi, byte)
  <2>1. len \in 0 .. LenLimit - 1
    BY <1>1, LenFieldType
  <2>2. Len(p) = 3 /\ p[1] \in Prefixes /\ ViewDlc(p) = len
    BY <1>1, <1>2, <1>5 DEF CountedByHeader, ViewDlc
  <2> HIDE DEF len
  <2>3. CASE len = 0
    <3>1. b = Reset([a EXCEPT !.PayloadLen = 0])
      BY <1>5, <2>3 DEF Assemble, AtLoByte, len
    <3>2. [a EXCEPT !.PayloadLen = 0] \in Assemblers
      BY <1>1 DEF Assemblers
    <3>. QED
      BY <3>1, <3>2, AfterReset
  <2>4. CASE len # 0
    <3>1. b = [a EXCEPT !.Packet = p, !.PayloadLen = len, !.WaitStatus = "PAYLOAD_BYTES"]
      BY <1>5, <2>4 DEF Assemble, AtLoByte, Push, Assemblers, len
    <3>2. b \in Assemblers
      BY <1>1, <1>2, <2>1, <3>1 DEF Assemblers
    <3>3. /\ b.Packet = p /\ b.PayloadLen = len /\ b.WaitStatus = "PAYLOAD_BYTES"
          /\ b.Complete = a.Complete
      BY <3>1 DEF Assemblers
    <3>4. ~a.Complete
      BY DEF CountedByHeader
    <3>. QED
      BY <2>1, <2>2, <2>4, <3>2, <3>3, <3>4 DEF CountedByHeader
  <2>. QED
    BY <2>3, <2>4
<1>6. CASE a.WaitStatus = "PAYLOAD_BYTES"
  <2> DEFINE next == IF a.PayloadLen = 1 THEN "STOP_BYTE" ELSE "PAYLOAD_BYTES"
  <2>1. b = [a EXCEPT !.Packet = p, !.PayloadLen = a.PayloadLen - 1, !.WaitStatus = next]
    BY <1>6 DEF Assemble, AtPayload, Push, Assemblers
  <2>2. /\ Len(p) >= 4 /\ p[1] \in Prefixes /\ ViewDlc(p) = ViewDlc(a.Packet)
        /\ a.PayloadLen > 0 /\ Len(a.Packet) + a.PayloadLen = 3 + ViewDlc(p)
    BY <1>1, <1>2, <1>6 DEF CountedByHeader, ViewDlc
  <2>3. b \in Assemblers
    <3>1. a.PayloadLen - 1 \in 0 .. LenLimit - 1
      BY <1>1, <2>2
    <3>. QED
      BY <1>2, <2>1, <3>1 DEF Assemblers
  <2>4. /\ b.Packet = p /\ b.PayloadLen = a.PayloadLen - 1 /\ b.WaitStatus = next
        /\ b.Complete = a.Complete
    BY <2>1 DEF Assemblers
  <2>5. ~a.Complete
    BY DEF CountedByHeader
  <2>6. ViewDlc(p) \in Nat
    BY <1>2, <2>2, ViewDlcType
  <2>7. /\ Len(p) + b.PayloadLen = 3 + ViewDlc(p)
        /\ b.WaitStatus = "PAYLOAD_BYTES" => b.PayloadLen > 0
        /\ b.WaitStatus = "STOP_BYTE" => b.PayloadLen = 0
    BY <1>1, <1>2, <2>2, <2>4, <2>6
  <2>8. b.WaitStatus \in {"PAYLOAD_BYTES", "STOP_BYTE"}
    BY <2>4
  <2>. QED
    BY <1>2, <2>2, <2>3, <2>4, <2>5, <2>6, <2>7, <2>8 DEF CountedByHeader
<1>7. CASE a.WaitStatus = "STOP_BYTE"
  <2>1. CASE byte \in StopBytes
    <3>1. b = [a EXCEPT !.Packet = p, !.Complete = TRUE]
      BY <1>7, <2>1 DEF Assemble, AtStop, Push, Assemblers
    <3>2. /\ Len(a.Packet) > 3 /\ p[1] \in Prefixes
          /\ Len(a.Packet) = 3 + ViewDlc(p)
      BY <1>1, <1>2, <1>7 DEF CountedByHeader, ViewDlc
    <3>3. b \in Assemblers /\ b.Packet = p /\ b.Complete = TRUE
      BY <1>2, <3>1 DEF Assemblers
    <3>4. ViewDlc(p) \in Nat
      <4>1. Len(p) >= 3
        BY <1>2, <3>2
      <4>2. ViewDlc(p) \in 0 .. LenLimit - 1
        BY <1>2, <4>1, ViewDlcType
      <4>. QED
        BY <1>1, <4>2
    <3>5. WholePacket(p)
      BY <1>1, <1>2, <2>1, <3>2, <3>4 DEF WholePacket
    <3>. QED
      BY <3>3, <3>5
  <2>2. CASE byte \notin StopBytes
    <3>1. b = Reset(a)
      BY <1>7, <2>2 DEF Assemble, AtStop
    <3>. QED
      BY <3>1, AfterReset
  <2>. QED
    BY <2>1, <2>2
<1>. QED
  BY <1>3, <1>4, <1>5, <1>6, <1>7 DEF Assemblers

-----------------------------------------------------------------------------
(* Any bytes between the frames *)

\* Frames are made of bytes, whatever the data.
LEMMA FrameBytes ==
  ASSUME NEW prefix \in Prefixes, NEW data \in Seq(Byte)
  PROVE  /\ Frame(prefix, data) \in Seq(Byte)
         /\ Len(Frame(prefix, data)) = (IF HasData(data) THEN Len(data) ELSE 0) + 4
         /\ Frame(prefix, data)[1] = prefix
         /\ ViewDlc(Frame(prefix, data)) = Len(Frame(prefix, data)) - 4
         /\ Frame(prefix, data)[Len(Frame(prefix, data))] \in StopBytes
         /\ Len(Frame(prefix, data)) = 4 => Frame(prefix, data)[4] \notin Prefixes
<1> DEFINE n == IF HasData(data) THEN Len(data) ELSE 0
           e == IF HasData(data) THEN data ELSE <<>>
           f == Frame(prefix, data)
<1>1. n \in 0 .. LenLimit - 1 /\ e \in Seq(Byte) /\ Len(e) = n
  BY LenLimitAssumption DEF HasData
<1>2. AppendData(EmptyPacket, data) = [Len |-> n, Data |-> e]
  <2>1. <<>> \o data = data /\ Len(data) \in Nat /\ 0 + Len(data) = Len(data)
    OBVIOUS
  <2>2. CASE Len(data) > LenLimit - 1
    BY <2>1, <2>2, LenLimitAssumption DEF AppendData, EmptyPacket, HasData
  <2>3. CASE Len(data) <= LenLimit - 1
    <3>1. n = Len(data) /\ e = data
      BY <2>3, LenLimitAssumption DEF HasData
    <3>. QED
      BY <2>1, <2>3, <3>1, LenLimitAssumption DEF AppendData, EmptyPacket
  <2>. QED
    BY <2>1, <2>2, <2>3, LenLimitAssumption
<1> DEFINE hi == n \div Radix
           lo == n % Radix
<1>3. f = <<prefix, hi, lo>> \o e \o <<LF>>
  BY <1>2 DEF Frame, ToBinary
<1>4. /\ hi \in Byte /\ lo \in Byte /\ hi * Radix + lo = n
  <2>1. n \in Nat /\ n < Radix * Radix
    BY <1>1, LenLimitAssumption, RadixAssumption
  <2>. HIDE DEF n
  <2>. QED
    BY <2>1, TwoDigits, RadixAssumption DEF Byte
<1>5. LenField(hi, lo) = n
  <2>. HIDE DEF n
  <2>. QED
    BY <1>1, <1>4, Remainder, LenLimitAssumption DEF LenField
<1>6. prefix \in Byte /\ LF \in Byte /\ LF \in StopBytes /\ LF \notin Prefixes
  BY PrefixAssumption DEF StopBytes
<1> HIDE DEF n, e, hi, lo
<1>7. /\ f \in Seq(Byte) /\ Len(f) = n + 4 /\ f[1] = prefix /\ f[2] = hi /\ f[3] = lo
      /\ f[n + 4] = LF
  <2>1. <<prefix, hi, lo>> \in Seq(Byte) /\ <<LF>> \in Seq(Byte)
    BY <1>4, <1>6
  <2>. QED
    BY <1>1, <1>3, <2>1
<1>. QED
  BY <1>5, <1>6, <1>7 DEF ViewDlc, n

\* The constructor leaves an assembler that waits for a start byte.
LEMMA NewStarts == NewAssembler \in Assemblers /\ CountedByHeader(NewAssembler)
  BY LenLimitAssumption, RadixAssumption DEF NewAssembler, Assemblers, CountedByHeader, Byte

\* The invariant of any connection holds at its start.
LEMMA NoiseInit == Init => NoiseInductive
  BY NewStarts, BoundsAssumption DEF Init, NoiseInductive, TypeOK, ViewStaysInside

\* Every step of a connection keeps it.
LEMMA NoiseStep == NoiseInductive /\ [Next]_vars => NoiseInductive'
<1> SUFFICES ASSUME NoiseInductive, [Next]_vars PROVE NoiseInductive'
  OBVIOUS
<1> USE DEF NoiseInductive
<1>1. ASSUME NEW prefix \in Prefixes, NEW data \in Payloads, Send(prefix, data)
      PROVE  NoiseInductive'
  <2>1. Frame(prefix, data) \in Seq(Byte)
    BY FrameBytes, PayloadsAssumption
  <2>2. TypeOK'
    BY <1>1, <2>1 DEF Send, TypeOK
  <2>. QED
    BY <1>1, <2>2 DEF Send, ViewStaysInside
<1>2. ASSUME NEW byte \in Byte, Noise(byte)
      PROVE  NoiseInductive'
  <2>1. <<byte>> \in Seq(Byte)
    OBVIOUS
  <2>2. TypeOK'
    <3>1. stray' \in 0 .. MaxStray
      BY <1>2, BoundsAssumption DEF Noise, TypeOK
    <3>. QED
      BY <1>2, <2>1, <3>1 DEF Noise, TypeOK
  <2>. QED
    BY <1>2, <2>2 DEF Noise, ViewStaysInside
<1>3. ASSUME Receive PROVE NoiseInductive'
  <2> DEFINE a == Assemble(asm, cur[pos + 1])
  <2>1. cur[pos + 1] \in Byte /\ pos' \in 0 .. Len(cur') /\ cur' \in Seq(Byte)
    BY <1>3 DEF Receive, TypeOK
  <2>2. /\ a \in Assemblers
        /\ a.Complete => WholePacket(a.Packet)
        /\ ~a.Complete => CountedByHeader(a)
    BY <2>1, OneByte DEF TypeOK
  <2>3. CASE a.Complete
    <3>1. asm' = Reset(a) /\ got' = Append(got, a.Packet) /\ sent' = sent /\ stray' = stray
      BY <1>3, <2>3 DEF Receive
    <3>2. a.Packet \in Seq(Byte)
      BY <2>2 DEF Assemblers
    <3>3. TypeOK'
      BY <2>1, <2>2, <3>1, <3>2, AfterReset DEF TypeOK
    <3>4. CountedByHeader(asm)'
      BY <2>2, <3>1, AfterReset DEF CountedByHeader
    <3>5. ViewStaysInside'
      <4>1. got \in Seq(Seq(Byte)) /\ got' = Append(got, a.Packet)
        BY <3>1 DEF TypeOK
      <4>2. WholePacket(a.Packet) /\ \A k \in 1 .. Len(got) : WholePacket(got[k])
        BY <2>2, <2>3 DEF ViewStaysInside
      <4>. HIDE DEF a
      <4>3. /\ Len(got') = Len(got) + 1 /\ got'[Len(got) + 1] = a.Packet
            /\ \A k \in 1 .. Len(got) : got'[k] = got[k]
        BY <4>1, <3>2
      <4>4. Len(got) \in Nat
        BY <4>1
      <4>5. \A k \in 1 .. Len(got') : k \in 1 .. Len(got) \/ k = Len(got) + 1
        BY <4>3, <4>4
      <4>6. \A k \in 1 .. Len(got') : WholePacket(got'[k])
        BY <4>2, <4>3, <4>5, Zenon
      <4>. QED
        BY <4>6 DEF ViewStaysInside
    <3>. QED
      BY <3>3, <3>4, <3>5
  <2>4. CASE ~a.Complete
    <3>1. asm' = a /\ got' = got /\ sent' = sent /\ stray' = stray
      BY <1>3, <2>4 DEF Receive
    <3>. QED
      BY <2>1, <2>2, <2>4, <3>1 DEF TypeOK, ViewStaysInside, CountedByHeader
  <2>. QED
    BY <2>3, <2>4
<1>4. ASSUME Reconnect PROVE NoiseInductive'
  <2>1. TypeOK' /\ ViewStaysInside'
    BY <1>4, NewStarts, BoundsAssumption DEF Reconnect, TypeOK, ViewStaysInside
  <2>2. CountedByHeader(asm)'
    BY <1>4, NewStarts DEF Reconnect, CountedByHeader
  <2>. QED
    BY <2>1, <2>2
<1>5. ASSUME UNCHANGED vars PROVE NoiseInductive'
  BY <1>5 DEF vars, TypeOK, ViewStaysInside, CountedByHeader
<1>. QED
  BY <1>1, <1>2, <1>3, <1>4, <1>5 DEF Next

\* The state of a connection is well typed: in particular the payload counter
\* never leaves the range of the length field (packet_asm.h).
THEOREM StreamTypeCorrect == Spec => []TypeOK
<1>1. NoiseInductive => TypeOK
  BY DEF NoiseInductive
<1>. QED
  BY <1>1, NoiseInit, NoiseStep, PTL DEF Spec

\* Whatever bytes arrive, a packet given to the handlers is exactly as long as
\* its length field says, so that reading Dlc() bytes stays inside it.
THEOREM HandlersReadInside == Spec => []ViewStaysInside
<1>1. NoiseInductive => ViewStaysInside
  BY DEF NoiseInductive
<1>. QED
  BY <1>1, NoiseInit, NoiseStep, PTL DEF Spec

-----------------------------------------------------------------------------
(* Until a prefix comes between the frames *)

\* What has arrived grows by the byte that arrives, until it is the item.
LEMMA Arrived ==
  ASSUME NEW s \in Seq(Byte), NEW k \in Nat, k < Len(s)
  PROVE  /\ Append(SubSeq(s, 1, k), s[k + 1]) = SubSeq(s, 1, k + 1)
         /\ SubSeq(s, 1, Len(s)) = s
         /\ k = 0 => SubSeq(s, 1, k) = <<>>
  OBVIOUS

\* A frame under way, as the assembler will see it.
LEMMA FrameUnderWay ==
  ASSUME NEW f \in Frames
  PROVE  /\ f \in Seq(Byte) /\ Len(f) >= 4 /\ f[1] \in Prefixes
         /\ LenField(f[2], f[3]) = Len(f) - 4
         /\ f[Len(f)] \in StopBytes /\ (Len(f) = 4 => f[4] \notin Prefixes)
<1>1. PICK prefix \in Prefixes, data \in Payloads : f = Frame(prefix, data)
  BY DEF Frames
<1>2. data \in Seq(Byte) /\ Len(data) \in Nat
  BY PayloadsAssumption
<1>3. /\ f \in Seq(Byte) /\ Len(f) = (IF HasData(data) THEN Len(data) ELSE 0) + 4
      /\ f[1] = prefix /\ LenField(f[2], f[3]) = Len(f) - 4
      /\ f[Len(f)] \in StopBytes /\ (Len(f) = 4 => f[4] \notin Prefixes)
  BY <1>1, <1>2, FrameBytes DEF ViewDlc
<1>4. Len(f) >= 4
  BY <1>2, <1>3
<1>. QED
  BY <1>3, <1>4

\* The invariant of a well-behaved connection holds at its start.
LEMMA StreamInit == Init => StreamInductive
<1> SUFFICES ASSUME Init PROVE StreamInductive
  OBVIOUS
<1>1. cur = <<>> /\ pos = 0 /\ sent = <<>> /\ got = <<>> /\ Idle /\ ~asm.Complete
  BY DEF Init, NewAssembler, Idle
<1>. QED
  BY <1>1, NoiseInit DEF StreamInductive, InStep, Items

\* A byte of a frame is received in step with the frame.
LEMMA FrameByte ==
  ASSUME NoiseInductive, InStep, Receive, cur \in Frames
  PROVE  InStep'
<1> DEFINE byte == cur[pos + 1]
           a == Assemble(asm, byte)
           p == Append(asm.Packet, byte)
<1>0. TypeOK /\ InStep
  BY DEF NoiseInductive
<1>1. /\ cur \in Seq(Byte) /\ Len(cur) >= 4 /\ cur[1] \in Prefixes
      /\ LenField(cur[2], cur[3]) = Len(cur) - 4
      /\ cur[Len(cur)] \in StopBytes /\ (Len(cur) = 4 => cur[4] \notin Prefixes)
  BY FrameUnderWay
<1>2. /\ pos \in Nat /\ Len(cur) \in Nat /\ pos < Len(cur) /\ pos' = pos + 1 /\ cur' = cur /\ sent' = sent
      /\ cur' \in Items
  BY <1>0 DEF Receive, TypeOK, Items
<1>3. asm \in Assemblers /\ ~asm.Complete
  BY <1>0 DEF TypeOK, InStep
<1>4. /\ a.Complete => asm' = Reset(a) /\ got' = Append(got, a.Packet)
      /\ ~a.Complete => asm' = a /\ got' = got
  BY DEF Receive
<1>5. /\ Append(SubSeq(cur, 1, pos), byte) = SubSeq(cur, 1, pos + 1)
      /\ SubSeq(cur, 1, Len(cur)) = cur
      /\ pos = 0 => SubSeq(cur, 1, pos) = <<>>
  BY <1>1, <1>2, Arrived
<1>6. sent = IF Len(cur) > 4 THEN Append(got, cur) ELSE got
  BY <1>0, <1>2 DEF InStep
<1> DEFINE len == Len(cur)
<1>10. len \in Nat /\ len >= 4
  BY <1>1, <1>2
<1>11. ASSUME pos + 1 < len, ~(len = 4 /\ pos = 2), InsideFrame', got' = got, ~asm'.Complete
       PROVE  InStep'
  BY <1>2, <1>6, <1>10, <1>11 DEF InStep
<1>7. CASE pos = 0
  <2>1. Idle
    BY <1>0, <1>7 DEF InStep
  <2>2. a = [asm EXCEPT !.Packet = p, !.WaitStatus = "STATUS_HIBYTE"]
    BY <1>1, <1>3, <1>7, <2>1 DEF Idle, Assemble, AtStart, Push, Assemblers
  <2>3. p = SubSeq(cur, 1, 1)
    BY <1>5, <1>7, <2>1 DEF Idle
  <2>4. /\ asm' = a /\ got' = got /\ ~a.Complete /\ a.Packet = p
        /\ a.WaitStatus = "STATUS_HIBYTE"
    BY <1>3, <1>4, <2>2 DEF Assemblers
  <2>5. InsideFrame'
    BY <1>2, <1>7, <1>10, <2>3, <2>4 DEF InsideFrame
  <2>. QED
    BY <1>2, <1>7, <1>10, <1>11, <2>4, <2>5
<1>8. CASE pos \in 1 .. Len(cur) - 1 /\ ~(Len(cur) = 4 /\ pos = 3)
  <2>1. InsideFrame
    BY <1>0, <1>2, <1>8 DEF InStep
  <2>2. p = SubSeq(cur, 1, pos + 1)
    BY <1>5, <2>1 DEF InsideFrame
  <2>3. CASE pos = 1
    <3>1. asm.WaitStatus = "STATUS_HIBYTE"
      BY <1>1, <1>2, <2>1, <2>3 DEF InsideFrame
    <3>2. a = [asm EXCEPT !.Packet = p, !.StatusHi = byte, !.WaitStatus = "STATUS_LOBYTE"]
      BY <1>3, <3>1 DEF Assemble, AtHiByte, Push, Assemblers
    <3>3. /\ asm' = a /\ got' = got /\ ~a.Complete /\ a.Packet = p
          /\ a.WaitStatus = "STATUS_LOBYTE" /\ a.StatusHi = cur[2]
      BY <1>3, <1>4, <2>3, <3>2 DEF Assemblers
    <3>4. pos' = 2 /\ cur' = cur /\ asm'.Packet = SubSeq(cur', 1, pos')
      BY <1>2, <2>2, <2>3, <3>3
    <3>5. asm'.WaitStatus = "STATUS_LOBYTE" /\ asm'.StatusHi = cur'[2]
      BY <3>3, <3>4
    <3>6. InsideFrame'
      BY <3>4, <3>5 DEF InsideFrame
    <3>. QED
      BY <1>2, <1>10, <1>11, <2>3, <3>3, <3>6
  <2>4. CASE pos = 2
    <3>1. asm.WaitStatus = "STATUS_LOBYTE" /\ LenField(asm.StatusHi, byte) = Len(cur) - 4
          /\ asm.StatusHi = cur[2]
      BY <1>1, <2>1, <2>4 DEF InsideFrame
    <3>2. CASE Len(cur) = 4
      <4>1. a = Reset([asm EXCEPT !.PayloadLen = 0])
        BY <3>1, <3>2 DEF Assemble, AtLoByte
      <4>2. ~a.Complete /\ a.WaitStatus = "START_BYTE" /\ a.Packet = <<>>
        BY <1>3, <4>1 DEF Reset, Assemblers
      <4>3. Idle' /\ asm' = a /\ got' = got
        BY <1>4, <4>2 DEF Idle
      <4>. QED
        BY <1>2, <1>6, <2>4, <3>2, <4>2, <4>3 DEF InStep
    <3>3. CASE Len(cur) > 4
      <4>1. a = [asm EXCEPT !.Packet = p, !.PayloadLen = Len(cur) - 4,
                            !.WaitStatus = "PAYLOAD_BYTES"]
        BY <1>1, <1>3, <3>1, <3>3 DEF Assemble, AtLoByte, Push, Assemblers
      <4>2. /\ asm' = a /\ got' = got /\ ~a.Complete /\ a.Packet = p
            /\ a.WaitStatus = "PAYLOAD_BYTES" /\ a.PayloadLen = Len(cur) - 4
        BY <1>3, <1>4, <3>1, <4>1 DEF Assemblers
      <4>3. InsideFrame'
        BY <1>2, <1>10, <2>2, <2>4, <3>3, <4>2 DEF InsideFrame
      <4>4. pos + 1 = 3
        BY <2>4
      <4>5. len \in Nat /\ len > 4
        BY <1>10, <3>3
      <4>6. \A n \in Nat : n > 4 => n > 3 /\ n # 4
        OBVIOUS
      <4>7. len > 3 /\ len # 4
        BY <4>5, <4>6, Zenon
      <4>. QED
        BY <1>11, <4>2, <4>3, <4>4, <4>7
    <3>5. \A n \in Nat : n >= 4 => n = 4 \/ n > 4
      OBVIOUS
    <3>4. len = 4 \/ len > 4
      BY <1>10, <3>5, Zenon
    <3>. QED
      BY <3>2, <3>3, <3>4
  <2>5. CASE pos \in 3 .. Len(cur) - 2
    <3>1. asm.WaitStatus = "PAYLOAD_BYTES" /\ asm.PayloadLen = Len(cur) - 1 - pos
      BY <1>1, <2>1, <2>5 DEF InsideFrame
    <3>2. a = [asm EXCEPT !.Packet = p, !.PayloadLen = asm.PayloadLen - 1,
                 !.WaitStatus = IF asm.PayloadLen = 1 THEN "STOP_BYTE" ELSE "PAYLOAD_BYTES"]
      BY <1>3, <3>1 DEF Assemble, AtPayload, Push, Assemblers
    <3>3. /\ asm' = a /\ got' = got /\ ~a.Complete /\ a.Packet = p
          /\ a.WaitStatus = IF pos = Len(cur) - 2 THEN "STOP_BYTE" ELSE "PAYLOAD_BYTES"
          /\ a.PayloadLen = Len(cur) - 1 - (pos + 1)
      BY <1>1, <1>2, <1>3, <1>4, <3>1, <3>2 DEF Assemblers
    <3>4. InsideFrame'
      BY <1>2, <1>10, <2>2, <2>5, <3>3 DEF InsideFrame
    <3>. QED
      BY <1>2, <1>10, <1>11, <2>5, <3>3, <3>4
  <2>6. CASE pos >= 3 /\ pos = Len(cur) - 1
    <3>1. Len(cur) > 4
      BY <1>1, <1>8, <2>6
    <3>2. asm.WaitStatus = "STOP_BYTE"
      BY <1>1, <2>1, <2>6, <3>1 DEF InsideFrame
    <3>3. byte \in StopBytes /\ p = cur
      BY <1>1, <1>2, <1>5, <2>2, <2>6
    <3>4. a = [asm EXCEPT !.Packet = p, !.Complete = TRUE]
      BY <1>3, <3>2, <3>3 DEF Assemble, AtStop, Push, Assemblers
    <3>5. a.Complete /\ a.Packet = cur /\ asm' = Reset(a) /\ got' = Append(got, cur)
      BY <1>3, <1>4, <3>3, <3>4 DEF Assemblers
    <3>6. Idle' /\ ~asm'.Complete
      BY <1>3, <3>4, <3>5 DEF Idle, Reset, Assemblers
    <3>. QED
      BY <1>1, <1>2, <1>6, <2>6, <3>1, <3>5, <3>6 DEF InStep
  <2>. QED
    BY <1>1, <1>2, <1>8, <2>3, <2>4, <2>5, <2>6
<1>9. CASE Len(cur) = 4 /\ pos = 3
  <2>1. Idle
    BY <1>0, <1>9 DEF InStep
  <2>2. byte \notin Prefixes
    BY <1>1, <1>9
  <2>3. a = asm
    BY <2>1, <2>2 DEF Idle, Assemble, AtStart
  <2>. QED
    BY <1>1, <1>2, <1>3, <1>4, <1>6, <1>9, <2>1, <2>3 DEF InStep, Idle
<1>. QED
  BY <1>1, <1>2, <1>7, <1>8, <1>9

\* Every step of a well-behaved connection keeps its invariant.
LEMMA StreamStep == StreamInductive /\ [Next]_vars => StreamInductive'
<1> SUFFICES ASSUME StreamInductive, [Next]_vars PROVE StreamInductive'
  OBVIOUS
<1>1. NoiseInductive' /\ NoiseInductive
  BY NoiseStep DEF StreamInductive
<1>2. cur \in Seq(Byte) /\ pos \in 0 .. Len(cur) /\ Len(cur) \in Nat /\ (stray = 0 => InStep)
  BY DEF StreamInductive, NoiseInductive, TypeOK
<1>3. ASSUME NEW prefix \in Prefixes, NEW data \in Payloads, Send(prefix, data), stray' = 0
      PROVE  InStep'
  <2> DEFINE f == Frame(prefix, data)
  <2>1. pos = Len(cur) /\ cur' = f /\ pos' = 0 /\ asm' = asm /\ got' = got /\ stray = 0
    BY <1>3 DEF Send
  <2>2. Idle /\ ~asm.Complete /\ sent = got
    BY <1>2, <2>1 DEF InStep
  <2>3. sent' = IF HasData(data) THEN Append(sent, f) ELSE sent
    BY <1>3 DEF Send
  <2>4. f \in Frames /\ Len(f) >= 4 /\ (HasData(data) <=> Len(f) > 4)
    <3>1. data \in Seq(Byte) /\ Len(data) \in Nat
      BY PayloadsAssumption
    <3>2. Len(f) = (IF HasData(data) THEN Len(data) ELSE 0) + 4
      BY <3>1, FrameBytes
    <3>3. f \in Frames
      BY DEF Frames
    <3>. HIDE DEF f
    <3>. QED
      BY <3>1, <3>2, <3>3 DEF HasData
  <2>. HIDE DEF f
  <2>. QED
    BY <2>1, <2>2, <2>3, <2>4 DEF InStep, Items, Idle
<1>4. ASSUME NEW byte \in Byte, Noise(byte), stray' = 0
      PROVE  InStep'
  <2>1. /\ pos = Len(cur) /\ cur' = <<byte>> /\ pos' = 0 /\ asm' = asm
        /\ got' = got /\ sent' = sent
    BY <1>4 DEF Noise
  <2>3. stray = 0 /\ byte \notin Prefixes
    BY <1>1, <1>4 DEF Noise, NoiseInductive, TypeOK
  <2>2. Idle /\ ~asm.Complete /\ sent = got
    BY <1>2, <2>1, <2>3 DEF InStep
  <2>. QED
    BY <2>1, <2>2, <2>3 DEF InStep, Items, Idle
<1>5. ASSUME Receive, stray' = 0 PROVE InStep'
  <2>4. InStep
    BY <1>2, <1>5 DEF Receive
  <2>1. CASE cur \in Frames
    BY <1>1, <1>5, <2>1, <2>4, FrameByte
  <2>2. CASE cur = <<>>
    BY <1>2, <1>5, <2>2 DEF Receive
  <2>3. ASSUME NEW byte \in Byte \ Prefixes, cur = <<byte>> PROVE InStep'
    <3>1. pos = 0 /\ pos' = 1 /\ cur' = cur /\ cur[pos + 1] = byte /\ Len(cur) = 1
      BY <1>2, <1>5, <2>3 DEF Receive
    <3>2. Idle /\ ~asm.Complete /\ sent = got
      BY <2>4, <3>1 DEF InStep
    <3>3. Assemble(asm, byte) = asm
      BY <3>2 DEF Idle, Assemble, AtStart
    <3>4. asm' = asm /\ got' = got /\ sent' = sent
      BY <1>5, <3>1, <3>2, <3>3 DEF Receive
    <3>. QED
      BY <2>4, <3>1, <3>2, <3>4 DEF InStep, Items, Idle
  <2>. QED
    BY <2>1, <2>2, <2>3, <2>4 DEF InStep, Items
<1>6. ASSUME Reconnect PROVE InStep'
  BY <1>6 DEF Reconnect, InStep, Items, Idle, NewAssembler
<1>7. ASSUME UNCHANGED vars, stray' = 0 PROVE InStep'
  BY <1>2, <1>7 DEF vars, InStep, Items, Idle, InsideFrame, Frames
<1>8. stray' = 0 => InStep'
  BY <1>3, <1>4, <1>5, <1>6, <1>7 DEF Next
<1>. QED
  BY <1>1, <1>8 DEF StreamInductive

\* Until a prefix is sent between the frames, the assembler is back at the
\* start, with every packet delivered, whenever an item ends: neither data that
\* holds prefixes or stop bytes nor empty frames nor other bytes between the
\* frames get it out of step.
THEOREM StaysSynchronised == Spec => []SynchronisedBetweenFrames
<1>1. StreamInductive => SynchronisedBetweenFrames
  BY DEF StreamInductive, InStep, Idle, SynchronisedBetweenFrames
<1>. QED
  BY <1>1, StreamStep, StreamInit, PTL DEF Spec

\* A connection is a FifoLink until a byte between the frames can be taken for
\* a prefix: the handlers get the frames that carry data, once and in order.
THEOREM StreamImplementsFifo == Spec => FramesInOrder
<1>1. Init => StreamLink!LinkInit
  BY DEF Init, StreamLink!LinkInit, UntilStray
<1>2. ASSUME StreamInductive, StreamInductive', [Next]_vars
      PROVE  [StreamLink!LinkNext]_(StreamLink!linkVars)
  <2>1. /\ TypeOK /\ TypeOK' /\ (stray = 0 => InStep) /\ (stray' = 0 => InStep')
        /\ stray \in Nat
    BY <1>2 DEF StreamInductive, NoiseInductive, TypeOK
  <2> DEFINE offered == UntilStray(sent)
             taken == UntilStray(got)
  <2>2. ASSUME NEW prefix \in Prefixes, NEW data \in Payloads, Send(prefix, data)
        PROVE  StreamLink!LinkNext \/ UNCHANGED <<offered, taken>>
    <3>1. Frame(prefix, data) \in Frames
      BY DEF Frames
    <3>2. /\ got' = got /\ stray' = stray
          /\ sent' = Append(sent, Frame(prefix, data)) \/ sent' = sent
      BY <2>2 DEF Send
    <3>3. CASE stray = 0
      BY <3>1, <3>2, <3>3 DEF UntilStray, StreamLink!LinkNext, StreamLink!Send
    <3>4. CASE stray # 0
      BY <3>2, <3>4 DEF UntilStray
    <3>. QED
      BY <3>3, <3>4
  <2>3. ASSUME NEW byte \in Byte, Noise(byte)
        PROVE  StreamLink!LinkNext \/ UNCHANGED <<offered, taken>>
    <3>1. sent' = sent /\ got' = got
      BY <2>3 DEF Noise
    <3>2. CASE stray' = 0
      <4>1. stray = 0
        BY <2>1, <2>3, <3>2 DEF Noise
      <4>. QED
        BY <3>1, <3>2, <4>1 DEF UntilStray
    <3>3. CASE stray' # 0
      BY <3>3 DEF UntilStray, StreamLink!LinkNext, StreamLink!Reset
    <3>. QED
      BY <3>2, <3>3
  <2>4. ASSUME Receive
        PROVE  StreamLink!LinkNext \/ UNCHANGED <<offered, taken>>
    <3>0. sent' = sent /\ cur' = cur /\ stray' = stray
      BY <2>4 DEF Receive
    <3>1. CASE stray # 0
      BY <3>0, <3>1 DEF UntilStray
    <3>2. CASE stray = 0
      <4>1. /\ sent \in Seq(Seq(Byte)) /\ got \in Seq(Seq(Byte)) /\ got' \in Seq(Seq(Byte))
            /\ cur \in Seq(Byte)
        BY <2>1 DEF TypeOK
      <4>2. /\ sent = got \/ sent = Append(got, cur)
            /\ sent = got' \/ sent = Append(got', cur)
        BY <2>1, <3>0, <3>2 DEF InStep
      <4>3. got' = got \/ \E packet \in Seq(Byte) : got' = Append(got, packet)
        <5>1. got' = got \/ got' = Append(got, Assemble(asm, cur[pos + 1]).Packet)
          BY <2>4 DEF Receive
        <5>2. cur[pos + 1] \in Byte /\ asm \in Assemblers /\ CountedByHeader(asm)
          BY <1>2, <2>1, <2>4 DEF Receive, TypeOK, StreamInductive, NoiseInductive
        <5>3. Assemble(asm, cur[pos + 1]).Packet \in Seq(Byte)
          BY <5>2, OneByte DEF Assemblers
        <5>. QED
          BY <5>1, <5>3
      <4>4. CASE got' = got
        BY <3>0, <4>4 DEF UntilStray
      <4>5. ASSUME NEW packet \in Seq(Byte), got' = Append(got, packet)
            PROVE  StreamLink!LinkNext
        <5>1. Len(got') = Len(got) + 1 /\ Len(sent) <= Len(got) + 1
          BY <4>1, <4>2, <4>5
        <5>2. sent = got'
          BY <4>1, <4>2, <5>1
        <5>3. got' = SubSeq(sent, 1, Len(sent)) /\ Len(sent) \in Len(got) + 1 .. Len(sent)
          BY <4>1, <5>1, <5>2
        <5>. QED
          BY <3>0, <3>2, <5>3 DEF UntilStray, StreamLink!LinkNext, StreamLink!Deliver
      <4>. QED
        BY <4>3, <4>4, <4>5
    <3>. QED
      BY <3>1, <3>2
  <2>5. ASSUME Reconnect PROVE StreamLink!LinkNext
    BY <2>5 DEF Reconnect, UntilStray, StreamLink!LinkNext, StreamLink!Reset
  <2>6. ASSUME UNCHANGED vars PROVE UNCHANGED <<offered, taken>>
    BY <2>6 DEF vars, UntilStray
  <2>. QED
    BY <1>2, <2>2, <2>3, <2>4, <2>5, <2>6 DEF Next, StreamLink!linkVars
<1>. QED
  BY <1>1, <1>2, StreamStep, StreamInit, PTL DEF Spec, FramesInOrder, StreamLink!LinkSpec
=============================================================================
