--------------------------- MODULE PacketsProofs ---------------------------
(***************************************************************************)
(* Proofs about Packets, for any headers and for messages of every size    *)
(* that a frame can carry.                                                 *)
(***************************************************************************)
EXTENDS Packets, SequenceTheorems, TLAPS

-----------------------------------------------------------------------------
(* Conversions *)

\* A byte and its two digits.
LEMMA Nibbles ==
  ASSUME NEW n \in Byte
  PROVE  (16 * Value(Digit(n \div 16))) + Value(Digit(n % 16)) = n
<1>1. \A d \in 0 .. 15 : Value(Digit(d)) = d
  BY DEF Value, Digit
<1>2. n \div 16 \in 0 .. 15 /\ n % 16 \in 0 .. 15 /\ (16 * (n \div 16)) + (n % 16) = n
  BY DEF Byte
<1>. QED
  BY <1>1, <1>2

\* What Pack2x writes, Unpack2x reads.
LEMMA RoundTrip ==
  ASSUME NEW b \in Seq(Byte)
  PROVE  Unpack2x(Pack2x(b)) = b
<1> DEFINE n == Len(b)
           digit(k) == Digit(IF k % 2 = 1 THEN b[(k + 1) \div 2] \div 16 ELSE b[(k + 1) \div 2] % 16)
<1>1. n \in Nat /\ b = [k \in 1 .. n |-> b[k]] /\ \A k \in 1 .. n : b[k] \in Byte
  OBVIOUS
<1>2. Pack2x(b) = [k \in 1 .. 2 * n |-> digit(k)]
  BY DEF Pack2x
<1>3. \A j \in 1 .. n : digit((2 * j) - 1) = Digit(b[j] \div 16) /\ digit(2 * j) = Digit(b[j] % 16)
  <2>1. \A j \in Nat \ {0} : /\ ((2 * j) - 1) % 2 = 1 /\ (((2 * j) - 1) + 1) \div 2 = j
                             /\ (2 * j) % 2 = 0 /\ ((2 * j) + 1) \div 2 = j
    BY Z3
  <2>. QED
    BY <1>1, <2>1
<1>4. \A j \in 1 .. n : (2 * j) - 1 \in 1 .. 2 * n /\ 2 * j \in 1 .. 2 * n
  BY <1>1
<1> HIDE DEF digit
<1>5. Len(Pack2x(b)) = 2 * n
  BY <1>1, <1>2
<1>6. (2 * n) \div 2 = n
  <2>1. \A m \in Nat : (2 * m) \div 2 = m
    BY Z3
  <2>. QED
    BY <1>1, <2>1
<1>7. \A j \in 1 .. n :
        (16 * Value(Pack2x(b)[(2 * j) - 1])) + Value(Pack2x(b)[2 * j]) = b[j]
  <2>1. TAKE j \in 1 .. n
  <2>2. /\ Pack2x(b)[(2 * j) - 1] = Digit(b[j] \div 16)
        /\ Pack2x(b)[2 * j] = Digit(b[j] % 16)
    BY <1>2, <1>3, <1>4
  <2>. QED
    BY <1>1, <2>2, Nibbles
<1> HIDE DEF n
<1>8. Unpack2x(Pack2x(b)) = [j \in 1 .. n |-> b[j]]
  BY <1>5, <1>6, <1>7 DEF Unpack2x
<1>. QED
  BY <1>1, <1>8

\* A header is its four bytes.
LEMMA HeaderBytes ==
  ASSUME NEW h \in Header
  PROVE  Bytes(h) \in Seq(Byte) /\ Len(Bytes(h)) = 4 /\ HeaderOf(Bytes(h)) = h
  BY DEF Header, Bytes, HeaderOf

\* ToBinary and the cast back.
LEMMA BinaryParts ==
  ASSUME NEW h \in Header, NEW d \in Seq(Byte)
  PROVE  LET b == Bytes(h) \o d IN
           /\ b \in Seq(Byte) /\ Len(b) = 4 + Len(d) /\ b[4] = h.id3
           /\ HeaderOf(b) = h /\ SubSeq(b, 1, 4) = Bytes(h) /\ SubSeq(b, 5, Len(b)) = d
<1> DEFINE a == Bytes(h)  b == a \o d
<1>1. a \in Seq(Byte) /\ Len(a) = 4 /\ HeaderOf(a) = h
  BY HeaderBytes
<1>2. a[4] = h.id3
  BY DEF Bytes
<1> HIDE DEF a
<1>3. /\ b \in Seq(Byte) /\ Len(b) = 4 + Len(d) /\ Len(d) \in Nat
      /\ \A i \in 1 .. 4 + Len(d) : b[i] = IF i <= 4 THEN a[i] ELSE d[i - 4]
  <2>1. /\ b \in Seq(Byte) /\ Len(b) = Len(a) + Len(d)
        /\ \A i \in 1 .. Len(a) + Len(d) : b[i] = IF i <= Len(a) THEN a[i] ELSE d[i - Len(a)]
    BY <1>1, ConcatProperties, Zenon
  <2>2. Len(d) \in Nat
    BY LenProperties, Zenon
  <2> HIDE DEF b
  <2>. QED
    BY <1>1, <2>1, <2>2
<1> HIDE DEF b
<1>4. b[1] = a[1] /\ b[2] = a[2] /\ b[3] = a[3] /\ b[4] = a[4]
  BY <1>3
<1>5. HeaderOf(b) = h
  BY <1>1, <1>4 DEF HeaderOf
<1>6. SubSeq(b, 1, 4) = a
  BY <1>1, <1>3
<1>7. SubSeq(b, 5, Len(b)) = d
  BY <1>3
<1>8. b[4] = h.id3
  BY <1>2, <1>4
<1>. QED
  BY <1>3, <1>5, <1>6, <1>7, <1>8 DEF a, b

\* What has a header is that header and what follows it.
LEMMA BinaryWhole ==
  ASSUME NEW b \in Seq(Byte), Len(b) >= 4
  PROVE  /\ HeaderOf(b) \in Header /\ SubSeq(b, 5, Len(b)) \in Seq(Byte)
         /\ Len(SubSeq(b, 5, Len(b))) = Len(b) - 4
         /\ Bytes(HeaderOf(b)) \o SubSeq(b, 5, Len(b)) = b
<1>1. b[1] \in Byte /\ b[2] \in Byte /\ b[3] \in Byte /\ b[4] \in Byte
  OBVIOUS
<1>2. HeaderOf(b) \in Header /\ Bytes(HeaderOf(b)) = <<b[1], b[2], b[3], b[4]>>
  BY <1>1 DEF HeaderOf, Header, Bytes
<1>3. <<b[1], b[2], b[3], b[4]>> \o SubSeq(b, 5, Len(b)) = b
  OBVIOUS
<1>. QED
  BY <1>2, <1>3

\* The data of the model are bytes.
LEMMA DataBytes ==
  ASSUME NEW n \in Nat
  PROVE  Data(n) \in Seq(Byte) /\ Len(Data(n)) = n
<1>1. \A k \in 1 .. n : (85 * k) % 256 \in Byte
  BY DEF Byte
<1>. QED
  BY <1>1 DEF Data

-----------------------------------------------------------------------------
(* The invariant *)

\* A message that one packet holds, with an identifier that a bus has.
ShortBin == Len(bin) \in 4 .. 12 /\ bin[4] < 32
Sent == Packet(HeaderOf(bin), SubSeq(bin, 5, Len(bin)))
AsFrame(p) == [std |-> FALSE, rtr |-> FALSE, id |-> p.header, data |-> p.data]

\* Such a message is the same at every stage.
ShortOnItsWay ==
  ShortBin =>
    /\ stage = "msg" => msg = Sent
    /\ stage # "segmenting"
    /\ stage = "packets" => packets = <<Sent>>
    /\ stage = "queued" => tx = Sent
    /\ stage = "bus" => frame = AsFrame(Sent)
    /\ stage = "read" => rx = Sent
    /\ stage = "reported" => report = bin

\* An identifier of the bus has no more bits than it can have, and a port that
\* has read a frame lost none of them.
Faithful(h) ==
  Identifier(h) = <<frame.id.id0, frame.id.src>> /\ (~frame.std => h = frame.id)
FrameOnItsWay ==
  /\ stage \in {"bus", "read", "reported"} =>
       frame.id.id3 < 32 /\ (frame.std => frame.id.src < 8 /\ frame.id.id3 = 0)
  /\ stage = "read" => rx.data = frame.data /\ Faithful(rx.header)
  /\ stage = "reported" =>
       \E d \in Seq(Byte), h \in Header :
         report = Bytes(h) \o d /\ d = frame.data /\ Faithful(h)

\* The packets that a long message has been made into so far, and what is left.
Segment(m, k) ==
  SubSeq(m.data, (8 * (k - 2)) + 1, IF 8 * (k - 1) <= Len(m.data) THEN 8 * (k - 1) ELSE Len(m.data))
Sliced ==
  /\ Len(packets) \in 1 .. Count(msg) /\ packets[1] = LongFirst(msg)
  /\ \A k \in 2 .. Len(packets) : packets[k] = LongNext(msg, k - 1, Segment(msg, k))
  /\ stage = "segmenting" => rest = SubSeq(msg.data, (8 * (Len(packets) - 1)) + 1, Len(msg.data))
  /\ stage = "packets" => Len(packets) = Count(msg)
LongOnItsWay ==
  /\ Len(bin) <= 16387 /\ Len(msg.data) <= 16383
  /\ stage = "segmenting" => IsLong(msg)
  /\ stage \in {"segmenting", "packets"} /\ IsLong(msg) => Sliced
  /\ stage = "packets" => packets # <<>>

JourneyInductive == TypeOK /\ ShortOnItsWay /\ FrameOnItsWay /\ LongOnItsWay

-----------------------------------------------------------------------------
(* Where a journey starts *)

\* Headers and packets whose fields are bytes.
LEMMA Records ==
  /\ \A h \in Header, n \in Byte : /\ [h EXCEPT !.id0 = n] \in Header
                                  /\ [h EXCEPT !.id3 = n] \in Header
  /\ \A h \in Header, d \in Seq(Byte) :
       Packet(h, d) \in PacketSet /\ Packet(h, d).header = h /\ Packet(h, d).data = d
  /\ NoHeader \in Header /\ Nothing \in PacketSet /\ NoFrame \in FrameSet
  /\ <<>> \in Seq(Byte) /\ <<>> \in Seq(PacketSet)
<1>1. 0 \in Byte /\ NoHeader = [id0 |-> 0, src |-> 0, dst |-> 0, id3 |-> 0]
  BY DEF Byte, NoHeader, HeaderOf
<1>2. NoHeader \in Header
  BY <1>1 DEF Header
<1>3. \A h \in Header, n \in Byte : [h EXCEPT !.id0 = n] \in Header /\ [h EXCEPT !.id3 = n] \in Header
  BY DEF Header
<1>4. \A h \in Header, d \in Seq(Byte) :
        Packet(h, d) \in PacketSet /\ Packet(h, d).header = h /\ Packet(h, d).data = d
  BY DEF Packet, PacketSet
<1>5. <<>> \in Seq(Byte) /\ <<>> \in Seq(PacketSet)
  OBVIOUS
<1>6. Nothing \in PacketSet
  BY <1>2, <1>4, <1>5 DEF Nothing
<1>7. NoFrame \in FrameSet
  BY <1>2, <1>5 DEF NoFrame, FrameSet
<1>. QED
  BY <1>2, <1>3, <1>4, <1>5, <1>6, <1>7

\* A size is the length of what fits into a frame.
LEMMA SizeTypes ==
  ASSUME NEW n \in Sizes
  PROVE  n \in Nat /\ n <= 16383 /\ n % 4 \in 0 .. 3
<1>1. n \in 0 .. 16383
  BY SizesAssumption
<1>2. n \in Nat /\ n <= 16383
  BY <1>1
<1>. QED
  BY <1>2

\* What SubSeq takes out of a sequence, from an element after a up to b.
LEMMA Part ==
  ASSUME NEW S, NEW s \in Seq(S), NEW a \in Nat, NEW b \in Nat, a <= b, b <= Len(s)
  PROVE  /\ SubSeq(s, a + 1, b) \in Seq(S) /\ Len(SubSeq(s, a + 1, b)) = b - a
         /\ \A i \in 1 .. b - a : SubSeq(s, a + 1, b)[i] = s[a + i]
<1>1. CASE a < b
  BY <1>1
<1>2. CASE a = b
  <2>1. SubSeq(s, a + 1, b) = <<>>
    <3>1. a + 1 \in Int /\ b \in Int /\ b < a + 1
      BY ONLY <1>2, a \in Nat, b \in Nat
    <3>. QED
      BY ONLY <3>1, SubSeqEmpty, Zenon
  <2>2. b - a = 0 /\ 1 .. b - a = {}
    BY <1>2
  <2>3. <<>> \in Seq(S) /\ Len(<<>>) = 0
    OBVIOUS
  <2>. QED
    BY ONLY <2>1, <2>2, <2>3
<1>. QED
  BY <1>1, <1>2

\* Clients send messages of bytes that fit into a frame.
LEMMA ClientStarts ==
  ASSUME ClientSends \/ RequestTx
  PROVE  /\ bin' \in Seq(Byte) /\ Len(bin') <= 16387
         /\ StartsWith(bin', NoFrame, "bytes")
<1>1. ASSUME NEW h \in Header, NEW n \in Sizes
      PROVE  /\ Bytes(h) \o Data(n) \in Seq(Byte) /\ Len(Bytes(h) \o Data(n)) <= 16387
             /\ SubSeq(Bytes(h), 1, n % 4) \in Seq(Byte) /\ Len(SubSeq(Bytes(h), 1, n % 4)) <= 16387
  <2>1. n \in Nat /\ n <= 16383 /\ n % 4 \in 0 .. 3
    BY SizeTypes
  <2>2. Data(n) \in Seq(Byte) /\ Len(Data(n)) = n
    BY <2>1, DataBytes
  <2>3. Bytes(h) \o Data(n) \in Seq(Byte) /\ Len(Bytes(h) \o Data(n)) = 4 + n
    BY <2>2, BinaryParts
  <2>4. Bytes(h) \in Seq(Byte) /\ Len(Bytes(h)) = 4
    BY HeaderBytes
  <2>5. SubSeq(Bytes(h), 1, n % 4) \in Seq(Byte) /\ Len(SubSeq(Bytes(h), 1, n % 4)) = n % 4
    <3>1. 0 \in Nat /\ n % 4 \in Nat /\ 0 <= n % 4 /\ n % 4 <= 4 /\ 0 + 1 = 1 /\ (n % 4) - 0 = n % 4
      BY <2>1
    <3> DEFINE b == Bytes(h)
    <3> HIDE DEF b
    <3>2. b \in Seq(Byte) /\ Len(b) = 4
      BY <2>4 DEF b
    <3>3. SubSeq(b, 0 + 1, n % 4) \in Seq(Byte) /\ Len(SubSeq(b, 0 + 1, n % 4)) = (n % 4) - 0
      BY <3>1, <3>2, Part, ZenonT(60)
    <3>. QED
      BY ONLY <3>1, <3>3 DEF b
  <2>. QED
    BY <2>1, <2>3, <2>5
<1>2. CASE ClientSends
  <2>1. PICK h \in Headers, n \in Sizes :
          \E b \in {Bytes(h) \o Data(n), SubSeq(Bytes(h), 1, n % 4)} : StartsWith(b, NoFrame, "bytes")
    BY <1>2 DEF ClientSends
  <2>2. h \in Header
    BY HeadersAssumption
  <2> DEFINE whole == Bytes(h) \o Data(n)
             part == SubSeq(Bytes(h), 1, n % 4)
  <2>3. PICK b \in {whole, part} : StartsWith(b, NoFrame, "bytes")
    BY <2>1
  <2>4. b = bin'
    BY <2>3 DEF StartsWith
  <2>5. whole \in Seq(Byte) /\ Len(whole) <= 16387 /\ part \in Seq(Byte) /\ Len(part) <= 16387
    BY <1>1, <2>2
  <2> HIDE DEF whole, part
  <2>6. b \in Seq(Byte) /\ Len(b) <= 16387
    BY <2>3, <2>5
  <2>. QED
    BY <2>3, <2>4, <2>6
<1>3. CASE RequestTx
  <2> DEFINE fields(h) == [h EXCEPT !.id0 = 16 * (@ \div 16), !.id3 = 4 * Pri(@)]
  <2>1. PICK h \in Headers, n \in Sizes : StartsWith(Bytes(fields(h)) \o Data(n), NoFrame, "bytes")
    BY <1>3 DEF RequestTx
  <2>2. h \in Header /\ h.id0 \in Byte /\ h.id3 \in Byte
    BY HeadersAssumption DEF Header
  <2>3. 16 * (h.id0 \div 16) \in Byte /\ 4 * Pri(h.id3) \in Byte
    BY <2>2 DEF Byte, Pri
  <2>4. fields(h) \in Header
    BY <2>2, <2>3 DEF Header
  <2>5. bin' = Bytes(fields(h)) \o Data(n)
    BY <2>1 DEF StartsWith
  <2>. QED
    BY <1>1, <2>1, <2>4, <2>5
<1>. QED
  BY <1>2, <1>3

\* Nodes send identifiers that a bus has.
LEMMA NodeStarts ==
  ASSUME NodeSends
  PROVE  /\ frame' \in FrameSet /\ frame'.id.id3 < 32
         /\ frame'.std => frame'.id.src < 8 /\ frame'.id.id3 = 0
         /\ StartsWith(<<>>, frame', "bus")
<1> DEFINE id(h, std) == [h EXCEPT !.id3 = IF std THEN 0 ELSE InBus(@), !.dst = IF std THEN 0 ELSE @,
                                   !.src = IF std THEN @ % 8 ELSE @]
<1>1. PICK h \in Headers, n \in Sizes, std \in BOOLEAN :
        StartsWith(<<>>, [std |-> std, rtr |-> FALSE, id |-> id(h, std), data |-> Data(n)], "bus")
  BY DEF NodeSends
<1>2. frame' = [std |-> std, rtr |-> FALSE, id |-> id(h, std), data |-> Data(n)]
  BY <1>1 DEF StartsWith
<1>3. h \in Header /\ n \in Nat
  <2>1. h \in Header
    BY HeadersAssumption
  <2>2. n \in Nat
    BY SizeTypes
  <2>. QED
    BY <2>1, <2>2
<1>4. InBus(h.id3) \in Byte /\ InBus(h.id3) < 32 /\ h.src % 8 \in Byte /\ h.src % 8 < 8 /\ 0 \in Byte
  BY <1>3 DEF Header, Byte, InBus
<1>5. id(h, std) \in Header
  BY <1>3, <1>4 DEF Header
<1>6. id(h, std).id3 < 32 /\ (std => id(h, std).src < 8 /\ id(h, std).id3 = 0)
  BY <1>3, <1>4 DEF Header
<1> HIDE DEF id
<1>7. Data(n) \in Seq(Byte)
  BY <1>3, DataBytes
<1>8. frame' \in FrameSet
  BY <1>2, <1>5, <1>7 DEF FrameSet
<1>. QED
  BY <1>1, <1>2, <1>6, <1>8

-----------------------------------------------------------------------------
(* What the conversions make *)

\* Parts of bytes and of lengths.
LEMMA ByteParts ==
  /\ 0 \in Byte
  /\ \A n \in Byte : /\ 16 * (n \div 16) \in Byte /\ n % 32 \in Byte /\ n % 32 < 32
                    /\ (4 * (n % 4)) + 1 \in Byte /\ (4 * (n % 4)) + 2 \in Byte
                    /\ ((4 * (n % 4)) + 2) % 4 = 2 /\ (n < 32 => n % 32 = n)
  /\ \A n \in Nat : n % 256 \in Byte /\ (n \div 256) % 256 \in Byte
  /\ \A a, b \in Byte : <<a, b>> \in Seq(Byte)
<1>1. \A n \in Byte : 16 * (n \div 16) \in Byte /\ n % 32 \in Byte /\ n % 32 < 32
                     /\ (n < 32 => n % 32 = n)
  BY Z3 DEF Byte
<1>2. \A n \in Byte : n % 4 \in {0, 1, 2, 3}
  BY DEF Byte
<1>3. \A r \in {0, 1, 2, 3} : /\ (4 * r) + 1 \in Byte /\ (4 * r) + 2 \in Byte
                            /\ ((4 * r) + 2) % 4 = 2
  BY DEF Byte
<1>4. \A n \in Nat : n % 256 \in Byte
  BY DEF Byte
<1>5. \A n \in Nat : n \div 256 \in Nat
  OBVIOUS
<1>6. 0 \in Byte
  BY DEF Byte
<1>7. \A a, b \in Byte : <<a, b>> \in Seq(Byte)
  OBVIOUS
<1>. QED
  BY <1>1, <1>2, <1>3, <1>4, <1>5, <1>6, <1>7

\* The packets of a long message are packets.
LEMMA SegmentTypes ==
  ASSUME NEW m \in PacketSet, NEW d \in Seq(Byte), NEW index \in Nat
  PROVE  /\ LongFirst(m) \in PacketSet /\ LongNext(m, index, d) \in PacketSet
         /\ LongNext(m, index, d).data = d /\ SL(LongNext(m, index, d).header.id3) = 2
         /\ LongNext(m, index, d).header.id0 = index % IndexSize
         /\ LongFirst(m).data = <<Len(m.data) % 256, (Len(m.data) \div 256) % 256>>
<1> DEFINE h == m.header
<1>1. h \in Header /\ h.id0 \in Byte /\ h.id3 \in Byte /\ Len(m.data) \in Nat
  BY DEF PacketSet, Header
<1>2. /\ 16 * (h.id0 \div 16) \in Byte /\ LongID3(m, 1) \in Byte /\ LongID3(m, 2) \in Byte
      /\ LongID3(m, 2) % 4 = 2
  BY <1>1, ByteParts DEF LongID3
<1>3. index % IndexSize \in Byte
  <2>1. IndexSize \in 1 .. 256
    BY SizesAssumption
  <2>2. index % IndexSize \in 0 .. IndexSize - 1
    BY <2>1
  <2>. QED
    BY <2>1, <2>2 DEF Byte
<1>4. <<Len(m.data) % 256, (Len(m.data) \div 256) % 256>> \in Seq(Byte)
  BY <1>1, ByteParts
<1>5. /\ [h EXCEPT !.id0 = 16 * (@ \div 16), !.id3 = LongID3(m, 1)] \in Header
      /\ [h EXCEPT !.id0 = index % IndexSize, !.id3 = LongID3(m, 2)] \in Header
      /\ [h EXCEPT !.id0 = index % IndexSize, !.id3 = LongID3(m, 2)].id3 = LongID3(m, 2)
      /\ [h EXCEPT !.id0 = index % IndexSize, !.id3 = LongID3(m, 2)].id0 = index % IndexSize
  BY <1>1, <1>2, <1>3 DEF Header
<1>6. LongFirst(m) \in PacketSet
      /\ LongFirst(m).data = <<Len(m.data) % 256, (Len(m.data) \div 256) % 256>>
  <2> DEFINE g == [h EXCEPT !.id0 = 16 * (@ \div 16), !.id3 = LongID3(m, 1)]
             d1 == <<Len(m.data) % 256, (Len(m.data) \div 256) % 256>>
  <2>1. LongFirst(m) = Packet(g, d1) /\ g \in Header /\ d1 \in Seq(Byte)
    BY <1>4, <1>5 DEF LongFirst
  <2> HIDE DEF g, d1
  <2>2. LongFirst(m) \in PacketSet /\ LongFirst(m).data = d1
    BY <2>1, Records
  <2>. QED
    BY <2>2 DEF d1
<1>7. /\ LongNext(m, index, d) \in PacketSet /\ LongNext(m, index, d).data = d
      /\ LongNext(m, index, d).header.id3 = LongID3(m, 2)
      /\ LongNext(m, index, d).header.id0 = index % IndexSize
  BY <1>5, Records DEF LongNext
<1>. QED
  BY <1>2, <1>6, <1>7 DEF SL

\* The fields of a data packet.
LEMMA NextFields ==
  ASSUME NEW m \in PacketSet, NEW d, NEW index
  PROVE  /\ LongNext(m, index, d).data = d
         /\ SL(LongNext(m, index, d).header.id3) = 2
         /\ LongNext(m, index, d).header.id0 = index % IndexSize
<1> DEFINE h == m.header
           g == [h EXCEPT !.id0 = index % IndexSize, !.id3 = LongID3(m, 2)]
<1>1. h \in Header /\ h.id3 \in Byte
  BY DEF PacketSet, Header
<1>2. LongID3(m, 2) % 4 = 2
  BY <1>1, ByteParts DEF LongID3
<1>3. g.id0 = index % IndexSize /\ g.id3 = LongID3(m, 2)
  BY <1>1 DEF Header
<1>4. LongNext(m, index, d) = Packet(g, d)
  BY DEF LongNext
<1> HIDE DEF g
<1>. QED
  BY <1>2, <1>3, <1>4 DEF Packet, SL

\* The digits that USBCANM2::Write makes of a header are read as its bytes.
LEMMA HeaderDigits ==
  ASSUME NEW h \in Header
  PROVE  Unpack2x(IdText(h)) = <<h.id3, h.dst, h.src, h.id0>>
<1>1. Inverted(h) \in Seq(Byte)
  BY DEF Inverted, Header
<1>. QED
  BY <1>1, RoundTrip DEF IdText, Inverted

\* A sequence is its first element and the rest.
LEMMA FirstAndRest ==
  ASSUME NEW S, NEW s \in Seq(S), Len(s) = 4
  PROVE  s = <<s[1]>> \o Tail(s)
<1>1. s # <<>> /\ s[1] \in S
  OBVIOUS
<1>2. /\ Tail(s) \in Seq(S) /\ Len(Tail(s)) = 3
      /\ \A i \in 1 .. 3 : Tail(s)[i] = s[i + 1]
  <2>1. /\ Tail(s) \in Seq(S) /\ Len(Tail(s)) = Len(s) - 1
        /\ \A i \in 1 .. Len(Tail(s)) : Tail(s)[i] = s[i + 1]
    BY <1>1, HeadTailProperties, Zenon
  <2>2. Len(Tail(s)) = 3
    BY <2>1
  <2>. QED
    BY <2>1, <2>2
<1>3. <<s[1]>> \in Seq(S) /\ Len(<<s[1]>>) = 1 /\ <<s[1]>>[1] = s[1]
  BY <1>1
<1> DEFINE u == <<s[1]>>
           r == Tail(s)
           t == u \o r
<1>4. t \in Seq(S) /\ Len(t) = 4 /\ \A i \in 1 .. 4 : t[i] = IF i <= 1 THEN u[i] ELSE r[i - 1]
  <2>1. u \in Seq(S) /\ r \in Seq(S) /\ Len(u) = 1 /\ Len(r) = 3
    BY <1>2, <1>3
  <2> HIDE DEF u, r
  <2>2. /\ u \o r \in Seq(S) /\ Len(u \o r) = Len(u) + Len(r)
        /\ \A i \in 1 .. Len(u) + Len(r) :
             (u \o r)[i] = IF i <= Len(u) THEN u[i] ELSE r[i - Len(u)]
    BY ONLY <2>1, ConcatProperties, Zenon
  <2>. QED
    BY <2>1, <2>2
<1>5. \A i \in 1 .. 4 : t[i] = s[i]
  <2>1. \A i \in 1 .. 4 : i > 1 => i - 1 \in 1 .. 3
    OBVIOUS
  <2>. QED
    BY <1>2, <1>3, <1>4, <2>1
<1> HIDE DEF t
<1>6. s = t
  BY <1>4, <1>5, SeqEqual
<1>. QED
  BY <1>6 DEF t

\* So are the digits of a line, the '0' before a standard identifier included.
LEMMA StandardDigits ==
  ASSUME NEW f \in FrameSet, f.std, f.id.src < 8
  PROVE  Unpack2x(LineDigits(f)) = <<f.id.src, f.id.id0>>
<1> DEFINE b == <<f.id.src, f.id.id0>>
           p == Pack2x(b)
<1>1. f.id.src \in Byte /\ f.id.id0 \in Byte
  BY DEF FrameSet, Header
<1>2. b \in Seq(Byte) /\ Len(b) = 2 /\ b[1] = f.id.src
  BY <1>1
<1>3. f.id.src \div 16 = 0
  BY <1>1 DEF Byte
<1>4. Digit(0) = 48
  BY DEF Digit
<1>5. /\ Len(p) = 4 /\ p \in Seq(Int) /\ p[1] = 48
  <2>1. p = [k \in 1 .. 4 |-> Digit(IF k % 2 = 1 THEN b[(k + 1) \div 2] \div 16
                                                ELSE b[(k + 1) \div 2] % 16)]
    BY <1>2 DEF Pack2x
  <2>2. \A k \in 1 .. 4 : (k + 1) \div 2 \in 1 .. 2
    OBVIOUS
  <2>3. \A j \in 1 .. 2 : b[j] \in Int
    BY <1>1 DEF Byte
  <2>4. \A n \in Int : Digit(n) \in Int
    BY DEF Digit
  <2>5. \A k \in 1 .. 4 : p[k] \in Int
    BY <2>1, <2>2, <2>3, <2>4
  <2>6. p[1] = Digit(b[1] \div 16)
    BY <2>1
  <2> HIDE DEF b, p
  <2>7. p \in Seq(Int) /\ Len(p) = 4
    BY <2>1, <2>5
  <2>. QED
    BY <1>2, <1>3, <1>4, <2>6, <2>7
<1>6. <<48>> \o Tail(p) = p
  <2>1. p = <<p[1]>> \o Tail(p)
    BY <1>5, FirstAndRest, Zenon
  <2>. QED
    BY <1>5, <2>1, Zenon
<1>7. LineDigits(f) = p
  BY <1>6 DEF LineDigits
<1>. QED
  BY <1>2, <1>7, RoundTrip

\* What ParsePacket makes of a line: all of an identifier, a standard one at
\* another place.
LEMMA UsbHeaderRead ==
  ASSUME NEW f \in FrameSet, f.std => f.id.src < 8,
         NEW h, h = UsbHeader(f.std, Unpack2x(LineDigits(f)))
  PROVE  /\ h \in Header
         /\ ~f.std => h = f.id
         /\ f.std => h.dst = f.id.id0 /\ h.id3 = f.id.src
<1>1. f.id \in Header /\ f.id.id0 \in Byte /\ f.id.src \in Byte /\ 0 \in Byte
  BY ByteParts DEF FrameSet, Header
<1>2. CASE f.std
  <2>1. Unpack2x(LineDigits(f)) = <<f.id.src, f.id.id0>>
    BY <1>2, StandardDigits
  <2>2. UsbHeader(TRUE, <<f.id.src, f.id.id0>>)
          = [id0 |-> 0, src |-> 0, dst |-> f.id.id0, id3 |-> f.id.src]
    BY DEF UsbHeader
  <2>3. [id0 |-> 0, src |-> 0, dst |-> f.id.id0, id3 |-> f.id.src] \in Header
    BY <1>1 DEF Header
  <2>4. f.std = TRUE
    BY <1>2 DEF FrameSet
  <2>5. h = [id0 |-> 0, src |-> 0, dst |-> f.id.id0, id3 |-> f.id.src]
    BY <2>1, <2>2, <2>4
  <2>6. h \in Header
    BY <2>3, <2>5, Zenon
  <2>7. h.dst = f.id.id0 /\ h.id3 = f.id.src
    BY <2>5
  <2>. QED
    BY <1>2, <2>6, <2>7
<1>3. CASE ~f.std
  <2>1. Unpack2x(LineDigits(f)) = <<f.id.id3, f.id.dst, f.id.src, f.id.id0>>
    BY <1>1, <1>3, HeaderDigits DEF LineDigits
  <2>2. UsbHeader(FALSE, <<f.id.id3, f.id.dst, f.id.src, f.id.id0>>) = f.id
    BY <1>1 DEF UsbHeader, Header
  <2>3. f.std = FALSE
    BY <1>3 DEF FrameSet
  <2>. QED
    BY <1>1, <2>1, <2>2, <2>3
<1>. QED
  BY <1>2, <1>3

-----------------------------------------------------------------------------
(* Every step keeps the invariant *)

\* TypeOK, variable by variable.
LEMMA Types ==
  TypeOK <=> /\ stage \in {"start", "bytes", "msg", "segmenting", "packets", "queued", "bus",
                           "read", "reported", "lost"}
             /\ bin \in Seq(Byte) /\ rest \in Seq(Byte) /\ report \in Seq(Byte)
             /\ msg \in PacketSet /\ tx \in PacketSet /\ rx \in PacketSet
             /\ packets \in Seq(PacketSet) /\ frame \in FrameSet /\ port \in Ports
  BY DEF TypeOK

\* Types are preserved by every step.
LEMMA TypeStep ==
  ASSUME JourneyInductive, [Next]_vars
  PROVE  TypeOK'
<1>1. /\ TypeOK
      /\ bin \in Seq(Byte) /\ rest \in Seq(Byte) /\ report \in Seq(Byte)
      /\ msg \in PacketSet /\ tx \in PacketSet /\ rx \in PacketSet
      /\ packets \in Seq(PacketSet) /\ frame \in FrameSet /\ port \in Ports
  BY Types DEF JourneyInductive
<1>2. /\ msg.header \in Header /\ msg.data \in Seq(Byte)
      /\ tx.header \in Header /\ tx.data \in Seq(Byte)
      /\ rx.header \in Header /\ rx.data \in Seq(Byte)
      /\ frame.id \in Header /\ frame.data \in Seq(Byte)
      /\ tx.header.id3 \in Byte /\ frame.id.id3 \in Byte
  BY <1>1 DEF PacketSet, FrameSet, Header
<1>3. CASE ClientSends \/ RequestTx
  <2>1. bin' \in Seq(Byte) /\ StartsWith(bin', NoFrame, "bytes")
    BY <1>3, ClientStarts
  <2>. QED
    BY <1>1, <2>1, Records DEF TypeOK, StartsWith
<1>4. CASE NodeSends
  <2>1. frame' \in FrameSet /\ StartsWith(<<>>, frame', "bus")
    BY <1>4, NodeStarts
  <2>. QED
    BY <1>1, <2>1, Records DEF TypeOK, StartsWith
<1>5. CASE MakeMsg
  <2>1. msg' \in PacketSet
    <3>1. CASE Len(bin) < 4
      BY <1>5, <3>1, Records DEF MakeMsg
    <3>2. CASE Len(bin) >= 4
      <4>1. HeaderOf(bin) \in Header /\ SubSeq(bin, 5, Len(bin)) \in Seq(Byte)
        BY <1>1, <3>2, BinaryWhole
      <4>2. msg' = Packet(HeaderOf(bin), SubSeq(bin, 5, Len(bin)))
        BY <1>1, <1>5, <3>2 DEF MakeMsg
      <4>. QED
        BY <4>1, <4>2, Records
    <3>. QED
      BY <1>1, <3>1, <3>2
  <2>. QED
    BY <1>1, <1>5, <2>1 DEF TypeOK, MakeMsg
<1>6. CASE ToPackets
  <2>1. LongFirst(msg) \in PacketSet
    BY <1>1, Records, SegmentTypes
  <2>2. <<LongFirst(msg)>> \in Seq(PacketSet) /\ <<msg>> \in Seq(PacketSet)
    BY <1>1, <2>1
  <2>3. packets' \in Seq(PacketSet) /\ rest' \in Seq(Byte) /\ stage' \in {"segmenting", "packets"}
    BY <1>1, <1>2, <1>6, <2>2 DEF ToPackets
  <2>. QED
    BY <1>1, <1>6, <2>3 DEF TypeOK, ToPackets
<1>7. CASE NextPacket
  <2> DEFINE n == IF Len(rest) > 8 THEN 8 ELSE Len(rest)
             d == SubSeq(rest, 1, n)
  <2>1. n \in 0 .. Len(rest)
    BY <1>1
  <2>2. /\ packets' = Append(packets, LongNext(msg, Len(packets), d))
        /\ rest' = SubSeq(rest, n + 1, Len(rest))
    BY <1>7 DEF NextPacket
  <2> HIDE DEF n
  <2>3. d \in Seq(Byte) /\ rest' \in Seq(Byte)
    BY <1>1, <2>1, <2>2
  <2> HIDE DEF d
  <2>4. LongNext(msg, Len(packets), d) \in PacketSet
    <3>1. Len(packets) \in Nat
      BY <1>1
    <3>. QED
      BY <1>1, <2>3, <3>1, SegmentTypes, Zenon
  <2>5. packets' \in Seq(PacketSet)
    BY <1>1, <2>2, <2>4
  <2>. QED
    BY <1>1, <1>7, <2>3, <2>5 DEF TypeOK, NextPacket
<1>8. CASE PacketsMade
  BY <1>1, <1>8 DEF TypeOK, PacketsMade
<1>9. CASE QueueFirst
  <2>1. packets # <<>>
    BY <1>9 DEF QueueFirst, JourneyInductive, LongOnItsWay
  <2>2. packets[1] \in PacketSet
    BY <1>1, <2>1
  <2>. QED
    BY <1>1, <1>9, <2>2 DEF TypeOK, QueueFirst
<1>10. CASE HatWrites
  <2>1. frame' \in FrameSet
    <3>1. InBus(tx.header.id3) \in Byte
      BY <1>2, ByteParts DEF InBus
    <3>2. [k \in DOMAIN tx.data |-> 0] \in Seq(Byte)
      <4>1. 0 \in Byte /\ Len(tx.data) \in Nat /\ DOMAIN tx.data = 1 .. Len(tx.data)
        BY <1>2, ByteParts
      <4>. QED
        BY <4>1
    <3>3. [tx.header EXCEPT !.id3 = InBus(@)] \in Header
      BY <1>2, <3>1, Records
    <3> DEFINE g == [tx.header EXCEPT !.id3 = InBus(@)]
               rtr == (tx.header.id3 \div 64) % 2 = 1
               d == IF rtr THEN [k \in DOMAIN tx.data |-> 0] ELSE tx.data
    <3>4. d \in Seq(Byte) /\ rtr \in BOOLEAN
      BY <1>2, <3>2
    <3>5. frame' = frame \/ frame' = [std |-> FALSE, rtr |-> rtr, id |-> g, data |-> d]
      BY <1>10 DEF HatWrites
    <3> HIDE DEF g, rtr, d
    <3>6. [std |-> FALSE, rtr |-> rtr, id |-> g, data |-> d] \in FrameSet
      BY <3>3, <3>4 DEF FrameSet, g
    <3>. QED
      BY <1>1, <3>5, <3>6
  <2>. QED
    BY <1>1, <1>10, <2>1 DEF TypeOK, HatWrites
<1>11. CASE UsbWrites
  <2> DEFINE h == tx.header
  <2>1. Unpack2x(IdText(h)) = <<h.id3, h.dst, h.src, h.id0>>
    BY <1>2, HeaderDigits
  <2>2. Unpack2x(Pack2x(tx.data)) = tx.data
    BY <1>2, RoundTrip
  <2>3. \/ frame' = frame /\ stage' = "lost"
        \/ /\ stage' = "bus"
           /\ frame' = [std |-> FALSE, rtr |-> FALSE, data |-> tx.data,
                         id |-> [id0 |-> h.id0, src |-> h.src, dst |-> h.dst, id3 |-> InBus(h.id3)]]
    BY <1>11, <2>1, <2>2 DEF UsbWrites
  <2>4. [id0 |-> h.id0, src |-> h.src, dst |-> h.dst, id3 |-> InBus(h.id3)] \in Header
    BY <1>2, ByteParts DEF Header, InBus
  <2> DEFINE g == [id0 |-> h.id0, src |-> h.src, dst |-> h.dst, id3 |-> InBus(h.id3)]
  <2> HIDE DEF g
  <2>5. frame' \in FrameSet /\ stage' \in {"lost", "bus"}
    <3>1. g \in Header
      BY <2>4 DEF g
    <3>2. [std |-> FALSE, rtr |-> FALSE, data |-> tx.data, id |-> g] \in FrameSet
      BY <1>2, <3>1 DEF FrameSet
    <3>. QED
      BY <1>1, <2>3, <3>2 DEF g
  <2>. QED
    BY <1>1, <1>11, <2>5 DEF TypeOK, UsbWrites
<1>12. CASE HatReads
  <2>1. [frame.id EXCEPT !.id3 = InBus(@)] \in Header
    <3>1. InBus(frame.id.id3) \in Byte
      BY <1>2, ByteParts DEF InBus
    <3>. QED
      BY <1>2, <3>1, Records
  <2>2. rx' \in PacketSet
    BY <1>2, <1>12, <2>1, Records DEF HatReads
  <2>. QED
    BY <1>1, <1>12, <2>2 DEF TypeOK, HatReads, Ports
<1>13. CASE UsbReads
  <2> DEFINE h == UsbHeader(frame.std, Unpack2x(LineDigits(frame)))
  <2>1. h \in Header
    BY <1>1, <1>13, UsbHeaderRead DEF UsbReads, JourneyInductive, FrameOnItsWay
  <2>2. Unpack2x(Pack2x(frame.data)) = frame.data
    BY <1>2, RoundTrip
  <2>3. rx' = rx \/ rx' = Packet(h, frame.data)
    BY <1>13, <2>2 DEF UsbReads
  <2> HIDE DEF h
  <2>4. rx' \in PacketSet
    BY <1>1, <1>2, <2>1, <2>3, Records
  <2>. QED
    BY <1>1, <1>13, <2>4 DEF TypeOK, UsbReads, Ports
<1>14. CASE Reports
  <2>1. report' \in Seq(Byte)
    BY <1>2, <1>14, BinaryParts DEF Reports
  <2>. QED
    BY <1>1, <1>14, <2>1 DEF TypeOK, Reports
<1>15. CASE UNCHANGED vars
  BY <1>1, <1>15 DEF TypeOK, vars
<1>. QED
  BY <1>3, <1>4, <1>5, <1>6, <1>7, <1>8, <1>9, <1>10, <1>11, <1>12, <1>13, <1>14, <1>15 DEF Next

\* An identifier that fits keeps its ID3 on the bus.
LEMMA FitsBus ==
  ASSUME NEW h \in Header, h.id3 < 32
  PROVE  /\ InBus(h.id3) = h.id3 /\ [h EXCEPT !.id3 = InBus(@)] = h
         /\ (h.id3 \div 32) % 2 = 0 /\ (h.id3 \div 64) % 2 = 0
<1>1. h.id3 \in Byte
  BY DEF Header
<1>2. InBus(h.id3) = h.id3
  BY <1>1, ByteParts DEF InBus
<1>3. h.id3 \div 32 = 0 /\ h.id3 \div 64 = 0
  BY <1>1 DEF Byte
<1>. QED
  BY <1>2, <1>3 DEF Header

\* A message that one packet holds is carried on by every step.
LEMMA ShortStep ==
  ASSUME JourneyInductive, [Next]_vars
  PROVE  ShortOnItsWay'
<1> DEFINE h == Sent.header
<1>1. /\ bin \in Seq(Byte) /\ frame \in FrameSet
  BY Types DEF JourneyInductive
<1>2. ShortBin => /\ Sent \in PacketSet /\ h \in Header /\ h.id3 < 32 /\ Sent.data \in Seq(Byte)
                  /\ Len(Sent.data) <= 8 /\ Bytes(h) \o Sent.data = bin /\ Packet(h, Sent.data) = Sent
  <2>1. SUFFICES ASSUME ShortBin
        PROVE  /\ Sent \in PacketSet /\ h \in Header /\ h.id3 < 32 /\ Sent.data \in Seq(Byte)
               /\ Len(Sent.data) <= 8 /\ Bytes(h) \o Sent.data = bin /\ Packet(h, Sent.data) = Sent
    OBVIOUS
  <2>2. Len(bin) >= 4 /\ Len(bin) <= 12 /\ Len(bin) \in Nat /\ bin[4] < 32
    <3>1. Len(bin) \in 4 .. 12 /\ bin[4] < 32
      BY <2>1 DEF ShortBin
    <3>2. \A n \in 4 .. 12 : n >= 4 /\ n <= 12 /\ n \in Nat
      OBVIOUS
    <3>. QED
      BY <3>1, <3>2, Zenon
  <2> DEFINE d == SubSeq(bin, 5, Len(bin))
  <2>3. /\ HeaderOf(bin) \in Header /\ d \in Seq(Byte) /\ Len(d) = Len(bin) - 4
        /\ Bytes(HeaderOf(bin)) \o d = bin
    BY <1>1, <2>2, BinaryWhole
  <2>4. HeaderOf(bin).id3 = bin[4]
    BY DEF HeaderOf
  <2> HIDE DEF d
  <2>5. Sent = Packet(HeaderOf(bin), d)
    BY DEF Sent, d
  <2>6. Sent \in PacketSet /\ h = HeaderOf(bin) /\ Sent.data = d
    BY <2>3, <2>5, Records
  <2>. QED
    BY <2>2, <2>3, <2>4, <2>5, <2>6
<1>3. ASSUME ClientSends \/ RequestTx PROVE ShortOnItsWay'
  <2>1. stage' = "bytes"
    BY <1>3, ClientStarts DEF StartsWith
  <2>. QED
    BY <2>1 DEF ShortOnItsWay
<1>4. ASSUME NodeSends PROVE ShortOnItsWay'
  <2>1. bin' = <<>>
    BY <1>4, NodeStarts DEF StartsWith
  <2>. QED
    BY <2>1 DEF ShortOnItsWay, ShortBin
<1>5. ASSUME UNCHANGED bin, ShortBin => ShortOnItsWay' PROVE ShortOnItsWay'
  BY <1>5 DEF ShortOnItsWay, ShortBin
<1>6. UNCHANGED bin => UNCHANGED <<Sent, AsFrame(Sent), ShortBin>>
  BY DEF Sent, ShortBin
<1>7. ASSUME ShortBin, MakeMsg PROVE ShortOnItsWay'
  <2>1. stage' = "msg" /\ msg' = Sent /\ UNCHANGED bin
    BY <1>1, <1>7 DEF MakeMsg, ShortBin, Sent
  <2>. QED
    BY <1>6, <2>1 DEF ShortOnItsWay
<1>8. ASSUME ShortBin, ToPackets PROVE ShortOnItsWay'
  <2>1. msg = Sent /\ ~IsLong(msg)
    BY <1>2, <1>8 DEF ToPackets, JourneyInductive, ShortOnItsWay, IsLong
  <2>2. stage' = "packets" /\ packets' = <<Sent>> /\ UNCHANGED bin
    BY <1>8, <2>1 DEF ToPackets
  <2>. QED
    BY <1>6, <2>2 DEF ShortOnItsWay
<1>9. ASSUME ShortBin PROVE ~NextPacket /\ ~PacketsMade
  BY <1>9 DEF NextPacket, PacketsMade, JourneyInductive, ShortOnItsWay
<1>10. ASSUME ShortBin, QueueFirst PROVE ShortOnItsWay'
  <2>1. stage' = "queued" /\ tx' = Sent /\ UNCHANGED bin
    BY <1>10 DEF QueueFirst, JourneyInductive, ShortOnItsWay
  <2>. QED
    BY <1>6, <2>1 DEF ShortOnItsWay
<1>11. ASSUME ShortBin, stage' = "lost", UNCHANGED bin PROVE ShortOnItsWay'
  BY <1>11 DEF ShortOnItsWay
<1>12. ASSUME ShortBin, stage' = "bus", frame' = AsFrame(Sent), UNCHANGED bin PROVE ShortOnItsWay'
  BY <1>6, <1>12 DEF ShortOnItsWay
<1>13. ASSUME ShortBin, stage' = "read", rx' = Sent, UNCHANGED bin PROVE ShortOnItsWay'
  BY <1>6, <1>13 DEF ShortOnItsWay
<1>14. ASSUME ShortBin, HatWrites PROVE ShortOnItsWay'
  <2>1. tx = Sent /\ UNCHANGED bin
    BY <1>14 DEF HatWrites, JourneyInductive, ShortOnItsWay
  <2>2. /\ (h.id3 \div 32) % 2 = 0 /\ (h.id3 \div 64) % 2 = 0 /\ [h EXCEPT !.id3 = InBus(@)] = h
    BY <1>2, <1>14, FitsBus
  <2>3. stage' = "bus" /\ frame' = AsFrame(Sent)
    <3> DEFINE rtr == (h.id3 \div 64) % 2 = 1
               f(r) == [std |-> FALSE, rtr |-> r, id |-> [h EXCEPT !.id3 = InBus(@)],
                        data |-> IF r THEN [k \in DOMAIN Sent.data |-> 0] ELSE Sent.data]
    <3>1. ~rtr /\ ~((h.id3 \div 32) % 2 = 1)
      BY <2>2
    <3>2. stage' = "bus" /\ frame' = f(rtr)
      BY <1>14, <2>1, <3>1 DEF HatWrites
    <3>3. rtr = FALSE
      BY <3>1
    <3>4. f(FALSE) = AsFrame(Sent)
      BY <2>2 DEF AsFrame
    <3> HIDE DEF rtr, f
    <3>. QED
      BY <3>2, <3>3, <3>4
  <2>. QED
    BY <1>12, <1>14, <2>1, <2>3
<1>15. ASSUME ShortBin, UsbWrites PROVE ShortOnItsWay'
  <2>1. tx = Sent /\ UNCHANGED bin
    BY <1>15 DEF UsbWrites, JourneyInductive, ShortOnItsWay
  <2>2. /\ InBus(h.id3) = h.id3 /\ Unpack2x(Pack2x(Sent.data)) = Sent.data
        /\ Unpack2x(IdText(h)) = <<h.id3, h.dst, h.src, h.id0>>
    BY <1>2, <1>15, FitsBus, RoundTrip, HeaderDigits
  <2>3. [id0 |-> h.id0, src |-> h.src, dst |-> h.dst, id3 |-> h.id3] = h
    BY <1>2, <1>15 DEF Header
  <2>4. stage' = "lost" \/ (stage' = "bus" /\ frame' = AsFrame(Sent))
    BY <1>15, <2>1, <2>2, <2>3 DEF UsbWrites, AsFrame
  <2>. QED
    BY <1>11, <1>12, <1>15, <2>1, <2>4
<1>16. ASSUME ShortBin, HatReads PROVE ShortOnItsWay'
  <2>1. frame = AsFrame(Sent) /\ UNCHANGED bin
    BY <1>16 DEF HatReads, JourneyInductive, ShortOnItsWay
  <2>2. frame.id = h /\ frame.data = Sent.data
    BY <2>1 DEF AsFrame
  <2>3. [h EXCEPT !.id3 = InBus(@)] = h
    BY <1>2, <1>16, FitsBus
  <2>4. stage' = "read" /\ rx' = Packet(h, Sent.data)
    BY <1>16, <2>2, <2>3 DEF HatReads
  <2>. QED
    BY <1>2, <1>13, <1>16, <2>1, <2>4
<1>17. ASSUME ShortBin, UsbReads PROVE ShortOnItsWay'
  <2>1. frame = AsFrame(Sent) /\ UNCHANGED bin
    BY <1>17 DEF UsbReads, JourneyInductive, ShortOnItsWay
  <2>2. frame.id = h /\ frame.data = Sent.data /\ ~frame.rtr /\ ~frame.std
    BY <2>1 DEF AsFrame
  <2>3. UsbHeader(frame.std, Unpack2x(LineDigits(frame))) = h
    BY <1>1, <2>2, UsbHeaderRead
  <2>4. Unpack2x(Pack2x(frame.data)) = Sent.data
    BY <1>2, <1>17, <2>2, RoundTrip
  <2>5. stage' = "read" /\ rx' = Packet(h, Sent.data)
    BY <1>17, <2>2, <2>3, <2>4 DEF UsbReads
  <2>. QED
    BY <1>2, <1>13, <1>17, <2>1, <2>5
<1>18. ASSUME ShortBin, Reports PROVE ShortOnItsWay'
  <2>1. rx = Sent /\ UNCHANGED bin /\ stage' = "reported"
    BY <1>18 DEF Reports, JourneyInductive, ShortOnItsWay
  <2>2. report' = bin
    BY <1>2, <1>18, <2>1 DEF Reports
  <2>. QED
    BY <1>6, <2>1, <2>2 DEF ShortOnItsWay
<1>19. ASSUME ShortBin, UNCHANGED vars PROVE ShortOnItsWay'
  BY <1>6, <1>19 DEF ShortOnItsWay, JourneyInductive, vars
<1>20. MakeMsg \/ ToPackets \/ NextPacket \/ PacketsMade \/ QueueFirst \/ HatWrites \/ UsbWrites
       \/ HatReads \/ UsbReads \/ Reports \/ UNCHANGED vars => UNCHANGED bin
  BY DEF MakeMsg, ToPackets, NextPacket, PacketsMade, QueueFirst, HatWrites, UsbWrites,
         HatReads, UsbReads, Reports, vars
<1>. QED
  BY <1>3, <1>4, <1>5, <1>7, <1>8, <1>9, <1>10, <1>14, <1>15, <1>16, <1>17, <1>18, <1>19, <1>20
  DEF Next

\* No step loses a bit of an identifier of the bus.
LEMMA FrameStep ==
  ASSUME JourneyInductive, [Next]_vars
  PROVE  FrameOnItsWay'
<1>1. /\ frame \in FrameSet /\ frame.id \in Header /\ frame.data \in Seq(Byte)
      /\ tx \in PacketSet /\ tx.header \in Header /\ tx.header.id3 \in Byte
      /\ rx \in PacketSet /\ rx.header \in Header /\ rx.data \in Seq(Byte)
      /\ FrameOnItsWay
  BY Types DEF JourneyInductive, FrameSet, PacketSet, Header
<1>2. ASSUME stage' \notin {"bus", "read", "reported"} PROVE FrameOnItsWay'
  BY <1>2 DEF FrameOnItsWay
<1>3. ASSUME stage' = "bus", frame'.id.id3 < 32, frame'.std => frame'.id.src < 8 /\ frame'.id.id3 = 0
      PROVE  FrameOnItsWay'
  BY <1>3 DEF FrameOnItsWay
<1>4. CASE ClientSends \/ RequestTx
  <2>1. stage' = "bytes"
    BY <1>4, ClientStarts DEF StartsWith
  <2>. QED
    BY <1>2, <2>1
<1>5. CASE NodeSends
  <2>1. stage' = "bus"
    BY <1>5, NodeStarts DEF StartsWith
  <2>. QED
    BY <1>3, <1>5, <2>1, NodeStarts
<1>6. CASE MakeMsg \/ ToPackets \/ NextPacket \/ PacketsMade \/ QueueFirst
  <2>1. stage' \notin {"bus", "read", "reported"}
    BY <1>6 DEF MakeMsg, ToPackets, NextPacket, PacketsMade, QueueFirst
  <2>. QED
    BY <1>2, <2>1
<1>7. InBus(tx.header.id3) < 32
  BY <1>1, ByteParts DEF InBus
<1>8. CASE HatWrites
  <2>1. CASE stage' = "lost"
    BY <1>2, <2>1
  <2>2. CASE stage' = "bus"
    <3>1. frame'.std = FALSE /\ frame'.id = [tx.header EXCEPT !.id3 = InBus(@)]
      BY <1>8, <2>2 DEF HatWrites
    <3>2. frame'.id.id3 = InBus(tx.header.id3)
      BY <1>1, <3>1 DEF Header
    <3>. QED
      BY <1>3, <1>7, <2>2, <3>1, <3>2
  <2>. QED
    BY <1>8, <2>1, <2>2 DEF HatWrites
<1>9. CASE UsbWrites
  <2>1. Unpack2x(IdText(tx.header))
          = <<tx.header.id3, tx.header.dst, tx.header.src, tx.header.id0>>
    BY <1>1, HeaderDigits
  <2>2. \/ stage' = "lost"
        \/ stage' = "bus" /\ frame'.std = FALSE /\ frame'.id.id3 = InBus(tx.header.id3)
    BY <1>9, <2>1 DEF UsbWrites
  <2>3. CASE stage' = "lost"
    BY <1>2, <2>3
  <2>4. CASE stage' = "bus" /\ frame'.std = FALSE /\ frame'.id.id3 = InBus(tx.header.id3)
    BY <1>3, <1>7, <2>4
  <2>. QED
    BY <2>2, <2>3, <2>4
<1>10. ASSUME stage \in {"bus", "read"}, UNCHANGED frame
       PROVE  /\ frame'.id.id3 < 32 /\ (frame'.std => frame'.id.src < 8 /\ frame'.id.id3 = 0)
              /\ frame.id.id3 < 32 /\ (frame.std => frame.id.src < 8)
  BY <1>1, <1>10 DEF FrameOnItsWay
<1>11. CASE HatReads
  <2>1. stage = "bus" /\ stage' = "read" /\ UNCHANGED frame /\ port' = "CAN_HAT"
    BY <1>11 DEF HatReads
  <2>2. [frame.id EXCEPT !.id3 = InBus(@)] = frame.id
    BY <1>1, <1>10, <2>1, FitsBus
  <2>3. rx' = Packet(frame.id, frame.data)
    BY <1>11, <2>2 DEF HatReads
  <2>4. rx'.header = frame.id /\ rx'.data = frame.data
    BY <1>1, <2>3, Records
  <2>5. Faithful(rx.header)'
    BY <2>1, <2>4 DEF Faithful, Identifier
  <2>. QED
    BY <1>10, <2>1, <2>4, <2>5 DEF FrameOnItsWay
<1>12. CASE UsbReads
  <2>1. stage = "bus" /\ UNCHANGED frame /\ port' = "CAN_USB_M"
    BY <1>12 DEF UsbReads
  <2>2. CASE stage' = "lost"
    BY <1>2, <2>2
  <2>3. CASE stage' = "read"
    <3> DEFINE h == UsbHeader(frame.std, Unpack2x(LineDigits(frame)))
    <3>1. /\ h \in Header /\ (~frame.std => h = frame.id)
          /\ (frame.std => h.dst = frame.id.id0 /\ h.id3 = frame.id.src)
      BY <1>1, <1>10, <2>1, UsbHeaderRead
    <3>2. rx' = Packet(h, frame.data)
      BY <1>1, <1>12, <2>3, RoundTrip DEF UsbReads
    <3> HIDE DEF h
    <3>3. rx'.header = h /\ rx'.data = frame.data
      BY <1>1, <3>1, <3>2, Records
    <3>4. Faithful(rx.header)'
      BY <2>1, <3>1, <3>3 DEF Faithful, Identifier
    <3>. QED
      BY <1>10, <2>1, <2>3, <3>3, <3>4 DEF FrameOnItsWay
  <2>. QED
    BY <1>12, <2>2, <2>3 DEF UsbReads
<1>13. CASE Reports
  <2>1. stage = "read" /\ stage' = "reported" /\ UNCHANGED <<frame, port>>
        /\ report' = Bytes(rx.header) \o rx.data
    BY <1>13 DEF Reports
  <2>2. rx.data = frame.data /\ Faithful(rx.header)
    BY <1>1, <2>1 DEF FrameOnItsWay
  <2>3. ASSUME NEW h, Faithful(h) PROVE Faithful(h)'
    BY <2>1, <2>3 DEF Faithful, Identifier
  <2>4. PICK d \in Seq(Byte), h \in Header : d = rx.data /\ h = rx.header
    BY <1>1
  <2>5. report' = Bytes(h) \o d /\ d = frame'.data /\ Faithful(h)'
    BY <2>1, <2>2, <2>3, <2>4
  <2>6. frame'.id.id3 < 32 /\ (frame'.std => frame'.id.src < 8 /\ frame'.id.id3 = 0)
    BY <1>1, <2>1 DEF FrameOnItsWay
  <2>. QED
    BY <2>1, <2>5, <2>6 DEF FrameOnItsWay
<1>14. CASE UNCHANGED vars
  BY <1>1, <1>14 DEF FrameOnItsWay, Faithful, Identifier, vars
<1>. QED
  BY <1>4, <1>5, <1>6, <1>8, <1>9, <1>11, <1>12, <1>13, <1>14 DEF Next

\* The number of packets that ToPackets computes for data of size n.
LEMMA CountFits ==
  ASSUME NEW m, NEW n \in Nat, Len(m.data) = n
  PROVE  /\ Count(m) \in Nat /\ Count(m) >= 1 /\ Count(m) = 1 + ((n + 7) \div 8)
         /\ 8 * (Count(m) - 1) >= n /\ (n > 0 => 8 * (Count(m) - 2) < n)
<1>1. n \div 8 \in Nat /\ n % 8 \in 0 .. 7 /\ n = (8 * (n \div 8)) + (n % 8)
  OBVIOUS
<1>2. \A q \in Nat, r \in 0 .. 7 :
        (((8 * q) + r) + 7) \div 8 = IF r = 0 THEN q ELSE q + 1
  BY Z3
<1>3. (n + 7) \div 8 = IF n % 8 = 0 THEN n \div 8 ELSE (n \div 8) + 1
  BY <1>1, <1>2
<1>4. Count(m) = (n \div 8) + (IF n % 8 = 0 THEN 0 ELSE 1) + 1
  BY DEF Count
<1>. QED
  BY <1>1, <1>3, <1>4

\* What is left of a sequence after its first a elements.
LEMMA Remainder ==
  ASSUME NEW S, NEW d \in Seq(S), NEW a \in Nat, NEW r, r = SubSeq(d, a + 1, Len(d)), r # <<>>
  PROVE  /\ a < Len(d) /\ r \in Seq(S) /\ Len(r) = Len(d) - a
         /\ \A i \in 1 .. Len(d) - a : r[i] = d[a + i]
<1>1. Len(d) \in Nat /\ a + 1 \in Int /\ Len(d) \in Int
  OBVIOUS
<1>2. a < Len(d)
  <2>1. Len(d) < a + 1 => r = <<>>
    BY <1>1, SubSeqEmpty, Zenon
  <2>2. ~(Len(d) < a + 1)
    BY <2>1
  <2>. QED
    BY <1>1, <2>2
<1>3. /\ r \in Seq(S) /\ Len(r) = Len(d) - a
      /\ \A i \in 1 .. Len(d) - a : r[i] = d[a + i]
  BY <1>1, <1>2
<1>. QED
  BY <1>2, <1>3

\* The two ends of a remainder are parts of the sequence.
LEMMA EndsOfRemainder ==
  ASSUME NEW S, NEW d \in Seq(S), NEW a \in Nat, NEW r \in Seq(S), a < Len(d),
         Len(r) = Len(d) - a, \A i \in 1 .. Len(d) - a : r[i] = d[a + i],
         NEW n \in 1 .. Len(r)
  PROVE  /\ SubSeq(r, 1, n) = SubSeq(d, a + 1, a + n)
         /\ SubSeq(r, n + 1, Len(r)) = SubSeq(d, (a + n) + 1, Len(d))
<1>1. Len(d) \in Nat /\ Len(r) \in Nat /\ n \in Nat /\ n <= Len(r)
  OBVIOUS
<1> DEFINE s1 == SubSeq(r, 1, n)  t1 == SubSeq(d, a + 1, a + n)
<1>2. s1 \in Seq(S) /\ Len(s1) = n /\ \A i \in 1 .. n : s1[i] = r[i]
  OBVIOUS
<1>3. t1 \in Seq(S) /\ Len(t1) = n /\ \A i \in 1 .. n : t1[i] = d[a + i]
  OBVIOUS
<1>4. \A i \in 1 .. n : r[i] = d[a + i]
  OBVIOUS
<1> HIDE DEF s1, t1
<1>5. s1 = t1
  BY ONLY <1>2, <1>3, <1>4, SeqEqual
<1> DEFINE s2 == SubSeq(r, n + 1, Len(r))  t2 == SubSeq(d, (a + n) + 1, Len(d))
           k == Len(r) - n
<1>6. k \in Nat /\ s2 \in Seq(S) /\ Len(s2) = k /\ \A i \in 1 .. k : s2[i] = r[n + i]
  BY <1>1, Part
<1>7. t2 \in Seq(S) /\ Len(t2) = k /\ \A i \in 1 .. k : t2[i] = d[(a + n) + i]
  <2>1. a + n \in Nat /\ a + n <= Len(d) /\ Len(d) - (a + n) = k
    BY <1>1
  <2> HIDE DEF k
  <2>. QED
    BY <1>1, <2>1, Part
<1>8. \A i \in 1 .. k : r[n + i] = d[(a + n) + i]
  <2>1. \A i \in 1 .. k : n + i \in 1 .. Len(d) - a /\ a + (n + i) = (a + n) + i
    BY <1>1
  <2>. QED
    BY <2>1
<1> HIDE DEF s2, t2, k
<1>9. s2 = t2
  BY ONLY <1>6, <1>7, <1>8, SeqEqual
<1>. QED
  BY <1>5, <1>9 DEF s1, t1, s2, t2

\* The first n of the data r go into a packet.
FullPacket(r, n) == n = IF Len(r) > 8 THEN 8 ELSE Len(r)

\* The next data packet holds the next segment, and leaves what follows it.
LEMMA NextSegment ==
  ASSUME NEW m \in PacketSet, NEW j \in Nat \ {0}, NEW r, r # <<>>,
         r = SubSeq(m.data, (8 * (j - 1)) + 1, Len(m.data)),
         NEW n, FullPacket(r, n)
  PROVE  /\ n \in 0 .. Len(r)
         /\ 8 * (j - 1) < Len(m.data)
         /\ SubSeq(r, 1, n) = Segment(m, j + 1)
         /\ SubSeq(r, n + 1, Len(r)) = SubSeq(m.data, (8 * ((j + 1) - 1)) + 1, Len(m.data))
<1> DEFINE d == m.data
           a == 8 * (j - 1)
<1>1. d \in Seq(Byte) /\ Len(d) \in Nat /\ a \in Nat
  BY DEF PacketSet
<1>2. r = SubSeq(d, a + 1, Len(d)) /\ r # <<>>
  OBVIOUS
<1>3. /\ a < Len(d) /\ r \in Seq(Byte) /\ Len(r) = Len(d) - a
      /\ \A i \in 1 .. Len(d) - a : r[i] = d[a + i]
  <2> HIDE DEF a, d
  <2>. QED
    BY ONLY <1>1, <1>2, Remainder
<1>4. /\ n \in 1 .. Len(r) /\ n \in 0 .. Len(r)
      /\ a + n = IF a + 8 <= Len(d) THEN a + 8 ELSE Len(d)
  <2>1. n = IF Len(r) > 8 THEN 8 ELSE Len(r)
    BY DEF FullPacket
  <2>2. a < Len(d) /\ Len(r) = Len(d) - a
    BY <1>3
  <2> HIDE DEF a, d
  <2>. QED
    BY ONLY <1>1, <2>1, <2>2
<1>5. /\ SubSeq(r, 1, n) = SubSeq(d, a + 1, a + n)
      /\ SubSeq(r, n + 1, Len(r)) = SubSeq(d, (a + n) + 1, Len(d))
  <2> HIDE DEF a, d
  <2>. QED
    BY ONLY <1>1, <1>3, <1>4, EndsOfRemainder
<1>6. /\ Segment(m, j + 1) = SubSeq(d, a + 1, IF a + 8 <= Len(d) THEN a + 8 ELSE Len(d))
      /\ (8 * ((j + 1) - 1)) + 1 = (a + 8) + 1
  <2>1. 8 * ((j + 1) - 2) = a /\ 8 * ((j + 1) - 1) = a + 8
    OBVIOUS
  <2>. QED
    BY <2>1 DEF Segment
<1>7. SubSeq(d, (a + n) + 1, Len(d)) = SubSeq(d, (a + 8) + 1, Len(d))
  <2> HIDE DEF a, d
  <2>1. CASE a + 8 <= Len(d)
    BY <1>4, <2>1
  <2>2. CASE ~(a + 8 <= Len(d))
    <3>1. /\ (a + n) + 1 \in Int /\ (a + 8) + 1 \in Int /\ Len(d) \in Int
          /\ Len(d) < (a + n) + 1 /\ Len(d) < (a + 8) + 1
      BY ONLY <1>1, <1>4, <2>2
    <3>. QED
      BY <3>1, SubSeqEmpty
  <2>. QED
    BY <2>1, <2>2
<1>. QED
  BY <1>3, <1>4, <1>5, <1>6, <1>7

\* A segment is the part of the data that it stands for.
LEMMA SegmentData ==
  ASSUME NEW m \in PacketSet, NEW k \in Nat, k >= 2, 8 * (k - 2) < Len(m.data)
  PROVE  /\ Segment(m, k) \in Seq(Byte)
         /\ Len(Segment(m, k)) = IF 8 * (k - 1) <= Len(m.data) THEN 8 ELSE Len(m.data) - (8 * (k - 2))
         /\ \A i \in 1 .. Len(Segment(m, k)) : Segment(m, k)[i] = m.data[(8 * (k - 2)) + i]
<1> DEFINE d == m.data
           a == 8 * (k - 2)
           b == IF 8 * (k - 1) <= Len(m.data) THEN 8 * (k - 1) ELSE Len(m.data)
<1>1. d \in Seq(Byte) /\ Len(d) \in Nat
  BY DEF PacketSet
<1>2. a \in Nat /\ b \in Nat /\ a < b /\ b <= Len(d)
      /\ b - a = IF 8 * (k - 1) <= Len(d) THEN 8 ELSE Len(d) - a
  <2>1. a \in Nat /\ a < Len(d) /\ 8 * (k - 1) = a + 8
    OBVIOUS
  <2>2. b = IF a + 8 <= Len(d) THEN a + 8 ELSE Len(d)
    BY <2>1
  <2> HIDE DEF a, b, d
  <2>. QED
    BY ONLY <1>1, <2>1, <2>2
<1>3. Segment(m, k) = SubSeq(d, a + 1, b)
  BY DEF Segment
<1> HIDE DEF d, a, b
<1>4. /\ SubSeq(d, a + 1, b) \in Seq(Byte) /\ Len(SubSeq(d, a + 1, b)) = b - a
      /\ \A i \in 1 .. b - a : SubSeq(d, a + 1, b)[i] = d[a + i]
  BY ONLY <1>1, <1>2
<1>. QED
  BY <1>2, <1>3, <1>4 DEF d, a

\* Every step of ToPackets keeps the packets of a long message in place.
LEMMA LongStep ==
  ASSUME JourneyInductive, [Next]_vars
  PROVE  LongOnItsWay'
<1> DEFINE n == Len(msg.data)
<1>1. /\ bin \in Seq(Byte) /\ Len(bin) \in Nat /\ Len(bin) <= 16387
      /\ msg \in PacketSet /\ msg.data \in Seq(Byte) /\ n \in Nat /\ n <= 16383
      /\ packets \in Seq(PacketSet)
  BY Types DEF JourneyInductive, LongOnItsWay, PacketSet
<1>2. /\ Count(msg) \in Nat /\ Count(msg) >= 1
      /\ 8 * (Count(msg) - 1) >= n /\ (n > 0 => 8 * (Count(msg) - 2) < n)
  BY <1>1, CountFits
<1>3. ASSUME stage' \notin {"segmenting", "packets"}, Len(bin') <= 16387, Len(msg'.data) <= 16383
      PROVE  LongOnItsWay'
  BY <1>3 DEF LongOnItsWay
<1>4. ASSUME UNCHANGED msg
       PROVE  \A d, i : UNCHANGED <<LongFirst(msg), LongNext(msg, i, d), Segment(msg, i),
                                    Count(msg), IsLong(msg)>>
  BY <1>4 DEF LongFirst, LongNext, LongID3, Segment, Count, IsLong
<1>5. CASE ClientSends \/ RequestTx \/ NodeSends
  <2>1. /\ stage' \in {"bytes", "bus"} /\ msg' = Nothing
        /\ bin' = <<>> \/ Len(bin') <= 16387
    BY <1>5, ClientStarts, NodeStarts DEF StartsWith
  <2>2. Nothing.data = <<>>
    BY DEF Nothing, Packet
  <2>. QED
    BY <1>3, <2>1, <2>2
<1>6. CASE MakeMsg
  <2>1. stage' = "msg" /\ UNCHANGED bin
    BY <1>6 DEF MakeMsg
  <2>2. Len(msg'.data) <= 16383
    <3>1. CASE Len(bin) < 4
      <4>1. msg' = Nothing
        BY <1>6, <3>1 DEF MakeMsg
      <4>. QED
        BY <4>1 DEF Nothing, Packet
    <3>2. CASE ~(Len(bin) < 4)
      <4>1. msg' = Packet(HeaderOf(bin), SubSeq(bin, 5, Len(bin)))
        BY <1>6, <3>2 DEF MakeMsg
      <4>2. HeaderOf(bin) \in Header /\ SubSeq(bin, 5, Len(bin)) \in Seq(Byte)
            /\ Len(SubSeq(bin, 5, Len(bin))) = Len(bin) - 4
        BY <1>1, <3>2, BinaryWhole
      <4>3. msg'.data = SubSeq(bin, 5, Len(bin))
        BY <4>1, <4>2, Records
      <4>. QED
        BY <1>1, <4>2, <4>3
    <3>. QED
      BY <3>1, <3>2
  <2>. QED
    BY <1>1, <1>3, <2>1, <2>2
<1>7. CASE ToPackets
  <2>1. UNCHANGED <<bin, msg>>
    BY <1>7 DEF ToPackets
  <2>2. CASE IsLong(msg)
    <3>1. stage' = "segmenting" /\ packets' = <<LongFirst(msg)>> /\ rest' = msg.data
      BY <1>7, <2>2 DEF ToPackets
    <3>2. Len(packets') = 1 /\ packets'[1] = LongFirst(msg)
      BY <3>1
    <3>3. rest' = SubSeq(msg.data, (8 * (1 - 1)) + 1, Len(msg.data))
      BY <1>1, <3>1
    <3>4. Sliced'
      <4>1. LongFirst(msg)' = LongFirst(msg) /\ Count(msg)' = Count(msg)
        BY <1>4, <2>1
      <4>2. Len(packets') \in 1 .. Count(msg) /\ \A k \in 2 .. Len(packets') : FALSE
        BY <1>2, <3>2
      <4>. QED
        BY <2>1, <3>1, <3>2, <3>3, <4>1, <4>2 DEF Sliced
    <3>. QED
      BY <1>1, <2>1, <2>2, <3>1, <3>4 DEF LongOnItsWay, IsLong
  <2>3. CASE ~IsLong(msg)
    <3>1. stage' = "packets" /\ packets' = <<msg>>
      BY <1>7, <2>3 DEF ToPackets
    <3>. QED
      BY <1>1, <2>1, <2>3, <3>1 DEF LongOnItsWay, IsLong
  <2>. QED
    BY <2>2, <2>3
<1>8. CASE NextPacket
  <2> DEFINE j == Len(packets)
             k == IF Len(rest) > 8 THEN 8 ELSE Len(rest)
  <2>1. /\ stage = "segmenting" /\ stage' = "segmenting" /\ UNCHANGED <<bin, msg>>
        /\ j < Count(msg) /\ rest # <<>>
        /\ packets' = Append(packets, LongNext(msg, j, SubSeq(rest, 1, k)))
        /\ rest' = SubSeq(rest, k + 1, Len(rest))
    BY <1>8 DEF NextPacket
  <2>2. /\ IsLong(msg) /\ j \in 1 .. Count(msg) /\ packets[1] = LongFirst(msg)
        /\ \A i \in 2 .. j : packets[i] = LongNext(msg, i - 1, Segment(msg, i))
        /\ rest = SubSeq(msg.data, (8 * (j - 1)) + 1, Len(msg.data))
    BY <2>1 DEF JourneyInductive, LongOnItsWay, Sliced
  <2>3. j \in Nat \ {0}
    BY <1>2, <2>2
  <2> HIDE DEF k, j
  <2>4. /\ SubSeq(rest, 1, k) = Segment(msg, j + 1)
        /\ rest' = SubSeq(msg.data, (8 * ((j + 1) - 1)) + 1, Len(msg.data))
    <3>1. FullPacket(rest, k)
      BY DEF FullPacket, k
    <3>2. msg \in PacketSet
      BY <1>1
    <3>3. rest # <<>>
      BY <2>1, Zenon
    <3>4. rest = SubSeq(msg.data, (8 * (j - 1)) + 1, Len(msg.data))
      BY <2>2, Zenon
    <3>5. /\ SubSeq(rest, 1, k) = Segment(msg, j + 1)
          /\ SubSeq(rest, k + 1, Len(rest)) = SubSeq(msg.data, (8 * ((j + 1) - 1)) + 1, Len(msg.data))
      BY ONLY <3>1, <3>2, <2>3, <3>3, <3>4, NextSegment, ZenonT(120)
    <3>. QED
      BY <2>1, <3>5
  <2> DEFINE p == LongNext(msg, j, Segment(msg, j + 1))
  <2>5. packets' = Append(packets, p)
    BY <2>1, <2>4
  <2> HIDE DEF p
  <2>6. /\ Len(packets') = j + 1 /\ packets'[j + 1] = p /\ \A i \in 1 .. j : packets'[i] = packets[i]
    BY <1>1, <2>5 DEF j
  <2>7. Len(packets') \in 1 .. Count(msg) /\ packets'[1] = LongFirst(msg)
    BY <1>2, <2>1, <2>2, <2>3, <2>6
  <2>8. \A i \in 2 .. j + 1 : packets'[i] = LongNext(msg, i - 1, Segment(msg, i))
    <3>1. TAKE i \in 2 .. j + 1
    <3>2. CASE i = j + 1
      <4>1. i - 1 = j
        BY <2>3, <3>2
      <4>. QED
        BY <2>6, <3>2, <4>1 DEF p
    <3>3. CASE i # j + 1
      <4>1. i \in 2 .. j /\ i \in 1 .. j
        BY <2>3, <3>3
      <4>. QED
        BY <2>2, <2>6, <4>1
    <3>. QED
      BY <3>2, <3>3
  <2>9. \A d, i : UNCHANGED <<LongFirst(msg), LongNext(msg, i, d), Segment(msg, i),
                              Count(msg), IsLong(msg)>>
    BY <1>4, <2>1
  <2>10. Sliced'
    BY <2>1, <2>4, <2>6, <2>7, <2>8, <2>9 DEF Sliced
  <2>. QED
    BY <1>1, <2>1, <2>2, <2>9, <2>10 DEF LongOnItsWay
<1>9. CASE PacketsMade
  <2>1. /\ stage = "segmenting" /\ stage' = "packets" /\ UNCHANGED <<bin, msg, packets>>
        /\ Len(packets) = Count(msg) \/ rest = <<>>
    BY <1>9 DEF PacketsMade
  <2>2. /\ IsLong(msg) /\ Sliced
        /\ rest = SubSeq(msg.data, (8 * (Len(packets) - 1)) + 1, n)
    BY <2>1 DEF JourneyInductive, LongOnItsWay, Sliced
  <2>3. Len(packets) \in 1 .. Count(msg) /\ n > 8
    BY <2>2 DEF Sliced, IsLong
  <2>4. ASSUME 8 * (Len(packets) - 1) < n PROVE rest # <<>>
    <3> DEFINE a == 8 * (Len(packets) - 1)
    <3>1. a \in Nat /\ a + 1 \in 1 .. n
      BY <1>1, <1>2, <2>3, <2>4
    <3> HIDE DEF a
    <3> DEFINE r == SubSeq(msg.data, a + 1, n)
    <3>2. Len(r) = n - a /\ n - a > 0
      BY <1>1, <3>1
    <3> HIDE DEF r
    <3>3. r # <<>>
      BY ONLY <3>2
    <3>. QED
      BY <2>2, <3>3 DEF a, r
  <2>5. Len(packets) = Count(msg)
    BY <1>1, <1>2, <2>1, <2>3, <2>4
  <2>6. Sliced'
    BY <2>1, <2>2, <2>5 DEF Sliced, Count, LongFirst, LongNext, LongID3, Segment
  <2>7. packets' # <<>>
    BY <2>1, <2>3
  <2>. QED
    BY <1>1, <2>1, <2>2, <2>6, <2>7 DEF LongOnItsWay, IsLong
<1>10. CASE QueueFirst \/ HatWrites \/ UsbWrites \/ HatReads \/ UsbReads \/ Reports
  <2>1. stage' \notin {"segmenting", "packets"} /\ UNCHANGED <<bin, msg>>
    BY <1>10 DEF QueueFirst, HatWrites, UsbWrites, HatReads, UsbReads, Reports
  <2>. QED
    BY <1>1, <1>3, <2>1
<1>11. CASE UNCHANGED vars
  <2>1. UNCHANGED <<stage, bin, msg, packets, rest>>
    BY <1>11 DEF vars
  <2>2. \A d, i : UNCHANGED <<LongFirst(msg), LongNext(msg, i, d), Segment(msg, i),
                              Count(msg), IsLong(msg)>>
    BY <1>4, <2>1
  <2>3. Sliced => Sliced'
    BY <2>1, <2>2 DEF Sliced
  <2>. QED
    BY <2>1, <2>2, <2>3 DEF JourneyInductive, LongOnItsWay
<1>. QED
  BY <1>5, <1>6, <1>7, <1>8, <1>9, <1>10, <1>11 DEF Next

-----------------------------------------------------------------------------
(* Theorems *)

\* The invariant holds in the initial states.
LEMMA InitInductive == Init => JourneyInductive
<1>1. Nothing.data = <<>> /\ Len(<<>>) = 0
  BY DEF Nothing, Packet
<1>2. Init => TypeOK
  BY Records DEF Init, TypeOK
<1>3. Init => ShortOnItsWay /\ FrameOnItsWay /\ LongOnItsWay
  BY <1>1 DEF Init, ShortOnItsWay, FrameOnItsWay, LongOnItsWay
<1>. QED
  BY <1>2, <1>3 DEF JourneyInductive

\* What every stage of the journey keeps of a message or a frame, and with it
\* type correctness, for any headers and sizes.
THEOREM JourneyInvariant == Spec => []JourneyInductive
<1>1. JourneyInductive /\ [Next]_vars => JourneyInductive'
  BY TypeStep, ShortStep, FrameStep, LongStep DEF JourneyInductive
<1>. QED
  BY <1>1, InitInductive, PTL DEF Spec

\* A message of at most 8 bytes with an identifier that a CAN bus has comes out
\* of either port, and of the server behind it, as the client sent it.
THEOREM ShortUnchanged == Spec => []ShortArrivesUnchanged
<1>1. JourneyInductive => ShortArrivesUnchanged
  BY DEF JourneyInductive, ShortOnItsWay, ShortBin, ShortArrivesUnchanged
<1>. QED
  BY <1>1, JourneyInvariant, PTL

\* No bit of an identifier on the bus is lost on its way to the clients, nor a
\* byte of data.
THEOREM FramesReported == Spec => []FrameReported
<1>1. ASSUME JourneyInductive, stage = "reported"
      PROVE  FrameReported
  <2>1. PICK d \in Seq(Byte), h \in Header :
          report = Bytes(h) \o d /\ d = frame.data /\ Faithful(h)
    BY <1>1 DEF JourneyInductive, FrameOnItsWay
  <2>2. /\ HeaderOf(report) = h /\ SubSeq(report, 1, 4) = Bytes(h)
        /\ SubSeq(report, 5, Len(report)) = d
    BY <2>1, BinaryParts
  <2>. QED
    BY <2>1, <2>2 DEF FrameReported, Faithful
<1>2. JourneyInductive => FrameReported
  BY <1>1 DEF FrameReported
<1>. QED
  BY <1>2, JourneyInvariant, PTL

\* The two bytes of a length.
LEMMA LengthBytes ==
  ASSUME NEW n \in Nat, n <= 16383
  PROVE  (n % 256) + (256 * ((n \div 256) % 256)) = n
<1>1. n \div 256 \in 0 .. 63 /\ (256 * (n \div 256)) + (n % 256) = n
  OBVIOUS
<1>2. \A q \in 0 .. 63 : q % 256 = q
  OBVIOUS
<1>. QED
  BY <1>1, <1>2

\* The packet c numbers of a message of size n: which bytes they have.
LEMMA PlaceOfByte ==
  ASSUME NEW n \in Nat, NEW c \in Nat, 8 * (c - 1) >= n, NEW i \in 1 .. n
  PROVE  /\ (i - 1) \div 8 \in Nat /\ (i - 1) % 8 \in 0 .. 7
         /\ 2 + ((i - 1) \div 8) \in 2 .. c
         /\ (8 * ((i - 1) \div 8)) + (1 + ((i - 1) % 8)) = i
<1> DEFINE q == (i - 1) \div 8
           r == (i - 1) % 8
<1>1. i \in Nat /\ i >= 1 /\ i <= n
  OBVIOUS
<1>2. q \in Nat /\ r \in 0 .. 7 /\ i = (8 * q) + (1 + r)
  BY ONLY <1>1
<1> HIDE DEF q, r
<1>3. q < c - 1
  BY ONLY <1>1, <1>2, 8 * (c - 1) >= n, n \in Nat, c \in Nat
<1>4. 2 + q \in 2 .. c
  BY ONLY <1>2, <1>3, c \in Nat
<1>. QED
  BY ONLY <1>2, <1>4 DEF q, r

\* A message m of n bytes in c packets ps, as the journey has it.
SlicedInto(m, n, c, ps) ==
  /\ m \in PacketSet /\ n \in Nat /\ c \in Nat
  /\ n = Len(m.data) /\ n > 8 /\ n <= 16383
  /\ c = Count(m) /\ Len(ps) = c /\ ps[1] = LongFirst(m)
  /\ \A k \in 2 .. c : ps[k] = LongNext(m, k - 1, Segment(m, k))

LEMMA PacketCount ==
  ASSUME NEW m, NEW n, NEW c, NEW ps, SlicedInto(m, n, c, ps)
  PROVE  c = 1 + ((n + 7) \div 8) /\ 8 * (c - 1) >= n /\ 8 * (c - 2) < n /\ c >= 2
<1>1. n \in Nat /\ Len(m.data) = n /\ c = Count(m) /\ n > 8
  BY DEF SlicedInto
<1>2. /\ Count(m) \in Nat /\ Count(m) = 1 + ((n + 7) \div 8)
      /\ 8 * (Count(m) - 1) >= n /\ (n > 0 => 8 * (Count(m) - 2) < n)
  BY <1>1, CountFits
<1>3. c \in Nat /\ c = 1 + ((n + 7) \div 8) /\ 8 * (c - 1) >= n /\ (n > 0 => 8 * (c - 2) < n)
  BY ONLY <1>1, <1>2
<1>4. c >= 2
  <2>1. n \in Nat /\ n > 8 /\ c \in Nat /\ 8 * (c - 1) >= n
    BY <1>1, <1>3
  <2>. QED
    BY ONLY <2>1
<1>. QED
  BY ONLY <1>1, <1>3, <1>4

\* What a data packet is: its kind, its index, and the segment that it holds.
LEMMA DataPacket ==
  ASSUME NEW m, NEW n, NEW c, NEW ps, SlicedInto(m, n, c, ps), NEW k \in 2 .. c
  PROVE  /\ SL(ps[k].header.id3) = 2 /\ ps[k].header.id0 = (k - 1) % IndexSize
         /\ Len(ps[k].data) = IF 8 * (k - 1) <= n THEN 8 ELSE n - (8 * (k - 2))
         /\ \A i \in 1 .. Len(ps[k].data) : ps[k].data[i] = m.data[(8 * (k - 2)) + i]
<1>1. m \in PacketSet /\ n \in Nat /\ c \in Nat /\ Len(m.data) = n
  BY DEF SlicedInto
<1>2. 8 * (c - 2) < n
  BY PacketCount
<1>3. k \in Nat /\ k >= 2 /\ 8 * (k - 2) < n /\ k - 1 \in Nat
  <2>1. k \in 2 .. c /\ n \in Nat /\ c \in Nat
    BY <1>1
  <2>. QED
    BY ONLY <2>1, <1>2
<1>4. 8 * (k - 2) < Len(m.data)
  BY <1>1, <1>3
<1>5. /\ Segment(m, k) \in Seq(Byte)
      /\ Len(Segment(m, k)) = IF 8 * (k - 1) <= Len(m.data) THEN 8 ELSE Len(m.data) - (8 * (k - 2))
      /\ \A i \in 1 .. Len(Segment(m, k)) : Segment(m, k)[i] = m.data[(8 * (k - 2)) + i]
  BY ONLY <1>1, <1>3, <1>4, SegmentData
<1>6. ps[k] = LongNext(m, k - 1, Segment(m, k))
  BY DEF SlicedInto
<1>7. /\ LongNext(m, k - 1, Segment(m, k)).data = Segment(m, k)
      /\ SL(LongNext(m, k - 1, Segment(m, k)).header.id3) = 2
      /\ LongNext(m, k - 1, Segment(m, k)).header.id0 = (k - 1) % IndexSize
  <2>1. \A d \in Seq(Byte), i \in Nat :
          /\ LongNext(m, i, d).data = d /\ SL(LongNext(m, i, d).header.id3) = 2
          /\ LongNext(m, i, d).header.id0 = i % IndexSize
    <3> TAKE d \in Seq(Byte), i \in Nat
    <3>. QED
      BY <1>1, NextFields
  <2>2. Segment(m, k) \in Seq(Byte) /\ k - 1 \in Nat
    BY <1>3, <1>5
  <2>. QED
    BY ONLY <2>1, <2>2, Zenon
<1>. QED
  BY ONLY <1>1, <1>5, <1>6, <1>7

\* Every byte is found where its number says.
LEMMA ByteFound ==
  ASSUME NEW m, NEW n, NEW c, NEW ps, SlicedInto(m, n, c, ps), NEW i \in 1 .. n
  PROVE  LET p == ps[2 + ((i - 1) \div 8)] IN
           (i - 1) % 8 < Len(p.data) /\ p.data[1 + ((i - 1) % 8)] = m.data[i]
<1> DEFINE q == (i - 1) \div 8
           r == (i - 1) % 8
           k == 2 + q
<1>1. n \in Nat /\ c \in Nat /\ i \in Nat /\ i <= n
  BY DEF SlicedInto
<1>2. q \in Nat /\ r \in 0 .. 7 /\ k \in 2 .. c /\ (8 * q) + (1 + r) = i
  BY <1>1, PacketCount, PlaceOfByte
<1> HIDE DEF q, r
<1>3. k - 2 = q /\ k - 1 = q + 1
  BY ONLY <1>2
<1>4. /\ Len(ps[k].data) = IF 8 * (k - 1) <= n THEN 8 ELSE n - (8 * (k - 2))
      /\ \A j \in 1 .. Len(ps[k].data) : ps[k].data[j] = m.data[(8 * (k - 2)) + j]
  <2> HIDE DEF k
  <2>. QED
    BY <1>2, DataPacket
<1>5. r < Len(ps[k].data) /\ 1 + r \in 1 .. Len(ps[k].data)
  <2> DEFINE l == Len(ps[k].data)
  <2>1. l = IF 8 * (q + 1) <= n THEN 8 ELSE n - (8 * q)
    BY <1>3, <1>4
  <2> HIDE DEF l, k
  <2>2. r < l /\ 1 + r \in 1 .. l
    BY ONLY <1>1, <1>2, <2>1
  <2>. QED
    BY <2>2 DEF l
<1>6. ps[k].data[1 + r] = m.data[(8 * q) + (1 + r)]
  <2> HIDE DEF k
  <2>. QED
    BY ONLY <1>3, <1>4, <1>5
<1>. QED
  BY <1>2, <1>5, <1>6 DEF q, r, k

\* The packets that ToPackets makes of a message hold all of it, in its order,
\* each data packet but the last one full, for every size that a frame has.
THEOREM LongMessageHeld == Spec => []SegmentsHoldMessage
<1>1. ASSUME JourneyInductive, stage = "packets", IsLong(msg)
      PROVE  SegmentsHoldMessage
  <2>1. PICK n, c : n = Len(msg.data) /\ c = Count(msg)
    OBVIOUS
  <2>2. msg \in PacketSet /\ Len(msg.data) \in Nat /\ DOMAIN msg.data = 1 .. Len(msg.data)
        /\ Len(msg.data) <= 16383 /\ Len(msg.data) > 8
    BY <1>1, Types DEF JourneyInductive, LongOnItsWay, IsLong, PacketSet
  <2>3. SlicedInto(msg, n, c, packets)
    <3>1. Count(msg) \in Nat
      BY <2>2, CountFits
    <3>2. /\ Len(packets) = Count(msg) /\ packets[1] = LongFirst(msg)
          /\ \A k \in 2 .. Count(msg) : packets[k] = LongNext(msg, k - 1, Segment(msg, k))
      BY <1>1 DEF JourneyInductive, LongOnItsWay, Sliced
    <3>. QED
      BY ONLY <2>1, <2>2, <3>1, <3>2 DEF SlicedInto
  <2>4. n \in Nat /\ c \in Nat /\ n <= 16383 /\ Len(packets) = c /\ DOMAIN msg.data = 1 .. n
    BY <2>1, <2>2, <2>3 DEF SlicedInto
  <2>5. packets[1].data[1] + (256 * packets[1].data[2]) = n
    <3>1. packets[1].data = <<n % 256, (n \div 256) % 256>>
      <4>1. LongFirst(msg).data = <<Len(msg.data) % 256, (Len(msg.data) \div 256) % 256>>
        BY DEF LongFirst, Packet
      <4>. QED
        BY ONLY <2>1, <2>3, <4>1 DEF SlicedInto
    <3>2. (n % 256) + (256 * ((n \div 256) % 256)) = n
      BY ONLY <2>4, LengthBytes
    <3>. QED
      BY ONLY <3>1, <3>2
  <2>6. c = 1 + ((n + 7) \div 8) /\ 8 * (c - 1) >= n /\ c >= 2
    BY ONLY <2>3, PacketCount
  <2>7. \A i \in 1 .. n :
          LET p == packets[2 + ((i - 1) \div 8)] IN
            (i - 1) % 8 < Len(p.data) /\ p.data[1 + ((i - 1) % 8)] = msg.data[i]
    BY ONLY <2>3, ByteFound
  <2>8. Len(packets[c].data) = n - (8 * (c - 2))
    <3>1. c \in 2 .. c
      BY ONLY <2>4, <2>6
    <3>2. Len(packets[c].data) = IF 8 * (c - 1) <= n THEN 8 ELSE n - (8 * (c - 2))
      BY ONLY <2>3, <3>1, DataPacket
    <3>. QED
      BY ONLY <2>4, <2>6, <3>2
  <2>9. ASSUME NEW k \in 2 .. c
        PROVE  /\ SL(packets[k].header.id3) = 2
               /\ k <= IndexSize => packets[k].header.id0 = k - 1
    <3>1. SL(packets[k].header.id3) = 2 /\ packets[k].header.id0 = (k - 1) % IndexSize
      BY <2>3, DataPacket
    <3>2. k <= IndexSize => (k - 1) % IndexSize = k - 1
      <4>1. IndexSize \in 1 .. 256 /\ k \in 2 .. c /\ c \in Nat
        BY <2>4, SizesAssumption
      <4>. QED
        BY ONLY <4>1
    <3>. QED
      BY ONLY <3>1, <3>2
  <2> DEFINE Found(i) ==
               LET p == packets[2 + ((i - 1) \div 8)] IN
                 (i - 1) % 8 < Len(p.data) /\ p.data[1 + ((i - 1) % 8)] = msg.data[i]
             InPlace(k) == /\ SL(packets[k].header.id3) = 2
                           /\ k <= IndexSize => packets[k].header.id0 = k - 1
  <2>10. \A i \in DOMAIN msg.data : Found(i)
    <3> TAKE i \in DOMAIN msg.data
    <3>1. i \in 1 .. n
      BY <2>4
    <3>. QED
      BY ONLY <2>7, <3>1
  <2>11. \A k \in 2 .. Len(packets) : InPlace(k)
    BY <2>4, <2>9
  <2>12. packets[1].data[1] + (256 * packets[1].data[2]) = Len(msg.data)
    BY ONLY <2>1, <2>5
  <2>13. Len(packets) = 1 + ((Len(msg.data) + 7) \div 8)
    BY ONLY <2>1, <2>4, <2>6
  <2>14. Len(packets[Len(packets)].data) = Len(msg.data) - (8 * (Len(packets) - 2))
    <3>1. Len(packets) = c /\ Len(msg.data) = n
      BY <2>1, <2>4
    <3>. QED
      BY ONLY <2>8, <3>1, Zenon
  <2>. QED
    BY <2>10, <2>11, <2>12, <2>13, <2>14, Zenon DEF SegmentsHoldMessage
<1>2. JourneyInductive => SegmentsHoldMessage
  BY <1>1 DEF SegmentsHoldMessage
<1>. QED
  BY <1>2, JourneyInvariant, PTL
=============================================================================
