--------------------------- MODULE UsbLineProofs ---------------------------
(***************************************************************************)
(* Proofs about UsbLine, for any size of the buffer, any data lengths up   *)
(* to 8 and any number of frames, wherever the slot runs out of bytes and  *)
(* in the middle of whatever the port is opened.                           *)
(***************************************************************************)
EXTENDS UsbLine, SequenceTheorems, TLAPS

-----------------------------------------------------------------------------
(* The invariant *)

\* A byte of a frame that was sent since the port was opened.
OfFrame(b) == b.frame \in Frames
Known(f) == f.no \in DOMAIN sent /\ sent[f.no] = f
Precedes(p, q) ==
  p.frame.no < q.frame.no \/ (p.frame = q.frame /\ p.at < q.at)

\* What is on the line: frames in the order they were sent, ...
LineOrdered ==
  /\ \A n \in DOMAIN sent : sent[n].no = n
  /\ \A k \in DOMAIN line :
       IF OfFrame(line[k]) THEN Known(line[k].frame) /\ line[k].at <= Digits(line[k].frame) + 1
                           ELSE ~IsPrefix(line[k])
  /\ \A j, k \in DOMAIN line :
       j < k /\ OfFrame(line[j]) /\ OfFrame(line[k]) => Precedes(line[j], line[k])

\* ... nothing between their bytes, and none missing but those that were taken.
LineWhole ==
  \A k \in DOMAIN line : OfFrame(line[k]) =>
    /\ ~IsCR(line[k]) =>
         k + 1 \in DOMAIN line /\ line[k + 1] = Byte(line[k].frame, line[k].at + 1)
    /\ ~IsPrefix(line[k]) /\ k > 1 => line[k - 1] = Byte(line[k].frame, line[k].at - 1)

\* What the loop inside a frame has is the frame up to the byte it takes next.
BytesBefore(f, j) == Padding(f.type) \o [k \in 1 .. j - 1 |-> Byte(f, k)]
Reading(f) ==
  \E j \in 1 .. Digits(f) + 1 :
    line # <<>> /\ Head(line) = Byte(f, j) /\ prefix = f.type /\ buffer = BytesBefore(f, j)
SlotInFrame ==
  /\ slot # "idle" => isOpen
  /\ slot = "frame" => /\ \E f \in Frames \ cut : Reading(f)
                       /\ Len(buffer) <= BufferSize

\* It is in every frame that it may still receive and has begun to take.
Lost(f) == f \in cut \/ ~Fits(f)
Begun == line # <<>> /\ OfFrame(Head(line)) /\ ~IsPrefix(Head(line))
NoneMissed == isOpen /\ Begun /\ ~Lost(Head(line).frame) => slot = "frame"

\* Frames that were cut were begun.
CutBegun ==
  /\ \A f \in cut \cap Frames : f.no \in DOMAIN sent
  /\ \A k \in DOMAIN line : IsPrefix(line[k]) => line[k].frame \notin cut

\* What was received is behind what is on the line, in order and not lost; and
\* what is neither on the line nor lost was received.
ReceivedInOrder ==
  /\ \A k \in DOMAIN Received : Known(Received[k]) /\ ~Lost(Received[k])
  /\ \A j, k \in DOMAIN Received : j < k => Received[j].no < Received[k].no
  /\ \A j \in DOMAIN Received, k \in DOMAIN line :
       OfFrame(line[k]) => Received[j].no < line[k].frame.no
AllReceived ==
  isOpen => \A n \in DOMAIN sent :
    OnLine(sent[n]) \/ Lost(sent[n]) \/ \E k \in DOMAIN Received : Received[k] = sent[n]

LineInv ==
  /\ TypeOK /\ LineOrdered /\ LineWhole /\ SlotInFrame /\ NoneMissed
  /\ CutBegun /\ ReceivedInOrder /\ AllReceived

-----------------------------------------------------------------------------
(* Frames and bytes *)

\* The digits of a frame.
LEMMA FrameFacts ==
  /\ \A f \in Frames : /\ f.no \in 1 .. MaxFrames /\ f.type \in {"T", "t"}
                       /\ f.dlc \in 0 .. 8 /\ Digits(f) \in 4 .. MaxDigits
  /\ \A f \in Earlier : f.no = 0 /\ f.type = "T" /\ f.dlc \in 0 .. 8 /\ Digits(f) \in 4 .. MaxDigits
  /\ Garbage \notin Frames /\ Earlier \cap Frames = {}
<1>1. \A f \in Frames : /\ f.no \in 1 .. MaxFrames /\ f.type \in {"T", "t"}
                        /\ f.dlc \in 0 .. 8 /\ f.stamped \in BOOLEAN
  BY SizesAssumption, StampsAssumption DEF Frames
<1>2. \A f \in Earlier : f.no = 0 /\ f.type = "T" /\ f.dlc \in 0 .. 8 /\ f.stamped \in BOOLEAN
  BY SizesAssumption DEF Earlier, Garbage
<1>3. \A f : f.type \in {"T", "t"} /\ f.dlc \in 0 .. 8 /\ f.stamped \in BOOLEAN
        => Digits(f) \in 4 .. MaxDigits
  BY DEF Digits, IdDigits, MaxDigits
<1>4. Garbage.no = 0
  BY DEF Garbage
<1>. QED
  BY <1>1, <1>2, <1>3, <1>4

\* Bytes are what they say they are.
LEMMA ByteFacts ==
  /\ \A f, k : Byte(f, k).frame = f /\ Byte(f, k).at = k
  /\ \A b \in Bytes : b = Byte(b.frame, b.at) /\ b.at \in Nat
  /\ \A b \in Bytes : b = Other \/ b.frame \in Frames \cup Earlier
  /\ \A f \in Frames \cup Earlier, k \in 0 .. MaxDigits + 1 : Byte(f, k) \in Bytes
  /\ Other \in Bytes /\ ~OfFrame(Other) /\ ~IsPrefix(Other)
<1>1. \A f, k : Byte(f, k).frame = f /\ Byte(f, k).at = k
  BY DEF Byte
<1>2. Other \in Bytes /\ Other.at = 31 /\ Other.frame = Garbage
  BY DEF Other, Byte, Bytes, MaxDigits
<1>3. ASSUME NEW b \in Bytes
      PROVE  /\ b = Byte(b.frame, b.at) /\ b.at \in Nat
             /\ b = Other \/ b.frame \in Frames \cup Earlier
  <2>1. CASE b = Other
    BY <1>2, <2>1 DEF Other, Byte
  <2>2. CASE b \in [frame : Frames \cup Earlier, at : 0 .. MaxDigits + 1]
    BY <2>2 DEF Byte, MaxDigits
  <2>. QED
    BY <2>1, <2>2 DEF Bytes
<1>4. \A f \in Frames \cup Earlier, k \in 0 .. MaxDigits + 1 : Byte(f, k) \in Bytes
  BY DEF Byte, Bytes
<1>. QED
  BY <1>1, <1>2, <1>3, <1>4, FrameFacts DEF OfFrame, IsPrefix

\* A frame on the line.
LEMMA TextFacts ==
  ASSUME NEW f \in Frames \cup Earlier
  PROVE  /\ Text(f) \in Seq(Bytes) /\ Len(Text(f)) = Digits(f) + 2
         /\ \A k \in 1 .. Digits(f) + 2 : Text(f)[k] = Byte(f, k - 1)
         /\ Digits(f) \in Nat
<1>1. Digits(f) \in 4 .. MaxDigits
  BY FrameFacts
<1>2. \A k \in 1 .. Digits(f) + 2 : k - 1 \in 0 .. MaxDigits + 1
  BY <1>1 DEF MaxDigits
<1>3. \A k \in 1 .. Digits(f) + 2 : Byte(f, k - 1) \in Bytes
  BY <1>2 DEF Byte, Bytes
<1>4. Digits(f) \in Nat /\ Digits(f) + 2 \in Nat
  BY <1>1
<1>5. Text(f) = [k \in 1 .. Digits(f) + 2 |-> Byte(f, k - 1)]
  BY DEF Text
<1>. QED
  BY <1>3, <1>4, <1>5

\* A byte more.
LEMMA AppendToConcat ==
  ASSUME NEW s \in Seq(Bytes), NEW t \in Seq(Bytes), NEW e \in Bytes
  PROVE  Append(s \o t, e) = s \o Append(t, e)
<1>1. /\ s \o t \in Seq(Bytes) /\ <<e>> \in Seq(Bytes)
      /\ Append(t, e) = t \o <<e>>
  BY ConcatProperties, AppendIsConcat
<1>2. Append(s \o t, e) = (s \o t) \o <<e>>
  BY <1>1, AppendIsConcat
<1>. QED
  BY <1>1, <1>2, ConcatAssociative

\* What the buffer holds grows into the line that ParsePacket expects.
LEMMA BufferFacts ==
  ASSUME NEW f \in Frames, NEW j \in 1 .. Digits(f) + 1
  PROVE  /\ BytesBefore(f, j) \in Seq(Bytes)
         /\ Len(BytesBefore(f, j)) = Len(Padding(f.type)) + j - 1
         /\ Len(Padding(f.type)) \in {0, 1}
         /\ j = 1 => BytesBefore(f, j) = Padding(f.type)
         /\ j <= Digits(f) => Append(BytesBefore(f, j), Byte(f, j)) = BytesBefore(f, j + 1)
         /\ BytesBefore(f, Digits(f) + 1) = Line(f)
<1>1. Digits(f) \in 4 .. MaxDigits /\ MaxDigits = 29
  BY FrameFacts DEF MaxDigits
<1>2. Padding(f.type) \in Seq(Bytes) /\ Len(Padding(f.type)) \in {0, 1}
  BY ByteFacts DEF Padding
<1> DEFINE part(i) == [k \in 1 .. i - 1 |-> Byte(f, k)]
<1>3. ASSUME NEW i \in 1 .. Digits(f) + 1
      PROVE  part(i) \in Seq(Bytes) /\ Len(part(i)) = i - 1
  <2>1. \A k \in 1 .. i - 1 : Byte(f, k) \in Bytes
    <3>1. \A k \in 1 .. i - 1 : k \in 0 .. MaxDigits + 1
      BY <1>1
    <3>. QED
      BY <3>1, ByteFacts
  <2>2. i - 1 \in Nat
    BY <1>1
  <2>. QED
    BY <2>1, <2>2
<1>4. BytesBefore(f, j) = Padding(f.type) \o part(j)
  BY DEF BytesBefore
<1>5. j = 1 => part(j) = <<>>
  BY <1>3
<1>6. ASSUME j <= Digits(f)
      PROVE  Append(BytesBefore(f, j), Byte(f, j)) = BytesBefore(f, j + 1)
  <2>1. j + 1 \in 1 .. Digits(f) + 1 /\ Byte(f, j) \in Bytes
    <3>1. j \in 0 .. MaxDigits + 1 /\ j + 1 \in 1 .. Digits(f) + 1
      BY <1>1, <1>6
    <3>. QED
      BY <3>1, ByteFacts
  <2>2. part(j + 1) = Append(part(j), Byte(f, j))
    <3>1. part(j + 1) \in Seq(Bytes) /\ Len(part(j + 1)) = j
      BY <1>3, <2>1
    <3>2. /\ Append(part(j), Byte(f, j)) \in Seq(Bytes)
          /\ Len(Append(part(j), Byte(f, j))) = j
          /\ \A k \in 1 .. j : Append(part(j), Byte(f, j))[k] = Byte(f, k)
      BY <1>3, <2>1
    <3>3. \A k \in 1 .. j : part(j + 1)[k] = Byte(f, k)
      OBVIOUS
    <3>. QED
      BY <3>1, <3>2, <3>3, SeqEqual
  <2>3. BytesBefore(f, j + 1) = Padding(f.type) \o part(j + 1)
    BY DEF BytesBefore
  <2> HIDE DEF part
  <2>4. Append(Padding(f.type) \o part(j), Byte(f, j))
          = Padding(f.type) \o Append(part(j), Byte(f, j))
    <3>1. part(j) \in Seq(Bytes)
      BY <1>3
    <3>2. Byte(f, j) \in Bytes /\ Padding(f.type) \in Seq(Bytes)
      BY <1>2, <2>1
    <3>3. PICK p : p = part(j)
      OBVIOUS
    <3>4. PICK e : e = Byte(f, j)
      OBVIOUS
    <3>5. PICK q : q = Padding(f.type)
      OBVIOUS
    <3>6. Append(q \o p, e) = q \o Append(p, e)
      BY <3>1, <3>2, <3>3, <3>4, <3>5, AppendToConcat
    <3>. QED
      BY <3>3, <3>4, <3>5, <3>6, Zenon
  <2>. QED
    BY <1>4, <2>2, <2>3, <2>4
<1>7. BytesBefore(f, Digits(f) + 1) = Line(f)
  <2>1. (Digits(f) + 1) - 1 = Digits(f)
    BY <1>1
  <2>2. PICK n : n = (Digits(f) + 1) - 1
    OBVIOUS
  <2>3. BytesBefore(f, Digits(f) + 1) = Padding(f.type) \o [k \in 1 .. n |-> Byte(f, k)]
    BY <2>2, Zenon DEF BytesBefore
  <2>4. Line(f) = Padding(f.type) \o [k \in 1 .. n |-> Byte(f, k)]
    BY <2>1, <2>2, Zenon DEF Line
  <2>. QED
    BY <2>3, <2>4, Zenon
<1> HIDE DEF part
<1>. QED
  BY <1>2, <1>3, <1>4, <1>5, <1>6, <1>7

\* ParsePacket takes the frame from its line.
LEMMA Parsed ==
  ASSUME NEW f \in Frames
  PROVE  ParsePacket(f.type, Line(f)) = <<f>>
<1> DEFINE h == HeaderLen(f.type)
           b == Line(f)
<1>1. Digits(f) \in 4 .. MaxDigits /\ f.type \in {"T", "t"} /\ f.dlc \in 0 .. 8
  BY FrameFacts
<1>2. Line(f) = Padding(f.type) \o [k \in 1 .. Digits(f) |-> Byte(f, k)]
  BY DEF Line
<1>3. /\ h + 1 - Len(Padding(f.type)) = IdDigits(f.type) + 1
      /\ h + 1 - Len(Padding(f.type)) \in 1 .. Digits(f)
      /\ h \in Nat /\ h + 1 + 2 * f.dlc <= Len(Padding(f.type)) + Digits(f)
  BY <1>1, FrameFacts DEF HeaderLen, Padding, IdDigits, Digits
<1>4. /\ Len(b) = Len(Padding(f.type)) + Digits(f)
      /\ b[h + 1] = Byte(f, IdDigits(f.type) + 1)
  <2>1. Padding(f.type) \in Seq(Bytes) /\ Len(Padding(f.type)) \in Nat
    BY ByteFacts DEF Padding
  <2>2. \A k \in 1 .. Digits(f) : Byte(f, k) \in Bytes
    <3>1. \A k \in 1 .. Digits(f) : k \in 0 .. MaxDigits + 1
      BY <1>1 DEF MaxDigits
    <3>. QED
      BY <3>1, ByteFacts
  <2>3. PICK t : t = [k \in 1 .. Digits(f) |-> Byte(f, k)]
    OBVIOUS
  <2>4. t \in Seq(Bytes) /\ Len(t) = Digits(f) /\ \A k \in 1 .. Digits(f) : t[k] = Byte(f, k)
    BY <1>1, <2>2, <2>3
  <2>5. b = Padding(f.type) \o t
    BY <1>2, <2>3
  <2> HIDE DEF h, b
  <2>. QED
    <3>1. h + 1 \in Len(Padding(f.type)) + 1 .. Len(Padding(f.type)) + Digits(f)
      BY <1>1, <1>3, <2>1
    <3>2. b \in Seq(Bytes) /\ Len(b) = Len(Padding(f.type)) + Digits(f)
      BY <2>1, <2>4, <2>5
    <3>3. PICK i : i = h + 1
      OBVIOUS
    <3>4. PICK q : q = Padding(f.type)
      OBVIOUS
    <3>5. i \in Len(q) + 1 .. Len(q) + Len(t) /\ q \in Seq(Bytes) /\ Len(q) \in Nat
      BY <2>1, <2>4, <3>1, <3>3, <3>4
    <3>6. (q \o t)[i] = t[i - Len(q)]
      BY <2>4, <3>5, ConcatProperties
    <3>7. b[h + 1] = t[h + 1 - Len(Padding(f.type))]
      <4>1. b = q \o t
        BY <2>5, <3>4
      <4>2. b[i] = t[i - Len(q)]
        BY <3>6, <4>1
      <4>3. b[h + 1] = b[i]
        BY <3>3
      <4>4. Len(Padding(f.type)) = Len(q)
        BY <3>4
      <4>5. i - Len(q) = h + 1 - Len(Padding(f.type))
        BY <1>3, <2>1, <3>3, <4>4
      <4>6. t[i - Len(q)] = t[h + 1 - Len(Padding(f.type))]
        BY <4>5
      <4>. QED
        BY <4>2, <4>3, <4>6
    <3>. QED
      BY <1>3, <2>4, <3>2, <3>7
<1>5. b[h + 1].frame = f
  BY <1>4, ByteFacts
<1>6. ~(Len(b) < h + 1) /\ ~(Len(b) < h + 1 + 2 * f.dlc)
  BY <1>1, <1>3, <1>4
<1>. QED
  BY <1>4, <1>5, <1>6 DEF ParsePacket

-----------------------------------------------------------------------------
(* The steps outside the slot *)

\* The invariant holds before the port is opened.
LEMMA InitLine == Init => LineInv
<1> SUFFICES ASSUME Init PROVE LineInv
  OBVIOUS
<1>1. TypeOK
  <2>1. isOpen \in BOOLEAN /\ owed \in 0 .. MaxOwed /\ prefix \in {"T", "t"}
    <3>1. 0 \in 0 .. MaxOwed
      BY BoundsAssumption
    <3>2. isOpen \in BOOLEAN
      BY DEF Init
    <3>3. prefix \in {"T", "t"}
      BY DEF Init
    <3>4. owed = 0
      BY DEF Init
    <3>. QED
      BY <3>1, <3>2, <3>3, <3>4
  <2>2. /\ buffer \in Seq(Bytes) /\ line \in Seq(Bytes) /\ RxQueue \in Seq(Frames)
        /\ sent \in Seq(Frames) /\ got \in Seq(Frames)
    BY DEF Init
  <2>3. /\ stamps \in Stamps /\ slot \in {"idle", "between", "frame"}
        /\ cut \subseteq Frames \cup Earlier
    BY DEF Init
  <2>. QED
    BY <2>1, <2>2, <2>3 DEF TypeOK
<1>2. Received = <<>> /\ Len(Received) = 0 /\ DOMAIN Received = {}
  BY DEF Init, Received
<1>3. LineOrdered /\ LineWhole
  BY DEF Init, LineOrdered, LineWhole
<1>4. SlotInFrame /\ NoneMissed /\ CutBegun
  BY DEF Init, SlotInFrame, NoneMissed, CutBegun
<1>5. ReceivedInOrder /\ AllReceived
  BY <1>2 DEF Init, ReceivedInOrder, AllReceived
<1>. QED
  BY <1>1, <1>3, <1>4, <1>5 DEF LineInv

\* What Read takes is behind what it has taken: nothing received moves.
LEMMA ReadKeepsReceived ==
  ASSUME TypeOK, NEW n \in Nat, ReadUpTo(n)
  PROVE  Received' = Received /\ got' \in Seq(Frames) /\ RxQueue' \in Seq(Frames)
<1>1. n \in 1 .. Len(RxQueue) /\ got \in Seq(Frames) /\ RxQueue \in Seq(Frames)
  BY DEF ReadUpTo, TypeOK
<1>2. PICK head, rest : /\ head = SubSeq(RxQueue, 1, n)
                        /\ rest = SubSeq(RxQueue, n + 1, Len(RxQueue))
  OBVIOUS
<1>3. head \in Seq(Frames) /\ rest \in Seq(Frames)
  BY <1>1, <1>2, SubSeqProperties
<1>4. RxQueue = head \o rest
  <2>1. SubSeq(RxQueue, 1, n) \o SubSeq(RxQueue, n + 1, Len(RxQueue))
          = SubSeq(RxQueue, 1, Len(RxQueue))
    <3>1. /\ Len(RxQueue) \in Nat /\ 1 \in 1 .. Len(RxQueue) + 1
          /\ n \in 1 .. Len(RxQueue) /\ n \in 0 .. Len(RxQueue)
      BY <1>1
    <3>. QED
      BY <1>1, <3>1, ConcatAdjacentSubSeq
  <2>. QED
    BY <1>1, <1>2, <2>1, SubSeqFull
<1>5. got' = got \o head /\ RxQueue' = rest
  BY <1>2 DEF ReadUpTo
<1>6. (got \o head) \o rest = got \o (head \o rest)
  BY <1>1, <1>3, ConcatAssociative
<1>. QED
  BY <1>1, <1>3, <1>4, <1>5, <1>6 DEF Received

\* Read keeps the invariant.
LEMMA ReadLine == LineInv /\ Read => LineInv'
<1> SUFFICES ASSUME LineInv, Read PROVE LineInv'
  OBVIOUS
<1> USE DEF LineInv
<1>1. PICK n \in 1 .. MaxFrames : ReadUpTo(n)
  BY DEF Read
<1>2. UNCHANGED <<isOpen, slot, prefix, buffer, line, owed, stamps, sent, cut>>
  BY <1>1 DEF ReadUpTo, locals
<1>3. Received' = Received /\ got' \in Seq(Frames) /\ RxQueue' \in Seq(Frames)
  BY <1>1, BoundsAssumption, ReadKeepsReceived
<1>4. TypeOK'
  BY <1>2, <1>3 DEF TypeOK
<1>5. LineOrdered' /\ LineWhole'
  BY <1>2 DEF LineOrdered, LineWhole, Known, Precedes, OfFrame, IsPrefix, IsCR
<1>6. SlotInFrame' /\ NoneMissed' /\ CutBegun'
  BY <1>2 DEF SlotInFrame, Reading, NoneMissed, Begun, CutBegun, Lost
<1>7. ReceivedInOrder' /\ AllReceived'
  BY <1>2, <1>3 DEF ReceivedInOrder, AllReceived, Known, Lost, OnLine
<1>. QED
  BY <1>4, <1>5, <1>6, <1>7

\* Write, and steps that change nothing.
LEMMA WriteLine == LineInv /\ (Write \/ UNCHANGED vars) => LineInv'
<1> SUFFICES ASSUME LineInv, Write \/ UNCHANGED vars PROVE LineInv'
  OBVIOUS
<1> USE DEF LineInv
<1>1. UNCHANGED <<isOpen, RxQueue, slot, prefix, buffer, line, stamps, sent, got, cut>>
  BY DEF Write, vars, locals, history
<1>2. owed' \in 0 .. MaxOwed
  BY BoundsAssumption DEF Write, vars, TypeOK
<1>3. TypeOK'
  BY <1>1, <1>2 DEF TypeOK
<1>4. LineOrdered' /\ LineWhole'
  BY <1>1 DEF LineOrdered, LineWhole, Known, Precedes, OfFrame, IsPrefix, IsCR
<1>5. SlotInFrame' /\ NoneMissed' /\ CutBegun'
  BY <1>1 DEF SlotInFrame, Reading, NoneMissed, Begun, CutBegun, Lost
<1>6. ReceivedInOrder' /\ AllReceived'
  BY <1>1 DEF ReceivedInOrder, AllReceived, Known, Lost, OnLine, Received
<1>. QED
  BY <1>3, <1>4, <1>5, <1>6

\* Close: what is on the line goes.
LEMMA CloseLine == LineInv /\ Close => LineInv'
<1> SUFFICES ASSUME LineInv, Close PROVE LineInv'
  OBVIOUS
<1> USE DEF LineInv
<1>1. /\ line' = <<>> /\ isOpen' = FALSE /\ owed' = 0 /\ slot' = "idle"
      /\ UNCHANGED <<RxQueue, prefix, buffer, stamps, sent, got, cut>>
  BY DEF Close, locals, history
<1>2. TypeOK'
  <2>1. owed' \in 0 .. MaxOwed /\ line' \in Seq(Bytes) /\ isOpen' \in BOOLEAN
    <3>1. 0 \in 0 .. MaxOwed
      BY BoundsAssumption
    <3>2. isOpen' \in BOOLEAN
      BY <1>1
    <3>3. line' \in Seq(Bytes)
      BY <1>1
    <3>. QED
      BY <1>1, <3>1, <3>2, <3>3
  <2>2. slot' \in {"idle", "between", "frame"}
    BY <1>1
  <2>. QED
    BY <1>1, <2>1, <2>2 DEF TypeOK
<1>3. LineOrdered' /\ LineWhole'
  BY <1>1 DEF LineInv, LineOrdered, LineWhole
<1>4. SlotInFrame' /\ NoneMissed' /\ CutBegun'
  BY <1>1 DEF SlotInFrame, NoneMissed, Begun, CutBegun
<1>5. ReceivedInOrder' /\ AllReceived'
  BY <1>1 DEF ReceivedInOrder, AllReceived, Known, Lost, Received
<1>. QED
  BY <1>2, <1>3, <1>4, <1>5

\* Open: what an adapter in the middle of a frame sends first is the end of it.
LEMMA RemainderBytes ==
  ASSUME NEW r \in Remainders
  PROVE  /\ r \in Seq(Bytes)
         /\ \A k \in DOMAIN r : ~OfFrame(r[k]) /\ ~IsPrefix(r[k])
<1>1. CASE r = <<>>
  BY <1>1
<1>2. ASSUME NEW f \in Earlier, NEW m \in 2 .. Digits(f) + 2,
             r = SubSeq(Text(f), m, Digits(f) + 2)
      PROVE  /\ r \in Seq(Bytes)
             /\ \A k \in DOMAIN r : ~OfFrame(r[k]) /\ ~IsPrefix(r[k])
  <2>1. PICK t, n : t = Text(f) /\ n = Digits(f) + 2
    OBVIOUS
  <2>2. /\ n \in Nat /\ t \in Seq(Bytes) /\ Len(t) = n /\ m \in 2 .. n
        /\ \A k \in 1 .. n : t[k] = Byte(f, k - 1)
    BY <2>1, <1>2, TextFacts
  <2>3. r = SubSeq(t, m, n)
    BY <1>2, <2>1
  <2>4. /\ r \in Seq(Bytes) /\ DOMAIN r = 1 .. n - m + 1
        /\ \A k \in 1 .. n - m + 1 : r[k] = t[m + k - 1]
    <3>1. \A i \in m .. n : t[i] \in Bytes
      BY <2>2
    <3>2. r \in Seq(Bytes) /\ Len(r) = n - m + 1 /\ \A k \in 1 .. n - m + 1 : r[k] = t[m + k - 1]
      BY <2>2, <2>3, <3>1, SubSeqProperties
    <3>. QED
      BY <3>2
  <2>5. ASSUME NEW k \in 1 .. n - m + 1
        PROVE  ~OfFrame(r[k]) /\ ~IsPrefix(r[k])
    <3>1. m + k - 1 \in 1 .. n /\ (m + k - 1) - 1 \in Nat \ {0}
      BY <2>2
    <3>2. PICK i : i = (m + k - 1) - 1
      OBVIOUS
    <3>3. r[k] = Byte(f, i) /\ i # 0
      BY <2>2, <2>4, <3>1, <3>2
    <3>4. r[k].frame = f /\ r[k].at = i
      BY <3>3, ByteFacts
    <3>. QED
      BY <3>3, <3>4, FrameFacts DEF OfFrame, IsPrefix
  <2>. QED
    BY <2>4, <2>5
<1>. QED
  BY <1>1, <1>2 DEF Remainders

\* Nothing of the session before is on the line, and nothing is received yet.
LEMMA OpenLine == LineInv /\ Open => LineInv'
<1> SUFFICES ASSUME LineInv, Open PROVE LineInv'
  OBVIOUS
<1> USE DEF LineInv
<1>1. /\ line' \in Remainders /\ isOpen' = TRUE /\ RxQueue' = <<>> /\ owed' = MaxOwed
      /\ stamps' \in Stamps /\ sent' = <<>> /\ got' = <<>> /\ cut' = {}
      /\ UNCHANGED <<slot, prefix, buffer>> /\ slot = "idle"
  BY DEF Open, locals, SlotInFrame
<1>2. PICK r \in Remainders : r = line'
  BY <1>1
<1>3. line' \in Seq(Bytes) /\ \A k \in DOMAIN line' : ~OfFrame(line'[k]) /\ ~IsPrefix(line'[k])
  BY <1>2, RemainderBytes
<1>4. TypeOK'
  <2>1. isOpen' \in BOOLEAN
    BY <1>1
  <2>2. owed' \in 0 .. MaxOwed
    BY <1>1, BoundsAssumption
  <2>3. RxQueue' \in Seq(Frames) /\ sent' \in Seq(Frames) /\ got' \in Seq(Frames)
    BY <1>1
  <2>4. stamps' \in Stamps /\ cut' \subseteq Frames \cup Earlier
    BY <1>1
  <2>5. slot' \in {"idle", "between", "frame"} /\ prefix' \in {"T", "t"} /\ buffer' \in Seq(Bytes)
    BY <1>1 DEF TypeOK
  <2>. QED
    BY <1>3, <2>1, <2>2, <2>3, <2>4, <2>5 DEF TypeOK
<1>5. LineOrdered' /\ LineWhole'
  <2>1. \A k \in DOMAIN line' : ~OfFrame(line[k])' /\ ~IsPrefix(line[k])'
    BY <1>3 DEF OfFrame, IsPrefix
  <2>. QED
    BY <1>1, <2>1 DEF LineOrdered, LineWhole
<1>6. SlotInFrame' /\ NoneMissed' /\ CutBegun'
  <2>1. line' # <<>> => Head(line') = line'[1] /\ 1 \in DOMAIN line'
    BY <1>3
  <2>2. ~Begun'
    BY <1>3, <2>1 DEF Begun, OfFrame
  <2>. QED
    BY <1>1, <2>2 DEF SlotInFrame, NoneMissed, CutBegun
<1>7. ReceivedInOrder' /\ AllReceived'
  <2>1. Received' = <<>> /\ DOMAIN Received' = {} /\ DOMAIN sent' = {}
    BY <1>1 DEF Received
  <2>. QED
    BY <2>1 DEF ReceivedInOrder, AllReceived
<1>. QED
  BY <1>4, <1>5, <1>6, <1>7

-----------------------------------------------------------------------------
(* The adapter *)

\* An answer is behind everything on the line and belongs to no frame.
LEMMA AnswersLine == LineInv /\ AdapterAnswers => LineInv'
<1> SUFFICES ASSUME LineInv, AdapterAnswers PROVE LineInv'
  OBVIOUS
<1> USE DEF LineInv
<1>1. /\ line' = Append(line, Other) /\ owed' = owed - 1 /\ owed > 0
      /\ UNCHANGED <<isOpen, RxQueue, slot, prefix, buffer, stamps, sent, got, cut>>
  BY DEF AdapterAnswers, locals, history
<1>2. /\ line \in Seq(Bytes) /\ line' \in Seq(Bytes) /\ Len(line') = Len(line) + 1
      /\ \A k \in 1 .. Len(line) : line'[k] = line[k]
      /\ line'[Len(line) + 1] = Other
  BY <1>1, ByteFacts DEF TypeOK
<1>3. PICK n \in Nat : n = Len(line)
  BY <1>2
<1>4. DOMAIN line = 1 .. n /\ DOMAIN line' = 1 .. n + 1 /\ line'[n + 1] = Other
  BY <1>2, <1>3
<1>5. \A k \in 1 .. n + 1 : k \in 1 .. n \/ k = n + 1
  BY <1>3
<1>6. /\ \A k \in 1 .. n : line'[k] = line[k] /\ k \in 1 .. n + 1
      /\ ~OfFrame(line'[n + 1]) /\ ~IsPrefix(line'[n + 1])
  BY <1>2, <1>3, <1>4, ByteFacts
<1>7. TypeOK'
  <2>1. owed' \in 0 .. MaxOwed
    BY <1>1, BoundsAssumption DEF TypeOK
  <2>. QED
    BY <1>1, <1>2, <2>1 DEF TypeOK
<1>8. LineOrdered'
  BY <1>1, <1>4, <1>5, <1>6 DEF LineOrdered, OfFrame, IsPrefix, Known, Precedes
<1>9. LineWhole'
  <2> SUFFICES ASSUME NEW k \in 1 .. n + 1, OfFrame(line'[k])
               PROVE  /\ ~IsCR(line'[k]) => /\ k + 1 \in 1 .. n + 1
                                            /\ line'[k + 1] = Byte(line'[k].frame, line'[k].at + 1)
                      /\ ~IsPrefix(line'[k]) /\ k > 1 =>
                            line'[k - 1] = Byte(line'[k].frame, line'[k].at - 1)
    BY <1>4 DEF LineWhole, OfFrame, IsCR, IsPrefix
  <2>1. k \in 1 .. n /\ line'[k] = line[k]
    BY <1>5, <1>6
  <2>2. k > 1 => k - 1 \in 1 .. n
    BY <2>1
  <2>. QED
    BY <1>4, <1>6, <2>1, <2>2 DEF LineWhole
<1>10. SlotInFrame' /\ NoneMissed'
  <2>1. line # <<>> => line' # <<>> /\ Head(line') = Head(line)
    BY <1>2
  <2>2. line = <<>> => Head(line') = Other
    BY <1>2
  <2>3. SlotInFrame'
    BY <1>1, <2>1 DEF SlotInFrame, Reading
  <2>4. Begun' => Begun /\ Head(line') = Head(line)
    BY <2>1, <2>2, ByteFacts DEF Begun, OfFrame
  <2>. QED
    BY <1>1, <2>3, <2>4 DEF NoneMissed, Lost, Begun
<1>11. CutBegun'
  BY <1>1, <1>4, <1>5, <1>6 DEF CutBegun, IsPrefix
<1>12. ReceivedInOrder'
  BY <1>1, <1>4, <1>5, <1>6 DEF ReceivedInOrder, Known, Lost, OfFrame, Received
<1>13. AllReceived'
  <2>1. \A f : OnLine(f) => OnLine(f)'
    BY <1>4, <1>6 DEF OnLine
  <2>. QED
    BY <1>1, <2>1 DEF AllReceived, Lost, Received
<1>. QED
  BY <1>7, <1>8, <1>9, <1>10, <1>11, <1>12, <1>13

\* What the adapter puts behind the line: the bytes of the next frame, in order.
LEMMA SentBytes ==
  ASSUME TypeOK, LineOrdered, NEW f \in Frames, f.no = Len(sent) + 1,
         sent' = Append(sent, f), line' = line \o Text(f)
  PROVE  \E n, m \in Nat :
           /\ n = Len(line) /\ m = Digits(f) + 2 /\ m > 1
           /\ DOMAIN line = 1 .. n /\ DOMAIN line' = 1 .. n + m /\ line' \in Seq(Bytes)
           /\ \A k \in 1 .. n : line'[k] = line[k] /\ k \in 1 .. n + m
           /\ \A i \in 1 .. m : line'[n + i] = Byte(f, i - 1) /\ n + i \in 1 .. n + m
           /\ \A k \in 1 .. n + m : k \in 1 .. n \/ \E i \in 1 .. m : k = n + i
<1>1. PICK t : t = Text(f)
  OBVIOUS
<1>2. PICK n, m \in Nat : n = Len(line) /\ m = Digits(f) + 2
  BY TextFacts DEF TypeOK
<1>3. /\ t \in Seq(Bytes) /\ Len(t) = m /\ m > 1
      /\ \A i \in 1 .. m : t[i] = Byte(f, i - 1)
  BY <1>1, <1>2, TextFacts
<1>4. line \in Seq(Bytes) /\ line' = line \o t
  BY <1>1 DEF TypeOK
<1>5. /\ line' \in Seq(Bytes) /\ Len(line') = n + m
      /\ \A k \in 1 .. n + m : line'[k] = IF k <= n THEN line[k] ELSE t[k - n]
  <2>1. line \o t \in Seq(Bytes) /\ Len(line \o t) = Len(line) + Len(t)
    BY <1>3, <1>4, ConcatProperties
  <2>2. \A k \in 1 .. Len(line) + Len(t) :
          (line \o t)[k] = IF k <= Len(line) THEN line[k] ELSE t[k - Len(line)]
    BY <1>3, <1>4, ConcatProperties
  <2>. QED
    BY <1>2, <1>3, <1>4, <2>1, <2>2
<1>6. ASSUME NEW i \in 1 .. m
      PROVE  line'[n + i] = Byte(f, i - 1) /\ n + i \in 1 .. n + m
  <2>1. n + i \in 1 .. n + m /\ ~(n + i <= n) /\ (n + i) - n = i
    BY <1>2
  <2>. QED
    BY <1>3, <1>5, <2>1
<1>7. ASSUME NEW k \in 1 .. n
      PROVE  line'[k] = line[k] /\ k \in 1 .. n + m
  BY <1>2, <1>5
<1>8. ASSUME NEW k \in 1 .. n + m
      PROVE  k \in 1 .. n \/ \E i \in 1 .. m : k = n + i
  <2>1. k > n => k - n \in 1 .. m /\ k = n + (k - n)
    BY <1>2
  <2>. QED
    BY <1>2, <2>1
<1>9. DOMAIN line = 1 .. n /\ DOMAIN line' = 1 .. n + m
  BY <1>2, <1>4, <1>5
<1>. QED
  BY <1>2, <1>3, <1>5, <1>6, <1>7, <1>8, <1>9

\* A frame put on the line keeps the invariant.
LEMMA SendsLine == LineInv /\ AdapterSends => LineInv'
<1> SUFFICES ASSUME LineInv, AdapterSends PROVE LineInv'
  OBVIOUS
<1> USE DEF LineInv
<1>1. PICK f \in Frames : f.no = Len(sent) + 1 /\ sent' = Append(sent, f) /\ line' = line \o Text(f)
  <2>1. PICK type \in {"T", "t"}, dlc \in Dlcs :
          LET f == [no |-> Len(sent) + 1, type |-> type, dlc |-> dlc, stamped |-> stamps]
          IN  sent' = Append(sent, f) /\ line' = line \o Text(f)
    BY DEF AdapterSends
  <2>2. Len(sent) + 1 \in 1 .. MaxFrames /\ stamps \in Stamps
    BY BoundsAssumption DEF AdapterSends, TypeOK
  <2>. QED
    BY <2>1, <2>2 DEF Frames
<1>2. UNCHANGED <<isOpen, RxQueue, slot, prefix, buffer, owed, stamps, got, cut>>
  BY DEF AdapterSends, locals
<1>3. PICK n, m \in Nat :
        /\ n = Len(line) /\ m = Digits(f) + 2 /\ m > 1
        /\ DOMAIN line = 1 .. n /\ DOMAIN line' = 1 .. n + m /\ line' \in Seq(Bytes)
        /\ \A k \in 1 .. n : line'[k] = line[k] /\ k \in 1 .. n + m
        /\ \A i \in 1 .. m : line'[n + i] = Byte(f, i - 1) /\ n + i \in 1 .. n + m
        /\ \A k \in 1 .. n + m : k \in 1 .. n \/ \E i \in 1 .. m : k = n + i
  BY <1>1, SentBytes
<1>4. /\ sent \in Seq(Frames) /\ sent' \in Seq(Frames) /\ Len(sent) \in Nat
      /\ DOMAIN sent' = 1 .. Len(sent) + 1 /\ sent'[f.no] = f
      /\ \A k \in DOMAIN sent : /\ sent'[k] = sent[k] /\ k \in DOMAIN sent' /\ k < f.no
  BY <1>1 DEF TypeOK
<1>5. \A g : Known(g) => Known(g)' /\ g.no < f.no
  BY <1>4 DEF Known
<1>6. Known(f)'
  BY <1>1, <1>4 DEF Known
<1>7. \A i \in 1 .. m : line'[n + i].frame = f /\ line'[n + i].at = i - 1
  BY <1>3, ByteFacts
<1>8. TypeOK'
  BY <1>2, <1>3, <1>4 DEF TypeOK
<1>9. LineOrdered'
  <2>1. (\A k \in DOMAIN sent : sent[k].no = k)'
    BY <1>1, <1>4 DEF LineOrdered
  <2>2. ASSUME NEW k \in DOMAIN line'
        PROVE  IF OfFrame(line[k])'
                 THEN Known(line[k].frame)' /\ line'[k].at <= Digits(line'[k].frame) + 1
                 ELSE ~IsPrefix(line[k])'
    <3>1. CASE k \in 1 .. n
      BY <1>3, <1>5, <3>1 DEF LineOrdered, OfFrame, IsPrefix
    <3>2. ASSUME NEW i \in 1 .. m, k = n + i
          PROVE  /\ Known(line[k].frame)' /\ OfFrame(line[k])'
                 /\ line'[k].at <= Digits(line'[k].frame) + 1
      <4>1. line'[k].frame = f /\ line'[k].at = i - 1
        BY <1>7, <3>2
      <4>2. Digits(f) \in Nat
        BY TextFacts
      <4>3. i - 1 <= Digits(f) + 1
        BY <1>3, <4>2
      <4>. QED
        BY <1>6, <4>1, <4>3 DEF OfFrame, Known
    <3>. QED
      BY <1>3, <3>1, <3>2
  <2>3. ASSUME NEW j \in DOMAIN line', NEW k \in DOMAIN line', j < k,
               OfFrame(line[j])', OfFrame(line[k])'
        PROVE  Precedes(line[j], line[k])'
    <3>1. CASE j \in 1 .. n /\ k \in 1 .. n
      BY <1>3, <2>3, <3>1 DEF LineOrdered, OfFrame, Precedes
    <3>2. ASSUME j \in 1 .. n, NEW i \in 1 .. m, k = n + i
          PROVE  Precedes(line[j], line[k])'
      BY <1>3, <1>5, <1>7, <2>3, <3>2 DEF LineOrdered, OfFrame, Precedes
    <3>3. ASSUME NEW h \in 1 .. m, j = n + h, NEW i \in 1 .. m, k = n + i
          PROVE  Precedes(line[j], line[k])'
      <4>1. h - 1 < i - 1
        BY <1>3, <2>3, <3>3
      <4>. QED
        BY <1>7, <3>3, <4>1 DEF Precedes
    <3>4. ASSUME NEW h \in 1 .. m, j = n + h
          PROVE  k \notin 1 .. n
      BY <1>3, <2>3, <3>4
    <3>. QED
      BY <1>3, <3>1, <3>2, <3>3, <3>4
  <2>. QED
    BY <2>1, <2>2, <2>3 DEF LineOrdered
<1>10. LineWhole'
  <2> SUFFICES ASSUME NEW k \in 1 .. n + m, OfFrame(line'[k])
               PROVE  /\ ~IsCR(line'[k]) => /\ k + 1 \in 1 .. n + m
                                            /\ line'[k + 1] = Byte(line'[k].frame, line'[k].at + 1)
                      /\ ~IsPrefix(line'[k]) /\ k > 1 =>
                            line'[k - 1] = Byte(line'[k].frame, line'[k].at - 1)
    BY <1>3 DEF LineWhole, OfFrame, IsCR, IsPrefix
  <2>1. CASE k \in 1 .. n
    <3>1. k > 1 => k - 1 \in 1 .. n
      BY <1>3, <2>1
    <3>2. line'[k] = line[k] /\ k \in DOMAIN line
      BY <1>3, <2>1
    <3>3. ~IsCR(line[k]) => k + 1 \in 1 .. n /\ line[k + 1] = Byte(line[k].frame, line[k].at + 1)
      BY <1>3, <3>2 DEF LineWhole
    <3>4. ~IsPrefix(line[k]) /\ k > 1 => line[k - 1] = Byte(line[k].frame, line[k].at - 1)
      BY <1>3, <3>2 DEF LineWhole
    <3>. QED
      BY <1>3, <3>1, <3>2, <3>3, <3>4
  <2>2. ASSUME NEW i \in 1 .. m, k = n + i
        PROVE  /\ ~IsCR(line'[k]) => /\ k + 1 \in 1 .. n + m
                                     /\ line'[k + 1] = Byte(line'[k].frame, line'[k].at + 1)
               /\ ~IsPrefix(line'[k]) /\ k > 1 =>
                     line'[k - 1] = Byte(line'[k].frame, line'[k].at - 1)
    <3>1. line'[k].frame = f /\ line'[k].at = i - 1
      BY <1>7, <2>2
    <3>2. ASSUME ~IsCR(line'[k])
          PROVE  /\ k + 1 \in 1 .. n + m
                 /\ line'[k + 1] = Byte(line'[k].frame, line'[k].at + 1)
      <4>1. Digits(f) \in Nat /\ i - 1 # Digits(f) + 1
        BY <3>1, <3>2, TextFacts DEF IsCR
      <4>2. m = Digits(f) + 2
        BY <1>3
      <4>3. i + 1 \in 1 .. m
        BY <2>2, <4>1, <4>2
      <4>4. k + 1 = n + (i + 1) /\ (i + 1) - 1 = (i - 1) + 1
        BY <2>2
      <4>. QED
        BY <1>3, <3>1, <4>3, <4>4
    <3>3. ASSUME ~IsPrefix(line'[k]), k > 1
          PROVE  line'[k - 1] = Byte(line'[k].frame, line'[k].at - 1)
      <4>1. i - 1 # 0
        BY <3>1, <3>3 DEF IsPrefix
      <4>2. i - 1 \in 1 .. m
        BY <2>2, <4>1
      <4>3. k - 1 = n + (i - 1)
        BY <2>2
      <4>. QED
        BY <1>3, <3>1, <4>2, <4>3
    <3>. QED
      BY <3>2, <3>3
  <2>. QED
    BY <1>3, <2>1, <2>2
<1>11. SlotInFrame' /\ NoneMissed'
  <2>1. line # <<>> => line' # <<>> /\ Head(line') = Head(line)
    <3>1. line # <<>> => 1 \in 1 .. n /\ Head(line) = line[1]
      BY <1>3 DEF TypeOK
    <3>. QED
      BY <1>3, <3>1
  <2>2. line = <<>> => IsPrefix(Head(line'))
    <3>1. line = <<>> => n + 1 = 1
      BY <1>3
    <3>2. 1 \in 1 .. m /\ n + 1 \in 1 .. n + m
      BY <1>3
    <3>3. line'[n + 1].at = 0
      BY <1>7, <3>2
    <3>4. Head(line') = line'[1]
      BY <1>3
    <3>. QED
      BY <3>1, <3>3, <3>4 DEF IsPrefix
  <2>3. SlotInFrame'
    BY <1>2, <2>1 DEF SlotInFrame, Reading
  <2>4. Begun' => Begun /\ Head(line') = Head(line)
    BY <2>1, <2>2 DEF Begun, IsPrefix, OfFrame
  <2>. QED
    BY <1>2, <2>3, <2>4 DEF NoneMissed, Lost, Begun
<1>12. CutBegun'
  <2>1. f \notin cut
    BY <1>4 DEF CutBegun
  <2>2. \A g \in cut \cap Frames : g.no \in DOMAIN sent'
    BY <1>4 DEF CutBegun
  <2>3. \A k \in DOMAIN line' : IsPrefix(line[k])' => line'[k].frame \notin cut
    <3> SUFFICES ASSUME NEW k \in DOMAIN line', IsPrefix(line'[k])
                 PROVE  line'[k].frame \notin cut
      BY DEF IsPrefix
    <3>1. CASE k \in 1 .. n
      BY <1>3, <3>1 DEF CutBegun
    <3>2. CASE \E i \in 1 .. m : k = n + i
      BY <1>7, <2>1, <3>2
    <3>. QED
      BY <1>3, <3>1, <3>2
  <2>. QED
    BY <1>2, <2>2, <2>3 DEF CutBegun, IsPrefix
<1>13. ReceivedInOrder'
  <2>1. Received' = Received
    BY <1>2 DEF Received
  <2>2. \A j \in DOMAIN Received, k \in DOMAIN line' :
          OfFrame(line'[k]) => Received[j].no < line'[k].frame.no
    <3> SUFFICES ASSUME NEW j \in DOMAIN Received, NEW k \in DOMAIN line', OfFrame(line'[k])
                 PROVE  Received[j].no < line'[k].frame.no
      OBVIOUS
    <3>1. CASE k \in 1 .. n
      BY <1>3, <3>1 DEF ReceivedInOrder
    <3>2. CASE \E i \in 1 .. m : k = n + i
      BY <1>5, <1>7, <3>2 DEF ReceivedInOrder
    <3>. QED
      BY <1>3, <3>1, <3>2
  <2>. QED
    BY <1>2, <1>5, <2>1, <2>2 DEF ReceivedInOrder, Lost, OfFrame
<1>14. AllReceived'
  <2>1. \A g : OnLine(g) => OnLine(g)'
    BY <1>3 DEF OnLine
  <2>2. OnLine(f)'
    <3>1. 1 \in 1 .. m
      BY <1>3
    <3>. QED
      BY <1>3, <1>7, <3>1 DEF OnLine
  <2>3. \A k \in DOMAIN sent' : k \in DOMAIN sent \/ sent'[k] = f
    BY <1>1, <1>4
  <2>. QED
    BY <1>2, <1>4, <2>1, <2>2, <2>3 DEF AllReceived, Lost, Received
<1>. QED
  BY <1>8, <1>9, <1>10, <1>11, <1>12, <1>13, <1>14

-----------------------------------------------------------------------------
(* The slot *)

\* The byte that is next.
LEMMA NextByte ==
  ASSUME TypeOK, line # <<>>
  PROVE  /\ 1 \in DOMAIN line /\ Head(line) = line[1] /\ line[1] \in Bytes
         /\ Len(line) \in Nat \ {0} /\ DOMAIN line = 1 .. Len(line)
BY DEF TypeOK

\* A frame that the slot ends in is lost: it was begun, and it is not received yet.
LEMMA EndsLine == LineInv /\ SlotEnds => LineInv'
<1> SUFFICES ASSUME LineInv, SlotEnds PROVE LineInv'
  OBVIOUS
<1> USE DEF LineInv
<1>1. /\ slot' = "idle" /\ prefix' = "T" /\ buffer' = <<>>
      /\ UNCHANGED <<isOpen, RxQueue, line, owed, stamps, sent, got>>
  BY DEF SlotEnds, LeaveFrame
<1>2. Received' = Received
  BY <1>1 DEF Received
<1>3. LineOrdered' /\ LineWhole'
  BY <1>1 DEF LineOrdered, LineWhole, Known, Precedes, OfFrame, IsPrefix, IsCR
<1>4. CASE ~(line # <<>> /\ Inside(Head(line)))
  <2>1. cut' = cut /\ ~Begun
    <3>1. cut' = cut
      BY <1>4 DEF SlotEnds
    <3>. QED
      BY <1>4, <3>1, ByteFacts DEF Begun, Inside
  <2>2. TypeOK'
    BY <1>1, <2>1 DEF TypeOK
  <2>3. SlotInFrame' /\ NoneMissed' /\ CutBegun'
    BY <1>1, <2>1 DEF SlotInFrame, NoneMissed, Begun, CutBegun, IsPrefix, OfFrame
  <2>4. ReceivedInOrder' /\ AllReceived'
    BY <1>1, <1>2, <2>1 DEF ReceivedInOrder, AllReceived, Known, Lost, OnLine, OfFrame
  <2>. QED
    BY <1>3, <2>2, <2>3, <2>4
<1>5. CASE line # <<>> /\ Inside(Head(line))
  <2>1. PICK b \in Bytes : b = line[1] /\ b = Head(line)
    BY <1>5, NextByte
  <2>2. /\ cut' = cut \cup {b.frame} /\ b # Other /\ ~IsPrefix(b) /\ 1 \in DOMAIN line
        /\ b.frame \in Frames \cup Earlier /\ b.at \in Nat
    <3>1. cut' = cut \cup {b.frame}
      BY <1>5, <2>1 DEF SlotEnds
    <3>2. b # Other /\ ~IsPrefix(b)
      BY <1>5, <2>1 DEF Inside
    <3>. QED
      BY <1>5, <3>1, <3>2, NextByte, ByteFacts
  <2>3. b.frame \in Frames => Known(b.frame)
    BY <2>1, <2>2 DEF LineOrdered, OfFrame
  <2>4. TypeOK'
    <3>1. cut' \subseteq Frames \cup Earlier
      BY <2>2 DEF TypeOK
    <3>2. buffer' \in Seq(Bytes) /\ prefix' \in {"T", "t"} /\ slot' \in {"idle", "between", "frame"}
      BY <1>1
    <3>. QED
      BY <1>1, <3>1, <3>2 DEF TypeOK
  <2>5. SlotInFrame' /\ NoneMissed'
    <3>1. SlotInFrame'
      BY <1>1 DEF SlotInFrame
    <3>2. b.frame \in cut'
      BY <2>2
    <3>. QED
      BY <1>1, <2>1, <3>1, <3>2 DEF NoneMissed, Lost
  <2>6. CutBegun'
    <3>1. \A f \in cut' \cap Frames : f.no \in DOMAIN sent
      BY <2>2, <2>3 DEF CutBegun, Known
    <3>2. ASSUME NEW k \in DOMAIN line, IsPrefix(line[k]) PROVE line[k].frame # b.frame
      <4>1. OfFrame(line[k]) /\ line[k].at = 0
        BY <3>2 DEF LineOrdered, IsPrefix
      <4>2. k # 1 /\ 1 < k
        BY <1>5, <2>1, <2>2, <3>2, NextByte
      <4>3. ASSUME line[k].frame = b.frame PROVE FALSE
        <5>1. OfFrame(b)
          BY <4>1, <4>3 DEF OfFrame
        <5>2. Precedes(b, line[k])
          BY <2>1, <2>2, <4>1, <4>2, <5>1 DEF LineOrdered
        <5>3. b.frame.no \in Nat
          BY <5>1, FrameFacts, BoundsAssumption DEF OfFrame
        <5>. QED
          BY <2>2, <4>1, <4>3, <5>2, <5>3 DEF Precedes
      <4>. QED
        BY <4>3
    <3>. QED
      BY <1>1, <2>2, <3>1, <3>2 DEF CutBegun, IsPrefix
  <2>7. ReceivedInOrder'
    <3>1. ASSUME NEW k \in DOMAIN Received PROVE Received[k] # b.frame
      <4>1. ASSUME Received[k] = b.frame PROVE FALSE
        <5>1. Received[k] \in Frames
          BY <3>1 DEF TypeOK, Received
        <5>2. OfFrame(b) /\ b.frame.no \in Nat
          BY <4>1, <5>1, FrameFacts, BoundsAssumption DEF OfFrame
        <5>3. Received[k].no < b.frame.no
          BY <2>1, <2>2, <5>2 DEF ReceivedInOrder
        <5>. QED
          BY <4>1, <5>2, <5>3
      <4>. QED
        BY <4>1
    <3>2. \A k \in DOMAIN Received : Received[k] \notin cut' /\ Fits(Received[k])
      BY <2>2, <3>1 DEF ReceivedInOrder, Lost
    <3>. QED
      BY <1>1, <1>2, <3>2 DEF ReceivedInOrder, Known, OfFrame, Lost
  <2>8. AllReceived'
    BY <1>1, <1>2, <2>2 DEF AllReceived, Lost, OnLine
  <2>. QED
    BY <1>3, <2>4, <2>5, <2>6, <2>7, <2>8
<1>. QED
  BY <1>4, <1>5

\* A byte taken from the line leaves the rest of it in order and whole.
LEMMA TakenByte ==
  ASSUME TypeOK, LineOrdered, LineWhole, line # <<>>, line' = Tail(line), sent' = sent
  PROVE  /\ \E n \in Nat : /\ Len(line) = n + 1 /\ DOMAIN line = 1 .. n + 1 /\ DOMAIN line' = 1 .. n
                           /\ \A k \in 1 .. n : line'[k] = line[k + 1] /\ k + 1 \in 1 .. n + 1
         /\ line' \in Seq(Bytes) /\ LineOrdered' /\ LineWhole'
<1>1. PICK n \in Nat : Len(line) = n + 1
  <2>1. Len(line) - 1 \in Nat /\ Len(line) = (Len(line) - 1) + 1
    BY NextByte
  <2>. QED
    BY <2>1
<1>2. /\ line' \in Seq(Bytes) /\ DOMAIN line = 1 .. n + 1 /\ DOMAIN line' = 1 .. n
      /\ \A k \in 1 .. n : line'[k] = line[k + 1]
  BY <1>1 DEF TypeOK
<1>3. \A k \in 1 .. n : k + 1 \in 1 .. n + 1
  BY <1>1
<1>4. LineOrdered'
  <2>1. \A k \in DOMAIN line' :
          IF OfFrame(line'[k])
            THEN Known(line'[k].frame) /\ line'[k].at <= Digits(line'[k].frame) + 1
            ELSE ~IsPrefix(line'[k])
    BY <1>2, <1>3 DEF LineOrdered
  <2>2. \A j, k \in DOMAIN line' :
          j < k /\ OfFrame(line'[j]) /\ OfFrame(line'[k]) => Precedes(line'[j], line'[k])
    <3> SUFFICES ASSUME NEW j \in 1 .. n, NEW k \in 1 .. n, j < k,
                        OfFrame(line'[j]), OfFrame(line'[k])
                 PROVE  Precedes(line'[j], line'[k])
      BY <1>2
    <3>1. j + 1 < k + 1
      OBVIOUS
    <3>. QED
      BY <1>2, <1>3, <3>1 DEF LineOrdered
  <2>. QED
    BY <2>1, <2>2 DEF LineOrdered, OfFrame, IsPrefix, Known, Precedes
<1>5. LineWhole'
  <2> SUFFICES ASSUME NEW k \in 1 .. n, OfFrame(line'[k])
               PROVE  /\ ~IsCR(line'[k]) => /\ k + 1 \in 1 .. n
                                            /\ line'[k + 1] = Byte(line'[k].frame, line'[k].at + 1)
                      /\ ~IsPrefix(line'[k]) /\ k > 1 =>
                            line'[k - 1] = Byte(line'[k].frame, line'[k].at - 1)
    BY <1>2 DEF LineWhole, OfFrame, IsCR, IsPrefix
  <2>1. PICK i : i = k + 1
    OBVIOUS
  <2>2. line'[k] = line[i] /\ i \in DOMAIN line /\ i > 1
    BY <1>2, <1>3, <2>1
  <2>3. ~IsCR(line[i]) => i + 1 \in DOMAIN line /\ line[i + 1] = Byte(line[i].frame, line[i].at + 1)
    BY <2>2 DEF LineWhole
  <2>4. ~IsPrefix(line[i]) => line[i - 1] = Byte(line[i].frame, line[i].at - 1)
    BY <2>2 DEF LineWhole
  <2>5. i + 1 \in DOMAIN line => k + 1 \in 1 .. n /\ line'[k + 1] = line[i + 1]
    BY <1>2, <2>1
  <2>6. k > 1 => line'[k - 1] = line[i - 1]
    <3>1. k > 1 => k - 1 \in 1 .. n /\ (k - 1) + 1 = i - 1
      BY <2>1
    <3>. QED
      BY <1>2, <3>1
  <2>. QED
    BY <2>2, <2>3, <2>4, <2>5, <2>6
<1>. QED
  BY <1>1, <1>2, <1>3, <1>4, <1>5

\* What holds of the line whatever the byte does: the next one belongs to the same
\* frame if it is inside one, and no other frame leaves the line.
Taking(b) ==
  /\ line # <<>> /\ 1 \in DOMAIN line /\ line[1] = b /\ Head(line) = b /\ isOpen
  /\ IF OfFrame(b) THEN Known(b.frame) /\ b.at <= Digits(b.frame) + 1 ELSE ~IsPrefix(b)
  /\ IF slot = "frame" THEN ReadByte(b) ELSE ReadPrefix(b)
  /\ line' \in Seq(Bytes) /\ UNCHANGED <<owed, stamps, sent, got, cut>>
  /\ LineOrdered' /\ LineWhole' /\ CutBegun'
  /\ Begun' => OfFrame(b) /\ b.frame = Head(line').frame /\ b.at < Digits(b.frame) + 1
  /\ OfFrame(b) /\ ~IsCR(b) => line' # <<>> /\ Head(line') = Byte(b.frame, b.at + 1)
  /\ \A f : OnLine(f) => OnLine(f)' \/ f = b.frame
  /\ OfFrame(b) => \A k \in DOMAIN line' : OfFrame(line'[k]) => Precedes(b, line'[k])
  /\ \A k \in DOMAIN line' : \E i \in DOMAIN line : line'[k] = line[i]

\* It holds of every byte that is taken.
LEMMA TakingByte == LineInv /\ TakeByte => \E b \in Bytes : Taking(b)
<1> SUFFICES ASSUME LineInv, TakeByte PROVE \E b \in Bytes : Taking(b)
  OBVIOUS
<1> USE DEF LineInv
<1>1. PICK b \in Bytes : b = line[1] /\ b = Head(line)
  BY NextByte DEF TakeByte
<1>2. /\ line # <<>> /\ 1 \in DOMAIN line /\ isOpen /\ line' = Tail(line)
      /\ IF slot = "frame" THEN ReadByte(b) ELSE ReadPrefix(b)
      /\ UNCHANGED <<owed, stamps, sent, got, cut>>
  BY <1>1, NextByte DEF TakeByte, history
<1>3. PICK n \in Nat : /\ Len(line) = n + 1 /\ DOMAIN line = 1 .. n + 1 /\ DOMAIN line' = 1 .. n
                       /\ \A k \in 1 .. n : line'[k] = line[k + 1] /\ k + 1 \in 1 .. n + 1
  BY <1>2, TakenByte
<1>4. line' \in Seq(Bytes) /\ LineOrdered' /\ LineWhole'
  BY <1>2, TakenByte
<1>5. IF OfFrame(b) THEN Known(b.frame) /\ b.at <= Digits(b.frame) + 1 ELSE ~IsPrefix(b)
  BY <1>1, <1>2 DEF LineOrdered
<1>6. CutBegun'
  BY <1>2, <1>3 DEF CutBegun, IsPrefix
<1>7. line' # <<>> => 1 \in 1 .. n /\ Head(line') = line[2] /\ line[2] \in Bytes
  <2>1. line' # <<>> => 1 \in 1 .. n /\ Head(line') = line'[1] /\ line'[1] \in Bytes
    BY <1>3, <1>4
  <2>2. 1 \in 1 .. n => line'[1] = line[2]
    BY <1>3
  <2>. QED
    BY <2>1, <2>2
<1>8. ASSUME Begun'
      PROVE  OfFrame(b) /\ b.frame = Head(line').frame /\ b.at < Digits(b.frame) + 1
  <2>1. PICK c \in Bytes : c = line[2] /\ c = Head(line') /\ 1 \in 1 .. n
    BY <1>7, <1>8 DEF Begun
  <2>2. 2 \in DOMAIN line /\ OfFrame(c) /\ ~IsPrefix(c)
    BY <1>3, <1>8, <2>1 DEF Begun, OfFrame, IsPrefix
  <2>3. b = Byte(c.frame, c.at - 1)
    <3>1. PICK i : i = 2
      OBVIOUS
    <3>2. i \in DOMAIN line /\ OfFrame(line[i]) /\ ~IsPrefix(line[i]) /\ i > 1 /\ i - 1 = 1
      <4>1. i > 1 /\ i - 1 = 1
        BY <3>1
      <4>2. line[i] = c /\ i \in DOMAIN line
        BY <2>1, <2>2, <3>1
      <4>. QED
        BY <2>2, <4>1, <4>2
    <3>3. line[i - 1] = Byte(line[i].frame, line[i].at - 1)
      BY <3>2 DEF LineWhole
    <3>. QED
      BY <1>1, <2>1, <3>1, <3>2, <3>3
  <2>4. c.at <= Digits(c.frame) + 1 /\ c.at \in Nat /\ Digits(c.frame) \in Nat
    BY <2>1, <2>2, ByteFacts, TextFacts DEF LineOrdered, OfFrame
  <2>5. b.frame = c.frame /\ b.at = c.at - 1
    BY <2>3, ByteFacts
  <2>. QED
    BY <2>1, <2>2, <2>4, <2>5 DEF OfFrame
<1>9. ASSUME OfFrame(b), ~IsCR(b)
      PROVE  line' # <<>> /\ Head(line') = Byte(b.frame, b.at + 1)
  <2>1. 2 \in DOMAIN line /\ line[2] = Byte(b.frame, b.at + 1)
    BY <1>1, <1>2, <1>9 DEF LineWhole
  <2>2. 1 \in DOMAIN line'
    BY <1>3, <2>1
  <2>. QED
    BY <1>7, <2>1, <2>2
<1>10. ASSUME NEW f, OnLine(f) PROVE OnLine(f)' \/ f = b.frame
  <2>1. PICK k \in DOMAIN line : line[k].frame = f
    BY <1>10 DEF OnLine
  <2>2. CASE k = 1
    BY <1>1, <2>1, <2>2
  <2>3. CASE k # 1
    <3>1. k - 1 \in 1 .. n /\ (k - 1) + 1 = k
      BY <1>3, <2>3
    <3>. QED
      BY <1>3, <2>1, <3>1 DEF OnLine
  <2>. QED
    BY <2>2, <2>3
<1>11. ASSUME OfFrame(b), NEW k \in DOMAIN line', OfFrame(line'[k])
       PROVE  Precedes(b, line'[k])
  <2>1. line'[k] = line[k + 1] /\ k + 1 \in DOMAIN line /\ 1 < k + 1
    BY <1>3
  <2>. QED
    BY <1>1, <1>2, <1>11, <2>1 DEF LineOrdered
<1>12. \A k \in DOMAIN line' : \E i \in DOMAIN line : line'[k] = line[i]
  BY <1>3
<1>. QED
  BY <1>1, <1>2, <1>4, <1>5, <1>6, <1>8, <1>9, <1>10, <1>11, <1>12 DEF Taking

\* Between frames: a prefix begins a frame that was not cut; any other byte of a
\* frame belongs to one that is lost already.
LEMMA TakePrefix == LineInv /\ TakeByte /\ slot # "frame" => LineInv'
<1> SUFFICES ASSUME LineInv, TakeByte, slot # "frame" PROVE LineInv'
  OBVIOUS
<1> USE DEF LineInv
<1>1. PICK b \in Bytes : Taking(b)
  BY TakingByte
<1>2. ReadPrefix(b) /\ isOpen /\ line # <<>> /\ Head(line) = b
  BY <1>1 DEF Taking
<1>3. UNCHANGED <<isOpen, RxQueue, owed, stamps, sent, got, cut>>
  BY <1>1, <1>2 DEF Taking, ReadPrefix
<1>4. Received' = Received
  BY <1>3 DEF Received
<1>5. LineOrdered' /\ LineWhole' /\ CutBegun' /\ line' \in Seq(Bytes)
  BY <1>1 DEF Taking
<1>6. ReceivedInOrder'
  BY <1>1, <1>3, <1>4 DEF ReceivedInOrder, Taking, Known, Lost, OfFrame
<1>7. CASE IsPrefix(b)
  <2>1. PICK f \in Frames : f = b.frame
    BY <1>1, <1>7 DEF Taking, OfFrame
  <2>2. slot' = "frame" /\ prefix' = f.type /\ buffer' = Padding(f.type)
    BY <1>2, <1>7, <2>1 DEF ReadPrefix
  <2>3. Digits(f) \in Nat /\ 1 \in 1 .. Digits(f) + 1 /\ f.type \in {"T", "t"} /\ b.at = 0
    BY <1>7, TextFacts, FrameFacts DEF IsPrefix
  <2>4. line' # <<>> /\ Head(line') = Byte(f, 1)
    <3>1. ~IsCR(b) /\ OfFrame(b)
      BY <2>1, <2>3 DEF IsCR, OfFrame
    <3>2. b.at + 1 = 1
      BY <2>3
    <3>. QED
      BY <1>1, <2>1, <3>1, <3>2 DEF Taking
  <2>5. buffer' = BytesBefore(f, 1) /\ buffer' \in Seq(Bytes) /\ Len(buffer') <= BufferSize
    <3>1. /\ BytesBefore(f, 1) \in Seq(Bytes) /\ BytesBefore(f, 1) = Padding(f.type)
          /\ Len(Padding(f.type)) \in {0, 1}
      BY <2>3, BufferFacts
    <3>2. \A n \in {0, 1} : n <= BufferSize
      BY SizesAssumption
    <3>. QED
      BY <2>2, <3>1, <3>2
  <2>6. f \notin cut
    BY <1>1, <1>7, <2>1 DEF CutBegun, Taking
  <2>7. TypeOK'
    BY <1>3, <1>5, <2>2, <2>3, <2>5 DEF TypeOK
  <2>8. SlotInFrame'
    <3>1. Reading(f)'
      BY <2>2, <2>3, <2>4, <2>5 DEF Reading
    <3>. QED
      BY <1>2, <1>3, <2>5, <2>6, <3>1 DEF SlotInFrame
  <2>9. NoneMissed'
    BY <2>2 DEF NoneMissed
  <2>10. AllReceived'
    <3>1. OnLine(f)'
      <4>1. 1 \in DOMAIN line' /\ line'[1] = Byte(f, 1)
        BY <1>5, <2>4
      <4>. QED
        BY <4>1, ByteFacts DEF OnLine
    <3>2. \A g : OnLine(g) => OnLine(g)'
      BY <1>1, <2>1, <3>1 DEF Taking
    <3>. QED
      BY <1>3, <1>4, <3>2 DEF AllReceived, Lost
  <2>. QED
    BY <1>5, <1>6, <2>7, <2>8, <2>9, <2>10
<1>8. CASE ~IsPrefix(b)
  <2>1. slot' = "between" /\ prefix' = prefix /\ buffer' = buffer
    BY <1>2, <1>8 DEF ReadPrefix, locals
  <2>2. OfFrame(b) => Lost(b.frame)
    BY <1>2, <1>8 DEF NoneMissed, Begun
  <2>3. TypeOK'
    BY <1>3, <1>5, <2>1 DEF TypeOK
  <2>4. SlotInFrame'
    BY <1>2, <1>3, <2>1 DEF SlotInFrame
  <2>5. NoneMissed'
    <3>1. Begun' => OfFrame(b) /\ b.frame = Head(line').frame
      BY <1>1 DEF Taking
    <3>. QED
      BY <1>3, <2>2, <3>1 DEF NoneMissed, Lost
  <2>6. AllReceived'
    <3>1. ASSUME NEW n \in DOMAIN sent
          PROVE  \/ OnLine(sent[n])' \/ Lost(sent[n])
                 \/ \E k \in DOMAIN Received : Received[k] = sent[n]
      <4>1. CASE OnLine(sent[n])
        <5>1. sent[n] \in Frames
          BY DEF TypeOK
        <5>2. PICK f : f = sent[n]
          OBVIOUS
        <5>3. OnLine(f)' \/ f = b.frame
          BY <1>1, <4>1, <5>2 DEF Taking
        <5>. QED
          BY <1>3, <2>2, <5>1, <5>2, <5>3 DEF OfFrame, OnLine
      <4>. QED
        BY <1>2, <4>1 DEF AllReceived
    <3>. QED
      BY <1>3, <1>4, <3>1 DEF AllReceived, Lost, OnLine
  <2>. QED
    BY <1>5, <1>6, <2>3, <2>4, <2>5, <2>6
<1>. QED
  BY <1>7, <1>8

\* In a frame: it grows in the buffer, is received at its end or does not fit.
LEMMA TakeInFrame == LineInv /\ TakeByte /\ slot = "frame" => LineInv'
<1> SUFFICES ASSUME LineInv, TakeByte, slot = "frame" PROVE LineInv'
  OBVIOUS
<1> USE DEF LineInv
<1>1. PICK b \in Bytes : Taking(b)
  BY TakingByte
<1>2. PICK f \in Frames \ cut : Reading(f)
  BY DEF SlotInFrame
<1>3. PICK j \in 1 .. Digits(f) + 1 :
        b = Byte(f, j) /\ prefix = f.type /\ buffer = BytesBefore(f, j)
  BY <1>1, <1>2 DEF Reading, Taking
<1>4. /\ b.frame = f /\ b.at = j /\ j \in Nat /\ Digits(f) \in Nat /\ f \in Frames
      /\ OfFrame(b) /\ (IsCR(b) <=> j = Digits(f) + 1) /\ b # Other
  <2>1. b.frame = f /\ b.at = j /\ j \in Nat /\ Digits(f) \in Nat
    BY <1>3, ByteFacts, TextFacts
  <2>. QED
    BY <2>1, ByteFacts DEF OfFrame, IsCR
<1>5. ReadByte(b) /\ isOpen /\ line # <<>> /\ Head(line) = b /\ Known(f)
  BY <1>1, <1>4 DEF Taking
<1>6. UNCHANGED <<owed, stamps, sent, got, cut>>
  BY <1>1 DEF Taking
<1>7. LineOrdered' /\ LineWhole' /\ CutBegun' /\ line' \in Seq(Bytes)
  BY <1>1 DEF Taking
<1>8. \A g : OnLine(g) => OnLine(g)' \/ g = f
  BY <1>1, <1>4 DEF Taking
<1>9. /\ Len(buffer) = Len(Padding(f.type)) + j - 1 /\ Len(Padding(f.type)) \in {0, 1}
      /\ Len(Line(f)) = Len(Padding(f.type)) + Digits(f)
      /\ Len(buffer) \in Nat /\ Len(buffer) <= BufferSize /\ BufferSize \in Nat
  <2>1. Len(BytesBefore(f, j)) = Len(Padding(f.type)) + j - 1 /\ Len(Padding(f.type)) \in {0, 1}
    BY <1>3, BufferFacts
  <2>2. PICK i : i = Digits(f) + 1
    OBVIOUS
  <2>3. i \in 1 .. Digits(f) + 1
    BY <1>4, <2>2
  <2>4. Len(BytesBefore(f, i)) = Len(Padding(f.type)) + i - 1 /\ BytesBefore(f, i) = Line(f)
    BY <2>2, <2>3, BufferFacts
  <2>. QED
    BY <1>3, <1>4, <2>1, <2>2, <2>4, SizesAssumption DEF SlotInFrame
<1>10. ASSUME UNCHANGED RxQueue PROVE Received' = Received /\ ReceivedInOrder'
  <2>1. Received' = Received
    BY <1>6, <1>10 DEF Received
  <2>. QED
    BY <1>1, <1>6, <2>1 DEF ReceivedInOrder, Taking, Known, Lost, OfFrame
<1>11. CASE Len(buffer) = BufferSize
  <2>1. /\ LeaveFrame /\ UNCHANGED RxQueue /\ isOpen' \in BOOLEAN
        /\ slot' = IF isOpen' THEN "between" ELSE "idle"
    BY <1>5, <1>11 DEF ReadByte
  <2>2. Lost(f)
    <3>1. ~(Len(Line(f)) < BufferSize)
      BY <1>4, <1>9, <1>11
    <3>. QED
      BY <3>1 DEF Lost, Fits
  <2>3. Received' = Received /\ ReceivedInOrder'
    BY <1>10, <2>1
  <2>4. TypeOK'
    <3>1. prefix' \in {"T", "t"} /\ buffer' \in Seq(Bytes) /\ slot' \in {"idle", "between", "frame"}
      BY <2>1 DEF LeaveFrame
    <3>. QED
      BY <1>6, <1>7, <2>1, <3>1 DEF TypeOK
  <2>5. SlotInFrame'
    BY <2>1 DEF SlotInFrame
  <2>6. NoneMissed'
    <3>1. Begun' => Head(line').frame = f
      BY <1>1, <1>4 DEF Taking
    <3>. QED
      BY <1>6, <2>2, <3>1 DEF NoneMissed, Lost
  <2>7. AllReceived'
    BY <1>5, <1>6, <1>8, <2>2, <2>3 DEF AllReceived, Lost
  <2>. QED
    BY <1>7, <2>3, <2>4, <2>5, <2>6, <2>7
<1>12. CASE Len(buffer) # BufferSize /\ IsCR(b)
  <2>1. /\ LeaveFrame /\ slot' = "between" /\ UNCHANGED isOpen
        /\ RxQueue' = RxQueue \o ParsePacket(prefix, buffer)
    BY <1>5, <1>12 DEF ReadByte
  <2>2. ParsePacket(prefix, buffer) = <<f>>
    <3>1. buffer = Line(f)
      <4>1. j = Digits(f) + 1
        BY <1>4, <1>12
      <4>. QED
        BY <1>3, <4>1, BufferFacts
    <3>. QED
      BY <1>3, <3>1, Parsed
  <2>3. ~Lost(f)
    <3>1. Len(Line(f)) < BufferSize
      BY <1>4, <1>9, <1>12
    <3>. QED
      BY <3>1 DEF Lost, Fits
  <2>4. PICK n \in Nat :
          /\ n = Len(Received) /\ DOMAIN Received = 1 .. n /\ DOMAIN Received' = 1 .. n + 1
          /\ \A k \in 1 .. n : Received'[k] = Received[k] /\ k \in 1 .. n + 1
          /\ Received'[n + 1] = f /\ RxQueue' \in Seq(Frames)
    <3>1. got \in Seq(Frames) /\ RxQueue \in Seq(Frames) /\ <<f>> \in Seq(Frames)
      BY DEF TypeOK
    <3>2. Received' = got \o (RxQueue \o <<f>>) /\ RxQueue' = RxQueue \o <<f>>
      BY <1>6, <2>1, <2>2 DEF Received
    <3>3. got \o (RxQueue \o <<f>>) = (got \o RxQueue) \o <<f>>
      BY <3>1, ConcatAssociative
    <3>4. PICK r \in Seq(Frames) : r = Received
      <4>1. got \o RxQueue \in Seq(Frames)
        BY <3>1, ConcatProperties
      <4>. QED
        BY <4>1 DEF Received
    <3>5. Received' = Append(r, f)
      <4>1. Append(r, f) = r \o <<f>>
        BY <3>4, AppendIsConcat
      <4>. QED
        BY <3>2, <3>3, <3>4, <4>1 DEF Received
    <3>6. /\ Len(r) \in Nat /\ DOMAIN r = 1 .. Len(r) /\ DOMAIN Append(r, f) = 1 .. Len(r) + 1
          /\ \A k \in 1 .. Len(r) : Append(r, f)[k] = r[k] /\ k \in 1 .. Len(r) + 1
          /\ Append(r, f)[Len(r) + 1] = f
      BY <3>4
    <3>7. RxQueue' \in Seq(Frames)
      BY <3>1, <3>2, ConcatProperties
    <3>8. PICK n \in Nat : n = Len(r)
      BY <3>6
    <3>. QED
      BY <3>4, <3>5, <3>6, <3>7, <3>8
  <2>5. \A k \in 1 .. n : Received[k].no < f.no
    BY <1>1, <1>4, <2>4 DEF ReceivedInOrder, Taking
  <2>6. \A k \in 1 .. n + 1 : k \in 1 .. n \/ k = n + 1
    BY <2>4
  <2>7. \A k \in DOMAIN line' : OfFrame(line'[k]) => f.no < line'[k].frame.no
    <3> SUFFICES ASSUME NEW k \in DOMAIN line', OfFrame(line'[k]), ~(f.no < line'[k].frame.no)
                 PROVE  FALSE
      OBVIOUS
    <3>1. line'[k].frame = f /\ j < line'[k].at
      BY <1>1, <1>4 DEF Taking, Precedes
    <3>2. line'[k].at <= Digits(f) + 1 /\ line'[k].at \in Nat
      <4>1. line'[k].at <= Digits(f) + 1
        BY <1>7, <3>1 DEF LineOrdered, OfFrame
      <4>2. line'[k] \in Bytes
        BY <1>7
      <4>. QED
        BY <4>1, <4>2, ByteFacts
    <3>. QED
      BY <1>4, <1>12, <3>1, <3>2
  <2>8. TypeOK'
    <3>1. prefix' \in {"T", "t"} /\ buffer' \in Seq(Bytes) /\ slot' \in {"idle", "between", "frame"}
      BY <2>1 DEF LeaveFrame
    <3>. QED
      BY <1>6, <1>7, <2>1, <2>4, <3>1 DEF TypeOK
  <2>9. SlotInFrame'
    BY <1>5, <2>1 DEF SlotInFrame
  <2>10. NoneMissed'
    BY <1>1, <1>4, <1>12 DEF NoneMissed, Taking
  <2>11. ReceivedInOrder'
    <3>1. \A k \in DOMAIN Received' : Known(Received[k])' /\ ~Lost(Received[k])'
      BY <1>2, <1>5, <1>6, <2>3, <2>4, <2>6 DEF ReceivedInOrder, Known, Lost
    <3>2. \A h, k \in DOMAIN Received' : h < k => Received'[h].no < Received'[k].no
      <4> SUFFICES ASSUME NEW h \in 1 .. n + 1, NEW k \in 1 .. n + 1, h < k
                   PROVE  Received'[h].no < Received'[k].no
        BY <2>4
      <4>1. h \in 1 .. n
        OBVIOUS
      <4>2. CASE k = n + 1
        BY <2>4, <2>5, <4>1, <4>2
      <4>3. CASE k \in 1 .. n
        BY <2>4, <4>1, <4>3 DEF ReceivedInOrder
      <4>. QED
        BY <2>6, <4>2, <4>3
    <3>3. \A h \in DOMAIN Received', k \in DOMAIN line' :
            OfFrame(line'[k]) => Received'[h].no < line'[k].frame.no
      <4> SUFFICES ASSUME NEW h \in 1 .. n + 1, NEW k \in DOMAIN line', OfFrame(line'[k])
                   PROVE  Received'[h].no < line'[k].frame.no
        BY <2>4
      <4>1. CASE h = n + 1
        BY <2>4, <2>7, <4>1
      <4>2. CASE h \in 1 .. n
        BY <1>1, <2>4, <4>2 DEF ReceivedInOrder, Taking
      <4>. QED
        BY <2>6, <4>1, <4>2
    <3>. QED
      BY <3>1, <3>2, <3>3 DEF ReceivedInOrder, OfFrame
  <2>12. AllReceived'
    <3>1. \A k \in DOMAIN Received : k \in DOMAIN Received' /\ Received'[k] = Received[k]
      BY <2>4
    <3>2. n + 1 \in DOMAIN Received' /\ Received'[n + 1] = f
      BY <2>4
    <3>. QED
      BY <1>5, <1>6, <1>8, <3>1, <3>2 DEF AllReceived, Lost
  <2>. QED
    BY <1>7, <2>8, <2>9, <2>10, <2>11, <2>12
<1>13. CASE Len(buffer) # BufferSize /\ ~IsCR(b)
  <2>1. buffer' = Append(buffer, b) /\ UNCHANGED <<isOpen, RxQueue, slot, prefix>>
    BY <1>5, <1>13 DEF ReadByte
  <2>2. Received' = Received /\ ReceivedInOrder'
    BY <1>10, <2>1
  <2>3. j <= Digits(f) /\ j + 1 \in 1 .. Digits(f) + 1
    BY <1>4, <1>13
  <2>4. line' # <<>> /\ Head(line') = Byte(f, j + 1)
    BY <1>1, <1>4, <1>13 DEF Taking
  <2>5. buffer' = BytesBefore(f, j + 1)
    BY <1>3, <2>1, <2>3, BufferFacts
  <2>6. buffer' \in Seq(Bytes) /\ Len(buffer') <= BufferSize
    <3>1. buffer \in Seq(Bytes)
      BY DEF TypeOK
    <3>2. buffer' \in Seq(Bytes) /\ Len(buffer') = Len(buffer) + 1
      BY <2>1, <3>1
    <3>. QED
      BY <1>9, <1>13, <3>2
  <2>7. TypeOK'
    BY <1>6, <1>7, <2>1, <2>6 DEF TypeOK
  <2>8. SlotInFrame'
    <3>1. prefix' = f.type
      BY <1>3, <2>1
    <3>2. Reading(f)'
      BY <2>3, <2>4, <2>5, <3>1 DEF Reading
    <3>. QED
      BY <1>2, <1>5, <1>6, <2>1, <2>6, <3>2 DEF SlotInFrame
  <2>9. NoneMissed'
    BY <2>1 DEF NoneMissed
  <2>10. AllReceived'
    <3>1. OnLine(f)'
      <4>1. 1 \in DOMAIN line' /\ line'[1] = Byte(f, j + 1)
        BY <1>7, <2>4
      <4>. QED
        BY <4>1, ByteFacts DEF OnLine
    <3>. QED
      BY <1>5, <1>6, <1>8, <2>2, <3>1 DEF AllReceived, Lost
  <2>. QED
    BY <1>7, <2>2, <2>7, <2>8, <2>9, <2>10
<1>. QED
  BY <1>11, <1>12, <1>13

-----------------------------------------------------------------------------
(* The theorems *)

\* Every step keeps the invariant.
LEMMA LineStep == LineInv /\ [Next]_vars => LineInv'
<1> SUFFICES ASSUME LineInv, [Next]_vars PROVE LineInv'
  OBVIOUS
<1>1. CASE AdapterSends
  BY <1>1, SendsLine
<1>2. CASE AdapterAnswers
  BY <1>2, AnswersLine
<1>3. CASE Open
  BY <1>3, OpenLine
<1>4. CASE Close
  BY <1>4, CloseLine
<1>5. CASE Write \/ UNCHANGED vars
  BY <1>5, WriteLine
<1>6. CASE Read
  BY <1>6, ReadLine
<1>7. CASE TakeByte
  BY <1>7, TakePrefix, TakeInFrame
<1>8. CASE SlotEnds
  BY <1>8, EndsLine
<1>. QED
  BY <1>1, <1>2, <1>3, <1>4, <1>5, <1>6, <1>7, <1>8 DEF Next

\* The invariant holds in every state.
LEMMA LineInvariant == Spec => []LineInv
BY InitLine, LineStep, PTL DEF Spec

\* Types; ParsePacket never makes one frame of the bytes of two.
THEOREM LineTypeCorrect == Spec => []TypeOK
<1>1. LineInv => TypeOK
  BY DEF LineInv
<1>. QED
  BY <1>1, LineInvariant, PTL

\* Whatever the slot is given at a time and whatever was on the line when the port
\* was opened, what is received are frames that were sent, whole, once, in order.
THEOREM NoFrameInvented == Spec => []NothingInvented
<1>1. LineInv => NothingInvented
  BY DEF LineInv, ReceivedInOrder, Known, NothingInvented
<1>. QED
  BY <1>1, LineInvariant, PTL

\* A frame that has left the line while the port is open was received, unless a
\* readyRead came in the middle of it or it is longer than the buffer; never both.
THEOREM LossesAccounted == Spec => []LossAccounted
<1>1. LineInv => LossAccounted
  BY DEF LineInv, ReceivedInOrder, AllReceived, Lost, LossAccounted
<1>. QED
  BY <1>1, LineInvariant, PTL
=============================================================================
