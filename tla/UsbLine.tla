------------------------------ MODULE UsbLine ------------------------------
(***************************************************************************)
(* The CAN-USB-M port (App/USBCANM2.cpp): an adapter on a serial line      *)
(* sends every frame of the bus as a line of text, a prefix, digits and a  *)
(* carriage return, and short answers to commands.  The port takes the     *)
(* bytes apart in the slot for readyRead, one at a time, until it has all  *)
(* that Qt had read before the signal.  The slot runs in the worker thread *)
(* between two cycles: the worker does nothing else meanwhile, but the     *)
(* adapter may.                                                            *)
(*                                                                         *)
(* A byte is known by the frame it belongs to and its place in it.  The    *)
(* hexadecimal conversions are in Packets.                                 *)
(***************************************************************************)
EXTENDS Integers, Sequences

CONSTANTS BufferSize,  \* bytes of the buffer for a line: 26 in the code
          Dlcs,        \* data lengths of the frames of the bus
          Stamps,      \* what CANTimestamp may be
          MaxFrames,   \* bound: frames of a session
          MaxOwed      \* bound: answers that the adapter owes at a time

ASSUME SizesAssumption == BufferSize \in Nat \ {0} /\ Dlcs \subseteq 0 .. 8
ASSUME StampsAssumption == Stamps \subseteq BOOLEAN
ASSUME BoundsAssumption == MaxFrames \in Nat /\ MaxOwed \in Nat

VARIABLES isOpen,
          RxQueue,
          slot,     \* "idle", or the loop that reads: "between" frames or in a "frame"
          prefix,   \* locals of the slot: which kind of frame,
          buffer,   \*   and what it has of it
          line,     \* bytes that the adapter has sent and Qt has not read
          owed,     \* commands the adapter has not answered
          stamps,   \* does it put a timestamp behind the data?
          sent,     \* history: frames put on the line since the port was opened
          got,      \*   those that Read gave to the worker
          cut       \*   and those that a readyRead came in the middle of

locals == <<prefix, buffer>>
history == <<sent, got, cut>>
vars == <<isOpen, RxQueue, slot, locals, line, owed, stamps, history>>

(* Definitions named <Definition>_<Fault> are seeded faults, as in Transporter. *)

-----------------------------------------------------------------------------
(* Frames and their bytes *)

\* Extended and standard frames, by their number in the session.
Frames == [no : 1 .. MaxFrames, type : {"T", "t"}, dlc : Dlcs, stamped : Stamps]

\* Digits of the identifier on the line, of everything between prefix and end.
IdDigits(type) == IF type = "T" THEN 8 ELSE 3
Digits(f) == IdDigits(f.type) + 1 + 2 * f.dlc + (IF f.stamped THEN 4 ELSE 0)

MaxDigits == 29
Byte(f, k) == [frame |-> f, at |-> k]
Text(f) == [k \in 1 .. Digits(f) + 2 |-> Byte(f, k - 1)]

\* A byte that belongs to no frame: an answer on the line, and in the buffer
\* the '0' that the slot puts before the identifier of a standard frame.
Garbage == [no |-> 0, type |-> "T", dlc |-> 0, stamped |-> FALSE]
Other == Byte(Garbage, MaxDigits + 2)

IsPrefix(b) == b.at = 0
IsCR(b) == b.at = Digits(b.frame) + 1
Inside(b) == b # Other /\ ~IsPrefix(b)
Earlier == {[Garbage EXCEPT !.dlc = d] : d \in Dlcs}
Bytes == [frame : Frames \cup Earlier, at : 0 .. MaxDigits + 1] \cup {Other}

\* What the slot should have in its buffer when it meets the end of the frame.
Padding(type) == IF type = "t" THEN <<Other>> ELSE <<>>
Line(f) == Padding(f.type) \o [k \in 1 .. Digits(f) |-> Byte(f, k)]
Fits(f) == Len(Line(f)) < BufferSize

-----------------------------------------------------------------------------
Init ==
  /\ isOpen = FALSE /\ RxQueue = <<>> /\ line = <<>> /\ owed = 0 /\ stamps \in Stamps
  /\ slot = "idle" /\ prefix = "T" /\ buffer = <<>>
  /\ sent = <<>> /\ got = <<>> /\ cut = {}

(* The adapter *)

AdapterSends ==
  /\ isOpen /\ Len(sent) < MaxFrames
  /\ \E type \in {"T", "t"}, dlc \in Dlcs :
       LET f == [no |-> Len(sent) + 1, type |-> type, dlc |-> dlc, stamped |-> stamps] IN
         /\ sent' = Append(sent, f) /\ line' = line \o Text(f)
  /\ UNCHANGED <<isOpen, RxQueue, slot, locals, owed, stamps, got, cut>>

\* Bound: one answer at a time on the line.
AdapterAnswers ==
  /\ isOpen /\ owed > 0 /\ Other \notin {line[k] : k \in DOMAIN line}
  /\ owed' = owed - 1 /\ line' = Append(line, Other)
  /\ UNCHANGED <<isOpen, RxQueue, slot, locals, stamps, history>>

\* After a crash, or a "C" that it has not read yet, the adapter may be in the
\* middle of a frame when the port is opened. Bound: it is an extended one.
Remainders ==
  {<<>>} \cup UNION {{SubSeq(Text(f), k, Digits(f) + 2) : k \in 2 .. Digits(f) + 2} :
                      f \in Earlier}

(* The worker, outside the slot *)

\* CreateUSBCANM2 and Open; the initial commands set the adapter up.
Open ==
  /\ ~isOpen /\ isOpen' = TRUE
  /\ RxQueue' = <<>> /\ line' \in Remainders /\ owed' = MaxOwed /\ stamps' \in Stamps
  /\ sent' = <<>> /\ got' = <<>> /\ cut' = {} /\ UNCHANGED <<slot, locals>>

\* Close, or the end of the process; what Qt has buffered goes.
Close ==
  /\ isOpen /\ slot = "idle" /\ isOpen' = FALSE /\ line' = <<>> /\ owed' = 0
  /\ UNCHANGED <<RxQueue, slot, locals, stamps, history>>

Write ==
  /\ isOpen /\ slot = "idle" /\ owed < MaxOwed /\ owed' = owed + 1
  /\ UNCHANGED <<isOpen, RxQueue, slot, locals, line, stamps, history>>

ReadUpTo(n) ==
  /\ isOpen /\ slot = "idle" /\ n \in 1 .. Len(RxQueue)
  /\ got' = got \o SubSeq(RxQueue, 1, n) /\ RxQueue' = SubSeq(RxQueue, n + 1, Len(RxQueue))
  /\ UNCHANGED <<isOpen, slot, locals, line, owed, stamps, sent, cut>>

Read_DropsRest ==
  /\ isOpen /\ slot = "idle" /\ RxQueue # <<>>
  /\ got' = Append(got, Head(RxQueue)) /\ RxQueue' = <<>>
  /\ UNCHANGED <<isOpen, slot, locals, line, owed, stamps, sent, cut>>

\* The worker calls Read for one packet at a time, until there is none or it has
\* 256, and no slot runs between the calls: they are one step. That it may also
\* stop before the queue is empty only adds behaviours.
Read == \E n \in 1 .. MaxFrames : ReadUpTo(n)

-----------------------------------------------------------------------------
(* HandleReadyRead: what a byte does *)

\* ParsePacket takes the length from the digit behind the identifier. It has
\* the frame if that is the digit of its length and the rest is in its place.
HeaderLen(type) == IF type = "T" THEN 8 ELSE 4
ParsePacket(type, b) ==
  LET h == HeaderLen(type)
      f == b[h + 1].frame
      need == h + 1 + 2 * f.dlc
  IN IF Len(b) < h + 1 THEN <<>>
     ELSE IF Len(b) < need THEN <<>>
     ELSE IF /\ b[h + 1] = Byte(f, IdDigits(f.type) + 1)
             /\ SubSeq(b, 1, need) = SubSeq(Line(f), 1, need) THEN <<f>> ELSE <<Garbage>>

ReadPrefix_NoPadding(b) ==
  /\ IF IsPrefix(b)
       THEN slot' = "frame" /\ prefix' = b.frame.type /\ buffer' = <<>>
       ELSE slot' = "between" /\ UNCHANGED locals
  /\ UNCHANGED <<isOpen, RxQueue>>

\* Everything but the two prefixes is passed over.
ReadPrefix(b) ==
  /\ IF IsPrefix(b)
       THEN slot' = "frame" /\ prefix' = b.frame.type /\ buffer' = Padding(b.frame.type)
       ELSE slot' = "between" /\ UNCHANGED locals
  /\ UNCHANGED <<isOpen, RxQueue>>

\* The loop ends at the carriage return; its bound is tested when the byte has
\* been read: the byte behind the buffer is written, and dropped. What it
\* overwrites may end the process.
LeaveFrame == prefix' = "T" /\ buffer' = <<>>
ReadByte_Shorter(b) ==
  \/ /\ Len(buffer) = BufferSize - 1 /\ LeaveFrame /\ UNCHANGED RxQueue
     /\ isOpen' \in BOOLEAN /\ slot' = IF isOpen' THEN "between" ELSE "idle"
  \/ /\ Len(buffer) # BufferSize - 1 /\ IsCR(b) /\ LeaveFrame /\ slot' = "between"
     /\ RxQueue' = RxQueue \o ParsePacket(prefix, buffer) /\ UNCHANGED isOpen
  \/ /\ Len(buffer) # BufferSize - 1 /\ ~IsCR(b) /\ buffer' = Append(buffer, b)
     /\ UNCHANGED <<isOpen, RxQueue, slot, prefix>>
ReadByte(b) ==
  \/ /\ Len(buffer) = BufferSize /\ LeaveFrame /\ UNCHANGED RxQueue
     /\ isOpen' \in BOOLEAN /\ slot' = IF isOpen' THEN "between" ELSE "idle"
  \/ /\ Len(buffer) # BufferSize /\ IsCR(b) /\ LeaveFrame /\ slot' = "between"
     /\ RxQueue' = RxQueue \o ParsePacket(prefix, buffer) /\ UNCHANGED isOpen
  \/ /\ Len(buffer) # BufferSize /\ ~IsCR(b) /\ buffer' = Append(buffer, b)
     /\ UNCHANGED <<isOpen, RxQueue, slot, prefix>>

\* The slot begins with the first byte that Qt has, and goes on with the next.
TakeByte ==
  /\ isOpen /\ line # <<>> /\ line' = Tail(line)
  /\ IF slot = "frame" THEN ReadByte(Head(line)) ELSE ReadPrefix(Head(line))
  /\ UNCHANGED <<owed, stamps, history>>

\* It returns when Qt has no more. Inside a frame read returns 0 then, and what
\* the slot had of the frame is dropped.
SlotEnds ==
  /\ slot # "idle" /\ slot' = "idle" /\ LeaveFrame
  /\ cut' = IF line # <<>> /\ Inside(Head(line)) THEN cut \cup {Head(line).frame} ELSE cut
  /\ UNCHANGED <<isOpen, RxQueue, line, owed, stamps, sent, got>>

Next ==
  \/ AdapterSends \/ AdapterAnswers
  \/ Open \/ Close \/ Write \/ Read \/ TakeByte \/ SlotEnds
Spec == Init /\ [][Next]_vars

\* In every cycle the worker processes the events of the line, for which Qt has
\* then read what there is, to their end, and reads packets.
FairSpec == Spec /\ WF_vars(TakeByte) /\ WF_vars(SlotEnds) /\ SF_vars(Read)

-----------------------------------------------------------------------------
\* Type correctness; nothing that was parsed comes from two frames.
TypeOK ==
  /\ isOpen \in BOOLEAN /\ stamps \in Stamps /\ owed \in 0 .. MaxOwed
  /\ slot \in {"idle", "between", "frame"} /\ prefix \in {"T", "t"} /\ buffer \in Seq(Bytes)
  /\ line \in Seq(Bytes) /\ cut \subseteq Frames \cup Earlier
  /\ RxQueue \in Seq(Frames) /\ sent \in Seq(Frames) /\ got \in Seq(Frames)

\* Wherever the bytes are cut, whatever is dropped, and even if the port is
\* opened in the middle of a frame: what is received are frames that were sent
\* since, whole, each once and in their order.
Received == got \o RxQueue
NothingInvented ==
  /\ \A k \in DOMAIN Received : \E n \in DOMAIN sent : Received[k] = sent[n]
  /\ \A j, k \in DOMAIN Received : j < k => Received[j].no < Received[k].no

\* The frames that are lost are exactly those that a readyRead came in the
\* middle of and those that, with their timestamp, do not fit into the buffer.
OnLine(f) == \E k \in DOMAIN line : line[k].frame = f
LossAccounted ==
  \A n \in DOMAIN sent :
    isOpen /\ ~OnLine(sent[n]) =>
      ((\E k \in DOMAIN Received : Received[k] = sent[n]) <=> sent[n] \notin cut /\ Fits(sent[n]))

\* Every frame that fits and that no readyRead comes in the middle of reaches the
\* worker, unless the port is closed.
FramesReceived ==
  \A n \in 1 .. MaxFrames :
    Len(sent) >= n ~>
      \/ \E k \in DOMAIN got : got[k].no = n
      \/ n \in DOMAIN sent /\ (sent[n] \in cut \/ ~Fits(sent[n]))
      \/ ~isOpen
=============================================================================
