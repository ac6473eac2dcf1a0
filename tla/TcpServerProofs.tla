-------------------------- MODULE TcpServerProofs --------------------------
(***************************************************************************)
(* Proofs about TcpServer, for any set of sockets, any limit and any       *)
(* number of frames, wherever TCP cuts the streams.                        *)
(***************************************************************************)
EXTENDS TcpServer, FiniteSetTheorems, SequenceTheorems, TLAPS

-----------------------------------------------------------------------------
(* Items and sequences *)

\* What the handlers write are items.
LEMMA ItemTypes ==
  /\ \A pieces \in Seq(Pieces) : Raw(pieces) \in ItemSet
  /\ \A f \in Frames : Wrapped(f) \in ItemSet /\ Answer(f) \in ItemSet
  /\ \A packet \in Packets : Report(packet) \in ItemSet /\ LogLine(packet) \in ItemSet
  BY DEF Raw, Wrapped, Answer, Report, LogLine, ItemSet

LoopSet == [item : ItemSet, skip : Sockets \cup {Nobody}]

\* So are the loops that write them.
LEMMA LoopTypes ==
  ASSUME NEW item \in ItemSet, NEW skip \in Sockets \cup {Nobody}
  PROVE  /\ Loop(item, skip) \in LoopSet
         /\ Loop(item, skip).item = item /\ Loop(item, skip).skip = skip
  BY DEF Loop, LoopSet

\* The two ends of a sequence of pieces, loops or packets.
LEMMA Ends ==
  ASSUME NEW S, NEW s \in Seq(S), NEW n \in 0 .. Len(s)
  PROVE  /\ SubSeq(s, 1, n) \in Seq(S) /\ SubSeq(s, n + 1, Len(s)) \in Seq(S)
         /\ \A k \in DOMAIN SubSeq(s, 1, n) : k \in DOMAIN s /\ SubSeq(s, 1, n)[k] = s[k]
         /\ \A k \in DOMAIN SubSeq(s, n + 1, Len(s)) :
              k + n \in DOMAIN s /\ SubSeq(s, n + 1, Len(s))[k] = s[k + n]
  OBVIOUS

\* The loops of OnEvents.
LEMMA ReportLoops ==
  ASSUME NEW packets \in Seq(Packets)
  PROVE  /\ Loops(packets) \in Seq(LoopSet)
         /\ Len(Loops(packets)) = 2 * Len(packets)
         /\ \A k \in DOMAIN Loops(packets) :
              /\ Loops(packets)[k].skip = Nobody
              /\ \E packet \in Packets :
                   /\ packet \in {packets[i] : i \in DOMAIN packets}
                   /\ Loops(packets)[k].item \in {Report(packet), LogLine(packet)}
<1> DEFINE n == 2 * Len(packets)
           packet(i) == packets[(i + 1) \div 2]
           item(i) == IF i % 2 = 1 THEN Report(packet(i)) ELSE LogLine(packet(i))
<1>1. Len(packets) \in Nat /\ n \in Nat
  OBVIOUS
<1>2. \A i \in 1 .. n :
        packet(i) \in Packets /\ packet(i) \in {packets[j] : j \in DOMAIN packets}
  <2>1. \A i \in 1 .. n : (i + 1) \div 2 \in 1 .. Len(packets)
    BY <1>1, Z3
  <2>. QED
    BY <2>1
<1>3. \A i \in 1 .. n : item(i) \in ItemSet
  BY <1>2, ItemTypes
<1> HIDE DEF packet
<1>4. Loops(packets) = [i \in 1 .. n |-> Loop(item(i), Nobody)]
  BY Zenon DEF Loops, packet
<1>5. \A i \in 1 .. n : item(i) \in {Report(packet(i)), LogLine(packet(i))}
  OBVIOUS
<1> HIDE DEF n, item
<1>6. \A i \in 1 .. n : /\ Loop(item(i), Nobody) \in LoopSet
                        /\ Loop(item(i), Nobody).item = item(i)
                        /\ Loop(item(i), Nobody).skip = Nobody
  BY <1>3, LoopTypes
<1>7. Loops(packets) \in Seq(LoopSet) /\ Len(Loops(packets)) = n
  BY <1>1, <1>4, <1>6
<1>. QED
  BY <1>2, <1>4, <1>5, <1>6, <1>7 DEF n

-----------------------------------------------------------------------------
(* Types *)

\* The parts of TypeOK that different actions disturb.
ClientsTyped ==
  /\ Assocs \subseteq Sockets /\ Cardinality(Assocs) <= ASSOC_MAXIMUM
  /\ asm \in [Sockets -> {NoHead} \cup {<<piece>> : piece \in Pieces}]
  /\ wire \in [Sockets -> Seq(Pieces)] /\ out \in [Sockets -> Seq(ItemSet)]
PortTyped ==
  /\ port \in {"off", "opening", "on"}
  /\ txq \in Seq(Frames) /\ rxq \in Seq(BusFrames) /\ arrived \in 0 .. MaxRx
HandlerTyped ==
  /\ todo \in Seq(LoopSet) /\ it \in Sockets \cup {Nobody}
  /\ from \in Sockets \cup {Nobody} /\ chunk \in Seq(Pieces)
HistoryTyped == missed \in [Sockets -> SUBSET Frames]

\* TypeOK is these parts.
LEMMA TypeParts ==
  TypeOK <=> /\ ClientsTyped /\ PortTyped /\ HandlerTyped /\ HistoryTyped
             /\ made \in 0 .. MaxFrames
  BY DEF TypeOK, ClientsTyped, PortTyped, HandlerTyped, HistoryTyped, LoopSet

\* And so it is in the next state.
LEMMA TypePartsNext ==
  TypeOK' <=> /\ ClientsTyped' /\ PortTyped' /\ HandlerTyped' /\ HistoryTyped'
              /\ (made \in 0 .. MaxFrames)'
  BY DEF TypeOK, ClientsTyped, PortTyped, HandlerTyped, HistoryTyped, LoopSet

\* One connection more or less.
LEMMA Count ==
  ASSUME Assocs \subseteq Sockets, Cardinality(Assocs) <= ASSOC_MAXIMUM
  PROVE  /\ \A s : Cardinality(Assocs \ {s}) <= ASSOC_MAXIMUM
         /\ \A s \in Sockets : Cardinality(Assocs) # ASSOC_MAXIMUM
              => Cardinality(Assocs \cup {s}) <= ASSOC_MAXIMUM
<1>1. IsFiniteSet(Assocs)
  BY SocketsAssumption, FS_Subset
<1>2. Cardinality(Assocs) \in Nat
  BY <1>1, FS_CardinalityType
<1>3. \A n \in Nat : n <= ASSOC_MAXIMUM =>
        /\ n - 1 <= ASSOC_MAXIMUM
        /\ n # ASSOC_MAXIMUM => n + 1 <= ASSOC_MAXIMUM
  BY BoundsAssumption
<1>4. /\ Cardinality(Assocs) - 1 <= ASSOC_MAXIMUM
      /\ Cardinality(Assocs) # ASSOC_MAXIMUM => Cardinality(Assocs) + 1 <= ASSOC_MAXIMUM
  BY <1>2, <1>3, Zenon
<1>5. \A s : Cardinality(Assocs \ {s}) = IF s \in Assocs THEN Cardinality(Assocs) - 1
                                                        ELSE Cardinality(Assocs)
  BY <1>1, FS_RemoveElement, Zenon
<1>6. \A s : Cardinality(Assocs \cup {s}) = IF s \in Assocs THEN Cardinality(Assocs)
                                                           ELSE Cardinality(Assocs) + 1
  BY <1>1, FS_AddElement, Zenon
<1>. QED
  BY <1>4, <1>5, <1>6, Zenon

\* A connection that ends leaves the others well typed.
LEMMA ForgetTyped ==
  ASSUME ClientsTyped, NEW s \in Sockets, Forget(s)
  PROVE  ClientsTyped'
<1>2. Cardinality(Assocs \ {s}) <= ASSOC_MAXIMUM
  BY Count DEF ClientsTyped
<1>. QED
  BY <1>2 DEF ClientsTyped, Forget

\* So does an answer, whether or not the client is still there.
LEMMA AnswerTyped ==
  ASSUME ClientsTyped, NEW f \in Frames, SendToUI(f), from \in Sockets \cup {Nobody}
  PROVE  /\ Assocs' \subseteq Sockets /\ Cardinality(Assocs') <= ASSOC_MAXIMUM
         /\ wire' \in [Sockets -> Seq(Pieces)] /\ out' \in [Sockets -> Seq(ItemSet)]
         /\ todo' = todo
<1>2. Cardinality(Assocs \ {from}) <= ASSOC_MAXIMUM
  BY Count DEF ClientsTyped
<1>3. Answer(f) \in ItemSet
  BY ItemTypes
<1>4. CASE from \in Assocs /\ out' = [out EXCEPT ![from] = Append(@, Answer(f))]
           /\ UNCHANGED <<Assocs, wire>>
  <2>1. from \in Sockets /\ out[from] \in Seq(ItemSet)
    BY <1>4 DEF ClientsTyped
  <2>2. Append(out[from], Answer(f)) \in Seq(ItemSet)
    BY <1>3, <2>1
  <2>. QED
    BY <1>4, <2>1, <2>2 DEF ClientsTyped, SendToUI
<1>5. CASE from \in Assocs /\ Assocs' = Assocs \ {from}
           /\ wire' = [wire EXCEPT ![from] = <<>>] /\ out' = [out EXCEPT ![from] = <<>>]
  BY <1>2, <1>5 DEF ClientsTyped, SendToUI
<1>6. CASE UNCHANGED <<Assocs, wire, out>>
  BY <1>6 DEF ClientsTyped, SendToUI
<1>. QED
  BY <1>4, <1>5, <1>6 DEF SendToUI

\* Whatever a packet makes of the port is well typed.
LEMMA PortCallTyped ==
  ASSUME PortTyped, NEW f \in Frames, UNCHANGED arrived,
         WritePacket(f) \/ RestartPort \/ StopPort \/ PortUntouched
  PROVE  PortTyped'
<1>1. CASE WritePacket(f)
  BY <1>1 DEF PortTyped, WritePacket
<1>2. CASE RestartPort \/ StopPort
  <2>1. txq' = <<>> /\ rxq' = <<>> /\ port' \in {"off", "opening", "on"}
    BY <1>2 DEF RestartPort, StopPort
  <2>. QED
    BY <2>1 DEF PortTyped
<1>3. CASE PortUntouched
  BY <1>3 DEF PortTyped, PortUntouched
<1>. QED
  BY <1>1, <1>2, <1>3

\* A control packet answers its client, at most.
LEMMA ControlPacketEffects ==
  ASSUME NEW f \in Frames, ControlPacket(f)
  PROVE  /\ WritePacket(f) \/ RestartPort \/ StopPort \/ PortUntouched
         /\ SendToUI(f) \/ NoAnswer
  BY DEF ControlPacket

\* What connections missed are frames.
LEMMA HistoryStep ==
  ASSUME HistoryTyped, [Next]_vars
  PROVE  HistoryTyped'
<1>1. ASSUME NEW s \in Sockets, OnNewConnection(s)
      PROVE  HistoryTyped'
  BY <1>1 DEF OnNewConnection, Admit, Begun, HistoryTyped
<1>2. ASSUME NEW s, missed' = [missed EXCEPT ![s] = {}] \/ missed' = missed
      PROVE  HistoryTyped'
  BY <1>2 DEF HistoryTyped
<1>3. ASSUME NEW f, SendToUI(f) \/ NoAnswer \/ DataPacket(f)
      PROVE  HistoryTyped'
  BY <1>2, <1>3 DEF SendToUI, NoAnswer, DataPacket
<1>4. CASE Parse
  BY <1>3, <1>4 DEF Parse, ControlPacket
<1>5. CASE WriteNext
  BY <1>2, <1>5 DEF WriteNext, Turn, Forget
<1>6. ASSUME NEW s \in Sockets,
             Disconnected(s) \/ ReadyRead(s) \/ \E kind \in Kinds : ClientSends(s, kind)
      PROVE  HistoryTyped'
  BY <1>2, <1>6 DEF Disconnected, Forget, ReadyRead, Take, ClientSends
<1>7. CASE PortOpens \/ FrameArrives \/ OnEvents \/ LoopEnds \/ UNCHANGED vars
  BY <1>2, <1>7 DEF PortOpens, FrameArrives, OnEvents, LoopEnds, vars
<1>. QED
  BY <1>1, <1>4, <1>5, <1>6, <1>7 DEF Next

\* Type correctness is preserved by every step.
LEMMA TypeStep == TypeOK /\ [Next]_vars => TypeOK'
<1> SUFFICES ASSUME ClientsTyped, PortTyped, HandlerTyped, made \in 0 .. MaxFrames,
                    [Next]_vars
             PROVE  ClientsTyped' /\ PortTyped' /\ HandlerTyped' /\ made' \in 0 .. MaxFrames
  BY TypeParts, TypePartsNext, HistoryStep
<1>1. ASSUME NEW s \in Sockets, OnNewConnection(s)
      PROVE  ClientsTyped' /\ UNCHANGED <<portVars, handler, made>>
  <2>2. Cardinality(Assocs \cup {s}) <= ASSOC_MAXIMUM
    BY <1>1, Count DEF ClientsTyped, OnNewConnection
  <2>. QED
    BY <1>1, <2>2 DEF ClientsTyped, OnNewConnection, Admit
<1>2. ASSUME NEW s \in Sockets, Disconnected(s)
      PROVE  ClientsTyped' /\ UNCHANGED <<portVars, handler, made>>
  BY <1>2, ForgetTyped DEF Disconnected
<1>3. ASSUME NEW s \in Sockets, ReadyRead(s)
      PROVE  ClientsTyped' /\ HandlerTyped' /\ UNCHANGED <<portVars, made>>
  <2>1. PICK n \in 1 .. Len(wire[s]) : Take(s, n) /\ todo' = <<Loop(Raw(chunk'), s)>>
    BY <1>3 DEF ReadyRead, Arrived
  <2>2. wire[s] \in Seq(Pieces) /\ n \in 0 .. Len(wire[s])
    BY <2>1 DEF ClientsTyped
  <2>3. /\ SubSeq(wire[s], 1, n) \in Seq(Pieces)
        /\ SubSeq(wire[s], n + 1, Len(wire[s])) \in Seq(Pieces)
    BY <2>2, Ends
  <2>4. chunk' \in Seq(Pieces) /\ ClientsTyped'
    BY <2>1, <2>3 DEF Take, ClientsTyped
  <2>5. Loop(Raw(chunk'), s) \in LoopSet
    BY <2>4, ItemTypes, LoopTypes
  <2>. QED
    BY <2>1, <2>4, <2>5 DEF Take, HandlerTyped
<1>4. ASSUME NEW s \in Sockets, NEW kind \in Kinds, ClientSends(s, kind)
      PROVE  ClientsTyped' /\ made' \in 0 .. MaxFrames /\ UNCHANGED <<portVars, handler>>
  <2> DEFINE f == [no |-> made + 1, from |-> s, kind |-> kind]
  <2>1. f \in Frames
    BY <1>4, BoundsAssumption DEF ClientSends, Frames
  <2>2. HeadOf(f) \in Pieces /\ TailOf(f) \in Pieces
    BY <2>1 DEF HeadOf, TailOf, Pieces
  <2>3. wire' = [wire EXCEPT ![s] = @ \o <<HeadOf(f), TailOf(f)>>]
    BY <1>4 DEF ClientSends
  <2> HIDE DEF f
  <2>4. wire' \in [Sockets -> Seq(Pieces)]
    BY <2>2, <2>3 DEF ClientsTyped
  <2>. QED
    BY <1>4, <2>4, BoundsAssumption DEF ClientSends, ClientsTyped
<1>5. ASSUME PortOpens
      PROVE  PortTyped' /\ UNCHANGED <<Assocs, asm, wire, out, handler, made>>
  BY <1>5 DEF PortOpens, PortTyped
<1>6. ASSUME FrameArrives
      PROVE  PortTyped' /\ UNCHANGED <<Assocs, asm, wire, out, handler, made>>
  <2>1. BusFrame(arrived + 1) \in BusFrames /\ arrived + 1 \in 0 .. MaxRx
    BY <1>6, BoundsAssumption DEF FrameArrives, PortTyped, BusFrames
  <2>. QED
    BY <1>6, <2>1 DEF FrameArrives, PortTyped
<1>7. ASSUME OnEvents
      PROVE  PortTyped' /\ HandlerTyped' /\ UNCHANGED <<Assocs, asm, wire, out, made>>
  <2>1. PICK n \in 0 .. Len(rxq), m \in 0 .. Len(txq) :
          /\ todo' = Loops(SubSeq(rxq, 1, n) \o SubSeq(txq, 1, m)) /\ it' = Nobody
          /\ rxq' = SubSeq(rxq, n + 1, Len(rxq)) /\ txq' = SubSeq(txq, m + 1, Len(txq))
    BY <1>7 DEF OnEvents
  <2>2. SubSeq(rxq, 1, n) \in Seq(BusFrames) /\ rxq' \in Seq(BusFrames)
    BY <2>1, Ends DEF PortTyped
  <2>3. SubSeq(txq, 1, m) \in Seq(Frames) /\ txq' \in Seq(Frames)
    BY <2>1, Ends DEF PortTyped
  <2>4. SubSeq(rxq, 1, n) \o SubSeq(txq, 1, m) \in Seq(Packets)
    BY <2>2, <2>3 DEF Packets
  <2>5. todo' \in Seq(LoopSet)
    BY <2>1, <2>4, ReportLoops
  <2>. QED
    BY <1>7, <2>1, <2>2, <2>3, <2>5 DEF OnEvents, PortTyped, HandlerTyped
<1>8. ASSUME WriteNext
      PROVE  ClientsTyped' /\ HandlerTyped' /\ UNCHANGED <<portVars, made>>
  <2>1. PICK s \in Assocs : IsLowest(s, Above) /\ Turn(s)
    BY <1>8 DEF WriteNext
  <2>2. s \in Sockets /\ todo # <<>>
    BY <1>8, <2>1 DEF ClientsTyped, WriteNext
  <2>3. Head(todo).item \in ItemSet
    <3>1. Head(todo) \in LoopSet
      BY <2>2 DEF HandlerTyped
    <3>. QED
      BY <3>1 DEF LoopSet
  <2>4. ASSUME out' = [out EXCEPT ![s] = Append(@, Head(todo).item)],
               UNCHANGED <<Assocs, asm, wire>>
        PROVE  ClientsTyped'
    <3>1. Append(out[s], Head(todo).item) \in Seq(ItemSet)
      BY <2>2, <2>3 DEF ClientsTyped
    <3>. QED
      BY <2>2, <2>4, <3>1 DEF ClientsTyped
  <2>5. Forget(s) => ClientsTyped'
    BY <2>2, ForgetTyped
  <2>6. UNCHANGED <<Assocs, asm, wire, out>> => ClientsTyped'
    BY DEF ClientsTyped
  <2>7. ClientsTyped'
    BY <2>1, <2>4, <2>5, <2>6 DEF Turn
  <2>. QED
    BY <2>1, <2>2, <2>7 DEF Turn, HandlerTyped
<1>9. ASSUME LoopEnds
      PROVE  HandlerTyped' /\ UNCHANGED <<Assocs, asm, wire, out, portVars, made>>
  <2>1. Tail(todo) \in Seq(LoopSet)
    BY <1>9 DEF LoopEnds, HandlerTyped
  <2>. QED
    BY <1>9, <2>1 DEF LoopEnds, HandlerTyped
<1>10. ASSUME Parse
       PROVE  ClientsTyped' /\ PortTyped' /\ HandlerTyped' /\ UNCHANGED made
  <2> DEFINE piece == Head(chunk)
             f == Head(chunk).frame
  <2>1. piece \in Pieces /\ chunk' \in Seq(Pieces)
    BY <1>10 DEF Parse, HandlerTyped
  <2>2. f \in Frames
    BY <2>1 DEF Pieces
  <2>3. /\ asm' = [asm EXCEPT ![from] = <<piece>>] \/ asm' = [asm EXCEPT ![from] = NoHead]
        /\ UNCHANGED <<it, from, made, arrived>>
    BY <1>10 DEF Parse
  <2>4. asm' \in [Sockets -> {NoHead} \cup {<<x>> : x \in Pieces}]
    BY <2>1, <2>3 DEF ClientsTyped
  <2>5. \/ NoAnswer /\ PortUntouched
        \/ DataPacket(f)
        \/ ControlPacket(f)
    BY <1>10 DEF Parse
  <2> HIDE DEF f, piece
  <2>6. CASE NoAnswer /\ PortUntouched
    BY <2>1, <2>3, <2>4, <2>6 DEF NoAnswer, PortUntouched, ClientsTyped, PortTyped, HandlerTyped
  <2>7. CASE DataPacket(f)
    <3>1. PortTyped'
      BY <2>2, <2>3, <2>7, PortCallTyped DEF DataPacket
    <3>2. todo' \in Seq(LoopSet)
      <4>1. Loop(Wrapped(f), from) \in LoopSet
        BY <2>2, ItemTypes, LoopTypes DEF HandlerTyped
      <4>. QED
        BY <2>7, <4>1 DEF DataPacket
    <3>. QED
      BY <2>1, <2>3, <2>4, <2>7, <3>1, <3>2 DEF DataPacket, ClientsTyped, HandlerTyped
  <2>8. CASE ControlPacket(f)
    <3>1. PortTyped'
      BY <2>2, <2>3, <2>8, ControlPacketEffects, PortCallTyped
    <3>2. SendToUI(f) \/ NoAnswer
      BY <2>2, <2>8, ControlPacketEffects
    <3>3. CASE SendToUI(f)
      BY <2>1, <2>2, <2>3, <2>4, <3>1, <3>3, AnswerTyped DEF ClientsTyped, HandlerTyped
    <3>4. CASE NoAnswer
      BY <2>1, <2>3, <2>4, <3>1, <3>4 DEF NoAnswer, ClientsTyped, HandlerTyped
    <3>. QED
      BY <3>2, <3>3, <3>4
  <2>. QED
    BY <2>3, <2>5, <2>6, <2>7, <2>8
<1>11. /\ UNCHANGED <<Assocs, asm, wire, out>> => ClientsTyped'
       /\ UNCHANGED portVars => PortTyped'
       /\ UNCHANGED handler => HandlerTyped'
  BY DEF ClientsTyped, portVars, PortTyped, handler, HandlerTyped
<1>12. ASSUME UNCHANGED vars
       PROVE  UNCHANGED <<Assocs, asm, wire, out, portVars, handler, made>>
  BY <1>12 DEF vars, portVars, handler
<1>. QED
  BY <1>1, <1>2, <1>3, <1>4, <1>5, <1>6, <1>7, <1>8, <1>9, <1>10, <1>11, <1>12 DEF Next

\* The initial state is well typed.
LEMMA TypeInit == Init => TypeOK
<1>1. Cardinality({}) = 0
  BY FS_EmptySet
<1>. QED
  BY <1>1, BoundsAssumption DEF Init, TypeOK, Nobody

\* The state of the server is well typed: in particular, the number of entries
\* in Assocs never exceeds ASSOC_MAXIMUM, whatever connections come and go.
THEOREM ServerTypeCorrect == Spec => []TypeOK
  BY TypeInit, TypeStep, PTL DEF Spec

-----------------------------------------------------------------------------
(* Who gets what *)

\* The parts of the invariant, for one socket or one loop.
WireKept(s) == \A k \in DOMAIN wire[s] : wire[s][k].frame.from = s
OutKept(s) == \A k \in DOMAIN out[s] : MeantFor(s, out[s][k])
LoopKept(loop) == \A s \in Sockets \ {loop.skip} : MeantFor(s, loop.item)

\* What the loops of each handler write is meant for those they do not skip.
LEMMA LoopsMeant ==
  /\ \A pieces \in Seq(Pieces), s \in Sockets :
       (\A k \in DOMAIN pieces : pieces[k].frame.from = s) => LoopKept(Loop(Raw(pieces), s))
  /\ \A f \in Frames : LoopKept(Loop(Wrapped(f), f.from)) /\ MeantFor(f.from, Answer(f))
  /\ \A packet \in Packets : \A s \in Sockets :
       MeantFor(s, Report(packet)) /\ MeantFor(s, LogLine(packet))
<1>1. \A pieces \in Seq(Pieces), s \in Sockets :
        (\A k \in DOMAIN pieces : pieces[k].frame.from = s) => LoopKept(Loop(Raw(pieces), s))
  BY DEF LoopKept, Loop, Raw, MeantFor
<1>2. \A f \in Frames : LoopKept(Loop(Wrapped(f), f.from)) /\ MeantFor(f.from, Answer(f))
  BY DEF LoopKept, Loop, Wrapped, Answer, MeantFor
<1>3. \A packet \in Packets : \A s \in Sockets :
        MeantFor(s, Report(packet)) /\ MeantFor(s, LogLine(packet))
  BY DEF Report, LogLine, MeantFor
<1>. QED
  BY <1>1, <1>2, <1>3

\* A stream that grows by something meant for its reader stays right.
LEMMA OutGrows ==
  ASSUME NEW s \in Sockets, out \in [Sockets -> Seq(ItemSet)], NEW item \in ItemSet,
         out' = [out EXCEPT ![s] = Append(@, item)], MeantFor(s, item),
         \A r \in Sockets : OutKept(r)
  PROVE  \A r \in Sockets : OutKept(r)'
<1> SUFFICES ASSUME NEW r \in Sockets PROVE OutKept(r)'
  OBVIOUS
<1>1. CASE r # s
  BY <1>1 DEF OutKept
<1>2. CASE r = s
  <2>1. out'[s] = Append(out[s], item) /\ out[s] \in Seq(ItemSet)
    OBVIOUS
  <2>2. ASSUME NEW k \in DOMAIN out'[s] PROVE MeantFor(s, out'[s][k])
    <3>1. k \in 1 .. Len(out[s]) + 1
      BY <2>1
    <3>2. out'[s][k] = IF k = Len(out[s]) + 1 THEN item ELSE out[s][k]
      BY <2>1, <3>1
    <3>. QED
      BY <2>1, <3>1, <3>2 DEF OutKept
  <2>. QED
    BY <1>2, <2>2 DEF OutKept
<1>. QED
  BY <1>1, <1>2

\* A stream that is forgotten is right.
LEMMA OutForgotten ==
  ASSUME NEW s \in Sockets, out \in [Sockets -> Seq(ItemSet)],
         out' = [out EXCEPT ![s] = <<>>], \A r \in Sockets : OutKept(r)
  PROVE  \A r \in Sockets : OutKept(r)'
  BY DEF OutKept

\* The invariant in terms of its parts; RightClient speaks of connected clients
\* only, but the others have no stream.
KeptParts ==
  /\ \A s \in Sockets : WireKept(s) /\ OutKept(s)
  /\ \A k \in DOMAIN chunk : chunk[k].frame.from = from
  /\ \A k \in DOMAIN todo : LoopKept(todo[k])
  /\ AtRest

LEMMA KeptIs == RelayInductive <=> TypeOK /\ KeptParts
<1>1. ASSUME AtRest, Assocs \subseteq Sockets
      PROVE  RightClient <=> \A s \in Sockets : OutKept(s)
  BY <1>1 DEF AtRest, RightClient, OutKept
<1>. QED
  BY <1>1 DEF RelayInductive, KeptParts, OriginKept, WireKept, LoopKept, TypeOK

LEMMA KeptIsNext == RelayInductive' <=> TypeOK' /\ KeptParts'
<1>1. ASSUME AtRest', Assocs' \subseteq Sockets
      PROVE  RightClient' <=> \A s \in Sockets : OutKept(s)'
  BY <1>1 DEF AtRest, RightClient, OutKept
<1>. QED
  BY <1>1 DEF RelayInductive, KeptParts, OriginKept, WireKept, LoopKept, TypeOK

\* The invariant holds in the beginning.
LEMMA RelayInit == Init => RelayInductive
<1> SUFFICES ASSUME Init PROVE TypeOK /\ KeptParts
  BY KeptIs
<1>. QED
  BY TypeInit DEF Init, KeptParts, WireKept, OutKept, AtRest

\* The parts that speak of the running handler and of the connections.
HandlerKept ==
  /\ \A k \in DOMAIN chunk : chunk[k].frame.from = from
  /\ \A k \in DOMAIN todo : LoopKept(todo[k])
ClientsKept ==
  /\ \A s \in Sockets : WireKept(s) /\ OutKept(s)
  /\ \A s \in Sockets \ Assocs : out[s] = <<>>

\* A connection that ends takes what it had with it.
LEMMA ForgetKept ==
  ASSUME ClientsTyped, ClientsKept, NEW s \in Sockets,
         Assocs' = Assocs \ {s} \/ Assocs' = Assocs \cup {s},
         wire' = [wire EXCEPT ![s] = <<>>], out' = [out EXCEPT ![s] = <<>>]
  PROVE  ClientsKept'
<1>1. \A r \in Sockets : WireKept(r)'
  BY DEF ClientsTyped, ClientsKept, WireKept
<1>2. \A r \in Sockets : OutKept(r)'
  BY OutForgotten DEF ClientsTyped, ClientsKept
<1>3. \A r \in Sockets \ Assocs' : out'[r] = <<>>
  BY DEF ClientsTyped, ClientsKept
<1>. QED
  BY <1>1, <1>2, <1>3 DEF ClientsKept

\* A write of something meant for its reader.
LEMMA WriteKept ==
  ASSUME ClientsTyped, ClientsKept, NEW s \in Assocs, NEW item \in ItemSet,
         out' = [out EXCEPT ![s] = Append(@, item)], MeantFor(s, item),
         UNCHANGED <<Assocs, wire>>
  PROVE  ClientsKept'
<1>1. s \in Sockets /\ out \in [Sockets -> Seq(ItemSet)]
  BY DEF ClientsTyped
<1>2. \A r \in Sockets : OutKept(r)'
  BY <1>1, OutGrows DEF ClientsKept
<1>3. \A r \in Sockets : WireKept(r)'
  BY DEF ClientsKept, WireKept
<1>4. \A r \in Sockets \ Assocs' : out'[r] = <<>>
  BY <1>1 DEF ClientsKept
<1>. QED
  BY <1>2, <1>3, <1>4 DEF ClientsKept

\* An answer to the client whose packet it is.
LEMMA AnswerKept ==
  ASSUME ClientsTyped, ClientsKept, NEW f \in Frames, f.from = from, SendToUI(f)
  PROVE  ClientsKept'
<1>1. Answer(f) \in ItemSet /\ MeantFor(from, Answer(f))
  BY ItemTypes, LoopsMeant
<1>2. CASE from \in Assocs /\ out' = [out EXCEPT ![from] = Append(@, Answer(f))]
           /\ UNCHANGED <<Assocs, wire>>
  BY <1>1, <1>2, WriteKept
<1>3. CASE from \in Assocs /\ Assocs' = Assocs \ {from}
           /\ wire' = [wire EXCEPT ![from] = <<>>] /\ out' = [out EXCEPT ![from] = <<>>]
  <2>1. from \in Sockets
    BY <1>3 DEF ClientsTyped
  <2>. QED
    BY <1>3, <2>1, ForgetKept
<1>4. CASE UNCHANGED <<Assocs, wire, out>>
  BY <1>4 DEF ClientsKept, WireKept, OutKept
<1>. QED
  BY <1>2, <1>3, <1>4 DEF SendToUI

\* Every step preserves the invariant.
LEMMA RelayStep == RelayInductive /\ [Next]_vars => RelayInductive'
<1> SUFFICES ASSUME TypeOK, ClientsKept, HandlerKept, todo = <<>> => it = Nobody,
                    ClientsTyped, PortTyped, HandlerTyped, [Next]_vars
             PROVE  ClientsKept' /\ HandlerKept' /\ (todo' = <<>> => it' = Nobody)
  <2>1. RelayInductive => /\ TypeOK /\ ClientsKept /\ HandlerKept /\ (todo = <<>> => it = Nobody)
                          /\ ClientsTyped /\ PortTyped /\ HandlerTyped
    BY KeptIs, TypeParts DEF KeptParts, ClientsKept, HandlerKept, AtRest
  <2>2. TypeOK' /\ ClientsKept' /\ HandlerKept' /\ (todo' = <<>> => it' = Nobody)
        => RelayInductive'
    BY KeptIsNext DEF KeptParts, ClientsKept, HandlerKept, AtRest
  <2>. QED
    BY <2>1, <2>2, TypeStep
<1>1. /\ UNCHANGED handler => HandlerKept' /\ (todo' = <<>> => it' = Nobody)
      /\ UNCHANGED <<Assocs, wire, out>> => ClientsKept'
  BY DEF handler, HandlerKept, LoopKept, ClientsKept, WireKept, OutKept
<1>2. ASSUME NEW s \in Sockets, OnNewConnection(s)
      PROVE  ClientsKept' /\ UNCHANGED handler
  BY <1>2, ForgetKept DEF OnNewConnection, Admit
<1>3. ASSUME NEW s \in Sockets, Disconnected(s)
      PROVE  ClientsKept' /\ UNCHANGED handler
  BY <1>3, ForgetKept DEF Disconnected, Forget
<1>4. ASSUME NEW s \in Sockets, ReadyRead(s)
      PROVE  ClientsKept' /\ HandlerKept' /\ (todo' = <<>> => it' = Nobody)
  <2>1. PICK n \in 1 .. Len(wire[s]) : Take(s, n) /\ todo' = <<Loop(Raw(chunk'), s)>>
    BY <1>4 DEF ReadyRead, Arrived
  <2>2. wire[s] \in Seq(Pieces) /\ n \in 0 .. Len(wire[s])
    BY <2>1 DEF ClientsTyped
  <2>3. /\ chunk' = SubSeq(wire[s], 1, n) /\ from' = s
        /\ wire' = [wire EXCEPT ![s] = SubSeq(@, n + 1, Len(@))]
        /\ UNCHANGED <<Assocs, out>>
    BY <2>1 DEF Take
  <2>4. /\ chunk' \in Seq(Pieces)
        /\ \A k \in DOMAIN chunk' : k \in DOMAIN wire[s] /\ chunk'[k] = wire[s][k]
        /\ \A k \in DOMAIN SubSeq(wire[s], n + 1, Len(wire[s])) :
             /\ k + n \in DOMAIN wire[s]
             /\ SubSeq(wire[s], n + 1, Len(wire[s]))[k] = wire[s][k + n]
    BY <2>2, <2>3, Ends
  <2>5. \A k \in DOMAIN chunk' : chunk'[k].frame.from = s
    BY <2>4 DEF ClientsKept, WireKept
  <2>6. LoopKept(Loop(Raw(chunk'), s))
    BY <2>4, <2>5, LoopsMeant
  <2>7. ASSUME NEW r \in Sockets PROVE WireKept(r)'
    <3>1. CASE r = s
      <4>1. wire'[s] = SubSeq(wire[s], n + 1, Len(wire[s]))
        BY <2>3 DEF ClientsTyped
      <4>. QED
        BY <2>4, <3>1, <4>1 DEF ClientsKept, WireKept
    <3>2. CASE r # s
      BY <2>3, <3>2 DEF ClientsTyped, ClientsKept, WireKept
    <3>. QED
      BY <3>1, <3>2
  <2>8. ClientsKept'
    BY <2>3, <2>7 DEF ClientsKept, OutKept
  <2>9. HandlerKept'
    <3>1. \A k \in DOMAIN todo' : todo'[k] = Loop(Raw(chunk'), s)
      BY <2>1
    <3>2. \A k \in DOMAIN todo' : LoopKept(todo[k])'
      BY <2>6, <3>1 DEF LoopKept
    <3>. QED
      BY <2>3, <2>5, <3>2 DEF HandlerKept
  <2>. QED
    BY <2>1, <2>8, <2>9
<1>5. ASSUME NEW s \in Sockets, NEW kind \in Kinds, ClientSends(s, kind)
      PROVE  ClientsKept' /\ UNCHANGED handler
  <2> DEFINE f == [no |-> made + 1, from |-> s, kind |-> kind]
  <2>1. /\ wire' = [wire EXCEPT ![s] = @ \o <<HeadOf(f), TailOf(f)>>]
        /\ UNCHANGED <<Assocs, out, handler>>
    BY <1>5 DEF ClientSends
  <2>2. wire[s] \in Seq(Pieces) /\ HeadOf(f).frame.from = s /\ TailOf(f).frame.from = s
    BY DEF ClientsTyped, HeadOf, TailOf
  <2> HIDE DEF f
  <2>3. ASSUME NEW k \in DOMAIN (wire[s] \o <<HeadOf(f), TailOf(f)>>)
        PROVE  (wire[s] \o <<HeadOf(f), TailOf(f)>>)[k].frame.from = s
    <3>1. CASE k \in DOMAIN wire[s]
      BY <2>2, <3>1 DEF ClientsKept, WireKept
    <3>2. CASE k = Len(wire[s]) + 1
      BY <2>2, <3>2
    <3>3. CASE k = Len(wire[s]) + 2
      BY <2>2, <3>3
    <3>. QED
      BY <2>2, <2>3, <3>1, <3>2, <3>3
  <2>4. ASSUME NEW r \in Sockets PROVE WireKept(r)'
    <3>1. CASE r = s
      BY <2>1, <2>3, <3>1 DEF ClientsTyped, WireKept
    <3>2. CASE r # s
      BY <2>1, <3>2 DEF ClientsTyped, ClientsKept, WireKept
    <3>. QED
      BY <3>1, <3>2
  <2>. QED
    BY <2>1, <2>4 DEF ClientsKept, OutKept
<1>6. ASSUME OnEvents
      PROVE  /\ HandlerKept' /\ (todo' = <<>> => it' = Nobody)
             /\ UNCHANGED <<Assocs, wire, out>>
  <2>1. PICK n \in 0 .. Len(rxq), m \in 0 .. Len(txq) :
          todo' = Loops(SubSeq(rxq, 1, n) \o SubSeq(txq, 1, m)) /\ it' = Nobody
    BY <1>6 DEF OnEvents
  <2>2. SubSeq(rxq, 1, n) \in Seq(BusFrames) /\ SubSeq(txq, 1, m) \in Seq(Frames)
    BY Ends DEF PortTyped
  <2>3. SubSeq(rxq, 1, n) \o SubSeq(txq, 1, m) \in Seq(Packets)
    BY <2>2 DEF Packets
  <2>4. \A k \in DOMAIN todo' : \E packet \in Packets :
          todo'[k].item \in {Report(packet), LogLine(packet)}
    BY <2>1, <2>3, ReportLoops
  <2>5. \A k \in DOMAIN todo' : LoopKept(todo[k])'
    BY <2>4, LoopsMeant DEF LoopKept
  <2>6. chunk' = chunk /\ chunk = <<>>
    BY <1>6 DEF OnEvents, Idle
  <2>. QED
    BY <1>6, <2>1, <2>5, <2>6 DEF OnEvents, HandlerKept
<1>7. ASSUME WriteNext
      PROVE  ClientsKept' /\ HandlerKept' /\ (todo' = <<>> => it' = Nobody)
  <2>1. PICK s \in Assocs : IsLowest(s, Above) /\ Turn(s)
    BY <1>7 DEF WriteNext
  <2>2. s \in Sockets /\ todo # <<>> /\ UNCHANGED <<todo, chunk, from>>
    BY <1>7, <2>1 DEF ClientsTyped, WriteNext, Turn
  <2>3. Head(todo) \in LoopSet /\ LoopKept(Head(todo))
    BY <2>2 DEF HandlerTyped, HandlerKept
  <2>4. CASE s # Head(todo).skip /\ out' = [out EXCEPT ![s] = Append(@, Head(todo).item)]
             /\ UNCHANGED <<Assocs, asm, wire>>
    <3>1. Head(todo).item \in ItemSet /\ MeantFor(s, Head(todo).item)
      BY <2>2, <2>3, <2>4 DEF LoopSet, LoopKept
    <3>. QED
      BY <2>2, <2>4, <3>1, WriteKept DEF HandlerKept, LoopKept
  <2>5. CASE Forget(s)
    BY <2>2, <2>5, ForgetKept DEF Forget, HandlerKept, LoopKept
  <2>6. CASE UNCHANGED <<Assocs, asm, wire, out>>
    BY <1>1, <2>2, <2>6 DEF HandlerKept, LoopKept
  <2>. QED
    BY <2>1, <2>4, <2>5, <2>6 DEF Turn
<1>8. ASSUME LoopEnds
      PROVE  /\ HandlerKept' /\ (todo' = <<>> => it' = Nobody)
             /\ UNCHANGED <<Assocs, wire, out>>
  <2>1. /\ todo # <<>> /\ todo' = Tail(todo) /\ it' = Nobody
        /\ UNCHANGED <<Assocs, wire, out, chunk, from>>
    BY <1>8 DEF LoopEnds
  <2>2. \A k \in DOMAIN todo' : k + 1 \in DOMAIN todo /\ todo'[k] = todo[k + 1]
    BY <2>1 DEF HandlerTyped
  <2>. QED
    BY <2>1, <2>2 DEF HandlerKept, LoopKept
<1>9. ASSUME Parse
      PROVE  ClientsKept' /\ HandlerKept' /\ (todo' = <<>> => it' = Nobody)
  <2> DEFINE f == Head(chunk).frame
  <2>1. /\ todo = <<>> /\ chunk # <<>> /\ chunk' = Tail(chunk) /\ UNCHANGED <<it, from>>
        /\ (NoAnswer /\ PortUntouched) \/ DataPacket(f) \/ ControlPacket(f)
    BY <1>9 DEF Parse
  <2>2. Head(chunk) \in Pieces /\ f.from = from
    BY <2>1 DEF HandlerTyped, HandlerKept
  <2>3. f \in Frames
    BY <2>2 DEF Pieces
  <2>4. \A k \in DOMAIN chunk' : chunk'[k].frame.from = from'
    <3>1. \A k \in DOMAIN chunk' : k + 1 \in DOMAIN chunk /\ chunk'[k] = chunk[k + 1]
      BY <2>1 DEF HandlerTyped
    <3>. QED
      BY <2>1, <3>1 DEF HandlerKept
  <2> HIDE DEF f
  <2>5. CASE DataPacket(f)
    <3>1. todo' = <<Loop(Wrapped(f), f.from)>> /\ UNCHANGED <<Assocs, wire, out>>
      BY <2>2, <2>5 DEF DataPacket
    <3>2. LoopKept(Loop(Wrapped(f), f.from))
      BY <2>3, LoopsMeant
    <3>3. \A k \in DOMAIN todo' : LoopKept(todo[k])'
      BY <3>1, <3>2 DEF LoopKept
    <3>. QED
      BY <1>1, <2>4, <3>1, <3>3 DEF HandlerKept
  <2>6. CASE SendToUI(f)
    <3>1. todo' = todo
      BY <2>6 DEF SendToUI
    <3>. QED
      BY <2>1, <2>2, <2>3, <2>4, <2>6, <3>1, AnswerKept DEF HandlerKept
  <2>7. CASE NoAnswer
    BY <1>1, <2>1, <2>4, <2>7 DEF NoAnswer, HandlerKept
  <2>. QED
    BY <2>1, <2>3, <2>5, <2>6, <2>7, ControlPacketEffects
<1>10. PortOpens \/ FrameArrives \/ UNCHANGED vars
       => UNCHANGED <<Assocs, wire, out>> /\ UNCHANGED handler
  BY DEF PortOpens, FrameArrives, vars, handler
<1>. QED
  BY <1>1, <1>2, <1>3, <1>4, <1>5, <1>6, <1>7, <1>8, <1>9, <1>10 DEF Next

\* Along every path a piece of data keeps the client it came from, and a loop
\* leaves out whoever its item is not meant for.
THEOREM RelayInvariant == Spec => []RelayInductive
  BY RelayInit, RelayStep, PTL DEF Spec

\* No client ever sees its own data again, raw or wrapped, and an answer goes to
\* the client that asked, even after connections came and went under the loops.
THEOREM DataReachesRightClient == Spec => []RightClient
<1>1. RelayInductive => RightClient
  BY DEF RelayInductive
<1>. QED
  BY <1>1, RelayInvariant, PTL

-----------------------------------------------------------------------------
(* A frame itself comes before its wrapped copy *)

\* A piece was written to a client; a stream has the tail of every frame before
\* the copy.
RelayedTo(s, piece) ==
  \E j \in DOMAIN out[s] : /\ out[s][j].what = "raw"
                           /\ piece \in {out[s][j].pieces[n] : n \in DOMAIN out[s][j].pieces}
TailSeenBefore(s, k, f) ==
  \E j \in 1 .. k - 1 : /\ out[s][j].what = "raw"
                        /\ TailOf(f) \in {out[s][j].pieces[n] : n \in DOMAIN out[s][j].pieces}
Ordered(s) ==
  \A k \in DOMAIN out[s] : out[s][k].what = "wrapped" => TailSeenBefore(s, k, out[s][k].frame)

\* The loop over the raw data, while it is running, has not come to s yet.
RawAhead(s) == todo # <<>> /\ Head(todo).item.what = "raw" /\ s > it
ChunkRelayed ==
  \A s \in Assocs \ {from} : RawAhead(s) \/ \A k \in DOMAIN chunk : RelayedTo(s, chunk[k])

\* What the loops of a handler write, and to whom.
LoopOrdered(loop) ==
  /\ loop.item.what # "answer"
  /\ loop.item.what = "raw" => loop.item.pieces = chunk /\ loop.skip = from
  /\ loop.item.what = "wrapped" =>
       /\ loop.skip = from
       /\ \A s \in Assocs \ {from} : RelayedTo(s, TailOf(loop.item.frame))
TodoOrdered ==
  /\ todo # <<>> => LoopOrdered(Head(todo))
  /\ \A k \in 2 .. Len(todo) : todo[k].item.what \in {"report", "log"}

OrderKept == (\A s \in Sockets : Ordered(s)) /\ ChunkRelayed /\ TodoOrdered

\* A write takes nothing back, and puts at most one more copy after its frame.
LEMMA WriteOrdered ==
  ASSUME out \in [Sockets -> Seq(ItemSet)], NEW s \in Sockets, NEW item \in ItemSet,
         out' = [out EXCEPT ![s] = Append(@, item)]
  PROVE  /\ \A r \in Sockets : \A piece : RelayedTo(r, piece) => RelayedTo(r, piece)'
         /\ item.what = "raw" =>
              \A k \in DOMAIN item.pieces : RelayedTo(s, item.pieces[k])'
         /\ (item.what = "wrapped" => RelayedTo(s, TailOf(item.frame)))
            => ((\A r \in Sockets : Ordered(r)) => \A r \in Sockets : Ordered(r)')
<1>1. /\ out'[s] = Append(out[s], item) /\ out[s] \in Seq(ItemSet)
      /\ \A r \in Sockets \ {s} : out'[r] = out[r]
  OBVIOUS
<1>2. /\ Len(out[s]) \in Nat /\ Len(out'[s]) = Len(out[s]) + 1
      /\ DOMAIN out[s] = 1 .. Len(out[s]) /\ DOMAIN out'[s] = 1 .. Len(out[s]) + 1
      /\ out'[s][Len(out[s]) + 1] = item
      /\ \A k \in 1 .. Len(out[s]) : out'[s][k] = out[s][k]
  BY <1>1
<1>3. ASSUME NEW r \in Sockets, NEW piece, RelayedTo(r, piece)
      PROVE  RelayedTo(r, piece)'
  <2>1. CASE r = s
    <3>1. PICK j \in DOMAIN out[s] :
            /\ out[s][j].what = "raw"
            /\ piece \in {out[s][j].pieces[n] : n \in DOMAIN out[s][j].pieces}
      BY <1>3, <2>1 DEF RelayedTo
    <3>2. j \in DOMAIN out'[s] /\ out'[s][j] = out[s][j]
      BY <1>2
    <3>. QED
      BY <2>1, <3>1, <3>2 DEF RelayedTo
  <2>2. CASE r # s
    BY <1>1, <1>3, <2>2 DEF RelayedTo
  <2>. QED
    BY <2>1, <2>2
<1>4. ASSUME item.what = "raw", NEW k \in DOMAIN item.pieces
      PROVE  RelayedTo(s, item.pieces[k])'
  <2>1. Len(out[s]) + 1 \in DOMAIN out'[s]
    BY <1>2
  <2>. QED
    BY <1>2, <1>4, <2>1 DEF RelayedTo
<1>5. ASSUME item.what = "wrapped" => RelayedTo(s, TailOf(item.frame)),
             \A r \in Sockets : Ordered(r), NEW r \in Sockets
      PROVE  Ordered(r)'
  <2>1. CASE r # s
    BY <1>1, <1>5, <2>1 DEF Ordered, TailSeenBefore
  <2>2. ASSUME r = s, NEW k \in DOMAIN out'[s], out'[s][k].what = "wrapped"
        PROVE  TailSeenBefore(s, k, out[s][k].frame)'
    <3>1. CASE k \in 1 .. Len(out[s])
      <4>1. out'[s][k] = out[s][k] /\ k \in DOMAIN out[s]
        BY <1>2, <3>1
      <4>2. TailSeenBefore(s, k, out[s][k].frame)
        BY <1>5, <2>2, <4>1 DEF Ordered
      <4>3. \A j \in 1 .. k - 1 : out'[s][j] = out[s][j]
        BY <1>2, <3>1
      <4>. QED
        BY <4>1, <4>2, <4>3 DEF TailSeenBefore
    <3>2. CASE k = Len(out[s]) + 1
      <4>1. RelayedTo(s, TailOf(item.frame)) /\ out'[s][k] = item
        BY <1>2, <1>5, <2>2, <3>2
      <4>2. \A j \in DOMAIN out[s] : j \in 1 .. k - 1 /\ out'[s][j] = out[s][j]
        BY <1>2, <3>2
      <4>. QED
        BY <4>1, <4>2 DEF TailSeenBefore, RelayedTo
    <3>. QED
      BY <1>2, <2>2, <3>1, <3>2
  <2>. QED
    BY <2>1, <2>2 DEF Ordered
<1>. QED
  BY <1>3, <1>4, <1>5

\* The end of a connection, and its beginning, change no other stream.
LEMMA ForgetOrdered ==
  ASSUME out \in [Sockets -> Seq(ItemSet)], NEW s \in Sockets, out' = [out EXCEPT ![s] = <<>>]
  PROVE  /\ \A r \in Sockets \ {s} : \A piece : RelayedTo(r, piece) => RelayedTo(r, piece)'
         /\ (\A r \in Sockets : Ordered(r)) => \A r \in Sockets : Ordered(r)'
<1>1. out'[s] = <<>> /\ \A r \in Sockets \ {s} : out'[r] = out[r]
  OBVIOUS
<1>2. \A r \in Sockets \ {s} : Ordered(r) => Ordered(r)'
  BY <1>1 DEF Ordered, TailSeenBefore
<1>3. Ordered(s)'
  BY <1>1 DEF Ordered
<1>. QED
  BY <1>1, <1>2, <1>3 DEF RelayedTo

\* A loop that was ordered stays so while nothing that was relayed is lost.
LEMMA LoopStays ==
  ASSUME NEW loop, LoopOrdered(loop), UNCHANGED <<chunk, from>>,
         \A s \in Assocs' \ {from} :
           s \in Assocs /\ \A piece : RelayedTo(s, piece) => RelayedTo(s, piece)'
  PROVE  LoopOrdered(loop)'
  BY DEF LoopOrdered

\* Every step keeps the order.
LEMMA OrderStep ==
  ASSUME RelayInductive, OrderKept, [Next]_vars
  PROVE  OrderKept'
<1>a. /\ ClientsTyped /\ PortTyped /\ HandlerTyped /\ (todo = <<>> => it = Nobody)
      /\ \A s \in Sockets : Ordered(s)
      /\ ChunkRelayed /\ TodoOrdered
  BY TypeParts DEF OrderKept, RelayInductive, AtRest
<1>b. out \in [Sockets -> Seq(ItemSet)] /\ Assocs \subseteq Sockets
  BY <1>a DEF ClientsTyped
<1>c. ASSUME UNCHANGED <<Assocs, out, todo, it, chunk, from>>
      PROVE  OrderKept'
  <2>1. /\ \A s \in Sockets : Ordered(s)' = Ordered(s)
        /\ ChunkRelayed' = ChunkRelayed /\ TodoOrdered' = TodoOrdered
    BY <1>c DEF Ordered, TailSeenBefore, ChunkRelayed, RelayedTo, RawAhead, TodoOrdered, LoopOrdered
  <2>. QED
    BY <1>a, <2>1 DEF OrderKept
<1>1. ASSUME NEW s \in Sockets, OnNewConnection(s) \/ Disconnected(s)
      PROVE  OrderKept'
  <2>1. /\ todo = <<>> /\ chunk = <<>> /\ UNCHANGED <<todo, chunk>>
        /\ out' = [out EXCEPT ![s] = <<>>]
    BY <1>1 DEF OnNewConnection, Admit, Disconnected, Forget, Idle, handler
  <2>2. \A r \in Sockets : Ordered(r)'
    BY <1>a, <1>b, <2>1, ForgetOrdered
  <2>3. ChunkRelayed' /\ TodoOrdered'
    BY <2>1 DEF ChunkRelayed, TodoOrdered
  <2>. QED
    BY <2>2, <2>3 DEF OrderKept
<1>2. ASSUME NEW s \in Sockets, ReadyRead(s)
      PROVE  OrderKept'
  <2>1. PICK n \in 1 .. Len(wire[s]) : Take(s, n) /\ todo' = <<Loop(Raw(chunk'), s)>>
    BY <1>2 DEF ReadyRead, Arrived
  <2>2. from' = s /\ it' = Nobody /\ UNCHANGED <<Assocs, out>>
    BY <1>a, <2>1 DEF Take, Idle
  <2>3. \A r \in Sockets : r > Nobody
    BY SocketsAssumption DEF Nobody
  <2>4. /\ todo' # <<>> /\ Head(todo') = Loop(Raw(chunk'), s) /\ Len(todo') = 1
        /\ Head(todo').item.what = "raw"
    BY <2>1 DEF Loop, Raw
  <2>5. \A r \in Assocs' : RawAhead(r)'
    BY <1>b, <2>2, <2>3, <2>4 DEF RawAhead
  <2>6. LoopOrdered(Head(todo))'
    BY <2>2, <2>4 DEF LoopOrdered, Loop, Raw
  <2>7. \A r \in Sockets : Ordered(r)'
    BY <1>a, <2>2 DEF Ordered, TailSeenBefore
  <2>. QED
    BY <2>4, <2>5, <2>6, <2>7 DEF OrderKept, ChunkRelayed, TodoOrdered
<1>3. ASSUME OnEvents
      PROVE  OrderKept'
  <2>1. PICK n \in 0 .. Len(rxq), m \in 0 .. Len(txq) :
          todo' = Loops(SubSeq(rxq, 1, n) \o SubSeq(txq, 1, m))
    BY <1>3 DEF OnEvents
  <2>2. SubSeq(rxq, 1, n) \in Seq(BusFrames) /\ SubSeq(txq, 1, m) \in Seq(Frames)
    BY <1>a, Ends DEF PortTyped
  <2>3. SubSeq(rxq, 1, n) \o SubSeq(txq, 1, m) \in Seq(Packets)
    BY <2>2 DEF Packets
  <2>4. todo' \in Seq(LoopSet) /\ \A k \in DOMAIN todo' : todo'[k].item.what \in {"report", "log"}
    <3>1. \A packet : Report(packet).what = "report" /\ LogLine(packet).what = "log"
      BY DEF Report, LogLine
    <3>. QED
      BY <2>1, <2>3, <3>1, ReportLoops
  <2>5. todo' # <<>> => Head(todo').item.what \in {"report", "log"}
    BY <2>4
  <2>6. TodoOrdered'
    BY <2>4, <2>5 DEF TodoOrdered, LoopOrdered
  <2>7. ChunkRelayed' /\ UNCHANGED out
    BY <1>3 DEF OnEvents, Idle, ChunkRelayed
  <2>8. \A r \in Sockets : Ordered(r)'
    BY <1>a, <2>7 DEF Ordered, TailSeenBefore
  <2>. QED
    BY <2>6, <2>7, <2>8 DEF OrderKept
<1>4. ASSUME WriteNext
      PROVE  OrderKept'
  <2>1. PICK s \in Assocs : IsLowest(s, Above) /\ Turn(s)
    BY <1>4 DEF WriteNext
  <2>2. s \in Sockets /\ todo # <<>> /\ it' = s /\ UNCHANGED <<todo, chunk, from>>
    BY <1>4, <1>b, <2>1 DEF WriteNext, Turn
  <2> DEFINE loop == Head(todo)
             item == Head(todo).item
  <2>3. loop \in LoopSet /\ item \in ItemSet /\ LoopOrdered(loop)
    <3>1. loop \in LoopSet /\ LoopOrdered(loop)
      BY <1>a, <2>2 DEF HandlerTyped, TodoOrdered
    <3>. QED
      BY <3>1 DEF LoopSet
  \* Those the loop had still to come to, but for s, it has still to come to.
  <2>4. \A r \in Assocs \ {s} : RawAhead(r) => RawAhead(r)'
    <3>1. \A r \in Assocs : r \in Nat /\ (r > it => s <= r)
      BY <1>b, <2>1, SocketsAssumption DEF IsLowest, Above
    <3>2. \A r \in Assocs \ {s} : r > it => r > s
      BY <2>2, <3>1, SocketsAssumption
    <3>. QED
      BY <2>2, <3>2 DEF RawAhead
  <2>5. CASE s = loop.skip /\ UNCHANGED <<Assocs, out>>
    <3>1. \A r \in Assocs : \A piece : RelayedTo(r, piece) => RelayedTo(r, piece)'
      BY <2>5 DEF RelayedTo
    <3>2. LoopOrdered(loop)'
      BY <2>2, <2>3, <2>5, <3>1, LoopStays
    <3>3. ~RawAhead(s) \/ s = from
      BY <2>3, <2>5 DEF RawAhead, LoopOrdered
    <3>4. ChunkRelayed'
      BY <1>a, <2>2, <2>4, <2>5, <3>1, <3>3 DEF ChunkRelayed
    <3>5. \A r \in Sockets : Ordered(r)'
      BY <1>a, <2>5 DEF Ordered, TailSeenBefore
    <3>. QED
      BY <1>a, <2>2, <3>2, <3>4, <3>5 DEF OrderKept, TodoOrdered
  <2>6. CASE s # loop.skip /\ out' = [out EXCEPT ![s] = Append(@, item)] /\ UNCHANGED Assocs
    <3>1. /\ \A r \in Sockets : \A piece : RelayedTo(r, piece) => RelayedTo(r, piece)'
          /\ item.what = "raw" =>
               \A k \in DOMAIN item.pieces : RelayedTo(s, item.pieces[k])'
      BY <1>b, <2>2, <2>3, <2>6, WriteOrdered
    <3>2. item.what = "wrapped" => RelayedTo(s, TailOf(item.frame))
      BY <2>3, <2>6 DEF LoopOrdered
    <3>3. \A r \in Sockets : Ordered(r)'
      BY <1>a, <1>b, <2>2, <2>3, <2>6, <3>2, WriteOrdered
    <3>4. LoopOrdered(loop)'
      BY <1>b, <2>2, <2>3, <2>6, <3>1, LoopStays
    <3>5. RawAhead(s) => \A k \in DOMAIN chunk : RelayedTo(s, chunk[k])'
      BY <2>2, <2>3, <3>1 DEF RawAhead, LoopOrdered
    <3>6. ChunkRelayed'
      BY <1>a, <1>b, <2>2, <2>4, <2>6, <3>1, <3>5 DEF ChunkRelayed
    <3>. QED
      BY <1>a, <2>2, <3>3, <3>4, <3>6 DEF OrderKept, TodoOrdered
  <2>7. CASE Forget(s)
    <3>1. /\ Assocs' = Assocs \ {s}
          /\ \A r \in Assocs' : \A piece : RelayedTo(r, piece) => RelayedTo(r, piece)'
          /\ \A r \in Sockets : Ordered(r)'
      BY <1>a, <1>b, <2>2, <2>7, ForgetOrdered DEF Forget
    <3>2. LoopOrdered(loop)'
      BY <2>2, <2>3, <3>1, LoopStays
    <3>3. ChunkRelayed'
      BY <1>a, <2>2, <2>4, <3>1 DEF ChunkRelayed
    <3>. QED
      BY <1>a, <2>2, <3>1, <3>2, <3>3 DEF OrderKept, TodoOrdered
  <2>. QED
    BY <2>1, <2>5, <2>6, <2>7 DEF Turn
<1>5. ASSUME LoopEnds
      PROVE  OrderKept'
  <2>1. /\ todo # <<>> /\ Above = {} /\ todo' = Tail(todo)
        /\ UNCHANGED <<Assocs, out, chunk, from>>
    BY <1>5 DEF LoopEnds
  <2>2. \A s \in Assocs : ~RawAhead(s)
    BY <2>1 DEF Above, RawAhead
  <2>3. ChunkRelayed'
    BY <1>a, <2>1, <2>2 DEF ChunkRelayed, RelayedTo
  <2>4. /\ Len(todo') = Len(todo) - 1
        /\ \A k \in 1 .. Len(todo') : k + 1 \in 2 .. Len(todo) /\ todo'[k] = todo[k + 1]
    BY <1>a, <2>1 DEF HandlerTyped
  <2>5. \A k \in 1 .. Len(todo') : todo'[k].item.what \in {"report", "log"}
    BY <1>a, <2>4 DEF TodoOrdered
  <2>6. todo' # <<>> => Head(todo').item.what \in {"report", "log"}
    BY <1>a, <2>1, <2>5 DEF HandlerTyped
  <2>7. TodoOrdered'
    BY <1>a, <2>5, <2>6 DEF TodoOrdered, LoopOrdered
  <2>8. \A r \in Sockets : Ordered(r)'
    BY <1>a, <2>1 DEF Ordered, TailSeenBefore
  <2>. QED
    BY <2>3, <2>7, <2>8 DEF OrderKept
<1>6. ASSUME Parse
      PROVE  OrderKept'
  <2>0. PICK f : f = Head(chunk).frame
    OBVIOUS
  <2>1. /\ todo = <<>> /\ chunk # <<>> /\ chunk' = Tail(chunk) /\ UNCHANGED <<it, from>>
        /\ \/ NoAnswer /\ PortUntouched
           \/ Head(chunk).part = "tail" /\ (DataPacket(f) \/ ControlPacket(f))
    BY <1>6, <2>0 DEF Parse
  <2>2. Head(chunk) \in Pieces
    BY <1>a, <2>1 DEF HandlerTyped
  <2>3. f \in Frames /\ (Head(chunk).part = "tail" => TailOf(f) = Head(chunk))
    BY <2>0, <2>2 DEF Pieces, TailOf
  <2>4. \A r \in Assocs \ {from} : \A k \in DOMAIN chunk : RelayedTo(r, chunk[k])
    BY <1>a, <2>1 DEF ChunkRelayed, RawAhead
  <2>5. \A r \in Assocs \ {from} :
          RelayedTo(r, Head(chunk)) /\ \A k \in DOMAIN chunk' : RelayedTo(r, chunk'[k])
    <3>1. 1 \in DOMAIN chunk /\ Head(chunk) = chunk[1]
      BY <1>a, <2>1 DEF HandlerTyped
    <3>2. \A k \in DOMAIN chunk' : k + 1 \in DOMAIN chunk /\ chunk'[k] = chunk[k + 1]
      BY <1>a, <2>1 DEF HandlerTyped
    <3>. QED
      BY <2>4, <3>1, <3>2
  <2>6. CASE Head(chunk).part = "tail" /\ DataPacket(f)
    <3>1. todo' = <<Loop(Wrapped(f), from)>> /\ UNCHANGED <<Assocs, out>>
      BY <2>6 DEF DataPacket
    <3>2. \A r \in Sockets : Ordered(r)'
      BY <1>a, <3>1 DEF Ordered, TailSeenBefore
    <3>3. \A r \in Assocs \ {from} : \A k \in DOMAIN chunk' : RelayedTo(r, chunk[k])'
      BY <2>5, <3>1 DEF RelayedTo
    <3>4. \A r \in Assocs \ {from} : RelayedTo(r, TailOf(f))'
      BY <2>3, <2>5, <2>6, <3>1 DEF RelayedTo
    <3>5. /\ Head(todo').item = Wrapped(f) /\ Head(todo').skip = from /\ Len(todo') = 1
          /\ Wrapped(f).what = "wrapped" /\ Wrapped(f).frame = f
      BY <3>1 DEF Loop, Wrapped
    <3>6. LoopOrdered(Head(todo))'
      BY <2>1, <3>1, <3>4, <3>5 DEF LoopOrdered
    <3>. QED
      BY <2>1, <3>1, <3>2, <3>3, <3>5, <3>6 DEF OrderKept, ChunkRelayed, TodoOrdered
  <2>7. ASSUME todo' = todo, \A r \in Sockets : Ordered(r)',
               \A r \in Assocs' \ {from} :
                 r \in Assocs /\ \A piece : RelayedTo(r, piece) => RelayedTo(r, piece)'
        PROVE  OrderKept'
    BY <2>1, <2>5, <2>7 DEF OrderKept, ChunkRelayed, TodoOrdered
  <2>8. CASE UNCHANGED <<Assocs, out, todo>>
    <3>1. \A r \in Sockets : Ordered(r)'
      BY <1>a, <2>8 DEF Ordered, TailSeenBefore
    <3>2. \A r \in Assocs' : r \in Assocs /\ \A piece : RelayedTo(r, piece) => RelayedTo(r, piece)'
      BY <2>8 DEF RelayedTo
    <3>. QED
      BY <2>7, <2>8, <3>1, <3>2
  <2>9. CASE SendToUI(f)
    <3>1. CASE from \in Assocs /\ out' = [out EXCEPT ![from] = Append(@, Answer(f))]
               /\ UNCHANGED Assocs
      <4>1. Answer(f) \in ItemSet /\ Answer(f).what = "answer" /\ from \in Sockets
        BY <1>b, <2>3, <3>1, ItemTypes DEF Answer
      <4>2. /\ \A r \in Sockets : Ordered(r)'
            /\ \A r \in Sockets : \A piece : RelayedTo(r, piece) => RelayedTo(r, piece)'
        BY <1>a, <1>b, <3>1, <4>1, WriteOrdered
      <4>. QED
        BY <1>b, <2>7, <2>9, <3>1, <4>2 DEF SendToUI
    <3>2. CASE from \in Assocs /\ Assocs' = Assocs \ {from} /\ out' = [out EXCEPT ![from] = <<>>]
      <4>1. /\ \A r \in Sockets : Ordered(r)'
            /\ \A r \in Sockets \ {from} : \A piece : RelayedTo(r, piece) => RelayedTo(r, piece)'
        BY <1>a, <1>b, <3>2, ForgetOrdered
      <4>. QED
        BY <1>b, <2>7, <2>9, <3>2, <4>1 DEF SendToUI
    <3>3. CASE from \notin Assocs /\ UNCHANGED <<Assocs, out>>
      BY <2>8, <2>9, <3>3 DEF SendToUI
    <3>. QED
      BY <2>9, <3>1, <3>2, <3>3 DEF SendToUI
  <2>10. NoAnswer => OrderKept'
    BY <2>8 DEF NoAnswer
  <2>. QED
    BY <2>1, <2>3, <2>6, <2>9, <2>10, ControlPacketEffects
<1>7. ASSUME NEW s \in Sockets, NEW kind \in Kinds, ClientSends(s, kind)
      PROVE  OrderKept'
  BY <1>7, <1>c DEF ClientSends, handler
<1>8. CASE PortOpens \/ FrameArrives \/ UNCHANGED vars
  BY <1>8, <1>c DEF PortOpens, FrameArrives, vars, handler
<1>. QED
  BY <1>1, <1>2, <1>3, <1>4, <1>5, <1>6, <1>7, <1>8 DEF Next

\* So it is always: the raw data of a readyRead is written to everybody before
\* any of it is parsed.
LEMMA OrderInvariant == Spec => []OrderKept
<1>1. Init => OrderKept
  BY DEF Init, OrderKept, Ordered, ChunkRelayed, TodoOrdered
<1>2. RelayInductive /\ OrderKept /\ [Next]_vars => OrderKept'
  BY OrderStep
<1>. QED
  BY <1>1, <1>2, RelayInvariant, PTL DEF Spec

-----------------------------------------------------------------------------
(* The whole frame comes before it *)

\* Every tail in a sequence comes right after its head, the first one after what
\* is held.
Follows(seq, held) ==
  \A k \in DOMAIN seq : seq[k].part = "tail" =>
    \/ k = 1 /\ held = <<HeadOf(seq[k].frame)>>
    \/ k > 1 /\ seq[k - 1] = HeadOf(seq[k].frame)

\* What the assembler of s will hold when it comes to what s has not read yet.
Held(s) == IF s = from /\ chunk # <<>> THEN <<chunk[Len(chunk)]>> ELSE asm[s]
ChunkFramed == chunk # <<>> => from \in Sockets /\ Follows(chunk, asm[from])
Framed == ChunkFramed /\ \A s \in Sockets : Follows(wire[s], Held(s))

\* Until a chunk is parsed to its end, loops leave out the client it came from.
ChunkLoops == chunk # <<>> /\ todo # <<>> => Head(todo).skip = from /\ Len(todo) = 1

\* A head that an assembler holds was written to everybody it did not come
\* before; and every tail that was written has its head before it.
HeadSeen(s, f) == f \in missed[s] \/ RelayedTo(s, HeadOf(f))
AssemblersRelayed ==
  \A r \in Sockets : \A f \in Frames :
    asm[r] = <<HeadOf(f)>> => \A s \in Assocs \ {r} : HeadSeen(s, f)
HeadsFirst(s) ==
  \A j \in DOMAIN out[s] : \A n \in DOMAIN PiecesAt(s, j) : \A f \in Frames :
    PiecesAt(s, j)[n] = TailOf(f) => HeadBefore(s, j, n, f)

HeadsKept ==
  /\ Framed /\ ChunkLoops /\ AssemblersRelayed
  /\ \A s \in Sockets : HeadsFirst(s)

\* A piece is the head or the tail of its frame.
LEMMA HeadsAndTails ==
  /\ \A p \in Pieces : /\ p.frame \in Frames
                       /\ p = HeadOf(p.frame) \/ p = TailOf(p.frame)
                       /\ p.part = "tail" => p = TailOf(p.frame)
                       /\ p.part = "head" => p = HeadOf(p.frame)
  /\ \A f : /\ HeadOf(f).frame = f /\ TailOf(f).frame = f
            /\ HeadOf(f).part = "head" /\ TailOf(f).part = "tail"
  BY DEF Pieces, HeadOf, TailOf

\* An item more, with the heads of all its tails in it or before it.
LEMMA HeadsWritten ==
  ASSUME out \in [Sockets -> Seq(ItemSet)], NEW s \in Sockets, NEW item \in ItemSet,
         out' = [out EXCEPT ![s] = Append(@, item)], UNCHANGED missed,
         \A r \in Sockets : HeadsFirst(r),
         item.what = "raw" =>
           \A n \in DOMAIN item.pieces : \A f \in Frames : item.pieces[n] = TailOf(f) =>
             HeadSeen(s, f) \/ \E m \in 1 .. n - 1 : item.pieces[m] = HeadOf(f)
  PROVE  \A r \in Sockets : HeadsFirst(r)'
<1>1. /\ Len(out[s]) \in Nat /\ DOMAIN out[s] = 1 .. Len(out[s])
      /\ DOMAIN out'[s] = 1 .. Len(out[s]) + 1 /\ out'[s][Len(out[s]) + 1] = item
      /\ \A k \in 1 .. Len(out[s]) : out'[s][k] = out[s][k]
      /\ \A r \in Sockets \ {s} : out'[r] = out[r]
  OBVIOUS
<1>2. ASSUME NEW r \in Sockets \ {s}
      PROVE  HeadsFirst(r)'
  <2>1. HeadsFirst(r) /\ out'[r] = out[r] /\ missed'[r] = missed[r]
    BY <1>1
  <2>2. \A j : PiecesAt(r, j)' = PiecesAt(r, j)
    BY <2>1 DEF PiecesAt
  <2>3. \A j, n, f : HeadBefore(r, j, n, f) => HeadBefore(r, j, n, f)'
    BY <2>1, <2>2 DEF HeadBefore
  <2>. QED
    BY <2>1, <2>2, <2>3 DEF HeadsFirst
<1>3. \A k \in 1 .. Len(out[s]) : PiecesAt(s, k)' = PiecesAt(s, k)
  BY <1>1 DEF PiecesAt
<1>4. ASSUME NEW j \in DOMAIN out'[s], NEW n \in DOMAIN PiecesAt(s, j)', NEW f \in Frames,
             PiecesAt(s, j)'[n] = TailOf(f)
      PROVE  HeadBefore(s, j, n, f)'
  <2>1. CASE j \in 1 .. Len(out[s])
    <3>1. HeadBefore(s, j, n, f)
      BY <1>1, <1>3, <1>4, <2>1 DEF HeadsFirst
    <3>2. \A i \in 1 .. j - 1 : PiecesAt(s, i)' = PiecesAt(s, i)
      BY <1>1, <1>3, <2>1
    <3>. QED
      BY <1>3, <2>1, <3>1, <3>2 DEF HeadBefore
  <2>2. CASE j = Len(out[s]) + 1
    <3>1. PiecesAt(s, j)' = item.pieces /\ item.what = "raw"
      BY <1>1, <1>4, <2>2 DEF PiecesAt
    <3>2. HeadSeen(s, f) \/ \E m \in 1 .. n - 1 : item.pieces[m] = HeadOf(f)
      BY <1>4, <3>1
    <3>3. CASE RelayedTo(s, HeadOf(f))
      <4>1. PICK i \in DOMAIN out[s] :
              /\ out[s][i].what = "raw"
              /\ HeadOf(f) \in {out[s][i].pieces[m] : m \in DOMAIN out[s][i].pieces}
        BY <3>3 DEF RelayedTo
      <4>2. i \in 1 .. j - 1 /\ PiecesAt(s, i)' = out[s][i].pieces
        BY <1>1, <1>3, <2>2, <4>1 DEF PiecesAt
      <4>. QED
        BY <4>1, <4>2 DEF HeadBefore
    <3>. QED
      BY <3>1, <3>2, <3>3 DEF HeadBefore, HeadSeen
  <2>. QED
    BY <1>1, <2>1, <2>2
<1>5. HeadsFirst(s)'
  BY <1>4 DEF HeadsFirst
<1>. QED
  BY <1>2, <1>5

\* The end of a connection and its beginning leave every tail where it was.
LEMMA HeadsForgotten ==
  ASSUME out \in [Sockets -> Seq(ItemSet)], missed \in [Sockets -> SUBSET Frames],
         NEW s \in Sockets, out' = [out EXCEPT ![s] = <<>>],
         NEW set, missed' = [missed EXCEPT ![s] = set],
         \A r \in Sockets : HeadsFirst(r)
  PROVE  \A r \in Sockets : HeadsFirst(r)'
<1>1. /\ out'[s] = <<>>
      /\ \A r \in Sockets \ {s} : out'[r] = out[r] /\ missed'[r] = missed[r]
  OBVIOUS
<1>2. ASSUME NEW r \in Sockets \ {s}
      PROVE  HeadsFirst(r)'
  <2>1. HeadsFirst(r) /\ out'[r] = out[r] /\ missed'[r] = missed[r]
    BY <1>1
  <2>2. \A j : PiecesAt(r, j)' = PiecesAt(r, j)
    BY <2>1 DEF PiecesAt
  <2>3. \A j, n, f : HeadBefore(r, j, n, f) => HeadBefore(r, j, n, f)'
    BY <2>1, <2>2 DEF HeadBefore
  <2>. QED
    BY <2>1, <2>2, <2>3 DEF HeadsFirst
<1>3. HeadsFirst(s)'
  BY <1>1 DEF HeadsFirst
<1>. QED
  BY <1>2, <1>3

\* Heads that were seen stay seen while nothing written is lost.
LEMMA AssemblersStay ==
  ASSUME AssemblersRelayed,
         \A r \in Sockets : asm'[r] \in {asm[r], NoHead},
         \A s \in Assocs' :
           /\ s \in Assocs /\ missed'[s] = missed[s]
           /\ \A piece : RelayedTo(s, piece) => RelayedTo(s, piece)'
  PROVE  AssemblersRelayed'
<1>1. \A f : NoHead # <<HeadOf(f)>>
  BY DEF NoHead
<1>2. ASSUME NEW r \in Sockets, NEW f \in Frames, asm'[r] = <<HeadOf(f)>>,
             NEW s \in Assocs' \ {r}
      PROVE  HeadSeen(s, f)'
  <2>1. asm[r] = <<HeadOf(f)>>
    BY <1>1, <1>2
  <2>2. HeadSeen(s, f)
    BY <1>2, <2>1 DEF AssemblersRelayed
  <2>. QED
    BY <2>2 DEF HeadSeen
<1>. QED
  BY <1>2 DEF AssemblersRelayed

\* Every step keeps what is parsed and read in frames ...
LEMMA FramedStep ==
  ASSUME TypeOK, ChunkLoops, Framed, [Next]_vars
  PROVE  Framed'
<1>a. ClientsTyped /\ HandlerTyped
  BY TypeParts
<1>b. /\ asm \in [Sockets -> {NoHead} \cup {<<piece>> : piece \in Pieces}]
      /\ wire \in [Sockets -> Seq(Pieces)] /\ chunk \in Seq(Pieces) /\ Assocs \subseteq Sockets
  BY <1>a DEF ClientsTyped, HandlerTyped
<1>c. \A held : Follows(<<>>, held)
  BY DEF Follows
<1>d. ChunkFramed /\ \A s \in Sockets : Follows(wire[s], Held(s))
  BY DEF Framed
<1>1. ASSUME NEW s \in Sockets,
             wire' = [wire EXCEPT ![s] = <<>>], asm' = [asm EXCEPT ![s] = NoHead],
             UNCHANGED <<chunk, from>>, chunk = <<>> \/ s # from
      PROVE  Framed'
  <2>1. wire'[s] = <<>> /\ \A r \in Sockets \ {s} : wire'[r] = wire[r] /\ asm'[r] = asm[r]
    BY <1>b, <1>1
  <2>2. \A r \in Sockets \ {s} : Held(r)' = Held(r)
    BY <1>1, <2>1 DEF Held
  <2>3. \A r \in Sockets : Follows(wire[r], Held(r))'
    <3>1. Follows(wire[s], Held(s))'
      BY <2>1 DEF Follows
    <3>2. ASSUME NEW r \in Sockets \ {s} PROVE Follows(wire[r], Held(r))'
      <4>1. Follows(wire[r], Held(r))
        BY <1>d
      <4>. QED
        BY <2>1, <2>2, <4>1 DEF Follows
    <3>. QED
      BY <3>1, <3>2
  <2>4. ChunkFramed'
    <3>1. chunk # <<>> => from \in Sockets /\ asm'[from] = asm[from]
      BY <1>d, <1>1, <2>1 DEF ChunkFramed
    <3>. QED
      BY <1>d, <1>1, <3>1 DEF ChunkFramed, Follows
  <2>. QED
    BY <2>3, <2>4 DEF Framed
<1>2. ASSUME UNCHANGED <<wire, asm, chunk, from>>
      PROVE  Framed'
  BY <1>d, <1>2 DEF Framed, ChunkFramed, Follows, Held
<1>3. ASSUME NEW s \in Sockets, OnNewConnection(s) \/ Disconnected(s)
      PROVE  Framed'
  BY <1>1, <1>3 DEF OnNewConnection, Admit, Disconnected, Forget, Idle, handler
<1>4. ASSUME NEW s \in Sockets, NEW kind \in Kinds, ClientSends(s, kind)
      PROVE  Framed'
  <2> DEFINE f == [no |-> made + 1, from |-> s, kind |-> kind]
  <2>1. wire' = [wire EXCEPT ![s] = @ \o <<HeadOf(f), TailOf(f)>>] /\ UNCHANGED <<asm, chunk, from>>
    BY <1>4 DEF ClientSends, handler
  <2> HIDE DEF f
  <2>2. /\ wire'[s] = wire[s] \o <<HeadOf(f), TailOf(f)>>
        /\ \A r \in Sockets \ {s} : wire'[r] = wire[r]
        /\ \A r \in Sockets : Held(r)' = Held(r)
    BY <1>b, <2>1 DEF Held
  <2>3. Follows(wire[s], Held(s))'
    <3>1. PICK n \in Nat : n = Len(wire[s]) /\ DOMAIN wire[s] = 1 .. n
      BY <1>b
    <3>2. /\ DOMAIN wire'[s] = 1 .. n + 2
          /\ \A k \in 1 .. n : wire'[s][k] = wire[s][k]
          /\ wire'[s][n + 1] = HeadOf(f) /\ wire'[s][n + 2] = TailOf(f)
      BY <1>b, <2>2, <3>1
    <3>3. Follows(wire[s], Held(s))
      BY <1>d
    <3>4. ASSUME NEW k \in 1 .. n, wire'[s][k].part = "tail"
          PROVE  \/ k = 1 /\ Held(s) = <<HeadOf(wire'[s][k].frame)>>
                 \/ k > 1 /\ wire'[s][k - 1] = HeadOf(wire'[s][k].frame)
      <4>1. k > 1 => k - 1 \in 1 .. n
        BY <3>1
      <4>. QED
        BY <3>1, <3>2, <3>3, <3>4, <4>1 DEF Follows
    <3>5. n + 1 \in Nat /\ n + 2 > 1 /\ (n + 2) - 1 = n + 1
      BY <3>1
    <3>6. \A k \in 1 .. n + 2 : k \in 1 .. n \/ k = n + 1 \/ k = n + 2
      BY <3>1
    <3>7. wire'[s][n + 1].part # "tail"
      BY <3>2, HeadsAndTails
    <3>8. wire'[s][(n + 2) - 1] = HeadOf(wire'[s][n + 2].frame)
      BY <3>2, <3>5, HeadsAndTails
    <3>9. \A k \in DOMAIN wire'[s] : wire'[s][k].part = "tail" =>
            \/ k = 1 /\ Held(s) = <<HeadOf(wire'[s][k].frame)>>
            \/ k > 1 /\ wire'[s][k - 1] = HeadOf(wire'[s][k].frame)
      BY <3>2, <3>4, <3>5, <3>6, <3>7, <3>8
    <3>. QED
      BY <2>2, <3>9 DEF Follows
  <2>4. ASSUME NEW r \in Sockets \ {s} PROVE Follows(wire[r], Held(r))'
    <3>1. Follows(wire[r], Held(r))
      BY <1>d
    <3>. QED
      BY <2>2, <3>1 DEF Follows
  <2>5. ChunkFramed'
    BY <1>d, <2>1 DEF ChunkFramed, Follows
  <2>. QED
    BY <2>3, <2>4, <2>5 DEF Framed
<1>5. ASSUME NEW s \in Sockets, ReadyRead(s)
      PROVE  Framed'
  <2>1. PICK n \in 1 .. Len(wire[s]) : Take(s, n)
    BY <1>5 DEF ReadyRead, Arrived
  <2>2. /\ chunk = <<>> /\ from' = s /\ UNCHANGED asm
        /\ chunk' = SubSeq(wire[s], 1, n)
        /\ wire' = [wire EXCEPT ![s] = SubSeq(@, n + 1, Len(@))]
    BY <2>1 DEF Take, Idle
  <2>3. PICK m \in Nat : m = Len(wire[s]) /\ DOMAIN wire[s] = 1 .. m /\ n \in 1 .. m
    BY <1>b
  <2>4. /\ Len(chunk') = n /\ DOMAIN chunk' = 1 .. n /\ chunk' # <<>>
        /\ \A k \in 1 .. n : chunk'[k] = wire[s][k]
    <3>1. wire[s] \in Seq(Pieces) /\ n \in Nat /\ n <= Len(wire[s]) /\ n # 0
      BY <1>b, <2>3
    <3>2. Len(chunk') = n /\ \A k \in 1 .. n : chunk'[k] = wire[s][k]
      BY <2>2, <3>1
    <3>3. DOMAIN chunk' = 1 .. n
      BY <2>2, <3>1, <3>2
    <3>. QED
      BY <3>1, <3>2, <3>3
  <2>5. /\ DOMAIN wire'[s] = 1 .. m - n
        /\ \A k \in 1 .. m - n : wire'[s][k] = wire[s][n + k]
        /\ \A r \in Sockets \ {s} : wire'[r] = wire[r]
    <3>1. wire'[s] = SubSeq(wire[s], n + 1, m) /\ wire[s] \in Seq(Pieces)
          /\ \A r \in Sockets \ {s} : wire'[r] = wire[r]
      BY <1>b, <2>2, <2>3
    <3>2. Len(wire'[s]) = m - n /\ \A k \in 1 .. m - n : wire'[s][k] = wire[s][n + k]
      BY <2>3, <3>1
    <3>3. DOMAIN wire'[s] = 1 .. m - n
      BY <3>1, <3>2
    <3>. QED
      BY <3>1, <3>2, <3>3
  <2>6. Follows(wire[s], asm[s]) /\ \A r \in Sockets : Held(r) = asm[r]
    BY <1>d, <2>2 DEF Held
  <2>7. ChunkFramed'
    <3>1. \A k \in 1 .. n : k \in 1 .. m /\ (k > 1 => k - 1 \in 1 .. n)
      BY <2>3
    <3>2. Follows(chunk', asm[s])
      BY <2>3, <2>4, <2>6, <3>1 DEF Follows
    <3>. QED
      BY <2>2, <3>2 DEF ChunkFramed, Follows
  <2>8. Held(s)' = <<wire[s][n]>>
    BY <2>2, <2>3, <2>4 DEF Held
  <2>9. Follows(wire[s], Held(s))'
    <3>1. ASSUME NEW k \in 1 .. m - n, wire'[s][k].part = "tail"
          PROVE  \/ k = 1 /\ Held(s)' = <<HeadOf(wire'[s][k].frame)>>
                 \/ k > 1 /\ wire'[s][k - 1] = HeadOf(wire'[s][k].frame)
      <4>1. n + k \in 1 .. m /\ n + k > 1 /\ (n + k) - 1 = n + (k - 1)
        BY <2>3
      <4>2. wire[s][n + (k - 1)] = HeadOf(wire'[s][k].frame)
        <5>1. wire[s][n + k] = wire'[s][k] /\ n + k \in DOMAIN wire[s] /\ n + k # 1
          BY <2>3, <2>5, <4>1
        <5>2. wire[s][(n + k) - 1] = HeadOf(wire[s][n + k].frame)
          BY <2>6, <3>1, <5>1 DEF Follows
        <5>. QED
          BY <4>1, <5>1, <5>2
      <4>3. k = 1 \/ (k > 1 /\ k - 1 \in 1 .. m - n)
        BY <2>3
      <4>4. k = 1 => n + (k - 1) = n
        BY <2>3
      <4>. QED
        BY <2>5, <2>8, <4>2, <4>3, <4>4
    <3>. QED
      BY <2>5, <3>1 DEF Follows
  <2>10. ASSUME NEW r \in Sockets \ {s} PROVE Follows(wire[r], Held(r))'
    <3>1. Follows(wire[r], asm[r])
      BY <1>d, <2>6
    <3>2. Held(r)' = asm[r] /\ wire'[r] = wire[r]
      BY <2>2, <2>5 DEF Held
    <3>. QED
      BY <3>1, <3>2 DEF Follows
  <2>. QED
    BY <2>7, <2>9, <2>10 DEF Framed
<1>6. ASSUME WriteNext
      PROVE  Framed'
  <2>1. PICK s \in Assocs : Turn(s)
    BY <1>6 DEF WriteNext
  <2>2. s \in Sockets /\ todo # <<>> /\ UNCHANGED <<chunk, from>>
    BY <1>6, <1>b, <2>1 DEF WriteNext, Turn
  <2>3. CASE s # Head(todo).skip /\ Forget(s)
    <3>1. chunk = <<>> \/ s # from
      BY <2>2, <2>3 DEF ChunkLoops
    <3>. QED
      BY <1>1, <2>2, <2>3, <3>1 DEF Forget
  <2>4. CASE UNCHANGED <<asm, wire>>
    BY <1>2, <2>2, <2>4
  <2>. QED
    BY <2>1, <2>3, <2>4 DEF Turn
<1>7. ASSUME Parse
      PROVE  Framed'
  <2>0. PICK f : f = Head(chunk).frame
    OBVIOUS
  <2>1. /\ chunk # <<>> /\ chunk' = Tail(chunk) /\ from' = from
        /\ \/ Head(chunk).part = "head" /\ asm' = [asm EXCEPT ![from] = <<Head(chunk)>>]
              /\ NoAnswer
           \/ Head(chunk).part = "tail" /\ asm' = [asm EXCEPT ![from] = NoHead]
              /\ (DataPacket(f) \/ ControlPacket(f))
    BY <1>7, <2>0 DEF Parse
  <2>2. from \in Sockets /\ Follows(chunk, asm[from])
    BY <1>d, <2>1 DEF ChunkFramed
  <2>3. UNCHANGED wire \/ wire' = [wire EXCEPT ![from] = <<>>]
    BY <2>1 DEF NoAnswer, DataPacket, ControlPacket, SendToUI
  <2>4. PICK n \in Nat : n = Len(chunk) /\ DOMAIN chunk = 1 .. n /\ 1 \in 1 .. n
    BY <1>b, <2>1
  <2>5. /\ Len(chunk') = n - 1 /\ DOMAIN chunk' = 1 .. n - 1 /\ Head(chunk) = chunk[1]
        /\ \A k \in 1 .. n - 1 : chunk'[k] = chunk[k + 1]
    BY <1>b, <2>1, <2>4
  <2>6. Head(chunk).part = "head" => asm'[from] = <<chunk[1]>>
    <3>1. Head(chunk).part = "head" => asm' = [asm EXCEPT ![from] = <<Head(chunk)>>]
      BY <2>1
    <3>. QED
      BY <1>b, <2>2, <2>5, <3>1
  <2>7. \A g : chunk[1] = HeadOf(g) => asm'[from] = <<HeadOf(g)>>
    BY <2>5, <2>6, HeadsAndTails
  <2>8. ChunkFramed'
    <3>1. ASSUME NEW k \in 1 .. n - 1, chunk'[k].part = "tail"
          PROVE  \/ k = 1 /\ asm'[from] = <<HeadOf(chunk'[k].frame)>>
                 \/ k > 1 /\ chunk'[k - 1] = HeadOf(chunk'[k].frame)
      <4>1. /\ k + 1 \in 1 .. n /\ k + 1 # 1 /\ (k + 1) - 1 = k /\ (k - 1) + 1 = k
            /\ k = 1 \/ (k > 1 /\ k - 1 \in 1 .. n - 1)
        <5>1. n \in Nat /\ k \in Nat /\ 1 <= k /\ k <= n - 1
          BY <2>4
        <5>. QED
          BY <5>1
      <4>2. chunk[k] = HeadOf(chunk'[k].frame)
        <5>1. chunk[k + 1] = chunk'[k] /\ k + 1 \in DOMAIN chunk
          BY <2>4, <2>5, <4>1
        <5>2. chunk[(k + 1) - 1] = HeadOf(chunk[k + 1].frame)
          BY <2>2, <3>1, <4>1, <5>1 DEF Follows
        <5>. QED
          BY <4>1, <5>1, <5>2
      <4>3. k > 1 => chunk'[k - 1] = chunk[k]
        BY <2>5, <4>1
      <4>. QED
        BY <2>7, <4>1, <4>2, <4>3
    <3>. QED
      BY <2>1, <2>2, <2>5, <3>1 DEF ChunkFramed, Follows
  <2>9. \A r \in Sockets \ {from} : asm'[r] = asm[r] /\ wire'[r] = wire[r]
    BY <1>b, <2>1, <2>3
  <2>10. ASSUME NEW r \in Sockets \ {from} PROVE Follows(wire[r], Held(r))'
    <3>1. Follows(wire[r], asm[r]) /\ Held(r)' = asm[r]
      BY <1>d, <2>1, <2>9 DEF Held
    <3>. QED
      BY <2>9, <3>1 DEF Follows
  <2>11. wire'[from] = <<>> \/ wire'[from] = wire[from]
    BY <1>b, <2>2, <2>3
  <2>12. Follows(wire[from], Held(from)) /\ Held(from) = <<chunk[n]>>
    BY <1>d, <2>1, <2>2, <2>4 DEF Held
  <2>13. \A g : <<chunk[n]>> = <<HeadOf(g)>> => Held(from)' = <<HeadOf(g)>>
    <3>1. CASE n = 1
      <4>1. chunk' = <<>> /\ Held(from)' = asm'[from]
        BY <1>b, <2>1, <2>5, <3>1 DEF Held
      <4>. QED
        BY <2>7, <3>1, <4>1
    <3>2. CASE n # 1
      <4>1. n - 1 \in 1 .. n - 1 /\ (n - 1) + 1 = n
        BY <2>4, <3>2
      <4>2. chunk' # <<>> /\ chunk'[Len(chunk')] = chunk[n]
        BY <2>5, <4>1
      <4>. QED
        BY <2>1, <4>2 DEF Held
    <3>. QED
      BY <3>1, <3>2
  <2>14. Follows(wire[from], Held(from))'
    <3>1. CASE wire'[from] = <<>>
      BY <2>1, <3>1 DEF Follows
    <3>2. CASE wire'[from] = wire[from]
      BY <2>1, <2>12, <2>13, <3>2 DEF Follows
    <3>. QED
      BY <2>11, <3>1, <3>2
  <2>. QED
    BY <2>1, <2>8, <2>10, <2>14 DEF Framed
<1>8. PortOpens \/ FrameArrives \/ OnEvents \/ LoopEnds \/ UNCHANGED vars => Framed'
  <2>1. PortOpens \/ FrameArrives \/ LoopEnds \/ UNCHANGED vars
          => UNCHANGED <<wire, asm, chunk, from>>
    BY DEF PortOpens, FrameArrives, LoopEnds, vars, handler
  <2>2. OnEvents => UNCHANGED <<wire, asm, chunk, from>>
    BY DEF OnEvents
  <2>. QED
    BY <1>2, <2>1, <2>2
<1>. QED
  BY <1>3, <1>4, <1>5, <1>6, <1>7, <1>8 DEF Next

\* ... keeps the loops of a chunk away from where it came from ...
LEMMA ChunkLoopsStep ==
  ASSUME TypeOK, ChunkLoops, [Next]_vars
  PROVE  ChunkLoops'
<1>a. todo \in Seq(LoopSet)
  BY TypeParts DEF HandlerTyped
<1>1. ASSUME chunk' = <<>> \/ todo' = <<>> \/ UNCHANGED <<todo, chunk, from>>
      PROVE  ChunkLoops'
  BY <1>1 DEF ChunkLoops
<1>2. ASSUME NEW item, NEW skip, todo' = <<Loop(item, skip)>>, from' = skip
      PROVE  ChunkLoops'
  BY <1>2 DEF ChunkLoops, Loop
<1>3. ASSUME NEW s \in Sockets, ReadyRead(s)
      PROVE  ChunkLoops'
  BY <1>2, <1>3 DEF ReadyRead, Take
<1>4. CASE LoopEnds
  <2>1. todo # <<>> /\ todo' = Tail(todo) /\ UNCHANGED <<chunk, from>>
    BY <1>4 DEF LoopEnds
  <2>2. Len(todo) = 1 => todo' = <<>>
    BY <1>a, <2>1
  <2>. QED
    BY <1>1, <2>1, <2>2 DEF ChunkLoops
<1>5. CASE Parse
  <2>1. PICK f : from' = from /\ todo = <<>> /\ (NoAnswer \/ DataPacket(f) \/ ControlPacket(f))
    BY <1>5 DEF Parse
  <2>2. NoAnswer \/ ControlPacket(f) => todo' = todo
    BY DEF NoAnswer, ControlPacket, SendToUI
  <2>. QED
    BY <1>1, <1>2, <2>1, <2>2 DEF DataPacket
<1>6. CASE OnEvents
  BY <1>1, <1>6 DEF OnEvents, Idle
<1>7. ASSUME NEW s \in Sockets, OnNewConnection(s) \/ Disconnected(s)
      PROVE  ChunkLoops'
  BY <1>1, <1>7 DEF OnNewConnection, Admit, Disconnected, handler
<1>8. ASSUME NEW s \in Sockets, NEW kind \in Kinds, ClientSends(s, kind)
      PROVE  ChunkLoops'
  BY <1>1, <1>8 DEF ClientSends, handler
<1>9. CASE PortOpens \/ FrameArrives \/ WriteNext \/ UNCHANGED vars
  BY <1>1, <1>9 DEF PortOpens, FrameArrives, WriteNext, Turn, vars, handler
<1>. QED
  BY <1>3, <1>4, <1>5, <1>6, <1>7, <1>8, <1>9 DEF Next

\* ... keeps the heads that assemblers hold seen ...
LEMMA AssemblersStep ==
  ASSUME TypeOK, OrderKept, Framed, AssemblersRelayed, [Next]_vars
  PROVE  AssemblersRelayed'
<1>a. ClientsTyped /\ HandlerTyped /\ HistoryTyped
  BY TypeParts
<1>b. /\ out \in [Sockets -> Seq(ItemSet)] /\ missed \in [Sockets -> SUBSET Frames]
      /\ asm \in [Sockets -> {NoHead} \cup {<<piece>> : piece \in Pieces}]
      /\ Assocs \subseteq Sockets
  BY <1>a DEF ClientsTyped, HistoryTyped
<1>1. ASSUME UNCHANGED <<Assocs, asm, out, missed>>
      PROVE  AssemblersRelayed'
  BY <1>1 DEF AssemblersRelayed, HeadSeen, RelayedTo
<1>2. ASSUME NEW s \in Sockets, Forget(s)
      PROVE  AssemblersRelayed'
  <2>1. \A r \in Sockets : asm'[r] \in {asm[r], NoHead}
    BY <1>b, <1>2 DEF Forget
  <2>2. \A r \in Assocs' : /\ r \in Assocs /\ missed'[r] = missed[r]
                           /\ \A piece : RelayedTo(r, piece) => RelayedTo(r, piece)'
    BY <1>b, <1>2, ForgetOrdered DEF Forget
  <2>. QED
    BY <2>1, <2>2, AssemblersStay
<1>3. ASSUME NEW s \in Sockets, OnNewConnection(s)
      PROVE  AssemblersRelayed'
  <2>1. /\ Assocs' = Assocs \cup {s} /\ s \notin Assocs
        /\ asm' = [asm EXCEPT ![s] = NoHead] /\ out' = [out EXCEPT ![s] = <<>>]
        /\ missed' = [missed EXCEPT ![s] = Begun]
    BY <1>3 DEF OnNewConnection, Admit
  <2>2. ASSUME NEW r \in Sockets, NEW f \in Frames, asm'[r] = <<HeadOf(f)>>,
               NEW t \in Assocs' \ {r}
        PROVE  HeadSeen(t, f)'
    <3>1. asm[r] = <<HeadOf(f)>>
      BY <1>b, <2>1, <2>2 DEF NoHead
    <3>2. CASE t = s
      BY <1>b, <2>1, <3>1, <3>2 DEF HeadSeen, Begun
    <3>3. CASE t # s
      <4>1. HeadSeen(t, f) /\ t \in Sockets \ {s}
        BY <1>b, <2>1, <2>2, <3>1, <3>3 DEF AssemblersRelayed
      <4>2. missed'[t] = missed[t] /\ \A piece : RelayedTo(t, piece) => RelayedTo(t, piece)'
        BY <1>b, <2>1, <4>1, ForgetOrdered
      <4>. QED
        BY <4>1, <4>2 DEF HeadSeen
    <3>. QED
      BY <3>2, <3>3
  <2>. QED
    BY <2>2 DEF AssemblersRelayed
<1>4. CASE WriteNext
  <2>1. PICK s \in Assocs : Turn(s)
    BY <1>4 DEF WriteNext
  <2>2. s \in Sockets /\ Head(todo).item \in ItemSet
    <3>1. Head(todo) \in LoopSet
      BY <1>4, <1>a DEF WriteNext, HandlerTyped
    <3>. QED
      BY <1>b, <3>1 DEF LoopSet
  <2>3. ASSUME out' = [out EXCEPT ![s] = Append(@, Head(todo).item)],
               UNCHANGED <<Assocs, asm, missed>>
        PROVE  AssemblersRelayed'
    <3>1. \A r \in Sockets : \A piece : RelayedTo(r, piece) => RelayedTo(r, piece)'
      BY <1>b, <2>2, <2>3, WriteOrdered
    <3>. QED
      BY <1>b, <2>3, <3>1, AssemblersStay
  <2>. QED
    BY <1>1, <1>2, <2>1, <2>2, <2>3 DEF Turn
<1>5. CASE Parse
  <2>0. PICK f : f = Head(chunk).frame
    OBVIOUS
  <2>1. /\ todo = <<>> /\ chunk # <<>>
        /\ \/ Head(chunk).part = "head" /\ asm' = [asm EXCEPT ![from] = <<Head(chunk)>>]
              /\ NoAnswer
           \/ Head(chunk).part = "tail" /\ asm' = [asm EXCEPT ![from] = NoHead]
              /\ (DataPacket(f) \/ ControlPacket(f))
    BY <1>5, <2>0 DEF Parse
  <2>2. from \in Sockets /\ Head(chunk) \in Pieces /\ f \in Frames
    <3>1. Head(chunk) \in Pieces
      BY <1>a, <2>1 DEF HandlerTyped
    <3>. QED
      BY <2>0, <2>1, <3>1 DEF Framed, ChunkFramed, Pieces
  <2>3. CASE Head(chunk).part = "head" /\ asm' = [asm EXCEPT ![from] = <<Head(chunk)>>]
             /\ NoAnswer
    <3>1. UNCHANGED <<Assocs, out, missed>>
      BY <2>3 DEF NoAnswer
    <3>2. \A s \in Assocs \ {from} : RelayedTo(s, Head(chunk))
      <4>1. 1 \in DOMAIN chunk /\ Head(chunk) = chunk[1]
        BY <1>a, <2>1 DEF HandlerTyped
      <4>. QED
        BY <2>1, <4>1 DEF OrderKept, ChunkRelayed, RawAhead
    <3>3. ASSUME NEW r \in Sockets, NEW g \in Frames, asm'[r] = <<HeadOf(g)>>,
                 NEW s \in Assocs \ {r}
          PROVE  HeadSeen(s, g)
      <4>1. CASE r = from
        <5>1. asm'[r] = <<Head(chunk)>>
          BY <1>b, <2>2, <2>3, <4>1
        <5>2. Head(chunk) = HeadOf(g)
          BY <3>3, <5>1
        <5>. QED
          BY <3>2, <4>1, <5>2 DEF HeadSeen
      <4>2. CASE r # from
        BY <1>b, <2>3, <3>3, <4>2 DEF AssemblersRelayed
      <4>. QED
        BY <4>1, <4>2
    <3>. QED
      BY <3>1, <3>3 DEF AssemblersRelayed, HeadSeen, RelayedTo
  <2>4. CASE asm' = [asm EXCEPT ![from] = NoHead] /\ (DataPacket(f) \/ ControlPacket(f))
    <3>1. \A r \in Sockets : asm'[r] \in {asm[r], NoHead}
      BY <1>b, <2>4
    <3>2. UNCHANGED <<Assocs, out, missed>> \/ SendToUI(f)
      BY <2>4 DEF DataPacket, ControlPacket, NoAnswer
    <3>3. CASE UNCHANGED <<Assocs, out, missed>>
      <4>1. \A s \in Assocs' : \A piece : RelayedTo(s, piece) => RelayedTo(s, piece)'
        BY <3>3 DEF RelayedTo
      <4>. QED
        BY <3>1, <3>3, <4>1, AssemblersStay
    <3>4. CASE out' = [out EXCEPT ![from] = Append(@, Answer(f))] /\ UNCHANGED <<Assocs, missed>>
      <4>1. Answer(f) \in ItemSet
        BY <2>2, ItemTypes
      <4>2. \A s \in Sockets : \A piece : RelayedTo(s, piece) => RelayedTo(s, piece)'
        BY <1>b, <2>2, <3>4, <4>1, WriteOrdered
      <4>. QED
        BY <1>b, <3>1, <3>4, <4>2, AssemblersStay
    <3>5. CASE Assocs' = Assocs \ {from} /\ out' = [out EXCEPT ![from] = <<>>]
               /\ missed' = [missed EXCEPT ![from] = {}]
      <4>1. \A s \in Assocs' : /\ s \in Assocs /\ missed'[s] = missed[s]
                               /\ \A piece : RelayedTo(s, piece) => RelayedTo(s, piece)'
        BY <1>b, <2>2, <3>5, ForgetOrdered
      <4>. QED
        BY <3>1, <4>1, AssemblersStay
    <3>. QED
      BY <3>2, <3>3, <3>4, <3>5 DEF SendToUI
  <2>. QED
    BY <2>1, <2>3, <2>4
<1>6. ASSUME NEW s \in Sockets,
             Disconnected(s) \/ ReadyRead(s) \/ \E kind \in Kinds : ClientSends(s, kind)
      PROVE  AssemblersRelayed'
  BY <1>1, <1>2, <1>6 DEF Disconnected, ReadyRead, Take, ClientSends
<1>7. CASE PortOpens \/ FrameArrives \/ OnEvents \/ LoopEnds \/ UNCHANGED vars
  BY <1>1, <1>7 DEF PortOpens, FrameArrives, OnEvents, LoopEnds, vars
<1>. QED
  BY <1>3, <1>4, <1>5, <1>6, <1>7 DEF Next

\* ... and keeps every tail that was written behind its head.
LEMMA HeadsStep ==
  ASSUME TypeOK, OrderKept, HeadsKept, [Next]_vars
  PROVE  \A s \in Sockets : HeadsFirst(s)'
<1>a. ClientsTyped /\ HandlerTyped /\ HistoryTyped
  BY TypeParts
<1>b. /\ out \in [Sockets -> Seq(ItemSet)] /\ missed \in [Sockets -> SUBSET Frames]
      /\ Assocs \subseteq Sockets
  BY <1>a DEF ClientsTyped, HistoryTyped
<1>c. \A s \in Sockets : HeadsFirst(s)
  BY DEF HeadsKept
<1>1. ASSUME UNCHANGED <<out, missed>>
      PROVE  \A s \in Sockets : HeadsFirst(s)'
  BY <1>c, <1>1 DEF HeadsFirst, HeadBefore, PiecesAt
<1>2. ASSUME NEW s \in Sockets, NEW set, out' = [out EXCEPT ![s] = <<>>],
             missed' = [missed EXCEPT ![s] = set]
      PROVE  \A r \in Sockets : HeadsFirst(r)'
  BY <1>b, <1>c, <1>2, HeadsForgotten
<1>3. ASSUME NEW s \in Sockets, OnNewConnection(s) \/ Disconnected(s)
      PROVE  \A r \in Sockets : HeadsFirst(r)'
  BY <1>2, <1>3 DEF OnNewConnection, Admit, Disconnected, Forget
<1>4. ASSUME NEW s \in Assocs, Turn(s), todo # <<>>
      PROVE  \A r \in Sockets : HeadsFirst(r)'
  <2> DEFINE item == Head(todo).item
  <2>1. s \in Sockets /\ item \in ItemSet /\ LoopOrdered(Head(todo))
    <3>1. Head(todo) \in LoopSet /\ LoopOrdered(Head(todo))
      BY <1>4, <1>a DEF HandlerTyped, OrderKept, TodoOrdered
    <3>. QED
      BY <1>b, <3>1 DEF LoopSet
  <2>2. ASSUME s # Head(todo).skip, out' = [out EXCEPT ![s] = Append(@, item)], UNCHANGED missed
        PROVE  \A r \in Sockets : HeadsFirst(r)'
    <3>1. ASSUME item.what = "raw", NEW n \in DOMAIN item.pieces, NEW f \in Frames,
                 item.pieces[n] = TailOf(f)
          PROVE  HeadSeen(s, f) \/ \E m \in 1 .. n - 1 : item.pieces[m] = HeadOf(f)
      <4>1. item.pieces = chunk /\ s # from /\ chunk \in Seq(Pieces)
        BY <1>a, <2>1, <2>2, <3>1 DEF LoopOrdered, HandlerTyped
      <4>2. n \in DOMAIN chunk /\ chunk # <<>> /\ n \in Nat
        BY <3>1, <4>1
      <4>3. from \in Sockets /\ Follows(chunk, asm[from])
        BY <4>2 DEF HeadsKept, Framed, ChunkFramed
      <4>4. chunk[n].part = "tail" /\ chunk[n].frame = f
        BY <3>1, <4>1, HeadsAndTails
      <4>5. CASE n = 1 /\ asm[from] = <<HeadOf(f)>>
        BY <4>1, <4>3, <4>5 DEF HeadsKept, AssemblersRelayed
      <4>6. CASE n > 1 /\ chunk[n - 1] = HeadOf(f)
        BY <4>1, <4>2, <4>6
      <4>. QED
        BY <4>2, <4>3, <4>4, <4>5, <4>6 DEF Follows
    <3>. QED
      BY <1>b, <1>c, <2>1, <2>2, <3>1, HeadsWritten
  <2>. QED
    BY <1>1, <1>2, <1>4, <2>1, <2>2 DEF Turn, Forget
<1>5. CASE WriteNext
  BY <1>4, <1>5 DEF WriteNext
<1>6. CASE Parse
  <2>1. PICK f : f = Head(chunk).frame /\ chunk # <<>>
                 /\ (NoAnswer \/ DataPacket(f) \/ ControlPacket(f))
    BY <1>6 DEF Parse
  <2>2. from \in Sockets /\ f \in Frames
    <3>1. Head(chunk) \in Pieces
      BY <1>a, <2>1 DEF HandlerTyped
    <3>. QED
      BY <2>1, <3>1 DEF HeadsKept, Framed, ChunkFramed, Pieces
  <2>3. CASE UNCHANGED <<out, missed>>
    BY <1>1, <2>3
  <2>4. CASE out' = [out EXCEPT ![from] = Append(@, Answer(f))] /\ UNCHANGED missed
    <3>1. Answer(f) \in ItemSet /\ Answer(f).what # "raw"
      BY <2>2, ItemTypes DEF Answer
    <3>. QED
      BY <1>b, <1>c, <2>2, <2>4, <3>1, HeadsWritten
  <2>5. CASE out' = [out EXCEPT ![from] = <<>>] /\ missed' = [missed EXCEPT ![from] = {}]
    BY <1>2, <2>2, <2>5
  <2>. QED
    BY <2>1, <2>3, <2>4, <2>5 DEF NoAnswer, DataPacket, ControlPacket, SendToUI
<1>7. ASSUME NEW s \in Sockets, ReadyRead(s) \/ \E kind \in Kinds : ClientSends(s, kind)
      PROVE  \A r \in Sockets : HeadsFirst(r)'
  BY <1>1, <1>7 DEF ReadyRead, Take, ClientSends
<1>8. CASE PortOpens \/ FrameArrives \/ OnEvents \/ LoopEnds \/ UNCHANGED vars
  BY <1>1, <1>8 DEF PortOpens, FrameArrives, OnEvents, LoopEnds, vars
<1>. QED
  BY <1>3, <1>5, <1>6, <1>7, <1>8 DEF Next

\* So it is always: whoever was connected when the head of a frame was read has
\* it before the tail.
LEMMA HeadsInvariant == Spec => []HeadsKept
<1>1. Init => HeadsKept
  BY DEF Init, HeadsKept, Framed, ChunkFramed, Follows, ChunkLoops, AssemblersRelayed, HeadsFirst,
         NoHead
<1>2. TypeOK /\ OrderKept /\ HeadsKept /\ [Next]_vars => HeadsKept'
  BY FramedStep, ChunkLoopsStep, AssemblersStep, HeadsStep DEF HeadsKept
<1>. QED
  BY <1>1, <1>2, ServerTypeCorrect, OrderInvariant, PTL DEF Spec

\* A client has the whole frame, head and tail, before it gets the copy that the
\* server wraps, wherever TCP cuts the stream and whoever leaves while either is
\* written; only a client that connected between two reads of the frame has its
\* tail alone.
THEOREM RawBeforeWrapped == Spec => []WrappedAfterRaw
<1>1. TypeOK /\ OrderKept /\ HeadsKept => WrappedAfterRaw
  <2> SUFFICES ASSUME TypeOK, OrderKept, HeadsKept, NEW s \in Assocs, NEW k \in DOMAIN out[s],
                      out[s][k].what = "wrapped"
               PROVE  WholeBefore(s, k, out[s][k].frame)
    BY DEF WrappedAfterRaw
  <2> DEFINE f == out[s][k].frame
  <2>1. /\ s \in Sockets /\ out[s] \in Seq(ItemSet) /\ out[s][k] \in ItemSet
        /\ DOMAIN out[s] = 1 .. Len(out[s]) /\ k \in 1 .. Len(out[s]) /\ Len(out[s]) \in Nat
    BY DEF TypeOK
  <2>2. f \in Frames
    BY <2>1 DEF ItemSet
  <2>3. TailSeenBefore(s, k, f)
    BY <2>1 DEF OrderKept, Ordered
  <2>4. PICK j \in 1 .. k - 1 :
          /\ out[s][j].what = "raw"
          /\ TailOf(f) \in {out[s][j].pieces[n] : n \in DOMAIN out[s][j].pieces}
    BY <2>3 DEF TailSeenBefore
  <2>5. PICK n \in DOMAIN PiecesAt(s, j) : PiecesAt(s, j)[n] = TailOf(f)
    BY <2>4 DEF PiecesAt
  <2>6. j \in DOMAIN out[s]
    BY <2>1
  <2>7. HeadBefore(s, j, n, f)
    BY <2>1, <2>2, <2>5, <2>6 DEF HeadsKept, HeadsFirst
  <2>. QED
    BY <2>5, <2>7 DEF WholeBefore
<1>. QED
  BY <1>1, ServerTypeCorrect, OrderInvariant, HeadsInvariant, PTL

-----------------------------------------------------------------------------
(* What was given to a port before it was closed is not reported after *)

\* What a client sent and nobody parsed yet.
Unparsed(s) == (IF from = s THEN chunk ELSE <<>>) \o wire[s]

\* Frames are numbered as clients send them, and go from their head to their tail.
Precedes(p, q) ==
  /\ p.frame.no <= q.frame.no
  /\ p.part = "tail" \/ q.part = "head" => p.frame.no < q.frame.no
SentInOrder(s) ==
  \A j, k \in DOMAIN Unparsed(s) :
    /\ Unparsed(s)[k].frame.no <= made
    /\ j < k => Precedes(Unparsed(s)[j], Unparsed(s)[k])

\* The "cp" a client was answered, and what is on its way after each of them.
Told(s) ==
  {out[s][i].frame : i \in {n \in DOMAIN out[s] : /\ out[s][n].what = "answer"
                                                  /\ out[s][n].frame.kind = "cp"}}
UnparsedLater(s, no) == \A k \in DOMAIN Unparsed(s) : Unparsed(s)[k].frame.no > no
QueuedLater(s, no) == \A k \in DOMAIN txq : txq[k].from = s => txq[k].no > no
LoopLater(loop, s, no) ==
  loop.item.what = "report" /\ loop.item.packet.from = s => loop.item.packet.no > no
Later(s, no) ==
  /\ no <= made /\ UnparsedLater(s, no) /\ QueuedLater(s, no)
  /\ \A k \in DOMAIN todo : LoopLater(todo[k], s, no)
OnlyLater(s) == \A asked \in Told(s) : Later(s, asked.no)

Silent(s) ==
  \A i, j \in DOMAIN out[s] :
    LET asked == out[s][i]  told == out[s][j] IN
      /\ i < j /\ told.what = "report" /\ told.packet.from = s
      /\ asked.what = "answer" /\ asked.frame.kind = "cp"
      => told.packet.no > asked.frame.no
SilenceKept == \A s \in Sockets : SentInOrder(s) /\ OnlyLater(s) /\ Silent(s)

\* In most steps what is not parsed yet only gets shorter.
Shrinks(s) ==
  /\ made' = made
  /\ \E d \in Nat : \A k \in DOMAIN Unparsed(s)' :
       k + d \in DOMAIN Unparsed(s) /\ Unparsed(s)'[k] = Unparsed(s)[k + d]

\* Pieces have numbers and can be put together; so can what a client sent.
LEMMA PieceNumbers == \A p \in Pieces : p.frame \in Frames /\ p.frame.no \in Nat
  BY DEF Pieces, Frames

LEMMA JoinPieces ==
  ASSUME NEW c \in Seq(Pieces), NEW w \in Seq(Pieces), NEW pair \in Seq(Pieces)
  PROVE  (c \o w) \o pair = c \o (w \o pair)
  BY ConcatAssociative, SMTT(30)

LEMMA UnparsedTyped ==
  ASSUME ClientsTyped, HandlerTyped, NEW s \in Sockets
  PROVE  Unparsed(s) \in Seq(Pieces) /\ wire[s] \in Seq(Pieces)
  BY DEF ClientsTyped, HandlerTyped, Unparsed

\* What getting shorter comes down to: a part at either end goes.
LEMMA ShrinksIf ==
  ASSUME NEW s \in Sockets, Unparsed(s) \in Seq(Pieces), made' = made,
         \/ Unparsed(s)' = Unparsed(s) \/ Unparsed(s)' = <<>>
         \/ Unparsed(s) # <<>> /\ Unparsed(s)' = Tail(Unparsed(s))
         \/ \E c, w \in Seq(Pieces) :
              /\ Unparsed(s) = c \o w
              /\ Unparsed(s)' = c \/ (c # <<>> /\ Unparsed(s)' = Tail(c))
  PROVE  Shrinks(s)
<1> DEFINE u == Unparsed(s)
           v == Unparsed(s)'
           By(d) == \A k \in DOMAIN v : k + d \in DOMAIN u /\ v[k] = u[k + d]
<1>1. CASE v = u
  <2>1. By(0)
    BY <1>1
  <2>. QED
    BY <2>1 DEF Shrinks
<1>2. CASE v = <<>>
  <2>1. By(0)
    BY <1>2
  <2>. QED
    BY <2>1 DEF Shrinks
<1>3. CASE u # <<>> /\ v = Tail(u)
  <2>1. By(1)
    BY <1>3
  <2>. QED
    BY <2>1 DEF Shrinks
<1>4. ASSUME NEW c \in Seq(Pieces), NEW w \in Seq(Pieces), u = c \o w, v = c
      PROVE  Shrinks(s)
  <2>1. By(0)
    BY <1>4
  <2>. QED
    BY <2>1 DEF Shrinks
<1>5. ASSUME NEW c \in Seq(Pieces), NEW w \in Seq(Pieces), u = c \o w, c # <<>>, v = Tail(c)
      PROVE  Shrinks(s)
  <2>1. By(1)
    BY <1>5
  <2>. QED
    BY <2>1 DEF Shrinks
<1>. QED
  BY <1>1, <1>2, <1>3, <1>4, <1>5

\* What gets shorter keeps its order, and has nothing new in it.
LEMMA ShrinksKeeps ==
  ASSUME NEW s \in Sockets, Shrinks(s), Unparsed(s) \in Seq(Pieces), Unparsed(s)' \in Seq(Pieces)
  PROVE  /\ SentInOrder(s) => SentInOrder(s)'
         /\ \A no : UnparsedLater(s, no) => UnparsedLater(s, no)'
<1>1. PICK d \in Nat : \A k \in DOMAIN Unparsed(s)' :
        k + d \in DOMAIN Unparsed(s) /\ Unparsed(s)'[k] = Unparsed(s)[k + d]
  BY DEF Shrinks
<1>2. made' = made
  BY DEF Shrinks
<1>3. \A j, k \in DOMAIN Unparsed(s)' : j < k => j + d < k + d
  OBVIOUS
<1>4. ASSUME SentInOrder(s), NEW j \in DOMAIN Unparsed(s)', NEW k \in DOMAIN Unparsed(s)'
      PROVE  /\ Unparsed(s)'[k].frame.no <= made
             /\ j < k => Precedes(Unparsed(s)'[j], Unparsed(s)'[k])
  BY <1>1, <1>3, <1>4 DEF SentInOrder
<1>5. SentInOrder(s) => SentInOrder(s)'
  BY <1>2, <1>4 DEF SentInOrder, Precedes
<1>6. \A no : UnparsedLater(s, no) => UnparsedLater(s, no)'
  BY <1>1 DEF UnparsedLater
<1>. QED
  BY <1>5, <1>6

\* What a write adds to a stream.
LEMMA StreamGrows ==
  ASSUME NEW s \in Sockets, NEW item \in ItemSet, out[s] \in Seq(ItemSet),
         out'[s] = Append(out[s], item)
  PROVE  /\ Told(s)' = Told(s) \cup
              {f \in Frames : f.kind = "cp" /\ item = Answer(f)}
         /\ (item.what = "report" /\ item.packet.from = s =>
               \A asked \in Told(s) : item.packet.no > asked.no)
            => (Silent(s) => Silent(s)')
<1> DEFINE n == Len(out[s])
           Asked(x) == x.what = "answer" /\ x.frame.kind = "cp"
<1>1. /\ n \in Nat /\ DOMAIN out[s] = 1 .. n /\ DOMAIN out'[s] = 1 .. n + 1
      /\ out'[s][n + 1] = item /\ \A k \in 1 .. n : out'[s][k] = out[s][k]
  OBVIOUS
<1>2. \A f : f \in Frames /\ f.kind = "cp" /\ item = Answer(f)
             <=> Asked(item) /\ f = item.frame
  <2>1. item.what = "answer" => item.frame \in Frames /\ item = Answer(item.frame)
    BY DEF ItemSet, Answer
  <2>. QED
    BY <2>1 DEF Answer
<1>3. \A f : f \in Told(s) <=> \E k \in 1 .. n : Asked(out[s][k]) /\ f = out[s][k].frame
  BY <1>1 DEF Told
<1>4. \A f : f \in Told(s)' <=> \E k \in 1 .. n + 1 : Asked(out'[s][k]) /\ f = out'[s][k].frame
  BY <1>1 DEF Told
<1>5. \A k : k \in 1 .. n + 1 <=> k \in 1 .. n \/ k = n + 1
  BY <1>1
<1> HIDE DEF n
<1>6. \A f : f \in Told(s)' <=> f \in Told(s) \/ (Asked(item) /\ f = item.frame)
  BY <1>1, <1>3, <1>4, <1>5
<1>7. Told(s)' = Told(s) \cup {f \in Frames : f.kind = "cp" /\ item = Answer(f)}
  BY <1>2, <1>6
<1>8. ASSUME item.what = "report" /\ item.packet.from = s =>
               \A asked \in Told(s) : item.packet.no > asked.no,
             Silent(s), NEW i \in DOMAIN out'[s], NEW j \in DOMAIN out'[s],
             i < j, out'[s][j].what = "report", out'[s][j].packet.from = s, Asked(out'[s][i])
      PROVE  out'[s][j].packet.no > out'[s][i].frame.no
  <2>1. i \in 1 .. n /\ out'[s][i] = out[s][i]
    BY <1>1, <1>5, <1>8
  <2>2. CASE j \in 1 .. n
    BY <1>1, <1>8, <2>1, <2>2 DEF Silent
  <2>3. CASE j = n + 1
    BY <1>1, <1>3, <1>8, <2>1, <2>3
  <2>. QED
    BY <1>1, <1>5, <2>2, <2>3
<1>. QED
  BY <1>7, <1>8 DEF Silent

\* What a client was told is a frame.
LEMMA ToldTyped ==
  ASSUME NEW s, out[s] \in Seq(ItemSet), NEW asked \in Told(s)
  PROVE  asked \in Frames /\ asked.no \in Nat
<1>1. PICK i \in DOMAIN out[s] : out[s][i].what = "answer" /\ asked = out[s][i].frame
  BY DEF Told
<1>2. out[s][i] \in ItemSet
  BY <1>1
<1>3. asked \in Frames
  BY <1>1, <1>2 DEF ItemSet
<1>. QED
  BY <1>3 DEF Frames

\* And one that is empty tells nothing.
LEMMA StreamEmpty ==
  ASSUME NEW s, out'[s] = <<>>
  PROVE  Told(s)' = {} /\ Silent(s)'
  BY DEF Told, Silent

\* One that nobody writes to stays as silent as it was.
LEMMA StreamSame ==
  ASSUME NEW s, out'[s] = out[s]
  PROVE  Told(s)' = Told(s) /\ (Silent(s) => Silent(s)')
  BY DEF Told, Silent

\* Nothing that is new is older than a "cp" that was answered before.
LEMMA LaterStays ==
  ASSUME NEW s \in Sockets, NEW no, Later(s, no), Shrinks(s),
         Unparsed(s) \in Seq(Pieces), Unparsed(s)' \in Seq(Pieces),
         QueuedLater(s, no)', \A k \in DOMAIN todo' : LoopLater(todo'[k], s, no)
  PROVE  Later(s, no)'
  BY ShrinksKeeps DEF Later, LoopLater, Shrinks

\* What else can stay as it was.
LEMMA LaterParts ==
  /\ \A s, no : UNCHANGED txq /\ QueuedLater(s, no) => QueuedLater(s, no)'
  /\ \A s, no : Later(s, no) =>
       QueuedLater(s, no) /\ \A k \in DOMAIN todo : LoopLater(todo[k], s, no)
  BY DEF QueuedLater, Later

\* Every step keeps the silence.
LEMMA SilenceStep ==
  ASSUME RelayInductive, OrderKept, SilenceKept, [Next]_vars
  PROVE  SilenceKept'
<1>a. /\ ClientsTyped /\ PortTyped /\ HandlerTyped /\ ClientsTyped' /\ HandlerTyped'
      /\ todo = <<>> => it = Nobody
      /\ \A k \in DOMAIN chunk : chunk[k].frame.from = from
  BY TypeStep, TypeParts, TypePartsNext DEF RelayInductive, OriginKept, AtRest
<1>b. \A s \in Sockets :
        /\ Unparsed(s) \in Seq(Pieces) /\ Unparsed(s)' \in Seq(Pieces)
        /\ wire[s] \in Seq(Pieces) /\ out[s] \in Seq(ItemSet)
        /\ SentInOrder(s) /\ OnlyLater(s) /\ Silent(s)
  <2>1. \A s \in Sockets : Unparsed(s) \in Seq(Pieces) /\ wire[s] \in Seq(Pieces)
    BY <1>a, UnparsedTyped
  <2>2. \A s \in Sockets : Unparsed(s)' \in Seq(Pieces)
    BY <1>a DEF ClientsTyped, HandlerTyped, Unparsed
  <2>. QED
    BY <1>a, <2>1, <2>2 DEF SilenceKept, ClientsTyped
\* Most steps show the following of every socket.
<1> DEFINE Kept(s) == SentInOrder(s)' /\ OnlyLater(s)' /\ Silent(s)'
<1>c. ASSUME NEW s \in Sockets, Shrinks(s), Told(s)' = {}, Silent(s)'
      PROVE  Kept(s)
  BY <1>b, <1>c, ShrinksKeeps DEF OnlyLater
<1>d. ASSUME NEW s \in Sockets, Shrinks(s), Told(s)' = Told(s), Silent(s)',
             \A no : Later(s, no) =>
               QueuedLater(s, no)' /\ \A k \in DOMAIN todo' : LoopLater(todo'[k], s, no)
      PROVE  Kept(s)
  <2>1. ASSUME NEW asked \in Told(s)' PROVE Later(s, asked.no)'
    <3>1. Later(s, asked.no)
      BY <1>b, <1>d, <2>1 DEF OnlyLater
    <3>. QED
      BY <1>b, <1>d, <3>1, LaterStays
  <2>. QED
    BY <1>b, <1>d, <2>1, ShrinksKeeps DEF OnlyLater
<1>e. ASSUME NEW s \in Sockets, UNCHANGED <<made, txq, todo>>, Unparsed(s)' = Unparsed(s),
             out'[s] = out[s]
      PROVE  Kept(s)
  BY <1>b, <1>d, <1>e, ShrinksIf, StreamSame, LaterParts
<1> HIDE DEF Kept
<1>1. ASSUME NEW s \in Sockets, OnNewConnection(s) \/ Disconnected(s)
      PROVE  \A r \in Sockets : Kept(r)
  <2>1. /\ chunk = <<>> /\ UNCHANGED <<todo, chunk, from, made, txq>>
        /\ out' = [out EXCEPT ![s] = <<>>] /\ wire' = [wire EXCEPT ![s] = <<>>]
    BY <1>1 DEF OnNewConnection, Admit, Disconnected, Forget, Idle, handler, portVars
  <2>2. /\ out'[s] = <<>> /\ wire'[s] = <<>>
        /\ \A r \in Sockets \ {s} : out'[r] = out[r] /\ wire'[r] = wire[r]
    BY <1>a, <2>1 DEF ClientsTyped
  <2>3. Kept(s)
    <3>1. Unparsed(s)' = <<>>
      BY <2>1, <2>2 DEF Unparsed
    <3>. QED
      BY <1>b, <1>c, <2>1, <2>2, <3>1, ShrinksIf, StreamEmpty
  <2>4. ASSUME NEW r \in Sockets \ {s} PROVE Kept(r)
    <3>1. Unparsed(r)' = Unparsed(r)
      BY <2>1, <2>2 DEF Unparsed
    <3>. QED
      BY <1>e, <2>1, <2>2, <3>1
  <2>. QED
    BY <2>3, <2>4
<1>2. ASSUME NEW s \in Sockets, ReadyRead(s)
      PROVE  \A r \in Sockets : Kept(r)
  <2>1. PICK n \in 1 .. Len(wire[s]) : Take(s, n) /\ todo' = <<Loop(Raw(chunk'), s)>>
    BY <1>2 DEF ReadyRead, Arrived
  <2>2. /\ chunk = <<>> /\ chunk' = SubSeq(wire[s], 1, n) /\ from' = s
        /\ wire' = [wire EXCEPT ![s] = SubSeq(@, n + 1, Len(@))]
        /\ UNCHANGED <<out, txq, made>>
    BY <2>1 DEF Take, Idle, portVars
  <2>3. wire[s] \in Seq(Pieces) /\ wire'[s] = SubSeq(wire[s], n + 1, Len(wire[s]))
    BY <1>b, <2>2, <1>a DEF ClientsTyped
  <2>4. SubSeq(wire[s], 1, n) \o SubSeq(wire[s], n + 1, Len(wire[s])) = wire[s]
    <3>1. /\ 1 \in 1 .. Len(wire[s]) + 1 /\ n \in 1 - 1 .. Len(wire[s])
          /\ Len(wire[s]) \in n .. Len(wire[s])
      BY <2>1, <2>3
    <3>. QED
      BY <2>3, <3>1, ConcatAdjacentSubSeq, SubSeqFull
  <2>5. \A r \in Sockets : Unparsed(r) = wire[r]
    BY <1>b, <2>2 DEF Unparsed
  <2>6. ASSUME NEW r \in Sockets PROVE Unparsed(r)' = Unparsed(r)
    <3>1. CASE r = s
      BY <2>2, <2>3, <2>4, <2>5, <3>1 DEF Unparsed
    <3>2. CASE r # s
      <4>1. wire'[r] = wire[r] /\ wire[r] \in Seq(Pieces)
        BY <1>a, <1>b, <2>2, <3>2 DEF ClientsTyped
      <4>. QED
        BY <2>2, <2>5, <3>2, <4>1 DEF Unparsed
    <3>. QED
      BY <3>1, <3>2
  <2>7. \A r, no : \A k \in DOMAIN todo' : LoopLater(todo'[k], r, no)
    BY <2>1 DEF LoopLater, Loop, Raw
  <2>. QED
    BY <1>b, <1>d, <2>2, <2>6, <2>7, ShrinksIf, StreamSame, LaterParts
<1>3. ASSUME NEW s \in Sockets, NEW kind \in Kinds, ClientSends(s, kind)
      PROVE  \A r \in Sockets : Kept(r)
  <2>0. PICK f : f = [no |-> made + 1, from |-> s, kind |-> kind]
    OBVIOUS
  <2>1. /\ wire' = [wire EXCEPT ![s] = @ \o <<HeadOf(f), TailOf(f)>>] /\ made' = made + 1
        /\ UNCHANGED <<out, txq, todo, chunk, from>>
    BY <1>3, <2>0 DEF ClientSends, handler, portVars
  <2>2. /\ HeadOf(f).frame.no = made + 1 /\ TailOf(f).frame.no = made + 1
        /\ HeadOf(f).part = "head" /\ TailOf(f).part = "tail" /\ made \in Nat
    BY <2>0 DEF HeadOf, TailOf, RelayInductive, TypeOK
  <2>3. ASSUME NEW r \in Sockets \ {s} PROVE Kept(r)
    <3>1. Unparsed(r)' = Unparsed(r)
      BY <1>a, <2>1 DEF Unparsed, ClientsTyped
    <3>2. SentInOrder(r)'
      <4>1. \A k \in DOMAIN Unparsed(r) : Unparsed(r)[k].frame.no \in Nat
        BY <1>b, PieceNumbers
      <4>2. \A k \in DOMAIN Unparsed(r) : Unparsed(r)[k].frame.no <= made + 1
        BY <1>b, <2>2, <4>1 DEF SentInOrder
      <4>. QED
        BY <1>b, <2>1, <3>1, <4>2 DEF SentInOrder, Precedes
    <3>3. OnlyLater(r)'
      <4>1. \A asked \in Told(r) : asked.no <= made + 1
        BY <1>b, <2>2, ToldTyped DEF OnlyLater, Later
      <4>2. Told(r)' = Told(r)
        BY <2>1 DEF Told
      <4>3. \A no : Later(r, no) /\ no <= made + 1 => Later(r, no)'
        BY <2>1, <3>1 DEF Later, UnparsedLater, QueuedLater, LoopLater
      <4>. QED
        BY <1>b, <4>1, <4>2, <4>3 DEF OnlyLater
    <3>. QED
      BY <1>b, <2>1, <3>2, <3>3, StreamSame DEF Kept
  <2>4. /\ Unparsed(s)' = Unparsed(s) \o <<HeadOf(f), TailOf(f)>>
        /\ HeadOf(f) \in Pieces /\ TailOf(f) \in Pieces
    <3>1. f \in Frames
      BY <1>3, <2>0, BoundsAssumption DEF ClientSends, Frames, RelayInductive, TypeOK
    <3>2. HeadOf(f) \in Pieces /\ TailOf(f) \in Pieces
      BY <3>1 DEF HeadOf, TailOf, Pieces
    <3>3. <<HeadOf(f), TailOf(f)>> \in Seq(Pieces)
      BY <3>2
    <3>4. wire'[s] = wire[s] \o <<HeadOf(f), TailOf(f)>>
      BY <1>a, <2>1 DEF ClientsTyped
    <3>5. (IF from = s THEN chunk ELSE <<>>) \in Seq(Pieces)
      BY <1>a DEF HandlerTyped
    <3>6. PICK c \in Seq(Pieces) : c = IF from = s THEN chunk ELSE <<>>
      BY <3>5
    <3>7. Unparsed(s) = c \o wire[s] /\ Unparsed(s)' = c \o (wire[s] \o <<HeadOf(f), TailOf(f)>>)
      BY <2>1, <3>4, <3>6 DEF Unparsed
    <3>8. (c \o wire[s]) \o <<HeadOf(f), TailOf(f)>> = c \o (wire[s] \o <<HeadOf(f), TailOf(f)>>)
      <4>1. PICK w, pair \in Seq(Pieces) : w = wire[s] /\ pair = <<HeadOf(f), TailOf(f)>>
        BY <1>b, <3>3
      <4>2. (c \o w) \o pair = c \o (w \o pair)
        BY JoinPieces
      <4>. QED
        BY <4>1, <4>2
    <3>. QED
      BY <3>2, <3>7, <3>8
  <2>5. PICK u \in Seq(Pieces) : u = Unparsed(s)
    BY <1>b
  <2>6. PICK v \in Seq(Pieces) : v = Unparsed(s)'
    BY <1>b
  <2>7. /\ Len(u) \in Nat /\ DOMAIN u = 1 .. Len(u) /\ DOMAIN v = 1 .. Len(u) + 2
        /\ \A k \in 1 .. Len(u) : v[k] = u[k]
        /\ v[Len(u) + 1] = HeadOf(f) /\ v[Len(u) + 2] = TailOf(f)
    BY <2>4, <2>5, <2>6
  <2>8. \A k \in DOMAIN v : k \in 1 .. Len(u) \/ k = Len(u) + 1 \/ k = Len(u) + 2
    BY <2>7
  <2>9. /\ \A k \in 1 .. Len(u) : u[k].frame.no <= made /\ u[k].frame.no \in Nat
        /\ \A j, k \in 1 .. Len(u) : j < k => Precedes(u[j], u[k])
    <3>1. \A k \in 1 .. Len(u) : u[k].frame.no \in Nat
      BY PieceNumbers
    <3>. QED
      BY <1>b, <2>5, <2>7, <3>1 DEF SentInOrder
  <2>10. ASSUME NEW j \in DOMAIN v, NEW k \in DOMAIN v
         PROVE  v[k].frame.no <= made + 1 /\ (j < k => Precedes(v[j], v[k]))
    <3>1. CASE k \in 1 .. Len(u)
      BY <2>2, <2>7, <2>8, <2>9, <3>1 DEF Precedes
    <3>2. CASE k = Len(u) + 1
      <4>1. v[k].frame.no = made + 1
        BY <2>2, <2>7, <3>2
      <4>2. j < k => j \in 1 .. Len(u)
        BY <2>7, <3>2, <2>10
      <4>. QED
        BY <2>2, <2>7, <2>9, <4>1, <4>2 DEF Precedes
    <3>3. CASE k = Len(u) + 2
      <4>1. v[k].frame.no = made + 1
        BY <2>2, <2>7, <3>3
      <4>2. j < k => j \in 1 .. Len(u) \/ j = Len(u) + 1
        BY <2>7, <3>3, <2>10
      <4>3. j = Len(u) + 1 => Precedes(v[j], v[k])
        BY <2>2, <2>7, <3>3, <4>1 DEF Precedes
      <4>. QED
        BY <2>2, <2>7, <2>9, <4>1, <4>2, <4>3 DEF Precedes
    <3>. QED
      BY <2>8, <3>1, <3>2, <3>3
  <2>11. SentInOrder(s)'
    BY <2>1, <2>6, <2>10 DEF SentInOrder, Precedes
  <2>12. ASSUME NEW asked \in Told(s)' PROVE Later(s, asked.no)'
    <3>1. Later(s, asked.no)
      BY <1>b, <2>1, <2>12 DEF OnlyLater, Told
    <3>2. asked.no \in Int
      <4>1. asked \in Told(s)
        BY <2>1, <2>12 DEF Told
      <4>. QED
        BY <1>b, <4>1, ToldTyped
    <3>3. \A k \in DOMAIN v : v[k].frame.no > asked.no
      <4>1. \A k \in 1 .. Len(u) : v[k].frame.no > asked.no
        BY <2>5, <2>7, <3>1 DEF Later, UnparsedLater
      <4>2. made + 1 > asked.no
        BY <2>2, <3>1, <3>2 DEF Later
      <4>. QED
        BY <2>2, <2>7, <2>8, <4>1, <4>2
    <3>4. UnparsedLater(s, asked.no)'
      BY <2>6, <3>3 DEF UnparsedLater
    <3>5. asked.no <= made'
      BY <2>1, <2>2, <3>1, <3>2 DEF Later
    <3>. QED
      BY <2>1, <3>1, <3>4, <3>5 DEF Later, QueuedLater, LoopLater
  <2>13. Kept(s)
    BY <1>b, <2>1, <2>11, <2>12, StreamSame DEF Kept, OnlyLater
  <2>. QED
    BY <2>3, <2>13
<1>4. ASSUME OnEvents
      PROVE  \A r \in Sockets : Kept(r)
  <2>1. /\ chunk = <<>> /\ UNCHANGED <<Assocs, wire, out, chunk, from, made>>
        /\ \E n \in 0 .. Len(rxq), m \in 0 .. Len(txq) :
             /\ todo' = Loops(SubSeq(rxq, 1, n) \o SubSeq(txq, 1, m))
             /\ txq' = SubSeq(txq, m + 1, Len(txq))
    BY <1>4 DEF OnEvents, Idle
  <2>2. PICK n \in 0 .. Len(rxq), m \in 0 .. Len(txq) :
          /\ todo' = Loops(SubSeq(rxq, 1, n) \o SubSeq(txq, 1, m))
          /\ txq' = SubSeq(txq, m + 1, Len(txq))
    BY <2>1
  <2>3. /\ SubSeq(rxq, 1, n) \in Seq(BusFrames) /\ SubSeq(txq, 1, m) \in Seq(Frames)
        /\ \A k \in DOMAIN SubSeq(txq, 1, m) : k \in DOMAIN txq /\ SubSeq(txq, 1, m)[k] = txq[k]
        /\ \A k \in DOMAIN txq' : k + m \in DOMAIN txq /\ txq'[k] = txq[k + m]
    BY <1>a, <2>2, Ends DEF PortTyped
  <2>4. PICK packets : packets = SubSeq(rxq, 1, n) \o SubSeq(txq, 1, m)
    OBVIOUS
  <2>5. packets \in Seq(Packets)
    BY <2>3, <2>4 DEF Packets
  <2>6. \A i \in DOMAIN packets :
          packets[i] \in BusFrames \/ \E k \in DOMAIN txq : packets[i] = txq[k]
    BY <2>3, <2>4
  <2>7. \A b \in BusFrames : b.from \notin Sockets
    BY SocketsAssumption DEF BusFrames, BusFrame, Nobody
  <2>8. ASSUME NEW r \in Sockets, NEW no, Later(r, no)
        PROVE  QueuedLater(r, no)' /\ \A k \in DOMAIN todo' : LoopLater(todo'[k], r, no)
    <3>1. QueuedLater(r, no)
      BY <2>8 DEF Later
    <3>2. QueuedLater(r, no)'
      BY <2>3, <3>1 DEF QueuedLater
    <3>3. \A i \in DOMAIN packets : packets[i].from = r => packets[i].no > no
      BY <2>6, <2>7, <3>1 DEF QueuedLater
    <3>4. \A k \in DOMAIN todo' : \E packet \in Packets :
            /\ packet \in {packets[i] : i \in DOMAIN packets}
            /\ todo'[k].item \in {Report(packet), LogLine(packet)}
      BY <2>2, <2>4, <2>5, ReportLoops
    <3>5. \A packet : /\ Report(packet).packet = packet
                      /\ LogLine(packet).what # "report"
      BY DEF Report, LogLine
    <3>. QED
      BY <3>2, <3>3, <3>4, <3>5 DEF LoopLater
  <2>9. \A r \in Sockets : Shrinks(r)
    <3>1. \A r \in Sockets : Unparsed(r)' = Unparsed(r)
      BY <2>1 DEF Unparsed
    <3>. QED
      BY <1>b, <2>1, <3>1, ShrinksIf
  <2>10. \A r \in Sockets : Told(r)' = Told(r) /\ Silent(r)'
    BY <1>b, <2>1, StreamSame
  <2>. QED
    BY <1>d, <2>8, <2>9, <2>10
<1>5. ASSUME WriteNext
      PROVE  \A r \in Sockets : Kept(r)
  <2>1. PICK s \in Assocs : Turn(s)
    BY <1>5 DEF WriteNext
  <2>2. s \in Sockets /\ todo # <<>> /\ UNCHANGED <<todo, chunk, from, made, txq>>
    BY <1>5, <1>a, <2>1 DEF WriteNext, Turn, ClientsTyped, portVars
  <2>3. PICK item : item = Head(todo).item
    OBVIOUS
  <2>4. item \in ItemSet /\ item.what # "answer" /\ Head(todo) = todo[1] /\ 1 \in DOMAIN todo
    <3>1. Head(todo) \in LoopSet /\ Head(todo) = todo[1] /\ 1 \in DOMAIN todo
      BY <1>a, <2>2 DEF HandlerTyped
    <3>. QED
      BY <2>2, <2>3, <3>1 DEF LoopSet, OrderKept, TodoOrdered, LoopOrdered
  <2>5. CASE UNCHANGED <<Assocs, asm, wire, out>>
    <3>1. \A r \in Sockets : Unparsed(r)' = Unparsed(r)
      BY <2>2, <2>5 DEF Unparsed
    <3>. QED
      BY <1>e, <2>2, <2>5, <3>1
  <2>6. CASE out' = [out EXCEPT ![s] = Append(@, item)] /\ UNCHANGED <<Assocs, asm, wire>>
    <3>1. \A r \in Sockets : Unparsed(r)' = Unparsed(r)
      BY <2>2, <2>6 DEF Unparsed
    <3>2. out'[s] = Append(out[s], item) /\ \A r \in Sockets \ {s} : out'[r] = out[r]
      BY <1>a, <2>2, <2>6 DEF ClientsTyped
    <3>3. ASSUME NEW r \in Sockets \ {s} PROVE Kept(r)
      BY <1>e, <2>2, <3>1, <3>2
    <3>4. \A f : item # Answer(f)
      BY <2>4 DEF Answer
    <3>5. item.what = "report" /\ item.packet.from = s =>
            \A asked \in Told(s) : item.packet.no > asked.no
      BY <1>b, <2>2, <2>3, <2>4 DEF OnlyLater, Later, LoopLater
    <3>6. Told(s)' = Told(s) /\ Silent(s)'
      BY <1>b, <2>2, <2>4, <3>2, <3>4, <3>5, StreamGrows
    <3>7. Kept(s)
      BY <1>b, <1>d, <2>2, <3>1, <3>6, ShrinksIf, LaterParts
    <3>. QED
      BY <3>3, <3>7
  <2>7. CASE Forget(s)
    <3>1. /\ out'[s] = <<>> /\ wire'[s] = <<>>
          /\ \A r \in Sockets \ {s} : out'[r] = out[r] /\ wire'[r] = wire[r]
      BY <1>a, <2>2, <2>7 DEF ClientsTyped, Forget
    <3>2. ASSUME NEW r \in Sockets \ {s} PROVE Kept(r)
      <4>1. Unparsed(r)' = Unparsed(r)
        BY <2>2, <3>1 DEF Unparsed
      <4>. QED
        BY <1>e, <2>2, <3>1, <4>1
    <3>3. Shrinks(s)
      <4>1. (IF from = s THEN chunk ELSE <<>>) \in Seq(Pieces)
        BY <1>a DEF HandlerTyped
      <4>2. PICK c \in Seq(Pieces) : c = IF from = s THEN chunk ELSE <<>>
        BY <4>1
      <4>3. Unparsed(s) = c \o wire[s] /\ Unparsed(s)' = c \o <<>>
        BY <2>2, <3>1, <4>2 DEF Unparsed
      <4>4. Unparsed(s)' = c
        BY <4>3
      <4>5. wire[s] \in Seq(Pieces) /\ Unparsed(s) \in Seq(Pieces)
        BY <1>b, <2>2
      <4>6. \E d, w \in Seq(Pieces) :
              /\ Unparsed(s) = d \o w
              /\ Unparsed(s)' = d \/ (d # <<>> /\ Unparsed(s)' = Tail(d))
        BY <4>2, <4>3, <4>4, <4>5, Zenon
      <4>. QED
        BY <2>2, <4>5, <4>6, ShrinksIf
    <3>4. Kept(s)
      BY <1>c, <2>2, <3>1, <3>3, StreamEmpty
    <3>. QED
      BY <3>2, <3>4
  <2>. QED
    BY <2>1, <2>3, <2>5, <2>6, <2>7 DEF Turn
<1>6. ASSUME LoopEnds
      PROVE  \A r \in Sockets : Kept(r)
  <2>1. todo # <<>> /\ todo' = Tail(todo) /\ UNCHANGED <<wire, out, chunk, from, made, txq>>
    BY <1>6 DEF LoopEnds, portVars
  <2>2. \A k \in DOMAIN todo' : k + 1 \in DOMAIN todo /\ todo'[k] = todo[k + 1]
    BY <1>a, <2>1 DEF HandlerTyped
  <2>3. ASSUME NEW r \in Sockets PROVE Kept(r)
    <3>1. Unparsed(r)' = Unparsed(r)
      BY <2>1 DEF Unparsed
    <3>2. \A no : Later(r, no) =>
            QueuedLater(r, no)' /\ \A k \in DOMAIN todo' : LoopLater(todo'[k], r, no)
      BY <2>1, <2>2, LaterParts
    <3>. QED
      BY <1>b, <1>d, <2>1, <3>1, <3>2, ShrinksIf, StreamSame
  <2>. QED
    BY <2>3
<1>7. ASSUME Parse
      PROVE  \A r \in Sockets : Kept(r)
  <2>0. PICK f : f = Head(chunk).frame
    OBVIOUS
  <2>1. /\ todo = <<>> /\ chunk # <<>> /\ chunk' = Tail(chunk) /\ UNCHANGED <<it, from, made>>
        /\ \/ NoAnswer /\ PortUntouched
           \/ Head(chunk).part = "tail" /\ (DataPacket(f) \/ ControlPacket(f))
    BY <1>7, <2>0 DEF Parse
  <2>2. Head(chunk) \in Pieces /\ chunk[1] = Head(chunk) /\ 1 \in DOMAIN chunk
    BY <1>a, <2>1 DEF HandlerTyped
  <2>3. f \in Frames /\ f.from = from /\ from \in Sockets
    <3>1. f \in Frames /\ f.from = from
      BY <1>a, <2>0, <2>2 DEF Pieces
    <3>. QED
      BY <3>1 DEF Frames
  <2>c. PICK s \in Sockets : s = from
    BY <2>3
  \* What the packet makes of the port, of the loops and of its client.
  <2>4. txq' \in {txq, <<>>, Append(txq, f)}
    BY <2>1, <2>3, ControlPacketEffects
    DEF PortUntouched, DataPacket, WritePacket, RestartPort, StopPort
  <2>5. \A r, no : \A k \in DOMAIN todo' : LoopLater(todo'[k], r, no)
    <3>1. todo' = <<>> \/ todo' = <<Loop(Wrapped(f), from)>>
      BY <2>1, <2>3, ControlPacketEffects DEF NoAnswer, DataPacket, SendToUI
    <3>. QED
      BY <3>1 DEF LoopLater, Loop, Wrapped
  <2>6. \/ UNCHANGED <<out, wire>>
        \/ /\ out' = [out EXCEPT ![s] = Append(@, Answer(f))] /\ wire' = wire
           /\ Head(chunk).part = "tail" /\ (f.kind = "cp" => txq' = <<>>)
        \/ out' = [out EXCEPT ![s] = <<>>] /\ wire' = [wire EXCEPT ![s] = <<>>]
    <3>1. CASE NoAnswer \/ DataPacket(f)
      BY <3>1 DEF NoAnswer, DataPacket
    <3>2. CASE Head(chunk).part = "tail" /\ ControlPacket(f)
      <4>1. SendToUI(f) \/ NoAnswer
        BY <2>3, <3>2, ControlPacketEffects
      <4>2. f.kind = "cp" => txq' = <<>>
        BY <3>2 DEF ControlPacket, StopPort
      <4>. QED
        BY <2>c, <3>1, <3>2, <4>1, <4>2 DEF SendToUI
    <3>. QED
      BY <2>1, <3>1, <3>2
  <2>7. \A r \in Sockets \ {s} : out'[r] = out[r] /\ wire'[r] = wire[r]
    BY <1>a, <2>3, <2>6 DEF ClientsTyped
  <2>8. ASSUME NEW r \in Sockets \ {s} PROVE Kept(r)
    <3>1. Unparsed(r)' = Unparsed(r)
      BY <2>1, <2>7, <2>c DEF Unparsed
    <3>2. ASSUME NEW no, Later(r, no) PROVE QueuedLater(r, no)'
      <4>1. txq \in Seq(Frames) /\ QueuedLater(r, no)
        BY <1>a, <3>2 DEF PortTyped, Later
      <4>2. CASE txq' = txq \/ txq' = <<>>
        BY <4>1, <4>2 DEF QueuedLater
      <4>3. CASE txq' = Append(txq, f)
        BY <2>3, <2>c, <2>8, <4>1, <4>3 DEF QueuedLater
      <4>. QED
        BY <2>4, <4>2, <4>3
    <3>. QED
      BY <1>b, <1>d, <2>1, <2>5, <2>7, <3>1, <3>2, ShrinksIf, StreamSame
  <2>9. Unparsed(s) = chunk \o wire[s] /\ Unparsed(s)' = Tail(chunk) \o wire'[s]
    BY <2>1, <2>c DEF Unparsed
  <2>10. /\ wire[s] \in Seq(Pieces) /\ chunk \in Seq(Pieces)
         /\ wire'[s] = wire[s] \/ wire'[s] = <<>>
    BY <1>a, <1>b, <2>3, <2>6 DEF HandlerTyped, ClientsTyped
  <2>11. Shrinks(s)
    <3>1. CASE wire'[s] = wire[s]
      <4>1. Unparsed(s) # <<>> /\ Unparsed(s)' = Tail(Unparsed(s))
        <5>1. Unparsed(s) # <<>>
          BY <2>1, <2>9, <2>10
        <5>. QED
          BY <2>1, <2>9, <2>10, <3>1, <5>1
      <4>. QED
        BY <1>b, <2>1, <2>3, <4>1, ShrinksIf
    <3>2. CASE wire'[s] = <<>>
      <4>1. Unparsed(s)' = Tail(chunk)
        BY <2>1, <2>9, <2>10, <3>2
      <4>. QED
        BY <1>b, <2>1, <2>3, <2>9, <2>10, <4>1, ShrinksIf
    <3>. QED
      BY <2>10, <3>1, <3>2
  <2>12. /\ 1 \in DOMAIN Unparsed(s) /\ Unparsed(s)[1] = Head(chunk)
    BY <2>1, <2>2, <2>9, <2>10
  \* Nothing is queued but this frame, which comes after all that were answered.
  <2>13. ASSUME NEW no, Later(s, no) PROVE QueuedLater(s, no)'
    <3>1. txq \in Seq(Frames) /\ QueuedLater(s, no) /\ f.no > no
      BY <1>a, <2>0, <2>12, <2>13 DEF PortTyped, Later, UnparsedLater
    <3>2. CASE txq' = txq \/ txq' = <<>>
      BY <2>1, <3>1, <3>2 DEF QueuedLater
    <3>3. CASE txq' = Append(txq, f)
      BY <2>1, <3>1, <3>3 DEF QueuedLater
    <3>. QED
      BY <2>4, <3>2, <3>3
  <2>14. Kept(s)
    <3>1. CASE UNCHANGED <<out, wire>>
      <4>1. Told(s)' = Told(s) /\ Silent(s)'
        BY <1>b, <2>3, <3>1, StreamSame
      <4>2. \A no : Later(s, no) =>
              QueuedLater(s, no)' /\ \A k \in DOMAIN todo' : LoopLater(todo'[k], s, no)
        BY <2>5, <2>13
      <4>. QED
        BY <1>d, <2>3, <2>11, <4>1, <4>2
    <3>2. CASE out' = [out EXCEPT ![s] = <<>>] /\ wire' = [wire EXCEPT ![s] = <<>>]
      <4>1. out'[s] = <<>>
        BY <1>a, <2>3, <3>2 DEF ClientsTyped
      <4>. QED
        BY <1>c, <2>3, <2>11, <4>1, StreamEmpty
    <3>3. CASE /\ out' = [out EXCEPT ![s] = Append(@, Answer(f))] /\ wire' = wire
               /\ Head(chunk).part = "tail" /\ (f.kind = "cp" => txq' = <<>>)
      <4>1. Answer(f) \in ItemSet /\ out'[s] = Append(out[s], Answer(f))
            /\ Answer(f).what = "answer"
        BY <1>a, <2>3, <3>3, ItemTypes DEF ClientsTyped, Answer
      <4>2. /\ Told(s)' = Told(s) \cup {g \in Frames : g.kind = "cp" /\ Answer(f) = Answer(g)}
            /\ Silent(s)'
        BY <1>b, <2>3, <4>1, StreamGrows
      <4>3. \A g \in Frames : Answer(f) = Answer(g) => f = g
        BY DEF Answer
      <4>4. ASSUME NEW asked \in Told(s) PROVE Later(s, asked.no)'
        <5>1. Later(s, asked.no)
          BY <1>b, <2>3, <4>4 DEF OnlyLater
        <5>. QED
          BY <1>b, <2>3, <2>5, <2>11, <2>13, <5>1, LaterStays
      <4>5. ASSUME f.kind = "cp" PROVE Later(s, f.no)'
        <5>1. f.no <= made /\ made' = made
          BY <1>b, <2>0, <2>1, <2>3, <2>12 DEF SentInOrder
        <5>2. \A k \in DOMAIN Unparsed(s)' :
                k + 1 \in DOMAIN Unparsed(s) /\ Unparsed(s)'[k] = Unparsed(s)[k + 1]
          <6>1. PICK c, w \in Seq(Pieces) : c = chunk /\ w = wire[s]
            BY <2>10
          <6>2. Unparsed(s) = c \o w /\ Unparsed(s)' = Tail(c) \o w
            BY <2>9, <3>3, <6>1
          <6>3. c # <<>>
            BY <2>1, <6>1
          <6>4. \A k \in DOMAIN (Tail(c) \o w) :
                  k + 1 \in DOMAIN (c \o w) /\ (Tail(c) \o w)[k] = (c \o w)[k + 1]
            BY <6>3
          <6>. QED
            BY <6>2, <6>4
        <5>3. \A k \in DOMAIN Unparsed(s)' : 1 < k + 1
          BY <1>b, <2>3
        <5>4. \A k \in DOMAIN Unparsed(s)' : Precedes(Head(chunk), Unparsed(s)'[k])
          BY <1>b, <2>3, <2>12, <5>2, <5>3 DEF SentInOrder
        <5>5. \A k \in DOMAIN Unparsed(s)' : Unparsed(s)'[k].frame.no > f.no
          <6>1. \A k \in DOMAIN Unparsed(s)' : Unparsed(s)'[k].frame.no \in Nat
            BY <1>b, PieceNumbers
          <6>2. \A k \in DOMAIN Unparsed(s)' : f.no < Unparsed(s)'[k].frame.no
            BY <2>0, <3>3, <5>4 DEF Precedes
          <6>. QED
            BY <2>3, <6>1, <6>2 DEF Frames
        <5>6. UnparsedLater(s, f.no)'
          BY <2>1, <5>5 DEF UnparsedLater
        <5>7. QueuedLater(s, f.no)'
          BY <3>3, <4>5 DEF QueuedLater
        <5>8. \A k \in DOMAIN todo' : LoopLater(todo'[k], s, f.no)
          BY <2>1, <2>5
        <5>. QED
          BY <5>1, <5>6, <5>7, <5>8 DEF Later
      <4>6. \A asked \in Told(s)' : Later(s, asked.no)'
        BY <4>2, <4>3, <4>4, <4>5
      <4>. QED
        BY <1>b, <2>1, <2>3, <2>11, <4>2, <4>6, ShrinksKeeps DEF Kept, OnlyLater
    <3>. QED
      BY <2>6, <3>1, <3>2, <3>3
  <2>. QED
    BY <2>8, <2>14
<1>8. ASSUME PortOpens \/ FrameArrives \/ UNCHANGED vars
      PROVE  \A r \in Sockets : Kept(r)
  <2>1. UNCHANGED <<wire, out, txq, todo, chunk, from, made>>
    BY <1>8 DEF PortOpens, FrameArrives, vars, handler
  <2>2. \A r \in Sockets : Unparsed(r)' = Unparsed(r)
    BY <2>1 DEF Unparsed
  <2>. QED
    BY <1>e, <2>1, <2>2
<1>9. \A r \in Sockets : Kept(r)
  BY <1>1, <1>2, <1>3, <1>4, <1>5, <1>6, <1>7, <1>8 DEF Next
<1>. QED
  BY <1>9 DEF Kept, SilenceKept

\* So it is always.
LEMMA SilenceInvariant == Spec => []SilenceKept
<1>1. Init => SilenceKept
  <2> SUFFICES ASSUME Init, NEW s \in Sockets
               PROVE  SentInOrder(s) /\ OnlyLater(s) /\ Silent(s)
    BY DEF SilenceKept
  <2>1. Unparsed(s) = <<>> /\ out[s] = <<>>
    BY DEF Init, Unparsed
  <2>. QED
    BY <2>1 DEF SentInOrder, OnlyLater, Told, Silent
<1>2. RelayInductive /\ OrderKept /\ SilenceKept /\ [Next]_vars => SilenceKept'
  BY SilenceStep
<1>. QED
  BY <1>1, <1>2, RelayInvariant, OrderInvariant, PTL DEF Spec

\* A client that was told its port is closed gets no report of a packet it gave
\* to that port: StopPort empties the queues before the answer, the reports of a
\* handler are written before the next one begins, and what the client sent
\* after the "cp" is a new frame.
THEOREM ClosedPortSilent == Spec => []ClosedMeansSilent
<1>1. RelayInductive /\ SilenceKept => ClosedMeansSilent
  BY DEF RelayInductive, TypeOK, SilenceKept, Silent, ClosedMeansSilent
<1>. QED
  BY <1>1, RelayInvariant, SilenceInvariant, PTL

-----------------------------------------------------------------------------
(* What the server makes of the port *)

\* A step of the port.
PortStep == [PortView!PortNext]_(PortView!portVars)

\* Whatever a packet makes of the port is a step of the port.
LEMMA PortCalled ==
  ASSUME NEW f \in Frames, port = "on" \/ ~WritePacket(f),
         WritePacket(f) \/ RestartPort \/ StopPort \/ PortUntouched
  PROVE  PortStep
<1>1. f \in Packets
  BY DEF Packets
<1>2. WritePacket(f) => PortView!Write
  BY <1>1 DEF WritePacket, PortView!Write
<1>3. RestartPort => PortView!Restart
  BY DEF RestartPort, PortView!Restart
<1>4. StopPort => PortView!Stop
  BY DEF StopPort, PortView!Stop
<1>5. PortUntouched => UNCHANGED PortView!portVars
  BY DEF PortUntouched, PortView!portVars
<1>. QED
  BY <1>2, <1>3, <1>4, <1>5 DEF PortStep, PortView!PortNext

\* Every step of the server is a step of the port or leaves it alone.
LEMMA ServerPortStep ==
  ASSUME TypeOK, [Next]_vars
  PROVE  PortStep
<1>1. UNCHANGED <<port, txq, rxq>> => PortStep
  BY DEF PortStep, PortView!portVars
<1>2. CASE PortOpens
  <2>1. PortView!Opens
    BY <1>2 DEF PortOpens, PortView!Opens
  <2>. QED
    BY <2>1 DEF PortStep, PortView!PortNext
<1>3. CASE FrameArrives
  <2>1. BusFrame(arrived + 1) \in Packets
    <3>1. arrived + 1 \in 1 .. MaxRx
      BY <1>3, BoundsAssumption DEF FrameArrives, TypeOK
    <3>. QED
      BY <3>1 DEF Packets, BusFrames
  <2>2. PortView!Arrives
    BY <1>3, <2>1 DEF FrameArrives, PortView!Arrives
  <2>. QED
    BY <2>2 DEF PortStep, PortView!PortNext
<1>4. CASE OnEvents
  <2>1. PortView!Report
    BY <1>4 DEF OnEvents, PortView!Report
  <2>. QED
    BY <2>1 DEF PortStep, PortView!PortNext
<1>5. CASE Parse
  <2> DEFINE f == Head(chunk).frame
  <2>1. chunk \in Seq(Pieces) /\ chunk # <<>>
    BY <1>5 DEF Parse, TypeOK
  <2>2. Head(chunk) \in Pieces
    BY <2>1
  <2>3. f \in Frames
    BY <2>2 DEF Pieces
  <2>4. (NoAnswer /\ PortUntouched) \/ DataPacket(f) \/ ControlPacket(f)
    BY <1>5 DEF Parse
  <2> HIDE DEF f
  <2>5. CASE PortUntouched
    BY <2>5, <1>1 DEF PortUntouched
  <2>6. CASE DataPacket(f)
    <3>1. (port = "on" /\ WritePacket(f)) \/ PortUntouched
      BY <2>6 DEF DataPacket
    <3>. QED
      BY <2>3, <2>5, <3>1, PortCalled
  <2>7. CASE ControlPacket(f)
    <3>1. \/ port = "on" /\ WritePacket(f)
          \/ RestartPort \/ StopPort \/ PortUntouched
      BY <2>7 DEF ControlPacket
    <3>2. RestartPort \/ StopPort => ~WritePacket(f) \/ PortStep
      BY <2>3
      DEF RestartPort, StopPort, PortStep, PortView!PortNext, PortView!Restart, PortView!Stop
    <3>. QED
      BY <2>3, <2>5, <3>1, <3>2, PortCalled
  <2>. QED
    BY <2>4, <2>5, <2>6, <2>7
<1>6. ASSUME NEW s \in Sockets, OnNewConnection(s) \/ Disconnected(s) \/ ReadyRead(s)
      PROVE  UNCHANGED <<port, txq, rxq>>
  BY <1>6 DEF OnNewConnection, Admit, Disconnected, ReadyRead, Take, portVars
<1>7. ASSUME NEW s \in Sockets, NEW kind \in Kinds, ClientSends(s, kind)
      PROVE  UNCHANGED <<port, txq, rxq>>
  BY <1>7 DEF ClientSends, portVars
<1>8. WriteNext \/ LoopEnds \/ UNCHANGED vars => UNCHANGED <<port, txq, rxq>>
  BY DEF WriteNext, Turn, LoopEnds, portVars, vars
<1>. QED
  BY <1>1, <1>2, <1>3, <1>4, <1>5, <1>6, <1>7, <1>8 DEF Next

\* The server asks of the port only what a PortService gives, which is what the
\* transporter implements: it writes only while the port is on, and takes its
\* reports from the front of both queues.
THEOREM ServerUsesPort == Spec => UsesPortService
<1>1. Init => PortView!PortInit
  BY DEF Init, PortView!PortInit
<1>2. TypeOK /\ [Next]_vars => [PortView!PortNext]_(PortView!portVars)
  BY ServerPortStep DEF PortStep
<1>. QED
  BY <1>1, <1>2, ServerTypeCorrect, PTL DEF Spec, UsesPortService, PortView!PortSpec
=============================================================================
