---------------------------- MODULE CanHatProofs ----------------------------
(***************************************************************************)
(* Proofs about CanHat, for any number of descriptors and frames and any   *)
(* size of the socket's buffer, however the two threads overlap.           *)
(***************************************************************************)
EXTENDS CanHat, SequenceTheorems, TLAPS

-----------------------------------------------------------------------------
\* What the threads know of each other.
ThreadsCoupled ==
  /\ reader = "none" <=> worker \in {"idle", "open"}
  /\ isOpened <=> worker \in {"run", "join"}
  /\ frame # <<>> <=> reader \in {"parsed", "pushing"}
  /\ reader = "none" => arrived = 0 /\ got = <<>> /\ RxQueue = <<>> /\ buffer = <<>>
CanHatInductive == TypeOK /\ ThreadsCoupled /\ FramesInPlace
                   /\ ReaderOnOwnSocket /\ OnlyFailedOpensLeak

\* The three steps that move frames along, in terms of all that are on the way.
LEMMA ReadMoves ==
  ASSUME TypeOK, Read, ~corrupt', frame # <<>> <=> reader \in {"parsed", "pushing"}
  PROVE  /\ OnTheWay # <<>> /\ OnTheWay' = Tail(OnTheWay)
         /\ \E packet \in {OnTheWay[1], Garbage} : got' = Append(got, packet)
<1>1. CASE ReadFront
  <2>1. RxQueue # <<>> /\ RxQueue \in Seq(Frames) /\ frame \in Seq(Frames) /\ buffer \in Seq(Frames)
    BY <1>1 DEF ReadFront, TypeOK
  <2>2. /\ OnTheWay # <<>> /\ OnTheWay[1] = Head(RxQueue)
        /\ Tail(OnTheWay) = Tail(RxQueue) \o frame \o buffer
    BY <2>1 DEF OnTheWay
  <2>. QED
    BY <1>1, <2>2 DEF ReadFront, Read, OnTheWay
<1>2. CASE ReadPushed
  <2>1. RxQueue = <<>> /\ UNCHANGED RxQueue /\ frame' = <<>> /\ UNCHANGED buffer
    BY <1>2 DEF ReadPushed, Read
  <2>2. PICK n \in Frames : frame = <<n>>
    <3>1. frame # <<>> /\ frame \in Seq(Frames) /\ Len(frame) <= 1
      BY <1>2 DEF ReadPushed, TypeOK
    <3>2. Len(frame) # 0
      BY <3>1, EmptySeq, Zenon
    <3>3. Len(frame) = 1 /\ frame[1] \in Frames
      <4>1. Len(frame) \in Nat /\ \A n \in Nat : n <= 1 /\ n # 0 => n = 1
        BY <3>1
      <4>2. Len(frame) = 1
        BY <3>1, <3>2, <4>1, Zenon
      <4>. QED
        BY <3>1, <4>2
    <3>4. frame = <<frame[1]>>
      BY <3>1, <3>3
    <3>. QED
      BY <3>3, <3>4
  <2>3. buffer \in Seq(Frames)
    BY DEF TypeOK
  <2>4. OnTheWay = <<n>> \o buffer /\ OnTheWay' = buffer
    BY <2>1, <2>2, <2>3 DEF OnTheWay
  <2>5. OnTheWay # <<>> /\ OnTheWay[1] = n /\ Tail(OnTheWay) = buffer
    BY <2>3, <2>4
  <2>. QED
    BY <1>2, <2>2, <2>4, <2>5 DEF ReadPushed
<1>3. CASE ReadTorn
  BY <1>3 DEF ReadTorn
<1>. QED
  BY <1>1, <1>2, <1>3 DEF Read

LEMMA ReaderMoves ==
  ASSUME TypeOK, frame # <<>> <=> reader \in {"parsed", "pushing"}, ReaderReads \/ PushEnds
  PROVE  OnTheWay' = OnTheWay
<1>1. RxQueue \in Seq(Frames) /\ frame \in Seq(Frames) /\ buffer \in Seq(Frames)
  BY DEF TypeOK
<1>2. CASE ReaderReads
  <2>1. frame = <<>> /\ buffer # <<>> /\ frame' = <<Head(buffer)>> /\ buffer' = Tail(buffer)
        /\ RxQueue' = RxQueue
    BY <1>2 DEF ReaderReads, TypeOK
  <2>2. RxQueue \o <<Head(buffer)>> \o Tail(buffer) = RxQueue \o <<>> \o buffer
    BY <1>1, <2>1
  <2>. QED
    BY <2>1, <2>2 DEF OnTheWay
<1>3. CASE PushEnds
  <2>1. RxQueue' = RxQueue \o frame /\ frame' = <<>> /\ buffer' = buffer
    BY <1>3 DEF PushEnds
  <2>2. RxQueue \o frame \o <<>> \o buffer = RxQueue \o frame \o buffer
    BY <1>1
  <2>. QED
    BY <2>1, <2>2 DEF OnTheWay
<1>. QED
  BY <1>2, <1>3

LEMMA ArrivalMoves ==
  ASSUME TypeOK, FrameArrives
  PROVE  OnTheWay' = Append(OnTheWay, arrived + 1)
<1>1. RxQueue \in Seq(Frames) /\ frame \in Seq(Frames) /\ buffer \in Seq(Frames)
  BY DEF TypeOK
<1>2. arrived + 1 \in Frames
  BY BoundsAssumption DEF FrameArrives, TypeOK, Frames
<1>3. RxQueue \o frame \o Append(buffer, arrived + 1) = Append(RxQueue \o frame \o buffer, arrived + 1)
  BY <1>1, <1>2
<1>. QED
  BY <1>3 DEF OnTheWay, FrameArrives

-----------------------------------------------------------------------------
\* Every step preserves type correctness ...
LEMMA TypeStep ==
  ASSUME TypeOK, ThreadsCoupled, FramesInPlace, [Next]_vars
  PROVE  TypeOK'
<1>1. ASSUME OpenNoSocket \/ OpenNoInterface \/ OpenBound \/ CreateCanHat PROVE TypeOK'
  <2>1. canSocketFd' \in Descriptors \cup {NoFd} /\ (isOpened' => canSocketFd' # NoFd)
    BY <1>1, DescriptorsAssumption
    DEF OpenNoSocket, OpenNoInterface, OpenBound, CreateCanHat, ThreadsCoupled, TypeOK, NoFd
  <2>2. RxQueue' \in Seq(Frames) /\ UNCHANGED <<frame, buffer, arrived, got, corrupt>>
    <3>1. CASE CreateCanHat
      BY <3>1 DEF CreateCanHat
    <3>2. CASE OpenNoSocket \/ OpenNoInterface \/ OpenBound
      BY <3>2 DEF OpenNoSocket, OpenNoInterface, OpenBound, TypeOK, sessionVars
    <3>. QED
      BY <1>1, <3>1, <3>2
  <2>3. descriptors' \subseteq Descriptors /\ leaked' \subseteq Descriptors
    BY <1>1 DEF OpenNoSocket, OpenNoInterface, OpenBound, CreateCanHat, TypeOK
  <2>4. /\ worker' \in {"idle", "open", "run", "join"}
        /\ reader' \in {"none", "check", "read", "parsed", "pushing", "done"}
        /\ threadFlag' \in BOOLEAN /\ isOpened' \in BOOLEAN
    BY <1>1 DEF OpenNoSocket, OpenNoInterface, OpenBound, CreateCanHat, TypeOK
  <2>. QED
    BY <2>1, <2>2, <2>3, <2>4 DEF TypeOK
<1>2. ASSUME ~corrupt, Read PROVE TypeOK'
  <2>1. got' \in Seq(Frames \cup {Garbage}) /\ RxQueue' \in Seq(Frames)
        /\ frame' \in Seq(Frames) /\ Len(frame') <= 1
    <3>1. CASE ReadFront
      BY <1>2, <3>1 DEF ReadFront, TypeOK
    <3>2. CASE ReadPushed
      <4>1. frame[1] \in Frames
        BY <3>2 DEF ReadPushed, ThreadsCoupled, TypeOK
      <4>. QED
        BY <3>2, <4>1 DEF ReadPushed, TypeOK
    <3>3. CASE ReadTorn
      BY <3>3 DEF ReadTorn, TypeOK
    <3>. QED
      BY <1>2, <3>1, <3>2, <3>3 DEF Read
  <2>2. reader' \in {"none", "check", "read", "parsed", "pushing", "done"} /\ corrupt' \in BOOLEAN
    BY <1>2 DEF Read, ReadFront, ReadPushed, ReadTorn, TypeOK
  <2>. QED
    BY <1>2, <2>1, <2>2 DEF Read, TypeOK, portVars
<1>3. ASSUME CloseBegins \/ CloseEnds PROVE TypeOK'
  <2>1. CASE CloseBegins
    BY <2>1 DEF CloseBegins, TypeOK, sessionVars
  <2>2. CASE CloseEnds
    <3>1. /\ RxQueue' \in Seq(Frames) /\ buffer' \in Seq(Frames)
          /\ got' \in Seq(Frames \cup {Garbage})
      BY <2>2 DEF CloseEnds, ClosesSocket
    <3>2. arrived' \in 0 .. MaxFrames + 1
      BY <2>2, BoundsAssumption DEF CloseEnds, ClosesSocket
    <3>. QED
      BY <2>2, <3>1, <3>2 DEF CloseEnds, ClosesSocket, TypeOK
  <2>. QED
    BY <1>3, <2>1, <2>2
<1>4. ASSUME ReaderChecks \/ ReaderReadFails \/ PushBegins PROVE TypeOK'
  BY <1>4 DEF ReaderChecks, ReaderReadFails, PushBegins, TypeOK, sessionVars, portVars
<1>5. ASSUME ReaderReads \/ PushEnds PROVE TypeOK'
  <2>1. frame \in Seq(Frames)
    BY DEF TypeOK
  <2>2. RxQueue' \in Seq(Frames) /\ buffer' \in Seq(Frames)
        /\ frame' \in Seq(Frames) /\ Len(frame') <= 1
    <3>1. CASE ReaderReads
      <4>1. Head(buffer) \in Frames /\ Tail(buffer) \in Seq(Frames)
        BY <3>1 DEF ReaderReads, TypeOK
      <4>. QED
        BY <3>1, <4>1 DEF ReaderReads, TypeOK
    <3>2. CASE PushEnds
      <4>1. RxQueue \o frame \in Seq(Frames)
        BY <2>1 DEF TypeOK
      <4>. QED
        BY <3>2, <4>1 DEF PushEnds, TypeOK
    <3>. QED
      BY <1>5, <3>1, <3>2
  <2>. QED
    BY <1>5, <2>2 DEF ReaderReads, PushEnds, TypeOK, portVars
<1>6. ASSUME FrameArrives PROVE TypeOK'
  <2>1. arrived + 1 \in Frames /\ arrived' \in 0 .. MaxFrames + 1
    BY <1>6, BoundsAssumption DEF FrameArrives, TypeOK, Frames
  <2>. QED
    BY <1>6, <2>1 DEF FrameArrives, TypeOK, portVars
<1>7. ASSUME UNCHANGED vars PROVE TypeOK'
  BY <1>7 DEF vars, sessionVars, portVars, TypeOK
<1>. QED
  BY <1>1, <1>2, <1>3, <1>4, <1>5, <1>6, <1>7 DEF Next, WorkerNext, ReaderNext, Halted

\* ... what the threads know of each other ...
LEMMA ThreadsStep ==
  ASSUME TypeOK, ThreadsCoupled, [Next]_vars
  PROVE  ThreadsCoupled'
<1>1. ASSUME OpenNoSocket \/ OpenNoInterface \/ OpenBound \/ CreateCanHat PROVE ThreadsCoupled'
  BY <1>1 DEF OpenNoSocket, OpenNoInterface, OpenBound, CreateCanHat, ThreadsCoupled,
              sessionVars, portVars
<1>2. ASSUME Read PROVE ThreadsCoupled'
  BY <1>2 DEF Read, ReadFront, ReadPushed, ReadTorn, ThreadsCoupled, portVars
<1>3. ASSUME CloseBegins \/ CloseEnds PROVE ThreadsCoupled'
  BY <1>3 DEF CloseBegins, CloseEnds, ClosesSocket, ThreadsCoupled, sessionVars
<1>4. ASSUME ReaderChecks \/ ReaderReadFails \/ PushBegins PROVE ThreadsCoupled'
  BY <1>4 DEF ReaderChecks, ReaderReadFails, PushBegins, ThreadsCoupled, sessionVars, portVars
<1>5. ASSUME ReaderReads \/ PushEnds PROVE ThreadsCoupled'
  <2>1. CASE ReaderReads
    BY <2>1 DEF ReaderReads, ThreadsCoupled, portVars
  <2>2. CASE PushEnds
    BY <2>2 DEF PushEnds, ThreadsCoupled, portVars
  <2>. QED
    BY <1>5, <2>1, <2>2
<1>6. ASSUME FrameArrives PROVE ThreadsCoupled'
  BY <1>6 DEF FrameArrives, ThreadsCoupled, portVars
<1>7. ASSUME UNCHANGED vars PROVE ThreadsCoupled'
  BY <1>7 DEF vars, sessionVars, portVars, ThreadsCoupled
<1>. QED
  BY <1>1, <1>2, <1>3, <1>4, <1>5, <1>6, <1>7 DEF Next, WorkerNext, ReaderNext, Halted

\* ... the descriptors ...
LEMMA DescriptorsStep ==
  ASSUME TypeOK, ThreadsCoupled, ReaderOnOwnSocket, OnlyFailedOpensLeak, [Next]_vars
  PROVE  ReaderOnOwnSocket' /\ OnlyFailedOpensLeak'
<1> USE DEF ReaderOnOwnSocket, OnlyFailedOpensLeak
<1>1. ASSUME OpenNoSocket \/ OpenNoInterface \/ CreateCanHat
      PROVE  ReaderOnOwnSocket' /\ OnlyFailedOpensLeak'
  BY <1>1 DEF OpenNoSocket, OpenNoInterface, CreateCanHat, ThreadsCoupled
<1>2. ASSUME OpenBound PROVE ReaderOnOwnSocket' /\ OnlyFailedOpensLeak'
  BY <1>2 DEF OpenBound, ThreadsCoupled
<1>3. ASSUME CloseEnds PROVE ReaderOnOwnSocket' /\ OnlyFailedOpensLeak'
  BY <1>3 DEF CloseEnds, ClosesSocket, ThreadsCoupled
<1>4. ASSUME \/ Read \/ CloseBegins \/ ReaderChecks \/ ReaderReadFails \/ PushBegins
             \/ ReaderReads \/ PushEnds \/ FrameArrives \/ UNCHANGED vars
      PROVE  /\ UNCHANGED <<isOpened, canSocketFd, descriptors, leaked>>
             /\ (reader' # "none" => reader # "none")
             /\ (worker \in {"run", "join"} => worker' \in {"run", "join"})
  BY <1>4 DEF Read, ReadFront, ReadPushed, ReadTorn, CloseBegins, ReaderChecks, ReaderReadFails,
              PushBegins, ReaderReads, PushEnds, FrameArrives, vars, portVars
<1>. QED
  BY <1>1, <1>2, <1>3, <1>4 DEF Next, WorkerNext, ReaderNext, Halted

\* ... and the frames.
LEMMA FramesStep ==
  ASSUME TypeOK, TypeOK', ThreadsCoupled, FramesInPlace, [Next]_vars
  PROVE  FramesInPlace'
<1>a. ~corrupt' => ~corrupt
  BY DEF Next, Halted, vars
<1>b. corrupt' => arrived' >= Block
  <2>1. CASE corrupt
    <3>1. UNCHANGED arrived
      BY <2>1 DEF Next, Halted, vars, sessionVars
    <3>. QED
      BY <2>1, <3>1 DEF FramesInPlace
  <2>2. CASE ~corrupt /\ corrupt'
    <3>1. Read /\ ReadTorn
      BY <2>2 DEF Next, Halted, vars, WorkerNext, ReaderNext, CreateCanHat, OpenNoSocket,
         OpenNoInterface, OpenBound, Read, ReadFront, ReadPushed, ReadTorn, CloseBegins,
         CloseEnds, ClosesSocket, ReaderChecks, ReaderReads, ReaderReadFails, PushBegins,
         PushEnds, FrameArrives
    <3>2. arrived' = arrived /\ reader = "pushing" /\ FillsBlock
      BY <3>1 DEF Read, ReadTorn
    <3>3. Len(got) + Len(OnTheWay) = arrived
      BY <2>2 DEF FramesInPlace
    <3>4. PICK q, f, b \in Seq(Frames) : q = RxQueue /\ f = frame /\ b = buffer
      BY DEF TypeOK
    <3>5. Len(f) \in Nat /\ Len(f) # 0
      <4>1. f # <<>>
        BY <3>2, <3>4 DEF ThreadsCoupled
      <4>. QED
        BY <4>1, EmptySeq
    <3>6. Len(q \o f \o b) = Len(q) + Len(f) + Len(b)
      OBVIOUS
    <3>7. Len(got) \in Nat /\ Len(q) \in Nat /\ Len(b) \in Nat /\ arrived \in Nat
      BY DEF TypeOK
    <3>8. Len(got) + Len(q) + 1 <= arrived
      BY <3>3, <3>4, <3>5, <3>6, <3>7 DEF OnTheWay
    <3>9. \A n \in Nat \ {0} : n % Block = 0 => n >= Block
      BY BlockAssumption
    <3>10. Len(got) + Len(q) + 1 >= Block
      BY <3>2, <3>4, <3>7, <3>9 DEF FillsBlock
    <3>. QED
      BY <3>2, <3>7, <3>8, <3>10, BlockAssumption
  <2>. QED
    BY <2>1, <2>2
<1> SUFFICES ASSUME ~corrupt, ~corrupt'
             PROVE  /\ Len(got') + Len(OnTheWay') = arrived'
                    /\ \A k \in DOMAIN got' : got'[k] \in {k, Garbage}
                    /\ \A k \in DOMAIN OnTheWay' : OnTheWay'[k] = Len(got') + k
  BY <1>a, <1>b DEF FramesInPlace
<1>1. /\ Len(got) + Len(OnTheWay) = arrived
      /\ \A k \in DOMAIN got : got[k] \in {k, Garbage}
      /\ \A k \in DOMAIN OnTheWay : OnTheWay[k] = Len(got) + k
  BY DEF FramesInPlace
<1>2. got \in Seq(Frames \cup {Garbage}) /\ OnTheWay \in Seq(Frames) /\ arrived \in Nat
  BY DEF TypeOK, OnTheWay
<1>3. ASSUME Read
      PROVE  /\ Len(got') + Len(OnTheWay') = arrived'
             /\ \A k \in DOMAIN got' : got'[k] \in {k, Garbage}
             /\ \A k \in DOMAIN OnTheWay' : OnTheWay'[k] = Len(got') + k
  <2>1. OnTheWay # <<>> /\ OnTheWay' = Tail(OnTheWay)
    BY <1>3, ReadMoves DEF ThreadsCoupled
  <2>2. PICK packet \in {OnTheWay[1], Garbage} : got' = Append(got, packet)
    BY <1>3, ReadMoves DEF ThreadsCoupled
  <2>3. arrived' = arrived
    BY <1>3 DEF Read
  <2>4. packet \in {Len(got) + 1, Garbage} /\ packet \in Frames \cup {Garbage}
    BY <1>1, <1>2, <2>1, <2>2
  <2>5. Len(got') = Len(got) + 1 /\ Len(OnTheWay') = Len(OnTheWay) - 1
    BY <1>2, <2>1, <2>2, <2>4
  <2>6. \A k \in DOMAIN got' : got'[k] \in {k, Garbage}
    BY <1>1, <1>2, <2>2, <2>4
  <2>7. \A k \in DOMAIN OnTheWay' : OnTheWay'[k] = Len(got') + k
    <3>1. \A k \in DOMAIN OnTheWay' : k \in Nat /\ k + 1 \in DOMAIN OnTheWay
                                      /\ OnTheWay'[k] = OnTheWay[k + 1]
      BY <1>2, <2>1
    <3>. QED
      BY <1>1, <1>2, <2>5, <3>1
  <2>. QED
    BY <1>1, <1>2, <2>3, <2>5, <2>6, <2>7
<1>4. ASSUME FrameArrives
      PROVE  /\ Len(got') + Len(OnTheWay') = arrived'
             /\ \A k \in DOMAIN got' : got'[k] \in {k, Garbage}
             /\ \A k \in DOMAIN OnTheWay' : OnTheWay'[k] = Len(got') + k
  <2>1. OnTheWay' = Append(OnTheWay, arrived + 1) /\ got' = got /\ arrived' = arrived + 1
    BY <1>4, ArrivalMoves DEF FrameArrives
  <2>2. Len(OnTheWay') = Len(OnTheWay) + 1
    BY <1>2, <2>1
  <2>3. \A k \in DOMAIN OnTheWay' : OnTheWay'[k] = Len(got) + k
    <3>1. PICK w \in Seq(Frames) : w = OnTheWay
      BY <1>2
    <3>2. PICK a : a = Append(w, arrived + 1)
      OBVIOUS
    <3>3. \A k \in DOMAIN a :
            /\ k \in 1 .. Len(w) + 1
            /\ a[k] = IF k = Len(w) + 1 THEN arrived + 1 ELSE w[k]
      BY <3>2
    <3>4. Len(got) + Len(w) = arrived /\ Len(got) \in Nat /\ Len(w) \in Nat
          /\ \A k \in 1 .. Len(w) : w[k] = Len(got) + k
      BY <1>1, <1>2, <3>1
    <3>5. \A k \in DOMAIN a : a[k] = Len(got) + k
      BY <3>3, <3>4
    <3>. QED
      BY <2>1, <3>1, <3>2, <3>5
  <2>. QED
    BY <1>1, <1>2, <2>1, <2>2, <2>3
<1>5. ASSUME ReaderReads \/ PushEnds
      PROVE  OnTheWay' = OnTheWay /\ UNCHANGED <<got, arrived>>
  BY <1>5, ReaderMoves DEF ThreadsCoupled, ReaderReads, PushEnds
<1>6. ASSUME \/ OpenNoSocket \/ OpenNoInterface \/ OpenBound \/ CloseBegins
             \/ ReaderChecks \/ ReaderReadFails \/ PushBegins \/ UNCHANGED vars
      PROVE  OnTheWay' = OnTheWay /\ UNCHANGED <<got, arrived>>
  BY <1>6 DEF OpenNoSocket, OpenNoInterface, OpenBound, CloseBegins, ReaderChecks,
              ReaderReadFails, PushBegins, vars, sessionVars, OnTheWay
<1>7. ASSUME CreateCanHat PROVE OnTheWay' = OnTheWay /\ UNCHANGED <<got, arrived>>
  <2>1. RxQueue = <<>> /\ RxQueue' = <<>> /\ UNCHANGED <<frame, buffer, got, arrived>>
    BY <1>7 DEF CreateCanHat, ThreadsCoupled
  <2>. QED
    BY <2>1 DEF OnTheWay
<1>8. ASSUME CloseEnds
      PROVE  OnTheWay' = <<>> /\ got' = <<>> /\ arrived' = 0
  <2>1. frame = <<>> /\ frame' = frame /\ RxQueue' = <<>> /\ buffer' = <<>>
        /\ got' = <<>> /\ arrived' = 0
    BY <1>8 DEF CloseEnds, ClosesSocket, ThreadsCoupled
  <2>. QED
    BY <2>1 DEF OnTheWay
<1>9. ASSUME OnTheWay' = <<>>, got' = <<>>, arrived' = 0
      PROVE  /\ Len(got') + Len(OnTheWay') = arrived'
             /\ \A k \in DOMAIN got' : got'[k] \in {k, Garbage}
             /\ \A k \in DOMAIN OnTheWay' : OnTheWay'[k] = Len(got') + k
  BY <1>9
<1>10. ASSUME OnTheWay' = OnTheWay, UNCHANGED <<got, arrived>>
       PROVE  /\ Len(got') + Len(OnTheWay') = arrived'
              /\ \A k \in DOMAIN got' : got'[k] \in {k, Garbage}
              /\ \A k \in DOMAIN OnTheWay' : OnTheWay'[k] = Len(got') + k
  BY <1>1, <1>10
<1>11. Halted => UNCHANGED vars
  BY DEF Halted
<1> HIDE DEF OnTheWay
<1>. QED
  BY <1>3, <1>4, <1>5, <1>6, <1>7, <1>8, <1>9, <1>10, <1>11 DEF Next, WorkerNext, ReaderNext

\* The invariant holds in the beginning.
LEMMA CanHatInit == Init => CanHatInductive
<1> SUFFICES ASSUME Init PROVE CanHatInductive
  OBVIOUS
<1>1. TypeOK /\ ThreadsCoupled
  <2>1. arrived \in 0 .. MaxFrames + 1
    BY BoundsAssumption DEF Init
  <2>2. RxQueue \in Seq(Frames) /\ buffer \in Seq(Frames) /\ got \in Seq(Frames \cup {Garbage})
        /\ frame \in Seq(Frames) /\ Len(frame) <= 1
    BY DEF Init
  <2>3. TypeOK
    BY <2>1, <2>2 DEF Init, TypeOK
  <2>. QED
    BY <2>3 DEF Init, ThreadsCoupled
<1>2. ReaderOnOwnSocket /\ OnlyFailedOpensLeak
  BY DEF Init, ReaderOnOwnSocket, OnlyFailedOpensLeak
<1>3. OnTheWay = <<>> /\ got = <<>> /\ arrived = 0
  BY DEF Init, OnTheWay
<1>4. FramesInPlace
  BY <1>3 DEF Init, FramesInPlace
<1>. QED
  BY <1>1, <1>2, <1>4 DEF CanHatInductive

\* The invariant of the two threads: it is preserved by every step of either,
\* of the bus, and of a session that opens, fails to open or closes.
THEOREM CanHatInvariant == Spec => []CanHatInductive
<1>1. CanHatInductive /\ [Next]_vars => CanHatInductive'
  BY TypeStep, ThreadsStep, DescriptorsStep, FramesStep DEF CanHatInductive
<1>. QED
  BY <1>1, CanHatInit, PTL DEF Spec

\* Reads that overlap pushes may spoil a frame, but never lose or double one or
\* change the order, until a read meets a push that fills a block of the deque; and
\* none of the first Block - 1 frames of a session makes such a push.
THEOREM FramesStayInPlace == Spec => []FramesInPlace
<1>1. CanHatInductive => FramesInPlace
  BY DEF CanHatInductive
<1>. QED
  BY <1>1, CanHatInvariant, PTL

\* The reader never reads a socket that was closed or that belongs to another
\* session.
THEOREM ReaderKeepsSocket == Spec => []ReaderOnOwnSocket
<1>1. CanHatInductive => ReaderOnOwnSocket
  BY DEF CanHatInductive
<1>. QED
  BY <1>1, CanHatInvariant, PTL

\* Descriptors are lost by failed opens only.
THEOREM DescriptorsAccounted == Spec => []OnlyFailedOpensLeak
<1>1. CanHatInductive => OnlyFailedOpensLeak
  BY DEF CanHatInductive
<1>. QED
  BY <1>1, CanHatInvariant, PTL
=============================================================================
